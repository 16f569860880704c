------------------------------ MODULE MCParts ------------------------------
(***************************************************************************)
(* One instance for TLC of each component that is checked by itself: the   *)
(* graph from its edges to start's verdict, the start of an accepted       *)
(* graph, the buffer leases of a node and the weighted branch.  A          *)
(* behaviour is one of a single part; the others keep their initial state. *)
(***************************************************************************)
EXTENDS PipelineMacro, Startup, Lease, WeightedBranch

VARIABLE part

partsVars == <<part, declareVars, startVars, leaseVars, branchVars>>

\* The expression of a wraps a merging node in one that does not merge.
Nodes3 == <<[name |-> "a", kind |-> "managed", marked |-> TRUE],
            [name |-> "b", kind |-> "merging", marked |-> TRUE],
            [name |-> "c", kind |-> "external", marked |-> FALSE]>>

\* a scalable node, a branch, a support node behind the right arm; behind the left
\* one an external node, whose output is a feeder link that a fixed node reads.
Forked == <<[policy |-> "scalable", count |-> 2, in |-> 0, outs |-> {1}],
            [policy |-> "branch", count |-> 1, in |-> 1, outs |-> {2, 3}],
            [policy |-> "external", count |-> 1, in |-> 2, outs |-> {4}],
            [policy |-> "fixed", count |-> 1, in |-> 4, outs |-> {5}],
            [policy |-> "support", count |-> 1, in |-> 3, outs |-> {5}]>>

Init ==
    /\ part \in {"graph", "start", "lease", "branch"}
    /\ DeclareInit /\ (part # "graph" => phase = "edges")
    /\ StartInit /\ LeaseInit /\ BranchInit

Next ==
    /\ UNCHANGED part
    /\ \/ part = "graph" /\ DeclareNext /\ UNCHANGED <<startVars, leaseVars, branchVars>>
       \/ part = "start" /\ StartNext /\ UNCHANGED <<declareVars, leaseVars, branchVars>>
       \/ part = "lease" /\ LeaseNext /\ UNCHANGED <<declareVars, startVars, branchVars>>
       \/ part = "branch" /\ BranchNext /\ UNCHANGED <<declareVars, startVars, leaseVars>>

PartsSpec == Init /\ [][Next]_partsVars

\* Every variable of every part has its type.
PartsTypeOK == GraphTypeOK /\ StartTypeOK /\ LeaseTypeOK /\ BranchTypeOK
=============================================================================
