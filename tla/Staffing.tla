------------------------------ MODULE Staffing ------------------------------
(***************************************************************************)
(* What the pool promises of the workers that serve each node: until it is *)
(* stopped, one operation at a time, within the cap and the node's limit,  *)
(* only on nodes that may be scaled, never taking the last worker of a     *)
(* node and never on a node that rests after an operation, and nobody      *)
(* leaves who was not asked; once it is stopped, nobody is hired and the   *)
(* workers go.                                                             *)
(***************************************************************************)
EXTENDS Integers, FiniteSets

CONSTANTS
    Node, Cap,
    Limited, Limit,     \* some nodes have a limit of their own
    Elastic,    \* the nodes that may be scaled
    Initial     \* the workers each node has at first

VARIABLES
    staff,      \* workers of each node
    op,         \* the operation in progress and how far it got
    resting,    \* nodes that settle after an operation
    stopped     \* the pool is being stopped, or something failed

vars == <<staff, op, resting, stopped>>

None == <<"none", 0>>
Total == Cardinality(UNION {{n} \X (1..staff[n]) : n \in Node})

Init == staff = Initial /\ op = None /\ resting = {} /\ stopped = FALSE

\* Some nodes may have settled by the time the operation is chosen.
Rested(n) ==
    /\ ~stopped /\ op = None /\ n \in Elastic
    /\ resting' \subseteq resting /\ n \notin resting'
    /\ UNCHANGED stopped

Hire(n) ==
    /\ Rested(n)
    /\ Total < Cap /\ (n \in Limited => staff[n] < Limit[n])
    /\ staff' = [staff EXCEPT ![n] = @ + 1] /\ op' = <<"hired", n>>

Dismiss(n) ==
    /\ Rested(n)
    /\ staff[n] > 1
    /\ op' = <<"asked", n>> /\ UNCHANGED staff

Leave(n) ==
    /\ op = <<"asked", n>>
    /\ staff' = [staff EXCEPT ![n] = @ - 1] /\ op' = <<"left", n>>
    /\ UNCHANGED <<resting, stopped>>

Finish(n) ==
    /\ op \in {<<"hired", n>>, <<"left", n>>}
    /\ op' = None /\ resting' = resting \cup {n}
    /\ UNCHANGED <<staff, stopped>>

LeaveAndFinish(n) ==
    /\ op = <<"asked", n>>
    /\ staff' = [staff EXCEPT ![n] = @ - 1]
    /\ op' = None /\ resting' = resting \cup {n}
    /\ UNCHANGED stopped

Settle == resting' \subseteq resting /\ UNCHANGED <<staff, op, stopped>>

Stop == stopped' = TRUE /\ UNCHANGED <<staff, op, resting>>

\* A worker that nobody asked to leave goes because of a stop, or stops the pool
\* itself by its failure, which may end the operation in progress.
Depart(n) ==
    /\ stopped' = TRUE /\ op' \in {op, None}
    /\ staff[n] > 0 /\ staff' = [staff EXCEPT ![n] = @ - 1]
    /\ UNCHANGED resting

Next ==
    \/ Settle \/ Stop
    \/ \E n \in Node :
         \/ Hire(n) \/ Dismiss(n)
         \/ Leave(n) \/ Finish(n) \/ LeaveAndFinish(n)
         \/ Depart(n)

Spec == Init /\ [][Next]_vars
=============================================================================
