------------------------------- MODULE Graph -------------------------------
(***************************************************************************)
(* PipelineGraphBuilder and the checks Piper::start makes of the graph it  *)
(* is given, before any thread or channel exists.  A link is its index; a  *)
(* GraphLink is an index without an owner, so a link of another builder    *)
(* may be passed to this one.                                              *)
(***************************************************************************)
EXTENDS Integers, Sequences, FiniteSets, FiniteSetsExt

CONSTANTS
    Kinds,      \* the kinds of node a program adds by hand
    FeederLinks, \* the links it may make feeder links
    MaxNodes,   \* bound on the nodes added by hand
    MaxLinks    \* bound on the links created by hand, the input link included

ASSUME GraphAssumption ==
    /\ Kinds \subseteq {"managed", "merging", "anchor", "branch", "external", "misconfigured"}
    /\ FeederLinks \subseteq Nat
    /\ MaxNodes \in Nat /\ MaxLinks \in Nat \ {0}

VARIABLES
    phase,          \* "edges": pipeline! reads its edges; "edit"; "built"; "done"
    linkCount,
    nodes,          \* GraphNodeSpec: [kind, in, outs]
    feeders,        \* the links made feeder links
    outputLink,
    stateReturn,    \* "none", "state" or "merged" (StateReturnConfig)
    verdict         \* what the macro or start answered

graphVars == <<phase, linkCount, nodes, feeders, outputLink, stateReturn, verdict>>

AnyLink == 0 .. MaxLinks - 1
Branching == {"branch", "misconfigured"}    \* misconfigured: a zero target or half-life
NodeSpec(kind, in, outs) == [kind |-> kind, in |-> in, outs |-> outs]
Index == DOMAIN nodes

\* PipelineGraphBuilder::new
NewBuilder ==
    /\ linkCount = 1 /\ nodes = <<>> /\ feeders = {}
    /\ outputLink = 0 /\ stateReturn = "none" /\ verdict = "none"

-----------------------------------------------------------------------------
(* The builder's methods                                                   *)

Link ==
    /\ phase = "edit" /\ linkCount < MaxLinks
    /\ linkCount' = linkCount + 1
    /\ UNCHANGED <<phase, nodes, feeders, outputLink, stateReturn, verdict>>

Add(spec) ==
    /\ phase = "edit" /\ Len(nodes) < MaxNodes
    /\ nodes' = Append(nodes, spec)
    /\ UNCHANGED <<phase, feeders, outputLink, stateReturn, verdict>>

AddNodeTo(kind, in, out) ==
    kind \notin Branching /\ Add(NodeSpec(kind, in, {out})) /\ UNCHANGED linkCount

\* add_node and add_external_node create the output link themselves.
AddNode(kind, in) ==
    /\ kind \notin Branching /\ linkCount < MaxLinks
    /\ Add(NodeSpec(kind, in, {linkCount})) /\ linkCount' = linkCount + 1

AddBranchTo(kind, in, left, right) ==
    kind \in Branching /\ Add(NodeSpec(kind, in, {left, right})) /\ UNCHANGED linkCount

AddBranch(kind, in) ==
    /\ kind \in Branching /\ linkCount + 1 < MaxLinks
    /\ Add(NodeSpec(kind, in, {linkCount, linkCount + 1})) /\ linkCount' = linkCount + 2

FeederLink(link) ==
    /\ phase = "edit" /\ link \notin feeders
    /\ feeders' = feeders \cup {link}
    /\ UNCHANGED <<phase, linkCount, nodes, outputLink, stateReturn, verdict>>

\* finish, finish_with_state, finish_with_merged_state: an output link of
\* another builder widens this graph.
Finish(out, return) ==
    /\ phase = "edit" /\ phase' = "built"
    /\ outputLink' = out /\ stateReturn' = return
    /\ linkCount' = Max({linkCount, out + 1})
    /\ UNCHANGED <<nodes, feeders, verdict>>

-----------------------------------------------------------------------------
(* The checks of start                                                     *)

\* Seeded fault: a branch leads to its first arm only.
AdjacentFirst(n) == {m \in Index : nodes[m].in = Min(nodes[n].outs)}
\* validate_graph_is_acyclic: a node precedes the readers of its outputs.
Adjacent(n) == {m \in Index : nodes[m].in \in nodes[n].outs}

\* What a depth first search has marked so far, and whether it met a cycle.
Marks(S) == [cycle : BOOLEAN, temporary : SUBSET S, permanent : SUBSET S]
Unmarked == [cycle |-> FALSE, temporary |-> {}, permanent |-> {}]
VisitAll(visit, S, marks) == FoldSet(LAMBDA n, m : visit[n][m], marks, S)

\* The visit of both searches; visit has the visits of the children.
Visit(visit, children, n, marks) ==
    IF marks.cycle \/ n \in marks.permanent THEN marks
    ELSE IF n \in marks.temporary THEN [marks EXCEPT !.cycle = TRUE]
    ELSE LET below == VisitAll(visit, children[n],
                               [marks EXCEPT !.temporary = @ \cup {n}])
         IN  IF below.cycle THEN below
             ELSE [below EXCEPT !.temporary = @ \ {n}, !.permanent = @ \cup {n}]

Cyclic(S, children) ==
    LET visit[n \in S] == [marks \in Marks(S) |-> Visit(visit, children, n, marks)]
    IN  VisitAll(visit, S, Unmarked).cycle

Invalid(n) ==
    \/ n.in >= linkCount \/ \E l \in n.outs : l >= linkCount
    \/ n.kind = "misconfigured"
    \/ n.kind \in Branching /\ n.outs \cap feeders # {}

\* The managed nodes that feed the output link, and whether there is just one.
Producers == {n \in Index : outputLink \in nodes[n].outs}
Returner(n) == nodes[n].kind \in {"managed", "merging", "anchor"}

Verdict(cap, hintsOk) ==
    CASE nodes = <<>> -> "NoNodes"
      [] \E n \in Index : Invalid(nodes[n]) -> "InvalidNode"
      [] OTHER ->
    IF Cyclic(Index, [n \in Index |-> Adjacent(n)]) THEN "Cycle"
    ELSE IF stateReturn # "none" /\ ~ \E n \in Index : Producers = {n} /\ Returner(n)
         THEN "ReturnState"
    ELSE IF stateReturn = "merged" /\ ~ \A n \in Producers : nodes[n].kind = "merging"
         THEN "MissingStateMerge"
    ELSE IF cap = "zero" /\ \A n \in Index : nodes[n].kind # "anchor" THEN "WorkerCap"
    ELSE IF hintsOk THEN "ok" ELSE "ThreadHints"

\* hintsOk: resolve_thread_policy accepts every node's hints.
Start(cap, hintsOk) ==
    /\ phase = "built" /\ phase' = "done"
    /\ verdict' = Verdict(cap, hintsOk)
    /\ UNCHANGED <<linkCount, nodes, feeders, outputLink, stateReturn>>

BuilderNext ==
    \/ Link
    \/ \E kind \in Kinds, in, out \in AnyLink : AddNodeTo(kind, in, out)
    \/ \E kind \in Kinds, in \in AnyLink : AddNode(kind, in) \/ AddBranch(kind, in)
    \/ \E kind \in Kinds, in, left, right \in AnyLink : AddBranchTo(kind, in, left, right)
    \/ \E link \in FeederLinks : FeederLink(link)
    \/ \E out \in AnyLink, return \in {"none", "state", "merged"} : Finish(out, return)
    \/ \E cap \in {"default", "zero"}, hintsOk \in BOOLEAN : Start(cap, hintsOk)
=============================================================================
