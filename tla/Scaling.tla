------------------------------ MODULE Scaling -------------------------------
(***************************************************************************)
(* The scaling policy of the supervisor, before a shutdown and without     *)
(* failures: every iteration of its loop samples links and nodes and, when *)
(* no operation is pending, chooses at most one.  A number that a choice   *)
(* only compares is abstracted to the outcome of the comparison.           *)
(***************************************************************************)
EXTENDS Integers, FiniteSets

CONSTANTS
    NumNodes, NumLinks,     \* both are scanned in the order of their index
    Policy,                 \* [Node -> ThreadPolicy]
    Anchor,                 \* nodes marked as anchors
    Merges,                 \* nodes with a merge function
    InputOf, FirstOut, Outs,
    OutputLink,
    Threads,                \* fixed, or initial, number of threads of a node
    MaxThreads,             \* limit of a scalable node
    ConfiguredCap,
    Trends                  \* [Link -> SUBSET Trend], the trends a link may have

Node == 1..NumNodes
Link == 1..NumLinks
ThreadPolicy == {"fixed", "scalable", "support", "branch", "external"}
\* Growing, FastGrowing and Runaway are one here, as are Draining and
\* FastDraining: no choice tells them apart.
Trend == {"starved", "draining", "stable", "growing"}

ASSUME ScalingAssumption ==
    /\ NumNodes \in Nat /\ NumLinks \in Nat /\ ConfiguredCap \in Nat
    /\ Policy \in [Node -> ThreadPolicy]
    /\ Anchor \subseteq Node /\ Merges \subseteq Node
    /\ InputOf \in [Node -> Link] /\ Outs \in [Node -> SUBSET Link]
    /\ FirstOut \in [Node -> Link] /\ \A n \in Node : FirstOut[n] \in Outs[n]
    /\ OutputLink \in Link
    /\ Threads \in [Node -> Nat \ {0}] /\ MaxThreads \in [Node -> Nat \ {0}]
    /\ Trends \in [Link -> SUBSET Trend]

Scalable == {n \in Node : Policy[n] = "scalable"}
Support == {n \in Node : Policy[n] = "support"}
Elastic == Scalable \cup Support

VARIABLES
    count,      \* active_by_node[n].len()
    settling,   \* nodes whose scaling_state is Settling
    seen,       \* their samples so far, and whether one of them saw work
    timer,      \* scale_down_eligible_since: "off", "on", or for long enough
    pending,    \* pending_scale
    wanting,    \* history: the nodes the last choice could have given a worker
    donated     \* history: a worker taken from an anchor for other nodes

rest == <<settling, seen>>
history == <<wanting, donated>>
vars == <<count, rest, timer, pending, history>>

NoOp == [kind |-> "none", node |-> 0]
Kept == [from |-> 0, to |-> {}]
\* The workers of f[n] for each node n.
Size(f) == Cardinality(UNION {{n} \X (1..f[n]) : n \in Node})
Total == Size(count)

SettleSamples == 2
Unseen == [samples |-> 0, worked |-> FALSE]

-----------------------------------------------------------------------------
(* Start.                                                                  *)

Least(a, b) == IF a < b THEN a ELSE b
Most(a, b) == IF a < b THEN b ELSE a

StartupWorkers(n) ==
    CASE Policy[n] = "external" -> 0
      [] Policy[n] = "fixed" -> Threads[n]
      [] Policy[n] = "scalable" -> Least(Threads[n], MaxThreads[n])
      [] OTHER -> 1

Startup == [n \in Node |-> StartupWorkers(n)]
Cap == Most(ConfiguredCap, Most(NumNodes, Size(Startup)))

Init ==
    /\ count = Startup /\ pending = NoOp
    /\ settling = {} /\ seen = [n \in Node |-> Unseen]
    /\ timer = [n \in Node |-> "off"]
    /\ wanting = {} /\ donated = Kept

-----------------------------------------------------------------------------
(* Samples.  work: the settling nodes that processed an item since the     *)
(* last sample.  under: the scalable nodes that are underutilized, with a  *)
(* backlog of at most low_queue_seconds and less busy than                 *)
(* underutilized_busy_ratio.  late: those for which scale_down_after has   *)
(* passed since their timer was set.                                       *)

SampleOf(n, work) ==
    [samples |-> Least(seen[n].samples + 1, SettleSamples),
     worked |-> seen[n].worked \/ n \in work]

\* Seeded fault: the first sample ends settling.
SettledAtOnce(work) == {n \in settling : SampleOf(n, work).worked}

Settled(work) ==
    {n \in settling : SampleOf(n, work).samples = SettleSamples /\ SampleOf(n, work).worked}

\* What a node has seen is not read again once it has settled.
SampleNodes(work, under, late) ==
    /\ settling' = settling \ Settled(work)
    /\ seen' = [n \in Node |-> IF n \in settling' THEN SampleOf(n, work) ELSE Unseen]
    /\ timer' = [n \in Node |->
                   CASE n \notin under -> "off"
                     [] n \in under /\ (timer[n] = "due" \/ n \in late) -> "due"
                     [] OTHER -> "on"]

\* What a choice reads of the samples.  over: scalable nodes with more backlog
\* than target_queue_seconds; pressed: anchors that are busy for more than 0.60;
\* thin: anchors with at most two items for each worker on their input; short,
\* spare: nodes with fewer, or more, workers than desired_workers.
Sample ==
    [trend : {t \in [Link -> Trend] : \A l \in Link : t[l] \in Trends[l]},
     under : SUBSET Scalable, over : SUBSET Scalable,
     pressed : SUBSET Anchor, thin : SUBSET Anchor,
     short : SUBSET Elastic, spare : SUBSET Support]

\* A link is starved when it is empty and nothing moves; desired_workers is at
\* least 1 and at most max_threads, and more than 1 for a backlog over target.
\* underutilized_busy_ratio is taken to be at most 0.60, low_queue_seconds at
\* most target_queue_seconds.
Consistent(s) ==
    /\ s.under \cap (s.over \cup s.pressed) = {}
    /\ s.short \cap s.spare = {}
    /\ \A n \in Scalable : s.trend[InputOf[n]] = "starved" => n \notin s.over
    /\ \A n \in Anchor : s.trend[InputOf[n]] = "starved" => n \in s.thin
    /\ \A n \in s.short \cap Scalable : count[n] < MaxThreads[n]
    /\ \A n \in s.over : count[n] < Least(2, MaxThreads[n]) => n \in s.short
    /\ \A n \in s.spare : count[n] > 1

-----------------------------------------------------------------------------
(* The choice, after the sample.                                           *)

Growing(s, l) == s.trend[l] = "growing"
\* The scaling state is Merging only while a merge is pending.
CanScale(n) == n \in Elastic \ settling'
Blocked(s, n) == Growing(s, OutputLink) \/ Growing(s, FirstOut[n])
Short(s) == {n \in s.short : CanScale(n) /\ ~Blocked(s, n)}

Operation(kind, S) == [kind : {kind}, node : S]
First(S) == {n \in S : \A m \in S : n <= m}
FirstConsumer(S) ==
    {n \in S : \A m \in S : \/ InputOf[n] < InputOf[m]
                            \/ InputOf[n] = InputOf[m] /\ n <= m}

Donors(n) == {a \in (Anchor \cap Scalable) \ {n} : count[a] > 1 /\ CanScale(a)}

\* Seeded faults: the cap is taken to be one higher, or one lower.
AddOverCap(S) ==
    IF Total <= Cap
    THEN Operation("add", S)
    ELSE UNION {Operation("remove", First(Donors(n))) : n \in S}

AddBelowCapOnly(S) ==
    IF Total + 1 < Cap
    THEN Operation("add", S)
    ELSE UNION {Operation("remove", First(Donors(n))) : n \in S}

AddOrRebalance(S) ==
    IF Total < Cap
    THEN Operation("add", S)
    ELSE UNION {Operation("remove", First(Donors(n))) : n \in S}

WantingScalable(s) ==
    {n \in Short(s) \cap Scalable :
        count[n] < MaxThreads[n] /\ (n \in s.over \/ Growing(s, InputOf[n]))}
WantingSupport(s) == {n \in Short(s) \cap Support : Growing(s, InputOf[n])}
Underfed(s) ==
    {a \in s.pressed \ s.over :
        \/ s.trend[InputOf[a]] = "starved"
        \/ s.trend[InputOf[a]] = "draining" /\ a \in s.thin}
Feeders(s, a) ==
    {p \in Short(s) : InputOf[a] \in Outs[p] /\ s.trend[InputOf[p]] # "starved"}
Fed(s) == {a \in Underfed(s) : Feeders(s, a) # {}}

ScalableUp(s) == IF Total < Cap THEN Operation("add", First(WantingScalable(s))) ELSE {}
SupportUp(s) == AddOrRebalance(FirstConsumer(WantingSupport(s)))
AnchorPressure(s) ==
    AddOrRebalance(UNION {First(Feeders(s, a)) : a \in First(Fed(s))})

\* Seeded fault: the last worker may be removed.
CrowdedToZero(s) ==
    {n \in Scalable : CanScale(n) /\ ~Blocked(s, n) /\ timer'[n] = "due"}

\* A timer that is due was set when the backlog was low, in this sample too.
Crowded(s) ==
    {n \in Elastic : count[n] > 1 /\ CanScale(n) /\ ~Blocked(s, n)
                     /\ IF n \in Scalable
                        THEN timer'[n] = "due"
                        ELSE n \in s.spare /\ ~Growing(s, InputOf[n])}
ScaleDown(s) == Operation("remove", First(Crowded(s)))

Else(A, B) == IF A # {} THEN A ELSE B

\* Seeded fault: scaling down comes first.
ChooseDownFirst(s) ==
    Else(ScaleDown(s),
    Else(ScalableUp(s), Else(SupportUp(s), Else(AnchorPressure(s), {NoOp}))))

Choose(s) ==
    Else(ScalableUp(s),
    Else(SupportUp(s), Else(AnchorPressure(s), Else(ScaleDown(s), {NoOp}))))

WantingNodes(s) ==
    WantingScalable(s) \cup WantingSupport(s) \cup UNION {Feeders(s, a) : a \in Fed(s)}

-----------------------------------------------------------------------------
(* The supervisor's loop.                                                  *)

\* An iteration while an operation is pending.
Wait(work, under, late) ==
    /\ pending # NoOp
    /\ SampleNodes(work, under, late)
    /\ UNCHANGED <<count, pending, history>>

\* The worker of an addition is on the roster at once; one that is removed
\* leaves it with its last event.
Begin(op) ==
    /\ count' = IF op.kind = "add" THEN [count EXCEPT ![op.node] = @ + 1] ELSE count
    /\ pending' = IF op.kind = "remove" /\ op.node \in Merges
                  THEN [op EXCEPT !.kind = "merge"] ELSE op

\* The nodes a removal makes room for, until they are served or lose interest.
Donated(op, wants) ==
    CASE op.kind = "add" -> Kept
      [] op.kind = "remove" /\ Total >= Cap -> [from |-> op.node, to |-> wants \ {op.node}]
      [] OTHER -> [donated EXCEPT !.to = @ \cap wants]

Scale(s, work, late) ==
    /\ pending = NoOp
    /\ Consistent(s)
    /\ SampleNodes(work, s.under, late)
    /\ wanting' = WantingNodes(s)
    /\ \E op \in Choose(s) : Begin(op) /\ donated' = Donated(op, wanting')

Iterate ==
    \E work \in SUBSET settling :
      \/ \E under \in SUBSET Scalable : \E late \in SUBSET under : Wait(work, under, late)
      \/ \E s \in Sample : \E late \in SUBSET s.under : Scale(s, work, late)

-----------------------------------------------------------------------------
(* Events.                                                                 *)

MarkSettling(n) ==
    settling' = settling \cup {n} /\ seen' = [seen EXCEPT ![n] = Unseen]
Complete(n) ==
    /\ pending' = NoOp /\ MarkSettling(n)
    /\ UNCHANGED <<timer, history>>
RemoveWorker(n) == count' = [count EXCEPT ![n] = @ - 1]

\* The added worker has started.
AddDone(n) ==
    /\ pending = [kind |-> "add", node |-> n]
    /\ Complete(n) /\ UNCHANGED count

\* The retired worker has parked.
RemoveDone(n) ==
    /\ pending = [kind |-> "remove", node |-> n]
    /\ Complete(n) /\ RemoveWorker(n)

\* The retired worker has parked and handed its state to another, which has it
\* merged later.
HandedOver(n) ==
    /\ pending = [kind |-> "merge", node |-> n]
    /\ pending' = [pending EXCEPT !.kind = "handed over"]
    /\ RemoveWorker(n)
    /\ UNCHANGED <<rest, timer, history>>

MergeDone(n) ==
    /\ pending = [kind |-> "handed over", node |-> n]
    /\ Complete(n) /\ UNCHANGED count

Event ==
    \E n \in Node : AddDone(n) \/ RemoveDone(n) \/ HandedOver(n) \/ MergeDone(n)

Next == Iterate \/ Event

Spec == Init /\ [][Next]_vars

\* The supervisor's loop never stops, and a worker answers an assignment or a
\* retire request between two items.
FairSpec == Spec /\ WF_vars(Iterate) /\ WF_vars(Event)

-----------------------------------------------------------------------------
(* Properties.                                                             *)

\* Every variable keeps its type; the count of workers never drops below zero.
TypeOK ==
    /\ count \in [Node -> Nat]
    /\ settling \subseteq Node
    /\ seen \in [Node -> [samples : 0..SettleSamples, worked : BOOLEAN]]
    /\ timer \in [Node -> {"off", "on", "due"}]
    /\ pending \in {NoOp} \cup
                  [kind : {"add", "remove", "merge", "handed over"}, node : Elastic]
    /\ wanting \subseteq Elastic
    /\ donated \in [from : {0} \cup Node, to : SUBSET Elastic]

\* The pending operation in the terms of Staffing.
opOf ==
    CASE pending.kind = "none" -> <<"none", 0>>
      [] pending.kind = "add" -> <<"hired", pending.node>>
      [] pending.kind = "handed over" -> <<"left", pending.node>>
      [] OTHER -> <<"asked", pending.node>>

S == INSTANCE Staffing WITH
       Limited <- Scalable, Limit <- MaxThreads, Initial <- Startup,
       staff <- count, op <- opOf, resting <- settling,
       stopped <- FALSE

\* choose_scale_operation in the terms of Staffing: an operation begins only
\* when none is pending, on a node that has settled, adds no worker beyond the
\* cap or the node's limit and removes none from a node with a single one;
\* however long the sequence of operations, merges and samples.
KeepsStaffed == S!Spec

\* While there is room below the cap, no node loses a worker if some node that
\* may be scaled waits for one: a removal is not chosen before an addition.
RemovalsWait ==
    [][ pending = NoOp /\ pending'.kind \in {"remove", "merge"} /\ Total < Cap
          => wanting' = {} ]_vars

\* A worker taken from an anchor at the cap does not go back to the anchor
\* while a node it was taken for still waits: the anchor is settling when the
\* next operation is chosen.
DonationsArrive ==
    [][ pending = NoOp /\ pending' = [kind |-> "add", node |-> donated.from]
          => donated.to \cap wanting' = {} ]_vars

\* A node that waits for a worker is passed over for ever only if all workers
\* of the cap keep being used.
NeedIsServed ==
    \A n \in Elastic : <>[](n \in wanting) => []<>(Total >= Cap)
=============================================================================
