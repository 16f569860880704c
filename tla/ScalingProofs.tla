---------------------------- MODULE ScalingProofs ----------------------------
(***************************************************************************)
(* Proofs about Scaling: the choices it makes keep every node staffed      *)
(* within the limits, and an addition comes before a removal, for every    *)
(* graph, policy and cap.                                                  *)
(***************************************************************************)
EXTENDS Scaling, FiniteSetTheorems, WellFoundedInduction, TLAPS

\* A node with a removal under way has another worker left.
RemovalLeavesOne ==
    pending.kind \in {"remove", "merge"} => count[pending.node] > 1

ScalingInv == TypeOK /\ RemovalLeavesOne

-----------------------------------------------------------------------------
(* What a choice may be.                                                   *)

\* What an operation needs of the node it is chosen for.
Allowed(op) ==
    /\ op \in [kind : {"add", "remove"}, node : Elastic \ settling']
    /\ op.kind = "add" =>
         Total < Cap /\ (op.node \in Scalable => count[op.node] < MaxThreads[op.node])
    /\ op.kind = "remove" => count[op.node] > 1

LEMMA ElasticNodes == Elastic \subseteq Node /\ Scalable \subseteq Elastic
  BY DEF Elastic, Scalable, Support

LEMMA ShortHasRoom ==
    ASSUME NEW s \in Sample, Consistent(s), NEW n \in Short(s)
    PROVE  /\ n \in Elastic \ settling'
           /\ n \in Scalable => count[n] < MaxThreads[n]
  BY DEF Short, CanScale, Consistent

\* An addition is for a node that is short; a rebalance takes from a donor.
LEMMA AddOrRebalanceAllowed ==
    ASSUME NEW s \in Sample, Consistent(s), NEW N \in SUBSET Short(s),
           NEW op \in AddOrRebalance(N)
    PROVE  Allowed(op)
<1>1. CASE Total < Cap
  <2>1. op \in [kind : {"add"}, node : N]
    BY <1>1 DEF AddOrRebalance, Operation
  <2> QED
    BY <1>1, <2>1, ShortHasRoom DEF Allowed
<1>2. CASE ~(Total < Cap)
  <2>1. PICK n \in N : op \in [kind : {"remove"}, node : First(Donors(n))]
    BY <1>2 DEF AddOrRebalance, Operation
  <2>2. \A m \in First(Donors(n)) : m \in Elastic \ settling' /\ count[m] > 1
    BY DEF First, Donors, CanScale
  <2> QED
    BY <2>1, <2>2 DEF Allowed
<1> QED
  BY <1>1, <1>2

LEMMA ChoiceAllowed ==
    ASSUME NEW s \in Sample, Consistent(s), NEW op \in Choose(s)
    PROVE  op = NoOp \/ Allowed(op)
<1>1. op \in ScalableUp(s) => Allowed(op)
  <2> SUFFICES ASSUME op \in ScalableUp(s) PROVE Allowed(op)
    OBVIOUS
  <2>1. Total < Cap /\ op \in [kind : {"add"}, node : First(WantingScalable(s))]
    BY DEF ScalableUp, Operation
  <2>2. First(WantingScalable(s)) \subseteq Short(s)
    BY DEF WantingScalable, First
  <2> QED
    BY <2>1, <2>2, ShortHasRoom DEF Allowed
<1>2. op \in SupportUp(s) => Allowed(op)
  <2>1. FirstConsumer(WantingSupport(s)) \in SUBSET Short(s)
    BY DEF FirstConsumer, WantingSupport
  <2> QED
    BY <2>1, AddOrRebalanceAllowed DEF SupportUp
<1>3. op \in AnchorPressure(s) => Allowed(op)
  <2>1. UNION {First(Feeders(s, a)) : a \in First(Fed(s))} \in SUBSET Short(s)
    BY DEF First, Feeders
  <2> QED
    BY <2>1, AddOrRebalanceAllowed DEF AnchorPressure
<1>4. op \in ScaleDown(s) => Allowed(op)
  <2>1. op \in ScaleDown(s) => op \in [kind : {"remove"}, node : First(Crowded(s))]
    BY DEF ScaleDown, Operation
  <2>2. \A m \in First(Crowded(s)) : m \in Elastic \ settling' /\ count[m] > 1
    BY DEF First, Crowded, CanScale
  <2> QED
    BY <2>1, <2>2 DEF Allowed
<1> QED
  BY <1>1, <1>2, <1>3, <1>4 DEF Choose, Else

-----------------------------------------------------------------------------
(* Types and the inductive invariant.                                      *)

\* A sample only settles nodes.
LEMMA SampleTypes ==
    ASSUME ScalingInv, NEW work, NEW under, NEW late, SampleNodes(work, under, late)
    PROVE  /\ settling' \subseteq settling
           /\ seen' \in [Node -> [samples : 0..SettleSamples, worked : BOOLEAN]]
           /\ timer' \in [Node -> {"off", "on", "due"}]
<1>1. settling' \subseteq settling
  BY DEF SampleNodes
<1>2. timer' \in [Node -> {"off", "on", "due"}]
  BY DEF SampleNodes
<1>3. ASSUME NEW n \in Node
      PROVE  SampleOf(n, work) \in [samples : 0..SettleSamples, worked : BOOLEAN]
  <2>1. seen[n].samples \in 0..2 /\ seen[n].worked \in BOOLEAN
    BY DEF ScalingInv, TypeOK, SettleSamples
  <2>2. Least(seen[n].samples + 1, SettleSamples) \in 0..SettleSamples
    BY <2>1 DEF Least, SettleSamples
  <2>3. (seen[n].worked \/ n \in work) \in BOOLEAN
    OBVIOUS
  <2> QED
    BY <2>2, <2>3 DEF SampleOf
<1>4. Unseen \in [samples : 0..SettleSamples, worked : BOOLEAN]
  BY DEF Unseen, SettleSamples
<1>5. seen' \in [Node -> [samples : 0..SettleSamples, worked : BOOLEAN]]
  BY <1>3, <1>4 DEF SampleNodes
<1> QED
  BY <1>1, <1>2, <1>5

LEMMA ScaleInv ==
    ASSUME ScalingInv, NEW s \in Sample, NEW work, NEW late, Scale(s, work, late)
    PROVE  ScalingInv'
<1>1. PICK op \in Choose(s) : Begin(op) /\ donated' = Donated(op, wanting')
  BY DEF Scale
<1>2. op = NoOp \/ Allowed(op)
  BY <1>1, ChoiceAllowed DEF Scale
<1>3. wanting' \subseteq Elastic
  BY DEF Scale, WantingNodes, WantingScalable, WantingSupport, Feeders, Short, CanScale
<1>4. donated' \in [from : {0} \cup Node, to : SUBSET Elastic]
  <2>1. op.node \in {0} \cup Node
    BY <1>2, ElasticNodes DEF NoOp, Allowed
  <2>2. donated \in [from : {0} \cup Node, to : SUBSET Elastic]
    BY DEF ScalingInv, TypeOK
  <2>3. Kept \in [from : {0} \cup Node, to : SUBSET Elastic]
    BY DEF Kept
  <2> QED
    BY <1>1, <1>3, <2>1, <2>2, <2>3 DEF Donated
<1>5. SampleNodes(work, s.under, late)
  BY DEF Scale
<1>6. /\ settling' \subseteq Node
      /\ seen' \in [Node -> [samples : 0..SettleSamples, worked : BOOLEAN]]
      /\ timer' \in [Node -> {"off", "on", "due"}]
  BY <1>5, SampleTypes DEF ScalingInv, TypeOK
<1>7. count \in [Node -> Nat]
  BY DEF ScalingInv, TypeOK
<1>8. CASE op = NoOp
  <2>1. count' = count /\ pending' = NoOp
    BY <1>1, <1>8 DEF Begin, NoOp
  <2> QED
    BY <1>3, <1>4, <1>6, <1>7, <2>1 DEF ScalingInv, TypeOK, RemovalLeavesOne, NoOp
<1>9. CASE Allowed(op)
  <2>1. op \in [kind : {"add", "remove"}, node : Elastic] /\ op.node \in Node
    BY <1>9, ElasticNodes DEF Allowed
  <2>2. pending' \in [kind : {"add", "remove", "merge"}, node : Elastic]
        /\ pending'.node = op.node /\ (pending'.kind = "add" <=> op.kind = "add")
    BY <1>1, <2>1 DEF Begin
  <2>3. count' \in [Node -> Nat] /\ (op.kind = "remove" => count' = count)
    BY <1>1, <1>7, <2>1 DEF Begin
  <2>4. RemovalLeavesOne'
    BY <1>9, <2>1, <2>2, <2>3 DEF RemovalLeavesOne, Allowed
  <2> QED
    BY <1>3, <1>4, <1>6, <2>2, <2>3, <2>4 DEF ScalingInv, TypeOK
<1> QED
  BY <1>2, <1>8, <1>9

LEMMA WaitInv ==
    ASSUME ScalingInv, NEW work, NEW under, NEW late, Wait(work, under, late)
    PROVE  ScalingInv'
<1>1. SampleNodes(work, under, late) /\ UNCHANGED <<count, pending, wanting, donated>>
  BY DEF Wait, history
<1> QED
  BY <1>1, SampleTypes DEF ScalingInv, TypeOK, RemovalLeavesOne

\* After the end of an operation none is pending.
LEMMA CompletedInv ==
    ASSUME ScalingInv, NEW n \in Node, Complete(n), count' \in [Node -> Nat]
    PROVE  ScalingInv'
<1>1. Unseen \in [samples : 0..SettleSamples, worked : BOOLEAN]
  BY DEF Unseen, SettleSamples
<1>2. seen' \in [Node -> [samples : 0..SettleSamples, worked : BOOLEAN]]
  BY <1>1 DEF Complete, MarkSettling, ScalingInv, TypeOK
<1>3. pending' = NoOp /\ settling' \subseteq Node /\ UNCHANGED <<timer, wanting, donated>>
  BY DEF Complete, MarkSettling, history, ScalingInv, TypeOK
<1>4. RemovalLeavesOne'
  BY <1>3 DEF RemovalLeavesOne, NoOp
<1> QED
  BY <1>2, <1>3, <1>4 DEF ScalingInv, TypeOK

\* A removal takes a worker that is there.
LEMMA RemoveTypes ==
    ASSUME ScalingInv, NEW n \in Node, pending.kind \in {"remove", "merge"},
           pending.node = n, RemoveWorker(n)
    PROVE  count' \in [Node -> Nat]
<1>1. count \in [Node -> Nat] /\ count[n] > 1
  BY DEF ScalingInv, TypeOK, RemovalLeavesOne
<1>2. count[n] - 1 \in Nat
  BY <1>1
<1> QED
  BY <1>1, <1>2 DEF RemoveWorker

LEMMA EventInv ==
    ASSUME ScalingInv, Event
    PROVE  ScalingInv'
<1>1. PICK n \in Node : AddDone(n) \/ RemoveDone(n) \/ HandedOver(n) \/ MergeDone(n)
  BY DEF Event
<1>2. CASE AddDone(n) \/ MergeDone(n)
  <2>1. Complete(n) /\ count' = count
    BY <1>2 DEF AddDone, MergeDone
  <2> QED
    BY <2>1, CompletedInv DEF ScalingInv, TypeOK
<1>3. CASE RemoveDone(n)
  <2>1. Complete(n) /\ count' \in [Node -> Nat]
    BY <1>3, RemoveTypes DEF RemoveDone
  <2> QED
    BY <2>1, CompletedInv
<1>4. CASE HandedOver(n)
  <2>1. count' \in [Node -> Nat]
    BY <1>4, RemoveTypes DEF HandedOver
  <2>2. pending' = [kind |-> "handed over", node |-> n] /\ n \in Elastic
    BY <1>4 DEF HandedOver, ScalingInv, TypeOK, NoOp
  <2> QED
    BY <1>4, <2>1, <2>2 DEF HandedOver, rest, history, ScalingInv, TypeOK, RemovalLeavesOne
<1> QED
  BY <1>1, <1>2, <1>3, <1>4

LEMMA StepInv == ScalingInv /\ [Next]_vars => ScalingInv'
<1> SUFFICES ASSUME ScalingInv, [Next]_vars PROVE ScalingInv'
  OBVIOUS
<1>1. CASE Iterate
  BY <1>1, ScaleInv, WaitInv DEF Iterate
<1>2. CASE Event
  BY <1>2, EventInv
<1>3. CASE UNCHANGED vars
  BY <1>3 DEF vars, rest, history, ScalingInv, TypeOK, RemovalLeavesOne
<1> QED
  BY <1>1, <1>2, <1>3 DEF Next

LEMMA StartInv == Init => ScalingInv
<1> SUFFICES ASSUME Init PROVE ScalingInv
  OBVIOUS
<1>1. \A n \in Node : StartupWorkers(n) \in Nat
  BY ScalingAssumption DEF StartupWorkers, Least, ThreadPolicy
<1>2. count \in [Node -> Nat]
  BY <1>1 DEF Init, Startup
<1> QED
  BY <1>2 DEF Init, ScalingInv, TypeOK, RemovalLeavesOne, NoOp, Kept, Unseen, SettleSamples

LEMMA Invariant == Spec => []ScalingInv
  BY StartInv, StepInv, PTL DEF Spec

\* The variables keep their types; above all, no count of workers drops below zero.
THEOREM ScalingType == Spec => []TypeOK
<1>1. ScalingInv => TypeOK
  BY DEF ScalingInv
<1> QED
  BY <1>1, Invariant, PTL

-----------------------------------------------------------------------------
(* Scaling implements Staffing.                                            *)

LEMMA SamplesSettle ==
    ASSUME NEW work, NEW under, NEW late, SampleNodes(work, under, late),
           UNCHANGED <<count, pending>>
    PROVE  S!Settle
  BY DEF SampleNodes, S!Settle, opOf

LEMMA ScaleStaffs ==
    ASSUME ScalingInv, NEW s \in Sample, NEW work, NEW late, Scale(s, work, late)
    PROVE  S!Next
<1>1. PICK op \in Choose(s) : Begin(op)
  BY DEF Scale
<1>2. op = NoOp \/ Allowed(op)
  BY <1>1, ChoiceAllowed DEF Scale
<1>3. SampleNodes(work, s.under, late) /\ pending = NoOp
  BY DEF Scale
<1>4. CASE op = NoOp
  <2>1. UNCHANGED <<count, pending>>
    BY <1>1, <1>3, <1>4 DEF Begin, NoOp
  <2> QED
    BY <1>3, <2>1, SamplesSettle DEF S!Next
<1>5. ASSUME Allowed(op) PROVE S!Hire(op.node) \/ S!Dismiss(op.node)
  <2>1. opOf = S!None /\ settling' \subseteq settling
    BY <1>3 DEF opOf, S!None, NoOp, SampleNodes
  <2>2. op.node \in Elastic /\ op.node \notin settling'
    BY <1>5 DEF Allowed
  <2>3. S!Rested(op.node)
    BY <2>1, <2>2 DEF S!Rested
  <2>4. CASE op.kind = "add"
    <3>1. pending' = op /\ count' = [count EXCEPT ![op.node] = @ + 1]
      BY <1>1, <2>4 DEF Begin
    <3>2. opOf' = <<"hired", op.node>>
      BY <2>4, <3>1 DEF opOf
    <3>3. S!Total < Cap
      <4>1. S!Total = Total
        BY DEF Total, Size, S!Total, Cardinality, S!Cardinality
      <4> QED
        BY <1>5, <2>4, <4>1 DEF Allowed
    <3> QED
      BY <1>5, <2>3, <2>4, <3>1, <3>2, <3>3 DEF S!Hire, Allowed
  <2>5. CASE op.kind = "remove"
    <3>1. count' = count
      BY <1>1, <2>5 DEF Begin
    <3>2. pending'.kind \in {"remove", "merge"} /\ pending'.node = op.node
      BY <1>1, <1>5, <2>5 DEF Begin, Allowed
    <3>3. opOf' = <<"asked", op.node>>
      BY <3>2 DEF opOf
    <3> QED
      BY <1>5, <2>3, <2>5, <3>1, <3>3 DEF S!Dismiss, Allowed
  <2> QED
    BY <1>5, <2>4, <2>5 DEF Allowed
<1>6. Allowed(op) => op.node \in Node
  BY ElasticNodes DEF Allowed
<1> QED
  BY <1>2, <1>4, <1>5, <1>6 DEF S!Next

LEMMA EventStaffs ==
    ASSUME ScalingInv, NEW n \in Node,
           AddDone(n) \/ RemoveDone(n) \/ HandedOver(n) \/ MergeDone(n)
    PROVE  S!Finish(n) \/ S!Leave(n) \/ S!LeaveAndFinish(n)
<1>1. CASE AddDone(n)
  <2>1. opOf = <<"hired", n>>
    BY <1>1 DEF AddDone, opOf
  <2>2. opOf' = S!None
    BY <1>1 DEF AddDone, Complete, opOf, NoOp, S!None
  <2> QED
    BY <1>1, <2>1, <2>2 DEF AddDone, Complete, MarkSettling, S!Finish
<1>4. CASE MergeDone(n)
  <2>1. opOf = <<"left", n>>
    BY <1>4 DEF MergeDone, opOf
  <2>2. opOf' = S!None
    BY <1>4 DEF MergeDone, Complete, opOf, NoOp, S!None
  <2> QED
    BY <1>4, <2>1, <2>2 DEF MergeDone, Complete, MarkSettling, S!Finish
<1>2. CASE RemoveDone(n)
  <2>1. opOf = <<"asked", n>>
    BY <1>2 DEF RemoveDone, opOf
  <2> QED
    BY <1>2, <2>1 DEF RemoveDone, RemoveWorker, Complete, MarkSettling, opOf, NoOp,
                      S!LeaveAndFinish, S!None
<1>3. CASE HandedOver(n)
  <2>1. opOf = <<"asked", n>>
    BY <1>3 DEF HandedOver, opOf
  <2>2. pending' = [kind |-> "handed over", node |-> n]
    BY <1>3 DEF HandedOver
  <2>3. opOf' = <<"left", n>>
    BY <2>2 DEF opOf
  <2> QED
    BY <1>3, <2>1, <2>3 DEF HandedOver, RemoveWorker, rest, S!Leave
<1> QED
  BY <1>1, <1>2, <1>3, <1>4

\* For every graph, policy and cap: one operation at a time, within the cap and the
\* limits, never on a node that rests and never on the last worker.
THEOREM ScalingStaffs == Spec => KeepsStaffed
<1>1. Init => S!Init
  BY DEF Init, S!Init, opOf, NoOp, S!None
<1>2. ASSUME ScalingInv, [Next]_vars PROVE [S!Next]_S!vars
  <2>1. CASE Iterate
    <3>1. ASSUME NEW work, NEW under, NEW late, Wait(work, under, late) PROVE S!Next
      BY <3>1, SamplesSettle DEF Wait, S!Next
    <3> QED
      BY <1>2, <2>1, <3>1, ScaleStaffs DEF Iterate
  <2>2. CASE Event
    BY <1>2, <2>2, EventStaffs DEF Event, S!Next
  <2>3. CASE UNCHANGED vars
    BY <2>3 DEF vars, rest, S!vars, opOf
  <2> QED
    BY <1>2, <2>1, <2>2, <2>3 DEF Next
<1> QED
  BY <1>1, <1>2, Invariant, PTL DEF Spec, KeepsStaffed, S!Spec

-----------------------------------------------------------------------------
(* Additions come first.                                                   *)

LEMMA LeastExists ==
    ASSUME NEW N, N \subseteq Nat, N # {}
    PROVE  \E n \in N : \A m \in N : n <= m
<1> DEFINE R == OpToRel(<, Nat)
<1>1. IsWellFoundedOn(R, Nat)
  BY NatLessThanWellFounded
<1> HIDE DEF R
<1>2. PICK n \in N : \A m \in N : ~(<<m, n>> \in R)
  BY <1>1, WFMin
<1>3. \A m \in N : m < n => <<m, n>> \in R
  BY DEF R, OpToRel
<1>4. \A m \in N : ~(m < n)
  BY <1>2, <1>3
<1>5. \A m \in N : n <= m
  BY <1>4
<1> QED
  BY <1>5

LEMMA FirstExists ==
    ASSUME NEW N \in SUBSET Node, N # {}
    PROVE  First(N) # {}
<1>1. N \subseteq Nat
  BY ScalingAssumption DEF Node
<1> QED
  BY <1>1, LeastExists DEF First

LEMMA FirstConsumerExists ==
    ASSUME NEW N \in SUBSET Node, N # {}
    PROVE  FirstConsumer(N) # {}
<1>1. N \subseteq Nat /\ \A n \in N : InputOf[n] \in Nat
  BY ScalingAssumption DEF Node, Link
<1> DEFINE L == {InputOf[n] : n \in N}
<1>2. PICK l \in L : \A k \in L : l <= k
  BY <1>1, LeastExists
<1> DEFINE M == {n \in N : InputOf[n] = l}
<1>3. PICK n \in M : \A m \in M : n <= m
  BY <1>1, LeastExists
<1>4. ASSUME NEW m \in N
      PROVE  InputOf[n] < InputOf[m] \/ (InputOf[n] = InputOf[m] /\ n <= m)
  <2>1. InputOf[n] = l /\ l <= InputOf[m] /\ l \in Nat /\ InputOf[m] \in Nat
    BY <1>1, <1>2, <1>3
  <2> QED
    BY <1>3, <2>1
<1> QED
  BY <1>3, <1>4 DEF FirstConsumer

LEMMA WantedIsAdded ==
    ASSUME NEW s \in Sample, Total < Cap, WantingNodes(s) # {}, NEW op \in Choose(s)
    PROVE  op.kind = "add"
<1>1. Short(s) \subseteq Node
  BY ElasticNodes DEF Short, CanScale
<1>2. ScalableUp(s) = [kind : {"add"}, node : First(WantingScalable(s))]
  BY DEF ScalableUp, Operation
<1>3. SupportUp(s) = [kind : {"add"}, node : FirstConsumer(WantingSupport(s))]
  BY DEF SupportUp, AddOrRebalance, Operation
<1> DEFINE producers == UNION {First(Feeders(s, a)) : a \in First(Fed(s))}
<1>4. AnchorPressure(s) = [kind : {"add"}, node : producers]
  BY DEF AnchorPressure, AddOrRebalance, Operation
<1>5. \A N : N # {} => [kind : {"add"}, node : N] # {}
  <2> SUFFICES ASSUME NEW N, NEW n \in N PROVE [kind : {"add"}, node : N] # {}
    OBVIOUS
  <2>1. [kind |-> "add", node |-> n] \in [kind : {"add"}, node : N]
    OBVIOUS
  <2> QED
    BY <2>1
<1>6. ScalableUp(s) # {} \/ SupportUp(s) # {} \/ AnchorPressure(s) # {}
  <2>1. CASE WantingScalable(s) # {}
    BY <1>1, <1>2, <1>5, <2>1, FirstExists DEF WantingScalable
  <2>2. CASE WantingSupport(s) # {}
    BY <1>1, <1>3, <1>5, <2>2, FirstConsumerExists DEF WantingSupport
  <2>3. CASE \E a \in Fed(s) : Feeders(s, a) # {}
    <3>1. Fed(s) \subseteq Node /\ Fed(s) # {}
      BY <2>3, ScalingAssumption DEF Fed, Underfed, Sample
    <3>2. PICK a \in First(Fed(s)) : TRUE
      BY <3>1, FirstExists
    <3>3. Feeders(s, a) # {} /\ Feeders(s, a) \subseteq Node
      BY <1>1, <3>2 DEF First, Fed, Feeders
    <3>4. First(Feeders(s, a)) # {}
      BY <3>3, FirstExists
    <3>5. producers # {}
      BY <3>2, <3>4
    <3> QED
      BY <1>4, <1>5, <3>5
  <2> QED
    BY <2>1, <2>2, <2>3 DEF WantingNodes
<1>7. op \in ScalableUp(s) \cup SupportUp(s) \cup AnchorPressure(s)
  BY <1>6 DEF Choose, Else
<1> QED
  BY <1>2, <1>3, <1>4, <1>7

\* Only a choice makes an operation pending.
LEMMA ScaleStep ==
    ASSUME [Next]_vars, pending = NoOp, pending' # NoOp
    PROVE  \E work, late : \E s \in Sample : Scale(s, work, late)
<1>1. ~Event
  BY DEF Event, AddDone, RemoveDone, HandedOver, MergeDone, NoOp
<1>2. Iterate
  BY <1>1 DEF Next, vars
<1>3. \A work, under, late : ~Wait(work, under, late)
  BY DEF Wait
<1>4. PICK work \in SUBSET settling :
         \/ \E under \in SUBSET Scalable : \E late \in SUBSET under : Wait(work, under, late)
         \/ \E s \in Sample : \E late \in SUBSET s.under : Scale(s, work, late)
  BY <1>2 DEF Iterate
<1>5. PICK s \in Sample : \E late \in SUBSET s.under : Scale(s, work, late)
  BY <1>3, <1>4
<1>6. PICK late \in SUBSET s.under : Scale(s, work, late)
  BY <1>5
<1> QED
  BY <1>6

\* For every graph, policy and cap: below the cap no worker is taken away while a
\* node that could be scaled waits for one.
THEOREM AdditionsFirst == Spec => RemovalsWait
<1>1. ASSUME ScalingInv, [Next]_vars, pending = NoOp,
             pending'.kind \in {"remove", "merge"}, Total < Cap
      PROVE  wanting' = {}
  <2>0. PICK work, late : \E s \in Sample : Scale(s, work, late)
    BY <1>1, ScaleStep DEF NoOp
  <2>1. PICK s \in Sample : Scale(s, work, late)
    BY <2>0
  <2>2. PICK op \in Choose(s) : Begin(op)
    BY <2>1 DEF Scale
  <2>3. op.kind # "add"
    BY <1>1, <2>2 DEF Begin
  <2>4. WantingNodes(s) = {}
    BY <1>1, <2>2, <2>3, WantedIsAdded
  <2> QED
    BY <2>1, <2>4 DEF Scale
<1>2. ScalingInv /\ [Next]_vars =>
        [pending = NoOp /\ pending'.kind \in {"remove", "merge"} /\ Total < Cap
           => wanting' = {}]_vars
  BY <1>1
<1> QED
  BY <1>2, Invariant, PTL DEF Spec, RemovalsWait

-----------------------------------------------------------------------------
(* Sizes: a worker more or less changes the total by one.                  *)

Posts(f) == UNION {{n} \X (1..f[n]) : n \in Node}

LEMMA PostsFinite ==
    ASSUME NEW f \in [Node -> Nat]
    PROVE  IsFiniteSet(Posts(f)) /\ Size(f) = Cardinality(Posts(f)) /\ Size(f) \in Nat
<1> DEFINE Row == [n \in Node |-> {n} \X (1..f[n])]
           Rows == {{n} \X (1..f[n]) : n \in Node}
<1>1. IsFiniteSet(Node)
  BY ScalingAssumption, FS_Interval DEF Node
<1>2. Row \in Surjection(Node, Rows)
  BY DEF Surjection
<1>3. IsFiniteSet(Rows)
  BY <1>1, <1>2, FS_Surjection
<1>4. ASSUME NEW n \in Node PROVE IsFiniteSet({n} \X (1..f[n]))
  <2>0. f[n] \in Int
    OBVIOUS
  <2>1. IsFiniteSet(1..f[n])
    BY <2>0, FS_Interval
  <2>2. IsFiniteSet({n})
    BY FS_Singleton
  <2> QED
    BY <2>1, <2>2, FS_Product
<1>5. IsFiniteSet(UNION Rows)
  BY <1>3, <1>4, FS_UNION
<1> QED
  BY <1>5, FS_CardinalityType DEF Posts, Size

LEMMA SizeGrows ==
    ASSUME NEW f \in [Node -> Nat], NEW n \in Node
    PROVE  Size([f EXCEPT ![n] = @ + 1]) = Size(f) + 1
<1> DEFINE g == [f EXCEPT ![n] = @ + 1]
           e == <<n, f[n] + 1>>
<1>1. g \in [Node -> Nat] /\ g[n] = f[n] + 1 /\ \A m \in Node \ {n} : g[m] = f[m]
  OBVIOUS
<1>2. \A m, i : <<m, i>> \in Posts(f) <=> m \in Node /\ i \in 1..f[m]
  BY DEF Posts
<1>3. \A m, i : <<m, i>> \in Posts(g) <=> m \in Node /\ i \in 1..g[m]
  BY DEF Posts
<1>4. \A x \in Posts(f) \cup Posts(g) : x = <<x[1], x[2]>>
  BY DEF Posts
<1> HIDE DEF g
<1>5. 1..g[n] = 1..f[n] \cup {f[n] + 1} /\ f[n] + 1 \notin 1..f[n]
  BY <1>1
<1>6. \A m, i : <<m, i>> \in Posts(g) <=> <<m, i>> \in Posts(f) \/ (m = n /\ i = f[n] + 1)
  BY <1>1, <1>2, <1>3, <1>5
<1>7. Posts(g) = Posts(f) \cup {e}
  <2>1. ASSUME NEW x \in Posts(g) PROVE x \in Posts(f) \cup {e}
    BY <1>4, <1>6
  <2>2. ASSUME NEW x \in Posts(f) PROVE x \in Posts(g)
    BY <1>4, <1>6
  <2>3. e \in Posts(g)
    BY <1>6
  <2> QED
    BY <2>1, <2>2, <2>3
<1>8. e \notin Posts(f)
  BY <1>2, <1>5
<1>9. Cardinality(Posts(g)) = Cardinality(Posts(f)) + 1
  BY <1>7, <1>8, PostsFinite, FS_AddElement
<1> QED
  BY <1>1, <1>9, PostsFinite DEF g

LEMMA SizeShrinks ==
    ASSUME NEW f \in [Node -> Nat], NEW n \in Node, f[n] > 0
    PROVE  Size([f EXCEPT ![n] = @ - 1]) = Size(f) - 1
<1> DEFINE g == [f EXCEPT ![n] = @ - 1]
<1>1. g \in [Node -> Nat] /\ [g EXCEPT ![n] = @ + 1] = f
  <2>1. f[n] \in Nat /\ f[n] - 1 \in Nat
    OBVIOUS
  <2>2. g \in [Node -> Nat] /\ g[n] = f[n] - 1 /\ \A m \in Node \ {n} : g[m] = f[m]
    BY <2>1
  <2>3. \A m \in Node : [g EXCEPT ![n] = @ + 1][m] = f[m]
    BY <2>1, <2>2
  <2> QED
    BY <2>2, <2>3
<1> HIDE DEF g
<1>2. Size(f) = Size(g) + 1
  BY <1>1, SizeGrows
<1> QED
  BY <1>1, <1>2, PostsFinite DEF g

-----------------------------------------------------------------------------
(* Donations.                                                              *)

WithinCap == Total <= Cap

\* While a donation is owed, the donor loses its worker, or it has just lost it, rests
\* unseen, and the post is free.
DonorRests ==
    donated.to # {} =>
      /\ pending.kind \in {"none", "remove", "merge", "handed over"}
      /\ pending # NoOp => pending.node = donated.from
      /\ pending.kind \in {"none", "handed over"} => Total < Cap
      /\ pending = NoOp => donated.from \in settling /\ seen[donated.from] = Unseen

DonationInv == ScalingInv /\ WithinCap /\ DonorRests

LEMMA CapIsNat == Cap \in Nat /\ Size(Startup) <= Cap
<1>1. Startup \in [Node -> Nat]
  BY ScalingAssumption DEF Startup, StartupWorkers, Least, ThreadPolicy
<1>2. Size(Startup) \in Nat
  BY <1>1, PostsFinite
<1> QED
  BY <1>2, ScalingAssumption DEF Cap, Most

\* An unseen node does not settle with its first sample.
LEMMA FirstSampleRests ==
    ASSUME NEW n \in settling, seen[n] = Unseen,
           NEW work, NEW under, NEW late, SampleNodes(work, under, late)
    PROVE  n \in settling'
<1>1. SampleOf(n, work).samples = 1
  BY DEF SampleOf, Unseen, Least, SettleSamples
<1>2. n \notin Settled(work)
  BY <1>1 DEF Settled, SettleSamples
<1> QED
  BY <1>2 DEF SampleNodes

LEMMA ScaleDonation ==
    ASSUME DonationInv, NEW s \in Sample, NEW work, NEW late, Scale(s, work, late)
    PROVE  DonationInv'
<1>1. PICK op \in Choose(s) : Begin(op) /\ donated' = Donated(op, wanting')
  BY DEF Scale
<1>2. op = NoOp \/ Allowed(op)
  BY <1>1, ChoiceAllowed DEF Scale
<1>3. ScalingInv' /\ count \in [Node -> Nat] /\ pending = NoOp /\ wanting' = WantingNodes(s)
  BY ScaleInv DEF Scale, DonationInv, ScalingInv, TypeOK
<1>4. CASE op = NoOp
  <2>1. count' = count /\ pending' = NoOp /\ donated' = [donated EXCEPT !.to = @ \cap wanting']
    BY <1>1, <1>4 DEF Begin, Donated, NoOp
  <2>2. Total < Cap => wanting' = {}
    BY <1>1, <1>3, <1>4, WantedIsAdded DEF NoOp
  <2>3. donated.to # {} => Total < Cap
    BY <1>3 DEF DonationInv, DonorRests, NoOp
  <2>4. donated'.to = {}
    BY <2>1, <2>2, <2>3 DEF DonationInv, ScalingInv, TypeOK
  <2> QED
    BY <1>3, <2>1, <2>4 DEF DonationInv, WithinCap, Total, DonorRests
<1>5. CASE Allowed(op) /\ op.kind = "add"
  <2>1. donated' = Kept
    BY <1>1, <1>5 DEF Donated
  <2>2. op.node \in Node /\ Total < Cap
    BY <1>5, ElasticNodes DEF Allowed
  <2>3. count' = [count EXCEPT ![op.node] = @ + 1]
    BY <1>1, <1>5 DEF Begin
  <2>4. Total' = Total + 1 /\ Total \in Nat
    BY <1>3, <2>2, <2>3, SizeGrows, PostsFinite DEF Total
  <2>5. WithinCap'
    BY <2>2, <2>4, CapIsNat DEF WithinCap, Cap, Startup, Size, StartupWorkers
  <2> QED
    BY <1>3, <2>1, <2>5 DEF DonationInv, DonorRests, Kept
<1>6. CASE Allowed(op) /\ op.kind = "remove"
  <2>1. count' = count /\ pending'.kind \in {"remove", "merge"} /\ pending'.node = op.node
    BY <1>1, <1>6 DEF Begin, Allowed
  <2>2. CASE Total >= Cap
    <3>1. donated'.from = op.node
      BY <1>1, <1>6, <2>2 DEF Donated
    <3>2. pending' # NoOp
      BY <2>1 DEF NoOp
    <3>3. DonorRests'
      BY <2>1, <3>1, <3>2 DEF DonorRests
    <3> QED
      BY <1>3, <2>1, <3>3 DEF DonationInv, WithinCap, Total
  <2>3. CASE ~(Total >= Cap)
    <3>1. Total < Cap
      BY <1>3, <2>3, PostsFinite, CapIsNat DEF Total
    <3>2. wanting' = {}
      BY <1>1, <1>3, <1>6, <3>1, WantedIsAdded
    <3>3. donated'.to = {}
      BY <1>1, <1>6, <2>3, <3>2 DEF Donated, DonationInv, ScalingInv, TypeOK
    <3> QED
      BY <1>3, <2>1, <3>3 DEF DonationInv, WithinCap, Total, DonorRests
  <2> QED
    BY <2>2, <2>3
<1> QED
  BY <1>2, <1>4, <1>5, <1>6 DEF Allowed

LEMMA WaitDonation ==
    ASSUME DonationInv, NEW work, NEW under, NEW late, Wait(work, under, late)
    PROVE  DonationInv'
<1>1. ScalingInv'
  BY WaitInv DEF DonationInv
<1> QED
  BY <1>1 DEF Wait, history, DonationInv, WithinCap, Total, DonorRests

LEMMA EventDonation ==
    ASSUME DonationInv, Event
    PROVE  DonationInv'
<1>1. PICK n \in Node : AddDone(n) \/ RemoveDone(n) \/ HandedOver(n) \/ MergeDone(n)
  BY DEF Event
<1>2. ScalingInv' /\ count \in [Node -> Nat] /\ seen \in [Node -> [samples : 0..SettleSamples, worked : BOOLEAN]]
  BY EventInv DEF DonationInv, ScalingInv, TypeOK
<1>3. ASSUME RemoveWorker(n), pending.kind \in {"remove", "merge"}, pending.node = n
      PROVE  Total' < Cap /\ Total' <= Cap
  <2>1. count[n] > 0
    BY <1>2, <1>3 DEF DonationInv, ScalingInv, RemovalLeavesOne
  <2>2. Total' = Total - 1 /\ Total \in Nat
    BY <1>2, <1>3, <2>1, SizeShrinks, PostsFinite DEF Total, RemoveWorker
  <2> QED
    BY <2>2, CapIsNat DEF DonationInv, WithinCap, Cap, Startup, Size, StartupWorkers
<1>4. Complete(n) => /\ pending' = NoOp /\ n \in settling' /\ seen'[n] = Unseen
                     /\ donated' = donated
  BY <1>2 DEF Complete, MarkSettling, history
<1>5. CASE AddDone(n)
  <2>1. donated.to = {} /\ donated' = donated /\ count' = count
    BY <1>4, <1>5 DEF AddDone, DonationInv, DonorRests
  <2> QED
    BY <1>2, <2>1 DEF DonationInv, WithinCap, Total, DonorRests
<1>6. CASE RemoveDone(n)
  <2>1. Total' < Cap /\ Total' <= Cap
    BY <1>3, <1>6 DEF RemoveDone
  <2>2. DonorRests'
    <3>1. donated.to # {} => donated.from = n
      BY <1>6 DEF RemoveDone, DonationInv, DonorRests, NoOp
    <3>2. pending' = NoOp /\ n \in settling' /\ seen'[n] = Unseen /\ donated' = donated
      BY <1>4, <1>6 DEF RemoveDone
    <3> QED
      BY <2>1, <3>1, <3>2 DEF DonorRests, NoOp
  <2> QED
    BY <1>2, <2>1, <2>2 DEF DonationInv, WithinCap
<1>7. CASE HandedOver(n)
  <2>1. Total' < Cap /\ Total' <= Cap
    BY <1>3, <1>7 DEF HandedOver
  <2>2. pending' = [kind |-> "handed over", node |-> n] /\ donated' = donated
    BY <1>7 DEF HandedOver, history
  <2>3. DonorRests'
    <3>1. donated.to # {} => donated.from = n
      BY <1>7 DEF HandedOver, DonationInv, DonorRests, NoOp
    <3>2. pending' # NoOp /\ pending'.kind = "handed over" /\ pending'.node = n
      BY <2>2 DEF NoOp
    <3> QED
      BY <2>1, <2>2, <3>1, <3>2 DEF DonorRests
  <2> QED
    BY <1>2, <2>1, <2>3 DEF DonationInv, WithinCap
<1>8. CASE MergeDone(n)
  <2>1. count' = count
    BY <1>8 DEF MergeDone
  <2>2. DonorRests'
    <3>1. donated.to # {} => donated.from = n /\ Total < Cap
      BY <1>8 DEF MergeDone, DonationInv, DonorRests, NoOp
    <3>2. pending' = NoOp /\ n \in settling' /\ seen'[n] = Unseen /\ donated' = donated
      BY <1>4, <1>8 DEF MergeDone
    <3>3. Total' = Total
      BY <2>1 DEF Total
    <3> QED
      BY <3>1, <3>2, <3>3 DEF DonorRests, NoOp
  <2> QED
    BY <1>2, <2>1, <2>2 DEF DonationInv, WithinCap, Total
<1> QED
  BY <1>1, <1>5, <1>6, <1>7, <1>8

LEMMA DonationInvariant == Spec => []DonationInv
<1>1. Init => DonationInv
  <2> SUFFICES ASSUME Init PROVE DonationInv
    OBVIOUS
  <2>1. ScalingInv /\ count = Startup /\ donated = Kept
    BY StartInv DEF Init
  <2> QED
    BY <2>1, CapIsNat DEF DonationInv, WithinCap, Total, DonorRests, Kept
<1>2. DonationInv /\ [Next]_vars => DonationInv'
  <2> SUFFICES ASSUME DonationInv, [Next]_vars PROVE DonationInv'
    OBVIOUS
  <2>1. CASE Iterate
    BY <2>1, ScaleDonation, WaitDonation DEF Iterate
  <2>2. CASE Event
    BY <2>2, EventDonation
  <2>3. CASE UNCHANGED vars
    <3>1. ScalingInv'
      BY <2>3, StepInv DEF DonationInv
    <3> QED
      BY <2>3, <3>1 DEF vars, rest, history, DonationInv, WithinCap, Total, DonorRests
  <2> QED
    BY <2>1, <2>2, <2>3 DEF Next
<1> QED
  BY <1>1, <1>2, PTL DEF Spec

\* For every graph, policy and cap: a worker taken from an anchor at the cap does not
\* return to it while a node it was taken for still waits.
THEOREM DonationsReach == Spec => DonationsArrive
<1>1. ASSUME DonationInv, [Next]_vars, pending = NoOp,
             pending' = [kind |-> "add", node |-> donated.from]
      PROVE  donated.to \cap wanting' = {}
  <2>0. PICK work, late : \E s \in Sample : Scale(s, work, late)
    BY <1>1, ScaleStep DEF NoOp
  <2>1. PICK s \in Sample : Scale(s, work, late)
    BY <2>0
  <2>2. PICK op \in Choose(s) : Begin(op)
    BY <2>1 DEF Scale
  <2>3. op = pending'
    BY <1>1, <2>2 DEF Begin
  <2>4. donated.from \notin settling'
    BY <1>1, <2>1, <2>2, <2>3, ChoiceAllowed DEF Scale, Allowed, NoOp
  <2>5. donated.to = {}
    BY <1>1, <2>1, <2>4, FirstSampleRests DEF Scale, DonationInv, DonorRests
  <2> QED
    BY <2>5
<1>2. DonationInv /\ [Next]_vars =>
        [pending = NoOp /\ pending' = [kind |-> "add", node |-> donated.from]
           => donated.to \cap wanting' = {}]_vars
  BY <1>1
<1> QED
  BY <1>2, DonationInvariant, PTL DEF Spec, DonationsArrive
=============================================================================
