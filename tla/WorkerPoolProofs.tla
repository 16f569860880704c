-------------------------- MODULE WorkerPoolProofs --------------------------
(***************************************************************************)
(* Theorems about WorkerPool, for every graph, policy and bound: its       *)
(* types, no assignment after a node closes, and a roster that is exact.   *)
(* The inductive invariant of the roster names the stage each worker is    *)
(* in: assigned and not yet started, in its loop, or gone with one exit    *)
(* event on its way.                                                       *)
(***************************************************************************)
EXTENDS WorkerPool, FiniteSetTheorems, SequenceTheorems, TLAPS

-----------------------------------------------------------------------------
(* Type correctness.                                                       *)

LEMMA TypeInit == Init => TypeOK
<1> SUFFICES ASSUME Init PROVE TypeOK
  OBVIOUS
<1>1. active \in [Worker -> (Node \ External) \cup {None}]
  BY StartupAssumption DEF Init
<1>2. \A w \in DOMAIN Startup : <<Startup[w]>> \in Seq(Command)
  BY StartupAssumption DEF Command
<1>3. cmd \in [Worker -> Seq(Command)]
  BY <1>2 DEF Init
<1>4. /\ pending \in Operation
      /\ chan \in [Worker -> StateChan]
  BY DEF Init, NoOp, EmptyChan, Operation, StateChan
<1>5. parked \subseteq Worker /\ spawned \subseteq Worker
  BY StartupAssumption DEF Init
<1>6. /\ pc \in [Worker -> StepNames]
      /\ job \in [Worker -> (Node \ External) \cup {None}]
      /\ events \in Seq(Message)
      /\ requests \in [Worker -> Seq(Worker)]
  BY DEF Init, StepNames
<1> QED
  BY <1>1, <1>3, <1>4, <1>5, <1>6 DEF Init, TypeOK

\* The part of TypeOK that a worker may change.
WorkType ==
    /\ born \in Nat /\ cleaned \in Nat
    /\ events \in Seq(Message)
    /\ pc \in [Worker -> StepNames]
    /\ job \in [Worker -> (Node \ External) \cup {None}]
    /\ cmd \in [Worker -> Seq(Command)]
    /\ carried \in [Worker -> Nat]
    /\ retire \in [Worker -> {None, "cleanup", "transfer"}]
    /\ mergeFlag \in [Worker -> BOOLEAN]
    /\ requests \in [Worker -> Seq(Worker)]
    /\ chan \in [Worker -> StateChan]

LEMMA WorkTyped ==
    ASSUME TypeOK
    PROVE  WorkType /\ (WorkType' /\ WorkerFrame => TypeOK')
<1>1. WorkType
  BY DEF TypeOK, WorkType
<1>2. ASSUME WorkType', WorkerFrame PROVE TypeOK'
  BY <1>2 DEF TypeOK, WorkType, WorkerFrame, supVars, envVars
<1> QED
  BY <1>1, <1>2

\* What an action that only posts an event and moves one worker preserves.
LEMMA LeaveType ==
    ASSUME WorkType, NEW w \in Worker, NEW type \in {"parked", "failed"},
           NEW load \in Nat, NEW kept \in Nat, Leave(type, w, load, kept)
    PROVE  /\ events' \in Seq(Message)
           /\ carried' \in [Worker -> Nat]
           /\ pc' \in [Worker -> StepNames]
<1>1. Event(type, w, job[w], load, None) \in Message
  BY DEF WorkType, Event, Message
<1> QED
  BY <1>1 DEF Leave, Post, Goto, WorkType, StepNames, Running

LEMMA WorkerStays ==
    ASSUME WorkType, NEW w \in Worker, Steps(w) \/ Exits(w) \/ Panic(w)
    PROVE  WorkType'
<1> USE DEF ledger, mail
<1>0. /\ carried[w] \in Nat /\ job[w] \in (Node \ External) \cup {None}
      /\ cmd[w] \in Seq(Command)
  BY DEF WorkType
<1>1. CASE TakeCommand(w)
  <2>1. cmd' \in [Worker -> Seq(Command)]
    BY <1>0, <1>1 DEF TakeCommand, WorkType
  <2>2. /\ pc' \in [Worker -> StepNames]
        /\ job' \in [Worker -> (Node \ External) \cup {None}]
    <3>1. Head(cmd[w]) \in Command
      BY <1>0, <1>1 DEF TakeCommand
    <3> QED
      BY <1>1, <3>1 DEF TakeCommand, WorkType, Goto, StepNames, Running, Command
  <2> QED
    BY <1>1, <2>1, <2>2 DEF TakeCommand, WorkType
<1>2. CASE Start(w)
  <2>1. Event("started", w, job[w], 0, None) \in Message
    BY <1>0 DEF Event, Message
  <2> QED
    BY <1>2, <2>1 DEF Start, WorkType, Goto, Post, StepNames, Running
<1>3. CASE FailInit(w)
  BY <1>0, <1>3, LeaveType DEF FailInit, Fail, WorkType
<1>4. CASE Panic(w)
  <2>1. [st |-> "closed", load |-> 0] \in StateChan
    BY DEF StateChan
  <2>2. chan' \in [Worker -> StateChan]
    <3>1. chan \in [Worker -> StateChan]
      BY DEF WorkType
    <3>2. chan' = chan \/ DropRetire(w)
      BY <1>4 DEF Panic
    <3>3. CASE chan' = chan
      BY <3>1, <3>3
    <3>4. CASE DropRetire(w)
      BY <2>1, <3>1, <3>4 DEF DropRetire
    <3> QED
      BY <3>2, <3>3, <3>4
  <2>3. /\ pc' \in [Worker -> StepNames]
        /\ job' \in [Worker -> (Node \ External) \cup {None}]
        /\ carried' \in [Worker -> Nat]
    BY <1>4 DEF Panic, Goto, WorkType, StepNames
  <2> QED
    BY <1>4, <2>2, <2>3 DEF Panic, WorkType
<1>5. CASE CheckAbort(w)
  <2>1. CASE ParkOnAbort(w)
    BY <1>0, <1>5, <2>1, LeaveType DEF CheckAbort, ParkOnAbort, WorkType
  <2>2. CASE ~ParkOnAbort(w)
    BY <1>5, <2>2 DEF CheckAbort, Goto, WorkType, StepNames, Running
  <2> QED
    BY <2>1, <2>2
<1>6. CASE SwapMergeFlag(w)
  BY <1>6 DEF SwapMergeFlag, Goto, WorkType, StepNames, Running
<1>7. CASE NoMoreRequests(w)
  BY <1>7 DEF NoMoreRequests, Goto, WorkType, StepNames, Running
<1>8. CASE Merge(w)
  <2> DEFINE src == Head(requests[w])
  <2>1. src \in Worker /\ Tail(requests[w]) \in Seq(Worker)
    BY <1>8 DEF Merge, WorkType
  <2>2. Event("merged", w, job[w], 0, src) \in Message
    BY <1>0, <2>1 DEF Event, Message
  <2>3. EmptyChan \in StateChan /\ chan[src].load \in Nat
    BY <2>1 DEF EmptyChan, StateChan, WorkType
  <2>4. carried' \in [Worker -> Nat] /\ chan' \in [Worker -> StateChan]
    <3>1. /\ carried' = [carried EXCEPT ![w] = @ + chan[src].load]
          /\ chan' = [chan EXCEPT ![src] = EmptyChan]
      BY <1>8 DEF Merge
    <3>2. carried \in [Worker -> Nat] /\ chan \in [Worker -> StateChan]
      BY DEF WorkType
    <3> HIDE DEF src
    <3>3. carried' \in [Worker -> Nat]
      BY <2>3, <3>1, <3>2
    <3> QED
      BY <2>3, <3>1, <3>2, <3>3
  <2>5. requests' \in [Worker -> Seq(Worker)] /\ events' \in Seq(Message)
    BY <1>8, <2>1, <2>2 DEF Merge, Post, WorkType
  <2> QED
    BY <1>8, <2>4, <2>5 DEF Merge, WorkType
<1>9. CASE MergeFails(w)
  <2>1. Head(requests[w]) \in Worker /\ Tail(requests[w]) \in Seq(Worker)
    BY <1>9 DEF MergeFails, WorkType
  <2>2. EmptyChan \in StateChan
    BY DEF EmptyChan, StateChan
  <2> QED
    <3>1. Leave("failed", w, 0, carried[w])
      BY <1>9 DEF MergeFails, Fail
    <3>2. chan' \in [Worker -> StateChan] /\ requests' \in [Worker -> Seq(Worker)]
      BY <1>9, <2>1, <2>2 DEF MergeFails, WorkType
    <3>3. UNCHANGED <<ledger, job, cmd, retire, mergeFlag>>
      BY <1>9 DEF MergeFails
    <3>4. /\ events' \in Seq(Message) /\ carried' \in [Worker -> Nat]
          /\ pc' \in [Worker -> StepNames]
      BY <1>0, <3>1, LeaveType
    <3> QED
      BY <3>2, <3>3, <3>4 DEF WorkType
<1>10. CASE NotRetired(w)
  BY <1>10 DEF NotRetired, Goto, WorkType, StepNames, Running
<1>11. CASE RetireByCleanup(w)
  BY <1>0, <1>11, LeaveType DEF RetireByCleanup, Cleanup, WorkType
<1>12. CASE RetireByTransfer(w)
  <2>1. EmptyChan \in StateChan /\ [st |-> "full", load |-> carried[w]] \in StateChan
    BY <1>0 DEF EmptyChan, StateChan
  <2>2. PICK type \in {"parked", "failed"} : Leave(type, w, 0, 0)
    BY <1>12 DEF RetireByTransfer
  <2>3. chan' \in [Worker -> StateChan] /\ retire' \in [Worker -> {None, "cleanup", "transfer"}]
    BY <1>12, <2>1 DEF RetireByTransfer, WorkType
  <2> QED
    BY <1>12, <2>2, <2>3, LeaveType DEF RetireByTransfer, WorkType
<1>13. CASE Process(w)
  <2>1. CASE Fail(w)
    BY <1>0, <1>13, <2>1, LeaveType DEF Process, Fail, WorkType
  <2>2. CASE ~Fail(w)
    BY <1>13, <2>2 DEF Process, Goto, WorkType, StepNames, Running
  <2> QED
    BY <2>1, <2>2
<1>14. CASE PollTimeout(w)
  <2>1. CASE ParkOnAbort(w)
    BY <1>0, <1>14, <2>1, LeaveType DEF PollTimeout, ParkOnAbort, WorkType
  <2>2. CASE ~ParkOnAbort(w)
    BY <1>14, <2>2 DEF PollTimeout, Goto, WorkType, StepNames, Running
  <2> QED
    BY <2>1, <2>2
<1>15. CASE StayInLoop(w)
  BY <1>15 DEF StayInLoop, Goto, WorkType, StepNames, Running
<1>16. CASE Exits(w)
  <2>1. PICK type \in {"parked", "failed"}, load \in Nat, kept \in Nat :
            Leave(type, w, load, kept)
    BY <1>0, <1>16 DEF Exits, LeaveLoop, PollDisconnected, GracefulExit, Cleanup, ParkOnAbort
  <2>2. cleaned' \in Nat
    BY <1>0, <1>16 DEF Exits, LeaveLoop, PollDisconnected, GracefulExit, Cleanup, WorkType
  <2>3. UNCHANGED <<mail, born, job>>
    BY <1>16 DEF Exits, LeaveLoop, PollDisconnected
  <2>4. /\ events' \in Seq(Message) /\ carried' \in [Worker -> Nat]
        /\ pc' \in [Worker -> StepNames]
    BY <2>1, LeaveType
  <2> QED
    BY <2>2, <2>3, <2>4 DEF WorkType
<1>17. CASE Return(w)
  <2>1. [st |-> "closed", load |-> 0] \in StateChan
    BY DEF StateChan
  <2> QED
    BY <1>17, <2>1 DEF Return, DropRetire, Goto, WorkType, StepNames, Running
<1> QED
  BY <1>1, <1>2, <1>3, <1>4, <1>5, <1>6, <1>7, <1>8, <1>9, <1>10, <1>11, <1>12, <1>13,
     <1>14, <1>15, <1>16, <1>17 DEF Steps

LEMMA TypeWorker ==
    ASSUME TypeOK, NEW w \in Worker, Steps(w) \/ Exits(w) \/ Panic(w)
    PROVE  TypeOK'
<1>1. WorkerFrame
  BY DEF Steps, Exits, Panic, TakeCommand, Start, FailInit, CheckAbort, SwapMergeFlag,
         NoMoreRequests, Merge, MergeFails, NotRetired, RetireByCleanup,
         RetireByTransfer, Process, PollTimeout, StayInLoop, Return, LeaveLoop,
         PollDisconnected
<1> QED
  BY <1>1, WorkTyped, WorkerStays

LEMMA TypeSupervisor ==
    ASSUME TypeOK, Supervisor
    PROVE  TypeOK'
<1> USE DEF SupervisorFrame, envVars, ledger, mail, roster, config
<1>0. NoOp \in Operation
  BY DEF NoOp, Operation
<1>1. CASE DrainEvent
  <2> DEFINE e == Head(events)
  <2>0. /\ e \in Message /\ events' \in Seq(Message)
        /\ e.worker \in Worker /\ e.load \in Nat
    <3>1. e \in Message /\ events' \in Seq(Message)
      BY <1>1, HeadTailProperties DEF DrainEvent, TypeOK
    <3> QED
      BY <3>1 DEF Message
  <2>1. /\ pending \in Operation /\ pending.node \in Node \cup {None}
        /\ pending.dst \in Worker \cup {None}
    BY DEF TypeOK, Operation
  <2>2. ASSUME Settle(pending)
        PROVE  pending' \in Operation /\ settling' \subseteq Node \cup {None}
    BY <1>0, <2>1, <2>2 DEF Settle, TypeOK
  <2>3. ASSUME Unassign(e.worker)
        PROVE  /\ active' \in [Worker -> (Node \ External) \cup {None}]
               /\ parked' \subseteq Worker
               /\ chan' \in [Worker -> StateChan]
    <3>1. [st |-> "closed", load |-> 0] \in StateChan
      BY DEF StateChan
    <3> QED
      BY <2>0, <2>3, <3>1 DEF Unassign, DropRetire, TypeOK
  <2>4. ASSUME HandOver(e)
        PROVE  /\ pending' \in Operation /\ settling' = settling
               /\ requests' \in [Worker -> Seq(Worker)]
               /\ mergeFlag' \in [Worker -> BOOLEAN]
               /\ abort' \in BOOLEAN
               /\ failure' \in {None, "internal", "worker", "reported"}
    <3>1. /\ [pending EXCEPT !.rx = FALSE, !.waiting = TRUE] \in Operation
          /\ [pending EXCEPT !.rx = FALSE] \in Operation
      BY <2>1 DEF Operation
    <3>2. \A d \in Worker : Append(requests[d], e.worker) \in Seq(Worker)
      BY <2>0 DEF TypeOK
    <3>3. CASE pending.rx /\ MergeSender(pending.dst) /\ Assigned(pending.dst)
      <4>1. /\ pending' = [pending EXCEPT !.rx = FALSE, !.waiting = TRUE]
            /\ requests' = [requests EXCEPT ![pending.dst] = Append(@, e.worker)]
            /\ mergeFlag' = [mergeFlag EXCEPT ![pending.dst] = TRUE]
            /\ settling' = settling /\ abort' = abort /\ failure' = failure
        BY <2>4, <3>3 DEF HandOver
      <4>2. mergeFlag' \in [Worker -> BOOLEAN] /\ requests' \in [Worker -> Seq(Worker)]
        BY <3>2, <4>1 DEF TypeOK
      <4> QED
        BY <3>1, <4>1, <4>2 DEF TypeOK
    <3>4. CASE ~(pending.rx /\ MergeSender(pending.dst) /\ Assigned(pending.dst))
      <4>1. /\ pending' = [pending EXCEPT !.rx = FALSE]
            /\ requests' = requests /\ mergeFlag' = mergeFlag /\ settling' = settling
            /\ abort' = TRUE /\ failure' = "internal"
        BY <2>4, <3>4 DEF HandOver, Raise
      <4> QED
        BY <3>1, <4>1 DEF TypeOK
    <3> QED
      BY <3>3, <3>4
  <2>5. CASE OnStarted(e)
    BY <1>1, <2>0, <2>2, <2>5 DEF DrainEvent, OnStarted, TypeOK
  <2>6. CASE OnParked(e)
    <3>1. returned' \in Nat
      BY <2>0, <2>6 DEF OnParked, TypeOK
    <3> QED
      BY <1>1, <2>0, <2>2, <2>3, <2>4, <2>6, <3>1 DEF DrainEvent, OnParked, TypeOK
  <2>7. CASE OnMerged(e)
    BY <1>1, <2>0, <2>2, <2>7 DEF DrainEvent, OnMerged, TypeOK
  <2>8. CASE OnFailed(e)
    BY <1>0, <1>1, <2>0, <2>1, <2>3, <2>8 DEF DrainEvent, OnFailed, Raise, TypeOK
  <2> QED
    BY <1>1, <2>5, <2>6, <2>7, <2>8 DEF DrainEvent
<1>2. CASE EventsDrained
  BY <1>2 DEF EventsDrained, TypeOK
<1>3. CASE DrainFailure
  <2>1. /\ reports' \in Nat
        /\ spc' \in {spc, "links", "stop"} /\ failure' \in {failure, "reported"}
    BY <1>3 DEF DrainFailure, Raise, TypeOK
  <2>3. abort' \in BOOLEAN
    BY <1>3, Zenon DEF DrainFailure, Raise, TypeOK
  <2>2. UNCHANGED <<ledger, envVars, pc, job, carried, mail, roster, config, events>>
    BY <1>3 DEF DrainFailure
  <2> QED
    BY <2>1, <2>2, <2>3 DEF TypeOK
<1>4. CASE CloseLinks
  BY <1>4 DEF CloseLinks, TypeOK
<1>5. CASE ScaleUp
  <2>1. PICK settled \in SUBSET settling, n \in Node, w \in Worker,
             fresh \in SUBSET (Worker \ spawned) :
           /\ CanScale(n, settled)
           /\ parked' = (parked \cup fresh) \ {w}
           /\ spawned' = spawned \cup fresh
           /\ Assign(w, n)
           /\ pending' = [NoOp EXCEPT !.kind = "add", !.src = w, !.node = n]
           /\ settling' = settling \ settled
    BY <1>5 DEF ScaleUp
  <2>2. n \in Node \ External
    BY <2>1 DEF CanScale, Elastic
  <2>3. pending' \in Operation
    BY <2>1 DEF NoOp, Operation
  <2>4. cmd' \in [Worker -> Seq(Command)]
    <3>1. Append(cmd[w], n) \in Seq(Command)
      BY <2>2 DEF TypeOK, Command
    <3> QED
      BY <2>1, <3>1 DEF Assign, TypeOK
  <2>5. /\ active' \in [Worker -> (Node \ External) \cup {None}]
        /\ chan' \in [Worker -> StateChan]
        /\ retire' \in [Worker -> {None, "cleanup", "transfer"}]
        /\ mergeFlag' \in [Worker -> BOOLEAN]
        /\ requests' \in [Worker -> Seq(Worker)]
    BY <2>1, <2>2 DEF Assign, EmptyChan, StateChan, TypeOK
  <2>6. /\ parked' \subseteq Worker /\ spawned' \subseteq Worker
        /\ settling' \subseteq Node \cup {None}
    BY <2>1 DEF TypeOK
  <2>7. /\ ops' = ops + 1 /\ spc' = "exit"
        /\ UNCHANGED <<ledger, envVars, pc, job, carried, held, failure, returned,
                       result, events, reports, abort>>
    BY <1>5 DEF ScaleUp
  <2> QED
    BY <2>3, <2>4, <2>5, <2>6, <2>7 DEF TypeOK
<1>6. CASE ScaleDown
  <2>1. PICK settled \in SUBSET settling, n \in Node, w \in Worker :
           /\ settling' = settling \ settled
           /\ IF n \in Mergeable /\ Cardinality(Staff(n)) > 1
              THEN \E dst \in Staff(n) \ {w} :
                     /\ retire' = [retire EXCEPT ![w] = "transfer"]
                     /\ chan' = [chan EXCEPT ![w] = [st |-> "open", load |-> 0]]
                     /\ pending' = [kind |-> "merge", src |-> w, dst |-> dst,
                                    node |-> n, rx |-> TRUE, waiting |-> FALSE]
              ELSE /\ retire' = [retire EXCEPT ![w] = "cleanup"]
                   /\ pending' = [NoOp EXCEPT !.kind = "remove", !.src = w,
                                              !.node = n]
                   /\ UNCHANGED chan
    BY <1>6 DEF ScaleDown
  <2>2. settling' \subseteq Node \cup {None}
    BY <2>1 DEF TypeOK
  <2>3. /\ retire' \in [Worker -> {None, "cleanup", "transfer"}]
        /\ chan' \in [Worker -> StateChan]
    <3>1. [st |-> "open", load |-> 0] \in StateChan
      BY DEF StateChan
    <3>2. /\ \/ retire' = [retire EXCEPT ![w] = "transfer"]
             \/ retire' = [retire EXCEPT ![w] = "cleanup"]
          /\ \/ chan' = [chan EXCEPT ![w] = [st |-> "open", load |-> 0]]
             \/ chan' = chan
      BY <2>1
    <3>3. /\ retire \in [Worker -> {None, "cleanup", "transfer"}]
          /\ chan \in [Worker -> StateChan]
      BY DEF TypeOK
    <3> QED
      BY <3>1, <3>2, <3>3
  <2>4. pending' \in Operation
    <3>1. CASE n \in Mergeable /\ Cardinality(Staff(n)) > 1
      <4>1. PICK dst \in Staff(n) \ {w} :
                pending' = [kind |-> "merge", src |-> w, dst |-> dst,
                            node |-> n, rx |-> TRUE, waiting |-> FALSE]
        BY <2>1, <3>1
      <4>2. dst \in Worker
        BY <4>1 DEF Staff
      <4> QED
        BY <4>1, <4>2 DEF Operation
    <3>2. CASE ~(n \in Mergeable /\ Cardinality(Staff(n)) > 1)
      <4>1. pending' = [kind |-> "remove", src |-> w, dst |-> None, node |-> n,
                        rx |-> FALSE, waiting |-> FALSE]
        BY <2>1, <3>2 DEF NoOp
      <4> QED
        BY <4>1 DEF Operation
    <3> QED
      BY <3>1, <3>2
  <2>5. /\ ops' = ops + 1 /\ spc' = "exit"
        /\ UNCHANGED <<ledger, envVars, pc, job, carried, held, active, parked,
                       spawned, failure, returned, result, cmd, mergeFlag, requests,
                       events, reports, abort>>
    BY <1>6 DEF ScaleDown
  <2> QED
    BY <2>2, <2>3, <2>4, <2>5 DEF TypeOK
<1>7. CASE NoScale
  BY <1>7 DEF NoScale, TypeOK
<1>8. CASE CheckExit
  BY <1>8 DEF CheckExit, TypeOK
<1>9. CASE StopParked
  <2>1. cmd' \in [Worker -> Seq(Command)]
    BY <1>9 DEF StopParked, Command, TypeOK
  <2> QED
    BY <1>9, <2>1 DEF StopParked, TypeOK
<1>10. CASE JoinWorkers
  BY <1>10 DEF JoinWorkers, TypeOK
<1> QED
  BY <1>1, <1>2, <1>3, <1>4, <1>5, <1>6, <1>7, <1>8, <1>9, <1>10 DEF Supervisor

LEMMA TypeEnvironment ==
    ASSUME TypeOK, Environment
    PROVE  TypeOK'
<1> USE DEF OutsideFrame, supVars, workVars, ledger
<1>1. CASE Shutdown \/ Abort
  <2>1. /\ shutdown' \in BOOLEAN /\ abort' \in BOOLEAN /\ asked' \in BOOLEAN
    BY <1>1, Zenon DEF Shutdown, Abort, TypeOK
  <2>2. UNCHANGED <<supVars, ledger, workVars, events, handles, rpc, reports>>
    BY <1>1 DEF Shutdown, Abort
  <2> QED
    BY <2>1, <2>2 DEF TypeOK
<1>2. CASE \E x \in External : DropHandle(x)
  BY <1>2 DEF DropHandle, TypeOK
<1>3. CASE \E r \in Recorder \cup Reporter : Reports(r)
  <2>1. PICK r \in Recorder \cup Reporter : Reports(r)
    BY <1>3
  <2>2. /\ rpc' \in [Recorder \cup Reporter -> {"quiet", "between", "over"}]
        /\ reports' \in Nat
    <3>1. \/ rpc' = [rpc EXCEPT ![r] = "between"]
          \/ rpc' = [rpc EXCEPT ![r] = "over"]
      BY <2>1 DEF Reports, StoreAbort, SendReport
    <3>2. reports' \in {reports, reports + 1}
      BY <2>1 DEF Reports, StoreAbort, SendReport
    <3>3. /\ rpc \in [Recorder \cup Reporter -> {"quiet", "between", "over"}]
          /\ reports \in Nat
      BY DEF TypeOK
    <3> QED
      BY <3>1, <3>2, <3>3
  <2>4. abort' \in BOOLEAN
    BY <2>1, Zenon DEF Reports, StoreAbort, SendReport, TypeOK
  <2>3. UNCHANGED <<supVars, ledger, workVars, events, shutdown, asked, handles>>
    BY <2>1 DEF Reports, StoreAbort, SendReport
  <2> QED
    BY <2>2, <2>3, <2>4 DEF TypeOK
<1> QED
  BY <1>1, <1>2, <1>3 DEF Environment

LEMMA TypeStep ==
    ASSUME TypeOK, [Next]_vars
    PROVE  TypeOK'
<1>1. CASE Supervisor
  BY <1>1, TypeSupervisor
<1>2. CASE \E w \in Worker : Steps(w) \/ Exits(w) \/ Panic(w)
  BY <1>2, TypeWorker
<1>3. CASE Environment
  BY <1>3, TypeEnvironment
<1>4. CASE UNCHANGED vars
  BY <1>4 DEF vars, supVars, ledger, workVars, envVars, TypeOK
<1> QED
  BY <1>1, <1>2, <1>3, <1>4 DEF Next, Finished

\* Every variable of the pool keeps its type, whatever the graph and the limits.
THEOREM TypeCorrect == Spec => []TypeOK
<1>1. TypeOK /\ [Next]_vars => TypeOK'
  BY TypeStep
<1> QED
  BY TypeInit, <1>1, PTL DEF Spec

-----------------------------------------------------------------------------
(* Stopping is for good, and the supervisor closes its links only then.    *)

LEMMA WorkerFrames ==
    ASSUME NEW w \in Worker, Steps(w) \/ Exits(w) \/ Panic(w)
    PROVE  UNCHANGED <<supVars, envVars, reports, abort>>
  BY DEF Steps, Exits, TakeCommand, Start, FailInit, CheckAbort, SwapMergeFlag,
     NoMoreRequests, Merge, MergeFails, NotRetired, RetireByCleanup,
     RetireByTransfer, Process, PollTimeout, StayInLoop, Return, LeaveLoop,
     PollDisconnected, Panic, WorkerFrame

LEMMA FlagsLatch ==
    ASSUME TypeOK, [Next]_vars
    PROVE  Stopping => Stopping'
<1> USE DEF Stopping
<1>1. CASE Supervisor
  <2> USE DEF SupervisorFrame, envVars, mail, roster, config
  <2>1. shutdown' = shutdown
    BY <1>1 DEF Supervisor, DrainEvent, EventsDrained, DrainFailure, CloseLinks,
       ScaleUp, ScaleDown, NoScale, CheckExit, StopParked, JoinWorkers
  <2>2. \/ abort' = TRUE
        \/ abort' = abort /\ failure' = failure
    BY <1>1 DEF Supervisor, DrainEvent, EventsDrained, DrainFailure, CloseLinks,
       ScaleUp, ScaleDown, NoScale, CheckExit, StopParked, JoinWorkers,
       OnStarted, OnParked, OnMerged, OnFailed, HandOver, Raise
  <2> QED
    BY <2>1, <2>2
<1>2. CASE \E w \in Worker : Steps(w) \/ Exits(w) \/ Panic(w)
  BY <1>2, WorkerFrames DEF supVars, envVars
<1>3. CASE Environment
  <2>1. failure' = failure
    BY <1>3 DEF Environment, Shutdown, Abort, DropHandle, Reports, StoreAbort,
       SendReport, OutsideFrame, supVars
  <2>2. shutdown' = TRUE \/ shutdown' = shutdown
    BY <1>3 DEF Environment, Shutdown, Abort, DropHandle, Reports, StoreAbort,
       SendReport
  <2>3. abort' = TRUE \/ abort' = abort
    BY <1>3 DEF Environment, Shutdown, Abort, DropHandle, Reports, StoreAbort,
       SendReport
  <2> QED
    BY <2>1, <2>2, <2>3
<1>4. CASE UNCHANGED vars
  BY <1>4 DEF vars, supVars, envVars
<1> QED
  BY <1>1, <1>2, <1>3, <1>4 DEF Next, Finished

\* The inductive invariant behind NoAssignmentAfterClose: the links are closed
\* only once the pipeline was told to stop.
LinksHeld == held \/ Stopping

LEMMA LinksInit == Init => LinksHeld
  BY DEF Init, LinksHeld

LEMMA LinksStep ==
    ASSUME TypeOK, LinksHeld, [Next]_vars
    PROVE  LinksHeld'
<1>1. CASE Stopping
  BY <1>1, FlagsLatch DEF LinksHeld
<1>2. CASE ~Stopping
  <2>1. CASE CloseLinks
    BY <1>2, <2>1 DEF CloseLinks, LinksHeld
  <2>2. CASE Supervisor /\ ~CloseLinks
    <3>1. held' = held
      BY <2>2 DEF Supervisor, DrainEvent, EventsDrained, DrainFailure, ScaleUp,
         ScaleDown, NoScale, CheckExit, StopParked, JoinWorkers, config
    <3> QED
      BY <1>2, <3>1, Zenon DEF LinksHeld
  <2>4. CASE \E w \in Worker : Steps(w) \/ Exits(w) \/ Panic(w)
    BY <1>2, <2>4, WorkerFrames DEF LinksHeld, supVars
  <2>5. CASE Environment
    BY <1>2, <2>5 DEF Environment, Shutdown, Abort, DropHandle, Reports, StoreAbort,
       SendReport, OutsideFrame, supVars, LinksHeld
  <2>6. CASE UNCHANGED vars
    BY <1>2, <2>6 DEF vars, supVars, LinksHeld
  <2> QED
    BY <2>1, <2>2, <2>4, <2>5, <2>6 DEF Next, Finished
<1> QED
  BY <1>1, <1>2

\* Only ScaleUp gives a worker an assignment.
LEMMA OnlyScaleUpAssigns ==
    ASSUME TypeOK, [Next]_vars, ~ScaleUp,
           NEW w \in Worker, active[w] = None
    PROVE  active'[w] = None
<1>1. CASE DrainEvent
  <2>1. active' = active \/ active' = [active EXCEPT ![Head(events).worker] = None]
    BY <1>1 DEF DrainEvent, OnStarted, OnParked, OnMerged, OnFailed, Unassign
  <2> QED
    BY <2>1 DEF TypeOK
<1>2. CASE Supervisor /\ ~DrainEvent
  BY <1>2 DEF Supervisor, EventsDrained, DrainFailure, CloseLinks, ScaleDown, NoScale,
     CheckExit, StopParked, JoinWorkers, roster
<1>3. CASE \E v \in Worker : Steps(v) \/ Exits(v) \/ Panic(v)
  BY <1>3, WorkerFrames DEF supVars
<1>4. CASE Environment
  BY <1>4 DEF Environment, Shutdown, Abort, DropHandle, Reports, StoreAbort,
     SendReport, OutsideFrame, supVars
<1>5. CASE UNCHANGED vars
  BY <1>5 DEF vars, supVars
<1> QED
  BY <1>1, <1>2, <1>3, <1>4, <1>5 DEF Next, Finished

\* A worker is given an assignment only while the supervisor holds the links.
THEOREM AssignsWhileHeld == Spec => NoAssignmentAfterClose
<1> DEFINE A == \A w \in Worker, n \in Node :
                   active[w] = None /\ active'[w] = n => held'
<1>1. ASSUME TypeOK, LinksHeld, [Next]_vars PROVE A
  <2>1. CASE ScaleUp
    <3>1. ~Stopping /\ held' = held
      BY <2>1 DEF ScaleUp, MayScale
    <3> QED
      BY <1>1, <3>1 DEF LinksHeld
  <2>2. CASE ~ScaleUp
    <3> SUFFICES ASSUME NEW w \in Worker, NEW n \in Node, active[w] = None
                 PROVE  active'[w] # n
      OBVIOUS
    <3> QED
      BY <1>1, <2>2, OnlyScaleUpAssigns, NodesAssumption
  <2> QED
    BY <2>1, <2>2
<1>2. ASSUME TypeOK, LinksHeld, [Next]_vars PROVE TypeOK' /\ LinksHeld'
  BY <1>2, TypeStep, LinksStep
<1>3. TypeOK /\ LinksHeld /\ [Next]_vars => [A]_vars
  BY <1>1
<1> QED
  BY TypeInit, LinksInit, <1>2, <1>3, PTL DEF Spec, NoAssignmentAfterClose

-----------------------------------------------------------------------------
(* Exit events in a channel.                                               *)

IsExit(e) == e.type \in {"parked", "failed"}
ExitsIn(s, w) == {i \in 1..Len(s) : s[i].worker = w /\ IsExit(s[i])}

LEMMA ExitsAppended ==
    ASSUME NEW s \in Seq(Message), NEW e \in Message, NEW w \in Worker
    PROVE  /\ ~(e.worker = w /\ IsExit(e)) => ExitsIn(Append(s, e), w) = ExitsIn(s, w)
           /\ e.worker = w /\ IsExit(e) =>
                ExitsIn(Append(s, e), w) = ExitsIn(s, w) \cup {Len(s) + 1}
           /\ \A i \in ExitsIn(s, w) : Append(s, e)[i] = s[i]
           /\ Append(s, e)[Len(s) + 1] = e
<1> DEFINE t == Append(s, e)
<1>1. /\ Len(t) = Len(s) + 1 /\ Len(s) \in Nat
      /\ \A i \in 1..Len(s) : t[i] = s[i]
      /\ t[Len(s) + 1] = e
  OBVIOUS
<1>2. \A i : i \in 1..Len(t) <=> i \in 1..Len(s) \/ i = Len(s) + 1
  BY <1>1
<1> HIDE DEF t
<1>3. \A i : i \in ExitsIn(t, w) <=>
         i \in ExitsIn(s, w) \/ (i = Len(s) + 1 /\ e.worker = w /\ IsExit(e))
  <2>1. Len(s) + 1 \notin 1..Len(s)
    BY <1>1
  <2> QED
    BY <1>1, <1>2, <2>1 DEF ExitsIn
<1>4. \A i \in ExitsIn(s, w) : t[i] = s[i]
  BY <1>1 DEF ExitsIn
<1> QED
  BY <1>1, <1>3, <1>4 DEF t

LEMMA ExitsTailed ==
    ASSUME NEW s \in Seq(Message), s # <<>>, NEW w \in Worker
    PROVE  /\ \A i : i \in ExitsIn(Tail(s), w) <=> i \in Nat \ {0} /\ i + 1 \in ExitsIn(s, w)
           /\ \A i \in ExitsIn(Tail(s), w) : Tail(s)[i] = s[i + 1]
           /\ 1 \in ExitsIn(s, w) <=> Head(s).worker = w /\ IsExit(Head(s))
<1>1. /\ Len(s) \in Nat \ {0} /\ Len(Tail(s)) = Len(s) - 1 /\ Head(s) = s[1]
      /\ \A i \in 1..(Len(s) - 1) : Tail(s)[i] = s[i + 1]
  OBVIOUS
<1>2. \A i \in Nat \ {0} : i \in 1..(Len(s) - 1) <=> i + 1 \in 1..Len(s)
  BY <1>1
<1>3. ASSUME NEW i, i \in ExitsIn(Tail(s), w)
      PROVE  i \in Nat \ {0} /\ i + 1 \in ExitsIn(s, w) /\ Tail(s)[i] = s[i + 1]
  <2>1. i \in 1..(Len(s) - 1) /\ Tail(s)[i].worker = w /\ IsExit(Tail(s)[i])
    BY <1>1, <1>3 DEF ExitsIn
  <2>2. i \in Nat \ {0} /\ i + 1 \in 1..Len(s)
    BY <1>1, <2>1
  <2> QED
    BY <1>1, <2>1, <2>2 DEF ExitsIn
<1>4. ASSUME NEW i \in Nat \ {0}, i + 1 \in ExitsIn(s, w)
      PROVE  i \in ExitsIn(Tail(s), w)
  <2>1. i + 1 \in 1..Len(s) /\ s[i + 1].worker = w /\ IsExit(s[i + 1])
    BY <1>4 DEF ExitsIn
  <2>2. i \in 1..(Len(s) - 1)
    BY <1>2, <2>1
  <2> QED
    BY <1>1, <2>1, <2>2 DEF ExitsIn
<1>5. 1 \in ExitsIn(s, w) <=> Head(s).worker = w /\ IsExit(Head(s))
  BY <1>1 DEF ExitsIn
<1> QED
  BY <1>3, <1>4, <1>5

LEMMA ExitEventsIn == \A w \in Worker : ExitEvents(w) = ExitsIn(events, w)
  BY DEF ExitEvents, ExitsIn, IsExit

-----------------------------------------------------------------------------
(* The inductive invariant.                                                *)

InLoop == Running \ {"returning"}

\* Assigned, and not yet started.
Waiting(w) ==
    /\ pc[w] \in {"idle", "returning"} /\ cmd[w] = <<active[w]>>
    /\ ExitsIn(events, w) = {}
\* In the loop of its assignment.
Looping(w) ==
    /\ pc[w] \in InLoop /\ cmd[w] = <<>> /\ job[w] = active[w]
    /\ ExitsIn(events, w) = {}
\* Out of the loop, its last event not read yet.
Gone(w) ==
    /\ pc[w] \in {"idle", "returning", "panicked"} /\ cmd[w] = <<>>
    /\ \E i \in ExitsIn(events, w) :
          ExitsIn(events, w) = {i} /\ events[i].node = active[w]
\* Panicked: the supervisor will not hear of it.
Lost(w) == pc[w] = "panicked" /\ ExitsIn(events, w) = {}
\* Without an assignment.
Off(w) ==
    /\ ExitsIn(events, w) = {}
    /\ pc[w] \in {"idle", "returning", "stopped", "panicked"}
    /\ pc[w] = "stopped" => spc \in {"join", "done"}
    /\ cmd[w] = <<>> \/ (cmd[w] = <<Stop>> /\ spc \in {"join", "done"})
Stage(w) ==
    \/ active[w] # None /\ (Waiting(w) \/ Looping(w) \/ Gone(w) \/ Lost(w))
    \/ active[w] = None /\ Off(w)

RosterInv ==
    /\ parked \cap Busy = {}
    /\ spc \notin {"join", "done"} => spawned = parked \cup Busy
    /\ spc \in {"final", "stop", "join", "done"} => Busy = {}
    /\ \A w \in Worker : Stage(w)

-----------------------------------------------------------------------------
(* What a step of a worker does to its stage.                              *)

Others(w) ==
    \A v \in Worker \ {w} :
        pc'[v] = pc[v] /\ job'[v] = job[v] /\ cmd'[v] = cmd[v]
Took(w) ==
    /\ pc[w] = "idle" /\ cmd[w] # <<>> /\ cmd'[w] = Tail(cmd[w]) /\ events' = events
    /\ \/ Head(cmd[w]) = Stop /\ pc'[w] = "stopped"
       \/ Head(cmd[w]) # Stop /\ pc'[w] = "init" /\ job'[w] = Head(cmd[w])
Moved(w) ==
    /\ pc[w] \in InLoop /\ pc'[w] \in InLoop
    /\ cmd'[w] = cmd[w] /\ job'[w] = job[w]
    /\ \/ events' = events
       \/ \E e \in Message : ~IsExit(e) /\ events' = Append(events, e)
Left(w) ==
    /\ pc[w] \in InLoop /\ pc'[w] = "returning"
    /\ cmd'[w] = cmd[w] /\ job'[w] = job[w]
    /\ \E e \in Message : /\ IsExit(e) /\ e.worker = w /\ e.node = job[w]
                          /\ events' = Append(events, e)
Returned(w) ==
    /\ pc[w] = "returning" /\ pc'[w] = "idle" /\ cmd'[w] = cmd[w]
    /\ events' = events
Panicked(w) ==
    /\ pc[w] \in Running /\ pc'[w] = "panicked" /\ cmd'[w] = cmd[w]
    /\ events' = events

LEMMA LeaveLeaves ==
    ASSUME TypeOK, NEW w \in Worker, NEW type \in {"parked", "failed"},
           NEW load \in Nat, NEW kept, Leave(type, w, load, kept),
           pc[w] \in InLoop, job' = job, cmd' = cmd
    PROVE  Left(w) /\ Others(w)
<1> DEFINE e == Event(type, w, job[w], load, None)
<1>1. job[w] \in Node \cup {None}
  BY DEF TypeOK
<1>2. e \in Message /\ IsExit(e) /\ e.worker = w /\ e.node = job[w]
  BY <1>1 DEF Event, Message, IsExit
<1>3. events' = Append(events, e) /\ pc' = [pc EXCEPT ![w] = "returning"]
  BY DEF Leave, Post, Goto
<1>4. pc'[w] = "returning" /\ \A v \in Worker \ {w} : pc'[v] = pc[v]
  BY <1>3 DEF TypeOK
<1> HIDE DEF e
<1> QED
  BY <1>2, <1>3, <1>4 DEF Left, Others

LEMMA GotoMoves ==
    ASSUME TypeOK, NEW w \in Worker, NEW step \in InLoop, Goto(w, step),
           pc[w] \in InLoop, job' = job, cmd' = cmd,
           \/ events' = events
           \/ \E e \in Message : ~IsExit(e) /\ events' = Append(events, e)
    PROVE  Moved(w) /\ Others(w)
<1>1. pc'[w] = step /\ \A v \in Worker \ {w} : pc'[v] = pc[v]
  BY DEF Goto, TypeOK
<1> QED
  BY <1>1 DEF Moved, Others

LEMMA WorkerEffect ==
    ASSUME TypeOK, NEW w \in Worker, Steps(w) \/ Exits(w) \/ Panic(w)
    PROVE  /\ Others(w)
           /\ Took(w) \/ Moved(w) \/ Left(w) \/ Returned(w) \/ Panicked(w)
<1> USE DEF mail
<1>0. carried[w] \in Nat /\ 0 \in Nat
  BY DEF TypeOK
<1>1. CASE TakeCommand(w)
  <2>1. \A v \in Worker \ {w} : pc'[v] = pc[v] /\ job'[v] = job[v] /\ cmd'[v] = cmd[v]
    BY <1>1 DEF TakeCommand, Goto, TypeOK
  <2>2. Took(w)
    BY <1>1 DEF TakeCommand, Goto, Took, TypeOK
  <2> QED
    BY <2>1, <2>2 DEF Others
<1>2. CASE Start(w)
  <2> DEFINE e == Event("started", w, job[w], 0, None)
  <2>1. job[w] \in Node \cup {None}
    BY DEF TypeOK
  <2>2. e \in Message /\ ~IsExit(e)
    BY <2>1 DEF Event, Message, IsExit
  <2>3. /\ events' = Append(events, e) /\ Goto(w, "head") /\ pc[w] = "init"
        /\ job' = job /\ cmd' = cmd
    BY <1>2 DEF Start, Post
  <2> HIDE DEF e
  <2> QED
    BY <2>2, <2>3, GotoMoves DEF InLoop, Running
<1>3. CASE FailInit(w)
  BY <1>0, <1>3, LeaveLeaves DEF FailInit, Fail, InLoop, Running
<1>4. CASE CheckAbort(w)
  <2>1. /\ pc[w] \in InLoop /\ job' = job /\ cmd' = cmd
        /\ \/ ParkOnAbort(w)
           \/ Goto(w, "retire") /\ events' = events
           \/ Goto(w, "merge") /\ events' = events
    BY <1>4 DEF CheckAbort, InLoop, Running
  <2> QED
    BY <1>0, <2>1, LeaveLeaves, GotoMoves DEF ParkOnAbort, InLoop, Running
<1>5. CASE SwapMergeFlag(w)
  <2>1. /\ pc[w] \in InLoop /\ job' = job /\ cmd' = cmd /\ events' = events
        /\ Goto(w, "requests") \/ Goto(w, "retire")
    BY <1>5 DEF SwapMergeFlag, InLoop, Running
  <2> QED
    BY <2>1, GotoMoves DEF InLoop, Running
<1>6. CASE NoMoreRequests(w) \/ NotRetired(w) \/ StayInLoop(w)
  <2>1. /\ pc[w] \in InLoop /\ job' = job /\ cmd' = cmd /\ events' = events
        /\ Goto(w, "retire") \/ Goto(w, "poll") \/ Goto(w, "head")
    BY <1>6 DEF NoMoreRequests, NotRetired, StayInLoop, InLoop, Running
  <2> QED
    BY <2>1, GotoMoves DEF InLoop, Running
<1>7. CASE Merge(w)
  <2> DEFINE e == Event("merged", w, job[w], 0, Head(requests[w]))
  <2>1. job[w] \in Node \cup {None} /\ Head(requests[w]) \in Worker
    <3>1. requests[w] \in Seq(Worker) /\ requests[w] # <<>>
      BY <1>7 DEF Merge, TypeOK
    <3> QED
      BY <3>1, HeadTailProperties DEF TypeOK
  <2>2. e \in Message /\ ~IsExit(e)
    BY <2>1 DEF Event, Message, IsExit
  <2>3. /\ events' = Append(events, e) /\ pc[w] = "requests" /\ pc' = pc
        /\ job' = job /\ cmd' = cmd
    BY <1>7 DEF Merge, Post
  <2> HIDE DEF e
  <2> QED
    BY <2>2, <2>3 DEF Moved, Others, InLoop, Running
<1>8. CASE MergeFails(w)
  BY <1>0, <1>8, LeaveLeaves DEF MergeFails, Fail, InLoop, Running
<1>9. CASE RetireByCleanup(w)
  BY <1>0, <1>9, LeaveLeaves DEF RetireByCleanup, Cleanup, InLoop, Running
<1>10. CASE RetireByTransfer(w)
  <2>1. PICK type \in {"parked", "failed"} : Leave(type, w, 0, 0)
    BY <1>10 DEF RetireByTransfer
  <2>2. pc[w] \in InLoop /\ job' = job /\ cmd' = cmd
    BY <1>10 DEF RetireByTransfer, InLoop, Running
  <2> QED
    BY <1>0, <2>1, <2>2, LeaveLeaves
<1>11. CASE Process(w)
  <2>1. /\ pc[w] \in InLoop /\ job' = job /\ cmd' = cmd
        /\ (Goto(w, "head") /\ events' = events) \/ Fail(w)
    BY <1>11 DEF Process, InLoop, Running
  <2> QED
    BY <1>0, <2>1, LeaveLeaves, GotoMoves DEF Fail, InLoop, Running
<1>12. CASE PollTimeout(w)
  <2>1. /\ pc[w] \in InLoop /\ job' = job /\ cmd' = cmd
        /\ (Goto(w, "check") /\ events' = events) \/ ParkOnAbort(w)
    BY <1>12 DEF PollTimeout, InLoop, Running
  <2> QED
    BY <1>0, <2>1, LeaveLeaves, GotoMoves DEF ParkOnAbort, InLoop, Running
<1>13. CASE Exits(w)
  <2>1. PICK type \in {"parked", "failed"}, load \in Nat, kept \in Nat :
            Leave(type, w, load, kept)
    BY <1>0, <1>13 DEF Exits, LeaveLoop, PollDisconnected, GracefulExit, Cleanup,
       ParkOnAbort
  <2>2. pc[w] \in InLoop /\ job' = job /\ cmd' = cmd
    BY <1>13 DEF Exits, LeaveLoop, PollDisconnected, InLoop, Running
  <2> QED
    BY <2>1, <2>2, LeaveLeaves
<1>14. CASE Return(w)
  <2>1. /\ pc[w] = "returning" /\ pc'[w] = "idle" /\ cmd' = cmd /\ events' = events
        /\ \A v \in Worker \ {w} : pc'[v] = pc[v] /\ job'[v] = job[v]
    BY <1>14 DEF Return, Goto, TypeOK
  <2> QED
    BY <2>1 DEF Returned, Others
<1>15. CASE Panic(w)
  <2>1. /\ pc[w] \in Running /\ pc'[w] = "panicked" /\ cmd' = cmd /\ events' = events
        /\ \A v \in Worker \ {w} : pc'[v] = pc[v] /\ job'[v] = job[v]
    BY <1>15 DEF Panic, Goto, TypeOK, Running
  <2> QED
    BY <2>1 DEF Panicked, Others
<1> QED
  BY <1>1, <1>2, <1>3, <1>4, <1>5, <1>6, <1>7, <1>8, <1>9, <1>10, <1>11, <1>12,
     <1>13, <1>14, <1>15 DEF Steps

-----------------------------------------------------------------------------
(* Every step preserves the invariant.                                     *)

LEMMA RosterInit == Init => RosterInv
<1> SUFFICES ASSUME Init PROVE RosterInv
  OBVIOUS
<1>1. Busy = DOMAIN Startup
  <2>1. \A w \in DOMAIN Startup : w \in Worker /\ Startup[w] \in Node
    BY StartupAssumption
  <2>2. \A w \in Worker : active[w] = IF w \in DOMAIN Startup THEN Startup[w] ELSE None
    BY DEF Init
  <2>3. \A w \in DOMAIN Startup : Startup[w] # None
    BY <2>1, NodesAssumption
  <2>4. \A w : w \in Busy <=> w \in DOMAIN Startup
    BY <2>1, <2>2, <2>3 DEF Busy
  <2> QED
    BY <2>4
<1>2. parked \cap Busy = {} /\ spawned = parked \cup Busy
  BY <1>1, StartupAssumption DEF Init
<1>3. \A w \in Worker : ExitsIn(events, w) = {}
  BY DEF Init, ExitsIn
<1>4. \A w \in Worker : active[w] # None => Waiting(w)
  BY <1>3, StartupAssumption, NodesAssumption DEF Init, Waiting
<1>5. \A w \in Worker : active[w] = None => Off(w)
  <2>1. \A w \in Worker : active[w] = None => cmd[w] = <<>> /\ pc[w] = "idle"
    BY StartupAssumption, NodesAssumption DEF Init
  <2> QED
    BY <1>3, <2>1 DEF Off
<1> QED
  BY <1>2, <1>4, <1>5 DEF Init, RosterInv, Stage

\* A worker's step changes nobody else's stage.
LEMMA StageKept ==
    ASSUME RosterInv, NEW v \in Worker, active'[v] = active[v], spc' = spc,
           pc'[v] = pc[v], job'[v] = job[v], cmd'[v] = cmd[v],
           ExitsIn(events', v) = ExitsIn(events, v),
           \A i \in ExitsIn(events, v) : events'[i] = events[i]
    PROVE  Stage(v)'
<1>1. Stage(v)
  BY DEF RosterInv
<1>2. CASE active[v] # None
  <2>1. Waiting(v) \/ Looping(v) \/ Gone(v) \/ Lost(v)
    BY <1>1, <1>2 DEF Stage
  <2>2. CASE Waiting(v)
    BY <1>2, <2>2 DEF Waiting, Stage
  <2>3. CASE Looping(v)
    BY <1>2, <2>3 DEF Looping, Stage
  <2>4. CASE Gone(v)
    BY <1>2, <2>4 DEF Gone, Stage
  <2>5. CASE Lost(v)
    BY <1>2, <2>5 DEF Lost, Stage
  <2> QED
    BY <2>1, <2>2, <2>3, <2>4, <2>5
<1>3. CASE active[v] = None
  BY <1>1, <1>3 DEF Stage, Off
<1> QED
  BY <1>2, <1>3

LEMMA RosterWorker ==
    ASSUME TypeOK, RosterInv, NEW w \in Worker, Steps(w) \/ Exits(w) \/ Panic(w)
    PROVE  RosterInv'
<1>1. /\ active' = active /\ parked' = parked /\ spawned' = spawned /\ spc' = spc
  BY WorkerFrames DEF supVars
<1>2. /\ parked' \cap Busy' = {}
      /\ spc' \notin {"join", "done"} => spawned' = parked' \cup Busy'
      /\ spc' \in {"final", "stop", "join", "done"} => Busy' = {}
  BY <1>1 DEF RosterInv, Busy
<1>3. /\ Others(w)
      /\ Took(w) \/ Moved(w) \/ Left(w) \/ Returned(w) \/ Panicked(w)
  BY WorkerEffect
<1>4. events \in Seq(Message)
  BY DEF TypeOK
<1>5. ASSUME NEW v \in Worker \ {w}
      PROVE  Stage(v)'
  <2>1. /\ ExitsIn(events', v) = ExitsIn(events, v)
        /\ \A i \in ExitsIn(events, v) : events'[i] = events[i]
    <3>1. CASE events' = events
      BY <3>1
    <3>2. CASE \E e \in Message : events' = Append(events, e)
                                  /\ ~(e.worker = v /\ IsExit(e))
      <4>1. PICK e \in Message : events' = Append(events, e)
                                 /\ ~(e.worker = v /\ IsExit(e))
        BY <3>2
      <4>2. /\ ExitsIn(Append(events, e), v) = ExitsIn(events, v)
            /\ \A i \in ExitsIn(events, v) : Append(events, e)[i] = events[i]
        BY <1>4, <4>1, ExitsAppended
      <4> QED
        BY <4>1, <4>2
    <3> QED
      BY <1>3, <3>1, <3>2 DEF Took, Moved, Left, Returned, Panicked
  <2>2. pc'[v] = pc[v] /\ job'[v] = job[v] /\ cmd'[v] = cmd[v]
    BY <1>3 DEF Others
  <2> QED
    BY <1>1, <2>1, <2>2, StageKept
<1>6. Stage(w)'
  <2>0. Stage(w)
    BY DEF RosterInv
  <2>a. active[w] # Stop
    BY NodesAssumption DEF TypeOK, None, Stop
  <2>1. CASE Took(w)
    <3>0. pc[w] = "idle" /\ cmd[w] # <<>> /\ events' = events /\ cmd'[w] = Tail(cmd[w])
      BY <2>1 DEF Took
    <3>1. CASE active[w] # None
      <4>1. Waiting(w)
        BY <2>0, <3>0, <3>1 DEF Stage, Waiting, Looping, Gone, Lost, InLoop, Running
      <4>2. Head(cmd[w]) = active[w] /\ Tail(cmd[w]) = <<>>
        BY <4>1 DEF Waiting
      <4>3. pc'[w] = "init" /\ job'[w] = active[w] /\ cmd'[w] = <<>>
        BY <2>1, <2>a, <4>2 DEF Took
      <4>4. ExitsIn(events', w) = {}
        BY <3>0, <4>1 DEF Waiting
      <4>5. Looping(w)'
        BY <1>1, <4>3, <4>4 DEF Looping, InLoop, Running
      <4> QED
        BY <1>1, <3>1, <4>5 DEF Stage
    <3>2. CASE active[w] = None
      <4>1. Off(w)
        BY <2>0, <3>2 DEF Stage
      <4>2. cmd[w] = <<Stop>> /\ spc \in {"join", "done"}
        BY <3>0, <4>1 DEF Off
      <4>3. Head(cmd[w]) = Stop /\ Tail(cmd[w]) = <<>>
        BY <4>2
      <4>4. pc'[w] = "stopped" /\ cmd'[w] = <<>>
        BY <2>1, <4>3 DEF Took
      <4>5. ExitsIn(events', w) = {}
        BY <3>0, <4>1 DEF Off
      <4> QED
        BY <1>1, <3>2, <4>2, <4>4, <4>5 DEF Stage, Off
    <3> QED
      BY <3>1, <3>2
  <2>2. CASE Moved(w)
    <3>1. active[w] # None /\ Looping(w)
      BY <2>0, <2>2 DEF Moved, Stage, Off, Waiting, Looping, Gone, Lost, InLoop, Running
    <3>2. ExitsIn(events', w) = ExitsIn(events, w)
      BY <1>4, <2>2, ExitsAppended DEF Moved
    <3>3. Looping(w)'
      BY <1>1, <2>2, <3>1, <3>2 DEF Moved, Looping
    <3> QED
      BY <1>1, <3>1, <3>3 DEF Stage
  <2>3. CASE Left(w)
    <3>1. active[w] # None /\ Looping(w)
      BY <2>0, <2>3 DEF Left, Stage, Off, Waiting, Looping, Gone, Lost, InLoop, Running
    <3>2. PICK e \in Message : /\ IsExit(e) /\ e.worker = w /\ e.node = job[w]
                               /\ events' = Append(events, e)
      BY <2>3 DEF Left
    <3>3. /\ ExitsIn(events', w) = {Len(events) + 1}
          /\ events'[Len(events) + 1] = e
      <4>1. ExitsIn(events, w) = {}
        BY <3>1 DEF Looping
      <4> QED
        BY <1>4, <3>2, <4>1, ExitsAppended
    <3>4. /\ pc'[w] = "returning" /\ cmd'[w] = <<>> /\ job[w] = active[w]
      BY <2>3, <3>1 DEF Left, Looping
    <3>5. Gone(w)'
      BY <1>1, <3>2, <3>3, <3>4 DEF Gone
    <3> QED
      BY <1>1, <3>1, <3>5 DEF Stage
  <2>4. CASE Returned(w) \/ Panicked(w)
    <3>1. events' = events /\ cmd'[w] = cmd[w]
      BY <2>4 DEF Returned, Panicked
    <3>2. CASE active[w] = None
      BY <1>1, <2>0, <2>4, <3>1, <3>2 DEF Stage, Off, Returned, Panicked, Running
    <3>3. CASE active[w] # None /\ Gone(w)
      BY <1>1, <2>4, <3>1, <3>3 DEF Stage, Gone, Returned, Panicked
    <3>4. CASE active[w] # None /\ Waiting(w)
      BY <1>1, <2>4, <3>1, <3>4 DEF Stage, Waiting, Lost, Returned, Panicked
    <3>5. CASE active[w] # None /\ Looping(w)
      <4>1. Panicked(w)
        BY <2>4, <3>5 DEF Looping, InLoop, Returned
      <4>2. Lost(w)'
        BY <3>1, <3>5, <4>1 DEF Looping, Lost, Panicked
      <4> QED
        BY <1>1, <3>5, <4>2 DEF Stage
    <3>6. ~Lost(w)
      BY <2>4 DEF Lost, Returned, Panicked, Running
    <3> QED
      BY <2>0, <3>2, <3>3, <3>4, <3>5, <3>6 DEF Stage
  <2> QED
    BY <1>3, <2>1, <2>2, <2>3, <2>4
<1> QED
  BY <1>2, <1>5, <1>6 DEF RosterInv

\* Reading an event only moves the others up in the channel.
LEMMA StageShifted ==
    ASSUME TypeOK, RosterInv, events # <<>>, events' = Tail(events),
           NEW v \in Worker, active'[v] = active[v], spc' = spc,
           pc' = pc, job' = job, cmd' = cmd, 1 \notin ExitsIn(events, v)
    PROVE  Stage(v)'
<1>1. Stage(v) /\ events \in Seq(Message)
  BY DEF RosterInv, TypeOK
<1>2. /\ \A i : i \in ExitsIn(events', v) <=> i \in Nat \ {0} /\ i + 1 \in ExitsIn(events, v)
      /\ \A i \in ExitsIn(events', v) : events'[i] = events[i + 1]
  <2>1. /\ \A i : i \in ExitsIn(Tail(events), v) <=>
                  i \in Nat \ {0} /\ i + 1 \in ExitsIn(events, v)
        /\ \A i \in ExitsIn(Tail(events), v) : Tail(events)[i] = events[i + 1]
    BY <1>1, ExitsTailed
  <2> QED
    BY <2>1
<1>3. ExitsIn(events, v) = {} => ExitsIn(events', v) = {}
  BY <1>2
<1>4. CASE active[v] # None /\ Gone(v)
  <2>1. PICK i \in ExitsIn(events, v) :
            ExitsIn(events, v) = {i} /\ events[i].node = active[v]
    BY <1>4 DEF Gone
  <2>2. i \in Nat \ {0, 1}
    <3>1. Len(events) \in Nat
      BY <1>1
    <3>2. i \in 1..Len(events) /\ i # 1
      BY <2>1 DEF ExitsIn
    <3> QED
      BY <3>1, <3>2
  <2>3. i - 1 \in Nat \ {0} /\ (i - 1) + 1 = i
    BY <2>2
  <2>4. i - 1 \in ExitsIn(events', v)
    BY <1>2, <2>1, <2>3
  <2>5. \A j \in ExitsIn(events', v) : j = i - 1
    BY <1>2, <2>1, <2>2
  <2>6. events'[i - 1].node = active[v]
    BY <1>2, <2>1, <2>3, <2>4
  <2>7. Gone(v)'
    <3>1. ExitsIn(events', v) = {i - 1}
      BY <2>4, <2>5
    <3>2. \E j \in ExitsIn(events', v) :
             ExitsIn(events', v) = {j} /\ events'[j].node = active'[v]
      BY <2>4, <2>6, <3>1
    <3> QED
      BY <1>4, <3>2 DEF Gone
  <2> QED
    BY <1>4, <2>7 DEF Stage
<1>5. CASE active[v] # None /\ (Waiting(v) \/ Lost(v))
  BY <1>3, <1>5 DEF Stage, Waiting, Lost
<1>6. CASE active[v] # None /\ Looping(v)
  BY <1>3, <1>6 DEF Stage, Looping
<1>7. CASE active[v] = None
  BY <1>1, <1>3, <1>7 DEF Stage, Off
<1> QED
  BY <1>1, <1>4, <1>5, <1>6, <1>7 DEF Stage

LEMMA RosterDrain ==
    ASSUME TypeOK, RosterInv, DrainEvent
    PROVE  RosterInv'
<1> PICK e \in {Head(events)} : TRUE
  OBVIOUS
<1> PICK w \in {e.worker} : TRUE
  OBVIOUS
<1>1. /\ spc = "drain" /\ spc' = spc /\ events # <<>> /\ events' = Tail(events)
      /\ pc' = pc /\ job' = job /\ cmd' = cmd /\ spawned' = spawned
      /\ OnStarted(e) \/ OnParked(e) \/ OnMerged(e) \/ OnFailed(e)
  BY DEF DrainEvent, SupervisorFrame, config
<1>2. events \in Seq(Message) /\ e \in Message /\ w \in Worker
  <2>1. events \in Seq(Message) /\ e \in Message
    BY <1>1, HeadTailProperties DEF TypeOK
  <2> QED
    BY <2>1 DEF Message
<1>3. \A v \in Worker : 1 \in ExitsIn(events, v) <=> w = v /\ IsExit(e)
  BY <1>1, <1>2, ExitsTailed
<1>4. CASE OnStarted(e) \/ OnMerged(e)
  <2>1. active' = active /\ parked' = parked /\ ~IsExit(e)
    BY <1>4 DEF OnStarted, OnMerged, IsExit
  <2>2. \A v \in Worker : Stage(v)'
    BY <1>1, <1>3, <2>1, StageShifted
  <2> QED
    BY <1>1, <2>1, <2>2 DEF RosterInv, Busy
<1>5. CASE OnParked(e) \/ OnFailed(e)
  <2>1. Unassign(w) /\ IsExit(e)
    BY <1>5 DEF OnParked, OnFailed, IsExit
  <2>2. active' = [active EXCEPT ![w] = None] /\ parked' = parked \cup {w}
    BY <2>1 DEF Unassign
  <2>3. active'[w] = None /\ \A v \in Worker \ {w} : active'[v] = active[v]
    BY <1>2, <2>2 DEF TypeOK
  <2>4. 1 \in ExitsIn(events, w)
    BY <1>2, <1>3, <2>1
  <2>5. active[w] # None /\ Gone(w)
    <3>1. Stage(w)
      BY <1>2 DEF RosterInv
    <3> QED
      BY <2>4, <3>1 DEF Stage, Waiting, Looping, Lost, Off
  <2>6. ExitsIn(events, w) = {1}
    BY <2>4, <2>5 DEF Gone
  <2>7. ExitsIn(events', w) = {}
    <3>1. \A i : i \in ExitsIn(events', w) => i \in Nat \ {0} /\ i + 1 = 1
      BY <1>1, <1>2, <2>6, ExitsTailed
    <3>2. \A i : i \notin ExitsIn(events', w)
      BY <3>1
    <3> QED
      BY <3>2
  <2>8. Stage(w)'
    <3>1. cmd'[w] = <<>> /\ pc'[w] \in {"idle", "returning", "panicked"}
      BY <1>1, <2>5 DEF Gone
    <3>2. Off(w)'
      BY <2>7, <3>1 DEF Off
    <3> QED
      BY <2>3, <3>2 DEF Stage
  <2>9. \A v \in Worker \ {w} : Stage(v)'
    <3> SUFFICES ASSUME NEW v \in Worker \ {w} PROVE Stage(v)'
      OBVIOUS
    <3>1. 1 \notin ExitsIn(events, v)
      BY <1>3
    <3> QED
      BY <1>1, <2>3, <3>1, StageShifted
  <2>10. Busy' = Busy \ {w} /\ w \in Busy
    <3>1. \A v : v \in Busy' <=> v \in Busy \ {w}
      BY <2>3 DEF Busy
    <3> QED
      BY <1>2, <2>5, <3>1 DEF Busy
  <2>11. /\ parked' \cap Busy' = {}
         /\ spawned' = parked' \cup Busy'
    BY <1>1, <2>2, <2>10 DEF RosterInv
  <2> QED
    BY <1>1, <2>8, <2>9, <2>11 DEF RosterInv
<1> QED
  BY <1>1, <1>4, <1>5

LEMMA RosterScaleUp ==
    ASSUME TypeOK, RosterInv, ScaleUp
    PROVE  RosterInv'
<1>1. PICK n \in Node, w \in Worker, fresh \in SUBSET (Worker \ spawned) :
         /\ IF parked # {} THEN w \in parked ELSE w \in fresh
         /\ parked' = (parked \cup fresh) \ {w}
         /\ spawned' = spawned \cup fresh
         /\ Assign(w, n)
  BY DEF ScaleUp
<1>2. /\ spc = "scale" /\ spc' = "exit" /\ events' = events
      /\ pc' = pc /\ job' = job
  BY DEF ScaleUp, SupervisorFrame
<1>3. spawned = parked \cup Busy /\ parked \cap Busy = {}
  BY <1>2 DEF RosterInv
<1>4. w \notin Busy /\ active[w] = None
  BY <1>1, <1>3 DEF Busy
<1>5. /\ active'[w] = n /\ cmd'[w] = Append(cmd[w], n)
      /\ \A v \in Worker \ {w} : active'[v] = active[v] /\ cmd'[v] = cmd[v]
  BY <1>1 DEF Assign, TypeOK
<1>6. n # None
  BY NodesAssumption
<1>7. Busy' = Busy \cup {w}
  <2>1. \A v : v \in Busy' <=> v \in Busy \cup {w}
    BY <1>5, <1>6 DEF Busy
  <2> QED
    BY <2>1
<1>8. parked' \cap Busy' = {} /\ spawned' = parked' \cup Busy'
  <2>1. fresh \cap Busy = {} /\ w \in parked \cup fresh
    BY <1>1, <1>3
  <2> QED
    BY <1>1, <1>3, <1>7, <2>1
<1>9. Stage(w)'
  <2>1. Off(w)
    BY <1>4 DEF RosterInv, Stage
  <2>2. /\ cmd[w] = <<>> /\ ExitsIn(events', w) = {}
        /\ pc'[w] \in {"idle", "returning", "panicked"}
    BY <1>2, <2>1 DEF Off
  <2>3. cmd'[w] = <<active'[w]>>
    BY <1>5, <2>2
  <2> QED
    BY <1>5, <1>6, <2>2, <2>3 DEF Stage, Waiting, Lost
<1>10. \A v \in Worker \ {w} : Stage(v)'
  <2> SUFFICES ASSUME NEW v \in Worker \ {w} PROVE Stage(v)'
    OBVIOUS
  <2>1. Stage(v)
    BY DEF RosterInv
  <2>2. CASE active[v] = None
    BY <1>2, <1>5, <2>1, <2>2 DEF Stage, Off
  <2>3. CASE active[v] # None /\ Gone(v)
    BY <1>2, <1>5, <2>3 DEF Stage, Gone
  <2>4. CASE active[v] # None /\ ~Gone(v)
    BY <1>2, <1>5, <2>1, <2>4 DEF Stage, Waiting, Looping, Lost
  <2> QED
    BY <2>2, <2>3, <2>4
<1> QED
  BY <1>2, <1>8, <1>9, <1>10 DEF RosterInv

\* A step that neither assigns nor unassigns, and sends no command.
LEMMA RosterQuiet ==
    ASSUME RosterInv, UNCHANGED <<active, parked, spawned, pc, job, cmd, events>>,
           spc \in {"join", "done"} => spc' \in {"join", "done"},
           spc' \in {"join", "done"} => spc \in {"join", "done"},
           spc' = "final" \/ spc' = "stop" => Busy = {}
    PROVE  RosterInv'
<1>1. /\ active' = active /\ parked' = parked /\ spawned' = spawned
      /\ pc' = pc /\ job' = job /\ cmd' = cmd /\ events' = events
  OBVIOUS
<1>2. \A v \in Worker : Stage(v)'
  <2> SUFFICES ASSUME NEW v \in Worker PROVE Stage(v)'
    OBVIOUS
  <2>1. Stage(v)
    BY DEF RosterInv
  <2>2. CASE active[v] = None
    <3>1. Off(v)
      BY <2>1, <2>2 DEF Stage
    <3>2. Off(v)'
      BY <1>1, <3>1 DEF Off
    <3> QED
      BY <1>1, <2>2, <3>2 DEF Stage
  <2>3. CASE active[v] # None /\ Gone(v)
    BY <1>1, <2>3 DEF Stage, Gone
  <2>4. CASE active[v] # None /\ ~Gone(v)
    BY <1>1, <2>1, <2>4 DEF Stage, Waiting, Looping, Lost
  <2> QED
    BY <2>2, <2>3, <2>4
<1>3. Busy' = Busy
  BY <1>1 DEF Busy
<1> QED
  BY <1>1, <1>2, <1>3 DEF RosterInv

LEMMA RosterStop ==
    ASSUME TypeOK, RosterInv, StopParked
    PROVE  RosterInv'
<1>1. /\ spc = "stop" /\ spc' = "join" /\ parked' = {}
      /\ active' = active /\ pc' = pc /\ job' = job /\ events' = events
      /\ \A v \in Worker : cmd'[v] = IF v \in parked THEN Append(cmd[v], Stop) ELSE cmd[v]
  BY DEF StopParked, SupervisorFrame
<1>2. Busy = {} /\ Busy' = {}
  BY <1>1 DEF RosterInv, Busy
<1>3. ASSUME NEW v \in Worker PROVE Stage(v)'
  <2>1. active[v] = None
    BY <1>2 DEF Busy
  <2>2. Off(v)
    BY <2>1 DEF RosterInv, Stage
  <2>3. cmd'[v] = <<>> \/ cmd'[v] = <<Stop>>
    <3>1. cmd[v] = <<>>
      BY <1>1, <2>2 DEF Off
    <3>2. Append(<<>>, Stop) = <<Stop>>
      OBVIOUS
    <3> QED
      BY <1>1, <3>1, <3>2
  <2>4. Off(v)'
    BY <1>1, <2>2, <2>3 DEF Off
  <2> QED
    BY <1>1, <2>1, <2>4 DEF Stage
<1> QED
  BY <1>1, <1>2, <1>3 DEF RosterInv

LEMMA RosterSupervisor ==
    ASSUME TypeOK, RosterInv, Supervisor
    PROVE  RosterInv'
<1> USE DEF SupervisorFrame, mail, roster, config
<1>1. CASE EventsDrained
  BY <1>1, RosterQuiet DEF EventsDrained
<1>2. CASE DrainFailure
  <2>1. UNCHANGED <<active, parked, spawned, pc, job, cmd, events>>
    BY <1>2 DEF DrainFailure
  <2>2. \/ spc = "failures" /\ spc' \in {"failures", "links"}
        \/ spc = "final" /\ spc' \in {"final", "stop"}
    BY <1>2 DEF DrainFailure
  <2>3. spc' \in {"final", "stop"} => Busy = {}
    BY <2>2 DEF RosterInv
  <2> QED
    BY <2>1, <2>2, <2>3, RosterQuiet
<1>3. CASE CloseLinks \/ NoScale
  BY <1>3, RosterQuiet DEF CloseLinks, NoScale
<1>4. CASE ScaleDown
  BY <1>4, RosterQuiet DEF ScaleDown
<1>5. CASE CheckExit
  BY <1>5, RosterQuiet DEF CheckExit, NobodyActive
<1>6. CASE JoinWorkers
  BY <1>6, RosterQuiet DEF JoinWorkers
<1> QED
  BY <1>1, <1>2, <1>3, <1>4, <1>5, <1>6, RosterDrain, RosterScaleUp, RosterStop
  DEF Supervisor

LEMMA RosterStep ==
    ASSUME TypeOK, RosterInv, [Next]_vars
    PROVE  RosterInv'
<1>1. CASE Environment
  <2>1. UNCHANGED <<supVars, workVars, events>>
    BY <1>1 DEF Environment, Shutdown, Abort, DropHandle, Reports, StoreAbort,
       SendReport, OutsideFrame
  <2>2. spc' = spc /\ UNCHANGED <<active, parked, spawned, pc, job, cmd, events>>
    BY <2>1 DEF supVars, workVars
  <2> QED
    BY <2>2, RosterQuiet DEF RosterInv
<1>2. CASE UNCHANGED vars
  <2>1. spc' = spc /\ UNCHANGED <<active, parked, spawned, pc, job, cmd, events>>
    BY <1>2 DEF vars, supVars, workVars
  <2> QED
    BY <2>1, RosterQuiet DEF RosterInv
<1> QED
  BY <1>1, <1>2, RosterSupervisor, RosterWorker DEF Next, Finished

-----------------------------------------------------------------------------
(* The theorems.                                                           *)

LEMMA RosterInvExact ==
    ASSUME TypeOK, RosterInv
    PROVE  RosterExact
<1>1. ASSUME NEW w \in Worker, w \in Busy, pc[w] # "panicked"
      PROVE  IF Working(w) THEN ExitEvents(w) = {}
             ELSE \E i \in 1..Len(events) :
                     ExitEvents(w) = {i} /\ events[i].node = active[w]
  <2>1. Stage(w) /\ active[w] # None
    BY <1>1 DEF RosterInv, Busy
  <2>2. active[w] # Stop
    BY NodesAssumption DEF TypeOK, None, Stop
  <2>3. CASE Waiting(w)
    <3>1. cmd[w] # <<>> /\ Head(cmd[w]) # Stop
      BY <2>2, <2>3 DEF Waiting
    <3> QED
      BY <2>3, <3>1, ExitEventsIn DEF Waiting, Working
  <2>4. CASE Looping(w)
    BY <2>4, ExitEventsIn DEF Looping, Working, InLoop
  <2>5. CASE Gone(w)
    <3>1. ~Working(w)
      BY <2>5 DEF Gone, Working, Running
    <3>2. PICK i \in ExitsIn(events, w) :
              ExitsIn(events, w) = {i} /\ events[i].node = active[w]
      BY <2>5 DEF Gone
    <3>3. i \in 1..Len(events)
      BY DEF ExitsIn
    <3> QED
      BY <3>1, <3>2, <3>3, ExitEventsIn
  <2> QED
    BY <1>1, <2>1, <2>3, <2>4, <2>5 DEF Stage, Lost
<1>2. ASSUME NEW w \in Worker, w \notin Busy
      PROVE  ExitEvents(w) = {} /\ ~Working(w)
  <2>1. Off(w)
    BY <1>2 DEF RosterInv, Stage, Busy
  <2>2. cmd[w] = <<>> \/ Head(cmd[w]) = Stop
    BY <2>1 DEF Off
  <2> QED
    BY <2>1, <2>2, ExitEventsIn DEF Off, Working, Running
<1> QED
  BY <1>1, <1>2 DEF RosterExact, RosterInv

\* A thread is parked or serves one node, never both nor neither, and a worker
\* that serves a node owes exactly one parked or failed event.
THEOREM RosterIsExact == Spec => []RosterExact
<1>1. TypeOK /\ RosterInv /\ [Next]_vars => TypeOK' /\ RosterInv'
  BY TypeStep, RosterStep
<1>2. TypeOK /\ RosterInv => RosterExact
  BY RosterInvExact
<1> QED
  BY TypeInit, RosterInit, <1>1, <1>2, PTL DEF Spec

\* When the supervisor's loop has ended every worker's last event has been
\* read: no failure reported through the event channel comes too late.
THEOREM NoVerdictTooLate == Spec => []NoLateVerdict
<1>1. TypeOK /\ RosterInv /\ [Next]_vars => TypeOK' /\ RosterInv'
  BY TypeStep, RosterStep
<1>2. RosterInv => NoLateVerdict
  <2> SUFFICES ASSUME RosterInv, spc \in {"final", "stop", "join", "done"},
                      NEW w \in Worker
               PROVE  ExitEvents(w) = {}
    BY DEF NoLateVerdict
  <2>1. active[w] = None
    BY DEF RosterInv, Busy
  <2>2. Off(w)
    BY <2>1 DEF RosterInv, Stage
  <2> QED
    BY <2>2, ExitEventsIn DEF Off
<1> QED
  BY TypeInit, RosterInit, <1>1, <1>2, PTL DEF Spec

=============================================================================
