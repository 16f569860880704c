------------------------- MODULE WorkerStaffProofs -------------------------
(***************************************************************************)
(* What follows from an exact roster, for every graph, policy and bound:   *)
(* a stop has a cause join reports, scaling stays inside its limits,       *)
(* every node stays staffed, a merge never waits on a worker that could    *)
(* wait on it, no user state is lost, and the pool implements Staffing.    *)
(***************************************************************************)
EXTENDS WorkerPoolProofs

LEMMA EnvironmentFrames ==
    ASSUME Environment
    PROVE  UNCHANGED <<supVars, ledger, workVars, events>>
  BY DEF Environment, Shutdown, Abort, DropHandle, Reports, StoreAbort, SendReport,
     OutsideFrame

-----------------------------------------------------------------------------
(* A stop is explained.                                                    *)

Explained == shutdown \/ asked \/ \E r \in Recorder : rpc[r] # "quiet"
Reported == failure # None \/ reports > 0

\* Whoever sets abort has left a trace: the user, a thread that stores abort
\* first, or a failure that is stored or on its way.  The supervisor leaves its
\* loop only when it is told to stop and has read every failure on its way.
ExplainInv ==
    /\ abort => Explained \/ Reported
    /\ \A r \in Reporter \ Recorder : rpc[r] # "quiet" => Reported
    /\ spc = "final" => Explained \/ Reported
    /\ spc \in {"stop", "join", "done"} => Explained \/ failure # None
    /\ result = "ok" => /\ spc = "done" /\ failure = None
                        /\ \A w \in spawned : pc[w] = "stopped"
    /\ \A w \in Worker \ spawned :
          active[w] = None /\ pc[w] = "idle" /\ cmd[w] = <<>>

LEMMA ExplainInit == Init => ExplainInv
<1> SUFFICES ASSUME Init PROVE ExplainInv
  OBVIOUS
<1>1. \A w \in Worker \ spawned :
         active[w] = None /\ pc[w] = "idle" /\ cmd[w] = <<>>
  BY DEF Init
<1>2. \A r \in Reporter \ Recorder : rpc[r] = "quiet"
  BY DEF Init
<1> QED
  BY <1>1, <1>2 DEF Init, ExplainInv, None

LEMMA ExplainWorker ==
    ASSUME TypeOK, ExplainInv, NEW w \in Worker, Steps(w) \/ Exits(w) \/ Panic(w)
    PROVE  ExplainInv'
<1>1. /\ UNCHANGED <<supVars, envVars, reports, abort>>
      /\ Others(w)
      /\ Took(w) \/ Moved(w) \/ Left(w) \/ Returned(w) \/ Panicked(w)
  BY WorkerFrames, WorkerEffect
<1>2. w \in spawned /\ pc[w] # "stopped"
  <2>1. pc[w] \in Running \/ (pc[w] = "idle" /\ cmd[w] # <<>>)
    BY <1>1 DEF Took, Moved, Left, Returned, Panicked, InLoop, Running
  <2> QED
    BY <2>1 DEF ExplainInv, Running
<1>3. result' # "ok"
  BY <1>1, <1>2 DEF supVars, ExplainInv
<1>4. \A v \in Worker \ spawned' :
         active'[v] = None /\ pc'[v] = "idle" /\ cmd'[v] = <<>>
  BY <1>1, <1>2 DEF supVars, ExplainInv, Others
<1>5. Explained' = Explained /\ Reported' = Reported
  BY <1>1 DEF supVars, envVars, Explained, Reported
<1> QED
  BY <1>1, <1>3, <1>4, <1>5 DEF supVars, envVars, ExplainInv

LEMMA ExplainEnvironment ==
    ASSUME TypeOK, ExplainInv, Environment
    PROVE  ExplainInv'
<1>1. UNCHANGED <<supVars, workVars, events>>
  BY EnvironmentFrames
<1>2. ASSUME NEW r \in Recorder \cup Reporter, Reports(r)
      PROVE  /\ Explained' \/ Reported'
             /\ Explained => Explained'
             /\ Reported => Reported'
             /\ \A s \in Reporter \ Recorder : rpc'[s] # "quiet" => Reported'
  <2>0. /\ rpc \in [Recorder \cup Reporter -> {"quiet", "between", "over"}]
        /\ reports \in Nat
    BY DEF TypeOK
  <2>1. /\ shutdown' = shutdown /\ asked' = asked /\ failure' = failure
        /\ \A s \in (Recorder \cup Reporter) \ {r} : rpc'[s] = rpc[s]
        /\ rpc'[r] # "quiet"
    BY <1>1, <1>2, <2>0 DEF Reports, StoreAbort, SendReport, supVars
  <2>2. reports' = reports \/ reports' = reports + 1
    BY <1>2 DEF Reports, StoreAbort, SendReport
  <2>3. Explained => Explained'
    BY <2>1 DEF Explained
  <2>4. Reported => Reported'
    BY <2>0, <2>1, <2>2 DEF Reported
  <2>5. r \in Recorder => Explained'
    BY <2>1 DEF Explained
  <2>6. r \notin Recorder => Reported'
    <3>1. CASE SendReport(r)
      BY <2>0, <3>1 DEF SendReport, Reported
    <3>2. CASE StoreAbort(r)
      BY <2>4, <3>2 DEF StoreAbort, AbortFirst, ExplainInv
    <3> QED
      BY <1>2, <3>1, <3>2 DEF Reports
  <2>7. ASSUME NEW s \in Reporter \ Recorder, rpc'[s] # "quiet" PROVE Reported'
    BY <2>1, <2>4, <2>6, <2>7 DEF ExplainInv
  <2> QED
    BY <2>3, <2>4, <2>5, <2>6, <2>7
<1>3. CASE \E r \in Recorder \cup Reporter : Reports(r)
  <2>1. UNCHANGED supVars /\ pc' = pc /\ cmd' = cmd /\ active' = active
    BY <1>1 DEF supVars, workVars
  <2>2. spc \in {"stop", "join", "done"} => Explained' \/ failure' # None
    BY <1>2, <1>3, <2>1 DEF supVars, ExplainInv
  <2> QED
    BY <1>2, <1>3, <2>1, <2>2 DEF supVars, ExplainInv
<1>4. CASE Shutdown \/ Abort
  <2>1. /\ Explained' /\ rpc' = rpc /\ reports' = reports
        /\ UNCHANGED supVars /\ pc' = pc /\ cmd' = cmd
    BY <1>1, <1>4 DEF Shutdown, Abort, Explained, workVars
  <2>2. Reported' = Reported
    BY <2>1 DEF Reported, supVars
  <2> QED
    BY <2>1, <2>2 DEF ExplainInv, supVars
<1>5. CASE \E x \in External : DropHandle(x)
  <2>1. /\ UNCHANGED <<shutdown, asked, rpc, reports, abort, supVars>>
        /\ pc' = pc /\ cmd' = cmd
    BY <1>1, <1>5 DEF DropHandle, workVars
  <2>2. Explained' = Explained /\ Reported' = Reported
    BY <2>1 DEF Explained, Reported, supVars
  <2> QED
    BY <2>1, <2>2 DEF ExplainInv, supVars
<1> QED
  BY <1>3, <1>4, <1>5 DEF Environment

LEMMA ExplainSupervisor ==
    ASSUME TypeOK, RosterInv, ExplainInv, Supervisor
    PROVE  ExplainInv'
<1> USE DEF SupervisorFrame, envVars, mail, roster, config
<1>0. /\ UNCHANGED <<shutdown, asked, rpc, pc>>
      /\ spc # "done" /\ result # "ok"
  <2>1. UNCHANGED <<shutdown, asked, rpc, pc>> /\ spc # "done"
    BY DEF Supervisor, DrainEvent, EventsDrained, DrainFailure, CloseLinks, ScaleUp,
       ScaleDown, NoScale, CheckExit, StopParked, JoinWorkers
  <2> QED
    BY <2>1 DEF ExplainInv
<1>1. Explained' = Explained
  BY <1>0 DEF Explained
<1>2. reports \in Nat
  BY DEF TypeOK
\* What is left to show when the step changes no worker's slot or command.
<1>3. ASSUME UNCHANGED <<active, spawned, cmd>>
      PROVE  \A w \in Worker \ spawned' :
                active'[w] = None /\ pc'[w] = "idle" /\ cmd'[w] = <<>>
  BY <1>0, <1>3 DEF ExplainInv
<1>4. CASE DrainEvent
  <2>1. /\ reports' = reports /\ spc' = spc /\ spc = "drain" /\ result' = result
        /\ spawned' = spawned /\ cmd' = cmd
    BY <1>4 DEF DrainEvent
  <2>2. /\ failure' = failure \/ failure' # None
        /\ abort' = abort \/ failure' # None
        /\ active' = active \/ active' = [active EXCEPT ![Head(events).worker] = None]
    BY <1>4 DEF DrainEvent, OnStarted, OnParked, OnMerged, OnFailed, HandOver, Raise,
       Unassign, None
  <2>3. Reported => Reported'
    BY <2>1, <2>2 DEF Reported
  <2>4. abort' => Explained \/ Reported'
    BY <2>2, <2>3 DEF ExplainInv, Reported
  <2>5. \A w \in Worker \ spawned' :
           active'[w] = None /\ pc'[w] = "idle" /\ cmd'[w] = <<>>
    BY <1>0, <2>1, <2>2 DEF ExplainInv, TypeOK
  <2> QED
    BY <1>0, <1>1, <2>1, <2>3, <2>4, <2>5 DEF ExplainInv
<1>5. CASE EventsDrained \/ CloseLinks \/ NoScale \/ ScaleDown
  <2>1. /\ UNCHANGED <<active, spawned, cmd, failure, reports, abort, result>>
        /\ spc' \in {"failures", "scale", "exit"}
    BY <1>5 DEF EventsDrained, CloseLinks, NoScale, ScaleDown
  <2>2. Reported' = Reported
    BY <2>1 DEF Reported
  <2> QED
    BY <1>0, <1>1, <1>3, <2>1, <2>2 DEF ExplainInv
<1>6. CASE DrainFailure
  <2>1. /\ UNCHANGED <<active, spawned, cmd, result>> /\ spc \in {"failures", "final"}
        /\ \/ failure' = "reported" /\ spc' = spc
           \/ /\ reports = 0 /\ UNCHANGED <<failure, reports, abort>>
              /\ spc' = IF spc = "failures" THEN "links" ELSE "stop"
    BY <1>2, <1>6 DEF DrainFailure, Raise
  <2>2. CASE failure' = "reported" /\ spc' = spc
    <3>1. Reported'
      BY <2>2 DEF Reported, None
    <3> QED
      BY <1>0, <1>1, <1>3, <2>1, <2>2, <3>1 DEF ExplainInv
  <2>3. CASE /\ reports = 0 /\ UNCHANGED <<failure, reports, abort>>
             /\ spc' = IF spc = "failures" THEN "links" ELSE "stop"
    <3>1. Reported' = Reported /\ (Reported => failure # None)
      BY <2>3 DEF Reported
    <3> QED
      BY <1>0, <1>1, <1>3, <2>1, <2>3, <3>1 DEF ExplainInv
  <2> QED
    BY <2>1, <2>2, <2>3
<1>7. CASE ScaleUp
  <2>1. PICK n \in Node, w \in Worker, fresh \in SUBSET (Worker \ spawned) :
           /\ IF parked # {} THEN w \in parked ELSE w \in fresh
           /\ spawned' = spawned \cup fresh
           /\ Assign(w, n)
    BY <1>7 DEF ScaleUp
  <2>2. /\ spc = "scale" /\ spc' = "exit"
        /\ UNCHANGED <<failure, reports, abort, result>>
    BY <1>7 DEF ScaleUp
  <2>3. w \in spawned'
    <3>1. parked \subseteq spawned
      BY <2>2 DEF RosterInv
    <3> QED
      BY <2>1, <3>1
  <2>4. \A v \in Worker \ spawned' :
           active'[v] = None /\ pc'[v] = "idle" /\ cmd'[v] = <<>>
    BY <1>0, <2>1, <2>3 DEF ExplainInv, Assign, TypeOK
  <2>5. Reported' = Reported
    BY <2>2 DEF Reported
  <2> QED
    BY <1>0, <1>1, <2>2, <2>4, <2>5 DEF ExplainInv
<1>8. CASE CheckExit
  <2>1. /\ UNCHANGED <<active, spawned, cmd, failure, reports, abort, result>>
        /\ spc' = (IF Stopping /\ NobodyActive THEN "final" ELSE "drain")
    BY <1>8 DEF CheckExit
  <2>2. Reported' = Reported
    BY <2>1 DEF Reported
  <2>3. Stopping => Explained \/ Reported
    BY DEF Stopping, Explained, Reported, ExplainInv
  <2> QED
    BY <1>0, <1>1, <1>3, <2>1, <2>2, <2>3 DEF ExplainInv
<1>9. CASE StopParked
  <2>1. /\ UNCHANGED <<active, spawned, failure, reports, abort, result>>
        /\ spc = "stop" /\ spc' = "join"
        /\ cmd' = [w \in Worker |->
                      IF w \in parked THEN Append(cmd[w], Stop) ELSE cmd[w]]
    BY <1>9 DEF StopParked
  <2>2. Reported' = Reported
    BY <2>1 DEF Reported
  <2>3. parked \subseteq spawned
    BY <2>1 DEF RosterInv
  <2>4. \A v \in Worker \ spawned' :
           active'[v] = None /\ pc'[v] = "idle" /\ cmd'[v] = <<>>
    BY <1>0, <2>1, <2>3 DEF ExplainInv
  <2> QED
    BY <1>0, <1>1, <2>1, <2>2, <2>4 DEF ExplainInv
<1>10. CASE JoinWorkers
  <2>1. /\ UNCHANGED <<active, spawned, cmd, failure, reports, abort>>
        /\ spc = "join" /\ spc' = "done"
        /\ result' = "ok" => failure = None /\ \A w \in spawned : pc[w] = "stopped"
    BY <1>10 DEF JoinWorkers
  <2>2. Reported' = Reported
    BY <2>1 DEF Reported
  <2> QED
    BY <1>0, <1>1, <1>3, <2>1, <2>2 DEF ExplainInv
<1> QED
  BY <1>4, <1>5, <1>6, <1>7, <1>8, <1>9, <1>10 DEF Supervisor

LEMMA ExplainStep ==
    ASSUME TypeOK, RosterInv, ExplainInv, [Next]_vars
    PROVE  ExplainInv'
<1>1. CASE UNCHANGED vars
  <2>1. /\ UNCHANGED <<shutdown, asked, rpc, failure, reports, abort, spc, result,
                       spawned, active, pc, cmd>>
    BY <1>1 DEF vars, supVars, envVars, workVars
  <2>2. Explained' = Explained /\ Reported' = Reported
    BY <2>1 DEF Explained, Reported
  <2> QED
    BY <2>1, <2>2 DEF ExplainInv
<1> QED
  BY <1>1, ExplainWorker, ExplainSupervisor, ExplainEnvironment DEF Next, Finished

\* A run that nobody shut down or aborted does not end in success, but for a
\* report that came after the last look; and a success hides no panic.
THEOREM StopsAreExplained == Spec => []StopIsExplained
<1>1. TypeOK /\ RosterInv /\ ExplainInv /\ [Next]_vars
         => TypeOK' /\ RosterInv' /\ ExplainInv'
  BY TypeStep, RosterStep, ExplainStep
<1>2. ExplainInv => StopIsExplained
  <2> SUFFICES ASSUME ExplainInv, result = "ok" PROVE StopIsExplained
    BY DEF StopIsExplained
  <2>1. Explained /\ \A w \in spawned : pc[w] = "stopped"
    BY DEF ExplainInv
  <2>2. \A w \in Worker \ spawned : pc[w] = "idle"
    BY DEF ExplainInv
  <2> QED
    BY <2>1, <2>2 DEF StopIsExplained, Explained
<1> QED
  BY TypeInit, RosterInit, ExplainInit, <1>1, <1>2, PTL DEF Spec

-----------------------------------------------------------------------------
(* Scaling stays inside its limits.                                        *)

LEMMA LimitsAreNumbers ==
    /\ ParkedTarget \in Nat /\ RequiredBase \in Nat /\ ConfiguredCap \in Nat
    /\ GlobalCap \in Nat /\ RequiredBase <= GlobalCap
    /\ \A n \in Node : MaxThreads[n] \in Nat /\ Initially(n) \in Nat
    /\ \A S \in SUBSET Worker : IsFiniteSet(S) /\ Cardinality(S) \in Nat
<1>1. \A S \in SUBSET Worker : IsFiniteSet(S) /\ Cardinality(S) \in Nat
  BY NodesAssumption, FS_Subset, FS_CardinalityType
<1>2. RequiredBase \in Nat
  BY <1>1, StartupAssumption DEF RequiredBase
<1>3. ParkedTarget \in Nat
  BY <1>1, StartupAssumption
<1>4. ConfiguredCap \in Nat /\ \A n \in Node : MaxThreads[n] \in Nat
  BY BoundsAssumption
<1>5. Cardinality(Node) \in Nat
  BY NodesAssumption, FS_CardinalityType
<1>6. GlobalCap \in Nat /\ RequiredBase <= GlobalCap
  BY <1>2, <1>4, <1>5 DEF GlobalCap, Largest
<1>7. \A n \in Node : Initially(n) \in Nat
  <2> SUFFICES ASSUME NEW n \in Node PROVE Initially(n) \in Nat
    OBVIOUS
  <2>1. {w \in DOMAIN Startup : Startup[w] = n} \in SUBSET Worker
    BY StartupAssumption
  <2> QED
    BY <1>1, <2>1 DEF Initially
<1> QED
  BY <1>1, <1>2, <1>3, <1>4, <1>6, <1>7

MaxStaff(n) == IF n \in Elastic THEN Largest(MaxThreads[n], Initially(n))
                                ELSE Initially(n)

LEMMA LimitsInit == Init => WithinLimits
<1> SUFFICES ASSUME Init PROVE WithinLimits
  OBVIOUS
<1>1. Busy = DOMAIN Startup
  <2>1. \A w \in DOMAIN Startup : w \in Worker /\ Startup[w] # None
    BY StartupAssumption, NodesAssumption
  <2>2. \A w \in Worker : active[w] = IF w \in DOMAIN Startup THEN Startup[w] ELSE None
    BY DEF Init
  <2>3. \A w : w \in Busy <=> w \in DOMAIN Startup
    BY <2>1, <2>2 DEF Busy
  <2> QED
    BY <2>3
<1>2. Cardinality(Busy) <= GlobalCap
  BY <1>1, LimitsAreNumbers DEF RequiredBase
<1>3. Cardinality(spawned) <= GlobalCap + ParkedTarget
  <2>1. /\ spawned = Busy \cup Reserve /\ Busy \cap Reserve = {}
        /\ Busy \in SUBSET Worker /\ Reserve \in SUBSET Worker
        /\ Cardinality(Reserve) = ParkedTarget
    BY <1>1, StartupAssumption DEF Init
  <2>2. Cardinality(spawned) = Cardinality(Busy) + Cardinality(Reserve) - 0
    BY <2>1, LimitsAreNumbers, FS_Union, FS_EmptySet
  <2> QED
    BY <1>2, <2>1, <2>2, LimitsAreNumbers
<1>4. ASSUME NEW n \in Node PROVE Cardinality(Staff(n)) <= MaxStaff(n)
  <2>1. \A w : w \in Staff(n) <=> w \in {v \in DOMAIN Startup : Startup[v] = n}
    BY StartupAssumption, NodesAssumption DEF Init, Staff
  <2>2. Staff(n) = {w \in DOMAIN Startup : Startup[w] = n}
    BY <2>1
  <2>3. Cardinality(Staff(n)) = Initially(n)
    BY <2>2 DEF Initially
  <2> QED
    BY <2>3, LimitsAreNumbers DEF MaxStaff, Largest
<1> QED
  BY <1>2, <1>3, <1>4 DEF WithinLimits, MaxStaff

\* A step that assigns nobody and spawns nobody.
LEMMA LimitsKept ==
    ASSUME TypeOK, WithinLimits, spawned' = spawned,
           \A w \in Worker : active'[w] = active[w] \/ active'[w] = None
    PROVE  WithinLimits'
<1>1. Busy' \in SUBSET Busy /\ Busy \in SUBSET Worker
  BY DEF Busy
<1>2. Cardinality(Busy') <= Cardinality(Busy)
  BY <1>1, LimitsAreNumbers, FS_Subset
<1>3. Cardinality(Busy') <= GlobalCap
  <2>1. Busy' \in SUBSET Worker
    BY <1>1
  <2>2. Cardinality(Busy') \in Nat /\ Cardinality(Busy) \in Nat
    BY <1>1, <2>1, LimitsAreNumbers
  <2> QED
    BY <1>2, <2>2, LimitsAreNumbers DEF WithinLimits
<1>4. ASSUME NEW n \in Node PROVE Cardinality(Staff(n)') <= MaxStaff(n)
  <2>1. Staff(n)' \in SUBSET Staff(n) /\ Staff(n) \in SUBSET Worker
    BY NodesAssumption DEF Staff
  <2>2. Cardinality(Staff(n)') <= Cardinality(Staff(n))
    BY <2>1, LimitsAreNumbers, FS_Subset
  <2>3. Staff(n)' \in SUBSET Worker
    BY <2>1
  <2>4. Cardinality(Staff(n)') \in Nat /\ Cardinality(Staff(n)) \in Nat
    BY <2>1, <2>3, LimitsAreNumbers
  <2>5. Cardinality(Staff(n)) <= MaxStaff(n)
    BY DEF WithinLimits, MaxStaff
  <2>6. MaxStaff(n) \in Nat
    BY LimitsAreNumbers DEF MaxStaff, Largest
  <2> QED
    BY <2>2, <2>4, <2>5, <2>6
<1> QED
  BY <1>3, <1>4 DEF WithinLimits, MaxStaff

\* A scale-up takes one parked worker, or one of the fresh ones, and leaves the
\* reserve at its target; if the reserve is above it, nobody is spawned.
LEMMA LimitsScaleUp ==
    ASSUME TypeOK, RosterInv, WithinLimits, ScaleUp
    PROVE  WithinLimits'
<1>1. PICK n \in Node, w \in Worker, fresh \in SUBSET (Worker \ spawned) :
         /\ n \in Elastic /\ UnderCap /\ RoomAt(n)
         /\ IF parked # {} THEN w \in parked ELSE w \in fresh
         /\ Cardinality((parked \cup fresh) \ {w}) =
               Largest(ParkedTarget, Cardinality(parked \ {w}))
         /\ parked' = (parked \cup fresh) \ {w}
         /\ spawned' = spawned \cup fresh
         /\ Assign(w, n)
  BY DEF ScaleUp, CanScale
<1>2. /\ spawned = parked \cup Busy /\ parked \cap Busy = {}
      /\ parked \in SUBSET Worker /\ Busy \in SUBSET Worker
  BY DEF RosterInv, ScaleUp, TypeOK, Busy
<1>3. w \notin Busy
  BY <1>1, <1>2
<1>4. /\ active'[w] = n /\ n # None
      /\ \A v \in Worker \ {w} : active'[v] = active[v]
  BY <1>1, NodesAssumption DEF Assign, TypeOK
<1>5. Busy' = Busy \cup {w}
  <2>1. \A v : v \in Busy' <=> v \in Busy \cup {w}
    BY <1>4 DEF Busy
  <2> QED
    BY <2>1
<1>6. Cardinality(Busy') <= GlobalCap
  <2>1. Cardinality(Busy') = Cardinality(Busy) + 1
    BY <1>2, <1>3, <1>5, LimitsAreNumbers, FS_AddElement
  <2>2. Cardinality(Busy) < GlobalCap
    BY <1>1 DEF UnderCap
  <2> QED
    BY <1>2, <2>1, <2>2, LimitsAreNumbers
<1>7. Cardinality(spawned') <= GlobalCap + ParkedTarget
  <2> DEFINE kept == parked \ {w}
  <2>1. /\ kept \in SUBSET Worker /\ parked' \in SUBSET Worker
        /\ kept \in SUBSET parked'
    BY <1>1, <1>2
  <2>2. /\ Cardinality(kept) \in Nat /\ Cardinality(parked') \in Nat
        /\ IsFiniteSet(parked')
    BY <2>1, LimitsAreNumbers
  <2>3. CASE Cardinality(parked') <= ParkedTarget
    <3>1. spawned' = parked' \cup Busy' /\ parked' \cap Busy' = {}
      BY <1>1, <1>2, <1>3, <1>5
    <3>2. IsFiniteSet(Busy') /\ Cardinality(Busy') \in Nat
      BY <1>2, <1>5, LimitsAreNumbers
    <3>3. Cardinality(spawned') = Cardinality(parked') + Cardinality(Busy') - 0
      BY <2>2, <3>1, <3>2, FS_Union, FS_EmptySet
    <3> QED
      BY <1>6, <2>2, <2>3, <3>2, <3>3, LimitsAreNumbers
  <2>4. CASE ~(Cardinality(parked') <= ParkedTarget)
    <3>1. Cardinality(parked') = Cardinality(kept) /\ Cardinality(kept) # 0
      BY <1>1, <2>2, <2>4, LimitsAreNumbers DEF Largest
    <3>2. parked' = kept
      BY <2>1, <2>2, <3>1, FS_Subset
    <3>3. parked # {}
      BY <3>1, FS_EmptySet
    <3>4. fresh = {}
      BY <1>1, <1>2, <3>2, <3>3
    <3>5. spawned' = spawned
      BY <1>1, <3>4
    <3> QED
      BY <3>5 DEF WithinLimits
  <2> QED
    BY <2>3, <2>4
<1>8. ASSUME NEW m \in Node PROVE Cardinality(Staff(m)') <= MaxStaff(m)
  <2>1. Staff(m) \in SUBSET Worker /\ Cardinality(Staff(m)) <= MaxStaff(m)
    BY DEF Staff, WithinLimits, MaxStaff
  <2>2. CASE m = n
    <3>1. \A v : v \in Staff(m)' <=> v \in Staff(m) \cup {w}
      BY <1>4, <2>2 DEF Staff
    <3>2. Staff(m)' = Staff(m) \cup {w}
      BY <3>1
    <3>3. Cardinality(Staff(m)') <= Cardinality(Staff(m)) + 1
      BY <2>1, <3>2, LimitsAreNumbers, FS_AddElement
    <3>4. Cardinality(Staff(m)) < MaxThreads[m]
      BY <1>1, <2>2 DEF RoomAt
    <3>5. Cardinality(Staff(m)) \in Nat
      BY <2>1, LimitsAreNumbers
    <3>6. Cardinality(Staff(m)') \in Nat
      <4>1. Staff(m)' \in SUBSET Worker
        BY <2>1, <3>2
      <4> QED
        BY <4>1, LimitsAreNumbers
    <3> QED
      BY <1>1, <2>2, <3>3, <3>4, <3>5, <3>6, LimitsAreNumbers DEF MaxStaff, Largest
  <2>3. CASE m # n
    <3>1. \A v : v \in Staff(m)' <=> v \in Staff(m)
      BY <1>3, <1>4, <2>3, NodesAssumption DEF Staff, Busy
    <3>2. Staff(m)' = Staff(m)
      BY <3>1
    <3> QED
      BY <2>1, <3>2
  <2> QED
    BY <2>2, <2>3
<1> QED
  BY <1>6, <1>7, <1>8 DEF WithinLimits, MaxStaff

LEMMA LimitsStep ==
    ASSUME TypeOK, RosterInv, WithinLimits, [Next]_vars
    PROVE  WithinLimits'
<1>1. CASE ScaleUp
  BY <1>1, LimitsScaleUp
<1>2. CASE DrainEvent
  <2>1. /\ spawned' = spawned
        /\ active' = active \/ active' = [active EXCEPT ![Head(events).worker] = None]
    BY <1>2 DEF DrainEvent, OnStarted, OnParked, OnMerged, OnFailed, Unassign, config
  <2>2. \A w \in Worker : active'[w] = active[w] \/ active'[w] = None
    BY <2>1 DEF TypeOK
  <2> QED
    BY <2>1, <2>2, LimitsKept
<1>3. CASE Supervisor /\ ~DrainEvent /\ ~ScaleUp
  <2>1. spawned' = spawned /\ active' = active
    BY <1>3 DEF Supervisor, EventsDrained, DrainFailure, CloseLinks, ScaleDown,
       NoScale, CheckExit, StopParked, JoinWorkers, roster, config
  <2> QED
    BY <2>1, LimitsKept
<1>4. CASE \E w \in Worker : Steps(w) \/ Exits(w) \/ Panic(w)
  BY <1>4, WorkerFrames, LimitsKept DEF supVars
<1>5. CASE Environment
  BY <1>5, EnvironmentFrames, LimitsKept DEF supVars
<1>6. CASE UNCHANGED vars
  BY <1>6, LimitsKept DEF vars, supVars
<1> QED
  BY <1>1, <1>2, <1>3, <1>4, <1>5, <1>6 DEF Next, Finished

\* Active workers stay within the global cap, a node within its maximum, and
\* threads within the cap plus the reserve, however many operations run.
THEOREM LimitsHold == Spec => []WithinLimits
<1>1. TypeOK /\ RosterInv /\ WithinLimits /\ [Next]_vars
         => TypeOK' /\ RosterInv' /\ WithinLimits'
  BY TypeStep, RosterStep, LimitsStep
<1> QED
  BY TypeInit, RosterInit, LimitsInit, <1>1, PTL DEF Spec

-----------------------------------------------------------------------------
(* A merge waits only on a return.                                         *)

\* Assigned, and its last event not sent.
Serves(w) == active[w] # None /\ (Waiting(w) \/ Looping(w))

\* The supervisor holds the receiver of a merge while the source is active, and
\* the transfer is then still possible.
PendingInv ==
    /\ pending.kind # "merge" => ~pending.rx /\ ~pending.waiting
    /\ pending.kind = None => pending.src = None
    /\ pending.kind = "merge" =>
         /\ pending.src \in Worker /\ pending.dst \in Worker \ {pending.src}
         /\ pending.rx <=> pending.src \in Busy
         /\ pending.waiting => ~pending.rx
         /\ pending.rx => chan[pending.src].st \in {"open", "full"}

\* Only the target of the merge in progress has a request, that merge's; its
\* source is off the roster, and closes the transfer when it returns.
RequestsInv ==
    \A w \in Worker : Serves(w) /\ requests[w] # <<>> =>
        /\ pending.waiting /\ pending.dst = w /\ requests[w] = <<pending.src>>
        /\ chan[pending.src].st \in
             (IF pc[pending.src] = "returning" THEN {"open", "full"}
                                               ELSE {"full", "closed"})

\* An event says that the merge in progress is done, and was sent before the
\* target's last.
MergedInv ==
    \A i \in 1..Len(events) : events[i].type = "merged" =>
        /\ pending.waiting
        /\ pending.src = events[i].src /\ pending.dst = events[i].worker
        /\ requests[pending.dst] = <<>>
        /\ \A j \in 1..Len(events) : events[j].type = "merged" => j = i
        /\ \A j \in ExitsIn(events, pending.dst) : i < j

MergeInv == PendingInv /\ RequestsInv /\ MergedInv

LEMMA MergeInit == Init => MergeInv
  BY DEF Init, NoOp, None, MergeInv, PendingInv, RequestsInv, MergedInv

LEMMA ServesBefore ==
    ASSUME RosterInv, NEW v \in Worker, active'[v] = active[v],
           pc[v] = "panicked" => pc'[v] = "panicked",
           ExitsIn(events, v) # {} => ExitsIn(events', v) # {}, Serves(v)'
    PROVE  Serves(v)
<1>1. Stage(v) /\ active[v] # None
  BY DEF RosterInv, Serves
<1>2. ExitsIn(events', v) = {} /\ pc'[v] # "panicked"
  BY DEF Serves, Waiting, Looping, InLoop, Running
<1>3. ~Gone(v) /\ ~Lost(v)
  BY <1>2 DEF Gone, Lost
<1> QED
  BY <1>1, <1>3 DEF Stage, Serves

\* An event that is posted or read, and says nothing of a merge.
LEMMA MergedAppended ==
    ASSUME TypeOK, MergedInv, NEW e \in Message, e.type # "merged",
           events' = Append(events, e), pending' = pending, requests' = requests
    PROVE  MergedInv'
<1>1. /\ events \in Seq(Message) /\ Len(events) \in Nat
      /\ Len(events') = Len(events) + 1 /\ events'[Len(events) + 1] = e
      /\ \A i \in 1..Len(events) : events'[i] = events[i]
  BY DEF TypeOK
<1>2. \A i \in 1..Len(events') : i \in 1..Len(events) \/ i = Len(events) + 1
  BY <1>1
<1> SUFFICES ASSUME NEW i \in 1..Len(events'), events'[i].type = "merged"
             PROVE  /\ pending.waiting
                    /\ pending.src = events'[i].src
                    /\ pending.dst = events'[i].worker
                    /\ requests[pending.dst] = <<>>
                    /\ \A j \in 1..Len(events') : events'[j].type = "merged" => j = i
                    /\ \A j \in ExitsIn(events', pending.dst) : i < j
  BY DEF MergedInv
<1>3. i \in 1..Len(events) /\ events'[i] = events[i]
  BY <1>1, <1>2
<1>4. \A j \in 1..Len(events') : events'[j].type = "merged" => j = i
  BY <1>1, <1>2, <1>3 DEF MergedInv
<1>5. ASSUME NEW j \in ExitsIn(events', pending.dst) PROVE i < j
  <2>1. j \in 1..Len(events')
    BY <1>5 DEF ExitsIn
  <2>2. CASE j \in 1..Len(events)
    <3>1. j \in ExitsIn(events, pending.dst)
      BY <1>1, <1>5, <2>2 DEF ExitsIn
    <3> QED
      BY <1>3, <3>1 DEF MergedInv
  <2> QED
    BY <1>1, <1>2, <1>3, <2>1, <2>2
<1> QED
  BY <1>3, <1>4, <1>5 DEF MergedInv

LEMMA MergedTailed ==
    ASSUME TypeOK, MergedInv, events # <<>>, events' = Tail(events),
           pending' = pending, requests' = requests
    PROVE  MergedInv'
<1>1. /\ events \in Seq(Message) /\ Len(events) \in Nat \ {0}
      /\ Len(events') = Len(events) - 1
      /\ \A i \in 1..(Len(events) - 1) : events'[i] = events[i + 1]
  BY DEF TypeOK
<1>2. \A i \in 1..Len(events') : i + 1 \in 1..Len(events) /\ events'[i] = events[i + 1]
  BY <1>1
<1> SUFFICES ASSUME NEW i \in 1..Len(events'), events'[i].type = "merged"
             PROVE  /\ pending.waiting
                    /\ pending.src = events'[i].src
                    /\ pending.dst = events'[i].worker
                    /\ requests[pending.dst] = <<>>
                    /\ \A j \in 1..Len(events') : events'[j].type = "merged" => j = i
                    /\ \A j \in ExitsIn(events', pending.dst) : i < j
  BY DEF MergedInv
<1>3. i + 1 \in 1..Len(events) /\ events[i + 1].type = "merged"
  BY <1>2
<1>4. ASSUME NEW j \in 1..Len(events'), events'[j].type = "merged" PROVE j = i
  <2>1. j + 1 = i + 1
    BY <1>2, <1>3, <1>4 DEF MergedInv
  <2> QED
    BY <2>1
<1>5. ASSUME NEW j \in ExitsIn(events', pending.dst) PROVE i < j
  <2>1. j \in 1..Len(events') /\ j + 1 \in ExitsIn(events, pending.dst)
    BY <1>2, <1>5 DEF ExitsIn
  <2>2. i + 1 < j + 1
    BY <1>3, <2>1 DEF MergedInv
  <2> QED
    BY <2>1, <2>2
<1> QED
  BY <1>2, <1>3, <1>4, <1>5 DEF MergedInv

\* While no merge waits there is neither a request nor a merged event.
LEMMA NothingMerges ==
    ASSUME MergeInv, ~pending.waiting
    PROVE  /\ \A w \in Worker : Serves(w) => requests[w] = <<>>
           /\ \A i \in 1..Len(events) : events[i].type # "merged"
  BY DEF MergeInv, RequestsInv, MergedInv

\* What a step of a worker does to the channels of a merge.
Hushed(w) == events' = events /\ requests' = requests
Posted(w) ==
    /\ requests' = requests
    /\ \E e \in Message : e.type # "merged" /\ events' = Append(events, e)

LEMMA LeavePosts ==
    ASSUME TypeOK, NEW w \in Worker, NEW type \in {"parked", "failed"},
           NEW load \in Nat, NEW kept, Leave(type, w, load, kept), requests' = requests
    PROVE  Posted(w)
<1> DEFINE e == Event(type, w, job[w], load, None)
<1>1. job[w] \in Node \cup {None}
  BY DEF TypeOK
<1>2. e \in Message /\ e.type # "merged"
  BY <1>1 DEF Event, Message
<1>3. events' = Append(events, e)
  BY DEF Leave, Post
<1> HIDE DEF e
<1> QED
  BY <1>2, <1>3 DEF Posted

LEMMA MailEffect ==
    ASSUME TypeOK, NEW w \in Worker, Steps(w) \/ Exits(w) \/ Panic(w),
           ~Merge(w), ~MergeFails(w)
    PROVE  /\ Hushed(w) \/ Posted(w)
           /\ chan' = chan \/ RetireByTransfer(w) \/ Return(w) \/ Panic(w)
<1> USE DEF mail
<1>0. carried[w] \in Nat /\ 0 \in Nat
  BY DEF TypeOK
<1>1. CASE TakeCommand(w) \/ SwapMergeFlag(w) \/ NoMoreRequests(w) \/ NotRetired(w)
           \/ StayInLoop(w)
  BY <1>1 DEF TakeCommand, SwapMergeFlag, NoMoreRequests, NotRetired, StayInLoop, Hushed
<1>2. CASE Start(w)
  <2> DEFINE e == Event("started", w, job[w], 0, None)
  <2>1. job[w] \in Node \cup {None}
    BY DEF TypeOK
  <2>2. e \in Message /\ e.type # "merged"
    BY <2>1 DEF Event, Message
  <2>3. events' = Append(events, e) /\ requests' = requests /\ chan' = chan
    BY <1>2 DEF Start, Post
  <2> HIDE DEF e
  <2> QED
    BY <2>2, <2>3 DEF Posted
<1>3. CASE FailInit(w)
  BY <1>0, <1>3, LeavePosts DEF FailInit, Fail
<1>4. CASE CheckAbort(w) \/ PollTimeout(w)
  <2>1. /\ requests' = requests /\ chan' = chan
        /\ ParkOnAbort(w) \/ events' = events
    BY <1>4 DEF CheckAbort, PollTimeout
  <2> QED
    BY <1>0, <2>1, LeavePosts DEF ParkOnAbort, Hushed
<1>5. CASE RetireByCleanup(w)
  BY <1>0, <1>5, LeavePosts DEF RetireByCleanup, Cleanup
<1>6. CASE RetireByTransfer(w)
  <2>1. PICK type \in {"parked", "failed"} : Leave(type, w, 0, 0)
    BY <1>6 DEF RetireByTransfer
  <2> QED
    BY <1>0, <1>6, <2>1, LeavePosts DEF RetireByTransfer
<1>7. CASE Process(w)
  <2>1. /\ requests' = requests /\ chan' = chan
        /\ Fail(w) \/ events' = events
    BY <1>7 DEF Process
  <2> QED
    BY <1>0, <2>1, LeavePosts DEF Fail, Hushed
<1>8. CASE Exits(w)
  <2>1. PICK type \in {"parked", "failed"}, load \in Nat, kept \in Nat :
            Leave(type, w, load, kept)
    BY <1>0, <1>8 DEF Exits, LeaveLoop, PollDisconnected, GracefulExit, Cleanup,
       ParkOnAbort
  <2>2. requests' = requests /\ chan' = chan
    BY <1>8 DEF Exits, LeaveLoop, PollDisconnected
  <2> QED
    BY <2>1, <2>2, LeavePosts
<1>9. CASE Return(w) \/ Panic(w)
  BY <1>9 DEF Return, Panic, Hushed
<1> QED
  BY <1>1, <1>2, <1>3, <1>4, <1>5, <1>6, <1>7, <1>8, <1>9 DEF Steps

\* A worker whose step leaves the roster alone serves after it only if it did
\* before.
LEMMA ServesKept ==
    ASSUME TypeOK, RosterInv, NEW w \in Worker, Steps(w) \/ Exits(w) \/ Panic(w),
           NEW v \in Worker, Serves(v)'
    PROVE  Serves(v)
<1>1. /\ Others(w) /\ active' = active
      /\ Took(w) \/ Moved(w) \/ Left(w) \/ Returned(w) \/ Panicked(w)
  BY WorkerFrames, WorkerEffect DEF supVars
<1>2. pc[v] = "panicked" => pc'[v] = "panicked"
  BY <1>1 DEF Others, Took, Moved, Left, Returned, Panicked, InLoop, Running
<1>3. ExitsIn(events, v) # {} => ExitsIn(events', v) # {}
  <2>1. events \in Seq(Message)
    BY DEF TypeOK
  <2>2. CASE events' = events
    BY <2>2
  <2>3. CASE \E e \in Message : events' = Append(events, e)
    BY <2>1, <2>3, ExitsAppended
  <2> QED
    BY <1>1, <2>2, <2>3 DEF Took, Moved, Left, Returned, Panicked
<1> QED
  BY <1>1, <1>2, <1>3, ServesBefore

LEMMA MergeWorker ==
    ASSUME TypeOK, RosterInv, MergeInv, NEW w \in Worker,
           Steps(w) \/ Exits(w) \/ Panic(w)
    PROVE  MergeInv'
<1>0. /\ active' = active /\ pending' = pending /\ Busy' = Busy /\ Others(w)
      /\ Stage(w) /\ chan \in [Worker -> StateChan]
      /\ requests \in [Worker -> Seq(Worker)] /\ pc \in [Worker -> StepNames]
  BY WorkerFrames, WorkerEffect DEF supVars, Busy, RosterInv, TypeOK
<1>a. pending.waiting => /\ pending.kind = "merge" /\ ~pending.rx
                         /\ pending.src \in Worker \ Busy /\ pending.dst \in Worker
  BY DEF MergeInv, PendingInv
\* In its loop, a worker that has a request is the target of the merge.
<1>b. ASSUME pc[w] \in InLoop PROVE w \in Busy /\ Serves(w)
  BY <1>0, <1>b DEF Stage, Off, Waiting, Gone, Lost, Serves, Busy, InLoop, Running
<1>1. CASE Merge(w) \/ MergeFails(w)
  <2>1. /\ pc[w] = "requests" /\ requests[w] # <<>>
        /\ requests' = [requests EXCEPT ![w] = Tail(@)]
    BY <1>1 DEF Merge, MergeFails
  <2>2. Serves(w)
    BY <1>b, <2>1 DEF InLoop, Running
  <2>3. /\ pending.waiting /\ pending.dst = w /\ requests[w] = <<pending.src>>
    BY <2>1, <2>2 DEF MergeInv, RequestsInv
  <2>4. /\ requests'[w] = <<>>
        /\ \A v \in Worker \ {w} : requests'[v] = requests[v]
    BY <1>0, <2>1, <2>3
  <2>5. PendingInv'
    BY <1>0, <1>a, <2>3 DEF MergeInv, PendingInv
  <2>6. RequestsInv'
    <3>1. ASSUME NEW v \in Worker, Serves(v)' PROVE requests'[v] = <<>>
      <4>1. Serves(v)
        BY <3>1, ServesKept
      <4> QED
        BY <2>3, <2>4, <4>1 DEF MergeInv, RequestsInv
    <3> QED
      BY <3>1 DEF RequestsInv
  <2>7. MergedInv'
    <3>0. /\ events \in Seq(Message) /\ Len(events) \in Nat
          /\ \A i \in 1..Len(events) : events[i].type # "merged"
      BY <2>1, <2>3 DEF MergeInv, MergedInv, TypeOK
    <3>1. CASE MergeFails(w)
      <4> DEFINE e == Event("failed", w, job[w], 0, None)
      <4>1. events' = Append(events, e) /\ e.type # "merged"
        BY <3>1 DEF MergeFails, Fail, Leave, Post, Event
      <4> HIDE DEF e
      <4>2. \A i \in 1..Len(events') : events'[i].type # "merged"
        BY <3>0, <4>1
      <4> QED
        BY <4>2 DEF MergedInv
    <3>2. CASE Merge(w)
      <4> DEFINE e == Event("merged", w, job[w], 0, pending.src)
      <4>1. /\ events' = Append(events, e) /\ ~IsExit(e)
            /\ e.type = "merged" /\ e.worker = w /\ e.src = pending.src
        BY <2>3, <3>2 DEF Merge, Post, Event, IsExit
      <4>e. e \in Message
        <5>1. job[w] \in Node \cup {None} /\ pending.src \in Worker
          BY <1>a, <2>3 DEF TypeOK
        <5> QED
          BY <5>1 DEF Event, Message
      <4> HIDE DEF e
      <4>2. /\ Len(events') = Len(events) + 1 /\ events'[Len(events) + 1] = e
            /\ \A i \in 1..Len(events') : i # Len(events) + 1 => events'[i].type # "merged"
        BY <3>0, <4>1
      <4>3. ExitsIn(events', w) = {}
        <5>1. ExitsIn(events, w) = {}
          BY <2>2 DEF Serves, Waiting, Looping
        <5> QED
          BY <3>0, <4>1, <4>e, <5>1, ExitsAppended
      <4> QED
        BY <1>0, <2>3, <2>4, <4>1, <4>2, <4>3 DEF MergedInv
    <3> QED
      BY <1>1, <3>1, <3>2
  <2> QED
    BY <2>5, <2>6, <2>7 DEF MergeInv
<1>2. CASE ~Merge(w) /\ ~MergeFails(w)
  <2>1. /\ Hushed(w) \/ Posted(w)
        /\ chan' = chan \/ RetireByTransfer(w) \/ Return(w) \/ Panic(w)
    BY <1>2, MailEffect
  <2>2. requests' = requests
    BY <2>1 DEF Hushed, Posted
  <2>3. MergedInv'
    <3>1. CASE Hushed(w)
      BY <1>0, <3>1 DEF MergeInv, MergedInv, Hushed
    <3>2. CASE Posted(w)
      BY <1>0, <3>2, MergedAppended DEF MergeInv, Posted
    <3> QED
      BY <2>1, <3>1, <3>2
  \* The transfers change as the source's place does.
  <2>4. \A v \in Worker \ {w} : chan'[v] = chan[v] /\ pc'[v] = pc[v]
    <3>1. \A v \in Worker \ {w} : chan'[v] = chan[v]
      BY <1>0, <2>1 DEF RetireByTransfer, Return, Panic, DropRetire
    <3> QED
      BY <1>0, <3>1 DEF Others
  <2>5. PendingInv'
    <3>1. CASE pending.rx /\ pending.src = w
      <4>1. /\ pending.kind = "merge" /\ active[w] # None
            /\ chan[w].st \in {"open", "full"}
        BY <3>1 DEF MergeInv, PendingInv, Busy
      <4>2. chan'[w].st \in {"open", "full"}
        <5>1. CASE chan' = chan \/ Return(w) \/ Panic(w)
          BY <4>1, <5>1 DEF Return, Panic
        <5>2. CASE RetireByTransfer(w)
          <6>1. chan' = [chan EXCEPT ![w] = [st |-> "full", load |-> carried[w]]]
            BY <3>1, <4>1, <5>2 DEF RetireByTransfer
          <6> QED
            BY <1>0, <6>1
        <5> QED
          BY <2>1, <5>1, <5>2
      <4> QED
        BY <1>0, <3>1, <4>2 DEF MergeInv, PendingInv
    <3>2. CASE ~(pending.rx /\ pending.src = w)
      BY <1>0, <2>4, <3>2 DEF MergeInv, PendingInv
    <3> QED
      BY <3>1, <3>2
  <2>6. RequestsInv'
    <3> SUFFICES ASSUME NEW v \in Worker, Serves(v)', requests'[v] # <<>>
                 PROVE  /\ pending.waiting /\ pending.dst = v
                        /\ requests'[v] = <<pending.src>>
                        /\ chan'[pending.src].st \in
                             (IF pc'[pending.src] = "returning" THEN {"open", "full"}
                                                     ELSE {"full", "closed"})
      BY <1>0 DEF RequestsInv
    <3> DEFINE src == pending.src
    <3>1. Serves(v)
      BY ServesKept
    <3>2. /\ pending.waiting /\ pending.dst = v /\ requests[v] = <<src>>
          /\ chan[src].st \in (IF pc[src] = "returning" THEN {"open", "full"}
                                                        ELSE {"full", "closed"})
      BY <2>2, <3>1 DEF MergeInv, RequestsInv
    <3>3. src \in Worker \ Busy
      BY <1>a, <3>2
    <3>4. chan'[src].st \in (IF pc'[src] = "returning" THEN {"open", "full"}
                                                       ELSE {"full", "closed"})
      <4>1. CASE src # w
        BY <2>4, <3>2, <3>3, <4>1
      <4>2. CASE src = w
        <5>1. Off(w) /\ active[w] = None
          BY <1>0, <3>3, <4>2 DEF Stage, Busy
        <5>2. ~RetireByTransfer(w)
          BY <5>1 DEF Off, RetireByTransfer
        <5>3. CASE Return(w) \/ Panic(w)
          <6>1. pc[w] = "returning" /\ pc'[w] # "returning" /\ DropRetire(w)
            BY <1>0, <5>1, <5>3 DEF Return, Panic, Off, Goto
          <6>2. chan[w].st \in {"open", "full"}
            BY <3>2, <4>2, <6>1
          <6>3. chan'[w].st \in {"closed", "full"}
            BY <1>0, <6>1, <6>2 DEF DropRetire
          <6> QED
            BY <4>2, <6>1, <6>3
        <5>4. CASE chan' = chan /\ ~Return(w) /\ ~Panic(w)
          <6>1. Took(w) /\ pc[w] = "idle" /\ pc'[w] # "returning"
            <7>1. Took(w) \/ Moved(w) \/ Left(w) \/ Returned(w) \/ Panicked(w)
              BY WorkerEffect
            <7>2. TakeCommand(w)
              BY <5>1, <5>4 DEF Off, Steps, Exits, LeaveLoop, PollDisconnected, Start,
                 FailInit, CheckAbort, SwapMergeFlag, NoMoreRequests, Merge, MergeFails,
                 NotRetired, RetireByCleanup, RetireByTransfer, Process, PollTimeout,
                 StayInLoop
            <7> QED
              BY <7>1, <7>2 DEF TakeCommand, Took, Moved, Left, Returned, Panicked,
                 InLoop, Running
          <6> QED
            BY <3>2, <4>2, <5>4, <6>1
        <5> QED
          BY <2>1, <5>2, <5>3, <5>4
      <4> QED
        BY <4>1, <4>2
    <3> QED
      BY <2>2, <3>2, <3>4
  <2> QED
    BY <2>3, <2>5, <2>6 DEF MergeInv
<1> QED
  BY <1>1, <1>2

\* A step that takes no worker off the roster, sends no request and reads no
\* event.
LEMMA MergeQuiet ==
    ASSUME RosterInv, MergeInv,
           UNCHANGED <<active, pending, pc, chan, requests, events>>
    PROVE  MergeInv'
<1>1. Busy' = Busy /\ \A v \in Worker : ExitsIn(events', v) = ExitsIn(events, v)
  BY DEF Busy
<1>2. \A v \in Worker : Serves(v)' => Serves(v)
  BY <1>1, ServesBefore
<1>3. PendingInv'
  BY <1>1 DEF MergeInv, PendingInv
<1>4. RequestsInv'
  BY <1>2 DEF MergeInv, RequestsInv
<1>5. MergedInv'
  BY DEF MergeInv, MergedInv
<1> QED
  BY <1>3, <1>4, <1>5 DEF MergeInv

\* The event that is read says nothing of the roster.
LEMMA MergeReads ==
    ASSUME TypeOK, RosterInv, MergeInv, DrainEvent,
           OnStarted(Head(events)) \/ OnMerged(Head(events))
    PROVE  MergeInv'
<1> DEFINE e == Head(events)
<1>1. /\ events # <<>> /\ events' = Tail(events) /\ events \in Seq(Message)
      /\ e \in Message /\ e = events[1] /\ 1 \in 1..Len(events)
      /\ UNCHANGED <<active, pc, chan, requests>>
  <2>1. events # <<>> /\ events' = Tail(events) /\ UNCHANGED <<active, pc, chan, requests>>
    BY DEF DrainEvent, OnStarted, OnMerged, SupervisorFrame
  <2>2. events \in Seq(Message)
    BY DEF TypeOK
  <2>3. e \in Message /\ e = events[1] /\ 1 \in 1..Len(events)
    BY <2>1, <2>2
  <2> QED
    BY <2>1, <2>2, <2>3
<1>2. Busy' = Busy
  BY <1>1 DEF Busy
<1>3. ASSUME NEW v \in Worker, Serves(v)' PROVE Serves(v)
  <2>1. 1 \notin ExitsIn(events, v)
    BY <1>1 DEF ExitsIn, IsExit, OnStarted, OnMerged
  <2>2. ExitsIn(events, v) # {} => ExitsIn(events', v) # {}
    <3>1. ASSUME NEW i \in ExitsIn(events, v) PROVE i - 1 \in ExitsIn(events', v)
      <4>1. i \in 1..Len(events) /\ i # 1 /\ Len(events) \in Nat
        BY <1>1, <2>1, <3>1 DEF ExitsIn
      <4>2. i - 1 \in Nat \ {0} /\ (i - 1) + 1 = i
        BY <4>1
      <4> QED
        BY <1>1, <3>1, <4>2, ExitsTailed
    <3> QED
      BY <3>1
  <2> QED
    BY <1>1, <1>3, <2>2, ServesBefore
<1>4. CASE pending' = pending
  <2>1. PendingInv'
    BY <1>1, <1>2, <1>4 DEF MergeInv, PendingInv
  <2>2. RequestsInv'
    BY <1>1, <1>3, <1>4 DEF MergeInv, RequestsInv
  <2>3. MergedInv'
    BY <1>1, <1>4, MergedTailed DEF MergeInv
  <2> QED
    BY <2>1, <2>2, <2>3 DEF MergeInv
<1>5. CASE pending' # pending
  <2>1. pending' = NoOp /\ PendingInv'
    BY <1>5 DEF OnStarted, OnMerged, Settle, PendingInv, NoOp, None
  <2>2. \A v \in Worker : Serves(v) => requests[v] = <<>>
    <3>1. CASE OnMerged(e)
      <4>1. requests[pending.dst] = <<>>
        BY <1>1, <3>1 DEF OnMerged, MergeInv, MergedInv
      <4> QED
        BY <4>1 DEF MergeInv, RequestsInv
    <3>2. CASE OnStarted(e)
      <4>1. pending.kind = "add"
        BY <1>5, <3>2 DEF OnStarted
      <4> QED
        BY <4>1, NothingMerges DEF MergeInv, PendingInv
    <3> QED
      BY <3>1, <3>2
  <2>3. RequestsInv'
    BY <1>1, <1>3, <2>2 DEF RequestsInv
  <2>4. \A i \in 1..Len(events') : events'[i].type # "merged"
    <3>1. \A i \in 1..Len(events') : /\ i + 1 \in 1..Len(events) /\ i + 1 # 1
                                     /\ events'[i] = events[i + 1]
      BY <1>1
    <3>2. CASE OnMerged(e)
      BY <1>1, <3>1, <3>2 DEF OnMerged, MergeInv, MergedInv
    <3>3. CASE OnStarted(e)
      <4>1. pending.kind = "add"
        BY <1>5, <3>3 DEF OnStarted
      <4>2. \A i \in 1..Len(events) : events[i].type # "merged"
        BY <4>1, NothingMerges DEF MergeInv, PendingInv
      <4> QED
        BY <3>1, <4>2
    <3> QED
      BY <3>2, <3>3
  <2> QED
    BY <2>1, <2>3, <2>4 DEF MergeInv, MergedInv
<1> QED
  BY <1>4, <1>5

\* A worker leaves the roster: its last event is read.
LEMMA Leaves ==
    ASSUME TypeOK, RosterInv, DrainEvent,
           NEW e \in {Head(events)}, NEW w \in {e.worker}, OnParked(e) \/ OnFailed(e)
    PROVE  /\ e \in Message /\ w \in Worker /\ w \in Busy /\ Gone(w)
           /\ events # <<>> /\ events' = Tail(events) /\ 1 \in ExitsIn(events, w)
           /\ pc' = pc /\ job' = job /\ cmd' = cmd /\ retire' = retire
           /\ active'[w] = None /\ \A v \in Worker \ {w} : active'[v] = active[v]
           /\ Busy' = Busy \ {w}
           /\ chan' = chan \/ DropRetire(w)
           /\ pc[w] # "returning" => DropRetire(w)
<1>1. /\ events # <<>> /\ events' = Tail(events) /\ events \in Seq(Message)
      /\ e \in Message /\ pc' = pc /\ job' = job /\ cmd' = cmd /\ retire' = retire
      /\ Unassign(w) /\ IsExit(e)
  <2>1. /\ events # <<>> /\ events' = Tail(events)
        /\ pc' = pc /\ job' = job /\ cmd' = cmd /\ retire' = retire
        /\ Unassign(w) /\ IsExit(e)
    BY DEF DrainEvent, SupervisorFrame, OnParked, OnFailed, IsExit
  <2> QED
    BY <2>1, HeadTailProperties DEF TypeOK
<1>2. w \in Worker
  BY <1>1 DEF Message
<1>3. 1 \in ExitsIn(events, w)
  BY <1>1, <1>2, ExitsTailed
<1>4. active[w] # None /\ Gone(w)
  BY <1>2, <1>3 DEF RosterInv, Stage, Waiting, Looping, Lost, Off
<1>5. active'[w] = None /\ \A v \in Worker \ {w} : active'[v] = active[v]
  BY <1>1, <1>2 DEF Unassign, TypeOK
<1>6. Busy' = Busy \ {w} /\ w \in Busy
  <2>1. \A v : v \in Busy' <=> v \in Busy \ {w}
    BY <1>5 DEF Busy
  <2> QED
    BY <1>2, <1>4, <2>1 DEF Busy
<1>7. /\ chan' = chan \/ DropRetire(w)
      /\ pc[w] # "returning" => DropRetire(w)
  BY <1>1, <1>4 DEF Unassign, Gone, InAssignment, Running
<1> QED
  BY <1>1, <1>2, <1>3, <1>4, <1>5, <1>6, <1>7

\* The others serve on, and the source of a merge that waits is not the one who
\* leaves.
LEMMA MergeLeaves ==
    ASSUME TypeOK, RosterInv, MergeInv, DrainEvent,
           NEW e \in {Head(events)}, NEW w \in {e.worker}, OnParked(e) \/ OnFailed(e)
    PROVE  /\ \A v \in Worker : Serves(v)' => v # w /\ Serves(v)
           /\ pending.waiting => pending.src # w
           /\ pending.rx /\ pending.src = w => chan'[w].st \in
                 (IF pc[w] = "returning" THEN {"open", "full"} ELSE {"full", "closed"})
           /\ \A v \in Worker \ {w} : chan'[v] = chan[v]
           /\ pending.dst = w => \A i \in 1..Len(events) : events[i].type # "merged"
<1>1. /\ e \in Message /\ w \in Worker /\ w \in Busy
      /\ events # <<>> /\ events' = Tail(events) /\ 1 \in ExitsIn(events, w)
      /\ pc' = pc /\ active'[w] = None
      /\ \A v \in Worker \ {w} : active'[v] = active[v]
      /\ chan' = chan \/ DropRetire(w)
      /\ pc[w] # "returning" => DropRetire(w)
  BY Leaves
<1>2. events \in Seq(Message) /\ chan \in [Worker -> StateChan]
  BY DEF TypeOK
<1>3. ASSUME NEW v \in Worker, Serves(v)' PROVE v # w /\ Serves(v)
  <2>1. v # w
    BY <1>1, <1>3 DEF Serves
  <2>2. 1 \notin ExitsIn(events, v)
    <3>1. e.worker # v
      BY <2>1
    <3> QED
      BY <1>1, <1>2, <3>1, ExitsTailed
  <2>3. ExitsIn(events, v) # {} => ExitsIn(events', v) # {}
    <3>1. ASSUME NEW i \in ExitsIn(events, v) PROVE i - 1 \in ExitsIn(events', v)
      <4>1. i \in 1..Len(events) /\ i # 1 /\ Len(events) \in Nat
        BY <1>2, <2>2, <3>1 DEF ExitsIn
      <4>2. i - 1 \in Nat \ {0} /\ (i - 1) + 1 = i
        BY <4>1
      <4> QED
        BY <1>1, <1>2, <3>1, <4>2, ExitsTailed
    <3> QED
      BY <3>1
  <2> QED
    BY <1>1, <1>3, <2>1, <2>3, ServesBefore
<1>4. pending.waiting => pending.src # w
  BY <1>1 DEF MergeInv, PendingInv
<1>5. \A v \in Worker \ {w} : chan'[v] = chan[v]
  BY <1>1, <1>2 DEF DropRetire
<1>6. ASSUME pending.rx, pending.src = w
      PROVE  chan'[w].st \in (IF pc[w] = "returning" THEN {"open", "full"}
                                                     ELSE {"full", "closed"})
  <2>1. chan[w].st \in {"open", "full"}
    BY <1>6 DEF MergeInv, PendingInv
  <2>2. CASE pc[w] = "returning"
    <3>1. chan' = chan
      BY <2>2, <1>1 DEF DrainEvent, OnParked, OnFailed, Unassign, InAssignment, Running
    <3> QED
      BY <2>1, <2>2, <3>1
  <2>3. CASE pc[w] # "returning"
    BY <1>1, <1>2, <2>1, <2>3 DEF DropRetire
  <2> QED
    BY <2>2, <2>3
<1>7. ASSUME pending.dst = w, NEW i \in 1..Len(events), events[i].type = "merged"
      PROVE  FALSE
  <2>1. i < 1
    BY <1>1, <1>7 DEF MergeInv, MergedInv
  <2> QED
    BY <1>2, <2>1
<1> QED
  BY <1>3, <1>4, <1>5, <1>6, <1>7

LEMMA NothingLeft ==
    ASSUME TypeOK, events # <<>>, events' = Tail(events),
           \A i \in 1..Len(events) : events[i].type # "merged"
    PROVE  MergedInv'
<1>1. events \in Seq(Message)
  BY DEF TypeOK
<1>2. \A i \in 1..Len(events') : i + 1 \in 1..Len(events) /\ events'[i] = events[i + 1]
  BY <1>1
<1> QED
  BY <1>2 DEF MergedInv

LEMMA MergeParked ==
    ASSUME TypeOK, RosterInv, MergeInv, DrainEvent, OnParked(Head(events))
    PROVE  MergeInv'
<1> PICK e \in {Head(events)} : TRUE
  OBVIOUS
<1> PICK w \in {e.worker} : TRUE
  OBVIOUS
<1>0. OnParked(e)
  OBVIOUS
<1>1. /\ w \in Worker /\ w \in Busy /\ events # <<>> /\ events' = Tail(events)
      /\ pc' = pc /\ active'[w] = None /\ Busy' = Busy \ {w}
  BY <1>0, Leaves
<1>2. /\ \A v \in Worker : Serves(v)' => v # w /\ Serves(v)
      /\ pending.waiting => pending.src # w
      /\ pending.rx /\ pending.src = w => chan'[w].st \in
            (IF pc[w] = "returning" THEN {"open", "full"} ELSE {"full", "closed"})
      /\ \A v \in Worker \ {w} : chan'[v] = chan[v]
      /\ pending.dst = w => \A i \in 1..Len(events) : events[i].type # "merged"
  BY <1>0, MergeLeaves
<1>3. CASE ~Retires(w)
  <2>1. pending' = pending /\ requests' = requests
    BY <1>0, <1>3 DEF OnParked
  <2>2. pending.kind = "merge" => pending.src # w
    BY <1>2, <1>3 DEF Retires
  <2>3. PendingInv'
    BY <1>1, <1>2, <2>1, <2>2 DEF MergeInv, PendingInv
  <2>4. RequestsInv'
    <3>1. pending.waiting => pending.src \in Worker \ {w}
      BY <1>2 DEF MergeInv, PendingInv
    <3> QED
      BY <1>1, <1>2, <2>1, <3>1 DEF MergeInv, RequestsInv
  <2>5. MergedInv'
    BY <1>1, <2>1, MergedTailed DEF MergeInv
  <2> QED
    BY <2>3, <2>4, <2>5 DEF MergeInv
<1>4. CASE Retires(w)
  <2>1. ~pending.waiting /\ pending.src = w
    BY <1>4 DEF Retires
  <2>2. /\ \A v \in Worker : Serves(v) => requests[v] = <<>>
        /\ MergedInv'
    BY <1>1, <2>1, NothingMerges, NothingLeft
  <2>3. CASE pending.kind = "remove"
    <3>1. pending' = NoOp /\ requests' = requests
      BY <1>0, <1>4, <2>3 DEF OnParked, Settle
    <3>2. PendingInv'
      BY <3>1 DEF PendingInv, NoOp, None
    <3>3. RequestsInv'
      BY <1>2, <2>2, <3>1 DEF RequestsInv
    <3> QED
      BY <2>2, <3>2, <3>3 DEF MergeInv
  <2>4. CASE pending.kind = "merge"
    <3>1. HandOver(e)
      BY <1>0, <1>4, <2>4 DEF OnParked
    <3>2. /\ pending.rx /\ pending.dst \in Worker \ {w}
      BY <1>1, <2>1, <2>4 DEF MergeInv, PendingInv
    <3>3. pending \in Operation /\ requests \in [Worker -> Seq(Worker)]
      BY DEF TypeOK
    <3>4. CASE MergeSender(pending.dst) /\ Assigned(pending.dst)
      <4>1. /\ requests' = [requests EXCEPT ![pending.dst] = Append(@, w)]
            /\ pending' = [pending EXCEPT !.rx = FALSE, !.waiting = TRUE]
        BY <3>1, <3>2, <3>4 DEF HandOver
      <4>2. /\ pending'.kind = "merge" /\ pending'.src = w /\ pending'.dst = pending.dst
            /\ ~pending'.rx /\ pending'.waiting
        BY <2>1, <2>4, <3>3, <4>1 DEF Operation
      <4>3. PendingInv'
        BY <1>1, <3>2, <4>2 DEF PendingInv, None
      <4>4. RequestsInv'
        <5> SUFFICES ASSUME NEW v \in Worker, Serves(v)', requests'[v] # <<>>
                     PROVE  /\ v = pending.dst /\ requests'[v] = <<w>>
                            /\ chan'[w].st \in
                                 (IF pc[w] = "returning" THEN {"open", "full"}
                                                         ELSE {"full", "closed"})
          BY <1>1, <4>2 DEF RequestsInv
        <5>1. requests[v] = <<>>
          BY <1>2, <2>2
        <5>2. v = pending.dst /\ requests'[v] = <<w>>
          <6>1. v = pending.dst
            BY <3>3, <4>1, <5>1
          <6>2. requests'[v] = Append(<<>>, w)
            BY <3>3, <4>1, <5>1, <6>1
          <6> QED
            BY <6>1, <6>2
        <5> QED
          BY <1>2, <2>1, <3>2, <5>2
      <4> QED
        BY <2>2, <4>3, <4>4 DEF MergeInv
    <3>5. CASE ~(MergeSender(pending.dst) /\ Assigned(pending.dst))
      <4>1. requests' = requests /\ pending' = [pending EXCEPT !.rx = FALSE]
        BY <3>1, <3>5 DEF HandOver
      <4>2. /\ pending'.kind = "merge" /\ pending'.src = w /\ pending'.dst = pending.dst
            /\ ~pending'.rx /\ ~pending'.waiting
        BY <2>1, <2>4, <3>3, <4>1 DEF Operation
      <4>3. PendingInv'
        BY <1>1, <3>2, <4>2 DEF PendingInv, None
      <4>4. RequestsInv'
        BY <1>2, <2>2, <4>1 DEF RequestsInv
      <4> QED
        BY <2>2, <4>3, <4>4 DEF MergeInv
    <3> QED
      BY <3>4, <3>5
  <2> QED
    BY <1>4, <2>3, <2>4 DEF Retires
<1> QED
  BY <1>3, <1>4

LEMMA MergeFailed ==
    ASSUME TypeOK, RosterInv, MergeInv, DrainEvent, OnFailed(Head(events))
    PROVE  MergeInv'
<1> PICK e \in {Head(events)} : TRUE
  OBVIOUS
<1> PICK w \in {e.worker} : TRUE
  OBVIOUS
<1>0. OnFailed(e)
  OBVIOUS
<1>1. /\ w \in Worker /\ w \in Busy /\ events # <<>> /\ events' = Tail(events)
      /\ pc' = pc /\ active'[w] = None /\ Busy' = Busy \ {w}
  BY <1>0, Leaves
<1>2. /\ \A v \in Worker : Serves(v)' => v # w /\ Serves(v)
      /\ pending.waiting => pending.src # w
      /\ \A v \in Worker \ {w} : chan'[v] = chan[v]
      /\ pending.dst = w => \A i \in 1..Len(events) : events[i].type # "merged"
  BY <1>0, MergeLeaves
<1>3. /\ requests' = requests
      /\ pending' = IF Involves(pending, w) THEN NoOp ELSE pending
  BY <1>0 DEF OnFailed
<1>4. CASE Involves(pending, w)
  <2>1. PendingInv'
    BY <1>3, <1>4 DEF PendingInv, NoOp, None
  <2>2. ~pending.waiting \/ pending.dst = w
    BY <1>2, <1>4 DEF Involves
  <2>3. RequestsInv'
    BY <1>2, <1>3, <2>2 DEF MergeInv, RequestsInv
  <2>4. MergedInv'
    BY <1>1, <1>2, <2>2, NothingMerges, NothingLeft
  <2> QED
    BY <2>1, <2>3, <2>4 DEF MergeInv
<1>5. CASE ~Involves(pending, w)
  <2>1. pending' = pending
    BY <1>3, <1>5
  <2>2. pending.kind = "merge" => pending.src # w
    BY <1>5 DEF Involves, None
  <2>3. PendingInv'
    BY <1>1, <1>2, <2>1, <2>2 DEF MergeInv, PendingInv
  <2>4. RequestsInv'
    <3>1. pending.waiting => pending.src \in Worker \ {w}
      BY <1>2 DEF MergeInv, PendingInv
    <3> QED
      BY <1>1, <1>2, <1>3, <2>1, <3>1 DEF MergeInv, RequestsInv
  <2>5. MergedInv'
    BY <1>1, <1>3, <2>1, MergedTailed DEF MergeInv
  <2> QED
    BY <2>3, <2>4, <2>5 DEF MergeInv
<1> QED
  BY <1>4, <1>5

LEMMA MergeScales ==
    ASSUME TypeOK, RosterInv, MergeInv, ScaleUp \/ ScaleDown
    PROVE  MergeInv'
<1>1. /\ pending.kind = None /\ pc' = pc /\ events' = events
  BY DEF ScaleUp, ScaleDown, MayScale, SupervisorFrame
<1>2. ~pending.waiting /\ MergedInv'
  BY <1>1, NothingMerges DEF MergeInv, PendingInv, MergedInv, None
<1>3. \A v \in Worker : Serves(v) => requests[v] = <<>>
  BY <1>2, NothingMerges
<1>4. CASE ScaleUp
  <2>1. PICK n \in Node, w \in Worker :
           Assign(w, n) /\ pending' = [NoOp EXCEPT !.kind = "add", !.src = w, !.node = n]
    BY <1>4 DEF ScaleUp
  <2>2. PendingInv'
    BY <2>1 DEF PendingInv, NoOp, None
  <2>3. RequestsInv'
    <3> SUFFICES ASSUME NEW v \in Worker, Serves(v)' PROVE requests'[v] = <<>>
      BY DEF RequestsInv
    <3>1. CASE v = w
      BY <2>1, <3>1 DEF Assign, TypeOK
    <3>2. CASE v # w
      <4>1. active'[v] = active[v] /\ requests'[v] = requests[v]
        BY <2>1, <3>2 DEF Assign, TypeOK
      <4>2. Serves(v)
        BY <1>1, <4>1, ServesBefore
      <4> QED
        BY <1>3, <4>1, <4>2
    <3> QED
      BY <3>1, <3>2
  <2> QED
    BY <1>2, <2>2, <2>3 DEF MergeInv
<1>5. CASE ScaleDown
  <2>1. active' = active /\ requests' = requests /\ Busy' = Busy
    BY <1>5 DEF ScaleDown, Busy
  <2>2. \A v \in Worker : Serves(v)' => Serves(v)
    BY <1>1, <2>1, ServesBefore
  <2>3. RequestsInv'
    BY <1>3, <2>1, <2>2 DEF RequestsInv
  <2>4. PendingInv'
    <3>1. PICK n \in Node, w \in Worker :
             /\ active[w] = n
             /\ \/ \E dst \in Staff(n) \ {w} :
                     /\ chan' = [chan EXCEPT ![w] = [st |-> "open", load |-> 0]]
                     /\ pending' = [kind |-> "merge", src |-> w, dst |-> dst,
                                    node |-> n, rx |-> TRUE, waiting |-> FALSE]
                \/ pending' = [NoOp EXCEPT !.kind = "remove", !.src = w, !.node = n]
      BY <1>5 DEF ScaleDown
    <3>2. w \in Busy
      BY <3>1, NodesAssumption DEF Busy
    <3>3. CASE pending' = [NoOp EXCEPT !.kind = "remove", !.src = w, !.node = n]
      BY <3>3 DEF PendingInv, NoOp, None
    <3>4. CASE \E dst \in Staff(n) \ {w} :
                  /\ chan' = [chan EXCEPT ![w] = [st |-> "open", load |-> 0]]
                  /\ pending' = [kind |-> "merge", src |-> w, dst |-> dst,
                                 node |-> n, rx |-> TRUE, waiting |-> FALSE]
      <4>1. PICK dst \in Staff(n) \ {w} :
                  /\ chan' = [chan EXCEPT ![w] = [st |-> "open", load |-> 0]]
                  /\ pending' = [kind |-> "merge", src |-> w, dst |-> dst,
                                 node |-> n, rx |-> TRUE, waiting |-> FALSE]
        BY <3>4
      <4>2. chan'[w].st = "open"
        BY <4>1 DEF TypeOK
      <4>3. dst \in Worker \ {w}
        BY DEF Staff
      <4> QED
        BY <2>1, <3>2, <4>1, <4>2, <4>3 DEF PendingInv, None
    <3> QED
      BY <3>1, <3>3, <3>4
  <2> QED
    BY <1>2, <2>3, <2>4 DEF MergeInv
<1> QED
  BY <1>4, <1>5

LEMMA MergeStep ==
    ASSUME TypeOK, RosterInv, MergeInv, [Next]_vars
    PROVE  MergeInv'
<1>1. CASE DrainEvent
  BY <1>1, MergeReads, MergeParked, MergeFailed DEF DrainEvent
<1>2. CASE ScaleUp \/ ScaleDown
  BY <1>2, MergeScales
<1>3. CASE Supervisor /\ ~DrainEvent /\ ~ScaleUp /\ ~ScaleDown
  <2>1. UNCHANGED <<active, pending, pc, chan, requests, events>>
    BY <1>3 DEF Supervisor, EventsDrained, DrainFailure, CloseLinks, NoScale, CheckExit,
       StopParked, JoinWorkers, SupervisorFrame, mail, roster
  <2> QED
    BY <2>1, MergeQuiet
<1>4. CASE \E w \in Worker : Steps(w) \/ Exits(w) \/ Panic(w)
  BY <1>4, MergeWorker
<1>5. CASE Environment
  BY <1>5, EnvironmentFrames, MergeQuiet DEF supVars, workVars
<1>6. CASE UNCHANGED vars
  BY <1>6, MergeQuiet DEF vars, supVars, workVars
<1> QED
  BY <1>1, <1>2, <1>3, <1>4, <1>5, <1>6 DEF Next, Finished

\* The blocking receive of a merge waits on a worker that has left its loop and
\* has only to return, panics included; it then finds the state or the end of
\* the channel.
THEOREM MergesWaitOnReturns == Spec => []MergeWaitsOnlyOnReturn
<1>1. TypeOK /\ RosterInv /\ MergeInv /\ [Next]_vars
         => TypeOK' /\ RosterInv' /\ MergeInv'
  BY TypeStep, RosterStep, MergeStep
<1>2. TypeOK /\ RosterInv /\ MergeInv => MergeWaitsOnlyOnReturn
  <2> SUFFICES ASSUME TypeOK, RosterInv, MergeInv, NEW w \in Worker,
                      pc[w] = "requests", requests[w] # <<>>
               PROVE  LET src == Head(requests[w]) IN
                        /\ src # w /\ src \notin Busy
                        /\ pc[src] \notin Running \ {"returning"}
                        /\ chan[src].st \in
                             (IF pc[src] = "returning" THEN {"open", "full"}
                                                       ELSE {"full", "closed"})
    BY DEF MergeWaitsOnlyOnReturn
  <2>1. Serves(w)
    BY DEF RosterInv, Stage, Off, Waiting, Gone, Lost, Serves
  <2>2. /\ pending.waiting /\ pending.dst = w /\ requests[w] = <<pending.src>>
        /\ chan[pending.src].st \in
             (IF pc[pending.src] = "returning" THEN {"open", "full"}
                                               ELSE {"full", "closed"})
    BY <2>1 DEF MergeInv, RequestsInv
  <2>3. Head(requests[w]) = pending.src
    BY <2>2
  <2>4. pending.src \in Worker \ {w} /\ pending.src \notin Busy
    BY <2>2 DEF MergeInv, PendingInv
  <2>5. Off(pending.src)
    BY <2>4 DEF RosterInv, Stage, Busy
  <2> QED
    BY <2>2, <2>3, <2>4, <2>5 DEF Off, Running
<1> QED
  BY TypeInit, RosterInit, MergeInit, <1>1, <1>2, PTL DEF Spec

-----------------------------------------------------------------------------
(* Every node stays staffed.                                               *)

\* A worker may leave a node for good once it may leave it at all.
LEMMA SendersGone ==
    ASSUME TypeOK, [Next]_vars, ~ScaleUp, NEW w \in Worker, NEW m \in Node,
           SendsFor(w, m)'
    PROVE  SendsFor(w, m)
<1>1. cmd[w] \in Seq(Command) /\ m # Stop
  BY NodesAssumption DEF TypeOK
<1>2. CASE pc'[w] = pc[w] /\ job'[w] = job[w] /\ cmd'[w] = cmd[w]
  BY <1>2 DEF SendsFor, InAssignment
<1>3. CASE \E v \in Worker : Steps(v) \/ Exits(v) \/ Panic(v)
  <2>1. PICK v \in Worker : Steps(v) \/ Exits(v) \/ Panic(v)
    BY <1>3
  <2>2. /\ Others(v)
        /\ Took(v) \/ Moved(v) \/ Left(v) \/ Returned(v) \/ Panicked(v)
    BY <2>1, WorkerEffect
  <2>3. CASE v # w
    BY <1>2, <2>2, <2>3 DEF Others
  <2>4. CASE v = w /\ ~Took(w)
    BY <2>2, <2>4 DEF Moved, Left, Returned, Panicked, SendsFor, InAssignment, InLoop,
       Running
  <2>5. CASE v = w /\ Took(w)
    <3>1. /\ cmd[w] # <<>> /\ cmd'[w] = Tail(cmd[w])
          /\ pc'[w] = "stopped" \/ job'[w] = Head(cmd[w])
      BY <2>5 DEF Took
    <3>2. CASE pc'[w] # "stopped" /\ job'[w] = m
      <4>1. 1 \in 1..Len(cmd[w]) /\ cmd[w][1] = m
        BY <1>1, <3>1, <3>2
      <4> QED
        BY <4>1 DEF SendsFor
    <3>3. CASE \E i \in 1..Len(cmd'[w]) : cmd'[w][i] = m
      <4>1. PICK i \in 1..Len(cmd'[w]) : cmd'[w][i] = m
        BY <3>3
      <4>2. i + 1 \in 1..Len(cmd[w]) /\ cmd[w][i + 1] = m
        BY <1>1, <3>1, <4>1
      <4> QED
        BY <4>2 DEF SendsFor
    <3> QED
      BY <3>2, <3>3 DEF SendsFor, InAssignment, Running
  <2> QED
    BY <2>3, <2>4, <2>5
<1>4. CASE StopParked
  <2>1. /\ pc' = pc /\ job' = job
        /\ cmd'[w] = IF w \in parked THEN Append(cmd[w], Stop) ELSE cmd[w]
    BY <1>4 DEF StopParked, SupervisorFrame
  <2>2. ASSUME NEW i \in 1..Len(cmd'[w]), cmd'[w][i] = m
        PROVE  i \in 1..Len(cmd[w]) /\ cmd[w][i] = m
    BY <1>1, <2>1, <2>2
  <2> QED
    BY <2>1, <2>2 DEF SendsFor, InAssignment
<1>5. CASE Supervisor /\ ~StopParked
  <2>1. pc' = pc /\ job' = job /\ cmd' = cmd
    BY <1>5 DEF Supervisor, DrainEvent, EventsDrained, DrainFailure, CloseLinks,
       ScaleDown, NoScale, CheckExit, JoinWorkers, SupervisorFrame, mail
  <2> QED
    BY <1>2, <2>1
<1>6. CASE Environment
  BY <1>2, <1>6, EnvironmentFrames DEF workVars
<1>7. CASE UNCHANGED vars
  BY <1>2, <1>7 DEF vars, workVars
<1> QED
  BY <1>3, <1>4, <1>5, <1>6, <1>7 DEF Next, Finished

\* A loop may come to be left: its input is over, or shutdown reaches it (what MayLeave
\* implies, and what no step undoes).
MayGo(n) == Disconnected(n) \/ (shutdown /\ n \in Input \cup Feeder)

LEMMA LeaveHolds ==
    ASSUME TypeOK, LinksHeld, [Next]_vars, NEW n \in Node, MayGo(n)
    PROVE  MayGo(n)'
<1>1. shutdown' = shutdown \/ shutdown' = TRUE
  <2>1. CASE Environment
    BY <2>1 DEF Environment, Shutdown, Abort, DropHandle, Reports, StoreAbort, SendReport
  <2>2. CASE Supervisor
    BY <2>2 DEF Supervisor, DrainEvent, EventsDrained, DrainFailure, CloseLinks, ScaleUp,
       ScaleDown, NoScale, CheckExit, StopParked, JoinWorkers, SupervisorFrame, envVars
  <2>3. CASE \E v \in Worker : Steps(v) \/ Exits(v) \/ Panic(v)
    BY <2>3, WorkerFrames DEF envVars
  <2>4. CASE UNCHANGED vars
    BY <2>4 DEF vars, envVars
  <2> QED
    BY <2>1, <2>2, <2>3, <2>4 DEF Next, Finished
<1>2. handles' \subseteq handles
  <2>1. CASE Environment
    BY <2>1 DEF Environment, Shutdown, Abort, DropHandle, Reports, StoreAbort, SendReport
  <2>2. CASE Supervisor
    BY <2>2 DEF Supervisor, DrainEvent, EventsDrained, DrainFailure, CloseLinks, ScaleUp,
       ScaleDown, NoScale, CheckExit, StopParked, JoinWorkers, SupervisorFrame, envVars
  <2>3. CASE \E v \in Worker : Steps(v) \/ Exits(v) \/ Panic(v)
    BY <2>3, WorkerFrames DEF envVars
  <2>4. CASE UNCHANGED vars
    BY <2>4 DEF vars, envVars
  <2> QED
    BY <2>1, <2>2, <2>3, <2>4 DEF Next, Finished
<1>3. ~held => ~held'
  <2>1. CASE Environment
    BY <2>1, EnvironmentFrames DEF supVars
  <2>2. CASE Supervisor
    BY <2>2 DEF Supervisor, DrainEvent, EventsDrained, DrainFailure, CloseLinks, ScaleUp,
       ScaleDown, NoScale, CheckExit, StopParked, JoinWorkers, config
  <2>3. CASE \E v \in Worker : Steps(v) \/ Exits(v) \/ Panic(v)
    BY <2>3, WorkerFrames DEF supVars
  <2>4. CASE UNCHANGED vars
    BY <2>4 DEF vars, supVars
  <2> QED
    BY <2>1, <2>2, <2>3, <2>4 DEF Next, Finished
<1>4. CASE shutdown /\ n \in Input \cup Feeder
  BY <1>1, <1>4 DEF MayGo
<1>5. CASE Disconnected(n)
  <2>1. ~held /\ ~ScaleUp
    BY <1>5 DEF Disconnected, LinksHeld, ScaleUp, MayScale
  <2>2. Feeds[n] \subseteq Node
    BY NodesAssumption
  <2>3. \A m \in Feeds[n], w \in Worker : SendsFor(w, m)' => SendsFor(w, m)
    BY <2>1, <2>2, SendersGone
  <2>4. Disconnected(n)'
    BY <1>2, <1>3, <1>5, <2>1, <2>3 DEF Disconnected
  <2> QED
    BY <2>4 DEF MayGo
<1> QED
  BY <1>4, <1>5 DEF MayGo

\* Nothing has failed or been aborted, as far as anybody can know.
Quiet ==
    ~abort /\ ~MayPanic /\ \A i \in 1..Len(events) : events[i].type # "failed"

\* While the pool is quiet an active worker has left its loop only because the
\* supervisor asked it to or because it may leave its node; only the source of
\* the operation in progress is asked to; and every node keeps a worker that is
\* not asked to, until workers may leave the node.
Serving ==
    \A w \in Busy : Working(w) \/ Retires(w) \/ MayGo(active[w])
AskedOnce ==
    \A w \in Busy : retire[w] # None => Retires(w)
Staffed ==
    \A n \in Node \ External : (\E w \in Staff(n) : ~Retires(w)) \/ MayGo(n)

StaffInv ==
    /\ failure # None => abort
    /\ ~MayPanic => \A w \in Worker : pc[w] # "panicked"
    /\ Quiet => Serving /\ AskedOnce /\ Staffed

LEMMA StaffInit == Init => StaffInv
<1> SUFFICES ASSUME Init PROVE StaffInv
  OBVIOUS
<1>1. \A w \in Worker : pc[w] = "idle" /\ retire[w] = None /\ ~Retires(w)
  BY DEF Init, Retires, NoOp, None
<1>2. Serving
  <2> SUFFICES ASSUME NEW w \in Busy PROVE Working(w)
    BY DEF Serving
  <2>1. w \in DOMAIN Startup
    BY DEF Init, Busy
  <2>2. cmd[w] = <<Startup[w]>> /\ Startup[w] # Stop
    BY <2>1, StartupAssumption, NodesAssumption DEF Init, Busy
  <2> QED
    BY <2>2 DEF Working
<1>3. Staffed
  <2> SUFFICES ASSUME NEW n \in Node \ External PROVE \E w \in Staff(n) : ~Retires(w)
    BY DEF Staffed
  <2>1. PICK w \in DOMAIN Startup : Startup[w] = n
    BY StartupAssumption
  <2>2. w \in Staff(n)
    BY <2>1, StartupAssumption DEF Init, Staff
  <2> QED
    BY <1>1, <2>2 DEF Staff
<1> QED
  BY <1>1, <1>2, <1>3 DEF Init, StaffInv, AskedOnce, Busy

LEMMA QuietBefore ==
    ASSUME TypeOK, [Next]_vars, Quiet'
    PROVE  Quiet
<1>1. events \in Seq(Message)
  BY DEF TypeOK
<1>2. abort => abort'
  <2>1. CASE Environment
    BY <2>1 DEF Environment, Shutdown, Abort, DropHandle, Reports, StoreAbort, SendReport
  <2>2. CASE Supervisor
    BY <2>2 DEF Supervisor, DrainEvent, EventsDrained, DrainFailure, CloseLinks, ScaleUp,
       ScaleDown, NoScale, CheckExit, StopParked, JoinWorkers, OnStarted, OnParked,
       OnMerged, OnFailed, HandOver, Raise
  <2>3. CASE \E v \in Worker : Steps(v) \/ Exits(v) \/ Panic(v)
    BY <2>3, WorkerFrames
  <2>4. CASE UNCHANGED vars
    BY <2>4 DEF vars
  <2> QED
    BY <2>1, <2>2, <2>3, <2>4 DEF Next, Finished
<1>3. ASSUME NEW i \in 1..Len(events), events[i].type = "failed" PROVE FALSE
  <2>1. CASE events' = events
    BY <1>3, <2>1 DEF Quiet
  <2>2. CASE \E e \in Message : events' = Append(events, e)
    BY <1>1, <1>3, <2>2 DEF Quiet
  <2>3. CASE DrainEvent
    <3>1. i # 1
      BY <1>1, <1>3, <2>3 DEF DrainEvent, OnStarted, OnParked, OnMerged, OnFailed,
         Raise, Quiet
    <3>2. i - 1 \in 1..Len(events') /\ events'[i - 1] = events[i]
      BY <1>1, <2>3, <3>1 DEF DrainEvent
    <3> QED
      BY <1>3, <3>2 DEF Quiet
  <2>4. CASE Supervisor /\ ~DrainEvent
    BY <2>1, <2>4 DEF Supervisor, EventsDrained, DrainFailure, CloseLinks, ScaleUp,
       ScaleDown, NoScale, CheckExit, StopParked, JoinWorkers
  <2>5. CASE \E v \in Worker : Steps(v) \/ Exits(v) \/ Panic(v)
    <3>1. PICK v \in Worker : Steps(v) \/ Exits(v) \/ Panic(v)
      BY <2>5
    <3>2. events' = events \/ \E e \in Message : events' = Append(events, e)
      BY <3>1, WorkerEffect DEF Took, Moved, Left, Returned, Panicked
    <3> QED
      BY <2>1, <2>2, <3>2
  <2>6. CASE Environment
    BY <2>1, <2>6, EnvironmentFrames
  <2>7. CASE UNCHANGED vars
    BY <2>1, <2>7 DEF vars
  <2> QED
    BY <2>3, <2>4, <2>5, <2>6, <2>7 DEF Next, Finished
<1> QED
  BY <1>2, <1>3 DEF Quiet

\* Why a worker leaves its loop.
LEMMA LeaveReason ==
    ASSUME TypeOK, NEW w \in Worker, Steps(w) \/ Exits(w), Left(w), Quiet'
    PROVE  retire[w] # None \/ MayGo(job[w])
<1>0. ~abort /\ events \in Seq(Message) /\ Len(events) \in Nat
  BY WorkerFrames DEF Quiet, TypeOK
<1>1. ASSUME NEW load, NEW kept, Leave("failed", w, load, kept) PROVE FALSE
  <2>1. events' = Append(events, Event("failed", w, job[w], load, None))
    BY <1>1 DEF Leave, Post
  <2>2. /\ Len(events) + 1 \in 1..Len(events')
        /\ events'[Len(events) + 1].type = "failed"
    BY <1>0, <2>1 DEF Event
  <2> QED
    BY <2>2 DEF Quiet
<1>2. CASE \/ TakeCommand(w) \/ Start(w) \/ SwapMergeFlag(w) \/ NoMoreRequests(w)
           \/ Merge(w) \/ NotRetired(w) \/ StayInLoop(w) \/ Return(w)
  BY <1>2 DEF Left, InLoop, Running, TakeCommand, Start, SwapMergeFlag, NoMoreRequests,
     Merge, NotRetired, StayInLoop, Return, Goto, TypeOK
<1>3. CASE CheckAbort(w) \/ PollTimeout(w)
  BY <1>0, <1>3 DEF CheckAbort, PollTimeout, Left, Goto, TypeOK
<1>4. CASE FailInit(w) \/ MergeFails(w)
  BY <1>1, <1>4 DEF FailInit, MergeFails, Fail
<1>5. CASE Process(w)
  BY <1>1, <1>5 DEF Process, Fail, Left, Goto, TypeOK
<1>6. CASE RetireByCleanup(w) \/ RetireByTransfer(w)
  BY <1>6 DEF RetireByCleanup, RetireByTransfer, None
<1>7. CASE Exits(w)
  BY <1>7 DEF Exits, LeaveLoop, PollDisconnected, MayLeave, MayGo
<1> QED
  BY <1>2, <1>3, <1>4, <1>5, <1>6, <1>7 DEF Steps

LEMMA RetireFrame ==
    ASSUME TypeOK, NEW w \in Worker, Steps(w) \/ Exits(w) \/ Panic(w),
           NEW v \in Worker, retire'[v] # None
    PROVE  retire'[v] = retire[v]
<1>1. retire' = retire \/ retire' = [retire EXCEPT ![w] = None]
  BY DEF Steps, Exits, TakeCommand, Start, FailInit, CheckAbort, SwapMergeFlag,
     NoMoreRequests, Merge, MergeFails, NotRetired, RetireByCleanup, RetireByTransfer,
     Process, PollTimeout, StayInLoop, Return, LeaveLoop, PollDisconnected, Panic, mail
<1> QED
  BY <1>1 DEF TypeOK

LEMMA StaffWorker ==
    ASSUME TypeOK, RosterInv, LinksHeld, StaffInv, [Next]_vars, NEW w \in Worker,
           Steps(w) \/ Exits(w) \/ Panic(w)
    PROVE  StaffInv'
<1>1. /\ active' = active /\ pending' = pending /\ failure' = failure /\ abort' = abort
      /\ Busy' = Busy /\ Others(w)
      /\ Took(w) \/ Moved(w) \/ Left(w) \/ Returned(w) \/ Panicked(w)
  BY WorkerFrames, WorkerEffect DEF supVars, Busy
<1>2. ~MayPanic => ~Panic(w) /\ ~Panicked(w) /\ pc'[w] # "panicked"
  <2>1. ASSUME ~MayPanic PROVE ~Panicked(w) /\ pc'[w] # "panicked"
    <3>1. pc'[w] # "panicked"
      BY <2>1 DEF StaffInv, Panic, Steps, Exits, TakeCommand, Start, FailInit, CheckAbort,
         SwapMergeFlag, NoMoreRequests, Merge, MergeFails, NotRetired, RetireByCleanup,
         RetireByTransfer, Process, PollTimeout, StayInLoop, Return, LeaveLoop,
         PollDisconnected, GracefulExit, Cleanup, ParkOnAbort, Fail, Leave, Goto, TypeOK
    <3> QED
      BY <3>1 DEF Panicked
  <2> QED
    BY <2>1 DEF Panic
<1>3. ~MayPanic => \A v \in Worker : pc'[v] # "panicked"
  BY <1>1, <1>2 DEF Others, StaffInv
<1>4. ASSUME Quiet' PROVE Serving' /\ AskedOnce' /\ Staffed'
  <2>1. Serving /\ AskedOnce /\ Staffed /\ ~MayPanic
    BY <1>4, QuietBefore DEF StaffInv, Quiet
  <2>2. \A v \in Worker : Retires(v)' <=> Retires(v)
    BY <1>1 DEF Retires
  <2>3. \A n \in Node : MayGo(n) => MayGo(n)'
    BY LeaveHolds
  <2>4. \A v \in Busy : active[v] \in Node
    BY DEF Busy, TypeOK
  <2>5. ASSUME NEW v \in Busy, Working(v)
        PROVE  Working(v)' \/ Retires(v) \/ MayGo(active[v])
    <3>1. CASE v # w
      BY <1>1, <2>5, <3>1 DEF Others, Working, Busy
    <3>2. CASE v = w /\ (Moved(w) \/ Returned(w))
      BY <2>5, <3>2 DEF Moved, Returned, Working, InLoop
    <3>3. CASE v = w /\ Took(w)
      <4>1. Waiting(w)
        BY <3>3 DEF RosterInv, Stage, Busy, Waiting, Looping, Gone, Lost, Took, InLoop,
           Running
      <4>2. Head(cmd[w]) # Stop
        BY <4>1, NodesAssumption DEF Waiting, TypeOK, None, Stop
      <4> QED
        BY <3>3, <4>2 DEF Took, Working, Running
    <3>4. CASE v = w /\ Left(w)
      <4>1. job[w] = active[w]
        BY <3>4 DEF RosterInv, Stage, Busy, Waiting, Looping, Gone, Lost, Left, InLoop,
           Running
      <4>2. retire[w] # None \/ MayGo(job[w])
        <5>1. Steps(w) \/ Exits(w)
          BY <1>2, <2>1
        <5>2. Left(w)
          BY <3>4
        <5> QED
          BY <1>4, <5>1, <5>2, LeaveReason
      <4> QED
        BY <2>1, <3>4, <4>1, <4>2 DEF AskedOnce
    <3>5. ~Panicked(w)
      BY <1>2, <2>1
    <3>6. Took(w) \/ Moved(w) \/ Left(w) \/ Returned(w) \/ Panicked(w)
      BY WorkerEffect
    <3> QED
      BY <3>1, <3>2, <3>3, <3>4, <3>5, <3>6, Zenon
  <2>6. Serving'
    <3>1. Busy' = Busy /\ active' = active
      BY <1>1
    <3>2. ASSUME NEW v \in Busy PROVE (Working(v) \/ Retires(v) \/ MayGo(active[v]))'
      <4>1. v \in Worker /\ active[v] \in Node
        BY <2>4 DEF Busy
      <4>2. Retires(v) => Retires(v)'
        BY <2>2, <4>1
      <4>3. MayGo(active[v]) => MayGo(active[v])'
        BY <2>3, <3>1, <4>1
      <4>4. Working(v) \/ Retires(v) \/ MayGo(active[v])
        BY <2>1 DEF Serving
      <4>5. Working(v)' \/ Retires(v)' \/ MayGo(active[v])'
        BY <2>5, <4>2, <4>3, <4>4
      <4> QED
        BY <3>1, <4>5
    <3> QED
      BY <3>1, <3>2 DEF Serving
  <2>7. AskedOnce'
    <3>1. \A v \in Busy : v \in Worker
      BY DEF Busy
    <3> QED
      BY <1>1, <2>1, <2>2, <3>1, RetireFrame DEF AskedOnce
  <2>8. Staffed'
    <3>1. \A n \in Node : Staff(n)' = Staff(n) /\ Staff(n) \subseteq Worker
      BY <1>1 DEF Staff
    <3> QED
      BY <2>1, <2>2, <2>3, <3>1 DEF Staffed
  <2> QED
    BY <2>6, <2>7, <2>8
<1> QED
  BY <1>1, <1>3, <1>4 DEF StaffInv

\* A step that changes no slot, no command, no retire control and no operation.
LEMMA StaffQuiet ==
    ASSUME TypeOK, LinksHeld, StaffInv, [Next]_vars,
           UNCHANGED <<active, pc, retire>>,
           \A w \in Busy : cmd'[w] = cmd[w],
           \A w \in Worker : Retires(w)' <=> Retires(w),
           failure' # None => abort'
    PROVE  StaffInv'
<1>1. Quiet' => Serving /\ AskedOnce /\ Staffed
  BY QuietBefore DEF StaffInv
<1>2. \A n \in Node : /\ MayGo(n) => MayGo(n)'
                      /\ Staff(n)' = Staff(n) /\ Staff(n) \subseteq Worker
  BY LeaveHolds DEF Staff
<1>3. Busy' = Busy /\ \A w \in Busy : w \in Worker /\ active[w] \in Node
  BY DEF Busy, TypeOK
<1>4. Serving => Serving'
  BY <1>2, <1>3 DEF Serving, Working
<1>5. AskedOnce => AskedOnce'
  BY <1>3 DEF AskedOnce
<1>6. Staffed => Staffed'
  BY <1>2 DEF Staffed
<1> QED
  BY <1>1, <1>4, <1>5, <1>6 DEF StaffInv

LEMMA StaffDrain ==
    ASSUME TypeOK, RosterInv, LinksHeld, MergeInv, StaffInv, [Next]_vars, DrainEvent
    PROVE  StaffInv'
<1> PICK e \in {Head(events)} : TRUE
  OBVIOUS
<1> PICK w \in {e.worker} : TRUE
  OBVIOUS
<1>0. /\ OnStarted(e) \/ OnParked(e) \/ OnMerged(e) \/ OnFailed(e)
      /\ pc' = pc /\ cmd' = cmd /\ retire' = retire
  BY DEF DrainEvent, SupervisorFrame
<1>1. failure' # None => abort'
  BY <1>0 DEF OnStarted, OnParked, OnMerged, OnFailed, HandOver, Raise, StaffInv
<1>2. CASE OnStarted(e) \/ OnMerged(e)
  <2>1. active' = active
    BY <1>2 DEF OnStarted, OnMerged
  <2>2. ASSUME NEW v \in Worker PROVE Retires(v)' <=> Retires(v)
    <3>1. pending' = pending \/ (pending' = NoOp /\ (pending.kind = "add" \/ pending.waiting))
      BY <1>2 DEF OnStarted, OnMerged, Settle
    <3> QED
      BY <3>1 DEF Retires, NoOp, None
  <2> QED
    BY <1>0, <1>1, <2>1, <2>2, StaffQuiet
<1>3. CASE OnFailed(e)
  <2>1. abort'
    BY <1>3 DEF OnFailed, Raise
  <2> QED
    BY <1>0, <2>1 DEF StaffInv, Quiet
<1>4. CASE OnParked(e)
  <2>1. /\ w \in Worker /\ w \in Busy /\ Gone(w)
        /\ active'[w] = None /\ \A v \in Worker \ {w} : active'[v] = active[v]
        /\ Busy' = Busy \ {w}
    BY <1>4, Leaves
  <2>2. ASSUME Quiet' PROVE Serving' /\ AskedOnce' /\ Staffed'
    <3>1. Serving /\ AskedOnce /\ Staffed
      BY <2>2, QuietBefore DEF StaffInv
    <3>2. /\ \A v \in Worker \ {w} : Retires(v)' <=> Retires(v)
          /\ Retires(w) => \A v \in Worker : ~Retires(v)'
      <4>1. CASE ~Retires(w)
        BY <1>4, <4>1 DEF OnParked, Retires
      <4>2. CASE Retires(w) /\ pending.kind = "remove"
        <5>1. pending' = NoOp
          BY <1>4, <4>2 DEF OnParked, Settle
        <5> QED
          BY <4>2, <5>1 DEF Retires, NoOp, None
      <4>3. CASE Retires(w) /\ pending.kind = "merge"
        <5>1. HandOver(e) /\ ~abort'
          BY <1>4, <2>2, <4>3 DEF OnParked, Quiet
        <5>2. pending' = [pending EXCEPT !.rx = FALSE, !.waiting = TRUE]
          BY <5>1 DEF HandOver, Raise
        <5>3. pending'.waiting
          BY <5>2 DEF TypeOK, Operation
        <5> QED
          BY <4>3, <5>3 DEF Retires
      <4> QED
        BY <4>1, <4>2, <4>3 DEF Retires
    <3>3. \A n \in Node : MayGo(n) => MayGo(n)'
      BY LeaveHolds
    <3>4. \A v \in Busy : v \in Worker /\ active[v] \in Node
      BY DEF Busy, TypeOK
    <3>5. Serving'
      BY <1>0, <2>1, <3>1, <3>2, <3>3, <3>4 DEF Serving, Working
    <3>6. AskedOnce'
      BY <1>0, <2>1, <3>1, <3>2, <3>4 DEF AskedOnce
    <3>7. Staffed'
      <4> SUFFICES ASSUME NEW n \in Node \ External, ~MayGo(n)'
                   PROVE  \E v \in Staff(n)' : ~Retires(v)'
        BY DEF Staffed
      <4>1. PICK v \in Staff(n) : ~Retires(v)
        BY <3>1, <3>3 DEF Staffed
      <4>2. v \in Worker /\ active[v] = n /\ n # None
        BY NodesAssumption DEF Staff
      <4>3. v # w
        <5>1. ASSUME v = w PROVE FALSE
          <6>1. ~Working(w)
            BY <2>1 DEF Gone, Working, Running
          <6>2. Retires(w) \/ MayGo(n)
            BY <2>1, <3>1, <4>2, <5>1, <6>1 DEF Serving
          <6> QED
            BY <3>3, <4>1, <5>1, <6>2
        <5> QED
          BY <5>1
      <4>4. v \in Staff(n)' /\ ~Retires(v)'
        BY <2>1, <3>2, <4>1, <4>2, <4>3 DEF Staff
      <4> QED
        BY <4>4
    <3> QED
      BY <3>5, <3>6, <3>7
  <2> QED
    BY <1>0, <1>1, <2>2 DEF StaffInv
<1> QED
  BY <1>0, <1>2, <1>3, <1>4

\* No worker is retiring when a scale operation begins.
LEMMA StaffUp ==
    ASSUME TypeOK, RosterInv, LinksHeld, StaffInv, ScaleUp, Quiet', [Next]_vars
    PROVE  Serving' /\ AskedOnce' /\ Staffed'
<1>1. PICK n \in Node, w \in Worker, fresh \in SUBSET (Worker \ spawned) :
         /\ n \in Elastic
         /\ IF parked # {} THEN w \in parked ELSE w \in fresh
         /\ Assign(w, n)
         /\ pending' = [NoOp EXCEPT !.kind = "add", !.src = w, !.node = n]
  BY DEF ScaleUp, CanScale
<1>2. Serving /\ AskedOnce /\ Staffed
  BY QuietBefore DEF StaffInv
<1>3. \A v : ~Retires(v) /\ ~Retires(v)'
  BY <1>1 DEF ScaleUp, MayScale, Retires, NoOp, None
<1>4. w \notin Busy /\ active[w] = None
  BY <1>1 DEF RosterInv, ScaleUp, TypeOK, Busy
<1>5. cmd[w] = <<>>
  BY <1>4 DEF RosterInv, Stage, Off, ScaleUp
<1>6. /\ active'[w] = n /\ n # None /\ n # Stop /\ cmd'[w] = <<n>> /\ retire'[w] = None
      /\ \A v \in Worker \ {w} : /\ active'[v] = active[v] /\ cmd'[v] = cmd[v]
                                 /\ retire'[v] = retire[v]
      /\ pc' = pc
  <2>1. n \in Node /\ n # None /\ n # Stop
    BY <1>1, NodesAssumption DEF Elastic
  <2>2. cmd'[w] = Append(<<>>, n)
    BY <1>1, <1>5 DEF Assign, TypeOK
  <2>3. Append(<<>>, n) = <<n>>
    BY SMT
  <2>4. /\ active'[w] = n /\ retire'[w] = None
        /\ \A v \in Worker \ {w} : /\ active'[v] = active[v] /\ cmd'[v] = cmd[v]
                                   /\ retire'[v] = retire[v]
    BY <1>1 DEF Assign, TypeOK
  <2>5. pc' = pc
    BY DEF ScaleUp, SupervisorFrame
  <2> QED
    BY <2>1, <2>2, <2>3, <2>4, <2>5
<1>7. Working(w)'
  BY <1>6 DEF Working
<1>8. ASSUME NEW v \in Busy', v # w
      PROVE  /\ v \in Worker \ {w} /\ v \in Busy /\ active'[v] = active[v]
             /\ active[v] \in Node
  BY <1>6, <1>8 DEF Busy, TypeOK
<1>9. \A m \in Node : MayGo(m) => MayGo(m)'
  BY LeaveHolds
<1>10. Serving'
  <2> SUFFICES ASSUME NEW v \in Busy', v # w PROVE Working(v)' \/ MayGo(active[v])'
    BY <1>7 DEF Serving
  <2>1. Working(v) => Working(v)'
    BY <1>6, <1>8 DEF Working
  <2>2. MayGo(active[v]) => MayGo(active[v])'
    BY <1>8, <1>9
  <2> QED
    BY <1>2, <1>3, <1>8, <2>1, <2>2 DEF Serving
<1>11. AskedOnce'
  <2> SUFFICES ASSUME NEW v \in Busy' PROVE retire'[v] = None
    BY DEF AskedOnce
  <2> QED
    BY <1>2, <1>3, <1>6, <1>8 DEF AskedOnce
<1>12. Staffed'
  <2> SUFFICES ASSUME NEW m \in Node \ External, ~MayGo(m)'
               PROVE  \E v \in Staff(m)' : ~Retires(v)'
    BY DEF Staffed
  <2>1. PICK v \in Staff(m) : ~Retires(v)
    BY <1>2, <1>9 DEF Staffed
  <2>2. v \in Worker \ {w}
    BY <1>4, NodesAssumption DEF Staff
  <2>3. v \in Staff(m)'
    BY <1>6, <2>2 DEF Staff
  <2> QED
    BY <1>3, <2>3
<1> QED
  BY <1>10, <1>11, <1>12

\* Scaling down asks one worker of a node that has another.
LEMMA StaffDown ==
    ASSUME TypeOK, RosterInv, LinksHeld, StaffInv, ScaleDown, Quiet', [Next]_vars
    PROVE  Serving' /\ AskedOnce' /\ Staffed'
<1>1. PICK n \in Node, w \in Worker :
         /\ active[w] = n /\ Shrinkable(n)
         /\ \/ \E dst \in Staff(n) \ {w} :
                 /\ retire' = [retire EXCEPT ![w] = "transfer"]
                 /\ pending' = [kind |-> "merge", src |-> w, dst |-> dst,
                                node |-> n, rx |-> TRUE, waiting |-> FALSE]
            \/ /\ retire' = [retire EXCEPT ![w] = "cleanup"]
               /\ pending' = [NoOp EXCEPT !.kind = "remove", !.src = w, !.node = n]
  BY DEF ScaleDown
<1>2. Serving /\ AskedOnce /\ Staffed
  BY QuietBefore DEF StaffInv
<1>3. \A v : ~Retires(v)
  BY DEF ScaleDown, MayScale, Retires, None
<1>4. /\ Retires(w)' /\ \A v \in Worker \ {w} : ~Retires(v)'
      /\ \A v \in Worker \ {w} : retire'[v] = retire[v]
  <2>1. \A v \in Worker \ {w} : retire'[v] = retire[v]
    BY <1>1 DEF TypeOK
  <2>2. pending'.kind \in {"remove", "merge"} /\ pending'.src = w /\ ~pending'.waiting
    <3>1. CASE pending' = [NoOp EXCEPT !.kind = "remove", !.src = w, !.node = n]
      BY <3>1 DEF NoOp
    <3>2. CASE \E dst \in Staff(n) :
                  pending' = [kind |-> "merge", src |-> w, dst |-> dst,
                              node |-> n, rx |-> TRUE, waiting |-> FALSE]
      BY <3>2
    <3> QED
      BY <1>1, <3>1, <3>2
  <2> QED
    BY <2>1, <2>2 DEF Retires
<1>5. /\ active' = active /\ cmd' = cmd /\ pc' = pc /\ Busy' = Busy
      /\ \A v \in Busy : v \in Worker /\ active[v] \in Node
  BY DEF ScaleDown, SupervisorFrame, Busy, TypeOK
<1>6. \A m \in Node : MayGo(m) => MayGo(m)' /\ Staff(m)' = Staff(m)
  BY <1>5, LeaveHolds DEF Staff
<1>7. Serving'
  <2> SUFFICES ASSUME NEW v \in Busy PROVE Working(v)' \/ MayGo(active[v])'
    BY <1>5 DEF Serving
  <2>1. Working(v) => Working(v)'
    BY <1>5 DEF Working
  <2>2. MayGo(active[v]) => MayGo(active[v])'
    BY <1>5, <1>6
  <2> QED
    BY <1>2, <1>3, <2>1, <2>2 DEF Serving
<1>8. AskedOnce'
  <2> SUFFICES ASSUME NEW v \in Busy, v # w PROVE retire'[v] = None
    BY <1>4, <1>5 DEF AskedOnce
  <2> QED
    BY <1>2, <1>3, <1>4, <1>5 DEF AskedOnce
<1>9. Staffed'
  <2> SUFFICES ASSUME NEW m \in Node \ External, ~MayGo(m)'
               PROVE  \E v \in Staff(m)' : v \in Worker \ {w}
    BY <1>4 DEF Staffed
  <2>1. \A v \in Staff(m) : v \in Worker /\ active[v] = m
    BY DEF Staff
  <2>2. CASE m # n
    <3>1. \E v \in Staff(m) : v \in Worker \ {w}
      BY <1>1, <1>2, <1>6, <2>1, <2>2 DEF Staffed
    <3> QED
      BY <1>5, <3>1 DEF Staff
  <2>3. CASE m = n
    <3>0. Cardinality({w}) = 1 /\ Cardinality({}) = 0 /\ Cardinality(Staff(n)) > 1
      BY <1>1, FS_Singleton, FS_EmptySet DEF Shrinkable
    <3>1. Staff(n) # {w} /\ Staff(n) # {}
      BY <3>0
    <3>2. \E v \in Staff(n) : v \in Worker \ {w}
      BY <2>1, <2>3, <3>1
    <3> QED
      BY <1>5, <2>3, <3>2 DEF Staff
  <2> QED
    BY <2>2, <2>3
<1> QED
  BY <1>7, <1>8, <1>9

LEMMA StaffStep ==
    ASSUME TypeOK, RosterInv, LinksHeld, MergeInv, StaffInv, [Next]_vars
    PROVE  StaffInv'
<1>1. CASE ScaleUp \/ ScaleDown
  <2>1. abort' = abort /\ failure' = failure /\ pc' = pc
    BY <1>1 DEF ScaleUp, ScaleDown, SupervisorFrame
  <2> QED
    BY <1>1, <2>1, StaffUp, StaffDown DEF StaffInv
<1>2. CASE DrainEvent
  BY <1>2, StaffDrain
<1>3. CASE Supervisor /\ ~DrainEvent /\ ~ScaleUp /\ ~ScaleDown
  <2>1. UNCHANGED <<active, pc, retire, pending>>
    BY <1>3 DEF Supervisor, EventsDrained, DrainFailure, CloseLinks, NoScale, CheckExit,
       StopParked, JoinWorkers, SupervisorFrame, mail, roster
  <2>2. \A w \in Busy : cmd'[w] = cmd[w]
    BY <1>3 DEF Supervisor, EventsDrained, DrainFailure, CloseLinks, NoScale, CheckExit,
       StopParked, JoinWorkers, SupervisorFrame, mail, Busy, RosterInv
  <2>3. failure' # None => abort'
    BY <1>3 DEF Supervisor, EventsDrained, DrainFailure, Raise, CloseLinks, NoScale,
       CheckExit, StopParked, JoinWorkers, StaffInv
  <2> QED
    BY <2>1, <2>2, <2>3, StaffQuiet DEF Retires
<1>4. CASE \E w \in Worker : Steps(w) \/ Exits(w) \/ Panic(w)
  BY <1>4, StaffWorker
<1>5. CASE Environment
  <2>1. abort => abort'
    BY <1>5 DEF Environment, Shutdown, Abort, DropHandle, Reports, StoreAbort, SendReport
  <2> QED
    BY <1>5, <2>1, EnvironmentFrames, StaffQuiet DEF supVars, workVars, Retires, StaffInv
<1>6. CASE UNCHANGED vars
  BY <1>6, StaffQuiet DEF vars, supVars, workVars, Retires, StaffInv
<1> QED
  BY <1>1, <1>2, <1>3, <1>4, <1>5, <1>6 DEF Next, Finished

LEMMA StaffCorrect == Spec => [](TypeOK /\ RosterInv /\ LinksHeld /\ MergeInv /\ StaffInv)
<1>1. /\ TypeOK /\ RosterInv /\ LinksHeld /\ MergeInv /\ StaffInv
      /\ [Next]_vars
      => (TypeOK /\ RosterInv /\ LinksHeld /\ MergeInv /\ StaffInv)'
  BY TypeStep, RosterStep, LinksStep, MergeStep, StaffStep
<1> QED
  BY TypeInit, RosterInit, LinksInit, MergeInit, StaffInit, <1>1, PTL DEF Spec

\* Until a node may be left, one of its workers works and was not asked to
\* retire.
LEMMA StillServed ==
    ASSUME TypeOK, StaffInv, Quiet, NEW n \in Node \ External, ~MayGo(n)
    PROVE  \E w \in Staff(n) : Working(w) /\ ~Retires(w)
<1>1. PICK w \in Staff(n) : ~Retires(w)
  BY DEF StaffInv, Staffed
<1>2. w \in Busy /\ active[w] = n
  BY NodesAssumption DEF Staff, Busy
<1> QED
  BY <1>1, <1>2 DEF StaffInv, Serving

\* Scaling down never leaves a node without a worker: until the pipeline is told
\* to stop, every managed node has a worker that works and was not asked to retire.
THEOREM NodesStayStaffed == Spec => []NodesStaffed
<1>1. TypeOK /\ RosterInv /\ LinksHeld /\ MergeInv /\ StaffInv => NodesStaffed
  <2> SUFFICES ASSUME TypeOK, RosterInv, LinksHeld, MergeInv, StaffInv, ~Stopping, Quiet,
                      NEW n \in Node \ External
               PROVE  \E w \in Staff(n) :
                         Working(w) /\ (pending.kind = "add" \/ w # pending.src)
    BY DEF NodesStaffed, Quiet, Stopping
  <2>1. ~MayGo(n)
    BY DEF LinksHeld, Stopping, MayGo, Disconnected
  <2>2. PICK w \in Staff(n) : Working(w) /\ ~Retires(w)
    BY <2>1, StillServed
  <2>3. w \in Busy /\ w \in Worker
    BY NodesAssumption DEF Staff, Busy
  <2>4. pending.kind = "add" \/ w # pending.src
    BY <2>2, <2>3, NodesAssumption
       DEF MergeInv, PendingInv, Retires, TypeOK, Operation, None
  <2> QED
    BY <2>2, <2>4
<1> QED
  BY StaffCorrect, <1>1, PTL

\* Graceful shutdown closes the graph from the input on: while a producer of a
\* standard link can still send, some worker of the consuming node works.
THEOREM ConsumersStay == Spec => []ConsumersOutlive
<1>1. TypeOK /\ StaffInv => ConsumersOutlive
  <2> SUFFICES ASSUME TypeOK, StaffInv, Quiet,
                      NEW n \in Node \ (External \cup Input \cup Feeder),
                      NEW m \in Feeds[n], CanSend(m)
               PROVE  \E w \in Staff(n) : Working(w)
    BY DEF ConsumersOutlive, Quiet
  <2>1. ~MayGo(n)
    BY DEF MayGo, Disconnected, CanSend
  <2> QED
    BY <2>1, StillServed
<1> QED
  BY StaffCorrect, <1>1, PTL

-----------------------------------------------------------------------------
(* No user state is lost.                                                  *)

LEMMA UnitsFinite ==
    ASSUME NEW S, IsFiniteSet(S), NEW f \in [S -> Nat]
    PROVE  IsFiniteSet(Units(f)) /\ Total(f) \in Nat
<1> DEFINE g == [i \in S |-> {i} \X (1..f[i])]
           T == {g[i] : i \in S}
<1>1. \A i \in S : IsFiniteSet(g[i])
  <2> SUFFICES ASSUME NEW i \in S PROVE IsFiniteSet({i} \X (1..f[i]))
    OBVIOUS
  <2>1. IsFiniteSet({i})
    BY FS_Singleton
  <2>2. f[i] \in Int /\ 1 \in Int
    OBVIOUS
  <2>3. IsFiniteSet(1..f[i])
    BY <2>2, FS_Interval
  <2> QED
    BY <2>1, <2>3, FS_Product
<1>2. g \in Surjection(S, T)
  BY DEF Surjection
<1>3. Units(f) = UNION T
  BY DEF Units
<1> HIDE DEF g
<1>4. IsFiniteSet(T)
  BY <1>2, FS_Surjection
<1>5. IsFiniteSet(UNION T)
  BY <1>1, <1>4, FS_UNION
<1> QED
  BY <1>3, <1>5, FS_CardinalityType DEF Total

\* g has one argument more than f.
Extends(g, f, S, k) ==
    /\ IsFiniteSet(S) /\ k \notin S
    /\ f \in [S -> Nat] /\ g \in [S \cup {k} -> Nat]
    /\ \A i \in S : g[i] = f[i]

LEMMA TotalExtended ==
    ASSUME NEW S, NEW k, NEW f, NEW g, Extends(g, f, S, k)
    PROVE  Total(g) = Total(f) + g[k]
<1> USE DEF Extends
<1> DEFINE U == {k} \X (1..g[k])
<1>1. Units(g) = Units(f) \cup U /\ Units(f) \cap U = {}
  BY DEF Units
<1>2. IsFiniteSet(Units(f)) /\ Total(f) \in Nat
  BY UnitsFinite
<1>3. g[k] \in Nat
  OBVIOUS
<1>4. IsFiniteSet(1..g[k]) /\ Cardinality(1..g[k]) = g[k]
  <2>1. g[k] \in Int /\ 1 \in Int
    BY <1>3
  <2>2. /\ IsFiniteSet(1..g[k])
        /\ Cardinality(1..g[k]) = IF 1 > g[k] THEN 0 ELSE g[k] - 1 + 1
    BY <2>1, FS_Interval
  <2> QED
    BY <1>3, <2>2
<1>5. IsFiniteSet({k}) /\ Cardinality({k}) = 1
  BY FS_Singleton
<1>6. IsFiniteSet(U) /\ Cardinality(U) = g[k]
  <2>1. IsFiniteSet(U) /\ Cardinality(U) = Cardinality({k}) * Cardinality(1..g[k])
    BY <1>4, <1>5, FS_Product
  <2>2. Cardinality({k}) * Cardinality(1..g[k]) = 1 * g[k]
    BY <1>4, <1>5
  <2>3. 1 * g[k] = g[k]
    BY <1>3
  <2> QED
    BY <2>1, <2>2, <2>3
<1>7. Cardinality({}) = 0
  BY FS_EmptySet
<1>8. Cardinality(Units(f) \cup U)
        = Cardinality(Units(f)) + Cardinality(U) - Cardinality(Units(f) \cap U)
  BY <1>2, <1>6, FS_Union
<1>9. Cardinality(Units(g)) = Cardinality(Units(f)) + g[k] - 0
  BY <1>1, <1>6, <1>7, <1>8
<1> QED
  BY <1>2, <1>3, <1>9 DEF Total

LEMMA TotalUpdated ==
    ASSUME NEW S, IsFiniteSet(S), NEW k \in S, NEW f \in [S -> Nat],
           NEW g \in [S -> Nat], \A i \in S \ {k} : g[i] = f[i]
    PROVE  Total(g) = Total(f) - f[k] + g[k]
<1> DEFINE R == S \ {k}
           h == [i \in R |-> f[i]]
<1>1. IsFiniteSet(R) /\ R \cup {k} = S /\ h \in [R -> Nat]
  BY FS_RemoveElement
<1>2. Extends(f, h, R, k) /\ Extends(g, h, R, k)
  BY <1>1 DEF Extends
<1> HIDE DEF R, h
<1>3. Total(f) = Total(h) + f[k] /\ Total(g) = Total(h) + g[k]
  BY <1>2, TotalExtended
<1>4. Total(h) \in Nat /\ f[k] \in Nat /\ g[k] \in Nat
  BY <1>1, UnitsFinite
<1> QED
  BY <1>3, <1>4

Loads(s) == [i \in 1..Len(s) |-> s[i].load]

LEMMA LoadsTotal ==
    ASSUME NEW s \in Seq(Message)
    PROVE  /\ IsFiniteSet(1..Len(s)) /\ Loads(s) \in [1..Len(s) -> Nat]
           /\ Total(Loads(s)) \in Nat
<1>1. Loads(s) \in [1..Len(s) -> Nat]
  <2>1. \A i \in 1..Len(s) : s[i] \in Message
    OBVIOUS
  <2>2. \A e \in Message : e.load \in Nat
    BY DEF Message
  <2> QED
    BY <2>1, <2>2 DEF Loads
<1>2. IsFiniteSet(1..Len(s))
  <2>1. Len(s) \in Int /\ 1 \in Int
    OBVIOUS
  <2> QED
    BY <2>1, FS_Interval
<1> QED
  BY <1>1, <1>2, UnitsFinite

LEMMA LoadsAppended ==
    ASSUME NEW s \in Seq(Message), NEW e \in Message
    PROVE  Total(Loads(Append(s, e))) = Total(Loads(s)) + e.load
<1> DEFINE t == Append(s, e)
           k == Len(s) + 1
<1>1. /\ t \in Seq(Message) /\ Len(t) = k /\ Len(s) \in Nat /\ t[k] = e
      /\ \A i \in 1..Len(s) : t[i] = s[i]
  OBVIOUS
<1> HIDE DEF t
<1>2. k \notin 1..Len(s) /\ 1..Len(t) = (1..Len(s)) \cup {k}
  BY <1>1
<1>3. Loads(t) \in [(1..Len(s)) \cup {k} -> Nat] /\ Loads(t)[k] = e.load
  BY <1>1, <1>2, LoadsTotal DEF Loads
<1>4. \A i \in 1..Len(s) : Loads(t)[i] = Loads(s)[i]
  BY <1>1, <1>2 DEF Loads
<1>5. Total(Loads(t)) = Total(Loads(s)) + Loads(t)[k]
  <2>1. Extends(Loads(t), Loads(s), 1..Len(s), k)
    BY <1>2, <1>3, <1>4, LoadsTotal DEF Extends
  <2> QED
    BY <2>1, TotalExtended
<1> QED
  BY <1>3, <1>5 DEF t

LEMMA LoadsTailed ==
    ASSUME NEW s \in Seq(Message), s # <<>>
    PROVE  Total(Loads(s)) = Head(s).load + Total(Loads(Tail(s)))
<1> DEFINE t == Tail(s)
           S == 2..Len(s)
           h == [i \in S |-> s[i].load]
           b == [u \in Units(h) |-> <<u[1] - 1, u[2]>>]
<1>1. /\ t \in Seq(Message) /\ Len(s) \in Nat \ {0} /\ Len(t) = Len(s) - 1
      /\ Head(s) = s[1] /\ \A i \in 1..Len(t) : t[i] = s[i + 1]
  OBVIOUS
<1> HIDE DEF t
<1>2. 1 \notin S /\ S \cup {1} = 1..Len(s)
  BY <1>1
<1>3. IsFiniteSet(S) /\ h \in [S -> Nat]
  <2>1. Len(s) \in Int /\ 2 \in Int
    BY <1>1
  <2>2. \A i \in S : s[i] \in Message
    BY <1>1
  <2>3. \A e \in Message : e.load \in Nat
    BY DEF Message
  <2>4. h \in [S -> Nat]
    BY <2>2, <2>3
  <2> QED
    BY <2>1, <2>4, FS_Interval
<1>4. /\ Loads(s) \in [S \cup {1} -> Nat]
      /\ \A i \in S : Loads(s)[i] = h[i]
      /\ Loads(s)[1] = Head(s).load
  BY <1>1, <1>2, LoadsTotal DEF Loads
<1>5. Total(Loads(s)) = Total(h) + Head(s).load
  <2>1. Extends(Loads(s), h, S, 1)
    BY <1>2, <1>3, <1>4 DEF Extends
  <2> HIDE DEF S, h
  <2> QED
    BY <1>4, <2>1, TotalExtended
<1>6. \A i \in S : i - 1 \in 1..Len(t) /\ Loads(t)[i - 1] = h[i]
  BY <1>1 DEF Loads
<1>7. \A j \in 1..Len(t) : j + 1 \in S /\ Loads(t)[j] = h[j + 1] /\ (j + 1) - 1 = j
  BY <1>1 DEF Loads
<1>8. /\ \A u : u \in Units(h) <=> \E i \in S : \E n \in 1..h[i] : u = <<i, n>>
      /\ \A u : u \in Units(Loads(t)) <=>
                  \E j \in 1..Len(t) : \E n \in 1..Loads(t)[j] : u = <<j, n>>
  <2>1. DOMAIN h = S /\ DOMAIN Loads(t) = 1..Len(t)
    BY DEF Loads
  <2> HIDE DEF h, S
  <2> QED
    BY <2>1 DEF Units
<1>9. b \in Bijection(Units(h), Units(Loads(t)))
  <2>0. S \subseteq Int
    OBVIOUS
  <2> HIDE DEF h, S
  <2>1. \A u \in Units(h) : b[u] \in Units(Loads(t))
    BY <1>6, <1>8
  <2>2. ASSUME NEW u \in Units(h), NEW v \in Units(h), b[u] = b[v] PROVE u = v
    <3>1. PICK i \in S : \E n \in 1..h[i] : u = <<i, n>>
      BY <1>8
    <3>2. PICK j \in S : \E m \in 1..h[j] : v = <<j, m>>
      BY <1>8
    <3>3. u = <<i, u[2]>> /\ v = <<j, v[2]>>
      BY <3>1, <3>2
    <3>4. <<i - 1, u[2]>> = <<j - 1, v[2]>>
      BY <2>2, <3>3
    <3>5. i - 1 = j - 1 /\ u[2] = v[2]
      BY <3>4
    <3> QED
      BY <2>0, <3>1, <3>2, <3>3, <3>5
  <2>3. ASSUME NEW v \in Units(Loads(t)) PROVE \E u \in Units(h) : b[u] = v
    <3>1. PICK j \in 1..Len(t) : \E n \in 1..Loads(t)[j] : v = <<j, n>>
      BY <1>8
    <3> PICK n \in 1..Loads(t)[j] : v = <<j, n>>
      BY <3>1
    <3>2. <<j + 1, n>> \in Units(h)
      BY <1>7, <1>8, <3>1
    <3>3. b[<<j + 1, n>>] = <<j, n>>
      BY <1>7, <3>2
    <3> QED
      BY <3>2, <3>3
  <2>4. b \in [Units(h) -> Units(Loads(t))]
    BY <2>1
  <2>5. b \in Injection(Units(h), Units(Loads(t)))
    BY <2>2, <2>4 DEF Injection, IsInjective
  <2>6. b \in Surjection(Units(h), Units(Loads(t)))
    BY <2>3, <2>4 DEF Surjection
  <2> QED
    BY <2>5, <2>6 DEF Bijection
<1>10. Total(Loads(t)) = Total(h) /\ Total(h) \in Nat
  <2>1. IsFiniteSet(Units(h)) /\ Total(h) \in Nat
    <3> HIDE DEF h, S
    <3> QED
      BY <1>3, UnitsFinite
  <2>2. ExistsBijection(Units(h), Units(Loads(t)))
    BY <1>9 DEF ExistsBijection
  <2> DEFINE P == Units(h)
             Q == Units(Loads(t))
  <2> HIDE DEF P, Q
  <2>3. Cardinality(Q) = Cardinality(P)
    <3>1. IsFiniteSet(P) /\ ExistsBijection(P, Q)
      BY <2>1, <2>2 DEF P, Q
    <3> QED
      BY <3>1, FS_Bijection
  <2> QED
    BY <2>1, <2>3 DEF Total, P, Q
<1>11. Head(s).load \in Nat
  <2>1. Head(s) \in Message
    OBVIOUS
  <2> QED
    BY <2>1 DEF Message
<1> QED
  BY <1>5, <1>10, <1>11 DEF t

\* A transfer that is not full carries nothing, as does a state that is not
\* initialised yet, and an event that returns no state.
LoadInv ==
    /\ \A w \in Worker :
         /\ chan[w].st # "full" => chan[w].load = 0
         /\ retire[w] = "transfer" => chan[w].st # "full"
         /\ pc[w] \in {"idle", "init"} => carried[w] = 0
    /\ \A i \in 1..Len(events) : events[i].type # "parked" => events[i].load = 0

\* A worker that returns has given its state away; a full transfer is the one
\* of the merge in progress, and still to be taken.
HeldInv ==
    /\ \A w \in Worker : pc[w] = "returning" => carried[w] = 0
    /\ \A w \in Worker : chan[w].st = "full" =>
         /\ pending.kind = "merge" /\ pending.src = w
         /\ pending.rx \/ requests[pending.dst] # <<>>
    /\ born = StatesHeld + returned + cleaned

LedgerInv == LoadInv /\ (Quiet => HeldInv)

LEMMA LedgerInit == Init => LedgerInv
<1> SUFFICES ASSUME Init PROVE LedgerInv
  OBVIOUS
<1>1. LoadInv
  BY DEF Init, LoadInv, EmptyChan
<1>2. \A w \in Worker : pc[w] # "returning" /\ chan[w].st # "full"
  BY DEF Init, EmptyChan, None
<1>3. StatesHeld = 0
  <2>1. Units(carried) = {}
    BY DEF Init, Units
  <2>2. Units([w \in Worker |-> chan[w].load]) = {}
    BY DEF Init, Units, EmptyChan
  <2>3. Units([i \in 1..Len(events) |-> events[i].load]) = {}
    BY DEF Init, Units
  <2>4. Cardinality({}) = 0 /\ 0 + 0 + 0 = 0
    BY FS_EmptySet
  <2> QED
    BY <2>1, <2>2, <2>3, <2>4 DEF StatesHeld, Total
<1>4. born = 0 /\ returned = 0 /\ cleaned = 0
  BY DEF Init
<1> QED
  BY <1>1, <1>2, <1>3, <1>4 DEF LedgerInv, HeldInv

\* What a step does to the states that are held: it changes what w carries and
\* what the transfer of u carries, and may post an event that carries d.
Moves(w, u, d) ==
    /\ \A v \in Worker \ {w} : carried'[v] = carried[v]
    /\ \A v \in Worker \ {u} : chan'[v].load = chan[v].load
    /\ \/ d = 0 /\ events' = events
       \/ \E e \in Message : e.load = d /\ events' = Append(events, e)

ChanLoads == [w \in Worker |-> chan[w].load]

HeldSum ==
    /\ carried \in [Worker -> Nat] /\ ChanLoads \in [Worker -> Nat]
    /\ Total(carried) \in Nat /\ Total(ChanLoads) \in Nat
    /\ events \in Seq(Message) /\ Total(Loads(events)) \in Nat
    /\ StatesHeld = Total(carried) + Total(ChanLoads) + Total(Loads(events))

LEMMA HeldParts == TypeOK => HeldSum
<1> SUFFICES ASSUME TypeOK PROVE HeldSum
  OBVIOUS
<1>1. IsFiniteSet(Worker) /\ events \in Seq(Message) /\ carried \in [Worker -> Nat]
  BY NodesAssumption DEF TypeOK
<1>2. ChanLoads \in [Worker -> Nat]
  BY DEF TypeOK, StateChan, ChanLoads
<1>3. /\ Total(carried) \in Nat /\ Total(ChanLoads) \in Nat
      /\ Total(Loads(events)) \in Nat
  BY <1>1, <1>2, UnitsFinite, LoadsTotal
<1> QED
  BY <1>1, <1>2, <1>3 DEF HeldSum, StatesHeld, ChanLoads, Loads

LEMMA HeldMoves ==
    ASSUME TypeOK, TypeOK', NEW w \in Worker, NEW u \in Worker, NEW d \in Nat,
           Moves(w, u, d)
    PROVE  StatesHeld' = StatesHeld + (carried'[w] - carried[w])
                           + (chan'[u].load - chan[u].load) + d
<1>0. HeldSum /\ HeldSum'
  BY HeldParts, PTL
<1>1. /\ carried \in [Worker -> Nat] /\ carried' \in [Worker -> Nat]
      /\ ChanLoads \in [Worker -> Nat] /\ ChanLoads' \in [Worker -> Nat]
      /\ IsFiniteSet(Worker)
  BY <1>0, NodesAssumption DEF HeldSum
<1>2. Total(carried') = Total(carried) - carried[w] + carried'[w]
  BY <1>1, TotalUpdated DEF Moves
<1>3. Total(ChanLoads') = Total(ChanLoads) - chan[u].load + chan'[u].load
  <2>1. \A v \in Worker \ {u} : ChanLoads'[v] = ChanLoads[v]
    BY DEF Moves, ChanLoads
  <2>2. ChanLoads[u] = chan[u].load /\ ChanLoads'[u] = chan'[u].load
    BY DEF ChanLoads
  <2> DEFINE f == ChanLoads
             g == ChanLoads'
  <2> HIDE DEF f, g
  <2>3. Total(g) = Total(f) - f[u] + g[u]
    BY <1>1, <2>1, TotalUpdated DEF f, g
  <2> QED
    BY <2>2, <2>3 DEF f, g
<1>4. Total(Loads(events')) = Total(Loads(events)) + d
  <2>1. events \in Seq(Message) /\ Total(Loads(events)) \in Nat
    BY <1>0 DEF HeldSum
  <2>2. CASE d = 0 /\ events' = events
    BY <2>1, <2>2
  <2>3. CASE \E e \in Message : e.load = d /\ events' = Append(events, e)
    <3>1. PICK e \in Message : e.load = d /\ events' = Append(events, e)
      BY <2>3
    <3>2. Total(Loads(Append(events, e))) = Total(Loads(events)) + e.load
      BY <2>1, LoadsAppended
    <3> QED
      BY <3>1, <3>2
  <2> QED
    BY <2>2, <2>3 DEF Moves
<1>5. /\ StatesHeld = Total(carried) + Total(ChanLoads) + Total(Loads(events))
      /\ StatesHeld' = Total(carried') + Total(ChanLoads') + Total(Loads(events'))
      /\ Total(carried) \in Nat /\ Total(ChanLoads) \in Nat
      /\ Total(Loads(events)) \in Nat
  BY <1>0 DEF HeldSum
<1>6. /\ carried[w] \in Nat /\ carried'[w] \in Nat
      /\ chan[u].load \in Nat /\ chan'[u].load \in Nat
  BY DEF TypeOK, StateChan
<1> QED
  BY <1>2, <1>3, <1>4, <1>5, <1>6

\* Reading an event takes what it carries from the channel.
LEMMA HeldReads ==
    ASSUME TypeOK, TypeOK', events # <<>>, events' = Tail(events),
           carried' = carried, \A v \in Worker : chan'[v].load = chan[v].load
    PROVE  StatesHeld = Head(events).load + StatesHeld'
<1>0. HeldSum /\ HeldSum'
  BY HeldParts, PTL
<1>1. Total(Loads(events)) = Head(events).load + Total(Loads(events'))
  <2>1. events \in Seq(Message)
    BY DEF TypeOK
  <2> QED
    BY <2>1, LoadsTailed
<1>2. ChanLoads' = ChanLoads
  BY DEF ChanLoads
<1>3. /\ StatesHeld = Total(carried) + Total(ChanLoads) + Total(Loads(events))
      /\ StatesHeld' = Total(carried') + Total(ChanLoads') + Total(Loads(events'))
      /\ Total(carried) \in Nat /\ Total(ChanLoads) \in Nat
      /\ Total(Loads(events)) \in Nat /\ Total(Loads(events')) \in Nat
  BY <1>0 DEF HeldSum
<1>4. Head(events).load \in Nat
  <2>1. Head(events) \in Message
    BY DEF TypeOK
  <2> QED
    BY <2>1 DEF Message
<1> QED
  BY <1>1, <1>2, <1>3, <1>4

LEMMA NothingFailed ==
    ASSUME TypeOK, Quiet', NEW w \in Worker, NEW load, NEW kept,
           Leave("failed", w, load, kept)
    PROVE  FALSE
<1>1. events' = Append(events, Event("failed", w, job[w], load, None))
  BY DEF Leave, Post
<1>2. events \in Seq(Message) /\ Len(events) \in Nat
  BY DEF TypeOK
<1>3. /\ Len(events) + 1 \in 1..Len(events')
      /\ events'[Len(events) + 1].type = "failed"
  BY <1>1, <1>2 DEF Event
<1> QED
  BY <1>3 DEF Quiet

\* What is initialised or disposed of is what is held more or less.
Balances(w, u, d) ==
    (born' - born) - (cleaned' - cleaned)
        = (carried'[w] - carried[w]) + (chan'[u].load - chan[u].load) + d

LEMMA LeaveMoves ==
    ASSUME TypeOK, NEW w \in Worker, NEW load \in Nat, Leave("parked", w, load, 0)
    PROVE  /\ pc'[w] = "returning" /\ carried'[w] = 0
           /\ \A v \in Worker \ {w} : carried'[v] = carried[v]
           /\ \E e \in Message : e.load = load /\ events' = Append(events, e)
<1> DEFINE e == Event("parked", w, job[w], load, None)
<1>1. job[w] \in Node \cup {None}
  BY DEF TypeOK
<1>2. e \in Message /\ e.load = load
  BY <1>1 DEF Event, Message
<1>3. events' = Append(events, e)
  BY DEF Leave, Post
<1>4. /\ pc'[w] = "returning" /\ carried'[w] = 0
      /\ \A v \in Worker \ {w} : carried'[v] = carried[v]
  BY DEF Leave, Goto, TypeOK
<1> HIDE DEF e
<1> QED
  BY <1>2, <1>3, <1>4

\* No step of a worker loses or duplicates a state while nothing fails.
LEMMA WorkerBalances ==
    ASSUME TypeOK, LoadInv, HeldInv, Quiet', NEW w \in Worker, Steps(w) \/ Exits(w)
    PROVE  /\ pc'[w] = "returning" => carried'[w] = 0
           /\ \E u \in Worker, d \in Nat : Moves(w, u, d) /\ Balances(w, u, d)
<1> USE DEF mail, ledger
<1>0. /\ ~abort /\ carried[w] \in Nat /\ 0 \in Nat
      /\ \A v \in Worker : chan[v].load \in Nat
      /\ born \in Nat /\ cleaned \in Nat
      /\ carried \in [Worker -> Nat] /\ chan \in [Worker -> StateChan]
      /\ pc \in [Worker -> StepNames] /\ requests[w] \in Seq(Worker)
  BY WorkerFrames DEF Quiet, TypeOK, StateChan
<1>1. CASE /\ UNCHANGED <<events, carried, chan, born, cleaned>>
           /\ pc'[w] # "returning"
  <2>1. Moves(w, w, 0)
    BY <1>1 DEF Moves
  <2>2. Balances(w, w, 0)
    BY <1>0, <1>1 DEF Balances
  <2> QED
    BY <1>0, <1>1, <2>1, <2>2
<1>2. CASE \/ TakeCommand(w) \/ SwapMergeFlag(w) \/ NoMoreRequests(w)
           \/ NotRetired(w) \/ StayInLoop(w)
  BY <1>0, <1>1, <1>2 DEF TakeCommand, SwapMergeFlag, NoMoreRequests, NotRetired,
     StayInLoop, Goto
<1>3. CASE CheckAbort(w) \/ PollTimeout(w) \/ Process(w)
  BY <1>0, <1>1, <1>3, NothingFailed DEF CheckAbort, PollTimeout, Process, Fail, Goto
<1>4. CASE FailInit(w) \/ MergeFails(w)
  BY <1>4, NothingFailed DEF FailInit, MergeFails, Fail
<1>5. CASE Start(w)
  <2> DEFINE e == Event("started", w, job[w], 0, None)
  <2>1. job[w] \in Node \cup {None}
    BY DEF TypeOK
  <2>2. e \in Message /\ e.load = 0
    BY <2>1 DEF Event, Message
  <2>3. events' = Append(events, e)
    BY <1>5 DEF Start, Post
  <2> HIDE DEF e
  <2>4. /\ pc'[w] = "head" /\ carried[w] = 0 /\ chan' = chan
        /\ \A v \in Worker \ {w} : carried'[v] = carried[v]
        /\ born' = born + carried'[w] /\ cleaned' = cleaned
        /\ carried'[w] \in Nat
    BY <1>0, <1>5 DEF Start, Goto, LoadInv
  <2>5. Moves(w, w, 0)
    BY <2>2, <2>3, <2>4 DEF Moves
  <2>6. Balances(w, w, 0)
    BY <1>0, <2>4 DEF Balances
  <2> QED
    BY <2>4, <2>5, <2>6
<1>6. CASE Merge(w)
  <2> DEFINE src == Head(requests[w])
             e == Event("merged", w, job[w], 0, src)
  <2>1. src \in Worker /\ pc'[w] = pc[w] /\ pc[w] = "requests"
    BY <1>0, <1>6 DEF Merge
  <2>2. job[w] \in Node \cup {None}
    BY DEF TypeOK
  <2>3. e \in Message /\ e.load = 0
    BY <2>1, <2>2 DEF Event, Message
  <2>4. events' = Append(events, e)
    BY <1>6 DEF Merge, Post
  <2>5. /\ carried' = [carried EXCEPT ![w] = @ + chan[src].load]
        /\ chan' = [chan EXCEPT ![src] = EmptyChan]
        /\ born' = born /\ cleaned' = cleaned
    BY <1>6 DEF Merge
  <2> HIDE DEF e, src
  <2>6. /\ carried'[w] = carried[w] + chan[src].load /\ chan'[src].load = 0
        /\ \A v \in Worker \ {w} : carried'[v] = carried[v]
        /\ \A v \in Worker \ {src} : chan'[v] = chan[v]
    BY <1>0, <2>1, <2>5 DEF EmptyChan
  <2>7. Moves(w, src, 0)
    BY <2>3, <2>4, <2>6 DEF Moves
  <2>8. Balances(w, src, 0)
    BY <1>0, <2>1, <2>5, <2>6 DEF Balances
  <2> QED
    BY <2>1, <2>7, <2>8
<1>7. CASE RetireByCleanup(w) \/ Exits(w)
  <2>1. chan' = chan /\ born' = born
    BY <1>7 DEF RetireByCleanup, Exits, LeaveLoop, PollDisconnected
  <2>2. \/ Leave("parked", w, 0, 0) /\ cleaned' = cleaned + carried[w]
        \/ Leave("parked", w, carried[w], 0) /\ cleaned' = cleaned
    BY <1>0, <1>7, NothingFailed DEF RetireByCleanup, Exits, LeaveLoop, PollDisconnected,
       GracefulExit, Cleanup
  <2>3. PICK load \in Nat : /\ Leave("parked", w, load, 0)
                            /\ cleaned' = cleaned + carried[w] - load
    BY <1>0, <2>2
  <2>4. /\ pc'[w] = "returning" /\ carried'[w] = 0
        /\ \A v \in Worker \ {w} : carried'[v] = carried[v]
        /\ \E e \in Message : e.load = load /\ events' = Append(events, e)
    BY <2>3, LeaveMoves
  <2>5. Moves(w, w, load)
    BY <2>1, <2>4 DEF Moves
  <2>6. Balances(w, w, load)
    BY <1>0, <2>1, <2>3, <2>4 DEF Balances
  <2> QED
    BY <2>4, <2>5, <2>6
<1>8. CASE RetireByTransfer(w)
  <2>1. /\ Leave("parked", w, 0, 0) /\ born' = born /\ cleaned' = cleaned
        /\ chan' = [chan EXCEPT ![w] = [st |-> "full", load |-> carried[w]]]
        /\ retire[w] = "transfer"
    BY <1>8, NothingFailed DEF RetireByTransfer
  <2>2. /\ chan[w].load = 0 /\ chan'[w].load = carried[w]
        /\ \A v \in Worker \ {w} : chan'[v] = chan[v]
    BY <1>0, <2>1 DEF LoadInv
  <2>3. /\ pc'[w] = "returning" /\ carried'[w] = 0
        /\ \A v \in Worker \ {w} : carried'[v] = carried[v]
        /\ \E e \in Message : e.load = 0 /\ events' = Append(events, e)
    BY <1>0, <2>1, LeaveMoves
  <2>4. Moves(w, w, 0)
    BY <2>2, <2>3 DEF Moves
  <2>5. Balances(w, w, 0)
    BY <1>0, <2>1, <2>2, <2>3 DEF Balances
  <2> QED
    BY <2>3, <2>4, <2>5
<1>9. CASE Return(w)
  <2>1. /\ pc[w] = "returning" /\ pc'[w] = "idle" /\ carried[w] = 0
        /\ carried' = [carried EXCEPT ![w] = 0]
        /\ DropRetire(w) \/ chan' = chan
        /\ UNCHANGED <<events, born, cleaned>>
    BY <1>0, <1>9 DEF Return, HeldInv, Goto
  <2>2. \A v \in Worker : chan'[v].load = chan[v].load
    <3>1. CASE chan' = chan
      BY <3>1
    <3>2. CASE DropRetire(w)
      <4>1. /\ \A v \in Worker \ {w} : chan'[v] = chan[v]
            /\ chan'[w] = IF chan[w].st = "open" THEN [st |-> "closed", load |-> 0]
                                                ELSE chan[w]
        BY <1>0, <3>2 DEF DropRetire
      <4>2. chan[w].st = "open" => chan[w].load = 0
        BY DEF LoadInv
      <4> QED
        BY <4>1, <4>2
    <3> QED
      BY <2>1, <3>1, <3>2
  <2>3. carried' = carried
    BY <1>0, <2>1
  <2>4. Moves(w, w, 0)
    BY <2>1, <2>2, <2>3 DEF Moves
  <2>5. Balances(w, w, 0)
    BY <1>0, <2>1, <2>2, <2>3 DEF Balances
  <2> QED
    BY <2>1, <2>4, <2>5
<1> QED
  BY <1>2, <1>3, <1>4, <1>5, <1>6, <1>7, <1>8, <1>9 DEF Steps

LEMMA LoadWorker ==
    ASSUME TypeOK, LoadInv, NEW w \in Worker, Steps(w) \/ Exits(w) \/ Panic(w)
    PROVE  LoadInv'
<1> USE DEF mail
<1>0. /\ carried \in [Worker -> Nat] /\ chan \in [Worker -> StateChan]
      /\ pc \in [Worker -> StepNames] /\ requests[w] \in Seq(Worker)
      /\ retire \in [Worker -> {None, "cleanup", "transfer"}]
      /\ events \in Seq(Message) /\ Len(events) \in Nat
  BY DEF TypeOK
<1>1. ASSUME NEW v \in Worker
      PROVE  \/ chan'[v] = chan[v]
             \/ chan'[v].st # "full" /\ chan'[v].load = 0
             \/ chan'[v].st = "full" /\ retire'[v] = None
  <2>1. CASE Merge(w) \/ MergeFails(w)
    BY <1>0, <2>1 DEF Merge, MergeFails, EmptyChan, None
  <2>2. CASE RetireByTransfer(w)
    BY <1>0, <2>2 DEF RetireByTransfer, EmptyChan, None
  <2>3. CASE Return(w) \/ Panic(w)
    BY <1>0, <2>3 DEF Return, Panic, DropRetire
  <2>4. CASE ~Merge(w) /\ ~MergeFails(w) /\ ~RetireByTransfer(w) /\ ~Return(w)
             /\ ~Panic(w)
    BY <2>4, MailEffect
  <2> QED
    BY <2>1, <2>2, <2>3, <2>4
<1>2. \A v \in Worker : /\ chan'[v].st # "full" => chan'[v].load = 0
                        /\ retire'[v] = "transfer" => chan'[v].st # "full"
  BY <1>1, RetireFrame DEF LoadInv, None
<1>3. \A v \in Worker : pc'[v] \in {"idle", "init"} => carried'[v] = 0
  <2>1. \A v \in Worker \ {w} : pc'[v] = pc[v] /\ carried'[v] = carried[v]
    <3>1. \A v \in Worker \ {w} : carried'[v] = carried[v]
      BY <1>0 DEF Steps, Exits, TakeCommand, Start, FailInit, CheckAbort, SwapMergeFlag,
         NoMoreRequests, Merge, MergeFails, NotRetired, RetireByCleanup, RetireByTransfer,
         Process, PollTimeout, StayInLoop, Return, LeaveLoop, PollDisconnected, Panic,
         GracefulExit, Cleanup, ParkOnAbort, Fail, Leave
    <3> QED
      BY <3>1, WorkerEffect DEF Others
  <2>2. CASE TakeCommand(w)
    BY <1>0, <2>1, <2>2 DEF TakeCommand, LoadInv
  <2>3. CASE Return(w) \/ Panic(w)
    BY <1>0, <2>1, <2>3 DEF Return, Panic, Goto, LoadInv
  <2>4. CASE ~TakeCommand(w) /\ ~Return(w) /\ ~Panic(w)
    <3>1. pc'[w] \notin {"idle", "init"}
      BY <1>0, <2>4 DEF Steps, Exits, Start, FailInit, CheckAbort, SwapMergeFlag,
         NoMoreRequests, Merge, MergeFails, NotRetired, RetireByCleanup, RetireByTransfer,
         Process, PollTimeout, StayInLoop, LeaveLoop, PollDisconnected, GracefulExit,
         Cleanup, ParkOnAbort, Fail, Leave, Goto
    <3> QED
      BY <2>1, <3>1 DEF LoadInv
  <2> QED
    BY <2>2, <2>3, <2>4
<1>4. \A i \in 1..Len(events') : events'[i].type # "parked" => events'[i].load = 0
  <2>1. \/ events' = events
        \/ \E t, n, load, src : /\ t = "parked" \/ load = 0
                                /\ Post(Event(t, w, n, load, src))
    BY DEF Steps, Exits, TakeCommand, Start, FailInit, CheckAbort, SwapMergeFlag,
       NoMoreRequests, Merge, MergeFails, NotRetired, RetireByCleanup, RetireByTransfer,
       Process, PollTimeout, StayInLoop, Return, LeaveLoop, PollDisconnected, Panic,
       GracefulExit, Cleanup, ParkOnAbort, Fail, Leave
  <2>2. CASE events' = events
    BY <2>2 DEF LoadInv
  <2>3. CASE events' # events
    <3>1. PICK t, n, load, src : /\ t = "parked" \/ load = 0
                                 /\ Post(Event(t, w, n, load, src))
      BY <2>1, <2>3
    <3> DEFINE e == Event(t, w, n, load, src)
    <3>2. (e.type # "parked" => e.load = 0) /\ events' = Append(events, e)
      BY <3>1 DEF Event, Post
    <3> HIDE DEF e
    <3> QED
      BY <1>0, <3>2 DEF LoadInv
  <2> QED
    BY <2>2, <2>3
<1> QED
  BY <1>2, <1>3, <1>4 DEF LoadInv

LEMMA LoadStep ==
    ASSUME TypeOK, LoadInv, [Next]_vars
    PROVE  LoadInv'
<1>0. /\ carried \in [Worker -> Nat] /\ chan \in [Worker -> StateChan]
      /\ retire \in [Worker -> {None, "cleanup", "transfer"}]
      /\ events \in Seq(Message) /\ Len(events) \in Nat
  BY DEF TypeOK
<1>1. CASE UNCHANGED <<chan, retire, pc, carried, events>>
  BY <1>1 DEF LoadInv
<1>2. CASE \E w \in Worker : Steps(w) \/ Exits(w) \/ Panic(w)
  BY <1>2, LoadWorker
<1>3. CASE DrainEvent
  <2>1. UNCHANGED <<retire, pc, carried>> /\ events # <<>> /\ events' = Tail(events)
    BY <1>3 DEF DrainEvent, SupervisorFrame
  <2>2. \A v \in Worker : \/ chan'[v] = chan[v]
                          \/ chan'[v].st # "full" /\ chan'[v].load = 0
    BY <1>0, <1>3 DEF DrainEvent, OnStarted, OnParked, OnMerged, OnFailed, Unassign,
       DropRetire
  <2>3. \A i \in 1..Len(events') : i + 1 \in 1..Len(events) /\ events'[i] = events[i + 1]
    BY <1>0, <2>1
  <2> QED
    BY <2>1, <2>2, <2>3 DEF LoadInv
<1>4. CASE ScaleUp \/ ScaleDown
  <2>1. UNCHANGED <<pc, carried, events>>
    BY <1>4 DEF ScaleUp, ScaleDown, SupervisorFrame
  <2>2. \A v \in Worker : \/ chan'[v] = chan[v] /\ retire'[v] \in {retire[v], "cleanup"}
                          \/ chan'[v].st # "full" /\ chan'[v].load = 0
    <3>1. CASE ScaleUp
      <4>1. PICK n \in Node, w \in Worker : Assign(w, n)
        BY <3>1 DEF ScaleUp
      <4> QED
        BY <1>0, <4>1 DEF Assign, EmptyChan, None
    <3>2. CASE ScaleDown
      <4>1. PICK w \in Worker :
                \/ /\ retire' = [retire EXCEPT ![w] = "transfer"]
                   /\ chan' = [chan EXCEPT ![w] = [st |-> "open", load |-> 0]]
                \/ retire' = [retire EXCEPT ![w] = "cleanup"] /\ chan' = chan
        BY <3>2 DEF ScaleDown
      <4> QED
        BY <1>0, <4>1
    <3> QED
      BY <1>4, <3>1, <3>2
  <2> QED
    BY <2>1, <2>2 DEF LoadInv
<1>5. CASE Supervisor /\ ~DrainEvent /\ ~ScaleUp /\ ~ScaleDown
  BY <1>1, <1>5 DEF Supervisor, EventsDrained, DrainFailure, CloseLinks, NoScale,
     CheckExit, StopParked, JoinWorkers, SupervisorFrame, mail
<1>6. CASE Environment
  BY <1>1, <1>6, EnvironmentFrames DEF workVars
<1>7. CASE UNCHANGED vars
  BY <1>1, <1>7 DEF vars, workVars
<1> QED
  BY <1>2, <1>3, <1>4, <1>5, <1>6, <1>7 DEF Next, Finished

LEMMA HeldSame ==
    ASSUME TypeOK, HeldInv,
           UNCHANGED <<carried, events, born, cleaned, returned, pc, pending, requests>>,
           \A w \in Worker : chan'[w].load = chan[w].load,
           \A w \in Worker : chan'[w].st = "full" => chan[w].st = "full"
    PROVE  HeldInv'
<1>1. ChanLoads' = ChanLoads
  BY DEF ChanLoads
<1>2. StatesHeld' = StatesHeld
  BY <1>1 DEF StatesHeld, ChanLoads
<1> QED
  BY <1>2 DEF HeldInv

LEMMA HeldWorker ==
    ASSUME TypeOK, TypeOK', RosterInv, MergeInv, LoadInv, HeldInv, Quiet',
           NEW w \in Worker, Steps(w) \/ Exits(w) \/ Panic(w)
    PROVE  HeldInv'
<1>0. Steps(w) \/ Exits(w)
  BY DEF Quiet, Panic
<1>1. /\ pending' = pending /\ returned' = returned
      /\ chan \in [Worker -> StateChan] /\ requests \in [Worker -> Seq(Worker)]
  BY WorkerFrames DEF supVars, TypeOK
<1>2. PICK u \in Worker, d \in Nat : Moves(w, u, d) /\ Balances(w, u, d)
  BY <1>0, WorkerBalances
<1>3. \A v \in Worker : pc'[v] = "returning" => carried'[v] = 0
  <2>1. pc'[w] = "returning" => carried'[w] = 0
    BY <1>0, WorkerBalances
  <2>2. \A v \in Worker \ {w} : pc'[v] = pc[v] /\ carried'[v] = carried[v]
    BY <1>2, WorkerEffect DEF Others, Moves
  <2> QED
    BY <2>1, <2>2 DEF HeldInv
<1>4. born' = StatesHeld' + returned' + cleaned'
  <2>1. StatesHeld' = StatesHeld + (carried'[w] - carried[w])
                        + (chan'[u].load - chan[u].load) + d
    BY <1>2, HeldMoves
  <2>2. /\ StatesHeld \in Nat /\ born \in Nat /\ cleaned \in Nat /\ returned \in Nat
        /\ carried[w] \in Nat /\ carried'[w] \in Nat
        /\ chan[u].load \in Nat /\ chan'[u].load \in Nat
        /\ born' \in Nat /\ cleaned' \in Nat
    <3>1. StatesHeld \in Nat
      BY HeldParts DEF HeldSum
    <3>2. /\ born \in Nat /\ cleaned \in Nat /\ returned \in Nat
          /\ carried[w] \in Nat /\ chan[u].load \in Nat
      BY DEF TypeOK, StateChan
    <3>3. /\ born' \in Nat /\ cleaned' \in Nat
          /\ carried'[w] \in Nat /\ chan'[u].load \in Nat
      BY DEF TypeOK, StateChan
    <3> QED
      BY <3>1, <3>2, <3>3
  <2>3. born = StatesHeld + returned + cleaned
    BY DEF HeldInv
  <2>4. (born' - born) - (cleaned' - cleaned)
            = (carried'[w] - carried[w]) + (chan'[u].load - chan[u].load) + d
    BY <1>2 DEF Balances
  <2> DEFINE h == StatesHeld
             b == born
             c == cleaned
             h1 == StatesHeld'
             b1 == born'
             c1 == cleaned'
             x == carried'[w] - carried[w]
             y == chan'[u].load - chan[u].load
  <2>5. /\ h \in Nat /\ b \in Nat /\ c \in Nat /\ b1 \in Nat /\ c1 \in Nat
        /\ returned \in Nat /\ x \in Int /\ y \in Int
    BY <2>2
  <2>6. /\ h1 = h + x + y + d /\ b = h + returned + c
        /\ (b1 - b) - (c1 - c) = x + y + d
    BY <2>1, <2>3, <2>4
  <2> HIDE DEF h, b, c, h1, b1, c1, x, y
  <2>7. b1 = h1 + returned + c1
    BY <2>5, <2>6
  <2> QED
    BY <1>1, <2>7 DEF h1, b1, c1
<1>5. ASSUME NEW v \in Worker, chan'[v].st = "full"
      PROVE  /\ pending.kind = "merge" /\ pending.src = v
             /\ pending.rx \/ requests'[pending.dst] # <<>>
  <2>1. CASE Merge(w)
    <3>1. /\ pc[w] = "requests" /\ requests[w] # <<>>
          /\ chan' = [chan EXCEPT ![Head(requests[w])] = EmptyChan]
          /\ requests' = [requests EXCEPT ![w] = Tail(@)]
      BY <2>1 DEF Merge
    <3>2. Serves(w)
      BY <3>1 DEF RosterInv, Stage, Off, Waiting, Gone, Lost, Serves, InLoop, Running
    <3>3. requests[w] = <<pending.src>> /\ ~pending.rx
      BY <3>1, <3>2 DEF MergeInv, RequestsInv, PendingInv
    <3>4. Head(requests[w]) = pending.src
      BY <3>3
    <3>5. v # pending.src /\ chan[v].st = "full"
      BY <1>1, <1>5, <3>1, <3>4 DEF EmptyChan, None
    <3> QED
      BY <3>5 DEF HeldInv
  <2>2. CASE ~Merge(w)
    <3>1. ~MergeFails(w)
      BY NothingFailed DEF MergeFails, Fail
    <3>2. requests' = requests
      BY <2>2, <3>1, MailEffect DEF Hushed, Posted
    <3>3. CASE chan[v].st = "full"
      BY <3>2, <3>3 DEF HeldInv
    <3>4. CASE chan[v].st # "full"
      <4>0. chan' = chan \/ RetireByTransfer(w) \/ Return(w) \/ Panic(w)
        BY <2>2, <3>1, MailEffect
      <4>1. ASSUME Return(w) \/ Panic(w) PROVE FALSE
        <5>1. chan'[v] = chan[v] \/ chan'[v].st = "closed"
          BY <1>1, <4>1 DEF Return, Panic, DropRetire
        <5> QED
          BY <1>5, <3>4, <5>1
      <4>2. /\ pending.kind = "merge" /\ pending.src = w /\ pending.rx
            /\ chan' = [chan EXCEPT ![w] = [st |-> "full", load |-> carried[w]]]
        <5>1. RetireByTransfer(w)
          BY <1>5, <3>4, <4>0, <4>1
        <5> QED
          BY <5>1, NothingFailed DEF RetireByTransfer
      <4> QED
        BY <1>1, <1>5, <3>4, <4>2
    <3> QED
      BY <3>3, <3>4
  <2> QED
    BY <2>1, <2>2
<1> QED
  BY <1>1, <1>3, <1>4, <1>5 DEF HeldInv

LEMMA HeldDrain ==
    ASSUME TypeOK, TypeOK', MergeInv, LoadInv, HeldInv, Quiet', DrainEvent
    PROVE  HeldInv'
<1> DEFINE e == Head(events)
<1>1. /\ events # <<>> /\ events' = Tail(events) /\ events \in Seq(Message)
      /\ e \in Message /\ e = events[1] /\ 1 \in 1..Len(events) /\ ~abort'
      /\ UNCHANGED <<born, cleaned, pc, carried>>
  <2>1. events # <<>> /\ events' = Tail(events) /\ UNCHANGED <<born, cleaned, pc, carried>>
    BY DEF DrainEvent, SupervisorFrame, ledger
  <2>2. events \in Seq(Message) /\ ~abort'
    BY DEF TypeOK, Quiet
  <2>3. e \in Message /\ e = events[1] /\ 1 \in 1..Len(events)
    BY <2>1, <2>2
  <2> QED
    BY <2>1, <2>2, <2>3
<1>2. \/ OnStarted(e) \/ OnMerged(e)
      \/ OnParked(e)
  BY <1>1 DEF DrainEvent, OnFailed, Raise
<1>3. e \in Message /\ (e.type # "parked" => e.load = 0)
  BY <1>1 DEF LoadInv
<1> HIDE DEF e
<1>4. chan \in [Worker -> StateChan] /\ requests \in [Worker -> Seq(Worker)]
  BY DEF TypeOK
<1>5. \A v \in Worker : /\ chan'[v].load = chan[v].load
                        /\ chan'[v].st = "full" => chan[v].st = "full"
  BY <1>2, <1>4 DEF OnStarted, OnParked, OnMerged, Unassign, DropRetire, LoadInv
<1>6. StatesHeld = e.load + StatesHeld'
  BY <1>1, <1>5, HeldReads DEF e
<1>7. returned' = returned + e.load
  <2>1. returned \in Nat
    BY DEF TypeOK
  <2> QED
    BY <1>2, <1>3, <2>1 DEF OnStarted, OnParked, OnMerged
<1>8. born' = StatesHeld' + returned' + cleaned'
  <2>1. returned \in Nat /\ cleaned \in Nat /\ born = StatesHeld + returned + cleaned
    BY DEF TypeOK, HeldInv
  <2>2. e.load \in Nat
    BY <1>3 DEF Message
  <2>3. StatesHeld' \in Nat
    <3>1. HeldSum'
      BY HeldParts, PTL
    <3> QED
      BY <3>1 DEF HeldSum
  <2> QED
    BY <1>1, <1>6, <1>7, <2>1, <2>2, <2>3
<1>9. ASSUME NEW v \in Worker, chan'[v].st = "full"
      PROVE  /\ pending'.kind = "merge" /\ pending'.src = v
             /\ pending'.rx \/ requests'[pending'.dst] # <<>>
  <2>1. /\ pending.kind = "merge" /\ pending.src = v
        /\ pending.rx \/ requests[pending.dst] # <<>>
    BY <1>5, <1>9 DEF HeldInv
  <2>2. CASE pending' = pending /\ requests' = requests
    BY <2>1, <2>2
  <2>3. CASE OnStarted(e)
    BY <2>1, <2>2, <2>3 DEF OnStarted
  <2>4. CASE OnMerged(e)
    <3>1. requests[pending.dst] = <<>> /\ pending.waiting
      BY <1>1, <2>4 DEF OnMerged, MergeInv, MergedInv
    <3> QED
      BY <2>1, <3>1 DEF MergeInv, PendingInv
  <2>5. CASE OnParked(e)
    <3>1. CASE Retires(e.worker)
      <4>1. pending.rx /\ requests' = [requests EXCEPT ![pending.dst] = Append(@, e.worker)]
            /\ pending' = [pending EXCEPT !.rx = FALSE, !.waiting = TRUE]
        BY <1>1, <2>1, <2>5, <3>1 DEF OnParked, HandOver, Raise
      <4>2. pending \in Operation /\ pending.dst \in Worker
        BY <2>1 DEF TypeOK, MergeInv, PendingInv
      <4>3. /\ pending'.kind = pending.kind /\ pending'.src = pending.src
            /\ pending'.dst = pending.dst
        BY <4>1, <4>2 DEF Operation
      <4>4. requests'[pending.dst] = Append(requests[pending.dst], e.worker)
        BY <1>4, <4>1, <4>2
      <4>5. requests[pending.dst] \in Seq(Worker)
        BY <1>4, <4>2
      <4>6. requests'[pending.dst] # <<>>
        BY <4>4, <4>5
      <4> QED
        BY <2>1, <4>3, <4>6
    <3>2. CASE ~Retires(e.worker)
      BY <2>2, <2>5, <3>2 DEF OnParked
    <3> QED
      BY <3>1, <3>2
  <2> QED
    BY <1>2, <2>3, <2>4, <2>5
<1> QED
  BY <1>1, <1>8, <1>9 DEF HeldInv

\* A scale operation begins when no transfer is full.
LEMMA HeldScales ==
    ASSUME TypeOK, LoadInv, HeldInv, ScaleUp \/ ScaleDown
    PROVE  HeldInv'
<1>1. /\ UNCHANGED <<carried, events, born, cleaned, returned, pc>>
      /\ pending.kind = None
  BY DEF ScaleUp, ScaleDown, MayScale, SupervisorFrame, ledger
<1>2. \A v \in Worker : chan[v].st # "full" /\ chan[v].load = 0
  BY <1>1 DEF HeldInv, LoadInv, None
<1>3. chan \in [Worker -> StateChan]
  BY DEF TypeOK
<1>4. \A v \in Worker : chan'[v].st # "full" /\ chan'[v].load = 0
  <2>1. CASE ScaleUp
    <3>1. PICK n \in Node, w \in Worker : Assign(w, n)
      BY <2>1 DEF ScaleUp
    <3> QED
      BY <1>2, <1>3, <3>1 DEF Assign, EmptyChan, None
  <2>2. CASE ScaleDown
    <3>1. PICK w \in Worker :
              \/ chan' = [chan EXCEPT ![w] = [st |-> "open", load |-> 0]]
              \/ chan' = chan
      BY <2>2 DEF ScaleDown
    <3> QED
      BY <1>2, <1>3, <3>1
  <2> QED
    BY <2>1, <2>2
<1>5. ChanLoads' = ChanLoads
  BY <1>2, <1>4 DEF ChanLoads
<1>6. StatesHeld' = StatesHeld
  BY <1>1, <1>5 DEF StatesHeld, ChanLoads
<1> QED
  BY <1>1, <1>4, <1>6 DEF HeldInv

LEMMA LedgerStep ==
    ASSUME TypeOK, TypeOK', RosterInv, MergeInv, LedgerInv, [Next]_vars
    PROVE  LedgerInv'
<1> SUFFICES ASSUME Quiet' PROVE HeldInv'
  BY LoadStep DEF LedgerInv
<1>1. LoadInv /\ HeldInv
  BY QuietBefore DEF LedgerInv
<1>2. CASE UNCHANGED <<carried, events, born, cleaned, returned, pc, pending, requests,
                       chan>>
  BY <1>1, <1>2, HeldSame
<1>3. CASE \E w \in Worker : Steps(w) \/ Exits(w) \/ Panic(w)
  BY <1>1, <1>3, HeldWorker
<1>4. CASE DrainEvent
  BY <1>1, <1>4, HeldDrain
<1>5. CASE ScaleUp \/ ScaleDown
  BY <1>1, <1>5, HeldScales
<1>6. CASE Supervisor /\ ~DrainEvent /\ ~ScaleUp /\ ~ScaleDown
  BY <1>2, <1>6 DEF Supervisor, EventsDrained, DrainFailure, CloseLinks, NoScale,
     CheckExit, StopParked, JoinWorkers, SupervisorFrame, mail, roster, ledger
<1>7. CASE Environment
  BY <1>2, <1>7, EnvironmentFrames DEF workVars, supVars, ledger
<1>8. CASE UNCHANGED vars
  BY <1>2, <1>8 DEF vars, workVars, supVars, ledger
<1> QED
  BY <1>3, <1>4, <1>5, <1>6, <1>7, <1>8 DEF Next, Finished

\* Merging, returning and cleaning up neither lose nor duplicate a user state
\* while nothing fails, however many operations run.
THEOREM NoStateLost == Spec => []StatesAccounted
<1>1. TypeOK /\ RosterInv /\ MergeInv /\ LedgerInv /\ [Next]_vars
         => TypeOK' /\ RosterInv' /\ MergeInv' /\ LedgerInv'
  BY TypeStep, RosterStep, MergeStep, LedgerStep
<1>2. LedgerInv => StatesAccounted
  BY DEF LedgerInv, HeldInv, Quiet, StatesAccounted
<1> QED
  BY TypeInit, RosterInit, MergeInit, LedgerInit, <1>1, <1>2, PTL DEF Spec

-----------------------------------------------------------------------------
(* The pool implements Staffing.                                           *)

\* Until the pool is told to stop, whoever leaves a node was asked to, for the
\* operation in progress and on its node.
AskedParks ==
    \A i \in 1..Len(events) :
        events[i].type = "parked" => Stopping \/ Retires(events[i].worker)
AskedLeave ==
    /\ pending.kind # None => pending.node \in Node
    /\ \A w \in Busy : /\ Retires(w) => active[w] = pending.node
                       /\ retire[w] # None => Stopping \/ Retires(w)
    /\ AskedParks

LEMMA AskedInit == Init => AskedLeave
  BY DEF Init, AskedLeave, AskedParks, Retires, NoOp, None, Busy

\* Before a stop a worker that parks was asked to.
ParksAsked(w) ==
    \/ events' = events
    \/ \E e : /\ events' = Append(events, e)
              /\ e.type = "parked" => e.worker = w /\ retire[w] # None /\ pc[w] = "retire"

LEMMA ParkReason ==
    ASSUME LinksHeld, ~Stopping, NEW w \in Worker, Steps(w) \/ Exits(w) \/ Panic(w)
    PROVE  ParksAsked(w)
<1>0. held /\ ~abort /\ ~shutdown
  BY DEF Stopping, LinksHeld
<1>1. ASSUME NEW load, NEW kept, Leave("failed", w, load, kept) PROVE ParksAsked(w)
  BY <1>1 DEF Leave, Post, Event, ParksAsked
<1>2. CASE \/ TakeCommand(w) \/ SwapMergeFlag(w) \/ NoMoreRequests(w) \/ NotRetired(w)
           \/ StayInLoop(w) \/ Return(w) \/ Panic(w)
  BY <1>2 DEF TakeCommand, SwapMergeFlag, NoMoreRequests, NotRetired, StayInLoop, Return,
     Panic, ParksAsked
<1>3. CASE Start(w) \/ Merge(w)
  BY <1>3 DEF Start, Merge, Post, Event, ParksAsked
<1>4. CASE CheckAbort(w) \/ PollTimeout(w)
  BY <1>0, <1>4 DEF CheckAbort, PollTimeout, ParksAsked
<1>5. CASE FailInit(w) \/ MergeFails(w)
  BY <1>1, <1>5 DEF FailInit, MergeFails, Fail
<1>6. CASE Process(w)
  BY <1>1, <1>6 DEF Process, Fail, ParksAsked
<1>7. CASE RetireByCleanup(w) \/ RetireByTransfer(w)
  BY <1>7 DEF RetireByCleanup, RetireByTransfer, Cleanup, Leave, Post, Event, None,
     ParksAsked
<1>8. CASE Exits(w)
  BY <1>0, <1>8 DEF Exits, LeaveLoop, PollDisconnected, MayLeave, Disconnected
<1> QED
  BY <1>2, <1>3, <1>4, <1>5, <1>6, <1>7, <1>8 DEF Steps

LEMMA AskedWorker ==
    ASSUME TypeOK, RosterInv, LinksHeld, AskedLeave, NEW w \in Worker,
           Steps(w) \/ Exits(w) \/ Panic(w)
    PROVE  AskedLeave'
<1>1. /\ active' = active /\ pending' = pending /\ Busy' = Busy
      /\ Stopping' = Stopping /\ \A v : Retires(v)' = Retires(v)
  BY WorkerFrames DEF supVars, envVars, Busy, Stopping, Retires
<1>2. \A v \in Busy : retire'[v] # None => retire[v] # None
  BY RetireFrame DEF Busy
<1>3. ASSUME ~Stopping PROVE AskedParks'
  <2> SUFFICES ASSUME NEW i \in 1..Len(events'), events'[i].type = "parked"
               PROVE  Retires(events'[i].worker)
    BY <1>1 DEF AskedParks, Retires
  <2>1. CASE events' = events
    BY <1>3, <2>1 DEF AskedLeave, AskedParks
  <2>2. ASSUME NEW e, events' = Append(events, e),
               e.type = "parked" => e.worker = w /\ retire[w] # None /\ pc[w] = "retire"
        PROVE  Retires(events'[i].worker)
    <3>1. events \in Seq(Message \cup {e})
      BY DEF TypeOK
    <3>2. CASE i \in 1..Len(events) /\ events'[i] = events[i]
      BY <1>3, <3>2 DEF AskedLeave, AskedParks
    <3>3. CASE events'[i] = e
      <4>1. w \in Busy
        BY <1>3, <2>2, <3>3 DEF RosterInv, Stage, Off, Busy
      <4> QED
        BY <1>3, <2>2, <3>3, <4>1 DEF AskedLeave
    <3>4. \/ i \in 1..Len(events) /\ events'[i] = events[i]
          \/ events'[i] = e
      BY <1>3, <2>2, <3>1, AppendProperties
    <3> QED
      BY <3>2, <3>3, <3>4
  <2> QED
    BY <1>3, <2>1, <2>2, ParkReason DEF ParksAsked
<1>4. ASSUME Stopping PROVE AskedParks'
  BY <1>1, <1>4 DEF AskedParks
<1> QED
  BY <1>1, <1>2, <1>3, <1>4 DEF AskedLeave

\* The steps of the supervisor and of the others that move nobody.
LEMMA AskedQuiet ==
    ASSUME AskedLeave, UNCHANGED <<active, pending, retire, events>>, Stopping => Stopping'
    PROVE  AskedLeave'
<1>1. Busy' = Busy /\ \A v : Retires(v)' = Retires(v)
  BY DEF Busy, Retires
<1> QED
  BY <1>1 DEF AskedLeave, AskedParks

LEMMA EventsTailed ==
    ASSUME TypeOK, events # <<>>, events' = Tail(events), NEW i \in 1..Len(events')
    PROVE  i + 1 \in 1..Len(events) /\ events'[i] = events[i + 1]
  BY DEF TypeOK

\* An event that ends no retirement.
LEMMA AskedReads ==
    ASSUME TypeOK, AskedLeave, DrainEvent, OnStarted(Head(events)) \/ OnMerged(Head(events))
    PROVE  AskedLeave'
<1>1. /\ events # <<>> /\ events' = Tail(events) /\ retire' = retire /\ active' = active
      /\ Busy' = Busy /\ Stopping' = Stopping
      /\ \/ pending' = pending
         \/ pending' = NoOp /\ (pending.kind = "add" \/ pending.waiting)
  BY DEF DrainEvent, OnStarted, OnMerged, Settle, SupervisorFrame, envVars, Busy, Stopping
<1>2. pending' = pending \/ \A v : ~Retires(v) /\ ~Retires(v)'
  BY <1>1 DEF Retires, NoOp, None
<1>3. \A v : Retires(v)' = Retires(v)
  BY <1>1, <1>2 DEF Retires
<1>4. AskedParks'
  <2> SUFFICES ASSUME NEW i \in 1..Len(events'), events'[i].type = "parked"
               PROVE  Stopping \/ Retires(events'[i].worker)
    BY <1>1, <1>3 DEF AskedParks
  <2>1. i + 1 \in 1..Len(events) /\ events'[i] = events[i + 1]
    BY <1>1, EventsTailed
  <2> QED
    BY <2>1 DEF AskedLeave, AskedParks
<1>5. pending'.kind # None => pending' = pending
  BY <1>1 DEF NoOp
<1>6. \A v \in Busy : Retires(v)' => active'[v] = pending'.node
  <2>1. \A v : Retires(v)' => pending'.kind # None
    BY DEF Retires, None
  <2> QED
    BY <1>1, <1>3, <1>5, <2>1 DEF AskedLeave
<1> QED
  BY <1>1, <1>3, <1>4, <1>5, <1>6 DEF AskedLeave

\* A worker leaves the roster.
LEMMA AskedLeaves ==
    ASSUME TypeOK, RosterInv, AskedLeave, DrainEvent, NEW e \in {Head(events)},
           NEW w \in {e.worker}, OnParked(e) \/ OnFailed(e)
    PROVE  AskedLeave'
<1>1. /\ e \in Message /\ w \in Worker /\ w \in Busy /\ Gone(w)
      /\ events # <<>> /\ events' = Tail(events) /\ 1 \in ExitsIn(events, w)
      /\ retire' = retire /\ active'[w] = None
      /\ \A v \in Worker \ {w} : active'[v] = active[v]
      /\ Busy' = Busy \ {w}
  BY Leaves
<1>2. Stopping => Stopping'
  BY FlagsLatch DEF Next, Supervisor
<1>3. \/ pending' = pending
      \/ pending' = [pending EXCEPT !.rx = FALSE] /\ Stopping'
      \/ pending' = [pending EXCEPT !.rx = FALSE, !.waiting = TRUE] /\ Retires(w)
      \/ pending' = NoOp /\ (Retires(w) \/ Stopping')
  BY DEF OnParked, OnFailed, HandOver, Settle, Raise, Stopping
<1>4. pending \in Operation
  BY DEF TypeOK
<1>5. /\ pending'.kind # None => pending'.kind = pending.kind /\ pending'.node = pending.node
      /\ \A v \in Worker : Retires(v)' => Retires(v)
      /\ \A v \in Worker \ {w} : Retires(v) => Retires(v)' \/ Stopping'
  <2>1. CASE pending' = pending
    BY <2>1 DEF Retires
  <2>2. CASE pending' = [pending EXCEPT !.rx = FALSE] /\ Stopping'
    BY <1>4, <2>2 DEF Retires, Operation
  <2>3. CASE pending' = [pending EXCEPT !.rx = FALSE, !.waiting = TRUE] /\ Retires(w)
    BY <1>4, <2>3 DEF Retires, Operation
  <2>4. CASE pending' = NoOp /\ (Retires(w) \/ Stopping')
    BY <2>4 DEF Retires, NoOp, None
  <2> QED
    BY <1>3, <2>1, <2>2, <2>3, <2>4
<1>6. AskedParks'
  <2>0. SUFFICES ASSUME NEW i \in 1..Len(events'), events'[i].type = "parked",
                        NEW v \in {events'[i].worker}
                 PROVE  Stopping' \/ Retires(v)'
    BY DEF AskedParks, Retires
  <2>1. i + 1 \in 1..Len(events) /\ events'[i] = events[i + 1]
    BY <1>1, EventsTailed
  <2>2. events[i + 1].worker # w
    <3>1. ASSUME events[i + 1].worker = w PROVE i + 1 \in ExitsIn(events, w)
      BY <2>0, <2>1, <3>1 DEF ExitsIn, IsExit
    <3>2. i + 1 # 1
      BY <2>0, <2>1
    <3> QED
      BY <1>1, <3>1, <3>2 DEF Gone
  <2>3. v \in Worker
    <3>1. events[i + 1] \in Message
      BY <2>1, ElementOfSeq DEF TypeOK
    <3> QED
      BY <2>1, <3>1 DEF Message
  <2>4. Stopping \/ Retires(v)
    BY <2>0, <2>1 DEF AskedLeave, AskedParks
  <2> QED
    BY <1>2, <1>5, <2>1, <2>2, <2>3, <2>4
<1>7. ASSUME NEW v \in Busy'
      PROVE  /\ Retires(v)' => active'[v] = pending'.node
             /\ retire'[v] # None => Stopping' \/ Retires(v)'
  <2>1. v \in Busy /\ v \in Worker \ {w}
    BY <1>1, <1>7 DEF Busy
  <2>2. Retires(v)' => pending'.kind # None
    BY DEF Retires, None
  <2> QED
    BY <1>1, <1>2, <1>5, <2>1, <2>2 DEF AskedLeave
<1>8. pending'.kind # None => pending'.node \in Node
  BY <1>5 DEF AskedLeave
<1> QED
  BY <1>6, <1>7, <1>8 DEF AskedLeave

\* An operation begins when nobody is asked to leave.
LEMMA AskedScales ==
    ASSUME TypeOK, AskedLeave, ScaleUp \/ ScaleDown
    PROVE  AskedLeave'
<1>1. /\ ~Stopping /\ pending.kind = None /\ events' = events /\ \A v : ~Retires(v)
  BY DEF ScaleUp, ScaleDown, MayScale, Retires, None
<1>2. /\ \A v \in Busy : retire[v] = None
      /\ \A i \in 1..Len(events) : events[i].type # "parked"
  BY <1>1 DEF AskedLeave, AskedParks
<1>3. PICK n \in Node, w \in Worker :
        /\ pending'.node = n /\ pending'.src = w /\ ~pending'.waiting
        /\ \/ pending'.kind = "add" /\ Assign(w, n)
           \/ /\ pending'.kind \in {"remove", "merge"} /\ active' = active /\ active[w] = n
              /\ \E how : retire' = [retire EXCEPT ![w] = how]
  <2>1. CASE ScaleUp
    BY <2>1 DEF ScaleUp, NoOp
  <2>2. CASE ScaleDown
    <3>1. PICK n \in Node, w \in Worker :
            /\ active[w] = n
            /\ \/ /\ retire' = [retire EXCEPT ![w] = "transfer"]
                  /\ \E dst : pending' = [kind |-> "merge", src |-> w, dst |-> dst,
                                          node |-> n, rx |-> TRUE, waiting |-> FALSE]
               \/ /\ retire' = [retire EXCEPT ![w] = "cleanup"]
                  /\ pending' = [NoOp EXCEPT !.kind = "remove", !.src = w, !.node = n]
      BY <2>2 DEF ScaleDown
    <3>2. /\ pending'.node = n /\ pending'.src = w /\ ~pending'.waiting
          /\ pending'.kind \in {"remove", "merge"}
      <4>1. ASSUME NEW dst, pending' = [kind |-> "merge", src |-> w, dst |-> dst,
                                        node |-> n, rx |-> TRUE, waiting |-> FALSE]
            PROVE  /\ pending'.node = n /\ pending'.src = w /\ ~pending'.waiting
                   /\ pending'.kind \in {"remove", "merge"}
        BY <4>1
      <4>2. CASE pending' = [NoOp EXCEPT !.kind = "remove", !.src = w, !.node = n]
        BY <4>2 DEF NoOp
      <4> QED
        BY <3>1, <4>1, <4>2
    <3>3. active' = active
      BY <2>2 DEF ScaleDown
    <3> QED
      BY <3>1, <3>2, <3>3
  <2> QED
    BY <2>1, <2>2
<1>4. CASE Assign(w, n) /\ pending'.kind = "add"
  <2>1. /\ \A v \in Worker \ {w} : active'[v] = active[v] /\ retire'[v] = retire[v]
        /\ retire'[w] = None /\ \A v : ~Retires(v)'
    BY <1>4 DEF Assign, TypeOK, Retires
  <2>2. \A v \in Busy' : retire'[v] = None
    BY <1>2, <2>1 DEF Busy
  <2> QED
    BY <1>1, <1>2, <1>3, <2>1, <2>2 DEF AskedLeave, AskedParks
<1>5. ASSUME pending'.kind \in {"remove", "merge"}, active' = active, active[w] = n,
             NEW how, retire' = [retire EXCEPT ![w] = how]
      PROVE  AskedLeave'
  <2>1. Busy' = Busy /\ Retires(w)' /\ \A v : Retires(v)' => v = w
    BY <1>3, <1>5 DEF Busy, Retires
  <2>2. \A v \in Busy : v # w => retire'[v] = None
    BY <1>2, <1>5 DEF Busy, TypeOK
  <2> QED
    BY <1>1, <1>2, <1>3, <1>5, <2>1, <2>2 DEF AskedLeave, AskedParks
<1> QED
  BY <1>3, <1>4, <1>5

LEMMA AskedStep ==
    ASSUME TypeOK, RosterInv, LinksHeld, AskedLeave, [Next]_vars
    PROVE  AskedLeave'
<1>1. CASE DrainEvent
  BY <1>1, AskedReads, AskedLeaves DEF DrainEvent
<1>2. CASE ScaleUp \/ ScaleDown
  BY <1>2, AskedScales
<1>3. CASE Supervisor /\ ~DrainEvent /\ ~ScaleUp /\ ~ScaleDown
  <2>1. UNCHANGED <<active, pending, retire, events>>
    BY <1>3 DEF Supervisor, EventsDrained, DrainFailure, CloseLinks, NoScale, CheckExit,
       StopParked, JoinWorkers, mail, roster
  <2> QED
    BY <2>1, FlagsLatch, AskedQuiet
<1>4. CASE \E w \in Worker : Steps(w) \/ Exits(w) \/ Panic(w)
  BY <1>4, AskedWorker
<1>5. CASE Environment
  BY <1>5, EnvironmentFrames, FlagsLatch, AskedQuiet DEF supVars, workVars
<1>6. CASE UNCHANGED vars
  BY <1>6, FlagsLatch, AskedQuiet DEF vars, supVars, workVars
<1> QED
  BY <1>1, <1>2, <1>3, <1>4, <1>5, <1>6 DEF Next, Finished

\* Every active worker serves a node: the workers of the nodes are the active ones.
LEMMA StaffIsBusy ==
    ASSUME TypeOK
    PROVE  /\ \A n \in Node : staffOf[n] = Cardinality(Staff(n)) /\ staffOf[n] \in Nat
           /\ Promise!Total = Cardinality(Busy)
<1>1. \A n \in Node : /\ staffOf[n] = Cardinality(Staff(n)) /\ staffOf[n] \in Nat
                      /\ Staff(n) \in SUBSET Busy /\ IsFiniteSet(Staff(n))
  BY LimitsAreNumbers, NodesAssumption DEF staffOf, Staff, Busy
<1> DEFINE Orders(n) == Bijection(1..staffOf[n], Staff(n))
           order == [n \in Node |-> CHOOSE f \in Orders(n) : TRUE]
           Seats == UNION {{n} \X (1..staffOf[n]) : n \in Node}
           seated == [u \in Seats |-> order[u[1]][u[2]]]
<1>2. \A n \in Node : order[n] \in Bijection(1..staffOf[n], Staff(n))
  <2> SUFFICES ASSUME NEW n \in Node PROVE order[n] \in Orders(n)
    OBVIOUS
  <2>1. \E f : f \in Orders(n)
    BY <1>1, FS_CardinalityType DEF ExistsBijection
  <2> QED
    BY <2>1
<1>3. \A u \in Seats : /\ u = <<u[1], u[2]>> /\ u[1] \in Node /\ u[2] \in 1..staffOf[u[1]]
  OBVIOUS
<1>4. \A n \in Node : \A i \in 1..staffOf[n] : <<n, i>> \in Seats
  OBVIOUS
<1> HIDE DEF order, Seats
<1>5. \A u \in Seats : seated[u] = order[u[1]][u[2]] /\ seated[u] \in Staff(u[1])
  BY <1>2, <1>3 DEF Bijection, Injection, Surjection
<1>6. seated \in [Seats -> Busy]
  BY <1>1, <1>3, <1>5
<1> HIDE DEF seated
<1>7. ASSUME NEW u \in Seats, NEW v \in Seats, seated[u] = seated[v] PROVE u = v
  <2>1. u[1] = v[1]
    BY <1>5, <1>7 DEF Staff
  <2>2. order[u[1]][u[2]] = order[u[1]][v[2]]
    BY <1>5, <1>7, <2>1
  <2>3. u[2] = v[2]
    <3> DEFINE f == order[u[1]]
               I == 1..staffOf[u[1]]
    <3>1. f \in Injection(I, Staff(u[1])) /\ u[2] \in I /\ v[2] \in I
      BY <1>2, <1>3, <2>1, Zenon DEF Bijection
    <3>2. f[u[2]] = f[v[2]]
      BY <2>2
    <3> HIDE DEF f, I
    <3>3. DOMAIN f = I /\ \A i, j \in DOMAIN f : f[i] = f[j] => i = j
      BY <3>1 DEF Injection, IsInjective
    <3> QED
      BY <3>1, <3>2, <3>3
  <2> QED
    BY <1>3, <2>1, <2>3
<1>8. ASSUME NEW w \in Busy PROVE \E u \in Seats : seated[u] = w
  <2>1. active[w] \in Node /\ w \in Staff(active[w])
    BY DEF Busy, Staff, TypeOK
  <2>2. PICK i \in 1..staffOf[active[w]] : order[active[w]][i] = w
    BY <1>2, <2>1 DEF Bijection, Surjection
  <2>3. <<active[w], i>> \in Seats
    BY <1>4, <2>1
  <2> QED
    BY <1>5, <2>2, <2>3
<1>9. seated \in Bijection(Seats, Busy)
  BY <1>6, <1>7, <1>8, Zenon DEF Bijection, Injection, IsInjective, Surjection
<1>10. IsFiniteSet(Seats)
  <2>1. staffOf \in [Node -> Nat]
    BY <1>1 DEF staffOf
  <2>2. Seats = Units(staffOf)
    BY DEF Seats, Units, staffOf
  <2> QED
    BY <2>1, <2>2, NodesAssumption, UnitsFinite
<1>11. ExistsBijection(Seats, Busy)
  BY <1>9, Zenon DEF ExistsBijection
<1>12. Cardinality(Seats) = Cardinality(Busy)
  BY <1>10, <1>11, FS_Bijection
<1>13. Promise!Total = Cardinality(Seats)
  BY DEF Promise!Total, Cardinality, Promise!Cardinality, Seats
<1> QED
  BY <1>1, <1>12, <1>13

\* A worker leaves a node, or joins one.
LEMMA StaffLeaves ==
    ASSUME TypeOK, NEW w \in Busy, active'[w] = None,
           \A v \in Worker \ {w} : active'[v] = active[v]
    PROVE  /\ active[w] \in Node /\ staffOf[active[w]] > 0
           /\ staffOf' = [staffOf EXCEPT ![active[w]] = @ - 1]
<1> PICK n \in Node : n = active[w]
  BY DEF Busy, TypeOK
<1>1. w \in Worker /\ n # None /\ w \in Staff(n)
  BY DEF Busy, Staff
<1>2. Staff(n)' = Staff(n) \ {w} /\ IsFiniteSet(Staff(n))
  <2>1. \A v : v \in Staff(n)' <=> v \in Staff(n) \ {w}
    BY <1>1 DEF Staff
  <2> QED
    BY <2>1, LimitsAreNumbers DEF Staff
<1>3. Cardinality(Staff(n)') = Cardinality(Staff(n)) - 1 /\ Cardinality(Staff(n)) > 0
  <2>1. Cardinality(Staff(n) \ {w}) = Cardinality(Staff(n)) - 1
    BY <1>1, <1>2, FS_RemoveElement
  <2>2. Cardinality(Staff(n)) \in Nat /\ Cardinality(Staff(n)) # 0
    BY <1>1, <1>2, FS_EmptySet, FS_CardinalityType
  <2> QED
    BY <1>2, <2>1, <2>2
<1>4. \A m \in Node \ {n} : Staff(m)' = Staff(m)
  <2> SUFFICES ASSUME NEW m \in Node \ {n} PROVE \A v : v \in Staff(m)' <=> v \in Staff(m)
    OBVIOUS
  <2> QED
    BY <1>1, NodesAssumption DEF Staff
<1> QED
  BY <1>1, <1>3, <1>4 DEF staffOf

LEMMA StaffJoins ==
    ASSUME TypeOK, NEW w \in Worker \ Busy, NEW n \in Node, active'[w] = n,
           \A v \in Worker \ {w} : active'[v] = active[v]
    PROVE  staffOf' = [staffOf EXCEPT ![n] = @ + 1]
<1>1. active[w] = None /\ None \notin Node
  BY NodesAssumption DEF Busy
<1>2. Staff(n)' = Staff(n) \cup {w} /\ w \notin Staff(n) /\ IsFiniteSet(Staff(n))
  <2>1. \A v : v \in Staff(n)' <=> v \in Staff(n) \cup {w}
    BY <1>1 DEF Staff
  <2> QED
    BY <1>1, <2>1, LimitsAreNumbers DEF Staff
<1>3. Cardinality(Staff(n)') = Cardinality(Staff(n)) + 1
  BY <1>2, FS_AddElement
<1>4. \A m \in Node \ {n} : Staff(m)' = Staff(m)
  <2> SUFFICES ASSUME NEW m \in Node \ {n} PROVE \A v : v \in Staff(m)' <=> v \in Staff(m)
    OBVIOUS
  <2> QED
    BY <1>1 DEF Staff
<1> QED
  BY <1>3, <1>4 DEF staffOf

\* A step that moves nobody and ends no operation settles nodes, stops the pool or
\* stutters.
LEMMA QuietStaffs ==
    ASSUME UNCHANGED <<active, pending>>, Stopping => Stopping',
           \/ settling' = settling
           \/ settling' \subseteq settling /\ Stopping' = Stopping
    PROVE  [Promise!Next]_Promise!vars
<1>1. staffOf' = staffOf /\ opOf' = opOf
  BY DEF staffOf, Staff, opOf
<1>2. Stopping' = Stopping \/ (Stopping' = TRUE /\ settling' = settling)
  BY DEF Stopping
<1> QED
  BY <1>1, <1>2 DEF Promise!Next, Promise!Settle, Promise!Stop, Promise!vars

LEMMA ScalesStaff ==
    ASSUME TypeOK, RosterInv, ScaleUp \/ ScaleDown
    PROVE  Promise!Next
<1>1. ~Stopping /\ Stopping' = Stopping /\ pending.kind = None
  <2>1. UNCHANGED <<shutdown, abort, failure>> /\ MayScale
    BY DEF ScaleUp, ScaleDown, SupervisorFrame, envVars
  <2> QED
    BY <2>1 DEF MayScale, Stopping
<1>0. opOf = Promise!None
  BY <1>1 DEF opOf, Promise!None, None
<1>2. CASE ScaleUp
  <2>1. PICK settled \in SUBSET settling, n \in Node, w \in Worker,
             fresh \in SUBSET (Worker \ spawned) :
           /\ CanScale(n, settled) /\ UnderCap /\ RoomAt(n)
           /\ IF parked # {} THEN w \in parked ELSE w \in fresh
           /\ Assign(w, n)
           /\ pending' = [NoOp EXCEPT !.kind = "add", !.src = w, !.node = n]
           /\ settling' = settling \ settled
    BY <1>2 DEF ScaleUp
  <2>2. w \notin Busy
    BY <1>2, <2>1 DEF RosterInv, ScaleUp
  <2>3. active'[w] = n /\ \A v \in Worker \ {w} : active'[v] = active[v]
    BY <2>1 DEF Assign, TypeOK
  <2>4. staffOf' = [staffOf EXCEPT ![n] = @ + 1]
    BY <2>2, <2>3, StaffJoins
  <2>5. opOf' = <<"hired", n>>
    BY <2>1 DEF opOf, NoOp, None
  <2>6. Promise!Rested(n)
    BY <1>0, <1>1, <2>1 DEF CanScale, Promise!Rested
  <2>7. Promise!Total < GlobalCap /\ (n \in Elastic => staffOf[n] < MaxThreads[n])
    BY <2>1, StaffIsBusy DEF UnderCap, RoomAt
  <2> QED
    BY <2>4, <2>5, <2>6, <2>7 DEF Promise!Next, Promise!Hire
<1>3. CASE ScaleDown
  <2>1. PICK settled \in SUBSET settling, n \in Node, w \in Worker :
           /\ CanScale(n, settled) /\ Shrinkable(n)
           /\ settling' = settling \ settled
           /\ \/ \E dst : pending' = [kind |-> "merge", src |-> w, dst |-> dst,
                                      node |-> n, rx |-> TRUE, waiting |-> FALSE]
              \/ pending' = [NoOp EXCEPT !.kind = "remove", !.src = w, !.node = n]
    BY <1>3 DEF ScaleDown
  <2>2. opOf' = <<"asked", n>>
    <3>1. ASSUME NEW dst, pending' = [kind |-> "merge", src |-> w, dst |-> dst,
                                      node |-> n, rx |-> TRUE, waiting |-> FALSE]
          PROVE  opOf' = <<"asked", n>>
      BY <3>1 DEF opOf, None
    <3>2. CASE pending' = [NoOp EXCEPT !.kind = "remove", !.src = w, !.node = n]
      BY <3>2 DEF opOf, NoOp, None
    <3> QED
      BY <2>1, <3>1, <3>2
  <2>3. staffOf' = staffOf
    BY <1>3 DEF ScaleDown, staffOf, Staff
  <2>4. Promise!Rested(n)
    BY <1>0, <1>1, <2>1 DEF CanScale, Promise!Rested
  <2>5. staffOf[n] > 1
    BY <2>1 DEF Shrinkable, staffOf
  <2> QED
    BY <2>2, <2>3, <2>4, <2>5 DEF Promise!Next, Promise!Dismiss
<1> QED
  BY <1>2, <1>3

LEMMA EventStaffs ==
    ASSUME TypeOK, RosterInv, AskedLeave, DrainEvent
    PROVE  [Promise!Next]_Promise!vars
<1> PICK e \in {Head(events)} : TRUE
  OBVIOUS
<1>1. OnStarted(e) \/ OnMerged(e) \/ OnParked(e) \/ OnFailed(e)
  BY DEF DrainEvent
<1>0. pending \in Operation /\ Stopping \in BOOLEAN
  BY DEF TypeOK, Stopping
<1>2. CASE OnStarted(e) \/ OnMerged(e)
  <2>1. active' = active /\ Stopping' = Stopping
    BY <1>2 DEF DrainEvent, OnStarted, OnMerged, SupervisorFrame, envVars, Stopping
  <2>2. CASE UNCHANGED <<pending, settling>>
    BY <2>1, <2>2, QuietStaffs
  <2>3. CASE Settle(pending) /\ pending.kind # None /\ (pending.kind = "add" \/ pending.waiting)
    <3>1. pending.node \in Node
      BY <2>3 DEF AskedLeave
    <3>2. opOf \in {<<"hired", pending.node>>, <<"left", pending.node>>} /\ opOf' = Promise!None
      BY <2>3 DEF opOf, Settle, NoOp, None, Promise!None
    <3>3. Promise!Finish(pending.node)
      BY <2>1, <2>3, <3>2 DEF Promise!Finish, Settle, staffOf, Staff
    <3> QED
      BY <3>1, <3>3 DEF Promise!Next
  <2> QED
    BY <1>2, <2>2, <2>3 DEF OnStarted, OnMerged, None
<1>3. CASE OnParked(e) \/ OnFailed(e)
  <2> PICK w \in {e.worker} : TRUE
    OBVIOUS
  <2>1. w \in Busy /\ active'[w] = None /\ \A v \in Worker \ {w} : active'[v] = active[v]
    BY <1>3, Leaves
  <2> PICK n \in Node : n = active[w]
    BY <2>1 DEF Busy, TypeOK
  <2>2. staffOf[n] > 0 /\ staffOf' = [staffOf EXCEPT ![n] = @ - 1]
    BY <2>1, StaffLeaves
  <2>3. Retires(w) => n = pending.node
    BY <2>1 DEF AskedLeave
  <2>4. Retires(w) => opOf = <<"asked", pending.node>>
    BY DEF Retires, opOf, None
  <2>5. ASSUME Stopping', opOf' \in {opOf, Promise!None}, settling' = settling PROVE Promise!Next
    BY <2>2, <2>5 DEF Promise!Next, Promise!Depart, Stopping
  <2>6. CASE OnFailed(e)
    <3>1. Stopping' /\ settling' = settling /\ pending' \in {pending, NoOp}
      BY <2>6 DEF OnFailed, Raise, Stopping
    <3>2. opOf' \in {opOf, Promise!None}
      BY <3>1 DEF opOf, NoOp, None, Promise!None
    <3> QED
      BY <2>5, <3>1, <3>2
  <2>7. CASE OnParked(e) /\ ~Retires(w)
    <3>1. pending' = pending /\ settling' = settling /\ Stopping' = Stopping
      BY <2>7 DEF OnParked, DrainEvent, SupervisorFrame, envVars, Stopping
    <3>2. Stopping
      <4>1. events \in Seq(Message) /\ events # <<>>
        BY DEF DrainEvent, TypeOK
      <4>2. 1 \in 1..Len(events) /\ events[1] = e
        BY <4>1
      <4> QED
        BY <2>7, <4>2 DEF AskedLeave, AskedParks, OnParked
    <3> QED
      BY <2>5, <3>1, <3>2 DEF opOf
  <2>8. CASE OnParked(e) /\ Retires(w) /\ pending.kind = "remove"
    <3>1. Settle(pending) /\ Stopping' = Stopping
      BY <2>8 DEF OnParked, DrainEvent, SupervisorFrame, envVars, Stopping
    <3>2. opOf' = Promise!None /\ settling' = settling \cup {n}
      BY <2>3, <2>8, <3>1 DEF Settle, opOf, NoOp, None, Promise!None
    <3> QED
      BY <2>2, <2>3, <2>4, <2>8, <3>1, <3>2 DEF Promise!Next, Promise!LeaveAndFinish
  <2>9. CASE OnParked(e) /\ Retires(w) /\ HandOver(e)
    <3>1. CASE /\ pending' = [pending EXCEPT !.rx = FALSE, !.waiting = TRUE]
               /\ UNCHANGED <<abort, failure, settling>>
      <4>1. opOf' = <<"left", n>> /\ Stopping' = Stopping
        BY <1>0, <2>3, <2>9, <3>1 DEF Retires, Operation, opOf, None, DrainEvent,
           SupervisorFrame, envVars, Stopping
      <4> QED
        BY <2>2, <2>3, <2>4, <2>9, <3>1, <4>1 DEF Promise!Next, Promise!Leave
    <3>2. CASE /\ pending' = [pending EXCEPT !.rx = FALSE]
               /\ Raise("internal") /\ settling' = settling
      <4>1. opOf' = opOf
        BY <1>0, <3>2 DEF Operation, opOf
      <4> QED
        BY <2>5, <3>2, <4>1 DEF Raise, Stopping
    <3> QED
      BY <2>9, <3>1, <3>2 DEF HandOver
  <2> QED
    BY <1>3, <2>6, <2>7, <2>8, <2>9 DEF OnParked
<1> QED
  BY <1>1, <1>2, <1>3

\* However many operations, failures, panics and merges: the roster shows what
\* Staffing promises, before a stop and after it.
THEOREM PoolStaffs == Spec => ImplementsStaffing
<1>1. Init => Promise!Init
  <2> SUFFICES ASSUME Init PROVE Promise!Init
    OBVIOUS
  <2>1. ASSUME NEW n \in Node PROVE Staff(n) = {w \in DOMAIN Startup : Startup[w] = n}
    <3>1. \A w : w \in Staff(n) <=> w \in {v \in DOMAIN Startup : Startup[v] = n}
      BY StartupAssumption, NodesAssumption DEF Init, Staff
    <3> QED
      BY <3>1
  <2>2. staffOf = [n \in Node |-> Initially(n)]
    BY <2>1 DEF staffOf, Initially
  <2> QED
    BY <2>2 DEF Init, Promise!Init, Promise!None, opOf, NoOp, None, Stopping
<1>2. ASSUME TypeOK, RosterInv, AskedLeave, [Next]_vars PROVE [Promise!Next]_Promise!vars
  <2>0. Stopping => Stopping'
    BY <1>2, FlagsLatch
  <2>1. CASE DrainEvent
    BY <1>2, <2>1, EventStaffs
  <2>2. CASE ScaleUp \/ ScaleDown
    BY <1>2, <2>2, ScalesStaff
  <2>3. CASE Supervisor /\ ~DrainEvent /\ ~ScaleUp /\ ~ScaleDown
    <3>1. UNCHANGED <<active, pending>>
      BY <2>3 DEF Supervisor, EventsDrained, DrainFailure, CloseLinks, NoScale, CheckExit,
         StopParked, JoinWorkers, roster
    <3>2. \/ settling' = settling
          \/ settling' \subseteq settling /\ UNCHANGED <<shutdown, abort, failure>>
      BY <2>3 DEF Supervisor, EventsDrained, DrainFailure, CloseLinks, NoScale, CheckExit,
         StopParked, JoinWorkers, roster, SupervisorFrame, envVars
    <3> QED
      BY <2>0, <3>1, <3>2, QuietStaffs DEF Stopping
  <2>4. CASE \E w \in Worker : Steps(w) \/ Exits(w) \/ Panic(w)
    BY <2>0, <2>4, WorkerFrames, QuietStaffs DEF supVars
  <2>5. CASE Environment
    BY <2>0, <2>5, EnvironmentFrames, QuietStaffs DEF supVars
  <2>6. CASE UNCHANGED vars
    BY <2>0, <2>6, QuietStaffs DEF vars, supVars
  <2> QED
    BY <1>2, <2>1, <2>2, <2>3, <2>4, <2>5, <2>6 DEF Next, Finished
<1>3. TypeOK /\ RosterInv /\ LinksHeld /\ AskedLeave /\ [Next]_vars
         => TypeOK' /\ RosterInv' /\ LinksHeld' /\ AskedLeave'
  BY TypeStep, RosterStep, LinksStep, AskedStep
<1> QED
  BY TypeInit, RosterInit, LinksInit, AskedInit, <1>1, <1>2, <1>3, PTL
     DEF Spec, ImplementsStaffing, Promise!Spec

=============================================================================
