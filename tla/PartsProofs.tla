---------------------------- MODULE PartsProofs ----------------------------
(***************************************************************************)
(* Proofs about the components that MCParts puts side by side: Startup,    *)
(* where failed spawns strand no worker in any acyclic graph,              *)
(* WeightedBranch, which serves an empty arm whatever the averages say,    *)
(* Lease, where no buffer is leased twice and the counts are exact, and    *)
(* the types of all of them with the graph's.                              *)
(***************************************************************************)
EXTENDS MCParts, GraphProofs, FiniteSetTheorems, SequenceTheorems, TLAPS

-----------------------------------------------------------------------------
(* Startup.                                                                *)

\* What FlattenSeq computes along its argument.
FlatStep(seqs, f, i) == IF i = 1 THEN seqs[i] ELSE f[i - 1] \o seqs[i]
Flattens(seqs, f) == f = [i \in 1..Len(seqs) |-> FlatStep(seqs, f, i)]

LEMMA FlattenDefined ==
    ASSUME NEW seqs, Len(seqs) \in Nat
    PROVE  \E f : Flattens(seqs, f)
<1> DEFINE n == Len(seqs)
           Upto(f, k) == \A i \in 1..n : i <= k => f[i] = FlatStep(seqs, f, i)
           K == {k \in Nat : ~ \E f : Upto(f, k)}
<1>2. n \in Nat
  OBVIOUS
<1> HIDE DEF n
<1>1. ASSUME NEW c \in Nat, ~ \E f : Upto(f, c) PROVE FALSE
  <2>1. c \in K
    BY <1>1
  <2>2. PICK k \in K : \A j \in K : k <= j
    BY <2>1, SmallestExists
  <2>3. ~ \E f : Upto(f, k)
    BY <2>2
  <2>4. k # 0
    <3>1. Upto(seqs, 0)
      OBVIOUS
    <3> HIDE DEF Upto
    <3> QED
      BY <2>3, <3>1
  <2>5. k \in Nat /\ k - 1 \in Nat /\ k - 1 \notin K
    <3> HIDE DEF Upto
    <3> QED
      BY <2>2, <2>4
  <2>6. PICK f : Upto(f, k - 1)
    <3> HIDE DEF Upto
    <3> QED
      BY <2>5
  <2> DEFINE g == [i \in 1..n |-> FlatStep(seqs, f, i)]
  <2>7. \A i \in 1..n : g[i] = FlatStep(seqs, f, i) /\ (i <= k - 1 => g[i] = f[i])
    BY <2>6
  <2> HIDE DEF g
  <2>8. ASSUME NEW i \in 1..n, i <= k PROVE g[i] = FlatStep(seqs, g, i)
    <3>1. i # 1 => i - 1 \in 1..n /\ i - 1 <= k - 1
      BY <1>2, <2>5, <2>8
    <3>2. i # 1 => g[i - 1] = f[i - 1]
      BY <2>7, <3>1
    <3> QED
      BY <2>7, <3>2 DEF FlatStep
  <2>9. Upto(g, k)
    BY <2>8
  <2> HIDE DEF Upto
  <2> QED
    BY <2>3, <2>9
<1>3. PICK f : Upto(f, n)
  <2> HIDE DEF Upto
  <2> QED
    BY <1>1, <1>2
<1> DEFINE g == [i \in 1..n |-> f[i]]
<1>4. ASSUME NEW i \in 1..n PROVE g[i] = FlatStep(seqs, g, i)
  <2>1. f[i] = FlatStep(seqs, f, i)
    BY <1>2, <1>3
  <2>2. i # 1 => i - 1 \in 1..n
    BY <1>2
  <2> QED
    BY <2>1, <2>2 DEF FlatStep
<1>5. g = [i \in 1..n |-> FlatStep(seqs, g, i)]
  <2>1. g = [i \in 1..n |-> g[i]]
    OBVIOUS
  <2> HIDE DEF g
  <2> QED
    BY <1>4, <2>1
<1>6. Flattens(seqs, g)
  <2> HIDE DEF g
  <2> QED
    BY <1>5 DEF Flattens, n
<1> HIDE DEF g
<1> QED
  BY <1>6

LEMMA FlattenedType ==
    ASSUME NEW T, NEW seqs \in Seq(Seq(T))
    PROVE  FlattenSeq(seqs) \in Seq(T)
<1>0. Len(seqs) \in Nat /\ \A i \in 1..Len(seqs) : seqs[i] \in Seq(T)
  OBVIOUS
<1>1. CASE Len(seqs) = 0
  <2>1. seqs = <<>>
    BY <1>1
  <2> QED
    BY <1>1, <2>1 DEF FlattenSeq
<1>2. CASE Len(seqs) # 0
  <2> DEFINE f == CHOOSE g : Flattens(seqs, g)
  <2>1. FlattenSeq(seqs) = f[Len(seqs)]
    BY <1>2 DEF FlattenSeq, Flattens, FlatStep
  <2>2. Flattens(seqs, f)
    BY <1>0, FlattenDefined
  <2> HIDE DEF f
  <2>3. \A i \in 1..Len(seqs) : f[i] = FlatStep(seqs, f, i)
    BY <2>2 DEF Flattens
  <2> DEFINE K == {i \in 1..Len(seqs) : f[i] \notin Seq(T)}
  <2>4. ASSUME NEW c \in K PROVE FALSE
    <3>1. K \subseteq Nat /\ K # {}
      <4>1. K \subseteq 1..Len(seqs)
        OBVIOUS
      <4> HIDE DEF K
      <4> QED
        BY <1>0, <2>4, <4>1
    <3>2. PICK k \in K : \A j \in K : k <= j
      <4> HIDE DEF K
      <4> QED
        BY <3>1, SmallestExists
    <3>3. k # 1 => k - 1 \in 1..Len(seqs) /\ k - 1 \notin K
      BY <1>0, <3>2
    <3>4. k # 1 => f[k - 1] \in Seq(T)
      BY <3>3
    <3>5. k \in 1..Len(seqs) /\ seqs[k] \in Seq(T)
      BY <1>0, <3>2
    <3>6. k # 1 => f[k - 1] \o seqs[k] \in Seq(T)
      BY <3>4, <3>5, ConcatProperties
    <3>7. f[k] \in Seq(T)
      BY <2>3, <3>5, <3>6 DEF FlatStep
    <3> QED
      BY <3>2, <3>7
  <2>5. Len(seqs) \in 1..Len(seqs)
    BY <1>0, <1>2
  <2> QED
    BY <2>1, <2>4, <2>5
<1> QED
  BY <1>1, <1>2

\* A spawn of the prologue is for a node, or parks the worker.
LEMMA PlanType == Plan \in Seq(Stage \cup {0})
<1>1. /\ Stage = 1..Len(Stages) /\ Len(Stages) \in Nat
      /\ \A s \in Stage : Stages[s].policy \in Policy /\ Stages[s].count \in Nat \ {0}
  <2> DEFINE T == [policy : Policy, count : Nat \ {0}, in : Nat, outs : SUBSET Nat]
  <2>1. Stages \in Seq(T)
    BY StartupAssumption
  <2>2. Stage = 1..Len(Stages) /\ Len(Stages) \in Nat /\ \A s \in Stage : Stages[s] \in T
    <3> HIDE DEF T
    <3> QED
      BY <2>1 DEF Stage
  <2> QED
    BY <2>2
<1>2. \A s \in Stage : BaseCount(s) \in Nat /\ ExtraCount(s) \in Nat
  BY <1>1 DEF BaseCount, ExtraCount, Policy
<1>3. ASSUME NEW n \in [Stage -> Nat]
      PROVE  [s \in Stage |-> [i \in 1 .. n[s] |-> s]] \in Seq(Seq(Stage))
  <2>1. \A s \in Stage : [i \in 1 .. n[s] |-> s] \in Seq(Stage)
    OBVIOUS
  <2> QED
    BY <1>1, <2>1
<1>4. Bases \in Seq(Stage) /\ Repeated(ExtraCount) \in Seq(Stage)
  <2> DEFINE b == [s \in Stage |-> BaseCount(s)]
             e == [s \in Stage |-> ExtraCount(s)]
  <2>1. b \in [Stage -> Nat] /\ e \in [Stage -> Nat]
    BY <1>2
  <2>2. [s \in Stage |-> [i \in 1 .. BaseCount(s) |-> s]] \in Seq(Seq(Stage))
    <3>1. [s \in Stage |-> [i \in 1 .. b[s] |-> s]] \in Seq(Seq(Stage))
      BY <1>3, <2>1
    <3> QED
      BY <3>1
  <2>3. [s \in Stage |-> [i \in 1 .. ExtraCount(s) |-> s]] \in Seq(Seq(Stage))
    <3>1. [s \in Stage |-> [i \in 1 .. e[s] |-> s]] \in Seq(Seq(Stage))
      BY <1>3, <2>1
    <3> QED
      BY <3>1
  <2> QED
    BY <2>2, <2>3, FlattenedType DEF Bases, Repeated
<1>5. [i \in 1 .. ParkedTarget |-> 0] \in Seq({0})
  <2>1. ParkedTarget \in Nat
    <3>1. IsFiniteSet(Stage)
      <4>1. 1 \in Int /\ Len(Stages) \in Int
        BY <1>1
      <4>2. IsFiniteSet(1 .. Len(Stages))
        BY <4>1, FS_Interval
      <4> QED
        BY <1>1, <4>2
    <3>2. IsFiniteSet({s \in Stage : Stages[s].policy \in {"scalable", "support"}})
      BY <3>1, FS_Subset
    <3> QED
      BY <3>2, FS_CardinalityType DEF ParkedTarget
  <2> QED
    BY <2>1
<1> QED
  BY <1>4, <1>5 DEF Plan

WorkerState ==
    [stage : Stage \cup {0}, pc : {"parked", "given", "working", "spent", "ended"}]

CrewInv ==
    /\ next \in Nat \ {0}
    /\ crew \in Seq(WorkerState)
    /\ \A w \in DOMAIN crew : crew[w].pc \in {"given", "working"} => crew[w].stage \in Stage

LEMMA CrewStep == CrewInv /\ [StartNext]_startVars => CrewInv'
<1> SUFFICES ASSUME CrewInv, [StartNext]_startVars PROVE CrewInv'
  OBVIOUS
<1>d. DOMAIN crew = 1..Len(crew) /\ Len(crew) \in Nat
  BY DEF CrewInv
<1>1. CASE SpawnWorker
  <2>1. next' = next + 1
    BY <1>1 DEF SpawnWorker
  <2>2. CASE Wanted
    <3> DEFINE e == [stage |-> Plan[next],
                     pc |-> IF Plan[next] \in Stage THEN "given" ELSE "parked"]
    <3>1. crew' = Append(crew, e)
      BY <1>1, <2>2 DEF SpawnWorker
    <3>2. e \in WorkerState /\ (e.pc \in {"given", "working"} => e.stage \in Stage)
      BY <1>1, PlanType DEF WorkerState, CrewInv, SpawnWorker
    <3> HIDE DEF e
    <3>3. /\ crew' \in Seq(WorkerState) /\ DOMAIN crew' = 1..Len(crew) + 1
          /\ \A w \in 1..Len(crew) : crew'[w] = crew[w]
          /\ crew'[Len(crew) + 1] = e
      BY <3>1, <3>2 DEF CrewInv
    <3>4. \A w \in 1..Len(crew) + 1 : w \in 1..Len(crew) \/ w = Len(crew) + 1
      BY <1>d
    <3> QED
      BY <1>d, <2>1, <3>2, <3>3, <3>4 DEF CrewInv
  <2>3. CASE ~Wanted
    BY <1>1, <2>1, <2>3 DEF SpawnWorker, CrewInv
  <2> QED
    BY <2>2, <2>3
<1>2. ASSUME NEW w \in DOMAIN crew,
             NEW from \in {"parked", "given", "working", "spent"},
             NEW to \in {"working", "spent", "ended"},
             Step(w, from, to), to = "working" => from = "given"
      PROVE  CrewInv'
  <2>1. crew[w] \in WorkerState /\ crew[w].pc = from
    BY <1>2, <1>d, ElementOfSeq DEF CrewInv, Step
  <2>2. crew' = [crew EXCEPT ![w].pc = to] /\ next' = next
    BY <1>2 DEF Step
  <2>3. [crew[w] EXCEPT !.pc = to] \in WorkerState
    BY <2>1 DEF WorkerState
  <2>4. crew' = [crew EXCEPT ![w] = [crew[w] EXCEPT !.pc = to]]
    BY <2>2
  <2>5. /\ crew' \in Seq(WorkerState) /\ DOMAIN crew' = DOMAIN crew
        /\ crew'[w] = [crew[w] EXCEPT !.pc = to]
        /\ \A v \in DOMAIN crew \ {w} : crew'[v] = crew[v]
    BY <1>d, <2>3, <2>4, ExceptSeq DEF CrewInv
  <2>6. crew'[w].pc = to /\ crew'[w].stage = crew[w].stage
    BY <2>1, <2>5 DEF WorkerState
  <2> QED
    BY <1>2, <2>1, <2>2, <2>5, <2>6 DEF CrewInv
<1>3. CASE \E w \in DOMAIN crew : Begin(w) \/ FailInit(w) \/ SeeDisconnect(w) \/ EndThread(w)
  BY <1>2, <1>3 DEF Begin, FailInit, SeeDisconnect, EndThread
<1>4. CASE UNCHANGED <<next, crew>>
  BY <1>4 DEF CrewInv
<1> QED
  BY <1>1, <1>3, <1>4
  DEF StartNext, startVars, StartRecorder, FailRecorder, SpawnSupervisor, FailSupervisor,
      FailWorker, FailScaling, Ready

LEMMA CrewInvariant == StartSpec => []CrewInv
<1>1. StartInit => CrewInv
  BY DEF StartInit, CrewInv
<1> QED
  BY <1>1, CrewStep, PTL DEF StartSpec

\* A node that reads a feeder, or a link that a node behind a feeder writes, is
\* behind a feeder.
LEMMA BehindFeederClosed ==
    ASSUME NEW s \in Stage,
           \/ Stages[s].in \in ReadByFeeder
           \/ \E t \in BehindFeeder : Stages[s].in \in Stages[t].outs
    PROVE  s \in BehindFeeder
BY Zenon DEF BehindFeeder

\* After a failed spawn: the first of the nodes that still have a worker at work
\* reads a link nobody can write.
THEOREM FailedSpawnsDrain == StartSpec => []SpawnFailureDrains
<1>1. ASSUME CrewInv, supervisor = "returned", CallerGone,
             NEW w \in DOMAIN crew, crew[w].pc # "ended", crew[w].stage \notin BehindFeeder,
             \A v \in DOMAIN crew : ~Moves(v)
      PROVE  FALSE
  <2>1. \A v \in DOMAIN crew : crew[v] \in WorkerState
    BY <1>1, ElementOfSeq DEF CrewInv
  <2>2. \A v \in DOMAIN crew : crew[v].pc \in {"working", "ended"}
    BY <1>1, <2>1 DEF WorkerState, Moves
  <2>3. \A v \in DOMAIN crew :
          crew[v].pc = "working" => LinkOpen(Stages[crew[v].stage].in) /\ crew[v].stage \in Stage
    BY <1>1 DEF Moves, CrewInv
  <2> DEFINE S == {s \in Stage \ BehindFeeder :
                     \E v \in DOMAIN crew : crew[v].pc = "working" /\ crew[v].stage = s}
  <2>4. S \in (SUBSET Stage) \ {{}}
    <3>1. crew[w].pc = "working"
      BY <1>1, <2>2
    <3>2. crew[w].stage \in Stage
      BY <2>3, <3>1
    <3>3. crew[w].stage \in S
      BY <1>1, <3>1, <3>2
    <3>4. S \subseteq Stage /\ S # {}
      BY <3>3
    <3> QED
      BY <3>4, Zenon
  <2>5. PICK s \in S : \A t \in S : Stages[s].in \notin Stages[t].outs
    BY <2>4, AcyclicAssumption
  <2>6. PICK v \in DOMAIN crew : crew[v].pc = "working" /\ crew[v].stage = s
    BY <2>5
  <2>7. LinkOpen(Stages[s].in) /\ s \in Stage /\ s \notin BehindFeeder
    BY <2>3, <2>5, <2>6
  <2>8. CASE Stages[s].in \in ReadByFeeder
    BY <2>7, <2>8, BehindFeederClosed
  <2>9. CASE \E u \in Assigned : crew[u].pc \in {"given", "working"}
                                  /\ Stages[s].in \in Stages[crew[u].stage].outs
    <3>1. PICK u \in DOMAIN crew : /\ crew[u].stage \in Stage /\ crew[u].pc = "working"
                                   /\ Stages[s].in \in Stages[crew[u].stage].outs
      BY <2>2, <2>9 DEF Assigned
    <3>2. crew[u].stage \in BehindFeeder
      BY <2>5, <3>1
    <3> QED
      BY <2>7, <3>1, <3>2, BehindFeederClosed
  <2> QED
    BY <1>1, <2>7, <2>8, <2>9 DEF LinkOpen
<1>2. CrewInv => SpawnFailureDrains
  BY <1>1 DEF SpawnFailureDrains
<1> QED
  BY <1>2, CrewInvariant, PTL

-----------------------------------------------------------------------------
(* WeightedBranch.                                                         *)

\* An arm that was just passed over has the next turn.
BranchInv ==
    /\ smoothed \in [Arm -> Nat] /\ capacity \in [Arm -> Nat \ {0}]
    /\ queued \in [Arm -> Nat] /\ shown \in [Arm -> Nat] /\ seenLeft \in Nat
    /\ alternateLeft \in BOOLEAN
    /\ passed \in [Arm -> 0..1]
    /\ \A a \in Arm : passed[a] = 1 => Turn = a

\* Only an arm that holds something can be fuller than the other.
LEMMA FullerIsNotEmpty ==
    ASSUME BranchInv, NEW a \in Arm, Emptier(a)
    PROVE  Seen(Other(a)) # 0
<1> DEFINE b == Other(a)
<1>1. b \in Arm
  BY DEF b, Other, Arm
<1>2. EffectiveLen(a) \in Nat /\ capacity[a] \in Nat /\ capacity[b] \in Nat
  BY <1>1 DEF EffectiveLen, Seen, Most, BranchInv, Arm
<1>3. ASSUME Seen(b) = 0 PROVE FALSE
  <2>1. EffectiveLen(b) = 0
    BY <1>3 DEF EffectiveLen
  <2> DEFINE x == EffectiveLen(a) y == capacity[b] z == capacity[a]
  <2>2. x * y < 0 * z
    BY <2>1 DEF Emptier
  <2>3. x \in Nat /\ y \in Nat /\ z \in Nat
    BY <1>2
  <2> HIDE DEF x, y, z
  <2>4. 0 * z = 0 /\ x * y \in Nat
    BY <2>3
  <2> QED
    BY <2>2, <2>4
<1> QED
  BY <1>3

LEMMA BranchStep == BranchInv /\ [BranchNext]_branchVars => BranchInv'
<1> SUFFICES ASSUME BranchInv, [BranchNext]_branchVars PROVE BranchInv'
  OBVIOUS
<1> USE DEF Turn
<1>a. \A a \in Arm : Other(a) \in Arm /\ Other(a) # a /\ \A b \in Arm : b = a \/ b = Other(a)
  BY DEF Arm, Other
<1>0. CASE UNCHANGED branchVars
  BY <1>0 DEF branchVars, armVars, BranchInv
<1>1. CASE Receive
  BY <1>1 DEF Receive, armVars, BranchInv
<1>6. CASE ReadLeft
  <2>1. shown["left"] \in Nat
    BY DEF BranchInv, Arm
  <2> QED
    BY <1>6, <2>1 DEF ReadLeft, armVars, BranchInv
<1>2. CASE Sample
  <2>1. ASSUME NEW a \in Arm, SampleArm(a)
        PROVE  smoothed' \in [Arm -> Nat] /\ capacity' \in [Arm -> Nat \ {0}]
    <3>1. PICK s \in Between(smoothed[a], shown[a]), c \in 1 .. MaxCapacity :
            smoothed' = [smoothed EXCEPT ![a] = s] /\ capacity' = [capacity EXCEPT ![a] = c]
      BY <2>1 DEF SampleArm
    <3>2. s \in Nat
      BY DEF Between, Least, Most, BranchInv
    <3>3. c \in Nat \ {0}
      BY BranchAssumption
    <3> QED
      BY <3>1, <3>2, <3>3 DEF BranchInv
  <2>2. smoothed' \in [Arm -> Nat] /\ capacity' \in [Arm -> Nat \ {0}]
    BY <1>2, <2>1 DEF Sample, Arm
  <2> QED
    BY <1>2, <2>2 DEF Sample, BranchInv
<1>3. ASSUME NEW a \in Arm, RouteByFill(a) PROVE BranchInv'
  <2>1. Seen(Other(a)) # 0
    BY <1>3, FullerIsNotEmpty DEF RouteByFill
  <2>2. passed' = [b \in Arm |-> 0]
    BY <1>3, <2>1, <1>a DEF RouteByFill, Send
  <2>3. queued' \in [Arm -> Nat] /\ seenLeft' \in Nat /\ UNCHANGED <<shown, armVars, alternateLeft>>
    BY <1>3, BranchAssumption DEF RouteByFill, Send, Least, BranchInv
  <2> QED
    BY <2>2, <2>3 DEF BranchInv, armVars
<1>4. CASE RouteInTurn
  <2>1. Turn \in Arm /\ Turn' = Other(Turn) /\ alternateLeft' \in BOOLEAN
    BY <1>4 DEF RouteInTurn, Arm, Other, BranchInv
  <2>2. queued' \in [Arm -> Nat] /\ seenLeft' \in Nat /\ UNCHANGED <<shown, armVars>>
    BY <1>4, <2>1, BranchAssumption DEF RouteInTurn, Send, Least, BranchInv
  <2>3. passed' = [b \in Arm |-> IF b = Turn \/ Seen(b) # 0 THEN 0 ELSE passed[b] + 1]
    BY <1>4 DEF RouteInTurn, Send
  <2>4. passed[Other(Turn)] = 0
    BY <2>1, <1>a DEF BranchInv
  <2>5. \A b \in Arm : passed'[b] \in 0..1 /\ (passed'[b] = 1 => b = Other(Turn))
    BY <2>1, <2>3, <2>4, <1>a
  <2> QED
    BY <2>1, <2>2, <2>3, <2>5 DEF BranchInv, armVars
<1>5. ASSUME NEW a \in Arm, Drain(a) \/ Publish(a) PROVE BranchInv'
  BY <1>5 DEF Drain, Publish, armVars, BranchInv
<1> QED
  BY <1>0, <1>1, <1>2, <1>3, <1>4, <1>5, <1>6 DEF BranchNext

\* choose_route: an arm that is read as empty gets its item by the next turn.
THEOREM EmptyArmsServed == BranchSpec => []EmptyArmServed
<1>1. BranchInit => BranchInv
  BY DEF BranchInit, BranchInv, Arm
<1>2. BranchInv => EmptyArmServed
  BY DEF BranchInv, EmptyArmServed
<1> QED
  BY <1>1, <1>2, BranchStep, PTL DEF BranchSpec

-----------------------------------------------------------------------------
(* Lease.                                                                  *)

\* Where the buffers are: no buffer has two places, and each was made.
Placed ==
    /\ \A i, j \in DOMAIN pool : pool[i] = pool[j] => i = j
    /\ \A k, l \in Live : lease[k] = lease[l] => k = l
    /\ \A l \in Live : lease[l] \notin Pooled \cup detached /\ lease[l] <= made
    /\ Pooled \cap detached = {} /\ Pooled \cap dirty = {}
    /\ \A b \in Pooled \cup detached : b <= made

\* A buffer was made only when none was waiting.
Counted == Len(pool) + Cardinality(Live) <= peak

\* A drop is refused only once the supervisor is gone, and that goes after a
\* stop or through a failed spawn.
Guarded ==
    /\ refused # {} => holders = {}
    /\ Supervisor \notin holders => stopped \/ early
    /\ reported => early

LeaseInv == LeaseTypeOK /\ Placed /\ Counted /\ Guarded

-----------------------------------------------------------------------------
(* What the operations on the channel do to the buffers in it.             *)

In(s) == {s[i] : i \in DOMAIN s}
Once(s) == \A i, j \in DOMAIN s : s[i] = s[j] => i = j

LEMMA Returned ==
    ASSUME NEW S, NEW s \in Seq(S), NEW e \in S
    PROVE  /\ Append(s, e) \in Seq(S) /\ Len(Append(s, e)) = Len(s) + 1
           /\ In(Append(s, e)) = In(s) \cup {e}
           /\ Once(s) /\ e \notin In(s) => Once(Append(s, e))
<1> DEFINE t == Append(s, e)
<1>1. /\ t \in Seq(S) /\ Len(t) = Len(s) + 1 /\ t[Len(s) + 1] = e
      /\ \A i \in 1..Len(s) : t[i] = s[i]
  OBVIOUS
<1>2. DOMAIN s = 1..Len(s) /\ DOMAIN t = 1..Len(t) /\ Len(s) \in Nat
  BY <1>1
<1> HIDE DEF t
<1>3. DOMAIN t = DOMAIN s \cup {Len(s) + 1}
  BY <1>1, <1>2
<1>4. In(t) = In(s) \cup {e}
  BY <1>1, <1>2, <1>3 DEF In
<1>5. Once(s) /\ e \notin In(s) => Once(t)
  BY <1>1, <1>2, <1>3 DEF In, Once
<1> QED
  BY <1>1, <1>4, <1>5 DEF t

LEMMA Received ==
    ASSUME NEW S, NEW s \in Seq(S), s # <<>>
    PROVE  /\ Head(s) \in S /\ Tail(s) \in Seq(S) /\ Len(Tail(s)) = Len(s) - 1
           /\ In(s) = In(Tail(s)) \cup {Head(s)}
           /\ Once(s) => Once(Tail(s)) /\ Head(s) \notin In(Tail(s))
<1> DEFINE t == Tail(s)
<1>1. /\ t \in Seq(S) /\ Len(t) = Len(s) - 1 /\ Head(s) = s[1] /\ Head(s) \in S
      /\ \A i \in 1..Len(s) - 1 : t[i] = s[i + 1]
  OBVIOUS
<1>2. DOMAIN s = 1..Len(s) /\ DOMAIN t = 1..Len(t) /\ Len(s) \in Nat \ {0}
  BY <1>1
<1> HIDE DEF t
<1>3. /\ 1 \in DOMAIN s
      /\ \A i \in DOMAIN s : i = 1 \/ (i - 1 \in DOMAIN t /\ t[i - 1] = s[i])
      /\ \A i \in DOMAIN t : i + 1 \in DOMAIN s /\ i + 1 # 1 /\ t[i] = s[i + 1]
  BY <1>1, <1>2
<1>4. In(s) = In(t) \cup {s[1]}
  BY <1>3 DEF In
<1>5. ASSUME Once(s) PROVE Once(t)
  BY <1>2, <1>3, <1>5 DEF Once
<1>6. ASSUME Once(s) PROVE s[1] \notin In(t)
  BY <1>3, <1>6 DEF Once, In
<1> QED
  BY <1>1, <1>4, <1>5, <1>6 DEF t

LEMMA NoneIn == In(<<>>) = {} /\ Once(<<>>) /\ Len(<<>>) = 0
BY DEF In, Once

\* The leases that are alive are finitely many; one more or one less counts one.
LEMMA LiveCounts ==
    ASSUME LeaseTypeOK
    PROVE  /\ IsFiniteSet(Live) /\ Cardinality(Live) \in Nat
           /\ \A l \in Slot \ Live : Cardinality(Live \cup {l}) = Cardinality(Live) + 1
           /\ \A l \in Live : Cardinality(Live \ {l}) = Cardinality(Live) - 1
<1>1. IsFiniteSet(Live)
  BY LeaseAssumption, FS_Subset DEF Live
<1> QED
  BY <1>1, FS_CardinalityType, FS_AddElement, FS_RemoveElement

-----------------------------------------------------------------------------
(* Types.                                                                  *)

LEMMA TypeInit == LeaseInit => LeaseTypeOK
<1> SUFFICES ASSUME LeaseInit PROVE LeaseTypeOK
  OBVIOUS
<1>1. pool \in Seq(Buffer) /\ lease \in [Slot -> Buffer \cup {Empty, Free}]
  BY DEF LeaseInit
<1>2. made \in 0 .. MaxBuffers /\ peak \in Nat
  BY LeaseAssumption DEF LeaseInit
<1> QED
  BY <1>1, <1>2 DEF LeaseInit, LeaseTypeOK

\* A lease changes its state; what the step does to the rest is named by the cases.
Borrow == \E h \in Server \cup Handle, l \in Slot : AcquirePooled(h, l) \/ AcquireNew(h, l)
Use == \E l \in Slot : Write(l) \/ IntoInner(l) \/ DropEmpty(l)
Give == \E l \in Slot : GiveBack(l) \/ FailGiveBack(l) \/ Report(l)
Hold ==
    \/ \E w \in Server : Assign(w) \/ EndAssignment(w)
    \/ \E h \in Handle : DropHandle(h)
    \/ Stop \/ EndSupervisor \/ LeaveEarly

\* The steps of Hold leave every buffer where it is, or empty the channel.
LEMMA HoldEffect ==
    ASSUME LeaseTypeOK, Hold
    PROVE  /\ pool' \in {pool, <<>>}
           /\ UNCHANGED <<lease, refused, detached, dirty, made, peak, reported>>
           /\ holders' \subseteq {Supervisor} \cup Server \cup Handle
           /\ stopped' \in BOOLEAN /\ early' \in BOOLEAN
<1>1. CASE \E w \in Server : Assign(w)
  BY <1>1 DEF Assign, buffers, LeaseTypeOK
<1>2. CASE (\E w \in Server : EndAssignment(w)) \/ \E h \in Handle : DropHandle(h)
  BY <1>2 DEF EndAssignment, DropHandle, Release, LeaseTypeOK
<1>3. CASE Stop
  BY <1>3 DEF Stop, buffers, LeaseTypeOK
<1>4. CASE EndSupervisor \/ LeaveEarly
  BY <1>4 DEF EndSupervisor, LeaveEarly, Release, LeaseTypeOK
<1> QED
  BY <1>1, <1>2, <1>3, <1>4 DEF Hold

LEMMA TypeStep == LeaseTypeOK /\ [LeaseNext]_leaseVars => LeaseTypeOK'
<1> SUFFICES ASSUME LeaseTypeOK, [LeaseNext]_leaseVars PROVE LeaseTypeOK'
  OBVIOUS
<1>m. MaxBuffers \in Nat /\ made \in Nat /\ peak \in Nat /\ Cardinality(Live) \in Nat
  BY LeaseAssumption, LiveCounts DEF LeaseTypeOK
<1>1. ASSUME NEW l \in Slot, NEW b \in Buffer, Take(l, b)
      PROVE  /\ lease' \in [Slot -> Buffer \cup {Empty, Free}] /\ peak' \in Nat
             /\ UNCHANGED <<refused, detached, dirty, lifetime, reported>>
  BY <1>1, <1>m DEF Take, Larger, LeaseTypeOK
<1>2. ASSUME NEW h, NEW l \in Slot, AcquirePooled(h, l) PROVE LeaseTypeOK'
  <2>1. Head(pool) \in Buffer /\ Tail(pool) \in Seq(Buffer)
    BY <1>2, Received DEF AcquirePooled, LeaseTypeOK
  <2>2. Take(l, Head(pool)) /\ pool' = Tail(pool) /\ made' = made
    BY <1>2 DEF AcquirePooled
  <2> QED
    BY <2>1, <2>2, <1>1 DEF LeaseTypeOK, lifetime
<1>3. ASSUME NEW h, NEW l \in Slot, AcquireNew(h, l) PROVE LeaseTypeOK'
  <2>1. made + 1 \in Buffer /\ made + 1 \in 0..MaxBuffers
    BY <1>3, <1>m DEF AcquireNew, Buffer
  <2>2. Take(l, made + 1) /\ pool' = pool /\ made' = made + 1
    BY <1>3 DEF AcquireNew
  <2> QED
    BY <2>1, <2>2, <1>1 DEF LeaseTypeOK, lifetime
<1>4. CASE Use
  <2>1. PICK l \in Slot : Write(l) \/ IntoInner(l) \/ DropEmpty(l)
    BY <1>4 DEF Use
  <2>2. CASE Write(l)
    BY <2>2 DEF Write, Live, LeaseTypeOK, lifetime
  <2>3. CASE IntoInner(l)
    BY <2>3 DEF IntoInner, Live, LeaseTypeOK, lifetime
  <2>4. CASE DropEmpty(l)
    BY <2>4 DEF DropEmpty, LeaseTypeOK, lifetime
  <2> QED
    BY <2>1, <2>2, <2>3, <2>4
<1>5. CASE Give
  <2>1. PICK l \in Slot : GiveBack(l) \/ FailGiveBack(l) \/ Report(l)
    BY <1>5 DEF Give
  <2>2. CASE GiveBack(l)
    <3>1. pool' \in Seq(Buffer)
      BY <2>2, Returned DEF GiveBack, Live, LeaseTypeOK
    <3> QED
      BY <3>1, <2>2 DEF GiveBack, LeaseTypeOK, lifetime
  <2>3. CASE FailGiveBack(l)
    BY <2>3 DEF FailGiveBack, LeaseTypeOK, lifetime
  <2>4. CASE Report(l)
    <3>1. /\ lease' \in [Slot -> Buffer \cup {Empty, Free}] /\ refused' \subseteq Slot
          /\ UNCHANGED <<pool, detached, dirty, made, peak, holders, early>>
      BY <2>4 DEF Report, LeaseTypeOK
    <3>2. reported' \in BOOLEAN /\ stopped' \in BOOLEAN
      BY <2>4, Zenon DEF Report, LeaseTypeOK
    <3> QED
      BY <3>1, <3>2 DEF LeaseTypeOK
  <2> QED
    BY <2>1, <2>2, <2>3, <2>4
<1>6. CASE Hold
  <2>1. pool' \in Seq(Buffer)
    <3>1. pool \in Seq(Buffer) /\ <<>> \in Seq(Buffer)
      BY DEF LeaseTypeOK
    <3>2. pool' = pool \/ pool' = <<>>
      BY <1>6, HoldEffect
    <3> QED
      BY <3>1, <3>2
  <2> QED
    BY <2>1, <1>6, HoldEffect DEF LeaseTypeOK
<1>7. CASE UNCHANGED leaseVars
  BY <1>7 DEF leaseVars, buffers, lifetime, LeaseTypeOK
<1> QED
  BY <1>2, <1>3, <1>4, <1>5, <1>6, <1>7 DEF LeaseNext, Use, Give, Hold

-----------------------------------------------------------------------------
(* Places.                                                                 *)

LEMMA PlacedStep ==
    ASSUME LeaseTypeOK, LeaseTypeOK', Placed, [LeaseNext]_leaseVars
    PROVE  Placed'
<1>m. made \in Nat /\ MaxBuffers \in Nat /\ Buffer \subseteq Int /\ \A l \in Slot : lease[l] \in Int
  BY LeaseAssumption DEF LeaseTypeOK, Buffer, Empty, Free
<1>n. Empty \notin Buffer /\ Free \notin Buffer
  BY DEF Empty, Free, Buffer
<1>p. Pooled = In(pool) /\ Pooled' = In(pool') /\ Once(pool)
  BY DEF Pooled, In, Once, Placed
<1>1. ASSUME NEW h, NEW l \in Slot, AcquirePooled(h, l) PROVE Placed'
  <2>1. /\ Head(pool) \in Buffer /\ Pooled = Pooled' \cup {Head(pool)}
        /\ Once(pool') /\ Head(pool) \notin Pooled'
    BY <1>1, <1>p, Received DEF AcquirePooled, LeaseTypeOK
  <2>2. /\ lease[l] = Free /\ lease' = [lease EXCEPT ![l] = Head(pool)]
        /\ UNCHANGED <<detached, dirty, made>>
    BY <1>1 DEF AcquirePooled, Take
  <2>3. Live' = Live \cup {l} /\ lease'[l] = Head(pool)
        /\ \A k \in Live : lease'[k] = lease[k] /\ k # l
    BY <2>1, <2>2, <1>n DEF Live, LeaseTypeOK
  <2> QED
    BY <2>1, <2>2, <2>3 DEF Placed, Once
<1>2. ASSUME NEW h, NEW l \in Slot, AcquireNew(h, l) PROVE Placed'
  <2>1. /\ lease[l] = Free /\ lease' = [lease EXCEPT ![l] = made + 1]
        /\ UNCHANGED <<detached, dirty, pool>> /\ made' = made + 1
        /\ made + 1 \in Buffer
    BY <1>2, <1>m DEF AcquireNew, Take, Buffer
  <2> DEFINE b == made + 1
  <2>b. b \in Buffer /\ lease' = [lease EXCEPT ![l] = b]
    BY <2>1
  <2> HIDE DEF b
  <2>0. lease \in [Slot -> Buffer \cup {Empty, Free}] /\ lease[l] = Free
    BY <2>1 DEF LeaseTypeOK
  <2>2. Live' = Live \cup {l} /\ lease'[l] = b
        /\ \A k \in Live : lease'[k] = lease[k] /\ k # l
    BY <2>0, <2>b, <1>n DEF Live
  <2>3. \A c \in Pooled \cup detached : c # b /\ c <= made'
    <3>0. pool \in Seq(Buffer) /\ detached \subseteq Buffer
      BY DEF LeaseTypeOK
    <3>1. \A c \in Pooled \cup detached : c \in Int
      <4>1. \A i \in 1..Len(pool) : pool[i] \in Buffer
        BY <3>0, ElementOfSeq
      <4>2. DOMAIN pool = 1..Len(pool)
        BY <3>0
      <4>3. Pooled \subseteq Buffer
        BY <4>1, <4>2, Zenon DEF Pooled
      <4> QED
        BY <4>3, <3>0, <1>m
    <3> QED
      BY <3>1, <2>1, <1>m DEF Placed, b
  <2>4. \A k \in Live : lease[k] # b /\ lease[k] <= made'
    BY <2>1, <1>m DEF Placed, Live, b
  <2>5. b <= made' /\ b \notin Pooled \cup detached
    BY <2>1, <2>3, <1>m DEF b
  <2> QED
    BY <2>1, <2>2, <2>3, <2>4, <2>5, <1>p DEF Placed
<1>3. CASE Use
  <2>1. PICK l \in Slot : Write(l) \/ IntoInner(l) \/ DropEmpty(l)
    BY <1>3 DEF Use
  <2>2. CASE Write(l)
    <3>1. Live' = Live /\ Pooled' = Pooled /\ UNCHANGED <<pool, lease, detached, made>>
      BY <2>2 DEF Write, Live, Pooled
    <3>2. Pooled \cap dirty' = {}
      BY <2>2 DEF Write, Placed
    <3> QED
      BY <3>1, <3>2 DEF Placed
  <2>3. CASE IntoInner(l)
    <3>1. /\ Live' = Live \ {l} /\ Pooled' = Pooled
          /\ UNCHANGED <<pool, dirty, made>> /\ detached' = detached \cup {lease[l]}
          /\ \A k \in Live' : lease'[k] = lease[k] /\ k # l
          /\ l \in Live
      BY <2>3, <1>n DEF IntoInner, Live, Pooled, LeaseTypeOK
    <3> QED
      BY <3>1 DEF Placed
  <2>4. CASE DropEmpty(l)
    <3>1. /\ Live' = Live /\ Pooled' = Pooled
          /\ UNCHANGED <<pool, dirty, made, detached>>
          /\ \A k \in Live : lease'[k] = lease[k]
      BY <2>4, <1>n DEF DropEmpty, Live, Pooled, LeaseTypeOK
    <3> QED
      BY <3>1 DEF Placed
  <2> QED
    BY <2>1, <2>2, <2>3, <2>4
<1>4. CASE Give
  <2>1. PICK l \in Slot : GiveBack(l) \/ FailGiveBack(l) \/ Report(l)
    BY <1>4 DEF Give
  <2>2. CASE GiveBack(l)
    <3>1. /\ l \in Live /\ lease[l] \in Buffer /\ Live' = Live \ {l}
          /\ UNCHANGED <<detached, made>> /\ dirty' = dirty \ {lease[l]}
          /\ \A k \in Live' : lease'[k] = lease[k] /\ k # l
      BY <2>2, <1>n DEF GiveBack, Live, LeaseTypeOK
    <3>2. Pooled' = Pooled \cup {lease[l]} /\ Once(pool')
      BY <2>2, <3>1, <1>p, Returned DEF GiveBack, LeaseTypeOK, Placed
    <3> QED
      BY <3>1, <3>2 DEF Placed, Once
  <2>3. CASE FailGiveBack(l)
    <3>1. Live' = Live /\ Pooled' = Pooled
          /\ UNCHANGED <<pool, lease, detached, made>> /\ dirty' \subseteq dirty
      BY <2>3 DEF FailGiveBack, Live, Pooled
    <3> QED
      BY <3>1 DEF Placed
  <2>4. CASE Report(l)
    <3>1. /\ Live' \subseteq Live /\ Pooled' = Pooled
          /\ UNCHANGED <<pool, dirty, made, detached>>
          /\ \A k \in Live' : lease'[k] = lease[k]
      BY <2>4, <1>n DEF Report, Live, Pooled, LeaseTypeOK
    <3> QED
      BY <3>1 DEF Placed
  <2> QED
    BY <2>1, <2>2, <2>3, <2>4
<1>5. CASE Hold
  <2>1. pool' \in {pool, <<>>} /\ UNCHANGED <<lease, detached, dirty, made>>
    BY <1>5, HoldEffect
  <2>2. Live' = Live
    BY <2>1 DEF Live
  <2>3. CASE pool' = pool
    BY <2>1, <2>2, <2>3 DEF Placed, Pooled
  <2>4. CASE pool' = <<>>
    BY <2>1, <2>2, <2>4, <1>p, NoneIn DEF Placed, Once
  <2> QED
    BY <2>1, <2>3, <2>4
<1>6. CASE UNCHANGED leaseVars
  BY <1>6 DEF leaseVars, buffers, lifetime, Placed, Live, Pooled
<1> QED
  BY <1>1, <1>2, <1>3, <1>4, <1>5, <1>6 DEF LeaseNext, Use, Give, Hold

\* A buffer taken from the channel moves; one is made only for an empty channel.
LEMMA CountedStep ==
    ASSUME LeaseTypeOK, Counted, [LeaseNext]_leaseVars
    PROVE  Counted'
<1>m. /\ Cardinality(Live) \in Nat /\ peak \in Nat /\ Len(pool) \in Nat
      /\ \A l \in Live : Cardinality(Live \ {l}) = Cardinality(Live) - 1
  BY LiveCounts DEF LeaseTypeOK
<1>n. Empty \notin Buffer /\ Free \notin Buffer
  BY DEF Empty, Free, Buffer
<1>t. ASSUME NEW l \in Slot, NEW b \in Buffer, Take(l, b)
      PROVE  /\ Cardinality(Live') = Cardinality(Live) + 1
             /\ peak' >= peak /\ peak' >= Cardinality(Live) + 1 /\ peak' \in Nat
  <2>1. l \notin Live /\ Live' = Live \cup {l}
    BY <1>t, <1>n DEF Take, Live, LeaseTypeOK
  <2>2. peak' = Larger(peak, Cardinality(Live) + 1)
    BY <1>t DEF Take
  <2> QED
    BY <2>1, <2>2, <1>m, LiveCounts DEF Larger
<1>1. ASSUME NEW h, NEW l \in Slot, AcquirePooled(h, l) PROVE Counted'
  <2>1. Head(pool) \in Buffer /\ Len(pool') = Len(pool) - 1 /\ Take(l, Head(pool))
    BY <1>1, Received DEF AcquirePooled, LeaseTypeOK
  <2> QED
    BY <2>1, <1>t, <1>m DEF Counted
<1>2. ASSUME NEW h, NEW l \in Slot, AcquireNew(h, l) PROVE Counted'
  <2>1. made + 1 \in Buffer
    BY <1>2, LeaseAssumption DEF AcquireNew, LeaseTypeOK, Buffer
  <2>2. Len(pool') = 0 /\ Take(l, made + 1)
    BY <1>2 DEF AcquireNew
  <2> QED
    BY <2>1, <2>2, <1>t, <1>m DEF Counted
<1>3. CASE Use
  <2>1. PICK l \in Slot : Write(l) \/ IntoInner(l) \/ DropEmpty(l)
    BY <1>3 DEF Use
  <2>2. pool' = pool /\ peak' = peak /\ (Live' = Live \/ (l \in Live /\ Live' = Live \ {l}))
    BY <2>1, <1>n DEF Write, IntoInner, DropEmpty, Live, LeaseTypeOK
  <2> QED
    BY <2>2, <1>m DEF Counted
<1>4. CASE Give
  <2>1. PICK l \in Slot : GiveBack(l) \/ FailGiveBack(l) \/ Report(l)
    BY <1>4 DEF Give
  <2>2. CASE GiveBack(l)
    <3>1. l \in Live /\ lease[l] \in Buffer /\ Live' = Live \ {l} /\ peak' = peak
      BY <2>2, <1>n DEF GiveBack, Live, LeaseTypeOK
    <3>2. Len(pool') = Len(pool) + 1
      BY <2>2, <3>1, Returned DEF GiveBack, LeaseTypeOK
    <3> QED
      BY <3>1, <3>2, <1>m DEF Counted
  <2>3. CASE FailGiveBack(l)
    BY <2>3 DEF FailGiveBack, Counted, Live
  <2>4. CASE Report(l)
    <3>1. pool' = pool /\ peak' = peak /\ (Live' = Live \/ (l \in Live /\ Live' = Live \ {l}))
      BY <2>4, <1>n DEF Report, Live, LeaseTypeOK
    <3> QED
      BY <3>1, <1>m DEF Counted
  <2> QED
    BY <2>1, <2>2, <2>3, <2>4
<1>5. CASE Hold
  <2>1. pool' \in {pool, <<>>} /\ UNCHANGED <<lease, peak>>
    BY <1>5, HoldEffect
  <2>2. Live' = Live /\ Len(pool') <= Len(pool)
    BY <2>1, <1>m DEF Live
  <2>3. Len(pool') \in Nat
    BY <2>1, <1>m
  <2> QED
    BY <2>1, <2>2, <2>3, <1>m DEF Counted
<1>6. CASE UNCHANGED leaseVars
  BY <1>6 DEF leaseVars, buffers, lifetime, Counted, Live
<1> QED
  BY <1>1, <1>2, <1>3, <1>4, <1>5, <1>6 DEF LeaseNext, Use, Give, Hold

LEMMA GuardedStep ==
    ASSUME LeaseTypeOK, Guarded, [LeaseNext]_leaseVars
    PROVE  Guarded'
<1>1. CASE Borrow
  BY <1>1 DEF Borrow, AcquirePooled, AcquireNew, Take, lifetime, Guarded
<1>2. CASE Use
  BY <1>2 DEF Use, Write, IntoInner, DropEmpty, lifetime, Guarded
<1>3. CASE Give
  <2>1. PICK l \in Slot : GiveBack(l) \/ FailGiveBack(l) \/ Report(l)
    BY <1>3 DEF Give
  <2>2. CASE GiveBack(l) \/ FailGiveBack(l)
    BY <2>2 DEF GiveBack, FailGiveBack, lifetime, Guarded
  <2>3. CASE Report(l)
    <3>1. refused # {} /\ refused' \subseteq refused /\ stopped' /\ UNCHANGED <<holders, early>>
      BY <2>3 DEF Report
    <3>2. Supervisor \notin holders
      BY <3>1 DEF Guarded
    <3>3. reported' => reported \/ ~stopped
      BY <2>3, Zenon DEF Report
    <3> QED
      BY <3>1, <3>2, <3>3, Zenon DEF Guarded
  <2> QED
    BY <2>1, <2>2, <2>3
<1>4. CASE \E w \in Server : Assign(w)
  BY <1>4 DEF Assign, buffers, Guarded
<1>5. CASE (\E w \in Server : EndAssignment(w)) \/ \E h \in Handle : DropHandle(h)
  BY <1>5, LeaseAssumption DEF EndAssignment, DropHandle, Release, Guarded
<1>6. CASE Stop \/ EndSupervisor \/ LeaveEarly
  BY <1>6 DEF Stop, EndSupervisor, LeaveEarly, Release, buffers, Guarded
<1>7. CASE UNCHANGED leaseVars
  BY <1>7 DEF leaseVars, buffers, lifetime, Guarded
<1> QED
  BY <1>1, <1>2, <1>3, <1>4, <1>5, <1>6, <1>7 DEF LeaseNext, Borrow, Use, Give

-----------------------------------------------------------------------------
(* Results.                                                                *)

LEMMA LeaseInvariant == LeaseSpec => []LeaseInv
<1>1. LeaseInit => LeaseInv
  <2> SUFFICES ASSUME LeaseInit PROVE Placed /\ Counted /\ Guarded
    BY TypeInit DEF LeaseInv
  <2>1. Live = {} /\ pool = <<>> /\ Pooled = {} /\ Len(pool) = 0
    BY DEF LeaseInit, Live, Pooled, Free, Buffer
  <2>2. Placed
    BY <2>1 DEF Placed, LeaseInit
  <2>3. Counted
    BY <2>1, FS_EmptySet DEF Counted, LeaseInit
  <2> QED
    BY <2>2, <2>3 DEF Guarded, LeaseInit
<1>2. LeaseInv /\ [LeaseNext]_leaseVars => LeaseInv'
  BY TypeStep, PlacedStep, CountedStep, GuardedStep DEF LeaseInv
<1> QED
  BY <1>1, <1>2, PTL DEF LeaseSpec

\* BufferLease and its channel: every buffer in one place, and never more of them
\* than were in use at one time.
THEOREM LeasesAreExact == LeaseSpec => []LeasesExact
<1>1. LeaseInv => LeasesExact
  BY DEF LeaseInv, Placed, Counted, LeasesExact, Leased
<1> QED
  BY <1>1, LeaseInvariant, PTL

\* Drop of a lease after the end: no failure is reported unless run_supervisor
\* left early.
THEOREM LateDropsQuiet == LeaseSpec => []QuietAfterStop
<1>1. LeaseInv => QuietAfterStop
  BY DEF LeaseInv, Guarded, QuietAfterStop
<1> QED
  BY <1>1, LeaseInvariant, PTL

-----------------------------------------------------------------------------
(* The types of all the parts.                                             *)

LEMMA StartTypeInvariant == StartSpec => []StartTypeOK
<1> DEFINE Rest ==
      /\ caller \in FailedStart \cup {"accepted", "recording", "waiting", "started", "left"}
      /\ recorder \in BOOLEAN
      /\ supervisor \in {"none", "spawning", "running", "returned"}
<1>1. StartInit => Rest
  BY DEF StartInit
<1>2. Rest /\ [StartNext]_startVars => Rest'
  <2> SUFFICES ASSUME Rest, [StartNext]_startVars PROVE Rest'
    OBVIOUS
  <2>1. CASE \E configured \in BOOLEAN : StartRecorder(configured)
    BY <2>1 DEF StartRecorder
  <2>2. CASE FailRecorder \/ SpawnSupervisor \/ FailSupervisor
    BY <2>2 DEF FailRecorder, SpawnSupervisor, FailSupervisor, FailedStart
  <2>3. CASE SpawnWorker \/ FailWorker \/ Ready \/ FailScaling
    BY <2>3 DEF SpawnWorker, FailWorker, Ready, FailScaling
  <2>4. CASE /\ SeeReady \/ SeeGone \/ TimeOut \/ LeavePiper
             /\ UNCHANGED <<recorder, supervisor, next, crew>>
    BY <2>4 DEF SeeReady, SeeGone, TimeOut, LeavePiper, FailedStart
  <2>5. CASE \E w \in DOMAIN crew : Begin(w) \/ FailInit(w) \/ SeeDisconnect(w) \/ EndThread(w)
    BY <2>5 DEF Begin, FailInit, SeeDisconnect, EndThread, Step
  <2>6. CASE UNCHANGED startVars
    BY <2>6 DEF startVars
  <2> QED
    BY <2>1, <2>2, <2>3, <2>4, <2>5, <2>6 DEF StartNext
<1>3. Rest /\ CrewInv => StartTypeOK
  BY DEF StartTypeOK, CrewInv, WorkerState
<1> HIDE DEF Rest
<1> QED
  BY <1>1, <1>2, <1>3, CrewInvariant, PTL DEF StartSpec

LEMMA BranchTypeStep ==
    ASSUME BranchTypeOK, [BranchNext]_branchVars
    PROVE  BranchTypeOK'
<1> USE DEF Arm
<1>0. CASE UNCHANGED branchVars
  BY <1>0 DEF branchVars, armVars, BranchTypeOK
<1>1. CASE Receive
  BY <1>1 DEF Receive, Go, armVars, BranchTypeOK
<1>2. CASE ReadLeft
  <2>1. shown["left"] \in 0 .. MaxQueue
    BY DEF BranchTypeOK
  <2> QED
    BY <1>2, <2>1 DEF ReadLeft, Go, armVars, BranchTypeOK
<1>3. CASE Sample
  <2>1. ASSUME NEW a \in Arm, SampleArm(a)
        PROVE  /\ smoothed' \in [Arm -> 0 .. MaxQueue] /\ capacity' \in [Arm -> 1 .. MaxCapacity]
               /\ ready' \in [Arm -> BOOLEAN]
    <3>1. PICK s \in Between(smoothed[a], shown[a]), c \in 1 .. MaxCapacity, grows \in BOOLEAN :
            /\ smoothed' = [smoothed EXCEPT ![a] = s]
            /\ capacity' = [capacity EXCEPT ![a] = c]
            /\ ready' = [ready EXCEPT ![a] = @ \/ s > 1 \/ grows]
      BY <2>1 DEF SampleArm
    <3>2. smoothed[a] \in 0 .. MaxQueue /\ shown[a] \in 0 .. MaxQueue
      BY DEF BranchTypeOK
    <3>3. s \in 0 .. MaxQueue
      BY <3>2, BranchAssumption DEF Between, Least, Most
    <3>4. smoothed' \in [Arm -> 0 .. MaxQueue] /\ capacity' \in [Arm -> 1 .. MaxCapacity]
      BY <3>1, <3>3 DEF BranchTypeOK
    <3>5. ready' \in [Arm -> BOOLEAN]
      <4> DEFINE r == ready[a] \/ s > 1 \/ grows
      <4>1. r \in BOOLEAN
        OBVIOUS
      <4> HIDE DEF r
      <4>2. ready' = [ready EXCEPT ![a] = r]
        BY <3>1 DEF r
      <4> QED
        BY <4>1, <4>2 DEF BranchTypeOK
    <3> QED
      BY <3>4, <3>5
  <2>2. /\ smoothed' \in [Arm -> 0 .. MaxQueue] /\ capacity' \in [Arm -> 1 .. MaxCapacity]
        /\ ready' \in [Arm -> BOOLEAN]
    BY <1>3, <2>1 DEF Sample
  <2> QED
    BY <1>3, <2>2 DEF Sample, Go, BranchTypeOK
<1>4. ASSUME NEW a \in Arm, Send(a), alternateLeft' \in BOOLEAN PROVE BranchTypeOK'
  <2>1. queued[a] \in 0 .. MaxQueue
    BY DEF BranchTypeOK
  <2>2. Least(queued[a] + 1, MaxQueue) \in 0 .. MaxQueue
    BY <2>1, BranchAssumption DEF Least
  <2>3. queued' \in [Arm -> 0 .. MaxQueue]
    BY <1>4, <2>2 DEF Send, BranchTypeOK
  <2>4. \A b \in Arm : passed[b] + 1 \in Nat
    <3>1. passed \in [Arm -> Nat]
      BY DEF BranchTypeOK
    <3> QED
      BY <3>1
  <2>5. passed' \in [Arm -> Nat]
    BY <1>4, <2>4 DEF Send
  <2>6. 0 \in 0 .. MaxQueue
    BY BranchAssumption
  <2> QED
    BY <1>4, <2>3, <2>5, <2>6 DEF Send, Go, armVars, BranchTypeOK
<1>5. ASSUME NEW a \in Arm, RouteByFill(a) PROVE BranchTypeOK'
  BY <1>4, <1>5 DEF RouteByFill, BranchTypeOK
<1>6. CASE RouteInTurn
  <2>1. Turn \in Arm /\ alternateLeft' \in BOOLEAN
    BY <1>6 DEF RouteInTurn, Turn
  <2> QED
    BY <1>4, <1>6, <2>1 DEF RouteInTurn
<1>7. ASSUME NEW a \in Arm, Drain(a) PROVE BranchTypeOK'
  <2>1. queued[a] \in 0 .. MaxQueue /\ queued[a] > 0
    BY <1>7 DEF Drain, BranchTypeOK
  <2>2. queued[a] - 1 \in 0 .. MaxQueue
    BY <2>1, BranchAssumption
  <2> QED
    BY <1>7, <2>2 DEF Drain, armVars, BranchTypeOK
<1>8. ASSUME NEW a \in Arm, Publish(a) PROVE BranchTypeOK'
  BY <1>8 DEF Publish, armVars, BranchTypeOK
<1> QED
  BY <1>0, <1>1, <1>2, <1>3, <1>5, <1>6, <1>7, <1>8 DEF BranchNext

\* Every variable of every part has its type, whatever the graph, the stages,
\* the workers and the bounds.
THEOREM PartsAreTyped == PartsSpec => []PartsTypeOK
<1>1. Init => DeclareInit /\ StartInit /\ LeaseInit /\ BranchInit
  BY DEF Init
<1>2. [Next]_partsVars =>
        /\ [DeclareNext]_declareVars /\ [StartNext]_startVars
        /\ [LeaseNext]_leaseVars /\ [BranchNext]_branchVars
  BY DEF Next, partsVars
<1>3. PartsSpec => DeclareSpec /\ StartSpec /\ LeaseSpec /\ BranchSpec
  BY <1>1, <1>2, PTL DEF PartsSpec, DeclareSpec, StartSpec, LeaseSpec, BranchSpec
<1>4. BranchInit => BranchTypeOK
  BY BranchAssumption DEF BranchInit, BranchTypeOK
<1>5. BranchSpec => []BranchTypeOK
  BY <1>4, BranchTypeStep, PTL DEF BranchSpec
<1>6. LeaseSpec => []LeaseTypeOK
  BY TypeInit, TypeStep, PTL DEF LeaseSpec
<1>7. GraphTypeOK /\ StartTypeOK /\ LeaseTypeOK /\ BranchTypeOK <=> PartsTypeOK
  BY DEF PartsTypeOK
<1> QED
  BY <1>3, <1>5, <1>6, <1>7, GraphTypeInvariant, StartTypeInvariant, PTL

============================================================================
