------------------------------ MODULE Startup ------------------------------
(***************************************************************************)
(* Piper::start after the graph is accepted, with the prologue of          *)
(* run_supervisor: the recorder, the supervisor thread and the initial     *)
(* workers are created one by one, any of them may fail, and start waits   *)
(* ten seconds at most for the supervisor to report that all are there.    *)
(***************************************************************************)
EXTENDS Integers, Sequences, FiniteSets, FiniteSetsExt, SequencesExt

CONSTANTS
    Stages,         \* the nodes in order: [policy, count, in, outs]
    EntryLink,      \* the graph's input link
    ReadByFeeder,   \* the links that are feeders
    ConfiguredCap   \* global_worker_cap, or what it is without one

Policy == {"fixed", "scalable", "support", "branch", "external"}
Stage == DOMAIN Stages

ASSUME StartupAssumption ==
    /\ Stages \in Seq([policy : Policy, count : Nat \ {0}, in : Nat, outs : SUBSET Nat])
    /\ Stages # <<>> /\ ConfiguredCap \in Nat

\* What validate_graph_is_acyclic has made sure of: any nodes have a first one.
ASSUME AcyclicAssumption ==
    \A S \in (SUBSET Stage) \ {{}} :
      \E s \in S : \A t \in S : Stages[s].in \notin Stages[t].outs

VARIABLES
    caller,     \* start: "accepted", "recording", "waiting", then its result, and
                \* "left" once the program has joined or dropped the Piper
    recorder,   \* the telemetry thread runs
    supervisor, \* "none", "spawning", "running", "returned"
    next,       \* the next spawn of the prologue
    crew        \* the worker threads in spawn order: [stage, pc], stage 0 if parked

startVars == <<caller, recorder, supervisor, next, crew>>

FailedStart == {"recorder failed", "supervisor failed", "not ready"}
CallerGone == caller \in FailedStart \cup {"left"}

-----------------------------------------------------------------------------
(* How many workers start                                                  *)

\* startup_worker_count, and what run_supervisor does with the other nodes.
BaseCount(s) ==
    CASE Stages[s].policy = "fixed" -> Stages[s].count
      [] Stages[s].policy = "external" -> 0
      [] OTHER -> 1
ExtraCount(s) == IF Stages[s].policy = "scalable" THEN Stages[s].count - 1 ELSE 0

RequiredBase == SumFunction([s \in Stage |-> BaseCount(s) + ExtraCount(s)])
WorkerCap == Max({ConfiguredCap, Len(Stages), RequiredBase})
ParkedTarget == Cardinality({s \in Stage : Stages[s].policy \in {"scalable", "support"}})

\* The spawns in order: every node's base, then the extras, then the parked.
Repeated(count(_)) == FlattenSeq([s \in Stage |-> [i \in 1 .. count(s) |-> s]])
Bases == Repeated(BaseCount)
Plan == Bases \o Repeated(ExtraCount) \o [i \in 1 .. ParkedTarget |-> 0]

Assigned == {w \in DOMAIN crew : crew[w].stage \in Stage}

-----------------------------------------------------------------------------
(* start                                                                   *)

StartInit ==
    /\ caller = "accepted" /\ recorder = FALSE /\ supervisor = "none"
    /\ next = 1 /\ crew = <<>>

\* start_telemetry_log_recorder: without a config there is nothing to start.
StartRecorder(configured) ==
    /\ caller = "accepted" /\ caller' = "recording" /\ recorder' = configured
    /\ UNCHANGED <<supervisor, next, crew>>

\* The file exists, cannot be written, or its thread cannot be spawned.
FailRecorder ==
    /\ caller = "accepted" /\ caller' = "recorder failed"
    /\ UNCHANGED <<recorder, supervisor, next, crew>>

SpawnSupervisor ==
    /\ caller = "recording" /\ caller' = "waiting" /\ supervisor' = "spawning"
    /\ UNCHANGED <<recorder, next, crew>>

\* The recorder's handle is dropped with the closure: its thread is detached.
FailSupervisor ==
    /\ caller = "recording" /\ caller' = "supervisor failed"
    /\ UNCHANGED <<recorder, supervisor, next, crew>>

\* The ready message, its sender dropped without one, or ten seconds.
Announced == supervisor \in {"running", "returned"} /\ next > Len(Plan)
SeeReady == caller = "waiting" /\ Announced /\ caller' = "started"
SeeGone == caller = "waiting" /\ supervisor = "returned" /\ ~Announced /\ caller' = "not ready"
TimeOut == caller = "waiting" /\ supervisor = "spawning" /\ caller' = "not ready"

\* The program drops its senders and external handles, as join does.
LeavePiper == caller = "started" /\ caller' = "left"

-----------------------------------------------------------------------------
(* The prologue of run_supervisor                                          *)

\* An extra worker is for a node that scales, and only below the cap.
Wanted == next <= Len(Bases) \/ Plan[next] = 0 \/ Cardinality(Assigned) < WorkerCap

SpawnWorker ==
    /\ supervisor = "spawning" /\ next <= Len(Plan)
    /\ next' = next + 1
    /\ crew' = IF Wanted
               THEN Append(crew, [stage |-> Plan[next],
                                  pc |-> IF Plan[next] \in Stage THEN "given" ELSE "parked"])
               ELSE crew
    /\ UNCHANGED <<caller, recorder, supervisor>>

\* The error leaves run_supervisor at once: the command channels, the links,
\* the ready sender and the recorder's handle are dropped, no thread is joined.
FailWorker ==
    /\ supervisor = "spawning" /\ next <= Len(Plan) /\ Wanted
    /\ supervisor' = "returned"
    /\ UNCHANGED <<caller, recorder, next, crew>>

\* So does a thread that cannot be spawned later, when a node is scaled up.
FailScaling ==
    /\ supervisor = "running" /\ supervisor' = "returned"
    /\ UNCHANGED <<caller, recorder, next, crew>>

Ready ==
    /\ supervisor = "spawning" /\ next > Len(Plan)
    /\ supervisor' = "running"
    /\ UNCHANGED <<caller, recorder, next, crew>>

-----------------------------------------------------------------------------
(* The worker threads: "parked" or "given" an assignment, "working",       *)
(* "spent" when it is over, "ended" when the command channel closed.       *)

\* Seeded fault: the links outlive the supervisor that failed.
LinkKept(l) ==
    \/ l \in ReadByFeeder \cup {EntryLink}
    \/ \E w \in Assigned : crew[w].pc \in {"given", "working"} /\ l \in Stages[crew[w].stage].outs
\* Someone still holds a sender of the link.  A feeder closes only when the
\* supervisor's loop shuts it down.
LinkOpen(l) ==
    \/ l \in ReadByFeeder
    \/ supervisor # "returned"
    \/ ~CallerGone
         /\ (l = EntryLink \/ \E s \in Stage : Stages[s].policy = "external" /\ l \in Stages[s].outs)
    \/ \E w \in Assigned : crew[w].pc \in {"given", "working"} /\ l \in Stages[crew[w].stage].outs

Step(w, from, to) ==
    /\ crew[w].pc = from /\ crew' = [crew EXCEPT ![w].pc = to]
    /\ UNCHANGED <<caller, recorder, supervisor, next>>

\* Items still in a link are worked off before its reader sees the disconnect.
Begin(w) == Step(w, "given", "working")
FailInit(w) == Step(w, "working", "spent")
SeeDisconnect(w) ==
    Step(w, "working", "spent") /\ ~LinkOpen(Stages[crew[w].stage].in)
EndThread(w) ==
    supervisor = "returned" /\ (Step(w, "parked", "ended") \/ Step(w, "spent", "ended"))

StartNext ==
    \/ \E configured \in BOOLEAN : StartRecorder(configured)
    \/ FailRecorder \/ SpawnSupervisor \/ FailSupervisor
    \/ SpawnWorker \/ FailWorker \/ Ready \/ FailScaling
    \/ (SeeReady \/ SeeGone \/ TimeOut \/ LeavePiper)
         /\ UNCHANGED <<recorder, supervisor, next, crew>>
    \/ \E w \in DOMAIN crew : Begin(w) \/ FailInit(w) \/ SeeDisconnect(w) \/ EndThread(w)

StartSpec == StartInit /\ [][StartNext]_startVars

-----------------------------------------------------------------------------
(* Properties                                                              *)

StartTypeOK ==
    /\ caller \in FailedStart \cup {"accepted", "recording", "waiting", "started", "left"}
    /\ recorder \in BOOLEAN
    /\ supervisor \in {"none", "spawning", "running", "returned"}
    /\ next \in Nat \ {0}
    /\ crew \in Seq([stage : Stage \cup {0},
                     pc : {"parked", "given", "working", "spent", "ended"}])

\* The nodes behind a feeder link.
BehindFeeder ==
    {s \in Stage : \A T \in SUBSET Stage :
       (\A t \in Stage :
          (\/ Stages[t].in \in ReadByFeeder
           \/ \E u \in T : Stages[t].in \in Stages[u].outs)
          => t \in T)
       => s \in T}

\* What a worker can do now, without anybody's help.
Moves(w) ==
    \/ crew[w].pc \in {"given", "parked", "spent"}
    \/ crew[w].pc = "working" /\ ~LinkOpen(Stages[crew[w].stage].in)

\* A spawn that fails, in start or while the pipeline is scaled, strands no
\* worker, though the supervisor leaves at once and nobody stops or joins the
\* threads: as long as one of them has not ended, some thread can go on, because the
\* links close from the input on as each drops its output.  Only the nodes
\* behind a feeder link are left: nobody shuts that feeder down.
SpawnFailureDrains ==
    supervisor = "returned" /\ CallerGone =>
      \A w \in DOMAIN crew :
        crew[w].pc # "ended" /\ crew[w].stage \notin BehindFeeder
          => \E v \in DOMAIN crew : Moves(v)
=============================================================================
