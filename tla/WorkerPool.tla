----------------------------- MODULE WorkerPool -----------------------------
(***************************************************************************)
(* The managed worker pool of a Piper pipeline: the supervisor thread      *)
(* (run_supervisor), the worker threads it spawns, assigns, retires and    *)
(* joins (worker_loop, run_assignment, run_weighted_branch_assignment),    *)
(* and the flags, events and failure reports they share.                   *)
(*                                                                         *)
(* Data is abstracted: items are not named (what a poll of an input link   *)
(* finds is a choice, limited by what the link's senders allow), a user    *)
(* state is the number of initialised states merged into it, and a         *)
(* node's list of active workers is the set of workers whose slot names    *)
(* the node.  Everything the two kinds of thread do to each other is       *)
(* kept: one step per access to shared state.                              *)
(***************************************************************************)
EXTENDS Integers, Sequences, FiniteSets

CONSTANTS
    Worker,         \* identities of worker threads
    Node,           \* nodes of the graph
    External,       \* nodes whose loop user code owns
    Branch,         \* weighted branch nodes
    Fixed,          \* nodes with a fixed thread policy
    Mergeable,      \* nodes declared with a merge function
    Returning,      \* nodes that return their state on exit
    Input,          \* nodes that read the pipeline's input link
    Feeds,          \* Feeds[n]: nodes that send into n's input link
    Startup,        \* workers started with the pipeline, as worker |-> node
    Reserve,        \* parked workers started with the pipeline
    MaxThreads,     \* MaxThreads[n]: the maximum of a scalable node; the
                    \* global cap for an implicit support node
    ConfiguredCap,  \* PiperConfig::global_worker_cap
    Feeder,         \* nodes whose input link is a feeder
    FailAt,         \* user functions that may return an error
    MayPanic,       \* user functions may panic
    Recorder,       \* threads that report failures after setting abort
    Reporter,       \* threads that report failures before setting abort
    MaxScale        \* bound: scale operations explored

None == "none"
Stop == "stop"

Elastic == Node \ (External \cup Branch \cup Fixed)
ParkedTarget == Cardinality(Elastic)

Largest(a, b) == IF a >= b THEN a ELSE b
RequiredBase == Cardinality(DOMAIN Startup)
GlobalCap == Largest(ConfiguredCap, Largest(Cardinality(Node), RequiredBase))

ASSUME NodesAssumption ==
    /\ IsFiniteSet(Node) /\ IsFiniteSet(Worker)
    /\ None \notin Node \cup Worker /\ Stop \notin Node
    /\ External \subseteq Node /\ Branch \subseteq Node /\ Fixed \subseteq Node
    /\ Mergeable \subseteq Node \ Branch /\ Returning \subseteq Node \ Branch
    /\ Input \subseteq Node /\ Feeder \subseteq Node
    /\ Feeds \in [Node -> SUBSET Node]

ASSUME StartupAssumption ==
    /\ DOMAIN Startup \subseteq Worker
    /\ Startup \in [DOMAIN Startup -> Node \ External]
    /\ \A n \in Node \ External : \E w \in DOMAIN Startup : Startup[w] = n
    /\ Reserve \subseteq Worker \ DOMAIN Startup
    /\ Cardinality(Reserve) = ParkedTarget

ASSUME BoundsAssumption ==
    /\ ConfiguredCap \in Nat /\ MaxScale \in Nat
    /\ MaxThreads \in [Node -> Nat]
    /\ MayPanic \in BOOLEAN
    /\ FailAt \subseteq {"init", "process", "cleanup", "merge"}

VARIABLES
    spc,        \* where the supervisor is in its loop
    held,       \* supervisor_holds_links
    active,     \* active_by_node and active_node: the node a worker serves
    parked,     \* the supervisor's parked workers
    spawned,    \* worker threads ever started
    pending,    \* pending_scale
    settling,   \* nodes whose last scale operation is still settling
    failure,    \* stored_failure
    returned,   \* user states collected in returned_states
    result,     \* what join returns
    ops,        \* scale operations so far
    events,     \* the worker event channel
    reports,    \* the internal failure channel, as a number of messages
    shutdown, abort,
    pc, job, cmd,       \* a worker's step, node and command channel
    carried,            \* initialised states merged into the worker's state
    retire,             \* its RetireControl
    mergeFlag, requests,\* its merge_pending flag and merge request channel
    chan,               \* the state channel a retiring worker transfers over
    born, cleaned,      \* states initialised, states given to cleanup
    handles,            \* external nodes whose handle is alive
    asked,              \* history: the user called abort()
    rpc                 \* where each failure-reporting thread is

supVars  == <<spc, held, active, parked, spawned, pending, settling, failure,
              returned, result, ops>>
ledger   == <<born, cleaned>>
workVars == <<pc, job, cmd, carried, retire, mergeFlag, requests, chan>>
envVars  == <<shutdown, asked, handles, rpc>>
mail == <<cmd, retire, mergeFlag, requests, chan>>
vars == <<supVars, ledger, workVars, envVars, events, reports, abort>>

NoOp == [kind |-> None, src |-> None, dst |-> None, node |-> None,
         rx |-> FALSE, waiting |-> FALSE]
EmptyChan == [st |-> None, load |-> 0]

Event(t, w, n, load, src) ==
    [type |-> t, worker |-> w, node |-> n, load |-> load, src |-> src]

-----------------------------------------------------------------------------
(* What the supervisor and the workers can see.                            *)

Stopping == shutdown \/ abort \/ failure # None
Staff(n) == {w \in Worker : active[w] = n}
Busy == {w \in Worker : active[w] # None}
MergeSender(w) == active[w] \notin Branch \cup {None}

Running == {"init", "head", "merge", "requests", "retire", "poll", "check",
            "returning"}
InAssignment(w) == pc[w] \in Running
Assigned(w) == InAssignment(w) \/ (cmd[w] # <<>> /\ Head(cmd[w]) # Stop)

\* A worker's output sender lives from the assignment to the return from it.
SendsFor(w, n) ==
    \/ InAssignment(w) /\ job[w] = n
    \/ \E i \in 1..Len(cmd[w]) : cmd[w][i] = n
\* Seeded fault: one producer of a joined link being gone is enough.
DisconnectedByOne(n) ==
    /\ ~held
    /\ \/ n \in Feeder
       \/ /\ n \notin Input
          /\ \E m \in Feeds[n] :
               m \notin handles /\ \A w \in Worker : ~SendsFor(w, m)

\* The pipeline keeps a sender of a standard input link until join returns;
\* a feeder is shut down or cancelled when the supervisor closes its links.
Disconnected(n) ==
    /\ ~held
    /\ \/ n \in Feeder
       \/ /\ n \notin Input
          /\ \A m \in Feeds[n] :
               m \notin handles /\ \A w \in Worker : ~SendsFor(w, m)

\* The decision to leave after a timeout.  A feeder's is_terminated tells only
\* what a poll has found, which would have ended the loop.
MayLeave(n) ==
    \/ n \notin Feeder /\ Disconnected(n)
    \/ shutdown /\ n \in Input \cup Feeder

-----------------------------------------------------------------------------
(* Startup: every base worker and every initial scalable worker is         *)
(* assigned, the reserve is parked, and start() has returned.              *)

Init ==
    /\ spc = "drain" /\ held = TRUE
    /\ active = [w \in Worker |->
                    IF w \in DOMAIN Startup THEN Startup[w] ELSE None]
    /\ parked = Reserve
    /\ spawned = DOMAIN Startup \cup Reserve
    /\ pending = NoOp /\ settling = {} /\ failure = None
    /\ returned = 0 /\ result = None /\ ops = 0
    /\ events = <<>> /\ reports = 0
    /\ shutdown = FALSE /\ abort = FALSE
    /\ pc = [w \in Worker |-> "idle"]
    /\ job = [w \in Worker |-> None]
    /\ cmd = [w \in Worker |->
                IF w \in DOMAIN Startup THEN <<Startup[w]>> ELSE <<>>]
    /\ carried = [w \in Worker |-> 0]
    /\ retire = [w \in Worker |-> None]
    /\ mergeFlag = [w \in Worker |-> FALSE]
    /\ requests = [w \in Worker |-> <<>>]
    /\ chan = [w \in Worker |-> EmptyChan]
    /\ born = 0 /\ cleaned = 0
    /\ handles = External /\ asked = FALSE
    /\ rpc = [r \in Recorder \cup Reporter |-> "quiet"]

-----------------------------------------------------------------------------
(* Worker threads.                                                         *)

\* What no worker changes.
WorkerFrame == UNCHANGED <<supVars, envVars, reports, abort>>

Post(e) == events' = Append(events, e)
Goto(w, step) == pc' = [pc EXCEPT ![w] = step]
\* The end of an assignment: "kept" is what the worker's state still carries,
\* to be dropped when run_assignment returns.
Leave(type, w, load, kept) ==
    /\ Post(Event(type, w, job[w], load, None))
    /\ carried' = [carried EXCEPT ![w] = kept]
    /\ Goto(w, "returning")
Fail(w) == Leave("failed", w, 0, carried[w])
ParkOnAbort(w) == Leave("parked", w, 0, carried[w])

\* worker_loop: the next command is a stop, or an assignment to run.
TakeCommand(w) ==
    /\ pc[w] = "idle" /\ cmd[w] # <<>>
    /\ cmd' = [cmd EXCEPT ![w] = Tail(@)]
    /\ IF Head(cmd[w]) = Stop
       THEN Goto(w, "stopped") /\ UNCHANGED job
       ELSE Goto(w, "init") /\ job' = [job EXCEPT ![w] = Head(cmd[w])]
    /\ WorkerFrame /\ UNCHANGED <<ledger, carried, retire, mergeFlag,
                                  requests, chan, events>>

\* The node's init function runs; a weighted branch has no user state.
Start(w) ==
    /\ pc[w] = "init"
    /\ LET mass == IF job[w] \in Branch THEN 0 ELSE 1 IN
         /\ carried' = [carried EXCEPT ![w] = mass]
         /\ born' = born + mass
    /\ Post(Event("started", w, job[w], 0, None))
    /\ Goto(w, "head")
    /\ WorkerFrame /\ UNCHANGED <<mail, cleaned, job>>

FailInit(w) ==
    /\ pc[w] = "init" /\ "init" \in FailAt /\ job[w] \notin Branch
    /\ Fail(w)
    /\ WorkerFrame /\ UNCHANGED <<mail, ledger, job>>

\* Seeded fault: the retire control outlives the assignment.
DropRetireLeaks(w) == UNCHANGED chan

\* A transfer nobody took ends when its retire control is dropped, by the
\* worker and by the supervisor's slot.
DropRetire(w) ==
    chan' = [chan EXCEPT ![w] =
                IF @.st = "open" THEN [st |-> "closed", load |-> 0] ELSE @]

\* User code (init, process, merge, cleanup, the drop of a state) panics: the
\* thread unwinds without sending an event and drops its retire control.
Panic(w) ==
    /\ MayPanic /\ job[w] \notin Branch
    /\ \/ pc[w] \in {"init", "poll", "requests"}
       \/ pc[w] = "returning" /\ carried[w] > 0
       \/ pc[w] = "retire" /\ retire[w] = "cleanup"
       \/ pc[w] = "check" /\ MayLeave(job[w])
    /\ Goto(w, "panicked")
    /\ job' = [job EXCEPT ![w] = None]
    /\ carried' = [carried EXCEPT ![w] = 0]
    /\ IF active[w] = None THEN DropRetire(w) ELSE UNCHANGED chan
    /\ WorkerFrame /\ UNCHANGED <<ledger, cmd, retire, mergeFlag, requests,
                                  events>>

\* Top of the assignment loop.
CheckAbort(w) ==
    /\ pc[w] = "head"
    /\ IF abort
       THEN ParkOnAbort(w)
       ELSE /\ Goto(w, IF job[w] \in Branch THEN "retire" ELSE "merge")
            /\ UNCHANGED <<events, carried>>
    /\ WorkerFrame /\ UNCHANGED <<mail, ledger, job>>

\* drain_merge_requests: the flag is swapped, then requests are taken until
\* the channel is empty.
SwapMergeFlag(w) ==
    /\ pc[w] = "merge"
    /\ mergeFlag' = [mergeFlag EXCEPT ![w] = FALSE]
    /\ Goto(w, IF mergeFlag[w] THEN "requests" ELSE "retire")
    /\ WorkerFrame /\ UNCHANGED <<ledger, job, cmd, carried, retire,
                                  requests, chan, events>>

NoMoreRequests(w) ==
    /\ pc[w] = "requests" /\ requests[w] = <<>>
    /\ Goto(w, "retire")
    /\ WorkerFrame /\ UNCHANGED <<mail, ledger, job, carried, events>>

\* The blocking receive of the retired worker's state returns the state.
Merge(w) ==
    /\ pc[w] = "requests" /\ requests[w] # <<>>
    /\ LET src == Head(requests[w]) IN
         /\ chan[src].st = "full"
         /\ carried' = [carried EXCEPT ![w] = @ + chan[src].load]
         /\ chan' = [chan EXCEPT ![src] = EmptyChan]
         /\ Post(Event("merged", w, job[w], 0, src))
    /\ requests' = [requests EXCEPT ![w] = Tail(@)]
    /\ WorkerFrame /\ UNCHANGED <<ledger, pc, job, cmd, retire, mergeFlag>>

\* The receive finds the channel closed, or the merge function fails.
MergeFails(w) ==
    /\ pc[w] = "requests" /\ requests[w] # <<>>
    /\ LET src == Head(requests[w]) IN
         /\ \/ chan[src].st = "closed"
            \/ chan[src].st = "full" /\ "merge" \in FailAt
         /\ chan' = [chan EXCEPT ![src] = EmptyChan]
    /\ requests' = [requests EXCEPT ![w] = Tail(@)]
    /\ Fail(w)
    /\ WorkerFrame /\ UNCHANGED <<ledger, job, cmd, retire, mergeFlag>>

NotRetired(w) ==
    /\ pc[w] = "retire" /\ retire[w] = None
    /\ Goto(w, "poll")
    /\ WorkerFrame /\ UNCHANGED <<mail, ledger, job, carried, events>>

\* The end of an assignment that runs the cleanup function.
Cleanup(w) ==
    \/ Leave("parked", w, 0, 0) /\ cleaned' = cleaned + carried[w]
    \/ /\ "cleanup" \in FailAt /\ job[w] \notin Branch
       /\ Leave("failed", w, 0, 0) /\ UNCHANGED cleaned

RetireByCleanup(w) ==
    /\ pc[w] = "retire" /\ retire[w] = "cleanup"
    /\ retire' = [retire EXCEPT ![w] = None]
    /\ Cleanup(w)
    /\ WorkerFrame /\ UNCHANGED <<born, job, cmd, mergeFlag, requests, chan>>

\* Seeded fault: the transferred state is cleaned up as well.
RetireTwice(w) ==
    /\ pc[w] = "retire" /\ retire[w] = "transfer"
    /\ retire' = [retire EXCEPT ![w] = None]
    /\ chan' = [chan EXCEPT ![w] = [st |-> "full", load |-> carried[w]]]
    /\ cleaned' = cleaned + carried[w]
    /\ Leave("parked", w, 0, 0)
    /\ WorkerFrame /\ UNCHANGED <<born, job, cmd, mergeFlag, requests>>

\* The state is sent if the supervisor still holds the channel's receiver.
RetireByTransfer(w) ==
    /\ pc[w] = "retire" /\ retire[w] = "transfer"
    /\ retire' = [retire EXCEPT ![w] = None]
    /\ IF pending.kind = "merge" /\ pending.src = w /\ pending.rx
       THEN /\ chan' = [chan EXCEPT ![w] = [st |-> "full", load |-> carried[w]]]
            /\ Leave("parked", w, 0, 0)
       ELSE /\ chan' = [chan EXCEPT ![w] = EmptyChan]
            /\ Leave("failed", w, 0, 0)
    /\ WorkerFrame /\ UNCHANGED <<ledger, job, cmd, mergeFlag, requests>>

\* A poll of the input link finds an item and processes it.
Process(w) ==
    /\ pc[w] = "poll"
    /\ \/ Goto(w, "head") /\ UNCHANGED <<events, carried>>
       \/ "process" \in FailAt /\ job[w] \notin Branch /\ Fail(w)
    /\ WorkerFrame /\ UNCHANGED <<mail, ledger, job>>

\* The poll times out; run_assignment looks at abort before anything else.
PollTimeout(w) ==
    /\ pc[w] = "poll"
    /\ IF abort /\ job[w] \notin Branch
       THEN ParkOnAbort(w)
       ELSE Goto(w, "check") /\ UNCHANGED <<events, carried>>
    /\ WorkerFrame /\ UNCHANGED <<mail, ledger, job>>

\* Graceful exit: the state is returned, or cleaned up.
GracefulExit(w) ==
    IF job[w] \in Returning
    THEN Leave("parked", w, carried[w], 0) /\ UNCHANGED cleaned
    ELSE Cleanup(w)

\* An input worker whose queue is not empty stays even under shutdown.
StayInLoop(w) ==
    /\ pc[w] = "check"
    /\ ~MayLeave(job[w]) \/ job[w] \in Input \ Feeder
    /\ Goto(w, "head")
    /\ WorkerFrame /\ UNCHANGED <<mail, ledger, job, carried, events>>

LeaveLoop(w) ==
    /\ pc[w] = "check" /\ MayLeave(job[w])
    /\ GracefulExit(w)
    /\ WorkerFrame /\ UNCHANGED <<mail, born, job>>

\* The poll finds the link disconnected.
PollDisconnected(w) ==
    /\ pc[w] = "poll" /\ Disconnected(job[w])
    /\ IF abort /\ job[w] \notin Branch
       THEN ParkOnAbort(w) /\ UNCHANGED cleaned
       ELSE GracefulExit(w)
    /\ WorkerFrame /\ UNCHANGED <<mail, born, job>>

\* run_assignment returns: its links, its retire control, its merge request
\* channel and a state it still holds are dropped.
Return(w) ==
    /\ pc[w] = "returning"
    /\ Goto(w, "idle")
    /\ job' = [job EXCEPT ![w] = None]
    /\ IF active[w] = None THEN DropRetire(w) ELSE UNCHANGED chan
    /\ carried' = [carried EXCEPT ![w] = 0]
    /\ WorkerFrame /\ UNCHANGED <<ledger, cmd, retire, mergeFlag, requests,
                                  events>>

Exits(w) == LeaveLoop(w) \/ PollDisconnected(w)
Steps(w) ==
    \/ TakeCommand(w) \/ Start(w) \/ FailInit(w) \/ CheckAbort(w)
    \/ SwapMergeFlag(w) \/ NoMoreRequests(w) \/ Merge(w) \/ MergeFails(w)
    \/ NotRetired(w) \/ RetireByCleanup(w) \/ RetireByTransfer(w)
    \/ Process(w) \/ PollTimeout(w) \/ StayInLoop(w) \/ Return(w)

-----------------------------------------------------------------------------
(* The supervisor: worker events.                                          *)

config == <<held, spawned, result, ops>>
roster == <<active, parked, pending, settling, returned>>
SupervisorFrame == UNCHANGED <<ledger, envVars, pc, job, carried>>

Settle(op) ==
    /\ pending' = NoOp
    /\ settling' = settling \cup {op.node}

\* Seeded fault: the slot is not cleared.
UnassignKeepsSlot(w) ==
    /\ parked' = parked \cup {w}
    /\ UNCHANGED <<active, chan>>

\* A worker leaves the roster: its slot is cleared and it is parked.
Unassign(w) ==
    /\ active' = [active EXCEPT ![w] = None]
    /\ parked' = parked \cup {w}
    /\ IF InAssignment(w) THEN UNCHANGED chan ELSE DropRetire(w)

Raise(kind) == abort' = TRUE /\ failure' = kind

OnStarted(e) ==
    /\ e.type = "started"
    /\ IF pending.kind = "add" /\ pending.src = e.worker
       THEN Settle(pending)
       ELSE UNCHANGED <<pending, settling>>
    /\ UNCHANGED <<active, parked, failure, returned, abort, requests, mergeFlag,
                   chan>>

\* Seeded fault: the request is sent but merge_pending is not set.
HandOverSilently(e) ==
    /\ requests' = [requests EXCEPT ![pending.dst] = Append(@, e.worker)]
    /\ pending' = [pending EXCEPT !.rx = FALSE, !.waiting = TRUE]
    /\ UNCHANGED <<abort, failure, settling, mergeFlag>>

\* The retiring worker of a merge has parked: its state channel is handed to
\* the target, unless the target's slot or its request channel is gone.
HandOver(e) ==
    LET dst == pending.dst IN
    IF pending.rx /\ MergeSender(dst) /\ Assigned(dst)
    THEN /\ requests' = [requests EXCEPT ![dst] = Append(@, e.worker)]
         /\ mergeFlag' = [mergeFlag EXCEPT ![dst] = TRUE]
         /\ pending' = [pending EXCEPT !.rx = FALSE, !.waiting = TRUE]
         /\ UNCHANGED <<abort, failure, settling>>
    ELSE /\ Raise("internal")
         /\ pending' = [pending EXCEPT !.rx = FALSE]
         /\ UNCHANGED <<requests, mergeFlag, settling>>

\* The scale operation in progress waits for this worker to park.
Retires(w) ==
    pending.kind \in {"remove", "merge"} /\ pending.src = w /\ ~pending.waiting

OnParked(e) ==
    /\ e.type = "parked"
    /\ Unassign(e.worker)
    /\ returned' = returned + e.load
    /\ \/ /\ Retires(e.worker) /\ pending.kind = "remove"
          /\ Settle(pending)
          /\ UNCHANGED <<abort, failure, requests, mergeFlag>>
       \/ /\ Retires(e.worker) /\ pending.kind = "merge"
          /\ HandOver(e)
       \/ /\ ~Retires(e.worker)
          /\ UNCHANGED <<pending, settling, abort, failure, requests, mergeFlag>>

OnMerged(e) ==
    /\ e.type = "merged"
    /\ IF pending.kind = "merge" /\ pending.waiting
          /\ pending.src = e.src /\ pending.dst = e.worker
       THEN Settle(pending)
       ELSE UNCHANGED <<pending, settling>>
    /\ UNCHANGED <<active, parked, failure, returned, abort, requests, mergeFlag,
                   chan>>

\* pending_scale_involves_worker
Involves(op, w) == op.kind # None /\ w \in {op.src, op.dst}

OnFailed(e) ==
    /\ e.type = "failed"
    /\ Unassign(e.worker)
    /\ pending' = IF Involves(pending, e.worker) THEN NoOp ELSE pending
    /\ Raise("worker")
    /\ UNCHANGED <<returned, settling, requests, mergeFlag>>

DrainEvent ==
    /\ spc = "drain" /\ events # <<>>
    /\ events' = Tail(events)
    /\ LET e == Head(events) IN
         OnStarted(e) \/ OnParked(e) \/ OnMerged(e) \/ OnFailed(e)
    /\ SupervisorFrame /\ UNCHANGED <<config, spc, cmd, retire, reports>>

EventsDrained ==
    /\ spc = "drain" /\ events = <<>>
    /\ spc' = "failures"
    /\ SupervisorFrame /\ UNCHANGED <<mail, roster, config, failure, events,
                                      reports, abort>>

\* Seeded fault: an empty channel is received from.
DrainFailureBlindly ==
    /\ spc \in {"failures", "final"}
    /\ spc' = IF spc = "failures" THEN "links" ELSE "stop"
    /\ reports' = reports - 1
    /\ SupervisorFrame /\ UNCHANGED <<mail, roster, config, events, abort, failure>>

\* drain_internal_failures, in the loop and once more before it ends.
DrainFailure ==
    /\ spc \in {"failures", "final"}
    /\ IF reports > 0
       THEN reports' = reports - 1 /\ Raise("reported") /\ UNCHANGED spc
       ELSE /\ spc' = IF spc = "failures" THEN "links" ELSE "stop"
            /\ UNCHANGED <<reports, abort, failure>>
    /\ SupervisorFrame /\ UNCHANGED <<mail, roster, config, events>>

-----------------------------------------------------------------------------
(* The supervisor: links, scaling, exit.                                   *)

\* Seeded fault: the links are closed by abort only.
CloseLinksOnAbort ==
    /\ spc = "links"
    /\ held' = (held /\ ~(abort \/ failure # None))
    /\ spc' = "scale"
    /\ SupervisorFrame /\ UNCHANGED <<mail, roster, spawned, failure, result,
                                      ops, events, reports, abort>>

CloseLinks ==
    /\ spc = "links"
    /\ held' = (held /\ ~Stopping)
    /\ spc' = "scale"
    /\ SupervisorFrame /\ UNCHANGED <<mail, roster, spawned, failure, result,
                                      ops, events, reports, abort>>

\* Seeded faults: scaling goes on after a stop; limits are off by one; a node
\* that settles is scaled again.
MayScaleWhileStopping == pending.kind = None /\ ops < MaxScale

\* choose_scale_operation, once no stop is asked for and no operation is
\* pending.  Which node the samples favour is a choice; a settling node is
\* eligible again once collect_node_samples saw it work (settled).
MayScale == ~Stopping /\ pending.kind = None /\ ops < MaxScale
RoomAtOffByOne(n) == Cardinality(Staff(n)) <= MaxThreads[n]
ShrinkableToZero(n) == Cardinality(Staff(n)) > 0
CanScaleUnsettled(n, settled) == n \in Elastic

UnderCap == Cardinality(Busy) < GlobalCap
RoomAt(n) == Cardinality(Staff(n)) < MaxThreads[n]
Shrinkable(n) == Cardinality(Staff(n)) > 1
CanScale(n, settled) == n \in Elastic /\ n \notin settling \ settled

\* assign_worker
Assign(w, n) ==
    /\ active' = [active EXCEPT ![w] = n]
    /\ cmd' = [cmd EXCEPT ![w] = Append(@, n)]
    /\ retire' = [retire EXCEPT ![w] = None]
    /\ mergeFlag' = [mergeFlag EXCEPT ![w] = FALSE]
    /\ requests' = [requests EXCEPT ![w] = <<>>]
    /\ chan' = [chan EXCEPT ![w] = EmptyChan]

\* A parked worker is used if there is one; then the reserve is refilled.
ScaleUp ==
    /\ spc = "scale" /\ MayScale
    /\ \E settled \in SUBSET settling, n \in Node, w \in Worker,
          fresh \in SUBSET (Worker \ spawned) :
         /\ CanScale(n, settled)
         /\ UnderCap /\ RoomAt(n)
         /\ IF parked # {} THEN w \in parked ELSE w \in fresh
         /\ LET rest == (parked \cup fresh) \ {w} IN
              /\ Cardinality(rest) =
                   Largest(ParkedTarget, Cardinality(parked \ {w}))
              /\ parked' = rest
         /\ spawned' = spawned \cup fresh
         /\ Assign(w, n)
         /\ pending' = [NoOp EXCEPT !.kind = "add", !.src = w, !.node = n]
         /\ settling' = settling \ settled
    /\ ops' = ops + 1
    /\ spc' = "exit"
    /\ SupervisorFrame /\ UNCHANGED <<held, failure, returned, result,
                                      events, reports, abort>>

ScaleDown ==
    /\ spc = "scale" /\ MayScale
    /\ \E settled \in SUBSET settling, n \in Node, w \in Worker :
         /\ CanScale(n, settled)
         /\ active[w] = n /\ Shrinkable(n)
         /\ settling' = settling \ settled
         /\ IF n \in Mergeable /\ Cardinality(Staff(n)) > 1
            THEN \E dst \in Staff(n) \ {w} :
                   /\ retire' = [retire EXCEPT ![w] = "transfer"]
                   /\ chan' = [chan EXCEPT ![w] = [st |-> "open", load |-> 0]]
                   /\ pending' = [kind |-> "merge", src |-> w, dst |-> dst,
                                  node |-> n, rx |-> TRUE, waiting |-> FALSE]
            ELSE /\ retire' = [retire EXCEPT ![w] = "cleanup"]
                 /\ pending' = [NoOp EXCEPT !.kind = "remove", !.src = w,
                                            !.node = n]
                 /\ UNCHANGED chan
    /\ ops' = ops + 1
    /\ spc' = "exit"
    /\ SupervisorFrame /\ UNCHANGED <<held, active, parked, spawned, failure,
                                      returned, result, cmd, mergeFlag, requests,
                                      events, reports, abort>>

NoScale ==
    /\ spc = "scale"
    /\ \E settled \in SUBSET settling : settling' = settling \ settled
    /\ spc' = "exit"
    /\ SupervisorFrame /\ UNCHANGED <<mail, config, active, parked, pending,
                                      failure, returned, events, reports, abort>>

\* Seeded fault: the threads are asked instead of the roster.
NoThreadActive == \A w \in Busy : pc[w] \in {"idle", "returning"}

NobodyActive == Busy = {}

CheckExit ==
    /\ spc = "exit"
    /\ spc' = IF Stopping /\ NobodyActive THEN "final" ELSE "drain"
    /\ SupervisorFrame /\ UNCHANGED <<mail, roster, config, failure, events,
                                      reports, abort>>

StopParked ==
    /\ spc = "stop"
    /\ cmd' = [w \in Worker |->
                 IF w \in parked THEN Append(cmd[w], Stop) ELSE cmd[w]]
    /\ parked' = {}
    /\ spc' = "join"
    /\ SupervisorFrame /\ UNCHANGED <<config, active, pending, settling,
                                      failure, returned, retire, mergeFlag,
                                      requests, chan, events, reports, abort>>

\* Every handle is joined; a panicked thread ends the join early.
JoinWorkers ==
    /\ spc = "join"
    /\ \/ /\ \A w \in spawned : pc[w] = "stopped"
          /\ result' = IF failure = None THEN "ok" ELSE "err"
       \/ /\ \E w \in spawned : pc[w] = "panicked"
          /\ result' = "panicked"
    /\ spc' = "done"
    /\ SupervisorFrame /\ UNCHANGED <<mail, roster, held, spawned, failure,
                                      ops, events, reports, abort>>

Supervisor ==
    \/ DrainEvent \/ EventsDrained \/ DrainFailure \/ CloseLinks
    \/ ScaleUp \/ ScaleDown \/ NoScale \/ CheckExit \/ StopParked \/ JoinWorkers

-----------------------------------------------------------------------------
(* User code and the other threads that share the flags.                   *)

OutsideFrame == UNCHANGED <<supVars, ledger, workVars, events>>

Shutdown ==
    /\ spc # "done" /\ ~shutdown
    /\ shutdown' = TRUE
    /\ OutsideFrame /\ UNCHANGED <<asked, handles, rpc, reports, abort>>

Abort ==
    /\ spc # "done" /\ ~asked
    /\ abort' = TRUE /\ asked' = TRUE
    /\ OutsideFrame /\ UNCHANGED <<shutdown, handles, rpc, reports>>

DropHandle(x) ==
    /\ x \in handles
    /\ handles' = handles \ {x}
    /\ OutsideFrame /\ UNCHANGED <<shutdown, asked, rpc, reports, abort>>

\* Seeded fault: every thread stores abort first.
AbortFirstAlways(r) == TRUE

\* The recorder and emit store abort and then send the failure;
\* ExternalNode::fail sends the failure and then stores abort.
AbortFirst(r) == r \in Recorder

StoreAbort(r) ==
    /\ spc # "done"
    /\ rpc[r] = (IF AbortFirst(r) THEN "quiet" ELSE "between")
    /\ rpc' = [rpc EXCEPT ![r] = IF AbortFirst(r) THEN "between" ELSE "over"]
    /\ abort' = TRUE
    /\ OutsideFrame /\ UNCHANGED <<shutdown, asked, handles, reports>>

SendReport(r) ==
    /\ spc # "done"
    /\ rpc[r] = (IF AbortFirst(r) THEN "between" ELSE "quiet")
    /\ rpc' = [rpc EXCEPT ![r] = IF AbortFirst(r) THEN "over" ELSE "between"]
    /\ reports' = reports + 1
    /\ OutsideFrame /\ UNCHANGED <<shutdown, asked, handles, abort>>

Reports(r) == StoreAbort(r) \/ SendReport(r)

Finished == spc = "done" /\ UNCHANGED vars

Environment ==
    \/ Shutdown \/ Abort
    \/ \E x \in External : DropHandle(x)
    \/ \E r \in Recorder \cup Reporter : Reports(r)

Next ==
    \/ Supervisor
    \/ \E w \in Worker : Steps(w) \/ Exits(w) \/ Panic(w)
    \/ Environment
    \/ Finished

Spec == Init /\ [][Next]_vars

\* The supervisor and the workers are threads the system schedules.
Progress == WF_vars(Supervisor) /\ \A w \in Worker : WF_vars(Steps(w))

\* A link's queue is finite once shutdown stops senders, so a worker that may
\* leave its loop whenever its queue is empty does so: strong fairness on the
\* exits.  join() drops the external handles the user did not take.
Fairness ==
    /\ Progress
    /\ \A w \in Worker : SF_vars(PollTimeout(w)) /\ SF_vars(Exits(w))
    /\ \A x \in External : WF_vars(DropHandle(x))

LiveSpec == Spec /\ Progress
FairSpec == Spec /\ Fairness

-----------------------------------------------------------------------------
(* Properties.                                                             *)

Message == [type : {"started", "parked", "merged", "failed"}, worker : Worker,
            node : Node \cup {None}, load : Nat, src : Worker \cup {None}]
Operation == [kind : {None, "add", "remove", "merge"},
              src : Worker \cup {None}, dst : Worker \cup {None},
              node : Node \cup {None}, rx : BOOLEAN, waiting : BOOLEAN]
Command == (Node \ External) \cup {Stop}
StateChan == [st : {None, "open", "full", "closed"}, load : Nat]
StepNames == Running \cup {"idle", "stopped", "panicked"}

\* Every variable has its type; the worker event channel holds only events
\* that a worker sends.
TypeOK ==
    /\ /\ spc \in {"drain", "failures", "links", "scale", "exit", "final",
                   "stop", "join", "done"}
       /\ failure \in {None, "internal", "worker", "reported"}
       /\ result \in {None, "ok", "err", "panicked"}
       /\ held \in BOOLEAN /\ shutdown \in BOOLEAN /\ abort \in BOOLEAN
       /\ asked \in BOOLEAN /\ handles \subseteq External
       /\ rpc \in [Recorder \cup Reporter -> {"quiet", "between", "over"}]
    /\ /\ active \in [Worker -> (Node \ External) \cup {None}]
       /\ parked \subseteq Worker /\ spawned \subseteq Worker
       /\ pending \in Operation /\ settling \subseteq Node \cup {None}
       /\ returned \in Nat /\ ops \in Nat /\ reports \in Nat
       /\ born \in Nat /\ cleaned \in Nat
    /\ events \in Seq(Message)
    /\ /\ pc \in [Worker -> StepNames]
       /\ job \in [Worker -> (Node \ External) \cup {None}]
       /\ cmd \in [Worker -> Seq(Command)]
       /\ carried \in [Worker -> Nat]
       /\ retire \in [Worker -> {None, "cleanup", "transfer"}]
       /\ mergeFlag \in [Worker -> BOOLEAN]
       /\ requests \in [Worker -> Seq(Worker)]
       /\ chan \in [Worker -> StateChan]

\* The supervisor's roster (run_supervisor, drain_worker_events) is exact: a
\* thread is parked or serves one node and is never both nor neither, and a
\* worker that serves a node owes exactly one parked or failed event, sent
\* once its assignment is over.  A thread counted twice would be assigned
\* twice; a thread not counted would never be stopped, and join would hang.
ExitEvents(w) ==
    {i \in 1..Len(events) : events[i].worker = w
                            /\ events[i].type \in {"parked", "failed"}}
Working(w) == pc[w] \in Running \ {"returning"} \/ (cmd[w] # <<>> /\ Head(cmd[w]) # Stop)
RosterExact ==
    /\ parked \cap Busy = {}
    /\ spc \notin {"join", "done"} => spawned = parked \cup Busy
    /\ \A w \in Worker :
         IF w \in Busy
         THEN pc[w] # "panicked" =>
                IF Working(w) THEN ExitEvents(w) = {}
                ELSE \E i \in 1..Len(events) :
                        ExitEvents(w) = {i} /\ events[i].node = active[w]
         ELSE ExitEvents(w) = {} /\ ~Working(w)

\* A worker is given an assignment only while the supervisor holds the links:
\* make_output's expect("standard sender exists") never panics.
NoAssignmentAfterClose ==
    [][\A w \in Worker, n \in Node :
          active[w] = None /\ active'[w] = n => held']_vars

\* Scaling stays inside its limits: active workers within the global cap, a
\* scalable node within its configured maximum, and threads within the cap
\* plus one parked worker for each scalable node, however many operations ran.
Initially(n) == Cardinality({w \in DOMAIN Startup : Startup[w] = n})
WithinLimits ==
    /\ Cardinality(Busy) <= GlobalCap
    /\ Cardinality(spawned) <= GlobalCap + ParkedTarget
    /\ \A n \in Node :
         Cardinality(Staff(n)) <=
            IF n \in Elastic THEN Largest(MaxThreads[n], Initially(n))
                             ELSE Initially(n)

\* Scaling down never leaves a node without a worker: until the pipeline is
\* told to stop, every managed node has a worker that was not asked to retire.
NodesStaffed ==
    ~Stopping /\ ~MayPanic /\ (\A i \in 1..Len(events) : events[i].type # "failed")
    => \A n \in Node \ External :
         \E w \in Staff(n) : Working(w) /\ (pending.kind = "add" \/ w # pending.src)

\* The blocking receive of a merge target never waits on a worker that could
\* wait on it: the retiring worker has left its loop and only has to return.
MergeWaitsOnlyOnReturn ==
    \A w \in Worker :
        pc[w] = "requests" /\ requests[w] # <<>> =>
            LET src == Head(requests[w]) IN
              /\ src # w /\ src \notin Busy
              /\ pc[src] \notin Running \ {"returning"}
              /\ chan[src].st \in (IF pc[src] = "returning" THEN {"open", "full"}
                                                           ELSE {"full", "closed"})

\* The sum of a function of naturals, as the number of units its values count.
Units(f) == UNION {{i} \X (1..f[i]) : i \in DOMAIN f}
Total(f) == Cardinality(Units(f))

\* Merging, returning and cleaning up neither lose nor duplicate a user state
\* while nothing fails: every state initialised so far is in one worker, in
\* one transfer, on its way to returned_states, or disposed of.
StatesHeld ==
    Total(carried) + Total([w \in Worker |-> chan[w].load])
    + Total([i \in 1..Len(events) |-> events[i].load])
StatesAccounted ==
    ~abort /\ ~MayPanic /\ (\A i \in 1..Len(events) : events[i].type # "failed")
    => born = StatesHeld + returned + cleaned

\* Graceful shutdown closes the graph from the input on: while a managed or
\* external producer of a standard link can still send, some worker of the
\* consuming node is still in its loop.
CanSend(n) == n \in handles \/ \E w \in Worker : SendsFor(w, n)
ConsumersOutlive ==
    ~abort /\ ~MayPanic /\ (\A i \in 1..Len(events) : events[i].type # "failed")
    => \A n \in Node \ (External \cup Input \cup Feeder) :
         (\E m \in Feeds[n] : CanSend(m)) => \E w \in Staff(n) : Working(w)

\* No verdict comes too late: when join ends the workers' last words have all
\* been read, so no parked or failed event is left in the channel.
NoLateVerdict ==
    spc \in {"final", "stop", "join", "done"} =>
        \A w \in Worker : ExitEvents(w) = {}

\* A pipeline that nobody shut down or aborted does not end in success:
\* whatever stopped it is reported by join.  Only a thread that stores abort
\* before it sends its failure (the telemetry recorder, emit) can be too late
\* for the last drain of the failure channel.  Nor does it end in success when a
\* worker thread panicked, whoever stopped it.
StopIsExplained ==
    result = "ok" =>
        /\ shutdown \/ asked \/ \E r \in Recorder : rpc[r] # "quiet"
        /\ \A w \in Worker : pc[w] # "panicked"

\* A worker that panicked before it could send its last event: it stays active, the
\* supervisor waits for the event, and no join returns.
Unheard(w) == w \in Busy /\ pc[w] = "panicked" /\ ExitEvents(w) = {}

\* join returns: once shut down or aborted the supervisor joins every worker and ends,
\* through branches and external nodes, unless a panic goes unheard.  It takes workers
\* that leave when their queues run dry (Fairness).
JoinReturns == (shutdown \/ abort) ~> spc = "done" \/ \E w \in Worker : Unheard(w)

\* After an abort, the user's or a failure's, it takes only threads that run: nobody
\* waits for ever in the middle of an addition or of a merge, on a state whose worker
\* fails, leaves without the transfer or is aborted itself.
AbortEnds == abort ~> spc = "done" \/ \E w \in Worker : Unheard(w)

\* The pool's roster in the terms of Staffing; the operation in progress is
\* hired, asked, or, once the state of a merge was handed over, left.
staffOf == [n \in Node |-> Cardinality(Staff(n))]
opOf ==
    CASE pending.kind = None -> <<"none", 0>>
      [] pending.kind = "add" -> <<"hired", pending.node>>
      [] OTHER -> <<IF pending.waiting THEN "left" ELSE "asked", pending.node>>

Promise == INSTANCE Staffing WITH
       Cap <- GlobalCap, Limited <- Elastic, Limit <- MaxThreads,
       Initial <- [n \in Node |-> Initially(n)],
       staff <- staffOf, op <- opOf, resting <- settling, stopped <- Stopping

\* What the choices of operations promise of the workers of each node
\* (choose_scale_operation) is what the roster shows while the threads start,
\* park, merge, fail and stop: before a stop nobody leaves who was not asked,
\* and an operation ends only on the event it waits for; after a stop nobody
\* is assigned.
ImplementsStaffing == Promise!Spec

\* A scale operation ends: pending_scale is cleared, unless the pipeline is
\* told to stop first.
ScaleSettles == pending.kind # None ~> pending.kind = None \/ Stopping

-----------------------------------------------------------------------------
(* What tests and documentation say and the code does not always do.       *)

\* A retiring worker's state is combined into a still-active worker: a join
\* that succeeds has disposed of every state.
RetiredStatesKept == result = "ok" /\ ~abort => born = returned + cleaned

\* A panic in a worker thread is reported by join.
PanicReported ==
    \A w \in Worker : pc[w] = "panicked" ~> spc = "done"
=============================================================================
