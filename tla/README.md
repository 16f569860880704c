# Piper in TLA+

This directory holds a TLA+ development of Piper, the Rust library in this
repository for node-based data pipelines (`src/lib.rs`, `src/channel/mod.rs`,
`piper-macros`). TLC checks the models on small instances; TLAPS proves the
theorems of the modules named `...Proofs` for every instance. Every safety property
that the runs check is also a theorem; liveness is left to TLC.

## The system

| Component | State | Operations | Talks to | What is hard |
|---|---|---|---|---|
| Supervisor (`run_supervisor`) | `workers`, `active_by_node`, `parked`, `pending_scale`, `stored_failure`, `returned_states`, whether it still holds the links | drain worker events, drain failures, close links, scale up, scale down, exit, stop and join | commands to workers, retire controls, merge requests; events and failure reports from them | reads its flags several times per iteration; learns of a worker's exit only from an event |
| Managed workers (`worker_loop`, `run_assignment`, `run_weighted_branch_assignment`) | user state, current assignment | init, poll, process, merge, retire, cleanup, park, panic | events to the supervisor; state channel from a retiring worker to its merge target | blocking receive of a merge; checks and exits race with shutdown and abort |
| Links | queue, senders alive, closed by the supervisor | send, receive, poll with timeout, disconnect | producers, consumers, the supervisor's copy of the sender | when a consumer may leave |
| Flags and failure channel | `shutdown`, `abort`, `InternalFailure` messages | `shutdown()`, `abort()`, `fail()`, `emit`, lease drop, telemetry recorder | everyone | two-step reports (store abort, send failure) in different orders |
| External nodes | handle taken or held | send, receive, fail, drop | links, flags | the user owns the loop and its end |
| Scaling policy | link and node samples, settling state | sample, choose an operation | supervisor | limits over long runs; settling |
| Channels (`channel/mod.rs`) | back end, endpoint counts | send, receive, clone, drop, `is_terminated` | links | counts read while endpoints come and go |
| Pipe | worker threads, cancel flag, one channel | new, sender, join | user | partial failure, senders that outlive it |
| Buffer leases | value, recycle channel | acquire, detach, drop | nodes, flags | recycled exactly once |
| Weighted branch | arm rates, smoothed queue lengths | sample, choose a route | links | decides on stale lengths |
| Graph and macro | nodes, links | build, check that the graph is acyclic, union of endpoints | | |
| Telemetry, CSV log | snapshot | update, write rows | flags | reports failures of its own |

The properties that make a component correct are listed with the runs below for
what is modelled, and with the plan for the rest. `PROJECT.json` lists the
hazards of the code, line by line, with the properties that cover them.

## Modules

| Module | Content |
|---|---|
| `WorkerPool` | the supervisor, the workers, the flags, the failure channel, the life of links and external handles: who works where, and how the pool ends; implements `Staffing` |
| `WorkerPoolProofs`, `WorkerStaffProofs` | type correctness, the discipline of links and assignments, the roster; how the pool stops, its limits, merges, who serves a node, and that it implements `Staffing` |
| `Delivery` | abstract: what a pipeline promises of the items it accepts |
| `Channel` | the endpoint counts around the channel back ends |
| `Pipe` | the fixed-width worker primitive; implements `Delivery` |
| `Pipeline` | the items: senders, links, the workers' loops, branches, feeder links, the output; implements `Delivery` |
| `Staffing` | abstract: what the pool promises of the workers of each node, before a stop and after it |
| `Scaling` | the supervisor's samples and choices, before a shutdown and without failures; implements `Staffing` |
| `Graph`, `PipelineMacro` | the builder and the checks of `start`; the edges of `pipeline!`, the union-find of their ends and both expansions |
| `Startup` | `start`, the supervisor's prologue and every spawn that may fail |
| `Lease` | buffers, leases and the recycle channel |
| `WeightedBranch` | the sampling of two arms and the choice of a route |
| `PipelineProofs`, `ChannelProofs`, `PipeProofs`, `ScalingProofs` | type correctness and the safety properties of these modules; `Pipeline` and `Pipe` implement `Delivery`, `Scaling` implements `Staffing` |
| `GraphProofs` | the search for cycles, the union-find and the graphs `pipeline!` makes |
| `PartsProofs` | types and safety properties of `Startup`, `Lease` and `WeightedBranch` |
| `MCWorkerPool`, `MCPipeline`, `MCScaling`, `MCParts` | the instances for TLC; `MCParts` composes the four small parts |

`WorkerPool` has the workers come and go and abstracts the items to a choice of
what a poll finds; `Pipeline` has the items and keeps the workers fixed. The cut is
sound because a worker retires only between two items (`run_assignment` looks at
its retire control before it polls), and an item on a link does not depend on who
will take it. `Scaling` has the choice of the next operation that `WorkerPool` leaves open,
and takes from it only that a worker answers: an assignment by starting, a retire
request by parking.

### How `WorkerPool` corresponds to the code

* A worker thread is an element of `Worker`; `spawned` holds those that exist.
  `active[w]` stands for both `active_by_node` and `WorkerSlot::active_node`
  (`assign_worker`, `Parked` and `Failed` change them together), `parked` for the
  supervisor's list. The order of these lists is abstracted to a set.
* `cmd[w]` is the command channel; an assignment is its node. `retire[w]`,
  `mergeFlag[w]` and `requests[w]` are the `RetireControl`, the `merge_pending`
  flag and the merge request channel of the current assignment.
* `chan[w]` is the state channel created when `w` is asked to transfer its
  state: `open`, `full`, or `closed` once every sender is gone. `pending.rx` says
  that the supervisor still holds its receiver.
* A user state is a number, `carried[w]`: how many initialised states were
  merged into it. `born`, `cleaned` and `returned` count what was initialised,
  given to cleanup and collected.
* `pc[w]` walks through `run_assignment`: `init`, `head` (abort check), `merge`
  (swap of the flag), `requests` (the merge loop), `retire`, `poll`, `check` (the
  decision to leave after a timeout), `returning` (the last event is sent, locals
  not yet dropped), then `idle`. Every step makes at most one access to state that
  another thread writes.
* `spc` walks through the supervisor's loop: `drain`, `failures`, `links`,
  `scale`, `exit`; then `final` (last drain of the failure channel), `stop`,
  `join`, `done`. `drain_worker_events` takes one event per step, so workers run in
  between.
* What a poll finds is a choice between an item, a timeout and, when
  `Disconnected` holds, disconnection: `Disconnected` follows the senders alive,
  workers assigned to a producer, external handles and the supervisor's own copy
  (`held`). The pipeline object keeps a sender of the input link until join
  returns, so a standard input link never disconnects. A feeder link ends by a poll;
  its `is_terminated`, read after a timeout, only repeats what a poll has found
  (`MayLeave`).
* The panics of user code are `Panic`; they leave the thread without an event.
  Unwinding drops the worker's retire control too: the state channel of a source that
  panics off the roster (in the drop of its state) closes, so its merge target does not
  wait for it. While the worker is active, the supervisor's slot keeps the control.
* Threads that report failures are `Recorder` (store abort, then send: the
  telemetry recorder, `emit`, a dropped lease) and `Reporter` (send, then store
  abort: `ExternalNode::fail`).

Three merges of steps are deliberate. `HandOver` sends the merge request and
sets the flag in one step: with the single pending operation the target can at
most take the request before the flag is set, and then finds the flag set with no
request, which changes nothing. `ScaleDown` sets the retire request and
`pending_scale` in one step: only the supervisor reads the latter. `JoinWorkers`
joins all threads at once: the order only decides which of several panics is
named.

`ImplementsStaffing` maps the pool to `Staffing`: the workers active at a node are its
`staff` (`staffOf`), `pending` is the operation (`opOf`; it is `left` once the state of a
merge was handed over), and `Stopping` is `stopped`. A scale-up is a `Hire`, a scale-down a
`Dismiss`; a `Parked` event is a `LeaveAndFinish`, a `Leave` of a merge, or after a stop a
`Depart`; a `Failed` event is a `Depart`, which may end the operation; the events of an
addition and of a merge are a `Finish`. A step that moves nobody and ends no operation is a
`Settle`, a `Stop` or a stutter.

Which node the samples favour, and when a settling node is eligible again, is a
choice limited by the guards of `choose_*` that protect a bound (`UnderCap`,
`RoomAt`, `Shrinkable`, `CanScale`): the model scales whenever the code might. A
scale-down with a merge function picks any worker and any other worker as target;
the code takes the first of the list.

### How `Pipeline` corresponds to the code

* `queue[l]` is the channel of link `l`. `held` says that the supervisor still has
  its copies of the senders (`Link::close` drops them); `Terminated(l)` is the sender
  count of the channel at 0: no producer assigned, nothing held. The clients and the
  pipeline object hold senders of the input link for ever.
* `PiperSender::send` is two steps, `Offer` (the load of `shutdown`) and `Send`. A
  send into the channel does not fail before join has returned, because the
  supervisor's `links` keep a receiver of every link; for the same reason the error
  branch of `NodeContext::emit` cannot be taken and is left out.
* `pc[w]` walks through the loop of `run_assignment`, one step per access to a link
  or a flag: `head` (abort), `poll`, `process`, and after a timeout `abort`,
  `terminated`, `shutdown`, `empty`, the four reads of the decision to leave in the
  order of their evaluation. A branch (`run_weighted_branch_assignment`) does not
  look at abort after a timeout. `left[w]` is the exit the worker reports.
* An item keeps its identity and a node emits it once; nodes that emit none or
  several change which items arrive, not how links and exits work. A failing
  process function drops its item.
* `Hear`, `CloseLinks` and `Finish` are the parts of the supervisor that matter to
  items, as independent steps: every order `WorkerPool` allows, and more.
* A feeder link's consumer may leave on any timeout after shutdown; its
  `is_terminated` flag is set only by a poll that finds the feeder over. On abort the
  supervisor also cancels the feeder, which makes the next poll disconnected: the
  worker leaves with the same exit as by the abort check.
* External nodes are left out: their loop is the user's.

### How `Channel` corresponds to the code

* `senders` and `receivers` are `EndpointCounts`. A handle's life (`tx`, `rx`) is
  `unused`, `cloning` (the inner handle is cloned, not yet counted), `alive`,
  `dropping` (uncounted by `Drop`, the inner handle not yet dropped), `gone`: the
  order in which a struct literal and a drop evaluate their fields. `lender` is the
  borrow of a clone, which keeps its original alive until it is counted.
* `backend` is kanal or crossbeam_channel, chosen once. Each is external: a queue
  that refuses to send once its receivers are gone and reports disconnection once it
  is empty and its senders are gone. The order of items is the library's.
* A receiver's call is a walk of `step`: `count` and `empty` (the first look of
  kanal's `recv_timeout`), `poll`, `count again` and `empty again` (after kanal's
  poll found nothing, and in `is_closed` of both). `recv` is a poll that does not
  time out. `told` is the last answer.

### How `Pipe` corresponds to the code

`pc[w]` walks through the worker closure of `Pipe::new`, `owner` through the life of
the `Pipe` (being built, open, consumed by `join`), `next` is the index of both loops
over workers. `Open` says that somebody owns a receiver, so that a send is accepted:
`new` until all are spawned, then each thread until it ends. A spawn may fail, which
leaves `new` early; init, process and finalize may fail or panic. The channel is
used as one step per operation, which is what the properties of `Channel` allow: an
answer `closed` is final, and senders counted out can send no more.

### How `Scaling` corresponds to the code

* `count[n]` is the length of `active_by_node[n]`; `settling` and `seen` are a node's
  `settling`, `settle_samples` and `settle_observed_work`; `timer` is
  `scale_down_eligible_since`, with `due` for a time of at least `scale_down_after`.
  `SettleSamples` is where the count of samples saturates, which is also where the
  code stops asking for more.
* An iteration of the supervisor's loop is one step: `Scale` samples and chooses,
  `Wait` samples while `pending_scale` is set. A number of the samples (a rate, a
  backlog, `desired_workers`) is present as the outcome of each comparison the choices
  make with it, a member of `Sample`; `Consistent` keeps the outcomes to those some
  numbers have. It takes `underutilized_busy_ratio` to be at most 0.60 and
  `low_queue_seconds` at most `target_queue_seconds`, as their defaults are.
* The growing trends are one, as are the draining ones; a node in state `Merging` is
  one with a pending merge, when nothing is chosen.
* `Choose` has the four choices in the order of `choose_scale_operation`, each with
  its scan order (`First`, `FirstConsumer`). A scan that reaches a candidate and finds
  no donor ends its choice, as `add_or_rebalance_for_node` does.
* The events of `drain_worker_events` that end an operation are `AddDone`,
  `RemoveDone`, `HandedOver` and `MergeDone`.
* `wanting` and `donated` are history variables: the nodes the last choice could have
  given a worker, and the last worker that was taken from an anchor at the cap, with
  the nodes that waited then and have waited ever since.

The code has behaviours here that nothing in the repository rules out and no
property mentions: a node that settles but gets no item settles for ever; an
operation does not reset the scale-down timer; two scalable anchors at the cap may
pass a worker between each other while a support node waits. `Startup` and
`PipelineMacro` add three: `start` may give up after ten seconds while the supervisor
goes on to spawn its workers, and runs on; the recorder of a start that fails is
detached and keeps running; `a -> []` counts as a use of `a`, so the macro accepts a
node whose output nobody reads.

### How `PipelineMacro` corresponds to the code

* An entry of `Declared` is a named node: its name, what the node is (`kind`), and what
  `expr_declares_state_merge` says of its expression (`marked`). That is a guess from the
  syntax: an argument or a receiver that names `node_with_state_merge` counts, a node held
  in a variable does not. The two are independent here as there, so `start` may answer
  `MissingStateMerge` to a merge the macro promised, and a node that merges may be returned
  without one.
* `edges` are the pairs the edge statements connect, in any order, and `repeated` says
  that `named_return_state_mergeable` would count a source of `output` twice. The same pair
  twice in one statement counts once, in two statements, or with its source twice in one,
  twice.
* `return_state` is judged before the endpoints and on all statements: a graph with an unknown
  endpoint may be refused for either.
* `Invalid` has all errors about one node that `start` finds before it looks for cycles;
  which one it names is left out.

## Runs

The bounds: `MaxScale` is the number of scale operations, `MaxSends` the number of
items of a channel, and `Item`, `Message` and the sets of handles are finite. `MaxPairs`
bounds the pairs of endpoints declared in `pipeline!`, `MaxNodes` and `MaxLinks` a graph
built by hand, `MaxBuffers` the buffers a factory makes, `MaxQueue` and `MaxCapacity` the
lengths and virtual capacities a branch sees. All other loops of the models return to
earlier states.

| Run | Instance | Shows |
|---|---|---|
| `pool_scaling` | one mergeable node, up to 4 threads, init, process and merge may fail, 3 operations; fair threads, no fair exits | `TypeOK`, `RosterExact`, `MergeWaitsOnlyOnReturn`, `StatesAccounted`, `WithinLimits`, `NodesStaffed`, `NoAssignmentAfterClose`, `ImplementsStaffing`, `AbortEnds`, `ScaleSettles` |
| `pool_failures` | one node without merge on a feeder link, 2 active workers and one parked, failing process and cleanup, panics, the recorder and an external reporter, 1 operation | `NoLateVerdict`, `StopIsExplained` |
| `pool_mixed` | a weighted branch, an external arm, a fixed join; fair | `ConsumersOutlive`, `JoinReturns` |
| `pool_merge_lost` | one node, 3 workers, 2 operations | `RetiredStatesKept` is violated |
| `pool_panic` | one node, panics, fair | `PanicReported` is violated |
| `items_join` | two nodes on the input, joined by a third; one client, 2 items | `InputDrained`, `EmitsAreRead`, `DeliversOnce` |
| `items_fork` | a weighted branch, one arm a node on a feeder link, the other the output; failures; fair | `Delivers`, `Terminates` |
| `items_late` | two nodes in a row, 1 item | `EarlyItemsArrive` is violated |
| `channel` | both back ends, 3 senders, 2 receivers, 3 items | `TypeOK`, `ClosedIsFinal`, `RefusalIsSeen`, `TerminatedIsFinal` |
| `pipe` | 2 workers, 2 clients, 2 messages, failures and panics; fair | `OkMeansDone`, `ProcessesOnce`, `JoinReturns`, `ThreadsEnd` |
| `scaling` | a support node, a scalable anchor that merges and a fixed anchor in a row, cap 5; fair | `TypeOK`, `KeepsStaffed`, `RemovalsWait`, `DonationsArrive`, `NeedIsServed` |
| `parts` | four components by themselves, see below | `LinksAreComponents`, `CycleVerdictExact`, `AcceptedIsPlumbed`, `ReturnStatesAgree`, `LeasesExact`, `QuietAfterStop`, `SpawnFailureDrains`, `EmptyArmServed` |

`pool_`: two workers of one node are enough for a merge, a third for a worker that is
parked while they merge and for a re-use of a parked thread; two operations are
enough for an addition followed by a merge, and for a merge followed by a re-use of
the retired thread. The interesting races are between the source, the target and
the supervisor of one operation, because `pending_scale` admits one at a time.
`pool_scaling` has four threads, fewer than the bound of `WithinLimits` on threads ever
started; that part of it is shown by the theorem `LimitsHold` alone.

That join ends has two properties. `JoinReturns` (`pool_mixed`, no operations and no
failures) is about a stop that has to travel through a branch, an external node and a join.
`AbortEnds` (`pool_scaling`) is about an abort, the user's or a failure's, at any moment of an
addition or a merge, also while the target waits for the state of the source. A user may
abort in every state of that run, also after a shutdown, so no merge or addition is stuck
for good in any of them. That a graceful shutdown ends with an
operation in progress, and without an abort, is not checked. Panics are left to `pool_failures`, `pool_panic` and, where
a merge waits for a source that panics, to the theorem `MergesWaitOnReturns`.

`items_`: two items are enough for one worker to leave while another still has an
item, for an item to be sent between a timeout and a check, and for one producer of a
joined link to be gone while another still emits.

`channel`: a clone in progress, a sender that sends and a third that is being dropped,
against two receivers in the middle of their calls, cover every pair of steps that
touch a count or the queue. `pipe`: two workers race for two messages while a third
party fails, cancels or drops its sender. `scaling`: three nodes give every choice a
candidate (the support node feeds the anchor and competes with it, the anchor can
donate), and a cap of 5 leaves room for two additions before workers are moved; the
trends of each link are limited to the ones that differ there.

`parts`: a behaviour is one of a single part, chosen in the first state, and the
properties of the other parts are about their initial state. The parts share no state, so
this shows what four runs would.

* The graph: with three named nodes and five pairs of endpoints an edge may join two links
  that were both built up before, by either end, and a cycle may go through all three
  nodes or through a link two nodes share; two nodes and three links by hand suffice
  for a branch with one arm that leads back, a node that reads what it writes and a link
  of another builder. One of the named nodes looks as if it merged and does not, one
  merges, one is external. A pair with `output` may come twice; any other pair declared
  twice would only shorten paths of the union-find.
* The start: a scalable node, a weighted branch, an external arm whose output is a
  feeder link, a fixed node behind it and a support node, so every kind of worker count,
  every kind of link and a join of two arms, with a failure at each of the spawns.
* The leases: two leases, two workers and an external handle, three buffers: a buffer can
  wait, be leased, be detached and be dropped late at the same time.
* The branch: lengths and virtual capacities up to 2 give ties, and fill ratios on both
  sides of a tie.

`channel`, `pipe` and `parts` check no deadlock: a channel whose handles are all
dropped, a pipe that was joined, a graph that was judged and a start that failed have
stopped.

### Fairness

`FairSpec` assumes weak fairness of the supervisor and of each worker thread:
they are operating-system threads in loops whose waits have timeouts. It assumes
strong fairness of a worker's timeout and of its exits, because the model's choice
between an item and an empty queue stands for a finite queue: once shutdown stops
senders an input queue runs dry, and the poll then times out. It assumes that the
external handles are dropped: `join` drops those that were never taken; a handle
the user keeps for ever does keep join waiting. `LiveSpec` assumes only the weak
fairness of the threads: an operation settles, and an abort ends the pool, even if the input
never runs dry. Nothing is assumed of `shutdown()`,
`abort()`, failures, panics and reports. A thread that panics before it could send its
last event is the exception of `JoinReturns` and `AbortEnds` (`Unheard`): join then never
returns, as `PanicReported` shows.

`Pipeline` has the items, so weak fairness of each worker, of the supervisor and of
a client between its two steps is enough there: a poll that finds an item takes it.
Nothing is assumed of new sends, of `Receive`, `Shutdown` and `Abort`. `Pipe` assumes
weak fairness of its threads and of a join that was begun, and nothing of clients:
`JoinReturns` and `ThreadsEnd` are about callers who cancel or drop their senders.
`Scaling` assumes weak fairness of the supervisor's loop and of the events that end an
operation, which is what `ScaleSettles` shows of the pool.

## What the violated properties show

* `RetiredStatesKept`. If the target has left its loop but its event is not read
  yet, the request channel is either closed (an internal error) or, while the
  target's locals still live, accepts a request that nobody will take: `join`
  succeeds and the retired state is gone.
* `PanicReported`. A worker that panics in user code sends no event, stays active
  and keeps the supervisor in its loop; `join` never returns, and the mapping to
  `WorkerPanicked` is out of reach. (A panic in the drop of a state, after the last
  event, is reported: `StopIsExplained` also says that a success hides no panic.)
* `EarlyItemsArrive`. A consumer's poll times out; its producer emits the last item
  and drops its output, the last sender; the consumer then reads `is_terminated`,
  which counts senders and does not look at the queue, and leaves. Nobody takes the
  item, and `join` succeeds. `DeliversOnce` says that this happens only once the
  pipeline has been told to stop, and `InputDrained` that it is never the input link.

The same race of a merge with shutdown can also make `join` return an internal error
although no user code failed (the target is parked already: "merge target worker is
not active"; the source leaves before it takes the transfer: "worker state transfer
channel closed"). `run_assignment` loads `abort` once after a timeout; an abort stored
after that load does not stop the cleanup of a worker that then leaves because of
shutdown or a closed link. Both are behaviours of the model; no property is stated
about them.

## What is proved

`WorkerPoolProofs` uses the assumptions on the constants named in `WorkerPool`
(`NodesAssumption`, `StartupAssumption`, `BoundsAssumption`): finite sets of nodes
and workers, a startup assignment that staffs every managed node, a reserve of one
worker per scalable node.

* `TypeCorrect`: `Spec => []TypeOK`. `TypeOK` is inductive. `WorkType` is the
  part of it that a worker can change, `LeaveType` covers the end of an assignment;
  `WorkerStays`, `TypeSupervisor` and `TypeEnvironment` have a step per action.
* `AssignsWhileHeld`: `Spec => NoAssignmentAfterClose`. The invariant is
  `LinksHeld == held \/ Stopping`: links are closed only after a stop, and
  `FlagsLatch` shows that a stop is for good; the guard of a scale-up reads the
  flags again, so at an assignment the links are held. `OnlyScaleUpAssigns` shows
  that no other step gives a worker a node.
* `RosterIsExact`: `Spec => []RosterExact`, and `NoVerdictTooLate`:
  `Spec => []NoLateVerdict`. Both follow from `RosterInv`. `RosterExact` is not
  inductive: it does not say that a worker told to start will start the node its
  slot names, nor that a thread told to stop is a parked one. `RosterInv` gives
  each worker a `Stage`: waiting for its first step, looping, gone (exactly one exit
  event in the channel, naming its node), lost to a panic, or off the roster; and it
  says that nobody is assigned once the supervisor has left its loop. `WorkerEffect`
  reduces the fifteen actions of a worker to five effects (`Took`, `Moved`, `Left`,
  `Returned`, `Panicked`), `ExitsAppended` and `ExitsTailed` say how a post and a
  receive change the exit events in the channel, `RosterQuiet` covers the steps of
  the supervisor that leave the roster alone, and `RosterDrain`, `RosterScaleUp` and
  `RosterStop` those that do not.

`WorkerStaffProofs` rests on `TypeOK` and `RosterInv` and adds seven theorems about the
same specification. Each step of an argument is first reduced to what it does to the
roster and to the channels of a merge (`WorkerEffect`, `MailEffect`), so that the
lemmas are about a few effects and not about every action.

* `StopsAreExplained`: `Spec => []StopIsExplained`, from `ExplainInv`. An abort leaves
  a trace: a flag of the user, a thread that stores abort first, or a failure that is
  stored or on its way. The supervisor's last drain reads every failure on its way, so
  a result without a failure has one of the other causes.
* `LimitsHold`: `Spec => []WithinLimits`, which is inductive given the roster: a
  scale-up is guarded by counts of active workers, and a fresh worker is spawned only
  for the room between the active workers and the target of the reserve.
  `LimitsScaleUp` has the arithmetic of cardinalities.
* `MergesWaitOnReturns`: `Spec => []MergeWaitsOnlyOnReturn`, from `MergeInv`. The
  property says nothing of requests that wait unread, of the receiver the supervisor
  holds, or of an event that reports the merge, which is why it is not inductive.
  `PendingInv` says that the supervisor holds the receiver exactly while the source is
  on the roster; `RequestsInv` that only the target of the operation in progress can
  have a request, and that its source is then off the roster and its transfer open
  only until it returns; `MergedInv` that a merged event is of the operation in
  progress and comes before its target's last event.
* `NodesStayStaffed` (`Spec => []NodesStaffed`) and `ConsumersStay`
  (`Spec => []ConsumersOutlive`), from `StaffInv`: while nothing fails or panics, an active
  worker is outside its loop only if the supervisor asked it to retire or its node may
  be left (`Serving`); only the source of the one operation in progress is asked
  (`AskedOnce`); and every node has a worker that is not asked, until it may be left
  (`Staffed`). A node may be left once its senders are gone or shutdown reached an input
  node, and `LeaveHolds` shows that this is for good: the supervisor gives
  up its senders only after a stop, nobody is assigned after that, and so no node gets a
  sender back (`SendersGone`).
* `NoStateLost`: `Spec => []StatesAccounted`, from `LedgerInv` and `MergeInv`. A worker
  that returns has given its state away, and a full transfer is the one of the merge in
  progress, still to be taken (`HeldInv`): so no return drops a state and no new operation
  overwrites a transfer. A sum over workers or events is the cardinality of a set of units
  (`Total`), which makes what a step does to it a matter of disjoint unions and
  bijections (`TotalUpdated`, `LoadsAppended`, `LoadsTailed`) and not of induction.
* `PoolStaffs`: `Spec => ImplementsStaffing`, the refinement. The roster alone does not
  give it: a worker whose event is read must have left for a reason `Staffing` knows.
  `AskedLeave` says that until a stop a worker with a retire request is the source of
  the operation in progress, on its node, and that every `Parked` event in the channel
  names that worker: a loop is left before a stop only by the retire check, because the
  links are held and no flag is set (`ParkReason`). `StaffIsBusy` relates the sum of all
  nodes' workers, which `Staffing` bounds by the cap, to the set of active workers the code
  counts, by a bijection; `EventStaffs` and `ScalesStaff` have the steps that move
  somebody, `QuietStaffs` all others.

`PipelineProofs` uses the assumptions on the graph named in `Pipeline`. From its
invariant `PipelineInv` follow `PipelineType` (the types, which no run checks), `DrainsInput`
(`Spec => []InputDrained`) and `EmitsHeard` (`Spec => []EmitsAreRead`). Neither is
inductive. The two that carry the argument are `ProducersGone`, that a reader of an
inner standard link leaves gracefully only after every worker that emits into the link
has returned, which is how a shutdown travels from the input on; and `InputSettled`,
that once a reader of the input link has left gracefully, shutdown is set and nothing
sent before it is on the link. `WorkersOrdered` relates a worker's step to its exit and
to the flags it has read; `OffersFresh` says that an item is offered by one client and
only before it is accepted, so that no offer made after shutdown adds to `early`.

`PipelineDelivers` is the refinement: `Plumbed` gives `Spec => DeliversOnce`. Its
invariant `DeliverInv` adds to `PipelineInv` that links are closed and loops are left
only in a pipeline that was stopped or failed (`StopsFirst`), and that an item is in one
place, once: on one link, in one worker or at the output (`InOnePlace`). A send is an
`Accept`, a receive or an emit into the output a `Deliver`, `Shutdown` and `Abort` a
`Stop`, a failing process a `Lose`, and so is the exit of the last reader of a link with
items on it, which `StopsFirst` allows only after a stop (`LosesWhenStopped`); all other
steps stutter. `Plumbed` says that every link items are put on, the output aside, has
a reader. It is a hypothesis, not an assumption of the module, because a graph built
by hand may leave a link unread, and its items are then lost without any failure.
`AcceptedGraphIsPlumbed` (see `GraphProofs`) shows that `pipeline!` makes no such graph but through an
empty list, and `MCPipeline` has TLC evaluate `Plumbed` for its instances.

`ChannelProofs`: `ChannelType`, `ClosedForGood`, `RefusalExplained` and
`TerminatedForGood`, from `ChannelInv`. The counts are related to the handles by
`SendersCounted` and `ReceiversCounted`: a count is the number of handles that are
alive, so it is 0 only when none is; and a handle that is being cloned has a lender
that is alive. `SawTerminated` carries what a receiver has read over the steps of its
call.

`PipeProofs`: `PipeType` (the types of `Pipe`, which no run checks), `OkIsDone` and the refinement `PipeDelivers`
(`Spec => ProcessesOnce`), from `PipeInv`: a message is on the channel, in one worker or
processed (`InOnePlace`), is nowhere else unless something failed (`AllPlaced`), a
worker that stops without a cancel has seen the channel closed (`Settled`), and join has
the results of the workers before the next (`Joined`). A send is an `Accept`, a process
a `Deliver`, a cancel a `Stop`, a failure or a finalize after a cancel a `Lose`; all
other steps stutter (`WorksDelivers`, `OwnerDelivers`, `SendDelivers`).

`ScalingProofs`: `ScalingType`, the refinement `ScalingStaffs` (`Spec => KeepsStaffed`),
`AdditionsFirst` (`Spec => RemovalsWait`) and `DonationsReach`
(`Spec => DonationsArrive`), for every graph, policy and cap. `ScalingInv` adds to
the types that a node whose worker is asked to go has another one. A set of
candidates that is not empty has a first one in either scan order, so a choice that
comes out empty had no candidate: that is what `AdditionsFirst` needs. `DonationInv`
adds that the cap is kept (`WithinCap`) and that the anchor that gave a worker away
still has its removal pending or has just begun to settle (`DonorRests`).

`PartsProofs`, the leases: `LeasesAreExact` (`LeaseSpec => []LeasesExact`) and `LateDropsQuiet`
(`LeaseSpec => []QuietAfterStop`), from `LeaseAssumption` (finitely many leases). Their
invariant `LeaseInv` has `Placed`, that no buffer has two places and each was made, so a
new one is nowhere yet; `Counted`, that buffers waiting and buffers leased together are
at most `peak`, since one is made only when none waits; and `Guarded`, that a drop is
refused only once nobody holds the closure, the supervisor included, and that the supervisor lets
go only after a stop or through a failed spawn.

`PartsProofs`, the start and the branch: `FailedSpawnsDrain` (`StartSpec => []SpawnFailureDrains`) and
`EmptyArmsServed` (`BranchSpec => []EmptyArmServed`). The first uses
`AcyclicAssumption`, that any set of nodes has one that reads no link the set writes,
which is what `start` makes sure of (`CycleVerdictIsExact`: links that all lead back among
themselves are a `LinkCycle`): among the nodes with a
worker at work, take such a first one; nobody can write its link, unless it is
behind a feeder. The second needs `BranchInv`: an arm that was just passed over has the
next turn, and an arm that is read as empty is never the fuller one (`FullerIsNotEmpty`).

`PartsAreTyped` (`PartsSpec => []PartsTypeOK`, which no run checks) has the types of all
parts at once. Each
`TypeOK` is inductive; what it takes is that the plan of workers, a list flattened by a
fold, is a list of stages (`FlattenedType`, `PlanType`), and `GraphTypeInvariant`, whose
work is that every root has a number among the links (`Numbers`).

`GraphProofs` uses `GraphAssumption` and `MacroAssumption` (the bounds are numbers, the
declared names are a sequence that is not empty, none is a reserved word). Its subject is
recursive: the fold over the children, the visits of the search, the path to a root.
Of each it is first shown that a function solves the recursive equation, so that `CHOOSE`
takes one (`FoldDefined`, `VisitDefined`, `PathsExist`); induction is replaced by a smallest
counterexample (`SmallestExists`, `MinimalExists`), which needs no theorem with an operator
parameter.

* `SearchIsExact`: `Cyclic(S, children) <=> HasCycle(S, children)` for every finite graph:
  the depth-first search that `start` and `pipeline!` both have finds a cycle exactly if
  some nodes each have a child among themselves. `Rank`, the nodes that are not being
  visited, falls with every visit that goes down; `VisitWorks` has what a visit
  leaves behind: either a cycle that exists, or no mark but permanent ones that no cycle goes
  through (`Sound`). It holds for any order of nodes and children.
* `CycleVerdictIsExact`: `DeclareSpec => []CycleVerdictExact`, with nodes turned into
  links. `CyclesAgree` relates the two: a cycle of nodes is one of links and the reverse.
* `LinksAreTheComponents`: `DeclareSpec => []LinksAreComponents`, from `LinkInv`: the
  pointers are a forest (every set closed under them has a root), the ends of an edge have
  one root, and an edge crosses every cut of a link. Path compression keeps every
  root (`FoundKeeps`) and a union redirects one root to the other (`UnionJoins`).
* `AcceptedGraphIsPlumbed`: `DeclareSpec => []AcceptedIsPlumbed`, from `PlumbInv`, which says
  that a graph that was expanded is the one its edges ask for, and the macro accepted its
  edges and its return state (`Expanded`). The macro refuses a node without an edge into it or out of it,
  and the two ends of an edge are one link: so every link has a writer and a reader
  (`ExpandedJoins`). A node that wrote the input or read the output would
  close a cycle among all of them, which `start` refuses (`ExpandedEnds`, from
  `SearchIsExact`).
* `ReturnStatesAgreeAlways`: `DeclareSpec => []ReturnStatesAgree`, from `PlumbInv` too. The macro
  looks at the edges into `output`, `start` at the nodes on the output link, which could be
  more: but a node on that link without such an edge is followed by one that reads the
  link, and nobody does (`OneReturner`). So `start` refuses no return state that the macro let
  through, except for a merge the macro read into an expression (`LooksMerging`) of a node
  that has none. The property takes names to differ: of two nodes with one name the macro
  sees one.

Only model-checked are the liveness properties (`JoinReturns`, `AbortEnds`, `ScaleSettles`, `Delivers`,
`Terminates`, `ThreadsEnd`, `NeedIsServed`): fairness and `ENABLED` are outside the prover's
reach. TLC checks them on the instances above.

## Plan

1. `WorkerPool`, its runs, the theorems about its safety properties and its refinement of
   `Staffing` (done).
2. `Pipeline`, `Delivery` and their safety theorems (done).
3. `Channel`, `Pipe` and their safety theorems (done).
4. `Scaling`, `Staffing` and their theorems (done).
5. `Startup`, `Lease`, `WeightedBranch`, `Graph`, `PipelineMacro` and their theorems (done).

What could follow is `Scaling` and `WorkerPool` in one model, so that the choices of
`choose_scale_operation` are also those of a pool that is stopping, and the loops of
external nodes in `Pipeline`.

## Not modelled

* Which of several failures `join` reports: the model keeps only that there was one, and
  nothing in the repository promises the first.
* The formats of telemetry and of the CSV log, the HTML viewer and the final stop of the
  recorder thread: output, with no effect on the pipeline but the reports of failures,
  which `WorkerPool` has.
* Parsing in `pipeline!` and the types it generates; the settings of nodes and links that no
  check reads.
* The user's loop behind an external handle, and the internals of the feeder crate
  behind a feeder link.
* Scaling of several nodes while the pool stops: `pool_scaling` and `pool_failures` have one
  node, since two that scale are too large for TLC. Every safety property of these runs
  is proved for any number of nodes, and `Scaling` has three nodes
  before a stop; what is left to one node is liveness.
* The demonstration program beyond its use of `Pipe`: timing and sums.
* Durations (a timeout may always happen) and the memory orderings of atomics: the models
  take all accesses in one total order. For the flags that is close, since each is written
  with release and read with acquire. The counts of `EndpointCounts`
  (`channel/mod.rs:53-90`) and the lengths a branch reads are relaxed throughout: an old
  count that is read next to a newer queue, or two counts seen out of order, is not a
  behaviour of `Channel` or of the models that use a link as its properties allow.
