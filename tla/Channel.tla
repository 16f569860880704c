------------------------------ MODULE Channel ------------------------------
(***************************************************************************)
(* channel/mod.rs: Sender and Receiver around the endpoints of a back end, *)
(* with a count of each.  The wrapper counts a handle after the back end   *)
(* cloned it and uncounts it before the back end drops it, so that counts  *)
(* and back end disagree for a while; every load of either is a step.      *)
(*                                                                         *)
(* The back end is a library: an unbounded queue that refuses to send once *)
(* its receivers are gone, and is disconnected once it is empty and its    *)
(* senders are gone.  Items are counted, their order is the back end's.    *)
(***************************************************************************)
EXTENDS Integers, FiniteSets

CONSTANTS
    Tx, Rx,         \* the handles that may ever exist
    FirstTx, FirstRx,
    Backend,        \* the back ends it may be built with
    MaxSends        \* bound: items sent

Idle == "idle"
None == "none"

ASSUME HandlesAssumption ==
    /\ IsFiniteSet(Tx) /\ IsFiniteSet(Rx) /\ Tx \cap Rx = {}
    /\ FirstTx \in Tx /\ FirstRx \in Rx
    /\ None \notin Tx /\ None \notin Rx
    /\ Backend \subseteq {"kanal", "crossbeam"} /\ MaxSends \in Nat

VARIABLES
    backend,                \* chosen by a feature of the build
    senders, receivers,     \* EndpointCounts
    queued,                 \* items in the back end
    sends,                  \* items sent so far
    tx, rx,                 \* the life of every handle
    lender,                 \* the handle a new one is being cloned from
    step,                   \* where a receiver is in a call
    told,                   \* what its last call returned
    refused                 \* senders whose last send failed

counts == <<senders, receivers>>
handles == <<tx, rx, lender>>
calls == <<step, told, refused>>
vars == <<backend, counts, queued, sends, handles, calls>>

Counted(life) == {h \in DOMAIN life : life[h] = "alive"}
\* The back end has the handle while it is cloned, used and dropped.
InBackend(life) == {h \in DOMAIN life : life[h] \in {"cloning", "alive", "dropping"}}
Lent(h) == \E c \in DOMAIN lender : lender[c] = h

Init ==
    /\ backend \in Backend
    /\ senders = 1 /\ receivers = 1 /\ queued = 0 /\ sends = 0
    /\ tx = [s \in Tx |-> IF s = FirstTx THEN "alive" ELSE "unused"]
    /\ rx = [r \in Rx |-> IF r = FirstRx THEN "alive" ELSE "unused"]
    /\ lender = [h \in Tx \cup Rx |-> None]
    /\ step = [r \in Rx |-> Idle] /\ told = [r \in Rx |-> None]
    /\ refused = {}

-----------------------------------------------------------------------------
(* Handles: clone copies the inner handle and then counts it, drop uncounts *)
(* it and then drops the inner handle.  A clone borrows what it copies.     *)

CloneSender(s, c) ==
    /\ tx[s] = "alive" /\ tx[c] = "unused"
    /\ tx' = [tx EXCEPT ![c] = "cloning"]
    /\ lender' = [lender EXCEPT ![c] = s]
    /\ UNCHANGED <<backend, counts, queued, sends, rx, calls>>

\* Seeded fault: the clone shares the counts and adds nothing to them.
ShareCounts(c) ==
    /\ tx[c] = "cloning"
    /\ tx' = [tx EXCEPT ![c] = "alive"]
    /\ lender' = [lender EXCEPT ![c] = None]
    /\ UNCHANGED <<backend, counts, queued, sends, rx, calls>>

CountSender(c) ==
    /\ tx[c] = "cloning"
    /\ senders' = senders + 1
    /\ tx' = [tx EXCEPT ![c] = "alive"]
    /\ lender' = [lender EXCEPT ![c] = None]
    /\ UNCHANGED <<backend, receivers, queued, sends, rx, calls>>

DropSender(s) ==
    /\ tx[s] = "alive" /\ ~Lent(s)
    /\ senders' = senders - 1
    /\ tx' = [tx EXCEPT ![s] = "dropping"]
    /\ refused' = refused \ {s}
    /\ UNCHANGED <<backend, receivers, queued, sends, rx, lender, step, told>>

SenderGone(s) ==
    /\ tx[s] = "dropping" /\ tx' = [tx EXCEPT ![s] = "gone"]
    /\ UNCHANGED <<backend, counts, queued, sends, rx, lender, calls>>

CloneReceiver(r, c) ==
    /\ rx[r] = "alive" /\ rx[c] = "unused"
    /\ rx' = [rx EXCEPT ![c] = "cloning"]
    /\ lender' = [lender EXCEPT ![c] = r]
    /\ UNCHANGED <<backend, counts, queued, sends, tx, calls>>

CountReceiver(c) ==
    /\ rx[c] = "cloning"
    /\ receivers' = receivers + 1
    /\ rx' = [rx EXCEPT ![c] = "alive"]
    /\ lender' = [lender EXCEPT ![c] = None]
    /\ UNCHANGED <<backend, senders, queued, sends, tx, calls>>

\* Seeded fault: Receiver has no Drop.
DropReceiverUncounted(r) ==
    /\ rx[r] = "alive" /\ step[r] = Idle /\ ~Lent(r)
    /\ rx' = [rx EXCEPT ![r] = "dropping"]
    /\ UNCHANGED <<backend, counts, queued, sends, tx, lender, calls>>

DropReceiver(r) ==
    /\ rx[r] = "alive" /\ step[r] = Idle /\ ~Lent(r)
    /\ receivers' = receivers - 1
    /\ rx' = [rx EXCEPT ![r] = "dropping"]
    /\ UNCHANGED <<backend, senders, queued, sends, tx, lender, calls>>

ReceiverGone(r) ==
    /\ rx[r] = "dropping" /\ rx' = [rx EXCEPT ![r] = "gone"]
    /\ UNCHANGED <<backend, counts, queued, sends, tx, lender, calls>>

-----------------------------------------------------------------------------
(* Sending.                                                                *)

Send(s) ==
    /\ tx[s] = "alive" /\ sends < MaxSends
    /\ sends' = sends + 1
    /\ IF InBackend(rx) = {}
       THEN refused' = refused \cup {s} /\ UNCHANGED queued
       ELSE refused' = refused \ {s} /\ queued' = queued + 1
    /\ UNCHANGED <<backend, counts, handles, step, told>>

-----------------------------------------------------------------------------
(* Receiving.  With kanal recv_timeout looks at the count and the queue,   *)
(* polls the back end, and after a timeout looks at both again; try_recv   *)
(* leaves out the first look.  With crossbeam both only poll.  is_closed   *)
(* looks at the count and then at the queue.                               *)

Goto(r, at) == step' = [step EXCEPT ![r] = at]
Tell(r, answer) == Goto(r, Idle) /\ told' = [told EXCEPT ![r] = answer]
Calling(r, at) == rx[r] = "alive" /\ step[r] = at
CallFrame == UNCHANGED <<backend, counts, sends, handles, refused>>

RecvTimeout(r) ==
    /\ Calling(r, Idle)
    /\ Goto(r, IF backend = "kanal" THEN "count" ELSE "poll")
    /\ CallFrame /\ UNCHANGED <<queued, told>>

TryRecv(r) ==
    /\ Calling(r, Idle) /\ Goto(r, "poll")
    /\ CallFrame /\ UNCHANGED <<queued, told>>

IsClosed(r) ==
    /\ Calling(r, Idle) /\ Goto(r, "count again")
    /\ CallFrame /\ UNCHANGED <<queued, told>>

\* is_terminated also asks kanal, which has lost its senders only after they
\* were uncounted: the count decides.
IsTerminated(r) ==
    /\ Calling(r, "count")
    /\ Goto(r, IF senders = 0 THEN "empty" ELSE "poll")
    /\ CallFrame /\ UNCHANGED <<queued, told>>

IsEmpty(r) ==
    /\ Calling(r, "empty")
    /\ IF queued = 0 THEN Tell(r, "closed") ELSE Goto(r, "poll") /\ UNCHANGED told
    /\ CallFrame /\ UNCHANGED queued

PollItem(r) ==
    /\ Calling(r, "poll") /\ queued > 0
    /\ queued' = queued - 1 /\ Tell(r, "item")
    /\ CallFrame

PollDisconnected(r) ==
    /\ Calling(r, "poll") /\ queued = 0 /\ InBackend(tx) = {}
    /\ Tell(r, "closed")
    /\ CallFrame /\ UNCHANGED queued

PollTimeout(r) ==
    /\ Calling(r, "poll") /\ queued = 0 /\ InBackend(tx) # {}
    /\ IF backend = "kanal" THEN Goto(r, "count again") /\ UNCHANGED told ELSE Tell(r, "open")
    /\ CallFrame /\ UNCHANGED queued

IsTerminatedAgain(r) ==
    /\ Calling(r, "count again")
    /\ IF senders = 0 THEN Goto(r, "empty again") /\ UNCHANGED told ELSE Tell(r, "open")
    /\ CallFrame /\ UNCHANGED queued

\* Seeded fault: the count alone decides.
ForgetsQueue(r) ==
    /\ Calling(r, "empty again") /\ Tell(r, "closed")
    /\ CallFrame /\ UNCHANGED queued

IsEmptyAgain(r) ==
    /\ Calling(r, "empty again")
    /\ Tell(r, IF queued = 0 THEN "closed" ELSE "open")
    /\ CallFrame /\ UNCHANGED queued

-----------------------------------------------------------------------------
Senders ==
    \/ \E s \in Tx : DropSender(s) \/ SenderGone(s) \/ CountSender(s) \/ Send(s)
    \/ \E s, c \in Tx : CloneSender(s, c)

Calls(r) ==
    \/ RecvTimeout(r) \/ TryRecv(r) \/ IsClosed(r) \/ IsTerminated(r) \/ IsEmpty(r)
    \/ PollItem(r) \/ PollDisconnected(r) \/ PollTimeout(r)
    \/ IsTerminatedAgain(r) \/ IsEmptyAgain(r)

Receivers ==
    \/ \E r \in Rx : DropReceiver(r) \/ ReceiverGone(r) \/ CountReceiver(r) \/ Calls(r)
    \/ \E r, c \in Rx : CloneReceiver(r, c)

Next == Senders \/ Receivers

Spec == Init /\ [][Next]_vars

-----------------------------------------------------------------------------
(* Properties.                                                             *)

Life == {"unused", "cloning", "alive", "dropping", "gone"}
Steps == {Idle, "count", "empty", "poll", "count again", "empty again"}

\* Every variable has its type; in particular no count wraps below 0.
TypeOK ==
    /\ backend \in Backend
    /\ senders \in Nat /\ receivers \in Nat /\ queued \in Nat /\ sends \in 0..MaxSends
    /\ tx \in [Tx -> Life] /\ rx \in [Rx -> Life]
    /\ lender \in [Tx \cup Rx -> Tx \cup Rx \cup {None}]
    /\ step \in [Rx -> Steps]
    /\ told \in [Rx -> {None, "item", "open", "closed"}]
    /\ refused \subseteq Tx

\* A receiver that is told the channel is closed will never miss an item: the
\* queue is empty and there is no sender left, not even one being cloned.
ClosedIsFinal ==
    \A r \in Rx : told[r] = "closed" =>
        queued = 0 /\ \A s \in Tx : tx[s] \notin {"alive", "cloning"}

\* A sender whose send failed sees it: is_closed, which reads the count, is true,
\* although count and back end change one after the other.
RefusalIsSeen == refused # {} => receivers = 0

\* is_terminated is for good: once the count of senders is 0 it stays 0 and the
\* queue only shrinks, so that its readers need not look twice.
TerminatedIsFinal == [][senders = 0 => senders' = 0 /\ queued' <= queued]_vars
=============================================================================
