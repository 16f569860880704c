-------------------------------- MODULE Pipe --------------------------------
(***************************************************************************)
(* The fixed-width primitive Pipe: worker threads that take messages from  *)
(* one channel until it closes, the caller's cancel flag is set or a user  *)
(* function fails; and join, which waits for them in order and stops at    *)
(* the first error.                                                        *)
(***************************************************************************)
EXTENDS Integers, Sequences, FiniteSets

CONSTANTS
    Message,
    Client,         \* user threads with a clone of the sender
    NumWorkers,     \* PipeConfig::num_workers
    MayFail         \* user functions may fail or panic, spawn may fail

Worker == 1..NumWorkers
None == "none"

ASSUME PipeAssumption ==
    NumWorkers \in Nat \ {0} /\ MayFail \in BOOLEAN /\ None \notin Message

VARIABLES
    queue,      \* the channel
    pc, msg,    \* a worker's step, and the message it processes
    cancel,
    client,     \* clients that hold a sender
    owner,      \* the Pipe: "new", "open", "joining", then what join returned
    next,       \* the worker new spawns, or join waits for, next
    processed,  \* the messages processed, in order
    sent,       \* the messages the channel accepted
    refused     \* the others

users == <<client, sent, refused>>
workers == <<pc, msg, processed>>
vars == <<queue, workers, cancel, owner, next, users>>

\* Threads that own the receiver: they drop it when they end.
Receiving == {w \in Worker : pc[w] \in {"init", "head", "recv", "process", "finalize"}}
Bad == {"failed", "panicked"}
Ended == Bad \cup {"ok"}
\* new keeps a receiver until every worker is spawned.
Open == Receiving # {} \/ owner = "new"
SendersGone == client = {} /\ owner \notin {"new", "open"}

Init ==
    /\ queue = <<>>
    /\ pc = [w \in Worker |-> "unborn"] /\ msg = [w \in Worker |-> None]
    /\ cancel = FALSE /\ client = {} /\ owner = "new" /\ next = 1
    /\ processed = <<>> /\ sent = {} /\ refused = {}

-----------------------------------------------------------------------------
(* Pipe::new                                                               *)

Spawn ==
    /\ owner = "new" /\ next \in Worker
    /\ pc' = [pc EXCEPT ![next] = "init"] /\ next' = next + 1
    /\ UNCHANGED <<queue, msg, processed, cancel, owner, users>>

\* new returns early and drops its sender; the threads it has started go on.
FailSpawn ==
    /\ owner = "new" /\ next \in Worker /\ MayFail
    /\ owner' = "not started"
    /\ UNCHANGED <<queue, workers, cancel, next, users>>

\* The caller clones the sender for its threads.
Started ==
    /\ owner = "new" /\ next = NumWorkers + 1
    /\ owner' = "open" /\ next' = 1 /\ client' = Client
    /\ UNCHANGED <<queue, workers, cancel, sent, refused>>

-----------------------------------------------------------------------------
(* Clients.                                                                *)

Send(c, m) ==
    /\ c \in client /\ m \notin sent \cup refused
    /\ IF Open
       THEN queue' = Append(queue, m) /\ sent' = sent \cup {m} /\ UNCHANGED refused
       ELSE refused' = refused \cup {m} /\ UNCHANGED <<queue, sent>>
    /\ UNCHANGED <<workers, cancel, owner, next, client>>

DropSender(c) ==
    /\ c \in client /\ client' = client \ {c}
    /\ UNCHANGED <<queue, workers, cancel, owner, next, sent, refused>>

Cancel ==
    /\ ~cancel /\ cancel' = TRUE
    /\ UNCHANGED <<queue, workers, owner, next, users>>

-----------------------------------------------------------------------------
(* Workers.                                                                *)

Frame == UNCHANGED <<cancel, owner, next, users>>
Goto(w, step) == pc' = [pc EXCEPT ![w] = step]
Quiet == UNCHANGED <<queue, msg, processed>>

InitStorage(w) == pc[w] = "init" /\ Goto(w, "head") /\ Frame /\ Quiet

\* Seeded fault: the flag is not looked at.
IgnoreCancel(w) == pc[w] = "head" /\ Goto(w, "recv") /\ Frame /\ Quiet

CheckCancel(w) ==
    /\ pc[w] = "head"
    /\ Goto(w, IF cancel THEN "finalize" ELSE "recv")
    /\ Frame /\ Quiet

\* Seeded fault: the message stays in the channel.
ReceiveCopies(w) ==
    /\ pc[w] = "recv" /\ queue # <<>>
    /\ msg' = [msg EXCEPT ![w] = Head(queue)]
    /\ Goto(w, "process")
    /\ Frame /\ UNCHANGED <<queue, processed>>

Receive(w) ==
    /\ pc[w] = "recv" /\ queue # <<>>
    /\ msg' = [msg EXCEPT ![w] = Head(queue)] /\ queue' = Tail(queue)
    /\ Goto(w, "process")
    /\ Frame /\ UNCHANGED processed

\* Seeded fault: the wait has no timeout.
WaitForever(w) ==
    /\ pc[w] = "recv" /\ queue = <<>> /\ ~SendersGone
    /\ UNCHANGED vars
Timeout(w) ==
    /\ pc[w] = "recv" /\ queue = <<>> /\ ~SendersGone
    /\ Goto(w, "head")
    /\ Frame /\ Quiet

Closed(w) ==
    /\ pc[w] = "recv" /\ queue = <<>> /\ SendersGone
    /\ Goto(w, "finalize")
    /\ Frame /\ Quiet

Process(w) ==
    /\ pc[w] = "process"
    /\ processed' = Append(processed, msg[w])
    /\ msg' = [msg EXCEPT ![w] = None]
    /\ Goto(w, "head")
    /\ Frame /\ UNCHANGED queue

Finalize(w) == pc[w] = "finalize" /\ Goto(w, "ok") /\ Frame /\ Quiet

\* init, process or finalize fails, or panics.
UserFails(w) ==
    /\ MayFail /\ pc[w] \in {"init", "process", "finalize"}
    /\ \E how \in Bad : Goto(w, how)
    /\ msg' = [msg EXCEPT ![w] = None]
    /\ Frame /\ UNCHANGED <<queue, processed>>

Works(w) ==
    \/ InitStorage(w) \/ CheckCancel(w) \/ Receive(w) \/ Timeout(w) \/ Closed(w)
    \/ Process(w) \/ Finalize(w) \/ UserFails(w)

-----------------------------------------------------------------------------
(* Pipe::join                                                              *)

Join ==
    /\ owner = "open" /\ owner' = "joining"
    /\ UNCHANGED <<queue, workers, cancel, next, users>>

\* Seeded fault: an error does not end the join.
JoinAny ==
    /\ owner = "joining" /\ next \in Worker /\ pc[next] \in Ended
    /\ next' = next + 1
    /\ UNCHANGED <<queue, workers, cancel, owner, users>>

JoinWorker ==
    /\ owner = "joining" /\ next \in Worker /\ pc[next] \in Ended
    /\ IF pc[next] \in Bad
       THEN owner' = pc[next] /\ UNCHANGED next
       ELSE next' = next + 1 /\ UNCHANGED owner
    /\ UNCHANGED <<queue, workers, cancel, users>>

JoinDone ==
    /\ owner = "joining" /\ next = NumWorkers + 1
    /\ owner' = "ok"
    /\ UNCHANGED <<queue, workers, cancel, next, users>>

Joins == JoinWorker \/ JoinDone

-----------------------------------------------------------------------------
Next ==
    \/ Spawn \/ FailSpawn \/ Started \/ Join \/ Joins \/ Cancel
    \/ \E c \in Client : DropSender(c) \/ \E m \in Message : Send(c, m)
    \/ \E w \in Worker : Works(w)

Spec == Init /\ [][Next]_vars

\* Threads run, and a join that was begun goes on.
FairSpec == Spec /\ WF_vars(Joins) /\ \A w \in Worker : WF_vars(Works(w))

-----------------------------------------------------------------------------
(* Properties.                                                             *)

Steps == {"unborn", "init", "head", "recv", "process", "finalize"} \cup Ended

\* Every variable has its type.
TypeOK ==
    /\ queue \in Seq(Message) /\ processed \in Seq(Message)
    /\ pc \in [Worker -> Steps]
    /\ msg \in [Worker -> Message \cup {None}]
    /\ cancel \in BOOLEAN
    /\ client \subseteq Client /\ sent \subseteq Message /\ refused \subseteq Message
    /\ owner \in {"new", "not started", "open", "joining"} \cup Ended
    /\ next \in 1..NumWorkers + 1

Waiting == {queue[i] : i \in 1..Len(queue)}
Finished == {processed[i] : i \in 1..Len(processed)}
Failed == \E w \in Worker : pc[w] \in Bad
Stopped == cancel \/ Failed
InHand == {msg[w] : w \in Worker}

\* Accepted, not processed, and nobody will: a channel without receivers is over.
Lost == sent \ (Finished \cup InHand \cup (IF Open THEN Waiting ELSE {}))

\* A join that succeeds means that every worker succeeded, however late one
\* failed, and, with no cancel, that every message any client sent was processed:
\* nobody can send any more, and nothing is left.
OkMeansDone ==
    owner = "ok" =>
      /\ \A w \in Worker : pc[w] = "ok"
      /\ ~cancel => client = {} /\ sent = Finished

\* A Pipe is a Delivery from its clients to the workers' process functions:
\* every accepted message is processed at most once, and none is lost before a
\* cancel or a failure, with any number of workers racing for the channel.
Promise == INSTANCE Delivery WITH
    Item <- Message, delivered <- processed, lost <- Lost, stopped <- Stopped
ProcessesOnce == Promise!Spec

\* Once the caller joins, and cancels or drops every sender, join returns.
JoinReturns == owner = "joining" /\ (cancel \/ client = {}) ~> owner \in Ended

\* Every thread ends once the senders are gone or cancel is set, those of a Pipe
\* that could not be started or was left by an early error of join included.
ThreadsEnd ==
    \A w \in Worker :
        pc[w] # "unborn" /\ (cancel \/ SendersGone) ~> pc[w] \in Ended
=============================================================================
