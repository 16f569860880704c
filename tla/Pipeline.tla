------------------------------ MODULE Pipeline ------------------------------
(***************************************************************************)
(* The items of a running pipeline: user threads that send into the input  *)
(* link, the links, the workers that take items from one link and emit     *)
(* them into the next, and how all of them stop.  The workers of a node    *)
(* are fixed here: WorkerPool scales them, and a worker retires only       *)
(* between two items.                                                      *)
(*                                                                         *)
(* An item keeps its identity through the nodes: a node emits the item it  *)
(* was given, once.  Every access of a worker to a link or a flag is a     *)
(* step of its own.                                                        *)
(***************************************************************************)
EXTENDS Integers, Sequences, FiniteSets

CONSTANTS
    Item,       \* items the users send
    Client,     \* user threads, each with a clone of the PiperSender
    Node, Link,
    Worker,     \* worker threads
    Serves,     \* Serves[w]: the node of a worker
    In,         \* In[n]: the link a node reads
    Out,        \* Out[n]: the links it may emit into (two for a branch)
    Branch,     \* weighted branches
    Feeder,     \* links backed by a feeder
    InputLink, OutputLink,
    MayFail     \* process functions may return an error

None == "none"

ASSUME GraphAssumption ==
    /\ Serves \in [Worker -> Node]
    /\ In \in [Node -> Link \ {OutputLink}]
    /\ Out \in [Node -> SUBSET (Link \ {InputLink})]
    /\ \A n \in Node : Out[n] # {} /\ \E w \in Worker : Serves[w] = n
    /\ Branch \subseteq Node /\ Feeder \subseteq Link \ {InputLink}
    /\ InputLink \in Link /\ OutputLink \in Link
    /\ None \notin Item
    /\ MayFail \in BOOLEAN

VARIABLES
    queue,      \* the items on each link
    pc, item,   \* a worker's step, and the item it processes
    left,       \* how a worker left its loop
    heard,      \* workers whose last event the supervisor has read
    held,       \* supervisor_holds_links
    done,       \* the supervisor has joined its workers
    shutdown, abort,
    offer,      \* the item a client is sending
    refused,    \* items send() refused
    sent,       \* items send() accepted
    early,      \* history: those accepted before shutdown() was called
    received    \* the items the user took from the output, in order

userVars == <<offer, refused, sent, early, received>>
supVars == <<heard, held, done>>
flags == <<shutdown, abort>>
workVars == <<queue, pc, item, left>>
vars == <<userVars, supVars, flags, workVars>>

Source(w) == In[Serves[w]]
Readers(l) == {w \in Worker : Source(w) = l}
Producers(l) == {w \in Worker : l \in Out[Serves[w]]}
InLoop(w) == left[w] = None
Failed == \E w \in heard : left[w] = "failed"
Stopping == shutdown \/ abort \/ Failed

\* Seeded fault: one producer of a joined link being gone is enough.
TerminatedByOne(l) ==
    ~held /\ l # InputLink /\ \E w \in Producers(l) : pc[w] = "gone"

\* The clients and the pipeline object hold senders of the input link; the
\* supervisor closes its own copies on a stop.
Terminated(l) ==
    ~held /\ l # InputLink /\ \A w \in Producers(l) : pc[w] = "gone"

-----------------------------------------------------------------------------
Init ==
    /\ queue = [l \in Link |-> <<>>]
    /\ pc = [w \in Worker |-> "head"] /\ item = [w \in Worker |-> None]
    /\ left = [w \in Worker |-> None]
    /\ heard = {} /\ held = TRUE /\ done = FALSE
    /\ shutdown = FALSE /\ abort = FALSE
    /\ offer = [c \in Client |-> None]
    /\ refused = {} /\ sent = {} /\ early = {} /\ received = <<>>

-----------------------------------------------------------------------------
(* Users.                                                                  *)

Untouched == Item \ (sent \cup refused \cup {offer[c] : c \in Client})

\* PiperSender::send looks at shutdown ...
Offer(c, m) ==
    /\ offer[c] = None /\ m \in Untouched
    /\ IF shutdown
       THEN refused' = refused \cup {m} /\ UNCHANGED offer
       ELSE offer' = [offer EXCEPT ![c] = m] /\ UNCHANGED refused
    /\ UNCHANGED <<sent, early, received, supVars, flags, workVars>>

\* ... and then sends: the supervisor's copies of the links keep a receiver,
\* so that the channel accepts the item until join has returned.
Send(c) ==
    /\ offer[c] # None
    /\ queue' = [queue EXCEPT ![InputLink] = Append(@, offer[c])]
    /\ sent' = sent \cup {offer[c]}
    /\ early' = IF shutdown THEN early ELSE early \cup {offer[c]}
    /\ offer' = [offer EXCEPT ![c] = None]
    /\ UNCHANGED <<refused, received, supVars, flags, pc, item, left>>

\* PiperReceiver::recv
Receive ==
    /\ queue[OutputLink] # <<>>
    /\ received' = Append(received, Head(queue[OutputLink]))
    /\ queue' = [queue EXCEPT ![OutputLink] = Tail(@)]
    /\ UNCHANGED <<offer, refused, sent, early, supVars, flags, pc, item, left>>

Shutdown ==
    /\ ~shutdown /\ shutdown' = TRUE
    /\ UNCHANGED <<userVars, supVars, abort, workVars>>

Abort ==
    /\ ~abort /\ abort' = TRUE
    /\ UNCHANGED <<userVars, supVars, shutdown, workVars>>

-----------------------------------------------------------------------------
(* Workers.                                                                *)

WorkerFrame == UNCHANGED <<userVars, supVars, flags>>
Goto(w, step) == pc' = [pc EXCEPT ![w] = step]
\* The worker sends its last event.
Leave(w, how) == Goto(w, "leaving") /\ left' = [left EXCEPT ![w] = how]

\* The top of the loop: only abort is looked at.
CheckAbort(w) ==
    /\ pc[w] = "head"
    /\ IF abort THEN Leave(w, "aborted") ELSE Goto(w, "poll") /\ UNCHANGED left
    /\ WorkerFrame /\ UNCHANGED <<queue, item>>

Take(w) ==
    /\ pc[w] = "poll" /\ queue[Source(w)] # <<>>
    /\ item' = [item EXCEPT ![w] = Head(queue[Source(w)])]
    /\ queue' = [queue EXCEPT ![Source(w)] = Tail(@)]
    /\ Goto(w, "process")
    /\ WorkerFrame /\ UNCHANGED left

\* The node emits into its output link, the branch into one of its two.
Emit(w) ==
    /\ pc[w] = "process"
    /\ \E l \in Out[Serves[w]] :
          queue' = [queue EXCEPT ![l] = Append(@, item[w])]
    /\ item' = [item EXCEPT ![w] = None]
    /\ Goto(w, "head")
    /\ WorkerFrame /\ UNCHANGED left

\* The process function fails: the item is dropped.
FailProcess(w) ==
    /\ pc[w] = "process" /\ MayFail /\ Serves[w] \notin Branch
    /\ item' = [item EXCEPT ![w] = None]
    /\ Leave(w, "failed")
    /\ WorkerFrame /\ UNCHANGED queue

\* recv_poll finds nothing and every sender gone.
PollDisconnected(w) ==
    /\ pc[w] = "poll" /\ queue[Source(w)] = <<>> /\ Terminated(Source(w))
    /\ Leave(w, IF abort /\ Serves[w] \notin Branch THEN "aborted" ELSE "graceful")
    /\ WorkerFrame /\ UNCHANGED <<queue, item>>

\* Seeded fault: the poll has no timeout.
PollBlocks(w) ==
    /\ pc[w] = "poll" /\ queue[Source(w)] = <<>> /\ ~Terminated(Source(w))
    /\ UNCHANGED vars

PollTimeout(w) ==
    /\ pc[w] = "poll" /\ queue[Source(w)] = <<>> /\ ~Terminated(Source(w))
    /\ Goto(w, IF Serves[w] \in Branch THEN "terminated" ELSE "abort")
    /\ WorkerFrame /\ UNCHANGED <<queue, item, left>>

CheckAbortAgain(w) ==
    /\ pc[w] = "abort"
    /\ IF abort THEN Leave(w, "aborted") ELSE Goto(w, "terminated") /\ UNCHANGED left
    /\ WorkerFrame /\ UNCHANGED <<queue, item>>

\* is_terminated looks at the senders of the link, not at its queue; that of a
\* feeder link is set by a poll that found it over.
CheckTerminated(w) ==
    /\ pc[w] = "terminated"
    /\ IF Source(w) \notin Feeder /\ Terminated(Source(w))
       THEN Leave(w, "graceful")
       ELSE Goto(w, "shutdown") /\ UNCHANGED left
    /\ WorkerFrame /\ UNCHANGED <<queue, item>>

\* Seeded fault: the flag is not looked at.
CheckShutdownNever(w) ==
    /\ pc[w] = "shutdown" /\ Goto(w, "empty")
    /\ WorkerFrame /\ UNCHANGED <<queue, item, left>>

CheckShutdown(w) ==
    /\ pc[w] = "shutdown"
    /\ Goto(w, IF shutdown THEN "empty" ELSE "head")
    /\ WorkerFrame /\ UNCHANGED <<queue, item, left>>

\* Seeded fault: an input worker does not look at its queue again.
MayStopAtOnce(l) == l \in Feeder \/ l = InputLink

\* should_stop_on_shutdown_timeout
MayStop(l) == l \in Feeder \/ (l = InputLink /\ queue[l] = <<>>)
CheckEmpty(w) ==
    /\ pc[w] = "empty"
    /\ IF MayStop(Source(w))
       THEN Leave(w, "graceful")
       ELSE Goto(w, "head") /\ UNCHANGED left
    /\ WorkerFrame /\ UNCHANGED <<queue, item>>

\* The assignment returns and drops its link endpoints.
Return(w) ==
    /\ pc[w] = "leaving" /\ Goto(w, "gone")
    /\ WorkerFrame /\ UNCHANGED <<queue, item, left>>

Works(w) ==
    \/ CheckAbort(w) \/ Take(w) \/ Emit(w) \/ FailProcess(w)
    \/ PollDisconnected(w) \/ PollTimeout(w) \/ CheckAbortAgain(w)
    \/ CheckTerminated(w) \/ CheckShutdown(w) \/ CheckEmpty(w) \/ Return(w)

-----------------------------------------------------------------------------
(* The supervisor, as far as items are concerned; WorkerPool has its loop. *)

Hear(w) ==
    /\ ~InLoop(w) /\ w \notin heard
    /\ heard' = heard \cup {w}
    /\ abort' = (abort \/ left[w] = "failed")
    /\ UNCHANGED <<userVars, held, done, shutdown, workVars>>

CloseLinks ==
    /\ held /\ Stopping
    /\ held' = FALSE
    /\ UNCHANGED <<userVars, heard, done, flags, workVars>>

Finish ==
    /\ ~done /\ Stopping /\ ~held
    /\ heard = Worker /\ \A w \in Worker : pc[w] = "gone"
    /\ done' = TRUE
    /\ UNCHANGED <<userVars, heard, held, flags, workVars>>

Supervisor == CloseLinks \/ Finish \/ \E w \in Worker : Hear(w)

Users ==
    \/ \E c \in Client : Send(c) \/ \E m \in Item : Offer(c, m)
    \/ Receive \/ Shutdown \/ Abort

Over == done /\ UNCHANGED vars

Next == Supervisor \/ Users \/ Over \/ \E w \in Worker : Works(w)

Spec == Init /\ [][Next]_vars

\* The threads of the pipeline run; a client that has looked at shutdown sends.
\* A poll that finds an item takes it, so that no worker needs to be lucky.
FairSpec ==
    /\ Spec /\ WF_vars(Supervisor)
    /\ \A w \in Worker : WF_vars(Works(w))
    /\ \A c \in Client : WF_vars(Send(c))

-----------------------------------------------------------------------------
(* Properties.                                                             *)

Step == {"head", "poll", "process", "abort", "terminated", "shutdown", "empty",
         "leaving", "gone"}

\* Every variable has its type: only items are on links and in workers.
TypeOK ==
    /\ queue \in [Link -> Seq(Item)]
    /\ pc \in [Worker -> Step]
    /\ item \in [Worker -> Item \cup {None}]
    /\ left \in [Worker -> {None, "graceful", "aborted", "failed"}]
    /\ heard \subseteq Worker
    /\ held \in BOOLEAN /\ done \in BOOLEAN
    /\ shutdown \in BOOLEAN /\ abort \in BOOLEAN
    /\ offer \in [Client -> Item \cup {None}]
    /\ refused \subseteq Item /\ sent \subseteq Item /\ early \subseteq Item
    /\ received \in Seq(Item)

\* Graceful: nobody called abort() and no user function failed.
Graceful == ~abort /\ \A w \in Worker : left[w] # "failed"
On(l) == {queue[l][i] : i \in 1..Len(queue[l])}

\* Graceful shutdown drains the input link: a worker that reads the pipeline's
\* input leaves only when it saw shutdown and then an empty link, so once one of
\* them has left every item sent before shutdown() has been taken.
InputDrained ==
    Graceful /\ (\E w \in Readers(InputLink) : ~InLoop(w))
    => early \cap On(InputLink) = {}

\* Graceful shutdown stops the graph from the input on: while a worker
\* processes an item, every standard link it may emit into has a reader that is
\* still in its loop.
EmitsAreRead ==
    Graceful =>
        \A w \in Worker : pc[w] = "process" =>
            \A l \in Out[Serves[w]] \ (Feeder \cup {OutputLink}) :
                Readers(l) # {} => \E r \in Readers(l) : InLoop(r)

\* Every link that items are put on, the output aside, is read by some worker.
\* pipeline! makes no other graph, unless an edge goes to an empty list; one
\* built by hand may leave a link unread.
Plumbed ==
    /\ InputLink # OutputLink /\ Readers(InputLink) # {}
    /\ \A w \in Worker : \A l \in Out[Serves[w]] \ {OutputLink} : Readers(l) # {}

\* The pipeline delivers every accepted item at most once, and loses none
\* before it is told to stop: a plumbed one implements Delivery.
InFlight ==
    {item[w] : w \in Worker}
    \cup UNION {On(l) : l \in {k \in Link : \E w \in Readers(k) : InLoop(w)}}
Output == received \o queue[OutputLink]
Arrived == {Output[i] : i \in 1..Len(Output)}
Promise == INSTANCE Delivery WITH
    delivered <- Output,
    lost <- sent \ (InFlight \cup Arrived),
    stopped <- shutdown \/ abort \/ \E w \in Worker : left[w] = "failed"
DeliversOnce == Promise!Spec

\* An accepted item reaches the output, unless the pipeline is told to stop.
Delivers == \A m \in Item : m \in sent ~> m \in Arrived \/ Stopping

\* Once told to stop every worker leaves its loop and join returns.
Terminates == (shutdown \/ abort) ~> done

\* What the tests say: items sent before shutdown() reach the output.
EarlyItemsArrive == done /\ Graceful => early \subseteq Arrived
=============================================================================
