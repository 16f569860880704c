--------------------------- MODULE PipelineProofs ---------------------------
(***************************************************************************)
(* Proofs about Pipeline: a graceful shutdown drains the input link and     *)
(* then stops the graph from the input on, and a pipeline implements        *)
(* Delivery, for every graph, every number of workers, clients and items.   *)
(***************************************************************************)
EXTENDS Pipeline, SequenceTheorems, TLAPS

OutOfLoop == {"leaving", "gone"}

\* How a worker left, what it holds, and what the steps of its decision mean.
WorkersOrdered ==
    \A w \in Worker :
        /\ pc[w] \in OutOfLoop <=> left[w] # None
        /\ pc[w] = "process" => item[w] \in Item
        /\ pc[w] = "empty" => shutdown
        /\ left[w] = "aborted" => abort

\* An item is offered by one client, and only before it is accepted.
OffersFresh ==
    /\ early \subseteq sent
    /\ \A c \in Client : offer[c] \notin sent
    /\ \A c, d \in Client : c # d /\ offer[c] # None => offer[c] # offer[d]

\* Once a reader of the input link has left gracefully, shutdown is set and
\* nothing sent before it is on the link.
InputSettled ==
    \A w \in Readers(InputLink) :
        left[w] = "graceful" => shutdown /\ early \cap On(InputLink) = {}

\* A reader of any other standard link leaves gracefully after all that emit
\* into the link have returned.
ProducersGone ==
    \A r \in Worker :
        left[r] = "graceful" /\ Source(r) \notin Feeder \cup {InputLink} =>
            \A w \in Producers(Source(r)) : pc[w] = "gone"

PipelineInv == TypeOK /\ WorkersOrdered /\ OffersFresh /\ InputSettled /\ ProducersGone

-----------------------------------------------------------------------------
(* Sequences without repetition.                                           *)

Elements(s) == {s[i] : i \in 1..Len(s)}
Injective(s) == \A i, j \in 1..Len(s) : s[i] = s[j] => i = j

\* What a send adds.
LEMMA AppendPlaces ==
    ASSUME NEW S, NEW s \in Seq(S), NEW e \in S
    PROVE  /\ Append(s, e) \in Seq(S)
           /\ Elements(Append(s, e)) = Elements(s) \cup {e}
           /\ Injective(s) /\ e \notin Elements(s) => Injective(Append(s, e))
<1> DEFINE t == Append(s, e)
<1>1. t \in Seq(S) /\ Len(t) = Len(s) + 1 /\ t[Len(s) + 1] = e
      /\ \A i \in 1..Len(s) : t[i] = s[i]
  OBVIOUS
<1>2. Len(s) \in Nat
  OBVIOUS
<1>3. 1..Len(t) = 1..Len(s) \cup {Len(s) + 1}
  BY <1>1, <1>2
<1> HIDE DEF t
<1>4. Elements(t) = Elements(s) \cup {e}
  BY <1>1, <1>3 DEF Elements
<1>5. ASSUME Injective(s), e \notin Elements(s), NEW i \in 1..Len(t), NEW j \in 1..Len(t),
             t[i] = t[j]
      PROVE  i = j
  <2>1. CASE i \in 1..Len(s) /\ j \in 1..Len(s)
    BY <1>1, <1>5, <2>1 DEF Injective
  <2>2. CASE i = Len(s) + 1 \/ j = Len(s) + 1
    BY <1>1, <1>3, <1>5, <2>2 DEF Elements
  <2> QED
    BY <1>3, <2>1, <2>2
<1>6. Injective(s) /\ e \notin Elements(s) => Injective(t)
  BY <1>5 DEF Injective
<1> QED
  BY <1>1, <1>4, <1>6 DEF t

\* What a receive takes.
LEMMA TailPlaces ==
    ASSUME NEW S, NEW s \in Seq(S), s # <<>>
    PROVE  /\ Head(s) \in S /\ Tail(s) \in Seq(S)
           /\ Elements(s) = {Head(s)} \cup Elements(Tail(s))
           /\ Injective(s) => Injective(Tail(s)) /\ Head(s) \notin Elements(Tail(s))
<1> DEFINE t == Tail(s)
<1>1. t \in Seq(S) /\ Len(t) = Len(s) - 1 /\ Head(s) = s[1] /\ Head(s) \in S
      /\ \A i \in 1..Len(s) - 1 : t[i] = s[i + 1]
  OBVIOUS
<1>2. Len(s) \in Nat /\ Len(s) >= 1
  OBVIOUS
<1> HIDE DEF t
<1>3. \A i \in 1..Len(s) : i = 1 \/ (i - 1 \in 1..Len(t) /\ t[i - 1] = s[i])
  BY <1>1, <1>2
<1>4. \A i \in 1..Len(t) : i + 1 \in 1..Len(s) /\ t[i] = s[i + 1]
  BY <1>1, <1>2
<1>5. 1 \in 1..Len(s)
  BY <1>2
<1>6. Elements(s) = {Head(s)} \cup Elements(t)
  BY <1>1, <1>3, <1>4, <1>5 DEF Elements
<1>7. ASSUME Injective(s) PROVE Injective(t) /\ Head(s) \notin Elements(t)
  <2>1. Injective(t)
    BY <1>2, <1>4, <1>7 DEF Injective
  <2>2. \A i \in 1..Len(t) : s[i + 1] # s[1]
    BY <1>4, <1>5, <1>7 DEF Injective
  <2> QED
    BY <2>1, <2>2, <1>1, <1>4 DEF Elements
<1> QED
  BY <1>1, <1>6, <1>7 DEF t

-----------------------------------------------------------------------------
(* What a worker's step does to the rest.                                  *)

Stays(w) ==
    /\ pc[w] \notin OutOfLoop /\ pc'[w] \notin OutOfLoop /\ left' = left

MayGo(w) == Terminated(Source(w)) \/ (pc[w] = "empty" /\ MayStop(Source(w)))
Leaves(w, how) ==
    /\ pc[w] \notin OutOfLoop /\ pc'[w] = "leaving"
    /\ left' = [left EXCEPT ![w] = how]
    /\ how = "aborted" => abort
    /\ how = "graceful" => MayGo(w)

Returns(w) == pc[w] = "leaving" /\ pc'[w] = "gone" /\ left' = left

\* Every step of a worker is one of the three, and no other worker sees it.
LEMMA WorkerEffect ==
    ASSUME TypeOK, NEW w \in Worker, Works(w)
    PROVE  /\ UNCHANGED <<userVars, supVars, flags>>
           /\ \A v \in Worker \ {w} : pc'[v] = pc[v] /\ item'[v] = item[v]
           /\ \/ Stays(w) \/ Returns(w)
              \/ \E how \in {"graceful", "aborted", "failed"} : Leaves(w, how)
<1>t. pc \in [Worker -> Step] /\ left \in [Worker -> {None, "graceful", "aborted", "failed"}]
      /\ item \in [Worker -> Item \cup {None}]
  BY DEF TypeOK
<1> USE DEF WorkerFrame, Goto, Leave, OutOfLoop
<1>1. CASE CheckAbort(w)
  BY <1>1, <1>t DEF CheckAbort, Stays, Leaves
<1>2. CASE Take(w)
  BY <1>2, <1>t DEF Take, Stays
<1>3. CASE Emit(w)
  BY <1>3, <1>t DEF Emit, Stays
<1>4. CASE FailProcess(w)
  BY <1>4, <1>t DEF FailProcess, Leaves
<1>5. CASE PollDisconnected(w)
  BY <1>5, <1>t DEF PollDisconnected, Leaves, MayGo
<1>6. CASE PollTimeout(w)
  BY <1>6, <1>t DEF PollTimeout, Stays
<1>7. CASE CheckAbortAgain(w)
  BY <1>7, <1>t DEF CheckAbortAgain, Stays, Leaves
<1>8. CASE CheckTerminated(w)
  BY <1>8, <1>t DEF CheckTerminated, Stays, Leaves, MayGo
<1>9. CASE CheckShutdown(w)
  BY <1>9, <1>t DEF CheckShutdown, Stays
<1>10. CASE CheckEmpty(w)
  BY <1>10, <1>t DEF CheckEmpty, Stays, Leaves, MayGo
<1>11. CASE Return(w)
  BY <1>11, <1>t DEF Return, Returns
<1> QED
  BY <1>1, <1>2, <1>3, <1>4, <1>5, <1>6, <1>7, <1>8, <1>9, <1>10, <1>11 DEF Works

\* The steps of everyone else leave the workers alone.
LEMMA OthersEffect ==
    ASSUME Supervisor \/ Users \/ Over \/ UNCHANGED vars
    PROVE  UNCHANGED <<pc, item, left>> /\ (shutdown => shutdown') /\ (abort => abort')
<1>0. ASSUME NEW w \in Worker, Hear(w)
      PROVE  UNCHANGED <<pc, item, left>> /\ (shutdown => shutdown') /\ (abort => abort')
  <2>1. UNCHANGED <<pc, item, left>> /\ UNCHANGED shutdown
    BY <1>0 DEF Hear, workVars
  <2>2. abort => abort'
    BY <1>0, Zenon DEF Hear
  <2> QED
    BY <2>1, <2>2
<1>1. CASE Supervisor
  BY <1>0, <1>1 DEF Supervisor, CloseLinks, Finish, workVars, flags
<1>2. CASE Users
  BY <1>2 DEF Users, Send, Offer, Receive, Shutdown, Abort, workVars, flags
<1>3. CASE Over \/ UNCHANGED vars
  BY <1>3 DEF Over, vars, workVars, flags
<1> QED
  BY <1>1, <1>2, <1>3

-----------------------------------------------------------------------------
(* Types.                                                                  *)

LEMMA TypeInit == Init => TypeOK
<1> SUFFICES ASSUME Init PROVE TypeOK
  OBVIOUS
<1>1. <<>> \in Seq(Item)
  OBVIOUS
<1>2. queue \in [Link -> Seq(Item)] /\ received \in Seq(Item)
  BY <1>1 DEF Init
<1>3. /\ pc \in [Worker -> Step] /\ item \in [Worker -> Item \cup {None}]
      /\ left \in [Worker -> {None, "graceful", "aborted", "failed"}]
      /\ offer \in [Client -> Item \cup {None}]
  BY DEF Init, Step
<1> QED
  BY <1>2, <1>3 DEF Init, TypeOK

\* What a step of a worker writes has its type.
LEMMA TypeWorker ==
    ASSUME TypeOK, WorkersOrdered, NEW w \in Worker, Works(w)
    PROVE  TypeOK'
<1>t. /\ pc \in [Worker -> Step] /\ item \in [Worker -> Item \cup {None}]
      /\ left \in [Worker -> {None, "graceful", "aborted", "failed"}]
      /\ queue \in [Link -> Seq(Item)]
  BY DEF TypeOK
<1>s. Source(w) \in Link /\ Out[Serves[w]] \subseteq Link
  BY GraphAssumption DEF Source
<1>1. UNCHANGED <<userVars, supVars, flags>>
  BY WorkerEffect
<1>2. pc' \in [Worker -> Step]
  BY <1>t DEF Works, CheckAbort, Take, Emit, FailProcess, PollDisconnected, PollTimeout,
     CheckAbortAgain, CheckTerminated, CheckShutdown, CheckEmpty, Return, Goto, Leave, Step
<1>3. left' \in [Worker -> {None, "graceful", "aborted", "failed"}]
  BY <1>t DEF Works, CheckAbort, Take, Emit, FailProcess, PollDisconnected, PollTimeout,
     CheckAbortAgain, CheckTerminated, CheckShutdown, CheckEmpty, Return, Leave
<1>4. queue' \in [Link -> Seq(Item)] /\ item' \in [Worker -> Item \cup {None}]
  <2>1. CASE Take(w)
    <3>1. queue[Source(w)] \in Seq(Item) /\ queue[Source(w)] # <<>>
      BY <2>1, <1>t, <1>s DEF Take
    <3>2. Head(queue[Source(w)]) \in Item /\ Tail(queue[Source(w)]) \in Seq(Item)
      BY <3>1
    <3> QED
      BY <2>1, <3>2, <1>t, <1>s DEF Take
  <2>2. CASE Emit(w)
    <3>1. item[w] \in Item
      BY <2>2 DEF Emit, WorkersOrdered
    <3>2. PICK l \in Out[Serves[w]] : queue' = [queue EXCEPT ![l] = Append(@, item[w])]
      BY <2>2 DEF Emit
    <3>3. Append(queue[l], item[w]) \in Seq(Item)
      BY <3>1, <1>t, <1>s
    <3> QED
      BY <2>2, <3>2, <3>3, <1>t, <1>s DEF Emit
  <2>3. CASE FailProcess(w)
    BY <2>3, <1>t DEF FailProcess, WorkerFrame
  <2>4. CASE ~Take(w) /\ ~Emit(w) /\ ~FailProcess(w)
    BY <2>4, <1>t DEF Works, CheckAbort, PollDisconnected, PollTimeout,
       CheckAbortAgain, CheckTerminated, CheckShutdown, CheckEmpty, Return
  <2> QED
    BY <2>1, <2>2, <2>3, <2>4
<1> QED
  BY <1>1, <1>2, <1>3, <1>4 DEF TypeOK, userVars, supVars, flags

LEMMA TypeUsers ==
    ASSUME TypeOK, Users
    PROVE  TypeOK'
<1> USE DEF userVars, supVars, flags, workVars
<1>1. ASSUME NEW c \in Client, NEW m \in Item, Offer(c, m) PROVE TypeOK'
  BY <1>1 DEF Offer, TypeOK
<1>2. ASSUME NEW c \in Client, Send(c) PROVE TypeOK'
  <2>1. offer[c] \in Item
    BY <1>2 DEF Send, TypeOK
  <2>2. InputLink \in Link
    BY GraphAssumption
  <2>3. queue' \in [Link -> Seq(Item)]
    BY <1>2, <2>1, <2>2 DEF Send, TypeOK
  <2>4. sent' \subseteq Item /\ early' \subseteq Item
    BY <1>2, <2>1 DEF Send, TypeOK
  <2>5. offer' \in [Client -> Item \cup {None}]
    BY <1>2 DEF Send, TypeOK
  <2> QED
    BY <1>2, <2>3, <2>4, <2>5 DEF Send, TypeOK
<1>3. CASE Receive
  <2>1. queue[OutputLink] \in Seq(Item) /\ queue[OutputLink] # <<>> /\ OutputLink \in Link
    BY <1>3, GraphAssumption DEF Receive, TypeOK
  <2>2. Head(queue[OutputLink]) \in Item /\ Tail(queue[OutputLink]) \in Seq(Item)
    BY <2>1
  <2>3. received' \in Seq(Item) /\ queue' \in [Link -> Seq(Item)]
    BY <1>3, <2>1, <2>2 DEF Receive, TypeOK
  <2> QED
    BY <1>3, <2>3 DEF Receive, TypeOK
<1>4. CASE Shutdown \/ Abort
  BY <1>4 DEF Shutdown, Abort, TypeOK
<1> QED
  BY <1>1, <1>2, <1>3, <1>4 DEF Users

LEMMA TypeSupervisor ==
    ASSUME TypeOK, Supervisor
    PROVE  TypeOK'
<1> USE DEF userVars, supVars, flags, workVars
<1>1. ASSUME NEW w \in Worker, Hear(w) PROVE TypeOK'
  <2>1. abort' \in BOOLEAN
    BY <1>1 DEF Hear
  <2> QED
    BY <1>1, <2>1 DEF Hear, TypeOK
<1>2. CASE CloseLinks \/ Finish
  BY <1>2 DEF CloseLinks, Finish, TypeOK
<1> QED
  BY <1>1, <1>2 DEF Supervisor

LEMMA TypeStep ==
    ASSUME TypeOK, WorkersOrdered, [Next]_vars
    PROVE  TypeOK'
<1>1. CASE Over \/ UNCHANGED vars
  BY <1>1 DEF Over, vars, userVars, supVars, flags, workVars, TypeOK
<1> QED
  BY <1>1, TypeWorker, TypeUsers, TypeSupervisor DEF Next

-----------------------------------------------------------------------------
(* The workers' loops.                                                     *)

LEMMA WorkersStep ==
    ASSUME TypeOK, WorkersOrdered, [Next]_vars
    PROVE  WorkersOrdered'
<1>1. CASE Supervisor \/ Users \/ Over \/ UNCHANGED vars
  BY <1>1, OthersEffect DEF WorkersOrdered
<1>2. ASSUME NEW w \in Worker, Works(w) PROVE WorkersOrdered'
  <2>t. pc \in [Worker -> Step] /\ left \in [Worker -> {None, "graceful", "aborted", "failed"}]
        /\ item \in [Worker -> Item \cup {None}]
    BY DEF TypeOK
  <2>1. UNCHANGED <<shutdown, abort>>
    BY <1>2, WorkerEffect DEF flags
  <2>2. \A v \in Worker \ {w} :
           pc'[v] = pc[v] /\ item'[v] = item[v] /\ left'[v] = left[v]
    BY <1>2, WorkerEffect, <2>t DEF Stays, Leaves, Returns
  <2>3. pc'[w] \in OutOfLoop <=> left'[w] # None
    BY <1>2, WorkerEffect, <2>t DEF Stays, Leaves, Returns, WorkersOrdered, OutOfLoop, None
  <2>4. pc'[w] = "process" => item'[w] \in Item
    <3> SUFFICES ASSUME pc'[w] = "process" PROVE item'[w] \in Item
      OBVIOUS
    <3>1. Take(w)
      BY <1>2, <2>t DEF Works, CheckAbort, Emit, FailProcess, PollDisconnected, PollTimeout,
         CheckAbortAgain, CheckTerminated, CheckShutdown, CheckEmpty, Return, Goto, Leave
    <3>2. queue[Source(w)] \in Seq(Item) /\ queue[Source(w)] # <<>>
      BY <3>1, GraphAssumption DEF Take, Source, TypeOK
    <3>3. Head(queue[Source(w)]) \in Item
      BY <3>2
    <3> QED
      BY <3>1, <3>3, <2>t DEF Take
  <2>5. pc'[w] = "empty" => shutdown'
    <3> SUFFICES ASSUME pc'[w] = "empty" PROVE shutdown
      BY <2>1
    <3>1. CheckShutdown(w)
      BY <1>2, <2>t DEF Works, CheckAbort, Take, Emit, FailProcess, PollDisconnected,
         PollTimeout, CheckAbortAgain, CheckTerminated, CheckEmpty, Return, Goto, Leave
    <3> QED
      BY <3>1, <2>t DEF CheckShutdown, Goto
  <2>6. left'[w] = "aborted" => abort'
    BY <1>2, WorkerEffect, <2>t, <2>1 DEF Stays, Leaves, Returns, WorkersOrdered
  <2> QED
    BY <2>1, <2>2, <2>3, <2>4, <2>5, <2>6 DEF WorkersOrdered
<1> QED
  BY <1>1, <1>2 DEF Next

-----------------------------------------------------------------------------
(* The users' items.                                                       *)

LEMMA OffersStep ==
    ASSUME TypeOK, OffersFresh, [Next]_vars
    PROVE  OffersFresh'
<1>t. offer \in [Client -> Item \cup {None}] /\ None \notin Item /\ sent \subseteq Item
  BY GraphAssumption DEF TypeOK
<1>1. ASSUME NEW c \in Client, NEW m \in Item, Offer(c, m) PROVE OffersFresh'
  <2>1. m \notin sent /\ \A d \in Client : offer[d] # m
    BY <1>1 DEF Offer, Untouched
  <2>2. UNCHANGED <<sent, early>>
    BY <1>1 DEF Offer
  <2>3. offer' = offer \/ offer' = [offer EXCEPT ![c] = m]
    BY <1>1 DEF Offer
  <2> QED
    BY <2>1, <2>2, <2>3, <1>t DEF OffersFresh
<1>2. ASSUME NEW c \in Client, Send(c) PROVE OffersFresh'
  <2>1. offer[c] # None /\ sent' = sent \cup {offer[c]} /\ offer' = [offer EXCEPT ![c] = None]
    BY <1>2 DEF Send
  <2>2. early' \subseteq early \cup {offer[c]}
    BY <1>2 DEF Send
  <2>3. None \notin sent'
    BY <2>1, <1>t
  <2>4. \A d \in Client : offer'[d] \notin sent'
    BY <2>1, <2>3, <1>t DEF OffersFresh
  <2>5. early' \subseteq sent'
    BY <2>1, <2>2 DEF OffersFresh
  <2>6. \A d, e \in Client : d # e /\ offer'[d] # None => offer'[d] # offer'[e]
    BY <2>1, <1>t DEF OffersFresh
  <2> QED
    BY <2>4, <2>5, <2>6 DEF OffersFresh
<1>3. ASSUME NEW w \in Worker, Works(w) PROVE OffersFresh'
  BY <1>3, WorkerEffect DEF OffersFresh, userVars
<1>4. CASE Receive \/ Shutdown \/ Abort
  BY <1>4 DEF Receive, Shutdown, Abort, OffersFresh, userVars
<1>5. CASE Supervisor \/ Over \/ UNCHANGED vars
  BY <1>5 DEF Supervisor, CloseLinks, Finish, Hear, Over, vars, OffersFresh, userVars
<1> QED
  BY <1>1, <1>2, <1>3, <1>4, <1>5 DEF Next, Users

\* The items on the input link only become fewer, except by a send.
LEMMA InputShrinks ==
    ASSUME TypeOK, [Next]_vars, \A c \in Client : ~Send(c)
    PROVE  On(InputLink)' \subseteq On(InputLink) /\ early' = early
<1>g. InputLink \in Link /\ OutputLink \in Link /\ queue \in [Link -> Seq(Item)]
  BY GraphAssumption DEF TypeOK
<1>1. ASSUME NEW w \in Worker, Take(w)
      PROVE  On(InputLink)' \subseteq On(InputLink) /\ early' = early
  <2>1. queue' = [queue EXCEPT ![Source(w)] = Tail(@)] /\ queue[Source(w)] # <<>>
    BY <1>1 DEF Take
  <2>2. CASE Source(w) = InputLink
    <3>1. queue'[InputLink] = Tail(queue[InputLink])
      BY <2>1, <2>2, <1>g
    <3>2. queue[InputLink] \in Seq(Item) /\ queue[InputLink] # <<>>
      BY <2>1, <2>2, <1>g
    <3>3. On(InputLink)' \subseteq On(InputLink)
      BY <3>1, <3>2, TailPlaces DEF On, Elements
    <3> QED
      BY <1>1, <3>3 DEF Take, WorkerFrame, userVars
  <2>3. CASE Source(w) # InputLink
    <3>1. queue'[InputLink] = queue[InputLink]
      BY <2>1, <2>3, <1>g
    <3> QED
      BY <1>1, <3>1 DEF On, Take, WorkerFrame, userVars
  <2> QED
    BY <2>2, <2>3
<1>2. ASSUME NEW w \in Worker, Emit(w)
      PROVE  On(InputLink)' \subseteq On(InputLink) /\ early' = early
  <2>1. PICK l \in Out[Serves[w]] : queue' = [queue EXCEPT ![l] = Append(@, item[w])]
    BY <1>2 DEF Emit
  <2>2. l # InputLink
    BY GraphAssumption
  <2>3. queue'[InputLink] = queue[InputLink]
    BY <2>1, <2>2, <1>g
  <2> QED
    BY <1>2, <2>3 DEF On, Emit, WorkerFrame, userVars
<1>3. ASSUME NEW w \in Worker, Works(w), ~Take(w), ~Emit(w)
      PROVE  On(InputLink)' \subseteq On(InputLink) /\ early' = early
  BY <1>3 DEF On, Works, CheckAbort, FailProcess, PollDisconnected, PollTimeout,
     CheckAbortAgain, CheckTerminated, CheckShutdown, CheckEmpty, Return, WorkerFrame, userVars
<1>4. CASE Receive
  <2>1. queue' = [queue EXCEPT ![OutputLink] = Tail(@)] /\ queue[OutputLink] # <<>>
        /\ early' = early
    BY <1>4 DEF Receive
  <2>2. CASE OutputLink = InputLink
    <3>1. queue'[InputLink] = Tail(queue[InputLink])
      BY <2>1, <2>2, <1>g
    <3>2. queue[InputLink] \in Seq(Item) /\ queue[InputLink] # <<>>
      BY <2>1, <2>2, <1>g
    <3> QED
      BY <2>1, <3>1, <3>2, TailPlaces DEF On, Elements
  <2>3. CASE OutputLink # InputLink
    <3>1. queue'[InputLink] = queue[InputLink]
      BY <2>1, <2>3, <1>g
    <3> QED
      BY <2>1, <3>1 DEF On
  <2> QED
    BY <2>2, <2>3
<1>5. CASE Shutdown \/ Abort \/ \E c \in Client, m \in Item : Offer(c, m)
  BY <1>5 DEF Shutdown, Abort, Offer, On, workVars, userVars
<1>6. CASE Supervisor \/ Over \/ UNCHANGED vars
  BY <1>6 DEF Supervisor, CloseLinks, Finish, Hear, Over, vars, On, workVars, userVars
<1> QED
  BY <1>1, <1>2, <1>3, <1>4, <1>5, <1>6 DEF Next, Users, Works

-----------------------------------------------------------------------------
(* The order of a graceful shutdown.                                       *)

LEMMA SettledStep ==
    ASSUME TypeOK, WorkersOrdered, OffersFresh, InputSettled, [Next]_vars
    PROVE  InputSettled'
<1> SUFFICES ASSUME NEW w \in Readers(InputLink), left'[w] = "graceful"
             PROVE  shutdown' /\ early' \cap On(InputLink)' = {}
  BY DEF InputSettled, Readers, Source
<1>w. w \in Worker /\ Source(w) = InputLink
  BY DEF Readers
<1>1. shutdown /\ early \cap On(InputLink) = {}
  <2>1. CASE left[w] = "graceful"
    BY <2>1 DEF InputSettled
  <2>2. CASE left[w] # "graceful"
    <3>1. PICK v \in Worker : Works(v)
      BY <2>2, OthersEffect DEF Next
    <3>2. PICK how \in {"graceful", "aborted", "failed"} : Leaves(v, how)
      BY <2>2, <3>1, WorkerEffect DEF Stays, Returns
    <3>3. v = w /\ how = "graceful"
      BY <2>2, <3>2, <1>w DEF Leaves, TypeOK
    <3>4. pc[w] = "empty" /\ queue[InputLink] = <<>>
      BY <3>2, <3>3, <1>w, GraphAssumption DEF Leaves, MayGo, MayStop, Terminated
    <3>5. On(InputLink) = {}
      BY <3>4 DEF On
    <3> QED
      BY <3>4, <3>5, <1>w DEF WorkersOrdered
  <2> QED
    BY <2>1, <2>2
<1>2. shutdown'
  <2>1. CASE \E v \in Worker : Works(v)
    BY <2>1, <1>1, WorkerEffect DEF flags
  <2>2. CASE ~\E v \in Worker : Works(v)
    BY <2>2, <1>1, OthersEffect DEF Next
  <2> QED
    BY <2>1, <2>2
<1>3. CASE \A c \in Client : ~Send(c)
  BY <1>1, <1>2, <1>3, InputShrinks
<1>4. ASSUME NEW c \in Client, Send(c) PROVE early' \cap On(InputLink)' = {}
  <2>1. early' = early
    BY <1>1, <1>4 DEF Send
  <2>2. offer[c] \notin early /\ offer[c] \in Item
    BY <1>4 DEF Send, OffersFresh, TypeOK
  <2>3. queue[InputLink] \in Seq(Item)
        /\ queue'[InputLink] = Append(queue[InputLink], offer[c])
    BY <1>4, GraphAssumption DEF Send, TypeOK
  <2>4. On(InputLink)' \subseteq On(InputLink) \cup {offer[c]}
    BY <2>2, <2>3, AppendPlaces DEF On, Elements
  <2> QED
    BY <1>1, <2>1, <2>2, <2>4
<1> QED
  BY <1>2, <1>3, <1>4

LEMMA ProducersStep ==
    ASSUME TypeOK, WorkersOrdered, ProducersGone, [Next]_vars
    PROVE  ProducersGone'
<1>t. pc \in [Worker -> Step] /\ left \in [Worker -> {None, "graceful", "aborted", "failed"}]
  BY DEF TypeOK
<1>1. CASE Supervisor \/ Users \/ Over \/ UNCHANGED vars
  BY <1>1, OthersEffect DEF ProducersGone, Producers, Source
<1>2. ASSUME NEW v \in Worker, Works(v) PROVE ProducersGone'
  <2>1. \A w \in Worker : pc[w] = "gone" => pc'[w] = "gone"
    BY <1>2, WorkerEffect DEF Stays, Leaves, Returns, OutOfLoop
  <2>2. SUFFICES ASSUME NEW r \in Worker, left'[r] = "graceful",
                        Source(r) \notin Feeder \cup {InputLink},
                        NEW w \in Producers(Source(r))
                 PROVE  pc[w] = "gone"
    BY <2>1 DEF ProducersGone, Producers, Source
  <2>3. CASE left[r] = "graceful"
    BY <2>2, <2>3 DEF ProducersGone
  <2>4. CASE left[r] # "graceful"
    <3>1. PICK how \in {"graceful", "aborted", "failed"} : Leaves(v, how)
      BY <1>2, <2>2, <2>4, WorkerEffect DEF Stays, Returns
    <3>2. v = r /\ how = "graceful"
      BY <2>2, <2>4, <3>1, <1>t DEF Leaves
    <3>3. Terminated(Source(r))
      BY <2>2, <3>1, <3>2 DEF Leaves, MayGo, MayStop
    <3> QED
      BY <2>2, <3>3 DEF Terminated
  <2> QED
    BY <2>3, <2>4
<1> QED
  BY <1>1, <1>2 DEF Next

-----------------------------------------------------------------------------
(* Theorems.                                                               *)

LEMMA InvInit == Init => PipelineInv
<1> SUFFICES ASSUME Init PROVE PipelineInv
  OBVIOUS
<1>1. WorkersOrdered
  BY DEF Init, WorkersOrdered, OutOfLoop, None
<1>2. OffersFresh
  BY DEF Init, OffersFresh
<1>3. InputSettled /\ ProducersGone
  BY DEF Init, InputSettled, ProducersGone, Readers, None
<1> QED
  BY TypeInit, <1>1, <1>2, <1>3 DEF PipelineInv

LEMMA InvStep == PipelineInv /\ [Next]_vars => PipelineInv'
BY TypeStep, WorkersStep, OffersStep, SettledStep, ProducersStep DEF PipelineInv

LEMMA InvAlways == Spec => []PipelineInv
BY InvInit, InvStep, PTL DEF Spec

\* Only items are on links and in workers, and every variable has its type.
THEOREM PipelineType == Spec => []TypeOK
<1>1. PipelineInv => TypeOK
  BY DEF PipelineInv
<1> QED
  BY <1>1, InvAlways, PTL

\* A worker out of its loop without an abort or a failure left gracefully.
LEMMA GracefulLeft ==
    ASSUME TypeOK, WorkersOrdered, Graceful, NEW w \in Worker, ~InLoop(w)
    PROVE  left[w] = "graceful"
BY DEF TypeOK, WorkersOrdered, Graceful, InLoop

\* Graceful shutdown drains the input link before its first reader leaves
\* (LinkReceiver::should_stop_on_shutdown_timeout).
THEOREM DrainsInput == Spec => []InputDrained
<1>1. ASSUME PipelineInv PROVE InputDrained
  <2> SUFFICES ASSUME Graceful, NEW w \in Readers(InputLink), ~InLoop(w)
               PROVE  early \cap On(InputLink) = {}
    BY DEF InputDrained
  <2>1. left[w] = "graceful"
    BY <1>1, GracefulLeft DEF PipelineInv, Readers
  <2> QED
    BY <1>1, <2>1 DEF PipelineInv, InputSettled
<1> QED
  BY <1>1, InvAlways, PTL

\* While no abort or failure stops the pipeline, a standard link that a worker
\* may still emit into has a reader in its loop.
THEOREM EmitsHeard == Spec => []EmitsAreRead
<1>1. ASSUME PipelineInv PROVE EmitsAreRead
  <2> SUFFICES ASSUME Graceful, NEW w \in Worker, pc[w] = "process",
                      NEW l \in Out[Serves[w]] \ (Feeder \cup {OutputLink}),
                      NEW r \in Readers(l), ~InLoop(r)
               PROVE  FALSE
    BY DEF EmitsAreRead
  <2>1. r \in Worker /\ Source(r) = l
    BY DEF Readers
  <2>2. left[r] = "graceful"
    BY <1>1, <2>1, GracefulLeft DEF PipelineInv
  <2>3. l \notin Feeder \cup {InputLink} /\ w \in Producers(l)
    BY GraphAssumption DEF Producers
  <2>4. pc[w] = "gone"
    BY <1>1, <2>1, <2>2, <2>3 DEF PipelineInv, ProducersGone
  <2> QED
    BY <2>4
<1> QED
  BY <1>1, InvAlways, PTL

-----------------------------------------------------------------------------
(* A pipeline implements Delivery.                                         *)

Stopped == shutdown \/ abort \/ \E w \in Worker : left[w] = "failed"

\* Links are closed and workers leave their loops only in a pipeline that stops.
StopsFirst ==
    /\ ~held => Stopped
    /\ \A w \in Worker : left[w] # None => Stopped

Inner == Link \ {OutputLink}

\* An item is in one place: once on one link, in one worker, or at the output.
InOnePlace ==
    /\ Arrived \subseteq sent
    /\ \A l \in Inner :
         /\ Injective(queue[l]) /\ On(l) \subseteq sent \ Arrived
         /\ \A k \in Inner \ {l} : On(k) \cap On(l) = {}
    /\ \A w \in Worker :
         /\ pc[w] # "process" => item[w] = None
         /\ item[w] # None =>
              /\ item[w] \in sent \ Arrived
              /\ \A l \in Inner : item[w] \notin On(l)
              /\ \A v \in Worker \ {w} : item[v] # item[w]

DeliverInv == PipelineInv /\ StopsFirst /\ InOnePlace

LEMMA StopsStep ==
    ASSUME TypeOK, WorkersOrdered, StopsFirst, [Next]_vars
    PROVE  StopsFirst' /\ (Stopped => Stopped')
<1>t. left \in [Worker -> {None, "graceful", "aborted", "failed"}]
  BY DEF TypeOK
<1>1. CASE Supervisor \/ Users \/ Over \/ UNCHANGED vars
  <2>1. UNCHANGED <<pc, item, left>> /\ (shutdown => shutdown') /\ (abort => abort')
    BY <1>1, OthersEffect
  <2>2. Stopped => Stopped'
    BY <2>1 DEF Stopped
  <2>3. ~held' => held' = held \/ Stopped
    BY <1>1 DEF Supervisor, CloseLinks, Finish, Hear, Users, Send, Offer, Receive, Shutdown,
       Abort, Over, vars, supVars, Stopping, Failed, Stopped, TypeOK
  <2> QED
    BY <2>1, <2>2, <2>3 DEF StopsFirst
<1>2. ASSUME NEW w \in Worker, Works(w) PROVE StopsFirst' /\ (Stopped => Stopped')
  <2>1. UNCHANGED <<shutdown, abort, held>>
    BY <1>2, WorkerEffect DEF flags, supVars
  <2>2. CASE Stays(w) \/ Returns(w)
    BY <2>1, <2>2 DEF Stays, Returns, StopsFirst, Stopped
  <2>3. ASSUME NEW how \in {"graceful", "aborted", "failed"}, Leaves(w, how)
        PROVE  Stopped' /\ (Stopped => Stopped')
    <3>1. left'[w] = how
      BY <2>3, <1>t DEF Leaves
    <3>2. CASE how = "failed"
      BY <3>1, <3>2 DEF Stopped
    <3>3. CASE how = "aborted"
      BY <2>1, <2>3, <3>3 DEF Leaves, Stopped
    <3>4. CASE how = "graceful"
      <4>1. Terminated(Source(w)) \/ pc[w] = "empty"
        BY <2>3, <3>4 DEF Leaves, MayGo
      <4>2. CASE pc[w] = "empty"
        BY <2>1, <4>2 DEF WorkersOrdered, Stopped
      <4>3. CASE Terminated(Source(w))
        <5>1. Stopped
          BY <4>3 DEF Terminated, StopsFirst
        <5>2. \A v \in Worker : left[v] = "failed" => left'[v] = "failed"
          <6>1. left[w] = None
            BY <2>3 DEF Leaves, WorkersOrdered
          <6> QED
            BY <2>3, <6>1, <1>t DEF Leaves, None
        <5> QED
          BY <2>1, <5>1, <5>2 DEF Stopped
      <4> QED
        BY <4>1, <4>2, <4>3
    <3> QED
      BY <3>2, <3>3, <3>4
  <2> QED
    BY <1>2, <2>1, <2>2, <2>3, WorkerEffect DEF StopsFirst
<1> QED
  BY <1>1, <1>2 DEF Next

-----------------------------------------------------------------------------
(* Where the items are.                                                    *)

LEMMA Concatenates ==
    ASSUME NEW r \in Seq(Item), NEW s \in Seq(Item), NEW t \in Seq(Item)
    PROVE  (r \o s) \o t = r \o (s \o t)
BY ConcatAssociative

\* An item is put on a link ...
LEMMA PutOn ==
    ASSUME TypeOK, NEW l \in Link, NEW m \in Item, received' = received,
           queue' = [queue EXCEPT ![l] = Append(@, m)]
    PROVE  /\ On(l)' = On(l) \cup {m}
           /\ Injective(queue[l]) /\ m \notin On(l) => Injective(queue'[l])
           /\ \A k \in Link \ {l} : queue'[k] = queue[k] /\ On(k)' = On(k)
           /\ l # OutputLink => Output' = Output /\ Arrived' = Arrived
           /\ l = OutputLink => Output' = Append(Output, m) /\ Arrived' = Arrived \cup {m}
<1>1. /\ queue[l] \in Seq(Item) /\ queue'[l] = Append(queue[l], m)
      /\ \A k \in Link \ {l} : queue'[k] = queue[k]
      /\ OutputLink \in Link /\ received \in Seq(Item) /\ queue[OutputLink] \in Seq(Item)
  BY GraphAssumption DEF TypeOK
<1>2. On(l) = Elements(queue[l]) /\ On(l)' = Elements(queue'[l])
  BY DEF On, Elements
<1>3. \A k \in Link \ {l} : On(k)' = On(k)
  BY <1>1 DEF On
<1>4. ASSUME l # OutputLink PROVE Output' = Output /\ Arrived' = Arrived
  BY <1>1, <1>4 DEF Output, Arrived
<1>5. ASSUME l = OutputLink
      PROVE  Output' = Append(Output, m) /\ Arrived' = Arrived \cup {m}
  <2>1. Output' = received \o Append(queue[l], m) /\ Output = received \o queue[l]
    BY <1>1, <1>5 DEF Output
  <2>2. /\ Append(queue[l], m) = queue[l] \o <<m>> /\ <<m>> \in Seq(Item)
        /\ Output \in Seq(Item) /\ Append(Output, m) = Output \o <<m>>
    BY <1>1, <2>1, AppendIsConcat, ConcatProperties
  <2>3. Output' = Append(Output, m)
    <3>1. (received \o queue[l]) \o <<m>> = received \o (queue[l] \o <<m>>)
      BY <1>1, <1>5, <2>2, Concatenates
    <3> QED
      BY <2>1, <2>2, <3>1
  <2>4. Arrived = Elements(Output) /\ Arrived' = Elements(Output')
    BY DEF Arrived, Elements
  <2> QED
    BY <2>2, <2>3, <2>4, AppendPlaces
<1> QED
  BY <1>1, <1>2, <1>3, <1>4, <1>5, AppendPlaces

\* ... and taken from one.
LEMMA TakenFrom ==
    ASSUME TypeOK, NEW l \in Link, queue[l] # <<>>,
           queue' = [queue EXCEPT ![l] = Tail(@)]
    PROVE  /\ Head(queue[l]) \in Item
           /\ On(l) = {Head(queue[l])} \cup On(l)'
           /\ Injective(queue[l]) => Injective(queue'[l]) /\ Head(queue[l]) \notin On(l)'
           /\ \A k \in Link \ {l} : queue'[k] = queue[k] /\ On(k)' = On(k)
<1>1. /\ queue[l] \in Seq(Item) /\ queue'[l] = Tail(queue[l])
      /\ \A k \in Link \ {l} : queue'[k] = queue[k]
  BY DEF TypeOK
<1>2. On(l) = Elements(queue[l]) /\ On(l)' = Elements(queue'[l])
  BY DEF On, Elements
<1>3. \A k \in Link \ {l} : On(k)' = On(k)
  BY <1>1 DEF On
<1> QED
  BY <1>1, <1>2, <1>3, TailPlaces

\* What the user takes has arrived before.
LEMMA ReceivedFrom ==
    ASSUME TypeOK, Receive
    PROVE  Output' = Output /\ Arrived' = Arrived
<1>1. /\ received \in Seq(Item) /\ queue[OutputLink] \in Seq(Item)
      /\ queue[OutputLink] # <<>> /\ queue'[OutputLink] = Tail(queue[OutputLink])
      /\ received' = Append(received, Head(queue[OutputLink]))
  BY GraphAssumption DEF TypeOK, Receive
<1> DEFINE q == queue[OutputLink]
           m == Head(q)
           t == Tail(q)
<1>2. m \in Item /\ t \in Seq(Item) /\ <<m>> \in Seq(Item) /\ q = <<m>> \o t
  BY <1>1
<1>3. received' = received \o <<m>>
  BY <1>1, <1>2, AppendIsConcat
<1>4. received' \o t = received \o q
  <2>1. (received \o <<m>>) \o t = received \o (<<m>> \o t)
    BY <1>1, <1>2, Concatenates
  <2> QED
    BY <1>2, <1>3, <2>1
<1>5. Output' = Output
  BY <1>1, <1>4 DEF Output
<1> QED
  BY <1>5 DEF Arrived

LEMMA PlacesQuiet ==
    ASSUME InOnePlace, UNCHANGED <<queue, item, sent, received>>,
           \A w \in Worker : pc'[w] # "process" => pc[w] # "process"
    PROVE  InOnePlace'
<1>1. Output' = Output /\ \A l \in Inner : On(l)' = On(l)
  BY DEF Output, On
<1>2. Arrived' = Arrived
  BY <1>1 DEF Arrived
<1> QED
  BY <1>1, <1>2 DEF InOnePlace

LEMMA PlacesSend ==
    ASSUME TypeOK, OffersFresh, InOnePlace, InputLink # OutputLink, NEW c \in Client, Send(c)
    PROVE  InOnePlace'
<1> DEFINE m == offer[c]
<1>1. /\ m \in Item /\ m # None /\ m \notin sent /\ InputLink \in Inner /\ InputLink \in Link
      /\ queue' = [queue EXCEPT ![InputLink] = Append(@, m)] /\ sent' = sent \cup {m}
      /\ UNCHANGED <<received, pc, item>>
  BY GraphAssumption DEF Send, TypeOK, OffersFresh, Inner
<1> HIDE DEF m
<1>2. /\ On(InputLink)' = On(InputLink) \cup {m}
      /\ Injective(queue[InputLink]) /\ m \notin On(InputLink) => Injective(queue'[InputLink])
      /\ \A k \in Inner \ {InputLink} : queue'[k] = queue[k] /\ On(k)' = On(k)
      /\ Arrived' = Arrived
  BY <1>1, PutOn DEF Inner
<1>3. m \notin Arrived /\ (\A l \in Inner : m \notin On(l)) /\ \A w \in Worker : item[w] # m
  BY <1>1 DEF InOnePlace
<1>4. ASSUME NEW l \in Inner
      PROVE  /\ Injective(queue'[l]) /\ On(l)' \subseteq sent' \ Arrived'
             /\ \A k \in Inner \ {l} : On(k)' \cap On(l)' = {}
  <2>1. CASE l = InputLink
    BY <1>1, <1>2, <1>3, <2>1 DEF InOnePlace
  <2>2. CASE l # InputLink
    BY <1>1, <1>2, <1>3, <2>2 DEF InOnePlace
  <2> QED
    BY <2>1, <2>2
<1>5. ASSUME NEW w \in Worker, item[w] # None
      PROVE  item[w] \in sent' \ Arrived' /\ \A l \in Inner : item[w] \notin On(l)'
  BY <1>1, <1>2, <1>3, <1>5 DEF InOnePlace
<1> QED
  BY <1>1, <1>2, <1>4, <1>5 DEF InOnePlace

LEMMA PlacesTake ==
    ASSUME TypeOK, InOnePlace, NEW w \in Worker, Take(w)
    PROVE  InOnePlace'
<1> DEFINE s == Source(w)
           m == Head(queue[s])
<1>1. /\ s \in Inner /\ s \in Link /\ queue[s] # <<>>
      /\ queue' = [queue EXCEPT ![s] = Tail(@)] /\ item' = [item EXCEPT ![w] = m]
      /\ pc' = [pc EXCEPT ![w] = "process"]
      /\ sent' = sent /\ received' = received
  BY GraphAssumption DEF Take, Source, Inner, Goto, WorkerFrame, userVars
<1>2. /\ On(s) = {m} \cup On(s)' /\ Injective(queue'[s]) /\ m \notin On(s)'
      /\ \A k \in Link \ {s} : queue'[k] = queue[k] /\ On(k)' = On(k)
  BY <1>1, TakenFrom DEF InOnePlace
<1> HIDE DEF s, m
<1>3. Arrived' = Arrived
  BY <1>1, <1>2, GraphAssumption DEF Arrived, Output, Inner
<1>4. \A k \in Inner : On(k)' \subseteq On(k) /\ Injective(queue'[k])
  BY <1>2 DEF InOnePlace, Inner
<1>5. /\ m \in sent \ Arrived /\ \A k \in Inner : m \notin On(k)'
      /\ \A v \in Worker : item[v] # m \/ item[v] = None
  <2>1. m \in On(s)
    BY <1>2
  <2>2. \A k \in Inner \ {s} : m \notin On(k)
    BY <1>1, <2>1 DEF InOnePlace
  <2> QED
    BY <1>1, <1>2, <1>4, <2>1, <2>2 DEF InOnePlace
<1>6. /\ item'[w] = m /\ \A v \in Worker \ {w} : item'[v] = item[v]
      /\ pc'[w] = "process" /\ \A v \in Worker \ {w} : pc'[v] = pc[v]
  BY <1>1 DEF TypeOK
<1>7. None \notin sent
  BY GraphAssumption DEF TypeOK
<1>8. ASSUME NEW l \in Inner
      PROVE  /\ On(l)' \subseteq sent' \ Arrived'
             /\ \A k \in Inner \ {l} : On(k)' \cap On(l)' = {}
  BY <1>1, <1>3, <1>4 DEF InOnePlace
<1>9. ASSUME NEW v \in Worker, item'[v] # None
      PROVE  /\ item'[v] \in sent' \ Arrived'
             /\ \A l \in Inner : item'[v] \notin On(l)'
             /\ \A u \in Worker \ {v} : item'[u] # item'[v]
  <2>1. CASE v = w
    BY <1>1, <1>3, <1>5, <1>6, <1>7, <2>1
  <2>2. CASE v # w
    <3>1. item[v] # None /\ item[v] # m
      BY <1>5, <1>6, <1>9, <2>2
    <3> QED
      BY <1>1, <1>3, <1>4, <1>6, <2>2, <3>1 DEF InOnePlace
  <2> QED
    BY <2>1, <2>2
<1>10. Arrived' \subseteq sent'
  BY <1>1, <1>3 DEF InOnePlace
<1>11. \A v \in Worker : pc'[v] # "process" => item'[v] = None
  BY <1>6 DEF InOnePlace
<1> QED
  BY <1>4, <1>8, <1>9, <1>10, <1>11 DEF InOnePlace

\* A worker that has given its item away, or dropped it.
LEMMA PlacesGiven ==
    ASSUME TypeOK, InOnePlace, NEW w \in Worker, NEW step,
           pc' = [pc EXCEPT ![w] = step], item' = [item EXCEPT ![w] = None], sent' = sent,
           Arrived \subseteq Arrived' /\ Arrived' \subseteq Arrived \cup {item[w]},
           item[w] # None,
           \A l \in Inner : Injective(queue'[l]) /\ On(l)' \subseteq On(l) \cup {item[w]},
           \A l, k \in Inner : item[w] \in On(l)' =>
                               item[w] \notin Arrived' /\ (k # l => item[w] \notin On(k)')
    PROVE  InOnePlace'
<1>1. /\ item'[w] = None /\ \A v \in Worker \ {w} : item'[v] = item[v] /\ pc'[v] = pc[v]
  BY DEF TypeOK
<1>2. Arrived' \subseteq sent'
  BY DEF InOnePlace
<1>3. ASSUME NEW l \in Inner
      PROVE  /\ On(l)' \subseteq sent' \ Arrived'
             /\ \A k \in Inner \ {l} : On(k)' \cap On(l)' = {}
  BY DEF InOnePlace
<1>4. ASSUME NEW v \in Worker, item'[v] # None
      PROVE  /\ item'[v] \in sent' \ Arrived'
             /\ \A l \in Inner : item'[v] \notin On(l)'
             /\ \A u \in Worker \ {v} : item'[u] # item'[v]
  <2>1. v # w /\ item'[v] = item[v] /\ item[v] # None /\ item[v] # item[w]
    BY <1>1, <1>4 DEF InOnePlace
  <2> QED
    BY <1>1, <2>1 DEF InOnePlace
<1>5. \A v \in Worker : pc'[v] # "process" => item'[v] = None
  BY <1>1 DEF InOnePlace
<1> QED
  BY <1>2, <1>3, <1>4, <1>5 DEF InOnePlace

LEMMA PlacesEmit ==
    ASSUME TypeOK, WorkersOrdered, InOnePlace, NEW w \in Worker, Emit(w)
    PROVE  InOnePlace'
<1>1. PICK l \in Out[Serves[w]] : queue' = [queue EXCEPT ![l] = Append(@, item[w])]
  BY DEF Emit
<1>2. /\ l \in Link /\ item[w] \in Item /\ item[w] # None
      /\ item' = [item EXCEPT ![w] = None] /\ pc' = [pc EXCEPT ![w] = "head"]
      /\ sent' = sent /\ received' = received
  BY GraphAssumption DEF Emit, WorkersOrdered, Goto, WorkerFrame, userVars
<1>3. item[w] \notin Arrived /\ \A k \in Inner : item[w] \notin On(k)
  BY <1>2 DEF InOnePlace
<1>4. /\ On(l)' = On(l) \cup {item[w]}
      /\ Injective(queue[l]) /\ item[w] \notin On(l) => Injective(queue'[l])
      /\ \A k \in Link \ {l} : queue'[k] = queue[k] /\ On(k)' = On(k)
      /\ l # OutputLink => Arrived' = Arrived
      /\ l = OutputLink => Arrived' = Arrived \cup {item[w]}
  BY <1>1, <1>2, PutOn
<1>5. \A k \in Inner : Injective(queue'[k]) /\ On(k)' \subseteq On(k) \cup {item[w]}
  BY <1>3, <1>4 DEF Inner, InOnePlace
<1>6. \A k, j \in Inner : item[w] \in On(k)' =>
                              item[w] \notin Arrived' /\ (j # k => item[w] \notin On(j)')
  <2>1. \A k \in Inner : item[w] \in On(k)' => k = l
    BY <1>3, <1>4 DEF Inner
  <2> QED
    BY <1>3, <1>4, <2>1 DEF Inner
<1> QED
  BY <1>2, <1>4, <1>5, <1>6, PlacesGiven

LEMMA PlacesFail ==
    ASSUME TypeOK, WorkersOrdered, InOnePlace, NEW w \in Worker, FailProcess(w)
    PROVE  InOnePlace'
<1>1. /\ queue' = queue /\ received' = received /\ sent' = sent /\ item[w] # None
      /\ item' = [item EXCEPT ![w] = None] /\ pc' = [pc EXCEPT ![w] = "leaving"]
  BY GraphAssumption DEF FailProcess, WorkersOrdered, Leave, Goto, WorkerFrame, userVars
<1>2. Output' = Output /\ \A l \in Inner : On(l)' = On(l)
  BY <1>1 DEF Output, On
<1>3. Arrived' = Arrived
  BY <1>2 DEF Arrived
<1>4. \A l \in Inner : Injective(queue'[l]) /\ item[w] \notin On(l)'
  BY <1>1, <1>2 DEF InOnePlace
<1> QED
  BY <1>1, <1>2, <1>3, <1>4, PlacesGiven

LEMMA PlacesReceive ==
    ASSUME TypeOK, InOnePlace, Receive
    PROVE  InOnePlace'
<1>1. Arrived' = Arrived
  BY ReceivedFrom
<1>2. /\ queue' = [queue EXCEPT ![OutputLink] = Tail(@)]
      /\ UNCHANGED <<item, pc, sent>>
  BY DEF Receive
<1>3. \A l \in Inner : queue'[l] = queue[l] /\ On(l)' = On(l)
  BY <1>2 DEF Inner, On, TypeOK
<1> QED
  BY <1>1, <1>2, <1>3 DEF InOnePlace

\* What a step does to the promise.
LEMMA PlacesStep ==
    ASSUME PipelineInv, InOnePlace, InputLink # OutputLink, [Next]_vars
    PROVE  InOnePlace'
<1>t. TypeOK /\ WorkersOrdered /\ OffersFresh
  BY DEF PipelineInv
<1>1. ASSUME NEW c \in Client, Send(c) PROVE InOnePlace'
  BY <1>t, <1>1, PlacesSend
<1>2. CASE Receive
  BY <1>t, <1>2, PlacesReceive
<1>3. ASSUME NEW w \in Worker, Works(w) PROVE InOnePlace'
  <2>1. CASE Take(w) \/ Emit(w) \/ FailProcess(w)
    BY <1>t, <2>1, PlacesTake, PlacesEmit, PlacesFail
  <2>2. CASE ~Take(w) /\ ~Emit(w) /\ ~FailProcess(w)
    <3>1. UNCHANGED <<queue, item, sent, received>>
      BY <1>3, <2>2 DEF Works, CheckAbort, PollDisconnected, PollTimeout, CheckAbortAgain,
         CheckTerminated, CheckShutdown, CheckEmpty, Return, WorkerFrame, userVars
    <3>2. /\ pc[w] # "process" /\ \A v \in Worker \ {w} : pc'[v] = pc[v]
      BY <1>t, <1>3, <2>2, WorkerEffect DEF Works, CheckAbort, PollDisconnected,
         PollTimeout, CheckAbortAgain, CheckTerminated, CheckShutdown, CheckEmpty, Return
    <3> QED
      BY <3>1, <3>2, PlacesQuiet
  <2> QED
    BY <2>1, <2>2
<1>4. CASE Supervisor \/ Over \/ UNCHANGED vars \/ Shutdown \/ Abort
           \/ \E c \in Client, m \in Item : Offer(c, m)
  <2>1. UNCHANGED <<queue, item, pc, sent, received>>
    BY <1>4 DEF Supervisor, CloseLinks, Finish, Hear, Over, Shutdown, Abort, Offer, vars,
       userVars, workVars
  <2> QED
    BY <2>1, PlacesQuiet
<1> QED
  BY <1>1, <1>2, <1>3, <1>4 DEF Next, Users

-----------------------------------------------------------------------------
(* What becomes of an item.                                                *)

Lost == sent \ (InFlight \cup Arrived)
Awaited(l) == \E r \in Readers(l) : InLoop(r)

LEMMA Flying ==
    \A m : m \in InFlight <=> \/ \E w \in Worker : item[w] = m
                              \/ \E l \in Link : Awaited(l) /\ m \in On(l)
BY DEF InFlight, Awaited

LEMMA OutputNotAwaited == ~Awaited(OutputLink)
BY GraphAssumption DEF Awaited, Readers, Source

\* Until the pipeline stops every worker is in its loop.
LEMMA AwaitedFirst ==
    ASSUME StopsFirst, ~Stopped, NEW l, Readers(l) # {}
    PROVE  Awaited(l)
<1>1. PICK r \in Worker : r \in Readers(l)
  BY DEF Readers
<1>2. InLoop(r)
  BY DEF StopsFirst, InLoop
<1> QED
  BY <1>1, <1>2 DEF Awaited

\* A step that delivers and accepts nothing loses items only if it stops.
LEMMA LosesWhenStopped ==
    ASSUME TypeOK, sent' = sent, Output' = Output, StopsFirst', Stopped => Stopped',
           InFlight' \subseteq InFlight \cup {None},
           ~Stopped' => InFlight \subseteq InFlight' \cup {None}
    PROVE  [Promise!Next]_Promise!vars
<1>1. None \notin sent /\ sent \subseteq Item
  BY GraphAssumption DEF TypeOK
<1>2. Arrived' = Arrived /\ Promise!Arrived = Arrived
  BY DEF Arrived, Promise!Arrived
<1>3. /\ Lost \subseteq Lost' /\ Lost' \subseteq sent \ Arrived
      /\ ~Stopped' => Lost' = Lost
  BY <1>1, <1>2 DEF Lost
<1>4. CASE ~Stopped'
  <2>1. Lost' = Lost /\ Stopped' = Stopped
    BY <1>3, <1>4 DEF Stopped
  <2> QED
    BY <2>1 DEF Promise!vars, Lost, Stopped
<1>5. CASE Stopped'
  <2>1. PICK gone \in SUBSET Item : gone = Lost' \ Lost
    BY <1>1, <1>3
  <2>2. /\ gone \subseteq sent \ (Arrived \cup Lost) /\ Lost' = Lost \cup gone
        /\ Stopped' = TRUE
    BY <1>3, <1>5, <2>1 DEF Stopped
  <2>3. Promise!Lose(gone)
    BY <1>2, <2>2 DEF Promise!Lose, Lost, Stopped
  <2> QED
    BY <2>3 DEF Promise!Next
<1> QED
  BY <1>4, <1>5

LEMMA QuietDelivers ==
    ASSUME TypeOK, StopsFirst', Stopped => Stopped',
           UNCHANGED <<queue, item, left, sent, received>>
    PROVE  [Promise!Next]_Promise!vars
<1>1. Output' = Output /\ InFlight' = InFlight
  BY DEF Output, InFlight, On, InLoop, Readers, Source
<1> QED
  BY <1>1, LosesWhenStopped

LEMMA SendDelivers ==
    ASSUME DeliverInv, Plumbed, StopsFirst', Stopped => Stopped', NEW c \in Client, Send(c)
    PROVE  [Promise!Next]_Promise!vars
<1> DEFINE m == offer[c]
<1>1. /\ TypeOK /\ m \in Item /\ m \notin sent /\ InputLink \in Link /\ OutputLink # InputLink
      /\ queue' = [queue EXCEPT ![InputLink] = Append(@, m)] /\ sent' = sent \cup {m}
      /\ UNCHANGED <<received, item, left, shutdown, abort>>
  BY GraphAssumption DEF DeliverInv, PipelineInv, Send, TypeOK, OffersFresh, Plumbed, flags
<1> HIDE DEF m
<1>2. /\ On(InputLink)' = On(InputLink) \cup {m}
      /\ \A k \in Link \ {InputLink} : On(k)' = On(k)
      /\ Output' = Output /\ Arrived' = Arrived
  BY <1>1, PutOn
<1>3. Stopped' = Stopped /\ \A l \in Link : Awaited(l)' = Awaited(l)
  BY <1>1 DEF Stopped, Awaited, InLoop, Readers, Source
<1>4. m \notin Arrived /\ m \notin InFlight
  <2>1. \A l \in Inner : m \notin On(l)
    BY <1>1 DEF DeliverInv, InOnePlace
  <2>2. \A w \in Worker : item[w] # m
    BY <1>1, GraphAssumption DEF DeliverInv, InOnePlace
  <2> QED
    BY <1>1, <2>1, <2>2, Flying, OutputNotAwaited DEF DeliverInv, InOnePlace, Inner
<1>5. \A x : x \in InFlight' <=> x \in InFlight \/ (Awaited(InputLink) /\ x = m)
  <2>1. \A x : x \in InFlight' <=> \/ \E w \in Worker : item[w] = x
                                   \/ \E l \in Link : Awaited(l) /\ x \in On(l)'
    BY <1>1, <1>3 DEF InFlight, Awaited
  <2> QED
    BY <1>1, <1>2, <2>1, Flying
<1>6. CASE Awaited(InputLink)
  <2>1. Lost' = Lost
    BY <1>1, <1>2, <1>4, <1>5, <1>6 DEF Lost
  <2>2. Promise!Accept(m)
    BY <1>1, <1>2, <1>3, <2>1 DEF Promise!Accept, Lost, Stopped
  <2> QED
    BY <1>1, <2>2 DEF Promise!Next
<1>7. CASE ~Awaited(InputLink)
  <2>1. Lost' = Lost \cup {m}
    BY <1>1, <1>2, <1>4, <1>5, <1>7 DEF Lost
  <2>2. Stopped
    BY <1>7, AwaitedFirst DEF DeliverInv, Plumbed
  <2>3. Promise!AcceptInVain(m)
    BY <1>1, <1>2, <1>3, <2>1, <2>2 DEF Promise!AcceptInVain, Lost, Stopped
  <2> QED
    BY <1>1, <2>3 DEF Promise!Next
<1> QED
  BY <1>6, <1>7

LEMMA TakeDelivers ==
    ASSUME DeliverInv, StopsFirst', Stopped => Stopped', NEW w \in Worker, Take(w)
    PROVE  [Promise!Next]_Promise!vars
<1> DEFINE s == Source(w)
           m == Head(queue[s])
<1>1. /\ TypeOK /\ s \in Inner /\ s \in Link /\ queue[s] # <<>>
      /\ queue' = [queue EXCEPT ![s] = Tail(@)] /\ item' = [item EXCEPT ![w] = m]
      /\ sent' = sent /\ received' = received /\ left' = left
      /\ w \in Readers(s) /\ InLoop(w) /\ item[w] = None
  BY GraphAssumption DEF DeliverInv, PipelineInv, Take, Source, Inner, Readers, InLoop,
     WorkersOrdered, OutOfLoop, InOnePlace, WorkerFrame, userVars
<1>2. /\ On(s) = {m} \cup On(s)'
      /\ \A k \in Link \ {s} : queue'[k] = queue[k] /\ On(k)' = On(k)
  BY <1>1, TakenFrom
<1> HIDE DEF s, m
<1>3. Output' = Output
  BY <1>1, <1>2, GraphAssumption DEF Output, Inner
<1>4. Awaited(s) /\ \A l \in Link : Awaited(l)' = Awaited(l)
  BY <1>1 DEF Awaited, InLoop, Readers, Source
<1>5. item'[w] = m /\ \A v \in Worker \ {w} : item'[v] = item[v]
  BY <1>1 DEF TypeOK
<1>6. \A x : x \in InFlight' <=> \/ \E v \in Worker : item'[v] = x
                                 \/ \E l \in Link : Awaited(l) /\ x \in On(l)'
  BY <1>4 DEF InFlight, Awaited
<1>7. \A x : x \in InFlight' => x \in InFlight
  BY <1>1, <1>2, <1>4, <1>5, <1>6, Flying
<1>8. \A x : x \in InFlight => x = None \/ x \in InFlight'
  BY <1>1, <1>2, <1>4, <1>5, <1>6, Flying
<1> QED
  BY <1>1, <1>3, <1>7, <1>8, LosesWhenStopped

LEMMA EmitDelivers ==
    ASSUME DeliverInv, Plumbed, StopsFirst', Stopped => Stopped', NEW w \in Worker, Emit(w)
    PROVE  [Promise!Next]_Promise!vars
<1> DEFINE m == item[w]
<1>1. PICK l \in Out[Serves[w]] : queue' = [queue EXCEPT ![l] = Append(@, m)]
  BY DEF Emit
<1>2. /\ TypeOK /\ l \in Link /\ m \in Item /\ m # None
      /\ item' = [item EXCEPT ![w] = None]
      /\ UNCHANGED <<sent, received, left, shutdown, abort>>
  BY GraphAssumption DEF DeliverInv, PipelineInv, Emit, WorkersOrdered, WorkerFrame,
     userVars, flags
<1>3. /\ m \in sent \ Arrived /\ \A k \in Inner : m \notin On(k)
      /\ \A v \in Worker \ {w} : item[v] # m
  BY <1>2 DEF DeliverInv, InOnePlace
<1>4. /\ item[w] = m /\ item'[w] = None /\ \A v \in Worker \ {w} : item'[v] = item[v]
  BY <1>2 DEF TypeOK
<1> HIDE DEF m
<1>5. /\ On(l)' = On(l) \cup {m}
      /\ \A k \in Link \ {l} : On(k)' = On(k)
      /\ l # OutputLink => Output' = Output
      /\ l = OutputLink => Output' = Append(Output, m) /\ Arrived' = Arrived \cup {m}
  BY <1>1, <1>2, PutOn
<1>6. \A k \in Link : Awaited(k)' = Awaited(k)
  BY <1>2 DEF Awaited, InLoop, Readers, Source
<1>7. m \in InFlight
  BY <1>4, Flying
<1>8. \A x : x \in InFlight' <=> \/ \E v \in Worker : item'[v] = x
                                 \/ \E k \in Link : Awaited(k) /\ x \in On(k)'
  BY <1>6 DEF InFlight, Awaited
<1>9. CASE l # OutputLink
  <2>1. \A x : x \in InFlight' => x = None \/ x \in InFlight
    BY <1>4, <1>5, <1>7, <1>8, Flying
  <2>2. ASSUME ~Stopped' PROVE \A x : x \in InFlight => x = None \/ x \in InFlight'
    <3>1. Awaited(l)
      BY <1>1, <1>9, <2>2, AwaitedFirst DEF DeliverInv, Plumbed
    <3> QED
      BY <1>2, <1>4, <1>5, <1>8, <3>1, Flying
  <2> QED
    BY <1>2, <1>5, <1>9, <2>1, <2>2, LosesWhenStopped
<1>10. CASE l = OutputLink
  <2>1. \A k \in Link : Awaited(k) => On(k)' = On(k) /\ m \notin On(k)
    BY <1>3, <1>5, <1>10, OutputNotAwaited DEF Inner
  <2>2. \A x : x # None => (x \in InFlight <=> x \in InFlight' \/ x = m)
    BY <1>4, <1>8, <2>1, Flying
  <2>3. m \notin InFlight'
    BY <1>2, <1>3, <1>4, <1>8, <2>1
  <2>4. None \notin sent
    BY <1>2, GraphAssumption DEF TypeOK
  <2>5. Lost' = Lost /\ m \notin Lost
    BY <1>2, <1>5, <1>7, <1>10, <2>2, <2>4 DEF Lost
  <2>6. Promise!Arrived = Arrived /\ Stopped' = Stopped
    BY <1>2 DEF Promise!Arrived, Arrived, Stopped
  <2>7. Promise!Deliver(m)
    BY <1>2, <1>3, <1>5, <1>10, <2>5, <2>6 DEF Promise!Deliver, Lost, Stopped
  <2> QED
    BY <1>2, <2>7 DEF Promise!Next
<1> QED
  BY <1>9, <1>10

\* Every other step of a worker.
LEMMA LeaveDelivers ==
    ASSUME DeliverInv, StopsFirst', Stopped => Stopped', NEW w \in Worker, Works(w),
           ~Take(w), ~Emit(w)
    PROVE  [Promise!Next]_Promise!vars
<1>1. /\ TypeOK /\ UNCHANGED <<queue, sent, received>>
      /\ item' = item \/ item' = [item EXCEPT ![w] = None]
  BY DEF DeliverInv, PipelineInv, Works, CheckAbort, FailProcess, PollDisconnected,
     PollTimeout, CheckAbortAgain, CheckTerminated, CheckShutdown, CheckEmpty, Return,
     WorkerFrame, userVars
<1>2. Output' = Output /\ \A l : On(l)' = On(l)
  BY <1>1 DEF Output, On
<1>3. CASE Stays(w) \/ Returns(w)
  <2>1. left' = left
    BY <1>3 DEF Stays, Returns
  <2>2. CASE FailProcess(w)
    BY <1>3, <2>2 DEF Stays, Returns, FailProcess, Leave, Goto, OutOfLoop, DeliverInv,
       PipelineInv, TypeOK
  <2>3. CASE ~FailProcess(w)
    <3>1. item' = item
      BY <2>3 DEF Works, CheckAbort, PollDisconnected, PollTimeout, CheckAbortAgain,
         CheckTerminated, CheckShutdown, CheckEmpty, Return
    <3> QED
      BY <1>1, <2>1, <3>1, QuietDelivers
  <2> QED
    BY <2>2, <2>3
<1>4. ASSUME NEW how \in {"graceful", "aborted", "failed"}, Leaves(w, how)
      PROVE  [Promise!Next]_Promise!vars
  <2>1. left'[w] # None /\ left[w] = None /\ \A v \in Worker \ {w} : left'[v] = left[v]
    BY <1>1, <1>4 DEF Leaves, DeliverInv, PipelineInv, WorkersOrdered, TypeOK, None
  <2>2. Stopped'
    BY <2>1 DEF StopsFirst
  <2>3. \A l \in Link : Awaited(l)' => Awaited(l)
    BY <2>1 DEF Awaited, InLoop, Readers, Source
  <2>4. \A x : x \in InFlight' => \/ \E v \in Worker : item'[v] = x
                                  \/ \E l \in Link : Awaited(l)' /\ x \in On(l)'
    BY DEF InFlight, Awaited
  <2>5. \A v \in Worker : item'[v] = item[v] \/ item'[v] = None
    BY <1>1 DEF TypeOK
  <2>6. InFlight' \subseteq InFlight \cup {None}
    BY <1>2, <2>3, <2>4, <2>5, Flying
  <2> QED
    BY <1>1, <1>2, <2>2, <2>6, LosesWhenStopped
<1> QED
  BY <1>1, <1>3, <1>4, WorkerEffect

LEMMA ReceiveDelivers ==
    ASSUME DeliverInv, StopsFirst', Stopped => Stopped', Receive
    PROVE  [Promise!Next]_Promise!vars
<1>1. /\ TypeOK /\ queue' = [queue EXCEPT ![OutputLink] = Tail(@)]
      /\ UNCHANGED <<item, left, sent>> /\ Output' = Output
  BY ReceivedFrom DEF DeliverInv, PipelineInv, Receive
<1>2. \A l \in Link \ {OutputLink} : On(l)' = On(l)
  BY <1>1 DEF On, TypeOK
<1>3. \A l \in Link : Awaited(l)' = Awaited(l)
  BY <1>1 DEF Awaited, InLoop, Readers, Source
<1>4. \A x : x \in InFlight' <=> \/ \E v \in Worker : item[v] = x
                                 \/ \E l \in Link : Awaited(l) /\ x \in On(l)'
  BY <1>1, <1>3 DEF InFlight, Awaited
<1>5. \A x : x \in InFlight' <=> x \in InFlight
  BY <1>2, <1>4, Flying, OutputNotAwaited
<1> QED
  BY <1>1, <1>5, LosesWhenStopped

LEMMA StepDelivers ==
    ASSUME DeliverInv, Plumbed, [Next]_vars
    PROVE  DeliverInv' /\ [Promise!Next]_Promise!vars
<1>1. DeliverInv' /\ (Stopped => Stopped')
  BY InvStep, StopsStep, PlacesStep DEF DeliverInv, PipelineInv, Plumbed
<1>2. StopsFirst' /\ (Stopped => Stopped') /\ TypeOK
  BY <1>1 DEF DeliverInv, PipelineInv
<1>3. CASE Supervisor \/ Over \/ UNCHANGED vars \/ Shutdown \/ Abort
           \/ \E c \in Client, m \in Item : Offer(c, m)
  <2>1. UNCHANGED <<queue, item, left, sent, received>>
    BY <1>3 DEF Supervisor, CloseLinks, Finish, Hear, Over, Shutdown, Abort, Offer, vars,
       userVars, workVars
  <2> QED
    BY <1>1, <1>2, <2>1, QuietDelivers
<1>4. ASSUME NEW w \in Worker, Works(w) PROVE [Promise!Next]_Promise!vars
  BY <1>2, <1>4, TakeDelivers, EmitDelivers, LeaveDelivers
<1>5. ASSUME NEW c \in Client, Send(c) PROVE [Promise!Next]_Promise!vars
  BY <1>2, <1>5, SendDelivers
<1>6. ASSUME Receive PROVE [Promise!Next]_Promise!vars
  BY <1>2, <1>6, ReceiveDelivers
<1> QED
  BY <1>1, <1>3, <1>4, <1>5, <1>6 DEF Next, Users

\* A pipeline implements Delivery: whatever its graph, its number of workers
\* and their interleaving, every item send() accepts is delivered at most once,
\* and none is lost before shutdown, abort or a failure.
THEOREM PipelineDelivers == ASSUME Plumbed PROVE Spec => DeliversOnce
<1>1. Init => DeliverInv
  <2> SUFFICES ASSUME Init PROVE DeliverInv
    OBVIOUS
  <2>1. StopsFirst
    BY DEF Init, StopsFirst
  <2>2. Output = <<>> /\ \A l \in Link : queue[l] = <<>>
    BY GraphAssumption DEF Init, Output
  <2>3. Arrived = {} /\ \A l \in Link : On(l) = {} /\ Injective(queue[l])
    BY <2>2 DEF Arrived, On, Injective
  <2>4. InOnePlace
    BY <2>3 DEF Init, InOnePlace, Inner
  <2> QED
    BY InvInit, <2>1, <2>4 DEF DeliverInv
<1>2. Init => Promise!Init
  <2> SUFFICES ASSUME Init PROVE Promise!Init
    OBVIOUS
  <2>1. Output = <<>>
    BY GraphAssumption DEF Init, Output
  <2>2. sent = {} /\ Stopped = FALSE
    BY DEF Init, Stopped, None
  <2> QED
    BY <2>1, <2>2 DEF Promise!Init, Stopped
<1>3. DeliverInv /\ [Next]_vars => DeliverInv' /\ [Promise!Next]_Promise!vars
  BY StepDelivers
<1> QED
  BY <1>1, <1>2, <1>3, PTL DEF Spec, DeliversOnce, Promise!Spec
=============================================================================
