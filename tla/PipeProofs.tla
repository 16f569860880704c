----------------------------- MODULE PipeProofs -----------------------------
(***************************************************************************)
(* Proofs about Pipe: what a successful join means, and that a Pipe         *)
(* implements Delivery, for every number of workers, clients and messages.  *)
(***************************************************************************)
EXTENDS Pipe, SequenceTheorems, TLAPS

\* A message is in one place: on the channel once, in one worker, or processed.
InOnePlace ==
    /\ Waiting \cup Finished \subseteq sent /\ Waiting \cap Finished = {}
    /\ \A i, j \in 1..Len(queue) : queue[i] = queue[j] => i = j
    /\ \A w \in Worker :
         /\ pc[w] = "process" <=> msg[w] # None
         /\ msg[w] # None => msg[w] \in sent \ (Waiting \cup Finished)
         /\ \A v \in Worker \ {w} : msg[w] # None => msg[v] # msg[w]

\* Without a failure no accepted message is anywhere else.
AllPlaced == ~Failed => sent \subseteq Waiting \cup Finished \cup InHand

\* Before it is started nobody uses the channel; a worker that stops without a
\* cancel has seen it closed.
Settled ==
    /\ owner = "new" =>
         /\ client = {} /\ sent = {} /\ queue = <<>>
         /\ \A w \in Worker : w >= next => pc[w] = "unborn"
    /\ owner = "not started" => client = {} /\ sent = {}
    /\ \A w \in Worker :
         pc[w] \in {"finalize", "ok"} => cancel \/ (SendersGone /\ queue = <<>>)

\* join has taken the results of the workers before the next.
Joined ==
    /\ owner = "open" => next = 1
    /\ owner = "joining" => \A w \in Worker : w < next => pc[w] = "ok"
    /\ owner = "ok" => \A w \in Worker : pc[w] = "ok"

PipeInv == TypeOK /\ InOnePlace /\ AllPlaced /\ Settled /\ Joined

-----------------------------------------------------------------------------
(* Sequences without repetition.                                           *)

Elements(s) == {s[i] : i \in 1..Len(s)}
Injective(s) == \A i, j \in 1..Len(s) : s[i] = s[j] => i = j

\* What a send adds.
LEMMA AppendPlaces ==
    ASSUME NEW S, NEW s \in Seq(S), NEW e \in S
    PROVE  /\ Append(s, e) \in Seq(S)
           /\ Elements(Append(s, e)) = Elements(s) \cup {e}
           /\ Injective(s) /\ e \notin Elements(s) => Injective(Append(s, e))
<1> DEFINE t == Append(s, e)
<1>1. t \in Seq(S) /\ Len(t) = Len(s) + 1 /\ t[Len(s) + 1] = e
      /\ \A i \in 1..Len(s) : t[i] = s[i]
  OBVIOUS
<1>2. Len(s) \in Nat
  OBVIOUS
<1>3. 1..Len(t) = 1..Len(s) \cup {Len(s) + 1}
  BY <1>1, <1>2
<1> HIDE DEF t
<1>4. Elements(t) = Elements(s) \cup {e}
  BY <1>1, <1>3 DEF Elements
<1>5. ASSUME Injective(s), e \notin Elements(s), NEW i \in 1..Len(t), NEW j \in 1..Len(t),
             t[i] = t[j]
      PROVE  i = j
  <2>1. CASE i \in 1..Len(s) /\ j \in 1..Len(s)
    BY <1>1, <1>5, <2>1 DEF Injective
  <2>2. CASE i = Len(s) + 1 \/ j = Len(s) + 1
    BY <1>1, <1>3, <1>5, <2>2 DEF Elements
  <2> QED
    BY <1>3, <2>1, <2>2
<1>6. Injective(s) /\ e \notin Elements(s) => Injective(t)
  BY <1>5 DEF Injective
<1> QED
  BY <1>1, <1>4, <1>6 DEF t

\* What a receive takes.
LEMMA TailPlaces ==
    ASSUME NEW S, NEW s \in Seq(S), s # <<>>
    PROVE  /\ Head(s) \in S /\ Tail(s) \in Seq(S)
           /\ Elements(s) = {Head(s)} \cup Elements(Tail(s))
           /\ Injective(s) => Injective(Tail(s)) /\ Head(s) \notin Elements(Tail(s))
<1> DEFINE t == Tail(s)
<1>1. t \in Seq(S) /\ Len(t) = Len(s) - 1 /\ Head(s) = s[1] /\ Head(s) \in S
      /\ \A i \in 1..Len(s) - 1 : t[i] = s[i + 1]
  OBVIOUS
<1>2. Len(s) \in Nat /\ Len(s) >= 1
  OBVIOUS
<1> HIDE DEF t
<1>3. \A i \in 1..Len(s) : i = 1 \/ (i - 1 \in 1..Len(t) /\ t[i - 1] = s[i])
  BY <1>1, <1>2
<1>4. \A i \in 1..Len(t) : i + 1 \in 1..Len(s) /\ t[i] = s[i + 1]
  BY <1>1, <1>2
<1>5. 1 \in 1..Len(s)
  BY <1>2
<1>6. Elements(s) = {Head(s)} \cup Elements(t)
  BY <1>1, <1>3, <1>4, <1>5 DEF Elements
<1>7. ASSUME Injective(s) PROVE Injective(t) /\ Head(s) \notin Elements(t)
  <2>1. Injective(t)
    BY <1>2, <1>4, <1>7 DEF Injective
  <2>2. \A i \in 1..Len(t) : s[i + 1] # s[1]
    BY <1>4, <1>5, <1>7 DEF Injective
  <2> QED
    BY <2>1, <2>2, <1>1, <1>4 DEF Elements
<1> QED
  BY <1>1, <1>6, <1>7 DEF t

LEMMA EmptyPlaces == Elements(<<>>) = {} /\ Injective(<<>>)
BY DEF Elements, Injective

-----------------------------------------------------------------------------
(* Types.                                                                  *)

LEMMA TypeInit == Init => TypeOK
<1> SUFFICES ASSUME Init PROVE TypeOK
  OBVIOUS
<1>1. <<>> \in Seq(Message)
  OBVIOUS
<1>2. next \in 1..NumWorkers + 1
  BY PipeAssumption DEF Init
<1> QED
  BY <1>1, <1>2 DEF Init, TypeOK, Steps, Ended, Bad

\* The steps of new, join and the users.
Owner == Spawn \/ FailSpawn \/ Started \/ Join \/ Joins \/ Cancel
Clients == \E c \in Client : DropSender(c) \/ \E m \in Message : Send(c, m)

LEMMA TypeStep ==
    ASSUME TypeOK, InOnePlace, [Next]_vars
    PROVE  TypeOK'
<1>n. NumWorkers \in Nat /\ next \in 1..NumWorkers + 1
  BY PipeAssumption DEF TypeOK
<1> USE DEF users, workers
<1>1. CASE Owner
  <2>1. CASE Spawn
    <3>1. next' \in 1..NumWorkers + 1
      BY <1>n, <2>1 DEF Spawn, Worker
    <3> QED
      BY <2>1, <3>1 DEF Spawn, TypeOK, Steps
  <2>2. CASE FailSpawn \/ Join \/ Cancel
    BY <2>2 DEF FailSpawn, Join, Cancel, TypeOK
  <2>3. CASE Started
    <3>1. next' \in 1..NumWorkers + 1
      BY <1>n, <2>3 DEF Started
    <3> QED
      BY <2>3, <3>1 DEF Started, TypeOK
  <2>4. CASE JoinWorker
    <3>1. next' \in 1..NumWorkers + 1
      BY <1>n, <2>4 DEF JoinWorker, Worker
    <3> QED
      BY <2>4, <3>1 DEF JoinWorker, TypeOK, Ended
  <2>5. CASE JoinDone
    BY <2>5 DEF JoinDone, TypeOK, Ended
  <2> QED
    BY <1>1, <2>1, <2>2, <2>3, <2>4, <2>5 DEF Owner, Joins
<1>2. CASE Clients
  <2>1. ASSUME NEW c \in Client, DropSender(c) PROVE TypeOK'
    BY <2>1 DEF DropSender, TypeOK
  <2>2. ASSUME NEW c \in Client, NEW m \in Message, Send(c, m) PROVE TypeOK'
    <3>1. Append(queue, m) \in Seq(Message)
      BY AppendPlaces DEF TypeOK
    <3>2. UNCHANGED <<pc, msg, processed, cancel, owner, next, client>>
      BY <2>2 DEF Send
    <3>3. queue' \in Seq(Message) /\ sent' \subseteq Message /\ refused' \subseteq Message
      BY <2>2, <3>1 DEF Send, TypeOK
    <3> QED
      BY <3>2, <3>3 DEF TypeOK
  <2> QED
    BY <1>2, <2>1, <2>2 DEF Clients
<1>3. ASSUME NEW w \in Worker, Works(w) PROVE TypeOK'
  <2>f. UNCHANGED <<cancel, owner, next, client, sent, refused>>
    BY <1>3 DEF Works, InitStorage, CheckCancel, Receive, Timeout, Closed, Process,
       Finalize, UserFails, Frame
  <2>1. pc' \in [Worker -> Steps]
    BY <1>3 DEF TypeOK, Works, InitStorage, CheckCancel, Receive, Timeout, Closed, Process,
       Finalize, UserFails, Goto, Steps, Ended
  <2>2. CASE Receive(w)
    <3>1. Head(queue) \in Message /\ Tail(queue) \in Seq(Message)
      BY <2>2, TailPlaces DEF Receive, TypeOK
    <3> QED
      BY <2>2, <2>f, <2>1, <3>1 DEF Receive, TypeOK
  <2>3. CASE Process(w)
    <3>1. msg[w] \in Message
      BY <2>3 DEF Process, TypeOK, InOnePlace
    <3>2. Append(processed, msg[w]) \in Seq(Message)
      BY <3>1, AppendPlaces DEF TypeOK
    <3> QED
      BY <2>3, <2>f, <2>1, <3>2 DEF Process, TypeOK
  <2>4. CASE UserFails(w)
    <3>1. msg' \in [Worker -> Message \cup {None}] /\ UNCHANGED <<queue, processed>>
      BY <2>4 DEF UserFails, TypeOK
    <3> QED
      BY <2>f, <2>1, <3>1 DEF TypeOK
  <2>5. CASE ~Receive(w) /\ ~Process(w) /\ ~UserFails(w)
    <3>1. UNCHANGED <<queue, msg, processed>>
      BY <1>3, <2>5 DEF Works, InitStorage, CheckCancel, Timeout, Closed, Finalize, Quiet
    <3> QED
      BY <2>f, <2>1, <3>1 DEF TypeOK
  <2> QED
    BY <2>2, <2>3, <2>4, <2>5
<1>4. CASE UNCHANGED vars
  BY <1>4 DEF vars, TypeOK
<1> QED
  BY <1>1, <1>2, <1>3, <1>4 DEF Next, Owner, Clients

-----------------------------------------------------------------------------
(* Where the messages are.                                                 *)

Places == <<queue, pc, msg, processed, sent>>

LEMMA PlacesInit == Init => InOnePlace /\ AllPlaced
<1> SUFFICES ASSUME Init PROVE InOnePlace /\ AllPlaced
  OBVIOUS
<1>1. Waiting = {} /\ Finished = {}
  BY DEF Init, Waiting, Finished
<1>2. InOnePlace
  BY <1>1 DEF Init, InOnePlace, None
<1>3. AllPlaced
  BY <1>1 DEF Init, AllPlaced
<1> QED
  BY <1>2, <1>3

\* The steps that leave the messages and the workers alone.
LEMMA PlacesKept ==
    ASSUME InOnePlace, AllPlaced, UNCHANGED <<queue, msg, processed, sent>>,
           \A w \in Worker : (pc'[w] = "process") <=> (pc[w] = "process"),
           \A w \in Worker : pc[w] \in Bad => pc'[w] \in Bad
    PROVE  InOnePlace' /\ AllPlaced'
<1>1. Waiting' = Waiting /\ Finished' = Finished /\ InHand' = InHand
  BY DEF Waiting, Finished, InHand
<1>2. Failed => Failed'
  BY DEF Failed
<1>3. InOnePlace'
  BY <1>1 DEF InOnePlace
<1>4. AllPlaced'
  BY <1>1, <1>2 DEF AllPlaced
<1> QED
  BY <1>3, <1>4

LEMMA PlacesSend ==
    ASSUME TypeOK, InOnePlace, AllPlaced, NEW c \in Client, NEW m \in Message, Send(c, m)
    PROVE  InOnePlace' /\ AllPlaced'
<1>1. UNCHANGED <<pc, msg, processed>> /\ m \notin sent
  BY DEF Send, workers
<1>2. CASE ~Open
  BY <1>1, <1>2, PlacesKept DEF Send
<1>3. CASE Open
  <2>1. queue' = Append(queue, m) /\ sent' = sent \cup {m} /\ queue \in Seq(Message)
    BY <1>3 DEF Send, TypeOK
  <2>2. Waiting = Elements(queue) /\ Waiting' = Elements(queue')
    BY DEF Waiting, Elements
  <2>3. Waiting' = Waiting \cup {m}
    BY <2>1, <2>2, AppendPlaces
  <2>4. Finished' = Finished /\ InHand' = InHand /\ (Failed' <=> Failed)
    BY <1>1 DEF Finished, InHand, Failed
  <2>5. Injective(queue')
    <3>1. Injective(queue) /\ m \notin Elements(queue)
      BY <1>1, <2>2 DEF InOnePlace, Injective
    <3> QED
      BY <2>1, <3>1, AppendPlaces
  <2>6. InOnePlace'
    BY <1>1, <2>1, <2>3, <2>4, <2>5 DEF InOnePlace, Injective
  <2>7. AllPlaced'
    BY <1>1, <2>1, <2>3, <2>4 DEF AllPlaced
  <2> QED
    BY <2>6, <2>7
<1> QED
  BY <1>2, <1>3

LEMMA PlacesReceive ==
    ASSUME TypeOK, InOnePlace, AllPlaced, NEW w \in Worker, Receive(w)
    PROVE  /\ InOnePlace' /\ AllPlaced'
           /\ Waiting = Waiting' \cup {Head(queue)} /\ Finished' = Finished
           /\ msg' = [msg EXCEPT ![w] = Head(queue)] /\ msg[w] = None
<1>1. /\ msg' = [msg EXCEPT ![w] = Head(queue)] /\ queue' = Tail(queue)
      /\ pc' = [pc EXCEPT ![w] = "process"] /\ pc[w] = "recv"
      /\ UNCHANGED <<processed, sent>> /\ queue # <<>>
  BY DEF Receive, Goto, Frame, users
<1>2. queue \in Seq(Message) /\ pc \in [Worker -> Steps]
      /\ msg \in [Worker -> Message \cup {None}] /\ None \notin Message
  BY PipeAssumption DEF TypeOK
<1>3. Waiting = Elements(queue) /\ Waiting' = Elements(queue') /\ Injective(queue)
  BY DEF Waiting, Elements, Injective, InOnePlace
<1>4. /\ Head(queue) \in Message /\ Waiting = {Head(queue)} \cup Waiting'
      /\ Injective(queue') /\ Head(queue) \notin Waiting'
  BY <1>1, <1>2, <1>3, TailPlaces
<1>5. Finished' = Finished
  BY <1>1 DEF Finished
<1>6. msg[w] = None
  BY <1>1 DEF InOnePlace
<1>7. InOnePlace'
  <2>1. /\ Waiting' \cup Finished' \subseteq sent' /\ Waiting' \cap Finished' = {}
        /\ \A i, j \in 1..Len(queue') : queue'[i] = queue'[j] => i = j
    BY <1>1, <1>4, <1>5 DEF InOnePlace, Injective
  <2>2. ASSUME NEW v \in Worker
        PROVE  /\ pc'[v] = "process" <=> msg'[v] # None
               /\ msg'[v] # None => msg'[v] \in sent' \ (Waiting' \cup Finished')
               /\ \A u \in Worker \ {v} : msg'[v] # None => msg'[u] # msg'[v]
    BY <1>1, <1>2, <1>4, <1>5 DEF InOnePlace
  <2> QED
    BY <2>1, <2>2 DEF InOnePlace
<1>8. AllPlaced'
  <2>1. Failed => Failed'
    BY <1>1, <1>2 DEF Failed, Bad
  <2>2. InHand \subseteq InHand' \cup {None}
    BY <1>1, <1>2, <1>6 DEF InHand
  <2>3. Head(queue) \in InHand'
    BY <1>1, <1>2 DEF InHand
  <2>4. None \notin sent
    BY <1>2 DEF TypeOK
  <2> QED
    BY <1>1, <1>4, <1>5, <2>1, <2>2, <2>3, <2>4 DEF AllPlaced
<1> QED
  BY <1>1, <1>4, <1>5, <1>6, <1>7, <1>8

LEMMA PlacesProcess ==
    ASSUME TypeOK, InOnePlace, AllPlaced, NEW w \in Worker, Process(w)
    PROVE  /\ InOnePlace' /\ AllPlaced'
           /\ msg[w] \in sent \ Finished /\ Waiting' = Waiting
           /\ Finished' = Finished \cup {msg[w]} /\ msg' = [msg EXCEPT ![w] = None]
<1>1. /\ msg' = [msg EXCEPT ![w] = None] /\ processed' = Append(processed, msg[w])
      /\ pc' = [pc EXCEPT ![w] = "head"] /\ pc[w] = "process"
      /\ UNCHANGED <<queue, sent>>
  BY DEF Process, Goto, Frame, users
<1>2. processed \in Seq(Message) /\ pc \in [Worker -> Steps]
      /\ msg \in [Worker -> Message \cup {None}] /\ None \notin Message
  BY PipeAssumption DEF TypeOK
<1>3. msg[w] # None /\ msg[w] \in Message /\ msg[w] \in sent \ (Waiting \cup Finished)
  BY <1>1, <1>2 DEF InOnePlace
<1>4. Waiting' = Waiting
  BY <1>1 DEF Waiting
<1>5. Finished' = Finished \cup {msg[w]}
  BY <1>1, <1>2, <1>3, AppendPlaces DEF Finished, Elements
<1>6. InOnePlace'
  <2>1. /\ Waiting' \cup Finished' \subseteq sent' /\ Waiting' \cap Finished' = {}
        /\ \A i, j \in 1..Len(queue') : queue'[i] = queue'[j] => i = j
    BY <1>1, <1>3, <1>4, <1>5 DEF InOnePlace
  <2>2. ASSUME NEW v \in Worker
        PROVE  /\ pc'[v] = "process" <=> msg'[v] # None
               /\ msg'[v] # None => msg'[v] \in sent' \ (Waiting' \cup Finished')
               /\ \A u \in Worker \ {v} : msg'[v] # None => msg'[u] # msg'[v]
    BY <1>1, <1>2, <1>4, <1>5 DEF InOnePlace
  <2> QED
    BY <2>1, <2>2 DEF InOnePlace
<1>7. AllPlaced'
  <2>1. Failed => Failed'
    BY <1>1, <1>2 DEF Failed, Bad
  <2>2. InHand \subseteq InHand' \cup {msg[w]}
    BY <1>1, <1>2 DEF InHand
  <2> QED
    BY <1>1, <1>4, <1>5, <2>1, <2>2 DEF AllPlaced
<1> QED
  BY <1>1, <1>3, <1>4, <1>5, <1>6, <1>7

LEMMA PlacesFail ==
    ASSUME TypeOK, InOnePlace, NEW w \in Worker, UserFails(w)
    PROVE  InOnePlace' /\ AllPlaced' /\ Failed'
<1>1. PICK how \in Bad : Goto(w, how)
  BY DEF UserFails
<1>2. /\ msg' = [msg EXCEPT ![w] = None] /\ pc' = [pc EXCEPT ![w] = how]
      /\ UNCHANGED <<queue, sent, processed>>
  BY <1>1 DEF UserFails, Goto, Frame, users
<1>3. pc \in [Worker -> Steps] /\ msg \in [Worker -> Message \cup {None}] /\ how # "process"
  BY DEF TypeOK, Bad
<1>4. Waiting' = Waiting /\ Finished' = Finished
  BY <1>2 DEF Waiting, Finished
<1>5. Failed'
  BY <1>2, <1>3 DEF Failed
<1>6. InOnePlace'
  <2>1. /\ Waiting' \cup Finished' \subseteq sent' /\ Waiting' \cap Finished' = {}
        /\ \A i, j \in 1..Len(queue') : queue'[i] = queue'[j] => i = j
    BY <1>2, <1>4 DEF InOnePlace
  <2>2. ASSUME NEW v \in Worker
        PROVE  /\ pc'[v] = "process" <=> msg'[v] # None
               /\ msg'[v] # None => msg'[v] \in sent' \ (Waiting' \cup Finished')
               /\ \A u \in Worker \ {v} : msg'[v] # None => msg'[u] # msg'[v]
    BY <1>2, <1>3, <1>4 DEF InOnePlace
  <2> QED
    BY <2>1, <2>2 DEF InOnePlace
<1> QED
  BY <1>5, <1>6 DEF AllPlaced

\* The other steps of a worker only move it.
LEMMA MovesKeep ==
    ASSUME TypeOK, NEW w \in Worker,
           InitStorage(w) \/ CheckCancel(w) \/ Timeout(w) \/ Closed(w) \/ Finalize(w)
    PROVE  /\ UNCHANGED <<queue, msg, processed, sent, cancel, owner, next, client>>
           /\ \A v \in Worker : (pc'[v] = "process") <=> (pc[v] = "process")
           /\ \A v \in Worker : (pc'[v] \in Bad) <=> (pc[v] \in Bad)
BY DEF TypeOK, InitStorage, CheckCancel, Timeout, Closed, Finalize, Goto, Quiet, Frame,
       users, Bad

LEMMA OwnerKeeps ==
    ASSUME TypeOK, Settled, Owner \/ (\E c \in Client : DropSender(c)) \/ UNCHANGED vars
    PROVE  /\ UNCHANGED <<queue, msg, processed, sent>>
           /\ \A v \in Worker : (pc'[v] = "process") <=> (pc[v] = "process")
           /\ \A v \in Worker : (pc'[v] \in Bad) <=> (pc[v] \in Bad)
<1>n. NumWorkers \in Nat /\ next \in 1..NumWorkers + 1
  BY PipeAssumption DEF TypeOK
<1>1. CASE Spawn
  <2>1. owner = "new" /\ pc' = [pc EXCEPT ![next] = "init"] /\ next \in Worker
        /\ UNCHANGED <<queue, msg, processed, sent>>
    BY <1>1 DEF Spawn, users
  <2> QED
    <3>1. pc[next] = "unborn" /\ pc \in [Worker -> Steps] /\ next >= next
      BY <1>n, <2>1 DEF TypeOK, Settled
    <3> QED
      BY <2>1, <3>1 DEF Bad
<1>2. CASE FailSpawn \/ Started \/ Join \/ Joins \/ Cancel \/ (\E c \in Client : DropSender(c))
           \/ UNCHANGED vars
  BY <1>2 DEF FailSpawn, Started, Join, Joins, JoinWorker, JoinDone, Cancel, DropSender,
     workers, users, vars
<1> QED
  BY <1>1, <1>2 DEF Owner

LEMMA PlacesStep ==
    ASSUME TypeOK, InOnePlace, AllPlaced, Settled, [Next]_vars
    PROVE  InOnePlace' /\ AllPlaced'
<1>1. CASE Owner \/ (\E c \in Client : DropSender(c)) \/ UNCHANGED vars
  <2>1. /\ UNCHANGED <<queue, msg, processed, sent>>
        /\ \A v \in Worker : (pc'[v] = "process") <=> (pc[v] = "process")
        /\ \A v \in Worker : (pc'[v] \in Bad) <=> (pc[v] \in Bad)
    BY <1>1, OwnerKeeps
  <2> QED
    BY <2>1, PlacesKept
<1>2. ASSUME NEW c \in Client, NEW m \in Message, Send(c, m)
      PROVE  InOnePlace' /\ AllPlaced'
  BY <1>2, PlacesSend
<1>3. ASSUME NEW w \in Worker, Works(w)
      PROVE  InOnePlace' /\ AllPlaced'
  <2>1. CASE InitStorage(w) \/ CheckCancel(w) \/ Timeout(w) \/ Closed(w) \/ Finalize(w)
    <3>1. /\ UNCHANGED <<queue, msg, processed, sent>>
          /\ \A v \in Worker : (pc'[v] = "process") <=> (pc[v] = "process")
          /\ \A v \in Worker : (pc'[v] \in Bad) <=> (pc[v] \in Bad)
      BY <2>1, MovesKeep
    <3> QED
      BY <3>1, PlacesKept
  <2>2. CASE Receive(w)
    BY <2>2, PlacesReceive
  <2>3. CASE Process(w)
    BY <2>3, PlacesProcess
  <2>4. CASE UserFails(w)
    BY <2>4, PlacesFail
  <2> QED
    BY <1>3, <2>1, <2>2, <2>3, <2>4 DEF Works
<1> QED
  BY <1>1, <1>2, <1>3 DEF Next, Owner

-----------------------------------------------------------------------------
(* What the end of a worker, and of join, means.                           *)

\* A cancel is for good, and so is the end of the senders on an empty channel.
Over == cancel \/ (SendersGone /\ queue = <<>>)

LEMMA OverStays ==
    ASSUME TypeOK, [Next]_vars, Over
    PROVE  Over'
<1>1. CASE Owner
  <2>1. cancel => cancel'
    BY <1>1 DEF Owner, Spawn, FailSpawn, Started, Join, Joins, JoinWorker, JoinDone, Cancel
  <2>2. CASE ~cancel
    <3>1. SendersGone /\ queue = <<>>
      BY <2>2 DEF Over
    <3>2. client' = client /\ queue' = queue /\ owner' \notin {"new", "open"}
      BY <1>1, <3>1 DEF SendersGone, Owner, Spawn, FailSpawn, Started, Join, Joins, JoinWorker,
         JoinDone, Cancel, users, Bad
    <3> QED
      BY <3>1, <3>2 DEF SendersGone, Over
  <2> QED
    BY <2>1, <2>2 DEF Over
<1>2. CASE Clients
  BY <1>2 DEF Clients, DropSender, Send, Over, SendersGone
<1>3. ASSUME NEW w \in Worker, Works(w) PROVE Over'
  <2>1. UNCHANGED <<cancel, owner, client>>
    BY <1>3 DEF Works, InitStorage, CheckCancel, Receive, Timeout, Closed, Process, Finalize,
       UserFails, Frame, users
  <2>2. queue = <<>> => queue' = <<>>
    BY <1>3 DEF Works, InitStorage, CheckCancel, Receive, Timeout, Closed, Process, Finalize,
       UserFails, Quiet
  <2> QED
    BY <2>1, <2>2 DEF Over, SendersGone
<1>4. CASE UNCHANGED vars
  BY <1>4 DEF vars, users, Over, SendersGone
<1> QED
  BY <1>1, <1>2, <1>3, <1>4 DEF Next, Owner, Clients

\* A worker comes to finalize by the flag or by the end of the channel.
LEMMA LeavesWhenOver ==
    ASSUME TypeOK, Settled, [Next]_vars, NEW w \in Worker, pc'[w] \in {"finalize", "ok"}
    PROVE  Over
<1>1. CASE pc[w] \in {"finalize", "ok"}
  BY <1>1 DEF Settled, Over
<1>2. CASE pc[w] \notin {"finalize", "ok"}
  <2>1. pc' # pc /\ pc \in [Worker -> Steps]
    BY <1>2 DEF TypeOK
  <2>2. ~Spawn
    BY <1>2, <2>1 DEF Spawn
  <2>3. PICK v \in Worker : Works(v)
    BY <2>1, <2>2 DEF Next, FailSpawn, Started, Join, Joins, JoinWorker, JoinDone, Cancel,
       DropSender, Send, workers, vars
  <2>4. CheckCancel(v) \/ Closed(v)
    BY <1>2, <2>1, <2>3 DEF Works, InitStorage, Receive, Timeout, Process, Finalize, UserFails,
       Goto, Bad
  <2> QED
    BY <1>2, <2>1, <2>4 DEF CheckCancel, Closed, Goto, Over
<1> QED
  BY <1>1, <1>2

LEMMA SettledStep ==
    ASSUME TypeOK, Settled, [Next]_vars
    PROVE  Settled'
<1>n. NumWorkers \in Nat /\ next \in 1..NumWorkers + 1 /\ Worker = 1..NumWorkers
  BY PipeAssumption DEF TypeOK, Worker
<1>1. \A w \in Worker : pc'[w] \in {"finalize", "ok"} =>
        cancel' \/ (SendersGone' /\ queue' = <<>>)
  BY LeavesWhenOver, OverStays DEF Over
<1>2. ASSUME owner' = "new"
      PROVE  /\ client' = {} /\ sent' = {} /\ queue' = <<>>
             /\ \A w \in Worker : w >= next' => pc'[w] = "unborn"
  <2>1. owner = "new"
    BY <1>2 DEF Next, Spawn, FailSpawn, Started, Join, Joins, JoinWorker, JoinDone, Cancel,
       DropSender, Send, Works, InitStorage, CheckCancel, Receive, Timeout, Closed, Process,
       Finalize, UserFails, Frame, Bad, vars
  <2>2. /\ client = {} /\ sent = {} /\ queue = <<>>
        /\ \A w \in Worker : w >= next => pc[w] = "unborn"
    BY <2>1 DEF Settled
  <2>3. CASE Spawn
    <3>1. pc' = [pc EXCEPT ![next] = "init"] /\ next' = next + 1 /\ next \in Worker
          /\ UNCHANGED <<client, sent, queue>>
      BY <2>3 DEF Spawn, users
    <3>2. ASSUME NEW w \in Worker, w >= next + 1 PROVE pc'[w] = "unborn"
      <4>1. w # next /\ w >= next
        BY <1>n, <3>2
      <4> QED
        BY <2>2, <3>1, <4>1 DEF TypeOK
    <3> QED
      BY <2>2, <3>1, <3>2
  <2>4. CASE Cancel \/ UNCHANGED vars
    BY <2>2, <2>4 DEF Cancel, workers, users, vars
  <2>5. ASSUME NEW v \in Worker, Works(v)
        PROVE  /\ client' = {} /\ sent' = {} /\ queue' = <<>>
               /\ \A w \in Worker : w >= next' => pc'[w] = "unborn"
    <3>1. pc[v] # "unborn" /\ \E step \in Steps : Goto(v, step)
      BY <2>5 DEF Works, InitStorage, CheckCancel, Receive, Timeout, Closed, Process, Finalize,
         UserFails, Steps, Ended, Bad
    <3>2. UNCHANGED <<client, sent, next>>
      BY <2>5 DEF Works, InitStorage, CheckCancel, Receive, Timeout, Closed, Process, Finalize,
         UserFails, Frame, users
    <3>3. queue' = <<>>
      BY <2>2, <2>5 DEF Works, InitStorage, CheckCancel, Receive, Timeout, Closed, Process,
         Finalize, UserFails, Quiet
    <3>4. ASSUME NEW w \in Worker, w >= next PROVE pc'[w] = "unborn"
      <4>1. pc[w] = "unborn" /\ w # v
        BY <2>2, <3>1, <3>4
      <4> QED
        BY <3>1, <4>1 DEF Goto, TypeOK
    <3> QED
      BY <2>2, <3>2, <3>3, <3>4
  <2> QED
    BY <1>2, <2>1, <2>2, <2>3, <2>4, <2>5 DEF Next, FailSpawn, Started, Join, Joins, JoinWorker,
       JoinDone, DropSender, Send
<1>3. ASSUME owner' = "not started" PROVE client' = {} /\ sent' = {}
  <2>1. client = {} /\ sent = {}
    <3>1. owner \in {"new", "not started"}
      BY <1>3 DEF Next, Spawn, FailSpawn, Started, Join, Joins, JoinWorker, JoinDone, Cancel,
         DropSender, Send, Works, InitStorage, CheckCancel, Receive, Timeout, Closed, Process,
         Finalize, UserFails, Frame, Bad, vars
    <3> QED
      BY <3>1 DEF Settled
  <2>2. CASE Spawn \/ FailSpawn \/ Join \/ Joins \/ Cancel \/ UNCHANGED vars
    BY <2>1, <2>2 DEF Spawn, FailSpawn, Join, Joins, JoinWorker, JoinDone, Cancel, users, vars
  <2>3. ASSUME NEW v \in Worker, Works(v) PROVE client' = {} /\ sent' = {}
    BY <2>1, <2>3 DEF Works, InitStorage, CheckCancel, Receive, Timeout, Closed, Process,
       Finalize, UserFails, Frame, users
  <2> QED
    BY <1>3, <2>1, <2>2, <2>3 DEF Next, Started, DropSender, Send
<1> QED
  BY <1>1, <1>2, <1>3 DEF Settled

LEMMA JoinedStep ==
    ASSUME TypeOK, Joined, [Next]_vars
    PROVE  Joined'
<1>n. NumWorkers \in Nat /\ next \in 1..NumWorkers + 1 /\ Worker = 1..NumWorkers
  BY PipeAssumption DEF TypeOK, Worker
<1>1. ASSUME owner # "new" PROVE \A w \in Worker : pc[w] = "ok" => pc'[w] = "ok"
  <2>1. CASE ~\E v \in Worker : Works(v)
    BY <1>1, <2>1 DEF Next, Spawn, FailSpawn, Started, Join, Joins, JoinWorker, JoinDone, Cancel,
       DropSender, Send, workers, vars
  <2>2. ASSUME NEW v \in Worker, Works(v) PROVE \A w \in Worker : pc[w] = "ok" => pc'[w] = "ok"
    BY <2>2 DEF TypeOK, Works, InitStorage, CheckCancel, Receive, Timeout, Closed, Process,
       Finalize, UserFails, Goto
  <2> QED
    BY <2>1, <2>2
<1>2. CASE Spawn \/ FailSpawn \/ Started
  BY <1>2 DEF Spawn, FailSpawn, Started, Joined
<1>3. CASE Join
  <2>1. owner' = "joining" /\ next = 1
    BY <1>3 DEF Join, Joined
  <2>2. next' = next /\ \A w \in Worker : ~(w < 1)
    BY <1>3, <1>n DEF Join
  <2> QED
    BY <2>1, <2>2 DEF Joined
<1>4. CASE JoinWorker
  <2>1. owner = "joining" /\ next \in Worker /\ pc' = pc /\ pc[next] \in Ended
    BY <1>4 DEF JoinWorker, workers
  <2>2. \A w \in Worker : w < next => pc[w] = "ok"
    BY <2>1 DEF Joined
  <2>3. CASE pc[next] \in Bad
    BY <1>4, <2>3 DEF JoinWorker, Joined, Bad
  <2>4. CASE pc[next] \notin Bad
    <3>1. pc[next] = "ok" /\ owner' = "joining" /\ next' = next + 1
      BY <1>4, <2>1, <2>4 DEF JoinWorker, Ended
    <3>2. \A w \in Worker : w < next + 1 => w < next \/ w = next
      BY <1>n
    <3> QED
      BY <2>1, <2>2, <3>1, <3>2 DEF Joined
  <2> QED
    BY <2>3, <2>4
<1>5. CASE JoinDone
  <2>1. owner = "joining" /\ owner' = "ok" /\ pc' = pc /\ next = NumWorkers + 1
    BY <1>5 DEF JoinDone, workers
  <2>2. \A w \in Worker : w < next
    BY <1>n, <2>1
  <2> QED
    BY <2>1, <2>2 DEF Joined
<1>6. CASE Cancel \/ Clients \/ (\E v \in Worker : Works(v)) \/ UNCHANGED vars
  <2>1. owner' = owner /\ next' = next
    BY <1>6 DEF Cancel, Clients, DropSender, Send, Works, InitStorage, CheckCancel, Receive,
       Timeout, Closed, Process, Finalize, UserFails, Frame, vars
  <2> QED
    BY <1>1, <2>1 DEF Joined
<1> QED
  BY <1>2, <1>3, <1>4, <1>5, <1>6 DEF Next, Joins, Clients

-----------------------------------------------------------------------------
(* The theorems.                                                           *)

LEMMA PipeInvariant == Spec => []PipeInv
<1>1. Init => PipeInv
  <2> SUFFICES ASSUME Init PROVE PipeInv
    OBVIOUS
  <2>1. Settled
    BY DEF Init, Settled
  <2>2. Joined
    BY DEF Init, Joined
  <2> QED
    BY <2>1, <2>2, TypeInit, PlacesInit DEF PipeInv
<1>2. PipeInv /\ [Next]_vars => PipeInv'
  BY TypeStep, PlacesStep, SettledStep, JoinedStep DEF PipeInv
<1> QED
  BY <1>1, <1>2, PTL DEF Spec

\* Every variable keeps its type.
THEOREM PipeType == Spec => []TypeOK
BY PipeInvariant, PTL DEF PipeInv

\* Pipe::join: success means that every worker succeeded and, without a cancel,
\* that every message was processed.
THEOREM OkIsDone == Spec => []OkMeansDone
<1>1. ASSUME PipeInv, owner = "ok", ~cancel PROVE client = {} /\ sent = Finished
  <2>1. \A w \in Worker : pc[w] = "ok"
    BY <1>1 DEF PipeInv, Joined
  <2>2. 1 \in Worker
    BY PipeAssumption DEF Worker
  <2>3. SendersGone /\ queue = <<>>
    BY <1>1, <2>1, <2>2 DEF PipeInv, Settled
  <2>4. Waiting = {}
    BY <2>3 DEF Waiting
  <2>5. ~Failed
    BY <2>1 DEF Failed, Bad
  <2>6. InHand \subseteq {None} /\ None \notin sent
    BY <1>1, <2>1, PipeAssumption DEF PipeInv, InOnePlace, InHand, TypeOK
  <2>7. sent \subseteq Waiting \cup Finished \cup InHand /\ Finished \subseteq sent
    BY <1>1, <2>5 DEF PipeInv, AllPlaced, InOnePlace
  <2> QED
    BY <2>3, <2>4, <2>6, <2>7 DEF SendersGone
<1>2. ASSUME PipeInv, owner = "ok" PROVE \A w \in Worker : pc[w] = "ok"
  BY <1>2 DEF PipeInv, Joined
<1>3. PipeInv => OkMeansDone
  BY <1>1, <1>2 DEF OkMeansDone
<1> QED
  BY <1>3, PipeInvariant, PTL

-----------------------------------------------------------------------------
(* A Pipe implements Delivery.                                             *)

\* The steps that leave messages and receivers alone stutter.
LEMMA QuietStutters ==
    ASSUME UNCHANGED <<queue, processed, sent>>, Open' = Open,
           InHand' = InHand, Failed' = Failed, UNCHANGED cancel
    PROVE  UNCHANGED Promise!vars
<1>1. Waiting' = Waiting /\ Finished' = Finished
  BY DEF Waiting, Finished
<1>2. Lost' = Lost
  BY <1>1 DEF Lost
<1>3. Stopped' = Stopped
  BY DEF Stopped
<1> QED
  BY <1>2, <1>3 DEF Promise!vars

\* So do those of a Pipe that has accepted nothing yet.
LEMMA EmptyStutters ==
    ASSUME sent = {}, UNCHANGED <<processed, sent, cancel>>, Failed' = Failed
    PROVE  UNCHANGED Promise!vars
<1>1. Lost = {} /\ Lost' = {}
  BY DEF Lost
<1>2. Stopped' = Stopped
  BY DEF Stopped
<1> QED
  BY <1>1, <1>2 DEF Promise!vars

\* A step that gives up receivers or a message may lose some, and is a stop.
LEMMA LosesWhenStopped ==
    ASSUME TypeOK, UNCHANGED <<queue, processed, sent>>, Open' => Open, InHand' \subseteq InHand \cup {None},
           Stopped'
    PROVE  Promise!Next
<1>1. Waiting' = Waiting /\ Finished' = Finished
  BY DEF Waiting, Finished
<1>2. None \notin sent
  BY PipeAssumption DEF TypeOK
<1>3. Lost \subseteq Lost' /\ Lost' \subseteq sent \ Finished
  BY <1>1, <1>2 DEF Lost
<1>4. PICK gone \in SUBSET Message : gone = Lost' \ Lost
  BY <1>3 DEF TypeOK
<1>5. Promise!Arrived = Finished
  BY DEF Promise!Arrived, Finished
<1>6. Promise!Lose(gone)
  BY <1>3, <1>4, <1>5 DEF Promise!Lose
<1> QED
  BY <1>6 DEF Promise!Next

\* Workers that stay among those who own a receiver keep the channel open.
LEMMA ReceiversStay ==
    ASSUME TypeOK, NEW w \in Worker, NEW step \in Steps, Goto(w, step), UNCHANGED owner,
           pc[w] \in {"init", "head", "recv", "process", "finalize"}
    PROVE  /\ step \in {"init", "head", "recv", "process", "finalize"} => Open' = Open
           /\ Open
<1>1. pc' = [pc EXCEPT ![w] = step] /\ pc \in [Worker -> Steps]
  BY DEF Goto, TypeOK
<1>2. w \in Receiving
  BY DEF Receiving
<1>3. step \in {"init", "head", "recv", "process", "finalize"} => Receiving' = Receiving
  BY <1>1 DEF Receiving
<1> QED
  BY <1>2, <1>3 DEF Open

LEMMA WorksDelivers ==
    ASSUME PipeInv, NEW w \in Worker, Works(w)
    PROVE  [Promise!Next]_Promise!vars
<1>t. /\ TypeOK /\ InOnePlace /\ AllPlaced /\ Settled /\ None \notin sent
      /\ UNCHANGED <<sent, cancel, owner>>
  BY PipeAssumption DEF PipeInv, TypeOK, Works, InitStorage, CheckCancel, Receive, Timeout, Closed,
     Process, Finalize, UserFails, Frame, users
<1>1. CASE InitStorage(w) \/ CheckCancel(w) \/ Timeout(w) \/ Closed(w)
  <2>1. /\ UNCHANGED <<queue, msg, processed>>
        /\ \A v \in Worker : (pc'[v] \in Bad) <=> (pc[v] \in Bad)
    BY <1>t, <1>1, MovesKeep
  <2>2. InHand' = InHand /\ Failed' = Failed
    BY <2>1 DEF InHand, Failed
  <2>3. \E step \in {"head", "recv", "finalize"} :
           Goto(w, step) /\ pc[w] \in {"init", "head", "recv"}
    BY <1>1 DEF InitStorage, CheckCancel, Timeout, Closed
  <2>4. Open' = Open
    BY <1>t, <2>3, ReceiversStay DEF Steps
  <2> QED
    BY <1>t, <2>1, <2>2, <2>4, QuietStutters
<1>2. CASE Receive(w)
  <2>1. /\ Waiting = Waiting' \cup {Head(queue)} /\ Finished' = Finished
        /\ msg' = [msg EXCEPT ![w] = Head(queue)] /\ msg[w] = None
    BY <1>t, <1>2, PlacesReceive
  <2>2. Goto(w, "process") /\ pc[w] = "recv" /\ processed' = processed
    BY <1>2 DEF Receive
  <2>3. Open /\ Open'
    BY <1>t, <2>2, ReceiversStay DEF Steps
  <2>4. InHand \subseteq InHand' \cup {None} /\ InHand' \subseteq InHand \cup {Head(queue)}
        /\ Head(queue) \in InHand'
    BY <1>t, <2>1 DEF InHand, TypeOK
  <2>5. Lost' = Lost
    BY <1>t, <2>1, <2>3, <2>4 DEF Lost
  <2>6. Stopped' = Stopped
    BY <1>t, <2>2 DEF Stopped, Failed, Goto, Bad, TypeOK
  <2> QED
    BY <1>t, <2>2, <2>5, <2>6 DEF Promise!vars
<1>3. CASE Process(w)
  <2>1. /\ msg[w] \in sent \ Finished /\ Waiting' = Waiting
        /\ Finished' = Finished \cup {msg[w]} /\ msg' = [msg EXCEPT ![w] = None]
    BY <1>t, <1>3, PlacesProcess
  <2>2. Goto(w, "head") /\ pc[w] = "process" /\ processed' = Append(processed, msg[w])
    BY <1>3 DEF Process
  <2>3. Open' = Open
    BY <1>t, <2>2, ReceiversStay DEF Steps
  <2>4. InHand \subseteq InHand' \cup {msg[w]} /\ InHand' \subseteq InHand \cup {None}
        /\ msg[w] \in InHand
    BY <1>t, <2>1 DEF InHand, TypeOK
  <2>5. Lost' = Lost /\ msg[w] \notin Lost
    BY <1>t, <2>1, <2>3, <2>4 DEF Lost
  <2>6. Stopped' = Stopped
    BY <1>t, <2>2 DEF Stopped, Failed, Goto, Bad, TypeOK
  <2>7. Promise!Arrived = Finished
    BY DEF Promise!Arrived, Finished
  <2>8. Promise!Deliver(msg[w])
    BY <1>t, <2>1, <2>2, <2>5, <2>6, <2>7 DEF Promise!Deliver
  <2>9. msg[w] \in Message
    BY <1>t, <2>1 DEF TypeOK
  <2> QED
    BY <2>8, <2>9 DEF Promise!Next
<1>4. CASE Finalize(w)
  <2>1. /\ UNCHANGED <<queue, msg, processed>>
        /\ \A v \in Worker : (pc'[v] \in Bad) <=> (pc[v] \in Bad)
    BY <1>t, <1>4, MovesKeep
  <2>2. InHand' = InHand /\ Failed' = Failed /\ Stopped' = Stopped
    BY <1>t, <2>1 DEF InHand, Failed, Stopped
  <2>3. Goto(w, "ok") /\ pc[w] = "finalize"
    BY <1>4 DEF Finalize
  <2>4. Open
    BY <1>t, <2>3, ReceiversStay DEF Steps, Ended
  <2>5. CASE cancel
    <3>1. Stopped'
      BY <2>2, <2>5 DEF Stopped
    <3>2. InHand' \subseteq InHand \cup {None}
      BY <2>2
    <3>3. UNCHANGED <<queue, processed>>
      BY <2>1
    <3> QED
      BY <1>t, <2>4, <3>1, <3>2, <3>3, LosesWhenStopped
  <2>6. CASE ~cancel
    <3>0. queue = <<>> /\ queue' = queue
      BY <1>t, <2>1, <2>3, <2>6 DEF Settled
    <3>1. Waiting = {} /\ Waiting' = {}
      BY <3>0 DEF Waiting
    <3>2. Finished' = Finished
      BY <2>1 DEF Finished
    <3>3. Lost' = Lost
      BY <1>t, <2>2, <3>1, <3>2 DEF Lost
    <3> QED
      BY <1>t, <2>1, <2>2, <3>3 DEF Promise!vars
  <2> QED
    BY <2>5, <2>6
<1>5. CASE UserFails(w)
  <2>1. Stopped'
    BY <1>t, <1>5, PlacesFail DEF Stopped
  <2>2. /\ msg' = [msg EXCEPT ![w] = None] /\ UNCHANGED <<queue, processed>>
        /\ pc[w] \in {"init", "process", "finalize"} /\ \E how \in Bad : Goto(w, how)
    BY <1>5 DEF UserFails
  <2>3. InHand' \subseteq InHand \cup {None}
    BY <1>t, <2>2 DEF InHand, TypeOK
  <2>4. Open
    BY <1>t, <2>2, ReceiversStay DEF Steps, Ended, Bad
  <2> QED
    BY <1>t, <2>1, <2>2, <2>3, <2>4, LosesWhenStopped
<1> QED
  BY <1>1, <1>2, <1>3, <1>4, <1>5 DEF Works

LEMMA OwnerDelivers ==
    ASSUME PipeInv, Owner \/ (\E c \in Client : DropSender(c)) \/ UNCHANGED vars
    PROVE  [Promise!Next]_Promise!vars
<1>1. /\ UNCHANGED <<queue, msg, processed, sent>>
      /\ \A v \in Worker : (pc'[v] \in Bad) <=> (pc[v] \in Bad)
  BY OwnerKeeps DEF PipeInv
<1>2. InHand' = InHand /\ Failed' = Failed
  BY <1>1 DEF InHand, Failed
<1>3. CASE Spawn \/ FailSpawn \/ Started
  <2>1. cancel' = cancel /\ owner = "new"
    BY <1>3 DEF Spawn, FailSpawn, Started
  <2>2. sent = {}
    BY <2>1 DEF PipeInv, Settled
  <2> QED
    BY <1>1, <1>2, <2>1, <2>2, EmptyStutters
<1>4. CASE Join \/ Joins \/ (\E c \in Client : DropSender(c)) \/ UNCHANGED vars
  <2>1. UNCHANGED <<pc, cancel>> /\ (owner' = "new" <=> owner = "new")
    BY <1>4 DEF Join, Joins, JoinWorker, JoinDone, DropSender, Bad, workers, vars
  <2>2. Open' = Open
    BY <2>1 DEF Open, Receiving
  <2> QED
    BY <1>1, <1>2, <2>1, <2>2, QuietStutters
<1>5. CASE Cancel
  <2>1. cancel' /\ UNCHANGED <<pc, owner>>
    BY <1>5 DEF Cancel, workers
  <2>2. Open' = Open /\ Stopped'
    BY <2>1 DEF Open, Receiving, Stopped
  <2> QED
    BY <1>1, <1>2, <2>2, LosesWhenStopped DEF PipeInv
<1> QED
  BY <1>3, <1>4, <1>5 DEF Owner

LEMMA SendDelivers ==
    ASSUME PipeInv, NEW c \in Client, NEW m \in Message, Send(c, m)
    PROVE  [Promise!Next]_Promise!vars
<1>1. UNCHANGED <<pc, msg, processed, cancel, owner>> /\ m \notin sent
  BY DEF Send, workers
<1>2. InHand' = InHand /\ Failed' = Failed /\ Open' = Open /\ Finished' = Finished
      /\ Stopped' = Stopped
  BY <1>1 DEF InHand, Failed, Open, Receiving, Finished, Stopped
<1>3. CASE ~Open
  <2>1. UNCHANGED <<queue, sent>>
    BY <1>3 DEF Send
  <2> QED
    BY <1>1, <1>2, <2>1, QuietStutters
<1>4. CASE Open
  <2>1. queue' = Append(queue, m) /\ sent' = sent \cup {m} /\ queue \in Seq(Message)
    BY <1>4 DEF Send, PipeInv, TypeOK
  <2>2. Waiting = Elements(queue) /\ Waiting' = Elements(queue')
    BY DEF Waiting, Elements
  <2>3. Waiting' = Waiting \cup {m}
    BY <2>1, <2>2, AppendPlaces
  <2>4. Lost' = Lost
    <3>0. m # None
      BY PipeAssumption
    <3>1. InHand \cap {m} = {}
      BY <1>1, <3>0 DEF PipeInv, InOnePlace, InHand
    <3>2. Finished \subseteq sent
      BY DEF PipeInv, InOnePlace
    <3> QED
      BY <1>1, <1>2, <1>4, <2>1, <2>3, <3>1, <3>2 DEF Lost
  <2>5. Promise!Accept(m)
    BY <1>1, <1>2, <2>1, <2>4 DEF Promise!Accept
  <2> QED
    BY <2>5 DEF Promise!Next
<1> QED
  BY <1>3, <1>4

\* However many threads race for the channel and however many fail: every message a
\* Pipe accepts is processed at most once, and none is lost before a cancel or failure.
THEOREM PipeDelivers == Spec => ProcessesOnce
<1>1. Init => Promise!Init
  <2> SUFFICES ASSUME Init PROVE Promise!Init
    OBVIOUS
  <2>1. Lost = {} /\ Stopped = FALSE
    BY DEF Init, Lost, Stopped, Failed, Bad
  <2> QED
    BY <2>1 DEF Init, Promise!Init
<1>2. PipeInv /\ [Next]_vars => [Promise!Next]_Promise!vars
  BY WorksDelivers, OwnerDelivers, SendDelivers DEF Next, Owner
<1> QED
  BY <1>1, <1>2, PipeInvariant, PTL DEF Spec, ProcessesOnce, Promise!Spec
=============================================================================
