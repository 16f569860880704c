--------------------------- MODULE ChannelProofs ---------------------------
(***************************************************************************)
(* Proofs about Channel: the counts are exact between the steps that change *)
(* them, and with it that "closed" is final, that a refused sender sees why *)
(* and that a terminated channel stays terminated.                          *)
(***************************************************************************)
EXTENDS Channel, FiniteSetTheorems, TLAPS

\* The counts count the live handles, and a handle being cloned is borrowed
\* from a live one.
SendersCounted ==
    /\ senders = Cardinality(Counted(tx))
    /\ \A c \in Tx : tx[c] = "cloning" => lender[c] \in Tx /\ tx[lender[c]] = "alive"
ReceiversCounted ==
    /\ receivers = Cardinality(Counted(rx))
    /\ \A c \in Rx : rx[c] = "cloning" => lender[c] \in Rx /\ rx[lender[c]] = "alive"

\* A receiver that goes on to look at the queue has seen the count at 0.
SawTerminated ==
    \A r \in Rx : step[r] \in {"empty", "empty again"} => senders = 0

ChannelInv ==
    /\ TypeOK /\ SendersCounted /\ ReceiversCounted
    /\ SawTerminated /\ ClosedIsFinal /\ RefusalIsSeen

-----------------------------------------------------------------------------
(* Counting.                                                               *)

\* The live handles of a finite set are finitely many.
LEMMA CountedFinite ==
    ASSUME NEW S, IsFiniteSet(S), NEW f \in [S -> Life]
    PROVE  /\ Counted(f) = {h \in S : f[h] = "alive"}
           /\ IsFiniteSet(Counted(f)) /\ Cardinality(Counted(f)) \in Nat
<1>1. Counted(f) = {h \in S : f[h] = "alive"}
  BY DEF Counted
<1>2. IsFiniteSet(Counted(f))
  BY <1>1, FS_Subset
<1> QED
  BY <1>1, <1>2, FS_CardinalityType

\* The count is 0 exactly when no handle is alive.
LEMMA CountZero ==
    ASSUME NEW S, IsFiniteSet(S), NEW f \in [S -> Life]
    PROVE  Cardinality(Counted(f)) = 0 <=> \A h \in S : f[h] # "alive"
<1>1. Counted(f) = {h \in S : f[h] = "alive"} /\ IsFiniteSet(Counted(f))
  BY CountedFinite
<1>2. Cardinality(Counted(f)) = 0 <=> Counted(f) = {}
  BY <1>1, FS_EmptySet
<1> QED
  BY <1>1, <1>2

\* A handle that comes alive adds one.
LEMMA CountUp ==
    ASSUME NEW S, IsFiniteSet(S), NEW f \in [S -> Life], NEW c \in S, f[c] # "alive"
    PROVE  Cardinality(Counted([f EXCEPT ![c] = "alive"])) = Cardinality(Counted(f)) + 1
<1> DEFINE g == [f EXCEPT ![c] = "alive"]
<1>1. g \in [S -> Life]
  BY DEF Life
<1>2. Counted(g) = {h \in S : g[h] = "alive"}
  BY <1>1, CountedFinite
<1>3. Counted(f) = {h \in S : f[h] = "alive"} /\ IsFiniteSet(Counted(f))
  BY CountedFinite
<1>4. Counted(g) = Counted(f) \cup {c}
  BY <1>2, <1>3
<1>5. c \notin Counted(f)
  BY <1>3
<1> QED
  BY <1>3, <1>4, <1>5, FS_AddElement

\* A live handle that is no longer alive takes one.
LEMMA CountDown ==
    ASSUME NEW S, IsFiniteSet(S), NEW f \in [S -> Life], NEW c \in S, f[c] = "alive",
           NEW v \in Life, v # "alive"
    PROVE  Cardinality(Counted([f EXCEPT ![c] = v])) = Cardinality(Counted(f)) - 1
<1> DEFINE g == [f EXCEPT ![c] = v]
<1>1. g \in [S -> Life]
  OBVIOUS
<1>2. Counted(g) = {h \in S : g[h] = "alive"}
  BY <1>1, CountedFinite
<1>3. Counted(f) = {h \in S : f[h] = "alive"} /\ IsFiniteSet(Counted(f))
  BY CountedFinite
<1>4. Counted(g) = Counted(f) \ {c}
  BY <1>2, <1>3
<1>5. c \in Counted(f)
  BY <1>3
<1> QED
  BY <1>3, <1>4, <1>5, FS_RemoveElement

\* Other changes of a handle do not count.
LEMMA CountSame ==
    ASSUME NEW S, IsFiniteSet(S), NEW f \in [S -> Life], NEW c \in S, f[c] # "alive",
           NEW v \in Life, v # "alive"
    PROVE  Cardinality(Counted([f EXCEPT ![c] = v])) = Cardinality(Counted(f))
<1> DEFINE g == [f EXCEPT ![c] = v]
<1>1. g \in [S -> Life]
  OBVIOUS
<1>2. Counted(g) = {h \in S : g[h] = "alive"}
  BY <1>1, CountedFinite
<1>3. Counted(f) = {h \in S : f[h] = "alive"} /\ IsFiniteSet(Counted(f))
  BY CountedFinite
<1>4. Counted(g) = Counted(f)
  BY <1>2, <1>3
<1> QED
  BY <1>4

-----------------------------------------------------------------------------
(* What a step leaves alone.                                               *)

\* A call changes neither counts nor handles.
LEMMA CallsFrame ==
    ASSUME NEW r \in Rx, Calls(r)
    PROVE  UNCHANGED <<backend, counts, sends, handles, refused>>
BY DEF Calls, RecvTimeout, TryRecv, IsClosed, IsTerminated, IsEmpty, PollItem,
       PollDisconnected, PollTimeout, IsTerminatedAgain, IsEmptyAgain, CallFrame

\* A call takes at most one item and adds none.
LEMMA CallsDrain ==
    ASSUME TypeOK, NEW r \in Rx, Calls(r)
    PROVE  queued' \in Nat /\ queued' <= queued
<1>1. queued \in Nat
  BY DEF TypeOK
<1>2. CASE PollItem(r)
  BY <1>1, <1>2 DEF PollItem
<1>3. CASE ~PollItem(r)
  <2>1. queued' = queued
    BY <1>3 DEF Calls, RecvTimeout, TryRecv, IsClosed, IsTerminated, IsEmpty,
       PollDisconnected, PollTimeout, IsTerminatedAgain, IsEmptyAgain
  <2> QED
    BY <1>1, <2>1
<1> QED
  BY <1>2, <1>3

\* The steps of the channel, by what they do to senders, receivers and calls.
LEMMA StepCases ==
    ASSUME [Next]_vars
    PROVE  \/ \E s, c \in Tx : CloneSender(s, c)
           \/ \E s \in Tx : CountSender(s)
           \/ \E s \in Tx : DropSender(s)
           \/ \E s \in Tx : SenderGone(s)
           \/ \E r, c \in Rx : CloneReceiver(r, c)
           \/ \E r \in Rx : CountReceiver(r)
           \/ \E r \in Rx : DropReceiver(r)
           \/ \E r \in Rx : ReceiverGone(r)
           \/ \E s \in Tx : Send(s)
           \/ \E r \in Rx : Calls(r)
           \/ UNCHANGED vars
BY DEF Next, Senders, Receivers

-----------------------------------------------------------------------------
(* Types.                                                                  *)

LEMMA TypeInit == Init => TypeOK
<1> SUFFICES ASSUME Init PROVE TypeOK
  OBVIOUS
<1>1. 0 \in 0..MaxSends
  BY HandlesAssumption
<1> QED
  BY <1>1, HandlesAssumption DEF Init, TypeOK, Life, Steps, Idle, None

LEMMA TypeCalls ==
    ASSUME TypeOK, NEW r \in Rx, Calls(r)
    PROVE  TypeOK'
<1>1. UNCHANGED <<backend, senders, receivers, sends, tx, rx, lender, refused>>
  BY CallsFrame DEF counts, handles
<1>2. queued' \in Nat
  BY CallsDrain
<1>3. step' \in [Rx -> Steps]
  BY DEF TypeOK, Calls, RecvTimeout, TryRecv, IsClosed, IsTerminated, IsEmpty, PollItem,
         PollDisconnected, PollTimeout, IsTerminatedAgain, IsEmptyAgain, Goto, Tell, Steps, Idle
<1>4. told' \in [Rx -> {None, "item", "open", "closed"}]
  BY DEF TypeOK, Calls, RecvTimeout, TryRecv, IsClosed, IsTerminated, IsEmpty, PollItem,
         PollDisconnected, PollTimeout, IsTerminatedAgain, IsEmptyAgain, Goto, Tell
<1> QED
  BY <1>1, <1>2, <1>3, <1>4 DEF TypeOK

LEMMA TypeStep ==
    ASSUME TypeOK, SendersCounted, ReceiversCounted, [Next]_vars
    PROVE  TypeOK'
<1> USE DEF counts, handles, calls
<1>1. CASE \E s, c \in Tx : CloneSender(s, c)
  BY <1>1 DEF CloneSender, TypeOK, Life
<1>2. CASE \E s \in Tx : CountSender(s)
  BY <1>2 DEF CountSender, TypeOK, Life
<1>3. CASE \E s \in Tx : DropSender(s)
  <2> PICK s \in Tx : DropSender(s)
    BY <1>3
  <2>1. senders # 0
    BY HandlesAssumption, CountZero DEF DropSender, TypeOK, SendersCounted
  <2>2. senders' \in Nat
    BY <2>1 DEF DropSender, TypeOK
  <2> QED
    BY <2>2 DEF DropSender, TypeOK, Life
<1>4. CASE \E s \in Tx : SenderGone(s)
  BY <1>4 DEF SenderGone, TypeOK, Life
<1>5. CASE \E r, c \in Rx : CloneReceiver(r, c)
  BY <1>5 DEF CloneReceiver, TypeOK, Life
<1>6. CASE \E r \in Rx : CountReceiver(r)
  BY <1>6 DEF CountReceiver, TypeOK, Life
<1>7. CASE \E r \in Rx : DropReceiver(r)
  <2> PICK r \in Rx : DropReceiver(r)
    BY <1>7
  <2>1. receivers # 0
    BY HandlesAssumption, CountZero DEF DropReceiver, TypeOK, ReceiversCounted
  <2>2. receivers' \in Nat
    BY <2>1 DEF DropReceiver, TypeOK
  <2> QED
    BY <2>2 DEF DropReceiver, TypeOK, Life
<1>8. CASE \E r \in Rx : ReceiverGone(r)
  BY <1>8 DEF ReceiverGone, TypeOK, Life
<1>9. CASE \E s \in Tx : Send(s)
  BY <1>9, HandlesAssumption DEF Send, TypeOK
<1>10. CASE \E r \in Rx : Calls(r)
  BY <1>10, TypeCalls
<1>11. CASE UNCHANGED vars
  BY <1>11 DEF vars, TypeOK
<1> QED
  BY StepCases, <1>1, <1>2, <1>3, <1>4, <1>5, <1>6, <1>7, <1>8, <1>9, <1>10, <1>11

-----------------------------------------------------------------------------
(* The counts.                                                             *)

LEMMA CountedInit == Init => SendersCounted /\ ReceiversCounted
<1> SUFFICES ASSUME Init PROVE SendersCounted /\ ReceiversCounted
  OBVIOUS
<1>1. Counted(tx) = {FirstTx} /\ Counted(rx) = {FirstRx}
  BY HandlesAssumption DEF Init, Counted
<1>2. Cardinality({FirstTx}) = 1 /\ Cardinality({FirstRx}) = 1
  BY FS_Singleton
<1> QED
  BY <1>1, <1>2 DEF Init, SendersCounted, ReceiversCounted

\* A step of a receiver or a call leaves the senders alone.
LEMMA SendersKept ==
    ASSUME TypeOK, SendersCounted, UNCHANGED <<tx, senders>>,
           \A h \in Tx : lender'[h] = lender[h]
    PROVE  SendersCounted'
BY DEF SendersCounted

LEMMA SendersStep ==
    ASSUME TypeOK, SendersCounted, [Next]_vars
    PROVE  SendersCounted'
<1> USE DEF counts, handles, calls
<1>t. tx \in [Tx -> Life] /\ IsFiniteSet(Tx) /\ Tx \cap Rx = {} /\ None \notin Tx
  BY HandlesAssumption DEF TypeOK
<1>l. lender \in [Tx \cup Rx -> Tx \cup Rx \cup {None}]
  BY DEF TypeOK
<1>1. CASE \E s, c \in Tx : CloneSender(s, c)
  <2> PICK s \in Tx, c \in Tx : CloneSender(s, c)
    BY <1>1
  <2>1. tx' = [tx EXCEPT ![c] = "cloning"] /\ tx[c] = "unused" /\ tx[s] = "alive"
        /\ senders' = senders /\ lender' = [lender EXCEPT ![c] = s]
    BY DEF CloneSender
  <2>a. tx[c] # "alive" /\ "cloning" \in Life /\ "cloning" # "alive"
    BY <2>1 DEF Life
  <2>2. Cardinality(Counted(tx')) = Cardinality(Counted(tx))
    BY <2>1, <2>a, <1>t, CountSame
  <2> QED
    BY <2>1, <2>2, <1>t, <1>l DEF SendersCounted
<1>2. CASE \E s \in Tx : CountSender(s)
  <2> PICK c \in Tx : CountSender(c)
    BY <1>2
  <2>1. tx' = [tx EXCEPT ![c] = "alive"] /\ tx[c] = "cloning"
        /\ senders' = senders + 1 /\ lender' = [lender EXCEPT ![c] = None]
    BY DEF CountSender
  <2>2. Cardinality(Counted(tx')) = Cardinality(Counted(tx)) + 1
    BY <2>1, <1>t, CountUp
  <2> QED
    BY <2>1, <2>2, <1>t, <1>l DEF SendersCounted
<1>3. CASE \E s \in Tx : DropSender(s)
  <2> PICK s \in Tx : DropSender(s)
    BY <1>3
  <2>1. tx' = [tx EXCEPT ![s] = "dropping"] /\ tx[s] = "alive"
        /\ senders' = senders - 1 /\ lender' = lender /\ ~Lent(s)
    BY DEF DropSender
  <2>2. Cardinality(Counted(tx')) = Cardinality(Counted(tx)) - 1
    BY <2>1, <1>t, CountDown DEF Life
  <2>3. \A c \in Tx : lender[c] # s
    BY <2>1, <1>l DEF Lent
  <2> QED
    BY <2>1, <2>2, <2>3, <1>t, <1>l DEF SendersCounted
<1>4. CASE \E s \in Tx : SenderGone(s)
  <2> PICK s \in Tx : SenderGone(s)
    BY <1>4
  <2>1. tx' = [tx EXCEPT ![s] = "gone"] /\ tx[s] = "dropping"
        /\ senders' = senders /\ lender' = lender
    BY DEF SenderGone
  <2>2. Cardinality(Counted(tx')) = Cardinality(Counted(tx))
    BY <2>1, <1>t, CountSame DEF Life
  <2> QED
    BY <2>1, <2>2, <1>t, <1>l DEF SendersCounted
<1>5. CASE \E r, c \in Rx : CloneReceiver(r, c)
  BY <1>5, <1>t, <1>l, SendersKept DEF CloneReceiver
<1>6. CASE \E r \in Rx : CountReceiver(r)
  BY <1>6, <1>t, <1>l, SendersKept DEF CountReceiver
<1>7. CASE \E r \in Rx : DropReceiver(r)
  BY <1>7, SendersKept DEF DropReceiver
<1>8. CASE \E r \in Rx : ReceiverGone(r)
  BY <1>8, SendersKept DEF ReceiverGone
<1>9. CASE \E s \in Tx : Send(s)
  BY <1>9, SendersKept DEF Send
<1>10. CASE \E r \in Rx : Calls(r)
  BY <1>10, CallsFrame, SendersKept
<1>11. CASE UNCHANGED vars
  BY <1>11, SendersKept DEF vars
<1> QED
  BY StepCases, <1>1, <1>2, <1>3, <1>4, <1>5, <1>6, <1>7, <1>8, <1>9, <1>10, <1>11

\* A step of a sender or a call leaves the receivers alone.
LEMMA ReceiversKept ==
    ASSUME TypeOK, ReceiversCounted, UNCHANGED <<rx, receivers>>,
           \A h \in Rx : lender'[h] = lender[h]
    PROVE  ReceiversCounted'
BY DEF ReceiversCounted

LEMMA ReceiversStep ==
    ASSUME TypeOK, ReceiversCounted, [Next]_vars
    PROVE  ReceiversCounted'
<1> USE DEF counts, handles, calls
<1>t. rx \in [Rx -> Life] /\ IsFiniteSet(Rx) /\ Tx \cap Rx = {} /\ None \notin Rx
  BY HandlesAssumption DEF TypeOK
<1>l. lender \in [Tx \cup Rx -> Tx \cup Rx \cup {None}]
  BY DEF TypeOK
<1>1. CASE \E r, c \in Rx : CloneReceiver(r, c)
  <2> PICK r \in Rx, c \in Rx : CloneReceiver(r, c)
    BY <1>1
  <2>1. rx' = [rx EXCEPT ![c] = "cloning"] /\ rx[c] = "unused" /\ rx[r] = "alive"
        /\ receivers' = receivers /\ lender' = [lender EXCEPT ![c] = r]
    BY DEF CloneReceiver
  <2>a. rx[c] # "alive" /\ "cloning" \in Life /\ "cloning" # "alive"
    BY <2>1 DEF Life
  <2>2. Cardinality(Counted(rx')) = Cardinality(Counted(rx))
    BY <2>1, <2>a, <1>t, CountSame
  <2> QED
    BY <2>1, <2>2, <1>t, <1>l DEF ReceiversCounted
<1>2. CASE \E r \in Rx : CountReceiver(r)
  <2> PICK c \in Rx : CountReceiver(c)
    BY <1>2
  <2>1. rx' = [rx EXCEPT ![c] = "alive"] /\ rx[c] = "cloning"
        /\ receivers' = receivers + 1 /\ lender' = [lender EXCEPT ![c] = None]
    BY DEF CountReceiver
  <2>2. Cardinality(Counted(rx')) = Cardinality(Counted(rx)) + 1
    BY <2>1, <1>t, CountUp
  <2> QED
    BY <2>1, <2>2, <1>t, <1>l DEF ReceiversCounted
<1>3. CASE \E r \in Rx : DropReceiver(r)
  <2> PICK r \in Rx : DropReceiver(r)
    BY <1>3
  <2>1. rx' = [rx EXCEPT ![r] = "dropping"] /\ rx[r] = "alive"
        /\ receivers' = receivers - 1 /\ lender' = lender /\ ~Lent(r)
    BY DEF DropReceiver
  <2>2. Cardinality(Counted(rx')) = Cardinality(Counted(rx)) - 1
    BY <2>1, <1>t, CountDown DEF Life
  <2>3. \A c \in Rx : lender[c] # r
    BY <2>1, <1>l DEF Lent
  <2> QED
    BY <2>1, <2>2, <2>3, <1>t, <1>l DEF ReceiversCounted
<1>4. CASE \E r \in Rx : ReceiverGone(r)
  <2> PICK r \in Rx : ReceiverGone(r)
    BY <1>4
  <2>1. rx' = [rx EXCEPT ![r] = "gone"] /\ rx[r] = "dropping"
        /\ receivers' = receivers /\ lender' = lender
    BY DEF ReceiverGone
  <2>2. Cardinality(Counted(rx')) = Cardinality(Counted(rx))
    BY <2>1, <1>t, CountSame DEF Life
  <2> QED
    BY <2>1, <2>2, <1>t, <1>l DEF ReceiversCounted
<1>5. CASE \E s, c \in Tx : CloneSender(s, c)
  BY <1>5, <1>t, <1>l, ReceiversKept DEF CloneSender
<1>6. CASE \E s \in Tx : CountSender(s)
  BY <1>6, <1>t, <1>l, ReceiversKept DEF CountSender
<1>7. CASE \E s \in Tx : DropSender(s)
  BY <1>7, ReceiversKept DEF DropSender
<1>8. CASE \E s \in Tx : SenderGone(s)
  BY <1>8, ReceiversKept DEF SenderGone
<1>9. CASE \E s \in Tx : Send(s)
  BY <1>9, ReceiversKept DEF Send
<1>10. CASE \E r \in Rx : Calls(r)
  BY <1>10, CallsFrame, ReceiversKept
<1>11. CASE UNCHANGED vars
  BY <1>11, ReceiversKept DEF vars
<1> QED
  BY StepCases, <1>1, <1>2, <1>3, <1>4, <1>5, <1>6, <1>7, <1>8, <1>9, <1>10, <1>11

-----------------------------------------------------------------------------
(* What the counts are good for.                                           *)

\* With the count of senders at 0 nobody can send or clone a sender.
LEMMA NoSenderLeft ==
    ASSUME TypeOK, SendersCounted, senders = 0
    PROVE  \A s \in Tx : tx[s] \notin {"alive", "cloning"}
<1>1. \A s \in Tx : tx[s] # "alive"
  BY HandlesAssumption, CountZero DEF TypeOK, SendersCounted
<1> QED
  BY <1>1 DEF SendersCounted

LEMMA NoReceiverLeft ==
    ASSUME TypeOK, ReceiversCounted, receivers = 0
    PROVE  \A r \in Rx : rx[r] \notin {"alive", "cloning"}
<1>1. \A r \in Rx : rx[r] # "alive"
  BY HandlesAssumption, CountZero DEF TypeOK, ReceiversCounted
<1> QED
  BY <1>1 DEF ReceiversCounted

\* One step: with no sender left, none comes back and the queue only shrinks.
LEMMA SendersStayGone ==
    ASSUME TypeOK, [Next]_vars,
           \A s \in Tx : tx[s] \notin {"alive", "cloning"}
    PROVE  /\ \A s \in Tx : tx'[s] \notin {"alive", "cloning"}
           /\ queued' <= queued /\ senders' = senders
<1> USE DEF counts, handles, calls
<1>1. CASE \E s \in Tx : SenderGone(s)
  BY <1>1 DEF SenderGone, TypeOK
<1>2. CASE \E s, c \in Tx : CloneSender(s, c)
  BY <1>2 DEF CloneSender
<1>3. CASE \E s \in Tx : CountSender(s) \/ DropSender(s) \/ Send(s)
  BY <1>3 DEF CountSender, DropSender, Send
<1>4. CASE \/ \E r, c \in Rx : CloneReceiver(r, c)
           \/ \E r \in Rx : CountReceiver(r) \/ DropReceiver(r) \/ ReceiverGone(r)
  BY <1>4 DEF CloneReceiver, CountReceiver, DropReceiver, ReceiverGone, TypeOK
<1>5. CASE \E r \in Rx : Calls(r)
  <2>1. UNCHANGED <<tx, senders>>
    BY <1>5, CallsFrame
  <2>2. queued' <= queued
    BY <1>5, CallsDrain
  <2> QED
    BY <2>1, <2>2
<1>6. CASE UNCHANGED vars
  BY <1>6 DEF vars, TypeOK
<1> QED
  BY StepCases, <1>1, <1>2, <1>3, <1>4, <1>5, <1>6

\* One step: with no receiver left, none comes back.
LEMMA ReceiversStayGone ==
    ASSUME TypeOK, [Next]_vars,
           \A r \in Rx : rx[r] \notin {"alive", "cloning"}
    PROVE  receivers' = receivers
<1> USE DEF counts, handles, calls
<1>1. CASE \/ \E s, c \in Tx : CloneSender(s, c)
           \/ \E s \in Tx : CountSender(s) \/ DropSender(s) \/ SenderGone(s) \/ Send(s)
  BY <1>1 DEF CloneSender, CountSender, DropSender, SenderGone, Send
<1>2. CASE \/ \E r, c \in Rx : CloneReceiver(r, c)
           \/ \E r \in Rx : CountReceiver(r) \/ DropReceiver(r) \/ ReceiverGone(r)
  BY <1>2 DEF CloneReceiver, CountReceiver, DropReceiver, ReceiverGone
<1>3. CASE \E r \in Rx : Calls(r)
  BY <1>3, CallsFrame
<1>4. CASE UNCHANGED vars
  BY <1>4 DEF vars
<1> QED
  BY StepCases, <1>1, <1>2, <1>3, <1>4

\* The count, once seen at 0 by a receiver, is still 0 when it looks at the queue.
LEMMA SawStep ==
    ASSUME TypeOK, SendersCounted, SawTerminated, [Next]_vars
    PROVE  SawTerminated'
<1> SUFFICES ASSUME NEW r \in Rx, step'[r] \in {"empty", "empty again"}
             PROVE  senders' = 0
  BY DEF SawTerminated
<1>1. CASE step[r] \in {"empty", "empty again"}
  <2>1. senders = 0
    BY <1>1 DEF SawTerminated
  <2> QED
    BY <2>1, NoSenderLeft, SendersStayGone
<1>2. CASE step[r] \notin {"empty", "empty again"}
  <2>1. step' # step
    BY <1>2
  <2>2. \E q \in Rx : Calls(q)
    BY <2>1, StepCases DEF CloneSender, CountSender, DropSender, SenderGone, CloneReceiver,
       CountReceiver, DropReceiver, ReceiverGone, Send, calls, vars
  <2> PICK q \in Rx : Calls(q)
    BY <2>2
  <2>3. senders' = senders
    BY CallsFrame DEF counts
  <2>4. senders = 0
    BY <1>2 DEF TypeOK, Calls, RecvTimeout, TryRecv, IsClosed, IsTerminated, IsEmpty, PollItem,
         PollDisconnected, PollTimeout, IsTerminatedAgain, IsEmptyAgain, Goto, Tell, Idle
  <2> QED
    BY <2>3, <2>4
<1> QED
  BY <1>1, <1>2

LEMMA ClosedStep ==
    ASSUME TypeOK, SendersCounted, ReceiversCounted, SawTerminated, ClosedIsFinal, [Next]_vars
    PROVE  ClosedIsFinal'
<1> SUFFICES ASSUME NEW r \in Rx, told'[r] = "closed"
             PROVE  queued' = 0 /\ \A s \in Tx : tx'[s] \notin {"alive", "cloning"}
  BY DEF ClosedIsFinal
<1>0. (queued = 0 /\ \A s \in Tx : tx[s] \notin {"alive", "cloning"})
      => queued' = 0 /\ \A s \in Tx : tx'[s] \notin {"alive", "cloning"}
  <2> HAVE queued = 0 /\ \A s \in Tx : tx[s] \notin {"alive", "cloning"}
  <2>1. queued' \in Nat
    BY TypeStep DEF TypeOK
  <2> QED
    BY <2>1, SendersStayGone
<1>1. CASE told[r] = "closed"
  BY <1>0, <1>1 DEF ClosedIsFinal
<1>2. CASE told[r] # "closed"
  <2>1. told' # told
    BY <1>2
  <2>2. \E q \in Rx : Calls(q)
    BY <2>1, StepCases DEF CloneSender, CountSender, DropSender, SenderGone, CloneReceiver,
       CountReceiver, DropReceiver, ReceiverGone, Send, calls, vars
  <2> PICK q \in Rx : Calls(q)
    BY <2>2
  <2>3. queued = 0 /\ (step[q] \in {"empty", "empty again"} \/ InBackend(tx) = {})
    BY <1>2 DEF TypeOK, Calls, RecvTimeout, TryRecv, IsClosed, IsTerminated, IsEmpty, PollItem,
         PollDisconnected, PollTimeout, IsTerminatedAgain, IsEmptyAgain, Goto, Tell, Calling
  <2>4. CASE step[q] \in {"empty", "empty again"}
    <3>1. senders = 0
      BY <2>4 DEF SawTerminated
    <3> QED
      BY <1>0, <2>3, <3>1, NoSenderLeft
  <2>5. CASE InBackend(tx) = {}
    <3>1. \A s \in Tx : tx[s] \notin {"alive", "cloning"}
      BY <2>5 DEF InBackend, TypeOK
    <3> QED
      BY <1>0, <2>3, <3>1
  <2> QED
    BY <2>3, <2>4, <2>5
<1> QED
  BY <1>1, <1>2

LEMMA RefusalStep ==
    ASSUME TypeOK, ReceiversCounted, RefusalIsSeen, [Next]_vars
    PROVE  RefusalIsSeen'
<1> SUFFICES ASSUME refused' # {} PROVE receivers' = 0
  BY DEF RefusalIsSeen
<1>1. CASE receivers = 0
  BY <1>1, NoReceiverLeft, ReceiversStayGone
<1>2. CASE receivers # 0
  <2>1. refused = {}
    BY <1>2 DEF RefusalIsSeen
  <2>2. \E s \in Tx : Send(s)
    BY <2>1, StepCases, CallsFrame DEF CloneSender, CountSender, DropSender, SenderGone,
       CloneReceiver, CountReceiver, DropReceiver, ReceiverGone, calls, vars
  <2>3. InBackend(rx) = {}
    BY <2>1, <2>2 DEF Send
  <2>4. \A r \in Rx : rx[r] # "alive"
    BY <2>3 DEF InBackend, TypeOK
  <2>5. receivers = 0
    BY <2>4, HandlesAssumption, CountZero DEF TypeOK, ReceiversCounted
  <2> QED
    BY <1>2, <2>5
<1> QED
  BY <1>1, <1>2

-----------------------------------------------------------------------------
(* Theorems.                                                               *)

LEMMA InvInit == Init => ChannelInv
<1> SUFFICES ASSUME Init PROVE ChannelInv
  OBVIOUS
<1>1. TypeOK /\ SendersCounted /\ ReceiversCounted
  BY TypeInit, CountedInit
<1>2. SawTerminated /\ ClosedIsFinal /\ RefusalIsSeen
  BY DEF Init, SawTerminated, ClosedIsFinal, RefusalIsSeen, Idle, None
<1> QED
  BY <1>1, <1>2 DEF ChannelInv

LEMMA InvStep == ChannelInv /\ [Next]_vars => ChannelInv'
BY TypeStep, SendersStep, ReceiversStep, SawStep, ClosedStep, RefusalStep DEF ChannelInv

LEMMA InvAlways == Spec => []ChannelInv
BY InvInit, InvStep, PTL DEF Spec

\* The counts never wrap below 0, and every variable has its type.
THEOREM ChannelType == Spec => []TypeOK
<1>1. ChannelInv => TypeOK
  BY DEF ChannelInv
<1> QED
  BY <1>1, InvAlways, PTL

\* A receiver that is told "closed" (EndpointCounts::is_terminated, then the
\* queue) will never miss an item, for any number of handles.
THEOREM ClosedForGood == Spec => []ClosedIsFinal
<1>1. ChannelInv => ClosedIsFinal
  BY DEF ChannelInv
<1> QED
  BY <1>1, InvAlways, PTL

\* A sender whose send failed finds the count of receivers at 0.
THEOREM RefusalExplained == Spec => []RefusalIsSeen
<1>1. ChannelInv => RefusalIsSeen
  BY DEF ChannelInv
<1> QED
  BY <1>1, InvAlways, PTL

\* Once is_terminated is true the count stays 0 and the queue only shrinks.
THEOREM TerminatedForGood == Spec => TerminatedIsFinal
<1>1. ChannelInv /\ [Next]_vars => [senders = 0 => senders' = 0 /\ queued' <= queued]_vars
  BY NoSenderLeft, SendersStayGone DEF ChannelInv
<1> QED
  BY <1>1, InvAlways, PTL DEF Spec, TerminatedIsFinal
=============================================================================
