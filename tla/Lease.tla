------------------------------- MODULE Lease -------------------------------
(***************************************************************************)
(* The reusable output buffers of one node.  acquire_output takes a buffer *)
(* from the node's recycle channel or makes one; the BufferLease around it *)
(* puts it back when it is dropped, wherever it was sent meanwhile.  The   *)
(* receiver of the channel lives in the acquire closure, so the channel    *)
(* closes when the last holder of that closure is gone.                    *)
(***************************************************************************)
EXTENDS Integers, Sequences, FiniteSets

CONSTANTS
    Slot,       \* leases alive at one time
    Server,     \* the workers that may serve the node
    Handle,     \* the node's external handle: one element, or none if managed
    MaxBuffers  \* bound on the buffers the factory makes

Supervisor == "supervisor"
Empty == 0      \* a lease whose value was taken
Free == -1      \* no lease

ASSUME LeaseAssumption ==
    /\ Supervisor \notin Server \cup Handle
    /\ IsFiniteSet(Slot) /\ MaxBuffers \in Nat

VARIABLES
    pool,       \* the recycle channel
    lease,      \* a slot's lease: Free, Empty, or the buffer it holds
    refused,    \* the slots whose drop found the channel closed
    detached,   \* the buffers taken out by into_inner
    dirty,      \* the buffers written since their last recycle
    made,       \* buffers the factory has made: their names are 1 .. made
    peak,       \* the most buffers in use at one time
    holders,    \* who holds the acquire closure
    stopped,    \* shutdown or abort is set
    early,      \* run_supervisor left through a failed spawn
    reported    \* a drop reported an internal failure

buffers == <<pool, lease, refused, detached, dirty, made, peak>>
lifetime == <<holders, stopped, early>>
leaseVars == <<buffers, lifetime, reported>>

Buffer == 1 .. MaxBuffers
Live == {l \in Slot : lease[l] \in Buffer}
Larger(a, b) == IF a < b THEN b ELSE a

LeaseInit ==
    /\ pool = <<>> /\ lease = [l \in Slot |-> Free] /\ refused = {} /\ detached = {}
    /\ dirty = {} /\ made = 0 /\ peak = 0
    /\ holders = {Supervisor} \cup Handle
    /\ stopped = FALSE /\ early = FALSE /\ reported = FALSE

-----------------------------------------------------------------------------
(* Acquiring, using and giving back                                        *)

Take(l, b) ==
    /\ lease[l] = Free
    /\ lease' = [lease EXCEPT ![l] = b]
    /\ peak' = Larger(peak, Cardinality(Live) + 1)
    /\ UNCHANGED <<refused, detached, dirty, lifetime, reported>>

\* The acquire closure: try_recv, and the factory only if nothing is there.
AcquirePooled(h, l) ==
    /\ h \in holders \ {Supervisor} /\ pool # <<>>
    /\ Take(l, Head(pool)) /\ pool' = Tail(pool) /\ UNCHANGED made

AcquireNew(h, l) ==
    /\ h \in holders \ {Supervisor} /\ pool = <<>> /\ made < MaxBuffers
    /\ Take(l, made + 1) /\ made' = made + 1 /\ UNCHANGED pool

\* deref_mut
Write(l) ==
    /\ l \in Live \ refused /\ dirty' = dirty \cup {lease[l]}
    /\ UNCHANGED <<pool, lease, refused, detached, made, peak, lifetime, reported>>

\* Seeded fault: the value stays in the lease.
IntoInnerKeeps(l) ==
    /\ l \in Live \ refused
    /\ detached' = detached \cup {lease[l]}
    /\ UNCHANGED <<pool, lease, refused, dirty, made, peak, lifetime, reported>>
\* into_inner takes the value; the lease, now empty, is dropped at its end.
IntoInner(l) ==
    /\ l \in Live \ refused
    /\ detached' = detached \cup {lease[l]}
    /\ lease' = [lease EXCEPT ![l] = Empty]
    /\ UNCHANGED <<pool, refused, dirty, made, peak, lifetime, reported>>

\* Drop: nothing to do without a value; otherwise recycle() and send.
DropEmpty(l) ==
    /\ lease[l] = Empty
    /\ lease' = [lease EXCEPT ![l] = Free]
    /\ UNCHANGED <<pool, refused, detached, dirty, made, peak, lifetime, reported>>

GiveBack(l) ==
    /\ l \in Live \ refused /\ holders # {}
    /\ pool' = Append(pool, lease[l]) /\ dirty' = dirty \ {lease[l]}
    /\ lease' = [lease EXCEPT ![l] = Free]
    /\ UNCHANGED <<refused, detached, made, peak, lifetime, reported>>

FailGiveBack(l) ==
    /\ l \in Live \ refused /\ holders = {}
    /\ refused' = refused \cup {l} /\ dirty' = dirty \ {lease[l]}
    /\ UNCHANGED <<pool, lease, detached, made, peak, lifetime, reported>>

\* Seeded fault: the flags are not read.
ReportAlways(l) ==
    /\ l \in refused
    /\ refused' = refused \ {l} /\ lease' = [lease EXCEPT ![l] = Free]
    /\ reported' = TRUE /\ stopped' = TRUE
    /\ UNCHANGED <<pool, detached, dirty, made, peak, holders, early>>
\* The flags are read after the send failed: a stop makes a late drop quiet.
Report(l) ==
    /\ l \in refused
    /\ refused' = refused \ {l} /\ lease' = [lease EXCEPT ![l] = Free]
    /\ reported' = (reported \/ ~stopped)
    /\ stopped' = TRUE
    /\ UNCHANGED <<pool, detached, dirty, made, peak, holders, early>>

-----------------------------------------------------------------------------
(* The holders of the closure                                              *)

\* The closure goes, and with its last holder the buffers in the channel.
Release(h) ==
    /\ h \in holders /\ holders' = holders \ {h}
    /\ pool' = IF holders' = {} THEN <<>> ELSE pool
    /\ UNCHANGED <<lease, refused, detached, dirty, made, peak, reported>>

\* An assignment clones the closure and drops it when it is over.
Assign(w) ==
    /\ Supervisor \in holders /\ holders' = holders \cup {w}
    /\ UNCHANGED <<buffers, stopped, early, reported>>
EndAssignment(w) == Release(w) /\ UNCHANGED <<stopped, early>>

\* The program may drop the external handle or keep it beyond join.
DropHandle(h) == Release(h) /\ UNCHANGED <<stopped, early>>

Stop ==
    /\ ~stopped /\ stopped' = TRUE
    /\ UNCHANGED <<buffers, holders, early, reported>>

\* run_supervisor ends after a stop, when it has joined every worker, ...
EndSupervisor ==
    /\ stopped /\ holders \cap Server = {} /\ Release(Supervisor)
    /\ UNCHANGED <<stopped, early>>

\* ... or at a thread it cannot spawn, at the start or to scale a node: no flag
\* is set and the workers go on.
LeaveEarly == early' = TRUE /\ Release(Supervisor) /\ UNCHANGED stopped

LeaseNext ==
    \/ \E h \in Server \cup Handle, l \in Slot : AcquirePooled(h, l) \/ AcquireNew(h, l)
    \/ \E l \in Slot : Write(l) \/ IntoInner(l) \/ DropEmpty(l)
    \/ \E l \in Slot : GiveBack(l) \/ FailGiveBack(l) \/ Report(l)
    \/ \E w \in Server : Assign(w) \/ EndAssignment(w)
    \/ \E h \in Handle : DropHandle(h)
    \/ Stop \/ EndSupervisor \/ LeaveEarly

LeaseSpec == LeaseInit /\ [][LeaseNext]_leaseVars

-----------------------------------------------------------------------------
(* Properties                                                              *)

Pooled == {pool[i] : i \in DOMAIN pool}
Leased == {lease[l] : l \in Live}

LeaseTypeOK ==
    /\ pool \in Seq(Buffer) /\ lease \in [Slot -> Buffer \cup {Empty, Free}]
    /\ refused \subseteq Slot /\ detached \subseteq Buffer /\ dirty \subseteq Buffer
    /\ made \in 0 .. MaxBuffers /\ peak \in Nat
    /\ holders \subseteq {Supervisor} \cup Server \cup Handle
    /\ stopped \in BOOLEAN /\ early \in BOOLEAN /\ reported \in BOOLEAN

\* Every buffer is in one place: in the channel once, in one lease, or taken out
\* for good, so that no two users ever write the same buffer and none is put
\* back twice; what lies in the channel is recycled; and the node never keeps
\* more buffers, leased and waiting, than were once in use at the same time.
LeasesExact ==
    /\ \A i, j \in DOMAIN pool : pool[i] = pool[j] => i = j
    /\ \A k, l \in Live : lease[k] = lease[l] => k = l
    /\ Pooled \cap Leased = {} /\ detached \cap (Pooled \cup Leased) = {}
    /\ Pooled \cap dirty = {}
    /\ Len(pool) + Cardinality(Live) <= peak

\* A lease dropped late, after join and in any thread, is no failure: a closed
\* channel is reported only if run_supervisor left before any stop, at a spawn
\* that failed.
QuietAfterStop == reported => early
=============================================================================
