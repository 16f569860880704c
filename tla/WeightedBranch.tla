--------------------------- MODULE WeightedBranch ---------------------------
(***************************************************************************)
(* The single-threaded weighted branch: it sends each item to one of two   *)
(* arms, by the queue lengths the supervisor last stored for them, their   *)
(* smoothed values and the rates at which they drain.                      *)
(*                                                                         *)
(* Rates and smoothed lengths are real numbers in the code.  A smoothed    *)
(* length is represented by its ceiling, which is all choose_route reads;  *)
(* an exponential average may take any value between the old one and the   *)
(* sample; a drain rate is represented by the virtual capacity it gives.   *)
(***************************************************************************)
EXTENDS Integers

CONSTANTS
    MaxQueue,       \* bound on the lengths: a longer queue counts as this long
    MaxCapacity     \* bound on the virtual capacities

ASSUME BranchAssumption == MaxQueue \in Nat \ {0} /\ MaxCapacity \in Nat \ {0}

Arm == {"left", "right"}
Other(a) == IF a = "left" THEN "right" ELSE "left"

VARIABLES
    queued,     \* the length of each arm's link
    shown,      \* the length the supervisor stored for it (link_queue_lens)
    smoothed,   \* the ceiling of smoothed_len
    capacity,   \* virtual_capacity
    ready,
    alternateLeft,  \* next_alternate_left
    pc,         \* "idle", or what is done next with the item received
    seenLeft,   \* the length choose_route was given for the left arm
    passed      \* items in a row that went to the other arm although this one's
                \* length was read as 0 (for the property only)

armVars == <<smoothed, capacity, ready>>
branchVars == <<queued, shown, armVars, alternateLeft, pc, seenLeft, passed>>

Least(a, b) == IF a < b THEN a ELSE b
Most(a, b) == IF a < b THEN b ELSE a

BranchInit ==
    /\ queued = [a \in Arm |-> 0] /\ shown = [a \in Arm |-> 0]
    /\ smoothed = [a \in Arm |-> 0] /\ capacity = [a \in Arm |-> 1]
    /\ ready = [a \in Arm |-> FALSE]
    /\ alternateLeft = TRUE /\ pc = "idle" /\ seenLeft = 0 /\ passed = [a \in Arm |-> 0]

ArmsReady == ready["left"] /\ ready["right"]

Go(from, to) == pc = from /\ pc' = to

\* An item arrives: sampled always in the warm-up, later once per sample_interval.
Receive ==
    /\ Go("idle", "sample left") \/ (ArmsReady /\ Go("idle", "read left"))
    /\ UNCHANGED <<queued, shown, armVars, alternateLeft, seenLeft, passed>>

\* ewma_alpha: the first sample is taken as it is.
Between(old, sample) ==
    IF old = 0 THEN {sample} ELSE Least(old, sample) .. Most(old, sample)

\* sample_arm: a smoothed length of at least 1 makes an arm ready for good (a
\* ceiling of 1 may be less), and so does a net rate above 0, whatever the length.
SampleArm(a) ==
    \E s \in Between(smoothed[a], shown[a]), c \in 1 .. MaxCapacity, grows \in BOOLEAN :
      /\ smoothed' = [smoothed EXCEPT ![a] = s]
      /\ capacity' = [capacity EXCEPT ![a] = c]
      /\ ready' = [ready EXCEPT ![a] = @ \/ s > 1 \/ grows]

Sample ==
    /\ \/ Go("sample left", "sample right") /\ SampleArm("left")
       \/ Go("sample right", "read left") /\ SampleArm("right")
    /\ UNCHANGED <<queued, shown, alternateLeft, seenLeft, passed>>

\* The two lengths are loaded one after the other.
ReadLeft ==
    /\ Go("read left", "route") /\ seenLeft' = shown["left"]
    /\ UNCHANGED <<queued, shown, armVars, alternateLeft, passed>>
Seen(a) == IF a = "left" THEN seenLeft ELSE shown["right"]

\* Seeded fault: the smoothed length of a queue that is empty now counts.
Lingering(a) == Most(Seen(a), smoothed[a])
EffectiveLen(a) == IF Seen(a) = 0 THEN 0 ELSE Most(Seen(a), smoothed[a])

\* fill_ratio, multiplied out.
Emptier(a) == EffectiveLen(a) * capacity[Other(a)] < EffectiveLen(Other(a)) * capacity[a]

Send(a) ==
    /\ Go("route", "idle") /\ seenLeft' = 0
    /\ queued' = [queued EXCEPT ![a] = Least(@ + 1, MaxQueue)]
    /\ passed' = [b \in Arm |-> IF b = a \/ Seen(b) # 0 THEN 0 ELSE passed[b] + 1]
    /\ UNCHANGED <<shown, armVars>>

RouteByFill(a) == ArmsReady /\ Emptier(a) /\ Send(a) /\ UNCHANGED alternateLeft

\* During the warm-up, and between arms that are equally full.
Turn == IF alternateLeft THEN "left" ELSE "right"
RouteInTurn ==
    /\ ~ArmsReady \/ \A a \in Arm : ~Emptier(a)
    /\ Send(Turn) /\ alternateLeft' = ~alternateLeft

\* A reader of the arm takes an item.
Drain(a) ==
    /\ queued[a] > 0
    /\ queued' = [queued EXCEPT ![a] = @ - 1]
    /\ UNCHANGED <<shown, armVars, alternateLeft, pc, seenLeft, passed>>

\* The supervisor samples the links.
Publish(a) ==
    /\ shown' = [shown EXCEPT ![a] = queued[a]]
    /\ UNCHANGED <<queued, armVars, alternateLeft, pc, seenLeft, passed>>

BranchNext ==
    \/ Receive \/ Sample \/ ReadLeft \/ RouteInTurn
    \/ \E a \in Arm : RouteByFill(a) \/ Drain(a) \/ Publish(a)

BranchSpec == BranchInit /\ [][BranchNext]_branchVars

-----------------------------------------------------------------------------
(* Properties                                                              *)

BranchTypeOK ==
    /\ queued \in [Arm -> 0 .. MaxQueue] /\ shown \in [Arm -> 0 .. MaxQueue]
    /\ smoothed \in [Arm -> 0 .. MaxQueue] /\ capacity \in [Arm -> 1 .. MaxCapacity]
    /\ ready \in [Arm -> BOOLEAN] /\ alternateLeft \in BOOLEAN
    /\ pc \in {"idle", "sample left", "sample right", "read left", "route"}
    /\ seenLeft \in 0 .. MaxQueue /\ passed \in [Arm -> Nat]

\* An arm that is read as empty is passed over at most once in a row, in the
\* warm-up as later, however empty or fast the other arm is, whatever the averages
\* still remember of a full queue, and although the supervisor stores new lengths
\* between any two loads and turns alternate with fill ratios.
EmptyArmServed == \A a \in Arm : passed[a] <= 1
=============================================================================
