------------------------------ MODULE Delivery ------------------------------
(***************************************************************************)
(* What a pipeline promises of the items it accepts: each one is delivered *)
(* to the output at most once and never lost, unless the pipeline stops.   *)
(***************************************************************************)
EXTENDS Sequences, Naturals

CONSTANTS Item

VARIABLES
    sent,       \* items accepted from the user
    delivered,  \* the items that reached the output, in order
    lost,       \* items that never will
    stopped     \* shutdown, abort or a failure

vars == <<sent, delivered, lost, stopped>>

Arrived == {delivered[i] : i \in 1..Len(delivered)}

Init == sent = {} /\ delivered = <<>> /\ lost = {} /\ stopped = FALSE

Accept(m) ==
    /\ m \notin sent
    /\ sent' = sent \cup {m}
    /\ UNCHANGED <<delivered, lost, stopped>>

\* An item accepted while the pipeline stops may find nobody to take it.
AcceptInVain(m) ==
    /\ stopped /\ m \notin sent
    /\ sent' = sent \cup {m} /\ lost' = lost \cup {m}
    /\ UNCHANGED <<delivered, stopped>>

Deliver(m) ==
    /\ m \in sent \ (Arrived \cup lost)
    /\ delivered' = Append(delivered, m)
    /\ UNCHANGED <<sent, lost, stopped>>

Stop == stopped' = TRUE /\ UNCHANGED <<sent, delivered, lost>>

\* The step that loses items may be the one that stops the pipeline.
Lose(gone) ==
    /\ gone \subseteq sent \ (Arrived \cup lost)
    /\ lost' = lost \cup gone
    /\ stopped' = TRUE
    /\ UNCHANGED <<sent, delivered>>

Next ==
    \/ \E m \in Item : Accept(m) \/ AcceptInVain(m) \/ Deliver(m)
    \/ Stop
    \/ \E gone \in SUBSET Item : Lose(gone)

Spec == Init /\ [][Next]_vars
=============================================================================
