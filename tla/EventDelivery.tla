---------------------------- MODULE EventDelivery ----------------------------
(***************************************************************************)
(* What the outbox promises to the domain services that write to it,       *)
(* without rows, leases, tokens or workers: an event that was recorded is  *)
(* delivered to the bus any number of times, is settled only after a       *)
(* delivery, and is otherwise either still owed or parked for an operator. *)
(***************************************************************************)
CONSTANT Events

VARIABLES recorded, delivered, settled, parked

vars == <<recorded, delivered, settled, parked>>

Closed == settled \cup parked

Init == recorded = {} /\ delivered = {} /\ settled = {} /\ parked = {}

Record(e) ==
    /\ e \notin recorded
    /\ recorded' = recorded \cup {e}
    /\ UNCHANGED <<delivered, settled, parked>>

\* A repeated delivery is a stuttering step.
Deliver(e) ==
    /\ e \in recorded \ delivered
    /\ delivered' = delivered \cup {e}
    /\ UNCHANGED <<recorded, settled, parked>>

Settle(S) ==
    /\ S # {} /\ S \subseteq delivered \ Closed
    /\ settled' = settled \cup S
    /\ UNCHANGED <<recorded, delivered, parked>>

Park(S) ==
    /\ S # {} /\ S \subseteq recorded \ Closed
    /\ parked' = parked \cup S
    /\ UNCHANGED <<recorded, delivered, settled>>

\* A claim whose snapshot predates the settlement opens the events again.
Reopen(S) ==
    /\ S # {} /\ S \subseteq Closed
    /\ settled' = settled \ S
    /\ parked' = parked \ S
    /\ UNCHANGED <<recorded, delivered>>

NextFinal ==
    \/ \E e \in Events : Record(e) \/ Deliver(e)
    \/ \E S \in SUBSET Events : Settle(S) \/ Park(S)

Next == NextFinal \/ \E S \in SUBSET Events : Reopen(S)

Spec == Init /\ [][Next]_vars

\* Settled and parked are final: what a single dispatcher gives.
SpecFinal == Init /\ [][NextFinal]_vars
=============================================================================
