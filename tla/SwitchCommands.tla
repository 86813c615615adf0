--------------------------- MODULE SwitchCommands ---------------------------
(***************************************************************************)
(* What the client of a telephone switch promises to those who give it     *)
(* commands, without sessions, connections, waiters or correlation ids:    *)
(* the switch gets a command only after it was given; a caller is told     *)
(* that its command was carried out only after the switch has done so; and *)
(* every caller is told once.  A failure says nothing about the switch,    *)
(* which may carry the command out before or after it is reported.         *)
(***************************************************************************)
CONSTANT Requests

VARIABLES
    told,     \* per request: idle, open, then carried out or failed
    handled   \* requests whose command the switch has carried out

vars == <<told, handled>>

Init == told = [r \in Requests |-> "idle"] /\ handled = {}

Give(r) ==
    /\ told[r] = "idle"
    /\ told' = [told EXCEPT ![r] = "open"]
    /\ UNCHANGED handled

\* A command may be carried out after its caller has given up.
Handle(r) ==
    /\ told[r] # "idle"
    /\ handled' = handled \cup {r}
    /\ UNCHANGED told

Confirm(r) ==
    /\ told[r] = "open" /\ r \in handled
    /\ told' = [told EXCEPT ![r] = "carried out"]
    /\ UNCHANGED handled

Fail(r) ==
    /\ told[r] = "open"
    /\ told' = [told EXCEPT ![r] = "failed"]
    /\ UNCHANGED handled

Next == \E r \in Requests : Give(r) \/ Handle(r) \/ Confirm(r) \/ Fail(r)

Spec == Init /\ [][Next]_vars
=============================================================================
