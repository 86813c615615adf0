-------------------------- MODULE MCMessagingPlane --------------------------
(***************************************************************************)
(* The messaging plane on small instances: one message sent twice and one  *)
(* sent once; two USSD sessions of three and two callbacks.                *)
(***************************************************************************)
EXTENDS MessagingPlane, TLC

Attempt(msg, n) == [msg |-> msg, n |-> n]
Callback(session, n) == [session |-> session, n |-> n]

MCSends == {Attempt("a", 1), Attempt("a", 2), Attempt("b", 1)}
MCCallbacks == {Callback("s", 1), Callback("s", 2), Callback("s", 3), Callback("t", 1), Callback("t", 2)}
=============================================================================
