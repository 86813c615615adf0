----------------------------- MODULE MCPlatform -----------------------------
(***************************************************************************)
(* The platform's services on small instances.                             *)
(***************************************************************************)
EXTENDS Platform, TLC

\* Two creates with one provider reference, two that look for their
\* conversation and two that name it.
MCCreates ==
    {[n |-> 1, ref |-> "p", names |-> FALSE], [n |-> 2, ref |-> "p", names |-> TRUE],
     [n |-> 3, ref |-> "", names |-> FALSE], [n |-> 4, ref |-> "", names |-> TRUE]}

MCInstances == {[type |-> "callback", n |-> 1], [type |-> "collections", n |-> 1]}

MCRows == {[table |-> "interaction", n |-> 1], [table |-> "interaction", n |-> 2],
           [table |-> "interaction", n |-> 3], [table |-> "usage", n |-> 1]}

Event(kind, inter) == [kind |-> kind, conv |-> "c", inter |-> inter]
MCEvents == {Event("opened", "none"), Event("created", "i"), Event("created", "j"), Event("touched", "i")}

MCConns == {[tenant |-> "a", n |-> 1], [tenant |-> "a", n |-> 2], [tenant |-> "b", n |-> 1]}
=============================================================================
