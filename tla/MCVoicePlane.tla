---------------------------- MODULE MCVoicePlane ----------------------------
(***************************************************************************)
(* The voice plane on small instances: one call, placed and then acted on. *)
(***************************************************************************)
EXTENDS VoicePlane, TLC

Request(op) == [op |-> op, leg |-> "i"]

MCAvRequests == {Request("place"), Request("hangup"), Request("transfer")}
MCEvRequests == {Request("place"), Request("hangup"), Request("transfer")}
MCAtvRequests == {Request("place"), Request("hangup"), Request("transfer"), Request("hold")}
MCTwvRequests == {Request("place"), Request("hangup"), Request("transfer")}
=============================================================================
