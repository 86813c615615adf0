------------------------------ MODULE MCOutbox ------------------------------
(***************************************************************************)
(* Small instances of Outbox for TLC.  Tokens and workers are model values *)
(* that the specification never tells apart, so the safety runs use them   *)
(* symmetrically; events are numbers, ordered by occurred_at.              *)
(***************************************************************************)
EXTENDS Outbox, TLC

ModelSymmetry == Permutations(Tokens) \cup Permutations(Workers)
=============================================================================
