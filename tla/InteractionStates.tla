-------------------------- MODULE InteractionStates --------------------------
(***************************************************************************)
(* The pure interaction state machine (internal/interactions/state.go).    *)
(***************************************************************************)
EXTENDS Naturals

Statuses == {"pending", "active", "wrapup", "completed", "failed", "canceled"}

\* Mutant: an agent may take a wrapped-up call again.
NextStatesReopening(from) ==
    CASE from = "pending" -> {"active", "canceled", "failed"}
      [] from = "active"  -> {"wrapup", "completed", "failed"}
      [] from = "wrapup"  -> {"active", "completed", "failed"}
      [] OTHER            -> {}

\* The table `transitions`.
NextStates(from) ==
    CASE from = "pending" -> {"active", "canceled", "failed"}
      [] from = "active"  -> {"wrapup", "completed", "failed"}
      [] from = "wrapup"  -> {"completed", "failed"}
      [] OTHER            -> {}

CanTransition(from, to) == to \in NextStates(from)

Terminal(s) == NextStates(s) = {}
=============================================================================
