----------------------------- MODULE MCReceipts -----------------------------
(***************************************************************************)
(* Instances of Receipts: one call whose receipts come from the simulator  *)
(* ("sim_..."), from a carrier over HTTP ("web_...") or from both.         *)
(***************************************************************************)
EXTENDS Receipts, TLC

AllToOneCall == [r \in ReceiptIds |-> CHOOSE c \in Calls : TRUE]

\* The switch of Processor.Process.
EventTarget ==
    [r \in ReceiptIds |->
        CASE r \in {"sim_ringing", "sim_connected", "web_ringing", "web_delivered"} -> "active"
          [] r \in {"sim_ended", "web_ended"} -> "wrapup"
          [] r = "web_read" -> "completed"
          [] r = "web_failed" -> "failed"]

\* PlaceCall emits ringing, then connected; Hangup comes later.
SimulatorOrder ==
    [r \in ReceiptIds |->
        CASE r = "sim_connected" -> {"sim_ringing"}
          [] r = "sim_ended"     -> {"sim_ringing", "sim_connected"} \cap ReceiptIds
          [] OTHER               -> {}]

WorkerSymmetry == Permutations(Workers) \cup Permutations(Requests)
=============================================================================
