------------------------------ MODULE WhatsApp ------------------------------
(***************************************************************************)
(* The WhatsApp Cloud adapter: Send and SendTemplate post a message, with  *)
(* retries after rate limits and 5xx, and remember the id (wamid) Meta     *)
(* gave it; HandleWebhook resolves a batch of statuses by that ledger.     *)
(*                                                                         *)
(* Nothing suppresses a repeated send: each POST Meta takes is a message   *)
(* of its own, with an id the adapter learns only from the answer.  Meta   *)
(* sends a batch again until it is acknowledged.  Meta and the ingest port *)
(* are external.                                                           *)
(***************************************************************************)
EXTENDS Integers, FiniteSets

CONSTANTS
    WacRequests,   \* calls of Send and SendTemplate
    WacMaxAttempts \* RetryPolicy.MaxAttempts

ASSUME WhatsAppAssumption == WacMaxAttempts \in Nat \ {0}

\* A wamid: the call and the attempt whose POST was taken.
WacIds == WacRequests \X (1 .. WacMaxAttempts)

VARIABLES
    wacReq,      \* per request: position, attempts made, result
    wacLedger,   \* msgLedger.byWAMID
    wacMessages, \* external: messages Meta took
    wacLost,     \* external: those of them whose request got no answer at all
    wacPending,  \* external: the batches of statuses Meta still sends
    wacHeard     \* external: ids whose status was acknowledged, and delivered

wacVars == <<wacReq, wacLedger, wacMessages, wacLost, wacPending, wacHeard>>

WacInit ==
    /\ wacReq = [r \in WacRequests |-> [at |-> "idle", attempts |-> 0, result |-> "none"]]
    /\ wacLedger = {} /\ wacMessages = {} /\ wacLost = {} /\ wacPending = {}
    /\ wacHeard = [acked |-> {}, delivered |-> {}]

(***************************************************************************)
(* Send, SendTemplate.                                                     *)
(***************************************************************************)
WacSend(r) ==
    /\ wacReq[r].at = "idle"
    /\ wacReq' = [wacReq EXCEPT ![r].at = "post"]
    /\ UNCHANGED <<wacLedger, wacMessages, wacLost, wacPending, wacHeard>>

\* mapGraphError: rate limits and 5xx ("put off") are tried again; a transport
\* error ("lost") surfaces at once, as do the other statuses ("refused").
WacRetryable(answer) == answer = "put off"

\* postOnce; "garbled" is a 2xx that cannot be read or names no message.
WacPost(r, takes, answer) ==
    LET k == wacReq[r].attempts + 1
        id == <<r, k>>
        again == WacRetryable(answer) /\ k < WacMaxAttempts
    IN  /\ wacReq[r].at = "post"
        /\ answer \in {"ok", "garbled"} => takes
        /\ answer = "refused" => ~takes
        /\ wacMessages' = IF takes THEN wacMessages \cup {id} ELSE wacMessages
        /\ wacLost' = IF takes /\ answer = "lost" THEN wacLost \cup {id} ELSE wacLost
        /\ wacReq' = [wacReq EXCEPT ![r] =
                [at |-> CASE answer = "ok" -> "remember" [] again -> "post" [] OTHER -> "done",
                 attempts |-> k,
                 result |-> IF answer = "ok" \/ again THEN @.result ELSE "error"]]
        /\ UNCHANGED <<wacLedger, wacPending, wacHeard>>

\* The context ends during the backoff.
WacCanceled(r) ==
    /\ wacReq[r].at = "post" /\ wacReq[r].attempts > 0
    /\ wacReq' = [wacReq EXCEPT ![r].at = "done", ![r].result = "error"]
    /\ UNCHANGED <<wacLedger, wacMessages, wacLost, wacPending, wacHeard>>

\* remember, and the return: a status may have come before.
WacRemember(r) ==
    /\ wacReq[r].at = "remember"
    /\ wacLedger' = wacLedger \cup {<<r, wacReq[r].attempts>>}
    /\ wacReq' = [wacReq EXCEPT ![r].at = "done", ![r].result = "ok"]
    /\ UNCHANGED <<wacMessages, wacLost, wacPending, wacHeard>>

(***************************************************************************)
(* Webhooks.                                                               *)
(***************************************************************************)
\* Meta puts statuses of messages it took into a batch; a message's status is
\* in one batch.
WacReport(batch) ==
    /\ batch \subseteq wacMessages \ (wacHeard.acked \cup UNION wacPending)
    /\ batch # {}
    /\ wacPending' = wacPending \cup {batch}
    /\ UNCHANGED <<wacReq, wacLedger, wacMessages, wacLost, wacHeard>>

\* A bug: one unknown message holds up the whole batch.
WacKnownAll(batch) == IF batch \subseteq wacLedger THEN batch ELSE {}

\* TranslateStatus: the statuses the ledger resolves; the others are errors.
WacKnown(batch) == batch \cap wacLedger

\* A bug: the statuses of unknown messages are acknowledged with the batch.
WacAcknowledgesKnown(batch, taken) == taken = WacKnown(batch)

\* HandleWebhook returns an error, so that Meta sends the batch again, unless
\* every status was translated and taken.
WacAcknowledges(batch, taken) == taken = batch

\* HandleWebhook: each translated status goes to the ingest port, which takes
\* some of them, also when a sibling cannot be attributed or is refused.
WacHandleWebhook(batch, taken) ==
    LET acked == WacAcknowledges(batch, taken)
    IN  /\ taken \subseteq WacKnown(batch)
        /\ wacPending' = IF acked THEN wacPending \ {batch} ELSE wacPending
        /\ wacHeard' = [acked |-> IF acked THEN wacHeard.acked \cup batch ELSE wacHeard.acked,
                        delivered |-> wacHeard.delivered \cup taken]
        /\ UNCHANGED <<wacReq, wacLedger, wacMessages, wacLost>>

WacAnswers == {"ok", "put off", "lost", "garbled", "refused"}

WacNext ==
    \/ \E r \in WacRequests :
        \/ WacSend(r) \/ WacCanceled(r) \/ WacRemember(r)
        \/ \E takes \in BOOLEAN, answer \in WacAnswers : WacPost(r, takes, answer)
    \/ \E batch \in SUBSET wacMessages : WacReport(batch)
    \/ \E batch \in wacPending : \E taken \in SUBSET batch : WacHandleWebhook(batch, taken)

\* Meta sends a batch again until it is acknowledged, and the ingest port does
\* not refuse a status for ever: a batch with a status that can be delivered
\* is handled, sooner or later, by a call that delivers it.
WacFairness ==
    \A id \in WacIds :
        /\ WF_wacVars(\E r \in WacRequests : id[1] = r /\ WacRemember(r))
        /\ SF_wacVars(\E batch \in wacPending :
                        id \in WacKnown(batch) /\ WacHandleWebhook(batch, WacKnown(batch)))

WacSpec == WacInit /\ [][WacNext]_wacVars /\ WacFairness

(***************************************************************************)
(* Properties.                                                             *)
(***************************************************************************)
\* Meta stops sending a status only when it was delivered: a status that came
\* before its message was remembered, or that the ingest port refused, comes
\* again.
WacAckMeansDelivered == wacHeard.acked \subseteq wacHeard.delivered

\* A call sends its message again only after an answer that put it off: a
\* request whose answer was lost is the last of its call.
WacRepostNeedsAnswer ==
    \A id \in wacLost : \A k \in id[2] + 1 .. WacMaxAttempts : <<id[1], k>> \notin wacMessages

\* The status of a message whose send succeeded is delivered in the end, also
\* in a batch with one that never can be, because its send failed here.
WacStatusArrives ==
    \A id \in WacIds :
        (id \in wacLedger /\ id \in UNION wacPending) ~> (id \in wacHeard.delivered)

\* Both directions are honest: Meta's statuses are acknowledged when they were
\* delivered, and messages are sent again when Meta asked for it.
WacDeliveriesHonest == WacAckMeansDelivered /\ WacRepostNeedsAnswer
=============================================================================
