----------------------------- MODULE TwilioSms ------------------------------
(***************************************************************************)
(* The Twilio messaging adapter: Send claims the interaction, posts it     *)
(* with retries after 429 and 5xx, and gives the claim back if that fails. *)
(* A Send that finds the claim taken reports success.  Status callbacks    *)
(* name their interaction in the URL Send gave.                            *)
(*                                                                         *)
(* Twilio and the ingest port are external.                                *)
(***************************************************************************)
EXTENDS Integers, FiniteSets

CONSTANTS
    TwsRequests,  \* calls of Send, records [msg, n]: several may send one interaction
    TwsMaxRetries \* MaxRetries

TwsMessages == {r.msg : r \in TwsRequests}

ASSUME TwilioSmsAssumption == TwsMaxRetries \in Nat

VARIABLES
    twsReq,   \* per request: position, POSTs made, result
    twsSent,  \* Adapter.sentIDs
    twsSms,   \* external: per interaction, messages taken, those whose answer
              \* said so, and those whose answer left the adapter unsure
    twsEvents \* history: per interaction, the receipts delivered

twsVars == <<twsReq, twsSent, twsSms, twsEvents>>

TwsInit ==
    /\ twsReq = [r \in TwsRequests |-> [at |-> "idle", posts |-> 0, result |-> "none"]]
    /\ twsSent = {}
    /\ twsSms = [i \in TwsMessages |-> [taken |-> 0, accepted |-> 0, unsure |-> 0]]
    /\ twsEvents = [i \in TwsMessages |-> {}]

\* claimInteraction: this call owns the send.
TwsClaim(r) ==
    /\ twsReq[r].at = "idle" /\ r.msg \notin twsSent
    /\ twsSent' = twsSent \cup {r.msg}
    /\ twsReq' = [twsReq EXCEPT ![r].at = "post"]
    /\ UNCHANGED <<twsSms, twsEvents>>

\* claimInteraction: another does, or did; nothing is sent and nothing is wrong.
TwsDuplicate(r) ==
    /\ twsReq[r].at = "idle" /\ r.msg \in twsSent
    /\ twsReq' = [twsReq EXCEPT ![r].at = "done", ![r].result = "ok"]
    /\ UNCHANGED <<twsSent, twsSms, twsEvents>>

\* postMessage: 429 and 5xx are tried again; transport errors are not.
TwsRetryable(answer) == answer = "unavailable"

TwsPost(r, takes, answer) ==
    LET again == TwsRetryable(answer) /\ twsReq[r].posts < TwsMaxRetries
    IN  /\ twsReq[r].at = "post"
        /\ answer = "ok" => takes
        /\ answer = "refused" => ~takes
        /\ twsSms' = [twsSms EXCEPT ![r.msg] =
                [taken |-> IF takes THEN @.taken + 1 ELSE @.taken,
                 accepted |-> IF answer = "ok" THEN @.accepted + 1 ELSE @.accepted,
                 unsure |-> IF takes /\ answer # "ok" THEN @.unsure + 1 ELSE @.unsure]]
        /\ twsReq' = [twsReq EXCEPT ![r] =
                [at |-> CASE answer = "ok" -> "done" [] again -> "post" [] OTHER -> "failed",
                 posts |-> @.posts + 1,
                 result |-> IF answer = "ok" THEN "ok" ELSE @.result]]
        /\ UNCHANGED <<twsSent, twsEvents>>

\* The context has ended before an attempt.
TwsCanceled(r) ==
    /\ twsReq[r].at = "post"
    /\ twsReq' = [twsReq EXCEPT ![r].at = "failed"]
    /\ UNCHANGED <<twsSent, twsSms, twsEvents>>

\* A bug: a failed send keeps its claim.
TwsReleaseForgotten(r) ==
    /\ twsReq[r].at = "failed"
    /\ twsReq' = [twsReq EXCEPT ![r].at = "done", ![r].result = "error"]
    /\ UNCHANGED <<twsSent, twsSms, twsEvents>>

\* releaseInteraction: the next call is a retry, not a duplicate.
TwsRelease(r) ==
    /\ twsReq[r].at = "failed"
    /\ twsSent' = twsSent \ {r.msg}
    /\ twsReq' = [twsReq EXCEPT ![r].at = "done", ![r].result = "error"]
    /\ UNCHANGED <<twsSms, twsEvents>>

\* twilioStatusEvent: undelivered and failed are one event.
TwsEvent(status) ==
    CASE status = "sent"      -> "message.sent"
      [] status = "delivered" -> "message.delivered"
      [] OTHER                -> "message.failed"

\* HandleStatusCallback of a message the carrier took.
TwsCallback(i, status) ==
    /\ twsSms[i].taken > 0
    /\ twsEvents' = [twsEvents EXCEPT ![i] = @ \cup {TwsEvent(status)}]
    /\ UNCHANGED <<twsReq, twsSent, twsSms>>

TwsAnswers == {"ok", "unavailable", "lost", "refused"}

TwsNext ==
    \/ \E r \in TwsRequests :
        \/ TwsClaim(r) \/ TwsDuplicate(r) \/ TwsCanceled(r) \/ TwsRelease(r)
        \/ \E takes \in BOOLEAN, answer \in TwsAnswers : TwsPost(r, takes, answer)
    \/ \E i \in TwsMessages, status \in {"sent", "delivered", "failed"} : TwsCallback(i, status)

TwsSpec == TwsInit /\ [][TwsNext]_twsVars

(***************************************************************************)
(* Properties.                                                             *)
(***************************************************************************)
\* Concurrent and repeated calls of Send never bill twice: a second message is
\* taken only after the carrier took one without saying so.
TwsRebillExplained == \A i \in TwsMessages : twsSms[i].taken <= 1 + twsSms[i].unsure

\* No claim is left behind, and none is given back too soon: an interaction is
\* claimed exactly while one call is sending it or once a send was accepted.
\* So a call that fails leaves the next one a genuine retry.
TwsClaimHonest ==
    \A i \in TwsMessages :
        LET sending == {r \in TwsRequests : r.msg = i /\ twsReq[r].at \in {"post", "failed"}}
        IN  i \in twsSent <=> Cardinality(sending) + twsSms[i].accepted = 1

\* One message per interaction: a claim stands for a send, and a second message
\* has a cause.
TwsSingleSend == TwsRebillExplained /\ TwsClaimHonest
=============================================================================
