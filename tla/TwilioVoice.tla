---------------------------- MODULE TwilioVoice -----------------------------
(***************************************************************************)
(* The Twilio voice adapter: every operation is a REST call.               *)
(*                                                                         *)
(* post tries a call again after 429, 5xx and transport errors alike.      *)
(* PlaceCall registers the call sid Twilio returned; the other operations  *)
(* address it.  Status callbacks name their interaction and tenant in the  *)
(* URL PlaceCall gave, so they need no registered leg.                    *)
(*                                                                         *)
(* Twilio and the ingest port are external.                                *)
(***************************************************************************)
EXTENDS Integers, FiniteSets

CONSTANTS
    TwvRequests,     \* API requests, records [op, leg]
    TwvMaxRetries    \* maxRetries

TwvOps == {"place", "hangup", "transfer", "hold", "resume"}
TwvLegs == {r.leg : r \in TwvRequests}

ASSUME TwilioVoiceAssumption ==
    /\ \A r \in TwvRequests : r.op \in TwvOps
    /\ \A r, s \in TwvRequests : r.op = "place" /\ s.op = "place" /\ r.leg = s.leg => r = s
    /\ TwvMaxRetries \in Nat

\* A call sid: the POST that created the call.
TwvSids == 1 .. TwvMaxRetries + 1
TwvUnregistered == 0  \* no leg
TwvNoSid == -1        \* the response carried no sid: "leg_unaddressable"

VARIABLES
    twvReq,     \* per request: position, POSTs made, sid addressed, what it returned
    twvLeg,     \* Adapter.legs: per interaction its call sid, or none
    twvCall,    \* external: per interaction and sid, the call's state
    twvSent     \* history: per interaction, the lifecycle events delivered

twvVars == <<twvReq, twvLeg, twvCall, twvSent>>

TwvInit ==
    /\ twvReq = [r \in TwvRequests |-> [at |-> "idle", posts |-> 0, sid |-> 0, result |-> "none"]]
    /\ twvLeg = [i \in TwvLegs |-> TwvUnregistered]
    /\ twvCall = [i \in TwvLegs |-> [n \in TwvSids |-> "none"]]
    /\ twvSent = [i \in TwvLegs |-> {}]

(***************************************************************************)
(* client.post.                                                            *)
(***************************************************************************)
\* retryableStatus, and the transport errors, which are retried as well.
TwvRetryable(answer) == answer \in {"unavailable", "lost"}

\* A 2xx answer: what was asked is done, also if the body cannot be parsed,
\* which is an error and not tried again.
TwvAccepted(answer) == answer \in {"ok", "garbled"}

\* One attempt has been answered; the last one's failure is returned.
TwvAttempt(r, answer, found) ==
    LET again == TwvRetryable(answer) /\ twvReq[r].posts < TwvMaxRetries
    IN  twvReq' = [twvReq EXCEPT ![r].posts = @ + 1,
                        ![r].at = CASE answer = "ok" -> "answered" [] again -> "post" [] OTHER -> "done",
                        ![r].sid = IF answer = "ok" THEN found ELSE @,
                        ![r].result = CASE answer = "ok" -> "none" [] again -> "none" [] OTHER -> "error"]

\* The context ends while post waits between attempts.
TwvCanceled(r) ==
    /\ twvReq[r].at = "post" /\ twvReq[r].posts > 0
    /\ twvReq' = [twvReq EXCEPT ![r].at = "done", ![r].result = "error"]
    /\ UNCHANGED <<twvLeg, twvCall, twvSent>>

(***************************************************************************)
(* PlaceCall.                                                              *)
(***************************************************************************)
TwvPlaceCall(r) ==
    /\ r.op = "place" /\ twvReq[r].at = "idle"
    /\ twvReq' = [twvReq EXCEPT ![r].at = "post"]
    /\ UNCHANGED <<twvLeg, twvCall, twvSent>>

\* An attempt to dial: each POST that reaches Twilio dials a call of its own.
TwvDial(r, dials, answer) ==
    LET n == twvReq[r].posts + 1
    IN  /\ r.op = "place" /\ twvReq[r].at = "post"
        /\ TwvAccepted(answer) => dials
        /\ answer = "refused" => ~dials
        /\ twvCall' = [twvCall EXCEPT ![r.leg][n] = IF dials THEN "live" ELSE @]
        /\ \E found \in {n, TwvNoSid} : TwvAttempt(r, answer, found)
        /\ UNCHANGED <<twvLeg, twvSent>>

TwvRegister(r) ==
    /\ r.op = "place" /\ twvReq[r].at = "answered"
    /\ twvLeg' = [twvLeg EXCEPT ![r.leg] = twvReq[r].sid]
    /\ twvReq' = [twvReq EXCEPT ![r].at = "done", ![r].result = "ok"]
    /\ UNCHANGED <<twvCall, twvSent>>

(***************************************************************************)
(* Hangup, Transfer, Hold, Resume.                                         *)
(***************************************************************************)
\* A leg this process did not place, or that has no sid, is an error.
TwvCommand(r) ==
    /\ r.op # "place" /\ twvReq[r].at = "idle"
    /\ twvReq' = IF twvLeg[r.leg] \in TwvSids
                 THEN [twvReq EXCEPT ![r].at = "post", ![r].sid = twvLeg[r.leg]]
                 ELSE [twvReq EXCEPT ![r].at = "done", ![r].result = "error"]
    /\ UNCHANGED <<twvLeg, twvCall, twvSent>>

\* An attempt to change the call: Twilio refuses one that is over.
TwvUpdate(r, runs, answer) ==
    LET n == twvReq[r].sid
    IN  /\ r.op # "place" /\ twvReq[r].at = "post"
        /\ TwvAccepted(answer) => runs
        /\ answer = "refused" => ~runs
        /\ runs => twvCall[r.leg][n] = "live"
        /\ twvCall' = [twvCall EXCEPT ![r.leg][n] = IF runs /\ r.op = "hangup" THEN "over" ELSE @]
        /\ TwvAttempt(r, answer, n)
        /\ UNCHANGED <<twvLeg, twvSent>>

\* Transfer announces the new ringing phase itself, then returns; it returns
\* the ingest port's error although the call was transferred.
TwvReturns(r) ==
    /\ r.op # "place" /\ twvReq[r].at = "answered"
    /\ \E result \in {"ok"} \cup (IF r.op = "transfer" THEN {"error"} ELSE {}) :
        twvReq' = [twvReq EXCEPT ![r].at = "done", ![r].result = result]
    /\ UNCHANGED <<twvLeg, twvCall, twvSent>>

(***************************************************************************)
(* Status callbacks.                                                       *)
(***************************************************************************)
TwvTerminal == {"completed", "failed"}

\* A bug: an answered call is reported as ended.
TwvEventEndsEarly(status) == IF status = "ringing" THEN "call.ringing" ELSE "call.ended"

\* TranslateStatusCallback: every terminal status is a call.ended.
TwvEvent(status) ==
    CASE status = "ringing"     -> "call.ringing"
      [] status = "in-progress" -> "call.connected"
      [] OTHER                  -> "call.ended"

\* HandleStatusCallback: the event of call n is delivered under interaction i;
\* the URL names it, so it needs no registered leg.  The ingest port may refuse
\* the event (502) and Twilio does not send it again.
TwvCallback(i, n, status) ==
    /\ twvCall[i][n] = "live" \/ (twvCall[i][n] = "over" /\ status = "completed")
    /\ twvCall' = [twvCall EXCEPT ![i][n] = IF status \in TwvTerminal THEN "reported" ELSE @]
    /\ \E delivered \in BOOLEAN :
        twvSent' = [twvSent EXCEPT ![i] = IF delivered THEN @ \cup {TwvEvent(status)} ELSE @]
    /\ UNCHANGED <<twvReq, twvLeg>>

TwvAnswers == {"ok", "garbled", "unavailable", "lost", "refused"}

TwvNext ==
    \/ \E r \in TwvRequests :
        \/ TwvPlaceCall(r) \/ TwvCanceled(r) \/ TwvRegister(r) \/ TwvCommand(r) \/ TwvReturns(r)
        \/ \E does \in BOOLEAN, answer \in TwvAnswers : TwvDial(r, does, answer) \/ TwvUpdate(r, does, answer)
    \/ \E i \in TwvLegs, n \in TwvSids, status \in {"ringing", "in-progress", "completed", "failed"} :
        TwvCallback(i, n, status)

TwvSpec == TwvInit /\ [][TwvNext]_twvVars

(***************************************************************************)
(* Properties.                                                             *)
(***************************************************************************)
\* A Hangup that reported success ended the call it addressed: no error of
\* the last attempt is taken for an answer.
TwvHangupTruthful ==
    \A r \in TwvRequests :
        r.op = "hangup" /\ twvReq[r].result = "ok" => twvCall[r.leg][twvReq[r].sid] \in {"over", "reported"}

\* When call.ended was delivered no call of the interaction is live, unless
\* PlaceCall posted more than once.
TwvEndedIsOver ==
    \A r \in TwvRequests :
        r.op = "place" /\ twvReq[r].posts = 1 /\ "call.ended" \in twvSent[r.leg]
            => \A n \in TwvSids : twvCall[r.leg][n] # "live"

\* What the adapter reports is true of the carrier's call: a Hangup that
\* succeeded and a call.ended that was delivered.
TwvTruthful == TwvHangupTruthful /\ TwvEndedIsOver
=============================================================================
