------------------------------ MODULE AtVoice -------------------------------
(***************************************************************************)
(* The Africa's Talking voice adapter: dial over REST, control by callback.*)
(*                                                                         *)
(* PlaceCall posts the dial, again after a retryable answer, and registers *)
(* the leg only when the carrier has queued it.  The carrier has no REST   *)
(* operation on a live call: Hangup and Transfer leave an action with the  *)
(* leg, and the answer to the carrier's next status callback carries it.   *)
(* Requests and callback handlers run concurrently; each step below is one *)
(* section under the adapter's mutex, or one exchange with the outside.    *)
(*                                                                         *)
(* The carrier and the ingest port are external.                           *)
(***************************************************************************)
EXTENDS Integers, FiniteSets

CONSTANTS
    AtvRequests,     \* API requests, records [op, leg]
    AtvMaxRetries,   \* maxRetries
    AtvMaxCallbacks  \* bound on the status callbacks of the carrier

AtvOps == {"place", "hangup", "transfer", "hold", "resume"}
AtvLegs == {r.leg : r \in AtvRequests}
AtvCallbacks == 1 .. AtvMaxCallbacks

ASSUME AtVoiceAssumption ==
    /\ \A r \in AtvRequests : r.op \in AtvOps
    /\ \A r, s \in AtvRequests : r.op = "place" /\ s.op = "place" /\ r.leg = s.leg => r = s
    /\ AtvMaxRetries \in Nat /\ AtvMaxCallbacks \in Nat

VARIABLES
    atvReq,   \* per request: position, POSTs made, and whether it acted
    atvLeg,   \* Adapter.legs: per interaction, registered, ended, held, action
    atvCb,    \* per callback: interaction, status, position of its handler
    atvCall,  \* external: per interaction, calls dialled and retryable answers
    atvTold   \* external: per interaction, actions the carrier was given

atvVars == <<atvReq, atvLeg, atvCb, atvCall, atvTold>>

AtvInit ==
    /\ atvReq = [r \in AtvRequests |-> [at |-> "idle", posts |-> 0, acted |-> FALSE]]
    /\ atvLeg = [i \in AtvLegs |-> [known |-> FALSE, ended |-> FALSE, held |-> FALSE, action |-> "none"]]
    /\ atvCb = [k \in AtvCallbacks |-> [at |-> "none", leg |-> "none", status |-> "none"]]
    /\ atvCall = [i \in AtvLegs |-> [dialled |-> 0, postponed |-> 0]]
    /\ atvTold = [i \in AtvLegs |-> {}]

AtvAt(r, from, to) == atvReq[r].at = from /\ atvReq' = [atvReq EXCEPT ![r].at = to]
AtvActs(r, from, to) ==
    atvReq[r].at = from /\ atvReq' = [atvReq EXCEPT ![r].at = to, ![r].acted = TRUE]

(***************************************************************************)
(* PlaceCall.                                                              *)
(***************************************************************************)
\* An interaction that has a leg is a conflict; the lock is not held further.
AtvPlaceCall(r) ==
    /\ r.op = "place" /\ ~atvLeg[r.leg].known
    /\ AtvAt(r, "idle", "post")
    /\ UNCHANGED <<atvLeg, atvCb, atvCall, atvTold>>

\* A bug: a POST whose answer was lost is repeated.
AtvRetryableLost(answer) == answer \in {"busy", "lost"}

\* How postCall classifies an answer: 409, 429 and 5xx are worth another POST,
\* a transport error is not.
AtvRetryable(answer) == answer = "busy"

\* postCall: the carrier dials or not, and the answer arrives.  "busy" is
\* 409, 429 or 5xx, "lost" a transport error, "refused" any other 4xx, an
\* unreadable envelope, or an entry that is not Queued.
AtvPost(r, dials, answer) ==
    LET again == AtvRetryable(answer) /\ atvReq[r].posts < AtvMaxRetries
    IN  /\ atvReq[r].at = "post"
        /\ answer = "queued" => dials
        /\ atvCall' = [atvCall EXCEPT ![r.leg].dialled = IF dials THEN @ + 1 ELSE @,
                                      ![r.leg].postponed = IF answer = "busy" THEN @ + 1 ELSE @]
        /\ atvReq' = [atvReq EXCEPT ![r].posts = @ + 1,
                                    ![r].at = CASE answer = "queued" -> "register"
                                                [] again             -> "post"
                                                [] OTHER             -> "done"]
        /\ UNCHANGED <<atvLeg, atvCb, atvTold>>

\* The caller's context ends before the next POST.
AtvCanceled(r) ==
    /\ AtvAt(r, "post", "done")
    /\ UNCHANGED <<atvLeg, atvCb, atvCall, atvTold>>

\* The leg and its session are registered once the dial is queued.
AtvRegister(r) ==
    /\ AtvActs(r, "register", "done")
    /\ atvLeg' = [atvLeg EXCEPT ![r.leg].known = TRUE]
    /\ UNCHANGED <<atvCb, atvCall, atvTold>>

(***************************************************************************)
(* Hangup, Transfer, Hold, Resume.                                         *)
(***************************************************************************)
\* lookupLeg and the look at leg.ended, which no lock protects: an ended leg
\* needs no hangup and cannot be transferred or held.
AtvCommand(r) ==
    LET leg == atvLeg[r.leg]
    IN  /\ r.op # "place" /\ leg.known
        /\ AtvAt(r, "idle", IF leg.ended THEN "done"
                             ELSE IF r.op = "hangup" THEN "mark" ELSE "act")
        /\ UNCHANGED <<atvLeg, atvCb, atvCall, atvTold>>

\* A bug: ending a leg drops the action that waits for the next callback.
AtvMarkEndedDrops(i) == [atvLeg EXCEPT ![i].ended = TRUE, ![i].held = FALSE, ![i].action = "none"]

AtvMarkEnded(i) == [atvLeg EXCEPT ![i].ended = TRUE, ![i].held = FALSE]

AtvHangupMarks(r) ==
    /\ AtvAt(r, "mark", "act")
    /\ atvLeg' = AtvMarkEnded(r.leg)
    /\ UNCHANGED <<atvCb, atvCall, atvTold>>

\* queueAction (the latest replaces what was there), or the hold flag.
AtvAct(r) ==
    /\ AtvActs(r, "act", IF r.op \in {"hold", "resume"} THEN "done" ELSE "deliver")
    /\ atvLeg' = IF r.op \in {"hold", "resume"} THEN [atvLeg EXCEPT ![r.leg].held = r.op = "hold"]
                 ELSE [atvLeg EXCEPT ![r.leg].action = r.op]
    /\ UNCHANGED <<atvCb, atvCall, atvTold>>

\* deliver: call.ended or the transfer's call.ringing, tried twice; the request
\* returns the error of the second try.
AtvDeliver(r) ==
    /\ AtvAt(r, "deliver", "done")
    /\ UNCHANGED <<atvLeg, atvCb, atvCall, atvTold>>

\* Completed, Failed, Busy and NoAnswer end the leg; Queued and InProgress do not.
AtvTerminal(status) == status = "terminal"

(***************************************************************************)
(* Status callbacks.                                                       *)
(***************************************************************************)
\* HandleStatusCallback: routeCallback and TranslateStatus; a callback for a
\* leg that is not registered is rejected, a terminal status marks the leg.
AtvCallback(k, i, status) ==
    /\ atvCb[k].at = "none" /\ \A j \in 1 .. k - 1 : atvCb[j].at # "none"
    /\ atvCall[i].dialled > 0
    /\ atvCb' = [atvCb EXCEPT ![k] = [at |-> IF atvLeg[i].known THEN "deliver" ELSE "rejected",
                                      leg |-> i, status |-> status]]
    /\ atvLeg' = IF atvLeg[i].known /\ AtvTerminal(status) THEN AtvMarkEnded(i) ELSE atvLeg
    /\ UNCHANGED <<atvReq, atvCall, atvTold>>

\* The event is delivered, or refused twice: then the answer is an error and
\* the action stays with the leg.
AtvCallbackDelivers(k) ==
    /\ atvCb[k].at = "deliver"
    /\ \E to \in {"respond", "rejected"} : atvCb' = [atvCb EXCEPT ![k].at = to]
    /\ UNCHANGED <<atvReq, atvLeg, atvCall, atvTold>>

\* drainAction, and what renderAction makes of it for the carrier.
AtvDrained(leg) == [leg EXCEPT !.action = "none"]
AtvRespond(k) ==
    LET i == atvCb[k].leg
    IN  /\ atvCb[k].at = "respond"
        /\ atvCb' = [atvCb EXCEPT ![k].at = "answered"]
        /\ atvTold' = [atvTold EXCEPT ![i] = @ \cup ({atvLeg[i].action} \ {"none"})]
        /\ atvLeg' = [atvLeg EXCEPT ![i] = AtvDrained(@)]
        /\ UNCHANGED <<atvReq, atvCall>>

AtvAnswers == {"queued", "busy", "lost", "refused"}

AtvNext ==
    \/ \E r \in AtvRequests :
        \/ AtvPlaceCall(r) \/ AtvCanceled(r) \/ AtvRegister(r)
        \/ \E dials \in BOOLEAN, answer \in AtvAnswers : AtvPost(r, dials, answer)
        \/ AtvCommand(r) \/ AtvHangupMarks(r) \/ AtvAct(r) \/ AtvDeliver(r)
    \/ \E k \in AtvCallbacks :
        \/ \E i \in AtvLegs, status \in {"progress", "terminal"} : AtvCallback(k, i, status)
        \/ AtvCallbackDelivers(k) \/ AtvRespond(k)

AtvSpec == AtvInit /\ [][AtvNext]_atvVars

(***************************************************************************)
(* Properties.                                                             *)
(***************************************************************************)
\* An accepted Hangup is not forgotten: its action waits with the leg or was
\* given to the carrier, whatever callbacks drained meanwhile, unless a
\* Transfer of the same leg queued its own.
AtvHangupKept ==
    \A r \in AtvRequests :
        r.op = "hangup" /\ atvReq[r].acted
            => \/ "hangup" \in atvTold[r.leg] \cup {atvLeg[r.leg].action}
               \/ \E t \in AtvRequests : t.leg = r.leg /\ t.op = "transfer" /\ atvReq[t].acted

\* The carrier is asked to dial again only if it answered an earlier POST with
\* a retryable status: a POST whose answer was lost may have dialled.
AtvRedialNeedsAnswer ==
    \A i \in AtvLegs : atvCall[i].dialled <= 1 + atvCall[i].postponed

\* What an accepted command means: a Hangup reaches the carrier, and a place
\* dials again only on the carrier's word.
AtvCommandsHonest == AtvHangupKept /\ AtvRedialNeedsAnswer
=============================================================================
