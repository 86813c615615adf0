----------------------------- MODULE SendProofs -----------------------------
(***************************************************************************)
(* Theorems about the message carrier adapters: what they send, what they  *)
(* acknowledge and what they remember.                                     *)
(***************************************************************************)
EXTENDS MessagingPlane, FiniteSetTheorems, WellFoundedInduction, SequenceTheorems, TLAPS

(***************************************************************************)
(* The Twilio messaging adapter.                                           *)
(***************************************************************************)
TwsReqs == [at : {"idle", "post", "failed", "done"}, posts : Nat, result : {"none", "ok", "error"}]
TwsCounts == [taken : Nat, accepted : Nat, unsure : Nat]

TwsType ==
    /\ twsReq \in [TwsRequests -> TwsReqs]
    /\ twsSent \subseteq TwsMessages
    /\ twsSms \in [TwsMessages -> TwsCounts]

TwsSending(r) == twsReq[r].at \in {"post", "failed"}

\* A call that sends has the claim, alone, and nothing was accepted before it.
TwsOwned ==
    \A r \in TwsRequests : TwsSending(r) =>
        /\ r.msg \in twsSent /\ twsSms[r.msg].accepted = 0
        /\ \A s \in TwsRequests : TwsSending(s) /\ s.msg = r.msg => s = r

\* A claim that no call has any more is one whose send was accepted.
TwsHonest ==
    \A i \in TwsMessages :
        /\ twsSms[i].accepted > 0 => twsSms[i].accepted = 1 /\ i \in twsSent
        /\ i \in twsSent => twsSms[i].accepted = 1 \/ \E r \in TwsRequests : TwsSending(r) /\ r.msg = i
        /\ twsSms[i].taken = twsSms[i].accepted + twsSms[i].unsure

TwsInv == TwsType /\ TwsOwned /\ TwsHonest

LEMMA TwsMoves ==
  ASSUME TwsType, NEW r \in TwsRequests, NEW t \in TwsReqs, twsReq' = [twsReq EXCEPT ![r] = t]
  PROVE  /\ twsReq' \in [TwsRequests -> TwsReqs] /\ twsReq'[r] = t /\ r.msg \in TwsMessages
         /\ \A s \in TwsRequests : s # r => twsReq'[s] = twsReq[s]
  BY DEF TwsType, TwsMessages

LEMMA TwsInitInv == TwsInit => TwsInv
  BY DEF TwsInit, TwsInv, TwsType, TwsReqs, TwsCounts, TwsOwned, TwsHonest, TwsSending, TwsMessages

LEMMA TwsClaimKeeps == ASSUME TwsInv, NEW r \in TwsRequests, TwsClaim(r) PROVE TwsInv'
<1> DEFINE t == [twsReq[r] EXCEPT !.at = "post"]
<1>1. t \in TwsReqs /\ t.at = "post" /\ twsReq' = [twsReq EXCEPT ![r] = t]
  BY DEF TwsInv, TwsType, TwsReqs, TwsClaim
<1> HIDE DEF t
<1>2. TwsType'
  BY <1>1, TwsMoves DEF TwsInv, TwsType, TwsClaim
<1>3. TwsSending(r)' /\ ~TwsSending(r) /\ r.msg \in TwsMessages /\ \A s \in TwsRequests : s # r => (TwsSending(s)' <=> TwsSending(s))
  BY <1>1, TwsMoves DEF TwsInv, TwsSending, TwsClaim
<1>4. twsSms[r.msg].accepted = 0
  BY <1>3 DEF TwsInv, TwsHonest, TwsType, TwsCounts, TwsClaim
<1>5. TwsOwned'
  BY <1>3, <1>4 DEF TwsInv, TwsOwned, TwsClaim
<1>6. TwsHonest'
  BY <1>3 DEF TwsInv, TwsHonest, TwsClaim
<1> QED
  BY <1>2, <1>5, <1>6 DEF TwsInv

LEMMA TwsDuplicateKeeps == ASSUME TwsInv, NEW r \in TwsRequests, TwsDuplicate(r) PROVE TwsInv'
<1> DEFINE t == [twsReq[r] EXCEPT !.at = "done", !.result = "ok"]
<1>1. t \in TwsReqs /\ t.at = "done" /\ twsReq' = [twsReq EXCEPT ![r] = t]
  BY DEF TwsInv, TwsType, TwsReqs, TwsDuplicate
<1> HIDE DEF t
<1>2. TwsType'
  BY <1>1, TwsMoves DEF TwsInv, TwsType, TwsDuplicate
<1>3. \A s \in TwsRequests : TwsSending(s)' <=> TwsSending(s)
  BY <1>1, TwsMoves DEF TwsInv, TwsSending, TwsDuplicate
<1> QED
  BY <1>2, <1>3 DEF TwsInv, TwsOwned, TwsHonest, TwsDuplicate

LEMMA TwsCanceledKeeps == ASSUME TwsInv, NEW r \in TwsRequests, TwsCanceled(r) PROVE TwsInv'
<1> DEFINE t == [twsReq[r] EXCEPT !.at = "failed"]
<1>1. t \in TwsReqs /\ t.at = "failed" /\ twsReq' = [twsReq EXCEPT ![r] = t]
  BY DEF TwsInv, TwsType, TwsReqs, TwsCanceled
<1> HIDE DEF t
<1>2. TwsType'
  BY <1>1, TwsMoves DEF TwsInv, TwsType, TwsCanceled
<1>3. \A s \in TwsRequests : TwsSending(s)' <=> TwsSending(s)
  BY <1>1, TwsMoves DEF TwsInv, TwsSending, TwsCanceled
<1> QED
  BY <1>2, <1>3 DEF TwsInv, TwsOwned, TwsHonest, TwsCanceled

LEMMA TwsReleaseKeeps == ASSUME TwsInv, NEW r \in TwsRequests, TwsRelease(r) PROVE TwsInv'
<1> DEFINE t == [twsReq[r] EXCEPT !.at = "done", !.result = "error"]
<1>1. t \in TwsReqs /\ t.at = "done" /\ twsReq' = [twsReq EXCEPT ![r] = t]
  BY DEF TwsInv, TwsType, TwsReqs, TwsRelease
<1> HIDE DEF t
<1>2. TwsType'
  BY <1>1, TwsMoves DEF TwsInv, TwsType, TwsRelease
<1>3. ~TwsSending(r)' /\ TwsSending(r) /\ \A s \in TwsRequests : s # r => (TwsSending(s)' <=> TwsSending(s))
  BY <1>1, TwsMoves DEF TwsInv, TwsSending, TwsRelease
<1>4. \A s \in TwsRequests : TwsSending(s)' => s.msg # r.msg
  BY <1>3 DEF TwsInv, TwsOwned
<1>5. TwsOwned'
  BY <1>3, <1>4 DEF TwsInv, TwsOwned, TwsRelease
<1>6. twsSms[r.msg].accepted = 0 /\ twsSent' = twsSent \ {r.msg} /\ twsSms' = twsSms
  BY <1>3 DEF TwsInv, TwsOwned, TwsRelease
<1>7. TwsHonest'
  <2> SUFFICES ASSUME NEW i \in TwsMessages
               PROVE  /\ twsSms[i].accepted > 0 => twsSms[i].accepted = 1 /\ i \in twsSent'
                      /\ i \in twsSent' => twsSms[i].accepted = 1 \/ \E s \in TwsRequests : TwsSending(s)' /\ s.msg = i
                      /\ twsSms[i].taken = twsSms[i].accepted + twsSms[i].unsure
    BY <1>6 DEF TwsHonest
  <2>1. CASE i = r.msg
    BY <1>6, <2>1 DEF TwsInv, TwsHonest
  <2>2. CASE i # r.msg
    BY <1>3, <1>6, <2>2 DEF TwsInv, TwsHonest
  <2> QED
    BY <2>1, <2>2
<1> QED
  BY <1>2, <1>5, <1>7 DEF TwsInv

LEMMA TwsPostKeeps ==
  ASSUME TwsInv, NEW r \in TwsRequests, NEW takes \in BOOLEAN, NEW answer \in TwsAnswers, TwsPost(r, takes, answer)
  PROVE  TwsInv'
<1> DEFINE m == r.msg
           c == [taken |-> IF takes THEN twsSms[m].taken + 1 ELSE twsSms[m].taken,
                 accepted |-> IF answer = "ok" THEN twsSms[m].accepted + 1 ELSE twsSms[m].accepted,
                 unsure |-> IF takes /\ answer # "ok" THEN twsSms[m].unsure + 1 ELSE twsSms[m].unsure]
<1>1. m \in TwsMessages /\ TwsSending(r) /\ twsSms[m] \in TwsCounts /\ twsReq[r] \in TwsReqs
  BY DEF TwsInv, TwsType, TwsMessages, TwsPost, TwsSending
<1>2. PICK u \in TwsReqs : /\ twsReq' = [twsReq EXCEPT ![r] = u]
                           /\ u.at = "done" <=> answer = "ok"
                           /\ u.at \in {"post", "failed", "done"}
  <2> DEFINE u == [at |-> CASE answer = "ok" -> "done"
                            [] TwsRetryable(answer) /\ twsReq[r].posts < TwsMaxRetries -> "post"
                            [] OTHER -> "failed",
                   posts |-> twsReq[r].posts + 1,
                   result |-> IF answer = "ok" THEN "ok" ELSE twsReq[r].result]
  <2>1. twsReq' = [twsReq EXCEPT ![r] = u]
    BY DEF TwsPost
  <2>2. u.at \in {"post", "failed", "done"} /\ (u.at = "done" <=> answer = "ok")
    BY DEF TwsRetryable
  <2>3. u.posts \in Nat /\ u.result \in {"none", "ok", "error"}
    BY <1>1 DEF TwsReqs
  <2>4. u \in TwsReqs
    BY <2>2, <2>3 DEF TwsReqs
  <2> QED
    BY <2>1, <2>2, <2>4
<1>3. c \in TwsCounts /\ twsSms' = [twsSms EXCEPT ![m] = c] /\ c.taken = c.accepted + c.unsure
  <2>1. twsSms[m].taken = twsSms[m].accepted + twsSms[m].unsure
    BY <1>1 DEF TwsInv, TwsHonest
  <2>2. twsSms' = [twsSms EXCEPT ![m] = c] /\ (answer = "ok" => takes)
    BY DEF TwsPost
  <2> QED
    BY <1>1, <2>1, <2>2 DEF TwsCounts
<1>4. c.accepted = (IF answer = "ok" THEN 1 ELSE 0)
  <2>1. twsSms[m].accepted = 0
    BY <1>1 DEF TwsInv, TwsOwned
  <2> QED
    BY <2>1
<1> HIDE DEF c, m
<1>5. TwsType'
  <2>1. twsReq' \in [TwsRequests -> TwsReqs]
    BY <1>2, TwsMoves DEF TwsInv
  <2>2. twsSms' \in [TwsMessages -> TwsCounts]
    BY <1>1, <1>3 DEF TwsInv, TwsType
  <2> QED
    BY <2>1, <2>2 DEF TwsInv, TwsType, TwsPost
<1>6. (TwsSending(r)' <=> answer # "ok") /\ \A s \in TwsRequests : s # r => (TwsSending(s)' <=> TwsSending(s))
  BY <1>2, TwsMoves DEF TwsInv, TwsSending
<1>7. \A s \in TwsRequests : s # r /\ TwsSending(s) => s.msg # m
  BY <1>1 DEF TwsInv, TwsOwned, m
<1>8. /\ twsSms'[m] = c /\ twsSent' = twsSent /\ m \in twsSent
      /\ \A i \in TwsMessages : i # m => twsSms'[i] = twsSms[i]
  BY <1>1, <1>3 DEF TwsInv, TwsType, TwsOwned, TwsPost, m
<1>9. TwsOwned'
  <2> SUFFICES ASSUME NEW s \in TwsRequests, TwsSending(s)'
               PROVE  /\ s.msg \in twsSent' /\ twsSms'[s.msg].accepted = 0
                      /\ \A q \in TwsRequests : TwsSending(q)' /\ q.msg = s.msg => q = s
    BY DEF TwsOwned
  <2>1. CASE s = r
    BY <1>4, <1>6, <1>7, <1>8, <2>1 DEF TwsInv, TwsOwned, m
  <2>2. CASE s # r
    <3>1. TwsSending(s) /\ s.msg # m /\ s.msg \in TwsMessages
      BY <1>6, <1>7, <2>2 DEF TwsMessages
    <3> QED
      BY <1>6, <1>8, <3>1 DEF TwsInv, TwsOwned, m
  <2> QED
    BY <2>1, <2>2
<1>10. TwsHonest'
  <2> SUFFICES ASSUME NEW i \in TwsMessages
               PROVE  /\ twsSms'[i].accepted > 0 => twsSms'[i].accepted = 1 /\ i \in twsSent'
                      /\ i \in twsSent' => twsSms'[i].accepted = 1 \/ \E s \in TwsRequests : TwsSending(s)' /\ s.msg = i
                      /\ twsSms'[i].taken = twsSms'[i].accepted + twsSms'[i].unsure
    BY DEF TwsHonest
  <2>1. CASE i = m
    BY <1>3, <1>4, <1>6, <1>8, <2>1 DEF m
  <2>2. CASE i # m
    BY <1>6, <1>8, <2>2 DEF TwsInv, TwsHonest, m
  <2> QED
    BY <2>1, <2>2
<1> QED
  BY <1>5, <1>9, <1>10 DEF TwsInv

LEMMA TwsNextInv == TwsInv /\ [TwsNext]_twsVars => TwsInv'
<1> SUFFICES ASSUME TwsInv, [TwsNext]_twsVars PROVE TwsInv'
  OBVIOUS
<1>1. CASE UNCHANGED twsVars
  BY <1>1 DEF twsVars, TwsInv, TwsType, TwsOwned, TwsHonest, TwsSending
<1>2. ASSUME NEW i \in TwsMessages, NEW status \in {"sent", "delivered", "failed"}, TwsCallback(i, status)
      PROVE  TwsInv'
  BY <1>2 DEF TwsCallback, TwsInv, TwsType, TwsOwned, TwsHonest, TwsSending
<1> QED
  BY <1>1, <1>2, TwsClaimKeeps, TwsDuplicateKeeps, TwsCanceledKeeps, TwsReleaseKeeps, TwsPostKeeps DEF TwsNext

\* Concurrent and repeated Sends take one message per interaction from Twilio,
\* unless it took one without saying so, and an interaction is claimed exactly
\* while a call sends it or once a send was accepted; for any number of calls
\* and retries.
THEOREM TwsSendOnce == TwsSpec => []TwsSingleSend
<1>1. TwsInv => TwsRebillExplained
  BY DEF TwsInv, TwsHonest, TwsRebillExplained, TwsType, TwsCounts
<1>2. TwsInv => TwsClaimHonest
  <2> SUFFICES ASSUME TwsInv, NEW i \in TwsMessages
               PROVE  i \in twsSent <=> Cardinality({r \in TwsRequests : r.msg = i /\ twsReq[r].at \in {"post", "failed"}})
                                         + twsSms[i].accepted = 1
    BY DEF TwsClaimHonest
  <2> DEFINE S == {r \in TwsRequests : r.msg = i /\ twsReq[r].at \in {"post", "failed"}}
  <2>0. twsSms[i].accepted \in Nat
    BY DEF TwsInv, TwsType, TwsCounts
  <2>1. CASE S = {}
    <3>1. Cardinality(S) = 0
      BY <2>1, FS_EmptySet
    <3>2. i \in twsSent <=> twsSms[i].accepted = 1
      BY <2>0, <2>1 DEF TwsInv, TwsHonest, TwsSending
    <3> HIDE DEF S
    <3> QED
      BY <2>0, <3>1, <3>2 DEF S
  <2>2. CASE S # {}
    <3>1. PICK r \in TwsRequests : r \in S
      BY <2>2
    <3>2. S = {r} /\ i \in twsSent /\ twsSms[i].accepted = 0
      BY <3>1 DEF TwsInv, TwsOwned, TwsSending
    <3>3. Cardinality(S) = 1
      BY <3>2, FS_Singleton
    <3> QED
      BY <3>2, <3>3
  <2> QED
    BY <2>1, <2>2
<1> QED
  BY <1>1, <1>2, TwsInitInv, TwsNextInv, PTL DEF TwsSpec, TwsSingleSend

(***************************************************************************)
(* The WhatsApp Cloud adapter.                                             *)
(***************************************************************************)
WacReqs == [at : {"idle", "post", "remember", "done"}, attempts : Nat, result : {"none", "ok", "error"}]

WacType ==
    /\ wacReq \in [WacRequests -> WacReqs]
    /\ wacMessages \subseteq WacRequests \X Nat
    /\ wacLost \subseteq WacRequests \X Nat

\* A message is of an attempt that was made, and one whose answer was lost of
\* the last attempt of a call that has returned.
WacAttempted ==
    /\ \A id \in wacMessages : id[2] <= wacReq[id[1]].attempts
    /\ \A id \in wacLost : id[2] = wacReq[id[1]].attempts /\ wacReq[id[1]].at = "done"

WacInv == WacType /\ WacAttempted /\ WacAckMeansDelivered

LEMMA WacMoves ==
  ASSUME WacType, NEW r \in WacRequests, NEW t \in WacReqs, wacReq' = [wacReq EXCEPT ![r] = t]
  PROVE  /\ wacReq' \in [WacRequests -> WacReqs] /\ wacReq'[r] = t
         /\ \A s \in WacRequests : s # r => wacReq'[s] = wacReq[s]
  BY DEF WacType

LEMMA WacInitInv == WacInit => WacInv
  BY DEF WacInit, WacInv, WacType, WacReqs, WacAttempted, WacAckMeansDelivered

\* A call that goes on, or ends, without a POST.
LEMMA WacMovesOn ==
  ASSUME WacInv, NEW r \in WacRequests, NEW t \in WacReqs, wacReq' = [wacReq EXCEPT ![r] = t],
         wacReq[r].at # "done", t.attempts = wacReq[r].attempts, UNCHANGED <<wacMessages, wacLost, wacHeard>>
  PROVE  WacInv'
<1>1. WacType'
  BY WacMoves DEF WacInv, WacType
<1>2. \A id \in wacMessages : id[1] \in WacRequests /\ wacReq'[id[1]].attempts = wacReq[id[1]].attempts
  BY WacMoves DEF WacInv, WacType
<1>3. \A id \in wacLost : id[1] \in WacRequests /\ id[1] # r
  BY DEF WacInv, WacType, WacAttempted
<1>4. WacAttempted'
  BY <1>2, <1>3, WacMoves DEF WacInv, WacAttempted
<1> QED
  BY <1>1, <1>4 DEF WacInv, WacAckMeansDelivered

LEMMA WacPostKeeps ==
  ASSUME WacInv, NEW r \in WacRequests, NEW takes \in BOOLEAN, NEW answer \in WacAnswers, WacPost(r, takes, answer)
  PROVE  WacInv'
<1>1. wacReq[r] \in WacReqs /\ wacReq[r].at = "post" /\ wacReq[r].attempts + 1 \in Nat
  BY DEF WacInv, WacType, WacReqs, WacPost
<1>2. PICK k \in Nat : k = wacReq[r].attempts + 1 /\ k > wacReq[r].attempts
  BY <1>1 DEF WacReqs
<1>3. PICK t \in WacReqs : /\ wacReq' = [wacReq EXCEPT ![r] = t] /\ t.attempts = k
                           /\ answer = "lost" => t.at = "done"
  <2> DEFINE again == WacRetryable(answer) /\ k < WacMaxAttempts
             t == [at |-> CASE answer = "ok" -> "remember" [] again -> "post" [] OTHER -> "done",
                   attempts |-> k,
                   result |-> IF answer = "ok" \/ again THEN wacReq[r].result ELSE "error"]
  <2>1. wacReq' = [wacReq EXCEPT ![r] = t]
    BY <1>2 DEF WacPost
  <2>2. t.at \in {"post", "remember", "done"} /\ (answer = "lost" => t.at = "done")
    BY DEF WacRetryable
  <2>3. t.result \in {"none", "ok", "error"}
    BY <1>1 DEF WacReqs
  <2>4. t \in WacReqs
    BY <2>2, <2>3 DEF WacReqs
  <2> QED
    BY <2>1, <2>2, <2>4
<1>4. /\ wacMessages' \subseteq wacMessages \cup {<<r, k>>}
      /\ wacLost' \subseteq wacLost \cup (IF answer = "lost" THEN {<<r, k>>} ELSE {})
      /\ wacHeard' = wacHeard
  BY <1>2 DEF WacPost
<1>5. WacType'
  BY <1>3, <1>4, WacMoves DEF WacInv, WacType
<1>6. ASSUME NEW id \in wacMessages' PROVE id[2] <= wacReq'[id[1]].attempts
  <2>1. CASE id = <<r, k>>
    <3>1. wacReq'[r].attempts = k /\ id[1] = r /\ id[2] = k
      BY <1>3, <2>1, WacMoves DEF WacInv
    <3> QED
      BY <3>1
  <2>2. CASE id # <<r, k>>
    <3>1. id \in wacMessages /\ id[1] \in WacRequests /\ id[2] \in Nat /\ id[2] <= wacReq[id[1]].attempts
      BY <1>4, <2>2 DEF WacInv, WacType, WacAttempted
    <3>2. CASE id[1] = r
      BY <1>1, <1>2, <1>3, <3>1, <3>2, WacMoves DEF WacInv, WacReqs
    <3>3. CASE id[1] # r
      BY <1>3, <3>1, <3>3, WacMoves DEF WacInv
    <3> QED
      BY <3>2, <3>3
  <2> QED
    BY <2>1, <2>2
<1>7. ASSUME NEW id \in wacLost' PROVE id[2] = wacReq'[id[1]].attempts /\ wacReq'[id[1]].at = "done"
  <2>1. CASE id \in wacLost
    <3>1. id[1] \in WacRequests /\ id[1] # r
      BY <1>1, <2>1 DEF WacInv, WacType, WacAttempted
    <3> QED
      BY <1>3, <2>1, <3>1, WacMoves DEF WacInv, WacAttempted
  <2>2. CASE id \notin wacLost
    <3>1. id = <<r, k>> /\ answer = "lost"
      BY <1>4, <2>2
    <3> QED
      BY <1>3, <3>1, WacMoves DEF WacInv
  <2> QED
    BY <2>1, <2>2
<1> QED
  BY <1>4, <1>5, <1>6, <1>7 DEF WacInv, WacAttempted, WacAckMeansDelivered

LEMMA WacNextInv == WacInv /\ [WacNext]_wacVars => WacInv'
<1> SUFFICES ASSUME WacInv, [WacNext]_wacVars PROVE WacInv'
  OBVIOUS
<1>1. CASE UNCHANGED wacVars
  BY <1>1 DEF wacVars, WacInv, WacType, WacAttempted, WacAckMeansDelivered
<1>2. ASSUME NEW r \in WacRequests, WacSend(r) PROVE WacInv'
  <2> DEFINE t == [wacReq[r] EXCEPT !.at = "post"]
  <2>1. t \in WacReqs /\ t.attempts = wacReq[r].attempts /\ wacReq' = [wacReq EXCEPT ![r] = t]
    BY <1>2 DEF WacInv, WacType, WacReqs, WacSend
  <2> QED
    BY <1>2, <2>1, WacMovesOn DEF WacSend
<1>3. ASSUME NEW r \in WacRequests, WacCanceled(r) PROVE WacInv'
  <2> DEFINE t == [wacReq[r] EXCEPT !.at = "done", !.result = "error"]
  <2>1. t \in WacReqs /\ t.attempts = wacReq[r].attempts /\ wacReq' = [wacReq EXCEPT ![r] = t]
    BY <1>3 DEF WacInv, WacType, WacReqs, WacCanceled
  <2> QED
    BY <1>3, <2>1, WacMovesOn DEF WacCanceled
<1>4. ASSUME NEW r \in WacRequests, WacRemember(r) PROVE WacInv'
  <2> DEFINE t == [wacReq[r] EXCEPT !.at = "done", !.result = "ok"]
  <2>1. t \in WacReqs /\ t.attempts = wacReq[r].attempts /\ wacReq' = [wacReq EXCEPT ![r] = t]
    BY <1>4 DEF WacInv, WacType, WacReqs, WacRemember
  <2> QED
    BY <1>4, <2>1, WacMovesOn DEF WacRemember
<1>5. ASSUME NEW batch \in SUBSET wacMessages, WacReport(batch) PROVE WacInv'
  BY <1>5 DEF WacReport, WacInv, WacType, WacAttempted, WacAckMeansDelivered
<1>6. ASSUME NEW batch \in wacPending, NEW taken \in SUBSET batch, WacHandleWebhook(batch, taken) PROVE WacInv'
  <2>1. WacAckMeansDelivered'
    BY <1>6 DEF WacHandleWebhook, WacAcknowledges, WacInv, WacAckMeansDelivered
  <2> QED
    BY <1>6, <2>1 DEF WacHandleWebhook, WacInv, WacType, WacAttempted
<1> QED
  BY <1>1, <1>2, <1>3, <1>4, <1>5, <1>6, WacPostKeeps DEF WacNext

\* Meta's statuses are acknowledged only when they were delivered, and a message
\* is posted again only after an answer that put it off; for any number of calls
\* and attempts.
THEOREM WacHonest == WacSpec => []WacDeliveriesHonest
<1>1. WacInv => WacDeliveriesHonest
  <2> SUFFICES ASSUME WacInv, NEW id \in wacLost, NEW k \in id[2] + 1 .. WacMaxAttempts, <<id[1], k>> \in wacMessages
               PROVE  FALSE
    BY DEF WacInv, WacDeliveriesHonest, WacRepostNeedsAnswer
  <2>1. id[1] \in WacRequests /\ id[2] \in Nat /\ id[2] = wacReq[id[1]].attempts
    BY DEF WacInv, WacType, WacAttempted
  <2>2. k <= wacReq[id[1]].attempts
    BY DEF WacInv, WacAttempted
  <2> QED
    BY <2>1, <2>2, WhatsAppAssumption
<1> QED
  BY <1>1, WacInitInv, WacNextInv, PTL DEF WacSpec

\* Every set of numbers has a least.
LEMMA NatMin == ASSUME NEW T, T \subseteq Nat, T # {} PROVE \E x \in T : \A y \in T : x <= y
<1>1. PICK x \in T : \A y \in T : <<y, x>> \notin OpToRel(<, Nat)
  BY NatLessThanWellFounded, WFMin
<1>2. \A y \in T : ~(y < x)
  BY <1>1 DEF OpToRel
<1> QED
  BY <1>2

(***************************************************************************)
(* The Africa's Talking USSD surface.                                      *)
(***************************************************************************)
AtuTables == [sessions : [AtuSessions -> {"none", "open", "ended"}], order : Seq(AtuSessions)]

AtuType ==
    /\ atuCall \in [AtuCallbacks -> {"idle", "started", "continued", "ending", "done"}]
    /\ atuTable \in AtuTables
    /\ atuHistory \in [shown : SUBSET AtuSessions, answered : SUBSET AtuSessions, restarted : SUBSET AtuSessions,
                       evicted : SUBSET AtuSessions, overtaken : SUBSET AtuSessions]

\* Why a session may be started again after it has shown a screen.
AtuExcused(s) == s \in atuHistory.overtaken \/ (s \in atuHistory.answered /\ s \in atuHistory.evicted)

AtuIdle(s) == \A c \in AtuCallbacks : c.session = s => atuCall[c] \in {"idle", "done"}

\* A session the table does not have has shown nothing and no callback works
\* on it; one that ended was answered; one that a callback has just started
\* has shown nothing and no other callback works on it.
AtuKnown(s) ==
    /\ atuTable.sessions[s] = "none" => s \notin atuHistory.shown /\ AtuIdle(s)
    /\ atuTable.sessions[s] = "ended" => s \in atuHistory.answered
    /\ \A c \in AtuCallbacks : c.session = s /\ atuCall[c] = "started" =>
          /\ s \notin atuHistory.shown
          /\ \A d \in AtuCallbacks : d.session = s /\ d # c => atuCall[d] \in {"idle", "done"}

AtuTraced == \A s \in AtuSessions : AtuExcused(s) \/ AtuKnown(s)

AtuInv == AtuType /\ AtuTraced /\ AtuSessionsKept

LEMMA AtuSessionOf == \A c \in AtuCallbacks : c.session \in AtuSessions
  BY DEF AtuSessions

\* The eviction takes no open session and changes no other.
LEMMA AtuEvicts ==
  ASSUME NEW t \in AtuTables
  PROVE  /\ AtuEvict(t) \in AtuTables
         /\ \A s \in AtuSessions : \/ AtuEvict(t).sessions[s] = t.sessions[s]
                                   \/ AtuEvict(t).sessions[s] = "none" /\ t.sessions[s] # "open"
<1> DEFINE overflow == Len(t.order) - AtuCap
           open == {k \in 1 .. overflow : t.sessions[t.order[k]] = "open"}
           stop == IF open = {} THEN overflow + 1 ELSE CHOOSE k \in open : \A j \in open : k <= j
           gone == {t.order[k] : k \in 1 .. stop - 1}
           rest == SubSeq(t.order, stop, Len(t.order))
           sessions == [s \in AtuSessions |-> IF s \in gone THEN "none" ELSE t.sessions[s]]
           order == IF open = {} THEN rest ELSE Append(Tail(rest), Head(rest))
<1>0. AtuEvict(t) = IF overflow <= 0 THEN t ELSE [sessions |-> sessions, order |-> order]
  BY DEF AtuEvict
<1>1. t.order \in Seq(AtuSessions) /\ Len(t.order) \in Nat /\ overflow \in Int /\ overflow <= Len(t.order)
  BY AtUssdAssumption DEF AtuTables
<1>2. CASE overflow <= 0
  BY <1>0, <1>2
<1>3. CASE overflow > 0
  <2>1. stop \in Nat /\ 1 <= stop /\ stop <= overflow + 1 /\ (open # {} => stop <= overflow) /\ \A j \in open : stop <= j
    <3>1. CASE open = {}
      BY <1>1, <1>3, <3>1
    <3>2. CASE open # {}
      <4>1. open \subseteq Nat
        BY <1>1
      <4>2. PICK m \in open : \A j \in open : m <= j
        BY <3>2, <4>1, NatMin
      <4>3. stop \in open /\ \A j \in open : stop <= j
        <5> HIDE DEF open
        <5> QED
          BY <3>2, <4>2
      <4>4. \A k \in open : k \in Nat /\ 1 <= k /\ k <= overflow
        BY <1>1
      <4> HIDE DEF open, stop, overflow
      <4> QED
        BY <1>1, <3>2, <4>3, <4>4
    <3> QED
      BY <3>1, <3>2
  <2>2. \A s \in gone : t.sessions[s] # "open"
    <3> HIDE DEF stop
    <3> SUFFICES ASSUME NEW k \in 1 .. stop - 1, t.sessions[t.order[k]] = "open" PROVE FALSE
      OBVIOUS
    <3>1. k \in Int /\ 1 <= k /\ k <= overflow /\ k < stop
      <4> HIDE DEF overflow, open
      <4> QED
        BY <1>1, <2>1
    <3>2. k \in open
      BY <3>1
    <3> HIDE DEF open
    <3> QED
      BY <2>1, <3>1, <3>2
  <2>3. sessions \in [AtuSessions -> {"none", "open", "ended"}]
    BY DEF AtuTables
  <2> HIDE DEF open, stop
  <2>4. rest \in Seq(AtuSessions) /\ (open # {} => rest # <<>>)
    <3> HIDE DEF overflow
    <3>1. stop \in 1 .. Len(t.order) + 1 /\ (open # {} => stop <= Len(t.order))
      BY <1>1, <2>1
    <3>2. rest \in Seq(AtuSessions) /\ Len(rest) = Len(t.order) - stop + 1
      BY <1>1, <3>1, SubSeqProperties
    <3> HIDE DEF rest
    <3> QED
      BY <1>1, <3>1, <3>2
  <2> HIDE DEF rest, overflow
  <2>5. order \in Seq(AtuSessions)
    BY <2>4
  <2>6. [sessions |-> sessions, order |-> order] \in AtuTables
    BY <2>3, <2>5 DEF AtuTables
  <2>7. AtuEvict(t) = [sessions |-> sessions, order |-> order]
    BY <1>0, <1>1, <1>3 DEF overflow
  <2>8. \A s \in AtuSessions : sessions[s] = t.sessions[s] \/ (sessions[s] = "none" /\ t.sessions[s] # "open")
    BY <2>2
  <2> HIDE DEF sessions, order
  <2> QED
    BY <2>6, <2>7, <2>8
<1> QED
  BY <1>1, <1>2, <1>3

LEMMA AtuInitInv == AtuInit => AtuInv
  BY DEF AtuInit, AtuInv, AtuType, AtuTables, AtuTraced, AtuKnown, AtuIdle, AtuSessionsKept

\* What a step of callback c leaves to show: nothing is struck from the
\* history, and the sessions of other callbacks stay as they were or are
\* evicted when they have ended.
LEMMA AtuSteps ==
  ASSUME AtuInv, AtuType', NEW c \in AtuCallbacks,
         \A d \in AtuCallbacks : d # c => atuCall'[d] = atuCall[d],
         atuHistory.answered \subseteq atuHistory'.answered, atuHistory.evicted \subseteq atuHistory'.evicted,
         atuHistory.overtaken \subseteq atuHistory'.overtaken,
         atuHistory'.shown \subseteq atuHistory.shown \cup {c.session},
         atuHistory'.restarted \subseteq atuHistory.restarted \cup {c.session},
         \A q \in AtuSessions \ {c.session} :
            \/ atuTable'.sessions[q] = atuTable.sessions[q]
            \/ atuTable.sessions[q] = "ended" /\ q \in atuHistory'.evicted,
         AtuExcused(c.session)' \/ (AtuKnown(c.session)' /\ c.session \notin atuHistory'.restarted)
  PROVE  AtuInv'
<1>1. \A q : AtuExcused(q) => AtuExcused(q)'
  BY DEF AtuExcused
<1>2. ASSUME NEW q \in AtuSessions, q # c.session PROVE AtuExcused(q)' \/ AtuKnown(q)'
  <2>1. CASE AtuExcused(q)
    BY <1>1, <2>1
  <2>2. CASE AtuKnown(q) /\ atuTable'.sessions[q] = atuTable.sessions[q]
    <3>1. \A d \in AtuCallbacks : d.session = q => atuCall'[d] = atuCall[d]
      BY <1>2
    <3>2. q \in atuHistory'.shown => q \in atuHistory.shown
      BY <1>2
    <3> QED
      BY <2>2, <3>1, <3>2 DEF AtuKnown, AtuIdle
  <2>3. CASE AtuKnown(q) /\ atuTable.sessions[q] = "ended" /\ q \in atuHistory'.evicted
    BY <2>3 DEF AtuKnown, AtuExcused
  <2> QED
    BY <1>2, <2>1, <2>2, <2>3 DEF AtuInv, AtuTraced
<1>3. AtuTraced'
  BY <1>2 DEF AtuTraced
<1>4. \A q \in atuHistory'.restarted : AtuExcused(q)'
  <2>1. \A q \in atuHistory.restarted : AtuExcused(q)
    BY DEF AtuInv, AtuSessionsKept, AtuExcused
  <2> QED
    BY <1>1, <2>1
<1>5. AtuSessionsKept'
  BY <1>4 DEF AtuSessionsKept, AtuExcused
<1> QED
  BY <1>3, <1>5 DEF AtuInv

\* The session of a callback, before its step.
LEMMA AtuOwn ==
  ASSUME AtuInv, NEW c \in AtuCallbacks
  PROVE  /\ c.session \in AtuSessions
         /\ AtuExcused(c.session) \/ (AtuKnown(c.session) /\ c.session \notin atuHistory.restarted)
<1>1. c.session \in AtuSessions
  BY AtuSessionOf
<1> QED
  BY <1>1 DEF AtuInv, AtuTraced, AtuSessionsKept, AtuExcused

LEMMA AtuTableOpens ==
  ASSUME NEW t \in AtuTables, NEW s \in AtuSessions, NEW o \in Seq(AtuSessions)
  PROVE  LET e == [t EXCEPT !.sessions[s] = "open", !.order = o]
         IN  e \in AtuTables /\ \A q \in AtuSessions : e.sessions[q] = IF q = s THEN "open" ELSE t.sessions[q]
  BY DEF AtuTables

LEMMA AtuStartKeeps == ASSUME AtuInv, NEW c \in AtuCallbacks, AtuStart(c) PROVE AtuInv'
<1> DEFINE s == c.session
           opened == [atuTable EXCEPT !.sessions[s] = "open", !.order = Append(@, s)]
           lost == {q \in AtuSessions : opened.sessions[q] # "none" /\ AtuEvict(opened).sessions[q] = "none"}
           more == {s} \cap atuHistory.shown
<1>0. s \in AtuSessions /\ atuTable \in AtuTables /\ atuTable.sessions[s] = "none"
  BY AtuSessionOf DEF AtuInv, AtuType, AtuStart
<1>1. opened \in AtuTables /\ \A q \in AtuSessions : opened.sessions[q] = IF q = s THEN "open" ELSE atuTable.sessions[q]
  <2>1. Append(atuTable.order, s) \in Seq(AtuSessions)
    BY <1>0 DEF AtuTables
  <2> QED
    BY <1>0, <2>1, AtuTableOpens
<1>2. /\ atuTable' = AtuEvict(opened) /\ atuCall' = [atuCall EXCEPT ![c] = "started"]
      /\ atuHistory' = [atuHistory EXCEPT !.restarted = @ \cup more, !.evicted = @ \cup lost]
  BY DEF AtuStart
<1> HIDE DEF opened
<1>3. /\ atuTable' \in AtuTables
      /\ \A q \in AtuSessions : \/ atuTable'.sessions[q] = opened.sessions[q]
                                \/ atuTable'.sessions[q] = "none" /\ opened.sessions[q] # "open"
  BY <1>1, <1>2, AtuEvicts
<1>4. \A q \in AtuSessions : q \in lost <=> opened.sessions[q] # "none" /\ atuTable'.sessions[q] = "none"
  BY <1>2
<1>5. lost \subseteq AtuSessions /\ more \subseteq AtuSessions
  BY <1>0
<1> HIDE DEF lost
<1>6. AtuType'
  BY <1>2, <1>3, <1>5 DEF AtuInv, AtuType
<1>7. /\ atuHistory'.evicted = atuHistory.evicted \cup lost /\ atuHistory'.answered = atuHistory.answered
      /\ atuHistory'.shown = atuHistory.shown /\ atuHistory'.overtaken = atuHistory.overtaken
      /\ atuHistory'.restarted = atuHistory.restarted \cup more
  BY <1>2 DEF AtuInv, AtuType
<1>8. \A q \in AtuSessions \ {s} : \/ atuTable'.sessions[q] = atuTable.sessions[q]
                                   \/ atuTable.sessions[q] = "ended" /\ q \in atuHistory'.evicted
  <2>1. atuTable.sessions \in [AtuSessions -> {"none", "open", "ended"}]
    BY <1>0 DEF AtuTables
  <2> QED
    BY <1>1, <1>3, <1>4, <1>7, <2>1
<1>9. /\ \A d \in AtuCallbacks : d # c => atuCall'[d] = atuCall[d]
      /\ atuCall'[c] = "started"
  BY <1>2 DEF AtuInv, AtuType
<1>10. CASE AtuExcused(s)
  <2>1. AtuExcused(s)'
    BY <1>7, <1>10 DEF AtuExcused
  <2> QED
    BY <1>6, <1>7, <1>8, <1>9, <2>1, AtuSteps
<1>11. CASE AtuKnown(s) /\ s \notin atuHistory.restarted
  <2>1. s \notin atuHistory.shown /\ AtuIdle(s)
    BY <1>0, <1>11 DEF AtuKnown
  <2>2. s \notin atuHistory'.restarted
    BY <1>7, <1>11, <2>1
  <2>3. atuTable'.sessions[s] = "open"
    BY <1>0, <1>1, <1>3
  <2>4. AtuKnown(s)'
    BY <1>7, <1>9, <2>1, <2>3 DEF AtuKnown, AtuIdle
  <2> QED
    BY <1>6, <1>7, <1>8, <1>9, <2>2, <2>4, AtuSteps
<1> QED
  BY <1>10, <1>11, AtuOwn

LEMMA AtuContinueKeeps == ASSUME AtuInv, NEW c \in AtuCallbacks, AtuContinue(c) PROVE AtuInv'
<1> DEFINE s == c.session
           over == \E d \in AtuCallbacks : d.session = s /\ atuCall[d] = "started"
           more == IF over THEN {s} ELSE {}
<1>0. s \in AtuSessions /\ atuTable' = atuTable /\ atuTable.sessions[s] = "open" /\ more \subseteq AtuSessions
  BY AtuSessionOf DEF AtuContinue
<1>1. atuCall' = [atuCall EXCEPT ![c] = "continued"] /\ atuHistory' = [atuHistory EXCEPT !.overtaken = @ \cup more]
  BY DEF AtuContinue, AtuInv, AtuType
<1>2. /\ \A d \in AtuCallbacks : d # c => atuCall'[d] = atuCall[d]
      /\ atuCall'[c] = "continued"
  BY <1>1 DEF AtuInv, AtuType
<1>3. /\ atuHistory'.evicted = atuHistory.evicted /\ atuHistory'.answered = atuHistory.answered
      /\ atuHistory'.shown = atuHistory.shown /\ atuHistory'.overtaken = atuHistory.overtaken \cup more
      /\ atuHistory'.restarted = atuHistory.restarted
  BY <1>1 DEF AtuInv, AtuType
<1>4. AtuType'
  BY <1>0, <1>1 DEF AtuInv, AtuType
<1>5. CASE AtuExcused(s) \/ over
  <2>1. AtuExcused(s)'
    BY <1>3, <1>5 DEF AtuExcused
  <2> QED
    BY <1>0, <1>2, <1>3, <1>4, <2>1, AtuSteps
<1>6. CASE AtuKnown(s) /\ s \notin atuHistory.restarted /\ ~over
  <2>1. AtuKnown(s)'
    BY <1>0, <1>2, <1>3, <1>6 DEF AtuKnown
  <2> QED
    BY <1>0, <1>2, <1>3, <1>4, <1>6, <2>1, AtuSteps
<1> QED
  BY <1>5, <1>6, AtuOwn

\* A callback is through with a session that stays as it is.
LEMMA AtuLeaves ==
  ASSUME AtuInv, NEW c \in AtuCallbacks, atuCall' = [atuCall EXCEPT ![c] = "done"], UNCHANGED <<atuTable, atuHistory>>
  PROVE  AtuInv'
<1>1. /\ \A d \in AtuCallbacks : d # c => atuCall'[d] = atuCall[d]
      /\ atuCall'[c] = "done"
  BY DEF AtuInv, AtuType
<1>2. AtuType'
  BY DEF AtuInv, AtuType
<1>3. AtuExcused(c.session) => AtuExcused(c.session)'
  BY DEF AtuExcused
<1>4. AtuKnown(c.session) => AtuKnown(c.session)'
  BY <1>1 DEF AtuKnown, AtuIdle
<1> QED
  BY <1>1, <1>2, <1>3, <1>4, AtuOwn, AtuSteps

LEMMA AtuHandlerFailsKeeps == ASSUME AtuInv, NEW c \in AtuCallbacks, AtuHandlerFails(c) PROVE AtuInv'
<1> DEFINE s == c.session
<1>0. s \in AtuSessions /\ atuTable \in AtuTables /\ atuHistory' = atuHistory /\ atuCall' = [atuCall EXCEPT ![c] = "done"]
  BY AtuSessionOf DEF AtuInv, AtuType, AtuHandlerFails
<1>1. CASE atuTable' = atuTable
  BY <1>0, <1>1, AtuLeaves
<1>2. CASE atuTable' # atuTable
  <2>1. atuTable' = [atuTable EXCEPT !.sessions[s] = "none"] /\ atuCall[c] = "started"
    BY <1>2 DEF AtuHandlerFails, AtuRewind
  <2>2. /\ atuTable' \in AtuTables /\ atuTable'.sessions[s] = "none"
        /\ \A q \in AtuSessions \ {s} : atuTable'.sessions[q] = atuTable.sessions[q]
    BY <1>0, <2>1 DEF AtuTables
  <2>3. AtuType'
    BY <1>0, <2>2 DEF AtuInv, AtuType
  <2>4. /\ \A d \in AtuCallbacks : d # c => atuCall'[d] = atuCall[d]
        /\ atuCall'[c] = "done"
    BY <1>0 DEF AtuInv, AtuType
  <2>5. AtuExcused(s) => AtuExcused(s)'
    BY <1>0 DEF AtuExcused
  <2>6. AtuKnown(s) => AtuKnown(s)'
    BY <1>0, <2>1, <2>2, <2>4 DEF AtuKnown, AtuIdle
  <2> QED
    BY <1>0, <2>2, <2>3, <2>4, <2>5, <2>6, AtuOwn, AtuSteps
<1> QED
  BY <1>1, <1>2

LEMMA AtuHandlerRepliesKeeps ==
  ASSUME AtuInv, NEW c \in AtuCallbacks, NEW end \in BOOLEAN, AtuHandlerReplies(c, end) PROVE AtuInv'
<1> DEFINE s == c.session
<1>0. s \in AtuSessions /\ atuTable' = atuTable /\ atuCall[c] \in {"started", "continued"}
  BY AtuSessionOf DEF AtuHandlerReplies
<1> DEFINE to == IF end THEN "ending" ELSE "done"
           more == IF end THEN {} ELSE {s}
<1>1. /\ to \in {"ending", "done"} /\ more \subseteq {s}
      /\ atuCall' = [atuCall EXCEPT ![c] = to] /\ atuHistory' = [atuHistory EXCEPT !.shown = @ \cup more]
  BY DEF AtuHandlerReplies
<1> HIDE DEF to, more
<1>2. /\ \A d \in AtuCallbacks : d # c => atuCall'[d] = atuCall[d]
      /\ atuCall'[c] = to
  BY <1>1 DEF AtuInv, AtuType
<1>3. /\ atuHistory'.evicted = atuHistory.evicted /\ atuHistory'.answered = atuHistory.answered
      /\ atuHistory'.shown = atuHistory.shown \cup more /\ atuHistory'.overtaken = atuHistory.overtaken
      /\ atuHistory'.restarted = atuHistory.restarted
  BY <1>1 DEF AtuInv, AtuType
<1>4. AtuType'
  BY <1>0, <1>1 DEF AtuInv, AtuType
<1>5. AtuExcused(s) => AtuExcused(s)'
  BY <1>3 DEF AtuExcused
<1>6. AtuKnown(s) => AtuKnown(s)'
  <2> SUFFICES ASSUME AtuKnown(s) PROVE AtuKnown(s)'
    OBVIOUS
  <2>1. atuTable.sessions[s] # "none"
    BY <1>0 DEF AtuKnown, AtuIdle
  <2>2. \A d \in AtuCallbacks : d.session = s => atuCall'[d] # "started"
    BY <1>0, <1>1, <1>2 DEF AtuKnown
  <2>3. atuTable'.sessions[s] = atuTable.sessions[s]
    BY <1>0
  <2> QED
    BY <1>3, <2>1, <2>2, <2>3 DEF AtuKnown
<1>7. \A q \in AtuSessions \ {s} : atuTable'.sessions[q] = atuTable.sessions[q]
  BY <1>0
<1>8. AtuExcused(s)' \/ (AtuKnown(s)' /\ s \notin atuHistory'.restarted)
  BY <1>3, <1>5, <1>6, AtuOwn
<1>9. atuHistory'.shown \subseteq atuHistory.shown \cup {s}
  BY <1>1, <1>3
<1> QED
  BY <1>2, <1>3, <1>4, <1>7, <1>8, <1>9, AtuSteps

LEMMA AtuEndKeeps == ASSUME AtuInv, NEW c \in AtuCallbacks, AtuEnd(c) PROVE AtuInv'
<1> DEFINE s == c.session
<1>0. s \in AtuSessions /\ atuTable \in AtuTables /\ atuCall[c] = "ending"
  BY AtuSessionOf DEF AtuInv, AtuType, AtuEnd
<1>1. /\ atuTable' \in AtuTables
      /\ \A q \in AtuSessions \ {s} : atuTable'.sessions[q] = atuTable.sessions[q]
      /\ atuTable'.sessions[s] = IF atuTable.sessions[s] # "none" THEN "ended" ELSE "none"
  BY <1>0 DEF AtuEnd, AtuRetain, AtuTables
<1>2. /\ atuCall' = [atuCall EXCEPT ![c] = "done"]
      /\ atuHistory' = [atuHistory EXCEPT !.shown = @ \cup {s}, !.answered = @ \cup {s}]
  BY DEF AtuEnd
<1>3. AtuType'
  BY <1>0, <1>1, <1>2 DEF AtuInv, AtuType
<1>4. /\ atuHistory'.evicted = atuHistory.evicted /\ atuHistory'.answered = atuHistory.answered \cup {s}
      /\ atuHistory'.shown = atuHistory.shown \cup {s} /\ atuHistory'.overtaken = atuHistory.overtaken
      /\ atuHistory'.restarted = atuHistory.restarted
  BY <1>2 DEF AtuInv, AtuType
<1>5. /\ \A d \in AtuCallbacks : d # c => atuCall'[d] = atuCall[d]
      /\ atuCall'[c] = "done"
  BY <1>2 DEF AtuInv, AtuType
<1>6. AtuExcused(s) => AtuExcused(s)'
  BY <1>4 DEF AtuExcused
<1>7. AtuKnown(s) => AtuKnown(s)'
  <2> SUFFICES ASSUME AtuKnown(s) PROVE AtuKnown(s)'
    OBVIOUS
  <2>1. atuTable'.sessions[s] = "ended"
    BY <1>0, <1>1 DEF AtuKnown, AtuIdle
  <2>2. \A d \in AtuCallbacks : d.session = s => atuCall'[d] # "started"
    BY <1>0, <1>5 DEF AtuKnown
  <2> QED
    BY <1>4, <2>1, <2>2 DEF AtuKnown
<1> QED
  BY <1>1, <1>3, <1>4, <1>5, <1>6, <1>7, AtuOwn, AtuSteps

LEMMA AtuNextInv == AtuInv /\ [AtuNext]_atuVars => AtuInv'
<1> SUFFICES ASSUME AtuInv, [AtuNext]_atuVars PROVE AtuInv'
  OBVIOUS
<1>1. CASE UNCHANGED atuVars
  BY <1>1 DEF atuVars, AtuInv, AtuType, AtuTraced, AtuExcused, AtuKnown, AtuIdle, AtuSessionsKept
<1>2. ASSUME NEW c \in AtuCallbacks, AtuReplay(c) PROVE AtuInv'
  BY <1>2, AtuLeaves DEF AtuReplay
<1>3. ASSUME NEW c \in AtuCallbacks, \E end \in BOOLEAN : AtuHandlerReplies(c, end) PROVE AtuInv'
  BY <1>3, AtuHandlerRepliesKeeps
<1> QED
  BY <1>1, <1>2, <1>3, AtuStartKeeps, AtuContinueKeeps, AtuHandlerFailsKeeps, AtuEndKeeps DEF AtuNext

\* A USSD session that has shown a screen is started again only after its END
\* was evicted, or if it was continued while the callback that had started it
\* was still running; for any number of concurrent callbacks and any capacity.
THEOREM AtuKept == AtuSpec => []AtuSessionsKept
<1>1. AtuInv => AtuSessionsKept
  BY DEF AtuInv
<1> QED
  BY <1>1, AtuInitInv, AtuNextInv, PTL DEF AtuSpec

(***************************************************************************)
(* The Africa's Talking SMS adapter.                                       *)
(***************************************************************************)
AtsReqs == [at : {"idle", "wait", "post", "commit", "emit", "done"}, posts : Nat,
            slot : SUBSET AtsRequests, result : {"none", "ok", "error"}]
AtsCounts == [taken : Nat, unsure : Nat]

AtsType ==
    /\ atsReq \in [AtsRequests -> AtsReqs]
    /\ atsTable = [slots |-> atsTable.slots, order |-> atsTable.order, byMsg |-> atsTable.byMsg]
    /\ atsTable.slots \in [AtsMessages -> SUBSET AtsRequests]
    /\ atsTable.byMsg \subseteq AtsRequests
    /\ atsSlot \in [AtsRequests -> {"none", "open", "accepted", "released"}]
    /\ atsSms \in [AtsMessages -> AtsCounts]
    /\ atsEvicted \subseteq AtsRequests

\* A request that posts or commits owns the one slot of its interaction, and a
\* request that is idle never had one.
AtsOwned ==
    \A r \in AtsRequests :
        /\ atsReq[r].at \in {"post", "commit"} <=> atsSlot[r] = "open"
        /\ atsSlot[r] = "open" => atsTable.slots[r.msg] = {r}
        /\ atsReq[r].at \in {"idle", "wait"} => atsSlot[r] = "none"
        /\ atsReq[r].at = "emit" => atsSlot[r] = "accepted"
        /\ \A s \in atsReq[r].slot : s.msg = r.msg

\* A slot in the table is one of its interaction, open or accepted.
AtsTabled ==
    \A i \in AtsMessages : \A r \in atsTable.slots[i] :
        r.msg = i /\ atsTable.slots[i] = {r} /\ atsSlot[r] \in {"open", "accepted"}

\* The carrier has a message the adapter was told it took.
AtsTaken ==
    \A r \in AtsRequests :
        atsReq[r].at = "commit" \/ atsSlot[r] = "accepted" \/ atsReq[r].result = "ok" => atsSms[r.msg].taken > 0

\* An accepted send that was evicted does not come back.
AtsGoneForGood == \A s \in atsEvicted : atsSlot[s] = "accepted" /\ s \notin atsTable.slots[s.msg]

AtsLost(i) == Cardinality({s \in atsEvicted : s.msg = i})

AtsHas(i) == \E r \in atsTable.slots[i] : atsReq[r].at = "commit" \/ atsSlot[r] = "accepted"

\* Every message taken has an answer that left the adapter unsure, an eviction,
\* or the one slot in the table.
AtsBilled ==
    \A i \in AtsMessages :
        atsSms[i].taken <= atsSms[i].unsure + AtsLost(i) + (IF AtsHas(i) THEN 1 ELSE 0)

AtsInv == AtsType /\ AtsOwned /\ AtsTabled /\ AtsTaken /\ AtsBilled /\ AtsGoneForGood /\ AtsReportFound

LEMMA AtsMsgOf == \A r \in AtsRequests : r.msg \in AtsMessages
  BY DEF AtsMessages

LEMMA AtsLostNat == ASSUME AtsType, NEW i PROVE AtsLost(i) \in Nat
<1>1. IsFiniteSet({s \in atsEvicted : s.msg = i})
  BY AtSmsAssumption, FS_Subset DEF AtsType
<1> QED
  BY <1>1, FS_CardinalityType DEF AtsLost

\* An evicted send counts once.
LEMMA AtsLostMore ==
  ASSUME AtsType, NEW s \in AtsRequests \ atsEvicted, NEW E \in SUBSET AtsRequests, atsEvicted' = atsEvicted \cup E,
         s \in E, \A q \in E : q.msg = s.msg => q = s
  PROVE  AtsLost(s.msg)' = AtsLost(s.msg) + 1
<1> DEFINE A == {q \in atsEvicted : q.msg = s.msg}
<1>1. {q \in atsEvicted' : q.msg = s.msg} = A \cup {s} /\ s \notin A
  OBVIOUS
<1>2. IsFiniteSet(A)
  BY AtSmsAssumption, FS_Subset DEF AtsType
<1>3. Cardinality(A \cup {s}) = Cardinality(A) + 1
  BY <1>1, <1>2, FS_AddElement
<1> QED
  BY <1>1, <1>3 DEF AtsLost

LEMMA AtsMoves ==
  ASSUME AtsType, NEW r \in AtsRequests, NEW t \in AtsReqs, atsReq' = [atsReq EXCEPT ![r] = t]
  PROVE  /\ atsReq' \in [AtsRequests -> AtsReqs] /\ atsReq'[r] = t
         /\ \A s \in AtsRequests : s # r => atsReq'[s] = atsReq[s]
  BY DEF AtsType

LEMMA AtsInitInv == AtsInit => AtsInv
<1> SUFFICES ASSUME AtsInit PROVE AtsInv
  OBVIOUS
<1>1. AtsType
  BY DEF AtsInit, AtsType, AtsReqs, AtsCounts
<1>2. AtsOwned /\ AtsTabled /\ AtsTaken /\ AtsGoneForGood /\ AtsReportFound
  BY DEF AtsInit, AtsOwned, AtsTabled, AtsTaken, AtsGoneForGood, AtsReportFound
<1>3. AtsBilled
  <2>1. \A i \in AtsMessages : AtsLost(i) \in Nat
    BY <1>1, AtsLostNat
  <2> QED
    BY <2>1, AtsMsgOf DEF AtsInit, AtsBilled
<1> QED
  BY <1>1, <1>2, <1>3 DEF AtsInv

\* The steps of one request that leave the table and the carrier alone.
LEMMA AtsMovesOn ==
  ASSUME AtsInv, NEW r \in AtsRequests, NEW t \in AtsReqs, atsReq' = [atsReq EXCEPT ![r] = t],
         UNCHANGED <<atsTable, atsSlot, atsSms, atsEvicted, atsUnnamed>>,
         atsReq[r].at \in {"idle", "wait", "emit"}, t.at \in {"idle", "wait", "done"},
         t.at # "done" => atsReq[r].at # "emit",
         t.result = "ok" => atsReq[r].result = "ok" \/ atsSms[r.msg].taken > 0,
         \A s \in t.slot : s.msg = r.msg
  PROVE  AtsInv'
<1>1. AtsType'
  BY AtsMoves DEF AtsInv, AtsType
<1>2. AtsOwned'
  BY AtsMoves DEF AtsInv, AtsOwned, AtsType
<1>3. AtsTabled'
  BY DEF AtsInv, AtsTabled
<1>4. AtsTaken'
  BY AtsMoves DEF AtsInv, AtsTaken
<1>5. \A i \in AtsMessages : AtsHas(i)' <=> AtsHas(i)
  <2>1. \A s \in AtsRequests : atsReq'[s].at = "commit" <=> atsReq[s].at = "commit"
    BY AtsMoves DEF AtsInv
  <2> QED
    BY <2>1 DEF AtsHas, AtsInv, AtsType
<1>6. AtsBilled'
  BY <1>5 DEF AtsInv, AtsBilled, AtsLost
<1> QED
  BY <1>1, <1>2, <1>3, <1>4, <1>6 DEF AtsInv, AtsGoneForGood, AtsReportFound

LEMMA AtsJoinKeeps == ASSUME AtsInv, NEW r \in AtsRequests, AtsJoin(r) PROVE AtsInv'
<1> DEFINE t == [atsReq[r] EXCEPT !.at = "wait", !.slot = atsTable.slots[r.msg]]
<1>0. r.msg \in AtsMessages /\ atsTable.slots[r.msg] \subseteq AtsRequests /\ atsReq[r] \in AtsReqs
  BY AtsMsgOf DEF AtsInv, AtsType
<1>1. /\ t \in AtsReqs /\ t.at = "wait" /\ t.slot = atsTable.slots[r.msg] /\ t.result = atsReq[r].result
      /\ atsReq' = [atsReq EXCEPT ![r] = t]
  BY <1>0 DEF AtsReqs, AtsJoin
<1>2. \A s \in t.slot : s.msg = r.msg
  BY <1>0, <1>1 DEF AtsInv, AtsTabled
<1> HIDE DEF t
<1> QED
  BY <1>1, <1>2, AtsMovesOn, ZenonT(60) DEF AtsJoin

LEMMA AtsWaitedKeeps == ASSUME AtsInv, NEW r \in AtsRequests, AtsWaited(r) PROVE AtsInv'
<1>1. PICK s \in atsReq[r].slot :
         /\ atsReq[r].at = "wait"
         /\ LET to == AtsAfterWait(atsSlot[s])
            IN  atsReq' = [atsReq EXCEPT ![r].at = to, ![r].slot = {}, ![r].result = IF to = "done" THEN "ok" ELSE @]
         /\ UNCHANGED <<atsTable, atsSlot, atsSms, atsEvicted, atsUnnamed>>
  BY DEF AtsWaited
<1> DEFINE to == AtsAfterWait(atsSlot[s])
           t == [atsReq[r] EXCEPT !.at = to, !.slot = {}, !.result = IF to = "done" THEN "ok" ELSE @]
<1>0. atsReq[r] \in AtsReqs /\ s \in AtsRequests /\ s.msg = r.msg
  BY DEF AtsInv, AtsType, AtsOwned, AtsReqs
<1>2. to \in {"idle", "done"} /\ (to = "done" => atsSlot[s] = "accepted")
  BY DEF AtsAfterWait
<1>3. atsReq' = [atsReq EXCEPT ![r] = t]
  BY <1>1
<1> HIDE DEF to
<1>4. t \in AtsReqs /\ t.at = to /\ t.slot = {} /\ (t.result = "ok" => to = "done" \/ atsReq[r].result = "ok")
  BY <1>0, <1>2 DEF AtsReqs
<1>5. t.result = "ok" => atsReq[r].result = "ok" \/ atsSms[r.msg].taken > 0
  BY <1>0, <1>2, <1>4 DEF AtsInv, AtsTaken
<1> HIDE DEF t
<1> QED
  BY <1>1, <1>2, <1>3, <1>4, <1>5, AtsMovesOn

LEMMA AtsWaitExpiresKeeps == ASSUME AtsInv, NEW r \in AtsRequests, AtsWaitExpires(r) PROVE AtsInv'
<1> DEFINE t == [atsReq[r] EXCEPT !.at = "done", !.slot = {}, !.result = "error"]
<1>0. atsReq[r] \in AtsReqs
  BY DEF AtsInv, AtsType
<1>1. t \in AtsReqs /\ t.at = "done" /\ t.slot = {} /\ t.result = "error" /\ atsReq' = [atsReq EXCEPT ![r] = t]
  BY <1>0 DEF AtsReqs, AtsWaitExpires
<1> HIDE DEF t
<1> QED
  BY <1>1, AtsMovesOn DEF AtsWaitExpires

LEMMA AtsEmitKeeps == ASSUME AtsInv, NEW r \in AtsRequests, AtsEmit(r) PROVE AtsInv'
<1> DEFINE t == [atsReq[r] EXCEPT !.at = "done", !.result = "ok"]
<1>0. atsReq[r] \in AtsReqs
  BY DEF AtsInv, AtsType
<1>1. t \in AtsReqs /\ t.at = "done" /\ t.slot = atsReq[r].slot /\ atsReq' = [atsReq EXCEPT ![r] = t]
  BY <1>0 DEF AtsReqs, AtsEmit
<1>2. atsSms[r.msg].taken > 0 /\ \A s \in t.slot : s.msg = r.msg
  BY <1>1 DEF AtsInv, AtsOwned, AtsTaken, AtsEmit
<1> HIDE DEF t
<1> QED
  BY <1>1, <1>2, AtsMovesOn DEF AtsEmit

\* What the eviction takes: sends that are over.
LEMMA AtsEvicts ==
  ASSUME NEW t, t.slots \in [AtsMessages -> SUBSET AtsRequests], t.byMsg \subseteq AtsRequests
  PROVE  LET e == AtsEvict(t)
         IN  /\ e = [slots |-> e.slots, order |-> e.order, byMsg |-> e.byMsg]
             /\ e.slots \in [AtsMessages -> SUBSET AtsRequests] /\ e.byMsg \subseteq t.byMsg
             /\ \A i \in AtsMessages :
                   \/ e.slots[i] = t.slots[i]
                   \/ e.slots[i] = {} /\ \A s \in t.slots[i] : atsSlot[s] \in {"accepted", "released"}
             /\ \A r \in t.byMsg \ e.byMsg : \E i \in AtsMessages : r \in t.slots[i] /\ e.slots[i] = {}
<1> DEFINE gone == AtsGone(t)
           ids == {i \in AtsMessages : \E k \in gone : t.order[k] = i}
           kept == SelectSeq([k \in DOMAIN t.order |-> k], LAMBDA k : k \notin gone)
           slots == [i \in AtsMessages |-> IF i \in ids THEN {} ELSE t.slots[i]]
           byMsg == t.byMsg \ UNION {t.slots[i] : i \in ids}
           order == [j \in DOMAIN kept |-> t.order[kept[j]]]
<1>1. AtsEvict(t) = [slots |-> slots, order |-> order, byMsg |-> byMsg]
  BY DEF AtsEvict
<1> HIDE DEF order
<1>2. \A i \in ids : \A s \in t.slots[i] : atsSlot[s] \in {"accepted", "released"}
  BY DEF AtsGone
<1> HIDE DEF gone
<1>3. slots \in [AtsMessages -> SUBSET AtsRequests] /\ byMsg \subseteq t.byMsg
  OBVIOUS
<1>4. \A i \in AtsMessages : \/ slots[i] = t.slots[i]
                             \/ slots[i] = {} /\ \A s \in t.slots[i] : atsSlot[s] \in {"accepted", "released"}
  BY <1>2
<1>5. \A r \in t.byMsg \ byMsg : \E i \in AtsMessages : r \in t.slots[i] /\ slots[i] = {}
  OBVIOUS
<1> HIDE DEF slots, byMsg
<1> QED
  BY <1>1, <1>3, <1>4, <1>5

\* The table with a slot set, whatever becomes of the order.
LEMMA AtsTableSet ==
  ASSUME AtsType, NEW m \in AtsMessages, NEW S \in SUBSET AtsRequests, NEW o
  PROVE  LET t == [atsTable EXCEPT !.slots[m] = S, !.order = o]
         IN  /\ t.slots \in [AtsMessages -> SUBSET AtsRequests] /\ t.byMsg = atsTable.byMsg
             /\ \A i \in AtsMessages : t.slots[i] = IF i = m THEN S ELSE atsTable.slots[i]
<1> DEFINE R == [slots : [AtsMessages -> SUBSET AtsRequests], order : {atsTable.order, o}, byMsg : {atsTable.byMsg}]
<1>1. atsTable \in R
  BY DEF AtsType
<1> QED
  BY <1>1

LEMMA AtsReserveKeeps == ASSUME AtsInv, NEW r \in AtsRequests, AtsReserve(r) PROVE AtsInv'
<1> DEFINE o == Append(atsTable.order, r.msg)
           t == [atsTable EXCEPT !.slots[r.msg] = {r}, !.order = o]
           E == {s \in AtsRequests : atsSlot[s] = "accepted" /\ s \in t.slots[s.msg] \ AtsEvict(t).slots[s.msg]}
           lost == {i \in AtsMessages : t.slots[i] # {} /\ AtsEvict(t).slots[i] = {}}
           q == [atsReq[r] EXCEPT !.at = "post"]
<1>0. /\ atsReq[r].at = "idle" /\ atsTable.slots[r.msg] = {} /\ atsReq[r] \in AtsReqs /\ AtsType
      /\ r.msg \in AtsMessages /\ atsSlot[r] = "none"
  BY AtsMsgOf DEF AtsInv, AtsType, AtsOwned, AtsReserve
<1>1. /\ q \in AtsReqs /\ q.at = "post" /\ q.slot = atsReq[r].slot /\ q.result = atsReq[r].result
      /\ atsReq' = [atsReq EXCEPT ![r] = q]
  BY <1>0 DEF AtsReqs, AtsReserve
<1>2. /\ atsTable' = AtsEvict(t) /\ atsSlot' = [atsSlot EXCEPT ![r] = "open"] /\ atsSms' = atsSms
      /\ atsEvicted' = atsEvicted \cup E /\ atsUnnamed' = atsUnnamed
  BY DEF AtsReserve
<1>3. /\ t.slots \in [AtsMessages -> SUBSET AtsRequests] /\ t.byMsg = atsTable.byMsg
      /\ \A i \in AtsMessages : t.slots[i] = IF i = r.msg THEN {r} ELSE atsTable.slots[i]
  BY <1>0, AtsTableSet
<1> HIDE DEF t, o, q
<1>4. /\ atsTable' = [slots |-> atsTable'.slots, order |-> atsTable'.order, byMsg |-> atsTable'.byMsg]
      /\ atsTable'.slots \in [AtsMessages -> SUBSET AtsRequests] /\ atsTable'.byMsg \subseteq atsTable.byMsg
      /\ \A i \in AtsMessages :
            \/ atsTable'.slots[i] = t.slots[i]
            \/ atsTable'.slots[i] = {} /\ \A s \in t.slots[i] : atsSlot[s] \in {"accepted", "released"}
      /\ \A s \in atsTable.byMsg \ atsTable'.byMsg : \E i \in AtsMessages : s \in t.slots[i] /\ atsTable'.slots[i] = {}
  <2>1. t.byMsg \subseteq AtsRequests
    BY <1>0, <1>3 DEF AtsType
  <2>2. atsTable' = AtsEvict(t) /\ t.slots \in [AtsMessages -> SUBSET AtsRequests] /\ t.byMsg = atsTable.byMsg
    BY <1>2, <1>3
  <2>3. /\ AtsEvict(t) = [slots |-> AtsEvict(t).slots, order |-> AtsEvict(t).order, byMsg |-> AtsEvict(t).byMsg]
        /\ AtsEvict(t).slots \in [AtsMessages -> SUBSET AtsRequests] /\ AtsEvict(t).byMsg \subseteq t.byMsg
        /\ \A i \in AtsMessages :
              \/ AtsEvict(t).slots[i] = t.slots[i]
              \/ AtsEvict(t).slots[i] = {} /\ \A s \in t.slots[i] : atsSlot[s] \in {"accepted", "released"}
        /\ \A s \in t.byMsg \ AtsEvict(t).byMsg : \E i \in AtsMessages : s \in t.slots[i] /\ AtsEvict(t).slots[i] = {}
    BY <2>1, <2>2, AtsEvicts, Zenon
  <2> QED
    BY <2>2, <2>3, Zenon
<1>5. /\ \A i \in AtsMessages : i \in lost <=> t.slots[i] # {} /\ atsTable'.slots[i] = {}
      /\ \A s \in AtsRequests : s \in E <=> atsSlot[s] = "accepted" /\ s \in t.slots[s.msg] \ atsTable'.slots[s.msg]
      /\ E \subseteq AtsRequests
  BY <1>2
<1> HIDE DEF lost, E
<1>6. atsTable'.slots[r.msg] = {r} /\ r.msg \notin lost
  BY <1>0, <1>3, <1>4, <1>5
<1>7. \A i \in AtsMessages : i # r.msg /\ i \notin lost => atsTable'.slots[i] = atsTable.slots[i]
  BY <1>3, <1>4, <1>5
<1>8. \A i \in lost \cap AtsMessages : atsTable'.slots[i] = {} /\ \A s \in atsTable.slots[i] : atsSlot[s] = "accepted"
  <2>1. \A i \in lost \cap AtsMessages :
           i # r.msg /\ atsTable'.slots[i] = {} /\ \A s \in atsTable.slots[i] : atsSlot[s] \in {"accepted", "released"}
    BY <1>3, <1>4, <1>5, <1>6
  <2> QED
    BY <2>1 DEF AtsInv, AtsTabled
<1>9. /\ \A s \in AtsRequests : s # r => atsSlot'[s] = atsSlot[s] /\ atsReq'[s] = atsReq[s]
      /\ atsSlot'[r] = "open" /\ atsReq'[r] = q
  BY <1>0, <1>1, <1>2, AtsMoves DEF AtsType
<1>10. /\ \A s \in E : s \in AtsRequests \ atsEvicted /\ s # r /\ s.msg \in lost /\ atsTable.slots[s.msg] = {s}
       /\ \A i \in lost \cap AtsMessages : \A s \in atsTable.slots[i] : s \in E /\ s.msg = i
  <2>1. ASSUME NEW s \in E
        PROVE  s \in AtsRequests \ atsEvicted /\ s # r /\ s.msg \in lost /\ atsTable.slots[s.msg] = {s}
    <3>1. s \in AtsRequests /\ s.msg \in AtsMessages /\ s # r /\ s \in t.slots[s.msg] \ atsTable'.slots[s.msg]
      BY <1>0, <1>5, AtsMsgOf
    <3>2. s \in atsTable.slots[s.msg] /\ s.msg # r.msg
      BY <1>3, <1>6, <3>1
    <3>3. atsTable.slots[s.msg] = {s} /\ s \notin atsEvicted
      BY <3>1, <3>2 DEF AtsInv, AtsTabled, AtsGoneForGood
    <3>4. s.msg \in lost
      BY <1>7, <3>1, <3>2
    <3> QED
      BY <3>1, <3>3, <3>4
  <2>2. ASSUME NEW i \in lost \cap AtsMessages, NEW s \in atsTable.slots[i] PROVE s \in E /\ s.msg = i
    <3>1. s \in AtsRequests /\ s.msg = i /\ i # r.msg
      BY <1>0, <1>6, <2>2 DEF AtsInv, AtsTabled, AtsType
    <3> QED
      BY <1>3, <1>5, <1>8, <2>2, <3>1
  <2> QED
    BY <2>1, <2>2
<1>11. AtsType'
  <2>1. atsReq' \in [AtsRequests -> AtsReqs]
    BY <1>0, <1>1, AtsMoves
  <2>2. atsSlot' \in [AtsRequests -> {"none", "open", "accepted", "released"}]
    BY <1>0, <1>2 DEF AtsType
  <2>3. atsTable'.byMsg \subseteq AtsRequests
    BY <1>0, <1>4 DEF AtsType
  <2> QED
    BY <1>0, <1>2, <1>4, <1>5, <2>1, <2>2, <2>3 DEF AtsType
<1>12. AtsOwned'
  <2> SUFFICES ASSUME NEW s \in AtsRequests
               PROVE  /\ atsReq'[s].at \in {"post", "commit"} <=> atsSlot'[s] = "open"
                      /\ atsSlot'[s] = "open" => atsTable'.slots[s.msg] = {s}
                      /\ atsReq'[s].at \in {"idle", "wait"} => atsSlot'[s] = "none"
                      /\ atsReq'[s].at = "emit" => atsSlot'[s] = "accepted"
                      /\ \A p \in atsReq'[s].slot : p.msg = s.msg
    BY DEF AtsOwned
  <2>1. CASE s = r
    BY <1>1, <1>6, <1>9, <2>1 DEF AtsInv, AtsOwned
  <2>2. CASE s # r
    <3>1. atsSlot[s] = "open" => atsTable'.slots[s.msg] = {s}
      <4> SUFFICES ASSUME atsSlot[s] = "open" PROVE atsTable'.slots[s.msg] = {s}
        OBVIOUS
      <4>1. s.msg \in AtsMessages /\ atsTable.slots[s.msg] = {s} /\ s.msg # r.msg
        BY <1>0, AtsMsgOf DEF AtsInv, AtsOwned
      <4>2. s.msg \notin lost
        BY <1>8, <4>1
      <4> QED
        BY <1>7, <4>1, <4>2
    <3> QED
      BY <1>9, <2>2, <3>1 DEF AtsInv, AtsOwned
  <2> QED
    BY <2>1, <2>2
<1>13. AtsTabled'
  <2> SUFFICES ASSUME NEW i \in AtsMessages, NEW s \in atsTable'.slots[i]
               PROVE  s.msg = i /\ atsTable'.slots[i] = {s} /\ atsSlot'[s] \in {"open", "accepted"}
    BY DEF AtsTabled
  <2>1. CASE i = r.msg
    BY <1>6, <1>9, <2>1
  <2>2. CASE i # r.msg
    <3>1. atsTable'.slots[i] = atsTable.slots[i]
      BY <1>7, <1>8, <2>2
    <3>2. s.msg = i /\ atsTable.slots[i] = {s} /\ atsSlot[s] \in {"open", "accepted"} /\ s \in AtsRequests
      BY <1>0, <3>1 DEF AtsInv, AtsTabled, AtsType
    <3> QED
      BY <1>9, <2>2, <3>1, <3>2
  <2> QED
    BY <2>1, <2>2
<1>14. AtsTaken'
  BY <1>1, <1>2, <1>9 DEF AtsInv, AtsTaken
<1>15. AtsBilled'
  <2> SUFFICES ASSUME NEW i \in AtsMessages
               PROVE  atsSms[i].taken <= atsSms[i].unsure + AtsLost(i)' + (IF AtsHas(i)' THEN 1 ELSE 0)
    BY <1>2 DEF AtsBilled
  <2>0. /\ atsSms[i].taken \in Nat /\ atsSms[i].unsure \in Nat /\ AtsLost(i) \in Nat
        /\ atsSms[i].taken <= atsSms[i].unsure + AtsLost(i) + (IF AtsHas(i) THEN 1 ELSE 0)
    BY <1>0, AtsLostNat DEF AtsInv, AtsBilled, AtsType, AtsCounts
  <2>1. CASE i \in lost
    <3>1. PICK s \in atsTable.slots[i] : s \in E /\ s.msg = i
      BY <1>3, <1>5, <1>6, <1>10, <2>1
    <3>2. s \in AtsRequests \ atsEvicted /\ \A p \in E : p.msg = s.msg => p = s
      BY <1>10, <3>1
    <3>3. AtsLost(s.msg)' = AtsLost(s.msg) + 1
      BY <1>0, <1>2, <1>5, <3>1, <3>2, AtsLostMore
    <3> QED
      BY <2>0, <3>1, <3>3
  <2>2. CASE i \notin lost
    <3>1. AtsLost(i)' = AtsLost(i)
      <4>1. {s \in atsEvicted' : s.msg = i} = {s \in atsEvicted : s.msg = i}
        BY <1>2, <1>10, <2>2
      <4> QED
        BY <4>1 DEF AtsLost
    <3>2. AtsHas(i) => AtsHas(i)' /\ i # r.msg
      BY <1>0, <1>7, <1>9, <2>2 DEF AtsHas, AtsInv, AtsTabled, AtsType
    <3> QED
      BY <2>0, <3>1, <3>2
  <2> QED
    BY <2>1, <2>2
<1>16. AtsReportFound'
  <2> SUFFICES ASSUME NEW s \in AtsRequests, atsSlot'[s] = "accepted", s \notin atsTable'.byMsg
               PROVE  s \in atsEvicted' \cup atsUnnamed'
    BY DEF AtsReportFound
  <2>0. s.msg \in AtsMessages /\ atsSlot[s] = "accepted" /\ s # r
    BY <1>0, <1>9, AtsMsgOf
  <2>1. CASE s \in atsTable.byMsg
    <3>1. PICK i \in AtsMessages : s \in t.slots[i] /\ atsTable'.slots[i] = {}
      BY <1>4, <2>1
    <3>2. i \in lost /\ s \in atsTable.slots[i]
      BY <1>3, <1>5, <1>6, <3>1
    <3> QED
      BY <1>2, <1>10, <3>2
  <2>2. CASE s \notin atsTable.byMsg
    BY <1>2, <2>0, <2>2 DEF AtsInv, AtsReportFound
  <2> QED
    BY <2>1, <2>2
<1>17. AtsGoneForGood'
  <2> SUFFICES ASSUME NEW s \in atsEvicted' PROVE atsSlot'[s] = "accepted" /\ s \notin atsTable'.slots[s.msg]
    BY DEF AtsGoneForGood
  <2>1. CASE s \in E
    BY <1>5, <1>9, <1>10, <2>1
  <2>2. CASE s \in atsEvicted
    <3>1. s \in AtsRequests /\ s.msg \in AtsMessages /\ atsSlot[s] = "accepted" /\ s # r /\ s \notin atsTable.slots[s.msg]
      BY <1>0, <2>2, AtsMsgOf DEF AtsInv, AtsGoneForGood, AtsType
    <3>2. s \notin atsTable'.slots[s.msg]
      BY <1>3, <1>4, <3>1
    <3> QED
      BY <1>9, <3>1, <3>2
  <2> QED
    BY <1>2, <2>1, <2>2
<1> QED
  BY <1>11, <1>12, <1>13, <1>14, <1>15, <1>16, <1>17 DEF AtsInv

LEMMA AtsReleased ==
  ASSUME AtsType, NEW m \in AtsMessages, NEW S \in SUBSET AtsRequests, atsTable' = [atsTable EXCEPT !.slots[m] = S]
  PROVE  /\ atsTable' = [slots |-> atsTable'.slots, order |-> atsTable'.order, byMsg |-> atsTable'.byMsg]
         /\ atsTable'.slots \in [AtsMessages -> SUBSET AtsRequests] /\ atsTable'.byMsg = atsTable.byMsg
         /\ \A i \in AtsMessages : atsTable'.slots[i] = IF i = m THEN S ELSE atsTable.slots[i]
<1> DEFINE R == [slots : [AtsMessages -> SUBSET AtsRequests], order : {atsTable.order}, byMsg : {atsTable.byMsg}]
<1>1. atsTable \in R
  BY DEF AtsType
<1> QED
  BY <1>1

\* The owner gives up: its slot goes with it.
LEMMA AtsReleaseKeeps ==
  ASSUME AtsInv, NEW r \in AtsRequests, atsReq[r].at = "post", NEW t \in AtsReqs, atsReq' = [atsReq EXCEPT ![r] = t],
         t.at = "done", t.result = "error", t.slot = atsReq[r].slot,
         atsSlot' = [atsSlot EXCEPT ![r] = "released"], atsTable' = AtsRelease(r), atsEvicted' = atsEvicted, atsUnnamed' = atsUnnamed,
         atsSms' \in [AtsMessages -> AtsCounts],
         \A i \in AtsMessages : /\ atsSms'[i].taken >= atsSms[i].taken
                                /\ atsSms'[i].taken - atsSms'[i].unsure = atsSms[i].taken - atsSms[i].unsure
  PROVE  AtsInv'
<1>0. /\ AtsType /\ r.msg \in AtsMessages /\ atsTable.slots[r.msg] = {r} /\ atsSlot[r] = "open"
  BY AtsMsgOf DEF AtsInv, AtsOwned
<1>1. PICK S \in SUBSET AtsRequests : S = {} /\ atsTable' = [atsTable EXCEPT !.slots[r.msg] = S]
  <2>1. atsTable.slots[r.msg] \ {r} = {}
    BY <1>0
  <2>2. atsTable' = [atsTable EXCEPT !.slots[r.msg] = atsTable.slots[r.msg] \ {r}]
    BY DEF AtsRelease
  <2> QED
    BY <2>1, <2>2
<1>2. /\ atsTable' = [slots |-> atsTable'.slots, order |-> atsTable'.order, byMsg |-> atsTable'.byMsg]
      /\ atsTable'.slots \in [AtsMessages -> SUBSET AtsRequests] /\ atsTable'.byMsg = atsTable.byMsg
      /\ \A i \in AtsMessages : atsTable'.slots[i] = IF i = r.msg THEN {} ELSE atsTable.slots[i]
  BY <1>0, <1>1, AtsReleased
<1>3. /\ \A s \in AtsRequests : s # r => atsSlot'[s] = atsSlot[s] /\ atsReq'[s] = atsReq[s]
      /\ atsSlot'[r] = "released" /\ atsReq'[r] = t
  BY <1>0, AtsMoves DEF AtsType
<1>4. AtsType'
  <2>1. atsReq' \in [AtsRequests -> AtsReqs]
    BY <1>0, AtsMoves
  <2>2. atsSlot' \in [AtsRequests -> {"none", "open", "accepted", "released"}]
    BY <1>0 DEF AtsType
  <2> QED
    BY <1>0, <1>2, <2>1, <2>2 DEF AtsType
<1>5. AtsOwned'
  <2> SUFFICES ASSUME NEW s \in AtsRequests
               PROVE  /\ atsReq'[s].at \in {"post", "commit"} <=> atsSlot'[s] = "open"
                      /\ atsSlot'[s] = "open" => atsTable'.slots[s.msg] = {s}
                      /\ atsReq'[s].at \in {"idle", "wait"} => atsSlot'[s] = "none"
                      /\ atsReq'[s].at = "emit" => atsSlot'[s] = "accepted"
                      /\ \A p \in atsReq'[s].slot : p.msg = s.msg
    BY DEF AtsOwned
  <2>1. CASE s = r
    BY <1>3, <2>1 DEF AtsInv, AtsOwned
  <2>2. CASE s # r
    <3>1. atsSlot[s] = "open" => s.msg # r.msg /\ s.msg \in AtsMessages
      BY <1>0, <2>2, AtsMsgOf DEF AtsInv, AtsOwned
    <3> QED
      <4>1. atsSlot'[s] = atsSlot[s] /\ atsReq'[s] = atsReq[s]
        BY <1>3, <2>2
      <4>2. atsSlot[s] = "open" => atsTable'.slots[s.msg] = {s}
        BY <1>2, <3>1 DEF AtsInv, AtsOwned
      <4> QED
        BY <4>1, <4>2 DEF AtsInv, AtsOwned
  <2> QED
    BY <2>1, <2>2
<1>6. AtsTabled'
  <2> SUFFICES ASSUME NEW i \in AtsMessages, NEW s \in atsTable'.slots[i]
               PROVE  s.msg = i /\ atsTable'.slots[i] = {s} /\ atsSlot'[s] \in {"open", "accepted"}
    BY DEF AtsTabled
  <2>1. i # r.msg /\ atsTable'.slots[i] = atsTable.slots[i]
    BY <1>2
  <2>2. s.msg = i /\ atsTable.slots[i] = {s} /\ atsSlot[s] \in {"open", "accepted"} /\ s \in AtsRequests
    BY <1>0, <2>1 DEF AtsInv, AtsTabled, AtsType
  <2> QED
    BY <1>3, <2>1, <2>2
<1>7. AtsTaken'
  <2> SUFFICES ASSUME NEW s \in AtsRequests,
                      atsReq'[s].at = "commit" \/ atsSlot'[s] = "accepted" \/ atsReq'[s].result = "ok"
               PROVE  atsSms'[s.msg].taken > 0
    BY DEF AtsTaken
  <2>1. s # r /\ s.msg \in AtsMessages
    BY <1>3, AtsMsgOf
  <2>2. atsSms[s.msg].taken > 0 /\ atsSms[s.msg].taken \in Nat /\ atsSms'[s.msg].taken \in Nat
    BY <1>0, <1>3, <2>1 DEF AtsInv, AtsTaken, AtsType, AtsCounts
  <2> QED
    BY <2>1, <2>2
<1>8. AtsBilled'
  <2> SUFFICES ASSUME NEW i \in AtsMessages
               PROVE  atsSms'[i].taken <= atsSms'[i].unsure + AtsLost(i) + (IF AtsHas(i)' THEN 1 ELSE 0)
    BY DEF AtsBilled, AtsLost
  <2>0. /\ atsSms[i].taken \in Nat /\ atsSms[i].unsure \in Nat /\ AtsLost(i) \in Nat
        /\ atsSms'[i].taken \in Nat /\ atsSms'[i].unsure \in Nat
        /\ atsSms[i].taken <= atsSms[i].unsure + AtsLost(i) + (IF AtsHas(i) THEN 1 ELSE 0)
    BY <1>0, AtsLostNat DEF AtsInv, AtsBilled, AtsType, AtsCounts
  <2>1. AtsHas(i) => AtsHas(i)'
    <3>1. CASE i = r.msg
      BY <1>0, <3>1 DEF AtsHas
    <3>2. CASE i # r.msg
      <4>1. atsTable'.slots[i] = atsTable.slots[i] /\ \A s \in atsTable.slots[i] : s \in AtsRequests /\ s # r
        BY <1>0, <1>2, <3>2 DEF AtsInv, AtsTabled, AtsType
      <4> QED
        BY <1>3, <4>1 DEF AtsHas
    <3> QED
      BY <3>1, <3>2
  <2>2. CASE AtsHas(i)
    BY <2>0, <2>1, <2>2
  <2>3. CASE ~AtsHas(i)
    BY <2>0, <2>3
  <2> QED
    BY <2>2, <2>3
<1>9. AtsReportFound'
  BY <1>2, <1>3 DEF AtsInv, AtsReportFound
<1>10. AtsGoneForGood'
  BY <1>0, <1>2, <1>3, AtsMsgOf DEF AtsInv, AtsGoneForGood, AtsType
<1> QED
  BY <1>4, <1>5, <1>6, <1>7, <1>8, <1>9, <1>10 DEF AtsInv

LEMMA AtsCanceledKeeps == ASSUME AtsInv, NEW r \in AtsRequests, AtsCanceled(r) PROVE AtsInv'
<1> DEFINE t == [atsReq[r] EXCEPT !.at = "done", !.result = "error"]
<1>0. atsReq[r] \in AtsReqs
  BY DEF AtsInv, AtsType
<1>1. /\ t \in AtsReqs /\ t.at = "done" /\ t.result = "error" /\ t.slot = atsReq[r].slot
      /\ atsReq' = [atsReq EXCEPT ![r] = t]
  BY <1>0 DEF AtsReqs, AtsCanceled
<1>2. /\ atsSms' \in [AtsMessages -> AtsCounts]
      /\ \A i \in AtsMessages : /\ atsSms'[i].taken >= atsSms[i].taken
                                /\ atsSms'[i].taken - atsSms'[i].unsure = atsSms[i].taken - atsSms[i].unsure
  BY DEF AtsCanceled, AtsInv, AtsType, AtsCounts
<1> HIDE DEF t
<1> QED
  BY <1>1, <1>2, AtsReleaseKeeps DEF AtsCanceled

LEMMA AtsCommitKeeps == ASSUME AtsInv, NEW r \in AtsRequests, NEW named \in BOOLEAN, AtsCommit(r, named) PROVE AtsInv'
<1> DEFINE t == [atsReq[r] EXCEPT !.at = "emit"]
<1>0. /\ AtsType /\ atsReq[r] \in AtsReqs /\ atsTable.slots[r.msg] = {r} /\ atsSlot[r] = "open" /\ r.msg \in AtsMessages
  BY AtsMsgOf DEF AtsInv, AtsType, AtsOwned, AtsCommit
<1>1. /\ t \in AtsReqs /\ t.at = "emit" /\ t.result = atsReq[r].result /\ t.slot = atsReq[r].slot
      /\ atsReq' = [atsReq EXCEPT ![r] = t]
  BY <1>0 DEF AtsReqs, AtsCommit
<1> HIDE DEF t
<1>2. /\ atsTable' = [slots |-> atsTable'.slots, order |-> atsTable'.order, byMsg |-> atsTable'.byMsg]
      /\ atsTable'.slots = atsTable.slots /\ atsTable'.byMsg = IF named THEN atsTable.byMsg \cup {r} ELSE atsTable.byMsg
  BY <1>0 DEF AtsCommit, AtsType
<1>3. /\ \A s \in AtsRequests : s # r => atsSlot'[s] = atsSlot[s] /\ atsReq'[s] = atsReq[s]
      /\ atsSlot'[r] = "accepted" /\ atsReq'[r] = t
  BY <1>0, <1>1, AtsMoves DEF AtsType, AtsCommit
<1>4. AtsType'
  <2>1. atsReq' \in [AtsRequests -> AtsReqs]
    BY <1>0, <1>1, AtsMoves
  <2>2. atsSlot' \in [AtsRequests -> {"none", "open", "accepted", "released"}]
    BY <1>0 DEF AtsType, AtsCommit
  <2> QED
    BY <1>0, <1>2, <2>1, <2>2 DEF AtsType, AtsCommit
<1>5. AtsOwned'
  BY <1>1, <1>2, <1>3 DEF AtsInv, AtsOwned
<1>6. AtsTabled'
  BY <1>0, <1>2, <1>3 DEF AtsInv, AtsTabled, AtsType
<1>7. AtsTaken'
  BY <1>1, <1>3 DEF AtsInv, AtsTaken, AtsCommit
<1>8. \A i \in AtsMessages : AtsHas(i)' <=> AtsHas(i)
  <2>1. \A s \in AtsRequests : atsReq'[s].at = "commit" \/ atsSlot'[s] = "accepted" <=> atsReq[s].at = "commit" \/ atsSlot[s] = "accepted"
    BY <1>3 DEF AtsCommit
  <2> QED
    BY <1>0, <1>2, <2>1 DEF AtsHas, AtsType
<1>9. AtsBilled'
  BY <1>8 DEF AtsInv, AtsBilled, AtsLost, AtsCommit
<1>10. AtsReportFound'
  BY <1>2, <1>3 DEF AtsInv, AtsReportFound, AtsCommit
<1>11. AtsGoneForGood'
  BY <1>0, <1>2, <1>3 DEF AtsInv, AtsGoneForGood, AtsType, AtsCommit
<1> QED
  BY <1>4, <1>5, <1>6, <1>7, <1>9, <1>10, <1>11 DEF AtsInv

LEMMA AtsPostKeeps ==
  ASSUME AtsInv, NEW r \in AtsRequests, NEW takes \in BOOLEAN, NEW answer \in AtsAnswers, AtsPost(r, takes, answer)
  PROVE  AtsInv'
<1> DEFINE m == r.msg
           again == answer \in {"put off", "lost"} /\ atsReq[r].posts < AtsMaxRetries
           to == CASE answer = "ok" -> "commit" [] again -> "post" [] OTHER -> "done"
<1>0. /\ AtsType /\ atsReq[r] \in AtsReqs /\ m \in AtsMessages /\ atsSms[m] \in AtsCounts /\ atsReq[r].at = "post"
      /\ atsTable.slots[m] = {r} /\ atsSlot[r] = "open"
  BY AtsMsgOf DEF AtsInv, AtsType, AtsOwned, AtsPost
<1>1. to \in {"commit", "post", "done"} /\ (to = "commit" <=> answer = "ok")
  OBVIOUS
<1>2. /\ answer = "ok" => takes
      /\ atsSms' = [atsSms EXCEPT ![m].taken = IF takes THEN @ + 1 ELSE @,
                                  ![m].unsure = IF takes /\ answer # "ok" THEN @ + 1 ELSE @]
      /\ atsReq' = [atsReq EXCEPT ![r].posts = @ + 1, ![r].at = to, ![r].result = IF to = "done" THEN "error" ELSE @]
      /\ atsSlot' = IF to = "done" THEN [atsSlot EXCEPT ![r] = "released"] ELSE atsSlot
      /\ atsTable' = IF to = "done" THEN AtsRelease(r) ELSE atsTable
      /\ atsEvicted' = atsEvicted /\ atsUnnamed' = atsUnnamed
  BY DEF AtsPost
<1> HIDE DEF to, again
<1>3. PICK t \in AtsReqs : /\ atsReq' = [atsReq EXCEPT ![r] = t] /\ t.at = to /\ t.slot = atsReq[r].slot
                           /\ t.result = IF to = "done" THEN "error" ELSE atsReq[r].result
  <2>1. PICK n \in Nat : n = atsReq[r].posts + 1
    BY <1>0 DEF AtsReqs
  <2> DEFINE t == [atsReq[r] EXCEPT !.posts = n, !.at = to, !.result = IF to = "done" THEN "error" ELSE @]
  <2>2. atsReq' = [atsReq EXCEPT ![r] = t]
    BY <1>2, <2>1
  <2>3. /\ t \in AtsReqs /\ t.at = to /\ t.slot = atsReq[r].slot
        /\ t.result = IF to = "done" THEN "error" ELSE atsReq[r].result
    BY <1>0, <1>1 DEF AtsReqs
  <2> QED
    BY <2>2, <2>3
<1>4. PICK c \in AtsCounts : /\ atsSms' = [atsSms EXCEPT ![m] = c] /\ c.taken >= atsSms[m].taken
                             /\ c.taken - c.unsure = atsSms[m].taken - atsSms[m].unsure + (IF answer = "ok" THEN 1 ELSE 0)
                             /\ answer = "ok" => c.taken > 0
  <2>1. PICK a, b \in Nat : /\ a = atsSms[m].taken + (IF takes THEN 1 ELSE 0)
                            /\ b = atsSms[m].unsure + (IF takes /\ answer # "ok" THEN 1 ELSE 0)
    BY <1>0 DEF AtsCounts
  <2> DEFINE c == [atsSms[m] EXCEPT !.taken = a, !.unsure = b]
  <2>2. c \in AtsCounts /\ c.taken = a /\ c.unsure = b
    BY <1>0 DEF AtsCounts
  <2>3. /\ (IF takes THEN atsSms[m].taken + 1 ELSE atsSms[m].taken) = a
        /\ (IF takes /\ answer # "ok" THEN atsSms[m].unsure + 1 ELSE atsSms[m].unsure) = b
    BY <1>0, <2>1 DEF AtsCounts
  <2>4. atsSms' = [atsSms EXCEPT ![m] = c]
    BY <1>2, <2>3
  <2>5. /\ a >= atsSms[m].taken /\ a - b = atsSms[m].taken - atsSms[m].unsure + (IF answer = "ok" THEN 1 ELSE 0)
        /\ answer = "ok" => a > 0
    BY <1>0, <1>2, <2>1 DEF AtsCounts
  <2> HIDE DEF c
  <2> QED
    BY <2>2, <2>4, <2>5
<1> HIDE DEF m
<1>5. /\ atsSms' \in [AtsMessages -> AtsCounts] /\ atsSms'[m] = c
      /\ \A i \in AtsMessages : i # m => atsSms'[i] = atsSms[i]
  BY <1>0, <1>4 DEF AtsType
<1>6. CASE to = "done"
  <2>1. answer # "ok"
    BY <1>1, <1>6
  <2>2. ASSUME NEW i \in AtsMessages
        PROVE  /\ atsSms'[i].taken >= atsSms[i].taken
               /\ atsSms'[i].taken - atsSms'[i].unsure = atsSms[i].taken - atsSms[i].unsure
    <3>0. atsSms[i].taken \in Nat /\ atsSms[i].unsure \in Nat
      BY <1>0 DEF AtsType, AtsCounts
    <3> QED
      BY <1>4, <1>5, <2>1, <3>0
  <2> QED
    BY <1>0, <1>2, <1>3, <1>5, <1>6, <2>2, AtsReleaseKeeps
<1>7. CASE to # "done"
  <2>1. UNCHANGED <<atsSlot, atsTable, atsEvicted, atsUnnamed>> /\ t.at \in {"post", "commit"} /\ t.result = atsReq[r].result
    BY <1>1, <1>2, <1>3, <1>7
  <2>2. atsReq' \in [AtsRequests -> AtsReqs] /\ atsReq'[r] = t /\ \A s \in AtsRequests : s # r => atsReq'[s] = atsReq[s]
    BY <1>0, <1>3, AtsMoves
  <2>3. AtsType'
    BY <1>0, <1>5, <2>1, <2>2 DEF AtsType
  <2>4. AtsOwned'
    BY <1>0, <1>3, <2>1, <2>2 DEF AtsInv, AtsOwned, m
  <2>5. AtsTabled'
    BY <2>1 DEF AtsInv, AtsTabled
  <2>6. AtsTaken'
    <3> SUFFICES ASSUME NEW s \in AtsRequests,
                        atsReq'[s].at = "commit" \/ atsSlot'[s] = "accepted" \/ atsReq'[s].result = "ok"
                 PROVE  atsSms'[s.msg].taken > 0
      BY DEF AtsTaken
    <3>0. s.msg \in AtsMessages /\ atsSms[s.msg].taken \in Nat /\ atsSms'[s.msg].taken \in Nat
      BY <1>0, <1>5, AtsMsgOf DEF AtsType, AtsCounts
    <3>1. CASE atsReq[s].at = "commit" \/ atsSlot[s] = "accepted" \/ atsReq[s].result = "ok"
      <4>1. atsSms[s.msg].taken > 0
        BY <3>1 DEF AtsInv, AtsTaken
      <4>2. atsSms'[s.msg].taken >= atsSms[s.msg].taken
        BY <1>4, <1>5, <3>0
      <4> QED
        BY <3>0, <4>1, <4>2
    <3>2. CASE ~(atsReq[s].at = "commit" \/ atsSlot[s] = "accepted" \/ atsReq[s].result = "ok")
      <4>1. s = r /\ t.at = "commit"
        BY <2>1, <2>2, <3>2
      <4>2. s.msg = m /\ answer = "ok"
        BY <1>1, <1>3, <4>1 DEF m
      <4> QED
        BY <1>4, <1>5, <4>2
    <3> QED
      BY <3>1, <3>2
  <2>7. AtsBilled'
    <3> SUFFICES ASSUME NEW i \in AtsMessages
                 PROVE  atsSms'[i].taken <= atsSms'[i].unsure + AtsLost(i) + (IF AtsHas(i)' THEN 1 ELSE 0)
      BY <2>1 DEF AtsBilled, AtsLost
    <3>0. /\ atsSms[i].taken \in Nat /\ atsSms[i].unsure \in Nat /\ AtsLost(i) \in Nat
          /\ atsSms'[i].taken \in Nat /\ atsSms'[i].unsure \in Nat
          /\ atsSms[i].taken <= atsSms[i].unsure + AtsLost(i) + (IF AtsHas(i) THEN 1 ELSE 0)
      BY <1>0, <1>5, AtsLostNat DEF AtsInv, AtsBilled, AtsType, AtsCounts
    <3>1. CASE i = m
      <4>1. ~AtsHas(m) /\ (answer = "ok" => AtsHas(m)')
        BY <1>0, <1>1, <1>3, <2>1, <2>2 DEF AtsHas
      <4>2. c.taken <= c.unsure + AtsLost(i) + (IF answer = "ok" THEN 1 ELSE 0)
        BY <1>4, <3>0, <3>1, <4>1, <1>5
      <4> QED
        BY <1>5, <3>0, <3>1, <4>1, <4>2
    <3>2. CASE i # m
      <4>1. AtsHas(i) => AtsHas(i)'
        <5>1. \A s \in atsTable.slots[i] : s \in AtsRequests /\ s # r
          BY <1>0, <3>2 DEF AtsInv, AtsTabled, AtsType, m
        <5> QED
          BY <2>1, <2>2, <5>1 DEF AtsHas
      <4>2. CASE AtsHas(i)
        BY <1>5, <3>0, <3>2, <4>1, <4>2
      <4>3. CASE ~AtsHas(i)
        BY <1>5, <3>0, <3>2, <4>3
      <4> QED
        BY <4>2, <4>3
    <3> QED
      BY <3>1, <3>2
  <2>8. AtsReportFound' /\ AtsGoneForGood'
    BY <2>1 DEF AtsInv, AtsReportFound, AtsGoneForGood
  <2> QED
    BY <2>3, <2>4, <2>5, <2>6, <2>7, <2>8 DEF AtsInv
<1> QED
  BY <1>6, <1>7

LEMMA AtsNextInv == AtsInv /\ [AtsNext]_atsVars => AtsInv'
<1> SUFFICES ASSUME AtsInv, [AtsNext]_atsVars PROVE AtsInv'
  OBVIOUS
<1>1. CASE UNCHANGED atsVars
  BY <1>1 DEF atsVars, AtsInv, AtsType, AtsOwned, AtsTabled, AtsTaken, AtsBilled, AtsLost, AtsHas, AtsGoneForGood, AtsReportFound
<1>2. ASSUME NEW r \in AtsRequests, AtsReport(r) PROVE AtsInv'
  BY <1>2 DEF AtsReport, AtsInv, AtsType, AtsOwned, AtsTabled, AtsTaken, AtsBilled, AtsLost, AtsHas, AtsGoneForGood, AtsReportFound
<1> QED
  BY <1>1, <1>2, AtsReserveKeeps, AtsJoinKeeps, AtsWaitedKeeps, AtsWaitExpiresKeeps, AtsPostKeeps, AtsCanceledKeeps,
     AtsCommitKeeps, AtsEmitKeeps DEF AtsNext

\* Every Send of the Africa's Talking adapter is accounted for: success means
\* the carrier has the message, a second message has a cause, and a delivery
\* report finds its send unless that very send was evicted or has no message
\* id; for any number of concurrent calls, any retries and any capacity of the
\* table.
THEOREM AtsAccounted == AtsSpec => []AtsSendsAccounted
<1>1. AtsInv => AtsSendsAccounted
  <2> SUFFICES ASSUME AtsInv PROVE AtsSendsAccounted
    OBVIOUS
  <2>1. AtsSuccessMeansTaken
    BY DEF AtsInv, AtsTaken, AtsSuccessMeansTaken
  <2>2. ASSUME NEW i \in AtsMessages PROVE atsSms[i].taken <= 1 + atsSms[i].unsure + AtsLost(i)
    <3>0. /\ atsSms[i].taken \in Nat /\ atsSms[i].unsure \in Nat /\ AtsLost(i) \in Nat
          /\ atsSms[i].taken <= atsSms[i].unsure + AtsLost(i) + (IF AtsHas(i) THEN 1 ELSE 0)
      BY AtsLostNat DEF AtsInv, AtsBilled, AtsType, AtsCounts
    <3> QED
      BY <3>0
  <2> QED
    BY <2>1, <2>2 DEF AtsInv, AtsSendsAccounted, AtsRebillExplained, AtsLost
<1> QED
  BY <1>1, AtsInitInv, AtsNextInv, PTL DEF AtsSpec

(***************************************************************************)
(* The messaging plane.                                                    *)
(***************************************************************************)
\* Whichever provider Build constructs, its parts behave in the plane as they do
\* alone.
LEMMA MessagingPlaneParts == MpSpec => AtsSpec /\ AtuSpec /\ TwsSpec /\ WacSpec
  <1>1. MpInit => AtsInit /\ AtuInit /\ TwsInit /\ WacInit
    BY DEF MpInit
  <1>2. [MpNext]_mpVars => [AtsNext]_atsVars
    BY DEF MpNext, mpVars
  <1>3. [MpNext]_mpVars => [AtuNext]_atuVars
    BY DEF MpNext, mpVars
  <1>4. [MpNext]_mpVars => [TwsNext]_twsVars
    BY DEF MpNext, mpVars
  <1>5. [MpNext]_mpVars => [WacNext]_wacVars
    BY DEF MpNext, mpVars
  <1> QED
    BY <1>1, <1>2, <1>3, <1>4, <1>5, PTL DEF MpSpec, AtsSpec, AtuSpec, TwsSpec, WacSpec

\* So the plane has every safety property of its providers.
THEOREM MessagingPlaneSafe ==
    MpSpec =>
        /\ []AtsSendsAccounted
        /\ []AtuSessionsKept
        /\ []TwsSingleSend
        /\ []WacDeliveriesHonest
  BY MessagingPlaneParts, AtsAccounted, AtuKept, TwsSendOnce, WacHonest, PTL
=============================================================================
