---------------------------- MODULE VoiceProofs -----------------------------
(***************************************************************************)
(* Theorems about the voice carrier adapters: what they tell the carrier   *)
(* and what they tell the platform of a leg.                               *)
(***************************************************************************)
EXTENDS SessionProofs, VoicePlane, FiniteSetTheorems, TLAPS

(***************************************************************************)
(* The Africa's Talking voice adapter.                                     *)
(***************************************************************************)
AtvPositions == {"idle", "post", "register", "mark", "act", "deliver", "done"}
AtvReqs == [at : AtvPositions, posts : Nat, acted : BOOLEAN]
AtvLegStates == [known : BOOLEAN, ended : BOOLEAN, held : BOOLEAN, action : {"none", "hangup", "transfer"}]
AtvCbStates == [at : {"none", "deliver", "respond", "rejected", "answered"}, leg : AtvLegs \cup {"none"},
                status : {"none", "progress", "terminal"}]
AtvDials == [dialled : Nat, postponed : Nat]

AtvTyped ==
    /\ atvReq \in [AtvRequests -> AtvReqs]
    /\ atvLeg \in [AtvLegs -> AtvLegStates]
    /\ atvCb \in [AtvCallbacks -> AtvCbStates]
    /\ atvCall \in [AtvLegs -> AtvDials]
    /\ atvTold \in [AtvLegs -> SUBSET {"hangup", "transfer"}]

\* A request is only where its operation takes it, and a handler has a leg.
AtvPlaced ==
    /\ \A r \in AtvRequests :
        /\ atvReq[r].at \in {"post", "register"} => r.op = "place"
        /\ atvReq[r].at \in {"mark", "act", "deliver"} => r.op # "place"
    /\ \A k \in AtvCallbacks : atvCb[k].at # "none" => atvCb[k].leg \in AtvLegs

\* As long as PlaceCall may post, every dial was answered with a retryable
\* status.
AtvDialsPutOff ==
    \A r \in AtvRequests :
        r.op = "place" /\ atvReq[r].at \in {"idle", "post"}
            => atvCall[r.leg].dialled <= atvCall[r.leg].postponed

AtvInv == AtvTyped /\ AtvPlaced /\ AtvDialsPutOff /\ AtvCommandsHonest

LEMMA AtvInitOK == AtvInit => AtvInv
  <1> SUFFICES ASSUME AtvInit PROVE AtvInv
    OBVIOUS
  <1>1. AtvTyped
    BY DEF AtvInit, AtvTyped, AtvPositions, AtvReqs, AtvLegStates, AtvCbStates, AtvDials
  <1>2. AtvPlaced
    BY DEF AtvInit, AtvPlaced
  <1>3. \A r \in AtvRequests : r.leg \in AtvLegs
    BY DEF AtvLegs
  <1>4. \A i \in AtvLegs : atvCall[i].dialled = 0 /\ atvCall[i].postponed = 0
    BY DEF AtvInit
  <1>5. AtvDialsPutOff /\ AtvRedialNeedsAnswer
    BY <1>3, <1>4 DEF AtvDialsPutOff, AtvRedialNeedsAnswer
  <1>6. AtvHangupKept
    BY DEF AtvInit, AtvHangupKept
  <1> QED
    BY <1>1, <1>2, <1>5, <1>6 DEF AtvInv, AtvCommandsHonest

\* A request moves, and nothing is dialled: what is left to show is about the
\* action of its leg.
LEMMA AtvMoved ==
    ASSUME AtvInv, NEW r \in AtvRequests, NEW to \in AtvPositions, NEW b \in BOOLEAN,
           atvReq' = [atvReq EXCEPT ![r].at = to, ![r].acted = b], atvReq[r].acted => b,
           to \in {"post", "register"} => r.op = "place", to \in {"mark", "act", "deliver"} => r.op # "place",
           to \in {"idle", "post"} => atvReq[r].at \in {"idle", "post"},
           UNCHANGED <<atvCb, atvCall, atvTold>>, atvLeg' \in [AtvLegs -> AtvLegStates],
           \A i \in AtvLegs : i # r.leg => atvLeg'[i].action = atvLeg[i].action,
           \/ atvLeg'[r.leg].action = atvLeg[r.leg].action /\ (b => atvReq[r].acted \/ r.op # "hangup")
           \/ b /\ r.op \in {"hangup", "transfer"} /\ atvLeg'[r.leg].action = r.op
    PROVE  AtvInv'
  <1>t. AtvTyped /\ AtvPlaced /\ AtvDialsPutOff /\ AtvHangupKept /\ AtvRedialNeedsAnswer
    BY DEF AtvInv, AtvCommandsHonest
  <1> DEFINE t == [atvReq[r] EXCEPT !.at = to, !.acted = b]
  <1>1. atvReq[r] \in AtvReqs /\ atvReq \in [AtvRequests -> AtvReqs]
    BY <1>t DEF AtvTyped
  <1>2. t \in AtvReqs /\ t.at = to /\ t.acted = b
    BY <1>1 DEF AtvReqs
  <1>3. atvReq' = [atvReq EXCEPT ![r] = t]
    OBVIOUS
  <1> HIDE DEF t
  <1>4. atvReq' \in [AtvRequests -> AtvReqs] /\ atvReq'[r] = t /\ \A q \in AtvRequests \ {r} : atvReq'[q] = atvReq[q]
    BY <1>1, <1>2, <1>3
  <1>5. AtvTyped'
    BY <1>t, <1>4 DEF AtvTyped
  <1>6. AtvPlaced'
    BY <1>t, <1>2, <1>4 DEF AtvPlaced
  <1>7. AtvDialsPutOff' /\ AtvRedialNeedsAnswer'
    BY <1>t, <1>2, <1>4 DEF AtvDialsPutOff, AtvRedialNeedsAnswer
  <1>8. \A q \in AtvRequests : q.leg \in AtvLegs
    BY DEF AtvLegs
  <1>9. AtvHangupKept'
    <2> SUFFICES ASSUME NEW q \in AtvRequests, q.op = "hangup", atvReq'[q].acted,
                        ~ \E x \in AtvRequests : x.leg = q.leg /\ x.op = "transfer" /\ atvReq'[x].acted
                 PROVE  "hangup" \in atvTold'[q.leg] \cup {atvLeg'[q.leg].action}
      BY DEF AtvHangupKept
    <2>1. ~ \E x \in AtvRequests : x.leg = q.leg /\ x.op = "transfer" /\ atvReq[x].acted
      BY <1>2, <1>4
    <2>2. CASE atvLeg'[q.leg].action = "hangup"
      BY <2>2
    <2>3. CASE atvLeg'[q.leg].action = atvLeg[q.leg].action /\ atvReq[q].acted
      BY <1>t, <2>1, <2>3 DEF AtvHangupKept
    <2>4. CASE atvLeg'[q.leg].action # "hangup" /\ atvLeg'[q.leg].action # atvLeg[q.leg].action
      BY <1>2, <1>4, <1>8, <2>1, <2>4
    <2>5. CASE ~atvReq[q].acted
      BY <1>2, <1>4, <1>8, <2>5
    <2> QED
      BY <2>2, <2>3, <2>4, <2>5
  <1> QED
    BY <1>5, <1>6, <1>7, <1>9 DEF AtvInv, AtvCommandsHonest

LEMMA AtvRequestKeeps ==
    ASSUME AtvInv, NEW r \in AtvRequests,
           \/ AtvPlaceCall(r) \/ AtvCanceled(r) \/ AtvRegister(r)
           \/ AtvCommand(r) \/ AtvHangupMarks(r) \/ AtvAct(r) \/ AtvDeliver(r)
    PROVE  AtvInv'
  <1>t. AtvTyped /\ AtvPlaced
    BY DEF AtvInv
  <1>e. atvReq \in [AtvRequests -> AtvReqs] /\ atvReq[r] \in AtvReqs /\ atvLeg \in [AtvLegs -> AtvLegStates]
        /\ r.leg \in AtvLegs /\ atvLeg[r.leg] \in AtvLegStates /\ r.op \in AtvOps
    BY <1>t, AtVoiceAssumption DEF AtvTyped, AtvLegs
  <1>b. atvReq[r].acted \in BOOLEAN
    BY <1>e DEF AtvReqs
  <1>a. ASSUME NEW from, NEW to, AtvAt(r, from, to)
        PROVE  atvReq[r].at = from /\ atvReq' = [atvReq EXCEPT ![r].at = to, ![r].acted = atvReq[r].acted]
    <2>1. [atvReq[r] EXCEPT !.at = to] = [atvReq[r] EXCEPT !.at = to, !.acted = atvReq[r].acted]
      BY <1>e DEF AtvReqs
    <2>2. atvReq' = [atvReq EXCEPT ![r] = [atvReq[r] EXCEPT !.at = to]] /\ atvReq[r].at = from
      BY <1>a, <1>e DEF AtvAt
    <2>3. atvReq' = [atvReq EXCEPT ![r] = [atvReq[r] EXCEPT !.at = to, !.acted = atvReq[r].acted]]
      BY <2>1, <2>2
    <2> QED
      BY <2>2, <2>3
  <1>1. CASE AtvPlaceCall(r)
    <2>1. AtvAt(r, "idle", "post") /\ r.op = "place" /\ UNCHANGED <<atvLeg, atvCb, atvCall, atvTold>>
      BY <1>1 DEF AtvPlaceCall
    <2> QED
      BY <1>a, <1>b, <1>e, <2>1, AtvMoved DEF AtvPositions
  <1>2. CASE AtvCanceled(r) \/ AtvDeliver(r)
    <2>1. PICK from \in {"post", "deliver"} : AtvAt(r, from, "done") /\ UNCHANGED <<atvLeg, atvCb, atvCall, atvTold>>
      BY <1>2 DEF AtvCanceled, AtvDeliver
    <2> QED
      BY <1>a, <1>b, <1>e, <2>1, AtvMoved DEF AtvPositions
  <1>3. CASE AtvRegister(r)
    <2>1. /\ atvReq[r].at = "register" /\ atvReq' = [atvReq EXCEPT ![r].at = "done", ![r].acted = TRUE]
          /\ UNCHANGED <<atvCb, atvCall, atvTold>> /\ atvLeg' = [atvLeg EXCEPT ![r.leg].known = TRUE]
      BY <1>3 DEF AtvRegister, AtvActs
    <2>2. /\ atvLeg' \in [AtvLegs -> AtvLegStates]
          /\ \A i \in AtvLegs : atvLeg'[i].action = atvLeg[i].action
      BY <1>e, <2>1 DEF AtvLegStates
    <2>3. r.op = "place"
      BY <1>t, <2>1 DEF AtvPlaced
    <2> QED
      BY <1>e, <2>1, <2>2, <2>3, AtvMoved DEF AtvPositions
  <1>4. CASE AtvCommand(r)
    <2>1. PICK to \in {"done", "mark", "act"} : AtvAt(r, "idle", to) /\ r.op # "place"
                  /\ UNCHANGED <<atvLeg, atvCb, atvCall, atvTold>>
      BY <1>4 DEF AtvCommand
    <2>2. atvReq' = [atvReq EXCEPT ![r].at = to, ![r].acted = atvReq[r].acted]
      BY <1>a, <2>1
    <2>3. to \in AtvPositions /\ to \notin {"idle", "post", "register"}
      BY <2>1 DEF AtvPositions
    <2> QED
      BY <1>b, <1>e, <2>1, <2>2, <2>3, AtvMoved
  <1>5. CASE AtvHangupMarks(r)
    <2>1. AtvAt(r, "mark", "act") /\ UNCHANGED <<atvCb, atvCall, atvTold>> /\ atvLeg' = AtvMarkEnded(r.leg)
      BY <1>5 DEF AtvHangupMarks
    <2>2. /\ atvLeg' \in [AtvLegs -> AtvLegStates]
          /\ \A i \in AtvLegs : atvLeg'[i].action = atvLeg[i].action
      BY <1>e, <2>1 DEF AtvLegStates, AtvMarkEnded
    <2>3. r.op # "place"
      BY <1>t, <1>a, <2>1 DEF AtvPlaced
    <2> QED
      BY <1>a, <1>b, <1>e, <2>1, <2>2, <2>3, AtvMoved DEF AtvPositions
  <1>6. CASE AtvAct(r)
    <2>1. PICK to \in {"done", "deliver"} :
            /\ atvReq[r].at = "act" /\ atvReq' = [atvReq EXCEPT ![r].at = to, ![r].acted = TRUE]
            /\ UNCHANGED <<atvCb, atvCall, atvTold>>
      BY <1>6 DEF AtvAct, AtvActs
    <2>2. r.op # "place"
      BY <1>t, <2>1 DEF AtvPlaced
    <2>3. CASE r.op \in {"hold", "resume"}
      <3>1. PICK b \in BOOLEAN : b = (r.op = "hold")
        OBVIOUS
      <3>2. atvLeg' = [atvLeg EXCEPT ![r.leg].held = b]
        BY <1>6, <2>3, <3>1 DEF AtvAct
      <3>3. /\ atvLeg' \in [AtvLegs -> AtvLegStates]
            /\ \A i \in AtvLegs : atvLeg'[i].action = atvLeg[i].action
        BY <1>e, <3>2 DEF AtvLegStates
      <3> QED
        BY <1>e, <2>1, <2>2, <2>3, <3>3, AtvMoved DEF AtvPositions
    <2>4. CASE r.op \in {"hangup", "transfer"}
      <3>1. atvLeg' = [atvLeg EXCEPT ![r.leg].action = r.op]
        BY <1>6, <2>4 DEF AtvAct
      <3>2. /\ atvLeg' \in [AtvLegs -> AtvLegStates]
            /\ atvLeg'[r.leg].action = r.op
            /\ \A i \in AtvLegs : i # r.leg => atvLeg'[i].action = atvLeg[i].action
        BY <1>e, <2>4, <3>1 DEF AtvLegStates
      <3> QED
        BY <1>e, <2>1, <2>2, <2>4, <3>2, AtvMoved DEF AtvPositions
    <2> QED
      BY <1>e, <2>2, <2>3, <2>4 DEF AtvOps
  <1> QED
    BY <1>1, <1>2, <1>3, <1>4, <1>5, <1>6

LEMMA AtvPostKeeps ==
    ASSUME AtvInv, NEW r \in AtvRequests, NEW dials \in BOOLEAN, NEW answer \in AtvAnswers, AtvPost(r, dials, answer)
    PROVE  AtvInv'
  <1>t. AtvTyped /\ AtvPlaced /\ AtvDialsPutOff /\ AtvHangupKept /\ AtvRedialNeedsAnswer
    BY DEF AtvInv, AtvCommandsHonest
  <1>e. atvReq \in [AtvRequests -> AtvReqs] /\ atvReq[r] \in AtvReqs /\ atvCall \in [AtvLegs -> AtvDials]
        /\ r.leg \in AtvLegs /\ atvCall[r.leg] \in AtvDials
    BY <1>t DEF AtvTyped, AtvLegs
  <1>n. atvCall[r.leg].dialled \in Nat /\ atvCall[r.leg].postponed \in Nat /\ atvReq[r].posts \in Nat
    BY <1>e DEF AtvDials, AtvReqs
  <1>d. PICK d \in Nat : /\ dials => d = atvCall[r.leg].dialled + 1
                         /\ ~dials => d = atvCall[r.leg].dialled
    <2>1. CASE dials
      BY <1>n, <2>1
    <2>2. CASE ~dials
      BY <1>n, <2>2
    <2> QED
      BY <2>1, <2>2
  <1>o. PICK o \in Nat : /\ answer = "busy" => o = atvCall[r.leg].postponed + 1
                         /\ answer # "busy" => o = atvCall[r.leg].postponed
    <2>1. CASE answer = "busy"
      BY <1>n, <2>1
    <2>2. CASE answer # "busy"
      BY <1>n, <2>2
    <2> QED
      BY <2>1, <2>2
  <1>p. PICK n \in Nat : n = atvReq[r].posts + 1
    BY <1>n
  <1>2. PICK to \in {"register", "post", "done"} :
            /\ to = (CASE answer = "queued" -> "register"
                       [] AtvRetryable(answer) /\ atvReq[r].posts < AtvMaxRetries -> "post"
                       [] OTHER -> "done")
            /\ to = "post" => answer = "busy"
    BY DEF AtvRetryable, AtvAnswers
  <1> DEFINE t == [atvReq[r] EXCEPT !.posts = n, !.at = to]
             c == [atvCall[r.leg] EXCEPT !.dialled = d, !.postponed = o]
  <1>3. t \in AtvReqs /\ t.at = to /\ t.acted = atvReq[r].acted
    BY <1>e DEF AtvReqs, AtvPositions
  <1>4. c \in AtvDials /\ c.dialled = d /\ c.postponed = o
    BY <1>e DEF AtvDials
  <1>5. atvReq' = [atvReq EXCEPT ![r] = t] /\ atvCall' = [atvCall EXCEPT ![r.leg] = c]
        /\ UNCHANGED <<atvLeg, atvCb, atvTold>> /\ atvReq[r].at = "post"
    <2>1. d = IF dials THEN atvCall[r.leg].dialled + 1 ELSE atvCall[r.leg].dialled
      BY <1>d
    <2>2. o = IF answer = "busy" THEN atvCall[r.leg].postponed + 1 ELSE atvCall[r.leg].postponed
      BY <1>o
    <2> QED
      BY <1>p, <1>2, <2>1, <2>2 DEF AtvPost
  <1> HIDE DEF t, c
  <1>6. atvReq' \in [AtvRequests -> AtvReqs] /\ atvReq'[r] = t /\ \A q \in AtvRequests \ {r} : atvReq'[q] = atvReq[q]
    BY <1>e, <1>3, <1>5
  <1>7. atvCall' \in [AtvLegs -> AtvDials] /\ atvCall'[r.leg] = c /\ \A i \in AtvLegs \ {r.leg} : atvCall'[i] = atvCall[i]
    BY <1>e, <1>4, <1>5
  <1>8. AtvTyped'
    BY <1>t, <1>5, <1>6, <1>7 DEF AtvTyped
  <1>9. r.op = "place"
    BY <1>t, <1>5 DEF AtvPlaced
  <1>10. AtvPlaced'
    BY <1>t, <1>3, <1>5, <1>6, <1>9 DEF AtvPlaced
  <1>11. atvCall[r.leg].dialled <= atvCall[r.leg].postponed
    BY <1>t, <1>5, <1>9 DEF AtvDialsPutOff
  <1>12. d <= 1 + o /\ (answer = "busy" => d <= o)
    <2>1. d <= atvCall[r.leg].postponed + 1
      <3>1. CASE dials
        BY <1>d, <1>11, <1>n, <3>1
      <3>2. CASE ~dials
        BY <1>d, <1>11, <1>n, <3>2
      <3> QED
        BY <3>1, <3>2
    <2>2. CASE answer = "busy"
      BY <1>o, <1>n, <2>1, <2>2
    <2>3. CASE answer # "busy"
      BY <1>o, <1>n, <2>1, <2>3
    <2> QED
      BY <2>2, <2>3
  <1>13. AtvDialsPutOff'
    <2> SUFFICES ASSUME NEW q \in AtvRequests, q.op = "place", atvReq'[q].at \in {"idle", "post"}
                 PROVE  atvCall'[q.leg].dialled <= atvCall'[q.leg].postponed
      BY DEF AtvDialsPutOff
    <2>1. CASE q = r
      BY <1>2, <1>3, <1>4, <1>6, <1>7, <1>12, <2>1
    <2>2. CASE q # r
      <3>1. q.leg # r.leg /\ q.leg \in AtvLegs
        BY <1>9, <2>2, AtVoiceAssumption DEF AtvLegs
      <3> QED
        BY <1>t, <1>6, <1>7, <2>2, <3>1 DEF AtvDialsPutOff
    <2> QED
      BY <2>1, <2>2
  <1>14. AtvRedialNeedsAnswer'
    BY <1>t, <1>4, <1>7, <1>12 DEF AtvRedialNeedsAnswer
  <1>15. AtvHangupKept'
    <2>1. \A q \in AtvRequests : atvReq'[q].acted = atvReq[q].acted
      BY <1>3, <1>6
    <2> QED
      BY <1>t, <1>5, <2>1 DEF AtvHangupKept
  <1> QED
    BY <1>8, <1>10, <1>13, <1>14, <1>15 DEF AtvInv, AtvCommandsHonest

LEMMA AtvCallbackKeeps ==
    ASSUME AtvInv, NEW k \in AtvCallbacks,
           \/ \E i \in AtvLegs, status \in {"progress", "terminal"} : AtvCallback(k, i, status)
           \/ AtvCallbackDelivers(k) \/ AtvRespond(k)
    PROVE  AtvInv'
  <1>t. AtvTyped /\ AtvPlaced /\ AtvDialsPutOff /\ AtvHangupKept /\ AtvRedialNeedsAnswer
    BY DEF AtvInv, AtvCommandsHonest
  <1>e. atvCb \in [AtvCallbacks -> AtvCbStates] /\ atvCb[k] \in AtvCbStates /\ atvLeg \in [AtvLegs -> AtvLegStates]
        /\ atvTold \in [AtvLegs -> SUBSET {"hangup", "transfer"}]
    BY <1>t DEF AtvTyped
  <1>l. \A q \in AtvRequests : q.leg \in AtvLegs
    BY DEF AtvLegs
  <1>s. UNCHANGED <<atvReq, atvCall>>
    BY DEF AtvCallback, AtvCallbackDelivers, AtvRespond
  <1>1. /\ atvCb' \in [AtvCallbacks -> AtvCbStates]
        /\ atvLeg' \in [AtvLegs -> AtvLegStates]
        /\ atvTold' \in [AtvLegs -> SUBSET {"hangup", "transfer"}]
        /\ \A j \in AtvCallbacks : atvCb'[j].at # "none" => atvCb'[j].leg \in AtvLegs
        /\ \A i \in AtvLegs : (atvTold[i] \cup {atvLeg[i].action}) \ {"none"} \subseteq atvTold'[i] \cup {atvLeg'[i].action}
    <2>1. ASSUME NEW i \in AtvLegs, NEW status \in {"progress", "terminal"}, AtvCallback(k, i, status)
          PROVE  <1>1!:
      <3> DEFINE t == [at |-> IF atvLeg[i].known THEN "deliver" ELSE "rejected", leg |-> i, status |-> status]
      <3>1. t \in AtvCbStates /\ t.leg \in AtvLegs
        BY DEF AtvCbStates
      <3>2. atvCb' = [atvCb EXCEPT ![k] = t] /\ UNCHANGED atvTold
        BY <2>1 DEF AtvCallback
      <3> HIDE DEF t
      <3>3. /\ atvCb' \in [AtvCallbacks -> AtvCbStates]
            /\ \A j \in AtvCallbacks : atvCb'[j].at # "none" => atvCb'[j].leg \in AtvLegs
        BY <1>t, <1>e, <3>1, <3>2 DEF AtvPlaced
      <3>4. atvLeg' \in [AtvLegs -> AtvLegStates] /\ \A j \in AtvLegs : atvLeg'[j].action = atvLeg[j].action
        <4>1. AtvMarkEnded(i) \in [AtvLegs -> AtvLegStates] /\ \A j \in AtvLegs : AtvMarkEnded(i)[j].action = atvLeg[j].action
          BY <1>e, ZenonT(60) DEF AtvLegStates, AtvMarkEnded
        <4> QED
          BY <1>e, <2>1, <4>1 DEF AtvCallback
      <3> QED
        BY <1>e, <3>2, <3>3, <3>4
    <2>2. CASE AtvCallbackDelivers(k)
      <3>1. PICK to \in {"respond", "rejected"} : atvCb' = [atvCb EXCEPT ![k].at = to]
        BY <2>2 DEF AtvCallbackDelivers
      <3>2. atvCb[k].at = "deliver" /\ UNCHANGED <<atvLeg, atvTold>>
        BY <2>2 DEF AtvCallbackDelivers
      <3>3. /\ atvCb' \in [AtvCallbacks -> AtvCbStates]
            /\ \A j \in AtvCallbacks : atvCb'[j].leg = atvCb[j].leg /\ (atvCb'[j].at # "none" => atvCb[j].at # "none")
        BY <1>e, <3>1, <3>2 DEF AtvCbStates
      <3> QED
        BY <1>t, <1>e, <3>2, <3>3 DEF AtvPlaced
    <2>3. CASE AtvRespond(k)
      <3>1. PICK i \in AtvLegs : i = atvCb[k].leg
        BY <1>t, <2>3 DEF AtvRespond, AtvPlaced
      <3>2. /\ atvCb' = [atvCb EXCEPT ![k].at = "answered"] /\ atvCb[k].at = "respond"
            /\ atvTold' = [atvTold EXCEPT ![i] = @ \cup ({atvLeg[i].action} \ {"none"})]
            /\ atvLeg' = [atvLeg EXCEPT ![i] = [atvLeg[i] EXCEPT !.action = "none"]]
        BY <2>3, <3>1 DEF AtvRespond, AtvDrained
      <3>3. /\ atvCb' \in [AtvCallbacks -> AtvCbStates]
            /\ \A j \in AtvCallbacks : atvCb'[j].leg = atvCb[j].leg /\ (atvCb'[j].at # "none" => atvCb[j].at # "none")
        BY <1>e, <3>2 DEF AtvCbStates
      <3>4. atvLeg' \in [AtvLegs -> AtvLegStates] /\ \A j \in AtvLegs \ {i} : atvLeg'[j] = atvLeg[j]
        BY <1>e, <3>2 DEF AtvLegStates
      <3>5. atvLeg[i].action \in {"none", "hangup", "transfer"}
        BY <1>e DEF AtvLegStates
      <3>6. /\ atvTold' \in [AtvLegs -> SUBSET {"hangup", "transfer"}]
            /\ atvTold'[i] = atvTold[i] \cup ({atvLeg[i].action} \ {"none"})
            /\ \A j \in AtvLegs \ {i} : atvTold'[j] = atvTold[j]
        BY <1>e, <3>2, <3>5
      <3> QED
        BY <1>t, <3>3, <3>4, <3>6 DEF AtvPlaced
    <2> QED
      BY <2>1, <2>2, <2>3
  <1>2. AtvTyped'
    BY <1>t, <1>s, <1>1 DEF AtvTyped
  <1>3. AtvPlaced' /\ AtvDialsPutOff' /\ AtvRedialNeedsAnswer'
    BY <1>t, <1>s, <1>1 DEF AtvPlaced, AtvDialsPutOff, AtvRedialNeedsAnswer
  <1>4. AtvHangupKept'
    BY <1>t, <1>s, <1>l, <1>1 DEF AtvHangupKept
  <1> QED
    BY <1>2, <1>3, <1>4 DEF AtvInv, AtvCommandsHonest

LEMMA AtvStutters == AtvInv /\ UNCHANGED atvVars => AtvInv'
  BY DEF atvVars, AtvInv, AtvTyped, AtvPlaced, AtvDialsPutOff, AtvCommandsHonest, AtvHangupKept, AtvRedialNeedsAnswer

\* An accepted Hangup waits with its leg or was given to the carrier, unless a
\* Transfer replaced it, and the carrier is asked to dial again only after a
\* retryable answer, for every number of requests, retries and callbacks.
THEOREM AtvCommands == AtvSpec => []AtvCommandsHonest
  <1>1. AtvInit => AtvInv
    BY AtvInitOK
  <1>2. AtvInv /\ [AtvNext]_atvVars => AtvInv'
    BY AtvRequestKeeps, AtvPostKeeps, AtvCallbackKeeps, AtvStutters DEF AtvNext
  <1>3. AtvInv => AtvCommandsHonest
    BY DEF AtvInv
  <1> QED
    BY <1>1, <1>2, <1>3, PTL DEF AtvSpec

(***************************************************************************)
(* The Twilio voice adapter.                                               *)
(***************************************************************************)
TwvReqs == [at : {"idle", "post", "answered", "done"}, posts : Nat, sid : Int,
            result : {"none", "ok", "error"}]
TwvStates == {"none", "live", "over", "reported"}

TwvTyped ==
    /\ twvReq \in [TwvRequests -> TwvReqs]
    /\ twvLeg \in [TwvLegs -> Int]
    /\ twvCall \in [TwvLegs -> [TwvSids -> TwvStates]]
    /\ twvSent \in [TwvLegs -> SUBSET {"call.ringing", "call.connected", "call.ended"}]

\* A POST that is due has a sid left, and a command addresses one.
TwvPlaced ==
    \A r \in TwvRequests :
        /\ r.op = "place" /\ twvReq[r].at \in {"idle", "post"} => twvReq[r].posts <= TwvMaxRetries
        /\ r.op # "place" /\ twvReq[r].at \in {"post", "answered"} => twvReq[r].sid \in TwvSids
        /\ twvReq[r].at = "idle" => twvReq[r].result = "none"

\* A sid that no POST has used names no call.
TwvUnused ==
    \A r \in TwvRequests : r.op = "place" =>
        \A n \in TwvSids : n > twvReq[r].posts => twvCall[r.leg][n] = "none"

\* The call a Hangup ended is over before the Hangup reports it.
TwvHangupDone ==
    \A r \in TwvRequests :
        r.op = "hangup" /\ (twvReq[r].at = "answered" \/ twvReq[r].result = "ok")
            => twvReq[r].sid \in TwvSids /\ twvCall[r.leg][twvReq[r].sid] \in {"over", "reported"}

\* Behind a call.ended there is a call that was reported.
TwvEndedReported ==
    \A i \in TwvLegs : "call.ended" \in twvSent[i] => \E n \in TwvSids : twvCall[i][n] = "reported"

TwvInv == TwvTyped /\ TwvPlaced /\ TwvUnused /\ TwvHangupDone /\ TwvEndedReported

LEMMA TwvInvSuffices == TwvInv => TwvTruthful
  <1> SUFFICES ASSUME TwvInv PROVE TwvTruthful
    OBVIOUS
  <1>1. TwvHangupTruthful
    BY DEF TwvInv, TwvHangupDone, TwvHangupTruthful
  <1>2. TwvEndedIsOver
    <2> SUFFICES ASSUME NEW r \in TwvRequests, r.op = "place", twvReq[r].posts = 1, "call.ended" \in twvSent[r.leg],
                        NEW n \in TwvSids
                 PROVE  twvCall[r.leg][n] # "live"
      BY DEF TwvEndedIsOver
    <2>1. r.leg \in TwvLegs
      BY DEF TwvLegs
    <2>2. PICK m \in TwvSids : twvCall[r.leg][m] = "reported"
      BY <2>1 DEF TwvInv, TwvEndedReported
    <2>3. m \in Nat /\ n \in Nat /\ m >= 1 /\ n >= 1
      BY DEF TwvSids
    <2>4. ~(m > 1) /\ (n > 1 => twvCall[r.leg][n] = "none")
      BY <2>2, <2>3 DEF TwvInv, TwvUnused
    <2>5. CASE n > 1
      BY <2>4, <2>5
    <2>6. CASE ~(n > 1)
      <3>1. n = m
        BY <2>3, <2>4, <2>6
      <3> QED
        BY <2>2, <3>1
    <2> QED
      BY <2>5, <2>6
  <1> QED
    BY <1>1, <1>2 DEF TwvTruthful

LEMMA TwvInitOK == TwvInit => TwvInv
  <1> SUFFICES ASSUME TwvInit PROVE TwvInv
    OBVIOUS
  <1>1. \A r \in TwvRequests : r.leg \in TwvLegs
    BY DEF TwvLegs
  <1>2. TwvTyped
    BY DEF TwvInit, TwvTyped, TwvReqs, TwvStates, TwvUnregistered
  <1>3. TwvPlaced
    BY TwilioVoiceAssumption DEF TwvInit, TwvPlaced
  <1>4. TwvUnused /\ TwvHangupDone /\ TwvEndedReported
    BY <1>1 DEF TwvInit, TwvUnused, TwvHangupDone, TwvEndedReported
  <1> QED
    BY <1>2, <1>3, <1>4 DEF TwvInv

\* A request changes its record, and at most the one call it addresses.
LEMMA TwvMoved ==
    ASSUME TwvInv, NEW r \in TwvRequests, NEW t \in TwvReqs, twvReq' = [twvReq EXCEPT ![r] = t],
           twvLeg' \in [TwvLegs -> Int], UNCHANGED twvSent,
           twvCall' \in [TwvLegs -> [TwvSids -> TwvStates]],
           \A i \in TwvLegs, n \in TwvSids :
              /\ twvCall[i][n] \in {"over", "reported"} => twvCall'[i][n] = twvCall[i][n]
              /\ twvCall[i][n] = "none" => twvCall'[i][n] = "none" \/ (r.op = "place" /\ i = r.leg /\ n <= t.posts),
           t.posts >= twvReq[r].posts,
           r.op = "place" /\ t.at \in {"idle", "post"} => t.posts <= TwvMaxRetries,
           r.op # "place" /\ t.at \in {"post", "answered"} => t.sid \in TwvSids,
           t.at = "idle" => t.result = "none",
           r.op = "hangup" /\ (t.at = "answered" \/ t.result = "ok")
              => t.sid \in TwvSids /\ twvCall'[r.leg][t.sid] \in {"over", "reported"}
    PROVE  TwvInv'
  <1>t. TwvTyped /\ TwvPlaced /\ TwvUnused /\ TwvHangupDone /\ TwvEndedReported
    BY DEF TwvInv
  <1>e. twvReq \in [TwvRequests -> TwvReqs]
    BY <1>t DEF TwvTyped
  <1>l. \A q \in TwvRequests : q.leg \in TwvLegs
    BY DEF TwvLegs
  <1>1. twvReq' \in [TwvRequests -> TwvReqs] /\ twvReq'[r] = t /\ \A q \in TwvRequests \ {r} : twvReq'[q] = twvReq[q]
    BY <1>e
  <1>2. TwvTyped'
    BY <1>t, <1>1 DEF TwvTyped
  <1>3. TwvPlaced'
    BY <1>t, <1>1 DEF TwvPlaced
  <1>4. TwvUnused'
    <2> SUFFICES ASSUME NEW q \in TwvRequests, q.op = "place", NEW n \in TwvSids, n > twvReq'[q].posts
                 PROVE  twvCall'[q.leg][n] = "none"
      BY DEF TwvUnused
    <2>1. n \in Nat /\ t.posts \in Nat /\ twvReq[r].posts \in Nat
      BY <1>e DEF TwvSids, TwvReqs
    <2>2. CASE q = r
      <3>1. n > twvReq[r].posts /\ ~(n <= t.posts)
        BY <1>1, <2>1, <2>2
      <3>2. twvCall[q.leg][n] = "none"
        BY <1>t, <2>2, <3>1 DEF TwvUnused
      <3> QED
        BY <1>l, <2>2, <3>1, <3>2
    <2>3. CASE q # r
      <3>1. twvCall[q.leg][n] = "none"
        BY <1>t, <1>1, <2>3 DEF TwvUnused
      <3>2. ~(r.op = "place" /\ q.leg = r.leg)
        BY <2>3, TwilioVoiceAssumption
      <3> QED
        BY <1>l, <3>1, <3>2
    <2> QED
      BY <2>2, <2>3
  <1>5. TwvHangupDone'
    <2> SUFFICES ASSUME NEW q \in TwvRequests, q.op = "hangup", twvReq'[q].at = "answered" \/ twvReq'[q].result = "ok"
                 PROVE  twvReq'[q].sid \in TwvSids /\ twvCall'[q.leg][twvReq'[q].sid] \in {"over", "reported"}
      BY DEF TwvHangupDone
    <2>1. CASE q = r
      BY <1>1, <2>1
    <2>2. CASE q # r
      BY <1>t, <1>l, <1>1, <2>2 DEF TwvHangupDone
    <2> QED
      BY <2>1, <2>2
  <1>6. TwvEndedReported'
    <2> SUFFICES ASSUME NEW i \in TwvLegs, "call.ended" \in twvSent[i]
                 PROVE  \E n \in TwvSids : twvCall'[i][n] = "reported"
      BY DEF TwvEndedReported
    <2>1. PICK n \in TwvSids : twvCall[i][n] = "reported"
      BY <1>t DEF TwvEndedReported
    <2> QED
      BY <2>1
  <1> QED
    BY <1>2, <1>3, <1>4, <1>5, <1>6 DEF TwvInv

\* The record of a request after one attempt.
LEMMA TwvAttempts ==
    ASSUME TwvTyped, NEW r \in TwvRequests, NEW answer \in TwvAnswers, NEW found \in Int, TwvAttempt(r, answer, found)
    PROVE  \E t \in TwvReqs :
              /\ twvReq' = [twvReq EXCEPT ![r] = t]
              /\ t.posts = twvReq[r].posts + 1
              /\ t.at = "answered" <=> answer = "ok"
              /\ t.at # "idle" /\ t.result # "ok"
              /\ t.at = "post" => twvReq[r].posts < TwvMaxRetries
              /\ t.sid = IF answer = "ok" THEN found ELSE twvReq[r].sid
  <1>1. twvReq[r] \in TwvReqs /\ twvReq[r].posts \in Nat /\ twvReq[r].sid \in Int
    BY DEF TwvTyped, TwvReqs
  <1>2. PICK n \in Nat : n = twvReq[r].posts + 1
    BY <1>1
  <1>3. PICK s \in Int : s = IF answer = "ok" THEN found ELSE twvReq[r].sid
    BY <1>1
  <1> DEFINE again == TwvRetryable(answer) /\ twvReq[r].posts < TwvMaxRetries
  <1>4. answer = "ok" => ~again
    BY DEF TwvRetryable
  <1>5. PICK a \in {"answered", "post", "done"} :
            /\ a = CASE answer = "ok" -> "answered" [] again -> "post" [] OTHER -> "done"
            /\ a = "answered" <=> answer = "ok"
            /\ a = "post" => twvReq[r].posts < TwvMaxRetries
    BY <1>4
  <1>6. PICK x \in {"none", "error"} : x = CASE answer = "ok" -> "none" [] again -> "none" [] OTHER -> "error"
    BY <1>4
  <1> DEFINE t == [twvReq[r] EXCEPT !.posts = n, !.at = a, !.sid = s, !.result = x]
  <1>7. t \in TwvReqs /\ t.posts = n /\ t.at = a /\ t.sid = s /\ t.result = x
    BY <1>1 DEF TwvReqs
  <1>8. twvReq' = [twvReq EXCEPT ![r] = t]
    BY <1>2, <1>3, <1>5, <1>6 DEF TwvAttempt
  <1> HIDE DEF t
  <1> QED
    BY <1>2, <1>3, <1>5, <1>7, <1>8

LEMMA TwvRequestKeeps ==
    ASSUME TwvInv, NEW r \in TwvRequests,
           \/ TwvPlaceCall(r) \/ TwvCanceled(r) \/ TwvRegister(r) \/ TwvCommand(r) \/ TwvReturns(r)
           \/ \E does \in BOOLEAN, answer \in TwvAnswers : TwvDial(r, does, answer) \/ TwvUpdate(r, does, answer)
    PROVE  TwvInv'
  <1>t. TwvTyped /\ TwvPlaced /\ TwvUnused /\ TwvHangupDone /\ TwvEndedReported
    BY DEF TwvInv
  <1>e. /\ twvReq[r] \in TwvReqs /\ twvReq[r].posts \in Nat /\ twvReq[r].sid \in Int /\ r.leg \in TwvLegs
        /\ twvLeg \in [TwvLegs -> Int] /\ twvCall \in [TwvLegs -> [TwvSids -> TwvStates]] /\ TwvMaxRetries \in Nat
    BY <1>t, TwilioVoiceAssumption DEF TwvTyped, TwvReqs, TwvLegs
  <1>s. TwvSids \subseteq Int
    BY DEF TwvSids
  <1>1. CASE TwvPlaceCall(r)
    <2> DEFINE t == [twvReq[r] EXCEPT !.at = "post"]
    <2>1. t \in TwvReqs /\ t.at = "post" /\ t.posts = twvReq[r].posts /\ t.sid = twvReq[r].sid /\ t.result = twvReq[r].result
      BY <1>e DEF TwvReqs
    <2>2. twvReq' = [twvReq EXCEPT ![r] = t] /\ UNCHANGED <<twvLeg, twvCall, twvSent>> /\ twvReq[r].at = "idle" /\ r.op = "place"
      BY <1>1 DEF TwvPlaceCall
    <2> HIDE DEF t
    <2>3. t.posts <= TwvMaxRetries /\ t.posts >= twvReq[r].posts
      BY <1>t, <1>e, <2>1, <2>2 DEF TwvPlaced
    <2> QED
      BY <1>e, <2>1, <2>2, <2>3, TwvMoved
  <1>2. CASE TwvCanceled(r)
    <2> DEFINE t == [twvReq[r] EXCEPT !.at = "done", !.result = "error"]
    <2>1. t \in TwvReqs /\ t.at = "done" /\ t.posts = twvReq[r].posts /\ t.result = "error"
      BY <1>e DEF TwvReqs
    <2>2. twvReq' = [twvReq EXCEPT ![r] = t] /\ UNCHANGED <<twvLeg, twvCall, twvSent>>
      BY <1>2 DEF TwvCanceled
    <2> HIDE DEF t
    <2>3. t.posts >= twvReq[r].posts
      BY <1>e, <2>1
    <2> QED
      BY <1>e, <2>1, <2>2, <2>3, TwvMoved
  <1>3. CASE TwvRegister(r)
    <2> DEFINE t == [twvReq[r] EXCEPT !.at = "done", !.result = "ok"]
    <2>1. t \in TwvReqs /\ t.at = "done" /\ t.posts = twvReq[r].posts /\ t.result = "ok"
      BY <1>e DEF TwvReqs
    <2>2. twvReq' = [twvReq EXCEPT ![r] = t] /\ UNCHANGED <<twvCall, twvSent>> /\ r.op = "place"
      BY <1>3 DEF TwvRegister
    <2>3. twvLeg' \in [TwvLegs -> Int]
      BY <1>3, <1>e DEF TwvRegister
    <2> HIDE DEF t
    <2>4. t.posts >= twvReq[r].posts
      BY <1>e, <2>1
    <2> QED
      BY <1>e, <2>1, <2>2, <2>3, <2>4, TwvMoved
  <1>4. CASE TwvCommand(r)
    <2>1. UNCHANGED <<twvLeg, twvCall, twvSent>> /\ r.op # "place" /\ twvReq[r].at = "idle"
      BY <1>4 DEF TwvCommand
    <2>2. CASE twvLeg[r.leg] \in TwvSids
      <3> DEFINE t == [twvReq[r] EXCEPT !.at = "post", !.sid = twvLeg[r.leg]]
      <3>0. twvLeg[r.leg] \in Int
        BY <1>e
      <3>1. t \in TwvReqs /\ t.at = "post" /\ t.posts = twvReq[r].posts /\ t.sid = twvLeg[r.leg] /\ t.result = twvReq[r].result
        BY <1>e, <3>0 DEF TwvReqs
      <3>2. twvReq' = [twvReq EXCEPT ![r] = t]
        BY <1>4, <2>2 DEF TwvCommand
      <3> HIDE DEF t
      <3>3. t.posts >= twvReq[r].posts
        BY <1>e, <3>1
      <3>4. r.op = "hangup" => t.result # "ok"
        BY <1>t, <2>1, <3>1 DEF TwvPlaced
      <3> QED
        BY <1>e, <2>1, <2>2, <3>1, <3>2, <3>3, <3>4, TwvMoved
    <2>3. CASE twvLeg[r.leg] \notin TwvSids
      <3> DEFINE t == [twvReq[r] EXCEPT !.at = "done", !.result = "error"]
      <3>1. t \in TwvReqs /\ t.at = "done" /\ t.posts = twvReq[r].posts /\ t.result = "error"
        BY <1>e DEF TwvReqs
      <3>2. twvReq' = [twvReq EXCEPT ![r] = t]
        BY <1>4, <2>3 DEF TwvCommand
      <3> HIDE DEF t
      <3>3. t.posts >= twvReq[r].posts
        BY <1>e, <3>1
      <3> QED
        BY <1>e, <2>1, <3>1, <3>2, <3>3, TwvMoved
    <2> QED
      BY <2>2, <2>3
  <1>5. CASE TwvReturns(r)
    <2>1. PICK x \in {"ok", "error"} : twvReq' = [twvReq EXCEPT ![r].at = "done", ![r].result = x]
      BY <1>5 DEF TwvReturns
    <2> DEFINE t == [twvReq[r] EXCEPT !.at = "done", !.result = x]
    <2>2. t \in TwvReqs /\ t.at = "done" /\ t.posts = twvReq[r].posts /\ t.sid = twvReq[r].sid
      BY <1>e DEF TwvReqs
    <2>3. twvReq' = [twvReq EXCEPT ![r] = t] /\ UNCHANGED <<twvLeg, twvCall, twvSent>> /\ r.op # "place"
          /\ twvReq[r].at = "answered"
      BY <1>5, <2>1 DEF TwvReturns
    <2> HIDE DEF t
    <2>4. t.posts >= twvReq[r].posts
      BY <1>e, <2>2
    <2>5. r.op = "hangup" => t.sid \in TwvSids /\ twvCall[r.leg][t.sid] \in {"over", "reported"}
      BY <1>t, <2>2, <2>3 DEF TwvHangupDone
    <2> QED
      BY <1>e, <2>2, <2>3, <2>4, <2>5, TwvMoved
  <1>6. ASSUME NEW does \in BOOLEAN, NEW answer \in TwvAnswers, TwvDial(r, does, answer) PROVE TwvInv'
    <2>1. r.op = "place" /\ twvReq[r].at = "post" /\ UNCHANGED <<twvLeg, twvSent>>
      BY <1>6 DEF TwvDial
    <2>2. PICK n \in TwvSids : n = twvReq[r].posts + 1
      BY <1>t, <1>e, <2>1 DEF TwvPlaced, TwvSids
    <2>3. PICK found \in Int : TwvAttempt(r, answer, found)
      BY <1>6, <1>s, <2>2 DEF TwvDial, TwvNoSid
    <2>4. PICK t \in TwvReqs :
              /\ twvReq' = [twvReq EXCEPT ![r] = t]
              /\ t.posts = twvReq[r].posts + 1
              /\ t.at # "idle" /\ t.result # "ok"
              /\ t.at = "post" => twvReq[r].posts < TwvMaxRetries
      BY <1>t, <2>3, TwvAttempts
    <2>5. t.posts >= twvReq[r].posts /\ (t.at = "post" => t.posts <= TwvMaxRetries) /\ n <= t.posts
      BY <1>e, <2>2, <2>4
    <2>6. twvCall' = [twvCall EXCEPT ![r.leg][n] = IF does THEN "live" ELSE @]
      BY <1>6, <2>2 DEF TwvDial
    <2>7. twvCall[r.leg][n] = "none"
      BY <1>t, <1>e, <1>s, <2>1, <2>2 DEF TwvUnused
    <2>8. /\ twvCall' \in [TwvLegs -> [TwvSids -> TwvStates]]
          /\ \A i \in TwvLegs, m \in TwvSids : i # r.leg \/ m # n => twvCall'[i][m] = twvCall[i][m]
      BY <1>e, <2>6 DEF TwvStates
    <2> QED
      BY <1>e, <2>1, <2>4, <2>5, <2>7, <2>8, TwvMoved, ZenonT(60)
  <1>7. ASSUME NEW does \in BOOLEAN, NEW answer \in TwvAnswers, TwvUpdate(r, does, answer) PROVE TwvInv'
    <2>1. r.op # "place" /\ twvReq[r].at = "post" /\ UNCHANGED <<twvLeg, twvSent>> /\ (answer = "ok" => does)
      BY <1>7 DEF TwvUpdate, TwvAccepted
    <2>2. PICK n \in TwvSids : n = twvReq[r].sid
      BY <1>t, <2>1 DEF TwvPlaced
    <2>3. TwvAttempt(r, answer, n) /\ n \in Int
      BY <1>7, <1>s, <2>2 DEF TwvUpdate
    <2>4. PICK t \in TwvReqs :
              /\ twvReq' = [twvReq EXCEPT ![r] = t]
              /\ t.posts = twvReq[r].posts + 1
              /\ t.at = "answered" <=> answer = "ok"
              /\ t.at # "idle" /\ t.result # "ok"
              /\ t.sid = n
      <3>1. \E t \in TwvReqs :
              /\ twvReq' = [twvReq EXCEPT ![r] = t]
              /\ t.posts = twvReq[r].posts + 1
              /\ t.at = "answered" <=> answer = "ok"
              /\ t.at # "idle" /\ t.result # "ok"
              /\ t.sid = IF answer = "ok" THEN n ELSE twvReq[r].sid
        BY <1>t, <2>3, TwvAttempts
      <3> QED
        BY <2>2, <3>1
    <2>5. t.posts >= twvReq[r].posts
      BY <1>e, <2>4
    <2>6. /\ twvCall' = [twvCall EXCEPT ![r.leg][n] = IF does /\ r.op = "hangup" THEN "over" ELSE @]
          /\ does => twvCall[r.leg][n] = "live"
      BY <1>7, <2>2 DEF TwvUpdate
    <2>7. /\ twvCall' \in [TwvLegs -> [TwvSids -> TwvStates]]
          /\ \A i \in TwvLegs, m \in TwvSids : i # r.leg \/ m # n => twvCall'[i][m] = twvCall[i][m]
          /\ twvCall'[r.leg][n] = IF does /\ r.op = "hangup" THEN "over" ELSE twvCall[r.leg][n]
      BY <1>e, <2>6 DEF TwvStates
    <2>8. \A i \in TwvLegs, m \in TwvSids :
            /\ twvCall[i][m] \in {"over", "reported"} => twvCall'[i][m] = twvCall[i][m]
            /\ twvCall[i][m] = "none" => twvCall'[i][m] = "none" \/ (r.op = "place" /\ i = r.leg /\ m <= t.posts)
      BY <2>6, <2>7
    <2>9. r.op = "hangup" /\ t.at = "answered" => twvCall'[r.leg][n] = "over"
      BY <2>1, <2>4, <2>7
    <2>10. r.op = "hangup" /\ (t.at = "answered" \/ t.result = "ok")
              => t.sid \in TwvSids /\ twvCall'[r.leg][t.sid] \in {"over", "reported"}
      BY <2>4, <2>9
    <2>11. t.sid \in TwvSids /\ t.at # "idle"
      BY <2>4
    <2>12. twvLeg' \in [TwvLegs -> Int] /\ UNCHANGED twvSent /\ twvCall' \in [TwvLegs -> [TwvSids -> TwvStates]]
      BY <1>e, <2>1, <2>7
    <2>13. twvReq' = [twvReq EXCEPT ![r] = t]
      BY <2>4
    <2>14. /\ r.op = "place" /\ t.at \in {"idle", "post"} => t.posts <= TwvMaxRetries
           /\ r.op # "place" /\ t.at \in {"post", "answered"} => t.sid \in TwvSids
           /\ t.at = "idle" => t.result = "none"
      BY <2>1, <2>11
    <2> QED
      BY <2>5, <2>8, <2>10, <2>12, <2>13, <2>14, TwvMoved
  <1> QED
    BY <1>1, <1>2, <1>3, <1>4, <1>5, <1>6, <1>7

LEMMA TwvCallbackKeeps ==
    ASSUME TwvInv, NEW i \in TwvLegs, NEW n \in TwvSids,
           NEW status \in {"ringing", "in-progress", "completed", "failed"}, TwvCallback(i, n, status)
    PROVE  TwvInv'
  <1>t. TwvTyped /\ TwvPlaced /\ TwvUnused /\ TwvHangupDone /\ TwvEndedReported
    BY DEF TwvInv
  <1>e. /\ twvCall \in [TwvLegs -> [TwvSids -> TwvStates]]
        /\ twvSent \in [TwvLegs -> SUBSET {"call.ringing", "call.connected", "call.ended"}]
    BY <1>t DEF TwvTyped
  <1>l. \A q \in TwvRequests : q.leg \in TwvLegs
    BY DEF TwvLegs
  <1>1. /\ twvCall[i][n] \in {"live", "over"} /\ UNCHANGED <<twvReq, twvLeg>>
        /\ twvCall' = [twvCall EXCEPT ![i][n] = IF status \in TwvTerminal THEN "reported" ELSE @]
    BY DEF TwvCallback
  <1>2. PICK delivered \in BOOLEAN :
            twvSent' = [twvSent EXCEPT ![i] = IF delivered THEN @ \cup {TwvEvent(status)} ELSE @]
    BY DEF TwvCallback
  <1>3. /\ twvCall' \in [TwvLegs -> [TwvSids -> TwvStates]]
        /\ \A j \in TwvLegs, m \in TwvSids : j # i \/ m # n => twvCall'[j][m] = twvCall[j][m]
        /\ twvCall'[i][n] = IF status \in TwvTerminal THEN "reported" ELSE twvCall[i][n]
    BY <1>e, <1>1 DEF TwvStates
  <1>4. /\ TwvEvent(status) \in {"call.ringing", "call.connected", "call.ended"}
        /\ TwvEvent(status) = "call.ended" => status \in TwvTerminal
    BY DEF TwvEvent, TwvTerminal
  <1>5. /\ twvSent' \in [TwvLegs -> SUBSET {"call.ringing", "call.connected", "call.ended"}]
        /\ \A j \in TwvLegs \ {i} : twvSent'[j] = twvSent[j]
        /\ twvSent'[i] \subseteq twvSent[i] \cup {TwvEvent(status)}
    BY <1>e, <1>2, <1>4
  <1>6. TwvTyped' /\ TwvPlaced'
    BY <1>t, <1>1, <1>3, <1>5 DEF TwvTyped, TwvPlaced
  <1>7. TwvUnused'
    BY <1>t, <1>l, <1>1, <1>3 DEF TwvUnused
  <1>8. TwvHangupDone'
    <2>1. \A j \in TwvLegs, m \in TwvSids : twvCall[j][m] \in {"over", "reported"} => twvCall'[j][m] \in {"over", "reported"}
      BY <1>1, <1>3
    <2> QED
      BY <1>t, <1>l, <1>1, <2>1 DEF TwvHangupDone
  <1>9. TwvEndedReported'
    <2> SUFFICES ASSUME NEW j \in TwvLegs, "call.ended" \in twvSent'[j]
                 PROVE  \E m \in TwvSids : twvCall'[j][m] = "reported"
      BY DEF TwvEndedReported
    <2>1. CASE "call.ended" \in twvSent[j]
      <3>1. PICK m \in TwvSids : twvCall[j][m] = "reported"
        BY <1>t, <2>1 DEF TwvEndedReported
      <3> QED
        BY <1>1, <1>3, <3>1
    <2>2. CASE "call.ended" \notin twvSent[j]
      BY <1>3, <1>4, <1>5, <2>2
    <2> QED
      BY <2>1, <2>2
  <1> QED
    BY <1>6, <1>7, <1>8, <1>9 DEF TwvInv

LEMMA TwvStutters == TwvInv /\ UNCHANGED twvVars => TwvInv'
  BY DEF twvVars, TwvInv, TwvTyped, TwvPlaced, TwvUnused, TwvHangupDone, TwvEndedReported

\* A Hangup that reported success ended its call, and when call.ended was
\* delivered no call of the interaction is live unless PlaceCall posted again:
\* a sid is used by one POST, and a call that was reported stays reported.
THEOREM TwvReports == TwvSpec => []TwvTruthful
  <1>1. TwvInit => TwvInv
    BY TwvInitOK
  <1>2. TwvInv /\ [TwvNext]_twvVars => TwvInv'
    BY TwvRequestKeeps, TwvCallbackKeeps, TwvStutters DEF TwvNext
  <1> QED
    BY <1>1, <1>2, TwvInvSuffices, PTL DEF TwvSpec

(***************************************************************************)
(* The FreeSWITCH voice adapter's legs.                                    *)
(***************************************************************************)
EvReqs == [at : {"idle", "wait", "sent", "replied", "emit", "done"},
           result : {"none", "ok", "err", "nochannel", "error"}]
EvRegistries == [tracked : SUBSET EvLegs, jobs : SUBSET EvLegs, known : SUBSET EvLegs]
EvFrames == [kind : {"reply"}, leg : EvLegs, req : EvRequests, result : {"ok", "err", "nochannel"}]
            \cup [kind : {"job_ok", "job_err", "answer", "hangup"}, leg : EvLegs, req : {EvNoRequest}, result : {"none"}]
EvEvents == {"ringing", "failed", "connected", "ended", "transfer"}
EvCalls == [chan : {"none", "dialling", "up", "failed", "over"}, job : BOOLEAN]

EvTyped ==
    /\ evReq \in [EvRequests -> EvReqs]
    /\ evLegs \in EvRegistries
    /\ evWire \in Seq(EvFrames)
    /\ evCall \in [EvLegs -> EvCalls]
    /\ evSent \in [EvLegs -> Seq(EvEvents)]
    /\ evMissed \subseteq EvLegs

\* There is no call before the dial reached the switch, and no leg before
\* PlaceCall tracked it.
EvUnplaced ==
    \A r \in EvRequests : r.op = "place" =>
        /\ evReq[r].at \in {"idle", "wait"} => evCall[r.leg] = EvNoCall
        /\ evReq[r].at = "idle" => r.leg \notin evLegs.tracked

\* A leg whose end was emitted is not tracked, nor will it be.
EvClosed ==
    \A i \in EvLegs : \A j \in 1 .. Len(evSent[i]) : evSent[i][j] \in EvTerminal =>
        /\ i \notin evLegs.tracked
        /\ \A r \in EvRequests : r.op = "place" /\ r.leg = i => evReq[r].at # "idle"

\* A tracked leg whose call is over will hear of it, whoever still places it.
EvHears ==
    \A i \in evLegs.tracked : EvOver(i) => EvOverSoon(i) \/ i \in evMissed

EvInv == EvTyped /\ EvUnplaced /\ EvClosed /\ EvHears /\ EvEndIsFinal

LEMMA EvInvSuffices == EvInv => EvLegLife
  BY DEF EvInv, EvLegLife, EvHears, EvLegRetired

LEMMA EvInitOK == EvInit => EvInv
  <1> SUFFICES ASSUME EvInit PROVE EvInv
    OBVIOUS
  <1>1. EvTyped
    BY DEF EvInit, EvTyped, EvReqs, EvRegistries, EvCalls, EvNoCall
  <1>2. \A r \in EvRequests : r.leg \in EvLegs
    BY DEF EvLegs
  <1>3. EvUnplaced
    BY <1>2 DEF EvInit, EvUnplaced
  <1>4. \A i \in EvLegs : Len(evSent[i]) = 0
    BY DEF EvInit
  <1>5. EvClosed /\ EvEndIsFinal
    BY <1>4 DEF EvClosed, EvEndIsFinal
  <1>6. EvHears
    BY DEF EvInit, EvHears
  <1> QED
    BY <1>1, <1>3, <1>5, <1>6 DEF EvInv

\* What EvLegsIn collects.
LEMMA EvLegsInWire ==
    ASSUME NEW K, NEW s, NEW i
    PROVE  i \in EvLegsIn(K, s) <=> \E k \in 1 .. Len(s) : s[k].kind \in K /\ s[k].leg = i
  BY DEF EvLegsIn

\* Writing to the wire keeps what is on it; reading takes the first frame.
LEMMA EvWritten ==
    ASSUME NEW K, NEW s \in Seq(EvFrames), NEW f \in EvFrames, NEW i
    PROVE  /\ Append(s, f) \in Seq(EvFrames)
           /\ i \in EvLegsIn(K, s) => i \in EvLegsIn(K, Append(s, f))
           /\ f.kind \in K => f.leg \in EvLegsIn(K, Append(s, f))
  <1>1. /\ Append(s, f) \in Seq(EvFrames) /\ Len(Append(s, f)) = Len(s) + 1 /\ Len(s) \in Nat
        /\ Append(s, f)[Len(s) + 1] = f /\ \A k \in 1 .. Len(s) : Append(s, f)[k] = s[k]
    OBVIOUS
  <1>2. ASSUME i \in EvLegsIn(K, s) PROVE i \in EvLegsIn(K, Append(s, f))
    <2>1. PICK k \in 1 .. Len(s) : s[k].kind \in K /\ s[k].leg = i
      BY <1>2, EvLegsInWire
    <2>2. k \in 1 .. Len(Append(s, f)) /\ Append(s, f)[k] = s[k]
      BY <1>1
    <2> QED
      BY <2>1, <2>2, EvLegsInWire
  <1>3. ASSUME f.kind \in K PROVE f.leg \in EvLegsIn(K, Append(s, f))
    <2>1. Len(s) + 1 \in 1 .. Len(Append(s, f))
      BY <1>1
    <2> QED
      BY <1>1, <1>3, <2>1, EvLegsInWire
  <1> QED
    BY <1>1, <1>2, <1>3

LEMMA EvReadOff ==
    ASSUME NEW K, NEW s \in Seq(EvFrames), s # <<>>, NEW i, i \in EvLegsIn(K, s)
    PROVE  i \in EvLegsIn(K, Tail(s)) \/ (Head(s).kind \in K /\ Head(s).leg = i)
  <1>1. PICK k \in 1 .. Len(s) : s[k].kind \in K /\ s[k].leg = i
    BY EvLegsInWire
  <1>2. /\ Tail(s) \in Seq(EvFrames) /\ Len(Tail(s)) = Len(s) - 1 /\ Len(s) \in Nat /\ Len(s) > 0
        /\ \A j \in 1 .. Len(s) - 1 : Tail(s)[j] = s[j + 1]
    OBVIOUS
  <1>3. CASE k = 1
    BY <1>1, <1>3
  <1>4. CASE k # 1
    <2>1. k - 1 \in 1 .. Len(Tail(s)) /\ Tail(s)[k - 1] = s[k]
      BY <1>1, <1>2, <1>4
    <2> QED
      BY <1>1, <2>1, EvLegsInWire
  <1> QED
    BY <1>3, <1>4

\* Ending a leg untracks it and no other.
LEMMA EvLegEnds ==
    ASSUME NEW L \in EvRegistries, NEW i
    PROVE  EvEndLeg(L, i) \in EvRegistries /\ EvEndLeg(L, i).tracked = L.tracked \ {i}
  <1>1. CASE i \notin L.tracked
    BY <1>1 DEF EvEndLeg, EvRegistries
  <1>2. CASE i \in L.tracked
    BY <1>2 DEF EvEndLeg, EvRegistries
  <1> QED
    BY <1>1, <1>2

\* Emitting an event for a leg.
LEMMA EvEmits ==
    ASSUME evSent \in [EvLegs -> Seq(EvEvents)], NEW i \in EvLegs, NEW e \in EvEvents
    PROVE  /\ EvEmit(i, e) \in [EvLegs -> Seq(EvEvents)]
           /\ Len(evSent[i]) \in Nat /\ Len(EvEmit(i, e)[i]) = Len(evSent[i]) + 1
           /\ EvEmit(i, e)[i][Len(evSent[i]) + 1] = e
           /\ \A j \in 1 .. Len(evSent[i]) : EvEmit(i, e)[i][j] = evSent[i][j]
           /\ \A k \in EvLegs \ {i} : EvEmit(i, e)[k] = evSent[k]
  BY DEF EvEmit

\* An event of a leg that is tracked, or of a transfer, comes after no end.
LEMMA EvEmitFinal ==
    ASSUME EvInv, NEW i \in EvLegs, NEW e \in EvEvents, e = "transfer" \/ i \in evLegs.tracked,
           evSent' = EvEmit(i, e)
    PROVE  EvEndIsFinal'
  <1>1. evSent \in [EvLegs -> Seq(EvEvents)]
    BY DEF EvInv, EvTyped
  <1>2. /\ Len(evSent[i]) \in Nat /\ Len(evSent'[i]) = Len(evSent[i]) + 1
        /\ evSent'[i][Len(evSent[i]) + 1] = e
        /\ \A j \in 1 .. Len(evSent[i]) : evSent'[i][j] = evSent[i][j]
        /\ \A k \in EvLegs \ {i} : evSent'[k] = evSent[k]
    BY <1>1, EvEmits
  <1> SUFFICES ASSUME NEW h \in EvLegs, NEW j \in 1 .. Len(evSent'[h]), NEW k \in 1 .. Len(evSent'[h]),
                      j < k, evSent'[h][j] \in EvTerminal
               PROVE  evSent'[h][k] = "transfer"
    BY DEF EvEndIsFinal
  <1>3. CASE h # i
    BY <1>2, <1>3 DEF EvInv, EvEndIsFinal
  <1>4. CASE h = i
    <2>1. j \in 1 .. Len(evSent[i]) /\ evSent[i][j] \in EvTerminal
      BY <1>2, <1>4
    <2>2. CASE k \in 1 .. Len(evSent[i])
      BY <1>2, <1>4, <2>1, <2>2 DEF EvInv, EvEndIsFinal
    <2>3. CASE k \notin 1 .. Len(evSent[i])
      <3>1. k = Len(evSent[i]) + 1
        BY <1>2, <1>4, <2>3
      <3>2. i \notin evLegs.tracked
        BY <2>1 DEF EvInv, EvClosed
      <3> QED
        BY <1>2, <1>4, <3>1, <3>2
    <2> QED
      BY <2>2, <2>3
  <1> QED
    BY <1>3, <1>4

\* What a step has to do with legs, calls and events to keep the invariant.
LEMMA EvKept ==
    ASSUME EvInv, EvTyped', EvEndIsFinal',
           \A r \in EvRequests : evReq'[r].at = "idle" => evReq[r].at = "idle",
           \A r \in EvRequests : r.op = "place" /\ evReq'[r].at = "wait" => evReq[r].at \in {"idle", "wait"},
           \A i \in EvLegs : evCall'[i] # evCall[i] =>
                \A r \in EvRequests : r.op = "place" /\ r.leg = i => evReq'[r].at \notin {"idle", "wait"},
           evLegs'.tracked \subseteq evLegs.tracked,
           \A i \in EvLegs : evSent'[i] = evSent[i] \/ \E e \in EvEvents :
                                evSent' = EvEmit(i, e) /\ (e \in EvTerminal => i \in evLegs.tracked \ evLegs'.tracked),
           \A i \in evLegs'.tracked :
                \/ EvOver(i)' => EvOver(i)
                \/ EvOverSoon(i)' \/ i \in evMissed',
           \A i \in evLegs'.tracked : EvOverSoon(i) => EvOverSoon(i)' \/ i \in evMissed',
           evMissed \subseteq evMissed'
    PROVE  EvInv'
  <1>t. EvTyped /\ EvUnplaced /\ EvClosed /\ EvHears
    BY DEF EvInv
  <1>l. \A q \in EvRequests : q.leg \in EvLegs
    BY DEF EvLegs
  <1>1. EvUnplaced'
    <2> SUFFICES ASSUME NEW r \in EvRequests, r.op = "place"
                 PROVE  /\ evReq'[r].at \in {"idle", "wait"} => evCall'[r.leg] = EvNoCall
                        /\ evReq'[r].at = "idle" => r.leg \notin evLegs'.tracked
      BY DEF EvUnplaced
    <2>1. ASSUME evReq'[r].at \in {"idle", "wait"} PROVE evCall'[r.leg] = EvNoCall
      <3>1. evReq[r].at \in {"idle", "wait"}
        BY <2>1
      <3>2. evCall[r.leg] = EvNoCall
        BY <1>t, <3>1 DEF EvUnplaced
      <3> QED
        BY <1>l, <2>1, <3>2
    <2>2. ASSUME evReq'[r].at = "idle" PROVE r.leg \notin evLegs'.tracked
      BY <1>t, <2>2 DEF EvUnplaced
    <2> QED
      BY <2>1, <2>2
  <1>2. EvClosed'
    <2> SUFFICES ASSUME NEW i \in EvLegs, NEW j \in 1 .. Len(evSent'[i]), evSent'[i][j] \in EvTerminal
                 PROVE  /\ i \notin evLegs'.tracked
                        /\ \A r \in EvRequests : r.op = "place" /\ r.leg = i => evReq'[r].at # "idle"
      BY DEF EvClosed
    <2>1. CASE j \in 1 .. Len(evSent[i]) /\ evSent[i][j] \in EvTerminal
      BY <1>t, <2>1 DEF EvClosed
    <2>2. CASE ~(j \in 1 .. Len(evSent[i]) /\ evSent[i][j] \in EvTerminal)
      <3>1. PICK e \in EvEvents : evSent' = EvEmit(i, e) /\ (e \in EvTerminal => i \in evLegs.tracked \ evLegs'.tracked)
        <4>1. evSent'[i] # evSent[i]
          BY <2>2
        <4> QED
          BY <4>1
      <3>2. evSent \in [EvLegs -> Seq(EvEvents)]
        BY <1>t DEF EvTyped
      <3>3. /\ Len(evSent[i]) \in Nat /\ Len(evSent'[i]) = Len(evSent[i]) + 1
            /\ evSent'[i][Len(evSent[i]) + 1] = e
            /\ \A k \in 1 .. Len(evSent[i]) : evSent'[i][k] = evSent[i][k]
        <4>1. /\ Len(evSent[i]) \in Nat /\ Len(EvEmit(i, e)[i]) = Len(evSent[i]) + 1
              /\ EvEmit(i, e)[i][Len(evSent[i]) + 1] = e
              /\ \A k \in 1 .. Len(evSent[i]) : EvEmit(i, e)[i][k] = evSent[i][k]
          BY ONLY evSent \in [EvLegs -> Seq(EvEvents)], i \in EvLegs, e \in EvEvents, <3>2, EvEmits
        <4> QED
          BY <3>1, <4>1
      <3>4. j = Len(evSent[i]) + 1
        BY <2>2, <3>3
      <3>5. i \in evLegs.tracked /\ i \notin evLegs'.tracked
        BY <3>1, <3>3, <3>4
      <3> QED
        BY <1>t, <3>5 DEF EvUnplaced
    <2> QED
      BY <2>1, <2>2
  <1>3. EvHears'
    <2> SUFFICES ASSUME NEW i \in evLegs'.tracked, EvOver(i)'
                 PROVE  EvOverSoon(i)' \/ i \in evMissed'
      BY DEF EvHears
    <2>1. CASE EvOver(i)
      BY <1>t, <2>1 DEF EvHears
    <2>2. CASE ~EvOver(i)
      BY <2>2
    <2> QED
      BY <2>1, <2>2
  <1> QED
    BY <1>1, <1>2, <1>3 DEF EvInv

LEMMA EvMoves ==
    ASSUME NEW f \in [EvRequests -> EvReqs], NEW r \in EvRequests, NEW t \in EvReqs
    PROVE  /\ [f EXCEPT ![r] = t] \in [EvRequests -> EvReqs] /\ [f EXCEPT ![r] = t][r] = t
           /\ \A q \in EvRequests \ {r} : [f EXCEPT ![r] = t][q] = f[q]
  OBVIOUS

LEMMA EvPlaceKeeps == ASSUME EvInv, NEW r \in EvRequests, EvPlaceCall(r) PROVE EvInv'
  <1>t. EvTyped /\ EvUnplaced /\ EvClosed /\ EvHears /\ EvEndIsFinal
    BY DEF EvInv
  <1>e. evReq \in [EvRequests -> EvReqs] /\ evReq[r] \in EvReqs /\ evLegs \in EvRegistries /\ r.leg \in EvLegs
    BY <1>t DEF EvTyped, EvLegs
  <1>1. r.op = "place" /\ evReq[r].at = "idle" /\ UNCHANGED <<evWire, evCall, evDrops, evSent, evMissed>>
        /\ evLegs' = [evLegs EXCEPT !.tracked = @ \cup {r.leg}] /\ evReq' = [evReq EXCEPT ![r].at = "wait"]
    BY DEF EvPlaceCall
  <1> DEFINE t == [evReq[r] EXCEPT !.at = "wait"]
  <1>2. t \in EvReqs /\ t.at = "wait"
    BY <1>e DEF EvReqs
  <1>3. evReq' = [evReq EXCEPT ![r] = t]
    BY <1>1
  <1> HIDE DEF t
  <1>4. /\ evReq' \in [EvRequests -> EvReqs] /\ evReq'[r] = t
        /\ \A q \in EvRequests \ {r} : evReq'[q] = evReq[q]
    BY <1>e, <1>2, <1>3, EvMoves
  <1>5. evLegs' \in EvRegistries /\ evLegs'.tracked = evLegs.tracked \cup {r.leg}
    BY <1>e, <1>1 DEF EvRegistries
  <1>6. EvTyped'
    BY <1>t, <1>1, <1>4, <1>5 DEF EvTyped
  <1>7. \A q \in EvRequests : q.op = "place" /\ q # r => q.leg # r.leg
    BY <1>1, EslVoiceAssumption
  <1>8. EvUnplaced'
    BY <1>t, <1>1, <1>2, <1>4, <1>5, <1>7 DEF EvUnplaced
  <1>9. EvClosed'
    <2>1. \A i \in EvLegs : \A j \in 1 .. Len(evSent[i]) : evSent[i][j] \in EvTerminal => i # r.leg
      BY <1>t, <1>1 DEF EvClosed
    <2> QED
      BY <1>t, <1>1, <1>2, <1>4, <1>5, <2>1 DEF EvClosed
  <1>10. EvHears'
    <2>1. evCall[r.leg] = EvNoCall
      BY <1>t, <1>1 DEF EvUnplaced
    <2>2. ~EvOver(r.leg)
      BY <2>1 DEF EvOver, EvNoCall
    <2> QED
      BY <1>t, <1>1, <1>5, <2>2 DEF EvHears, EvOverSoon, EvOver
  <1>11. EvEndIsFinal'
    BY <1>t, <1>1 DEF EvEndIsFinal
  <1> QED
    BY <1>6, <1>8, <1>9, <1>10, <1>11 DEF EvInv

\* A request that is under way changes its record, and untracks at most.
LEMMA EvOwnStep ==
    ASSUME EvInv, NEW r \in EvRequests, NEW t \in EvReqs, evReq' = [evReq EXCEPT ![r] = t],
           t.at \notin {"idle"}, r.op = "place" => t.at # "wait",
           evLegs' \in EvRegistries, evLegs'.tracked \subseteq evLegs.tracked,
           UNCHANGED <<evWire, evCall, evMissed>>,
           evSent' = evSent \/ evSent' = EvEmit(r.leg, "transfer")
    PROVE  EvInv'
  <1>t. EvTyped /\ evReq \in [EvRequests -> EvReqs] /\ r.leg \in EvLegs /\ evSent \in [EvLegs -> Seq(EvEvents)]
    BY DEF EvInv, EvTyped, EvLegs
  <1>1. /\ evReq' \in [EvRequests -> EvReqs] /\ evReq'[r] = t
        /\ \A q \in EvRequests \ {r} : evReq'[q] = evReq[q]
    BY <1>t, EvMoves
  <1>2. "transfer" \in EvEvents /\ "transfer" \notin EvTerminal
    BY DEF EvEvents, EvTerminal
  <1>3. evSent' \in [EvLegs -> Seq(EvEvents)] /\ EvEndIsFinal'
    <2>1. CASE evSent' = evSent
      BY <1>t, <2>1 DEF EvInv, EvEndIsFinal
    <2>2. CASE evSent' = EvEmit(r.leg, "transfer")
      <3>1. evSent' \in [EvLegs -> Seq(EvEvents)]
        BY <1>t, <1>2, <2>2, EvEmits
      <3>2. EvEndIsFinal'
        BY <1>t, <1>2, <2>2, EvEmitFinal
      <3> QED
        BY <3>1, <3>2
    <2> QED
      BY <2>1, <2>2
  <1>4. EvTyped'
    BY <1>t, <1>1, <1>3 DEF EvTyped
  <1>5. \A i \in EvLegs : EvOverSoon(i)' = EvOverSoon(i) /\ EvOver(i)' = EvOver(i)
    BY DEF EvOverSoon, EvOver
  <1>6. \A i \in EvLegs : evSent'[i] = evSent[i] \/ evSent' = EvEmit(i, "transfer")
    <2>1. CASE evSent' = evSent
      BY <2>1
    <2>2. CASE evSent' = EvEmit(r.leg, "transfer")
      <3>1. PICK g \in EvLegs : g = r.leg
        BY <1>t
      <3>2. \A k \in EvLegs \ {g} : EvEmit(g, "transfer")[k] = evSent[k]
        BY ONLY <1>t, <1>2, g \in EvLegs, EvEmits
      <3> QED
        BY <2>2, <3>1, <3>2
    <2> QED
      BY <2>1, <2>2
  <1>7. \A i \in EvLegs : evSent'[i] = evSent[i] \/ \E e \in EvEvents :
                                evSent' = EvEmit(i, e) /\ (e \in EvTerminal => i \in evLegs.tracked \ evLegs'.tracked)
    BY <1>2, <1>6
  <1>8. evLegs'.tracked \subseteq EvLegs
    BY DEF EvRegistries
  <1>9. /\ \A q \in EvRequests : evReq'[q].at = "idle" => evReq[q].at = "idle"
        /\ \A q \in EvRequests : q.op = "place" /\ evReq'[q].at = "wait" => evReq[q].at \in {"idle", "wait"}
    BY <1>1
  <1> QED
    BY <1>3, <1>4, <1>5, <1>7, <1>8, <1>9, EvKept

LEMMA EvRequestKeeps ==
    ASSUME EvInv, NEW r \in EvRequests,
           EvCommand(r) \/ EvFails(r) \/ EvPlaced(r) \/ EvReplied(r) \/ EvTransferRings(r)
    PROVE  EvInv'
  <1>t. evReq[r] \in EvReqs /\ evLegs \in EvRegistries /\ r.leg \in EvLegs
    BY DEF EvInv, EvTyped, EvLegs
  <1>m. EvEndLeg(evLegs, r.leg) \in EvRegistries /\ EvEndLeg(evLegs, r.leg).tracked \subseteq evLegs.tracked
    BY <1>t, EvLegEnds
  <1>1. CASE EvCommand(r)
    <2> DEFINE t == [evReq[r] EXCEPT !.at = "wait"]
    <2>1. t \in EvReqs /\ t.at = "wait"
      BY <1>t DEF EvReqs
    <2>2. evReq' = [evReq EXCEPT ![r] = t] /\ UNCHANGED <<evLegs, evWire, evCall, evSent, evMissed>> /\ r.op # "place"
      BY <1>1 DEF EvCommand
    <2> HIDE DEF t
    <2> QED
      BY <1>t, <2>1, <2>2, EvOwnStep
  <1>2. CASE EvFails(r)
    <2> DEFINE t == [evReq[r] EXCEPT !.at = "done", !.result = "error"]
    <2>1. t \in EvReqs /\ t.at = "done"
      BY <1>t DEF EvReqs
    <2>2. evReq' = [evReq EXCEPT ![r] = t] /\ UNCHANGED <<evWire, evCall, evSent, evMissed>>
          /\ evLegs' \in {EvEndLeg(evLegs, r.leg), evLegs}
      BY <1>2 DEF EvFails
    <2> HIDE DEF t
    <2> QED
      BY <1>t, <1>m, <2>1, <2>2, EvOwnStep
  <1>3. CASE EvPlaced(r)
    <2> DEFINE t == [evReq[r] EXCEPT !.at = "done"]
    <2>1. t \in EvReqs /\ t.at = "done"
      BY <1>t DEF EvReqs
    <2>2. evReq' = [evReq EXCEPT ![r] = t] /\ UNCHANGED <<evWire, evCall, evSent, evMissed>>
      BY <1>3 DEF EvPlaced
    <2>3. evLegs' \in EvRegistries /\ evLegs'.tracked \subseteq evLegs.tracked
      <3>1. CASE evReq[r].result # "ok"
        BY <1>3, <1>m, <3>1 DEF EvPlaced
      <3>2. CASE evReq[r].result = "ok"
        <4>1. PICK K \in SUBSET EvLegs : K = IF r.leg \in evLegs.tracked THEN evLegs.known \cup {r.leg} ELSE evLegs.known
          BY <1>t DEF EvRegistries
        <4>2. evLegs' = [evLegs EXCEPT !.jobs = @ \cup {r.leg}, !.known = K]
          BY <1>3, <3>2, <4>1 DEF EvPlaced
        <4> QED
          BY <1>t, <4>1, <4>2 DEF EvRegistries
      <3> QED
        BY <3>1, <3>2
    <2> HIDE DEF t
    <2> QED
      BY <1>t, <2>1, <2>2, <2>3, EvOwnStep
  <1>4. CASE EvReplied(r)
    <2>1. PICK a \in {"emit", "done"} : evReq' = [evReq EXCEPT ![r].at = a]
      BY <1>4 DEF EvReplied
    <2> DEFINE t == [evReq[r] EXCEPT !.at = a]
    <2>2. t \in EvReqs /\ t.at = a
      BY <1>t DEF EvReqs
    <2>3. evReq' = [evReq EXCEPT ![r] = t] /\ UNCHANGED <<evWire, evCall, evSent, evMissed>>
          /\ evLegs' \in {EvEndLeg(evLegs, r.leg), evLegs}
      BY <1>4, <2>1 DEF EvReplied
    <2> HIDE DEF t
    <2> QED
      BY <1>t, <1>m, <2>2, <2>3, EvOwnStep
  <1>5. CASE EvTransferRings(r)
    <2> DEFINE t == [evReq[r] EXCEPT !.at = "done"]
    <2>1. t \in EvReqs /\ t.at = "done"
      BY <1>t DEF EvReqs
    <2>2. evReq' = [evReq EXCEPT ![r] = t] /\ UNCHANGED <<evLegs, evWire, evCall, evMissed>>
          /\ evSent' = EvEmit(r.leg, "transfer")
      BY <1>5 DEF EvTransferRings
    <2> HIDE DEF t
    <2> QED
      BY <1>t, <2>1, <2>2, EvOwnStep
  <1> QED
    BY <1>1, <1>2, <1>3, <1>4, <1>5

\* demux reads a frame: what it emits for a tracked leg, and what it untracks.
LEMMA EvReadStep ==
    ASSUME EvInv, evWire # <<>>, evWire' = Tail(evWire), UNCHANGED <<evReq, evCall>>,
           evLegs' \in EvRegistries, evLegs'.tracked \subseteq evLegs.tracked,
           evMissed \subseteq evMissed', evMissed' \subseteq EvLegs,
           NEW e \in EvEvents,
           evSent' = evSent \/ (evSent' = EvEmit(EvLeg, e) /\ EvLeg \in evLegs.tracked
                                /\ (e \in EvTerminal => EvLeg \notin evLegs'.tracked)),
           EvFrame.kind \in {"hangup", "job_err"} => EvLeg \notin evLegs'.tracked \/ EvLeg \in evMissed'
    PROVE  EvInv'
  <1>t. EvTyped /\ evWire \in Seq(EvFrames) /\ evSent \in [EvLegs -> Seq(EvEvents)] /\ evLegs \in EvRegistries
    BY DEF EvInv, EvTyped
  <1>1. Tail(evWire) \in Seq(EvFrames) /\ Head(evWire) \in EvFrames
    BY <1>t
  <1>2. PICK i \in EvLegs : i = EvLeg
    BY <1>1 DEF EvFrames, EvLeg, EvFrame
  <1>3. evSent' \in [EvLegs -> Seq(EvEvents)] /\ EvEndIsFinal'
    <2>1. CASE evSent' = evSent
      BY <1>t, <2>1 DEF EvInv, EvEndIsFinal
    <2>2. CASE evSent' = EvEmit(i, e) /\ i \in evLegs.tracked
      <3>1. evSent' \in [EvLegs -> Seq(EvEvents)]
        BY <1>t, <1>2, <2>2, EvEmits
      <3>2. EvEndIsFinal'
        BY <1>t, <1>2, <2>2, EvEmitFinal
      <3> QED
        BY <3>1, <3>2
    <2> QED
      BY <1>2, <2>1, <2>2
  <1>4. EvTyped'
    BY <1>t, <1>1, <1>3 DEF EvTyped
  <1>5. \A h \in EvLegs : evSent'[h] = evSent[h] \/ \E x \in EvEvents :
                                evSent' = EvEmit(h, x) /\ (x \in EvTerminal => h \in evLegs.tracked \ evLegs'.tracked)
    <2>1. CASE evSent' = evSent
      BY <2>1
    <2>2. CASE evSent' = EvEmit(i, e) /\ i \in evLegs.tracked /\ (e \in EvTerminal => i \notin evLegs'.tracked)
      <3>1. \A h \in EvLegs \ {i} : evSent'[h] = evSent[h]
        BY <1>t, <1>2, <2>2, EvEmits
      <3> QED
        BY <2>2, <3>1
    <2> QED
      BY <1>2, <2>1, <2>2
  <1>6. \A h \in evLegs'.tracked : EvOverSoon(h) => EvOverSoon(h)' \/ h \in evMissed'
    <2> SUFFICES ASSUME NEW h \in evLegs'.tracked, EvOverSoon(h), h \notin evMissed' PROVE EvOverSoon(h)'
      OBVIOUS
    <2>1. h \in EvLegsIn({"hangup", "job_err"}, Tail(evWire))
          \/ (Head(evWire).kind \in {"hangup", "job_err"} /\ Head(evWire).leg = h)
      BY <1>t, EvReadOff DEF EvOverSoon
    <2>2. ~(Head(evWire).kind \in {"hangup", "job_err"} /\ Head(evWire).leg = h)
      BY DEF EvLeg, EvFrame
    <2> QED
      BY <2>1, <2>2 DEF EvOverSoon
  <1>7. /\ \A q \in EvRequests : evReq'[q].at = "idle" => evReq[q].at = "idle"
        /\ \A q \in EvRequests : q.op = "place" /\ evReq'[q].at = "wait" => evReq[q].at \in {"idle", "wait"}
    OBVIOUS
  <1> QED
    BY <1>3, <1>4, <1>5, <1>6, <1>7, EvKept DEF EvOver

LEMMA EvDemuxKeeps ==
    ASSUME EvInv, EvJobSucceeded \/ EvJobFailed \/ EvAnswer \/ EvHangup
    PROVE  EvInv'
  <1>t. EvTyped /\ evWire \in Seq(EvFrames) /\ evLegs \in EvRegistries /\ evMissed \subseteq EvLegs
    BY DEF EvInv, EvTyped
  <1>r. evWire # <<>> /\ evWire' = Tail(evWire) /\ UNCHANGED <<evReq, evCall>>
    BY DEF EvJobSucceeded, EvJobFailed, EvAnswer, EvHangup, EvReads
  <1>l. Head(evWire) \in EvFrames /\ EvLeg \in EvLegs
    BY <1>t, <1>r DEF EvFrames, EvLeg, EvFrame
  <1>v. {"ringing", "connected", "failed", "ended"} \subseteq EvEvents
    BY DEF EvEvents
  <1>1. CASE EvJobSucceeded
    <2>1. EvFrame.kind = "job_ok" /\ evLegs' = [evLegs EXCEPT !.jobs = @ \ {EvLeg}] /\ evMissed' = evMissed
          /\ (evSent' = evSent \/ (evSent' = EvEmit(EvLeg, "ringing") /\ EvLeg \in evLegs.tracked))
      BY <1>1 DEF EvJobSucceeded, EvReads
    <2>2. evLegs' \in EvRegistries /\ evLegs'.tracked = evLegs.tracked
      BY <1>t, <2>1 DEF EvRegistries
    <2> QED
      BY <1>t, <1>r, <1>v, <2>1, <2>2, EvReadStep DEF EvTerminal
  <1>2. CASE EvAnswer
    <2>1. EvFrame.kind = "answer" /\ evLegs' = evLegs /\ evMissed' = evMissed
          /\ (evSent' = evSent \/ (evSent' = EvEmit(EvLeg, "connected") /\ EvLeg \in evLegs.tracked))
      BY <1>2 DEF EvAnswer, EvReads
    <2> QED
      BY <1>t, <1>r, <1>v, <2>1, EvReadStep DEF EvTerminal
  <1>3. CASE EvHangup
    <2>1. evLegs' = EvEndLeg(evLegs, EvLeg) /\ evMissed' = evMissed
          /\ (evSent' = evSent \/ (evSent' = EvEmit(EvLeg, "ended") /\ EvLeg \in evLegs.tracked))
      BY <1>3 DEF EvHangup
    <2>2. evLegs' \in EvRegistries /\ evLegs'.tracked = evLegs.tracked \ {EvLeg}
      BY <1>t, <2>1, EvLegEnds
    <2> QED
      BY <1>t, <1>r, <1>v, <2>1, <2>2, EvReadStep
  <1>4. CASE EvJobFailed
    <2>1. CASE EvLeg \in evLegs.jobs
      <3> DEFINE L == [evLegs EXCEPT !.jobs = @ \ {EvLeg}]
      <3>1. L \in EvRegistries /\ L.tracked = evLegs.tracked
        BY <1>t DEF EvRegistries
      <3>2. evLegs' = EvEndLeg(L, EvLeg) /\ evMissed' = evMissed
            /\ (evSent' = evSent \/ (evSent' = EvEmit(EvLeg, "failed") /\ EvLeg \in evLegs.tracked))
        BY <1>4, <2>1 DEF EvJobFailed
      <3> HIDE DEF L
      <3>3. evLegs' \in EvRegistries /\ evLegs'.tracked = evLegs.tracked \ {EvLeg}
        BY <3>1, <3>2, EvLegEnds
      <3> QED
        BY <1>t, <1>r, <1>v, <3>2, <3>3, EvReadStep
    <2>2. CASE EvLeg \notin evLegs.jobs
      <3>1. evLegs' = evLegs /\ evMissed' = evMissed \cup {EvLeg} /\ evSent' = evSent
        BY <1>4, <2>2 DEF EvJobFailed
      <3> QED
        BY <1>t, <1>r, <1>l, <1>v, <3>1, EvReadStep
    <2> QED
      BY <2>1, <2>2
  <1> QED
    BY <1>1, <1>2, <1>3, <1>4

LEMMA EvReplyKeeps == ASSUME EvInv, EvReadReply PROVE EvInv'
  <1>t. EvTyped /\ evWire \in Seq(EvFrames) /\ evReq \in [EvRequests -> EvReqs]
    BY DEF EvInv, EvTyped
  <1>r. evWire # <<>> /\ evWire' = Tail(evWire) /\ Head(evWire).kind = "reply"
        /\ UNCHANGED <<evLegs, evCall, evSent, evMissed>>
    BY DEF EvReadReply, EvReads, EvFrame
  <1>1. Head(evWire) \in EvFrames /\ Tail(evWire) \in Seq(EvFrames)
    BY <1>t, <1>r
  <1>2. Head(evWire).req \in EvRequests /\ Head(evWire).result \in {"ok", "err", "nochannel"}
    BY <1>1, <1>r DEF EvFrames
  <1>3. PICK q \in EvRequests, w \in {"ok", "err", "nochannel"} : q = Head(evWire).req /\ w = Head(evWire).result
    BY <1>2
  <1>4. evReq' \in [EvRequests -> EvReqs]
        /\ \A r \in EvRequests : evReq'[r] = evReq[r] \/ (evReq[r].at = "sent" /\ evReq'[r].at = "replied")
    <2>1. CASE evReq[q].at # "sent"
      BY <1>t, <1>3, <2>1 DEF EvReadReply, EvFrame
    <2>2. CASE evReq[q].at = "sent"
      <3> DEFINE t == [evReq[q] EXCEPT !.at = "replied", !.result = w]
      <3>1. t \in EvReqs /\ t.at = "replied"
        BY <1>t DEF EvReqs
      <3>2. evReq' = [evReq EXCEPT ![q] = t]
        BY <1>3, <2>2 DEF EvReadReply, EvFrame
      <3> HIDE DEF t
      <3> QED
        BY <1>t, <2>2, <3>1, <3>2, EvMoves
    <2> QED
      BY <2>1, <2>2
  <1>5. EvTyped'
    BY <1>t, <1>r, <1>1, <1>4 DEF EvTyped
  <1>6. EvEndIsFinal'
    BY <1>r DEF EvInv, EvEndIsFinal
  <1>7. \A h \in evLegs'.tracked : EvOverSoon(h) => EvOverSoon(h)' \/ h \in evMissed'
    <2> SUFFICES ASSUME NEW h \in evLegs'.tracked, EvOverSoon(h) PROVE EvOverSoon(h)'
      OBVIOUS
    <2>1. h \in EvLegsIn({"hangup", "job_err"}, Tail(evWire))
          \/ (Head(evWire).kind \in {"hangup", "job_err"} /\ Head(evWire).leg = h)
      BY <1>t, <1>r, EvReadOff DEF EvOverSoon
    <2> QED
      BY <1>r, <2>1 DEF EvOverSoon
  <1>8. /\ \A q1 \in EvRequests : evReq'[q1].at = "idle" => evReq[q1].at = "idle"
        /\ \A q1 \in EvRequests : q1.op = "place" /\ evReq'[q1].at = "wait" => evReq[q1].at \in {"idle", "wait"}
    BY <1>4
  <1> QED
    BY <1>r, <1>5, <1>6, <1>7, <1>8, EvKept DEF EvOver

LEMMA EvDropsKeeps == ASSUME EvInv, EvDrops PROVE EvInv'
  <1>t. EvTyped /\ evWire \in Seq(EvFrames) /\ evMissed \subseteq EvLegs /\ evLegs.tracked \subseteq EvLegs
    BY DEF EvInv, EvTyped, EvRegistries
  <1>r. evWire' = <<>> /\ UNCHANGED <<evReq, evLegs, evCall, evSent>>
        /\ evMissed' = evMissed \cup EvLegsIn({"job_err", "hangup"}, evWire)
    BY DEF EvDrops
  <1>1. EvLegsIn({"job_err", "hangup"}, evWire) \subseteq EvLegs
    <2> SUFFICES ASSUME NEW i \in EvLegsIn({"job_err", "hangup"}, evWire) PROVE i \in EvLegs
      OBVIOUS
    <2>1. PICK k \in 1 .. Len(evWire) : evWire[k].leg = i
      BY EvLegsInWire
    <2>2. evWire[k] \in EvFrames
      BY <1>t
    <2> QED
      BY <2>1, <2>2 DEF EvFrames
  <1>2. evMissed' \subseteq EvLegs
    BY <1>t, <1>r, <1>1
  <1>3. EvTyped'
    <2>1. <<>> \in Seq(EvFrames)
      OBVIOUS
    <2> QED
      BY <1>t, <1>r, <1>2, <2>1 DEF EvTyped
  <1>4. EvEndIsFinal'
    BY <1>r DEF EvInv, EvEndIsFinal
  <1>5. \A h \in evLegs'.tracked : EvOverSoon(h) => EvOverSoon(h)' \/ h \in evMissed'
    <2> SUFFICES ASSUME NEW h \in evLegs'.tracked, EvOverSoon(h) PROVE h \in evMissed'
      OBVIOUS
    <2>1. h \in EvLegsIn({"job_err", "hangup"}, evWire)
      BY EvLegsInWire DEF EvOverSoon
    <2> QED
      BY <1>r, <2>1
  <1> QED
    BY <1>r, <1>3, <1>4, <1>5, EvKept DEF EvOver

\* The switch writes a frame, and moves a call that its dial has reached.
LEMMA EvSwitchStep ==
    ASSUME EvInv, NEW f \in EvFrames, evWire' = Append(evWire, f),
           UNCHANGED <<evLegs, evSent, evMissed>>,
           evReq' \in [EvRequests -> EvReqs],
           \A r \in EvRequests : evReq'[r] = evReq[r] \/ evReq'[r].at = "sent",
           NEW i \in EvLegs, NEW c \in EvCalls, evCall' = [evCall EXCEPT ![i] = c],
           c # evCall[i] => /\ c.chan \in {"failed", "over"} => EvOver(i) \/ (f.kind \in {"hangup", "job_err"} /\ f.leg = i)
                            /\ \A r \in EvRequests : r.op = "place" /\ r.leg = i => evReq'[r].at \notin {"idle", "wait"}
    PROVE  EvInv'
  <1>t. EvTyped /\ evWire \in Seq(EvFrames) /\ evCall \in [EvLegs -> EvCalls] /\ evLegs.tracked \subseteq EvLegs
    BY DEF EvInv, EvTyped, EvRegistries
  <1>1. evWire' \in Seq(EvFrames)
    BY <1>t, EvWritten
  <1>2. evCall' \in [EvLegs -> EvCalls] /\ evCall'[i] = c /\ \A h \in EvLegs \ {i} : evCall'[h] = evCall[h]
    BY <1>t
  <1>3. EvTyped'
    BY <1>t, <1>1, <1>2 DEF EvTyped
  <1>4. EvEndIsFinal'
    BY DEF EvInv, EvEndIsFinal
  <1>5. \A h \in evLegs'.tracked : EvOverSoon(h) => EvOverSoon(h)' \/ h \in evMissed'
    BY <1>t, EvWritten DEF EvOverSoon
  <1>6. \A h \in evLegs'.tracked :
                \/ EvOver(h)' => EvOver(h)
                \/ EvOverSoon(h)' \/ h \in evMissed'
    <2> SUFFICES ASSUME NEW h \in evLegs'.tracked, EvOver(h)', ~EvOver(h)
                 PROVE  EvOverSoon(h)'
      OBVIOUS
    <2>1. h \in EvLegs
      BY <1>t
    <2>2. h = i /\ c # evCall[i] /\ c.chan \in {"failed", "over"}
      BY <1>2, <2>1 DEF EvOver
    <2>3. f.kind \in {"hangup", "job_err"} /\ f.leg = h
      BY <2>2
    <2>4. f.leg \in EvLegsIn({"hangup", "job_err"}, Append(evWire, f))
      BY <1>t, <2>3, EvWritten
    <2> QED
      BY <2>3, <2>4 DEF EvOverSoon
  <1>7. \A h \in EvLegs : evCall'[h] # evCall[h] =>
                \A r \in EvRequests : r.op = "place" /\ r.leg = h => evReq'[r].at \notin {"idle", "wait"}
    BY <1>2
  <1>8. /\ \A q1 \in EvRequests : evReq'[q1].at = "idle" => evReq[q1].at = "idle"
        /\ \A q1 \in EvRequests : q1.op = "place" /\ evReq'[q1].at = "wait" => evReq[q1].at \in {"idle", "wait"}
    OBVIOUS
  <1> QED
    BY <1>3, <1>4, <1>5, <1>6, <1>7, <1>8, EvKept

LEMMA EvHandlesKeeps ==
    ASSUME EvInv, NEW r \in EvRequests, NEW w \in {"ok", "err", "nochannel"}, EvSwitchHandles(r, w)
    PROVE  EvInv'
  <1>t. evReq \in [EvRequests -> EvReqs] /\ evReq[r] \in EvReqs /\ r.leg \in EvLegs /\ evCall \in [EvLegs -> EvCalls]
    BY DEF EvInv, EvTyped, EvLegs
  <1> DEFINE t == [evReq[r] EXCEPT !.at = "sent"]
             f == EvAnswers(r, w)
  <1>1. t \in EvReqs /\ t.at = "sent"
    BY <1>t DEF EvReqs
  <1>2. f \in EvFrames
    BY <1>t DEF EvFrames, EvAnswers
  <1>3. evReq' = [evReq EXCEPT ![r] = t] /\ evWire' = Append(evWire, f) /\ UNCHANGED <<evLegs, evSent, evMissed>>
    BY DEF EvSwitchHandles
  <1>4. PICK i \in EvLegs : i = r.leg
    BY <1>t
  <1>5. PICK c \in EvCalls : c = IF r.op = "place" /\ w = "ok" THEN [chan |-> "dialling", job |-> TRUE] ELSE evCall[i]
    BY <1>t DEF EvCalls
  <1>6. evCall' = [evCall EXCEPT ![i] = c]
    BY <1>4, <1>5 DEF EvSwitchHandles
  <1> HIDE DEF t, f
  <1>7. /\ evReq' \in [EvRequests -> EvReqs] /\ evReq'[r].at = "sent"
        /\ \A q \in EvRequests \ {r} : evReq'[q] = evReq[q]
    BY <1>t, <1>1, <1>3, EvMoves
  <1>8. c # evCall[i] => /\ c.chan \in {"failed", "over"} => EvOver(i) \/ (f.kind \in {"hangup", "job_err"} /\ f.leg = i)
                         /\ \A q \in EvRequests : q.op = "place" /\ q.leg = i => evReq'[q].at \notin {"idle", "wait"}
    <2> SUFFICES ASSUME c # evCall[i]
                 PROVE  /\ c.chan \notin {"failed", "over"}
                        /\ \A q \in EvRequests : q.op = "place" /\ q.leg = i => evReq'[q].at \notin {"idle", "wait"}
      OBVIOUS
    <2>1. r.op = "place" /\ c.chan = "dialling"
      BY <1>5
    <2>2. \A q \in EvRequests : q.op = "place" /\ q.leg = i => q = r
      BY <1>4, <2>1, EslVoiceAssumption
    <2> QED
      BY <1>7, <2>1, <2>2
  <1>9. \A q \in EvRequests : evReq'[q] = evReq[q] \/ evReq'[q].at = "sent"
    BY <1>7
  <1> QED
    BY <1>2, <1>3, <1>6, <1>7, <1>8, <1>9, EvSwitchStep

\* The switch tells of a leg that its dial has reached.
LEMMA EvTellsKeeps ==
    ASSUME EvInv, NEW i \in EvLegs, evCall[i] # EvNoCall, NEW chan, NEW job, [chan |-> chan, job |-> job] \in EvCalls,
           NEW e \in {"job_ok", "job_err", "answer", "hangup"}, EvSwitchTells(i, e, chan, job),
           chan \in {"failed", "over"} => EvOver(i) \/ e \in {"hangup", "job_err"}
    PROVE  EvInv'
  <1>t. evReq \in [EvRequests -> EvReqs] /\ evWire \in Seq(EvFrames) /\ EvUnplaced
    BY DEF EvInv, EvTyped
  <1> DEFINE f == EvSays(e, i)
  <1>c. PICK c \in EvCalls : c = [chan |-> chan, job |-> job] /\ c.chan = chan
    OBVIOUS
  <1>1. evCall' = [evCall EXCEPT ![i] = c] /\ UNCHANGED <<evReq, evLegs, evSent, evMissed>> /\ evWire' = Append(evWire, f)
    BY <1>c DEF EvSwitchTells
  <1>2. f \in EvFrames /\ f.kind = e /\ f.leg = i
    BY DEF EvFrames, EvSays
  <1> HIDE DEF f
  <1>5. \A q \in EvRequests : q.op = "place" /\ q.leg = i => evReq'[q].at \notin {"idle", "wait"}
    BY <1>t, <1>1 DEF EvUnplaced
  <1>6. evReq' \in [EvRequests -> EvReqs] /\ \A q \in EvRequests : evReq'[q] = evReq[q] \/ evReq'[q].at = "sent"
    BY <1>t, <1>1
  <1>7. c.chan \in {"failed", "over"} => EvOver(i) \/ (f.kind \in {"hangup", "job_err"} /\ f.leg = i)
    BY <1>c, <1>2
  <1>8. c # evCall[i] => /\ c.chan \in {"failed", "over"} => EvOver(i) \/ (f.kind \in {"hangup", "job_err"} /\ f.leg = i)
                         /\ \A q \in EvRequests : q.op = "place" /\ q.leg = i => evReq'[q].at \notin {"idle", "wait"}
    BY <1>5, <1>7
  <1>9. UNCHANGED <<evLegs, evSent, evMissed>>
    BY <1>1
  <1> QED
    BY <1>1, <1>2, <1>6, <1>8, <1>9, EvSwitchStep

LEMMA EvNextOK == ASSUME EvInv, [EvNext]_evVars PROVE EvInv'
  <1>1. CASE EvNext
    <2>1. ASSUME NEW r \in EvRequests,
                 \/ EvPlaceCall(r) \/ EvCommand(r) \/ EvFails(r) \/ EvPlaced(r) \/ EvReplied(r) \/ EvTransferRings(r)
                 \/ \E w \in {"ok", "err", "nochannel"} : EvSwitchHandles(r, w)
          PROVE  EvInv'
      BY <2>1, EvPlaceKeeps, EvRequestKeeps, EvHandlesKeeps
    <2>2. ASSUME NEW i \in EvLegs, EvSwitchFinishesJob(i) \/ EvSwitchAnswers(i) \/ EvSwitchHangsUp(i) PROVE EvInv'
      <3>c. evCall[i] \in EvCalls /\ evCall[i].chan \in {"none", "dialling", "up", "failed", "over"} /\ evCall[i].job \in BOOLEAN
        BY DEF EvInv, EvTyped, EvCalls
      <3>1. /\ [chan |-> evCall[i].chan, job |-> FALSE] \in EvCalls
            /\ \A c \in {"up", "failed", "over"}, j \in BOOLEAN : [chan |-> c, job |-> j] \in EvCalls
        BY <3>c DEF EvCalls
      <3>n. EvNoCall.chan = "none" /\ EvNoCall.job = FALSE
        BY DEF EvNoCall
      <3>2. evCall[i] # EvNoCall
        <4>1. CASE EvSwitchFinishesJob(i)
          BY <3>n, <4>1 DEF EvSwitchFinishesJob
        <4>2. CASE EvSwitchAnswers(i) \/ EvSwitchHangsUp(i)
          BY <3>n, <4>2 DEF EvSwitchAnswers, EvSwitchHangsUp, EvLive
        <4> QED
          BY <2>2, <4>1, <4>2
      <3>3. CASE EvSwitchTells(i, "job_ok", evCall[i].chan, FALSE)
        <4>1. PICK c : c = evCall[i].chan
          OBVIOUS
        <4>2. EvSwitchTells(i, "job_ok", c, FALSE) /\ [chan |-> c, job |-> FALSE] \in EvCalls
          BY <3>1, <3>3, <4>1
        <4>3. c \in {"failed", "over"} => EvOver(i)
          BY <4>1 DEF EvOver
        <4> QED
          BY <3>2, <4>2, <4>3, EvTellsKeeps
      <3>4. CASE EvSwitchTells(i, "job_err", IF EvOver(i) THEN "over" ELSE "failed", FALSE)
        <4>1. PICK c \in {"failed", "over"} : c = IF EvOver(i) THEN "over" ELSE "failed"
          OBVIOUS
        <4>2. EvSwitchTells(i, "job_err", c, FALSE)
          BY <3>4, <4>1
        <4> QED
          BY <3>1, <3>2, <4>2, EvTellsKeeps
      <3>5. CASE EvSwitchTells(i, "answer", "up", evCall[i].job)
        BY <3>c, <3>1, <3>2, <3>5, EvTellsKeeps
      <3>6. CASE EvSwitchTells(i, "hangup", "over", evCall[i].job)
        BY <3>c, <3>1, <3>2, <3>6, EvTellsKeeps
      <3> QED
        BY <2>2, <3>3, <3>4, <3>5, <3>6 DEF EvSwitchFinishesJob, EvSwitchAnswers, EvSwitchHangsUp
    <2> QED
      BY <1>1, <2>1, <2>2, EvReplyKeeps, EvDemuxKeeps, EvDropsKeeps DEF EvNext
  <1>2. CASE UNCHANGED evVars
    BY <1>2 DEF evVars, EvInv, EvTyped, EvUnplaced, EvClosed, EvHears, EvEndIsFinal, EvOverSoon, EvOver
  <1> QED
    BY <1>1, <1>2

\* A FreeSWITCH leg's end is final, and a leg whose call is over is retired or
\* its end is on the way, or was lost: for any number of calls and requests,
\* with the demux loop and PlaceCall interleaved in any way.
THEOREM EvLegLives == EvSpec => []EvLegLife
  <1>1. EvInit => EvInv
    BY EvInitOK
  <1>2. EvInv /\ [EvNext]_evVars => EvInv'
    BY EvNextOK
  <1>3. EvInv => EvLegLife
    BY EvInvSuffices
  <1> QED
    BY <1>1, <1>2, <1>3, PTL DEF EvSpec

(***************************************************************************)
(* The legs of the Asterisk adapter.                                       *)
(***************************************************************************)
AvKinds == {"newchannel", "ringing", "up", "hangup"}
AvReplies == {p \in [event : {"ok", "refused"}, chan : AvChannels \cup {AvNoChannel}, req : AvRequests] :
                p.chan # AvNoChannel => p.chan.leg = p.req.leg}
AvEvents == [event : AvKinds, chan : AvChannels, req : {AvNoRequest}]
AvPackets == AvReplies \cup AvEvents
AvHands == [event : AvKinds, chan : AvChannels, req : AvRequests \cup {AvNoRequest}] \cup {AvNothing}
AvLoops == [at : {"running", "ended"}, hand : AvHands]
AvReqRecs == [at : {"idle", "wait", "done"}, wire : BOOLEAN, reply : {"none", "ok", "refused"},
              result : {"none", "ok", "refused", "error"}]
AvLegRecs == [tracked : SUBSET AvLegs, channel : [AvLegs -> SUBSET AvChannels], uid : [AvLegs -> SUBSET AvChannels],
              staged : [AvLegs -> SUBSET AvRequests], byChan : SUBSET AvChannels, byUid : SUBSET AvChannels]
AvSents == [ended : [AvLegs -> Nat], late : SUBSET AvLegs, named : SUBSET AvRequests, renamed : SUBSET AvRequests]

AvTyped ==
    /\ avReq \in [AvRequests -> AvReqRecs]
    /\ avLegs \in AvLegRecs
    /\ avWire \in Seq(AvPackets)
    /\ avQueue \in Seq(AvEvents)
    /\ avLoop \in AvLoops
    /\ avChan \in [AvChannels -> {"none", "new", "ringing", "up", "down"}]
    /\ avDrops \in 0 .. AvMaxDrops
    /\ avSent \in AvSents

AvTells(p, c) == p.event \in AvKinds /\ p.chan = c

\* A hangup is the last event of its channel: on the wire, from the wire to the
\* queue, and from the queue to the hand of the delivery goroutine.
AvOrdered(q) == \A j, k \in 1 .. Len(q) : j < k /\ q[j].event = "hangup" => ~AvTells(q[k], q[j].chan)
AvOrder ==
    /\ AvOrdered(avWire) /\ AvOrdered(avQueue)
    /\ \A p \in AvElements(avQueue), x \in AvElements(avWire) : p.event = "hangup" => ~AvTells(x, p.chan)
    /\ \A x \in AvElements(avWire) \cup AvElements(avQueue) :
        avLoop.hand.event = "hangup" => ~AvTells(x, avLoop.hand.chan)

AvFlight == AvElements(avWire) \cup AvElements(avQueue) \cup {avLoop.hand}

\* What is told of a channel has happened to it.
AvTold ==
    \A p \in AvFlight :
        /\ p.event \in AvKinds => avChan[p.chan] # "none"
        /\ p.event = "hangup" => avChan[p.chan] = "down"

\* A leg that ended has a channel of which nothing more will be told.
AvSilent(c) == avChan[c] = "down" /\ \A p \in AvFlight : ~AvTells(p, c)
AvEnded == \A i \in AvLegs : avSent.ended[i] > 0 => \E c \in AvChannels : c.leg = i /\ AvSilent(c)

AvLateTwo == \A i \in avSent.late : \E c, d \in AvOriginated(i) : c # d

\* An Originate that is to run has a channel of its own.
AvFresh ==
    /\ \A c \in AvChannels : avChan[c] # "none" => c.run <= avDrops
    /\ \A r \in AvRequests : avReq[r].at = "idle" => ~avReq[r].wire
    /\ \A r \in AvRequests, c \in AvChannels :
        r.op = "place" /\ c.leg = r.leg /\ (avReq[r].at = "idle" \/ (avReq[r].wire /\ c.run = avDrops))
            => avChan[c] = "none"

\* A tracked leg's channel that is down: its Hangup is under way or lost, or
\* nothing bound the channel, or will: its Newchannel was lost or anonymous.
AvDown ==
    \A c \in AvChannels : avChan[c] = "down" /\ c.leg \in avLegs.tracked =>
        c \in AvNews("hangup", avLost \cup AvPending) \cup AvNews("newchannel", avLost)

\* A tracked leg's channel is indexed once its Newchannel was processed.
AvBound ==
    \A c \in AvChannels : avChan[c] # "none" /\ c.leg \in avLegs.tracked =>
        c \in avLegs.byChan \cup AvNews("newchannel", avLost \cup AvPending)

\* The channel of a leg is one of its own.
AvOwn == \A i \in AvLegs : \A c \in avLegs.channel[i] : c.leg = i

\* A transfer is staged, in the goroutine's hand, or named, one at a time.
AvNaming ==
    /\ \A i \in AvLegs : \A r \in avLegs.staged[i] :
        r.leg = i /\ avReq[r].at # "idle" /\ r \notin avSent.named /\ r # avLoop.hand.req
    /\ avLoop.hand.req # AvNoRequest => avReq[avLoop.hand.req].at # "idle" /\ avLoop.hand.req \notin avSent.named
    /\ \A r \in avSent.named : avReq[r].at # "idle"
    /\ avSent.renamed = {}

AvInv ==
    /\ AvTyped /\ AvOrder /\ AvTold /\ AvEnded /\ AvLateTwo /\ AvFresh
    /\ AvDown /\ AvBound /\ AvOwn /\ AvNaming

(* Sequences of packets. *)
LEMMA AvNonePending == AvElements(<<>>) = {} /\ AvOrdered(<<>>)
  BY DEF AvElements, AvOrdered

LEMMA AvPut ==
    ASSUME NEW S, NEW q \in Seq(S), NEW x \in S
    PROVE  /\ Append(q, x) \in Seq(S) /\ AvElements(Append(q, x)) = AvElements(q) \cup {x}
           /\ AvOrdered(q) /\ (\A y \in AvElements(q) : y.event = "hangup" => ~AvTells(x, y.chan))
                => AvOrdered(Append(q, x))
  <1>1. /\ Append(q, x) \in Seq(S) /\ Len(q) \in Nat /\ Len(Append(q, x)) = Len(q) + 1
        /\ \A k \in 1 .. Len(q) : Append(q, x)[k] = q[k]
        /\ Append(q, x)[Len(q) + 1] = x
    OBVIOUS
  <1>2. AvElements(Append(q, x)) = AvElements(q) \cup {x}
    <2>1. \A k \in 1 .. Len(Append(q, x)) : k \in 1 .. Len(q) \/ k = Len(q) + 1
      BY <1>1
    <2>2. Len(q) + 1 \in 1 .. Len(Append(q, x)) /\ \A k \in 1 .. Len(q) : k \in 1 .. Len(Append(q, x))
      BY <1>1
    <2> QED
      BY <1>1, <2>1, <2>2 DEF AvElements
  <1>3. ASSUME AvOrdered(q), \A y \in AvElements(q) : y.event = "hangup" => ~AvTells(x, y.chan)
        PROVE  AvOrdered(Append(q, x))
    <2> SUFFICES ASSUME NEW j \in 1 .. Len(Append(q, x)), NEW k \in 1 .. Len(Append(q, x)), j < k,
                        Append(q, x)[j].event = "hangup"
                 PROVE  ~AvTells(Append(q, x)[k], Append(q, x)[j].chan)
      BY DEF AvOrdered
    <2>1. j \in 1 .. Len(q) /\ (k \in 1 .. Len(q) \/ k = Len(q) + 1)
      BY <1>1
    <2>2. q[j] \in AvElements(q) /\ q[j] = Append(q, x)[j]
      BY <1>1, <2>1 DEF AvElements
    <2> QED
      BY <1>1, <1>3, <2>1, <2>2 DEF AvOrdered
  <1> QED
    BY <1>1, <1>2, <1>3

LEMMA AvTake ==
    ASSUME NEW S, NEW q \in Seq(S), q # <<>>
    PROVE  /\ Head(q) \in S /\ Tail(q) \in Seq(S) /\ AvElements(q) = AvElements(Tail(q)) \cup {Head(q)}
           /\ AvOrdered(q) => /\ AvOrdered(Tail(q))
                              /\ \A y \in AvElements(Tail(q)) : Head(q).event = "hangup" => ~AvTells(y, Head(q).chan)
  <1>1. /\ Head(q) = q[1] /\ Head(q) \in S /\ Tail(q) \in Seq(S) /\ Len(q) \in Nat \ {0} /\ Len(Tail(q)) = Len(q) - 1
        /\ \A k \in 1 .. Len(Tail(q)) : Tail(q)[k] = q[k + 1]
    OBVIOUS
  <1>2. \A k \in 1 .. Len(Tail(q)) : k + 1 \in 1 .. Len(q) /\ k + 1 > 1
    BY <1>1
  <1>3. \A k \in 1 .. Len(q) : k = 1 \/ (k - 1 \in 1 .. Len(Tail(q)) /\ Tail(q)[k - 1] = q[k])
    BY <1>1
  <1>4. 1 \in 1 .. Len(q)
    BY <1>1
  <1>5. AvElements(q) = AvElements(Tail(q)) \cup {Head(q)}
    <2>1. ASSUME NEW x \in AvElements(q) PROVE x \in AvElements(Tail(q)) \cup {Head(q)}
      <3>1. PICK k \in 1 .. Len(q) : x = q[k]
        BY <2>1 DEF AvElements
      <3> QED
        BY <1>1, <1>3, <3>1 DEF AvElements
    <2>2. ASSUME NEW x \in AvElements(Tail(q)) PROVE x \in AvElements(q)
      <3>1. PICK k \in 1 .. Len(Tail(q)) : x = Tail(q)[k]
        BY <2>2 DEF AvElements
      <3> QED
        BY <1>1, <1>2, <3>1 DEF AvElements
    <2>3. Head(q) \in AvElements(q)
      BY <1>1, <1>4 DEF AvElements
    <2> QED
      BY <2>1, <2>2, <2>3
  <1>6. ASSUME AvOrdered(q)
        PROVE  /\ AvOrdered(Tail(q))
               /\ \A y \in AvElements(Tail(q)) : Head(q).event = "hangup" => ~AvTells(y, Head(q).chan)
    <2>1. ASSUME NEW j \in 1 .. Len(Tail(q)), NEW k \in 1 .. Len(Tail(q)), j < k, Tail(q)[j].event = "hangup"
          PROVE  ~AvTells(Tail(q)[k], Tail(q)[j].chan)
      <3>1. j + 1 \in 1 .. Len(q) /\ k + 1 \in 1 .. Len(q) /\ j + 1 < k + 1
        BY <1>1, <2>1
      <3>2. Tail(q)[j] = q[j + 1] /\ Tail(q)[k] = q[k + 1]
        BY <1>1
      <3> QED
        BY <1>6, <2>1, <3>1, <3>2 DEF AvOrdered
    <2>2. ASSUME NEW y \in AvElements(Tail(q)), Head(q).event = "hangup" PROVE ~AvTells(y, Head(q).chan)
      <3>1. PICK k \in 1 .. Len(Tail(q)) : y = Tail(q)[k]
        BY <2>2 DEF AvElements
      <3> QED
        BY <1>1, <1>2, <1>4, <1>6, <2>2, <3>1 DEF AvOrdered
    <2> QED
      BY <2>1, <2>2 DEF AvOrdered
  <1> QED
    BY <1>1, <1>5, <1>6

LEMMA AvJoin ==
    ASSUME NEW S, NEW q \in Seq(S), NEW a \in S, NEW b \in S
    PROVE  q \o <<a>> = Append(q, a) /\ q \o <<a, b>> = Append(Append(q, a), b)
  OBVIOUS

LEMMA AvNames ==
    /\ AvNoRequest \notin AvRequests
    /\ \A r \in AvRequests : r.leg \in AvLegs /\ r.op # "none"
    /\ \A c \in AvChannels : c.leg \in AvLegs
    /\ AvNothing.event = "none" /\ AvNothing.req = AvNoRequest /\ "none" \notin AvKinds
  BY AmiVoiceAssumption DEF AvNoRequest, AvLegs, AvChannels, AvNothing, AvPacket, AvOps, AvKinds

(* The parts of the invariant, and what leaves each of them alone. *)
LEMMA AvFlightMoves ==
    ASSUME AvInv, AvTyped', avChan' = avChan, avSent'.ended = avSent.ended,
           \A p \in AvFlight' : p.event \in AvKinds => \E x \in AvFlight : x.event = p.event /\ x.chan = p.chan
    PROVE  AvTold' /\ AvEnded'
  <1>1. AvTold'
    BY DEF AvInv, AvTold, AvKinds
  <1>2. \A c \in AvChannels : AvSilent(c) => AvSilent(c)'
    BY DEF AvSilent, AvTells
  <1>3. AvEnded'
    BY <1>2 DEF AvInv, AvEnded
  <1> QED
    BY <1>1, <1>3

LEMMA AvFlightSame ==
    ASSUME AvInv, AvTyped', UNCHANGED <<avWire, avQueue, avLoop, avChan, avSent>>
    PROVE  AvOrder' /\ AvTold' /\ AvEnded' /\ AvLateTwo'
  <1>1. AvFlight' = AvFlight
    BY DEF AvFlight
  <1>2. AvOrder'
    BY DEF AvInv, AvOrder
  <1>3. AvLateTwo'
    BY DEF AvInv, AvLateTwo, AvOriginated
  <1> QED
    BY <1>1, <1>2, <1>3, AvFlightMoves

LEMMA AvLateSame ==
    ASSUME AvInv, avSent'.late = avSent.late, \A c \in AvChannels : avChan[c] # "none" => avChan'[c] # "none"
    PROVE  AvLateTwo'
  BY DEF AvInv, AvLateTwo, AvOriginated

LEMMA AvFreshSame ==
    ASSUME AvInv, UNCHANGED <<avChan, avDrops>>,
           \A r \in AvRequests : avReq'[r].at = "idle" => avReq[r].at = "idle" /\ avReq'[r].wire = avReq[r].wire,
           \A r \in AvRequests : avReq'[r].wire => avReq[r].wire \/ avReq[r].at = "idle"
    PROVE  AvFresh'
  <1>1. AvFresh
    BY DEF AvInv
  <1>2. \A r \in AvRequests : avReq'[r].at = "idle" => ~avReq'[r].wire
    BY <1>1 DEF AvFresh
  <1>3. ASSUME NEW r \in AvRequests, NEW c \in AvChannels, r.op = "place", c.leg = r.leg,
               avReq'[r].at = "idle" \/ (avReq'[r].wire /\ c.run = avDrops)
        PROVE  avChan[c] = "none"
    BY <1>1, <1>3 DEF AvFresh
  <1> QED
    BY <1>1, <1>2, <1>3 DEF AvFresh

\* What a step may do with tracked legs, their channels and what is told of them.
LEMMA AvDownSame ==
    ASSUME AvInv,
           \A c \in AvChannels : avChan'[c] = "down" =>
                avChan[c] = "down" \/ c \in AvNews("hangup", avLost \cup AvPending)',
           \A c \in AvChannels : avChan'[c] # "none" =>
                avChan[c] # "none" \/ c \in AvNews("newchannel", avLost \cup AvPending)',
           \A c \in AvChannels : avChan[c] # "none" /\ c.leg \in avLegs'.tracked =>
                /\ c.leg \in avLegs.tracked
                /\ c \in avLegs.byChan => c \in avLegs'.byChan
                /\ c \in AvNews("newchannel", avLost) => c \in AvNews("newchannel", avLost)'
                /\ c \in AvNews("newchannel", avLost \cup AvPending) =>
                        c \in avLegs'.byChan \/ c \in AvNews("newchannel", avLost \cup AvPending)'
                /\ c \in AvNews("hangup", avLost \cup AvPending) =>
                        c \in AvNews("hangup", avLost \cup AvPending)' \/ c \in AvNews("newchannel", avLost)'
    PROVE  AvDown' /\ AvBound'
  <1>1. AvDown'
    BY DEF AvInv, AvDown
  <1>2. AvBound'
    BY DEF AvInv, AvBound
  <1> QED
    BY <1>1, <1>2

\* Nothing is lost or told, and no channel changes.
LEMMA AvNewsSame ==
    ASSUME AvInv, UNCHANGED <<avChan, avLost>>,
           \A k \in {"newchannel", "hangup"}, c \in AvChannels : c \in AvNews(k, avLost \cup AvPending) <=>
                c \in AvNews(k, avLost \cup AvPending)',
           \A c \in AvChannels : avChan[c] # "none" /\ c.leg \in avLegs'.tracked =>
                c.leg \in avLegs.tracked /\ (c \in avLegs.byChan => c \in avLegs'.byChan)
    PROVE  AvDown' /\ AvBound'
  <1>1. AvNews("newchannel", avLost)' = AvNews("newchannel", avLost)
    BY DEF AvNews
  <1> QED
    BY <1>1, AvDownSame

\* Events are taken off or lost; a Newchannel is missed unless a reply bound its channel.
LEMMA AvLosses ==
    ASSUME AvInv, UNCHANGED <<avChan, avLegs>>, avLost \subseteq avLost',
           \A x \in avLost \cup AvPending : \/ x \in (avLost \cup AvPending)' \/ x.event \notin {"hangup", "newchannel"}
                                          \/ (x.event = "newchannel" /\ x.chan \in avLegs.byChan)
    PROVE  AvDown' /\ AvBound' /\ AvOwn'
  <1>1. \A c \in AvChannels : c \in AvNews("newchannel", avLost) => c \in AvNews("newchannel", avLost)'
    BY DEF AvNews
  <1>2. \A c \in AvChannels : c \in AvNews("newchannel", avLost \cup AvPending) =>
            c \in avLegs'.byChan \/ c \in AvNews("newchannel", avLost \cup AvPending)'
    BY DEF AvNews
  <1>3. \A c \in AvChannels : c \in AvNews("hangup", avLost \cup AvPending) =>
            c \in AvNews("hangup", avLost \cup AvPending)'
    BY DEF AvNews
  <1>4. AvOwn'
    BY DEF AvInv, AvOwn
  <1> QED
    BY <1>1, <1>2, <1>3, <1>4, AvDownSame

LEMMA AvNamingSame ==
    ASSUME AvInv, AvTyped', \A r \in AvRequests : avReq'[r].at = "idle" => avReq[r].at = "idle",
           \A i \in AvLegs : avLegs'.staged[i] \subseteq avLegs.staged[i],
           avLoop'.hand.req = avLoop.hand.req \/ avLoop'.hand.req = AvNoRequest,
           avSent'.named = avSent.named, avSent'.renamed = avSent.renamed
    PROVE  AvNaming'
  <1>1. AvNaming /\ avLegs.staged \in [AvLegs -> SUBSET AvRequests] /\ avSent.named \in SUBSET AvRequests
        /\ avLoop.hand.req \in AvRequests \cup {AvNoRequest}
    BY AvNames DEF AvInv, AvTyped, AvLegRecs, AvSents, AvLoops, AvHands
  <1>2. \A i \in AvLegs : \A r \in avLegs'.staged[i] :
            r \in AvRequests /\ r.leg = i /\ avReq'[r].at # "idle" /\ r \notin avSent.named /\ r # avLoop'.hand.req
    BY <1>1, AvNames DEF AvNaming
  <1>3. avLoop'.hand.req # AvNoRequest => avReq'[avLoop'.hand.req].at # "idle" /\ avLoop'.hand.req \notin avSent.named
    BY <1>1 DEF AvNaming
  <1>4. \A r \in avSent.named : avReq'[r].at # "idle"
    BY <1>1 DEF AvNaming
  <1>5. avSent.renamed = {}
    BY <1>1 DEF AvNaming
  <1> QED
    BY <1>2, <1>3, <1>4, <1>5 DEF AvNaming

(* API requests. *)
LEMMA AvReqMoves ==
    ASSUME AvTyped, NEW r \in AvRequests, NEW t \in AvReqRecs, avReq' = [avReq EXCEPT ![r] = t]
    PROVE  /\ avReq' \in [AvRequests -> AvReqRecs] /\ avReq'[r] = t
           /\ \A q \in AvRequests \ {r} : avReq'[q] = avReq[q]
  BY DEF AvTyped

LEMMA AvApiStep ==
    ASSUME AvInv, NEW r \in AvRequests, NEW t \in AvReqRecs, NEW L \in AvLegRecs,
           avReq' = [avReq EXCEPT ![r] = t], avLegs' = L,
           UNCHANGED <<avWire, avQueue, avLoop, avChan, avDrops, avSent, avLost>>,
           t.at # "idle", t.wire => avReq[r].wire \/ avReq[r].at = "idle",
           \A i \in L.tracked : i \in avLegs.tracked \/ (r.op = "place" /\ avReq[r].at = "idle" /\ i = r.leg),
           L.channel = avLegs.channel,
           \A c \in AvChannels : c.leg \in L.tracked /\ c \in avLegs.byChan => c \in L.byChan,
           \A i \in AvLegs : \A q \in L.staged[i] :
                q \in avLegs.staged[i] \/ (q = r /\ avReq[r].at = "idle" /\ i = r.leg)
    PROVE  AvInv'
  <1>1. /\ avReq' \in [AvRequests -> AvReqRecs] /\ avReq'[r] = t
        /\ \A q \in AvRequests \ {r} : avReq'[q] = avReq[q]
    BY AvReqMoves DEF AvInv
  <1>2. AvTyped'
    BY <1>1 DEF AvInv, AvTyped
  <1>3. AvOrder' /\ AvTold' /\ AvEnded' /\ AvLateTwo'
    BY <1>2, AvFlightSame
  <1>4. AvFresh'
    <2>1. \A q \in AvRequests : avReq'[q].at = "idle" => avReq[q].at = "idle" /\ avReq'[q].wire = avReq[q].wire
      BY <1>1
    <2>2. \A q \in AvRequests : avReq'[q].wire => avReq[q].wire \/ avReq[q].at = "idle"
      BY <1>1
    <2> QED
      BY <2>1, <2>2, AvFreshSame
  <1>5. AvDown' /\ AvBound'
    <2>1. AvPending' = AvPending
      BY DEF AvPending
    <2>2. \A k \in {"newchannel", "hangup"}, c \in AvChannels : c \in AvNews(k, avLost \cup AvPending) <=>
                c \in AvNews(k, avLost \cup AvPending)'
      BY <2>1 DEF AvNews
    <2>3. ASSUME NEW c \in AvChannels, avChan[c] # "none", c.leg \in L.tracked
          PROVE  c.leg \in avLegs.tracked
      BY <2>3 DEF AvInv, AvFresh
    <2> QED
      BY <2>2, <2>3, AvNewsSame
  <1>o. AvOwn'
    BY DEF AvInv, AvOwn
  <1>6. AvNaming'
    <2>0. AvNaming /\ avLegs.staged \in [AvLegs -> SUBSET AvRequests] /\ avSent.named \in SUBSET AvRequests
          /\ avLoop.hand.req \in AvRequests \cup {AvNoRequest}
      BY AvNames DEF AvInv, AvTyped, AvLegRecs, AvSents, AvLoops, AvHands
    <2>1. \A q \in AvRequests : avReq[q].at # "idle" => avReq'[q].at # "idle"
      BY <1>1
    <2>2. ASSUME NEW i \in AvLegs, NEW q \in L.staged[i]
          PROVE  q.leg = i /\ avReq'[q].at # "idle" /\ q \notin avSent.named /\ q # avLoop.hand.req
      <3>1. CASE q \in avLegs.staged[i]
        BY <2>0, <2>1, <3>1 DEF AvNaming
      <3>2. CASE q = r /\ avReq[r].at = "idle" /\ i = r.leg
        BY <1>1, <2>0, <3>2, AvNames DEF AvNaming
      <3> QED
        BY <3>1, <3>2
    <2> QED
      BY <2>0, <2>1, <2>2 DEF AvNaming
  <1> QED
    BY <1>2, <1>3, <1>4, <1>5, <1>o, <1>6 DEF AvInv

LEMMA AvPlaceCallKeeps == ASSUME AvInv, NEW r \in AvRequests, AvPlaceCall(r) PROVE AvInv'
  <1> DEFINE t == [avReq[r] EXCEPT !.at = "wait", !.wire = TRUE]
             L == [avLegs EXCEPT !.tracked = @ \cup {r.leg}]
  <1>0. avReq[r] \in AvReqRecs /\ avLegs \in AvLegRecs /\ r.leg \in AvLegs /\ avReq[r].at = "idle" /\ r.op = "place"
    BY AvNames DEF AvInv, AvTyped, AvPlaceCall
  <1>1. t \in AvReqRecs /\ t.at = "wait"
    BY <1>0 DEF AvReqRecs
  <1>2. L \in AvLegRecs /\ L.tracked = avLegs.tracked \cup {r.leg} /\ L.staged = avLegs.staged
        /\ L.channel = avLegs.channel /\ L.byChan = avLegs.byChan
    BY <1>0 DEF AvLegRecs
  <1>3. avReq' = [avReq EXCEPT ![r] = t] /\ avLegs' = L
    BY DEF AvPlaceCall, AvInv, AvTyped
  <1>4. UNCHANGED <<avWire, avQueue, avLoop, avChan, avDrops, avSent, avLost>>
    BY DEF AvPlaceCall
  <1> HIDE DEF t, L
  <1> QED
    BY <1>0, <1>1, <1>2, <1>3, <1>4, AvApiStep

LEMMA AvCommandKeeps == ASSUME AvInv, NEW r \in AvRequests, AvCommand(r) PROVE AvInv'
  <1>0. avReq[r] \in AvReqRecs /\ avLegs \in AvLegRecs /\ r.leg \in AvLegs /\ avReq[r].at = "idle"
    BY AvNames DEF AvInv, AvTyped, AvCommand
  <1>s. avLegs.staged \in [AvLegs -> SUBSET AvRequests]
    BY <1>0 DEF AvLegRecs
  <1>a. PICK v \in SUBSET AvRequests : v = IF r.op = "transfer" THEN {r} ELSE avLegs.staged[r.leg]
    BY <1>0, <1>s
  <1>b. PICK st \in [AvLegs -> SUBSET AvRequests] : st = [avLegs.staged EXCEPT ![r.leg] = v]
    BY <1>s
  <1>c. st[r.leg] = v /\ \A i \in AvLegs : i # r.leg => st[i] = avLegs.staged[i]
    BY <1>0, <1>s, <1>b
  <1> DEFINE t == [avReq[r] EXCEPT !.at = "wait", !.wire = TRUE]
             L == [avLegs EXCEPT !.staged = st]
  <1>1. t \in AvReqRecs /\ t.at = "wait"
    BY <1>0 DEF AvReqRecs
  <1>2. L \in AvLegRecs /\ L.tracked = avLegs.tracked /\ L.staged = st
        /\ L.channel = avLegs.channel /\ L.byChan = avLegs.byChan
    BY <1>0 DEF AvLegRecs
  <1>3. avReq' = [avReq EXCEPT ![r] = t] /\ avLegs' = L
    BY <1>a, <1>b DEF AvCommand, AvInv, AvTyped
  <1>4. UNCHANGED <<avWire, avQueue, avLoop, avChan, avDrops, avSent, avLost>>
    BY DEF AvCommand
  <1> HIDE DEF t, L
  <1>5. \A i \in AvLegs : \A q \in L.staged[i] :
                q \in avLegs.staged[i] \/ (q = r /\ avReq[r].at = "idle" /\ i = r.leg)
    BY <1>0, <1>2, <1>a, <1>c
  <1> QED
    BY <1>0, <1>1, <1>2, <1>3, <1>4, <1>5, AvApiStep

LEMMA AvRemoves ==
    ASSUME AvTyped, AvOwn, NEW i \in AvLegs
    PROVE  /\ AvRemoveLeg(avLegs, i) \in AvLegRecs /\ AvRemoveLeg(avLegs, i).tracked = avLegs.tracked \ {i}
           /\ AvRemoveLeg(avLegs, i).staged = avLegs.staged /\ AvRemoveLeg(avLegs, i).channel = avLegs.channel
           /\ \A c \in AvChannels : c.leg # i /\ c \in avLegs.byChan => c \in AvRemoveLeg(avLegs, i).byChan
  <1>1. /\ AvRemoveLeg(avLegs, i) \in AvLegRecs /\ AvRemoveLeg(avLegs, i).tracked = avLegs.tracked \ {i}
        /\ AvRemoveLeg(avLegs, i).staged = avLegs.staged /\ AvRemoveLeg(avLegs, i).channel = avLegs.channel
        /\ AvRemoveLeg(avLegs, i).byChan = avLegs.byChan \ avLegs.channel[i]
    BY DEF AvTyped, AvLegRecs, AvRemoveLeg
  <1> QED
    BY <1>1 DEF AvOwn

LEMMA AvReturnsKeeps == ASSUME AvInv, NEW r \in AvRequests, AvReturns(r) PROVE AvInv'
  <1>0. avReq[r] \in AvReqRecs /\ avLegs \in AvLegRecs /\ r.leg \in AvLegs /\ AvTyped
    BY AvNames DEF AvInv, AvTyped, AvReturns
  <1>s. avLegs.staged \in [AvLegs -> SUBSET AvRequests] /\ avReq[r].reply \in {"none", "ok", "refused"}
    BY <1>0 DEF AvLegRecs, AvReqRecs
  <1>1. PICK result \in {avReq[r].reply, "error"} \ {"none"} :
            /\ avReq' = [avReq EXCEPT ![r].at = "done", ![r].result = result]
            /\ avLegs' = IF result = "ok" THEN avLegs ELSE AvUndo(r)
    BY DEF AvReturns
  <1> DEFINE t == [avReq[r] EXCEPT !.at = "done", !.result = result]
  <1>2. t \in AvReqRecs /\ t.at = "done" /\ t.wire = avReq[r].wire
    BY <1>0, <1>s DEF AvReqRecs
  <1>3. avReq' = [avReq EXCEPT ![r] = t]
    BY <1>0, <1>1 DEF AvTyped
  <1>4. UNCHANGED <<avWire, avQueue, avLoop, avChan, avDrops, avSent, avLost>>
    BY DEF AvReturns
  <1> HIDE DEF t
  <1>o. AvOwn
    BY DEF AvInv
  <1>5. PICK L \in AvLegRecs : /\ avLegs' = L /\ L.tracked \subseteq avLegs.tracked /\ L.channel = avLegs.channel
                               /\ \A c \in AvChannels : c.leg \in L.tracked /\ c \in avLegs.byChan => c \in L.byChan
                               /\ \A i \in AvLegs : L.staged[i] \subseteq avLegs.staged[i]
    <2>1. CASE result = "ok"
      BY <1>0, <1>1, <2>1
    <2>2. CASE result # "ok" /\ r.op = "place"
      <3>1. avLegs' = AvRemoveLeg(avLegs, r.leg)
        BY <1>1, <2>2 DEF AvUndo
      <3> QED
        BY <1>0, <1>o, <3>1, AvRemoves
    <2>3. CASE result # "ok" /\ r.op = "transfer"
      <3>1. PICK v \in SUBSET AvRequests : v = avLegs.staged[r.leg] \ {r}
        BY <1>0, <1>s
      <3>2. PICK st \in [AvLegs -> SUBSET AvRequests] : st = [avLegs.staged EXCEPT ![r.leg] = v]
        BY <1>s
      <3>3. \A i \in AvLegs : st[i] \subseteq avLegs.staged[i]
        BY <1>0, <1>s, <3>1, <3>2
      <3>4. avLegs' = [avLegs EXCEPT !.staged = st]
        BY <1>0, <1>1, <2>3, <3>1, <3>2 DEF AvUndo
      <3>5. [avLegs EXCEPT !.staged = st] \in AvLegRecs /\ [avLegs EXCEPT !.staged = st].tracked = avLegs.tracked
            /\ [avLegs EXCEPT !.staged = st].staged = st
            /\ [avLegs EXCEPT !.staged = st].channel = avLegs.channel /\ [avLegs EXCEPT !.staged = st].byChan = avLegs.byChan
        BY <1>0 DEF AvLegRecs
      <3> QED
        BY <3>3, <3>4, <3>5
    <2>4. CASE result # "ok" /\ r.op \notin {"place", "transfer"}
      BY <1>0, <1>1, <2>4 DEF AvUndo
    <2> QED
      BY <2>1, <2>2, <2>3, <2>4
  <1>6. \A i \in AvLegs : \A q \in L.staged[i] :
                q \in avLegs.staged[i] \/ (q = r /\ avReq[r].at = "idle" /\ i = r.leg)
    BY <1>5
  <1> QED
    BY <1>2, <1>3, <1>4, <1>5, <1>6, AvApiStep

(* The reader. *)
LEMMA AvElementsTyped == ASSUME NEW S, NEW q \in Seq(S) PROVE AvElements(q) \subseteq S
  BY DEF AvElements

LEMMA AvPacketKinds ==
    /\ \A p \in AvPackets : AvIsReply(p) => p \in AvReplies
    /\ \A p \in AvPackets : ~AvIsReply(p) => p \in AvEvents
    /\ \A p \in AvPackets : p.event \in AvKinds => p \in AvEvents
    /\ \A p \in AvReplies : p \in AvPackets /\ AvIsReply(p) /\ p.event \notin AvKinds /\ p.event # "hangup"
    /\ \A p \in AvEvents : p \in AvPackets /\ p.event \in AvKinds /\ p.chan \in AvChannels /\ p.req = AvNoRequest
  BY DEF AvPackets, AvReplies, AvEvents, AvIsReply, AvKinds

LEMMA AvReadReplyKeeps == ASSUME AvInv, AvReadReply PROVE AvInv'
  <1>t. AvTyped /\ AvOrder /\ avLegs \in AvLegRecs /\ avWire \in Seq(AvPackets)
    BY DEF AvInv, AvTyped
  <1>0. avWire # <<>> /\ AvIsReply(Head(avWire)) /\ avWire' = Tail(avWire)
        /\ UNCHANGED <<avQueue, avLoop, avStop, avChan, avDrops, avSent, avLost>>
    BY DEF AvReadReply
  <1>1. PICK p \in AvReplies : p = Head(avWire)
    BY <1>t, <1>0, AvTake, AvPacketKinds
  <1>2. /\ avWire' \in Seq(AvPackets) /\ AvElements(avWire) = AvElements(avWire') \cup {p} /\ AvOrdered(avWire')
    BY <1>t, <1>0, <1>1, AvTake DEF AvOrder
  <1>3. p.req \in AvRequests /\ p.event \in {"ok", "refused"} /\ p.chan \in AvChannels \cup {AvNoChannel}
        /\ p.event \notin AvKinds /\ p.event # "hangup" /\ (p.chan # AvNoChannel => p.chan.leg = p.req.leg)
    BY <1>1 DEF AvReplies, AvKinds
  <1>o. AvOwn
    BY DEF AvInv
  <1>4. PICK L \in AvLegRecs : avLegs' = L /\ L.tracked = avLegs.tracked /\ L.staged = avLegs.staged
                               /\ avLegs.byChan \subseteq L.byChan /\ \A i \in AvLegs : \A c \in L.channel[i] : c.leg = i
    <2>1. CASE avLegs' = avLegs
      BY <1>t, <1>o, <2>1 DEF AvOwn
    <2>2. CASE avLegs' # avLegs
      <3>1. p.chan \in AvChannels /\ p.req.leg \in AvLegs /\ p.chan.leg = p.req.leg
            /\ avLegs' = [avLegs EXCEPT !.channel[p.req.leg] = IF @ = {} THEN {p.chan} ELSE @, !.byChan = @ \cup {p.chan}]
        BY <1>1, <1>3, <2>2, AvNames DEF AvReadReply
      <3>2. avLegs.channel \in [AvLegs -> SUBSET AvChannels]
        BY <1>t DEF AvLegRecs
      <3>3. PICK v \in SUBSET AvChannels : v = IF avLegs.channel[p.req.leg] = {} THEN {p.chan} ELSE avLegs.channel[p.req.leg]
        BY <3>1, <3>2
      <3>4. PICK ch \in [AvLegs -> SUBSET AvChannels] : ch = [avLegs.channel EXCEPT ![p.req.leg] = v]
        BY <3>2
      <3>5. avLegs' = [avLegs EXCEPT !.channel = ch, !.byChan = @ \cup {p.chan}]
        BY <1>t, <3>1, <3>3, <3>4
      <3> DEFINE L == [avLegs EXCEPT !.channel = ch, !.byChan = @ \cup {p.chan}]
      <3>6. L \in AvLegRecs /\ L.tracked = avLegs.tracked /\ L.staged = avLegs.staged /\ L.channel = ch
            /\ avLegs.byChan \subseteq L.byChan
        BY <1>t, <3>1 DEF AvLegRecs
      <3>7. \A i \in AvLegs : \A c \in ch[i] : c.leg = i
        BY <1>o, <3>1, <3>2, <3>3, <3>4 DEF AvOwn
      <3> HIDE DEF L
      <3> QED
        BY <3>5, <3>6, <3>7 DEF L
    <2> QED
      BY <2>1, <2>2
  <1>5. PICK t \in AvReqRecs : avReq' = [avReq EXCEPT ![p.req] = t] /\ t.at = avReq[p.req].at /\ t.wire = avReq[p.req].wire
    <2>1. avReq[p.req] \in AvReqRecs
      BY <1>t, <1>3 DEF AvTyped
    <2>2. PICK v \in {"none", "ok", "refused"} : v = IF avReq[p.req].at = "wait" THEN p.event ELSE avReq[p.req].reply
      BY <1>3, <2>1 DEF AvReqRecs
    <2>3. avReq' = [avReq EXCEPT ![p.req] = [avReq[p.req] EXCEPT !.reply = v]]
      BY <1>t, <1>1, <2>2 DEF AvReadReply, AvTyped
    <2> DEFINE t == [avReq[p.req] EXCEPT !.reply = v]
    <2>4. t \in AvReqRecs /\ t.at = avReq[p.req].at /\ t.wire = avReq[p.req].wire
      BY <2>1 DEF AvReqRecs
    <2> QED
      BY <2>3, <2>4
  <1>6. /\ avReq' \in [AvRequests -> AvReqRecs]
        /\ \A q \in AvRequests : avReq'[q].at = avReq[q].at /\ avReq'[q].wire = avReq[q].wire
    BY <1>t, <1>3, <1>5, AvReqMoves
  <1>7. AvTyped'
    BY <1>t, <1>0, <1>2, <1>4, <1>6 DEF AvTyped
  <1>8. AvOrder'
    BY <1>t, <1>0, <1>2 DEF AvOrder
  <1>9. AvTold' /\ AvEnded'
    <2>1. AvFlight' \subseteq AvFlight
      BY <1>0, <1>2 DEF AvFlight
    <2> QED
      BY <1>0, <1>7, <2>1, AvFlightMoves
  <1>10. AvLateTwo' /\ AvFresh'
    BY <1>0, <1>6, AvLateSame, AvFreshSame
  <1>11. AvDown' /\ AvBound' /\ AvOwn'
    <2>1. AvPending = AvPending' \cup {p}
      BY <1>0, <1>2 DEF AvPending
    <2>2. \A k \in {"newchannel", "hangup"}, c \in AvChannels : c \in AvNews(k, avLost \cup AvPending) <=>
                c \in AvNews(k, avLost \cup AvPending)'
      BY <1>0, <1>3, <2>1 DEF AvNews, AvKinds
    <2>3. AvDown' /\ AvBound'
      BY <1>0, <1>4, <2>2, AvNewsSame
    <2> QED
      BY <1>4, <2>3 DEF AvOwn
  <1>12. AvNaming'
    BY <1>0, <1>4, <1>6, <1>7, AvNamingSame
  <1> QED
    BY <1>7, <1>8, <1>9, <1>10, <1>11, <1>12 DEF AvInv

LEMMA AvEnqueueKeeps == ASSUME AvInv, AvEnqueueEvent PROVE AvInv'
  <1>t. AvTyped /\ AvOrder /\ avWire \in Seq(AvPackets) /\ avQueue \in Seq(AvEvents)
    BY DEF AvInv, AvTyped
  <1>0. avWire # <<>> /\ ~AvIsReply(Head(avWire)) /\ avWire' = Tail(avWire)
        /\ UNCHANGED <<avReq, avLegs, avLoop, avStop, avChan, avDrops, avSent>>
    BY DEF AvEnqueueEvent
  <1>1. PICK p \in AvEvents : p = Head(avWire)
    BY <1>t, <1>0, AvTake, AvPacketKinds
  <1>2. /\ avWire' \in Seq(AvPackets) /\ AvElements(avWire) = AvElements(avWire') \cup {p} /\ AvOrdered(avWire')
        /\ \A y \in AvElements(avWire') : p.event = "hangup" => ~AvTells(y, p.chan)
    BY <1>t, <1>0, <1>1, AvTake DEF AvOrder
  <1>3. /\ avQueue' \in Seq(AvEvents) /\ AvOrdered(avQueue') /\ avLost \subseteq avLost'
        /\ AvElements(avQueue) \subseteq AvElements(avQueue') /\ AvElements(avQueue') \subseteq AvElements(avQueue) \cup {p}
        /\ p \in AvElements(avQueue') \/ p \in avLost' \/ p.event \notin {"hangup", "newchannel"}
           \/ (p.event = "newchannel" /\ p.chan \in avLegs.byChan)
    <2>1. CASE avQueue' = Append(avQueue, p) /\ avLost' = avLost
      <3>1. \A y \in AvElements(avQueue) : y.event = "hangup" => ~AvTells(p, y.chan)
        BY <1>t, <1>2 DEF AvOrder
      <3> QED
        BY <1>t, <2>1, <3>1, AvPut DEF AvOrder
    <2>2. CASE avQueue' = avQueue /\ avLost' = avLost \cup AvMissed({p})
      BY <1>t, <2>2 DEF AvOrder, AvMissed
    <2> QED
      BY <1>1, <2>1, <2>2 DEF AvEnqueueEvent
  <1>4. AvTyped'
    BY <1>t, <1>0, <1>2, <1>3 DEF AvTyped
  <1>5. AvOrder'
    <2>1. \A q \in AvElements(avQueue'), x \in AvElements(avWire') : q.event = "hangup" => ~AvTells(x, q.chan)
      BY <1>t, <1>2, <1>3 DEF AvOrder
    <2>2. \A x \in AvElements(avWire') \cup AvElements(avQueue') :
            avLoop.hand.event = "hangup" => ~AvTells(x, avLoop.hand.chan)
      BY <1>t, <1>2, <1>3 DEF AvOrder
    <2> QED
      BY <1>0, <1>2, <1>3, <2>1, <2>2 DEF AvOrder
  <1>6. AvTold' /\ AvEnded'
    <2>1. AvFlight' \subseteq AvFlight
      BY <1>0, <1>2, <1>3 DEF AvFlight
    <2> QED
      BY <1>0, <1>4, <2>1, AvFlightMoves
  <1>7. AvLateTwo' /\ AvFresh'
    BY <1>0, AvLateSame, AvFreshSame
  <1>8. AvDown' /\ AvBound' /\ AvOwn'
    <2>1. \A x \in avLost \cup AvPending : \/ x \in (avLost \cup AvPending)' \/ x.event \notin {"hangup", "newchannel"}
                                          \/ (x.event = "newchannel" /\ x.chan \in avLegs.byChan)
      BY <1>0, <1>2, <1>3 DEF AvPending
    <2> QED
      BY <1>0, <1>3, <2>1, AvLosses
  <1>9. AvNaming'
    BY <1>0, <1>4, AvNamingSame
  <1> QED
    BY <1>4, <1>5, <1>6, <1>7, <1>8, <1>9 DEF AvInv

LEMMA AvSessionDropsKeeps == ASSUME AvInv, AvSessionDrops PROVE AvInv'
  <1>t. AvTyped /\ AvOrder /\ AvFresh /\ avDrops \in 0 .. AvMaxDrops
    BY DEF AvInv, AvTyped
  <1>0. /\ avWire' = <<>> /\ avDrops' = avDrops + 1 /\ avDrops' \in 0 .. AvMaxDrops
        /\ avLost' = avLost \cup AvMissed(AvElements(avWire))
        /\ UNCHANGED <<avLegs, avQueue, avLoop, avStop, avChan, avSent>>
    BY <1>t, AmiVoiceAssumption DEF AvSessionDrops
  <1>1. AvElements(avWire') = {} /\ AvOrdered(avWire') /\ avWire' \in Seq(AvPackets)
    BY <1>0, AvNonePending
  <1>2. ASSUME NEW r \in AvRequests
        PROVE  /\ avReq'[r] \in AvReqRecs /\ avReq'[r].at = avReq[r].at
               /\ avReq'[r].wire => avReq[r].at = "wait"
    <2>1. avReq[r] \in AvReqRecs
      BY <1>t DEF AvTyped
    <2>2. PICK b \in BOOLEAN : b = (avReq[r].at = "wait" /\ avReq[r].reply = "none")
      OBVIOUS
    <2>3. avReq'[r] = [avReq[r] EXCEPT !.wire = b]
      BY <2>2 DEF AvSessionDrops
    <2> QED
      BY <2>1, <2>2, <2>3 DEF AvReqRecs
  <1>3. avReq' \in [AvRequests -> AvReqRecs]
    BY <1>2 DEF AvSessionDrops
  <1>4. AvTyped'
    BY <1>t, <1>0, <1>1, <1>3 DEF AvTyped
  <1>5. AvOrder'
    BY <1>t, <1>0, <1>1 DEF AvOrder
  <1>6. AvTold' /\ AvEnded'
    <2>1. AvFlight' \subseteq AvFlight
      BY <1>0, <1>1 DEF AvFlight
    <2> QED
      BY <1>0, <1>4, <2>1, AvFlightMoves
  <1>7. AvLateTwo'
    BY <1>0, AvLateSame
  <1>8. AvFresh'
    <2>1. \A c \in AvChannels : avChan'[c] # "none" => c.run <= avDrops /\ c.run <= avDrops'
      BY <1>t, <1>0 DEF AvFresh, AvChannels
    <2>2. \A r \in AvRequests : avReq'[r].at = "idle" => ~avReq'[r].wire
      BY <1>2
    <2>3. ASSUME NEW r \in AvRequests, NEW c \in AvChannels, r.op = "place", c.leg = r.leg,
                 avReq'[r].at = "idle" \/ (avReq'[r].wire /\ c.run = avDrops')
          PROVE  avChan'[c] = "none"
      <3>1. CASE avReq'[r].at = "idle"
        BY <1>t, <1>0, <1>2, <2>3, <3>1 DEF AvFresh
      <3>2. CASE c.run = avDrops'
        BY <1>t, <1>0, <2>1, <3>2
      <3> QED
        BY <2>3, <3>1, <3>2
    <2> QED
      BY <2>1, <2>2, <2>3 DEF AvFresh
  <1>9. AvDown' /\ AvBound' /\ AvOwn'
    <2>1. \A p \in avLost \cup AvPending : \/ p \in (avLost \cup AvPending)' \/ p.event \notin {"hangup", "newchannel"}
                                          \/ (p.event = "newchannel" /\ p.chan \in avLegs.byChan)
      BY <1>0, <1>1 DEF AvPending, AvMissed
    <2> QED
      BY <1>0, <2>1, AvLosses
  <1>10. AvNaming'
    BY <1>0, <1>2, <1>4, AvNamingSame
  <1> QED
    BY <1>4, <1>5, <1>6, <1>7, <1>8, <1>9, <1>10 DEF AvInv

(* The delivery goroutine. *)
LEMMA AvBinds ==
    ASSUME AvTyped, AvOwn, NEW c \in AvChannels, NEW echo \in BOOLEAN
    PROVE  /\ AvBindChannel(c, echo) \in AvLegRecs /\ AvBindChannel(c, echo).tracked = avLegs.tracked
           /\ AvBindChannel(c, echo).staged = avLegs.staged
           /\ avLegs.byChan \subseteq AvBindChannel(c, echo).byChan
           /\ echo /\ c.leg \in avLegs.tracked => c \in AvBindChannel(c, echo).byChan
           /\ \A i \in AvLegs : \A d \in AvBindChannel(c, echo).channel[i] : d.leg = i
  <1>0. avLegs \in AvLegRecs /\ c.leg \in AvLegs
    BY AvNames DEF AvTyped
  <1>1. CASE ~((echo /\ c.leg \in avLegs.tracked) \/ c \in avLegs.byChan)
    BY <1>0, <1>1 DEF AvBindChannel, AvOwn
  <1>2. CASE (echo /\ c.leg \in avLegs.tracked) \/ c \in avLegs.byChan
    <2>1. avLegs.channel \in [AvLegs -> SUBSET AvChannels] /\ avLegs.uid \in [AvLegs -> SUBSET AvChannels]
      BY <1>0 DEF AvLegRecs
    <2>2. PICK v \in SUBSET AvChannels : v = IF avLegs.channel[c.leg] = {} THEN {c} ELSE avLegs.channel[c.leg]
      BY <1>0, <2>1
    <2>3. PICK ch \in [AvLegs -> SUBSET AvChannels] : ch = [avLegs.channel EXCEPT ![c.leg] = v]
      BY <2>1
    <2>4. PICK u \in [AvLegs -> SUBSET AvChannels] : u = [avLegs.uid EXCEPT ![c.leg] = {c}]
      BY <2>1
    <2> DEFINE L == [avLegs EXCEPT !.channel = ch, !.uid = u, !.byUid = @ \cup {c}, !.byChan = @ \cup {c}]
    <2>5. L \in AvLegRecs /\ L.tracked = avLegs.tracked /\ L.staged = avLegs.staged /\ L.channel = ch
          /\ avLegs.byChan \subseteq L.byChan /\ c \in L.byChan
      BY <1>0 DEF AvLegRecs
    <2>6. AvBindChannel(c, echo) = L
      BY <1>0, <1>2, <2>2, <2>3, <2>4 DEF AvBindChannel
    <2>7. \A i \in AvLegs : \A d \in ch[i] : d.leg = i
      BY <1>0, <2>1, <2>2, <2>3 DEF AvOwn
    <2> HIDE DEF L
    <2> QED
      BY <2>5, <2>6, <2>7
  <1> QED
    BY <1>1, <1>2

LEMMA AvProcessKeeps == ASSUME AvInv, NEW echo \in BOOLEAN, AvProcessPacket(echo) PROVE AvInv'
  <1>t. AvTyped /\ AvOrder /\ AvOwn /\ AvNaming /\ avQueue \in Seq(AvEvents) /\ avLegs \in AvLegRecs /\ avLoop \in AvLoops
    BY DEF AvInv, AvTyped
  <1>0. avQueue # <<>> /\ avQueue' = Tail(avQueue) /\ avLoop.hand = AvNothing
        /\ UNCHANGED <<avReq, avWire, avStop, avChan, avDrops, avSent>>
    BY DEF AvProcessPacket
  <1>1. PICK p \in AvEvents : p = Head(avQueue)
    BY <1>t, <1>0, AvTake
  <1>2. /\ avQueue' \in Seq(AvEvents) /\ AvElements(avQueue) = AvElements(avQueue') \cup {p} /\ AvOrdered(avQueue')
        /\ \A y \in AvElements(avQueue') : p.event = "hangup" => ~AvTells(y, p.chan)
    BY <1>t, <1>0, <1>1, AvTake DEF AvOrder
  <1>3. PICK c \in AvChannels : c = p.chan /\ c.leg \in AvLegs
    BY AvNames DEF AvEvents
  <1>4. PICK named : named = IF p.event = "ringing" /\ avLegs.staged[c.leg] # {}
                             THEN CHOOSE r \in avLegs.staged[c.leg] : TRUE ELSE AvNoRequest
    OBVIOUS
  <1>s. avLegs.staged \in [AvLegs -> SUBSET AvRequests]
    BY <1>t DEF AvLegRecs
  <1>5. named = AvNoRequest \/ (named \in avLegs.staged[c.leg] /\ named \in AvRequests /\ p.event = "ringing")
    BY <1>3, <1>4, <1>s
  <1>6. PICK delivers \in BOOLEAN : delivers = (p.event # "newchannel" /\ AvOwned(c, echo))
    OBVIOUS
  <1>7. avLoop' = [avLoop EXCEPT !.hand = IF delivers THEN [p EXCEPT !.req = named] ELSE AvNothing]
    BY <1>1, <1>3, <1>4, <1>6 DEF AvProcessPacket
  <1> DEFINE held == [p EXCEPT !.req = named]
  <1>8. held \in AvHands /\ held.event = p.event /\ held.chan = c /\ held.req = named
    BY <1>3, <1>5 DEF AvEvents, AvHands
  <1> HIDE DEF held
  <1>9. PICK h \in AvHands : avLoop' = [avLoop EXCEPT !.hand = h] /\ h = IF delivers THEN held ELSE AvNothing
    BY <1>7, <1>8 DEF held, AvHands
  <1>10. avLoop' \in AvLoops /\ avLoop'.hand = h
    BY <1>t, <1>9 DEF AvLoops
  <1>11. PICK L \in AvLegRecs :
            /\ avLegs' = L /\ L.tracked \subseteq avLegs.tracked
            /\ \A i \in AvLegs : L.staged[i] \subseteq avLegs.staged[i]
            /\ \A i \in AvLegs : \A d \in L.channel[i] : d.leg = i
            /\ \A d \in AvChannels : d.leg \in L.tracked /\ d \in avLegs.byChan => d \in L.byChan
            /\ p.event = "newchannel" /\ echo /\ c.leg \in L.tracked => c \in L.byChan
            /\ p.event = "hangup" /\ c.leg \in L.tracked => c \notin avLegs.byChan
            /\ delivers /\ p.event = "ringing" => L.staged[c.leg] = {}
    <2>0. avLegs' = CASE p.event = "newchannel"          -> AvBindChannel(c, echo)
                      [] delivers /\ p.event = "hangup"  -> AvRemoveLeg(avLegs, c.leg)
                      [] delivers /\ p.event = "ringing" -> [avLegs EXCEPT !.staged[c.leg] = {}]
                      [] OTHER                           -> avLegs
      BY <1>1, <1>3, <1>6 DEF AvProcessPacket
    <2>1. CASE p.event = "newchannel"
      <3>1. avLegs' = AvBindChannel(c, echo)
        BY <2>0, <2>1, <1>6
      <3> QED
        BY <1>t, <2>1, <3>1, AvBinds
    <2>2. CASE delivers /\ p.event = "hangup"
      <3>1. avLegs' = AvRemoveLeg(avLegs, c.leg)
        BY <2>0, <2>2
      <3>2. PICK L \in AvLegRecs :
                /\ avLegs' = L /\ L.tracked = avLegs.tracked \ {c.leg} /\ L.staged = avLegs.staged /\ L.channel = avLegs.channel
                /\ \A d \in AvChannels : d.leg # c.leg /\ d \in avLegs.byChan => d \in L.byChan
        BY <1>t, <1>3, <3>1, AvRemoves
      <3> QED
        BY <1>t, <1>3, <2>2, <3>2 DEF AvOwn
    <2>3. CASE delivers /\ p.event = "ringing"
      <3>1. PICK st \in [AvLegs -> SUBSET AvRequests] : st = [avLegs.staged EXCEPT ![c.leg] = {}]
        BY <1>s
      <3>2. avLegs' = [avLegs EXCEPT !.staged = st]
        BY <1>t, <2>0, <2>3, <3>1
      <3>3. st[c.leg] = {} /\ \A i \in AvLegs : st[i] \subseteq avLegs.staged[i]
        BY <1>3, <1>s, <3>1
      <3> DEFINE L == [avLegs EXCEPT !.staged = st]
      <3>4. L \in AvLegRecs /\ L.tracked = avLegs.tracked /\ L.staged = st
            /\ L.channel = avLegs.channel /\ L.byChan = avLegs.byChan
        BY <1>t DEF AvLegRecs
      <3> HIDE DEF L
      <3> QED
        BY <1>t, <2>3, <3>2, <3>3, <3>4 DEF L, AvOwn
    <2>4. CASE p.event # "newchannel" /\ ~(delivers /\ p.event \in {"hangup", "ringing"})
      <3>1. avLegs' = avLegs
        BY <2>0, <2>4
      <3>2. p.event = "hangup" => c \notin avLegs.byChan
        BY <1>6, <2>4 DEF AvOwned
      <3> QED
        BY <1>t, <2>4, <3>1, <3>2 DEF AvOwn
    <2> QED
      BY <2>1, <2>2, <2>3, <2>4
  <1>12. AvTyped'
    BY <1>t, <1>0, <1>2, <1>10, <1>11 DEF AvTyped
  <1>13. h.event \in AvKinds => h.event = p.event /\ h.chan = p.chan
    BY <1>3, <1>8, <1>9, AvNames
  <1>14. AvOrder'
    <2>1. \A q \in AvElements(avQueue'), x \in AvElements(avWire') : q.event = "hangup" => ~AvTells(x, q.chan)
      BY <1>t, <1>0, <1>2 DEF AvOrder
    <2>2. \A x \in AvElements(avWire') \cup AvElements(avQueue') : h.event = "hangup" => ~AvTells(x, h.chan)
      BY <1>t, <1>0, <1>2, <1>13 DEF AvOrder, AvKinds
    <2>3. AvOrdered(avWire')
      BY <1>t, <1>0 DEF AvOrder
    <2> QED
      BY <1>2, <1>10, <2>1, <2>2, <2>3 DEF AvOrder
  <1>15. AvTold' /\ AvEnded'
    <2>1. \A x \in AvFlight' : x.event \in AvKinds => \E y \in AvFlight : y.event = x.event /\ y.chan = x.chan
      BY <1>0, <1>2, <1>10, <1>13 DEF AvFlight
    <2> QED
      BY <1>0, <1>12, <2>1, AvFlightMoves
  <1>16. AvLateTwo' /\ AvFresh'
    BY <1>0, AvLateSame, AvFreshSame
  <1>l. /\ avLost \subseteq avLost'
        /\ p.event = "newchannel" => echo \/ c \in avLegs.byChan \/ p \in avLost'
    BY <1>1, <1>3 DEF AvProcessPacket, AvMissed
  <1>p. AvPending = AvPending' \cup {p}
    BY <1>0, <1>2 DEF AvPending
  <1>17. AvDown' /\ AvBound' /\ AvOwn'
    <2>1. \A d \in AvChannels : d \in AvNews("newchannel", avLost) => d \in AvNews("newchannel", avLost)'
      BY <1>l DEF AvNews
    <2>2. ASSUME NEW d \in AvChannels, d.leg \in L.tracked, d \in AvNews("newchannel", avLost \cup AvPending)
          PROVE  d \in L.byChan \/ d \in AvNews("newchannel", avLost \cup AvPending)'
      <3>1. PICK x \in avLost \cup AvPending : x.event = "newchannel" /\ x.chan = d
        BY <2>2 DEF AvNews
      <3>2. CASE x \in (avLost \cup AvPending)'
        BY <3>1, <3>2 DEF AvNews
      <3>3. CASE x = p
        <4>1. d \in L.byChan \/ p \in avLost'
          BY <1>3, <1>11, <1>l, <2>2, <3>1, <3>3
        <4> QED
          BY <3>1, <3>3, <4>1 DEF AvNews
      <3> QED
        BY <1>l, <1>p, <3>2, <3>3
    <2>3. ASSUME NEW d \in AvChannels, avChan[d] # "none", d.leg \in L.tracked, d \in AvNews("hangup", avLost \cup AvPending)
          PROVE  d \in AvNews("hangup", avLost \cup AvPending)' \/ d \in AvNews("newchannel", avLost)'
      <3>1. PICK x \in avLost \cup AvPending : x.event = "hangup" /\ x.chan = d
        BY <2>3 DEF AvNews
      <3>2. CASE x \in (avLost \cup AvPending)'
        BY <3>1, <3>2 DEF AvNews
      <3>3. CASE x = p
        <4>1. c = d /\ p.event = "hangup" /\ d \notin avLegs.byChan
          BY <1>3, <1>11, <2>3, <3>1, <3>3
        <4>2. PICK y \in avLost \cup AvPending : y.event = "newchannel" /\ y.chan = d
          BY <1>11, <2>3, <4>1 DEF AvInv, AvBound, AvNews
        <4>3. y \notin AvPending'
          BY <1>t, <1>0, <1>1, <1>2, <1>3, <4>1, <4>2 DEF AvOrder, AvTells, AvKinds, AvPending
        <4>4. y # p
          BY <4>1, <4>2
        <4> QED
          BY <1>l, <1>p, <4>2, <4>3, <4>4 DEF AvNews
      <3> QED
        BY <1>l, <1>p, <3>2, <3>3
    <2>4. AvDown' /\ AvBound'
      BY <1>0, <1>11, <2>1, <2>2, <2>3, AvDownSame
    <2> QED
      BY <1>11, <2>4 DEF AvOwn
  <1>18. AvNaming'
    <2>1. CASE h.req = AvNoRequest
      BY <1>0, <1>10, <1>11, <1>12, <2>1, AvNamingSame
    <2>2. CASE h.req # AvNoRequest
      <3>1. delivers /\ h.req = named /\ p.event = "ringing" /\ named \in avLegs.staged[c.leg] /\ named \in AvRequests
        BY <1>5, <1>8, <1>9, <2>2, AvNames
      <3>2. avReq[named].at # "idle" /\ named \notin avSent.named /\ named.leg = c.leg
        BY <1>t, <1>3, <3>1 DEF AvNaming
      <3>3. ASSUME NEW i \in AvLegs, NEW r \in L.staged[i]
            PROVE  r.leg = i /\ avReq[r].at # "idle" /\ r \notin avSent.named /\ r # named
        <4>1. r \in avLegs.staged[i]
          BY <1>11, <3>3
        <4>2. i # c.leg
          BY <1>11, <3>1, <3>3
        <4> QED
          BY <1>t, <3>2, <4>1, <4>2 DEF AvNaming
      <3>4. (\A r \in avSent.named : avReq[r].at # "idle") /\ avSent.renamed = {}
        BY <1>t DEF AvNaming
      <3> QED
        BY <1>0, <1>10, <1>11, <3>1, <3>2, <3>3, <3>4 DEF AvNaming
    <2> QED
      BY <2>1, <2>2
  <1> QED
    BY <1>12, <1>14, <1>15, <1>16, <1>17, <1>18 DEF AvInv

LEMMA AvDeliverKeeps == ASSUME AvInv, AvDeliver PROVE AvInv'
  <1>t. AvTyped /\ AvOrder /\ AvTold /\ AvEnded /\ AvLateTwo /\ AvNaming /\ avLoop \in AvLoops /\ avSent \in AvSents
    BY DEF AvInv, AvTyped
  <1>0. avLoop.hand # AvNothing /\ avLoop' = [avLoop EXCEPT !.hand = AvNothing]
        /\ UNCHANGED <<avReq, avLegs, avWire, avQueue, avStop, avChan, avDrops, avLost>>
    BY DEF AvDeliver
  <1>1. PICK p \in AvHands : p = avLoop.hand /\ p.event \in AvKinds /\ p.chan \in AvChannels
                             /\ p.req \in AvRequests \cup {AvNoRequest}
    BY <1>t, <1>0 DEF AvLoops, AvHands
  <1>2. PICK c \in AvChannels, i \in AvLegs : c = p.chan /\ i = c.leg
    BY <1>1, AvNames
  <1>3. avLoop' \in AvLoops /\ avLoop'.hand = AvNothing
    BY <1>t, <1>0 DEF AvLoops, AvHands
  <1>4. avSent.ended \in [AvLegs -> Nat] /\ avSent.late \in SUBSET AvLegs /\ avSent.named \in SUBSET AvRequests
    BY <1>t DEF AvSents
  <1>n. avSent.ended[i] \in Nat
    BY <1>4
  <1>a. PICK n \in Nat : n = IF p.event = "hangup" THEN avSent.ended[i] + 1 ELSE avSent.ended[i]
    BY <1>n
  <1>b. PICK en \in [AvLegs -> Nat] : en = [avSent.ended EXCEPT ![i] = n]
    BY <1>4
  <1>c. PICK lt \in SUBSET AvLegs : lt = IF avSent.ended[i] > 0 THEN avSent.late \cup {i} ELSE avSent.late
    BY <1>4
  <1>d. PICK nm \in SUBSET AvRequests : nm = avSent.named \cup ({p.req} \ {AvNoRequest})
    BY <1>1, <1>4
  <1>e. {p.req} \cap avSent.named = {} /\ avSent.renamed = {}
    BY <1>t, <1>1, <1>4, AvNames DEF AvNaming
  <1>5. avSent' = [avSent EXCEPT !.ended = en, !.late = lt, !.named = nm, !.renamed = {}]
    <2>1. avSent' = [avSent EXCEPT
                !.ended[i] = IF p.event = "hangup" THEN @ + 1 ELSE @,
                !.late = IF avSent.ended[i] > 0 THEN @ \cup {i} ELSE @,
                !.named = @ \cup ({p.req} \ {AvNoRequest}),
                !.renamed = @ \cup ({p.req} \cap avSent.named)]
      BY <1>1, <1>2 DEF AvDeliver
    <2> QED
      BY <1>t, <1>a, <1>b, <1>c, <1>d, <1>e, <2>1 DEF AvSents
  <1>6. avSent' \in AvSents /\ avSent'.ended = en /\ avSent'.late = lt /\ avSent'.named = nm /\ avSent'.renamed = {}
    BY <1>t, <1>5 DEF AvSents
  <1>7. AvTyped'
    BY <1>t, <1>0, <1>3, <1>6 DEF AvTyped
  <1>8. AvOrder'
    BY <1>t, <1>0, <1>3, AvNames DEF AvOrder
  <1>9. AvFlight' \subseteq AvFlight \cup {AvNothing} /\ p \in AvFlight
    BY <1>0, <1>1, <1>3 DEF AvFlight
  <1>10. AvTold'
    BY <1>t, <1>0, <1>9, AvNames DEF AvTold, AvKinds
  <1>11. \A d \in AvChannels : AvSilent(d) => AvSilent(d)'
    BY <1>0, <1>9, AvNames DEF AvSilent, AvTells
  <1>12. AvEnded'
    <2> SUFFICES ASSUME NEW j \in AvLegs, en[j] > 0 PROVE \E d \in AvChannels : d.leg = j /\ AvSilent(d)'
      BY <1>6 DEF AvEnded
    <2>1. CASE avSent.ended[j] > 0
      BY <1>t, <1>11, <2>1 DEF AvEnded
    <2>2. CASE ~(avSent.ended[j] > 0)
      <3>1. j = i /\ p.event = "hangup"
        BY <1>4, <1>a, <1>b, <2>2
      <3>2. avChan[c] = "down"
        BY <1>t, <1>2, <1>9, <3>1 DEF AvTold
      <3>3. \A x \in AvElements(avWire) \cup AvElements(avQueue) : ~AvTells(x, c)
        BY <1>t, <1>1, <1>2, <3>1 DEF AvOrder
      <3>4. AvSilent(c)'
        BY <1>0, <1>3, <3>2, <3>3, AvNames DEF AvSilent, AvFlight, AvTells
      <3> QED
        BY <1>2, <3>1, <3>4
    <2> QED
      BY <2>1, <2>2
  <1>13. AvLateTwo'
    <2>1. ASSUME avSent.ended[i] > 0 PROVE \E d, e \in AvOriginated(i) : d # e
      <3>1. PICK d \in AvChannels : d.leg = i /\ AvSilent(d)
        BY <1>t, <2>1 DEF AvEnded
      <3>2. d # c /\ avChan[d] = "down" /\ avChan[c] # "none"
        BY <1>t, <1>1, <1>2, <1>9, <3>1 DEF AvSilent, AvTells, AvTold
      <3>3. d \in AvOriginated(i) /\ c \in AvOriginated(i)
        BY <1>2, <3>1, <3>2 DEF AvOriginated
      <3> QED
        BY <3>2, <3>3
    <2>2. \A j \in lt : \E d, e \in AvOriginated(j) : d # e
      BY <1>t, <1>c, <2>1 DEF AvLateTwo
    <2> QED
      BY <1>0, <1>6, <2>2 DEF AvLateTwo, AvOriginated
  <1>14. AvFresh'
    BY <1>0, AvFreshSame
  <1>15. AvDown' /\ AvBound' /\ AvOwn'
    <2>1. AvPending' = AvPending
      BY <1>0 DEF AvPending
    <2> QED
      BY <1>0, <2>1, AvLosses
  <1>16. AvNaming'
    <2>1. \A j \in AvLegs : \A r \in avLegs.staged[j] : r.leg = j /\ avReq[r].at # "idle" /\ r \notin nm /\ r # AvNoRequest
      <3>1. avLegs.staged \in [AvLegs -> SUBSET AvRequests]
        BY <1>t DEF AvTyped, AvLegRecs
      <3> QED
        BY <1>t, <1>1, <1>d, <3>1, AvNames DEF AvNaming
    <2>2. \A r \in nm : avReq[r].at # "idle"
      BY <1>t, <1>1, <1>d DEF AvNaming
    <2> QED
      BY <1>0, <1>3, <1>6, <2>1, <2>2, AvNames DEF AvNaming
  <1> QED
    BY <1>7, <1>8, <1>10, <1>12, <1>13, <1>14, <1>15, <1>16 DEF AvInv

LEMMA AvDeliverStopsKeeps == ASSUME AvInv, AvDeliverStops PROVE AvInv'
  <1>t. AvTyped /\ AvOrder /\ avLoop \in AvLoops
    BY DEF AvInv, AvTyped
  <1>0. /\ avLoop' = [avLoop EXCEPT !.at = "ended"] /\ avQueue' = <<>>
        /\ avLost' = avLost \cup AvMissed(AvElements(avQueue))
        /\ UNCHANGED <<avReq, avLegs, avWire, avStop, avChan, avDrops, avSent>>
    BY DEF AvDeliverStops
  <1>1. AvElements(avQueue') = {} /\ AvOrdered(avQueue') /\ avQueue' \in Seq(AvEvents)
    BY <1>0, AvNonePending
  <1>2. avLoop' \in AvLoops /\ avLoop'.hand = avLoop.hand
    BY <1>t, <1>0 DEF AvLoops
  <1>3. AvTyped'
    BY <1>t, <1>0, <1>1, <1>2 DEF AvTyped
  <1>4. AvOrder'
    BY <1>t, <1>0, <1>1, <1>2 DEF AvOrder
  <1>5. AvTold' /\ AvEnded'
    <2>1. AvFlight' \subseteq AvFlight
      BY <1>0, <1>1, <1>2 DEF AvFlight
    <2> QED
      BY <1>0, <1>3, <2>1, AvFlightMoves
  <1>6. AvLateTwo' /\ AvFresh'
    BY <1>0, AvLateSame, AvFreshSame
  <1>7. AvDown' /\ AvBound' /\ AvOwn'
    <2>1. \A p \in avLost \cup AvPending : \/ p \in (avLost \cup AvPending)' \/ p.event \notin {"hangup", "newchannel"}
                                          \/ (p.event = "newchannel" /\ p.chan \in avLegs.byChan)
      BY <1>0, <1>1 DEF AvPending, AvMissed
    <2> QED
      BY <1>0, <2>1, AvLosses
  <1>8. AvNaming'
    BY <1>0, <1>2, <1>3, AvNamingSame
  <1> QED
    BY <1>3, <1>4, <1>5, <1>6, <1>7, <1>8 DEF AvInv

LEMMA AvIdleStep ==
    ASSUME AvInv, UNCHANGED <<avReq, avLegs, avWire, avQueue, avLoop, avChan, avDrops, avSent, avLost>>
    PROVE  AvInv'
  <1>1. AvTyped'
    BY DEF AvInv, AvTyped
  <1>2. AvOrder' /\ AvTold' /\ AvEnded' /\ AvLateTwo'
    BY <1>1, AvFlightSame
  <1>3. AvFresh'
    BY AvFreshSame
  <1>4. AvDown' /\ AvBound' /\ AvOwn'
    <2>1. AvPending' = AvPending
      BY DEF AvPending
    <2> QED
      BY <2>1, AvLosses
  <1>5. AvNaming'
    BY DEF AvInv, AvNaming
  <1> QED
    BY <1>1, <1>2, <1>3, <1>4, <1>5 DEF AvInv

(* The PBX. *)
\* Packets w on the wire after the replies, if any, of a step.
LEMMA AvRepliesSent ==
    ASSUME AvInv, NEW a \in AvReplies
    PROVE  /\ Append(avWire, a) \in Seq(AvPackets) /\ AvOrdered(Append(avWire, a))
           /\ AvElements(Append(avWire, a)) = AvElements(avWire) \cup {a}
  <1>1. avWire \in Seq(AvPackets) /\ AvOrdered(avWire) /\ a \in AvPackets
    BY AvPacketKinds DEF AvInv, AvTyped, AvOrder
  <1>2. \A y : ~AvTells(a, y)
    BY AvPacketKinds DEF AvTells
  <1> QED
    BY <1>1, <1>2, AvPut

\* Something happens to a channel that is not down, and the PBX tells it.
LEMMA AvTellStep ==
    ASSUME AvInv, NEW c \in AvChannels, avChan[c] # "down", NEW s \in {"new", "ringing", "up", "down"},
           avChan' = [avChan EXCEPT ![c] = s],
           NEW w \in Seq(AvPackets), AvOrdered(w), AvElements(avWire) \subseteq AvElements(w),
           \A x \in AvElements(w) : x \in AvElements(avWire) \/ x \in AvReplies,
           NEW e \in AvEvents, e.chan = c, e.event = "hangup" <=> s = "down", avWire' = Append(w, e),
           avChan[c] = "none" => e.event = "newchannel",
           UNCHANGED <<avLegs, avQueue, avLoop, avDrops, avSent, avLost>>,
           avReq' \in [AvRequests -> AvReqRecs], \A r \in AvRequests : avReq'[r].at = avReq[r].at, AvFresh'
    PROVE  AvInv'
  <1>t. AvTyped /\ AvOrder /\ AvTold /\ AvEnded /\ avWire \in Seq(AvPackets) /\ avQueue \in Seq(AvEvents)
    BY DEF AvInv, AvTyped
  <1>1. /\ avChan' \in [AvChannels -> {"none", "new", "ringing", "up", "down"}] /\ avChan'[c] = s
        /\ \A d \in AvChannels \ {c} : avChan'[d] = avChan[d]
    BY <1>t DEF AvTyped
  <1>2. \A x \in AvFlight : x.event = "hangup" => x.chan # c
    BY <1>t DEF AvTold
  <1>3. \A x \in AvReplies : x.event \notin AvKinds /\ x.event # "hangup"
    BY AvPacketKinds
  <1>4. /\ avWire' \in Seq(AvPackets) /\ AvElements(avWire') = AvElements(w) \cup {e} /\ AvOrdered(avWire')
    <2>1. \A y \in AvElements(w) : y.event = "hangup" => ~AvTells(e, y.chan)
      BY <1>2, <1>3 DEF AvTells, AvFlight
    <2> QED
      BY <2>1, AvPut, AvPacketKinds
  <1>5. \A x \in AvElements(avWire') : x \in AvElements(avWire) \/ x \in AvReplies \/ x = e
    BY <1>4
  <1>6. AvTyped'
    BY <1>t, <1>1, <1>4 DEF AvTyped
  <1>7. AvOrder'
    <2>1. \A p \in AvElements(avQueue), x \in AvElements(avWire') : p.event = "hangup" => ~AvTells(x, p.chan)
      BY <1>t, <1>2, <1>3, <1>5 DEF AvOrder, AvTells, AvFlight
    <2>2. \A x \in AvElements(avWire') \cup AvElements(avQueue) :
            avLoop.hand.event = "hangup" => ~AvTells(x, avLoop.hand.chan)
      BY <1>t, <1>2, <1>3, <1>5 DEF AvOrder, AvTells, AvFlight
    <2> QED
      BY <1>t, <1>4, <2>1, <2>2 DEF AvOrder
  <1>8. \A x \in AvFlight' : x \in AvFlight \/ x \in AvReplies \/ x = e
    BY <1>5 DEF AvFlight
  <1>9. \A x \in AvFlight : x.event \in AvKinds => x.chan \in AvChannels
    <2>1. AvElements(avWire) \subseteq AvPackets /\ AvElements(avQueue) \subseteq AvEvents
      BY <1>t, AvElementsTyped
    <2>2. avLoop.hand \in AvHands
      BY <1>t DEF AvTyped, AvLoops
    <2>3. avLoop.hand.event \in AvKinds => avLoop.hand.chan \in AvChannels
      BY <2>2, AvNames DEF AvHands
    <2> QED
      BY <2>1, <2>3, AvPacketKinds DEF AvFlight
  <1>10. AvTold'
    <2> SUFFICES ASSUME NEW x \in AvFlight'
                 PROVE  /\ x.event \in AvKinds => avChan'[x.chan] # "none"
                        /\ x.event = "hangup" => avChan'[x.chan] = "down"
      BY DEF AvTold
    <2>1. CASE x \in AvFlight
      BY <1>t, <1>1, <1>2, <1>9, <2>1 DEF AvTold, AvKinds
    <2>2. CASE x \in AvReplies
      BY <1>3, <2>2
    <2>3. CASE x = e
      BY <1>1, <2>3
    <2> QED
      BY <1>8, <2>1, <2>2, <2>3
  <1>11. AvEnded'
    <2>1. ASSUME NEW d \in AvChannels, AvSilent(d) PROVE AvSilent(d)'
      BY <1>1, <1>3, <1>8, <2>1 DEF AvSilent, AvTells
    <2> QED
      BY <1>t, <2>1 DEF AvEnded
  <1>12. AvLateTwo'
    BY <1>1, AvLateSame
  <1>13. AvDown' /\ AvBound' /\ AvOwn'
    <2>1. AvPending \subseteq AvPending' /\ e \in AvPending' /\ avLost' = avLost
      BY <1>4 DEF AvPending
    <2>2. \A k \in {"newchannel", "hangup"}, d \in AvChannels :
            /\ d \in AvNews(k, avLost \cup AvPending) => d \in AvNews(k, avLost \cup AvPending)'
            /\ d \in AvNews(k, avLost) => d \in AvNews(k, avLost)'
      BY <2>1 DEF AvNews
    <2>3. /\ s = "down" => c \in AvNews("hangup", avLost \cup AvPending)'
          /\ avChan[c] = "none" => c \in AvNews("newchannel", avLost \cup AvPending)'
      BY <2>1 DEF AvNews
    <2>4. AvDown' /\ AvBound'
      BY <1>1, <2>2, <2>3, AvDownSame
    <2> QED
      BY <2>4 DEF AvInv, AvOwn
  <1>14. AvNaming'
    BY <1>6, AvNamingSame
  <1> QED
    BY <1>6, <1>7, <1>10, <1>11, <1>12, <1>13, <1>14 DEF AvInv

\* A request whose action the PBX has run.
LEMMA AvRan ==
    ASSUME AvInv, NEW r \in AvRequests, avReq[r].wire, avReq' = [avReq EXCEPT ![r].wire = FALSE]
    PROVE  /\ avReq' \in [AvRequests -> AvReqRecs] /\ avReq'[r].wire = FALSE
           /\ \A q \in AvRequests : avReq'[q].at = avReq[q].at /\ (avReq'[q].wire => avReq[q].wire)
  <1> DEFINE t == [avReq[r] EXCEPT !.wire = FALSE]
  <1>0. avReq[r] \in AvReqRecs /\ AvTyped
    BY DEF AvInv, AvTyped
  <1>1. t \in AvReqRecs /\ t.at = avReq[r].at /\ t.wire = FALSE
    BY <1>0 DEF AvReqRecs
  <1>2. avReq' = [avReq EXCEPT ![r] = t]
    BY <1>0 DEF AvTyped
  <1> HIDE DEF t
  <1>3. /\ avReq' \in [AvRequests -> AvReqRecs] /\ avReq'[r] = t
        /\ \A q \in AvRequests \ {r} : avReq'[q] = avReq[q]
    BY <1>0, <1>1, <1>2, AvReqMoves
  <1> QED
    BY <1>1, <1>3

LEMMA AvPBXRepliesKeeps == ASSUME AvInv, NEW r \in AvRequests, AvPBXReplies(r) PROVE AvInv'
  <1>t. AvTyped /\ AvOrder /\ avWire \in Seq(AvPackets)
    BY DEF AvInv, AvTyped
  <1>0. avReq[r].wire /\ avReq' = [avReq EXCEPT ![r].wire = FALSE]
        /\ UNCHANGED <<avLegs, avQueue, avLoop, avStop, avChan, avDrops, avSent, avLost>>
    BY DEF AvPBXReplies
  <1>1. PICK a \in AvReplies : avWire' = Append(avWire, a)
    <2>1. PICK verdict \in {"refused", "ok"} : AvSends(<<AvReply(verdict, r)>>)
      BY DEF AvPBXReplies
    <2>2. AvReply(verdict, r) \in AvReplies
      BY DEF AvReply, AvPacket, AvReplies
    <2>3. PICK a \in AvReplies : a = AvReply(verdict, r)
      BY <2>2
    <2>4. avWire' = avWire \o <<a>>
      BY <2>1, <2>3 DEF AvSends
    <2> QED
      BY <1>t, <2>4, AvJoin, AvPacketKinds
  <1>2. /\ avWire' \in Seq(AvPackets) /\ AvOrdered(avWire')
        /\ AvElements(avWire') = AvElements(avWire) \cup {a}
    BY <1>1, AvRepliesSent
  <1>3. a.event \notin AvKinds /\ a.event # "hangup" /\ \A y : ~AvTells(a, y)
    BY AvPacketKinds DEF AvTells
  <1>4. /\ avReq' \in [AvRequests -> AvReqRecs]
        /\ \A q \in AvRequests : avReq'[q].at = avReq[q].at /\ (avReq'[q].wire => avReq[q].wire)
    BY <1>0, AvRan
  <1>5. AvTyped'
    BY <1>t, <1>0, <1>2, <1>4 DEF AvTyped
  <1>6. AvOrder'
    BY <1>t, <1>0, <1>2, <1>3 DEF AvOrder
  <1>7. AvTold' /\ AvEnded'
    <2>1. AvFlight' = AvFlight \cup {a}
      BY <1>0, <1>2 DEF AvFlight
    <2> QED
      BY <1>0, <1>3, <1>5, <2>1, AvFlightMoves
  <1>8. AvLateTwo'
    BY <1>0, AvLateSame
  <1>9. AvFresh'
    BY <1>0, <1>4 DEF AvInv, AvFresh
  <1>10. AvDown' /\ AvBound' /\ AvOwn'
    <2>1. AvPending \subseteq AvPending'
      BY <1>0, <1>2 DEF AvPending
    <2> QED
      BY <1>0, <2>1, AvLosses
  <1>11. AvNaming'
    BY <1>0, <1>4, <1>5, AvNamingSame
  <1> QED
    BY <1>5, <1>6, <1>7, <1>8, <1>9, <1>10, <1>11 DEF AvInv

\* Freshness, when something happens to a channel that is there.
LEMMA AvFreshTold ==
    ASSUME AvInv, NEW c \in AvChannels, avChan[c] # "none", NEW s \in {"new", "ringing", "up", "down"},
           avChan' = [avChan EXCEPT ![c] = s], avDrops' = avDrops,
           \A q \in AvRequests : avReq'[q].at = avReq[q].at /\ (avReq'[q].wire => avReq[q].wire)
    PROVE  AvFresh'
  <1>1. \A d \in AvChannels : avChan'[d] = "none" <=> avChan[d] = "none"
    BY DEF AvInv, AvTyped
  <1> QED
    BY <1>1 DEF AvInv, AvFresh

LEMMA AvEventsTyped ==
    ASSUME NEW c \in AvChannels, NEW k \in AvKinds
    PROVE  AvEvent(k, c) \in AvEvents /\ AvEvent(k, c).chan = c /\ AvEvent(k, c).event = k
  BY DEF AvEvent, AvPacket, AvEvents

\* An action that tells of its channel after the reply.
LEMMA AvReplyAndTell ==
    ASSUME AvInv, NEW r \in AvRequests, NEW c \in AvChannels, NEW s \in {"new", "ringing", "up", "down"}, NEW k \in AvKinds,
           avReq[r].wire, avReq' = [avReq EXCEPT ![r].wire = FALSE],
           avChan[c] # "down", k = "hangup" <=> s = "down", avChan' = [avChan EXCEPT ![c] = s],
           avChan[c] = "none" => k = "newchannel",
           NEW a \in AvReplies, AvSends(<<a, AvEvent(k, c)>>), AvFresh',
           UNCHANGED <<avLegs, avQueue, avLoop, avDrops, avSent, avLost>>
    PROVE  AvInv'
  <1>1. PICK e \in AvEvents : e = AvEvent(k, c) /\ e.chan = c /\ e.event = k
    BY AvEventsTyped
  <1>2. PICK w \in Seq(AvPackets) : w = Append(avWire, a) /\ AvOrdered(w) /\ AvElements(w) = AvElements(avWire) \cup {a}
    BY AvRepliesSent
  <1>3. avWire' = Append(w, e)
    <2>1. avWire \in Seq(AvPackets) /\ a \in AvPackets /\ e \in AvPackets
      BY AvPacketKinds DEF AvInv, AvTyped
    <2>2. avWire' = avWire \o <<a, e>>
      BY <1>1 DEF AvSends
    <2> QED
      BY <1>2, <2>1, <2>2, AvJoin
  <1>4. /\ avReq' \in [AvRequests -> AvReqRecs] /\ \A q \in AvRequests : avReq'[q].at = avReq[q].at
    BY AvRan
  <1>5. AvElements(avWire) \subseteq AvElements(w) /\ \A x \in AvElements(w) : x \in AvElements(avWire) \/ x \in AvReplies
    BY <1>2
  <1>6. e.event = "hangup" <=> s = "down"
    BY <1>1
  <1> QED
    BY <1>1, <1>2, <1>3, <1>4, <1>5, <1>6, AvTellStep

LEMMA AvPBXOriginatesKeeps == ASSUME AvInv, NEW r \in AvRequests, AvPBXOriginates(r) PROVE AvInv'
  <1>t. AvTyped /\ AvFresh /\ avDrops \in 0 .. AvMaxDrops /\ avChan \in [AvChannels -> {"none", "new", "ringing", "up", "down"}]
    BY DEF AvInv, AvTyped
  <1>1. PICK c \in AvChannels : c = [leg |-> r.leg, run |-> avDrops] /\ c.leg = r.leg /\ c.run = avDrops
    <2>1. PICK i \in AvLegs : i = r.leg
      BY AvNames
    <2>2. PICK n \in 0 .. AvMaxDrops : n = avDrops
      BY <1>t
    <2> DEFINE d == [leg |-> i, run |-> n]
    <2>3. d \in AvChannels /\ d.leg = i /\ d.run = n
      BY DEF AvChannels
    <2> QED
      BY <2>1, <2>2, <2>3
  <1>2. /\ r.op = "place" /\ avReq[r].wire /\ avReq' = [avReq EXCEPT ![r].wire = FALSE]
        /\ avChan' = [avChan EXCEPT ![c] = "new"]
        /\ UNCHANGED <<avLegs, avQueue, avLoop, avStop, avDrops, avSent, avLost>>
    BY <1>1 DEF AvPBXOriginates
  <1>3. PICK a \in AvReplies : AvSends(<<a, AvEvent("newchannel", c)>>)
    <2>1. AvReply("ok", r) \in AvReplies /\ AvPacket("ok", c, r) \in AvReplies
      BY <1>1 DEF AvReply, AvPacket, AvReplies
    <2> QED
      BY <1>1, <2>1 DEF AvPBXOriginates
  <1>4. avChan[c] = "none"
    BY <1>t, <1>1, <1>2 DEF AvFresh
  <1>5. /\ avChan'[c] = "new" /\ \A d \in AvChannels \ {c} : avChan'[d] = avChan[d]
    BY <1>t, <1>2
  <1>6. avReq'[r].wire = FALSE /\ \A q \in AvRequests : avReq'[q].at = avReq[q].at /\ (avReq'[q].wire => avReq[q].wire)
    BY <1>2, AvRan
  <1>7. AvFresh'
    <2>1. \A d \in AvChannels : avChan'[d] # "none" => d.run <= avDrops
      BY <1>t, <1>1, <1>5 DEF AvFresh
    <2>2. \A q \in AvRequests : avReq'[q].at = "idle" => ~avReq'[q].wire
      BY <1>t, <1>6 DEF AvFresh
    <2>3. ASSUME NEW q \in AvRequests, NEW d \in AvChannels, q.op = "place", d.leg = q.leg,
                 avReq'[q].at = "idle" \/ (avReq'[q].wire /\ d.run = avDrops)
          PROVE  avChan'[d] = "none"
      <3>1. q # r
        BY <1>t, <1>2, <1>6, <2>3 DEF AvFresh
      <3>2. d # c
        BY <1>1, <1>2, <2>3, <3>1, AmiVoiceAssumption
      <3> QED
        BY <1>t, <1>5, <1>6, <2>3, <3>2 DEF AvFresh
    <2> QED
      BY <1>2, <2>1, <2>2, <2>3 DEF AvFresh
  <1>8. avChan[c] # "down" /\ "newchannel" \in AvKinds
    BY <1>4 DEF AvKinds
  <1> QED
    BY <1>2, <1>3, <1>7, <1>8, AvReplyAndTell

LEMMA AvPBXActionKeeps ==
    ASSUME AvInv, NEW r \in AvRequests, NEW c \in AvChannels, AvPBXRedirects(r, c) \/ AvPBXRunsHangup(r, c)
    PROVE  AvInv'
  <1>1. PICK k \in {"ringing", "hangup"}, s \in {"ringing", "down"} :
            /\ k = "hangup" <=> s = "down"
            /\ avReq[r].wire /\ avReq' = [avReq EXCEPT ![r].wire = FALSE]
            /\ avChan[c] \notin {"none", "down"} /\ avChan' = [avChan EXCEPT ![c] = s]
            /\ AvSends(<<AvReply("ok", r), AvEvent(k, c)>>)
            /\ UNCHANGED <<avLegs, avQueue, avLoop, avStop, avDrops, avSent, avLost>>
    <2>1. CASE AvPBXRedirects(r, c)
      BY <2>1 DEF AvPBXRedirects
    <2>2. CASE AvPBXRunsHangup(r, c)
      BY <2>2 DEF AvPBXRunsHangup, AvAlive
    <2> QED
      BY <2>1, <2>2
  <1>2. PICK a \in AvReplies : a = AvReply("ok", r)
    BY DEF AvReply, AvPacket, AvReplies
  <1>3. AvSends(<<a, AvEvent(k, c)>>)
    BY <1>1, <1>2
  <1>4. \A q \in AvRequests : avReq'[q].at = avReq[q].at /\ (avReq'[q].wire => avReq[q].wire)
    BY <1>1, AvRan
  <1>5. AvFresh'
    BY <1>1, <1>4, AvFreshTold
  <1>6. k \in AvKinds
    BY DEF AvKinds
  <1> QED
    BY <1>1, <1>3, <1>5, <1>6, AvReplyAndTell

LEMMA AvPBXEventKeeps == ASSUME AvInv, NEW c \in AvChannels, AvPBXProgress(c) \/ AvPBXHangsUp(c) PROVE AvInv'
  <1>t. AvTyped /\ AvOrder /\ avWire \in Seq(AvPackets) /\ avReq \in [AvRequests -> AvReqRecs]
    BY DEF AvInv, AvTyped
  <1>1. PICK s \in {"ringing", "up", "down"}, k \in AvKinds :
            /\ k = s \/ (k = "hangup" /\ s = "down")
            /\ avChan[c] \notin {"none", "down"} /\ avChan' = [avChan EXCEPT ![c] = s]
            /\ AvSends(<<AvEvent(k, c)>>)
    <2>1. CASE AvPBXHangsUp(c)
      BY <2>1 DEF AvPBXHangsUp, AvAlive, AvKinds
    <2>2. CASE AvPBXProgress(c)
      <3>1. PICK s \in {"ringing", "up"} : s = IF avChan[c] = "new" THEN "ringing" ELSE "up"
        OBVIOUS
      <3>2. avChan[c] \in {"new", "ringing"} /\ avChan' = [avChan EXCEPT ![c] = s] /\ AvSends(<<AvEvent(avChan'[c], c)>>)
        BY <2>2, <3>1 DEF AvPBXProgress
      <3>3. avChan'[c] = s
        BY <1>t, <3>2 DEF AvTyped
      <3> QED
        BY <3>2, <3>3 DEF AvKinds
    <2> QED
      BY <2>1, <2>2
  <1>2. UNCHANGED <<avReq, avLegs, avQueue, avLoop, avStop, avDrops, avSent, avLost>>
    BY DEF AvPBXProgress, AvPBXHangsUp
  <1>3. AvFresh'
    BY <1>1, <1>2, AvFreshTold
  <1>4. PICK e \in AvEvents : e = AvEvent(k, c) /\ e.chan = c /\ e.event = k
    BY AvEventsTyped
  <1>5. avWire' = Append(avWire, e)
    BY <1>t, <1>1, <1>4, AvJoin, AvPacketKinds DEF AvSends
  <1>6. (e.event = "hangup" <=> s = "down") /\ AvOrdered(avWire)
    BY <1>t, <1>1, <1>4 DEF AvKinds, AvOrder
  <1> QED
    BY <1>t, <1>1, <1>2, <1>3, <1>4, <1>5, <1>6, AvTellStep

LEMMA AvInitOK == AvInit => AvInv
  <1> SUFFICES ASSUME AvInit PROVE AvInv
    OBVIOUS
  <1>1. AvTyped
    <2>1. avReq \in [AvRequests -> AvReqRecs]
      BY DEF AvInit, AvReqRecs
    <2>2. avLegs \in AvLegRecs
      BY DEF AvInit, AvLegRecs
    <2>3. avLoop \in AvLoops
      BY DEF AvInit, AvLoops, AvHands
    <2>4. avSent \in AvSents
      BY DEF AvInit, AvSents
    <2>5. avDrops \in 0 .. AvMaxDrops /\ avWire \in Seq(AvPackets) /\ avQueue \in Seq(AvEvents)
          /\ avChan \in [AvChannels -> {"none", "new", "ringing", "up", "down"}]
      BY AmiVoiceAssumption DEF AvInit
    <2> QED
      BY <2>1, <2>2, <2>3, <2>4, <2>5 DEF AvTyped
  <1>2. AvElements(avWire) = {} /\ AvElements(avQueue) = {} /\ AvOrdered(avWire) /\ AvOrdered(avQueue)
        /\ avLoop.hand = AvNothing
    BY AvNonePending DEF AvInit
  <1>3. AvOrder /\ AvTold
    BY <1>2, AvNames DEF AvOrder, AvTold, AvFlight, AvKinds
  <1>4. AvEnded /\ AvLateTwo
    BY DEF AvInit, AvEnded, AvLateTwo
  <1>5. AvFresh
    BY DEF AvInit, AvFresh
  <1>6. AvDown /\ AvBound /\ AvOwn
    BY DEF AvInit, AvDown, AvBound, AvOwn
  <1>7. AvNaming
    BY <1>2, AvNames DEF AvInit, AvNaming
  <1> QED
    BY <1>1, <1>3, <1>4, <1>5, <1>6, <1>7 DEF AvInv

LEMMA AvTwoChannels ==
    ASSUME NEW i, NEW c \in AvOriginated(i), NEW d \in AvOriginated(i), c # d
    PROVE  Cardinality(AvOriginated(i)) > 1
  <1> DEFINE T == {[leg |-> i, run |-> n] : n \in 0 .. AvMaxDrops}
             f == [n \in 0 .. AvMaxDrops |-> [leg |-> i, run |-> n]]
  <1>1. f \in Surjection(0 .. AvMaxDrops, T)
    BY DEF Surjection
  <1>2. IsFiniteSet(0 .. AvMaxDrops)
    BY AmiVoiceAssumption, FS_Interval
  <1>3. IsFiniteSet(T)
    BY <1>1, <1>2, FS_Surjection
  <1>4. AvOriginated(i) \subseteq T
    BY DEF AvOriginated, AvChannels
  <1> HIDE DEF T, f
  <1>5. IsFiniteSet(AvOriginated(i))
    BY <1>3, <1>4, FS_Subset
  <1>6. IsFiniteSet({c, d}) /\ Cardinality({c, d}) = 2
    <2>1. IsFiniteSet({c}) /\ Cardinality({c}) = 1
      BY FS_Singleton
    <2>2. {c} \cup {d} = {c, d}
      OBVIOUS
    <2> QED
      BY <2>1, <2>2, FS_AddElement
  <1>7. {c, d} \subseteq AvOriginated(i)
    OBVIOUS
  <1>8. Cardinality({c, d}) <= Cardinality(AvOriginated(i)) /\ Cardinality(AvOriginated(i)) \in Nat
    BY <1>5, <1>7, FS_Subset, FS_CardinalityType
  <1> QED
    BY <1>6, <1>8

LEMMA AvInvSuffices == AvInv => AvLegLife
  <1> SUFFICES ASSUME AvInv PROVE AvLegLife
    OBVIOUS
  <1>1. AvEndIsFinal
    BY AvTwoChannels DEF AvInv, AvLateTwo, AvEndIsFinal
  <1>2. AvLegRetired
    <2> SUFFICES ASSUME NEW i \in avLegs.tracked, AvOriginated(i) # {}, \A c \in AvOriginated(i) : ~AvAlive(c)
                 PROVE  \/ AvOriginated(i) \cap AvNews("hangup", avLost \cup AvPending) # {}
                        \/ AvOriginated(i) \subseteq AvNews("newchannel", avLost)
      BY DEF AvLegRetired
    <2>1. \A c \in AvOriginated(i) : c \in AvChannels /\ c.leg = i /\ avChan[c] = "down"
      BY DEF AvOriginated, AvAlive, AvInv, AvTyped
    <2>2. \A c \in AvOriginated(i) : c \in AvNews("hangup", avLost \cup AvPending) \cup AvNews("newchannel", avLost)
      BY <2>1 DEF AvInv, AvDown
    <2> QED
      BY <2>2
  <1>3. AvTransferNamedOnce
    BY DEF AvInv, AvNaming, AvTransferNamedOnce
  <1> QED
    BY <1>1, <1>2, <1>3 DEF AvLegLife

\* The life of a leg: after its call.ended nothing more is told of it unless the
\* Originate ran twice, a leg that is over is forgotten unless its Hangup was
\* lost or none of its channels was ever bound to it, and a transfer is named
\* once: for any number of legs and requests, any interleaving of reader,
\* delivery and API, events with and without an ActionID, drops and Close.
THEOREM AvLegLives == AvSpec => []AvLegLife
  <1>1. AvInv /\ [AvNext]_avVars => AvInv'
    <2> SUFFICES ASSUME AvInv, [AvNext]_avVars PROVE AvInv'
      OBVIOUS
    <2>1. CASE AvNext
      <3>1. AvClose \/ AvCloseReturns => AvInv'
        BY AvIdleStep DEF AvClose, AvCloseReturns
      <3> QED
        BY <2>1, <3>1, AvPlaceCallKeeps, AvCommandKeeps, AvReturnsKeeps, AvPBXRepliesKeeps, AvPBXOriginatesKeeps,
           AvPBXActionKeeps, AvPBXEventKeeps, AvReadReplyKeeps, AvEnqueueKeeps, AvSessionDropsKeeps,
           AvProcessKeeps, AvDeliverKeeps, AvDeliverStopsKeeps DEF AvNext
    <2>2. CASE UNCHANGED avVars
      BY <2>2, AvIdleStep DEF avVars
    <2> QED
      BY <2>1, <2>2
  <1> QED
    BY <1>1, AvInitOK, AvInvSuffices, PTL DEF AvSpec

(***************************************************************************)
(* The voice plane.                                                        *)
(***************************************************************************)
\* Whichever provider Build constructs, its parts behave in the plane as they do
\* alone.
LEMMA VoicePlaneParts == VpSpec => AmiSpec /\ AvSpec /\ EslSpec /\ EvSpec /\ AtvSpec /\ TwvSpec
  <1>1. VpInit => AmiInit /\ AvInit /\ EslInit /\ EvInit /\ AtvInit /\ TwvInit
    BY DEF VpInit
  <1>2. [VpNext]_vpVars => [AmiNext]_amiVars
    BY DEF VpNext, vpVars
  <1>3. [VpNext]_vpVars => [AvNext]_avVars
    BY DEF VpNext, vpVars
  <1>4. [VpNext]_vpVars => [EslNext]_eslVars
    BY DEF VpNext, vpVars
  <1>5. [VpNext]_vpVars => [EvNext]_evVars
    BY DEF VpNext, vpVars
  <1>6. [VpNext]_vpVars => [AtvNext]_atvVars
    BY DEF VpNext, vpVars
  <1>7. [VpNext]_vpVars => [TwvNext]_twvVars
    BY DEF VpNext, vpVars
  <1> QED
    BY <1>1, <1>2, <1>3, <1>4, <1>5, <1>6, <1>7, PTL DEF VpSpec, AmiSpec, AvSpec, EslSpec, EvSpec,
       AtvSpec, TwvSpec

\* So the plane has every safety property of its providers.
THEOREM VoicePlaneSafe ==
    VpSpec =>
        /\ []AmiRepliesReach
        /\ []AvLegLife
        /\ []EslOwnReply
        /\ []EvLegLife
        /\ []AtvCommandsHonest
        /\ []TwvTruthful
        /\ AmiImplementsCommands
        /\ EslImplementsCommands
  BY VoicePlaneParts, AmiReplies, AvLegLives, EslReplyOwned, EvLegLives, AtvCommands, TwvReports,
     AmiRefinement, EslRefinement, PTL
=============================================================================
