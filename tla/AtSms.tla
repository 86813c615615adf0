------------------------------- MODULE AtSms --------------------------------
(***************************************************************************)
(* The Africa's Talking SMS adapter and its table of sends.                *)
(*                                                                         *)
(* Send reserves a slot for the interaction; whoever finds one waits for   *)
(* its owner, and sends itself if the owner failed.  The owner posts, with *)
(* retries, commits or releases the slot and emits message.sent.  Delivery *)
(* reports are resolved by the carrier's message id, which the commit      *)
(* indexes if the answer gave one.  The table is bounded: reserve evicts   *)
(* the oldest sends that are over.                                         *)
(*                                                                         *)
(* A request names its slot and its message: it reserves at most one slot  *)
(* and its last POST is the one whose message id it learns.  The carrier   *)
(* and the ingest port are external.                                       *)
(***************************************************************************)
EXTENDS Integers, Sequences, FiniteSets

CONSTANTS
    AtsRequests,   \* calls of Send, records [msg, n]: several may send one interaction
    AtsMaxRetries, \* MaxRetries
    AtsCap         \* sentTableCap

AtsMessages == {r.msg : r \in AtsRequests}

ASSUME AtSmsAssumption == IsFiniteSet(AtsRequests) /\ AtsMaxRetries \in Nat /\ AtsCap \in Nat \ {0}

VARIABLES
    atsReq,   \* per request: position, POSTs made, slot waited for, result
    atsTable, \* sendTable: slots (interaction -> {owner}), order, byMsg
    atsSlot,  \* per slot: none, open, accepted, released
    atsSms,   \* external: per interaction, messages taken, and answers that
              \* left the adapter unsure or were lost
    atsTold,  \* external: requests whose message the carrier reported on
    atsEvicted, \* history: accepted sends the table has evicted
    atsUnnamed  \* history: accepted sends the carrier gave no message id

atsVars == <<atsReq, atsTable, atsSlot, atsSms, atsTold, atsEvicted, atsUnnamed>>

AtsInit ==
    /\ atsReq = [r \in AtsRequests |-> [at |-> "idle", posts |-> 0, slot |-> {}, result |-> "none"]]
    /\ atsTable = [slots |-> [i \in AtsMessages |-> {}], order |-> <<>>, byMsg |-> {}]
    /\ atsSlot = [r \in AtsRequests |-> "none"]
    /\ atsSms = [i \in AtsMessages |-> [taken |-> 0, unsure |-> 0]]
    /\ atsTold = {}
    /\ atsEvicted = {}
    /\ atsUnnamed = {}

(***************************************************************************)
(* The table.                                                              *)
(***************************************************************************)
\* A bug: the oldest entries go, in flight or not.
AtsGoneAny(t) == {k \in DOMAIN t.order : k <= Len(t.order) - AtsCap}

\* evictLocked: the entries of order that go, oldest first, are those without
\* a slot or with one that is closed; as many as exceed the cap.
AtsGone(t) ==
    LET overflow == Len(t.order) - AtsCap
        over == {k \in DOMAIN t.order : \A s \in t.slots[t.order[k]] : atsSlot[s] \in {"accepted", "released"}}
    IN  {k \in over : Cardinality({j \in over : j < k}) < overflow}

AtsEvict(t) ==
    LET gone == AtsGone(t)
        ids == {i \in AtsMessages : \E k \in gone : t.order[k] = i}
        kept == SelectSeq([k \in DOMAIN t.order |-> k], LAMBDA k : k \notin gone)
    IN  [slots |-> [i \in AtsMessages |-> IF i \in ids THEN {} ELSE t.slots[i]],
         order |-> [j \in DOMAIN kept |-> t.order[kept[j]]],
         byMsg |-> t.byMsg \ UNION {t.slots[i] : i \in ids}]

\* release: a failed reservation goes, so that another may be made.
AtsRelease(r) == [atsTable EXCEPT !.slots[r.msg] = @ \ {r}]

(***************************************************************************)
(* Send.                                                                   *)
(***************************************************************************)
\* reserve finds no slot: this request owns the send.
AtsReserve(r) ==
    LET t == [atsTable EXCEPT !.slots[r.msg] = {r}, !.order = Append(@, r.msg)]
        lost == {s \in AtsRequests : atsSlot[s] = "accepted" /\ s \in t.slots[s.msg] \ AtsEvict(t).slots[s.msg]}
    IN  /\ atsReq[r].at = "idle" /\ atsTable.slots[r.msg] = {}
        /\ atsReq' = [atsReq EXCEPT ![r].at = "post"]
        /\ atsSlot' = [atsSlot EXCEPT ![r] = "open"]
        /\ atsTable' = AtsEvict(t)
        /\ atsEvicted' = atsEvicted \cup lost
        /\ UNCHANGED <<atsSms, atsTold, atsUnnamed>>

\* reserve finds one: the request waits for its owner.
AtsJoin(r) ==
    /\ atsReq[r].at = "idle" /\ atsTable.slots[r.msg] # {}
    /\ atsReq' = [atsReq EXCEPT ![r].at = "wait", ![r].slot = atsTable.slots[r.msg]]
    /\ UNCHANGED <<atsTable, atsSlot, atsSms, atsTold, atsEvicted, atsUnnamed>>

\* What a waiter does with a slot that is closed: the send was accepted, or it
\* failed and the waiter goes round again.
AtsAfterWait(state) == IF state = "accepted" THEN "done" ELSE "idle"

AtsWaited(r) ==
    \E s \in atsReq[r].slot :
        /\ atsReq[r].at = "wait" /\ atsSlot[s] \in {"accepted", "released"}
        /\ LET to == AtsAfterWait(atsSlot[s])
           IN  atsReq' = [atsReq EXCEPT ![r].at = to, ![r].slot = {},
                                        ![r].result = IF to = "done" THEN "ok" ELSE @]
        /\ UNCHANGED <<atsTable, atsSlot, atsSms, atsTold, atsEvicted, atsUnnamed>>

AtsWaitExpires(r) ==
    /\ atsReq[r].at = "wait"
    /\ atsReq' = [atsReq EXCEPT ![r].at = "done", ![r].slot = {}, ![r].result = "error"]
    /\ UNCHANGED <<atsTable, atsSlot, atsSms, atsTold, atsEvicted, atsUnnamed>>

\* post: 429, 5xx ("put off") and transport errors ("lost") are tried again,
\* whether or not the carrier took the message; "garbled" is a 2xx that cannot
\* be read, "refused" another status or a recipient that was not accepted.
AtsPost(r, takes, answer) ==
    LET again == answer \in {"put off", "lost"} /\ atsReq[r].posts < AtsMaxRetries
        to == CASE answer = "ok" -> "commit" [] again -> "post" [] OTHER -> "done"
    IN  /\ atsReq[r].at = "post"
        /\ answer \in {"ok", "garbled"} => takes
        /\ answer = "refused" => ~takes
        /\ atsSms' = [atsSms EXCEPT ![r.msg].taken = IF takes THEN @ + 1 ELSE @,
                                    ![r.msg].unsure = IF takes /\ answer # "ok" THEN @ + 1 ELSE @]
        /\ atsReq' = [atsReq EXCEPT ![r].posts = @ + 1, ![r].at = to,
                                    ![r].result = IF to = "done" THEN "error" ELSE @]
        /\ atsSlot' = IF to = "done" THEN [atsSlot EXCEPT ![r] = "released"] ELSE atsSlot
        /\ atsTable' = IF to = "done" THEN AtsRelease(r) ELSE atsTable
        /\ UNCHANGED <<atsTold, atsEvicted, atsUnnamed>>

\* The context ends during the backoff.
AtsCanceled(r) ==
    /\ atsReq[r].at = "post" /\ atsReq[r].posts > 0
    /\ atsReq' = [atsReq EXCEPT ![r].at = "done", ![r].result = "error"]
    /\ atsSlot' = [atsSlot EXCEPT ![r] = "released"]
    /\ atsTable' = AtsRelease(r)
    /\ UNCHANGED <<atsSms, atsTold, atsEvicted, atsUnnamed>>

\* commit: the slot is accepted and the message id, if there is one, indexed.
AtsCommit(r, named) ==
    /\ atsReq[r].at = "commit"
    /\ atsReq' = [atsReq EXCEPT ![r].at = "emit"]
    /\ atsSlot' = [atsSlot EXCEPT ![r] = "accepted"]
    /\ atsTable' = IF named THEN [atsTable EXCEPT !.byMsg = @ \cup {r}] ELSE atsTable
    /\ atsUnnamed' = IF named THEN atsUnnamed ELSE atsUnnamed \cup {r}
    /\ UNCHANGED <<atsSms, atsTold, atsEvicted>>

\* message.sent, and message.delivered if the network confirmed it inline, are
\* emitted with one retry; a failure is logged and the send is a success.
AtsEmit(r) ==
    /\ atsReq[r].at = "emit"
    /\ atsReq' = [atsReq EXCEPT ![r].at = "done", ![r].result = "ok"]
    /\ UNCHANGED <<atsTable, atsSlot, atsSms, atsTold, atsEvicted, atsUnnamed>>

\* TranslateDelivery of the report on r's message: an unknown id is not found
\* and the carrier tries again; otherwise the event is emitted.
AtsReport(r) ==
    /\ r \in atsTable.byMsg /\ r \notin atsTold
    /\ atsTold' = atsTold \cup {r}
    /\ UNCHANGED <<atsReq, atsTable, atsSlot, atsSms, atsEvicted, atsUnnamed>>

AtsAnswers == {"ok", "put off", "lost", "garbled", "refused"}

AtsNext ==
    \E r \in AtsRequests :
        \/ AtsReserve(r) \/ AtsJoin(r) \/ AtsWaited(r) \/ AtsWaitExpires(r)
        \/ \E takes \in BOOLEAN, answer \in AtsAnswers : AtsPost(r, takes, answer)
        \/ AtsCanceled(r) \/ (\E named \in BOOLEAN : AtsCommit(r, named)) \/ AtsEmit(r) \/ AtsReport(r)

AtsSpec == AtsInit /\ [][AtsNext]_atsVars

(***************************************************************************)
(* Properties.                                                             *)
(***************************************************************************)
\* Send succeeds only when the carrier has the message: a request that joined
\* another's send shares its outcome.
AtsSuccessMeansTaken ==
    \A r \in AtsRequests : atsReq[r].result = "ok" => atsSms[r.msg].taken > 0

\* A message is billed twice only if the carrier took it and its answer did
\* not say so, or the table had evicted a send that was over: neither
\* concurrent requests nor a table at its cap make the adapter forget a send
\* that is in flight and send again.
AtsRebillExplained ==
    \A i \in AtsMessages :
        atsSms[i].taken <= 1 + atsSms[i].unsure + Cardinality({s \in atsEvicted : s.msg = i})

\* The delivery report of an accepted message finds its send, unless that very
\* send was evicted or the carrier gave no message id: neither a failed send
\* of the same interaction nor one that took its place removes it.
AtsReportFound ==
    \A r \in AtsRequests :
        atsSlot[r] = "accepted" /\ r \notin atsTable.byMsg => r \in atsEvicted \cup atsUnnamed

\* Every send is accounted for: success means the carrier has it, a second
\* message has a cause, and a report finds its send.
AtsSendsAccounted == AtsSuccessMeansTaken /\ AtsRebillExplained /\ AtsReportFound
=============================================================================
