--------------------------- MODULE WorkflowEngine ---------------------------
(***************************************************************************)
(* The workflow engine: instances in the database, advanced by the Tick of *)
(* each worker.                                                            *)
(*                                                                         *)
(* Tick claims due instances in one autocommitted UPDATE that counts an    *)
(* attempt and leaves them due, then advances each: the step's message is  *)
(* queued, the next state is written in a transaction, and the function    *)
(* returns with the transaction not committed, so the deferred Rollback    *)
(* undoes it.  An error marks the instance failed, whatever it has become, *)
(* unless marking it fails too: that error is ignored.                     *)
(*                                                                         *)
(* Time is external: an instance that waits becomes due at some point.     *)
(***************************************************************************)
EXTENDS Integers, Sequences, FiniteSets

CONSTANTS
    WfeInstances, \* workflow instances, records [type, n]
    WfeWorkers,   \* worker processes that tick
    WfeMaxTicks   \* bound: ticks of one worker

WfeTypes == {"callback", "collections"}

ASSUME WorkflowEngineAssumption ==
    /\ IsFiniteSet(WfeInstances) /\ \A i \in WfeInstances : i.type \in WfeTypes
    /\ WfeMaxTicks \in Nat

VARIABLES
    wfeRow,    \* workflow_instances: status, current step, due
    wfeSteps,  \* workflow_steps: per instance, its rows in order, by step name
    wfeTick,   \* per worker: ticks made, instances claimed with the step read,
               \* and whether the first of them failed
    wfeSent,   \* external: per instance, the steps a message was queued for
    wfeHistory \* instances Cancel returned for, those a tick held then, and
               \* those an advance failed on

wfeVars == <<wfeRow, wfeSteps, wfeTick, wfeSent, wfeHistory>>

WfeInit ==
    /\ wfeRow = [i \in WfeInstances |-> [status |-> "none", step |-> "none", due |-> FALSE]]
    /\ wfeSteps = [i \in WfeInstances |-> <<>>]
    /\ wfeTick = [w \in WfeWorkers |-> [ticks |-> 0, batch |-> <<>>, failed |-> FALSE]]
    /\ wfeSent = [i \in WfeInstances |-> {}]
    /\ wfeHistory = [canceled |-> {}, held |-> {}, errored |-> {}]

(***************************************************************************)
(* StartCallback, StartCollections.                                        *)
(***************************************************************************)
\* A callback waits for its time; the first contact of a collections ladder
\* is due at once.
WfeFirst(type) == IF type = "callback" THEN "scheduled" ELSE "contacted"

\* start: the instance, its first step and the started event, committed.
WfeStart(i) ==
    /\ wfeRow[i].status = "none"
    /\ wfeRow' = [wfeRow EXCEPT ![i] = [status |-> "waiting_timer", step |-> WfeFirst(i.type),
                                        due |-> i.type = "collections"]]
    /\ wfeSteps' = [wfeSteps EXCEPT ![i] = <<WfeFirst(i.type)>>]
    /\ UNCHANGED <<wfeTick, wfeSent, wfeHistory>>

WfeTimer(i) ==
    /\ wfeRow[i].status \in {"running", "waiting_timer"} /\ ~wfeRow[i].due
    /\ wfeRow' = [wfeRow EXCEPT ![i].due = TRUE]
    /\ UNCHANGED <<wfeSteps, wfeTick, wfeSent, wfeHistory>>

(***************************************************************************)
(* Tick.                                                                   *)
(***************************************************************************)
WfeLive(i) == wfeRow[i].status \in {"running", "waiting_timer"}

\* A bug: the claim looks neither at the status nor at the time.
WfeClaimableAny(i) == wfeRow[i].status # "none"

WfeClaimable(i) == WfeLive(i) /\ wfeRow[i].due

\* The claim takes the due instances, but those another claim has locked; it
\* writes nothing that would keep them from being claimed again.
WfeClaim(w, claimed) ==
    /\ wfeTick[w].batch = <<>> /\ wfeTick[w].ticks < WfeMaxTicks
    /\ claimed # {} /\ \A i \in claimed : WfeClaimable(i)
    /\ \E batch \in [1 .. Cardinality(claimed) -> {[of |-> i, step |-> wfeRow[i].step] : i \in claimed}] :
        /\ {batch[k].of : k \in DOMAIN batch} = claimed
        /\ wfeTick' = [wfeTick EXCEPT ![w].ticks = @ + 1, ![w].batch = batch]
    /\ UNCHANGED <<wfeRow, wfeSteps, wfeSent, wfeHistory>>

\* The steps that queue a message.
WfeContacts(type, step) ==
    \/ type = "callback" /\ step = "scheduled"
    \/ type = "collections" /\ step \in {"contacted", "waited"}

\* advance: an error before the message, one after it, or none; in each case
\* the transaction is rolled back.
WfeAdvance(w, outcome) ==
    LET c == Head(wfeTick[w].batch)
        sends == WfeContacts(c.of.type, c.step) /\ outcome # "no transaction"
    IN  /\ wfeTick[w].batch # <<>> /\ ~wfeTick[w].failed
        /\ wfeSent' = IF sends THEN [wfeSent EXCEPT ![c.of] = @ \cup {c.step}] ELSE wfeSent
        /\ wfeTick' = [wfeTick EXCEPT ![w].failed = outcome # "ok",
                                      ![w].batch = IF outcome = "ok" THEN Tail(@) ELSE @]
        /\ wfeHistory' = IF outcome = "ok" THEN wfeHistory ELSE [wfeHistory EXCEPT !.errored = @ \cup {c.of}]
        /\ UNCHANGED <<wfeRow, wfeSteps>>

\* markFailed: by id, whatever the status.  Its error is ignored: the instance
\* stays as it was, and the tick goes on.
WfeMarkFailed(w, ok) ==
    LET i == Head(wfeTick[w].batch).of
    IN  /\ wfeTick[w].failed
        /\ wfeRow' = IF ok THEN [wfeRow EXCEPT ![i].status = "failed"] ELSE wfeRow
        /\ wfeTick' = [wfeTick EXCEPT ![w].failed = FALSE, ![w].batch = Tail(@)]
        /\ UNCHANGED <<wfeSteps, wfeSent, wfeHistory>>

(***************************************************************************)
(* Cancel.                                                                 *)
(***************************************************************************)
WfeHolds(w, i) == \E k \in DOMAIN wfeTick[w].batch : wfeTick[w].batch[k].of = i

WfeCancel(i) ==
    /\ WfeLive(i)
    /\ wfeRow' = [wfeRow EXCEPT ![i].status = "canceled", ![i].due = FALSE]
    /\ wfeHistory' = [wfeHistory EXCEPT !.canceled = @ \cup {i},
                                        !.held = IF \E w \in WfeWorkers : WfeHolds(w, i) THEN @ \cup {i} ELSE @]
    /\ UNCHANGED <<wfeSteps, wfeTick, wfeSent>>

WfeNext ==
    \/ \E i \in WfeInstances : WfeStart(i) \/ WfeTimer(i) \/ WfeCancel(i)
    \/ \E w \in WfeWorkers :
        \/ \E claimed \in SUBSET WfeInstances : WfeClaim(w, claimed)
        \/ \E outcome \in {"ok", "no transaction", "error"} : WfeAdvance(w, outcome)
        \/ \E ok \in BOOLEAN : WfeMarkFailed(w, ok)

WfeSpec == WfeInit /\ [][WfeNext]_wfeVars

(***************************************************************************)
(* Properties.                                                             *)
(***************************************************************************)
\* A workflow that was canceled stays canceled, unless a tick held it at that
\* moment: only then can markFailed overwrite it.
WfeCanceledUnlessHeld ==
    \A i \in wfeHistory.canceled \ wfeHistory.held : wfeRow[i].status = "canceled"

\* What the decision record says of the engine: every executed step is
\* recorded.  Once no tick holds an instance that no advance failed on, it has
\* a row for each step that sent a message, beside the row it started with
\* (advance records "contacted" or, in waitFor, the step just done).
WfeExecutedStepRecorded ==
    \A i \in WfeInstances :
        (\A w \in WfeWorkers : ~WfeHolds(w, i)) /\ i \notin wfeHistory.errored /\ wfeSent[i] # {}
            => Len(wfeSteps[i]) > Cardinality(wfeSent[i])
=============================================================================
