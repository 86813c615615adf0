--------------------------- MODULE TemporalDriver ---------------------------
(***************************************************************************)
(* The Temporal driver: start, cancel and the two workflows, with their    *)
(* audit row.                                                              *)
(*                                                                         *)
(* A workflow is a program of timers and activities.  Temporal repeats an  *)
(* activity that failed or was not heard of; the writes of the audit row   *)
(* compare the current step, so that a repeated one does nothing.  Cancel  *)
(* reads the row, cancels the execution and then seals the row.            *)
(*                                                                         *)
(* Instances do not interact: one is modelled, of either type.  Temporal   *)
(* is external: a call of it that fails may have been carried out, and an  *)
(* activity that was canceled, or timed out and was repeated, goes on and  *)
(* may take effect at any later time.                                      *)
(***************************************************************************)
EXTENDS Integers, Sequences, FiniteSets

CONSTANT TmpMaxAttempts \* MaximumAttempts of an activity

ASSUME TemporalDriverAssumption == TmpMaxAttempts \in Nat \ {0}

(***************************************************************************)
(* The workflows.                                                          *)
(***************************************************************************)
TmpTimer == [op |-> "timer"]
TmpQueue(channel) == [op |-> "queue", channel |-> channel]
TmpStep(from, done, to, status) == [op |-> "step", from |-> from, done |-> done, to |-> to, status |-> status]
TmpSeal(from) == [op |-> "complete", from |-> from, done |-> "closed", to |-> "closed", status |-> "completed"]

CallbackWorkflow ==
    <<TmpTimer, TmpQueue("sms"), TmpStep("scheduled", "contacted", "contacted", "running"), TmpSeal("contacted")>>

CollectionsWorkflow ==
    <<TmpQueue("sms"), TmpStep("contacted", "contacted", "waited", "waiting_timer"), TmpTimer,
      TmpQueue("whatsapp"), TmpStep("waited", "waited", "escalated", "waiting_timer"), TmpTimer,
      TmpStep("escalated", "task_created", "task_created", "running"), TmpSeal("task_created")>>

TmpProgram(type) == IF type = "callback" THEN CallbackWorkflow ELSE CollectionsWorkflow
TmpFirst(type) == IF type = "callback" THEN "scheduled" ELSE "contacted"

VARIABLES
    tmpStart,  \* Driver.start: the type, and its position
    tmpRow,    \* the audit row: status and current step
    tmpTrace,  \* workflow_steps, after the first
    tmpExec,   \* external: the execution: state, next instruction, attempts
    tmpFlying, \* external: the activities still at work though nobody waits
    tmpCancel, \* Driver.Cancel: idle, request, seal, sealed, done (refused)
    tmpSent    \* external: the channels a message was queued on

tmpVars == <<tmpStart, tmpRow, tmpTrace, tmpExec, tmpFlying, tmpCancel, tmpSent>>

TmpInit ==
    /\ tmpStart = [type |-> "none", at |-> "idle"]
    /\ tmpRow = [status |-> "none", step |-> "none"]
    /\ tmpTrace = <<>>
    /\ tmpExec = [state |-> "none", pc |-> 1, attempts |-> 0]
    /\ tmpFlying = {}
    /\ tmpCancel = "idle"
    /\ tmpSent = {}

TmpLive == tmpRow.status \in {"running", "waiting_timer"}

(***************************************************************************)
(* The store.                                                              *)
(***************************************************************************)
\* A bug: a step is recorded whatever the current one is.
TmpExpectedAlways(act) == TRUE

\* RecordStep and CompleteInstance: behind the comparison of the current step,
\* which is all they compare.
TmpExpected(act) == tmpRow.step = act.from

TmpRecord(act) ==
    IF TmpExpected(act)
    THEN /\ tmpRow' = [status |-> act.status, step |-> act.to]
         /\ tmpTrace' = Append(tmpTrace, act.done)
    ELSE UNCHANGED <<tmpRow, tmpTrace>>

\* MarkCanceled and MarkFailed: only a live row.
TmpMark(status) == tmpRow' = IF TmpLive THEN [tmpRow EXCEPT !.status = status] ELSE tmpRow

\* What an activity does.
TmpEffect(act) ==
    IF act.op = "queue" THEN tmpSent' = tmpSent \cup {act.channel} /\ UNCHANGED <<tmpRow, tmpTrace>>
                        ELSE TmpRecord(act) /\ UNCHANGED tmpSent

(***************************************************************************)
(* Driver.start.                                                           *)
(***************************************************************************)
TmpStartInstance(type) ==
    /\ tmpStart.at = "idle"
    /\ tmpStart' = [type |-> type, at |-> "execute"]
    /\ tmpRow' = [status |-> "waiting_timer", step |-> TmpFirst(type)]
    /\ UNCHANGED <<tmpTrace, tmpExec, tmpFlying, tmpCancel, tmpSent>>

TmpExecuteWorkflow(starts, ok) ==
    /\ tmpStart.at = "execute" /\ (ok => starts)
    /\ tmpStart' = [tmpStart EXCEPT !.at = IF ok THEN "done" ELSE "failed"]
    /\ tmpExec' = IF starts THEN [tmpExec EXCEPT !.state = "running"] ELSE tmpExec
    /\ UNCHANGED <<tmpRow, tmpTrace, tmpFlying, tmpCancel, tmpSent>>

TmpStartFailed ==
    /\ tmpStart.at = "failed"
    /\ tmpStart' = [tmpStart EXCEPT !.at = "done"]
    /\ TmpMark("failed")
    /\ UNCHANGED <<tmpTrace, tmpExec, tmpFlying, tmpCancel, tmpSent>>

(***************************************************************************)
(* The execution.                                                          *)
(***************************************************************************)
TmpNow == TmpProgram(tmpStart.type)[tmpExec.pc]

TmpAdvanced ==
    IF tmpExec.pc = Len(TmpProgram(tmpStart.type)) THEN [tmpExec EXCEPT !.state = "completed"]
    ELSE [tmpExec EXCEPT !.pc = @ + 1, !.attempts = 0]

\* A canceled execution whose activity succeeds first ends at the next one.
TmpSucceeded ==
    IF tmpExec.state = "canceling" /\ TmpAdvanced.state # "completed"
    THEN [TmpAdvanced EXCEPT !.state = "unwinding"] ELSE TmpAdvanced

TmpTimerFires ==
    /\ tmpExec.state = "running" /\ TmpNow.op = "timer"
    /\ tmpExec' = TmpAdvanced
    /\ UNCHANGED <<tmpStart, tmpRow, tmpTrace, tmpFlying, tmpCancel, tmpSent>>

\* An attempt of the current activity: it succeeds ("ok"), takes effect and is
\* not heard of ("lost"), fails ("error"), or times out while still at work
\* ("late"); after the last attempt "fail" gives the workflow up.
TmpActivity(outcome) ==
    LET act == TmpNow
        last == tmpExec.attempts + 1 = TmpMaxAttempts
    IN  /\ tmpExec.state = "running" \/ (tmpExec.state = "canceling" /\ outcome = "ok")
        /\ act.op # "timer"
        /\ IF outcome \in {"ok", "lost"} THEN TmpEffect(act) ELSE UNCHANGED <<tmpRow, tmpTrace, tmpSent>>
        /\ tmpFlying' = IF outcome = "late" THEN tmpFlying \cup {act} ELSE tmpFlying
        /\ tmpExec' = CASE outcome = "ok"          -> TmpSucceeded
                        [] outcome # "ok" /\ last  -> [tmpExec EXCEPT !.state = "failing"]
                        [] outcome # "ok" /\ ~last -> [tmpExec EXCEPT !.attempts = @ + 1]
        /\ UNCHANGED <<tmpStart, tmpCancel>>

\* fail: FailAuditActivity, best effort; a failing CompleteInstance has none.
TmpFail(runs) ==
    /\ tmpExec.state = "failing" /\ (TmpNow.op = "complete" => ~runs)
    /\ tmpExec' = [tmpExec EXCEPT !.state = "failed"]
    /\ IF runs THEN TmpMark("failed") ELSE UNCHANGED tmpRow
    /\ UNCHANGED <<tmpStart, tmpTrace, tmpFlying, tmpCancel, tmpSent>>

\* The execution learns that it is canceled.  In a timer it records that on a
\* disconnected context; an activity is left alone and may still be at work.
TmpCanceled(works) ==
    LET act == TmpNow
    IN  /\ tmpExec.state \in {"canceling", "unwinding"} /\ (works => tmpExec.state = "canceling")
        /\ tmpExec' = [tmpExec EXCEPT !.state = "canceled"]
        /\ IF act.op = "timer" THEN TmpMark("canceled") ELSE UNCHANGED tmpRow
        /\ tmpFlying' = IF works /\ act.op # "timer" THEN tmpFlying \cup {act} ELSE tmpFlying
        /\ UNCHANGED <<tmpStart, tmpTrace, tmpCancel, tmpSent>>

TmpLands(act) ==
    /\ TmpEffect(act)
    /\ tmpFlying' = tmpFlying \ {act}
    /\ UNCHANGED <<tmpStart, tmpExec, tmpCancel>>

(***************************************************************************)
(* Driver.Cancel.                                                          *)
(***************************************************************************)
TmpCancelRead ==
    /\ tmpCancel = "idle" /\ tmpRow.status # "none"
    /\ tmpCancel' = IF TmpLive THEN "request" ELSE "done"
    /\ UNCHANGED <<tmpStart, tmpRow, tmpTrace, tmpExec, tmpFlying, tmpSent>>

\* CancelWorkflow: an execution that does not run is not found.
TmpCancelRequest(ok) ==
    LET runs == tmpExec.state = "running"
    IN  /\ tmpCancel = "request" /\ (ok => runs)
        /\ tmpExec' = IF ok THEN [tmpExec EXCEPT !.state = "canceling"] ELSE tmpExec
        /\ tmpCancel' = IF ok THEN "seal" ELSE "done"
        /\ UNCHANGED <<tmpStart, tmpRow, tmpTrace, tmpFlying, tmpSent>>

TmpCancelSeal ==
    /\ tmpCancel = "seal"
    /\ TmpMark("canceled")
    /\ tmpCancel' = "sealed"
    /\ UNCHANGED <<tmpStart, tmpTrace, tmpExec, tmpFlying, tmpSent>>

TmpNext ==
    \/ \E type \in {"callback", "collections"} : TmpStartInstance(type)
    \/ TmpStartFailed \/ TmpTimerFires
    \/ TmpCancelRead \/ TmpCancelSeal
    \/ \E a, b \in BOOLEAN : TmpExecuteWorkflow(a, b)
    \/ \E outcome \in {"ok", "lost", "error", "late"} : TmpActivity(outcome)
    \/ \E a \in BOOLEAN : TmpFail(a) \/ TmpCanceled(a) \/ TmpCancelRequest(a)
    \/ \E act \in tmpFlying : TmpLands(act)

TmpSpec == TmpInit /\ [][TmpNext]_tmpVars

(***************************************************************************)
(* Properties.                                                             *)
(***************************************************************************)
\* The steps a complete run of the workflow records.
TmpLadder ==
    IF tmpStart.type = "callback" THEN <<"contacted", "closed">>
    ELSE <<"contacted", "waited", "task_created", "closed">>

\* The trace is the ladder as far as it went: attempts that were repeated, or
\* that land after their retry or after a cancel, record no step twice, skip none and reorder none.
TmpTraceIsLadder ==
    Len(tmpTrace) <= Len(TmpLadder) /\ \A k \in DOMAIN tmpTrace : tmpTrace[k] = TmpLadder[k]

\* A row that says completed stands for a workflow that queued every message
\* and recorded every step, also if it said canceled or failed before.
TmpCompletedMeansDone ==
    tmpRow.status = "completed" =>
        /\ tmpTrace = TmpLadder
        /\ tmpSent = (IF tmpStart.type = "callback" THEN {"sms"} ELSE {"sms", "whatsapp"})

\* The audit row and trace tell the truth about the execution.
TmpAuditHonest == TmpTraceIsLadder /\ TmpCompletedMeansDone
=============================================================================
