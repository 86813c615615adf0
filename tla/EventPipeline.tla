---------------------------- MODULE EventPipeline ----------------------------
(***************************************************************************)
(* The worker process end to end: the dispatchers of Outbox, the InProc    *)
(* bus (internal/platform/bus/bus.go) and its two table-writing consumers: *)
(* the audit consumer of cmd/worker and the facts consumer of              *)
(* internal/analytics.  Publish starts one goroutine per handler and       *)
(* returns; the goroutines live in the publishing process, so they die     *)
(* with it, and their errors are dropped.                                  *)
(***************************************************************************)
EXTENDS Outbox

CONSTANT
    MaxHandlers    \* bound on goroutines of one process for one event and consumer

ASSUME PipelineAssumption == MaxHandlers \in Nat \ {0}

VARIABLES
    running,   \* per process: goroutines started and not finished, by consumer and event
    audit,     \* audit_events: event ids with a row, or with several
    facts      \* interaction_fact: event ids (its primary key)

pipelineVars == <<row, worker, bus, spent, running, audit, facts>>

Consumers == {"audit", "facts"}

PipelineInit ==
    /\ Init
    /\ running = [w \in Workers |-> [c \in Consumers |-> [e \in Events |-> 0]]]
    /\ audit = {}
    /\ facts = {}

Sinks == <<running, audit, facts>>

\* Mutant: the wildcard subscription "*" is not matched.
SpawnFactsOnly(w, e) ==
    /\ \A c \in Consumers : running[w][c][e] < MaxHandlers
    /\ running' = [running EXCEPT ![w]["facts"][e] = @ + 1]

\* InProc.Publish: one goroutine for every handler of the event's topic.
Spawn(w, e) ==
    /\ \A c \in Consumers : running[w][c][e] < MaxHandlers
    /\ running' = [running EXCEPT ![w] =
                      [c \in Consumers |-> [running[w][c] EXCEPT ![e] = @ + 1]]]

PublishToBus(w, e) ==
    /\ PublishRow(w, e)
    /\ Spawn(w, e)
    /\ UNCHANGED <<audit, facts>>

Finished(w, c, e) ==
    /\ running[w][c][e] > 0
    /\ running' = [running EXCEPT ![w][c][e] = @ - 1]

\* auditConsumer: a plain INSERT, with no key on the event id.
AuditInsert(e) == audit' = audit \cup {e}

HandleAudit(w, e) ==
    /\ Finished(w, "audit", e)
    /\ AuditInsert(e)
    /\ UNCHANGED <<row, worker, bus, spent, facts>>

\* Mutant: a fact event without effect.
FactInsertNone(e) == UNCHANGED facts

\* interactionFact: INSERT ... ON CONFLICT (event_id) DO NOTHING.
FactInsert(e) == facts' = facts \cup {e}

HandleFact(w, e) ==
    /\ Finished(w, "facts", e)
    /\ FactInsert(e)
    /\ UNCHANGED <<row, worker, bus, spent, audit>>

\* A handler's INSERT fails: the goroutine drops the error.
HandlerError(w, c, e) ==
    /\ Finished(w, c, e)
    /\ Spend("db")
    /\ UNCHANGED <<row, worker, bus, audit, facts>>

\* The process dies with its goroutines.
ProcessCrash(w) ==
    /\ Crash(w)
    /\ running' = [running EXCEPT ![w] = [c \in Consumers |-> [e \in Events |-> 0]]]
    /\ UNCHANGED <<audit, facts>>

DispatcherStep(w) ==
    /\ \/ ClaimSelect(w) \/ ClaimCommit(w) \/ ClaimError(w)
       \/ PublishError(w)
       \/ Ack(w) \/ AckError(w)
       \/ ReleaseForRetry(w) \/ ReleaseError(w)
    /\ UNCHANGED Sinks

PipelineNext ==
    \/ \E e \in Events : (Insert(e) \/ LeaseExpires(e)) /\ UNCHANGED Sinks
    \/ \E w \in Workers :
          \/ DispatcherStep(w)
          \/ ProcessCrash(w)
          \/ \E e \in Events :
                \/ PublishToBus(w, e)
                \/ HandleAudit(w, e)
                \/ HandleFact(w, e)
                \/ \E c \in Consumers : HandlerError(w, c, e)

PipelineSpec == PipelineInit /\ [][PipelineNext]_pipelineVars

\* A process keeps ticking and its goroutines are scheduled.
ProcessStep(w) ==
    \/ ClaimSelect(w) /\ UNCHANGED Sinks
    \/ ClaimCommit(w) /\ UNCHANGED Sinks
    \/ Ack(w) /\ UNCHANGED Sinks
    \/ ReleaseForRetry(w) /\ UNCHANGED Sinks
    \/ \E e \in Events : PublishToBus(w, e)

PipelineFairSpec ==
    /\ PipelineSpec
    /\ \A w \in Workers :
          /\ WF_pipelineVars(ProcessStep(w))
          /\ \A e \in Events : WF_pipelineVars(HandleAudit(w, e)) /\ WF_pipelineVars(HandleFact(w, e))
    /\ \A e \in Events : WF_pipelineVars(LeaseExpires(e) /\ UNCHANGED Sinks)

-----------------------------------------------------------------------------
(* Properties.                                                             *)

HasEffect(c, e) == e \in (IF c = "audit" THEN audit ELSE facts)

\* The consumer has seen the event, or a goroutine of some process will show it.
InHand(c, e) == HasEffect(c, e) \/ \E w \in Workers : running[w][c][e] > 0

\* An event accepted by the bus misses a consumer only after a process crash or
\* a failed statement: overlapping claims, retries after bus errors and stale
\* reopens lose nothing on their own.
EffectLostOnlyByFault ==
    NoCrashNoDBFault =>
        \A e \in bus, c \in Consumers : InHand(c, e)

\* End to end: every event whose domain transaction committed is eventually in
\* the audit trail and among the facts, unless it is parked for an operator or a
\* crash or a failed database call intervenes.
EveryEventTakesEffect ==
    \A e \in Events :
        row[e].status = "pending"
        ~> \/ \A c \in Consumers : HasEffect(c, e)
           \/ row[e].status = "failed"
           \/ ~NoCrashNoDBFault
=============================================================================
