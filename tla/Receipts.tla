------------------------------ MODULE Receipts ------------------------------
(***************************************************************************)
(* Provider receipts on their way into the interaction state machine.      *)
(*                                                                         *)
(* A receipt (a provider event: call.ringing, call.ended, message.read...) *)
(* is persisted once in the provider_events ledger by the webhook gateway. *)
(* Two paths apply it through the same comms.Processor: the HTTP webhook   *)
(* handler right after it ingested the receipt, and the EventConsumer of   *)
(* each worker process, which drains unprocessed rows every few seconds    *)
(* and marks what it applied.  Rows are not leased; Processor.Process      *)
(* reads the interaction, then runs Transition in its own transaction, so  *)
(* other requests and workers may move the interaction in between.         *)
(*                                                                         *)
(* A receipt is a model value: its body, and so its derived event id, is   *)
(* its identity; Target gives the status its event name asks for.          *)
(***************************************************************************)
EXTENDS InteractionStates, Sequences, FiniteSets

CONSTANTS
    ReceiptIds,      \* the distinct provider events
    Calls,           \* interactions, calls or messages
    Subject,         \* the interaction of a receipt
    Target,          \* the status Processor.Process derives from its event name
    Simulated,       \* receipts of the simulator: they are ingested in-process
    Earlier,         \* receipts the simulator emits before a receipt
    Workers,         \* worker processes, each with an EventConsumer
    Requests,        \* concurrent HTTP webhook requests
    OperatorMoves,   \* statuses that API users ask interactions to move to
    MaxAttempts,     \* EventConsumer.maxAttempts
    BatchSize,       \* EventConsumer.batchSize
    MaxCrashes,      \* bound on process crashes
    MaxDBErrors,     \* bound on database calls that fail or go unanswered
    MaxRedeliveries  \* bound on webhooks a carrier sends again

ASSUME ReceiptAssumption ==
    /\ Subject \in [ReceiptIds -> Calls]
    /\ Target \in [ReceiptIds -> {"active", "wrapup", "completed", "failed"}]
    /\ Simulated \subseteq ReceiptIds
    /\ Earlier \in [ReceiptIds -> SUBSET ReceiptIds]
    /\ OperatorMoves \subseteq Statuses
ASSUME ReceiptLimits ==
    /\ MaxAttempts \in Nat \ {0} /\ BatchSize \in Nat \ {0}
    /\ MaxCrashes \in Nat /\ MaxDBErrors \in Nat /\ MaxRedeliveries \in Nat

VARIABLES
    status,      \* interactions.status ("none" until created)
    ledger,      \* provider_events in received_at order
    processed,   \* rows with processed_at set
    emitted,     \* simulator receipts sent, persisted or lost
    drain,       \* per worker: position in Tick and the rows still ahead
    attempts,    \* per worker: the in-memory failure counters
    request,     \* per HTTP request: position in webhookHandler and its receipt
    spent,       \* faults and redeliveries that have happened, by kind
    visited,     \* history: statuses each interaction has had
    moves        \* history: transitions each receipt has caused

tables == <<status, ledger, processed, visited, moves>>
vars == <<status, ledger, processed, emitted, drain, attempts, request, spent, visited, moves>>

FaultKinds == {"crash", "db", "redelivery"}
FaultLimit ==
    [f \in FaultKinds |-> CASE f = "crash"      -> MaxCrashes
                            [] f = "db"         -> MaxDBErrors
                            [] f = "redelivery" -> MaxRedeliveries]
Spend(f) ==
    /\ spent[f] < FaultLimit[f]
    /\ spent' = [spent EXCEPT ![f] = @ + 1]

InLedger == {ledger[i] : i \in 1 .. Len(ledger)}

\* r was received no later than s.
NoLater(r, s) == \E i, j \in 1 .. Len(ledger) : i <= j /\ ledger[i] = r /\ ledger[j] = s

\* `current` holds the one receipt a worker or a request is applying, if any.
IdleDrain == [at |-> "idle", rows |-> {}, current |-> {}]
IdleRequest == [at |-> "idle", current |-> {}]

Init ==
    /\ status = [c \in Calls |-> "none"]
    /\ ledger = <<>>
    /\ processed = {}
    /\ emitted = {}
    /\ drain = [w \in Workers |-> IdleDrain]
    /\ attempts = [w \in Workers |-> [r \in ReceiptIds |-> 0]]
    /\ request = [q \in Requests |-> IdleRequest]
    /\ spent = [f \in FaultKinds |-> 0]
    /\ visited = [c \in Calls |-> {}]
    /\ moves = [r \in ReceiptIds |-> 0]

-----------------------------------------------------------------------------
(* Interactions: created pending, moved by Transition under a row lock.    *)

Enter(c, s) ==
    /\ status' = [status EXCEPT ![c] = s]
    /\ visited' = [visited EXCEPT ![c] = @ \cup {s}]

Create(c) ==
    /\ status[c] = "none"
    /\ Enter(c, "pending")
    /\ UNCHANGED <<ledger, processed, emitted, drain, attempts, request, spent, moves>>

\* A user's transition, answer or complete call, or the service failing an
\* interaction its provider rejected; an illegal move is a 409 and changes nothing.
OperatorTransition(c, to) ==
    /\ CanTransition(status[c], to)
    /\ Enter(c, to)
    /\ UNCHANGED <<ledger, processed, emitted, drain, attempts, request, spent, moves>>

\* Processor.Process asks interactions.Transition to apply receipt r.
Applies(r) == CanTransition(status[Subject[r]], Target[r])
Apply(r) ==
    /\ Enter(Subject[r], Target[r])
    /\ moves' = [moves EXCEPT ![r] = @ + 1]

\* Mutant: no test for a receipt that was applied before.
SameStateNever(r) == FALSE

\* Carriers resend: the interaction already has the status, nothing to do.
SameState(r) == status[Subject[r]] = Target[r]

-----------------------------------------------------------------------------
(* Gateway.persistEvent: ON CONFLICT (provider, provider_event_id) DO      *)
(* NOTHING.                                                                *)

Persist(r) == ledger' = IF r \in InLedger THEN ledger ELSE Append(ledger, r)

\* Simulator.emit, after what it emits earlier; its second try may fail too.
Emit(r) ==
    /\ r \in Simulated \ emitted
    /\ status[Subject[r]] # "none"
    /\ Earlier[r] \subseteq emitted
    /\ emitted' = emitted \cup {r}
    /\ \/ Persist(r) /\ UNCHANGED spent
       \/ Spend("db") /\ UNCHANGED ledger
    /\ UNCHANGED <<status, processed, drain, attempts, request, visited, moves>>

-----------------------------------------------------------------------------
(* webhookHandler: ingest, then Process at once; nothing marks the row.    *)

Receive(q, r) ==
    /\ request[q].at = "idle"
    /\ r \in ReceiptIds \ Simulated
    /\ status[Subject[r]] # "none"
    /\ IF r \in InLedger THEN Spend("redelivery") ELSE UNCHANGED spent
    /\ Persist(r)
    /\ request' = [request EXCEPT ![q] = [at |-> "read", current |-> {r}]]
    /\ UNCHANGED <<status, processed, emitted, drain, attempts, visited, moves>>

RequestRead(q, r) ==
    /\ request[q].at = "read" /\ r \in request[q].current
    /\ request' = [request EXCEPT ![q] = IF SameState(r) THEN IdleRequest
                                         ELSE [at |-> "move", current |-> {r}]]
    /\ UNCHANGED <<status, ledger, processed, emitted, drain, attempts, spent, visited, moves>>

\* Process's Transition; a 409 is the answer the carrier gets.
RequestMove(q, r) ==
    /\ request[q].at = "move" /\ r \in request[q].current
    /\ IF Applies(r) THEN Apply(r) ELSE UNCHANGED <<status, visited, moves>>
    /\ request' = [request EXCEPT ![q] = IdleRequest]
    /\ UNCHANGED <<ledger, processed, emitted, drain, attempts, spent>>

\* The API process dies, or the request's statement fails; the carrier may retry.
RequestCrash(q) ==
    /\ request[q].at # "idle"
    /\ Spend("crash")
    /\ request' = [request EXCEPT ![q] = IdleRequest]
    /\ UNCHANGED <<status, ledger, processed, emitted, drain, attempts, visited, moves>>

-----------------------------------------------------------------------------
(* EventConsumer.Tick.                                                     *)

\* SELECT ... WHERE processed_at IS NULL ORDER BY received_at LIMIT batchSize.
Unprocessed == InLedger \ processed
Batch ==
    {r \in Unprocessed :
        Cardinality({s \in Unprocessed : s # r /\ NoLater(s, r)}) < BatchSize}

TickRead(w) ==
    /\ drain[w].at = "idle"
    /\ Batch # {}
    /\ drain' = [drain EXCEPT ![w] = [at |-> "row", rows |-> Batch, current |-> {}]]
    /\ UNCHANGED <<status, ledger, processed, emitted, attempts, request, spent, visited, moves>>

\* Mutant: rows.Next hands the rows over in any order.
NextRowAnyOrder(w, r) == r \in drain[w].rows

\* rows.Next: r is the next row of w's result set.
NextRow(w, r) == r \in drain[w].rows /\ \A s \in drain[w].rows : NoLater(r, s)

\* On to the next row; the end of the result set ends the tick.
Resume(rest) ==
    [at |-> IF rest = {} THEN "idle" ELSE "row", rows |-> rest, current |-> {}]

Skipped(w, r) == attempts[w][r] >= MaxAttempts

SkipRow(w, r) ==
    /\ drain[w].at = "row" /\ NextRow(w, r)
    /\ Skipped(w, r)
    /\ drain' = [drain EXCEPT ![w] = Resume(drain[w].rows \ {r})]
    /\ UNCHANGED <<status, ledger, processed, emitted, attempts, request, spent, visited, moves>>

\* Process reads the interaction.
RowRead(w, r) ==
    /\ drain[w].at = "row" /\ NextRow(w, r)
    /\ ~Skipped(w, r)
    /\ drain' = [drain EXCEPT ![w] = [at |-> IF SameState(r) THEN "mark" ELSE "move",
                                     rows |-> drain[w].rows \ {r}, current |-> {r}]]
    /\ UNCHANGED <<status, ledger, processed, emitted, attempts, request, spent, visited, moves>>

RowMoved(w, r) ==
    /\ drain[w].at = "move" /\ r \in drain[w].current
    /\ Applies(r)
    /\ Apply(r)
    /\ drain' = [drain EXCEPT ![w] = [at |-> "mark", rows |-> @.rows, current |-> {r}]]
    /\ UNCHANGED <<ledger, processed, emitted, attempts, request, spent>>

\* recordFailure: one more in-memory failed attempt.
Failed(w, r) == attempts' = [attempts EXCEPT ![w][r] = @ + 1]

\* Mutant: a failed row is marked like an applied one.
RowRefusedMarked(w, r) ==
    /\ drain[w].at = "move" /\ r \in drain[w].current
    /\ ~Applies(r)
    /\ drain' = [drain EXCEPT ![w] = [at |-> "mark", rows |-> @.rows, current |-> {r}]]
    /\ UNCHANGED <<status, ledger, processed, emitted, attempts, request, spent, visited, moves>>

\* Transition's 409: recordFailure, the row stays unprocessed.
RowRefused(w, r) ==
    /\ drain[w].at = "move" /\ r \in drain[w].current
    /\ ~Applies(r)
    /\ Failed(w, r)
    /\ drain' = [drain EXCEPT ![w] = Resume(drain[w].rows)]
    /\ UNCHANGED <<status, ledger, processed, emitted, request, spent, visited, moves>>

\* The database fails Process's read of the interaction: a failed attempt too.
ReadError(w, r) ==
    /\ drain[w].at = "row" /\ NextRow(w, r)
    /\ ~Skipped(w, r)
    /\ Spend("db")
    /\ Failed(w, r)
    /\ drain' = [drain EXCEPT ![w] = Resume(drain[w].rows \ {r})]
    /\ UNCHANGED <<status, ledger, processed, emitted, request, visited, moves>>

\* Transition's transaction fails, or commits and the answer is lost.
MoveError(w, r) ==
    /\ drain[w].at = "move" /\ r \in drain[w].current
    /\ Spend("db")
    /\ (Applies(r) /\ Apply(r)) \/ UNCHANGED <<status, visited, moves>>
    /\ Failed(w, r)
    /\ drain' = [drain EXCEPT ![w] = Resume(drain[w].rows)]
    /\ UNCHANGED <<ledger, processed, emitted, request>>

\* Gateway.MarkProcessed drops its error.
RowMark(w, r) ==
    /\ drain[w].at = "mark" /\ r \in drain[w].current
    /\ \/ processed' = processed \cup {r} /\ UNCHANGED spent
       \/ Spend("db") /\ UNCHANGED processed
    /\ drain' = [drain EXCEPT ![w] = Resume(drain[w].rows)]
    /\ UNCHANGED <<status, ledger, emitted, attempts, request, visited, moves>>

\* The counters live in the process.
WorkerCrash(w) ==
    /\ Spend("crash")
    /\ drain' = [drain EXCEPT ![w] = IdleDrain]
    /\ attempts' = [attempts EXCEPT ![w] = [r \in ReceiptIds |-> 0]]
    /\ UNCHANGED <<status, ledger, processed, emitted, request, visited, moves>>

-----------------------------------------------------------------------------
DrainStep(w) ==
    \/ TickRead(w)
    \/ \E r \in ReceiptIds :
          \/ SkipRow(w, r) \/ RowRead(w, r) \/ RowMoved(w, r) \/ RowRefused(w, r)
          \/ RowMark(w, r)

RequestStep(q) == \E r \in ReceiptIds : RequestRead(q, r) \/ RequestMove(q, r)

Next ==
    \/ \E c \in Calls : Create(c)
    \/ \E c \in Calls, to \in OperatorMoves : OperatorTransition(c, to)
    \/ \E r \in ReceiptIds : Emit(r)
    \/ \E q \in Requests :
          RequestStep(q) \/ RequestCrash(q) \/ \E r \in ReceiptIds : Receive(q, r)
    \/ \E w \in Workers :
          \/ DrainStep(w) \/ WorkerCrash(w)
          \/ \E r \in ReceiptIds : ReadError(w, r) \/ MoveError(w, r)

Spec == Init /\ [][Next]_vars

\* Workers keep ticking and a request that was read runs to its end.  Nothing
\* forces calls, carriers or operators.
FairSpec ==
    /\ Spec
    /\ \A w \in Workers : WF_vars(DrainStep(w))
    /\ \A q \in Requests : WF_vars(RequestStep(q))

-----------------------------------------------------------------------------
(* Properties.                                                             *)

\* The tables, the processes and the histories only hold values of their types.
TypeOK ==
    /\ status \in [Calls -> Statuses \cup {"none"}]
    /\ ledger \in Seq(ReceiptIds)
    /\ processed \subseteq ReceiptIds
    /\ emitted \subseteq Simulated
    /\ drain \in [Workers -> [at : {"idle", "row", "move", "mark"}, rows : SUBSET ReceiptIds,
                             current : SUBSET ReceiptIds]]
    /\ attempts \in [Workers -> [ReceiptIds -> Nat]]
    /\ request \in [Requests -> [at : {"idle", "read", "move"}, current : SUBSET ReceiptIds]]
    /\ spent \in [FaultKinds -> Nat]
    /\ visited \in [Calls -> SUBSET Statuses]
    /\ moves \in [ReceiptIds -> Nat]

\* consumer.go: "One effect per event, whichever path delivers it": however a
\* receipt is redelivered, drained by racing workers or drained again after a
\* crash, it moves its interaction at most once.
SingleEffect == \A r \in ReceiptIds : moves[r] <= 1

\* A row is marked processed only when its interaction has been where the
\* receipt says: no receipt is written off without its effect.
ProcessedMeansReached ==
    \A r \in processed : Target[r] \in visited[Subject[r]]

\* How far along its life an interaction is: every transition goes up.
Rank(s) ==
    CASE s = "none" -> 0 [] s = "pending" -> 1 [] s = "active" -> 2 [] s = "wrapup" -> 3
      [] OTHER -> 4

\* An interaction has visited the status it is in.
StatusVisited ==
    \A c \in Calls : status[c] # "none" => status[c] \in visited[c]

\* A receipt that has moved its interaction is behind it.
MovedIsBehind ==
    \A r \in ReceiptIds :
        moves[r] > 0 => Rank(Target[r]) <= Rank(status[Subject[r]])

\* A worker about to mark a row knows that the interaction has been there.
MarkingReached ==
    \A w \in Workers : drain[w].at = "mark" =>
        \A r \in drain[w].current : Target[r] \in visited[Subject[r]]

\* The conjunction that every step preserves.
IInv ==
    /\ TypeOK
    /\ StatusVisited
    /\ SingleEffect
    /\ MovedIsBehind
    /\ MarkingReached
    /\ ProcessedMeansReached

\* A receipt that moved its interaction is eventually marked processed, so that
\* it leaves the backlog.
AppliedRowsGetMarked ==
    \A r \in ReceiptIds : moves[r] > 0 ~> r \in processed

\* A hangup the simulator reported ends the call's live phase.
HangupTakesEffect ==
    \A r \in ReceiptIds :
        r \in InLedger /\ Target[r] = "wrapup"
        ~> status[Subject[r]] \in {"wrapup", "completed", "failed"}
=============================================================================
