------------------------------- MODULE Outbox -------------------------------
(***************************************************************************)
(* The transactional outbox: rows of outbox_events written by domain       *)
(* transactions (internal/platform/outbox/writer.go) and drained by any    *)
(* number of worker processes, each looping over Dispatcher.Tick           *)
(* (internal/platform/outbox/dispatcher.go): claim a batch under a random  *)
(* lease token, hand every row to the bus, then ack or release by token.   *)
(*                                                                         *)
(* PostgreSQL runs the claim at READ COMMITTED: the sub-select reads the   *)
(* statement's snapshot, and the UPDATE then locks and writes the newest   *)
(* version of every selected row, rechecking only `id IN (...)`.  The two  *)
(* halves are two steps here, ClaimSelect and ClaimCommit, and another     *)
(* dispatcher may run between them.                                        *)
(*                                                                         *)
(* Time is abstracted: a row's lease_expires_at is NULL, in the future or  *)
(* in the past, and LeaseExpires moves it from the second to the third.    *)
(* The random token of a claim is any token no row and no worker holds.    *)
(***************************************************************************)
EXTENDS Naturals, FiniteSets

CONSTANTS
    Events,         \* event ids; an event's number is its rank in occurred_at
    Workers,        \* dispatcher processes
    Tokens,         \* lease tokens a claim draws from
    NoToken,        \* the empty lease_token ''
    MaxAttempts,    \* Dispatcher.maxAttempts
    BatchSize,      \* Dispatcher.batchSize
    MaxCrashes,     \* bound on worker crashes
    MaxBusErrors,   \* bound on Bus.Publish errors
    MaxDBErrors     \* bound on failed or unanswered database calls

ASSUME EventsAssumption == Events \subseteq Nat
ASSUME TokenAssumption == NoToken \notin Tokens
ASSUME LimitsAssumption == MaxAttempts \in Nat \ {0} /\ BatchSize \in Nat \ {0}
ASSUME FaultsAssumption ==
    MaxCrashes \in Nat /\ MaxBusErrors \in Nat /\ MaxDBErrors \in Nat

VARIABLES
    row,      \* outbox_events: the row of every event ("absent" until inserted)
    worker,   \* per process: where Tick is, its batch's token, rows not yet published
    bus,      \* events some worker has handed to Bus.Publish without an error
    spent     \* faults that have happened, by kind

vars == <<row, worker, bus, spent>>

Statuses == {"absent", "pending", "publishing", "published", "failed"}
Leases == {"null", "future", "past"}
Phases == {"idle", "claiming", "publishing", "releasing"}
FaultKinds == {"crash", "bus", "db"}

\* attempts is only ever compared with maxAttempts: it saturates there.
Rows == [status : Statuses, token : Tokens \cup {NoToken}, lease : Leases,
         attempts : 0 .. MaxAttempts]
Processes == [phase : Phases, token : Tokens \cup {NoToken}, todo : SUBSET Events]

AbsentRow == [status |-> "absent", token |-> NoToken, lease |-> "null", attempts |-> 0]
IdleProcess == [phase |-> "idle", token |-> NoToken, todo |-> {}]

FaultLimit ==
    [f \in FaultKinds |-> CASE f = "crash" -> MaxCrashes
                            [] f = "bus"   -> MaxBusErrors
                            [] f = "db"    -> MaxDBErrors]

\* One fault of kind f happens, if the bound still allows it.
Spend(f) ==
    /\ spent[f] < FaultLimit[f]
    /\ spent' = [spent EXCEPT ![f] = @ + 1]

Init ==
    /\ row = [e \in Events |-> AbsentRow]
    /\ worker = [w \in Workers |-> IdleProcess]
    /\ bus = {}
    /\ spent = [f \in FaultKinds |-> 0]

-----------------------------------------------------------------------------
(* Writer.Insert, at the commit of the domain transaction it runs in: the  *)
(* row appears with the column defaults (pending, '', NULL, 0).            *)
Insert(e) ==
    /\ row[e].status = "absent"
    /\ row' = [row EXCEPT ![e].status = "pending"]
    /\ UNCHANGED <<worker, bus, spent>>

-----------------------------------------------------------------------------
(* Dispatcher.claim.                                                       *)

\* Mutants: the OR reaches past the status test; a claim that skips every row
\* with a lease_expires_at.
ClaimableAnyExpired(e) == row[e].status = "pending" \/ row[e].lease = "past"
ClaimableUnleased(e) == row[e].status = "pending" /\ row[e].lease = "null"

\* The WHERE clause of the sub-select.
Claimable(e) ==
    \/ row[e].status = "pending"
    \/ row[e].status = "publishing" /\ row[e].lease = "past"

\* ORDER BY occurred_at LIMIT batchSize.
Selected ==
    LET S == {e \in Events : Claimable(e)}
    IN  {e \in S : Cardinality({f \in S : f < e}) < BatchSize}

\* newToken: 128 random bits, so a value nobody holds.
FreshTokens ==
    Tokens \ ({row[e].token : e \in Events} \cup {worker[w].token : w \in Workers})

\* What the UPDATE makes of a row: lease_expires_at is not among its columns.
Claimed(r, t) ==
    [status |-> "publishing", token |-> t, lease |-> r.lease,
     attempts |-> IF r.attempts < MaxAttempts THEN r.attempts + 1 ELSE MaxAttempts]

\* A claim with an empty result ends the tick with nothing changed.
ClaimSelect(w) ==
    /\ worker[w].phase = "idle"
    /\ Selected # {}
    /\ \E t \in FreshTokens :
          worker' = [worker EXCEPT ![w] = [phase |-> "claiming", token |-> t,
                                           todo |-> Selected]]
    /\ UNCHANGED <<row, bus, spent>>

ClaimRows(w) ==
    row' = [e \in Events |-> IF e \in worker[w].todo
                             THEN Claimed(row[e], worker[w].token)
                             ELSE row[e]]

ClaimCommit(w) ==
    /\ worker[w].phase = "claiming"
    /\ ClaimRows(w)
    /\ worker' = [worker EXCEPT ![w].phase = "publishing"]
    /\ UNCHANGED <<bus, spent>>

\* The claim returns an error: rolled back, or committed with the answer lost.
ClaimError(w) ==
    /\ worker[w].phase = "claiming"
    /\ Spend("db")
    /\ ClaimRows(w) \/ UNCHANGED row
    /\ worker' = [worker EXCEPT ![w] = IdleProcess]
    /\ UNCHANGED bus

-----------------------------------------------------------------------------
(* The publish callback of cmd/worker: rows in RETURNING order, which the  *)
(* statement leaves open; the first error abandons the batch.              *)

PublishRow(w, e) ==
    /\ worker[w].phase = "publishing"
    /\ e \in worker[w].todo
    /\ worker' = [worker EXCEPT ![w].todo = @ \ {e}]
    /\ bus' = bus \cup {e}
    /\ UNCHANGED <<row, spent>>

\* Mutant: a bus error is logged and the loop goes on.
PublishErrorSkipped(w) ==
    /\ worker[w].phase = "publishing"
    /\ Spend("bus")
    /\ \E e \in worker[w].todo : worker' = [worker EXCEPT ![w].todo = @ \ {e}]
    /\ UNCHANGED <<row, bus>>

PublishError(w) ==
    /\ worker[w].phase = "publishing"
    /\ worker[w].todo # {}
    /\ Spend("bus")
    /\ worker' = [worker EXCEPT ![w].phase = "releasing"]
    /\ UNCHANGED <<row, bus>>

-----------------------------------------------------------------------------
(* Dispatcher.ack and Dispatcher.releaseForRetry: one UPDATE each, over the *)
(* rows that still carry the batch's token.                                 *)

Acked(r) ==
    [status |-> "published", token |-> NoToken, lease |-> r.lease, attempts |-> r.attempts]

Released(r) ==
    [status |-> IF r.attempts >= MaxAttempts THEN "failed" ELSE "pending",
     token |-> NoToken, lease |-> "future", attempts |-> r.attempts]

\* Mutants: ack by status instead of by token; a retry that releases nothing.
AckRowsByStatus(w) ==
    row' = [e \in Events |-> IF row[e].status = "publishing" THEN Acked(row[e]) ELSE row[e]]
ReleaseRowsForgotten(w) == UNCHANGED row

AckRows(w) ==
    row' = [e \in Events |-> IF row[e].token = worker[w].token
                             THEN Acked(row[e]) ELSE row[e]]

ReleaseRows(w) ==
    row' = [e \in Events |-> IF row[e].token = worker[w].token
                             THEN Released(row[e]) ELSE row[e]]

\* Mutant: ack without waiting for the publish callback.
ReadyToAckAtOnce(w) == worker[w].phase = "publishing"

\* The publish callback returned nil: every row of the batch was handed over.
ReadyToAck(w) == worker[w].phase = "publishing" /\ worker[w].todo = {}

Ack(w) ==
    /\ ReadyToAck(w)
    /\ AckRows(w)
    /\ worker' = [worker EXCEPT ![w] = IdleProcess]
    /\ UNCHANGED <<bus, spent>>

AckError(w) ==
    /\ ReadyToAck(w)
    /\ Spend("db")
    /\ AckRows(w) \/ UNCHANGED row
    /\ worker' = [worker EXCEPT ![w] = IdleProcess]
    /\ UNCHANGED bus

ReleaseForRetry(w) ==
    /\ worker[w].phase = "releasing"
    /\ ReleaseRows(w)
    /\ worker' = [worker EXCEPT ![w] = IdleProcess]
    /\ UNCHANGED <<bus, spent>>

\* Tick drops releaseForRetry's error.
ReleaseError(w) ==
    /\ worker[w].phase = "releasing"
    /\ Spend("db")
    /\ ReleaseRows(w) \/ UNCHANGED row
    /\ worker' = [worker EXCEPT ![w] = IdleProcess]
    /\ UNCHANGED bus

-----------------------------------------------------------------------------
(* The environment: lease_expires_at passes; a worker process dies, or is  *)
(* told to stop, anywhere in Tick and a new one starts in its place.       *)

LeaseExpires(e) ==
    /\ row[e].lease = "future"
    /\ row' = [row EXCEPT ![e].lease = "past"]
    /\ UNCHANGED <<worker, bus, spent>>

Crash(w) ==
    /\ Spend("crash")
    /\ worker' = [worker EXCEPT ![w] = IdleProcess]
    /\ UNCHANGED <<row, bus>>

Tick(w) ==
    \/ ClaimSelect(w)
    \/ ClaimCommit(w)
    \/ \E e \in Events : PublishRow(w, e)
    \/ Ack(w)
    \/ ReleaseForRetry(w)

Fault(w) ==
    \/ ClaimError(w)
    \/ PublishError(w)
    \/ AckError(w)
    \/ ReleaseError(w)
    \/ Crash(w)

Next ==
    \/ \E e \in Events : Insert(e) \/ LeaseExpires(e)
    \/ \E w \in Workers : Tick(w) \/ Fault(w)

Spec == Init /\ [][Next]_vars

\* Every worker keeps ticking (Run loops on a ticker and ignores errors) and
\* time passes; nothing forces an insert or a fault.
Fairness ==
    /\ \A w \in Workers : WF_vars(Tick(w))
    /\ \A e \in Events : WF_vars(LeaseExpires(e))

FairSpec == Spec /\ Fairness

-----------------------------------------------------------------------------
(* Properties.                                                             *)

\* The tables and the processes only hold values of their types.
TypeOK ==
    /\ row \in [Events -> Rows]
    /\ worker \in [Workers -> Processes]
    /\ bus \subseteq Events
    /\ spent \in [FaultKinds -> Nat]

\* A row carries a lease token exactly while it is 'publishing', through every
\* overlap of claims, acks and releases of several workers: an ack or a release
\* by token can never touch a row that is pending, settled or parked.
TokenIffPublishing ==
    \A e \in Events : row[e].status = "publishing" <=> row[e].token # NoToken

\* No two processes act under the same token, and an idle one under none.
TokensDistinct ==
    /\ \A w \in Workers : worker[w].phase = "idle" <=> worker[w].token = NoToken
    /\ \A v, w \in Workers :
          v # w /\ worker[v].token = worker[w].token => worker[v].token = NoToken

\* A claim that has not committed owns no row yet.
ClaimOwnsNothingYet ==
    \A w \in Workers : worker[w].phase = "claiming" =>
        /\ \A e \in Events : row[e].token # worker[w].token
        /\ \A e \in worker[w].todo : row[e].status # "absent"

\* Every row a worker's token marks has been handed to the bus by it or is
\* still on its list: what makes ack's `WHERE lease_token = $1` safe.
BatchCovered ==
    \A w \in Workers : worker[w].phase \in {"publishing", "releasing"} =>
        /\ \A e \in Events : row[e].token = worker[w].token =>
                                  e \in bus \cup worker[w].todo
        /\ \A e \in worker[w].todo : row[e].status # "absent"

\* No silent loss: whatever the claims, crashes, bus and database errors and
\* their interleaving, an event is marked 'published' only after Bus.Publish
\* accepted it.
NoSilentLoss ==
    \A e \in Events : row[e].status = "published" => e \in bus

\* Nothing reaches the bus unless its domain transaction committed a row.
NoPhantomEvent ==
    \A e \in bus : row[e].status # "absent"

\* releaseForRetry parks a row as 'failed' only once its attempts are used up.
ParkedOnlyWhenExhausted ==
    \A e \in Events : row[e].status = "failed" => row[e].attempts = MaxAttempts

\* The conjunction that every step preserves (the proof's induction).
IInv ==
    /\ TypeOK
    /\ TokenIffPublishing
    /\ TokensDistinct
    /\ ClaimOwnsNothingYet
    /\ BatchCovered
    /\ NoSilentLoss
    /\ NoPhantomEvent
    /\ ParkedOnlyWhenExhausted

Recorded == {e \in Events : row[e].status # "absent"}
Settled == {e \in Events : row[e].status = "published"}
Parked == {e \in Events : row[e].status = "failed"}

Delivery == INSTANCE EventDelivery
            WITH recorded <- Recorded, delivered <- bus,
                 settled <- Settled, parked <- Parked

\* The dispatcher implements the outbox's promise, for any number of workers
\* and any faults.
ImplementsDelivery == Delivery!Spec

\* With a single dispatcher no event is ever reopened: 'published' and 'failed'
\* are final.
ImplementsDeliveryFinal == Delivery!SpecFinal

\* No process has died and no database call has failed or gone unanswered.
NoCrashNoDBFault == spent["crash"] = 0 /\ spent["db"] = 0

\* Whatever the bus refuses, every row in 'publishing' has a live process working
\* under its token or a lease that can expire, so a later tick can claim it: only
\* a crash or a failed database call can strand a row.
NoOrphanRow ==
    NoCrashNoDBFault =>
        \A e \in Events : row[e].status = "publishing" =>
            \/ \E w \in Workers : worker[w].token = row[e].token
            \/ row[e].lease # "null"

\* Every inserted event is eventually published or parked for good, although a
\* stale claim may reopen it on the way, unless a crash or a failed database call
\* intervenes.
EventuallyClosed ==
    \A e \in Events :
        row[e].status = "pending"
        ~> ~NoCrashNoDBFault \/ [](row[e].status \in {"published", "failed"})

\* dispatcher.go: "Expired leases (crashed worker) are reclaimed by the next claim
\* round": a row in 'publishing' does not stay there for ever.
AbandonedRowsReclaimed ==
    \A e \in Events : row[e].status = "publishing" ~> row[e].status # "publishing"
=============================================================================
