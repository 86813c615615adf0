# Orvexa: TLA+ models, checks and proofs

Orvexa is a multi-tenant customer-engagement platform in Go over PostgreSQL:
calls and messages become *interactions*, carriers report on them with
*receipts*, a routing engine gives them to agents, and every change of domain
state is announced as an *event*. This directory holds TLA+ models of the parts
where several processes, requests or goroutines meet over shared state, of the
carrier adapters and of the platform's services, what TLC checks about them on
small instances, and what TLAPS proves about them for every size.

Paths below are relative to `src/`.

## 1. Inventory

| Part | State it keeps | Operations | Talks to | What is hard | Correct when |
|---|---|---|---|---|---|
| Transactional outbox `internal/platform/outbox` | rows of `outbox_events` (status, lease token, lease expiry, attempts) | `Insert`; `Tick` = `claim`, publish, `ack` or `releaseForRetry` | written by every domain service, drained by every worker | claims overlap, crashes between steps, lost answers | nothing is marked published that was not; everything is published or parked |
| Bus `internal/platform/bus` | subscriptions; running handler goroutines; NATS durables | `Publish`, `Subscribe`, `Close` | worker, consumers | fire-and-forget goroutines, dropped errors, redelivery, close inside subscribe | an accepted event reaches every consumer |
| Worker `cmd/worker` | dispatcher, receipt drain, workflow ticker, consumers | publish callback, audit consumer, shutdown | all of the above | death between ack and handlers | effects follow events |
| Analytics `internal/analytics` | `interaction_fact`, usage, ClickHouse batches | `Handle` | bus | duplicates | one fact per event |
| Interactions `internal/interactions` | status, assignment, conversation | `Create`, `Transition`, `Assign` | telephony, messaging, receipts, routing | find-or-open race, concurrent transitions | only legal transitions |
| Conversations `internal/conversations` | open/closed, participants | open, assign, close | interactions | two open conversations | one open context per customer and channel |
| Receipts `internal/comms` | `provider_events` ledger, in-memory attempts | `Process`, `EventConsumer.Tick` | gateway, interactions | two delivery paths, unleased rows, crash before mark | one effect per receipt, none written off |
| Simulator `internal/comms/simulator.go` | calls in progress | `PlaceCall`, `Hangup`, `Transfer`, `Send` | gateway | receipts lost after one retry | receipts in order |
| Webhook gateway `internal/webhooks` | ledger rows | `Ingest`, `MarkProcessed` | HTTP, simulator | redelivery | a receipt is stored once |
| Routing `internal/routing` | decisions, presence, presence caches | `Route`, `SetPresence`, `AvailableAgents` | interactions, agents, Redis | stale availability, concurrent routing, Redis failures | the best available agent, never a busy one |
| Telephony, messaging `internal/telephony`, `internal/messaging` | none of their own | place, act, send | carriers, interactions | carrier call and transition are two steps | state follows the carrier |
| Workflow engine `internal/workflows` | `workflow_instances`, steps | start, `Tick`, `advance`, `Cancel` | messaging | transaction of a step, cancel while running | a step's message once |
| Temporal driver `internal/workflows/temporaldriver` | projection of workflows | same promise over Temporal | Temporal | replays, projection order | as the engine |
| Cases, customers, agents, queues | their tables | CRUD, case lifecycle, reference numbers | events | concurrent reference allocation | references unique |
| Search `internal/search` | bounded index queue | enqueue, flush, retry | bus | full queue, shutdown | no lost update |
| Realtime hub `internal/realtime` | clients, admission counter, send buffers | serve, publish, close | bus | counter drift, slow consumers | cap counts live clients |
| Tools gateway, AI runtime | one-minute windows | `Invoke` | services | windows dropped when full | limits hold |
| Identity, tenancy, HTTP limiters | key-set cache, token buckets | authenticate, limit | Redis, identity provider | refresh races, fallback | limits hold, keys fresh |
| Voice adapters `internal/telephony/adapters` | sessions with the switch, pending replies, legs, queued actions | place, hang up, transfer, hold; reconnect; callbacks; close | carriers, receipts | sessions that drop with replies outstanding, retried dials, events against requests | each caller gets its reply or an error; an end is final and true |
| Message adapters `internal/messaging/adapters` | claims and tables of sends, USSD sessions, message ids | send, delivery reports, callbacks | carriers, receipts | concurrent sends, lost answers, full tables, repeated batches | one message per interaction; no status lost |

`PROJECT.json` lists every part with its files and status, and under `hazards`
what is hard to test at which line, with the properties that cover it.

## 2. Modules

| Module | Models | State |
|---|---|---|
| `Outbox` | writer and dispatcher | `row` (table), `worker` (position of each process in `Tick`), `bus` (accepted events), `spent` (faults) |
| `EventDelivery` | the promise of the outbox, abstractly | `recorded`, `delivered`, `settled`, `parked` |
| `EventPipeline` | `Outbox` composed with the in-process bus and its two table-writing consumers | adds `running`, `audit`, `facts` |
| `InteractionStates` | the table of `interactions/state.go` | none |
| `Receipts` | ledger, webhook handler, draining workers, simulator, agents | `status`, `ledger`, `processed`, `drain`, `attempts`, `request`, histories `visited`, `moves` |
| `RoutingEngine` | `Score` and `Decide`, in integers | none |
| `Routing` | `Route`, `SetPresence`, the presence caches | `presence`, `current`, `status`, `assigned`, `cache`, `route` |
| `SwitchCommands` | the promise of a switch client, abstractly | what each caller was `told`, which commands the switch has `handled` |
| `AmiSession` | Asterisk: supervisor, sessions, `call`, waiters, close | client, calls, actions and replies on the wire, sessions an action ran on |
| `AmiVoice` | Asterisk: legs, channel binding, event queue and delivery, the five operations | legs, requests, wire, queue, delivery loop, channels |
| `EslSession` | FreeSWITCH: client goroutine, `Do`, reply slots, close | client, connections, commands in `Do`, replies on the wire |
| `EslVoice` | FreeSWITCH: legs, background jobs, events inline | registry, requests, wire, the switch's calls |
| `AtVoice` | Africa's Talking voice: dial with retries, actions fetched by callbacks | legs, requests, callbacks, what the carrier was told |
| `TwilioVoice` | Twilio voice: REST with retries, status callbacks | legs, requests, calls by sid, events delivered |
| `AtSms` | Africa's Talking SMS: slots, waiting sends, bounded table, delivery reports | requests, table, slots, messages the carrier took |
| `AtUssd` | Africa's Talking USSD: sessions, replay of END, eviction | callbacks, table |
| `TwilioSms` | Twilio messaging: claim, retries, status callbacks | requests, `sentIDs`, messages taken |
| `WhatsApp` | WhatsApp Cloud: sends, ledger of ids, webhook batches | requests, ledger, messages, pending batches |
| `VoicePlane`, `MessagingPlane` | the switches of `factory.Build` over the modules above | the part a behaviour is about |
| `Conversations` | `Create` with find-or-open and provider references, `Close`, as transactions with row locks | conversations, transactions, interactions |
| `Cases` | `Open` under its advisory lock, `Transition` | transactions, cases, the year |
| `WorkflowEngine` | start, `Tick`, `advance`, `markFailed`, `Cancel` | instances, steps, ticks, messages queued |
| `TemporalDriver` | start, `Cancel`, the two workflows, audit row and trace | row, trace, execution, activities under way |
| `FactStore` | ClickHouse buffers, flusher, requeue, `Close` | callers of `Handle`, a buffer and a stash per table, rows written |
| `SearchIndexer` | `Handle`, ring of ids, queue, worker, `Close` | queue, rings, documents |
| `NatsBus` | `Publish`, `Subscribe`, delivery, `Close` | subscriptions, durables, handlers |
| `RealtimeHub` | `admit`, upgrade, registration, pumps, `Publish` | counter, connections, buffers |
| `ToolGateway` | the gates of `Invoke` and the window of a minute | clock, windows (sets of calls with their times), calls in progress |
| `Platform` | the nine services above, one per behaviour | the service a behaviour is about |
| `MC...` | instances for TLC | |
| `OutboxProofs`, `ReceiptsProofs`, `RoutingProofs` | theorems about the module of that name | |
| `DeliveryProofs` | theorems about `EventPipeline`, `NatsBus`, `SearchIndexer`, `FactStore`, `Platform` | |
| `ServiceProofs` | theorems about `RealtimeHub`, `Cases`, `WorkflowEngine`, `TemporalDriver`, `Conversations`, `ToolGateway` | |
| `SessionProofs` | theorems about `EslSession`, `AmiSession` | |
| `VoiceProofs` | theorems about `AtVoice`, `TwilioVoice`, `EslVoice`, `AmiVoice`, `VoicePlane` | |
| `SendProofs` | theorems about `TwilioSms`, `WhatsApp`, `AtUssd`, `AtSms`, `MessagingPlane` | |

**Outbox.** PostgreSQL runs the claim at READ COMMITTED: the sub-select sees the
statement's snapshot, and the UPDATE then writes the newest version of each
selected row, rechecking only `id IN (...)`. `ClaimSelect` and `ClaimCommit` are
therefore two steps. A failed statement is either rolled back or committed with
its answer lost, and both are alternatives of the `...Error` actions. Time is
three values of `lease_expires_at` (null, future, past). `attempts` saturates at
`maxAttempts`, the only value it is compared with. A random token is any token
nobody holds. A shutdown is a crash: the dispatcher's context is canceled
anywhere in `Tick`. The payload that does not unmarshal (worker `main.go:73`)
cannot come from `Writer`, which marshalled it, and is left out; `Bus.Publish`
may refuse an event, as its interface allows.

**EventPipeline.** `PublishToBus` is `PublishRow` together with one goroutine per
consumer. The events are of a topic that both consumers take (the audit consumer
subscribes to `*`). `audit` is the set of event ids with at least one row.

**Receipts.** `Process` is a read (`RowRead`, `RequestRead`) and a transition
(`RowMoved`/`RowRefused`, `RequestMove`) because other transactions run between
them. `attempts` lives in the worker and is lost in `WorkerCrash`. A receipt is a
value; `Target` is the status the switch of `Process` derives from its event
name.

**RoutingEngine, Routing.** Scores are multiplied by ten times the number of
required skills, which makes 2.0, 1.5 and tenths integers. `Route` is a lookup
(hit, or miss and fill) and a transaction; between them anything may happen.
`CacheExpires` is the TTL; the program has no other way to drop an entry.
`Ranked` is a sequence of the agents in the order of the code's comparison
(score, then id), whichever way the code sorts; `Decide` takes its first agent
that passes.

**Switch clients.** `SwitchCommands` says what the adapters rely on: the switch
gets a command only after it was given, a caller hears that it was carried out
only after the switch did so, and every caller hears once. Its `told` is
`AmiTold` and `EslTold`, a request's position and outcome in `call` and `Do`; its
`handled` is the sessions an Asterisk action ran on, and for FreeSWITCH
`EslTaken`: written, and no longer on the wire of its connection, from which only
the switch takes.

**Voice.** A request is one action per place where the code waits, takes its
mutex or talks to the outside. `AmiSession` and `EslSession` model the
connection alone; `AmiVoice` and `EslVoice` use of it only what those show (a
request gets its own reply or an error, and an Asterisk action may be written
twice) and model what the adapter does with replies and events. A packet or
frame is a record of the fields the handlers look at. A drop loses what was on
the wire in both directions, so an action may have run whose reply never comes.
The carriers are external: an exchange may be carried out and its answer lost,
or answered with something that cannot be parsed, and callbacks come in any
order. FreeSWITCH reports the job's result, the answer and the hangup of a call
in any order, a failed or even a successful result behind the hangup included.
An Asterisk event may carry the ActionID of its Originate or not; without one it
is tied to a leg only by a channel that an earlier Newchannel bound, as in
`legForEvent`. Time-outs are steps that may happen at any time while a caller
waits.

**Messaging.** The same for sends: `AtsPost`, `TwsPost` and `WacPost` are one
exchange each, with the outcomes the retry loops tell apart (accepted, refused,
to be retried, no answer, an answer that cannot be used). The order of the
tables is kept because eviction goes by it. A recipient that Africa's Talking
accepts without a message id is a send whose report can never be matched
(`atsUnnamed`). `WhatsApp` names a message by its
request and attempt, since each POST gets an id of its own.

**Conversations.** READ COMMITTED, like the outbox: a search sees what was
committed when it began; a row locked meanwhile is checked again in its new
version; a lock waits for its holder, and of two transactions that wait for each
other one is aborted. One customer and channel, the only rows a create looks at.

**Workflows.** `WorkflowEngine` has the claim as one autocommitted UPDATE that
leaves an instance due, and `advance` with the transaction that is rolled back:
so its writes do not appear as a state change, only the message does.
`workflow_steps` is the sequence of its rows, in which a step may appear more
than once, and `markFailed` may fail, its error ignored. In `TemporalDriver` the
execution is a program counter over timers and activities; an activity may fail,
lose its answer or time out and be repeated, and an attempt that timed out or was
canceled may still take effect later, also after the retry that succeeded.

**Queues.** In `FactStore`, `SearchIndexer` and `NatsBus` a call that blocks and
a loop that drains are separate steps, so shutdown can fall between any two of
them. A write that fails may have been applied. In `NatsBus` the return of a
handler and the answer that the server gets (Ack, Nak, Term) are two steps, and
the answer may be lost; a message older than the stream's MaxAge leaves every
durable, handled or not (`NatExpire`). What the caller of `Publish` is told
belongs to `Outbox`; the client's prefetch, which changes only the moment of a
delivery, is left out. A flush of `FactStore` sends each
table's rows on their own, so one table may be written and the other requeued.

**Tools.** A window of `ToolGateway` is the set of calls the code's slice of
times holds, each with its time and a number, since two calls may have the same
time: only how many are recent matters, and the slice is never read by place.

**Planes.** Build constructs one provider per plane, and the services of
`Platform` share no table and no memory; they meet through the outbox and the
bus. A behaviour of `VoicePlane`, `MessagingPlane` or `Platform` is therefore one
of a single part, chosen in the initial state. The interleavings checked are
those inside a part.

## 3. Runs

All instances are the smallest in which every action and every interesting
overlap occurs; the fault bounds (`MaxCrashes`, `MaxBusErrors`, `MaxDBErrors`,
`MaxRedeliveries`, `AvMaxDrops`, `EvMaxDrops`, `FsMaxFailing`) are one or two
because the second fault of a kind already meets every state the first one
leaves.

| Run | Instance | Shows |
|---|---|---|
| `outbox_safety` | 2 dispatchers, 2 rows, batches of 2, 1 crash, 2 bus errors, 1 database error; workers and tokens symmetric | the inductive invariant (whose parts say that a token marks exactly the rows being published and that only rows out of attempts are parked), no silent loss, and refinement of `EventDelivery` |
| `outbox_single` | 1 dispatcher, 3 rows, batches of 2, the same faults, fairness | published and failed are final; a row is stranded only by a crash or a failed statement; otherwise every event is closed for good |
| `pipeline_faults` | 2 processes, 1 event, every fault, fairness | an accepted event misses a table only after a crash or a failed statement; end to end every event takes effect |
| `receipts_race` | 2 draining workers, 1 request, an agent, 3 receipts, every fault | one effect per receipt, no receipt written off |
| `receipts_drain` | 1 worker, the simulator's 3 receipts, 3 crashes, fairness | applied rows get marked, hangups take effect |
| `routing_cache` | 2 requests, shared Redis cache that may fail, 2 agents, 12 requests at the edges of the rules, fairness | the pick is the best of what was read; no agent is held for a live interaction that nobody has; stale entries fade |
| `voice_plane` | per carrier one leg that is placed, hung up and transferred (and held with Africa's Talking); sessions: 2 Asterisk actions over 2 sessions, 3 FreeSWITCH commands over 2 connections; 1 drop, 1 retry, 2 callbacks, a queue of 2; fairness of the client goroutine | see below |
| `messaging_plane` | message a sent twice and b once, 1 retry, tables of 1; USSD sessions of 3 and 2 callbacks; WhatsApp 2 sends of 2 attempts; fairness of the webhooks | see below |
| `platform` | 4 creates of one customer; 3 case openings around New Year; 2 workflows, 2 workers, 2 ticks each; 1 Temporal workflow of either type, 2 attempts; 4 facts in 2 buffers of 1; 4 index events delivered up to twice, queue 2, ring 3; 2 subscriptions, 2 messages (one that cannot be decoded), 2 deliveries; 3 connections under a cap of 2; 2 tool keys under a cap of 2 calls, map of 1 | see below |

Four tokens suffice in `outbox_safety`: at most two rows and two processes hold
one. `PicksTheBest` compares `Decide`, written as the code's ranked scan, with
the definition "assignable and beaten by nobody".

In `voice_plane` a leg is needed once, since legs do not share state but the
maps they are keys of; three FreeSWITCH commands are needed so that one gives
up, one takes the connection after it and one waits for the turn. A capacity of
one already has the full table and the send that is evicted while another one is
in flight; three callbacks of one USSD session have one that ends it, one still
running and one that comes after. In `platform` the ring of three forgets one of
four events, and the map of one key drops the other.

What the properties of the last three runs say, and what would break them:

| Property | Says |
|---|---|
| `AmiRepliesReach` | a request waiting on a live Asterisk session is registered there or has its reply, and Success is about the session it waits on, not an earlier attempt |
| `AvLegLife` | call.ended is the last event of its interaction unless a drop made the Originate run twice; a leg whose channels ended is given up unless a Hangup of it was lost or nothing that arrived tied its channels to it; a transfer is told once |
| `AmiImplementsCommands`, `EslImplementsCommands` | both socket clients implement `SwitchCommands`, with sessions that drop, actions written twice and callers that give up |
| `EslOwnReply`, `EslCloseEnds` | although replies are not correlated, a command gets its own or none; `Close` returns |
| `EvLegLife` | after call.ended or call.failed the lifecycle does not move, whatever order job results, answers, replies and hangups come in; legs are given up unless a drop lost the event or a failed job's result came before the job was recorded |
| `AtvCommandsHonest` | an accepted Hangup waits with the leg or was given to the carrier unless a transfer replaced it; a dial is repeated only on the carrier's word |
| `TwvTruthful` | a Hangup that succeeded ended its call, and after call.ended no call is live, unless PlaceCall posted more than once |
| `AtsSendsAccounted` | success means that the carrier has the message, a second message has a cause (an answer lost, a send evicted), a report finds its send unless that send was evicted after it was over or got no message id; eviction never forgets a send in flight |
| `AtuSessionsKept` | a session that has shown a screen starts anew only if its END was evicted beyond the cap, or it was continued while the callback that started it still ran and then failed |
| `TwsSingleSend` | no second message without an unclear answer; a claim stands exactly for a send under way or accepted |
| `WacDeliveriesHonest`, `WacStatusArrives` | Meta stops sending a status only when it was delivered, and a deliverable one is delivered in the end, also beside one that never resolves |
| `CnvRacesExplained`, `CnvNoLateInteraction` | two open conversations come only from a race, a create that failed or was a duplicate leaves no conversation behind, and only creates that name their conversation can deadlock; nothing is committed into a closed conversation |
| `CasSerial` | references of a year are 1, 2, 3, ... and no Open is refused, unless the year turned between its two looks at the clock |
| `WfeCanceledUnlessHeld` | a canceled workflow stays canceled unless a tick held it then |
| `TmpAuditHonest` | repeated activities, and attempts that land late, even after their retry, leave the trace a prefix of the ladder, and completed means every message was queued |
| `FsRowsAccounted` | after a clean `Close` every accepted row is written or was shed; a row is written twice only if its batch was reported as failed |
| `IdxNeverOvercounts` | no order and no repetition of events makes a document count too much while the ring remembers |
| `NatSubscriptionKept` | a message stays due to a durable until a handler of it succeeded, it proved undecodable or it grew older than MaxAge, whatever answers are lost and whoever unsubscribes; no loop outlives the bus |
| `HubCapHolds` | connections live or being upgraded stay under the cap |
| `TgwCapHolds` | in no minute more calls than the cap, unless the window was dropped |

Three more runs state what a comment or document claims and find it violated by
the code:

| Run | Claim | What happens |
|---|---|---|
| `outbox_crash` | `dispatcher.go:113` "Expired leases (crashed worker) are reclaimed" | the claim sets no expiry; a first-time row of a dead worker stays `publishing` |
| `hub_cap` | `realtime/hub.go:124` "admit enforces the total cap" | a connection counts twice and is uncounted once, so an empty hub is full (`HubIdleMeansRoom`) |
| `workflow_trace` | `docs/adr/0006-durable-workflows.md:20` "every executed step is recorded" | `advance` never commits: the message is queued and no row is added for it, counted in rows of `workflow_steps` (`WfeExecutedStepRecorded`) |

**Fairness.** `Dispatcher.Run` and `EventConsumer.Run` loop on a ticker and
survive errors: weak fairness on a process's normal steps, as one action. An
accepted HTTP request runs to its end, started goroutines are scheduled, leases
and TTLs pass. `EslFairness`: the client goroutine is scheduled, and each of its
reads, dials and sleeps has a deadline, so a handshake ends. `WacFairness`: Meta
repeats a batch until it is acknowledged and the ingest port does not refuse a
status for ever, which is strong fairness on the call that delivers it, since
other batches come in between; a send whose answer arrived goes on to remember
it. No insert, fault, carrier, agent or user is forced, and faults are bounded,
so liveness says what happens once they stop.

**Deadlock** is not checked where the bounded system really ends (all events
closed, all receipts drained, all requests answered). The routing run checks it.
The deadlock of two creates is modelled with the database's way out of it, which
`CnvRacesExplained` speaks of.

## 4. Proofs

Every theorem holds for every value of the constants, under the `ASSUME`s of the
modules: limits and bounds are natural numbers, positive where the code divides
by or waits for them; `NoToken` is not a token; events are numbers; receipts have
a call and a target; the opens of `Cases`, the instances of `WorkflowEngine` and
the events of `SearchIndexer` and the requests of `AtSms` are finitely many; the creates of `Conversations`
have numbers of their own; a voice adapter is asked to place an interaction once
(the telephony service places a call when it creates the interaction); agents
are finitely many numbers, and the skills of a routing request are a list.
`SingleDispatcherFinal` assumes one worker, which is what it is about.

Each is shown in the same way: an inductive invariant, one lemma per action that
the action keeps it, and the property from the invariant. None of the properties
is inductive as it stands; what has to be added is where the reason for it is.

**Outbox** (`OutboxProofs`). `IInv` is inductive (`Inductive`), so `TypeCorrect`,
`NothingLostSilently`, `TokensMarkPublishing` and `ParkingIsExhaustion`;
`Refinement` shows `Spec => EventDelivery!Spec`.

- `NoSilentLoss`: an ack marks *every* row with the worker's token, so one must
  know that such rows were handed over or are still on the worker's list
  (`BatchCovered`), that no other process has the token (`TokensDistinct`), and
  that a claim not yet committed marks no row (`ClaimOwnsNothingYet`). The
  refinement uses the same: an ack settles only delivered events.
- `NoRowOrphaned` adds `RowsHeld`: until a crash or a failed statement, a row in
  publishing has a worker with its token.
- `SingleDispatcherFinal`: `SnapshotCurrent`, what a claim selected is still
  neither published nor failed when it commits. This is false for two
  dispatchers, and then so is the property.

**Receipts, routing** (`ReceiptsProofs`, `RoutingProofs`). `SingleEffect` needs a
rank of statuses that every transition raises and `MovedIsBehind`: a receipt that
had its effect is at or below its interaction's rank, so it can never apply
again. `MarksAreEarned` needs `MarkingReached` for the worker between its read and
its mark. `LiveWorkAssigned`: an agent that is held for a pending or active
interaction is held for one that has an agent. Both writers of the assignment
test the status in the statement that writes, so a `Route` whose UPDATE changed
no row met a settled interaction, and the table of transitions has no way back
from there to pending or active (`LiveWasLive`). `EffectsOnRecord` says that the ledger accounts for what happens:
it has each provider event once, and nothing moves an interaction or is marked
that it does not have. What a worker or a request has in hand must be in the
ledger for that (`OnRecord`).

`BestPicked` is about `Decide` for any number of agents. The code's comparison is
a total order of the agents (`RankOrderTotal`), so a sorted sequence exists
(`SortExists`), the ranked list is one (`RankedSorts`), and its first agent that
passes ranks before every other that does (`DecideBest`). That every finite set
under a total order can be sorted is an induction; it is written as a minimal
counterexample (`MinimalMember`, from the well-foundedness of strict inclusion),
which needs no induction scheme. Of the states it needs only that a request has
read a set of agents (`HoldsAgents`).

**Pipeline** (`DeliveryProofs`). `EventPipeline` is not an instance of `Outbox`:
its goroutines fail at the expense of the same database fault. But every one of
its steps is a step of `Outbox`, leaves it alone, or spends such a fault, and
`IInv` and the refinement survive all three (`PipelineInductive`,
`PipelineRefinement`). `PipelineEndToEnd` joins the two halves: what a row says
about its event is true of the consumers' tables. A row marked published has its
audit row and its fact, or a goroutine at it, unless a process died or a statement
failed; and there is nothing in the tables of an event whose domain transaction
did not commit. It takes `NoSilentLoss`, `EffectLostOnlyByFault` and
`OnlyFromBus`: goroutines and rows are only of events on the bus.

**Delivery** (`DeliveryProofs`).

| Theorem | What its invariant adds |
|---|---|
| `NoEffectLost` | counts of running handlers are numbers, so that a handler that ends wrote its table or was one of several; the fault counters only grow |
| `NatKept` | a delivery loop belongs to a subscription that is registered or about to be looked at under the lock by the call that made it (`NatCallbacks`); an Ack on its way was earned by a handler that succeeded, a Term by a message that cannot be decoded (`NatAnswersEarned`) |
| `IdxCountsBounded` | an event is pending once, and only if remembered (`IdxOnce`); a count is at most the number of created events the indexer is done with (`IdxBounded`) |
| `FsAccounts` | a row waits in one place, once, in its table's buffer or stash (`FsPlaced`, `FsOnce`), and is unwritten then unless a failed batch held it (`FsUnwritten`); `Close` stops the flusher only when the callers of `Handle` are gone (`FsStopped`) |

**Services** (`ServiceProofs`).

| Theorem | What its invariant adds |
|---|---|
| `HubCap` | the counter is at least the number of connections admitted |
| `CasReferencesSerial` | one holder of the advisory lock; its count is current until it inserts |
| `WfeCancelStands` | a worker about to write failed still has its claim; a canceled instance not held at its cancel is in no claim |
| `TmpAuditTold` | for each position of the execution, which steps are recorded and which messages queued; an activity still at work is one the execution has reached, so it repeats what was done (`TmpReached`) |
| `CnvRaces`, `CnvNoLate` | a row lock is held from the search to the end, so the conversation found stays open; a conversation is opened only by its own create's commit; what a search saw had been committed, and if it picked nothing none of that is open |
| `TgwCapped` | a window never dropped has every call of the last minute; nothing is admitted ahead of the clock |

**Sessions** (`SessionProofs`). `EslReplyOwned`: a connection carries one command
at most, in one place (command on the wire, reply on the wire, or reply slot);
who waits, waits on a connection that carries nothing else; a connection in use
carries nothing nobody waits for, because who gives up takes it along.
`AmiReplies`: a waiter is registered on the session its request waits on, and a
retry starts without the reply of the session before. `AmiRefinement` and
`EslRefinement` show that both clients implement `SwitchCommands`: a caller's
return with Success maps to `Confirm`, and that the switch has run the command by
then is the truth of the reply, which the invariants above give. Beyond them it
takes that only commands of requests that have begun are on a wire
(`AmiWritten`), and that a command not yet written is on none (`EslUnwritten`).

**Voice** (`VoiceProofs`).

| Theorem | What its invariant adds |
|---|---|
| `AtvCommands` | a request is only where its operation takes it, and a callback's handler has a leg; as long as PlaceCall may post, every dial so far got a retryable answer |
| `TwvReports` | a sid is used by one POST; a call that a Hangup ended is over before the Hangup says so; behind call.ended there is a call that was reported |
| `EvLegLives` | no call before the dial, no leg before it is tracked; a leg that ended is not tracked and will not be (`EvClosed`); a tracked leg whose call is over will hear of it, or a drop or an early result lost that (`EvHears`) |
| `AvLegLives` | on the wire, in the queue and in the delivery loop's hand the hangup is the last event of its channel; an ended leg has a silent channel; a run of Originate makes a fresh channel; a tracked leg's channel is indexed once its Newchannel was processed, unless that was lost or anonymous (`AvBound`); one that is down has its Hangup on the way or lost, or was never bound (`AvDown`); a transfer is staged, in hand or named, one at a time |

**Messages** (`SendProofs`).

| Theorem | What its invariant adds |
|---|---|
| `TwsSendOnce` | a claim has one owner while a call sends; the messages taken are those accepted and those with an unclear answer |
| `WacHonest` | a message is of an attempt that was made, and one whose answer was lost of the last attempt |
| `AtuKept` | unless it may start anew, a session that has shown a screen or that a callback works on is in the table, and one just started has no other callback at work (`AtuKnown`, `AtuTraced`) |
| `AtsAccounted` | a request that posts owns the one slot of its interaction; a message taken is paid for by an unclear answer, an eviction or that slot (`AtsBilled`); what was evicted had been accepted, and does not come back (`AtsGoneForGood`) |

**Planes.** `VoicePlaneSafe`, `MessagingPlaneSafe` and `PlatformSafe` are about the
specifications the three runs check: under `VpSpec`, `MpSpec` and `PlSpec`, each a
choice of one part in the initial state, the safety properties of all parts hold.
The parts' theorems carry over because a part that was not chosen stays as it
was.

Only model-checked:

- liveness under fairness (`EventuallyClosed`, `EveryEventTakesEffect`,
  `AppliedRowsGetMarked`, `HangupTakesEffect`, `StaleEntriesFade`,
  `EslCloseEnds`, `WacStatusArrives`), which is out of the prover's reach;
- what three runs find violated.

## 5. Observations without a run

Found while modelling and seen in counterexamples of formulas that are not kept
as runs:

- `dispatcher.go:14` says that "batches are claimed with `FOR UPDATE SKIP LOCKED`
  so competing workers never double-publish concurrently". The claim is an UPDATE
  over a plain sub-select: two dispatchers whose sub-selects ran before either
  UPDATE both publish the row.
- `dispatcher.go:18` says "failed batches are retried with exponential backoff
  capped at maxAttempts". A pending row is claimed whatever its
  `lease_expires_at`: ten attempts pass in ten ticks.
- `bus.go:10` says "Delivery contract: at-least-once." Handlers started by
  `Publish` die with the process after the row was acked.
- `comms/consumer.go:14` says the drain "then marks the row processed via the
  gateway's MarkProcessed". The webhook path applies a receipt and never marks it;
  once the call has moved on, the drain is refused until it skips the row.
- `routing/service.go:74` says unavailable agents "can never be assigned". The
  second of two routings within the TTL uses the stale cache, and `Invalidate` has
  no caller.
- Two dispatchers and one bus error: a released row keeps a `lease_expires_at`
  that passes, and a claim does not renew it, so two workers can take the row
  from each other for ever, publishing it each time. `EventuallyClosed` is
  therefore stated for one dispatcher.
- The audit consumer has no key on the event id: a double publish gives two rows.
- `Request.QueueID` has no effect: `agentViews` never fills `AgentView.QueueID`.
- A skill listed twice lowers every agent's coverage, and makes an urgent request
  unassignable.
- `Decide`'s comment says missing coverage never blocks low-priority requests; at
  priority 4 or less without coverage the 2.0 threshold does.
- `routing/service.go:180` says that `Route` "assigns the interaction + flips agent
  presence to busy — atomically". It ignores how many rows its assignment changed:
  for an interaction settled meanwhile the decision says assigned and the agent
  becomes busy with nothing. `LiveWorkHasAgent` bounds the harm to settled ones.
- `workerServices.QueueMessage` (worker `main.go:233`) drops every error of its
  INSERT, a statement that leaves `$2` to `$4` unused, so a step counts as sent
  whatever happened.
- `SetPresence` keeps `current_interaction_id` of the previous call.
- More than `batchSize` poison rows block the receipt drain until a restart, as
  `consumer.go:78` says (the opposite of what line 72 promises).
- Two concurrent creates of one customer open two conversations: neither search
  sees the other's, and no unique index forbids it.
- Temporal driver: `RecordStep` and `CompleteInstance` compare the current step
  and not the status, so an activity that was under way when `Cancel` sealed the
  row turns it from canceled back to running, waiting or completed.
- Asterisk: an Originate written again after a drop dials twice, and the
  interaction may get a second call.ended.
- FreeSWITCH: a job that fails before `PlaceCall` recorded it is not resolved
  (the fallback by payload works for `+OK` only): no call.failed is emitted and
  the leg stays registered. When the result was resolved by its payload first,
  `trackJob` then leaves an entry in the map of jobs for ever. A result that
  comes behind the answer emits ringing after connected.
- Asterisk: a leg whose Newchannel was lost, or carried no ActionID, and whose
  Hangup carries none either is not resolved by `legForEvent`: no call.ended is
  emitted and the leg stays registered.
- Twilio voice: a 2xx answer that cannot be parsed (`client.go:242`) is an error to
  the caller although the call is live, without a leg.
- Twilio voice: `post` repeats a dial after a transport error, so one `PlaceCall`
  may place two calls, of which one has no leg.
- Africa's Talking voice: a `Transfer` accepted after a `Hangup` replaces the
  queued hangup.
- Twilio messaging: the second of two Sends of an interaction returns nil at once
  (`twilio.go:378`); the first may still fail and give the claim back, and nothing
  was sent.
- Africa's Talking SMS: order entries of failed attempts count toward the cap
  (`sms.go:812`), so an accepted send may be evicted before the table is full; a
  recipient accepted without a message id (`sms.go:784`) never finds its report.
- `ussd.go:106` says that a session answered with END "is never reopened". It is
  when the END was evicted. It also is when a second callback continues the session
  while the first one, which started it, still runs and then fails: the failure
  forgets the session, so the END of the second is not retained and a repetition of
  it runs the handler again.
- `ussd.go:321` says that the eviction is strict FIFO and that open sessions may
  be lost; the code re-queues an open session and stops, so the table exceeds its
  cap instead.
- `bus/nats.go:28` says that a message whose handler fails "stays in the stream
  until acknowledged". The stream is created with a MaxAge of seven days (line 58):
  a message that fails for longer is dropped for every durable.
- Workflow engine: `Tick` ignores the error of `markFailed` (`engine.go:233`); the
  instance stays live, is claimed again and its step repeated.

## 6. Not modelled

- Webhook verifiers, token and role checks, and carrier formats are functions of
  the bytes of one request.
- Registry, configuration and secrets are read once at start-up; of the factory
  only the choice of a provider matters to the rest.
- Customers, agents and queues are single statements, or one transaction of
  inserts against unique indexes; so are the remaining operations of cases and
  conversations. Dashboards and search queries change nothing.
- The HTTP handlers other than the webhook's decode, call one operation and
  encode; the HTTP limiters and the key-set cache do their work under one mutex
  or in one script call.
- The AI runtime is a loop over an external model; its tool calls go through the
  modelled gateway.
- The telephony and messaging services call the carrier and then move the
  interaction; both halves are modelled (the adapters here, the move as an
  operator step of `Receipts`) but not their composition, which would multiply
  two state spaces that meet in one order only.
- The conformance suite and the load generator are tools.

## 7. Plan

Done: the outbox and its promise, the pipeline into the tables, receipts,
routing, every carrier adapter, conversations, cases, both workflow engines, the
fact store, the search indexer, the NATS bus, the realtime hub and the tools
gateway; a theorem for every safety property and refinement of the passing runs,
for the parts and for their compositions. Left:

1. The parts listed as partly modelled: the composition of the telephony and
   messaging services with their carriers.
