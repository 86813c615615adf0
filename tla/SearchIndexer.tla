--------------------------- MODULE SearchIndexer ----------------------------
(***************************************************************************)
(* The search indexer: a bus handler that never blocks, a bounded queue,   *)
(* one worker that projects events into one document per conversation.     *)
(*                                                                         *)
(* Handle remembers the event's id before it queues the event, so an event *)
(* the full queue shed is not taken again.  The bus runs handlers in their *)
(* own goroutines and repeats events, so they come in any order.           *)
(*                                                                         *)
(* The bus and OpenSearch are external: a write that fails may have been   *)
(* applied.                                                                *)
(***************************************************************************)
EXTENDS Integers, Sequences, FiniteSets

CONSTANTS
    IdxEvents,       \* projected events, records [kind, conv, inter]
    IdxQueueSize,    \* QueueSize
    IdxDedupeSize,   \* DedupeSize
    IdxMaxDeliveries \* bound: deliveries of one event by the bus

IdxKinds == {"opened", "closed", "created", "touched"}
IdxConversations == {e.conv : e \in IdxEvents}

ASSUME SearchIndexerAssumption ==
    /\ IsFiniteSet(IdxEvents) /\ \A e \in IdxEvents : e.kind \in IdxKinds
    /\ IdxQueueSize \in Nat \ {0} /\ IdxDedupeSize \in Nat \ {0} /\ IdxMaxDeliveries \in Nat

VARIABLES
    idxDelivered, \* external: per event, deliveries so far
    idxQueue,     \* queue
    idxSeen,      \* seen: a ring of events
    idxConvOf,    \* convOf: a ring of interactions whose conversation is known
    idxWorker,    \* the event being written; whether the worker has stopped
    idxDoc,       \* external: the documents
    idxForgot     \* history: the ring of ids has forgotten one

idxVars == <<idxDelivered, idxQueue, idxSeen, idxConvOf, idxWorker, idxDoc, idxForgot>>

IdxNoDoc == [status |-> "none", count |-> 0, last |-> "none"]

IdxInit ==
    /\ idxDelivered = [e \in IdxEvents |-> 0]
    /\ idxQueue = <<>> /\ idxSeen = <<>> /\ idxConvOf = <<>>
    /\ idxWorker = [hand |-> {}, stopped |-> FALSE]
    /\ idxDoc = [c \in IdxConversations |-> IdxNoDoc]
    /\ idxForgot = FALSE

IdxIn(x, ring) == \E k \in DOMAIN ring : ring[k] = x

\* putIfAbsent and put: a new key takes the slot of the oldest in a full ring.
IdxPut(ring, x) ==
    IF IdxIn(x, ring) THEN ring
    ELSE Append(IF Len(ring) = IdxDedupeSize THEN Tail(ring) ELSE ring, x)

\* A bug: only events that are still queued are recognized.
IdxDuplicateQueued(e) == \E k \in DOMAIN idxQueue : idxQueue[k] = e

\* An id the ring holds was handled before.
IdxDuplicate(e) == IdxIn(e, idxSeen)

(***************************************************************************)
(* Handle.                                                                 *)
(***************************************************************************)
IdxHandle(e) ==
    /\ idxDelivered[e] < IdxMaxDeliveries
    /\ idxDelivered' = [idxDelivered EXCEPT ![e] = @ + 1]
    /\ IF IdxDuplicate(e)
       THEN UNCHANGED <<idxQueue, idxSeen, idxForgot>>
       ELSE /\ idxSeen' = IdxPut(idxSeen, e)
            /\ idxForgot' = (idxForgot \/ Len(idxSeen) = IdxDedupeSize)
            /\ idxQueue' = IF Len(idxQueue) < IdxQueueSize THEN Append(idxQueue, e) ELSE idxQueue
    /\ UNCHANGED <<idxConvOf, idxWorker, idxDoc>>

(***************************************************************************)
(* The worker.                                                             *)
(***************************************************************************)
\* run takes the next event; project learns the conversation of an
\* interaction that was created, and skips one it does not know.
IdxProject ==
    LET e == Head(idxQueue)
        skip == e.kind = "touched" /\ ~IdxIn(e.inter, idxConvOf)
    IN  /\ ~idxWorker.stopped /\ idxWorker.hand = {} /\ idxQueue # <<>>
        /\ idxQueue' = Tail(idxQueue)
        /\ idxConvOf' = IF e.kind = "created" THEN IdxPut(idxConvOf, e.inter) ELSE idxConvOf
        /\ idxWorker' = IF skip THEN idxWorker ELSE [idxWorker EXCEPT !.hand = {e}]
        /\ UNCHANGED <<idxDelivered, idxSeen, idxDoc, idxForgot>>

\* What a write does to the document: "opened" replaces it; the others update
\* it, or insert the document they carry, without a count, if there is none.
IdxApply(e, d) ==
    CASE e.kind = "opened"  -> [status |-> "open", count |-> 0, last |-> "none"]
      [] e.kind = "closed"  -> [d EXCEPT !.status = "closed"]
      [] e.kind = "created" /\ d.status # "none" -> [d EXCEPT !.count = @ + 1, !.last = e.inter]
      [] e.kind = "touched" /\ d.status # "none" -> [d EXCEPT !.last = e.inter]
      [] OTHER              -> [status |-> "open", count |-> 0, last |-> e.inter]

\* write: no retry; a write that failed may have been applied, and the worker
\* does not tell the two apart.
IdxWrite(applied) ==
    \E e \in idxWorker.hand :
        /\ idxDoc' = IF applied THEN [idxDoc EXCEPT ![e.conv] = IdxApply(e, @)] ELSE idxDoc
        /\ idxWorker' = [idxWorker EXCEPT !.hand = {}]
        /\ UNCHANGED <<idxDelivered, idxQueue, idxSeen, idxConvOf, idxForgot>>

\* Close, or the context's end, stops the worker between two events; handlers
\* that still run go on queueing.
IdxStop ==
    /\ ~idxWorker.stopped /\ idxWorker.hand = {}
    /\ idxWorker' = [idxWorker EXCEPT !.stopped = TRUE]
    /\ UNCHANGED <<idxDelivered, idxQueue, idxSeen, idxConvOf, idxDoc, idxForgot>>

IdxNext ==
    \/ \E e \in IdxEvents : IdxHandle(e)
    \/ IdxProject \/ IdxStop
    \/ \E applied \in BOOLEAN : IdxWrite(applied)

IdxSpec == IdxInit /\ [][IdxNext]_idxVars

(***************************************************************************)
(* Properties.                                                             *)
(***************************************************************************)
\* A conversation never shows more interactions than it has, as long as the
\* ring remembers every id: a repeated event has a single effect, also when
\* the write it repeats failed after it was applied.
IdxNeverOvercounts ==
    ~idxForgot =>
        \A c \in IdxConversations :
            idxDoc[c].count <= Cardinality({e \in IdxEvents : e.conv = c /\ e.kind = "created"})
=============================================================================
