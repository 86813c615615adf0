----------------------------- MODULE FactStore ------------------------------
(***************************************************************************)
(* The ClickHouse fact store: Handle puts a row on the bounded buffer of   *)
(* its table and waits for room; one flusher drains the buffers into its   *)
(* stash and writes a batch per table; rows that could not be written go   *)
(* back to the buffers, shedding what does not fit; Close waits for the    *)
(* callers of Handle and lets the flusher write the rest.                  *)
(*                                                                         *)
(* The driver and the server are external: a batch that the driver reports *)
(* as failed may have been written.                                        *)
(***************************************************************************)
EXTENDS Integers, Sequences, FiniteSets

CONSTANTS
    FsRows,      \* rows of fact tables, records [table, n], each one call of Handle
    FsMaxRows,   \* MaxBatchRows: capacity of a buffer and trigger of a flush
    FsMaxFailing \* bound: flushes that fail

FsTables == {"interaction", "usage"}

ASSUME FactStoreAssumption ==
    /\ \A r \in FsRows : r.table \in FsTables
    /\ FsMaxRows \in Nat \ {0} /\ FsMaxFailing \in Nat

VARIABLES
    fsCall,    \* per row, its call of Handle: idle, entered, blocked, accepted, refused
    fsBuffer,  \* interCh and usageCh
    fsFlusher, \* position of the flusher and its stash of rows of each table
    fsClose,   \* Close: open, closing, stopping, ok, failed
    fsWritten, \* external: per row, how often it was written
    fsHistory  \* rows shed, rows reported as failed but written, failed flushes

fsVars == <<fsCall, fsBuffer, fsFlusher, fsClose, fsWritten, fsHistory>>

FsNoRows == [t \in FsTables |-> <<>>]

FsInit ==
    /\ fsCall = [r \in FsRows |-> "idle"]
    /\ fsBuffer = FsNoRows
    /\ fsFlusher = [at |-> "select", stash |-> FsNoRows]
    /\ fsClose = "open"
    /\ fsWritten = [r \in FsRows |-> 0]
    /\ fsHistory = [shed |-> {}, unsure |-> {}, failing |-> 0]

FsRoom(t) == Len(fsBuffer[t]) < FsMaxRows

(***************************************************************************)
(* Handle.                                                                 *)
(***************************************************************************)
\* Under the lock: a store that is closed refuses; otherwise Close will wait.
FsEnter(r) ==
    /\ fsCall[r] = "idle"
    /\ fsCall' = [fsCall EXCEPT ![r] = IF fsClose = "open" THEN "entered" ELSE "refused"]
    /\ UNCHANGED <<fsBuffer, fsFlusher, fsClose, fsWritten, fsHistory>>

FsAccept(r) ==
    /\ fsCall[r] \in {"entered", "blocked"} /\ FsRoom(r.table)
    /\ fsBuffer' = [fsBuffer EXCEPT ![r.table] = Append(@, r)]
    /\ fsCall' = [fsCall EXCEPT ![r] = "accepted"]
    /\ UNCHANGED <<fsFlusher, fsClose, fsWritten, fsHistory>>

FsBlock(r) ==
    /\ fsCall[r] = "entered" /\ ~FsRoom(r.table)
    /\ fsCall' = [fsCall EXCEPT ![r] = "blocked"]
    /\ UNCHANGED <<fsBuffer, fsFlusher, fsClose, fsWritten, fsHistory>>

\* The caller's context, Close or the enqueue timeout ends the wait.
FsGiveUp(r) ==
    /\ fsCall[r] = "blocked"
    /\ fsCall' = [fsCall EXCEPT ![r] = "refused"]
    /\ UNCHANGED <<fsBuffer, fsFlusher, fsClose, fsWritten, fsHistory>>

(***************************************************************************)
(* The flusher.                                                            *)
(***************************************************************************)
FsTake(t, to) ==
    /\ fsBuffer[t] # <<>>
    /\ fsFlusher' = [at |-> to, stash |-> [fsFlusher.stash EXCEPT ![t] = Append(@, Head(fsBuffer[t]))]]
    /\ fsBuffer' = [fsBuffer EXCEPT ![t] = Tail(@)]
    /\ UNCHANGED <<fsCall, fsClose, fsWritten, fsHistory>>

\* The loop receives a row, then drains both buffers for as long as there is
\* anything in them.
FsReceive(t) == fsFlusher.at = "select" /\ FsTake(t, "drain")
FsDrain(t) == fsFlusher.at = "drain" /\ FsTake(t, "drain")

FsDrained ==
    /\ fsFlusher.at = "drain" /\ fsBuffer = FsNoRows
    /\ LET stashed == Len(fsFlusher.stash["interaction"]) + Len(fsFlusher.stash["usage"])
       IN  fsFlusher' = [fsFlusher EXCEPT !.at = IF stashed >= FsMaxRows THEN "flush" ELSE "select"]
    /\ UNCHANGED <<fsCall, fsBuffer, fsClose, fsWritten, fsHistory>>

FsTick ==
    /\ fsFlusher.at = "select" /\ fsFlusher.stash # FsNoRows
    /\ fsFlusher' = [fsFlusher EXCEPT !.at = "flush"]
    /\ UNCHANGED <<fsCall, fsBuffer, fsClose, fsWritten, fsHistory>>

\* sendAll: a batch per table, each on its own; a connection that cannot be
\* dialled fails both.  Returns the rows of the tables that failed.
FsUnsent(rows, failed) == [t \in FsTables |-> IF t \in failed THEN rows[t] ELSE <<>>]

\* The rows of some tables.
FsOf(rows, tables) == {r \in FsRows : \E t \in tables : \E k \in DOMAIN rows[t] : rows[t][k] = r}

\* What a send does to the server and to the history, when the batches of
\* "failed" fail, those of "unsure" among them after they were written.
FsSend(rows, failed, unsure) ==
    LET lands == FsOf(rows, (FsTables \ failed) \cup unsure)
    IN  /\ failed # {} => fsHistory.failing < FsMaxFailing
        /\ unsure \subseteq failed /\ \A t \in failed : rows[t] # <<>>
        /\ fsWritten' = [r \in FsRows |-> IF r \in lands THEN fsWritten[r] + 1 ELSE fsWritten[r]]
        /\ fsHistory' = [fsHistory EXCEPT !.unsure = @ \cup FsOf(rows, unsure),
                                          !.failing = IF failed = {} THEN @ ELSE @ + 1]

FsFlush(failed, unsure) ==
    /\ fsFlusher.at = "flush"
    /\ FsSend(fsFlusher.stash, failed, unsure)
    /\ fsFlusher' = [at |-> IF failed = {} THEN "select" ELSE "requeue",
                     stash |-> FsUnsent(fsFlusher.stash, failed)]
    /\ UNCHANGED <<fsCall, fsBuffer, fsClose>>

\* requeue puts the next unsent row back, those of the interaction table first.
\* In a full buffer the oldest row is shed; if a blocked caller takes the place,
\* this row is shed too.
FsRequeue(winner) ==
    LET t == IF fsFlusher.stash["interaction"] # <<>> THEN "interaction" ELSE "usage"
        r == Head(fsFlusher.stash[t])
        rest == [fsFlusher.stash EXCEPT ![t] = Tail(@)]
    IN  /\ fsFlusher.at = "requeue"
        /\ winner = r \/ (winner.table = t /\ fsCall[winner] = "blocked" /\ ~FsRoom(t))
        /\ fsBuffer' = [fsBuffer EXCEPT ![t] = Append(IF FsRoom(t) THEN @ ELSE Tail(@), winner)]
        /\ fsCall' = IF winner = r THEN fsCall ELSE [fsCall EXCEPT ![winner] = "accepted"]
        /\ fsHistory' = [fsHistory EXCEPT !.shed =
                @ \cup (IF FsRoom(t) THEN {} ELSE {Head(fsBuffer[t])}) \cup ({r} \ {winner})]
        /\ fsFlusher' = [at |-> IF rest = FsNoRows THEN "select" ELSE "requeue", stash |-> rest]
        /\ UNCHANGED <<fsClose, fsWritten>>

(***************************************************************************)
(* Close.                                                                  *)
(***************************************************************************)
FsClose ==
    /\ fsClose = "open"
    /\ fsClose' = "closing"
    /\ UNCHANGED <<fsCall, fsBuffer, fsFlusher, fsWritten, fsHistory>>

\* A bug: the last flush does not wait for the callers inside Handle.
FsCallersIgnored == TRUE

\* wg.Wait: every caller is out, so every accepted row is on a buffer.
FsCallersGone == \A r \in FsRows : fsCall[r] \notin {"entered", "blocked"}

FsStop ==
    /\ fsClose = "closing" /\ FsCallersGone
    /\ fsClose' = "stopping"
    /\ UNCHANGED <<fsCall, fsBuffer, fsFlusher, fsWritten, fsHistory>>

\* shutdown: the last drain and the last flush, whose failure Close returns.
FsShutdown(failed, unsure) ==
    LET rows == [t \in FsTables |-> fsFlusher.stash[t] \o fsBuffer[t]]
    IN  /\ fsClose = "stopping" /\ fsFlusher.at = "select"
        /\ FsSend(rows, failed, unsure)
        /\ fsFlusher' = [at |-> "stopped", stash |-> FsNoRows]
        /\ fsBuffer' = FsNoRows
        /\ fsClose' = IF failed = {} THEN "ok" ELSE "failed"
        /\ UNCHANGED fsCall

FsNext ==
    \/ \E r \in FsRows : FsEnter(r) \/ FsAccept(r) \/ FsBlock(r) \/ FsGiveUp(r) \/ FsRequeue(r)
    \/ \E t \in FsTables : FsReceive(t) \/ FsDrain(t)
    \/ FsDrained \/ FsTick \/ FsClose \/ FsStop
    \/ \E failed, unsure \in SUBSET FsTables : FsFlush(failed, unsure) \/ FsShutdown(failed, unsure)

FsSpec == FsInit /\ [][FsNext]_fsVars

(***************************************************************************)
(* Properties.                                                             *)
(***************************************************************************)
FsAccepted == {r \in FsRows : fsCall[r] = "accepted"}

\* Once Close returned without an error, every row a call of Handle accepted
\* is in ClickHouse or was shed by a requeue: none is stranded in a buffer or
\* a stash by the race between the last callers and the last flush.
FsNoSilentLoss ==
    fsClose = "ok" => FsAccepted \subseteq {r \in FsRows : fsWritten[r] > 0} \cup fsHistory.shed

\* A row is written again only if its own batch was reported as failed after
\* it was written: the failure of one table does not repeat the other's.
FsDuplicateExplained ==
    \A r \in FsRows : fsWritten[r] > 1 => r \in fsHistory.unsure

\* Every accepted row is accounted for: written, or shed, and written twice
\* only with a cause.
FsRowsAccounted == FsNoSilentLoss /\ FsDuplicateExplained
=============================================================================
