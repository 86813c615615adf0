---------------------------- MODULE Conversations ----------------------------
(***************************************************************************)
(* Interactions and their conversations: Create with find-or-open, and     *)
(* Close, as concurrent PostgreSQL transactions.                           *)
(*                                                                         *)
(* Create looks for the customer's open conversation and locks it, or      *)
(* opens one, or locks the one its caller names; it inserts the            *)
(* interaction, which is unique by its provider reference, and touches the *)
(* conversation.  The customer and the channel are fixed: conversations of *)
(* others are never looked at.  Conversation 0 is open from the beginning, *)
(* conversation n is the one create n opens.                               *)
(*                                                                         *)
(* PostgreSQL is external: at read committed a statement sees what was     *)
(* committed when it began, a row that was locked meanwhile is checked     *)
(* again in its new version, and of transactions that wait for each other  *)
(* one is aborted.                                                         *)
(***************************************************************************)
EXTENDS Integers, FiniteSets

CONSTANT CnvCreates \* records [n, ref, names]: ref "" for none; names: it gives conversation 0

ASSUME ConversationsAssumption ==
    /\ \A r \in CnvCreates : r.n \in Nat \ {0} /\ r.names \in BOOLEAN
    /\ \A r, s \in CnvCreates : r.n = s.n => r = s

CnvIds == {0} \cup {r.n : r \in CnvCreates}
CnvNone == -1

VARIABLES
    cnvStatus, \* conversations: none, open, closed, as committed
    cnvTx,     \* per create: position, conversation, row lock held, the row its
               \* search picked, the creates committed before it, and the result
    cnvRows    \* interactions: records [of, conv], as committed

cnvVars == <<cnvStatus, cnvTx, cnvRows>>

CnvInit ==
    /\ cnvStatus = [c \in CnvIds |-> IF c = 0 THEN "open" ELSE "none"]
    /\ cnvTx = [r \in CnvCreates |-> [at |-> "idle", conv |-> CnvNone, lock |-> "none",
                                      pick |-> CnvNone, seen |-> {}, result |-> "none"]]
    /\ cnvRows = {}

CnvOpen(c) == cnvStatus[c] = "open"
CnvHolds(r, c, locks) == cnvTx[r].conv = c /\ cnvTx[r].lock \in locks
CnvHeldByOther(r, c, locks) == \E s \in CnvCreates \ {r} : CnvHolds(s, c, locks)

\* The transaction ends, by commit or rollback, and its locks go.
CnvEnd(r, result) == [cnvTx EXCEPT ![r].at = "done", ![r].lock = "none", ![r].result = result]

(***************************************************************************)
(* The conversation.                                                       *)
(***************************************************************************)
\* What the search of findOrOpenConversation may pick: updated_at is the start
\* of a transaction, so any of the open ones may be the latest.
CnvCandidates == {c \in CnvIds : CnvOpen(c)}

\* findOrOpenConversation begins: the open conversation it picks, or none.
CnvSearch(r, pick) ==
    /\ cnvTx[r].at = "idle" /\ ~r.names
    /\ IF CnvCandidates = {} THEN pick = CnvNone ELSE pick \in CnvCandidates
    /\ cnvTx' = [cnvTx EXCEPT ![r].at = "lock", ![r].pick = pick, ![r].seen = {w.of : w \in cnvRows}]
    /\ UNCHANGED <<cnvStatus, cnvRows>>

\* A bug: the search shares the row lock it will need alone.
CnvSearchLockShared == "share"

\* The lock under which the search takes a row.
CnvSearchLock == "update"

\* A bug: the row is not looked at again once its lock is held.
CnvStillThereUnchecked(c) == c # CnvNone

\* A row that is open no more when its lock comes free is no result: LIMIT 1 has
\* been used up, and the search finds nothing.
CnvStillThere(c) == c # CnvNone /\ CnvOpen(c)

\* The search ends with the row locked FOR UPDATE, or opens a conversation.
CnvFindOrOpen(r) ==
    LET pick == cnvTx[r].pick
        found == CnvStillThere(pick)
    IN  /\ cnvTx[r].at = "lock"
        /\ ~CnvHeldByOther(r, pick, IF CnvSearchLock = "update" THEN {"share", "update"} ELSE {"update"})
        /\ cnvTx' = [cnvTx EXCEPT ![r].at = "insert", ![r].conv = IF found THEN pick ELSE r.n,
                                  ![r].lock = IF found THEN CnvSearchLock ELSE "update"]
        /\ UNCHANGED <<cnvStatus, cnvRows>>

\* A named conversation is locked FOR SHARE; one that is closed is a conflict.
CnvNamed(r) ==
    /\ cnvTx[r].at = "idle" /\ r.names
    /\ ~CnvHeldByOther(r, 0, {"update"})
    /\ cnvTx' = IF CnvOpen(0)
                THEN [cnvTx EXCEPT ![r].at = "insert", ![r].conv = 0, ![r].lock = "share",
                                   ![r].seen = {w.of : w \in cnvRows}]
                ELSE CnvEnd(r, "closed")
    /\ UNCHANGED <<cnvStatus, cnvRows>>

(***************************************************************************)
(* The interaction.                                                        *)
(***************************************************************************)
CnvSameRef(r, s) == r # s /\ r.ref # "" /\ r.ref = s.ref

\* The index entry of another transaction in progress makes the insert wait.
CnvInsertWaits(r) == {s \in CnvCreates : CnvSameRef(r, s) /\ cnvTx[s].at = "touch"}

\* What a duplicate does with its transaction: the deferred Rollback.
CnvDuplicate(r) == cnvTx' = CnvEnd(r, "existing") /\ UNCHANGED <<cnvStatus, cnvRows>>

\* INSERT: a provider reference that is there is a duplicate, and the existing
\* interaction is the answer.
CnvInsert(r) ==
    /\ cnvTx[r].at = "insert" /\ CnvInsertWaits(r) = {}
    /\ IF \E w \in cnvRows : \E s \in CnvCreates : s.n = w.of /\ CnvSameRef(r, s)
       THEN CnvDuplicate(r)
       ELSE cnvTx' = [cnvTx EXCEPT ![r].at = "touch"] /\ UNCHANGED <<cnvStatus, cnvRows>>

\* The touch of the conversation waits for whoever else has the row locked.
CnvTouchWaits(r) == {s \in CnvCreates \ {r} : CnvHolds(s, cnvTx[r].conv, {"share", "update"})}

\* UPDATE of the conversation, outbox row and COMMIT.
CnvCommit(r) ==
    /\ cnvTx[r].at = "touch" /\ CnvTouchWaits(r) = {}
    /\ cnvStatus' = [cnvStatus EXCEPT ![cnvTx[r].conv] = IF @ = "none" THEN "open" ELSE @]
    /\ cnvRows' = cnvRows \cup {[of |-> r.n, conv |-> cnvTx[r].conv]}
    /\ cnvTx' = CnvEnd(r, "created")

\* A statement fails, or the connection does.
CnvFails(r) ==
    /\ cnvTx[r].at \in {"lock", "insert", "touch"}
    /\ cnvTx' = CnvEnd(r, "error")
    /\ UNCHANGED <<cnvStatus, cnvRows>>

\* Whom a create waits for, apart from the lock of its search.
CnvWaits(r) ==
    CASE cnvTx[r].at = "insert" -> CnvInsertWaits(r)
      [] cnvTx[r].at = "touch"  -> CnvTouchWaits(r)
      [] OTHER                  -> {}

\* PostgreSQL breaks a cycle of waits.
CnvDeadlock(r) ==
    /\ \E s \in CnvWaits(r) : r \in CnvWaits(s)
    /\ cnvTx' = CnvEnd(r, "deadlock")
    /\ UNCHANGED <<cnvStatus, cnvRows>>

\* Close: the row is locked FOR UPDATE, and closed unless it is already.
CnvClose(c) ==
    /\ CnvOpen(c)
    /\ \A r \in CnvCreates : ~CnvHolds(r, c, {"share", "update"})
    /\ cnvStatus' = [cnvStatus EXCEPT ![c] = "closed"]
    /\ UNCHANGED <<cnvTx, cnvRows>>

CnvNext ==
    \/ \E r \in CnvCreates :
        \/ \E pick \in CnvIds \cup {CnvNone} : CnvSearch(r, pick)
        \/ CnvFindOrOpen(r) \/ CnvNamed(r) \/ CnvInsert(r)
        \/ CnvCommit(r) \/ CnvFails(r) \/ CnvDeadlock(r)
    \/ \E c \in CnvIds : CnvClose(c)

CnvSpec == CnvInit /\ [][CnvNext]_cnvVars

(***************************************************************************)
(* Properties.                                                             *)
(***************************************************************************)
\* No interaction is committed into a conversation that has been closed, though
\* Create may have read the conversation before Close committed.
CnvNoLateInteraction ==
    [][\A w \in cnvRows' \ cnvRows : cnvStatus'[w.conv] = "open"]_cnvVars

\* The customer has two open conversations only through a race: neither create
\* was committed when the other searched, or a search lost the row it had
\* picked to a Close.
CnvSplitNeedsRace ==
    \A r, s \in CnvCreates :
        r # s /\ CnvOpen(r.n) /\ CnvOpen(s.n)
            => \/ r.n \notin cnvTx[s].seen /\ s.n \notin cnvTx[r].seen
               \/ cnvTx[r].pick # CnvNone \/ cnvTx[s].pick # CnvNone

\* A duplicate or failed create leaves no conversation behind: each one that was
\* opened holds the interaction it was opened for.
CnvNoStray ==
    \A c \in CnvIds \ {0} : cnvStatus[c] # "none" => [of |-> c, conv |-> c] \in cnvRows

\* Only creates that name their conversation can wait for each other in a
\* circle: they share the row lock and both want to touch the row.
CnvVictimNamed == \A r \in CnvCreates : cnvTx[r].result = "deadlock" => r.names

\* What may go wrong among concurrent creates has these causes and no other.
CnvRacesExplained == CnvSplitNeedsRace /\ CnvNoStray /\ CnvVictimNamed
=============================================================================
