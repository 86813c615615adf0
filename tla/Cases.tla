-------------------------------- MODULE Cases --------------------------------
(***************************************************************************)
(* Cases: Open with its serial reference, and the guarded lifecycle.       *)
(*                                                                         *)
(* Open takes the tenant's advisory lock, counts the references of this    *)
(* year, asks the clock again to write the next one, and inserts: a        *)
(* reference that is there is a conflict.  The lock goes with the          *)
(* transaction.  The year is external and turns at most once.              *)
(***************************************************************************)
EXTENDS Integers, FiniteSets

CONSTANT CasOpens \* calls of Open, all of one tenant; a case is named by its Open

ASSUME CasesAssumption == IsFiniteSet(CasOpens)

CasStatuses == {"open", "in_progress", "pending_customer", "resolved", "closed", "canceled"}

VARIABLES
    casTx,      \* per Open: idle, locked, counted, done; the count; its year; result
    casRows,    \* cases as committed: none, or reference and status
    casYear,    \* external: 1, 2
    casStraddle \* history: the Opens whose count and reference are of two years

casVars == <<casTx, casRows, casYear, casStraddle>>

CasNoRow == [year |-> 0, no |-> 0, status |-> "none"]

CasInit ==
    /\ casTx = [o \in CasOpens |-> [at |-> "idle", count |-> 0, year |-> 0, result |-> "none"]]
    /\ casRows = [o \in CasOpens |-> CasNoRow]
    /\ casYear = 1
    /\ casStraddle = {}

\* A bug: no lock is taken before the count.
CasLockedNever == {}

\* pg_advisory_xact_lock: who is between lock and end of transaction.
CasLocked == {o \in CasOpens : casTx[o].at \in {"locked", "counted"}}

CasLock(o) ==
    /\ casTx[o].at = "idle" /\ CasLocked = {}
    /\ casTx' = [casTx EXCEPT ![o].at = "locked"]
    /\ UNCHANGED <<casRows, casYear, casStraddle>>

\* The references of this year, in the transaction's view.
CasCount(o) ==
    /\ casTx[o].at = "locked"
    /\ casTx' = [casTx EXCEPT ![o].at = "counted", ![o].year = casYear,
                              ![o].count = Cardinality({p \in CasOpens : casRows[p].year = casYear})]
    /\ UNCHANGED <<casRows, casYear, casStraddle>>

CasTaken(year, no) == \E p \in CasOpens : casRows[p].year = year /\ casRows[p].no = no

\* The reference is written with the year it is now; INSERT, event, COMMIT.
CasInsert(o) ==
    LET no == casTx[o].count + 1
        clash == CasTaken(casYear, no)
    IN  /\ casTx[o].at = "counted"
        /\ casRows' = IF clash THEN casRows
                      ELSE [casRows EXCEPT ![o] = [year |-> casYear, no |-> no, status |-> "open"]]
        /\ casTx' = [casTx EXCEPT ![o].at = "done", ![o].result = IF clash THEN "conflict" ELSE "opened"]
        /\ casStraddle' = IF casTx[o].year = casYear THEN casStraddle ELSE casStraddle \cup {o}
        /\ UNCHANGED casYear

\* A statement fails: rollback, and the lock goes.
CasFails(o) ==
    /\ o \in CasLocked
    /\ casTx' = [casTx EXCEPT ![o].at = "done", ![o].result = "error"]
    /\ UNCHANGED <<casRows, casYear, casStraddle>>

CasNewYear ==
    /\ casYear = 1
    /\ casYear' = 2
    /\ UNCHANGED <<casTx, casRows, casStraddle>>

\* transitions.
CasCanTransition(from) ==
    CASE from = "open"             -> {"in_progress", "resolved", "canceled"}
      [] from = "in_progress"      -> {"pending_customer", "resolved", "canceled"}
      [] from = "pending_customer" -> {"in_progress", "resolved", "canceled"}
      [] from = "resolved"         -> {"closed", "in_progress"}
      [] OTHER                     -> {}

\* Transition, under the row's lock.
CasTransition(o, to) ==
    /\ to \in CasCanTransition(casRows[o].status)
    /\ casRows' = [casRows EXCEPT ![o].status = to]
    /\ UNCHANGED <<casTx, casYear, casStraddle>>

CasNext ==
    \/ \E o \in CasOpens :
        \/ CasLock(o) \/ CasCount(o) \/ CasInsert(o) \/ CasFails(o)
        \/ \E to \in CasStatuses : CasTransition(o, to)
    \/ CasNewYear

CasSpec == CasInit /\ [][CasNext]_casVars

(***************************************************************************)
(* Properties.                                                             *)
(***************************************************************************)
CasNumbers(year) == {casRows[o].no : o \in {p \in CasOpens : casRows[p].year = year}}

\* Concurrent Opens get the references 1, 2, 3, ... of the year without a gap
\* and none is refused, unless the year turned between an Open's two looks at
\* the clock.
CasSerial ==
    casStraddle = {} =>
        /\ \A o \in CasOpens : casTx[o].result # "conflict"
        /\ \A year \in {1, 2} : CasNumbers(year) = 1 .. Cardinality({o \in CasOpens : casRows[o].year = year})
=============================================================================
