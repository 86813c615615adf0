------------------------------- MODULE AtUssd -------------------------------
(***************************************************************************)
(* The Africa's Talking USSD surface: callbacks of carrier sessions and    *)
(* the adapter's table of sessions.                                        *)
(*                                                                         *)
(* begin opens an unknown session or continues an open one; a session      *)
(* answered with END is replayed.  The menu handler runs outside the lock, *)
(* its failure rewinds the session the callback opened, and the last step  *)
(* retains the END answer.  The carrier repeats callbacks it got no answer *)
(* for, so callbacks of one session may run at once.                       *)
(*                                                                         *)
(* The handler, the carrier and the ingest port are external.              *)
(***************************************************************************)
EXTENDS Integers, Sequences, FiniteSets

CONSTANTS
    AtuCallbacks, \* callbacks, records [session, n]: several may belong to one session
    AtuCap        \* the table's capacity

AtuSessions == {c.session : c \in AtuCallbacks}

ASSUME AtUssdAssumption == AtuCap \in Nat \ {0}

VARIABLES
    atuCall,    \* per callback: idle, started, continued, ending, done
    atuTable,   \* ussdTable: sessions (none, open, ended), order
    atuHistory  \* sessions of which a screen was shown, answered with END,
                \* started again after a screen, evicted, and continued while
                \* the callback that had started them was still running

atuVars == <<atuCall, atuTable, atuHistory>>

AtuInit ==
    /\ atuCall = [c \in AtuCallbacks |-> "idle"]
    /\ atuTable = [sessions |-> [s \in AtuSessions |-> "none"], order |-> <<>>]
    /\ atuHistory = [shown |-> {}, answered |-> {}, restarted |-> {}, evicted |-> {}, overtaken |-> {}]

(***************************************************************************)
(* The table.                                                              *)
(***************************************************************************)
\* A bug: the head of the queue goes whether it is open or not.
AtuEvictAny(t) ==
    LET overflow == Len(t.order) - AtuCap
        gone == {t.order[k] : k \in 1 .. overflow}
    IN  IF overflow <= 0 THEN t
        ELSE [sessions |-> [s \in AtuSessions |-> IF s \in gone THEN "none" ELSE t.sessions[s]],
              order |-> SubSeq(t.order, overflow + 1, Len(t.order))]

\* evictLocked takes the oldest entries beyond the cap, up to the first open
\* session, which goes to the back of the queue and stops it.
AtuEvict(t) ==
    LET overflow == Len(t.order) - AtuCap
        open == {k \in 1 .. overflow : t.sessions[t.order[k]] = "open"}
        stop == IF open = {} THEN overflow + 1 ELSE CHOOSE k \in open : \A j \in open : k <= j
        gone == {t.order[k] : k \in 1 .. stop - 1}
        rest == SubSeq(t.order, stop, Len(t.order))
    IN  IF overflow <= 0 THEN t
        ELSE [sessions |-> [s \in AtuSessions |-> IF s \in gone THEN "none" ELSE t.sessions[s]],
              order |-> IF open = {} THEN rest ELSE Append(Tail(rest), Head(rest))]

\* rewind forgets the session unless it has ended.
AtuRewind(s) ==
    IF atuTable.sessions[s] = "open" THEN [atuTable EXCEPT !.sessions[s] = "none"] ELSE atuTable

\* end retains the answer, if the session is still there.
AtuRetain(s) ==
    IF atuTable.sessions[s] # "none" THEN [atuTable EXCEPT !.sessions[s] = "ended"] ELSE atuTable

(***************************************************************************)
(* TranslateUssdCallback.                                                  *)
(***************************************************************************)
\* begin: an unknown session is started.
AtuStart(c) ==
    LET opened == [atuTable EXCEPT !.sessions[c.session] = "open", !.order = Append(@, c.session)]
        next == AtuEvict(opened)
        lost == {s \in AtuSessions : opened.sessions[s] # "none" /\ next.sessions[s] = "none"}
    IN  /\ atuCall[c] = "idle" /\ atuTable.sessions[c.session] = "none"
        /\ atuTable' = next
        /\ atuCall' = [atuCall EXCEPT ![c] = "started"]
        /\ atuHistory' = [atuHistory EXCEPT
                !.restarted = @ \cup ({c.session} \cap atuHistory.shown),
                !.evicted = @ \cup lost]

\* begin: an open session continues.
AtuContinue(c) ==
    /\ atuCall[c] = "idle" /\ atuTable.sessions[c.session] = "open"
    /\ atuCall' = [atuCall EXCEPT ![c] = "continued"]
    /\ atuHistory' = [atuHistory EXCEPT
            !.overtaken = IF \E d \in AtuCallbacks : d.session = c.session /\ atuCall[d] = "started"
                          THEN @ \cup {c.session} ELSE @]
    /\ UNCHANGED atuTable

\* begin: a session that ended is answered as before, without the handler.
AtuReplay(c) ==
    /\ atuCall[c] = "idle" /\ atuTable.sessions[c.session] = "ended"
    /\ atuCall' = [atuCall EXCEPT ![c] = "done"]
    /\ UNCHANGED <<atuTable, atuHistory>>

\* The handler fails, or replies with no text: the callback that started the
\* session rewinds it.
AtuHandlerFails(c) ==
    /\ atuCall[c] \in {"started", "continued"}
    /\ atuCall' = [atuCall EXCEPT ![c] = "done"]
    /\ atuTable' = IF atuCall[c] = "started" THEN AtuRewind(c.session) ELSE atuTable
    /\ UNCHANGED atuHistory

\* The handler replies: the phase event is emitted, with one retry, whatever
\* comes of it; a reply that goes on is the answer.
AtuHandlerReplies(c, end) ==
    /\ atuCall[c] \in {"started", "continued"}
    /\ atuCall' = [atuCall EXCEPT ![c] = IF end THEN "ending" ELSE "done"]
    /\ atuHistory' = [atuHistory EXCEPT !.shown = @ \cup (IF end THEN {} ELSE {c.session})]
    /\ UNCHANGED atuTable

\* The reply ends the session: the end event is emitted, the answer retained
\* and returned.
AtuEnd(c) ==
    /\ atuCall[c] = "ending"
    /\ atuCall' = [atuCall EXCEPT ![c] = "done"]
    /\ atuTable' = AtuRetain(c.session)
    /\ atuHistory' = [atuHistory EXCEPT !.shown = @ \cup {c.session}, !.answered = @ \cup {c.session}]

AtuNext ==
    \E c \in AtuCallbacks :
        \/ AtuStart(c) \/ AtuContinue(c) \/ AtuReplay(c)
        \/ AtuHandlerFails(c) \/ (\E end \in BOOLEAN : AtuHandlerReplies(c, end)) \/ AtuEnd(c)

AtuSpec == AtuInit /\ [][AtuNext]_atuVars

(***************************************************************************)
(* Properties.                                                             *)
(***************************************************************************)
\* A session that has shown a screen is started again, its handler run as if
\* the subscriber had just dialled, only if it had been answered with END and
\* evicted beyond the cap, or if it was continued while the callback that had
\* started it was still running, whose failure rewinds the session.  Neither
\* the cap, nor an older entry of the session in the queue, nor any other
\* order of its callbacks makes the table forget a session half way.
AtuSessionsKept ==
    \A s \in atuHistory.restarted :
        s \in atuHistory.overtaken \/ (s \in atuHistory.answered /\ s \in atuHistory.evicted)
=============================================================================
