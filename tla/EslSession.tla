----------------------------- MODULE EslSession -----------------------------
(***************************************************************************)
(* The event-socket client of the FreeSWITCH voice adapter.                *)
(*                                                                         *)
(* One goroutine dials, authenticates, subscribes and then demultiplexes   *)
(* what the switch sends.  Replies carry no correlation id: Do lets one    *)
(* command out at a time, and a command that gives up takes its connection *)
(* with it, so that a late reply finds nobody.  Close waits until the      *)
(* goroutine has ended.                                                    *)
(*                                                                         *)
(* The switch is external: it answers the commands of a connection in the  *)
(* order it got them.                                                      *)
(***************************************************************************)
EXTENDS Integers, Sequences, FiniteSets

CONSTANTS
    EslRequests,  \* callers of Do, one command each
    EslMaxConns   \* bound on the connections made

ASSUME EslSessionAssumption == EslMaxConns \in Nat \ {0}

EslConns == 1 .. EslMaxConns

VARIABLES
    esl,       \* eslClient: loop, made, conn (0: nil), ready, closed, cmdCh's holder
    eslConn,   \* per connection: alive, stage reached, and the reply slot resp
    eslDo,     \* per request: position in Do, connection, and what it returned
    eslClose,  \* Close: idle, waiting (doneCh closed), returned
    eslWire,   \* external: per connection, commands in the order they were written
    eslReply   \* external: per connection, replies not read, named by their command

eslVars == <<esl, eslConn, eslDo, eslClose, eslWire, eslReply>>

EslIdle == [at |-> "idle", on |-> 0, got |-> {}]

EslInit ==
    /\ esl = [loop |-> "dial", made |-> 0, conn |-> 0, ready |-> FALSE, closed |-> FALSE, slot |-> {}]
    /\ eslConn = [g \in EslConns |-> [alive |-> FALSE, stage |-> "none", resp |-> {}]]
    /\ eslDo = [r \in EslRequests |-> EslIdle]
    /\ eslClose = "idle"
    /\ eslWire = [g \in EslConns |-> <<>>] /\ eslReply = [g \in EslConns |-> <<>>]

EslDone == eslClose # "idle"

(***************************************************************************)
(* The connection goroutine.                                               *)
(***************************************************************************)
\* loop: the dial fails (backoff), or doneCh is closed (return).
EslLoopEnds ==
    /\ esl.loop = "dial" /\ EslDone
    /\ esl' = [esl EXCEPT !.loop = "ended"]
    /\ UNCHANGED <<eslConn, eslDo, eslClose, eslWire, eslReply>>

EslDialed ==
    /\ esl.loop = "dial" /\ ~EslDone /\ esl.made < EslMaxConns
    /\ esl' = [esl EXCEPT !.loop = "made"]
    /\ UNCHANGED <<eslConn, eslDo, eslClose, eslWire, eslReply>>

\* A bug: a connection made while Close ran is used all the same.
EslRunConnUnchecked ==
    LET g == esl.made + 1
    IN  /\ esl.loop = "made"
        /\ esl' = [esl EXCEPT !.loop = "handshake", !.made = g, !.conn = g]
        /\ eslConn' = [eslConn EXCEPT ![g].alive = TRUE]
        /\ UNCHANGED <<eslDo, eslClose, eslWire, eslReply>>

\* runConn: under the mutex, a closed client drops the connection, otherwise it
\* becomes the current one.
EslRunConn ==
    LET g == esl.made + 1
    IN  /\ esl.loop = "made"
        /\ IF esl.closed
           THEN /\ esl' = [esl EXCEPT !.loop = "dial", !.made = g]
                /\ UNCHANGED eslConn
           ELSE /\ esl' = [esl EXCEPT !.loop = "handshake", !.made = g, !.conn = g]
                /\ eslConn' = [eslConn EXCEPT ![g].alive = TRUE]
        /\ UNCHANGED <<eslDo, eslClose, eslWire, eslReply>>

\* handshake and subscribe succeed; setReady, if the connection is still ours.
EslReady ==
    LET g == esl.made
    IN  /\ esl.loop = "handshake" /\ eslConn[g].alive
        /\ esl' = [esl EXCEPT !.loop = "demux", !.ready = @ \/ (esl.conn = g /\ ~esl.closed)]
        /\ eslConn' = [eslConn EXCEPT ![g].stage = "subscribed"]
        /\ UNCHANGED <<eslDo, eslClose, eslWire, eslReply>>

EslDetached(e, g) == IF e.conn = g THEN [e EXCEPT !.conn = 0, !.ready = FALSE] ELSE e

\* kill: done is closed, once.
EslKill(g) == [eslConn EXCEPT ![g].alive = FALSE]

\* The handshake or the subscription is refused or times out, or demux fails to
\* read (peer, idle timeout, disconnect notice, or kill): detach, next dial.
EslConnLost ==
    LET g == esl.made
    IN  /\ esl.loop \in {"handshake", "demux"}
        /\ esl' = [EslDetached(esl, g) EXCEPT !.loop = "dial"]
        /\ eslConn' = EslKill(g)
        /\ eslReply' = [eslReply EXCEPT ![g] = <<>>]
        /\ UNCHANGED <<eslDo, eslClose, eslWire>>

\* demux: a reply goes to the slot if it is empty and is dropped otherwise.
EslDemux ==
    LET g == esl.made
    IN  /\ esl.loop = "demux" /\ eslReply[g] # <<>>
        /\ eslConn' = [eslConn EXCEPT ![g].resp = IF @ = {} THEN {Head(eslReply[g])} ELSE @]
        /\ eslReply' = [eslReply EXCEPT ![g] = Tail(@)]
        /\ UNCHANGED <<esl, eslDo, eslClose, eslWire>>

(***************************************************************************)
(* Do.                                                                     *)
(***************************************************************************)
\* A bug: commands do not wait for each other.
EslEnterAtOnce(r) ==
    /\ eslDo[r].at = "idle"
    /\ esl' = [esl EXCEPT !.slot = {r}]
    /\ eslDo' = [eslDo EXCEPT ![r].at = "ensure"]
    /\ UNCHANGED <<eslConn, eslClose, eslWire, eslReply>>

\* The single-flight slot is taken.
EslEnter(r) ==
    /\ eslDo[r].at = "idle" /\ esl.slot = {}
    /\ esl' = [esl EXCEPT !.slot = {r}]
    /\ eslDo' = [eslDo EXCEPT ![r].at = "ensure"]
    /\ UNCHANGED <<eslConn, eslClose, eslWire, eslReply>>

\* ensureReady finds a ready connection; the slot is drained, the line written.
EslWrite(r) ==
    LET g == esl.conn
    IN  /\ eslDo[r].at = "ensure"
        /\ ~esl.closed /\ esl.ready /\ g # 0 /\ eslConn[g].alive
        /\ eslConn' = [eslConn EXCEPT ![g].resp = {}]
        /\ eslWire' = [eslWire EXCEPT ![g] = Append(@, r)]
        /\ eslDo' = [eslDo EXCEPT ![r].at = "await", ![r].on = g]
        /\ UNCHANGED <<esl, eslClose, eslReply>>

EslLeave(r, e, got) ==
    /\ esl' = [e EXCEPT !.slot = {}]
    /\ eslDo' = [eslDo EXCEPT ![r].at = "done", ![r].got = got]

\* The reply in the slot is this command's.
EslGetsReply(r) ==
    LET g == eslDo[r].on
    IN  /\ eslDo[r].at = "await" /\ eslConn[g].resp # {}
        /\ EslLeave(r, esl, eslConn[g].resp)
        /\ eslConn' = [eslConn EXCEPT ![g].resp = {}]
        /\ UNCHANGED <<eslClose, eslWire, eslReply>>

\* The connection died under the command.
EslLosesConn(r) ==
    /\ eslDo[r].at = "await" /\ ~eslConn[eslDo[r].on].alive
    /\ EslLeave(r, esl, {})
    /\ UNCHANGED <<eslConn, eslClose, eslWire, eslReply>>

\* A bug: a caller that gives up leaves the connection in use.
EslGivesUpOnly(r) ==
    /\ eslDo[r].at = "await"
    /\ EslLeave(r, esl, {})
    /\ UNCHANGED <<eslConn, eslClose, eslWire, eslReply>>

\* The write fails or the deadline passes: the connection is detached, so that
\* the reply cannot be taken for the next command's.
EslGivesUp(r) ==
    /\ eslDo[r].at = "await"
    /\ EslLeave(r, EslDetached(esl, eslDo[r].on), {})
    /\ eslConn' = EslKill(eslDo[r].on)
    /\ UNCHANGED <<eslClose, eslWire, eslReply>>

\* ensureReady: the deadline passes or the client closes.
EslUnready(r) ==
    /\ eslDo[r].at = "ensure"
    /\ EslLeave(r, esl, {})
    /\ UNCHANGED <<eslConn, eslClose, eslWire, eslReply>>

(***************************************************************************)
(* Close and the switch.                                                   *)
(***************************************************************************)
\* Close: closed is set and the current connection killed, then doneCh closed.
EslClose ==
    /\ eslClose = "idle"
    /\ eslClose' = "waiting"
    /\ esl' = [esl EXCEPT !.closed = TRUE]
    /\ eslConn' = IF esl.conn = 0 THEN eslConn ELSE EslKill(esl.conn)
    /\ UNCHANGED <<eslDo, eslWire, eslReply>>

\* wg.Wait.
EslCloseReturns ==
    /\ eslClose = "waiting" /\ esl.loop = "ended"
    /\ eslClose' = "returned"
    /\ UNCHANGED <<esl, eslConn, eslDo, eslWire, eslReply>>

EslSwitchAnswers(g) ==
    /\ eslWire[g] # <<>>
    /\ eslWire' = [eslWire EXCEPT ![g] = Tail(@)]
    /\ eslReply' = [eslReply EXCEPT ![g] = IF eslConn[g].alive THEN Append(@, Head(eslWire[g])) ELSE @]
    /\ UNCHANGED <<esl, eslConn, eslDo, eslClose>>

EslLoop == EslLoopEnds \/ EslDialed \/ EslRunConn \/ EslReady \/ EslConnLost \/ EslDemux

EslNext ==
    \/ EslLoop
    \/ \E r \in EslRequests :
        \/ EslEnter(r) \/ EslWrite(r) \/ EslGetsReply(r)
        \/ EslLosesConn(r) \/ EslGivesUp(r) \/ EslUnready(r)
    \/ EslClose \/ EslCloseReturns
    \/ \E g \in EslConns : EslSwitchAnswers(g)

\* The goroutine runs, and its reads and sleeps all have a deadline.
EslFairness ==
    /\ WF_eslVars(EslLoopEnds) /\ WF_eslVars(EslRunConn) /\ WF_eslVars(EslCloseReturns)
    /\ WF_eslVars(EslConnLost /\ \/ esl.loop = "handshake"
                                 \/ ~eslConn[esl.made].alive)

EslSpec == EslInit /\ [][EslNext]_eslVars /\ EslFairness

(***************************************************************************)
(* Properties.                                                             *)
(***************************************************************************)
\* A command gets its own reply or none, although replies are not correlated
\* and a caller may give up while its command is with the switch.
EslOwnReply == \A r \in EslRequests : eslDo[r].got \subseteq {r}

\* Close ends: it kills the session there is, and runConn drops the one that
\* was being dialled.
EslCloseEnds == eslClose = "waiting" ~> eslClose = "returned"

\* What callers see of a request: a reply, or an error.
EslTold(r) ==
    CASE eslDo[r].at = "idle" -> "idle"
      [] eslDo[r].at \in {"ensure", "await"} -> "open"
      [] eslDo[r].at = "done" -> IF eslDo[r].got = {} THEN "failed" ELSE "carried out"

\* The switch has taken the command off the connection it was written to.
EslTaken(r) ==
    eslDo[r].on # 0 /\ \A k \in DOMAIN eslWire[eslDo[r].on] : eslWire[eslDo[r].on][k] # r

EslCommands == INSTANCE SwitchCommands
               WITH Requests <- EslRequests, told <- [r \in EslRequests |-> EslTold(r)],
                    handled <- {r \in EslRequests : EslTaken(r)}

\* Although replies carry no id and callers give up, the client keeps the promise
\* to its callers: nobody gets a reply before the switch took its own command.
EslImplementsCommands == EslCommands!Spec
=============================================================================
