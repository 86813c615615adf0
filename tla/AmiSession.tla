----------------------------- MODULE AmiSession -----------------------------
(***************************************************************************)
(* The AMI client of the Asterisk voice adapter: sessions and actions.     *)
(*                                                                         *)
(* A supervisor goroutine dials, logs in and serves one session after the  *)
(* other.  A request that runs an action registers a waiter under its      *)
(* ActionID, writes the action on the current session and waits; if the    *)
(* session drops first, it does so again on the next one, within one       *)
(* action budget.  Close cancels the supervisor and kills the session it   *)
(* finds.  AmiVoice models what the adapter does with replies and events.  *)
(*                                                                         *)
(* The PBX is external: it handles an action it has received, or loses it  *)
(* with the connection, and the reply may be lost although the action ran. *)
(***************************************************************************)
EXTENDS Integers, FiniteSets

CONSTANTS
    AmiRequests,   \* requests, one action each; a request is its ActionID
    AmiMaxSessions \* bound on the connections dialled

ASSUME AmiSessionAssumption == AmiMaxSessions \in Nat \ {0}

AmiSessions == 1 .. AmiMaxSessions

VARIABLES
    ami,        \* amiClient: supervisor, current session (0: nil), last error,
                \* and for each session its phase and its pending waiters
    amiCall,    \* per request: position in call(), session written on, reply
    amiClose,   \* close: open, canceled or closed
    amiWire,    \* external: per session, actions written and not handled
    amiReplies, \* external: per session, replies the reader has not read
    amiRan      \* history: sessions on which the PBX ran each action

amiVars == <<ami, amiCall, amiClose, amiWire, amiReplies, amiRan>>

AmiIdleCall == [at |-> "idle", on |-> 0, reply |-> "none", outcome |-> "none"]

AmiInit ==
    /\ ami = [at |-> "dial", sess |-> 0, lastErr |-> "none",
              phase |-> [n \in AmiSessions |-> "none"], pending |-> [n \in AmiSessions |-> {}]]
    /\ amiCall = [r \in AmiRequests |-> AmiIdleCall]
    /\ amiClose = "open"
    /\ amiWire = [n \in AmiSessions |-> {}] /\ amiReplies = [n \in AmiSessions |-> {}]
    /\ amiRan = [r \in AmiRequests |-> {}]

AmiCanceled == amiClose # "open"
AmiDialled == {n \in AmiSessions : ami.phase[n] # "none"}

(***************************************************************************)
(* The supervisor and its sessions.                                        *)
(***************************************************************************)
\* amiSession.die, once per session: waiters are released, the map is emptied.
AmiDie(c, n) == IF c.phase[n] = "dead" THEN c
             ELSE [c EXCEPT !.phase[n] = "dead", !.pending[n] = {}]

\* supervise, after dialAndServe returned: the error is recorded and, after a
\* bounded wait, the next dial is due; or the context is done.
AmiReconnect(c, err) ==
    IF AmiCanceled THEN [c EXCEPT !.at = "ended"] ELSE [c EXCEPT !.at = "dial", !.lastErr = err]

\* dialAndServe: the dial is refused or times out.
AmiDialFails ==
    /\ ami.at = "dial" /\ ~AmiCanceled
    /\ ami' = AmiReconnect(ami, "other")
    /\ UNCHANGED <<amiCall, amiClose, amiWire, amiReplies, amiRan>>

\* The connection is made; Close may still come before it is installed.
AmiDialed ==
    /\ ami.at = "dial" /\ ~AmiCanceled /\ Cardinality(AmiDialled) < AmiMaxSessions
    /\ ami' = [ami EXCEPT !.at = "install"]
    /\ UNCHANGED <<amiCall, amiClose, amiWire, amiReplies, amiRan>>

\* install: c.sess is the new session, whatever Close has done meanwhile.
AmiInstall ==
    LET n == Cardinality(AmiDialled) + 1
    IN  /\ ami.at = "install"
        /\ ami' = [ami EXCEPT !.at = "handshake", !.sess = n, !.phase[n] = "open"]
        /\ UNCHANGED <<amiCall, amiClose, amiWire, amiReplies, amiRan>>

\* handshake succeeds (banner, Challenge, Login): ready is closed and the
\* recorded error dropped.
AmiLogsIn ==
    /\ ami.at = "handshake" /\ ami.phase[ami.sess] = "open"
    /\ ami' = [ami EXCEPT !.at = "serve", !.phase[ami.sess] = "ready", !.lastErr = "none"]
    /\ UNCHANGED <<amiCall, amiClose, amiWire, amiReplies, amiRan>>

\* The deferred calls of dialAndServe: die, then uninstall.
AmiSessionEnds(err) == [AmiReconnect(AmiDie(ami, ami.sess), err) EXCEPT !.sess = 0]

\* handshake fails: the PBX rejects the credentials, or the connection breaks.
AmiLoginFails(err) ==
    /\ ami.at = "handshake"
    /\ err = "auth" => ami.phase[ami.sess] = "open"
    /\ ami' = AmiSessionEnds(err)
    /\ UNCHANGED <<amiCall, amiClose, amiWire, amiReplies, amiRan>>

\* serve: reading fails (peer, network, packet out of bounds, or die closed the
\* socket); the replies that were still on the connection are gone.
AmiReadFails ==
    /\ ami.at = "serve"
    /\ ami' = AmiSessionEnds("other")
    /\ amiReplies' = [amiReplies EXCEPT ![ami.sess] = {}]
    /\ UNCHANGED <<amiCall, amiClose, amiWire, amiRan>>

\* A bug: a response goes to any waiter, whatever its ActionID.
AmiReadReplyAnyone ==
    LET n == ami.sess
    IN  /\ ami.at = "serve"
        /\ \E p \in amiReplies[n], r \in ami.pending[n] :
            /\ amiReplies' = [amiReplies EXCEPT ![n] = @ \ {p}]
            /\ ami' = [ami EXCEPT !.pending[n] = @ \ {r}]
            /\ amiCall' = [amiCall EXCEPT ![r].reply = p.verdict]
        /\ UNCHANGED <<amiClose, amiWire, amiRan>>

\* serve: a response goes to the waiter takePending finds, if there is one.
AmiReadReply ==
    LET n == ami.sess
    IN  /\ ami.at = "serve"
        /\ \E p \in amiReplies[n] :
            /\ amiReplies' = [amiReplies EXCEPT ![n] = @ \ {p}]
            /\ IF p.id \in ami.pending[n]
               THEN /\ ami' = [ami EXCEPT !.pending[n] = @ \ {p.id}]
                    /\ amiCall' = [amiCall EXCEPT ![p.id].reply = p.verdict]
               ELSE UNCHANGED <<ami, amiCall>>
        /\ UNCHANGED <<amiClose, amiWire, amiRan>>

\* supervise: the context is done before the next dial.
AmiSuperviseEnds ==
    /\ ami.at = "dial" /\ AmiCanceled
    /\ ami' = [ami EXCEPT !.at = "ended"]
    /\ UNCHANGED <<amiCall, amiClose, amiWire, amiReplies, amiRan>>

\* pingLoop: a keepalive that goes unanswered kills its session.
AmiPingFails ==
    /\ ami.at = "serve" /\ ami.phase[ami.sess] = "ready" /\ ~AmiCanceled
    /\ ami' = AmiDie(ami, ami.sess)
    /\ UNCHANGED <<amiCall, amiClose, amiWire, amiReplies, amiRan>>

(***************************************************************************)
(* Actions.                                                                *)
(***************************************************************************)
\* call: the request is encoded under its ActionID and the budget starts.
AmiCall(r) ==
    /\ amiCall[r].at = "idle"
    /\ amiCall' = [amiCall EXCEPT ![r].at = "call"]
    /\ UNCHANGED <<ami, amiClose, amiWire, amiReplies, amiRan>>

\* call: the current session is ready; doAction adds the waiter and writes.
AmiDoAction(r) ==
    LET n == ami.sess
    IN  /\ amiCall[r].at = "call" /\ n # 0
        /\ ami.phase[n] = "ready" /\ r \notin ami.pending[n]
        /\ ami' = [ami EXCEPT !.pending[n] = @ \cup {r}]
        /\ amiWire' = [amiWire EXCEPT ![n] = @ \cup {r}]
        /\ amiCall' = [amiCall EXCEPT ![r].at = "wait", ![r].on = n]
        /\ UNCHANGED <<amiClose, amiReplies, amiRan>>

\* A bug: the reply of the session that died is kept for the next attempt.
AmiRetryKeepsReply(r) ==
    /\ amiCall[r].at = "wait" /\ ami.phase[amiCall[r].on] = "dead"
    /\ amiCall' = [amiCall EXCEPT ![r].at = "call"]
    /\ UNCHANGED <<ami, amiClose, amiWire, amiReplies, amiRan>>

\* doAction: the session died and no reply was picked; call() goes round again.
AmiRetry(r) ==
    /\ amiCall[r].at = "wait" /\ ami.phase[amiCall[r].on] = "dead"
    /\ amiCall' = [amiCall EXCEPT ![r].at = "call", ![r].reply = "none"]
    /\ UNCHANGED <<ami, amiClose, amiWire, amiReplies, amiRan>>

\* call returns; the deferred removePending drops a waiter that is left.
AmiFinish(r, outcome) ==
    /\ amiCall' = [amiCall EXCEPT ![r].at = "done", ![r].outcome = outcome]
    /\ ami' = IF amiCall[r].on = 0 THEN ami
              ELSE [ami EXCEPT !.pending[amiCall[r].on] = @ \ {r}]
    /\ UNCHANGED <<amiClose, amiWire, amiReplies, amiRan>>

AmiReturns(r) ==
    /\ amiCall[r].at = "wait" /\ amiCall[r].reply # "none"
    /\ AmiFinish(r, amiCall[r].reply)

\* The budget or the caller's context ends, or the write fails: an error, which
\* is auth_failed if there is no session and the last one was refused.
AmiGivesUp(r) ==
    /\ amiCall[r].at \in {"call", "wait"}
    /\ AmiFinish(r, IF amiCall[r].at = "call" /\ ami.lastErr = "auth" THEN "auth" ELSE "failed")

(***************************************************************************)
(* close and the PBX.                                                      *)
(***************************************************************************)
\* close: after a best-effort Logoff the context is canceled and the session
\* that is current now is killed.
AmiCancel ==
    /\ amiClose = "open"
    /\ amiClose' = "canceled"
    /\ ami' = IF ami.sess = 0 THEN ami ELSE AmiDie(ami, ami.sess)
    /\ UNCHANGED <<amiCall, amiWire, amiReplies, amiRan>>

\* close waits for the supervisor, but no longer than a second.
AmiCloseReturns ==
    /\ amiClose = "canceled"
    /\ amiClose' = "closed"
    /\ UNCHANGED <<ami, amiCall, amiWire, amiReplies, amiRan>>

\* The PBX runs or refuses an action; a connection that is closed gets no reply.
AmiPBXHandles(n, r, verdict) ==
    /\ r \in amiWire[n]
    /\ amiWire' = [amiWire EXCEPT ![n] = @ \ {r}]
    /\ amiRan' = [amiRan EXCEPT ![r] = IF verdict = "ok" THEN @ \cup {n} ELSE @]
    /\ amiReplies' = [amiReplies EXCEPT ![n] =
                        IF ami.phase[n] = "ready" THEN @ \cup {[id |-> r, verdict |-> verdict]} ELSE @]
    /\ UNCHANGED <<ami, amiCall, amiClose>>

AmiSupervisor ==
    \/ AmiDialFails \/ AmiDialed \/ AmiInstall \/ AmiLogsIn
    \/ \E err \in {"auth", "other"} : AmiLoginFails(err)
    \/ AmiReadFails \/ AmiReadReply \/ AmiSuperviseEnds \/ AmiPingFails

AmiNext ==
    \/ AmiSupervisor
    \/ \E r \in AmiRequests :
        AmiCall(r) \/ AmiDoAction(r) \/ AmiRetry(r) \/ AmiReturns(r) \/ AmiGivesUp(r)
    \/ AmiCancel \/ AmiCloseReturns
    \/ \E n \in AmiSessions : \E r \in amiWire[n] : \E verdict \in {"ok", "refused"} :
        AmiPBXHandles(n, r, verdict)

AmiSpec == AmiInit /\ [][AmiNext]_amiVars

(***************************************************************************)
(* Properties.                                                             *)
(***************************************************************************)
\* No waiter is forgotten: a request that waits on a live session is registered
\* there or has its reply, whatever other requests, the reader and die did.
AmiWaiterHeard ==
    \A r \in AmiRequests :
        amiCall[r].at = "wait" /\ ami.phase[amiCall[r].on] # "dead"
            => amiCall[r].reply # "none" \/ r \in ami.pending[amiCall[r].on]

\* A reply is the truth about the session the request waits on: Success means
\* that the PBX ran the action there, not that an earlier attempt was answered.
AmiReplyTruthful ==
    \A r \in AmiRequests :
        amiCall[r].reply = "ok" => amiCall[r].on \in amiRan[r]

\* What a request waiting in call() may rely on: it is not forgotten, and what
\* it is told is about the attempt it waits for.
AmiRepliesReach == AmiWaiterHeard /\ AmiReplyTruthful

\* What callers see of a request: its last attempt's verdict, or an error.
AmiTold(r) ==
    CASE amiCall[r].at = "idle" -> "idle"
      [] amiCall[r].at \in {"call", "wait"} -> "open"
      [] amiCall[r].at = "done" -> IF amiCall[r].outcome = "ok" THEN "carried out" ELSE "failed"

AmiCommands == INSTANCE SwitchCommands
               WITH Requests <- AmiRequests, told <- [r \in AmiRequests |-> AmiTold(r)],
                    handled <- {r \in AmiRequests : amiRan[r] # {}}

\* Through dropped sessions, second attempts, late replies and Close, the client
\* keeps the promise to its callers: nobody is told of success before the PBX
\* ran the action, and nobody is told twice.
AmiImplementsCommands == AmiCommands!Spec
=============================================================================
