----------------------------- MODULE ToolGateway -----------------------------
(***************************************************************************)
(* The tool gateway: the gate chain of a tool call and its rate window.    *)
(*                                                                         *)
(* Invoke reads the agent's allowlist, caps its limit by the platform's,   *)
(* admits the call into the minute's window of its key (agent and tool),   *)
(* validates the arguments, executes, and audits whatever came of it.      *)
(* Past a number of keys the windows of all others are dropped.  The       *)
(* allowlist and the executor are external; time is counted in ticks.      *)
(***************************************************************************)
EXTENDS Integers, FiniteSets

CONSTANTS
    TgwKeys,     \* pairs of agent and tool
    TgwLimits,   \* limits that a policy may give, 0 for none
    TgwCap,      \* maxPerCall of the tools
    TgwMinute,   \* the window's length in ticks
    TgwMaxKeys,  \* keys that the map may hold (10,000)
    TgwMaxTime,  \* bound: the last tick
    TgwMaxCalls  \* bound: calls of a key admitted in one tick

ASSUME ToolGatewayAssumption ==
    /\ TgwLimits \subseteq Nat /\ TgwCap \in Nat \ {0}
    /\ TgwMinute \in Nat \ {0} /\ TgwMaxKeys \in Nat \ {0}
    /\ TgwMaxTime \in Nat /\ TgwMaxCalls > TgwCap

VARIABLES
    tgwNow,      \* external: the clock
    tgwWindows,  \* g.windows: per key, the calls kept, each with its time
    tgwCall,     \* per key, its call in progress: idle, or the limit it read, admitted
    tgwAdmitted, \* history: per key and tick, the calls admitted
    tgwDropped   \* history: the keys whose window was dropped

tgwVars == <<tgwNow, tgwWindows, tgwCall, tgwAdmitted, tgwDropped>>

TgwIdle == [at |-> "idle", limit |-> 0]

\* The n-th call of a key admitted at a tick: what tells equal times apart.
TgwCallAt(tick, n) == [tick |-> tick, n |-> n]

TgwInit ==
    /\ tgwNow = 0
    /\ tgwWindows = [k \in TgwKeys |-> {}]
    /\ tgwCall = [k \in TgwKeys |-> TgwIdle]
    /\ tgwAdmitted = [k \in TgwKeys |-> [t \in 0 .. TgwMaxTime |-> 0]]
    /\ tgwDropped = {}

TgwTick ==
    /\ tgwNow < TgwMaxTime
    /\ tgwNow' = tgwNow + 1
    /\ UNCHANGED <<tgwWindows, tgwCall, tgwAdmitted, tgwDropped>>

\* The allowlist names a limit, which the platform's cap bounds; a tool that is
\* not on it is refused.
TgwAuthorize(k, limit) ==
    /\ tgwCall[k] = TgwIdle /\ limit > 0 /\ tgwAdmitted[k][tgwNow] < TgwMaxCalls
    /\ tgwCall' = [tgwCall EXCEPT ![k] = [at |-> "admit", limit |-> IF limit > TgwCap THEN TgwCap ELSE limit]]
    /\ UNCHANGED <<tgwNow, tgwWindows, tgwAdmitted, tgwDropped>>

\* A bug: the window is a tick short.
TgwRecentShort(k) == {c \in tgwWindows[k] : tgwNow - c.tick < TgwMinute - 1}

\* The calls of the last minute.
TgwRecent(k) == {c \in tgwWindows[k] : tgwNow - c.tick < TgwMinute}

\* The keys in the map: an entry is made by a call and never removed by itself.
TgwEntries(windows) == {k \in TgwKeys : windows[k] # {}}

\* The map past its bound keeps the entry just made.
TgwBounded(windows, k) ==
    IF Cardinality(TgwEntries(windows)) > TgwMaxKeys
    THEN [j \in TgwKeys |-> IF j = k THEN windows[j] ELSE {}]
    ELSE windows

\* admit, under the lock.
TgwAdmit(k) ==
    LET recent == TgwRecent(k)
        call == TgwCallAt(tgwNow, tgwAdmitted[k][tgwNow] + 1)
        kept == [tgwWindows EXCEPT ![k] = recent \cup {call}]
    IN  /\ tgwCall[k].at = "admit"
        /\ IF Cardinality(recent) >= tgwCall[k].limit
           THEN /\ tgwWindows' = [tgwWindows EXCEPT ![k] = recent]
                /\ tgwCall' = [tgwCall EXCEPT ![k] = TgwIdle]
                /\ UNCHANGED <<tgwAdmitted, tgwDropped>>
           ELSE /\ tgwWindows' = TgwBounded(kept, k)
                /\ tgwCall' = [tgwCall EXCEPT ![k].at = "execute"]
                /\ tgwAdmitted' = [tgwAdmitted EXCEPT ![k][tgwNow] = @ + 1]
                /\ tgwDropped' = tgwDropped \cup (TgwEntries(kept) \ TgwEntries(tgwWindows'))
        /\ UNCHANGED tgwNow

\* The arguments are refused, or the tool has run or failed; Invoke audits.
TgwReturn(k) ==
    /\ tgwCall[k].at = "execute"
    /\ tgwCall' = [tgwCall EXCEPT ![k] = TgwIdle]
    /\ UNCHANGED <<tgwNow, tgwWindows, tgwAdmitted, tgwDropped>>

TgwNext ==
    \/ TgwTick
    \/ \E k \in TgwKeys :
        \/ \E limit \in TgwLimits : TgwAuthorize(k, limit)
        \/ TgwAdmit(k) \/ TgwReturn(k)

TgwSpec == TgwInit /\ [][TgwNext]_tgwVars

(***************************************************************************)
(* Properties.                                                             *)
(***************************************************************************)
\* Calls of a key that were admitted in the minute up to tick t.
TgwCallsUpTo(k, t) ==
    {c \in [tick : 0 .. TgwMaxTime, n : 1 .. TgwMaxCalls] :
        c.tick <= t /\ t - c.tick < TgwMinute /\ c.n <= tgwAdmitted[k][c.tick]}

\* No agent gets more calls of a tool through in any minute than the platform
\* allows, whatever its policy says and however the minute is placed; except
\* one whose window was dropped with the full map.
TgwCapHolds ==
    \A k \in TgwKeys \ tgwDropped : \A t \in 0 .. TgwMaxTime : Cardinality(TgwCallsUpTo(k, t)) <= TgwCap
=============================================================================
