----------------------------- MODULE RealtimeHub -----------------------------
(***************************************************************************)
(* The realtime hub: WebSocket connections under a cap, and the fan-out of *)
(* events to them.                                                         *)
(*                                                                         *)
(* admit counts a connection before the upgrade, the registration counts   *)
(* it again, and it is uncounted once: when the upgrade fails (release) or *)
(* when the first of its two pumps ends (closeClient).  Publish never      *)
(* waits: an event that does not fit a client's buffer is dropped for it.  *)
(***************************************************************************)
EXTENDS Integers, FiniteSets

CONSTANTS
    HubConns,     \* connections that clients attempt, records [tenant, n]
    HubMaxTotal,  \* maxTotal
    HubBuffer,    \* capacity of a client's send channel
    HubMaxEvents  \* bound: events published

ASSUME RealtimeHubAssumption ==
    HubMaxTotal \in Nat \ {0} /\ HubBuffer \in Nat \ {0} /\ HubMaxEvents \in Nat

VARIABLES
    hubTotal,    \* h.total
    hubConn,     \* per connection: idle, upgrade, live, closed, refused
    hubPumps,    \* per connection, the pumps that have not ended
    hubSend,     \* per connection, the events in its send channel
    hubPublished \* events published so far

hubVars == <<hubTotal, hubConn, hubPumps, hubSend, hubPublished>>

HubInit ==
    /\ hubTotal = 0
    /\ hubConn = [c \in HubConns |-> "idle"]
    /\ hubPumps = [c \in HubConns |-> {}]
    /\ hubSend = [c \in HubConns |-> 0]
    /\ hubPublished = 0

HubAt(state) == {c \in HubConns : hubConn[c] = state}

\* A bug: a connection is not counted before its upgrade.
HubAdmitUncounted(c) ==
    /\ hubConn[c] = "idle"
    /\ hubConn' = [hubConn EXCEPT ![c] = IF hubTotal >= HubMaxTotal THEN "refused" ELSE "upgrade"]
    /\ UNCHANGED <<hubPumps, hubSend, hubPublished, hubTotal>>

\* admit, under the lock: the cap is checked and the connection counted.
HubAdmit(c) ==
    /\ hubConn[c] = "idle"
    /\ IF hubTotal >= HubMaxTotal
       THEN hubConn' = [hubConn EXCEPT ![c] = "refused"] /\ UNCHANGED hubTotal
       ELSE hubConn' = [hubConn EXCEPT ![c] = "upgrade"] /\ hubTotal' = hubTotal + 1
    /\ UNCHANGED <<hubPumps, hubSend, hubPublished>>

\* The upgrade fails: release.
HubRelease(c) ==
    /\ hubConn[c] = "upgrade"
    /\ hubConn' = [hubConn EXCEPT ![c] = "closed"]
    /\ hubTotal' = hubTotal - 1
    /\ UNCHANGED <<hubPumps, hubSend, hubPublished>>

\* The upgrade succeeds: the client is registered, counted again, and its pumps
\* start.
HubRegister(c) ==
    /\ hubConn[c] = "upgrade"
    /\ hubConn' = [hubConn EXCEPT ![c] = "live"]
    /\ hubTotal' = hubTotal + 1
    /\ hubPumps' = [hubPumps EXCEPT ![c] = {"read", "write"}]
    /\ UNCHANGED <<hubSend, hubPublished>>

\* closeClient, once per client.
HubCloseClient(c) ==
    IF hubConn[c] = "live"
    THEN hubConn' = [hubConn EXCEPT ![c] = "closed"] /\ hubTotal' = hubTotal - 1
    ELSE UNCHANGED <<hubConn, hubTotal>>

\* A pump ends: a read or a write fails, or the other pump has closed the client.
HubPumpEnds(c, pump) ==
    /\ pump \in hubPumps[c]
    /\ hubPumps' = [hubPumps EXCEPT ![c] = @ \ {pump}]
    /\ HubCloseClient(c)
    /\ UNCHANGED <<hubSend, hubPublished>>

\* Publish, to the tenant's registered clients that have room.
HubPublish(tenant) ==
    /\ hubPublished < HubMaxEvents
    /\ hubPublished' = hubPublished + 1
    /\ hubSend' = [c \in HubConns |-> IF /\ hubConn[c] = "live" /\ c.tenant = tenant
                                         /\ hubSend[c] < HubBuffer
                                      THEN hubSend[c] + 1 ELSE hubSend[c]]
    /\ UNCHANGED <<hubTotal, hubConn, hubPumps>>

\* writePump writes the next event.
HubWrite(c) ==
    /\ "write" \in hubPumps[c] /\ hubSend[c] > 0
    /\ hubSend' = [hubSend EXCEPT ![c] = @ - 1]
    /\ UNCHANGED <<hubTotal, hubConn, hubPumps, hubPublished>>

HubNext ==
    \/ \E c \in HubConns :
        \/ HubAdmit(c) \/ HubRelease(c) \/ HubRegister(c) \/ HubWrite(c)
        \/ \E pump \in {"read", "write"} : HubPumpEnds(c, pump)
    \/ \E tenant \in {c.tenant : c \in HubConns} : HubPublish(tenant)

HubSpec == HubInit /\ [][HubNext]_hubVars

(***************************************************************************)
(* Properties.                                                             *)
(***************************************************************************)
\* The cap holds while upgrades overlap: admit counts before the upgrade, and
\* two pumps that end a client uncount it once.
HubCapHolds == Cardinality(HubAt("live")) + Cardinality(HubAt("upgrade")) <= HubMaxTotal

\* What admit says it enforces is the total cap: without a connection, live or
\* being upgraded, there is room for one.
HubIdleMeansRoom == HubAt("live") \cup HubAt("upgrade") = {} => hubTotal < HubMaxTotal
=============================================================================
