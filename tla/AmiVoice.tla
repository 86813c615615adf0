------------------------------ MODULE AmiVoice ------------------------------
(***************************************************************************)
(* The call legs of the Asterisk voice adapter and their events.           *)
(*                                                                         *)
(* PlaceCall tracks a leg under the interaction id, which is the ActionID  *)
(* of its Originate; replies and Newchannel events bind PBX channels to    *)
(* it.  The session's reader binds and queues in wire order, the delivery  *)
(* goroutine translates Newstate and Hangup into provider events, and API  *)
(* requests stage transfers and forget legs meanwhile.  An event may or    *)
(* may not echo the ActionID; without it only a bound channel names a leg. *)
(*                                                                         *)
(* The AMI client is reduced to what AmiSession shows of it: a request     *)
(* waits until its reply was read or it gives up, and an action whose      *)
(* session dropped is written again.  The PBX is external.                 *)
(***************************************************************************)
EXTENDS Integers, Sequences, FiniteSets

CONSTANTS
    AvRequests,   \* API requests, records [op, leg]
    AvMaxCommands,\* bound on the commands issued after the calls are placed
    AvMaxDrops,   \* bound on the sessions that drop
    AvMaxSent,    \* bound on the packets the PBX has on the way
    AvQueueSize   \* eventQueueSize

AvOps == {"place", "hangup", "transfer", "hold", "resume"}
AvLegs == {r.leg : r \in AvRequests}

ASSUME AmiVoiceAssumption ==
    /\ \A r \in AvRequests : r.op \in AvOps
    /\ \A r, s \in AvRequests : r.op = "place" /\ s.op = "place" /\ r.leg = s.leg => r = s
    /\ AvMaxCommands \in Nat /\ AvMaxDrops \in Nat /\ AvMaxSent \in Nat /\ AvQueueSize \in Nat \ {0}

\* Each run of an Originate creates a channel; it runs again only after a drop.
AvChannels == [leg : AvLegs, run : 0 .. AvMaxDrops]

VARIABLES
    avReq,    \* per request: idle, wait or done; action with the PBX; reply; result
    avLegs,   \* Voice.legs, byChannel, byUniqueid and the legs' fields
    avWire,   \* packets of the PBX that the reader has not read
    avQueue,  \* Voice.events
    avLoop,   \* deliverLoop: running or ended, and the event it is delivering
    avStop,   \* Voice.Close: open, stopping, closed
    avChan,   \* external: state of each PBX channel
    avDrops,  \* sessions dropped so far
    avSent,   \* history: calls ended, legs with an event after that, transfers named
    avLost    \* history: Hangup and Newchannel events that were lost or named no leg

avVars == <<avReq, avLegs, avWire, avQueue, avLoop, avStop, avChan, avDrops, avSent, avLost>>

\* A packet of the PBX: reply ("ok", "refused") of a request, or event of a channel.
AvPacket(event, c, r) == [event |-> event, chan |-> c, req |-> r]
AvNoChannel == [leg |-> "none", run |-> 0]
AvNoRequest == [op |-> "none", leg |-> "none"]
AvNothing == AvPacket("none", AvNoChannel, AvNoRequest)
AvElements(q) == {q[k] : k \in 1 .. Len(q)}
AvIsReply(p) == p.event \in {"ok", "refused"}

AvInit ==
    /\ avReq = [r \in AvRequests |-> [at |-> "idle", wire |-> FALSE, reply |-> "none", result |-> "none"]]
    \* channel and uid hold a leg's own channel; byChan and byUid index channels.
    /\ avLegs = [tracked |-> {}, channel |-> [i \in AvLegs |-> {}], uid |-> [i \in AvLegs |-> {}],
                 staged |-> [i \in AvLegs |-> {}], byChan |-> {}, byUid |-> {}]
    /\ avWire = <<>> /\ avQueue = <<>>
    /\ avLoop = [at |-> "running", hand |-> AvNothing]
    /\ avStop = "open"
    /\ avChan = [c \in AvChannels |-> "none"]
    /\ avDrops = 0
    /\ avSent = [ended |-> [i \in AvLegs |-> 0], late |-> {}, named |-> {}, renamed |-> {}]
    /\ avLost = {}

(***************************************************************************)
(* API requests.                                                           *)
(***************************************************************************)
\* PlaceCall tracks the leg (registerLeg) before the Originate is written.
AvPlaceCall(r) ==
    /\ r.op = "place" /\ avReq[r].at = "idle"
    /\ r.leg \notin avLegs.tracked
    /\ avLegs' = [avLegs EXCEPT !.tracked = @ \cup {r.leg}]
    /\ avReq' = [avReq EXCEPT ![r].at = "wait", ![r].wire = TRUE]
    /\ UNCHANGED <<avWire, avQueue, avLoop, avStop, avChan, avDrops, avSent, avLost>>

\* awaitChannel: a command waits, within its timeout, for the leg to have a channel.
AvChannelKnown(i) == avLegs.channel[i] # {}

\* Hangup, Transfer, Hold and Resume need a tracked leg whose channel is known
\* (legByID, awaitChannel); Transfer stages its destination before the wire.
AvCommand(r) ==
    /\ r.op # "place" /\ avReq[r].at = "idle"
    /\ Cardinality({q \in AvRequests : q.op # "place" /\ avReq[q].at # "idle"}) < AvMaxCommands
    /\ r.leg \in avLegs.tracked /\ AvChannelKnown(r.leg)
    /\ avLegs' = [avLegs EXCEPT !.staged[r.leg] = IF r.op = "transfer" THEN {r} ELSE @]
    /\ avReq' = [avReq EXCEPT ![r].at = "wait", ![r].wire = TRUE]
    /\ UNCHANGED <<avWire, avQueue, avLoop, avStop, avChan, avDrops, avSent, avLost>>

\* A bug: the leg itself stays in the map.
AvRemoveLegIndexes(L, i) == [L EXCEPT !.byChan = @ \ L.channel[i], !.byUid = @ \ L.uid[i]]

\* removeLeg: the leg's own channel and uniqueid go, other index entries stay.
AvRemoveLeg(L, i) ==
    [L EXCEPT !.tracked = @ \ {i}, !.byChan = @ \ L.channel[i], !.byUid = @ \ L.uid[i]]

\* What a command does with a failure: a place forgets its leg, a transfer
\* clears what it staged and nothing newer.
AvUndo(r) ==
    CASE r.op = "place"    -> AvRemoveLeg(avLegs, r.leg)
      [] r.op = "transfer" -> [avLegs EXCEPT !.staged[r.leg] = @ \ {r}]
      [] OTHER             -> avLegs

\* The command returns: with its reply, or with an error of the client.
AvReturns(r) ==
    /\ avReq[r].at = "wait"
    /\ \E result \in {avReq[r].reply, "error"} \ {"none"} :
        /\ avReq' = [avReq EXCEPT ![r].at = "done", ![r].result = result]
        /\ avLegs' = IF result = "ok" THEN avLegs ELSE AvUndo(r)
    /\ UNCHANGED <<avWire, avQueue, avLoop, avStop, avChan, avDrops, avSent, avLost>>

(***************************************************************************)
(* The session's reader.                                                   *)
(***************************************************************************)
\* onReply, then the waiter: bindFromResponse binds the channel the reply
\* names before the request can see the reply.
AvReadReply ==
    LET p == Head(avWire)
        i == p.req.leg
        binds == p.chan # AvNoChannel /\ i \in avLegs.tracked
    IN  /\ avWire # <<>> /\ AvIsReply(p)
        /\ avWire' = Tail(avWire)
        /\ avLegs' = IF ~binds THEN avLegs
                     ELSE [avLegs EXCEPT !.channel[i] = IF @ = {} THEN {p.chan} ELSE @,
                                         !.byChan = @ \cup {p.chan}]
        /\ avReq' = [avReq EXCEPT ![p.req].reply = IF avReq[p.req].at = "wait" THEN p.event ELSE @]
        /\ UNCHANGED <<avQueue, avLoop, avStop, avChan, avDrops, avSent, avLost>>

\* What is missed when packets are lost: that a channel ended, and to which leg
\* a channel belongs unless a reply has told it.
AvMissed(packets) ==
    {p \in packets : p.event = "hangup" \/ (p.event = "newchannel" /\ p.chan \notin avLegs.byChan)}

\* onEvent: enqueueEvent blocks on a full queue until there is room, or until
\* the adapter stops: then the event is dropped.
AvEnqueueEvent ==
    /\ avWire # <<>> /\ ~AvIsReply(Head(avWire))
    /\ avWire' = Tail(avWire)
    /\ \/ /\ Len(avQueue) < AvQueueSize
          /\ avQueue' = Append(avQueue, Head(avWire)) /\ avLost' = avLost
       \/ /\ avStop # "open"
          /\ avQueue' = avQueue /\ avLost' = avLost \cup AvMissed({Head(avWire)})
    /\ UNCHANGED <<avReq, avLegs, avLoop, avStop, avChan, avDrops, avSent>>

\* The session drops: its packets are lost, requests that wait write again.
AvSessionDrops ==
    /\ avDrops < AvMaxDrops
    /\ avDrops' = avDrops + 1
    /\ avWire' = <<>> /\ avLost' = avLost \cup AvMissed(AvElements(avWire))
    /\ avReq' = [r \in AvRequests |-> [avReq[r] EXCEPT !.wire = avReq[r].at = "wait" /\ avReq[r].reply = "none"]]
    /\ UNCHANGED <<avLegs, avQueue, avLoop, avStop, avChan, avSent>>

(***************************************************************************)
(* The delivery goroutine.                                                 *)
(***************************************************************************)
\* legForEvent: by uniqueid, by channel, or by the ActionID of a tracked leg if
\* the packet echoes it.
AvOwned(c, echo) == c \in avLegs.byUid \/ c \in avLegs.byChan \/ (echo /\ c.leg \in avLegs.tracked)

\* onNewchannel: bind the channel to the leg its ActionID names, or to the one a
\* reply bound it to.
AvBindChannel(c, echo) ==
    IF ~((echo /\ c.leg \in avLegs.tracked) \/ c \in avLegs.byChan) THEN avLegs
    ELSE [avLegs EXCEPT !.channel[c.leg] = IF @ = {} THEN {c} ELSE @, !.uid[c.leg] = {c},
                        !.byUid = @ \cup {c}, !.byChan = @ \cup {c}]

\* deliverLoop takes a packet and processPacket binds or translates it: the
\* first ringing after a transfer was staged names it, a hangup retires the leg.
\* Only here it matters whether the packet echoes the ActionID.
AvProcessPacket(echo) ==
    LET p == Head(avQueue)
        c == p.chan
        staged == avLegs.staged[c.leg]
        named == IF p.event = "ringing" /\ staged # {} THEN CHOOSE r \in staged : TRUE ELSE AvNoRequest
        delivers == p.event # "newchannel" /\ AvOwned(c, echo)
    IN  /\ avLoop = [at |-> "running", hand |-> AvNothing] /\ avQueue # <<>>
        /\ avQueue' = Tail(avQueue)
        /\ avLoop' = [avLoop EXCEPT !.hand = IF delivers THEN [p EXCEPT !.req = named] ELSE AvNothing]
        /\ avLegs' = CASE p.event = "newchannel"          -> AvBindChannel(c, echo)
                       [] delivers /\ p.event = "hangup"  -> AvRemoveLeg(avLegs, c.leg)
                       [] delivers /\ p.event = "ringing" -> [avLegs EXCEPT !.staged[c.leg] = {}]
                       [] OTHER                           -> avLegs
        /\ avLost' = IF p.event = "newchannel" /\ ~echo THEN avLost \cup AvMissed({p}) ELSE avLost
        /\ UNCHANGED <<avReq, avWire, avStop, avChan, avDrops, avSent>>

\* deliver: one signed provider event; a rejection is not tried again.
AvDeliver ==
    LET p == avLoop.hand
        i == p.chan.leg
    IN  /\ p # AvNothing
        /\ avLoop' = [avLoop EXCEPT !.hand = AvNothing]
        /\ avSent' = [avSent EXCEPT
                !.ended[i] = IF p.event = "hangup" THEN @ + 1 ELSE @,
                !.late = IF avSent.ended[i] > 0 THEN @ \cup {i} ELSE @,
                !.named = @ \cup ({p.req} \ {AvNoRequest}),
                !.renamed = @ \cup ({p.req} \cap avSent.named)]
        /\ UNCHANGED <<avReq, avLegs, avWire, avQueue, avStop, avChan, avDrops, avLost>>

\* deliverLoop sees stop and returns; what is queued is not delivered.
AvDeliverStops ==
    /\ avLoop = [at |-> "running", hand |-> AvNothing] /\ avStop # "open"
    /\ avLoop' = [avLoop EXCEPT !.at = "ended"]
    /\ avQueue' = <<>> /\ avLost' = avLost \cup AvMissed(AvElements(avQueue))
    /\ UNCHANGED <<avReq, avLegs, avWire, avStop, avChan, avDrops, avSent>>

\* Close: stop is closed; it returns once the delivery goroutine has ended.
AvClose ==
    /\ avStop = "open"
    /\ avStop' = "stopping"
    /\ UNCHANGED <<avReq, avLegs, avWire, avQueue, avLoop, avChan, avDrops, avSent, avLost>>

AvCloseReturns ==
    /\ avStop = "stopping" /\ avLoop.at = "ended"
    /\ avStop' = "closed"
    /\ UNCHANGED <<avReq, avLegs, avWire, avQueue, avLoop, avChan, avDrops, avSent, avLost>>

(***************************************************************************)
(* The PBX.                                                                *)
(***************************************************************************)
AvEvent(e, c) == AvPacket(e, c, AvNoRequest)
AvReply(verdict, r) == AvPacket(verdict, AvNoChannel, r)
AvAlive(c) == avChan[c] \in {"new", "ringing", "up"}
AvSends(packets) == Len(avWire) < AvMaxSent /\ avWire' = avWire \o packets

\* The PBX refuses an action, or runs one that has no event of its own.
AvPBXReplies(r) ==
    /\ avReq[r].wire /\ avReq' = [avReq EXCEPT ![r].wire = FALSE]
    /\ \E verdict \in {"refused"} \cup (IF r.op \in {"hold", "resume"} THEN {"ok"} ELSE {}) :
        AvSends(<<AvReply(verdict, r)>>)
    /\ UNCHANGED <<avLegs, avQueue, avLoop, avStop, avChan, avDrops, avSent, avLost>>

\* An Originate runs: a channel is created; the reply may name it.
AvPBXOriginates(r) ==
    LET c == [leg |-> r.leg, run |-> avDrops]
    IN  /\ r.op = "place" /\ avReq[r].wire /\ avReq' = [avReq EXCEPT ![r].wire = FALSE]
        /\ avChan' = [avChan EXCEPT ![c] = "new"]
        /\ \E reply \in {AvReply("ok", r), AvPacket("ok", c, r)} : AvSends(<<reply, AvEvent("newchannel", c)>>)
        /\ UNCHANGED <<avLegs, avQueue, avLoop, avStop, avDrops, avSent, avLost>>

\* A Redirect runs: the channel that was up rings again elsewhere.
AvPBXRedirects(r, c) ==
    /\ r.op = "transfer" /\ avReq[r].wire /\ avReq' = [avReq EXCEPT ![r].wire = FALSE]
    /\ c \in avLegs.channel[r.leg] /\ avChan[c] = "up"
    /\ avChan' = [avChan EXCEPT ![c] = "ringing"]
    /\ AvSends(<<AvReply("ok", r), AvEvent("ringing", c)>>)
    /\ UNCHANGED <<avLegs, avQueue, avLoop, avStop, avDrops, avSent, avLost>>

\* The destination rings, then answers.
AvPBXProgress(c) ==
    /\ avChan[c] \in {"new", "ringing"}
    /\ avChan' = [avChan EXCEPT ![c] = IF @ = "new" THEN "ringing" ELSE "up"]
    /\ AvSends(<<AvEvent(avChan'[c], c)>>)
    /\ UNCHANGED <<avReq, avLegs, avQueue, avLoop, avStop, avDrops, avSent, avLost>>

\* A channel ends, by itself or because a Hangup action runs.
AvPBXHangsUp(c) ==
    /\ AvAlive(c)
    /\ avChan' = [avChan EXCEPT ![c] = "down"]
    /\ AvSends(<<AvEvent("hangup", c)>>)
    /\ UNCHANGED <<avReq, avLegs, avQueue, avLoop, avStop, avDrops, avSent, avLost>>

AvPBXRunsHangup(r, c) ==
    /\ r.op = "hangup" /\ avReq[r].wire /\ avReq' = [avReq EXCEPT ![r].wire = FALSE]
    /\ c \in avLegs.channel[r.leg] /\ AvAlive(c)
    /\ avChan' = [avChan EXCEPT ![c] = "down"]
    /\ AvSends(<<AvReply("ok", r), AvEvent("hangup", c)>>)
    /\ UNCHANGED <<avLegs, avQueue, avLoop, avStop, avDrops, avSent, avLost>>

AvNext ==
    \/ \E r \in AvRequests :
        \/ AvPlaceCall(r) \/ AvCommand(r) \/ AvReturns(r) \/ AvPBXReplies(r) \/ AvPBXOriginates(r)
        \/ \E c \in AvChannels : AvPBXRedirects(r, c) \/ AvPBXRunsHangup(r, c)
    \/ \E c \in AvChannels : AvPBXProgress(c) \/ AvPBXHangsUp(c)
    \/ AvReadReply \/ AvEnqueueEvent \/ AvSessionDrops
    \/ \E echo \in BOOLEAN : AvProcessPacket(echo)
    \/ AvDeliver \/ AvDeliverStops \/ AvClose \/ AvCloseReturns

AvSpec == AvInit /\ [][AvNext]_avVars

(***************************************************************************)
(* Properties.                                                             *)
(***************************************************************************)
AvOriginated(i) == {c \in AvChannels : c.leg = i /\ avChan[c] # "none"}

\* A call.ended is the last provider event of its interaction, unless a drop
\* made the client run the Originate twice: onHangup retires the leg and the
\* single delivery goroutine keeps the wire order.
AvEndIsFinal == \A i \in avSent.late : Cardinality(AvOriginated(i)) > 1

AvNews(kind, packets) == {p.chan : p \in {q \in packets : q.event = kind}}
AvPending == AvElements(avWire) \cup AvElements(avQueue)

\* No leg is tracked for ever: when its channels have ended and no request is
\* still placing it, the Hangup of one is on its way or was lost with a session
\* or at Close; or nothing ever told which of the PBX's channels are the leg's,
\* no reply and no Newchannel, and their Hangups, if they echo no ActionID, were
\* nobody's (legForEvent).
AvLegRetired ==
    \A i \in avLegs.tracked :
        (/\ AvOriginated(i) # {} /\ \A c \in AvOriginated(i) : ~AvAlive(c)
         /\ \A r \in AvRequests : r.leg = i /\ r.op = "place" => avReq[r].at = "done")
        => \/ AvOriginated(i) \cap AvNews("hangup", avLost \cup AvPending) # {}
           \/ AvOriginated(i) \subseteq AvNews("newchannel", avLost)

\* A transfer is named by at most one ringing: processPacket consumes what
\* Transfer staged, and a Redirect that is written again stages nothing.
AvTransferNamedOnce == avSent.renamed = {}

\* The life of a leg as the platform sees it: it ends once and for all, it is
\* given up when it is over, and a transfer is told once.
AvLegLife == AvEndIsFinal /\ AvLegRetired /\ AvTransferNamedOnce
=============================================================================
