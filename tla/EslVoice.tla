------------------------------ MODULE EslVoice ------------------------------
(***************************************************************************)
(* The call legs of the FreeSWITCH voice adapter and their events.         *)
(*                                                                         *)
(* PlaceCall tracks the leg, sends bgapi originate and, when the switch    *)
(* has accepted it, records which background job carries the result.  The  *)
(* demux goroutine hands events to handleEvent inline, in wire order, and  *)
(* replies to the command that waits; the two run concurrently, so a job's *)
(* result may be handled before its job is recorded.                       *)
(*                                                                         *)
(* The client is reduced to what EslSession shows of it: a command gets    *)
(* its own reply or an error.  The switch is external: it may accept a     *)
(* dial whose reply is lost, and the result of a dial's job comes at any   *)
(* time, before or after the channel answers and ends.  The job of a leg   *)
(* is named by the leg.                                                    *)
(***************************************************************************)
EXTENDS Integers, Sequences, FiniteSets

CONSTANTS
    EvRequests,   \* API requests, records [op, leg]
    EvMaxCommands,\* bound on the commands issued after the calls are placed
    EvMaxDrops    \* bound on the connections that drop

EvOps == {"place", "hangup", "transfer", "hold", "resume"}
EvLegs == {r.leg : r \in EvRequests}

ASSUME EslVoiceAssumption ==
    /\ \A r \in EvRequests : r.op \in EvOps
    /\ \A r, s \in EvRequests : r.op = "place" /\ s.op = "place" /\ r.leg = s.leg => r = s
    /\ EvMaxCommands \in Nat /\ EvMaxDrops \in Nat

VARIABLES
    evReq,    \* per request: idle, wait, replied, emit (Transfer's event), done; result
    evLegs,   \* legRegistry: legs, jobs, and the legs that know their job
    evWire,   \* frames of the switch that demux has not read
    evCall,   \* external: the switch's channel (none, dialling, up, failed, over), job unfinished
    evDrops,  \* connections dropped so far
    evSent,   \* history: per leg, the provider events emitted
    evMissed  \* history: legs whose failed job or hangup nobody could use

evVars == <<evReq, evLegs, evWire, evCall, evDrops, evSent, evMissed>>

EvNoCall == [chan |-> "none", job |-> FALSE]

EvInit ==
    /\ evReq = [r \in EvRequests |-> [at |-> "idle", result |-> "none"]]
    /\ evLegs = [tracked |-> {}, jobs |-> {}, known |-> {}]
    /\ evWire = <<>>
    /\ evCall = [i \in EvLegs |-> EvNoCall]
    /\ evDrops = 0
    /\ evSent = [i \in EvLegs |-> <<>>]
    /\ evMissed = {}

EvEmit(i, e) == [evSent EXCEPT ![i] = Append(@, e)]

\* A bug: a leg that ended stays in the registry.
EvEndLegKept(L, i) == [L EXCEPT !.jobs = @ \ ({i} \cap L.known), !.known = @ \ {i}]

\* endLeg: the leg goes, and its job if it is known.
EvEndLeg(L, i) ==
    IF i \notin L.tracked THEN L
    ELSE [tracked |-> L.tracked \ {i}, jobs |-> L.jobs \ ({i} \cap L.known), known |-> L.known \ {i}]

(***************************************************************************)
(* API requests.                                                           *)
(***************************************************************************)
EvPlaceCall(r) ==
    /\ r.op = "place" /\ evReq[r].at = "idle"
    /\ evLegs' = [evLegs EXCEPT !.tracked = @ \cup {r.leg}]
    /\ evReq' = [evReq EXCEPT ![r].at = "wait"]
    /\ UNCHANGED <<evWire, evCall, evDrops, evSent, evMissed>>

\* Hangup, Transfer and Hold need a tracked leg.
EvCommand(r) ==
    /\ r.op # "place" /\ evReq[r].at = "idle" /\ r.leg \in evLegs.tracked
    /\ Cardinality({q \in EvRequests : q.op # "place" /\ evReq[q].at # "idle"}) < EvMaxCommands
    /\ evReq' = [evReq EXCEPT ![r].at = "wait"]
    /\ UNCHANGED <<evLegs, evWire, evCall, evDrops, evSent, evMissed>>

\* Do fails: the command timed out or its connection is gone.
EvFails(r) ==
    /\ evReq[r].at \in {"wait", "sent"}
    /\ evReq' = [evReq EXCEPT ![r].at = "done", ![r].result = "error"]
    /\ evLegs' = IF r.op = "place" THEN EvEndLeg(evLegs, r.leg) ELSE evLegs
    /\ UNCHANGED <<evWire, evCall, evDrops, evSent, evMissed>>

\* PlaceCall goes on with the reply: trackJob, or the dial was refused.
EvPlaced(r) ==
    /\ r.op = "place" /\ evReq[r].at = "replied"
    /\ evReq' = [evReq EXCEPT ![r].at = "done"]
    /\ evLegs' = IF evReq[r].result # "ok" THEN EvEndLeg(evLegs, r.leg)
                 ELSE [evLegs EXCEPT !.jobs = @ \cup {r.leg},
                                     !.known = IF r.leg \in evLegs.tracked THEN @ \cup {r.leg} ELSE @]
    /\ UNCHANGED <<evWire, evCall, evDrops, evSent, evMissed>>

\* Another command goes on with its reply; "no such channel" retires the leg
\* (replyErr), and a Transfer that worked looks at the leg again to emit ringing.
EvReplied(r) ==
    /\ r.op # "place" /\ evReq[r].at = "replied"
    /\ evLegs' = IF evReq[r].result = "nochannel" THEN EvEndLeg(evLegs, r.leg) ELSE evLegs
    /\ evReq' = [evReq EXCEPT ![r].at = IF /\ r.op = "transfer" /\ evReq[r].result = "ok"
                                           /\ r.leg \in evLegs.tracked
                                        THEN "emit" ELSE "done"]
    /\ UNCHANGED <<evWire, evCall, evDrops, evSent, evMissed>>

EvTransferRings(r) ==
    /\ evReq[r].at = "emit"
    /\ evReq' = [evReq EXCEPT ![r].at = "done"]
    /\ evSent' = EvEmit(r.leg, "transfer")
    /\ UNCHANGED <<evLegs, evWire, evCall, evDrops, evMissed>>

(***************************************************************************)
(* demux: replies and events in wire order.                                *)
(***************************************************************************)
EvFrame == Head(evWire)
EvLeg == EvFrame.leg      \* the leg an event's Unique-ID or Job-UUID names
EvReads(kinds) == evWire # <<>> /\ EvFrame.kind \in kinds /\ evWire' = Tail(evWire)

EvReadReply ==
    /\ EvReads({"reply"})
    /\ evReq' = IF evReq[EvFrame.req].at # "sent" THEN evReq
                ELSE [evReq EXCEPT ![EvFrame.req].at = "replied", ![EvFrame.req].result = EvFrame.result]
    /\ UNCHANGED <<evLegs, evCall, evDrops, evSent, evMissed>>

\* onBackgroundJob: the job is resolved once; a result "+OK" also names its leg.
EvJobSucceeded ==
    LET i == EvLeg
    IN  /\ EvReads({"job_ok"})
        /\ evLegs' = [evLegs EXCEPT !.jobs = @ \ {i}]
        /\ evSent' = IF i \in evLegs.tracked THEN EvEmit(i, "ringing") ELSE evSent
        /\ UNCHANGED <<evReq, evCall, evDrops, evMissed>>

\* "-ERR": without a recorded job there is nothing to name the leg.
EvJobFailed ==
    LET i == EvLeg
        known == i \in evLegs.jobs
    IN  /\ EvReads({"job_err"})
        /\ evLegs' = IF known THEN EvEndLeg([evLegs EXCEPT !.jobs = @ \ {i}], i) ELSE evLegs
        /\ evSent' = IF known /\ i \in evLegs.tracked THEN EvEmit(i, "failed") ELSE evSent
        /\ evMissed' = IF known THEN evMissed ELSE evMissed \cup {i}
        /\ UNCHANGED <<evReq, evCall, evDrops>>

EvAnswer ==
    LET i == EvLeg
    IN  /\ EvReads({"answer"})
        /\ evSent' = IF i \in evLegs.tracked THEN EvEmit(i, "connected") ELSE evSent
        /\ UNCHANGED <<evReq, evLegs, evCall, evDrops, evMissed>>

\* onChannelHangup retires the leg first, then emits call.ended.
EvHangup ==
    LET i == EvLeg
    IN  /\ EvReads({"hangup"})
        /\ evLegs' = EvEndLeg(evLegs, i)
        /\ evSent' = IF i \in evLegs.tracked THEN EvEmit(i, "ended") ELSE evSent
        /\ UNCHANGED <<evReq, evCall, evDrops, evMissed>>

EvLegsIn(kinds, frames) == {f.leg : f \in {g \in {frames[k] : k \in 1 .. Len(frames)} : g.kind \in kinds}}

\* The connection drops: what it carried is lost and no event is sent again.
EvDrops ==
    /\ evDrops < EvMaxDrops
    /\ evDrops' = evDrops + 1
    /\ evWire' = <<>>
    /\ evMissed' = evMissed \cup EvLegsIn({"job_err", "hangup"}, evWire)
    /\ UNCHANGED <<evReq, evLegs, evCall, evSent>>

(***************************************************************************)
(* The switch.                                                             *)
(***************************************************************************)
EvNoRequest == [op |-> "none", leg |-> "none"]
EvSays(kind, i) == [kind |-> kind, leg |-> i, req |-> EvNoRequest, result |-> "none"]
EvAnswers(r, result) == [kind |-> "reply", leg |-> r.leg, req |-> r, result |-> result]

EvLive(i) == evCall[i].chan \in {"dialling", "up"}
EvOver(i) == evCall[i].chan \in {"failed", "over"}

\* A command arrives and is answered; the answer may be a refusal.
EvSwitchHandles(r, result) ==
    /\ evReq[r].at = "wait"
    /\ evReq' = [evReq EXCEPT ![r].at = "sent"]
    /\ evCall' = [evCall EXCEPT ![r.leg] = IF r.op = "place" /\ result = "ok"
                                           THEN [chan |-> "dialling", job |-> TRUE] ELSE @]
    /\ result = "nochannel" => r.op # "place" /\ EvOver(r.leg)
    /\ result = "ok" /\ r.op # "place" => EvLive(r.leg)
    /\ evWire' = Append(evWire, EvAnswers(r, result))
    /\ UNCHANGED <<evLegs, evDrops, evSent, evMissed>>

\* The switch tells of a leg: its channel goes on to a state, its job is or is
\* not finished.
EvSwitchTells(i, kind, chan, job) ==
    /\ evCall' = [evCall EXCEPT ![i] = [chan |-> chan, job |-> job]]
    /\ evWire' = Append(evWire, EvSays(kind, i))
    /\ UNCHANGED <<evReq, evLegs, evDrops, evSent, evMissed>>

\* The job finishes once: "+OK" before or after the channel answers or ends;
\* "-ERR" when the dial fails, or after the channel's own hangup.
EvSwitchFinishesJob(i) ==
    /\ evCall[i].job
    /\ \/ EvSwitchTells(i, "job_ok", evCall[i].chan, FALSE)
       \/ /\ evCall[i].chan # "up"
          /\ EvSwitchTells(i, "job_err", IF EvOver(i) THEN "over" ELSE "failed", FALSE)

\* The channel answers; it hangs up, the one of a failed dial too.
EvSwitchAnswers(i) ==
    evCall[i].chan = "dialling" /\ EvSwitchTells(i, "answer", "up", evCall[i].job)

EvSwitchHangsUp(i) ==
    /\ EvLive(i) \/ evCall[i].chan = "failed"
    /\ EvSwitchTells(i, "hangup", "over", evCall[i].job)

EvNext ==
    \/ \E r \in EvRequests :
        \/ EvPlaceCall(r) \/ EvCommand(r) \/ EvFails(r) \/ EvPlaced(r) \/ EvReplied(r) \/ EvTransferRings(r)
        \/ \E result \in {"ok", "err", "nochannel"} : EvSwitchHandles(r, result)
    \/ EvReadReply \/ EvJobSucceeded \/ EvJobFailed \/ EvAnswer \/ EvHangup \/ EvDrops
    \/ \E i \in EvLegs : EvSwitchFinishesJob(i) \/ EvSwitchAnswers(i) \/ EvSwitchHangsUp(i)

EvSpec == EvInit /\ [][EvNext]_evVars

(***************************************************************************)
(* Properties.                                                             *)
(***************************************************************************)
EvTerminal == {"ended", "failed"}

\* After call.ended or call.failed the lifecycle does not move again: neither a
\* job result that lost the race with the hangup, nor the hangup of a dial that
\* failed, nor an answer is emitted.  The one event that may follow is the
\* ringing of a transfer already under way.
EvEndIsFinal ==
    \A i \in EvLegs : \A j, k \in 1 .. Len(evSent[i]) :
        j < k /\ evSent[i][j] \in EvTerminal => evSent[i][k] = "transfer"

EvOverSoon(i) == i \in EvLegsIn({"hangup", "job_err"}, evWire)

\* No leg is tracked for ever: when its call is over, and PlaceCall has
\* returned, the event that retires it is on its way; unless a connection lost
\* it or a failed job's result came before the job was recorded.
EvLegRetired ==
    \A i \in evLegs.tracked :
        (/\ EvOver(i)
         /\ \A r \in EvRequests : r.op = "place" /\ r.leg = i => evReq[r].at = "done")
        => EvOverSoon(i) \/ i \in evMissed

\* The life of a leg: its end is final, and it is given up when it is over.
EvLegLife == EvEndIsFinal /\ EvLegRetired
=============================================================================
