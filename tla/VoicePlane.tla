----------------------------- MODULE VoicePlane -----------------------------
(***************************************************************************)
(* The voice plane: Build constructs one of the voice providers, and the   *)
(* process runs on it until it ends.                                       *)
(*                                                                         *)
(* Asterisk and FreeSWITCH have two parts each, the session with the       *)
(* switch and the call legs on top of it.  The parts share no state but    *)
(* what the legs' modules say of the session, so a behaviour here is one   *)
(* of a single part.  The simulator, the sixth choice, is in Receipts.     *)
(***************************************************************************)
EXTENDS AmiSession, AmiVoice, EslSession, EslVoice, AtVoice, TwilioVoice

VARIABLE vpPart \* the part of the provider the behaviour is about

vpVars == <<vpPart, amiVars, avVars, eslVars, evVars, atvVars, twvVars>>

\* What the switch on the telephony provider constructs.
VpParts == {"asterisk session", "asterisk legs", "freeswitch session", "freeswitch legs",
            "africastalking", "twilio"}

VpInit ==
    /\ vpPart \in VpParts
    /\ AmiInit /\ AvInit /\ EslInit /\ EvInit /\ AtvInit /\ TwvInit

VpNext ==
    \/ vpPart = "asterisk session" /\ AmiNext
       /\ UNCHANGED <<vpPart, avVars, eslVars, evVars, atvVars, twvVars>>
    \/ vpPart = "asterisk legs" /\ AvNext
       /\ UNCHANGED <<vpPart, amiVars, eslVars, evVars, atvVars, twvVars>>
    \/ vpPart = "freeswitch session" /\ EslNext
       /\ UNCHANGED <<vpPart, amiVars, avVars, evVars, atvVars, twvVars>>
    \/ vpPart = "freeswitch legs" /\ EvNext
       /\ UNCHANGED <<vpPart, amiVars, avVars, eslVars, atvVars, twvVars>>
    \/ vpPart = "africastalking" /\ AtvNext
       /\ UNCHANGED <<vpPart, amiVars, avVars, eslVars, evVars, twvVars>>
    \/ vpPart = "twilio" /\ TwvNext
       /\ UNCHANGED <<vpPart, amiVars, avVars, eslVars, evVars, atvVars>>

VpSpec == VpInit /\ [][VpNext]_vpVars /\ EslFairness
=============================================================================
