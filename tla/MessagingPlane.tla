--------------------------- MODULE MessagingPlane ---------------------------
(***************************************************************************)
(* The messaging plane: Build constructs one of the messaging providers.   *)
(*                                                                         *)
(* The Africa's Talking adapter serves SMS and USSD, with a table for each *)
(* and no state in common, so a behaviour is one of a single part.         *)
(***************************************************************************)
EXTENDS AtSms, AtUssd, TwilioSms, WhatsApp

VARIABLE mpPart \* the part of the provider the behaviour is about

mpVars == <<mpPart, atsVars, atuVars, twsVars, wacVars>>

\* What the switch on the messaging provider constructs.
MpParts == {"africastalking sms", "africastalking ussd", "twilio", "whatsappcloud"}

MpInit == mpPart \in MpParts /\ AtsInit /\ AtuInit /\ TwsInit /\ WacInit

MpNext ==
    \/ mpPart = "africastalking sms" /\ AtsNext /\ UNCHANGED <<mpPart, atuVars, twsVars, wacVars>>
    \/ mpPart = "africastalking ussd" /\ AtuNext /\ UNCHANGED <<mpPart, atsVars, twsVars, wacVars>>
    \/ mpPart = "twilio" /\ TwsNext /\ UNCHANGED <<mpPart, atsVars, atuVars, wacVars>>
    \/ mpPart = "whatsappcloud" /\ WacNext /\ UNCHANGED <<mpPart, atsVars, atuVars, twsVars>>

MpSpec == MpInit /\ [][MpNext]_mpVars /\ WacFairness
=============================================================================
