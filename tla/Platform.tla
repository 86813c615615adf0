------------------------------ MODULE Platform ------------------------------
(***************************************************************************)
(* The platform's own services around the interaction path.                *)
(*                                                                         *)
(* Each keeps its state to itself, in its tables or in its process, and    *)
(* they meet only through the outbox and the bus, which Outbox and         *)
(* EventPipeline model.  So a behaviour here is one of a single service.   *)
(***************************************************************************)
EXTENDS Conversations, Cases, WorkflowEngine, TemporalDriver, FactStore, SearchIndexer,
        NatsBus, RealtimeHub, ToolGateway

VARIABLE plService \* the service the behaviour is about

plVars == <<plService, cnvVars, casVars, wfeVars, tmpVars, fsVars, idxVars, natVars, hubVars, tgwVars>>

PlServices == {"conversations", "cases", "workflows", "temporal", "facts", "search", "bus", "hub", "tools"}

PlInit ==
    /\ plService \in PlServices
    /\ CnvInit /\ CasInit /\ WfeInit /\ TmpInit /\ FsInit /\ IdxInit /\ NatInit /\ HubInit /\ TgwInit

PlNext ==
    \/ plService = "conversations" /\ CnvNext
       /\ UNCHANGED <<plService, casVars, wfeVars, tmpVars, fsVars, idxVars, natVars, hubVars, tgwVars>>
    \/ plService = "cases" /\ CasNext
       /\ UNCHANGED <<plService, cnvVars, wfeVars, tmpVars, fsVars, idxVars, natVars, hubVars, tgwVars>>
    \/ plService = "workflows" /\ WfeNext
       /\ UNCHANGED <<plService, cnvVars, casVars, tmpVars, fsVars, idxVars, natVars, hubVars, tgwVars>>
    \/ plService = "temporal" /\ TmpNext
       /\ UNCHANGED <<plService, cnvVars, casVars, wfeVars, fsVars, idxVars, natVars, hubVars, tgwVars>>
    \/ plService = "facts" /\ FsNext
       /\ UNCHANGED <<plService, cnvVars, casVars, wfeVars, tmpVars, idxVars, natVars, hubVars, tgwVars>>
    \/ plService = "search" /\ IdxNext
       /\ UNCHANGED <<plService, cnvVars, casVars, wfeVars, tmpVars, fsVars, natVars, hubVars, tgwVars>>
    \/ plService = "bus" /\ NatNext
       /\ UNCHANGED <<plService, cnvVars, casVars, wfeVars, tmpVars, fsVars, idxVars, hubVars, tgwVars>>
    \/ plService = "hub" /\ HubNext
       /\ UNCHANGED <<plService, cnvVars, casVars, wfeVars, tmpVars, fsVars, idxVars, natVars, tgwVars>>
    \/ plService = "tools" /\ TgwNext
       /\ UNCHANGED <<plService, cnvVars, casVars, wfeVars, tmpVars, fsVars, idxVars, natVars, hubVars>>

PlSpec == PlInit /\ [][PlNext]_plVars
=============================================================================
