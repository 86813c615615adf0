--------------------------- MODULE DeliveryProofs ---------------------------
(***************************************************************************)
(* Theorems about the delivery of events: the worker process from the      *)
(* outbox to the tables of its consumers, the NATS subscription, the       *)
(* search indexer and the ClickHouse fact store.                           *)
(***************************************************************************)
EXTENDS OutboxProofs, EventPipeline, ServiceProofs, Platform, FiniteSetTheorems, TLAPS

(***************************************************************************)
(* The worker process: the bus and its consumers.                          *)
(***************************************************************************)
Counters == [Events -> Nat]
RunningOK == running \in [Workers -> [Consumers -> Counters]]
SpentOK == spent \in [FaultKinds -> Nat]

PipelineInv == RunningOK /\ SpentOK /\ bus \subseteq Events /\ EffectLostOnlyByFault

\* A fault that happened is never forgotten.
LEMMA SpendCounts ==
    ASSUME SpentOK, NEW f \in FaultKinds, Spend(f)
    PROVE  SpentOK' /\ spent'[f] > 0 /\ \A g \in FaultKinds : spent[g] > 0 => spent'[g] > 0
  BY DEF SpentOK, Spend

LEMMA FaultsRemembered ==
    ASSUME SpentOK, spent' = spent \/ \E f \in FaultKinds : Spend(f)
    PROVE  SpentOK' /\ (NoCrashNoDBFault' => NoCrashNoDBFault)
  <1>1. CASE spent' = spent
    BY <1>1 DEF SpentOK, NoCrashNoDBFault
  <1>2. ASSUME NEW f \in FaultKinds, Spend(f) PROVE SpentOK' /\ (NoCrashNoDBFault' => NoCrashNoDBFault)
    <2>1. SpentOK' /\ \A g \in FaultKinds : spent[g] > 0 => spent'[g] > 0
      BY <1>2, SpendCounts
    <2>2. spent["crash"] \in Nat /\ spent["db"] \in Nat /\ spent'["crash"] \in Nat /\ spent'["db"] \in Nat
      BY <2>1 DEF SpentOK, FaultKinds
    <2> QED
      BY <2>1, <2>2 DEF NoCrashNoDBFault, FaultKinds
  <1> QED
    BY <1>1, <1>2

\* A goroutine that ends leaves the others running.
LEMMA FinishedOne ==
    ASSUME RunningOK, NEW w \in Workers, NEW c \in Consumers, NEW e \in Events, Finished(w, c, e)
    PROVE  /\ RunningOK'
           /\ \A v \in Workers, d \in Consumers, g \in Events :
                running[v][d][g] > 0 => running'[v][d][g] > 0 \/ (d = c /\ g = e)
           /\ \A v \in Workers, d \in Consumers, g \in Events :
                running'[v][d][g] > 0 => running[v][d][g] > 0
  <1>1. running[w][c][e] \in Nat /\ running[w][c][e] > 0
    BY DEF RunningOK, Counters, Finished
  <1>2. PICK n \in Nat : n = running[w][c][e] - 1
    BY <1>1
  <1> DEFINE f == [running[w][c] EXCEPT ![e] = n]
             h == [running[w] EXCEPT ![c] = f]
  <1>3. f \in Counters /\ \A g \in Events \ {e} : f[g] = running[w][c][g]
    BY DEF RunningOK, Counters
  <1>4. running' = [running EXCEPT ![w] = h]
    BY <1>2 DEF Finished
  <1> HIDE DEF f
  <1>5. h \in [Consumers -> Counters] /\ h[c] = f /\ \A d \in Consumers \ {c} : h[d] = running[w][d]
    BY <1>3 DEF RunningOK
  <1> HIDE DEF h
  <1>6. RunningOK' /\ running'[w] = h /\ \A v \in Workers \ {w} : running'[v] = running[v]
    BY <1>4, <1>5 DEF RunningOK
  <1> QED
    BY <1>1, <1>3, <1>5, <1>6

\* Publish starts a goroutine for every consumer.
LEMMA SpawnStarts ==
    ASSUME RunningOK, NEW w \in Workers, NEW e \in Events, Spawn(w, e)
    PROVE  /\ RunningOK'
           /\ \A c \in Consumers : running'[w][c][e] > 0
           /\ \A v \in Workers, d \in Consumers, g \in Events :
                running[v][d][g] > 0 => running'[v][d][g] > 0
  <1> DEFINE h == [c \in Consumers |-> [running[w][c] EXCEPT ![e] = @ + 1]]
  <1>1. running' = [running EXCEPT ![w] = h]
    BY DEF Spawn
  <1>2. \A c \in Consumers : /\ h[c] \in Counters /\ h[c][e] > 0
                             /\ \A g \in Events : running[w][c][g] > 0 => h[c][g] > 0
    <2> SUFFICES ASSUME NEW c \in Consumers
                 PROVE  /\ h[c] \in Counters /\ h[c][e] > 0
                        /\ \A g \in Events : running[w][c][g] > 0 => h[c][g] > 0
      OBVIOUS
    <2>1. running[w][c] \in [Events -> Nat]
      BY DEF RunningOK, Counters
    <2>2. h[c] = [running[w][c] EXCEPT ![e] = @ + 1]
      OBVIOUS
    <2> QED
      BY <2>1, <2>2 DEF Counters
  <1>3. h \in [Consumers -> Counters]
    BY <1>2
  <1> HIDE DEF h
  <1>4. RunningOK' /\ running'[w] = h /\ \A v \in Workers \ {w} : running'[v] = running[v]
    BY <1>1, <1>3 DEF RunningOK
  <1> QED
    BY <1>2, <1>4

\* The dispatchers hand events to the bus only by PublishRow, and say so.
LEMMA DispatcherKeeps ==
    ASSUME PipelineInv, bus' = bus, UNCHANGED Sinks, spent' = spent \/ \E f \in FaultKinds : Spend(f)
    PROVE  PipelineInv'
  <1>1. SpentOK' /\ (NoCrashNoDBFault' => NoCrashNoDBFault)
    BY FaultsRemembered DEF PipelineInv
  <1>2. EffectLostOnlyByFault'
    BY <1>1 DEF PipelineInv, EffectLostOnlyByFault, Sinks, InHand, HasEffect
  <1> QED
    BY <1>1, <1>2 DEF PipelineInv, RunningOK, Sinks

\* What is in hand stays in hand until it has its effect.
LEMMA EffectsKeep ==
    ASSUME PipelineInv, RunningOK', SpentOK', bus' \subseteq Events, NoCrashNoDBFault' => NoCrashNoDBFault,
           audit \subseteq audit', facts \subseteq facts',
           NoCrashNoDBFault' => \A c \in Consumers : \A g \in Events :
               /\ g \in bus' => g \in bus \/ \E v \in Workers : running'[v][c][g] > 0
               /\ \A v \in Workers : running[v][c][g] > 0 => running'[v][c][g] > 0 \/ HasEffect(c, g)'
    PROVE  PipelineInv'
  <1> SUFFICES ASSUME NoCrashNoDBFault', NEW e \in bus', NEW c \in Consumers PROVE InHand(c, e)'
    BY DEF PipelineInv, EffectLostOnlyByFault
  <1>1. e \in Events
    BY DEF PipelineInv
  <1>2. CASE e \in bus
    <2>1. InHand(c, e)
      BY <1>2 DEF PipelineInv, EffectLostOnlyByFault
    <2>2. HasEffect(c, e) => HasEffect(c, e)'
      BY DEF HasEffect
    <2> QED
      BY <1>1, <2>1, <2>2 DEF InHand
  <1>3. CASE e \notin bus
    BY <1>1, <1>3 DEF InHand
  <1> QED
    BY <1>2, <1>3

LEMMA PublishKeeps ==
    ASSUME PipelineInv, NEW w \in Workers, NEW e \in Events, PublishToBus(w, e)
    PROVE  PipelineInv'
  <1>1. bus' = bus \cup {e} /\ UNCHANGED <<spent, audit, facts>> /\ Spawn(w, e)
    BY DEF PublishToBus, PublishRow
  <1>2. /\ RunningOK' /\ \A c \in Consumers : running'[w][c][e] > 0
        /\ \A v \in Workers, d \in Consumers, g \in Events : running[v][d][g] > 0 => running'[v][d][g] > 0
    BY <1>1, SpawnStarts DEF PipelineInv
  <1>3. SpentOK' /\ (NoCrashNoDBFault' => NoCrashNoDBFault) /\ bus' \subseteq Events
    BY <1>1 DEF PipelineInv, SpentOK, NoCrashNoDBFault
  <1> QED
    BY <1>1, <1>2, <1>3, EffectsKeep

LEMMA HandlersKeep ==
    ASSUME PipelineInv, NEW w \in Workers, NEW e \in Events,
           HandleAudit(w, e) \/ HandleFact(w, e) \/ \E c \in Consumers : HandlerError(w, c, e)
    PROVE  PipelineInv'
  <1>0. "audit" \in Consumers /\ "facts" \in Consumers /\ bus' = bus /\ bus \subseteq Events /\ RunningOK /\ SpentOK
    BY DEF Consumers, HandleAudit, HandleFact, HandlerError, PipelineInv
  <1>1. CASE HandleAudit(w, e)
    <2>1. Finished(w, "audit", e) /\ audit' = audit \cup {e} /\ facts' = facts /\ spent' = spent
      BY <1>1 DEF HandleAudit, AuditInsert
    <2>2. /\ RunningOK'
          /\ \A v \in Workers, d \in Consumers, g \in Events :
                running[v][d][g] > 0 => running'[v][d][g] > 0 \/ (d = "audit" /\ g = e)
      BY <1>0, <2>1, FinishedOne
    <2>3. HasEffect("audit", e)'
      BY <2>1 DEF HasEffect
    <2>4. SpentOK' /\ (NoCrashNoDBFault' => NoCrashNoDBFault)
      BY <1>0, <2>1 DEF SpentOK, NoCrashNoDBFault
    <2> QED
      BY <1>0, <2>1, <2>2, <2>3, <2>4, EffectsKeep
  <1>2. CASE HandleFact(w, e)
    <2>1. Finished(w, "facts", e) /\ facts' = facts \cup {e} /\ audit' = audit /\ spent' = spent
      BY <1>2 DEF HandleFact, FactInsert
    <2>2. /\ RunningOK'
          /\ \A v \in Workers, d \in Consumers, g \in Events :
                running[v][d][g] > 0 => running'[v][d][g] > 0 \/ (d = "facts" /\ g = e)
      BY <1>0, <2>1, FinishedOne
    <2>3. HasEffect("facts", e)'
      BY <2>1 DEF HasEffect
    <2>4. SpentOK' /\ (NoCrashNoDBFault' => NoCrashNoDBFault)
      BY <1>0, <2>1 DEF SpentOK, NoCrashNoDBFault
    <2> QED
      BY <1>0, <2>1, <2>2, <2>3, <2>4, EffectsKeep
  <1>3. ASSUME NEW c \in Consumers, HandlerError(w, c, e) PROVE PipelineInv'
    <2>1. Finished(w, c, e) /\ Spend("db") /\ audit' = audit /\ facts' = facts
      BY <1>3 DEF HandlerError
    <2>2. RunningOK'
      BY <1>0, <2>1, FinishedOne
    <2>3. SpentOK' /\ spent'["db"] > 0
      BY <1>0, <2>1, SpendCounts DEF FaultKinds
    <2>4. ~NoCrashNoDBFault'
      BY <2>3 DEF NoCrashNoDBFault
    <2> QED
      BY <1>0, <2>1, <2>2, <2>3, <2>4, EffectsKeep
  <1> QED
    BY <1>1, <1>2, <1>3

LEMMA ProcessCrashKeeps == ASSUME PipelineInv, NEW w \in Workers, ProcessCrash(w) PROVE PipelineInv'
  <1>0. bus' = bus /\ bus \subseteq Events /\ RunningOK /\ SpentOK /\ UNCHANGED <<audit, facts>> /\ Spend("crash")
    BY DEF PipelineInv, ProcessCrash, Crash
  <1>1. SpentOK' /\ spent'["crash"] > 0
    BY <1>0, SpendCounts DEF FaultKinds
  <1>2. ~NoCrashNoDBFault'
    BY <1>1 DEF NoCrashNoDBFault
  <1> DEFINE h == [c \in Consumers |-> [e \in Events |-> 0]]
  <1>3. h \in [Consumers -> Counters] /\ running' = [running EXCEPT ![w] = h]
    BY DEF Counters, ProcessCrash
  <1> HIDE DEF h
  <1>4. RunningOK'
    BY <1>0, <1>3 DEF RunningOK
  <1> QED
    BY <1>0, <1>1, <1>2, <1>4, EffectsKeep

LEMMA PipelineInvHolds == PipelineSpec => []PipelineInv
  <1>1. PipelineInit => PipelineInv
    BY DEF PipelineInit, Init, PipelineInv, RunningOK, Counters, SpentOK, EffectLostOnlyByFault
  <1>2. PipelineInv /\ [PipelineNext]_pipelineVars => PipelineInv'
    <2> SUFFICES ASSUME PipelineInv, [PipelineNext]_pipelineVars PROVE PipelineInv'
      OBVIOUS
    <2>1. ASSUME NEW e \in Events, Insert(e) \/ LeaseExpires(e), UNCHANGED Sinks PROVE PipelineInv'
      BY <2>1, DispatcherKeeps DEF Insert, LeaseExpires
    <2>2. ASSUME NEW w \in Workers, DispatcherStep(w) PROVE PipelineInv'
      <3>1. UNCHANGED Sinks /\ bus' = bus
        BY <2>2 DEF DispatcherStep, ClaimSelect, ClaimCommit, ClaimError, PublishError, Ack, AckError,
                    ReleaseForRetry, ReleaseError
      <3>2. spent' = spent \/ \E f \in FaultKinds : Spend(f)
        BY <2>2 DEF DispatcherStep, ClaimSelect, ClaimCommit, ClaimError, PublishError, Ack, AckError,
                    ReleaseForRetry, ReleaseError, FaultKinds
      <3> QED
        BY <3>1, <3>2, DispatcherKeeps
    <2>3. CASE UNCHANGED pipelineVars
      BY <2>3, DispatcherKeeps DEF pipelineVars, Sinks
    <2> QED
      BY <2>1, <2>2, <2>3, ProcessCrashKeeps, PublishKeeps, HandlersKeep DEF PipelineNext
  <1> QED
    BY <1>1, <1>2, PTL DEF PipelineSpec

\* An event the bus accepted reaches the audit trail and the facts, or a
\* goroutine holds it, unless a process died or a statement failed: for any
\* number of processes, events and goroutines.
THEOREM NoEffectLost == PipelineSpec => []EffectLostOnlyByFault
  <1>1. PipelineInv => EffectLostOnlyByFault
    BY DEF PipelineInv
  <1> QED
    BY <1>1, PipelineInvHolds, PTL

(***************************************************************************)
(* The dispatchers inside the worker process.                              *)
(***************************************************************************)
\* To the outbox a step of the pipeline is a step of its own or a handler's
\* failed INSERT, which only counts a fault.
LEMMA PipelineStepsOutbox ==
    ASSUME [PipelineNext]_pipelineVars
    PROVE  [Next]_vars \/ (Spend("db") /\ UNCHANGED <<row, worker, bus>>)
  <1>1. ASSUME NEW e \in Events, Insert(e) \/ LeaseExpires(e) PROVE Next
    BY <1>1 DEF Next
  <1>2. ASSUME NEW w \in Workers, DispatcherStep(w) PROVE Next
    BY <1>2 DEF DispatcherStep, Next, Tick, Fault
  <1>3. ASSUME NEW w \in Workers, ProcessCrash(w) PROVE Next
    BY <1>3 DEF ProcessCrash, Next, Fault
  <1>4. ASSUME NEW w \in Workers, NEW e \in Events, PublishToBus(w, e) PROVE Next
    BY <1>4 DEF PublishToBus, Next, Tick
  <1>5. ASSUME NEW w \in Workers, NEW e \in Events, HandleAudit(w, e) \/ HandleFact(w, e) PROVE UNCHANGED vars
    BY <1>5 DEF HandleAudit, HandleFact, vars
  <1>6. ASSUME NEW w \in Workers, NEW e \in Events, NEW c \in Consumers, HandlerError(w, c, e)
        PROVE  Spend("db") /\ UNCHANGED <<row, worker, bus>>
    BY <1>6 DEF HandlerError
  <1>7. CASE UNCHANGED pipelineVars
    BY <1>7 DEF pipelineVars, vars
  <1> QED
    BY <1>1, <1>2, <1>3, <1>4, <1>5, <1>6, <1>7 DEF PipelineNext

LEMMA PipelineIInv == IInv /\ [PipelineNext]_pipelineVars => IInv'
  <1> SUFFICES ASSUME IInv, [PipelineNext]_pipelineVars PROVE IInv'
    OBVIOUS
  <1>1. CASE [Next]_vars
    BY <1>1, StepIInv
  <1>2. CASE Spend("db") /\ UNCHANGED <<row, worker, bus>>
    <2>1. spent' \in [FaultKinds -> Nat]
      BY <1>2, SpendType DEF IInv, TypeOK, FaultKinds
    <2>2. TypeOK'
      BY <1>2, <2>1 DEF IInv, TypeOK
    <2> QED
      BY <1>2, <2>2 DEF IInv, TokenIffPublishing, TokensDistinct, ClaimOwnsNothingYet,
                        BatchCovered, NoSilentLoss, NoPhantomEvent, ParkedOnlyWhenExhausted
  <1> QED
    BY <1>1, <1>2, PipelineStepsOutbox

\* With its handlers running and failing beside them, the dispatchers keep
\* every safety property of the outbox.
THEOREM PipelineInductive == PipelineSpec => []IInv
  <1>1. PipelineInit => IInv
    BY InitIInv DEF PipelineInit
  <1> QED
    BY <1>1, PipelineIInv, PTL DEF PipelineSpec

\* The worker process as a whole implements the outbox's promise.
THEOREM PipelineRefinement == PipelineSpec => ImplementsDelivery
  <1>1. PipelineInit => Delivery!Init
    BY DEF PipelineInit, Init, Delivery!Init, Recorded, Settled, Parked, AbsentRow
  <1>2. IInv /\ [PipelineNext]_pipelineVars => [Delivery!Next]_Delivery!vars
    <2> SUFFICES ASSUME IInv, [PipelineNext]_pipelineVars PROVE [Delivery!Next]_Delivery!vars
      OBVIOUS
    <2>1. CASE [Next]_vars
      BY <2>1, StepRefines
    <2>2. CASE Spend("db") /\ UNCHANGED <<row, worker, bus>>
      <3>1. UNCHANGED Delivery!vars
        BY <2>2, Stutter
      <3> QED
        BY <3>1
    <2> QED
      BY <2>1, <2>2, PipelineStepsOutbox
  <1> QED
    BY <1>1, <1>2, PipelineInductive, PTL DEF PipelineSpec, ImplementsDelivery, Delivery!Spec

\* Only events on the bus have goroutines and rows in the consumers' tables.
OnlyFromBus ==
    /\ audit \cup facts \subseteq bus
    /\ \A w \in Workers, c \in Consumers, e \in Events : running[w][c][e] > 0 => e \in bus

\* End to end: an event marked 'published' has its audit row and its fact, or a
\* goroutine that is writing it, unless a process died or a statement failed;
\* and there is nothing of an event whose domain transaction did not commit.
PublishedTakesEffect ==
    /\ NoCrashNoDBFault =>
          \A e \in Events, c \in Consumers : row[e].status = "published" => InHand(c, e)
    /\ \A e \in Events, c \in Consumers : InHand(c, e) => row[e].status # "absent"

LEMMA PipelineOnlyFromBus ==
    RunningOK /\ OnlyFromBus /\ [PipelineNext]_pipelineVars => OnlyFromBus'
  <1> SUFFICES ASSUME RunningOK, OnlyFromBus, [PipelineNext]_pipelineVars PROVE OnlyFromBus'
    OBVIOUS
  <1>1. ASSUME bus \subseteq bus', UNCHANGED Sinks PROVE OnlyFromBus'
    BY <1>1 DEF OnlyFromBus, Sinks
  <1>2. ASSUME NEW e \in Events, Insert(e) \/ LeaseExpires(e), UNCHANGED Sinks PROVE OnlyFromBus'
    BY <1>1, <1>2 DEF Insert, LeaseExpires
  <1>3. ASSUME NEW w \in Workers, DispatcherStep(w) PROVE OnlyFromBus'
    BY <1>1, <1>3 DEF DispatcherStep, ClaimSelect, ClaimCommit, ClaimError, PublishError,
                      Ack, AckError, ReleaseForRetry, ReleaseError
  <1>4. ASSUME NEW w \in Workers, ProcessCrash(w) PROVE OnlyFromBus'
    <2> DEFINE h == [c \in Consumers |-> [e \in Events |-> 0]]
    <2>1. running' = [running EXCEPT ![w] = h] /\ UNCHANGED <<bus, audit, facts>>
      BY <1>4 DEF ProcessCrash, Crash
    <2>2. \A c \in Consumers, e \in Events : ~(h[c][e] > 0)
      OBVIOUS
    <2> HIDE DEF h
    <2>3. \A v \in Workers : running'[v] = h \/ running'[v] = running[v]
      BY <2>1 DEF RunningOK
    <2> QED
      BY <2>1, <2>2, <2>3 DEF OnlyFromBus
  <1>5. ASSUME NEW w \in Workers, NEW e \in Events, PublishToBus(w, e) PROVE OnlyFromBus'
    <2> DEFINE h == [c \in Consumers |-> [running[w][c] EXCEPT ![e] = @ + 1]]
    <2>1. running' = [running EXCEPT ![w] = h] /\ bus' = bus \cup {e} /\ UNCHANGED <<audit, facts>>
      BY <1>5 DEF PublishToBus, PublishRow, Spawn
    <2>2. \A c \in Consumers, g \in Events : g # e => h[c][g] = running[w][c][g]
      BY DEF RunningOK, Counters
    <2> HIDE DEF h
    <2>3. \A v \in Workers : running'[v] = running[v] \/ (v = w /\ running'[v] = h)
      BY <2>1 DEF RunningOK
    <2> QED
      BY <2>1, <2>2, <2>3 DEF OnlyFromBus
  <1>6. ASSUME NEW w \in Workers, NEW d \in Consumers, NEW e \in Events, Finished(w, d, e), bus' = bus,
               audit' \cup facts' \subseteq audit \cup facts \cup {e}
        PROVE  OnlyFromBus'
    <2>1. running[w][d][e] > 0
      BY <1>6 DEF Finished
    <2>2. \A v \in Workers, c \in Consumers, g \in Events :
             running'[v][c][g] > 0 => running[v][c][g] > 0
      BY <1>6, FinishedOne
    <2> QED
      BY <1>6, <2>1, <2>2 DEF OnlyFromBus
  <1>7. ASSUME NEW w \in Workers, NEW e \in Events, HandleAudit(w, e) PROVE OnlyFromBus'
    BY <1>6, <1>7 DEF HandleAudit, AuditInsert, Consumers
  <1>8. ASSUME NEW w \in Workers, NEW e \in Events, HandleFact(w, e) PROVE OnlyFromBus'
    BY <1>6, <1>8 DEF HandleFact, FactInsert, Consumers
  <1>9. ASSUME NEW w \in Workers, NEW e \in Events, NEW c \in Consumers, HandlerError(w, c, e) PROVE OnlyFromBus'
    BY <1>6, <1>9 DEF HandlerError
  <1>10. CASE UNCHANGED pipelineVars
    BY <1>1, <1>10 DEF pipelineVars, Sinks
  <1> QED
    BY <1>2, <1>3, <1>4, <1>5, <1>7, <1>8, <1>9, <1>10 DEF PipelineNext

\* The promise of the domain's outbox carries through to the consumers' tables,
\* for any number of processes, events, goroutines and faults.
THEOREM PipelineEndToEnd == PipelineSpec => []PublishedTakesEffect
  <1>1. PipelineInit => OnlyFromBus
    BY DEF PipelineInit, Init, OnlyFromBus
  <1>2. PipelineInv => RunningOK /\ EffectLostOnlyByFault
    BY DEF PipelineInv
  <1>3. IInv /\ OnlyFromBus /\ EffectLostOnlyByFault => PublishedTakesEffect
    BY DEF IInv, NoSilentLoss, NoPhantomEvent, OnlyFromBus, EffectLostOnlyByFault, PublishedTakesEffect,
           InHand, HasEffect
  <1> QED
    BY <1>1, <1>2, <1>3, PipelineOnlyFromBus, PipelineInvHolds, PipelineInductive, PTL DEF PipelineSpec

(***************************************************************************)
(* The NATS JetStream bus.                                                 *)
(***************************************************************************)
NatPositions == [at : {"idle", "create", "register", "subscribed", "returned", "error"},
                 loop : {"none", "runs", "drains", "stopped"}]
NatDurables == [exists : BOOLEAN, landed : SUBSET NatMessages, due : SUBSET NatMessages,
                tries : [NatMessages -> Nat]]
NatCallbacks == [msg : NatMessages, answer : {"none", "ack", "nak", "term"}]

NatTyped ==
    /\ natSub \in [NatSubs -> NatPositions]
    /\ natDurable \in [NatSubs -> NatDurables]
    /\ natHand \in [NatSubs -> SUBSET NatCallbacks]
    /\ natHandled \in [NatSubs -> SUBSET NatMessages]

\* An answer on its way is earned: an ack by the handler's success, a term by a
\* message no handler can be given.
NatAnswersEarned ==
    \A s \in NatSubs : \A h \in natHand[s] :
        /\ h.answer = "ack" => h.msg \in natHandled[s]
        /\ h.answer = "term" => h.msg \in NatPoison

\* A loop runs only for a Subscribe that is about to register it or has.
NatLoopsOwned ==
    \A s \in NatSubs : natSub[s].loop = "runs" => natSub[s].at \in {"register", "subscribed"}

NatInv == NatTyped /\ NatAnswersEarned /\ NatLoopsOwned /\ NatSubscriptionKept

LEMMA NatInitOK == NatInit => NatInv
  <1> SUFFICES ASSUME NatInit PROVE NatInv
    OBVIOUS
  <1>1. NatTyped
    BY DEF NatInit, NatTyped, NatPositions, NatDurables
  <1>2. NatAnswersEarned /\ NatLoopsOwned /\ NatSubscriptionKept
    BY DEF NatInit, NatAnswersEarned, NatLoopsOwned, NatSubscriptionKept, NatLeavesHandled, NatClosedMeansStopped
  <1> QED
    BY <1>1, <1>2 DEF NatInv

LEMMA NatSubMoves ==
    ASSUME NatTyped, NEW s \in NatSubs, NEW t \in NatPositions, natSub' = [natSub EXCEPT ![s] = t]
    PROVE  /\ natSub' \in [NatSubs -> NatPositions] /\ natSub'[s] = t
           /\ \A q \in NatSubs \ {s} : natSub'[q] = natSub[q]
  BY DEF NatTyped

LEMMA NatDurableMoves ==
    ASSUME NatTyped, NEW s \in NatSubs, NEW t \in NatDurables, natDurable' = [natDurable EXCEPT ![s] = t]
    PROVE  /\ natDurable' \in [NatSubs -> NatDurables] /\ natDurable'[s] = t
           /\ \A q \in NatSubs \ {s} : natDurable'[q] = natDurable[q]
  BY DEF NatTyped

NatSameMessages(q) == natDurable'[q].landed = natDurable[q].landed /\ natDurable'[q].due = natDurable[q].due

\* A step that moves one subscription, and takes no message from its durable.
LEMMA NatSubStep ==
    ASSUME NatInv, NEW s \in NatSubs, NEW t \in NatPositions, natSub' = [natSub EXCEPT ![s] = t],
           t.loop = "runs" => t.at = "register" \/ (t.at = "subscribed" /\ ~natClosed),
           natDurable' \in [NatSubs -> NatDurables], \A q \in NatSubs : NatSameMessages(q),
           UNCHANGED <<natHand, natHandled, natExpired, natClosed>>
    PROVE  NatInv'
  <1>1. NatTyped /\ NatAnswersEarned /\ NatLoopsOwned /\ NatLeavesHandled /\ NatClosedMeansStopped
    BY DEF NatInv, NatSubscriptionKept
  <1>2. /\ natSub' \in [NatSubs -> NatPositions] /\ natSub'[s] = t
        /\ \A q \in NatSubs \ {s} : natSub'[q] = natSub[q]
    BY <1>1, NatSubMoves
  <1>3. NatTyped'
    BY <1>1, <1>2 DEF NatTyped
  <1>4. NatLoopsOwned' /\ NatClosedMeansStopped'
    BY <1>1, <1>2 DEF NatLoopsOwned, NatClosedMeansStopped
  <1>5. NatLeavesHandled' /\ NatAnswersEarned'
    BY <1>1 DEF NatLeavesHandled, NatSameMessages, NatAnswersEarned
  <1> QED
    BY <1>3, <1>4, <1>5 DEF NatInv, NatSubscriptionKept

LEMMA NatSubscribeKeeps ==
    ASSUME NatInv, NEW s \in NatSubs,
           NatSubscribe(s) \/ NatRegister(s) \/ NatUnsubscribe(s) \/ NatDrained(s)
    PROVE  NatInv'
  <1>1. natSub[s] \in NatPositions /\ natDurable \in [NatSubs -> NatDurables] /\ NatLoopsOwned
        /\ UNCHANGED <<natDurable, natHandled, natExpired, natClosed, natHand>>
        /\ \A q \in NatSubs : NatSameMessages(q)
    BY DEF NatInv, NatTyped, NatSubscribe, NatRegister, NatUnsubscribe, NatDrained, NatSameMessages
  <1>2. CASE NatSubscribe(s)
    <2>1. PICK a \in {"error", "create"} : natSub' = [natSub EXCEPT ![s].at = a] /\ natSub[s].at = "idle"
      BY <1>2 DEF NatSubscribe
    <2> DEFINE t == [natSub[s] EXCEPT !.at = a]
    <2>2. t \in NatPositions /\ t.loop = natSub[s].loop /\ natSub' = [natSub EXCEPT ![s] = t]
      BY <1>1, <2>1 DEF NatPositions
    <2>3. t.loop # "runs"
      BY <1>1, <2>1, <2>2 DEF NatLoopsOwned
    <2> HIDE DEF t
    <2> QED
      BY <1>1, <2>2, <2>3, NatSubStep
  <1>3. CASE NatRegister(s)
    <2>1. PICK t \in {[at |-> "returned", loop |-> "stopped"], [at |-> "subscribed", loop |-> "runs"]} :
             natSub' = [natSub EXCEPT ![s] = t] /\ (natClosed => t.loop = "stopped")
      BY <1>3 DEF NatRegister
    <2>2. t \in NatPositions /\ (t.loop = "runs" => t.at = "subscribed" /\ ~natClosed)
      BY <2>1 DEF NatPositions
    <2> QED
      BY <1>1, <2>1, <2>2, NatSubStep
  <1>4. CASE NatUnsubscribe(s)
    <2> DEFINE t == [at |-> "returned", loop |-> "stopped"]
    <2>1. t \in NatPositions /\ t.loop # "runs" /\ natSub' = [natSub EXCEPT ![s] = t]
      BY <1>4 DEF NatPositions, NatUnsubscribe
    <2> HIDE DEF t
    <2> QED
      BY <1>1, <2>1, NatSubStep
  <1>5. CASE NatDrained(s)
    <2> DEFINE t == [natSub[s] EXCEPT !.loop = "stopped"]
    <2>1. t \in NatPositions /\ t.loop # "runs" /\ natSub' = [natSub EXCEPT ![s] = t]
      BY <1>1, <1>5 DEF NatPositions, NatDrained
    <2> HIDE DEF t
    <2> QED
      BY <1>1, <2>1, NatSubStep
  <1> QED
    BY <1>2, <1>3, <1>4, <1>5

LEMMA NatCreateKeeps ==
    ASSUME NatInv, NEW s \in NatSubs, NEW creates \in BOOLEAN, NEW consumes \in BOOLEAN,
           NatCreate(s, creates, consumes)
    PROVE  NatInv'
  <1>1. NatTyped /\ natDurable[s] \in NatDurables /\ UNCHANGED <<natHandled, natExpired, natClosed, natHand>>
    BY DEF NatInv, NatTyped, NatCreate
  <1>2. PICK t \in {[at |-> "register", loop |-> "runs"], [at |-> "error", loop |-> "none"]} :
           natSub' = [natSub EXCEPT ![s] = t]
    BY DEF NatCreate
  <1>3. t \in NatPositions /\ (t.loop = "runs" => t.at = "register")
    BY <1>2 DEF NatPositions
  <1> DEFINE d == [natDurable[s] EXCEPT !.exists = creates]
  <1>4. d \in NatDurables /\ d.landed = natDurable[s].landed /\ d.due = natDurable[s].due
    BY <1>1 DEF NatDurables
  <1>5. natDurable' = [natDurable EXCEPT ![s] = d]
    BY DEF NatCreate
  <1> HIDE DEF d
  <1>6. natDurable' \in [NatSubs -> NatDurables] /\ \A q \in NatSubs : NatSameMessages(q)
    BY <1>1, <1>4, <1>5, NatDurableMoves DEF NatSameMessages
  <1> QED
    BY <1>1, <1>2, <1>3, <1>6, NatSubStep

\* What a durable holds grows or loses only what may go: messages handled,
\* undecodable, or expired.
NatMessagesKept(q) ==
    natDurable'[q].landed \ natDurable[q].landed \subseteq natDurable'[q].due
    /\ natDurable[q].due \subseteq natDurable'[q].due \cup natHandled'[q] \cup NatPoison \cup natExpired'

\* A step of the messages.
LEMMA NatMessageStep ==
    ASSUME NatInv, UNCHANGED <<natSub, natClosed>>,
           natDurable' \in [NatSubs -> NatDurables], natHand' \in [NatSubs -> SUBSET NatCallbacks],
           natHandled' \in [NatSubs -> SUBSET NatMessages], NatAnswersEarned',
           \A q \in NatSubs : natHandled[q] \subseteq natHandled'[q], natExpired \subseteq natExpired',
           \A q \in NatSubs : NatMessagesKept(q)
    PROVE  NatInv'
  <1>1. NatTyped /\ NatLoopsOwned /\ NatLeavesHandled /\ NatClosedMeansStopped
    BY DEF NatInv, NatSubscriptionKept
  <1>2. NatTyped'
    BY <1>1 DEF NatTyped
  <1>3. NatLeavesHandled'
    BY <1>1 DEF NatLeavesHandled, NatMessagesKept
  <1>4. NatLoopsOwned' /\ NatClosedMeansStopped'
    BY <1>1 DEF NatLoopsOwned, NatClosedMeansStopped
  <1> QED
    BY <1>2, <1>3, <1>4 DEF NatInv, NatSubscriptionKept

LEMMA NatPublishKeeps ==
    ASSUME NatInv, NEW m \in NatMessages, NEW lands \in BOOLEAN, NatPublish(m, lands)
    PROVE  NatInv'
  <1>1. NatTyped /\ NatAnswersEarned /\ natDurable \in [NatSubs -> NatDurables]
        /\ UNCHANGED <<natSub, natHand, natHandled, natExpired, natClosed>>
    BY DEF NatInv, NatTyped, NatPublish
  <1> DEFINE d(q) == [natDurable[q] EXCEPT !.landed = @ \cup {m}, !.due = @ \cup {m}]
  <1>2. \A q \in NatSubs : d(q) \in NatDurables /\ d(q).landed = natDurable[q].landed \cup {m}
                           /\ d(q).due = natDurable[q].due \cup {m}
    BY <1>1 DEF NatDurables
  <1>3. \A q \in NatSubs : natDurable'[q] \in {d(q), natDurable[q]}
    BY DEF NatPublish
  <1>4. natDurable' \in [NatSubs -> NatDurables]
    BY <1>1, <1>2, <1>3 DEF NatPublish
  <1> HIDE DEF d
  <1>5. \A q \in NatSubs : NatMessagesKept(q)
    BY <1>1, <1>2, <1>3 DEF NatMessagesKept
  <1>6. NatAnswersEarned'
    BY <1>1 DEF NatAnswersEarned
  <1> QED
    BY <1>1, <1>4, <1>5, <1>6, NatMessageStep DEF NatTyped

LEMMA NatExpireKeeps == ASSUME NatInv, NEW m \in NatMessages, NatExpire(m) PROVE NatInv'
  <1>1. NatTyped /\ NatAnswersEarned /\ natDurable \in [NatSubs -> NatDurables]
        /\ UNCHANGED <<natSub, natHand, natHandled, natClosed>> /\ natExpired' = natExpired \cup {m}
    BY DEF NatInv, NatTyped, NatExpire
  <1> DEFINE d(q) == [natDurable[q] EXCEPT !.due = @ \ {m}]
  <1>2. \A q \in NatSubs : d(q) \in NatDurables /\ d(q).landed = natDurable[q].landed
                           /\ d(q).due = natDurable[q].due \ {m}
    BY <1>1 DEF NatDurables
  <1>3. natDurable' = [q \in NatSubs |-> d(q)]
    BY DEF NatExpire
  <1> HIDE DEF d
  <1>4. natDurable' \in [NatSubs -> NatDurables]
    BY <1>2, <1>3
  <1>5. \A q \in NatSubs : NatMessagesKept(q)
    BY <1>1, <1>2, <1>3 DEF NatMessagesKept
  <1>6. NatAnswersEarned'
    BY <1>1 DEF NatAnswersEarned
  <1> QED
    BY <1>1, <1>4, <1>5, <1>6, NatMessageStep DEF NatTyped

LEMMA NatDeliverKeeps ==
    ASSUME NatInv, NEW s \in NatSubs, NEW m \in NatMessages, NatDeliver(s, m)
    PROVE  NatInv'
  <1>1. NatTyped /\ NatAnswersEarned /\ natDurable[s] \in NatDurables
        /\ UNCHANGED <<natSub, natHandled, natExpired, natClosed>>
        /\ natHand' = [natHand EXCEPT ![s] = {[msg |-> m, answer |-> "none"]}]
    BY DEF NatInv, NatTyped, NatDeliver
  <1> DEFINE d == [natDurable[s] EXCEPT !.tries[m] = @ + 1]
  <1>2. d \in NatDurables /\ d.landed = natDurable[s].landed /\ d.due = natDurable[s].due
    <2>1. [natDurable[s].tries EXCEPT ![m] = @ + 1] \in [NatMessages -> Nat]
      BY <1>1 DEF NatDurables
    <2> QED
      BY <1>1, <2>1 DEF NatDurables
  <1>3. natDurable' = [natDurable EXCEPT ![s] = d]
    BY DEF NatDeliver
  <1> HIDE DEF d
  <1>4. natDurable' \in [NatSubs -> NatDurables] /\ \A q \in NatSubs : NatMessagesKept(q)
    BY <1>1, <1>2, <1>3, NatDurableMoves DEF NatMessagesKept
  <1>5. natHand' \in [NatSubs -> SUBSET NatCallbacks] /\ NatAnswersEarned'
    BY <1>1 DEF NatTyped, NatCallbacks, NatAnswersEarned
  <1> QED
    BY <1>1, <1>4, <1>5, NatMessageStep DEF NatTyped

LEMMA NatHandleKeeps ==
    ASSUME NatInv, NEW s \in NatSubs, NEW ok \in BOOLEAN, NatHandle(s, ok)
    PROVE  NatInv'
  <1>1. NatTyped /\ NatAnswersEarned /\ natHand[s] \subseteq NatCallbacks
        /\ UNCHANGED <<natSub, natDurable, natExpired, natClosed>>
    BY DEF NatInv, NatTyped, NatHandle
  <1>2. PICK h \in natHand[s] :
            /\ natHand' = [natHand EXCEPT ![s] = {[msg |-> h.msg, answer |-> NatAnswerOf(h.msg, ok)]}]
            /\ natHandled' = [natHandled EXCEPT ![s] = IF ok THEN @ \cup {h.msg} ELSE @]
    BY DEF NatHandle
  <1>3. PICK m \in NatMessages : m = h.msg
    BY <1>1 DEF NatCallbacks
  <1>4. PICK a \in {"ack", "nak", "term"} : /\ a = NatAnswerOf(m, ok)
                                            /\ a = "ack" => ok
                                            /\ a = "term" => m \in NatPoison
    BY DEF NatAnswerOf
  <1>5. /\ natHandled' \in [NatSubs -> SUBSET NatMessages] /\ \A q \in NatSubs : natHandled[q] \subseteq natHandled'[q]
        /\ ok => m \in natHandled'[s]
    BY <1>1, <1>2, <1>3 DEF NatTyped
  <1>6. natHand' = [natHand EXCEPT ![s] = {[msg |-> m, answer |-> a]}]
    BY <1>2, <1>3, <1>4
  <1>7. natHand' \in [NatSubs -> SUBSET NatCallbacks]
    BY <1>1, <1>6 DEF NatTyped, NatCallbacks
  <1>8. NatAnswersEarned'
    BY <1>1, <1>4, <1>5, <1>6 DEF NatAnswersEarned, NatTyped
  <1>9. \A q \in NatSubs : NatMessagesKept(q)
    BY <1>1 DEF NatMessagesKept
  <1> QED
    BY <1>1, <1>5, <1>7, <1>8, <1>9, NatMessageStep DEF NatTyped

LEMMA NatAnswerKeeps ==
    ASSUME NatInv, NEW s \in NatSubs, NEW heard \in BOOLEAN, NatAnswer(s, heard)
    PROVE  NatInv'
  <1>1. NatTyped /\ NatAnswersEarned /\ natHand[s] \subseteq NatCallbacks /\ natDurable[s] \in NatDurables
        /\ UNCHANGED <<natSub, natHandled, natExpired, natClosed>>
    BY DEF NatInv, NatTyped, NatAnswer
  <1>2. PICK h \in natHand[s] :
            /\ h.answer # "none"
            /\ natHand' = [natHand EXCEPT ![s] = {}]
            /\ natDurable' = IF heard /\ h.answer # "nak" THEN [natDurable EXCEPT ![s].due = @ \ {h.msg}]
                                                          ELSE natDurable
    BY DEF NatAnswer
  <1>3. PICK m \in NatMessages : m = h.msg
    BY <1>1 DEF NatCallbacks
  <1>4. natHand' \in [NatSubs -> SUBSET NatCallbacks] /\ NatAnswersEarned'
    BY <1>1, <1>2 DEF NatTyped, NatAnswersEarned
  <1>5. CASE heard /\ h.answer # "nak"
    <2>1. m \in natHandled'[s] \cup NatPoison
      BY <1>1, <1>2, <1>3, <1>5 DEF NatAnswersEarned, NatCallbacks
    <2> DEFINE d == [natDurable[s] EXCEPT !.due = @ \ {m}]
    <2>2. d \in NatDurables /\ d.landed = natDurable[s].landed /\ d.due = natDurable[s].due \ {m}
      BY <1>1 DEF NatDurables
    <2>3. natDurable' = [natDurable EXCEPT ![s] = d]
      BY <1>2, <1>3, <1>5
    <2> HIDE DEF d
    <2>4. natDurable' \in [NatSubs -> NatDurables] /\ natDurable'[s] = d
          /\ \A q \in NatSubs \ {s} : natDurable'[q] = natDurable[q]
      BY <1>1, <2>2, <2>3, NatDurableMoves
    <2>5. \A q \in NatSubs : NatMessagesKept(q)
      BY <2>1, <2>2, <2>4 DEF NatMessagesKept
    <2> QED
      BY <1>1, <1>4, <2>4, <2>5, NatMessageStep DEF NatTyped
  <1>6. CASE ~(heard /\ h.answer # "nak")
    <2>1. natDurable' = natDurable /\ natDurable \in [NatSubs -> NatDurables]
      BY <1>1, <1>2, <1>6 DEF NatTyped
    <2>2. \A q \in NatSubs : NatMessagesKept(q)
      BY <2>1 DEF NatMessagesKept
    <2> QED
      BY <1>1, <1>4, <2>1, <2>2, NatMessageStep DEF NatTyped
  <1> QED
    BY <1>5, <1>6

LEMMA NatCloseKeeps == ASSUME NatInv, NatClose PROVE NatInv'
  <1>1. NatTyped /\ NatAnswersEarned /\ NatLoopsOwned /\ NatLeavesHandled /\ natSub \in [NatSubs -> NatPositions]
        /\ UNCHANGED <<natDurable, natHand, natHandled, natExpired>>
    BY DEF NatInv, NatTyped, NatSubscriptionKept, NatClose
  <1>2. [at |-> "returned", loop |-> "drains"] \in NatPositions
    BY DEF NatPositions
  <1>3. /\ natSub' \in [NatSubs -> NatPositions]
        /\ \A s \in NatSubs : natSub'[s] = IF natSub[s].at = "subscribed"
                                           THEN [at |-> "returned", loop |-> "drains"] ELSE natSub[s]
    BY <1>1, <1>2 DEF NatClose
  <1>4. NatTyped'
    BY <1>1, <1>3 DEF NatTyped
  <1>5. NatLoopsOwned' /\ NatClosedMeansStopped'
    BY <1>1, <1>3 DEF NatLoopsOwned, NatClosedMeansStopped
  <1>6. NatLeavesHandled' /\ NatAnswersEarned'
    BY <1>1 DEF NatLeavesHandled, NatAnswersEarned
  <1> QED
    BY <1>4, <1>5, <1>6 DEF NatInv, NatSubscriptionKept

\* A message that reached a durable stays due until a handler succeeded on it,
\* unless it cannot be decoded or outlives the stream's MaxAge, and no delivery
\* loop outlives Close: for any subscriptions, messages, failures, lost acks
\* and interleavings of Subscribe, Close, expiry and the callbacks.
THEOREM NatKept == NatSpec => []NatSubscriptionKept
  <1>1. NatInv /\ [NatNext]_natVars => NatInv'
    <2> SUFFICES ASSUME NatInv, [NatNext]_natVars PROVE NatInv'
      OBVIOUS
    <2>1. CASE NatNext
      BY <2>1, NatPublishKeeps, NatExpireKeeps, NatSubscribeKeeps, NatCreateKeeps, NatDeliverKeeps, NatHandleKeeps,
         NatAnswerKeeps, NatCloseKeeps
      DEF NatNext
    <2>2. CASE UNCHANGED natVars
      BY <2>2 DEF natVars, NatInv, NatTyped, NatAnswersEarned, NatLoopsOwned, NatSubscriptionKept, NatLeavesHandled, NatClosedMeansStopped
    <2> QED
      BY <2>1, <2>2
  <1>2. NatInv => NatSubscriptionKept
    BY DEF NatInv
  <1> QED
    BY <1>1, <1>2, NatInitOK, PTL DEF NatSpec

(***************************************************************************)
(* Queues: what is in them, and that nothing is in them twice.             *)
(***************************************************************************)
Entries(q) == {q[k] : k \in 1 .. Len(q)}
Distinct(q) == \A j, k \in 1 .. Len(q) : q[j] = q[k] => j = k

LEMMA QueueEmpty == ASSUME NEW S PROVE <<>> \in Seq(S) /\ Entries(<<>>) = {} /\ Distinct(<<>>)
  BY DEF Entries, Distinct

LEMMA QueuePut ==
    ASSUME NEW S, NEW q \in Seq(S), NEW x \in S
    PROVE  /\ Append(q, x) \in Seq(S) /\ Entries(Append(q, x)) = Entries(q) \cup {x}
           /\ Distinct(q) /\ x \notin Entries(q) => Distinct(Append(q, x))
  <1>1. /\ Append(q, x) \in Seq(S) /\ Len(q) \in Nat /\ Len(Append(q, x)) = Len(q) + 1
        /\ Append(q, x)[Len(q) + 1] = x /\ \A k \in 1 .. Len(q) : Append(q, x)[k] = q[k]
    OBVIOUS
  <1>2. Entries(Append(q, x)) = Entries(q) \cup {x}
    <2>1. ASSUME NEW y \in Entries(Append(q, x)) PROVE y \in Entries(q) \cup {x}
      <3>1. PICK k \in 1 .. Len(Append(q, x)) : y = Append(q, x)[k]
        BY <2>1 DEF Entries
      <3>2. k \in 1 .. Len(q) \/ k = Len(q) + 1
        BY <1>1
      <3> QED
        BY <1>1, <3>1, <3>2 DEF Entries
    <2>2. ASSUME NEW y \in Entries(q) PROVE y \in Entries(Append(q, x))
      <3>1. PICK k \in 1 .. Len(q) : y = q[k]
        BY <2>2 DEF Entries
      <3>2. k \in 1 .. Len(Append(q, x))
        BY <1>1
      <3> QED
        BY <1>1, <3>1, <3>2 DEF Entries
    <2>3. x \in Entries(Append(q, x))
      <3>1. Len(q) + 1 \in 1 .. Len(Append(q, x))
        BY <1>1
      <3> QED
        BY <1>1, <3>1 DEF Entries
    <2> QED
      BY <2>1, <2>2, <2>3
  <1>3. ASSUME Distinct(q), x \notin Entries(q) PROVE Distinct(Append(q, x))
    <2>1. \A k \in 1 .. Len(q) : q[k] # x
      BY <1>3 DEF Entries
    <2> SUFFICES ASSUME NEW j \in 1 .. Len(Append(q, x)), NEW k \in 1 .. Len(Append(q, x)),
                        Append(q, x)[j] = Append(q, x)[k]
                 PROVE  j = k
      BY DEF Distinct
    <2>2. (j \in 1 .. Len(q) \/ j = Len(q) + 1) /\ (k \in 1 .. Len(q) \/ k = Len(q) + 1)
      BY <1>1
    <2> QED
      BY <1>1, <1>3, <2>1, <2>2 DEF Distinct
  <1> QED
    BY <1>1, <1>2, <1>3

LEMMA QueueTake ==
    ASSUME NEW S, NEW q \in Seq(S), q # <<>>
    PROVE  /\ Tail(q) \in Seq(S) /\ Head(q) \in S /\ Head(q) \in Entries(q)
           /\ Entries(q) = Entries(Tail(q)) \cup {Head(q)}
           /\ Distinct(q) => Distinct(Tail(q)) /\ Head(q) \notin Entries(Tail(q))
  <1>1. /\ Tail(q) \in Seq(S) /\ Len(q) \in Nat /\ Len(q) > 0 /\ Len(Tail(q)) = Len(q) - 1
        /\ Head(q) = q[1] /\ Head(q) \in S /\ \A k \in 1 .. Len(q) - 1 : Tail(q)[k] = q[k + 1]
    OBVIOUS
  <1>2. Head(q) \in Entries(q)
    BY <1>1 DEF Entries
  <1>3. ASSUME NEW y \in Entries(q) PROVE y \in Entries(Tail(q)) \cup {Head(q)}
    <2>1. PICK k \in 1 .. Len(q) : y = q[k]
      BY <1>3 DEF Entries
    <2>2. CASE k = 1
      BY <1>1, <2>1, <2>2
    <2>3. CASE k # 1
      <3>1. k - 1 \in 1 .. Len(Tail(q)) /\ Tail(q)[k - 1] = y
        BY <1>1, <2>1, <2>3
      <3> QED
        BY <3>1 DEF Entries
    <2> QED
      BY <2>2, <2>3
  <1>4. ASSUME NEW y \in Entries(Tail(q))
        PROVE  y \in Entries(q) /\ (Distinct(q) => y # Head(q))
    <2>1. PICK k \in 1 .. Len(Tail(q)) : y = Tail(q)[k]
      BY <1>4 DEF Entries
    <2>2. k + 1 \in 1 .. Len(q) /\ y = q[k + 1] /\ 1 \in 1 .. Len(q) /\ k + 1 # 1
      BY <1>1, <2>1
    <2> QED
      BY <1>1, <2>2 DEF Entries, Distinct
  <1>5. ASSUME Distinct(q) PROVE Distinct(Tail(q))
    <2> SUFFICES ASSUME NEW j \in 1 .. Len(Tail(q)), NEW k \in 1 .. Len(Tail(q)), Tail(q)[j] = Tail(q)[k]
                 PROVE  j = k
      BY DEF Distinct
    <2>1. j + 1 \in 1 .. Len(q) /\ k + 1 \in 1 .. Len(q) /\ q[j + 1] = q[k + 1]
      BY <1>1
    <2>2. j + 1 = k + 1
      BY <1>5, <2>1 DEF Distinct
    <2> QED
      BY <1>1, <2>2
  <1> QED
    BY <1>1, <1>2, <1>3, <1>4, <1>5

(***************************************************************************)
(* The search indexer.                                                     *)
(***************************************************************************)
IdxDocs == [status : {"none", "open", "closed"}, count : Nat, last : {"none"} \cup {e.inter : e \in IdxEvents}]
IdxWorkers == [hand : SUBSET IdxEvents, stopped : BOOLEAN]

IdxTyped ==
    /\ idxQueue \in Seq(IdxEvents) /\ idxSeen \in Seq(IdxEvents)
    /\ idxWorker \in IdxWorkers
    /\ idxDoc \in [IdxConversations -> IdxDocs]
    /\ idxForgot \in BOOLEAN

IdxPending == Entries(idxQueue) \cup idxWorker.hand
IdxCreated(c) == {e \in IdxEvents : e.conv = c /\ e.kind = "created"}

\* Created events the indexer has seen and is done with.
IdxDone(c) == {e \in IdxCreated(c) : e \in Entries(idxSeen) /\ e \notin IdxPending}

\* An event is pending at most once, and only if its id is remembered.
IdxOnce ==
    ~idxForgot =>
        /\ IdxPending \subseteq Entries(idxSeen)
        /\ Distinct(idxQueue) /\ idxWorker.hand \cap Entries(idxQueue) = {}

\* A document counts no more than the created events that are done.
IdxBounded == ~idxForgot => \A c \in IdxConversations : idxDoc[c].count <= Cardinality(IdxDone(c))

IdxSingle == \A e, f \in idxWorker.hand : e = f

IdxInv == IdxTyped /\ IdxSingle /\ IdxOnce /\ IdxBounded

LEMMA IdxCardinalities ==
    ASSUME NEW c, NEW S \in SUBSET IdxCreated(c), NEW T \in SUBSET S
    PROVE  /\ Cardinality(S) \in Nat /\ Cardinality(T) \in Nat /\ Cardinality(T) <= Cardinality(S)
           /\ \A e \in S \ T : Cardinality(T) + 1 <= Cardinality(S)
  <1>1. IsFiniteSet(IdxEvents)
    BY SearchIndexerAssumption
  <1>2. IdxCreated(c) \subseteq IdxEvents
    BY DEF IdxCreated
  <1>3. IsFiniteSet(IdxCreated(c))
    BY <1>1, <1>2, FS_Subset
  <1>4. IsFiniteSet(S) /\ IsFiniteSet(T)
    BY <1>3, FS_Subset
  <1>5. Cardinality(S) \in Nat /\ Cardinality(T) \in Nat /\ Cardinality(T) <= Cardinality(S)
    BY <1>4, FS_CardinalityType, FS_Subset
  <1>6. ASSUME NEW e \in S \ T PROVE Cardinality(T) + 1 <= Cardinality(S)
    <2>1. Cardinality(T \cup {e}) = Cardinality(T) + 1
      BY <1>4, <1>6, FS_AddElement
    <2>2. T \cup {e} \in SUBSET S
      BY <1>6
    <2> QED
      BY <1>4, <2>1, <2>2, FS_Subset
  <1> QED
    BY <1>5, <1>6

LEMMA IdxInvSuffices == IdxInv => IdxNeverOvercounts
  <1> SUFFICES ASSUME IdxInv, ~idxForgot, NEW c \in IdxConversations
               PROVE  idxDoc[c].count <= Cardinality(IdxCreated(c))
    BY DEF IdxNeverOvercounts, IdxCreated
  <1>1. idxDoc[c].count <= Cardinality(IdxDone(c)) /\ idxDoc[c].count \in Nat
    BY DEF IdxInv, IdxBounded, IdxTyped, IdxDocs
  <1>2. IdxDone(c) \in SUBSET IdxCreated(c)
    BY DEF IdxDone
  <1>3. Cardinality(IdxDone(c)) \in Nat /\ Cardinality(IdxCreated(c)) \in Nat
        /\ Cardinality(IdxDone(c)) <= Cardinality(IdxCreated(c))
    BY <1>2, IdxCardinalities
  <1> QED
    BY <1>1, <1>3

LEMMA IdxInitOK == IdxInit => IdxInv
  <1> SUFFICES ASSUME IdxInit PROVE IdxInv
    OBVIOUS
  <1>1. IdxTyped
    BY QueueEmpty DEF IdxInit, IdxTyped, IdxWorkers, IdxDocs, IdxNoDoc
  <1>2. IdxPending = {} /\ IdxSingle
    BY QueueEmpty DEF IdxInit, IdxPending, IdxSingle
  <1>3. IdxOnce
    BY <1>2, QueueEmpty DEF IdxInit, IdxOnce
  <1>4. IdxBounded
    <2> SUFFICES ASSUME NEW c \in IdxConversations PROVE idxDoc[c].count <= Cardinality(IdxDone(c))
      BY DEF IdxBounded
    <2>1. idxDoc[c].count = 0
      BY DEF IdxInit, IdxNoDoc
    <2>2. IdxDone(c) \in SUBSET IdxCreated(c)
      BY DEF IdxDone
    <2>3. Cardinality(IdxDone(c)) \in Nat
      BY <2>2, IdxCardinalities
    <2> QED
      BY <2>1, <2>3
  <1> QED
    BY <1>1, <1>2, <1>3, <1>4 DEF IdxInv

\* A step that writes no document and lets no event that is done come back.
LEMMA IdxQueueStep ==
    ASSUME IdxInv, IdxTyped', IdxSingle', IdxOnce', idxDoc' = idxDoc, ~idxForgot' => ~idxForgot,
           ~idxForgot' => \A c \in IdxConversations : IdxDone(c) \subseteq IdxDone(c)'
    PROVE  IdxInv'
  <1>1. IdxBounded'
    <2> SUFFICES ASSUME ~idxForgot', NEW c \in IdxConversations PROVE idxDoc[c].count <= Cardinality(IdxDone(c)')
      BY DEF IdxBounded
    <2>1. idxDoc[c].count <= Cardinality(IdxDone(c)) /\ idxDoc[c].count \in Nat
      BY DEF IdxInv, IdxBounded, IdxTyped, IdxDocs
    <2>2. PICK S \in SUBSET IdxCreated(c) : S = IdxDone(c)'
      BY DEF IdxDone
    <2>3. PICK T \in SUBSET S : T = IdxDone(c)
      BY <2>2
    <2>4. Cardinality(S) \in Nat /\ Cardinality(T) \in Nat /\ Cardinality(T) <= Cardinality(S)
      BY <2>3, IdxCardinalities
    <2> QED
      BY <2>1, <2>2, <2>3, <2>4
  <1> QED
    BY <1>1 DEF IdxInv

LEMMA IdxHandleKeeps == ASSUME IdxInv, NEW e \in IdxEvents, IdxHandle(e) PROVE IdxInv'
  <1>t. IdxTyped /\ IdxSingle /\ IdxOnce
    BY DEF IdxInv
  <1>u. UNCHANGED <<idxWorker, idxDoc>>
    BY DEF IdxHandle
  <1>1. CASE IdxDuplicate(e)
    <2>1. UNCHANGED <<idxQueue, idxSeen, idxForgot>>
      BY <1>1 DEF IdxHandle
    <2>2. IdxTyped' /\ IdxSingle' /\ IdxOnce' /\ \A c \in IdxConversations : IdxDone(c)' = IdxDone(c)
      BY <1>t, <1>u, <2>1 DEF IdxTyped, IdxSingle, IdxOnce, IdxPending, IdxDone
    <2> QED
      BY <1>u, <2>1, <2>2, IdxQueueStep
  <1>2. CASE ~IdxDuplicate(e)
    <2>1. /\ idxSeen' = IdxPut(idxSeen, e) /\ idxForgot' = (idxForgot \/ Len(idxSeen) = IdxDedupeSize)
          /\ idxQueue' = IF Len(idxQueue) < IdxQueueSize THEN Append(idxQueue, e) ELSE idxQueue
      BY <1>2 DEF IdxHandle
    <2>2. idxSeen' = Append(IF Len(idxSeen) = IdxDedupeSize THEN Tail(idxSeen) ELSE idxSeen, e)
      BY <1>2, <2>1 DEF IdxPut, IdxDuplicate
    <2>3. e \notin Entries(idxSeen)
      BY <1>t, <1>2 DEF IdxDuplicate, IdxIn, Entries, IdxTyped
    <2>4. idxSeen' \in Seq(IdxEvents) /\ (~idxForgot' => Entries(idxSeen') = Entries(idxSeen) \cup {e})
      <3>1. CASE Len(idxSeen) = IdxDedupeSize
        <4>1. idxSeen # <<>> /\ idxSeen \in Seq(IdxEvents)
          BY <1>t, <3>1, SearchIndexerAssumption DEF IdxTyped
        <4>2. Tail(idxSeen) \in Seq(IdxEvents)
          BY <4>1, QueueTake
        <4>3. Append(Tail(idxSeen), e) \in Seq(IdxEvents)
          BY <4>2, QueuePut
        <4> QED
          BY <2>1, <2>2, <3>1, <4>3
      <3>2. CASE Len(idxSeen) # IdxDedupeSize
        BY <1>t, <2>2, <3>2, QueuePut DEF IdxTyped
      <3> QED
        BY <3>1, <3>2
    <2>5. idxQueue' \in Seq(IdxEvents) /\ (idxQueue' = idxQueue \/ idxQueue' = Append(idxQueue, e))
      BY <1>t, <2>1, QueuePut DEF IdxTyped
    <2>q. /\ Entries(Append(idxQueue, e)) = Entries(idxQueue) \cup {e}
          /\ Distinct(idxQueue) /\ e \notin Entries(idxQueue) => Distinct(Append(idxQueue, e))
      <3>1. idxQueue \in Seq(IdxEvents)
        BY <1>t DEF IdxTyped
      <3> QED
        BY <3>1, QueuePut
    <2>6. IdxTyped' /\ IdxSingle'
      BY <1>t, <1>u, <2>1, <2>4, <2>5 DEF IdxTyped, IdxSingle
    <2>7. Entries(idxQueue') = Entries(idxQueue) \/ Entries(idxQueue') = Entries(idxQueue) \cup {e}
      BY <2>5, <2>q
    <2>8. ASSUME ~idxForgot' PROVE /\ ~idxForgot
                                   /\ IdxPending \subseteq Entries(idxSeen) /\ Distinct(idxQueue)
                                   /\ idxWorker.hand \cap Entries(idxQueue) = {} /\ e \notin IdxPending
      BY <1>t, <2>1, <2>3, <2>8 DEF IdxOnce
    <2>9. IdxOnce'
      <3> SUFFICES ASSUME ~idxForgot'
                   PROVE  /\ IdxPending' \subseteq Entries(idxSeen')
                          /\ Distinct(idxQueue') /\ idxWorker.hand \cap Entries(idxQueue') = {}
        BY <1>u DEF IdxOnce
      <3>1. Distinct(idxQueue')
        BY <2>5, <2>8, <2>q DEF IdxPending
      <3> QED
        BY <1>u, <2>4, <2>7, <2>8, <3>1 DEF IdxPending
    <2>10. ASSUME ~idxForgot' PROVE \A c \in IdxConversations : IdxDone(c) \subseteq IdxDone(c)'
      BY <1>u, <2>3, <2>4, <2>7, <2>10 DEF IdxDone, IdxPending
    <2> QED
      BY <1>u, <2>6, <2>8, <2>9, <2>10, IdxQueueStep
  <1> QED
    BY <1>1, <1>2

LEMMA IdxProjectKeeps == ASSUME IdxInv, IdxProject PROVE IdxInv'
  <1>t. IdxTyped /\ IdxSingle /\ IdxOnce /\ idxQueue \in Seq(IdxEvents)
    BY DEF IdxInv, IdxTyped
  <1>u. /\ UNCHANGED <<idxSeen, idxDoc, idxForgot>> /\ idxQueue # <<>> /\ idxQueue' = Tail(idxQueue)
        /\ idxWorker.hand = {}
    BY DEF IdxProject
  <1>1. PICK e \in IdxEvents : e = Head(idxQueue)
    BY <1>t, <1>u, QueueTake
  <1>2. /\ idxQueue' \in Seq(IdxEvents) /\ Entries(idxQueue) = Entries(idxQueue') \cup {e}
        /\ Distinct(idxQueue) => Distinct(idxQueue') /\ e \notin Entries(idxQueue')
    BY <1>t, <1>u, <1>1, QueueTake
  <1>3. /\ idxWorker' \in IdxWorkers
        /\ idxWorker'.hand = {e} \/ (idxWorker'.hand = {} /\ e.kind = "touched")
    <2>1. (idxWorker' = idxWorker /\ e.kind = "touched") \/ idxWorker' = [idxWorker EXCEPT !.hand = {e}]
      BY <1>1 DEF IdxProject
    <2> QED
      BY <1>t, <1>u, <2>1 DEF IdxTyped, IdxWorkers
  <1>4. IdxTyped' /\ IdxSingle'
    BY <1>t, <1>u, <1>2, <1>3 DEF IdxTyped, IdxSingle
  <1>5. IdxOnce'
    BY <1>t, <1>u, <1>2, <1>3 DEF IdxOnce, IdxPending
  <1>6. \A c \in IdxConversations : IdxDone(c) \subseteq IdxDone(c)'
    BY <1>u, <1>2, <1>3 DEF IdxDone, IdxPending
  <1> QED
    BY <1>u, <1>4, <1>5, <1>6, IdxQueueStep

\* What a write does to a count.
LEMMA IdxApplied ==
    ASSUME NEW e \in IdxEvents, NEW d \in IdxDocs
    PROVE  /\ IdxApply(e, d) \in IdxDocs
           /\ IdxApply(e, d).count <= d.count \/ (e.kind = "created" /\ IdxApply(e, d).count = d.count + 1)
  <1>1. d.count \in Nat /\ e.inter \in {"none"} \cup {f.inter : f \in IdxEvents}
    BY DEF IdxDocs
  <1>2. CASE e.kind = "opened"
    BY <1>1, <1>2 DEF IdxApply, IdxDocs
  <1>3. CASE e.kind = "closed"
    BY <1>1, <1>3 DEF IdxApply, IdxDocs
  <1>4. CASE e.kind = "created" /\ d.status # "none"
    <2>1. PICK n \in Nat : n = d.count + 1
      BY <1>1
    <2>2. IdxApply(e, d) = [d EXCEPT !.count = n, !.last = e.inter]
      BY <1>4, <2>1 DEF IdxApply
    <2> QED
      BY <1>1, <1>4, <2>1, <2>2 DEF IdxDocs
  <1>5. CASE e.kind = "touched" /\ d.status # "none"
    <2>1. IdxApply(e, d) = [d EXCEPT !.last = e.inter]
      BY <1>5 DEF IdxApply
    <2> QED
      BY <1>1, <2>1 DEF IdxDocs
  <1>6. CASE e.kind \in {"created", "touched"} /\ d.status = "none"
    <2>1. IdxApply(e, d) = [status |-> "open", count |-> 0, last |-> e.inter]
      BY <1>6 DEF IdxApply
    <2> QED
      BY <1>1, <2>1 DEF IdxDocs
  <1> QED
    BY <1>2, <1>3, <1>4, <1>5, <1>6, SearchIndexerAssumption DEF IdxKinds

LEMMA IdxWriteKeeps == ASSUME IdxInv, NEW applied \in BOOLEAN, IdxWrite(applied) PROVE IdxInv'
  <1>t. IdxTyped /\ IdxSingle /\ IdxOnce /\ IdxBounded /\ idxDoc \in [IdxConversations -> IdxDocs]
        /\ idxWorker \in IdxWorkers
    BY DEF IdxInv, IdxTyped
  <1>1. PICK e \in idxWorker.hand :
            /\ idxDoc' = IF applied THEN [idxDoc EXCEPT ![e.conv] = IdxApply(e, @)] ELSE idxDoc
            /\ idxWorker' = [idxWorker EXCEPT !.hand = {}] /\ UNCHANGED <<idxQueue, idxSeen, idxForgot>>
    BY DEF IdxWrite
  <1>2. e \in IdxEvents /\ idxWorker.hand = {e} /\ idxWorker' \in IdxWorkers /\ idxWorker'.hand = {}
    BY <1>t, <1>1 DEF IdxWorkers, IdxSingle
  <1>3. PICK c \in IdxConversations : c = e.conv
    BY <1>2 DEF IdxConversations
  <1>4. PICK d \in IdxDocs : /\ idxDoc' = [idxDoc EXCEPT ![c] = d]
                             /\ d.count <= idxDoc[c].count \/ (e.kind = "created" /\ d.count = idxDoc[c].count + 1)
    <2>1. idxDoc[c] \in IdxDocs /\ idxDoc[c].count \in Nat
      BY <1>t DEF IdxDocs
    <2>2. CASE applied
      <3>1. /\ IdxApply(e, idxDoc[c]) \in IdxDocs
            /\ \/ IdxApply(e, idxDoc[c]).count <= idxDoc[c].count
               \/ e.kind = "created" /\ IdxApply(e, idxDoc[c]).count = idxDoc[c].count + 1
        BY <1>2, <2>1, IdxApplied
      <3>2. idxDoc' = [idxDoc EXCEPT ![c] = IdxApply(e, idxDoc[c])]
        BY <1>1, <1>3, <2>2
      <3> QED
        BY <3>1, <3>2
    <2>3. CASE ~applied
      <3>1. idxDoc' = [idxDoc EXCEPT ![c] = idxDoc[c]]
        BY <1>t, <1>1, <2>3
      <3>2. idxDoc[c].count <= idxDoc[c].count
        BY <2>1
      <3>3. PICK d \in IdxDocs : d = idxDoc[c]
        BY <2>1
      <3> QED
        BY <3>1, <3>2, <3>3
    <2> QED
      BY <2>2, <2>3
  <1>5. /\ idxDoc' \in [IdxConversations -> IdxDocs] /\ idxDoc'[c] = d
        /\ \A b \in IdxConversations \ {c} : idxDoc'[b] = idxDoc[b]
    BY <1>t, <1>4
  <1>6. IdxTyped' /\ IdxSingle'
    BY <1>t, <1>1, <1>2, <1>5 DEF IdxTyped, IdxSingle
  <1>7. IdxOnce'
    BY <1>t, <1>1, <1>2 DEF IdxOnce, IdxPending
  <1>8. IdxBounded'
    <2> SUFFICES ASSUME ~idxForgot, NEW b \in IdxConversations PROVE idxDoc'[b].count <= Cardinality(IdxDone(b)')
      BY <1>1 DEF IdxBounded
    <2>1. /\ idxDoc[b].count <= Cardinality(IdxDone(b)) /\ idxDoc[b].count \in Nat
          /\ idxDoc'[b].count \in Nat
      BY <1>t, <1>5 DEF IdxBounded, IdxDocs
    <2>2. PICK S \in SUBSET IdxCreated(b) : S = IdxDone(b)'
      BY DEF IdxDone
    <2>3. IdxDone(b) \subseteq S
      BY <1>1, <1>2, <2>2 DEF IdxDone, IdxPending
    <2>4. PICK T \in SUBSET S : T = IdxDone(b)
      BY <2>3
    <2>5. /\ Cardinality(S) \in Nat /\ Cardinality(T) \in Nat /\ Cardinality(T) <= Cardinality(S)
          /\ \A f \in S \ T : Cardinality(T) + 1 <= Cardinality(S)
      BY <2>4, IdxCardinalities
    <2>6. CASE idxDoc'[b].count <= idxDoc[b].count
      BY <2>1, <2>2, <2>4, <2>5, <2>6
    <2>7. CASE b = c /\ e.kind = "created" /\ d.count = idxDoc[c].count + 1
      <3>1. e \in S /\ e \notin T
        BY <1>t, <1>1, <1>2, <1>3, <2>2, <2>4, <2>7 DEF IdxDone, IdxPending, IdxCreated, IdxOnce
      <3>2. Cardinality(T) + 1 <= Cardinality(S)
        BY <2>5, <3>1
      <3> QED
        BY <1>5, <2>1, <2>2, <2>4, <2>5, <2>7, <3>2
    <2> QED
      BY <1>4, <1>5, <2>1, <2>6, <2>7
  <1> QED
    BY <1>6, <1>7, <1>8 DEF IdxInv

LEMMA IdxStopKeeps == ASSUME IdxInv, IdxStop PROVE IdxInv'
  <1>1. idxWorker' = [idxWorker EXCEPT !.stopped = TRUE] /\ UNCHANGED <<idxQueue, idxSeen, idxDoc, idxForgot>>
    BY DEF IdxStop
  <1>2. idxWorker' \in IdxWorkers /\ idxWorker'.hand = idxWorker.hand
    BY <1>1 DEF IdxInv, IdxTyped, IdxWorkers
  <1>3. IdxTyped' /\ IdxSingle' /\ IdxOnce'
    BY <1>1, <1>2 DEF IdxInv, IdxTyped, IdxSingle, IdxOnce, IdxPending
  <1>4. \A c \in IdxConversations : IdxDone(c)' = IdxDone(c)
    BY <1>1, <1>2 DEF IdxDone, IdxPending
  <1> QED
    BY <1>1, <1>3, <1>4, IdxQueueStep

\* A conversation never shows more interactions than it has, for any queue and
\* ring sizes, repeated deliveries, shed events and writes that were applied
\* although they failed, as long as the ring has forgotten no id.
THEOREM IdxCountsBounded == IdxSpec => []IdxNeverOvercounts
  <1>1. IdxInv /\ [IdxNext]_idxVars => IdxInv'
    <2> SUFFICES ASSUME IdxInv, [IdxNext]_idxVars PROVE IdxInv'
      OBVIOUS
    <2>1. CASE IdxNext
      BY <2>1, IdxHandleKeeps, IdxProjectKeeps, IdxWriteKeeps, IdxStopKeeps DEF IdxNext
    <2>2. CASE UNCHANGED idxVars
      BY <2>2 DEF idxVars, IdxInv, IdxTyped, IdxSingle, IdxOnce, IdxBounded, IdxPending, IdxDone
    <2> QED
      BY <2>1, <2>2
  <1> QED
    BY <1>1, IdxInitOK, IdxInvSuffices, PTL DEF IdxSpec

(***************************************************************************)
(* The ClickHouse fact store.                                              *)
(***************************************************************************)
LEMMA QueueJoin ==
    ASSUME NEW S, NEW p \in Seq(S), NEW q \in Seq(S)
    PROVE  p \o q \in Seq(S) /\ Entries(p \o q) = Entries(p) \cup Entries(q)
  <1>1. /\ p \o q \in Seq(S) /\ Len(p) \in Nat /\ Len(q) \in Nat /\ Len(p \o q) = Len(p) + Len(q)
        /\ \A k \in 1 .. Len(p) : (p \o q)[k] = p[k]
        /\ \A k \in 1 .. Len(q) : (p \o q)[Len(p) + k] = q[k]
    OBVIOUS
  <1>2. ASSUME NEW x \in Entries(p \o q) PROVE x \in Entries(p) \cup Entries(q)
    <2>1. PICK k \in 1 .. Len(p \o q) : x = (p \o q)[k]
      BY <1>2 DEF Entries
    <2>2. CASE k \in 1 .. Len(p)
      BY <1>1, <2>1, <2>2 DEF Entries
    <2>3. CASE k \notin 1 .. Len(p)
      <3>1. k - Len(p) \in 1 .. Len(q) /\ (p \o q)[Len(p) + (k - Len(p))] = x
        BY <1>1, <2>1, <2>3
      <3> QED
        BY <1>1, <3>1 DEF Entries
    <2> QED
      BY <2>2, <2>3
  <1>3. ASSUME NEW x \in Entries(p) \cup Entries(q) PROVE x \in Entries(p \o q)
    <2>1. CASE x \in Entries(p)
      <3>1. PICK k \in 1 .. Len(p) : x = p[k]
        BY <2>1 DEF Entries
      <3>2. k \in 1 .. Len(p \o q)
        BY <1>1
      <3> QED
        BY <1>1, <3>1, <3>2 DEF Entries
    <2>2. CASE x \in Entries(q)
      <3>1. PICK k \in 1 .. Len(q) : x = q[k]
        BY <2>2 DEF Entries
      <3>2. Len(p) + k \in 1 .. Len(p \o q)
        BY <1>1
      <3> QED
        BY <1>1, <3>1, <3>2 DEF Entries
    <2> QED
      BY <1>3, <2>1, <2>2
  <1> QED
    BY <1>1, <1>2, <1>3

FsQueues == [FsTables -> Seq(FsRows)]
FsFlushers == [at : {"select", "drain", "flush", "requeue", "stopped"}, stash : FsQueues]
FsHistories == [shed : SUBSET FsRows, unsure : SUBSET FsRows, failing : Nat]

FsTyped ==
    /\ fsCall \in [FsRows -> {"idle", "entered", "blocked", "accepted", "refused"}]
    /\ fsBuffer \in FsQueues
    /\ fsFlusher \in FsFlushers
    /\ fsClose \in {"open", "closing", "stopping", "ok", "failed"}
    /\ fsWritten \in [FsRows -> Nat]
    /\ fsHistory \in FsHistories

\* Rows wait for ClickHouse in the buffer or in the stash of their table.
FsWaits(r, t) == r \in Entries(fsBuffer[t]) \/ r \in Entries(fsFlusher.stash[t])
FsHeld(r) == \E t \in FsTables : FsWaits(r, t)

FsPlaced == \A t \in FsTables, r \in FsRows : FsWaits(r, t) => r.table = t /\ fsCall[r] = "accepted"

\* A row waits in one place only, and once.
FsOnce ==
    \A t \in FsTables :
        /\ Distinct(fsBuffer[t]) /\ Distinct(fsFlusher.stash[t])
        /\ Entries(fsBuffer[t]) \cap Entries(fsFlusher.stash[t]) = {}

\* A row that waits was not written, unless its batch failed after it was.
FsUnwritten ==
    \A r \in FsRows : r \notin fsHistory.unsure =>
        fsWritten[r] <= 1 /\ (FsHeld(r) \/ fsCall[r] # "accepted" => fsWritten[r] = 0)

\* An accepted row waits, is written, or was shed; until a failed last flush.
FsRowsKept ==
    fsClose # "failed" =>
        \A r \in FsAccepted : FsHeld(r) \/ fsWritten[r] > 0 \/ r \in fsHistory.shed

\* Close stops the flusher only when no caller can bring a row any more.
FsStopped ==
    /\ fsClose \in {"stopping", "ok", "failed"} => FsCallersGone
    /\ fsClose \in {"ok", "failed"} => fsFlusher.at = "stopped" /\ \A r \in FsRows : ~FsHeld(r)

FsRequeues == fsFlusher.at = "requeue" => fsFlusher.stash # FsNoRows

FsInv == FsTyped /\ FsPlaced /\ FsOnce /\ FsUnwritten /\ FsRowsKept /\ FsStopped /\ FsRequeues

LEMMA FsInvSuffices == FsInv => FsRowsAccounted
  <1> SUFFICES ASSUME FsInv PROVE FsRowsAccounted
    OBVIOUS
  <1>1. FsNoSilentLoss
    <2> SUFFICES ASSUME fsClose = "ok", NEW r \in FsAccepted
                 PROVE  r \in {q \in FsRows : fsWritten[q] > 0} \cup fsHistory.shed
      BY DEF FsNoSilentLoss
    <2>1. r \in FsRows
      BY DEF FsAccepted
    <2> QED
      BY <2>1 DEF FsInv, FsRowsKept, FsStopped
  <1>2. FsDuplicateExplained
    <2> SUFFICES ASSUME NEW r \in FsRows, fsWritten[r] > 1, r \notin fsHistory.unsure PROVE FALSE
      BY DEF FsDuplicateExplained
    <2>1. fsWritten[r] \in Nat /\ fsWritten[r] <= 1
      BY DEF FsInv, FsUnwritten, FsTyped
    <2> QED
      BY <2>1
  <1> QED
    BY <1>1, <1>2 DEF FsRowsAccounted

LEMMA FsNothingWaits ==
    /\ FsNoRows \in FsQueues
    /\ \A t \in FsTables : FsNoRows[t] = <<>> /\ Entries(FsNoRows[t]) = {} /\ Distinct(FsNoRows[t])
  BY QueueEmpty DEF FsNoRows, FsQueues

LEMMA FsInitOK == FsInit => FsInv
  <1> SUFFICES ASSUME FsInit PROVE FsInv
    OBVIOUS
  <1>1. FsTyped
    BY FsNothingWaits DEF FsInit, FsTyped, FsFlushers, FsHistories
  <1>2. \A t \in FsTables, r \in FsRows : ~FsWaits(r, t)
    BY FsNothingWaits DEF FsInit, FsWaits
  <1>3. FsPlaced /\ FsOnce
    BY <1>2, FsNothingWaits DEF FsInit, FsPlaced, FsOnce
  <1>4. FsUnwritten /\ FsRowsKept /\ FsStopped /\ FsRequeues
    BY <1>2 DEF FsInit, FsUnwritten, FsRowsKept, FsStopped, FsRequeues, FsHeld, FsAccepted
  <1> QED
    BY <1>1, <1>3, <1>4 DEF FsInv

\* A step that sends nothing: a row stops waiting only when it is shed, and
\* starts when it is accepted.
LEMMA FsMoveStep ==
    ASSUME FsInv, FsTyped', FsPlaced', FsOnce', FsStopped', FsRequeues',
           fsWritten' = fsWritten, fsHistory'.unsure = fsHistory.unsure,
           fsHistory.shed \subseteq fsHistory'.shed, fsClose' # "failed" => fsClose # "failed",
           \A r \in FsRows : FsHeld(r)' => FsHeld(r) \/ fsCall[r] # "accepted",
           \A r \in FsRows : FsHeld(r) => FsHeld(r)' \/ r \in fsHistory'.shed,
           \A r \in FsRows : fsCall[r] = "accepted" => fsCall'[r] = "accepted",
           \A r \in FsRows : fsCall'[r] = "accepted" => fsCall[r] = "accepted" \/ FsHeld(r)'
    PROVE  FsInv'
  <1>1. FsUnwritten'
    BY DEF FsInv, FsUnwritten
  <1>2. FsRowsKept'
    BY DEF FsInv, FsRowsKept, FsAccepted
  <1> QED
    BY <1>1, <1>2 DEF FsInv

\* A step that leaves the rows where they are.
LEMMA FsQuietStep ==
    ASSUME FsInv, UNCHANGED <<fsBuffer, fsWritten, fsHistory>>,
           fsFlusher' \in FsFlushers, fsFlusher'.stash = fsFlusher.stash, FsRequeues',
           fsClose' = fsClose \/ fsClose' \in {"closing", "stopping"},
           fsClose \in {"ok", "failed"} => fsClose' = fsClose /\ fsFlusher' = fsFlusher,
           fsClose' \in {"stopping", "ok", "failed"} => FsCallersGone',
           fsCall' \in [FsRows -> {"idle", "entered", "blocked", "accepted", "refused"}],
           \A r \in FsRows : fsCall'[r] = "accepted" <=> fsCall[r] = "accepted"
    PROVE  FsInv'
  <1>1. FsTyped'
    BY DEF FsInv, FsTyped
  <1>2. \A r \in FsRows, t \in FsTables : FsWaits(r, t)' <=> FsWaits(r, t)
    BY DEF FsWaits
  <1>3. \A r \in FsRows : FsHeld(r)' <=> FsHeld(r)
    BY <1>2 DEF FsHeld
  <1>4. FsPlaced' /\ FsOnce'
    BY <1>2 DEF FsInv, FsPlaced, FsOnce
  <1>5. FsStopped'
    BY <1>3 DEF FsInv, FsStopped
  <1>6. fsClose' # "failed" => fsClose # "failed"
    OBVIOUS
  <1> QED
    BY <1>1, <1>3, <1>4, <1>5, <1>6, FsMoveStep

LEMMA FsCallMoves ==
    ASSUME NEW C, NEW f \in [FsRows -> C], NEW r \in FsRows, NEW c \in C
    PROVE  /\ [f EXCEPT ![r] = c] \in [FsRows -> C] /\ [f EXCEPT ![r] = c][r] = c
           /\ \A q \in FsRows \ {r} : [f EXCEPT ![r] = c][q] = f[q]
  OBVIOUS

LEMMA FsCallersKeep ==
    ASSUME FsInv, NEW r \in FsRows, FsEnter(r) \/ FsBlock(r) \/ FsGiveUp(r)
    PROVE  FsInv'
  <1>1. /\ UNCHANGED <<fsBuffer, fsFlusher, fsClose, fsWritten, fsHistory>>
        /\ fsCall \in [FsRows -> {"idle", "entered", "blocked", "accepted", "refused"}] /\ fsFlusher \in FsFlushers
        /\ FsStopped
    BY DEF FsEnter, FsBlock, FsGiveUp, FsInv, FsTyped
  <1>2. PICK c \in {"entered", "blocked", "refused"} :
            /\ fsCall' = [fsCall EXCEPT ![r] = c] /\ fsCall[r] # "accepted"
            /\ c \in {"entered", "blocked"} => fsClose = "open" \/ fsCall[r] = "entered"
    BY DEF FsEnter, FsBlock, FsGiveUp
  <1>3. /\ fsCall' \in [FsRows -> {"idle", "entered", "blocked", "accepted", "refused"}] /\ fsCall'[r] = c
        /\ \A q \in FsRows \ {r} : fsCall'[q] = fsCall[q]
    BY <1>1, <1>2
  <1>4. fsClose \in {"stopping", "ok", "failed"} => FsCallersGone'
    BY <1>1, <1>2, <1>3 DEF FsStopped, FsCallersGone
  <1>5. \A q \in FsRows : fsCall'[q] = "accepted" <=> fsCall[q] = "accepted"
    BY <1>2, <1>3
  <1>6. FsRequeues'
    BY <1>1 DEF FsInv, FsRequeues
  <1> QED
    BY <1>1, <1>3, <1>4, <1>5, <1>6, FsQuietStep

LEMMA FsFlusherKeeps ==
    ASSUME FsInv, FsDrained \/ FsTick \/ FsClose \/ FsStop
    PROVE  FsInv'
  <1>1. /\ UNCHANGED <<fsCall, fsBuffer, fsWritten, fsHistory>> /\ FsStopped /\ fsFlusher \in FsFlushers
        /\ fsCall \in [FsRows -> {"idle", "entered", "blocked", "accepted", "refused"}]
    BY DEF FsDrained, FsTick, FsClose, FsStop, FsInv, FsTyped
  <1>2. CASE FsDrained \/ FsTick
    <2>1. PICK a \in {"flush", "select"} : fsFlusher' = [fsFlusher EXCEPT !.at = a]
      BY <1>2 DEF FsDrained, FsTick
    <2>2. fsFlusher' \in FsFlushers /\ fsFlusher'.stash = fsFlusher.stash /\ fsFlusher'.at = a
      BY <1>1, <2>1 DEF FsFlushers
    <2>3. fsClose' = fsClose /\ fsFlusher.at # "stopped"
      BY <1>2 DEF FsDrained, FsTick
    <2>4. FsRequeues' /\ (fsClose \in {"stopping", "ok", "failed"} => FsCallersGone')
      BY <1>1, <2>2 DEF FsRequeues, FsStopped, FsCallersGone
    <2>5. fsClose \notin {"ok", "failed"}
      BY <1>1, <2>3 DEF FsStopped
    <2> QED
      BY <1>1, <2>2, <2>3, <2>4, <2>5, FsQuietStep
  <1>3. CASE FsClose \/ FsStop
    <2>1. fsFlusher' = fsFlusher /\ fsClose' \in {"closing", "stopping"} /\ fsClose \in {"open", "closing"}
          /\ (fsClose' = "stopping" => FsCallersGone)
      BY <1>3 DEF FsClose, FsStop
    <2>2. FsRequeues' /\ (fsClose' = "stopping" => FsCallersGone')
      BY <1>1, <2>1 DEF FsInv, FsRequeues, FsCallersGone
    <2> QED
      BY <1>1, <2>1, <2>2, FsQuietStep
  <1> QED
    BY <1>2, <1>3

LEMMA FsQueueMoves ==
    ASSUME NEW Q \in FsQueues, NEW t \in FsTables, NEW q \in Seq(FsRows)
    PROVE  /\ [Q EXCEPT ![t] = q] \in FsQueues /\ [Q EXCEPT ![t] = q][t] = q
           /\ \A u \in FsTables \ {t} : [Q EXCEPT ![t] = q][u] = Q[u]
  BY DEF FsQueues

LEMMA FsAcceptKeeps == ASSUME FsInv, NEW r \in FsRows, FsAccept(r) PROVE FsInv'
  <1>t. FsTyped /\ FsPlaced /\ FsOnce /\ FsStopped /\ FsRequeues /\ fsBuffer \in FsQueues
    BY DEF FsInv, FsTyped
  <1>1. PICK t \in FsTables : t = r.table
    BY FactStoreAssumption
  <1>2. /\ fsCall[r] \in {"entered", "blocked"} /\ UNCHANGED <<fsFlusher, fsClose, fsWritten, fsHistory>>
        /\ fsBuffer' = [fsBuffer EXCEPT ![t] = Append(fsBuffer[t], r)] /\ fsCall' = [fsCall EXCEPT ![r] = "accepted"]
    BY <1>1 DEF FsAccept
  <1>3. fsBuffer[t] \in Seq(FsRows)
    BY <1>t DEF FsQueues
  <1>4. /\ Append(fsBuffer[t], r) \in Seq(FsRows) /\ Entries(Append(fsBuffer[t], r)) = Entries(fsBuffer[t]) \cup {r}
        /\ Distinct(fsBuffer[t]) /\ r \notin Entries(fsBuffer[t]) => Distinct(Append(fsBuffer[t], r))
    BY <1>3, QueuePut
  <1>b. PICK b \in Seq(FsRows) : b = Append(fsBuffer[t], r)
    BY <1>4
  <1>5. /\ fsBuffer' \in FsQueues /\ fsBuffer'[t] = b
        /\ \A u \in FsTables \ {t} : fsBuffer'[u] = fsBuffer[u]
    <2>1. fsBuffer' = [fsBuffer EXCEPT ![t] = b]
      BY <1>2, <1>b
    <2> QED
      BY <1>t, <2>1 DEF FsQueues
  <1>6. /\ fsCall' \in [FsRows -> {"idle", "entered", "blocked", "accepted", "refused"}] /\ fsCall'[r] = "accepted"
        /\ \A q \in FsRows \ {r} : fsCall'[q] = fsCall[q]
    BY <1>t, <1>2 DEF FsTyped
  <1>7. FsTyped' /\ FsRequeues'
    BY <1>t, <1>2, <1>5, <1>6 DEF FsTyped, FsRequeues
  <1>8. \A q \in FsRows, u \in FsTables : FsWaits(q, u)' <=> FsWaits(q, u) \/ (q = r /\ u = t)
    BY <1>2, <1>4, <1>5, <1>b DEF FsWaits
  <1>9. \A u \in FsTables : ~FsWaits(r, u)
    BY <1>t, <1>2 DEF FsPlaced
  <1>10. FsPlaced'
    BY <1>t, <1>1, <1>6, <1>8 DEF FsPlaced
  <1>11. r \notin Entries(fsBuffer[t]) /\ r \notin Entries(fsFlusher.stash[t])
    BY <1>9 DEF FsWaits
  <1>12. FsOnce'
    BY <1>t, <1>2, <1>4, <1>5, <1>11, <1>b DEF FsOnce
  <1>13. fsClose \notin {"stopping", "ok", "failed"}
    BY <1>t, <1>2 DEF FsStopped, FsCallersGone
  <1>14. FsStopped'
    BY <1>2, <1>13 DEF FsStopped
  <1>15. \A q \in FsRows : FsHeld(q)' <=> FsHeld(q) \/ q = r
    BY <1>8 DEF FsHeld
  <1> QED
    BY <1>2, <1>6, <1>7, <1>10, <1>12, <1>14, <1>15, FsMoveStep

LEMMA FsTakeKeeps ==
    ASSUME FsInv, NEW t \in FsTables, fsFlusher.at \in {"select", "drain"}, FsTake(t, "drain")
    PROVE  FsInv'
  <1>t. FsTyped /\ FsPlaced /\ FsOnce /\ FsStopped /\ fsBuffer \in FsQueues /\ fsFlusher.stash \in FsQueues
    BY DEF FsInv, FsTyped, FsFlushers
  <1>1. /\ fsBuffer[t] # <<>> /\ UNCHANGED <<fsCall, fsClose, fsWritten, fsHistory>>
        /\ fsBuffer' = [fsBuffer EXCEPT ![t] = Tail(fsBuffer[t])]
        /\ fsFlusher' = [at |-> "drain", stash |-> [fsFlusher.stash EXCEPT ![t] = Append(@, Head(fsBuffer[t]))]]
    BY DEF FsTake
  <1>2. fsBuffer[t] \in Seq(FsRows) /\ fsFlusher.stash[t] \in Seq(FsRows)
    BY <1>t DEF FsQueues
  <1>3. PICK r \in FsRows : r = Head(fsBuffer[t])
    BY <1>1, <1>2, QueueTake
  <1>4. /\ Tail(fsBuffer[t]) \in Seq(FsRows) /\ Entries(fsBuffer[t]) = Entries(Tail(fsBuffer[t])) \cup {r}
        /\ Distinct(fsBuffer[t]) => Distinct(Tail(fsBuffer[t])) /\ r \notin Entries(Tail(fsBuffer[t]))
    BY <1>1, <1>2, <1>3, QueueTake
  <1> DEFINE s == Append(fsFlusher.stash[t], r)
  <1>5. /\ s \in Seq(FsRows) /\ Entries(s) = Entries(fsFlusher.stash[t]) \cup {r}
        /\ Distinct(fsFlusher.stash[t]) /\ r \notin Entries(fsFlusher.stash[t]) => Distinct(s)
    BY <1>2, QueuePut
  <1>6. fsFlusher'.stash = [fsFlusher.stash EXCEPT ![t] = s] /\ fsFlusher'.at = "drain"
        /\ fsFlusher' = [at |-> "drain", stash |-> [fsFlusher.stash EXCEPT ![t] = s]]
    BY <1>1, <1>3
  <1> HIDE DEF s
  <1>b. PICK b \in Seq(FsRows) : b = Tail(fsBuffer[t])
    BY <1>4
  <1>7. /\ fsBuffer' \in FsQueues /\ fsBuffer'[t] = b
        /\ \A u \in FsTables \ {t} : fsBuffer'[u] = fsBuffer[u]
    <2>1. fsBuffer' = [fsBuffer EXCEPT ![t] = b]
      BY <1>1, <1>b
    <2> QED
      BY <1>t, <2>1 DEF FsQueues
  <1>8. /\ fsFlusher'.stash \in FsQueues /\ fsFlusher'.stash[t] = s
        /\ \A u \in FsTables \ {t} : fsFlusher'.stash[u] = fsFlusher.stash[u]
    BY <1>t, <1>5, <1>6, FsQueueMoves
  <1>9. fsFlusher' \in FsFlushers
    BY <1>6, <1>8 DEF FsFlushers
  <1>10. FsTyped' /\ FsRequeues'
    BY <1>t, <1>1, <1>6, <1>7, <1>9 DEF FsTyped, FsRequeues
  <1>11. \A q \in FsRows, u \in FsTables : FsWaits(q, u)' <=> FsWaits(q, u)
    BY <1>4, <1>5, <1>7, <1>8, <1>b DEF FsWaits
  <1>12. FsPlaced'
    BY <1>t, <1>1, <1>11 DEF FsPlaced
  <1>13. FsOnce'
    BY <1>t, <1>4, <1>5, <1>7, <1>8, <1>b DEF FsOnce
  <1>14. fsClose \notin {"ok", "failed"}
    BY <1>t DEF FsStopped
  <1>15. FsStopped'
    BY <1>t, <1>1, <1>14 DEF FsStopped, FsCallersGone
  <1>16. \A q \in FsRows : FsHeld(q)' <=> FsHeld(q)
    BY <1>11 DEF FsHeld
  <1> QED
    BY <1>1, <1>10, <1>12, <1>13, <1>15, <1>16, FsMoveStep

LEMMA FsOfTables ==
    ASSUME NEW rows \in FsQueues, NEW T \in SUBSET FsTables, NEW r \in FsRows
    PROVE  r \in FsOf(rows, T) <=> \E t \in T : r \in Entries(rows[t])
  <1>1. \A t \in T : DOMAIN rows[t] = 1 .. Len(rows[t])
    BY DEF FsQueues
  <1> QED
    BY <1>1 DEF FsOf, Entries

\* What a send writes and what it leaves unsure.
LEMMA FsSent ==
    ASSUME FsTyped, NEW rows \in FsQueues, NEW F \in SUBSET FsTables, NEW U \in SUBSET FsTables, FsSend(rows, F, U)
    PROVE  /\ U \subseteq F /\ \A t \in F : rows[t] # <<>>
           /\ fsWritten' \in [FsRows -> Nat] /\ fsHistory' \in FsHistories /\ fsHistory'.shed = fsHistory.shed
           /\ \A r \in FsRows :
                /\ r \in fsHistory'.unsure <=> r \in fsHistory.unsure \/ \E t \in U : r \in Entries(rows[t])
                /\ (\E t \in (FsTables \ F) \cup U : r \in Entries(rows[t])) => fsWritten'[r] = fsWritten[r] + 1
                /\ ~(\E t \in (FsTables \ F) \cup U : r \in Entries(rows[t])) => fsWritten'[r] = fsWritten[r]
  <1>0. fsWritten \in [FsRows -> Nat] /\ fsHistory \in FsHistories
    BY DEF FsTyped
  <1>1. U \subseteq F /\ \A t \in F : rows[t] # <<>>
    BY DEF FsSend
  <1>2. PICK L \in SUBSET FsRows : L = FsOf(rows, (FsTables \ F) \cup U)
    BY DEF FsOf
  <1>3. PICK N \in SUBSET FsRows : N = FsOf(rows, U)
    BY DEF FsOf
  <1>4. fsWritten' = [r \in FsRows |-> IF r \in L THEN fsWritten[r] + 1 ELSE fsWritten[r]]
    BY <1>2 DEF FsSend
  <1>5. PICK n \in Nat : fsHistory' = [fsHistory EXCEPT !.unsure = @ \cup N, !.failing = n]
    <2>1. fsHistory.failing \in Nat
      BY <1>0 DEF FsHistories
    <2>2. CASE F = {}
      <3>1. fsHistory' = [fsHistory EXCEPT !.unsure = @ \cup N, !.failing = fsHistory.failing]
        BY <1>3, <2>2 DEF FsSend
      <3> QED
        BY <2>1, <3>1
    <2>3. CASE F # {}
      <3>1. fsHistory' = [fsHistory EXCEPT !.unsure = @ \cup N, !.failing = fsHistory.failing + 1]
        BY <1>3, <2>3 DEF FsSend
      <3>2. fsHistory.failing + 1 \in Nat
        BY <2>1
      <3> QED
        BY <3>1, <3>2
    <2> QED
      BY <2>2, <2>3
  <1>6. fsHistory' \in FsHistories /\ fsHistory'.shed = fsHistory.shed /\ fsHistory'.unsure = fsHistory.unsure \cup N
    BY <1>0, <1>5 DEF FsHistories
  <1>7. fsWritten' \in [FsRows -> Nat]
    BY <1>0, <1>4
  <1>8. \A r \in FsRows : /\ r \in L <=> \E t \in (FsTables \ F) \cup U : r \in Entries(rows[t])
                          /\ r \in N <=> \E t \in U : r \in Entries(rows[t])
    <2>1. (FsTables \ F) \cup U \in SUBSET FsTables
      OBVIOUS
    <2> QED
      BY <1>2, <1>3, <2>1, FsOfTables
  <1>9. \A r \in FsRows : /\ r \in L => fsWritten'[r] = fsWritten[r] + 1
                          /\ r \notin L => fsWritten'[r] = fsWritten[r]
    BY <1>4
  <1>10. \A r \in FsRows : r \in fsHistory'.unsure <=> r \in fsHistory.unsure \/ \E t \in U : r \in Entries(rows[t])
    BY ONLY <1>6, <1>8
  <1>11. \A r \in FsRows :
            /\ (\E t \in (FsTables \ F) \cup U : r \in Entries(rows[t])) => fsWritten'[r] = fsWritten[r] + 1
            /\ ~(\E t \in (FsTables \ F) \cup U : r \in Entries(rows[t])) => fsWritten'[r] = fsWritten[r]
    BY ONLY <1>8, <1>9
  <1> QED
    BY ONLY <1>1, <1>6, <1>7, <1>10, <1>11

\* A row that a send wrote waited until then, and does not wait any more unless
\* its batch failed.
LEMMA FsSendStep ==
    ASSUME FsInv, FsTyped', FsPlaced', FsOnce', FsStopped', FsRequeues', fsCall' = fsCall,
           NEW rows \in FsQueues, NEW F \in SUBSET FsTables, NEW U \in SUBSET FsTables, FsSend(rows, F, U),
           \A t \in FsTables, r \in FsRows : r \in Entries(rows[t]) => FsWaits(r, t),
           \A t \in FsTables \ F, r \in FsRows : r \in Entries(rows[t]) => ~FsWaits(r, t)',
           \A t \in FsTables, r \in FsRows : FsWaits(r, t)' => FsWaits(r, t),
           fsClose' # "failed" =>
                /\ fsClose # "failed"
                /\ \A t \in FsTables, r \in FsRows :
                    FsWaits(r, t) => FsWaits(r, t)' \/ (t \notin F /\ r \in Entries(rows[t]))
    PROVE  FsInv'
  <1>t. FsTyped /\ FsPlaced /\ FsUnwritten /\ FsRowsKept /\ fsWritten \in [FsRows -> Nat]
    BY DEF FsInv, FsTyped
  <1>1. /\ U \subseteq F /\ fsWritten' \in [FsRows -> Nat] /\ fsHistory'.shed = fsHistory.shed
        /\ \A r \in FsRows :
             /\ r \in fsHistory'.unsure <=> r \in fsHistory.unsure \/ \E t \in U : r \in Entries(rows[t])
             /\ (\E t \in (FsTables \ F) \cup U : r \in Entries(rows[t])) => fsWritten'[r] = fsWritten[r] + 1
             /\ ~(\E t \in (FsTables \ F) \cup U : r \in Entries(rows[t])) => fsWritten'[r] = fsWritten[r]
    BY <1>t, FsSent, ZenonT(60)
  <1>2. \A r \in FsRows : FsHeld(r)' => FsHeld(r)
    BY DEF FsHeld
  <1>3. FsUnwritten'
    <2> SUFFICES ASSUME NEW r \in FsRows, r \notin fsHistory'.unsure
                 PROVE  fsWritten'[r] <= 1 /\ (FsHeld(r)' \/ fsCall[r] # "accepted" => fsWritten'[r] = 0)
      BY DEF FsUnwritten
    <2>1. r \notin fsHistory.unsure /\ \A t \in U : r \notin Entries(rows[t])
      BY <1>1
    <2>2. fsWritten[r] <= 1 /\ (FsHeld(r) \/ fsCall[r] # "accepted" => fsWritten[r] = 0)
      BY <1>t, <2>1 DEF FsUnwritten
    <2>3. CASE \E t \in FsTables \ F : r \in Entries(rows[t])
      <3>1. PICK t \in FsTables \ F : r \in Entries(rows[t])
        BY <2>3
      <3>2. FsWaits(r, t) /\ ~FsWaits(r, t)'
        BY <3>1
      <3>3. fsCall[r] = "accepted" /\ r.table = t /\ fsWritten[r] = 0
        BY <1>t, <2>2, <3>2 DEF FsPlaced, FsHeld
      <3>4. ~FsHeld(r)'
        BY <3>2, <3>3 DEF FsPlaced, FsHeld
      <3>5. fsWritten'[r] = 1
        BY <1>1, <2>3, <3>3
      <3> QED
        BY <3>3, <3>4, <3>5
    <2>4. CASE ~\E t \in FsTables \ F : r \in Entries(rows[t])
      <3>1. fsWritten'[r] = fsWritten[r]
        BY <1>1, <2>1, <2>4
      <3> QED
        BY <1>2, <2>2, <3>1
    <2> QED
      BY <2>3, <2>4
  <1>4. FsRowsKept'
    <2> SUFFICES ASSUME fsClose' # "failed", NEW r \in FsRows, fsCall[r] = "accepted", ~FsHeld(r)', r \notin fsHistory.shed
                 PROVE  fsWritten'[r] > 0
      BY <1>1 DEF FsRowsKept, FsAccepted
    <2>0. fsWritten[r] \in Nat
      BY <1>t
    <2>1. CASE FsHeld(r)
      <3>1. PICK t \in FsTables : FsWaits(r, t)
        BY <2>1 DEF FsHeld
      <3>2. t \notin F /\ r \in Entries(rows[t])
        BY <3>1 DEF FsHeld
      <3>3. fsWritten'[r] = fsWritten[r] + 1
        BY <1>1, <3>2
      <3> QED
        BY <2>0, <3>3
    <2>2. CASE ~FsHeld(r)
      <3>1. fsWritten[r] > 0
        BY <1>t, <2>2 DEF FsRowsKept, FsAccepted
      <3>2. fsWritten'[r] = fsWritten[r] \/ fsWritten'[r] = fsWritten[r] + 1
        BY <1>1
      <3> QED
        BY <2>0, <3>1, <3>2
    <2> QED
      BY <2>1, <2>2
  <1> QED
    BY <1>3, <1>4 DEF FsInv

LEMMA FsFlushKeeps ==
    ASSUME FsInv, NEW F \in SUBSET FsTables, NEW U \in SUBSET FsTables, FsFlush(F, U)
    PROVE  FsInv'
  <1>t. FsTyped /\ FsPlaced /\ FsOnce /\ FsStopped /\ fsFlusher.stash \in FsQueues
    BY DEF FsInv, FsTyped, FsFlushers
  <1>1. PICK rows \in FsQueues : rows = fsFlusher.stash
    BY <1>t
  <1>2. /\ fsFlusher.at = "flush" /\ FsSend(rows, F, U) /\ UNCHANGED <<fsCall, fsBuffer, fsClose>>
        /\ fsFlusher' = [at |-> IF F = {} THEN "select" ELSE "requeue", stash |-> FsUnsent(rows, F)]
    BY <1>1 DEF FsFlush
  <1>3. /\ \A t \in F : rows[t] # <<>>
        /\ fsWritten' \in [FsRows -> Nat] /\ fsHistory' \in FsHistories
    BY <1>t, <1>2, FsSent
  <1>4. PICK rest \in FsQueues : rest = FsUnsent(rows, F)
    BY QueueEmpty DEF FsUnsent, FsQueues
  <1>5. \A t \in FsTables : rest[t] = IF t \in F THEN rows[t] ELSE <<>>
    BY <1>4 DEF FsUnsent
  <1>6. /\ fsFlusher' \in FsFlushers /\ fsFlusher'.stash = rest
        /\ fsFlusher'.at # "stopped" /\ (fsFlusher'.at = "requeue" => F # {})
    <2>1. CASE F = {}
      BY <1>2, <1>4, <2>1 DEF FsFlushers
    <2>2. CASE F # {}
      BY <1>2, <1>4, <2>2 DEF FsFlushers
    <2> QED
      BY <2>1, <2>2
  <1>7. FsTyped'
    BY <1>t, <1>2, <1>3, <1>6 DEF FsTyped
  <1>8. FsRequeues'
    <2>1. \A t \in F : rest[t] # FsNoRows[t]
      BY <1>3, <1>5, FsNothingWaits
    <2> QED
      BY <1>6, <2>1 DEF FsRequeues
  <1>9. \A t \in FsTables : Entries(rest[t]) = IF t \in F THEN Entries(rows[t]) ELSE {}
    BY <1>5, QueueEmpty
  <1>10. \A t \in FsTables : Distinct(rows[t]) => Distinct(rest[t])
    BY <1>5, QueueEmpty
  <1>11. \A t \in FsTables, r \in FsRows :
            /\ FsWaits(r, t) <=> r \in Entries(fsBuffer[t]) \/ r \in Entries(rows[t])
            /\ FsWaits(r, t)' <=> r \in Entries(fsBuffer[t]) \/ (t \in F /\ r \in Entries(rows[t]))
    BY <1>1, <1>2, <1>6, <1>9 DEF FsWaits
  <1>12. FsPlaced'
    BY <1>t, <1>2, <1>11 DEF FsPlaced
  <1>13. FsOnce'
    BY <1>t, <1>1, <1>2, <1>6, <1>9, <1>10 DEF FsOnce
  <1>14. fsClose \notin {"ok", "failed"}
    BY <1>t, <1>2 DEF FsStopped
  <1>15. FsStopped'
    BY <1>t, <1>2, <1>14 DEF FsStopped, FsCallersGone
  <1>16. \A t \in FsTables \ F, r \in FsRows : r \in Entries(rows[t]) => ~FsWaits(r, t)'
    BY <1>t, <1>1, <1>11 DEF FsOnce
  <1>17. /\ \A t \in FsTables, r \in FsRows : r \in Entries(rows[t]) => FsWaits(r, t)
         /\ \A t \in FsTables, r \in FsRows : FsWaits(r, t)' => FsWaits(r, t)
         /\ \A t \in FsTables, r \in FsRows : FsWaits(r, t) => FsWaits(r, t)' \/ (t \notin F /\ r \in Entries(rows[t]))
    BY <1>11
  <1> QED
    BY <1>2, <1>7, <1>8, <1>12, <1>13, <1>14, <1>15, <1>16, <1>17, FsSendStep

LEMMA FsShutdownKeeps ==
    ASSUME FsInv, NEW F \in SUBSET FsTables, NEW U \in SUBSET FsTables, FsShutdown(F, U)
    PROVE  FsInv'
  <1>t. FsTyped /\ FsStopped /\ fsFlusher.stash \in FsQueues /\ fsBuffer \in FsQueues
    BY DEF FsInv, FsTyped, FsFlushers
  <1>1. \A t \in FsTables : /\ fsFlusher.stash[t] \in Seq(FsRows) /\ fsBuffer[t] \in Seq(FsRows)
                            /\ fsFlusher.stash[t] \o fsBuffer[t] \in Seq(FsRows)
                            /\ Entries(fsFlusher.stash[t] \o fsBuffer[t]) = Entries(fsFlusher.stash[t]) \cup Entries(fsBuffer[t])
    <2>1. \A t \in FsTables : fsFlusher.stash[t] \in Seq(FsRows) /\ fsBuffer[t] \in Seq(FsRows)
      BY <1>t DEF FsQueues
    <2> QED
      BY <2>1, QueueJoin
  <1>2. PICK rows \in FsQueues : rows = [t \in FsTables |-> fsFlusher.stash[t] \o fsBuffer[t]]
    BY <1>1 DEF FsQueues
  <1>3. /\ fsClose = "stopping" /\ FsSend(rows, F, U) /\ fsBuffer' = FsNoRows /\ fsCall' = fsCall
        /\ fsFlusher' = [at |-> "stopped", stash |-> FsNoRows] /\ fsClose' = IF F = {} THEN "ok" ELSE "failed"
    BY <1>2 DEF FsShutdown
  <1>4. fsWritten' \in [FsRows -> Nat] /\ fsHistory' \in FsHistories
    BY <1>t, <1>3, FsSent
  <1>5. fsFlusher' \in FsFlushers /\ fsFlusher'.stash = FsNoRows /\ fsFlusher'.at = "stopped"
    BY <1>3, FsNothingWaits DEF FsFlushers
  <1>6. FsTyped' /\ FsRequeues'
    BY <1>t, <1>3, <1>4, <1>5, FsNothingWaits DEF FsTyped, FsRequeues
  <1>7. \A t \in FsTables, r \in FsRows : ~FsWaits(r, t)' /\ (FsWaits(r, t) <=> r \in Entries(rows[t]))
    BY <1>1, <1>2, <1>3, <1>5, FsNothingWaits DEF FsWaits
  <1>8. FsPlaced' /\ FsOnce'
    BY <1>3, <1>5, <1>7, FsNothingWaits DEF FsPlaced, FsOnce
  <1>9. FsStopped'
    BY <1>t, <1>3, <1>5, <1>7 DEF FsStopped, FsHeld, FsCallersGone
  <1>10. fsClose' # "failed" => F = {} /\ fsClose # "failed"
    BY <1>3
  <1> QED
    BY <1>3, <1>6, <1>7, <1>8, <1>9, <1>10, FsSendStep

\* A row w goes to the end of buffer t, whose oldest row goes if it is full; row
\* r leaves the stash, for the buffer or for good.
LEMMA FsOfferStep ==
    ASSUME FsInv, NEW t \in FsTables, NEW r \in FsRows, NEW w \in FsRows, fsFlusher.at = "requeue",
           fsFlusher.stash[t] # <<>>, r = Head(fsFlusher.stash[t]),
           w.table = t, w # r => fsCall[w] = "blocked",
           NEW base \in Seq(FsRows), Distinct(base), NEW gone \in SUBSET FsRows,
           Entries(base) = Entries(fsBuffer[t]) \ gone, gone \subseteq Entries(fsBuffer[t]),
           fsBuffer' = [fsBuffer EXCEPT ![t] = Append(base, w)],
           fsCall' = IF w = r THEN fsCall ELSE [fsCall EXCEPT ![w] = "accepted"],
           fsHistory' = [fsHistory EXCEPT !.shed = @ \cup gone \cup ({r} \ {w})],
           NEW rest, rest = [fsFlusher.stash EXCEPT ![t] = Tail(@)],
           fsFlusher' = [at |-> IF rest = FsNoRows THEN "select" ELSE "requeue", stash |-> rest],
           UNCHANGED <<fsClose, fsWritten>>
    PROVE  FsInv'
  <1>t. FsTyped /\ FsPlaced /\ FsOnce /\ FsStopped /\ fsBuffer \in FsQueues /\ fsFlusher.stash \in FsQueues
        /\ fsHistory \in FsHistories /\ fsCall \in [FsRows -> {"idle", "entered", "blocked", "accepted", "refused"}]
    BY DEF FsInv, FsTyped, FsFlushers
  <1>1. fsFlusher.stash[t] \in Seq(FsRows)
    BY <1>t DEF FsQueues
  <1>2. PICK tail \in Seq(FsRows) : tail = Tail(fsFlusher.stash[t])
    BY <1>1, QueueTake
  <1>3. Entries(fsFlusher.stash[t]) = Entries(tail) \cup {r} /\ Distinct(tail) /\ r \notin Entries(tail)
    <2>1. Distinct(fsFlusher.stash[t])
      BY <1>t DEF FsOnce
    <2> QED
      BY <1>1, <1>2, <2>1, QueueTake
  <1>4. FsWaits(r, t) /\ r.table = t /\ fsCall[r] = "accepted" /\ r \notin Entries(fsBuffer[t])
    <2>1. r \in Entries(fsFlusher.stash[t])
      BY <1>3
    <2>2. FsWaits(r, t)
      BY <2>1 DEF FsWaits
    <2>3. r.table = t /\ fsCall[r] = "accepted"
      BY <1>t, <2>2 DEF FsPlaced
    <2>4. Entries(fsBuffer[t]) \cap Entries(fsFlusher.stash[t]) = {}
      BY <1>t DEF FsOnce
    <2> QED
      BY <2>1, <2>2, <2>3, <2>4
  <1>5. \A u \in FsTables : w # r => ~FsWaits(w, u)
    BY <1>t DEF FsPlaced
  <1>6. w \notin Entries(fsBuffer[t]) /\ w \notin Entries(tail)
    BY <1>3, <1>4, <1>5 DEF FsWaits
  <1>7. PICK b \in Seq(FsRows) : b = Append(base, w)
    BY QueuePut
  <1>8. Entries(b) = Entries(base) \cup {w} /\ Distinct(b)
    BY <1>6, <1>7, QueuePut
  <1>9. /\ fsBuffer' \in FsQueues /\ fsBuffer'[t] = b
        /\ \A u \in FsTables \ {t} : fsBuffer'[u] = fsBuffer[u]
    BY <1>t, <1>7 DEF FsQueues
  <1>10. /\ rest \in FsQueues /\ rest[t] = tail
         /\ \A u \in FsTables \ {t} : rest[u] = fsFlusher.stash[u]
    BY <1>t, <1>2 DEF FsQueues
  <1>11. /\ fsFlusher' \in FsFlushers /\ fsFlusher'.stash = rest
         /\ fsFlusher'.at = "requeue" => rest # FsNoRows
    BY <1>10 DEF FsFlushers
  <1>12. /\ fsCall' \in [FsRows -> {"idle", "entered", "blocked", "accepted", "refused"}] /\ fsCall'[w] = "accepted"
         /\ \A q \in FsRows \ {w} : fsCall'[q] = fsCall[q]
    BY <1>t, <1>4
  <1>13. fsHistory' \in FsHistories /\ fsHistory'.unsure = fsHistory.unsure
         /\ fsHistory'.shed = fsHistory.shed \cup gone \cup ({r} \ {w})
    BY <1>t DEF FsHistories
  <1>14. FsTyped' /\ FsRequeues'
    BY <1>t, <1>9, <1>11, <1>12, <1>13 DEF FsTyped, FsRequeues
  <1>15. \A q \in FsRows :
            /\ FsWaits(q, t)' <=> (q \in Entries(fsBuffer[t]) \ gone \/ q = w \/ q \in Entries(tail))
            /\ \A u \in FsTables \ {t} : FsWaits(q, u)' <=> FsWaits(q, u)
    BY <1>8, <1>9, <1>10, <1>11 DEF FsWaits
  <1>16. \A q \in FsRows : FsWaits(q, t) <=> q \in Entries(fsBuffer[t]) \/ q \in Entries(tail) \/ q = r
    BY <1>3 DEF FsWaits
  <1>17. FsPlaced'
    BY <1>t, <1>12, <1>15, <1>16 DEF FsPlaced
  <1>18. FsOnce'
    <2>1. ASSUME NEW u \in FsTables
          PROVE  /\ Distinct(fsBuffer'[u]) /\ Distinct(fsFlusher'.stash[u])
                 /\ Entries(fsBuffer'[u]) \cap Entries(fsFlusher'.stash[u]) = {}
      <3>0. Distinct(fsBuffer[u]) /\ Distinct(fsFlusher.stash[u]) /\ Entries(fsBuffer[u]) \cap Entries(fsFlusher.stash[u]) = {}
        BY <1>t DEF FsOnce
      <3>1. CASE u = t
        <4>1. Entries(b) \cap Entries(tail) = {}
          BY <1>3, <1>6, <1>8, <3>0, <3>1
        <4> QED
          BY <1>3, <1>8, <1>9, <1>10, <1>11, <3>1, <4>1
      <3>2. CASE u # t
        BY <1>9, <1>10, <1>11, <3>0, <3>2
      <3> QED
        BY <3>1, <3>2
    <2> QED
      BY <2>1 DEF FsOnce
  <1>19. fsClose \notin {"ok", "failed"} /\ (fsClose = "stopping" => fsCall[w] # "blocked")
    BY <1>t DEF FsStopped, FsCallersGone
  <1>20. FsStopped'
    BY <1>t, <1>12, <1>19 DEF FsStopped, FsCallersGone
  <1>21. \A q \in FsRows : FsHeld(q)' => FsHeld(q) \/ fsCall[q] # "accepted"
    BY <1>15, <1>16 DEF FsHeld
  <1>22. \A q \in FsRows : FsHeld(q) => FsHeld(q)' \/ q \in fsHistory'.shed
    BY <1>13, <1>15, <1>16 DEF FsHeld
  <1>23. FsHeld(w)'
    BY <1>15 DEF FsHeld
  <1> QED
    BY <1>12, <1>13, <1>14, <1>17, <1>18, <1>20, <1>21, <1>22, <1>23, FsMoveStep

LEMMA FsRequeueKeeps == ASSUME FsInv, NEW w \in FsRows, FsRequeue(w) PROVE FsInv'
  <1>t. FsTyped /\ FsPlaced /\ FsOnce /\ FsRequeues /\ fsBuffer \in FsQueues /\ fsFlusher.stash \in FsQueues
    BY DEF FsInv, FsTyped, FsFlushers
  <1>1. PICK t \in FsTables : t = IF fsFlusher.stash["interaction"] # <<>> THEN "interaction" ELSE "usage"
    BY DEF FsTables
  <1>2. fsFlusher.at = "requeue" /\ fsFlusher.stash # FsNoRows
    BY <1>t DEF FsRequeue, FsRequeues
  <1>3. fsFlusher.stash[t] # <<>>
    BY <1>t, <1>1, <1>2 DEF FsQueues, FsNoRows, FsTables
  <1>4. fsFlusher.stash[t] \in Seq(FsRows) /\ fsBuffer[t] \in Seq(FsRows)
    BY <1>t DEF FsQueues
  <1>5. PICK r \in FsRows : r = Head(fsFlusher.stash[t])
    BY <1>3, <1>4, QueueTake
  <1>6. PICK rest : rest = [fsFlusher.stash EXCEPT ![t] = Tail(@)]
    OBVIOUS
  <1>7. /\ w = r \/ (w.table = t /\ fsCall[w] = "blocked" /\ ~FsRoom(t))
        /\ fsBuffer' = [fsBuffer EXCEPT ![t] = Append(IF FsRoom(t) THEN @ ELSE Tail(@), w)]
        /\ fsCall' = IF w = r THEN fsCall ELSE [fsCall EXCEPT ![w] = "accepted"]
        /\ fsHistory' = [fsHistory EXCEPT !.shed =
                @ \cup (IF FsRoom(t) THEN {} ELSE {Head(fsBuffer[t])}) \cup ({r} \ {w})]
        /\ fsFlusher' = [at |-> IF rest = FsNoRows THEN "select" ELSE "requeue", stash |-> rest]
        /\ UNCHANGED <<fsClose, fsWritten>>
    BY <1>1, <1>5, <1>6 DEF FsRequeue
  <1>8. w.table = t
    <2>1. r \in Entries(fsFlusher.stash[t])
      BY <1>3, <1>4, <1>5, QueueTake
    <2> QED
      BY <1>t, <1>7, <2>1 DEF FsPlaced, FsWaits
  <1>d. Distinct(fsBuffer[t])
    BY <1>t DEF FsOnce
  <1>e. /\ w # r => fsCall[w] = "blocked"
        /\ fsCall' = IF w = r THEN fsCall ELSE [fsCall EXCEPT ![w] = "accepted"]
        /\ fsFlusher' = [at |-> IF rest = FsNoRows THEN "select" ELSE "requeue", stash |-> rest]
        /\ UNCHANGED <<fsClose, fsWritten>>
    BY <1>7
  <1>9. CASE FsRoom(t)
    <2>1. PICK base \in Seq(FsRows) : base = fsBuffer[t]
      BY <1>4
    <2>2. fsBuffer' = [fsBuffer EXCEPT ![t] = Append(base, w)]
      BY <1>7, <1>9, <2>1
    <2>3. PICK gone \in SUBSET FsRows : gone = {}
      OBVIOUS
    <2>4. fsHistory' = [fsHistory EXCEPT !.shed = @ \cup gone \cup ({r} \ {w})]
      BY <1>7, <1>9, <2>3
    <2>5. Distinct(base) /\ Entries(base) = Entries(fsBuffer[t]) \ gone /\ gone \subseteq Entries(fsBuffer[t])
      BY <1>d, <2>1, <2>3
    <2> QED
      BY ONLY FsInv, <1>2, <1>3, <1>5, <1>6, <1>e, <1>8, <2>2, <2>4, <2>5, FsOfferStep
  <1>10. CASE ~FsRoom(t)
    <2>1. fsBuffer[t] # <<>>
      BY <1>4, <1>10, FactStoreAssumption DEF FsRoom
    <2>2. /\ Tail(fsBuffer[t]) \in Seq(FsRows) /\ Head(fsBuffer[t]) \in FsRows
          /\ Entries(fsBuffer[t]) = Entries(Tail(fsBuffer[t])) \cup {Head(fsBuffer[t])}
          /\ Distinct(Tail(fsBuffer[t])) /\ Head(fsBuffer[t]) \notin Entries(Tail(fsBuffer[t]))
      BY <1>4, <1>d, <2>1, QueueTake
    <2>3. PICK base \in Seq(FsRows) : base = Tail(fsBuffer[t])
      BY <2>2
    <2>4. PICK gone \in SUBSET FsRows : gone = {Head(fsBuffer[t])}
      BY <2>2
    <2>5. fsBuffer' = [fsBuffer EXCEPT ![t] = Append(base, w)]
      BY <1>7, <1>10, <2>3
    <2>6. fsHistory' = [fsHistory EXCEPT !.shed = @ \cup gone \cup ({r} \ {w})]
      BY <1>7, <1>10, <2>4
    <2>7. Distinct(base) /\ Entries(base) = Entries(fsBuffer[t]) \ gone /\ gone \subseteq Entries(fsBuffer[t])
      BY <2>2, <2>3, <2>4
    <2> QED
      BY ONLY FsInv, <1>2, <1>3, <1>5, <1>6, <1>e, <1>8, <2>5, <2>6, <2>7, FsOfferStep
  <1> QED
    BY <1>9, <1>10

\* After a Close without an error every accepted row is in ClickHouse or was
\* shed, and a row is there twice only if its batch was written and reported as
\* failed: for any rows, buffer sizes, failures and races of callers with Close.
THEOREM FsAccounts == FsSpec => []FsRowsAccounted
  <1>1. FsInv /\ [FsNext]_fsVars => FsInv'
    <2> SUFFICES ASSUME FsInv, [FsNext]_fsVars PROVE FsInv'
      OBVIOUS
    <2>1. CASE FsNext
      <3>1. ASSUME NEW t \in FsTables, FsReceive(t) \/ FsDrain(t) PROVE FsInv'
        BY <3>1, FsTakeKeeps DEF FsReceive, FsDrain
      <3> QED
        BY <2>1, <3>1, FsCallersKeep, FsAcceptKeeps, FsRequeueKeeps, FsFlusherKeeps, FsFlushKeeps, FsShutdownKeeps
        DEF FsNext
    <2>2. CASE UNCHANGED fsVars
      BY <2>2 DEF fsVars, FsInv, FsTyped, FsPlaced, FsOnce, FsUnwritten, FsRowsKept, FsStopped, FsRequeues,
                  FsHeld, FsWaits, FsAccepted, FsCallersGone
    <2> QED
      BY <2>1, <2>2
  <1> QED
    BY <1>1, FsInitOK, FsInvSuffices, PTL DEF FsSpec

(***************************************************************************)
(* The platform's services together.                                       *)
(***************************************************************************)
\* The services share no state: each of them behaves in the platform as it does
\* alone, whatever the others do.
LEMMA PlatformParts == PlSpec => CnvSpec /\ CasSpec /\ WfeSpec /\ TmpSpec /\ FsSpec /\ IdxSpec /\ NatSpec
   /\ HubSpec /\ TgwSpec
  <1>1. PlInit => CnvInit /\ CasInit /\ WfeInit /\ TmpInit /\ FsInit /\ IdxInit /\ NatInit /\ HubInit /\
     TgwInit
    BY DEF PlInit
  <1>2. [PlNext]_plVars => [CnvNext]_cnvVars
    BY DEF PlNext, plVars
  <1>3. [PlNext]_plVars => [CasNext]_casVars
    BY DEF PlNext, plVars
  <1>4. [PlNext]_plVars => [WfeNext]_wfeVars
    BY DEF PlNext, plVars
  <1>5. [PlNext]_plVars => [TmpNext]_tmpVars
    BY DEF PlNext, plVars
  <1>6. [PlNext]_plVars => [FsNext]_fsVars
    BY DEF PlNext, plVars
  <1>7. [PlNext]_plVars => [IdxNext]_idxVars
    BY DEF PlNext, plVars
  <1>8. [PlNext]_plVars => [NatNext]_natVars
    BY DEF PlNext, plVars
  <1>9. [PlNext]_plVars => [HubNext]_hubVars
    BY DEF PlNext, plVars
  <1>10. [PlNext]_plVars => [TgwNext]_tgwVars
    BY DEF PlNext, plVars
  <1> QED
    BY <1>1, <1>2, <1>3, <1>4, <1>5, <1>6, <1>7, <1>8, <1>9, <1>10, PTL DEF PlSpec, CnvSpec, CasSpec,
       WfeSpec, TmpSpec, FsSpec, IdxSpec, NatSpec, HubSpec, TgwSpec

\* So the platform has every safety property of its services.
THEOREM PlatformSafe ==
    PlSpec =>
        /\ []CnvRacesExplained
        /\ []CasSerial
        /\ []WfeCanceledUnlessHeld
        /\ []TmpAuditHonest
        /\ []FsRowsAccounted
        /\ []IdxNeverOvercounts
        /\ []NatSubscriptionKept
        /\ []HubCapHolds
        /\ []TgwCapHolds
        /\ CnvNoLateInteraction
  BY PlatformParts, CnvRaces, CasReferencesSerial, WfeCancelStands, TmpAuditTold, FsAccounts,
     IdxCountsBounded, NatKept, HubCap, TgwCapped, CnvNoLate, PTL
=============================================================================
