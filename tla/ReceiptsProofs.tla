--------------------------- MODULE ReceiptsProofs ---------------------------
(***************************************************************************)
(* Proofs about Receipts for any receipts, interactions, workers, requests *)
(* and limits: however often and along whichever path a receipt is         *)
(* applied, it moves its interaction at most once, and a row is marked     *)
(* processed only after the interaction has been in its target status;     *)
(* the ledger has every provider event once and accounts for every effect. *)
(***************************************************************************)
EXTENDS Receipts, TLAPS

USE ReceiptAssumption, ReceiptLimits

\* Every legal transition goes up in rank, which is what makes effects single.
LEMMA TransitionsRise ==
  ASSUME NEW a \in Statuses \cup {"none"}, NEW b \in Statuses, CanTransition(a, b)
  PROVE  Rank(a) < Rank(b) /\ a # "none"
  BY DEF Statuses, CanTransition, NextStates, Rank

\* Ranks are numbers.
LEMMA RankType ==
  ASSUME NEW a \in Statuses \cup {"none"}
  PROVE  Rank(a) \in 0 .. 4
  BY DEF Statuses, Rank

\* Targets are statuses of the state machine.
LEMMA TargetType ==
  ASSUME NEW r \in ReceiptIds
  PROVE  Target[r] \in Statuses /\ Subject[r] \in Calls
  BY DEF Statuses

\* A fault only moves its own counter.
LEMMA SpendType ==
  ASSUME spent \in [FaultKinds -> Nat], NEW f \in FaultKinds, Spend(f)
  PROVE  spent' \in [FaultKinds -> Nat]
  BY DEF Spend

\* No interaction, no row and no receipt in the beginning.
LEMMA InitIInv == Init => IInv
  BY DEF Init, IInv, TypeOK, StatusVisited, SingleEffect, MovedIsBehind, MarkingReached,
     ProcessedMeansReached, IdleDrain, IdleRequest, FaultKinds, Statuses

\* An interaction enters a higher status: what stays true of the history.
LEMMA EnterEffect ==
  ASSUME TypeOK, NEW c \in Calls, NEW s \in Statuses, Enter(c, s),
         status[c] = "none" \/ CanTransition(status[c], s)
  PROVE  /\ status' \in [Calls -> Statuses \cup {"none"}]
         /\ visited' \in [Calls -> SUBSET Statuses]
         /\ status'[c] = s /\ s \in visited'[c]
         /\ \A d \in Calls : d # c => status'[d] = status[d]
         /\ \A d \in Calls : visited[d] \subseteq visited'[d]
         /\ \A d \in Calls : Rank(status[d]) <= Rank(status'[d])
<1>1. /\ status' = [status EXCEPT ![c] = s]
      /\ visited' = [visited EXCEPT ![c] = @ \cup {s}]
  BY DEF Enter
<1>2. status[c] \in Statuses \cup {"none"}
  BY DEF TypeOK
<1>3. Rank(status[c]) <= Rank(s)
  <2>1. CASE status[c] = "none"
    BY <2>1, RankType DEF Rank
  <2>2. CASE CanTransition(status[c], s)
    BY <2>2, <1>2, TransitionsRise, RankType
  <2> QED
    BY <2>1, <2>2
<1>4. /\ status' \in [Calls -> Statuses \cup {"none"}]
      /\ visited' \in [Calls -> SUBSET Statuses]
      /\ status'[c] = s /\ s \in visited'[c]
      /\ \A d \in Calls : d # c => status'[d] = status[d]
      /\ \A d \in Calls : visited[d] \subseteq visited'[d]
  BY <1>1 DEF TypeOK
<1>5. ASSUME NEW d \in Calls PROVE Rank(status[d]) <= Rank(status'[d])
  <2>1. status[d] \in Statuses \cup {"none"}
    BY DEF TypeOK
  <2>2. Rank(status[d]) \in 0 .. 4
    BY <2>1, RankType
  <2>3. CASE d = c
    BY <2>3, <1>3, <1>4
  <2>4. CASE d # c
    BY <2>4, <2>2, <1>4
  <2> QED
    BY <2>3, <2>4
<1> QED
  BY <1>4, <1>5

\* The history part of the invariant survives any step that enters a higher
\* status on behalf of no receipt or of one.
LEMMA HistoryStep ==
  ASSUME IInv, NEW c \in Calls, NEW s \in Statuses, Enter(c, s),
         status[c] = "none" \/ CanTransition(status[c], s),
         moves' = moves \/ \E r \in ReceiptIds :
            /\ Subject[r] = c /\ Target[r] = s /\ CanTransition(status[c], s)
            /\ moves' = [moves EXCEPT ![r] = @ + 1]
  PROVE  (StatusVisited /\ SingleEffect /\ MovedIsBehind)' /\ moves' \in [ReceiptIds -> Nat]
<1>0. TypeOK
  BY DEF IInv
<1>1. StatusVisited'
  BY <1>0, EnterEffect DEF IInv, StatusVisited
<1>2. ASSUME NEW r \in ReceiptIds
      PROVE  /\ Rank(Target[r]) \in Nat
             /\ Rank(status[Subject[r]]) \in Nat
             /\ Rank(status'[Subject[r]]) \in Nat
             /\ Rank(status[Subject[r]]) <= Rank(status'[Subject[r]])
  <2>1. Target[r] \in Statuses /\ Subject[r] \in Calls
    BY TargetType
  <2>2. /\ status[Subject[r]] \in Statuses \cup {"none"}
        /\ status'[Subject[r]] \in Statuses \cup {"none"}
    BY <2>1, <1>0, EnterEffect DEF TypeOK
  <2>3. Rank(Target[r]) \in 0 .. 4
    BY <2>1, RankType
  <2>4. Rank(status[Subject[r]]) \in 0 .. 4 /\ Rank(status'[Subject[r]]) \in 0 .. 4
    BY <2>2, RankType
  <2>5. Rank(status[Subject[r]]) <= Rank(status'[Subject[r]])
    BY <2>1, <1>0, EnterEffect
  <2> QED
    BY <2>3, <2>4, <2>5
<1>3. CASE moves' = moves
  BY <1>0, <1>1, <1>2, <1>3 DEF IInv, TypeOK, SingleEffect, MovedIsBehind
<1>4. ASSUME NEW q \in ReceiptIds, Subject[q] = c, Target[q] = s, CanTransition(status[c], s),
             moves' = [moves EXCEPT ![q] = @ + 1]
      PROVE  (SingleEffect /\ MovedIsBehind)' /\ moves' \in [ReceiptIds -> Nat]
  <2>1. Rank(status[c]) < Rank(s)
    BY <1>0, <1>4, TransitionsRise DEF TypeOK
  <2>2. moves[q] = 0
    <3>1. moves[q] \in Nat
      BY <1>0 DEF TypeOK
    <3>2. Rank(Target[q]) \in Nat /\ Rank(status[Subject[q]]) \in Nat
      BY <1>2
    <3>3. moves[q] > 0 => Rank(Target[q]) <= Rank(status[Subject[q]])
      BY DEF IInv, MovedIsBehind
    <3> QED
      BY <2>1, <3>1, <3>2, <3>3, <1>4
  <2>3. /\ moves' \in [ReceiptIds -> Nat]
        /\ moves'[q] = 1
        /\ \A r \in ReceiptIds : r # q => moves'[r] = moves[r]
    BY <2>2, <1>0, <1>4 DEF TypeOK
  <2>4. status'[c] = s
    BY <1>0, EnterEffect
  <2>5. SingleEffect'
    BY <2>3 DEF IInv, SingleEffect
  <2>6. MovedIsBehind'
    BY <2>3, <2>4, <1>2, <1>4 DEF IInv, MovedIsBehind
  <2> QED
    BY <2>3, <2>5, <2>6
<1> QED
  BY <1>1, <1>3, <1>4

\* Marks and history when statuses only grow: what was reached stays reached.
LEMMA ReachedStays ==
  ASSUME IInv, \A c \in Calls : visited[c] \subseteq visited'[c],
         processed' = processed, drain' = drain
  PROVE  (MarkingReached /\ ProcessedMeansReached)'
  BY TargetType DEF IInv, TypeOK, MarkingReached, ProcessedMeansReached

\* The ledger only ever grows by receipts.
LEMMA PersistType ==
  ASSUME TypeOK, NEW r \in ReceiptIds, Persist(r)
  PROVE  ledger' \in Seq(ReceiptIds)
  BY DEF TypeOK, Persist

\* Steps that leave interactions, marks and workers alone: ingests and requests
\* that only read, and their crashes.
LEMMA QuietStep ==
  ASSUME IInv, UNCHANGED <<status, visited, moves, processed, drain, attempts>>,
         ledger' \in Seq(ReceiptIds), emitted' \subseteq Simulated,
         request' \in [Requests -> [at : {"idle", "read", "move"}, current : SUBSET ReceiptIds]],
         spent' \in [FaultKinds -> Nat]
  PROVE  IInv'
<1>1. TypeOK'
  BY DEF IInv, TypeOK
<1>2. (StatusVisited /\ SingleEffect /\ MovedIsBehind)'
  BY DEF IInv, StatusVisited, SingleEffect, MovedIsBehind
<1>3. (MarkingReached /\ ProcessedMeansReached)'
  BY ReachedStays
<1> QED
  BY <1>1, <1>2, <1>3 DEF IInv

\* A transition on behalf of no receipt, or of a request's receipt.
LEMMA EnterStep ==
  ASSUME IInv, NEW c \in Calls, NEW s \in Statuses, Enter(c, s),
         status[c] = "none" \/ CanTransition(status[c], s),
         moves' = moves \/ \E r \in ReceiptIds :
            /\ Subject[r] = c /\ Target[r] = s /\ CanTransition(status[c], s)
            /\ moves' = [moves EXCEPT ![r] = @ + 1],
         UNCHANGED <<ledger, processed, emitted, drain, attempts, spent>>,
         request' \in [Requests -> [at : {"idle", "read", "move"}, current : SUBSET ReceiptIds]]
  PROVE  IInv'
<1>1. (StatusVisited /\ SingleEffect /\ MovedIsBehind)' /\ moves' \in [ReceiptIds -> Nat]
  BY HistoryStep
<1>2. /\ status' \in [Calls -> Statuses \cup {"none"}]
      /\ visited' \in [Calls -> SUBSET Statuses]
      /\ \A d \in Calls : visited[d] \subseteq visited'[d]
  BY EnterEffect DEF IInv
<1>3. TypeOK'
  BY <1>1, <1>2 DEF IInv, TypeOK
<1>4. (MarkingReached /\ ProcessedMeansReached)'
  BY <1>2, ReachedStays
<1> QED
  BY <1>1, <1>3, <1>4 DEF IInv

\* Types of the parts a request touches.
LEMMA RequestTypes ==
  ASSUME TypeOK, NEW q \in Requests, NEW r \in ReceiptIds
  PROVE  /\ [request EXCEPT ![q] = IdleRequest] \in
               [Requests -> [at : {"idle", "read", "move"}, current : SUBSET ReceiptIds]]
         /\ [request EXCEPT ![q] = [at |-> "read", current |-> {r}]] \in
               [Requests -> [at : {"idle", "read", "move"}, current : SUBSET ReceiptIds]]
         /\ [request EXCEPT ![q] = [at |-> "move", current |-> {r}]] \in
               [Requests -> [at : {"idle", "read", "move"}, current : SUBSET ReceiptIds]]
  BY DEF TypeOK, IdleRequest

\* The HTTP path and the simulator keep the invariant.
LEMMA IngestStep ==
  ASSUME IInv, NEW r \in ReceiptIds,
         Emit(r) \/ \E q \in Requests : Receive(q, r) \/ RequestRead(q, r)
  PROVE  IInv'
<1>0. TypeOK /\ spent \in [FaultKinds -> Nat] /\ ledger \in Seq(ReceiptIds)
      /\ {"db", "crash", "redelivery"} \subseteq FaultKinds
      /\ request \in [Requests -> [at : {"idle", "read", "move"}, current : SUBSET ReceiptIds]]
      /\ emitted \subseteq Simulated
  BY DEF IInv, TypeOK, FaultKinds
<1>1. CASE Emit(r)
  <2>1. ledger' \in Seq(ReceiptIds) /\ spent' \in [FaultKinds -> Nat]
    BY <1>0, <1>1, PersistType, SpendType DEF Emit
  <2> QED
    BY <1>0, <1>1, <2>1, QuietStep DEF Emit
<1>2. ASSUME NEW q \in Requests, Receive(q, r) PROVE IInv'
  <2>1. ledger' \in Seq(ReceiptIds) /\ spent' \in [FaultKinds -> Nat]
    BY <1>0, <1>2, PersistType, SpendType DEF Receive
  <2> QED
    BY <1>0, <1>2, <2>1, QuietStep, RequestTypes DEF Receive
<1>3. ASSUME NEW q \in Requests, RequestRead(q, r) PROVE IInv'
  BY <1>0, <1>3, QuietStep, RequestTypes DEF RequestRead
<1> QED
  BY <1>1, <1>2, <1>3

\* A request's Transition applies its receipt or answers 409.
LEMMA RequestMoveStep ==
  ASSUME IInv, NEW q \in Requests, NEW r \in ReceiptIds, RequestMove(q, r)
  PROVE  IInv'
<1>0. TypeOK /\ Target[r] \in Statuses /\ Subject[r] \in Calls
  BY TargetType DEF IInv
<1>1. request' \in [Requests -> [at : {"idle", "read", "move"}, current : SUBSET ReceiptIds]]
  BY <1>0, RequestTypes DEF RequestMove
<1>2. CASE Applies(r)
  BY <1>0, <1>1, <1>2, EnterStep DEF RequestMove, Applies, Apply
<1>3. CASE ~Applies(r)
  BY <1>0, <1>1, <1>3, QuietStep DEF RequestMove, IInv, TypeOK
<1> QED
  BY <1>2, <1>3

Drains == [at : {"idle", "row", "move", "mark"}, rows : SUBSET ReceiptIds,
           current : SUBSET ReceiptIds]

\* A worker's step that moves no interaction and marks nothing.
LEMMA DrainQuiet ==
  ASSUME IInv, NEW w \in Workers, NEW d \in Drains, drain' = [drain EXCEPT ![w] = d],
         d.at = "mark" => \A r \in d.current : Target[r] \in visited[Subject[r]],
         UNCHANGED <<status, visited, moves, ledger, emitted, request>>,
         processed' \subseteq ReceiptIds,
         \A r \in processed' : r \in processed \/ Target[r] \in visited[Subject[r]],
         attempts' \in [Workers -> [ReceiptIds -> Nat]], spent' \in [FaultKinds -> Nat]
  PROVE  IInv'
<1>1. drain' \in [Workers -> Drains] /\ drain'[w] = d
      /\ \A v \in Workers : v # w => drain'[v] = drain[v]
  BY DEF IInv, TypeOK, Drains
<1>2. TypeOK'
  BY <1>1 DEF IInv, TypeOK, Drains
<1>3. (StatusVisited /\ SingleEffect /\ MovedIsBehind)'
  BY DEF IInv, StatusVisited, SingleEffect, MovedIsBehind
<1>4. MarkingReached'
  BY <1>1 DEF IInv, MarkingReached
<1>5. ProcessedMeansReached'
  BY DEF IInv, ProcessedMeansReached
<1> QED
  BY <1>2, <1>3, <1>4, <1>5 DEF IInv

\* A worker's step that applies a receipt.
LEMMA DrainMove ==
  ASSUME IInv, NEW w \in Workers, NEW r \in ReceiptIds, NEW d \in Drains,
         drain' = [drain EXCEPT ![w] = d], d.at = "mark" => d.current = {r},
         Applies(r), Apply(r), UNCHANGED <<ledger, processed, emitted, request>>,
         attempts' \in [Workers -> [ReceiptIds -> Nat]], spent' \in [FaultKinds -> Nat]
  PROVE  IInv'
<1>1. Target[r] \in Statuses /\ Subject[r] \in Calls
  BY TargetType
<1>2. /\ Enter(Subject[r], Target[r]) /\ CanTransition(status[Subject[r]], Target[r])
      /\ moves' = [moves EXCEPT ![r] = @ + 1]
  BY DEF Applies, Apply
<1>3. (StatusVisited /\ SingleEffect /\ MovedIsBehind)' /\ moves' \in [ReceiptIds -> Nat]
  BY <1>1, <1>2, HistoryStep
<1>4. /\ status' \in [Calls -> Statuses \cup {"none"}]
      /\ visited' \in [Calls -> SUBSET Statuses]
      /\ \A c \in Calls : visited[c] \subseteq visited'[c]
      /\ Target[r] \in visited'[Subject[r]]
  BY <1>1, <1>2, EnterEffect DEF IInv
<1>5. \A s \in ReceiptIds : Target[s] \in visited[Subject[s]] => Target[s] \in visited'[Subject[s]]
  BY <1>4, TargetType
<1>6. /\ drain' \in [Workers -> Drains]
      /\ drain'[w] = d
      /\ \A v \in Workers : v # w => drain'[v] = drain[v]
  BY DEF IInv, TypeOK, Drains
<1>7. TypeOK'
  BY <1>3, <1>4, <1>6 DEF IInv, TypeOK, Drains
<1>8. ProcessedMeansReached'
  BY <1>5 DEF IInv, TypeOK, ProcessedMeansReached
<1>9. MarkingReached'
  <2>1. \A v \in Workers : drain[v].current \subseteq ReceiptIds
    BY DEF IInv, TypeOK
  <2> QED
    BY <2>1, <1>4, <1>5, <1>6 DEF IInv, MarkingReached
<1> QED
  BY <1>3, <1>7, <1>8, <1>9 DEF IInv

\* The steps of EventConsumer.Tick.
LEMMA DrainStepKeeps ==
  ASSUME IInv, NEW w \in Workers, DrainStep(w)
  PROVE  IInv'
<1>0. /\ TypeOK /\ drain \in [Workers -> Drains] /\ drain[w] \in Drains
      /\ spent \in [FaultKinds -> Nat] /\ attempts \in [Workers -> [ReceiptIds -> Nat]]
      /\ processed \subseteq ReceiptIds /\ "db" \in FaultKinds
  BY DEF IInv, TypeOK, Drains, FaultKinds
<1>1. CASE TickRead(w)
  <2>1. Batch \subseteq ReceiptIds
    BY <1>0 DEF Batch, Unprocessed, InLedger, TypeOK
  <2>2. [at |-> "row", rows |-> Batch, current |-> {}] \in Drains
    BY <2>1 DEF Drains
  <2> QED
    BY <1>0, <1>1, <2>2, DrainQuiet DEF TickRead
<1>2. \A rest \in SUBSET ReceiptIds : Resume(rest) \in Drains /\ Resume(rest).at # "mark"
  BY DEF Resume, Drains
<1>3. drain[w].rows \in SUBSET ReceiptIds
  BY <1>0 DEF Drains
<1>4. ASSUME NEW r \in ReceiptIds, SkipRow(w, r) PROVE IInv'
  <2>1. drain[w].rows \ {r} \in SUBSET ReceiptIds
    BY <1>3
  <2>2. Resume(drain[w].rows \ {r}) \in Drains /\ Resume(drain[w].rows \ {r}).at # "mark"
    BY <2>1, <1>2
  <2> QED
    BY <1>0, <1>4, <2>2, DrainQuiet DEF SkipRow
<1>5. ASSUME NEW r \in ReceiptIds, RowRead(w, r) PROVE IInv'
  <2> DEFINE d == [at |-> IF SameState(r) THEN "mark" ELSE "move",
                   rows |-> drain[w].rows \ {r}, current |-> {r}]
  <2>1. d \in Drains /\ d.current = {r} /\ (d.at = "mark" => SameState(r))
    BY <1>3 DEF Drains
  <2>2. SameState(r) => Target[r] \in visited[Subject[r]]
    BY TargetType DEF SameState, IInv, StatusVisited, Statuses
  <2>3. drain' = [drain EXCEPT ![w] = d]
    BY <1>5 DEF RowRead
  <2> HIDE DEF d
  <2> QED
    BY <1>0, <1>5, <2>1, <2>2, <2>3, DrainQuiet DEF RowRead
<1>6. ASSUME NEW r \in ReceiptIds, RowMoved(w, r) PROVE IInv'
  <2> DEFINE d == [at |-> "mark", rows |-> drain[w].rows, current |-> {r}]
  <2>1. d \in Drains /\ d.current = {r}
    BY <1>3 DEF Drains
  <2>2. drain' = [drain EXCEPT ![w] = d]
    BY <1>0, <1>6 DEF RowMoved
  <2> HIDE DEF d
  <2> QED
    BY <1>0, <1>6, <2>1, <2>2, DrainMove DEF RowMoved
<1>7. ASSUME NEW r \in ReceiptIds, RowRefused(w, r) PROVE IInv'
  <2>1. attempts' \in [Workers -> [ReceiptIds -> Nat]]
    BY <1>0, <1>7 DEF RowRefused, Failed
  <2>2. Resume(drain[w].rows) \in Drains /\ Resume(drain[w].rows).at # "mark"
    BY <1>2, <1>3
  <2> QED
    BY <1>0, <1>7, <2>1, <2>2, DrainQuiet DEF RowRefused
<1>8. ASSUME NEW r \in ReceiptIds, RowMark(w, r) PROVE IInv'
  <2>1. Target[r] \in visited[Subject[r]]
    BY <1>8 DEF RowMark, IInv, MarkingReached
  <2>2. Resume(drain[w].rows) \in Drains /\ Resume(drain[w].rows).at # "mark"
    BY <1>2, <1>3
  <2>3. spent' \in [FaultKinds -> Nat]
    BY <1>0, <1>8, SpendType DEF RowMark
  <2>4. processed' \subseteq ReceiptIds
        /\ \A s \in processed' : s \in processed \/ Target[s] \in visited[Subject[s]]
    BY <1>0, <1>8, <2>1 DEF RowMark
  <2> QED
    BY <1>0, <1>8, <2>2, <2>3, <2>4, DrainQuiet DEF RowMark
<1> QED
  BY <1>1, <1>4, <1>5, <1>6, <1>7, <1>8 DEF DrainStep

\* Database errors in Process: a failed attempt, with or without the effect.
LEMMA ProcessErrorStep ==
  ASSUME IInv, NEW w \in Workers, NEW r \in ReceiptIds, ReadError(w, r) \/ MoveError(w, r)
  PROVE  IInv'
<1>0. /\ TypeOK /\ drain[w] \in Drains /\ spent \in [FaultKinds -> Nat]
      /\ attempts \in [Workers -> [ReceiptIds -> Nat]]
      /\ processed \subseteq ReceiptIds /\ "db" \in FaultKinds
  BY DEF IInv, TypeOK, Drains, FaultKinds
<1>1. spent' \in [FaultKinds -> Nat]
  BY <1>0, SpendType DEF ReadError, MoveError
<1>2. attempts' \in [Workers -> [ReceiptIds -> Nat]]
  <2>1. Failed(w, r)
    BY DEF ReadError, MoveError
  <2> QED
    BY <1>0, <2>1 DEF Failed
<1>3. \A rest \in SUBSET ReceiptIds : Resume(rest) \in Drains /\ Resume(rest).at # "mark"
  BY DEF Resume, Drains
<1>4. drain[w].rows \in SUBSET ReceiptIds /\ drain[w].rows \ {r} \in SUBSET ReceiptIds
  BY <1>0 DEF Drains
<1>5. CASE ReadError(w, r)
  <2>1. Resume(drain[w].rows \ {r}) \in Drains /\ Resume(drain[w].rows \ {r}).at # "mark"
    BY <1>3, <1>4
  <2> QED
    BY <1>0, <1>1, <1>2, <1>5, <2>1, DrainQuiet DEF ReadError
<1>6. CASE MoveError(w, r)
  <2>1. Resume(drain[w].rows) \in Drains /\ Resume(drain[w].rows).at # "mark"
    BY <1>3, <1>4
  <2>2. CASE Applies(r) /\ Apply(r)
    BY <1>1, <1>2, <1>6, <2>1, <2>2, DrainMove DEF MoveError
  <2>3. CASE UNCHANGED <<status, visited, moves>>
    BY <1>0, <1>1, <1>2, <1>6, <2>1, <2>3, DrainQuiet DEF MoveError
  <2> QED
    BY <1>6, <2>2, <2>3 DEF MoveError
<1> QED
  BY <1>5, <1>6

\* A process dies: its requests and its counters go, the tables stay.
LEMMA CrashStep ==
  ASSUME IInv, \/ \E q \in Requests : RequestCrash(q)
               \/ \E w \in Workers : WorkerCrash(w)
  PROVE  IInv'
<1>0. /\ TypeOK /\ spent \in [FaultKinds -> Nat] /\ "crash" \in FaultKinds
      /\ processed \subseteq ReceiptIds
  BY DEF IInv, TypeOK, FaultKinds
<1>1. ASSUME NEW q \in Requests, RequestCrash(q) PROVE IInv'
  <2>1. spent' \in [FaultKinds -> Nat]
    BY <1>0, <1>1, SpendType DEF RequestCrash
  <2>2. request' \in [Requests -> [at : {"idle", "read", "move"}, current : SUBSET ReceiptIds]]
    BY <1>0, <1>1 DEF RequestCrash, TypeOK, IdleRequest
  <2> QED
    BY <1>0, <1>1, <2>1, <2>2, QuietStep DEF RequestCrash, TypeOK
<1>2. ASSUME NEW w \in Workers, WorkerCrash(w) PROVE IInv'
  <2>1. spent' \in [FaultKinds -> Nat]
    BY <1>0, <1>2, SpendType DEF WorkerCrash
  <2>2. IdleDrain \in Drains /\ IdleDrain.at # "mark"
    BY DEF IdleDrain, Drains
  <2>3. attempts' \in [Workers -> [ReceiptIds -> Nat]]
    BY <1>0, <1>2 DEF WorkerCrash, TypeOK
  <2> QED
    BY <1>0, <1>2, <2>1, <2>2, <2>3, DrainQuiet DEF WorkerCrash
<1> QED
  BY <1>1, <1>2

\* IInv is inductive.
LEMMA StepIInv == IInv /\ [Next]_vars => IInv'
<1> SUFFICES ASSUME IInv, [Next]_vars PROVE IInv'
  OBVIOUS
<1>1. CASE UNCHANGED vars
  BY <1>1, QuietStep DEF vars, IInv, TypeOK
<1>2. ASSUME NEW c \in Calls, Create(c) PROVE IInv'
  <2>1. "pending" \in Statuses
    BY DEF Statuses
  <2> QED
    BY <1>2, <2>1, EnterStep DEF Create, IInv, TypeOK
<1>3. ASSUME NEW c \in Calls, NEW to \in OperatorMoves, OperatorTransition(c, to) PROVE IInv'
  BY <1>3, EnterStep DEF OperatorTransition, IInv, TypeOK
<1>4. ASSUME NEW q \in Requests, RequestStep(q) PROVE IInv'
  BY <1>4, IngestStep, RequestMoveStep DEF RequestStep
<1> QED
  BY <1>1, <1>2, <1>3, <1>4, IngestStep, DrainStepKeeps, ProcessErrorStep,
     CrashStep DEF Next

\* IInv holds in every reachable state.
THEOREM Inductive == Spec => []IInv
  BY InitIInv, StepIInv, PTL DEF Spec

\* A receipt moves its interaction at most once, for any number of workers,
\* requests, redeliveries and crashes.
THEOREM EffectsAreSingle == Spec => []SingleEffect
<1>1. IInv => SingleEffect
  BY DEF IInv
<1> QED
  BY <1>1, Inductive, PTL

\* No row is marked processed whose interaction was never in its target status.
THEOREM MarksAreEarned == Spec => []ProcessedMeansReached
<1>1. IInv => ProcessedMeansReached
  BY DEF IInv
<1> QED
  BY <1>1, Inductive, PTL

-----------------------------------------------------------------------------
(* Effects and their record.                                               *)

\* The ledger has one row per provider event.
LedgerOnce == \A i, j \in 1 .. Len(ledger) : ledger[i] = ledger[j] => i = j

\* What moved an interaction, what is marked processed and what somebody is
\* about to apply is a row of the ledger.
OnRecord ==
    /\ \A r \in ReceiptIds : moves[r] > 0 => r \in InLedger
    /\ processed \subseteq InLedger
    /\ \A w \in Workers : drain[w].rows \cup drain[w].current \subseteq InLedger
    /\ \A q \in Requests : request[q].current \subseteq InLedger

\* Persisting a receipt keeps the rows there are and their uniqueness.
LEMMA PersistEffect ==
  ASSUME ledger \in Seq(ReceiptIds), LedgerOnce, NEW r \in ReceiptIds, Persist(r)
  PROVE  LedgerOnce' /\ InLedger \subseteq InLedger' /\ r \in InLedger'
<1>1. CASE r \in InLedger
  <2>1. ledger' = ledger
    BY <1>1 DEF Persist
  <2> QED
    BY <1>1, <2>1 DEF LedgerOnce, InLedger
<1>2. CASE r \notin InLedger
  <2>1. ledger' = Append(ledger, r)
    BY <1>2 DEF Persist
  <2>2. /\ Len(ledger) \in Nat /\ Len(ledger') = Len(ledger) + 1 /\ ledger'[Len(ledger) + 1] = r
        /\ \A i \in 1 .. Len(ledger) : ledger'[i] = ledger[i] /\ ledger[i] # r
    BY <1>2, <2>1 DEF InLedger
  <2>3. LedgerOnce'
    BY <2>2 DEF LedgerOnce
  <2>4. InLedger \subseteq InLedger' /\ r \in InLedger'
    BY <2>2 DEF InLedger
  <2> QED
    BY <2>3, <2>4
<1> QED
  BY <1>1, <1>2

\* What every step does to the record.
LEMMA RecordStep ==
  ASSUME IInv, LedgerOnce, OnRecord, [Next]_vars
  PROVE  LedgerOnce' /\ OnRecord'
<1>t. /\ TypeOK /\ ledger \in Seq(ReceiptIds) /\ processed \subseteq ReceiptIds
      /\ drain \in [Workers -> Drains] /\ moves \in [ReceiptIds -> Nat]
      /\ request \in [Requests -> [at : {"idle", "read", "move"}, current : SUBSET ReceiptIds]]
  BY DEF IInv, TypeOK, Drains
\* A step that leaves the ledger alone and takes up no receipt from elsewhere.
<1>1. ASSUME UNCHANGED ledger, processed' \subseteq InLedger,
             \A r \in ReceiptIds : moves'[r] > 0 => moves[r] > 0 \/ r \in InLedger,
             \A w \in Workers : drain'[w].rows \cup drain'[w].current \subseteq InLedger,
             \A q \in Requests : request'[q].current \subseteq InLedger
      PROVE  LedgerOnce' /\ OnRecord'
  <2>1. InLedger' = InLedger
    BY <1>1 DEF InLedger
  <2>2. \A r \in ReceiptIds : moves'[r] > 0 => r \in InLedger
    BY <1>1 DEF OnRecord
  <2> QED
    BY <1>1, <2>1, <2>2 DEF LedgerOnce, OnRecord
<1>2. ASSUME NEW r \in ReceiptIds, r \in InLedger, (Applies(r) /\ Apply(r)) \/ UNCHANGED <<status, visited, moves>>
      PROVE  \A s \in ReceiptIds : moves'[s] > 0 => moves[s] > 0 \/ s \in InLedger
  BY <1>2, <1>t DEF Apply
\* One worker takes a step of its own.
<1>3. ASSUME NEW w \in Workers, NEW d \in Drains, drain' = [drain EXCEPT ![w] = d],
             d.rows \cup d.current \subseteq InLedger, UNCHANGED <<ledger, request>>,
             processed' \subseteq InLedger,
             \A r \in ReceiptIds : moves'[r] > 0 => moves[r] > 0 \/ r \in InLedger
      PROVE  LedgerOnce' /\ OnRecord'
  <2>1. \A v \in Workers : drain'[v].rows \cup drain'[v].current \subseteq InLedger
    BY <1>3, <1>t DEF OnRecord
  <2>2. \A q \in Requests : request'[q].current \subseteq InLedger
    BY <1>3 DEF OnRecord
  <2> QED
    BY <1>1, <1>3, <2>1, <2>2
\* One request does.
<1>4. ASSUME NEW q \in Requests, NEW n, request' = [request EXCEPT ![q] = n], n.current \subseteq InLedger,
             UNCHANGED <<ledger, drain, processed>>,
             \A r \in ReceiptIds : moves'[r] > 0 => moves[r] > 0 \/ r \in InLedger
      PROVE  LedgerOnce' /\ OnRecord'
  <2>1. \A p \in Requests : request'[p].current \subseteq InLedger
    BY <1>4, <1>t DEF OnRecord
  <2> QED
    BY <1>1, <1>4, <2>1 DEF OnRecord
<1>5. ASSUME UNCHANGED <<ledger, processed, drain, request, moves>> PROVE LedgerOnce' /\ OnRecord'
  BY <1>1, <1>5 DEF OnRecord
\* The ledger grows.
<1>6. ASSUME NEW r \in ReceiptIds, Persist(r), UNCHANGED <<processed, drain, moves>>,
             request' = request \/ \E q \in Requests :
                request' = [request EXCEPT ![q] = [at |-> "read", current |-> {r}]]
      PROVE  LedgerOnce' /\ OnRecord'
  <2>1. LedgerOnce' /\ InLedger \subseteq InLedger' /\ r \in InLedger'
    BY <1>6, <1>t, PersistEffect
  <2>2. \A p \in Requests : request'[p].current \subseteq InLedger'
    <3>1. CASE request' = request
      BY <2>1, <3>1 DEF OnRecord
    <3>2. ASSUME NEW q \in Requests, request' = [request EXCEPT ![q] = [at |-> "read", current |-> {r}]]
          PROVE  \A p \in Requests : request'[p].current \subseteq InLedger'
      BY <2>1, <3>2, <1>t DEF OnRecord
    <3> QED
      BY <1>6, <3>1, <3>2
  <2> QED
    BY <1>6, <2>1, <2>2 DEF OnRecord
<1>7. ASSUME NEW c \in Calls, Create(c) \/ \E to \in OperatorMoves : OperatorTransition(c, to)
      PROVE  LedgerOnce' /\ OnRecord'
  BY <1>5, <1>7 DEF Create, OperatorTransition
<1>8. ASSUME NEW r \in ReceiptIds, Emit(r) PROVE LedgerOnce' /\ OnRecord'
  BY <1>5, <1>6, <1>8 DEF Emit
<1>9. ASSUME NEW q \in Requests, NEW r \in ReceiptIds, Receive(q, r) PROVE LedgerOnce' /\ OnRecord'
  BY <1>6, <1>9 DEF Receive
<1>10. ASSUME NEW q \in Requests, NEW r \in ReceiptIds, RequestRead(q, r) PROVE LedgerOnce' /\ OnRecord'
  <2>1. r \in InLedger
    BY <1>10 DEF RequestRead, OnRecord
  <2> DEFINE n == IF SameState(r) THEN IdleRequest ELSE [at |-> "move", current |-> {r}]
  <2>2. n.current \subseteq InLedger
    BY <2>1 DEF IdleRequest
  <2>3. request' = [request EXCEPT ![q] = n] /\ UNCHANGED <<ledger, drain, processed, moves>>
    BY <1>10 DEF RequestRead
  <2> HIDE DEF n
  <2> QED
    BY <1>4, <2>2, <2>3
<1>11. ASSUME NEW q \in Requests, NEW r \in ReceiptIds, RequestMove(q, r) PROVE LedgerOnce' /\ OnRecord'
  <2>1. r \in InLedger
    BY <1>11 DEF RequestMove, OnRecord
  <2>2. \A s \in ReceiptIds : moves'[s] > 0 => moves[s] > 0 \/ s \in InLedger
    BY <1>11, <1>2, <2>1 DEF RequestMove
  <2>3. IdleRequest.current \subseteq InLedger
    BY DEF IdleRequest
  <2> QED
    BY <1>4, <1>11, <2>2, <2>3 DEF RequestMove
<1>12. ASSUME NEW q \in Requests, RequestCrash(q) PROVE LedgerOnce' /\ OnRecord'
  <2>1. IdleRequest.current \subseteq InLedger
    BY DEF IdleRequest
  <2> QED
    BY <1>4, <1>12, <2>1 DEF RequestCrash
\* Where a worker goes on.
<1>13. ASSUME NEW rest \in SUBSET ReceiptIds
       PROVE  Resume(rest) \in Drains /\ Resume(rest).rows = rest /\ Resume(rest).current = {}
  BY DEF Resume, Drains
<1>14. \A w \in Workers : drain[w] \in Drains /\ drain[w].rows \in SUBSET ReceiptIds
                          /\ drain[w].rows \subseteq InLedger /\ drain[w].current \subseteq InLedger
  BY <1>t DEF Drains, OnRecord
<1>15. ASSUME NEW w \in Workers, TickRead(w) PROVE LedgerOnce' /\ OnRecord'
  <2> DEFINE d == [at |-> "row", rows |-> Batch, current |-> {}]
  <2>1. Batch \subseteq InLedger /\ InLedger \subseteq ReceiptIds
    <3>1. Batch \subseteq Unprocessed /\ Unprocessed \subseteq InLedger
      BY ZenonT(30) DEF Batch, Unprocessed
    <3>2. \A i \in 1 .. Len(ledger) : ledger[i] \in ReceiptIds
      BY <1>t
    <3>3. InLedger \subseteq ReceiptIds
      BY <3>2 DEF InLedger
    <3> QED
      BY <3>1, <3>3
  <2>2. d \in Drains /\ d.rows \cup d.current \subseteq InLedger
    BY <2>1 DEF Drains
  <2>3. drain' = [drain EXCEPT ![w] = d] /\ UNCHANGED <<ledger, request, processed, moves>>
    BY <1>15 DEF TickRead
  <2> HIDE DEF d
  <2> QED
    BY <1>3, <2>2, <2>3 DEF OnRecord
<1>16. ASSUME NEW w \in Workers, NEW r \in ReceiptIds, SkipRow(w, r) \/ ReadError(w, r) PROVE LedgerOnce' /\ OnRecord'
  <2> DEFINE d == Resume(drain[w].rows \ {r})
  <2>1. d \in Drains /\ d.rows \cup d.current \subseteq InLedger
    BY <1>13, <1>14
  <2>2. drain' = [drain EXCEPT ![w] = d] /\ UNCHANGED <<ledger, request, processed, moves>>
    BY <1>16 DEF SkipRow, ReadError
  <2> HIDE DEF d
  <2> QED
    BY <1>3, <2>1, <2>2 DEF OnRecord
<1>17. ASSUME NEW w \in Workers, NEW r \in ReceiptIds, RowRead(w, r) PROVE LedgerOnce' /\ OnRecord'
  <2> DEFINE d == [at |-> IF SameState(r) THEN "mark" ELSE "move", rows |-> drain[w].rows \ {r}, current |-> {r}]
  <2>1. r \in InLedger
    BY <1>14, <1>17 DEF RowRead, NextRow
  <2>2. d \in Drains /\ d.rows \cup d.current \subseteq InLedger
    BY <1>14, <2>1 DEF Drains
  <2>3. drain' = [drain EXCEPT ![w] = d] /\ UNCHANGED <<ledger, request, processed, moves>>
    BY <1>17 DEF RowRead
  <2> HIDE DEF d
  <2> QED
    BY <1>3, <2>2, <2>3 DEF OnRecord
<1>18. ASSUME NEW w \in Workers, NEW r \in ReceiptIds, RowMoved(w, r) PROVE LedgerOnce' /\ OnRecord'
  <2> DEFINE d == [at |-> "mark", rows |-> drain[w].rows, current |-> {r}]
  <2>1. r \in InLedger
    BY <1>14, <1>18 DEF RowMoved
  <2>2. d \in Drains /\ d.rows \cup d.current \subseteq InLedger
    BY <1>14, <2>1 DEF Drains
  <2>3. drain' = [drain EXCEPT ![w] = d] /\ UNCHANGED <<ledger, request, processed>>
    BY <1>18 DEF RowMoved
  <2>4. \A s \in ReceiptIds : moves'[s] > 0 => moves[s] > 0 \/ s \in InLedger
    BY <1>18, <1>2, <2>1 DEF RowMoved
  <2> HIDE DEF d
  <2> QED
    BY <1>3, <2>2, <2>3, <2>4 DEF OnRecord
<1>19. ASSUME NEW w \in Workers, NEW r \in ReceiptIds, RowRefused(w, r) \/ MoveError(w, r) \/ RowMark(w, r)
       PROVE  LedgerOnce' /\ OnRecord'
  <2> DEFINE d == Resume(drain[w].rows)
  <2>1. d \in Drains /\ d.rows \cup d.current \subseteq InLedger
    BY <1>13, <1>14
  <2>2. r \in InLedger
    BY <1>14, <1>19 DEF RowRefused, MoveError, RowMark
  <2>3. drain' = [drain EXCEPT ![w] = d] /\ UNCHANGED <<ledger, request>>
    BY <1>19 DEF RowRefused, MoveError, RowMark
  <2>4. \A s \in ReceiptIds : moves'[s] > 0 => moves[s] > 0 \/ s \in InLedger
    BY <1>19, <1>2, <2>2 DEF RowRefused, MoveError, RowMark
  <2>5. processed' \subseteq InLedger
    BY <1>19, <2>2 DEF RowRefused, MoveError, RowMark, OnRecord
  <2> HIDE DEF d
  <2> QED
    BY <1>3, <2>1, <2>3, <2>4, <2>5
<1>20. ASSUME NEW w \in Workers, WorkerCrash(w) PROVE LedgerOnce' /\ OnRecord'
  <2>1. IdleDrain \in Drains /\ IdleDrain.rows \cup IdleDrain.current \subseteq InLedger
    BY DEF IdleDrain, Drains
  <2> QED
    BY <1>3, <1>20, <2>1 DEF WorkerCrash, OnRecord
<1>21. CASE UNCHANGED vars
  BY <1>5, <1>21 DEF vars
<1> QED
  BY <1>7, <1>8, <1>9, <1>10, <1>11, <1>12, <1>15, <1>16, <1>17, <1>18, <1>19, <1>20, <1>21
     DEF Next, DrainStep, RequestStep

\* Nothing moves an interaction, and nothing is marked, that the ledger does not
\* have; and the ledger has every provider event once, however often carriers
\* send it: the ledger accounts for every effect.
THEOREM EffectsOnRecord ==
  Spec => [](LedgerOnce /\ \A r \in ReceiptIds : moves[r] > 0 \/ r \in processed => r \in InLedger)
<1>1. Init => LedgerOnce /\ OnRecord
  BY DEF Init, LedgerOnce, OnRecord, IdleDrain, IdleRequest, InLedger
<1>2. IInv /\ LedgerOnce /\ OnRecord /\ [Next]_vars => LedgerOnce' /\ OnRecord'
  BY RecordStep
<1>3. OnRecord => \A r \in ReceiptIds : moves[r] > 0 \/ r \in processed => r \in InLedger
  BY DEF OnRecord
<1> QED
  BY <1>1, <1>2, <1>3, Inductive, PTL DEF Spec
=============================================================================
