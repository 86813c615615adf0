---------------------------- MODULE OutboxProofs ----------------------------
(***************************************************************************)
(* Proofs about Outbox for every set of events, workers and tokens and all *)
(* limits: IInv is inductive, so the outbox loses nothing silently and its *)
(* tokens mark exactly the rows being published; and Outbox implements     *)
(* EventDelivery.                                                          *)
(***************************************************************************)
EXTENDS Outbox, TLAPS

USE EventsAssumption, TokenAssumption, LimitsAssumption, FaultsAssumption

\* The initial tables satisfy the inductive invariant.
LEMMA InitIInv == Init => IInv
  BY DEF Init, IInv, TypeOK, TokenIffPublishing, TokensDistinct, ClaimOwnsNothingYet,
         BatchCovered, NoSilentLoss, NoPhantomEvent, ParkedOnlyWhenExhausted,
         AbsentRow, IdleProcess, Rows, Processes, Statuses, Leases, Phases, FaultKinds

\* The statements of claim, ack and releaseForRetry, column by column.
LEMMA Columns ==
  ASSUME NEW r \in Rows, NEW t \in Tokens \cup {NoToken}
  PROVE  /\ Claimed(r, t) \in Rows
         /\ Claimed(r, t).status = "publishing"
         /\ Claimed(r, t).token = t
         /\ Acked(r) \in Rows
         /\ Acked(r).status = "published"
         /\ Acked(r).token = NoToken
         /\ Released(r) \in Rows
         /\ Released(r).status \in {"pending", "failed"}
         /\ Released(r).status = "failed" => Released(r).attempts = MaxAttempts
         /\ Released(r).token = NoToken
<1>1. /\ Claimed(r, t) \in Rows
      /\ Claimed(r, t).status = "publishing"
      /\ Claimed(r, t).token = t
  BY DEF Rows, Statuses, Claimed
<1>2. /\ Acked(r) \in Rows
      /\ Acked(r).status = "published"
      /\ Acked(r).token = NoToken
  BY DEF Rows, Statuses, Acked
<1>3. /\ Released(r) \in Rows
      /\ Released(r).status \in {"pending", "failed"}
      /\ Released(r).status = "failed" => Released(r).attempts = MaxAttempts
      /\ Released(r).token = NoToken
  BY DEF Rows, Statuses, Leases, Released
<1> QED
  BY <1>1, <1>2, <1>3

\* A fault only moves its own counter.
LEMMA SpendType ==
  ASSUME spent \in [FaultKinds -> Nat], NEW f \in FaultKinds, Spend(f)
  PROVE  spent' \in [FaultKinds -> Nat]
  BY DEF Spend

\* A process that ends its tick holds nothing, and the others are untouched.
LEMMA BecomeIdle ==
  ASSUME TypeOK, NEW w \in Workers, worker' = [worker EXCEPT ![w] = IdleProcess]
  PROVE  /\ worker' \in [Workers -> Processes]
         /\ worker'[w].phase = "idle"
         /\ worker'[w].token = NoToken
         /\ \A v \in Workers : v # w => worker'[v] = worker[v]
  BY DEF TypeOK, Processes, Phases, IdleProcess

\* What a committed claim does to the table.
LEMMA ClaimEffect ==
  ASSUME TypeOK, NEW w \in Workers, ClaimRows(w)
  PROVE  /\ row' \in [Events -> Rows]
         /\ \A e \in Events : e \in worker[w].todo =>
               row'[e].status = "publishing" /\ row'[e].token = worker[w].token
         /\ \A e \in Events : e \notin worker[w].todo => row'[e] = row[e]
<1>1. worker[w].token \in Tokens \cup {NoToken}
  BY DEF TypeOK, Processes
<1> QED
  BY <1>1, Columns DEF ClaimRows, TypeOK

\* What an ack does to the table.
LEMMA AckEffect ==
  ASSUME TypeOK, NEW w \in Workers, AckRows(w)
  PROVE  /\ row' \in [Events -> Rows]
         /\ \A e \in Events : row[e].token = worker[w].token =>
               row'[e].status = "published" /\ row'[e].token = NoToken
         /\ \A e \in Events : row[e].token # worker[w].token => row'[e] = row[e]
  BY Columns DEF AckRows, TypeOK

\* What a release does to the table.
LEMMA ReleaseEffect ==
  ASSUME TypeOK, NEW w \in Workers, ReleaseRows(w)
  PROVE  /\ row' \in [Events -> Rows]
         /\ \A e \in Events : row[e].token = worker[w].token =>
               /\ row'[e].status \in {"pending", "failed"}
               /\ row'[e].status = "failed" => row'[e].attempts = MaxAttempts
               /\ row'[e].token = NoToken
         /\ \A e \in Events : row[e].token # worker[w].token => row'[e] = row[e]
  BY Columns DEF ReleaseRows, TypeOK

\* The parts of IInv that speak of the table and the bus only, and the others.
RowInv == TokenIffPublishing /\ NoSilentLoss /\ NoPhantomEvent /\ ParkedOnlyWhenExhausted
ProcessInv == TokensDistinct /\ ClaimOwnsNothingYet /\ BatchCovered

\* A process may end its tick as long as no row comes to carry another one's token.
LEMMA EndOfTick ==
  ASSUME IInv, NEW w \in Workers, worker' = [worker EXCEPT ![w] = IdleProcess], bus' = bus,
         \A v \in Workers, e \in Events :
            v # w /\ worker[v].phase # "idle" /\ row'[e].token = worker[v].token
            => row[e].token = worker[v].token,
         \A e \in Events : row[e].status # "absent" => row'[e].status # "absent"
  PROVE  ProcessInv'
<1>1. TokensDistinct'
  BY BecomeIdle DEF IInv, TokensDistinct
<1>2. ASSUME NEW v \in Workers, worker'[v].phase # "idle"
      PROVE  v # w /\ worker'[v] = worker[v] /\ worker[v].todo \subseteq Events
  BY <1>2, BecomeIdle DEF IInv, TypeOK, Processes
<1>3. ClaimOwnsNothingYet'
  <2> SUFFICES ASSUME NEW v \in Workers, worker'[v].phase = "claiming"
               PROVE  /\ \A e \in Events : row'[e].token # worker'[v].token
                      /\ \A e \in worker'[v].todo : row'[e].status # "absent"
    BY DEF ClaimOwnsNothingYet
  <2> QED
    BY <1>2, ZenonT(60) DEF IInv, ClaimOwnsNothingYet
<1>4. BatchCovered'
  <2> SUFFICES ASSUME NEW v \in Workers, worker'[v].phase \in {"publishing", "releasing"}
               PROVE  /\ \A e \in Events : row'[e].token = worker'[v].token =>
                                              e \in bus' \cup worker'[v].todo
                      /\ \A e \in worker'[v].todo : row'[e].status # "absent"
    BY DEF BatchCovered
  <2> QED
    BY <1>2 DEF IInv, BatchCovered
<1> QED
  BY <1>1, <1>3, <1>4 DEF ProcessInv

\* The claim's UPDATE keeps the table's part of the invariant.
LEMMA ClaimKeepsRowInv ==
  ASSUME IInv, NEW w \in Workers, worker[w].phase = "claiming", ClaimRows(w), bus' = bus
  PROVE  RowInv'
  BY ClaimEffect DEF IInv, RowInv, TokenIffPublishing, NoSilentLoss, NoPhantomEvent,
     ParkedOnlyWhenExhausted, TokensDistinct, TypeOK

\* The same when only the processes change.
LEMMA RowInvUnchanged ==
  ASSUME IInv, row' = row, bus' = bus
  PROVE  RowInv'
  BY DEF IInv, RowInv, TokenIffPublishing, NoSilentLoss, NoPhantomEvent,
     ParkedOnlyWhenExhausted

\* A failed claim, committed or not, and a crash.
LEMMA ClaimThenIdle ==
  ASSUME IInv, NEW w \in Workers, worker' = [worker EXCEPT ![w] = IdleProcess],
         (worker[w].phase = "claiming" /\ ClaimRows(w)) \/ row' = row,
         bus' = bus, spent' \in [FaultKinds -> Nat]
  PROVE  IInv'
<1>1. TypeOK'
  BY ClaimEffect, BecomeIdle DEF IInv, TypeOK
<1>2. RowInv'
  BY ClaimKeepsRowInv, RowInvUnchanged
<1>3. ProcessInv'
  <2>1. \A v \in Workers, e \in Events :
           v # w /\ worker[v].phase # "idle" /\ row'[e].token = worker[v].token
           => row[e].token = worker[v].token
    BY ClaimEffect DEF IInv, TokensDistinct
  <2>2. \A e \in Events : row[e].status # "absent" => row'[e].status # "absent"
    BY ClaimEffect DEF IInv
  <2> QED
    BY <2>1, <2>2, EndOfTick
<1> QED
  BY <1>1, <1>2, <1>3 DEF IInv, RowInv, ProcessInv

\* An ack, answered or not, after the whole batch was published.
LEMMA AckThenIdle ==
  ASSUME IInv, NEW w \in Workers, worker' = [worker EXCEPT ![w] = IdleProcess],
         ReadyToAck(w), AckRows(w), bus' = bus, spent' \in [FaultKinds -> Nat]
  PROVE  IInv'
<1>1. TypeOK'
  BY AckEffect, BecomeIdle DEF IInv, TypeOK
<1>2. worker[w].token # NoToken
  BY DEF IInv, TokensDistinct, ReadyToAck
<1>3. \A e \in Events : row[e].token = worker[w].token => e \in bus
  BY DEF IInv, BatchCovered, ReadyToAck
<1>4. RowInv'
  BY <1>2, <1>3, AckEffect DEF IInv, RowInv, TokenIffPublishing, NoSilentLoss,
     NoPhantomEvent, ParkedOnlyWhenExhausted, TypeOK
<1>5. ProcessInv'
  <2>1. \A v \in Workers, e \in Events :
           v # w /\ worker[v].phase # "idle" /\ row'[e].token = worker[v].token
           => row[e].token = worker[v].token
    BY AckEffect DEF IInv, TokensDistinct
  <2>2. \A e \in Events : row[e].status # "absent" => row'[e].status # "absent"
    BY AckEffect DEF IInv
  <2> QED
    BY <2>1, <2>2, EndOfTick
<1> QED
  BY <1>1, <1>4, <1>5 DEF IInv, RowInv, ProcessInv

\* A release, answered or not, after a bus error.
LEMMA ReleaseThenIdle ==
  ASSUME IInv, NEW w \in Workers, worker' = [worker EXCEPT ![w] = IdleProcess],
         worker[w].phase = "releasing", ReleaseRows(w), bus' = bus,
         spent' \in [FaultKinds -> Nat]
  PROVE  IInv'
<1>1. TypeOK'
  BY ReleaseEffect, BecomeIdle DEF IInv, TypeOK
<1>2. worker[w].token # NoToken
  BY DEF IInv, TokensDistinct
<1>3. RowInv'
  BY <1>2, ReleaseEffect DEF IInv, RowInv, TokenIffPublishing, NoSilentLoss,
     NoPhantomEvent, ParkedOnlyWhenExhausted, TypeOK
<1>4. ProcessInv'
  <2>1. \A v \in Workers, e \in Events :
           v # w /\ worker[v].phase # "idle" /\ row'[e].token = worker[v].token
           => row[e].token = worker[v].token
    BY ReleaseEffect DEF IInv, TokensDistinct
  <2>2. \A e \in Events : row[e].status # "absent" => row'[e].status # "absent"
    BY ReleaseEffect DEF IInv
  <2> QED
    BY <2>1, <2>2, EndOfTick
<1> QED
  BY <1>1, <1>3, <1>4 DEF IInv, RowInv, ProcessInv

\* Writer.Insert and the passing of a lease leave tokens and processes alone.
LEMMA QuietRowStep ==
  ASSUME IInv, NEW e \in Events, Insert(e) \/ LeaseExpires(e)
  PROVE  IInv'
<1>1. /\ row' \in [Events -> Rows]
      /\ \A f \in Events :
            /\ row'[f].token = row[f].token
            /\ row'[f].attempts = row[f].attempts
            /\ \/ row'[f].status = row[f].status
               \/ row[f].status = "absent" /\ row'[f].status = "pending"
  <2>0. row \in [Events -> Rows] /\ row[e] \in Rows
    BY DEF IInv, TypeOK
  <2>1. CASE Insert(e)
    <3>1. PICK r \in Rows : /\ row' = [row EXCEPT ![e] = r]
                            /\ r.token = row[e].token /\ r.attempts = row[e].attempts
                            /\ r.status = "pending"
      <4>1. [row[e] EXCEPT !.status = "pending"] \in Rows
        BY <2>0 DEF Rows, Statuses
      <4> QED
        BY <4>1, <2>0, <2>1 DEF Insert, Rows
    <3> QED
      BY <2>0, <2>1, <3>1 DEF Insert
  <2>2. CASE LeaseExpires(e)
    <3>1. PICK r \in Rows : /\ row' = [row EXCEPT ![e] = r]
                            /\ r.token = row[e].token /\ r.attempts = row[e].attempts
                            /\ r.status = row[e].status
      <4>1. [row[e] EXCEPT !.lease = "past"] \in Rows
        BY <2>0 DEF Rows, Leases
      <4> QED
        BY <4>1, <2>0, <2>2 DEF LeaseExpires, Rows
    <3> QED
      BY <2>0, <2>2, <3>1
  <2> QED
    BY <2>1, <2>2
<1>2. UNCHANGED <<worker, bus, spent>>
  BY DEF Insert, LeaseExpires
<1>3. TypeOK'
  BY <1>1, <1>2 DEF IInv, TypeOK
<1>4. RowInv'
  BY <1>1, <1>2 DEF IInv, TypeOK, RowInv, TokenIffPublishing, NoSilentLoss, NoPhantomEvent,
     ParkedOnlyWhenExhausted
<1>5. ProcessInv'
  <2>1. \A w \in Workers : worker[w].todo \subseteq Events
    BY DEF IInv, TypeOK, Processes
  <2>2. TokensDistinct'
    BY <1>2 DEF IInv, TokensDistinct
  <2>3. ClaimOwnsNothingYet'
    <3>1. ClaimOwnsNothingYet
      BY DEF IInv
    <3>2. \A f \in Events : /\ row'[f].token = row[f].token
                            /\ row[f].status # "absent" => row'[f].status # "absent"
      BY <1>1
    <3>3. worker' = worker
      BY <1>2
    <3> QED
      BY <2>1, <3>1, <3>2, <3>3 DEF ClaimOwnsNothingYet
  <2>4. BatchCovered'
    <3>1. \A f \in Events : /\ row'[f].token = row[f].token
                            /\ row[f].status # "absent" => row'[f].status # "absent"
      BY <1>1
    <3> QED
      BY <2>1, <3>1, <1>2 DEF IInv, BatchCovered
  <2> QED
    BY <2>2, <2>3, <2>4 DEF ProcessInv
<1> QED
  BY <1>3, <1>4, <1>5 DEF IInv, RowInv, ProcessInv

\* The sub-select takes recorded rows only, and its token is nobody's.
LEMMA ClaimSelectStep ==
  ASSUME IInv, NEW w \in Workers, ClaimSelect(w)
  PROVE  IInv'
<1>1. PICK t \in FreshTokens :
         worker' = [worker EXCEPT ![w] = [phase |-> "claiming", token |-> t, todo |-> Selected]]
  BY DEF ClaimSelect
<1>2. /\ t \in Tokens /\ t # NoToken
      /\ \A e \in Events : row[e].token # t
      /\ \A v \in Workers : worker[v].token # t
  BY DEF FreshTokens
<1>3. Selected \subseteq Events /\ \A e \in Selected : row[e].status # "absent"
  BY DEF Selected, Claimable
<1>4. UNCHANGED <<row, bus, spent>>
  BY DEF ClaimSelect
<1>5. /\ worker' \in [Workers -> Processes]
      /\ worker'[w] = [phase |-> "claiming", token |-> t, todo |-> Selected]
      /\ \A v \in Workers : v # w => worker'[v] = worker[v]
  BY <1>1, <1>2, <1>3 DEF IInv, TypeOK, Processes, Phases
<1>6. TypeOK'
  BY <1>4, <1>5 DEF IInv, TypeOK
<1>7. TokensDistinct'
  BY <1>2, <1>5 DEF IInv, TokensDistinct
<1>8. ClaimOwnsNothingYet'
  BY <1>2, <1>3, <1>4, <1>5 DEF IInv, ClaimOwnsNothingYet
<1>9. BatchCovered'
  BY <1>4, <1>5 DEF IInv, BatchCovered
<1> QED
  BY <1>4, <1>6, <1>7, <1>8, <1>9, RowInvUnchanged DEF IInv, RowInv

\* The committed claim: its rows carry a token that no other row had.
LEMMA ClaimCommitStep ==
  ASSUME IInv, NEW w \in Workers, ClaimCommit(w)
  PROVE  IInv'
<1>1. /\ worker[w].phase = "claiming" /\ ClaimRows(w)
      /\ UNCHANGED <<bus, spent>>
  BY DEF ClaimCommit
<1>2. /\ worker' \in [Workers -> Processes]
      /\ worker'[w].phase = "publishing"
      /\ worker'[w].token = worker[w].token
      /\ worker'[w].todo = worker[w].todo
      /\ \A v \in Workers : v # w => worker'[v] = worker[v]
      /\ \A v \in Workers : worker[v].todo \subseteq Events
  BY DEF ClaimCommit, IInv, TypeOK, Processes, Phases
<1>3. TypeOK'
  BY <1>1, <1>2, ClaimEffect DEF IInv, TypeOK
<1>4. RowInv'
  BY <1>1, ClaimKeepsRowInv
<1>5. TokensDistinct'
  BY <1>1, <1>2 DEF IInv, TokensDistinct
<1>6. \A v \in Workers, e \in Events :
         v # w /\ worker[v].phase # "idle" /\ row'[e].token = worker[v].token
         => row[e].token = worker[v].token
  BY <1>1, ClaimEffect DEF IInv, TokensDistinct
<1>7. \A e \in Events : row[e].status # "absent" => row'[e].status # "absent"
  BY <1>1, ClaimEffect DEF IInv
<1>8. ClaimOwnsNothingYet'
  <2> SUFFICES ASSUME NEW v \in Workers, worker'[v].phase = "claiming"
               PROVE  /\ \A e \in Events : row'[e].token # worker'[v].token
                      /\ \A e \in worker'[v].todo : row'[e].status # "absent"
    BY DEF ClaimOwnsNothingYet
  <2>1. ClaimOwnsNothingYet
    BY DEF IInv
  <2>2. v # w /\ worker'[v] = worker[v] /\ worker[v].phase = "claiming"
        /\ worker[v].todo \subseteq Events
    BY <1>2
  <2> QED
    BY <2>1, <2>2, <1>6, <1>7 DEF ClaimOwnsNothingYet
<1>9. BatchCovered'
  <2> SUFFICES ASSUME NEW v \in Workers, worker'[v].phase \in {"publishing", "releasing"}
               PROVE  /\ \A e \in Events : row'[e].token = worker'[v].token =>
                                              e \in bus' \cup worker'[v].todo
                      /\ \A e \in worker'[v].todo : row'[e].status # "absent"
    BY DEF BatchCovered
  <2>1. CASE v # w
    <3>1. BatchCovered
      BY DEF IInv
    <3>2. worker'[v] = worker[v] /\ worker[v].todo \subseteq Events
      BY <2>1, <1>2
    <3>3. \A e \in Events : row'[e].token = worker[v].token => row[e].token = worker[v].token
      BY <2>1, <3>2, <1>6
    <3> QED
      BY <3>1, <3>2, <3>3, <1>1, <1>7 DEF BatchCovered
  <2>2. CASE v = w
    <3>1. ClaimOwnsNothingYet
      BY DEF IInv
    <3>2. worker'[v].todo = worker[w].todo /\ worker'[v].token = worker[w].token
          /\ worker[w].todo \subseteq Events
      BY <2>2, <1>2
    <3>3. \A e \in Events : e \notin worker[w].todo => row'[e].token = row[e].token
      BY <1>1, ClaimEffect DEF IInv
    <3> QED
      BY <3>1, <3>2, <3>3, <1>1, <1>7 DEF ClaimOwnsNothingYet
  <2> QED
    BY <2>1, <2>2
<1> QED
  BY <1>3, <1>4, <1>5, <1>8, <1>9 DEF IInv, RowInv

\* Handing one row to the bus moves it from the list to the bus.
LEMMA PublishRowStep ==
  ASSUME IInv, NEW w \in Workers, NEW e \in Events, PublishRow(w, e)
  PROVE  IInv'
<1>1. /\ worker[w].phase = "publishing" /\ e \in worker[w].todo
      /\ bus' = bus \cup {e} /\ UNCHANGED <<row, spent>>
  BY DEF PublishRow
<1>2. /\ worker' \in [Workers -> Processes]
      /\ \A v \in Workers :
            /\ worker'[v].phase = worker[v].phase
            /\ worker'[v].token = worker[v].token
            /\ worker'[v].todo \subseteq worker[v].todo
            /\ worker[v].todo \subseteq worker'[v].todo \cup {e}
  BY DEF PublishRow, IInv, TypeOK, Processes
<1>3. TypeOK'
  BY <1>1, <1>2 DEF IInv, TypeOK
<1>4. RowInv'
  BY <1>1 DEF IInv, RowInv, TokenIffPublishing, NoSilentLoss, NoPhantomEvent,
     ParkedOnlyWhenExhausted, BatchCovered
<1>5. TokensDistinct'
  BY <1>2 DEF IInv, TokensDistinct
<1>6. ClaimOwnsNothingYet'
  BY <1>1, <1>2 DEF IInv, ClaimOwnsNothingYet
<1>7. BatchCovered'
  BY <1>1, <1>2 DEF IInv, BatchCovered
<1> QED
  BY <1>3, <1>4, <1>5, <1>6, <1>7 DEF IInv, RowInv

\* A bus error keeps the list and the token for releaseForRetry.
LEMMA PublishErrorStep ==
  ASSUME IInv, NEW w \in Workers, PublishError(w)
  PROVE  IInv'
<1>1. worker[w].phase = "publishing" /\ UNCHANGED <<row, bus>>
  BY DEF PublishError
<1>2. /\ worker' \in [Workers -> Processes]
      /\ \A v \in Workers :
            /\ worker'[v].phase = IF v = w THEN "releasing" ELSE worker[v].phase
            /\ worker'[v].token = worker[v].token
            /\ worker'[v].todo = worker[v].todo
  BY DEF PublishError, IInv, TypeOK, Processes, Phases
<1>3. TypeOK'
  <2>1. spent' \in [FaultKinds -> Nat]
    BY SpendType DEF PublishError, IInv, TypeOK, FaultKinds
  <2> QED
    BY <2>1, <1>1, <1>2 DEF IInv, TypeOK
<1>4. RowInv'
  BY <1>1, RowInvUnchanged
<1>5. TokensDistinct'
  BY <1>1, <1>2 DEF IInv, TokensDistinct
<1>6. ClaimOwnsNothingYet'
  BY <1>1, <1>2 DEF IInv, ClaimOwnsNothingYet
<1>7. BatchCovered'
  BY <1>1, <1>2 DEF IInv, BatchCovered
<1> QED
  BY <1>3, <1>4, <1>5, <1>6, <1>7 DEF IInv, RowInv

\* IInv is inductive: one case per action of the dispatchers, the writers and
\* the environment.
LEMMA StepIInv == IInv /\ [Next]_vars => IInv'
<1> SUFFICES ASSUME IInv, [Next]_vars PROVE IInv'
  OBVIOUS
<1>1. CASE UNCHANGED vars
  BY <1>1 DEF vars, IInv, TypeOK, TokenIffPublishing, TokensDistinct, ClaimOwnsNothingYet,
     BatchCovered, NoSilentLoss, NoPhantomEvent, ParkedOnlyWhenExhausted
<1>2. ASSUME NEW e \in Events, Insert(e) \/ LeaseExpires(e) PROVE IInv'
  BY <1>2, QuietRowStep
<1>3. ASSUME NEW w \in Workers, Tick(w) PROVE IInv'
  <2>1. spent \in [FaultKinds -> Nat]
    BY DEF IInv, TypeOK
  <2>2. CASE ClaimSelect(w) \/ ClaimCommit(w) \/ \E e \in Events : PublishRow(w, e)
    BY <2>2, ClaimSelectStep, ClaimCommitStep, PublishRowStep
  <2>3. CASE Ack(w)
    BY <2>1, <2>3, AckThenIdle DEF Ack
  <2>4. CASE ReleaseForRetry(w)
    BY <2>1, <2>4, ReleaseThenIdle DEF ReleaseForRetry
  <2> QED
    BY <1>3, <2>2, <2>3, <2>4 DEF Tick
<1>4. ASSUME NEW w \in Workers, Fault(w) PROVE IInv'
  <2>1. ASSUME NEW f \in FaultKinds, Spend(f) PROVE spent' \in [FaultKinds -> Nat]
    BY <2>1, SpendType DEF IInv, TypeOK
  <2>2. CASE ClaimError(w)
    BY <2>1, <2>2, ClaimThenIdle DEF ClaimError, FaultKinds
  <2>3. CASE PublishError(w)
    BY <2>3, PublishErrorStep
  <2>4. CASE AckError(w)
    BY <2>1, <2>4, AckThenIdle, ClaimThenIdle DEF AckError, FaultKinds
  <2>5. CASE ReleaseError(w)
    BY <2>1, <2>5, ReleaseThenIdle, ClaimThenIdle DEF ReleaseError, FaultKinds
  <2>6. CASE Crash(w)
    BY <2>1, <2>6, ClaimThenIdle DEF Crash, FaultKinds
  <2> QED
    BY <1>4, <2>2, <2>3, <2>4, <2>5, <2>6 DEF Fault
<1> QED
  BY <1>1, <1>2, <1>3, <1>4 DEF Next

\* IInv holds in every reachable state.
THEOREM Inductive == Spec => []IInv
  BY InitIInv, StepIInv, PTL DEF Spec

\* Types: what the tables and the processes hold.
THEOREM TypeCorrect == Spec => []TypeOK
<1>1. IInv => TypeOK
  BY DEF IInv
<1> QED
  BY <1>1, Inductive, PTL

\* No event is marked 'published' that the bus did not accept, for any number of
\* dispatchers, crashes, bus errors and database errors.
THEOREM NothingLostSilently == Spec => []NoSilentLoss
<1>1. IInv => NoSilentLoss
  BY DEF IInv
<1> QED
  BY <1>1, Inductive, PTL

\* A lease token marks exactly the rows being published.
THEOREM TokensMarkPublishing == Spec => []TokenIffPublishing
<1>1. IInv => TokenIffPublishing
  BY DEF IInv
<1> QED
  BY <1>1, Inductive, PTL

\* A row is parked as 'failed' only when its attempts are used up.
THEOREM ParkingIsExhaustion == Spec => []ParkedOnlyWhenExhausted
<1>1. IInv => ParkedOnlyWhenExhausted
  BY DEF IInv
<1> QED
  BY <1>1, Inductive, PTL

-----------------------------------------------------------------------------
(* Outbox implements EventDelivery.                                        *)

\* A step that moves no status and delivers nothing is a stuttering step.
LEMMA Stutter ==
  ASSUME \A e \in Events : row'[e].status = row[e].status, bus' = bus
  PROVE  UNCHANGED Delivery!vars
  BY DEF Delivery!vars, Recorded, Settled, Parked

\* A committed claim reopens the closed events of its stale snapshot, if any.
LEMMA ClaimRefines ==
  ASSUME IInv, NEW w \in Workers, worker[w].phase = "claiming", ClaimRows(w), bus' = bus
  PROVE  Delivery!Next \/ UNCHANGED Delivery!vars
<1> DEFINE S == {e \in worker[w].todo : row[e].status \in {"published", "failed"}}
<1>1. worker[w].todo \subseteq Events
  BY DEF IInv, TypeOK, Processes
<1>2. Recorded' = Recorded
  BY ClaimEffect, <1>1, ZenonT(60) DEF IInv, ClaimOwnsNothingYet, Recorded
<1>3. Settled' = Settled \ S /\ Parked' = Parked \ S
  BY ClaimEffect, <1>1 DEF IInv, Settled, Parked
<1>4. S \subseteq Delivery!Closed /\ S \in SUBSET Events
  BY <1>1 DEF Delivery!Closed, Settled, Parked
<1>5. CASE S = {}
  BY <1>2, <1>3, <1>5 DEF Delivery!vars
<1>6. CASE S # {}
  <2>1. Delivery!Reopen(S)
    BY <1>2, <1>3, <1>4, <1>6 DEF Delivery!Reopen
  <2> QED
    BY <2>1, <1>4 DEF Delivery!Next
<1> QED
  BY <1>5, <1>6

\* An ack settles delivered events that were not closed.
LEMMA AckRefines ==
  ASSUME IInv, NEW w \in Workers, ReadyToAck(w), AckRows(w), bus' = bus
  PROVE  Delivery!NextFinal \/ UNCHANGED Delivery!vars
<1> DEFINE S == {e \in Events : row[e].token = worker[w].token}
<1>1. worker[w].token # NoToken
  BY DEF IInv, TokensDistinct, ReadyToAck
<1>2. \A e \in S : row[e].status = "publishing" /\ e \in bus
  BY <1>1 DEF IInv, TokenIffPublishing, BatchCovered, ReadyToAck
<1>3. Recorded' = Recorded /\ Parked' = Parked /\ Settled' = Settled \cup S
  BY AckEffect, <1>2, ZenonT(60) DEF IInv, Recorded, Parked, Settled
<1>4. S \subseteq bus \ Delivery!Closed
  BY <1>2 DEF Delivery!Closed, Settled, Parked
<1>5. CASE S = {}
  BY <1>3, <1>5 DEF Delivery!vars
<1>6. CASE S # {}
  <2>1. Delivery!Settle(S)
    BY <1>3, <1>4, <1>6 DEF Delivery!Settle
  <2> QED
    BY <2>1 DEF Delivery!NextFinal
<1> QED
  BY <1>5, <1>6

\* A release parks the events whose attempts are used up.
LEMMA ReleaseRefines ==
  ASSUME IInv, NEW w \in Workers, worker[w].phase = "releasing", ReleaseRows(w), bus' = bus
  PROVE  Delivery!NextFinal \/ UNCHANGED Delivery!vars
<1> DEFINE S == {e \in Events : row[e].token = worker[w].token /\ row'[e].status = "failed"}
<1>1. worker[w].token # NoToken
  BY DEF IInv, TokensDistinct
<1>2. \A e \in Events : row[e].token = worker[w].token => row[e].status = "publishing"
  BY <1>1 DEF IInv, TokenIffPublishing
<1>3. Recorded' = Recorded /\ Settled' = Settled /\ Parked' = Parked \cup S
  BY ReleaseEffect, <1>2, ZenonT(60) DEF IInv, Recorded, Parked, Settled
<1>4. S \subseteq Recorded \ Delivery!Closed
  BY <1>2 DEF Delivery!Closed, Settled, Parked, Recorded
<1>5. CASE S = {}
  BY <1>3, <1>5 DEF Delivery!vars
<1>6. CASE S # {}
  <2>1. Delivery!Park(S)
    BY <1>3, <1>4, <1>6 DEF Delivery!Park
  <2> QED
    BY <2>1 DEF Delivery!NextFinal
<1> QED
  BY <1>5, <1>6

\* Writer.Insert records the event.
LEMMA InsertRefines ==
  ASSUME IInv, NEW e \in Events, Insert(e)
  PROVE  Delivery!NextFinal
<1>1. \A f \in Events : row'[f].status = IF f = e THEN "pending" ELSE row[f].status
  BY DEF Insert, IInv, TypeOK, Rows
<1>2. /\ e \notin Recorded /\ Recorded' = Recorded \cup {e}
      /\ Settled' = Settled /\ Parked' = Parked /\ bus' = bus
  BY <1>1 DEF Insert, Recorded, Settled, Parked
<1>3. Delivery!Record(e)
  BY <1>2 DEF Delivery!Record
<1> QED
  BY <1>3 DEF Delivery!NextFinal

\* Handing a row to the bus delivers it, once or again.
LEMMA PublishRefines ==
  ASSUME IInv, NEW w \in Workers, NEW e \in Events, PublishRow(w, e)
  PROVE  Delivery!NextFinal \/ UNCHANGED Delivery!vars
<1>1. row' = row /\ bus' = bus \cup {e} /\ e \in Recorded
  BY DEF PublishRow, IInv, BatchCovered, Recorded
<1>2. Recorded' = Recorded /\ Settled' = Settled /\ Parked' = Parked
  BY <1>1 DEF Recorded, Settled, Parked
<1>3. CASE e \in bus
  BY <1>1, <1>2, <1>3 DEF Delivery!vars
<1>4. CASE e \notin bus
  <2>1. Delivery!Deliver(e)
    BY <1>1, <1>2, <1>4 DEF Delivery!Deliver
  <2> QED
    BY <2>1 DEF Delivery!NextFinal
<1> QED
  BY <1>3, <1>4

\* Every step of the dispatchers is a step of the promise or changes nothing it
\* speaks of.
LEMMA StepRefines == IInv /\ [Next]_vars => [Delivery!Next]_Delivery!vars
<1> SUFFICES ASSUME IInv, [Next]_vars
             PROVE  Delivery!Next \/ UNCHANGED Delivery!vars
  OBVIOUS
<1>0. Delivery!NextFinal => Delivery!Next
  BY DEF Delivery!Next
<1>1. CASE row' = row /\ bus' = bus
  BY <1>1, Stutter
<1>2. ASSUME NEW e \in Events, Insert(e)
      PROVE  Delivery!Next
  BY <1>0, <1>2, InsertRefines
<1>3. ASSUME NEW e \in Events, LeaseExpires(e)
      PROVE  UNCHANGED Delivery!vars
  <2>1. \A f \in Events : row'[f].status = row[f].status
    BY <1>3 DEF LeaseExpires, IInv, TypeOK, Rows
  <2> QED
    BY <2>1, <1>3, Stutter DEF LeaseExpires
<1>4. ASSUME NEW w \in Workers, Tick(w)
      PROVE  Delivery!Next \/ UNCHANGED Delivery!vars
  <2>1. CASE ClaimSelect(w)
    BY <2>1, <1>1 DEF ClaimSelect
  <2>2. CASE ClaimCommit(w)
    BY <2>2, ClaimRefines DEF ClaimCommit
  <2>3. CASE \E e \in Events : PublishRow(w, e)
    BY <1>0, <2>3, PublishRefines
  <2>4. CASE Ack(w)
    BY <1>0, <2>4, AckRefines DEF Ack
  <2>5. CASE ReleaseForRetry(w)
    BY <1>0, <2>5, ReleaseRefines DEF ReleaseForRetry
  <2> QED
    BY <1>4, <2>1, <2>2, <2>3, <2>4, <2>5 DEF Tick
<1>5. ASSUME NEW w \in Workers, Fault(w)
      PROVE  Delivery!Next \/ UNCHANGED Delivery!vars
  <2>1. CASE ClaimError(w)
    BY <2>1, <1>1, ClaimRefines DEF ClaimError
  <2>2. CASE PublishError(w) \/ Crash(w)
    BY <2>2, <1>1 DEF PublishError, Crash
  <2>3. CASE AckError(w)
    BY <1>0, <1>1, <2>3, AckRefines DEF AckError
  <2>4. CASE ReleaseError(w)
    BY <1>0, <1>1, <2>4, ReleaseRefines DEF ReleaseError
  <2> QED
    BY <1>5, <2>1, <2>2, <2>3, <2>4 DEF Fault
<1> QED
  BY <1>1, <1>2, <1>3, <1>4, <1>5 DEF Next, vars

\* The dispatcher implements the outbox's promise: whatever the workers, faults
\* and interleavings, events are recorded, delivered, settled after delivery,
\* parked or reopened, and nothing else happens to them.
THEOREM Refinement == Spec => ImplementsDelivery
<1>1. Init => Delivery!Init
  BY DEF Init, Delivery!Init, Recorded, Settled, Parked, AbsentRow
<1> QED
  BY <1>1, StepRefines, Inductive, PTL DEF Spec, ImplementsDelivery, Delivery!Spec

-----------------------------------------------------------------------------
(* No row is orphaned without a fault.                                     *)

\* Every row being published belongs to a process that is at work on it.
RowsHeld ==
    NoCrashNoDBFault =>
        \A e \in Events : row[e].status = "publishing" =>
            \E w \in Workers : worker[w].token = row[e].token

\* A fault stays on the books.
LEMMA FaultsStay ==
  ASSUME TypeOK, spent' = spent \/ \E f \in FaultKinds : Spend(f)
  PROVE  NoCrashNoDBFault' => NoCrashNoDBFault
<1>1. spent["crash"] \in Nat /\ spent["db"] \in Nat
  BY DEF TypeOK, FaultKinds
<1>2. ASSUME NEW f \in FaultKinds, Spend(f) PROVE NoCrashNoDBFault' => NoCrashNoDBFault
  BY <1>1, <1>2 DEF Spend, TypeOK, FaultKinds, NoCrashNoDBFault
<1> QED
  BY <1>2 DEF NoCrashNoDBFault

\* A crash or a failed database call is on the books once it happened.
LEMMA FaultNoted ==
  ASSUME TypeOK, NEW f \in {"crash", "db"}, Spend(f)
  PROVE  ~NoCrashNoDBFault'
<1>1. f \in FaultKinds /\ spent[f] \in Nat
  BY DEF TypeOK, FaultKinds
<1>2. spent'[f] = spent[f] + 1
  BY <1>1 DEF Spend, TypeOK
<1> QED
  BY <1>1, <1>2 DEF NoCrashNoDBFault

\* Rows that keep their token keep their process, when no other process than an
\* idle one or the one that closes its batch moves its token.
LEMMA HeldKept ==
  ASSUME IInv, RowsHeld, NoCrashNoDBFault' => NoCrashNoDBFault, NEW w \in Workers,
         \A v \in Workers : v # w => worker'[v].token = worker[v].token,
         \A e \in Events : row'[e].status = "publishing" =>
            \/ row'[e].token = worker'[w].token
            \/ row[e].status = "publishing" /\ row'[e].token = row[e].token /\ row[e].token # worker[w].token
  PROVE  RowsHeld'
  BY DEF RowsHeld

LEMMA ClosedBatchHeld ==
  ASSUME IInv, RowsHeld, NEW w \in Workers, AckRows(w) \/ ReleaseRows(w), spent' = spent,
         worker' = [worker EXCEPT ![w] = IdleProcess]
  PROVE  RowsHeld'
<1>1. \A v \in Workers : v # w => worker'[v].token = worker[v].token
  BY BecomeIdle DEF IInv
<1>2. \A e \in Events :
         /\ row[e].token = worker[w].token => row'[e].status # "publishing"
         /\ row[e].token # worker[w].token => row'[e] = row[e]
  BY AckEffect, ReleaseEffect DEF IInv
<1>3. NoCrashNoDBFault' => NoCrashNoDBFault
  BY DEF NoCrashNoDBFault
<1> QED
  BY <1>1, <1>2, <1>3, HeldKept

LEMMA StepHeld == IInv /\ RowsHeld /\ [Next]_vars => RowsHeld'
<1> SUFFICES ASSUME IInv, RowsHeld, [Next]_vars PROVE RowsHeld'
  OBVIOUS
<1>t. TypeOK
  BY DEF IInv
<1>0. CASE UNCHANGED vars
  BY <1>0 DEF vars, RowsHeld, NoCrashNoDBFault
<1>1. ASSUME NEW e \in Events, Insert(e) \/ LeaseExpires(e) PROVE RowsHeld'
  <2>1. /\ UNCHANGED <<worker, spent>>
        /\ \A f \in Events : row'[f].status = "publishing" =>
              row[f].status = "publishing" /\ row'[f].token = row[f].token
    BY <1>t, <1>1 DEF Insert, LeaseExpires, TypeOK, Rows
  <2> QED
    BY <2>1 DEF RowsHeld, NoCrashNoDBFault
<1>2. ASSUME NEW w \in Workers, ClaimSelect(w) PROVE RowsHeld'
  <2>1. PICK t \in FreshTokens :
           worker' = [worker EXCEPT ![w] = [phase |-> "claiming", token |-> t, todo |-> Selected]]
    BY <1>2 DEF ClaimSelect
  <2>2. \A v \in Workers : v # w => worker'[v] = worker[v]
    BY <1>t, <2>1 DEF TypeOK
  <2>3. worker[w].token = NoToken /\ UNCHANGED <<row, spent>>
    BY <1>2 DEF ClaimSelect, IInv, TokensDistinct
  <2>4. \A e \in Events : row[e].status = "publishing" => row[e].token # worker[w].token
    BY <2>3 DEF IInv, TokenIffPublishing
  <2> QED
    BY <2>2, <2>3, <2>4, HeldKept DEF NoCrashNoDBFault
<1>3. ASSUME NEW w \in Workers, ClaimCommit(w) PROVE RowsHeld'
  <2>1. /\ ClaimRows(w) /\ spent' = spent
        /\ \A v \in Workers : worker'[v].token = worker[v].token
    BY <1>t, <1>3 DEF ClaimCommit, TypeOK, Processes
  <2>2. \A e \in Events : /\ e \in worker[w].todo => row'[e].token = worker'[w].token
                          /\ e \notin worker[w].todo => row'[e] = row[e]
    BY <1>t, <2>1, ClaimEffect
  <2> QED
    BY <2>1, <2>2 DEF RowsHeld, NoCrashNoDBFault
<1>4. ASSUME NEW w \in Workers, (\E e \in Events : PublishRow(w, e)) \/ PublishError(w) PROVE RowsHeld'
  <2>1. row' = row /\ \A v \in Workers : worker'[v].token = worker[v].token
    BY <1>t, <1>4 DEF PublishRow, PublishError, TypeOK, Processes
  <2>2. NoCrashNoDBFault' => NoCrashNoDBFault
    BY <1>t, <1>4, FaultsStay DEF PublishRow, PublishError, FaultKinds
  <2> QED
    BY <2>1, <2>2 DEF RowsHeld
<1>5. ASSUME NEW w \in Workers, Ack(w) \/ ReleaseForRetry(w) PROVE RowsHeld'
  BY <1>5, ClosedBatchHeld DEF Ack, ReleaseForRetry
<1>6. ASSUME NEW w \in Workers, ClaimError(w) \/ AckError(w) \/ ReleaseError(w) \/ Crash(w) PROVE RowsHeld'
  <2>1. ~NoCrashNoDBFault'
    BY <1>t, <1>6, FaultNoted DEF ClaimError, AckError, ReleaseError, Crash
  <2> QED
    BY <2>1 DEF RowsHeld
<1> QED
  BY <1>0, <1>1, <1>2, <1>3, <1>4, <1>5, <1>6 DEF Next, Tick, Fault

\* A row in 'publishing' has a process at work on it or a lease that can expire,
\* for any number of processes and bus errors: only a crash or a failed database
\* call orphans a row.
THEOREM NoRowOrphaned == Spec => []NoOrphanRow
<1>1. Init => RowsHeld
  BY DEF Init, RowsHeld, AbsentRow
<1>2. RowsHeld => NoOrphanRow
  BY DEF RowsHeld, NoOrphanRow
<1> QED
  BY <1>1, <1>2, StepHeld, Inductive, PTL DEF Spec

-----------------------------------------------------------------------------
(* A single dispatcher implements the promise with final closes.           *)

\* What the process's claim has selected is still open when it commits.
SnapshotCurrent ==
    \A w \in Workers : worker[w].phase = "claiming" =>
        \A e \in worker[w].todo : row[e].status \notin {"published", "failed"}

LEMMA SnapshotStays ==
  ASSUME \A v, w \in Workers : v = w, IInv, SnapshotCurrent, [Next]_vars
  PROVE  SnapshotCurrent'
<1>t. TypeOK
  BY DEF IInv
<1>0. CASE UNCHANGED vars
  BY <1>0 DEF vars, SnapshotCurrent
<1>1. ASSUME NEW e \in Events, Insert(e) \/ LeaseExpires(e) PROVE SnapshotCurrent'
  <2>1. /\ worker' = worker
        /\ \A f \in Events : row[f].status \notin {"published", "failed"} => row'[f].status \notin {"published", "failed"}
    BY <1>t, <1>1 DEF Insert, LeaseExpires, TypeOK, Rows
  <2>2. \A w \in Workers : worker[w].todo \subseteq Events
    BY <1>t DEF TypeOK, Processes
  <2> QED
    BY <2>1, <2>2 DEF SnapshotCurrent
<1>2. ASSUME NEW w \in Workers, ClaimSelect(w) PROVE SnapshotCurrent'
  <2>1. \A e \in Selected : row[e].status \notin {"published", "failed"}
    BY DEF Selected, Claimable
  <2>2. PICK t \in FreshTokens :
           worker' = [worker EXCEPT ![w] = [phase |-> "claiming", token |-> t, todo |-> Selected]]
    BY <1>2 DEF ClaimSelect
  <2>3. worker'[w].todo = Selected /\ \A v \in Workers : v = w
    BY <1>t, <2>2 DEF TypeOK
  <2> QED
    BY <1>2, <2>1, <2>3 DEF SnapshotCurrent, ClaimSelect
<1>3. ASSUME NEW w \in Workers, worker'[w].phase # "claiming" PROVE SnapshotCurrent'
  BY <1>3 DEF SnapshotCurrent
<1>4. ASSUME NEW w \in Workers, Tick(w) \/ Fault(w), ~ClaimSelect(w) PROVE worker'[w].phase # "claiming"
  <2>1. worker'[w] = IdleProcess \/ worker'[w].phase \in {"publishing", "releasing"}
    BY <1>t, <1>4 DEF Tick, Fault, ClaimCommit, PublishRow, Ack, ReleaseForRetry, ClaimError, PublishError,
       AckError, ReleaseError, Crash, TypeOK, Processes
  <2> QED
    BY <2>1 DEF IdleProcess
<1> QED
  BY <1>0, <1>1, <1>2, <1>3, <1>4 DEF Next

\* A claim that reads a current snapshot reopens nothing.
LEMMA CurrentClaimRefines ==
  ASSUME IInv, SnapshotCurrent, NEW w \in Workers, worker[w].phase = "claiming", ClaimRows(w), bus' = bus
  PROVE  UNCHANGED Delivery!vars
<1>1. worker[w].todo \subseteq Events /\ \A e \in worker[w].todo : row[e].status \notin {"absent", "published", "failed"}
  BY DEF IInv, TypeOK, Processes, SnapshotCurrent, ClaimOwnsNothingYet
<1>2. \A e \in Events :
         /\ row'[e].status = "absent" <=> row[e].status = "absent"
         /\ row'[e].status = "published" <=> row[e].status = "published"
         /\ row'[e].status = "failed" <=> row[e].status = "failed"
  BY <1>1, ClaimEffect DEF IInv
<1> QED
  BY <1>2 DEF Delivery!vars, Recorded, Settled, Parked

LEMMA StepRefinesFinal == IInv /\ SnapshotCurrent /\ [Next]_vars => [Delivery!NextFinal]_Delivery!vars
<1> SUFFICES ASSUME IInv, SnapshotCurrent, [Next]_vars
             PROVE  Delivery!NextFinal \/ UNCHANGED Delivery!vars
  OBVIOUS
<1>1. CASE row' = row /\ bus' = bus
  BY <1>1, Stutter
<1>2. ASSUME NEW e \in Events, Insert(e) \/ LeaseExpires(e)
      PROVE  Delivery!NextFinal \/ UNCHANGED Delivery!vars
  <2>1. CASE LeaseExpires(e)
    <3>1. \A f \in Events : row'[f].status = row[f].status
      BY <2>1 DEF LeaseExpires, IInv, TypeOK, Rows
    <3> QED
      BY <2>1, <3>1, Stutter DEF LeaseExpires
  <2> QED
    BY <1>2, <2>1, InsertRefines
<1>3. ASSUME NEW w \in Workers, Tick(w)
      PROVE  Delivery!NextFinal \/ UNCHANGED Delivery!vars
  <2>1. CASE ClaimSelect(w)
    BY <1>1, <2>1 DEF ClaimSelect
  <2>2. CASE ClaimCommit(w)
    BY <2>2, CurrentClaimRefines DEF ClaimCommit
  <2>3. CASE Ack(w)
    BY <2>3, AckRefines DEF Ack
  <2>4. CASE ReleaseForRetry(w)
    BY <2>4, ReleaseRefines DEF ReleaseForRetry
  <2> QED
    BY <1>3, <2>1, <2>2, <2>3, <2>4, PublishRefines DEF Tick
<1>4. ASSUME NEW w \in Workers, Fault(w)
      PROVE  Delivery!NextFinal \/ UNCHANGED Delivery!vars
  <2>1. CASE ClaimError(w)
    BY <1>1, <2>1, CurrentClaimRefines DEF ClaimError
  <2>2. CASE PublishError(w) \/ Crash(w)
    BY <1>1, <2>2 DEF PublishError, Crash
  <2>3. CASE AckError(w)
    BY <1>1, <2>3, AckRefines DEF AckError
  <2>4. CASE ReleaseError(w)
    BY <1>1, <2>4, ReleaseRefines DEF ReleaseError
  <2> QED
    BY <1>4, <2>1, <2>2, <2>3, <2>4 DEF Fault
<1> QED
  BY <1>1, <1>2, <1>3, <1>4 DEF Next, vars

\* With one dispatcher process 'published' and 'failed' are final, whatever
\* crashes, bus errors and database errors it meets.
THEOREM SingleDispatcherFinal ==
  ASSUME \A v, w \in Workers : v = w
  PROVE  Spec => ImplementsDeliveryFinal
<1>1. Init => Delivery!Init
  BY DEF Init, Delivery!Init, Recorded, Settled, Parked, AbsentRow
<1>2. Init => SnapshotCurrent
  BY DEF Init, SnapshotCurrent, IdleProcess
<1>3. IInv /\ SnapshotCurrent /\ [Next]_vars => SnapshotCurrent'
  BY SnapshotStays
<1> QED
  BY <1>1, <1>2, <1>3, StepRefinesFinal, Inductive, PTL DEF Spec, ImplementsDeliveryFinal, Delivery!SpecFinal
=============================================================================
