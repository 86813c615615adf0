---------------------------- MODULE ServiceProofs ----------------------------
(***************************************************************************)
(* Proofs about the platform's services, each for every value of its       *)
(* constants.                                                              *)
(***************************************************************************)
EXTENDS RealtimeHub, Cases, WorkflowEngine, TemporalDriver, Conversations, ToolGateway, FiniteSetTheorems, TLAPS

(***************************************************************************)
(* The realtime hub: the cap holds for any number of connections.          *)
(***************************************************************************)
HubStates == {"idle", "upgrade", "live", "closed", "refused"}

\* The counter is never behind the connections it stands for; it runs ahead
\* of them, because a registration counts twice.
HubInv ==
    /\ hubConn \in [HubConns -> HubStates]
    /\ hubTotal \in Int
    /\ IsFiniteSet(HubAt("live")) /\ IsFiniteSet(HubAt("upgrade"))
    /\ hubTotal >= Cardinality(HubAt("live")) + Cardinality(HubAt("upgrade"))
    /\ HubCapHolds

\* Moving one connection from a state to another moves it between their sets.
LEMMA HubMove ==
  ASSUME hubConn \in [HubConns -> HubStates], NEW c \in HubConns,
         NEW u \in HubStates, NEW v \in HubStates, u # v,
         hubConn[c] = u, hubConn' = [hubConn EXCEPT ![c] = v]
  PROVE  /\ hubConn' \in [HubConns -> HubStates]
         /\ HubAt(v)' = HubAt(v) \cup {c} /\ c \notin HubAt(v)
         /\ HubAt(u)' = HubAt(u) \ {c} /\ c \in HubAt(u)
         /\ \A s \in HubStates \ {u, v} : HubAt(s)' = HubAt(s)
  BY DEF HubAt

LEMMA HubInitInv == HubInit => HubInv
<1> SUFFICES ASSUME HubInit PROVE HubInv
  OBVIOUS
<1>1. HubAt("live") = {} /\ HubAt("upgrade") = {}
  BY DEF HubInit, HubAt
<1> QED
  BY <1>1, FS_EmptySet, RealtimeHubAssumption DEF HubInit, HubInv, HubStates, HubCapHolds

\* A connection that is admitted was counted before it is upgraded.
LEMMA HubAdmitKeeps == ASSUME HubInv, NEW c \in HubConns, HubAdmit(c) PROVE HubInv'
<1>1. CASE hubTotal >= HubMaxTotal
  <2>1. HubAt("live")' = HubAt("live") /\ HubAt("upgrade")' = HubAt("upgrade") /\ hubConn' \in [HubConns -> HubStates]
    BY <1>1, HubMove DEF HubAdmit, HubInv, HubStates
  <2> QED
    BY <1>1, <2>1 DEF HubAdmit, HubInv, HubCapHolds
<1>2. CASE ~(hubTotal >= HubMaxTotal)
  <2>1. /\ HubAt("live")' = HubAt("live") /\ HubAt("upgrade")' = HubAt("upgrade") \cup {c}
        /\ c \notin HubAt("upgrade") /\ hubConn' \in [HubConns -> HubStates]
    BY <1>2, HubMove DEF HubAdmit, HubInv, HubStates
  <2>2. /\ IsFiniteSet(HubAt("upgrade"))' /\ Cardinality(HubAt("upgrade"))' = Cardinality(HubAt("upgrade")) + 1
        /\ Cardinality(HubAt("upgrade")) \in Nat /\ Cardinality(HubAt("live")) \in Nat
    BY <2>1, FS_AddElement, FS_CardinalityType DEF HubInv
  <2> QED
    BY <1>2, <2>1, <2>2, RealtimeHubAssumption DEF HubAdmit, HubInv, HubCapHolds
<1> QED
  BY <1>1, <1>2

LEMMA HubReleaseKeeps == ASSUME HubInv, NEW c \in HubConns, HubRelease(c) PROVE HubInv'
<1>1. /\ HubAt("live")' = HubAt("live") /\ HubAt("upgrade")' = HubAt("upgrade") \ {c}
      /\ c \in HubAt("upgrade") /\ hubConn' \in [HubConns -> HubStates]
  BY HubMove DEF HubRelease, HubInv, HubStates
<1>2. /\ IsFiniteSet(HubAt("upgrade"))' /\ Cardinality(HubAt("upgrade"))' = Cardinality(HubAt("upgrade")) - 1
      /\ Cardinality(HubAt("upgrade")) \in Nat /\ Cardinality(HubAt("live")) \in Nat
  BY <1>1, FS_RemoveElement, FS_CardinalityType DEF HubInv
<1> QED
  BY <1>1, <1>2, RealtimeHubAssumption DEF HubRelease, HubInv, HubCapHolds

\* The registration moves a connection that the cap already counts.
LEMMA HubRegisterKeeps == ASSUME HubInv, NEW c \in HubConns, HubRegister(c) PROVE HubInv'
<1>1. /\ HubAt("live")' = HubAt("live") \cup {c} /\ c \notin HubAt("live")
      /\ HubAt("upgrade")' = HubAt("upgrade") \ {c} /\ c \in HubAt("upgrade")
      /\ hubConn' \in [HubConns -> HubStates]
  BY HubMove DEF HubRegister, HubInv, HubStates
<1>2. /\ IsFiniteSet(HubAt("upgrade"))' /\ Cardinality(HubAt("upgrade"))' = Cardinality(HubAt("upgrade")) - 1
      /\ IsFiniteSet(HubAt("live"))' /\ Cardinality(HubAt("live"))' = Cardinality(HubAt("live")) + 1
      /\ Cardinality(HubAt("upgrade")) \in Nat /\ Cardinality(HubAt("live")) \in Nat
  BY <1>1, FS_AddElement, FS_RemoveElement, FS_CardinalityType DEF HubInv
<1> QED
  BY <1>1, <1>2, RealtimeHubAssumption DEF HubRegister, HubInv, HubCapHolds

\* The second pump of a client finds it closed and uncounts nothing.
LEMMA HubPumpEndsKeeps ==
  ASSUME HubInv, NEW c \in HubConns, NEW pump, HubPumpEnds(c, pump) PROVE HubInv'
<1>1. CASE hubConn[c] = "live"
  <2>1. /\ HubAt("live")' = HubAt("live") \ {c} /\ c \in HubAt("live")
        /\ HubAt("upgrade")' = HubAt("upgrade") /\ hubConn' \in [HubConns -> HubStates]
    BY <1>1, HubMove DEF HubPumpEnds, HubCloseClient, HubInv, HubStates
  <2>2. /\ IsFiniteSet(HubAt("live"))' /\ Cardinality(HubAt("live"))' = Cardinality(HubAt("live")) - 1
        /\ Cardinality(HubAt("upgrade")) \in Nat /\ Cardinality(HubAt("live")) \in Nat
    BY <2>1, FS_RemoveElement, FS_CardinalityType DEF HubInv
  <2> QED
    BY <1>1, <2>1, <2>2, RealtimeHubAssumption DEF HubPumpEnds, HubCloseClient, HubInv, HubCapHolds
<1>2. CASE hubConn[c] # "live"
  BY <1>2 DEF HubPumpEnds, HubCloseClient, HubInv, HubCapHolds, HubAt
<1> QED
  BY <1>1, <1>2

LEMMA HubNextInv == HubInv /\ [HubNext]_hubVars => HubInv'
<1> SUFFICES ASSUME HubInv, [HubNext]_hubVars PROVE HubInv'
  OBVIOUS
<1>1. CASE UNCHANGED <<hubTotal, hubConn>>
  BY <1>1 DEF HubInv, HubCapHolds, HubAt
<1>2. ASSUME NEW c \in HubConns, HubWrite(c) PROVE HubInv'
  BY <1>1, <1>2 DEF HubWrite
<1>3. ASSUME NEW tenant, HubPublish(tenant) PROVE HubInv'
  BY <1>1, <1>3 DEF HubPublish
<1> QED
  BY <1>1, <1>2, <1>3, HubAdmitKeeps, HubReleaseKeeps, HubRegisterKeeps, HubPumpEndsKeeps
     DEF HubNext, hubVars

\* However many clients connect, and whichever upgrades overlap, no more than
\* maxTotal connections are live or being upgraded.
THEOREM HubCap == HubSpec => []HubCapHolds
<1>1. HubInv => HubCapHolds
  BY DEF HubInv
<1> QED
  BY <1>1, HubInitInv, HubNextInv, PTL DEF HubSpec

(***************************************************************************)
(* Cases: references are serial for any number of concurrent Opens.        *)
(***************************************************************************)
CasOf(year) == {p \in CasOpens : casRows[p].year = year}

CasTxs == [at : {"idle", "locked", "counted", "done"}, count : Nat, year : 0 .. 2,
           result : {"none", "opened", "conflict", "error"}]

CasType ==
    /\ casTx \in [CasOpens -> CasTxs]
    /\ casRows \in [CasOpens -> [year : 0 .. 2, no : Nat, status : CasStatuses \cup {"none"}]]
    /\ casYear \in {1, 2}
    /\ casStraddle \subseteq CasOpens

\* The advisory lock has one holder.
CasOneHolder == \A o, p \in CasLocked : o = p

\* What the holder counted is current until it commits: nobody else inserts.
CasCountCurrent ==
    \A o \in CasOpens :
        casTx[o].at = "counted" => /\ casTx[o].year \in {1, 2}
                                   /\ casTx[o].count = Cardinality(CasOf(casTx[o].year))

\* A case is inserted at the end of its Open.
CasRowLast == \A o \in CasOpens : casTx[o].at # "done" => casRows[o].year = 0

CasInv == CasType /\ CasOneHolder /\ CasCountCurrent /\ CasRowLast /\ CasSerial

LEMMA CasOfFinite ==
  ASSUME NEW year
  PROVE  IsFiniteSet(CasOf(year)) /\ Cardinality(CasOf(year)) \in Nat
  BY CasesAssumption, FS_Subset, FS_CardinalityType DEF CasOf

\* CasSerial in the terms of this section.
LEMMA CasSerialOf ==
  CasSerial <=> (casStraddle = {} =>
                   /\ \A o \in CasOpens : casTx[o].result # "conflict"
                   /\ \A year \in {1, 2} : {casRows[o].no : o \in CasOf(year)} = 1 .. Cardinality(CasOf(year)))
  BY DEF CasSerial, CasNumbers, CasOf

\* A transaction moves on.
LEMMA CasTxMoves ==
  ASSUME CasType, NEW o \in CasOpens, NEW t \in CasTxs, casTx' = [casTx EXCEPT ![o] = t]
  PROVE  casTx' \in [CasOpens -> CasTxs]
  BY DEF CasType

LEMMA CasInitInv == CasInit => CasInv
<1> SUFFICES ASSUME CasInit PROVE CasInv
  OBVIOUS
<1>1. \A year \in {1, 2} : CasOf(year) = {}
  BY DEF CasInit, CasOf, CasNoRow
<1>2. \A year \in {1, 2} : {casRows[o].no : o \in CasOf(year)} = 1 .. Cardinality(CasOf(year))
  BY <1>1, FS_EmptySet
<1>3. CasSerial
  BY <1>2, CasSerialOf DEF CasInit
<1> QED
  BY <1>3 DEF CasInit, CasInv, CasType, CasTxs, CasOneHolder, CasCountCurrent, CasRowLast, CasLocked, CasNoRow, CasStatuses

\* Steps that leave the references alone keep what is said of them.
LEMMA CasSameRows ==
  ASSUME CasSerial, \A p \in CasOpens : casRows'[p].year = casRows[p].year /\ casRows'[p].no = casRows[p].no,
         UNCHANGED casStraddle, \A p \in CasOpens : casTx'[p].result = "conflict" => casTx[p].result = "conflict"
  PROVE  CasSerial' /\ \A year \in {0, 1, 2} : CasOf(year)' = CasOf(year)
<1>1. \A year \in {0, 1, 2} : CasOf(year)' = CasOf(year)
  BY DEF CasOf
<1>2. \A year \in {1, 2} : {casRows'[o].no : o \in CasOf(year)} = {casRows[o].no : o \in CasOf(year)}
  BY DEF CasOf
<1>3. CasSerial'
  BY <1>1, <1>2, CasSerialOf, ZenonT(60) DEF CasSerial, CasNumbers, CasOf
<1> QED
  BY <1>1, <1>3

LEMMA CasLockKeeps == ASSUME CasInv, NEW o \in CasOpens, CasLock(o) PROVE CasInv'
<1>1. CasSerial' /\ \A year \in {0, 1, 2} : CasOf(year)' = CasOf(year)
  BY CasSameRows DEF CasInv, CasLock, CasType, CasTxs
<1>2. CasType' /\ CasOneHolder' /\ CasRowLast'
  BY SMTT(60) DEF CasInv, CasLock, CasType, CasTxs, CasOneHolder, CasRowLast, CasLocked
<1>3. CasCountCurrent'
  BY <1>1 DEF CasInv, CasLock, CasType, CasTxs, CasCountCurrent
<1> QED
  BY <1>1, <1>2, <1>3 DEF CasInv

LEMMA CasCountKeeps == ASSUME CasInv, NEW o \in CasOpens, CasCount(o) PROVE CasInv'
<1>1. CasSerial' /\ \A year \in {0, 1, 2} : CasOf(year)' = CasOf(year)
  BY CasSameRows DEF CasInv, CasCount, CasType, CasTxs
<1>2. Cardinality(CasOf(casYear)) \in Nat
  BY CasOfFinite
<1>3. casTx' = [casTx EXCEPT ![o].at = "counted", ![o].year = casYear, ![o].count = Cardinality(CasOf(casYear))]
  BY DEF CasCount, CasOf
<1>4. CasType'
  <2> DEFINE t == [casTx[o] EXCEPT !.at = "counted", !.year = casYear, !.count = Cardinality(CasOf(casYear))]
  <2>1. t \in CasTxs
    <3>1. casTx[o] \in CasTxs /\ casYear \in 0 .. 2
      BY DEF CasInv, CasType
    <3> QED
      BY <1>2, <3>1 DEF CasTxs
  <2>2. casTx' = [casTx EXCEPT ![o] = t]
    BY <1>3 DEF CasInv, CasType, CasTxs
  <2> QED
    BY <2>1, <2>2, CasTxMoves DEF CasInv, CasCount, CasType
<1>6. CasLocked' = CasLocked /\ CasRowLast'
  BY <1>3 DEF CasInv, CasCount, CasType, CasTxs, CasLocked, CasRowLast
<1>7. CasOneHolder'
  BY <1>6 DEF CasInv, CasOneHolder
<1>5. CasCountCurrent'
  BY <1>1, <1>3 DEF CasInv, CasType, CasTxs, CasCountCurrent
<1> QED
  BY <1>1, <1>4, <1>5, <1>6, <1>7 DEF CasInv

LEMMA CasFailsKeeps == ASSUME CasInv, NEW o \in CasOpens, CasFails(o) PROVE CasInv'
<1>1. CasSerial' /\ \A year \in {0, 1, 2} : CasOf(year)' = CasOf(year)
  BY CasSameRows DEF CasInv, CasFails, CasType, CasTxs
<1>2. CasType'
  <2> DEFINE t == [casTx[o] EXCEPT !.at = "done", !.result = "error"]
  <2>1. t \in CasTxs
    BY ZenonT(60) DEF CasInv, CasType, CasTxs
  <2>2. casTx' = [casTx EXCEPT ![o] = t]
    BY DEF CasFails, CasInv, CasType, CasTxs
  <2> QED
    BY <2>1, <2>2, CasTxMoves DEF CasInv, CasFails, CasType
<1>3. CasLocked' \subseteq CasLocked /\ CasRowLast'
  BY DEF CasInv, CasFails, CasType, CasTxs, CasLocked, CasRowLast
<1>4. CasOneHolder'
  BY <1>3 DEF CasInv, CasOneHolder
<1>5. CasCountCurrent'
  BY <1>1 DEF CasInv, CasFails, CasType, CasTxs, CasCountCurrent
<1> QED
  BY <1>1, <1>2, <1>3, <1>4, <1>5 DEF CasInv

LEMMA CasNewYearKeeps == ASSUME CasInv, CasNewYear PROVE CasInv'
  BY CasSameRows DEF CasInv, CasNewYear, CasType, CasTxs, CasOneHolder, CasRowLast, CasLocked, CasCountCurrent

LEMMA CasTransitionKeeps ==
  ASSUME CasInv, NEW o \in CasOpens, NEW to \in CasStatuses, CasTransition(o, to) PROVE CasInv'
<1>1. CasSerial' /\ \A year \in {0, 1, 2} : CasOf(year)' = CasOf(year)
  BY CasSameRows DEF CasInv, CasTransition, CasType, CasTxs
<1>2. CasType' /\ CasOneHolder' /\ CasRowLast'
  BY DEF CasInv, CasTransition, CasType, CasTxs, CasOneHolder, CasRowLast, CasLocked
<1>3. CasCountCurrent'
  BY <1>1 DEF CasInv, CasTransition, CasType, CasTxs, CasCountCurrent
<1> QED
  BY <1>1, <1>2, <1>3 DEF CasInv

\* The insert under the lock takes the number after the last one.
LEMMA CasInsertKeeps == ASSUME CasInv, NEW o \in CasOpens, CasInsert(o) PROVE CasInv'
<1> DEFINE no == casTx[o].count + 1
           row == [year |-> casYear, no |-> no, status |-> "open"]
<1>1. /\ casYear' = casYear /\ casTx[o].at = "counted" /\ casTx[o].count \in Nat
      /\ casRows' = casRows \/ casRows' = [casRows EXCEPT ![o] = row]
      /\ \E r \in {"conflict", "opened"} : casTx' = [casTx EXCEPT ![o].at = "done", ![o].result = r]
  BY DEF CasInsert, CasInv, CasType, CasTxs
<1>2. row \in [year : 0 .. 2, no : Nat, status : CasStatuses \cup {"none"}]
  BY <1>1 DEF CasInv, CasType, CasTxs, CasStatuses
<1>3. CasType'
  <2>1. casRows' \in [CasOpens -> [year : 0 .. 2, no : Nat, status : CasStatuses \cup {"none"}]]
    BY <1>1, <1>2 DEF CasInv, CasType, CasTxs
  <2>2. casStraddle' \subseteq CasOpens
    BY DEF CasInsert, CasInv, CasType, CasTxs
  <2>3. PICK r \in {"conflict", "opened"} : casTx' = [casTx EXCEPT ![o].at = "done", ![o].result = r]
    BY <1>1
  <2> DEFINE t == [casTx[o] EXCEPT !.at = "done", !.result = r]
  <2>4. t \in CasTxs
    BY DEF CasInv, CasType, CasTxs
  <2>5. casTx' = [casTx EXCEPT ![o] = t]
    BY <2>3 DEF CasInv, CasType, CasTxs
  <2>6. casTx' \in [CasOpens -> CasTxs]
    BY <2>4, <2>5, CasTxMoves DEF CasInv
  <2> QED
    BY <1>1, <2>1, <2>2, <2>6 DEF CasInv, CasType
<1>4. CasLocked' \subseteq CasLocked /\ o \notin CasLocked' /\ o \in CasLocked
  BY <1>1 DEF CasInv, CasType, CasTxs, CasLocked
<1>5. CasOneHolder' /\ CasLocked' = {}
  BY <1>4 DEF CasInv, CasOneHolder
<1>6. CasRowLast'
  BY <1>1 DEF CasInv, CasType, CasTxs, CasRowLast
<1>7. CasCountCurrent'
  BY <1>5 DEF CasCountCurrent, CasLocked
<1>8. ASSUME casTx[o].year # casYear \/ casStraddle # {} PROVE CasSerial'
  <2>1. casStraddle' # {}
    BY <1>8 DEF CasInsert
  <2> QED
    BY <2>1 DEF CasSerial
<1>9. ASSUME casTx[o].year = casYear, casStraddle = {} PROVE CasSerial'
  <2>1. PICK y \in {1, 2} : y = casYear
    BY DEF CasInv, CasType, CasTxs
  <2>2. /\ casTx[o].count = Cardinality(CasOf(y)) /\ casRows[o].year = 0
        /\ {casRows[p].no : p \in CasOf(y)} = 1 .. casTx[o].count
    BY <1>1, <1>9, <2>1, CasSerialOf DEF CasInv, CasCountCurrent, CasRowLast
  <2>3. ASSUME CasTaken(casYear, no) PROVE FALSE
    <3>1. PICK p \in CasOpens : casRows[p].year = y /\ casRows[p].no = no
      BY <2>1, <2>3 DEF CasTaken
    <3>2. no \in {casRows[q].no : q \in CasOf(y)}
      BY <3>1 DEF CasOf
    <3> QED
      BY <1>1, <2>2, <3>2
  <2>4. /\ casRows' = [casRows EXCEPT ![o] = [year |-> y, no |-> no, status |-> "open"]]
        /\ casTx' = [casTx EXCEPT ![o].at = "done", ![o].result = "opened"]
    BY <2>1, <2>3 DEF CasInsert
  <2>5. CasOf(y)' = CasOf(y) \cup {o} /\ o \notin CasOf(y)
    BY <2>1, <2>2, <2>4 DEF CasOf, CasInv, CasType, CasTxs
  <2>6. \A year \in {1, 2} : year # y => CasOf(year)' = CasOf(year)
    BY <2>2, <2>4 DEF CasOf, CasInv, CasType, CasTxs
  <2>7. Cardinality(CasOf(y)') = casTx[o].count + 1
    BY <1>1, <2>2, <2>5, CasOfFinite, FS_AddElement, ZenonT(60)
  <2>8. {casRows'[p].no : p \in CasOf(y)'} = {casRows[p].no : p \in CasOf(y)} \cup {no}
    BY <2>4, <2>5 DEF CasOf, CasInv, CasType, CasTxs
  <2>9. {casRows'[p].no : p \in CasOf(y)'} = 1 .. Cardinality(CasOf(y)')
    BY <1>1, <2>2, <2>7, <2>8
  <2>10. \A year \in {1, 2} : year # y =>
            {casRows'[p].no : p \in CasOf(year)'} = {casRows[p].no : p \in CasOf(year)}
    BY <2>2, <2>4, <2>6, SMTT(60) DEF CasOf, CasInv, CasType, CasTxs
  <2>11. \A p \in CasOpens : casTx'[p].result # "conflict"
    BY <1>9, <2>4, CasSerialOf DEF CasInv, CasType, CasTxs
  <2>12. \A year \in {1, 2} : {casRows'[p].no : p \in CasOf(year)'} = 1 .. Cardinality(CasOf(year)')
    BY <1>9, <2>6, <2>9, <2>10, CasSerialOf DEF CasInv
  <2>13. \A year \in {1, 2} : CasNumbers(year)' = 1 .. Cardinality({q \in CasOpens : casRows'[q].year = year})
    BY <2>12 DEF CasNumbers, CasOf
  <2> QED
    BY <2>11, <2>13 DEF CasSerial
<1> QED
  BY <1>3, <1>5, <1>6, <1>7, <1>8, <1>9 DEF CasInv

LEMMA CasNextInv == CasInv /\ [CasNext]_casVars => CasInv'
<1> SUFFICES ASSUME CasInv, [CasNext]_casVars PROVE CasInv'
  OBVIOUS
<1>1. CASE UNCHANGED casVars
  BY <1>1, CasSameRows DEF casVars, CasInv, CasType, CasOneHolder, CasRowLast, CasLocked, CasCountCurrent
<1> QED
  BY <1>1, CasLockKeeps, CasCountKeeps, CasInsertKeeps, CasFailsKeeps, CasTransitionKeeps, CasNewYearKeeps
     DEF CasNext

\* As long as no Open straddles New Year, concurrent Opens of a tenant get the
\* references 1, 2, 3, ... of their year without a gap, and none is refused.
THEOREM CasReferencesSerial == CasSpec => []CasSerial
<1>1. CasInv => CasSerial
  BY DEF CasInv
<1> QED
  BY <1>1, CasInitInv, CasNextInv, PTL DEF CasSpec

(***************************************************************************)
(* The workflow engine: a cancel is undone only by a tick that holds the   *)
(* instance, for any number of instances, workers and ticks.               *)
(***************************************************************************)
WfeStepNames == {"none", "scheduled", "contacted"}
WfeStatuses == {"none", "waiting_timer", "canceled", "failed"}
WfeRows == [status : WfeStatuses, step : WfeStepNames, due : BOOLEAN]
WfeClaims == [of : WfeInstances, step : WfeStepNames]
WfeTicks == [ticks : Nat, batch : Seq(WfeClaims), failed : BOOLEAN]
WfeHistories == [canceled : SUBSET WfeInstances, held : SUBSET WfeInstances, errored : SUBSET WfeInstances]

WfeType ==
    /\ wfeRow \in [WfeInstances -> WfeRows]
    /\ wfeTick \in [WfeWorkers -> WfeTicks]
    /\ wfeHistory \in WfeHistories

\* An instance is marked failed while it heads the batch.
WfeFailedHeld == \A w \in WfeWorkers : wfeTick[w].failed => wfeTick[w].batch # <<>>

\* What nobody held when it was canceled nobody claims again.
WfeCanceledLoose ==
    \A i \in wfeHistory.canceled \ wfeHistory.held :
        wfeRow[i].status = "canceled" /\ \A w \in WfeWorkers : ~WfeHolds(w, i)

WfeInv == WfeType /\ WfeFailedHeld /\ WfeCanceledLoose

LEMMA WfeInitInv == WfeInit => WfeInv
  BY DEF WfeInit, WfeInv, WfeType, WfeRows, WfeStatuses, WfeStepNames, WfeTicks, WfeHistories, WfeFailedHeld,
         WfeCanceledLoose

\* A worker moves on; it holds what its new batch holds.
LEMMA WfeTickMoves ==
  ASSUME WfeType, NEW w \in WfeWorkers, NEW t \in WfeTicks, wfeTick' = [wfeTick EXCEPT ![w] = t]
  PROVE  /\ wfeTick' \in [WfeWorkers -> WfeTicks]
         /\ wfeTick'[w] = t
         /\ \A v \in WfeWorkers : v # w => wfeTick'[v] = wfeTick[v]
  BY DEF WfeType

\* The elements of the tail of a batch are elements of the batch.
LEMMA WfeTailHolds ==
  ASSUME NEW batch \in Seq(WfeClaims), batch # <<>>
  PROVE  /\ Head(batch) \in WfeClaims /\ Tail(batch) \in Seq(WfeClaims)
         /\ 1 \in DOMAIN batch /\ Head(batch) = batch[1]
         /\ \A k \in DOMAIN Tail(batch) : \E j \in DOMAIN batch : batch[j] = Tail(batch)[k]
<1>1. \A k \in DOMAIN Tail(batch) : k + 1 \in DOMAIN batch /\ batch[k + 1] = Tail(batch)[k]
  OBVIOUS
<1> QED
  BY <1>1

\* Steps of the row only: nobody comes to hold anything.
LEMMA WfeRowMoves ==
  ASSUME WfeInv, NEW i \in WfeInstances, NEW r \in WfeRows, wfeRow' = [wfeRow EXCEPT ![i] = r],
         UNCHANGED <<wfeTick, wfeHistory>>, wfeRow[i].status # "canceled"
  PROVE  WfeInv'
<1>1. WfeType' /\ WfeFailedHeld'
  BY DEF WfeInv, WfeType, WfeFailedHeld
<1>2. WfeCanceledLoose'
  <2> SUFFICES ASSUME NEW j \in wfeHistory.canceled \ wfeHistory.held
               PROVE  wfeRow'[j].status = "canceled" /\ \A w \in WfeWorkers : ~WfeHolds(w, j)'
    BY DEF WfeCanceledLoose
  <2>1. wfeRow[j].status = "canceled" /\ \A w \in WfeWorkers : ~WfeHolds(w, j)
    BY DEF WfeInv, WfeCanceledLoose
  <2> QED
    BY <2>1 DEF WfeInv, WfeType, WfeHolds
<1> QED
  BY <1>1, <1>2 DEF WfeInv

LEMMA WfeStartKeeps == ASSUME WfeInv, NEW i \in WfeInstances, WfeStart(i) PROVE WfeInv'
<1> DEFINE r == [status |-> "waiting_timer", step |-> WfeFirst(i.type), due |-> i.type = "collections"]
<1>1. r \in WfeRows
  BY DEF WfeRows, WfeStatuses, WfeStepNames, WfeFirst
<1> QED
  BY <1>1, WfeRowMoves DEF WfeStart

LEMMA WfeTimerKeeps == ASSUME WfeInv, NEW i \in WfeInstances, WfeTimer(i) PROVE WfeInv'
<1> DEFINE r == [wfeRow[i] EXCEPT !.due = TRUE]
<1>1. r \in WfeRows /\ wfeRow' = [wfeRow EXCEPT ![i] = r]
  BY DEF WfeTimer, WfeInv, WfeType, WfeRows
<1> QED
  BY <1>1, WfeRowMoves DEF WfeTimer

\* Whoever holds the instance is in the history; otherwise nobody does.
LEMMA WfeCancelKeeps == ASSUME WfeInv, NEW i \in WfeInstances, WfeCancel(i) PROVE WfeInv'
<1> DEFINE r == [wfeRow[i] EXCEPT !.status = "canceled", !.due = FALSE]
<1>1. r \in WfeRows /\ wfeRow' = [wfeRow EXCEPT ![i] = r] /\ r.status = "canceled"
  BY DEF WfeCancel, WfeInv, WfeType, WfeRows, WfeStatuses
<1>h. /\ wfeHistory' \in WfeHistories /\ wfeHistory'.canceled = wfeHistory.canceled \cup {i}
      /\ wfeHistory.held \subseteq wfeHistory'.held
      /\ (\E w \in WfeWorkers : WfeHolds(w, i)) => i \in wfeHistory'.held
  BY DEF WfeCancel, WfeInv, WfeType, WfeHistories
<1>2. WfeType' /\ WfeFailedHeld'
  BY <1>1, <1>h DEF WfeCancel, WfeInv, WfeType, WfeFailedHeld
<1>3. WfeCanceledLoose'
  <2> SUFFICES ASSUME NEW j \in wfeHistory'.canceled \ wfeHistory'.held
               PROVE  wfeRow'[j].status = "canceled" /\ \A w \in WfeWorkers : ~WfeHolds(w, j)'
    BY DEF WfeCanceledLoose
  <2>1. \A w \in WfeWorkers : WfeHolds(w, j)' <=> WfeHolds(w, j)
    BY DEF WfeHolds, WfeCancel
  <2>2. CASE j = i
    <3>1. \A w \in WfeWorkers : ~WfeHolds(w, j)
      BY <1>h, <2>2
    <3> QED
      BY <1>1, <2>1, <2>2, <3>1 DEF WfeInv, WfeType
  <2>3. CASE j # i
    <3>1. j \in wfeHistory.canceled \ wfeHistory.held
      BY <1>h, <2>3
    <3> QED
      BY <1>1, <2>1, <2>3, <3>1 DEF WfeInv, WfeType, WfeCanceledLoose
  <2> QED
    BY <2>2, <2>3
<1> QED
  BY <1>2, <1>3 DEF WfeInv

LEMMA WfeTickSet ==
  ASSUME NEW t \in WfeTicks, NEW n \in Nat, NEW b \in Seq(WfeClaims)
  PROVE  [t EXCEPT !.ticks = n, !.batch = b] \in WfeTicks /\ [t EXCEPT !.ticks = n, !.batch = b].batch = b
  BY DEF WfeTicks

LEMMA WfeTickClaims ==
  ASSUME NEW t \in WfeTicks, NEW b \in Seq(WfeClaims)
  PROVE  /\ [t EXCEPT !.ticks = @ + 1, !.batch = b] \in WfeTicks
         /\ [t EXCEPT !.ticks = @ + 1, !.batch = b].batch = b
<1>1. t.ticks + 1 \in Nat
  BY DEF WfeTicks
<1> QED
  BY <1>1, WfeTickSet

\* A claim takes live instances only.
LEMMA WfeClaimKeeps ==
  ASSUME WfeInv, NEW w \in WfeWorkers, NEW claimed \in SUBSET WfeInstances, WfeClaim(w, claimed)
  PROVE  WfeInv'
<1> DEFINE S == {[of |-> i, step |-> wfeRow[i].step] : i \in claimed}
<1>1. PICK batch \in [1 .. Cardinality(claimed) -> S] :
         /\ {batch[k].of : k \in DOMAIN batch} = claimed
         /\ wfeTick' = [wfeTick EXCEPT ![w].ticks = @ + 1, ![w].batch = batch]
  BY DEF WfeClaim
<1>2. Cardinality(claimed) \in Nat /\ Cardinality(claimed) # 0
  BY WorkflowEngineAssumption, FS_Subset, FS_CardinalityType, FS_EmptySet DEF WfeClaim
<1>3. S \subseteq WfeClaims
  BY DEF WfeInv, WfeType, WfeRows, WfeClaims
<1>4. batch \in Seq(WfeClaims) /\ batch # <<>>
  <2>1. batch \in [1 .. Cardinality(claimed) -> WfeClaims] /\ DOMAIN batch = 1 .. Cardinality(claimed)
    BY <1>3
  <2> HIDE DEF S
  <2> QED
    BY <1>2, <2>1
<1> DEFINE t == [wfeTick[w] EXCEPT !.ticks = @ + 1, !.batch = batch]
<1> HIDE DEF S
<1>t. wfeTick[w] \in WfeTicks
  BY DEF WfeInv, WfeType
<1>u. t \in WfeTicks /\ t.batch = batch
  BY <1>4, <1>t, WfeTickClaims
<1>v. wfeTick' = [wfeTick EXCEPT ![w] = t]
  BY <1>1, <1>t DEF WfeTicks
<1> HIDE DEF t
<1>5. t \in WfeTicks /\ wfeTick' = [wfeTick EXCEPT ![w] = t] /\ t.batch = batch
  BY <1>u, <1>v
<1>6. WfeType'
  BY <1>5, WfeTickMoves DEF WfeInv, WfeType, WfeClaim
<1>7. WfeFailedHeld'
  BY <1>4, <1>5, WfeTickMoves DEF WfeInv, WfeFailedHeld
<1>8. WfeCanceledLoose'
  <2> SUFFICES ASSUME NEW j \in wfeHistory.canceled \ wfeHistory.held, NEW v \in WfeWorkers, WfeHolds(v, j)'
               PROVE  FALSE
    BY DEF WfeCanceledLoose, WfeInv, WfeClaim
  <2>1. wfeRow[j].status = "canceled" /\ ~WfeHolds(v, j)
    BY DEF WfeInv, WfeCanceledLoose
  <2>2. j \notin claimed
    BY <2>1 DEF WfeClaim, WfeClaimable, WfeLive
  <2>3. ASSUME v = w PROVE FALSE
    <3>1. wfeTick'[w] = t
      BY <1>5, WfeTickMoves DEF WfeInv
    <3>2. PICK k \in DOMAIN batch : batch[k].of = j
      BY <1>5, <2>3, <3>1 DEF WfeHolds
    <3> QED
      BY <1>1, <2>2, <3>2
  <2> QED
    BY <1>5, <2>1, <2>3, WfeTickMoves DEF WfeHolds, WfeInv
<1> QED
  BY <1>6, <1>7, <1>8 DEF WfeInv

\* A worker that drops the head of its batch, or keeps it, holds nothing new.
LEMMA WfeBatchShrinks ==
  ASSUME WfeInv, NEW w \in WfeWorkers, NEW t \in WfeTicks, wfeTick' = [wfeTick EXCEPT ![w] = t],
         wfeTick[w].batch # <<>>, t.batch = wfeTick[w].batch \/ t.batch = Tail(wfeTick[w].batch)
  PROVE  \A v \in WfeWorkers, i \in WfeInstances : WfeHolds(v, i)' => WfeHolds(v, i)
<1> SUFFICES ASSUME NEW v \in WfeWorkers, NEW i \in WfeInstances, WfeHolds(v, i)'
             PROVE  WfeHolds(v, i)
  OBVIOUS
<1>1. CASE v # w
  BY <1>1, WfeTickMoves DEF WfeHolds, WfeInv
<1>2. CASE v = w
  <2>1. wfeTick[w].batch \in Seq(WfeClaims)
    BY DEF WfeInv, WfeType, WfeTicks
  <2>2. \E k \in DOMAIN t.batch : t.batch[k].of = i
    BY <1>2, WfeTickMoves DEF WfeHolds, WfeInv
  <2>3. CASE t.batch = wfeTick[w].batch
    BY <1>2, <2>2, <2>3 DEF WfeHolds
  <2>4. CASE t.batch = Tail(wfeTick[w].batch)
    <3>1. PICK k \in DOMAIN Tail(wfeTick[w].batch) : Tail(wfeTick[w].batch)[k].of = i
      BY <2>2, <2>4
    <3>2. k + 1 \in DOMAIN wfeTick[w].batch /\ Tail(wfeTick[w].batch)[k] = wfeTick[w].batch[k + 1]
      BY <2>1, <3>1
    <3> QED
      BY <1>2, <3>1, <3>2 DEF WfeHolds
  <2> QED
    BY <2>3, <2>4
<1> QED
  BY <1>1, <1>2

LEMMA WfeAdvanceKeeps ==
  ASSUME WfeInv, NEW w \in WfeWorkers, NEW outcome, WfeAdvance(w, outcome) PROVE WfeInv'
<1> DEFINE b == IF outcome = "ok" THEN Tail(wfeTick[w].batch) ELSE wfeTick[w].batch
           t == [wfeTick[w] EXCEPT !.failed = outcome # "ok", !.batch = b]
<1>1. wfeTick[w].batch \in Seq(WfeClaims) /\ wfeTick[w].batch # <<>> /\ b \in Seq(WfeClaims)
  BY WfeTailHolds DEF WfeInv, WfeType, WfeTicks, WfeAdvance
<1>2. t \in WfeTicks /\ t.batch = b /\ wfeTick' = [wfeTick EXCEPT ![w] = t] /\ (t.failed => b # <<>>)
  BY <1>1 DEF WfeInv, WfeType, WfeTicks, WfeAdvance
<1>h. /\ wfeHistory' \in WfeHistories /\ wfeHistory'.canceled = wfeHistory.canceled
      /\ wfeHistory'.held = wfeHistory.held
  <2>1. PICK i \in WfeInstances : i = Head(wfeTick[w].batch).of
    BY <1>1, WfeTailHolds DEF WfeClaims
  <2>2. wfeHistory' = wfeHistory \/ wfeHistory' = [wfeHistory EXCEPT !.errored = @ \cup {i}]
    BY <2>1 DEF WfeAdvance
  <2> QED
    BY <2>2 DEF WfeInv, WfeType, WfeHistories
<1>3. WfeType'
  <2>1. wfeTick' \in [WfeWorkers -> WfeTicks]
    BY <1>2 DEF WfeInv, WfeType
  <2>2. wfeRow' = wfeRow
    BY DEF WfeAdvance
  <2> QED
    BY <1>h, <2>1, <2>2 DEF WfeInv, WfeType
<1>4. WfeFailedHeld'
  BY <1>2, WfeTickMoves DEF WfeInv, WfeFailedHeld
<1>5. \A v \in WfeWorkers, i \in WfeInstances : WfeHolds(v, i)' => WfeHolds(v, i)
  BY <1>1, <1>2, WfeBatchShrinks
<1>6. WfeCanceledLoose'
  BY <1>5, <1>h DEF WfeInv, WfeType, WfeHistories, WfeCanceledLoose, WfeAdvance
<1> QED
  BY <1>3, <1>4, <1>6 DEF WfeInv

\* What is marked failed was held, so it is not a loose one.
LEMMA WfeMarkFailedKeeps ==
  ASSUME WfeInv, NEW w \in WfeWorkers, NEW ok \in BOOLEAN, WfeMarkFailed(w, ok) PROVE WfeInv'
<1> DEFINE b == wfeTick[w].batch
           i == Head(b).of
           t == [wfeTick[w] EXCEPT !.failed = FALSE, !.batch = Tail(b)]
           r == IF ok THEN [wfeRow[i] EXCEPT !.status = "failed"] ELSE wfeRow[i]
<1>1. b \in Seq(WfeClaims) /\ b # <<>>
  BY DEF WfeInv, WfeType, WfeTicks, WfeMarkFailed, WfeFailedHeld
<1>2. i \in WfeInstances /\ WfeHolds(w, i) /\ Tail(b) \in Seq(WfeClaims)
  <2>1. Head(b) \in WfeClaims /\ Tail(b) \in Seq(WfeClaims) /\ 1 \in DOMAIN b /\ Head(b) = b[1]
    BY <1>1, WfeTailHolds
  <2> QED
    BY <2>1 DEF WfeHolds, WfeClaims
<1>3. t \in WfeTicks /\ t.batch = Tail(b) /\ wfeTick' = [wfeTick EXCEPT ![w] = t] /\ t.failed = FALSE
  BY <1>2 DEF WfeInv, WfeType, WfeTicks, WfeMarkFailed
<1>4. r \in WfeRows /\ wfeRow' = [wfeRow EXCEPT ![i] = r]
  BY <1>2 DEF WfeInv, WfeType, WfeRows, WfeStatuses, WfeMarkFailed
<1> HIDE DEF b, i, t, r
<1>r. wfeRow' \in [WfeInstances -> WfeRows]
  BY <1>2, <1>4 DEF WfeInv, WfeType
<1>t. wfeTick' \in [WfeWorkers -> WfeTicks]
  BY <1>3, WfeTickMoves DEF WfeInv
<1>5. WfeType'
  BY <1>r, <1>t DEF WfeInv, WfeType, WfeMarkFailed
<1>6. WfeFailedHeld'
  BY <1>3, WfeTickMoves DEF WfeInv, WfeFailedHeld
<1>7. \A v \in WfeWorkers, j \in WfeInstances : WfeHolds(v, j)' => WfeHolds(v, j)
  BY <1>1, <1>3, WfeBatchShrinks DEF b
<1>8. WfeCanceledLoose'
  <2> SUFFICES ASSUME NEW j \in wfeHistory.canceled \ wfeHistory.held
               PROVE  wfeRow'[j].status = "canceled" /\ \A v \in WfeWorkers : ~WfeHolds(v, j)'
    BY DEF WfeCanceledLoose, WfeMarkFailed
  <2>1. wfeRow[j].status = "canceled" /\ j \in WfeInstances /\ \A v \in WfeWorkers : ~WfeHolds(v, j)
    BY DEF WfeInv, WfeType, WfeHistories, WfeCanceledLoose
  <2>2. j # i
    BY <1>2, <2>1
  <2> QED
    BY <1>4, <1>7, <2>1, <2>2 DEF WfeInv, WfeType
<1> QED
  BY <1>5, <1>6, <1>8 DEF WfeInv

LEMMA WfeNextInv == WfeInv /\ [WfeNext]_wfeVars => WfeInv'
<1> SUFFICES ASSUME WfeInv, [WfeNext]_wfeVars PROVE WfeInv'
  OBVIOUS
<1>1. CASE UNCHANGED wfeVars
  BY <1>1 DEF wfeVars, WfeInv, WfeType, WfeFailedHeld, WfeCanceledLoose, WfeHolds
<1> QED
  BY <1>1, WfeStartKeeps, WfeTimerKeeps, WfeCancelKeeps, WfeClaimKeeps, WfeAdvanceKeeps, WfeMarkFailedKeeps
     DEF WfeNext

\* A workflow that Cancel returned for stays canceled, unless a tick held it at
\* that moment, for any number of workers.
THEOREM WfeCancelStands == WfeSpec => []WfeCanceledUnlessHeld
<1>1. WfeInv => WfeCanceledUnlessHeld
  BY DEF WfeInv, WfeCanceledLoose, WfeCanceledUnlessHeld
<1> QED
  BY <1>1, WfeInitInv, WfeNextInv, PTL DEF WfeSpec

(***************************************************************************)
(* The Temporal driver.                                                    *)
(***************************************************************************)
TmpNames == {"contacted", "waited", "task_created", "closed"}
TmpExecs == [state : {"none", "running", "canceling", "unwinding", "canceled", "failing", "failed", "completed"},
             pc : Nat, attempts : Nat]
TmpRows == [status : {"none", "waiting_timer", "running", "completed", "canceled", "failed"},
            step : {"none", "scheduled", "contacted", "waited", "escalated", "task_created", "closed"}]

TmpTyped ==
    /\ tmpStart \in [type : {"none", "callback", "collections"}, at : {"idle", "execute", "failed", "done"}]
    /\ tmpStart.type = "none" <=> tmpStart.at = "idle"
    /\ tmpExec \in TmpExecs
    /\ tmpRow \in TmpRows

\* Before the start there is nothing.
TmpUnstarted ==
    tmpStart.type = "none" =>
        /\ tmpRow.status = "none" /\ tmpTrace = <<>> /\ tmpSent = {}
        /\ tmpExec.state = "none" /\ tmpFlying = {}

\* The execution waits for a start, and begins at the first instruction.
TmpUnexecuted ==
    /\ tmpExec.state = "none" => tmpExec.pc = 1
    /\ tmpStart.at = "execute" => tmpExec.state = "none"

\* The trace is the beginning of the ladder.
TmpPrefix ==
    /\ tmpTrace \in Seq(TmpNames) /\ Len(tmpTrace) <= Len(TmpLadder)
    /\ \A k \in 1 .. Len(tmpTrace) : tmpTrace[k] = TmpLadder[k]

\* What stands when the row is at a step, and when the execution is past an
\* instruction, of a callback and of a collections ladder.
TmpCallbackHere ==
    /\ tmpSent \subseteq {"sms"}
    /\ \/ tmpRow.step = "scheduled" /\ Len(tmpTrace) = 0
       \/ tmpRow.step = "contacted" /\ Len(tmpTrace) = 1 /\ "sms" \in tmpSent
       \/ tmpRow.step = "closed" /\ Len(tmpTrace) = 2 /\ "sms" \in tmpSent

TmpCallbackPast(pc) ==
    /\ pc \in 1 .. 4
    /\ pc >= 3 => "sms" \in tmpSent
    /\ pc >= 4 => tmpRow.step # "scheduled"

TmpCollectionsHere ==
    /\ tmpSent \subseteq {"sms", "whatsapp"}
    /\ \/ tmpRow.step = "contacted" /\ Len(tmpTrace) = 0
       \/ /\ tmpRow.step = "waited" /\ Len(tmpTrace) = 1 /\ "sms" \in tmpSent
       \/ /\ tmpRow.step = "escalated" /\ Len(tmpTrace) = 2
          /\ "sms" \in tmpSent /\ "whatsapp" \in tmpSent
       \/ /\ tmpRow.step = "task_created" /\ Len(tmpTrace) = 3
          /\ "sms" \in tmpSent /\ "whatsapp" \in tmpSent
       \/ /\ tmpRow.step = "closed" /\ Len(tmpTrace) = 4
          /\ "sms" \in tmpSent /\ "whatsapp" \in tmpSent

TmpCollectionsPast(pc) ==
    /\ pc \in 1 .. 8
    /\ pc >= 2 => "sms" \in tmpSent
    /\ pc >= 3 => tmpRow.step # "contacted"
    /\ pc >= 5 => "whatsapp" \in tmpSent
    /\ pc >= 6 => tmpRow.step \notin {"contacted", "waited"}
    /\ pc >= 8 => tmpRow.step \notin {"contacted", "waited", "escalated"}

TmpHere == TmpPrefix /\ IF tmpStart.type = "callback" THEN TmpCallbackHere ELSE TmpCollectionsHere
TmpPast(pc) == IF tmpStart.type = "callback" THEN TmpCallbackPast(pc) ELSE TmpCollectionsPast(pc)

\* An activity at work is one the execution has reached.
TmpReached(act) == act.op # "timer" /\ \E k \in 1 .. tmpExec.pc : act = TmpProgram(tmpStart.type)[k]

TmpInv ==
    /\ TmpTyped /\ TmpUnstarted /\ TmpUnexecuted
    /\ tmpStart.type # "none" => TmpHere /\ TmpPast(tmpExec.pc)
    /\ tmpRow.status = "completed" => tmpRow.step = "closed"
    /\ \A act \in tmpFlying : TmpReached(act)

LEMMA TmpCallbackCode ==
  /\ Len(TmpProgram("callback")) = 4
  /\ TmpProgram("callback")[1] = TmpTimer
  /\ TmpProgram("callback")[2] = TmpQueue("sms")
  /\ TmpProgram("callback")[3] = TmpStep("scheduled", "contacted", "contacted", "running")
  /\ TmpProgram("callback")[4] = TmpSeal("contacted")
  BY DEF TmpProgram, CallbackWorkflow

LEMMA TmpCollectionsCode ==
  /\ Len(TmpProgram("collections")) = 8
  /\ TmpProgram("collections")[1] = TmpQueue("sms")
  /\ TmpProgram("collections")[2] = TmpStep("contacted", "contacted", "waited", "waiting_timer")
  /\ TmpProgram("collections")[3] = TmpTimer
  /\ TmpProgram("collections")[4] = TmpQueue("whatsapp")
  /\ TmpProgram("collections")[5] = TmpStep("waited", "waited", "escalated", "waiting_timer")
  /\ TmpProgram("collections")[6] = TmpTimer
  /\ TmpProgram("collections")[7] = TmpStep("escalated", "task_created", "task_created", "running")
  /\ TmpProgram("collections")[8] = TmpSeal("task_created")
  BY DEF TmpProgram, CollectionsWorkflow

LEMMA TmpLadderIs ==
  /\ tmpStart.type = "callback" =>
        Len(TmpLadder) = 2 /\ TmpLadder[1] = "contacted" /\ TmpLadder[2] = "closed"
  /\ tmpStart.type = "collections" =>
        /\ Len(TmpLadder) = 4 /\ TmpLadder[1] = "contacted" /\ TmpLadder[2] = "waited"
        /\ TmpLadder[3] = "task_created" /\ TmpLadder[4] = "closed"
  /\ TmpLadder \in Seq(TmpNames)
<1>1. CASE tmpStart.type = "callback"
  <2>1. TmpLadder = <<"contacted", "closed">>
    BY <1>1 DEF TmpLadder
  <2> QED
    BY <1>1, <2>1 DEF TmpNames
<1>2. CASE tmpStart.type # "callback"
  <2>1. TmpLadder = <<"contacted", "waited", "task_created", "closed">>
    BY <1>2 DEF TmpLadder
  <2> QED
    BY <1>2, <2>1 DEF TmpNames
<1> QED
  BY <1>1, <1>2

\* What a write of the audit row does, when the step it expects is the one the
\* trace has reached.
LEMMA TmpRecordGrows ==
  ASSUME TmpPrefix, UNCHANGED tmpStart, NEW act, TmpRecord(act), act.done \in TmpNames, NEW n \in Nat,
         tmpRow.step = act.from => n > 0 /\ Len(tmpTrace) = n - 1 /\ n <= Len(TmpLadder) /\ act.done = TmpLadder[n]
  PROVE  /\ TmpPrefix'
         /\ tmpRow.step = act.from => /\ tmpRow' = [status |-> act.status, step |-> act.to]
                                      /\ Len(tmpTrace') = n
         /\ tmpRow.step # act.from => UNCHANGED <<tmpRow, tmpTrace>>
<1>1. TmpLadder' = TmpLadder /\ Len(TmpLadder) \in Nat
  BY TmpLadderIs DEF TmpLadder
<1>2. CASE tmpRow.step = act.from
  <2>1. tmpTrace' = Append(tmpTrace, act.done) /\ tmpRow' = [status |-> act.status, step |-> act.to]
    BY <1>2 DEF TmpRecord, TmpExpected
  <2>2. tmpTrace \in Seq(TmpNames) /\ tmpTrace' \in Seq(TmpNames) /\ Len(tmpTrace') = n
    BY <1>2, <2>1 DEF TmpPrefix
  <2>3. \A k \in 1 .. Len(tmpTrace') : tmpTrace'[k] = TmpLadder[k]
    BY <1>2, <2>1, <2>2 DEF TmpPrefix
  <2> QED
    BY <1>1, <1>2, <2>1, <2>2, <2>3 DEF TmpPrefix
<1>3. CASE tmpRow.step # act.from
  BY <1>1, <1>3 DEF TmpRecord, TmpExpected, TmpPrefix
<1> QED
  BY <1>2, <1>3

\* The effect of the instruction at pc: it leaves the row and the trace in
\* order, undoes nothing, and allows the next instruction.
LEMMA TmpCallbackEffect ==
  ASSUME TmpTyped, TmpPrefix, TmpCallbackHere, UNCHANGED tmpStart, NEW at \in Nat, TmpCallbackPast(at),
         tmpStart.type = "callback", NEW now, now = TmpProgram("callback")[at], now.op # "timer", TmpEffect(now)
  PROVE  /\ tmpRow' \in TmpRows /\ (tmpRow' = tmpRow \/ (tmpRow'.status = "completed" => tmpRow'.step = "closed"))
         /\ TmpPrefix' /\ TmpCallbackHere'
         /\ \A pc \in Nat : TmpCallbackPast(pc) => TmpCallbackPast(pc)'
         /\ at # 4 => TmpCallbackPast(at + 1)'
<1>0. at \in {2, 3, 4}
  BY TmpCallbackCode DEF TmpCallbackPast, TmpTimer
<1>l. /\ 1 <= Len(TmpLadder) /\ 2 <= Len(TmpLadder)
      /\ TmpLadder[1] = "contacted" /\ TmpLadder[2] = "closed"
  <2>1. Len(TmpLadder) = 2
    BY TmpLadderIs
  <2> QED
    BY <2>1, TmpLadderIs
<1>1. CASE at = 2
  <2>1. tmpSent' = tmpSent \cup {"sms"} /\ UNCHANGED <<tmpRow, tmpTrace>>
    BY <1>1, TmpCallbackCode DEF TmpQueue, TmpEffect
  <2>2. TmpPrefix'
    BY <2>1 DEF TmpPrefix, TmpLadder
  <2> QED
    BY <1>1, <2>1, <2>2 DEF TmpTyped, TmpCallbackHere, TmpCallbackPast
<1>2. CASE at = 3
  <2> DEFINE act == TmpStep("scheduled", "contacted", "contacted", "running")
  <2>1. TmpRecord(act) /\ UNCHANGED tmpSent
    BY <1>2, TmpCallbackCode DEF TmpStep, TmpEffect
  <2>2. /\ act.from = "scheduled" /\ act.done = "contacted" /\ act.to = "contacted" /\ act.status = "running"
        /\ act.done \in TmpNames
    BY DEF TmpStep, TmpNames
  <2> HIDE DEF act
  <2>n. tmpRow.step = act.from => Len(tmpTrace) = 0
    BY <2>2 DEF TmpCallbackHere
  <2>3. tmpRow.step = act.from => 1 <= Len(TmpLadder) /\ act.done = TmpLadder[1]
    BY <1>l, <2>2
  <2>m. tmpRow.step = act.from => 1 > 0 /\ Len(tmpTrace) = 1 - 1
    BY <2>n
  <2>4. TmpPrefix' /\ (tmpRow.step # act.from => UNCHANGED <<tmpRow, tmpTrace>>)
    BY <2>1, <2>2, <2>3, <2>m, TmpRecordGrows
  <2>5. tmpRow.step = act.from => tmpRow' = [status |-> act.status, step |-> act.to] /\ Len(tmpTrace') = 1
    BY <2>1, <2>2, <2>3, <2>m, TmpRecordGrows
  <2>6. CASE tmpRow.step # act.from
    BY <1>2, <2>1, <2>2, <2>4, <2>6 DEF TmpTyped, TmpCallbackHere, TmpCallbackPast
  <2>7. CASE tmpRow.step = act.from
    BY <1>2, <2>1, <2>2, <2>4, <2>5, <2>7 DEF TmpTyped, TmpRows, TmpCallbackHere, TmpCallbackPast
  <2> QED
    BY <2>6, <2>7
<1>3. CASE at = 4
  <2> DEFINE act == TmpSeal("contacted")
  <2>1. TmpRecord(act) /\ UNCHANGED tmpSent
    BY <1>3, TmpCallbackCode DEF TmpSeal, TmpEffect
  <2>2. /\ act.from = "contacted" /\ act.done = "closed" /\ act.to = "closed" /\ act.status = "completed"
        /\ act.done \in TmpNames
    BY DEF TmpSeal, TmpNames
  <2> HIDE DEF act
  <2>n. tmpRow.step = act.from => Len(tmpTrace) = 1
    BY <2>2 DEF TmpCallbackHere
  <2>3. tmpRow.step = act.from => 2 <= Len(TmpLadder) /\ act.done = TmpLadder[2]
    BY <1>l, <2>2
  <2>m. tmpRow.step = act.from => 2 > 0 /\ Len(tmpTrace) = 2 - 1
    BY <2>n
  <2>4. TmpPrefix' /\ (tmpRow.step # act.from => UNCHANGED <<tmpRow, tmpTrace>>)
    BY <2>1, <2>2, <2>3, <2>m, TmpRecordGrows
  <2>5. tmpRow.step = act.from => tmpRow' = [status |-> act.status, step |-> act.to] /\ Len(tmpTrace') = 2
    BY <2>1, <2>2, <2>3, <2>m, TmpRecordGrows
  <2>6. CASE tmpRow.step # act.from
    BY <1>3, <2>1, <2>2, <2>4, <2>6 DEF TmpTyped, TmpCallbackHere, TmpCallbackPast
  <2>7. CASE tmpRow.step = act.from
    BY <1>3, <2>1, <2>2, <2>4, <2>5, <2>7 DEF TmpTyped, TmpRows, TmpCallbackHere, TmpCallbackPast
  <2> QED
    BY <2>6, <2>7
<1> QED
  BY <1>0, <1>1, <1>2, <1>3

LEMMA TmpCollectionsEffect ==
  ASSUME TmpTyped, TmpPrefix, TmpCollectionsHere, UNCHANGED tmpStart, NEW at \in Nat, TmpCollectionsPast(at),
         tmpStart.type = "collections", NEW now, now = TmpProgram("collections")[at], now.op # "timer", TmpEffect(now)
  PROVE  /\ tmpRow' \in TmpRows /\ (tmpRow' = tmpRow \/ (tmpRow'.status = "completed" => tmpRow'.step = "closed"))
         /\ TmpPrefix' /\ TmpCollectionsHere'
         /\ \A pc \in Nat : TmpCollectionsPast(pc) => TmpCollectionsPast(pc)'
         /\ at # 8 => TmpCollectionsPast(at + 1)'
<1>0. at \in {1, 2, 4, 5, 7, 8}
  BY TmpCollectionsCode DEF TmpCollectionsPast, TmpTimer
<1>l. /\ 1 <= Len(TmpLadder) /\ 2 <= Len(TmpLadder) /\ 3 <= Len(TmpLadder) /\ 4 <= Len(TmpLadder)
      /\ TmpLadder[1] = "contacted" /\ TmpLadder[2] = "waited"
      /\ TmpLadder[3] = "task_created" /\ TmpLadder[4] = "closed"
  <2>1. Len(TmpLadder) = 4
    BY TmpLadderIs
  <2> QED
    BY <2>1, TmpLadderIs
<1>1. CASE at = 1
  <2>1. tmpSent' = tmpSent \cup {"sms"} /\ UNCHANGED <<tmpRow, tmpTrace>>
    BY <1>1, TmpCollectionsCode DEF TmpQueue, TmpEffect
  <2>2. TmpPrefix'
    BY <2>1 DEF TmpPrefix, TmpLadder
  <2> QED
    BY <1>1, <2>1, <2>2 DEF TmpTyped, TmpCollectionsHere, TmpCollectionsPast
<1>2. CASE at = 2
  <2> DEFINE act == TmpStep("contacted", "contacted", "waited", "waiting_timer")
  <2>1. TmpRecord(act) /\ UNCHANGED tmpSent
    BY <1>2, TmpCollectionsCode DEF TmpStep, TmpEffect
  <2>2. /\ act.from = "contacted" /\ act.done = "contacted" /\ act.to = "waited" /\ act.status = "waiting_timer"
        /\ act.done \in TmpNames
    BY DEF TmpStep, TmpNames
  <2> HIDE DEF act
  <2>n. tmpRow.step = act.from => Len(tmpTrace) = 0
    BY <2>2 DEF TmpCollectionsHere
  <2>3. tmpRow.step = act.from => 1 <= Len(TmpLadder) /\ act.done = TmpLadder[1]
    BY <1>l, <2>2
  <2>m. tmpRow.step = act.from => 1 > 0 /\ Len(tmpTrace) = 1 - 1
    BY <2>n
  <2>4. TmpPrefix' /\ (tmpRow.step # act.from => UNCHANGED <<tmpRow, tmpTrace>>)
    BY <2>1, <2>2, <2>3, <2>m, TmpRecordGrows
  <2>5. tmpRow.step = act.from => tmpRow' = [status |-> act.status, step |-> act.to] /\ Len(tmpTrace') = 1
    BY <2>1, <2>2, <2>3, <2>m, TmpRecordGrows
  <2>6. CASE tmpRow.step # act.from
    BY <1>2, <2>1, <2>2, <2>4, <2>6 DEF TmpTyped, TmpCollectionsHere, TmpCollectionsPast
  <2>7. CASE tmpRow.step = act.from
    BY <1>2, <2>1, <2>2, <2>4, <2>5, <2>7 DEF TmpTyped, TmpRows, TmpCollectionsHere, TmpCollectionsPast
  <2> QED
    BY <2>6, <2>7
<1>3. CASE at = 4
  <2>1. tmpSent' = tmpSent \cup {"whatsapp"} /\ UNCHANGED <<tmpRow, tmpTrace>>
    BY <1>3, TmpCollectionsCode DEF TmpQueue, TmpEffect
  <2>2. TmpPrefix'
    BY <2>1 DEF TmpPrefix, TmpLadder
  <2> QED
    BY <1>3, <2>1, <2>2 DEF TmpTyped, TmpCollectionsHere, TmpCollectionsPast
<1>4. CASE at = 5
  <2> DEFINE act == TmpStep("waited", "waited", "escalated", "waiting_timer")
  <2>1. TmpRecord(act) /\ UNCHANGED tmpSent
    BY <1>4, TmpCollectionsCode DEF TmpStep, TmpEffect
  <2>2. /\ act.from = "waited" /\ act.done = "waited" /\ act.to = "escalated" /\ act.status = "waiting_timer"
        /\ act.done \in TmpNames
    BY DEF TmpStep, TmpNames
  <2> HIDE DEF act
  <2>n. tmpRow.step = act.from => Len(tmpTrace) = 1
    BY <2>2 DEF TmpCollectionsHere
  <2>3. tmpRow.step = act.from => 2 <= Len(TmpLadder) /\ act.done = TmpLadder[2]
    BY <1>l, <2>2
  <2>m. tmpRow.step = act.from => 2 > 0 /\ Len(tmpTrace) = 2 - 1
    BY <2>n
  <2>4. TmpPrefix' /\ (tmpRow.step # act.from => UNCHANGED <<tmpRow, tmpTrace>>)
    BY <2>1, <2>2, <2>3, <2>m, TmpRecordGrows
  <2>5. tmpRow.step = act.from => tmpRow' = [status |-> act.status, step |-> act.to] /\ Len(tmpTrace') = 2
    BY <2>1, <2>2, <2>3, <2>m, TmpRecordGrows
  <2>6. CASE tmpRow.step # act.from
    BY <1>4, <2>1, <2>2, <2>4, <2>6 DEF TmpTyped, TmpCollectionsHere, TmpCollectionsPast
  <2>7. CASE tmpRow.step = act.from
    BY <1>4, <2>1, <2>2, <2>4, <2>5, <2>7 DEF TmpTyped, TmpRows, TmpCollectionsHere, TmpCollectionsPast
  <2> QED
    BY <2>6, <2>7
<1>5. CASE at = 7
  <2> DEFINE act == TmpStep("escalated", "task_created", "task_created", "running")
  <2>1. TmpRecord(act) /\ UNCHANGED tmpSent
    BY <1>5, TmpCollectionsCode DEF TmpStep, TmpEffect
  <2>2. /\ act.from = "escalated" /\ act.done = "task_created" /\ act.to = "task_created" /\ act.status = "running"
        /\ act.done \in TmpNames
    BY DEF TmpStep, TmpNames
  <2> HIDE DEF act
  <2>n. tmpRow.step = act.from => Len(tmpTrace) = 2
    BY <2>2 DEF TmpCollectionsHere
  <2>3. tmpRow.step = act.from => 3 <= Len(TmpLadder) /\ act.done = TmpLadder[3]
    BY <1>l, <2>2
  <2>m. tmpRow.step = act.from => 3 > 0 /\ Len(tmpTrace) = 3 - 1
    BY <2>n
  <2>4. TmpPrefix' /\ (tmpRow.step # act.from => UNCHANGED <<tmpRow, tmpTrace>>)
    BY <2>1, <2>2, <2>3, <2>m, TmpRecordGrows
  <2>5. tmpRow.step = act.from => tmpRow' = [status |-> act.status, step |-> act.to] /\ Len(tmpTrace') = 3
    BY <2>1, <2>2, <2>3, <2>m, TmpRecordGrows
  <2>6. CASE tmpRow.step # act.from
    BY <1>5, <2>1, <2>2, <2>4, <2>6 DEF TmpTyped, TmpCollectionsHere, TmpCollectionsPast
  <2>7. CASE tmpRow.step = act.from
    BY <1>5, <2>1, <2>2, <2>4, <2>5, <2>7 DEF TmpTyped, TmpRows, TmpCollectionsHere, TmpCollectionsPast
  <2> QED
    BY <2>6, <2>7
<1>6. CASE at = 8
  <2> DEFINE act == TmpSeal("task_created")
  <2>1. TmpRecord(act) /\ UNCHANGED tmpSent
    BY <1>6, TmpCollectionsCode DEF TmpSeal, TmpEffect
  <2>2. /\ act.from = "task_created" /\ act.done = "closed" /\ act.to = "closed" /\ act.status = "completed"
        /\ act.done \in TmpNames
    BY DEF TmpSeal, TmpNames
  <2> HIDE DEF act
  <2>n. tmpRow.step = act.from => Len(tmpTrace) = 3
    BY <2>2 DEF TmpCollectionsHere
  <2>3. tmpRow.step = act.from => 4 <= Len(TmpLadder) /\ act.done = TmpLadder[4]
    BY <1>l, <2>2
  <2>m. tmpRow.step = act.from => 4 > 0 /\ Len(tmpTrace) = 4 - 1
    BY <2>n
  <2>4. TmpPrefix' /\ (tmpRow.step # act.from => UNCHANGED <<tmpRow, tmpTrace>>)
    BY <2>1, <2>2, <2>3, <2>m, TmpRecordGrows
  <2>5. tmpRow.step = act.from => tmpRow' = [status |-> act.status, step |-> act.to] /\ Len(tmpTrace') = 4
    BY <2>1, <2>2, <2>3, <2>m, TmpRecordGrows
  <2>6. CASE tmpRow.step # act.from
    BY <1>6, <2>1, <2>2, <2>4, <2>6 DEF TmpTyped, TmpCollectionsHere, TmpCollectionsPast
  <2>7. CASE tmpRow.step = act.from
    BY <1>6, <2>1, <2>2, <2>4, <2>5, <2>7 DEF TmpTyped, TmpRows, TmpCollectionsHere, TmpCollectionsPast
  <2> QED
    BY <2>6, <2>7
<1> QED
  BY <1>0, <1>1, <1>2, <1>3, <1>4, <1>5, <1>6

\* What stands past an instruction stands past the ones before it.
LEMMA TmpPastDown == ASSUME NEW pc \in Nat, TmpPast(pc), NEW at \in 1 .. pc PROVE TmpPast(at)
  BY DEF TmpPast, TmpCallbackPast, TmpCollectionsPast

\* The effect of an instruction the execution has reached, whenever it comes.
LEMMA TmpEffectKeeps ==
  ASSUME TmpInv, tmpStart.type # "none", UNCHANGED tmpStart, NEW pc \in Nat, pc = tmpExec.pc, NEW at \in 1 .. pc,
         NEW act, act = TmpProgram(tmpStart.type)[at], act.op # "timer", TmpEffect(act)
  PROVE  /\ tmpRow' \in TmpRows /\ (tmpRow'.status = "completed" => tmpRow'.step = "closed")
         /\ TmpHere' /\ TmpPast(pc)'
         /\ at # Len(TmpProgram(tmpStart.type)) => TmpPast(at + 1)'
<1>1. at \in Nat /\ TmpTyped /\ TmpHere /\ TmpPast(pc) /\ TmpPast(at) /\ tmpStart.type \in {"callback", "collections"}
  BY TmpPastDown DEF TmpInv, TmpTyped
<1>2. CASE tmpStart.type = "callback"
  <2>1. TmpPrefix /\ TmpCallbackHere /\ TmpCallbackPast(pc) /\ TmpCallbackPast(at)
    BY <1>1, <1>2 DEF TmpHere, TmpPast
  <2>2. /\ tmpRow' \in TmpRows /\ (tmpRow' = tmpRow \/ (tmpRow'.status = "completed" => tmpRow'.step = "closed"))
        /\ TmpPrefix' /\ TmpCallbackHere' /\ TmpCallbackPast(pc)'
        /\ at # 4 => TmpCallbackPast(at + 1)'
    BY <1>1, <1>2, <2>1, TmpCallbackEffect
  <2> QED
    BY <1>2, <2>2, TmpCallbackCode DEF TmpInv, TmpHere, TmpPast
<1>3. CASE tmpStart.type = "collections"
  <2>1. TmpPrefix /\ TmpCollectionsHere /\ TmpCollectionsPast(pc) /\ TmpCollectionsPast(at)
    BY <1>1, <1>3 DEF TmpHere, TmpPast
  <2>2. /\ tmpRow' \in TmpRows /\ (tmpRow' = tmpRow \/ (tmpRow'.status = "completed" => tmpRow'.step = "closed"))
        /\ TmpPrefix' /\ TmpCollectionsHere' /\ TmpCollectionsPast(pc)'
        /\ at # 8 => TmpCollectionsPast(at + 1)'
    BY <1>1, <1>3, <2>1, TmpCollectionsEffect
  <2> QED
    BY <1>3, <2>2, TmpCollectionsCode DEF TmpInv, TmpHere, TmpPast
<1> QED
  BY <1>1, <1>2, <1>3

\* What is at work stays within reach as the execution goes on.
LEMMA TmpReachKept ==
  ASSUME TmpInv, tmpStart'.type = tmpStart.type, tmpStart.type # "none", NEW pc \in Nat, pc = tmpExec.pc, NEW to \in Nat,
         to = tmpExec'.pc, pc <= to, \A act \in tmpFlying' : act \in tmpFlying \/ (act = TmpNow /\ act.op # "timer")
  PROVE  \A act \in tmpFlying' : TmpReached(act)'
<1> SUFFICES ASSUME NEW act \in tmpFlying' PROVE TmpReached(act)'
  OBVIOUS
<1>1. pc \in 1 .. pc
  BY DEF TmpInv, TmpPast, TmpCallbackPast, TmpCollectionsPast
<1>2. TmpReached(act)
  BY <1>1 DEF TmpInv, TmpReached, TmpNow
<1>3. act.op # "timer" /\ \E k \in 1 .. pc : act = TmpProgram(tmpStart.type)[k]
  BY <1>2 DEF TmpReached
<1>4. TmpProgram(tmpStart.type)' = TmpProgram(tmpStart.type)
  BY DEF TmpProgram
<1> QED
  BY <1>3, <1>4 DEF TmpReached

LEMMA TmpMarkKeeps ==
  ASSUME TmpInv, NEW status \in {"failed", "canceled"}, TmpMark(status)
  PROVE  /\ tmpRow' \in TmpRows /\ tmpRow'.step = tmpRow.step
         /\ tmpRow'.status = "completed" => tmpRow.status = "completed"
         /\ tmpRow'.status = "none" <=> tmpRow.status = "none"
  BY DEF TmpInv, TmpTyped, TmpRows, TmpMark, TmpLive

LEMMA TmpInitInv == TmpInit => TmpInv
  BY DEF TmpInit, TmpInv, TmpTyped, TmpExecs, TmpRows, TmpUnstarted, TmpUnexecuted

LEMMA TmpStartKeeps ==
  ASSUME TmpInv, NEW type \in {"callback", "collections"}, TmpStartInstance(type) PROVE TmpInv'
<1>1. tmpStart.type = "none" /\ tmpTrace = <<>> /\ tmpSent = {} /\ tmpFlying = {} /\ tmpExec.state = "none"
  BY DEF TmpInv, TmpTyped, TmpUnstarted, TmpStartInstance
<1>2. tmpStart' = [type |-> type, at |-> "execute"] /\ tmpRow' = [status |-> "waiting_timer", step |-> TmpFirst(type)]
  BY DEF TmpStartInstance
<1>3. TmpTyped' /\ TmpUnstarted' /\ TmpUnexecuted'
  BY <1>1, <1>2 DEF TmpInv, TmpTyped, TmpUnstarted, TmpUnexecuted, TmpStartInstance, TmpRows, TmpFirst
<1>4. tmpTrace' = <<>> /\ tmpSent' = {} /\ tmpExec' = tmpExec /\ tmpExec.pc = 1
  BY <1>1 DEF TmpInv, TmpUnexecuted, TmpStartInstance
<1>5. TmpPrefix'
  <2>1. Len(TmpLadder') \in Nat
    BY TmpLadderIs DEF TmpLadder
  <2> QED
    BY <1>4, <2>1 DEF TmpPrefix
<1>6. TmpHere' /\ TmpPast(tmpExec.pc)'
  BY <1>2, <1>4, <1>5 DEF TmpHere, TmpPast, TmpFirst,
     TmpCallbackHere, TmpCallbackPast, TmpCollectionsHere, TmpCollectionsPast
<1> QED
  BY <1>1, <1>2, <1>3, <1>6 DEF TmpInv, TmpStartInstance

\* The steps that leave the row and the trace alone, and the place in the
\* workflow.
LEMMA TmpStays ==
  ASSUME TmpInv, tmpStart.type # "none", tmpStart'.type = tmpStart.type,
         tmpStart' \in [type : {"none", "callback", "collections"}, at : {"execute", "failed", "done"}],
         tmpStart'.at = "execute" => tmpExec'.state = "none",
         UNCHANGED <<tmpTrace, tmpSent>>, tmpRow' \in TmpRows, tmpRow'.step = tmpRow.step,
         tmpRow'.status = "completed" => tmpRow.status = "completed",
         tmpExec' \in TmpExecs, tmpExec'.pc = tmpExec.pc, tmpExec'.state = "none" => tmpExec.state = "none",
         \A act \in tmpFlying' : act \in tmpFlying \/ (act = TmpNow /\ act.op # "timer")
  PROVE  TmpInv'
<1>1. TmpTyped' /\ TmpUnstarted' /\ TmpUnexecuted'
  BY DEF TmpInv, TmpTyped, TmpUnstarted, TmpUnexecuted
<1>2. TmpPrefix'
  BY DEF TmpInv, TmpHere, TmpPrefix, TmpLadder
<1>3. TmpHere' /\ TmpPast(tmpExec.pc)'
  BY <1>2 DEF TmpInv, TmpHere, TmpPast, TmpCallbackHere, TmpCallbackPast, TmpCollectionsHere, TmpCollectionsPast
<1>4. tmpExec.pc \in Nat /\ tmpExec'.pc \in Nat /\ tmpExec.pc <= tmpExec'.pc
  BY DEF TmpInv, TmpTyped, TmpExecs
<1>5. \A act \in tmpFlying' : TmpReached(act)'
  BY <1>4, TmpReachKept
<1> QED
  BY <1>1, <1>3, <1>5 DEF TmpInv

\* Every step but the start is one of an instance that was started.
LEMMA TmpStarted ==
  ASSUME TmpInv, tmpExec.state # "none" \/ tmpStart.at # "idle" \/ tmpRow.status # "none"
  PROVE  /\ tmpStart.type # "none" /\ tmpStart \in [type : {"none", "callback", "collections"}, at : {"execute", "failed", "done"}]
         /\ tmpExec \in TmpExecs /\ tmpRow \in TmpRows
  BY DEF TmpInv, TmpTyped, TmpUnstarted

LEMMA TmpExecuteKeeps ==
  ASSUME TmpInv, NEW starts \in BOOLEAN, NEW ok \in BOOLEAN, TmpExecuteWorkflow(starts, ok) PROVE TmpInv'
<1>1. tmpExec' \in TmpExecs /\ tmpExec'.pc = tmpExec.pc /\ (tmpExec'.state = "none" => tmpExec.state = "none")
  BY TmpStarted DEF TmpExecuteWorkflow, TmpExecs
<1>2. tmpStart'.type = tmpStart.type /\ tmpStart' \in [type : {"none", "callback", "collections"}, at : {"execute", "failed", "done"}]
  BY TmpStarted DEF TmpExecuteWorkflow
<1>4. tmpStart'.at # "execute"
  BY TmpStarted DEF TmpExecuteWorkflow
<1>3. tmpFlying' = tmpFlying
  BY DEF TmpExecuteWorkflow
<1> QED
  BY <1>1, <1>2, <1>3, <1>4, TmpStarted, TmpStays DEF TmpExecuteWorkflow

LEMMA TmpStartFailedKeeps == ASSUME TmpInv, TmpStartFailed PROVE TmpInv'
<1>1. /\ tmpStart'.type = tmpStart.type /\ tmpStart'.at # "execute"
      /\ tmpStart' \in [type : {"none", "callback", "collections"}, at : {"execute", "failed", "done"}]
  BY TmpStarted DEF TmpStartFailed
<1> QED
  BY <1>1, TmpStarted, TmpMarkKeeps, TmpStays DEF TmpStartFailed, TmpInv

LEMMA TmpFailKeeps == ASSUME TmpInv, NEW runs \in BOOLEAN, TmpFail(runs) PROVE TmpInv'
<1>1. tmpExec' \in TmpExecs /\ tmpExec'.pc = tmpExec.pc /\ tmpExec'.state # "none"
  BY TmpStarted DEF TmpFail, TmpExecs
<1>2. /\ tmpRow' \in TmpRows /\ tmpRow'.step = tmpRow.step
      /\ tmpRow'.status = "completed" => tmpRow.status = "completed"
  BY TmpStarted, TmpMarkKeeps DEF TmpFail
<1>3. tmpFlying' = tmpFlying /\ tmpStart'.at # "execute"
  BY DEF TmpFail, TmpInv, TmpUnexecuted
<1> QED
  BY <1>1, <1>2, <1>3, TmpStarted, TmpStays DEF TmpFail

LEMMA TmpCanceledKeeps == ASSUME TmpInv, NEW works \in BOOLEAN, TmpCanceled(works) PROVE TmpInv'
<1>1. tmpExec' \in TmpExecs /\ tmpExec'.pc = tmpExec.pc /\ tmpExec'.state = "canceled"
  BY TmpStarted DEF TmpCanceled, TmpExecs
<1>2. /\ tmpRow' \in TmpRows /\ tmpRow'.step = tmpRow.step
      /\ tmpRow'.status = "completed" => tmpRow.status = "completed"
  BY TmpStarted, TmpMarkKeeps DEF TmpCanceled
<1>4. tmpStart'.at # "execute"
  BY DEF TmpCanceled, TmpInv, TmpUnexecuted
<1>3. \A act \in tmpFlying' : act \in tmpFlying \/ (act = TmpNow /\ act.op # "timer")
  BY DEF TmpCanceled
<1> QED
  BY <1>1, <1>2, <1>3, <1>4, TmpStarted, TmpStays DEF TmpCanceled

LEMMA TmpCancelReadKeeps == ASSUME TmpInv, TmpCancelRead PROVE TmpInv'
  BY TmpStarted, TmpStays DEF TmpCancelRead, TmpInv, TmpUnexecuted

LEMMA TmpCancelRequestKeeps == ASSUME TmpInv, NEW ok \in BOOLEAN, TmpCancelRequest(ok) PROVE TmpInv'
<1>1. CASE tmpStart.type # "none"
  <2>1. tmpExec' \in TmpExecs /\ tmpExec'.pc = tmpExec.pc /\ (tmpExec'.state = "none" => tmpExec.state = "none")
    BY DEF TmpCancelRequest, TmpInv, TmpTyped, TmpExecs
  <2>2. tmpStart.at # "idle"
    BY <1>1 DEF TmpInv, TmpTyped
  <2>4. tmpStart'.at = "execute" => tmpExec'.state = "none"
    BY DEF TmpCancelRequest, TmpInv, TmpUnexecuted
  <2>3. tmpFlying' = tmpFlying
    BY DEF TmpCancelRequest
  <2> QED
    BY <1>1, <2>1, <2>2, <2>3, <2>4, TmpStarted, TmpStays DEF TmpCancelRequest
<1>2. CASE tmpStart.type = "none"
  <2>1. UNCHANGED <<tmpStart, tmpRow, tmpTrace, tmpExec, tmpFlying, tmpSent>>
    BY <1>2 DEF TmpCancelRequest, TmpInv, TmpUnstarted
  <2> QED
    BY <1>2, <2>1 DEF TmpInv, TmpTyped, TmpUnstarted, TmpUnexecuted
<1> QED
  BY <1>1, <1>2

LEMMA TmpCancelSealKeeps == ASSUME TmpInv, TmpCancelSeal PROVE TmpInv'
<1>1. CASE tmpStart.type # "none"
  <2>1. tmpStart.at # "idle"
    BY <1>1 DEF TmpInv, TmpTyped
  <2> QED
    BY <1>1, <2>1, TmpStarted, TmpMarkKeeps, TmpStays DEF TmpCancelSeal, TmpInv, TmpUnexecuted
<1>2. CASE tmpStart.type = "none"
  <2>1. UNCHANGED <<tmpStart, tmpRow, tmpTrace, tmpExec, tmpFlying, tmpSent>>
    BY <1>2 DEF TmpCancelSeal, TmpMark, TmpLive, TmpInv, TmpUnstarted
  <2> QED
    BY <1>2, <2>1 DEF TmpInv, TmpTyped, TmpUnstarted, TmpUnexecuted
<1> QED
  BY <1>1, <1>2

LEMMA TmpExecSet ==
  ASSUME NEW e \in TmpExecs, NEW n \in Nat
  PROVE  LET f == [e EXCEPT !.pc = n, !.attempts = 0] IN f \in TmpExecs /\ f.pc = n /\ f.state = e.state
  BY DEF TmpExecs

\* The instruction after the current one, or the end.
LEMMA TmpAdvancedIs ==
  ASSUME tmpExec \in TmpExecs
  PROVE  /\ TmpAdvanced \in TmpExecs
         /\ IF tmpExec.pc = Len(TmpProgram(tmpStart.type))
            THEN TmpAdvanced.pc = tmpExec.pc /\ TmpAdvanced.state = "completed"
            ELSE TmpAdvanced.pc = tmpExec.pc + 1 /\ TmpAdvanced.state = tmpExec.state
<1>1. CASE tmpExec.pc = Len(TmpProgram(tmpStart.type))
  BY <1>1 DEF TmpAdvanced, TmpExecs
<1>2. CASE tmpExec.pc # Len(TmpProgram(tmpStart.type))
  <2>1. tmpExec.pc + 1 \in Nat
    BY DEF TmpExecs
  <2>2. TmpAdvanced = [tmpExec EXCEPT !.pc = tmpExec.pc + 1, !.attempts = 0]
    BY <1>2 DEF TmpAdvanced
  <2> QED
    BY <1>2, <2>1, <2>2, TmpExecSet
<1> QED
  BY <1>1, <1>2

LEMMA TmpSucceededIs ==
  ASSUME tmpExec \in TmpExecs
  PROVE  /\ TmpSucceeded \in TmpExecs /\ TmpSucceeded.pc = TmpAdvanced.pc
         /\ tmpExec.state # "none" => TmpSucceeded.state # "none"
<1>1. TmpAdvanced \in TmpExecs /\ (tmpExec.state # "none" => TmpAdvanced.state # "none")
  BY TmpAdvancedIs
<1> QED
  BY <1>1 DEF TmpSucceeded, TmpExecs

LEMMA TmpTimerKeeps == ASSUME TmpInv, TmpTimerFires PROVE TmpInv'
<1>1. PICK at \in Nat : at = tmpExec.pc
  BY DEF TmpInv, TmpTyped, TmpExecs
<1>2. tmpExec' \in TmpExecs /\ tmpExec'.state # "none" /\ tmpExec'.pc = at + 1
      /\ tmpFlying' = tmpFlying /\ tmpStart.type # "none"
  <2>0. tmpStart.type \in {"callback", "collections"}
    BY TmpStarted DEF TmpTimerFires, TmpInv, TmpTyped
  <2>a. TmpProgram(tmpStart.type)[at].op = "timer" /\ TmpSeal("contacted").op # "timer" /\ TmpSeal("task_created").op # "timer"
    BY <1>1 DEF TmpTimerFires, TmpNow, TmpSeal
  <2>b. tmpStart.type = "callback" => at # 4
    BY <2>a, TmpCallbackCode
  <2>c. tmpStart.type = "collections" => at # 8
    BY <2>a, TmpCollectionsCode
  <2>1. at # Len(TmpProgram(tmpStart.type)) /\ tmpStart.type # "none"
    BY <2>0, <2>b, <2>c, TmpCallbackCode, TmpCollectionsCode
  <2> QED
    BY <1>1, <2>1, TmpAdvancedIs, TmpStarted DEF TmpTimerFires, TmpInv
<1>3. TmpPast(at + 1) /\ TmpPast(at + 1)'
  <2>1. CASE tmpStart.type = "callback"
    BY <1>1, <1>2, <2>1, TmpCallbackCode
       DEF TmpInv, TmpPast, TmpCallbackPast, TmpTimerFires, TmpNow, TmpQueue, TmpStep, TmpSeal
  <2>2. CASE tmpStart.type = "collections"
    BY <1>1, <1>2, <2>2, TmpCollectionsCode
       DEF TmpInv, TmpPast, TmpCollectionsPast, TmpTimerFires, TmpNow, TmpQueue, TmpStep, TmpSeal
  <2> QED
    BY <1>2, <2>1, <2>2 DEF TmpInv, TmpTyped
<1>4. TmpHere'
  BY <1>2 DEF TmpTimerFires, TmpInv, TmpHere, TmpPrefix, TmpLadder, TmpCallbackHere, TmpCollectionsHere
<1>5. \A act \in tmpFlying' : TmpReached(act)'
  <2>1. PICK to \in Nat : to = tmpExec'.pc /\ at <= to
    BY <1>1, <1>2
  <2> QED
    BY <1>1, <1>2, <2>1, TmpReachKept DEF TmpTimerFires
<1> QED
  BY <1>2, <1>3, <1>4, <1>5 DEF TmpTimerFires, TmpInv, TmpTyped, TmpUnstarted, TmpUnexecuted

LEMMA TmpActivityKeeps ==
  ASSUME TmpInv, NEW outcome \in {"ok", "lost", "error", "late"}, TmpActivity(outcome) PROVE TmpInv'
<1>0. /\ tmpStart.type # "none" /\ tmpStart.at \notin {"idle", "execute"} /\ tmpExec \in TmpExecs /\ tmpRow \in TmpRows
      /\ UNCHANGED tmpStart /\ tmpExec.state # "none"
  BY TmpStarted DEF TmpActivity, TmpInv, TmpTyped, TmpUnexecuted
<1>f. \A act \in tmpFlying' : act \in tmpFlying \/ (act = TmpNow /\ act.op # "timer")
  BY DEF TmpActivity
<1>1. CASE outcome \in {"error", "late"}
  <2>1. tmpExec' \in TmpExecs /\ tmpExec'.pc = tmpExec.pc /\ tmpExec'.state # "none"
    BY <1>0, <1>1 DEF TmpActivity, TmpExecs
  <2> QED
    BY <1>0, <1>f, <1>1, <2>1, TmpStarted, TmpStays DEF TmpActivity
<1>2. CASE outcome \in {"ok", "lost"}
  <2>1. PICK at \in Nat : at = tmpExec.pc
    BY <1>0 DEF TmpExecs
  <2>p. at \in 1 .. at
    BY <1>0, <2>1 DEF TmpInv, TmpPast, TmpCallbackPast, TmpCollectionsPast
  <2>2. TmpNow.op # "timer" /\ TmpEffect(TmpNow) /\ TmpNow = TmpProgram(tmpStart.type)[at]
    BY <1>2, <2>1 DEF TmpActivity, TmpNow
  <2>3. /\ tmpRow' \in TmpRows /\ (tmpRow'.status = "completed" => tmpRow'.step = "closed")
        /\ TmpHere' /\ TmpPast(at)'
        /\ at # Len(TmpProgram(tmpStart.type)) => TmpPast(at + 1)'
    BY <1>0, <2>1, <2>p, <2>2, TmpEffectKeeps
  <2>4. /\ tmpExec' \in TmpExecs /\ tmpExec'.state # "none"
        /\ \/ tmpExec'.pc = at
           \/ tmpExec'.pc = at + 1 /\ at # Len(TmpProgram(tmpStart.type))
    <3>1. CASE outcome = "ok"
      <4>1. tmpExec' = TmpSucceeded
        BY <3>1 DEF TmpActivity
      <4>2. tmpExec' \in TmpExecs /\ tmpExec'.state # "none" /\ tmpExec'.pc = TmpAdvanced.pc
        BY <1>0, <4>1, TmpSucceededIs
      <4>3. TmpAdvanced.pc = at \/ (TmpAdvanced.pc = at + 1 /\ at # Len(TmpProgram(tmpStart.type)))
        BY <1>0, <2>1, TmpAdvancedIs
      <4> QED
        BY <4>2, <4>3
    <3>2. CASE outcome = "lost"
      BY <1>0, <2>1, <3>2 DEF TmpActivity, TmpExecs
    <3> QED
      BY <1>2, <3>1, <3>2
  <2>5. TmpPast(tmpExec.pc)'
    BY <2>3, <2>4
  <2>6. \A act \in tmpFlying' : TmpReached(act)'
    <3>1. PICK to \in Nat : to = tmpExec'.pc /\ at <= to
      BY <2>4
    <3> QED
      BY <1>0, <1>f, <2>1, <3>1, TmpReachKept
  <2> QED
    BY <1>0, <2>3, <2>4, <2>5, <2>6 DEF TmpInv, TmpTyped, TmpUnstarted, TmpUnexecuted
<1> QED
  BY <1>1, <1>2

LEMMA TmpLandsKeeps == ASSUME TmpInv, NEW act \in tmpFlying, TmpLands(act) PROVE TmpInv'
<1>1. tmpFlying' \subseteq tmpFlying /\ TmpEffect(act) /\ UNCHANGED <<tmpStart, tmpExec>>
  BY DEF TmpLands
<1>2. PICK pc \in Nat : pc = tmpExec.pc
  BY DEF TmpInv, TmpTyped, TmpExecs
<1>3. tmpStart.type # "none"
  BY DEF TmpInv, TmpUnstarted
<1>4. PICK at \in 1 .. pc : act = TmpProgram(tmpStart.type)[at] /\ act.op # "timer"
  BY <1>2 DEF TmpInv, TmpReached
<1>5. /\ tmpRow' \in TmpRows /\ (tmpRow'.status = "completed" => tmpRow'.step = "closed")
      /\ TmpHere' /\ TmpPast(pc)'
  BY <1>1, <1>2, <1>3, <1>4, TmpEffectKeeps
<1>6. \A b \in tmpFlying' : TmpReached(b)'
  BY <1>1, <1>2, <1>3, TmpReachKept
<1> QED
  BY <1>1, <1>2, <1>3, <1>5, <1>6 DEF TmpInv, TmpTyped, TmpUnstarted, TmpUnexecuted

LEMMA TmpNextInv == TmpInv /\ [TmpNext]_tmpVars => TmpInv'
<1> SUFFICES ASSUME TmpInv, [TmpNext]_tmpVars PROVE TmpInv'
  OBVIOUS
<1>1. CASE UNCHANGED tmpVars
  <2>1. TmpLadder' = TmpLadder /\ TmpProgram(tmpStart.type)' = TmpProgram(tmpStart.type)
    BY <1>1 DEF tmpVars, TmpLadder, TmpProgram
  <2>2. (TmpHere' <=> TmpHere) /\ (TmpPast(tmpExec.pc)' <=> TmpPast(tmpExec.pc))
    BY <1>1, <2>1 DEF tmpVars, TmpHere, TmpPast, TmpPrefix, TmpCallbackHere, TmpCallbackPast, TmpCollectionsHere, TmpCollectionsPast
  <2> QED
    BY <1>1, <2>1, <2>2 DEF tmpVars, TmpInv, TmpReached, TmpTyped, TmpUnstarted, TmpUnexecuted
<1>2. CASE TmpNext
  BY <1>2, TmpStartKeeps, TmpStartFailedKeeps, TmpTimerKeeps, TmpCancelReadKeeps, TmpCancelSealKeeps, TmpExecuteKeeps,
     TmpActivityKeeps, TmpFailKeeps, TmpCanceledKeeps, TmpCancelRequestKeeps, TmpLandsKeeps DEF TmpNext
<1> QED
  BY <1>1, <1>2

\* The audit row and trace of a workflow tell the truth about its execution:
\* repeated, lost and late activities write no step twice, skip none and reorder
\* none, and completed stands for every message queued and every step recorded;
\* for any number of attempts.
THEOREM TmpAuditTold == TmpSpec => []TmpAuditHonest
<1>1. TmpInv => TmpAuditHonest
  <2> SUFFICES ASSUME TmpInv PROVE TmpAuditHonest
    OBVIOUS
  <2>1. CASE tmpStart.type = "none"
    <3>1. tmpTrace = <<>> /\ tmpRow.status # "completed" /\ Len(TmpLadder) \in Nat
      BY <2>1, TmpLadderIs DEF TmpInv, TmpUnstarted
    <3> QED
      BY <3>1 DEF TmpAuditHonest, TmpTraceIsLadder, TmpCompletedMeansDone
  <2>2. CASE tmpStart.type # "none"
    <3>1. TmpPrefix /\ TmpLadder \in Seq(TmpNames)
      BY <2>2, TmpLadderIs DEF TmpInv, TmpHere
    <3>2. TmpTraceIsLadder
      BY <3>1 DEF TmpPrefix, TmpTraceIsLadder
    <3>3. ASSUME tmpRow.status = "completed"
          PROVE  /\ Len(tmpTrace) = Len(TmpLadder)
                 /\ tmpSent = IF tmpStart.type = "callback" THEN {"sms"} ELSE {"sms", "whatsapp"}
      <4>1. CASE tmpStart.type = "callback"
        BY <3>3, <4>1, TmpLadderIs DEF TmpInv, TmpHere, TmpCallbackHere
      <4>2. CASE tmpStart.type = "collections"
        BY <3>3, <4>2, TmpLadderIs DEF TmpInv, TmpHere, TmpCollectionsHere
      <4> QED
        BY <2>2, <4>1, <4>2 DEF TmpInv, TmpTyped
    <3>4. ASSUME tmpRow.status = "completed" PROVE tmpTrace = TmpLadder
      BY <3>1, <3>3, <3>4 DEF TmpPrefix
    <3> QED
      BY <3>2, <3>3, <3>4 DEF TmpAuditHonest, TmpCompletedMeansDone
  <2> QED
    BY <2>1, <2>2
<1> QED
  BY <1>1, TmpInitInv, TmpNextInv, PTL DEF TmpSpec

(***************************************************************************)
(* Conversations.                                                          *)
(***************************************************************************)
CnvBusy == {"insert", "touch"}
CnvTxs ==
    [at : {"idle", "lock", "insert", "touch", "done"}, conv : CnvIds \cup {CnvNone},
     lock : {"none", "share", "update"}, pick : CnvIds \cup {CnvNone}, seen : SUBSET CnvIds,
     result : {"none", "closed", "existing", "created", "error", "deadlock"}]

CnvTyped ==
    /\ cnvStatus \in [CnvIds -> {"none", "open", "closed"}]
    /\ cnvTx \in [CnvCreates -> CnvTxs]
    /\ cnvRows \subseteq [of : CnvIds, conv : CnvIds]

\* A transaction holds its conversation's row from the search to its end.
CnvShape(r, t) ==
    /\ t.at \in CnvBusy <=> t.lock # "none"
    /\ t.at \in CnvBusy => t.conv \in CnvIds
    /\ t.lock = "share" => r.names
    /\ r.names => t.conv \in {0, CnvNone}
    /\ t.at = "lock" => ~r.names
    /\ t.result = "deadlock" => r.names

CnvShapes == \A r \in CnvCreates : CnvShape(r, cnvTx[r])

\* The conversation a transaction found is open for as long as it is locked.
CnvLive(r, t) == t.at \in CnvBusy /\ t.conv # r.n => CnvOpen(t.conv)
CnvLives == \A r \in CnvCreates : CnvLive(r, cnvTx[r])

\* A conversation other than the first is there because its create committed.
CnvOwn ==
    \A r \in CnvCreates : cnvStatus[r.n] # "none" =>
        /\ cnvTx[r].at = "done" /\ cnvTx[r].conv = r.n
        /\ [of |-> r.n, conv |-> r.n] \in cnvRows

\* Whoever has the row of a conversation locked alone has it alone.
CnvShare(t, u) == t.lock # "none" /\ u.lock # "none" /\ t.conv = u.conv => t.lock = "share" /\ u.lock = "share"
CnvAlone == \A r, s \in CnvCreates : r # s => CnvShare(cnvTx[r], cnvTx[s])

\* What a search saw was committed, and if it picked nothing none of the
\* conversations opened by then is open now or ever again.
CnvSaw(s, t) ==
    /\ \A n \in t.seen : \E w \in cnvRows : w.of = n
    /\ t.pick = CnvNone /\ ~s.names =>
        \A r \in CnvCreates : r.n \in t.seen => ~CnvOpen(r.n)
CnvSeen == \A s \in CnvCreates : CnvSaw(s, cnvTx[s])
CnvRowsDone == \A w \in cnvRows, r \in CnvCreates : r.n = w.of => cnvTx[r].at = "done"

CnvInv == CnvTyped /\ CnvShapes /\ CnvLives /\ CnvOwn /\ CnvAlone /\ CnvSeen /\ CnvRowsDone

LEMMA CnvIdFacts ==
    /\ 0 \in CnvIds /\ CnvNone \notin CnvIds
    /\ \A r \in CnvCreates : r.n \in CnvIds /\ r.n # 0 /\ r.n # CnvNone /\ r.n \in Nat
    /\ \A c \in CnvIds \ {0} : \E r \in CnvCreates : c = r.n
    /\ \A r, s \in CnvCreates : r # s => r.n # s.n
  BY ConversationsAssumption DEF CnvIds, CnvNone

LEMMA CnvInvSuffices == CnvInv => CnvRacesExplained
  <1> SUFFICES ASSUME CnvInv PROVE CnvRacesExplained
    OBVIOUS
  <1>1. CnvSplitNeedsRace
    <2>1. ASSUME NEW r \in CnvCreates, NEW s \in CnvCreates, CnvOpen(r.n), CnvOpen(s.n), r.n \in cnvTx[s].seen
          PROVE  cnvTx[s].pick # CnvNone
      <3>1. cnvTx[s].conv = s.n
        BY <2>1 DEF CnvInv, CnvOwn, CnvOpen
      <3>2. ~s.names
        BY <3>1, CnvIdFacts DEF CnvInv, CnvShapes, CnvShape
      <3> QED
        BY <2>1, <3>2 DEF CnvInv, CnvSeen, CnvSaw
    <2> QED
      BY <2>1 DEF CnvSplitNeedsRace
  <1>2. CnvNoStray
    BY CnvIdFacts DEF CnvNoStray, CnvInv, CnvOwn
  <1>3. CnvVictimNamed
    BY DEF CnvVictimNamed, CnvInv, CnvShapes, CnvShape
  <1> QED
    BY <1>1, <1>2, <1>3 DEF CnvRacesExplained

LEMMA CnvInitOK == CnvInit => CnvInv
  <1> SUFFICES ASSUME CnvInit PROVE CnvInv
    OBVIOUS
  <1>1. CnvTyped
    BY DEF CnvInit, CnvTyped, CnvTxs
  <1>2. \A r \in CnvCreates : cnvTx[r] = [at |-> "idle", conv |-> CnvNone, lock |-> "none",
                                          pick |-> CnvNone, seen |-> {}, result |-> "none"]
    BY DEF CnvInit
  <1>3. CnvShapes /\ CnvLives /\ CnvAlone
    BY <1>2 DEF CnvShapes, CnvShape, CnvLives, CnvLive, CnvAlone, CnvShare, CnvBusy
  <1>4. CnvOwn
    BY CnvIdFacts DEF CnvInit, CnvOwn
  <1>5. CnvSeen /\ CnvRowsDone
    BY <1>2 DEF CnvInit, CnvSeen, CnvSaw, CnvRowsDone
  <1> QED
    BY <1>1, <1>3, <1>4, <1>5 DEF CnvInv

\* A step of a transaction that commits nothing.
LEMMA CnvTxStep ==
    ASSUME CnvInv, NEW r \in CnvCreates, NEW t \in CnvTxs, cnvTx' = [cnvTx EXCEPT ![r] = t],
           UNCHANGED <<cnvStatus, cnvRows>>, cnvTx[r].at # "done",
           CnvShape(r, t), CnvLive(r, t), CnvSaw(r, t),
           \A s \in CnvCreates \ {r} : CnvShare(t, cnvTx[s])
    PROVE  CnvInv'
  <1>1. cnvTx' \in [CnvCreates -> CnvTxs] /\ cnvTx'[r] = t /\ \A s \in CnvCreates \ {r} : cnvTx'[s] = cnvTx[s]
    BY DEF CnvInv, CnvTyped
  <1>2. CnvTyped'
    BY <1>1 DEF CnvInv, CnvTyped
  <1>3. CnvShapes'
    BY <1>1 DEF CnvInv, CnvShapes, CnvShape
  <1>4. CnvLives'
    BY <1>1 DEF CnvInv, CnvLives, CnvLive, CnvOpen
  <1>5. CnvOwn'
    BY <1>1 DEF CnvInv, CnvOwn
  <1>6. CnvAlone'
    BY <1>1 DEF CnvInv, CnvAlone, CnvShare
  <1>7. CnvSeen'
    BY <1>1 DEF CnvInv, CnvSeen, CnvSaw, CnvOpen
  <1>8. CnvRowsDone'
    BY <1>1 DEF CnvInv, CnvRowsDone
  <1> QED
    BY <1>2, <1>3, <1>4, <1>5, <1>6, <1>7, <1>8 DEF CnvInv

\* A transaction that ends without a commit.
LEMMA CnvEndStep ==
    ASSUME CnvInv, NEW r \in CnvCreates, NEW result \in {"closed", "existing", "error", "deadlock"},
           cnvTx[r].at # "done", result = "deadlock" => r.names,
           cnvTx' = CnvEnd(r, result), UNCHANGED <<cnvStatus, cnvRows>>
    PROVE  CnvInv'
  <1> DEFINE t == [cnvTx[r] EXCEPT !.at = "done", !.lock = "none", !.result = result]
  <1>0. cnvTx[r] \in CnvTxs /\ CnvShape(r, cnvTx[r]) /\ CnvSaw(r, cnvTx[r])
    BY DEF CnvInv, CnvTyped, CnvShapes, CnvSeen
  <1>1. /\ t \in CnvTxs /\ t.at = "done" /\ t.lock = "none" /\ t.result = result
        /\ t.conv = cnvTx[r].conv /\ t.pick = cnvTx[r].pick /\ t.seen = cnvTx[r].seen
    BY <1>0 DEF CnvTxs
  <1>2. cnvTx' = [cnvTx EXCEPT ![r] = t]
    BY DEF CnvEnd, CnvInv, CnvTyped
  <1> HIDE DEF t
  <1>3. CnvShape(r, t)
    BY <1>0, <1>1 DEF CnvShape, CnvBusy
  <1>4. CnvLive(r, t)
    BY <1>1 DEF CnvLive, CnvBusy
  <1>5. CnvSaw(r, t)
    BY <1>0, <1>1 DEF CnvSaw
  <1>6. \A s \in CnvCreates \ {r} : CnvShare(t, cnvTx[s])
    BY <1>1 DEF CnvShare
  <1> QED
    BY <1>1, <1>2, <1>3, <1>4, <1>5, <1>6, CnvTxStep

LEMMA CnvSearchKeeps ==
    ASSUME CnvInv, NEW r \in CnvCreates, NEW pick \in CnvIds \cup {CnvNone}, CnvSearch(r, pick)
    PROVE  CnvInv'
  <1>s. PICK seen \in SUBSET CnvIds : seen = {w.of : w \in cnvRows}
    BY DEF CnvInv, CnvTyped
  <1> DEFINE t == [cnvTx[r] EXCEPT !.at = "lock", !.pick = pick, !.seen = seen]
  <1>0. cnvTx[r] \in CnvTxs /\ CnvShape(r, cnvTx[r]) /\ cnvTx[r].at = "idle" /\ ~r.names
    BY DEF CnvInv, CnvTyped, CnvShapes, CnvSearch
  <1>1. /\ t \in CnvTxs /\ t.at = "lock" /\ t.lock = cnvTx[r].lock /\ t.result = cnvTx[r].result
        /\ t.conv = cnvTx[r].conv /\ t.pick = pick /\ t.seen = seen
    BY <1>0 DEF CnvTxs
  <1>2. cnvTx' = [cnvTx EXCEPT ![r] = t] /\ UNCHANGED <<cnvStatus, cnvRows>>
    BY <1>s DEF CnvSearch, CnvInv, CnvTyped
  <1> HIDE DEF t
  <1>3. CnvShape(r, t) /\ t.lock = "none"
    BY <1>0, <1>1 DEF CnvShape, CnvBusy
  <1>4. CnvLive(r, t)
    BY <1>1 DEF CnvLive, CnvBusy
  <1>5. CnvSaw(r, t)
    <2>1. pick = CnvNone => \A c \in CnvIds : ~CnvOpen(c)
      BY CnvIdFacts DEF CnvSearch, CnvCandidates
    <2> QED
      BY <1>s, <1>1, <2>1, CnvIdFacts DEF CnvSaw
  <1>6. \A s \in CnvCreates \ {r} : CnvShare(t, cnvTx[s])
    BY <1>3 DEF CnvShare
  <1> QED
    BY <1>0, <1>1, <1>2, <1>3, <1>4, <1>5, <1>6, CnvTxStep

\* Nobody else has a conversation that its create has not opened yet.
LEMMA CnvUnopened ==
    ASSUME CnvInv, NEW r \in CnvCreates, cnvTx[r].at # "done", NEW s \in CnvCreates, s # r
    PROVE  cnvTx[s].lock # "none" => cnvTx[s].conv # r.n
  <1> SUFFICES ASSUME cnvTx[s].lock # "none", cnvTx[s].conv = r.n PROVE FALSE
    OBVIOUS
  <1>1. cnvTx[s].at \in CnvBusy
    BY DEF CnvInv, CnvShapes, CnvShape
  <1>2. r.n # s.n
    BY CnvIdFacts
  <1>3. CnvOpen(r.n)
    BY <1>1, <1>2 DEF CnvInv, CnvLives, CnvLive
  <1> QED
    BY <1>3 DEF CnvInv, CnvOwn, CnvOpen

LEMMA CnvFindOrOpenKeeps ==
    ASSUME CnvInv, NEW r \in CnvCreates, CnvFindOrOpen(r) PROVE CnvInv'
  <1>a. PICK p : p = cnvTx[r].pick
    OBVIOUS
  <1>b. PICK c : c = IF CnvStillThere(p) THEN p ELSE r.n
    OBVIOUS
  <1> DEFINE t == [cnvTx[r] EXCEPT !.at = "insert", !.conv = c, !.lock = "update"]
  <1>0. cnvTx[r] \in CnvTxs /\ CnvShape(r, cnvTx[r]) /\ CnvSaw(r, cnvTx[r]) /\ cnvTx[r].at = "lock"
    BY DEF CnvInv, CnvTyped, CnvShapes, CnvSeen, CnvFindOrOpen
  <1>c. c \in CnvIds /\ (c # r.n => CnvOpen(c) /\ c = p)
    BY <1>0, <1>a, <1>b, CnvIdFacts DEF CnvStillThere, CnvTxs
  <1>1. /\ t \in CnvTxs /\ t.at = "insert" /\ t.lock = "update" /\ t.result = cnvTx[r].result
        /\ t.conv = c /\ t.pick = cnvTx[r].pick /\ t.seen = cnvTx[r].seen
    BY <1>0, <1>c DEF CnvTxs
  <1>2. cnvTx' = [cnvTx EXCEPT ![r] = t] /\ UNCHANGED <<cnvStatus, cnvRows>>
    BY <1>a, <1>b DEF CnvFindOrOpen, CnvSearchLock, CnvInv, CnvTyped
  <1> HIDE DEF t
  <1>n. ~r.names
    BY <1>0 DEF CnvShape
  <1>3. CnvShape(r, t)
    BY <1>0, <1>1, <1>c, <1>n DEF CnvShape, CnvBusy
  <1>4. CnvLive(r, t)
    BY <1>1, <1>c DEF CnvLive
  <1>5. CnvSaw(r, t)
    BY <1>0, <1>1 DEF CnvSaw
  <1>6. \A s \in CnvCreates \ {r} : CnvShare(t, cnvTx[s])
    <2> SUFFICES ASSUME NEW s \in CnvCreates \ {r}, cnvTx[s].lock # "none", cnvTx[s].conv = c PROVE FALSE
      BY <1>1 DEF CnvShare
    <2>1. c # r.n
      BY <1>0, CnvUnopened
    <2>2. cnvTx[s].lock \in {"share", "update"}
      BY DEF CnvInv, CnvTyped, CnvTxs
    <2> QED
      BY <1>a, <1>c, <2>1, <2>2 DEF CnvFindOrOpen, CnvSearchLock, CnvHeldByOther, CnvHolds
  <1> QED
    BY <1>0, <1>1, <1>2, <1>3, <1>4, <1>5, <1>6, CnvTxStep

LEMMA CnvNamedKeeps == ASSUME CnvInv, NEW r \in CnvCreates, CnvNamed(r) PROVE CnvInv'
  <1>0. cnvTx[r] \in CnvTxs /\ CnvShape(r, cnvTx[r]) /\ cnvTx[r].at = "idle" /\ r.names
        /\ UNCHANGED <<cnvStatus, cnvRows>>
    BY DEF CnvInv, CnvTyped, CnvShapes, CnvNamed
  <1>1. CASE ~CnvOpen(0)
    BY <1>0, <1>1, CnvEndStep DEF CnvNamed
  <1>2. CASE CnvOpen(0)
    <2>s. PICK seen \in SUBSET CnvIds : seen = {w.of : w \in cnvRows}
      BY DEF CnvInv, CnvTyped
    <2> DEFINE t == [cnvTx[r] EXCEPT !.at = "insert", !.conv = 0, !.lock = "share", !.seen = seen]
    <2>1. /\ t \in CnvTxs /\ t.at = "insert" /\ t.lock = "share" /\ t.result = cnvTx[r].result
          /\ t.conv = 0 /\ t.pick = cnvTx[r].pick /\ t.seen = seen
      BY <1>0, CnvIdFacts DEF CnvTxs
    <2>2. cnvTx' = [cnvTx EXCEPT ![r] = t]
      BY <1>2, <2>s DEF CnvNamed, CnvInv, CnvTyped
    <2> HIDE DEF t
    <2>3. CnvShape(r, t)
      BY <1>0, <2>1, CnvIdFacts DEF CnvShape, CnvBusy
    <2>4. CnvLive(r, t)
      BY <1>2, <2>1 DEF CnvLive
    <2>5. CnvSaw(r, t)
      BY <1>0, <2>s, <2>1 DEF CnvSaw
    <2>6. \A s \in CnvCreates \ {r} : CnvShare(t, cnvTx[s])
      <3>1. \A s \in CnvCreates : cnvTx[s].lock \in {"none", "share", "update"}
        BY DEF CnvInv, CnvTyped, CnvTxs
      <3> QED
        BY <2>1, <3>1 DEF CnvShare, CnvNamed, CnvHeldByOther, CnvHolds
    <2> QED
      BY <1>0, <2>1, <2>2, <2>3, <2>4, <2>5, <2>6, CnvTxStep
  <1> QED
    BY <1>1, <1>2

LEMMA CnvInsertKeeps == ASSUME CnvInv, NEW r \in CnvCreates, CnvInsert(r) PROVE CnvInv'
  <1>0. /\ cnvTx[r] \in CnvTxs /\ CnvShape(r, cnvTx[r]) /\ CnvSaw(r, cnvTx[r]) /\ CnvLive(r, cnvTx[r])
        /\ cnvTx[r].at = "insert" /\ UNCHANGED <<cnvStatus, cnvRows>>
    BY DEF CnvInv, CnvTyped, CnvShapes, CnvLives, CnvSeen, CnvInsert, CnvDuplicate
  <1>1. CASE cnvTx' = CnvEnd(r, "existing")
    BY <1>0, <1>1, CnvEndStep
  <1>2. CASE cnvTx' = [cnvTx EXCEPT ![r].at = "touch"]
    <2> DEFINE t == [cnvTx[r] EXCEPT !.at = "touch"]
    <2>1. /\ t \in CnvTxs /\ t.at = "touch" /\ t.lock = cnvTx[r].lock /\ t.result = cnvTx[r].result
          /\ t.conv = cnvTx[r].conv /\ t.pick = cnvTx[r].pick /\ t.seen = cnvTx[r].seen
      BY <1>0 DEF CnvTxs
    <2>2. cnvTx' = [cnvTx EXCEPT ![r] = t]
      BY <1>2 DEF CnvInv, CnvTyped
    <2> HIDE DEF t
    <2>3. CnvShape(r, t) /\ CnvLive(r, t)
      BY <1>0, <2>1 DEF CnvShape, CnvLive, CnvBusy
    <2>4. CnvSaw(r, t)
      BY <1>0, <2>1 DEF CnvSaw
    <2>5. \A s \in CnvCreates \ {r} : CnvShare(t, cnvTx[s])
      BY <2>1 DEF CnvInv, CnvAlone, CnvShare
    <2> QED
      BY <1>0, <2>1, <2>2, <2>3, <2>4, <2>5, CnvTxStep
  <1> QED
    BY <1>1, <1>2 DEF CnvInsert, CnvDuplicate

\* Of two transactions that wait for each other, both share the row.
LEMMA CnvDeadlockKeeps == ASSUME CnvInv, NEW r \in CnvCreates, CnvDeadlock(r) PROVE CnvInv'
  <1>1. PICK s \in CnvWaits(r) : r \in CnvWaits(s)
    BY DEF CnvDeadlock
  <1>2. s \in CnvCreates /\ s # r /\ cnvTx[r].at \in CnvBusy /\ cnvTx[s].at \in CnvBusy
    BY <1>1 DEF CnvWaits, CnvInsertWaits, CnvTouchWaits, CnvSameRef, CnvBusy
  <1>3. cnvTx[r].conv = cnvTx[s].conv
    <2>1. cnvTx[r].at = "touch" \/ cnvTx[s].at = "touch"
      BY <1>1, <1>2 DEF CnvWaits, CnvInsertWaits, CnvBusy
    <2> QED
      BY <1>1, <1>2, <2>1 DEF CnvWaits, CnvTouchWaits, CnvHolds
  <1>4. r.names
    BY <1>2, <1>3 DEF CnvInv, CnvShapes, CnvShape, CnvAlone, CnvShare
  <1> QED
    BY <1>2, <1>4, CnvEndStep DEF CnvDeadlock, CnvBusy

LEMMA CnvFailsKeeps == ASSUME CnvInv, NEW r \in CnvCreates, CnvFails(r) PROVE CnvInv'
  BY CnvEndStep DEF CnvFails

\* A commit writes into a conversation that is open, or opens it.
LEMMA CnvCommitWrites ==
    ASSUME CnvInv, NEW r \in CnvCreates, CnvCommit(r), NEW c, c = cnvTx[r].conv
    PROVE  /\ c \in CnvIds /\ cnvStatus' = [cnvStatus EXCEPT ![c] = "open"]
           /\ c # r.n => CnvOpen(c)
           /\ cnvStatus' \in [CnvIds -> {"none", "open", "closed"}] /\ cnvStatus'[c] = "open"
           /\ \A d \in CnvIds \ {c} : cnvStatus'[d] = cnvStatus[d]
           /\ cnvRows' = cnvRows \cup {[of |-> r.n, conv |-> c]}
  <1>1. cnvTx[r].at = "touch" /\ cnvTx[r].at \in CnvBusy
    BY DEF CnvCommit, CnvBusy
  <1>2. c \in CnvIds /\ (c # r.n => CnvOpen(c))
    BY <1>1 DEF CnvInv, CnvShapes, CnvShape, CnvLives, CnvLive
  <1>3. cnvStatus[c] \in {"none", "open"}
    BY <1>1, <1>2 DEF CnvInv, CnvOwn, CnvOpen
  <1>4. cnvStatus' = [cnvStatus EXCEPT ![c] = "open"]
    <2>1. cnvStatus' = [cnvStatus EXCEPT ![c] = IF cnvStatus[c] = "none" THEN "open" ELSE cnvStatus[c]]
      BY DEF CnvCommit
    <2> QED
      BY <1>3, <2>1
  <1>5. cnvStatus \in [CnvIds -> {"none", "open", "closed"}]
    BY DEF CnvInv, CnvTyped
  <1>6. cnvRows' = cnvRows \cup {[of |-> r.n, conv |-> c]}
    BY DEF CnvCommit
  <1> QED
    BY <1>2, <1>4, <1>5, <1>6

LEMMA CnvCommitKeeps == ASSUME CnvInv, NEW r \in CnvCreates, CnvCommit(r) PROVE CnvInv'
  <1>c. PICK c : c = cnvTx[r].conv
    OBVIOUS
  <1>w. /\ c \in CnvIds /\ (c # r.n => CnvOpen(c))
        /\ cnvStatus' \in [CnvIds -> {"none", "open", "closed"}] /\ cnvStatus'[c] = "open"
        /\ \A d \in CnvIds \ {c} : cnvStatus'[d] = cnvStatus[d]
        /\ cnvRows' = cnvRows \cup {[of |-> r.n, conv |-> c]}
    BY <1>c, CnvCommitWrites
  <1> DEFINE t == [cnvTx[r] EXCEPT !.at = "done", !.lock = "none", !.result = "created"]
  <1>0. /\ cnvTx[r] \in CnvTxs /\ CnvShape(r, cnvTx[r]) /\ CnvSaw(r, cnvTx[r]) /\ cnvTx[r].at = "touch"
    BY DEF CnvInv, CnvTyped, CnvShapes, CnvSeen, CnvCommit
  <1>1. /\ t \in CnvTxs /\ t.at = "done" /\ t.lock = "none" /\ t.result = "created"
        /\ t.conv = c /\ t.pick = cnvTx[r].pick /\ t.seen = cnvTx[r].seen
    BY <1>0, <1>c DEF CnvTxs
  <1>2. cnvTx' = [cnvTx EXCEPT ![r] = t]
    BY DEF CnvCommit, CnvEnd, CnvInv, CnvTyped
  <1> HIDE DEF t
  <1>3. cnvTx' \in [CnvCreates -> CnvTxs] /\ cnvTx'[r] = t /\ \A s \in CnvCreates \ {r} : cnvTx'[s] = cnvTx[s]
    BY <1>1, <1>2 DEF CnvInv, CnvTyped
  <1>4. CnvTyped'
    <2>1. [of |-> r.n, conv |-> c] \in [of : CnvIds, conv : CnvIds]
      BY <1>w, CnvIdFacts
    <2> QED
      BY <1>w, <1>3, <2>1 DEF CnvInv, CnvTyped
  <1>5. CnvShapes'
    <2>1. CnvShape(r, t)
      BY <1>0, <1>1, <1>c DEF CnvShape, CnvBusy
    <2> QED
      BY <1>3, <2>1 DEF CnvInv, CnvShapes, CnvShape
  <1>6. CnvLives'
    <2>1. ASSUME NEW s \in CnvCreates \ {r}, cnvTx[s].at \in CnvBusy, cnvTx[s].conv # s.n
          PROVE  cnvStatus'[cnvTx[s].conv] = "open"
      <3>1. cnvTx[s].conv \in CnvIds /\ CnvOpen(cnvTx[s].conv)
        BY <2>1 DEF CnvInv, CnvShapes, CnvShape, CnvLives, CnvLive
      <3> QED
        BY <1>w, <3>1 DEF CnvOpen
    <2> QED
      BY <1>1, <1>3, <2>1 DEF CnvLives, CnvLive, CnvOpen, CnvBusy
  <1>7. CnvOwn'
    <2> SUFFICES ASSUME NEW s \in CnvCreates, cnvStatus'[s.n] # "none"
                 PROVE  cnvTx'[s].at = "done" /\ cnvTx'[s].conv = s.n /\ [of |-> s.n, conv |-> s.n] \in cnvRows'
      BY DEF CnvOwn
    <2>1. CASE s.n = c /\ c = r.n
      BY <1>w, <1>1, <1>3, <2>1, CnvIdFacts
    <2>2. CASE ~(s.n = c /\ c = r.n)
      <3>1. cnvStatus[s.n] # "none" /\ s # r
        BY <1>w, <1>0, <2>2, CnvIdFacts DEF CnvInv, CnvOwn, CnvOpen
      <3> QED
        BY <1>w, <1>3, <3>1 DEF CnvInv, CnvOwn
    <2> QED
      BY <2>1, <2>2
  <1>8. CnvAlone'
    BY <1>1, <1>3 DEF CnvInv, CnvAlone, CnvShare
  <1>9. CnvSeen'
    <2> SUFFICES ASSUME NEW s \in CnvCreates PROVE CnvSaw(s, cnvTx[s])' 
      BY DEF CnvSeen
    <2>0. cnvTx'[s].seen = cnvTx[s].seen /\ cnvTx'[s].pick = cnvTx[s].pick /\ CnvSaw(s, cnvTx[s])
      BY <1>1, <1>3 DEF CnvInv, CnvSeen
    <2>1. \A n \in cnvTx[s].seen : \E w \in cnvRows' : w.of = n
      BY <1>w, <2>0 DEF CnvSaw
    <2>2. ASSUME NEW q \in CnvCreates, q.n \in cnvTx[s].seen, ~CnvOpen(q.n) PROVE cnvStatus'[q.n] # "open"
      <3>1. cnvTx[q].at = "done"
        BY <2>0, <2>2 DEF CnvSaw, CnvInv, CnvRowsDone
      <3>2. q.n # c
        BY <1>w, <1>0, <2>2, <3>1, CnvIdFacts
      <3> QED
        BY <1>w, <2>2, <3>2, CnvIdFacts DEF CnvOpen
    <2> QED
      BY <2>0, <2>1, <2>2 DEF CnvSaw, CnvOpen
  <1>10. CnvRowsDone'
    <2> SUFFICES ASSUME NEW w \in cnvRows', NEW s \in CnvCreates, s.n = w.of PROVE cnvTx'[s].at = "done"
      BY DEF CnvRowsDone
    <2>1. w \in cnvRows \/ w.of = r.n
      BY <1>w
    <2> QED
      BY <1>1, <1>3, <2>1, CnvIdFacts DEF CnvInv, CnvRowsDone
  <1> QED
    BY <1>4, <1>5, <1>6, <1>7, <1>8, <1>9, <1>10 DEF CnvInv

LEMMA CnvCloseKeeps == ASSUME CnvInv, NEW c \in CnvIds, CnvClose(c) PROVE CnvInv'
  <1>1. /\ cnvStatus' \in [CnvIds -> {"none", "open", "closed"}] /\ cnvStatus'[c] = "closed" /\ cnvStatus[c] = "open"
        /\ \A d \in CnvIds \ {c} : cnvStatus'[d] = cnvStatus[d]
        /\ UNCHANGED <<cnvTx, cnvRows>>
    BY DEF CnvClose, CnvOpen, CnvInv, CnvTyped
  <1>2. CnvTyped' /\ CnvShapes' /\ CnvAlone' /\ CnvRowsDone'
    BY <1>1 DEF CnvInv, CnvTyped, CnvShapes, CnvShape, CnvAlone, CnvShare, CnvRowsDone
  <1>3. CnvOwn'
    BY <1>1, CnvIdFacts DEF CnvInv, CnvOwn
  <1>4. CnvSeen'
    BY <1>1, CnvIdFacts DEF CnvInv, CnvSeen, CnvSaw, CnvOpen
  <1>5. CnvLives'
    <2>1. ASSUME NEW s \in CnvCreates, cnvTx[s].at \in CnvBusy, cnvTx[s].conv # s.n
          PROVE  cnvStatus'[cnvTx[s].conv] = "open"
      <3>1. cnvTx[s].conv \in CnvIds /\ CnvOpen(cnvTx[s].conv) /\ cnvTx[s].lock \in {"share", "update"}
        BY <2>1 DEF CnvInv, CnvTyped, CnvTxs, CnvShapes, CnvShape, CnvLives, CnvLive
      <3>2. cnvTx[s].conv # c
        BY <3>1 DEF CnvClose, CnvHolds
      <3> QED
        BY <1>1, <3>1, <3>2 DEF CnvOpen
    <2> QED
      BY <1>1, <2>1 DEF CnvLives, CnvLive, CnvOpen
  <1> QED
    BY <1>2, <1>3, <1>4, <1>5 DEF CnvInv

LEMMA CnvInvInductive == CnvInv /\ [CnvNext]_cnvVars => CnvInv'
  <1> SUFFICES ASSUME CnvInv, [CnvNext]_cnvVars PROVE CnvInv'
    OBVIOUS
  <1>1. CASE CnvNext
    BY <1>1, CnvSearchKeeps, CnvFindOrOpenKeeps, CnvNamedKeeps, CnvInsertKeeps, CnvCommitKeeps, CnvFailsKeeps,
       CnvDeadlockKeeps, CnvCloseKeeps DEF CnvNext
  <1>2. CASE UNCHANGED cnvVars
    BY <1>2 DEF cnvVars, CnvInv, CnvTyped, CnvShapes, CnvShape, CnvLives, CnvLive, CnvOwn, CnvAlone, CnvShare,
                CnvSeen, CnvSaw, CnvRowsDone, CnvOpen
  <1> QED
    BY <1>1, <1>2

\* Two open conversations of a customer need a race, an opened conversation holds
\* the interaction it was opened for, and only creates that name their
\* conversation can deadlock: for any number of concurrent creates and closes.
THEOREM CnvRaces == CnvSpec => []CnvRacesExplained
  BY CnvInitOK, CnvInvInductive, CnvInvSuffices, PTL DEF CnvSpec

\* No interaction is committed into a closed conversation, whatever Create had
\* read before Close committed: the row lock is held from then on.
THEOREM CnvNoLate == CnvSpec => CnvNoLateInteraction
  <1> DEFINE A == \A w \in cnvRows' \ cnvRows : cnvStatus'[w.conv] = "open"
  <1>1. CnvInv /\ [CnvNext]_cnvVars => [A]_cnvVars
    <2> SUFFICES ASSUME CnvInv, CnvNext, NEW w \in cnvRows' \ cnvRows PROVE cnvStatus'[w.conv] = "open"
      OBVIOUS
    <2>1. PICK r \in CnvCreates : CnvCommit(r)
      BY DEF CnvNext, CnvSearch, CnvFindOrOpen, CnvNamed, CnvInsert, CnvDuplicate, CnvFails, CnvDeadlock, CnvClose
    <2>2. w.conv = cnvTx[r].conv
      BY <2>1 DEF CnvCommit
    <2> QED
      BY <2>1, <2>2, CnvCommitWrites
  <1> QED
    BY <1>1, CnvInitOK, CnvInvInductive, PTL DEF CnvSpec, CnvNoLateInteraction

(***************************************************************************)
(* The tool gateway.                                                       *)
(***************************************************************************)
TgwCalls == [tick : 0 .. TgwMaxTime, n : Nat]
TgwStates == [at : {"idle", "admit", "execute"}, limit : 0 .. TgwCap]

TgwTyped ==
    /\ tgwNow \in 0 .. TgwMaxTime
    /\ tgwWindows \in [TgwKeys -> SUBSET TgwCalls]
    /\ tgwCall \in [TgwKeys -> TgwStates]
    /\ tgwAdmitted \in [TgwKeys -> [0 .. TgwMaxTime -> Nat]]

TgwFinite == \A k \in TgwKeys : IsFiniteSet(tgwWindows[k])

\* Nothing was admitted in the future.
TgwPast == \A k \in TgwKeys, u \in 0 .. TgwMaxTime : u > tgwNow => tgwAdmitted[k][u] = 0

\* A window that was not dropped has every call of the last minute.
TgwKept ==
    \A k \in TgwKeys \ tgwDropped, u \in 0 .. TgwMaxTime, n \in Nat \ {0} :
        u <= tgwNow /\ tgwNow - u < TgwMinute /\ n <= tgwAdmitted[k][u] => TgwCallAt(u, n) \in tgwWindows[k]

TgwInv == TgwTyped /\ TgwFinite /\ TgwPast /\ TgwKept /\ TgwCapHolds

LEMMA TgwInitOK == TgwInit => TgwInv
  <1> SUFFICES ASSUME TgwInit PROVE TgwInv
    OBVIOUS
  <1>1. TgwTyped
    BY ToolGatewayAssumption DEF TgwInit, TgwTyped, TgwStates, TgwIdle
  <1>2. TgwFinite
    BY FS_EmptySet DEF TgwInit, TgwFinite
  <1>3. \A k \in TgwKeys, u \in 0 .. TgwMaxTime : tgwAdmitted[k][u] = 0
    BY DEF TgwInit
  <1>4. TgwPast /\ TgwKept
    BY <1>3 DEF TgwPast, TgwKept
  <1>5. TgwCapHolds
    <2> SUFFICES ASSUME NEW k \in TgwKeys, NEW t \in 0 .. TgwMaxTime PROVE Cardinality(TgwCallsUpTo(k, t)) <= TgwCap
      BY DEF TgwCapHolds
    <2>1. TgwCallsUpTo(k, t) = {}
      BY <1>3 DEF TgwCallsUpTo
    <2> QED
      BY <2>1, FS_EmptySet, ToolGatewayAssumption
  <1> QED
    BY <1>1, <1>2, <1>4, <1>5 DEF TgwInv

LEMMA TgwTickKeeps == ASSUME TgwInv, TgwTick PROVE TgwInv'
  <1>1. /\ tgwNow \in 0 .. TgwMaxTime /\ tgwNow' = tgwNow + 1 /\ tgwNow' \in 0 .. TgwMaxTime
        /\ UNCHANGED <<tgwWindows, tgwCall, tgwAdmitted, tgwDropped>>
    BY ToolGatewayAssumption DEF TgwInv, TgwTyped, TgwTick
  <1>2. TgwTyped' /\ TgwFinite'
    BY <1>1 DEF TgwInv, TgwTyped, TgwFinite
  <1>3. TgwPast'
    BY <1>1 DEF TgwInv, TgwPast
  <1>4. TgwKept'
    <2> SUFFICES ASSUME NEW k \in TgwKeys \ tgwDropped, NEW u \in 0 .. TgwMaxTime, NEW n \in Nat \ {0},
                        u <= tgwNow', tgwNow' - u < TgwMinute, n <= tgwAdmitted[k][u]
                 PROVE  TgwCallAt(u, n) \in tgwWindows[k]
      BY <1>1 DEF TgwKept, TgwCallAt
    <2>1. u <= tgwNow
      BY <1>1 DEF TgwInv, TgwPast
    <2>2. tgwNow - u < TgwMinute
      BY <1>1, ToolGatewayAssumption
    <2> QED
      BY <2>1, <2>2 DEF TgwInv, TgwKept
  <1>5. TgwCapHolds'
    BY <1>1 DEF TgwInv, TgwCapHolds, TgwCallsUpTo
  <1> QED
    BY <1>2, <1>3, <1>4, <1>5 DEF TgwInv

\* A step that admits nothing and keeps what the windows have of the minute.
LEMMA TgwQuietStep ==
    ASSUME TgwInv, UNCHANGED <<tgwNow, tgwAdmitted, tgwDropped>>,
           tgwCall' \in [TgwKeys -> TgwStates], tgwWindows' \in [TgwKeys -> SUBSET TgwCalls],
           \A k \in TgwKeys : /\ tgwWindows'[k] \subseteq tgwWindows[k]
                              /\ \A c \in tgwWindows[k] : tgwNow - c.tick < TgwMinute => c \in tgwWindows'[k]
    PROVE  TgwInv'
  <1>1. TgwTyped' /\ TgwPast'
    BY DEF TgwInv, TgwTyped, TgwPast
  <1>2. TgwFinite'
    BY FS_Subset DEF TgwInv, TgwFinite
  <1>3. TgwKept'
    <2> SUFFICES ASSUME NEW k \in TgwKeys \ tgwDropped, NEW u \in 0 .. TgwMaxTime, NEW n \in Nat \ {0},
                        u <= tgwNow, tgwNow - u < TgwMinute, n <= tgwAdmitted[k][u]
                 PROVE  TgwCallAt(u, n) \in tgwWindows'[k]
      BY DEF TgwKept, TgwCallAt
    <2>1. TgwCallAt(u, n) \in tgwWindows[k] /\ TgwCallAt(u, n).tick = u
      BY DEF TgwInv, TgwKept, TgwCallAt
    <2> QED
      BY <2>1
  <1>4. TgwCapHolds'
    BY DEF TgwInv, TgwCapHolds, TgwCallsUpTo
  <1> QED
    BY <1>1, <1>2, <1>3, <1>4 DEF TgwInv

LEMMA TgwCallMoves ==
    ASSUME TgwTyped, NEW k \in TgwKeys, NEW t \in TgwStates
    PROVE  [tgwCall EXCEPT ![k] = t] \in [TgwKeys -> TgwStates]
  BY DEF TgwTyped

LEMMA TgwStepsKeep ==
    ASSUME TgwInv, NEW k \in TgwKeys, TgwReturn(k) \/ \E limit \in TgwLimits : TgwAuthorize(k, limit)
    PROVE  TgwInv'
  <1>1. UNCHANGED <<tgwNow, tgwWindows, tgwAdmitted, tgwDropped>>
    BY DEF TgwReturn, TgwAuthorize
  <1>2. PICK t \in TgwStates : tgwCall' = [tgwCall EXCEPT ![k] = t]
    <2>1. TgwIdle \in TgwStates
      BY ToolGatewayAssumption DEF TgwIdle, TgwStates
    <2>2. ASSUME NEW limit \in TgwLimits
          PROVE  [at |-> "admit", limit |-> IF limit > TgwCap THEN TgwCap ELSE limit] \in TgwStates
      <3>1. (IF limit > TgwCap THEN TgwCap ELSE limit) \in 0 .. TgwCap
        BY ToolGatewayAssumption
      <3> QED
        BY <3>1 DEF TgwStates
    <2> QED
      BY <2>1, <2>2 DEF TgwReturn, TgwAuthorize
  <1>3. tgwCall' \in [TgwKeys -> TgwStates] /\ tgwWindows \in [TgwKeys -> SUBSET TgwCalls]
    BY <1>2, TgwCallMoves DEF TgwInv, TgwTyped
  <1> QED
    BY <1>1, <1>3, TgwQuietStep

LEMMA TgwAdmitKeeps == ASSUME TgwInv, NEW k \in TgwKeys, TgwAdmit(k) PROVE TgwInv'
  <1>t. /\ TgwTyped /\ tgwNow \in 0 .. TgwMaxTime /\ tgwWindows \in [TgwKeys -> SUBSET TgwCalls]
        /\ tgwCall[k] \in TgwStates /\ tgwAdmitted \in [TgwKeys -> [0 .. TgwMaxTime -> Nat]]
    BY DEF TgwInv, TgwTyped
  <1>1. PICK recent \in SUBSET TgwCalls : recent = TgwRecent(k)
    BY <1>t DEF TgwRecent
  <1>2. /\ IsFiniteSet(recent) /\ Cardinality(recent) \in Nat /\ recent \subseteq tgwWindows[k]
        /\ \A c \in tgwWindows[k] : c \in recent <=> tgwNow - c.tick < TgwMinute
    <2>1. IsFiniteSet(tgwWindows[k]) /\ recent \subseteq tgwWindows[k]
      BY <1>1 DEF TgwInv, TgwFinite, TgwRecent
    <2> QED
      BY <1>1, <2>1, FS_Subset, FS_CardinalityType DEF TgwRecent
  <1>3. tgwCall[k].limit \in 0 .. TgwCap /\ tgwNow' = tgwNow
    BY <1>t DEF TgwStates, TgwAdmit
  <1>4. CASE Cardinality(recent) >= tgwCall[k].limit
    <2>1. /\ tgwWindows' = [tgwWindows EXCEPT ![k] = recent] /\ tgwCall' = [tgwCall EXCEPT ![k] = TgwIdle]
          /\ UNCHANGED <<tgwAdmitted, tgwDropped>>
      BY <1>1, <1>4 DEF TgwAdmit
    <2>2. TgwIdle \in TgwStates
      BY ToolGatewayAssumption DEF TgwIdle, TgwStates
    <2>3. tgwCall' \in [TgwKeys -> TgwStates]
      BY <1>t, <2>1, <2>2, TgwCallMoves
    <2>4. /\ tgwWindows' \in [TgwKeys -> SUBSET TgwCalls] /\ tgwWindows'[k] = recent
          /\ \A j \in TgwKeys \ {k} : tgwWindows'[j] = tgwWindows[j]
      BY <1>t, <2>1
    <2>5. \A j \in TgwKeys : /\ tgwWindows'[j] \subseteq tgwWindows[j]
                             /\ \A c \in tgwWindows[j] : tgwNow - c.tick < TgwMinute => c \in tgwWindows'[j]
      BY <1>2, <2>4
    <2> QED
      BY <1>3, <2>1, <2>3, <2>4, <2>5, TgwQuietStep
  <1>5. CASE ~(Cardinality(recent) >= tgwCall[k].limit)
    <2>n. PICK n \in Nat : n = tgwAdmitted[k][tgwNow]
      BY <1>t
    <2>c. PICK call \in TgwCalls : call = TgwCallAt(tgwNow, n + 1)
      <3>1. PICK m \in Nat : m = n + 1
        OBVIOUS
      <3>2. TgwCallAt(tgwNow, m) \in TgwCalls
        BY <1>t DEF TgwCallAt, TgwCalls
      <3> QED
        BY <3>1, <3>2
    <2>w. PICK w \in SUBSET TgwCalls : w = recent \cup {call}
      OBVIOUS
    <2>k. PICK kept \in [TgwKeys -> SUBSET TgwCalls] : kept = [tgwWindows EXCEPT ![k] = w]
      BY <1>t
    <2>1. /\ tgwWindows' = TgwBounded(kept, k)
          /\ tgwCall' = [tgwCall EXCEPT ![k].at = "execute"]
          /\ tgwDropped' = tgwDropped \cup (TgwEntries(kept) \ TgwEntries(tgwWindows'))
      BY <1>1, <1>5, <2>n, <2>c, <2>w, <2>k DEF TgwAdmit
    <2>a. tgwAdmitted' = [tgwAdmitted EXCEPT ![k][tgwNow] = n + 1]
      BY <1>1, <1>5, <2>n DEF TgwAdmit
    <2>2. /\ tgwAdmitted' \in [TgwKeys -> [0 .. TgwMaxTime -> Nat]] /\ tgwAdmitted'[k][tgwNow] = n + 1
          /\ \A u \in 0 .. TgwMaxTime : u # tgwNow => tgwAdmitted'[k][u] = tgwAdmitted[k][u]
          /\ \A j \in TgwKeys \ {k} : tgwAdmitted'[j] = tgwAdmitted[j]
      <3>m. PICK m \in Nat : m = n + 1
        OBVIOUS
      <3>1. PICK row \in [0 .. TgwMaxTime -> Nat] : row = [tgwAdmitted[k] EXCEPT ![tgwNow] = m]
        BY <1>t
      <3>2. tgwAdmitted' = [tgwAdmitted EXCEPT ![k] = row]
        BY <1>t, <2>a, <3>m, <3>1
      <3>3. row[tgwNow] = m /\ \A u \in 0 .. TgwMaxTime : u # tgwNow => row[u] = tgwAdmitted[k][u]
        BY <1>t, <3>1
      <3> QED
        BY <1>t, <3>m, <3>2, <3>3
    <2>3. tgwCall' \in [TgwKeys -> TgwStates]
      <3> DEFINE t == [tgwCall[k] EXCEPT !.at = "execute"]
      <3>1. t \in TgwStates
        BY <1>t DEF TgwStates
      <3>2. tgwCall' = [tgwCall EXCEPT ![k] = t]
        BY <1>t, <2>1 DEF TgwTyped
      <3> QED
        BY <1>t, <3>1, <3>2, TgwCallMoves
    <2>4. /\ kept[k] = w /\ \A j \in TgwKeys \ {k} : kept[j] = tgwWindows[j]
      BY <1>t, <2>k
    <2>5. /\ tgwWindows' \in [TgwKeys -> SUBSET TgwCalls] /\ tgwWindows'[k] = w
          /\ \A j \in TgwKeys : tgwWindows'[j] \in {kept[j], {}}
      BY <2>1, <2>4 DEF TgwBounded
    <2>6. \A j \in TgwKeys \ tgwDropped' : tgwWindows'[j] = kept[j]
      BY <2>1, <2>5 DEF TgwEntries
    <2>7. tgwDropped \subseteq tgwDropped'
      BY <2>1
    <2>8. IsFiniteSet(w) /\ Cardinality(w) <= TgwCap
      <3>1. IsFiniteSet(w) /\ (Cardinality(w) = Cardinality(recent) \/ Cardinality(w) = Cardinality(recent) + 1)
        BY <1>2, <2>w, FS_AddElement
      <3> QED
        BY <1>2, <1>3, <1>5, <3>1, ToolGatewayAssumption
    <2>9. TgwTyped'
      BY <1>t, <1>3, <2>2, <2>3, <2>5 DEF TgwTyped
    <2>10. TgwFinite'
      <3>1. \A j \in TgwKeys : IsFiniteSet(kept[j])
        BY <2>4, <2>8 DEF TgwInv, TgwFinite
      <3> QED
        BY <2>5, <3>1, FS_EmptySet DEF TgwFinite
    <2>11. TgwPast'
      <3> SUFFICES ASSUME NEW j \in TgwKeys, NEW u \in 0 .. TgwMaxTime, u > tgwNow PROVE tgwAdmitted'[j][u] = 0
        BY <1>3 DEF TgwPast
      <3>1. tgwAdmitted[j][u] = 0 /\ u # tgwNow
        BY <1>t DEF TgwInv, TgwPast
      <3> QED
        BY <2>2, <3>1
    <2>12. \A u \in 0 .. TgwMaxTime, i \in Nat \ {0} : k \notin tgwDropped =>
              (u <= tgwNow /\ tgwNow - u < TgwMinute /\ i <= tgwAdmitted'[k][u] => TgwCallAt(u, i) \in w)
      <3> SUFFICES ASSUME NEW u \in 0 .. TgwMaxTime, NEW i \in Nat \ {0}, k \notin tgwDropped,
                          u <= tgwNow, tgwNow - u < TgwMinute, i <= tgwAdmitted'[k][u]
                   PROVE  TgwCallAt(u, i) \in w
        OBVIOUS
      <3>1. CASE u = tgwNow /\ i = n + 1
        BY <2>c, <2>w, <3>1
      <3>2. CASE ~(u = tgwNow /\ i = n + 1)
        <4>1. i <= tgwAdmitted[k][u]
          BY <2>n, <2>2, <3>2
        <4>2. TgwCallAt(u, i) \in tgwWindows[k] /\ TgwCallAt(u, i).tick = u
          BY <4>1 DEF TgwInv, TgwKept, TgwCallAt
        <4> QED
          BY <1>2, <2>w, <4>2
      <3> QED
        BY <3>1, <3>2
    <2>13. TgwKept'
      <3> SUFFICES ASSUME NEW j \in TgwKeys \ tgwDropped', NEW u \in 0 .. TgwMaxTime, NEW i \in Nat \ {0},
                          u <= tgwNow, tgwNow - u < TgwMinute, i <= tgwAdmitted'[j][u]
                   PROVE  TgwCallAt(u, i) \in tgwWindows'[j]
        BY <1>3 DEF TgwKept, TgwCallAt
      <3>1. CASE j = k
        BY <2>5, <2>7, <2>12, <3>1
      <3>2. CASE j # k
        BY <2>2, <2>4, <2>6, <2>7, <3>2 DEF TgwInv, TgwKept
      <3> QED
        BY <3>1, <3>2
    <2>14. TgwCapHolds'
      <3> SUFFICES ASSUME NEW j \in TgwKeys \ tgwDropped', NEW t \in 0 .. TgwMaxTime
                   PROVE  Cardinality(TgwCallsUpTo(j, t)') <= TgwCap
        BY DEF TgwCapHolds
      <3>0. Cardinality(TgwCallsUpTo(j, t)) <= TgwCap
        BY <2>7 DEF TgwInv, TgwCapHolds
      <3>1. CASE j # k
        <4>1. TgwCallsUpTo(j, t)' = TgwCallsUpTo(j, t)
          BY <2>2, <3>1 DEF TgwCallsUpTo
        <4> QED
          BY <3>0, <4>1
      <3>2. CASE j = k /\ t < tgwNow
        <4>1. TgwCallsUpTo(j, t)' = TgwCallsUpTo(j, t)
          BY <1>t, <2>2, <3>2 DEF TgwCallsUpTo
        <4> QED
          BY <3>0, <4>1
      <3>3. CASE j = k /\ t >= tgwNow
        <4>1. ASSUME NEW c \in TgwCallsUpTo(j, t)' PROVE c \in w
          <5>1. /\ c \in [tick : 0 .. TgwMaxTime, n : 1 .. TgwMaxCalls]
                /\ c.tick <= t /\ t - c.tick < TgwMinute /\ c.n <= tgwAdmitted'[k][c.tick]
            BY <3>3, <4>1 DEF TgwCallsUpTo
          <5>2. PICK u \in 0 .. TgwMaxTime, i \in Nat \ {0} : u = c.tick /\ i = c.n /\ c = TgwCallAt(u, i)
            BY <5>1 DEF TgwCallAt
          <5>3. u <= tgwNow
            <6>1. u > tgwNow => tgwAdmitted'[k][u] = 0
              BY <1>3, <2>11 DEF TgwPast
            <6>2. i <= tgwAdmitted'[k][u] /\ tgwAdmitted'[k][u] \in Nat
              BY <2>2, <5>1, <5>2
            <6> QED
              BY <1>t, <6>1, <6>2
          <5>4. tgwNow - u < TgwMinute
            BY <1>t, <3>3, <5>1, <5>2, ToolGatewayAssumption
          <5> QED
            BY <2>7, <2>12, <3>3, <5>1, <5>2, <5>3, <5>4
        <4>2. Cardinality(TgwCallsUpTo(j, t)') <= Cardinality(w) /\ Cardinality(TgwCallsUpTo(j, t)') \in Nat
          BY <2>8, <4>1, FS_Subset, FS_CardinalityType
        <4>3. Cardinality(w) \in Nat
          BY <2>8, FS_CardinalityType
        <4> QED
          BY <2>8, <4>2, <4>3, ToolGatewayAssumption
      <3> QED
        BY <1>t, <3>1, <3>2, <3>3
    <2> QED
      BY <2>9, <2>10, <2>11, <2>13, <2>14 DEF TgwInv
  <1> QED
    BY <1>4, <1>5

\* In no minute, however it is placed, does an agent get more calls of a tool
\* through than the platform's cap, unless its window was dropped with the full
\* map: for any number of agents, tools and policies, and any clock.
THEOREM TgwCapped == TgwSpec => []TgwCapHolds
  <1>1. TgwInv /\ [TgwNext]_tgwVars => TgwInv'
    <2> SUFFICES ASSUME TgwInv, [TgwNext]_tgwVars PROVE TgwInv'
      OBVIOUS
    <2>1. CASE TgwNext
      BY <2>1, TgwTickKeeps, TgwStepsKeep, TgwAdmitKeeps DEF TgwNext
    <2>2. CASE UNCHANGED tgwVars
      BY <2>2 DEF tgwVars, TgwInv, TgwTyped, TgwFinite, TgwPast, TgwKept, TgwCapHolds, TgwCallsUpTo, TgwCallAt
    <2> QED
      BY <2>1, <2>2
  <1>2. TgwInv => TgwCapHolds
    BY DEF TgwInv
  <1> QED
    BY <1>1, <1>2, TgwInitOK, PTL DEF TgwSpec
=============================================================================
