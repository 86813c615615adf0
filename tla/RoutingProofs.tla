---------------------------- MODULE RoutingProofs ----------------------------
(***************************************************************************)
(* For any agents, skills, interactions, requests and caches: a request is *)
(* decided for the best of the agents it has read, and no agent is held    *)
(* for a live interaction that nobody has.                                 *)
(***************************************************************************)
EXTENDS Routing, FiniteSetTheorems, TLAPS

-----------------------------------------------------------------------------
(* The sort.  The facts about finite sets rest on a minimal counterexample: *)
(* strict inclusion is well founded on the subsets of a finite set.         *)

\* R relates any two elements of S one way round, and is transitive.
TotallyOrders(R, S) ==
    /\ \A x, y \in S : x # y => <<x, y>> \in R \/ <<y, x>> \in R
    /\ IsTransitivelyClosedOn(R, S)

\* A family of subsets of a finite set has a member with no smaller one in it.
LEMMA MinimalMember ==
  ASSUME NEW S, IsFiniteSet(S), NEW B \in SUBSET (SUBSET S), B # {}
  PROVE  \E T \in B : \A U \in B : U \subseteq T => U = T
<1>1. IsWellFoundedOn(StrictSubsetOrdering(S), SUBSET S)
  BY FS_StrictSubsetOrderingWellFounded, FS_FiniteSubsetsOfFinite
<1>2. PICK T \in B : \A U \in B : ~ (<<U, T>> \in StrictSubsetOrdering(S))
  <2>1. B \subseteq SUBSET S
    OBVIOUS
  <2> QED
    BY <1>1, <2>1, WFMin
<1>3. ASSUME NEW U \in B, U \subseteq T PROVE U = T
  BY <1>2, <1>3 DEF StrictSubsetOrdering
<1> QED
  BY <1>3

\* A nonempty finite set has a last element.
LEMMA LastElement ==
  ASSUME NEW S, IsFiniteSet(S), S # {}, NEW R, TotallyOrders(R, S)
  PROVE  \E x \in S : \A y \in S \ {x} : <<y, x>> \in R
<1> DEFINE Bad == {T \in SUBSET S : T # {} /\ ~ \E x \in T : \A y \in T \ {x} : <<y, x>> \in R}
<1>1. SUFFICES ASSUME Bad # {} PROVE FALSE
  <2>1. ASSUME Bad = {} PROVE \E x \in S : \A y \in S \ {x} : <<y, x>> \in R
    <3>1. S \notin Bad
      BY <2>1
    <3> QED
      BY <3>1
  <2> QED
    BY <2>1
<1>2. PICK T \in Bad : \A U \in Bad : U \subseteq T => U = T
  <2>1. Bad \in SUBSET (SUBSET S)
    OBVIOUS
  <2> HIDE DEF Bad
  <2> QED
    BY <1>1, <2>1, MinimalMember
<1>3. T \subseteq S /\ T # {} /\ ~ \E x \in T : \A y \in T \ {x} : <<y, x>> \in R
  OBVIOUS
<1>4. PICK x \in T : TRUE
  BY <1>3
<1>5. T \ {x} # {}
  BY <1>3
<1>6. T \ {x} \notin Bad
  <2> HIDE DEF Bad
  <2> QED
    BY <1>2, <1>4
<1>7. PICK m \in T \ {x} : \A y \in (T \ {x}) \ {m} : <<y, m>> \in R
  BY <1>3, <1>5, <1>6
<1> HIDE DEF Bad
<1>8. <<x, m>> \in R \/ <<m, x>> \in R
  BY <1>3, <1>4, <1>7 DEF TotallyOrders
<1>9. CASE <<x, m>> \in R
  <2>1. \A y \in T \ {m} : <<y, m>> \in R
    BY <1>7, <1>9
  <2> QED
    BY <1>3, <1>7, <2>1
<1>10. CASE <<m, x>> \in R
  <2>1. ASSUME NEW y \in T \ {x} PROVE <<y, x>> \in R
    <3>1. CASE y = m
      BY <3>1, <1>10
    <3>2. CASE y # m
      <4>1. <<y, m>> \in R
        BY <3>2, <1>7
      <4>2. x \in S /\ y \in S /\ m \in S
        BY <1>3, <1>4, <1>7
      <4> QED
        BY <4>1, <4>2, <1>10 DEF TotallyOrders, IsTransitivelyClosedOn
    <3> QED
      BY <3>1, <3>2
  <2> QED
    BY <1>3, <1>4, <2>1
<1> QED
  BY <1>8, <1>9, <1>10

\* The elements of S in a list sorted by R.
SortedBy(R, S, s) == \A j, k \in 1 .. Cardinality(S) : j < k => <<s[j], s[k]>> \in R

\* Appending the last element to a sorted list of the others.
LEMMA AppendLast ==
  ASSUME NEW S, IsFiniteSet(S), NEW R, NEW x \in S, \A y \in S \ {x} : <<y, x>> \in R,
         NEW t \in SetToSeqs(S \ {x}), SortedBy(R, S \ {x}, t)
  PROVE  \E s \in SetToSeqs(S) : SortedBy(R, S, s)
<1> DEFINE n == Cardinality(S)
<1>1. n \in Nat /\ Cardinality(S \ {x}) = n - 1 /\ n - 1 \in Nat
  <2>1. n \in Nat
    BY FS_CardinalityType
  <2>2. IsFiniteSet(S \ {x}) /\ Cardinality(S \ {x}) = n - 1
    BY FS_RemoveElement
  <2>3. Cardinality(S \ {x}) \in Nat
    BY <2>2, FS_CardinalityType
  <2> QED
    BY <2>1, <2>2, <2>3
<1> DEFINE s == [k \in 1 .. n |-> IF k = n THEN x ELSE t[k]]
<1>2. /\ t \in [1 .. (n - 1) -> S \ {x}]
      /\ \A j, k \in 1 .. (n - 1) : j # k => t[j] # t[k]
      /\ \A j, k \in 1 .. (n - 1) : j < k => <<t[j], t[k]>> \in R
  BY <1>1 DEF SetToSeqs, SortedBy
<1> HIDE DEF n
<1>3. \A k \in 1 .. n : k # n => k \in 1 .. (n - 1)
  BY <1>1
<1>4. s \in [1 .. n -> S]
  BY <1>2, <1>3
<1>5. \A j, k \in 1 .. n : j # k => s[j] # s[k]
  BY <1>2, <1>3
<1>6. ASSUME NEW j \in 1 .. n, NEW k \in 1 .. n, j < k PROVE <<s[j], s[k]>> \in R
  <2>1. j # n
    BY <1>1, <1>6
  <2>2. s[j] = t[j] /\ t[j] \in S \ {x}
    BY <2>1, <1>2, <1>3
  <2>3. CASE k = n
    BY <2>2, <2>3
  <2>4. CASE k # n
    <3>1. s[k] = t[k] /\ j \in 1 .. (n - 1) /\ k \in 1 .. (n - 1)
      BY <2>1, <2>4, <1>3
    <3> HIDE DEF s
    <3> QED
      BY <3>1, <2>2, <1>2, <1>6
  <2> QED
    BY <2>3, <2>4
<1> HIDE DEF s
<1>7. s \in SetToSeqs(S)
  BY <1>4, <1>5 DEF SetToSeqs, n
<1>8. SortedBy(R, S, s)
  BY <1>6 DEF SortedBy, n
<1> QED
  BY <1>7, <1>8

\* A finite set can be sorted.
LEMMA SortExists ==
  ASSUME NEW S, IsFiniteSet(S), NEW R, TotallyOrders(R, S)
  PROVE  \E s \in SetToSeqs(S) : SortedBy(R, S, s)
<1> DEFINE Bad == {T \in SUBSET S : ~ \E s \in SetToSeqs(T) : SortedBy(R, T, s)}
<1>1. SUFFICES ASSUME Bad # {} PROVE FALSE
  <2>1. ASSUME Bad = {} PROVE \E s \in SetToSeqs(S) : SortedBy(R, S, s)
    <3>1. S \notin Bad
      BY <2>1
    <3> QED
      BY <3>1
  <2> QED
    BY <2>1
<1>2. PICK T \in Bad : \A U \in Bad : U \subseteq T => U = T
  <2>1. Bad \in SUBSET (SUBSET S)
    OBVIOUS
  <2> HIDE DEF Bad
  <2> QED
    BY <1>1, <2>1, MinimalMember
<1>3. T \subseteq S /\ ~ \E s \in SetToSeqs(T) : SortedBy(R, T, s)
  OBVIOUS
<1>4. IsFiniteSet(T)
  BY <1>3, FS_Subset
<1>5. T # {}
  <2>1. SUFFICES ASSUME T = {} PROVE FALSE
    OBVIOUS
  <2>2. Cardinality(T) = 0
    BY <2>1, FS_EmptySet
  <2>3. 1 .. Cardinality(T) = {}
    BY <2>2
  <2>4. [i \in {} |-> i] \in SetToSeqs(T)
    BY <2>3, <2>1 DEF SetToSeqs
  <2>5. SortedBy(R, T, [i \in {} |-> i])
    BY <2>3 DEF SortedBy
  <2> QED
    BY <1>3, <2>4, <2>5
<1>6. TotallyOrders(R, T)
  <2>1. \A x \in T : x \in S
    BY <1>3
  <2> QED
    BY <2>1 DEF TotallyOrders, IsTransitivelyClosedOn
<1>7. PICK x \in T : \A y \in T \ {x} : <<y, x>> \in R
  BY <1>4, <1>5, <1>6, LastElement
<1>8. T \ {x} \notin Bad
  <2> HIDE DEF Bad
  <2> QED
    BY <1>2, <1>7
<1>9. PICK t \in SetToSeqs(T \ {x}) : SortedBy(R, T \ {x}, t)
  BY <1>3, <1>8
<1> QED
  BY <1>3, <1>4, <1>7, <1>9, AppendLast

-----------------------------------------------------------------------------
(* The engine: the ranking is a sort, and the scan finds its first match.   *)

\* A skill list has finitely many skills.
LEMMA SkillsFinite ==
  ASSUME NEW req \in Requests
  PROVE  Required(req) \in Nat /\ IsFiniteSet(ToSet(req.skills))
<1> DEFINE q == req.skills
           T == ToSet(q)
<1>1. q \in Seq(T)
  BY RoutingAssumption
<1>2. T = {q[k] : k \in DOMAIN q}
  BY DEF ToSet
<1> HIDE DEF q, T
<1>3. Len(q) \in Nat /\ DOMAIN q = 1 .. Len(q)
  BY <1>1
<1>4. q \in Surjection(1 .. Len(q), T)
  <2>1. q \in [1 .. Len(q) -> T]
    BY <1>1, <1>3
  <2> QED
    BY <1>2, <1>3, <2>1 DEF Surjection
<1>5. IsFiniteSet(1 .. Len(q))
  BY <1>3, FS_Interval
<1>6. IsFiniteSet(T)
  BY <1>4, <1>5, FS_Surjection
<1> QED
  BY <1>3, <1>6 DEF Required, q, T

\* Scores are integers, so they compare.
LEMMA ScoreType ==
  ASSUME NEW req \in Requests, NEW a
  PROVE  Score(req, a) \in Int
<1>1. Required(req) \in Nat
  BY SkillsFinite
<1>2. Cardinality(MatchedSkills(req, a)) \in Nat
  <2>1. IsFiniteSet(MatchedSkills(req, a))
    BY SkillsFinite, FS_Intersection DEF MatchedSkills
  <2> QED
    BY <2>1, FS_CardinalityType
<1>3. Unit(req) \in Int
  BY <1>1 DEF Unit
<1>4. Priority(req) \in Int
  BY DEF Priority
<1> DEFINE u == Unit(req)
           w == (IF LanguageMatch(req, a) THEN 15 ELSE 0) + Priority(req)
           c == IF Required(req) = 0 THEN 1 ELSE Cardinality(MatchedSkills(req, a))
<1>5. u \in Int /\ w \in Int /\ c \in Int
  BY <1>2, <1>3, <1>4
<1>6. Score(req, a) = 20 * c + u * w
  BY DEF Score
<1> HIDE DEF u, w, c
<1> QED
  BY <1>5, <1>6

\* Score first, then id: a total order of the agents.
RankOrder(req) == {p \in Agents \X Agents : Precedes(req, p[1], p[2])}

LEMMA RankOrderTotal ==
  ASSUME NEW req \in Requests
  PROVE  TotallyOrders(RankOrder(req), Agents)
<1>1. \A a \in Agents : a \in Nat /\ Score(req, a) \in Int
  BY EngineAssumption, ScoreType
<1>2. \A a, b \in Agents : <<a, b>> \in RankOrder(req) <=> Precedes(req, a, b)
  BY DEF RankOrder
<1>3. \A x, y \in Agents : x # y => Precedes(req, x, y) \/ Precedes(req, y, x)
  BY <1>1 DEF Precedes
<1>4. \A x, y, z \in Agents : Precedes(req, x, y) /\ Precedes(req, y, z) => Precedes(req, x, z)
  BY <1>1 DEF Precedes
<1> QED
  BY <1>2, <1>3, <1>4 DEF TotallyOrders, IsTransitivelyClosedOn

\* The ranking lists every agent, best first.
LEMMA RankedSorts ==
  ASSUME NEW req \in Requests
  PROVE  LET s == Ranked(req)
         IN  /\ DOMAIN s = 1 .. Cardinality(Agents) /\ Cardinality(Agents) \in Nat
             /\ \A k \in DOMAIN s : s[k] \in Agents
             /\ \A a \in Agents : \E k \in DOMAIN s : s[k] = a
             /\ \A j, k \in DOMAIN s : j < k => Precedes(req, s[j], s[k])
<1>1. IsFiniteSet(Agents)
  BY EngineAssumption
<1> DEFINE n == Cardinality(Agents)
           P(s) == \A j, k \in DOMAIN s : j < k => Precedes(req, s[j], s[k])
<1>2. n \in Nat
  BY <1>1, FS_CardinalityType
<1>3. PICK t \in SetToSeqs(Agents) : SortedBy(RankOrder(req), Agents, t)
  BY <1>1, RankOrderTotal, SortExists
<1>4. \A s \in SetToSeqs(Agents) : s \in [1 .. n -> Agents] /\ DOMAIN s = 1 .. n
  BY DEF SetToSeqs
<1>5. P(t)
  <2>1. \A j, k \in 1 .. n : j < k => <<t[j], t[k]>> \in RankOrder(req)
    BY <1>3 DEF SortedBy
  <2>2. \A j, k \in 1 .. n : j < k => Precedes(req, t[j], t[k])
    BY <2>1 DEF RankOrder
  <2> QED
    BY <1>3, <1>4, <2>2
<1> DEFINE s == Ranked(req)
<1>6. s \in SetToSeqs(Agents) /\ P(s)
  BY <1>3, <1>5 DEF Ranked
<1>7. s \in Injection(1 .. n, Agents)
  <2>1. \A i, j \in 1 .. n : i # j => s[i] # s[j]
    BY <1>6 DEF SetToSeqs
  <2> QED
    BY <1>4, <1>6, <2>1 DEF Injection, IsInjective
<1>8. s \in Surjection(1 .. n, Agents)
  <2>1. Cardinality(1 .. n) = n
    BY <1>2, FS_Interval
  <2> QED
    BY <1>1, <1>7, <2>1, FS_Injection
<1>9. \A a \in Agents : \E k \in 1 .. n : s[k] = a
  BY <1>8 DEF Surjection
<1> QED
  BY <1>2, <1>4, <1>6, <1>9

\* A nonempty finite set of numbers has a least one.
LEMMA MinProperty ==
  ASSUME NEW K, IsFiniteSet(K), K # {}, \A k \in K : k \in Int
  PROVE  Min(K) \in K /\ \A k \in K : Min(K) <= k
<1>1. IsFiniteSet(K) /\ K # {}
  OBVIOUS
<1>2. PICK After : \A j, k \in K : <<j, k>> \in After <=> k < j
  <2>1. \A j, k \in K : <<j, k>> \in {p \in K \X K : p[2] < p[1]} <=> k < j
    OBVIOUS
  <2> QED
    BY <2>1
<1>3. TotallyOrders(After, K)
  BY <1>2 DEF TotallyOrders, IsTransitivelyClosedOn
<1>4. PICK m \in K : \A k \in K \ {m} : <<k, m>> \in After
  BY ONLY <1>1, <1>3, LastElement
<1>5. \A k \in K : m <= k
  <2>1. ASSUME NEW k \in K PROVE m <= k
    <3>1. CASE k = m
      BY <3>1
    <3>2. CASE k # m
      <4>1. <<k, m>> \in After
        BY <3>2, <1>4, Zenon
      <4>2. m < k
        BY <4>1, <1>2
      <4> QED
        BY <4>2
    <3> QED
      BY <3>1, <3>2
  <2> QED
    BY <2>1
<1> QED
  BY <1>5 DEF Min

\* What Decide answers, in terms of the set of assignable agents.
LEMMA DecideBest ==
  ASSUME NEW req \in Requests, NEW available,
         NEW fit, fit = {a \in Agents : Assignable(req, available, a)},
         NEW picked, picked = Decide(req, available).agents
  PROVE  /\ picked \subseteq fit
         /\ picked = {} <=> fit = {}
         /\ \A a \in picked, b \in fit :
               \/ Score(req, a) > Score(req, b)
               \/ Score(req, a) = Score(req, b) /\ a <= b
<1> DEFINE s == Ranked(req)
           n == Cardinality(Agents)
           passing == {k \in DOMAIN s : Assignable(req, available, s[k])}
<1>1. /\ n \in Nat /\ DOMAIN s = 1 .. n
      /\ \A k \in 1 .. n : s[k] \in Agents
      /\ \A a \in Agents : \E k \in 1 .. n : s[k] = a
      /\ \A j, k \in 1 .. n : j < k => Precedes(req, s[j], s[k])
  BY RankedSorts
<1>2. picked = IF passing # {} THEN {s[Min(passing)]} ELSE {}
  BY DEF Decide
<1>3. passing = {k \in 1 .. n : Assignable(req, available, s[k])}
  BY <1>1
<1> HIDE DEF s, n, passing
<1>4. CASE passing = {}
  BY <1>1, <1>2, <1>3, <1>4
<1>5. CASE passing # {}
  <2> DEFINE m == Min(passing)
  <2>1. m \in passing /\ \A k \in passing : m <= k
    <3>1. IsFiniteSet(passing)
      <4>1. IsFiniteSet(1 .. n)
        BY <1>1, FS_Interval
      <4> QED
        BY <1>3, <4>1, FS_Subset
    <3>2. \A k \in passing : k \in Int
      BY <1>1, <1>3
    <3> QED
      BY <1>5, <3>1, <3>2, MinProperty
  <2> HIDE DEF m
  <2>2. picked = {s[m]} /\ m \in 1 .. n /\ s[m] \in fit
    BY <1>1, <1>2, <1>3, <1>5, <2>1 DEF m
  <2>3. ASSUME NEW b \in fit
        PROVE  \/ Score(req, s[m]) > Score(req, b)
               \/ Score(req, s[m]) = Score(req, b) /\ s[m] <= b
    <3>1. PICK k \in 1 .. n : s[k] = b
      BY <1>1
    <3>2. k \in passing
      BY <1>3, <3>1
    <3>3. m <= k
      BY <2>1, <3>2
    <3>4. CASE m = k
      BY <3>1, <3>4, EngineAssumption
    <3>5. CASE m < k
      <4>1. Precedes(req, s[m], b)
        BY <1>1, <2>2, <3>1, <3>5
      <4>2. s[m] \in Nat /\ b \in Nat
        BY <1>1, <2>2, EngineAssumption
      <4> QED
        BY <4>1, <4>2 DEF Precedes
    <3> QED
      BY <1>1, <2>2, <3>3, <3>4, <3>5
  <2> QED
    BY <2>2, <2>3
<1> QED
  BY <1>4, <1>5

-----------------------------------------------------------------------------
(* The service.                                                            *)

\* Every cache entry, and every request past its lookup, holds agents.
Entry == [live : BOOLEAN, agents : SUBSET Agents]
Phase ==
    [at : {"idle"}] \cup [at : {"lookup"}, interaction : Interactions]
        \cup [at : {"fill", "commit"}, interaction : Interactions, agents : SUBSET Agents]
HoldsAgents == cache \in [Caches -> Entry] /\ route \in [Handlers -> Phase]

LEMMA StepHoldsAgents ==
  ASSUME HoldsAgents, [Next]_vars
  PROVE  HoldsAgents'
<1>1. ASSUME NEW h \in Handlers, NEW at \in {"fill", "commit"}, NEW agents \in SUBSET Agents,
             route[h].at \in {"lookup", "fill"}, With(h, at, agents)
      PROVE  route' \in [Handlers -> Phase]
  <2>1. route[h] \in Phase
    BY DEF HoldsAgents
  <2>2. route[h].interaction \in Interactions
    BY <1>1, <2>1 DEF Phase
  <2> DEFINE r == [at |-> at, interaction |-> route[h].interaction, agents |-> agents]
  <2>3. r \in Phase
    BY <2>2 DEF Phase
  <2>4. route' = [route EXCEPT ![h] = r]
    BY <1>1 DEF With
  <2> HIDE DEF r
  <2> QED
    BY <2>3, <2>4 DEF HoldsAgents
<1>2. \A h \in Handlers : route[h].at \in {"fill", "commit"} => route[h].agents \in SUBSET Agents
  <2>1. \A h \in Handlers : route[h] \in Phase
    BY DEF HoldsAgents
  <2>2. \A r \in Phase : r.at \in {"fill", "commit"} => r.agents \in SUBSET Agents
    BY DEF Phase
  <2> QED
    BY <2>1, <2>2
<1>3. \A h \in Handlers : Cache[h] \in Caches /\ cache[Cache[h]].agents \in SUBSET Agents
  BY RoutingAssumption DEF HoldsAgents, Entry
<1>4. Idle \in Phase
  BY DEF Idle, Phase
<1>5. ASSUME NEW h \in Handlers, route' = [route EXCEPT ![h] = Idle]
      PROVE  route' \in [Handlers -> Phase]
  BY <1>4, <1>5 DEF HoldsAgents
<1>6. ASSUME NEW h \in Handlers, NEW i \in Interactions, RouteStart(h, i) PROVE HoldsAgents'
  <2> DEFINE r == [at |-> "lookup", interaction |-> i]
  <2>1. r \in Phase
    BY DEF Phase
  <2>2. route' = [route EXCEPT ![h] = r] /\ UNCHANGED cache
    BY <1>6 DEF RouteStart
  <2> HIDE DEF r
  <2> QED
    BY <2>1, <2>2 DEF HoldsAgents
<1>7. ASSUME NEW h \in Handlers, LookupHit(h) PROVE HoldsAgents'
  BY <1>1, <1>3, <1>7 DEF LookupHit, HoldsAgents
<1>8. ASSUME NEW h \in Handlers, LookupMiss(h) PROVE HoldsAgents'
  <2>1. AvailableAgents \in SUBSET Agents
    BY DEF AvailableAgents
  <2> QED
    BY <1>1, <1>8, <2>1 DEF LookupMiss, HoldsAgents
<1>9. ASSUME NEW h \in Handlers, Fill(h) PROVE HoldsAgents'
  <2>1. route' \in [Handlers -> Phase]
    BY <1>1, <1>2, <1>9 DEF Fill
  <2> DEFINE e == [live |-> TRUE, agents |-> route[h].agents]
  <2>2. e \in Entry
    BY <1>2, <1>9 DEF Fill, Entry
  <2>3. cache' = [cache EXCEPT ![Cache[h]] = e]
    BY <1>9 DEF Fill
  <2> HIDE DEF e
  <2> QED
    BY <2>1, <2>2, <2>3 DEF HoldsAgents
<1>10. ASSUME NEW h \in Handlers, FillFails(h) PROVE HoldsAgents'
  BY <1>1, <1>2, <1>10 DEF FillFails, HoldsAgents
<1>11. ASSUME NEW h \in Handlers, NEW req \in Requests, Commit(h, req) PROVE HoldsAgents'
  BY <1>5, <1>11 DEF Commit, HoldsAgents
<1>12. ASSUME NEW h \in Handlers, RouteError(h) PROVE HoldsAgents'
  BY <1>5, <1>12 DEF RouteError, HoldsAgents
<1>13. ASSUME NEW c \in Caches, CacheExpires(c) PROVE HoldsAgents'
  <2> DEFINE e == [live |-> FALSE, agents |-> {}]
  <2>1. e \in Entry
    BY DEF Entry
  <2>2. cache' = [cache EXCEPT ![c] = e] /\ UNCHANGED route
    BY <1>13 DEF CacheExpires
  <2> HIDE DEF e
  <2> QED
    BY <2>1, <2>2 DEF HoldsAgents
<1>14. ASSUME UNCHANGED <<cache, route>> PROVE HoldsAgents'
  BY <1>14 DEF HoldsAgents
<1> QED
  BY <1>6, <1>7, <1>8, <1>9, <1>10, <1>11, <1>12, <1>13, <1>14
     DEF Next, RouteStep, vars, SetPresence, Transition, Assign

\* A request about to commit holds agents, and Decide is right for any of those.
LEMMA HeldIsBest == HoldsAgents => PicksTheBest
<1>1. SUFFICES ASSUME HoldsAgents, NEW h \in Handlers, NEW req \in Requests, route[h].at = "commit"
               PROVE  LET fit == {a \in Agents : Assignable(req, route[h].agents, a)}
                          picked == Decision[req][route[h].agents].agents
                      IN  /\ picked \subseteq fit
                          /\ picked = {} <=> fit = {}
                          /\ \A a \in picked, b \in fit :
                                \/ Score(req, a) > Score(req, b)
                                \/ Score(req, a) = Score(req, b) /\ a <= b
  BY DEF PicksTheBest
<1>2. route[h].agents \in SUBSET Agents
  <2>1. route[h] \in Phase
    BY <1>1 DEF HoldsAgents
  <2> QED
    BY <1>1, <2>1 DEF Phase
<1>3. Decision[req][route[h].agents] = Decide(req, route[h].agents)
  BY <1>2 DEF Decision
<1> DEFINE fit == {a \in Agents : Assignable(req, route[h].agents, a)}
           picked == Decision[req][route[h].agents].agents
<1>4. picked = Decide(req, route[h].agents).agents
  BY <1>3
<1>5. /\ picked \subseteq fit
      /\ picked = {} <=> fit = {}
      /\ \A a \in picked, b \in fit :
            \/ Score(req, a) > Score(req, b)
            \/ Score(req, a) = Score(req, b) /\ a <= b
  <2>1. fit = {a \in Agents : Assignable(req, route[h].agents, a)}
    OBVIOUS
  <2> HIDE DEF fit, picked
  <2> QED
    BY <1>4, <2>1, DecideBest
<1> QED
  BY <1>5

LEMMA InitHoldsAgents == Init => HoldsAgents
<1>1. Idle \in Phase
  BY DEF Idle, Phase
<1>2. [live |-> FALSE, agents |-> {}] \in Entry
  BY DEF Entry
<1> QED
  BY <1>1, <1>2 DEF Init, HoldsAgents

\* Whatever agents a request has read, and however stale they are, the ranked
\* scan of Decide takes the best of them that may be assigned, and nobody only
\* when none may.
THEOREM BestPicked == Spec => []PicksTheBest
<1>1. Init => HoldsAgents
  BY InitHoldsAgents
<1>2. HoldsAgents /\ [Next]_vars => HoldsAgents'
  BY StepHoldsAgents
<1> QED
  BY <1>1, <1>2, HeldIsBest, PTL DEF Spec

-----------------------------------------------------------------------------
(* Assignments.                                                            *)

Columns ==
    /\ current \in [Agents -> Interactions \cup {NoInteraction}]
    /\ status \in [Interactions -> Statuses]
    /\ assigned \in [Interactions -> Agents \cup {NoAgent}]

Live(i) == status[i] \in {"pending", "active"}

AssignInv == HoldsAgents /\ Columns /\ LiveWorkHasAgent

\* What the guarded UPDATE does: a live interaction gets the agent, and none
\* loses the one it has.
LEMMA AssignInteractionEffect ==
  ASSUME Columns, NEW i \in Interactions, NEW a \in Agents, AssignInteraction(i, a)
  PROVE  /\ assigned' \in [Interactions -> Agents \cup {NoAgent}]
         /\ Live(i) => assigned'[i] # NoAgent
         /\ \A j \in Interactions : assigned[j] # NoAgent => assigned'[j] # NoAgent
  BY RoutingAssumption DEF Columns, AssignInteraction, Live

\* The state machine has no way back to pending or active.
LEMMA LiveWasLive ==
  ASSUME Columns, NEW i \in Interactions, NEW to \in Statuses, Transition(i, to)
  PROVE  /\ status' \in [Interactions -> Statuses]
         /\ \A j \in Interactions : Live(j)' => Live(j)
  BY DEF Columns, Transition, CanTransition, NextStates, Live, Statuses

LEMMA StepAssigns ==
  ASSUME AssignInv, [Next]_vars
  PROVE  Columns' /\ LiveWorkHasAgent'
<1>0. HoldsAgents /\ Columns /\ LiveWorkHasAgent
  BY DEF AssignInv
<1>1. ASSUME UNCHANGED <<current, status, assigned>> PROVE Columns' /\ LiveWorkHasAgent'
  BY <1>0, <1>1 DEF Columns, LiveWorkHasAgent
<1>2. ASSUME NEW i \in Interactions, NEW to \in OperatorMoves, Transition(i, to)
      PROVE  Columns' /\ LiveWorkHasAgent'
  <2>1. UNCHANGED <<current, assigned>> /\ to \in Statuses
    BY <1>2, RoutingAssumption DEF Transition
  <2>2. status' \in [Interactions -> Statuses] /\ \A j \in Interactions : Live(j)' => Live(j)
    BY <1>0, <1>2, <2>1, LiveWasLive
  <2> QED
    BY <1>0, <2>1, <2>2 DEF Columns, LiveWorkHasAgent, Live
<1>3. ASSUME NEW i \in Interactions, NEW a \in Agents, Assign(i, a) PROVE Columns' /\ LiveWorkHasAgent'
  <2>1. AssignInteraction(i, a) /\ UNCHANGED <<current, status>>
    BY <1>3 DEF Assign
  <2>2. /\ assigned' \in [Interactions -> Agents \cup {NoAgent}]
        /\ \A j \in Interactions : assigned[j] # NoAgent => assigned'[j] # NoAgent
    BY <1>0, <2>1, AssignInteractionEffect
  <2> QED
    BY <1>0, <2>1, <2>2 DEF Columns, LiveWorkHasAgent
<1>4. ASSUME NEW h \in Handlers, NEW req \in Requests, Commit(h, req) PROVE Columns' /\ LiveWorkHasAgent'
  <2> DEFINE picked == Decision[req][route[h].agents].agents
  <2>1. picked \subseteq Agents
    BY <1>0, <1>4, HeldIsBest DEF Commit, PicksTheBest
  <2>2. PICK i \in Interactions : i = route[h].interaction
    <3>1. route[h] \in Phase /\ route[h].at = "commit"
      BY <1>0, <1>4 DEF HoldsAgents, Commit
    <3> QED
      BY <3>1 DEF Phase
  <2>3. CASE picked = {}
    BY <1>1, <1>4, <2>3 DEF Commit
  <2>4. CASE picked # {}
    <3>1. PICK a \in picked : AssignInteraction(i, a) /\ current' = [current EXCEPT ![a] = i] /\ UNCHANGED status
      BY <1>4, <2>2, <2>4 DEF Commit
    <3> HIDE DEF picked
    <3>2. a \in Agents
      BY <2>1, <3>1
    <3>3. /\ assigned' \in [Interactions -> Agents \cup {NoAgent}] /\ (Live(i) => assigned'[i] # NoAgent)
          /\ \A j \in Interactions : assigned[j] # NoAgent => assigned'[j] # NoAgent
      BY <1>0, <3>1, <3>2, AssignInteractionEffect
    <3>4. /\ current' \in [Agents -> Interactions \cup {NoInteraction}] /\ current'[a] = i
          /\ \A b \in Agents \ {a} : current'[b] = current[b]
      BY <1>0, <3>1, <3>2 DEF Columns
    <3>5. Columns'
      BY <1>0, <3>1, <3>3, <3>4 DEF Columns
    <3>6. ASSUME NEW b \in Agents, current'[b] # NoInteraction, Live(current'[b])
          PROVE  assigned'[current'[b]] # NoAgent
      <4>1. CASE b = a
        BY <3>3, <3>4, <3>6, <4>1
      <4>2. CASE b # a
        <5>1. current'[b] = current[b] /\ current[b] \in Interactions
          BY <1>0, <3>4, <3>6, <4>2 DEF Columns
        <5> QED
          BY <1>0, <3>3, <3>6, <5>1 DEF LiveWorkHasAgent, Live
      <4> QED
        BY <4>1, <4>2
    <3> QED
      BY <3>1, <3>5, <3>6 DEF LiveWorkHasAgent, Live
  <2> QED
    BY <2>3, <2>4
<1>5. ASSUME NEW h \in Handlers, RouteStep(h) \/ RouteError(h) PROVE Columns' /\ LiveWorkHasAgent'
  BY <1>1, <1>4, <1>5 DEF RouteStep, LookupHit, LookupMiss, Fill, FillFails, RouteError
<1>6. CASE UNCHANGED vars
  BY <1>1, <1>6 DEF vars
<1> QED
  BY <1>1, <1>2, <1>3, <1>5, <1>6 DEF Next, SetPresence, RouteStart, CacheExpires

\* Although Route does not look at what its UPDATE changed, no agent is held for
\* a pending or active interaction that nobody has: for any requests, however
\* long before the commit they read, and any moves of the interactions between.
THEOREM LiveWorkAssigned == Spec => []LiveWorkHasAgent
<1>1. Init => AssignInv
  <2> SUFFICES ASSUME Init PROVE AssignInv
    OBVIOUS
  <2>1. HoldsAgents
    BY InitHoldsAgents
  <2>2. Columns /\ LiveWorkHasAgent
    BY DEF Init, Columns, Statuses, LiveWorkHasAgent
  <2> QED
    BY <2>1, <2>2 DEF AssignInv
<1>2. AssignInv /\ [Next]_vars => AssignInv'
  BY StepHoldsAgents, StepAssigns DEF AssignInv
<1>3. AssignInv => LiveWorkHasAgent
  BY DEF AssignInv
<1> QED
  BY <1>1, <1>2, <1>3, PTL DEF Spec
=============================================================================
