---------------------------- MODULE RoutingEngine ----------------------------
(***************************************************************************)
(* The pure routing engine (Engine.Score and Engine.Decide of              *)
(* internal/routing/service.go).                                           *)
(*                                                                         *)
(* A request is a record of required skills (a list, as the API takes it), *)
(* a language and a priority.  The score 2*coverage + 1.5*language +       *)
(* priority/10 is multiplied by 10 times the number of required skills, so *)
(* that every comparison is one of integers.  Agents are numbers, ordered  *)
(* like their ids.  agentViews never fills AgentView.QueueID, so the queue *)
(* filter of Decide lets every agent pass and is left out.                 *)
(***************************************************************************)
EXTENDS Integers, Sequences, FiniteSets, SequencesExt

CONSTANTS
    Agents,          \* the tenant's active agents
    AgentSkills,     \* the skills of an agent
    AgentLanguage,   \* the language of an agent
    AnyLanguage      \* the empty language ''

ASSUME EngineAssumption ==
    Agents \subseteq Nat /\ IsFiniteSet(Agents) /\ DOMAIN AgentSkills = Agents

\* Route: a priority outside 1..10 counts as 5.
Priority(req) == IF req.priority \in 1 .. 10 THEN req.priority ELSE 5

Required(req) == Len(req.skills)
MatchedSkills(req, a) == AgentSkills[a] \cap ToSet(req.skills)
LanguageMatch(req, a) ==
    req.language = AnyLanguage \/ AgentLanguage[a] = AnyLanguage \/ req.language = AgentLanguage[a]

\* The weight of one unit of coverage: the list's length, or 1 for an empty list.
Unit(req) == IF Required(req) = 0 THEN 1 ELSE Required(req)

Score(req, a) ==
    LET covered == IF Required(req) = 0 THEN 1 ELSE Cardinality(MatchedSkills(req, a))
    IN  20 * covered + Unit(req) * ((IF LanguageMatch(req, a) THEN 15 ELSE 0) + Priority(req))

\* Mutant: ranked by id alone.
PrecedesById(req, a, b) == a < b

\* The sort: by score, highest first, then by id.
Precedes(req, a, b) ==
    \/ Score(req, a) > Score(req, b)
    \/ Score(req, a) = Score(req, b) /\ a < b

\* Urgent requests demand full coverage; nobody is taken below a score of 2.0.
Assignable(req, available, a) ==
    /\ a \in available
    /\ Priority(req) >= 8 => Cardinality(MatchedSkills(req, a)) >= Required(req)
    /\ Score(req, a) >= 20 * Unit(req)

\* The candidates after the sort.
Ranked(req) ==
    CHOOSE s \in SetToSeqs(Agents) : \A j, k \in DOMAIN s : j < k => Precedes(req, s[j], s[k])

\* Decide: the scan stops at the first assignable agent of the ranking, if any.
Decide(req, available) ==
    LET s == Ranked(req)
        passing == {k \in DOMAIN s : Assignable(req, available, s[k])}
    IN  IF passing # {} THEN [outcome |-> "assigned_agent", agents |-> {s[Min(passing)]}]
        ELSE [outcome |-> IF available # {} \/ Agents # {} THEN "queued" ELSE "no_agent_available",
              agents |-> {}]

=============================================================================
