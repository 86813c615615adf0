------------------------------- MODULE Routing -------------------------------
(***************************************************************************)
(* The routing service (internal/routing): Route reads the available       *)
(* agents through a presence cache with a TTL, decides, and writes the     *)
(* decision, the assignment and the agent's presence in one transaction.   *)
(*                                                                         *)
(* A cache serves the requests of one API process (PresenceStore) or of    *)
(* all of them (RedisPresenceCache); Cache[h] is the cache of handler h.   *)
(* Redis may fail, and then the database is read and nothing is stored.    *)
(* Nothing in the program calls Invalidate: an entry goes when its TTL has *)
(* passed (CacheExpires).                                                  *)
(***************************************************************************)
EXTENDS RoutingEngine, InteractionStates

CONSTANTS
    Interactions,
    NoInteraction,   \* current_interaction_id NULL
    NoAgent,         \* assigned_agent_id NULL
    Handlers,        \* concurrent POST /routing requests
    Caches,          \* presence caches
    Cache,           \* the cache of a handler
    Requests,        \* routing requests
    RedisFaults,     \* whether the cache is a Redis that may fail
    PresenceInputs,  \* statuses that agents report
    OperatorMoves    \* statuses that API users and receipts move interactions to

ASSUME RoutingAssumption ==
    /\ NoAgent \notin Agents /\ NoInteraction \notin Interactions
    /\ Cache \in [Handlers -> Caches]
    /\ \A req \in Requests : req.skills \in Seq(ToSet(req.skills))
    /\ RedisFaults \in BOOLEAN
    /\ PresenceInputs \subseteq {"available", "busy", "wrapup", "offline"}
    /\ OperatorMoves \subseteq Statuses

VARIABLES
    presence,   \* agent_presence.status ("none": no row)
    current,    \* agent_presence.current_interaction_id
    status,     \* interactions.status
    assigned,   \* interactions.assigned_agent_id
    cache,      \* per cache: whether its entry is live, and the agents in it
    route       \* per handler: position in Route, interaction, agents read

vars == <<presence, current, status, assigned, cache, route>>

Idle == [at |-> "idle"]

Init ==
    /\ presence = [a \in Agents |-> "none"]
    /\ current = [a \in Agents |-> NoInteraction]
    /\ status = [i \in Interactions |-> "pending"]
    /\ assigned = [i \in Interactions |-> NoAgent]
    /\ cache = [c \in Caches |-> [live |-> FALSE, agents |-> {}]]
    /\ route = [h \in Handlers |-> Idle]

-----------------------------------------------------------------------------
(* The rest of the platform.                                               *)

\* SetPresence: the upsert leaves current_interaction_id, and the cache, alone.
SetPresence(a, s) ==
    /\ presence[a] # s
    /\ presence' = [presence EXCEPT ![a] = s]
    /\ UNCHANGED <<current, status, assigned, cache, route>>

\* interactions.Transition, for API users and provider receipts.
Transition(i, to) ==
    /\ CanTransition(status[i], to)
    /\ status' = [status EXCEPT ![i] = to]
    /\ UNCHANGED <<presence, current, assigned, cache, route>>

\* UPDATE interactions SET assigned_agent_id ... WHERE status IN ('pending','active').
AssignInteraction(i, a) ==
    assigned' = IF status[i] \in {"pending", "active"} THEN [assigned EXCEPT ![i] = a] ELSE assigned

\* interactions.Assign: a supervisor hands the interaction to an agent.
Assign(i, a) ==
    /\ AssignInteraction(i, a)
    /\ UNCHANGED <<presence, current, status, cache, route>>

-----------------------------------------------------------------------------
(* Service.Route.                                                          *)

AvailableAgents == {a \in Agents : presence[a] = "available"}

\* The interaction is the tenant's; the agents are read.  The rest of the request
\* matters to Decide only: Commit chooses it.
RouteStart(h, i) ==
    /\ route[h].at = "idle"
    /\ route' = [route EXCEPT ![h] = [at |-> "lookup", interaction |-> i]]
    /\ UNCHANGED <<presence, current, status, assigned, cache>>

\* h goes on to `at` with the agents it read.
With(h, at, agents) ==
    route' = [route EXCEPT ![h] = [at |-> at, interaction |-> @.interaction, agents |-> agents]]

\* Mutant: a hit is stored again, so that its TTL starts anew.
LookupHitSliding(h) ==
    /\ route[h].at = "lookup" /\ cache[Cache[h]].live
    /\ With(h, "fill", cache[Cache[h]].agents)
    /\ UNCHANGED <<presence, current, status, assigned, cache>>

LookupHit(h) ==
    /\ route[h].at = "lookup" /\ cache[Cache[h]].live
    /\ With(h, "commit", cache[Cache[h]].agents)
    /\ UNCHANGED <<presence, current, status, assigned, cache>>

\* A miss, or a Redis that does not answer: the database is read, without a lock.
LookupMiss(h) ==
    /\ route[h].at = "lookup" /\ (~cache[Cache[h]].live \/ RedisFaults)
    /\ With(h, "fill", AvailableAgents)
    /\ UNCHANGED <<presence, current, status, assigned, cache>>

\* What was read is stored, however long ago that was.
Fill(h) ==
    /\ route[h].at = "fill"
    /\ cache' = [cache EXCEPT ![Cache[h]] = [live |-> TRUE, agents |-> route[h].agents]]
    /\ With(h, "commit", route[h].agents)
    /\ UNCHANGED <<presence, current, status, assigned>>

FillFails(h) ==
    /\ RedisFaults
    /\ route[h].at = "fill"
    /\ With(h, "commit", route[h].agents)
    /\ UNCHANGED <<presence, current, status, assigned, cache>>

\* Decide is a function of the request and the agents read: its table.
Decision == [req \in Requests |-> [available \in SUBSET Agents |-> Decide(req, available)]]

\* The transaction: the decision's record, the assignment and the presence.
Commit(h, req) ==
    /\ route[h].at = "commit"
    /\ LET picked == Decision[req][route[h].agents].agents
           i == route[h].interaction
       IN  IF picked = {} THEN UNCHANGED <<presence, current, assigned>>
           ELSE \E a \in picked :
                   /\ AssignInteraction(i, a)
                   /\ presence' = [presence EXCEPT ![a] = "busy"]
                   /\ current' = [current EXCEPT ![a] = i]
    /\ route' = [route EXCEPT ![h] = Idle]
    /\ UNCHANGED <<status, cache>>

\* A read or the transaction fails: rolled back, answered with an error.
RouteError(h) ==
    /\ route[h].at \in {"lookup", "commit"}
    /\ route' = [route EXCEPT ![h] = Idle]
    /\ UNCHANGED <<presence, current, status, assigned, cache>>

CacheExpires(c) ==
    /\ cache[c].live
    /\ cache' = [cache EXCEPT ![c] = [live |-> FALSE, agents |-> {}]]
    /\ UNCHANGED <<presence, current, status, assigned, route>>

-----------------------------------------------------------------------------
RouteStep(h) ==
    \/ LookupHit(h) \/ LookupMiss(h)
    \/ Fill(h) \/ FillFails(h)
    \/ \E req \in Requests : Commit(h, req)

Next ==
    \/ \E a \in Agents, s \in PresenceInputs : SetPresence(a, s)
    \/ \E i \in Interactions, to \in OperatorMoves : Transition(i, to)
    \/ \E i \in Interactions, a \in Agents : Assign(i, a)
    \/ \E h \in Handlers, i \in Interactions : RouteStart(h, i)
    \/ \E h \in Handlers : RouteStep(h) \/ RouteError(h)
    \/ \E c \in Caches : CacheExpires(c)

Spec == Init /\ [][Next]_vars

\* A request that was accepted runs to its end, and the TTL passes; nothing
\* forces agents, users or new requests.
FairSpec ==
    /\ Spec
    /\ \A h \in Handlers : WF_vars(RouteStep(h))
    /\ \A c \in Caches : WF_vars(CacheExpires(c))

-----------------------------------------------------------------------------
(* Properties.                                                             *)

\* service.go: "Decide ranks candidates and picks the best available one above
\* threshold": whatever agents a request has read, the ranked list and its scan
\* give an assignable agent that no assignable one beats, and nobody only when
\* nobody is assignable.
PicksTheBest ==
    \A h \in Handlers, req \in Requests : route[h].at = "commit" =>
        LET fit == {a \in Agents : Assignable(req, route[h].agents, a)}
            picked == Decision[req][route[h].agents].agents
        IN  /\ picked \subseteq fit
            /\ picked = {} <=> fit = {}
            /\ \A a \in picked, b \in fit :
                  \/ Score(req, a) > Score(req, b)
                  \/ Score(req, a) = Score(req, b) /\ a <= b

\* Route makes the agent busy whether or not its UPDATE found the interaction
\* still pending or active.  Such an agent is held for nothing, but only ever
\* for an interaction that is settled: one that is pending or active, now or
\* later, and that some agent is held for, has an agent.
LiveWorkHasAgent ==
    \A a \in Agents :
        current[a] # NoInteraction /\ status[current[a]] \in {"pending", "active"}
            => assigned[current[a]] # NoAgent

\* An agent that goes offline for good is eventually in no live cache entry:
\* requests that read the database before may store it again, but not for ever.
StaleEntriesFade ==
    \A a \in Agents :
        <>[](presence[a] = "offline")
        => <>[](\A c \in Caches : ~(cache[c].live /\ a \in cache[c].agents))
=============================================================================
