------------------------------ MODULE MCRouting ------------------------------
(***************************************************************************)
(* Two agents, one with more skills and one with the language asked for,   *)
(* and the requests that reach the edges of the engine's rules.            *)
(***************************************************************************)
EXTENDS Routing

TwoAgentSkills == [a \in Agents |-> IF a = 1 THEN {"billing", "tech"} ELSE {"billing"}]
TwoAgentLanguages == [a \in Agents |-> IF a = 1 THEN "en" ELSE "sw"]
OneCache == [h \in Handlers |-> CHOOSE c \in Caches : TRUE]

\* Skill lists of up to two entries (a repeated one too), the language of one
\* agent and priorities on both sides of the thresholds, one out of range.
EdgeRequests ==
    [skills : {<<"billing">>, <<"billing", "tech">>, <<"tech", "tech">>, <<"sales">>},
     language : {"sw"},
     priority : {4, 8, 11}]

\* The table of decisions has an outcome, and at most one agent, for every
\* request and every set of agents that may have been read.
ASSUME EveryRequestDecided ==
    Decision \in [Requests -> [SUBSET Agents ->
                    [outcome : {"assigned_agent", "queued", "no_agent_available"},
                     agents : {{}} \cup {{a} : a \in Agents}]]]
=============================================================================
