\* Two requests share a Redis cache that may fail; one interaction, two agents.
SPECIFICATION FairSpec
CONSTANTS
    Agents = {1, 2}
    AgentSkills <- TwoAgentSkills
    AgentLanguage <- TwoAgentLanguages
    AnyLanguage = "any"
    Interactions = {i1}
    NoInteraction = none
    NoAgent = nobody
    Handlers = {h1, h2}
    Caches = {c1}
    Cache <- OneCache
    Requests <- EdgeRequests
    RedisFaults = TRUE
    PresenceInputs = {"available", "offline"}
    OperatorMoves = {"active", "wrapup", "canceled"}
INVARIANTS
    PicksTheBest
    LiveWorkHasAgent
PROPERTY StaleEntriesFade
