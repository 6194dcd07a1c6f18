SPECIFICATION FairSpec
CONSTANTS
  a1 = a1
  a2 = a2
  Agent = {a1, a2}
  PlainEngine = chrome
  Engine <- OneEngine
  EngineOf <- SameEngine
  MaxAgents = 1
  MaxAgentsPerBrowser = 1
  BrowserLimit = 2
  Environments <- MCEnvironments
INVARIANTS
  TypeOK
  NoIdleCapacity
PROPERTIES
  ImplementsAgentSlots
  OpenSettles
  DeadBrowserIsDropped
  PoolCloseEnds
CHECK_DEADLOCK FALSE
