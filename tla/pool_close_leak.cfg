SPECIFICATION Spec
CONSTANTS
  a1 = a1
  Agent = {a1}
  PlainEngine = chrome
  Engine <- OneEngine
  EngineOf <- SameEngine
  MaxAgents = 1
  MaxAgentsPerBrowser = 1
  BrowserLimit = 1
  Environments <- PoolShutdown
INVARIANTS
  ClosedPoolHasNoBrowser
CHECK_DEADLOCK FALSE
