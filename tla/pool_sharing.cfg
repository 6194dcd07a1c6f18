SPECIFICATION Spec
CONSTANTS
  a1 = a1
  a2 = a2
  a3 = a3
  a4 = a4
  Agent = {a1, a2, a3, a4}
  PlainEngine = chrome
  Engine <- OneEngine
  EngineOf <- SameEngine
  MaxAgents = 3
  MaxAgentsPerBrowser = 2
  BrowserLimit = 2
  Environments <- BrowserFaults
SYMMETRY AgentSymmetry
INVARIANTS BrowserLoadIsExact
CHECK_DEADLOCK FALSE
