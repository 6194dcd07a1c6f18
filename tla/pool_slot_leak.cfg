SPECIFICATION Spec
CONSTANTS
  a1 = a1
  a2 = a2
  Agent = {a1, a2}
  PlainEngine = chrome
  Engine <- OneEngine
  EngineOf <- SameEngine
  MaxAgents = 1
  MaxAgentsPerBrowser = 1
  BrowserLimit = 2
  Environments <- ImpatientOwners
SYMMETRY AgentSymmetry
INVARIANTS
  ClosedAgentHoldsNoSlot
CHECK_DEADLOCK FALSE
