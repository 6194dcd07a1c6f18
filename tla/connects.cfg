SPECIFICATION FairSpec
CONSTANTS
  c1 = c1
  c2 = c2
  h1 = h1
  h2 = h2
  Connect = {c1, c2}
  Host = {h1, h2}
  Scenarios <- MCScenarios
INVARIANTS TypeOK AlpnIsTheServers SocketsEndWithTheirConnector
PROPERTIES ConnectsEnd
CHECK_DEADLOCK FALSE
