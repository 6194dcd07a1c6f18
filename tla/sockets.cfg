SPECIFICATION FairSpec
CONSTANTS
  r1 = r1
  r2 = r2
  r3 = r3
  r4 = r4
  Request = {r1, r2, r3, r4}
  MaxConnections = 1
  SocketLimit = 5
  Origins <- MCOrigins
INVARIANTS TypeOK PooledIsExact OneRequestPerConnection HandsOutOpenSockets
PROPERTIES SocketRequestsSettle
CHECK_DEADLOCK FALSE
