SPECIFICATION FairSpec
CONSTANTS
  l1 = l1
  l2 = l2
  h1 = h1
  s1 = s1
  Lookup = {l1, l2}
  Host = {h1}
  HostOf <- OneHost
  Session = {s1}
  SessionOf <- OneSession
  TlsSession = {s1}
  Retries = 1
  EntryLimit = 4
  SocketLimit = 2
  Environment <- Faults
INVARIANTS
  TypeOK
  FailsOnlyIfSystemFails
  NoRejectedEntryIsKept
PROPERTIES
  LookupsSettle
CHECK_DEADLOCK FALSE
