SPECIFICATION FairSpec
CONSTANTS
  t1 = t1
  c1 = c1
  c2 = c2
  c3 = c3
  Target = {t1}
  Command = {c1, c2, c3}
  SessionOf <- Sessions
  EventLimit = 1
  NoCommand = NoCommand
  Environment <- AllHappenings
INVARIANTS
  TypeOK
  NothingPendsOnClosedSession
  MessagesFindTheirSession
PROPERTIES
  AnswersSettle
  DeathIsReported
CHECK_DEADLOCK FALSE
