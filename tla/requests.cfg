SPECIFICATION FairSpec
CONSTANTS
  r1 = r1
  r2 = r2
  Request = {r1, r2}
  MaxHops = 2
  None = None
  Environments <- MCEnvironments
INVARIANTS TypeOK EventsInOrder JoinedWithItsOwn
PROPERTIES CollectedInTheEnd
CHECK_DEADLOCK FALSE
