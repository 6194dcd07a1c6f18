SPECIFICATION FairSpec
CONSTANTS
  c1 = c1
  c2 = c2
  Call = {c1, c2}
  TriggerPopupOn <- Triggers
  MaxTargets = 3
  MaxInbox = 1
  None = None
  Environments <- MCEnvironments
INVARIANTS TypeOK NewPageIsNoPopup ClosedContextHasNoOpenPage NewPageFailsForAReason
PROPERTIES CallsSettle
CHECK_DEADLOCK FALSE
