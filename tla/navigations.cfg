SPECIFICATION Spec
CONSTANTS
  Url = {root, page, part}
  root = root
  page = page
  part = part
  away = away
  Origin <- MCOrigin
  Base <- MCBase
  StartsWith <- MCStartsWith
  Adjusts <- MCAdjusts
  Goto = {g1, g2}
  Wait = {w1}
  WaitStatus = {"PaintingStable", "change", "reload"}
  SinceOption = {None}
  MaxLoads = 2
  MaxInPage = 2
  MaxEntries = 3
  None = None
  Unassigned = Unassigned
  Environments <- MCEnvironments
INVARIANTS TypeOK NoEventIsMissed LoadWaitsEnd NoGotoIsStuck GotoFailsOnlyIfAborted TopIsShown
SYMMETRY MCSymmetry
CHECK_DEADLOCK FALSE
