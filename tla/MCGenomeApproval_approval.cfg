CONSTANTS
  p1 = p1
  p2 = p2
  c1 = c1
  c2 = c2
  Procs = {p1, p2}
  Claims = {c1, c2}
  Free = Free
  Dead = Dead
  None = None
  Prompt = TRUE
  MaxFaults = 2
  MaxEdits = 1
SPECIFICATION FairSpec
INVARIANTS ApprovedIsBacked NeverWedged OneOwner
PROPERTIES NeverReplayed Settles
CHECK_DEADLOCK FALSE
