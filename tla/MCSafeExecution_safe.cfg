CONSTANTS
  d1 = d1
  d2 = d2
  r1 = r1
  r2 = r2
  Directions = {d1, d2}
  Requests = {r1, r2}
  Free = Free
  Dead = Dead
  MaxHistory = 2
  MaxFaults = 2
SPECIFICATION Spec
SYMMETRY Symmetry
INVARIANTS TypeOK AppliedOnce VerificationUndisturbed Operable
CHECK_DEADLOCK FALSE
