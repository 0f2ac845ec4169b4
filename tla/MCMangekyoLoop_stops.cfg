CONSTANTS
  MaxRounds = 1
  Changes <- AllChanges
  s1 = s1
  s2 = s2
  Stoppers <- TwoStoppers
  MaxFaults = 0
SPECIFICATION Spec
INVARIANTS TypeOK StopExcludesSameVersion GateStaysDecidable
PROPERTIES MutationAuthorized StopHaltsMutation
SYMMETRY StopperSymmetry
CHECK_DEADLOCK FALSE
