CONSTANTS
  w1 = w1
  w2 = w2
  r1 = r1
  Writers = {w1, w2}
  Readers = {r1}
  Free = Free
  MaxGenerations = 2
  MaxOps = 4
  MaxFaults = 2
SPECIFICATION Spec
SYMMETRY Symmetry
INVARIANTS Readable AcceptedPair
PROPERTIES OneTruth
CHECK_DEADLOCK FALSE
