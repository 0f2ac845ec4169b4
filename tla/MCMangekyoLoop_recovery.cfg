CONSTANTS
  MaxRounds = 2
  Changes <- AllChanges
  s1 = s1
  s2 = s2
  Stoppers <- NoStopper
  MaxFaults = 2
SPECIFICATION FairSpec
INVARIANTS OneMutationPerRound ActiveUntilTerminal
PROPERTIES LoopSettles InterruptedMutationEnds
CHECK_DEADLOCK FALSE
