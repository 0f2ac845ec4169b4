CONSTANTS
  e1 = e1
  e2 = e2
  e3 = e3
  s1 = s1
  s2 = s2
  p1 = p1
  p2 = p2
  NoClaim = NoClaim
  Absent = Absent
  Base = Base
  Foreign = Foreign
  Executors <- TwoExecutors
  Proposals <- TwoProposals
  ProposalOf <- OwnProposals
  Servers <- TwoServers
  ServerOf <- ServerOfEach
  ReviewServer = s2
  Last = 2
  MaxEdits = 1
  MaxFailures = 1
  MaxDeaths = 1
  Suspensions = FALSE
SPECIFICATION Spec
INVARIANTS OneMutator ClaimTellsTruth NothingLeftBehind
PROPERTIES ForeignBytesKept
CHECK_DEADLOCK FALSE
