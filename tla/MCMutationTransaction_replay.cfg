CONSTANTS
  e1 = e1
  e2 = e2
  e3 = e3
  s1 = s1
  s2 = s2
  p1 = p1
  p2 = p2
  NoClaim = NoClaim
  Absent = Absent
  Base = Base
  Foreign = Foreign
  Executors <- TwoExecutors
  Proposals <- TwoProposals
  ProposalOf <- OneProposal
  Servers <- TwoServers
  ServerOf <- ServerOfEach
  ReviewServer = s2
  Last = 1
  MaxEdits = 0
  MaxFailures = 0
  MaxDeaths = 1
  Suspensions = FALSE
SPECIFICATION Spec
PROPERTIES ApprovalSpent
CHECK_DEADLOCK FALSE
