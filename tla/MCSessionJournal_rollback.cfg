CONSTANTS
  Source = Source
  Draft = Draft
  a = a
  b = b
  c = c
  ok1 = ok1
  ok2 = ok2
  Contents = {a, b, ok1, ok2}
  Approved = {ok1, ok2}
  r1 = r1
  r2 = r2
  Requests = {r1, r2}
  x1 = x1
  x2 = x2
  Servers = {x1}
  ServerOf <- OneServer
  None = None
  Dead = Dead
  Rollback = TRUE
  MaxVersion = 3
  MaxDeaths = 0
  MaxFailures = 0
SPECIFICATION Spec

PROPERTIES HistoryKept
SYMMETRY Symmetry
CHECK_DEADLOCK FALSE
