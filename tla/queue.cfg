SPECIFICATION QueueSpec
CONSTANTS
  p1 = p1 p2 = p2 p3 = p3 v1 = v1 cpu = cpu jmag = jmag k1 = k1 person = person nobody = nobody
  Pid = {p1, p2, p3}
  NoPid = nobody
  Share = {}
  Seat = {jmag}
  Watched = {}
  Size <- Size2
  Reserve <- NoReserve
  MaxUnits = 2
  Vendors = {}
  Mortal = {}
  Reapers = {}
  Unreadable = {}
  Keys = {k1}
  DeclaredKey = person
  Asks <- OneOrTwo
  DeclaredAsks = {}
  Walls = {1, 3}
  Queues = {0, 3}
  Kinds = {"hold"}
  Foreign <- NoForeign
  ForeignSeats = 0
  Grace = 1
  KillLag = 1
  DiesWithLauncher = TRUE
  ProbeMayFail = FALSE
  MaxNest = 1
  MaxTime = 3
  MaxClaims = 3
  MaxTickets = 3
  MaxStamp = 1
PROPERTY HeadWaitIsBounded
SYMMETRY SymPids
