SPECIFICATION Spec
CONSTANTS
  p1 = p1 p2 = p2 p3 = p3 v1 = v1 cpu = cpu jmag = jmag k1 = k1 person = person nobody = nobody
  Pid = {p1, p2, p3}
  NoPid = nobody
  Share = {cpu}
  Seat = {}
  Watched = {}
  Size <- Size2
  Reserve <- KeepOne
  MaxUnits = 2
  Vendors = {}
  Mortal = {}
  Reapers = {}
  Unreadable = {}
  Keys = {k1}
  DeclaredKey = person
  Asks <- OneOrTwo
  DeclaredAsks = {}
  Walls = {1, 2}
  Queues = {1}
  Kinds = {"hold"}
  Foreign <- MoreForeign
  ForeignSeats = 0
  Grace = 1
  KillLag = 1
  DiesWithLauncher = TRUE
  ProbeMayFail = FALSE
  MaxNest = 1
  MaxTime = 2
  MaxClaims = 3
  MaxTickets = 3
  MaxStamp = 1
INVARIANT SharesNeverOverlent
PROPERTY RoomIsLentOnce
SYMMETRY SymPids
