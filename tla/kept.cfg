SPECIFICATION Spec
CONSTANTS
  p1 = p1 p2 = p2 p3 = p3 v1 = v1 cpu = cpu jmag = jmag k1 = k1 person = person nobody = nobody
  Pid = {p1, p2, v1}
  NoPid = nobody
  Share = {}
  Seat = {jmag}
  Watched = {}
  Size <- Size1
  Reserve <- NoReserve
  MaxUnits = 1
  Vendors = {v1}
  Mortal = {p1, v1}
  Reapers = {p2}
  Unreadable = {}
  Keys = {k1}
  DeclaredKey = person
  Asks <- One
  DeclaredAsks <- One
  Walls = {1}
  Queues = {0, 1}
  Kinds = {"take", "hold", "run", "external"}
  Foreign <- NoForeign
  ForeignSeats = 0
  Grace = 1
  KillLag = 1
  DiesWithLauncher = FALSE
  ProbeMayFail = FALSE
  MaxNest = 1
  MaxTime = 3
  MaxClaims = 2
  MaxTickets = 2
  MaxStamp = 2
INVARIANT RowsAreAccountedFor
PROPERTY KeptClaimsStand
