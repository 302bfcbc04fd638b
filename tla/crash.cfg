SPECIFICATION FairSpec
CONSTANTS
  p1 = p1 p2 = p2 p3 = p3 v1 = v1 cpu = cpu jmag = jmag k1 = k1 person = person nobody = nobody
  Pid = {p1, p2}
  NoPid = nobody
  Share = {}
  Seat = {jmag}
  Watched = {}
  Size <- Size2
  Reserve <- NoReserve
  MaxUnits = 2
  Vendors = {}
  Mortal = {p1}
  Reapers = {p2}
  Unreadable = {}
  Keys = {k1}
  DeclaredKey = person
  Asks <- OneOrTwo
  DeclaredAsks = {}
  Walls = {1}
  Queues = {1}
  Kinds = {"hold", "run"}
  Foreign <- NoForeign
  ForeignSeats = 0
  Grace = 1
  KillLag = 1
  DiesWithLauncher = TRUE
  ProbeMayFail = FALSE
  MaxNest = 2
  MaxTime = 3
  MaxClaims = 2
  MaxTickets = 3
  MaxStamp = 2
INVARIANT TypeOK
INVARIANT SeatsNeverOverlent
INVARIANT ProgramsAreBooked
INVARIANT RowsAndTicketsStand
PROPERTY RefusedOnlyByTheLiving
PROPERTY EveryWaitEnds
