SPECIFICATION CallsSpec
CONSTANTS
  p = p q = q slow = slow fast = fast here = here there = there costly = costly
  ada = ada bea = bea none = none borrow = borrow ana = ana bob = bob
  tick = tick s1 = s1 forge = forge torn1 = torn1 w1 = w1 w2 = w2 j1 = j1 j2 = j2 me = me you = you
  f1 = f1 f2 = f2 f3 = f3 r1 = r1 r2 = r2
  Untagged = none
  Borrow = borrow
  Torn = torn1
  Tools = {"femm"}
  Threads = {tick, s1}
  Servers = {tick}
  Process <- OneProcess
  Hosts <- TheHosts
  Manifests <- TheManifests
  Ttl = 2
  MaxChanges = 1
  MaxTime = 3
  Submits = {w1, w2}
  Todo <- TheTodo
  Commits <- TheCommits
  TestsIn <- TheTests
  Marked = {"g"}
  Pushed = {"c1", "c2", "c4", "c5"}
  MaxMishaps = 1
  CleanRoot <- TheRoot
  RealOf <- TheNames
  Asks <- TheAsks
  Foreign <- TheForeign
  JobDirs <- TheJobDirs
  Pids = {1, 2, 3}
  Root = 2
  Other = 3
  Systems = {"windows", "linux"}
  Unreadable = {}
  Patience = 1
  MaxCpu = 1
  MaxSamples = 2
  MaxBorn = 2
  MaxClock = 1
  Writers = {f1, f2, f3}
  Readers = {r1, r2}
  DoorOf <- Doors
  HowsOf <- Readings
  Windows = {TRUE, FALSE}
  Begun = {"first"}
  Insistence = 2
  MaxTroubles = 1
INVARIANT PlansKeepTheirLimits
INVARIANT AnswersAreTrue
INVARIANT PresentIsBacked
 
INVARIANT CleanSparesTheRest
INVARIANT TreesAreSound
 
PROPERTY RefreshJudgesAnew
CHECK_DEADLOCK FALSE
