SPECIFICATION RemoteSpec
CONSTANTS
  a = a b = b c = c nothing = nothing tick = tick
  x = x y = y foreign = foreign none = none child1 = child1 kid1 = kid1
  Child = child1
  Kid = kid1
  Hosts <- BoxHosts
  Limit = 2
  Wall = 1
  MaxMem = 2
  MaxRuns = 1
  MaxTime = 1
  Test = {a, b, c}
  NoTest = nothing
  Caller = {tick}
  Requests <- PairAndCut
  Base <- Heavy
  Top = 1
  Ceiling = TRUE
  Retries = 1
  OomRounds = 2
  StallPolls = 1
  EndsLate = FALSE
  MaxRounds = 9
  MaxJobs = 6
CHECK_DEADLOCK FALSE
INVARIANT TypeOK
 
INVARIANT ArraysAreOwned
INVARIANT StreamIsTrue
INVARIANT RunsAreContained
 
PROPERTY CutsAreJust
 
