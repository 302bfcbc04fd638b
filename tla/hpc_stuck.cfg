SPECIFICATION FairSpec
CONSTANTS
  a = a b = b c = c nothing = nothing tick = tick
  Test = {a, b, c}
  NoTest = nothing
  Caller = {tick}
  Requests <- OnlyA
  Base <- Heavy
  Top = 1
  Ceiling = TRUE
  Retries = 1
  OomRounds = 2
  StallPolls = 1
  EndsLate = TRUE
  MaxRounds = 9
  MaxJobs = 6
CHECK_DEADLOCK FALSE
PROPERTY RunEnds
