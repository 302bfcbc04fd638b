SPECIFICATION AllSpec
CONSTANTS
  u1 = u1 u2 = u2 u3 = u3
  make = make read = read
  v1 = v1 v2 = v2
  g1 = g1 g2 = g2
  NoVersion = NoVersion
  Unit <- MCUnit
  Recipe <- MCRecipe
  Upstream <- MCUpstream
  LocalOnly = {read}
  Where = "anywhere"
  Version = {v1, v2}
  RunsAgain = FALSE
  MaxRuns = 2
  Untagged = none
  Borrow = borrow
  big = big tiny = tiny other = other
CHECK_DEADLOCK FALSE
INVARIANT ExecutorIsSound
INVARIANT ShardsAreSound
INVARIANT PoolIsSound
PROPERTY FirstResultStands
PROPERTY RunEnds
PROPERTY ReturnedStays
PROPERTY BatchReturns
PROPERTY LargeStarts
