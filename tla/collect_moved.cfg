SPECIFICATION BuildsSpec
CONSTANTS
  w1 = w1
  Submits = {w1}
  Todo <- TheTodo
  Commits <- TheCommits
  TestsIn <- TheTests
  Marked = {"g"}
  Pushed = {"c1", "c2"}
  MaxMishaps = 0
INVARIANT CollectsItsCommit
CHECK_DEADLOCK FALSE
