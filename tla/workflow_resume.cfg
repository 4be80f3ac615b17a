SPECIFICATION FairSpec
CONSTANTS
  Worker = {w1, w2}
  w1 = w1
  w2 = w2
  Claim = {c1, c2}
  c1 = c1
  c2 = c2
  Gap = {g1, g2}
  g1 = g1
  g2 = g2
  Keyed = {g1}
  Item = {i1, i2}
  i1 = i1
  i2 = i2
  MaxRetries = 2
  MaxCrashes = 2
INVARIANTS
  ReportsAreCurrent
  MemoriesOfOneReport
  FinishedIsRemembered
PROPERTIES
  RetryAnswersCritique
  FollowsGraph
  RunEnds
CHECK_DEADLOCK FALSE
