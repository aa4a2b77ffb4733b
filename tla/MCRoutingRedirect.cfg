CONSTANTS
  p1 = p1
  p2 = p2
  p3 = p3
  Providers <- MCProviders
  Rank <- MCRank
  MaxAttempts = 2
  MaxHops = 1
SPECIFICATION Spec
INVARIANT AlternateGetsOnePhysicalAttempt
CHECK_DEADLOCK FALSE
