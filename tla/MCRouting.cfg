CONSTANTS
  p1 = p1
  p2 = p2
  p3 = p3
  Providers <- MCProviders
  Rank <- MCRank
  MaxAttempts = 2
  MaxHops = 1
SPECIFICATION FairSpec
INVARIANTS TypeOK NobodyTwice NobodyLeftOut
PROPERTIES AbortStopsWork Settles ImplementsContract
CHECK_DEADLOCK FALSE
