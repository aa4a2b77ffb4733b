CONSTANTS
  c1 = c1
  c2 = c2
  q1 = q1
  p1 = p1
  p2 = p2
  Calls <- MCCalls
  Queries <- MCQueries
  Providers <- MCProviders
  DefaultLimit <- MCDefaultLimit
  MaxLimit <- MCMaxLimit
  Sizes <- MCSizes
SPECIFICATION Spec
INVARIANTS TypeOK LimitsFollowTheProvider
SYMMETRY Symmetry
CHECK_DEADLOCK FALSE
