CONSTANTS
  m1 = m1
  m2 = m2
  m3 = m3
  k1 = k1
  k2 = k2
  Prefixed <- MCPrefixed
  Forever = Forever
  Mutations <- MCMutations
  Keys <- MCKeys
  Ttls <- MCTtls
  Second = 2
  MaxTime = 1
SPECIFICATION Spec
INVARIANTS TypeOK LiveRecordsAreKept LastCallWins ClearIsThorough
CONSTRAINT Bound
SYMMETRY Symmetry
CHECK_DEADLOCK FALSE
