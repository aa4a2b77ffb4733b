CONSTANTS
  c1 = c1
  c2 = c2
  d1 = d1
  d2 = d2
  NoConn = NoConn
  Calls <- MCCalls
  Conns <- MCConns
  Keys <- MCKeys
  Owned <- MCOwned
  Ttls <- MCTtls
  Batch = 1
  MaxTime = 1
SPECIFICATION Spec
INVARIANTS TypeOK ConnectionsAreKept
PROPERTIES OnlyStaleRecordsAreSwept StaleRecordsAreReclaimed
