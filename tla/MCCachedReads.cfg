CONSTANTS
  r1 = r1
  r2 = r2
  n1 = n1
  n2 = n2
  p1 = p1
  p2 = p2
  Reads <- MCReads
  Networks <- MCNetworks
  Providers <- MCProviders
  Limit <- MCLimit
  Ttls <- MCTtls
  MaxVersion = 1
  MaxTime = 1
SPECIFICATION Spec
INVARIANTS TypeOK KeysDescribeTheirRecords AnswersFitTheCall SnapshotsAreIsolated ReadsAreFresh
SYMMETRY Symmetry
CHECK_DEADLOCK FALSE
