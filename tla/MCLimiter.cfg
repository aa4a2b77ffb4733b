CONSTANTS
  r1 = r1
  r2 = r2
  r3 = r3
  r4 = r4
  Requests <- MCFour
  Settings <- MCSettings
SPECIFICATION Spec
INVARIANTS TypeOK OverflowNeverWaits CallsAreAccounted
SYMMETRY Symmetry
CHECK_DEADLOCK FALSE
