CONSTANTS
  r1 = r1
  r2 = r2
  r3 = r3
  r4 = r4
  Requests <- MCThree
  Settings <- MCSettings
SPECIFICATION FairSpec
PROPERTIES EveryProbeIsDecided
CHECK_DEADLOCK FALSE
