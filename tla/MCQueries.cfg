SPECIFICATION Spec
CONSTANTS
  MaxLong = 6
  MaxInt32 = 4
  MaxEntity = 5
  MaxPacked = 4
  MaxKey = 8
  Most = 3
  Window = 2
  First <- MCFirst
  Later <- MCLater
  MaxValues <- MCMaxValues
INVARIANTS
  TypeOK
  BothFormsAgree
  TopicQueriesAreBounded
  BoundsAreSatisfiable
  CachedAnswersFit
CHECK_DEADLOCK FALSE
