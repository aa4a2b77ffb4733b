CONSTANTS
  u0 = u0
  u1 = u1
  u2 = u2
  Urls <- MCUrls
  Url = u0
  Policies <- MCPolicies
  MaxRedirects = 1
  MaxTimer = 3000
  RetryAfters <- MCRetryAfters
SPECIFICATION Spec
INVARIANTS TypeOK RequestIsReplayed StatusIsPreserved FetchesArePaid
PROPERTIES AbortStopsFetching FirstCauseWins Settles AbortIsPrompt ImplementsCapture
CHECK_DEADLOCK FALSE
