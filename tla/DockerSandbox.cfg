SPECIFICATION FairSpec
CONSTANTS
  Nothing = Nothing
  Chatter <- MCChatter
  MaxCalls = 2
  MaxOutput = 5
INVARIANTS
  LeftoversOnlyAfterTimeout
  PrintedTraceIsJudged
PROPERTIES
  CallsReturn
  ImplementsContract
CHECK_DEADLOCK FALSE
