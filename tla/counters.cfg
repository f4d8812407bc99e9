CONSTANTS
  NCalls = 3
  owner = owner
  fan = fan
  p1 = p1
  Users <- MCUsers
  Posts <- MCPosts
  Author <- MCAuthor
  Requests <- Everything
  MaxPending = 2
  MaxRestarts = 1
  MaxFlushErrors = 1
SPECIFICATION FairSpec
INVARIANTS
  CountExplained
  ClampNeedsOvertaking
  FlushNowCovers
PROPERTIES
  ImplementsLedger
  EveryDeltaSettles
CHECK_DEADLOCK FALSE
