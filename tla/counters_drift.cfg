CONSTANTS
  NCalls = 3
  owner = owner
  fan = fan
  p1 = p1
  Users <- MCUsers
  Posts <- MCPosts
  Author <- MCAuthor
  Requests <- LikesOnly
  MaxPending = 2
  MaxRestarts = 0
  MaxFlushErrors = 0
SPECIFICATION Spec
INVARIANT QuietCountsMatch
CHECK_DEADLOCK FALSE
