CONSTANTS
  Thumbless = Thumbless
  u = u
  v = v
  Users = {u, v}
  PageLimit = 1
  Window = 2
  Cids = {1, 2, 3}
  MaxAttempts = 2
  Batch = 2
  Uploads <- MCUploads
  StoryTtl = 2
  Media = {1, 2}
  ReportCid = 3
  Published <- MCPublished
  Mixes <- MCMixes
  Authors = {u}
  MaxTasks = 2
  MaxCalls = 3
  MaxTime = 4
  MaxWalk = 3
  MaxCrashes = 1
SPECIFICATION FairContent
INVARIANTS
  ContentTypeOK
  GraphConsistent
  PagesComplete
  PublishedWhole
  JobsConsistent
PROPERTIES PinsImplementRetryQueue BackgroundSettles
CHECK_DEADLOCK FALSE
