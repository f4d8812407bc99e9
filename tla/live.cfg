CONSTANTS
  s1 = s1
  host = host
  fan = fan
  h1 = h1
  v1 = v1
  v2 = v2
  Rooms <- MCRooms
  Users <- MCUsers
  Conns <- MCConns
  Owner <- MCOwner
  Host <- MCHost
  Seqs = {1, 2}
  CidOf <- MCCidOf
  Cids = {1, 2}
  MaxAttempts = 2
  Batch = 1
  Callers = {host}
  MaxTasks = 3
  MaxCrashes = 1
SPECIFICATION Spec
INVARIANTS
  ChunkOnce
  WsInOrder
  AudienceKept
  RoomsHoldListeners
  FirstChunkPinnedOrCut
CHECK_DEADLOCK FALSE
