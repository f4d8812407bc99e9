CONSTANTS
  a = a
  b = b
  MIGRATIONS <- MCMigrations
  Ips = {a, b}
  Watched = a
  Rate = 2
  Minute = 2
  Idle = 3
  MaxBuckets = 1
  MaxTime = 7
  MaxDeaths = 2
SPECIFICATION ServerSpec
INVARIANTS
  LimitHolds
  StartsSound
CHECK_DEADLOCK FALSE
