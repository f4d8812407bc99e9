CONSTANTS NCalls = 5  BackupIds = {1, 2}
SPECIFICATION Spec
INVARIANTS TypeOK BackupSingleUse CodesOfCurrentSecret LockoutNeedsRace
CHECK_DEADLOCK FALSE
