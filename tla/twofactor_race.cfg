CONSTANTS NCalls = 5  BackupIds = {1, 2}
SPECIFICATION Spec
INVARIANT EnabledMeansProven
CHECK_DEADLOCK FALSE
