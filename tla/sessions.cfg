CONSTANT NRequests = 4
SPECIFICATION FairSpec
INVARIANTS TypeOK OneBearer EndsForAReason LogoutEndsSession
PROPERTIES ImplementsRotation RotationCompletes
CHECK_DEADLOCK FALSE
