\* A stop with two protections in place.
CONSTANTS
    N = 1
    Options <- PreSyncLocked
    MaxWrites = 0
    MaxFaults = 0
    NameReuse = FALSE
SPECIFICATION Spec
INVARIANTS StopRestoresAccess
\* The system stops once the migration record is deleted.
CHECK_DEADLOCK FALSE
