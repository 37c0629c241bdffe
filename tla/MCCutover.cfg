\* A pause between the set-up steps of a destination.
CONSTANTS
    N = 1
    Options <- PreSyncCopying
    MaxWrites = 0
    MaxFaults = 0
    NameReuse = FALSE
SPECIFICATION Spec
PROPERTIES ReadyForCutoverIsLocked
\* The system stops once the migration record is deleted.
CHECK_DEADLOCK FALSE
