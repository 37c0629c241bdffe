\* A removed name is taken again before the removal is recorded.
CONSTANTS
    N = 1
    Options <- OneShotLocked
    MaxWrites = 0
    MaxFaults = 2
    NameReuse = TRUE
SPECIFICATION Spec
PROPERTIES OnlyOwnTargetsDeleted
\* The system stops once the migration record is deleted.
CHECK_DEADLOCK FALSE
