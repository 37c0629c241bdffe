\* A grant interrupted, then a stop and a restore.
CONSTANTS
    N = 1
    Options <- GrantedOneShot
    MaxWrites = 1
    MaxFaults = 2
    NameReuse = FALSE
SPECIFICATION Spec
PROPERTIES RestoreUnblocksSourceWrites
\* The system stops once the migration record is deleted.
CHECK_DEADLOCK FALSE
