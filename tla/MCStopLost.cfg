\* A stop that arrives while the run commits its pause or its end.
CONSTANTS
    N = 1
    Options <- PreSyncLocked
    MaxWrites = 0
    MaxFaults = 0
    NameReuse = FALSE
SPECIFICATION FairSpec
PROPERTIES StopNeverLost
\* The system stops once the migration record is deleted.
CHECK_DEADLOCK FALSE
