\* One bucket, the default configuration or a copy under a temporary grant:
\* every request is answered.
CONSTANTS
    N = 1
    Options <- PreSyncOrGranted
    MaxWrites = 1
    MaxFaults = 1
    NameReuse = FALSE
SPECIFICATION FairSpec
INVARIANTS NoStaleTemporaryChange
PROPERTIES StopTakesEffect PauseTakesEffect ChecksReport MaintenanceEnds
\* The system stops once the migration record is deleted.
CHECK_DEADLOCK FALSE
