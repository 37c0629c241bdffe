\* A restore between a pause and its resume.
CONSTANTS
    N = 1
    Options <- PreSyncLocked
    MaxWrites = 0
    MaxFaults = 1
    NameReuse = FALSE
SPECIFICATION Spec
PROPERTIES SuccessfulSourceIsReadOnly
\* The system stops once the migration record is deleted.
CHECK_DEADLOCK FALSE
