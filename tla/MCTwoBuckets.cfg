\* Two buckets, an immediate migration, one fault.
CONSTANTS
    N = 2
    Options <- OneShotLocked
    MaxWrites = 0
    MaxFaults = 1
    NameReuse = FALSE
SPECIFICATION Spec
PROPERTIES CompletedCopyPreserved SourceDeletedOnlyIfCopied RestoreCompletes
\* The system stops once the migration record is deleted.
CHECK_DEADLOCK FALSE
