\* One bucket, every configuration without a read grant.
CONSTANTS
    N = 1
    Options <- DirectOptions
    MaxWrites = 1
    MaxFaults = 2
    NameReuse = FALSE
SPECIFICATION Spec
INVARIANTS TypeOK LockRecorded SourceChangesRecorded DeletedRecordLeavesNothing WorkflowsExclusive
PROPERTIES CompletedCopyIsExact SourceDeletedOnlyIfCopied ForeignTargetUntouched RestoreCompletes
\* The system stops once the migration record is deleted.
CHECK_DEADLOCK FALSE
