------------------------- MODULE MigrationCommands -------------------------
(***************************************************************************)
(* The operator's commands on one migration: planning.py, retry.py, and    *)
(* the requests of preparation.py and maintenance.py.  Each command reads  *)
(* the row, checks its workflow rule and commits through                   *)
(* _transition_command, whose UPDATE is conditional on the status, the     *)
(* preparation status and the maintenance status that were read: command   *)
(* and check are one step.                                                 *)
(***************************************************************************)
EXTENDS MigrationState

\* planning.py, update_draft_migration: any configuration, a new revision.
UpdateDraft(o) ==
    /\ CanEditDraft
    /\ opt' = o
    /\ mig' = [mig EXCEPT !.preparation = "stale", !.current = FALSE,
                          !.leased = FALSE]
    /\ item' = [i \in Items |->
                  [item[i] EXCEPT !.status = "pending", !.step = "create_bucket",
                                  !.pre_sync_done = FALSE,
                                  !.ro = FALSE, !.ro_backup = {},
                                  !.locked = FALSE, !.lock_backup = {}]]
    /\ UNCHANGED <<bucket, w, faults>>

\* preparation.py, request_precheck
RequestPrecheck(active) ==
    /\ CanEditDraft
    /\ mig' = [mig EXCEPT !.preparation = "checking", !.active_checks = active,
                          !.current = FALSE, !.leased = FALSE]
    /\ UNCHANGED <<opt, item, bucket, w, faults>>

\* PRECHECK_MAX_AGE goes by before the draft is started.
PrecheckExpires ==
    /\ mig.status = "draft" /\ mig.current
    /\ mig' = [mig EXCEPT !.current = FALSE]
    /\ UNCHANGED <<opt, item, bucket, w, faults>>

Requeued(row) == [row EXCEPT !.status = "queued", !.leased = FALSE]

\* planning.py, start_migration: a failed precondition marks the checks stale.
StartMigration ==
    /\ CanStart
    /\ IF \A i \in Items : TransferPreconditions(i)
       THEN mig' = Requeued(mig)
       ELSE mig' = [mig EXCEPT !.preparation = "stale"]
    /\ UNCHANGED <<opt, item, bucket, w, faults>>

RequestPause ==
    /\ CanPause
    /\ mig' = [mig EXCEPT !.status = "pause_requested"]
    /\ UNCHANGED <<opt, item, bucket, w, faults>>

ResumeMigration ==
    /\ CanResume
    /\ \A i \in Items : TransferPreconditions(i)
    /\ mig' = Requeued(mig)
    /\ item' = [i \in Items |->
                  IF item[i].status = "paused"
                  THEN [item[i] EXCEPT !.status = "pending"]
                  ELSE item[i]]
    /\ UNCHANGED <<opt, bucket, w, faults>>

StopMigration ==
    /\ CanStop
    /\ mig.status # "cancel_requested"
    /\ mig' = [mig EXCEPT !.status = "cancel_requested"]
    /\ UNCHANGED <<opt, item, bucket, w, faults>>

\* planning.py, continue_after_presync
ContinueAfterPresync ==
    /\ CanCutover
    /\ \A i \in Items : TransferPreconditions(i)
    /\ mig' = Requeued(mig)
    /\ item' = [i \in Items |->
                  IF item[i].status = "awaiting_cutover"
                  THEN [item[i] EXCEPT !.status = "pending",
                                       !.step = "apply_read_only"]
                  ELSE item[i]]
    /\ UNCHANGED <<opt, bucket, w, faults>>

RetryStepForFailedItem(step) == IF step = "verify" THEN "sync" ELSE step

\* retry.py: retry_item for a singleton, retry_failed_items for all of them.
Retry(S) ==
    /\ CanRetry
    /\ S # {} /\ \A i \in S : item[i].status = "failed" /\ TransferPreconditions(i)
    /\ mig' = Requeued(mig)
    /\ item' = [i \in Items |->
                  IF i \in S
                  THEN [item[i] EXCEPT !.status = "pending",
                                       !.step = RetryStepForFailedItem(@)]
                  ELSE item[i]]
    /\ UNCHANGED <<opt, bucket, w, faults>>

FailedItems == {i \in Items : item[i].status = "failed"}

\* maintenance.py, request_maintenance
RequestMaintenance(op) ==
    /\ \/ op = "restore_access" /\ CanRestoreAccess
       \/ op = "cleanup_source" /\ CanCleanupSource
       \/ op = "cleanup_target" /\ CanCleanupTarget
    /\ mig' = [mig EXCEPT !.maintenance = "queued", !.operation = op,
                          !.leased = FALSE]
    /\ UNCHANGED <<opt, item, bucket, w, faults>>

DeleteMigration ==
    /\ CanDelete
    /\ mig' = [mig EXCEPT !.status = "deleted"]
    /\ UNCHANGED <<opt, item, bucket, w, faults>>

\* persistence.py, _assert_migration_creator_access, reached from a command:
\* the creator lost a context, so the transfer is over.
CommandAfterRevocation ==
    /\ CanResume \/ CanCutover \/ CanRetry
    /\ faults < MaxFaults /\ faults' = faults + 1
    /\ mig' = [mig EXCEPT !.status = "failed"]
    /\ UNCHANGED <<opt, item, bucket, w>>

Command ==
    \/ \E o \in Options : UpdateDraft(o)
    \/ \E active \in BOOLEAN : RequestPrecheck(active)
    \/ PrecheckExpires
    \/ StartMigration
    \/ RequestPause
    \/ ResumeMigration
    \/ StopMigration
    \/ ContinueAfterPresync
    \/ \E i \in Items : Retry({i})
    \/ Retry(FailedItems)
    \/ \E op \in MaintenanceOps : RequestMaintenance(op)
    \/ DeleteMigration
    \/ CommandAfterRevocation
=============================================================================
