----------------------- MODULE MigrationMaintenance -----------------------
(***************************************************************************)
(* The recovery operations a worker runs on request (maintenance.py):      *)
(* restore_access, cleanup_source and cleanup_target, and the recovery of  *)
(* journalled temporary changes (preparation.py), which restore_access     *)
(* shares with the prechecks.                                              *)
(***************************************************************************)
EXTENDS MigrationRelease

\* run_maintenance up to the choice of the operation
BeginMaintenance ==
    /\ w.pc = "start"
    /\ mig.maintenance \in {"queued", "running"}
    /\ mig' = [mig EXCEPT !.maintenance = "running"]
    /\ w' = IF mig.operation = "restore_access"
            THEN [w EXCEPT !.pc = "recover", !.then = "restore"]
            ELSE [w EXCEPT !.pc = "cleanup"]
    /\ UNCHANGED <<opt, item, bucket, faults>>

\* _finish_maintenance_run
FinishMaintenance(failed) ==
    /\ mig' = [mig EXCEPT !.maintenance = IF failed THEN "failed" ELSE "completed",
                          !.leased = FALSE]
    /\ w' = IdleWorker

(***************************************************************************)
(* _recover_preparation_effects: items in order, effects in the order they *)
(* were journalled; restore, then clear the entry.                         *)
(***************************************************************************)
IsFirstItem(i) == \A j \in 1..(i - 1) : item[j].effects = {}
IsFirstEffect(e, effects) == \A f \in effects : e.at <= f.at

RecoverEffect ==
    /\ w.pc = "recover"
    /\ \E i \in Items : \E e \in item[i].effects :
         /\ IsFirstItem(i) /\ IsFirstEffect(e, item[i].effects)
         /\ bucket' = [bucket EXCEPT ![i] =
                         IF e.name = "probe_bucket"
                         THEN [@ EXCEPT !.probe = FALSE]
                         ELSE [@ EXCEPT !.source_policy = e.policy]]
         /\ w' = [w EXCEPT !.pc = "recover_clear", !.cur = i]
    /\ UNCHANGED <<opt, mig, item, faults>>

\* _clear_preparation_effect
ClearRecoveredEffect ==
    /\ w.pc = "recover_clear"
    /\ \E e \in It.effects :
         /\ IsFirstEffect(e, It.effects)
         /\ SetItem([It EXCEPT !.effects = @ \ {e}])
    /\ Goto("recover")
    /\ UNCHANGED <<opt, mig, bucket, faults>>

RecoveryDone ==
    /\ w.pc = "recover" /\ ~Recovery
    /\ w' = IF w.then = "restore"
            THEN [w EXCEPT !.pc = "release", !.cur = 1, !.todo = AllProtections]
            ELSE [w EXCEPT !.pc = "check_item", !.cur = 1, !.task = 0]
    /\ UNCHANGED <<opt, mig, item, bucket, faults>>

\* Nothing is caught inside the recovery: the whole operation fails.
RecoveryFault ==
    /\ w.pc \in {"recover", "recover_clear"}
    /\ Fault
    /\ \/ w.then = "restore" /\ FinishMaintenance(TRUE)
       \/ /\ w.then = "checks"
          /\ mig' = [mig EXCEPT !.preparation = "blocked", !.leased = FALSE]
          /\ w' = IdleWorker
    /\ UNCHANGED <<opt, item, bucket>>

(***************************************************************************)
(* _run_cleanup_maintenance                                                *)
(***************************************************************************)
\* Mutant of Selected: destinations of completed items are selected too.
SelectedAny(i) ==
    IF mig.operation = "cleanup_source"
    THEN item[i].status = "completed" /\ ~item[i].source_deleted
    ELSE item[i].created

\* _maintenance_item_selected
Selected(i) ==
    IF mig.operation = "cleanup_source"
    THEN item[i].status = "completed" /\ ~item[i].source_deleted
    ELSE item[i].status = "failed" /\ item[i].created

\* Mutant of NextCleanup: the loop advances twice.
NextCleanupTwice(failed) ==
    w' = [w EXCEPT !.pc = "cleanup", !.cur = @ + 2, !.err = @ \/ failed]

NextCleanup(failed) ==
    w' = [w EXCEPT !.pc = "cleanup", !.cur = @ + 1, !.err = @ \/ failed]

CleanupLoop ==
    /\ w.pc = "cleanup"
    /\ \/ /\ w.cur <= N /\ ~Selected(w.cur)
          /\ NextCleanup(FALSE)
          /\ UNCHANGED mig
       \/ /\ w.cur <= N /\ Selected(w.cur)
          /\ Goto(IF mig.operation = "cleanup_source" THEN "cs_lock" ELSE "ct_lock")
          /\ UNCHANGED mig
       \/ w.cur > N /\ FinishMaintenance(w.err)
    /\ UNCHANGED <<opt, item, bucket, faults>>

\* Leave the item with an error and go on with the next one.
CleanupRefused == NextCleanup(TRUE) /\ UNCHANGED <<item, bucket>>

TargetExists == Bk.target_by # "nobody"

\* _verify_source_cleanup_contents: both protections are applied again.
CleanupLockTarget ==
    /\ w.pc = "cs_lock"
    /\ \/ /\ ~(It.created /\ TargetExists)
          /\ CleanupRefused
       \/ /\ It.created /\ TargetExists /\ ~It.locked
          /\ SetItem(JournalTargetLock(It))
          /\ w' = [w EXCEPT !.pc = "cs_lock_put", !.policy = Bk.target_policy,
                            !.receipt = (It.receipt # NoReceipt)]
          /\ UNCHANGED bucket
       \/ /\ It.created /\ TargetExists /\ It.locked
          /\ SetBucket([Bk EXCEPT !.target_policy =
                          BuildTargetWriteLockPolicy(It.lock_backup)])
          /\ w' = [w EXCEPT !.pc = "cs_target_hash",
                            !.receipt = (It.receipt # NoReceipt)]
          /\ UNCHANGED item
    /\ UNCHANGED <<opt, mig, faults>>

\* Mutant of CleanupHashTarget: the first fingerprint is kept for every item.
CleanupHashTargetOnce ==
    /\ w.pc = "cs_target_hash"
    /\ IF w.receipt
       THEN Goto("cs_check")
       ELSE w' = [w EXCEPT !.pc = "cs_read_only",
                           !.snap = IF @ = Empty THEN Bk.target ELSE @]
    /\ UNCHANGED <<opt, mig, item, bucket, faults>>

CleanupHashTarget ==
    /\ w.pc = "cs_target_hash"
    /\ IF w.receipt
       THEN IF It.receipt = Bk.target
            THEN Goto("cs_check") /\ UNCHANGED <<item, bucket>>
            ELSE CleanupRefused
       ELSE /\ w' = [w EXCEPT !.pc = "cs_read_only", !.snap = Bk.target]
            /\ UNCHANGED <<item, bucket>>
    /\ UNCHANGED <<opt, mig, faults>>

CleanupReadOnly ==
    /\ w.pc = "cs_read_only"
    /\ IF Bk.source_exists
       THEN /\ SetItem(JournalReadOnly(It))
            /\ w' = [w EXCEPT !.pc = "cs_read_only_put", !.policy = Bk.source_policy]
            /\ UNCHANGED bucket
       ELSE CleanupRefused
    /\ UNCHANGED <<opt, mig, faults>>

\* Mutant of CleanupHashSource: the fingerprints are not compared.
CleanupHashSourceUnchecked ==
    /\ w.pc = "cs_source_hash"
    /\ SetItem([It EXCEPT !.receipt = w.snap])
    /\ Goto("cs_check")
    /\ UNCHANGED <<opt, mig, bucket, faults>>

\* Equal fingerprints are recorded in the durable receipt.
CleanupHashSource ==
    /\ w.pc = "cs_source_hash"
    /\ IF Bk.source = w.snap
       THEN /\ SetItem([It EXCEPT !.receipt = w.snap])
            /\ Goto("cs_check")
            /\ UNCHANGED bucket
       ELSE CleanupRefused
    /\ UNCHANGED <<opt, mig, faults>>

\* _delete_verified_source_bucket
CleanupCheckSource ==
    /\ w.pc = "cs_check"
    /\ \/ /\ ~Bk.source_exists
          /\ Goto("cs_record")
          /\ UNCHANGED <<item, bucket>>
       \/ /\ Bk.source_exists
          /\ w.receipt => Bk.source_policy = BuildSourceCleanupPolicy(It.ro_backup)
          /\ Goto("cs_policy_put")
          /\ UNCHANGED <<item, bucket>>
       \/ /\ Bk.source_exists
          /\ w.receipt /\ Bk.source_policy # BuildSourceCleanupPolicy(It.ro_backup)
          /\ CleanupRefused
    /\ UNCHANGED <<opt, mig, faults>>

CleanupPutPolicy ==
    /\ w.pc = "cs_policy_put"
    /\ SetBucket([Bk EXCEPT !.source_policy = BuildSourceCleanupPolicy(It.ro_backup)])
    /\ Goto("cs_purge")
    /\ UNCHANGED <<opt, mig, item, faults>>

\* _delete_maintenance_bucket: every object, then the bucket
PurgeSource ==
    /\ w.pc = "cs_purge"
    /\ SetBucket([Bk EXCEPT !.source = Empty])
    /\ Goto("cs_remove")
    /\ UNCHANGED <<opt, mig, item, faults>>

RemoveSource ==
    /\ w.pc = "cs_remove"
    /\ SetBucket([Bk EXCEPT !.source_exists = FALSE, !.source_policy = {}])
    /\ Goto("cs_record")
    /\ UNCHANGED <<opt, mig, item, faults>>

\* _finalize_verified_source_cleanup
RecordSourceDeleted ==
    /\ w.pc = "cs_record"
    /\ SetItem([It EXCEPT !.source_deleted = TRUE, !.ro = FALSE, !.ro_backup = {}])
    /\ Goto("cs_unlock")
    /\ UNCHANGED <<opt, mig, bucket, faults>>

CleanupUnlockTarget ==
    /\ w.pc = "cs_unlock"
    /\ SetBucket([Bk EXCEPT !.target_policy = It.lock_backup])
    /\ Goto("cs_finish")
    /\ UNCHANGED <<opt, mig, item, faults>>

FinishSourceCleanup ==
    /\ w.pc = "cs_finish"
    /\ SetItem([It EXCEPT !.locked = FALSE, !.lock_backup = {}])
    /\ NextCleanup(FALSE)
    /\ UNCHANGED <<opt, mig, bucket, faults>>

(***************************************************************************)
(* _cleanup_failed_target                                                  *)
(***************************************************************************)
LockFailedTarget ==
    /\ w.pc = "ct_lock"
    /\ \/ /\ It.locked /\ Bk.source_exists
          /\ Goto("ct_purge")
          /\ UNCHANGED <<item, bucket>>
       \/ /\ ~It.locked /\ Bk.source_exists /\ TargetExists
          /\ SetItem(JournalTargetLock(It))
          /\ w' = [w EXCEPT !.pc = "ct_lock_put", !.policy = Bk.target_policy]
          /\ UNCHANGED bucket
       \/ /\ ~(Bk.source_exists /\ (It.locked \/ TargetExists))
          /\ CleanupRefused
    /\ UNCHANGED <<opt, mig, faults>>

\* _delete_maintenance_bucket tolerates a missing bucket; its absence is
\* verified at the end.
PurgeTarget ==
    /\ w.pc = "ct_purge"
    /\ IF TargetExists
       THEN SetBucket([Bk EXCEPT !.target = Empty]) /\ Goto("ct_remove")
       ELSE UNCHANGED bucket /\ Goto("ct_finish")
    /\ UNCHANGED <<opt, mig, item, faults>>

RemoveTarget ==
    /\ w.pc = "ct_remove"
    /\ SetBucket([Bk EXCEPT !.target_by = "nobody", !.target_policy = {}])
    /\ Goto("ct_finish")
    /\ UNCHANGED <<opt, mig, item, faults>>

FinishTargetCleanup ==
    /\ w.pc = "ct_finish"
    /\ IF TargetExists
       THEN CleanupRefused
       ELSE /\ SetItem([It EXCEPT !.created = FALSE, !.locked = FALSE,
                                  !.lock_backup = {}, !.pre_sync_done = FALSE,
                                  !.step = "create_bucket"])
            /\ NextCleanup(FALSE)
            /\ UNCHANGED bucket
    /\ UNCHANGED <<opt, mig, faults>>

\* Any exception inside one item: roll back, keep the error, next item.
CleanupFault ==
    /\ w.pc \in CleanupPcs \ {"cleanup"}
    /\ Fault
    /\ CleanupRefused
    /\ UNCHANGED <<opt, mig>>

\* The first check of run_maintenance, or fail_migration_fatal
MaintenanceFault ==
    /\ w.pc \in {"start", "cleanup"}
    /\ mig.maintenance \in {"queued", "running"}
    /\ Fault
    /\ FinishMaintenance(TRUE)
    /\ UNCHANGED <<opt, item, bucket>>

Maintenance ==
    \/ BeginMaintenance \/ RecoverEffect \/ ClearRecoveredEffect \/ RecoveryDone
    \/ CleanupLoop \/ CleanupLockTarget
    \/ PutTargetLock("cs_lock_put", "cs_target_hash")
    \/ CleanupHashTarget \/ CleanupReadOnly
    \/ PutReadOnly("cs_read_only_put", "cs_source_hash")
    \/ CleanupHashSource \/ CleanupCheckSource \/ CleanupPutPolicy
    \/ PurgeSource \/ RemoveSource \/ RecordSourceDeleted
    \/ CleanupUnlockTarget \/ FinishSourceCleanup
    \/ LockFailedTarget \/ PutTargetLock("ct_lock_put", "ct_purge")
    \/ PurgeTarget \/ RemoveTarget \/ FinishTargetCleanup

MaintenanceFaults == RecoveryFault \/ CleanupFault \/ MaintenanceFault
=============================================================================
