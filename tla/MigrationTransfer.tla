------------------------- MODULE MigrationTransfer -------------------------
(***************************************************************************)
(* The transfer: one run of run_migration by the worker that claimed the   *)
(* row (execution_control.py, execution_item_loop.py,                      *)
(* execution_item_runner.py, execution_policy_grants.py), up to the point  *)
(* where it hands over to the release of access protections.  w.cur is the *)
(* item of the loop of _run_migration_items.                               *)
(***************************************************************************)
EXTENDS MigrationRelease

\* _control_state, for the worker that still owns the lease.
ControlState ==
    CASE mig.status = "cancel_requested" -> "cancel"
      [] mig.status = "pause_requested" -> "pause"
      [] OTHER -> "run"

NextItem == w' = [w EXCEPT !.pc = "items", !.cur = @ + 1, !.then = "none"]

FailItem ==
    /\ SetItem([It EXCEPT !.status = "failed"])
    /\ NextItem

\* run_migration, _prepare_migration_run
BeginTransfer ==
    /\ w.pc = "start"
    /\ mig.maintenance \notin {"queued", "running"}
    /\ mig' = [mig EXCEPT !.status = IF @ = "queued" THEN "running" ELSE @]
    /\ Goto("items")
    /\ UNCHANGED <<opt, item, bucket, faults>>

(***************************************************************************)
(* _run_migration_items, _stop_for_control_state                           *)
(***************************************************************************)
\* Mutant of CancelRun: the stop is seen only after the last item.
CancelRunLate ==
    /\ w.pc = "final"
    /\ ControlState = "cancel"
    /\ StartRelease("cancel", AllProtections)
    /\ UNCHANGED <<opt, mig, item, bucket, faults>>

\* _mark_canceled; its releases and its commit are in MigrationRelease.
CancelRun ==
    /\ w.pc \in {"items", "final"}
    /\ ControlState = "cancel"
    /\ StartRelease("cancel", AllProtections)
    /\ UNCHANGED <<opt, mig, item, bucket, faults>>

SeePause ==
    /\ w.pc \in {"items", "final"}
    /\ ControlState = "pause"
    /\ Goto("pausing")
    /\ UNCHANGED <<opt, mig, item, bucket, faults>>

\* Mutant of PauseRun: the lease is given back, the status is not set.
PauseRunUnrecorded ==
    /\ w.pc = "pausing"
    /\ mig' = [mig EXCEPT !.leased = FALSE]
    /\ w' = IdleWorker
    /\ UNCHANGED <<opt, item, bucket, faults>>

\* _mark_paused: whatever the row says by now, it is overwritten.
PauseRun ==
    /\ w.pc = "pausing"
    /\ mig' = [mig EXCEPT !.status = "paused", !.leased = FALSE]
    /\ item' = [i \in Items |->
                  IF item[i].status = "running"
                  THEN [item[i] EXCEPT !.status = "paused"]
                  ELSE item[i]]
    /\ w' = IdleWorker
    /\ UNCHANGED <<opt, bucket, faults>>

SkipItem ==
    /\ w.pc = "items" /\ w.cur <= N
    /\ ControlState = "run"
    /\ It.status \in {"completed", "failed", "canceled"}
    /\ NextItem
    /\ UNCHANGED <<opt, mig, item, bucket, faults>>

\* _execute_migration_item
ExecuteItem ==
    /\ w.pc = "items" /\ w.cur <= N
    /\ ControlState = "run"
    /\ It.status \notin {"completed", "failed", "canceled"}
    /\ IF TransferPreconditions(w.cur)
       THEN SetItem([It EXCEPT !.status = "running"]) /\ Goto("item")
       ELSE FailItem
    /\ UNCHANGED <<opt, mig, bucket, faults>>

ItemsDone ==
    /\ w.pc = "items" /\ w.cur > N
    /\ ControlState = "run"
    /\ Goto("final")
    /\ UNCHANGED <<opt, mig, item, bucket, faults>>

\* _run_item: a target that lost its lock is locked again first.
RunItem ==
    /\ w.pc = "item"
    /\ IF It.created /\ opt.lock /\ ~It.locked
       THEN /\ SetItem(JournalTargetLock(It))
            /\ w' = [w EXCEPT !.pc = "relock_put", !.policy = Bk.target_policy]
       ELSE UNCHANGED item /\ Goto("loop")
    /\ UNCHANGED <<opt, mig, bucket, faults>>

\* _MigrationItemExecutionLoop.run: the control check, then the step handler.
ItemLoop ==
    /\ w.pc = "loop"
    /\ \/ /\ ControlState = "run"
          /\ Goto(It.step)
          /\ UNCHANGED item
       \/ /\ ControlState = "cancel"
          /\ SetItem([It EXCEPT !.status = "canceled"])
          /\ NextItem
       \/ /\ ControlState = "pause"
          /\ SetItem([It EXCEPT !.status = "paused"])
          /\ NextItem
    /\ UNCHANGED <<opt, mig, bucket, faults>>

NextStepAfterTargetSetup(row) ==
    CASE opt.lock /\ ~row.locked -> "apply_target_lock"
      [] opt.mode = "pre_sync" /\ ~row.pre_sync_done -> "pre_sync"
      [] OTHER -> "apply_read_only"

\* Commit the next step and go round the loop.
AdvanceTo(step) ==
    /\ SetItem([It EXCEPT !.step = step])
    /\ Goto("loop")

(***************************************************************************)
(* _run_create_bucket_step: look, create, record the provenance, set the   *)
(* step.  S3 refuses to create a bucket that exists (external).            *)
(***************************************************************************)
\* Mutant of LookForTarget: a bucket that exists is taken for our own.
LookForTargetAdopting ==
    /\ w.pc = "create_bucket"
    /\ Goto(IF Bk.target_by = "nobody" THEN "bucket_absent" ELSE "bucket_ready")
    /\ UNCHANGED <<opt, mig, item, bucket, faults>>

LookForTarget ==
    /\ w.pc = "create_bucket"
    /\ \/ Bk.target_by = "nobody" /\ Goto("bucket_absent") /\ UNCHANGED item
       \/ Bk.target_by # "nobody" /\ It.created /\ Goto("bucket_ready") /\ UNCHANGED item
       \/ Bk.target_by # "nobody" /\ ~It.created /\ FailItem
    /\ UNCHANGED <<opt, mig, bucket, faults>>

CreateBucket ==
    /\ w.pc = "bucket_absent"
    /\ \/ /\ Bk.target_by = "nobody"
          /\ SetBucket([Bk EXCEPT !.target_by = "migration",
                                  !.target_policy = {}, !.target = Empty])
          /\ Goto("bucket_created")
          /\ UNCHANGED item
       \/ Bk.target_by # "nobody" /\ FailItem /\ UNCHANGED bucket
    /\ UNCHANGED <<opt, mig, faults>>

RecordTargetCreated ==
    /\ w.pc = "bucket_created"
    /\ SetItem([It EXCEPT !.created = TRUE])
    /\ Goto("bucket_ready")
    /\ UNCHANGED <<opt, mig, bucket, faults>>

FinishCreateBucket ==
    /\ w.pc = "bucket_ready"
    /\ AdvanceTo(IF opt.copy THEN "copy_bucket_settings"
                 ELSE NextStepAfterTargetSetup(It))
    /\ UNCHANGED <<opt, mig, bucket, faults>>

\* _BucketSettingsCopyRunner: of the settings, the model keeps the policy.
CopyBucketSettings ==
    /\ w.pc = "copy_bucket_settings"
    /\ SetBucket([Bk EXCEPT !.target_policy = Bk.source_policy])
    /\ Goto("settings_copied")
    /\ UNCHANGED <<opt, mig, item, faults>>

FinishCopyBucketSettings ==
    /\ w.pc = "settings_copied"
    /\ AdvanceTo(NextStepAfterTargetSetup(It))
    /\ UNCHANGED <<opt, mig, bucket, faults>>

(***************************************************************************)
(* _run_apply_target_lock_step                                             *)
(***************************************************************************)
ApplyTargetLock ==
    /\ w.pc = "apply_target_lock"
    /\ IF It.locked
       THEN UNCHANGED item /\ Goto("lock_done")
       ELSE /\ SetItem(JournalTargetLock(It))
            /\ w' = [w EXCEPT !.pc = "lock_put", !.policy = Bk.target_policy]
    /\ UNCHANGED <<opt, mig, bucket, faults>>

FinishTargetLock ==
    /\ w.pc = "lock_done"
    /\ AdvanceTo(IF opt.mode = "pre_sync" /\ ~It.pre_sync_done
                 THEN "pre_sync" ELSE "apply_read_only")
    /\ UNCHANGED <<opt, mig, bucket, faults>>

\* The put failed (or failed to answer): restore, verify, forget the backup.
\* A restore that fails too leaves backup and flag in place (TransferFault).
TargetLockRefused ==
    /\ w.pc = "lock_put" /\ Fault
    /\ SetBucket([Bk EXCEPT !.target_policy = It.lock_backup])
    /\ SetItem([It EXCEPT !.status = "failed", !.locked = FALSE,
                          !.lock_backup = {}])
    /\ NextItem
    /\ UNCHANGED <<opt, mig>>

(***************************************************************************)
(* pre_sync and sync.  The two sides are listed; what differs is copied in *)
(* batches, and each object is read when its turn comes, so a client may   *)
(* write to the source in between.  With a same-endpoint copy and an       *)
(* automatic grant the first copy opens _temporary_source_copy_grant:      *)
(* journal the policy just read, put the grant, copy, put the journalled   *)
(* policy back, clear the journal entry.                                   *)
(***************************************************************************)
GrantEffect(policy) ==
    [name |-> "source_copy_grant", policy |-> policy, at |-> 0]
GrantHeld == \E e \in It.effects : e.name = "source_copy_grant"

BeginSync ==
    /\ w.pc \in {"pre_sync", "sync"}
    /\ w' = IF Bk.source = Bk.target
            THEN [w EXCEPT !.pc = "sync_done",
                           !.then = IF ControlState = "run" THEN "done"
                                    ELSE "interrupted"]
            ELSE [w EXCEPT !.pc = IF opt.grant THEN "grant_journal" ELSE "sync_copy",
                           !.snap = Bk.source]
    /\ UNCHANGED <<opt, mig, item, bucket, faults>>

JournalGrant ==
    /\ w.pc = "grant_journal"
    /\ ~GrantHeld
    /\ SetItem([It EXCEPT !.effects = @ \cup {GrantEffect(Bk.source_policy)}])
    /\ w' = [w EXCEPT !.pc = "grant_put", !.policy = Bk.source_policy]
    /\ UNCHANGED <<opt, mig, bucket, faults>>

PutSourceCopyGrant ==
    /\ w.pc = "grant_put"
    /\ SetBucket([Bk EXCEPT !.source_policy = BuildSourceCopyGrantPolicy(w.policy)])
    /\ Goto("sync_copy")
    /\ UNCHANGED <<opt, mig, item, faults>>

\* Where the copy loop goes when it ends for the reason given.
LeaveSync(reason) ==
    w' = [w EXCEPT !.pc = IF opt.grant THEN "grant_restore" ELSE "sync_done",
                   !.then = reason]

\* The first objects are copied.
SyncCopy ==
    /\ w.pc = "sync_copy"
    /\ ControlState = "run"
    /\ SetBucket([Bk EXCEPT !.target = Tampered])
    /\ Goto("sync_write")
    /\ UNCHANGED <<opt, mig, item, faults>>

\* The last ones are.  The objects listed were read again as they were
\* copied, so writes in between may give the target a mixture; a pre-copy
\* (allow_delete false) may leave objects on the target that the source does
\* not have, or no longer has.
SyncWrite ==
    /\ w.pc = "sync_write"
    /\ \/ \E contents \in {w.snap, Bk.source} :
            SetBucket([Bk EXCEPT !.target = contents])
       \/ (It.step = "pre_sync" \/ Bk.source # w.snap) /\ UNCHANGED bucket
    /\ LeaveSync("done")
    /\ UNCHANGED <<opt, mig, item, faults>>

\* check_control between two batches
SyncInterrupted ==
    /\ w.pc \in {"sync_copy", "sync_write"}
    /\ ControlState # "run"
    /\ LeaveSync("interrupted")
    /\ UNCHANGED <<opt, mig, item, bucket, faults>>

RestoreGrantedPolicy ==
    /\ w.pc = "grant_restore"
    /\ SetBucket([Bk EXCEPT !.source_policy = w.policy])
    /\ Goto("grant_clear")
    /\ UNCHANGED <<opt, mig, item, faults>>

ClearGrantEffect ==
    /\ w.pc = "grant_clear"
    /\ LET row == [It EXCEPT !.effects = {e \in @ : e.name # "source_copy_grant"}]
       IN  \/ /\ w.then \in {"done", "interrupted"}
              /\ SetItem(row)
              /\ Goto("sync_done")
           \/ /\ w.then = "failed"
              /\ SetItem([row EXCEPT !.status = "failed"])
              /\ NextItem
    /\ UNCHANGED <<opt, mig, bucket, faults>>

\* _run_pre_sync and _run_sync after the copy, or _stop_interrupted_item
StopInterruptedItem ==
    /\ SetItem([It EXCEPT !.status = IF ControlState = "cancel"
                                     THEN "canceled" ELSE "paused"])
    /\ NextItem

FinishSync ==
    /\ w.pc = "sync_done"
    /\ \/ w.then = "interrupted" /\ StopInterruptedItem
       \/ /\ w.then = "done" /\ It.step = "pre_sync"
          /\ SetItem([It EXCEPT !.pre_sync_done = TRUE,
                                !.status = "awaiting_cutover",
                                !.step = "awaiting_cutover"])
          /\ NextItem
       \/ /\ w.then = "done" /\ It.step = "sync"
          /\ SetItem([It EXCEPT !.step = "verify"])
          /\ w' = [w EXCEPT !.pc = "loop", !.then = "none"]
    /\ UNCHANGED <<opt, mig, bucket, faults>>

AwaitCutover ==
    /\ w.pc = "awaiting_cutover"
    /\ SetItem([It EXCEPT !.status = "awaiting_cutover"])
    /\ NextItem
    /\ UNCHANGED <<opt, mig, bucket, faults>>

(***************************************************************************)
(* _run_apply_read_only                                                    *)
(***************************************************************************)
ApplyReadOnly ==
    /\ w.pc = "apply_read_only"
    /\ SetItem(JournalReadOnly(It))
    /\ w' = [w EXCEPT !.pc = "read_only_put", !.policy = Bk.source_policy]
    /\ UNCHANGED <<opt, mig, bucket, faults>>

FinishReadOnly ==
    /\ w.pc = "read_only_done"
    /\ AdvanceTo("sync")
    /\ UNCHANGED <<opt, mig, bucket, faults>>

(***************************************************************************)
(* _run_verify_step: the source is listed, then the target is compared.    *)
(***************************************************************************)
VerifyRead ==
    /\ w.pc = "verify"
    /\ IF ControlState = "run"
       THEN /\ w' = [w EXCEPT !.pc = "verify_compare", !.snap = Bk.source]
            /\ UNCHANGED item
       ELSE StopInterruptedItem
    /\ UNCHANGED <<opt, mig, bucket, faults>>

\* Mutant of VerifyCompare: only whether there are objects is compared.
VerifyCompareCounts ==
    /\ w.pc = "verify_compare"
    /\ IF (w.snap = Empty) <=> (Bk.target = Empty)
       THEN Goto("verified") /\ UNCHANGED item
       ELSE FailItem
    /\ UNCHANGED <<opt, mig, bucket, faults>>

VerifyCompare ==
    /\ w.pc = "verify_compare"
    /\ IF w.snap = Bk.target
       THEN Goto("verified") /\ UNCHANGED item
       ELSE FailItem
    /\ UNCHANGED <<opt, mig, bucket, faults>>

\* The comparison and _verify_strong_integrity check for a pause or a stop as
\* they go, and the latter finds objects that were overwritten since.
VerifyInterrupted ==
    /\ w.pc \in {"verify_compare", "verified"}
    /\ ControlState # "run"
    /\ StopInterruptedItem
    /\ UNCHANGED <<opt, mig, bucket, faults>>

StrongVerificationFails ==
    /\ w.pc = "verified"
    /\ Bk.target # w.snap
    /\ FailItem
    /\ UNCHANGED <<opt, mig, bucket, faults>>

\* _complete_item_after_verification: the versioning of the target is set
\* over S3 before the row is committed.
CompleteItem ==
    /\ w.pc = "verified"
    /\ SetItem([It EXCEPT !.status = "completed", !.step = "completed"])
    /\ NextItem
    /\ UNCHANGED <<opt, mig, bucket, faults>>

(***************************************************************************)
(* The end of run_migration: the row is read a last time, and what         *)
(* _finalize_or_wait_cutover makes of it is committed without looking      *)
(* again.  Setting the status "running" over the "running" that was read   *)
(* writes nothing.                                                         *)
(***************************************************************************)
FinalCheck ==
    /\ w.pc = "final"
    /\ ControlState = "run"
    /\ Goto("finalize")
    /\ UNCHANGED <<opt, mig, item, bucket, faults>>

With(statuses) == {i \in Items : item[i].status \in statuses}

ReadyForCutover ==
    /\ opt.mode = "pre_sync"
    /\ With({"awaiting_cutover"}) # {}
    /\ With({"awaiting_cutover", "completed"}) = Items

HasPendingItems == With({"pending", "running", "paused"}) # {}

Finalize ==
    /\ w.pc = "finalize"
    /\ \/ /\ ReadyForCutover
          /\ mig' = [mig EXCEPT !.status = "awaiting_cutover", !.leased = FALSE]
          /\ w' = IdleWorker
       \/ /\ ~ReadyForCutover /\ HasPendingItems
          /\ w' = IdleWorker
          /\ UNCHANGED mig
       \/ /\ ~ReadyForCutover /\ ~HasPendingItems
          /\ StartRelease("finish",
                          TargetsToRelease(Items \ With({"awaiting_cutover"})))
          /\ UNCHANGED mig
    /\ UNCHANGED <<opt, item, bucket, faults>>

(***************************************************************************)
(* Faults.  An exception in the try block of _execute_migration_item fails *)
(* the item; inside the grant, its finally block runs first.               *)
(***************************************************************************)
InGrant == opt.grant /\ w.pc \in {"grant_put", "sync_copy", "sync_write"}

OutsideItems == {"start", "items", "final", "pausing", "finalize"}
ItemPcs == (TransferPcs \ OutsideItems) \cup (ItemSteps \ {"completed"})

TransferFault ==
    /\ w.pc \in ItemPcs
    /\ Fault
    /\ IF InGrant
       THEN LeaveSync("failed") /\ UNCHANGED item
       ELSE FailItem
    /\ UNCHANGED <<opt, mig, bucket>>

\* fail_migration_fatal after an exception outside the items
FatalError ==
    /\ w.pc \in OutsideItems
    /\ mig.maintenance \notin {"queued", "running"}
    /\ Fault
    /\ mig' = [mig EXCEPT !.status = "failed", !.leased = FALSE]
    /\ item' = [i \in Items |->
                  IF item[i].status = "running"
                  THEN [item[i] EXCEPT !.status = "failed"] ELSE item[i]]
    /\ w' = IdleWorker
    /\ UNCHANGED <<opt, bucket>>

(***************************************************************************)
(* _assert_migration_creator_access, at the start, before every item and   *)
(* in every control_check: the row is committed as failed, with the lease  *)
(* still held, and the exception unwinds.  Inside an item the grant is     *)
(* undone first, for which the lease must still be there; then             *)
(* _execute_migration_item fails the item whoever owns the row by now; the *)
(* check before the next item fails the row again; and                     *)
(* fail_migration_fatal gives the lease back.                              *)
(***************************************************************************)
AtControlCheck ==
    \/ w.pc \in {"loop", "pre_sync", "sync", "sync_copy", "sync_write", "verify",
                 "verify_compare", "verified"}
    \/ w.pc = "sync_done" /\ w.then = "interrupted"

CreatorAccessRevoked ==
    /\ mig.maintenance \notin {"queued", "running"}
    /\ Fault
    /\ mig' = [mig EXCEPT !.status = "failed"]
    /\ \/ w.pc \in {"start", "items", "final"} /\ Goto("revoked")
       \/ AtControlCheck /\ Goto(IF InGrant THEN "revoked_grant" ELSE "revoked_item")
    /\ UNCHANGED <<opt, item, bucket>>

RestoreRevokedGrant ==
    /\ w.pc = "revoked_grant"
    /\ mig.leased
    /\ SetBucket([Bk EXCEPT !.source_policy = w.policy])
    /\ Goto("revoked_clear")
    /\ UNCHANGED <<opt, mig, item, faults>>

ClearRevokedGrant ==
    /\ w.pc = "revoked_clear"
    /\ mig.leased
    /\ SetItem([It EXCEPT !.effects = {e \in @ : e.name # "source_copy_grant"}])
    /\ Goto("revoked_item")
    /\ UNCHANGED <<opt, mig, bucket, faults>>

\* The grant cannot be taken back: its record stays.  (Revocations are
\* bounded already.)
RevokedGrantFault ==
    /\ w.pc \in {"revoked_grant", "revoked_clear"}
    /\ mig.leased
    /\ Goto("revoked_item")
    /\ UNCHANGED <<opt, mig, item, bucket, faults>>

FailRevokedItem ==
    /\ w.pc = "revoked_item"
    /\ mig.status # "deleted"
    /\ SetItem([It EXCEPT !.status = "failed"])
    /\ Goto("revoked_next")
    /\ UNCHANGED <<opt, mig, bucket, faults>>

RevokedAgain ==
    /\ w.pc = "revoked_next"
    /\ mig.status # "deleted" /\ mig.maintenance \notin {"queued", "running"}
    /\ mig' = [mig EXCEPT !.status = "failed"]
    /\ Goto("revoked")
    /\ UNCHANGED <<opt, item, bucket, faults>>

\* The run is over: fail_migration_fatal leaves a final status alone, a lost
\* lease or a deleted row ends it earlier.
RevokedRunEnds ==
    /\ \/ w.pc = "revoked"
       \/ w.pc \in {"revoked_grant", "revoked_clear", "revoked_next"} /\ ~mig.leased
       \/ w.pc \in {"revoked_item", "revoked_next"} /\ mig.status = "deleted"
    /\ mig' = [mig EXCEPT !.leased = FALSE]
    /\ w' = IdleWorker
    /\ UNCHANGED <<opt, item, bucket, faults>>

Revocation ==
    \/ RestoreRevokedGrant \/ ClearRevokedGrant \/ FailRevokedItem
    \/ RevokedAgain \/ RevokedRunEnds

Transfer ==
    \/ BeginTransfer \/ CancelRun \/ SeePause \/ PauseRun \/ SkipItem \/ ExecuteItem
    \/ ItemsDone \/ RunItem \/ PutTargetLock("relock_put", "loop") \/ ItemLoop
    \/ LookForTarget \/ CreateBucket \/ RecordTargetCreated \/ FinishCreateBucket
    \/ CopyBucketSettings \/ FinishCopyBucketSettings
    \/ ApplyTargetLock \/ PutTargetLock("lock_put", "lock_done")
    \/ FinishTargetLock
    \/ BeginSync \/ JournalGrant \/ PutSourceCopyGrant
    \/ SyncCopy \/ SyncWrite \/ SyncInterrupted
    \/ RestoreGrantedPolicy \/ ClearGrantEffect \/ FinishSync \/ AwaitCutover
    \/ ApplyReadOnly \/ PutReadOnly("read_only_put", "read_only_done")
    \/ FinishReadOnly \/ VerifyRead \/ VerifyCompare \/ VerifyInterrupted
    \/ StrongVerificationFails \/ CompleteItem \/ FinalCheck \/ Finalize

TransferFaults ==
    \/ TransferFault \/ TargetLockRefused \/ FatalError \/ CreatorAccessRevoked
    \/ RevokedGrantFault
=============================================================================
