------------------------ MODULE MigrationDataProofs ------------------------
(***************************************************************************)
(* What becomes of the data, for every number of items and whatever        *)
(* crashes, failing calls, commands and clients come between: a completed  *)
(* copy is exact and stays, a bucket of somebody else's is left alone,     *)
(* restore_access gives every bucket back, and the data of a source is     *)
(* deleted only when the locked destination holds the same.                *)
(***************************************************************************)
EXTENDS MigrationAccessProofs

(***************************************************************************)
(* Copies.                                                                 *)
(***************************************************************************)
\* From the comparison on, only clients write to the buckets of the item; a run
\* that lost its creator still has the item under way.
VerifyPcs == {"verify_compare", "verified"}
UnwindPcs == {"revoked_grant", "revoked_clear", "revoked_item"}

\* A completed item has a destination, the item under way is not completed,
\* what the verification read of a source that nobody may write to is what
\* the source holds, and what it read is what it found on the destination,
\* unless a client may write to it and did.
CopyInv ==
    /\ ProvenanceInv
    /\ mig.status = "draft" => \A i \in Items : item[i].status # "completed"
    /\ \A i \in Items : item[i].status = "completed" => Exists(bucket[i])
    /\ w.pc \in ItemPcs \cup UnwindPcs => It.status # "completed"
    /\ w.pc \in VerifyPcs /\ "RO" \in Bk.source_policy => Bk.source = w.snap
    /\ w.pc = "verified" =>
         \/ Bk.target = w.snap
         \/ "LOCK" \notin Bk.target_policy /\ Bk.target = Tampered

\* What a step must not do to a completed item.
KeepsCompleted ==
    \A i \in Items : item'[i].status = "completed" <=> item[i].status = "completed"
KeepsCopies ==
    \A i \in Items : item[i].status = "completed" =>
      /\ bucket'[i].target \in {bucket[i].target, Tampered}
      /\ bucket'[i].target_by = bucket[i].target_by

\* The status after the edits of a row.
LEMMA StatusEdits ==
    ASSUME NEW old \in ItemRows, NEW v, NEW u
    PROVE  /\ [old EXCEPT !.status = v].status = v
           /\ [old EXCEPT !.status = v, !.step = u].status = v
           /\ [old EXCEPT !.status = "failed", !.locked = FALSE,
                          !.lock_backup = {}].status = "failed"
           /\ [old EXCEPT !.pre_sync_done = TRUE, !.status = "awaiting_cutover",
                          !.step = "awaiting_cutover"].status = "awaiting_cutover"
           /\ [old EXCEPT !.step = v].status = old.status
           /\ [old EXCEPT !.created = TRUE].status = old.status
           /\ [old EXCEPT !.receipt = v].status = old.status
           /\ [old EXCEPT !.effects = v].status = old.status
           /\ [old EXCEPT !.locked = TRUE, !.lock_backup = v].status = old.status
           /\ [old EXCEPT !.locked = FALSE, !.lock_backup = {}].status = old.status
           /\ [old EXCEPT !.ro = TRUE, !.ro_backup = v].status = old.status
           /\ [old EXCEPT !.source_deleted = TRUE, !.ro = FALSE,
                          !.ro_backup = {}].status = old.status
           /\ [old EXCEPT !.created = FALSE, !.locked = FALSE,
                          !.lock_backup = {}, !.pre_sync_done = FALSE,
                          !.step = "create_bucket"].status = old.status
  BY DEF ItemRows

\* A step on the row of the item under way.
LEMMA OneRowCompleted ==
    ASSUME TypeInv, NEW row, SetItem(row), w.cur \in Items,
           row.status = "completed" <=> It.status = "completed"
    PROVE  KeepsCompleted
<1>1. item \in [Items -> ItemRows]
  BY DEF TypeInv, TypeOK
<1>2. \A i \in Items : item'[i] = IF i = w.cur THEN row ELSE item[i]
  BY <1>1 DEF SetItem
<1>3. QED
  BY <1>2 DEF KeepsCompleted, It

\* The steps on an item, its completion apart.
LEMMA ItemStepsCompleted ==
    ASSUME CopyInv,
           \/ RunItem \/ ItemLoop \/ LookForTarget \/ CreateBucket
           \/ RecordTargetCreated \/ FinishCreateBucket \/ FinishCopyBucketSettings
           \/ ApplyTargetLock \/ FinishTargetLock \/ TargetLockRefused
           \/ JournalGrant \/ ClearGrantEffect \/ FinishSync \/ AwaitCutover
           \/ ApplyReadOnly \/ FinishReadOnly \/ VerifyRead \/ TransferFault
           \/ VerifyCompare \/ VerifyInterrupted \/ StrongVerificationFails
    PROVE  KeepsCompleted
<1>0. ControlInv /\ TypeInv
  BY DEF CopyInv, ProvenanceInv, ControlInv
<1>1. w.pc \in ItemPcs
  BY DEF RunItem, ItemLoop, LookForTarget, CreateBucket, RecordTargetCreated,
     FinishCreateBucket, FinishCopyBucketSettings, ApplyTargetLock,
     FinishTargetLock, TargetLockRefused, JournalGrant, ClearGrantEffect,
     FinishSync, AwaitCutover, ApplyReadOnly, FinishReadOnly, VerifyRead,
     VerifyCompare, VerifyInterrupted, StrongVerificationFails,
     TransferFault, ItemPcs, OutsideItems, TransferPcs, ItemSteps
<1>2. w.cur \in Items /\ It \in ItemRows /\ It.status # "completed"
  BY <1>0, <1>1, PlaceFacts DEF It, CopyInv
<1>a. CASE UNCHANGED item
  BY <1>a DEF KeepsCompleted
<1>b. CASE \E v \in ItemStatuses \ {"completed"} : SetItem([It EXCEPT !.status = v])
  <2>1. PICK v \in ItemStatuses \ {"completed"} : SetItem([It EXCEPT !.status = v])
    BY <1>b
  <2>2. [It EXCEPT !.status = v].status = v
    BY <1>2 DEF ItemRows
  <2>3. QED
    BY <1>0, <1>2, <2>1, <2>2, OneRowCompleted
<1>c. CASE \/ \E v : \/ SetItem([It EXCEPT !.step = v])
                     \/ SetItem([It EXCEPT !.effects = v])
           \/ SetItem([It EXCEPT !.created = TRUE])
  <2>1. PICK v : \/ SetItem([It EXCEPT !.step = v])
                 \/ SetItem([It EXCEPT !.effects = v])
                 \/ SetItem([It EXCEPT !.created = TRUE])
    BY <1>c
  <2>2. /\ [It EXCEPT !.step = v].status = It.status
        /\ [It EXCEPT !.effects = v].status = It.status
        /\ [It EXCEPT !.created = TRUE].status = It.status
    BY <1>2, StatusEdits
  <2>3. QED
    BY <1>0, <1>2, <2>1, <2>2, OneRowCompleted
<1>d. CASE \/ \E v : \/ SetItem([It EXCEPT !.locked = TRUE, !.lock_backup = v])
                     \/ SetItem([It EXCEPT !.ro = TRUE, !.ro_backup = v])
           \/ SetItem([It EXCEPT !.status = "failed", !.locked = FALSE,
                                 !.lock_backup = {}])
           \/ SetItem([It EXCEPT !.pre_sync_done = TRUE,
                                 !.status = "awaiting_cutover",
                                 !.step = "awaiting_cutover"])
  <2>1. PICK v : \/ SetItem([It EXCEPT !.locked = TRUE, !.lock_backup = v])
                 \/ SetItem([It EXCEPT !.ro = TRUE, !.ro_backup = v])
                 \/ SetItem([It EXCEPT !.status = "failed", !.locked = FALSE,
                                       !.lock_backup = {}])
                 \/ SetItem([It EXCEPT !.pre_sync_done = TRUE,
                                       !.status = "awaiting_cutover",
                                       !.step = "awaiting_cutover"])
    BY <1>d
  <2>2. /\ [It EXCEPT !.locked = TRUE, !.lock_backup = v].status = It.status
        /\ [It EXCEPT !.ro = TRUE, !.ro_backup = v].status = It.status
        /\ [It EXCEPT !.status = "failed", !.locked = FALSE,
                      !.lock_backup = {}].status = "failed"
        /\ [It EXCEPT !.pre_sync_done = TRUE, !.status = "awaiting_cutover",
                      !.step = "awaiting_cutover"].status = "awaiting_cutover"
    BY <1>2, StatusEdits
  <2>3. QED
    BY <1>0, <1>2, <2>1, <2>2, OneRowCompleted
<1>e. CASE SetItem(It)
  BY <1>0, <1>2, <1>e, OneRowCompleted
<1>3. CASE \/ RunItem \/ LookForTarget \/ CreateBucket
           \/ RecordTargetCreated \/ FinishCreateBucket \/ FinishCopyBucketSettings
           \/ ApplyTargetLock \/ FinishTargetLock \/ TargetLockRefused
           \/ JournalGrant
  BY <1>a, <1>b, <1>c, <1>d, <1>3
     DEF RunItem, LookForTarget, CreateBucket, RecordTargetCreated,
         FinishCreateBucket, FinishCopyBucketSettings, ApplyTargetLock,
         FinishTargetLock, TargetLockRefused, JournalGrant, JournalTargetLock,
         FailItem, AdvanceTo, ItemStatuses
<1>4. CASE \/ ItemLoop \/ FinishSync \/ AwaitCutover \/ FinishReadOnly
           \/ VerifyRead \/ TransferFault \/ VerifyCompare \/ VerifyInterrupted
           \/ StrongVerificationFails
  BY <1>a, <1>b, <1>c, <1>d, <1>4
     DEF ItemLoop, FinishSync, AwaitCutover, FinishReadOnly, VerifyRead,
         VerifyCompare, VerifyInterrupted, StrongVerificationFails,
         TransferFault, FailItem, AdvanceTo, StopInterruptedItem, ItemStatuses
<1>5. CASE ApplyReadOnly
  BY <1>d, <1>e, <1>5 DEF ApplyReadOnly, JournalReadOnly
<1>6. CASE ClearGrantEffect
  <2> DEFINE row == [It EXCEPT !.effects =
                       {e \in It.effects : e.name # "source_copy_grant"}]
             failed == [row EXCEPT !.status = "failed"]
  <2>1. row.status # "completed" /\ failed.status # "completed"
    BY <1>2 DEF ItemRows
  <2>2. SetItem(row) \/ SetItem(failed)
    BY <1>6 DEF ClearGrantEffect
  <2> HIDE DEF row, failed
  <2>3. QED
    BY <1>0, <1>2, <2>1, <2>2, OneRowCompleted
<1>7. QED
  BY <1>3, <1>4, <1>5, <1>6

\* The loop, the ends of a run and of a release.
LEMMA EndsCompleted ==
    ASSUME CopyInv,
           \/ ExecuteItem \/ PauseRun \/ FatalError
           \/ CommitCanceled \/ CommitFinished \/ CommitRestored
    PROVE  KeepsCompleted
<1>0. ControlInv /\ TypeInv /\ w \in WorkerStates /\ item \in [Items -> ItemRows]
  BY PlaceFacts DEF CopyInv, ProvenanceInv, ControlInv
<1>1. CASE ExecuteItem
  <2>1. w.cur \in Items
    BY <1>0, <1>1, LoopIndex DEF ExecuteItem, WorkerStates
  <2>2. It \in ItemRows /\ It.status # "completed"
    BY <1>0, <1>1, <2>1 DEF It, ExecuteItem
  <2>3. \E v \in {"running", "failed"} : SetItem([It EXCEPT !.status = v])
    BY <1>1 DEF ExecuteItem, FailItem
  <2>4. QED
    BY <1>0, <2>1, <2>2, <2>3, StatusEdits, OneRowCompleted
<1>2. CASE PauseRun \/ FatalError
  <2> SUFFICES ASSUME NEW i \in Items
               PROVE  item'[i].status = "completed" <=> item[i].status = "completed"
    BY DEF KeepsCompleted
  <2>1. item[i] \in ItemRows
    BY <1>0
  <2>2. \/ item'[i] = item[i]
        \/ /\ item[i].status = "running"
           /\ \E v \in {"paused", "failed"} : item'[i] = [item[i] EXCEPT !.status = v]
    BY <1>2 DEF PauseRun, FatalError
  <2>3. /\ [item[i] EXCEPT !.status = "paused"].status = "paused"
        /\ [item[i] EXCEPT !.status = "failed"].status = "failed"
    BY <2>1, StatusEdits
  <2>4. QED
    BY <2>2, <2>3
<1>3. CASE CommitCanceled \/ CommitFinished \/ CommitRestored
  <2> SUFFICES ASSUME NEW i \in Items
               PROVE  item'[i].status = "completed" <=> item[i].status = "completed"
    BY DEF KeepsCompleted
  <2>1. Unprotected(i) \in ItemRows /\ Unprotected(i).status = item[i].status
    BY <1>0, UnprotectedRow
  <2>2. \/ item'[i] = Unprotected(i)
        \/ item'[i] = [Unprotected(i) EXCEPT !.receipt = NoReceipt]
        \/ /\ item[i].status \in {"pending", "running", "paused", "awaiting_cutover"}
           /\ item'[i] = [Unprotected(i) EXCEPT !.status = "canceled"]
    BY <1>3 DEF CommitCanceled, CommitFinished, CommitRestored
  <2>3. /\ [Unprotected(i) EXCEPT !.receipt = NoReceipt].status = item[i].status
        /\ [Unprotected(i) EXCEPT !.status = "canceled"].status = "canceled"
    BY <2>1, StatusEdits
  <2>4. QED
    BY <2>1, <2>2, <2>3
<1>4. QED
  BY <1>1, <1>2, <1>3

\* The way out of a run whose creator lost access.
LEMMA RevocationCompleted ==
    ASSUME CopyInv, CreatorAccessRevoked \/ Revocation \/ RevokedGrantFault
    PROVE  KeepsCompleted
<1>0. ControlInv /\ TypeInv
  BY DEF CopyInv, ProvenanceInv, ControlInv
<1>1. CASE ClearRevokedGrant \/ FailRevokedItem
  <2>1. /\ w.pc \in UnwindPcs /\ w.pc \in RevokedPcs \ {"revoked"}
    BY <1>1 DEF ClearRevokedGrant, FailRevokedItem, UnwindPcs, RevokedPcs
  <2>2. w.cur \in Items /\ It \in ItemRows /\ It.status # "completed"
    BY <1>0, <2>1, PlaceFacts DEF It, CopyInv
  <2>3. CASE FailRevokedItem
    <3>1. SetItem([It EXCEPT !.status = "failed"])
      BY <2>3 DEF FailRevokedItem
    <3>2. [It EXCEPT !.status = "failed"].status = "failed"
      BY <2>2, StatusEdits
    <3>3. QED
      BY <1>0, <2>2, <3>1, <3>2, OneRowCompleted
  <2>4. CASE ClearRevokedGrant
    <3>1. PICK v : SetItem([It EXCEPT !.effects = v])
      BY <2>4 DEF ClearRevokedGrant
    <3>2. [It EXCEPT !.effects = v].status = It.status
      BY <2>2, StatusEdits
    <3>3. QED
      BY <1>0, <2>2, <3>1, <3>2, OneRowCompleted
  <2>5. QED
    BY <1>1, <2>3, <2>4
<1>2. CASE UNCHANGED item
  BY <1>2 DEF KeepsCompleted
<1>3. QED
  BY <1>1, <1>2 DEF CreatorAccessRevoked, Revocation, RestoreRevokedGrant,
                    RevokedAgain, RevokedRunEnds, RevokedGrantFault

\* Maintenance and the checks write no status.
LEMMA MaintenanceCompleted ==
    ASSUME ControlInv,
           \/ CleanupLockTarget \/ CleanupReadOnly \/ CleanupHashSource
           \/ RecordSourceDeleted \/ FinishSourceCleanup \/ LockFailedTarget
           \/ FinishTargetCleanup \/ ClearRecoveredEffect \/ JournalEffect
           \/ ClearEffect
    PROVE  KeepsCompleted
<1>0. TypeInv /\ w.cur \in Items
  <2>1. w.pc \notin FreePcs
    BY DEF CleanupLockTarget, CleanupReadOnly, CleanupHashSource,
       RecordSourceDeleted, FinishSourceCleanup, LockFailedTarget,
       FinishTargetCleanup, ClearRecoveredEffect, JournalEffect, ClearEffect,
       FreePcs
  <2>2. QED
    BY <2>1 DEF ControlInv, TypeInv, CurOK
<1>2. It \in ItemRows
  BY <1>0 DEF TypeInv, TypeOK, It
<1>a. CASE UNCHANGED item
  BY <1>a DEF KeepsCompleted
<1>b. CASE \E v : \/ SetItem([It EXCEPT !.locked = TRUE, !.lock_backup = v])
                  \/ SetItem([It EXCEPT !.ro = TRUE, !.ro_backup = v])
                  \/ SetItem([It EXCEPT !.receipt = v])
                  \/ SetItem([It EXCEPT !.effects = v])
  <2>1. PICK v : \/ SetItem([It EXCEPT !.locked = TRUE, !.lock_backup = v])
                 \/ SetItem([It EXCEPT !.ro = TRUE, !.ro_backup = v])
                 \/ SetItem([It EXCEPT !.receipt = v])
                 \/ SetItem([It EXCEPT !.effects = v])
    BY <1>b
  <2>2. /\ [It EXCEPT !.locked = TRUE, !.lock_backup = v].status = It.status
        /\ [It EXCEPT !.ro = TRUE, !.ro_backup = v].status = It.status
        /\ [It EXCEPT !.receipt = v].status = It.status
        /\ [It EXCEPT !.effects = v].status = It.status
    BY <1>2, StatusEdits
  <2>3. QED
    BY <1>0, <1>2, <2>1, <2>2, OneRowCompleted
<1>c. CASE \/ SetItem([It EXCEPT !.locked = FALSE, !.lock_backup = {}])
           \/ SetItem([It EXCEPT !.source_deleted = TRUE, !.ro = FALSE,
                                 !.ro_backup = {}])
           \/ SetItem([It EXCEPT !.created = FALSE, !.locked = FALSE,
                                 !.lock_backup = {}, !.pre_sync_done = FALSE,
                                 !.step = "create_bucket"])
           \/ SetItem(It)
  <2>1. /\ [It EXCEPT !.locked = FALSE, !.lock_backup = {}].status = It.status
        /\ [It EXCEPT !.source_deleted = TRUE, !.ro = FALSE,
                      !.ro_backup = {}].status = It.status
        /\ [It EXCEPT !.created = FALSE, !.locked = FALSE,
                      !.lock_backup = {}, !.pre_sync_done = FALSE,
                      !.step = "create_bucket"].status = It.status
    BY <1>2, StatusEdits
  <2>2. QED
    BY <1>0, <1>2, <1>c, <2>1, OneRowCompleted
<1>3. CASE \/ CleanupLockTarget \/ CleanupHashSource
           \/ RecordSourceDeleted \/ FinishSourceCleanup \/ LockFailedTarget
           \/ FinishTargetCleanup
  BY <1>a, <1>b, <1>c, <1>3
     DEF CleanupLockTarget, CleanupHashSource, RecordSourceDeleted,
         FinishSourceCleanup, LockFailedTarget, FinishTargetCleanup,
         CleanupRefused, JournalTargetLock
<1>4. CASE CleanupReadOnly
  BY <1>a, <1>b, <1>c, <1>4 DEF CleanupReadOnly, CleanupRefused, JournalReadOnly
<1>5. CASE ClearRecoveredEffect
  BY <1>b, <1>5 DEF ClearRecoveredEffect
<1>6. CASE JournalEffect
  BY <1>a, <1>b, <1>6 DEF JournalEffect
<1>7. CASE ClearEffect
  BY <1>b, <1>7 DEF ClearEffect
<1>8. QED
  BY <1>3, <1>4, <1>5, <1>6, <1>7

\* No command touches a completed item: a draft has none, and a resume, a
\* cutover and a retry pick the others.
LEMMA CommandCompleted ==
    ASSUME CopyInv, Command PROVE KeepsCompleted
<1>0. item \in [Items -> ItemRows]
  BY PlaceFacts DEF CopyInv, ProvenanceInv
<1>1. CASE UNCHANGED item
  BY <1>1 DEF KeepsCompleted
<1>2. ASSUME NEW o \in Options, UpdateDraft(o) PROVE KeepsCompleted
  <2>1. \A i \in Items : item[i].status # "completed"
    BY <1>2 DEF UpdateDraft, CanEditDraft, CopyInv
  <2>2. \A i \in Items : item'[i].status = "pending"
    BY <1>0, <1>2 DEF UpdateDraft, ItemRows
  <2>3. QED
    BY <2>1, <2>2 DEF KeepsCompleted
<1>3. CASE ResumeMigration \/ ContinueAfterPresync \/ \E S : Retry(S)
  <2> SUFFICES ASSUME NEW i \in Items
               PROVE  item'[i].status = "completed" <=> item[i].status = "completed"
    BY DEF KeepsCompleted
  <2>1. item[i] \in ItemRows
    BY <1>0
  <2>2. CASE ResumeMigration
    <3>1. [item[i] EXCEPT !.status = "pending"].status = "pending"
      BY <2>1, StatusEdits
    <3>2. QED
      BY <2>2, <3>1 DEF ResumeMigration
  <2>3. CASE ContinueAfterPresync
    <3>1. [item[i] EXCEPT !.status = "pending",
                          !.step = "apply_read_only"].status = "pending"
      BY <2>1, StatusEdits
    <3>2. QED
      BY <2>3, <3>1 DEF ContinueAfterPresync
  <2>4. ASSUME NEW S, Retry(S)
        PROVE  item'[i].status = "completed" <=> item[i].status = "completed"
    <3>1. \/ item'[i] = item[i]
          \/ /\ item[i].status = "failed"
             /\ item'[i] = [item[i] EXCEPT !.status = "pending",
                             !.step = RetryStepForFailedItem(item[i].step)]
      BY <2>4 DEF Retry
    <3>2. [item[i] EXCEPT !.status = "pending",
             !.step = RetryStepForFailedItem(item[i].step)].status = "pending"
      BY <2>1, StatusEdits
    <3>3. QED
      BY <3>1, <3>2
  <2>5. QED
    BY <1>3, <2>2, <2>3, <2>4
<1>4. QED
  BY <1>1, <1>2, <1>3 DEF Command, RequestPrecheck, PrecheckExpires, StartMigration,
     RequestPause, StopMigration, RequestMaintenance, DeleteMigration,
     CommandAfterRevocation

(***************************************************************************)
(* Which steps leave the destinations alone.                               *)
(***************************************************************************)
KeepsTarget(b, old) ==
    /\ b.target = old.target /\ b.target_by = old.target_by
    /\ b.target_policy = old.target_policy
SameTargets == \A i \in Items : KeepsTarget(bucket'[i], bucket[i])

\* The steps on the destination of the item under way.
TargetStep ==
    \/ CreateBucket \/ CopyBucketSettings
    \/ \E from \in LockPcs : \E to : PutTargetLock(from, to)
    \/ TargetLockRefused \/ SyncCopy \/ SyncWrite
    \/ CleanupLockTarget \/ CleanupUnlockTarget \/ PurgeTarget \/ RemoveTarget

\* The edits of the buckets that are not about the destination.
LEMMA SourceEdits ==
    ASSUME NEW old \in BucketStates, NEW v
    PROVE  /\ KeepsTarget([old EXCEPT !.source_policy = v], old)
           /\ KeepsTarget([old EXCEPT !.source = v], old)
           /\ KeepsTarget([old EXCEPT !.probe = v], old)
           /\ KeepsTarget([old EXCEPT !.source_exists = FALSE,
                                      !.source_policy = {}], old)
           /\ KeepsTarget(old, old)
  BY DEF BucketStates, KeepsTarget

\* A step on the buckets of one item.
LEMMA OneTargetSame ==
    ASSUME bucket \in [Items -> BucketStates], NEW c \in Items, NEW b,
           bucket' = [bucket EXCEPT ![c] = b], KeepsTarget(b, bucket[c])
    PROVE  SameTargets
<1>1. \A i \in Items : bucket'[i] = IF i = c THEN b ELSE bucket[i]
  OBVIOUS
<1>2. QED
  BY <1>1 DEF SameTargets, KeepsTarget

LEMMA TargetsSame ==
    ASSUME ControlInv,
           \/ UNCHANGED bucket
           \/ PutReadOnly("read_only_put", "read_only_done")
           \/ PutReadOnly("cs_read_only_put", "cs_source_hash")
           \/ PutSourceCopyGrant \/ RestoreGrantedPolicy \/ RestoreRevokedGrant
           \/ CleanupPutPolicy \/ PurgeSource \/ RemoveSource
           \/ RecoverEffect \/ ApplyChange \/ UndoChange \/ CheckFault
    PROVE  SameTargets
<1>0. /\ bucket \in [Items -> BucketStates] /\ TypeInv
      /\ w.cur \in Items => Bk = bucket[w.cur] /\ Bk \in BucketStates
  BY PlaceFacts DEF ControlInv, Bk
<1>1. CASE UNCHANGED bucket
  BY <1>1 DEF SameTargets, KeepsTarget
<1>2. CASE w.cur \in Items /\ \E v : \/ SetBucket([Bk EXCEPT !.source_policy = v])
                                     \/ SetBucket([Bk EXCEPT !.source = v])
                                     \/ SetBucket([Bk EXCEPT !.probe = v])
                                     \/ SetBucket([Bk EXCEPT !.source_exists = FALSE,
                                                             !.source_policy = {}])
  <2>1. PICK v : \/ SetBucket([Bk EXCEPT !.source_policy = v])
                 \/ SetBucket([Bk EXCEPT !.source = v])
                 \/ SetBucket([Bk EXCEPT !.probe = v])
                 \/ SetBucket([Bk EXCEPT !.source_exists = FALSE,
                                         !.source_policy = {}])
    BY <1>2
  <2>2. /\ KeepsTarget([Bk EXCEPT !.source_policy = v], Bk)
        /\ KeepsTarget([Bk EXCEPT !.source = v], Bk)
        /\ KeepsTarget([Bk EXCEPT !.probe = v], Bk)
        /\ KeepsTarget([Bk EXCEPT !.source_exists = FALSE, !.source_policy = {}], Bk)
    BY <1>0, <1>2, SourceEdits
  <2>3. QED
    BY <1>0, <1>2, <2>1, <2>2, OneTargetSame DEF SetBucket
<1>3. CASE RecoverEffect
  <2> DEFINE Recovered(i, e) == IF e.name = "probe_bucket"
                                THEN [bucket[i] EXCEPT !.probe = FALSE]
                                ELSE [bucket[i] EXCEPT !.source_policy = e.policy]
  <2>1. \E i \in Items : \E e \in item[i].effects :
          bucket' = [bucket EXCEPT ![i] = Recovered(i, e)]
    BY <1>0, <1>3 DEF RecoverEffect
  <2>2. PICK i \in Items : \E e \in item[i].effects :
          bucket' = [bucket EXCEPT ![i] = Recovered(i, e)]
    BY <2>1
  <2>3. PICK e \in item[i].effects : bucket' = [bucket EXCEPT ![i] = Recovered(i, e)]
    BY <2>2
  <2>4. KeepsTarget(Recovered(i, e), bucket[i])
    <3>1. bucket[i] \in BucketStates
      BY <1>0
    <3>2. /\ KeepsTarget([bucket[i] EXCEPT !.probe = FALSE], bucket[i])
          /\ KeepsTarget([bucket[i] EXCEPT !.source_policy = e.policy], bucket[i])
      BY <3>1, SourceEdits
    <3>3. QED
      BY <3>2
  <2> HIDE DEF Recovered
  <2>5. QED
    BY <1>0, <2>3, <2>4, OneTargetSame
<1>4. CASE ~RecoverEffect /\ ~UNCHANGED bucket
  <2>1. w.pc \notin FreePcs
    BY <1>4 DEF PutReadOnly, PutSourceCopyGrant, RestoreGrantedPolicy,
       RestoreRevokedGrant, CleanupPutPolicy, PurgeSource, RemoveSource,
       ApplyChange, UndoChange, CheckFault, FreePcs
  <2>2. w.cur \in Items
    BY <1>0, <2>1 DEF TypeInv, CurOK
  <2>3. CASE \/ PutReadOnly("read_only_put", "read_only_done")
             \/ PutReadOnly("cs_read_only_put", "cs_source_hash")
             \/ PutSourceCopyGrant \/ RestoreGrantedPolicy \/ RestoreRevokedGrant
             \/ CleanupPutPolicy \/ PurgeSource \/ RemoveSource
    BY <1>2, <2>2, <2>3
       DEF PutReadOnly, PutSourceCopyGrant, RestoreGrantedPolicy,
           RestoreRevokedGrant, CleanupPutPolicy, PurgeSource, RemoveSource
  <2>4. CASE UndoChange
    BY <1>2, <2>2, <2>4 DEF UndoChange
  <2>5. CASE ApplyChange \/ CheckFault
    <3>1. SetBucket(Changed)
      BY <1>4, <2>5 DEF ApplyChange, CheckFault, SetBucket
    <3>2. \/ Changed = [Bk EXCEPT !.probe = TRUE]
          \/ Changed = [Bk EXCEPT !.source_policy = BuildReadOnlyPolicy(w.policy)]
          \/ Changed = [Bk EXCEPT !.source_policy = BuildSourceCopyGrantPolicy(w.policy)]
      BY DEF Changed
    <3>3. QED
      BY <1>2, <2>2, <3>1, <3>2
  <2>6. QED
    BY <1>4, <2>3, <2>4, <2>5
<1>5. QED
  BY <1>1, <1>3, <1>4

\* The steps on the source or the probe bucket of an item.
SourceSideStep ==
    \/ PutReadOnly("read_only_put", "read_only_done")
    \/ PutReadOnly("cs_read_only_put", "cs_source_hash")
    \/ PutSourceCopyGrant \/ RestoreGrantedPolicy \/ RestoreRevokedGrant
    \/ CleanupPutPolicy \/ PurgeSource \/ RemoveSource
    \/ RecoverEffect \/ ApplyChange \/ UndoChange \/ CheckFault

\* All the steps that write to a bucket.
LEMMA BucketSteps ==
    ASSUME [Next]_vars
    PROVE  \/ UNCHANGED bucket \/ TargetStep \/ SourceSideStep
           \/ ReleaseProtection \/ ReleaseFault \/ Client
<1>1. CASE UNCHANGED vars
  BY <1>1 DEF vars
<1>2. CASE Command \/ Claim \/ ClaimPreparation \/ LeaseExpires \/ Crash
  BY <1>2 DEF Command, UpdateDraft, RequestPrecheck, PrecheckExpires,
       StartMigration, RequestPause, ResumeMigration, StopMigration,
       ContinueAfterPresync, Retry, RequestMaintenance, DeleteMigration,
       CommandAfterRevocation, Claim, ClaimPreparation, LeaseExpires, Crash
<1>3. CASE Transfer \/ TransferFaults \/ Revocation
  BY <1>3
       DEF Transfer, TransferFaults, Revocation, TargetStep, SourceSideStep,
           LockPcs, BeginTransfer, CancelRun, SeePause,
           PauseRun, SkipItem, ExecuteItem, ItemsDone, RunItem, ItemLoop,
           LookForTarget, RecordTargetCreated, FinishCreateBucket,
           FinishCopyBucketSettings, ApplyTargetLock, FinishTargetLock,
           BeginSync, JournalGrant, SyncInterrupted, ClearGrantEffect,
           FinishSync, AwaitCutover, ApplyReadOnly, FinishReadOnly, VerifyRead,
           VerifyCompare, VerifyInterrupted, StrongVerificationFails,
           CompleteItem, FinalCheck, Finalize, TransferFault, FatalError,
           CreatorAccessRevoked, ClearRevokedGrant, FailRevokedItem,
           RevokedAgain, RevokedRunEnds, RevokedGrantFault
<1>4. CASE Release \/ ReleaseFault
  BY <1>4 DEF Release, CommitCanceled, CommitFinished, CommitRestored
<1>5. CASE Maintenance \/ MaintenanceFaults
  BY <1>5
       DEF Maintenance, MaintenanceFaults, TargetStep, SourceSideStep, LockPcs, BeginMaintenance,
           ClearRecoveredEffect, RecoveryDone, CleanupLoop, CleanupHashTarget,
           CleanupReadOnly, CleanupHashSource, CleanupCheckSource,
           RecordSourceDeleted, FinishSourceCleanup, LockFailedTarget,
           FinishTargetCleanup, RecoveryFault, CleanupFault, MaintenanceFault,
           CleanupRefused
<1>6. CASE Preparation \/ PreparationFaults
  BY <1>6 DEF Preparation, PreparationFaults, SourceSideStep, CheckItem, JournalEffect,
                ClearEffect, ReportChecks, ChecksInterrupted
<1>7. QED
  BY <1>1, <1>2, <1>3, <1>4, <1>5, <1>6 DEF Next, Worker, Faults

LEMMA TargetSteps ==
    ASSUME ControlInv, [Next]_vars
    PROVE  SameTargets \/ TargetStep \/ ReleaseProtection \/ ReleaseFault \/ Client
  BY BucketSteps, TargetsSame DEF SourceSideStep

\* Between the listing and the completion only clients write to the buckets.
LEMMA CompareOnly ==
    ASSUME [Next]_vars, w.pc \in VerifyPcs PROVE UNCHANGED bucket \/ Client
<1>1. ~TargetStep
  BY DEF VerifyPcs, TargetStep, CreateBucket, CopyBucketSettings, PutTargetLock, LockPcs,
         TargetLockRefused, SyncCopy, SyncWrite, CleanupLockTarget,
         CleanupUnlockTarget, PurgeTarget, RemoveTarget
<1>2. ~SourceSideStep /\ ~ReleaseProtection /\ ~ReleaseFault
  BY DEF VerifyPcs, SourceSideStep, PutReadOnly, PutSourceCopyGrant,
         RestoreGrantedPolicy, RestoreRevokedGrant, CleanupPutPolicy, PurgeSource, RemoveSource, RecoverEffect,
         ApplyChange, UndoChange, CheckFault, ReleaseProtection, ReleaseFault
<1>3. QED
  BY <1>1, <1>2, BucketSteps

\* A step on a destination is a step on the buckets of the item under way, which
\* is not completed unless only the policy changes.
LEMMA TargetStepFacts ==
    ASSUME ProvenanceInv, TargetStep
    PROVE  /\ w.cur \in Items /\ w.pc \in ItemPcs \cup CleanupPcs
           /\ \A i \in Items : i # w.cur => bucket'[i] = bucket[i]
           /\ \/ w.pc \in ItemPcs \cup TargetCleanupPcs
              \/ /\ bucket'[w.cur].target = bucket[w.cur].target
                 /\ bucket'[w.cur].target_by = bucket[w.cur].target_by
<1>1. /\ w.pc \in ItemPcs \cup CleanupPcs /\ w.pc # "cleanup"
      /\ w.pc \notin ItemPcs \cup TargetCleanupPcs =>
           \/ \E to : PutTargetLock("cs_lock_put", to)
           \/ CleanupLockTarget \/ CleanupUnlockTarget
  BY DEF TargetStep, CreateBucket, CopyBucketSettings, PutTargetLock,
     TargetLockRefused, SyncCopy, SyncWrite, CleanupLockTarget,
     CleanupUnlockTarget, PurgeTarget, RemoveTarget, LockPcs, ItemPcs, OutsideItems,
     TransferPcs, ItemSteps, CleanupPcs, TargetCleanupPcs
<1>2. /\ w.cur \in Items /\ bucket \in [Items -> BucketStates]
      /\ Bk = bucket[w.cur] /\ Bk \in BucketStates
  BY <1>1, PlaceFacts DEF ProvenanceInv, Bk
<1>3. (\E b : SetBucket(b)) \/ UNCHANGED bucket
  BY DEF TargetStep, CreateBucket, CopyBucketSettings, PutTargetLock,
     TargetLockRefused, SyncCopy, SyncWrite, CleanupLockTarget, CleanupRefused,
     CleanupUnlockTarget, PurgeTarget, RemoveTarget
<1>4. \A i \in Items : i # w.cur => bucket'[i] = bucket[i]
  BY <1>2, <1>3 DEF SetBucket
<1>5. CASE w.pc \notin ItemPcs \cup TargetCleanupPcs
  <2>1. UNCHANGED bucket \/ \E p : SetBucket([Bk EXCEPT !.target_policy = p])
    BY <1>1, <1>5 DEF PutTargetLock, CleanupLockTarget, CleanupUnlockTarget,
                      CleanupRefused
  <2>2. ASSUME NEW p, SetBucket([Bk EXCEPT !.target_policy = p])
        PROVE  bucket'[w.cur].target = Bk.target /\ bucket'[w.cur].target_by = Bk.target_by
    BY <1>2, <2>2 DEF SetBucket, BucketStates
  <2>3. QED
    BY <1>1, <1>2, <1>4, <2>1, <2>2
<1>6. QED
  BY <1>1, <1>2, <1>4, <1>5

\* A release writes the policies of one bucket.
LEMMA ReleaseSteps ==
    ASSUME ControlInv, ReleaseProtection \/ ReleaseFault
    PROVE  \E r \in w.todo :
             /\ r.item \in Items
             /\ \A i \in Items : i # r.item => bucket'[i] = bucket[i]
             /\ bucket'[r.item].target = bucket[r.item].target
             /\ bucket'[r.item].target_by = bucket[r.item].target_by
             /\ bucket'[r.item].source = bucket[r.item].source
             /\ r.kind = "source" =>
                  bucket'[r.item].target_policy = bucket[r.item].target_policy
<1>0. w \in WorkerStates /\ bucket \in [Items -> BucketStates]
  BY PlaceFacts
<1>1. PICK r \in w.todo : UNCHANGED bucket \/ bucket' = [bucket EXCEPT ![r.item] = Released(r)]
  BY DEF ReleaseProtection, ReleaseFault
<1>2. r.item \in Items /\ bucket[r.item] \in BucketStates /\ r.kind \in {"source", "target"}
  BY <1>0 DEF WorkerStates, Releases
<1> DEFINE b == bucket[r.item]
<1>3. /\ Released(r).target = b.target /\ Released(r).target_by = b.target_by
      /\ Released(r).source = b.source
      /\ r.kind = "source" => Released(r).target_policy = b.target_policy
  <2>1. CASE r.kind = "source"
    <3>1. Released(r) = [b EXCEPT !.source_policy = item[r.item].ro_backup]
      BY <2>1 DEF Released, BucketOf
    <3>2. QED
      BY <1>2, <3>1 DEF BucketStates
  <2>2. CASE r.kind = "target"
    <3> DEFINE p == IF item[r.item].lock_backup # {} THEN item[r.item].lock_backup
                    ELSE b.target_policy \ {"LOCK"}
    <3>1. Released(r) = [b EXCEPT !.target_policy = p]
      BY <2>2 DEF Released, BucketOf
    <3> HIDE DEF p
    <3>2. QED
      BY <1>2, <2>2, <3>1 DEF BucketStates
  <2>3. QED
    BY <1>2, <2>1, <2>2
<1>4. CASE UNCHANGED bucket
  BY <1>2, <1>4
<1>5. CASE bucket' = [bucket EXCEPT ![r.item] = Released(r)]
  <2>1. \A i \in Items : bucket'[i] = IF i = r.item THEN Released(r) ELSE bucket[i]
    BY <1>0, <1>2, <1>5
  <2>2. QED
    BY <1>2, <1>3, <2>1
<1>6. QED
  BY <1>1, <1>4, <1>5

\* What the clients do to the buckets.
LEMMA ClientSteps ==
    ASSUME ControlInv, Client, NEW i \in Items
    PROVE  LET b == bucket'[i]
               old == bucket[i]
           IN  /\ b.source_policy = old.source_policy
               /\ b.source_exists = old.source_exists
               /\ \/ KeepsTarget(b, old)
                  \/ /\ old.target_by = "migration" /\ "LOCK" \notin old.target_policy
                     /\ b.target = Tampered /\ b.target_by = old.target_by
                     /\ b.target_policy = old.target_policy
                  \/ old.target_by = "nobody" /\ (item[i].created => NameReuse)
               /\ \/ b.source = old.source
                  \/ old.source_policy \cap {"RO", "ROw"} = {} /\ b.source # Empty
<1>0. bucket \in [Items -> BucketStates]
  BY PlaceFacts
<1>1. PICK j \in Items : \/ ClientWritesSource(j) \/ ClientWritesTarget(j)
                         \/ OtherCreatesTarget(j)
  BY DEF Client
<1>2. bucket[i] \in BucketStates
  BY <1>0
<1>3. CASE i # j
  <2>1. bucket'[i] = bucket[i]
    BY <1>0, <1>1, <1>3 DEF ClientWritesSource, ClientWritesTarget, OtherCreatesTarget
  <2>2. QED
    BY <2>1 DEF KeepsTarget
<1>4. CASE i = j /\ ClientWritesSource(j)
  <2>1. /\ bucket'[i] = [bucket[i] EXCEPT !.source = bucket[i].source + 1]
        /\ bucket[i].source_policy \cap {"RO", "ROw"} = {}
        /\ bucket[i].source + 1 # Empty
    BY <1>0, <1>4, BoundsAssumption DEF ClientWritesSource, SourceWritable, Empty
  <2>2. QED
    BY <1>2, <2>1 DEF BucketStates, KeepsTarget
<1>5. CASE i = j /\ ClientWritesTarget(j)
  <2>1. /\ bucket'[i] = [bucket[i] EXCEPT !.target = Tampered]
        /\ bucket[i].target_by = "migration" /\ "LOCK" \notin bucket[i].target_policy
    BY <1>0, <1>5 DEF ClientWritesTarget, TargetWritable
  <2>2. QED
    BY <1>2, <2>1 DEF BucketStates
<1>6. CASE i = j /\ OtherCreatesTarget(j)
  <2>1. /\ bucket'[i] = [bucket[i] EXCEPT !.target_by = "other", !.target = Tampered,
                                          !.target_policy = {}]
        /\ bucket[i].target_by = "nobody" /\ (item[i].created => NameReuse)
    BY <1>0, <1>6 DEF OtherCreatesTarget
  <2>2. QED
    BY <1>2, <2>1 DEF BucketStates
<1>7. QED
  BY <1>1, <1>3, <1>4, <1>5, <1>6

\* Nothing but its clients writes to the destination of a completed item.
LEMMA CopiesKept ==
    ASSUME CopyInv, [Next]_vars PROVE KeepsCopies
<1>0. ProvenanceInv /\ ControlInv
  BY DEF CopyInv, ProvenanceInv
<1>1. CASE SameTargets
  BY <1>1 DEF SameTargets, KeepsTarget, KeepsCopies
<1>2. CASE TargetStep
  <2>1. w.pc \in ItemPcs \cup TargetCleanupPcs => item[w.cur].status # "completed"
    BY <1>0 DEF CopyInv, ProvenanceInv, CreatedPlaces, It
  <2>2. QED
    BY <1>0, <1>2, <2>1, TargetStepFacts DEF KeepsCopies
<1>3. CASE ReleaseProtection \/ ReleaseFault
  BY <1>0, <1>3, ReleaseSteps DEF KeepsCopies
<1>4. CASE Client
  <2> SUFFICES ASSUME NEW i \in Items, item[i].status = "completed"
               PROVE  /\ bucket'[i].target \in {bucket[i].target, Tampered}
                      /\ bucket'[i].target_by = bucket[i].target_by
    BY DEF KeepsCopies
  <2>1. bucket[i].target_by # "nobody"
    BY DEF CopyInv, Exists
  <2>2. QED
    BY <1>0, <1>4, <2>1, ClientSteps DEF KeepsTarget
<1>5. QED
  BY <1>0, <1>1, <1>2, <1>3, <1>4, TargetSteps

\* A run comes to an item through _execute_migration_item, and stays with it;
\* only the listing of the source leads to the comparison, and only that to the
\* completion.
LEMMA ItemEntered ==
    ASSUME ControlInv, [Next]_vars, w'.pc \in ItemPcs
    PROVE  /\ w'.cur = w.cur /\ w.cur \in Items
           /\ w.pc \in ItemPcs \/ (ExecuteItem /\ TransferPreconditions(w.cur))
           /\ w'.pc = "verify_compare" => VerifyRead \/ UNCHANGED w
           /\ w'.pc = "verified" => VerifyCompare \/ UNCHANGED w
           /\ w'.pc = "bucket_created" => CreateBucket \/ UNCHANGED w
<1>0. w \in WorkerStates /\ "items" \notin ItemPcs
  BY PlaceFacts, QuietPlaces
<1>a. ExecuteItem \/ w.pc \in ItemPcs => w.cur \in Items
  BY <1>0, LoopIndex, PlaceFacts DEF ExecuteItem, WorkerStates
<1>1. CASE Command \/ Client \/ UNCHANGED vars
  <2>1. UNCHANGED w
    BY <1>1 DEF Command, UpdateDraft, RequestPrecheck, PrecheckExpires,
       StartMigration, RequestPause, ResumeMigration, StopMigration,
       ContinueAfterPresync, Retry, RequestMaintenance, DeleteMigration,
       CommandAfterRevocation, Client, ClientWritesSource, ClientWritesTarget,
       OtherCreatesTarget, vars
  <2>2. QED
    BY <1>a, <2>1
<1>2. CASE \/ RunItem \/ PutTargetLock("relock_put", "loop") \/ ItemLoop
           \/ LookForTarget \/ CreateBucket \/ RecordTargetCreated
           \/ FinishCreateBucket \/ CopyBucketSettings \/ FinishCopyBucketSettings
           \/ ApplyTargetLock \/ PutTargetLock("lock_put", "lock_done")
           \/ FinishTargetLock \/ TargetLockRefused \/ BeginSync
           \/ FinishSync \/ AwaitCutover
           \/ PutReadOnly("read_only_put", "read_only_done") \/ FinishReadOnly
           \/ VerifyRead \/ VerifyCompare \/ VerifyInterrupted
           \/ StrongVerificationFails \/ CompleteItem
  BY <1>0, <1>a, <1>2, ItemMoves
<1>3. CASE ExecuteItem
  BY <1>0, <1>a, <1>3, RunMoves DEF ExecuteItem, FailItem
<1>4. CASE \/ JournalGrant \/ PutSourceCopyGrant \/ SyncCopy \/ SyncWrite
           \/ SyncInterrupted \/ RestoreGrantedPolicy \/ ClearGrantEffect
           \/ ApplyReadOnly \/ TransferFault
  <2>1. w.pc \in ItemPcs
    BY <1>4 DEF JournalGrant, PutSourceCopyGrant, SyncCopy, SyncWrite,
         SyncInterrupted, RestoreGrantedPolicy, ClearGrantEffect, ApplyReadOnly,
         TransferFault, ItemPcs, OutsideItems, TransferPcs, ItemSteps
  <2>2. CASE JournalGrant \/ ApplyReadOnly
    BY <1>0, <1>a, <2>1, <2>2 DEF JournalGrant, ApplyReadOnly, WorkerStates
  <2>3. CASE ~(JournalGrant \/ ApplyReadOnly)
    BY <1>0, <1>a, <1>4, <2>1, <2>3, RunMoves
       DEF PutSourceCopyGrant, SyncCopy, SyncWrite, SyncInterrupted,
           RestoreGrantedPolicy, ClearGrantEffect, TransferFault, FailItem
  <2>4. QED
    BY <2>2, <2>3
<1>5. CASE \/ BeginTransfer \/ CancelRun \/ SeePause \/ PauseRun \/ SkipItem
           \/ ItemsDone \/ FinalCheck \/ Finalize \/ FatalError
           \/ CreatorAccessRevoked \/ Revocation \/ RevokedGrantFault
           \/ Release \/ ReleaseFault \/ Maintenance \/ MaintenanceFaults
           \/ Preparation \/ PreparationFaults
           \/ Claim \/ ClaimPreparation \/ LeaseExpires \/ Crash
  BY <1>5, OutsideMoves
<1>6. QED
  BY <1>1, <1>2, <1>3, <1>4, <1>5
     DEF Next, Worker, Faults, Transfer, TransferFaults

\* A run that lost its creator stays with the item that was under way.
LEMMA UnwindEntered ==
    ASSUME ControlInv, [Next]_vars, w'.pc \in UnwindPcs
    PROVE  w'.cur = w.cur /\ w.cur \in Items /\ w.pc \in ItemPcs \cup UnwindPcs
<1>0. w \in WorkerStates /\ UnwindPcs \subseteq RevokedPcs \ {"revoked"}
  BY PlaceFacts DEF UnwindPcs, RevokedPcs
<1>a. w.pc \in ItemPcs \cup UnwindPcs => w.cur \in Items
  BY <1>0, PlaceFacts
<1>b. UnwindPcs \cap (PlainItemPcs \cup ItemPcs \cup {"items", "grant_journal"}) = {}
  BY DEF UnwindPcs, PlainItemPcs, ItemPcs, OutsideItems, TransferPcs, ItemSteps
<1>1. CASE UNCHANGED w
  BY <1>a, <1>1
<1>2. CASE CreatorAccessRevoked
  <2>1. w.pc \in ItemPcs /\ w'.cur = w.cur
    BY <1>0, <1>2, RunMoves
       DEF CreatorAccessRevoked, AtControlCheck, UnwindPcs, ItemPcs, OutsideItems,
           TransferPcs, ItemSteps
  <2>2. QED
    BY <1>a, <2>1
<1>3. CASE RestoreRevokedGrant \/ ClearRevokedGrant \/ RevokedGrantFault
  <2>1. w.pc \in UnwindPcs /\ w'.cur = w.cur
    BY <1>0, <1>3, RunMoves
       DEF RestoreRevokedGrant, ClearRevokedGrant, RevokedGrantFault, UnwindPcs
  <2>2. QED
    BY <1>a, <2>1
<1>4. CASE FailRevokedItem \/ RevokedAgain \/ RevokedRunEnds
  <2>1. w'.pc \in {"revoked_next", "revoked", "idle"}
    BY <1>0, <1>4, RunMoves DEF FailRevokedItem, RevokedAgain, RevokedRunEnds,
                                IdleWorker
  <2>2. QED
    BY <2>1 DEF UnwindPcs
<1>5. CASE Command \/ Client \/ UNCHANGED vars
  <2>1. UNCHANGED w
    BY <1>5 DEF Command, UpdateDraft, RequestPrecheck, PrecheckExpires,
       StartMigration, RequestPause, ResumeMigration, StopMigration,
       ContinueAfterPresync, Retry, RequestMaintenance, DeleteMigration,
       CommandAfterRevocation, Client, ClientWritesSource, ClientWritesTarget,
       OtherCreatesTarget, vars
  <2>2. QED
    BY <1>1, <2>1
<1>6. CASE \/ RunItem \/ PutTargetLock("relock_put", "loop") \/ ItemLoop
           \/ LookForTarget \/ CreateBucket \/ RecordTargetCreated
           \/ FinishCreateBucket \/ CopyBucketSettings \/ FinishCopyBucketSettings
           \/ ApplyTargetLock \/ PutTargetLock("lock_put", "lock_done")
           \/ FinishTargetLock \/ TargetLockRefused \/ BeginSync
           \/ FinishSync \/ AwaitCutover
           \/ PutReadOnly("read_only_put", "read_only_done") \/ FinishReadOnly
           \/ VerifyRead \/ VerifyCompare \/ VerifyInterrupted
           \/ StrongVerificationFails \/ CompleteItem
  BY <1>b, <1>6, ItemMoves
<1>7. CASE ExecuteItem
  <2>1. w'.pc \in {"item", "items"}
    BY <1>0, <1>7, RunMoves DEF ExecuteItem, FailItem
  <2>2. QED
    BY <2>1 DEF UnwindPcs
<1>8. CASE \/ JournalGrant \/ PutSourceCopyGrant \/ SyncCopy \/ SyncWrite
           \/ SyncInterrupted \/ RestoreGrantedPolicy \/ ClearGrantEffect
           \/ ApplyReadOnly \/ TransferFault
  <2>1. w'.pc \notin UnwindPcs
    <3>1. CASE JournalGrant \/ ApplyReadOnly
      BY <1>0, <3>1 DEF JournalGrant, ApplyReadOnly, WorkerStates, UnwindPcs
    <3>2. CASE ~(JournalGrant \/ ApplyReadOnly)
      BY <1>0, <1>8, <3>2, RunMoves
         DEF PutSourceCopyGrant, SyncCopy, SyncWrite, SyncInterrupted,
             RestoreGrantedPolicy, ClearGrantEffect, TransferFault, FailItem,
             UnwindPcs
    <3>3. QED
      BY <3>1, <3>2
  <2>2. QED
    BY <2>1
<1>9. CASE \/ BeginTransfer \/ CancelRun \/ SeePause \/ PauseRun \/ SkipItem
           \/ ItemsDone \/ FinalCheck \/ Finalize \/ FatalError
           \/ Release \/ ReleaseFault \/ Maintenance \/ MaintenanceFaults
           \/ Preparation \/ PreparationFaults
           \/ Claim \/ ClaimPreparation \/ LeaseExpires \/ Crash
  BY <1>0, <1>1, <1>2, <1>3, <1>4, <1>9, OutsideMoves DEF Revocation
<1>10. QED
  BY <1>2, <1>3, <1>4, <1>5, <1>6, <1>7, <1>8, <1>9
     DEF Next, Worker, Faults, Transfer, TransferFaults, Revocation

\* Every step but the completion of an item keeps the set of completed items.
LEMMA CompletedKept ==
    ASSUME CopyInv, [Next]_vars, ~CompleteItem PROVE KeepsCompleted
<1>0. ControlInv
  BY DEF CopyInv, ProvenanceInv
<1>1. CASE UNCHANGED item
  BY <1>1 DEF KeepsCompleted
<1>2. CASE Command
  BY <1>2, CommandCompleted
<1>3. CASE Transfer \/ TransferFaults \/ Revocation
  <2>1. CASE \/ RunItem \/ ItemLoop \/ LookForTarget \/ CreateBucket
           \/ RecordTargetCreated \/ FinishCreateBucket \/ FinishCopyBucketSettings
           \/ ApplyTargetLock \/ FinishTargetLock \/ TargetLockRefused
           \/ JournalGrant \/ ClearGrantEffect \/ FinishSync \/ AwaitCutover
           \/ ApplyReadOnly \/ FinishReadOnly \/ VerifyRead \/ TransferFault
           \/ VerifyCompare \/ VerifyInterrupted \/ StrongVerificationFails
    BY <2>1, ItemStepsCompleted
  <2>2. CASE ExecuteItem \/ PauseRun \/ FatalError
    BY <2>2, EndsCompleted
  <2>4. CASE CreatorAccessRevoked \/ Revocation \/ RevokedGrantFault
    BY <2>4, RevocationCompleted
  <2>3. QED
    BY <1>1, <1>3, <2>1, <2>2, <2>4
       DEF Transfer, TransferFaults, BeginTransfer, CancelRun, SeePause, SkipItem,
           ItemsDone, PutTargetLock, CopyBucketSettings, BeginSync,
           PutSourceCopyGrant, SyncCopy, SyncWrite, SyncInterrupted,
           RestoreGrantedPolicy, PutReadOnly, FinalCheck, Finalize
<1>4. CASE Release \/ ReleaseFault
  BY <1>1, <1>4, EndsCompleted DEF Release, ReleaseFault, ReleaseProtection
<1>5. CASE \/ Maintenance \/ MaintenanceFaults \/ Preparation \/ PreparationFaults
  BY <1>0, <1>1, <1>5, MaintenanceCompleted
     DEF Maintenance, MaintenanceFaults, Preparation, PreparationFaults,
         BeginMaintenance, RecoverEffect, RecoveryDone, CleanupLoop,
         PutTargetLock, PutReadOnly, CleanupHashTarget, CleanupCheckSource,
         CleanupPutPolicy, PurgeSource, RemoveSource, CleanupUnlockTarget,
         PurgeTarget, RemoveTarget, RecoveryFault, CleanupFault,
         MaintenanceFault, CleanupRefused, CheckItem, ApplyChange, UndoChange,
         ReportChecks, CheckFault, ChecksInterrupted
<1>6. CASE \/ Claim \/ ClaimPreparation \/ LeaseExpires \/ Crash \/ Client
           \/ UNCHANGED vars
  BY <1>1, <1>6 DEF Claim, ClaimPreparation, LeaseExpires, Crash, Client,
     ClientWritesSource, ClientWritesTarget, OtherCreatesTarget, vars
<1>7. QED
  BY <1>2, <1>3, <1>4, <1>5, <1>6 DEF Next, Worker, Faults

\* The comparison passes a destination that equals what was read.
LEMMA CompareStep ==
    ASSUME CopyInv, VerifyCompare
    PROVE  /\ UNCHANGED bucket
           /\ w'.pc = "verified" =>
                /\ w'.snap = w.snap /\ w'.cur = w.cur /\ Bk.target = w.snap
                /\ "RO" \in Bk.source_policy => Bk.source = w.snap
<1>1. w.pc = "verify_compare" /\ w.pc \in VerifyPcs /\ UNCHANGED bucket
  BY DEF VerifyCompare, VerifyPcs
<1>2. w \in WorkerStates
  BY PlaceFacts DEF CopyInv, ProvenanceInv
<1>3. CASE w.snap = Bk.target
  BY <1>1, <1>2, <1>3 DEF VerifyCompare, Goto, CopyInv, WorkerStates
<1>4. CASE w.snap # Bk.target
  BY <1>1, <1>2, <1>4, RunMoves DEF VerifyCompare, FailItem
<1>5. QED
  BY <1>1, <1>3, <1>4

\* An item is completed with the destination that was compared, or with one that
\* a client wrote to since.
LEMMA CompletionStep ==
    ASSUME CopyInv, CompleteItem
    PROVE  /\ w.cur \in Items /\ w'.pc = "items" /\ UNCHANGED <<bucket, mig>>
           /\ item[w.cur].status # "completed" /\ Exists(bucket[w.cur])
           /\ "RO" \in bucket[w.cur].source_policy => bucket[w.cur].source = w.snap
           /\ \/ bucket[w.cur].target = w.snap
              \/ /\ "LOCK" \notin bucket[w.cur].target_policy
                 /\ bucket[w.cur].target = Tampered
           /\ \A i \in Items : i # w.cur => item'[i] = item[i]
           /\ item'[w.cur].status = "completed"
<1>1. /\ w.pc = "verified" /\ w.pc \in VerifyPcs /\ w.pc \in ItemPcs \ EarlyPcs
      /\ UNCHANGED <<bucket, mig>>
  BY DEF CompleteItem, VerifyPcs, ItemPcs, OutsideItems, TransferPcs, EarlyPcs
<1>2. /\ w.cur \in Items /\ item \in [Items -> ItemRows] /\ w \in WorkerStates
      /\ It = item[w.cur] /\ Bk = bucket[w.cur] /\ It \in ItemRows
  BY <1>1, PlaceFacts DEF CopyInv, ProvenanceInv, It, Bk
<1>3. /\ It.status # "completed" /\ Exists(Bk)
      /\ "RO" \in Bk.source_policy => Bk.source = w.snap
      /\ Bk.target = w.snap \/ ("LOCK" \notin Bk.target_policy /\ Bk.target = Tampered)
  BY <1>1 DEF CopyInv, ProvenanceInv, CreatedPlaces
<1>4. w'.pc = "items"
  BY <1>2, RunMoves DEF CompleteItem
<1> DEFINE row == [It EXCEPT !.status = "completed", !.step = "completed"]
<1>5. item' = [item EXCEPT ![w.cur] = row]
  BY DEF CompleteItem, SetItem
<1>6. row.status = "completed"
  BY <1>2, StatusEdits
<1> HIDE DEF row
<1>7. QED
  BY <1>1, <1>2, <1>3, <1>4, <1>5, <1>6

\* Nothing becomes a draft again.
LEMMA DraftBefore ==
    ASSUME ControlInv, [Next]_vars, mig'.status = "draft" PROVE mig.status = "draft"
<1>0. mig \in MigrationRows /\ w \in WorkerStates
  BY PlaceFacts
<1>1. CASE mig'.status = mig.status
  BY <1>1
<1>2. CASE Command
  BY <1>0, <1>2 DEF Command, UpdateDraft, RequestPrecheck, PrecheckExpires,
     StartMigration, RequestPause, ResumeMigration, StopMigration,
     ContinueAfterPresync, Retry, RequestMaintenance, DeleteMigration,
     CommandAfterRevocation, Requeued, MigrationRows
<1>3. CASE Transfer \/ TransferFaults \/ Revocation \/ Release \/ ReleaseFault
  <2>1. \/ UNCHANGED mig
        \/ BeginTransfer \/ PauseRun \/ Finalize \/ FatalError \/ CreatorAccessRevoked
        \/ RevokedAgain \/ RevokedRunEnds
        \/ CommitCanceled \/ CommitFinished \/ CommitRestored
    BY <1>3
       DEF Transfer, TransferFaults, Revocation, Release, ReleaseFault,
           ReleaseProtection, CancelRun, SeePause, FinalCheck, SkipItem, ExecuteItem, ItemsDone, RunItem, PutTargetLock,
           ItemLoop, LookForTarget, CreateBucket, RecordTargetCreated,
           FinishCreateBucket, CopyBucketSettings, FinishCopyBucketSettings,
           ApplyTargetLock, FinishTargetLock, BeginSync, JournalGrant,
           PutSourceCopyGrant, SyncCopy, SyncWrite, SyncInterrupted,
           RestoreGrantedPolicy, ClearGrantEffect, FinishSync, AwaitCutover,
           ApplyReadOnly, PutReadOnly, FinishReadOnly, VerifyRead, VerifyCompare,
           VerifyInterrupted, StrongVerificationFails, CompleteItem,
           TransferFault, TargetLockRefused, RestoreRevokedGrant,
           ClearRevokedGrant, RevokedGrantFault, FailRevokedItem
  <2>2. QED
    BY <1>0, <2>1
       DEF BeginTransfer, PauseRun, Finalize, FatalError, CreatorAccessRevoked,
           RevokedAgain, RevokedRunEnds, CommitCanceled, CommitFinished, CommitRestored, MigrationRows
<1>4. CASE \/ Maintenance \/ MaintenanceFaults \/ Preparation \/ PreparationFaults
  <2>1. \/ UNCHANGED mig
        \/ BeginMaintenance \/ RecoveryFault \/ CleanupLoop \/ MaintenanceFault
        \/ ReportChecks \/ ChecksInterrupted
    BY <1>4
       DEF Maintenance, MaintenanceFaults, Preparation, PreparationFaults,
           RecoverEffect, ClearRecoveredEffect, RecoveryDone, CleanupLockTarget,
           PutTargetLock, CleanupHashTarget, CleanupReadOnly, PutReadOnly,
           CleanupHashSource, CleanupCheckSource, CleanupPutPolicy, PurgeSource,
           RemoveSource, RecordSourceDeleted, CleanupUnlockTarget,
           FinishSourceCleanup, LockFailedTarget, PurgeTarget, RemoveTarget,
           FinishTargetCleanup, CleanupFault, CheckItem, JournalEffect,
           ApplyChange, UndoChange, ClearEffect, CheckFault
  <2>2. QED
    BY <1>0, <2>1
       DEF BeginMaintenance, RecoveryFault, CleanupLoop, MaintenanceFault,
           ReportChecks, ChecksInterrupted, FinishMaintenance, MigrationRows
<1>5. CASE \/ Claim \/ ClaimPreparation \/ LeaseExpires \/ Crash \/ Client
           \/ UNCHANGED vars
  BY <1>0, <1>5 DEF Claim, ClaimPreparation, LeaseExpires, Crash, Client,
     ClientWritesSource, ClientWritesTarget, OtherCreatesTarget, vars,
     MigrationRows
<1>6. QED
  BY <1>2, <1>3, <1>4, <1>5 DEF Next, Worker, Faults

LEMMA CopyNext == CopyInv /\ [Next]_vars => CopyInv'
<1> SUFFICES ASSUME CopyInv, [Next]_vars PROVE CopyInv'
  OBVIOUS
<1>0. ProvenanceInv /\ ControlInv /\ ProvenanceInv' /\ ControlInv'
  BY ProvenanceNext DEF CopyInv, ProvenanceInv
<1>1. mig'.status = "draft" => \A i \in Items : item'[i].status # "completed"
  <2>1. CASE CompleteItem
    <3>1. w.pc \in RunPcs
      BY <2>1 DEF CompleteItem, RunPcs, TransferPcs
    <3>2. QED
      BY <1>0, <2>1, <3>1, PlaceFacts DEF CompleteItem
  <2>2. CASE ~CompleteItem
    BY <1>0, <2>2, CompletedKept, DraftBefore DEF CopyInv, KeepsCompleted
  <2>3. QED
    BY <2>1, <2>2
<1>2. \A i \in Items : item'[i].status = "completed" => Exists(bucket'[i])
  <2>1. CASE CompleteItem
    BY <2>1, CompletionStep DEF CopyInv
  <2>2. CASE ~CompleteItem
    BY <2>2, CompletedKept, CopiesKept DEF CopyInv, KeepsCompleted, KeepsCopies,
                                           Exists
  <2>3. QED
    BY <2>1, <2>2
<1>3. w'.pc \in ItemPcs \cup UnwindPcs => It'.status # "completed"
  <2> SUFFICES ASSUME w'.pc \in ItemPcs \cup UnwindPcs PROVE It'.status # "completed"
    OBVIOUS
  <2>1. /\ w'.cur = w.cur /\ w.cur \in Items /\ "items" \notin ItemPcs \cup UnwindPcs
        /\ item[w.cur].status # "completed"
    BY <1>0, ItemEntered, UnwindEntered, PlaceFacts, QuietPlaces
       DEF CopyInv, ExecuteItem, It, UnwindPcs
  <2>2. ~CompleteItem
    BY <2>1, CompletionStep
  <2>3. KeepsCompleted
    BY <2>2, CompletedKept
  <2>4. QED
    BY <2>1, <2>3 DEF KeepsCompleted, It
<1>p. VerifyPcs \subseteq ItemPcs
  BY DEF VerifyPcs, ItemPcs, OutsideItems, TransferPcs
<1>q. ASSUME w'.pc \in VerifyPcs, UNCHANGED w
      PROVE  /\ w.cur \in Items /\ Bk = bucket[w.cur] /\ Bk' = bucket'[w.cur]
             /\ Bk'.source_policy = Bk.source_policy
             /\ Bk'.target_policy = Bk.target_policy
             /\ "RO" \in Bk.source_policy => Bk'.source = Bk.source
             /\ \/ Bk'.target = Bk.target
                \/ "LOCK" \notin Bk.target_policy /\ Bk'.target = Tampered
  <2>1. /\ w.cur \in Items /\ Bk = bucket[w.cur] /\ Bk' = bucket'[w.cur]
        /\ w.pc \in VerifyPcs /\ w.pc \in ItemPcs \ EarlyPcs
    BY <1>0, <1>p, <1>q, PlaceFacts DEF Bk, VerifyPcs, EarlyPcs
  <2>2. Exists(Bk)
    BY <1>0, <2>1 DEF ProvenanceInv, CreatedPlaces
  <2>3. CASE UNCHANGED bucket
    BY <2>1, <2>3
  <2>4. CASE Client
    BY <1>0, <2>1, <2>2, <2>4, ClientSteps DEF KeepsTarget, Exists
  <2>5. QED
    BY <2>1, <2>3, <2>4, CompareOnly
<1>4. w'.pc \in VerifyPcs /\ "RO" \in Bk'.source_policy => Bk'.source = w'.snap
  <2> SUFFICES ASSUME w'.pc \in VerifyPcs, "RO" \in Bk'.source_policy
               PROVE  Bk'.source = w'.snap
    OBVIOUS
  <2>1. w'.pc \in ItemPcs
    BY <1>p
  <2>2. w'.cur = w.cur /\ w.cur \in Items /\ w \in WorkerStates
    BY <1>0, <2>1, ItemEntered, PlaceFacts
  <2>3. CASE VerifyRead
    <3>1. w' = [w EXCEPT !.pc = "verify_compare", !.snap = Bk.source] /\ UNCHANGED bucket
      BY <2>2, <2>3, RunMoves DEF VerifyRead, StopInterruptedItem, VerifyPcs
    <3>2. w'.snap = Bk.source
      BY <2>2, <3>1 DEF WorkerStates
    <3>3. QED
      BY <2>2, <3>1, <3>2 DEF Bk
  <2>4. CASE VerifyCompare /\ w'.pc = "verified"
    <3>1. Bk' = Bk
      BY <2>2, <2>4, CompareStep DEF Bk
    <3>2. QED
      BY <2>4, <3>1, CompareStep
  <2>5. CASE UNCHANGED w
    BY <1>q, <2>5 DEF CopyInv
  <2>6. QED
    BY <1>0, <2>1, <2>3, <2>4, <2>5, ItemEntered DEF VerifyPcs
<1>5. w'.pc = "verified" =>
        \/ Bk'.target = w'.snap
        \/ "LOCK" \notin Bk'.target_policy /\ Bk'.target = Tampered
  <2> SUFFICES ASSUME w'.pc = "verified"
               PROVE  \/ Bk'.target = w'.snap
                      \/ "LOCK" \notin Bk'.target_policy /\ Bk'.target = Tampered
    OBVIOUS
  <2>1. w'.pc \in ItemPcs /\ w'.pc \in VerifyPcs
    BY <1>p DEF VerifyPcs
  <2>2. CASE VerifyCompare
    <3>1. Bk' = Bk
      BY <2>2, CompareStep DEF Bk
    <3>2. QED
      BY <2>2, <3>1, CompareStep
  <2>3. CASE UNCHANGED w
    BY <1>q, <2>1, <2>3 DEF CopyInv
  <2>4. QED
    BY <1>0, <2>1, <2>2, <2>3, ItemEntered
<1>6. QED
  BY <1>0, <1>1, <1>2, <1>3, <1>4, <1>5 DEF CopyInv

LEMMA CopyInit == Init => CopyInv
<1> SUFFICES ASSUME Init PROVE CopyInv
  OBVIOUS
<1>1. ProvenanceInv /\ w.pc = "idle"
  BY ProvenanceInit DEF Init, IdleWorker
<1>2. \A i \in Items : item[i].status = "pending"
  BY DEF Init, DraftItem
<1>3. "idle" \notin ItemPcs \cup UnwindPcs \cup VerifyPcs
  BY QuietPlaces DEF UnwindPcs, VerifyPcs
<1>4. QED
  BY <1>1, <1>2, <1>3 DEF CopyInv

\* Of a read-only source the comparison passes only an exact copy: no write
\* comes between the final sync, the listing and the comparison of
\* _run_verify_step; and the item is completed with that copy, or with what a
\* client made of a destination without the lock since.  For every number of
\* items, grants included.
THEOREM CompletedCopyIsExactAlways == Spec => CompletedCopyIsExact
<1>1. CopyInv /\ [Next]_vars =>
        [/\ /\ w.pc # "verified" /\ w'.pc = "verified"
            /\ "RO" \in Bk.source_policy
            => Bk.source = Bk.target
         /\ \A i \in Items :
              /\ item[i].status # "completed" /\ item'[i].status = "completed"
              /\ "RO" \in bucket[i].source_policy
              => \/ bucket[i].source = bucket[i].target
                 \/ "LOCK" \notin bucket[i].target_policy
                    /\ bucket[i].target = Tampered]_vars
  <2> SUFFICES ASSUME CopyInv, [Next]_vars
               PROVE  /\ /\ w.pc # "verified" /\ w'.pc = "verified"
                         /\ "RO" \in Bk.source_policy
                         => Bk.source = Bk.target
                      /\ \A i \in Items :
                           /\ item[i].status # "completed"
                           /\ item'[i].status = "completed"
                           /\ "RO" \in bucket[i].source_policy
                           => \/ bucket[i].source = bucket[i].target
                              \/ "LOCK" \notin bucket[i].target_policy
                                 /\ bucket[i].target = Tampered
    OBVIOUS
  <2>1. ASSUME w.pc # "verified", w'.pc = "verified", "RO" \in Bk.source_policy
        PROVE  Bk.source = Bk.target
    <3>1. w'.pc \in ItemPcs
      BY <2>1 DEF ItemPcs, OutsideItems, TransferPcs
    <3>2. VerifyCompare
      BY <2>1, <3>1, ItemEntered DEF CopyInv, ProvenanceInv
    <3>3. QED
      BY <2>1, <3>2, CompareStep
  <2>2. ASSUME NEW i \in Items, item[i].status # "completed",
               item'[i].status = "completed", "RO" \in bucket[i].source_policy
        PROVE  \/ bucket[i].source = bucket[i].target
               \/ "LOCK" \notin bucket[i].target_policy /\ bucket[i].target = Tampered
    <3>1. CompleteItem
      BY <2>2, CompletedKept DEF KeepsCompleted
    <3>2. i = w.cur
      BY <2>2, <3>1, CompletionStep
    <3>3. QED
      BY <2>2, <3>1, <3>2, CompletionStep
  <2>3. QED
    BY <2>1, <2>2
<1>2. QED
  BY <1>1, CopyInit, CopyNext, PTL DEF Spec, CompletedCopyIsExact

\* A verified copy is safe: no retry, cleanup of failed destinations, stop,
\* restore or crash touches the destination of a completed item or takes its
\* status back.
THEOREM CompletedCopyPreservedAlways == Spec => CompletedCopyPreserved
<1>1. CopyInv /\ [Next]_vars =>
        [\A i \in Items : item[i].status = "completed" =>
           /\ item'[i].status = "completed"
           /\ bucket'[i].target \in {bucket[i].target, Tampered}
           /\ bucket'[i].target_by = bucket[i].target_by]_vars
  <2> SUFFICES ASSUME CopyInv, [Next]_vars, NEW i \in Items,
                      item[i].status = "completed"
               PROVE  /\ item'[i].status = "completed"
                      /\ bucket'[i].target \in {bucket[i].target, Tampered}
                      /\ bucket'[i].target_by = bucket[i].target_by
    OBVIOUS
  <2>1. KeepsCopies
    BY CopiesKept
  <2>2. item'[i].status = "completed"
    BY CompletedKept, CompletionStep DEF KeepsCompleted
  <2>3. QED
    BY <2>1, <2>2 DEF KeepsCopies
<1>2. QED
  BY <1>1, CopyInit, CopyNext, PTL DEF Spec, CompletedCopyPreserved

(***************************************************************************)
(* How a worker comes to a cleanup and to a release.                       *)
(***************************************************************************)
\* The steps of a cleanup that go on with the same item.
CleanupStep ==
    \/ CleanupLoop \/ CleanupLockTarget
    \/ PutTargetLock("cs_lock_put", "cs_target_hash")
    \/ CleanupHashTarget \/ CleanupReadOnly
    \/ PutReadOnly("cs_read_only_put", "cs_source_hash")
    \/ CleanupHashSource \/ CleanupCheckSource \/ CleanupPutPolicy
    \/ PurgeSource \/ RemoveSource \/ RecordSourceDeleted \/ CleanupUnlockTarget
    \/ LockFailedTarget \/ PutTargetLock("ct_lock_put", "ct_purge")
    \/ PurgeTarget \/ RemoveTarget

\* Where a transfer leads: it stays within itself, or is on its way out.
PlacesAfterTransfer ==
    ItemPcs \cup {"items", "final", "pausing", "finalize", "completed"}
            \cup {"idle"} \cup RevokedPcs

LEMMA TransferPlaces ==
    ASSUME ControlInv, Transfer \/ TransferFaults \/ Revocation,
           ~CancelRun, ~Finalize
    PROVE  w'.pc \in PlacesAfterTransfer
<1>0. w \in WorkerStates
  BY PlaceFacts
<1>1. CASE \/ RunItem \/ PutTargetLock("relock_put", "loop") \/ ItemLoop
           \/ LookForTarget \/ CreateBucket \/ RecordTargetCreated
           \/ FinishCreateBucket \/ CopyBucketSettings \/ FinishCopyBucketSettings
           \/ ApplyTargetLock \/ PutTargetLock("lock_put", "lock_done")
           \/ FinishTargetLock \/ TargetLockRefused \/ BeginSync
           \/ FinishSync \/ AwaitCutover
           \/ PutReadOnly("read_only_put", "read_only_done") \/ FinishReadOnly
           \/ VerifyRead \/ VerifyCompare \/ VerifyInterrupted
           \/ StrongVerificationFails \/ CompleteItem
  <2>1. \/ w'.pc = "items" \/ w'.pc \in PlainItemPcs \/ w'.pc = "grant_journal"
    BY <1>1, ItemMoves
  <2>2. PlainItemPcs \cup {"grant_journal"} \subseteq ItemPcs \cup {"completed"}
    BY DEF PlainItemPcs, ItemPcs, OutsideItems, TransferPcs, ItemSteps
  <2>3. QED
    BY <2>1, <2>2 DEF PlacesAfterTransfer
<1>2. CASE JournalGrant \/ ApplyReadOnly
  <2>1. w'.pc \in {"grant_put", "read_only_put"}
    BY <1>0, <1>2 DEF JournalGrant, ApplyReadOnly, WorkerStates
  <2>2. QED
    BY <2>1 DEF PlacesAfterTransfer, ItemPcs, OutsideItems, TransferPcs
<1>3. CASE \/ PutSourceCopyGrant \/ SyncCopy \/ SyncWrite
           \/ SyncInterrupted \/ RestoreGrantedPolicy \/ ClearGrantEffect
           \/ TransferFault \/ ExecuteItem
  <2>1. w'.pc \in {"items", "item", "sync_copy", "sync_write", "grant_restore",
                   "grant_clear", "sync_done"}
    BY <1>0, <1>3, RunMoves
       DEF PutSourceCopyGrant, SyncCopy, SyncWrite, SyncInterrupted,
           RestoreGrantedPolicy, ClearGrantEffect, TransferFault, FailItem,
           ExecuteItem
  <2>2. QED
    BY <2>1 DEF PlacesAfterTransfer, ItemPcs, OutsideItems, TransferPcs
<1>4. CASE \/ BeginTransfer \/ SeePause \/ PauseRun \/ SkipItem \/ ItemsDone
           \/ FinalCheck \/ FatalError
  <2>1. w'.pc \in {"items", "final", "pausing", "finalize", "idle"}
    BY <1>0, <1>4, RunMoves, OtherMoves
       DEF BeginTransfer, SeePause, PauseRun, SkipItem, ItemsDone, FinalCheck,
           FatalError
  <2>2. QED
    BY <2>1 DEF PlacesAfterTransfer
<1>5. CASE CreatorAccessRevoked \/ Revocation \/ RevokedGrantFault
  <2>1. w'.pc \in {"idle"} \cup RevokedPcs
    BY <1>0, <1>5, RunMoves, OtherMoves, RevokedApart
       DEF CreatorAccessRevoked, Revocation, RestoreRevokedGrant,
           ClearRevokedGrant, FailRevokedItem, RevokedAgain, RevokedRunEnds,
           RevokedGrantFault
  <2>2. QED
    BY <2>1 DEF PlacesAfterTransfer
<1>6. QED
  BY <1>1, <1>2, <1>3, <1>4, <1>5 DEF Transfer, TransferFaults

\* Checks stay within the checks, claims and commands outside both.
LEMMA OtherPlaces ==
    ASSUME ControlInv,
           \/ Preparation \/ PreparationFaults \/ Claim \/ ClaimPreparation
           \/ LeaseExpires \/ Crash
    PROVE  w'.pc \in CheckPcs \cup {"start", "recover"} \cup {"idle"} \cup RevokedPcs
<1>0. w \in WorkerStates
  BY PlaceFacts
<1>1. CASE CheckItem \/ JournalEffect \/ ApplyChange \/ UndoChange \/ ClearEffect
  BY <1>0, <1>1, WorkerMoves
     DEF CheckItem, JournalEffect, ApplyChange, UndoChange, ClearEffect,
         WorkerStates, CheckPcs
<1>2. CASE ReportChecks \/ CheckFault \/ ChecksInterrupted \/ Crash
  BY <1>0, <1>2, WorkerMoves DEF ReportChecks, CheckFault, ChecksInterrupted, Crash
<1>3. CASE Claim \/ ClaimPreparation \/ LeaseExpires
  BY <1>3, PlaceFacts DEF Claim, ClaimPreparation, LeaseExpires, IdleWorker
<1>4. QED
  BY <1>1, <1>2, <1>3 DEF Preparation, PreparationFaults

\* Commands and clients leave the worker alone.
LEMMA WorkerSame ==
    ASSUME Command \/ Client \/ UNCHANGED vars PROVE UNCHANGED w
  BY DEF Command, UpdateDraft, RequestPrecheck, PrecheckExpires,
     StartMigration, RequestPause, ResumeMigration, StopMigration,
     ContinueAfterPresync, Retry, RequestMaintenance, DeleteMigration,
     CommandAfterRevocation, Client, ClientWritesSource, ClientWritesTarget,
     OtherCreatesTarget, vars

LEMMA Waiting ==
    ASSUME ControlInv, Command \/ Client \/ UNCHANGED vars,
           w'.pc \notin {"idle"} \cup RevokedPcs
    PROVE  UNCHANGED <<w, item>> /\ (Client \/ UNCHANGED bucket)
<1>1. UNCHANGED w
  BY WorkerSame
<1>2. UNCHANGED item /\ (Client \/ UNCHANGED bucket)
  BY <1>1, QuietCommand DEF Client, ClientWritesSource, ClientWritesTarget,
     OtherCreatesTarget, vars
<1>3. QED
  BY <1>1, <1>2

\* Maintenance: a cleanup step, the end of a recovery, or anything else.
LEMMA MaintenancePlaces ==
    ASSUME ControlInv, Maintenance \/ MaintenanceFaults
    PROVE  \/ /\ CleanupStep /\ w'.pc \in CleanupPcs \cup {"idle"}
              /\ w'.pc \notin {"cleanup", "idle"} => w'.cur = w.cur
           \/ RecoveryDone /\ w'.pc \in {"release", "check_item"}
           \/ w'.pc \in {"idle", "recover", "recover_clear", "cleanup"}
<1>0. w \in WorkerStates
  BY PlaceFacts
<1>1. CASE BeginMaintenance \/ RecoverEffect \/ ClearRecoveredEffect
  BY <1>0, <1>1, RunMoves
     DEF BeginMaintenance, RecoverEffect, ClearRecoveredEffect, WorkerStates
<1>2. CASE RecoveryDone
  BY <1>0, <1>2 DEF RecoveryDone, WorkerStates
<1>3. CASE \/ FinishSourceCleanup \/ FinishTargetCleanup \/ CleanupFault
           \/ RecoveryFault \/ MaintenanceFault
  BY <1>0, <1>3, OtherMoves
     DEF FinishSourceCleanup, FinishTargetCleanup, RecoveryFault, CleanupFault,
         MaintenanceFault, CleanupRefused, FinishMaintenance
<1>4. CASE CleanupStep
  <2>1. CASE \/ CleanupLoop \/ PutTargetLock("cs_lock_put", "cs_target_hash")
             \/ PutReadOnly("cs_read_only_put", "cs_source_hash")
             \/ PutTargetLock("ct_lock_put", "ct_purge")
    BY <1>0, <1>4, <2>1, RunMoves, OtherMoves
       DEF CleanupLoop, PutTargetLock, PutReadOnly, FinishMaintenance, CleanupPcs
  <2>2. CASE CleanupLockTarget \/ CleanupHashTarget \/ CleanupReadOnly
    BY <1>0, <1>4, <2>2 DEF CleanupLockTarget, CleanupHashTarget, CleanupReadOnly,
       CleanupRefused, NextCleanup, Goto, CleanupPcs, WorkerStates
  <2>3. CASE \/ CleanupHashSource \/ CleanupCheckSource \/ CleanupPutPolicy
             \/ PurgeSource \/ RemoveSource \/ RecordSourceDeleted
             \/ CleanupUnlockTarget \/ PurgeTarget \/ RemoveTarget
    BY <1>0, <1>4, <2>3, RunMoves, OtherMoves
       DEF CleanupHashSource, CleanupCheckSource, CleanupPutPolicy,
           PurgeSource, RemoveSource, RecordSourceDeleted, CleanupUnlockTarget,
           PurgeTarget, RemoveTarget, CleanupRefused, CleanupPcs
  <2>4. CASE LockFailedTarget
    BY <1>0, <1>4, <2>4 DEF LockFailedTarget, CleanupRefused, NextCleanup, Goto,
                            CleanupPcs, WorkerStates
  <2>5. QED
    BY <1>4, <2>1, <2>2, <2>3, <2>4 DEF CleanupStep
<1>5. QED
  BY <1>1, <1>2, <1>3, <1>4 DEF Maintenance, MaintenanceFaults, CleanupStep

LEMMA CleanupEntered ==
    ASSUME ControlInv, [Next]_vars, w'.pc \in CleanupPcs \ {"cleanup"}
    PROVE  \/ UNCHANGED <<w, item>> /\ (Client \/ UNCHANGED bucket)
           \/ CleanupStep /\ w'.cur = w.cur
<1>0. w \in WorkerStates
  BY PlaceFacts
<1>1. CASE Command \/ Client \/ UNCHANGED vars
  BY <1>1, Waiting, RevokedApart
<1>2. CASE Transfer \/ TransferFaults \/ Revocation
  <2>1. ~CancelRun /\ ~Finalize
    BY <1>0, OtherMoves DEF CancelRun, Finalize, CleanupPcs
  <2>2. w'.pc \in PlacesAfterTransfer
    BY <1>2, <2>1, TransferPlaces
  <2>3. PlacesAfterTransfer \cap CleanupPcs = {}
    BY DEF PlacesAfterTransfer, ItemPcs, OutsideItems, TransferPcs, ItemSteps,
           RevokedPcs, CleanupPcs
  <2>4. QED
    BY <2>2, <2>3
<1>3. CASE \/ Preparation \/ PreparationFaults \/ Claim \/ ClaimPreparation
           \/ LeaseExpires \/ Crash
  BY <1>3, OtherPlaces, QuietPlaces, RevokedApart
<1>4. CASE Release \/ ReleaseFault
  <2>1. w'.pc \in {"idle", "release"}
    BY <1>0, <1>4, OtherMoves
       DEF Release, ReleaseFault, ReleaseProtection, CommitCanceled,
           CommitFinished, CommitRestored
  <2>2. QED
    BY <2>1, QuietPlaces
<1>5. CASE Maintenance \/ MaintenanceFaults
  <2>1. {"idle", "recover", "recover_clear", "release", "check_item"} \cap CleanupPcs = {}
    BY DEF CleanupPcs
  <2>2. QED
    BY <1>5, <2>1, MaintenancePlaces
<1>6. QED
  BY <1>1, <1>2, <1>3, <1>4, <1>5 DEF Next, Worker, Faults

LEMMA ReleaseEntered ==
    ASSUME ControlInv, [Next]_vars, w'.pc = "release"
    PROVE  \/ UNCHANGED <<w, item>> \/ CancelRun \/ Finalize \/ RecoveryDone
           \/ ReleaseProtection \/ ReleaseFault
<1>0. w \in WorkerStates
  BY PlaceFacts
<1>1. CASE Command \/ Client \/ UNCHANGED vars
  BY <1>1, Waiting DEF RevokedPcs
<1>2. CASE Transfer \/ TransferFaults \/ Revocation
  BY <1>2, TransferPlaces, QuietPlaces DEF PlacesAfterTransfer, RevokedPcs
<1>3. CASE \/ Preparation \/ PreparationFaults \/ Claim \/ ClaimPreparation
           \/ LeaseExpires \/ Crash
  BY <1>3, OtherPlaces DEF CheckPcs, RevokedPcs
<1>4. CASE Release \/ ReleaseFault
  BY <1>0, <1>4, OtherMoves
     DEF Release, CommitCanceled, CommitFinished, CommitRestored
<1>5. CASE Maintenance \/ MaintenanceFaults
  <2>1. "release" \notin CleanupPcs
    BY DEF CleanupPcs
  <2>2. QED
    BY <1>5, <2>1, MaintenancePlaces
<1>6. QED
  BY <1>1, <1>2, <1>3, <1>4, <1>5 DEF Next, Worker, Faults


(***************************************************************************)
(* Ownership.                                                              *)
(***************************************************************************)
\* Only a destination that this migration created has a record of a lock.
OwnRow(row) == row.locked \/ row.lock_backup # {} => row.created

\* A destination recorded as created, and one that a run works on or a release
\* is about to unlock, is not somebody else's bucket.
OwnInv ==
    /\ ProvenanceInv
    /\ \A i \in Items : OwnRow(item[i])
    /\ \A i \in Items : item[i].created => bucket[i].target_by # "other"
    /\ w.pc = "bucket_created" => Bk.target_by # "other"
    /\ w.pc \in CleanupPcs \ {"cleanup", "cs_lock"} => It.created
    /\ w.pc = "release" =>
         \A r \in w.todo : r.kind = "target" => item[r.item].created

KeepsOwn(row, old) == row.created = old.created /\ OwnRow(row)
SameOwners == \A i \in Items : KeepsOwn(item'[i], item[i])
KeepsReceipt(row, old) == row.receipt \in {old.receipt, NoReceipt}
SameReceipts == \A i \in Items : KeepsReceipt(item'[i], item[i])

\* The edits of a row that keep its provenance.
LEMMA OwnEdits ==
    ASSUME NEW old \in ItemRows, OwnRow(old), NEW v, NEW u
    PROVE  /\ KeepsOwn(old, old)
           /\ KeepsOwn([old EXCEPT !.status = v], old)
           /\ KeepsOwn([old EXCEPT !.step = v], old)
           /\ KeepsOwn([old EXCEPT !.receipt = v], old)
           /\ KeepsOwn([old EXCEPT !.effects = v], old)
           /\ KeepsOwn([old EXCEPT !.ro = u, !.ro_backup = v], old)
           /\ KeepsOwn([old EXCEPT !.status = v, !.step = u], old)
           /\ KeepsOwn([old EXCEPT !.effects = v, !.status = u], old)
           /\ KeepsOwn([old EXCEPT !.locked = FALSE, !.lock_backup = {}], old)
           /\ KeepsOwn([old EXCEPT !.status = "failed", !.locked = FALSE,
                                   !.lock_backup = {}], old)
           /\ KeepsOwn([old EXCEPT !.pre_sync_done = TRUE,
                                   !.status = "awaiting_cutover",
                                   !.step = "awaiting_cutover"], old)
           /\ KeepsOwn([old EXCEPT !.source_deleted = TRUE, !.ro = FALSE,
                                   !.ro_backup = {}], old)
           /\ old.created =>
                KeepsOwn([old EXCEPT !.locked = TRUE, !.lock_backup = v], old)
<1>1. /\ KeepsOwn(old, old)
      /\ KeepsOwn([old EXCEPT !.status = v], old)
      /\ KeepsOwn([old EXCEPT !.step = v], old)
      /\ KeepsOwn([old EXCEPT !.receipt = v], old)
      /\ KeepsOwn([old EXCEPT !.effects = v], old)
      /\ KeepsOwn([old EXCEPT !.ro = u, !.ro_backup = v], old)
  BY DEF ItemRows, KeepsOwn, OwnRow
<1>2. /\ KeepsOwn([old EXCEPT !.status = v, !.step = u], old)
      /\ KeepsOwn([old EXCEPT !.effects = v, !.status = u], old)
      /\ KeepsOwn([old EXCEPT !.pre_sync_done = TRUE,
                              !.status = "awaiting_cutover",
                              !.step = "awaiting_cutover"], old)
      /\ KeepsOwn([old EXCEPT !.source_deleted = TRUE, !.ro = FALSE,
                              !.ro_backup = {}], old)
  BY DEF ItemRows, KeepsOwn, OwnRow
<1>3. /\ KeepsOwn([old EXCEPT !.locked = FALSE, !.lock_backup = {}], old)
      /\ KeepsOwn([old EXCEPT !.status = "failed", !.locked = FALSE,
                              !.lock_backup = {}], old)
      /\ old.created =>
           KeepsOwn([old EXCEPT !.locked = TRUE, !.lock_backup = v], old)
  BY DEF ItemRows, KeepsOwn, OwnRow
<1>4. QED
  BY <1>1, <1>2, <1>3

\* Those that keep its receipt.
LEMMA ReceiptEdits ==
    ASSUME NEW old \in ItemRows, NEW v, NEW u
    PROVE  /\ KeepsReceipt(old, old)
           /\ KeepsReceipt([old EXCEPT !.status = v], old)
           /\ KeepsReceipt([old EXCEPT !.step = v], old)
           /\ KeepsReceipt([old EXCEPT !.created = v], old)
           /\ KeepsReceipt([old EXCEPT !.receipt = NoReceipt], old)
           /\ KeepsReceipt([old EXCEPT !.effects = v], old)
           /\ KeepsReceipt([old EXCEPT !.ro = u, !.ro_backup = v], old)
           /\ KeepsReceipt([old EXCEPT !.status = v, !.step = u], old)
           /\ KeepsReceipt([old EXCEPT !.effects = v, !.status = u], old)
           /\ KeepsReceipt([old EXCEPT !.locked = u, !.lock_backup = v], old)
           /\ KeepsReceipt([old EXCEPT !.status = "failed", !.locked = FALSE,
                                       !.lock_backup = {}], old)
           /\ KeepsReceipt([old EXCEPT !.pre_sync_done = TRUE,
                                       !.status = "awaiting_cutover",
                                       !.step = "awaiting_cutover"], old)
           /\ KeepsReceipt([old EXCEPT !.source_deleted = TRUE, !.ro = FALSE,
                                       !.ro_backup = {}], old)
           /\ KeepsReceipt([old EXCEPT !.created = FALSE, !.locked = FALSE,
                                       !.lock_backup = {}, !.pre_sync_done = FALSE,
                                       !.step = "create_bucket"], old)
  BY DEF ItemRows, KeepsReceipt

\* A step on the row of the item under way.
LEMMA OneRowOwn ==
    ASSUME OwnInv, NEW row, SetItem(row), w.cur \in Items, KeepsOwn(row, It)
    PROVE  SameOwners /\ (KeepsReceipt(row, It) => SameReceipts)
<1>1. item \in [Items -> ItemRows]
  BY PlaceFacts DEF OwnInv, ProvenanceInv
<1>2. \A i \in Items : item'[i] = IF i = w.cur THEN row ELSE item[i]
  BY <1>1 DEF SetItem
<1>3. QED
  BY <1>2 DEF SameOwners, SameReceipts, It, OwnInv, KeepsOwn, KeepsReceipt

\* The steps on a row, but for the two that write its provenance.
LEMMA RowStepsOwn ==
    ASSUME OwnInv, w.cur \in Items,
           \/ ExecuteItem \/ RunItem \/ ItemLoop \/ LookForTarget \/ CreateBucket
           \/ FinishCreateBucket \/ FinishCopyBucketSettings
           \/ ApplyTargetLock \/ FinishTargetLock \/ TargetLockRefused
           \/ JournalGrant \/ ClearGrantEffect
           \/ FinishSync \/ AwaitCutover \/ ApplyReadOnly \/ FinishReadOnly
           \/ VerifyRead \/ VerifyCompare \/ VerifyInterrupted
           \/ StrongVerificationFails \/ CompleteItem \/ TransferFault
           \/ ClearRevokedGrant \/ FailRevokedItem
           \/ CleanupLockTarget \/ CleanupReadOnly \/ CleanupHashSource
           \/ RecordSourceDeleted \/ FinishSourceCleanup \/ LockFailedTarget
           \/ ClearRecoveredEffect \/ JournalEffect \/ ClearEffect
    PROVE  SameOwners /\ (~CleanupHashSource => SameReceipts)
<1>0. It \in ItemRows /\ OwnRow(It)
  BY PlaceFacts DEF OwnInv, ProvenanceInv, It
<1>1. CASE UNCHANGED item
  BY <1>1 DEF SameOwners, SameReceipts, KeepsOwn, KeepsReceipt, OwnInv
<1>2. CASE \E v, u : \/ SetItem([It EXCEPT !.status = v])
                     \/ SetItem([It EXCEPT !.step = v])
                     \/ SetItem([It EXCEPT !.effects = v])
                     \/ SetItem([It EXCEPT !.ro = u, !.ro_backup = v])
                     \/ SetItem([It EXCEPT !.status = v, !.step = u])
                     \/ SetItem([It EXCEPT !.effects = v, !.status = u])
  <2>1. PICK v, u : \/ SetItem([It EXCEPT !.status = v])
                    \/ SetItem([It EXCEPT !.step = v])
                    \/ SetItem([It EXCEPT !.effects = v])
                    \/ SetItem([It EXCEPT !.ro = u, !.ro_backup = v])
                    \/ SetItem([It EXCEPT !.status = v, !.step = u])
                    \/ SetItem([It EXCEPT !.effects = v, !.status = u])
    BY <1>2
  <2>2. /\ KeepsOwn([It EXCEPT !.status = v], It)
        /\ KeepsOwn([It EXCEPT !.step = v], It)
        /\ KeepsOwn([It EXCEPT !.effects = v], It)
        /\ KeepsOwn([It EXCEPT !.ro = u, !.ro_backup = v], It)
        /\ KeepsOwn([It EXCEPT !.status = v, !.step = u], It)
        /\ KeepsOwn([It EXCEPT !.effects = v, !.status = u], It)
    BY <1>0, OwnEdits
  <2>3. /\ KeepsReceipt([It EXCEPT !.status = v], It)
        /\ KeepsReceipt([It EXCEPT !.step = v], It)
        /\ KeepsReceipt([It EXCEPT !.effects = v], It)
        /\ KeepsReceipt([It EXCEPT !.ro = u, !.ro_backup = v], It)
        /\ KeepsReceipt([It EXCEPT !.status = v, !.step = u], It)
        /\ KeepsReceipt([It EXCEPT !.effects = v, !.status = u], It)
    BY <1>0, ReceiptEdits
  <2>4. QED
    BY <2>1, <2>2, <2>3, OneRowOwn
<1>3. CASE \/ SetItem(It)
           \/ SetItem([It EXCEPT !.locked = FALSE, !.lock_backup = {}])
           \/ SetItem([It EXCEPT !.status = "failed", !.locked = FALSE,
                                 !.lock_backup = {}])
           \/ SetItem([It EXCEPT !.pre_sync_done = TRUE,
                                 !.status = "awaiting_cutover",
                                 !.step = "awaiting_cutover"])
           \/ SetItem([It EXCEPT !.source_deleted = TRUE, !.ro = FALSE,
                                 !.ro_backup = {}])
  <2>1. /\ KeepsOwn(It, It)
        /\ KeepsOwn([It EXCEPT !.locked = FALSE, !.lock_backup = {}], It)
        /\ KeepsOwn([It EXCEPT !.status = "failed", !.locked = FALSE,
                               !.lock_backup = {}], It)
        /\ KeepsOwn([It EXCEPT !.pre_sync_done = TRUE,
                               !.status = "awaiting_cutover",
                               !.step = "awaiting_cutover"], It)
        /\ KeepsOwn([It EXCEPT !.source_deleted = TRUE, !.ro = FALSE,
                               !.ro_backup = {}], It)
    BY <1>0, OwnEdits
  <2>2. /\ KeepsReceipt(It, It)
        /\ KeepsReceipt([It EXCEPT !.locked = FALSE, !.lock_backup = {}], It)
        /\ KeepsReceipt([It EXCEPT !.status = "failed", !.locked = FALSE,
                                   !.lock_backup = {}], It)
        /\ KeepsReceipt([It EXCEPT !.pre_sync_done = TRUE,
                                   !.status = "awaiting_cutover",
                                   !.step = "awaiting_cutover"], It)
        /\ KeepsReceipt([It EXCEPT !.source_deleted = TRUE, !.ro = FALSE,
                                   !.ro_backup = {}], It)
    BY <1>0, ReceiptEdits
  <2>3. QED
    BY <1>3, <2>1, <2>2, OneRowOwn
<1>4. CASE It.created /\ \E v : SetItem([It EXCEPT !.locked = TRUE, !.lock_backup = v])
  <2>1. PICK v : SetItem([It EXCEPT !.locked = TRUE, !.lock_backup = v])
    BY <1>4
  <2>2. /\ KeepsOwn([It EXCEPT !.locked = TRUE, !.lock_backup = v], It)
        /\ KeepsReceipt([It EXCEPT !.locked = TRUE, !.lock_backup = v], It)
    BY <1>0, <1>4, OwnEdits, ReceiptEdits
  <2>3. QED
    BY <2>1, <2>2, OneRowOwn
<1>5. CASE \/ ExecuteItem \/ ItemLoop \/ LookForTarget \/ CreateBucket
           \/ FinishCreateBucket \/ FinishCopyBucketSettings \/ FinishTargetLock
           \/ TargetLockRefused \/ JournalGrant \/ AwaitCutover \/ FinishReadOnly
           \/ VerifyRead \/ VerifyCompare \/ VerifyInterrupted
           \/ StrongVerificationFails \/ CompleteItem \/ TransferFault
           \/ ClearRevokedGrant \/ FailRevokedItem
  BY <1>1, <1>2, <1>3, <1>5
     DEF VerifyInterrupted, StrongVerificationFails, CompleteItem,
         ClearRevokedGrant, FailRevokedItem, ExecuteItem, ItemLoop,
         LookForTarget, CreateBucket, FinishCreateBucket, FinishCopyBucketSettings,
         FinishTargetLock, TargetLockRefused,
         JournalGrant, AwaitCutover, FinishReadOnly, VerifyRead, VerifyCompare,
         TransferFault, FailItem, AdvanceTo, StopInterruptedItem
<1>6. CASE RunItem \/ ApplyTargetLock
  <2>1. ApplyTargetLock => It.created
    BY DEF ApplyTargetLock, OwnInv, ProvenanceInv, CreatedPlaces, ItemPcs, OutsideItems,
           TransferPcs, ItemSteps, EarlyPcs
  <2>2. QED
    BY <1>1, <1>4, <1>6, <2>1 DEF RunItem, ApplyTargetLock, JournalTargetLock
<1>7. CASE CleanupLockTarget \/ LockFailedTarget
  <2>1. LockFailedTarget => It.created
    BY DEF LockFailedTarget, OwnInv, CleanupPcs
  <2>2. QED
    BY <1>1, <1>4, <1>7, <2>1
       DEF CleanupLockTarget, LockFailedTarget, JournalTargetLock, CleanupRefused
<1>8. CASE FinishSync \/ ApplyReadOnly \/ CleanupReadOnly
  BY <1>1, <1>2, <1>3, <1>8
     DEF FinishSync, StopInterruptedItem, ApplyReadOnly, CleanupReadOnly,
         JournalReadOnly, CleanupRefused
<1>9. CASE RecordSourceDeleted \/ FinishSourceCleanup
  BY <1>3, <1>9 DEF RecordSourceDeleted, FinishSourceCleanup
<1>a. CASE CleanupHashSource
  <2>1. KeepsOwn([It EXCEPT !.receipt = w.snap], It)
    BY <1>0, OwnEdits
  <2>2. QED
    BY <1>1, <1>a, <2>1, OneRowOwn DEF CleanupHashSource, CleanupRefused
<1>10. CASE ClearRecoveredEffect
  BY <1>2, <1>10 DEF ClearRecoveredEffect
<1>11. CASE JournalEffect
  BY <1>1, <1>2, <1>11 DEF JournalEffect
<1>12. CASE ClearEffect
  BY <1>2, <1>12 DEF ClearEffect
<1>13. CASE ClearGrantEffect
  <2> DEFINE row == [It EXCEPT !.effects =
                       {e \in It.effects : e.name # "source_copy_grant"}]
             failed == [row EXCEPT !.status = "failed"]
  <2>1. KeepsOwn(row, It) /\ KeepsOwn(failed, It)
    BY <1>0 DEF ItemRows, KeepsOwn, OwnRow
  <2>a. KeepsReceipt(row, It) /\ KeepsReceipt(failed, It)
    BY <1>0 DEF ItemRows, KeepsReceipt
  <2>2. SetItem(row) \/ SetItem(failed)
    BY <1>13 DEF ClearGrantEffect
  <2> HIDE DEF row, failed
  <2>3. QED
    BY <2>1, <2>a, <2>2, OneRowOwn
<1>14. QED
  BY <1>5, <1>6, <1>7, <1>8, <1>9, <1>a, <1>10, <1>11, <1>12, <1>13

\* The steps on many rows.
LEMMA ManyRowsOwn ==
    ASSUME OwnInv,
           \/ PauseRun \/ FatalError \/ Command
           \/ CommitCanceled \/ CommitFinished \/ CommitRestored
    PROVE  SameOwners /\ SameReceipts
<1>0. item \in [Items -> ItemRows]
  BY PlaceFacts DEF OwnInv, ProvenanceInv
<1>1. CASE UNCHANGED item
  BY <1>1 DEF SameOwners, SameReceipts, KeepsOwn, KeepsReceipt, OwnInv
<1> SUFFICES ASSUME NEW i \in Items, ~UNCHANGED item
             PROVE  KeepsOwn(item'[i], item[i]) /\ KeepsReceipt(item'[i], item[i])
  BY <1>1 DEF SameOwners, SameReceipts
<1>2. item[i] \in ItemRows /\ OwnRow(item[i])
  BY <1>0 DEF OwnInv
<1>3. CASE PauseRun \/ FatalError \/ ResumeMigration \/ ContinueAfterPresync
  <2>1. \/ item'[i] = item[i]
        \/ \E v \in ItemStatuses : item'[i] = [item[i] EXCEPT !.status = v]
        \/ item'[i] = [item[i] EXCEPT !.status = "pending", !.step = "apply_read_only"]
    BY <1>3 DEF PauseRun, FatalError, ResumeMigration, ContinueAfterPresync,
                ItemStatuses
  <2>2. /\ \A v \in ItemStatuses : KeepsOwn([item[i] EXCEPT !.status = v], item[i])
        /\ KeepsOwn([item[i] EXCEPT !.status = "pending",
                                    !.step = "apply_read_only"], item[i])
        /\ KeepsOwn(item[i], item[i])
    BY <1>2, OwnEdits
  <2>3. /\ \A v \in ItemStatuses : KeepsReceipt([item[i] EXCEPT !.status = v], item[i])
        /\ KeepsReceipt([item[i] EXCEPT !.status = "pending",
                                        !.step = "apply_read_only"], item[i])
        /\ KeepsReceipt(item[i], item[i])
    BY <1>2, ReceiptEdits
  <2>4. QED
    BY <2>1, <2>2, <2>3
<1>4. ASSUME NEW S, Retry(S)
      PROVE  KeepsOwn(item'[i], item[i]) /\ KeepsReceipt(item'[i], item[i])
  <2>1. \/ item'[i] = item[i]
        \/ item'[i] = [item[i] EXCEPT !.status = "pending",
                         !.step = RetryStepForFailedItem(item[i].step)]
    BY <1>4 DEF Retry
  <2>2. /\ KeepsOwn([item[i] EXCEPT !.status = "pending",
                       !.step = RetryStepForFailedItem(item[i].step)], item[i])
        /\ KeepsOwn(item[i], item[i])
    BY <1>2, OwnEdits
  <2>3. /\ KeepsReceipt([item[i] EXCEPT !.status = "pending",
                           !.step = RetryStepForFailedItem(item[i].step)], item[i])
        /\ KeepsReceipt(item[i], item[i])
    BY <1>2, ReceiptEdits
  <2>4. QED
    BY <2>1, <2>2, <2>3
<1>5. ASSUME NEW o \in Options, UpdateDraft(o)
      PROVE  KeepsOwn(item'[i], item[i]) /\ KeepsReceipt(item'[i], item[i])
  <2>1. item'[i] = [item[i] EXCEPT !.status = "pending", !.step = "create_bucket",
                                  !.pre_sync_done = FALSE,
                                  !.ro = FALSE, !.ro_backup = {},
                                  !.locked = FALSE, !.lock_backup = {}]
    BY <1>5 DEF UpdateDraft
  <2>2. QED
    BY <1>2, <2>1 DEF KeepsOwn, KeepsReceipt, OwnRow, ItemRows
<1>6. CASE CommitCanceled \/ CommitFinished \/ CommitRestored
  <2> DEFINE row == Unprotected(i)
  <2>1. row \in ItemRows /\ row.created = item[i].created /\ OwnRow(row)
        /\ row.receipt = item[i].receipt
    BY <1>0, <1>2, UnprotectedRow DEF OwnRow
  <2>2. \/ item'[i] = row
        \/ item'[i] = [row EXCEPT !.receipt = NoReceipt]
        \/ item'[i] = [row EXCEPT !.status = "canceled"]
    BY <1>6 DEF CommitCanceled, CommitFinished, CommitRestored
  <2> HIDE DEF row
  <2>3. /\ KeepsOwn([row EXCEPT !.receipt = NoReceipt], row)
        /\ KeepsOwn([row EXCEPT !.status = "canceled"], row)
        /\ KeepsReceipt([row EXCEPT !.receipt = NoReceipt], row)
        /\ KeepsReceipt([row EXCEPT !.status = "canceled"], row)
    BY <2>1, OwnEdits, ReceiptEdits
  <2>4. QED
    BY <2>1, <2>2, <2>3 DEF KeepsOwn, KeepsReceipt
<1>7. CASE Command
  BY <1>3, <1>4, <1>5, <1>7
     DEF Command, RequestPrecheck, PrecheckExpires, StartMigration, RequestPause,
         StopMigration, RequestMaintenance, DeleteMigration, CommandAfterRevocation
<1>8. QED
  BY <1>3, <1>6, <1>7

\* Every step but the two that write the provenance keeps it.
LEMMA OwnersKept ==
    ASSUME OwnInv, [Next]_vars, ~RecordTargetCreated, ~FinishTargetCleanup
    PROVE  SameOwners /\ (~CleanupHashSource => SameReceipts)
<1>0. ControlInv /\ w \in WorkerStates
  BY PlaceFacts DEF OwnInv, ProvenanceInv
<1>1. CASE UNCHANGED item
  BY <1>1 DEF SameOwners, SameReceipts, KeepsOwn, KeepsReceipt, OwnInv
<1>2. CASE Command
  BY <1>2, ManyRowsOwn
<1>3. CASE Transfer \/ TransferFaults \/ Revocation
  <2>1. CASE \/ ExecuteItem \/ RunItem \/ ItemLoop \/ LookForTarget \/ CreateBucket
             \/ FinishCreateBucket \/ FinishCopyBucketSettings
             \/ ApplyTargetLock \/ FinishTargetLock \/ TargetLockRefused
             \/ JournalGrant \/ ClearGrantEffect
             \/ FinishSync \/ AwaitCutover \/ ApplyReadOnly \/ FinishReadOnly
             \/ VerifyRead \/ VerifyCompare \/ VerifyInterrupted
             \/ StrongVerificationFails \/ CompleteItem \/ TransferFault
    <3>1. ExecuteItem \/ w.pc \in ItemPcs
      BY <2>1 DEF RunItem, ItemLoop, LookForTarget, CreateBucket,
         FinishCreateBucket, FinishCopyBucketSettings, ApplyTargetLock,
         FinishTargetLock, TargetLockRefused, JournalGrant, ClearGrantEffect,
         FinishSync, AwaitCutover, ApplyReadOnly, FinishReadOnly, VerifyRead,
         VerifyCompare, VerifyInterrupted, StrongVerificationFails,
         CompleteItem, TransferFault, ItemPcs, OutsideItems, TransferPcs, ItemSteps
    <3>2. w.cur \in Items
      BY <1>0, <3>1, LoopIndex, PlaceFacts DEF ExecuteItem, WorkerStates
    <3>3. QED
      BY <2>1, <3>2, RowStepsOwn
  <2>2. CASE PauseRun \/ FatalError
    BY <2>2, ManyRowsOwn
  <2>4. CASE ClearRevokedGrant \/ FailRevokedItem
    <3>1. w.pc \in RevokedPcs \ {"revoked"}
      BY <2>4 DEF ClearRevokedGrant, FailRevokedItem, RevokedPcs
    <3>2. QED
      BY <1>0, <2>4, <3>1, PlaceFacts, RowStepsOwn
  <2>3. QED
    BY <1>1, <1>3, <2>1, <2>2, <2>4
       DEF Transfer, TransferFaults, Revocation, BeginTransfer, CancelRun,
           SeePause, SkipItem, ItemsDone, FinalCheck,
           PutTargetLock, CopyBucketSettings, BeginSync,
           PutSourceCopyGrant, SyncCopy, SyncWrite, SyncInterrupted,
           RestoreGrantedPolicy, PutReadOnly, Finalize, CreatorAccessRevoked,
           RestoreRevokedGrant, RevokedAgain, RevokedRunEnds, RevokedGrantFault
<1>4. CASE Release \/ ReleaseFault
  BY <1>1, <1>4, ManyRowsOwn DEF Release, ReleaseFault, ReleaseProtection
<1>5. CASE \/ Maintenance \/ MaintenanceFaults \/ Preparation \/ PreparationFaults
  <2>1. CASE \/ CleanupLockTarget \/ CleanupReadOnly \/ CleanupHashSource
             \/ RecordSourceDeleted \/ FinishSourceCleanup \/ LockFailedTarget
             \/ ClearRecoveredEffect \/ JournalEffect \/ ClearEffect
    <3>1. w.pc \notin FreePcs
      BY <2>1 DEF CleanupLockTarget, CleanupReadOnly, CleanupHashSource,
         RecordSourceDeleted, FinishSourceCleanup, LockFailedTarget,
         ClearRecoveredEffect, JournalEffect, ClearEffect, FreePcs
    <3>2. w.cur \in Items
      BY <1>0, <3>1 DEF ControlInv, TypeInv, CurOK
    <3>3. QED
      BY <2>1, <3>2, RowStepsOwn
  <2>2. QED
    BY <1>1, <1>5, <2>1
       DEF Maintenance, MaintenanceFaults, Preparation, PreparationFaults,
           BeginMaintenance, RecoverEffect, RecoveryDone, CleanupLoop,
           PutTargetLock, PutReadOnly, CleanupHashTarget, CleanupCheckSource,
           CleanupPutPolicy, PurgeSource, RemoveSource, CleanupUnlockTarget,
           PurgeTarget, RemoveTarget, RecoveryFault, CleanupFault,
           MaintenanceFault, CleanupRefused, CheckItem, ApplyChange, UndoChange,
           ReportChecks, CheckFault, ChecksInterrupted
<1>6. CASE \/ Claim \/ ClaimPreparation \/ LeaseExpires \/ Crash \/ Client
           \/ UNCHANGED vars
  BY <1>1, <1>6 DEF Claim, ClaimPreparation, LeaseExpires, Crash, Client,
     ClientWritesSource, ClientWritesTarget, OtherCreatesTarget, vars
<1>7. QED
  BY <1>2, <1>3, <1>4, <1>5, <1>6 DEF Next, Worker, Faults

\* The engine writes only to destinations of its own, and makes no bucket
\* somebody else's.
LEMMA OwnTargets ==
    ASSUME OwnInv, [Next]_vars, NEW i \in Items
    PROVE  /\ bucket[i].target_by = "other" => KeepsTarget(bucket'[i], bucket[i])
           /\ bucket'[i].target_by = "other" =>
                \/ bucket[i].target_by = "other"
                \/ Client /\ bucket[i].target_by = "nobody"
                          /\ (item[i].created => NameReuse)
<1>0. ProvenanceInv /\ ControlInv
  BY DEF OwnInv, ProvenanceInv
<1>1. CASE SameTargets
  BY <1>1 DEF SameTargets, KeepsTarget
<1>2. CASE TargetStep
  <2>1. CASE i # w.cur
    BY <1>0, <1>2, <2>1, TargetStepFacts DEF KeepsTarget
  <2>2. CASE i = w.cur
    <3>1. /\ w.cur \in Items /\ bucket \in [Items -> BucketStates]
          /\ Bk = bucket[w.cur] /\ Bk \in BucketStates
      BY <1>0, <1>2, TargetStepFacts, PlaceFacts DEF Bk
    <3>2. \/ UNCHANGED bucket \/ Bk.target_by = "nobody" \/ It.created
      <4>1. CASE CreateBucket
        BY <4>1 DEF CreateBucket
      <4>2. CASE CleanupLockTarget
        BY <4>2 DEF CleanupLockTarget, CleanupRefused
      <4>3. CASE ~CreateBucket /\ ~CleanupLockTarget
        <5>1. \/ w.pc \in ItemPcs \ EarlyPcs \/ w.pc = "relock_put"
              \/ w.pc \in CleanupPcs \ {"cleanup", "cs_lock"}
          BY <1>2, <4>3
             DEF TargetStep, CopyBucketSettings, PutTargetLock,
                 TargetLockRefused, SyncCopy, SyncWrite, CleanupUnlockTarget,
                 PurgeTarget, RemoveTarget, LockPcs, ItemPcs, OutsideItems, EarlyPcs,
                 TransferPcs, ItemSteps, CleanupPcs
        <5>2. QED
          BY <1>0, <5>1 DEF OwnInv, ProvenanceInv, CreatedPlaces
      <4>4. QED
        BY <4>1, <4>2, <4>3
    <3>3. \/ UNCHANGED bucket \/ Bk.target_by # "other"
      BY <3>1, <3>2 DEF OwnInv, It
    <3>4. \/ bucket'[i].target_by = bucket[i].target_by
          \/ bucket'[i].target_by \in {"migration", "nobody"}
      <4>1. \/ UNCHANGED bucket
            \/ \E v : \/ SetBucket([Bk EXCEPT !.target_policy = v])
                      \/ SetBucket([Bk EXCEPT !.target = v])
            \/ SetBucket([Bk EXCEPT !.target_by = "migration",
                                    !.target_policy = {}, !.target = Empty])
            \/ SetBucket([Bk EXCEPT !.target_by = "nobody", !.target_policy = {}])
        BY <1>2 DEF TargetStep, CreateBucket, CopyBucketSettings, PutTargetLock,
           TargetLockRefused, SyncCopy, SyncWrite, CleanupLockTarget,
           CleanupRefused, CleanupUnlockTarget, PurgeTarget, RemoveTarget
      <4>2. QED
        BY <2>2, <3>1, <4>1 DEF SetBucket, BucketStates
    <3>5. QED
      BY <2>2, <3>1, <3>3, <3>4 DEF KeepsTarget
  <2>3. QED
    BY <2>1, <2>2
<1>3. CASE ReleaseProtection \/ ReleaseFault
  <2>1. PICK r \in w.todo :
           /\ r.item \in Items
           /\ \A j \in Items : j # r.item => bucket'[j] = bucket[j]
           /\ bucket'[r.item].target = bucket[r.item].target
           /\ bucket'[r.item].target_by = bucket[r.item].target_by
           /\ r.kind = "source" =>
                bucket'[r.item].target_policy = bucket[r.item].target_policy
    BY <1>0, <1>3, ReleaseSteps
  <2>2. r.kind \in {"source", "target"}
    BY <1>0, PlaceFacts DEF WorkerStates, Releases
  <2>3. r.kind = "target" => bucket[r.item].target_by # "other"
    BY <1>3, <2>1 DEF ReleaseProtection, ReleaseFault, OwnInv
  <2>4. QED
    BY <2>1, <2>2, <2>3 DEF KeepsTarget
<1>4. CASE Client
  BY <1>0, <1>4, ClientSteps DEF KeepsTarget
<1>5. QED
  BY <1>0, <1>1, <1>2, <1>3, <1>4, TargetSteps

\* What a release remembers.
LEMMA DropMoves ==
    ASSUME w \in WorkerStates
    PROVE  \A r, ok : Drop(r, ok) =>
             /\ w'.pc = w.pc /\ w'.then = w.then /\ w'.todo = w.todo \ {r}
             /\ w'.released = (IF ok THEN w.released \cup {r} ELSE w.released)
             /\ w'.err = (w.err \/ ~ok)
<1> SUFFICES ASSUME NEW r, NEW ok, Drop(r, ok)
             PROVE  /\ w'.pc = w.pc /\ w'.then = w.then /\ w'.todo = w.todo \ {r}
                    /\ w'.released = (IF ok THEN w.released \cup {r} ELSE w.released)
                    /\ w'.err = (w.err \/ ~ok)
  OBVIOUS
<1> DEFINE released == IF ok THEN w.released \cup {r} ELSE w.released
           err == w.err \/ ~ok
           flushed == w.then # "restore"
<1>1. w' = [w EXCEPT !.todo = w.todo \ {r}, !.released = released, !.err = err,
                     !.flushed = flushed]
  BY DEF Drop
<1> HIDE DEF released, err, flushed
<1>2. /\ w'.pc = w.pc /\ w'.then = w.then /\ w'.todo = w.todo \ {r}
      /\ w'.released = released /\ w'.err = err
  BY <1>1 DEF WorkerStates
<1>3. QED
  BY <1>2 DEF released, err

LEMMA OwnNext == ~NameReuse /\ OwnInv /\ [Next]_vars => OwnInv'
<1> SUFFICES ASSUME ~NameReuse, OwnInv, [Next]_vars PROVE OwnInv'
  OBVIOUS
<1>0. ProvenanceInv /\ ControlInv /\ ProvenanceInv' /\ ControlInv'
  BY ProvenanceNext DEF OwnInv, ProvenanceInv
<1>1. /\ w \in WorkerStates /\ item \in [Items -> ItemRows]
      /\ w' \in WorkerStates
  BY <1>0, PlaceFacts DEF ControlInv, TypeInv, TypeOK
<1>2. CASE RecordTargetCreated
  <2>1. /\ w.pc = "bucket_created" /\ UNCHANGED bucket /\ w'.pc = "bucket_ready"
        /\ SetItem([It EXCEPT !.created = TRUE])
    BY <1>1, <1>2, RunMoves DEF RecordTargetCreated
  <2>2. w.cur \in Items
    BY <1>0, <2>1, PlaceFacts DEF ItemPcs, OutsideItems, TransferPcs
  <2>3. It \in ItemRows /\ It = item[w.cur] /\ Bk = bucket[w.cur]
    BY <1>1, <2>2 DEF It, Bk
  <2>4. OwnRow([It EXCEPT !.created = TRUE])
    BY <2>3 DEF OwnRow, ItemRows
  <2>5. \A i \in Items : item'[i] = IF i = w.cur THEN [It EXCEPT !.created = TRUE]
                                    ELSE item[i]
    BY <1>1, <2>1, <2>2 DEF SetItem
  <2>6. \A i \in Items : OwnRow(item'[i])
    BY <2>4, <2>5 DEF OwnInv
  <2>7. \A i \in Items : item'[i].created => bucket'[i].target_by # "other"
    BY <2>1, <2>3, <2>5 DEF OwnInv
  <2>8. w'.pc \notin CleanupPcs /\ w'.pc \notin {"release", "bucket_created"}
    BY <2>1 DEF CleanupPcs
  <2>9. QED
    BY <1>0, <2>6, <2>7, <2>8 DEF OwnInv
<1>3. CASE FinishTargetCleanup
  <2> DEFINE row == [It EXCEPT !.created = FALSE, !.locked = FALSE,
                               !.lock_backup = {}, !.pre_sync_done = FALSE,
                               !.step = "create_bucket"]
  <2>1. /\ w.pc = "ct_finish" /\ UNCHANGED bucket /\ w'.pc = "cleanup"
        /\ UNCHANGED item \/ SetItem(row)
    BY <1>1, <1>3, OtherMoves DEF FinishTargetCleanup, CleanupRefused
  <2>2. w.cur \in Items
    BY <1>0, <2>1, PlaceFacts DEF CleanupPcs
  <2>3. It \in ItemRows
    BY <1>1, <2>2 DEF It
  <2>4. OwnRow(row) /\ row.created = FALSE
    BY <2>3 DEF OwnRow, ItemRows
  <2> HIDE DEF row
  <2>5. \A i \in Items : item'[i] = item[i] \/ item'[i] = row
    BY <1>1, <2>1, <2>2 DEF SetItem
  <2>6. QED
    BY <1>0, <2>1, <2>4, <2>5 DEF OwnInv
<1>4. CASE ~RecordTargetCreated /\ ~FinishTargetCleanup
  <2>1. SameOwners
    BY <1>4, OwnersKept
  <2>2. \A i \in Items : OwnRow(item'[i]) /\ item'[i].created = item[i].created
    BY <2>1 DEF SameOwners, KeepsOwn
  <2>3. \A i \in Items : item'[i].created => bucket'[i].target_by # "other"
    BY <2>2, OwnTargets DEF OwnInv
  <2>4. w'.pc = "bucket_created" => Bk'.target_by # "other"
    <3> SUFFICES ASSUME w'.pc = "bucket_created" PROVE Bk'.target_by # "other"
      OBVIOUS
    <3>1. w'.pc \in ItemPcs
      BY DEF ItemPcs, OutsideItems, TransferPcs
    <3>2. /\ w'.cur = w.cur /\ w.cur \in Items
          /\ CreateBucket \/ UNCHANGED w
      BY <1>0, <3>1, ItemEntered
    <3>3. bucket[w.cur].target_by # "other"
      <4>1. CASE CreateBucket
        <5>1. w.pc # "bucket_created" \/ Bk.target_by = "nobody"
          BY <4>1 DEF CreateBucket
        <5>2. w.pc = "bucket_absent"
          BY <4>1 DEF CreateBucket
        <5>3. FailItem => w'.pc = "items"
          BY <1>1, RunMoves DEF FailItem
        <5>4. QED
          BY <4>1, <5>3 DEF CreateBucket, Bk
      <4>2. CASE UNCHANGED w
        BY <4>2 DEF OwnInv, Bk
      <4>3. QED
        BY <3>2, <4>1, <4>2
    <3>4. CASE CreateBucket
      <4>1. ~Client
        BY <1>1, <3>4, RunMoves DEF CreateBucket, Client, ClientWritesSource,
           ClientWritesTarget, OtherCreatesTarget
      <4>2. QED
        BY <3>2, <3>3, <4>1, OwnTargets DEF Bk
    <3>5. CASE UNCHANGED w
      <4>1. bucket[w.cur].target_by # "nobody"
        BY <1>0, <3>5 DEF ProvenanceInv, CreatedPlaces, Exists, Bk
      <4>2. QED
        BY <3>2, <3>3, <4>1, OwnTargets DEF Bk
    <3>6. QED
      BY <3>2, <3>4, <3>5
  <2>5. w'.pc \in CleanupPcs \ {"cleanup", "cs_lock"} => It'.created
    <3> SUFFICES ASSUME w'.pc \in CleanupPcs \ {"cleanup", "cs_lock"}
                 PROVE  It'.created
      OBVIOUS
    <3>1. UNCHANGED w \/ (CleanupStep /\ w'.cur = w.cur)
      BY <1>0, CleanupEntered
    <3>2. w'.cur \in Items /\ w'.cur = w.cur
      BY <1>0, <3>1 DEF ControlInv, TypeInv, CurOK, FreePcs, CleanupPcs
    <3>3. It.created
      <4>1. CASE UNCHANGED w
        BY <4>1 DEF OwnInv
      <4>2. CASE w.pc = "cleanup" /\ CleanupStep
        <5>1. CleanupLoop
          BY <4>2 DEF CleanupStep, CleanupLockTarget, PutTargetLock, CleanupHashTarget,
             CleanupReadOnly, PutReadOnly, CleanupHashSource, CleanupCheckSource,
             CleanupPutPolicy, PurgeSource, RemoveSource, RecordSourceDeleted,
             CleanupUnlockTarget, LockFailedTarget, PurgeTarget, RemoveTarget
        <5>2. /\ NextCleanup(FALSE) => w'.pc = "cleanup"
              /\ Goto("cs_lock") => w'.pc = "cs_lock"
              /\ w' = IdleWorker => w'.pc \notin CleanupPcs
          BY <1>1, RunMoves, OtherMoves DEF CleanupPcs
        <5>3. Selected(w.cur) /\ mig.operation # "cleanup_source"
          BY <5>1, <5>2 DEF CleanupLoop, FinishMaintenance
        <5>4. QED
          BY <5>3 DEF Selected, It
      <4>3. CASE w.pc = "cs_lock" /\ CleanupStep
        <5>1. CleanupLockTarget
          BY <4>3 DEF CleanupStep, CleanupLoop, PutTargetLock, CleanupHashTarget,
             CleanupReadOnly, PutReadOnly, CleanupHashSource, CleanupCheckSource,
             CleanupPutPolicy, PurgeSource, RemoveSource, RecordSourceDeleted,
             CleanupUnlockTarget, LockFailedTarget, PurgeTarget, RemoveTarget
        <5>2. ~CleanupRefused
          BY <1>1, OtherMoves DEF CleanupRefused
        <5>3. QED
          BY <5>1, <5>2 DEF CleanupLockTarget
      <4>4. CASE w.pc \notin {"cleanup", "cs_lock"} /\ CleanupStep
        <5>1. w.pc \in CleanupPcs
          BY <4>4 DEF CleanupStep, CleanupLoop, CleanupLockTarget, PutTargetLock,
             CleanupHashTarget, CleanupReadOnly, PutReadOnly, CleanupHashSource,
             CleanupCheckSource, CleanupPutPolicy, PurgeSource, RemoveSource,
             RecordSourceDeleted, CleanupUnlockTarget, LockFailedTarget,
             PurgeTarget, RemoveTarget, CleanupPcs
        <5>2. QED
          BY <4>4, <5>1 DEF OwnInv
      <4>5. QED
        BY <3>1, <4>1, <4>2, <4>3, <4>4
    <3>4. QED
      BY <2>2, <3>2, <3>3 DEF It
  <2>6. w'.pc = "release" =>
          \A r \in w'.todo : r.kind = "target" => item'[r.item].created
    <3> SUFFICES ASSUME w'.pc = "release", NEW r \in w'.todo, r.kind = "target"
                 PROVE  item'[r.item].created
      OBVIOUS
    <3>1. r.item \in Items
      BY <1>1 DEF WorkerStates, Releases
    <3>2. item[r.item].created
      <4>1. CASE UNCHANGED w
        BY <4>1 DEF OwnInv
      <4>2. CASE CancelRun \/ Finalize \/ RecoveryDone
        <5>1. w'.todo \subseteq AllProtections
          <6>1. CASE CancelRun
            BY <1>1, <6>1 DEF CancelRun, StartRelease, WorkerStates
          <6>2. CASE Finalize
            <7>1. w' # IdleWorker
              BY DEF IdleWorker
            <7>2. w'.todo = TargetsToRelease(Items \ With({"awaiting_cutover"}))
              BY <1>1, <6>2, <7>1 DEF Finalize, StartRelease, WorkerStates
            <7>3. QED
              BY <7>2 DEF TargetsToRelease, AllProtections
          <6>3. CASE RecoveryDone
            BY <1>1, <6>3 DEF RecoveryDone, WorkerStates
          <6>4. QED
            BY <4>2, <6>1, <6>2, <6>3
        <5>2. r \in TargetsToRelease(Items)
          BY <5>1 DEF AllProtections, SourcesToRelease
        <5>3. item[r.item].locked \/ item[r.item].lock_backup # {}
          BY <5>2 DEF TargetsToRelease
        <5>4. QED
          BY <3>1, <5>3 DEF OwnInv, OwnRow
      <4>3. CASE ReleaseProtection \/ ReleaseFault
        <5>1. w'.todo \subseteq w.todo /\ w.pc = "release"
          BY <1>1, <4>3, DropMoves DEF ReleaseProtection, ReleaseFault
        <5>2. QED
          BY <5>1 DEF OwnInv
      <4>4. QED
        BY <1>0, <4>1, <4>2, <4>3, ReleaseEntered
    <3>3. QED
      BY <2>2, <3>1, <3>2
  <2>7. QED
    BY <1>0, <2>2, <2>3, <2>4, <2>5, <2>6 DEF OwnInv
<1>5. QED
  BY <1>2, <1>3, <1>4

LEMMA OwnInit == Init => OwnInv
<1> SUFFICES ASSUME Init PROVE OwnInv
  OBVIOUS
<1>1. ProvenanceInv /\ w.pc = "idle"
  BY ProvenanceInit DEF Init, IdleWorker
<1>2. \A i \in Items : item[i].locked = FALSE /\ item[i].lock_backup = {}
                       /\ item[i].created = FALSE
  BY DEF Init, DraftItem
<1>3. "idle" \notin CleanupPcs
  BY QuietPlaces
<1>4. QED
  BY <1>1, <1>2, <1>3 DEF OwnInv, OwnRow

\* A bucket that belongs to somebody else is never written, locked, unlocked or
\* deleted: not by a transfer that finds the name taken between two steps, not
\* by the release of a lock, not by the cleanup of failed destinations.  As long
\* as nobody takes the name of a destination that disappeared after its creation
\* was recorded; with NameReuse the property is false.
THEOREM ForeignTargetUntouchedAlways ==
    ~NameReuse /\ Spec => ForeignTargetUntouched
<1>1. OwnInv /\ [Next]_vars =>
        [\A i \in Items :
           bucket[i].target_by = "other" =>
             /\ bucket'[i].target_by = "other"
             /\ bucket'[i].target = bucket[i].target
             /\ bucket'[i].target_policy = bucket[i].target_policy]_vars
  BY OwnTargets DEF KeepsTarget
<1>2. Init => OwnInv
  BY OwnInit
<1>3. ~NameReuse /\ OwnInv /\ [Next]_vars => OwnInv'
  BY OwnNext
<1> SUFFICES ASSUME ~NameReuse PROVE Spec => ForeignTargetUntouched
  OBVIOUS
<1>4. QED
  BY <1>1, <1>2, <1>3, PTL DEF Spec, ForeignTargetUntouched

(***************************************************************************)
(* Restored access.                                                        *)
(***************************************************************************)
\* A restore_access releases after the recovery, and everything it has not
\* released is still to do, unless it has an error to report.
RestoreInv ==
    /\ SourceInv
    /\ w.pc = "release" /\ w.then = "restore" =>
         /\ \A i \in Items : item[i].effects = {}
         /\ ~w.err => AllProtections \subseteq w.todo \cup w.released

LEMMA RestoreNext == NoGrants /\ RestoreInv /\ [Next]_vars => RestoreInv'
<1> SUFFICES ASSUME NoGrants, RestoreInv, [Next]_vars PROVE RestoreInv'
  OBVIOUS
<1>0. /\ SourceInv' /\ ControlInv /\ w \in WorkerStates
  BY SourceNext, SourceFacts DEF RestoreInv
<1> SUFFICES ASSUME w'.pc = "release", w'.then = "restore"
             PROVE  /\ \A i \in Items : item'[i].effects = {}
                    /\ ~w'.err => AllProtections' \subseteq w'.todo \cup w'.released
  BY <1>0 DEF RestoreInv
<1>1. UNCHANGED item => AllProtections' = AllProtections
  BY DEF AllProtections, SourcesToRelease, TargetsToRelease
<1>2. CASE UNCHANGED <<w, item>>
  BY <1>1, <1>2 DEF RestoreInv
<1>3. ~CancelRun
  <2>1. CancelRun => w'.then = "cancel"
    BY <1>0 DEF CancelRun, StartRelease, WorkerStates
  <2>2. QED
    BY <2>1
<1>4. ~Finalize
  <2>1. Finalize => w'.then # "restore"
    <3>1. IdleWorker.then = "none"
      BY DEF IdleWorker
    <3>2. \A todo : StartRelease("finish", todo) => w'.then = "finish"
      BY <1>0 DEF StartRelease, WorkerStates
    <3>3. QED
      BY <3>1, <3>2 DEF Finalize
  <2>2. QED
    BY <2>1
<1>5. CASE RecoveryDone
  <2>1. UNCHANGED item /\ ~Recovery
    BY <1>5 DEF RecoveryDone
  <2>2. w'.todo = AllProtections
    BY <1>0, <1>5 DEF RecoveryDone, WorkerStates
  <2>3. QED
    BY <1>1, <2>1, <2>2 DEF Recovery
<1>6. CASE ReleaseProtection \/ ReleaseFault
  <2>1. PICK r, ok : Drop(r, ok) /\ ok \in BOOLEAN
    BY <1>6 DEF ReleaseProtection, ReleaseFault, PolicyVerified
  <2>2. UNCHANGED item /\ w.pc = "release"
    BY <1>6 DEF ReleaseProtection, ReleaseFault
  <2>3. /\ w'.then = w.then /\ w'.todo = w.todo \ {r}
        /\ w'.released = (IF ok THEN w.released \cup {r} ELSE w.released)
        /\ w'.err = (w.err \/ ~ok)
    BY <1>0, <2>1, DropMoves
  <2>4. /\ \A i \in Items : item[i].effects = {}
        /\ ~w.err => AllProtections \subseteq w.todo \cup w.released
    BY <2>2, <2>3 DEF RestoreInv
  <2>5. QED
    BY <1>1, <2>1, <2>2, <2>3, <2>4
<1>7. QED
  BY <1>0, <1>2, <1>3, <1>4, <1>5, <1>6, ReleaseEntered

\* Maintenance is completed by the end of a restore or of a cleanup.
LEMMA MaintenanceCompletes ==
    ASSUME ControlInv, [Next]_vars,
           mig.maintenance = "running", mig'.maintenance = "completed"
    PROVE  CommitRestored \/ CleanupLoop
<1>0. mig \in MigrationRows /\ w \in WorkerStates
  BY PlaceFacts
<1>1. CASE mig'.maintenance = mig.maintenance
  BY <1>1
<1>2. CASE Command
  BY <1>0, <1>2 DEF Command, UpdateDraft, RequestPrecheck, PrecheckExpires,
     StartMigration, RequestPause, ResumeMigration, StopMigration,
     ContinueAfterPresync, Retry, RequestMaintenance, DeleteMigration,
     CommandAfterRevocation, Requeued, MigrationRows
<1>3. CASE Transfer \/ TransferFaults \/ Revocation \/ Release \/ ReleaseFault
  <2>1. \/ UNCHANGED mig
        \/ BeginTransfer \/ PauseRun \/ Finalize \/ FatalError \/ CreatorAccessRevoked
        \/ RevokedAgain \/ RevokedRunEnds
        \/ CommitCanceled \/ CommitFinished \/ CommitRestored
    BY <1>3
       DEF Transfer, TransferFaults, Revocation, Release, ReleaseFault,
           ReleaseProtection, CancelRun, SeePause, FinalCheck, SkipItem, ExecuteItem, ItemsDone, RunItem, PutTargetLock,
           ItemLoop, LookForTarget, CreateBucket, RecordTargetCreated,
           FinishCreateBucket, CopyBucketSettings, FinishCopyBucketSettings,
           ApplyTargetLock, FinishTargetLock, BeginSync, JournalGrant,
           PutSourceCopyGrant, SyncCopy, SyncWrite, SyncInterrupted,
           RestoreGrantedPolicy, ClearGrantEffect, FinishSync, AwaitCutover,
           ApplyReadOnly, PutReadOnly, FinishReadOnly, VerifyRead, VerifyCompare,
           VerifyInterrupted, StrongVerificationFails, CompleteItem,
           TransferFault, TargetLockRefused, RestoreRevokedGrant,
           ClearRevokedGrant, RevokedGrantFault, FailRevokedItem
  <2>2. QED
    BY <1>0, <2>1
       DEF BeginTransfer, PauseRun, Finalize, FatalError, CreatorAccessRevoked,
           RevokedAgain, RevokedRunEnds, CommitCanceled, CommitFinished, MigrationRows
<1>4. CASE \/ Maintenance \/ MaintenanceFaults \/ Preparation \/ PreparationFaults
  <2>1. \/ UNCHANGED mig
        \/ BeginMaintenance \/ RecoveryFault \/ CleanupLoop \/ MaintenanceFault
        \/ ReportChecks \/ ChecksInterrupted
    BY <1>4
       DEF Maintenance, MaintenanceFaults, Preparation, PreparationFaults,
           RecoverEffect, ClearRecoveredEffect, RecoveryDone, CleanupLockTarget,
           PutTargetLock, CleanupHashTarget, CleanupReadOnly, PutReadOnly,
           CleanupHashSource, CleanupCheckSource, CleanupPutPolicy, PurgeSource,
           RemoveSource, RecordSourceDeleted, CleanupUnlockTarget,
           FinishSourceCleanup, LockFailedTarget, PurgeTarget, RemoveTarget,
           FinishTargetCleanup, CleanupFault, CheckItem, JournalEffect,
           ApplyChange, UndoChange, ClearEffect, CheckFault
  <2>2. QED
    BY <1>0, <2>1
       DEF BeginMaintenance, RecoveryFault, MaintenanceFault,
           ReportChecks, ChecksInterrupted, FinishMaintenance, MigrationRows
<1>5. CASE \/ Claim \/ ClaimPreparation \/ LeaseExpires \/ Crash \/ Client
           \/ UNCHANGED vars
  BY <1>0, <1>5 DEF Claim, ClaimPreparation, LeaseExpires, Crash, Client,
     ClientWritesSource, ClientWritesTarget, OtherCreatesTarget, vars,
     MigrationRows
<1>6. QED
  BY <1>2, <1>3, <1>4, <1>5 DEF Next, Worker, Faults

\* A restore_access that reports success has given all access back: no managed
\* statement is left on a source, no lock on a destination, no probe bucket.
\* What it could not release, or found without a lease, it reports as failed.
\* For migrations without temporary grants.
THEOREM RestoreCompletesAlways == NoGrants /\ Spec => RestoreCompletes
<1>1. RestoreInv /\ [Next]_vars =>
        [mig.maintenance = "running" /\ mig'.maintenance = "completed"
           /\ mig.operation = "restore_access" =>
           \A i \in Items : /\ bucket'[i].source_policy \subseteq {"own"}
                            /\ "LOCK" \notin bucket'[i].target_policy
                            /\ ~bucket'[i].probe]_vars
  <2> SUFFICES ASSUME RestoreInv, [Next]_vars, mig.maintenance = "running",
                      mig'.maintenance = "completed",
                      mig.operation = "restore_access", NEW i \in Items
               PROVE  /\ bucket'[i].source_policy \subseteq {"own"}
                      /\ "LOCK" \notin bucket'[i].target_policy
                      /\ ~bucket'[i].probe
    OBVIOUS
  <2>0. ControlInv /\ mig \in MigrationRows
    BY SourceFacts DEF RestoreInv
  <2>1. ~CleanupLoop
    <3>1. w.pc \notin CleanupPcs
      BY DEF RestoreInv, SourceInv, LockInv, ProvenanceInv, CleanupFinal
    <3>2. QED
      BY <3>1 DEF CleanupLoop, CleanupPcs
  <2>2. CommitRestored
    BY <2>0, <2>1, MaintenanceCompletes
  <2>3. UNCHANGED bucket /\ w.pc = "release" /\ w.then = "restore" /\ w.todo = {}
    BY <2>2 DEF CommitRestored, EndRelease
  <2>4. ~w.err
    BY <2>0, <2>2 DEF CommitRestored, MigrationRows
  <2>5. AllProtections \subseteq w.released /\ item[i].effects = {}
    BY <2>3, <2>4 DEF RestoreInv
  <2>6. BucketRecorded(item[i], bucket[i]) /\ BucketLocks(item[i], bucket[i])
    BY DEF RestoreInv, SourceInv, ItemSources, LockInv, ItemLocks
  <2>7. Plain(bucket[i].source_policy)
    <3>1. CASE item[i].ro
      <4>1. [kind |-> "source", item |-> i] \in w.released
        BY <2>5, <3>1 DEF AllProtections, SourcesToRelease
      <4>2. QED
        BY <2>3, <4>1 DEF RestoreInv, SourceInv, ReleasedPlain
    <3>2. CASE ~item[i].ro
      BY <2>5, <2>6, <3>2 DEF BucketRecorded, Has
    <3>3. QED
      BY <3>1, <3>2
  <2>8. Unlocked(bucket[i].target_policy)
    <3>1. CASE item[i].locked
      <4>1. [kind |-> "target", item |-> i] \in w.released
        BY <2>5, <3>1 DEF AllProtections, TargetsToRelease
      <4>2. QED
        BY <2>3, <4>1 DEF RestoreInv, SourceInv, LockInv, LockPlaces
    <3>2. CASE ~item[i].locked
      BY <2>6, <3>2 DEF BucketLocks
    <3>3. QED
      BY <3>1, <3>2
  <2>9. ~bucket[i].probe
    BY <2>5, <2>6 DEF BucketRecorded, Has
  <2>10. QED
    BY <2>3, <2>7, <2>8, <2>9 DEF Plain, Unlocked
<1>2. NoGrants /\ Init => RestoreInv
  <2>1. Init => w.pc = "idle"
    BY DEF Init, IdleWorker
  <2>2. QED
    BY <2>1, SourceInit DEF RestoreInv
<1>3. NoGrants /\ RestoreInv /\ [Next]_vars => RestoreInv'
  BY RestoreNext
<1> SUFFICES ASSUME NoGrants PROVE Spec => RestoreCompletes
  OBVIOUS
<1>4. QED
  BY <1>1, <1>2, <1>3, PTL DEF Spec, RestoreCompletes


(***************************************************************************)
(* Deleted sources.                                                        *)
(***************************************************************************)
\* The places of a source cleanup at which the destination is locked.
HeldPcs == {"cs_target_hash", "cs_read_only", "cs_read_only_put", "cs_source_hash",
            "cs_check", "cs_policy_put", "cs_purge", "cs_remove", "cs_record"}
HashPcs == {"cs_read_only", "cs_read_only_put", "cs_source_hash"}
Frozen(b) == b.source_policy \cap {"RO", "ROw"} # {}
Held(b) == "LOCK" \in b.target_policy /\ b.target_by = "migration"

\* Behind the cleanup's own policy, a source holds what its receipt says, or
\* nothing any more.
ReceiptTrue(row, b) ==
    row.receipt # NoReceipt /\ "ROw" \in b.source_policy =>
      b.source \in {row.receipt, Empty}

\* What a worker in state s knows, of the row and the buckets: the fingerprint
\* is that of the locked destination, and from the comparison on nobody can
\* write to the source.
CleanupPlace(s, row, b) ==
    /\ s.pc \in HeldPcs => Held(b)
    /\ s.pc \in HashPcs => s.snap = b.target
    /\ s.pc = "cs_source_hash" => Frozen(b)
    /\ s.pc = "cs_check" =>
         /\ row.receipt = b.target
         /\ ~s.receipt => b.source = b.target /\ Frozen(b)
    /\ s.pc = "cs_policy_put" => row.receipt = b.target
    /\ s.pc \in {"cs_policy_put", "cs_purge"} =>
         b.source \in {b.target, Empty} /\ Frozen(b)

DeleteInv ==
    /\ SourceInv /\ OwnInv
    /\ \A i \in Items : ReceiptTrue(item[i], bucket[i])
    /\ CleanupPlace(w, It, Bk)

KeepsData(b, old) ==
    b.source = old.source /\ ("ROw" \in b.source_policy => "ROw" \in old.source_policy)

LEMMA PlainData ==
    \A p : /\ Plain(p) => "ROw" \notin p
           /\ "ROw" \notin BuildReadOnlyPolicy(p) /\ "RO" \in BuildReadOnlyPolicy(p)
  BY DEF Plain, BuildReadOnlyPolicy, WithoutReadOnly

\* A step on the buckets of an item c.
LEMMA OneBucketData ==
    ASSUME SourceInv, NEW c \in Items, NEW b, bucket' = [bucket EXCEPT ![c] = b],
           KeepsData(b, bucket[c])
    PROVE  \A i \in Items : KeepsData(bucket'[i], bucket[i])
<1>1. bucket \in [Items -> BucketStates]
  BY SourceFacts
<1>2. \A i \in Items : bucket'[i] = IF i = c THEN b ELSE bucket[i]
  BY <1>1
<1>3. QED
  BY <1>2 DEF KeepsData

\* Only clients and the purge of a source cleanup write to a source's data, only
\* the cleanup puts the cleanup's policy.
LEMMA TargetData ==
    ASSUME SourceInv, TargetStep
    PROVE  \A i \in Items : KeepsData(bucket'[i], bucket[i])
<1>0. ProvenanceInv
  BY DEF SourceInv, LockInv
<1>1. w.cur \in Items
  BY <1>0, TargetStepFacts
<1>2. Bk = bucket[w.cur] /\ Bk \in BucketStates
  BY <1>1, SourceFacts
<1>3. \/ UNCHANGED bucket
      \/ \E v : \/ SetBucket([Bk EXCEPT !.target_policy = v])
                \/ SetBucket([Bk EXCEPT !.target = v])
      \/ SetBucket([Bk EXCEPT !.target_by = "migration",
                              !.target_policy = {}, !.target = Empty])
      \/ SetBucket([Bk EXCEPT !.target_by = "nobody", !.target_policy = {}])
  BY DEF TargetStep, CreateBucket, CopyBucketSettings, PutTargetLock,
     TargetLockRefused, SyncCopy, SyncWrite, CleanupLockTarget,
     CleanupRefused, CleanupUnlockTarget, PurgeTarget, RemoveTarget
<1>4. ASSUME NEW b, SetBucket(b), KeepsData(b, Bk)
      PROVE  \A i \in Items : KeepsData(bucket'[i], bucket[i])
  BY <1>1, <1>2, <1>4, OneBucketData DEF SetBucket
<1>5. CASE UNCHANGED bucket
  BY <1>5 DEF KeepsData
<1>6. ASSUME NEW v, \/ SetBucket([Bk EXCEPT !.target_policy = v])
                    \/ SetBucket([Bk EXCEPT !.target = v])
      PROVE  \A i \in Items : KeepsData(bucket'[i], bucket[i])
  <2>1. /\ KeepsData([Bk EXCEPT !.target_policy = v], Bk)
        /\ KeepsData([Bk EXCEPT !.target = v], Bk)
    BY <1>2 DEF BucketStates, KeepsData
  <2>2. QED
    BY <1>4, <1>6, <2>1
<1>7. /\ KeepsData([Bk EXCEPT !.target_by = "migration",
                              !.target_policy = {}, !.target = Empty], Bk)
      /\ KeepsData([Bk EXCEPT !.target_by = "nobody", !.target_policy = {}], Bk)
  BY <1>2 DEF BucketStates, KeepsData
<1>8. QED
  BY <1>3, <1>4, <1>5, <1>6, <1>7

LEMMA SourceSideData ==
    ASSUME SourceInv, SourceSideStep, ~CleanupPutPolicy, ~PurgeSource
    PROVE  \A i \in Items : KeepsData(bucket'[i], bucket[i])
<1>0. /\ ~PutSourceCopyGrant /\ ~RestoreGrantedPolicy /\ ~RestoreRevokedGrant
      /\ bucket \in [Items -> BucketStates]
  BY NoGrantSteps, SourceFacts
   DEF SourceInv, SourcePlace, TransferPlace, RestoreRevokedGrant
<1>1. CASE UNCHANGED bucket
  BY <1>1 DEF KeepsData
<1>2. CASE \/ PutReadOnly("read_only_put", "read_only_done")
           \/ PutReadOnly("cs_read_only_put", "cs_source_hash")
           \/ RemoveSource \/ ApplyChange \/ UndoChange \/ CheckFault
  <2>1. w.pc \notin FreePcs
    BY <1>2 DEF PutReadOnly, RemoveSource, ApplyChange, UndoChange, CheckFault,
                FreePcs
  <2>2. w.cur \in Items
    BY <2>1, SourceFacts DEF TypeInv, CurOK
  <2>3. Bk = bucket[w.cur] /\ Bk \in BucketStates
    BY <2>2, SourceFacts
  <2>4. /\ KeepsData([Bk EXCEPT !.source_exists = FALSE, !.source_policy = {}], Bk)
        /\ KeepsData([Bk EXCEPT !.probe = TRUE], Bk)
        /\ KeepsData([Bk EXCEPT !.probe = FALSE], Bk)
        /\ KeepsData([Bk EXCEPT !.source_policy = BuildReadOnlyPolicy(w.policy)], Bk)
    BY <2>3, PlainData DEF BucketStates, KeepsData
  <2>5. CASE \/ PutReadOnly("read_only_put", "read_only_done")
             \/ PutReadOnly("cs_read_only_put", "cs_source_hash")
             \/ RemoveSource
    BY <2>2, <2>3, <2>4, <2>5, OneBucketData DEF PutReadOnly, RemoveSource, SetBucket
  <2>6. CASE ApplyChange \/ CheckFault
    <3>1. \/ UNCHANGED bucket
          \/ w.pc = "check_put" /\ bucket' = [bucket EXCEPT ![w.cur] = Changed]
      BY <2>6 DEF ApplyChange, CheckFault, SetBucket
    <3>2. w.pc = "check_put" => w.task \in {2, 3}
      BY DEF SourceInv, SourcePlace, CheckPlace
    <3>3. /\ w.task = 2 => Changed = [Bk EXCEPT !.source_policy = BuildReadOnlyPolicy(w.policy)]
          /\ w.task = 3 => Changed = [Bk EXCEPT !.probe = TRUE]
      BY DEF Changed
    <3>4. QED
      BY <1>1, <2>2, <2>3, <2>4, <3>1, <3>2, <3>3, OneBucketData
  <2>7. CASE UndoChange
    <3>1. (w.task = 2 /\ Plain(w.policy)) \/ w.task = 5
      BY <2>7 DEF UndoChange, SourceInv, SourcePlace, CheckPlace
    <3>2. w.task = 2 => KeepsData([Bk EXCEPT !.source_policy = w.policy], Bk)
      BY <2>3, <3>1, PlainData DEF BucketStates, KeepsData
    <3>3. QED
      BY <2>2, <2>3, <2>4, <2>7, <3>1, <3>2, OneBucketData DEF UndoChange, SetBucket
  <2>8. QED
    BY <1>2, <2>5, <2>6, <2>7
<1>3. CASE RecoverEffect
  <2> DEFINE Recovered(i, e) == IF e.name = "probe_bucket"
                                THEN [bucket[i] EXCEPT !.probe = FALSE]
                                ELSE [bucket[i] EXCEPT !.source_policy = e.policy]
  <2>a. PICK i \in Items : \E e \in item[i].effects :
          bucket' = [bucket EXCEPT ![i] = Recovered(i, e)]
    BY <1>0, <1>3 DEF RecoverEffect
  <2>1. PICK e \in item[i].effects : bucket' = [bucket EXCEPT ![i] = Recovered(i, e)]
    BY <2>a
  <2>2. Plain(e.policy) /\ bucket[i] \in BucketStates
    BY SourceFacts DEF RowPlain
  <2>3. /\ KeepsData([bucket[i] EXCEPT !.probe = FALSE], bucket[i])
        /\ KeepsData([bucket[i] EXCEPT !.source_policy = e.policy], bucket[i])
    BY <2>2, PlainData DEF BucketStates, KeepsData
  <2>4. QED
    BY <2>1, <2>3, OneBucketData
<1>4. QED
  BY <1>0, <1>2, <1>3 DEF SourceSideStep

LEMMA ReleaseData ==
    ASSUME SourceInv, ReleaseProtection \/ ReleaseFault
    PROVE  \A i \in Items : KeepsData(bucket'[i], bucket[i])
<1>1. PICK r \in w.todo : UNCHANGED bucket \/ bucket' = [bucket EXCEPT ![r.item] = Released(r)]
  BY DEF ReleaseProtection, ReleaseFault
<1>2. r \in Releases /\ r.item \in Items /\ r.kind \in {"source", "target"}
  BY SourceFacts DEF WorkerStates, Releases
<1>3. KeepsData(Released(r), bucket[r.item])
  BY <1>2, ReleasedSource, PlainData DEF KeepsData
<1>4. CASE UNCHANGED bucket
  BY <1>4 DEF KeepsData
<1>5. CASE bucket' = [bucket EXCEPT ![r.item] = Released(r)]
  BY <1>2, <1>3, <1>5, OneBucketData
<1>6. QED
  BY <1>1, <1>4, <1>5

LEMMA SourceData ==
    ASSUME SourceInv, [Next]_vars, NEW i \in Items
    PROVE  LET b == bucket'[i]
               old == bucket[i]
           IN  \/ KeepsData(b, old)
               \/ /\ Client /\ ~Frozen(old) /\ b.source # Empty
                  /\ b.source_policy = old.source_policy
               \/ PurgeSource /\ i = w.cur /\ b.source = Empty
               \/ CleanupPutPolicy /\ i = w.cur /\ b.source = old.source
<1>0. ControlInv /\ bucket \in [Items -> BucketStates] /\ bucket[i] \in BucketStates
  BY SourceFacts
<1>1. CASE UNCHANGED bucket
  BY <1>1 DEF KeepsData
<1>2. CASE Client
  BY <1>0, <1>2, ClientSteps DEF KeepsData, Frozen
<1>3. CASE PurgeSource \/ CleanupPutPolicy
  <2>1. w.cur \in Items /\ Bk = bucket[w.cur]
    <3>1. w.pc \in CleanupPcs \ {"cleanup"}
      BY <1>3 DEF PurgeSource, CleanupPutPolicy, CleanupPcs
    <3>2. QED
      BY <3>1, CleanupFacts
  <2>2. CASE i = w.cur
    <3>1. /\ PurgeSource => bucket'[i] = [bucket[i] EXCEPT !.source = Empty]
          /\ CleanupPutPolicy =>
               \E p : bucket'[i] = [bucket[i] EXCEPT !.source_policy = p]
      BY <1>0, <2>1, <2>2 DEF PurgeSource, CleanupPutPolicy, SetBucket
    <3>2. CASE PurgeSource
      <4>1. bucket'[i].source = Empty
        BY <1>0, <3>1, <3>2 DEF BucketStates
      <4>2. QED
        BY <2>2, <3>2, <4>1
    <3>3. CASE CleanupPutPolicy
      <4>1. PICK p : bucket'[i] = [bucket[i] EXCEPT !.source_policy = p]
        BY <3>1, <3>3
      <4>2. bucket'[i].source = bucket[i].source
        BY <1>0, <4>1 DEF BucketStates
      <4>3. QED
        BY <2>2, <3>3, <4>2
    <3>4. QED
      BY <1>3, <3>2, <3>3
  <2>3. CASE i # w.cur
    <3>1. bucket'[i] = bucket[i]
      BY <1>0, <1>3, <2>1, <2>3 DEF PurgeSource, CleanupPutPolicy, SetBucket
    <3>2. QED
      BY <3>1 DEF KeepsData
  <2>4. QED
    BY <2>2, <2>3
<1>4. CASE TargetStep \/ ReleaseProtection \/ ReleaseFault
  BY <1>4, TargetData, ReleaseData
<1>5. CASE SourceSideStep
  BY <1>3, <1>5, SourceSideData
<1>6. QED
  BY <1>1, <1>2, <1>4, <1>5, BucketSteps

\* The receipts stay true.
LEMMA ReceiptsKept ==
    ASSUME DeleteInv, [Next]_vars
    PROVE  \A i \in Items : ReceiptTrue(item'[i], bucket'[i])
<1>0. /\ SourceInv /\ OwnInv /\ w \in WorkerStates
      /\ item \in [Items -> ItemRows] /\ bucket \in [Items -> BucketStates]
  BY SourceFacts DEF DeleteInv
<1>1. CASE CleanupHashSource
  <2>1. w.pc = "cs_source_hash" /\ w.pc \in CleanupPcs \ {"cleanup"}
    BY <1>1 DEF CleanupHashSource, CleanupPcs
  <2>2. w.cur \in Items /\ It = item[w.cur] /\ It \in ItemRows /\ Bk = bucket[w.cur]
    BY <1>0, <2>1, CleanupFacts
  <2> DEFINE row == [It EXCEPT !.receipt = w.snap]
  <2>3. row.receipt = w.snap
    BY <2>2 DEF ItemRows
  <2>4. UNCHANGED bucket /\ (UNCHANGED item \/ (Bk.source = w.snap /\ SetItem(row)))
    BY <1>1 DEF CleanupHashSource, CleanupRefused
  <2> HIDE DEF row
  <2>5. CASE UNCHANGED item
    BY <2>4, <2>5 DEF DeleteInv
  <2>6. CASE Bk.source = w.snap /\ SetItem(row)
    <3>1. \A i \in Items : item'[i] = IF i = w.cur THEN row ELSE item[i]
      BY <1>0, <2>2, <2>6 DEF SetItem
    <3>2. QED
      BY <2>2, <2>3, <2>4, <2>6, <3>1 DEF DeleteInv, ReceiptTrue
  <2>7. QED
    BY <2>4, <2>5, <2>6
<1>2. CASE ~CleanupHashSource
  <2>1. SameReceipts
    <3>1. CASE ~RecordTargetCreated /\ ~FinishTargetCleanup
      BY <1>0, <1>2, <3>1, OwnersKept
    <3>2. CASE RecordTargetCreated \/ FinishTargetCleanup
      <4>1. w.pc \in {"bucket_created", "ct_finish"}
        BY <3>2 DEF RecordTargetCreated, FinishTargetCleanup
      <4>2. w.cur \in Items
        BY <1>0, <4>1, SourceFacts DEF TypeInv, CurOK, FreePcs
      <4>3. It \in ItemRows /\ It = item[w.cur]
        BY <1>0, <4>2 DEF It
      <4> DEFINE rowA == [It EXCEPT !.created = TRUE]
                 rowB == [It EXCEPT !.created = FALSE, !.locked = FALSE,
                                    !.lock_backup = {}, !.pre_sync_done = FALSE,
                                    !.step = "create_bucket"]
      <4>4. KeepsReceipt(rowA, It) /\ KeepsReceipt(rowB, It) /\ KeepsReceipt(It, It)
        BY <4>3 DEF KeepsReceipt, ItemRows
      <4>5. UNCHANGED item \/ SetItem(rowA) \/ SetItem(rowB)
        BY <3>2 DEF RecordTargetCreated, FinishTargetCleanup, CleanupRefused
      <4> HIDE DEF rowA, rowB
      <4>6. QED
        BY <1>0, <4>2, <4>3, <4>4, <4>5 DEF SetItem, SameReceipts, KeepsReceipt
    <3>3. QED
      BY <3>1, <3>2
  <2> SUFFICES ASSUME NEW i \in Items, item'[i].receipt # NoReceipt,
                      "ROw" \in bucket'[i].source_policy
               PROVE  bucket'[i].source \in {item'[i].receipt, Empty}
    BY DEF ReceiptTrue
  <2>2. item'[i].receipt = item[i].receipt
    BY <2>1 DEF SameReceipts, KeepsReceipt
  <2>3. "ROw" \in bucket[i].source_policy => bucket[i].source \in {item[i].receipt, Empty}
    BY <2>2 DEF DeleteInv, ReceiptTrue
  <2>4. CASE KeepsData(bucket'[i], bucket[i])
    BY <2>2, <2>3, <2>4 DEF KeepsData
  <2>5. CASE ~Frozen(bucket[i]) /\ bucket'[i].source_policy = bucket[i].source_policy
    BY <2>5 DEF Frozen
  <2>6. CASE PurgeSource /\ i = w.cur /\ bucket'[i].source = Empty
    BY <2>6
  <2>7. CASE CleanupPutPolicy /\ i = w.cur /\ bucket'[i].source = bucket[i].source
    <3>1. It.receipt = Bk.target /\ Bk.source \in {Bk.target, Empty}
      BY <2>7 DEF CleanupPutPolicy, DeleteInv, CleanupPlace
    <3>2. QED
      BY <2>2, <2>7, <3>1 DEF It, Bk
  <2>8. QED
    BY <1>0, <2>4, <2>5, <2>6, <2>7, SourceData
<1>3. QED
  BY <1>1, <1>2

\* While the cleanup waits, clients find a locked destination and, from the
\* comparison on, a read-only source.
LEMMA WaitingPlace ==
    ASSUME DeleteInv, w.pc \in HeldPcs, UNCHANGED <<w, item>>,
           Client \/ UNCHANGED bucket
    PROVE  CleanupPlace(w', It', Bk')
<1>1. CASE UNCHANGED bucket
  BY <1>1 DEF DeleteInv, It, Bk
<1>2. CASE Client
  <2>1. w.pc \in CleanupPcs \ {"cleanup"}
    BY DEF HeldPcs, CleanupPcs
  <2>2. /\ w.cur \in Items /\ Bk = bucket[w.cur] /\ ControlInv
        /\ It' = It /\ Bk' = bucket'[w.cur]
    BY <2>1, CleanupFacts, SourceFacts DEF DeleteInv, It, Bk
  <2>3. Held(bucket[w.cur]) /\ CleanupPlace(w, It, bucket[w.cur])
    BY <2>2 DEF DeleteInv, CleanupPlace
  <2>4. /\ KeepsTarget(bucket'[w.cur], bucket[w.cur])
        /\ bucket'[w.cur].source_policy = bucket[w.cur].source_policy
        /\ Frozen(bucket[w.cur]) => bucket'[w.cur].source = bucket[w.cur].source
    BY <1>2, <2>2, <2>3, ClientSteps DEF Held, Frozen, KeepsTarget
  <2> DEFINE b == bucket'[w.cur]
             old == bucket[w.cur]
  <2>5. /\ Held(b) <=> Held(old)
        /\ Frozen(b) <=> Frozen(old)
        /\ b.target = old.target
    BY <2>4 DEF Held, Frozen, KeepsTarget
  <2> HIDE DEF b, old
  <2>6. CleanupPlace(w, It, b)
    BY <2>3, <2>4, <2>5 DEF CleanupPlace, b, old
  <2>7. QED
    BY <2>2, <2>6 DEF b
<1>3. QED
  BY <1>1, <1>2

\* The destination is locked before it is read: it exists and, once recorded as
\* created, is nobody else's.
LEMMA LockedPlace ==
    ASSUME DeleteInv, CleanupLockTarget \/ PutTargetLock("cs_lock_put", "cs_target_hash"),
           w'.pc \in HeldPcs, w'.cur = w.cur
    PROVE  CleanupPlace(w', It', Bk')
<1>1. w.pc \in CleanupPcs \ {"cleanup"}
  BY DEF CleanupLockTarget, PutTargetLock, CleanupPcs
<1>2. /\ w.cur \in Items /\ Bk = bucket[w.cur] /\ Bk \in BucketStates
      /\ w \in WorkerStates /\ bucket \in [Items -> BucketStates]
      /\ It = item[w.cur] /\ Bk' = bucket'[w.cur]
  BY <1>1, CleanupFacts, SourceFacts DEF DeleteInv, Bk
<1>3. /\ w'.pc = "cs_target_hash"
      /\ \E p : SetBucket([Bk EXCEPT !.target_policy = BuildTargetWriteLockPolicy(p)])
      /\ It.created /\ Bk.target_by # "nobody"
  <2>1. CASE CleanupLockTarget
    <3>1. ~CleanupRefused
      BY <1>2, OtherMoves DEF CleanupRefused, HeldPcs
    <3>2. w' # [w EXCEPT !.pc = "cs_lock_put", !.policy = Bk.target_policy,
                         !.receipt = (It.receipt # NoReceipt)]
      BY <1>2 DEF WorkerStates, HeldPcs
    <3>3. /\ It.created /\ Bk.target_by # "nobody"
          /\ SetBucket([Bk EXCEPT !.target_policy =
                          BuildTargetWriteLockPolicy(It.lock_backup)])
          /\ w' = [w EXCEPT !.pc = "cs_target_hash",
                            !.receipt = (It.receipt # NoReceipt)]
      BY <2>1, <3>1, <3>2 DEF CleanupLockTarget, TargetExists
    <3>4. w'.pc = "cs_target_hash"
      BY <1>2, <3>3 DEF WorkerStates
    <3>5. QED
      BY <3>3, <3>4
  <2>2. CASE PutTargetLock("cs_lock_put", "cs_target_hash")
    <3>1. w.pc = "cs_lock_put"
      BY <2>2 DEF PutTargetLock
    <3>2. Bk.target_by # "nobody"
      BY <3>1 DEF DeleteInv, SourceInv, LockInv, LockPlaces, LockPcs, Exists
    <3>3. It.created
      BY <1>1, <3>1 DEF DeleteInv, OwnInv
    <3>4. QED
      BY <1>2, <2>2, <3>2, <3>3, RunMoves DEF PutTargetLock
  <2>3. QED
    BY <2>1, <2>2
<1>4. Bk.target_by = "migration"
  <2>1. Bk.target_by # "other"
    BY <1>2, <1>3 DEF DeleteInv, OwnInv
  <2>2. QED
    BY <1>2, <1>3, <2>1 DEF BucketStates
<1>5. PICK p : SetBucket([Bk EXCEPT !.target_policy = BuildTargetWriteLockPolicy(p)])
  BY <1>3
<1>6. Bk' = [Bk EXCEPT !.target_policy = BuildTargetWriteLockPolicy(p)]
  BY <1>2, <1>5 DEF SetBucket
<1>7. Held(Bk')
  BY <1>2, <1>4, <1>6 DEF BucketStates, Held, BuildTargetWriteLockPolicy
<1>8. QED
  BY <1>3, <1>7 DEF CleanupPlace, HashPcs

\* Reading the destination, making the source read-only, comparing the two.
LEMMA HashedPlace ==
    ASSUME DeleteInv, w'.pc \in HeldPcs, w'.cur = w.cur,
           \/ CleanupHashTarget \/ CleanupReadOnly
           \/ PutReadOnly("cs_read_only_put", "cs_source_hash")
           \/ CleanupHashSource
    PROVE  CleanupPlace(w', It', Bk')
<1>1. w.pc \in HeldPcs /\ w.pc \in CleanupPcs \ {"cleanup"}
  BY DEF CleanupHashTarget, CleanupReadOnly, PutReadOnly, CleanupHashSource,
         HeldPcs, CleanupPcs
<1>2. /\ w.cur \in Items /\ Bk = bucket[w.cur] /\ Bk \in BucketStates
      /\ w \in WorkerStates /\ bucket \in [Items -> BucketStates]
      /\ item \in [Items -> ItemRows]
      /\ It = item[w.cur] /\ It \in ItemRows
      /\ Bk' = bucket'[w.cur] /\ It' = item'[w.cur]
  BY <1>1, CleanupFacts, SourceFacts DEF DeleteInv, Bk, It
<1>3. Held(Bk) /\ CleanupPlace(w, It, Bk)
  BY <1>1 DEF DeleteInv, CleanupPlace
<1>4. ~CleanupRefused
  BY <1>2, OtherMoves DEF CleanupRefused, HeldPcs
<1>5. CASE CleanupHashTarget
  <2>1. UNCHANGED bucket /\ UNCHANGED item
    BY <1>4, <1>5 DEF CleanupHashTarget
  <2>2. \/ w' = [w EXCEPT !.pc = "cs_check"] /\ w.receipt /\ It.receipt = Bk.target
        \/ w' = [w EXCEPT !.pc = "cs_read_only", !.snap = Bk.target]
    BY <1>4, <1>5 DEF CleanupHashTarget, Goto
  <2>3. \/ w'.pc = "cs_check" /\ w'.receipt /\ It.receipt = Bk.target
        \/ w'.pc = "cs_read_only" /\ w'.snap = Bk.target
    BY <1>2, <2>2 DEF WorkerStates
  <2>4. Bk' = Bk /\ It' = It
    BY <1>2, <2>1
  <2>5. QED
    BY <1>3, <2>3, <2>4 DEF CleanupPlace, HashPcs
<1>6. CASE CleanupReadOnly
  <2>1. UNCHANGED bucket
        /\ w' = [w EXCEPT !.pc = "cs_read_only_put", !.policy = Bk.source_policy]
    BY <1>4, <1>6 DEF CleanupReadOnly
  <2>2. w'.pc = "cs_read_only_put" /\ w'.snap = w.snap
    BY <1>2, <2>1 DEF WorkerStates
  <2>3. w.snap = Bk.target
    BY <1>3, <1>6 DEF CleanupReadOnly, CleanupPlace, HashPcs
  <2>4. Bk' = Bk
    BY <1>2, <2>1
  <2>5. QED
    BY <1>3, <2>2, <2>3, <2>4 DEF CleanupPlace
<1>7. CASE PutReadOnly("cs_read_only_put", "cs_source_hash")
  <2>1. Bk' = [Bk EXCEPT !.source_policy = BuildReadOnlyPolicy(w.policy)]
    BY <1>2, <1>7 DEF PutReadOnly, SetBucket
  <2>2. w'.pc = "cs_source_hash" /\ w'.snap = w.snap
    BY <1>2, <1>7 DEF PutReadOnly, Goto, WorkerStates
  <2>3. w.snap = Bk.target
    BY <1>3, <1>7 DEF PutReadOnly, CleanupPlace, HashPcs
  <2>4. /\ Bk'.target = Bk.target /\ Bk'.target_by = Bk.target_by
        /\ Bk'.target_policy = Bk.target_policy
        /\ Bk'.source_policy = BuildReadOnlyPolicy(w.policy)
    BY <1>2, <2>1 DEF BucketStates
  <2>5. Frozen(Bk') /\ Held(Bk')
    BY <1>3, <2>4, PlainData DEF Frozen, Held
  <2>6. QED
    BY <2>2, <2>3, <2>4, <2>5 DEF CleanupPlace
<1>8. CASE CleanupHashSource
  <2>1. /\ Bk.source = w.snap /\ UNCHANGED bucket
        /\ SetItem([It EXCEPT !.receipt = w.snap]) /\ Goto("cs_check")
    BY <1>4, <1>8 DEF CleanupHashSource
  <2>2. w'.pc = "cs_check"
    BY <1>2, <2>1, RunMoves
  <2>3. w.snap = Bk.target /\ Frozen(Bk)
    BY <1>3, <1>8 DEF CleanupHashSource, CleanupPlace, HashPcs
  <2>4. It'.receipt = w.snap
    BY <1>2, <2>1 DEF SetItem, ItemRows
  <2>5. Bk' = Bk
    BY <1>2, <2>1
  <2>6. QED
    BY <1>3, <2>1, <2>2, <2>3, <2>4, <2>5 DEF CleanupPlace, HashPcs
<1>9. QED
  BY <1>5, <1>6, <1>7, <1>8

\* A source is deleted only after the comparison, or behind the policy of an
\* earlier cleanup whose receipt still matches.
LEMMA DeletedPlace ==
    ASSUME DeleteInv, w'.pc \in HeldPcs, w'.cur = w.cur,
           CleanupCheckSource \/ CleanupPutPolicy \/ PurgeSource \/ RemoveSource
    PROVE  CleanupPlace(w', It', Bk')
<1>1. w.pc \in HeldPcs /\ w.pc \in CleanupPcs \ {"cleanup"}
  BY DEF CleanupCheckSource, CleanupPutPolicy, PurgeSource, RemoveSource,
         HeldPcs, CleanupPcs
<1>2. /\ w.cur \in Items /\ Bk = bucket[w.cur] /\ Bk \in BucketStates
      /\ w \in WorkerStates /\ bucket \in [Items -> BucketStates]
      /\ item \in [Items -> ItemRows]
      /\ It = item[w.cur] /\ It \in ItemRows
      /\ Bk' = bucket'[w.cur] /\ It' = item'[w.cur]
  BY <1>1, CleanupFacts, SourceFacts DEF DeleteInv, Bk, It
<1>3. Held(Bk) /\ CleanupPlace(w, It, Bk)
  BY <1>1 DEF DeleteInv, CleanupPlace
<1>4. ~CleanupRefused
  BY <1>2, OtherMoves DEF CleanupRefused, HeldPcs
<1>5. UNCHANGED item
  BY <1>4 DEF CleanupCheckSource, CleanupPutPolicy, PurgeSource, RemoveSource
<1>6. CASE CleanupCheckSource
  <2>1. /\ UNCHANGED bucket
        /\ \/ Goto("cs_record")
           \/ /\ w.receipt => Bk.source_policy = BuildSourceCleanupPolicy(It.ro_backup)
              /\ Goto("cs_policy_put")
    BY <1>4, <1>6 DEF CleanupCheckSource
  <2>2. Bk' = Bk /\ It' = It
    BY <1>2, <1>5, <2>1
  <2>3. /\ It.receipt = Bk.target
        /\ ~w.receipt => Bk.source = Bk.target /\ Frozen(Bk)
    BY <1>3, <1>6 DEF CleanupCheckSource, CleanupPlace
  <2>4. CASE Goto("cs_record")
    <3>1. w'.pc = "cs_record"
      BY <1>2, <2>4, RunMoves
    <3>2. QED
      BY <1>3, <2>2, <3>1 DEF CleanupPlace, HashPcs
  <2>5. CASE /\ w.receipt => Bk.source_policy = BuildSourceCleanupPolicy(It.ro_backup)
             /\ Goto("cs_policy_put")
    <3>1. w'.pc = "cs_policy_put"
      BY <1>2, <2>5, RunMoves
    <3>2. Bk.source \in {Bk.target, Empty} /\ Frozen(Bk)
      <4>1. CASE ~w.receipt
        BY <2>3, <4>1
      <4>2. CASE w.receipt
        <5>1. "ROw" \in Bk.source_policy
          BY <2>5, <4>2 DEF BuildSourceCleanupPolicy
        <5>2. ReceiptTrue(It, Bk)
          BY <1>2 DEF DeleteInv
        <5>3. Bk.target # NoReceipt
          BY <1>2, BoundsAssumption
             DEF BucketStates, Contents, SourceContents, Empty, Tampered, NoReceipt
        <5>4. QED
          BY <2>3, <5>1, <5>2, <5>3 DEF ReceiptTrue, Frozen
      <4>3. QED
        BY <4>1, <4>2
    <3>3. QED
      BY <1>3, <2>2, <2>3, <3>1, <3>2 DEF CleanupPlace, HashPcs
  <2>6. QED
    BY <2>1, <2>4, <2>5
<1>7. CASE CleanupPutPolicy
  <2> DEFINE p == BuildSourceCleanupPolicy(It.ro_backup)
  <2>1. Bk' = [Bk EXCEPT !.source_policy = p] /\ "ROw" \in p
    BY <1>2, <1>7 DEF CleanupPutPolicy, SetBucket, BuildSourceCleanupPolicy
  <2>2. w'.pc = "cs_purge"
    BY <1>2, <1>7, RunMoves DEF CleanupPutPolicy
  <2>3. Bk.source \in {Bk.target, Empty}
    BY <1>3, <1>7 DEF CleanupPutPolicy, CleanupPlace
  <2> HIDE DEF p
  <2>4. /\ Bk'.target = Bk.target /\ Bk'.target_by = Bk.target_by
        /\ Bk'.target_policy = Bk.target_policy
        /\ Bk'.source = Bk.source /\ Bk'.source_policy = p
    BY <1>2, <2>1 DEF BucketStates
  <2>5. Frozen(Bk') /\ Held(Bk')
    BY <1>3, <2>1, <2>4 DEF Frozen, Held
  <2>6. QED
    BY <2>2, <2>3, <2>4, <2>5 DEF CleanupPlace, HashPcs
<1>8. CASE PurgeSource \/ RemoveSource
  <2>1. w'.pc \in {"cs_remove", "cs_record"}
    BY <1>2, <1>8, RunMoves DEF PurgeSource, RemoveSource
  <2>2. /\ Bk'.target = Bk.target /\ Bk'.target_by = Bk.target_by
        /\ Bk'.target_policy = Bk.target_policy
    <3>1. \/ Bk' = [Bk EXCEPT !.source = Empty]
          \/ Bk' = [Bk EXCEPT !.source_exists = FALSE, !.source_policy = {}]
      BY <1>2, <1>8 DEF PurgeSource, RemoveSource, SetBucket
    <3>2. QED
      BY <1>2, <3>1 DEF BucketStates
  <2>3. Held(Bk')
    BY <1>3, <2>2 DEF Held
  <2>4. QED
    BY <2>1, <2>3 DEF CleanupPlace, HashPcs
<1>9. QED
  BY <1>6, <1>7, <1>8

LEMMA DeleteNext ==
    NoGrants /\ ~NameReuse /\ DeleteInv /\ [Next]_vars => DeleteInv'
<1> SUFFICES ASSUME NoGrants, ~NameReuse, DeleteInv, [Next]_vars PROVE DeleteInv'
  OBVIOUS
<1>0. ControlInv /\ w \in WorkerStates
  BY SourceFacts DEF DeleteInv
<1>1. SourceInv' /\ OwnInv'
  BY SourceNext, OwnNext DEF DeleteInv
<1>2. (\A i \in Items : ReceiptTrue(item[i], bucket[i]))'
  BY ReceiptsKept
<1>3. CASE w'.pc \notin HeldPcs
  <2>1. CleanupPlace(w', It', Bk')
    BY <1>3 DEF CleanupPlace, HeldPcs, HashPcs
  <2>2. QED
    BY <1>1, <1>2, <2>1 DEF DeleteInv
<1>4. CASE w'.pc \in HeldPcs
  <2>1. w'.pc \in CleanupPcs \ {"cleanup"}
    BY <1>4 DEF HeldPcs, CleanupPcs
  <2>2. CASE UNCHANGED <<w, item>> /\ (Client \/ UNCHANGED bucket)
    BY <1>1, <1>2, <1>4, <2>2, WaitingPlace DEF DeleteInv
  <2>3. CASE CleanupStep /\ w'.cur = w.cur
    <3>1. ~CleanupLoop /\ ~LockFailedTarget
      <4>1. /\ NextCleanup(FALSE) => w'.pc = "cleanup"
            /\ NextCleanup(TRUE) => w'.pc = "cleanup"
            /\ \A pc : Goto(pc) => w'.pc = pc
            /\ w' = IdleWorker => w'.pc = "idle"
        BY <1>0, RunMoves, OtherMoves
      <4>2. ~CleanupLoop
        BY <1>4, <4>1 DEF CleanupLoop, FinishMaintenance, HeldPcs
      <4>a. w' = [w EXCEPT !.pc = "ct_lock_put", !.policy = Bk.target_policy]
              => w'.pc = "ct_lock_put"
        BY <1>0 DEF WorkerStates
      <4>3. ~LockFailedTarget
        BY <1>4, <4>1, <4>a DEF LockFailedTarget, CleanupRefused, HeldPcs
      <4>4. QED
        BY <4>2, <4>3
    <3>2. /\ ~RecordSourceDeleted /\ ~CleanupUnlockTarget /\ ~PurgeTarget
          /\ ~RemoveTarget /\ ~PutTargetLock("ct_lock_put", "ct_purge")
      BY <1>0, <1>4, RunMoves DEF RecordSourceDeleted, CleanupUnlockTarget,
         PurgeTarget, RemoveTarget, PutTargetLock, HeldPcs
    <3>3. CleanupPlace(w', It', Bk')
      BY <1>4, <2>3, <3>1, <3>2, LockedPlace, HashedPlace, DeletedPlace
         DEF CleanupStep
    <3>4. QED
      BY <1>1, <1>2, <3>3 DEF DeleteInv
  <2>4. QED
    BY <1>0, <2>1, <2>2, <2>3, CleanupEntered
<1>5. QED
  BY <1>3, <1>4

LEMMA DeleteInit == NoGrants /\ Init => DeleteInv
<1> SUFFICES ASSUME NoGrants, Init PROVE DeleteInv
  OBVIOUS
<1>1. SourceInv /\ OwnInv
  BY SourceInit, OwnInit
<1>2. \A i \in Items : item[i].receipt = NoReceipt
  BY DEF Init, DraftItem
<1>3. w.pc \notin HeldPcs
  BY DEF Init, IdleWorker, HeldPcs
<1>4. CleanupPlace(w, It, Bk)
  BY <1>3 DEF CleanupPlace, HeldPcs, HashPcs
<1>5. QED
  BY <1>1, <1>2, <1>4 DEF DeleteInv, ReceiptTrue

\* The data of a source is deleted only when the destination, which is locked
\* and which this migration created, holds the same data: whatever crash or
\* failing call cut an earlier cleanup short, whatever was retried, and whatever
\* the clients of both buckets did before and in between.
THEOREM SourceDeletedOnlyIfCopiedAlways ==
    NoGrants /\ ~NameReuse /\ Spec => SourceDeletedOnlyIfCopied
<1>1. ASSUME DeleteInv, [Next]_vars, NEW i \in Items,
             bucket[i].source # Empty, bucket'[i].source = Empty
      PROVE  /\ bucket[i].target = bucket[i].source
             /\ bucket[i].target_by = "migration"
             /\ "LOCK" \in bucket[i].target_policy
  <2>1. PurgeSource /\ i = w.cur
    BY <1>1, SourceData DEF DeleteInv, KeepsData
  <2>2. Held(Bk) /\ Bk.source \in {Bk.target, Empty}
    BY <1>1, <2>1 DEF PurgeSource, DeleteInv, CleanupPlace, HeldPcs
  <2>3. QED
    BY <1>1, <2>1, <2>2 DEF Held, Bk
<1>2. DeleteInv /\ [Next]_vars =>
        [\A i \in Items :
           bucket[i].source # Empty /\ bucket'[i].source = Empty =>
             /\ bucket[i].target = bucket[i].source
             /\ bucket[i].target_by = "migration"
             /\ "LOCK" \in bucket[i].target_policy]_vars
  BY <1>1
<1>3. NoGrants /\ Init => DeleteInv
  BY DeleteInit
<1>4. NoGrants /\ ~NameReuse /\ DeleteInv /\ [Next]_vars => DeleteInv'
  BY DeleteNext
<1> SUFFICES ASSUME NoGrants, ~NameReuse PROVE Spec => SourceDeletedOnlyIfCopied
  OBVIOUS
<1>5. QED
  BY <1>2, <1>3, <1>4, PTL DEF Spec, SourceDeletedOnlyIfCopied
=============================================================================
