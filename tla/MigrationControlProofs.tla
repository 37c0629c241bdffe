----------------------- MODULE MigrationControlProofs -----------------------
(***************************************************************************)
(* Three results about the bucket migration engine, for every number of    *)
(* items, all options and all bounds: type correctness; that transfer,     *)
(* preparation and maintenance of one migration exclude each other, so     *)
(* that a worker never goes on after the workflow it was claimed for has   *)
(* ended; and where the destination of an item is known to be this         *)
(* migration's own.  TypeOK is not inductive by itself: a step of the      *)
(* worker that reads the current item needs that w.cur is one.             *)
(***************************************************************************)
EXTENDS BucketMigration, TLAPS

\* The places of the worker that have no current item.
FreePcs == {"idle", "start", "items", "final", "pausing", "finalize", "revoked",
            "cleanup", "check_item", "recover", "release"}
CurOK == w.pc \notin FreePcs => w.cur \in Items
TypeInv == TypeOK /\ CurOK

USE NAssumption

(***************************************************************************)
(* What the building blocks of the actions do to the types.                *)
(***************************************************************************)
\* The index of the loop stays in range.
LEMMA LoopIndex ==
    /\ \A c \in 1..(N + 1) : c <= N => c \in Items
    /\ \A c \in Items : c \in 1..(N + 1) /\ c + 1 \in 1..(N + 1)
  BY DEF Items

\* A jump changes nothing but the place.
LEMMA GotoType ==
    ASSUME w \in WorkerStates, NEW pc \in Pcs, Goto(pc)
    PROVE  w' \in WorkerStates /\ w'.pc = pc /\ w'.cur = w.cur
  BY DEF Goto, WorkerStates

\* A jump that remembers a policy, or the contents of a listing.
LEMMA RememberType ==
    ASSUME w \in WorkerStates, NEW pc \in Pcs, NEW p \in Policies,
           w' = [w EXCEPT !.pc = pc, !.policy = p]
    PROVE  w' \in WorkerStates /\ w'.pc = pc /\ w'.cur = w.cur
  BY DEF WorkerStates
LEMMA ListingType ==
    ASSUME w \in WorkerStates, NEW pc \in Pcs, NEW c \in Contents,
           w' = [w EXCEPT !.pc = pc, !.snap = c]
    PROVE  w' \in WorkerStates /\ w'.pc = pc /\ w'.cur = w.cur
  BY DEF WorkerStates

\* The loop over the items of a transfer advances.
LEMMA NextItemType ==
    ASSUME w \in WorkerStates, w.cur \in Items, NextItem
    PROVE  w' \in WorkerStates /\ w'.pc = "items"
<1>1. "items" \in Pcs /\ "none" \in Destinations
  BY DEF Pcs, TransferPcs, Destinations
<1>2. QED
  BY <1>1, LoopIndex DEF NextItem, WorkerStates

\* The loop over the items of a cleanup advances.
LEMMA NextCleanupType ==
    ASSUME w \in WorkerStates, w.cur \in Items, NEW failed \in BOOLEAN,
           NextCleanup(failed)
    PROVE  w' \in WorkerStates /\ w'.pc = "cleanup"
<1>1. "cleanup" \in Pcs /\ (w.err \/ failed) \in BOOLEAN
  BY DEF Pcs, CleanupPcs
<1>2. QED
  BY <1>1, LoopIndex DEF NextCleanup, WorkerStates

\* A worker that ended or died is well typed.
LEMMA IdleType == IdleWorker \in WorkerStates /\ IdleWorker.pc = "idle"
<1>1. /\ "idle" \in Pcs /\ "none" \in Destinations
      /\ 1 \in 1..(N + 1) /\ Empty \in Contents
  BY DEF Pcs, Destinations, Contents, SourceContents
<1>2. QED
  BY <1>1 DEF IdleWorker, WorkerStates, Policies

\* Writing the current item, or its buckets.
LEMMA SetItemType ==
    ASSUME item \in [Items -> ItemRows], w.cur \in Items,
           NEW row \in ItemRows, SetItem(row)
    PROVE  item' \in [Items -> ItemRows]
  BY DEF SetItem

LEMMA SetBucketType ==
    ASSUME bucket \in [Items -> BucketStates], w.cur \in Items,
           NEW b \in BucketStates, SetBucket(b)
    PROVE  bucket' \in [Items -> BucketStates]
  BY DEF SetBucket

\* The current item and its buckets are rows of their types.
LEMMA CurrentTypes ==
    ASSUME TypeOK, w.cur \in Items
    PROVE  It \in ItemRows /\ Bk \in BucketStates
  BY DEF TypeOK, It, Bk

\* Changing the status, or the step, of a row.
LEMMA StatusType ==
    ASSUME NEW row \in ItemRows, NEW s \in ItemStatuses
    PROVE  [row EXCEPT !.status = s] \in ItemRows
  BY DEF ItemRows
LEMMA StepType ==
    ASSUME NEW row \in ItemRows, NEW s \in ItemSteps
    PROVE  [row EXCEPT !.step = s] \in ItemRows
  BY DEF ItemRows

\* A fault stays within its bound.
LEMMA FaultType ==
    ASSUME faults \in 0..MaxFaults, Fault
    PROVE  faults' \in 0..MaxFaults
  BY BoundsAssumption DEF Fault

\* Policies are closed under what the engine does to them.
LEMMA PolicyTypes ==
    ASSUME NEW p \in Policies
    PROVE  /\ BuildReadOnlyPolicy(p) \in Policies
           /\ BuildSourceCleanupPolicy(p) \in Policies
           /\ BuildTargetWriteLockPolicy(p) \in Policies
           /\ BuildSourceCopyGrantPolicy(p) \in Policies
           /\ p \ {"LOCK"} \in Policies
  BY DEF BuildReadOnlyPolicy, BuildSourceCleanupPolicy, WithoutReadOnly,
         BuildTargetWriteLockPolicy, BuildSourceCopyGrantPolicy, Policies,
         Statements, SourceManaged

\* Recording a protection keeps a row a row.
LEMMA JournalTypes ==
    ASSUME NEW row \in ItemRows, Bk \in BucketStates
    PROVE  JournalTargetLock(row) \in ItemRows /\ JournalReadOnly(row) \in ItemRows
  BY DEF JournalTargetLock, JournalReadOnly, ItemRows, BucketStates

\* The two puts of long-lived protections.
LEMMA PutTypes ==
    ASSUME TypeInv, NEW from \in Pcs \ FreePcs, NEW to \in Pcs \ FreePcs,
           PutTargetLock(from, to) \/ PutReadOnly(from, to)
    PROVE  TypeInv'
<1>1. w.cur \in Items /\ w.policy \in Policies
  BY DEF TypeInv, TypeOK, CurOK, PutTargetLock, PutReadOnly, WorkerStates
<1>2. w' \in WorkerStates /\ CurOK'
  BY <1>1, GotoType DEF TypeInv, TypeOK, CurOK, PutTargetLock, PutReadOnly
<1>3. bucket' \in [Items -> BucketStates]
  BY <1>1, PolicyTypes, CurrentTypes, SetBucketType
     DEF TypeInv, TypeOK, PutTargetLock, PutReadOnly, BucketStates
<1>4. QED
  BY <1>2, <1>3 DEF TypeInv, TypeOK, PutTargetLock, PutReadOnly

\* The operator's commands.
LEMMA CommandTypes == TypeInv /\ Command => TypeInv'
<1> SUFFICES ASSUME TypeInv, Command PROVE TypeInv'
  OBVIOUS
<1> USE DEF TypeInv, TypeOK, CurOK
<1>1. ASSUME NEW o \in Options, UpdateDraft(o) PROVE TypeInv'
  <2>1. \A row \in ItemRows :
          [row EXCEPT !.status = "pending", !.step = "create_bucket",
                      !.pre_sync_done = FALSE, !.ro = FALSE, !.ro_backup = {},
                      !.locked = FALSE, !.lock_backup = {}] \in ItemRows
    BY DEF ItemRows, ItemStatuses, ItemSteps, Policies
  <2>2. item' \in [Items -> ItemRows]
    BY <1>1, <2>1 DEF UpdateDraft
  <2>3. QED
    BY <1>1, <2>2, OptionsAssumption
       DEF UpdateDraft, MigrationRows, PreparationStatuses
<1>2. ASSUME NEW a \in BOOLEAN, RequestPrecheck(a) PROVE TypeInv'
  BY <1>2 DEF RequestPrecheck, MigrationRows, PreparationStatuses
<1>3. CASE PrecheckExpires
  BY <1>3 DEF PrecheckExpires, MigrationRows
<1>4. CASE StartMigration
  BY <1>4 DEF StartMigration, Requeued, MigrationRows, Statuses, ActiveStatuses,
              PreparationStatuses
<1>5. CASE RequestPause \/ StopMigration
  BY <1>5 DEF RequestPause, StopMigration, MigrationRows, Statuses, ActiveStatuses
<1>6. Requeued(mig) \in MigrationRows
  BY DEF Requeued, MigrationRows, Statuses, ActiveStatuses
<1>7. CASE ResumeMigration
  <2>1. item' \in [Items -> ItemRows]
    BY <1>7, StatusType DEF ResumeMigration, ItemStatuses
  <2>2. QED
    BY <1>6, <1>7, <2>1 DEF ResumeMigration
<1>8. CASE ContinueAfterPresync
  <2>1. \A row \in ItemRows :
          [row EXCEPT !.status = "pending", !.step = "apply_read_only"] \in ItemRows
    BY DEF ItemRows, ItemStatuses, ItemSteps
  <2>2. item' \in [Items -> ItemRows]
    BY <1>8, <2>1 DEF ContinueAfterPresync
  <2>3. QED
    BY <1>6, <1>8, <2>2 DEF ContinueAfterPresync
<1>9. ASSUME NEW S, Retry(S) PROVE TypeInv'
  <2>1. \A row \in ItemRows :
          [row EXCEPT !.status = "pending",
                      !.step = RetryStepForFailedItem(@)] \in ItemRows
    BY DEF RetryStepForFailedItem, ItemRows, ItemStatuses, ItemSteps
  <2>2. item' \in [Items -> ItemRows]
    BY <1>9, <2>1 DEF Retry
  <2>3. QED
    BY <1>6, <1>9, <2>2 DEF Retry
<1>10. ASSUME NEW op \in MaintenanceOps, RequestMaintenance(op) PROVE TypeInv'
  BY <1>10 DEF RequestMaintenance, MigrationRows, MaintenanceStatuses
<1>11. CASE DeleteMigration
  BY <1>11 DEF DeleteMigration, MigrationRows, Statuses
<1>12. CASE CommandAfterRevocation
  BY <1>12, FaultType
     DEF CommandAfterRevocation, Fault, MigrationRows, Statuses, FinalStatuses
<1>13. QED
  BY <1>1, <1>2, <1>3, <1>4, <1>5, <1>7, <1>8, <1>9, <1>10, <1>11, <1>12
     DEF Command

\* Committing a step and going round the loop.
LEMMA AdvanceType ==
    ASSUME TypeInv, w.cur \in Items, NEW s \in ItemSteps, AdvanceTo(s)
    PROVE  w' \in WorkerStates /\ CurOK' /\ item' \in [Items -> ItemRows]
<1>1. "loop" \in Pcs
  BY DEF Pcs, TransferPcs
<1>2. QED
  BY <1>1, GotoType, SetItemType, StepType, CurrentTypes
     DEF TypeInv, TypeOK, CurOK, AdvanceTo

\* An item ends with a status, and the loop advances.
LEMMA EndItemType ==
    ASSUME TypeInv, w.cur \in Items, NEW s \in ItemStatuses,
           SetItem([It EXCEPT !.status = s]), NextItem
    PROVE  w' \in WorkerStates /\ CurOK' /\ item' \in [Items -> ItemRows]
  BY NextItemType, SetItemType, StatusType, CurrentTypes
     DEF TypeInv, TypeOK, CurOK, FreePcs

LEMMA FailItemType ==
    ASSUME TypeInv, w.cur \in Items, FailItem
    PROVE  w' \in WorkerStates /\ CurOK' /\ item' \in [Items -> ItemRows]
  BY EndItemType DEF FailItem, ItemStatuses

\* The releases that a run may start.
LEMMA ReleaseSets ==
    /\ AllProtections \subseteq Releases
    /\ \A S \in SUBSET Items : TargetsToRelease(S) \subseteq Releases
  BY DEF AllProtections, SourcesToRelease, TargetsToRelease, Releases

LEMMA StartReleaseType ==
    ASSUME w \in WorkerStates, NEW then \in Destinations,
           NEW todo \in SUBSET Releases, StartRelease(then, todo)
    PROVE  w' \in WorkerStates /\ w'.pc = "release"
<1>1. "release" \in Pcs
  BY DEF Pcs
<1>2. QED
  BY <1>1 DEF StartRelease, WorkerStates

\* The loop over the items.
LEMMA ItemLoopTypes ==
    ASSUME TypeInv,
           \/ BeginTransfer \/ CancelRun \/ SeePause \/ PauseRun \/ SkipItem
           \/ ExecuteItem \/ ItemsDone \/ RunItem \/ ItemLoop \/ FinalCheck
    PROVE  TypeInv'
<1> USE DEF TypeInv, TypeOK, CurOK, FreePcs
<1>1. CASE BeginTransfer
  BY <1>1, GotoType DEF BeginTransfer, MigrationRows, Statuses, ActiveStatuses,
                        Pcs, TransferPcs
<1>2. CASE CancelRun
  BY <1>2, StartReleaseType, ReleaseSets DEF CancelRun, Destinations
<1>3. CASE PauseRun
  <2>1. item' \in [Items -> ItemRows]
    BY <1>3, StatusType DEF PauseRun, ItemStatuses
  <2>2. QED
    BY <1>3, <2>1, IdleType DEF PauseRun, MigrationRows, Statuses
<1>4. CASE SkipItem
  BY <1>4, NextItemType, LoopIndex DEF SkipItem, WorkerStates
<1>5. CASE ExecuteItem
  <2>1. w.cur \in Items
    BY <1>5, LoopIndex DEF ExecuteItem, WorkerStates
  <2>2. w' \in WorkerStates /\ CurOK' /\ item' \in [Items -> ItemRows]
    <3>1. CASE FailItem
      BY <2>1, <3>1, FailItemType
    <3>2. CASE SetItem([It EXCEPT !.status = "running"]) /\ Goto("item")
      BY <2>1, <3>2, GotoType, SetItemType, StatusType, CurrentTypes
         DEF ItemStatuses, Pcs, TransferPcs
    <3>3. QED
      BY <1>5, <3>1, <3>2 DEF ExecuteItem
  <2>3. QED
    BY <1>5, <2>2 DEF ExecuteItem
<1>6. CASE ItemsDone \/ SeePause \/ FinalCheck
  BY <1>6, GotoType DEF ItemsDone, SeePause, FinalCheck, Pcs, TransferPcs
<1>7. CASE RunItem
  <2>1. w.cur \in Items /\ It \in ItemRows /\ Bk \in BucketStates
    BY <1>7, CurrentTypes DEF RunItem
  <2>2. item' \in [Items -> ItemRows]
    BY <1>7, <2>1, SetItemType, JournalTypes DEF RunItem
  <2>3. w' \in WorkerStates /\ w'.cur = w.cur
    BY <1>7, <2>1, GotoType, RememberType
       DEF RunItem, BucketStates, Pcs, TransferPcs
  <2>4. QED
    BY <1>7, <2>1, <2>2, <2>3 DEF RunItem
<1>8. CASE ItemLoop
  <2>1. w.cur \in Items /\ It \in ItemRows
    BY <1>8, CurrentTypes DEF ItemLoop
  <2>2. CASE Goto(It.step) /\ UNCHANGED item
    BY <1>8, <2>1, <2>2, GotoType DEF ItemLoop, ItemRows, Pcs
  <2>3. ASSUME NEW s \in {"canceled", "paused"},
               SetItem([It EXCEPT !.status = s]), NextItem
        PROVE  TypeInv'
    BY <1>8, <2>1, <2>3, EndItemType DEF ItemLoop, ItemStatuses
  <2>4. QED
    BY <1>8, <2>2, <2>3 DEF ItemLoop
<1>9. QED
  BY <1>1, <1>2, <1>3, <1>4, <1>5, <1>6, <1>7, <1>8

\* The steps that set the destination up.
LEMMA SetupTypes ==
    ASSUME TypeInv,
           \/ LookForTarget \/ CreateBucket \/ RecordTargetCreated
           \/ FinishCreateBucket \/ CopyBucketSettings
           \/ FinishCopyBucketSettings \/ ApplyTargetLock \/ FinishTargetLock
           \/ TargetLockRefused
    PROVE  TypeInv'
<1> USE DEF TypeInv, TypeOK
<1>0. w.cur \in Items /\ It \in ItemRows /\ Bk \in BucketStates
  BY CurrentTypes
     DEF CurOK, FreePcs, LookForTarget, CreateBucket, RecordTargetCreated,
         FinishCreateBucket, CopyBucketSettings, FinishCopyBucketSettings,
         ApplyTargetLock, FinishTargetLock, TargetLockRefused
<1>n. \A row : NextStepAfterTargetSetup(row) \in ItemSteps
  BY DEF NextStepAfterTargetSetup, ItemSteps
<1>1. CASE LookForTarget
  BY <1>0, <1>1, GotoType, FailItemType DEF LookForTarget, CurOK, Pcs, TransferPcs
<1>2. CASE CreateBucket
  <2>1. [Bk EXCEPT !.target_by = "migration", !.target_policy = {},
                   !.target = Empty] \in BucketStates
    BY <1>0 DEF BucketStates, Policies, Contents, SourceContents
  <2>2. QED
    BY <1>0, <1>2, <2>1, GotoType, FailItemType, SetBucketType
       DEF CreateBucket, CurOK, Pcs, TransferPcs
<1>3. CASE RecordTargetCreated
  BY <1>0, <1>3, GotoType, SetItemType
     DEF RecordTargetCreated, CurOK, ItemRows, Pcs, TransferPcs
<1>4. CASE FinishCreateBucket
  BY <1>0, <1>4, <1>n, AdvanceType DEF FinishCreateBucket, ItemSteps
<1>5. CASE CopyBucketSettings
  BY <1>0, <1>5, GotoType, SetBucketType
     DEF CopyBucketSettings, CurOK, BucketStates, Pcs, TransferPcs
<1>6. CASE FinishCopyBucketSettings
  BY <1>0, <1>6, <1>n, AdvanceType DEF FinishCopyBucketSettings
<1>7. CASE ApplyTargetLock
  <2>1. item' \in [Items -> ItemRows]
    BY <1>0, <1>7, SetItemType, JournalTypes DEF ApplyTargetLock
  <2>2. w' \in WorkerStates /\ w'.cur = w.cur
    BY <1>0, <1>7, GotoType, RememberType
       DEF ApplyTargetLock, BucketStates, Pcs, TransferPcs
  <2>3. QED
    BY <1>0, <1>7, <2>1, <2>2 DEF ApplyTargetLock, CurOK
<1>8. CASE FinishTargetLock
  BY <1>0, <1>8, AdvanceType DEF FinishTargetLock, ItemSteps
<1>9. CASE TargetLockRefused
  <2>1. [It EXCEPT !.status = "failed", !.locked = FALSE,
                   !.lock_backup = {}] \in ItemRows
    BY <1>0 DEF ItemRows, ItemStatuses, Policies
  <2>2. [Bk EXCEPT !.target_policy = It.lock_backup] \in BucketStates
    BY <1>0 DEF ItemRows, BucketStates
  <2>3. QED
    BY <1>0, <1>9, <2>1, <2>2, SetItemType, SetBucketType, NextItemType, FaultType
       DEF TargetLockRefused, CurOK, FreePcs
<1>10. QED
  BY <1>1, <1>2, <1>3, <1>4, <1>5, <1>6, <1>7, <1>8, <1>9

\* Leaving the copy.
LEMMA LeaveSyncType ==
    ASSUME w \in WorkerStates, NEW reason \in Destinations, LeaveSync(reason)
    PROVE  w' \in WorkerStates /\ w'.pc \in {"grant_restore", "sync_done"}
             /\ w'.cur = w.cur
<1>1. "grant_restore" \in Pcs /\ "sync_done" \in Pcs
  BY DEF Pcs, TransferPcs
<1>2. QED
  BY <1>1 DEF LeaveSync, WorkerStates

\* The steps that copy and verify.
LEMMA SyncTypes ==
    ASSUME TypeInv,
           \/ BeginSync \/ JournalGrant \/ PutSourceCopyGrant \/ SyncCopy
           \/ SyncWrite \/ SyncInterrupted \/ RestoreGrantedPolicy
           \/ ClearGrantEffect \/ FinishSync \/ AwaitCutover \/ ApplyReadOnly
           \/ FinishReadOnly \/ VerifyRead \/ VerifyCompare \/ VerifyInterrupted
           \/ StrongVerificationFails \/ CompleteItem
    PROVE  TypeInv'
<1> USE DEF TypeInv, TypeOK
<1>0. w.cur \in Items /\ It \in ItemRows /\ Bk \in BucketStates
  BY CurrentTypes
     DEF CurOK, FreePcs, BeginSync, JournalGrant, PutSourceCopyGrant, SyncCopy,
         SyncWrite, SyncInterrupted, RestoreGrantedPolicy, ClearGrantEffect,
         FinishSync, AwaitCutover, ApplyReadOnly, FinishReadOnly, VerifyRead,
         VerifyCompare, VerifyInterrupted, StrongVerificationFails, CompleteItem
<1>b. /\ Bk.source \in Contents /\ Bk.source_policy \in Policies
      /\ w.policy \in Policies /\ w.snap \in Contents
      /\ \A c \in Contents : [Bk EXCEPT !.target = c] \in BucketStates
      /\ \A p \in Policies : [Bk EXCEPT !.source_policy = p] \in BucketStates
  BY <1>0 DEF BucketStates, Contents, WorkerStates
<1>1. CASE BeginSync
  <2>1. {"sync_done", "grant_journal", "sync_copy"} \subseteq Pcs
    BY DEF Pcs, TransferPcs
  <2>2. w' \in WorkerStates /\ w'.cur = w.cur
    BY <1>0, <1>b, <1>1, <2>1 DEF BeginSync, WorkerStates, Destinations
  <2>3. QED
    BY <1>0, <1>1, <2>2 DEF BeginSync, CurOK
<1>2. CASE JournalGrant
  <2>1. GrantEffect(Bk.source_policy) \in Effects
    BY <1>b DEF GrantEffect, Effects, EffectNames
  <2>2. [It EXCEPT !.effects = @ \cup {GrantEffect(Bk.source_policy)}] \in ItemRows
    BY <1>0, <2>1 DEF ItemRows
  <2>3. QED
    BY <1>0, <1>b, <1>2, <2>2, SetItemType, RememberType
       DEF JournalGrant, CurOK, Pcs, TransferPcs
<1>3. CASE PutSourceCopyGrant
  BY <1>0, <1>b, <1>3, GotoType, SetBucketType, PolicyTypes
     DEF PutSourceCopyGrant, CurOK, Pcs, TransferPcs
<1>4. CASE SyncCopy
  BY <1>0, <1>b, <1>4, GotoType, SetBucketType
     DEF SyncCopy, CurOK, Contents, Pcs, TransferPcs
<1>5. CASE SyncWrite
  <2>1. bucket' \in [Items -> BucketStates]
    BY <1>0, <1>b, <1>5, SetBucketType DEF SyncWrite
  <2>2. w' \in WorkerStates /\ w'.cur = w.cur
    BY <1>5, LeaveSyncType DEF SyncWrite, Destinations
  <2>3. QED
    BY <1>0, <1>5, <2>1, <2>2 DEF SyncWrite, CurOK
<1>6. CASE SyncInterrupted
  BY <1>0, <1>6, LeaveSyncType DEF SyncInterrupted, Destinations, CurOK
<1>7. CASE RestoreGrantedPolicy
  BY <1>0, <1>b, <1>7, GotoType, SetBucketType
     DEF RestoreGrantedPolicy, CurOK, Pcs, TransferPcs
<1>8. CASE ClearGrantEffect
  <2> DEFINE row == [It EXCEPT !.effects = {e \in @ : e.name # "source_copy_grant"}]
  <2>1. row \in ItemRows
    BY <1>0 DEF ItemRows
  <2>2. [row EXCEPT !.status = "failed"] \in ItemRows
    BY <2>1, StatusType DEF ItemStatuses
  <2> HIDE DEF row
  <2>3. CASE SetItem(row) /\ Goto("sync_done")
    BY <1>0, <1>8, <2>1, <2>3, SetItemType, GotoType
       DEF ClearGrantEffect, CurOK, Pcs, TransferPcs
  <2>4. CASE SetItem([row EXCEPT !.status = "failed"]) /\ NextItem
    BY <1>0, <1>8, <2>2, <2>4, SetItemType, NextItemType
       DEF ClearGrantEffect, CurOK, FreePcs
  <2>5. QED
    BY <1>8, <2>3, <2>4 DEF ClearGrantEffect, row
<1>9. CASE FinishSync
  <2>1. CASE StopInterruptedItem
    BY <1>0, <1>9, <2>1, EndItemType
       DEF FinishSync, StopInterruptedItem, ItemStatuses
  <2>2. CASE /\ SetItem([It EXCEPT !.pre_sync_done = TRUE,
                                   !.status = "awaiting_cutover",
                                   !.step = "awaiting_cutover"])
             /\ NextItem
    <3>1. [It EXCEPT !.pre_sync_done = TRUE, !.status = "awaiting_cutover",
                     !.step = "awaiting_cutover"] \in ItemRows
      BY <1>0 DEF ItemRows, ItemStatuses, ItemSteps
    <3>2. QED
      BY <1>0, <1>9, <2>2, <3>1, SetItemType, NextItemType
         DEF FinishSync, CurOK, FreePcs
  <2>3. CASE /\ SetItem([It EXCEPT !.step = "verify"])
             /\ w' = [w EXCEPT !.pc = "loop", !.then = "none"]
    <3>1. item' \in [Items -> ItemRows]
      BY <1>0, <2>3, SetItemType, StepType DEF ItemSteps
    <3>2. w' \in WorkerStates /\ w'.cur = w.cur
      BY <2>3 DEF WorkerStates, Destinations, Pcs, TransferPcs
    <3>3. QED
      BY <1>0, <1>9, <3>1, <3>2 DEF FinishSync, CurOK
  <2>4. QED
    BY <1>9, <2>1, <2>2, <2>3 DEF FinishSync
<1>10. CASE AwaitCutover
  BY <1>0, <1>10, EndItemType DEF AwaitCutover, ItemStatuses
<1>11. CASE ApplyReadOnly
  BY <1>0, <1>b, <1>11, SetItemType, JournalTypes, RememberType
     DEF ApplyReadOnly, CurOK, Pcs, TransferPcs
<1>12. CASE FinishReadOnly
  BY <1>0, <1>12, AdvanceType DEF FinishReadOnly, ItemSteps
<1>13. CASE VerifyRead
  <2>1. CASE StopInterruptedItem
    BY <1>0, <1>13, <2>1, EndItemType
       DEF VerifyRead, StopInterruptedItem, ItemStatuses
  <2>2. CASE w' = [w EXCEPT !.pc = "verify_compare", !.snap = Bk.source]
               /\ UNCHANGED item
    BY <1>0, <1>b, <1>13, <2>2, ListingType DEF VerifyRead, CurOK, Pcs, TransferPcs
  <2>3. QED
    BY <1>13, <2>1, <2>2 DEF VerifyRead
<1>14. CASE VerifyCompare
  <2>1. CASE FailItem
    BY <1>0, <1>14, <2>1, FailItemType DEF VerifyCompare
  <2>2. CASE Goto("verified") /\ UNCHANGED item
    BY <1>0, <1>14, <2>2, GotoType DEF VerifyCompare, CurOK, Pcs, TransferPcs
  <2>3. QED
    BY <1>14, <2>1, <2>2 DEF VerifyCompare
<1>15. CASE VerifyInterrupted
  BY <1>0, <1>15, EndItemType DEF VerifyInterrupted, StopInterruptedItem, ItemStatuses
<1>16. CASE StrongVerificationFails
  BY <1>0, <1>16, FailItemType DEF StrongVerificationFails
<1>17. CASE CompleteItem
  <2>1. [It EXCEPT !.status = "completed", !.step = "completed"] \in ItemRows
    BY <1>0 DEF ItemRows, ItemStatuses, ItemSteps
  <2>2. QED
    BY <1>0, <1>17, <2>1, SetItemType, NextItemType
       DEF CompleteItem, CurOK, FreePcs
<1>18. QED
  BY <1>1, <1>2, <1>3, <1>4, <1>5, <1>6, <1>7, <1>8, <1>9, <1>10, <1>11,
     <1>12, <1>13, <1>14, <1>15, <1>16, <1>17

\* The end of a run, and its faults.
LEMMA EndTypes ==
    ASSUME TypeInv, Finalize \/ TransferFault \/ FatalError \/ CreatorAccessRevoked
    PROVE  TypeInv'
<1> USE DEF TypeInv, TypeOK
<1>1. CASE Finalize
  <2>1. mig' \in MigrationRows
    BY <1>1 DEF Finalize, MigrationRows, Statuses, ActiveStatuses
  <2>2. w' \in WorkerStates /\ w'.pc \in FreePcs
    BY <1>1, IdleType, StartReleaseType, ReleaseSets
       DEF Finalize, FreePcs, Destinations
  <2>3. QED
    BY <1>1, <2>1, <2>2 DEF Finalize, CurOK
<1>2. CASE TransferFault
  <2>1. w.cur \in Items
    BY <1>2 DEF TransferFault, CurOK, FreePcs, ItemPcs, OutsideItems, TransferPcs, ItemSteps
  <2>2. CASE FailItem
    BY <1>2, <2>1, <2>2, FailItemType, FaultType DEF TransferFault
  <2>3. CASE LeaveSync("failed") /\ UNCHANGED item
    BY <1>2, <2>1, <2>3, LeaveSyncType, FaultType
       DEF TransferFault, CurOK, Destinations
  <2>4. QED
    BY <1>2, <2>2, <2>3 DEF TransferFault
<1>3. CASE FatalError
  <2>1. item' \in [Items -> ItemRows]
    BY <1>3, StatusType DEF FatalError, ItemStatuses
  <2>2. mig' \in MigrationRows
    BY <1>3 DEF FatalError, MigrationRows, Statuses, FinalStatuses
  <2>3. QED
    BY <1>3, <2>1, <2>2, IdleType, FaultType DEF FatalError, CurOK, FreePcs
<1>4. CASE CreatorAccessRevoked
  <2>1. {"revoked", "revoked_grant", "revoked_item"} \subseteq Pcs
    BY DEF Pcs, RevokedPcs
  <2>2. w' \in WorkerStates /\ w'.cur = w.cur
    BY <1>4, <2>1, GotoType DEF CreatorAccessRevoked
  <2>3. CASE w.pc \in {"start", "items", "final"}
    <3>1. w'.pc = "revoked"
      BY <1>4, <2>1, <2>3, GotoType DEF CreatorAccessRevoked, AtControlCheck
    <3>2. QED
      BY <1>4, <2>2, <3>1, FaultType
         DEF CreatorAccessRevoked, CurOK, FreePcs, MigrationRows, Statuses, FinalStatuses
  <2>4. CASE AtControlCheck
    <3>1. w.cur \in Items
      BY <2>4 DEF AtControlCheck, CurOK, FreePcs
    <3>2. QED
      BY <1>4, <2>2, <3>1, FaultType
         DEF CreatorAccessRevoked, CurOK, MigrationRows, Statuses, FinalStatuses
  <2>5. QED
    BY <1>4, <2>3, <2>4 DEF CreatorAccessRevoked
<1>5. QED
  BY <1>1, <1>2, <1>3, <1>4

\* The way out of a run whose creator lost access.
LEMMA RevokedTypes == ASSUME TypeInv, Revocation \/ RevokedGrantFault PROVE TypeInv'
<1> USE DEF TypeInv, TypeOK
<1>p. RevokedPcs \subseteq Pcs
  BY DEF Pcs
<1>0. w.pc \in RevokedPcs \ {"revoked"} =>
        /\ w.cur \in Items /\ It \in ItemRows /\ Bk \in BucketStates
        /\ w.policy \in Policies
  BY CurrentTypes DEF CurOK, FreePcs, RevokedPcs, WorkerStates
<1>1. CASE RestoreRevokedGrant
  <2>1. [Bk EXCEPT !.source_policy = w.policy] \in BucketStates
    BY <1>0, <1>1 DEF RestoreRevokedGrant, RevokedPcs, BucketStates
  <2>2. QED
    BY <1>0, <1>p, <1>1, <2>1, GotoType, SetBucketType
       DEF RestoreRevokedGrant, RevokedPcs, CurOK
<1>2. CASE ClearRevokedGrant
  <2>1. [It EXCEPT !.effects = {e \in @ : e.name # "source_copy_grant"}] \in ItemRows
    BY <1>0, <1>2 DEF ClearRevokedGrant, RevokedPcs, ItemRows
  <2>2. QED
    BY <1>0, <1>p, <1>2, <2>1, GotoType, SetItemType
       DEF ClearRevokedGrant, RevokedPcs, CurOK
<1>3. CASE RevokedGrantFault
  BY <1>0, <1>p, <1>3, GotoType DEF RevokedGrantFault, RevokedPcs, CurOK
<1>4. CASE FailRevokedItem
  BY <1>0, <1>p, <1>4, GotoType, SetItemType, StatusType
     DEF FailRevokedItem, RevokedPcs, CurOK, ItemStatuses
<1>5. CASE RevokedAgain
  BY <1>p, <1>5, GotoType
     DEF RevokedAgain, RevokedPcs, CurOK, FreePcs, MigrationRows, Statuses, FinalStatuses
<1>6. CASE RevokedRunEnds
  BY <1>6, IdleType DEF RevokedRunEnds, CurOK, FreePcs, MigrationRows
<1>7. QED
  BY <1>1, <1>2, <1>3, <1>4, <1>5, <1>6 DEF Revocation

\* The releases and the commits that end them.
LEMMA ReleaseTypes == ASSUME TypeInv, Release \/ ReleaseFault PROVE TypeInv'
<1> USE DEF TypeInv, TypeOK
<1>1. ASSUME NEW r \in w.todo, NEW ok \in BOOLEAN, Drop(r, ok), w.pc = "release"
      PROVE  w' \in WorkerStates /\ CurOK'
  <2>1. r \in Releases /\ (w.err \/ ~ok) \in BOOLEAN /\ (w.then # "restore") \in BOOLEAN
    BY DEF WorkerStates
  <2>2. QED
    BY <1>1, <2>1 DEF Drop, WorkerStates, CurOK, FreePcs
<1>2. ASSUME NEW r \in w.todo PROVE Released(r) \in BucketStates /\ r.item \in Items
  <2>1. r.item \in Items /\ bucket[r.item] \in BucketStates /\ item[r.item] \in ItemRows
    BY DEF WorkerStates, Releases
  <2>2. bucket[r.item].target_policy \ {"LOCK"} \in Policies
    BY <2>1, PolicyTypes DEF BucketStates
  <2>3. QED
    BY <2>1, <2>2 DEF Released, BucketOf, BucketStates, ItemRows
<1>3. CASE ReleaseProtection
  <2>1. PICK r \in w.todo :
          \/ /\ bucket' = [bucket EXCEPT ![r.item] = Released(r)]
             /\ Drop(r, PolicyVerified(r))
          \/ Drop(r, FALSE) /\ UNCHANGED bucket
    BY <1>3 DEF ReleaseProtection
  <2>2. w' \in WorkerStates /\ CurOK'
    BY <1>1, <1>3, <2>1 DEF ReleaseProtection, PolicyVerified
  <2>3. bucket' \in [Items -> BucketStates]
    BY <1>2, <2>1
  <2>4. QED
    BY <1>3, <2>2, <2>3 DEF ReleaseProtection
<1>4. CASE ReleaseFault
  <2>1. PICK r \in w.todo :
          /\ UNCHANGED bucket \/ bucket' = [bucket EXCEPT ![r.item] = Released(r)]
          /\ Drop(r, FALSE)
    BY <1>4 DEF ReleaseFault
  <2>2. w' \in WorkerStates /\ CurOK'
    BY <1>1, <1>4, <2>1 DEF ReleaseFault
  <2>3. bucket' \in [Items -> BucketStates]
    BY <1>2, <2>1
  <2>4. QED
    BY <1>4, <2>2, <2>3, FaultType DEF ReleaseFault
<1>5. \A i \in Items : Unprotected(i) \in ItemRows
  <2>1. \A row \in ItemRows :
          /\ [row EXCEPT !.ro = FALSE, !.ro_backup = {}] \in ItemRows
          /\ [row EXCEPT !.locked = FALSE, !.lock_backup = {}] \in ItemRows
    BY DEF ItemRows, Policies
  <2>2. QED
    BY <2>1 DEF Unprotected
<1>6. CASE CommitCanceled
  <2>1. item' \in [Items -> ItemRows]
    BY <1>5, <1>6, StatusType DEF CommitCanceled, ItemStatuses
  <2>2. QED
    BY <1>6, <2>1, IdleType
       DEF CommitCanceled, CurOK, FreePcs, MigrationRows, Statuses, FinalStatuses
<1>7. CASE CommitFinished
  <2>1. mig' \in MigrationRows
    BY <1>7 DEF CommitFinished, MigrationRows, Statuses, FinalStatuses
  <2>2. QED
    BY <1>5, <1>7, <2>1, IdleType DEF CommitFinished, CurOK, FreePcs
<1>8. CASE CommitRestored
  <2>1. mig' \in MigrationRows
    BY <1>8 DEF CommitRestored, MigrationRows, MaintenanceStatuses, PreparationStatuses
  <2>2. \A row \in ItemRows : [row EXCEPT !.receipt = NoReceipt] \in ItemRows
    BY DEF ItemRows
  <2>3. item' \in [Items -> ItemRows]
    BY <1>5, <1>8, <2>2 DEF CommitRestored
  <2>4. QED
    BY <1>8, <2>1, <2>3, IdleType DEF CommitRestored, CurOK, FreePcs
<1>9. QED
  BY <1>3, <1>4, <1>6, <1>7, <1>8 DEF Release

\* Maintenance: the recovery of temporary changes, and the loop.
LEMMA RecoveryTypes ==
    ASSUME TypeInv,
           \/ BeginMaintenance \/ RecoverEffect \/ ClearRecoveredEffect
           \/ RecoveryDone \/ RecoveryFault \/ CleanupLoop \/ MaintenanceFault
    PROVE  TypeInv'
<1> USE DEF TypeInv, TypeOK
<1>f. ASSUME NEW failed \in BOOLEAN, FinishMaintenance(failed)
      PROVE  mig' \in MigrationRows /\ w' \in WorkerStates /\ CurOK'
  BY <1>f, IdleType DEF FinishMaintenance, MigrationRows, MaintenanceStatuses,
                        CurOK, FreePcs
<1>1. CASE BeginMaintenance
  <2>1. "recover" \in Pcs /\ "cleanup" \in Pcs /\ "restore" \in Destinations
    BY DEF Pcs, CleanupPcs, Destinations
  <2>2. w' \in WorkerStates /\ CurOK'
    BY <1>1, <2>1 DEF BeginMaintenance, WorkerStates, CurOK, FreePcs
  <2>3. QED
    BY <1>1, <2>2 DEF BeginMaintenance, MigrationRows, MaintenanceStatuses
<1>2. CASE RecoverEffect
  <2>0. PICK i \in Items : \E e \in item[i].effects :
          /\ bucket' = [bucket EXCEPT ![i] =
                          IF e.name = "probe_bucket"
                          THEN [@ EXCEPT !.probe = FALSE]
                          ELSE [@ EXCEPT !.source_policy = e.policy]]
          /\ w' = [w EXCEPT !.pc = "recover_clear", !.cur = i]
    BY <1>2 DEF RecoverEffect
  <2>1. PICK e \in item[i].effects :
          /\ bucket' = [bucket EXCEPT ![i] =
                          IF e.name = "probe_bucket"
                          THEN [@ EXCEPT !.probe = FALSE]
                          ELSE [@ EXCEPT !.source_policy = e.policy]]
          /\ w' = [w EXCEPT !.pc = "recover_clear", !.cur = i]
    BY <2>0
  <2>2. e.policy \in Policies
    BY DEF ItemRows, Effects
  <2>3. /\ [bucket[i] EXCEPT !.probe = FALSE] \in BucketStates
        /\ [bucket[i] EXCEPT !.source_policy = e.policy] \in BucketStates
    BY <2>2 DEF BucketStates
  <2>4. bucket' \in [Items -> BucketStates]
    BY <2>1, <2>3
  <2>5. w' \in WorkerStates /\ w'.cur = i
    BY <2>1, LoopIndex DEF WorkerStates, Pcs
  <2>6. QED
    BY <1>2, <2>4, <2>5 DEF RecoverEffect, CurOK
<1>3. CASE ClearRecoveredEffect
  <2>1. w.cur \in Items /\ It \in ItemRows
    BY <1>3, CurrentTypes DEF ClearRecoveredEffect, CurOK, FreePcs
  <2>2. \A e : [It EXCEPT !.effects = @ \ {e}] \in ItemRows
    BY <2>1 DEF ItemRows
  <2>3. item' \in [Items -> ItemRows]
    BY <1>3, <2>1, <2>2, SetItemType DEF ClearRecoveredEffect
  <2>4. QED
    BY <1>3, <2>1, <2>3, GotoType DEF ClearRecoveredEffect, CurOK, FreePcs, Pcs
<1>4. CASE RecoveryDone
  <2>1. /\ "release" \in Pcs /\ "check_item" \in Pcs
        /\ 1 \in 1..(N + 1) /\ 0 \in 0..5 /\ AllProtections \subseteq Releases
    BY ReleaseSets DEF Pcs, CheckPcs
  <2>2. CASE w' = [w EXCEPT !.pc = "release", !.cur = 1, !.todo = AllProtections]
    BY <1>4, <2>1, <2>2 DEF RecoveryDone, WorkerStates, CurOK, FreePcs
  <2>3. CASE w' = [w EXCEPT !.pc = "check_item", !.cur = 1, !.task = 0]
    <3>1. w' \in WorkerStates /\ w'.pc = "check_item"
      BY <2>1, <2>3 DEF WorkerStates
    <3>2. QED
      BY <1>4, <3>1 DEF RecoveryDone, CurOK, FreePcs
  <2>4. QED
    BY <1>4, <2>2, <2>3 DEF RecoveryDone
<1>5. CASE RecoveryFault
  <2>1. mig' \in MigrationRows /\ w' \in WorkerStates /\ CurOK'
    BY <1>5, <1>f, IdleType
       DEF RecoveryFault, MigrationRows, PreparationStatuses, CurOK, FreePcs
  <2>2. QED
    BY <1>5, <2>1, FaultType DEF RecoveryFault
<1>6. CASE CleanupLoop
  <2>1. {"cs_lock", "ct_lock"} \subseteq Pcs
    BY DEF Pcs, CleanupPcs
  <2>2. mig' \in MigrationRows /\ w' \in WorkerStates /\ CurOK'
    BY <1>6, <1>f, <2>1, GotoType, NextCleanupType, LoopIndex
       DEF CleanupLoop, WorkerStates, CurOK, FreePcs
  <2>3. QED
    BY <1>6, <2>2 DEF CleanupLoop
<1>7. CASE MaintenanceFault
  BY <1>7, <1>f, FaultType DEF MaintenanceFault
<1>8. QED
  BY <1>1, <1>2, <1>3, <1>4, <1>5, <1>6, <1>7

\* Maintenance: the cleanup of one item.
LEMMA CleanupTypes ==
    ASSUME TypeInv,
           \/ CleanupLockTarget \/ CleanupHashTarget \/ CleanupReadOnly
           \/ CleanupHashSource \/ CleanupCheckSource \/ CleanupPutPolicy
           \/ PurgeSource \/ RemoveSource \/ RecordSourceDeleted
           \/ CleanupUnlockTarget \/ FinishSourceCleanup \/ LockFailedTarget
           \/ PurgeTarget \/ RemoveTarget \/ FinishTargetCleanup \/ CleanupFault
    PROVE  TypeInv'
<1> USE DEF TypeInv, TypeOK
<1>0. w.cur \in Items /\ It \in ItemRows /\ Bk \in BucketStates
  BY CurrentTypes
     DEF CurOK, FreePcs, CleanupLockTarget, CleanupHashTarget, CleanupReadOnly,
         CleanupHashSource, CleanupCheckSource, CleanupPutPolicy, PurgeSource,
         RemoveSource, RecordSourceDeleted, CleanupUnlockTarget,
         FinishSourceCleanup, LockFailedTarget, PurgeTarget, RemoveTarget,
         FinishTargetCleanup, CleanupFault, CleanupPcs
<1>b. /\ Bk.source_policy \in Policies /\ Bk.target_policy \in Policies
      /\ Bk.target \in Contents /\ w.snap \in Contents
      /\ It.ro_backup \in Policies /\ It.lock_backup \in Policies
      /\ \A p \in Policies : [Bk EXCEPT !.source_policy = p] \in BucketStates
      /\ \A p \in Policies : [Bk EXCEPT !.target_policy = p] \in BucketStates
  BY <1>0 DEF BucketStates, ItemRows, WorkerStates
<1>p. CleanupPcs \subseteq Pcs
  BY DEF Pcs
<1>r. ASSUME CleanupRefused
      PROVE  /\ w' \in WorkerStates /\ CurOK'
             /\ item' \in [Items -> ItemRows] /\ bucket' \in [Items -> BucketStates]
  BY <1>0, <1>r, NextCleanupType DEF CleanupRefused, CurOK, FreePcs
<1>1. CASE CleanupLockTarget
  <2>1. CASE CleanupRefused
    BY <1>1, <1>r, <2>1 DEF CleanupLockTarget
  <2>2. CASE /\ SetItem(JournalTargetLock(It))
             /\ w' = [w EXCEPT !.pc = "cs_lock_put", !.policy = Bk.target_policy,
                               !.receipt = (It.receipt # NoReceipt)]
             /\ UNCHANGED bucket
    <3>1. w' \in WorkerStates /\ w'.cur = w.cur
      BY <1>b, <1>p, <2>2 DEF WorkerStates, CleanupPcs
    <3>2. item' \in [Items -> ItemRows]
      BY <1>0, <2>2, SetItemType, JournalTypes
    <3>3. QED
      BY <1>0, <1>1, <2>2, <3>1, <3>2 DEF CleanupLockTarget, CurOK
  <2>3. CASE /\ SetBucket([Bk EXCEPT !.target_policy =
                             BuildTargetWriteLockPolicy(It.lock_backup)])
             /\ w' = [w EXCEPT !.pc = "cs_target_hash",
                               !.receipt = (It.receipt # NoReceipt)]
             /\ UNCHANGED item
    <3>1. w' \in WorkerStates /\ w'.cur = w.cur
      BY <1>p, <2>3 DEF WorkerStates, CleanupPcs
    <3>2. bucket' \in [Items -> BucketStates]
      BY <1>0, <1>b, <2>3, SetBucketType, PolicyTypes
    <3>3. QED
      BY <1>0, <1>1, <2>3, <3>1, <3>2 DEF CleanupLockTarget, CurOK
  <2>4. QED
    BY <1>1, <2>1, <2>2, <2>3 DEF CleanupLockTarget
<1>2. CASE CleanupHashTarget
  <2>1. CASE CleanupRefused
    BY <1>2, <1>r, <2>1 DEF CleanupHashTarget
  <2>2. CASE ~CleanupRefused
    BY <1>0, <1>b, <1>p, <1>2, <2>2, GotoType, ListingType
       DEF CleanupHashTarget, CleanupPcs, CurOK
  <2>3. QED
    BY <2>1, <2>2
<1>3. CASE CleanupReadOnly
  <2>1. CASE CleanupRefused
    BY <1>3, <1>r, <2>1 DEF CleanupReadOnly
  <2>2. CASE ~CleanupRefused
    BY <1>0, <1>b, <1>p, <1>3, <2>2, SetItemType, JournalTypes, RememberType
       DEF CleanupReadOnly, CleanupPcs, CurOK
  <2>3. QED
    BY <2>1, <2>2
<1>4. CASE CleanupHashSource
  <2>1. CASE CleanupRefused
    BY <1>4, <1>r, <2>1 DEF CleanupHashSource
  <2>2. [It EXCEPT !.receipt = w.snap] \in ItemRows
    BY <1>0, <1>b DEF ItemRows
  <2>3. CASE ~CleanupRefused
    BY <1>0, <1>p, <1>4, <2>2, <2>3, SetItemType, GotoType
       DEF CleanupHashSource, CleanupPcs, CurOK
  <2>4. QED
    BY <2>1, <2>3
<1>5. CASE CleanupCheckSource
  <2>1. CASE CleanupRefused
    BY <1>5, <1>r, <2>1 DEF CleanupCheckSource
  <2>2. CASE ~CleanupRefused
    BY <1>0, <1>p, <1>5, <2>2, GotoType DEF CleanupCheckSource, CleanupPcs, CurOK
  <2>3. QED
    BY <2>1, <2>2
<1>6. CASE CleanupPutPolicy
  BY <1>0, <1>b, <1>p, <1>6, GotoType, SetBucketType, PolicyTypes
     DEF CleanupPutPolicy, CleanupPcs, CurOK
<1>7. CASE PurgeSource
  <2>1. [Bk EXCEPT !.source = Empty] \in BucketStates
    BY <1>0 DEF BucketStates, SourceContents
  <2>2. QED
    BY <1>0, <1>p, <1>7, <2>1, GotoType, SetBucketType
       DEF PurgeSource, CleanupPcs, CurOK
<1>8. CASE RemoveSource
  <2>1. [Bk EXCEPT !.source_exists = FALSE, !.source_policy = {}] \in BucketStates
    BY <1>0 DEF BucketStates, Policies
  <2>2. QED
    BY <1>0, <1>p, <1>8, <2>1, GotoType, SetBucketType
       DEF RemoveSource, CleanupPcs, CurOK
<1>9. CASE RecordSourceDeleted
  <2>1. [It EXCEPT !.source_deleted = TRUE, !.ro = FALSE, !.ro_backup = {}] \in ItemRows
    BY <1>0 DEF ItemRows, Policies
  <2>2. QED
    BY <1>0, <1>p, <1>9, <2>1, GotoType, SetItemType
       DEF RecordSourceDeleted, CleanupPcs, CurOK
<1>10. CASE CleanupUnlockTarget
  BY <1>0, <1>b, <1>p, <1>10, GotoType, SetBucketType
     DEF CleanupUnlockTarget, CleanupPcs, CurOK
<1>11. CASE FinishSourceCleanup
  <2>1. [It EXCEPT !.locked = FALSE, !.lock_backup = {}] \in ItemRows
    BY <1>0 DEF ItemRows, Policies
  <2>2. QED
    BY <1>0, <1>11, <2>1, NextCleanupType, SetItemType
       DEF FinishSourceCleanup, CurOK, FreePcs
<1>12. CASE LockFailedTarget
  <2>1. CASE CleanupRefused
    BY <1>12, <1>r, <2>1 DEF LockFailedTarget
  <2>2. CASE ~CleanupRefused
    BY <1>0, <1>b, <1>p, <1>12, <2>2, GotoType, SetItemType, JournalTypes,
       RememberType
       DEF LockFailedTarget, CleanupPcs, CurOK
  <2>3. QED
    BY <2>1, <2>2
<1>13. CASE PurgeTarget
  <2>1. [Bk EXCEPT !.target = Empty] \in BucketStates
    BY <1>0 DEF BucketStates, Contents, SourceContents
  <2>2. QED
    BY <1>0, <1>p, <1>13, <2>1, GotoType, SetBucketType
       DEF PurgeTarget, CleanupPcs, CurOK
<1>14. CASE RemoveTarget
  <2>1. [Bk EXCEPT !.target_by = "nobody", !.target_policy = {}] \in BucketStates
    BY <1>0 DEF BucketStates, Policies
  <2>2. QED
    BY <1>0, <1>p, <1>14, <2>1, GotoType, SetBucketType
       DEF RemoveTarget, CleanupPcs, CurOK
<1>15. CASE FinishTargetCleanup
  <2>1. CASE CleanupRefused
    BY <1>15, <1>r, <2>1 DEF FinishTargetCleanup
  <2>2. [It EXCEPT !.created = FALSE, !.locked = FALSE, !.lock_backup = {},
                   !.pre_sync_done = FALSE, !.step = "create_bucket"] \in ItemRows
    BY <1>0 DEF ItemRows, Policies, ItemSteps
  <2>3. CASE ~CleanupRefused
    BY <1>0, <1>15, <2>2, <2>3, NextCleanupType, SetItemType
       DEF FinishTargetCleanup, CurOK, FreePcs
  <2>4. QED
    BY <2>1, <2>3
<1>16. CASE CleanupFault
  BY <1>16, <1>r, FaultType DEF CleanupFault
<1>17. QED
  BY <1>1, <1>2, <1>3, <1>4, <1>5, <1>6, <1>7, <1>8, <1>9, <1>10, <1>11,
     <1>12, <1>13, <1>14, <1>15, <1>16

\* The checks of a draft.
LEMMA PreparationTypes ==
    ASSUME TypeInv, Preparation \/ PreparationFaults PROVE TypeInv'
<1> USE DEF TypeInv, TypeOK
<1>t. \A t \in 0..5 : TaskAfter(t) \in 0..5
  BY DEF TaskAfter
<1>u. w.task \in 0..5 /\ TaskAfterRefusal \in 0..5
  BY <1>t DEF WorkerStates, TaskAfterRefusal
<1>k. {"check_item", "check_begin", "check_put", "check_restore",
       "check_clear"} \subseteq Pcs
  BY DEF Pcs, CheckPcs
<1>b. ASSUME w.cur \in Items, NEW t \in 0..5, NEW failed \in BOOLEAN,
             BeginTask(t, failed)
      PROVE  w' \in WorkerStates /\ CurOK'
  <2>1. (w.err \/ failed) \in BOOLEAN
    OBVIOUS
  <2>2. CASE t = 0
    BY <1>b, <1>k, <2>1, <2>2, LoopIndex DEF BeginTask, WorkerStates, CurOK, FreePcs
  <2>3. CASE t # 0
    <3>1. w' = [w EXCEPT !.pc = IF t = 5 THEN "check_restore" ELSE "check_begin",
                         !.task = t, !.err = (w.err \/ failed)]
      BY <1>b, <2>3 DEF BeginTask
    <3>2. QED
      BY <1>b, <1>k, <2>1, <3>1 DEF WorkerStates, CurOK
  <2>4. QED
    BY <2>2, <2>3
<1>1. CASE CheckItem
  <2>1. w.cur \in Items
    BY <1>1, LoopIndex DEF CheckItem, WorkerStates
  <2>2. 0 \in 0..5 /\ TaskAfter(0) \in 0..5
    BY <1>t
  <2>3. w' \in WorkerStates /\ CurOK'
    BY <1>1, <1>b, <2>1, <2>2 DEF CheckItem
  <2>4. QED
    BY <1>1, <2>3 DEF CheckItem
<1>2. CASE JournalEffect
  <2>1. w.cur \in Items /\ It \in ItemRows /\ Bk \in BucketStates
    BY <1>2, CurrentTypes DEF JournalEffect, CurOK, FreePcs
  <2>2. CASE Journalled(w.task)
    BY <1>2, <1>b, <1>u, <2>1, <2>2 DEF JournalEffect
  <2>3. CASE ~Journalled(w.task)
    <3> DEFINE e == [name |-> EffectOf(w.task), at |-> w.task,
                     policy |-> IF w.task = 3 THEN {} ELSE Bk.source_policy]
    <3>1. e \in Effects
      BY <1>u, <2>1 DEF Effects, EffectNames, EffectOf, BucketStates, Policies
    <3>2. [It EXCEPT !.effects = @ \cup {e}] \in ItemRows
      BY <2>1, <3>1 DEF ItemRows
    <3>3. /\ SetItem([It EXCEPT !.effects = @ \cup {e}])
          /\ w' = [w EXCEPT !.pc = "check_put", !.policy = Bk.source_policy]
      BY <1>2, <2>3 DEF JournalEffect
    <3>4. w' \in WorkerStates /\ w'.cur = w.cur
      BY <1>k, <2>1, <3>3, RememberType DEF BucketStates
    <3>5. item' \in [Items -> ItemRows]
      BY <2>1, <3>2, <3>3, SetItemType
    <3>6. QED
      BY <1>2, <2>1, <3>4, <3>5 DEF JournalEffect, CurOK
  <2>4. QED
    BY <2>2, <2>3
<1>c. ASSUME w.pc = "check_put"
      PROVE  w.cur \in Items /\ Changed \in BucketStates
  <2>1. w.cur \in Items /\ Bk \in BucketStates /\ w.policy \in Policies
    BY <1>c, CurrentTypes DEF CurOK, FreePcs, WorkerStates
  <2>2. QED
    BY <2>1, PolicyTypes DEF Changed, BucketStates
<1>a. ASSUME w.cur \in Items, NEW failed \in BOOLEAN, AfterChange(failed)
      PROVE  w' \in WorkerStates /\ CurOK'
  <2>1. CASE w.task = 3
    BY <1>a, <1>b, <1>t, <2>1 DEF AfterChange
  <2>2. CASE w.task # 3
    <3>1. (w.err \/ failed) \in BOOLEAN
      OBVIOUS
    <3>2. w' = [w EXCEPT !.pc = "check_restore", !.err = (w.err \/ failed)]
      BY <1>a, <2>2 DEF AfterChange
    <3>3. QED
      BY <1>a, <1>k, <3>1, <3>2 DEF WorkerStates, CurOK
  <2>3. QED
    BY <2>1, <2>2
<1>3. CASE ApplyChange
  BY <1>3, <1>a, <1>c, SetBucketType DEF ApplyChange
<1>4. CASE UndoChange
  <2>1. w.cur \in Items /\ Bk \in BucketStates /\ w.policy \in Policies
    BY <1>4, CurrentTypes DEF UndoChange, CurOK, FreePcs, WorkerStates
  <2>2. /\ [Bk EXCEPT !.probe = FALSE] \in BucketStates
        /\ [Bk EXCEPT !.source_policy = w.policy] \in BucketStates
    BY <2>1 DEF BucketStates
  <2>3. QED
    BY <1>4, <1>k, <2>1, <2>2, SetBucketType, GotoType DEF UndoChange, CurOK
<1>5. CASE ClearEffect
  <2>1. w.cur \in Items /\ It \in ItemRows
    BY <1>5, CurrentTypes DEF ClearEffect, CurOK, FreePcs
  <2>2. [It EXCEPT !.effects = {e \in @ : e.name # EffectOf(w.task)}] \in ItemRows
    BY <2>1 DEF ItemRows
  <2>3. QED
    BY <1>5, <1>b, <1>t, <1>u, <2>1, <2>2, SetItemType DEF ClearEffect
<1>6. CASE ReportChecks
  BY <1>6, IdleType
     DEF ReportChecks, MigrationRows, PreparationStatuses, CurOK, FreePcs
<1>7. CASE CheckFault
  <2>1. w.cur \in Items
    BY <1>7 DEF CheckFault, CurOK, FreePcs
  <2>2. w' \in WorkerStates /\ CurOK'
    BY <1>7, <1>a, <1>b, <1>u, <2>1 DEF CheckFault
  <2>3. bucket' \in [Items -> BucketStates]
    BY <1>7, <1>c DEF CheckFault
  <2>4. QED
    BY <1>7, <2>2, <2>3, FaultType DEF CheckFault
<1>8. CASE ChecksInterrupted
  BY <1>8, IdleType, FaultType
     DEF ChecksInterrupted, MigrationRows, PreparationStatuses, CurOK, FreePcs
<1>9. QED
  BY <1>1, <1>2, <1>3, <1>4, <1>5, <1>6, <1>7, <1>8
     DEF Preparation, PreparationFaults

\* The puts of long-lived protections, wherever they happen.
LEMMA AllPutTypes ==
    ASSUME TypeInv,
           \/ PutTargetLock("relock_put", "loop")
           \/ PutTargetLock("lock_put", "lock_done")
           \/ PutTargetLock("cs_lock_put", "cs_target_hash")
           \/ PutTargetLock("ct_lock_put", "ct_purge")
           \/ PutReadOnly("read_only_put", "read_only_done")
           \/ PutReadOnly("cs_read_only_put", "cs_source_hash")
    PROVE  TypeInv'
<1>1. {"relock_put", "loop", "lock_put", "lock_done", "read_only_put",
       "read_only_done", "cs_lock_put", "cs_target_hash", "ct_lock_put",
       "ct_purge", "cs_read_only_put", "cs_source_hash"} \subseteq Pcs \ FreePcs
  BY DEF Pcs, TransferPcs, CleanupPcs, FreePcs
<1>2. QED
  BY <1>1, PutTypes

\* Claims, the end of a lease and the death of a worker.
LEMMA LeaseTypes ==
    ASSUME TypeInv, Claim \/ ClaimPreparation \/ LeaseExpires \/ Crash
    PROVE  TypeInv'
<1> USE DEF TypeInv, TypeOK
<1>1. \A b \in BOOLEAN : [mig EXCEPT !.leased = b] \in MigrationRows
  BY DEF MigrationRows
<1>2. {"start", "recover"} \subseteq Pcs /\ "checks" \in Destinations
  BY DEF Pcs, TransferPcs, Destinations
<1>3. CASE Claim
  <2>1. [IdleWorker EXCEPT !.pc = "start"] \in WorkerStates
    BY <1>2, IdleType DEF WorkerStates
  <2>2. w'.pc = "start"
    BY <1>3, IdleType DEF Claim, WorkerStates
  <2>3. QED
    BY <1>1, <1>3, <2>1, <2>2 DEF Claim, CurOK, FreePcs
<1>4. CASE ClaimPreparation
  <2>1. [IdleWorker EXCEPT !.pc = "recover", !.then = "checks"] \in WorkerStates
    BY <1>2, IdleType DEF WorkerStates
  <2>2. w'.pc = "recover"
    BY <1>4, IdleType DEF ClaimPreparation, WorkerStates
  <2>3. QED
    BY <1>1, <1>4, <2>1, <2>2 DEF ClaimPreparation, CurOK, FreePcs
<1>5. CASE LeaseExpires
  BY <1>1, <1>5 DEF LeaseExpires, CurOK
<1>6. CASE Crash
  BY <1>6, IdleType, FaultType DEF Crash, CurOK, FreePcs
<1>7. QED
  BY <1>3, <1>4, <1>5, <1>6

\* The clients of the buckets.
LEMMA ClientTypes == ASSUME TypeInv, Client PROVE TypeInv'
<1> USE DEF TypeInv, TypeOK
<1>1. PICK i \in Items : \/ ClientWritesSource(i)
                         \/ ClientWritesTarget(i)
                         \/ OtherCreatesTarget(i)
  BY DEF Client
<1>2. bucket' \in [Items -> BucketStates]
  <2>0. bucket[i] \in BucketStates
    OBVIOUS
  <2>1. CASE ClientWritesSource(i)
    <3>1. bucket[i].source + 1 \in SourceContents
      BY <2>1, BoundsAssumption DEF ClientWritesSource, SourceContents
    <3>2. [bucket[i] EXCEPT !.source = bucket[i].source + 1] \in BucketStates
      BY <2>0, <3>1 DEF BucketStates
    <3>3. QED
      BY <2>1, <3>2 DEF ClientWritesSource
  <2>2. CASE ClientWritesTarget(i)
    <3>1. [bucket[i] EXCEPT !.target = Tampered] \in BucketStates
      BY <2>0 DEF BucketStates, Contents
    <3>2. QED
      BY <2>2, <3>1 DEF ClientWritesTarget
  <2>3. CASE OtherCreatesTarget(i)
    <3>1. [bucket[i] EXCEPT !.target_by = "other", !.target = Tampered,
                            !.target_policy = {}] \in BucketStates
      BY <2>0 DEF BucketStates, Contents, Policies
    <3>2. bucket' = [bucket EXCEPT ![i] =
                       [bucket[i] EXCEPT !.target_by = "other", !.target = Tampered,
                                         !.target_policy = {}]]
      BY <2>3 DEF OtherCreatesTarget
    <3>3. QED
      BY <3>1, <3>2
  <2>4. QED
    BY <1>1, <2>1, <2>2, <2>3
<1>3. UNCHANGED <<opt, mig, item, w, faults>>
  BY <1>1 DEF ClientWritesSource, ClientWritesTarget, OtherCreatesTarget
<1>4. QED
  BY <1>2, <1>3 DEF CurOK

(***************************************************************************)
(* The theorem.                                                            *)
(***************************************************************************)
\* A draft is well typed, and no worker runs.
LEMMA TypeInit == Init => TypeInv
<1> SUFFICES ASSUME Init PROVE TypeInv
  OBVIOUS
<1>1. opt \in OptionSet
  BY OptionsAssumption DEF Init
<1>2. mig \in MigrationRows
  BY DEF Init, MigrationRows, Statuses, PreparationStatuses,
         MaintenanceStatuses, MaintenanceOps
<1>3. item \in [Items -> ItemRows]
  <2>1. DraftItem \in ItemRows
    BY DEF DraftItem, ItemRows, ItemStatuses, ItemSteps, Policies
  <2>2. QED
    BY <2>1 DEF Init
<1>4. bucket \in [Items -> BucketStates]
  <2>1. PICK own \in {{}, {"own"}} :
          bucket = [i \in Items |->
                     [source_exists |-> TRUE, source_policy |-> own, source |-> 0,
                      target_by |-> "nobody", target_policy |-> {},
                      target |-> Empty, probe |-> FALSE]]
    BY DEF Init
  <2>2. own \in Policies /\ {} \in Policies
    BY DEF Policies, Statements
  <2>3. 0 \in SourceContents /\ Empty \in Contents
    BY BoundsAssumption DEF SourceContents, Contents
  <2>4. QED
    BY <2>1, <2>2, <2>3 DEF BucketStates
<1>5. faults \in 0..MaxFaults
  BY BoundsAssumption DEF Init
<1>6. QED
  BY <1>1, <1>2, <1>3, <1>4, <1>5, IdleType
     DEF Init, TypeInv, TypeOK, CurOK, FreePcs

\* Every step keeps the types.
LEMMA TypeNext == TypeInv /\ [Next]_vars => TypeInv'
<1> SUFFICES ASSUME TypeInv, [Next]_vars PROVE TypeInv'
  OBVIOUS
<1>1. CASE Command
  BY <1>1, CommandTypes
<1>2. CASE Claim \/ ClaimPreparation \/ LeaseExpires \/ Crash
  BY <1>2, LeaseTypes
<1>3. CASE Transfer \/ TransferFaults \/ Revocation
  BY <1>3, ItemLoopTypes, SetupTypes, SyncTypes, EndTypes, AllPutTypes, RevokedTypes
     DEF Transfer, TransferFaults
<1>4. CASE Release \/ ReleaseFault
  BY <1>4, ReleaseTypes
<1>5. CASE Maintenance \/ MaintenanceFaults
  BY <1>5, RecoveryTypes, CleanupTypes, AllPutTypes
     DEF Maintenance, MaintenanceFaults
<1>6. CASE Preparation \/ PreparationFaults
  BY <1>6, PreparationTypes
<1>7. CASE Client
  BY <1>7, ClientTypes
<1>8. CASE UNCHANGED vars
  BY <1>8 DEF vars, TypeInv, TypeOK, CurOK
<1>9. QED
  BY <1>1, <1>2, <1>3, <1>4, <1>5, <1>6, <1>7, <1>8 DEF Next, Worker, Faults

\* The inductive invariant: the types, and a worker that is at work on an
\* item has one.
THEOREM TypeInvariant == Spec => []TypeInv
<1>1. QED
  BY TypeInit, TypeNext, PTL DEF Spec

\* Whatever the operators, the workers, the crashes, the failing S3 calls and
\* the clients do, in any number of items, every row of the migration, every
\* policy and the memory of the worker stay within their types: no status,
\* step or policy statement that the code does not declare is ever written,
\* and no step of a run indexes an item that does not exist.
THEOREM TypeCorrect == Spec => []TypeOK
<1>1. TypeInv => TypeOK
  BY DEF TypeInv
<1>2. QED
  BY <1>1, TypeInvariant, PTL

-----------------------------------------------------------------------------
(***************************************************************************)
(* The phases of a worker in state s, by the place it has reached and by   *)
(* where it goes next.                                                     *)
(***************************************************************************)
RunPcs == (TransferPcs \ {"start"}) \cup ItemSteps
InRun(s) ==
    s.pc \in RunPcs \/ (s.pc = "release" /\ s.then \in {"cancel", "finish"})
InMaintenance(s) ==
    \/ s.pc \in CleanupPcs
    \/ s.pc \in {"recover", "recover_clear", "release"} /\ s.then = "restore"
InChecks(s) ==
    s.pc \in CheckPcs \/ (s.pc \in {"recover", "recover_clear"} /\ s.then = "checks")

\* A phase of the worker is a state of the row.
PhaseOK ==
    /\ \/ w.pc \in {"idle", "start"} \cup RevokedPcs
       \/ InRun(w) \/ InMaintenance(w) \/ InChecks(w)
    /\ w.pc \in RevokedPcs => mig.status # "draft"
    /\ InRun(w) => mig.status \in ActiveStatuses
    /\ InMaintenance(w) => mig.maintenance = "running"
    /\ InChecks(w) => mig.preparation = "checking"
    /\ w.pc = "start" => \/ mig.status \in ActiveStatuses
                         \/ mig.maintenance \in {"queued", "running"}

ControlInv == TypeInv /\ WorkflowsExclusive /\ PhaseOK

\* A worker is in one phase at a time.
LEMMA PhasesDisjoint ==
    ASSUME NEW s
    PROVE  /\ InRun(s) => ~InMaintenance(s) /\ ~InChecks(s)
           /\ InMaintenance(s) => ~InChecks(s)
           /\ s.pc \in {"idle", "start"} \cup RevokedPcs =>
                ~InRun(s) /\ ~InMaintenance(s) /\ ~InChecks(s)
  BY DEF InRun, InMaintenance, InChecks, RunPcs, TransferPcs, ItemSteps,
         CleanupPcs, CheckPcs, RevokedPcs

\* A step within a phase that leaves the row alone.
LEMMA SamePhase ==
    ASSUME ControlInv, TypeInv', UNCHANGED mig,
           \/ InRun(w) /\ InRun(w')
           \/ InMaintenance(w) /\ InMaintenance(w')
           \/ InChecks(w) /\ InChecks(w')
    PROVE  ControlInv'
<1>1. PhaseOK'
  BY PhasesDisjoint DEF ControlInv, PhaseOK
<1>2. w.pc \notin {"idle"} \cup RevokedPcs /\ w'.pc # "idle"
  BY PhasesDisjoint
<1>3. WorkflowsExclusive'
  BY <1>2 DEF ControlInv, WorkflowsExclusive, Busy
<1>4. QED
  BY <1>1, <1>3 DEF ControlInv

\* A step after which no worker runs.
LEMMA WorkerEnds ==
    ASSUME TypeInv', w' = IdleWorker,
           mig'.preparation = "checking" =>
             mig'.status = "draft" /\ mig'.maintenance \notin {"queued", "running"},
           mig'.maintenance \in {"queued", "running"} =>
             mig'.status \notin ActiveStatuses
    PROVE  ControlInv'
<1>1. w'.pc = "idle"
  BY IdleType
<1>2. PhaseOK'
  BY <1>1, PhasesDisjoint DEF PhaseOK, RevokedPcs
<1>3. WorkflowsExclusive'
  BY <1>1 DEF WorkflowsExclusive
<1>4. QED
  BY <1>2, <1>3 DEF ControlInv

\* A command needs no worker, or leaves the phase of the worker alone.
LEMMA CommandControl == ASSUME ControlInv, Command PROVE ControlInv'
<1> USE DEF ControlInv
<1>1. TypeInv'
  BY CommandTypes
<1>2. w' = w /\ mig \in MigrationRows
  BY DEF Command, UpdateDraft, RequestPrecheck, PrecheckExpires, StartMigration,
         RequestPause, ResumeMigration, StopMigration, ContinueAfterPresync,
         Retry, RequestMaintenance, DeleteMigration, CommandAfterRevocation,
         TypeInv, TypeOK
<1>3. CASE ~Busy
  <2>1. w.pc \in {"idle"} \cup RevokedPcs
    BY <1>3 DEF WorkflowsExclusive
  <2>d. mig'.status = "draft" => mig.status = "draft"
    BY <1>2 DEF Command, UpdateDraft, RequestPrecheck, PrecheckExpires, StartMigration,
         RequestPause, ResumeMigration, StopMigration, ContinueAfterPresync,
         Retry, RequestMaintenance, DeleteMigration, CommandAfterRevocation,
         Requeued, MigrationRows
  <2>2. PhaseOK'
    <3>1. w.pc # "start"
      BY <2>1 DEF RevokedPcs
    <3>2. QED
      BY <1>2, <2>1, <2>d, <3>1, PhasesDisjoint DEF PhaseOK
  <2>3. WorkflowsExclusive'
    <3>1. CASE \/ \E o \in Options : UpdateDraft(o)
               \/ \E active \in BOOLEAN : RequestPrecheck(active)
               \/ PrecheckExpires \/ StartMigration \/ RequestPause
      BY <1>2, <1>3, <2>1, <3>1
         DEF UpdateDraft, RequestPrecheck, PrecheckExpires, StartMigration,
             RequestPause, CanEditDraft, CanStart, CanPause, Requeued,
             WorkflowsExclusive, Busy, MigrationRows, ActiveStatuses
    <3>2. CASE \/ ResumeMigration \/ StopMigration \/ ContinueAfterPresync
               \/ (\E i \in Items : Retry({i})) \/ Retry(FailedItems)
      BY <1>2, <1>3, <2>1, <3>2
         DEF ResumeMigration, StopMigration, ContinueAfterPresync, Retry,
             CanStop, Requeued, WorkflowsExclusive, Busy, MigrationRows,
             ActiveStatuses
    <3>3. CASE \/ \E op \in MaintenanceOps : RequestMaintenance(op)
               \/ DeleteMigration \/ CommandAfterRevocation
      BY <1>2, <1>3, <2>1, <3>3
         DEF RequestMaintenance, DeleteMigration, CommandAfterRevocation,
             WorkflowsExclusive, Busy, MigrationRows, ActiveStatuses
    <3>4. QED
      BY <3>1, <3>2, <3>3 DEF Command
  <2>4. QED
    BY <1>1, <2>2, <2>3
<1>4. CASE Busy
  <2>1. PrecheckExpires \/ RequestPause \/ StopMigration
    BY <1>4 DEF Command, UpdateDraft, RequestPrecheck, StartMigration,
         ResumeMigration, ContinueAfterPresync, Retry, RequestMaintenance,
         DeleteMigration, CommandAfterRevocation, CanEditDraft, CanStart,
         CanResume, CanCutover, CanRetry, CompletedWorkflow, CanRestoreAccess,
         CanCleanupSource, CanCleanupTarget, CanDelete, Idle
  <2>2. CASE PrecheckExpires
    BY <1>1, <1>2, <2>2
       DEF PrecheckExpires, MigrationRows, PhaseOK, WorkflowsExclusive, Busy
  <2>3. CASE RequestPause \/ StopMigration
    <3>1. /\ mig.status \in ActiveStatuses
          /\ mig.maintenance \notin {"queued", "running"}
          /\ mig.preparation # "checking"
      BY <1>4, <2>3 DEF RequestPause, CanPause, StopMigration, CanStop,
                        WorkflowsExclusive, Busy, ActiveStatuses
    <3>2. /\ mig'.status \in ActiveStatuses /\ mig'.leased = mig.leased
          /\ mig'.maintenance = mig.maintenance
          /\ mig'.preparation = mig.preparation
      BY <1>2, <2>3 DEF RequestPause, StopMigration, MigrationRows, ActiveStatuses
    <3>d. mig'.status # "draft"
      BY <3>2 DEF ActiveStatuses
    <3>3. QED
      BY <1>1, <1>2, <3>1, <3>2, <3>d DEF PhaseOK, WorkflowsExclusive, Busy
  <2>4. QED
    BY <2>1, <2>2, <2>3
<1>5. QED
  BY <1>3, <1>4

\* The places that a record update leads to.
LEMMA PlaceAfter ==
    ASSUME w \in WorkerStates
    PROVE  /\ \A pc : Goto(pc) => w'.pc = pc /\ w'.then = w.then
           /\ NextItem => w'.pc = "items"
           /\ \A failed : NextCleanup(failed) => w'.pc = "cleanup"
           /\ FailItem => w'.pc = "items"
           /\ StopInterruptedItem => w'.pc = "items"
           /\ \A step : AdvanceTo(step) => w'.pc = "loop"
           /\ \A reason : LeaveSync(reason) => w'.pc \in {"grant_restore", "sync_done"}
           /\ \A then, todo : StartRelease(then, todo) =>
                w'.pc = "release" /\ w'.then = then
  BY DEF Goto, NextItem, NextCleanup, FailItem, StopInterruptedItem, AdvanceTo,
         LeaveSync, StartRelease, WorkerStates

\* The steps of a run that leave the row of the migration alone.
LEMMA RunControl ==
    ASSUME ControlInv, TypeInv',
           \/ CancelRun \/ SeePause \/ SkipItem \/ ExecuteItem \/ ItemsDone \/ RunItem
           \/ PutTargetLock("relock_put", "loop") \/ ItemLoop
           \/ LookForTarget \/ CreateBucket \/ RecordTargetCreated
           \/ FinishCreateBucket \/ CopyBucketSettings \/ FinishCopyBucketSettings
           \/ ApplyTargetLock \/ PutTargetLock("lock_put", "lock_done")
           \/ FinishTargetLock \/ BeginSync \/ JournalGrant \/ PutSourceCopyGrant
           \/ SyncCopy \/ SyncWrite \/ SyncInterrupted \/ RestoreGrantedPolicy
           \/ ClearGrantEffect \/ FinishSync \/ AwaitCutover \/ ApplyReadOnly
           \/ PutReadOnly("read_only_put", "read_only_done") \/ FinishReadOnly
           \/ VerifyRead \/ VerifyCompare \/ VerifyInterrupted
           \/ StrongVerificationFails \/ CompleteItem \/ FinalCheck
           \/ TransferFault \/ TargetLockRefused
    PROVE  ControlInv'
<1>0. w \in WorkerStates /\ item \in [Items -> ItemRows]
  BY DEF ControlInv, TypeInv, TypeOK
<1>p. /\ w.pc \in RunPcs /\ w'.pc \in RunPcs => InRun(w) /\ InRun(w')
      /\ w.pc \in RunPcs => InRun(w)
  BY DEF InRun
<1>s. RunPcs = {"items", "item", "relock_put", "loop", "bucket_absent",
        "bucket_created", "bucket_ready", "settings_copied", "lock_put",
        "lock_done", "grant_journal", "grant_put", "sync_copy", "sync_write",
        "grant_restore", "grant_clear", "sync_done", "read_only_put",
        "read_only_done", "verify_compare", "verified", "final", "pausing",
        "finalize"} \cup ItemSteps
  BY DEF RunPcs, TransferPcs, ItemSteps
<1>1. CASE CancelRun
  <2>1. InRun(w) /\ InRun(w')
    BY <1>0, <1>1, <1>p, <1>s, PlaceAfter DEF CancelRun, InRun
  <2>2. QED
    BY <1>1, <2>1, SamePhase DEF CancelRun
<1>2. CASE \/ SeePause \/ SkipItem \/ ExecuteItem \/ ItemsDone \/ RunItem
           \/ PutTargetLock("relock_put", "loop") \/ FinalCheck
  <2>1. w.pc \in RunPcs /\ w'.pc \in RunPcs /\ UNCHANGED mig
    BY <1>0, <1>2, <1>s, PlaceAfter
       DEF SeePause, SkipItem, ExecuteItem, ItemsDone, RunItem, PutTargetLock,
           FinalCheck, WorkerStates
  <2>2. QED
    BY <1>p, <2>1, SamePhase
<1>3. CASE ItemLoop
  <2>1. It.step \in ItemSteps
    BY <1>0, <1>3, CurrentTypes
       DEF ItemLoop, ControlInv, TypeInv, CurOK, FreePcs, ItemRows
  <2>2. w.pc \in RunPcs /\ w'.pc \in RunPcs /\ UNCHANGED mig
    BY <1>0, <1>3, <1>s, <2>1, PlaceAfter DEF ItemLoop
  <2>3. QED
    BY <1>p, <2>2, SamePhase
<1>4. CASE \/ LookForTarget \/ CreateBucket \/ RecordTargetCreated
           \/ FinishCreateBucket \/ CopyBucketSettings \/ FinishCopyBucketSettings
           \/ ApplyTargetLock \/ PutTargetLock("lock_put", "lock_done")
           \/ FinishTargetLock \/ TargetLockRefused
  <2>1. w.pc \in RunPcs /\ w'.pc \in RunPcs /\ UNCHANGED mig
    BY <1>0, <1>4, <1>s, PlaceAfter
       DEF LookForTarget, CreateBucket, RecordTargetCreated, FinishCreateBucket,
           CopyBucketSettings, FinishCopyBucketSettings, ApplyTargetLock,
           PutTargetLock, FinishTargetLock, TargetLockRefused, WorkerStates,
           ItemSteps
  <2>2. QED
    BY <1>p, <2>1, SamePhase
<1>5. CASE \/ BeginSync \/ JournalGrant \/ PutSourceCopyGrant
           \/ SyncCopy \/ SyncWrite \/ SyncInterrupted
  <2>1. w.pc \in RunPcs /\ w'.pc \in RunPcs /\ UNCHANGED mig
    <3>1. CASE BeginSync
      BY <1>0, <3>1, <1>s, PlaceAfter DEF BeginSync, WorkerStates, ItemSteps
    <3>2. CASE JournalGrant
      BY <1>0, <3>2, <1>s DEF JournalGrant, WorkerStates
    <3>3. CASE PutSourceCopyGrant
      BY <1>0, <3>3, <1>s, PlaceAfter DEF PutSourceCopyGrant
    <3>4. CASE SyncCopy
      BY <1>0, <3>4, <1>s, PlaceAfter DEF SyncCopy
    <3>5. CASE SyncWrite \/ SyncInterrupted
      BY <1>0, <3>5, <1>s, PlaceAfter DEF SyncWrite, SyncInterrupted
    <3>6. QED
      BY <1>5, <3>1, <3>2, <3>3, <3>4, <3>5
  <2>2. QED
    BY <1>p, <2>1, SamePhase
<1>6. CASE RestoreGrantedPolicy \/ ClearGrantEffect \/ FinishSync \/ AwaitCutover
  <2>1. w.pc \in RunPcs /\ w'.pc \in RunPcs /\ UNCHANGED mig
    BY <1>0, <1>6, <1>s, PlaceAfter
       DEF RestoreGrantedPolicy, ClearGrantEffect, FinishSync, AwaitCutover,
           WorkerStates, ItemSteps
  <2>2. QED
    BY <1>p, <2>1, SamePhase
<1>7. CASE \/ ApplyReadOnly \/ PutReadOnly("read_only_put", "read_only_done")
           \/ FinishReadOnly
  <2>1. w.pc \in RunPcs /\ w'.pc \in RunPcs /\ UNCHANGED mig
    <3>1. CASE ApplyReadOnly
      BY <1>0, <3>1, <1>s DEF ApplyReadOnly, WorkerStates, ItemSteps
    <3>2. CASE PutReadOnly("read_only_put", "read_only_done")
      BY <1>0, <3>2, <1>s, PlaceAfter DEF PutReadOnly
    <3>3. CASE FinishReadOnly
      BY <1>0, <3>3, <1>s, PlaceAfter DEF FinishReadOnly
    <3>4. QED
      BY <1>7, <3>1, <3>2, <3>3
  <2>2. QED
    BY <1>p, <2>1, SamePhase
<1>11. CASE VerifyRead
  <2>1. w.pc \in RunPcs /\ UNCHANGED mig
    BY <1>11, <1>s DEF VerifyRead, ItemSteps
  <2>2. w'.pc \in {"verify_compare", "items"}
    BY <1>0, <1>11, PlaceAfter DEF VerifyRead, WorkerStates
  <2>3. QED
    BY <1>p, <1>s, <2>1, <2>2, SamePhase
<1>10. CASE \/ VerifyCompare \/ VerifyInterrupted
            \/ StrongVerificationFails \/ CompleteItem
  <2>1. w.pc \in RunPcs /\ w'.pc \in RunPcs /\ UNCHANGED mig
    BY <1>0, <1>10, <1>s, PlaceAfter
       DEF VerifyCompare, VerifyInterrupted, StrongVerificationFails, CompleteItem
  <2>2. QED
    BY <1>p, <2>1, SamePhase
<1>8. CASE TransferFault
  <2>1. ItemPcs \subseteq RunPcs
    BY DEF ItemPcs, OutsideItems, RunPcs
  <2>2. w.pc \in RunPcs /\ w'.pc \in RunPcs /\ UNCHANGED mig
    BY <1>0, <1>8, <1>s, <2>1, PlaceAfter DEF TransferFault
  <2>3. QED
    BY <1>p, <2>2, SamePhase
<1>9. QED
  BY <1>1, <1>2, <1>3, <1>4, <1>5, <1>6, <1>7, <1>8, <1>10, <1>11

\* The steps that begin a run, end it, or hand it over to a release.
LEMMA RunEndsControl ==
    ASSUME ControlInv, TypeInv',
           \/ BeginTransfer \/ PauseRun \/ Finalize \/ FatalError
           \/ CreatorAccessRevoked
    PROVE  ControlInv'
<1> USE DEF ControlInv
<1>0. w \in WorkerStates /\ mig \in MigrationRows
  BY DEF TypeInv, TypeOK
<1>1. CASE BeginTransfer
  <2>1. mig.status \in ActiveStatuses /\ mig.leased
    BY <1>1 DEF BeginTransfer, PhaseOK, WorkflowsExclusive, RevokedPcs
  <2>2. /\ mig'.status \in ActiveStatuses /\ mig'.leased = mig.leased
        /\ mig'.maintenance = mig.maintenance
        /\ mig'.preparation = mig.preparation
    BY <1>0, <1>1, <2>1 DEF BeginTransfer, MigrationRows, ActiveStatuses
  <2>3. w'.pc = "items"
    BY <1>0, <1>1, PlaceAfter DEF BeginTransfer
  <2>4. InRun(w')
    BY <2>3 DEF InRun, RunPcs, TransferPcs
  <2>5. PhaseOK'
    BY <2>2, <2>4, PhasesDisjoint DEF PhaseOK
  <2>6. mig.preparation # "checking"
    BY <2>1 DEF WorkflowsExclusive, ActiveStatuses
  <2>7. WorkflowsExclusive'
    BY <1>1, <2>1, <2>2, <2>6 DEF BeginTransfer, WorkflowsExclusive, Busy
  <2>8. QED
    BY <2>5, <2>7
<1>2. ASSUME \/ w.pc \in RunPcs
             \/ w.pc = "start" /\ mig.maintenance \notin {"queued", "running"}
      PROVE  /\ mig.status \in ActiveStatuses /\ mig.preparation # "checking"
             /\ mig.maintenance \notin {"queued", "running"}
  <2>1. w.pc \in RunPcs => InRun(w)
    BY DEF InRun
  <2>2. mig.status \in ActiveStatuses
    BY <1>2, <2>1 DEF PhaseOK
  <2>3. QED
    BY <2>2 DEF WorkflowsExclusive, ActiveStatuses
<1>3. CASE PauseRun \/ FatalError
  <2>1. /\ mig'.maintenance = mig.maintenance
        /\ mig'.preparation = mig.preparation /\ w' = IdleWorker
    BY <1>0, <1>3 DEF PauseRun, FatalError, MigrationRows
  <2>2. /\ mig.maintenance \notin {"queued", "running"}
        /\ mig.preparation # "checking"
    BY <1>2, <1>3 DEF PauseRun, FatalError, OutsideItems, RunPcs, TransferPcs
  <2>3. QED
    BY <2>1, <2>2, WorkerEnds
<1>6. CASE CreatorAccessRevoked
  <2>1. /\ mig'.maintenance = mig.maintenance /\ mig'.preparation = mig.preparation
        /\ mig'.status = "failed"
    BY <1>0, <1>6 DEF CreatorAccessRevoked, MigrationRows
  <2>2. w'.pc \in RevokedPcs
    BY <1>0, <1>6, PlaceAfter DEF CreatorAccessRevoked, RevokedPcs
  <2>3. w.pc \in RunPcs \/ w.pc = "start"
    BY <1>6 DEF CreatorAccessRevoked, AtControlCheck, RunPcs, TransferPcs, ItemSteps
  <2>4. mig.preparation # "checking" /\ mig.maintenance \notin {"queued", "running"}
    BY <1>2, <1>6, <2>3 DEF CreatorAccessRevoked
  <2>5. PhaseOK'
    <3>1. w'.pc # "start"
      BY <2>2 DEF RevokedPcs
    <3>2. QED
      BY <2>1, <2>2, <3>1, PhasesDisjoint DEF PhaseOK
  <2>6. WorkflowsExclusive'
    BY <2>1, <2>2, <2>4 DEF WorkflowsExclusive, ActiveStatuses
  <2>7. QED
    BY <2>5, <2>6
<1>4. CASE Finalize
  <2>1. CASE mig' = mig
    <3>1. (w'.pc = "release" /\ w'.then = "finish") \/ w' = IdleWorker
      BY <1>0, <1>4, PlaceAfter DEF Finalize
    <3>2. CASE w' = IdleWorker
      BY <2>1, <3>2, WorkerEnds DEF WorkflowsExclusive
    <3>3. CASE w'.pc = "release" /\ w'.then = "finish"
      <4>1. InRun(w) /\ InRun(w')
        BY <1>4, <3>3 DEF Finalize, InRun, RunPcs, TransferPcs, ItemSteps
      <4>2. QED
        BY <2>1, <4>1, SamePhase
    <3>4. QED
      BY <3>1, <3>2, <3>3
  <2>2. CASE mig' # mig
    <3>1. /\ mig'.maintenance = mig.maintenance
          /\ mig'.preparation = mig.preparation /\ w' = IdleWorker
      BY <1>0, <1>4, <2>2 DEF Finalize, MigrationRows
    <3>2. QED
      BY <1>2, <1>4, <3>1, WorkerEnds DEF Finalize, RunPcs, TransferPcs
  <2>3. QED
    BY <2>1, <2>2
<1>5. QED
  BY <1>1, <1>3, <1>4, <1>6

\* A run whose creator lost access goes out with no phase to its name.
LEMMA RevokedControl ==
    ASSUME ControlInv, TypeInv', Revocation \/ RevokedGrantFault
    PROVE  ControlInv'
<1> USE DEF ControlInv
<1>0. w \in WorkerStates /\ mig \in MigrationRows
  BY DEF TypeInv, TypeOK
<1>1. w.pc \in RevokedPcs
  BY DEF Revocation, RestoreRevokedGrant, ClearRevokedGrant, RevokedGrantFault,
         FailRevokedItem, RevokedAgain, RevokedRunEnds, RevokedPcs
<1>2. mig.status # "draft" /\ mig.preparation # "checking"
  BY <1>1 DEF PhaseOK, WorkflowsExclusive
<1>3. CASE RestoreRevokedGrant \/ ClearRevokedGrant \/ FailRevokedItem \/ RevokedGrantFault
  <2>1. w'.pc \in RevokedPcs /\ w'.pc # "start" /\ UNCHANGED mig
    BY <1>0, <1>3, PlaceAfter
       DEF RestoreRevokedGrant, ClearRevokedGrant, FailRevokedItem, RevokedGrantFault,
           RevokedPcs
  <2>2. PhaseOK'
    BY <1>2, <2>1, PhasesDisjoint DEF PhaseOK
  <2>3. WorkflowsExclusive'
    BY <2>1 DEF WorkflowsExclusive
  <2>4. QED
    BY <2>2, <2>3
<1>4. CASE RevokedAgain
  <2>1. w'.pc = "revoked"
    BY <1>0, <1>4, PlaceAfter DEF RevokedAgain
  <2>2. /\ mig'.status = "failed" /\ mig'.preparation = mig.preparation
        /\ mig'.maintenance = mig.maintenance
        /\ mig.maintenance \notin {"queued", "running"}
    BY <1>0, <1>4 DEF RevokedAgain, MigrationRows
  <2>3. PhaseOK'
    BY <2>1, <2>2, PhasesDisjoint DEF PhaseOK, RevokedPcs
  <2>4. WorkflowsExclusive'
    BY <1>2, <2>1, <2>2 DEF WorkflowsExclusive, RevokedPcs
  <2>5. QED
    BY <2>3, <2>4
<1>5. CASE RevokedRunEnds
  <2>1. /\ mig'.status = mig.status /\ mig'.preparation = mig.preparation
        /\ mig'.maintenance = mig.maintenance /\ w' = IdleWorker
    BY <1>0, <1>5 DEF RevokedRunEnds, MigrationRows
  <2>2. QED
    BY <1>2, <2>1, WorkerEnds DEF WorkflowsExclusive
<1>6. QED
  BY <1>3, <1>4, <1>5 DEF Revocation

\* Releases, and the commits that end them.
LEMMA ReleaseControl ==
    ASSUME ControlInv, TypeInv', Release \/ ReleaseFault PROVE ControlInv'
<1> USE DEF ControlInv
<1>0. w \in WorkerStates /\ mig \in MigrationRows
  BY DEF TypeInv, TypeOK
<1>1. CASE ReleaseProtection \/ ReleaseFault
  <2>1. \A r, ok : Drop(r, ok) => w'.pc = w.pc /\ w'.then = w.then
    BY <1>0 DEF Drop, WorkerStates
  <2>2. w.pc = "release" /\ w'.pc = w.pc /\ w'.then = w.then /\ UNCHANGED mig
    BY <1>1, <2>1 DEF ReleaseProtection, ReleaseFault
  <2>3. InRun(w) \/ InMaintenance(w) \/ InChecks(w)
    BY <2>2 DEF PhaseOK, RevokedPcs
  <2>4. /\ InRun(w) => InRun(w')
        /\ InMaintenance(w) => InMaintenance(w')
        /\ InChecks(w) => InChecks(w')
    BY <2>2 DEF InRun, InMaintenance, InChecks
  <2>5. QED
    BY <2>2, <2>3, <2>4, SamePhase
<1>2. CASE CommitCanceled \/ CommitFinished
  <2>1. InRun(w)
    BY <1>2 DEF CommitCanceled, CommitFinished, EndRelease, InRun
  <2>2. mig.maintenance \notin {"queued", "running"} /\ mig.preparation # "checking"
    BY <2>1 DEF PhaseOK, WorkflowsExclusive, ActiveStatuses
  <2>3. /\ mig'.maintenance = mig.maintenance
        /\ mig'.preparation = mig.preparation /\ w' = IdleWorker
    BY <1>0, <1>2 DEF CommitCanceled, CommitFinished, MigrationRows
  <2>4. QED
    BY <2>2, <2>3, WorkerEnds
<1>3. CASE CommitRestored
  <2>1. InMaintenance(w)
    BY <1>3 DEF CommitRestored, EndRelease, InMaintenance
  <2>2. mig.preparation # "checking"
    BY <2>1 DEF PhaseOK, WorkflowsExclusive
  <2>3. mig'.maintenance \in {"failed", "completed"} /\ w' = IdleWorker
    BY <1>0, <1>3 DEF CommitRestored, MigrationRows
  <2>4. mig'.preparation \in {"stale", mig.preparation}
    BY <1>0, <1>3 DEF CommitRestored, MigrationRows
  <2>5. QED
    BY <2>2, <2>3, <2>4, WorkerEnds
<1>4. QED
  BY <1>1, <1>2, <1>3 DEF Release

\* Maintenance and the recovery of temporary changes.
LEMMA MaintenanceControl ==
    ASSUME ControlInv, TypeInv', Maintenance \/ MaintenanceFaults PROVE ControlInv'
<1> USE DEF ControlInv
<1>0. w \in WorkerStates /\ mig \in MigrationRows
  BY DEF TypeInv, TypeOK
<1>f. ASSUME NEW failed \in BOOLEAN, FinishMaintenance(failed),
             mig.maintenance \in {"queued", "running"}
      PROVE  ControlInv'
  <2>1. /\ mig'.maintenance \in {"failed", "completed"}
        /\ mig'.preparation = mig.preparation /\ w' = IdleWorker
    BY <1>0, <1>f DEF FinishMaintenance, MigrationRows
  <2>2. mig.preparation # "checking"
    BY <1>f DEF WorkflowsExclusive
  <2>3. QED
    BY <2>1, <2>2, WorkerEnds
<1>1. CASE BeginMaintenance
  <2>1. InMaintenance(w')
    BY <1>0, <1>1 DEF BeginMaintenance, InMaintenance, WorkerStates, CleanupPcs
  <2>2. /\ mig'.maintenance = "running" /\ mig'.status = mig.status
        /\ mig'.preparation = mig.preparation /\ mig'.leased = mig.leased
    BY <1>0, <1>1 DEF BeginMaintenance, MigrationRows
  <2>3. PhaseOK'
    BY <2>1, <2>2, PhasesDisjoint DEF PhaseOK
  <2>4. /\ mig.preparation # "checking" /\ mig.leased
        /\ mig.status \notin ActiveStatuses
    BY <1>1 DEF BeginMaintenance, WorkflowsExclusive, RevokedPcs
  <2>5. WorkflowsExclusive'
    BY <2>2, <2>4 DEF WorkflowsExclusive, Busy
  <2>6. QED
    BY <2>3, <2>5
<1>2. CASE RecoverEffect \/ ClearRecoveredEffect
  <2>1. /\ {w.pc, w'.pc} \subseteq {"recover", "recover_clear"}
        /\ w'.then = w.then /\ UNCHANGED mig
    BY <1>0, <1>2, PlaceAfter DEF RecoverEffect, ClearRecoveredEffect, WorkerStates
  <2>2. InMaintenance(w) \/ InChecks(w)
    BY <2>1 DEF PhaseOK, RevokedPcs, InRun, RunPcs, TransferPcs, ItemSteps
  <2>3. /\ InMaintenance(w) => InMaintenance(w')
        /\ InChecks(w) => InChecks(w')
    BY <2>1 DEF InMaintenance, InChecks, CleanupPcs, CheckPcs
  <2>4. QED
    BY <2>1, <2>2, <2>3, SamePhase
<1>r. ASSUME w.pc \in {"recover", "recover_clear"}
      PROVE  \/ w.then = "restore" /\ InMaintenance(w)
             \/ w.then = "checks" /\ InChecks(w)
  BY <1>r DEF PhaseOK, RevokedPcs, InRun, InMaintenance, InChecks, RunPcs, TransferPcs,
              ItemSteps, CleanupPcs, CheckPcs
<1>3. CASE RecoveryDone
  <2>1. CASE w.then = "restore"
    <3>1. w'.pc = "release" /\ w'.then = "restore"
      BY <1>0, <1>3, <2>1 DEF RecoveryDone, WorkerStates
    <3>2. InMaintenance(w) /\ InMaintenance(w')
      BY <1>3, <1>r, <2>1, <3>1 DEF RecoveryDone, InMaintenance
    <3>3. QED
      BY <1>3, <3>2, SamePhase DEF RecoveryDone
  <2>2. CASE w.then # "restore"
    <3>1. w'.pc = "check_item"
      BY <1>0, <1>3, <2>2 DEF RecoveryDone, WorkerStates
    <3>2. InChecks(w) /\ InChecks(w')
      BY <1>3, <1>r, <2>2, <3>1 DEF RecoveryDone, InChecks, CheckPcs
    <3>3. QED
      BY <1>3, <3>2, SamePhase DEF RecoveryDone
  <2>3. QED
    BY <2>1, <2>2
<1>4. CASE RecoveryFault
  <2>1. CASE w.then = "restore"
    BY <1>4, <1>f, <1>r, <2>1 DEF RecoveryFault, PhaseOK
  <2>2. CASE w.then = "checks"
    <3>1. mig.status \notin ActiveStatuses /\ mig.maintenance \notin {"queued", "running"}
      BY <1>4, <1>r, <2>2
         DEF RecoveryFault, PhaseOK, WorkflowsExclusive, ActiveStatuses
    <3>2. /\ mig'.preparation = "blocked" /\ w' = IdleWorker
          /\ mig'.maintenance = mig.maintenance
      BY <1>0, <1>4, <2>2 DEF RecoveryFault, MigrationRows
    <3>3. QED
      BY <3>1, <3>2, WorkerEnds
  <2>3. QED
    BY <1>4, <2>1, <2>2 DEF RecoveryFault
<1>5. CASE \/ CleanupLoop /\ UNCHANGED mig
           \/ CleanupLockTarget \/ PutTargetLock("cs_lock_put", "cs_target_hash")
           \/ CleanupHashTarget \/ CleanupReadOnly
           \/ PutReadOnly("cs_read_only_put", "cs_source_hash")
           \/ CleanupHashSource \/ CleanupCheckSource \/ CleanupPutPolicy
           \/ PurgeSource \/ RemoveSource \/ RecordSourceDeleted
           \/ CleanupUnlockTarget \/ FinishSourceCleanup
           \/ LockFailedTarget \/ PutTargetLock("ct_lock_put", "ct_purge")
           \/ PurgeTarget \/ RemoveTarget \/ FinishTargetCleanup \/ CleanupFault
  <2>0. /\ CleanupRefused => w'.pc = "cleanup"
        /\ \A pc : Goto(pc) => w'.pc = pc
        /\ \A failed : NextCleanup(failed) => w'.pc = "cleanup"
    BY <1>0, PlaceAfter DEF CleanupRefused
  <2>k. /\ CleanupLoop /\ UNCHANGED mig => w' # IdleWorker
    <3>1. ASSUME CleanupLoop, UNCHANGED mig PROVE ~FinishMaintenance(w.err)
      <4>1. mig.maintenance = "running"
        BY <3>1 DEF CleanupLoop, PhaseOK, InMaintenance, CleanupPcs
      <4>2. FinishMaintenance(w.err) => mig'.maintenance # "running"
        BY <1>0 DEF FinishMaintenance, MigrationRows
      <4>3. QED
        BY <3>1, <4>1, <4>2
    <3>2. ASSUME CleanupLoop, UNCHANGED mig PROVE w'.pc # "idle"
      BY <2>0, <3>1, <3>2 DEF CleanupLoop
    <3>3. QED
      BY <3>2, IdleType
  <2>1. CASE CleanupLoop /\ UNCHANGED mig
    <3>1. w.pc \in CleanupPcs /\ w'.pc \in CleanupPcs
      BY <1>0, <2>0, <2>1, <2>k DEF CleanupLoop, FinishMaintenance, CleanupPcs
    <3>2. QED
      BY <2>1, <3>1, SamePhase DEF InMaintenance
  <2>2. CASE \/ CleanupLockTarget \/ PutTargetLock("cs_lock_put", "cs_target_hash")
             \/ CleanupHashTarget \/ CleanupReadOnly
             \/ PutReadOnly("cs_read_only_put", "cs_source_hash")
             \/ CleanupHashSource \/ CleanupCheckSource \/ CleanupPutPolicy
    <3>1. w.pc \in CleanupPcs /\ w'.pc \in CleanupPcs /\ UNCHANGED mig
      BY <1>0, <2>0, <2>2
         DEF CleanupLockTarget, PutTargetLock, CleanupHashTarget, CleanupReadOnly,
             PutReadOnly, CleanupHashSource, CleanupCheckSource, CleanupPutPolicy,
             CleanupPcs, WorkerStates
    <3>2. QED
      BY <3>1, SamePhase DEF InMaintenance
  <2>3. CASE \/ PurgeSource \/ RemoveSource \/ RecordSourceDeleted
             \/ CleanupUnlockTarget \/ FinishSourceCleanup
             \/ LockFailedTarget \/ PutTargetLock("ct_lock_put", "ct_purge")
             \/ PurgeTarget \/ RemoveTarget \/ FinishTargetCleanup \/ CleanupFault
    <3>1. w.pc \in CleanupPcs /\ w'.pc \in CleanupPcs /\ UNCHANGED mig
      BY <1>0, <2>0, <2>3
         DEF PurgeSource, RemoveSource, RecordSourceDeleted, CleanupUnlockTarget,
             FinishSourceCleanup, LockFailedTarget, PutTargetLock, PurgeTarget,
             RemoveTarget, FinishTargetCleanup, CleanupFault, CleanupPcs,
             WorkerStates
    <3>2. QED
      BY <3>1, SamePhase DEF InMaintenance
  <2>4. QED
    BY <1>5, <2>1, <2>2, <2>3
<1>6. CASE CleanupLoop /\ FinishMaintenance(w.err)
  <2>1. mig.maintenance = "running" /\ w.err \in BOOLEAN
    BY <1>0, <1>6 DEF CleanupLoop, PhaseOK, InMaintenance, CleanupPcs, WorkerStates
  <2>2. QED
    BY <1>6, <1>f, <2>1
<1>7. CASE MaintenanceFault
  BY <1>7, <1>f DEF MaintenanceFault
<1>8. QED
  BY <1>1, <1>2, <1>3, <1>4, <1>5, <1>6, <1>7
     DEF Maintenance, MaintenanceFaults, CleanupLoop

\* The checks of a draft.
LEMMA PreparationControl ==
    ASSUME ControlInv, TypeInv', Preparation \/ PreparationFaults PROVE ControlInv'
<1> USE DEF ControlInv
<1>0. w \in WorkerStates /\ mig \in MigrationRows
  BY DEF TypeInv, TypeOK
<1>b. /\ \A task, failed : BeginTask(task, failed) => w'.pc \in CheckPcs
      /\ \A failed : AfterChange(failed) => w'.pc \in CheckPcs
  BY <1>0 DEF BeginTask, AfterChange, CheckPcs, WorkerStates
<1>1. CASE \/ CheckItem \/ JournalEffect \/ ApplyChange \/ UndoChange \/ ClearEffect
           \/ CheckFault
  <2>1. w.pc \in CheckPcs /\ w'.pc \in CheckPcs /\ UNCHANGED mig
    BY <1>0, <1>1, <1>b, PlaceAfter
       DEF CheckItem, JournalEffect, ApplyChange, UndoChange, ClearEffect,
           CheckFault, CheckPcs, WorkerStates
  <2>2. QED
    BY <2>1, SamePhase DEF InChecks
<1>2. CASE ReportChecks \/ ChecksInterrupted
  <2>1. InChecks(w)
    BY <1>2 DEF ReportChecks, ChecksInterrupted, InChecks, CheckPcs
  <2>2. mig.status \notin ActiveStatuses /\ mig.maintenance \notin {"queued", "running"}
    BY <2>1 DEF PhaseOK, WorkflowsExclusive, ActiveStatuses
  <2>3. mig'.preparation # "checking" /\ w' = IdleWorker
    BY <1>0, <1>2 DEF ReportChecks, ChecksInterrupted, MigrationRows
  <2>4. mig'.maintenance = mig.maintenance
    BY <1>0, <1>2 DEF ReportChecks, ChecksInterrupted, MigrationRows
  <2>5. QED
    BY <2>2, <2>3, <2>4, WorkerEnds
<1>3. QED
  BY <1>1, <1>2 DEF Preparation, PreparationFaults

\* Claims, the end of a lease, and the death of a worker.
LEMMA LeaseControl ==
    ASSUME ControlInv, TypeInv', Claim \/ ClaimPreparation \/ LeaseExpires \/ Crash
    PROVE  ControlInv'
<1> USE DEF ControlInv
<1>0. w \in WorkerStates /\ mig \in MigrationRows
  BY DEF TypeInv, TypeOK
<1>m. ASSUME NEW b, mig' = [mig EXCEPT !.leased = b]
      PROVE  /\ mig'.status = mig.status /\ mig'.maintenance = mig.maintenance
             /\ mig'.preparation = mig.preparation /\ mig'.leased = b
  BY <1>0, <1>m DEF MigrationRows
<1>1. CASE Claim
  <2>1. w'.pc = "start"
    BY <1>1, IdleType DEF Claim, WorkerStates
  <2>2. QED
    BY <1>1, <1>m, <2>1, PhasesDisjoint
       DEF Claim, PhaseOK, WorkflowsExclusive, Busy, RevokedPcs
<1>2. CASE ClaimPreparation
  <2>1. w'.pc = "recover" /\ w'.then = "checks"
    BY <1>2, IdleType DEF ClaimPreparation, WorkerStates
  <2>2. InChecks(w')
    BY <2>1 DEF InChecks
  <2>3. QED
    BY <1>2, <1>m, <2>1, <2>2, PhasesDisjoint
       DEF ClaimPreparation, PhaseOK, WorkflowsExclusive, Busy, RevokedPcs
<1>3. CASE LeaseExpires
  <2>1. w.pc \in {"idle"} \cup RevokedPcs /\ w.pc # "start"
    BY <1>3 DEF LeaseExpires, WorkflowsExclusive, RevokedPcs
  <2>2. /\ mig'.status = mig.status /\ mig'.maintenance = mig.maintenance
        /\ mig'.preparation = mig.preparation /\ w' = w
    BY <1>3, <1>m DEF LeaseExpires
  <2>3. PhaseOK'
    BY <2>1, <2>2, PhasesDisjoint DEF PhaseOK
  <2>4. WorkflowsExclusive'
    BY <2>1, <2>2 DEF WorkflowsExclusive
  <2>5. QED
    BY <2>3, <2>4
<1>4. CASE Crash
  BY <1>4, WorkerEnds DEF Crash, WorkflowsExclusive
<1>5. QED
  BY <1>1, <1>2, <1>3, <1>4

(***************************************************************************)
(* The theorem.                                                            *)
(***************************************************************************)
\* A draft without a worker.
LEMMA ControlInit == Init => ControlInv
<1> SUFFICES ASSUME Init PROVE ControlInv
  OBVIOUS
<1>1. w.pc = "idle"
  BY IdleType DEF Init
<1>2. QED
  BY <1>1, TypeInit, PhasesDisjoint
     DEF Init, ControlInv, PhaseOK, WorkflowsExclusive, ActiveStatuses, RevokedPcs

\* Every step keeps the invariant.
LEMMA ControlNext == ControlInv /\ [Next]_vars => ControlInv'
<1> SUFFICES ASSUME ControlInv, [Next]_vars PROVE ControlInv'
  OBVIOUS
<1>0. TypeInv'
  BY TypeNext DEF ControlInv
<1>1. CASE Command
  BY <1>1, CommandControl
<1>2. CASE Claim \/ ClaimPreparation \/ LeaseExpires \/ Crash
  BY <1>0, <1>2, LeaseControl
<1>3. CASE Transfer \/ TransferFaults \/ Revocation
  BY <1>0, <1>3, RunControl, RunEndsControl, RevokedControl DEF Transfer, TransferFaults
<1>4. CASE Release \/ ReleaseFault
  BY <1>0, <1>4, ReleaseControl
<1>5. CASE Maintenance \/ MaintenanceFaults
  BY <1>0, <1>5, MaintenanceControl
<1>6. CASE Preparation \/ PreparationFaults
  BY <1>0, <1>6, PreparationControl
<1>7. CASE Client \/ UNCHANGED vars
  <2>1. UNCHANGED <<mig, w>>
    BY <1>7 DEF vars, Client, ClientWritesSource, ClientWritesTarget,
                OtherCreatesTarget
  <2>2. QED
    BY <1>0, <2>1 DEF ControlInv, PhaseOK, WorkflowsExclusive, Busy
<1>8. QED
  BY <1>1, <1>2, <1>3, <1>4, <1>5, <1>6, <1>7 DEF Next, Worker, Faults

\* The inductive invariant: a phase of the worker is a state of the row.
THEOREM ControlInvariant == Spec => []ControlInv
<1>1. QED
  BY ControlInit, ControlNext, PTL DEF Spec

\* Whatever commands arrive at whatever moment of a run, and wherever workers
\* die: checks run on drafts only, maintenance never overlaps a transfer, and
\* a worker acts only under a lease and for a workflow that is under way.
THEOREM WorkflowsExclusiveAlways == Spec => []WorkflowsExclusive
<1>1. ControlInv => WorkflowsExclusive
  BY DEF ControlInv
<1>2. QED
  BY <1>1, ControlInvariant, PTL

(***************************************************************************)
(* Provenance                                                              *)
(***************************************************************************)
\* The places of an item before its destination is known to exist.
EarlyPcs == {"item", "relock_put", "loop", "create_bucket", "bucket_absent",
             "bucket_created"}
TargetCleanupPcs == {"ct_lock", "ct_lock_put", "ct_purge", "ct_remove", "ct_finish"}
Exists(b) == b.target_by # "nobody"

\* A cleanup runs on a finished migration only.
CleanupFinal ==
    /\ mig.maintenance \in {"queued", "running"} /\ mig.operation # "restore_access"
         => mig.status \in FinalStatuses
    /\ w.pc \in CleanupPcs => mig.operation # "restore_access"

\* An item beyond its first step has a destination of its own.
CreatedRow(row) ==
    row.step # "create_bucket" \/ row.status = "awaiting_cutover" => row.created
CreatedRows == \A i \in Items : CreatedRow(item[i])

CreatedPlaces ==
    /\ w.pc \in ItemPcs => (It.created => Exists(Bk))
    /\ w.pc = "bucket_created" => Exists(Bk)
    /\ w.pc \in ItemPcs \ EarlyPcs => It.created
    /\ w.pc = "relock_put" => It.created
    /\ w.pc \in TargetCleanupPcs => It.status = "failed"

ProvenanceInv == ControlInv /\ CleanupFinal /\ CreatedRows /\ CreatedPlaces

\* What the places mean for the row of the migration.
LEMMA PlaceFacts ==
    ASSUME ControlInv
    PROVE  /\ w.pc \in RunPcs => mig.status \in ActiveStatuses /\ mig.status # "draft"
           /\ w.pc \in CleanupPcs => mig.maintenance = "running"
           /\ w.pc \notin {"idle"} \cup RevokedPcs => Busy
           /\ w.pc \in ItemPcs => w.pc \in RunPcs
           /\ w.pc \in ItemPcs \cup (CleanupPcs \ {"cleanup"}) => w.cur \in Items
           /\ w.pc \in RevokedPcs \ {"revoked"} => w.cur \in Items
           /\ w \in WorkerStates /\ mig \in MigrationRows
           /\ item \in [Items -> ItemRows] /\ bucket \in [Items -> BucketStates]
<1>1. w \in WorkerStates /\ mig \in MigrationRows
      /\ item \in [Items -> ItemRows] /\ bucket \in [Items -> BucketStates]
  BY DEF ControlInv, TypeInv, TypeOK
<1>2. /\ w.pc \in RunPcs => mig.status \in ActiveStatuses /\ mig.status # "draft"
      /\ w.pc \in CleanupPcs => mig.maintenance = "running"
  BY DEF ControlInv, PhaseOK, InRun, InMaintenance, ActiveStatuses
<1>3. w.pc \notin {"idle"} \cup RevokedPcs => Busy
  BY DEF ControlInv, WorkflowsExclusive
<1>4. w.pc \in ItemPcs => w.pc \in RunPcs
  BY DEF ItemPcs, OutsideItems, RunPcs
<1>5. w.pc \in ItemPcs \cup (CleanupPcs \ {"cleanup"}) => w.cur \in Items
  BY DEF ControlInv, TypeInv, CurOK, FreePcs, ItemPcs, OutsideItems, TransferPcs,
         ItemSteps, CleanupPcs
<1>6. w.pc \in RevokedPcs \ {"revoked"} => w.cur \in Items
  BY DEF ControlInv, TypeInv, CurOK, FreePcs, RevokedPcs
<1>7. QED
  BY <1>1, <1>2, <1>3, <1>4, <1>5, <1>6

\* A command that is accepted while a worker runs changes nothing but the
\* status of an active transfer.
LEMMA QuietCommand ==
    ASSUME ControlInv, Command, w.pc \notin {"idle"} \cup RevokedPcs
    PROVE  UNCHANGED <<item, bucket, w>>
<1>1. Busy
  BY PlaceFacts
<1>2. PrecheckExpires \/ RequestPause \/ StopMigration
  BY <1>1 DEF Command, UpdateDraft, RequestPrecheck, StartMigration,
       ResumeMigration, ContinueAfterPresync, Retry, RequestMaintenance,
       DeleteMigration, CommandAfterRevocation, CanEditDraft, CanStart,
       CanResume, CanCutover, CanRetry, CompletedWorkflow, CanRestoreAccess,
       CanCleanupSource, CanCleanupTarget, CanDelete, Idle
<1>3. QED
  BY <1>2 DEF PrecheckExpires, RequestPause, StopMigration

\* Neither an idle worker nor one on its way out works on an item.
LEMMA RevokedApart ==
    /\ {"idle"} \cup RevokedPcs = {"idle", "revoked_grant", "revoked_clear",
                                   "revoked_item", "revoked_next", "revoked"}
    /\ ({"idle"} \cup RevokedPcs)
         \cap (ItemPcs \cup TargetCleanupPcs \cup CleanupPcs \cup CheckPcs) = {}
    /\ ({"idle"} \cup RevokedPcs) \cap {"bucket_created", "relock_put"} = {}
  BY DEF RevokedPcs, ItemPcs, OutsideItems, TransferPcs, ItemSteps, TargetCleanupPcs,
         CleanupPcs, CheckPcs

\* Commands.
LEMMA CommandProvenance ==
    ASSUME ProvenanceInv, Command, ControlInv' PROVE ProvenanceInv'
<1> USE DEF ProvenanceInv
<1>0. /\ mig \in MigrationRows /\ item \in [Items -> ItemRows]
      /\ UNCHANGED <<w, bucket>>
  BY PlaceFacts DEF Command, UpdateDraft, RequestPrecheck, PrecheckExpires,
     StartMigration, RequestPause, ResumeMigration, StopMigration,
     ContinueAfterPresync, Retry, RequestMaintenance, DeleteMigration,
     CommandAfterRevocation
<1>1. CleanupFinal'
  <2>3. CASE \E op \in MaintenanceOps : RequestMaintenance(op)
    <3>1. w.pc \in {"idle"} \cup RevokedPcs
      BY <2>3, PlaceFacts DEF RequestMaintenance, CanRestoreAccess,
         CanCleanupSource, CanCleanupTarget, CompletedWorkflow, Idle
    <3>2. QED
      BY <1>0, <2>3, <3>1, RevokedApart DEF RequestMaintenance, CanCleanupSource,
         CanCleanupTarget, CompletedWorkflow, CleanupFinal, MigrationRows
  <2>4. CASE ~ \E op \in MaintenanceOps : RequestMaintenance(op)
    <3> SUFFICES /\ mig'.maintenance = mig.maintenance
                 /\ mig'.operation = mig.operation
                 /\ mig.maintenance \in {"queued", "running"} =>
                      mig'.status = mig.status
      BY <1>0 DEF CleanupFinal
    <3>1. mig.maintenance \in {"queued", "running"} =>
            Busy /\ mig.status \notin ActiveStatuses
      BY DEF Busy, ControlInv, WorkflowsExclusive
    <3>2. CASE \/ \E o \in Options : UpdateDraft(o)
               \/ \E active \in BOOLEAN : RequestPrecheck(active)
               \/ PrecheckExpires \/ StartMigration \/ RequestPause
      BY <1>0, <3>1, <3>2 DEF UpdateDraft, RequestPrecheck, PrecheckExpires,
         StartMigration, RequestPause, CanPause, CanEditDraft, CanStart, Idle,
         Requeued, MigrationRows, ActiveStatuses
    <3>3. CASE \/ ResumeMigration \/ StopMigration \/ ContinueAfterPresync
               \/ (\E i \in Items : Retry({i})) \/ Retry(FailedItems)
               \/ DeleteMigration \/ CommandAfterRevocation
      BY <1>0, <3>1, <3>3 DEF ResumeMigration, StopMigration,
         ContinueAfterPresync, Retry, DeleteMigration, CommandAfterRevocation,
         CanResume, CanStop, CanCutover, CanRetry, CompletedWorkflow, CanDelete,
         Idle, Requeued, MigrationRows
    <3>4. QED
      BY <2>4, <3>2, <3>3 DEF Command
  <2>5. QED
    BY <2>3, <2>4
<1>2. CreatedRows'
  <2> SUFFICES ASSUME NEW i \in Items PROVE CreatedRow(item'[i])
    BY DEF CreatedRows
  <2>0. item[i] \in ItemRows /\ CreatedRow(item[i])
    BY <1>0 DEF CreatedRows
  <2>1. CASE UNCHANGED item
    BY <2>0, <2>1
  <2>2. CASE \E o \in Options : UpdateDraft(o)
    <3>1. item'[i] = [item[i] EXCEPT
                        !.status = "pending", !.step = "create_bucket",
                        !.pre_sync_done = FALSE, !.ro = FALSE, !.ro_backup = {},
                        !.locked = FALSE, !.lock_backup = {}]
      BY <2>2 DEF UpdateDraft
    <3>2. item'[i].status = "pending" /\ item'[i].step = "create_bucket"
      BY <2>0, <3>1 DEF ItemRows
    <3>3. QED
      BY <3>2 DEF CreatedRow
  <2>3. CASE ResumeMigration
    BY <2>0, <2>3 DEF ResumeMigration, CreatedRow, ItemRows
  <2>4. CASE ContinueAfterPresync
    BY <2>0, <2>4 DEF ContinueAfterPresync, CreatedRow, ItemRows
  <2>5. ASSUME NEW S, Retry(S) PROVE CreatedRow(item'[i])
    BY <2>0, <2>5 DEF Retry, RetryStepForFailedItem, CreatedRow, ItemRows
  <2>6. QED
    BY <2>1, <2>2, <2>3, <2>4, <2>5 DEF Command, RequestPrecheck,
       PrecheckExpires, StartMigration, RequestPause, StopMigration,
       RequestMaintenance, DeleteMigration, CommandAfterRevocation
<1>3. CreatedPlaces'
  <2>1. CASE w.pc \in {"idle"} \cup RevokedPcs
    BY <1>0, <2>1, RevokedApart DEF CreatedPlaces
  <2>2. CASE w.pc \notin {"idle"} \cup RevokedPcs
    BY <2>2, QuietCommand DEF CreatedPlaces, It, Bk
  <2>3. QED
    BY <2>1, <2>2
<1>4. QED
  BY <1>1, <1>2, <1>3

\* A step of a run on its current item.
LEMMA ItemStepProvenance ==
    ASSUME ProvenanceInv, ControlInv', UNCHANGED mig, w.pc \in ItemPcs,
           NEW row \in ItemRows, SetItem(row),
           row.created = It.created \/ (row.created /\ w.pc = "bucket_created"),
           CreatedRow(row),
           \A i \in Items : Exists(bucket[i]) => Exists(bucket'[i]),
           \/ w'.pc = "items"
           \/ /\ w'.cur = w.cur /\ w'.pc \in RunPcs
              /\ w'.pc = "bucket_created" => Exists(bucket'[w.cur])
              /\ w'.pc \in (ItemPcs \ EarlyPcs) \cup {"relock_put"} => row.created
    PROVE  ProvenanceInv'
<1> USE DEF ProvenanceInv
<1>0. /\ w.cur \in Items /\ item \in [Items -> ItemRows] /\ w'.pc \in RunPcs
      /\ w.pc \in RunPcs
  BY PlaceFacts DEF RunPcs, TransferPcs
<1>1. RunPcs \cap (CleanupPcs \cup TargetCleanupPcs) = {}
  BY DEF RunPcs, TransferPcs, ItemSteps, CleanupPcs, TargetCleanupPcs
<1>2. CleanupFinal'
  BY <1>0, <1>1 DEF CleanupFinal
<1>3. \A i \in Items : item'[i] = IF i = w.cur THEN row ELSE item[i]
  BY <1>0 DEF SetItem
<1>4. CreatedRows'
  BY <1>3 DEF CreatedRows
<1>5. "items" \notin ItemPcs /\ "items" \notin EarlyPcs
  BY DEF ItemPcs, OutsideItems, ItemSteps, EarlyPcs
<1>6. row.created => Exists(bucket[w.cur])
  BY <1>0 DEF CreatedPlaces, Bk
<1>7. CASE w'.pc = "items"
  BY <1>0, <1>1, <1>2, <1>4, <1>5, <1>7 DEF CreatedPlaces, EarlyPcs, ItemPcs, OutsideItems
<1>8. CASE /\ w'.cur = w.cur /\ w'.pc \in RunPcs
           /\ w'.pc = "bucket_created" => Exists(bucket'[w.cur])
           /\ w'.pc \in (ItemPcs \ EarlyPcs) \cup {"relock_put"} => row.created
  <2>1. It' = row /\ Bk' = bucket'[w.cur]
    BY <1>0, <1>3, <1>8 DEF It, Bk
  <2>2. CreatedPlaces'
    BY <1>0, <1>1, <1>6, <1>8, <2>1 DEF CreatedPlaces
  <2>3. QED
    BY <1>2, <1>4, <2>2
<1>9. QED
  BY <1>7, <1>8

\* Writing the current item leaves the other ones alone.
LEMMA SetItemFacts ==
    ASSUME item \in [Items -> ItemRows], w.cur \in Items
    PROVE  /\ \A row : SetItem(row) =>
                /\ item'[w.cur] = row
                /\ \A i \in Items : i # w.cur => item'[i] = item[i]
           /\ \A b : bucket \in [Items -> BucketStates] /\ SetBucket(b) =>
                /\ bucket'[w.cur] = b
                /\ \A i \in Items : i # w.cur => bucket'[i] = bucket[i]
  BY DEF SetItem, SetBucket

\* A step of a run on an item whose destination exists.
LEMMA LateStepProvenance ==
    ASSUME ProvenanceInv, ControlInv', UNCHANGED mig, w.pc \in ItemPcs \ EarlyPcs,
           item'[w.cur].created = It.created,
           \A i \in Items : i # w.cur => item'[i] = item[i],
           \A i \in Items : bucket'[i].target_by = bucket[i].target_by,
           \/ w'.pc = "items"
           \/ w'.cur = w.cur /\ w'.pc \in RunPcs \ {"bucket_created"}
    PROVE  ProvenanceInv'
<1>1. w.cur \in Items /\ It.created
  BY PlaceFacts DEF ProvenanceInv, CreatedPlaces
<1>2. /\ item' \in [Items -> ItemRows] /\ item \in [Items -> ItemRows]
  BY DEF ProvenanceInv, ControlInv, TypeInv, TypeOK
<1> DEFINE row == item'[w.cur]
<1>3. SetItem(row)
  BY <1>1, <1>2 DEF SetItem
<1>4. row \in ItemRows /\ CreatedRow(row) /\ row.created
  BY <1>1, <1>2 DEF CreatedRow
<1>5. \A i \in Items : Exists(bucket[i]) => Exists(bucket'[i])
  BY DEF Exists
<1> HIDE DEF row
<1>6. QED
  BY <1>3, <1>4, <1>5, ItemStepProvenance DEF row

\* The places after the destination is known.
LEMMA LatePlaces ==
    {"bucket_ready", "copy_bucket_settings", "settings_copied",
     "apply_target_lock", "lock_put", "lock_done", "pre_sync", "sync",
     "grant_journal", "grant_put", "sync_copy", "sync_write", "grant_restore",
     "grant_clear", "sync_done", "awaiting_cutover", "apply_read_only",
     "read_only_put", "read_only_done", "verify", "verify_compare", "verified"}
      \subseteq (ItemPcs \ EarlyPcs) \cap (RunPcs \ {"bucket_created"})
  BY DEF ItemPcs, OutsideItems, EarlyPcs, TransferPcs, ItemSteps, RunPcs

\* The steps of an item from the copy of its settings on.
LEMMA LateActionsProvenance ==
    ASSUME ProvenanceInv, ControlInv',
           \/ FinishCreateBucket \/ CopyBucketSettings \/ FinishCopyBucketSettings
           \/ ApplyTargetLock \/ PutTargetLock("lock_put", "lock_done")
           \/ FinishTargetLock \/ TargetLockRefused
           \/ BeginSync \/ JournalGrant \/ PutSourceCopyGrant \/ SyncCopy
           \/ SyncWrite \/ SyncInterrupted \/ RestoreGrantedPolicy
           \/ ClearGrantEffect \/ FinishSync \/ AwaitCutover \/ ApplyReadOnly
           \/ PutReadOnly("read_only_put", "read_only_done") \/ FinishReadOnly
           \/ VerifyRead \/ VerifyCompare \/ VerifyInterrupted
           \/ StrongVerificationFails \/ CompleteItem
    PROVE  ProvenanceInv'
<1>0. ControlInv
  BY DEF ProvenanceInv
<1>1. w.pc \in ItemPcs \ EarlyPcs
  BY LatePlaces
     DEF FinishCreateBucket, CopyBucketSettings, FinishCopyBucketSettings,
         ApplyTargetLock, PutTargetLock, FinishTargetLock, TargetLockRefused,
         BeginSync, JournalGrant, PutSourceCopyGrant, SyncCopy, SyncWrite,
         SyncInterrupted, RestoreGrantedPolicy, ClearGrantEffect, FinishSync,
         AwaitCutover, ApplyReadOnly, PutReadOnly, FinishReadOnly, VerifyRead,
         VerifyCompare, VerifyInterrupted, StrongVerificationFails, CompleteItem
<1>2. /\ w.cur \in Items /\ w \in WorkerStates
      /\ item \in [Items -> ItemRows] /\ bucket \in [Items -> BucketStates]
  BY <1>0, <1>1, PlaceFacts
<1>3. It \in ItemRows /\ Bk \in BucketStates /\ It = item[w.cur] /\ Bk = bucket[w.cur]
  BY <1>2 DEF It, Bk
<1>l. "loop" \in RunPcs \ {"bucket_created"} /\ "items" \in RunPcs
  BY DEF RunPcs, TransferPcs
<1>g. /\ \A pc : Goto(pc) => w'.pc = pc /\ w'.cur = w.cur
      /\ NextItem => w'.pc = "items"
      /\ \A reason : LeaveSync(reason) =>
           w'.pc \in {"grant_restore", "sync_done"} /\ w'.cur = w.cur
  BY <1>2 DEF Goto, NextItem, LeaveSync, WorkerStates
<1>u. UNCHANGED item => /\ item'[w.cur].created = It.created
                        /\ \A i \in Items : i # w.cur => item'[i] = item[i]
  BY <1>3
<1>r. /\ \A v : [It EXCEPT !.step = v].created = It.created
      /\ \A v : [It EXCEPT !.status = v].created = It.created
      /\ \A v : [It EXCEPT !.effects = v].created = It.created
      /\ JournalTargetLock(It).created = It.created
      /\ JournalReadOnly(It).created = It.created
      /\ \A v : [Bk EXCEPT !.target_policy = v].target_by = Bk.target_by
      /\ \A v : [Bk EXCEPT !.source_policy = v].target_by = Bk.target_by
      /\ \A v : [Bk EXCEPT !.target = v].target_by = Bk.target_by
  BY <1>3 DEF ItemRows, BucketStates, JournalTargetLock, JournalReadOnly
<1>s. /\ \A row : SetItem(row) /\ row.created = It.created =>
           /\ item'[w.cur].created = It.created
           /\ \A i \in Items : i # w.cur => item'[i] = item[i]
      /\ \A b : SetBucket(b) /\ b.target_by = Bk.target_by =>
           \A i \in Items : bucket'[i].target_by = bucket[i].target_by
  BY <1>2, <1>3, SetItemFacts
<1>4. /\ UNCHANGED mig
      /\ \A i \in Items : bucket'[i].target_by = bucket[i].target_by
  <2>1. CASE \/ FinishCreateBucket \/ CopyBucketSettings
             \/ FinishCopyBucketSettings \/ ApplyTargetLock
             \/ PutTargetLock("lock_put", "lock_done") \/ FinishTargetLock
             \/ TargetLockRefused
    BY <1>r, <1>s, <2>1
       DEF FinishCreateBucket, CopyBucketSettings, FinishCopyBucketSettings,
           ApplyTargetLock, PutTargetLock, FinishTargetLock, TargetLockRefused
  <2>2. CASE \/ BeginSync \/ JournalGrant \/ PutSourceCopyGrant \/ SyncCopy
             \/ SyncWrite \/ SyncInterrupted \/ RestoreGrantedPolicy
             \/ ClearGrantEffect \/ FinishSync
    BY <1>r, <1>s, <2>2
       DEF BeginSync, JournalGrant, PutSourceCopyGrant, SyncCopy, SyncWrite,
           SyncInterrupted, RestoreGrantedPolicy, ClearGrantEffect, FinishSync
  <2>3. CASE \/ AwaitCutover \/ ApplyReadOnly \/ FinishReadOnly \/ VerifyRead
             \/ PutReadOnly("read_only_put", "read_only_done") \/ VerifyCompare
             \/ VerifyInterrupted \/ StrongVerificationFails \/ CompleteItem
    BY <1>r, <1>s, <2>3
       DEF AwaitCutover, ApplyReadOnly, PutReadOnly, FinishReadOnly, VerifyRead,
           VerifyCompare, VerifyInterrupted, StrongVerificationFails, CompleteItem
  <2>4. QED
    BY <2>1, <2>2, <2>3
<1>5. \/ w'.pc = "items"
      \/ w'.cur = w.cur /\ w'.pc \in RunPcs \ {"bucket_created"}
  <2>1. CASE \/ FinishCreateBucket \/ CopyBucketSettings
             \/ FinishCopyBucketSettings \/ ApplyTargetLock
             \/ PutTargetLock("lock_put", "lock_done") \/ FinishTargetLock
             \/ TargetLockRefused
    BY <1>2, <1>g, <1>l, <2>1, LatePlaces
       DEF FinishCreateBucket, CopyBucketSettings, FinishCopyBucketSettings,
           ApplyTargetLock, PutTargetLock, FinishTargetLock, TargetLockRefused,
           AdvanceTo, WorkerStates
  <2>2. CASE \/ BeginSync \/ JournalGrant \/ PutSourceCopyGrant \/ SyncCopy
             \/ SyncWrite \/ SyncInterrupted \/ RestoreGrantedPolicy
             \/ ClearGrantEffect \/ FinishSync
    <3>1. CASE BeginSync
      <4>1. /\ w'.pc \in {"sync_done", "grant_journal", "sync_copy"}
            /\ w'.cur = w.cur
        BY <1>2, <3>1 DEF BeginSync, WorkerStates
      <4>2. QED
        BY <4>1, LatePlaces
    <3>2. CASE JournalGrant \/ PutSourceCopyGrant \/ SyncCopy \/ RestoreGrantedPolicy
      <4>1. /\ w'.pc \in {"grant_put", "sync_copy", "sync_write", "grant_clear"}
            /\ w'.cur = w.cur
        BY <1>2, <1>g, <3>2 DEF JournalGrant, PutSourceCopyGrant, SyncCopy,
           RestoreGrantedPolicy, WorkerStates
      <4>2. QED
        BY <4>1, LatePlaces
    <3>3. CASE SyncWrite \/ SyncInterrupted
      BY <1>g, <3>3, LatePlaces DEF SyncWrite, SyncInterrupted
    <3>4. CASE ClearGrantEffect
      BY <1>g, <3>4, LatePlaces DEF ClearGrantEffect
    <3>5. CASE FinishSync
      <4>1. w' = [w EXCEPT !.pc = "loop", !.then = "none"] \/ NextItem
        BY <3>5 DEF FinishSync, StopInterruptedItem
      <4>2. w'.pc = "items" \/ (w'.pc = "loop" /\ w'.cur = w.cur)
        BY <1>2, <1>g, <4>1 DEF WorkerStates
      <4>3. QED
        BY <1>l, <4>2
    <3>6. QED
      BY <2>2, <3>1, <3>2, <3>3, <3>4, <3>5
  <2>3. CASE \/ AwaitCutover \/ ApplyReadOnly \/ FinishReadOnly \/ VerifyRead
             \/ PutReadOnly("read_only_put", "read_only_done") \/ VerifyCompare
             \/ VerifyInterrupted \/ StrongVerificationFails \/ CompleteItem
    <3>1. CASE AwaitCutover \/ ApplyReadOnly \/ FinishReadOnly \/ VerifyRead
      BY <1>2, <1>g, <1>l, <3>1, LatePlaces
         DEF AwaitCutover, ApplyReadOnly, FinishReadOnly, VerifyRead,
             StopInterruptedItem, AdvanceTo, WorkerStates
    <3>2. CASE \/ PutReadOnly("read_only_put", "read_only_done") \/ VerifyCompare
               \/ VerifyInterrupted \/ StrongVerificationFails \/ CompleteItem
      BY <1>g, <1>l, <3>2, LatePlaces
         DEF PutReadOnly, VerifyCompare, VerifyInterrupted, FailItem,
             StrongVerificationFails, CompleteItem, StopInterruptedItem
    <3>3. QED
      BY <2>3, <3>1, <3>2
  <2>4. QED
    BY <2>1, <2>2, <2>3
<1>6. /\ item'[w.cur].created = It.created
      /\ \A i \in Items : i # w.cur => item'[i] = item[i]
  <2>1. CASE \/ FinishCreateBucket \/ CopyBucketSettings
             \/ FinishCopyBucketSettings \/ ApplyTargetLock
             \/ PutTargetLock("lock_put", "lock_done") \/ FinishTargetLock
    BY <1>r, <1>s, <1>u, <2>1
       DEF FinishCreateBucket, CopyBucketSettings, FinishCopyBucketSettings,
           ApplyTargetLock, PutTargetLock, FinishTargetLock, AdvanceTo
  <2>2. CASE TargetLockRefused
    <3>1. [It EXCEPT !.status = "failed", !.locked = FALSE,
                     !.lock_backup = {}].created = It.created
      BY <1>3 DEF ItemRows
    <3>2. QED
      BY <1>s, <2>2, <3>1 DEF TargetLockRefused
  <2>3. CASE \/ BeginSync \/ JournalGrant \/ PutSourceCopyGrant \/ SyncCopy
             \/ SyncWrite \/ SyncInterrupted \/ RestoreGrantedPolicy
    BY <1>r, <1>s, <1>u, <2>3
       DEF BeginSync, JournalGrant, PutSourceCopyGrant, SyncCopy, SyncWrite,
           SyncInterrupted, RestoreGrantedPolicy
  <2>4. CASE ClearGrantEffect
    <3>1. \A v : [[It EXCEPT !.effects = v] EXCEPT !.status = "failed"].created
                   = It.created
      BY <1>3 DEF ItemRows
    <3>2. QED
      BY <1>r, <1>s, <2>4, <3>1 DEF ClearGrantEffect
  <2>5. CASE FinishSync
    <3>1. [It EXCEPT !.pre_sync_done = TRUE, !.status = "awaiting_cutover",
                     !.step = "awaiting_cutover"].created = It.created
      BY <1>3 DEF ItemRows
    <3>2. QED
      BY <1>r, <1>s, <2>5, <3>1 DEF FinishSync, StopInterruptedItem
  <2>6. CASE \/ AwaitCutover \/ ApplyReadOnly \/ FinishReadOnly \/ VerifyRead
             \/ PutReadOnly("read_only_put", "read_only_done") \/ VerifyCompare
             \/ VerifyInterrupted \/ StrongVerificationFails \/ CompleteItem
    <3>1. [It EXCEPT !.status = "completed", !.step = "completed"].created
            = It.created
      BY <1>3 DEF ItemRows
    <3>2. QED
      BY <1>r, <1>s, <1>u, <2>6, <3>1
         DEF AwaitCutover, ApplyReadOnly, PutReadOnly, FinishReadOnly, VerifyRead,
             VerifyCompare, VerifyInterrupted, StrongVerificationFails, CompleteItem,
             FailItem, StopInterruptedItem, AdvanceTo
  <2>7. QED
    BY <2>1, <2>2, <2>3, <2>4, <2>5, <2>6
<1>7. QED
  BY <1>1, <1>4, <1>5, <1>6, LateStepProvenance

\* The steps of an item up to the creation of its destination, and failures.
LEMMA EarlyActionsProvenance ==
    ASSUME ProvenanceInv, ControlInv',
           \/ RunItem \/ PutTargetLock("relock_put", "loop") \/ ItemLoop
           \/ LookForTarget \/ CreateBucket \/ RecordTargetCreated
           \/ TransferFault
    PROVE  ProvenanceInv'
<1>0. ControlInv
  BY DEF ProvenanceInv
<1>1. w.pc \in ItemPcs
  BY DEF RunItem, PutTargetLock, ItemLoop, LookForTarget, CreateBucket,
         RecordTargetCreated, TransferFault, ItemPcs, OutsideItems, TransferPcs,
         ItemSteps
<1>2. /\ w.cur \in Items /\ w \in WorkerStates
      /\ item \in [Items -> ItemRows] /\ bucket \in [Items -> BucketStates]
  BY <1>0, <1>1, PlaceFacts
<1>3. /\ It \in ItemRows /\ Bk \in BucketStates /\ CreatedRow(It)
      /\ It = item[w.cur] /\ Bk = bucket[w.cur]
  BY <1>2 DEF It, Bk, ProvenanceInv, CreatedRows
<1>g. /\ \A pc : Goto(pc) => w'.pc = pc /\ w'.cur = w.cur
      /\ NextItem => w'.pc = "items"
  BY <1>2 DEF Goto, NextItem, WorkerStates
<1>u. UNCHANGED item => SetItem(It)
  BY <1>2, <1>3 DEF SetItem
<1>k. /\ {"relock_put", "loop", "bucket_absent", "bucket_created",
          "bucket_ready"} \subseteq RunPcs
      /\ {"loop", "bucket_absent", "bucket_created"} \cap
           ((ItemPcs \ EarlyPcs) \cup {"relock_put"}) = {}
      /\ ItemSteps \subseteq RunPcs
  BY DEF RunPcs, TransferPcs, EarlyPcs, ItemPcs, OutsideItems
<1>f. ASSUME SetItem([It EXCEPT !.status = "failed"]) \/
             SetItem([It EXCEPT !.status = "canceled"]) \/
             SetItem([It EXCEPT !.status = "paused"]),
             NextItem, UNCHANGED <<mig, bucket>>
      PROVE  ProvenanceInv'
  <2>1. PICK s \in {"failed", "canceled", "paused"} : SetItem([It EXCEPT !.status = s])
    BY <1>f
  <2> DEFINE row == [It EXCEPT !.status = s]
  <2>2. row \in ItemRows
    BY <1>3, StatusType DEF ItemStatuses
  <2>3. row.created = It.created /\ CreatedRow(row)
    BY <1>3 DEF ItemRows, CreatedRow
  <2>4. SetItem(row)
    BY <2>1
  <2> HIDE DEF row
  <2>5. QED
    BY <1>1, <1>f, <1>g, <2>2, <2>3, <2>4, ItemStepProvenance
<1>4. CASE RunItem
  <2>1. CASE It.created /\ opt.lock /\ ~It.locked
    <3> DEFINE row == JournalTargetLock(It)
    <3>1. row \in ItemRows /\ row.created = It.created /\ CreatedRow(row)
      BY <1>3, JournalTypes DEF JournalTargetLock, ItemRows, CreatedRow
    <3>2. SetItem(row) /\ UNCHANGED <<mig, bucket>>
      BY <1>4, <2>1 DEF RunItem
    <3>3. w'.pc = "relock_put" /\ w'.cur = w.cur
      BY <1>2, <1>4, <2>1 DEF RunItem, WorkerStates
    <3> HIDE DEF row
    <3>4. QED
      BY <1>1, <1>k, <2>1, <3>1, <3>2, <3>3, ItemStepProvenance
  <2>2. CASE ~(It.created /\ opt.lock /\ ~It.locked)
    BY <1>1, <1>3, <1>4, <1>g, <1>k, <1>u, <2>2, ItemStepProvenance DEF RunItem
  <2>3. QED
    BY <2>1, <2>2
<1>5. CASE PutTargetLock("relock_put", "loop")
  <2>1. \A i \in Items : Exists(bucket[i]) => Exists(bucket'[i])
    BY <1>2, <1>3, <1>5, SetItemFacts DEF PutTargetLock, Exists, BucketStates
  <2>2. w'.pc = "loop" /\ w'.cur = w.cur /\ SetItem(It) /\ UNCHANGED mig
    BY <1>5, <1>g, <1>u DEF PutTargetLock
  <2>3. QED
    BY <1>1, <1>3, <1>k, <2>1, <2>2, ItemStepProvenance
<1>6. CASE ItemLoop
  <2>1. CASE Goto(It.step) /\ UNCHANGED item
    <3>1. w'.pc = It.step /\ w'.cur = w.cur /\ It.step \in ItemSteps
      BY <1>3, <1>g, <2>1 DEF ItemRows
    <3>2. /\ It.step # "bucket_created"
          /\ It.step \in (ItemPcs \ EarlyPcs) \cup {"relock_put"} => It.created
      BY <1>3, <3>1 DEF CreatedRow, EarlyPcs, ItemSteps
    <3>3. QED
      BY <1>1, <1>3, <1>6, <1>k, <1>u, <2>1, <3>1, <3>2, ItemStepProvenance
         DEF ItemLoop
  <2>2. CASE ~(Goto(It.step) /\ UNCHANGED item)
    BY <1>6, <1>f, <2>2 DEF ItemLoop
  <2>3. QED
    BY <2>1, <2>2
<1>7. CASE LookForTarget
  <2>1. CASE FailItem
    BY <1>7, <1>f, <2>1 DEF LookForTarget, FailItem
  <2>2. CASE ~FailItem
    <3>1. /\ SetItem(It) /\ UNCHANGED <<mig, bucket>> /\ w'.cur = w.cur
          /\ \/ w'.pc = "bucket_absent"
             \/ w'.pc = "bucket_ready" /\ It.created
      BY <1>7, <1>g, <1>u, <2>2 DEF LookForTarget
    <3>2. QED
      BY <1>1, <1>3, <1>k, <3>1, ItemStepProvenance
  <2>3. QED
    BY <2>1, <2>2
<1>8. CASE CreateBucket
  <2>1. CASE FailItem /\ UNCHANGED bucket
    BY <1>8, <1>f, <2>1 DEF CreateBucket, FailItem
  <2>2. CASE ~(FailItem /\ UNCHANGED bucket)
    <3> DEFINE b == [Bk EXCEPT !.target_by = "migration",
                               !.target_policy = {}, !.target = Empty]
    <3>1. SetItem(It) /\ UNCHANGED mig /\ w'.cur = w.cur /\ w'.pc = "bucket_created"
      BY <1>8, <1>g, <1>u, <2>2 DEF CreateBucket
    <3>2. SetBucket(b)
      BY <1>8, <2>2 DEF CreateBucket
    <3>3. Exists(b)
      BY <1>3 DEF Exists, BucketStates
    <3>4. /\ Exists(bucket'[w.cur])
          /\ \A i \in Items : Exists(bucket[i]) => Exists(bucket'[i])
      BY <1>2, <3>2, <3>3, SetItemFacts
    <3>5. QED
      BY <1>1, <1>3, <1>k, <3>1, <3>4, ItemStepProvenance
  <2>3. QED
    BY <2>1, <2>2
<1>9. CASE RecordTargetCreated
  <2> DEFINE row == [It EXCEPT !.created = TRUE]
  <2>1. row \in ItemRows /\ row.created /\ CreatedRow(row)
    BY <1>3 DEF ItemRows, CreatedRow
  <2>2. /\ SetItem(row) /\ UNCHANGED <<mig, bucket>> /\ w.pc = "bucket_created"
        /\ w'.cur = w.cur /\ w'.pc = "bucket_ready"
    BY <1>9, <1>g DEF RecordTargetCreated
  <2> HIDE DEF row
  <2>3. QED
    BY <1>1, <1>k, <2>1, <2>2, ItemStepProvenance
<1>10. CASE TransferFault
  <2>1. CASE InGrant
    <3>1. w.pc \in ItemPcs \ EarlyPcs
      BY <2>1, LatePlaces DEF InGrant
    <3>2. w'.pc \in {"grant_restore", "sync_done"} /\ w'.cur = w.cur
      BY <1>2, <1>10, <2>1 DEF TransferFault, LeaveSync, WorkerStates
    <3>3. UNCHANGED <<item, bucket, mig>>
      BY <1>10, <2>1 DEF TransferFault
    <3>4. QED
      BY <1>3, <3>1, <3>2, <3>3, LatePlaces, LateStepProvenance
  <2>2. CASE ~InGrant
    BY <1>10, <1>f, <2>2 DEF TransferFault, FailItem
  <2>3. QED
    BY <2>1, <2>2
<1>11. QED
  BY <1>4, <1>5, <1>6, <1>7, <1>8, <1>9, <1>10

\* A step after which no item is under way: the rows keep their steps and
\* their provenance.
LEMMA QuietProvenance ==
    ASSUME ProvenanceInv, ControlInv',
           w'.pc \notin ItemPcs \cup TargetCleanupPcs,
           \A i \in Items :
             /\ item'[i].step = item[i].step /\ item'[i].created = item[i].created
             /\ item'[i].status = "awaiting_cutover" =>
                  item[i].status = "awaiting_cutover",
           mig'.operation = mig.operation,
           mig'.maintenance \in {"queued", "running"} =>
             mig.maintenance \in {"queued", "running"} /\ mig'.status = mig.status,
           w'.pc \in CleanupPcs =>
             w.pc \in CleanupPcs \/ mig.operation # "restore_access"
    PROVE  ProvenanceInv'
<1>1. CleanupFinal'
  BY DEF ProvenanceInv, CleanupFinal
<1>2. CreatedRows'
  BY DEF ProvenanceInv, CreatedRows, CreatedRow
<1>3. {"bucket_created", "relock_put"} \subseteq ItemPcs
  BY DEF ItemPcs, OutsideItems, TransferPcs
<1>4. CreatedPlaces'
  BY <1>3 DEF CreatedPlaces
<1>5. QED
  BY <1>1, <1>2, <1>4 DEF ProvenanceInv

\* The places where no item is under way.
LEMMA QuietPlaces ==
    /\ {"idle", "start", "items", "final", "pausing", "finalize", "release",
        "recover", "recover_clear", "cleanup"} \cap (ItemPcs \cup TargetCleanupPcs) = {}
    /\ {"idle", "start", "items", "final", "pausing", "finalize", "release",
        "recover", "recover_clear"} \cap CleanupPcs = {}
    /\ CheckPcs \cap (ItemPcs \cup TargetCleanupPcs \cup CleanupPcs) = {}
    /\ (CleanupPcs \ TargetCleanupPcs) \cap ItemPcs = {}
    /\ TargetCleanupPcs \cap ItemPcs = {}
    /\ TargetCleanupPcs \subseteq CleanupPcs
<1>1. ItemPcs \subseteq RunPcs
  BY DEF ItemPcs, OutsideItems, RunPcs
<1>2. /\ {"idle", "start", "release", "recover", "recover_clear", "cleanup"}
           \cap RunPcs = {}
      /\ CheckPcs \cap RunPcs = {} /\ CleanupPcs \cap RunPcs = {}
  BY DEF RunPcs, TransferPcs, ItemSteps, CheckPcs, CleanupPcs
<1>3. {"items", "final", "pausing", "finalize"} \cap ItemPcs = {}
  BY DEF ItemPcs, OutsideItems, ItemSteps
<1>4. /\ TargetCleanupPcs \subseteq CleanupPcs /\ CheckPcs \cap CleanupPcs = {}
      /\ {"idle", "start", "items", "final", "pausing", "finalize", "release",
          "recover", "recover_clear"} \cap CleanupPcs = {}
      /\ {"items", "final", "pausing", "finalize"} \cap TargetCleanupPcs = {}
      /\ "cleanup" \notin TargetCleanupPcs
  BY DEF TargetCleanupPcs, CleanupPcs, CheckPcs
<1>5. QED
  BY <1>1, <1>2, <1>3, <1>4

\* The loop over the items, the end of a run, claims and crashes.
LEMMA LoopProvenance ==
    ASSUME ProvenanceInv, ControlInv',
           \/ BeginTransfer \/ CancelRun \/ SeePause \/ PauseRun \/ SkipItem
           \/ ExecuteItem \/ ItemsDone \/ FinalCheck \/ Finalize \/ FatalError
           \/ Claim \/ ClaimPreparation \/ LeaseExpires \/ Crash
    PROVE  ProvenanceInv'
<1>0. /\ ControlInv /\ w \in WorkerStates /\ mig \in MigrationRows
      /\ item \in [Items -> ItemRows] /\ bucket \in [Items -> BucketStates]
  BY PlaceFacts DEF ProvenanceInv
<1>i. IdleWorker.pc = "idle"
  BY IdleType
<1>s. ASSUME NEW v \in {"running", "failed", "paused"},
             \A i \in Items :
               item'[i] = item[i] \/ item'[i] = [item[i] EXCEPT !.status = v]
      PROVE  \A i \in Items :
               /\ item'[i].step = item[i].step
               /\ item'[i].created = item[i].created
               /\ item'[i].status = "awaiting_cutover" =>
                    item[i].status = "awaiting_cutover"
  <2> SUFFICES ASSUME NEW i \in Items
               PROVE  /\ item'[i].step = item[i].step
                      /\ item'[i].created = item[i].created
                      /\ item'[i].status = "awaiting_cutover" =>
                           item[i].status = "awaiting_cutover"
    OBVIOUS
  <2>1. item[i] \in ItemRows
    BY <1>0
  <2>2. QED
    BY <1>s, <2>1 DEF ItemRows
<1>m. ASSUME w.pc \in {"items", "final", "pausing", "finalize"}
      PROVE  mig.maintenance \notin {"queued", "running"}
  <2>1. w.pc \in RunPcs
    BY <1>m DEF RunPcs, TransferPcs
  <2>2. QED
    BY <1>0, <2>1, PlaceFacts DEF ControlInv, WorkflowsExclusive
<1>l. CASE LeaseExpires
  <2>1. UNCHANGED <<item, w>> /\ w.pc \in {"idle"} \cup RevokedPcs
    BY <1>0, <1>l, PlaceFacts DEF LeaseExpires
  <2>2. /\ mig'.operation = mig.operation
        /\ mig'.maintenance = mig.maintenance /\ mig'.status = mig.status
    BY <1>0, <1>l DEF LeaseExpires, MigrationRows
  <2>3. QED
    BY <2>1, <2>2, RevokedApart, QuietProvenance
<1>1. CASE BeginTransfer \/ CancelRun \/ SeePause \/ ItemsDone \/ FinalCheck
  <2>1. UNCHANGED item /\ w'.pc \in {"items", "release", "pausing", "final", "finalize"}
    BY <1>0, <1>1, PlaceAfter
       DEF BeginTransfer, CancelRun, SeePause, ItemsDone, FinalCheck
  <2>2. /\ mig'.operation = mig.operation
        /\ mig'.maintenance \in {"queued", "running"} =>
             mig.maintenance \in {"queued", "running"} /\ mig'.status = mig.status
    BY <1>0, <1>1 DEF BeginTransfer, CancelRun, SeePause, ItemsDone, FinalCheck,
                      MigrationRows
  <2>3. QED
    BY <2>1, <2>2, QuietPlaces, QuietProvenance
<1>2. CASE PauseRun \/ FatalError
  <2>1. w'.pc = "idle"
    BY <1>2, <1>i DEF PauseRun, FatalError
  <2>2. /\ mig'.operation = mig.operation
        /\ mig'.maintenance \notin {"queued", "running"}
    BY <1>0, <1>2, <1>m DEF PauseRun, FatalError, MigrationRows
  <2>3. \A i \in Items :
          /\ item'[i].step = item[i].step /\ item'[i].created = item[i].created
          /\ item'[i].status = "awaiting_cutover" =>
               item[i].status = "awaiting_cutover"
    <3>1. \E v \in {"running", "failed", "paused"} : \A i \in Items :
            item'[i] = item[i] \/ item'[i] = [item[i] EXCEPT !.status = v]
      BY <1>2 DEF PauseRun, FatalError
    <3>2. QED
      BY <1>s, <3>1
  <2>4. QED
    BY <2>1, <2>2, <2>3, QuietPlaces, QuietProvenance
<1>3. CASE Finalize
  <2>1. UNCHANGED item /\ w'.pc \in {"release", "idle"}
    BY <1>0, <1>3, <1>i, PlaceAfter DEF Finalize
  <2>2. /\ mig'.operation = mig.operation
        /\ mig'.maintenance \notin {"queued", "running"}
    BY <1>0, <1>3, <1>m DEF Finalize, MigrationRows
  <2>3. QED
    BY <2>1, <2>2, QuietPlaces, QuietProvenance
<1>4. CASE SkipItem
  <2>1. UNCHANGED <<item, mig>> /\ w'.pc = "items"
    BY <1>0, <1>4, PlaceAfter DEF SkipItem
  <2>2. QED
    BY <2>1, QuietPlaces, QuietProvenance
<1>5. CASE ExecuteItem
  <2>1. w.cur \in Items /\ It = item[w.cur] /\ Bk = bucket[w.cur]
    BY <1>0, <1>5, LoopIndex DEF ExecuteItem, WorkerStates, It, Bk
  <2>2. PICK v \in {"running", "failed"} : SetItem([It EXCEPT !.status = v])
    BY <1>5 DEF ExecuteItem, FailItem
  <2>3. \A i \in Items :
          /\ item'[i].step = item[i].step /\ item'[i].created = item[i].created
          /\ item'[i].status = "awaiting_cutover" =>
               item[i].status = "awaiting_cutover"
    <3>1. \A i \in Items :
            item'[i] = item[i] \/ item'[i] = [item[i] EXCEPT !.status = v]
      BY <1>0, <2>1, <2>2, SetItemFacts
    <3>2. QED
      BY <1>s, <3>1
  <2>4. CASE ~TransferPreconditions(w.cur)
    <3>1. UNCHANGED mig /\ w'.pc = "items"
      BY <1>0, <1>5, <2>4, PlaceAfter DEF ExecuteItem
    <3>2. QED
      BY <2>3, <3>1, QuietPlaces, QuietProvenance
  <2>5. CASE TransferPreconditions(w.cur)
    <3>1. /\ UNCHANGED <<mig, bucket>> /\ w'.pc = "item" /\ w'.cur = w.cur
          /\ It.status # "completed"
      BY <1>0, <1>5, <2>5 DEF ExecuteItem, Goto, WorkerStates
    <3>2. It.created => Exists(Bk)
      BY <2>1, <2>5, <3>1 DEF TransferPreconditions, Exists
    <3>3. /\ It'.created => Exists(Bk')
          /\ "item" \in EarlyPcs /\ "item" \notin CleanupPcs \cup TargetCleanupPcs
      BY <2>1, <2>3, <3>1, <3>2 DEF It, Bk, EarlyPcs, CleanupPcs, TargetCleanupPcs
    <3>4. CreatedPlaces'
      BY <3>1, <3>3 DEF CreatedPlaces
    <3>5. CreatedRows' /\ CleanupFinal'
      BY <2>3, <3>1, <3>3 DEF ProvenanceInv, CreatedRows, CreatedRow, CleanupFinal
    <3>6. QED
      BY <3>4, <3>5 DEF ProvenanceInv
  <2>6. QED
    BY <2>4, <2>5
<1>6. CASE Claim \/ ClaimPreparation \/ Crash
  <2>1. UNCHANGED item /\ w'.pc \in {"start", "recover", "idle"}
    BY <1>6, <1>i, IdleType DEF Claim, ClaimPreparation, Crash, WorkerStates
  <2>2. /\ mig'.operation = mig.operation
        /\ mig'.maintenance = mig.maintenance /\ mig'.status = mig.status
    BY <1>0, <1>6 DEF Claim, ClaimPreparation, Crash, MigrationRows
  <2>3. QED
    BY <2>1, <2>2, QuietPlaces, QuietProvenance
<1>7. QED
  BY <1>l, <1>1, <1>2, <1>3, <1>4, <1>5, <1>6

\* The way out of a run whose creator lost access.
LEMMA RevokedProvenance ==
    ASSUME ProvenanceInv, ControlInv',
           CreatorAccessRevoked \/ Revocation \/ RevokedGrantFault
    PROVE  ProvenanceInv'
<1>0. /\ ControlInv /\ w \in WorkerStates /\ mig \in MigrationRows
      /\ item \in [Items -> ItemRows]
  BY PlaceFacts DEF ProvenanceInv
<1>g. \A pc : Goto(pc) => w'.pc = pc
  BY <1>0, PlaceAfter
<1>1. w'.pc \in {"idle"} \cup RevokedPcs
  BY <1>0, <1>g, IdleType, RevokedApart
     DEF CreatorAccessRevoked, Revocation, RestoreRevokedGrant, ClearRevokedGrant,
         FailRevokedItem, RevokedAgain, RevokedRunEnds, RevokedGrantFault
<1>2. /\ mig'.operation = mig.operation
      /\ mig'.maintenance \in {"queued", "running"} =>
           mig.maintenance \in {"queued", "running"} /\ mig'.status = mig.status
  BY <1>0
     DEF CreatorAccessRevoked, Revocation, RestoreRevokedGrant, ClearRevokedGrant,
         FailRevokedItem, RevokedAgain, RevokedRunEnds, RevokedGrantFault,
         MigrationRows
<1>3. \A i \in Items :
        /\ item'[i].step = item[i].step /\ item'[i].created = item[i].created
        /\ item'[i].status = "awaiting_cutover" =>
             item[i].status = "awaiting_cutover"
  <2>1. CASE ClearRevokedGrant \/ FailRevokedItem
    <3>1. w.cur \in Items
      BY <1>0, <2>1, RevokedApart, PlaceFacts DEF ClearRevokedGrant, FailRevokedItem
    <3>2. It \in ItemRows /\ It = item[w.cur]
      BY <1>0, <3>1 DEF It
    <3> DEFINE a == [It EXCEPT !.effects = {e \in @ : e.name # "source_copy_grant"}]
               b == [It EXCEPT !.status = "failed"]
    <3>3. /\ a.step = It.step /\ a.created = It.created /\ a.status = It.status
          /\ b.step = It.step /\ b.created = It.created /\ b.status = "failed"
      BY <3>2 DEF ItemRows
    <3>4. SetItem(a) \/ SetItem(b)
      BY <2>1 DEF ClearRevokedGrant, FailRevokedItem
    <3> HIDE DEF a, b
    <3>5. QED
      BY <1>0, <3>1, <3>2, <3>3, <3>4, SetItemFacts
  <2>2. CASE UNCHANGED item
    BY <2>2
  <2>3. QED
    BY <2>1, <2>2
       DEF CreatorAccessRevoked, Revocation, RestoreRevokedGrant, RevokedAgain,
           RevokedRunEnds, RevokedGrantFault
<1>4. QED
  BY <1>1, <1>2, <1>3, RevokedApart, QuietProvenance

\* The rows that a release unprotects keep everything else.
LEMMA UnprotectedRow ==
    ASSUME item \in [Items -> ItemRows], NEW i \in Items
    PROVE  /\ Unprotected(i) \in ItemRows
           /\ Unprotected(i).step = item[i].step
           /\ Unprotected(i).created = item[i].created
           /\ Unprotected(i).status = item[i].status
           /\ Unprotected(i).receipt = item[i].receipt
           /\ Unprotected(i).effects = item[i].effects
           /\ Unprotected(i).ro_backup \in {item[i].ro_backup, {}}
           /\ Unprotected(i).lock_backup \in {item[i].lock_backup, {}}
           /\ [kind |-> "target", item |-> i] \notin w.released =>
                Unprotected(i).locked = item[i].locked
           /\ Unprotected(i).locked => item[i].locked
<1> DEFINE row == [item[i] EXCEPT !.ro = FALSE, !.ro_backup = {}]
<1>1. \A r \in ItemRows :
        LET u == [r EXCEPT !.locked = FALSE, !.lock_backup = {}]
        IN  /\ u \in ItemRows /\ u.step = r.step /\ u.created = r.created
            /\ u.status = r.status /\ u.effects = r.effects /\ u.receipt = r.receipt
            /\ u.ro_backup = r.ro_backup /\ u.lock_backup = {} /\ u.locked = FALSE
  BY DEF ItemRows, Policies
<1>2. /\ row \in ItemRows /\ row.step = item[i].step /\ row.created = item[i].created
      /\ row.status = item[i].status /\ row.effects = item[i].effects
      /\ row.receipt = item[i].receipt
      /\ row.ro_backup = {} /\ row.lock_backup = item[i].lock_backup
      /\ row.locked = item[i].locked
  BY DEF ItemRows, Policies
<1> DEFINE base == IF [kind |-> "source", item |-> i] \in w.released
                   THEN row ELSE item[i]
<1>3. /\ base \in ItemRows /\ base.step = item[i].step
      /\ base.created = item[i].created
      /\ base.status = item[i].status /\ base.effects = item[i].effects
      /\ base.receipt = item[i].receipt
      /\ base.ro_backup \in {item[i].ro_backup, {}}
      /\ base.lock_backup = item[i].lock_backup /\ base.locked = item[i].locked
  BY <1>2
<1>4. Unprotected(i) = IF [kind |-> "target", item |-> i] \in w.released
                       THEN [base EXCEPT !.locked = FALSE, !.lock_backup = {}]
                       ELSE base
  BY DEF Unprotected
<1> HIDE DEF base, row
<1> DEFINE u == [base EXCEPT !.locked = FALSE, !.lock_backup = {}]
<1>5. /\ u \in ItemRows /\ u.step = base.step /\ u.created = base.created
      /\ u.status = base.status /\ u.effects = base.effects /\ u.receipt = base.receipt
      /\ u.ro_backup = base.ro_backup /\ u.lock_backup = {} /\ u.locked = FALSE
  BY <1>1, <1>3
<1>6. Unprotected(i) = IF [kind |-> "target", item |-> i] \in w.released THEN u ELSE base
  BY <1>4
<1> HIDE DEF u
<1>7. CASE [kind |-> "target", item |-> i] \in w.released
  BY <1>3, <1>5, <1>6, <1>7
<1>8. CASE [kind |-> "target", item |-> i] \notin w.released
  BY <1>3, <1>6, <1>8
<1>9. QED
  BY <1>7, <1>8

\* Releases, and the commits that end them.
LEMMA ReleaseProvenance ==
    ASSUME ProvenanceInv, ControlInv', Release \/ ReleaseFault
    PROVE  ProvenanceInv'
<1>0. /\ ControlInv /\ w \in WorkerStates /\ mig \in MigrationRows
      /\ item \in [Items -> ItemRows]
  BY PlaceFacts DEF ProvenanceInv
<1>1. CASE ReleaseProtection \/ ReleaseFault
  <2>1. \A r, ok : Drop(r, ok) => w'.pc = w.pc
    BY <1>0 DEF Drop, WorkerStates
  <2>2. w'.pc = "release" /\ UNCHANGED <<mig, item>>
    BY <1>1, <2>1 DEF ReleaseProtection, ReleaseFault
  <2>3. QED
    BY <2>2, QuietPlaces, QuietProvenance
<1>2. CASE CommitCanceled \/ CommitFinished \/ CommitRestored
  <2>1. w'.pc = "idle"
    BY <1>2, IdleType DEF CommitCanceled, CommitFinished, CommitRestored
  <2>2. \A i \in Items :
          /\ item'[i].step = item[i].step /\ item'[i].created = item[i].created
          /\ item'[i].status = "awaiting_cutover" =>
               item[i].status = "awaiting_cutover"
    <3> SUFFICES ASSUME NEW i \in Items
                 PROVE  /\ item'[i].step = item[i].step
                        /\ item'[i].created = item[i].created
                        /\ item'[i].status = "awaiting_cutover" =>
                             item[i].status = "awaiting_cutover"
      OBVIOUS
    <3> DEFINE u == Unprotected(i)
    <3>1. /\ u \in ItemRows /\ u.step = item[i].step
          /\ u.created = item[i].created /\ u.status = item[i].status
      BY <1>0, UnprotectedRow
    <3>2. \/ item'[i] = u
          \/ item'[i] = [u EXCEPT !.status = "canceled"]
          \/ item'[i] = [u EXCEPT !.receipt = NoReceipt]
      BY <1>2 DEF CommitCanceled, CommitFinished, CommitRestored
    <3> HIDE DEF u
    <3>3. QED
      BY <3>1, <3>2 DEF ItemRows
  <2>3. /\ mig'.operation = mig.operation
        /\ mig'.maintenance \notin {"queued", "running"}
    <3>1. CASE CommitRestored
      BY <1>0, <3>1 DEF CommitRestored, MigrationRows
    <3>2. CASE CommitCanceled \/ CommitFinished
      <4>1. InRun(w)
        BY <3>2 DEF CommitCanceled, CommitFinished, EndRelease, InRun
      <4>2. mig.maintenance \notin {"queued", "running"}
        BY <1>0, <4>1 DEF ControlInv, PhaseOK, WorkflowsExclusive
      <4>3. QED
        BY <1>0, <3>2, <4>2 DEF CommitCanceled, CommitFinished, MigrationRows
    <3>3. QED
      BY <1>2, <3>1, <3>2
  <2>4. QED
    BY <2>1, <2>2, <2>3, QuietPlaces, QuietProvenance
<1>3. QED
  BY <1>1, <1>2 DEF Release

\* Maintenance.
LEMMA MaintenanceProvenance ==
    ASSUME ProvenanceInv, ControlInv', Maintenance \/ MaintenanceFaults
    PROVE  ProvenanceInv'
<1>0. /\ ControlInv /\ w \in WorkerStates /\ mig \in MigrationRows
      /\ item \in [Items -> ItemRows] /\ bucket \in [Items -> BucketStates]
  BY PlaceFacts DEF ProvenanceInv
<1>g. /\ \A pc : Goto(pc) => w'.pc = pc /\ w'.cur = w.cur
      /\ \A failed : NextCleanup(failed) => w'.pc = "cleanup"
      /\ CleanupRefused => w'.pc = "cleanup"
  BY <1>0, PlaceAfter DEF Goto, CleanupRefused, WorkerStates
<1>f. ASSUME NEW failed, FinishMaintenance(failed), UNCHANGED item
      PROVE  ProvenanceInv'
  <2>1. /\ w'.pc = "idle" /\ mig'.operation = mig.operation
        /\ mig'.maintenance \notin {"queued", "running"}
    BY <1>0, <1>f, IdleType DEF FinishMaintenance, MigrationRows
  <2>2. QED
    BY <1>f, <2>1, QuietPlaces, QuietProvenance
<1>o. w.pc \in CleanupPcs => mig.operation # "restore_access"
  BY DEF ProvenanceInv, CleanupFinal
<1>1. CASE BeginMaintenance
  <2>1. /\ UNCHANGED item /\ mig'.operation = mig.operation
        /\ mig.maintenance \in {"queued", "running"} /\ mig'.status = mig.status
        /\ w'.pc = IF mig.operation = "restore_access" THEN "recover" ELSE "cleanup"
    BY <1>0, <1>1 DEF BeginMaintenance, MigrationRows, WorkerStates
  <2>2. QED
    BY <2>1, QuietPlaces, QuietProvenance
<1>2. CASE RecoverEffect \/ RecoveryDone
  <2>1. UNCHANGED <<item, mig>>
    BY <1>2 DEF RecoverEffect, RecoveryDone
  <2>2. w'.pc \in {"recover_clear", "release", "check_item"}
    BY <1>0, <1>2 DEF RecoverEffect, RecoveryDone, WorkerStates
  <2>3. QED
    BY <2>1, <2>2, QuietPlaces, QuietProvenance DEF CheckPcs
<1>3. CASE ClearRecoveredEffect
  <2>1. w.cur \in Items
    BY <1>0, <1>3 DEF ClearRecoveredEffect, ControlInv, TypeInv, CurOK, FreePcs
  <2>2. PICK e : SetItem([It EXCEPT !.effects = @ \ {e}])
    BY <1>3 DEF ClearRecoveredEffect
  <2>3. \A i \in Items :
          /\ item'[i].step = item[i].step /\ item'[i].created = item[i].created
          /\ item'[i].status = item[i].status
    BY <1>0, <2>1, <2>2, SetItemFacts DEF It, ItemRows
  <2>4. w'.pc = "recover" /\ UNCHANGED mig
    BY <1>3, <1>g DEF ClearRecoveredEffect
  <2>5. QED
    BY <2>3, <2>4, QuietPlaces, QuietProvenance
<1>4. CASE RecoveryFault
  <2>1. CASE \E failed \in BOOLEAN : FinishMaintenance(failed)
    BY <1>4, <1>f, <2>1 DEF RecoveryFault
  <2>2. CASE ~ \E failed \in BOOLEAN : FinishMaintenance(failed)
    <3>1. /\ UNCHANGED item /\ w'.pc = "idle" /\ mig'.operation = mig.operation
          /\ mig'.maintenance = mig.maintenance /\ mig'.status = mig.status
      BY <1>0, <1>4, <2>2, IdleType DEF RecoveryFault, MigrationRows
    <3>2. QED
      BY <3>1, QuietPlaces, QuietProvenance
  <2>3. QED
    BY <2>1, <2>2
<1>5. CASE MaintenanceFault
  BY <1>5, <1>f DEF MaintenanceFault
<1>6. CASE CleanupLoop
  <2>1. CASE FinishMaintenance(w.err)
    BY <1>6, <1>f, <2>1 DEF CleanupLoop
  <2>2. CASE NextCleanup(FALSE) /\ UNCHANGED mig
    BY <1>6, <1>g, <1>o, <2>2, QuietPlaces, QuietProvenance
       DEF CleanupLoop, CleanupPcs
  <2>3. CASE /\ w.cur <= N /\ Selected(w.cur) /\ UNCHANGED mig
             /\ Goto(IF mig.operation = "cleanup_source" THEN "cs_lock" ELSE "ct_lock")
    <3>1. w.cur \in Items /\ w.pc = "cleanup"
      BY <1>0, <1>6, <2>3, LoopIndex DEF WorkerStates, CleanupLoop
    <3>2. CASE mig.operation = "cleanup_source"
      <4>1. w'.pc = "cs_lock" /\ UNCHANGED <<item, mig>>
        BY <1>6, <1>g, <2>3, <3>2 DEF CleanupLoop
      <4>2. "cs_lock" \in CleanupPcs \ TargetCleanupPcs
        BY DEF CleanupPcs, TargetCleanupPcs
      <4>3. QED
        BY <1>o, <3>1, <3>2, <4>1, <4>2, QuietPlaces, QuietProvenance
    <3>3. CASE mig.operation # "cleanup_source"
      <4>1. w'.pc = "ct_lock" /\ w'.cur = w.cur /\ UNCHANGED <<item, mig>>
        BY <1>6, <1>g, <2>3, <3>3 DEF CleanupLoop
      <4>2. It'.status = "failed"
        BY <2>3, <3>3, <4>1 DEF Selected, It
      <4>3. CreatedPlaces'
        BY <4>1, <4>2 DEF CreatedPlaces, ItemPcs, OutsideItems, TransferPcs, ItemSteps
      <4>4. "cleanup" \in CleanupPcs
        BY DEF CleanupPcs
      <4>5. CreatedRows' /\ CleanupFinal'
        BY <1>o, <3>1, <4>1, <4>4
           DEF ProvenanceInv, CreatedRows, CleanupFinal
      <4>6. QED
        BY <4>3, <4>5 DEF ProvenanceInv
    <3>4. QED
      BY <3>2, <3>3
  <2>4. QED
    BY <1>6, <2>1, <2>2, <2>3 DEF CleanupLoop
<1>7. CASE CleanupFault
  BY <1>7, <1>g, <1>o, QuietPlaces, QuietProvenance
     DEF CleanupFault, CleanupRefused, CleanupPcs
<1>8. ASSUME w.pc \in CleanupPcs \ TargetCleanupPcs, w.pc # "cleanup",
             w'.pc \in CleanupPcs \ TargetCleanupPcs, UNCHANGED mig,
             \/ UNCHANGED item
             \/ \E row : /\ SetItem(row)
                         /\ row.step = It.step /\ row.created = It.created
                         /\ row.status = It.status
      PROVE  ProvenanceInv'
  <2>1. w.cur \in Items
    BY <1>0, <1>8, PlaceFacts
  <2>2. \A i \in Items :
          /\ item'[i].step = item[i].step /\ item'[i].created = item[i].created
          /\ item'[i].status = item[i].status
    BY <1>0, <1>8, <2>1, SetItemFacts DEF It
  <2>3. QED
    BY <1>8, <1>o, <2>2, QuietPlaces, QuietProvenance
<1>9. CASE \/ CleanupLockTarget \/ PutTargetLock("cs_lock_put", "cs_target_hash")
           \/ CleanupHashTarget \/ CleanupReadOnly
           \/ PutReadOnly("cs_read_only_put", "cs_source_hash")
           \/ CleanupHashSource \/ CleanupCheckSource \/ CleanupPutPolicy
           \/ PurgeSource \/ RemoveSource \/ RecordSourceDeleted
           \/ CleanupUnlockTarget \/ FinishSourceCleanup
  <2>k. {"cleanup", "cs_lock", "cs_lock_put", "cs_target_hash", "cs_read_only",
         "cs_read_only_put", "cs_source_hash", "cs_check", "cs_policy_put",
         "cs_purge", "cs_remove", "cs_record", "cs_unlock", "cs_finish"}
           = CleanupPcs \ TargetCleanupPcs
    BY DEF CleanupPcs, TargetCleanupPcs
  <2>1. w.pc \in CleanupPcs \ TargetCleanupPcs /\ w.pc # "cleanup" /\ UNCHANGED mig
    BY <1>9, <2>k
       DEF CleanupLockTarget, PutTargetLock, CleanupHashTarget, CleanupReadOnly,
           PutReadOnly, CleanupHashSource, CleanupCheckSource, CleanupPutPolicy,
           PurgeSource, RemoveSource, RecordSourceDeleted, CleanupUnlockTarget,
           FinishSourceCleanup
  <2>2. w.cur \in Items /\ It \in ItemRows
    BY <1>0, <2>1, PlaceFacts DEF It
  <2>3. w'.pc \in CleanupPcs \ TargetCleanupPcs
    <3>1. CASE CleanupLockTarget
      BY <1>0, <1>g, <2>k, <3>1 DEF CleanupLockTarget, WorkerStates
    <3>2. CASE CleanupHashTarget \/ CleanupReadOnly
      BY <1>0, <1>g, <2>k, <3>2 DEF CleanupHashTarget, CleanupReadOnly, WorkerStates
    <3>3. CASE \/ PutTargetLock("cs_lock_put", "cs_target_hash")
               \/ PutReadOnly("cs_read_only_put", "cs_source_hash")
               \/ CleanupHashSource \/ CleanupCheckSource \/ CleanupPutPolicy
               \/ PurgeSource \/ RemoveSource \/ RecordSourceDeleted
               \/ CleanupUnlockTarget \/ FinishSourceCleanup
      BY <1>g, <2>k, <3>3
         DEF PutTargetLock, PutReadOnly, CleanupHashSource, CleanupCheckSource,
             CleanupPutPolicy, PurgeSource, RemoveSource, RecordSourceDeleted,
             CleanupUnlockTarget, FinishSourceCleanup
    <3>4. QED
      BY <1>9, <3>1, <3>2, <3>3
  <2>4. \/ UNCHANGED item
        \/ \E row : /\ SetItem(row)
                    /\ row.step = It.step /\ row.created = It.created
                    /\ row.status = It.status
    <3>1. CASE CleanupLockTarget \/ CleanupReadOnly
      <4>1. /\ JournalTargetLock(It).step = It.step
            /\ JournalTargetLock(It).created = It.created
            /\ JournalTargetLock(It).status = It.status
            /\ JournalReadOnly(It).step = It.step
            /\ JournalReadOnly(It).created = It.created
            /\ JournalReadOnly(It).status = It.status
        BY <2>2 DEF JournalTargetLock, JournalReadOnly, ItemRows
      <4>2. \/ UNCHANGED item \/ SetItem(JournalTargetLock(It))
            \/ SetItem(JournalReadOnly(It))
        BY <3>1 DEF CleanupLockTarget, CleanupReadOnly, CleanupRefused
      <4>3. QED
        BY <4>1, <4>2
    <3>2. CASE CleanupHashSource \/ RecordSourceDeleted \/ FinishSourceCleanup
      <4> DEFINE a == [It EXCEPT !.receipt = w.snap]
                 b == [It EXCEPT !.source_deleted = TRUE, !.ro = FALSE,
                                 !.ro_backup = {}]
                 c == [It EXCEPT !.locked = FALSE, !.lock_backup = {}]
      <4>1. /\ a.step = It.step /\ a.created = It.created /\ a.status = It.status
            /\ b.step = It.step /\ b.created = It.created /\ b.status = It.status
            /\ c.step = It.step /\ c.created = It.created /\ c.status = It.status
        BY <2>2 DEF ItemRows
      <4>2. UNCHANGED item \/ SetItem(a) \/ SetItem(b) \/ SetItem(c)
        BY <3>2 DEF CleanupHashSource, RecordSourceDeleted, FinishSourceCleanup,
                    CleanupRefused
      <4> HIDE DEF a, b, c
      <4>3. QED
        BY <4>1, <4>2
    <3>3. CASE \/ PutTargetLock("cs_lock_put", "cs_target_hash")
               \/ PutReadOnly("cs_read_only_put", "cs_source_hash")
               \/ CleanupHashTarget \/ CleanupCheckSource \/ CleanupPutPolicy
               \/ PurgeSource \/ RemoveSource \/ CleanupUnlockTarget
      BY <3>3 DEF PutTargetLock, PutReadOnly, CleanupHashTarget, CleanupRefused,
         CleanupCheckSource, CleanupPutPolicy, PurgeSource, RemoveSource,
         CleanupUnlockTarget
    <3>4. QED
      BY <1>9, <3>1, <3>2, <3>3
  <2>5. QED
    BY <1>8, <2>1, <2>3, <2>4
<1>10. CASE \/ LockFailedTarget \/ PutTargetLock("ct_lock_put", "ct_purge")
            \/ PurgeTarget \/ RemoveTarget \/ FinishTargetCleanup
  <2>1. w.pc \in TargetCleanupPcs /\ UNCHANGED mig
    BY <1>10 DEF LockFailedTarget, PutTargetLock, PurgeTarget, RemoveTarget,
                 FinishTargetCleanup, TargetCleanupPcs
  <2>2. w.pc \in CleanupPcs \ {"cleanup"} /\ "cleanup" \in CleanupPcs
    BY <2>1 DEF TargetCleanupPcs, CleanupPcs
  <2>3. /\ w.cur \in Items /\ It \in ItemRows /\ It = item[w.cur]
        /\ It.status = "failed" /\ CreatedRow(It)
    BY <1>0, <2>1, <2>2, PlaceFacts
       DEF It, ProvenanceInv, CreatedPlaces, CreatedRows
  <2>4. CASE CleanupRefused
    BY <1>g, <1>o, <2>1, <2>2, <2>4, QuietPlaces, QuietProvenance DEF CleanupRefused
  <2>5. CASE FinishTargetCleanup /\ ~CleanupRefused
    <3> DEFINE row == [It EXCEPT !.created = FALSE, !.locked = FALSE,
                                 !.lock_backup = {}, !.pre_sync_done = FALSE,
                                 !.step = "create_bucket"]
    <3>1. SetItem(row) /\ w'.pc = "cleanup"
      BY <1>g, <2>5 DEF FinishTargetCleanup
    <3>2. row.step = "create_bucket" /\ row.status = "failed"
      BY <2>3 DEF ItemRows
    <3>3. CreatedRow(row)
      BY <3>2 DEF CreatedRow
    <3>4. CreatedRows'
      BY <1>0, <2>3, <3>1, <3>3, SetItemFacts DEF ProvenanceInv, CreatedRows
    <3>5. CleanupFinal'
      BY <2>1, <2>2, <3>1 DEF ProvenanceInv, CleanupFinal
    <3>6. CreatedPlaces'
      BY <3>1, QuietPlaces DEF CreatedPlaces, ItemPcs, OutsideItems
    <3>7. QED
      BY <3>4, <3>5, <3>6 DEF ProvenanceInv
  <2>6. CASE ~FinishTargetCleanup /\ ~CleanupRefused
    <3>1. w'.pc \in TargetCleanupPcs /\ w'.cur = w.cur
      BY <1>0, <1>10, <1>g, <2>6
         DEF LockFailedTarget, PutTargetLock, PurgeTarget, RemoveTarget,
             TargetCleanupPcs, WorkerStates
    <3>2. UNCHANGED item \/ SetItem(JournalTargetLock(It))
      BY <1>10, <2>6 DEF LockFailedTarget, PutTargetLock, PurgeTarget, RemoveTarget
    <3>3. /\ JournalTargetLock(It).step = It.step
          /\ JournalTargetLock(It).created = It.created
          /\ JournalTargetLock(It).status = It.status
      BY <2>3 DEF JournalTargetLock, ItemRows
    <3>4. \A i \in Items :
            /\ item'[i].step = item[i].step /\ item'[i].created = item[i].created
            /\ item'[i].status = item[i].status
      BY <1>0, <2>3, <3>2, <3>3, SetItemFacts
    <3>5. CreatedRows' /\ CleanupFinal'
      BY <2>1, <2>2, <3>1, <3>4
         DEF ProvenanceInv, CreatedRows, CreatedRow, CleanupFinal
    <3>6. It'.status = "failed"
      BY <2>3, <3>1, <3>4 DEF It
    <3>7. CreatedPlaces'
      BY <3>1, <3>6, QuietPlaces
         DEF CreatedPlaces, TargetCleanupPcs
    <3>8. QED
      BY <3>5, <3>7 DEF ProvenanceInv
  <2>7. QED
    BY <2>4, <2>5, <2>6
<1>11. QED
  BY <1>1, <1>2, <1>3, <1>4, <1>5, <1>6, <1>7, <1>9, <1>10
     DEF Maintenance, MaintenanceFaults

\* The checks of a draft.
LEMMA PreparationProvenance ==
    ASSUME ProvenanceInv, ControlInv', Preparation \/ PreparationFaults
    PROVE  ProvenanceInv'
<1>0. /\ ControlInv /\ w \in WorkerStates /\ mig \in MigrationRows
      /\ item \in [Items -> ItemRows]
  BY PlaceFacts DEF ProvenanceInv
<1>1. CASE \/ CheckItem \/ JournalEffect \/ ApplyChange \/ UndoChange \/ ClearEffect
           \/ CheckFault
  <2>1. w'.pc \in CheckPcs /\ UNCHANGED mig
    <3>1. /\ \A task, failed : BeginTask(task, failed) => w'.pc \in CheckPcs
          /\ \A failed : AfterChange(failed) => w'.pc \in CheckPcs
      BY <1>0 DEF BeginTask, AfterChange, CheckPcs, WorkerStates
    <3>2. QED
      BY <1>0, <1>1, <3>1, PlaceAfter
         DEF CheckItem, JournalEffect, ApplyChange, UndoChange, ClearEffect,
             CheckFault, CheckPcs, WorkerStates
  <2>2. UNCHANGED item \/ \E v : SetItem([It EXCEPT !.effects = v])
    BY <1>1 DEF CheckItem, JournalEffect, ApplyChange, UndoChange, ClearEffect,
                CheckFault
  <2>3. CASE UNCHANGED item
    BY <2>1, <2>3, QuietPlaces, QuietProvenance
  <2>4. CASE (JournalEffect \/ ClearEffect) /\ ~UNCHANGED item
    <3>1. w.cur \in Items
      BY <1>0, <2>4 DEF JournalEffect, ClearEffect, ControlInv, TypeInv, CurOK,
                        FreePcs
    <3>2. \A i \in Items :
            /\ item'[i].step = item[i].step /\ item'[i].created = item[i].created
            /\ item'[i].status = item[i].status
      <4>1. PICK v : SetItem([It EXCEPT !.effects = v])
        BY <2>2, <2>4
      <4> DEFINE row == [It EXCEPT !.effects = v]
      <4>2. It \in ItemRows /\ It = item[w.cur]
        BY <1>0, <3>1 DEF It
      <4>3. row.step = It.step /\ row.created = It.created /\ row.status = It.status
        BY <4>2 DEF ItemRows
      <4>4. SetItem(row)
        BY <4>1
      <4> HIDE DEF row
      <4>5. QED
        BY <1>0, <3>1, <4>2, <4>3, <4>4, SetItemFacts
    <3>3. QED
      BY <2>1, <3>2, QuietPlaces, QuietProvenance
  <2>5. QED
    BY <1>1, <2>3, <2>4 DEF CheckItem, ApplyChange, UndoChange, CheckFault
<1>2. CASE ReportChecks \/ ChecksInterrupted
  <2>1. /\ UNCHANGED item /\ w'.pc = "idle" /\ mig'.operation = mig.operation
        /\ mig'.maintenance = mig.maintenance /\ mig'.status = mig.status
    BY <1>0, <1>2, IdleType DEF ReportChecks, ChecksInterrupted, MigrationRows
  <2>2. QED
    BY <2>1, QuietPlaces, QuietProvenance
<1>3. QED
  BY <1>1, <1>2 DEF Preparation, PreparationFaults

\* Clients never make a destination disappear.
LEMMA ClientProvenance ==
    ASSUME ProvenanceInv, ControlInv', Client PROVE ProvenanceInv'
<1>1. bucket \in [Items -> BucketStates] /\ w \in WorkerStates
  BY PlaceFacts DEF ProvenanceInv
<1>2. UNCHANGED <<mig, item, w>>
  BY DEF Client, ClientWritesSource, ClientWritesTarget, OtherCreatesTarget
<1>3. \A i \in Items : Exists(bucket[i]) => Exists(bucket'[i])
  BY <1>1 DEF Client, ClientWritesSource, ClientWritesTarget,
              OtherCreatesTarget, Exists, BucketStates
<1>4. w.pc \in ItemPcs => w.cur \in Items
  BY PlaceFacts DEF ProvenanceInv
<1>5. "bucket_created" \in ItemPcs
  BY DEF ItemPcs, OutsideItems, TransferPcs
<1>6. CreatedPlaces'
  BY <1>2, <1>3, <1>4, <1>5 DEF ProvenanceInv, CreatedPlaces, It, Bk
<1>7. QED
  BY <1>2, <1>6 DEF ProvenanceInv, CreatedRows, CleanupFinal

\* Every step keeps the invariant.
LEMMA ProvenanceNext == ProvenanceInv /\ [Next]_vars => ProvenanceInv'
<1> SUFFICES ASSUME ProvenanceInv, [Next]_vars PROVE ProvenanceInv'
  OBVIOUS
<1>0. ControlInv'
  BY ControlNext DEF ProvenanceInv
<1>1. CASE Command
  BY <1>0, <1>1, CommandProvenance
<1>2. CASE Claim \/ ClaimPreparation \/ LeaseExpires \/ Crash
  BY <1>0, <1>2, LoopProvenance
<1>3. CASE Transfer \/ TransferFaults \/ Revocation
  BY <1>0, <1>3, LoopProvenance, EarlyActionsProvenance, LateActionsProvenance,
     RevokedProvenance DEF Transfer, TransferFaults
<1>4. CASE Release \/ ReleaseFault
  BY <1>0, <1>4, ReleaseProvenance
<1>5. CASE Maintenance \/ MaintenanceFaults
  BY <1>0, <1>5, MaintenanceProvenance
<1>6. CASE Preparation \/ PreparationFaults
  BY <1>0, <1>6, PreparationProvenance
<1>7. CASE Client
  BY <1>0, <1>7, ClientProvenance
<1>8. CASE UNCHANGED vars
  BY <1>0, <1>8 DEF vars, ProvenanceInv, CreatedRows, CreatedPlaces, CleanupFinal,
                    It, Bk
<1>9. QED
  BY <1>1, <1>2, <1>3, <1>4, <1>5, <1>6, <1>7, <1>8 DEF Next, Worker, Faults

\* The first state.
LEMMA ProvenanceInit == Init => ProvenanceInv
<1> SUFFICES ASSUME Init PROVE ProvenanceInv
  OBVIOUS
<1>1. ControlInv
  BY ControlInit
<1>2. w.pc = "idle" /\ mig.maintenance = "idle"
  BY IdleType DEF Init
<1>3. CleanupFinal /\ CreatedPlaces
  BY <1>2, QuietPlaces DEF CleanupFinal, CreatedPlaces, ItemPcs, OutsideItems,
                           TransferPcs
<1>4. CreatedRows
  BY DEF Init, CreatedRows, CreatedRow, DraftItem
<1>5. QED
  BY <1>1, <1>3, <1>4 DEF ProvenanceInv

\* An item whose step is beyond create_bucket, or that waits for the cutover,
\* has recorded that this migration created its destination
\* (target_created_by_migration), and a run works on a recorded destination
\* only while it exists; a cleanup runs on finished migrations only.
THEOREM ProvenanceInvariant == Spec => []ProvenanceInv
<1>1. Init => ProvenanceInv
  BY ProvenanceInit
<1>2. ProvenanceInv /\ [Next]_vars => ProvenanceInv'
  BY ProvenanceNext
<1>3. QED
  BY <1>1, <1>2, PTL DEF Spec
=============================================================================
