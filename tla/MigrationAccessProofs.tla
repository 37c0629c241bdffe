----------------------- MODULE MigrationAccessProofs -----------------------
(***************************************************************************)
(* What the engine puts on the customer's buckets is recorded until it is  *)
(* undone, for every number of items and whatever crashes, failing calls,  *)
(* commands and clients come between: the write locks on destinations,     *)
(* then the temporary and the lasting changes of sources.                  *)
(***************************************************************************)
EXTENDS MigrationControlProofs

(***************************************************************************)
(* Locks                                                                   *)
(***************************************************************************)
Unlocked(policy) == "LOCK" \notin policy
LockPcs == {"relock_put", "lock_put", "cs_lock_put", "ct_lock_put"}

\* No backup of a row, and no journalled policy, contains the lock.
RowUnlocked(row) ==
    /\ Unlocked(row.ro_backup) /\ Unlocked(row.lock_backup)
    /\ \A e \in row.effects : Unlocked(e.policy)

\* A source never carries the lock, a destination only with a record of it,
\* a destination that does not exist never.
BucketLocks(row, b) ==
    /\ Unlocked(b.source_policy)
    /\ ~Unlocked(b.target_policy) => row.locked /\ Exists(b)

ItemLocks ==
    \A i \in Items : RowUnlocked(item[i]) /\ BucketLocks(item[i], bucket[i])

\* A lock that is about to be put is recorded, and its bucket exists; a record
\* that is about to be cleared has no lock; what a release has released is free.
LockPlaces ==
    /\ Unlocked(w.policy)
    /\ w.pc \in LockPcs => It.locked /\ Exists(Bk)
    /\ w.pc = "cs_finish" => Unlocked(Bk.target_policy)
    /\ w.pc \in {"start", "recover", "recover_clear"} => w.released = {}
    /\ w.pc = "release" =>
         \A r \in w.released :
           r.kind = "target" => Unlocked(bucket[r.item].target_policy)

DraftUnlocked == mig.status = "draft" => \A i \in Items : ~item[i].locked

LockInv == ProvenanceInv /\ ItemLocks /\ LockPlaces /\ DraftUnlocked

\* What a step on the item c may write: the row, its buckets, the worker.
LockStep(c, row, b) ==
    /\ RowUnlocked(row) /\ BucketLocks(row, b)
    /\ row.locked => item[c].locked \/ mig'.status # "draft"
    /\ Unlocked(w'.policy)
    /\ w'.pc \in LockPcs => w'.cur = c /\ row.locked /\ Exists(b)
    /\ w'.pc = "cs_finish" => w'.cur = c /\ Unlocked(b.target_policy)
    /\ w'.pc \in {"start", "recover", "recover_clear"} => w'.released = {}
    /\ w'.pc # "release"
    /\ item' = [item EXCEPT ![c] = row]
    /\ bucket' = [bucket EXCEPT ![c] = b]

\* Such a step keeps the invariant.
LEMMA LockStepInv ==
    ASSUME LockInv, ProvenanceInv', mig'.status = "draft" => mig.status = "draft",
           NEW c \in Items, NEW row, NEW b, LockStep(c, row, b)
    PROVE  LockInv'
<1>0. item \in [Items -> ItemRows] /\ bucket \in [Items -> BucketStates]
  BY PlaceFacts DEF LockInv, ProvenanceInv
<1>1. /\ \A i \in Items : item'[i] = IF i = c THEN row ELSE item[i]
      /\ \A i \in Items : bucket'[i] = IF i = c THEN b ELSE bucket[i]
  BY <1>0 DEF LockStep
<1>2. ItemLocks'
  BY <1>1 DEF LockInv, ItemLocks, LockStep
<1>3. LockPlaces'
  BY <1>1 DEF LockPlaces, LockStep, It, Bk
<1>4. DraftUnlocked'
  BY <1>1 DEF LockInv, DraftUnlocked, LockStep
<1>5. QED
  BY <1>2, <1>3, <1>4 DEF LockInv

\* The places that LockPlaces says something about.
SpecialPcs == LockPcs \cup {"cs_finish", "start", "recover", "recover_clear",
                           "release"}

\* The item and the buckets under way.
LEMMA CurrentLocks ==
    ASSUME LockInv, w.cur \in Items
    PROVE  /\ It = item[w.cur] /\ Bk = bucket[w.cur]
           /\ It \in ItemRows /\ Bk \in BucketStates
           /\ item \in [Items -> ItemRows] /\ bucket \in [Items -> BucketStates]
           /\ w \in WorkerStates
           /\ RowUnlocked(It) /\ BucketLocks(It, Bk) /\ Unlocked(w.policy)
           /\ UNCHANGED item => item' = [item EXCEPT ![w.cur] = It]
           /\ UNCHANGED bucket => bucket' = [bucket EXCEPT ![w.cur] = Bk]
<1>1. /\ item \in [Items -> ItemRows] /\ bucket \in [Items -> BucketStates]
      /\ w \in WorkerStates
  BY PlaceFacts DEF LockInv, ProvenanceInv
<1>2. It = item[w.cur] /\ Bk = bucket[w.cur]
  BY DEF It, Bk
<1>3. QED
  BY <1>1, <1>2 DEF LockInv, ItemLocks, LockPlaces

\* A step that writes the row of the current item, and no record of a lock.
LEMMA RowStepLocks ==
    ASSUME LockInv, ProvenanceInv', UNCHANGED <<mig, bucket>>, w.cur \in Items,
           NEW row, SetItem(row), RowUnlocked(row), row.locked = It.locked,
           Unlocked(w'.policy), w'.pc \notin SpecialPcs
    PROVE  LockInv'
<1>1. LockStep(w.cur, row, Bk)
  BY CurrentLocks DEF LockStep, SetItem, BucketLocks, SpecialPcs
<1>2. QED
  BY <1>1, LockStepInv

\* A step that writes the buckets of the current item, and no lock.
LEMMA BucketStepLocks ==
    ASSUME LockInv, ProvenanceInv', UNCHANGED <<mig, item>>, w.cur \in Items,
           NEW b, SetBucket(b), Unlocked(b.source_policy),
           \/ Unlocked(b.target_policy)
           \/ b.target_policy = Bk.target_policy /\ b.target_by = Bk.target_by,
           Unlocked(w'.policy),
           \/ w'.pc \notin SpecialPcs
           \/ w'.pc = "cs_finish" /\ w'.cur = w.cur /\ Unlocked(b.target_policy)
    PROVE  LockInv'
<1>1. LockStep(w.cur, It, b)
  BY CurrentLocks DEF LockStep, SetBucket, BucketLocks, SpecialPcs, Exists, LockPcs
<1>2. QED
  BY <1>1, LockStepInv

\* A step that changes no bucket, records no lock and forgets none.
LEMMA QuietLocks ==
    ASSUME LockInv, ProvenanceInv', mig'.status = "draft" => mig.status = "draft",
           UNCHANGED bucket,
           \A i \in Items : RowUnlocked(item'[i]) /\ item'[i].locked = item[i].locked,
           Unlocked(w'.policy), w'.pc \notin LockPcs \cup {"cs_finish"},
           w'.pc \in SpecialPcs => w'.released = {}
    PROVE  LockInv'
<1>1. ItemLocks'
  BY DEF LockInv, ItemLocks, BucketLocks
<1>2. LockPlaces'
  BY DEF LockPlaces, SpecialPcs
<1>3. DraftUnlocked'
  BY DEF LockInv, DraftUnlocked
<1>4. QED
  BY <1>1, <1>2, <1>3 DEF LockInv

\* The rows as they are.
LEMMA RowsUnlocked ==
    ASSUME LockInv
    PROVE  /\ \A i \in Items : RowUnlocked(item[i]) /\ item[i] \in ItemRows
           /\ UNCHANGED item => \A i \in Items :
                RowUnlocked(item'[i]) /\ item'[i].locked = item[i].locked
           /\ Unlocked(w.policy)
           /\ w \in WorkerStates /\ mig \in MigrationRows
           /\ item \in [Items -> ItemRows] /\ bucket \in [Items -> BucketStates]
  BY PlaceFacts DEF LockInv, ProvenanceInv, ItemLocks, LockPlaces

\* A command changes rows only while no worker runs.
LEMMA CommandLocks == ASSUME LockInv, ProvenanceInv', Command PROVE LockInv'
<1>0. /\ mig \in MigrationRows /\ ControlInv
  BY RowsUnlocked DEF LockInv, ProvenanceInv
<1>1. UNCHANGED <<w, bucket>>
  BY DEF Command, UpdateDraft, RequestPrecheck, PrecheckExpires,
     StartMigration, RequestPause, ResumeMigration, StopMigration,
     ContinueAfterPresync, Retry, RequestMaintenance, DeleteMigration,
     CommandAfterRevocation
<1>2. mig'.status = "draft" => mig.status = "draft"
  BY <1>0 DEF Command, UpdateDraft, RequestPrecheck, PrecheckExpires,
     StartMigration, RequestPause, ResumeMigration, StopMigration,
     ContinueAfterPresync, Retry, RequestMaintenance, DeleteMigration,
     CommandAfterRevocation, Requeued, MigrationRows
<1>3. CASE w.pc \notin {"idle"} \cup RevokedPcs
  <2>1. UNCHANGED <<item, bucket, w>>
    BY <1>0, <1>3, QuietCommand
  <2>2. ItemLocks' /\ LockPlaces' /\ DraftUnlocked'
    BY <1>2, <2>1 DEF LockInv, ItemLocks, LockPlaces, DraftUnlocked, It, Bk
  <2>3. QED
    BY <2>2 DEF LockInv
<1>4. CASE w.pc \in {"idle"} \cup RevokedPcs
  <2>1. \A i \in Items : RowUnlocked(item'[i]) /\ item'[i].locked = item[i].locked
    <3> SUFFICES ASSUME NEW i \in Items
                 PROVE  RowUnlocked(item'[i]) /\ item'[i].locked = item[i].locked
      OBVIOUS
    <3>0. item[i] \in ItemRows /\ RowUnlocked(item[i])
      BY RowsUnlocked
    <3>1. CASE UNCHANGED item
      BY <3>0, <3>1
    <3>2. CASE \E o \in Options : UpdateDraft(o)
      <4>1. ~item[i].locked
        BY <3>2 DEF UpdateDraft, CanEditDraft, LockInv, DraftUnlocked
      <4>2. item'[i] = [item[i] EXCEPT
                        !.status = "pending", !.step = "create_bucket",
                        !.pre_sync_done = FALSE, !.ro = FALSE, !.ro_backup = {},
                        !.locked = FALSE, !.lock_backup = {}]
        BY <3>2 DEF UpdateDraft
      <4>3. /\ item'[i].locked = FALSE /\ item'[i].lock_backup = {}
            /\ item'[i].ro_backup = {} /\ item'[i].effects = item[i].effects
        BY <3>0, <4>2 DEF ItemRows
      <4>4. item[i].locked = FALSE
        BY <3>0, <4>1 DEF ItemRows
      <4>5. QED
        BY <3>0, <4>3, <4>4 DEF RowUnlocked, Unlocked
    <3>s. ASSUME /\ item'[i].locked = item[i].locked
                 /\ item'[i].lock_backup = item[i].lock_backup
                 /\ item'[i].ro_backup = item[i].ro_backup
                 /\ item'[i].effects = item[i].effects
          PROVE  RowUnlocked(item'[i]) /\ item'[i].locked = item[i].locked
      BY <3>0, <3>s DEF RowUnlocked
    <3>3. CASE ResumeMigration \/ ContinueAfterPresync
      BY <3>0, <3>3, <3>s DEF ResumeMigration, ContinueAfterPresync, ItemRows
    <3>4. ASSUME NEW S, Retry(S)
          PROVE  RowUnlocked(item'[i]) /\ item'[i].locked = item[i].locked
      <4>1. \/ item'[i] = item[i]
            \/ item'[i] = [item[i] EXCEPT !.status = "pending",
                             !.step = RetryStepForFailedItem(item[i].step)]
        BY <3>4 DEF Retry
      <4>2. QED
        BY <3>0, <3>s, <4>1 DEF ItemRows
    <3>5. QED
      BY <3>1, <3>2, <3>3, <3>4 DEF Command, RequestPrecheck, PrecheckExpires,
         StartMigration, RequestPause, StopMigration, RequestMaintenance,
         DeleteMigration, CommandAfterRevocation
  <2>2. w'.pc \notin SpecialPcs /\ w'.pc \notin LockPcs \cup {"cs_finish"}
    BY <1>1, <1>4 DEF SpecialPcs, LockPcs, RevokedPcs
  <2>3. QED
    BY <1>1, <1>2, <1>4, <2>1, <2>2, RowsUnlocked, QuietLocks
<1>5. QED
  BY <1>3, <1>4

\* Where the worker goes, and what it remembers.
LEMMA WorkerMoves ==
    ASSUME w \in WorkerStates
    PROVE  /\ \A pc : Goto(pc) =>
                w'.pc = pc /\ w'.cur = w.cur /\ w'.policy = w.policy
           /\ NextItem => w'.pc = "items" /\ w'.policy = w.policy
           /\ \A reason : LeaveSync(reason) =>
                w'.pc \in {"grant_restore", "sync_done"} /\ w'.policy = w.policy
           /\ \A failed : NextCleanup(failed) =>
                w'.pc = "cleanup" /\ w'.policy = w.policy
           /\ \A then, todo : StartRelease(then, todo) =>
                /\ w'.pc = "release" /\ w'.policy = w.policy
                /\ w'.released = {}
           /\ \A task, failed : BeginTask(task, failed) =>
                w'.pc \in CheckPcs /\ w'.policy = w.policy
           /\ \A failed : AfterChange(failed) =>
                w'.pc \in CheckPcs /\ w'.policy = w.policy
           /\ IdleWorker.pc = "idle" /\ IdleWorker.policy = {}
           /\ IdleWorker.released = {}
<1>1. /\ \A pc : Goto(pc) =>
           w'.pc = pc /\ w'.cur = w.cur /\ w'.policy = w.policy
      /\ NextItem => w'.pc = "items" /\ w'.policy = w.policy
      /\ \A reason : LeaveSync(reason) =>
           w'.pc \in {"grant_restore", "sync_done"} /\ w'.policy = w.policy
  BY DEF Goto, NextItem, LeaveSync, WorkerStates
<1>2. /\ \A failed : NextCleanup(failed) =>
           w'.pc = "cleanup" /\ w'.policy = w.policy
      /\ \A then, todo : StartRelease(then, todo) =>
           w'.pc = "release" /\ w'.policy = w.policy /\ w'.released = {}
  BY DEF NextCleanup, StartRelease, WorkerStates
<1>3. /\ \A task, failed : BeginTask(task, failed) =>
           w'.pc \in CheckPcs /\ w'.policy = w.policy
      /\ \A failed : AfterChange(failed) =>
           w'.pc \in CheckPcs /\ w'.policy = w.policy
  BY DEF BeginTask, AfterChange, CheckPcs, WorkerStates
<1>4. /\ IdleWorker.pc = "idle" /\ IdleWorker.policy = {}
      /\ IdleWorker.released = {}
  BY DEF IdleWorker
<1>5. QED
  BY <1>1, <1>2, <1>3, <1>4

\* The places that LockPlaces says nothing about.
LEMMA PlainPlaces ==
    /\ ItemSteps \cap SpecialPcs = {} /\ CheckPcs \cap SpecialPcs = {}
    /\ RevokedPcs \cap SpecialPcs = {}
    /\ {"idle", "items", "item", "loop", "final", "pausing", "finalize", "bucket_absent", "bucket_created",
        "bucket_ready", "settings_copied", "lock_done", "grant_journal",
        "grant_put", "sync_copy", "sync_write", "grant_restore", "grant_clear",
        "sync_done", "read_only_put", "read_only_done", "verify_compare", "verified"}
         \cap SpecialPcs = {}
    /\ {"cleanup", "cs_lock", "cs_target_hash", "cs_read_only", "cs_read_only_put",
        "cs_source_hash", "cs_check", "cs_policy_put", "cs_purge", "cs_remove",
        "cs_record", "cs_unlock", "ct_lock", "ct_purge", "ct_remove", "ct_finish"}
         \cap SpecialPcs = {}
    /\ SpecialPcs \cap (LockPcs \cup {"cs_finish"}) = LockPcs \cup {"cs_finish"}
    /\ {"start", "recover", "recover_clear", "release"} \cap
         (LockPcs \cup {"cs_finish"}) = {}
  BY DEF SpecialPcs, LockPcs, ItemSteps, CheckPcs, RevokedPcs

\* Claims, crashes, the loop over the items and the ends of a run.
LEMMA LoopLocks ==
    ASSUME LockInv, ProvenanceInv',
           \/ BeginTransfer \/ CancelRun \/ SeePause \/ PauseRun \/ SkipItem
           \/ ItemsDone \/ FinalCheck \/ Finalize \/ FatalError
           \/ Claim \/ ClaimPreparation \/ LeaseExpires \/ Crash
    PROVE  LockInv'
<1>0. /\ w \in WorkerStates /\ mig \in MigrationRows
      /\ item \in [Items -> ItemRows] /\ Unlocked(w.policy)
  BY RowsUnlocked
<1>1. UNCHANGED bucket
  BY DEF BeginTransfer, CancelRun, SeePause, PauseRun, SkipItem, ItemsDone,
         FinalCheck, Finalize, FatalError, Claim, ClaimPreparation, LeaseExpires,
         Crash
<1>2. mig'.status = "draft" => mig.status = "draft"
  BY <1>0 DEF BeginTransfer, CancelRun, SeePause, PauseRun, SkipItem, ItemsDone,
         FinalCheck, Finalize, FatalError, Claim, ClaimPreparation, LeaseExpires,
         Crash, MigrationRows
<1>3. \A i \in Items : RowUnlocked(item'[i]) /\ item'[i].locked = item[i].locked
  <2>1. CASE UNCHANGED item
    BY <2>1, RowsUnlocked
  <2>2. CASE PauseRun \/ FatalError
    <3> SUFFICES ASSUME NEW i \in Items
                 PROVE  RowUnlocked(item'[i]) /\ item'[i].locked = item[i].locked
      OBVIOUS
    <3>1. item[i] \in ItemRows /\ RowUnlocked(item[i])
      BY RowsUnlocked
    <3>2. \/ item'[i] = item[i]
          \/ \E v : item'[i] = [item[i] EXCEPT !.status = v]
      BY <2>2 DEF PauseRun, FatalError
    <3>3. QED
      BY <3>1, <3>2 DEF RowUnlocked, ItemRows
  <2>3. QED
    BY <2>1, <2>2
       DEF BeginTransfer, CancelRun, SeePause, SkipItem, ItemsDone, FinalCheck,
           Finalize, Claim, ClaimPreparation, LeaseExpires, Crash
<1>l. CASE LeaseExpires
  <2>1. UNCHANGED <<w, item>> /\ w.pc \in {"idle"} \cup RevokedPcs
    BY <1>l, PlaceFacts DEF LeaseExpires, LockInv, ProvenanceInv
  <2>2. w'.pc \notin SpecialPcs /\ Unlocked(w'.policy)
    BY <1>0, <2>1, PlainPlaces
  <2>3. QED
    BY <1>1, <1>2, <1>3, <2>2, PlainPlaces, QuietLocks
<1>4. ASSUME ~LeaseExpires
      PROVE  /\ w'.policy \in {w.policy, {}}
             /\ w'.pc \in {"idle", "start", "recover", "release", "items", "final",
                           "pausing", "finalize"}
             /\ w'.pc \in {"start", "recover", "release"} => w'.released = {}
  <2>1. CASE BeginTransfer \/ CancelRun \/ SeePause \/ SkipItem \/ ItemsDone \/ FinalCheck
    BY <1>0, <2>1, WorkerMoves
       DEF BeginTransfer, CancelRun, SeePause, SkipItem, ItemsDone, FinalCheck
  <2>2. CASE PauseRun \/ Finalize \/ FatalError \/ Crash
    BY <1>0, <2>2, WorkerMoves DEF PauseRun, Finalize, FatalError, Crash
  <2>3. CASE Claim \/ ClaimPreparation
    BY <2>3 DEF Claim, ClaimPreparation, IdleWorker
  <2>4. QED
    BY <1>4, <2>1, <2>2, <2>3
<1>5. ASSUME ~LeaseExpires PROVE Unlocked(w'.policy)
  BY <1>0, <1>4, <1>5 DEF Unlocked
<1>6. QED
  BY <1>l, <1>1, <1>2, <1>3, <1>4, <1>5, PlainPlaces, QuietLocks

\* The steps of a run that write the row of an item, but not its locks.
LEMMA RunRowLocks ==
    ASSUME LockInv, ProvenanceInv',
           \/ ExecuteItem \/ ItemLoop \/ LookForTarget \/ RecordTargetCreated
           \/ FinishCreateBucket \/ FinishCopyBucketSettings \/ FinishTargetLock
           \/ BeginSync \/ SyncInterrupted \/ ClearGrantEffect \/ FinishSync
           \/ AwaitCutover \/ FinishReadOnly \/ VerifyRead \/ VerifyCompare
           \/ VerifyInterrupted \/ StrongVerificationFails \/ CompleteItem
           \/ TransferFault
    PROVE  LockInv'
<1>0. w \in WorkerStates /\ ControlInv
  BY RowsUnlocked DEF LockInv, ProvenanceInv
<1>1. w.cur \in Items
  <2>1. CASE ExecuteItem
    BY <1>0, <2>1, LoopIndex DEF ExecuteItem, WorkerStates
  <2>2. CASE ~ExecuteItem
    <3>1. w.pc \in ItemPcs
      BY <2>2 DEF ItemLoop, LookForTarget, RecordTargetCreated,
         FinishCreateBucket, FinishCopyBucketSettings, FinishTargetLock,
         BeginSync, SyncInterrupted, ClearGrantEffect, FinishSync, AwaitCutover,
         FinishReadOnly, VerifyRead, VerifyCompare, VerifyInterrupted,
         StrongVerificationFails, CompleteItem, TransferFault,
         ItemPcs, OutsideItems, TransferPcs, ItemSteps
    <3>2. QED
      BY <1>0, <3>1, PlaceFacts
  <2>3. QED
    BY <2>1, <2>2
<1>2. /\ It = item[w.cur] /\ It \in ItemRows /\ RowUnlocked(It)
      /\ Unlocked(w.policy)
  BY <1>1, CurrentLocks
<1>3. UNCHANGED <<mig, bucket>>
  BY DEF ExecuteItem, ItemLoop, LookForTarget, RecordTargetCreated,
         FinishCreateBucket, FinishCopyBucketSettings, FinishTargetLock,
         BeginSync, SyncInterrupted, ClearGrantEffect, FinishSync, AwaitCutover,
         FinishReadOnly, VerifyRead, VerifyCompare, VerifyInterrupted,
         StrongVerificationFails, CompleteItem, TransferFault
<1>4. w'.policy = w.policy /\ w'.pc \notin SpecialPcs
  <2>1. CASE \/ ExecuteItem \/ LookForTarget \/ RecordTargetCreated
             \/ FinishCreateBucket \/ FinishCopyBucketSettings \/ FinishTargetLock
    BY <1>0, <2>1, WorkerMoves, PlainPlaces
       DEF ExecuteItem, LookForTarget, RecordTargetCreated, FinishCreateBucket,
           FinishCopyBucketSettings, FinishTargetLock, AdvanceTo, FailItem
  <2>2. CASE ItemLoop
    <3>1. It.step \in ItemSteps
      BY <1>2 DEF ItemRows
    <3>2. QED
      BY <1>0, <2>2, <3>1, WorkerMoves, PlainPlaces DEF ItemLoop
  <2>3. CASE BeginSync
    <3>1. /\ w'.pc \in {"sync_done", "grant_journal", "sync_copy"}
          /\ w'.policy = w.policy
      BY <1>0, <2>3 DEF BeginSync, WorkerStates
    <3>2. QED
      BY <3>1, PlainPlaces
  <2>4. CASE FinishSync
    <3>1. NextItem \/ w' = [w EXCEPT !.pc = "loop", !.then = "none"]
      BY <2>4 DEF FinishSync, StopInterruptedItem
    <3>2. w'.pc \in {"items", "loop"} /\ w'.policy = w.policy
      BY <1>0, <3>1, WorkerMoves DEF WorkerStates
    <3>3. QED
      BY <3>2, PlainPlaces
  <2>5. CASE VerifyRead
    <3>1. NextItem \/ w' = [w EXCEPT !.pc = "verify_compare", !.snap = Bk.source]
      BY <2>5 DEF VerifyRead, StopInterruptedItem
    <3>2. w'.pc \in {"items", "verify_compare"} /\ w'.policy = w.policy
      BY <1>0, <3>1, WorkerMoves DEF WorkerStates
    <3>3. QED
      BY <3>2, PlainPlaces
  <2>6. CASE \/ SyncInterrupted \/ ClearGrantEffect \/ AwaitCutover
             \/ FinishReadOnly \/ VerifyCompare \/ VerifyInterrupted
             \/ StrongVerificationFails \/ CompleteItem \/ TransferFault
    BY <1>0, <2>6, WorkerMoves, PlainPlaces
       DEF SyncInterrupted, ClearGrantEffect, AwaitCutover, FinishReadOnly,
           VerifyCompare, VerifyInterrupted, StrongVerificationFails,
           CompleteItem, TransferFault, AdvanceTo, FailItem, StopInterruptedItem
  <2>7. QED
    BY <2>1, <2>2, <2>3, <2>4, <2>5, <2>6
<1>5. \/ UNCHANGED item
      \/ \E row : SetItem(row) /\ RowUnlocked(row) /\ row.locked = It.locked
  <2>e. /\ \A v : LET r == [It EXCEPT !.status = v]
                  IN  RowUnlocked(r) /\ r.locked = It.locked
        /\ \A v : LET r == [It EXCEPT !.step = v]
                  IN  RowUnlocked(r) /\ r.locked = It.locked
    BY <1>2 DEF RowUnlocked, ItemRows
  <2>1. CASE \/ ExecuteItem \/ ItemLoop \/ LookForTarget \/ TransferFault
             \/ AwaitCutover \/ VerifyRead \/ VerifyCompare \/ VerifyInterrupted
             \/ StrongVerificationFails
    <3>1. UNCHANGED item \/ \E v : SetItem([It EXCEPT !.status = v])
      BY <2>1 DEF ExecuteItem, ItemLoop, LookForTarget, TransferFault, FailItem,
                  AwaitCutover, VerifyRead, VerifyCompare, VerifyInterrupted,
                  StrongVerificationFails, StopInterruptedItem
    <3>2. QED
      BY <2>e, <3>1
  <2>2. CASE \/ FinishCreateBucket \/ FinishCopyBucketSettings \/ FinishTargetLock
             \/ FinishReadOnly
    <3>1. \E v : SetItem([It EXCEPT !.step = v])
      BY <2>2 DEF FinishCreateBucket, FinishCopyBucketSettings, FinishTargetLock,
                  FinishReadOnly, AdvanceTo
    <3>2. QED
      BY <2>e, <3>1
  <2>3. CASE RecordTargetCreated
    <3> DEFINE row == [It EXCEPT !.created = TRUE]
    <3>1. RowUnlocked(row) /\ row.locked = It.locked
      BY <1>2 DEF RowUnlocked, ItemRows
    <3>2. SetItem(row)
      BY <2>3 DEF RecordTargetCreated
    <3> HIDE DEF row
    <3>3. QED
      BY <3>1, <3>2
  <2>4. CASE ClearGrantEffect
    <3> DEFINE row == [It EXCEPT !.effects =
                         {e \in It.effects : e.name # "source_copy_grant"}]
               failed == [row EXCEPT !.status = "failed"]
    <3>1. /\ row.locked = It.locked /\ row.lock_backup = It.lock_backup
          /\ row.ro_backup = It.ro_backup /\ row.effects \subseteq It.effects
          /\ failed.locked = It.locked /\ failed.lock_backup = It.lock_backup
          /\ failed.ro_backup = It.ro_backup /\ failed.effects \subseteq It.effects
      BY <1>2 DEF ItemRows
    <3>2. SetItem(row) \/ SetItem(failed)
      BY <2>4 DEF ClearGrantEffect
    <3> HIDE DEF row, failed
    <3>3. QED
      BY <1>2, <3>1, <3>2 DEF RowUnlocked
  <2>5. CASE FinishSync
    <3> DEFINE row == [It EXCEPT !.pre_sync_done = TRUE,
                         !.status = "awaiting_cutover", !.step = "awaiting_cutover"]
    <3>1. RowUnlocked(row) /\ row.locked = It.locked
      BY <1>2 DEF RowUnlocked, ItemRows
    <3>2. SetItem(row) \/ (\E v : SetItem([It EXCEPT !.step = v])) \/
          \E v : SetItem([It EXCEPT !.status = v])
      BY <2>5 DEF FinishSync, StopInterruptedItem
    <3> HIDE DEF row
    <3>3. QED
      BY <2>e, <3>1, <3>2
  <2>6. CASE CompleteItem
    <3> DEFINE row == [It EXCEPT !.status = "completed", !.step = "completed"]
    <3>1. RowUnlocked(row) /\ row.locked = It.locked
      BY <1>2 DEF RowUnlocked, ItemRows
    <3>2. SetItem(row)
      BY <2>6 DEF CompleteItem
    <3> HIDE DEF row
    <3>3. QED
      BY <3>1, <3>2
  <2>7. CASE BeginSync \/ SyncInterrupted
    BY <2>7 DEF BeginSync, SyncInterrupted
  <2>8. QED
    BY <2>1, <2>2, <2>3, <2>4, <2>5, <2>6, <2>7
<1>6. SetItem(It) \/ ~UNCHANGED item
  BY <1>1, CurrentLocks DEF SetItem
<1>7. QED
  BY <1>1, <1>2, <1>3, <1>4, <1>5, <1>6, RowStepLocks

\* The steps of a run that write a bucket, but no lock.
LEMMA RunBucketLocks ==
    ASSUME LockInv, ProvenanceInv',
           \/ CreateBucket \/ CopyBucketSettings \/ PutSourceCopyGrant
           \/ SyncCopy \/ SyncWrite \/ RestoreGrantedPolicy
           \/ PutReadOnly("read_only_put", "read_only_done")
    PROVE  LockInv'
<1>0. w \in WorkerStates /\ ControlInv
  BY RowsUnlocked DEF LockInv, ProvenanceInv
<1>1. w.cur \in Items
  <2>1. w.pc \in ItemPcs
    BY DEF CreateBucket, CopyBucketSettings, PutSourceCopyGrant, SyncCopy,
       SyncWrite, RestoreGrantedPolicy, PutReadOnly, ItemPcs, OutsideItems,
       TransferPcs, ItemSteps
  <2>2. QED
    BY <1>0, <2>1, PlaceFacts
<1>2. /\ It \in ItemRows /\ Bk \in BucketStates /\ RowUnlocked(It)
      /\ Unlocked(w.policy) /\ Unlocked(Bk.source_policy)
  BY <1>1, CurrentLocks DEF BucketLocks
<1>3. CASE CreateBucket
  <2>1. CASE FailItem /\ UNCHANGED <<mig, bucket>>
    <3> DEFINE row == [It EXCEPT !.status = "failed"]
    <3>1. RowUnlocked(row) /\ row.locked = It.locked
      BY <1>2 DEF RowUnlocked, ItemRows
    <3>2. SetItem(row)
      BY <2>1 DEF FailItem
    <3>3. w'.pc = "items" /\ w'.policy = w.policy
      BY <1>0, <2>1, WorkerMoves DEF FailItem
    <3> HIDE DEF row
    <3>4. QED
      BY <1>1, <1>2, <2>1, <3>1, <3>2, <3>3, PlainPlaces, RowStepLocks
  <2>2. CASE ~(FailItem /\ UNCHANGED <<mig, bucket>>)
    <3> DEFINE b == [Bk EXCEPT !.target_by = "migration",
                               !.target_policy = {}, !.target = Empty]
    <3>1. Unlocked(b.source_policy) /\ Unlocked(b.target_policy)
      BY <1>2 DEF BucketStates, Unlocked
    <3>2. SetBucket(b) /\ UNCHANGED <<mig, item>>
      BY <1>3, <2>2 DEF CreateBucket
    <3>3. w'.pc = "bucket_created" /\ w'.policy = w.policy
      BY <1>0, <1>3, <2>2, WorkerMoves DEF CreateBucket
    <3> HIDE DEF b
    <3>4. QED
      BY <1>1, <1>2, <3>1, <3>2, <3>3, PlainPlaces, BucketStepLocks
  <2>3. QED
    BY <2>1, <2>2
<1>4. CASE CopyBucketSettings
  <2> DEFINE b == [Bk EXCEPT !.target_policy = Bk.source_policy]
  <2>1. Unlocked(b.source_policy) /\ Unlocked(b.target_policy)
    BY <1>2 DEF BucketStates
  <2>2. SetBucket(b) /\ UNCHANGED <<mig, item>>
    BY <1>4 DEF CopyBucketSettings
  <2>3. w'.pc = "settings_copied" /\ w'.policy = w.policy
    BY <1>0, <1>4, WorkerMoves DEF CopyBucketSettings
  <2> HIDE DEF b
  <2>4. QED
    BY <1>1, <1>2, <2>1, <2>2, <2>3, PlainPlaces, BucketStepLocks
<1>5. ASSUME NEW policy, SetBucket([Bk EXCEPT !.source_policy = policy]),
             Unlocked(policy), UNCHANGED <<mig, item>>,
             w'.policy = w.policy, w'.pc \notin SpecialPcs
      PROVE  LockInv'
  <2> DEFINE b == [Bk EXCEPT !.source_policy = policy]
  <2>1. /\ Unlocked(b.source_policy)
        /\ b.target_policy = Bk.target_policy /\ b.target_by = Bk.target_by
    BY <1>2, <1>5 DEF BucketStates
  <2>2. SetBucket(b)
    BY <1>5
  <2> HIDE DEF b
  <2>3. QED
    BY <1>1, <1>2, <1>5, <2>1, <2>2, BucketStepLocks
<1>6. CASE PutSourceCopyGrant
  <2>1. Unlocked(BuildSourceCopyGrantPolicy(w.policy))
    BY <1>2 DEF BuildSourceCopyGrantPolicy, Unlocked
  <2>2. w'.pc = "sync_copy" /\ w'.policy = w.policy
    BY <1>0, <1>6, WorkerMoves DEF PutSourceCopyGrant
  <2>3. QED
    BY <1>5, <1>6, <2>1, <2>2, PlainPlaces DEF PutSourceCopyGrant
<1>7. CASE RestoreGrantedPolicy
  <2>1. w'.pc = "grant_clear" /\ w'.policy = w.policy
    BY <1>0, <1>7, WorkerMoves DEF RestoreGrantedPolicy
  <2>2. QED
    BY <1>2, <1>5, <1>7, <2>1, PlainPlaces DEF RestoreGrantedPolicy
<1>8. CASE PutReadOnly("read_only_put", "read_only_done")
  <2>1. Unlocked(BuildReadOnlyPolicy(w.policy))
    BY <1>2 DEF BuildReadOnlyPolicy, WithoutReadOnly, Unlocked
  <2>2. w'.pc = "read_only_done" /\ w'.policy = w.policy
    BY <1>0, <1>8, WorkerMoves DEF PutReadOnly
  <2>3. QED
    BY <1>5, <1>8, <2>1, <2>2, PlainPlaces DEF PutReadOnly
<1>9. CASE SyncCopy \/ SyncWrite
  <2>1. w'.pc \in {"sync_write", "grant_restore", "sync_done"} /\ w'.policy = w.policy
    BY <1>0, <1>9, WorkerMoves DEF SyncCopy, SyncWrite
  <2>2. UNCHANGED <<mig, item>>
    BY <1>9 DEF SyncCopy, SyncWrite
  <2>3. CASE UNCHANGED bucket
    <3>1. SetItem(It)
      BY <1>1, <2>2, CurrentLocks DEF SetItem
    <3>2. QED
      BY <1>1, <1>2, <2>1, <2>2, <2>3, <3>1, PlainPlaces, RowStepLocks
  <2>4. CASE ~UNCHANGED bucket
    <3>1. PICK v : SetBucket([Bk EXCEPT !.target = v])
      BY <1>9, <2>4 DEF SyncCopy, SyncWrite
    <3> DEFINE b == [Bk EXCEPT !.target = v]
    <3>2. /\ Unlocked(b.source_policy)
          /\ b.target_policy = Bk.target_policy /\ b.target_by = Bk.target_by
      BY <1>2 DEF BucketStates
    <3>3. SetBucket(b)
      BY <3>1
    <3> HIDE DEF b
    <3>4. QED
      BY <1>1, <1>2, <2>1, <2>2, <3>2, <3>3, PlainPlaces, BucketStepLocks
  <2>5. QED
    BY <2>3, <2>4
<1>10. QED
  BY <1>3, <1>4, <1>6, <1>7, <1>8, <1>9

\* A lock is recorded before it is put.  The policy that is remembered has no
\* lock: the item recorded none.
LEMMA JournalLock ==
    ASSUME LockInv, ProvenanceInv', UNCHANGED <<mig, bucket>>, w.cur \in Items,
           SetItem(JournalTargetLock(It)), ~It.locked, Exists(Bk),
           mig.status # "draft", w'.policy = Bk.target_policy,
           w'.pc \in LockPcs, w'.cur = w.cur
    PROVE  LockInv'
<1> DEFINE row == JournalTargetLock(It)
<1>1. /\ It \in ItemRows /\ RowUnlocked(It) /\ Unlocked(Bk.source_policy)
      /\ Unlocked(Bk.target_policy) /\ bucket' = [bucket EXCEPT ![w.cur] = Bk]
  BY CurrentLocks DEF BucketLocks
<1>2. row.locked /\ RowUnlocked(row)
  BY <1>1 DEF JournalTargetLock, ItemRows, RowUnlocked
<1>3. item' = [item EXCEPT ![w.cur] = row]
  BY DEF SetItem
<1> HIDE DEF row
<1>4. LockStep(w.cur, row, Bk)
  BY <1>1, <1>2, <1>3 DEF LockStep, BucketLocks, LockPcs
<1>5. QED
  BY <1>4, LockStepInv

\* The put of a lock that is recorded.
LEMMA PutLock ==
    ASSUME LockInv, ProvenanceInv', w.cur \in Items, NEW from \in LockPcs,
           NEW to, to \notin SpecialPcs, PutTargetLock(from, to)
    PROVE  LockInv'
<1> DEFINE b == [Bk EXCEPT !.target_policy = BuildTargetWriteLockPolicy(w.policy)]
<1>1. /\ It \in ItemRows /\ Bk \in BucketStates /\ RowUnlocked(It)
      /\ Unlocked(Bk.source_policy) /\ Unlocked(w.policy) /\ w \in WorkerStates
  BY CurrentLocks DEF BucketLocks
<1>2. It.locked /\ Exists(Bk)
  BY DEF PutTargetLock, LockInv, LockPlaces
<1>3. Unlocked(b.source_policy) /\ Exists(b)
  BY <1>1, <1>2 DEF BucketStates, Exists
<1>4. /\ bucket' = [bucket EXCEPT ![w.cur] = b] /\ UNCHANGED <<mig, item>>
      /\ w'.pc = to /\ w'.policy = w.policy
  BY <1>1, WorkerMoves DEF PutTargetLock, SetBucket
<1>5. item' = [item EXCEPT ![w.cur] = It]
  BY <1>4, CurrentLocks
<1> HIDE DEF b
<1>6. LockStep(w.cur, It, b)
  BY <1>1, <1>2, <1>3, <1>4, <1>5, CurrentLocks DEF LockStep, BucketLocks, SpecialPcs
<1>7. QED
  BY <1>4, <1>6, LockStepInv

\* A record of the source's policy in the read-only backup.
LEMMA JournalReadOnlyRow ==
    ASSUME NEW row \in ItemRows, RowUnlocked(row), Unlocked(Bk.source_policy)
    PROVE  /\ RowUnlocked(JournalReadOnly(row))
           /\ JournalReadOnly(row).locked = row.locked
<1>1. CASE row.ro
  BY <1>1 DEF JournalReadOnly
<1>2. CASE ~row.ro
  <2> DEFINE r == [row EXCEPT !.ro = TRUE, !.ro_backup = Bk.source_policy]
  <2>1. /\ r.locked = row.locked /\ r.lock_backup = row.lock_backup
        /\ r.ro_backup = Bk.source_policy /\ r.effects = row.effects
    BY DEF ItemRows
  <2>2. JournalReadOnly(row) = r
    BY <1>2 DEF JournalReadOnly
  <2> HIDE DEF r
  <2>3. QED
    BY <2>1, <2>2 DEF RowUnlocked
<1>3. QED
  BY <1>1, <1>2

\* The steps of a run that journal a policy, or put or take back a lock.
LEMMA RunJournalLocks ==
    ASSUME LockInv, ProvenanceInv',
           \/ RunItem \/ PutTargetLock("relock_put", "loop") \/ ApplyTargetLock
           \/ PutTargetLock("lock_put", "lock_done") \/ TargetLockRefused
           \/ JournalGrant \/ ApplyReadOnly
    PROVE  LockInv'
<1>0. w \in WorkerStates /\ ControlInv
  BY RowsUnlocked DEF LockInv, ProvenanceInv
<1>1. w.pc \in ItemPcs
  BY DEF RunItem, PutTargetLock, ApplyTargetLock, TargetLockRefused, JournalGrant,
         ApplyReadOnly, ItemPcs, OutsideItems, TransferPcs, ItemSteps
<1>2. w.cur \in Items /\ mig.status # "draft"
  BY <1>0, <1>1, PlaceFacts
<1>3. /\ It \in ItemRows /\ Bk \in BucketStates /\ RowUnlocked(It)
      /\ Unlocked(w.policy) /\ Unlocked(Bk.source_policy)
      /\ (UNCHANGED item => SetItem(It))
  BY <1>2, CurrentLocks DEF BucketLocks, SetItem
<1>4. It.created => Exists(Bk)
  BY <1>1 DEF LockInv, ProvenanceInv, CreatedPlaces
<1>5. CASE RunItem
  <2>1. CASE It.created /\ opt.lock /\ ~It.locked
    <3>1. /\ SetItem(JournalTargetLock(It)) /\ UNCHANGED <<mig, bucket>>
          /\ w' = [w EXCEPT !.pc = "relock_put", !.policy = Bk.target_policy]
      BY <1>5, <2>1 DEF RunItem
    <3>2. /\ w'.pc = "relock_put" /\ w'.cur = w.cur
          /\ w'.policy = Bk.target_policy
      BY <1>0, <3>1 DEF WorkerStates
    <3>3. w'.pc \in LockPcs
      BY <3>2 DEF LockPcs
    <3>4. QED
      BY <1>2, <1>4, <2>1, <3>1, <3>2, <3>3, JournalLock
  <2>2. CASE ~(It.created /\ opt.lock /\ ~It.locked)
    <3>1. /\ UNCHANGED <<mig, bucket, item>>
          /\ w'.pc = "loop" /\ w'.policy = w.policy
      BY <1>0, <1>5, <2>2, WorkerMoves DEF RunItem
    <3>2. QED
      BY <1>2, <1>3, <3>1, PlainPlaces, RowStepLocks
  <2>3. QED
    BY <2>1, <2>2
<1>6. CASE ApplyTargetLock
  <2>1. CASE It.locked
    <3>1. /\ UNCHANGED <<mig, bucket, item>>
          /\ w'.pc = "lock_done" /\ w'.policy = w.policy
      BY <1>0, <1>6, <2>1, WorkerMoves DEF ApplyTargetLock
    <3>2. QED
      BY <1>2, <1>3, <3>1, PlainPlaces, RowStepLocks
  <2>2. CASE ~It.locked
    <3>1. /\ SetItem(JournalTargetLock(It)) /\ UNCHANGED <<mig, bucket>>
          /\ w' = [w EXCEPT !.pc = "lock_put", !.policy = Bk.target_policy]
      BY <1>6, <2>2 DEF ApplyTargetLock
    <3>2. /\ w'.pc = "lock_put" /\ w'.cur = w.cur
          /\ w'.policy = Bk.target_policy
      BY <1>0, <3>1 DEF WorkerStates
    <3>3. w'.pc \in LockPcs
      BY <3>2 DEF LockPcs
    <3>4. It.created
      BY <1>6, LatePlaces DEF ApplyTargetLock, LockInv, ProvenanceInv, CreatedPlaces
    <3>5. QED
      BY <1>2, <1>4, <2>2, <3>1, <3>2, <3>3, <3>4, JournalLock
  <2>3. QED
    BY <2>1, <2>2
<1>7. CASE \/ PutTargetLock("relock_put", "loop")
           \/ PutTargetLock("lock_put", "lock_done")
  <2>1. {"relock_put", "lock_put"} \subseteq LockPcs
    BY DEF LockPcs
  <2>2. QED
    BY <1>2, <1>7, <2>1, PlainPlaces, PutLock
<1>8. CASE TargetLockRefused
  <2> DEFINE row == [It EXCEPT !.status = "failed", !.locked = FALSE,
                               !.lock_backup = {}]
             b == [Bk EXCEPT !.target_policy = It.lock_backup]
  <2>1. RowUnlocked(row) /\ row.locked = FALSE
    BY <1>3 DEF RowUnlocked, ItemRows, Unlocked
  <2>2. Unlocked(b.source_policy) /\ Unlocked(b.target_policy)
    BY <1>3 DEF BucketStates, RowUnlocked
  <2>3. /\ item' = [item EXCEPT ![w.cur] = row]
        /\ bucket' = [bucket EXCEPT ![w.cur] = b] /\ UNCHANGED mig
    BY <1>8 DEF TargetLockRefused, SetItem, SetBucket
  <2>4. w'.pc = "items" /\ w'.policy = w.policy
    BY <1>0, <1>8, WorkerMoves DEF TargetLockRefused
  <2> HIDE DEF row, b
  <2>5. LockStep(w.cur, row, b)
    BY <1>2, <1>3, <2>1, <2>2, <2>3, <2>4 DEF LockStep, BucketLocks, LockPcs
  <2>6. QED
    BY <1>2, <2>3, <2>5, LockStepInv
<1>9. CASE JournalGrant
  <2> DEFINE S == It.effects \cup {GrantEffect(Bk.source_policy)}
             row == [It EXCEPT !.effects = S]
  <2>1. \A e \in S : Unlocked(e.policy)
    BY <1>3 DEF RowUnlocked, GrantEffect
  <2>2. RowUnlocked(row) /\ row.locked = It.locked
    <3> HIDE DEF S
    <3>1. QED
      BY <1>3, <2>1 DEF RowUnlocked, ItemRows
  <2>3. SetItem(row) /\ UNCHANGED <<mig, bucket>>
    BY <1>9 DEF JournalGrant
  <2>4. w'.pc = "grant_put" /\ w'.policy = Bk.source_policy
    BY <1>0, <1>9 DEF JournalGrant, WorkerStates
  <2> HIDE DEF row
  <2>5. QED
    BY <1>2, <1>3, <2>2, <2>3, <2>4, PlainPlaces, RowStepLocks
<1>10. CASE ApplyReadOnly
  <2>1. SetItem(JournalReadOnly(It)) /\ UNCHANGED <<mig, bucket>>
    BY <1>10 DEF ApplyReadOnly
  <2>2. w'.pc = "read_only_put" /\ w'.policy = Bk.source_policy
    BY <1>0, <1>10 DEF ApplyReadOnly, WorkerStates
  <2>3. QED
    BY <1>2, <1>3, <2>1, <2>2, PlainPlaces, JournalReadOnlyRow, RowStepLocks
<1>11. QED
  BY <1>5, <1>6, <1>7, <1>8, <1>9, <1>10

\* The way out of a run whose creator lost access.
LEMMA RevokedLocks ==
    ASSUME LockInv, ProvenanceInv',
           CreatorAccessRevoked \/ Revocation \/ RevokedGrantFault
    PROVE  LockInv'
<1>0. w \in WorkerStates /\ ControlInv /\ Unlocked(w.policy) /\ mig \in MigrationRows
  BY RowsUnlocked DEF LockInv, ProvenanceInv
<1>1. CASE ClearRevokedGrant \/ FailRevokedItem
  <2>1. w.cur \in Items
    BY <1>0, <1>1, RevokedApart, PlaceFacts DEF ClearRevokedGrant, FailRevokedItem
  <2>2. It \in ItemRows /\ RowUnlocked(It)
    BY <2>1, CurrentLocks
  <2> DEFINE a == [It EXCEPT !.effects = {e \in @ : e.name # "source_copy_grant"}]
             b == [It EXCEPT !.status = "failed"]
  <2>3. /\ a.locked = It.locked /\ a.lock_backup = It.lock_backup
        /\ a.ro_backup = It.ro_backup /\ a.effects \subseteq It.effects
        /\ b.locked = It.locked /\ b.lock_backup = It.lock_backup
        /\ b.ro_backup = It.ro_backup /\ b.effects = It.effects
    BY <2>2 DEF ItemRows
  <2>4. SetItem(a) \/ SetItem(b)
    BY <1>1 DEF ClearRevokedGrant, FailRevokedItem
  <2> HIDE DEF a, b
  <2>5. RowUnlocked(a) /\ RowUnlocked(b)
    BY <2>2, <2>3 DEF RowUnlocked
  <2>6. /\ UNCHANGED <<mig, bucket>> /\ w'.policy = w.policy
        /\ w'.pc \in {"revoked_item", "revoked_next"}
    BY <1>0, <1>1, WorkerMoves DEF ClearRevokedGrant, FailRevokedItem
  <2>7. w'.pc \notin SpecialPcs
    BY <2>6, RevokedApart, PlainPlaces DEF RevokedPcs
  <2>8. QED
    BY <1>0, <2>1, <2>3, <2>4, <2>5, <2>6, <2>7, RowStepLocks
<1>2. CASE RestoreRevokedGrant
  <2>1. w.cur \in Items
    BY <1>0, <1>2, RevokedApart, PlaceFacts DEF RestoreRevokedGrant
  <2>2. Bk \in BucketStates
    BY <2>1, CurrentLocks
  <2> DEFINE b == [Bk EXCEPT !.source_policy = w.policy]
  <2>3. /\ Unlocked(b.source_policy)
        /\ b.target_policy = Bk.target_policy /\ b.target_by = Bk.target_by
    BY <1>0, <2>2 DEF BucketStates
  <2>4. SetBucket(b)
    BY <1>2 DEF RestoreRevokedGrant
  <2> HIDE DEF b
  <2>5. UNCHANGED <<mig, item>> /\ w'.policy = w.policy /\ w'.pc = "revoked_clear"
    BY <1>0, <1>2, WorkerMoves DEF RestoreRevokedGrant
  <2>6. w'.pc \notin SpecialPcs
    BY <2>5, PlainPlaces DEF RevokedPcs
  <2>7. QED
    BY <1>0, <2>1, <2>3, <2>4, <2>5, <2>6, BucketStepLocks
<1>3. CASE CreatorAccessRevoked \/ RevokedAgain \/ RevokedRunEnds \/ RevokedGrantFault
  <2>1. /\ UNCHANGED <<item, bucket>>
        /\ mig'.status = "draft" => mig.status = "draft"
    BY <1>0, <1>3 DEF CreatorAccessRevoked, RevokedAgain, RevokedRunEnds,
       RevokedGrantFault, MigrationRows
  <2>2. w'.pc \in {"idle"} \cup RevokedPcs /\ w'.policy \in {w.policy, {}}
    BY <1>0, <1>3, WorkerMoves, RevokedApart
       DEF CreatorAccessRevoked, RevokedAgain, RevokedRunEnds, RevokedGrantFault
  <2>3. w'.pc \notin SpecialPcs /\ Unlocked(w'.policy)
    BY <1>0, <2>2, PlainPlaces DEF Unlocked
  <2>4. QED
    BY <2>1, <2>3, RowsUnlocked, PlainPlaces, QuietLocks
<1>4. QED
  BY <1>1, <1>2, <1>3 DEF Revocation

\* The cleanup of a source.
LEMMA SourceCleanupLocks ==
    ASSUME LockInv, ProvenanceInv',
           \/ CleanupLockTarget \/ PutTargetLock("cs_lock_put", "cs_target_hash")
           \/ CleanupHashTarget \/ CleanupReadOnly
           \/ PutReadOnly("cs_read_only_put", "cs_source_hash")
           \/ CleanupHashSource \/ CleanupCheckSource \/ CleanupPutPolicy
           \/ PurgeSource \/ RemoveSource \/ RecordSourceDeleted
           \/ CleanupUnlockTarget \/ FinishSourceCleanup
    PROVE  LockInv'
<1>0. w \in WorkerStates /\ ControlInv
  BY RowsUnlocked DEF LockInv, ProvenanceInv
<1>1. w.pc \in CleanupPcs \ {"cleanup"}
  BY DEF CleanupLockTarget, PutTargetLock, CleanupHashTarget, CleanupReadOnly,
         PutReadOnly, CleanupHashSource, CleanupCheckSource, CleanupPutPolicy,
         PurgeSource, RemoveSource, RecordSourceDeleted, CleanupUnlockTarget,
         FinishSourceCleanup, CleanupPcs
<1>2. w.cur \in Items /\ mig.status # "draft"
  BY <1>0, <1>1, PlaceFacts
     DEF LockInv, ProvenanceInv, CleanupFinal, FinalStatuses
<1>3. /\ It \in ItemRows /\ Bk \in BucketStates /\ RowUnlocked(It)
      /\ BucketLocks(It, Bk)
      /\ Unlocked(w.policy) /\ Unlocked(Bk.source_policy)
      /\ (UNCHANGED item => SetItem(It))
  BY <1>2, CurrentLocks DEF BucketLocks, SetItem
<1>4. UNCHANGED mig
  BY DEF CleanupLockTarget, PutTargetLock, CleanupHashTarget, CleanupReadOnly,
         PutReadOnly, CleanupHashSource, CleanupCheckSource, CleanupPutPolicy,
         PurgeSource, RemoveSource, RecordSourceDeleted, CleanupUnlockTarget,
         FinishSourceCleanup
<1>5. ASSUME UNCHANGED <<item, bucket>>, w'.policy = w.policy,
             w'.pc \notin SpecialPcs
      PROVE  LockInv'
  BY <1>2, <1>3, <1>4, <1>5, RowStepLocks
<1>6. ASSUME CleanupRefused PROVE LockInv'
  <2>1. w'.pc = "cleanup" /\ w'.policy = w.policy /\ UNCHANGED <<item, bucket>>
    BY <1>0, <1>6, WorkerMoves DEF CleanupRefused
  <2>2. QED
    BY <1>5, <2>1, PlainPlaces
<1>7. CASE CleanupLockTarget
  <2>1. CASE ~It.locked /\ ~CleanupRefused
    <3>1. /\ SetItem(JournalTargetLock(It)) /\ UNCHANGED bucket /\ Exists(Bk)
          /\ w' = [w EXCEPT !.pc = "cs_lock_put", !.policy = Bk.target_policy,
                            !.receipt = (It.receipt # NoReceipt)]
      BY <1>7, <2>1 DEF CleanupLockTarget, TargetExists, Exists
    <3>2. /\ w'.pc = "cs_lock_put" /\ w'.cur = w.cur
          /\ w'.policy = Bk.target_policy
      BY <1>0, <3>1 DEF WorkerStates
    <3>3. w'.pc \in LockPcs
      BY <3>2 DEF LockPcs
    <3>4. QED
      BY <1>2, <1>4, <2>1, <3>1, <3>2, <3>3, JournalLock
  <2>2. CASE It.locked /\ ~CleanupRefused
    <3> DEFINE b == [Bk EXCEPT !.target_policy =
                       BuildTargetWriteLockPolicy(It.lock_backup)]
    <3>1. /\ SetBucket(b) /\ UNCHANGED item /\ Exists(Bk)
          /\ w' = [w EXCEPT !.pc = "cs_target_hash",
                            !.receipt = (It.receipt # NoReceipt)]
      BY <1>7, <2>2 DEF CleanupLockTarget, TargetExists, Exists
    <3>2. w'.pc = "cs_target_hash" /\ w'.policy = w.policy
      BY <1>0, <3>1 DEF WorkerStates
    <3>3. Unlocked(b.source_policy) /\ Exists(b)
      BY <1>3, <3>1 DEF BucketStates, Exists
    <3>4. /\ item' = [item EXCEPT ![w.cur] = It] /\ item[w.cur].locked
          /\ bucket' = [bucket EXCEPT ![w.cur] = b]
      BY <1>2, <2>2, <3>1, CurrentLocks DEF SetBucket
    <3> HIDE DEF b
    <3>5. LockStep(w.cur, It, b)
      BY <1>3, <2>2, <3>2, <3>3, <3>4 DEF LockStep, BucketLocks, LockPcs
    <3>6. QED
      BY <1>2, <1>4, <3>5, LockStepInv
  <2>3. QED
    BY <1>6, <2>1, <2>2
<1>8. CASE PutTargetLock("cs_lock_put", "cs_target_hash")
  <2>1. "cs_lock_put" \in LockPcs
    BY DEF LockPcs
  <2>2. QED
    BY <1>2, <1>8, <2>1, PlainPlaces, PutLock
<1>9. CASE CleanupHashTarget \/ CleanupCheckSource
  <2>1. CASE ~CleanupRefused
    <3>1. /\ UNCHANGED <<item, bucket>> /\ w'.policy = w.policy
          /\ w'.pc \in {"cs_check", "cs_read_only", "cs_record", "cs_policy_put"}
      BY <1>0, <1>9, <2>1, WorkerMoves
         DEF CleanupHashTarget, CleanupCheckSource, WorkerStates
    <3>2. QED
      BY <1>5, <3>1, PlainPlaces
  <2>2. QED
    BY <1>6, <2>1
<1>10. CASE CleanupReadOnly
  <2>1. CASE ~CleanupRefused
    <3>1. SetItem(JournalReadOnly(It)) /\ UNCHANGED bucket
      BY <1>10, <2>1 DEF CleanupReadOnly
    <3>2. w'.pc = "cs_read_only_put" /\ w'.policy = Bk.source_policy
      BY <1>0, <1>10, <2>1 DEF CleanupReadOnly, WorkerStates
    <3>3. QED
      BY <1>2, <1>3, <1>4, <3>1, <3>2, PlainPlaces, JournalReadOnlyRow, RowStepLocks
  <2>2. QED
    BY <1>6, <2>1
<1>11. CASE CleanupHashSource
  <2>1. CASE ~CleanupRefused
    <3> DEFINE row == [It EXCEPT !.receipt = w.snap]
    <3>1. RowUnlocked(row) /\ row.locked = It.locked
      BY <1>3 DEF RowUnlocked, ItemRows
    <3>2. /\ SetItem(row) /\ UNCHANGED bucket
          /\ w'.pc = "cs_check" /\ w'.policy = w.policy
      BY <1>0, <1>11, <2>1, WorkerMoves DEF CleanupHashSource
    <3> HIDE DEF row
    <3>3. QED
      BY <1>2, <1>3, <1>4, <3>1, <3>2, PlainPlaces, RowStepLocks
  <2>2. QED
    BY <1>6, <2>1
<1>12. CASE RecordSourceDeleted
  <2> DEFINE row == [It EXCEPT !.source_deleted = TRUE, !.ro = FALSE, !.ro_backup = {}]
  <2>1. RowUnlocked(row) /\ row.locked = It.locked
    BY <1>3 DEF RowUnlocked, ItemRows, Unlocked
  <2>2. /\ SetItem(row) /\ UNCHANGED bucket
        /\ w'.pc = "cs_unlock" /\ w'.policy = w.policy
    BY <1>0, <1>12, WorkerMoves DEF RecordSourceDeleted
  <2> HIDE DEF row
  <2>3. QED
    BY <1>2, <1>3, <1>4, <2>1, <2>2, PlainPlaces, RowStepLocks
<1>13. CASE \/ PutReadOnly("cs_read_only_put", "cs_source_hash")
            \/ CleanupPutPolicy \/ PurgeSource \/ RemoveSource
  <2>1. /\ UNCHANGED item /\ w'.policy = w.policy
        /\ w'.pc \in {"cs_source_hash", "cs_purge", "cs_remove", "cs_record"}
    BY <1>0, <1>13, WorkerMoves DEF PutReadOnly, CleanupPutPolicy, PurgeSource,
                                    RemoveSource
  <2>2. \E b : /\ SetBucket(b) /\ Unlocked(b.source_policy)
               /\ b.target_policy = Bk.target_policy /\ b.target_by = Bk.target_by
    <3> DEFINE p == [Bk EXCEPT !.source_policy = BuildReadOnlyPolicy(w.policy)]
               c == [Bk EXCEPT !.source_policy =
                       BuildSourceCleanupPolicy(It.ro_backup)]
               e == [Bk EXCEPT !.source = Empty]
               x == [Bk EXCEPT !.source_exists = FALSE, !.source_policy = {}]
    <3>1. /\ Unlocked(BuildReadOnlyPolicy(w.policy))
          /\ Unlocked(BuildSourceCleanupPolicy(It.ro_backup))
      BY <1>3 DEF BuildReadOnlyPolicy, BuildSourceCleanupPolicy, WithoutReadOnly,
                  Unlocked, RowUnlocked
    <3>2. /\ Unlocked(p.source_policy) /\ p.target_policy = Bk.target_policy
          /\ p.target_by = Bk.target_by
          /\ Unlocked(c.source_policy) /\ c.target_policy = Bk.target_policy
          /\ c.target_by = Bk.target_by
      BY <1>3, <3>1 DEF BucketStates
    <3>3. /\ Unlocked(e.source_policy) /\ e.target_policy = Bk.target_policy
          /\ e.target_by = Bk.target_by
          /\ Unlocked(x.source_policy) /\ x.target_policy = Bk.target_policy
          /\ x.target_by = Bk.target_by
      BY <1>3 DEF BucketStates, Unlocked
    <3>4. SetBucket(p) \/ SetBucket(c) \/ SetBucket(e) \/ SetBucket(x)
      BY <1>13 DEF PutReadOnly, CleanupPutPolicy, PurgeSource, RemoveSource
    <3> HIDE DEF p, c, e, x
    <3>5. QED
      BY <3>2, <3>3, <3>4
  <2>3. QED
    BY <1>2, <1>3, <1>4, <2>1, <2>2, PlainPlaces, BucketStepLocks
<1>14. CASE CleanupUnlockTarget
  <2> DEFINE b == [Bk EXCEPT !.target_policy = It.lock_backup]
  <2>1. Unlocked(b.source_policy) /\ Unlocked(b.target_policy)
    BY <1>3 DEF BucketStates, RowUnlocked
  <2>2. /\ SetBucket(b) /\ UNCHANGED item /\ w'.policy = w.policy
        /\ w'.pc = "cs_finish" /\ w'.cur = w.cur
    BY <1>0, <1>14, WorkerMoves DEF CleanupUnlockTarget
  <2> HIDE DEF b
  <2>3. QED
    BY <1>2, <1>3, <1>4, <2>1, <2>2, BucketStepLocks
<1>15. CASE FinishSourceCleanup
  <2> DEFINE row == [It EXCEPT !.locked = FALSE, !.lock_backup = {}]
  <2>1. RowUnlocked(row) /\ row.locked = FALSE
    BY <1>3 DEF RowUnlocked, ItemRows, Unlocked
  <2>2. Unlocked(Bk.target_policy)
    BY <1>15 DEF FinishSourceCleanup, LockInv, LockPlaces
  <2>3. /\ item' = [item EXCEPT ![w.cur] = row]
        /\ bucket' = [bucket EXCEPT ![w.cur] = Bk]
        /\ w'.pc = "cleanup" /\ w'.policy = w.policy
    BY <1>0, <1>2, <1>15, CurrentLocks, WorkerMoves
       DEF FinishSourceCleanup, SetItem
  <2> HIDE DEF row
  <2>4. LockStep(w.cur, row, Bk)
    BY <1>3, <2>1, <2>2, <2>3 DEF LockStep, BucketLocks, LockPcs
  <2>5. QED
    BY <1>2, <1>4, <2>4, LockStepInv
<1>16. QED
  BY <1>7, <1>8, <1>9, <1>10, <1>11, <1>12, <1>13, <1>14, <1>15

\* The cleanup of a failed destination.
LEMMA TargetCleanupLocks ==
    ASSUME LockInv, ProvenanceInv',
           \/ LockFailedTarget \/ PutTargetLock("ct_lock_put", "ct_purge")
           \/ PurgeTarget \/ RemoveTarget \/ FinishTargetCleanup \/ CleanupFault
    PROVE  LockInv'
<1>0. w \in WorkerStates /\ ControlInv
  BY RowsUnlocked DEF LockInv, ProvenanceInv
<1>1. w.pc \in CleanupPcs \ {"cleanup"}
  BY DEF LockFailedTarget, PutTargetLock, PurgeTarget, RemoveTarget,
         FinishTargetCleanup, CleanupFault, CleanupPcs
<1>2. w.cur \in Items /\ mig.status # "draft"
  BY <1>0, <1>1, PlaceFacts
     DEF LockInv, ProvenanceInv, CleanupFinal, FinalStatuses
<1>3. /\ It \in ItemRows /\ Bk \in BucketStates /\ RowUnlocked(It)
      /\ BucketLocks(It, Bk)
      /\ Unlocked(w.policy) /\ Unlocked(Bk.source_policy)
      /\ (UNCHANGED item => SetItem(It))
  BY <1>2, CurrentLocks DEF BucketLocks, SetItem
<1>4. UNCHANGED mig
  BY DEF LockFailedTarget, PutTargetLock, PurgeTarget, RemoveTarget,
         FinishTargetCleanup, CleanupFault
<1>5. ASSUME UNCHANGED <<item, bucket>>, w'.policy = w.policy,
             w'.pc \notin SpecialPcs
      PROVE  LockInv'
  BY <1>2, <1>3, <1>4, <1>5, RowStepLocks
<1>6. ASSUME CleanupRefused PROVE LockInv'
  <2>1. w'.pc = "cleanup" /\ w'.policy = w.policy /\ UNCHANGED <<item, bucket>>
    BY <1>0, <1>6, WorkerMoves DEF CleanupRefused
  <2>2. QED
    BY <1>5, <2>1, PlainPlaces
<1>7. CASE LockFailedTarget
  <2>1. CASE Goto("ct_purge") /\ UNCHANGED <<item, bucket>>
    BY <1>0, <1>5, <2>1, WorkerMoves, PlainPlaces
  <2>2. CASE ~It.locked /\ TargetExists /\ ~CleanupRefused
    <3>1. /\ SetItem(JournalTargetLock(It)) /\ UNCHANGED bucket /\ Exists(Bk)
          /\ w' = [w EXCEPT !.pc = "ct_lock_put", !.policy = Bk.target_policy]
      BY <1>7, <2>2 DEF LockFailedTarget, TargetExists, Exists
    <3>2. /\ w'.pc = "ct_lock_put" /\ w'.cur = w.cur
          /\ w'.policy = Bk.target_policy
      BY <1>0, <3>1 DEF WorkerStates
    <3>3. w'.pc \in LockPcs
      BY <3>2 DEF LockPcs
    <3>4. QED
      BY <1>2, <1>4, <2>2, <3>1, <3>2, <3>3, JournalLock
  <2>3. QED
    BY <1>6, <1>7, <2>1, <2>2 DEF LockFailedTarget
<1>8. CASE PutTargetLock("ct_lock_put", "ct_purge")
  <2>1. "ct_lock_put" \in LockPcs
    BY DEF LockPcs
  <2>2. QED
    BY <1>2, <1>8, <2>1, PlainPlaces, PutLock
<1>9. CASE PurgeTarget
  <2>1. CASE TargetExists
    <3> DEFINE b == [Bk EXCEPT !.target = Empty]
    <3>1. /\ Unlocked(b.source_policy) /\ b.target_policy = Bk.target_policy
          /\ b.target_by = Bk.target_by
      BY <1>3 DEF BucketStates
    <3>2. /\ SetBucket(b) /\ UNCHANGED item
          /\ w'.pc = "ct_remove" /\ w'.policy = w.policy
      BY <1>0, <1>9, <2>1, WorkerMoves DEF PurgeTarget
    <3> HIDE DEF b
    <3>3. QED
      BY <1>2, <1>3, <1>4, <3>1, <3>2, PlainPlaces, BucketStepLocks
  <2>2. CASE ~TargetExists
    BY <1>0, <1>5, <1>9, <2>2, WorkerMoves, PlainPlaces DEF PurgeTarget
  <2>3. QED
    BY <2>1, <2>2
<1>10. CASE RemoveTarget
  <2> DEFINE b == [Bk EXCEPT !.target_by = "nobody", !.target_policy = {}]
  <2>1. Unlocked(b.source_policy) /\ Unlocked(b.target_policy)
    BY <1>3 DEF BucketStates, Unlocked
  <2>2. /\ SetBucket(b) /\ UNCHANGED item
        /\ w'.pc = "ct_finish" /\ w'.policy = w.policy
    BY <1>0, <1>10, WorkerMoves DEF RemoveTarget
  <2> HIDE DEF b
  <2>3. QED
    BY <1>2, <1>3, <1>4, <2>1, <2>2, PlainPlaces, BucketStepLocks
<1>11. CASE FinishTargetCleanup /\ ~CleanupRefused
  <2> DEFINE row == [It EXCEPT !.created = FALSE, !.locked = FALSE,
                               !.lock_backup = {}, !.pre_sync_done = FALSE,
                               !.step = "create_bucket"]
  <2>1. RowUnlocked(row) /\ row.locked = FALSE
    BY <1>3 DEF RowUnlocked, ItemRows, Unlocked
  <2>2. Unlocked(Bk.target_policy)
    BY <1>3, <1>11 DEF FinishTargetCleanup, BucketLocks, TargetExists, Exists
  <2>3. /\ item' = [item EXCEPT ![w.cur] = row]
        /\ bucket' = [bucket EXCEPT ![w.cur] = Bk]
        /\ w'.pc = "cleanup" /\ w'.policy = w.policy
    BY <1>0, <1>2, <1>11, CurrentLocks, WorkerMoves
       DEF FinishTargetCleanup, SetItem
  <2> HIDE DEF row
  <2>4. LockStep(w.cur, row, Bk)
    BY <1>3, <2>1, <2>2, <2>3 DEF LockStep, BucketLocks, LockPcs
  <2>5. QED
    BY <1>2, <1>4, <2>4, LockStepInv
<1>12. CASE CleanupFault
  BY <1>6, <1>12 DEF CleanupFault
<1>13. QED
  BY <1>6, <1>7, <1>8, <1>9, <1>10, <1>11, <1>12

\* Recovery, and the loop and the ends of a maintenance operation.
LEMMA RecoveryLocks ==
    ASSUME LockInv, ProvenanceInv',
           \/ BeginMaintenance \/ RecoverEffect \/ ClearRecoveredEffect
           \/ RecoveryDone \/ CleanupLoop \/ RecoveryFault \/ MaintenanceFault
    PROVE  LockInv'
<1>0. /\ w \in WorkerStates /\ ControlInv /\ mig \in MigrationRows
      /\ Unlocked(w.policy)
  BY RowsUnlocked DEF LockInv, ProvenanceInv
<1>1. w.pc \in {"start", "recover", "recover_clear"} => w.released = {}
  BY DEF LockInv, LockPlaces
<1>2. CASE RecoverEffect
  <2> DEFINE Recovered(i, e) == IF e.name = "probe_bucket"
                                THEN [bucket[i] EXCEPT !.probe = FALSE]
                                ELSE [bucket[i] EXCEPT !.source_policy = e.policy]
  <2>p. PICK i \in Items : \E e \in item[i].effects :
          /\ bucket' = [bucket EXCEPT ![i] = Recovered(i, e)]
          /\ w' = [w EXCEPT !.pc = "recover_clear", !.cur = i]
    BY <1>2, RowsUnlocked DEF RecoverEffect
  <2>1. PICK e \in item[i].effects :
          /\ bucket' = [bucket EXCEPT ![i] = Recovered(i, e)]
          /\ w' = [w EXCEPT !.pc = "recover_clear", !.cur = i]
    BY <2>p
  <2> DEFINE b == Recovered(i, e)
  <2>2. /\ item[i] \in ItemRows /\ bucket[i] \in BucketStates
        /\ RowUnlocked(item[i]) /\ BucketLocks(item[i], bucket[i])
        /\ item' = [item EXCEPT ![i] = item[i]] /\ UNCHANGED mig
    BY <1>2, RowsUnlocked DEF LockInv, ItemLocks, RecoverEffect
  <2>3. Unlocked(e.policy) /\ Unlocked(bucket[i].source_policy)
    BY <2>2 DEF RowUnlocked, BucketLocks
  <2>4. /\ Unlocked(b.source_policy) /\ b.target_policy = bucket[i].target_policy
        /\ b.target_by = bucket[i].target_by
    BY <2>2, <2>3 DEF BucketStates
  <2>5. /\ w'.pc = "recover_clear" /\ w'.policy = w.policy
        /\ w'.released = w.released
    BY <1>0, <2>1 DEF WorkerStates
  <2>6. w'.released = {}
    BY <1>1, <1>2, <2>5 DEF RecoverEffect
  <2>7. bucket' = [bucket EXCEPT ![i] = b]
    BY <2>1
  <2> HIDE DEF b, Recovered
  <2>8. LockStep(i, item[i], b)
    BY <1>0, <2>2, <2>4, <2>5, <2>6, <2>7
       DEF LockStep, BucketLocks, LockPcs, Exists
  <2>9. QED
    BY <2>2, <2>8, LockStepInv
<1>3. CASE ClearRecoveredEffect
  <2>1. w.cur \in Items
    BY <1>0, <1>3 DEF ClearRecoveredEffect, ControlInv, TypeInv, CurOK, FreePcs
  <2>2. /\ It \in ItemRows /\ RowUnlocked(It) /\ BucketLocks(It, Bk)
        /\ It = item[w.cur]
    BY <2>1, CurrentLocks
  <2>3. PICK e : SetItem([It EXCEPT !.effects = It.effects \ {e}])
    BY <1>3 DEF ClearRecoveredEffect
  <2> DEFINE row == [It EXCEPT !.effects = It.effects \ {e}]
  <2>4. /\ row.locked = It.locked /\ row.lock_backup = It.lock_backup
        /\ row.ro_backup = It.ro_backup /\ row.effects \subseteq It.effects
    BY <2>2 DEF ItemRows
  <2>5. /\ item' = [item EXCEPT ![w.cur] = row] /\ UNCHANGED mig
        /\ bucket' = [bucket EXCEPT ![w.cur] = Bk]
    BY <1>3, <2>1, <2>3, CurrentLocks DEF ClearRecoveredEffect, SetItem
  <2>6. w'.pc = "recover" /\ w'.policy = w.policy /\ w'.released = {}
    BY <1>0, <1>1, <1>3 DEF ClearRecoveredEffect, Goto, WorkerStates
  <2> HIDE DEF row
  <2>7. LockStep(w.cur, row, Bk)
    BY <1>0, <2>2, <2>4, <2>5, <2>6 DEF LockStep, RowUnlocked, BucketLocks, LockPcs
  <2>8. QED
    BY <2>1, <2>5, <2>7, LockStepInv
<1>4. CASE BeginMaintenance \/ RecoveryDone \/ CleanupLoop \/ RecoveryFault
           \/ MaintenanceFault
  <2>1. UNCHANGED <<item, bucket>> /\ mig'.status = mig.status
    BY <1>0, <1>4 DEF BeginMaintenance, RecoveryDone, CleanupLoop, RecoveryFault,
       MaintenanceFault, FinishMaintenance, MigrationRows
  <2>2. /\ w'.policy \in {w.policy, {}}
        /\ w'.pc \in {"recover", "cleanup", "release", "check_item", "cs_lock",
                       "ct_lock", "idle"}
        /\ w'.pc \in {"recover", "release"} => w'.released = {}
    <3>1. CASE BeginMaintenance
      <4>1. /\ w'.policy = w.policy /\ w'.released = w.released
            /\ w'.pc \in {"recover", "cleanup"}
        BY <1>0, <3>1 DEF BeginMaintenance, WorkerStates
      <4>2. QED
        BY <1>1, <3>1, <4>1 DEF BeginMaintenance
    <3>2. CASE RecoveryDone
      <4>1. /\ w'.policy = w.policy /\ w'.released = w.released
            /\ w'.pc \in {"release", "check_item"}
        BY <1>0, <3>2 DEF RecoveryDone, WorkerStates
      <4>2. QED
        BY <1>1, <3>2, <4>1 DEF RecoveryDone
    <3>3. CASE CleanupLoop
      <4>1. \/ NextCleanup(FALSE) \/ Goto("cs_lock") \/ Goto("ct_lock")
            \/ w' = IdleWorker
        BY <3>3 DEF CleanupLoop, FinishMaintenance
      <4>2. CASE w' = IdleWorker
        BY <4>2, WorkerMoves, <1>0
      <4>3. CASE NextCleanup(FALSE) \/ Goto("cs_lock") \/ Goto("ct_lock")
        <5>1. w'.pc \in {"cleanup", "cs_lock", "ct_lock"} /\ w'.policy = w.policy
          BY <1>0, <4>3, WorkerMoves
        <5>2. QED
          BY <5>1
      <4>4. QED
        BY <4>1, <4>2, <4>3
    <3>4. CASE RecoveryFault \/ MaintenanceFault
      BY <1>0, <3>4, WorkerMoves DEF RecoveryFault, MaintenanceFault,
                                     FinishMaintenance
    <3>5. QED
      BY <1>4, <3>1, <3>2, <3>3, <3>4
  <2>3. Unlocked(w'.policy)
    BY <1>0, <2>2 DEF Unlocked
  <2>4. "check_item" \in CheckPcs
    BY DEF CheckPcs
  <2>5. QED
    BY <2>1, <2>2, <2>3, <2>4, RowsUnlocked, PlainPlaces, QuietLocks
<1>5. QED
  BY <1>2, <1>3, <1>4

\* The checks of a draft touch sources and probe buckets only.
LEMMA PreparationLocks ==
    ASSUME LockInv, ProvenanceInv', Preparation \/ PreparationFaults
    PROVE  LockInv'
<1>0. /\ w \in WorkerStates /\ ControlInv /\ mig \in MigrationRows
      /\ Unlocked(w.policy)
  BY RowsUnlocked DEF LockInv, ProvenanceInv
<1>1. CASE /\ UNCHANGED <<item, bucket>>
           /\ ~(JournalEffect /\ ~Journalled(w.task))
  <2>1. /\ mig'.status = mig.status /\ w'.policy \in {w.policy, {}}
        /\ w'.pc \in CheckPcs \cup {"idle"}
    <3>1. CASE JournalEffect /\ Journalled(w.task)
      BY <1>0, <3>1, WorkerMoves DEF JournalEffect
    <3>2. CASE CheckItem \/ ApplyChange \/ ClearEffect \/ CheckFault
      BY <1>0, <3>2, WorkerMoves DEF CheckItem, ApplyChange, ClearEffect, CheckFault
    <3>3. CASE UndoChange
      BY <1>0, <3>3, WorkerMoves DEF UndoChange, CheckPcs
    <3>4. CASE ReportChecks \/ ChecksInterrupted
      BY <1>0, <3>4, WorkerMoves DEF ReportChecks, ChecksInterrupted, MigrationRows
    <3>5. QED
      BY <1>1, <3>1, <3>2, <3>3, <3>4 DEF Preparation, PreparationFaults
  <2>2. Unlocked(w'.policy)
    BY <1>0, <2>1 DEF Unlocked
  <2>3. w'.pc \notin SpecialPcs /\ w'.pc \notin LockPcs \cup {"cs_finish"}
    BY <2>1, PlainPlaces
  <2>4. QED
    BY <1>1, <2>1, <2>2, <2>3, RowsUnlocked, QuietLocks
<1>2. CASE JournalEffect /\ ~Journalled(w.task)
  <2>1. w.cur \in Items
    BY <1>0, <1>2 DEF JournalEffect, ControlInv, TypeInv, CurOK, FreePcs
  <2>2. It \in ItemRows /\ RowUnlocked(It) /\ Unlocked(Bk.source_policy)
    BY <2>1, CurrentLocks DEF BucketLocks
  <2> DEFINE e == [name |-> EffectOf(w.task), at |-> w.task,
                   policy |-> IF w.task = 3 THEN {} ELSE Bk.source_policy]
             row == [It EXCEPT !.effects = It.effects \cup {e}]
  <2>3. Unlocked(e.policy)
    BY <2>2 DEF Unlocked
  <2>4. /\ SetItem(row) /\ UNCHANGED <<mig, bucket>>
        /\ w' = [w EXCEPT !.pc = "check_put", !.policy = Bk.source_policy]
    BY <1>2 DEF JournalEffect
  <2> HIDE DEF e
  <2>5. RowUnlocked(row) /\ row.locked = It.locked
    BY <2>2, <2>3 DEF RowUnlocked, ItemRows
  <2>6. w'.pc \in CheckPcs /\ w'.policy = Bk.source_policy
    BY <1>0, <2>4 DEF CheckPcs, WorkerStates
  <2> HIDE DEF row
  <2>7. QED
    BY <2>1, <2>2, <2>4, <2>5, <2>6, PlainPlaces, RowStepLocks
<1>3. CASE ClearEffect
  <2>1. w.cur \in Items
    BY <1>0, <1>3 DEF ClearEffect, ControlInv, TypeInv, CurOK, FreePcs
  <2>2. It \in ItemRows /\ RowUnlocked(It)
    BY <2>1, CurrentLocks
  <2> DEFINE row == [It EXCEPT !.effects =
                       {e \in It.effects : e.name # EffectOf(w.task)}]
  <2>3. /\ row.locked = It.locked /\ row.lock_backup = It.lock_backup
        /\ row.ro_backup = It.ro_backup /\ row.effects \subseteq It.effects
    BY <2>2 DEF ItemRows
  <2>4. SetItem(row) /\ UNCHANGED <<mig, bucket>>
    BY <1>3 DEF ClearEffect
  <2>5. w'.pc \in CheckPcs /\ w'.policy = w.policy
    BY <1>0, <1>3, WorkerMoves DEF ClearEffect
  <2> HIDE DEF row
  <2>6. RowUnlocked(row)
    BY <2>2, <2>3 DEF RowUnlocked
  <2>7. QED
    BY <1>0, <2>1, <2>3, <2>4, <2>5, <2>6, PlainPlaces, RowStepLocks
<1>4. CASE (ApplyChange \/ UndoChange \/ CheckFault) /\ ~UNCHANGED bucket
  <2>1. w.cur \in Items
    BY <1>0, <1>4 DEF ApplyChange, UndoChange, CheckFault, ControlInv, TypeInv,
                      CurOK, FreePcs
  <2>2. Bk \in BucketStates /\ Unlocked(Bk.source_policy)
    BY <2>1, CurrentLocks DEF BucketLocks
  <2>3. UNCHANGED <<mig, item>>
    BY <1>4 DEF ApplyChange, UndoChange, CheckFault
  <2>4. w'.pc \in CheckPcs /\ w'.policy = w.policy
    BY <1>0, <1>4, WorkerMoves DEF ApplyChange, UndoChange, CheckFault, CheckPcs
  <2>5. PICK b : /\ SetBucket(b)
                 /\ \/ \E v : b = [Bk EXCEPT !.probe = v]
                    \/ \E v : Unlocked(v) /\ b = [Bk EXCEPT !.source_policy = v]
    <3>1. /\ Unlocked(BuildReadOnlyPolicy(w.policy))
          /\ Unlocked(BuildSourceCopyGrantPolicy(w.policy))
      BY <1>0 DEF BuildReadOnlyPolicy, BuildSourceCopyGrantPolicy,
                  WithoutReadOnly, Unlocked
    <3>2. \/ \E v : Changed = [Bk EXCEPT !.probe = v]
          \/ \E v : Unlocked(v) /\ Changed = [Bk EXCEPT !.source_policy = v]
      <4>1. \/ Changed = [Bk EXCEPT !.probe = TRUE]
            \/ Changed = [Bk EXCEPT !.source_policy = BuildReadOnlyPolicy(w.policy)]
            \/ Changed = [Bk EXCEPT !.source_policy =
                            BuildSourceCopyGrantPolicy(w.policy)]
        BY DEF Changed
      <4>2. QED
        BY <3>1, <4>1
    <3>3. CASE UndoChange
      BY <1>0, <3>3 DEF UndoChange
    <3>4. CASE ApplyChange \/ CheckFault
      BY <1>4, <3>2, <3>4 DEF ApplyChange, CheckFault, SetBucket
    <3>5. QED
      BY <1>4, <3>3, <3>4
  <2>6. /\ Unlocked(b.source_policy) /\ b.target_policy = Bk.target_policy
        /\ b.target_by = Bk.target_by
    BY <2>2, <2>5 DEF BucketStates
  <2>7. QED
    BY <1>0, <2>1, <2>3, <2>4, <2>5, <2>6, PlainPlaces, BucketStepLocks
<1>5. QED
  BY <1>1, <1>2, <1>3, <1>4
     DEF Preparation, PreparationFaults, CheckItem, JournalEffect, ApplyChange,
         UndoChange, CheckFault, ReportChecks, ChecksInterrupted

\* A released bucket: a destination has no lock any more.
LEMMA ReleasedBucket ==
    ASSUME LockInv, NEW r \in Releases
    PROVE  LET b == bucket[r.item]
               q == Released(r)
           IN  /\ Unlocked(q.source_policy) /\ q.target_by = b.target_by
               /\ r.kind = "target" => Unlocked(q.target_policy)
               /\ r.kind = "source" => q.target_policy = b.target_policy
<1>1. /\ r.item \in Items /\ r.kind \in {"source", "target"}
      /\ bucket[r.item] \in BucketStates
      /\ RowUnlocked(item[r.item]) /\ Unlocked(bucket[r.item].source_policy)
  BY RowsUnlocked DEF Releases, LockInv, ItemLocks, BucketLocks
<1> DEFINE b == bucket[r.item]
<1>2. CASE r.kind = "source"
  <2>1. Released(r) = [b EXCEPT !.source_policy = item[r.item].ro_backup]
    BY <1>2 DEF Released, BucketOf
  <2>2. QED
    BY <1>1, <1>2, <2>1 DEF RowUnlocked, BucketStates
<1>3. CASE r.kind = "target"
  <2> DEFINE p == IF item[r.item].lock_backup # {} THEN item[r.item].lock_backup
                  ELSE b.target_policy \ {"LOCK"}
  <2>1. Released(r) = [b EXCEPT !.target_policy = p]
    BY <1>3 DEF Released, BucketOf
  <2>2. Unlocked(p)
    BY <1>1 DEF RowUnlocked, Unlocked
  <2> HIDE DEF p
  <2>3. QED
    BY <1>1, <1>3, <2>1, <2>2 DEF BucketStates
<1>4. QED
  BY <1>1, <1>2, <1>3

\* Releases, one bucket at a time, and the commits that record them.
LEMMA ReleaseLocks ==
    ASSUME LockInv, ProvenanceInv', Release \/ ReleaseFault PROVE LockInv'
<1>0. /\ w \in WorkerStates /\ mig \in MigrationRows /\ Unlocked(w.policy)
      /\ item \in [Items -> ItemRows] /\ bucket \in [Items -> BucketStates]
  BY RowsUnlocked
<1>1. CASE ReleaseProtection \/ ReleaseFault
  <2>1. PICK r \in w.todo, ok \in BOOLEAN :
          /\ Drop(r, ok)
          /\ \/ UNCHANGED bucket /\ ~ok
             \/ bucket' = [bucket EXCEPT ![r.item] = Released(r)]
    BY <1>1 DEF ReleaseProtection, ReleaseFault, PolicyVerified
  <2>2. r \in Releases /\ r.item \in Items /\ r.kind \in {"source", "target"}
    BY <1>0, <2>1 DEF WorkerStates, Releases
  <2>3. /\ w.pc = "release" /\ UNCHANGED <<mig, item>>
    BY <1>1 DEF ReleaseProtection, ReleaseFault
  <2>4. /\ w'.pc = "release" /\ w'.policy = w.policy
        /\ w'.released = IF ok THEN w.released \cup {r} ELSE w.released
    BY <1>0, <2>1, <2>3 DEF Drop, WorkerStates
  <2>5. \A i \in Items :
          /\ Unlocked(bucket'[i].source_policy)
          /\ bucket'[i].target_by = bucket[i].target_by
          /\ \/ bucket'[i].target_policy = bucket[i].target_policy
             \/ Unlocked(bucket'[i].target_policy)
    <3>1. \A i \in Items : Unlocked(bucket[i].source_policy)
      BY DEF LockInv, ItemLocks, BucketLocks
    <3>2. CASE UNCHANGED bucket
      BY <3>1, <3>2
    <3>3. CASE bucket' = [bucket EXCEPT ![r.item] = Released(r)]
      <4>1. \A i \in Items :
              bucket'[i] = IF i = r.item THEN Released(r) ELSE bucket[i]
        BY <1>0, <2>2, <3>3
      <4>2. QED
        BY <2>2, <3>1, <4>1, ReleasedBucket
    <3>4. QED
      BY <2>1, <3>2, <3>3
  <2>6. ItemLocks'
    BY <2>3, <2>5 DEF LockInv, ItemLocks, BucketLocks, Exists
  <2>7. \A q \in w'.released :
          q.kind = "target" => Unlocked(bucket'[q.item].target_policy)
    <3>1. ASSUME NEW q \in w.released, q.kind = "target"
          PROVE  Unlocked(bucket'[q.item].target_policy)
      <4>1. q.item \in Items
        BY <1>0 DEF WorkerStates, Releases
      <4>2. Unlocked(bucket[q.item].target_policy)
        BY <2>3, <3>1 DEF LockInv, LockPlaces
      <4>3. QED
        BY <2>5, <4>1, <4>2
    <3>2. CASE ok /\ r.kind = "target"
      <4>1. bucket'[r.item] = Released(r)
        BY <1>0, <2>1, <2>2, <3>2
      <4>2. Unlocked(bucket'[r.item].target_policy)
        BY <2>2, <3>2, <4>1, ReleasedBucket
      <4>3. QED
        BY <2>4, <3>1, <4>2
    <3>3. CASE ~(ok /\ r.kind = "target")
      BY <2>4, <3>1, <3>3
    <3>4. QED
      BY <3>2, <3>3
  <2>8. LockPlaces'
    BY <1>0, <2>4, <2>7 DEF LockPlaces, LockPcs
  <2>9. DraftUnlocked'
    BY <2>3 DEF LockInv, DraftUnlocked
  <2>10. QED
    BY <2>6, <2>8, <2>9 DEF LockInv
<1>2. CASE CommitCanceled \/ CommitFinished \/ CommitRestored
  <2>1. UNCHANGED bucket /\ w' = IdleWorker /\ w.pc = "release"
    BY <1>2 DEF CommitCanceled, CommitFinished, CommitRestored, EndRelease
  <2>2. ASSUME NEW i \in Items
        PROVE  /\ RowUnlocked(item'[i])
               /\ item'[i].locked => item[i].locked
               /\ ~Unlocked(bucket[i].target_policy) =>
                    item'[i].locked = item[i].locked
    <3> DEFINE u == Unprotected(i)
    <3>1. /\ u \in ItemRows /\ u.effects = item[i].effects
          /\ u.ro_backup \in {item[i].ro_backup, {}}
          /\ u.lock_backup \in {item[i].lock_backup, {}}
          /\ [kind |-> "target", item |-> i] \notin w.released =>
                u.locked = item[i].locked
          /\ u.locked => item[i].locked
      BY <1>0, UnprotectedRow
    <3>2. \/ item'[i] = u
          \/ item'[i] = [u EXCEPT !.status = "canceled"]
          \/ item'[i] = [u EXCEPT !.receipt = NoReceipt]
      BY <1>2 DEF CommitCanceled, CommitFinished, CommitRestored
    <3> HIDE DEF u
    <3>3. /\ item'[i].effects = u.effects /\ item'[i].ro_backup = u.ro_backup
          /\ item'[i].lock_backup = u.lock_backup /\ item'[i].locked = u.locked
      BY <3>1, <3>2 DEF ItemRows
    <3>4. RowUnlocked(item'[i])
      BY <3>1, <3>3, RowsUnlocked DEF RowUnlocked, Unlocked
    <3> DEFINE r == [kind |-> "target", item |-> i]
    <3>5. r \in w.released => Unlocked(bucket[i].target_policy)
      BY <2>1 DEF LockInv, LockPlaces
    <3>6. QED
      BY <3>1, <3>3, <3>4, <3>5
  <2>3. ItemLocks'
    BY <2>1, <2>2 DEF LockInv, ItemLocks, BucketLocks
  <2>4. LockPlaces'
    BY <1>0, <2>1, WorkerMoves DEF LockPlaces, LockPcs, Unlocked
  <2>5. mig'.status = "draft" => mig.status = "draft"
    BY <1>0, <1>2 DEF CommitCanceled, CommitFinished, CommitRestored, MigrationRows
  <2>6. DraftUnlocked'
    BY <2>2, <2>5 DEF LockInv, DraftUnlocked
  <2>7. QED
    BY <2>3, <2>4, <2>6 DEF LockInv
<1>3. QED
  BY <1>1, <1>2 DEF Release

\* Clients put no locks.
LEMMA ClientLocks == ASSUME LockInv, ProvenanceInv', Client PROVE LockInv'
<1>1. PICK i \in Items : \/ ClientWritesSource(i) \/ ClientWritesTarget(i)
                        \/ OtherCreatesTarget(i)
  BY DEF Client
<1>2. UNCHANGED <<mig, item, w>>
  BY <1>1 DEF ClientWritesSource, ClientWritesTarget, OtherCreatesTarget
<1>3. bucket \in [Items -> BucketStates]
  BY RowsUnlocked
<1>4. \A j \in Items :
        /\ bucket'[j].source_policy = bucket[j].source_policy
        /\ Exists(bucket[j]) => Exists(bucket'[j])
        /\ \/ Unlocked(bucket'[j].target_policy)
           \/ bucket'[j].target_policy = bucket[j].target_policy
  BY <1>1, <1>3 DEF ClientWritesSource, ClientWritesTarget, OtherCreatesTarget,
                    BucketStates, Exists, Unlocked
<1>5. ItemLocks'
  BY <1>2, <1>4 DEF LockInv, ItemLocks, BucketLocks
<1>6. /\ w.pc \in LockPcs => w.cur \in Items
      /\ w.pc = "cs_finish" => w.cur \in Items
      /\ \A r \in w.released : r.item \in Items
  <2>1. LockPcs \cup {"cs_finish"} \subseteq ItemPcs \cup (CleanupPcs \ {"cleanup"})
    BY DEF LockPcs, ItemPcs, OutsideItems, TransferPcs, CleanupPcs
  <2>2. QED
    BY <2>1, PlaceFacts, RowsUnlocked
       DEF LockInv, ProvenanceInv, WorkerStates, Releases
<1>7. LockPlaces'
  BY <1>2, <1>4, <1>6 DEF LockInv, LockPlaces, It, Bk
<1>8. DraftUnlocked'
  BY <1>2 DEF LockInv, DraftUnlocked
<1>9. QED
  BY <1>5, <1>7, <1>8 DEF LockInv

\* The first state has no locks.
LEMMA LockInit == Init => LockInv
<1> SUFFICES ASSUME Init PROVE LockInv
  OBVIOUS
<1>1. ProvenanceInv
  BY ProvenanceInit
<1>2. \A i \in Items :
        /\ item[i].ro_backup = {} /\ item[i].lock_backup = {}
        /\ item[i].effects = {} /\ item[i].locked = FALSE
  BY DEF Init, DraftItem
<1>3. \A i \in Items :
        bucket[i].source_policy \in {{}, {"own"}} /\ bucket[i].target_policy = {}
  BY DEF Init
<1>4. ItemLocks /\ DraftUnlocked
  BY <1>2, <1>3 DEF ItemLocks, DraftUnlocked, RowUnlocked, BucketLocks, Unlocked
<1>5. LockPlaces
  BY DEF Init, IdleWorker, LockPlaces, LockPcs, Unlocked
<1>6. QED
  BY <1>1, <1>4, <1>5 DEF LockInv

\* Every step keeps the invariant.
LEMMA LockNext == LockInv /\ [Next]_vars => LockInv'
<1> SUFFICES ASSUME LockInv, [Next]_vars PROVE LockInv'
  OBVIOUS
<1>0. ProvenanceInv'
  BY ProvenanceNext DEF LockInv
<1>1. CASE Command
  BY <1>0, <1>1, CommandLocks
<1>2. CASE Claim \/ ClaimPreparation \/ LeaseExpires \/ Crash
  BY <1>0, <1>2, LoopLocks
<1>3. CASE Transfer \/ TransferFaults \/ Revocation
  BY <1>0, <1>3, LoopLocks, RunRowLocks, RunBucketLocks, RunJournalLocks, RevokedLocks
     DEF Transfer, TransferFaults
<1>4. CASE Release \/ ReleaseFault
  BY <1>0, <1>4, ReleaseLocks
<1>5. CASE Maintenance \/ MaintenanceFaults
  BY <1>0, <1>5, RecoveryLocks, SourceCleanupLocks, TargetCleanupLocks
     DEF Maintenance, MaintenanceFaults
<1>6. CASE Preparation \/ PreparationFaults
  BY <1>0, <1>6, PreparationLocks
<1>7. CASE Client
  BY <1>0, <1>7, ClientLocks
<1>8. CASE UNCHANGED vars
  BY <1>0, <1>8 DEF vars, LockInv, ItemLocks, LockPlaces, DraftUnlocked, It, Bk
<1>9. QED
  BY <1>1, <1>2, <1>3, <1>4, <1>5, <1>6, <1>7, <1>8 DEF Next, Worker, Faults

\* No backup contains the lock, a lock is on a destination only with a record
\* of it, and what a release is about to record as released has no lock.
THEOREM LockInvariant == Spec => []LockInv
<1>1. Init => LockInv
  BY LockInit
<1>2. LockInv /\ [Next]_vars => LockInv'
  BY LockNext
<1>3. QED
  BY <1>1, <1>2, PTL DEF Spec

\* A destination carries the write lock only while its item records it
\* (target_lock_applied): restore_access finds every lock the engine put.
THEOREM LockRecordedAlways == Spec => []LockRecorded
<1>1. LockInv => LockRecorded
  BY DEF LockInv, ItemLocks, BucketLocks, Unlocked, LockRecorded
<1>2. QED
  BY <1>1, LockInvariant, PTL

(***************************************************************************)
(* Which steps leave the records of what was done to a source alone, and   *)
(* which the source itself.                                                *)
(***************************************************************************)
KeepsRecords(row, old) ==
    row.effects = old.effects /\ row.ro = old.ro /\ row.ro_backup = old.ro_backup
SameRecords == \A i \in Items : KeepsRecords(item'[i], item[i])

KeepsSource(b, old) ==
    /\ b.source_policy = old.source_policy /\ b.probe = old.probe
    /\ b.source_exists = old.source_exists
SameSources == \A i \in Items : KeepsSource(bucket'[i], bucket[i])

\* The edits of a row that are not about its source.
LEMMA RowEdits ==
    ASSUME NEW old \in ItemRows, NEW v, NEW u
    PROVE  /\ KeepsRecords([old EXCEPT !.status = v], old)
           /\ KeepsRecords([old EXCEPT !.step = v], old)
           /\ KeepsRecords([old EXCEPT !.receipt = v], old)
           /\ KeepsRecords([old EXCEPT !.created = TRUE], old)
           /\ KeepsRecords([old EXCEPT !.status = v, !.step = u], old)
           /\ KeepsRecords([old EXCEPT !.locked = TRUE, !.lock_backup = v], old)
           /\ KeepsRecords([old EXCEPT !.locked = FALSE, !.lock_backup = {}], old)
           /\ KeepsRecords([old EXCEPT !.status = "failed", !.locked = FALSE,
                                       !.lock_backup = {}], old)
           /\ KeepsRecords([old EXCEPT !.pre_sync_done = TRUE,
                                       !.status = "awaiting_cutover",
                                       !.step = "awaiting_cutover"], old)
           /\ KeepsRecords([old EXCEPT !.created = FALSE, !.locked = FALSE,
                                       !.lock_backup = {}, !.pre_sync_done = FALSE,
                                       !.step = "create_bucket"], old)
           /\ KeepsRecords(old, old)
  BY DEF ItemRows, KeepsRecords

\* A step on the row of the item under way.
LEMMA OneRowSame ==
    ASSUME TypeInv, NEW row, SetItem(row), w.cur \in Items => KeepsRecords(row, It)
    PROVE  SameRecords
<1>1. item \in [Items -> ItemRows]
  BY DEF TypeInv, TypeOK
<1>2. \A i \in Items : item'[i] = IF i = w.cur THEN row ELSE item[i]
  BY <1>1 DEF SetItem
<1>3. QED
  BY <1>1, <1>2 DEF SameRecords, KeepsRecords, It

\* The steps that write the row of the item under way.
LEMMA RowStepsSame ==
    ASSUME TypeInv,
           \/ ExecuteItem \/ RunItem \/ ItemLoop \/ LookForTarget \/ CreateBucket
           \/ RecordTargetCreated \/ FinishCreateBucket \/ FinishCopyBucketSettings
           \/ ApplyTargetLock \/ FinishTargetLock \/ TargetLockRefused
           \/ FinishSync \/ AwaitCutover \/ FinishReadOnly \/ VerifyRead
           \/ VerifyCompare \/ VerifyInterrupted \/ StrongVerificationFails
           \/ CompleteItem \/ TransferFault \/ FailRevokedItem
           \/ CleanupLockTarget \/ CleanupHashSource \/ FinishSourceCleanup
           \/ LockFailedTarget \/ FinishTargetCleanup
    PROVE  SameRecords
<1>0. w.cur \in Items => It \in ItemRows
  BY DEF TypeInv, TypeOK, It
<1>1. CASE UNCHANGED item
  BY <1>1 DEF SameRecords, KeepsRecords
<1>2. CASE \E v : \/ SetItem([It EXCEPT !.status = v])
                  \/ SetItem([It EXCEPT !.step = v])
                  \/ SetItem([It EXCEPT !.receipt = v])
                  \/ SetItem([It EXCEPT !.created = TRUE])
                  \/ \E u : SetItem([It EXCEPT !.status = v, !.step = u])
  <2>1. PICK v, u : \/ SetItem([It EXCEPT !.status = v])
                    \/ SetItem([It EXCEPT !.step = v])
                    \/ SetItem([It EXCEPT !.receipt = v])
                    \/ SetItem([It EXCEPT !.created = TRUE])
                    \/ SetItem([It EXCEPT !.status = v, !.step = u])
    BY <1>2
  <2>2. w.cur \in Items =>
          /\ KeepsRecords([It EXCEPT !.status = v], It)
          /\ KeepsRecords([It EXCEPT !.step = v], It)
          /\ KeepsRecords([It EXCEPT !.receipt = v], It)
          /\ KeepsRecords([It EXCEPT !.created = TRUE], It)
          /\ KeepsRecords([It EXCEPT !.status = v, !.step = u], It)
    BY <1>0, RowEdits
  <2>3. QED
    BY <2>1, <2>2, OneRowSame
<1>3. CASE \/ \E v : SetItem([It EXCEPT !.locked = TRUE, !.lock_backup = v])
           \/ SetItem([It EXCEPT !.locked = FALSE, !.lock_backup = {}])
           \/ SetItem([It EXCEPT !.status = "failed", !.locked = FALSE,
                                 !.lock_backup = {}])
           \/ SetItem([It EXCEPT !.pre_sync_done = TRUE,
                                 !.status = "awaiting_cutover",
                                 !.step = "awaiting_cutover"])
           \/ SetItem([It EXCEPT !.created = FALSE, !.locked = FALSE,
                                 !.lock_backup = {}, !.pre_sync_done = FALSE,
                                 !.step = "create_bucket"])
  <2>1. CASE \E v : SetItem([It EXCEPT !.locked = TRUE, !.lock_backup = v])
    BY <1>0, <2>1, RowEdits, OneRowSame
  <2>2. CASE ~ \E v : SetItem([It EXCEPT !.locked = TRUE, !.lock_backup = v])
    <3>1. w.cur \in Items =>
          /\ KeepsRecords([It EXCEPT !.locked = FALSE, !.lock_backup = {}], It)
          /\ KeepsRecords([It EXCEPT !.status = "failed", !.locked = FALSE,
                                     !.lock_backup = {}], It)
          /\ KeepsRecords([It EXCEPT !.pre_sync_done = TRUE,
                                     !.status = "awaiting_cutover",
                                     !.step = "awaiting_cutover"], It)
          /\ KeepsRecords([It EXCEPT !.created = FALSE, !.locked = FALSE,
                                     !.lock_backup = {}, !.pre_sync_done = FALSE,
                                     !.step = "create_bucket"], It)
      BY <1>0, RowEdits
    <3>2. QED
      BY <1>3, <2>2, <3>1, OneRowSame
  <2>3. QED
    BY <2>1, <2>2
<1>4. CASE \/ ExecuteItem \/ ItemLoop \/ LookForTarget \/ CreateBucket
           \/ RecordTargetCreated \/ FinishCreateBucket \/ FinishCopyBucketSettings
           \/ FinishTargetLock \/ AwaitCutover \/ FinishReadOnly \/ VerifyRead
           \/ VerifyCompare \/ VerifyInterrupted \/ StrongVerificationFails
           \/ CompleteItem \/ TransferFault \/ FailRevokedItem
           \/ CleanupHashSource
  BY <1>1, <1>2, <1>4
     DEF ExecuteItem, ItemLoop, LookForTarget, CreateBucket, RecordTargetCreated,
         FinishCreateBucket, FinishCopyBucketSettings, FinishTargetLock,
         AwaitCutover, FinishReadOnly, VerifyRead, VerifyCompare, VerifyInterrupted,
         StrongVerificationFails, CompleteItem, TransferFault, FailRevokedItem,
         CleanupHashSource, CleanupRefused, FailItem, AdvanceTo,
         StopInterruptedItem
<1>5. CASE \/ RunItem \/ ApplyTargetLock \/ TargetLockRefused
           \/ CleanupLockTarget \/ FinishSourceCleanup \/ LockFailedTarget
           \/ FinishTargetCleanup
  BY <1>1, <1>3, <1>5
     DEF RunItem, ApplyTargetLock, TargetLockRefused, CleanupLockTarget,
         FinishSourceCleanup, LockFailedTarget, FinishTargetCleanup,
         CleanupRefused, JournalTargetLock
<1>6. CASE FinishSync
  BY <1>2, <1>3, <1>6 DEF FinishSync, StopInterruptedItem
<1>7. QED
  BY <1>4, <1>5, <1>6

\* The steps that touch no row, or the statuses of many.
LEMMA OtherRowsSame ==
    ASSUME TypeInv,
           \/ BeginTransfer \/ CancelRun \/ SeePause \/ PauseRun \/ SkipItem
           \/ ItemsDone \/ FinalCheck \/ Finalize \/ FatalError
           \/ CreatorAccessRevoked \/ RestoreRevokedGrant \/ RevokedGrantFault
           \/ RevokedAgain \/ RevokedRunEnds
           \/ PutTargetLock("relock_put", "loop") \/ PutTargetLock("lock_put", "lock_done")
           \/ CopyBucketSettings \/ BeginSync \/ PutSourceCopyGrant \/ SyncCopy
           \/ SyncWrite \/ SyncInterrupted \/ RestoreGrantedPolicy
           \/ PutReadOnly("read_only_put", "read_only_done")
           \/ Claim \/ ClaimPreparation \/ LeaseExpires \/ Crash \/ Client
    PROVE  SameRecords
<1>1. CASE UNCHANGED item
  BY <1>1 DEF SameRecords, KeepsRecords
<1>2. CASE PauseRun \/ FatalError
  <2> SUFFICES ASSUME NEW i \in Items PROVE KeepsRecords(item'[i], item[i])
    BY DEF SameRecords
  <2>1. item[i] \in ItemRows
    BY DEF TypeInv, TypeOK
  <2>2. item'[i] = item[i] \/ \E v : item'[i] = [item[i] EXCEPT !.status = v]
    BY <1>2 DEF PauseRun, FatalError
  <2>3. QED
    BY <2>1, <2>2, RowEdits
<1>3. QED
  BY <1>1, <1>2
     DEF BeginTransfer, CancelRun, SeePause, SkipItem, ItemsDone, FinalCheck,
         Finalize, CreatorAccessRevoked, RestoreRevokedGrant, RevokedGrantFault,
         RevokedAgain, RevokedRunEnds, PutTargetLock, CopyBucketSettings, BeginSync,
         PutSourceCopyGrant, SyncCopy, SyncWrite, SyncInterrupted,
         RestoreGrantedPolicy, PutReadOnly, Claim, ClaimPreparation,
         LeaseExpires, Crash, Client, ClientWritesSource, ClientWritesTarget,
         OtherCreatesTarget

(***************************************************************************)
(* A transfer never builds on a temporary change that is outstanding.      *)
(***************************************************************************)
GrantPcs == {"grant_put", "sync_copy", "sync_write", "grant_restore", "grant_clear"}

\* The only entry a run may have open for the item under way is its own grant,
\* from the journal to the end of the copy.
StaleInv ==
    /\ ControlInv
    /\ w.pc \in ItemPcs \ GrantPcs => It.effects = {}
    /\ w.pc \in GrantPcs => \A e \in It.effects : e.name = "source_copy_grant"
    /\ w.pc \in {"sync_copy", "sync_write"} /\ ~opt.grant => It.effects = {}
    /\ w.pc \in {"grant_journal", "grant_put", "grant_restore", "grant_clear"}
         => opt.grant

\* A step to a place where no item is under way.
LEMMA StaleOutside ==
    ASSUME ControlInv', w'.pc \notin ItemPcs PROVE StaleInv'
<1>1. GrantPcs \cup {"grant_journal"} \subseteq ItemPcs
  BY DEF GrantPcs, ItemPcs, OutsideItems, TransferPcs, ItemSteps
<1>2. QED
  BY <1>1 DEF StaleInv, GrantPcs

\* A step that ends where the item under way has no entry.
LEMMA StaleClean ==
    ASSUME ControlInv', It.effects = {}, SameRecords, w.cur \in Items,
           w'.cur = w.cur, UNCHANGED opt,
           \/ w'.pc \notin GrantPcs \cup {"grant_journal"}
           \/ w'.pc \in {"sync_copy", "sync_write"}
           \/ opt.grant
    PROVE  StaleInv'
<1>1. It'.effects = {}
  BY DEF SameRecords, KeepsRecords, It
<1>2. QED
  BY <1>1 DEF StaleInv, GrantPcs

\* Where the steps of a worker lead.
LEMMA RunMoves ==
    ASSUME w \in WorkerStates
    PROVE  /\ NextItem => w'.pc = "items"
           /\ \A pc : Goto(pc) => w'.pc = pc /\ w'.cur = w.cur
           /\ \A step : AdvanceTo(step) => w'.pc = "loop" /\ w'.cur = w.cur
           /\ \A reason : LeaveSync(reason) =>
                /\ w'.cur = w.cur
                /\ w'.pc = IF opt.grant THEN "grant_restore" ELSE "sync_done"
  BY DEF NextItem, Goto, AdvanceTo, LeaveSync, WorkerStates

LEMMA PolicyMoves ==
    ASSUME w \in WorkerStates, NEW pc, NEW p, NEW v,
           \/ w' = [w EXCEPT !.pc = pc, !.policy = p]
           \/ w' = [w EXCEPT !.pc = pc, !.policy = p, !.receipt = v]
    PROVE  w'.pc = pc /\ w'.cur = w.cur /\ w'.policy = p
  BY DEF WorkerStates

LEMMA OtherMoves ==
    ASSUME w \in WorkerStates
    PROVE  /\ \A failed : NextCleanup(failed) => w'.pc = "cleanup"
           /\ \A then, todo : StartRelease(then, todo) => w'.pc = "release"
           /\ \A r, ok : Drop(r, ok) => w'.pc = w.pc
           /\ IdleWorker.pc = "idle"
<1>1. /\ \A failed : NextCleanup(failed) => w'.pc = "cleanup"
      /\ \A then, todo : StartRelease(then, todo) => w'.pc = "release"
  BY DEF NextCleanup, StartRelease, WorkerStates
<1>2. \A r, ok : Drop(r, ok) => w'.pc = w.pc
  BY DEF Drop, WorkerStates
<1>3. IdleWorker.pc = "idle"
  BY DEF IdleWorker
<1>4. QED
  BY <1>1, <1>2, <1>3

\* The places of an item at which it has no entry of its own.
PlainItemPcs ==
    ItemSteps \cup
      {"loop", "relock_put", "bucket_absent", "bucket_created", "bucket_ready",
       "settings_copied", "lock_put", "lock_done", "sync_done", "sync_copy",
       "read_only_done", "verify_compare", "verified"}

\* Where the steps on an item lead, grants and the read-only policy apart.
LEMMA ItemMoves ==
    ASSUME ControlInv,
           \/ RunItem \/ PutTargetLock("relock_put", "loop") \/ ItemLoop
           \/ LookForTarget \/ CreateBucket \/ RecordTargetCreated
           \/ FinishCreateBucket \/ CopyBucketSettings \/ FinishCopyBucketSettings
           \/ ApplyTargetLock \/ PutTargetLock("lock_put", "lock_done")
           \/ FinishTargetLock \/ TargetLockRefused \/ BeginSync
           \/ FinishSync \/ AwaitCutover
           \/ PutReadOnly("read_only_put", "read_only_done") \/ FinishReadOnly
           \/ VerifyRead \/ VerifyCompare \/ VerifyInterrupted
           \/ StrongVerificationFails \/ CompleteItem
    PROVE  /\ w.pc \in ItemPcs \ GrantPcs /\ w.cur \in Items
           /\ \/ w'.pc = "items"
              \/ /\ w'.cur = w.cur
                 /\ \/ w'.pc \in PlainItemPcs
                    \/ opt.grant /\ w'.pc = "grant_journal"
           /\ w'.pc = "verify_compare" => VerifyRead
           /\ w'.pc = "verified" => VerifyCompare
           /\ w'.pc = "bucket_created" => CreateBucket
<1>0. w \in WorkerStates /\ item \in [Items -> ItemRows]
  BY PlaceFacts
<1>a. w.pc \in ItemPcs \ GrantPcs
  BY DEF RunItem, PutTargetLock, ItemLoop,
     LookForTarget, CreateBucket, RecordTargetCreated, FinishCreateBucket,
     CopyBucketSettings, FinishCopyBucketSettings, ApplyTargetLock,
     FinishTargetLock, TargetLockRefused, BeginSync, FinishSync, AwaitCutover,
     PutReadOnly, FinishReadOnly, VerifyRead, VerifyCompare, VerifyInterrupted,
     StrongVerificationFails, CompleteItem,
     ItemPcs, OutsideItems, TransferPcs, ItemSteps, GrantPcs
<1>1. w.cur \in Items
  BY <1>a, PlaceFacts
<1>2. /\ \/ w'.pc = "items"
         \/ /\ w'.cur = w.cur
            /\ \/ w'.pc \in PlainItemPcs
               \/ opt.grant /\ w'.pc = "grant_journal"
      /\ w'.pc = "verify_compare" => VerifyRead
      /\ w'.pc = "verified" => VerifyCompare
      /\ w'.pc = "bucket_created" => CreateBucket
  <2>1. CASE \/ RunItem \/ PutTargetLock("relock_put", "loop")
             \/ LookForTarget \/ CreateBucket \/ RecordTargetCreated
             \/ FinishCreateBucket \/ CopyBucketSettings \/ FinishCopyBucketSettings
             \/ ApplyTargetLock \/ PutTargetLock("lock_put", "lock_done")
             \/ FinishTargetLock \/ TargetLockRefused
    <3>1. \/ NextItem
          \/ \E pc \in {"loop", "bucket_absent", "bucket_ready", "bucket_created",
                        "settings_copied", "lock_done"} : Goto(pc)
          \/ \E pc \in {"relock_put", "lock_put"} :
               w' = [w EXCEPT !.pc = pc, !.policy = Bk.target_policy]
      BY <2>1
         DEF RunItem, PutTargetLock, LookForTarget, CreateBucket,
             RecordTargetCreated, FinishCreateBucket, CopyBucketSettings,
             FinishCopyBucketSettings, ApplyTargetLock, FinishTargetLock,
             TargetLockRefused, FailItem, AdvanceTo
    <3>2. CASE NextItem
      BY <1>0, <3>2, RunMoves
    <3>3. ASSUME NEW pc \in {"loop", "bucket_absent", "bucket_ready",
                    "bucket_created", "settings_copied", "lock_done"}, Goto(pc)
          PROVE  w'.cur = w.cur /\ w'.pc = pc /\ pc \in PlainItemPcs
      BY <1>0, <3>3, RunMoves DEF PlainItemPcs
    <3>4. ASSUME NEW pc \in {"relock_put", "lock_put"},
                 w' = [w EXCEPT !.pc = pc, !.policy = Bk.target_policy]
          PROVE  w'.cur = w.cur /\ w'.pc = pc /\ pc \in PlainItemPcs
      BY <1>0, <3>4, PolicyMoves DEF PlainItemPcs
    <3>a. Goto("bucket_created") => CreateBucket
      BY <1>0, <2>1
         DEF RunItem, PutTargetLock, LookForTarget, CreateBucket,
             RecordTargetCreated, FinishCreateBucket, CopyBucketSettings,
             FinishCopyBucketSettings, ApplyTargetLock, FinishTargetLock,
             TargetLockRefused, FailItem, AdvanceTo, NextItem, Goto, WorkerStates
    <3>5. QED
      BY <3>1, <3>2, <3>3, <3>4, <3>a
  <2>3. CASE ItemLoop
    <3>1. It.step \in ItemSteps
      BY <1>0, <1>1 DEF It, ItemRows
    <3>2. QED
      BY <1>0, <2>3, <3>1, RunMoves DEF ItemLoop, PlainItemPcs, ItemSteps
  <2>4. CASE BeginSync
    <3>1. \/ w' = [w EXCEPT !.pc = "sync_done",
                       !.then = IF ControlState = "run" THEN "done" ELSE "interrupted"]
          \/ opt.grant /\ w' = [w EXCEPT !.pc = "grant_journal", !.snap = Bk.source]
          \/ w' = [w EXCEPT !.pc = "sync_copy", !.snap = Bk.source]
      BY <2>4 DEF BeginSync
    <3>2. /\ w'.cur = w.cur
          /\ \/ w'.pc \in {"sync_done", "sync_copy"}
             \/ opt.grant /\ w'.pc = "grant_journal"
      BY <1>0, <3>1 DEF WorkerStates
    <3>3. QED
      BY <3>2 DEF PlainItemPcs
  <2>5. CASE FinishSync \/ VerifyRead
    <3>1. \/ NextItem
          \/ w' = [w EXCEPT !.pc = "loop", !.then = "none"]
          \/ w' = [w EXCEPT !.pc = "verify_compare", !.snap = Bk.source]
      BY <2>5 DEF FinishSync, VerifyRead, StopInterruptedItem
    <3>2. \/ w'.pc = "items"
          \/ w'.cur = w.cur /\ w'.pc \in {"loop", "verify_compare"}
      BY <1>0, <3>1, RunMoves DEF WorkerStates
    <3>a. w'.pc = "verify_compare" => VerifyRead
      BY <1>0, <2>5, RunMoves DEF FinishSync, StopInterruptedItem, WorkerStates
    <3>3. QED
      BY <3>2, <3>a DEF PlainItemPcs
  <2>6. CASE \/ AwaitCutover \/ PutReadOnly("read_only_put", "read_only_done")
             \/ FinishReadOnly \/ VerifyCompare \/ VerifyInterrupted
             \/ StrongVerificationFails \/ CompleteItem
    BY <1>0, <2>6, RunMoves
       DEF AwaitCutover, PutReadOnly, FinishReadOnly, VerifyCompare,
           VerifyInterrupted, StrongVerificationFails, CompleteItem, FailItem,
           StopInterruptedItem, PlainItemPcs
  <2>7. QED
    BY <2>1, <2>3, <2>4, <2>5, <2>6
<1>3. QED
  BY <1>a, <1>1, <1>2

\* The steps on an item whose entries are none of their concern.
LEMMA ItemStepsStale ==
    ASSUME StaleInv, ControlInv',
           \/ RunItem \/ PutTargetLock("relock_put", "loop") \/ ItemLoop
           \/ LookForTarget \/ CreateBucket \/ RecordTargetCreated
           \/ FinishCreateBucket \/ CopyBucketSettings \/ FinishCopyBucketSettings
           \/ ApplyTargetLock \/ PutTargetLock("lock_put", "lock_done")
           \/ FinishTargetLock \/ TargetLockRefused \/ BeginSync
           \/ FinishSync \/ AwaitCutover
           \/ PutReadOnly("read_only_put", "read_only_done") \/ FinishReadOnly
           \/ VerifyRead \/ VerifyCompare \/ VerifyInterrupted
           \/ StrongVerificationFails \/ CompleteItem
    PROVE  StaleInv'
<1>0. /\ w \in WorkerStates /\ TypeInv /\ ControlInv /\ UNCHANGED opt
      /\ item \in [Items -> ItemRows]
  BY PlaceFacts DEF StaleInv, ControlInv, RunItem, PutTargetLock, ItemLoop,
     LookForTarget, CreateBucket, RecordTargetCreated, FinishCreateBucket,
     CopyBucketSettings, FinishCopyBucketSettings, ApplyTargetLock,
     FinishTargetLock, TargetLockRefused, BeginSync, FinishSync, AwaitCutover,
     PutReadOnly, FinishReadOnly, VerifyRead, VerifyCompare, VerifyInterrupted,
     StrongVerificationFails, CompleteItem
<1>1. /\ w.pc \in ItemPcs \ GrantPcs /\ w.cur \in Items
      /\ \/ w'.pc = "items"
         \/ /\ w'.cur = w.cur
            /\ \/ w'.pc \in PlainItemPcs
               \/ opt.grant /\ w'.pc = "grant_journal"
  BY <1>0, ItemMoves
<1>2. It.effects = {}
  BY <1>1 DEF StaleInv
<1>3. SameRecords
  BY <1>0, RowStepsSame, OtherRowsSame
<1>4. /\ "items" \notin ItemPcs
      /\ PlainItemPcs \cap (GrantPcs \cup {"grant_journal"}) = {"sync_copy"}
  BY QuietPlaces DEF PlainItemPcs, GrantPcs, ItemSteps
<1>5. QED
  BY <1>0, <1>1, <1>2, <1>3, <1>4, StaleOutside, StaleClean

\* The copy with its grant, the read-only policy, and faults.
LEMMA GrantStepsStale ==
    ASSUME StaleInv, ControlInv',
           \/ JournalGrant \/ PutSourceCopyGrant \/ SyncCopy \/ SyncWrite
           \/ SyncInterrupted \/ RestoreGrantedPolicy \/ ClearGrantEffect
           \/ ApplyReadOnly \/ TransferFault \/ ExecuteItem
    PROVE  StaleInv'
<1>0. /\ w \in WorkerStates /\ TypeInv /\ ControlInv /\ UNCHANGED opt
      /\ item \in [Items -> ItemRows]
  BY PlaceFacts DEF StaleInv, ControlInv, JournalGrant, PutSourceCopyGrant,
     SyncCopy, SyncWrite, SyncInterrupted, RestoreGrantedPolicy,
     ClearGrantEffect, ApplyReadOnly, TransferFault, ExecuteItem
<1>c. w.cur \in Items
  <2>1. CASE ExecuteItem
    BY <1>0, <2>1, LoopIndex DEF ExecuteItem, WorkerStates
  <2>2. CASE ~ExecuteItem
    <3>1. w.pc \in ItemPcs
      BY <2>2 DEF JournalGrant, PutSourceCopyGrant, SyncCopy, SyncWrite,
         SyncInterrupted, RestoreGrantedPolicy, ClearGrantEffect, ApplyReadOnly,
         TransferFault, ItemPcs, OutsideItems, TransferPcs, ItemSteps
    <3>2. QED
      BY <1>0, <3>1, PlaceFacts
  <2>3. QED
    BY <2>1, <2>2
<1>r. It = item[w.cur] /\ It \in ItemRows
  BY <1>0, <1>c DEF It
<1>i. "items" \notin ItemPcs
  BY QuietPlaces
<1>1. CASE JournalGrant
  <2>1. It.effects = {} /\ opt.grant
    BY <1>1 DEF JournalGrant, StaleInv, ItemPcs, OutsideItems, TransferPcs, GrantPcs
  <2>2. /\ It'.effects = {GrantEffect(Bk.source_policy)}
        /\ w'.pc = "grant_put" /\ w'.cur = w.cur
    BY <1>0, <1>1, <1>c, <1>r, <2>1
       DEF JournalGrant, SetItem, It, ItemRows, WorkerStates
  <2>3. \A e \in It'.effects : e.name = "source_copy_grant"
    BY <2>2 DEF GrantEffect
  <2>4. QED
    BY <1>0, <2>1, <2>2, <2>3 DEF StaleInv, GrantPcs
<1>2. CASE \/ PutSourceCopyGrant \/ SyncCopy \/ SyncWrite \/ SyncInterrupted
           \/ RestoreGrantedPolicy \/ (TransferFault /\ InGrant)
  <2>1. It'.effects = It.effects /\ w'.cur = w.cur
    <3>1. SameRecords /\ w'.cur = w.cur
      BY <1>0, <1>2, RunMoves, OtherRowsSame, RowStepsSame
         DEF PutSourceCopyGrant, SyncCopy, SyncWrite, SyncInterrupted,
             RestoreGrantedPolicy, TransferFault
    <3>2. QED
      BY <1>c, <3>1 DEF SameRecords, KeepsRecords, It
  <2>2. /\ w.pc \in GrantPcs
        /\ \/ w'.pc \in {"sync_copy", "sync_write"} /\ w.pc \in {"sync_copy", "sync_write"}
           \/ w'.pc \in GrantPcs /\ opt.grant
           \/ w'.pc = "sync_done" /\ ~opt.grant /\ w.pc \in {"sync_copy", "sync_write"}
    <3>1. CASE PutSourceCopyGrant \/ SyncCopy \/ RestoreGrantedPolicy
      BY <1>0, <3>1, RunMoves DEF PutSourceCopyGrant, SyncCopy,
         RestoreGrantedPolicy, StaleInv, GrantPcs
    <3>2. CASE SyncWrite \/ SyncInterrupted
      BY <1>0, <3>2, RunMoves DEF SyncWrite, SyncInterrupted, GrantPcs
    <3>3. CASE TransferFault /\ InGrant
      BY <1>0, <3>3, RunMoves DEF TransferFault, InGrant, GrantPcs
    <3>4. QED
      BY <1>2, <3>1, <3>2, <3>3
  <2>3. QED
    BY <1>0, <2>1, <2>2 DEF StaleInv, GrantPcs
<1>3. CASE ClearGrantEffect
  <2> DEFINE row == [It EXCEPT !.effects =
                       {e \in It.effects : e.name # "source_copy_grant"}]
             failed == [row EXCEPT !.status = "failed"]
  <2>1. \A e \in It.effects : e.name = "source_copy_grant"
    BY <1>3 DEF ClearGrantEffect, StaleInv, GrantPcs
  <2>2. row.effects = {} /\ failed.effects = {}
    BY <1>r, <2>1 DEF ItemRows
  <2>3. SetItem(row) \/ SetItem(failed)
    BY <1>3 DEF ClearGrantEffect
  <2>4. w'.pc = "items" \/ (w'.pc = "sync_done" /\ w'.cur = w.cur)
    BY <1>0, <1>3, RunMoves DEF ClearGrantEffect
  <2> HIDE DEF row, failed
  <2>5. w'.cur = w.cur => It'.effects = {}
    BY <1>0, <1>c, <2>2, <2>3 DEF SetItem, It
  <2>6. CASE w'.pc = "items"
    BY <1>i, <2>6, StaleOutside
  <2>7. CASE w'.pc = "sync_done" /\ w'.cur = w.cur
    BY <2>5, <2>7 DEF StaleInv, GrantPcs
  <2>8. QED
    BY <2>4, <2>6, <2>7
<1>4. CASE ApplyReadOnly
  <2>1. It.effects = {}
    BY <1>4 DEF ApplyReadOnly, StaleInv, ItemPcs, OutsideItems, ItemSteps, GrantPcs
  <2>2. JournalReadOnly(It).effects = {}
    BY <1>r, <2>1 DEF JournalReadOnly, ItemRows
  <2>3. w'.pc = "read_only_put" /\ w'.cur = w.cur
    BY <1>0, <1>4 DEF ApplyReadOnly, WorkerStates
  <2>4. It'.effects = {}
    BY <1>0, <1>4, <1>c, <2>2, <2>3 DEF ApplyReadOnly, SetItem, It
  <2>5. QED
    BY <2>3, <2>4 DEF StaleInv, GrantPcs
<1>5. CASE TransferFault /\ ~InGrant
  BY <1>0, <1>5, <1>i, RunMoves, StaleOutside DEF TransferFault, FailItem
<1>6. CASE ExecuteItem
  <2>1. CASE TransferPreconditions(w.cur)
    <3>1. It.effects = {}
      BY <1>6, <1>r, <2>1 DEF ExecuteItem, TransferPreconditions
    <3>2. w'.pc = "item" /\ w'.cur = w.cur
      BY <1>0, <1>6, <2>1, RunMoves DEF ExecuteItem
    <3>3. SameRecords
      BY <1>0, <1>6, RowStepsSame
    <3>4. QED
      BY <1>0, <1>c, <3>1, <3>2, <3>3, StaleClean DEF GrantPcs
  <2>2. CASE ~TransferPreconditions(w.cur)
    BY <1>0, <1>6, <1>i, <2>2, RunMoves, StaleOutside DEF ExecuteItem, FailItem
  <2>3. QED
    BY <2>1, <2>2
<1>7. QED
  BY <1>1, <1>2, <1>3, <1>4, <1>5, <1>6

\* Everything else happens where no item is under way.
LEMMA OutsideMoves ==
    ASSUME ControlInv,
           \/ BeginTransfer \/ CancelRun \/ SeePause \/ PauseRun \/ SkipItem
           \/ ItemsDone \/ FinalCheck \/ Finalize \/ FatalError
           \/ CreatorAccessRevoked \/ Revocation \/ RevokedGrantFault
           \/ Release \/ ReleaseFault \/ Maintenance \/ MaintenanceFaults
           \/ Preparation \/ PreparationFaults
           \/ Claim \/ ClaimPreparation \/ LeaseExpires \/ Crash
    PROVE  /\ w'.pc \notin ItemPcs
           /\ \/ w'.pc \notin RevokedPcs \/ UNCHANGED w
              \/ CreatorAccessRevoked \/ Revocation \/ RevokedGrantFault
<1>0. w \in WorkerStates
  BY PlaceFacts
<1>p. RevokedPcs \cap ({"idle", "start", "items", "final", "pausing", "finalize",
                       "release", "recover", "recover_clear"}
                        \cup CleanupPcs \cup CheckPcs) = {}
  BY DEF RevokedPcs, CleanupPcs, CheckPcs
<1>l. CASE LeaseExpires
  BY <1>l, PlaceFacts, RevokedApart DEF LeaseExpires
<1>r. CASE CreatorAccessRevoked \/ Revocation \/ RevokedGrantFault
  <2>1. w'.pc \in {"idle"} \cup RevokedPcs
    BY <1>0, <1>r, RunMoves, OtherMoves, RevokedApart
       DEF CreatorAccessRevoked, Revocation, RestoreRevokedGrant,
           ClearRevokedGrant, FailRevokedItem, RevokedAgain, RevokedRunEnds,
           RevokedGrantFault
  <2>2. QED
    BY <1>r, <2>1, RevokedApart
<1>1. CASE \/ BeginTransfer \/ CancelRun \/ SeePause \/ PauseRun \/ SkipItem
           \/ ItemsDone \/ FinalCheck \/ Finalize \/ FatalError
           \/ Claim \/ ClaimPreparation \/ Crash
  <2>1. w'.pc \in {"idle", "start", "items", "final", "pausing", "finalize",
                   "release", "recover"}
    <3>1. CASE \/ BeginTransfer \/ CancelRun \/ SeePause \/ PauseRun \/ SkipItem
               \/ ItemsDone \/ FinalCheck \/ Finalize \/ FatalError \/ Crash
      BY <1>0, <3>1, RunMoves, OtherMoves
         DEF BeginTransfer, CancelRun, SeePause, PauseRun, SkipItem, ItemsDone,
             FinalCheck, Finalize, FatalError, Crash
    <3>2. CASE Claim \/ ClaimPreparation
      BY <3>2 DEF Claim, ClaimPreparation, IdleWorker
    <3>3. QED
      BY <1>1, <3>1, <3>2
  <2>2. QED
    BY <1>p, <2>1, QuietPlaces
<1>2. CASE Release \/ ReleaseFault
  <2>1. w'.pc \in {"idle", "release"}
    BY <1>0, <1>2, OtherMoves
       DEF Release, ReleaseFault, ReleaseProtection, CommitCanceled,
           CommitFinished, CommitRestored
  <2>2. QED
    BY <1>p, <2>1, QuietPlaces
<1>3. CASE Preparation \/ PreparationFaults
  <2>1. w'.pc \in {"idle"} \cup CheckPcs
    <3>1. CASE CheckItem \/ JournalEffect \/ ApplyChange \/ UndoChange \/ ClearEffect
      BY <1>0, <3>1, WorkerMoves
         DEF CheckItem, JournalEffect, ApplyChange, UndoChange, ClearEffect,
             WorkerStates, CheckPcs
    <3>2. CASE ReportChecks \/ CheckFault \/ ChecksInterrupted
      BY <1>0, <3>2, WorkerMoves DEF ReportChecks, CheckFault, ChecksInterrupted
    <3>3. QED
      BY <1>3, <3>1, <3>2 DEF Preparation, PreparationFaults
  <2>2. QED
    BY <1>p, <2>1, QuietPlaces
<1>4. CASE Maintenance \/ MaintenanceFaults
  <2>1. w'.pc \in {"idle", "recover", "recover_clear", "release", "check_item"}
                    \cup CleanupPcs
    <3>1. CASE \/ BeginMaintenance \/ RecoverEffect \/ ClearRecoveredEffect
               \/ RecoveryDone
      BY <1>0, <3>1, RunMoves
         DEF BeginMaintenance, RecoverEffect, ClearRecoveredEffect, RecoveryDone,
             CleanupPcs, WorkerStates
    <3>2. CASE \/ CleanupLoop \/ PutTargetLock("cs_lock_put", "cs_target_hash")
               \/ PutReadOnly("cs_read_only_put", "cs_source_hash")
      BY <1>0, <3>2, RunMoves, OtherMoves
         DEF CleanupLoop, PutTargetLock, PutReadOnly, FinishMaintenance, CleanupPcs
    <3>a. CASE CleanupLockTarget \/ CleanupHashTarget \/ CleanupReadOnly
      BY <1>0, <3>a DEF CleanupLockTarget, CleanupHashTarget, CleanupReadOnly,
         CleanupRefused, NextCleanup, Goto, CleanupPcs, WorkerStates
    <3>3. CASE \/ CleanupHashSource \/ CleanupCheckSource \/ CleanupPutPolicy
               \/ PurgeSource \/ RemoveSource \/ RecordSourceDeleted
               \/ CleanupUnlockTarget \/ FinishSourceCleanup
      BY <1>0, <3>3, RunMoves, OtherMoves
         DEF CleanupHashSource, CleanupCheckSource, CleanupPutPolicy,
             PurgeSource, RemoveSource, RecordSourceDeleted, CleanupUnlockTarget,
             FinishSourceCleanup, CleanupRefused, CleanupPcs
    <3>4. CASE \/ PutTargetLock("ct_lock_put", "ct_purge")
               \/ PurgeTarget \/ RemoveTarget \/ FinishTargetCleanup
      BY <1>0, <3>4, RunMoves, OtherMoves
         DEF PutTargetLock, PurgeTarget, RemoveTarget, FinishTargetCleanup,
             CleanupRefused, CleanupPcs
    <3>b. CASE LockFailedTarget
      BY <1>0, <3>b DEF LockFailedTarget, CleanupRefused, NextCleanup, Goto,
                        CleanupPcs, WorkerStates
    <3>5. CASE RecoveryFault \/ CleanupFault \/ MaintenanceFault
      BY <1>0, <3>5, OtherMoves
         DEF RecoveryFault, CleanupFault, MaintenanceFault, CleanupRefused,
             FinishMaintenance, CleanupPcs
    <3>6. QED
      BY <1>4, <3>1, <3>2, <3>a, <3>3, <3>4, <3>b, <3>5
         DEF Maintenance, MaintenanceFaults
  <2>2. CleanupPcs \cap ItemPcs = {} /\ "check_item" \in CheckPcs
    BY QuietPlaces DEF CheckPcs
  <2>3. QED
    BY <1>p, <2>1, <2>2, QuietPlaces
<1>5. QED
  BY <1>l, <1>r, <1>1, <1>2, <1>3, <1>4

LEMMA OutsideStale ==
    ASSUME StaleInv, ControlInv',
           \/ BeginTransfer \/ CancelRun \/ SeePause \/ PauseRun \/ SkipItem
           \/ ItemsDone \/ FinalCheck \/ Finalize \/ FatalError
           \/ CreatorAccessRevoked \/ Revocation \/ RevokedGrantFault
           \/ Release \/ ReleaseFault \/ Maintenance \/ MaintenanceFaults
           \/ Preparation \/ PreparationFaults
           \/ Claim \/ ClaimPreparation \/ LeaseExpires \/ Crash
    PROVE  StaleInv'
<1>1. ControlInv
  BY DEF StaleInv
<1>2. w'.pc \notin ItemPcs
  BY <1>1, OutsideMoves
<1>3. QED
  BY <1>2, StaleOutside

LEMMA StaleNext == StaleInv /\ [Next]_vars => StaleInv'
<1> SUFFICES ASSUME StaleInv, [Next]_vars PROVE StaleInv'
  OBVIOUS
<1>0. ControlInv /\ ControlInv'
  BY ControlNext DEF StaleInv
<1>1. CASE UNCHANGED vars
  BY <1>0, <1>1 DEF vars, StaleInv, It
<1>2. CASE Command
  <2>1. CASE w.pc \in {"idle"} \cup RevokedPcs
    <3>1. w'.pc = w.pc
      BY <1>2, <2>1
         DEF Command, UpdateDraft, RequestPrecheck, PrecheckExpires,
             StartMigration, RequestPause, ResumeMigration, StopMigration,
             ContinueAfterPresync, Retry, RequestMaintenance, DeleteMigration,
             CommandAfterRevocation
    <3>2. QED
      BY <1>0, <2>1, <3>1, RevokedApart, StaleOutside
  <2>2. CASE w.pc \notin {"idle"} \cup RevokedPcs
    <3>1. UNCHANGED <<item, w>>
      BY <1>0, <1>2, <2>2, QuietCommand
    <3>2. UNCHANGED opt
      BY <1>0, <1>2, <2>2, PlaceFacts
         DEF Command, UpdateDraft, RequestPrecheck, PrecheckExpires,
             StartMigration, RequestPause, ResumeMigration, StopMigration,
             ContinueAfterPresync, Retry, RequestMaintenance, DeleteMigration,
             CommandAfterRevocation, CanEditDraft, Idle
    <3>3. QED
      BY <1>0, <3>1, <3>2 DEF StaleInv, It
  <2>3. QED
    BY <2>1, <2>2
<1>3. CASE Client
  <2>1. UNCHANGED <<item, w, opt>>
    BY <1>3 DEF Client, ClientWritesSource, ClientWritesTarget, OtherCreatesTarget
  <2>2. QED
    BY <1>0, <2>1 DEF StaleInv, It
<1>4. CASE Transfer \/ TransferFaults
  BY <1>0, <1>4, ItemStepsStale, GrantStepsStale, OutsideStale
     DEF Transfer, TransferFaults
<1>5. QED
  BY <1>0, <1>1, <1>2, <1>3, <1>4, OutsideStale
     DEF Next, Worker, Faults

\* No run starts or goes on working on an item for which a check or an earlier
\* copy left a temporary change open (preparation_effects): the precondition
\* check of _execute_migration_item establishes it, and the only entry a run
\* makes itself is its own grant.  For every number of items, grants included.
THEOREM NoStaleTemporaryChangeAlways == Spec => []NoStaleTemporaryChange
<1>1. Init => StaleInv
  <2> SUFFICES ASSUME Init PROVE StaleInv
    OBVIOUS
  <2>1. ControlInv /\ w.pc = "idle"
    BY ControlInit DEF Init, IdleWorker
  <2>2. "idle" \notin ItemPcs /\ GrantPcs \cup {"grant_journal"} \subseteq ItemPcs
    BY QuietPlaces DEF GrantPcs, ItemPcs, OutsideItems, TransferPcs, ItemSteps
  <2>3. QED
    BY <2>1, <2>2 DEF StaleInv, GrantPcs
<1>2. StaleInv => NoStaleTemporaryChange
  BY DEF StaleInv, NoStaleTemporaryChange, GrantPcs
<1>3. QED
  BY <1>1, <1>2, StaleNext, PTL DEF Spec

(***************************************************************************)
(* Sources.                                                                *)
(***************************************************************************)
\* The copy reads the source through an identity of its own: no temporary
\* grant is journalled.  With one, two journal entries may nest, and restoring
\* them in the order they were made leaves the inner policy in place.
NoGrants == \A o \in Options : ~o.grant

\* A policy without any statement of the engine.
Plain(policy) == policy \subseteq {"own"}
Has(row, name) == \E e \in row.effects : e.name = name

\* Backups and journalled policies are the customer's own.
RowPlain(row) ==
    /\ Plain(row.ro_backup)
    /\ \A e \in row.effects :
         /\ Plain(e.policy)
         /\ \/ e.name = "source_policy" /\ e.at = 2
            \/ e.name = "probe_bucket" /\ e.at = 3

\* What differs from the customer's own source is recorded; nothing is left
\* of a source that is gone.
BucketRecorded(row, b) ==
    /\ Plain(b.source_policy) \/ row.ro \/ Has(row, "source_policy")
    /\ b.probe => Has(row, "probe_bucket")
    /\ ~b.source_exists => Plain(b.source_policy)

ItemSources ==
    \A i \in Items : RowPlain(item[i]) /\ BucketRecorded(item[i], bucket[i])

\* Journal entries belong to drafts, read-only sources to what was started.
RecordsByStatus ==
    /\ mig.status # "draft" => \A i \in Items : item[i].effects = {}
    /\ mig.status = "draft" =>
         \A i \in Items : ~item[i].ro /\ bucket[i].source_exists
    /\ mig.status = "deleted" => ~Busy /\ ~HasAccessProtection

\* The places that say something about the source of the item under way.
ReadOnlyPcs == {"read_only_put", "cs_read_only_put", "cs_source_hash",
                "cs_policy_put", "cs_purge", "cs_remove"}
PresentPcs == ItemPcs \cup {"cs_read_only_put", "cs_policy_put"}
SourcePcs == PresentPcs \cup ReadOnlyPcs \cup
             {"cs_check", "cs_record", "recover_clear", "revoked_grant", "revoked_clear",
              "check_begin", "check_put", "check_restore", "check_clear"}

\* What they say, of a worker in state s, the row and the buckets: a source that
\* gets a policy exists; one that is read-only, or is about to be, is recorded
\* as such; a record that is about to go has nothing left to account for.
TransferPlace(s, row, b) ==
    /\ s.pc \notin {"revoked_grant", "revoked_clear"}
    /\ s.pc \in PresentPcs => b.source_exists
    /\ s.pc \in ReadOnlyPcs => row.ro
    /\ s.pc = "cs_check" /\ ~s.receipt => row.ro
    /\ s.pc = "cs_record" => Plain(b.source_policy)

RecoveryPlace(s, row, b) ==
    s.pc = "recover_clear" =>
      \A e \in row.effects : IsFirstEffect(e, row.effects) =>
        /\ e.name = "probe_bucket" => ~b.probe
        /\ e.name = "source_policy" => Plain(b.source_policy)

CheckPlace(s, row, b) ==
    /\ s.pc = "check_begin" => s.task \in {2, 3}
    /\ s.pc = "check_put" =>
         \/ s.task = 2 /\ Plain(s.policy) /\ Has(row, "source_policy")
         \/ s.task = 3 /\ Has(row, "probe_bucket")
    /\ s.pc = "check_restore" => (s.task = 2 /\ Plain(s.policy)) \/ s.task = 5
    /\ s.pc = "check_clear" =>
         \/ s.task = 2 /\ Plain(b.source_policy)
         \/ s.task = 5 /\ ~b.probe

SourcePlace(s, row, b) ==
    TransferPlace(s, row, b) /\ RecoveryPlace(s, row, b) /\ CheckPlace(s, row, b)

\* What a release has given back is the customer's own policy.
ReleasedPlain ==
    w.pc = "release" =>
      \A r \in w.released :
        r.kind = "source" => Plain(bucket[r.item].source_policy)

SourceInv ==
    /\ LockInv /\ StaleInv /\ ~opt.grant
    /\ ItemSources /\ RecordsByStatus /\ SourcePlace(w, It, Bk) /\ ReleasedPlain

\* The other places say nothing.
LEMMA SilentPlaces ==
    ASSUME NEW s, NEW row, NEW b, s.pc \notin SourcePcs
    PROVE  SourcePlace(s, row, b)
  BY DEF SourcePlace, TransferPlace, RecoveryPlace, CheckPlace, SourcePcs,
         PresentPcs, ReadOnlyPcs

LEMMA SilentPcs ==
    /\ SourcePcs \cap {"idle", "start", "items", "final", "pausing", "finalize",
                       "revoked_item", "revoked_next", "revoked", "release", "recover",
                       "cleanup", "check_item", "completed", "cs_lock",
                       "cs_lock_put", "cs_target_hash", "cs_read_only",
                       "cs_unlock", "cs_finish"} = {}
    /\ SourcePcs \cap TargetCleanupPcs = {}
  BY DEF SourcePcs, PresentPcs, ReadOnlyPcs, ItemPcs, OutsideItems, TransferPcs,
         ItemSteps, TargetCleanupPcs

\* What every step of a worker does to the status.
StatusStep ==
    /\ mig'.status = "draft" <=> mig.status = "draft"
    /\ mig'.status # "deleted"

\* The types, and the facts about the item under way.
LEMMA SourceFacts ==
    ASSUME SourceInv
    PROVE  /\ ControlInv /\ TypeInv /\ w \in WorkerStates /\ mig \in MigrationRows
           /\ item \in [Items -> ItemRows] /\ bucket \in [Items -> BucketStates]
           /\ \A i \in Items : RowPlain(item[i]) /\ BucketRecorded(item[i], bucket[i])
           /\ w.cur \in Items =>
                /\ It = item[w.cur] /\ Bk = bucket[w.cur]
                /\ It \in ItemRows /\ Bk \in BucketStates
                /\ RowPlain(It) /\ BucketRecorded(It, Bk)
                /\ UNCHANGED item => item' = [item EXCEPT ![w.cur] = It]
                /\ UNCHANGED bucket => bucket' = [bucket EXCEPT ![w.cur] = Bk]
           /\ w.pc \notin {"idle"} \cup RevokedPcs => mig.status # "deleted"
<1>1. ControlInv /\ TypeInv
  BY DEF SourceInv, StaleInv, ControlInv
<1>2. /\ w \in WorkerStates /\ mig \in MigrationRows
      /\ item \in [Items -> ItemRows] /\ bucket \in [Items -> BucketStates]
  BY <1>1, PlaceFacts
<1>3. w.pc \notin {"idle"} \cup RevokedPcs => mig.status # "deleted"
  BY <1>1, PlaceFacts DEF SourceInv, RecordsByStatus
<1>4. QED
  BY <1>1, <1>2, <1>3 DEF SourceInv, ItemSources, It, Bk

\* What a step on the item c may write: the row, its buckets, the worker.
SourceStep(c, row, b) ==
    /\ RowPlain(row) /\ BucketRecorded(row, b)
    /\ mig.status # "draft" => row.effects = {}
    /\ mig.status = "draft" => ~row.ro /\ b.source_exists
    /\ item' = [item EXCEPT ![c] = row]
    /\ bucket' = [bucket EXCEPT ![c] = b]
    /\ w'.pc \in SourcePcs => w'.cur = c /\ SourcePlace(w', row, b)
    /\ w'.pc # "release"

\* Such a step keeps the invariant.
LEMMA SourceStepInv ==
    ASSUME SourceInv, LockInv', StaleInv', StatusStep, UNCHANGED opt,
           NEW c \in Items, NEW row, NEW b, SourceStep(c, row, b)
    PROVE  SourceInv'
<1>0. item \in [Items -> ItemRows] /\ bucket \in [Items -> BucketStates]
  BY SourceFacts
<1>1. /\ \A i \in Items : item'[i] = IF i = c THEN row ELSE item[i]
      /\ \A i \in Items : bucket'[i] = IF i = c THEN b ELSE bucket[i]
  BY <1>0 DEF SourceStep
<1>2. ItemSources'
  BY <1>1 DEF SourceInv, ItemSources, SourceStep
<1>3. RecordsByStatus'
  BY <1>1 DEF SourceInv, RecordsByStatus, SourceStep, StatusStep
<1>4. SourcePlace(w, It, Bk)'
  <2>1. CASE w'.pc \in SourcePcs
    <3>1. It' = row /\ Bk' = b
      BY <1>1, <2>1 DEF SourceStep, It, Bk
    <3>2. SourcePlace(w', row, b)
      BY <2>1 DEF SourceStep
    <3>3. QED
      BY <3>1, <3>2
  <2>2. CASE w'.pc \notin SourcePcs
    BY <2>2, SilentPlaces
  <2>3. QED
    BY <2>1, <2>2
<1>5. ReleasedPlain'
  BY DEF SourceStep, ReleasedPlain
<1>6. QED
  BY <1>2, <1>3, <1>4, <1>5 DEF SourceInv

\* A step that changes neither the records nor the sources.
LEMMA QuietSources ==
    ASSUME SourceInv, LockInv', StaleInv', StatusStep, UNCHANGED opt,
           SameRecords, SameSources,
           w'.pc \in SourcePcs => SourcePlace(w', It', Bk'),
           w'.pc = "release" => w'.released = {}
    PROVE  SourceInv'
<1>1. ItemSources'
  BY DEF SourceInv, ItemSources, SameRecords, SameSources, KeepsRecords,
         KeepsSource, RowPlain, BucketRecorded, Has
<1>2. RecordsByStatus'
  BY DEF SourceInv, RecordsByStatus, StatusStep, SameRecords, SameSources,
         KeepsRecords, KeepsSource
<1>3. SourcePlace(w, It, Bk)'
  BY SilentPlaces
<1>4. ReleasedPlain'
  BY DEF ReleasedPlain
<1>5. QED
  BY <1>1, <1>2, <1>3, <1>4 DEF SourceInv

\* The edits of the buckets that are not about the source's policy.
LEMMA BucketEdits ==
    ASSUME NEW old \in BucketStates, NEW v
    PROVE  /\ KeepsSource([old EXCEPT !.target = v], old)
           /\ KeepsSource([old EXCEPT !.target_policy = v], old)
           /\ KeepsSource([old EXCEPT !.target_by = "migration",
                             !.target_policy = {}, !.target = Empty], old)
           /\ KeepsSource([old EXCEPT !.target_by = "nobody",
                             !.target_policy = {}], old)
           /\ KeepsSource([old EXCEPT !.target_by = "other",
                             !.target = Tampered, !.target_policy = {}], old)
           /\ KeepsSource([old EXCEPT !.source = v], old)
           /\ KeepsSource(old, old)
  BY DEF BucketStates, KeepsSource

\* A step on the buckets of the item under way.
LEMMA OneBucketSame ==
    ASSUME TypeInv, NEW b, SetBucket(b), w.cur \in Items => KeepsSource(b, Bk)
    PROVE  SameSources
<1>1. bucket \in [Items -> BucketStates]
  BY DEF TypeInv, TypeOK
<1>2. \A i \in Items : bucket'[i] = IF i = w.cur THEN b ELSE bucket[i]
  BY <1>1 DEF SetBucket
<1>3. QED
  BY <1>1, <1>2 DEF SameSources, KeepsSource, Bk

\* The steps that leave every source alone.
LEMMA SourcesSame ==
    ASSUME TypeInv,
           \/ UNCHANGED bucket
           \/ \E from, to : PutTargetLock(from, to)
           \/ CreateBucket \/ CopyBucketSettings \/ TargetLockRefused
           \/ SyncCopy \/ SyncWrite
           \/ CleanupLockTarget \/ PurgeSource \/ CleanupUnlockTarget
           \/ PurgeTarget \/ RemoveTarget
    PROVE  SameSources
<1>0. w.cur \in Items => Bk \in BucketStates
  BY DEF TypeInv, TypeOK, Bk
<1>1. CASE UNCHANGED bucket
  BY <1>1 DEF SameSources, KeepsSource
<1>2. CASE \E v : \/ SetBucket([Bk EXCEPT !.target = v])
                  \/ SetBucket([Bk EXCEPT !.target_policy = v])
                  \/ SetBucket([Bk EXCEPT !.source = v])
  <2>1. PICK v : \/ SetBucket([Bk EXCEPT !.target = v])
                 \/ SetBucket([Bk EXCEPT !.target_policy = v])
                 \/ SetBucket([Bk EXCEPT !.source = v])
    BY <1>2
  <2>2. w.cur \in Items => /\ KeepsSource([Bk EXCEPT !.target = v], Bk)
                           /\ KeepsSource([Bk EXCEPT !.target_policy = v], Bk)
                           /\ KeepsSource([Bk EXCEPT !.source = v], Bk)
    BY <1>0, BucketEdits
  <2>3. QED
    BY <2>1, <2>2, OneBucketSame
<1>3. CASE \/ SetBucket([Bk EXCEPT !.target_by = "migration",
                             !.target_policy = {}, !.target = Empty])
           \/ SetBucket([Bk EXCEPT !.target_by = "nobody", !.target_policy = {}])
  <2>1. w.cur \in Items =>
          /\ KeepsSource([Bk EXCEPT !.target_by = "migration",
                             !.target_policy = {}, !.target = Empty], Bk)
          /\ KeepsSource([Bk EXCEPT !.target_by = "nobody",
                             !.target_policy = {}], Bk)
    BY <1>0, BucketEdits
  <2>2. QED
    BY <1>3, <2>1, OneBucketSame
<1>4. CASE \/ \E from, to : PutTargetLock(from, to)
           \/ CopyBucketSettings \/ TargetLockRefused \/ SyncCopy \/ SyncWrite
           \/ CleanupLockTarget \/ PurgeSource \/ CleanupUnlockTarget \/ PurgeTarget
  BY <1>1, <1>2, <1>4
     DEF PutTargetLock, CopyBucketSettings, TargetLockRefused, SyncCopy,
         SyncWrite, CleanupLockTarget, CleanupRefused, PurgeSource,
         CleanupUnlockTarget, PurgeTarget
<1>5. CASE CreateBucket \/ RemoveTarget
  BY <1>1, <1>3, <1>5 DEF CreateBucket, RemoveTarget
<1>6. QED
  BY <1>1, <1>4, <1>5

\* A run and its end leave a started migration started, and maintenance the
\* status as it is.
LEMMA RunStatus ==
    ASSUME SourceInv,
           \/ UNCHANGED mig /\ w.pc \notin {"idle"} \cup RevokedPcs
           \/ BeginTransfer \/ PauseRun \/ Finalize \/ FatalError
           \/ CreatorAccessRevoked \/ CommitCanceled \/ CommitFinished
    PROVE  StatusStep
<1>0. /\ mig \in MigrationRows /\ ControlInv
      /\ w.pc \notin {"idle"} \cup RevokedPcs => mig.status # "deleted"
  BY SourceFacts
<1>1. CASE UNCHANGED mig /\ w.pc \notin {"idle"} \cup RevokedPcs
  BY <1>0, <1>1 DEF StatusStep
<1>2. CASE \/ BeginTransfer \/ PauseRun \/ Finalize \/ FatalError
           \/ CreatorAccessRevoked \/ CommitCanceled \/ CommitFinished
  <2>1. mig.status \in ActiveStatuses
    BY <1>0, <1>2
       DEF BeginTransfer, PauseRun, Finalize, FatalError, CreatorAccessRevoked,
           AtControlCheck, OutsideItems, CommitCanceled, CommitFinished, EndRelease,
           ControlInv, PhaseOK, InRun, RunPcs, TransferPcs, ItemSteps
  <2>2. mig'.status \in ActiveStatuses \cup FinalStatuses \cup
          {"paused", "awaiting_cutover"}
    BY <1>0, <1>2, <2>1
       DEF BeginTransfer, PauseRun, Finalize, FatalError, CreatorAccessRevoked,
           CommitCanceled, CommitFinished, StartRelease, MigrationRows,
           ActiveStatuses, FinalStatuses
  <2>3. QED
    BY <2>1, <2>2 DEF StatusStep, ActiveStatuses, FinalStatuses
<1>3. QED
  BY <1>1, <1>2

LEMMA OtherStatus ==
    ASSUME SourceInv,
           \/ CommitRestored \/ BeginMaintenance \/ RecoveryFault \/ CleanupLoop
           \/ MaintenanceFault \/ ReportChecks \/ ChecksInterrupted
           \/ Claim \/ ClaimPreparation
    PROVE  StatusStep
<1>0. /\ mig \in MigrationRows /\ ControlInv
      /\ w.pc \notin {"idle"} \cup RevokedPcs => mig.status # "deleted"
  BY SourceFacts
<1>1. mig'.status = mig.status
  BY <1>0
     DEF CommitRestored, BeginMaintenance, RecoveryFault, CleanupLoop,
         MaintenanceFault, ReportChecks, ChecksInterrupted, Claim,
         ClaimPreparation, FinishMaintenance, MigrationRows
<1>2. mig.status # "deleted"
  BY <1>0
     DEF CommitRestored, BeginMaintenance, RecoveryFault, CleanupLoop,
         MaintenanceFault, ReportChecks, ChecksInterrupted, Claim,
         ClaimPreparation, EndRelease, SourceInv, RecordsByStatus, Busy, RevokedPcs
<1>3. QED
  BY <1>1, <1>2 DEF StatusStep

\* A worker that dies or leaves changes nothing else that matters here.
LEMMA EndSources ==
    ASSUME SourceInv, LockInv', StaleInv', UNCHANGED <<opt, item, bucket>>,
           mig'.status = mig.status, mig'.preparation = mig.preparation,
           mig'.maintenance = mig.maintenance, w'.pc = "idle"
    PROVE  SourceInv'
<1>1. ItemSources'
  BY DEF SourceInv, ItemSources
<1>2. RecordsByStatus'
  BY DEF SourceInv, RecordsByStatus, Busy, HasAccessProtection
<1>3. SourcePlace(w, It, Bk)' /\ ReleasedPlain'
  BY SilentPcs, SilentPlaces DEF ReleasedPlain
<1>4. QED
  BY <1>1, <1>2, <1>3 DEF SourceInv

\* The loop over the items, the ends of a run, claims and crashes.
LEMMA LoopSources ==
    ASSUME SourceInv, LockInv', StaleInv',
           \/ BeginTransfer \/ CancelRun \/ SeePause \/ PauseRun \/ SkipItem
           \/ ItemsDone \/ FinalCheck \/ Finalize \/ FatalError
           \/ Claim \/ ClaimPreparation \/ Crash
    PROVE  SourceInv'
<1>0. w \in WorkerStates /\ TypeInv
  BY SourceFacts
<1>1. UNCHANGED <<opt, bucket>>
  BY DEF BeginTransfer, CancelRun, SeePause, PauseRun, SkipItem, ItemsDone,
         FinalCheck, Finalize, FatalError, Claim, ClaimPreparation, Crash
<1>2. SameRecords /\ SameSources
  BY <1>0, <1>1, OtherRowsSame, SourcesSame
<1>c. CASE Crash
  BY <1>c, EndSources DEF Crash, IdleWorker
<1>3. ASSUME ~Crash PROVE StatusStep
  <2>1. CASE CancelRun \/ SeePause \/ SkipItem \/ ItemsDone \/ FinalCheck
    BY <2>1, RunStatus DEF CancelRun, SeePause, SkipItem, ItemsDone, FinalCheck,
                           RevokedPcs
  <2>2. CASE ~(CancelRun \/ SeePause \/ SkipItem \/ ItemsDone \/ FinalCheck)
    BY <1>3, <2>2, RunStatus, OtherStatus
  <2>3. QED
    BY <2>1, <2>2
<1>4. /\ w'.pc \in {"idle", "start", "items", "final", "pausing", "finalize",
                    "release", "recover"}
      /\ w'.pc = "release" => w'.released = {}
  <2>1. CASE \/ BeginTransfer \/ CancelRun \/ SeePause \/ PauseRun \/ SkipItem
             \/ ItemsDone \/ FinalCheck \/ Finalize \/ FatalError \/ Crash
    BY <1>0, <2>1, WorkerMoves
       DEF BeginTransfer, CancelRun, SeePause, PauseRun, SkipItem, ItemsDone,
           FinalCheck, Finalize, FatalError, Crash
  <2>2. CASE Claim \/ ClaimPreparation
    BY <2>2 DEF Claim, ClaimPreparation, IdleWorker
  <2>3. QED
    BY <2>1, <2>2
<1>5. w'.pc \notin SourcePcs
  BY <1>4, SilentPcs
<1>6. QED
  BY <1>c, <1>1, <1>2, <1>3, <1>4, <1>5, QuietSources

\* The way out of a run whose creator lost access: without grants, nothing is
\* undone on the way.
LEMMA RevokedSources ==
    ASSUME SourceInv, LockInv', StaleInv',
           CreatorAccessRevoked \/ Revocation \/ RevokedGrantFault
    PROVE  SourceInv'
<1>0. /\ w \in WorkerStates /\ TypeInv /\ ControlInv /\ ~opt.grant
      /\ mig \in MigrationRows /\ w.pc \notin {"revoked_grant", "revoked_clear"}
  BY SourceFacts DEF SourceInv, SourcePlace, TransferPlace
<1>1. ~(RestoreRevokedGrant \/ ClearRevokedGrant \/ RevokedGrantFault)
  BY <1>0 DEF RestoreRevokedGrant, ClearRevokedGrant, RevokedGrantFault
<1>d. w.pc \in RevokedPcs => mig.status # "draft"
  BY <1>0 DEF ControlInv, PhaseOK
<1>2. CASE RevokedRunEnds
  BY <1>0, <1>2, OtherMoves, EndSources DEF RevokedRunEnds, MigrationRows
<1>3. CASE CreatorAccessRevoked \/ FailRevokedItem \/ RevokedAgain
  <2>1. UNCHANGED <<opt, bucket>>
    BY <1>3 DEF CreatorAccessRevoked, FailRevokedItem, RevokedAgain
  <2>2. SameRecords /\ SameSources
    BY <1>0, <1>3, <2>1, RowStepsSame, OtherRowsSame, SourcesSame
  <2>3. StatusStep
    <3>1. CASE CreatorAccessRevoked
      BY <3>1, RunStatus
    <3>2. CASE FailRevokedItem \/ RevokedAgain
      BY <1>0, <1>d, <3>2 DEF FailRevokedItem, RevokedAgain, StatusStep, RevokedPcs,
                              MigrationRows
    <3>3. QED
      BY <1>3, <3>1, <3>2
  <2>4. w'.pc \in {"revoked_item", "revoked_next", "revoked"}
    BY <1>0, <1>3, RunMoves
       DEF CreatorAccessRevoked, FailRevokedItem, RevokedAgain, InGrant
  <2>5. w'.pc \notin SourcePcs
    BY <2>4, SilentPcs
  <2>6. QED
    BY <2>1, <2>2, <2>3, <2>4, <2>5, QuietSources
<1>4. QED
  BY <1>1, <1>2, <1>3 DEF Revocation

\* A place of an item only asks for a source that exists.
LEMMA ItemPlace ==
    ASSUME NEW s, NEW row, NEW b, s.pc \in ItemPcs, s.pc # "read_only_put",
           b.source_exists
    PROVE  SourcePlace(s, row, b)
<1>1. /\ s.pc \notin CleanupPcs /\ s.pc \notin CheckPcs /\ s.pc # "recover_clear"
      /\ s.pc \notin {"revoked_grant", "revoked_clear"}
  BY QuietPlaces, RevokedApart
<1>2. QED
  BY <1>1 DEF SourcePlace, TransferPlace, RecoveryPlace, CheckPlace, ReadOnlyPcs,
              CleanupPcs, CheckPcs

\* The steps on an item that leave its source and the records alone.
LEMMA ItemStepsSources ==
    ASSUME SourceInv, LockInv', StaleInv',
           \/ RunItem \/ PutTargetLock("relock_put", "loop") \/ ItemLoop
           \/ LookForTarget \/ CreateBucket \/ RecordTargetCreated
           \/ FinishCreateBucket \/ CopyBucketSettings \/ FinishCopyBucketSettings
           \/ ApplyTargetLock \/ PutTargetLock("lock_put", "lock_done")
           \/ FinishTargetLock \/ TargetLockRefused \/ BeginSync
           \/ FinishSync \/ AwaitCutover \/ FinishReadOnly
           \/ VerifyRead \/ VerifyCompare \/ VerifyInterrupted
           \/ StrongVerificationFails \/ CompleteItem
           \/ SyncCopy \/ SyncWrite \/ SyncInterrupted \/ TransferFault
    PROVE  SourceInv'
<1>0. w \in WorkerStates /\ TypeInv /\ ControlInv /\ ~opt.grant
  BY SourceFacts DEF SourceInv
<1>1. UNCHANGED <<opt, mig>>
  BY DEF RunItem, PutTargetLock, ItemLoop, LookForTarget, CreateBucket,
         RecordTargetCreated, FinishCreateBucket, CopyBucketSettings,
         FinishCopyBucketSettings, ApplyTargetLock, FinishTargetLock,
         TargetLockRefused, BeginSync, FinishSync, AwaitCutover, FinishReadOnly,
         VerifyRead, VerifyCompare, VerifyInterrupted, StrongVerificationFails,
         CompleteItem, SyncCopy, SyncWrite, SyncInterrupted, TransferFault
<1>2. SameRecords
  BY <1>0, RowStepsSame, OtherRowsSame
<1>3. SameSources
  <2>1. CASE \/ RunItem \/ ItemLoop \/ LookForTarget \/ RecordTargetCreated
             \/ FinishCreateBucket \/ FinishCopyBucketSettings \/ ApplyTargetLock
             \/ FinishTargetLock \/ BeginSync \/ FinishSync \/ AwaitCutover
             \/ FinishReadOnly \/ VerifyRead \/ VerifyCompare \/ VerifyInterrupted
             \/ StrongVerificationFails \/ CompleteItem \/ SyncInterrupted
             \/ TransferFault
    <3>1. UNCHANGED bucket
      BY <2>1 DEF RunItem, ItemLoop, LookForTarget, RecordTargetCreated,
         FinishCreateBucket, FinishCopyBucketSettings, ApplyTargetLock,
         FinishTargetLock, BeginSync, FinishSync, AwaitCutover, FinishReadOnly,
         VerifyRead, VerifyCompare, VerifyInterrupted, StrongVerificationFails,
         CompleteItem, SyncInterrupted, TransferFault
    <3>2. QED
      BY <1>0, <3>1, SourcesSame
  <2>2. CASE \/ PutTargetLock("relock_put", "loop")
             \/ PutTargetLock("lock_put", "lock_done")
    BY <1>0, <2>2, SourcesSame
  <2>3. CASE CreateBucket \/ CopyBucketSettings \/ TargetLockRefused
             \/ SyncCopy \/ SyncWrite
    BY <1>0, <2>3, SourcesSame
  <2>4. QED
    BY <2>1, <2>2, <2>3
<1>4. /\ w.pc \in ItemPcs /\ w.cur \in Items
      /\ \/ w'.pc = "items"
         \/ w'.cur = w.cur /\ w'.pc \in PlainItemPcs \cup {"sync_write"}
  <2>1. CASE SyncCopy \/ SyncWrite \/ SyncInterrupted \/ TransferFault
    <3>1. w.pc \in ItemPcs
      BY <2>1 DEF SyncCopy, SyncWrite, SyncInterrupted, TransferFault, ItemPcs,
                  OutsideItems, TransferPcs
    <3>2. w.cur \in Items
      BY <1>0, <3>1, PlaceFacts
    <3>3. NextItem \/ Goto("sync_write") \/ \E reason : LeaveSync(reason)
      BY <2>1 DEF SyncCopy, SyncWrite, SyncInterrupted, TransferFault, FailItem
    <3>4. \/ w'.pc = "items"
          \/ w'.cur = w.cur /\ w'.pc \in {"sync_write", "sync_done"}
      BY <1>0, <3>3, RunMoves
    <3>5. QED
      BY <3>1, <3>2, <3>4 DEF PlainItemPcs
  <2>2. CASE ~(SyncCopy \/ SyncWrite \/ SyncInterrupted \/ TransferFault)
    BY <1>0, <2>2, ItemMoves
  <2>3. QED
    BY <2>1, <2>2
<1>5. w.pc \notin {"idle"} \cup RevokedPcs
  BY <1>4, RevokedApart
<1>6. StatusStep
  BY <1>1, <1>5, RunStatus
<1>7. w'.pc \in SourcePcs => SourcePlace(w', It', Bk')
  <2> SUFFICES ASSUME w'.pc \in SourcePcs PROVE SourcePlace(w', It', Bk')
    OBVIOUS
  <2>1. w'.pc # "items" /\ w'.pc # "completed"
    BY SilentPcs
  <2>2. (PlainItemPcs \cup {"sync_write"}) \ {"completed"}
          \subseteq ItemPcs \ {"read_only_put"}
    BY DEF PlainItemPcs, ItemPcs, OutsideItems, TransferPcs, ItemSteps
  <2>3. w'.pc \in ItemPcs /\ w'.pc # "read_only_put" /\ w'.cur = w.cur
    BY <1>4, <2>1, <2>2
  <2>4. Bk.source_exists
    BY <1>4 DEF SourceInv, SourcePlace, TransferPlace, PresentPcs
  <2>5. Bk'.source_exists
    BY <1>3, <1>4, <2>3, <2>4 DEF SameSources, KeepsSource, Bk
  <2>6. QED
    BY <2>3, <2>5, ItemPlace
<1>8. w'.pc # "release"
  BY <1>4 DEF PlainItemPcs, ItemSteps
<1>9. QED
  BY <1>1, <1>2, <1>3, <1>6, <1>7, <1>8, QuietSources

\* _execute_migration_item: the source exists, or the item fails.
LEMMA ExecuteSources ==
    ASSUME SourceInv, LockInv', StaleInv', ExecuteItem PROVE SourceInv'
<1>0. /\ w \in WorkerStates /\ TypeInv /\ w.cur \in Items
      /\ UNCHANGED <<opt, mig, bucket>>
  BY SourceFacts, LoopIndex DEF ExecuteItem, WorkerStates
<1>1. SameRecords /\ SameSources /\ StatusStep
  BY <1>0, RowStepsSame, SourcesSame, RunStatus DEF ExecuteItem, RevokedPcs
<1>2. CASE TransferPreconditions(w.cur)
  <2>1. w'.pc = "item" /\ w'.cur = w.cur
    BY <1>0, <1>2, RunMoves DEF ExecuteItem
  <2>2. Bk.source_exists
    BY <1>2 DEF ExecuteItem, TransferPreconditions, It, Bk
  <2>3. SourcePlace(w', It', Bk')
    <3>1. Bk'.source_exists /\ "item" \in ItemPcs
      BY <1>0, <2>1, <2>2 DEF Bk, ItemPcs, OutsideItems, TransferPcs
    <3>2. QED
      BY <2>1, <3>1, ItemPlace
  <2>4. QED
    BY <1>0, <1>1, <2>1, <2>3, QuietSources
<1>3. CASE ~TransferPreconditions(w.cur)
  <2>1. w'.pc = "items"
    BY <1>0, <1>3, RunMoves DEF ExecuteItem, FailItem
  <2>2. QED
    BY <1>0, <1>1, <2>1, SilentPcs, QuietSources
<1>4. QED
  BY <1>2, <1>3

\* With no entry outstanding, a source that is not recorded as read-only has
\* its own policy.
LEMMA JournalledPlain ==
    ASSUME NEW row \in ItemRows, RowPlain(row), BucketRecorded(row, Bk),
           row.effects = {}
    PROVE  LET r == JournalReadOnly(row)
           IN  RowPlain(r) /\ r.ro /\ r.effects = {}
<1>1. CASE row.ro
  BY <1>1 DEF JournalReadOnly
<1>2. CASE ~row.ro
  <2> DEFINE r == [row EXCEPT !.ro = TRUE, !.ro_backup = Bk.source_policy]
  <2>1. r.ro = TRUE /\ r.ro_backup = Bk.source_policy /\ r.effects = {}
    BY DEF ItemRows
  <2>2. JournalReadOnly(row) = r
    BY <1>2 DEF JournalReadOnly
  <2> HIDE DEF r
  <2>3. Plain(Bk.source_policy)
    BY <1>2 DEF BucketRecorded, Has
  <2>4. QED
    BY <2>1, <2>2, <2>3 DEF RowPlain
<1>3. QED
  BY <1>1, <1>2

\* Recording the policy of a source, then making it read-only.
LEMMA ReadOnlySources ==
    ASSUME SourceInv, LockInv', StaleInv',
           \/ ApplyReadOnly \/ (CleanupReadOnly /\ Bk.source_exists)
           \/ PutReadOnly("read_only_put", "read_only_done")
           \/ PutReadOnly("cs_read_only_put", "cs_source_hash")
    PROVE  SourceInv'
<1>0. w \in WorkerStates /\ ControlInv /\ UNCHANGED <<opt, mig>>
  BY SourceFacts DEF ApplyReadOnly, CleanupReadOnly, PutReadOnly
<1>1. /\ w.pc \in ItemPcs \cup (CleanupPcs \ {"cleanup"})
      /\ w.pc \notin {"idle"} \cup RevokedPcs
  BY RevokedApart DEF ApplyReadOnly, CleanupReadOnly, PutReadOnly, ItemPcs,
     OutsideItems, ItemSteps, TransferPcs, CleanupPcs
<1>2. /\ w.cur \in Items /\ It \in ItemRows /\ Bk \in BucketStates
      /\ It = item[w.cur] /\ Bk = bucket[w.cur]
      /\ RowPlain(It) /\ BucketRecorded(It, Bk)
  BY <1>0, <1>1, PlaceFacts, SourceFacts
<1>3. mig.status # "draft" /\ It.effects = {}
  <2>1. CASE w.pc \in ItemPcs
    BY <1>0, <1>2, <2>1, PlaceFacts DEF SourceInv, RecordsByStatus
  <2>2. CASE w.pc \in CleanupPcs
    <3>1. mig.status \in FinalStatuses
      BY <1>0, <2>2, PlaceFacts DEF SourceInv, LockInv, ProvenanceInv, CleanupFinal
    <3>2. QED
      BY <1>2, <3>1 DEF SourceInv, RecordsByStatus, FinalStatuses
  <2>3. QED
    BY <1>1, <2>1, <2>2
<1>4. StatusStep
  BY <1>0, <1>1, RunStatus
<1>5. CASE ApplyReadOnly \/ (CleanupReadOnly /\ Bk.source_exists)
  <2> DEFINE row == JournalReadOnly(It)
  <2>1. RowPlain(row) /\ row.ro /\ row.effects = {}
    BY <1>2, <1>3, JournalledPlain
  <2>2. /\ item' = [item EXCEPT ![w.cur] = row]
        /\ bucket' = [bucket EXCEPT ![w.cur] = Bk]
    BY <1>2, <1>5, SourceFacts DEF ApplyReadOnly, CleanupReadOnly, SetItem
  <2>3. w'.pc \in {"read_only_put", "cs_read_only_put"} /\ w'.cur = w.cur
    BY <1>0, <1>5 DEF ApplyReadOnly, CleanupReadOnly, WorkerStates
  <2>4. Bk.source_exists
    BY <1>5 DEF ApplyReadOnly, SourceInv, SourcePlace, TransferPlace, PresentPcs,
                ItemPcs, OutsideItems, ItemSteps
  <2> HIDE DEF row
  <2>5. SourcePlace(w', row, Bk)
    BY <2>1, <2>3, <2>4
       DEF SourcePlace, TransferPlace, RecoveryPlace, CheckPlace
  <2>6. BucketRecorded(row, Bk)
    BY <1>2, <2>1, <2>4, <1>3 DEF BucketRecorded, Has
  <2>7. SourceStep(w.cur, row, Bk)
    BY <1>3, <2>1, <2>2, <2>3, <2>5, <2>6 DEF SourceStep
  <2>8. QED
    BY <1>0, <1>2, <1>4, <2>7, SourceStepInv
<1>6. CASE \/ PutReadOnly("read_only_put", "read_only_done")
           \/ PutReadOnly("cs_read_only_put", "cs_source_hash")
  <2> DEFINE b == [Bk EXCEPT !.source_policy = BuildReadOnlyPolicy(w.policy)]
  <2>1. It.ro /\ Bk.source_exists
    BY <1>6 DEF PutReadOnly, SourceInv, SourcePlace, TransferPlace, ReadOnlyPcs,
                PresentPcs, ItemPcs, OutsideItems, TransferPcs
  <2>2. b.source_exists = Bk.source_exists /\ b.probe = Bk.probe
    BY <1>2 DEF BucketStates
  <2>3. /\ bucket' = [bucket EXCEPT ![w.cur] = b]
        /\ item' = [item EXCEPT ![w.cur] = It]
    BY <1>2, <1>6, SourceFacts DEF PutReadOnly, SetBucket
  <2>4. w'.pc \in {"read_only_done", "cs_source_hash"} /\ w'.cur = w.cur
    BY <1>0, <1>6, RunMoves DEF PutReadOnly
  <2> HIDE DEF b
  <2>5. SourcePlace(w', It, b)
    BY <2>1, <2>2, <2>4
       DEF SourcePlace, TransferPlace, RecoveryPlace, CheckPlace
  <2>6. BucketRecorded(It, b)
    BY <1>2, <2>1, <2>2 DEF BucketRecorded
  <2>7. SourceStep(w.cur, It, b)
    BY <1>2, <1>3, <2>3, <2>4, <2>5, <2>6 DEF SourceStep
  <2>8. QED
    BY <1>0, <1>2, <1>4, <2>7, SourceStepInv
<1>7. QED
  BY <1>5, <1>6

\* A cleanup runs on a finished migration: no entry is outstanding.
LEMMA CleanupFacts ==
    ASSUME SourceInv, w.pc \in CleanupPcs \ {"cleanup"}
    PROVE  /\ w.cur \in Items /\ mig.status # "draft" /\ It.effects = {}
           /\ It \in ItemRows /\ Bk \in BucketStates
           /\ It = item[w.cur] /\ Bk = bucket[w.cur]
           /\ RowPlain(It) /\ BucketRecorded(It, Bk)
           /\ UNCHANGED item => item' = [item EXCEPT ![w.cur] = It]
           /\ UNCHANGED bucket => bucket' = [bucket EXCEPT ![w.cur] = Bk]
<1>1. ControlInv
  BY SourceFacts
<1>2. mig.status \in FinalStatuses
  BY <1>1, PlaceFacts DEF SourceInv, LockInv, ProvenanceInv, CleanupFinal
<1>3. w.cur \in Items
  BY <1>1, PlaceFacts
<1>4. mig.status # "draft" /\ It.effects = {}
  BY <1>2, <1>3, SourceFacts DEF SourceInv, RecordsByStatus, FinalStatuses
<1>5. QED
  BY <1>3, <1>4, SourceFacts

\* The steps of a cleanup that leave the source and its record alone.
LEMMA CleanupQuietSources ==
    ASSUME SourceInv, LockInv', StaleInv',
           \/ CleanupLoop \/ CleanupLockTarget \/ CleanupHashTarget
           \/ PutTargetLock("cs_lock_put", "cs_target_hash")
           \/ (CleanupReadOnly /\ ~Bk.source_exists)
           \/ CleanupUnlockTarget \/ FinishSourceCleanup \/ CleanupFault
    PROVE  SourceInv'
<1>0. w \in WorkerStates /\ TypeInv /\ UNCHANGED opt
  BY SourceFacts
     DEF CleanupLoop, CleanupLockTarget, CleanupHashTarget, PutTargetLock,
         CleanupReadOnly, CleanupUnlockTarget, FinishSourceCleanup, CleanupFault
<1>1. SameRecords
  <2>1. CASE CleanupLockTarget \/ FinishSourceCleanup
    BY <1>0, <2>1, RowStepsSame
  <2>2. CASE UNCHANGED item
    BY <2>2 DEF SameRecords, KeepsRecords
  <2>3. QED
    BY <2>1, <2>2
       DEF CleanupLoop, CleanupHashTarget, PutTargetLock, CleanupReadOnly,
           CleanupUnlockTarget, CleanupFault, CleanupRefused
<1>2. SameSources
  <2>1. CASE \/ CleanupLockTarget \/ CleanupUnlockTarget
             \/ PutTargetLock("cs_lock_put", "cs_target_hash")
    BY <1>0, <2>1, SourcesSame
  <2>2. CASE UNCHANGED bucket
    BY <1>0, <2>2, SourcesSame
  <2>3. QED
    BY <2>1, <2>2
       DEF CleanupLoop, CleanupHashTarget, CleanupReadOnly, FinishSourceCleanup,
           CleanupFault, CleanupRefused
<1>3. StatusStep
  <2>1. CASE CleanupLoop
    BY <2>1, OtherStatus
  <2>2. CASE ~CleanupLoop
    BY <2>2, RunStatus
       DEF CleanupLockTarget, CleanupHashTarget, PutTargetLock, CleanupReadOnly,
           CleanupUnlockTarget, FinishSourceCleanup, CleanupFault, CleanupPcs,
           RevokedPcs
  <2>3. QED
    BY <2>1, <2>2
<1>4. \/ w'.pc \in {"idle", "cleanup", "cs_lock", "ct_lock", "cs_lock_put",
                    "cs_target_hash", "cs_read_only", "cs_finish"}
      \/ w'.pc = "cs_check" /\ w'.receipt
  <2>1. CASE CleanupLoop \/ PutTargetLock("cs_lock_put", "cs_target_hash")
             \/ CleanupUnlockTarget \/ FinishSourceCleanup \/ CleanupFault
             \/ (CleanupReadOnly /\ ~Bk.source_exists)
    BY <1>0, <2>1, RunMoves, OtherMoves
       DEF CleanupLoop, PutTargetLock, CleanupUnlockTarget, FinishSourceCleanup,
           CleanupFault, CleanupReadOnly, CleanupRefused, FinishMaintenance
  <2>2. CASE CleanupLockTarget
    <3>1. \/ \E failed : NextCleanup(failed)
          \/ w' = [w EXCEPT !.pc = "cs_lock_put", !.policy = Bk.target_policy,
                            !.receipt = (It.receipt # NoReceipt)]
          \/ w' = [w EXCEPT !.pc = "cs_target_hash",
                            !.receipt = (It.receipt # NoReceipt)]
      BY <2>2 DEF CleanupLockTarget, CleanupRefused
    <3>2. QED
      BY <1>0, <3>1, OtherMoves DEF WorkerStates
  <2>3. CASE CleanupHashTarget
    <3>1. \/ \E failed : NextCleanup(failed)
          \/ w.receipt /\ w' = [w EXCEPT !.pc = "cs_check"]
          \/ w' = [w EXCEPT !.pc = "cs_read_only", !.snap = Bk.target]
      BY <2>3 DEF CleanupHashTarget, CleanupRefused, Goto
    <3>2. QED
      BY <1>0, <3>1, OtherMoves DEF WorkerStates
  <2>4. QED
    BY <2>1, <2>2, <2>3
<1>5. w'.pc \in SourcePcs => SourcePlace(w', It', Bk')
  <2>1. CASE w'.pc = "cs_check" /\ w'.receipt
    <3>1. "cs_check" \notin PresentPcs \cup ReadOnlyPcs
      BY DEF PresentPcs, ReadOnlyPcs, ItemPcs, OutsideItems, TransferPcs, ItemSteps
    <3>2. QED
      BY <2>1, <3>1 DEF SourcePlace, TransferPlace, RecoveryPlace, CheckPlace
  <2>2. CASE ~(w'.pc = "cs_check" /\ w'.receipt)
    BY <1>4, <2>2, SilentPcs DEF TargetCleanupPcs
  <2>3. QED
    BY <2>1, <2>2
<1>6. w'.pc # "release"
  BY <1>4
<1>7. QED
  BY <1>0, <1>1, <1>2, <1>3, <1>5, <1>6, QuietSources

\* The cleanup of a failed destination does not look at the source's policy.
LEMMA TargetCleanupSources ==
    ASSUME SourceInv, LockInv', StaleInv',
           \/ LockFailedTarget \/ PutTargetLock("ct_lock_put", "ct_purge")
           \/ PurgeTarget \/ RemoveTarget \/ FinishTargetCleanup
    PROVE  SourceInv'
<1>0. w \in WorkerStates /\ TypeInv /\ UNCHANGED opt
  BY SourceFacts
     DEF LockFailedTarget, PutTargetLock, PurgeTarget, RemoveTarget,
         FinishTargetCleanup
<1>1. SameRecords
  <2>1. CASE LockFailedTarget \/ FinishTargetCleanup
    BY <1>0, <2>1, RowStepsSame
  <2>2. CASE UNCHANGED item
    BY <2>2 DEF SameRecords, KeepsRecords
  <2>3. QED
    BY <2>1, <2>2 DEF PutTargetLock, PurgeTarget, RemoveTarget
<1>2. SameSources
  <2>1. CASE \/ PutTargetLock("ct_lock_put", "ct_purge")
             \/ PurgeTarget \/ RemoveTarget
    BY <1>0, <2>1, SourcesSame
  <2>2. CASE UNCHANGED bucket
    BY <1>0, <2>2, SourcesSame
  <2>3. QED
    BY <2>1, <2>2 DEF LockFailedTarget, FinishTargetCleanup, CleanupRefused
<1>3. StatusStep
  BY RunStatus DEF LockFailedTarget, PutTargetLock, PurgeTarget, RemoveTarget,
                   FinishTargetCleanup, RevokedPcs
<1>4. w'.pc \in {"cleanup"} \cup TargetCleanupPcs
  <2>1. CASE LockFailedTarget
    <3>1. \/ \E failed : NextCleanup(failed)
          \/ Goto("ct_purge")
          \/ w' = [w EXCEPT !.pc = "ct_lock_put", !.policy = Bk.target_policy]
      BY <2>1 DEF LockFailedTarget, CleanupRefused
    <3>2. QED
      BY <1>0, <3>1, RunMoves, OtherMoves DEF TargetCleanupPcs, WorkerStates
  <2>2. CASE ~LockFailedTarget
    BY <1>0, <2>2, RunMoves, OtherMoves
       DEF PutTargetLock, PurgeTarget, RemoveTarget, FinishTargetCleanup,
           CleanupRefused, TargetCleanupPcs
  <2>3. QED
    BY <2>1, <2>2
<1>5. w'.pc \notin SourcePcs /\ w'.pc # "release"
  BY <1>4, SilentPcs DEF TargetCleanupPcs
<1>6. QED
  BY <1>0, <1>1, <1>2, <1>3, <1>5, QuietSources

\* The steps of a cleanup up to the removal of the source: it is recorded as
\* read-only until it is gone.
LEMMA SourceCleanupSources ==
    ASSUME SourceInv, LockInv', StaleInv',
           \/ CleanupHashSource \/ CleanupCheckSource \/ CleanupPutPolicy
           \/ PurgeSource \/ RemoveSource \/ RecordSourceDeleted
    PROVE  SourceInv'
<1>0. w \in WorkerStates /\ TypeInv /\ ControlInv /\ UNCHANGED <<opt, mig>>
  BY SourceFacts
     DEF CleanupHashSource, CleanupCheckSource, CleanupPutPolicy, PurgeSource,
         RemoveSource, RecordSourceDeleted
<1>1. w.pc \in CleanupPcs \ {"cleanup"} /\ w.pc \notin {"idle"} \cup RevokedPcs
  BY RevokedApart DEF CleanupHashSource, CleanupCheckSource, CleanupPutPolicy, PurgeSource,
         RemoveSource, RecordSourceDeleted, CleanupPcs
<1>2. /\ w.cur \in Items /\ mig.status # "draft" /\ It.effects = {}
      /\ It \in ItemRows /\ Bk \in BucketStates
      /\ It = item[w.cur] /\ Bk = bucket[w.cur]
      /\ RowPlain(It) /\ BucketRecorded(It, Bk)
      /\ UNCHANGED item => item' = [item EXCEPT ![w.cur] = It]
      /\ UNCHANGED bucket => bucket' = [bucket EXCEPT ![w.cur] = Bk]
  BY <1>1, CleanupFacts
<1>3. StatusStep
  BY <1>0, <1>1, RunStatus
<1>4. ASSUME NEW row, NEW b, RowPlain(row), BucketRecorded(row, b),
             row.effects = {}, w'.pc \in SourcePcs =>
               w'.cur = w.cur /\ SourcePlace(w', row, b),
             w'.pc # "release", item' = [item EXCEPT ![w.cur] = row],
             bucket' = [bucket EXCEPT ![w.cur] = b]
      PROVE  SourceInv'
  <2>1. SourceStep(w.cur, row, b)
    BY <1>2, <1>4 DEF SourceStep
  <2>2. QED
    BY <1>0, <1>2, <1>3, <2>1, SourceStepInv
<1>p. /\ {"cs_check", "cs_record", "cs_purge", "cs_remove"} \cap PresentPcs = {}
      /\ {"cs_check", "cs_record"} \cap ReadOnlyPcs = {}
  BY DEF PresentPcs, ReadOnlyPcs, ItemPcs, OutsideItems, TransferPcs, ItemSteps
<1>q. ASSUME NEW row, NEW b,
             \/ w'.pc \in {"cs_check", "cs_purge", "cs_remove"} /\ row.ro
             \/ w'.pc = "cs_policy_put" /\ row.ro /\ b.source_exists
             \/ w'.pc = "cs_record" /\ Plain(b.source_policy)
      PROVE  SourcePlace(w', row, b) /\ w'.pc # "release"
  BY <1>p, <1>q DEF SourcePlace, TransferPlace, RecoveryPlace, CheckPlace
<1>5. CASE CleanupHashSource
  <2>1. It.ro
    BY <1>5 DEF CleanupHashSource, SourceInv, SourcePlace, TransferPlace,
                ReadOnlyPcs
  <2>2. CASE Bk.source = w.snap
    <3> DEFINE row == [It EXCEPT !.receipt = w.snap]
    <3>1. row.ro = It.ro /\ row.effects = It.effects /\ row.ro_backup = It.ro_backup
      BY <1>2 DEF ItemRows
    <3>2. item' = [item EXCEPT ![w.cur] = row] /\ UNCHANGED bucket
          /\ w'.pc = "cs_check" /\ w'.cur = w.cur
      BY <1>0, <1>5, <2>2, RunMoves DEF CleanupHashSource, SetItem
    <3> HIDE DEF row
    <3>3. RowPlain(row) /\ BucketRecorded(row, Bk) /\ row.effects = {}
      BY <1>2, <3>1 DEF RowPlain, BucketRecorded, Has
    <3>4. SourcePlace(w', row, Bk) /\ w'.pc # "release"
      BY <1>q, <2>1, <3>1, <3>2
    <3>5. QED
      BY <1>2, <1>4, <3>2, <3>3, <3>4
  <2>3. CASE Bk.source # w.snap
    BY <1>0, <1>2, <1>4, <1>5, <2>3, OtherMoves, SilentPcs
       DEF CleanupHashSource, CleanupRefused
  <2>4. QED
    BY <2>2, <2>3
<1>6. CASE CleanupCheckSource
  <2>1. UNCHANGED <<item, bucket>>
    BY <1>6 DEF CleanupCheckSource, CleanupRefused
  <2>2. CASE ~Bk.source_exists
    <3>1. w'.pc = "cs_record" /\ w'.cur = w.cur
      BY <1>0, <1>6, <2>2, RunMoves DEF CleanupCheckSource
    <3>2. Plain(Bk.source_policy)
      BY <1>2, <2>2 DEF BucketRecorded
    <3>3. QED
      BY <1>2, <1>4, <1>q, <2>1, <3>1, <3>2
  <2>3. CASE \E failed : NextCleanup(failed)
    BY <1>0, <1>2, <1>4, <2>1, <2>3, OtherMoves, SilentPcs
  <2>4. CASE /\ Bk.source_exists /\ Goto("cs_policy_put")
             /\ w.receipt => Bk.source_policy = BuildSourceCleanupPolicy(It.ro_backup)
    <3>1. It.ro
      <4>1. CASE w.receipt
        <5>1. ~Plain(Bk.source_policy)
          BY <2>4, <4>1 DEF Plain, BuildSourceCleanupPolicy, WithoutReadOnly
        <5>2. QED
          BY <1>2, <5>1 DEF BucketRecorded, Has
      <4>2. CASE ~w.receipt
        BY <1>6, <4>2 DEF CleanupCheckSource, SourceInv, SourcePlace, TransferPlace
      <4>3. QED
        BY <4>1, <4>2
    <3>2. w'.pc = "cs_policy_put" /\ w'.cur = w.cur
      BY <1>0, <2>4, RunMoves
    <3>3. QED
      BY <1>2, <1>4, <1>q, <2>1, <2>4, <3>1, <3>2
  <2>5. QED
    BY <1>6, <2>2, <2>3, <2>4 DEF CleanupCheckSource, CleanupRefused
<1>7. CASE CleanupPutPolicy
  <2> DEFINE b == [Bk EXCEPT !.source_policy = BuildSourceCleanupPolicy(It.ro_backup)]
  <2>1. It.ro /\ Bk.source_exists
    BY <1>7 DEF CleanupPutPolicy, SourceInv, SourcePlace, TransferPlace,
                ReadOnlyPcs, PresentPcs
  <2>2. b.source_exists = Bk.source_exists /\ b.probe = Bk.probe
    BY <1>2 DEF BucketStates
  <2>3. /\ bucket' = [bucket EXCEPT ![w.cur] = b] /\ UNCHANGED item
        /\ w'.pc = "cs_purge" /\ w'.cur = w.cur
    BY <1>0, <1>7, RunMoves DEF CleanupPutPolicy, SetBucket
  <2> HIDE DEF b
  <2>4. BucketRecorded(It, b)
    BY <1>2, <2>1, <2>2 DEF BucketRecorded
  <2>5. QED
    BY <1>2, <1>4, <1>q, <2>1, <2>3, <2>4
<1>8. CASE PurgeSource
  <2> DEFINE b == [Bk EXCEPT !.source = Empty]
  <2>1. It.ro
    BY <1>8 DEF PurgeSource, SourceInv, SourcePlace, TransferPlace, ReadOnlyPcs
  <2>2. /\ b.source_exists = Bk.source_exists /\ b.probe = Bk.probe
        /\ b.source_policy = Bk.source_policy
    BY <1>2 DEF BucketStates
  <2>3. /\ bucket' = [bucket EXCEPT ![w.cur] = b] /\ UNCHANGED item
        /\ w'.pc = "cs_remove" /\ w'.cur = w.cur
    BY <1>0, <1>8, RunMoves DEF PurgeSource, SetBucket
  <2> HIDE DEF b
  <2>4. BucketRecorded(It, b)
    BY <1>2, <2>1, <2>2 DEF BucketRecorded
  <2>5. QED
    BY <1>2, <1>4, <1>q, <2>1, <2>3, <2>4
<1>9. CASE RemoveSource
  <2> DEFINE b == [Bk EXCEPT !.source_exists = FALSE, !.source_policy = {}]
  <2>1. b.source_policy = {} /\ b.probe = Bk.probe
    BY <1>2 DEF BucketStates
  <2>2. /\ bucket' = [bucket EXCEPT ![w.cur] = b] /\ UNCHANGED item
        /\ w'.pc = "cs_record" /\ w'.cur = w.cur
    BY <1>0, <1>9, RunMoves DEF RemoveSource, SetBucket
  <2> HIDE DEF b
  <2>3. Plain(b.source_policy) /\ BucketRecorded(It, b)
    BY <1>2, <2>1 DEF BucketRecorded, Plain
  <2>4. QED
    BY <1>2, <1>4, <1>q, <2>2, <2>3
<1>10. CASE RecordSourceDeleted
  <2> DEFINE row == [It EXCEPT !.source_deleted = TRUE, !.ro = FALSE, !.ro_backup = {}]
  <2>1. row.effects = It.effects /\ row.ro_backup = {}
    BY <1>2 DEF ItemRows
  <2>2. /\ item' = [item EXCEPT ![w.cur] = row] /\ UNCHANGED bucket
        /\ w'.pc = "cs_unlock" /\ w'.cur = w.cur
    BY <1>0, <1>10, RunMoves DEF RecordSourceDeleted, SetItem
  <2>3. Plain(Bk.source_policy)
    BY <1>10 DEF RecordSourceDeleted, SourceInv, SourcePlace, TransferPlace
  <2> HIDE DEF row
  <2>4. RowPlain(row) /\ BucketRecorded(row, Bk) /\ row.effects = {}
    BY <1>2, <2>1, <2>3 DEF RowPlain, BucketRecorded, Has, Plain
  <2>5. QED
    BY <1>2, <1>4, <2>2, <2>4, SilentPcs
<1>11. QED
  BY <1>5, <1>6, <1>7, <1>8, <1>9, <1>10

\* The tasks of a check that tries no grant: the read-only policy, the probe
\* bucket, its removal.
LEMMA CheckTasks ==
    ASSUME ~opt.grant
    PROVE  /\ TaskAfter(0) = 2 /\ TaskAfter(2) = 3 /\ TaskAfter(3) = 5
           /\ TaskAfter(5) = 0
           /\ EffectOf(2) = "source_policy"
           /\ EffectOf(3) = "probe_bucket" /\ EffectOf(5) = "probe_bucket"
  BY DEF TaskAfter, EffectOf

\* A task begins with nothing to account for.
LEMMA TaskMoves ==
    ASSUME w \in WorkerStates, NEW task \in {0, 2, 3, 5}, NEW failed,
           BeginTask(task, failed)
    PROVE  /\ w'.pc # "release"
           /\ w'.pc \in SourcePcs => w'.cur = w.cur
           /\ \A row, b : SourcePlace(w', row, b)
<1>1. CASE task = 0
  <2>1. w'.pc = "check_item"
    BY <1>1 DEF BeginTask, WorkerStates
  <2>2. QED
    BY <2>1, SilentPcs, SilentPlaces
<1>2. CASE task # 0
  <2>1. /\ w'.cur = w.cur /\ w'.task = task
        /\ w'.pc = IF task = 5 THEN "check_restore" ELSE "check_begin"
    BY <1>2 DEF BeginTask, WorkerStates
  <2>2. {"check_restore", "check_begin"} \cap (PresentPcs \cup ReadOnlyPcs) = {}
    BY DEF PresentPcs, ReadOnlyPcs, ItemPcs, OutsideItems, TransferPcs, ItemSteps
  <2>3. w'.pc \in {"check_restore", "check_begin"} /\ task \in {2, 3, 5}
    BY <1>2, <2>1
  <2>4. \A row, b : TransferPlace(w', row, b) /\ RecoveryPlace(w', row, b)
    BY <2>2, <2>3 DEF TransferPlace, RecoveryPlace
  <2>5. \A row, b : CheckPlace(w', row, b)
    BY <2>1, <2>3 DEF CheckPlace
  <2>6. QED
    BY <2>1, <2>3, <2>4, <2>5 DEF SourcePlace
<1>3. QED
  BY <1>1, <1>2

\* The checks run on a draft: no source is recorded as read-only.
LEMMA CheckFacts ==
    ASSUME SourceInv, w.pc \in CheckPcs
    PROVE  /\ mig.status = "draft" /\ w.pc \notin {"idle"} \cup RevokedPcs
           /\ w.pc # "check_item" => w.cur \in Items
           /\ w.cur \in Items =>
                /\ It \in ItemRows /\ Bk \in BucketStates
                /\ It = item[w.cur] /\ Bk = bucket[w.cur]
                /\ RowPlain(It) /\ BucketRecorded(It, Bk)
                /\ ~It.ro /\ Bk.source_exists
                /\ UNCHANGED item => item' = [item EXCEPT ![w.cur] = It]
                /\ UNCHANGED bucket => bucket' = [bucket EXCEPT ![w.cur] = Bk]
<1>1. ControlInv
  BY SourceFacts
<1>2. mig.status = "draft"
  BY <1>1 DEF ControlInv, PhaseOK, InChecks, WorkflowsExclusive
<1>3. /\ w.pc \notin {"idle"} \cup RevokedPcs
      /\ w.pc # "check_item" => w.cur \in Items
  BY <1>1, RevokedApart DEF ControlInv, TypeInv, CurOK, FreePcs, CheckPcs
<1>4. w.cur \in Items => ~It.ro /\ Bk.source_exists
  BY <1>2 DEF SourceInv, RecordsByStatus, It, Bk
<1>5. QED
  BY <1>2, <1>3, <1>4, SourceFacts

\* The steps of the checks that change nothing.
LEMMA CheckQuietSources ==
    ASSUME SourceInv, LockInv', StaleInv',
           \/ CheckItem \/ (JournalEffect /\ Journalled(w.task))
           \/ (CheckFault /\ w.pc # "check_put")
           \/ ReportChecks \/ ChecksInterrupted
    PROVE  SourceInv'
<1>0. w \in WorkerStates /\ TypeInv /\ ~opt.grant
  BY SourceFacts DEF SourceInv
<1>1. UNCHANGED <<opt, item, bucket>>
  BY DEF CheckItem, JournalEffect, CheckFault, ReportChecks, ChecksInterrupted
<1>2. SameRecords /\ SameSources
  BY <1>0, <1>1, SourcesSame DEF SameRecords, KeepsRecords
<1>3. w.pc \in CheckPcs
  BY DEF CheckItem, JournalEffect, CheckFault, ReportChecks, ChecksInterrupted,
         CheckPcs
<1>4. StatusStep
  <2>1. CASE ReportChecks \/ ChecksInterrupted
    BY <2>1, OtherStatus
  <2>2. CASE ~(ReportChecks \/ ChecksInterrupted)
    BY <1>3, <2>2, CheckFacts, RunStatus DEF CheckItem, JournalEffect, CheckFault
  <2>3. QED
    BY <2>1, <2>2
<1>5. CASE ReportChecks \/ ChecksInterrupted
  <2>1. w' = IdleWorker
    BY <1>5 DEF ReportChecks, ChecksInterrupted
  <2>2. w'.pc = "idle"
    BY <1>0, <2>1, OtherMoves
  <2>3. QED
    BY <1>1, <1>2, <1>4, <2>2, SilentPcs, QuietSources
<1>6. CASE \/ CheckItem \/ (JournalEffect /\ Journalled(w.task))
           \/ (CheckFault /\ w.pc # "check_put")
  <2>1. \E task \in {0, 2, 3, 5} : \E failed : BeginTask(task, failed)
    <3>1. CASE CheckItem
      BY <1>0, <3>1, CheckTasks DEF CheckItem
    <3>2. CASE w.pc = "check_begin" /\ BeginTask(TaskAfterRefusal, TRUE)
      <4>1. w.task \in {2, 3}
        BY <3>2 DEF SourceInv, SourcePlace, CheckPlace
      <4>2. TaskAfterRefusal \in {0, 3}
        BY <1>0, <4>1, CheckTasks DEF TaskAfterRefusal
      <4>3. QED
        BY <3>2, <4>2
    <3>3. CASE /\ w.pc \in {"check_restore", "check_clear"}
               /\ BeginTask(TaskAfterRefusal, TRUE)
      <4>1. w.task \in {2, 5}
        BY <3>3 DEF SourceInv, SourcePlace, CheckPlace
      <4>2. TaskAfterRefusal \in {0, 3}
        BY <1>0, <4>1, CheckTasks DEF TaskAfterRefusal
      <4>3. QED
        BY <3>3, <4>2
    <3>4. QED
      BY <1>6, <3>1, <3>2, <3>3 DEF JournalEffect, CheckFault
  <2>2. PICK task \in {0, 2, 3, 5} : \E failed : BeginTask(task, failed)
    BY <2>1
  <2>3. w'.pc # "release" /\ SourcePlace(w', It', Bk')
    BY <1>0, <2>2, TaskMoves
  <2>4. QED
    BY <1>1, <1>2, <1>4, <2>3, QuietSources
<1>7. QED
  BY <1>5, <1>6

\* A task journals its change: the policy it journals is the customer's own.
LEMMA JournalEffectSources ==
    ASSUME SourceInv, LockInv', StaleInv', JournalEffect, ~Journalled(w.task)
    PROVE  SourceInv'
<1>0. w \in WorkerStates /\ ~opt.grant /\ w.pc = "check_begin"
  BY SourceFacts DEF SourceInv, JournalEffect
<1>1. w.pc \in CheckPcs /\ w.pc # "check_item"
  BY <1>0 DEF CheckPcs
<1>2. /\ mig.status = "draft" /\ w.pc \notin {"idle"} \cup RevokedPcs /\ w.cur \in Items
      /\ It \in ItemRows /\ RowPlain(It) /\ BucketRecorded(It, Bk)
      /\ ~It.ro /\ Bk.source_exists /\ UNCHANGED <<opt, mig>>
      /\ bucket' = [bucket EXCEPT ![w.cur] = Bk]
  BY <1>1, CheckFacts DEF JournalEffect
<1>3. StatusStep
  BY <1>2, RunStatus
<1>4. w.task \in {2, 3}
  BY <1>0 DEF SourceInv, SourcePlace, CheckPlace
<1> DEFINE e == [name |-> EffectOf(w.task), at |-> w.task,
                 policy |-> IF w.task = 3 THEN {} ELSE Bk.source_policy]
           row == [It EXCEPT !.effects = It.effects \cup {e}]
<1>5. /\ item' = [item EXCEPT ![w.cur] = row]
      /\ w' = [w EXCEPT !.pc = "check_put", !.policy = Bk.source_policy]
  BY DEF JournalEffect, SetItem
<1>6. /\ row.effects = It.effects \cup {e} /\ row.ro = It.ro
      /\ row.ro_backup = It.ro_backup
  BY <1>2 DEF ItemRows
<1>7. e.name = EffectOf(w.task) /\ e.at = w.task
      /\ e.policy = IF w.task = 3 THEN {} ELSE Bk.source_policy
  OBVIOUS
<1>8. w'.pc = "check_put" /\ w'.cur = w.cur /\ w'.policy = Bk.source_policy
      /\ w'.task = w.task
  BY <1>0, <1>5 DEF WorkerStates
<1> HIDE DEF e, row
<1>9. w.task = 2 => Plain(Bk.source_policy)
  <2>1. w.task = 2 => ~Has(It, "source_policy")
    BY <1>0, CheckTasks DEF Journalled, Has
  <2>2. QED
    BY <1>2, <2>1 DEF BucketRecorded
<1>10. \/ w.task = 2 /\ e.name = "source_policy"
       \/ w.task = 3 /\ e.name = "probe_bucket"
  BY <1>0, <1>4, <1>7, CheckTasks
<1>11. Plain(e.policy)
  BY <1>4, <1>7, <1>9 DEF Plain
<1>12. RowPlain(row)
  BY <1>2, <1>6, <1>7, <1>10, <1>11 DEF RowPlain
<1>13. Has(row, e.name) /\ \A name : Has(It, name) => Has(row, name)
  BY <1>6 DEF Has
<1>14. BucketRecorded(row, Bk)
  BY <1>2, <1>6, <1>13 DEF BucketRecorded
<1>15. SourcePlace(w', row, Bk)
  <2>1. "check_put" \notin PresentPcs \cup ReadOnlyPcs
    BY DEF PresentPcs, ReadOnlyPcs, ItemPcs, OutsideItems, TransferPcs, ItemSteps
  <2>2. TransferPlace(w', row, Bk) /\ RecoveryPlace(w', row, Bk)
    BY <1>8, <2>1 DEF TransferPlace, RecoveryPlace
  <2>3. CheckPlace(w', row, Bk)
    BY <1>8, <1>9, <1>10, <1>13 DEF CheckPlace
  <2>4. QED
    BY <2>2, <2>3 DEF SourcePlace
<1>16. SourceStep(w.cur, row, Bk)
  BY <1>2, <1>5, <1>6, <1>8, <1>12, <1>14, <1>15 DEF SourceStep
<1>17. QED
  BY <1>2, <1>3, <1>16, SourceStepInv

\* The change itself, whether the call answers or fails.
LEMMA ApplyChangeSources ==
    ASSUME SourceInv, LockInv', StaleInv', w.pc = "check_put",
           ApplyChange \/ CheckFault
    PROVE  SourceInv'
<1>0. w \in WorkerStates /\ ~opt.grant
  BY SourceFacts DEF SourceInv
<1>1. w.pc \in CheckPcs /\ w.pc # "check_item"
  BY DEF CheckPcs
<1>2. /\ mig.status = "draft" /\ w.pc \notin {"idle"} \cup RevokedPcs /\ w.cur \in Items
      /\ Bk \in BucketStates /\ RowPlain(It) /\ BucketRecorded(It, Bk)
      /\ ~It.ro /\ Bk.source_exists /\ UNCHANGED <<opt, mig>>
      /\ item' = [item EXCEPT ![w.cur] = It]
  BY <1>1, CheckFacts DEF ApplyChange, CheckFault
<1>3. StatusStep
  BY <1>2, RunStatus
<1>4. \/ w.task = 2 /\ Plain(w.policy) /\ Has(It, "source_policy")
      \/ w.task = 3 /\ Has(It, "probe_bucket")
  BY DEF SourceInv, SourcePlace, CheckPlace
<1>5. PICK b \in {Bk, Changed} : bucket' = [bucket EXCEPT ![w.cur] = b]
  BY <1>1, CheckFacts, <1>2 DEF ApplyChange, CheckFault, SetBucket
<1>6. PICK failed \in BOOLEAN : AfterChange(failed)
  BY DEF ApplyChange, CheckFault
<1>7. /\ b.source_exists
      /\ b.probe => Has(It, "probe_bucket")
      /\ Plain(b.source_policy) \/ Has(It, "source_policy")
  <2>1. CASE b = Bk
    BY <1>2, <2>1 DEF BucketRecorded
  <2>2. CASE w.task = 2 /\ b = Changed
    <3>1. b = [Bk EXCEPT !.source_policy = BuildReadOnlyPolicy(w.policy)]
      BY <2>2 DEF Changed
    <3>2. b.source_exists = Bk.source_exists /\ b.probe = Bk.probe
      BY <1>2, <3>1 DEF BucketStates
    <3>3. QED
      BY <1>2, <1>4, <2>2, <3>2 DEF BucketRecorded
  <2>3. CASE w.task = 3 /\ b = Changed
    <3>1. b = [Bk EXCEPT !.probe = TRUE]
      BY <2>3 DEF Changed
    <3>2. /\ b.source_exists = Bk.source_exists
          /\ b.source_policy = Bk.source_policy
      BY <1>2, <3>1 DEF BucketStates
    <3>3. QED
      BY <1>2, <1>4, <2>3, <3>2 DEF BucketRecorded
  <2>4. QED
    BY <1>4, <1>5, <2>1, <2>2, <2>3
<1>8. BucketRecorded(It, b)
  BY <1>7 DEF BucketRecorded
<1>9. /\ w'.pc # "release" /\ SourcePlace(w', It, b)
      /\ w'.pc \in SourcePcs => w'.cur = w.cur
  <2>1. CASE w.task = 3
    <3>1. BeginTask(5, failed)
      BY <1>0, <1>6, <2>1, CheckTasks DEF AfterChange
    <3>2. QED
      BY <1>0, <3>1, TaskMoves
  <2>2. CASE w.task = 2
    <3>1. w' = [w EXCEPT !.pc = "check_restore", !.err = w.err \/ failed]
      BY <1>6, <2>2 DEF AfterChange
    <3>2. /\ w'.pc = "check_restore" /\ w'.cur = w.cur /\ w'.task = 2
          /\ w'.policy = w.policy
      BY <1>0, <2>2, <3>1 DEF WorkerStates
    <3>3. "check_restore" \notin PresentPcs \cup ReadOnlyPcs
      BY DEF PresentPcs, ReadOnlyPcs, ItemPcs, OutsideItems, TransferPcs, ItemSteps
    <3>4. TransferPlace(w', It, b) /\ RecoveryPlace(w', It, b)
      BY <3>2, <3>3 DEF TransferPlace, RecoveryPlace
    <3>5. CheckPlace(w', It, b)
      BY <1>4, <2>2, <3>2 DEF CheckPlace
    <3>6. QED
      BY <3>2, <3>4, <3>5 DEF SourcePlace
  <2>3. QED
    BY <1>4, <2>1, <2>2
<1>10. SourceStep(w.cur, It, b)
  BY <1>2, <1>5, <1>7, <1>8, <1>9 DEF SourceStep
<1>11. QED
  BY <1>2, <1>3, <1>10, SourceStepInv

\* The change is undone, then its entry goes.
LEMMA UndoChangeSources ==
    ASSUME SourceInv, LockInv', StaleInv', UndoChange \/ ClearEffect
    PROVE  SourceInv'
<1>0. w \in WorkerStates /\ ~opt.grant
  BY SourceFacts DEF SourceInv
<1>1. w.pc \in CheckPcs /\ w.pc # "check_item"
  BY DEF CheckPcs, UndoChange, ClearEffect
<1>2. /\ mig.status = "draft" /\ w.pc \notin {"idle"} \cup RevokedPcs /\ w.cur \in Items
      /\ It \in ItemRows /\ Bk \in BucketStates /\ RowPlain(It)
      /\ BucketRecorded(It, Bk)
      /\ ~It.ro /\ Bk.source_exists /\ UNCHANGED <<opt, mig>>
      /\ UNCHANGED item => item' = [item EXCEPT ![w.cur] = It]
      /\ UNCHANGED bucket => bucket' = [bucket EXCEPT ![w.cur] = Bk]
  BY <1>1, CheckFacts DEF UndoChange, ClearEffect
<1>3. StatusStep
  BY <1>2, RunStatus
<1>4. CASE UndoChange
  <2>1. (w.task = 2 /\ Plain(w.policy)) \/ w.task = 5
    BY <1>4 DEF UndoChange, SourceInv, SourcePlace, CheckPlace
  <2>2. /\ UNCHANGED item /\ w'.pc = "check_clear" /\ w'.cur = w.cur
        /\ w'.task = w.task
    BY <1>0, <1>4 DEF UndoChange, Goto, WorkerStates
  <2> DEFINE b == IF w.task = 5 THEN [Bk EXCEPT !.probe = FALSE]
                  ELSE [Bk EXCEPT !.source_policy = w.policy]
  <2>3. bucket' = [bucket EXCEPT ![w.cur] = b]
    BY <1>4 DEF UndoChange, SetBucket
  <2>4. /\ b.source_exists = Bk.source_exists
        /\ w.task = 5 => b.probe = FALSE /\ b.source_policy = Bk.source_policy
        /\ w.task = 2 => b.source_policy = w.policy /\ b.probe = Bk.probe
    <3> DEFINE p == [Bk EXCEPT !.probe = FALSE]
               q == [Bk EXCEPT !.source_policy = w.policy]
    <3>1. /\ p.source_exists = Bk.source_exists /\ p.probe = FALSE
          /\ p.source_policy = Bk.source_policy
      BY <1>2 DEF BucketStates
    <3>2. /\ q.source_exists = Bk.source_exists /\ q.probe = Bk.probe
          /\ q.source_policy = w.policy
      BY <1>2 DEF BucketStates
    <3>3. b = IF w.task = 5 THEN p ELSE q
      OBVIOUS
    <3> HIDE DEF b, p, q
    <3>4. QED
      BY <3>1, <3>2, <3>3
  <2> HIDE DEF b
  <2>5. BucketRecorded(It, b)
    BY <1>2, <2>1, <2>4 DEF BucketRecorded
  <2>6. SourcePlace(w', It, b)
    <3>1. "check_clear" \notin PresentPcs \cup ReadOnlyPcs
      BY DEF PresentPcs, ReadOnlyPcs, ItemPcs, OutsideItems, TransferPcs, ItemSteps
    <3>2. TransferPlace(w', It, b) /\ RecoveryPlace(w', It, b)
      BY <2>2, <3>1 DEF TransferPlace, RecoveryPlace
    <3>3. CheckPlace(w', It, b)
      BY <2>1, <2>2, <2>4 DEF CheckPlace
    <3>4. QED
      BY <3>2, <3>3 DEF SourcePlace
  <2>7. SourceStep(w.cur, It, b)
    <3>1. b.source_exists /\ item' = [item EXCEPT ![w.cur] = It]
      BY <1>2, <2>2, <2>4
    <3>2. QED
      BY <1>2, <2>2, <2>3, <2>5, <2>6, <3>1 DEF SourceStep
  <2>8. QED
    BY <1>2, <1>3, <2>7, SourceStepInv
<1>5. CASE ClearEffect
  <2>1. \/ w.task = 2 /\ Plain(Bk.source_policy) /\ EffectOf(w.task) = "source_policy"
        \/ w.task = 5 /\ ~Bk.probe /\ EffectOf(w.task) = "probe_bucket"
    BY <1>0, <1>5, CheckTasks DEF ClearEffect, SourceInv, SourcePlace, CheckPlace
  <2> DEFINE row == [It EXCEPT !.effects =
                       {e \in It.effects : e.name # EffectOf(w.task)}]
  <2>2. /\ row.ro = It.ro /\ row.ro_backup = It.ro_backup
        /\ row.effects = {e \in It.effects : e.name # EffectOf(w.task)}
    BY <1>2 DEF ItemRows
  <2>3. item' = [item EXCEPT ![w.cur] = row] /\ UNCHANGED bucket
    BY <1>5 DEF ClearEffect, SetItem
  <2> HIDE DEF row
  <2>4. RowPlain(row)
    BY <1>2, <2>2 DEF RowPlain
  <2>5. \A name : name # EffectOf(w.task) /\ Has(It, name) => Has(row, name)
    BY <2>2 DEF Has
  <2>6. BucketRecorded(row, Bk)
    BY <1>2, <2>1, <2>2, <2>5 DEF BucketRecorded
  <2>7. /\ w'.pc # "release" /\ SourcePlace(w', row, Bk)
        /\ w'.pc \in SourcePcs => w'.cur = w.cur
    <3>1. PICK task \in {0, 3} : BeginTask(task, FALSE)
      BY <1>0, <1>5, <2>1, CheckTasks DEF ClearEffect
    <3>2. QED
      BY <1>0, <3>1, TaskMoves
  <2>8. SourceStep(w.cur, row, Bk)
    BY <1>2, <2>2, <2>3, <2>4, <2>6, <2>7 DEF SourceStep
  <2>9. QED
    BY <1>2, <1>3, <2>8, SourceStepInv
<1>6. QED
  BY <1>4, <1>5

\* The checks of a draft.
LEMMA PreparationSources ==
    ASSUME SourceInv, LockInv', StaleInv', Preparation \/ PreparationFaults
    PROVE  SourceInv'
<1>1. CASE CheckFault
  BY <1>1, CheckQuietSources, ApplyChangeSources
<1>2. CASE JournalEffect
  BY <1>2, CheckQuietSources, JournalEffectSources
<1>3. CASE ApplyChange
  BY <1>3, ApplyChangeSources DEF ApplyChange
<1>4. QED
  BY <1>1, <1>2, <1>3, CheckQuietSources, UndoChangeSources
     DEF Preparation, PreparationFaults

\* Only a draft has entries to recover.
LEMMA RecoverDraft ==
    ASSUME SourceInv, NEW i \in Items, item[i].effects # {}
    PROVE  mig.status = "draft" /\ ~item[i].ro /\ bucket[i].source_exists
  BY DEF SourceInv, RecordsByStatus

\* _recover_preparation_effects: restore what the oldest entry says, then
\* clear it.
LEMMA RecoverEffectSources ==
    ASSUME SourceInv, LockInv', StaleInv', RecoverEffect PROVE SourceInv'
<1>0. w \in WorkerStates /\ bucket \in [Items -> BucketStates]
      /\ item \in [Items -> ItemRows] /\ UNCHANGED <<opt, mig, item>>
      /\ w.pc = "recover"
  BY SourceFacts DEF RecoverEffect
<1> DEFINE Recovered(i, e) == IF e.name = "probe_bucket"
                              THEN [bucket[i] EXCEPT !.probe = FALSE]
                              ELSE [bucket[i] EXCEPT !.source_policy = e.policy]
<1>1. \E i \in Items : \E e \in item[i].effects :
        /\ IsFirstEffect(e, item[i].effects)
        /\ bucket' = [bucket EXCEPT ![i] = Recovered(i, e)]
        /\ w' = [w EXCEPT !.pc = "recover_clear", !.cur = i]
  BY <1>0 DEF RecoverEffect
<1>2. PICK i \in Items : \E e \in item[i].effects :
        /\ IsFirstEffect(e, item[i].effects)
        /\ bucket' = [bucket EXCEPT ![i] = Recovered(i, e)]
        /\ w' = [w EXCEPT !.pc = "recover_clear", !.cur = i]
  BY <1>1
<1>3. PICK e \in item[i].effects :
        /\ IsFirstEffect(e, item[i].effects)
        /\ bucket' = [bucket EXCEPT ![i] = Recovered(i, e)]
        /\ w' = [w EXCEPT !.pc = "recover_clear", !.cur = i]
  BY <1>2
<1>4. /\ mig.status = "draft" /\ ~item[i].ro /\ bucket[i].source_exists
      /\ RowPlain(item[i]) /\ BucketRecorded(item[i], bucket[i])
      /\ bucket[i] \in BucketStates
  BY <1>0, RecoverDraft, SourceFacts
<1>5. /\ Plain(e.policy)
      /\ \/ e.name = "source_policy" /\ e.at = 2
         \/ e.name = "probe_bucket" /\ e.at = 3
  BY <1>4 DEF RowPlain
<1> DEFINE b == Recovered(i, e)
           p == [bucket[i] EXCEPT !.probe = FALSE]
           q == [bucket[i] EXCEPT !.source_policy = e.policy]
<1>6. /\ p.source_exists = bucket[i].source_exists /\ p.probe = FALSE
      /\ p.source_policy = bucket[i].source_policy
  BY <1>4 DEF BucketStates
<1>7. /\ q.source_exists = bucket[i].source_exists /\ q.probe = bucket[i].probe
      /\ q.source_policy = e.policy
  BY <1>4 DEF BucketStates
<1>8. /\ b = IF e.name = "probe_bucket" THEN p ELSE q
      /\ bucket' = [bucket EXCEPT ![i] = b]
      /\ item' = [item EXCEPT ![i] = item[i]]
  BY <1>0, <1>3
<1>9. w'.pc = "recover_clear" /\ w'.cur = i
  BY <1>0, <1>3 DEF WorkerStates
<1> HIDE DEF b, p, q, Recovered
<1>10. /\ b.source_exists
       /\ e.name = "probe_bucket" => ~b.probe /\ b.source_policy = bucket[i].source_policy
       /\ e.name = "source_policy" => b.probe = bucket[i].probe /\ Plain(b.source_policy)
  BY <1>4, <1>5, <1>6, <1>7, <1>8
<1>11. BucketRecorded(item[i], b)
  BY <1>4, <1>5, <1>10 DEF BucketRecorded
<1>12. \A f \in item[i].effects : IsFirstEffect(f, item[i].effects) => f.name = e.name
  BY <1>3, <1>4, <1>5 DEF IsFirstEffect, RowPlain
<1>13. SourcePlace(w', item[i], b)
  <2>1. "recover_clear" \notin PresentPcs \cup ReadOnlyPcs
    BY DEF PresentPcs, ReadOnlyPcs, ItemPcs, OutsideItems, TransferPcs, ItemSteps
  <2>2. TransferPlace(w', item[i], b) /\ CheckPlace(w', item[i], b)
    BY <1>9, <2>1 DEF TransferPlace, CheckPlace
  <2>3. RecoveryPlace(w', item[i], b)
    BY <1>5, <1>10, <1>12 DEF RecoveryPlace
  <2>4. QED
    BY <2>2, <2>3 DEF SourcePlace
<1>14. SourceStep(i, item[i], b)
  BY <1>4, <1>8, <1>9, <1>10, <1>11, <1>13 DEF SourceStep
<1>15. StatusStep
  BY <1>0, RunStatus DEF RevokedPcs
<1>16. QED
  BY <1>0, <1>14, <1>15, SourceStepInv

LEMMA ClearRecoveredSources ==
    ASSUME SourceInv, LockInv', StaleInv', ClearRecoveredEffect PROVE SourceInv'
<1>0. /\ w \in WorkerStates /\ ControlInv /\ UNCHANGED <<opt, mig, bucket>>
      /\ w.pc = "recover_clear"
  BY SourceFacts DEF ClearRecoveredEffect
<1>1. w.cur \in Items
  BY <1>0 DEF ControlInv, TypeInv, CurOK, FreePcs
<1>2. PICK e \in It.effects :
        /\ IsFirstEffect(e, It.effects)
        /\ SetItem([It EXCEPT !.effects = It.effects \ {e}])
  BY DEF ClearRecoveredEffect
<1>3. /\ It \in ItemRows /\ It = item[w.cur] /\ Bk = bucket[w.cur]
      /\ RowPlain(It) /\ BucketRecorded(It, Bk)
      /\ bucket' = [bucket EXCEPT ![w.cur] = Bk]
  BY <1>0, <1>1, SourceFacts
<1>4. mig.status = "draft" /\ ~It.ro /\ Bk.source_exists
  BY <1>1, <1>2, <1>3, RecoverDraft
<1>5. /\ e.name \in {"source_policy", "probe_bucket"}
      /\ e.name = "probe_bucket" => ~Bk.probe
      /\ e.name = "source_policy" => Plain(Bk.source_policy)
  BY <1>0, <1>2, <1>3 DEF SourceInv, SourcePlace, RecoveryPlace, RowPlain
<1> DEFINE row == [It EXCEPT !.effects = It.effects \ {e}]
<1>6. /\ row.ro = It.ro /\ row.ro_backup = It.ro_backup
      /\ row.effects = It.effects \ {e}
  BY <1>3 DEF ItemRows
<1>7. item' = [item EXCEPT ![w.cur] = row]
  BY <1>2 DEF SetItem
<1> HIDE DEF row
<1>8. RowPlain(row)
  BY <1>3, <1>6 DEF RowPlain
<1>9. \A name : name # e.name /\ Has(It, name) => Has(row, name)
  BY <1>6 DEF Has
<1>10. BucketRecorded(row, Bk)
  BY <1>3, <1>4, <1>5, <1>6, <1>9 DEF BucketRecorded
<1>11. w'.pc = "recover"
  BY <1>0, RunMoves DEF ClearRecoveredEffect
<1>12. w'.pc \notin SourcePcs /\ w'.pc # "release"
  BY <1>11, SilentPcs
<1>13. SourceStep(w.cur, row, Bk)
  BY <1>3, <1>4, <1>6, <1>7, <1>8, <1>10, <1>12 DEF SourceStep
<1>14. StatusStep
  BY <1>0, RunStatus DEF RevokedPcs
<1>15. QED
  BY <1>0, <1>1, <1>13, <1>14, SourceStepInv

\* The beginning and the ends of a recovery.
LEMMA RecoveryQuietSources ==
    ASSUME SourceInv, LockInv', StaleInv',
           BeginMaintenance \/ RecoveryDone \/ RecoveryFault \/ MaintenanceFault
    PROVE  SourceInv'
<1>0. w \in WorkerStates /\ TypeInv /\ UNCHANGED <<opt, item, bucket>>
  BY SourceFacts DEF BeginMaintenance, RecoveryDone, RecoveryFault, MaintenanceFault
<1>1. SameRecords /\ SameSources
  BY <1>0, SourcesSame DEF SameRecords, KeepsRecords
<1>2. StatusStep
  BY RunStatus, OtherStatus DEF RecoveryDone, RevokedPcs
<1>3. /\ w'.pc \in {"recover", "cleanup", "release", "check_item", "idle"}
      /\ w'.pc = "release" => w'.released = {}
  <2>1. CASE BeginMaintenance
    BY <1>0, <2>1 DEF BeginMaintenance, WorkerStates
  <2>2. CASE RecoveryDone
    <3>1. w'.released = w.released /\ w'.pc \in {"release", "check_item"}
      BY <1>0, <2>2 DEF RecoveryDone, WorkerStates
    <3>2. w.released = {}
      BY <2>2 DEF RecoveryDone, SourceInv, LockInv, LockPlaces
    <3>3. QED
      BY <3>1, <3>2
  <2>3. CASE RecoveryFault \/ MaintenanceFault
    BY <1>0, <2>3, OtherMoves DEF RecoveryFault, MaintenanceFault, FinishMaintenance
  <2>4. QED
    BY <2>1, <2>2, <2>3
<1>4. w'.pc \notin SourcePcs
  BY <1>3, SilentPcs
<1>5. QED
  BY <1>0, <1>1, <1>2, <1>3, <1>4, QuietSources

\* A released bucket: a source has the customer's own policy again.
LEMMA ReleasedSource ==
    ASSUME SourceInv, NEW r \in Releases
    PROVE  LET b == bucket[r.item]
               q == Released(r)
           IN  /\ q.source_exists = b.source_exists /\ q.probe = b.probe
               /\ q.source = b.source
               /\ r.kind = "source" => Plain(q.source_policy)
               /\ r.kind = "target" => q.source_policy = b.source_policy
<1>1. /\ r.item \in Items /\ r.kind \in {"source", "target"}
      /\ bucket[r.item] \in BucketStates /\ RowPlain(item[r.item])
  BY SourceFacts DEF Releases
<1> DEFINE b == bucket[r.item]
<1>2. CASE r.kind = "source"
  <2>1. Released(r) = [b EXCEPT !.source_policy = item[r.item].ro_backup]
    BY <1>2 DEF Released, BucketOf
  <2>2. QED
    BY <1>1, <1>2, <2>1 DEF RowPlain, BucketStates
<1>3. CASE r.kind = "target"
  <2> DEFINE p == IF item[r.item].lock_backup # {} THEN item[r.item].lock_backup
                  ELSE b.target_policy \ {"LOCK"}
  <2>1. Released(r) = [b EXCEPT !.target_policy = p]
    BY <1>3 DEF Released, BucketOf
  <2> HIDE DEF p
  <2>2. QED
    BY <1>1, <1>3, <2>1 DEF BucketStates
<1>4. QED
  BY <1>1, <1>2, <1>3

\* What the end of a release leaves of the record of a source.
LEMMA UnprotectedSource ==
    ASSUME item \in [Items -> ItemRows], NEW i \in Items
    PROVE  /\ [kind |-> "source", item |-> i] \notin w.released =>
                Unprotected(i).ro = item[i].ro
           /\ Unprotected(i).ro => item[i].ro
<1> DEFINE row == [item[i] EXCEPT !.ro = FALSE, !.ro_backup = {}]
           base == IF [kind |-> "source", item |-> i] \in w.released
                   THEN row ELSE item[i]
<1>1. row \in ItemRows /\ row.ro = FALSE /\ item[i] \in ItemRows
  BY DEF ItemRows, Policies
<1>2. /\ base \in ItemRows /\ (base.ro => item[i].ro)
      /\ [kind |-> "source", item |-> i] \notin w.released => base.ro = item[i].ro
  BY <1>1
<1>3. Unprotected(i) = IF [kind |-> "target", item |-> i] \in w.released
                       THEN [base EXCEPT !.locked = FALSE, !.lock_backup = {}]
                       ELSE base
  BY DEF Unprotected
<1> HIDE DEF base
<1>4. [base EXCEPT !.locked = FALSE, !.lock_backup = {}].ro = base.ro
  BY <1>2 DEF ItemRows
<1>5. QED
  BY <1>2, <1>3, <1>4

\* Releases, one bucket at a time.
LEMMA ReleaseStepSources ==
    ASSUME SourceInv, LockInv', StaleInv', ReleaseProtection \/ ReleaseFault
    PROVE  SourceInv'
<1>0. /\ w \in WorkerStates /\ bucket \in [Items -> BucketStates]
      /\ w.pc = "release" /\ UNCHANGED <<opt, mig, item>>
  BY SourceFacts DEF ReleaseProtection, ReleaseFault
<1>1. PICK r \in w.todo, ok \in BOOLEAN :
        /\ Drop(r, ok)
        /\ \/ UNCHANGED bucket /\ ~ok
           \/ bucket' = [bucket EXCEPT ![r.item] = Released(r)]
  BY DEF ReleaseProtection, ReleaseFault, PolicyVerified
<1>2. r \in Releases /\ r.item \in Items /\ r.kind \in {"source", "target"}
  BY <1>0 DEF WorkerStates, Releases
<1>3. /\ w'.pc = "release"
      /\ w'.released = IF ok THEN w.released \cup {r} ELSE w.released
  BY <1>0, <1>1 DEF Drop, WorkerStates
<1>4. \A i \in Items :
        /\ bucket'[i].source_exists = bucket[i].source_exists
        /\ bucket'[i].probe = bucket[i].probe
        /\ \/ bucket'[i].source_policy = bucket[i].source_policy
           \/ Plain(bucket'[i].source_policy)
  <2>1. CASE UNCHANGED bucket
    BY <2>1
  <2>2. CASE bucket' = [bucket EXCEPT ![r.item] = Released(r)]
    <3>1. \A i \in Items :
            bucket'[i] = IF i = r.item THEN Released(r) ELSE bucket[i]
      BY <1>0, <1>2, <2>2
    <3>2. QED
      BY <1>2, <3>1, ReleasedSource
  <2>3. QED
    BY <1>1, <2>1, <2>2
<1>5. ItemSources'
  BY <1>0, <1>4 DEF SourceInv, ItemSources, BucketRecorded
<1>6. RecordsByStatus'
  <2>1. Busy' = Busy /\ HasAccessProtection' = HasAccessProtection
    BY <1>0 DEF Busy, HasAccessProtection
  <2>2. QED
    BY <1>0, <1>4, <2>1 DEF SourceInv, RecordsByStatus
<1>7. SourcePlace(w, It, Bk)'
  BY <1>3, SilentPcs, SilentPlaces
<1>8. \A q \in w'.released :
        q.kind = "source" => Plain(bucket'[q.item].source_policy)
  <2>1. ASSUME NEW q \in w.released, q.kind = "source"
        PROVE  Plain(bucket'[q.item].source_policy)
    <3>1. q.item \in Items
      BY <1>0 DEF WorkerStates, Releases
    <3>2. Plain(bucket[q.item].source_policy)
      BY <1>0, <2>1 DEF SourceInv, ReleasedPlain
    <3>3. QED
      BY <1>4, <3>1, <3>2
  <2>2. CASE ok /\ r.kind = "source"
    <3>1. bucket'[r.item] = Released(r)
      BY <1>0, <1>1, <1>2, <2>2
    <3>2. Plain(bucket'[r.item].source_policy)
      BY <1>2, <2>2, <3>1, ReleasedSource
    <3>3. QED
      BY <1>3, <2>1, <3>2
  <2>3. CASE ~(ok /\ r.kind = "source")
    BY <1>3, <2>1, <2>3
  <2>4. QED
    BY <2>2, <2>3
<1>9. ReleasedPlain'
  BY <1>8 DEF ReleasedPlain
<1>10. QED
  BY <1>0, <1>5, <1>6, <1>7, <1>9 DEF SourceInv

\* The commits that record them.
LEMMA ReleaseEndSources ==
    ASSUME SourceInv, LockInv', StaleInv',
           CommitCanceled \/ CommitFinished \/ CommitRestored
    PROVE  SourceInv'
<1>0. item \in [Items -> ItemRows] /\ w \in WorkerStates
  BY SourceFacts
<1>1. UNCHANGED <<opt, bucket>> /\ w' = IdleWorker /\ w.pc = "release"
  BY DEF CommitCanceled, CommitFinished, CommitRestored, EndRelease
<1>2. StatusStep
  BY RunStatus, OtherStatus
<1>3. ASSUME NEW i \in Items
      PROVE  /\ item'[i].effects = item[i].effects
             /\ item'[i].ro_backup \in {item[i].ro_backup, {}}
             /\ item'[i].ro => item[i].ro
             /\ ~Plain(bucket[i].source_policy) => item'[i].ro = item[i].ro
  <2> DEFINE u == Unprotected(i)
             r == [kind |-> "source", item |-> i]
  <2>1. /\ u \in ItemRows /\ u.effects = item[i].effects
        /\ u.ro_backup \in {item[i].ro_backup, {}}
    BY <1>0, UnprotectedRow
  <2>2. (r \notin w.released => u.ro = item[i].ro) /\ (u.ro => item[i].ro)
    BY <1>0, UnprotectedSource
  <2>3. \/ item'[i] = u
        \/ item'[i] = [u EXCEPT !.status = "canceled"]
        \/ item'[i] = [u EXCEPT !.receipt = NoReceipt]
    BY DEF CommitCanceled, CommitFinished, CommitRestored
  <2> HIDE DEF u
  <2>4. /\ item'[i].effects = u.effects /\ item'[i].ro_backup = u.ro_backup
        /\ item'[i].ro = u.ro
    BY <2>1, <2>3 DEF ItemRows
  <2>5. r \in w.released => Plain(bucket[i].source_policy)
    BY <1>1 DEF SourceInv, ReleasedPlain
  <2>6. QED
    BY <2>1, <2>2, <2>4, <2>5
<1>4. ItemSources'
  BY <1>1, <1>3
     DEF SourceInv, ItemSources, RowPlain, BucketRecorded, Has, Plain
<1>5. RecordsByStatus'
  BY <1>1, <1>2, <1>3 DEF SourceInv, RecordsByStatus, StatusStep
<1>6. w'.pc = "idle"
  BY <1>0, <1>1, OtherMoves
<1>7. SourcePlace(w, It, Bk)' /\ ReleasedPlain'
  BY <1>6, SilentPcs, SilentPlaces DEF ReleasedPlain
<1>8. QED
  BY <1>1, <1>4, <1>5, <1>7 DEF SourceInv

\* A step of someone other than the worker: the places mean what they meant.
LEMMA OutsideSources ==
    ASSUME SourceInv, LockInv', StaleInv', ~opt'.grant, UNCHANGED w,
           SameRecords, SameSources, RecordsByStatus'
    PROVE  SourceInv'
<1>0. w \in WorkerStates /\ ControlInv
  BY SourceFacts
<1>1. ItemSources'
  BY DEF SourceInv, ItemSources, SameRecords, SameSources, KeepsRecords,
         KeepsSource, RowPlain, BucketRecorded, Has
<1>2. SourcePlace(w, It, Bk)'
  <2>1. CASE w.pc \in SourcePcs
    <3>1. w.pc \notin FreePcs
      BY <2>1 DEF SourcePcs, PresentPcs, ReadOnlyPcs, ItemPcs, OutsideItems, TransferPcs,
                  ItemSteps, FreePcs
    <3>2. w.cur \in Items
      BY <1>0, <3>1 DEF ControlInv, TypeInv, CurOK
    <3>3. KeepsRecords(It', It) /\ KeepsSource(Bk', Bk)
      BY <3>2 DEF SameRecords, SameSources, It, Bk
    <3>4. SourcePlace(w, It, Bk)
      BY DEF SourceInv
    <3>5. TransferPlace(w, It', Bk') /\ RecoveryPlace(w, It', Bk')
      BY <3>3, <3>4 DEF KeepsRecords, KeepsSource, SourcePlace, TransferPlace,
                        RecoveryPlace
    <3>6. CheckPlace(w, It', Bk')
      BY <3>3, <3>4 DEF KeepsRecords, KeepsSource, SourcePlace, CheckPlace, Has
    <3>7. QED
      BY <3>5, <3>6 DEF SourcePlace
  <2>2. CASE w.pc \notin SourcePcs
    BY <2>2, SilentPlaces
  <2>3. QED
    BY <2>1, <2>2
<1>3. ReleasedPlain'
  <2> SUFFICES ASSUME w.pc = "release", NEW r \in w.released, r.kind = "source"
               PROVE  Plain(bucket'[r.item].source_policy)
    BY DEF ReleasedPlain
  <2>1. r.item \in Items
    BY <1>0 DEF WorkerStates, Releases
  <2>2. Plain(bucket[r.item].source_policy)
    BY DEF SourceInv, ReleasedPlain
  <2>3. QED
    BY <2>1, <2>2 DEF SameSources, KeepsSource
<1>4. QED
  BY <1>1, <1>2, <1>3 DEF SourceInv

\* Clients, and a lease that goes by.
LEMMA ClientSources ==
    ASSUME SourceInv, LockInv', StaleInv', Client \/ LeaseExpires \/ UNCHANGED vars
    PROVE  SourceInv'
<1>0. bucket \in [Items -> BucketStates] /\ mig \in MigrationRows /\ ~opt.grant
  BY SourceFacts DEF SourceInv
<1>1. UNCHANGED <<opt, item, w>>
  BY DEF Client, ClientWritesSource, ClientWritesTarget, OtherCreatesTarget,
         LeaseExpires, vars
<1>2. SameRecords
  BY <1>1 DEF SameRecords, KeepsRecords
<1>3. SameSources
  <2>1. CASE UNCHANGED bucket
    BY <2>1 DEF SameSources, KeepsSource
  <2>2. CASE Client
    <3>1. PICK i \in Items : \/ ClientWritesSource(i) \/ ClientWritesTarget(i)
                            \/ OtherCreatesTarget(i)
      BY <2>2 DEF Client
    <3>2. \A j \in Items : KeepsSource(bucket'[j], bucket[j])
      BY <1>0, <3>1 DEF ClientWritesSource, ClientWritesTarget,
                        OtherCreatesTarget, BucketStates, KeepsSource
    <3>3. QED
      BY <3>2 DEF SameSources
  <2>3. QED
    BY <2>1, <2>2 DEF LeaseExpires, vars
<1>4. /\ mig'.status = mig.status /\ mig'.preparation = mig.preparation
      /\ mig'.maintenance = mig.maintenance
  BY <1>0 DEF Client, ClientWritesSource, ClientWritesTarget, OtherCreatesTarget,
              LeaseExpires, vars, MigrationRows
<1>5. RecordsByStatus'
  <2>1. Busy' = Busy /\ HasAccessProtection' = HasAccessProtection
    BY <1>1, <1>4 DEF Busy, HasAccessProtection
  <2>2. QED
    BY <1>1, <1>3, <1>4, <2>1 DEF SourceInv, RecordsByStatus, SameSources,
                                  KeepsSource
<1>6. QED
  BY <1>0, <1>1, <1>2, <1>3, <1>5, OutsideSources

\* What commands do to the status: a draft is started or deleted only without
\* outstanding entries, and nothing is left of what is deleted.
LEMMA CommandStatus ==
    ASSUME SourceInv, Command
    PROVE  /\ mig.status # "deleted"
           /\ mig'.status = "draft" => mig.status = "draft"
           /\ mig.status = "draft" /\ mig'.status # "draft" =>
                \A i \in Items : item[i].effects = {}
           /\ mig'.status = "deleted" => DeleteMigration
<1>0. mig \in MigrationRows
  BY SourceFacts
<1>1. mig.status # "deleted"
  BY DEF Command, UpdateDraft, RequestPrecheck, PrecheckExpires,
     StartMigration, RequestPause, ResumeMigration, StopMigration,
     ContinueAfterPresync, Retry, RequestMaintenance, DeleteMigration,
     CommandAfterRevocation, CanEditDraft, CanStart, CanPause, CanResume, CanStop,
     CanCutover, CanRetry, CompletedWorkflow, CanRestoreAccess, CanCleanupSource,
     CanCleanupTarget, CanDelete, ActiveStatuses, FinalStatuses
<1>2. CASE StartMigration \/ DeleteMigration
  <2>1. ~Recovery
    BY <1>2 DEF StartMigration, DeleteMigration, CanStart, CanEditDraft,
                CanDelete, Idle
  <2>2. \A i \in Items : item[i].effects = {}
    BY <2>1 DEF Recovery
  <2>3. \/ DeleteMigration /\ mig'.status = "deleted"
        \/ mig'.status = "queued"
        \/ mig'.status = mig.status
    BY <1>0, <1>2 DEF StartMigration, DeleteMigration, Requeued, MigrationRows
  <2>4. QED
    BY <1>1, <2>2, <2>3
<1>3. CASE PrecheckExpires \/ RequestPause \/ StopMigration \/ CommandAfterRevocation
  BY <1>0, <1>1, <1>3
     DEF PrecheckExpires, RequestPause, StopMigration, CommandAfterRevocation,
         CanPause, CanStop, CanResume, CanCutover, CanRetry, CompletedWorkflow,
         ActiveStatuses, FinalStatuses, MigrationRows
<1>4. CASE ResumeMigration \/ ContinueAfterPresync \/ \E S : Retry(S)
  BY <1>0, <1>1, <1>4
     DEF ResumeMigration, ContinueAfterPresync, Retry, Requeued, CanResume,
         CanCutover, CanRetry, CompletedWorkflow, FinalStatuses, MigrationRows
<1>5. CASE \/ \E o \in Options : UpdateDraft(o)
           \/ \E active \in BOOLEAN : RequestPrecheck(active)
           \/ \E op \in MaintenanceOps : RequestMaintenance(op)
  <2>1. mig'.status = mig.status
    BY <1>0, <1>5 DEF UpdateDraft, RequestPrecheck, RequestMaintenance,
                      MigrationRows
  <2>2. QED
    BY <1>1, <2>1
<1>6. QED
  BY <1>2, <1>3, <1>4, <1>5 DEF Command

\* The rows after a command other than the edit of a draft.
LEMMA CommandRows ==
    ASSUME SourceInv, Command, ~\E o \in Options : UpdateDraft(o)
    PROVE  SameRecords /\ UNCHANGED <<opt, bucket, w>>
<1>0. item \in [Items -> ItemRows]
  BY SourceFacts
<1>1. UNCHANGED <<opt, bucket, w>>
  BY DEF Command, RequestPrecheck, PrecheckExpires, StartMigration, RequestPause,
         ResumeMigration, StopMigration, ContinueAfterPresync, Retry,
         RequestMaintenance, DeleteMigration, CommandAfterRevocation
<1>2. CASE UNCHANGED item
  BY <1>1, <1>2 DEF SameRecords, KeepsRecords
<1>3. CASE ResumeMigration \/ ContinueAfterPresync \/ \E S : Retry(S)
  <2> SUFFICES ASSUME NEW i \in Items PROVE KeepsRecords(item'[i], item[i])
    BY <1>1 DEF SameRecords
  <2>1. \/ item'[i] = item[i]
        \/ item'[i] = [item[i] EXCEPT !.status = "pending"]
        \/ \E u : item'[i] = [item[i] EXCEPT !.status = "pending", !.step = u]
    <3>1. CASE ResumeMigration
      BY <3>1 DEF ResumeMigration
    <3>2. CASE ContinueAfterPresync
      BY <3>2 DEF ContinueAfterPresync
    <3>3. CASE \E S : Retry(S)
      <4>1. PICK S : Retry(S)
        BY <3>3
      <4>2. \/ item'[i] = item[i]
            \/ item'[i] = [item[i] EXCEPT !.status = "pending",
                             !.step = RetryStepForFailedItem(item[i].step)]
        BY <4>1 DEF Retry
      <4>3. QED
        BY <4>2
    <3>4. QED
      BY <1>3, <3>1, <3>2, <3>3
  <2>2. item[i] \in ItemRows
    BY <1>0
  <2>3. CASE item'[i] = item[i] \/ item'[i] = [item[i] EXCEPT !.status = "pending"]
    BY <2>2, <2>3, RowEdits
  <2>4. ASSUME NEW u, item'[i] = [item[i] EXCEPT !.status = "pending", !.step = u]
        PROVE  KeepsRecords(item'[i], item[i])
    <3>1. KeepsRecords([item[i] EXCEPT !.status = "pending", !.step = u], item[i])
      BY <2>2 DEF ItemRows, KeepsRecords
    <3>2. QED
      BY <2>4, <3>1
  <2>5. QED
    BY <2>1, <2>3, <2>4
<1>4. QED
  BY <1>2, <1>3 DEF Command, RequestPrecheck, PrecheckExpires, StartMigration,
     RequestPause, StopMigration, RequestMaintenance, DeleteMigration,
     CommandAfterRevocation

LEMMA CommandSources ==
    ASSUME NoGrants, SourceInv, LockInv', StaleInv', Command PROVE SourceInv'
<1>0. /\ w \in WorkerStates /\ ControlInv /\ mig \in MigrationRows /\ ~opt.grant
      /\ item \in [Items -> ItemRows]
  BY SourceFacts DEF SourceInv
<1>1. CASE \E o \in Options : UpdateDraft(o)
  <2>1. PICK o \in Options : UpdateDraft(o)
    BY <1>1
  <2>2. ~opt'.grant /\ UNCHANGED <<bucket, w>> /\ mig.status = "draft" /\ ~Busy
    BY <2>1 DEF NoGrants, UpdateDraft, CanEditDraft, Idle
  <2>3. mig'.status = "draft"
    BY <1>0, <2>1, <2>2 DEF UpdateDraft, MigrationRows
  <2>4. w.pc = "idle"
    BY <1>0, <2>2, PlaceFacts DEF ControlInv, PhaseOK
  <2>5. ASSUME NEW i \in Items
        PROVE  /\ item'[i].effects = item[i].effects /\ item'[i].ro = FALSE
               /\ item'[i].ro_backup = {} /\ item[i].ro = FALSE
    <3>1. item[i] \in ItemRows /\ ~item[i].ro
      BY <1>0, <2>2 DEF SourceInv, RecordsByStatus
    <3>2. item'[i] = [item[i] EXCEPT
                        !.status = "pending", !.step = "create_bucket",
                        !.pre_sync_done = FALSE, !.ro = FALSE, !.ro_backup = {},
                        !.locked = FALSE, !.lock_backup = {}]
      BY <2>1 DEF UpdateDraft
    <3>3. QED
      BY <3>1, <3>2 DEF ItemRows
  <2>6. ItemSources'
    BY <2>2, <2>5 DEF SourceInv, ItemSources, RowPlain, BucketRecorded, Has, Plain
  <2>7. RecordsByStatus'
    BY <2>2, <2>3, <2>5 DEF SourceInv, RecordsByStatus
  <2>8. SourcePlace(w, It, Bk)' /\ ReleasedPlain'
    BY <2>2, <2>4, SilentPcs, SilentPlaces DEF ReleasedPlain
  <2>9. QED
    BY <2>2, <2>6, <2>7, <2>8 DEF SourceInv
<1>2. CASE ~\E o \in Options : UpdateDraft(o)
  <2>1. SameRecords /\ UNCHANGED <<opt, bucket, w>>
    BY <1>2, CommandRows
  <2>2. SameSources
    BY <2>1 DEF SameSources, KeepsSource
  <2>3. RecordsByStatus'
    <3>1. mig'.status # "draft" => \A i \in Items : item'[i].effects = {}
      BY <2>1, CommandStatus DEF SourceInv, RecordsByStatus, SameRecords, KeepsRecords
    <3>2. mig'.status = "draft" =>
            \A i \in Items : ~item'[i].ro /\ bucket'[i].source_exists
      BY <2>1, CommandStatus DEF SourceInv, RecordsByStatus, SameRecords, KeepsRecords
    <3>3. mig'.status = "deleted" => ~Busy' /\ ~HasAccessProtection'
      <4>1. mig'.status = "deleted" => DeleteMigration
        BY CommandStatus
      <4>2. DeleteMigration =>
              /\ UNCHANGED item /\ ~Busy /\ ~HasAccessProtection
              /\ mig'.preparation = mig.preparation
              /\ mig'.maintenance = mig.maintenance
        BY <1>0 DEF DeleteMigration, CanDelete, Idle, MigrationRows
      <4>3. QED
        BY <4>1, <4>2 DEF Busy, HasAccessProtection, ActiveStatuses
    <3>4. QED
      BY <3>1, <3>2, <3>3 DEF RecordsByStatus
  <2>4. QED
    BY <1>0, <2>1, <2>2, <2>3, OutsideSources
<1>3. QED
  BY <1>1, <1>2

\* Without grants the steps of a grant are never reached.
LEMMA NoGrantSteps ==
    ASSUME SourceInv
    PROVE  ~(JournalGrant \/ PutSourceCopyGrant \/ RestoreGrantedPolicy
              \/ ClearGrantEffect)
  BY DEF SourceInv, StaleInv, JournalGrant, PutSourceCopyGrant,
         RestoreGrantedPolicy, ClearGrantEffect

\* Every step keeps the invariant.
LEMMA SourceNext == NoGrants /\ SourceInv /\ [Next]_vars => SourceInv'
<1> SUFFICES ASSUME NoGrants, SourceInv, [Next]_vars PROVE SourceInv'
  OBVIOUS
<1>0. LockInv' /\ StaleInv'
  BY LockNext, StaleNext DEF SourceInv
<1>1. CASE Command
  BY <1>0, <1>1, CommandSources
<1>2. CASE Client \/ LeaseExpires \/ UNCHANGED vars
  BY <1>0, <1>2, ClientSources
<1>3. CASE Claim \/ ClaimPreparation \/ Crash
  BY <1>0, <1>3, LoopSources
<1>4. CASE Transfer \/ TransferFaults \/ Revocation
  BY <1>0, <1>4, LoopSources, ExecuteSources, ItemStepsSources, ReadOnlySources,
     RevokedSources, NoGrantSteps DEF Transfer, TransferFaults
<1>5. CASE Release \/ ReleaseFault
  BY <1>0, <1>5, ReleaseStepSources, ReleaseEndSources DEF Release
<1>6. CASE Maintenance \/ MaintenanceFaults
  <2>1. CASE \/ BeginMaintenance \/ RecoverEffect \/ ClearRecoveredEffect
             \/ RecoveryDone \/ RecoveryFault \/ MaintenanceFault
    BY <1>0, <2>1, RecoverEffectSources, ClearRecoveredSources, RecoveryQuietSources
  <2>2. CASE \/ CleanupLoop \/ CleanupLockTarget \/ CleanupHashTarget
             \/ PutTargetLock("cs_lock_put", "cs_target_hash") \/ CleanupReadOnly
             \/ PutReadOnly("cs_read_only_put", "cs_source_hash")
             \/ CleanupUnlockTarget \/ FinishSourceCleanup \/ CleanupFault
    BY <1>0, <2>2, CleanupQuietSources, ReadOnlySources
  <2>3. QED
    BY <1>0, <1>6, <2>1, <2>2, SourceCleanupSources, TargetCleanupSources
       DEF Maintenance, MaintenanceFaults
<1>7. CASE Preparation \/ PreparationFaults
  BY <1>0, <1>7, PreparationSources
<1>8. QED
  BY <1>1, <1>2, <1>3, <1>4, <1>5, <1>6, <1>7 DEF Next, Worker, Faults

\* In the first state nothing was done to a source.
LEMMA SourceInit == NoGrants /\ Init => SourceInv
<1> SUFFICES ASSUME NoGrants, Init PROVE SourceInv
  OBVIOUS
<1>1. LockInv /\ StaleInv /\ ~opt.grant
  <2>1. w.pc = "idle" /\ ControlInv /\ LockInv
    BY LockInit, ControlInit DEF Init, IdleWorker
  <2>2. "idle" \notin ItemPcs /\ GrantPcs \cup {"grant_journal"} \subseteq ItemPcs
    BY QuietPlaces DEF GrantPcs, ItemPcs, OutsideItems, TransferPcs, ItemSteps
  <2>3. StaleInv
    BY <2>1, <2>2 DEF StaleInv, GrantPcs
  <2>4. QED
    BY <2>1, <2>3 DEF Init, NoGrants
<1>2. \A i \in Items :
        item[i].effects = {} /\ item[i].ro = FALSE /\ item[i].ro_backup = {}
  BY DEF Init, DraftItem
<1>3. \A i \in Items : /\ bucket[i].source_policy \in {{}, {"own"}}
                       /\ bucket[i].source_exists /\ bucket[i].probe = FALSE
  BY DEF Init
<1>4. ItemSources
  BY <1>2, <1>3 DEF ItemSources, RowPlain, BucketRecorded, Plain
<1>5. RecordsByStatus
  BY <1>2, <1>3 DEF Init, RecordsByStatus
<1>6. w.pc = "idle"
  BY DEF Init, IdleWorker
<1>7. SourcePlace(w, It, Bk) /\ ReleasedPlain
  BY <1>6, SilentPcs, SilentPlaces DEF ReleasedPlain
<1>8. QED
  BY <1>1, <1>4, <1>5, <1>7 DEF SourceInv

\* Backups and journalled policies are the customer's own, what differs from
\* the customer's source is recorded, entries belong to drafts, and what is
\* about to be recorded as undone is undone.
THEOREM SourceInvariant == NoGrants /\ Spec => []SourceInv
<1>1. NoGrants /\ Init => SourceInv
  BY SourceInit
<1>2. NoGrants /\ SourceInv /\ [Next]_vars => SourceInv'
  BY SourceNext
<1> SUFFICES ASSUME NoGrants PROVE Spec => []SourceInv
  OBVIOUS
<1>3. QED
  BY <1>1, <1>2, PTL DEF Spec

\* A managed statement on a source, or a probe bucket, is there only while the
\* item records it (read_only_applied, preparation_effects): restore_access
\* finds everything the engine did to a source, whatever crashed or failed in
\* between.  For migrations that need no temporary read grant.
THEOREM SourceChangesRecordedAlways == NoGrants /\ Spec => []SourceChangesRecorded
<1>1. SourceInv => SourceChangesRecorded
  <2> SUFFICES ASSUME SourceInv, NEW i \in Items
               PROVE  /\ bucket[i].source_policy \cap SourceManaged # {} =>
                           item[i].ro \/ item[i].effects # {}
                      /\ bucket[i].probe => item[i].effects # {}
    BY DEF SourceChangesRecorded
  <2>1. BucketRecorded(item[i], bucket[i])
    BY DEF SourceInv, ItemSources
  <2>2. QED
    BY <2>1 DEF BucketRecorded, Has, Plain, SourceManaged
<1> SUFFICES ASSUME NoGrants PROVE Spec => []SourceChangesRecorded
  OBVIOUS
<1>2. Spec => []SourceInv
  BY SourceInvariant
<1>3. QED
  BY <1>1, <1>2, PTL

\* delete_migration removes a record only when nothing it accounts for is left
\* on any bucket: no managed statement on a source, no write lock on a
\* destination, no probe bucket.  For migrations without temporary grants.
THEOREM DeletedRecordLeavesNothingAlways ==
    NoGrants /\ Spec => []DeletedRecordLeavesNothing
<1>1. SourceInv => DeletedRecordLeavesNothing
  <2> SUFFICES ASSUME SourceInv, mig.status = "deleted", NEW i \in Items
               PROVE  /\ bucket[i].source_policy \subseteq {"own"}
                      /\ "LOCK" \notin bucket[i].target_policy
                      /\ ~bucket[i].probe
    BY DEF DeletedRecordLeavesNothing
  <2>1. item[i].effects = {} /\ ~item[i].ro /\ ~item[i].locked
    BY DEF SourceInv, RecordsByStatus, HasAccessProtection
  <2>2. BucketRecorded(item[i], bucket[i]) /\ BucketLocks(item[i], bucket[i])
    BY DEF SourceInv, ItemSources, LockInv, ItemLocks
  <2>3. QED
    BY <2>1, <2>2 DEF BucketRecorded, BucketLocks, Unlocked, Has, Plain
<1> SUFFICES ASSUME NoGrants PROVE Spec => []DeletedRecordLeavesNothing
  OBVIOUS
<1>2. Spec => []SourceInv
  BY SourceInvariant
<1>3. QED
  BY <1>1, <1>2, PTL
=============================================================================
