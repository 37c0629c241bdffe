-------------------------- MODULE MigrationState --------------------------
(***************************************************************************)
(* The state that the parts of the bucket migration engine share: the      *)
(* migration row, its item rows, the buckets themselves (external: reached *)
(* only through S3 calls), and the memory of the worker that currently     *)
(* owns the row.  Also the definitions every part uses: the managed policy *)
(* statements and the workflow rules of workflow.py.                       *)
(*                                                                         *)
(* A database commit is one step and an S3 call is one step, so a crash    *)
(* may fall between any two of them.                                       *)
(***************************************************************************)
EXTENDS Integers, Sequences, FiniteSets

CONSTANTS
    N,           \* number of buckets (items) of the migration
    Options,     \* configurations an operator may save in the draft
    MaxWrites,   \* bound: client writes to one source bucket
    MaxFaults    \* bound: crashes, failed S3 calls, revoked accesses

OptionSet == [mode : {"one_shot", "pre_sync"}, lock : BOOLEAN,
              copy : BOOLEAN, grant : BOOLEAN]

ASSUME NAssumption == N \in Nat \ {0}
ASSUME OptionsAssumption == Options \subseteq OptionSet /\ Options # {}
ASSUME BoundsAssumption == MaxWrites \in Nat /\ MaxFaults \in Nat

VARIABLES
    opt,         \* mode, lock_target_writes, copy_bucket_settings and
                 \* "same endpoint copy with an automatic source-read grant"
    mig,         \* the BucketMigration row
    item,        \* the BucketMigrationItem rows, in id order
    bucket,      \* S3: the source and the target bucket of every item
    w,           \* memory of the worker process running this migration
    faults       \* faults so far (bound)

vars == <<opt, mig, item, bucket, w, faults>>

Items == 1..N

(***************************************************************************)
(* Bucket policies.  "own" is the customer's policy; the others are the    *)
(* statements the engine manages, by Sid: "RO" denies every write and      *)
(* delete on the source, "ROw" is the same Sid with the deletes taken out, *)
(* "CDP" denies deletes to everyone but the worker, "GRANT" lets the       *)
(* target identity read the source, "LOCK" denies writes on the target to  *)
(* everyone but the worker.  No policy at all is {}.                       *)
(***************************************************************************)
SourceManaged == {"RO", "ROw", "CDP", "GRANT"}
Statements == SourceManaged \cup {"own", "LOCK"}
Policies == SUBSET Statements

(***************************************************************************)
(* Bucket contents: the number of the last client write they reflect.      *)
(***************************************************************************)
Empty == -1      \* a bucket without objects
Tampered == -2   \* a target like no state of its source: a client wrote to
                 \* it, or a copy is under way or was left half done
NoReceipt == -9
SourceContents == {Empty} \cup 0..MaxWrites
Contents == SourceContents \cup {Tampered}

ActiveStatuses == {"queued", "running", "pause_requested", "cancel_requested"}
FinalStatuses == {"completed", "completed_with_errors", "failed", "canceled"}
Statuses == ActiveStatuses \cup FinalStatuses
              \cup {"draft", "paused", "awaiting_cutover", "deleted"}
PreparationStatuses == {"unverified", "stale", "checking", "ready", "blocked"}
MaintenanceStatuses == {"idle", "queued", "running", "completed", "failed"}
MaintenanceOps == {"restore_access", "cleanup_source", "cleanup_target"}
ItemStatuses == {"pending", "running", "paused", "awaiting_cutover",
                 "completed", "failed", "canceled"}
ItemSteps == {"create_bucket", "copy_bucket_settings", "apply_target_lock",
              "pre_sync", "awaiting_cutover", "apply_read_only", "sync",
              "verify", "completed"}
EffectNames == {"source_policy", "source_copy_grant", "probe_bucket"}
\* at orders the effects of an item: the precheck task that journalled it
\* (dict insertion order), 0 for a copy.
Effects == [name : EffectNames, policy : Policies, at : 0..5]

MigrationRows ==
    [status : Statuses,
     preparation : PreparationStatuses,
     active_checks : BOOLEAN,   \* preparation_active_checks
     current : BOOLEAN,         \* precheck_checked_at within PRECHECK_MAX_AGE
     maintenance : MaintenanceStatuses,
     operation : MaintenanceOps,
     leased : BOOLEAN]          \* worker_lease_owner set and not expired

ItemRows ==
    [status : ItemStatuses, step : ItemSteps,
     created : BOOLEAN,         \* target_created_by_migration
     ro : BOOLEAN, ro_backup : Policies,      \* read_only_applied, source_policy_backup
     locked : BOOLEAN, lock_backup : Policies, \* target_lock_applied, target_policy_backup
     effects : SUBSET Effects,  \* preparation_effects
     receipt : Contents \cup {NoReceipt},     \* cleanup_verification.target_sha256
     source_deleted : BOOLEAN, pre_sync_done : BOOLEAN]

BucketStates ==
    [source_exists : BOOLEAN, source_policy : Policies, source : SourceContents,
     target_by : {"nobody", "migration", "other"},
     target_policy : Policies, target : Contents,
     probe : BOOLEAN]           \* the temporary probe bucket exists

DraftItem ==
    [status |-> "pending", step |-> "create_bucket", created |-> FALSE,
     ro |-> FALSE, ro_backup |-> {}, locked |-> FALSE, lock_backup |-> {},
     effects |-> {}, receipt |-> NoReceipt,
     source_deleted |-> FALSE, pre_sync_done |-> FALSE]

(***************************************************************************)
(* The worker.  pc names the next step; the rest are local variables:      *)
(* policy and snap are what the last GetBucketPolicy and the last listing  *)
(* returned, then is where the run goes after the step under way, todo and *)
(* released are the protections still to release and the ones released but *)
(* not committed, flushed says that the open transaction already wrote a   *)
(* cleared lease, err that some error was collected.                       *)
(***************************************************************************)
Releases == [kind : {"source", "target"}, item : Items]
Destinations == {"none", "done", "interrupted", "failed",
                 "cancel", "finish", "restore", "checks"}
TransferPcs ==
    {"start", "items", "item", "relock_put", "loop", "bucket_absent",
     "bucket_created", "bucket_ready", "settings_copied", "lock_put", "lock_done",
     "grant_journal", "grant_put", "sync_copy", "sync_write", "grant_restore", "grant_clear", "sync_done",
     "read_only_put", "read_only_done", "verify_compare", "verified", "final",
     "pausing", "finalize"}
\* A run whose creator lost access, on its way out.
RevokedPcs == {"revoked_grant", "revoked_clear", "revoked_item", "revoked_next",
               "revoked"}
CleanupPcs ==
    {"cleanup", "cs_lock", "cs_lock_put", "cs_target_hash", "cs_read_only",
     "cs_read_only_put", "cs_source_hash", "cs_check", "cs_policy_put",
     "cs_purge", "cs_remove", "cs_record", "cs_unlock", "cs_finish",
     "ct_lock", "ct_lock_put", "ct_purge", "ct_remove", "ct_finish"}
CheckPcs == {"check_item", "check_begin", "check_put", "check_restore",
             "check_clear"}
Pcs == TransferPcs \cup RevokedPcs \cup CleanupPcs \cup CheckPcs \cup ItemSteps
         \cup {"idle", "recover", "recover_clear", "release"}

WorkerStates ==
    [pc : Pcs, cur : 1..(N + 1), policy : Policies, snap : Contents,
     receipt : BOOLEAN, then : Destinations, todo : SUBSET Releases,
     released : SUBSET Releases, flushed : BOOLEAN, err : BOOLEAN, task : 0..5]

IdleWorker ==
    [pc |-> "idle", cur |-> 1, policy |-> {}, snap |-> Empty,
     receipt |-> FALSE, then |-> "none", todo |-> {}, released |-> {},
     flushed |-> FALSE, err |-> FALSE, task |-> 0]

Goto(pc) == w' = [w EXCEPT !.pc = pc]

\* The item and the buckets that the run is working on.
It == item[w.cur]
Bk == bucket[w.cur]
SetItem(row) == item' = [item EXCEPT ![w.cur] = row]
SetBucket(state) == bucket' = [bucket EXCEPT ![w.cur] = state]

\* A fault uses up one unit of the bound.
Fault == faults < MaxFaults /\ faults' = faults + 1

(***************************************************************************)
(* workflow.py: the facts and the rules that gate every operator command.  *)
(***************************************************************************)
Busy ==
    \/ mig.status \in ActiveStatuses
    \/ mig.preparation = "checking"
    \/ mig.maintenance \in {"queued", "running"}

Recovery == \E i \in Items : item[i].effects # {}
Idle == ~Busy /\ ~Recovery
HasAccessProtection == \E i \in Items : item[i].ro \/ item[i].locked
HasFailedItems == \E i \in Items : item[i].status = "failed"
RemainingSourcesReadyForCleanup ==
    LET remaining == {i \in Items : ~item[i].source_deleted}
    IN  /\ remaining # {}
        /\ \A i \in remaining : item[i].status = "completed" /\ item[i].ro
HasFailedCreatedTargets ==
    \E i \in Items : item[i].status = "failed" /\ item[i].created

CanEditDraft == mig.status = "draft" /\ Idle
CanStart == CanEditDraft /\ mig.preparation = "ready" /\ mig.current
CanPause == mig.status \in {"running", "queued"}
CanResume == mig.status = "paused" /\ Idle
CanCutover == mig.status = "awaiting_cutover" /\ Idle /\ ~HasFailedItems
\* Mutant of CanStop: a stop is accepted while maintenance is under way.
CanStopAnytime == mig.status \in ActiveStatuses \cup {"paused", "awaiting_cutover"}

CanStop ==
    /\ mig.status \in ActiveStatuses \cup {"paused", "awaiting_cutover"}
    /\ mig.maintenance \notin {"queued", "running"}
CompletedWorkflow == mig.status \in FinalStatuses /\ Idle
CanRetry == CompletedWorkflow /\ HasFailedItems
CanRestoreAccess ==
    mig.status # "deleted" /\ ~Busy /\ (Recovery \/ HasAccessProtection)
CanCleanupSource == CompletedWorkflow /\ RemainingSourcesReadyForCleanup
CanCleanupTarget == CompletedWorkflow /\ HasFailedCreatedTargets
\* Mutant of CanDelete: protections are not looked at.
CanDeleteProtected == Idle /\ mig.status \in FinalStatuses \cup {"draft"}

CanDelete ==
    /\ Idle
    /\ mig.status \in FinalStatuses \cup {"draft"}
    /\ ~HasAccessProtection

(***************************************************************************)
(* preparation.py, _revalidate_transfer_preconditions for one item.        *)
(***************************************************************************)
\* Mutant of TransferPreconditions: outstanding effects are not looked at.
TransferPreconditionsIgnoringEffects(i) ==
    \/ item[i].status = "completed"
    \/ /\ bucket[i].source_exists
       /\ (bucket[i].target_by # "nobody") <=> item[i].created

TransferPreconditions(i) ==
    \/ item[i].status = "completed"
    \/ /\ item[i].effects = {}
       /\ bucket[i].source_exists
       /\ (bucket[i].target_by # "nobody") <=> item[i].created

TypeOK ==
    /\ opt \in OptionSet
    /\ mig \in MigrationRows
    /\ item \in [Items -> ItemRows]
    /\ bucket \in [Items -> BucketStates]
    /\ w \in WorkerStates
    /\ faults \in 0..MaxFaults

Init ==
    /\ opt \in Options
    /\ mig = [status |-> "draft", preparation |-> "unverified",
              active_checks |-> FALSE, current |-> FALSE,
              maintenance |-> "idle", operation |-> "restore_access",
              leased |-> FALSE]
    /\ item = [i \in Items |-> DraftItem]
    /\ \E own \in {{}, {"own"}} :
         bucket = [i \in Items |->
                    [source_exists |-> TRUE, source_policy |-> own, source |-> 0,
                     target_by |-> "nobody", target_policy |-> {},
                     target |-> Empty, probe |-> FALSE]]
    /\ w = IdleWorker
    /\ faults = 0
=============================================================================
