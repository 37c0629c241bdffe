-------------------------- MODULE BucketMigration --------------------------
(***************************************************************************)
(* The bucket migration engine: one migration, the operators who command   *)
(* it, the worker processes that execute it one at a time, crashes of      *)
(* those workers, failing S3 calls, and the clients of the buckets.        *)
(***************************************************************************)
EXTENDS MigrationCommands, MigrationTransfer, MigrationMaintenance,
        MigrationPreparation

CONSTANT NameReuse   \* may a target name be taken again after a removal?

ASSUME NameReuseAssumption == NameReuse \in BOOLEAN

\* Mutant of Claim: maintenance that a dead worker left running is not claimed.
ClaimQueuedOnly ==
    /\ w.pc = "idle"
    /\ ~mig.leased
    /\ mig.status \in ActiveStatuses \/ mig.maintenance = "queued"
    /\ mig' = [mig EXCEPT !.leased = TRUE]
    /\ w' = [IdleWorker EXCEPT !.pc = "start"]
    /\ UNCHANGED <<opt, item, bucket, faults>>

\* scheduling.py, claim_next_runnable_migration_id, seen from one migration:
\* no live lease, and a transfer or a maintenance operation to run.
Claim ==
    /\ w.pc = "idle"
    /\ ~mig.leased
    /\ mig.status \in ActiveStatuses \/ mig.maintenance \in {"queued", "running"}
    /\ mig' = [mig EXCEPT !.leased = TRUE]
    /\ w' = [IdleWorker EXCEPT !.pc = "start"]
    /\ UNCHANGED <<opt, item, bucket, faults>>

\* worker_lease_until goes by.  The heartbeat of a live worker renews it, as
\* long as there is something to run (progress.py, _renew_migration_lease).
LeaseExpires ==
    /\ mig.leased
    /\ w.pc = "idle" \/ ~Busy
    /\ mig' = [mig EXCEPT !.leased = FALSE]
    /\ UNCHANGED <<opt, item, bucket, w, faults>>

\* The worker process dies: its memory and its open transaction are lost.
Crash ==
    /\ w.pc # "idle"
    /\ Fault
    /\ w' = IdleWorker
    /\ UNCHANGED <<opt, mig, item, bucket>>

(***************************************************************************)
(* The clients of the buckets (external).  A write to a source is seen     *)
(* only while its contents can matter: not once a cleanup purged it.       *)
(***************************************************************************)
SourceWritable(b) == b.source_exists /\ b.source_policy \cap {"RO", "ROw"} = {}
TargetWritable(b) == b.target_by = "migration" /\ "LOCK" \notin b.target_policy

ClientWritesSource(i) ==
    /\ SourceWritable(bucket[i])
    /\ bucket[i].source \in 0..(MaxWrites - 1)
    /\ bucket' = [bucket EXCEPT ![i].source = @ + 1]
    /\ UNCHANGED <<opt, mig, item, w, faults>>

ClientWritesTarget(i) ==
    /\ TargetWritable(bucket[i])
    /\ bucket[i].target # Tampered
    /\ bucket' = [bucket EXCEPT ![i].target = Tampered]
    /\ UNCHANGED <<opt, mig, item, w, faults>>

\* Someone else creates a bucket under the name of a target.
OtherCreatesTarget(i) ==
    /\ bucket[i].target_by = "nobody"
    /\ item[i].created => NameReuse
    /\ bucket' = [bucket EXCEPT ![i].target_by = "other", ![i].target = Tampered,
                                ![i].target_policy = {}]
    /\ UNCHANGED <<opt, mig, item, w, faults>>

Client ==
    \E i \in Items : \/ ClientWritesSource(i)
                     \/ ClientWritesTarget(i)
                     \/ OtherCreatesTarget(i)

Worker == Transfer \/ Revocation \/ Release \/ Maintenance \/ Preparation
Faults ==
    \/ TransferFaults \/ ReleaseFault \/ MaintenanceFaults \/ PreparationFaults
    \/ Crash

Next ==
    \/ Command
    \/ Claim \/ ClaimPreparation \/ LeaseExpires
    \/ Worker
    \/ Faults
    \/ Client

Spec == Init /\ [][Next]_vars

\* Polling workers claim, a running worker goes on, a lost lease times out.
Fairness ==
    /\ WF_vars(Claim \/ ClaimPreparation)
    /\ WF_vars(LeaseExpires)
    /\ WF_vars(Worker)

FairSpec == Spec /\ Fairness

(***************************************************************************)
(* Safety                                                                  *)
(***************************************************************************)
\* A destination carries the write lock only while its item records it
\* (target_lock_applied): no crash, fault or command leaves a lock that
\* restore_access would not find.
LockRecorded ==
    \A i \in Items : "LOCK" \in bucket[i].target_policy => item[i].locked

\* The same for the statements put on a source and for the probe bucket:
\* read_only_applied or a journalled effect accounts for them.
SourceChangesRecorded ==
    \A i \in Items :
      /\ bucket[i].source_policy \cap SourceManaged # {} =>
           item[i].ro \/ item[i].effects # {}
      /\ bucket[i].probe => item[i].effects # {}

\* A deleted migration record leaves nothing behind on its buckets.
DeletedRecordLeavesNothing ==
    mig.status = "deleted" =>
      \A i \in Items : /\ bucket[i].source_policy \subseteq {"own"}
                       /\ "LOCK" \notin bucket[i].target_policy
                       /\ ~bucket[i].probe

\* Transfer, preparation and maintenance exclude each other, and a worker
\* runs only while one of them is under way and its lease is good, but for the
\* way out of a run whose creator lost access.
WorkflowsExclusive ==
    /\ mig.preparation = "checking" =>
         mig.status = "draft" /\ mig.maintenance \notin {"queued", "running"}
    /\ mig.maintenance \in {"queued", "running"} => mig.status \notin ActiveStatuses
    /\ w.pc \notin {"idle"} \cup RevokedPcs => Busy /\ mig.leased

\* Outside the copy and its temporary grant, no temporary change of the item
\* under way is outstanding: a transfer never builds on a policy that some
\* interrupted check or copy left behind.
NoStaleTemporaryChange ==
    w.pc \in ItemPcs \ {"grant_put", "sync_copy", "sync_write", "grant_restore",
                        "grant_clear"}
      => It.effects = {}

\* Of a source that is read-only, the comparison passes only an exact copy
\* (no write slips in between the final sync, the listing and the comparison),
\* and the item is completed with that copy, unless a client wrote to a
\* destination without the lock since.
CompletedCopyIsExact ==
    [][/\ /\ w.pc # "verified" /\ w'.pc = "verified"
          /\ "RO" \in Bk.source_policy
          => Bk.source = Bk.target
       /\ \A i \in Items :
            /\ item[i].status # "completed" /\ item'[i].status = "completed"
            /\ "RO" \in bucket[i].source_policy
            => \/ bucket[i].source = bucket[i].target
               \/ "LOCK" \notin bucket[i].target_policy /\ bucket[i].target = Tampered]_vars

\* A verified copy is safe from everything that happens to the other items:
\* retries, the cleanup of failed destinations, a stop.  Only its clients
\* write to it.
CompletedCopyPreserved ==
    [][\A i \in Items : item[i].status = "completed" =>
         /\ item'[i].status = "completed"
         /\ bucket'[i].target \in {bucket[i].target, Tampered}
         /\ bucket'[i].target_by = bucket[i].target_by]_vars

\* Source data is deleted only when the locked destination this migration
\* created holds the same data.
SourceDeletedOnlyIfCopied ==
    [][\A i \in Items :
         bucket[i].source # Empty /\ bucket'[i].source = Empty =>
           /\ bucket[i].target = bucket[i].source
           /\ bucket[i].target_by = "migration"
           /\ "LOCK" \in bucket[i].target_policy]_vars

\* A bucket that belongs to somebody else is never written, locked or deleted.
ForeignTargetUntouched ==
    [][\A i \in Items :
         bucket[i].target_by = "other" =>
           /\ bucket'[i].target_by = "other"
           /\ bucket'[i].target = bucket[i].target
           /\ bucket'[i].target_policy = bucket[i].target_policy]_vars

\* A restore_access that reports success has given all access back.
RestoreCompletes ==
    [][mig.maintenance = "running" /\ mig'.maintenance = "completed"
         /\ mig.operation = "restore_access" =>
         \A i \in Items : /\ bucket'[i].source_policy \subseteq {"own"}
                          /\ "LOCK" \notin bucket'[i].target_policy
                          /\ ~bucket'[i].probe]_vars

(***************************************************************************)
(* Liveness                                                                *)
(***************************************************************************)
\* A stop request ends the transfer, whatever it interrupts, unless the run
\* had read the row for the last time and was about to pause or to end.
StopTakesEffect ==
    mig.status = "cancel_requested" /\ w.pc \notin {"pausing", "finalize"}
      ~> mig.status \in FinalStatuses

\* A pause request ends in a state the operator can act on.
PauseTakesEffect ==
    mig.status = "pause_requested" ~> mig.status \notin {"queued", "running",
                                                         "pause_requested"}

\* Queued checks report, and queued maintenance ends.
ChecksReport == mig.preparation = "checking" ~> mig.preparation # "checking"
MaintenanceEnds ==
    mig.maintenance = "queued" ~> mig.maintenance \in {"completed", "failed"}

(***************************************************************************)
(* What the user documentation says (doc/docs/manager/en/tools/            *)
(* bucket-migration.md) and the code does not keep; see the README.        *)
(***************************************************************************)
\* "Stop is processed by the worker and restores access protections"
StopRestoresAccess ==
    mig.status = "canceled" => \A i \in Items : ~item[i].ro /\ ~item[i].locked

\* "Stop is processed by the worker": no stop is forgotten.
StopNeverLost == mig.status = "cancel_requested" ~> mig.status \in FinalStatuses

\* "Successful source buckets remain read-only."
SuccessfulSourceIsReadOnly ==
    [][\A i \in Items :
         item[i].status # "completed" /\ item'[i].status = "completed" =>
           "RO" \in bucket'[i].source_policy]_vars

\* "wait for Ready for cutover. [...] destination writes are protected when
\* that option is enabled."
ReadyForCutoverIsLocked ==
    [][mig.status # "awaiting_cutover" /\ mig'.status = "awaiting_cutover"
         /\ opt.lock =>
         \A i \in Items : "LOCK" \in bucket'[i].target_policy]_vars

\* "Restore recorded source/destination policies [...] Source writes can resume"
RestoreUnblocksSourceWrites ==
    [][mig.maintenance = "running" /\ mig'.maintenance = "completed"
         /\ mig.operation = "restore_access" =>
         \A i \in Items : bucket'[i].source_exists => SourceWritable(bucket'[i])]_vars

\* "Delete only failed destination buckets created by this migration"
OnlyOwnTargetsDeleted ==
    [][\A i \in Items : bucket[i].target_by = "other" =>
                          bucket'[i].target_by = "other"]_vars
=============================================================================
