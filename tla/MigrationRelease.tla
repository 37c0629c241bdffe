-------------------------- MODULE MigrationRelease --------------------------
(***************************************************************************)
(* Giving access back (progress.py): _release_source_read_only_policies    *)
(* and _release_target_write_locks, run for a stop (_mark_canceled), for   *)
(* the end of a transfer (_mark_migration_finished) and for the operator's *)
(* restore_access.  Policies are restored one S3 call at a time; the rows  *)
(* are committed once, at the end.                                         *)
(*                                                                         *)
(* A stop and an end first set the lease of the row to NULL in the         *)
(* session.  Every release publishes an event inside a savepoint           *)
(* (webhook_service.py, publish_event_in_current_transaction), which       *)
(* flushes that NULL, and the next _assert_workflow_lease reads it back.   *)
(***************************************************************************)
EXTENDS MigrationPolicies

StartRelease(then, todo) ==
    w' = [w EXCEPT !.pc = "release", !.then = then, !.todo = todo,
                   !.released = {}, !.flushed = FALSE]

\* Mutant of SourcesToRelease: completed items are passed over.
SourcesToReleaseIncomplete ==
    {[kind |-> "source", item |-> i] :
       i \in {j \in Items : item[j].ro /\ item[j].status # "completed"}}

SourcesToRelease ==
    {[kind |-> "source", item |-> i] :
       i \in {j \in Items : item[j].ro \/ item[j].ro_backup # {}}}
TargetsToRelease(S) ==
    {[kind |-> "target", item |-> i] :
       i \in {j \in S : item[j].locked \/ item[j].lock_backup # {}}}
AllProtections == SourcesToRelease \cup TargetsToRelease(Items)

\* Sources before targets, items in id order.
ReleaseRank(r) == IF r.kind = "source" THEN r.item ELSE N + r.item
IsNextRelease(r) == \A q \in w.todo : ReleaseRank(r) <= ReleaseRank(q)

BucketOf(r) == bucket[r.item]

\* _restore_checked_policy, or _restore_target_write_lock_policy with a
\* backup and _remove_managed_target_write_lock_statement without one
Released(r) ==
    IF r.kind = "source"
    THEN [BucketOf(r) EXCEPT !.source_policy = item[r.item].ro_backup]
    ELSE [BucketOf(r) EXCEPT !.target_policy =
             IF item[r.item].lock_backup # {} THEN item[r.item].lock_backup
             ELSE @ \ {"LOCK"}]

BucketPresent(r) ==
    IF r.kind = "source" THEN BucketOf(r).source_exists
    ELSE BucketOf(r).target_by # "nobody"

\* _verify_restored_bucket_policy
PolicyVerified(r) ==
    r.kind = "target" => Released(r).target_policy = item[r.item].lock_backup

\* Mutant of Drop: a failed release is recorded like a successful one.
DropForgetful(r, ok) ==
    w' = [w EXCEPT !.todo = @ \ {r}, !.released = @ \cup {r},
                   !.flushed = (w.then # "restore")]

\* The event of this release flushes what the session holds.
Drop(r, ok) ==
    w' = [w EXCEPT !.todo = @ \ {r},
                   !.released = IF ok THEN @ \cup {r} ELSE @,
                   !.err = @ \/ ~ok,
                   !.flushed = (w.then # "restore")]

\* _assert_workflow_lease passes
LeaseStillRead == ~w.flushed

ReleaseProtection ==
    /\ w.pc = "release"
    /\ \E r \in w.todo :
         /\ IsNextRelease(r)
         /\ \/ /\ LeaseStillRead /\ BucketPresent(r)
               /\ bucket' = [bucket EXCEPT ![r.item] = Released(r)]
               /\ Drop(r, PolicyVerified(r))
            \/ /\ ~(LeaseStillRead /\ BucketPresent(r))
               /\ Drop(r, FALSE)
               /\ UNCHANGED bucket
    /\ UNCHANGED <<opt, mig, item, faults>>

\* The S3 call fails, before or after it took effect.
ReleaseFault ==
    /\ w.pc = "release" /\ LeaseStillRead
    /\ Fault
    /\ \E r \in w.todo :
         /\ IsNextRelease(r) /\ BucketPresent(r)
         /\ \/ UNCHANGED bucket
            \/ bucket' = [bucket EXCEPT ![r.item] = Released(r)]
         /\ Drop(r, FALSE)
    /\ UNCHANGED <<opt, mig, item>>

(***************************************************************************)
(* The commits that end a release.                                         *)
(***************************************************************************)
\* The rows once the released flags and backups are cleared.
Unprotected(i) ==
    LET row == IF [kind |-> "source", item |-> i] \in w.released
               THEN [item[i] EXCEPT !.ro = FALSE, !.ro_backup = {}]
               ELSE item[i]
    IN  IF [kind |-> "target", item |-> i] \in w.released
        THEN [row EXCEPT !.locked = FALSE, !.lock_backup = {}]
        ELSE row

EndRelease(then) == w.pc = "release" /\ w.todo = {} /\ w.then = then

\* _mark_canceled
CommitCanceled ==
    /\ EndRelease("cancel")
    /\ mig' = [mig EXCEPT !.status = "canceled", !.leased = FALSE]
    /\ item' = [i \in Items |->
                  IF item[i].status \in {"pending", "running", "paused",
                                         "awaiting_cutover"}
                  THEN [Unprotected(i) EXCEPT !.status = "canceled"]
                  ELSE Unprotected(i)]
    /\ w' = IdleWorker
    /\ UNCHANGED <<opt, bucket, faults>>

\* _mark_migration_finished
CommitFinished ==
    /\ EndRelease("finish")
    /\ mig' = [mig EXCEPT !.status = IF HasFailedItems \/ w.err
                                     THEN "completed_with_errors"
                                     ELSE "completed",
                          !.leased = FALSE]
    /\ item' = [i \in Items |-> Unprotected(i)]
    /\ w' = IdleWorker
    /\ UNCHANGED <<opt, bucket, faults>>

\* maintenance.py, the end of _restore_migration_access and
\* _finish_maintenance_run
CommitRestored ==
    /\ EndRelease("restore")
    /\ mig' = [mig EXCEPT !.maintenance = IF w.err THEN "failed" ELSE "completed",
                          !.preparation = IF mig.status = "draft"
                                          THEN "stale" ELSE @,
                          !.leased = FALSE]
    /\ item' = [i \in Items |->
                  IF item[i].source_deleted THEN Unprotected(i)
                  ELSE [Unprotected(i) EXCEPT !.receipt = NoReceipt]]
    /\ w' = IdleWorker
    /\ UNCHANGED <<opt, bucket, faults>>

Release ==
    ReleaseProtection \/ CommitCanceled \/ CommitFinished \/ CommitRestored
=============================================================================
