# Formal models of BucketReef

BucketReef (`src/`) is a management plane for S3 and Ceph RGW storage: a FastAPI
backend over a SQL database, a React frontend, and a few background workers.  Most
of it is request/response code over S3 and the RGW admin API.  What carries state
across steps, and can therefore go wrong between two of them, is

* the **bucket migration engine** (`backend/app/services/bucket_migration/`, about
  10 000 lines): it copies buckets between contexts, protects them by rewriting
  their policies, survives crashes of its workers, and deletes buckets;
* the **leases** that spread periodic operations over backend replicas;
* the **session** of a browser: tabs that renew the same cookies, and the server that
  gives every refresh token out once;
* in the **object browser**, the operations of several calls to S3 that run in the
  page: multipart uploads, and paste, which may delete what it moves;
* the webhook outbox, durable key rotation, purges.

This directory models all but the last line.  The rest is in the plan below.

## Inventory

| Component | State | Operations | What is hard | What makes it correct |
| --- | --- | --- | --- | --- |
| Commands and workflow rules (`planning.py`, `retry.py`, `workflow.py`) | status, preparation and maintenance columns of the migration row | update draft, precheck, start, pause, resume, stop, cutover, retry, restore/cleanup requests, delete | they arrive at any moment of a run | the three workflows exclude each other; the record is not deleted while it is needed |
| Transfer (`execution_*.py`) | item rows (status, step, flags, backups) and the worker's memory | create bucket, copy settings, lock target, pre-sync, read-only, sync, verify | a commit and an S3 call are never atomic; clients write meanwhile; a stop or a pause between two batches | a completed copy is exact; nothing foreign is touched |
| Access protections (`execution_policy_grants.py`, `progress.py`) | bucket policies; backups and flags in the rows | journal, put, verify, restore | crash between journal and put; one of several releases fails | no protection without a record of it; a reported restore is a restore |
| Maintenance (`maintenance.py`) | `cleanup_verification` receipt, provenance flag | restore access, delete sources, delete failed targets | operations are claimed again after a crash | sources are deleted only when the locked copy has the same contents |
| Prechecks (`preparation.py`, `precheck*.py`) | `preparation_effects` journal | try policies, create and delete a probe bucket | the undo may fail | the journal accounts for every temporary change |
| Scheduling (`scheduling.py`, `worker.py`) | `worker_lease_owner`, `worker_lease_until` | count, list, claim, rank, give back, renew | three snapshots; a lease lost before the run begins | one runner per migration; nobody starves; limits per endpoint |
| Operation leases (`operation_lease_service.py`) | one row per operation | acquire, renew, release | the clock is read before the statements run | one holder |
| Session refresh (`api/client.ts`, `authRefreshCoordinator.ts`, `auth_session_service.py`) | cookie jar, completion marker, lock or lease in the browser; session and token rows in the database | request, refuse, elect one refresher, rotate, retry, replay, revoke, log out | tabs race for one token; a tab closes or a call times out after the server has acted; a logout meets a refresh | one usable token; a browser does not end its own session; nobody waits for ever |
| Multipart upload (`browserMultipartUpload.ts`) | cursor, completed parts, two abort controllers; the upload in S3 | initiate, sign, PUT, complete, abort, cancel | concurrent workers, lost answers, a PUT that hangs | whole or not at all; nothing is left open |
| Paste (`useBrowserClipboard.ts`, `browserClipboardTransfer.ts`, `copy_object`) | clipboard, tasks of a paste; objects in S3 | list, copy, download, upload, verify, delete, cancel | the delete of a move against everything that can be late | no object is lost; a move reported as done moved everything |
| Webhooks, key rotation, purge, managed private access | outbox rows, rotation intents | | retries, crash between provider and database | not modelled |
| Portal, Ceph administration, sign-in, pages of the frontend, deployment | none of their own, or third party | | | not modelled |

The parts interact through the database row of the migration (commands write status
columns, the worker polls them between steps), through the buckets (transfer,
release, maintenance and prechecks all rewrite the same two policies), and through
the lease (who may act).  `PROJECT.json` lists every component with its sources, and
under `hazards` the places where a test would hardly reach.

## Modules

```
MigrationState        rows, buckets, worker memory, workflow rules (workflow.py)
├─ MigrationCommands      operator commands
└─ MigrationPolicies      the managed policy statements; journal-then-put
   ├─ MigrationPreparation    prechecks and their temporary changes
   └─ MigrationRelease        giving protections back; the commits that end a run
      ├─ MigrationTransfer       run_migration
      └─ MigrationMaintenance    run_maintenance, recovery of temporary changes
BucketMigration       composes the five; claims, lease expiry, crash, clients; properties
MCBucketMigration     small instances
MigrationScheduling   several workers, several migrations, endpoint limits
OperationLease        leases of periodic operations
OperationLeaseProofs, MigrationSchedulingProofs   theorems on the two lease models
AuthRefresh           one session: the browser's tabs and the server
AtomicUpload          what an upload promises
MultipartUpload       the upload; implements AtomicUpload
ClipboardPaste        paste within and across contexts; an upload is one call, as
                      AtomicUpload allows
MCAuthRefresh, MCMultipartUpload, MCClipboardPaste   small instances
AuthRefreshProofs, MultipartUploadProofs, ClipboardPasteProofs   theorems on the three
MigrationControlProofs <- MigrationAccessProofs <- MigrationDataProofs
                      theorems on BucketMigration, each module resting on the one before:
                      who may act, what is put on the buckets, what becomes of the data
```

### The migration engine

One migration with `N` items.  `mig` and `item` are the database rows, `bucket` the
two S3 buckets (and the probe bucket) of each item, `w` the memory of the worker
process that owns the lease.  **A database commit is a step, an S3 call is a step**,
and a client, an operator or a crash may come between any two of them; `w.pc` names
the next step of the worker.  Names follow the code: `LookForTarget`, `CreateBucket`,
`RecordTargetCreated` and `FinishCreateBucket` are the four steps of
`_run_create_bucket_step`, and so on; `map` in `PROJECT.json` gives the lines.

Abstractions:

* The contents of a source are the number of its last client write; a target holds
  such a number, `Empty`, or `Tampered` when it is like no state of its source (a
  client wrote to it, or a copy is half done, or a mixture of two states was copied).
  Whatever compares objects (diff, verification, SHA-256 fingerprints) is an
  equality of contents.
* A policy is the set of its statements: the customer's (`own`) and the managed ones
  by Sid.  Adding, removing and backing up statements is modelled as it is done, so
  backups that contain somebody else's statement are found.  Nobody but the engine
  edits policies.
* A read-only statement copied to a target names the source ARN and is ineffective
  there; properties about targets look at the lock.
* `Fault` is a bounded number of incidents: an S3 call that fails (with or without
  effect where the code distinguishes), a revoked access, a crash.  One incident may
  fail several calls in a row, as when both restores of a grant fail.
* Commands are single steps: `_transition_command` makes its UPDATE conditional on
  the columns it checked.  Three places in the code write without such a condition and
  are single steps all the same: `delete_migration`, the failed precondition of a start
  (`_record_start_precondition_failure`, `planning.py:397`), and the status `failed` of a
  command whose user lost access (`persistence.py:79`).  The worker's unconditional
  writes are steps of their own, after the look they rest on: `Finalize` and `PauseRun`
  overwrite whatever was committed since `FinalCheck` and `SeePause`.
* Verification is four steps: the listing of the source, the comparison, what may
  interrupt or refute it afterwards (strong verification, a pause, a stop), and, after
  the S3 calls that set the destination's versioning, the commit that completes the item.
* A creator who loses access is noticed at the start of a run, before every item and in
  every control check within one (`CreatorAccessRevoked`).  The row says `failed` from
  then on, operators and clients act on it, and the run is still on its way out
  (`Revocation`): it takes a grant back if it still has its lease, fails its item, fails
  the row again before the next item, and gives the lease back.  The lease of a row that
  is not busy is not renewed, so it may run out under such a run.
* One worker acts on the migration at a time.  The heartbeat renews the lease of a
  live worker; a worker that outlives its lease is not modelled, and a revoked run is
  over before the next one is claimed.  Its creator does not get the access back before
  the check that would find it missing again.
* S3 refuses to create a bucket whose name is taken.
* When source and target differ, some object has to be copied (a difference that
  only needs deletions opens no grant in the code; the model opens one).

### Scheduling and operation leases

`MigrationScheduling` keeps from a migration only whether it is runnable and its
lease, but has several workers: counting, listing, the claiming UPDATE, ranking and
giving back are separate steps.  The list is not cut at 50 candidates, as the code's is
(`scheduling.py:47`): the instance has three.  `OperationLease` has a clock; `acquire` reads it,
then tries the UPDATE, then the INSERT.

### Sessions

`AuthRefresh` has the requests of one browser, each in its tab, and one session on the
server.  Refresh and access tokens are issued together and named by one number, their
generation; `jar` is the generation in the cookies.  A refused request reads the
marker, waits for its turn (under a Web Lock or, where `navigator.locks` is missing,
by polling a lease in local storage), and either finds that somebody renewed the
cookies or sends the refresh itself.  On the server the check of a token and its claim
are two steps, with other calls in between.  A closed tab, a timeout and a lost answer
leave the call with the server, which acts on it or not.

Two facts about time are guards: a cookie lives longer than the answer that brings it
is awaited (`AccessExpires`), and the 50 ms before a lease is confirmed are longer than
the few instructions between another tab's read and write (`ConfirmLease`).  A tab that
is suspended longer than its lease is modelled, once (`overrun`).

A revocation is one step (`Revoke`).  Under READ COMMITTED its UPDATE of the tokens can
miss a row that a concurrent rotation inserts; such a token is of a revoked session, and
every check looks at the session too.

### Uploads and paste

`MultipartUpload` has both of `uploadBrowserFileMultipart` (several workers, a shared
cursor) and `uploadBrowserStreamMultipart` (one worker, a stream that may break): they
share the steps and differ where the code differs, above all in which of them looks at
the user's abort before completing.  A call and what S3 does about it are separate
steps; S3 may act after the page has given up.  How an upload is reported depends on who
asked for it: the operation of a file reports what the upload rejects with, and a stream
belongs to a paste, which reports "cancelled" whenever it was cancelled, even when the
object has been published by then (`Reported`, `PasteCancelled`).  `AtomicUpload`
promises accordingly less of a stream.  When the answer to initiate is lost, an upload is
open whose id the page never learns; `NothingLeftOpen` is about the others.

`ClipboardPaste` has places, where objects really are, and pastes that each send the
objects of the clipboard to places of their own: within one context `copy_object` of
the backend copies, compares and deletes; across contexts the page downloads, uploads,
compares sizes and deletes.  The clipboard changes under them: at any moment it may be
cut or copied anew, with the same objects or with others (`Select`; pastes of other
objects are not followed), and a move that ends without a failure empties it, whatever it
holds by then.  A paste goes by the mode it began with.  Contents are named after their object, so a lost object is
a name that is nowhere.  No other client writes to these places: S3 gives the browser no
conditional delete that would keep a source rewritten after its download.  A call that is
refused at any stage is one the server never
serves.

## Runs

| Run | Question | Instance |
| --- | --- | --- |
| `one_bucket` | is everything recorded, and nothing deleted or declared complete wrongly, with faults anywhere? | 1 item, 4 option sets (all pairs of mode, lock, copied settings), 1 client write, 2 faults: 3.0 million states |
| `two_buckets` | do items leave each other alone? | 2 items, immediate mode with lock, 1 fault: 3.2 million states |
| `liveness` | is every request answered, and does a transfer ever build on a leftover temporary grant? | 1 item, default options or an immediate copy under a grant, 1 write, 1 fault, fair: 300 000 states |
| `scheduling` | one runner, no starvation? | 2 workers, 3 migrations over 2 endpoints, limit 1, 1 incident |
| `operation_lease` | one holder? | 3 processes, TTL 2, 5 ticks, 4 owner names |
| `auth_refresh` | do tabs that renew one session keep out of each other's way, whatever ends it? | 2 tabs with a request each, with and without Web Locks, revocation and logout: 575 000 states |
| `auth_settles` | does every request end? | the same tabs, a session that lapses, fair |
| `multipart_upload` | is an upload atomic, cleaned up, and over when it is cancelled? | 3 parts, 2 workers, file and stream, fair: 9 400 states |
| `clipboard_paste` | can a paste lose an object, report a move that was none, or never end? | 2 objects, 1 of them in a folder, cut or copied, other selections meanwhile, pasted within the context and across, fair: 260 000 states |

The bounds are the smallest that let the interesting cases happen.  One fault
interrupts an operation, the second one hits its recovery; one client write falls
before, between or after any two steps of a copy; with two items one can fail while
the other is complete; five ticks are two lease periods and one more.  The clean-up
of the second item after the first, and a restore of both, need `N = 2`.  Two requests
are enough for a refresh to meet a second one, and each renews once, which bounds the
generations.  With three parts and two workers one part is waiting, one under way and
one done when something fails.  All sizes are the same in `clipboard_paste`, so that
the comparison of sizes tells as little as it can; destinations are apart from sources
(a folder pasted into itself is not in the instance).  Deadlock is not checked where the system really stops: a deleted record, a clock or
a stock of owner names at its bound.  The liveness run shows that nothing else gets
stuck.

Three runs are expected to fail: each states a sentence of the documentation that the
code does not keep, and TLC prints the steps.

| Run | Sentence | What happens |
| --- | --- | --- |
| `reused_name_deleted` | "Delete only failed destination buckets created by this migration" | crash after the removal and before its commit, the name is taken by another owner, the cleanup runs again |
| `logout_races_refresh` | "Logout, global logout, refresh replay, explicit session revocation, and expiry are also database-enforced." | a refresh replaces the session's CSRF hash while the logout is on its way; it is refused with 403, which the page does not wait for, and the session lives on |
| `move_onto_itself` | "Cross-context move deletes the source only after the destination copy is verified." | two contexts reach the same bucket: the object is uploaded onto itself, found to have the right size, and deleted |

Seven configurations more show departures from the documentation, or from what one would
expect, in the same way.  They are kept beside the runs and have to be run by hand
(`tlc -config <cfg> MCBucketMigration`, the last two with `MCMigrationScheduling` and
`MCClipboardPaste`); each ends in a counterexample.

| Configuration | Sentence | What happens |
| --- | --- | --- |
| `MCStop.cfg` (`StopRestoresAccess`) | "Stop is processed by the worker and restores access protections" | `_mark_canceled` clears the lease in the session, the first release's event flushes it, and every later release is refused as "lease lost" (`progress.py:316`) |
| `MCStopLost.cfg` (`StopNeverLost`) | "Stop is processed by the worker" | the run reads the row for the last time, the stop is committed, the run writes `awaiting_cutover` or `paused` over it (`execution_control.py:246`, `progress.py:170`, `progress.py:343`) |
| `MCReadOnly.cfg` (`SuccessfulSourceIsReadOnly`) | "Successful source buckets remain **read-only**" | pause at `sync`, restore access, resume: the step that applies read-only is behind the item (`retry.py:26`) |
| `MCCutover.cfg` (`ReadyForCutoverIsLocked`) | "destination writes are protected when that option is enabled" | pause after the bucket was created, resume: locked first, then overwritten by the copied policy (`execution_item_runner.py:336`) |
| `MCRestore.cfg` (`RestoreUnblocksSourceWrites`) | "Restore recorded source/destination policies … Source writes can resume" | the journalled policy of an interrupted grant contains the read-only statement that a stop released meanwhile (`preparation.py:277`) |
| `MCEndpointLimit.cfg` (`EndpointLimitRespected`) | "Maximum number of concurrently claimed bucket migrations that can use the same source or target endpoint" | an older migration claimed on a stale count outranks a younger one already running (`scheduling.py:86`) |
| `MCSelectionKept.cfg` (`SelectionKept`) | expected of a clipboard | other objects are cut while a move runs; its end clears the clipboard (`useBrowserClipboard.ts:618`), and nothing is left to paste |

One more, without a configuration: with a grant in the options, temporary changes of one
item nest, and `_recover_preparation_effects` restores them in journal order; the
policy of the later one brings the earlier change back.  `RestoreCompletes` fails for
such options and is checked without them.

Each property of a passing run has a mutant in `PROJECT.json`: a plausible bug in one
mapped definition that makes TLC report that property.

## Fairness

`FairSpec` assumes weak fairness of three things only: a polling worker claims what
is claimable (`_run_loop` polls for ever), a worker that runs goes on (`Worker`), and
an abandoned lease runs out.  Nothing is assumed of operators, clients and faults.
`FairSchedulingSpec` assumes that every worker thread keeps stepping and abandoned
leases run out; stalls before the heartbeat begins are incidents, and bounded.

`FairAuthSpec`: scripts run, the server answers, a refresh that is not answered times
out after 8 s, leases expire with the clock (weak fairness); a request that finds the
lock or the lease free again and again gets it, since the lock manager is first come
first served and the poll comes round every 50 ms (strong fairness).

In the liveness run a stop is only promised to an operator who comes before the last look
at the row (`StopTakesEffect`); a later one is lost, as `MCStopLost.cfg` shows.

`FairUploadSpec` and `FairPasteSpec`: the page goes on with its own steps (of a paste:
with some task, or with its end), and a call of
the API is answered or breaks.  `client.ts` sets no timeout on these calls, but the
backend bounds its own calls to S3 (`aws_client_config.py`).  Nothing is assumed of a
PUT that goes to S3 directly, of a stream, of S3 or of the user: `CancelSettles` holds
although a PUT may hang for ever.  In `ClipboardPaste` an upload is one call, which ends
or breaks.

## Proofs

TLAPS proves, for every value of the constants that the assumptions beside them admit
(a positive number of items, natural bounds, a positive lease duration, worker
identities other than "nobody" and "gone"):

| Theorem | Statement | Argument |
| --- | --- | --- |
| `MutualExclusion`, `LeaseIsKept` (`OperationLeaseProofs`) | one holder of an operation lease; only its holder ends or shortens a lease | `LeaseInv`: an owner name belongs to one process, what a process remembers of the clock is in the past, and *the row backs every unexpired handle*.  The last part is what `OneHolder` lacks to be inductive: the handle's expiry is computed from a clock read before the statement ran |
| `LeaseTypeCorrect` | types of the lease model | part of `LeaseInv` |
| `SchedulingTypeCorrect` (`MigrationSchedulingProofs`) | types of the scheduling model | part of `SchedulingInv` |
| `OneRunnerAlways` | no two workers run the same migration | `SchedulingInv`: a running worker owns a live lease of what it runs.  A claim needs a lease that is not live, a start needs an owned one, so neither meets a runner |
| `TypeCorrect` (`MigrationControlProofs`) | `TypeOK` of the migration engine | `TypeInv` adds `CurOK`: at a place that works on an item, `w.cur` is one.  One lemma per group of actions; `GotoType`, `SetItemType`, `PolicyTypes` and the like say once what the building blocks preserve |
| `WorkflowsExclusiveAlways` (`MigrationControlProofs`) | transfer, preparation and maintenance exclude each other; a worker runs only while one of them is under way and leased, but for a revoked run on its way out | `ControlInv` adds `PhaseOK`: the phase of the worker (`InRun`, `InMaintenance`, `InChecks`, read off its place and off where a release or a recovery goes next) is a state of the row.  Without it a command or a commit could end one workflow under a worker that is still in it.  A revoked run (`RevokedPcs`) has no phase: all it still does is undo its grant and fail its item and the row, whatever the row has become |
| `ProvenanceInvariant` (`MigrationControlProofs`) | an item beyond its first step has recorded that the migration created its destination, a run works on a recorded destination only while it exists, a cleanup runs on finished migrations only | `ProvenanceInv`, inductive relative to `ControlInv`: the precondition check of `_execute_migration_item` establishes existence, and only a cleanup, which excludes a run, removes a destination |
| `LockRecordedAlways` (`MigrationAccessProofs`) | every lock on a destination is recorded in its item | `LockInv`: no backup, no journalled effect and no remembered policy contains the lock (so no restore brings one back); a place that puts a lock has an item that records it and a destination that exists; a release is about to clear only records of destinations it has unlocked; a draft records none (so `UpdateDraft`, which resets the flags, forgets none) |
| `NoStaleTemporaryChangeAlways` (`MigrationAccessProofs`) | a run never builds on an item with an outstanding temporary change | `StaleInv`: at every place of a run outside a grant the journal of its item is empty.  The precondition check of `_execute_migration_item` establishes it; within a run only the grant makes an entry, which is cleared before the run goes on |
| `SourceInvariant`, `SourceChangesRecordedAlways`, `DeletedRecordLeavesNothingAlways` (`MigrationAccessProofs`) | whatever the engine put on a source, or a probe bucket, is recorded; a deleted record leaves nothing behind; without grants | `SourceInv`, see below |
| `CompletedCopyIsExactAlways`, `CompletedCopyPreservedAlways` (`MigrationDataProofs`) | of a read-only source the comparison passes only an exact copy, with which the item is completed unless a client wrote to an unlocked destination in between; a completed copy is changed by its own clients only | `CopyInv`: a completed item has a destination, the item under way is not a completed one (so neither the transfer nor the cleanup of failed destinations touches a completed copy), and what the verification listed of a read-only source is what it still holds at the comparison, and from there to the commit (`VerifyPcs`) only the clients of an unlocked destination can part the two |
| `ForeignTargetUntouchedAlways` (`MigrationDataProofs`) | a bucket of somebody else's is never written, locked, unlocked or deleted; names are not reused | `OwnInv`: only a destination recorded as created has a record of a lock; a destination recorded as created, or just created and not recorded yet, is not somebody else's; a cleanup and a release work on recorded destinations only |
| `RestoreCompletesAlways` (`MigrationDataProofs`) | a `restore_access` that reports success has given everything back; without grants | `RestoreInv`: its release begins with an empty journal, and unless an error is to be reported every protection is still to do or released; released ones stay released (`LockPlaces`, `ReleasedPlain`) |
| `SourceDeletedOnlyIfCopiedAlways` (`MigrationDataProofs`) | the data of a source is deleted only while the locked destination of this migration holds the same; without grants, names are not reused | `DeleteInv`, see below |
| `UsableToken`, `AuthTypes` (`AuthRefreshProofs`) | one usable refresh token, the newest, and none of a revoked session; any number of tabs and requests | `TokenInv` adds that a token which passed the check was issued: the claim is conditional on it being unused still, its successor is the newest, and a revocation leaves none |
| `SelfReplay` | a browser replays its own token only after a refresh lost its client or a lease its worker | `ReplayInv`: as long as nothing was lost, whoever refreshes holds the lock or a running lease that nobody is about to overwrite (`OwnTurn`), every call the server may still act on is awaited by such a request (`Awaited`), it carries the newest token, and when none is on its way the jar has it (`Fresh`) |
| `SignedOut` | a tab is sent to the session-expired page only when the session is over at the server, or the newer cookies of its retry had expired too | `SignInv`: as long as the session is active the jar never goes back (`JarKept`), only the newest cookies are still on their way (`OneGranted`, `Handed`) and cookies outlive the answer that brings them (`Unexpired`), so a retry always carries cookies newer than the refused ones (`Newer`) |
| `UploadTypes`, `UploadsClosed` (`MultipartUploadProofs`) | types; an upload whose id arrived is left open only if its abort was lost or refused; any number of parts and workers | `UploadInv`, see below |
| `UploadIsAtomic` | `UploadSpec` implements `AtomicUpload!Spec` (a refinement: absent, whole or torn, read off the parts S3 put together) | `UploadInv`: without a failure every part taken from the cursor is completed or in a worker's hands (`Taken`), and a pool that is through has taken them all unless the user aborted (`Through`, `Follows`), so `complete` is only sent with the whole file (`Published`); a file's rejection that is reported as cancelled comes before `complete` was sent; a stream's may come after, and `AtomicUpload` allows for it |
| `PasteTypeCorrect`, `NothingLostAlways`, `DoneMeansMovedAlways` (`ClipboardPasteProofs`) | types; every object of the clipboard is whole somewhere; a move reported as done moved everything it planned, and only such a move empties the clipboard; any number of objects, pastes and workers | `PasteInv`: places hold their own object or nothing (`OwnContent`), how far the calls of a task are says what is at its places (`Arrived`: the copy is there before the delete is sent), and a source is gone only if a copy of it has arrived (`CopiedFirst`), which no late call undoes |

The order of the argument for `LockRecordedAlways` is the order of the code: `JournalTargetLock` commits
the record before `PutTargetLock` runs, so a crash between the two leaves a record
without a lock and never the reverse; every step that clears `locked`
(`TargetLockRefused`, `FinishSourceCleanup`, `FinishTargetCleanup`, the commits of a
release) comes after the S3 call that removed the lock.

**`SourceInv`.**  That a managed statement on a source is recorded is not inductive, since
what a restore puts back is a backup: all backups and journalled policies have to be the
customer's own (`RowPlain`).  They are because a backup is taken only when none is recorded
and the journal is empty, hence the policy is unchanged (`BucketRecorded`).  Which of the two
records is in use depends on the status: journal entries belong to drafts, `read_only_applied`
to what was started (`RecordsByStatus`).  A place of the worker that puts a policy has the
record, one that clears a record has undone the change (`SourcePlace`), and a release has
restored what its commit is about to forget (`ReleasedPlain`).  `DeletedRecordLeavesNothing`
follows because `delete_migration` is refused while a protection is recorded.

**`DeleteInv`.**  A cleanup compares fingerprints once and writes a receipt; after a crash
the next one trusts the receipt if the source carries the cleanup's own policy and the
destination still has the receipt's fingerprint.  The receipt alone proves nothing, for the
source may have been given back and written to.  The invariant says what it proves: *behind
the cleanup's own policy a source holds what its receipt says, or nothing any more*
(`ReceiptTrue`): clients cannot write past that policy, only `CleanupPutPolicy` puts it, after
the comparison, and every restore puts a policy without it (`SourceInv`).  Within one
cleanup (`CleanupPlace`) the destination is locked and this migration's own from the first
fingerprint on (`OwnInv`), the fingerprint is the destination's, and the source is frozen
before it is compared.

**Hypotheses.**  `NoGrants` (no option set of `Options` has a temporary grant): with a grant
in the options the journal entries of an item nest and are restored in journal order, which
leaves the inner policy in place; `SourceChangesRecorded` and `RestoreCompletes` are false
then.  `~NameReuse` (nobody takes the name of a destination that disappeared after its
creation was recorded): `reused_name_deleted` shows what happens otherwise.  `PlacesApart`
(no destination is a source of the clipboard, but for an object that a paste within its
context finds in place already, and two objects have different destinations):
`move_onto_itself` shows an object lost to a destination that is its own source.
Everything else about the migration engine is proved with grants and with reused names.

Every invariant was also checked with TLC: `LockInv`, `StaleInv`, `SourceInv`, `CopyInv`,
`OwnInv`, `RestoreInv` and `DeleteInv` together on one item with every option set that has
no grant and two faults (6.2 million states) and on `two_buckets` (3.2 million); `LockInv`,
`StaleInv` and `CopyInv` with grants and reused names too (1.5 million).

With this, every invariant and every action property of the passing runs is a theorem.  Only
model-checked are the liveness properties (fairness and `ENABLED` are beyond the prover) and
the sentences that fail.

## What is not modelled, and the plan

Most of the repository, and nearly all of its TypeScript (about 197 000 lines), is
presentation: pages, forms, tables, translations, API wrappers and their tests.  They
keep no state that outlives a render or a request, and a model of them would restate
them.  The models cover the parts of the frontend that have a protocol of their own
(session refresh, multipart upload, paste) and the backend's stateful services, so the
share of all source lines they stand for is small, and is meant to be.

Left, in the order in which it would be worth doing:

1. *KeyRotation* (`durable_key_rotation_service.py`): intents, crash between provider
   and database, recovery; then managed private access and its compensation.
2. *Second worker.*  A worker that lost its lease while stalled between
   `_assert_workflow_lease` and an S3 call, next to its successor; `delete_migration`
   split into its check and its delete.
3. *Object level*: the merge of two sorted listings and the version-aware replay as
   operators against a reference definition; purge.
4. *Upload queue* (`useBrowserUploadQueue.ts`) on top of `AtomicUpload`; webhook
   outbox, whose dispatcher holds an operation lease.
5. *An abstract migration* (per item: not copied, copied, verified, source deleted)
   that `BucketMigration` implements.
6. *Proofs*: that `BucketMigration` implements the abstract migration of 5, from
   `CopyInv` and `DeleteInv`; what remains true of `SourceInv` when grants nest (the
   policies in a journal are ordered, and the first of them is the customer's own).

Left out for good: presentation, third party protocols, read-only queries and
listings, counters and progress, notification texts, schema migrations, deployment.
