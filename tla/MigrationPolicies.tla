------------------------- MODULE MigrationPolicies -------------------------
(***************************************************************************)
(* The policies the engine builds and how it puts the two long-lived ones  *)
(* in place (execution_policy_grants.py, maintenance.py).                  *)
(***************************************************************************)
EXTENDS MigrationState

WithoutReadOnly(p) == p \ {"RO", "ROw"}
BuildReadOnlyPolicy(p) == WithoutReadOnly(p) \cup {"RO"}
BuildSourceCleanupPolicy(backup) == WithoutReadOnly(backup) \cup {"ROw", "CDP"}
BuildTargetWriteLockPolicy(p) == p \cup {"LOCK"}
BuildSourceCopyGrantPolicy(p) == p \cup {"GRANT"}

(***************************************************************************)
(* _apply_target_write_lock_policy and _apply_read_only_policy write the   *)
(* backup and the flag, commit, and only then put the policy.              *)
(***************************************************************************)
\* Mutant of JournalTargetLock: the flag is left to be set after the put.
JournalTargetLockLate(row) == [row EXCEPT !.lock_backup = Bk.target_policy]

JournalTargetLock(row) ==
    [row EXCEPT !.locked = TRUE, !.lock_backup = Bk.target_policy]

JournalReadOnly(row) ==
    IF row.ro THEN row
    ELSE [row EXCEPT !.ro = TRUE, !.ro_backup = Bk.source_policy]

PutTargetLock(from, to) ==
    /\ w.pc = from
    /\ SetBucket([Bk EXCEPT !.target_policy = BuildTargetWriteLockPolicy(w.policy)])
    /\ Goto(to)
    /\ UNCHANGED <<opt, mig, item, faults>>

PutReadOnly(from, to) ==
    /\ w.pc = from
    /\ SetBucket([Bk EXCEPT !.source_policy = BuildReadOnlyPolicy(w.policy)])
    /\ Goto(to)
    /\ UNCHANGED <<opt, mig, item, faults>>
=============================================================================
