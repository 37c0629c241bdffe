----------------------- MODULE MigrationPreparation -----------------------
(***************************************************************************)
(* The checks a draft must pass (preparation.py, precheck.py,              *)
(* precheck_rules.py).  Active checks change the world: for every item     *)
(* they try a read grant (task 1) and the read-only policy (task 2) on the *)
(* source, create a probe bucket (task 3), copy into it under a second     *)
(* grant (task 4) and delete it (task 5).  Every change is journalled in   *)
(* preparation_effects before it is made and undone before its entry is    *)
(* cleared.                                                                *)
(***************************************************************************)
EXTENDS MigrationPolicies

\* Mutant of ClaimPreparation: drafts with outstanding effects are passed over.
ClaimPreparationClean ==
    /\ w.pc = "idle" /\ ~Recovery
    /\ mig.status = "draft" /\ mig.preparation = "checking" /\ ~mig.leased
    /\ mig' = [mig EXCEPT !.leased = TRUE]
    /\ w' = [IdleWorker EXCEPT !.pc = "recover", !.then = "checks"]
    /\ UNCHANGED <<opt, item, bucket, faults>>

\* claim_next_preparation_id, then run_precheck up to
\* _recover_preparation_effects (in MigrationMaintenance)
ClaimPreparation ==
    /\ w.pc = "idle"
    /\ mig.status = "draft" /\ mig.preparation = "checking" /\ ~mig.leased
    /\ mig' = [mig EXCEPT !.leased = TRUE]
    /\ w' = [IdleWorker EXCEPT !.pc = "recover", !.then = "checks"]
    /\ UNCHANGED <<opt, item, bucket, faults>>

EffectOf(task) ==
    CASE task \in {1, 4} -> "source_copy_grant"
      [] task = 2 -> "source_policy"
      [] OTHER -> "probe_bucket"
Journalled(task) == \E e \in It.effects : e.name = EffectOf(task)

\* The task after this one; 0 is the end of the item.
TaskAfter(task) ==
    CASE task = 0 -> IF opt.grant THEN 1 ELSE 2
      [] task = 3 -> IF opt.grant THEN 4 ELSE 5
      [] task = 5 -> 0
      [] OTHER -> task + 1

\* Begin a task, having seen a new error or not.  Task 5 undoes task 3.
BeginTask(task, failed) ==
    w' = IF task = 0
         THEN [w EXCEPT !.pc = "check_item", !.cur = @ + 1, !.task = 0,
                        !.err = @ \/ failed]
         ELSE [w EXCEPT !.pc = IF task = 5 THEN "check_restore" ELSE "check_begin",
                        !.task = task, !.err = @ \/ failed]

\* precheck.py, run: a destination that exists is a blocking error, and
\* nothing is changed for it.
CheckItem ==
    /\ w.pc = "check_item" /\ w.cur <= N
    /\ IF mig.active_checks /\ Bk.target_by = "nobody"
       THEN BeginTask(TaskAfter(0), FALSE)
       ELSE BeginTask(0, Bk.target_by # "nobody")
    /\ UNCHANGED <<opt, mig, item, bucket, faults>>

\* Where an exception raised before or after the change leads.
TaskAfterRefusal == IF w.task = 3 THEN 0 ELSE TaskAfter(w.task)

\* _journal_preparation_effect refuses an effect that is still recorded.
JournalEffect ==
    /\ w.pc = "check_begin"
    /\ IF Journalled(w.task)
       THEN BeginTask(TaskAfterRefusal, TRUE) /\ UNCHANGED item
       ELSE /\ SetItem([It EXCEPT !.effects = @ \cup
                 {[name |-> EffectOf(w.task), at |-> w.task,
                   policy |-> IF w.task = 3 THEN {} ELSE Bk.source_policy]}])
            /\ w' = [w EXCEPT !.pc = "check_put", !.policy = Bk.source_policy]
    /\ UNCHANGED <<opt, mig, bucket, faults>>

Changed ==
    CASE w.task = 3 -> [Bk EXCEPT !.probe = TRUE]
      [] w.task = 2 -> [Bk EXCEPT !.source_policy = BuildReadOnlyPolicy(w.policy)]
      [] OTHER -> [Bk EXCEPT !.source_policy = BuildSourceCopyGrantPolicy(w.policy)]

\* The probe stays until task 5; a policy is restored right away.
AfterChange(failed) ==
    IF w.task = 3
    THEN BeginTask(IF failed THEN 5 ELSE TaskAfter(3), failed)
    ELSE w' = [w EXCEPT !.pc = "check_restore", !.err = @ \/ failed]

ApplyChange ==
    /\ w.pc = "check_put"
    /\ SetBucket(Changed)
    /\ AfterChange(FALSE)
    /\ UNCHANGED <<opt, mig, item, faults>>

\* _restore_checked_policy, _cleanup_destination_probe_bucket
UndoChange ==
    /\ w.pc = "check_restore"
    /\ SetBucket(IF w.task = 5 THEN [Bk EXCEPT !.probe = FALSE]
                 ELSE [Bk EXCEPT !.source_policy = w.policy])
    /\ Goto("check_clear")
    /\ UNCHANGED <<opt, mig, item, faults>>

ClearEffect ==
    /\ w.pc = "check_clear"
    /\ SetItem([It EXCEPT !.effects = {e \in @ : e.name # EffectOf(w.task)}])
    /\ BeginTask(TaskAfter(w.task), FALSE)
    /\ UNCHANGED <<opt, mig, bucket, faults>>

\* Mutant of CheckFault: the entry is cleared although the restore failed.
CheckFaultCleared ==
    /\ w.pc = "check_restore"
    /\ Fault
    /\ SetItem([It EXCEPT !.effects = {e \in @ : e.name # EffectOf(w.task)}])
    /\ BeginTask(TaskAfterRefusal, TRUE)
    /\ UNCHANGED <<opt, mig, bucket>>

\* The rules turn every exception of a task into a blocking finding.
CheckFault ==
    /\ w.pc \in {"check_begin", "check_put", "check_restore", "check_clear"}
    /\ Fault
    /\ \/ /\ w.pc = "check_put"
          /\ bucket' \in {bucket, [bucket EXCEPT ![w.cur] = Changed]}
          /\ AfterChange(TRUE)
       \/ /\ w.pc # "check_put"
          /\ BeginTask(TaskAfterRefusal, TRUE)
          /\ UNCHANGED bucket
    /\ UNCHANGED <<opt, mig, item>>

\* _complete_precheck_report; other findings (versioning, permissions,
\* unsupported settings) may add errors of their own.
ReportChecks ==
    /\ w.pc = "check_item" /\ w.cur > N
    /\ \E found \in BOOLEAN :
         mig' = IF Recovery
                THEN [mig EXCEPT !.preparation = "blocked", !.leased = FALSE]
                ELSE [mig EXCEPT
                        !.preparation = IF w.err \/ found THEN "blocked"
                                        ELSE IF mig.active_checks THEN "ready"
                                        ELSE "unverified",
                        !.current = TRUE, !.leased = FALSE]
    /\ w' = IdleWorker
    /\ UNCHANGED <<opt, item, bucket, faults>>

\* _record_precheck_failure, at a checkpoint between two items
ChecksInterrupted ==
    /\ w.pc = "check_item"
    /\ Fault
    /\ mig' = [mig EXCEPT !.preparation = "blocked", !.leased = FALSE]
    /\ w' = IdleWorker
    /\ UNCHANGED <<opt, item, bucket>>

Preparation ==
    \/ CheckItem \/ JournalEffect \/ ApplyChange \/ UndoChange \/ ClearEffect
    \/ ReportChecks

PreparationFaults == CheckFault \/ ChecksInterrupted
=============================================================================
