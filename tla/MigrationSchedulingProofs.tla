--------------------- MODULE MigrationSchedulingProofs ---------------------
(***************************************************************************)
(* One runner per migration, for every number of workers and migrations,   *)
(* every set of endpoints, every limit and every number of incidents.      *)
(***************************************************************************)
EXTENDS MigrationScheduling, FiniteSetTheorems, TLAPS

USE MAssumption, ProcessAssumption

WorkerPcs == {"poll", "list", "next", "recheck", "release", "recount", "start",
              "running"}
WorkerMemory ==
    [pc : WorkerPcs, usage : SUBSET Migrations, todo : SUBSET Migrations, cur : 0..M]
Leases == [owner : Process \cup {Nobody, Gone}, live : BOOLEAN]

\* A worker that has claimed remembers a migration.
ClaimKnown ==
    \A p \in Process :
      worker[p].pc \in {"recheck", "release", "start", "running"} =>
        worker[p].cur \in Migrations

\* A running worker owns a live lease of what it runs.
RunnerOwnsLease ==
    \A p \in Process : worker[p].pc = "running" =>
      lease[worker[p].cur].owner = p /\ lease[worker[p].cur].live

SchedulingInv == SchedulingTypeOK /\ ClaimKnown /\ RunnerOwnsLease

\* The initial memory of a worker, and a lease that is free, are well typed.
LEMMA InitialMemory == PollingWorker \in WorkerMemory /\ Free \in Leases
<1>1. 0 \in 0..M
  OBVIOUS
<1>2. QED
  BY <1>1 DEF PollingWorker, WorkerMemory, WorkerPcs, Free, Leases

\* Nothing runs when the workers start.
LEMMA SchedulingInitInv == SchedulingInit => SchedulingInv
<1> SUFFICES ASSUME SchedulingInit PROVE SchedulingInv
  OBVIOUS
<1>1. SchedulingTypeOK
  BY InitialMemory, LimitAssumption
     DEF SchedulingInit, SchedulingTypeOK, WorkerMemory, WorkerPcs, Leases
<1>2. \A p \in Process : worker[p].pc = "poll"
  BY DEF SchedulingInit, PollingWorker
<1>3. QED
  BY <1>1, <1>2 DEF SchedulingInv, ClaimKnown, RunnerOwnsLease

\* A worker that is not running, and whose step leaves the leases alone,
\* disturbs no runner.
LEMMA QuietStep ==
    ASSUME SchedulingInv, NEW p \in Process, NEW mem \in WorkerMemory,
           mem.pc # "running", worker' = [worker EXCEPT ![p] = mem],
           mem.pc \in {"recheck", "release", "start"} => mem.cur \in Migrations,
           UNCHANGED <<work, lease, incidents>>
    PROVE  SchedulingInv'
<1>1. SchedulingTypeOK'
  BY DEF SchedulingInv, SchedulingTypeOK, WorkerMemory, WorkerPcs
<1>2. \A q \in Process : worker'[q] = IF q = p THEN mem ELSE worker[q]
  BY DEF SchedulingInv, SchedulingTypeOK
<1>3. QED
  BY <1>1, <1>2 DEF SchedulingInv, ClaimKnown, RunnerOwnsLease

\* A worker writes one lease that no other worker is running under.
LEMMA LeaseStep ==
    ASSUME SchedulingInv, NEW p \in Process, NEW mem \in WorkerMemory,
           NEW m \in Migrations, NEW row \in Leases,
           \A q \in Process \ {p} : worker[q].pc = "running" => worker[q].cur # m,
           worker' = [worker EXCEPT ![p] = mem], lease' = [lease EXCEPT ![m] = row],
           mem.pc \in {"recheck", "release", "start", "running"} =>
             mem.cur \in Migrations,
           mem.pc = "running" => mem.cur = m /\ row.owner = p /\ row.live,
           work' \in [Migrations -> {"draft", "runnable", "done"}],
           UNCHANGED incidents
    PROVE  SchedulingInv'
<1>1. SchedulingTypeOK'
  BY DEF SchedulingInv, SchedulingTypeOK, WorkerMemory, WorkerPcs, Leases
<1>2. /\ \A q \in Process : worker'[q] = IF q = p THEN mem ELSE worker[q]
      /\ \A n \in Migrations : lease'[n] = IF n = m THEN row ELSE lease[n]
  BY DEF SchedulingInv, SchedulingTypeOK
<1>3. ClaimKnown'
  BY <1>2 DEF SchedulingInv, ClaimKnown
<1>4. RunnerOwnsLease'
  BY <1>2 DEF SchedulingInv, ClaimKnown, RunnerOwnsLease
<1>5. QED
  BY <1>1, <1>3, <1>4 DEF SchedulingInv

\* The steps of one worker.
LEMMA WorkerStepInv ==
    ASSUME SchedulingInv, NEW p \in Process, WorkerStep(p) PROVE SchedulingInv'
<1> DEFINE me == worker[p]
<1>1. /\ me \in WorkerMemory
      /\ work \in [Migrations -> {"draft", "runnable", "done"}]
      /\ lease \in [Migrations -> Leases]
      /\ worker \in [Process -> WorkerMemory]
  BY DEF SchedulingInv, SchedulingTypeOK, WorkerMemory, WorkerPcs, Leases
<1>2. me.pc \in {"recheck", "release", "start", "running"} => me.cur \in Migrations
  BY DEF SchedulingInv, ClaimKnown
<1>3. CASE CountUsage(p)
  <2> DEFINE mem == [me EXCEPT !.usage = Active,
                               !.pc = IF me.pc = "poll" THEN "list" ELSE "next"]
  <2>1. worker' = [worker EXCEPT ![p] = mem]
    BY <1>1, <1>3 DEF CountUsage
  <2>2. Active \subseteq Migrations
    BY DEF Active
  <2>3. mem \in WorkerMemory /\ mem.pc \in {"list", "next"}
    BY <1>1, <2>2 DEF WorkerMemory, WorkerPcs
  <2>4. QED
    BY <1>3, <2>1, <2>3, QuietStep DEF CountUsage
<1>4. CASE ListCandidates(p)
  <2> DEFINE mem == [me EXCEPT !.todo = Candidates, !.pc = "next"]
  <2>1. worker' = [worker EXCEPT ![p] = mem]
    BY <1>1, <1>4 DEF ListCandidates
  <2>2. Candidates \subseteq Migrations
    BY DEF Candidates
  <2>3. mem \in WorkerMemory /\ mem.pc = "next"
    BY <1>1, <2>2 DEF WorkerMemory, WorkerPcs
  <2>4. QED
    BY <1>4, <2>1, <2>3, QuietStep DEF ListCandidates
<1>5. CASE TryCandidate(p)
  <2> DEFINE m == Min(me.todo)
             tried == [me EXCEPT !.todo = me.todo \ {m}]
             claimed == [me EXCEPT !.todo = me.todo \ {m}, !.pc = "recheck", !.cur = m]
  <2>1. me.pc = "next"
    BY <1>5 DEF TryCandidate
  <2>2. CASE worker' = [worker EXCEPT ![p].todo = @ \ {m}] /\ UNCHANGED lease
    <3>1. worker' = [worker EXCEPT ![p] = tried]
      BY <1>1, <2>2
    <3>2. tried \in WorkerMemory /\ tried.pc = "next"
      BY <1>1, <2>1 DEF WorkerMemory
    <3>3. QED
      BY <1>5, <2>2, <3>1, <3>2, QuietStep DEF TryCandidate
  <2>3. CASE /\ m \in Candidates
             /\ lease' = [lease EXCEPT ![m] = [owner |-> p, live |-> TRUE]]
             /\ worker' = [[worker EXCEPT ![p].todo = @ \ {m}]
                             EXCEPT ![p].pc = "recheck", ![p].cur = m]
    <3>1. m \in Migrations /\ ~lease[m].live
      BY <2>3 DEF Candidates
    <3>2. worker' = [worker EXCEPT ![p] = claimed]
      BY <1>1, <2>3
    <3>k. m \in 0..M /\ me.todo \ {m} \in SUBSET Migrations /\ "recheck" \in WorkerPcs
      BY <1>1, <3>1 DEF WorkerMemory, WorkerPcs, Migrations
    <3>3. claimed \in WorkerMemory /\ claimed.pc = "recheck" /\ claimed.cur = m
      BY <1>1, <3>k DEF WorkerMemory
    <3>4. [owner |-> p, live |-> TRUE] \in Leases
      BY DEF Leases
    <3>5. \A q \in Process : worker[q].pc = "running" => worker[q].cur # m
      BY <3>1 DEF SchedulingInv, RunnerOwnsLease
    <3>6. UNCHANGED <<work, incidents>>
      BY <1>5 DEF TryCandidate
    <3>7. lease' = [lease EXCEPT ![m] = [owner |-> p, live |-> TRUE]]
      BY <2>3
    <3> DEFINE row == [owner |-> p, live |-> TRUE]
    <3> HIDE DEF m, claimed, row
    <3>8. QED
      BY <1>1, <3>1, <3>2, <3>3, <3>4, <3>5, <3>6, <3>7, LeaseStep DEF row
  <2>4. QED
    BY <1>5, <2>2, <2>3 DEF TryCandidate
<1>6. CASE NothingToClaim(p)
  BY <1>6, InitialMemory, QuietStep DEF NothingToClaim, PollingWorker
<1>7. CASE Recheck(p)
  <2> DEFINE mem == [me EXCEPT !.pc = IF WithinEndpointLimit(me.cur)
                                      THEN "start" ELSE "release"]
  <2>1. worker' = [worker EXCEPT ![p] = mem]
    BY <1>1, <1>7 DEF Recheck
  <2>2. /\ mem \in WorkerMemory /\ mem.pc \in {"start", "release"}
        /\ mem.cur \in Migrations
    BY <1>1, <1>2, <1>7 DEF Recheck, WorkerMemory, WorkerPcs
  <2>3. QED
    BY <1>7, <2>1, <2>2, QuietStep DEF Recheck
<1>8. CASE ReleaseClaim(p)
  <2> DEFINE mem == [me EXCEPT !.pc = "recount", !.cur = 0]
  <2>1. worker' = [worker EXCEPT ![p] = mem]
    BY <1>1, <1>8 DEF ReleaseClaim
  <2>0. 0 \in 0..M /\ "recount" \in WorkerPcs
    BY DEF WorkerPcs
  <2>2. mem \in WorkerMemory /\ mem.pc = "recount"
    BY <1>1, <2>0 DEF WorkerMemory
  <2>3. CASE lease[me.cur].owner = p
    <3>1. me.cur \in Migrations /\ lease' = [lease EXCEPT ![me.cur] = Free]
      BY <1>2, <1>8, <2>3 DEF ReleaseClaim
    <3>2. \A q \in Process \ {p} : worker[q].pc = "running" => worker[q].cur # me.cur
      BY <2>3 DEF SchedulingInv, RunnerOwnsLease
    <3>3. UNCHANGED <<work, incidents>>
      BY <1>8 DEF ReleaseClaim
    <3> HIDE DEF mem
    <3>4. QED
      BY <1>1, <2>1, <2>2, <3>1, <3>2, <3>3, InitialMemory, LeaseStep
  <2>4. CASE lease[me.cur].owner # p
    BY <1>8, <2>1, <2>2, <2>4, QuietStep DEF ReleaseClaim
  <2>5. QED
    BY <2>3, <2>4
<1>9. CASE StartRun(p)
  <2>1. me.pc = "start" /\ me.cur \in Migrations
    BY <1>2, <1>9 DEF StartRun
  <2>2. CASE lease[me.cur].owner = p /\ work[me.cur] = "runnable"
    <3> DEFINE mem == [me EXCEPT !.pc = "running"]
               row == [lease[me.cur] EXCEPT !.live = TRUE]
    <3>1. worker' = [worker EXCEPT ![p] = mem]
      BY <1>1, <1>9, <2>2 DEF StartRun
    <3>2. mem \in WorkerMemory /\ mem.cur = me.cur
      BY <1>1 DEF WorkerMemory, WorkerPcs
    <3>3. lease' = [lease EXCEPT ![me.cur] = row]
      BY <1>9, <2>2 DEF StartRun
    <3>m. row \in Leases /\ row.owner = p /\ row.live
      BY <1>1, <2>1, <2>2 DEF Leases
    <3>4. \A q \in Process \ {p} : worker[q].pc = "running" => worker[q].cur # me.cur
      BY <2>2 DEF SchedulingInv, RunnerOwnsLease
    <3>5. UNCHANGED <<work, incidents>>
      BY <1>9 DEF StartRun
    <3> HIDE DEF mem, row
    <3>6. QED
      BY <1>1, <2>1, <3>1, <3>2, <3>3, <3>m, <3>4, <3>5, LeaseStep
  <2>3. CASE ~(lease[me.cur].owner = p /\ work[me.cur] = "runnable")
    BY <1>9, <2>3, InitialMemory, QuietStep DEF StartRun, PollingWorker
  <2>4. QED
    BY <2>2, <2>3
<1>10. CASE FinishRun(p)
  <2>1. me.pc = "running" /\ me.cur \in Migrations
    BY <1>2, <1>10 DEF FinishRun
  <2>2. lease[me.cur].owner = p
    BY <2>1 DEF SchedulingInv, RunnerOwnsLease
  <2>3. \A q \in Process \ {p} : worker[q].pc = "running" => worker[q].cur # me.cur
    BY <2>2 DEF SchedulingInv, RunnerOwnsLease
  <2>4. work' \in [Migrations -> {"draft", "runnable", "done"}]
    BY <1>1, <1>10 DEF FinishRun
  <2>5. PollingWorker.pc = "poll"
    BY DEF PollingWorker
  <2>6. QED
    BY <1>10, <2>1, <2>3, <2>4, <2>5, InitialMemory, LeaseStep DEF FinishRun
<1>11. QED
  BY <1>3, <1>4, <1>5, <1>6, <1>7, <1>8, <1>9, <1>10 DEF WorkerStep

\* A process that dies takes nobody else's lease with it.
LEMMA CrashInv ==
    ASSUME SchedulingInv, NEW p \in Process, CrashWorker(p) PROVE SchedulingInv'
<1>1. incidents' \in 0..MaxIncidents
  BY LimitAssumption DEF SchedulingInv, SchedulingTypeOK, CrashWorker, Incident
<1>2. \A q \in Process : worker'[q] = IF q = p THEN PollingWorker ELSE worker[q]
  BY DEF SchedulingInv, SchedulingTypeOK, CrashWorker
<1>3. \A m \in Migrations :
        /\ lease'[m] \in Leases
        /\ lease[m].owner # p => lease'[m] = lease[m]
  BY DEF SchedulingInv, SchedulingTypeOK, CrashWorker, Leases
<1>4. worker' \in [Process -> WorkerMemory] /\ lease' \in [Migrations -> Leases]
  BY <1>3, InitialMemory
     DEF SchedulingInv, SchedulingTypeOK, CrashWorker, WorkerMemory, WorkerPcs
<1>5. SchedulingTypeOK'
  BY <1>1, <1>4 DEF SchedulingInv, SchedulingTypeOK, CrashWorker, WorkerMemory,
                    WorkerPcs, Leases
<1>6. PollingWorker.pc = "poll"
  BY DEF PollingWorker
<1>7. ClaimKnown'
  BY <1>2, <1>6 DEF SchedulingInv, ClaimKnown
<1>8. RunnerOwnsLease'
  <2> SUFFICES ASSUME NEW q \in Process, worker'[q].pc = "running"
               PROVE  lease'[worker'[q].cur].owner = q /\ lease'[worker'[q].cur].live
    BY DEF RunnerOwnsLease
  <2>1. q # p /\ worker'[q] = worker[q]
    BY <1>2, <1>6
  <2>2. /\ worker[q].cur \in Migrations
        /\ lease[worker[q].cur].owner = q /\ lease[worker[q].cur].live
    BY <2>1 DEF SchedulingInv, ClaimKnown, RunnerOwnsLease
  <2>3. QED
    BY <1>3, <2>1, <2>2
<1>9. QED
  BY <1>5, <1>7, <1>8 DEF SchedulingInv

\* Commands change no lease, and a lease never expires under a runner.
LEMMA EnvironmentInv ==
    ASSUME SchedulingInv, NEW m \in Migrations,
           Submit(m) \/ AbandonedLeaseExpires(m) \/ StalledLeaseExpires(m)
    PROVE  SchedulingInv'
<1>1. CASE Submit(m)
  BY <1>1 DEF Submit, SchedulingInv, SchedulingTypeOK, ClaimKnown, RunnerOwnsLease
<1>2. CASE AbandonedLeaseExpires(m) \/ StalledLeaseExpires(m)
  <2> DEFINE row == [lease[m] EXCEPT !.live = FALSE]
  <2>1. lease \in [Migrations -> Leases]
    BY DEF SchedulingInv, SchedulingTypeOK, Leases
  <2>2. row \in Leases /\ lease' = [lease EXCEPT ![m] = row]
    BY <1>2, <2>1 DEF AbandonedLeaseExpires, StalledLeaseExpires, Leases
  <2>3. incidents' \in 0..MaxIncidents
    BY <1>2, LimitAssumption DEF AbandonedLeaseExpires, StalledLeaseExpires,
       Incident, SchedulingInv, SchedulingTypeOK
  <2>4. UNCHANGED <<work, worker>>
    BY <1>2 DEF AbandonedLeaseExpires, StalledLeaseExpires
  <2>5. SchedulingTypeOK'
    BY <2>1, <2>2, <2>3, <2>4 DEF SchedulingInv, SchedulingTypeOK, Leases
  <2>6. \A q \in Process : worker[q].pc = "running" => worker[q].cur # m
    BY <1>2 DEF AbandonedLeaseExpires, StalledLeaseExpires, SchedulingInv,
                RunnerOwnsLease
  <2>7. ClaimKnown' /\ RunnerOwnsLease'
    BY <2>1, <2>2, <2>4, <2>6 DEF SchedulingInv, ClaimKnown, RunnerOwnsLease
  <2>8. QED
    BY <2>5, <2>7 DEF SchedulingInv
<1>3. QED
  BY <1>1, <1>2

\* Every step keeps the invariant.
LEMMA SchedulingNextInv ==
    SchedulingInv /\ [SchedulingNext]_schedulingVars => SchedulingInv'
<1> SUFFICES ASSUME SchedulingInv, [SchedulingNext]_schedulingVars
             PROVE  SchedulingInv'
  OBVIOUS
<1>1. CASE UNCHANGED schedulingVars
  BY <1>1 DEF schedulingVars, SchedulingInv, SchedulingTypeOK, ClaimKnown,
              RunnerOwnsLease
<1>2. CASE SchedulingNext
  BY <1>2, WorkerStepInv, CrashInv, EnvironmentInv DEF SchedulingNext
<1>3. QED
  BY <1>1, <1>2

\* The inductive invariant: a running worker owns a live lease.
THEOREM SchedulingInvariant == SchedulingSpec => []SchedulingInv
<1>1. QED
  BY SchedulingInitInv, SchedulingNextInv, PTL DEF SchedulingSpec

\* Every query and every commit of any number of workers keeps rows, leases and
\* the memory of the workers within their types: a lease is owned by a process
\* that lives, by one that died or by nobody, and a worker that gives back or
\* starts a claim names a migration.
THEOREM SchedulingTypeCorrect == SchedulingSpec => []SchedulingTypeOK
<1>1. SchedulingInv => SchedulingTypeOK
  BY DEF SchedulingInv
<1>2. QED
  BY <1>1, SchedulingInvariant, PTL

\* Whatever claims run out between the UPDATE, the rank and the start of a run,
\* and whichever processes die, no two workers run the same migration.
THEOREM OneRunnerAlways == SchedulingSpec => []OneRunner
<1>1. SchedulingInv => OneRunner
  <2> SUFFICES ASSUME SchedulingInv, NEW m \in Migrations
               PROVE  Cardinality(RunnersOf(m)) <= 1
    BY DEF OneRunner
  <2>1. \A p, q \in RunnersOf(m) : p = q
    BY DEF RunnersOf, SchedulingInv, RunnerOwnsLease
  <2>2. CASE RunnersOf(m) = {}
    BY <2>2, FS_EmptySet
  <2>3. CASE RunnersOf(m) # {}
    <3>1. PICK p : p \in RunnersOf(m)
      BY <2>3
    <3>2. RunnersOf(m) = {p}
      BY <2>1, <3>1
    <3>3. QED
      BY <3>2, FS_Singleton
  <2>4. QED
    BY <2>2, <2>3
<1>2. QED
  BY <1>1, SchedulingInvariant, PTL
=============================================================================
