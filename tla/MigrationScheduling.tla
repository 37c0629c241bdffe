------------------------ MODULE MigrationScheduling ------------------------
(***************************************************************************)
(* How worker processes share the migrations (scheduling.py, worker.py,    *)
(* the start of run_migration).  A worker counts the live leases per       *)
(* endpoint, lists the candidates, claims one with a conditional UPDATE,   *)
(* ranks the live leases again and gives its claim back when its migration *)
(* is not among the oldest Limit of an endpoint.  Every query and every    *)
(* commit is a step: the count, the list and the rank are three different  *)
(* snapshots.                                                              *)
(***************************************************************************)
EXTENDS Integers, FiniteSets, FiniteSetsExt

CONSTANTS
    Process,        \* worker processes
    M,              \* number of migrations, numbered by created_at
    Endpoints,      \* endpoints each migration uses
    Limit,          \* max_active_per_endpoint
    MaxIncidents    \* bound: crashes, and leases lost by a live worker

Migrations == 1..M

ASSUME MAssumption == M \in Nat
ASSUME LimitAssumption == Limit \in Nat \ {0} /\ MaxIncidents \in Nat
ASSUME EndpointsAssumption ==
    \A m \in Migrations : IsFiniteSet(Endpoints[m]) /\ Endpoints[m] # {}

VARIABLES
    work,           \* what the row says of its work
    lease,          \* worker_lease_owner; live: worker_lease_until is ahead
    worker,         \* memory of each worker process
    incidents       \* crashes and lost leases so far (bound)

schedulingVars == <<work, lease, worker, incidents>>

Nobody == "nobody"
Gone == "gone"      \* the identity of a process that died

ASSUME ProcessAssumption == Nobody \notin Process /\ Gone \notin Process

Free == [owner |-> Nobody, live |-> FALSE]

\* usage: the migrations counted as active; todo: the candidates not tried
\* yet; cur: the migration claimed or run, 0 for none.
PollingWorker == [pc |-> "poll", usage |-> {}, todo |-> {}, cur |-> 0]

SchedulingTypeOK ==
    /\ work \in [Migrations -> {"draft", "runnable", "done"}]
    /\ lease \in [Migrations -> [owner : Process \cup {Nobody, Gone}, live : BOOLEAN]]
    /\ worker \in [Process ->
         [pc : {"poll", "list", "next", "recheck", "release", "recount", "start",
                "running"},
          usage : SUBSET Migrations, todo : SUBSET Migrations, cur : 0..M]]
    /\ incidents \in 0..MaxIncidents

SchedulingInit ==
    /\ work = [m \in Migrations |-> "draft"]
    /\ lease = [m \in Migrations |-> Free]
    /\ worker = [p \in Process |-> PollingWorker]
    /\ incidents = 0

\* An operator's command makes the migration runnable.
Submit(m) ==
    /\ work[m] = "draft"
    /\ work' = [work EXCEPT ![m] = "runnable"]
    /\ UNCHANGED <<lease, worker, incidents>>

\* _active_endpoint_usage and _runnable_candidate_rows
Active == {m \in Migrations : work[m] = "runnable" /\ lease[m].live}
Candidates == {m \in Migrations : work[m] = "runnable" /\ ~lease[m].live}

CountUsage(p) ==
    /\ worker[p].pc \in {"poll", "recount"}
    /\ worker' = [worker EXCEPT
         ![p].usage = Active, ![p].pc = IF @ = "poll" THEN "list" ELSE "next"]
    /\ UNCHANGED <<work, lease, incidents>>

ListCandidates(p) ==
    /\ worker[p].pc = "list"
    /\ worker' = [worker EXCEPT ![p].todo = Candidates, ![p].pc = "next"]
    /\ UNCHANGED <<work, lease, incidents>>

Using(S, e) == {m \in S : e \in Endpoints[m]}
Saturated(p, m) ==
    \E e \in Endpoints[m] : Cardinality(Using(worker[p].usage, e)) >= Limit

\* The loop over the candidates.  The claim is lost when someone else's
\* UPDATE came first.
TryCandidate(p) ==
    /\ worker[p].pc = "next" /\ worker[p].todo # {}
    /\ LET m == Min(worker[p].todo)
           tried == [worker EXCEPT ![p].todo = @ \ {m}]
       IN  \/ /\ Saturated(p, m) \/ m \notin Candidates
              /\ worker' = tried
              /\ UNCHANGED lease
           \/ /\ ~Saturated(p, m) /\ m \in Candidates
              /\ lease' = [lease EXCEPT ![m] = [owner |-> p, live |-> TRUE]]
              /\ worker' = [tried EXCEPT ![p].pc = "recheck", ![p].cur = m]
    /\ UNCHANGED <<work, incidents>>

NothingToClaim(p) ==
    /\ worker[p].pc = "next" /\ worker[p].todo = {}
    /\ worker' = [worker EXCEPT ![p] = PollingWorker]
    /\ UNCHANGED <<work, lease, incidents>>

\* Mutant of WithinEndpointLimit: an off-by-one in the rank.
WithinEndpointLimitStrict(m) ==
    \A e \in Endpoints[m] :
      /\ m \in Active
      /\ Cardinality({n \in Using(Active, e) : n <= m}) < Limit

\* _claimed_migration_within_endpoint_limit
WithinEndpointLimit(m) ==
    \A e \in Endpoints[m] :
      /\ m \in Active
      /\ Cardinality({n \in Using(Active, e) : n < m}) < Limit

Recheck(p) ==
    /\ worker[p].pc = "recheck"
    /\ worker' = [worker EXCEPT ![p].pc =
         IF WithinEndpointLimit(worker[p].cur) THEN "start" ELSE "release"]
    /\ UNCHANGED <<work, lease, incidents>>

\* Mutant of ReleaseClaim: the owner is overwritten instead of cleared.
ReleaseClaimUnknown(p) ==
    /\ worker[p].pc = "release"
    /\ lease' = [lease EXCEPT ![worker[p].cur] = [owner |-> "unknown", live |-> FALSE]]
    /\ worker' = [worker EXCEPT ![p].pc = "recount", ![p].cur = 0]
    /\ UNCHANGED <<work, incidents>>

\* _release_migration_lease
ReleaseClaim(p) ==
    /\ worker[p].pc = "release"
    /\ lease' = IF lease[worker[p].cur].owner = p
                THEN [lease EXCEPT ![worker[p].cur] = Free] ELSE lease
    /\ worker' = [worker EXCEPT ![p].pc = "recount", ![p].cur = 0]
    /\ UNCHANGED <<work, incidents>>

\* Mutant of StartRun: the lease is renewed whoever owns it.
StartRunUnowned(p) ==
    /\ worker[p].pc = "start"
    /\ lease' = [lease EXCEPT ![worker[p].cur] = [owner |-> p, live |-> TRUE]]
    /\ worker' = [worker EXCEPT ![p].pc = "running"]
    /\ UNCHANGED <<work, incidents>>

\* run_migration, _prepare_migration_run: the owner renews its lease, even
\* one that ran out, and the heartbeat keeps it from then on.
StartRun(p) ==
    /\ worker[p].pc = "start"
    /\ IF lease[worker[p].cur].owner = p /\ work[worker[p].cur] = "runnable"
       THEN /\ lease' = [lease EXCEPT ![worker[p].cur].live = TRUE]
            /\ worker' = [worker EXCEPT ![p].pc = "running"]
       ELSE /\ worker' = [worker EXCEPT ![p] = PollingWorker]
            /\ UNCHANGED lease
    /\ UNCHANGED <<work, incidents>>

\* The run ends and clears the lease it owns.
FinishRun(p) ==
    /\ worker[p].pc = "running"
    /\ work' = [work EXCEPT ![worker[p].cur] = "done"]
    /\ lease' = [lease EXCEPT ![worker[p].cur] = Free]
    /\ worker' = [worker EXCEPT ![p] = PollingWorker]
    /\ UNCHANGED incidents

Incident == incidents < MaxIncidents /\ incidents' = incidents + 1

\* A restarted process has a new worker id.
CrashWorker(p) ==
    /\ Incident
    /\ worker' = [worker EXCEPT ![p] = PollingWorker]
    /\ lease' = [m \in Migrations |->
                   IF lease[m].owner = p THEN [lease[m] EXCEPT !.owner = Gone]
                   ELSE lease[m]]
    /\ UNCHANGED work

\* worker_lease_until goes by: for a dead process, or for one that stalls
\* before its heartbeat has begun.
AbandonedLeaseExpires(m) ==
    /\ lease[m].live /\ lease[m].owner = Gone
    /\ lease' = [lease EXCEPT ![m].live = FALSE]
    /\ UNCHANGED <<work, worker, incidents>>

StalledLeaseExpires(m) ==
    /\ lease[m].live /\ lease[m].owner \in Process
    /\ worker[lease[m].owner].pc # "running"
    /\ Incident
    /\ lease' = [lease EXCEPT ![m].live = FALSE]
    /\ UNCHANGED <<work, worker>>

WorkerStep(p) ==
    \/ CountUsage(p) \/ ListCandidates(p) \/ TryCandidate(p) \/ NothingToClaim(p)
    \/ Recheck(p) \/ ReleaseClaim(p) \/ StartRun(p) \/ FinishRun(p)

SchedulingNext ==
    \/ \E p \in Process : WorkerStep(p) \/ CrashWorker(p)
    \/ \E m \in Migrations :
         Submit(m) \/ AbandonedLeaseExpires(m) \/ StalledLeaseExpires(m)

SchedulingSpec == SchedulingInit /\ [][SchedulingNext]_schedulingVars

\* The worker threads poll for ever, and time goes by.
SchedulingFairness ==
    /\ \A p \in Process : WF_schedulingVars(WorkerStep(p))
    /\ \A m \in Migrations : WF_schedulingVars(AbandonedLeaseExpires(m))

FairSchedulingSpec == SchedulingSpec /\ SchedulingFairness

RunnersOf(m) == {p \in Process : worker[p].pc = "running" /\ worker[p].cur = m}

\* A migration is run by one worker at a time, although claims may run out
\* between the UPDATE, the rank and the start of the run.
OneRunner == \A m \in Migrations : Cardinality(RunnersOf(m)) <= 1

\* Workers that give claims back never do so for ever: every migration that
\* becomes runnable is run to its end.
EveryMigrationRuns ==
    \A m \in Migrations : work[m] = "runnable" ~> work[m] = "done"

\* config.py on BUCKET_MIGRATION_MAX_ACTIVE_PER_ENDPOINT: "Maximum number of
\* concurrently claimed bucket migrations that can use the same source or
\* target endpoint".  Here only the migrations that are running are counted.
EndpointLimitRespected ==
    \A e \in UNION {Endpoints[m] : m \in Migrations} :
      Cardinality({m \in Migrations : RunnersOf(m) # {} /\ e \in Endpoints[m]}) <= Limit
=============================================================================
