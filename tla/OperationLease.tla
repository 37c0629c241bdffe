--------------------------- MODULE OperationLease ---------------------------
(***************************************************************************)
(* operation_lease_service.py: the lease that keeps one periodic operation *)
(* (health checks, cost and usage collection, webhook delivery, endpoint   *)
(* synchronisation) to one backend process at a time.  acquire reads the   *)
(* clock, then tries a conditional UPDATE, then an INSERT that the primary *)
(* key may refuse; every statement is a step, and the clock may advance    *)
(* between any two of them.                                                *)
(***************************************************************************)
EXTENDS Integers

CONSTANTS
    Process,      \* backend processes
    TTL,          \* max(15, ttl_seconds), in ticks
    MaxTime,      \* bound: ticks of the clock
    MaxOwners     \* bound: owner names generated

ASSUME TTLAssumption == TTL \in Nat \ {0}
ASSUME LeaseBoundsAssumption == MaxTime \in Nat /\ MaxOwners \in Nat

VARIABLES
    now,          \* utcnow()
    row,          \* the BackendOperationLease row: owner 0 means no row
    proc,         \* what each process is doing
    owners        \* owner names generated so far

leaseVars == <<now, row, proc, owners>>

NoOwner == 0
Owners == 1..MaxOwners

\* at is the clock as read by acquire; until is the handle's lease_until,
\* 0 while the process has no handle.
ProcessStates ==
    [pc : {"idle", "update", "insert", "working"},
     owner : Owners \cup {NoOwner}, at : Nat, until : Nat]

IdleProcess == [pc |-> "idle", owner |-> NoOwner, at |-> 0, until |-> 0]

LeaseTypeOK ==
    /\ now \in Nat
    /\ row \in [owner : Owners \cup {NoOwner}, until : Nat]
    /\ proc \in [Process -> ProcessStates]
    /\ owners \in 0..MaxOwners

LeaseInit ==
    /\ now = 0
    /\ row = [owner |-> NoOwner, until |-> 0]
    /\ proc = [p \in Process |-> IdleProcess]
    /\ owners = 0

Tick ==
    /\ now < MaxTime
    /\ now' = now + 1
    /\ UNCHANGED <<row, proc, owners>>

\* acquire with a generated owner
Acquire(p) ==
    /\ proc[p].pc = "idle"
    /\ owners < MaxOwners
    /\ owners' = owners + 1
    /\ proc' = [proc EXCEPT ![p] = [pc |-> "update", owner |-> owners + 1,
                                    at |-> now, until |-> 0]]
    /\ UNCHANGED <<now, row>>

\* acquire by the holder, with the owner it has: a renewal
\* (webhook_worker.py, storage_endpoint_env_sync.py)
Renew(p) ==
    /\ proc[p].pc = "working"
    /\ proc' = [proc EXCEPT ![p] = [pc |-> "update", owner |-> @.owner,
                                    at |-> now, until |-> @.until]]
    /\ UNCHANGED <<now, row, owners>>

\* Mutant of Available: the previous owner's time is compared with the end of
\* the new lease.
AvailableEarly(p) ==
    /\ row.owner # NoOwner
    /\ row.until <= proc[p].at + TTL \/ row.owner = proc[p].owner

\* The WHERE clause of the UPDATE
Available(p) ==
    /\ row.owner # NoOwner
    /\ row.until <= proc[p].at \/ row.owner = proc[p].owner

Granted(p) ==
    /\ row' = [owner |-> proc[p].owner, until |-> proc[p].at + TTL]
    /\ proc' = [proc EXCEPT ![p] = [pc |-> "working", owner |-> @.owner,
                                    at |-> @.at, until |-> @.at + TTL]]
    /\ UNCHANGED <<now, owners>>

TryUpdate(p) ==
    /\ proc[p].pc = "update"
    /\ \/ Available(p) /\ Granted(p)
       \/ /\ ~Available(p)
          /\ proc' = [proc EXCEPT ![p] = [@ EXCEPT !.pc = "insert"]]
          /\ UNCHANGED <<now, row, owners>>

\* IntegrityError: somebody holds it, and the caller gets no handle.
TryInsert(p) ==
    /\ proc[p].pc = "insert"
    /\ \/ row.owner = NoOwner /\ Granted(p)
       \/ /\ row.owner # NoOwner
          /\ proc' = [proc EXCEPT ![p] = IdleProcess]
          /\ UNCHANGED <<now, row, owners>>

\* Mutant of ReleaseLease: the owner is not part of the WHERE clause.
ReleaseLeaseOfAnyone(p) ==
    /\ proc[p].pc = "working"
    /\ row' = [row EXCEPT !.until = now]
    /\ proc' = [proc EXCEPT ![p] = IdleProcess]
    /\ UNCHANGED <<now, owners>>

\* Mutant of ReleaseLease: the lease is backdated by a whole period.
ReleaseLeaseBackdated(p) ==
    /\ proc[p].pc = "working"
    /\ row' = IF row.owner = proc[p].owner THEN [row EXCEPT !.until = now - TTL] ELSE row
    /\ proc' = [proc EXCEPT ![p] = IdleProcess]
    /\ UNCHANGED <<now, owners>>

\* release, after the work or after its failure
ReleaseLease(p) ==
    /\ proc[p].pc = "working"
    /\ row' = IF row.owner = proc[p].owner THEN [row EXCEPT !.until = now] ELSE row
    /\ proc' = [proc EXCEPT ![p] = IdleProcess]
    /\ UNCHANGED <<now, owners>>

\* The process dies, or its release fails: the row stays as it is.
Abandon(p) ==
    /\ proc[p].pc # "idle"
    /\ proc' = [proc EXCEPT ![p] = IdleProcess]
    /\ UNCHANGED <<now, row, owners>>

LeaseNext ==
    \/ Tick
    \/ \E p \in Process :
         \/ Acquire(p) \/ Renew(p) \/ TryUpdate(p) \/ TryInsert(p)
         \/ ReleaseLease(p) \/ Abandon(p)

LeaseSpec == LeaseInit /\ [][LeaseNext]_leaseVars

\* Somebody works under a lease that has not run out.
Holds(p) == proc[p].until > now

\* Two processes never hold an unexpired handle at the same time, whatever
\* happens between the clock being read, the UPDATE and the INSERT, and
\* whatever expired holders do afterwards.
OneHolder == \A p, q \in Process : Holds(p) /\ Holds(q) => p = q

\* An unexpired lease is taken from its holder, or shortened, by nobody else:
\* only its own process gives it back or renews it.
LeaseKept ==
    [][\A p \in Process :
         Holds(p) /\ proc'[p].until = proc[p].until =>
           row'.owner = proc[p].owner /\ row'.until >= proc[p].until]_leaseVars
=============================================================================
