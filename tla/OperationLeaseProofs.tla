------------------------ MODULE OperationLeaseProofs ------------------------
(***************************************************************************)
(* For every number of processes, every lease duration and every bound:    *)
(* at most one process holds an unexpired operation lease.                 *)
(***************************************************************************)
EXTENDS OperationLease, TLAPS

\* An owner name belongs to one process, and was generated.
OwnersUnique ==
    /\ row.owner <= owners
    /\ \A p \in Process : proc[p].owner <= owners
    /\ \A p, q \in Process :
         proc[p].owner = proc[q].owner /\ proc[p].owner # NoOwner => p = q

\* What a process remembers is in the past; only a process that is trying or
\* working has an owner name, and only such a process has a handle.
ProcessFacts ==
    \A p \in Process :
      /\ proc[p].at <= now
      /\ proc[p].pc # "idle" => proc[p].owner # NoOwner
      /\ proc[p].pc = "idle" => proc[p].until = 0

\* The row is the witness of an unexpired handle.
RowBacksHandle ==
    \A p \in Process :
      Holds(p) => row.owner = proc[p].owner /\ row.until >= proc[p].until

LeaseInv == LeaseTypeOK /\ OwnersUnique /\ ProcessFacts /\ RowBacksHandle

USE TTLAssumption, LeaseBoundsAssumption

\* The state before any acquire satisfies the inductive invariant.
LEMMA LeaseInitInv == LeaseInit => LeaseInv
  BY DEF LeaseInit, LeaseInv, LeaseTypeOK, OwnersUnique, ProcessFacts,
         RowBacksHandle, Holds, IdleProcess, ProcessStates, NoOwner, Owners

\* Every statement of acquire and release, in any interleaving with the
\* clock and with other processes, keeps the inductive invariant.
LEMMA LeaseNextInv == LeaseInv /\ [LeaseNext]_leaseVars => LeaseInv'
<1> SUFFICES ASSUME LeaseInv, [LeaseNext]_leaseVars
             PROVE  LeaseInv'
  OBVIOUS
<1> USE DEF LeaseInv, LeaseTypeOK, OwnersUnique, ProcessFacts, RowBacksHandle,
            Holds, ProcessStates, NoOwner, Owners
<1>1. CASE Tick
  BY <1>1 DEF Tick
<1>2. ASSUME NEW p \in Process, Acquire(p) PROVE LeaseInv'
  BY <1>2 DEF Acquire
<1>3. ASSUME NEW p \in Process, Renew(p) PROVE LeaseInv'
  <2>1. /\ proc'[p].pc = "update" /\ proc'[p].at = now
        /\ proc'[p].owner = proc[p].owner /\ proc'[p].until = proc[p].until
        /\ proc'[p] \in ProcessStates
        /\ \A q \in Process \ {p} : proc'[q] = proc[q]
    BY <1>3 DEF Renew
  <2>2. LeaseTypeOK'
    BY <1>3 DEF Renew
  <2>3. QED
    BY <1>3, <2>1, <2>2 DEF Renew
<1>4. ASSUME NEW p \in Process, Available(p), Granted(p), proc[p].pc = "update"
      PROVE  LeaseInv'
  <2>1. /\ proc'[p].pc = "working" /\ proc'[p].until = proc[p].at + TTL
        /\ proc'[p].owner = proc[p].owner /\ proc'[p].at = proc[p].at
        /\ proc'[p] \in ProcessStates
        /\ \A q \in Process \ {p} : proc'[q] = proc[q]
        /\ row'.owner = proc[p].owner /\ row'.until = proc[p].at + TTL
        /\ UNCHANGED <<now, owners>>
    BY <1>4 DEF Granted
  <2>2. LeaseTypeOK'
    BY <1>4 DEF Granted
  <2>3. (OwnersUnique /\ ProcessFacts)'
    BY <1>4, <2>1, <2>2
  <2>4. RowBacksHandle'
    BY <1>4, <2>1, <2>2 DEF Available
  <2>5. QED
    BY <2>2, <2>3, <2>4
<1>5. ASSUME NEW p \in Process, TryUpdate(p) PROVE LeaseInv'
  BY <1>4, <1>5 DEF TryUpdate
<1>6. ASSUME NEW p \in Process, TryInsert(p) PROVE LeaseInv'
  BY <1>6 DEF TryInsert, Granted, IdleProcess
<1>7. ASSUME NEW p \in Process, ReleaseLease(p) PROVE LeaseInv'
  BY <1>7 DEF ReleaseLease, IdleProcess
<1>8. ASSUME NEW p \in Process, Abandon(p) PROVE LeaseInv'
  BY <1>8 DEF Abandon, IdleProcess
<1>9. CASE UNCHANGED leaseVars
  BY <1>9 DEF leaseVars
<1>10. QED
  BY <1>1, <1>2, <1>3, <1>5, <1>6, <1>7, <1>8, <1>9 DEF LeaseNext

\* LeaseInv is an invariant of the lease protocol.
THEOREM LeaseInvariant == LeaseSpec => []LeaseInv
  BY LeaseInitInv, LeaseNextInv, PTL DEF LeaseSpec

\* Rows, handles and owner names keep their types.
THEOREM LeaseTypeCorrect == LeaseSpec => []LeaseTypeOK
<1>1. LeaseInv => LeaseTypeOK
  BY DEF LeaseInv
<1>2. QED
  BY <1>1, LeaseInvariant, PTL

\* Two processes never work under an unexpired lease at the same time.
THEOREM MutualExclusion == LeaseSpec => []OneHolder
<1>1. LeaseInv => OneHolder
  BY DEF LeaseInv, OneHolder, RowBacksHandle, OwnersUnique, ProcessFacts,
         LeaseTypeOK, ProcessStates, Holds, NoOwner, Owners
<1>2. QED
  BY <1>1, LeaseInvariant, PTL

\* No step of another process, and no late step of an expired holder, takes
\* an unexpired lease away or shortens it.
THEOREM LeaseIsKept == LeaseSpec => LeaseKept
<1>1. LeaseInv /\ [LeaseNext]_leaseVars =>
        [\A p \in Process :
           Holds(p) /\ proc'[p].until = proc[p].until =>
             row'.owner = proc[p].owner /\ row'.until >= proc[p].until]_leaseVars
  <2> SUFFICES ASSUME LeaseInv, LeaseNext, NEW p \in Process, Holds(p),
                      proc'[p].until = proc[p].until
               PROVE  row'.owner = proc[p].owner /\ row'.until >= proc[p].until
    OBVIOUS
  <2> USE DEF LeaseInv, LeaseTypeOK, OwnersUnique, ProcessFacts, RowBacksHandle,
              Holds, ProcessStates, NoOwner, Owners
  <2>1. CASE Tick
    BY <2>1 DEF Tick
  <2>2. ASSUME NEW q \in Process, Acquire(q) \/ Renew(q) \/ Abandon(q)
        PROVE  row'.owner = proc[p].owner /\ row'.until >= proc[p].until
    BY <2>2 DEF Acquire, Renew, Abandon
  <2>3. ASSUME NEW q \in Process, TryUpdate(q)
        PROVE  row'.owner = proc[p].owner /\ row'.until >= proc[p].until
    BY <2>3 DEF TryUpdate, Granted, Available
  <2>4. ASSUME NEW q \in Process, TryInsert(q)
        PROVE  row'.owner = proc[p].owner /\ row'.until >= proc[p].until
    BY <2>4 DEF TryInsert, Granted
  <2>5. ASSUME NEW q \in Process, ReleaseLease(q)
        PROVE  row'.owner = proc[p].owner /\ row'.until >= proc[p].until
    BY <2>5 DEF ReleaseLease, IdleProcess
  <2>6. QED
    BY <2>1, <2>2, <2>3, <2>4, <2>5 DEF LeaseNext
<1>2. QED
  BY <1>1, LeaseInvariant, PTL DEF LeaseSpec, LeaseKept
=============================================================================
