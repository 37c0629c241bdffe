------------------------- MODULE AuthRefreshProofs --------------------------
(***************************************************************************)
(* Theorems on AuthRefresh, for every number of tabs and of requests, with *)
(* Web Locks and with the lease: the state is well typed, a token family   *)
(* has one usable token at most, the browser does not revoke its own       *)
(* session, and it sends nobody to the session-expired page by mistake.    *)
(***************************************************************************)
EXTENDS AuthRefresh, TLAPS

\* The places a request can be at
LEMMA PCs ==
    \A c \in {"idle", "again", "lockWait", "leaseLoop", "leaseRead", "leaseWritten",
              "refreshing", "sent", "accepted", "rejected", "done", "failed", "ended", "gone"} :
        c \in RequestPCs
  BY DEF RequestPCs, InFlight, Settled

\* GoTo keeps the requests well typed.
LEMMA Moved ==
    ASSUME NEW f \in [Requests -> RequestStates], NEW r \in Requests, NEW c \in RequestPCs
    PROVE  [f EXCEPT ![r].pc = c] \in [Requests -> RequestStates]
  BY DEF RequestStates

\* So does the closing of a tab.
LEMMA Gone == ASSUME NEW x \in RequestStates PROVE [x EXCEPT !.pc = "gone"] \in RequestStates
  BY PCs DEF RequestStates

\* A call that moves on stays well typed.
LEMMA Called ==
    ASSUME NEW f \in [Requests -> CallStates], NEW r \in Requests,
           NEW a \in {"none", "sent", "checked", "granted", "delivered", "denied"}
    PROVE  [f EXCEPT ![r].at = a] \in [Requests -> CallStates]
  BY DEF CallStates

\* Leaving the exclusive section keeps lock and lease well typed.
LEMMA TurnLeft ==
    ASSUME lock \in Requests \cup {Nobody},
           lease \in LeaseStates,
           LeaveTurn
    PROVE  /\ lock' \in Requests \cup {Nobody}
           /\ lease' \in LeaseStates
  BY DEF LeaveTurn, DropLease, LeaseStates

\* Type correctness of the browser's and the server's state, through every
\* step of the client, the coordinator and the session service
THEOREM AuthTypes == AuthSpec => []AuthTypeOK
<1> USE RefreshAssumption
<1>1. AuthInit => AuthTypeOK
  <2> SUFFICES ASSUME AuthInit PROVE AuthTypeOK
    OBVIOUS
  <2>1. req \in [Requests -> RequestStates] /\ call \in [Requests -> CallStates]
    BY PCs DEF AuthInit, RequestStates, CallStates, None
  <2>2. token \in [Generations -> {"live", "used", "revoked"}]
    BY DEF AuthInit, Generations
  <2>3. lease \in LeaseStates
    BY DEF AuthInit, LeaseStates
  <2>4. /\ webLocks \in BOOLEAN /\ abandoned \in BOOLEAN /\ overrun \in BOOLEAN
        /\ lock \in Requests \cup {Nobody} /\ open \subseteq Tabs
    BY DEF AuthInit
  <2>6. marker \in Nat /\ jar \in Nat /\ expired \in Nat /\ issued \in Nat \ {0}
    BY DEF AuthInit, None
  <2>5. /\ logout \in [at : {"none", "sent", "accepted", "done", "refused"}, gen : Nat]
        /\ session \in [state : {"active", "lapsed", "revoked"},
                        why : {"none", "replay", "expired", "logout", "admin"}]
    BY DEF AuthInit, None
  <2> QED
    BY <2>1, <2>2, <2>3, <2>4, <2>5, <2>6 DEF AuthTypeOK
<1>2. AuthTypeOK /\ [AuthNext]_authVars => AuthTypeOK'
  <2> SUFFICES ASSUME AuthTypeOK, [AuthNext]_authVars PROVE AuthTypeOK'
    OBVIOUS
  <2> USE DEF AuthTypeOK, Generations, None, browserVars, serverVars, historyVars, authVars
  <2>1. ASSUME NEW r \in Requests, Send(r) PROVE AuthTypeOK'
    <3>1. req' \in [Requests -> RequestStates]
      BY <2>1, PCs DEF Send, RequestStates
    <3> QED
      BY <2>1, <3>1 DEF Send
  <2>2. ASSUME NEW r \in Requests, Serve(r) PROVE AuthTypeOK'
    <3>1. req' \in [Requests -> RequestStates]
      <4>1. \E c \in {"accepted", "rejected"} : req' = [req EXCEPT ![r].pc = c]
        BY <2>2 DEF Serve, GoTo
      <4> QED
        BY <4>1, PCs, Moved
    <3>2. UNCHANGED <<session, token>> \/ Revoke("expired")
      BY <2>2 DEF Serve
    <3> QED
      BY <2>2, <3>1, <3>2 DEF Serve, Revoke
  <2>3. ASSUME NEW r \in Requests, Accepted(r) PROVE AuthTypeOK'
    BY <2>3, PCs, Moved DEF Accepted, GoTo
  <2>4. ASSUME NEW r \in Requests, FetchFails(r) PROVE AuthTypeOK'
    BY <2>4, PCs, Moved DEF FetchFails, GoTo
  <2>5. ASSUME NEW r \in Requests, Refused(r) PROVE AuthTypeOK'
    <3>1. req' \in [Requests -> RequestStates]
      BY <2>5, PCs DEF Refused, RequestStates
    <3> QED
      BY <2>5, <3>1 DEF Refused
  <2>6. ASSUME NEW r \in Requests, RefusedAgain(r) PROVE AuthTypeOK'
    BY <2>6, PCs, Moved DEF RefusedAgain, GoTo
  <2>7. ASSUME NEW r \in Requests, TakeLock(r) PROVE AuthTypeOK'
    <3>1. req' \in [Requests -> RequestStates]
      BY <2>7, PCs, Moved DEF TakeLock, GoTo, StartRefresh
    <3>2. call' \in [Requests -> CallStates]
      BY <2>7 DEF TakeLock, StartRefresh, CallStates
    <3> QED
      BY <2>7, <3>1, <3>2 DEF TakeLock
  <2>8. ASSUME NEW r \in Requests, ReadLease(r) PROVE AuthTypeOK'
    <3>1. req' \in [Requests -> RequestStates]
      BY <2>8, PCs, Moved DEF ReadLease, GoTo
    <3> QED
      BY <2>8, <3>1 DEF ReadLease
  <2>9. ASSUME NEW r \in Requests, WriteLease(r) PROVE AuthTypeOK'
    BY <2>9, PCs, Moved DEF WriteLease, GoTo, LeaseStates
  <2>10. ASSUME NEW r \in Requests, ConfirmLease(r) PROVE AuthTypeOK'
    <3>1. req' \in [Requests -> RequestStates]
      <4>1. \E c \in {"leaseLoop", "again", "refreshing"} : req' = [req EXCEPT ![r].pc = c]
        BY <2>10 DEF ConfirmLease, GoTo, StartRefresh
      <4> QED
        BY <4>1, PCs, Moved
    <3>2. call' \in [Requests -> CallStates]
      BY <2>10 DEF ConfirmLease, StartRefresh, CallStates
    <3>3. lease' \in LeaseStates
      BY <2>10 DEF ConfirmLease, DropLease, LeaseStates
    <3> QED
      BY <2>10, <3>1, <3>2, <3>3 DEF ConfirmLease
  <2>11. ASSUME NEW r \in Requests, CookiesArrive(r) PROVE AuthTypeOK'
    <3>1. call' \in [Requests -> CallStates]
      BY <2>11, Called DEF CookiesArrive
    <3>2. jar' \in Nat
      BY <2>11 DEF CookiesArrive, CallStates
    <3> QED
      BY <2>11, <3>1, <3>2 DEF CookiesArrive
  <2>12. ASSUME NEW r \in Requests, RefreshDone(r) PROVE AuthTypeOK'
    <3>1. req' \in [Requests -> RequestStates]
      BY <2>12, PCs, Moved DEF RefreshDone, GoTo
    <3>2. LeaveTurn
      BY <2>12 DEF RefreshDone
    <3> QED
      BY <2>12, <3>1, <3>2, TurnLeft DEF RefreshDone
  <2>13. ASSUME NEW r \in Requests, RefreshDenied(r) PROVE AuthTypeOK'
    <3>1. req' \in [Requests -> RequestStates]
      BY <2>13, PCs, Moved DEF RefreshDenied, GoTo
    <3>2. LeaveTurn
      BY <2>13 DEF RefreshDenied
    <3> QED
      BY <2>13, <3>1, <3>2, TurnLeft DEF RefreshDenied
  <2>14. ASSUME NEW r \in Requests, RefreshLost(r) PROVE AuthTypeOK'
    <3>1. req' \in [Requests -> RequestStates]
      BY <2>14, PCs, Moved DEF RefreshLost, GoTo
    <3>2. LeaveTurn
      BY <2>14 DEF RefreshLost
    <3> QED
      BY <2>14, <3>1, <3>2, TurnLeft DEF RefreshLost
  <2>15. ASSUME NEW r \in Requests, RefreshCheck(r) PROVE AuthTypeOK'
    <3>1. call' \in [Requests -> CallStates]
      <4>1. \/ call' = [call EXCEPT ![r].at = "denied"]
            \/ call' = [call EXCEPT ![r].at = "checked"]
        BY <2>15 DEF RefreshCheck
      <4>2. CASE call' = [call EXCEPT ![r].at = "denied"]
        BY <4>2, Called
      <4>3. CASE call' = [call EXCEPT ![r].at = "checked"]
        BY <4>3, Called
      <4> QED
        BY <4>1, <4>2, <4>3
    <3>2. UNCHANGED <<session, token>> \/ \E why \in {"replay", "expired"} : Revoke(why)
      BY <2>15 DEF RefreshCheck
    <3> QED
      BY <2>15, <3>1, <3>2 DEF RefreshCheck, Revoke
  <2>16. ASSUME NEW r \in Requests, RefreshClaim(r) PROVE AuthTypeOK'
    <3>1. CASE token[call[r].gen] = "live"
      <4>1. call' \in [Requests -> CallStates]
        <5>1. call' = [call EXCEPT ![r] = [at |-> "granted", gen |-> issued + 1]]
          BY <2>16, <3>1 DEF RefreshClaim
        <5> QED
          BY <5>1 DEF CallStates
      <4>2. issued' = issued + 1 /\ token' \in [1..(issued + 1) -> {"live", "used", "revoked"}]
        BY <2>16, <3>1 DEF RefreshClaim, Rotate
      <4> QED
        BY <2>16, <3>1, <4>1, <4>2 DEF RefreshClaim
    <3>2. CASE token[call[r].gen] # "live"
      <4>1. call' \in [Requests -> CallStates]
        <5>1. call' = [call EXCEPT ![r].at = "denied"]
          BY <2>16, <3>2 DEF RefreshClaim
        <5> QED
          BY <5>1, Called
      <4> QED
        BY <2>16, <3>2, <4>1 DEF RefreshClaim, Revoke
    <3> QED
      BY <3>1, <3>2
  <2>17. ASSUME NEW t \in Tabs, CloseTab(t) PROVE AuthTypeOK'
    <3>1. req' \in [Requests -> RequestStates]
      <4>1. \A r \in Requests : [req[r] EXCEPT !.pc = "gone"] \in RequestStates
        BY Gone
      <4> QED
        BY <2>17, <4>1 DEF CloseTab
    <3>2. lock' \in Requests \cup {Nobody} /\ abandoned' \in BOOLEAN
      BY <2>17 DEF CloseTab
    <3> QED
      BY <2>17, <3>1, <3>2 DEF CloseTab
  <2>18. ASSUME NEW t \in Tabs, Logout(t) PROVE AuthTypeOK'
    BY <2>18, PCs DEF Logout, RequestStates
  <2>19. CASE LeaseLapses
    BY <2>19 DEF LeaseLapses, LeaseStates
  <2>20. CASE AccessExpires
    BY <2>20 DEF AccessExpires
  <2>21. CASE SessionLapses
    BY <2>21 DEF SessionLapses
  <2>22. CASE RevokedElsewhere
    BY <2>22 DEF RevokedElsewhere, Revoke
  <2>23. CASE ServeLogout
    BY <2>23 DEF ServeLogout, Revoke
  <2>24. CASE LogoutAnswered
    BY <2>24 DEF LogoutAnswered
  <2>25. CASE UNCHANGED authVars
    BY <2>25
  <2> QED
    BY <2>1, <2>2, <2>3, <2>4, <2>5, <2>6, <2>7, <2>8, <2>9, <2>10, <2>11, <2>12, <2>13, <2>14,
       <2>15, <2>16, <2>17, <2>18, <2>19, <2>20, <2>21, <2>22, <2>23, <2>24, <2>25 DEF AuthNext
<1> QED
  BY <1>1, <1>2, PTL DEF AuthSpec

-----------------------------------------------------------------------------
(***************************************************************************)
(* Why the browser does not replay its own token.  While no refresh has    *)
(* lost its client and no lease its worker (Quiet), whoever refreshes has  *)
(* the turn, every call the server may still act on is awaited by such a   *)
(* request, and so there is one of them at most; it carries the newest     *)
(* token, which is usable until the session is revoked, and when none is   *)
(* on its way the jar has the newest token.                                *)
(***************************************************************************)
Outstanding == {"sent", "checked", "granted"}
Quiet == ~abandoned /\ ~overrun

\* A request waits for the lock or for the lease, as the browser offers.
Mode == \A r \in Requests :
    /\ req[r].pc = "lockWait" => webLocks
    /\ req[r].pc \in {"leaseLoop", "leaseRead", "leaseWritten"} => ~webLocks

\* One refresh at a time: who refreshes holds the lock, or a running lease
\* that nobody is about to overwrite.
OwnTurn == Quiet => \A r \in Requests : req[r].pc = "refreshing" =>
    \/ webLocks /\ lock = r
    \/ /\ ~webLocks /\ lease.owner = r /\ lease.clock = "running"
       /\ \A q \in Requests : req[q].pc # "leaseRead"

\* A lease that was just written has not lapsed.
Written == Quiet => \A r \in Requests :
    req[r].pc = "leaseWritten" /\ lease.owner = r => lease.clock = "running"

\* A call the server may still answer is awaited.
Awaited == Quiet => \A r \in Requests :
    call[r].at \in Outstanding => req[r].pc = "refreshing"

\* Calls carry, and without one the jar has, the newest token.
Fresh == Quiet /\ session.state # "revoked" =>
    /\ \A r \in Requests : call[r].at \in Outstanding => call[r].gen = issued
    /\ (\A r \in Requests : call[r].at # "granted") => jar = issued

\* The newest token is usable until the revocation.
Newest == session.state # "revoked" => token[issued] = "live"
\* The cookies are cleared only after a revocation.
LoggedOut == logout.at \in {"accepted", "done"} => session.state = "revoked"

\* The inductive invariant
ReplayInv == Mode /\ OwnTurn /\ Written /\ Awaited /\ Fresh /\ Newest /\ LoggedOut /\ NoSelfReplay

\* GoTo moves one request.
LEMMA MovedPC ==
    ASSUME NEW f \in [Requests -> RequestStates], NEW r \in Requests, NEW c \in RequestPCs
    PROVE  \A q \in Requests : [f EXCEPT ![r].pc = c][q].pc = IF q = r THEN c ELSE f[q].pc
  BY DEF RequestStates

\* A call that moves on keeps its token; the other calls stay.
LEMMA CalledAt ==
    ASSUME NEW f \in [Requests -> CallStates], NEW r \in Requests, NEW a
    PROVE  \A q \in Requests :
             /\ [f EXCEPT ![r].at = a][q].at = IF q = r THEN a ELSE f[q].at
             /\ [f EXCEPT ![r].at = a][q].gen = f[q].gen
  BY DEF CallStates

\* Every step keeps the inductive invariant.
LEMMA ReplayStep == AuthTypeOK /\ ReplayInv /\ [AuthNext]_authVars => ReplayInv'
<1> SUFFICES ASSUME AuthTypeOK, ReplayInv, [AuthNext]_authVars PROVE ReplayInv'
  OBVIOUS
<1> USE DEF AuthTypeOK
<1>1. ASSUME NEW r \in Requests, Send(r) PROVE ReplayInv'
  <2>1. \A q \in Requests : req'[q].pc = IF q = r THEN "sent" ELSE req[q].pc
    BY <1>1 DEF Send
  <2> QED
    BY <1>1, <2>1 DEF Send, ReplayInv, Mode, OwnTurn, Written, Awaited, Fresh, Newest,
       LoggedOut, NoSelfReplay, Quiet, Outstanding, browserVars, serverVars, historyVars
<1>2. ASSUME NEW r \in Requests, Serve(r) PROVE ReplayInv'
  <2>1. \E c \in {"accepted", "rejected"} : \A q \in Requests : req'[q].pc = IF q = r THEN c ELSE req[q].pc
    <3>1. CASE GoTo(r, "accepted")
      BY <3>1, PCs, MovedPC DEF GoTo
    <3>2. CASE GoTo(r, "rejected")
      BY <3>2, PCs, MovedPC DEF GoTo
    <3> QED
      BY <1>2, <3>1, <3>2 DEF Serve
  <2>2. \/ UNCHANGED <<session, token>>
        \/ session'.state = "revoked" /\ (session'.why # session.why => session'.why = "expired")
    BY <1>2 DEF Serve, Revoke
  <2> QED
    BY <1>2, <2>1, <2>2 DEF Serve, ReplayInv, Mode, OwnTurn, Written, Awaited, Fresh, Newest,
       LoggedOut, NoSelfReplay, Quiet, Outstanding, browserVars, serverVars, historyVars
<1>3. ASSUME NEW r \in Requests, Accepted(r) PROVE ReplayInv'
  <2>1. \A q \in Requests : req'[q].pc = IF q = r THEN "done" ELSE req[q].pc
    BY <1>3, PCs, MovedPC DEF Accepted, GoTo
  <2> QED
    BY <1>3, <2>1 DEF Accepted, ReplayInv, Mode, OwnTurn, Written, Awaited, Fresh, Newest,
       LoggedOut, NoSelfReplay, Quiet, Outstanding, browserVars, serverVars, historyVars
<1>4. ASSUME NEW r \in Requests, FetchFails(r) PROVE ReplayInv'
  <2>1. \A q \in Requests : req'[q].pc = IF q = r THEN "failed" ELSE req[q].pc
    BY <1>4, PCs, MovedPC DEF FetchFails, GoTo
  <2> QED
    BY <1>4, <2>1 DEF FetchFails, InFlight, ReplayInv, Mode, OwnTurn, Written, Awaited, Fresh,
       Newest, LoggedOut, NoSelfReplay, Quiet, Outstanding, browserVars, serverVars, historyVars
<1>5. ASSUME NEW r \in Requests, Refused(r) PROVE ReplayInv'
  <2>1. \A q \in Requests : req'[q].pc = IF q = r THEN (IF webLocks THEN "lockWait" ELSE "leaseLoop") ELSE req[q].pc
    BY <1>5 DEF Refused
  <2> QED
    BY <1>5, <2>1 DEF Refused, ReplayInv, Mode, OwnTurn, Written, Awaited, Fresh, Newest,
       LoggedOut, NoSelfReplay, Quiet, Outstanding, browserVars, serverVars, historyVars
<1>6. ASSUME NEW r \in Requests, RefusedAgain(r) PROVE ReplayInv'
  <2>1. \A q \in Requests : req'[q].pc = IF q = r THEN "ended" ELSE req[q].pc
    BY <1>6, PCs, MovedPC DEF RefusedAgain, GoTo
  <2> QED
    BY <1>6, <2>1 DEF RefusedAgain, ReplayInv, Mode, OwnTurn, Written, Awaited, Fresh, Newest,
       LoggedOut, NoSelfReplay, Quiet, Outstanding, browserVars, serverVars, historyVars
<1>7. ASSUME NEW r \in Requests, TakeLock(r) PROVE ReplayInv'
  <2>1. CASE Renewed(r)
    <3>1. \A q \in Requests : req'[q].pc = IF q = r THEN "again" ELSE req[q].pc
      <4>1. req' = [req EXCEPT ![r].pc = "again"]
        BY <1>7, <2>1 DEF TakeLock, GoTo
      <4> QED
        BY <4>1, PCs, MovedPC
    <3> QED
      BY <1>7, <2>1, <3>1 DEF TakeLock, ReplayInv, Mode, OwnTurn, Written, Awaited, Fresh,
         Newest, LoggedOut, NoSelfReplay, Quiet, Outstanding, browserVars, serverVars,
         historyVars
  <2>2. CASE ~Renewed(r)
    <3>1. \A q \in Requests : req'[q].pc = IF q = r THEN "refreshing" ELSE req[q].pc
      <4>1. req' = [req EXCEPT ![r].pc = "refreshing"]
        BY <1>7, <2>2 DEF TakeLock, StartRefresh, GoTo
      <4> QED
        BY <4>1, PCs, MovedPC
    <3>2. /\ call'[r].at = "sent" /\ call'[r].gen = jar
          /\ \A q \in Requests : q # r => call'[q] = call[q]
      BY <1>7, <2>2 DEF TakeLock, StartRefresh
    <3>3. lock = Nobody /\ lock' = r /\ webLocks /\ req[r].pc = "lockWait"
      BY <1>7, <2>2 DEF TakeLock, ReplayInv, Mode
    <3>4. Quiet => \A q \in Requests : req[q].pc # "refreshing"
      BY <3>3, RefreshAssumption DEF ReplayInv, OwnTurn
    <3>5. Quiet => \A q \in Requests : call[q].at \notin Outstanding
      BY <3>4 DEF ReplayInv, Awaited
    <3>6. Quiet /\ session.state # "revoked" => jar = issued
      BY <3>5 DEF ReplayInv, Fresh, Outstanding
    <3> QED
      BY <1>7, <3>1, <3>2, <3>3, <3>4, <3>5, <3>6 DEF TakeLock, ReplayInv, Mode, OwnTurn,
         Written, Awaited, Fresh, Newest, LoggedOut, NoSelfReplay, Quiet, Outstanding,
         browserVars, serverVars, historyVars
  <2> QED
    BY <2>1, <2>2
<1>8. ASSUME NEW r \in Requests, ReadLease(r) PROVE ReplayInv'
  <2>1. CASE Renewed(r)
    <3>1. \A q \in Requests : req'[q].pc = IF q = r THEN "again" ELSE req[q].pc
      <4>1. req' = [req EXCEPT ![r].pc = "again"]
        BY <1>8, <2>1 DEF ReadLease, GoTo
      <4> QED
        BY <4>1, PCs, MovedPC
    <3> QED
      BY <1>8, <3>1 DEF ReadLease, ReplayInv, Mode, OwnTurn, Written, Awaited, Fresh, Newest,
         LoggedOut, NoSelfReplay, Quiet, Outstanding, browserVars, serverVars, historyVars
  <2>2. CASE ~Renewed(r)
    <3>1. \A q \in Requests : req'[q].pc = IF q = r THEN "leaseRead" ELSE req[q].pc
      <4>1. req' = [req EXCEPT ![r].pc = "leaseRead"]
        BY <1>8, <2>2 DEF ReadLease, GoTo
      <4> QED
        BY <4>1, PCs, MovedPC
    <3>2. LeaseFree /\ ~webLocks
      BY <1>8, <2>2 DEF ReadLease, ReplayInv, Mode
    <3>3. Quiet => \A q \in Requests : req[q].pc # "refreshing"
      BY <3>2, RefreshAssumption DEF ReplayInv, OwnTurn, LeaseFree
    <3> QED
      BY <1>8, <3>1, <3>2, <3>3 DEF ReadLease, ReplayInv, Mode, OwnTurn, Written, Awaited,
         Fresh, Newest, LoggedOut, NoSelfReplay, Quiet, Outstanding, browserVars, serverVars,
         historyVars
  <2> QED
    BY <2>1, <2>2
<1>9. ASSUME NEW r \in Requests, WriteLease(r) PROVE ReplayInv'
  <2>1. \A q \in Requests : req'[q].pc = IF q = r THEN "leaseWritten" ELSE req[q].pc
    BY <1>9, PCs, MovedPC DEF WriteLease, GoTo
  <2>2. req[r].pc = "leaseRead" /\ lease'.owner = r /\ lease'.clock = "running"
    BY <1>9 DEF WriteLease
  <2>3. ~webLocks /\ (Quiet => \A q \in Requests : req[q].pc # "refreshing")
    BY <2>2 DEF ReplayInv, OwnTurn, Mode
  <2> QED
    BY <1>9, <2>1, <2>2, <2>3 DEF WriteLease, ReplayInv, Mode, OwnTurn, Written, Awaited, Fresh,
       Newest, LoggedOut, NoSelfReplay, Quiet, Outstanding, browserVars, serverVars, historyVars
<1>10. ASSUME NEW r \in Requests, ConfirmLease(r) PROVE ReplayInv'
  <2>1. CASE lease.owner # r
    <3>1. \A q \in Requests : req'[q].pc = IF q = r THEN "leaseLoop" ELSE req[q].pc
      <4>1. req' = [req EXCEPT ![r].pc = "leaseLoop"]
        BY <1>10, <2>1 DEF ConfirmLease, GoTo
      <4> QED
        BY <4>1, PCs, MovedPC
    <3> QED
      BY <1>10, <2>1, <3>1 DEF ConfirmLease, ReplayInv, Mode, OwnTurn, Written, Awaited, Fresh,
         Newest, LoggedOut, NoSelfReplay, Quiet, Outstanding, browserVars, serverVars,
         historyVars
  <2>2. CASE lease.owner = r /\ Renewed(r)
    <3>1. \A q \in Requests : req'[q].pc = IF q = r THEN "again" ELSE req[q].pc
      <4>1. req' = [req EXCEPT ![r].pc = "again"]
        BY <1>10, <2>2 DEF ConfirmLease, GoTo
      <4> QED
        BY <4>1, PCs, MovedPC
    <3>2. ~webLocks /\ lease'.owner = Nobody
      BY <1>10, <2>2 DEF ConfirmLease, DropLease, ReplayInv, Mode
    <3>3. Quiet => \A q \in Requests : req[q].pc # "refreshing"
      BY <1>10, <2>2, <3>2 DEF ConfirmLease, ReplayInv, OwnTurn
    <3> QED
      BY <1>10, <2>2, <3>1, <3>2, <3>3, RefreshAssumption DEF ConfirmLease, ReplayInv, Mode,
         OwnTurn, Written, Awaited, Fresh, Newest, LoggedOut, NoSelfReplay, Quiet, Outstanding,
         browserVars, serverVars, historyVars
  <2>3. CASE lease.owner = r /\ ~Renewed(r)
    <3>1. \A q \in Requests : req'[q].pc = IF q = r THEN "refreshing" ELSE req[q].pc
      <4>1. req' = [req EXCEPT ![r].pc = "refreshing"]
        BY <1>10, <2>3 DEF ConfirmLease, StartRefresh, GoTo
      <4> QED
        BY <4>1, PCs, MovedPC
    <3>2. /\ call'[r].at = "sent" /\ call'[r].gen = jar
          /\ \A q \in Requests : q # r => call'[q] = call[q]
      BY <1>10, <2>3 DEF ConfirmLease, StartRefresh
    <3>3. /\ ~webLocks /\ lease' = lease /\ req[r].pc = "leaseWritten"
          /\ \A q \in Requests : req[q].pc # "leaseRead"
      BY <1>10, <2>3 DEF ConfirmLease, ReplayInv, Mode
    <3>4. Quiet => lease.clock = "running" /\ \A q \in Requests : req[q].pc # "refreshing"
      BY <1>10, <2>3, <3>3 DEF ReplayInv, OwnTurn, Written
    <3>5. Quiet => \A q \in Requests : call[q].at \notin Outstanding
      BY <3>4 DEF ReplayInv, Awaited
    <3>6. Quiet /\ session.state # "revoked" => jar = issued
      BY <3>5 DEF ReplayInv, Fresh, Outstanding
    <3> QED
      BY <1>10, <2>3, <3>1, <3>2, <3>3, <3>4, <3>5, <3>6 DEF ConfirmLease, ReplayInv, Mode,
         OwnTurn, Written, Awaited, Fresh, Newest, LoggedOut, NoSelfReplay, Quiet, Outstanding,
         browserVars, serverVars, historyVars
  <2> QED
    BY <2>1, <2>2, <2>3
<1>11. ASSUME NEW r \in Requests, CookiesArrive(r) PROVE ReplayInv'
  <2>1. \A q \in Requests : call'[q].gen = call[q].gen /\ call'[q].at = (IF q = r THEN "delivered" ELSE call[q].at)
    BY <1>11, CalledAt DEF CookiesArrive
  <2>2. Quiet => \A q \in Requests : q # r => call[q].at \notin Outstanding
    BY <1>11, RefreshAssumption DEF CookiesArrive, ReplayInv, OwnTurn, Awaited
  <2> QED
    BY <1>11, <2>1, <2>2 DEF CookiesArrive, ReplayInv, Mode, OwnTurn, Written, Awaited, Fresh,
       Newest, LoggedOut, NoSelfReplay, Quiet, Outstanding, browserVars, serverVars, historyVars
<1>12. ASSUME NEW r \in Requests, RefreshDone(r) PROVE ReplayInv'
  <2>1. \A q \in Requests : req'[q].pc = IF q = r THEN "again" ELSE req[q].pc
    BY <1>12, PCs, MovedPC DEF RefreshDone, GoTo
  <2>2. Quiet => \A q \in Requests : q # r => req[q].pc # "refreshing"
    BY <1>12, RefreshAssumption DEF RefreshDone, ReplayInv, OwnTurn
  <2>3. LeaveTurn /\ (lease' = lease \/ lease'.owner = Nobody)
    BY <1>12 DEF RefreshDone, LeaveTurn, DropLease
  <2> QED
    BY <1>12, <2>1, <2>2, <2>3, RefreshAssumption DEF RefreshDone, ReplayInv, Mode, OwnTurn,
       Written, Awaited, Fresh, Newest, LoggedOut, NoSelfReplay, Quiet, Outstanding,
       browserVars, serverVars, historyVars
<1>13. ASSUME NEW r \in Requests, RefreshDenied(r) PROVE ReplayInv'
  <2>1. \A q \in Requests : req'[q].pc = IF q = r THEN "ended" ELSE req[q].pc
    BY <1>13, PCs, MovedPC DEF RefreshDenied, GoTo
  <2>2. Quiet => \A q \in Requests : q # r => req[q].pc # "refreshing"
    BY <1>13, RefreshAssumption DEF RefreshDenied, ReplayInv, OwnTurn
  <2>3. LeaveTurn /\ (lease' = lease \/ lease'.owner = Nobody)
    BY <1>13 DEF RefreshDenied, LeaveTurn, DropLease
  <2> QED
    BY <1>13, <2>1, <2>2, <2>3, RefreshAssumption DEF RefreshDenied, ReplayInv, Mode, OwnTurn,
       Written, Awaited, Fresh, Newest, LoggedOut, NoSelfReplay, Quiet, Outstanding,
       browserVars, serverVars, historyVars
<1>14. ASSUME NEW r \in Requests, RefreshLost(r) PROVE ReplayInv'
  <2>1. \A q \in Requests : req'[q].pc = IF q = r THEN "failed" ELSE req[q].pc
    BY <1>14, PCs, MovedPC DEF RefreshLost, GoTo
  <2>2. Quiet => \A q \in Requests : q # r => req[q].pc # "refreshing"
    BY <1>14, RefreshAssumption DEF RefreshLost, ReplayInv, OwnTurn
  <2>3. LeaveTurn /\ (lease' = lease \/ lease'.owner = Nobody)
    BY <1>14 DEF RefreshLost, LeaveTurn, DropLease
  <2> QED
    BY <1>14, <2>1, <2>2, <2>3, RefreshAssumption DEF RefreshLost, ReplayInv, Mode, OwnTurn,
       Written, Awaited, Fresh, Newest, LoggedOut, NoSelfReplay, Quiet, Outstanding,
       browserVars, serverVars, historyVars
<1>15. ASSUME NEW r \in Requests, RefreshCheck(r) PROVE ReplayInv'
  <2>1. \/ \A q \in Requests : call'[q].gen = call[q].gen /\ call'[q].at = (IF q = r THEN "denied" ELSE call[q].at)
        \/ \A q \in Requests : call'[q].gen = call[q].gen /\ call'[q].at = (IF q = r THEN "checked" ELSE call[q].at) /\ UNCHANGED <<session, token>>
    <3>1. CASE call' = [call EXCEPT ![r].at = "denied"]
      BY <3>1, CalledAt
    <3>2. CASE call' = [call EXCEPT ![r].at = "checked"] /\ UNCHANGED <<session, token>>
      BY <3>2, CalledAt
    <3> QED
      BY <1>15, <3>1, <3>2 DEF RefreshCheck
  <2>2. \/ UNCHANGED <<session, token>>
        \/ token[call[r].gen] # "live" /\ Revoke("replay")
        \/ Revoke("expired")
    BY <1>15 DEF RefreshCheck
  <2>3. session'.state = session.state \/ session'.state = "revoked"
    BY <2>2 DEF Revoke
  <2>4. session'.why = "replay" => ~Quiet
    <3>1. CASE session.state = "revoked"
      BY <2>2, <3>1 DEF Revoke, ReplayInv, NoSelfReplay, Quiet
    <3>2. CASE session.state # "revoked"
      <4>1. Quiet => token[call[r].gen] = "live"
        BY <1>15, <3>2 DEF RefreshCheck, ReplayInv, Fresh, Newest, Outstanding
      <4> QED
        BY <2>2, <3>2, <4>1 DEF Revoke, ReplayInv, NoSelfReplay, Quiet
    <3> QED
      BY <3>1, <3>2
  <2>5. token' = token \/ session'.state = "revoked"
    BY <2>2 DEF Revoke
  <2> QED
    BY <1>15, <2>1, <2>3, <2>4, <2>5 DEF RefreshCheck, ReplayInv, Mode, OwnTurn, Written,
       Awaited, Fresh, Newest, LoggedOut, NoSelfReplay, Quiet, Outstanding, browserVars,
       serverVars, historyVars
<1>16. ASSUME NEW r \in Requests, RefreshClaim(r) PROVE ReplayInv'
  <2>1. CASE token[call[r].gen] = "live"
    <3>1. /\ call'[r].at = "granted" /\ call'[r].gen = issued + 1
          /\ \A q \in Requests : q # r => call'[q] = call[q]
      BY <1>16, <2>1 DEF RefreshClaim
    <3>2. session' = session /\ issued' = issued + 1
      BY <1>16, <2>1 DEF RefreshClaim, Rotate
    <3>3. session.state # "revoked" => token'[issued + 1] = "live"
      BY <1>16, <2>1 DEF RefreshClaim, Rotate
    <3>4. Quiet => \A q \in Requests : q # r => call[q].at \notin Outstanding
      BY <1>16, RefreshAssumption DEF RefreshClaim, ReplayInv, OwnTurn, Awaited, Outstanding
    <3> QED
      BY <1>16, <3>1, <3>2, <3>3, <3>4 DEF RefreshClaim, ReplayInv, Mode, OwnTurn, Written,
         Awaited, Fresh, Newest, LoggedOut, NoSelfReplay, Quiet, Outstanding, browserVars,
         serverVars, historyVars
  <2>2. CASE token[call[r].gen] # "live"
    <3>1. \A q \in Requests : call'[q].gen = call[q].gen /\ call'[q].at = (IF q = r THEN "denied" ELSE call[q].at)
      <4>1. call' = [call EXCEPT ![r].at = "denied"]
        BY <1>16, <2>2 DEF RefreshClaim
      <4> QED
        BY <4>1, CalledAt
    <3>2. session'.state = "revoked"
      BY <1>16, <2>2 DEF RefreshClaim, Revoke
    <3>3. session'.why = "replay" => ~Quiet
      <4>1. Quiet => session.state = "revoked"
        BY <1>16, <2>2 DEF RefreshClaim, ReplayInv, Fresh, Newest, Outstanding
      <4> QED
        BY <1>16, <2>2, <4>1 DEF RefreshClaim, Revoke, ReplayInv, NoSelfReplay, Quiet
    <3> QED
      BY <1>16, <2>2, <3>1, <3>2, <3>3 DEF RefreshClaim, ReplayInv, Mode, OwnTurn, Written,
         Awaited, Fresh, Newest, LoggedOut, NoSelfReplay, Quiet, Outstanding, browserVars,
         serverVars, historyVars
  <2> QED
    BY <2>1, <2>2
<1>17. ASSUME NEW t \in Tabs, CloseTab(t) PROVE ReplayInv'
  <2> DEFINE mine == {r \in Requests : TabOf[r] = t /\ req[r].pc \notin Settled}
  <2>1. \A r \in Requests : req'[r].pc = req[r].pc \/ (r \in mine /\ req'[r].pc = "gone")
    BY <1>17 DEF CloseTab, RequestStates
  <2>2. Quiet' => Quiet /\ \A r \in mine : req[r].pc # "refreshing"
    BY <1>17 DEF CloseTab, Quiet
  <2>3. lock' = lock \/ lock \in mine
    BY <1>17 DEF CloseTab
  <2>4. UNCHANGED <<webLocks, jar, lease, call, logout, issued, token, session>>
    BY <1>17 DEF CloseTab, serverVars
  <2> HIDE DEF mine
  <2> QED
    BY <2>1, <2>2, <2>3, <2>4 DEF ReplayInv, Mode, OwnTurn, Written, Awaited, Fresh, Newest,
       LoggedOut, NoSelfReplay, Quiet, Outstanding
<1>18. ASSUME NEW t \in Tabs, Logout(t) PROVE ReplayInv'
  BY <1>18 DEF Logout, ReplayInv, Mode, OwnTurn, Written, Awaited, Fresh, Newest, LoggedOut,
     NoSelfReplay, Quiet, Outstanding, browserVars, serverVars, historyVars
<1>19. CASE LeaseLapses
  <2>1. /\ lease'.owner = lease.owner /\ (overrun => overrun')
        /\ req[lease.owner].pc \in {"leaseWritten", "refreshing"} => overrun'
    BY <1>19 DEF LeaseLapses, LeaseStates
  <2> QED
    BY <1>19, <2>1 DEF LeaseLapses, ReplayInv, Mode, OwnTurn, Written, Awaited, Fresh, Newest,
       LoggedOut, NoSelfReplay, Quiet, Outstanding, browserVars, serverVars, historyVars
<1>20. CASE AccessExpires
  BY <1>20 DEF AccessExpires, ReplayInv, Mode, OwnTurn, Written, Awaited, Fresh, Newest,
     LoggedOut, NoSelfReplay, Quiet, Outstanding, browserVars, serverVars, historyVars
<1>21. CASE SessionLapses
  BY <1>21 DEF SessionLapses, ReplayInv, Mode, OwnTurn, Written, Awaited, Fresh, Newest,
     LoggedOut, NoSelfReplay, Quiet, Outstanding, browserVars, serverVars, historyVars
<1>22. CASE RevokedElsewhere
  <2>1. session'.state = "revoked" /\ session'.why = "admin"
    BY <1>22 DEF RevokedElsewhere, Revoke
  <2> QED
    BY <1>22, <2>1 DEF RevokedElsewhere, ReplayInv, Mode, OwnTurn, Written, Awaited, Fresh,
       Newest, LoggedOut, NoSelfReplay, Quiet, Outstanding, browserVars, serverVars, historyVars
<1>23. CASE ServeLogout
  <2>1. \/ UNCHANGED <<session, token>> /\ logout'.at = "refused"
        \/ session'.state = "revoked" /\ (session'.why = session.why \/ session'.why = "logout")
    BY <1>23 DEF ServeLogout, Revoke
  <2> QED
    BY <1>23, <2>1 DEF ServeLogout, ReplayInv, Mode, OwnTurn, Written, Awaited, Fresh, Newest,
       LoggedOut, NoSelfReplay, Quiet, Outstanding, browserVars, serverVars, historyVars
<1>24. CASE LogoutAnswered
  <2>1. session.state = "revoked"
    BY <1>24 DEF LogoutAnswered, ReplayInv, LoggedOut
  <2> QED
    BY <1>24, <2>1 DEF LogoutAnswered, ReplayInv, Mode, OwnTurn, Written, Awaited, Fresh,
       Newest, LoggedOut, NoSelfReplay, Quiet, Outstanding, browserVars, serverVars, historyVars
<1>25. CASE UNCHANGED authVars
  BY <1>25 DEF authVars, ReplayInv, Mode, OwnTurn, Written, Awaited, Fresh, Newest, LoggedOut,
     NoSelfReplay, Quiet, Outstanding, browserVars, serverVars, historyVars
<1> QED
  BY <1>1, <1>2, <1>3, <1>4, <1>5, <1>6, <1>7, <1>8, <1>9, <1>10, <1>11, <1>12, <1>13, <1>14,
     <1>15, <1>16, <1>17, <1>18, <1>19, <1>20, <1>21, <1>22, <1>23, <1>24, <1>25 DEF AuthNext

\* ReplayInv holds always.
THEOREM ReplayInvariant == AuthSpec => []ReplayInv
<1>1. AuthInit => ReplayInv
  BY DEF AuthInit, ReplayInv, Mode, OwnTurn, Written, Awaited, Fresh, Newest, LoggedOut,
         NoSelfReplay, Outstanding, None
<1> QED
  BY <1>1, ReplayStep, AuthTypes, PTL DEF AuthSpec

\* The browser revokes its session by a replay only after a lost refresh or
\* a lapsed lease: coordinateAuthRefresh serialises the refreshes of any
\* number of tabs.
THEOREM SelfReplay == AuthSpec => []NoSelfReplay
<1>1. ReplayInv => NoSelfReplay
  BY DEF ReplayInv
<1> QED
  BY <1>1, ReplayInvariant, PTL

\* A token that passed _require_refresh_token was issued.
CheckedIssued == \A r \in Requests : call[r].at = "checked" => call[r].gen \in Generations

\* The inductive invariant of the token family
TokenInv == OneUsableToken /\ CheckedIssued

\* A new call leaves the checked ones as they are.
LEMMA CalledSent ==
    ASSUME NEW f \in [Requests -> CallStates], NEW r \in Requests, NEW g
    PROVE  \A q \in Requests :
             [f EXCEPT ![r] = [at |-> "sent", gen |-> g]][q].at = "checked" =>
                 [f EXCEPT ![r] = [at |-> "sent", gen |-> g]][q] = f[q]
  OBVIOUS

\* TokenInv holds always.
THEOREM TokenInvariant == AuthSpec => []TokenInv
<1>1. AuthInit => TokenInv
  BY DEF AuthInit, TokenInv, CheckedIssued, OneUsableToken, Generations
<1>2. AuthTypeOK /\ TokenInv /\ [AuthNext]_authVars => TokenInv'
  <2> SUFFICES ASSUME AuthTypeOK, TokenInv, [AuthNext]_authVars PROVE TokenInv'
    OBVIOUS
  <2>1. ASSUME NEW r \in Requests, Send(r) PROVE TokenInv'
    BY <2>1 DEF Send, AuthTypeOK, CallStates, Generations, CheckedIssued, TokenInv,
       OneUsableToken, browserVars, serverVars, historyVars, authVars
  <2>2. ASSUME NEW r \in Requests, Serve(r) PROVE TokenInv'
    BY <2>2 DEF Serve, GoTo, Revoke, AuthTypeOK, CallStates, Generations, CheckedIssued,
       TokenInv, OneUsableToken, browserVars, serverVars, historyVars, authVars
  <2>3. ASSUME NEW r \in Requests, Accepted(r) PROVE TokenInv'
    BY <2>3 DEF Accepted, GoTo, AuthTypeOK, CallStates, Generations, CheckedIssued, TokenInv,
       OneUsableToken, browserVars, serverVars, historyVars, authVars
  <2>4. ASSUME NEW r \in Requests, FetchFails(r) PROVE TokenInv'
    BY <2>4 DEF FetchFails, GoTo, AuthTypeOK, CallStates, Generations, CheckedIssued, TokenInv,
       OneUsableToken, browserVars, serverVars, historyVars, authVars
  <2>5. ASSUME NEW r \in Requests, Refused(r) PROVE TokenInv'
    BY <2>5 DEF Refused, AuthTypeOK, CallStates, Generations, CheckedIssued, TokenInv,
       OneUsableToken, browserVars, serverVars, historyVars, authVars
  <2>6. ASSUME NEW r \in Requests, RefusedAgain(r) PROVE TokenInv'
    BY <2>6 DEF RefusedAgain, GoTo, AuthTypeOK, CallStates, Generations, CheckedIssued,
       TokenInv, OneUsableToken, browserVars, serverVars, historyVars, authVars
  <2>7. ASSUME NEW r \in Requests, TakeLock(r) PROVE TokenInv'
    BY <2>7, CalledSent DEF TakeLock, StartRefresh, AuthTypeOK, TokenInv, CheckedIssued,
       OneUsableToken, Generations, serverVars
  <2>8. ASSUME NEW r \in Requests, ReadLease(r) PROVE TokenInv'
    BY <2>8 DEF ReadLease, GoTo, LeaseFree, AuthTypeOK, CallStates, Generations, CheckedIssued,
       TokenInv, OneUsableToken, browserVars, serverVars, historyVars, authVars
  <2>9. ASSUME NEW r \in Requests, WriteLease(r) PROVE TokenInv'
    BY <2>9 DEF WriteLease, GoTo, AuthTypeOK, CallStates, Generations, CheckedIssued, TokenInv,
       OneUsableToken, browserVars, serverVars, historyVars, authVars
  <2>10. ASSUME NEW r \in Requests, ConfirmLease(r) PROVE TokenInv'
    BY <2>10, CalledSent DEF ConfirmLease, StartRefresh, AuthTypeOK, TokenInv, CheckedIssued,
       OneUsableToken, Generations, serverVars
  <2>11. ASSUME NEW r \in Requests, CookiesArrive(r) PROVE TokenInv'
    BY <2>11, CalledAt DEF CookiesArrive, AuthTypeOK, TokenInv, CheckedIssued, OneUsableToken,
       Generations, serverVars
  <2>12. ASSUME NEW r \in Requests, RefreshDone(r) PROVE TokenInv'
    BY <2>12 DEF RefreshDone, GoTo, LeaveTurn, DropLease, AuthTypeOK, CallStates, Generations,
       CheckedIssued, TokenInv, OneUsableToken, browserVars, serverVars, historyVars, authVars
  <2>13. ASSUME NEW r \in Requests, RefreshDenied(r) PROVE TokenInv'
    BY <2>13 DEF RefreshDenied, GoTo, LeaveTurn, DropLease, AuthTypeOK, CallStates, Generations,
       CheckedIssued, TokenInv, OneUsableToken, browserVars, serverVars, historyVars, authVars
  <2>14. ASSUME NEW r \in Requests, RefreshLost(r) PROVE TokenInv'
    BY <2>14 DEF RefreshLost, GoTo, LeaveTurn, DropLease, AuthTypeOK, CallStates, Generations,
       CheckedIssued, TokenInv, OneUsableToken, browserVars, serverVars, historyVars, authVars
  <2>15. ASSUME NEW r \in Requests, RefreshCheck(r) PROVE TokenInv'
    <3>1. \A q \in Requests : call'[q].at = "checked" =>
              call'[q].gen = call[q].gen /\ (q # r => call[q].at = "checked")
      <4>1. CASE call' = [call EXCEPT ![r].at = "denied"]
        BY <4>1, CalledAt DEF AuthTypeOK
      <4>2. CASE call' = [call EXCEPT ![r].at = "checked"]
        BY <4>2, CalledAt DEF AuthTypeOK
      <4> QED
        BY <2>15, <4>1, <4>2 DEF RefreshCheck
    <3>2. call'[r].at = "checked" => call[r].gen \in Generations
      <4>1. CASE call' = [call EXCEPT ![r].at = "denied"]
        BY <4>1, CalledAt DEF AuthTypeOK
      <4>2. CASE call[r].gen \in Generations
        BY <4>2
      <4> QED
        BY <2>15, <4>1, <4>2 DEF RefreshCheck
    <3>3. UNCHANGED <<session, token>> \/ \E why \in {"replay", "expired"} : Revoke(why)
      BY <2>15 DEF RefreshCheck
    <3>4. OneUsableToken'
      BY <2>15, <3>3 DEF RefreshCheck, Revoke, TokenInv, OneUsableToken, Generations
    <3> QED
      BY <2>15, <3>1, <3>2, <3>4 DEF RefreshCheck, TokenInv, CheckedIssued, Generations
  <2>16. ASSUME NEW r \in Requests, RefreshClaim(r) PROVE TokenInv'
    <3>1. CASE token[call[r].gen] = "live"
      <4>1. issued' = issued + 1 /\ session' = session /\ call[r].gen = issued
        BY <2>16, <3>1 DEF RefreshClaim, Rotate, TokenInv, CheckedIssued, OneUsableToken
      <4>2. OneUsableToken'
        BY <2>16, <3>1, <4>1 DEF RefreshClaim, Rotate, TokenInv, OneUsableToken, Generations,
           AuthTypeOK
      <4>3. call' = [call EXCEPT ![r] = [at |-> "granted", gen |-> issued + 1]]
        BY <2>16, <3>1 DEF RefreshClaim
      <4>4. \A q \in Requests : call'[q].at = "checked" => call'[q] = call[q]
        BY <4>3 DEF AuthTypeOK
      <4> QED
        BY <4>1, <4>2, <4>4 DEF TokenInv, CheckedIssued, Generations, AuthTypeOK
    <3>2. CASE token[call[r].gen] # "live"
      <4>1. call' = [call EXCEPT ![r].at = "denied"] /\ Revoke("replay") /\ issued' = issued
        BY <2>16, <3>2 DEF RefreshClaim
      <4> QED
        BY <4>1, CalledAt DEF Revoke, AuthTypeOK, TokenInv, CheckedIssued, OneUsableToken,
           Generations
    <3> QED
      BY <3>1, <3>2
  <2>17. ASSUME NEW t \in Tabs, CloseTab(t) PROVE TokenInv'
    BY <2>17 DEF CloseTab, TokenInv, CheckedIssued, OneUsableToken, Generations, serverVars
  <2>18. ASSUME NEW t \in Tabs, Logout(t) PROVE TokenInv'
    BY <2>18 DEF Logout, AuthTypeOK, CallStates, Generations, CheckedIssued, TokenInv,
       OneUsableToken, browserVars, serverVars, historyVars, authVars
  <2>19. CASE LeaseLapses
    BY <2>19 DEF LeaseLapses, AuthTypeOK, CallStates, Generations, CheckedIssued, TokenInv,
       OneUsableToken, browserVars, serverVars, historyVars, authVars
  <2>20. CASE AccessExpires
    BY <2>20 DEF AccessExpires, AuthTypeOK, CallStates, Generations, CheckedIssued, TokenInv,
       OneUsableToken, browserVars, serverVars, historyVars, authVars
  <2>21. CASE SessionLapses
    BY <2>21 DEF SessionLapses, AuthTypeOK, CallStates, Generations, CheckedIssued, TokenInv,
       OneUsableToken, browserVars, serverVars, historyVars, authVars
  <2>22. CASE RevokedElsewhere
    BY <2>22 DEF RevokedElsewhere, Revoke, AuthTypeOK, CallStates, Generations, CheckedIssued,
       TokenInv, OneUsableToken, browserVars, serverVars, historyVars, authVars
  <2>23. CASE ServeLogout
    BY <2>23 DEF ServeLogout, Revoke, AuthTypeOK, CallStates, Generations, CheckedIssued,
       TokenInv, OneUsableToken, browserVars, serverVars, historyVars, authVars
  <2>24. CASE LogoutAnswered
    BY <2>24 DEF LogoutAnswered, AuthTypeOK, CallStates, Generations, CheckedIssued, TokenInv,
       OneUsableToken, browserVars, serverVars, historyVars, authVars
  <2>25. CASE UNCHANGED authVars
    BY <2>25 DEF AuthTypeOK, CallStates, Generations, CheckedIssued, TokenInv, OneUsableToken,
       browserVars, serverVars, historyVars, authVars
  <2> QED
    BY <2>1, <2>2, <2>3, <2>4, <2>5, <2>6, <2>7, <2>8, <2>9, <2>10, <2>11, <2>12, <2>13, <2>14,
       <2>15, <2>16, <2>17, <2>18, <2>19, <2>20, <2>21, <2>22, <2>23, <2>24, <2>25 DEF AuthNext
<1> QED
  BY <1>1, <1>2, AuthTypes, PTL DEF AuthSpec

\* At most one refresh token of the family is usable, the newest, and none
\* after a revocation, whatever calls run in parallel: the conditional UPDATE
\* of _claim_refresh_token is enough.
THEOREM UsableToken == AuthSpec => []OneUsableToken
<1>1. TokenInv => OneUsableToken
  BY DEF TokenInv
<1> QED
  BY <1>1, TokenInvariant, PTL

-----------------------------------------------------------------------------
(***************************************************************************)
(* Why no request is sent to the session-expired page by mistake.  As long *)
(* as the session is active, whatever was lost or overran, the jar never   *)
(* goes back, only the newest cookies are still on their way, and cookies  *)
(* outlive the answer that brings them.  So when the marker has moved, the *)
(* jar is newer than every cookie that was refused before.                 *)
(***************************************************************************)
Active == session.state = "active"
Waiting == {"lockWait", "leaseLoop", "leaseRead", "leaseWritten", "refreshing"}

\* The cookies are cleared only after a revocation.
JarKept == Active => jar \in 1..issued

\* What a refresh carries, and where the cookies it was given are.
Handed(r) ==
    /\ call[r].at \in {"sent", "checked"} => call[r].gen \in 1..jar
    /\ call[r].at = "granted" => call[r].gen = issued /\ jar < issued
    /\ call[r].at = "delivered" => call[r].gen <= jar
    /\ call[r].at # "denied"

\* The cookies of one grant at most are still on their way.
OneGranted ==
    \A q, r \in Requests : call[q].at = "granted" /\ call[r].at = "granted" => q = r

\* An access cookie outlives the answer that brings it.
Unexpired ==
    /\ expired <= issued
    /\ \A r \in Requests : req[r].pc = "refreshing" /\ call[r].at \in {"granted", "delivered"} =>
          expired < call[r].gen

\* Only an expired cookie is refused, and the retry has a newer one.
Newer(r) ==
    /\ req[r].pc = "rejected" => req[r].cred <= expired
    /\ req[r].pc \in Waiting =>
          req[r].refused <= expired /\ (Renewed(r) => req[r].refused < jar)
    /\ req[r].pc = "again" => req[r].refused < jar
    /\ req[r].attempt = "retry" /\ req[r].pc \in InFlight => req[r].refused < req[r].cred

\* The inductive invariant
SignInv ==
    /\ JarKept /\ Unexpired /\ SignedOutOnlyIfEnded
    /\ Active => OneGranted /\ \A r \in Requests : Handed(r) /\ Newer(r)

\* The fields of a request that GoTo moves.
LEMMA MovedFields ==
    ASSUME NEW f \in [Requests -> RequestStates], NEW r \in Requests, NEW c \in RequestPCs,
           NEW g, g = [f EXCEPT ![r].pc = c]
    PROVE  /\ \A q \in Requests : q # r => g[q] = f[q]
           /\ g[r].pc = c /\ g[r].attempt = f[r].attempt /\ g[r].cred = f[r].cred
           /\ g[r].refused = f[r].refused /\ g[r].observed = f[r].observed
  BY DEF RequestStates

\* Later cookies and later expiries keep what is known of a request that does
\* not move.
LEMMA NewerStays ==
    ASSUME AuthTypeOK, NEW q \in Requests, Newer(q), req'[q] = req[q],
           jar' \in Nat, expired' \in Nat, jar <= jar', expired <= expired', marker' = marker
    PROVE  Newer(q)'
<1>1. /\ jar \in Nat /\ expired \in Nat /\ marker \in Nat
      /\ req[q].refused \in Nat /\ req[q].cred \in Nat /\ req[q].observed \in Nat
  BY DEF AuthTypeOK, RequestStates
<1>2. QED
  BY <1>1 DEF Newer, Renewed

\* A request that is sent to the session-expired page stays right to be.
LEMMA EndedStays ==
    ASSUME AuthTypeOK, SignedOutOnlyIfEnded, NEW q \in Requests,
           req'[q] = req[q], expired' \in Nat, expired <= expired', Active' => Active
    PROVE  req'[q].pc = "ended" =>
               \/ session'.state # "active"
               \/ req'[q].attempt = "retry" /\ req'[q].cred > req'[q].refused /\ req'[q].cred <= expired'
<1>1. req[q].cred \in Nat /\ expired \in Nat
  BY DEF AuthTypeOK, RequestStates
<1>2. QED
  BY <1>1 DEF SignedOutOnlyIfEnded, Active

\* A step of request r that leaves the cookies and the calls alone, and starts
\* no refresh.
LEMMA RequestOnly ==
    ASSUME AuthTypeOK, SignInv, NEW r \in Requests,
           UNCHANGED <<jar, marker, call, issued, expired>>, Active' => Active,
           \A q \in Requests : q # r => req'[q] = req[q],
           req'[r].pc # "refreshing",
           Active' => Newer(r)',
           req'[r].pc = "ended" =>
               \/ session'.state # "active"
               \/ req'[r].attempt = "retry" /\ req'[r].cred > req'[r].refused /\ req'[r].cred <= expired
    PROVE  SignInv'
<1>0. jar \in Nat /\ expired \in Nat /\ issued \in Nat
  BY DEF AuthTypeOK
<1>1. JarKept'
  BY DEF SignInv, JarKept, Active
<1>2. Unexpired'
  BY <1>0 DEF SignInv, Unexpired
<1>3. SignedOutOnlyIfEnded'
  <2>1. \A q \in Requests : q # r => (req'[q].pc = "ended" =>
            \/ session'.state # "active"
            \/ req'[q].attempt = "retry" /\ req'[q].cred > req'[q].refused /\ req'[q].cred <= expired')
    BY <1>0, EndedStays DEF SignInv
  <2>2. QED
    BY <2>1 DEF SignedOutOnlyIfEnded
<1>4. ASSUME Active' PROVE OneGranted' /\ \A q \in Requests : Handed(q)' /\ Newer(q)'
  <2>1. OneGranted' /\ \A q \in Requests : Handed(q)'
    BY <1>4 DEF SignInv, OneGranted, Handed
  <2>2. \A q \in Requests : q # r => Newer(q)'
    BY <1>0, <1>4, NewerStays DEF SignInv
  <2>3. QED
    BY <1>4, <2>1, <2>2
<1>5. QED
  BY <1>1, <1>2, <1>3, <1>4 DEF SignInv

\* A step of the server, of the clock or of the cookie jar: no request moves.
LEMMA NoRequest ==
    ASSUME AuthTypeOK, AuthTypeOK', SignInv, UNCHANGED <<req, marker>>, Active' => Active,
           Active' => jar <= jar' /\ jar' <= issued', expired <= expired',
           Unexpired', Active' => OneGranted' /\ \A q \in Requests : Handed(q)'
    PROVE  SignInv'
<1>0. jar \in Nat /\ jar' \in Nat /\ expired \in Nat /\ expired' \in Nat /\ issued' \in Nat
  BY DEF AuthTypeOK
<1>1. JarKept'
  BY <1>0 DEF SignInv, JarKept, Active
<1>2. SignedOutOnlyIfEnded'
  BY <1>0, EndedStays DEF SignInv, SignedOutOnlyIfEnded
<1>3. ASSUME Active' PROVE \A q \in Requests : Newer(q)'
  BY <1>0, <1>3, NewerStays DEF SignInv
<1>4. QED
  BY <1>1, <1>2, <1>3 DEF SignInv

\* A refresh starts with the cookie of this moment.
LEMMA RefreshStarts ==
    ASSUME AuthTypeOK, SignInv, NEW r \in Requests, StartRefresh(r), req[r].pc \in Waiting,
           ~Renewed(r), UNCHANGED <<jar, marker, issued, expired, session>>
    PROVE  SignInv'
<1>0. /\ jar \in Nat /\ expired \in Nat /\ issued \in Nat
      /\ req \in [Requests -> RequestStates] /\ call \in [Requests -> CallStates]
  BY DEF AuthTypeOK
<1>1. /\ \A q \in Requests : q # r => req'[q] = req[q]
      /\ req'[r].pc = "refreshing" /\ req'[r].attempt = req[r].attempt
      /\ req'[r].cred = req[r].cred /\ req'[r].refused = req[r].refused
      /\ req'[r].observed = req[r].observed
  BY <1>0, PCs, MovedFields DEF StartRefresh, GoTo
<1>2. /\ \A q \in Requests : q # r => call'[q] = call[q]
      /\ call'[r].at = "sent" /\ call'[r].gen = jar
  BY <1>0 DEF StartRefresh
<1>3. JarKept'
  BY DEF SignInv, JarKept, Active
<1>4. Unexpired'
  BY <1>1, <1>2 DEF SignInv, Unexpired
<1>5. SignedOutOnlyIfEnded'
  BY <1>1 DEF SignInv, SignedOutOnlyIfEnded
<1>6. ASSUME Active' PROVE OneGranted' /\ \A q \in Requests : Handed(q)' /\ Newer(q)'
  <2>1. OneGranted'
    BY <1>2, <1>6 DEF SignInv, Active, OneGranted
  <2>2. \A q \in Requests : Handed(q)'
    BY <1>0, <1>2, <1>6 DEF SignInv, Active, JarKept, Handed
  <2>3. Newer(r)'
    BY <1>1, <1>6 DEF SignInv, Active, Newer, Renewed, Waiting, InFlight
  <2>4. \A q \in Requests : q # r => Newer(q)'
    BY <1>0, <1>1, <1>6, NewerStays DEF SignInv, Active
  <2>5. QED
    BY <2>1, <2>2, <2>3, <2>4
<1>7. QED
  BY <1>3, <1>4, <1>5, <1>6 DEF SignInv

\* Every step keeps the inductive invariant.
LEMMA SignStep ==
    ASSUME AuthTypeOK, AuthTypeOK', LoggedOut, OneUsableToken, CheckedIssued, SignInv,
           [AuthNext]_authVars
    PROVE  SignInv'
<1>0. /\ jar \in Nat /\ expired \in Nat /\ issued \in Nat \ {0} /\ marker \in Nat
      /\ req \in [Requests -> RequestStates] /\ call \in [Requests -> CallStates]
  BY DEF AuthTypeOK
<1>i. Active => \A q \in Requests : Newer(q) /\ Handed(q)
  BY DEF SignInv
<1>n. \A q \in Requests : /\ req[q].refused \in Nat /\ req[q].cred \in Nat /\ req[q].observed \in Nat
                          /\ call[q].gen \in Nat
  BY <1>0 DEF RequestStates, CallStates
<1> USE DEF browserVars, serverVars, historyVars
<1>1. ASSUME NEW r \in Requests, Send(r) PROVE SignInv'
  <2>1. /\ \A q \in Requests : q # r => req'[q] = req[q]
        /\ req'[r].pc = "sent" /\ req'[r].refused = req[r].refused /\ req'[r].cred = jar
        /\ req'[r].attempt = "retry" => req[r].pc = "again"
    BY <1>0, <1>1 DEF Send
  <2>2. Active' => Newer(r)'
    BY <1>1, <1>i, <2>1 DEF Send, Newer, Waiting, Active
  <2>3. QED
    BY <1>1, <2>1, <2>2, RequestOnly DEF Send, Active
<1>2. ASSUME NEW r \in Requests, Serve(r) PROVE SignInv'
  <2>1. PICK c \in {"accepted", "rejected"} : GoTo(r, c) /\ (c = "rejected" =>
                                        session.state # "active" \/ ~(req[r].cred > expired))
    BY <1>2 DEF Serve
  <2>2. /\ \A q \in Requests : q # r => req'[q] = req[q]
        /\ req'[r].pc = c /\ req'[r].attempt = req[r].attempt
        /\ req'[r].cred = req[r].cred /\ req'[r].refused = req[r].refused
    BY <1>0, <2>1, PCs, MovedFields DEF GoTo
  <2>3. Active' => Active
    BY <1>2 DEF Serve, Revoke, Active
  <2>4. Active' => Newer(r)'
    BY <1>0, <1>2, <1>i, <1>n, <2>1, <2>2, <2>3 DEF Serve, Newer, Waiting, InFlight, Active
  <2>5. QED
    BY <1>2, <2>2, <2>3, <2>4, RequestOnly DEF Serve
<1>3. ASSUME NEW r \in Requests, Accepted(r) \/ FetchFails(r) PROVE SignInv'
  <2>1. PICK c \in {"done", "failed"} : GoTo(r, c)
    BY <1>3 DEF Accepted, FetchFails
  <2>2. /\ \A q \in Requests : q # r => req'[q] = req[q]
        /\ req'[r].pc = c
    BY <1>0, <2>1, PCs, MovedFields DEF GoTo
  <2>3. UNCHANGED <<jar, marker, call, issued, expired, session>>
    BY <1>3 DEF Accepted, FetchFails
  <2>4. Newer(r)'
    BY <2>2 DEF Newer, Waiting, InFlight
  <2>5. QED
    BY <2>2, <2>3, <2>4, RequestOnly DEF Active
<1>4. ASSUME NEW r \in Requests, Refused(r) PROVE SignInv'
  <2>1. /\ \A q \in Requests : q # r => req'[q] = req[q]
        /\ req'[r].pc \in {"lockWait", "leaseLoop"} /\ req'[r].attempt = "first"
        /\ req'[r].refused = req[r].cred /\ req'[r].observed = marker
    BY <1>0, <1>4 DEF Refused
  <2>2. Active' => Newer(r)'
    BY <1>0, <1>4, <1>i, <2>1 DEF Refused, Newer, Renewed, Active
  <2>3. QED
    BY <1>4, <2>1, <2>2, RequestOnly DEF Refused, Active
<1>5. ASSUME NEW r \in Requests, RefusedAgain(r) PROVE SignInv'
  <2>1. /\ \A q \in Requests : q # r => req'[q] = req[q]
        /\ req'[r].pc = "ended" /\ req'[r].attempt = req[r].attempt
        /\ req'[r].cred = req[r].cred /\ req'[r].refused = req[r].refused
    BY <1>0, <1>5, PCs, MovedFields DEF RefusedAgain, GoTo
  <2>2. Newer(r)'
    BY <2>1 DEF Newer, Waiting, InFlight
  <2>3. \/ session.state # "active"
        \/ req[r].attempt = "retry" /\ req[r].cred > req[r].refused /\ req[r].cred <= expired
    BY <1>5, <1>i, <1>n DEF RefusedAgain, Newer, InFlight, Active
  <2>4. QED
    BY <1>5, <2>1, <2>2, <2>3, RequestOnly DEF RefusedAgain, Active
<1>6. ASSUME NEW r \in Requests, NEW c \in {"again", "leaseRead", "leaseWritten", "leaseLoop"},
             GoTo(r, c), req[r].pc \in Waiting, c = "again" => Renewed(r),
             UNCHANGED <<jar, marker, call, issued, expired, session>>
      PROVE  SignInv'
  <2>1. /\ \A q \in Requests : q # r => req'[q] = req[q]
        /\ req'[r].pc = c /\ req'[r].attempt = req[r].attempt
        /\ req'[r].cred = req[r].cred /\ req'[r].refused = req[r].refused
        /\ req'[r].observed = req[r].observed
    BY <1>0, <1>6, PCs, MovedFields DEF GoTo
  <2>2. Active' => Newer(r)'
    BY <1>6, <1>i, <2>1 DEF Newer, Renewed, Waiting, InFlight, Active
  <2>3. QED
    BY <1>6, <2>1, <2>2, RequestOnly DEF Active
<1>7. ASSUME NEW r \in Requests, TakeLock(r) PROVE SignInv'
  <2>1. UNCHANGED <<jar, marker, issued, expired, session>> /\ req[r].pc \in Waiting
    BY <1>7 DEF TakeLock, Waiting
  <2>2. CASE Renewed(r)
    BY <1>6, <1>7, <2>1, <2>2 DEF TakeLock
  <2>3. CASE ~Renewed(r)
    BY <1>7, <2>1, <2>3, RefreshStarts DEF TakeLock
  <2>4. QED
    BY <2>2, <2>3
<1>8. ASSUME NEW r \in Requests, ReadLease(r) \/ WriteLease(r) PROVE SignInv'
  <2>1. /\ UNCHANGED <<jar, marker, call, issued, expired, session>> /\ req[r].pc \in Waiting
        /\ \E c \in {"again", "leaseRead", "leaseWritten"} : GoTo(r, c) /\ (c = "again" => Renewed(r))
    BY <1>8 DEF ReadLease, WriteLease, Waiting
  <2>2. QED
    BY <1>6, <2>1
<1>9. ASSUME NEW r \in Requests, ConfirmLease(r) PROVE SignInv'
  <2>1. UNCHANGED <<jar, marker, issued, expired, session>> /\ req[r].pc \in Waiting
    BY <1>9 DEF ConfirmLease, Waiting
  <2>2. CASE \E c \in {"leaseLoop", "again"} :
               UNCHANGED call /\ GoTo(r, c) /\ (c = "again" => Renewed(r))
    BY <1>6, <2>1, <2>2
  <2>3. CASE ~Renewed(r) /\ StartRefresh(r)
    BY <2>1, <2>3, RefreshStarts
  <2>4. \/ UNCHANGED call /\ GoTo(r, "leaseLoop")
        \/ UNCHANGED call /\ Renewed(r) /\ GoTo(r, "again")
        \/ ~Renewed(r) /\ StartRefresh(r)
    BY <1>9 DEF ConfirmLease
  <2>5. QED
    BY <2>2, <2>3, <2>4
<1>10. ASSUME NEW r \in Requests, CookiesArrive(r) PROVE SignInv'
  <2>1. /\ \A q \in Requests : call'[q].gen = call[q].gen
        /\ \A q \in Requests : call'[q].at = (IF q = r THEN "delivered" ELSE call[q].at)
    BY <1>0, <1>10, CalledAt DEF CookiesArrive
  <2>2. /\ UNCHANGED <<req, marker, issued, expired, session>> /\ jar' = call[r].gen
        /\ req[r].pc = "refreshing" /\ call[r].at = "granted"
    BY <1>10 DEF CookiesArrive
  <2>3. Active => jar <= jar' /\ jar' = issued
    BY <1>0, <1>i, <2>2 DEF Handed
  <2>4. Unexpired'
    BY <2>1, <2>2 DEF SignInv, Unexpired
  <2>5. ASSUME Active PROVE OneGranted' /\ \A q \in Requests : Handed(q)'
    <3>1. OneGranted'
      BY <2>1, <2>5 DEF SignInv, OneGranted
    <3>2. \A q \in Requests : q # r => call[q].at # "granted"
      BY <2>2, <2>5 DEF SignInv, OneGranted
    <3>3. \A q \in Requests : Handed(q)'
      <4> SUFFICES ASSUME NEW q \in Requests PROVE Handed(q)'
        OBVIOUS
      <4>1. CASE q = r
        BY <1>0, <1>n, <2>1, <2>2, <4>1 DEF Handed
      <4>2. CASE q # r
        <5>1. Handed(q) /\ call'[q].at = call[q].at /\ call'[q].gen = call[q].gen
          BY <1>i, <2>1, <2>5, <4>2
        <5>2. QED
          BY <1>0, <1>n, <2>2, <2>3, <2>5, <3>2, <4>2, <5>1 DEF Handed
      <4>3. QED
        BY <4>1, <4>2
    <3>4. QED
      BY <3>1, <3>3
  <2>6. QED
    BY <1>0, <2>2, <2>3, <2>4, <2>5, NoRequest DEF Active
<1>11. ASSUME NEW r \in Requests, RefreshDone(r) PROVE SignInv'
  <2>1. /\ \A q \in Requests : q # r => req'[q] = req[q]
        /\ req'[r].pc = "again" /\ req'[r].attempt = req[r].attempt
        /\ req'[r].cred = req[r].cred /\ req'[r].refused = req[r].refused
    BY <1>0, <1>11, PCs, MovedFields DEF RefreshDone, GoTo
  <2>2. UNCHANGED <<jar, call, issued, expired, session>>
    BY <1>11 DEF RefreshDone
  <2>3. Active => expired < jar
    <3>1. expired < call[r].gen
      BY <1>11 DEF RefreshDone, SignInv, Unexpired
    <3>2. Active => call[r].gen <= jar
      BY <1>11, <1>i DEF RefreshDone, Handed
    <3>3. QED
      BY <1>0, <1>n, <3>1, <3>2
  <2>4. ASSUME NEW q \in Requests, Active PROVE Newer(q)'
    <3>1. req[q].pc \in Waiting => req[q].refused < jar
      BY <1>0, <1>i, <1>n, <2>3, <2>4 DEF Newer
    <3>2. CASE q = r
      BY <1>11, <2>1, <2>2, <3>1, <3>2 DEF RefreshDone, Newer, Waiting, InFlight
    <3>3. CASE q # r
      BY <1>i, <2>1, <2>2, <2>4, <3>1, <3>3 DEF Newer
    <3>4. QED
      BY <3>2, <3>3
  <2>5. JarKept' /\ Unexpired' /\ SignedOutOnlyIfEnded'
    BY <2>1, <2>2 DEF SignInv, JarKept, Unexpired, SignedOutOnlyIfEnded, Active
  <2>6. Active' => OneGranted' /\ \A q \in Requests : Handed(q)'
    BY <2>2 DEF SignInv, OneGranted, Handed, Active
  <2>7. QED
    BY <2>2, <2>4, <2>5, <2>6 DEF SignInv, Active
<1>12. ASSUME NEW r \in Requests, RefreshDenied(r) \/ RefreshLost(r) PROVE SignInv'
  <2>1. PICK c \in {"ended", "failed"} : GoTo(r, c) /\ (c = "ended" => call[r].at = "denied")
    BY <1>12 DEF RefreshDenied, RefreshLost
  <2>2. /\ \A q \in Requests : q # r => req'[q] = req[q]
        /\ req'[r].pc = c
    BY <1>0, <2>1, PCs, MovedFields DEF GoTo
  <2>3. UNCHANGED <<jar, marker, call, issued, expired, session>>
    BY <1>12 DEF RefreshDenied, RefreshLost
  <2>4. Newer(r)'
    BY <2>2 DEF Newer, Waiting, InFlight
  <2>5. c = "ended" => session'.state # "active"
    BY <1>i, <2>1, <2>3 DEF Handed, Active
  <2>6. QED
    BY <2>2, <2>3, <2>4, <2>5, RequestOnly DEF Active
<1>13. ASSUME NEW r \in Requests, RefreshCheck(r) PROVE SignInv'
  <2>1. PICK a \in {"denied", "checked"} : call' = [call EXCEPT ![r].at = a]
    BY <1>13 DEF RefreshCheck
  <2>2. /\ \A q \in Requests : call'[q].gen = call[q].gen
        /\ \A q \in Requests : call'[q].at = (IF q = r THEN a ELSE call[q].at)
    BY <1>0, <2>1, CalledAt
  <2>3. UNCHANGED <<req, marker, jar, issued, expired>> /\ call[r].at = "sent"
    BY <1>13 DEF RefreshCheck
  <2>4. Active' => Active
    BY <1>13 DEF RefreshCheck, Revoke, Active
  <2>5. Active' => a = "checked"
    <3>1. Active => call[r].gen \in Generations
      BY <1>0, <1>i, <1>n, <2>3 DEF SignInv, JarKept, Handed, Generations
    <3>2. CASE call[r].gen \in Generations /\ ~(token[call[r].gen] = "live" /\ Active)
      BY <1>13, <3>2 DEF RefreshCheck, Revoke, Active
    <3>3. CASE token[call[r].gen] = "live" /\ Active /\ call[r].gen \in Generations
      <4>1. call' = [call EXCEPT ![r].at = "checked"]
        BY <1>13, <3>3 DEF RefreshCheck, Active
      <4>2. call'[r].at = "checked"
        BY <1>0, <4>1, CalledAt
      <4>3. QED
        BY <2>2, <4>2
    <3>4. QED
      BY <2>4, <3>1, <3>2, <3>3
  <2>6. Unexpired'
    BY <2>2, <2>3 DEF SignInv, Unexpired
  <2>7. ASSUME Active' PROVE OneGranted' /\ \A q \in Requests : Handed(q)'
    BY <1>i, <2>2, <2>3, <2>4, <2>5, <2>7 DEF SignInv, OneGranted, Handed
  <2>8. Active' => jar <= jar' /\ jar' <= issued'
    BY <1>0, <2>3, <2>4 DEF SignInv, JarKept
  <2>9. QED
    BY <1>0, <2>3, <2>4, <2>6, <2>7, <2>8, NoRequest
<1>14. ASSUME NEW r \in Requests, RefreshClaim(r) PROVE SignInv'
  <2>1. CASE token[call[r].gen] = "live"
    <3>1. /\ UNCHANGED <<req, marker, jar, expired, session>> /\ issued' = issued + 1
          /\ call[r].at = "checked"
          /\ call' = [call EXCEPT ![r] = [at |-> "granted", gen |-> issued + 1]]
      BY <1>14, <2>1 DEF RefreshClaim, Rotate
    <3>2. /\ \A q \in Requests : q # r => call'[q] = call[q]
          /\ call'[r].at = "granted" /\ call'[r].gen = issued + 1
      BY <1>0, <3>1
    <3>3. call[r].gen = issued
      BY <2>1, <3>1 DEF OneUsableToken, CheckedIssued
    <3>4. Active => \A q \in Requests : call[q].at # "granted"
      <4>1. Active => issued <= jar
        BY <1>0, <1>i, <3>1, <3>3 DEF Handed
      <4>2. QED
        BY <1>0, <1>i, <4>1 DEF Handed
    <3>5. Unexpired'
      <4>1. expired <= issued
        BY DEF SignInv, Unexpired
      <4>2. QED
        BY <1>0, <3>1, <3>2, <4>1 DEF SignInv, Unexpired
    <3>6. ASSUME Active PROVE OneGranted' /\ \A q \in Requests : Handed(q)'
      <4>1. OneGranted'
        BY <3>2, <3>4, <3>6 DEF OneGranted
      <4>2. jar \in 1..issued
        BY <3>6 DEF SignInv, JarKept
      <4>3. \A q \in Requests : Handed(q)'
        BY <1>0, <1>i, <3>1, <3>2, <3>4, <3>6, <4>2 DEF Handed
      <4>4. QED
        BY <4>1, <4>3
    <3>7. Active => jar <= jar' /\ jar' <= issued'
      BY <1>0, <3>1 DEF SignInv, JarKept
    <3>8. QED
      BY <1>0, <3>1, <3>5, <3>6, <3>7, NoRequest DEF Active
  <2>2. CASE token[call[r].gen] # "live"
    <3>1. /\ UNCHANGED <<req, marker, jar, expired, issued>> /\ ~Active'
          /\ call' = [call EXCEPT ![r].at = "denied"]
      BY <1>14, <2>2 DEF RefreshClaim, Revoke, Active
    <3>2. /\ \A q \in Requests : call'[q].gen = call[q].gen
          /\ \A q \in Requests : call'[q].at = (IF q = r THEN "denied" ELSE call[q].at)
      BY <1>0, <3>1, CalledAt
    <3>3. Unexpired'
      BY <3>1, <3>2 DEF SignInv, Unexpired
    <3>4. QED
      BY <1>0, <3>1, <3>3, NoRequest
  <2>3. QED
    BY <2>1, <2>2
<1>15. ASSUME NEW t \in Tabs, CloseTab(t) PROVE SignInv'
  <2>1. \A q \in Requests : req'[q] = req[q] \/ req'[q].pc = "gone"
    BY <1>0, <1>15 DEF CloseTab, RequestStates
  <2>2. UNCHANGED <<jar, marker, call, issued, expired, session>>
    BY <1>15 DEF CloseTab
  <2>3. JarKept' /\ Unexpired' /\ SignedOutOnlyIfEnded'
    BY <2>1, <2>2 DEF SignInv, JarKept, Unexpired, SignedOutOnlyIfEnded, Active
  <2>4. Active' => OneGranted' /\ \A q \in Requests : Handed(q)'
    BY <2>2 DEF SignInv, OneGranted, Handed, Active
  <2>5. ASSUME NEW q \in Requests, Active PROVE Newer(q)'
    BY <1>i, <2>1, <2>2, <2>5 DEF Newer, Renewed, Waiting, InFlight
  <2>6. QED
    BY <2>2, <2>3, <2>4, <2>5 DEF SignInv, Active
<1>16. CASE (\E t \in Tabs : Logout(t)) \/ LeaseLapses
  BY <1>16 DEF Logout, LeaseLapses, SignInv, JarKept, Unexpired, SignedOutOnlyIfEnded, Active,
               OneGranted, Handed, Newer, Renewed
<1>17. CASE AccessExpires
  <2>1. UNCHANGED <<req, marker, jar, issued, call, session>> /\ expired' = expired + 1
        /\ expired < issued
    BY <1>17 DEF AccessExpires
  <2>2. Unexpired'
    <3> SUFFICES ASSUME NEW r \in Requests, req[r].pc = "refreshing",
                        call[r].at \in {"granted", "delivered"}
                 PROVE  expired' < call[r].gen
      BY <1>0, <2>1 DEF Unexpired
    <3>1. call[r].gen # expired + 1
      BY <1>17 DEF AccessExpires
    <3>2. expired < call[r].gen
      BY DEF SignInv, Unexpired
    <3>3. QED
      BY <1>0, <1>n, <2>1, <3>1, <3>2
  <2>3. Active' => OneGranted' /\ \A q \in Requests : Handed(q)'
    BY <2>1 DEF SignInv, OneGranted, Handed, Active
  <2>4. Active => jar <= jar' /\ jar' <= issued'
    BY <1>0, <2>1 DEF SignInv, JarKept
  <2>5. QED
    BY <1>0, <2>1, <2>2, <2>3, <2>4, NoRequest DEF Active
<1>18. CASE SessionLapses \/ RevokedElsewhere \/ ServeLogout
  <2>1. UNCHANGED <<req, marker, jar, issued, call, expired>> /\ (Active' => Active)
    BY <1>18 DEF SessionLapses, RevokedElsewhere, ServeLogout, Revoke, Active
  <2>2. Unexpired' /\ (Active' => OneGranted' /\ \A q \in Requests : Handed(q)')
    BY <2>1 DEF SignInv, Unexpired, OneGranted, Handed
  <2>3. Active => jar <= jar' /\ jar' <= issued'
    BY <1>0, <2>1 DEF SignInv, JarKept
  <2>4. QED
    BY <1>0, <2>1, <2>2, <2>3, NoRequest
<1>19. CASE LogoutAnswered
  <2>1. UNCHANGED <<req, marker, issued, call, expired, session>> /\ ~Active
    BY <1>19 DEF LogoutAnswered, LoggedOut, Active
  <2>2. Unexpired'
    BY <2>1 DEF SignInv, Unexpired
  <2>3. QED
    BY <1>0, <2>1, <2>2, NoRequest DEF Active
<1>20. CASE UNCHANGED authVars
  BY <1>20 DEF authVars, SignInv, JarKept, Unexpired, SignedOutOnlyIfEnded, Active,
               OneGranted, Handed, Newer, Renewed
<1>21. QED
  BY <1>1, <1>2, <1>3, <1>4, <1>5, <1>7, <1>8, <1>9, <1>10, <1>11, <1>12, <1>13, <1>14, <1>15,
     <1>16, <1>17, <1>18, <1>19, <1>20 DEF AuthNext

\* handleAuthRedirect sends the user to the session-expired page only when the
\* server no longer has the session, or when the retry went out with newer
\* cookies that had expired too before it was served: with any number of tabs
\* and requests, lost refreshes, suspended tabs and closed tabs included.
THEOREM SignedOut == AuthSpec => []SignedOutOnlyIfEnded
<1>1. AuthInit => SignInv
  BY DEF AuthInit, SignInv, JarKept, Unexpired, SignedOutOnlyIfEnded, Active, OneGranted,
         Handed, Newer, Waiting, InFlight, None
<1>2. /\ AuthTypeOK /\ AuthTypeOK' /\ ReplayInv /\ TokenInv /\ SignInv
      /\ [AuthNext]_authVars
      => SignInv'
  BY SignStep DEF ReplayInv, TokenInv
<1>3. SignInv => SignedOutOnlyIfEnded
  BY DEF SignInv
<1> QED
  BY <1>1, <1>2, <1>3, AuthTypes, ReplayInvariant, TokenInvariant, PTL DEF AuthSpec
=============================================================================
