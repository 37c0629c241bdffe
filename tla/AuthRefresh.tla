---------------------------- MODULE AuthRefresh ----------------------------
(***************************************************************************)
(* One signed-in browser and the session it renews.                        *)
(*                                                                         *)
(* api/client.ts retries a request once after a refused access cookie;     *)
(* api/authRefreshCoordinator.ts lets one of the tabs' requests renew the  *)
(* cookies, under a Web Lock or, in browsers without them, a lease in      *)
(* local storage; auth_session_service.py gives every refresh token out    *)
(* once and revokes the whole family when one comes back.  Tabs close and  *)
(* calls are lost at any moment; the server may act on a lost call.        *)
(*                                                                         *)
(* Access and refresh tokens are issued together, so one number, the       *)
(* generation, names both; access tokens expire in the order of issue.     *)
(* A request renews at most once, which bounds the generations in TLC.     *)
(***************************************************************************)
EXTENDS Integers

CONSTANTS
    Requests,     \* the API requests of the browser's life
    Tabs,
    TabOf,        \* the tab a request belongs to
    Endings,      \* bound: how the session may end besides a replay
    Nobody        \* not a request

ASSUME RefreshAssumption ==
    /\ Nobody \notin Requests
    /\ Endings \subseteq {"lapse", "admin", "logout"}
    /\ TabOf \in [Requests -> Tabs]

VARIABLES
    webLocks,     \* navigator.locks exists
    jar,          \* generation in the cookie jar, 0 for none
    marker,       \* the completion marker: refreshes completed
    lock,         \* holder of the Web Lock
    lease,        \* the lease in local storage
    open,         \* tabs that are open
    req,          \* request in each tab
    call,         \* its call of /auth/refresh
    logout,       \* the call of /auth/logout
    token, issued, expired,   \* server: tokens, how many, access tokens expired
    session,      \* server: the AuthSession row
    abandoned, overrun    \* history: a refresh lost its client; a lease its worker

browserVars == <<webLocks, jar, marker, lock, lease, open>>
serverVars == <<token, issued, expired, session>>
historyVars == <<abandoned, overrun>>
authVars == <<browserVars, req, call, logout, serverVars, historyVars>>

None == 0
Generations == 1..issued

Settled == {"done", "failed", "ended", "gone"}
InFlight == {"sent", "accepted", "rejected"}
RequestPCs == {"idle", "again", "lockWait", "leaseLoop", "leaseRead",
               "leaseWritten", "refreshing"} \cup InFlight \cup Settled

RequestStates ==
    [pc : RequestPCs, attempt : {"first", "retry"}, cred : Nat, refused : Nat, observed : Nat]
LeaseStates == [owner : Requests \cup {Nobody}, clock : {"running", "lapsed"}]
CallStates == [at : {"none", "sent", "checked", "granted", "delivered", "denied"}, gen : Nat]

\* The types of the browser's and the server's state; every token that was
\* issued has a row, whatever is revoked meanwhile.
AuthTypeOK ==
    /\ webLocks \in BOOLEAN
    /\ marker \in Nat
    /\ lock \in Requests \cup {Nobody}
    /\ lease \in LeaseStates
    /\ open \subseteq Tabs
    /\ req \in [Requests -> RequestStates]
    /\ call \in [Requests -> CallStates]
    /\ logout \in [at : {"none", "sent", "accepted", "done", "refused"}, gen : Nat]
    /\ issued \in Nat \ {0}
    /\ token \in [Generations -> {"live", "used", "revoked"}]
    /\ expired \in Nat /\ jar \in Nat
    /\ session \in [state : {"active", "lapsed", "revoked"},
                    why : {"none", "replay", "expired", "logout", "admin"}]
    /\ abandoned \in BOOLEAN /\ overrun \in BOOLEAN

\* A browser signed in with the first generation of cookies.
AuthInit ==
    /\ webLocks \in BOOLEAN
    /\ jar = 1 /\ marker = 0 /\ lock = Nobody
    /\ lease = [owner |-> Nobody, clock |-> "running"]
    /\ open = Tabs
    /\ req = [r \in Requests |-> [pc |-> "idle", attempt |-> "first", cred |-> None,
                            refused |-> None, observed |-> 0]]
    /\ call = [r \in Requests |-> [at |-> "none", gen |-> None]]
    /\ logout = [at |-> "none", gen |-> None]
    /\ issued = 1 /\ token = [g \in 1..1 |-> "live"] /\ expired = None
    /\ session = [state |-> "active", why |-> "none"]
    /\ abandoned = FALSE /\ overrun = FALSE

GoTo(r, pc) == req' = [req EXCEPT ![r].pc = pc]

-----------------------------------------------------------------------------
(***************************************************************************)
(* The server.                                                             *)
(***************************************************************************)

\* Mutant of Revoke: the row of the newest token is lost.
RevokeForgetting(why) ==
    /\ session' = [state |-> "revoked",
                   why |-> IF session.state = "revoked" THEN session.why ELSE why]
    /\ token' = [g \in Generations \ {issued} |-> "revoked"]

\* _revoke_session_row and revoke_family: the first reason is kept, and no
\* token of the session stays usable.
Revoke(why) ==
    /\ session' = [state |-> "revoked",
                   why |-> IF session.state = "revoked" THEN session.why ELSE why]
    /\ token' = [g \in Generations |-> "revoked"]

\* The access cookie's lifetime is over.  It is of minutes, so it outlives the
\* answer that carries it, which is awaited for 8 s, and the few instructions
\* between its arrival and the completion marker.
AccessExpires ==
    /\ expired < issued
    /\ \A r \in Requests :
          req[r].pc = "refreshing" /\ call[r].at \in {"granted", "delivered"}
              => call[r].gen # expired + 1
    /\ expired' = expired + 1
    /\ UNCHANGED <<browserVars, req, call, logout, token, issued, session, historyVars>>

\* idle_expires_at or absolute_expires_at has passed; no row changes yet.
SessionLapses ==
    /\ session.state = "active" /\ "lapse" \in Endings
    /\ session' = [session EXCEPT !.state = "lapsed"]
    /\ UNCHANGED <<browserVars, req, call, logout, token, issued, expired, historyVars>>

\* Revocation from elsewhere: another device, an administrator, a password
\* change (revoke_for_user, revoke_all_for_user).
RevokedElsewhere ==
    /\ session.state # "revoked" /\ "admin" \in Endings
    /\ Revoke("admin")
    /\ UNCHANGED <<browserVars, req, call, logout, issued, expired, historyVars>>

\* validate_access_token on an API request; a lapsed session is revoked here.
Serve(r) ==
    /\ req[r].pc = "sent"
    /\ LET unexpired == req[r].cred > expired IN
       /\ GoTo(r, IF unexpired /\ session.state = "active" THEN "accepted" ELSE "rejected")
       /\ IF unexpired /\ session.state = "lapsed" THEN Revoke("expired")
                                                   ELSE UNCHANGED <<session, token>>
    /\ UNCHANGED <<browserVars, call, logout, issued, expired, historyVars>>

\* _require_refresh_token and _require_refresh_principal: a cookie that is
\* missing or unknown is refused and changes nothing.
RefreshCheck(r) ==
    /\ call[r].at = "sent"
    /\ \/ /\ call[r].gen \notin Generations
          /\ call' = [call EXCEPT ![r].at = "denied"]
          /\ UNCHANGED <<session, token>>
       \/ /\ call[r].gen \in Generations /\ token[call[r].gen] # "live"
          /\ call' = [call EXCEPT ![r].at = "denied"]
          /\ Revoke("replay")
       \/ /\ call[r].gen \in Generations /\ token[call[r].gen] = "live"
          /\ IF session.state = "active"
             THEN /\ call' = [call EXCEPT ![r].at = "checked"]
                  /\ UNCHANGED <<session, token>>
             ELSE /\ call' = [call EXCEPT ![r].at = "denied"]
                  /\ Revoke("expired")
    /\ UNCHANGED <<browserVars, req, logout, issued, expired, historyVars>>

\* The token is used, and the next one of its family issued.
Rotate(gen) ==
    /\ issued' = issued + 1
    /\ token' = [g \in 1..(issued + 1) |->
          IF g = issued + 1 THEN "live" ELSE IF g = gen THEN "used" ELSE token[g]]

\* Mutant of RefreshClaim: the UPDATE has no condition on used_at.
RefreshClaimUnconditional(r) ==
    /\ call[r].at = "checked"
    /\ Rotate(call[r].gen)
    /\ call' = [call EXCEPT ![r] = [at |-> "granted", gen |-> issued + 1]]
    /\ UNCHANGED <<browserVars, req, logout, expired, session, historyVars>>

\* _claim_refresh_token and _issue_rotated_credentials: one transaction.
RefreshClaim(r) ==
    /\ call[r].at = "checked"
    /\ \/ /\ token[call[r].gen] = "live"
          /\ Rotate(call[r].gen)
          /\ call' = [call EXCEPT ![r] = [at |-> "granted", gen |-> issued + 1]]
          /\ UNCHANGED session
       \/ /\ token[call[r].gen] # "live"
          /\ Revoke("replay")
          /\ call' = [call EXCEPT ![r].at = "denied"]
          /\ UNCHANGED issued
    /\ UNCHANGED <<browserVars, req, logout, expired, historyVars>>

\* logout: the CSRF token sent with the cookies must be the session's, which
\* every refresh replaces.
ServeLogout ==
    /\ logout.at = "sent"
    /\ \/ /\ logout.gen = issued
          /\ Revoke("logout")
          /\ logout' = [logout EXCEPT !.at = "accepted"]
       \/ /\ logout.gen # issued
          /\ logout' = [logout EXCEPT !.at = "refused"]
          /\ UNCHANGED <<session, token>>
    /\ UNCHANGED <<browserVars, req, call, issued, expired, historyVars>>

-----------------------------------------------------------------------------
(***************************************************************************)
(* The browser.                                                            *)
(***************************************************************************)

\* fetch: the cookies of this moment go with the request.
Send(r) ==
    /\ req[r].pc \in {"idle", "again"} /\ TabOf[r] \in open
    /\ req' = [req EXCEPT ![r] =
          [pc |-> "sent", attempt |-> IF req[r].pc = "again" THEN "retry" ELSE "first",
           cred |-> jar, refused |-> req[r].refused, observed |-> req[r].observed]]
    /\ UNCHANGED <<browserVars, call, logout, serverVars, historyVars>>

Accepted(r) ==
    /\ req[r].pc = "accepted"
    /\ GoTo(r, "done")
    /\ UNCHANGED <<browserVars, call, logout, serverVars, historyVars>>

\* Aborted, timed out or not answered
FetchFails(r) ==
    /\ req[r].pc \in InFlight
    /\ GoTo(r, "failed")
    /\ UNCHANGED <<browserVars, call, logout, serverVars, historyVars>>

\* A first refusal: coordinateAuthRefresh reads the marker and waits its turn.
Refused(r) ==
    /\ req[r].pc = "rejected" /\ req[r].attempt = "first"
    /\ req' = [req EXCEPT ![r] =
          [pc |-> IF webLocks THEN "lockWait" ELSE "leaseLoop", attempt |-> "first",
           cred |-> req[r].cred, refused |-> req[r].cred, observed |-> marker]]
    /\ UNCHANGED <<browserVars, call, logout, serverVars, historyVars>>

\* The retried request was refused too: handleAuthRedirect.
RefusedAgain(r) ==
    /\ req[r].pc = "rejected" /\ req[r].attempt = "retry"
    /\ GoTo(r, "ended")
    /\ UNCHANGED <<browserVars, call, logout, serverVars, historyVars>>

\* Mutant of Renewed: a marker that has not moved counts as a refresh.
RenewedAlready(r) == marker >= req[r].observed

\* executeIfNeeded: somebody completed a refresh since the refusal.
Renewed(r) == marker > req[r].observed

\* executeIfNeeded: the refresh is sent with the cookie of this moment.
StartRefresh(r) ==
    /\ GoTo(r, "refreshing")
    /\ call' = [call EXCEPT ![r] = [at |-> "sent", gen |-> jar]]

\* The lock manager grants the exclusive lock; a holder that need not refresh
\* gives it back at once.
TakeLock(r) ==
    /\ req[r].pc = "lockWait" /\ lock = Nobody
    /\ \/ Renewed(r) /\ GoTo(r, "again") /\ UNCHANGED <<lock, call>>
       \/ ~Renewed(r) /\ StartRefresh(r) /\ lock' = r
    /\ UNCHANGED <<webLocks, jar, marker, lease, open, logout,
                   serverVars, historyVars>>

LeaseFree == lease.owner = Nobody \/ lease.clock = "lapsed"

\* One turn of the polling loop that finds the marker moved or the lease free
ReadLease(r) ==
    /\ req[r].pc = "leaseLoop"
    /\ \/ Renewed(r) /\ GoTo(r, "again")
       \/ ~Renewed(r) /\ LeaseFree /\ GoTo(r, "leaseRead")
    /\ UNCHANGED <<browserVars, call, logout, serverVars, historyVars>>

WriteLease(r) ==
    /\ req[r].pc = "leaseRead"
    /\ lease' = [owner |-> r, clock |-> "running"]
    /\ GoTo(r, "leaseWritten")
    /\ UNCHANGED <<webLocks, jar, marker, lock, open, call, logout,
                   serverVars, historyVars>>

DropLease == lease' = [owner |-> Nobody, clock |-> "running"]

\* Mutant of ConfirmLease: what was written is not read back.
ConfirmLeaseUnread(r) ==
    /\ req[r].pc = "leaseWritten"
    /\ \/ Renewed(r) /\ GoTo(r, "again") /\ DropLease /\ UNCHANGED call
       \/ ~Renewed(r) /\ StartRefresh(r) /\ UNCHANGED lease
    /\ UNCHANGED <<webLocks, jar, marker, lock, open, logout,
                   serverVars, historyVars>>

\* After AUTH_REFRESH_WAIT_MS the lease is read back; the wait is longer than
\* the few instructions between another tab's read and its write.
ConfirmLease(r) ==
    /\ req[r].pc = "leaseWritten"
    /\ \A q \in Requests : req[q].pc # "leaseRead"
    /\ \/ lease.owner # r /\ GoTo(r, "leaseLoop") /\ UNCHANGED <<lease, call>>
       \/ lease.owner = r /\ Renewed(r) /\ GoTo(r, "again") /\ DropLease /\ UNCHANGED call
       \/ lease.owner = r /\ ~Renewed(r) /\ StartRefresh(r) /\ UNCHANGED lease
    /\ UNCHANGED <<webLocks, jar, marker, lock, open, logout,
                   serverVars, historyVars>>

\* AUTH_REFRESH_LEASE_MS (12 s) have passed.  The refresh times out after 8 s,
\* so a lease outlives its worker unless the tab is suspended meanwhile; bound:
\* one suspension.
LeaseLapses ==
    /\ lease.owner # Nobody /\ lease.clock = "running"
    /\ lease' = [lease EXCEPT !.clock = "lapsed"]
    /\ LET suspended == req[lease.owner].pc \in {"leaseWritten", "refreshing"} IN
       /\ suspended => ~overrun
       /\ overrun' = (overrun \/ suspended)
    /\ UNCHANGED <<webLocks, jar, marker, lock, open, req, call, logout,
                   serverVars, abandoned>>

\* Mutant of LeaveTurn: the Web Lock is not given back.
LeaveTurnLocked ==
    IF webLocks THEN UNCHANGED <<lock, lease>> ELSE DropLease /\ UNCHANGED lock

\* The end of the exclusive section: the lock is given back, the lease removed
\* whoever wrote it.
LeaveTurn ==
    IF webLocks THEN lock' = Nobody /\ UNCHANGED lease ELSE DropLease /\ UNCHANGED lock

\* The browser stores the new cookies.
CookiesArrive(r) ==
    /\ req[r].pc = "refreshing" /\ call[r].at = "granted"
    /\ jar' = call[r].gen
    /\ call' = [call EXCEPT ![r].at = "delivered"]
    /\ UNCHANGED <<webLocks, marker, lock, lease, open, req, logout,
                   serverVars, historyVars>>

\* markComplete, and the request is sent again
RefreshDone(r) ==
    /\ req[r].pc = "refreshing" /\ call[r].at = "delivered"
    /\ marker' = marker + 1
    /\ LeaveTurn
    /\ GoTo(r, "again")
    /\ UNCHANGED <<webLocks, jar, open, call, logout,
                   serverVars, historyVars>>

\* 401, 403 or 419 from /auth/refresh.  The HTTPException drops the response
\* on which the cookies were cleared, so the jar keeps them.
RefreshDenied(r) ==
    /\ req[r].pc = "refreshing" /\ call[r].at = "denied"
    /\ LeaveTurn
    /\ GoTo(r, "ended")
    /\ UNCHANGED <<webLocks, jar, marker, open, call, logout, serverVars, historyVars>>

\* Timeout, lost connection or another status: not an expired session.
RefreshLost(r) ==
    /\ req[r].pc = "refreshing"
    /\ LeaveTurn
    /\ GoTo(r, "failed")
    /\ abandoned' = TRUE
    /\ UNCHANGED <<webLocks, jar, marker, open, call, logout,
                   serverVars, overrun>>

\* The page goes away, with everything it was doing; the browser gives back
\* its lock, and its lease stays in the storage.
CloseTab(t) ==
    /\ t \in open
    /\ LET mine == {r \in Requests : TabOf[r] = t /\ req[r].pc \notin Settled} IN
       /\ req' = [r \in Requests |-> IF r \in mine THEN [req[r] EXCEPT !.pc = "gone"] ELSE req[r]]
       /\ lock' = IF lock \in mine THEN Nobody ELSE lock
       /\ abandoned' = (abandoned \/ \E r \in mine : req[r].pc = "refreshing")
    /\ open' = open \ {t}
    /\ UNCHANGED <<webLocks, jar, marker, lease, call, logout, serverVars, overrun>>

\* Layout's logout: the call is not awaited.
Logout(t) ==
    /\ t \in open /\ logout.at = "none" /\ jar # None /\ "logout" \in Endings
    /\ logout' = [at |-> "sent", gen |-> jar]
    /\ UNCHANGED <<webLocks, jar, marker, lock, lease, open, req, call,
                   serverVars, historyVars>>

\* The answer clears the cookies.
LogoutAnswered ==
    /\ logout.at = "accepted"
    /\ logout' = [logout EXCEPT !.at = "done"]
    /\ jar' = None
    /\ UNCHANGED <<webLocks, marker, lock, lease, open, req, call,
                   serverVars, historyVars>>

-----------------------------------------------------------------------------
\* What the code does by itself once it is running
RequestStep(r) ==
    \/ Serve(r) \/ Accepted(r) \/ Refused(r) \/ RefusedAgain(r)
    \/ TakeLock(r) \/ ReadLease(r) \/ WriteLease(r) \/ ConfirmLease(r)
    \/ CookiesArrive(r) \/ RefreshDone(r) \/ RefreshDenied(r)
    \/ (req[r].pc = "again" /\ Send(r))

ServerStep(r) == RefreshCheck(r) \/ RefreshClaim(r)

AuthNext ==
    \/ \E r \in Requests :
          \/ Send(r) \/ Serve(r) \/ Accepted(r) \/ FetchFails(r) \/ Refused(r) \/ RefusedAgain(r)
          \/ TakeLock(r) \/ ReadLease(r) \/ WriteLease(r) \/ ConfirmLease(r)
          \/ CookiesArrive(r) \/ RefreshDone(r) \/ RefreshDenied(r) \/ RefreshLost(r)
          \/ RefreshCheck(r) \/ RefreshClaim(r)
    \/ \E t \in Tabs : CloseTab(t) \/ Logout(t)
    \/ LeaseLapses \/ AccessExpires \/ SessionLapses \/ RevokedElsewhere
    \/ ServeLogout \/ LogoutAnswered

AuthSpec == AuthInit /\ [][AuthNext]_authVars

(***************************************************************************)
(* Fairness: scripts run, the server answers, timeouts fire (a refresh     *)
(* that is not answered is lost), leases expire with the clock.  The lock  *)
(* manager grants in the order of the requests, and polls come round, so a *)
(* request that finds the lock or the lease free again and again gets it:  *)
(* strong fairness.                                                        *)
(***************************************************************************)
AuthFairness ==
    /\ \A r \in Requests :
          /\ WF_authVars(RequestStep(r))
          /\ WF_authVars(ServerStep(r))
          /\ WF_authVars(RefreshLost(r))
          /\ SF_authVars(TakeLock(r))
          /\ SF_authVars(ReadLease(r))
          /\ SF_authVars(ConfirmLease(r))
    /\ WF_authVars(LeaseLapses)

FairAuthSpec == AuthSpec /\ AuthFairness

-----------------------------------------------------------------------------
(***************************************************************************)
(* Properties                                                              *)
(***************************************************************************)

\* A token family has at most one usable refresh token, the newest, and none
\* once the session is revoked, however refreshes, replays and revocations
\* interleave (the conditional UPDATE of _claim_refresh_token).
OneUsableToken ==
    \A g \in Generations :
        token[g] = "live" => g = issued /\ session.state # "revoked"

\* A browser never revokes its own session by replaying a token, unless a
\* refresh lost its client half way (timeout, closed tab) or a suspended tab
\* outlived its lease: the coordinator serialises refreshes across tabs.
NoSelfReplay ==
    session.why = "replay" => abandoned \/ overrun

\* A user is sent to the session-expired page only when the server no longer
\* has the session, or when the retry went out with newer cookies and those
\* had expired too before it was served; a request that was only unlucky in
\* its order with other tabs, or cannot reach the server, does not do it.
SignedOutOnlyIfEnded ==
    \A r \in Requests :
        req[r].pc = "ended" =>
            \/ session.state # "active"
            \/ req[r].attempt = "retry" /\ req[r].cred > req[r].refused /\ req[r].cred <= expired

\* Every request comes to an end: no tab waits for ever for a lock or a lease
\* whose holder was closed, timed out or was refused.
RequestsSettle ==
    \A r \in Requests : (req[r].pc = "sent") ~> (req[r].pc \in Settled)

\* A logout the server has handled has ended the session
\* (authentication.md: logout is database-enforced).
LogoutEndsSession ==
    logout.at \in {"done", "refused"} => session.state = "revoked"
=============================================================================
