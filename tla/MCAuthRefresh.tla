--------------------------- MODULE MCAuthRefresh ----------------------------
(***************************************************************************)
(* Two tabs with one request each.  Two suffice for a refresh to race a    *)
(* second one, a logout, a revocation, a closed tab and an expired lease.  *)
(***************************************************************************)
EXTENDS AuthRefresh

CONSTANTS r1, r2, t1, t2, nobody

MCRequests == {r1, r2}
TwoTabs == {t1, t2}
MCTabOf == [r \in MCRequests |-> IF r = r1 THEN t1 ELSE t2]
=============================================================================
