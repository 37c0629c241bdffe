----------------------- MODULE MCMigrationScheduling -----------------------
(***************************************************************************)
(* Small instances of MigrationScheduling: a migration between two         *)
(* endpoints competes with one on each of them.                            *)
(***************************************************************************)
EXTENDS MigrationScheduling, TLC

CONSTANTS w1, w2, e1, e2

Workers == {w1, w2}
Crossing == <<{e1, e2}, {e1}, {e2}>>
Shared == <<{e1}, {e1}>>
=============================================================================
