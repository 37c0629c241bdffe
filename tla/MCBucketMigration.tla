------------------------- MODULE MCBucketMigration -------------------------
(***************************************************************************)
(* Small instances of BucketMigration.                                     *)
(***************************************************************************)
EXTENDS BucketMigration

Option(mode, lock, copy, grant) ==
    [mode |-> mode, lock |-> lock, copy |-> copy, grant |-> grant]

\* Without the automatic source-read grant, every pair of values of the
\* three other options.
DirectOptions == {Option("one_shot", TRUE, TRUE, FALSE),
                  Option("one_shot", FALSE, FALSE, FALSE),
                  Option("pre_sync", TRUE, FALSE, FALSE),
                  Option("pre_sync", FALSE, TRUE, FALSE)}

\* The default configuration of the form, and an immediate migration.
PreSyncLocked == {Option("pre_sync", TRUE, FALSE, FALSE)}
OneShotLocked == {Option("one_shot", TRUE, FALSE, FALSE)}
PreSyncCopying == {Option("pre_sync", TRUE, TRUE, FALSE)}
PreSyncOrGranted == {Option("pre_sync", TRUE, FALSE, FALSE), Option("one_shot", TRUE, FALSE, TRUE)}
GrantedOneShot == {Option("one_shot", TRUE, FALSE, TRUE)}
=============================================================================
