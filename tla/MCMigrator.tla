----------------------------- MODULE MCMigrator -----------------------------
(* Small instances of Migrator for TLC: a release, one with a migration    *)
(* more, and one with an ill-named file.                                   *)
EXTENDS Migrator, TLC

CONSTANTS p1, p2, p3, v1, v2

Releases == p1 :> <<v1>> @@ p2 :> <<v1, v2>> @@ p3 :> <<v1, v2, NoVersion>>

MCFiles == [p \in Procs |-> Releases[p]]

=============================================================================
