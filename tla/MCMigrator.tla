----------------------------- MODULE MCMigrator ------------------------------
(* Migrator for TLC: two runners, of the same or of different binaries.      *)
EXTENDS Migrator

CONSTANTS r1, r2
MCRunners  == {r1, r2}
MCTwoKinds == [r \in MCRunners |-> IF r = r1 THEN 3 ELSE 2]
MCSame     == [r \in MCRunners |-> 2]
=============================================================================
