---------------------------- MODULE MCMigrations ----------------------------
EXTENDS Migrations, TLC

Symmetry == Permutations(Requests) \cup Permutations(Tags)
=============================================================================
