-------------------------- MODULE MCMigrationRunner --------------------------
EXTENDS MigrationRunner, TLC

\* The hand-numbered migrations up to the first with a generated timestamp.
FirstBuild == {Timeline[n] : n \in 1..20}

Symmetry == Permutations(Runners)

=============================================================================
