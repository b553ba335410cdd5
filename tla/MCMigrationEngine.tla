------------------------- MODULE MCMigrationEngine -------------------------
(***************************************************************************)
(* Model values and symmetry for model checking MigrationEngine.           *)
(***************************************************************************)
EXTENDS MigrationEngine, TLC

CONSTANTS a, b, e1, e2, save, watch

ModelPermutations == Permutations({a, b})
Permuted == Permutations({a, b}) \cup Permutations({e1, e2})
=============================================================================
