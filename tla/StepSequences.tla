---------------------------- MODULE StepSequences ----------------------------
(***************************************************************************)
(* How SqlMigration puts the steps of a migration in a row.  The operators *)
(* mean what those of the community module SequencesExt mean.  They stand  *)
(* on their own because SequencesExt brings Bags and its theorems into     *)
(* every proof about the migrations.                                       *)
(***************************************************************************)
EXTENDS Naturals, Sequences, FiniteSets, Functions

\* The elements of a finite set in some order, each one once.
SetToSeq(S) == CHOOSE s \in [1 .. Cardinality(S) -> S] : IsInjective(s)

\* The parts of ss one after the other.
FlattenSeq(ss) ==
    IF Len(ss) = 0 THEN ss ELSE
        LET joined[i \in 1 .. Len(ss)] == IF i = 1 THEN ss[i] ELSE joined[i - 1] \o ss[i]
        IN  joined[Len(ss)]

=============================================================================
