---------------------------- MODULE SqlTheorems ----------------------------
(***************************************************************************)
(* The theorems about SQL migrations.  The modules they rest on take what  *)
(* they need of one another as hypotheses: that finite sets can be listed  *)
(* (Enumerated), induction (Inductive), what holds of steps (StepFacts), of*)
(* rows (RowFacts), of plans (PlanFacts), of the live schema (LiveFacts)   *)
(* and of the execution (ExecutionFacts).  Here all are shown to hold, so  *)
(* that the theorems have no hypothesis but the database they are about.   *)
(***************************************************************************)
EXTENDS SqlDiffProofs, SqlSchemaProofs, SqlMigrationProofs, SqlRollbackProofs,
        FiniteSetTheorems, WellFoundedInduction


\* SetToSeq lists the elements of a finite set, each one once.
LEMMA SetToSeqLists ==
    ASSUME NEW S, IsFiniteSet(S)
    PROVE  /\ SetToSeq(S) \in Seq(S)
           /\ Range(SetToSeq(S)) = S
           /\ IsInjective(SetToSeq(S))
<1> DEFINE n == Cardinality(S)
           f == SetToSeq(S)
<1>1. n \in Nat /\ ExistsBijection(1 .. n, S)
  BY FS_CardinalityType, Zenon
<1>2. \E h \in [1 .. n -> S] : IsInjective(h)
  BY <1>1, Zenon DEF ExistsBijection, Bijection, Injection
<1>3. f \in [1 .. n -> S] /\ IsInjective(f)
  <2>1. f = CHOOSE h \in [1 .. n -> S] : IsInjective(h)
    BY Zenon DEF SetToSeq
  <2> HIDE DEF f, n
  <2> QED BY <1>2, <2>1, Zenon
<1>4. IsFiniteSet(1 .. n) /\ Cardinality(1 .. n) = n
  BY <1>1, FS_Interval
<1>5. f \in Surjection(1 .. n, S)
  <2>1. f \in Injection(1 .. n, S)
    BY <1>3, Zenon DEF Injection
  <2> HIDE DEF f
  <2> QED BY <1>4, <2>1, FS_Injection, Zenon
<1> HIDE DEF f, n
<1>6. f \in Seq(S) /\ DOMAIN f = 1 .. n
  BY <1>1, <1>3
<1>7. Range(f) = S
  BY <1>5, <1>6, Zenon DEF Surjection, Range
<1> QED BY <1>3, <1>6, <1>7, Zenon DEF f

\* The same, as the other modules use it.
LEMMA ListsFinite ==
    ASSUME NEW S, IsFiniteSet(S)
    PROVE  Lists(SetToSeq(S), S)
BY SetToSeqLists, Zenon DEF Lists

\* Every finite set can be listed by SetToSeq, which the differ's lists use.
LEMMA SetsEnumerated == Enumerated
<1> SUFFICES ASSUME NEW S, IsFiniteSet(S)
             PROVE  Lists(SetToSeq(S), S) /\ Cardinality(S) \in Nat /\ (Cardinality(S) = 0 => S = {})
  BY Zenon DEF Enumerated
<1>1. Lists(SetToSeq(S), S)
  BY ListsFinite, Zenon
<1>2. Cardinality(S) \in Nat /\ (Cardinality(S) = 0 => S = {})
  BY FS_CardinalityType, FS_EmptySet, Zenon
<1> QED BY <1>1, <1>2, Zenon

\* Induction over a set of numbers.
LEMMA SetInduction ==
    ASSUME NEW T, 0 \in T, \A n \in Nat : n \in T => n + 1 \in T
    PROVE  \A n \in Nat : n \in T
<1> DEFINE Less == {p \in Nat \X Nat : p[1] < p[2]}
           Rest == Nat \ T
<1>1. IsWellFoundedOn(Less, Nat)
  BY NatLessThanWellFounded, Zenon DEF OpToRel
<1>2. ASSUME Rest # {}
      PROVE  FALSE
  <2>1. PICK x \in Rest : \A y \in Rest : <<y, x>> \notin Less
    <3> HIDE DEF Less
    <3> QED BY <1>1, <1>2, WFMin, Zenon
  <2>2. x \in Nat \ {0} /\ x - 1 \in Nat /\ <<x - 1, x>> \in Less
    OBVIOUS
  <2>3. x - 1 \in T
    BY <2>1, <2>2, Zenon
  <2> QED BY <2>1, <2>3
<1> QED BY <1>2, Zenon

\* The same, as the other modules use it.
LEMMA NumbersInductive == Inductive
BY SetInduction, Zenon DEF Inductive

\* What the other proofs take for granted of single steps.
LEMMA StepsKnown == StepFacts
<1>1. FiniteSubsetFact
  BY FiniteSubset, Zenon DEF FiniteSubsetFact
<1>2. FiniteNoneFact
  BY FiniteNone, Zenon DEF FiniteNoneFact
<1>3. TableNamedFact
  BY TableNamed, Zenon DEF TableNamedFact
<1>4. FinalBaseFact
  BY FinalBase, Zenon DEF FinalBaseFact
<1>5. BothFinalFact
  BY BothFinal, Zenon DEF BothFinalFact
<1>6. StepFieldsFact
  <2>1. DropIndexFieldsFact
    BY StepFields, Zenon DEF DropIndexFieldsFact
  <2>2. DropFieldsFact
    BY StepFields, Zenon DEF DropFieldsFact
  <2>3. CreateFieldsFact
    BY StepFields, Zenon DEF CreateFieldsFact
  <2>4. AlterFieldsFact
    BY StepFields, Zenon DEF AlterFieldsFact
  <2>5. CreateIndexFieldsFact
    BY StepFields, Zenon DEF CreateIndexFieldsFact
  <2>6. RenameFieldsFact
    BY StepFields, Zenon DEF RenameFieldsFact
  <2> QED BY <2>1, <2>2, <2>3, <2>4, <2>5, <2>6, Zenon DEF StepFieldsFact
<1>7. DiffKindsFact
  BY DiffKinds, Zenon DEF DiffKindsFact
<1>8. StepShapesFact
  <2>1. DropTablesShapeFact
    BY StepShapes, Zenon DEF DropTablesShapeFact
  <2>2. CreateTableShapeFact
    BY StepShapes DEF CreateTableShapeFact
  <2>3. DropIndexShapeFact
    BY StepShapes DEF DropIndexShapeFact
  <2>4. CreateIndexShapeFact
    BY StepShapes DEF CreateIndexShapeFact
  <2>5. AlterIndexShapeFact
    BY StepShapes DEF AlterIndexShapeFact
  <2> QED BY <2>1, <2>2, <2>3, <2>4, <2>5, Zenon DEF StepShapesFact
<1>9. ChangeFieldsFact
  BY ChangeFields, Zenon DEF ChangeFieldsFact
<1>10. SwitchFieldsFact
  BY SwitchFields, Zenon DEF SwitchFieldsFact
<1>11. FixShapeFact
  BY FixShape, SetsEnumerated, Zenon DEF FixShapeFact
<1>12. RewrittenTableFact
  BY RewrittenTable, Zenon DEF RewrittenTableFact
<1>13. RenderedColumnsFact
  BY RenderedColumns, Zenon DEF RenderedColumnsFact
<1>14. CreatedTableOKFact
  BY CreatedTableOK, Zenon DEF CreatedTableOKFact
<1>15. TablesAfterIsFact
  BY TablesAfterIs, Zenon DEF TablesAfterIsFact
<1> QED
  BY <1>1, <1>2, <1>3, <1>4, <1>5, <1>6, <1>7, <1>8, <1>9, <1>10,
     <1>11, <1>12, <1>13, <1>14, <1>15, Zenon DEF StepFacts

\* What the proofs about the execution take for granted of rows.
LEMMA RowsKnown == RowFacts
<1>1. BlockShapeFact
  BY BlockShape, SetsEnumerated, Zenon DEF BlockShapeFact
<1>2. TablesStayOKFact
  BY TablesStayOK, Zenon DEF TablesStayOKFact
<1>3. RowsAfterIsFact
  BY RowsAfterIs, Zenon DEF RowsAfterIsFact
<1>4. AddedValuesFact
  BY AddedValues, Zenon DEF AddedValuesFact
<1>5. RowsStayOKFact
  BY RowsStayOK, Zenon DEF RowsStayOKFact
<1> QED
  BY <1>1, <1>2, <1>3, <1>4, <1>5, Zenon DEF RowFacts

\* What the proofs about the execution take for granted of the planned steps.
LEMMA PlansKnown == PlanFacts
BY NumbersInductive, SetsEnumerated, PlansHold, Zenon

\* What the proofs about the rollback take for granted of the live schema.
LEMMA LivesKnown == LiveFacts
<1>1. EffectiveStepsFact
  BY EffectiveSteps, SetsEnumerated, StepsKnown, Zenon DEF EffectiveStepsFact
<1>2. LiveStartFact
  BY LiveStart, SetsEnumerated, StepsKnown, Zenon DEF LiveStartFact
<1>3. LiveDropTableFact
  BY LiveDropTable, StepsKnown, Zenon DEF LiveDropTableFact
<1>4. LiveDropIndexFact
  <2> USE DEF LiveDropIndexFact
  <2> TAKE from, to, P, T, s, U
  <2> HAVE /\ Live(T, from, to, P) /\ First(P, s) /\ s \in DropIndexSteps(from, to)
           /\ s.table \in DOMAIN T /\ DOMAIN U = DOMAIN T
           /\ (\A t \in DOMAIN T : t # s.table => U[t] = T[t])
           /\ U[s.table].columns = T[s.table].columns
           /\ DOMAIN U[s.table].indices = DOMAIN T[s.table].indices \ {s.index}
  <2> HIDE DEF LiveDropIndexFact
  <2> QED BY LiveDropIndex, StepsKnown, Zenon
<1>5. LiveCreateTableFact
  <2> USE DEF LiveCreateTableFact
  <2> TAKE from, to, P, T, s, U
  <2> HAVE /\ Paired(from, to) /\ Bare(to.def) /\ Live(T, from, to, P) /\ First(P, s)
           /\ s \in CreateSteps(from, to) /\ DOMAIN U = DOMAIN T \cup {s.table}
           /\ (\A t \in DOMAIN T : t # s.table => U[t] = T[t])
           /\ U[s.table].columns = RenderColumns(s.def.columns)
           /\ DOMAIN U[s.table].indices = {}
  <2> HIDE DEF LiveCreateTableFact
  <2> QED BY LiveCreateTable, SetsEnumerated, StepsKnown, Zenon
<1>6. LiveAlterFact
  <2> USE DEF LiveAlterFact
  <2> TAKE from, to, P, T, s
  <2> HAVE /\ Paired(from, to) /\ Live(T, from, to, P) /\ First(P, s) /\ s \in AlterSteps(from, to)
           /\ ~Rewrites(s)
  <2> HIDE DEF LiveAlterFact
  <2> QED BY LiveAlter, StepsKnown, Zenon
<1>7. LiveCreateIndexFact
  BY LiveCreateIndex, StepsKnown, Zenon DEF LiveCreateIndexFact
<1>8. LiveRewriteFact
  <2> USE DEF LiveRewriteFact
  <2> TAKE from, to, P, T, s
  <2> HAVE Paired(from, to) /\ Live(T, from, to, P) /\ First(P, s) /\ Rewrites(s)
  <2> HIDE DEF LiveRewriteFact
  <2> QED BY LiveRewrite, SetsEnumerated, StepsKnown, Zenon
<1>9. LiveEndFact
  BY LiveEnd, Zenon DEF LiveEndFact
<1>10. StatementEffectFact
  BY StatementEffect, StepsKnown, Zenon DEF StatementEffectFact
<1>11. DrawnAfterFact
  BY DrawnAfter, StepsKnown, Zenon DEF DrawnAfterFact
<1>12. HistoryGrowsFact
  BY HistoryGrows, Zenon DEF HistoryGrowsFact
<1>13. HistoryShrinksFact
  BY HistoryShrinks, Zenon DEF HistoryShrinksFact
<1>14. HistoryMovesFact
  BY HistoryMoves, StepsKnown, Zenon DEF HistoryMovesFact
<1> QED
  BY <1>1, <1>2, <1>3, <1>4, <1>5, <1>6, <1>7, <1>8, <1>9, <1>10,
     <1>11, <1>12, <1>13, <1>14, Zenon DEF LiveFacts

\* What they take for granted of the execution.
LEMMA ExecutionKnown == ExecutionFacts
<1>1. KnownFiniteFact
  BY KnownFinite, PlansKnown, Zenon DEF KnownFiniteFact
<1>2. KnownEmptyFact
  BY KnownEmpty, PlansKnown, Zenon DEF KnownEmptyFact
<1>3. KnownEndsFact
  BY KnownEnds, PlansKnown, Zenon DEF KnownEndsFact
<1>4. UndoUncleanedFact
  BY UndoUncleaned, Zenon DEF UndoUncleanedFact
<1>5. MigrateTypesFact
  BY MigrateTypes, PlansKnown, Zenon DEF MigrateTypesFact
<1>6. UnapplyTypesFact
  BY UnapplyTypes, PlansKnown, Zenon DEF UnapplyTypesFact
<1>7. ExecuteTypesFact
  BY ExecuteTypes, RowsKnown, PlansKnown, Zenon DEF ExecuteTypesFact
<1>8. HereStartsFact
  BY HereStarts, PlansKnown, Zenon DEF HereStartsFact
<1>9. SqliteExecutesFact
  BY SqliteExecutes, PlansKnown, Zenon DEF SqliteExecutesFact
<1>10. HereMovesFact
  BY HereMoves, RowsKnown, PlansKnown, Zenon DEF HereMovesFact
<1>11. HereEndsFact
  BY HereEnds, RowsKnown, PlansKnown, Zenon DEF HereEndsFact
<1>12. ExecutesAtFact
  BY ExecutesAt, PlansKnown, Zenon DEF ExecutesAtFact
<1> QED
  BY <1>1, <1>2, <1>3, <1>4, <1>5, <1>6, <1>7, <1>8, <1>9, <1>10,
     <1>11, <1>12, Zenon DEF ExecutionFacts

-----------------------------------------------------------------------------
\* The rewrite of SQLite tables (fix) switches foreign keys off and on again:
\* after a migration or a rollback that ran to its end, whichever tables it
\* rewrote, they are enforced if they were enforced before it.
THEOREM ForeignKeysRestored == Spec => []ForeignKeysEnforced
<1> DEFINE I == TypesOK /\ KeysOK
<1>1. Init => I
  <2>1. Init => KeysOK
    BY Zenon DEF Init, KeysOK, ForeignKeysEnforced, AtRest
  <2> QED BY <2>1, TypesInit, PlansKnown, Zenon
<1>2. I /\ [Next]_vars => I'
  BY TypesInductive, KeysInductive, StepsKnown, RowsKnown, PlansKnown, Zenon
<1>3. I => ForeignKeysEnforced
  BY Zenon DEF KeysOK
<1> HIDE DEF I
<1> QED BY <1>1, <1>2, <1>3, PTL DEF Spec

\* On SQLite a migration that applyMigration started without force, and thus
\* without a warning of the destructive-changes checker, loses no value: all are
\* in the table or in its copy, after every statement, also when one fails.
THEOREM SqliteLosesNothing ==
    ASSUME Family = "sqlite"
    PROVE  Spec => []NoSilentLoss
<1> DEFINE I == TypesOK /\ ValuesOK
<1>1. Init => I
  <2>1. Init => ValuesOK
    BY Zenon DEF Init, ValuesOK, NoSilentLoss, AtRest
  <2> QED BY <2>1, TypesInit, PlansKnown, Zenon
<1>2. I /\ [Next]_vars => I'
  BY TypesInductive, ValuesInductive, StepsKnown, RowsKnown, PlansKnown, Zenon
<1>3. I => NoSilentLoss
  BY Zenon DEF ValuesOK
<1> HIDE DEF I
<1> QED BY <1>1, <1>2, <1>3, PTL DEF Spec

\* Both invariants hold in every state of a SQLite database.
LEMMA SchemasAlways ==
    ASSUME Family = "sqlite"
    PROVE  Spec => [](TypesOK /\ SchemasOK)
<1> DEFINE I == TypesOK /\ SchemasOK
<1>1. Init => I
  BY TypesInit, SchemasInit, PlansKnown, ExecutionKnown, Zenon
<1>2. I /\ [Next]_vars => I'
  BY TypesInductive, SchemasInductive, StepsKnown, RowsKnown, PlansKnown,
     LivesKnown, ExecutionKnown, Zenon
<1>3. Spec => []I
  <2> HIDE DEF I
  <2> QED BY <1>1, <1>2, PTL DEF Spec
<1> QED BY <1>3, Zenon

\* On SQLite a migration whose steps were all executed has led to the schema that
\* SqlSchemaCalculator::calculate makes of the datamodel, whatever the tables,
\* columns and indexes it started from and whatever failed before it.
THEOREM SqliteReachesSchema ==
    ASSUME Family = "sqlite"
    PROVE  Spec => []SchemaReached
<1>1. TypesOK /\ SchemasOK => SchemaReached
  BY ReachedMatches, StepsKnown, Zenon DEF SchemasOK, Arrives, SchemaReached
<1> QED BY <1>1, SchemasAlways, PTL

\* On SQLite the rollback that applyMigration stored with a migration leads back
\* to the schema that was introspected before it, indexes included, also after
\* the rollbacks of later migrations, unless one failed in between.
THEOREM SqliteRollbackRestores ==
    ASSUME Family = "sqlite"
    PROVE  Spec => []RollbackRestores
<1>1. TypesOK /\ SchemasOK => RollbackRestores
  BY ReachedMatches, StepsKnown, Zenon DEF SchemasOK, Arrives, RollbackRestores
<1> QED BY <1>1, SchemasAlways, PTL

\* On SQLite the database refuses no statement of a migration because of the
\* schema it meets, whatever was applied, failed or rolled back before, but those
\* that KnownRefusal names: the corrections of fix can be applied directly.
THEOREM SqliteAppliesCorrections ==
    ASSUME Family = "sqlite"
    PROVE  Spec => []CorrectionsApplicable
<1>1. TypesOK /\ SchemasOK => CorrectionsApplicable
  BY NextAccepted, StepsKnown, LivesKnown, ExecutionKnown, Zenon
<1> QED BY <1>1, SchemasAlways, PTL

=============================================================================
