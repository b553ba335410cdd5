-------------------------- MODULE SqlRollbackProofs -------------------------
(***************************************************************************)
(* On SQLite a migration leads to the schema of its datamodel by           *)
(* statements that the database accepts, and its rollback back to the      *)
(* schema before it, for every set of models and datamodels and any number *)
(* of migrations.                                                          *)
(***************************************************************************)
EXTENDS SqlSchemas, TLAPS

\* Time for the provers.
USE SMTT(60)

-----------------------------------------------------------------------------
(* What is known of live tables; SqlSchemaProofs proves it.                *)

\* Every step has statements, but for an index of a table that is rewritten.
EffectiveStepsFact ==
    \A from, to : \A s \in DiffSteps(from, to) :
        Paired(from, to) =>
            s \in Effective(from, to) <=> ~(s.step = "CreateIndex" /\ s.table \in FixedTables(from, to))

\* Before the first step the schema is the one that was introspected.
LiveStartFact ==
    \A from, to, T :
        Paired(from, to) /\ Matches(T, from.def) =>
            Live(T, from, to, Effective(from, to))

\* DROP TABLE.
LiveDropTableFact ==
    \A from, to, P, T, s :
        Live(T, from, to, P) /\ First(P, s) /\ s \in DropSteps(from, to) =>
            Live(Without(T, s.names), from, to, P \ {s}) /\ s.names \subseteq DOMAIN T

\* DROP INDEX.
LiveDropIndexFact ==
    \A from, to, P, T, s, U :
        (/\ Live(T, from, to, P) /\ First(P, s) /\ s \in DropIndexSteps(from, to)
         /\ s.table \in DOMAIN T /\ DOMAIN U = DOMAIN T
         /\ (\A t \in DOMAIN T : t # s.table => U[t] = T[t])
         /\ U[s.table].columns = T[s.table].columns
         /\ DOMAIN U[s.table].indices = DOMAIN T[s.table].indices \ {s.index}) =>
            Live(U, from, to, P \ {s})

\* CREATE TABLE.
LiveCreateTableFact ==
    \A from, to, P, T, s, U :
        (/\ Paired(from, to) /\ Bare(to.def) /\ Live(T, from, to, P) /\ First(P, s)
         /\ s \in CreateSteps(from, to) /\ DOMAIN U = DOMAIN T \cup {s.table}
         /\ (\A t \in DOMAIN T : t # s.table => U[t] = T[t])
         /\ U[s.table].columns = RenderColumns(s.def.columns)
         /\ DOMAIN U[s.table].indices = {}) =>
            Live(U, from, to, P \ {s}) /\ s.table \notin DOMAIN T

\* SQLite's ALTER TABLE, which only adds columns that may be NULL.
LiveAlterFact ==
    \A from, to, P, T, s :
        (/\ Paired(from, to) /\ Live(T, from, to, P) /\ First(P, s) /\ s \in AlterSteps(from, to)
         /\ ~Rewrites(s)) =>
            /\ s.table \in DOMAIN T /\ s.table \in DOMAIN to.def /\ s.drop \cup s.alter = {}
            /\ T[s.table].columns = RenderColumns(from.def[s.table].columns)
            /\ s.add \cap DOMAIN T[s.table].columns = {}
            /\ \A U : Exchanged(T, U, s.table, AlteredColumns(T[s.table], s), DOMAIN T[s.table].indices)
                      => Live(U, from, to, P \ {s})

\* CREATE INDEX.
LiveCreateIndexFact ==
    \A from, to, P, T, s :
        (/\ Paired(from, to) /\ Live(T, from, to, P) /\ First(P, s)
         /\ s \in CreateIndexSteps(from, to)) =>
            /\ Creatable(T, to, s)
            /\ \A U : Exchanged(T, U, s.table, T[s.table].columns,
                                DOMAIN T[s.table].indices \cup {s.index})
                      => Live(U, from, to, P \ {s})

\* fix(): a table made anew.
LiveRewriteFact ==
    \A from, to, P, T, s :
        Paired(from, to) /\ Live(T, from, to, P) /\ First(P, s) /\ Rewrites(s) =>
            /\ s.table \in DOMAIN T /\ s.table \in Both(from, to)
            /\ DOMAIN T \subseteq DOMAIN to.def
            /\ T[s.table].columns \in {RenderColumns(from.def[s.table].columns),
                                       RenderColumns(to.def[s.table].columns)}
            /\ \A U : Exchanged(T, U, s.table, RenderColumns(to.def[s.table].columns),
                                DOMAIN to.def[s.table].indices)
                      => Live(U, from, to, P \ {s})

\* When no step is pending, the schema is the new one.
LiveEndFact ==
    \A from, to, T :
        Live(T, from, to, {}) =>
            Matches(T, to.def)

\* What a statement does to the tables, as far as Live() tells them apart.
StatementEffectFact ==
    \A s :
        DefOK(tables) /\ StepOK(s) /\ Accepts(s) =>
            /\ s.step = "CreateTable" =>
                  /\ DOMAIN TablesAfter(s) = DOMAIN tables \cup {s.table}
                  /\ \A t \in DOMAIN tables : t # s.table => TablesAfter(s)[t] = tables[t]
                  /\ TablesAfter(s)[s.table].columns = RenderColumns(s.def.columns)
                  /\ DOMAIN TablesAfter(s)[s.table].indices = {}
            /\ s.step = "AlterTable" =>
                  Exchanged(tables, TablesAfter(s), s.table, AlteredColumns(tables[s.table], s),
                            DOMAIN AlteredIndices(tables[s.table], s))
            /\ s.step = "CreateIndex" =>
                  Exchanged(tables, TablesAfter(s), s.table, tables[s.table].columns,
                            DOMAIN tables[s.table].indices \cup {s.index})
            /\ s.step = "DropIndex" =>
                  Exchanged(tables, TablesAfter(s), s.table, tables[s.table].columns,
                            DOMAIN tables[s.table].indices \ {s.index})

\* Every statement leaves tables as the database describes them.
DrawnAfterFact ==
    \A h :
        (/\ DefOK(tables) /\ StepOK(h) /\ Accepts(h) /\ Drawn(tables) /\ h.step # "AlterIndex"
         /\ (h.step = "CreateIndex" => h.table \notin Temporaries)
         /\ (h.step = "RenameTable" => h.new \notin Temporaries)) =>
            Drawn(TablesAfter(h))

\* A migration that succeeded becomes the last one.
HistoryGrowsFact ==
    \A X : \A u \in Seq(X) : \A g, def :
        History(u, g.before.def) /\ GoalBare(g) /\ g.clean /\ Matches(def, g.after.def) =>
            History(<<g>> \o u, def)

\* The last migration is taken from the others.
HistoryShrinksFact ==
    \A X : \A u \in Seq(X) : \A def :
        u # <<>> /\ History(u, def) =>
            /\ History(Tail(u), u[1].before.def)
            /\ Tail(u) # <<>> /\ Tail(u)[1].clean => u[1].clean
            /\ u[1].clean => Matches(def, u[1].after.def)
            /\ GoalBare(u[1])

\* The schema is the one the last migration led to, but rendered once more.
HistoryMovesFact ==
    \A u, X, a, b :
        (/\ (\A k \in DOMAIN u : GoalOK(u[k])) /\ u \in Seq(X) /\ Matches(a, b)
         /\ History(u, b)) =>
            History(u, a)

\* All of it.
LiveFacts ==
    /\ EffectiveStepsFact /\ LiveStartFact /\ LiveDropTableFact /\ LiveDropIndexFact
    /\ LiveCreateTableFact /\ LiveAlterFact /\ LiveCreateIndexFact /\ LiveRewriteFact
    /\ LiveEndFact /\ StatementEffectFact /\ DrawnAfterFact /\ HistoryGrowsFact
    /\ HistoryShrinksFact /\ HistoryMovesFact

-----------------------------------------------------------------------------
(* What is known of the execution; SqlMigrationProofs proves it.           *)

\* Finite sets can be listed.
KnownFiniteFact ==
    Enumerated

\* The empty schema.
KnownEmptyFact ==
    /\ SchemaOK(Schema(<<>>, <<>>))
    /\ Schema(<<>>, <<>>).def = <<>>
    /\ DOMAIN Schema(<<>>, <<>>).def = {}

\* The first and the last statement of SQLite.
KnownEndsFact ==
    \A from, to :
        Family = "sqlite" /\ SchemaOK(from) /\ SchemaOK(to) =>
            /\ Len(CorrectedSteps(from, to)) \in Nat
            /\ \E X : CorrectedSteps(from, to) \in Seq(X)
            /\ Calm(from, to, 1) /\ Todo(from, to, 1) = Effective(from, to)
            /\ Todo(from, to, Len(CorrectedSteps(from, to)) + 1) = {}
            /\ \A n \in 1 .. Len(CorrectedSteps(from, to)) : \E s, j : Current(from, to, n, s, j)

\* The stored migrations, marked as no longer to be relied on after a failure.
UndoUncleanedFact ==
    \A u :
        (\E X : u \in Seq(X)) /\ (\A k \in DOMAIN u : GoalOK(u[k])) =>
            /\ \E X : Unclean(u) \in Seq(X)
            /\ DOMAIN Unclean(u) = DOMAIN u
            /\ \A k \in DOMAIN u : GoalOK(Unclean(u)[k]) /\ ~Unclean(u)[k].clean

\* applyMigration keeps them and starts with the first statement.
MigrateTypesFact ==
    \A dm \in project : \A force :
        TypesOK /\ Migrate(dm, force) =>
            /\ TypesOK'
            /\ Remaining(goal', steps', 1)
            /\ goal'.before.def = tables

\* unapplyMigration, too.
UnapplyTypesFact ==
    TypesOK /\ Unapply =>
        /\ TypesOK'
        /\ Remaining(goal', steps', 1)

\* A statement keeps them and leads to the next one.
ExecuteTypesFact ==
    TypesOK /\ ExecuteStep =>
        /\ TypesOK'
        /\ StepOK(Head(steps)) /\ Accepts(Head(steps))
        /\ UNCHANGED <<status, goal, undo, kept>>
        /\ \E n : /\ Remaining(goal, steps, n) /\ Remaining(goal, steps', n + 1)
                  /\ n \in 1 .. Len(Program(goal)) /\ Head(steps) = Program(goal)[n]

\* It starts with the first one.
HereStartsFact ==
    TypesOK' /\ Remaining(goal', steps', 1) =>
        Here' = 1

\* On SQLite every remaining statement belongs to a step of the differ.
SqliteExecutesFact ==
    Family = "sqlite" /\ TypesOK /\ ~AtRest /\ steps # <<>> =>
        \E s, j : Executes(s, j)

\* It moves by one.
HereMovesFact ==
    TypesOK /\ ExecuteStep =>
        Here' = Here + 1 /\ Here \in Nat /\ goal' = goal

\* At the end nothing is left to do.
HereEndsFact ==
    Family = "sqlite" /\ TypesOK /\ ~AtRest /\ steps = <<>> =>
        /\ Todo(goal.before, goal.after, Here) = {}
        /\ Calm(goal.before, goal.after, Here)

\* That step is the one the position tells.
ExecutesAtFact ==
    \A s, j :
        (/\ Family = "sqlite" /\ TypesOK /\ ~AtRest /\ steps # <<>>
         /\ Current(goal.before, goal.after, Here, s, j)) =>
            Executes(s, j)

\* All of it.
ExecutionFacts ==
    /\ KnownFiniteFact /\ KnownEmptyFact /\ KnownEndsFact /\ UndoUncleanedFact
    /\ MigrateTypesFact /\ UnapplyTypesFact /\ ExecuteTypesFact /\ HereStartsFact
    /\ SqliteExecutesFact /\ HereMovesFact /\ HereEndsFact /\ ExecutesAtFact

-----------------------------------------------------------------------------
(* The rewrite of a table, statement by statement.                         *)

\* Table x as fix() makes it, with the indexes I.
Made(d, to, x, I) == d.columns = RenderColumns(to.def[x].columns) /\ DOMAIN d.indices = I

\* The indexes that exist before the j-th statement of a rewrite.
MadeIndexes(to, x, j) == {IndexList(to.def[x])[i] : i \in 1 .. j - 6}

\* The tables T, next to those, U, before the rewrite of x: a new table beside
\* the old one, instead of it, and under its name.
Beside(T, U, to, x) ==
    /\ Temporary(x) \notin DOMAIN U
    /\ DOMAIN T = DOMAIN U \cup {Temporary(x)} /\ \A t \in DOMAIN U : T[t] = U[t]
    /\ Made(T[Temporary(x)], to, x, {})

Instead(T, U, to, x) ==
    /\ Temporary(x) \notin DOMAIN U
    /\ DOMAIN T = (DOMAIN U \ {x}) \cup {Temporary(x)} /\ \A t \in DOMAIN U \ {x} : T[t] = U[t]
    /\ Made(T[Temporary(x)], to, x, {})

Replaced(T, U, to, x, I) ==
    /\ DOMAIN T = DOMAIN U /\ \A t \in DOMAIN U \ {x} : T[t] = U[t]
    /\ Made(T[x], to, x, I)

\* The live tables T before the j-th statement of the rewrite of x.
RewriteOn(T, from, to, P, x, j) ==
    \E U : /\ Live(U, from, to, P)
           /\ \/ j = 2 /\ T = U
              \/ (j = 3 \/ j = 4) /\ Beside(T, U, to, x)
              \/ j = 5 /\ Instead(T, U, to, x)
              \/ j \in Nat /\ j > 5 /\ Replaced(T, U, to, x, MadeIndexes(to, x, j))

\* The stages of a rewrite.
LEMMA RewriteStages ==
    ASSUME NEW T, NEW from, NEW to, NEW P, NEW x
    PROVE  /\ RewriteOn(T, from, to, P, x, 2) <=> Live(T, from, to, P)
           /\ RewriteOn(T, from, to, P, x, 3) <=> \E U : Live(U, from, to, P) /\ Beside(T, U, to, x)
           /\ RewriteOn(T, from, to, P, x, 4) <=> \E U : Live(U, from, to, P) /\ Beside(T, U, to, x)
           /\ RewriteOn(T, from, to, P, x, 5) <=> \E U : Live(U, from, to, P) /\ Instead(T, U, to, x)
           /\ \A j \in Nat : j > 5 =>
                (RewriteOn(T, from, to, P, x, j) <=>
                    \E U : Live(U, from, to, P) /\ Replaced(T, U, to, x, MadeIndexes(to, x, j)))
BY DEF RewriteOn

\* Every statement of a rewrite leads to the next stage.
LEMMA RewriteLive ==
    ASSUME StepFacts, LiveFacts, Enumerated, DefOK(tables), NEW from, NEW to, Paired(from, to), NEW P, NEW s, First(P, s), Rewrites(s),
           NEW x, x = s.table, x \in FinalTables,
           NEW STATE h, NEW j, Rewriting(from, to, x, j, h), StepOK(h), Accepts(h),
           NEW L, L \in Nat, L = Len(IndexList(to.def[x])),
           Lists(IndexList(to.def[x]), DOMAIN to.def[x].indices),
           \/ j = 1 /\ Live(tables, from, to, P)
           \/ j # 1 /\ RewriteOn(tables, from, to, P, x, j)
    PROVE  /\ j < L + 6 => RewriteOn(TablesAfter(h), from, to, P, x, j + 1)
           /\ j = L + 6 => Live(TablesAfter(h), from, to, P \ {s})
<1> DEFINE N == Temporary(x)
           R == TablesAfter(h)
           next == to.def[x]
           q == IndexList(to.def[x])
<1>0. N \notin FinalTables /\ x # N /\ DefOK(tables)
  BY TableAssumption, Zenon DEF Temporaries
<1> HIDE DEF N
<1>1. CASE j = 1 /\ h = SwitchOff
  <2>1. h.step = "ForeignKeys"
    BY <1>1, Zenon DEF StepFacts, SwitchFieldsFact
  <2>2. R = tables
    BY <1>0, <2>1, Zenon DEF StepFacts, TablesAfterIsFact
  <2>3. Live(tables, from, to, P)
    BY <1>1, Zenon
  <2>4. RewriteOn(tables, from, to, P, x, 2)
    BY <2>3, RewriteStages, Zenon
  <2> QED BY <1>1, <2>2, <2>4
<1>2. CASE j = 2 /\ h = CreateTable(Temporary(x), [to.def[x] EXCEPT !.indices = NoIndices])
  <2> DEFINE d == [next EXCEPT !.indices = NoIndices]
             e == [d EXCEPT !.columns = RenderColumns(@), !.indices = NoIndices]
  <2>1. h.step = "CreateTable" /\ h.table = N /\ h.def = d
    BY <1>2, Zenon DEF CreateTable, N
  <2>2. TableOK(N, d)
    BY <2>1, Zenon DEF StepOK
  <2>3. R = With(tables, N, e)
    BY <1>0, <2>1, Zenon DEF StepFacts, TablesAfterIsFact
  <2>4. e.columns = RenderColumns(d.columns) /\ e.indices = NoIndices
    <3> HIDE DEF d
    <3> QED BY <2>2, Zenon DEF StepFacts, CreatedTableOKFact
  <2>5. d.columns = next.columns
    BY <2>2, Zenon DEF TableOK
  <2>6. Made(e, to, x, {})
    BY <2>4, <2>5, Zenon DEF Made, StepFacts, FiniteNoneFact
  <2>7. N \notin DOMAIN tables
    BY <2>1, Zenon DEF Accepts
  <2>8. Live(tables, from, to, P)
    BY <1>2, RewriteStages, Zenon
  <2> HIDE DEF e
  <2>9. /\ DOMAIN R = DOMAIN tables \cup {N} /\ R[N] = e
        /\ \A t \in DOMAIN tables : R[t] = tables[t]
    BY <2>3, <2>7, Zenon DEF With
  <2> HIDE DEF R
  <2>10. Beside(R, tables, to, x)
    BY <2>6, <2>7, <2>9, Zenon DEF Beside, N
  <2>11. RewriteOn(R, from, to, P, x, 3)
    BY <2>8, <2>10, RewriteStages, Zenon
  <2> QED BY <1>2, <2>11 DEF R
<1>3. CASE j = 3 /\ h = CopyRows(x, Temporary(x), DOMAIN from.def[x].columns \cap DOMAIN to.def[x].columns)
  <2>1. h.step = "CopyRows"
    BY <1>3, Zenon DEF CopyRows
  <2>2. R = tables
    BY <1>0, <2>1, Zenon DEF StepFacts, TablesAfterIsFact
  <2>3. RewriteOn(tables, from, to, P, x, 4)
    BY <1>3, RewriteStages, Zenon
  <2> QED BY <1>3, <2>2, <2>3
<1>4. CASE j = 4 /\ h = DropTables({x})
  <2>1. h.step = "DropTables" /\ h.names = {x}
    BY <1>4, Zenon DEF DropTables
  <2>2. R = Without(tables, {x})
    BY <1>0, <2>1, Zenon DEF StepFacts, TablesAfterIsFact
  <2>0. PICK U : Live(U, from, to, P) /\ Beside(tables, U, to, x)
    BY <1>4, RewriteStages
  <2>3. /\ N \notin DOMAIN U
        /\ DOMAIN tables = DOMAIN U \cup {N} /\ \A t \in DOMAIN U : tables[t] = U[t]
        /\ Made(tables[N], to, x, {})
    BY <2>0, Zenon DEF Beside, N
  <2>4. DOMAIN R = DOMAIN tables \ {x} /\ \A t \in DOMAIN tables \ {x} : R[t] = tables[t]
    BY <2>2, Zenon DEF Without
  <2> HIDE DEF R
  <2>5. /\ DOMAIN R = (DOMAIN U \ {x}) \cup {N} /\ (\A t \in DOMAIN U \ {x} : R[t] = U[t])
        /\ R[N] = tables[N]
    BY <1>0, <2>3, <2>4, Zenon
  <2>6. Instead(R, U, to, x)
    BY <2>3, <2>5, Zenon DEF Instead, N
  <2>7. RewriteOn(R, from, to, P, x, 5)
    BY <2>0, <2>6, RewriteStages, Zenon
  <2> QED BY <1>4, <2>7 DEF R
<1>5. CASE j = 5 /\ h = RenameTable(Temporary(x), x)
  <2>1. h.step = "RenameTable" /\ h.table = N /\ h.new = x
    BY <1>5, Zenon DEF RenameTable, N
  <2>2. R = With(Without(tables, {N}), x, tables[N])
    BY <1>0, <2>1, Zenon DEF StepFacts, TablesAfterIsFact
  <2>0. PICK U : Live(U, from, to, P) /\ Instead(tables, U, to, x)
    BY <1>5, RewriteStages
  <2>3. /\ N \notin DOMAIN U
        /\ DOMAIN tables = (DOMAIN U \ {x}) \cup {N} /\ \A t \in DOMAIN U \ {x} : tables[t] = U[t]
        /\ Made(tables[N], to, x, {})
    BY <2>0, Zenon DEF Instead, N
  <2>4. /\ DOMAIN R = (DOMAIN tables \ {N}) \cup {x} /\ R[x] = tables[N]
        /\ \A u \in DOMAIN tables \ {N} : u # x => R[u] = tables[u]
    BY <2>2, Zenon DEF With, Without
  <2>5. x \in DOMAIN U
    BY <2>0, Zenon DEF LiveFacts, LiveRewriteFact
  <2> HIDE DEF R
  <2>6. DOMAIN R = DOMAIN U /\ (\A t \in DOMAIN U \ {x} : R[t] = U[t]) /\ R[x] = tables[N]
    BY <1>0, <2>3, <2>4, <2>5, Zenon
  <2>7. MadeIndexes(to, x, 6) = {}
    BY DEF MadeIndexes
  <2> DEFINE six == 6
  <2>8. Replaced(R, U, to, x, MadeIndexes(to, x, six))
    BY <2>3, <2>6, <2>7, Zenon DEF Replaced
  <2>9. six \in Nat /\ six > 5
    OBVIOUS
  <2> HIDE DEF six
  <2>10. RewriteOn(R, from, to, P, x, six)
    BY <2>0, <2>8, <2>9, RewriteStages, Zenon
  <2> QED BY <1>5, <2>10 DEF R, six
<1>8. j \in 6 .. L + 5 => j \in Nat /\ j > 5 /\ j + 1 \in Nat /\ j + 1 > 5 /\ j # L + 6 /\ j # 1
  OBVIOUS
<1>6. CASE /\ j \in 6 .. L + 5
           /\ h = CreateIndex(x, q[j - 5], next.indices[q[j - 5]])
  <2> DEFINE i == q[j - 5]
             f == With(tables[x].indices, i, next.indices[i])
             e == [tables[x] EXCEPT !.indices = f]
  <2>1. h.step = "CreateIndex" /\ h.table = x /\ h.index = i /\ h.def = next.indices[i]
    BY <1>6, Zenon DEF CreateIndex
  <2>2. R = With(tables, x, e)
    BY <1>0, <2>1, Zenon DEF StepFacts, TablesAfterIsFact
  <2>0. PICK U : Live(U, from, to, P) /\ Replaced(tables, U, to, x, MadeIndexes(to, x, j))
    <3>1. j \in Nat /\ j > 5 /\ RewriteOn(tables, from, to, P, x, j)
      BY <1>6, <1>8, Zenon
    <3> QED BY <3>1, RewriteStages, Zenon
  <2>3. /\ DOMAIN tables = DOMAIN U /\ \A t \in DOMAIN U \ {x} : tables[t] = U[t]
        /\ Made(tables[x], to, x, MadeIndexes(to, x, j))
    BY <2>0, Zenon DEF Replaced
  <2>4. x \in DOMAIN tables /\ TableOK(x, tables[x])
    BY <1>0, <2>1, Zenon DEF Accepts, DefOK
  <2>5. DOMAIN f = DOMAIN tables[x].indices \cup {i}
    BY Zenon DEF With
  <2>6. e.columns = tables[x].columns /\ DOMAIN e.indices = DOMAIN f
    <3> DEFINE d == tables[x]
    <3>1. d = [columns |-> d.columns, pk |-> d.pk, indices |-> d.indices]
      BY <2>4, Zenon DEF TableOK
    <3> HIDE DEF f, d
    <3>2. [d EXCEPT !.indices = f].columns = d.columns /\ [d EXCEPT !.indices = f].indices = f
      BY <3>1, Zenon
    <3> QED BY <3>2, Zenon DEF d
  <2>7. MadeIndexes(to, x, j + 1) = MadeIndexes(to, x, j) \cup {i}
    <3>1. j \in Nat /\ j > 5
      BY <1>6, <1>8, Zenon
    <3>2. 1 .. (j + 1) - 6 = (1 .. j - 6) \cup {j - 5}
      BY <3>1
    <3> HIDE DEF q
    <3>3. {q[k] : k \in 1 .. (j + 1) - 6} = {q[k] : k \in 1 .. j - 6} \cup {q[j - 5]}
      BY <3>2, Zenon
    <3> QED BY <3>3, Zenon DEF MadeIndexes, q
  <2>8. /\ DOMAIN R = DOMAIN tables /\ R[x] = e
        /\ \A t \in DOMAIN tables \ {x} : R[t] = tables[t]
    BY <2>2, <2>4, Zenon DEF With
  <2> HIDE DEF R, e, f, i
  <2>9. Made(R[x], to, x, MadeIndexes(to, x, j + 1))
    BY <2>3, <2>5, <2>6, <2>7, <2>8, Zenon DEF Made
  <2>10. j + 1 \in Nat /\ j + 1 > 5 /\ j # L + 6
    BY <1>6, <1>8, Zenon
  <2> DEFINE m == j + 1
  <2>11. Replaced(R, U, to, x, MadeIndexes(to, x, m)) /\ m \in Nat /\ m > 5
    BY <2>3, <2>8, <2>9, <2>10, Zenon DEF Replaced
  <2> HIDE DEF m
  <2>12. RewriteOn(R, from, to, P, x, m)
    BY <2>0, <2>11, RewriteStages, Zenon
  <2> QED BY <2>10, <2>12, Zenon DEF R, m
<1>7. CASE j = L + 6 /\ h = SwitchOn
  <2>1. h.step = "ForeignKeys"
    BY <1>7, Zenon DEF StepFacts, SwitchFieldsFact
  <2>2. R = tables
    BY <1>0, <2>1, Zenon DEF StepFacts, TablesAfterIsFact
  <2>0. PICK U : Live(U, from, to, P) /\ Replaced(tables, U, to, x, MadeIndexes(to, x, j))
    <3>1. j \in Nat /\ j > 5 /\ RewriteOn(tables, from, to, P, x, j)
      BY <1>7
    <3> QED BY <3>1, RewriteStages, Zenon
  <2>3. /\ DOMAIN tables = DOMAIN U /\ \A t \in DOMAIN U \ {x} : tables[t] = U[t]
        /\ Made(tables[x], to, x, MadeIndexes(to, x, j))
    BY <2>0, Zenon DEF Replaced
  <2>4. MadeIndexes(to, x, j) = DOMAIN next.indices
    <3>1. 1 .. j - 6 = DOMAIN q
      BY <1>7 DEF Lists
    <3> QED BY <3>1, Zenon DEF MadeIndexes, Lists, Range
  <2>5. x \in DOMAIN U /\ tables[x].columns = RenderColumns(to.def[x].columns)
        /\ DOMAIN tables[x].indices = DOMAIN to.def[x].indices
    BY <2>0, <2>3, <2>4, Zenon DEF Made, LiveFacts, LiveRewriteFact
  <2>6. \A t \in DOMAIN U : t # s.table => tables[t] = U[t]
    BY <2>3, Zenon
  <2>7. \A V : Exchanged(U, V, s.table, RenderColumns(to.def[s.table].columns), DOMAIN to.def[s.table].indices)
                     => Live(V, from, to, P \ {s})
    BY <2>0, Zenon DEF LiveFacts, LiveRewriteFact
  <2>8. Live(tables, from, to, P \ {s})
    BY <2>3, <2>5, <2>6, <2>7, Zenon DEF Exchanged
  <2> QED BY <1>7, <2>2, <2>8
<1> HIDE DEF R
<1> QED
  <2>1. \/ j = 1 /\ h = SwitchOff
        \/ j = 2 /\ h = CreateTable(Temporary(x), [to.def[x] EXCEPT !.indices = NoIndices])
        \/ j = 3 /\ h = CopyRows(x, Temporary(x), DOMAIN from.def[x].columns \cap DOMAIN to.def[x].columns)
        \/ j = 4 /\ h = DropTables({x})
        \/ j = 5 /\ h = RenameTable(Temporary(x), x)
        \/ j \in 6 .. L + 5 /\ h = CreateIndex(x, q[j - 5], next.indices[q[j - 5]])
        \/ j = L + 6 /\ h = SwitchOn
    BY Zenon DEF Rewriting
  <2> QED BY ONLY <1>1, <1>2, <1>3, <1>4, <1>5, <1>6, <1>7, <2>1, Zenon

\* A statement of the migration that rewrites nothing.
LEMMA PlainLive ==
    ASSUME StepFacts, LiveFacts, Enumerated, DefOK(tables), NEW from, NEW to, Paired(from, to), Bare(to.def),
           NEW P, Live(tables, from, to, P), NEW STATE s, First(P, s), ~Rewrites(s),
           StepOK(s), Accepts(s)
    PROVE  Live(TablesAfter(s), from, to, P \ {s})
<1>1. DefOK(tables) /\ s \in DiffSteps(from, to)
  BY Zenon DEF First, Live, Ordered, Effective
<1>2. CASE s \in DropIndexSteps(from, to)
  <2>0. s.step = "DropIndex"
    BY <1>2, Zenon DEF StepFacts, StepFieldsFact, DropIndexFieldsFact
  <2>1. s.step = "DropIndex" /\ s.table \in DOMAIN tables
    BY <2>0, Zenon DEF Accepts
  <2>2. Exchanged(tables, TablesAfter(s), s.table, tables[s.table].columns,
                  DOMAIN tables[s.table].indices \ {s.index})
    BY <1>1, <2>1, Zenon DEF LiveFacts, StatementEffectFact
  <2> QED BY <1>2, <2>1, <2>2, Zenon DEF Exchanged, LiveFacts, LiveDropIndexFact
<1>3. CASE s \in DropSteps(from, to)
  <2>1. s.step = "DropTables"
    BY <1>3, Zenon DEF StepFacts, StepFieldsFact, DropFieldsFact
  <2>2. TablesAfter(s) = Without(tables, s.names)
    BY <1>1, <2>1, Zenon DEF StepFacts, TablesAfterIsFact
  <2>3. Live(Without(tables, s.names), from, to, P \ {s})
    BY <1>3, Zenon DEF LiveFacts, LiveDropTableFact
  <2> QED BY ONLY <2>2, <2>3, Zenon
<1>4. CASE s \in CreateSteps(from, to)
  <2>1. s.step = "CreateTable"
    BY <1>4, Zenon DEF StepFacts, StepFieldsFact, CreateFieldsFact
  <2>2. /\ DOMAIN TablesAfter(s) = DOMAIN tables \cup {s.table}
        /\ \A t \in DOMAIN tables : t # s.table => TablesAfter(s)[t] = tables[t]
        /\ TablesAfter(s)[s.table].columns = RenderColumns(s.def.columns)
        /\ DOMAIN TablesAfter(s)[s.table].indices = {}
    BY <1>1, <2>1, Zenon DEF LiveFacts, StatementEffectFact
  <2> QED BY <1>4, <2>2, Zenon DEF LiveFacts, LiveCreateTableFact
<1>5. CASE s \in AlterSteps(from, to)
  <2>1. s.step = "AlterTable"
    BY <1>5, Zenon DEF StepFacts, StepFieldsFact, AlterFieldsFact
  <2>2. /\ s.drop \cup s.alter = {}
        /\ \A U : Exchanged(tables, U, s.table, AlteredColumns(tables[s.table], s),
                            DOMAIN tables[s.table].indices) => Live(U, from, to, P \ {s})
    BY <1>5, Zenon DEF LiveFacts, LiveAlterFact
  <2>3. DOMAIN AlteredIndices(tables[s.table], s) = DOMAIN tables[s.table].indices
    BY <2>2, Zenon DEF AlteredIndices, Without
  <2>4. Exchanged(tables, TablesAfter(s), s.table, AlteredColumns(tables[s.table], s),
                  DOMAIN AlteredIndices(tables[s.table], s))
    BY <1>1, <2>1, Zenon DEF LiveFacts, StatementEffectFact
  <2> QED BY ONLY <2>2, <2>3, <2>4, Zenon
<1>6. CASE s \in CreateIndexSteps(from, to)
  <2>1. s.step = "CreateIndex"
    BY <1>6, Zenon DEF StepFacts, StepFieldsFact, CreateIndexFieldsFact
  <2>2. \A U : Exchanged(tables, U, s.table, tables[s.table].columns,
                         DOMAIN tables[s.table].indices \cup {s.index}) => Live(U, from, to, P \ {s})
    BY <1>6, Zenon DEF LiveFacts, LiveCreateIndexFact
  <2>3. Exchanged(tables, TablesAfter(s), s.table, tables[s.table].columns,
                  DOMAIN tables[s.table].indices \cup {s.index})
    BY <1>1, <2>1, Zenon DEF LiveFacts, StatementEffectFact
  <2> QED BY ONLY <2>2, <2>3, Zenon
<1>7. s \notin RenameSteps(from, to)
  BY Zenon DEF Rewrites, StepFacts, StepFieldsFact, RenameFieldsFact
<1> QED BY <1>1, <1>2, <1>3, <1>4, <1>5, <1>6, <1>7, Zenon DEF DiffSteps

-----------------------------------------------------------------------------
(* The database accepts the corrected steps.                               *)

\* The database accepts a step that is not rewritten, but for the known refusal.
LEMMA PlainAccepted ==
    ASSUME StepFacts, LiveFacts, Enumerated, Family = "sqlite", NEW from, NEW to, Paired(from, to), Calculated(to),
           NEW P, Live(tables, from, to, P), NEW STATE s, First(P, s), ~Rewrites(s)
    PROVE  Accepts(s) \/ KnownRefusal(s)
<1>1. s \in P /\ s \in DiffSteps(from, to) /\ P \subseteq DiffSteps(from, to)
      /\ DOMAIN tables = (DOMAIN to.def \cup Gone(from, P)) \ Awaited(to, P)
  BY Zenon DEF First, Live, Ordered, Effective
<1>2. CASE s \in DropIndexSteps(from, to)
  <2>1. s.step = "DropIndex"
    BY <1>2, Zenon DEF StepFacts, StepFieldsFact, DropIndexFieldsFact
  <2>2. PICK t \in DOMAIN from.def : \E i \in OldIndexes(from, to, t) : s = DropIndex(t, i)
    BY <1>2 DEF StepFacts, StepFieldsFact, DropIndexFieldsFact
  <2>3. PICK i \in OldIndexes(from, to, t) : s = DropIndex(t, i)
    BY <2>2, Zenon
  <2>4. s.table = t /\ s.index = i
    BY <2>3, Zenon DEF StepFacts, StepShapesFact, DropIndexShapeFact
  <2>5. i \in DropsOf(from, t, P)
    BY <1>1, <2>3, Zenon DEF DropsOf, OldIndexes
  <2>6. t \notin Awaited(to, P)
    <3>1. CreateTable(t, to.def[t]) \notin DiffSteps(from, to)
      <4> DEFINE c == CreateTable(t, to.def[t])
      <4>1. c.step = "CreateTable" /\ c.table = t
        BY Zenon DEF StepFacts, StepShapesFact, CreateTableShapeFact
      <4>2. ASSUME c \in CreateSteps(from, to)
            PROVE  FALSE
        <5>1. PICK u \in DOMAIN to.def \ DOMAIN from.def : c = CreateTable(u, to.def[u])
          BY <4>2 DEF StepFacts, StepFieldsFact, CreateFieldsFact
        <5>2. c.table = u
          BY <5>1, Zenon DEF StepFacts, StepShapesFact, CreateTableShapeFact
        <5> QED BY <4>1, <5>2, Zenon
      <4> HIDE DEF c
      <4>3. c \notin DiffSteps(from, to)
        BY <4>1, <4>2, Zenon DEF DiffSteps, StepFacts, StepFieldsFact, DropIndexFieldsFact, DropFieldsFact, CreateFieldsFact, AlterFieldsFact, CreateIndexFieldsFact, RenameFieldsFact
      <4> QED BY <4>3, Zenon DEF c
    <3> QED BY <1>1, <3>1, Zenon DEF Awaited
  <2>7. t \in DOMAIN to.def \/ t \in Gone(from, P)
    <3>1. SUFFICES ASSUME t \notin DOMAIN to.def
                   PROVE  DropTables({t}) \in P
      BY Zenon DEF Gone
    <3> DEFINE d == DropTables({t})
    <3>2. d.step = "DropTables"
      BY Zenon DEF StepFacts, StepShapesFact, DropTablesShapeFact
    <3>3. d \in DiffSteps(from, to)
      BY <3>1, Zenon DEF DiffSteps, DropSteps
    <3> HIDE DEF d
    <3>4. d \in Effective(from, to)
      BY <3>2, <3>3, Zenon DEF LiveFacts, EffectiveStepsFact
    <3>5. Rank(s) < Rank(d)
      BY <2>1, <3>2 DEF Rank
    <3>6. d \in P
      BY <1>1, <3>4, <3>5, Zenon DEF Live, Ordered
    <3> QED BY <3>6, Zenon DEF d
  <2>8. t \in DOMAIN tables
    BY <1>1, <2>6, <2>7, Zenon
  <2>9. i \in DOMAIN tables[t].indices
    BY <2>5, <2>8, Zenon DEF Live, TableOn
  <2> QED BY <2>1, <2>4, <2>8, <2>9, Zenon DEF Accepts
<1>3. CASE s \in DropSteps(from, to)
  <2>1. s.step = "DropTables"
    BY <1>3, Zenon DEF StepFacts, StepFieldsFact, DropFieldsFact
  <2>2. s.names \subseteq DOMAIN tables
    BY <1>3, Zenon DEF LiveFacts, LiveDropTableFact
  <2> QED BY <2>1, <2>2, Zenon DEF Accepts
<1>4. CASE s \in CreateSteps(from, to)
  <2>1. s.step = "CreateTable"
    BY <1>4, Zenon DEF StepFacts, StepFieldsFact, CreateFieldsFact
  <2>2. PICK t \in DOMAIN to.def \ DOMAIN from.def : s = CreateTable(t, to.def[t])
    BY <1>4 DEF StepFacts, StepFieldsFact, CreateFieldsFact
  <2>3. s.table = t /\ t \in Awaited(to, P)
    BY <1>1, <2>2, Zenon DEF Awaited, StepFacts, StepShapesFact, CreateTableShapeFact
  <2> QED BY <1>1, <2>1, <2>3, Zenon DEF Accepts
<1>5. CASE s \in AlterSteps(from, to)
  <2>1. s.step = "AlterTable" /\ IsChange(s)
    BY <1>5, Zenon DEF StepFacts, StepFieldsFact, AlterFieldsFact
  <2>2. /\ s.table \in DOMAIN tables /\ s.table \in DOMAIN to.def /\ s.drop \cup s.alter = {}
        /\ s.add \cap DOMAIN tables[s.table].columns = {}
    BY <1>5, Zenon DEF LiveFacts, LiveAlterFact
  <2>3. PICK t \in Both(from, to) : s = ChangeOf(from, to, t)
    BY <1>5, Zenon DEF StepFacts, StepFieldsFact, AlterFieldsFact
  <2>4. s.add = DOMAIN to.def[t].columns \ DOMAIN from.def[t].columns
    BY <2>3 DEF StepFacts, ChangeFieldsFact
  <2>5. IsFiniteSet(DOMAIN to.def[t].columns)
    BY <2>3, Zenon DEF Both, Paired, SchemaOK, DefOK, TableOK
  <2>6. IsFiniteSet(s.add) /\ s.add # {}
    BY <2>1, <2>2, <2>4, <2>5 DEF IsChange, StepFacts, FiniteSubsetFact
  <2>7. Cardinality(s.add) \in Nat /\ Cardinality(s.add) # 0
    BY <2>6, Zenon DEF Enumerated
  <2>8. Cardinality(s.add) = 1 \/ Cardinality(s.add) > 1
    BY <2>7
  <2>9. CASE Cardinality(s.add) = 1
    BY <2>1, <2>2, <2>9, Zenon DEF Accepts
  <2>10. CASE Cardinality(s.add) > 1
    BY <2>1, <2>10, Zenon DEF KnownRefusal
  <2> QED BY <2>8, <2>9, <2>10, Zenon
<1>6. CASE s \in CreateIndexSteps(from, to)
  <2>1. s.step = "CreateIndex"
    BY <1>6, Zenon DEF StepFacts, StepFieldsFact, CreateIndexFieldsFact
  <2>2. /\ s.table \in DOMAIN tables /\ s.table \in DOMAIN to.def
        /\ s.index \in DOMAIN to.def[s.table].indices /\ s.def = to.def[s.table].indices[s.index]
        /\ s.index \notin DOMAIN tables[s.table].indices
        /\ tables[s.table].columns = RenderColumns(to.def[s.table].columns)
    <3>1. Creatable(tables, to, s)
      BY <1>6, Zenon DEF LiveFacts, LiveCreateIndexFact
    <3> QED BY ONLY <3>1, Zenon DEF Creatable
  <2>3. Range(s.def.columns) \subseteq DOMAIN to.def[s.table].columns
    BY <2>2, Zenon DEF Calculated
  <2>4. DOMAIN tables[s.table].columns = DOMAIN to.def[s.table].columns
    BY <2>2, Zenon DEF RenderColumns
  <2> QED BY <2>1, <2>2, <2>3, <2>4, Zenon DEF Accepts
<1>7. s \notin RenameSteps(from, to)
  BY Zenon DEF Rewrites, StepFacts, StepFieldsFact, RenameFieldsFact
<1> QED BY <1>1, <1>2, <1>3, <1>4, <1>5, <1>6, <1>7, Zenon DEF DiffSteps

\* SqliteStepCorrector: so does every statement of the rewrite of a table.
LEMMA RewriteAccepted ==
    ASSUME StepFacts, LiveFacts, Enumerated, Family = "sqlite", NEW from, NEW to, Paired(from, to), Calculated(to),
           NEW P, NEW s, First(P, s), Rewrites(s), NEW x, x = s.table,
           NEW STATE h, NEW j, Rewriting(from, to, x, j, h),
           NEW L, L \in Nat, L = Len(IndexList(to.def[x])),
           Lists(IndexList(to.def[x]), DOMAIN to.def[x].indices),
           \/ j = 1 /\ Live(tables, from, to, P)
           \/ j # 1 /\ RewriteOn(tables, from, to, P, x, j)
    PROVE  Accepts(h)
<1> DEFINE N == Temporary(x)
           next == to.def[x]
           q == IndexList(to.def[x])
<1>0. /\ N \notin FinalTables /\ x \in FinalTables /\ x # N /\ x \in DOMAIN to.def
  <2>1. PICK U : Live(U, from, to, P)
    BY Zenon DEF RewriteOn
  <2>2. x \in DOMAIN to.def
    BY <2>1, Zenon DEF Both, LiveFacts, LiveRewriteFact
  <2> QED BY <2>2, TableAssumption DEF Temporaries, Calculated
<1>00. ASSUME NEW U, Live(U, from, to, P)
       PROVE  /\ x \in DOMAIN U /\ N \notin DOMAIN U
              /\ DOMAIN from.def[x].columns \cap DOMAIN next.columns \subseteq DOMAIN U[x].columns
  <2>1. /\ x \in DOMAIN U /\ DOMAIN U \subseteq DOMAIN to.def
        /\ U[x].columns \in {RenderColumns(from.def[x].columns), RenderColumns(to.def[x].columns)}
    BY <1>00, Zenon DEF LiveFacts, LiveRewriteFact
  <2>2. DOMAIN U[x].columns = DOMAIN from.def[x].columns \/ DOMAIN U[x].columns = DOMAIN next.columns
    BY <2>1, Zenon DEF RenderColumns
  <2> QED BY <1>0, <2>1, <2>2, Zenon DEF Calculated
<1> HIDE DEF N
<1>1. CASE h = SwitchOff \/ h = SwitchOn
  <2>1. h.step = "ForeignKeys"
    BY <1>1, Zenon DEF StepFacts, SwitchFieldsFact
  <2> QED BY <2>1, Zenon DEF Accepts
<1>2. CASE j = 2 /\ h = CreateTable(Temporary(x), [to.def[x] EXCEPT !.indices = NoIndices])
  <2>1. h.step = "CreateTable" /\ h.table = N
    BY <1>2, Zenon DEF CreateTable, N
  <2>2. Live(tables, from, to, P)
    BY <1>2, RewriteStages, Zenon
  <2>3. N \notin DOMAIN tables
    BY <1>00, <2>2, Zenon
  <2> QED BY <2>1, <2>3, Zenon DEF Accepts
<1>3. CASE j = 3 /\ h = CopyRows(x, Temporary(x), DOMAIN from.def[x].columns \cap DOMAIN to.def[x].columns)
  <2>1. /\ h.step = "CopyRows" /\ h.table = x /\ h.new = N
        /\ h.columns = DOMAIN from.def[x].columns \cap DOMAIN next.columns
    BY <1>3, Zenon DEF CopyRows, N
  <2>2. PICK U : Live(U, from, to, P) /\ Beside(tables, U, to, x)
    BY <1>3, RewriteStages, Zenon
  <2>3. /\ DOMAIN tables = DOMAIN U \cup {N} /\ \A t \in DOMAIN U : tables[t] = U[t]
        /\ tables[N].columns = RenderColumns(next.columns)
    BY <2>2, Zenon DEF Beside, N, Made
  <2>4. DOMAIN tables[N].columns = DOMAIN next.columns
    BY <2>3, Zenon DEF RenderColumns
  <2>5. x \in DOMAIN U /\ h.columns \subseteq DOMAIN U[x].columns
    BY <1>00, <2>1, <2>2, Zenon
  <2>6. /\ {x, N} \subseteq DOMAIN tables /\ h.columns \subseteq DOMAIN tables[x].columns
        /\ h.columns \subseteq DOMAIN tables[N].columns
    BY <2>1, <2>3, <2>4, <2>5, Zenon
  <2> QED BY <2>1, <2>6, Zenon DEF Accepts
<1>4. CASE j = 4 /\ h = DropTables({x})
  <2>1. h.step = "DropTables" /\ h.names = {x}
    BY <1>4, Zenon DEF DropTables
  <2>2. PICK U : Live(U, from, to, P) /\ Beside(tables, U, to, x)
    BY <1>4, RewriteStages
  <2>3. x \in DOMAIN tables
    BY <1>00, <2>2, Zenon DEF Beside
  <2> QED BY <2>1, <2>3, Zenon DEF Accepts
<1>5. CASE j = 5 /\ h = RenameTable(Temporary(x), x)
  <2>1. h.step = "RenameTable" /\ h.table = N /\ h.new = x
    BY <1>5, Zenon DEF RenameTable, N
  <2>2. PICK U : Live(U, from, to, P) /\ Instead(tables, U, to, x)
    BY <1>5, RewriteStages
  <2>3. N \in DOMAIN tables /\ x \notin DOMAIN tables
    BY <1>0, <2>2, Zenon DEF Instead, N
  <2> QED BY <2>1, <2>3, Zenon DEF Accepts
<1>6. CASE j \in 6 .. L + 5 /\ h = CreateIndex(x, q[j - 5], next.indices[q[j - 5]])
  <2> DEFINE i == q[j - 5]
  <2>1. h.step = "CreateIndex" /\ h.table = x /\ h.index = i /\ h.def = next.indices[i]
    BY <1>6, Zenon DEF CreateIndex
  <2>a. j \in 6 .. L + 5
    BY <1>6, Zenon
  <2>0. j \in Nat /\ j > 5 /\ j # 1
    BY ONLY <2>a, L \in Nat
  <2>2. PICK U : Live(U, from, to, P) /\ Replaced(tables, U, to, x, MadeIndexes(to, x, j))
    BY <1>6, <2>0, RewriteStages, Zenon
  <2>3. /\ x \in DOMAIN tables /\ tables[x].columns = RenderColumns(next.columns)
        /\ DOMAIN tables[x].indices = MadeIndexes(to, x, j)
    BY <1>00, <2>2, Zenon DEF Replaced, Made
  <2>4. q \in Seq(DOMAIN next.indices) /\ IsInjective(q)
    BY Zenon DEF Lists
  <2> HIDE DEF q
  <2>5. q \in [1 .. L -> DOMAIN next.indices] /\ DOMAIN q = 1 .. L
    BY <2>4 DEF q
  <2>6. j - 5 \in 1 .. L /\ j - 5 \notin 1 .. j - 6 /\ 1 .. j - 6 \subseteq 1 .. L
    BY <1>6
  <2>7. i \in DOMAIN next.indices
    BY <2>5, <2>6, Zenon
  <2>8. \A k \in 1 .. j - 6 : q[k] # i
    BY <2>4, <2>5, <2>6, Zenon DEF IsInjective
  <2>9. i \notin MadeIndexes(to, x, j)
    BY <2>8, Zenon DEF MadeIndexes, q
  <2>10. DOMAIN tables[x].columns = DOMAIN next.columns
    BY <2>3, Zenon DEF RenderColumns
  <2>11. Range(next.indices[i].columns) \subseteq DOMAIN next.columns
    BY <1>0, <2>7, Zenon DEF Calculated
  <2> HIDE DEF i
  <2> QED BY <2>1, <2>3, <2>9, <2>10, <2>11, Zenon DEF Accepts
<1> QED BY <1>1, <1>2, <1>3, <1>4, <1>5, <1>6, Zenon DEF Rewriting

-----------------------------------------------------------------------------
(* The live tables while the migration is executed.                        *)

\* The live tables T before the n-th statement of the migration: between two
\* steps, or within a rewrite.
LiveOn(T, from, to, n) ==
    \/ Calm(from, to, n) /\ Live(T, from, to, Todo(from, to, n))
    \/ \E s, j : /\ Current(from, to, n, s, j) /\ Rewrites(s) /\ j # 1
                 /\ s \in Todo(from, to, n)
                 /\ RewriteOn(T, from, to, Todo(from, to, n), s.table, j)

\* The next statement is a step, met by live tables, or a part of a rewrite.
LEMMA LiveStatement ==
    ASSUME ExecutionFacts, Family = "sqlite", TypesOK, ~AtRest, steps # <<>>,
           LiveOn(tables, goal.before, goal.after, Here)
    PROVE  LET from == goal.before
               to == goal.after
               P == Todo(from, to, Here)
           IN  \E s, j : /\ Executes(s, j)
                         /\ \/ j = 1 /\ Live(tables, from, to, P)
                            \/ Rewrites(s) /\ j # 1 /\ RewriteOn(tables, from, to, P, s.table, j)
<1> DEFINE from == goal.before
           to == goal.after
           P == Todo(from, to, Here)
<1>1. CASE Calm(from, to, Here) /\ Live(tables, from, to, P)
  <2>1. PICK s, j : Executes(s, j)
    BY Zenon DEF ExecutionFacts, SqliteExecutesFact
  <2>2. j = 1
    BY <1>1, <2>1, Zenon DEF Executes, Progress
  <2> QED BY <1>1, <2>1, <2>2, Zenon
<1>2. CASE \E s, j : /\ Current(from, to, Here, s, j) /\ Rewrites(s) /\ j # 1
                     /\ RewriteOn(tables, from, to, P, s.table, j)
  BY <1>2, Zenon DEF ExecutionFacts, ExecutesAtFact
<1> QED BY <1>1, <1>2, Zenon DEF LiveOn

\* apply_next_step: a statement that is executed does its part.
LEMMA LiveExecute ==
    ASSUME StepFacts, LiveFacts, ExecutionFacts, Family = "sqlite", TypesOK, ExecuteStep, Bare(goal.after.def),
           LiveOn(tables, goal.before, goal.after, Here)
    PROVE  LiveOn(tables', goal.before, goal.after, Here + 1)
<1> DEFINE h == Head(steps)
           from == goal.before
           to == goal.after
           P == Todo(from, to, Here)
<1>1. /\ ~AtRest /\ steps # <<>> /\ tables' = TablesAfter(h) /\ StepOK(h) /\ Accepts(h)
      /\ DefOK(tables)
  <2>1. ~AtRest /\ steps # <<>> /\ tables' = TablesAfter(h)
    BY Zenon DEF ExecuteStep
  <2> HIDE DEF h
  <2> QED BY <2>1, Zenon DEF h, TypesOK, ExecutionFacts, ExecuteTypesFact
<1>4. PICK s, j : /\ Executes(s, j)
                  /\ \/ j = 1 /\ Live(tables, from, to, P)
                     \/ Rewrites(s) /\ j # 1 /\ RewriteOn(tables, from, to, P, s.table, j)
  BY <1>1, LiveStatement, Zenon
<1> DEFINE b == Block(from, to, s)
           q == Len(IndexList(to.def[s.table]))
<1>5. /\ Paired(from, to) /\ Progress(from, to, Here, s, j)
      /\ \/ ~Rewrites(s) /\ h = s /\ j = 1 /\ Len(b) = 1
         \/ /\ Rewrites(s) /\ s.table \in FinalTables
            /\ q \in Nat /\ Len(b) = q + 6
            /\ Lists(IndexList(to.def[s.table]), DOMAIN to.def[s.table].indices)
            /\ Rewriting(from, to, s.table, j, h)
  BY <1>4, Zenon DEF Executes
<1>6. /\ j \in 1 .. Len(b) /\ First(P, s)
      /\ j < Len(b) => Current(from, to, Here + 1, s, j + 1) /\ Todo(from, to, Here + 1) = P
      /\ j = Len(b) => Calm(from, to, Here + 1) /\ Todo(from, to, Here + 1) = P \ {s}
  BY <1>5, Zenon DEF Progress, First
<1>7. Bare(to.def)
  BY Zenon
<1> HIDE DEF h, from, to, P
<1>8. CASE ~Rewrites(s) /\ h = s /\ j = 1 /\ Len(b) = 1
  <2>1. Live(tables, from, to, P) /\ First(P, h) /\ ~Rewrites(h)
    BY <1>4, <1>6, <1>8, Zenon
  <2>2. Live(TablesAfter(h), from, to, P \ {h})
    BY <1>1, <1>5, <1>7, <2>1, PlainLive, Zenon DEF ExecutionFacts, KnownFiniteFact
  <2>3. Calm(from, to, Here + 1) /\ Todo(from, to, Here + 1) = P \ {h}
    BY <1>6, <1>8, Zenon
  <2>4. LiveOn(TablesAfter(h), from, to, Here + 1)
    BY ONLY <2>2, <2>3, Zenon DEF LiveOn
  <2> QED BY ONLY <1>1, <2>4, Zenon DEF from, to
<1>9. CASE /\ Rewrites(s) /\ s.table \in FinalTables
           /\ q \in Nat /\ Len(b) = q + 6
           /\ Lists(IndexList(to.def[s.table]), DOMAIN to.def[s.table].indices)
           /\ Rewriting(from, to, s.table, j, h)
  <2> DEFINE x == s.table
  <2> HIDE DEF x, q
  <2>1. \/ j = 1 /\ Live(tables, from, to, P)
        \/ j # 1 /\ RewriteOn(tables, from, to, P, x, j)
    BY <1>4, Zenon DEF x
  <2>2. /\ q = Len(IndexList(to.def[x])) /\ q \in Nat /\ x = s.table /\ x \in FinalTables
        /\ Lists(IndexList(to.def[x]), DOMAIN to.def[x].indices)
        /\ Rewriting(from, to, x, j, h)
    BY <1>9, Zenon DEF q, x
  <2>4. /\ j < q + 6 => RewriteOn(TablesAfter(h), from, to, P, x, j + 1)
        /\ j = q + 6 => Live(TablesAfter(h), from, to, P \ {s})
    BY <1>1, <1>5, <1>6, <1>9, <2>1, <2>2, RewriteLive, Zenon DEF ExecutionFacts, KnownFiniteFact
  <2>5. CASE j = Len(b)
    <3>1. LiveOn(TablesAfter(h), from, to, Here + 1)
      BY <1>6, <1>9, <2>4, <2>5, Zenon DEF LiveOn
    <3> QED BY ONLY <1>1, <3>1, Zenon DEF from, to
  <2>6. CASE j < Len(b)
    <3>1. /\ Current(from, to, Here + 1, s, j + 1) /\ Rewrites(s) /\ j + 1 # 1
          /\ s \in Todo(from, to, Here + 1)
          /\ RewriteOn(TablesAfter(h), from, to, Todo(from, to, Here + 1), s.table, j + 1)
      BY <1>6, <1>9, <2>4, <2>6 DEF x, First
    <3>2. LiveOn(TablesAfter(h), from, to, Here + 1)
      BY <3>1, Zenon DEF LiveOn
    <3> QED BY ONLY <1>1, <3>2, Zenon DEF from, to
  <2>7. j = Len(b) \/ j < Len(b)
    BY <1>6, <1>9
  <2> QED BY <2>5, <2>6, <2>7, Zenon
<1> QED BY <1>5, <1>8, <1>9, Zenon

\* A migration that was executed to its end has led to the new schema.
LEMMA LiveFinish ==
    ASSUME LiveFacts, ExecutionFacts, Family = "sqlite", TypesOK, ~AtRest, steps = <<>>,
           LiveOn(tables, goal.before, goal.after, Here)
    PROVE  Matches(tables, goal.after.def)
<1> DEFINE from == goal.before
           to == goal.after
<1>1. Todo(from, to, Here) = {} /\ Calm(from, to, Here)
  BY Zenon DEF ExecutionFacts, HereEndsFact
<1>2. Live(tables, from, to, {})
  BY <1>1, Zenon DEF LiveOn
<1> QED BY <1>2, Zenon DEF LiveFacts, LiveEndFact

-----------------------------------------------------------------------------
(* The inductive invariant.                                                *)

\* Every statement of a migration leaves the schema drawn.
LEMMA DrawnExecute ==
    ASSUME StepFacts, LiveFacts, ExecutionFacts, Family = "sqlite", TypesOK, ExecuteStep, Drawn(tables), Bare(goal.after.def)
    PROVE  Drawn(tables')
<1> DEFINE h == Head(steps)
           from == goal.before
           to == goal.after
<1>1. ~AtRest /\ steps # <<>> /\ tables' = TablesAfter(h) /\ StepOK(h) /\ Accepts(h) /\ DefOK(tables)
  <2>1. ~AtRest /\ steps # <<>> /\ tables' = TablesAfter(h)
    BY Zenon DEF ExecuteStep
  <2> HIDE DEF h
  <2> QED BY <2>1, Zenon DEF h, TypesOK, ExecutionFacts, ExecuteTypesFact
<1>2. PICK s, j : Executes(s, j)
  BY <1>1, Zenon DEF ExecutionFacts, SqliteExecutesFact
<1>3. /\ Paired(from, to) /\ s \in DiffSteps(from, to)
      /\ \/ ~Rewrites(s) /\ h = s
         \/ s.table \in FinalTables /\ Rewriting(from, to, s.table, j, h)
  BY <1>2, Zenon DEF Executes
<1> HIDE DEF h
<1>4. CASE ~Rewrites(s) /\ h = s
  <2>1. h.step # "AlterIndex" /\ h.step # "RenameTable"
    <3>1. h.step # "AlterIndex" /\ h \in DiffSteps(from, to)
      BY <1>3, <1>4, Zenon DEF Rewrites
    <3> QED BY <3>1, Zenon DEF StepFacts, DiffKindsFact
  <2>2. ASSUME h.step = "CreateIndex"
        PROVE  h.table \notin Temporaries
    <3>1. h \in CreateIndexSteps(from, to)
      <4>1. h \in DiffSteps(from, to)
        BY <1>3, <1>4, Zenon
      <4> HIDE DEF from, to
      <4> QED BY <2>2, <4>1, Zenon DEF DiffSteps, StepFacts, StepFieldsFact, DropIndexFieldsFact, DropFieldsFact, CreateFieldsFact, AlterFieldsFact, CreateIndexFieldsFact, RenameFieldsFact
    <3>2. PICK t \in DOMAIN to.def : \E i \in NewIndexes(from, to, t) : h = CreateIndex(t, i, to.def[t].indices[i])
      BY <3>1 DEF StepFacts, StepFieldsFact, CreateIndexFieldsFact
    <3>3. PICK i \in NewIndexes(from, to, t) : h = CreateIndex(t, i, to.def[t].indices[i])
      BY <3>2, Zenon
    <3>4. h.table = t
      BY <3>3, Zenon DEF StepFacts, StepShapesFact, CreateIndexShapeFact
    <3>5. i \in DOMAIN to.def[t].indices
      BY <3>2, <3>3, Zenon DEF NewIndexes, IndexNames
    <3>6. t \notin Temporaries
      BY <3>2, <3>5, Zenon DEF Bare
    <3> QED BY <3>4, <3>6, Zenon
  <2> QED BY <1>1, <2>1, <2>2, Zenon DEF LiveFacts, DrawnAfterFact
<1>5. CASE s.table \in FinalTables /\ Rewriting(from, to, s.table, j, h)
  <2>1. s.table \notin Temporaries
    BY <1>5, TableAssumption, Zenon
  <2>2. /\ h.step # "AlterIndex"
        /\ h.step = "CreateIndex" => h.table = s.table
        /\ h.step = "RenameTable" => h.new = s.table
    <3>1. /\ \A b : ForeignKeys(b).step = "ForeignKeys"
          /\ \A t, d : CreateTable(t, d).step = "CreateTable"
          /\ \A t, n, c : CopyRows(t, n, c).step = "CopyRows"
          /\ \A n : DropTables(n).step = "DropTables"
          /\ \A t, n : RenameTable(t, n).step = "RenameTable" /\ RenameTable(t, n).new = n
          /\ \A t, i, d : CreateIndex(t, i, d).step = "CreateIndex" /\ CreateIndex(t, i, d).table = t
      BY Zenon DEF CreateTable, CopyRows, DropTables, RenameTable, CreateIndex, ForeignKeys
    <3>2. \/ h.step \in {"ForeignKeys", "CreateTable", "CopyRows", "DropTables"}
          \/ h.step = "RenameTable" /\ h.new = s.table
          \/ h.step = "CreateIndex" /\ h.table = s.table
      <4>1. \/ \E b : h = ForeignKeys(b)
            \/ \E t, d : h = CreateTable(t, d)
            \/ \E t, n, c : h = CopyRows(t, n, c)
            \/ \E n : h = DropTables(n)
            \/ \E t : h = RenameTable(t, s.table)
            \/ \E i, d : h = CreateIndex(s.table, i, d)
        BY ONLY <1>5, Zenon DEF Rewriting, SwitchOff, SwitchOn
      <4> QED BY ONLY <3>1, <4>1
    <3> QED BY <3>2, Zenon
  <2> QED BY <1>1, <2>1, <2>2, Zenon DEF LiveFacts, DrawnAfterFact
<1> QED BY <1>3, <1>4, <1>5, Zenon

\* Nothing is known of unclean migrations.
LEMMA HistoryUnclean ==
    ASSUME ExecutionFacts, NEW u, \A k \in DOMAIN u : GoalOK(u[k]), NEW X, u \in Seq(X), NEW a, NEW b, History(u, b)
    PROVE  History(Unclean(u), a)
<1> DEFINE v == Unclean(u)
<1>1. DOMAIN v = DOMAIN u /\ \A k \in DOMAIN u : ~v[k].clean
  BY Zenon DEF ExecutionFacts, UndoUncleanedFact
<1>2. \A k \in DOMAIN u : v[k].before = u[k].before /\ v[k].after = u[k].after
  <2>1. ASSUME NEW g, GoalOK(g)
        PROVE  [g EXCEPT !.clean = FALSE].before = g.before /\ [g EXCEPT !.clean = FALSE].after = g.after
    BY <2>1, Zenon DEF GoalOK
  <2> QED BY <2>1, Zenon DEF Unclean, MapSeq
<1>3. (\E Y : v \in Seq(Y)) /\ (v # <<>> => 1 \in DOMAIN v)
  <2>1. PICK Y : v \in Seq(Y)
    BY Zenon DEF ExecutionFacts, UndoUncleanedFact
  <2> HIDE DEF v
  <2> QED BY <2>1
<1> HIDE DEF v
<1>4. \A k \in DOMAIN v : GoalBare(v[k])
  BY <1>1, <1>2, Zenon DEF History, GoalBare
<1>5. History(v, a)
  BY <1>1, <1>3, <1>4, Zenon DEF History
<1> QED BY <1>5, Zenon DEF v

-----------------------------------------------------------------------------
(* The inductive invariant of the schemas.                                 *)

\* While a migration is executed, or the rollback of one that is clean, the live
\* tables are on their way to its schema; when it has ended they are there.
Arrives ==
    /\ status \in {"applying", "success"} => goal.clean
    /\ ~AtRest /\ goal.clean => LiveOn(tables, goal.before, goal.after, Here)
    /\ status \in {"success", "rolled_back"} /\ goal.clean => Matches(tables, goal.after.def)

\* What can be undone leads to the live schema; while a migration is executed,
\* to the one it started from, and while one is undone, to the one before it.
Undoes ==
    /\ AtRest => History(undo, tables)
    /\ status = "applying" => History(undo, goal.before.def)
    /\ status = "unapplying" =>
          /\ History(undo, goal.after.def)
          /\ undo # <<>> /\ undo[1].clean => goal.clean

SchemasOK == Drawn(tables) /\ GoalBare(goal) /\ Arrives /\ Undoes

\* The invariant of the schemas holds at first.
LEMMA SchemasInit == ASSUME ExecutionFacts, Init PROVE SchemasOK
<1>1. /\ tables = <<>> /\ undo = <<>> /\ status = "idle"
      /\ goal = [before |-> Schema(<<>>, <<>>), after |-> Schema(<<>>, <<>>),
                 clean |-> TRUE, enforced |-> TRUE]
  BY Zenon DEF Init
<1>2. DOMAIN tables = {} /\ DOMAIN undo = {}
  BY <1>1
<1>3. goal.before = Schema(<<>>, <<>>) /\ goal.after = Schema(<<>>, <<>>)
  BY <1>1, Zenon
<1>4. DOMAIN Schema(<<>>, <<>>).def = {}
  BY Zenon DEF ExecutionFacts, KnownEmptyFact
<1>5. Drawn(tables) /\ GoalBare(goal)
  BY <1>2, <1>3, <1>4, Zenon DEF Drawn, Bare, Rendered, GoalBare
<1>6. History(undo, tables)
  BY <1>1, <1>2, Zenon DEF History
<1>7. Arrives /\ Undoes
  BY <1>1, <1>6, Zenon DEF Arrives, Undoes, AtRest
<1> QED BY <1>5, <1>7, Zenon DEF SchemasOK

\* A migration starts where the database is.
LEMMA GoalStarts ==
    ASSUME LiveFacts, ExecutionFacts, Family = "sqlite", TypesOK', Remaining(goal', steps', 1),
           Matches(tables', goal'.before.def)
    PROVE  LiveOn(tables', goal'.before, goal'.after, Here')
<1>1. Here' = 1 /\ GoalOK(goal')
  BY Zenon DEF TypesOK, ExecutionFacts, HereStartsFact
<1> DEFINE from == goal'.before
           to == goal'.after
<1>2. Paired(from, to)
  BY <1>1, Zenon DEF GoalOK
<1>3. Matches(tables', from.def)
  BY Zenon
<1> HIDE DEF from, to
<1>4. Calm(from, to, 1) /\ Todo(from, to, 1) = Effective(from, to)
  BY <1>2, Zenon DEF Paired, ExecutionFacts, KnownEndsFact
<1>5. Live(tables', from, to, Effective(from, to))
  BY <1>2, <1>3, Zenon DEF ExecutionFacts, KnownFiniteFact, LiveFacts, LiveStartFact
<1>6. LiveOn(tables', from, to, 1)
  BY <1>4, <1>5, Zenon DEF LiveOn
<1> QED BY <1>1, <1>6, Zenon DEF from, to

\* applyMigration keeps it.
LEMMA SchemasMigrate ==
    ASSUME LiveFacts, ExecutionFacts, Family = "sqlite", TypesOK, SchemasOK, NEW dm \in project, NEW force \in BOOLEAN,
           Migrate(dm, force)
    PROVE  SchemasOK'
<1>1. /\ AtRest /\ status' = "applying" /\ tables' = tables /\ undo' = undo /\ goal'.clean
  <2> DEFINE from == Described
             to == Calculate(dm)
  <2>1. /\ AtRest /\ status' = "applying" /\ tables' = tables /\ undo' = undo
        /\ goal' = [before |-> from, after |-> to, clean |-> TRUE, enforced |-> enforced]
    BY Zenon DEF Migrate
  <2> HIDE DEF from, to
  <2> QED BY <2>1, Zenon
<1>2. TypesOK' /\ Remaining(goal', steps', 1) /\ goal'.before.def = tables
  BY Zenon DEF ExecutionFacts, MigrateTypesFact
<1>3. Calculated(goal'.after)
  BY <1>1, <1>2, Zenon DEF TypesOK
<1>4. Bare(goal'.after.def)
  BY <1>3, TableAssumption, Zenon DEF Calculated, Bare
<1>5. Drawn(tables) /\ Matches(tables, tables)
  BY Zenon DEF SchemasOK, Drawn, Rendered, Matches
<1>6. Drawn(tables') /\ GoalBare(goal') /\ Matches(tables', goal'.before.def)
  BY <1>1, <1>2, <1>4, <1>5, Zenon DEF GoalBare, Drawn
<1>7. LiveOn(tables', goal'.before, goal'.after, Here')
  BY <1>2, <1>6, GoalStarts, Zenon
<1>8. History(undo', goal'.before.def)
  BY <1>1, <1>2, Zenon DEF SchemasOK, Undoes
<1>9. Arrives'
  BY <1>1, <1>7, Zenon DEF Arrives
<1>10. Undoes'
  BY <1>1, <1>8, Zenon DEF Undoes, AtRest
<1> QED BY <1>6, <1>9, <1>10, Zenon DEF SchemasOK

\* unapplyMigration keeps it.
LEMMA SchemasUnapply ==
    ASSUME LiveFacts, ExecutionFacts, Family = "sqlite", TypesOK, SchemasOK, Unapply
    PROVE  SchemasOK'
<1> DEFINE m == undo[1]
<1>0. PICK X : undo \in Seq(X)
  BY Zenon DEF TypesOK
<1>1. AtRest /\ undo # <<>> /\ status' = "unapplying" /\ tables' = tables /\ undo' = Tail(undo)
  BY Zenon DEF Unapply
<1>2. goal'.before = m.after /\ goal'.after = m.before /\ goal'.clean = m.clean
  <2>1. Head(undo) = m
    BY <1>0, <1>1
  <2>2. goal' = [before |-> m.after, after |-> m.before, clean |-> m.clean, enforced |-> enforced]
    BY <2>1, Zenon DEF Unapply
  <2> HIDE DEF m
  <2> QED BY <2>2, Zenon
<1>3. /\ History(Tail(undo), m.before.def) /\ GoalBare(m)
      /\ Tail(undo) # <<>> /\ Tail(undo)[1].clean => m.clean
      /\ m.clean => Matches(tables, m.after.def)
  <2>1. History(undo, tables)
    BY <1>1, Zenon DEF SchemasOK, Undoes
  <2> QED BY <1>0, <1>1, <2>1, Zenon DEF LiveFacts, HistoryShrinksFact
<1> HIDE DEF m
<1>4. TypesOK' /\ Remaining(goal', steps', 1)
  BY Zenon DEF ExecutionFacts, UnapplyTypesFact
<1>5. goal'.clean => LiveOn(tables', goal'.before, goal'.after, Here')
  <2>1. SUFFICES ASSUME goal'.clean
                 PROVE  LiveOn(tables', goal'.before, goal'.after, Here')
    BY Zenon
  <2>2. Matches(tables', goal'.before.def)
    BY <1>1, <1>2, <1>3, <2>1, Zenon
  <2> QED BY <1>4, <2>2, GoalStarts, Zenon
<1>6. Arrives'
  BY <1>1, <1>5, Zenon DEF Arrives
<1>7. Undoes'
  BY <1>1, <1>2, <1>3, Zenon DEF Undoes, AtRest
<1>8. Drawn(tables') /\ GoalBare(goal')
  BY <1>1, <1>2, <1>3, Zenon DEF SchemasOK, GoalBare
<1> QED BY <1>6, <1>7, <1>8, Zenon DEF SchemasOK

\* A statement keeps it.
LEMMA SchemasExecute ==
    ASSUME StepFacts, LiveFacts, ExecutionFacts, Family = "sqlite", TypesOK, SchemasOK, ExecuteStep
    PROVE  SchemasOK'
<1>1. ~AtRest /\ status' = status /\ goal' = goal /\ undo' = undo /\ Here' = Here + 1
  BY Zenon DEF ExecuteStep, ExecutionFacts, HereMovesFact
<1>2. Drawn(tables') /\ GoalBare(goal')
  BY <1>1, DrawnExecute, Zenon DEF SchemasOK, GoalBare
<1>3. goal.clean => LiveOn(tables', goal.before, goal.after, Here + 1)
  BY <1>1, LiveExecute, Zenon DEF SchemasOK, GoalBare, Arrives
<1>4. Arrives'
  BY <1>1, <1>3, Zenon DEF SchemasOK, Arrives, AtRest
<1>5. Undoes'
  BY <1>1, Zenon DEF SchemasOK, Undoes, AtRest
<1> QED BY <1>2, <1>4, <1>5, Zenon DEF SchemasOK

\* A migration that fails leaves the ones before it unclean.
LEMMA SchemasFail ==
    ASSUME ExecutionFacts, TypesOK, SchemasOK, FailStep
    PROVE  SchemasOK'
<1>1. /\ ~AtRest /\ status' = "failure" /\ undo' = Unclean(undo) /\ tables' = tables /\ goal' = goal
  BY Zenon DEF FailStep
<1>2. \E b : History(undo, b)
  BY <1>1, Zenon DEF SchemasOK, Undoes, AtRest
<1>3. History(undo', tables')
  BY <1>1, <1>2, HistoryUnclean, Zenon DEF TypesOK
<1>4. Undoes' /\ Arrives'
  BY <1>1, <1>3, Zenon DEF Undoes, Arrives, AtRest
<1> QED BY <1>1, <1>4, Zenon DEF SchemasOK

\* The live schema is the one wanted when the two match: the name of a table
\* decides on its key and on the columns of its indexes.
LEMMA ReachedMatches ==
    ASSUME StepFacts, TypesOK
    PROVE  Reached(LAMBDA t, i : FALSE) <=> Matches(tables, goal.after.def)
<1>1. DefOK(tables) /\ DefOK(goal.after.def)
  BY Zenon DEF TypesOK, GoalOK, Paired, SchemaOK
<1>2. ASSUME NEW t \in DOMAIN tables, t \in DOMAIN goal.after.def,
             DOMAIN tables[t].indices = DOMAIN goal.after.def[t].indices
      PROVE  /\ tables[t].pk = goal.after.def[t].pk
             /\ \A i \in DOMAIN tables[t].indices :
                   tables[t].indices[i] = goal.after.def[t].indices[i]
  <2>1. TableOK(t, tables[t]) /\ TableOK(t, goal.after.def[t])
    BY <1>1, <1>2, Zenon DEF DefOK
  <2>2. /\ tables[t].pk = KeyOf(Base(t)) /\ goal.after.def[t].pk = KeyOf(Base(t))
        /\ \A i \in DOMAIN tables[t].indices : tables[t].indices[i] = IndexOf(Base(t))
        /\ \A i \in DOMAIN goal.after.def[t].indices : goal.after.def[t].indices[i] = IndexOf(Base(t))
    BY ONLY <2>1, Zenon, StepFacts DEF StepFacts, TableNamedFact
  <2> QED BY <1>2, <2>2, Zenon
<1>3. ASSUME Matches(tables, goal.after.def)
      PROVE  Reached(LAMBDA t, i : FALSE)
  BY <1>2, <1>3, Zenon DEF Matches, Reached
<1>4. ASSUME Reached(LAMBDA t, i : FALSE)
      PROVE  Matches(tables, goal.after.def)
  BY <1>4, Zenon DEF Matches, Reached
<1> QED BY <1>3, <1>4, Zenon

\* The end of a migration or of a rollback keeps it.
LEMMA SchemasFinish ==
    ASSUME StepFacts, LiveFacts, ExecutionFacts, Family = "sqlite", TypesOK, SchemasOK, Finish
    PROVE  SchemasOK'
<1>0. PICK X : undo \in Seq(X)
  BY Zenon DEF TypesOK
<1>1. ~AtRest /\ steps = <<>> /\ tables' = tables /\ goal' = goal /\ GoalBare(goal)
  BY Zenon DEF Finish, SchemasOK
<1>2. goal.clean => Matches(tables, goal.after.def)
  BY <1>1, LiveFinish, Zenon DEF SchemasOK, Arrives
<1>3. CASE status = "applying" /\ status' = "success" /\ undo' = <<goal>> \o undo
  <2>1. goal.clean /\ History(undo, goal.before.def)
    BY <1>3, Zenon DEF SchemasOK, Arrives, Undoes
  <2>2. History(<<goal>> \o undo, tables)
    BY <1>0, <1>1, <1>2, <2>1, Zenon DEF LiveFacts, HistoryGrowsFact
  <2>3. Undoes' /\ Arrives'
    BY <1>1, <1>2, <1>3, <2>1, <2>2, Zenon DEF Undoes, Arrives, AtRest
  <2> QED BY <1>1, <2>3, Zenon DEF SchemasOK
<1>4. CASE /\ status = "unapplying" /\ status' = "rolled_back"
           /\ undo' = IF Reached(LAMBDA t, i : FALSE) THEN undo ELSE Unclean(undo)
  <2>1. History(undo, goal.after.def)
    BY <1>4, Zenon DEF SchemasOK, Undoes
  <2>2. History(undo', tables)
    <3>1. CASE Reached(LAMBDA t, i : FALSE)
      <4>1. undo' = undo /\ Matches(tables, goal.after.def)
        BY <1>4, <3>1, ReachedMatches, Zenon
      <4> QED BY <1>0, <2>1, <4>1, Zenon DEF TypesOK, LiveFacts, HistoryMovesFact
    <3>2. CASE ~Reached(LAMBDA t, i : FALSE)
      <4>1. undo' = Unclean(undo)
        BY <1>4, <3>2, Zenon
      <4> QED BY <1>0, <2>1, <4>1, HistoryUnclean, Zenon DEF TypesOK
    <3> QED BY <3>1, <3>2, Zenon
  <2>3. Undoes' /\ Arrives'
    BY <1>1, <1>2, <1>4, <2>2, Zenon DEF Undoes, Arrives, AtRest
  <2> QED BY <1>1, <2>3, Zenon DEF SchemasOK
<1> QED BY <1>3, <1>4, Zenon DEF Finish

\* Every step keeps it.
LEMMA SchemasInductive ==
    ASSUME StepFacts, LiveFacts, ExecutionFacts, Family = "sqlite", TypesOK, SchemasOK, [Next]_vars
    PROVE  SchemasOK'
<1>1. ASSUME UNCHANGED <<tables, status, steps, goal, undo>>
      PROVE  SchemasOK'
  BY <1>1, Zenon DEF SchemasOK, Arrives, Undoes, AtRest, Here
<1>2. ASSUME NEW t, NEW values, NEW nulls, WriteRows(t, values, nulls)
      PROVE  SchemasOK'
  BY <1>1, <1>2, Zenon DEF WriteRows
<1>3. ASSUME UNCHANGED vars
      PROVE  SchemasOK'
  BY <1>1, <1>3, Zenon DEF vars
<1>4. ASSUME NEW dm \in project, NEW force \in BOOLEAN, Migrate(dm, force)
      PROVE  SchemasOK'
  BY <1>4, SchemasMigrate, Zenon
<1> QED BY <1>2, <1>3, <1>4, SchemasUnapply, SchemasExecute, SchemasFail, SchemasFinish, Zenon
        DEF Next, MigrateNothing

-----------------------------------------------------------------------------
(* The database accepts the corrected steps.                               *)

\* While a migration is applied, the next statement is one the database accepts.
LEMMA NextAccepted ==
    ASSUME StepFacts, LiveFacts, ExecutionFacts, Family = "sqlite", TypesOK, SchemasOK
    PROVE  CorrectionsApplicable
<1> DEFINE h == Head(steps)
           from == goal.before
           to == goal.after
           P == Todo(from, to, Here)
<1>0. SUFFICES ASSUME status = "applying", steps # <<>>
               PROVE  Accepts(h) \/ KnownRefusal(h)
  BY Zenon DEF CorrectionsApplicable
<1>1. ~AtRest /\ LiveOn(tables, from, to, Here) /\ Calculated(to)
  BY <1>0, Zenon DEF AtRest, SchemasOK, Arrives, TypesOK
<1>4. PICK s, j : /\ Executes(s, j)
                  /\ \/ j = 1 /\ Live(tables, from, to, P)
                     \/ Rewrites(s) /\ j # 1 /\ RewriteOn(tables, from, to, P, s.table, j)
  BY <1>0, <1>1, LiveStatement, Zenon
<1> DEFINE q == Len(IndexList(to.def[s.table]))
<1>5. /\ Paired(from, to) /\ First(P, s)
      /\ \/ ~Rewrites(s) /\ h = s /\ j = 1
         \/ /\ Rewrites(s) /\ q \in Nat
            /\ Lists(IndexList(to.def[s.table]), DOMAIN to.def[s.table].indices)
            /\ Rewriting(from, to, s.table, j, h)
  BY <1>4, Zenon DEF Executes, Progress, First
<1> HIDE DEF h, from, to, P
<1>6. CASE ~Rewrites(s) /\ h = s /\ j = 1
  <2>1. Live(tables, from, to, P) /\ First(P, h) /\ ~Rewrites(h)
    BY <1>4, <1>5, <1>6, Zenon
  <2> QED BY <1>1, <1>5, <2>1, PlainAccepted, Zenon DEF ExecutionFacts, KnownFiniteFact
<1>7. CASE /\ Rewrites(s) /\ q \in Nat
           /\ Lists(IndexList(to.def[s.table]), DOMAIN to.def[s.table].indices)
           /\ Rewriting(from, to, s.table, j, h)
  <2> DEFINE x == s.table
  <2> HIDE DEF x, q
  <2>1. \/ j = 1 /\ Live(tables, from, to, P)
        \/ j # 1 /\ RewriteOn(tables, from, to, P, x, j)
    BY <1>4, Zenon DEF x
  <2>2. /\ q = Len(IndexList(to.def[x])) /\ q \in Nat /\ x = s.table
        /\ Lists(IndexList(to.def[x]), DOMAIN to.def[x].indices)
        /\ Rewriting(from, to, x, j, h)
    BY <1>7, Zenon DEF q, x
  <2>3. Accepts(h)
    BY <1>1, <1>5, <1>7, <2>1, <2>2, RewriteAccepted, Zenon DEF ExecutionFacts, KnownFiniteFact
  <2> QED BY <2>3, Zenon
<1> QED BY <1>5, <1>6, <1>7, Zenon DEF h

=============================================================================
