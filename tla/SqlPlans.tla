------------------------------ MODULE SqlPlans ------------------------------
(***************************************************************************)
(* The statements of a migration as a plan that is walked through, where   *)
(* in it a migration is, and what the proofs about its execution take from *)
(* the proofs about the steps (StepFacts) and about how they are planned   *)
(* (PlanFacts).  SqlStepProofs and SqlDiffProofs prove them,               *)
(* SqlSchemaProofs, SqlMigrationProofs and SqlRollbackProofs assume them,  *)
(* and SqlTheorems puts all of it together; no side has to know the lemmas *)
(* of the other.                                                           *)
(***************************************************************************)
EXTENDS SqlSteps

-----------------------------------------------------------------------------
(* The steps of a migration in the order of their kinds, and the statements*)
(* that SQLite gets for them.                                              *)

Sorted(r) == \A i, j \in DOMAIN r : Rank(r[i]) < Rank(r[j]) => i < j

Blocks(from, to) ==
    [k \in DOMAIN OriginalSteps(from, to) |-> Block(from, to, OriginalSteps(from, to)[k])]

Todo(from, to, n) == Pending(OriginalSteps(from, to), Blocks(from, to), n)

Current(from, to, n, s, j) == Doing(OriginalSteps(from, to), Blocks(from, to), n, s, j)

Calm(from, to, n) == Between(Blocks(from, to), n)

\* The n-th statement is the j-th one of step s, which is due.
Progress(from, to, n, s, j) ==
    LET b == Block(from, to, s)
    IN  /\ n \in 1 .. Len(CorrectedSteps(from, to))
        /\ CorrectedSteps(from, to)[n] = b[j]
        /\ s \in Todo(from, to, n) /\ s \in Effective(from, to)
        /\ \A x \in Todo(from, to, n) : x \in Effective(from, to) /\ ~(Rank(x) < Rank(s))
        /\ Calm(from, to, n) <=> j = 1
        /\ j \in 1 .. Len(b)
        /\ j < Len(b) => /\ Current(from, to, n + 1, s, j + 1)
                         /\ Todo(from, to, n + 1) = Todo(from, to, n)
        /\ j = Len(b) => /\ Calm(from, to, n + 1)
                         /\ Todo(from, to, n + 1) = Todo(from, to, n) \ {s}

\* Statement h is the step s, or the j-th statement of the rewrite that s needs.
Statement(from, to, s, j, h) ==
    \/ ~Rewrites(s) /\ h = s /\ j = 1 /\ Len(Block(from, to, s)) = 1
    \/ /\ Rewrites(s) /\ s.table \in Both(from, to) /\ s.table \in FinalTables
       /\ Len(IndexList(to.def[s.table])) \in Nat
       /\ Lists(IndexList(to.def[s.table]), DOMAIN to.def[s.table].indices)
       /\ Len(Block(from, to, s)) = Len(IndexList(to.def[s.table])) + 6
       /\ Rewriting(from, to, s.table, j, h)

\* Does a step alter the type of an id?
IdChanges(from, to) ==
    \E s \in AlterSteps(from, to) : \E c \in s.alter \cap from.def[s.table].pk :
        from.def[s.table].columns[c].family # s.def.columns[c].family

-----------------------------------------------------------------------------
(* What is known of schemas and of the statements that are made of two.    *)

\* The schemas and the programs, as the proofs about the execution use them.
PlanFacts ==
    /\ Enumerated
    /\ /\ SchemaOK(Schema(<<>>, <<>>))
       /\ Schema(<<>>, <<>>).def = <<>>
       /\ DOMAIN Schema(<<>>, <<>>).def = {}
    /\ \A def : DefOK(def) => /\ SchemaOK(Schema(DescriberOrder, def))
                              /\ Schema(DescriberOrder, def).def = def
    /\ \A dm \in UNION Projects : Calculated(Calculate(dm))
    /\ \A from, to : SchemaOK(from) /\ SchemaOK(to) =>
          /\ Lists(OriginalSteps(from, to), DiffSteps(from, to))
          /\ Sorted(OriginalSteps(from, to))
    /\ \A from, to : Family = "sqlite" /\ SchemaOK(from) /\ SchemaOK(to) =>
          /\ Len(CorrectedSteps(from, to)) \in Nat
          /\ \E X : CorrectedSteps(from, to) \in Seq(X)
          /\ Calm(from, to, 1) /\ Todo(from, to, 1) = Effective(from, to)
          /\ Todo(from, to, Len(CorrectedSteps(from, to)) + 1) = {}
          /\ \A n \in 1 .. Len(CorrectedSteps(from, to)) : \E s, j : Current(from, to, n, s, j)
          /\ \A n, s, j : Current(from, to, n, s, j) => Progress(from, to, n, s, j)
    /\ \A from, to : Family = "postgres" /\ SchemaOK(from) /\ SchemaOK(to) =>
          /\ ~IdChanges(from, to) =>
                /\ Lists(CorrectedSteps(from, to), DelayedSteps(from, to))
                /\ Sorted(CorrectedSteps(from, to))
          /\ IdChanges(from, to) =>
                \E rest : /\ CorrectedSteps(from, to) = <<DropTables(DOMAIN from.def)>> \o rest
                          /\ Lists(rest, DelayedSteps(Schema(<<>>, <<>>), to))
                          /\ Sorted(rest)
    /\ \A from, to : Paired(from, to) =>
          /\ \E X : CorrectedSteps(from, to) \in Seq(X)
          /\ \A n \in 1 .. Len(CorrectedSteps(from, to)) : StepOK(CorrectedSteps(from, to)[n])
    /\ \A from, to : Family = "sqlite" /\ Paired(from, to) => \A n, s, j :
          Current(from, to, n, s, j) => Statement(from, to, s, j, CorrectedSteps(from, to)[n])

-----------------------------------------------------------------------------
(* Where a migration is, and the types of the state.                       *)

Program(g) == CorrectedSteps(g.before, g.after)

\* The statements st are those of g from the n-th on.
Remaining(g, st, n) ==
    /\ n \in 1 .. Len(Program(g)) + 1
    /\ st = SubSeq(Program(g), n, Len(Program(g)))

TypesOK ==
    /\ DefOK(tables) /\ RowsOK
    /\ enforced \in BOOLEAN
    /\ status \in {"idle", "applying", "unapplying", "success", "failure", "rolled_back"}
    /\ project \in Projects
    /\ GoalOK(goal)
    /\ \E X : undo \in Seq(X)
    /\ \A k \in DOMAIN undo : GoalOK(undo[k])
    /\ ~AtRest => \E n : Remaining(goal, steps, n)
    /\ status \in {"applying", "success"} => Calculated(goal.after)

\* The number of the next statement.
Position(g, st) == Len(Program(g)) - Len(st) + 1

Here == Position(goal, steps)

\* The j-th statement of step s of the difference is the next one.
Executes(s, j) ==
    LET from == goal.before
        to == goal.after
        h == Head(steps)
    IN  /\ Paired(from, to)
        /\ s \in DiffSteps(from, to)
        /\ Current(from, to, Here, s, j) /\ Progress(from, to, Here, s, j)
        /\ \/ ~Rewrites(s) /\ h = s /\ j = 1 /\ Len(Block(from, to, s)) = 1
           \/ /\ Rewrites(s) /\ s.table \in Both(from, to) /\ s.table \in FinalTables
              /\ Len(IndexList(to.def[s.table])) \in Nat
              /\ Lists(IndexList(to.def[s.table]), DOMAIN to.def[s.table].indices)
              /\ Len(Block(from, to, s)) = Len(IndexList(to.def[s.table])) + 6
              /\ Rewriting(from, to, s.table, j, h)

-----------------------------------------------------------------------------
(* What is known of steps, one by one.                                     *)

\* Subsets of finite sets are finite.
FiniteSubsetFact ==
    \A S : \A T \in SUBSET S :
        IsFiniteSet(S) =>
            IsFiniteSet(T)

\* A table without indexes.
FiniteNoneFact ==
    /\ DOMAIN NoIndices = {} /\ IsFiniteSet({})
    /\ \A X : NoIndices \in [DOMAIN NoIndices -> X]

\* The name of a table decides on its key and on the columns of its indexes.
TableNamedFact ==
    \A t, d :
        TableOK(t, d) =>
            /\ d.pk = KeyOf(Base(t))
            /\ \A i \in DOMAIN d.indices : d.indices[i] = IndexOf(Base(t))

\* The names of the tables that fix() makes are apart from all others.
FinalBaseFact ==
    /\ \A t \in FinalTables : Base(t) = t /\ Base(Temporary(t)) = t
    /\ \A t \in FinalTables : Temporary(t) \in Temporaries /\ Temporary(t) \notin FinalTables
    /\ \A t, u \in FinalTables : Temporary(t) = Temporary(u) => t = u
    /\ \A t \in AllTables : Base(t) \in FinalTables

\* Tables of both schemas are none of fix()'s temporary ones.
BothFinalFact ==
    \A from, to :
        Paired(from, to) =>
            Both(from, to) \subseteq FinalTables

\* The fields of the steps, and the kinds of the sets, one by one.
DropIndexFieldsFact ==
    \A from, to : \A s \in DropIndexSteps(from, to) :
        /\ s.step = "DropIndex"
        /\ \E t \in DOMAIN from.def : \E i \in OldIndexes(from, to, t) : s = DropIndex(t, i)

\* DROP TABLE.
DropFieldsFact ==
    \A from, to : \A s \in DropSteps(from, to) :
        /\ s.step = "DropTables"
        /\ \E t \in DOMAIN from.def \ DOMAIN to.def : s = DropTables({t})

\* CREATE TABLE.
CreateFieldsFact ==
    \A from, to : \A s \in CreateSteps(from, to) :
        /\ s.step = "CreateTable"
        /\ \E t \in DOMAIN to.def \ DOMAIN from.def : s = CreateTable(t, to.def[t])

\* ALTER TABLE.
AlterFieldsFact ==
    \A from, to : \A s \in AlterSteps(from, to) :
        /\ s.step = "AlterTable" /\ IsChange(s)
        /\ \E t \in Both(from, to) : s = ChangeOf(from, to, t)

\* CREATE INDEX.
CreateIndexFieldsFact ==
    \A from, to : \A s \in CreateIndexSteps(from, to) :
        /\ s.step = "CreateIndex"
        /\ \E t \in DOMAIN to.def : \E i \in NewIndexes(from, to, t) :
              s = CreateIndex(t, i, to.def[t].indices[i])

\* Renamed indexes.
RenameFieldsFact ==
    \A from, to : \A s \in RenameSteps(from, to) :
        /\ s.step = "AlterIndex"
        /\ \E t \in Both(from, to) : \E r \in Renamed(from, to, t) :
              s = AlterIndex(t, r[1], r[2])

\* Together.
StepFieldsFact ==
    /\ DropIndexFieldsFact /\ DropFieldsFact /\ CreateFieldsFact
    /\ AlterFieldsFact /\ CreateIndexFieldsFact /\ RenameFieldsFact

\* The kinds of steps the differ makes.
DiffKindsFact ==
    \A from, to : \A s \in DiffSteps(from, to) \cup DelayedSteps(from, to) :
        s.step \in {"DropIndex", "DropTables", "CreateTable", "AlterTable", "CreateIndex", "AlterIndex"}

\* What the constructors of steps make, one by one.
DropTablesShapeFact ==
    \A n : DropTables(n).step = "DropTables" /\ DropTables(n).names = n

\* CREATE TABLE.
CreateTableShapeFact ==
    \A t, d : CreateTable(t, d).step = "CreateTable" /\ CreateTable(t, d).table = t
                 /\ CreateTable(t, d).def = d

\* DROP INDEX.
DropIndexShapeFact ==
    \A t, i : DropIndex(t, i).step = "DropIndex" /\ DropIndex(t, i).table = t /\ DropIndex(t, i).index = i

\* CREATE INDEX.
CreateIndexShapeFact ==
    \A t, i, d : CreateIndex(t, i, d).step = "CreateIndex" /\ CreateIndex(t, i, d).table = t
                    /\ CreateIndex(t, i, d).index = i /\ CreateIndex(t, i, d).def = d

\* Renamed indexes.
AlterIndexShapeFact ==
    \A t, i, j : AlterIndex(t, i, j).step = "AlterIndex" /\ AlterIndex(t, i, j).table = t
                    /\ AlterIndex(t, i, j).index = i /\ AlterIndex(t, i, j).new = j

\* Together.
StepShapesFact ==
    /\ DropTablesShapeFact /\ CreateTableShapeFact /\ DropIndexShapeFact
    /\ CreateIndexShapeFact /\ AlterIndexShapeFact

\* The fields of an ALTER TABLE of the differ.
ChangeFieldsFact ==
    \A from, to, t :
        LET s == ChangeOf(from, to, t)
            p == from.def[t].columns
            n == to.def[t].columns
        IN  /\ s.step = "AlterTable" /\ s.table = t /\ s.def = to.def[t]
            /\ s.drop = DOMAIN p \ DOMAIN n /\ s.add = DOMAIN n \ DOMAIN p
            /\ s.alter = {c \in DOMAIN p \cap DOMAIN n : ColumnDiffers(p[c], n[c])}

\* The PRAGMAs that switch foreign keys off and on.
SwitchFieldsFact ==
    /\ SwitchOff.step = "ForeignKeys" /\ SwitchOff.on = FALSE /\ SwitchOff.on \in BOOLEAN
    /\ SwitchOn.step = "ForeignKeys" /\ SwitchOn.on = TRUE /\ SwitchOn.on \in BOOLEAN

\* The statements of fix(): as many as the new table has indexes, and six more.
FixShapeFact ==
    \A current, next, t :
        IsFiniteSet(DOMAIN next.indices) =>
            /\ \E X : Fix(current, next, t) \in Seq(X)
            /\ Lists(IndexList(next), DOMAIN next.indices) /\ Len(IndexList(next)) \in Nat
            /\ FixForm(Fix(current, next, t), current, next, t)

\* Only a table of both schemas is rewritten.
RewrittenTableFact ==
    \A from, to : \A s \in DiffSteps(from, to) :
        Rewrites(s) =>
            s.table \in Both(from, to)

\* Rendering keeps the names of columns.
RenderedColumnsFact ==
    \A columns :
        columns \in [DOMAIN columns -> Column] =>
            /\ RenderColumns(columns) \in [DOMAIN columns -> Column]
            /\ DOMAIN RenderColumns(columns) = DOMAIN columns
            /\ \A c \in DOMAIN columns : RenderColumns(columns)[c] = RenderColumn(columns[c])

\* CREATE TABLE makes a proper table.
CreatedTableOKFact ==
    \A t, d :
        TableOK(t, d) =>
            LET new == [d EXCEPT !.columns = RenderColumns(@), !.indices = NoIndices]
            IN  /\ TableOK(t, new)
                /\ new.columns = RenderColumns(d.columns) /\ new.pk = d.pk
                /\ new.indices = NoIndices

\* What every statement does to the live tables.
TablesAfterIsFact ==
    \A s :
        DefOK(tables) /\ StepOK(s) /\ Accepts(s) =>
            /\ s.step = "CreateTable" =>
                 TablesAfter(s) = With(tables, s.table,
                    [s.def EXCEPT !.columns = RenderColumns(@), !.indices = NoIndices])
            /\ s.step = "DropTables" => TablesAfter(s) = Without(tables, s.names)
            /\ s.step = "AlterTable" =>
                 TablesAfter(s) = With(tables, s.table, Altered(tables[s.table], s))
            /\ s.step = "RenameTable" =>
                 TablesAfter(s) = With(Without(tables, {s.table}), s.new, tables[s.table])
            /\ s.step = "CreateIndex" =>
                 TablesAfter(s) = With(tables, s.table, [tables[s.table] EXCEPT
                     !.indices = With(tables[s.table].indices, s.index, s.def)])
            /\ s.step = "DropIndex" =>
                 TablesAfter(s) = With(tables, s.table, [tables[s.table] EXCEPT
                     !.indices = Without(tables[s.table].indices, {s.index})])
            /\ s.step = "AlterIndex" =>
                 TablesAfter(s) = With(tables, s.table, [tables[s.table] EXCEPT
                     !.indices = With(Without(tables[s.table].indices, {s.index}), s.new,
                                      tables[s.table].indices[s.index])])
            /\ s.step \in {"CopyRows", "ForeignKeys"} => TablesAfter(s) = tables

\* All of them; SqlStepProofs proves them.
StepFacts ==
    /\ FiniteSubsetFact /\ FiniteNoneFact /\ TableNamedFact /\ FinalBaseFact
    /\ BothFinalFact /\ StepFieldsFact /\ DiffKindsFact /\ StepShapesFact
    /\ ChangeFieldsFact /\ SwitchFieldsFact /\ FixShapeFact /\ RewrittenTableFact
    /\ RenderedColumnsFact /\ CreatedTableOKFact /\ TablesAfterIsFact

=============================================================================
