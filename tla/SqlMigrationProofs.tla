------------------------- MODULE SqlMigrationProofs -------------------------
(***************************************************************************)
(* Type correctness of a database migration and where in its statements it *)
(* is, on either database; that its rewrites switch foreign keys on again, *)
(* and that on SQLite no value is lost on the way, for every set of models *)
(* and datamodels and any number of migrations.                            *)
(***************************************************************************)
EXTENDS SqlPlans, TLAPS

\* Time for the provers.
USE SMTT(60)

-----------------------------------------------------------------------------
(* What is known of rows; SqlStepProofs proves it.                         *)

\* The statements of a step are a sequence.
BlockShapeFact ==
    \A from, to : \A s \in DiffSteps(from, to) :
        SchemaOK(from) /\ SchemaOK(to) =>
            \E X : Block(from, to, s) \in Seq(X)

\* Every statement that the database accepts leaves proper tables.
TablesStayOKFact ==
    \A s :
        DefOK(tables) /\ StepOK(s) /\ Accepts(s) =>
            DefOK(TablesAfter(s))

\* What every statement does to the rows.
RowsAfterIsFact ==
    \A s :
        StepOK(s) =>
            /\ s.step = "CreateTable" => RowsAfter(s) = With(rows, s.table, NoRows)
            /\ s.step = "DropTables" =>
                 RowsAfter(s) = [u \in DOMAIN rows \ s.names |-> AfterDelete(u, s.names)]
            /\ s.step = "AlterTable" =>
                 RowsAfter(s) = With(rows, s.table,
                     AddedTo([values |-> rows[s.table].values \ (s.drop \cup s.alter),
                              nulls |-> rows[s.table].nulls \ (s.drop \cup s.alter)],
                             s.def, s.add \cup s.alter))
            /\ s.step = "RenameTable" =>
                 RowsAfter(s) = With(Without(rows, {s.table}), s.new, rows[s.table])
            /\ s.step = "CopyRows" =>
                 RowsAfter(s) = With(rows, s.new,
                     AddedTo([values |-> rows[s.table].values \cap s.columns,
                              nulls |-> rows[s.table].nulls \cap s.columns],
                             tables[s.new], DOMAIN tables[s.new].columns \ s.columns))
            /\ s.step \in {"CreateIndex", "DropIndex", "AlterIndex", "ForeignKeys"} =>
                 RowsAfter(s) = rows

\* The values of added columns: the old ones stay, no others than theirs come.
AddedValuesFact ==
    \A v, n, def, names :
        LET r == AddedTo([values |-> v, nulls |-> n], def, names)
        IN  v \subseteq r.values /\ r.values \subseteq v \cup names

\* Rows never have values in columns that their table has not.
RowsStayOKFact ==
    \A s :
        DefOK(tables) /\ RowsOK /\ StepOK(s) /\ Accepts(s) =>
            /\ DOMAIN RowsAfter(s) = DOMAIN TablesAfter(s)
            /\ \A t \in DOMAIN RowsAfter(s) : RowsAfter(s)[t].values \subseteq DOMAIN TablesAfter(s)[t].columns

\* All of it.
RowFacts ==
    /\ BlockShapeFact /\ TablesStayOKFact /\ RowsAfterIsFact /\ AddedValuesFact
    /\ RowsStayOKFact

-----------------------------------------------------------------------------
(* What PlanFacts says, one by one.                                        *)

\* Finite sets can be listed.
LEMMA KnownFinite ==
    ASSUME PlanFacts
    PROVE  Enumerated
BY Zenon DEF PlanFacts

\* The empty schema.
LEMMA KnownEmpty ==
    ASSUME PlanFacts
    PROVE  /\ SchemaOK(Schema(<<>>, <<>>))
           /\ Schema(<<>>, <<>>).def = <<>>
           /\ DOMAIN Schema(<<>>, <<>>).def = {}
BY Zenon DEF PlanFacts

\* The schema that the describer reads from the tables.
LEMMA KnownDescribed ==
    ASSUME PlanFacts, NEW def, DefOK(def)
    PROVE  /\ SchemaOK(Schema(DescriberOrder, def))
           /\ Schema(DescriberOrder, def).def = def
BY Zenon DEF PlanFacts

\* The schema that SqlSchemaCalculator makes of a datamodel.
LEMMA KnownCalculated ==
    ASSUME PlanFacts, NEW dm, dm \in UNION Projects
    PROVE  Calculated(Calculate(dm))
BY Zenon DEF PlanFacts

\* The steps that SqlSchemaDiffer infers.
LEMMA KnownSteps ==
    ASSUME PlanFacts, NEW from, NEW to, SchemaOK(from), SchemaOK(to)
    PROVE  Lists(OriginalSteps(from, to), DiffSteps(from, to)) /\ Sorted(OriginalSteps(from, to))
BY Zenon DEF PlanFacts

\* The first and the last statement of SQLite.
LEMMA KnownEnds ==
    ASSUME PlanFacts, Family = "sqlite", NEW from, NEW to, SchemaOK(from), SchemaOK(to)
    PROVE  /\ Len(CorrectedSteps(from, to)) \in Nat
           /\ \E X : CorrectedSteps(from, to) \in Seq(X)
           /\ Calm(from, to, 1) /\ Todo(from, to, 1) = Effective(from, to)
           /\ Todo(from, to, Len(CorrectedSteps(from, to)) + 1) = {}
           /\ \A n \in 1 .. Len(CorrectedSteps(from, to)) : \E s, j : Current(from, to, n, s, j)
BY Zenon DEF PlanFacts

\* The statements of SQLite one after the other.
LEMMA KnownProgress ==
    ASSUME PlanFacts, Family = "sqlite", NEW from, NEW to, SchemaOK(from), SchemaOK(to),
           NEW n, NEW s, NEW j, Current(from, to, n, s, j)
    PROVE  Progress(from, to, n, s, j)
BY Zenon DEF PlanFacts

\* The statements of PostgreSQL.
LEMMA KnownPostgres ==
    ASSUME PlanFacts, Family = "postgres", NEW from, NEW to, SchemaOK(from), SchemaOK(to)
    PROVE  /\ ~IdChanges(from, to) =>
                 /\ Lists(CorrectedSteps(from, to), DelayedSteps(from, to))
                 /\ Sorted(CorrectedSteps(from, to))
           /\ IdChanges(from, to) =>
                 \E rest : /\ CorrectedSteps(from, to) = <<DropTables(DOMAIN from.def)>> \o rest
                           /\ Lists(rest, DelayedSteps(Schema(<<>>, <<>>), to))
                           /\ Sorted(rest)
BY Zenon DEF PlanFacts

\* The statements are well-formed.
LEMMA ProgramOK ==
    ASSUME PlanFacts, NEW from, NEW to, Paired(from, to)
    PROVE  LET All == CorrectedSteps(from, to)
           IN  /\ \E X : All \in Seq(X)
               /\ \A n \in 1 .. Len(All) : StepOK(All[n])
BY Zenon DEF PlanFacts

\* Every statement of SQLite is a step or a part of a rewrite.
LEMMA SqliteStatement ==
    ASSUME PlanFacts, Family = "sqlite", NEW from, NEW to, Paired(from, to),
           NEW n, NEW s, NEW j, Current(from, to, n, s, j)
    PROVE  LET h == CorrectedSteps(from, to)[n]
           IN  \/ ~Rewrites(s) /\ h = s /\ j = 1 /\ Len(Block(from, to, s)) = 1
               \/ /\ Rewrites(s) /\ s.table \in Both(from, to) /\ s.table \in FinalTables
                  /\ Len(IndexList(to.def[s.table])) \in Nat
                  /\ Lists(IndexList(to.def[s.table]), DOMAIN to.def[s.table].indices)
                  /\ Len(Block(from, to, s)) = Len(IndexList(to.def[s.table])) + 6
                  /\ Rewriting(from, to, s.table, j, h)
<1>1. Statement(from, to, s, j, CorrectedSteps(from, to)[n])
  BY Zenon DEF PlanFacts
<1> QED BY <1>1, Zenon DEF Statement

-----------------------------------------------------------------------------
(* The types of the state.                                                 *)

\* A program that has not started.
LEMMA AtFirst ==
    ASSUME PlanFacts, NEW g, GoalOK(g)
    PROVE  Remaining(g, Program(g), 1)
<1>1. PICK X : Program(g) \in Seq(X)
  BY ProgramOK, Zenon DEF GoalOK, Program
<1>2. SubSeq(Program(g), 1, Len(Program(g))) = Program(g) /\ Len(Program(g)) \in Nat
  BY <1>1
<1> QED BY <1>2 DEF Remaining

\* A program of which statements remain.
LEMMA AtNext ==
    ASSUME PlanFacts, NEW g, GoalOK(g), NEW st, NEW n, Remaining(g, st, n), st # <<>>
    PROVE  /\ n \in 1 .. Len(Program(g)) /\ Len(Program(g)) \in Nat
           /\ Head(st) = Program(g)[n]
           /\ Remaining(g, Tail(st), n + 1)
           /\ StepOK(Head(st))
<1> DEFINE P == Program(g)
<1>1. PICK X : P \in Seq(X)
  BY ProgramOK, Zenon DEF GoalOK, Program
<1>2. \A i \in 1 .. Len(P) : StepOK(P[i])
  BY ProgramOK, Zenon DEF GoalOK, Program
<1>3. n \in 1 .. Len(P) + 1 /\ st = SubSeq(P, n, Len(P))
  BY Zenon DEF Remaining
<1> HIDE DEF P
<1>4. Len(P) \in Nat /\ n \in Nat
  BY <1>1, <1>3
<1>5. n # Len(P) + 1
  <2> SUFFICES ASSUME n = Len(P) + 1
               PROVE  FALSE
    BY Zenon
  <2>1. st = <<>>
    BY <1>1, <1>3, <1>4
  <2> QED BY <2>1, Zenon
<1>6. n \in 1 .. Len(P)
  BY <1>3, <1>4, <1>5
<1>7. Len(st) = Len(P) - n + 1 /\ st \in Seq(X)
  BY <1>1, <1>3, <1>4, <1>6
<1>8. Head(st) = P[n]
  BY <1>1, <1>3, <1>4, <1>6
<1>9. Tail(st) = SubSeq(P, n + 1, Len(P))
  <2>1. Len(st) # 0
    BY <1>4, <1>6, <1>7
  <2>2. /\ Tail(st) \in Seq(X) /\ Len(Tail(st)) = Len(st) - 1
        /\ \A i \in 1 .. Len(st) - 1 : Tail(st)[i] = st[i + 1]
    BY <1>7, <2>1
  <2>3. /\ SubSeq(P, n + 1, Len(P)) \in Seq(X)
        /\ Len(SubSeq(P, n + 1, Len(P))) = Len(P) - n
        /\ \A i \in 1 .. Len(P) - n : SubSeq(P, n + 1, Len(P))[i] = P[n + i]
    BY <1>1, <1>4, <1>6
  <2>4. \A i \in 1 .. Len(st) - 1 : st[i + 1] = P[n + i]
    BY <1>1, <1>3, <1>4, <1>6, <1>7
  <2>5. Len(st) - 1 = Len(P) - n
    BY <1>4, <1>6, <1>7
  <2> DEFINE u == Tail(st)
             w == SubSeq(P, n + 1, Len(P))
  <2>6. /\ u \in Seq(X) /\ w \in Seq(X) /\ Len(u) = Len(w)
        /\ \A i \in 1 .. Len(u) : u[i] = w[i]
    BY <2>2, <2>3, <2>4, <2>5
  <2> HIDE DEF u, w
  <2>7. u = w
    BY <2>6
  <2> QED BY <2>7, Zenon DEF u, w
<1>10. Remaining(g, Tail(st), n + 1)
  BY <1>4, <1>6, <1>9 DEF Remaining, P
<1> QED BY <1>2, <1>4, <1>6, <1>8, <1>10, Zenon DEF P

\* A program that is done.
LEMMA AtEnd ==
    ASSUME PlanFacts, NEW g, GoalOK(g), NEW n, Remaining(g, <<>>, n)
    PROVE  n = Len(Program(g)) + 1
<1> DEFINE P == Program(g)
<1>1. PICK X : P \in Seq(X)
  BY ProgramOK, Zenon DEF GoalOK, Program
<1>3. n \in 1 .. Len(P) + 1 /\ <<>> = SubSeq(P, n, Len(P))
  BY Zenon DEF Remaining
<1> HIDE DEF P
<1>4. Len(P) \in Nat /\ n \in Nat
  BY <1>1, <1>3
<1>5. Len(SubSeq(P, n, Len(P))) = Len(P) - n + 1
  BY <1>1, <1>3, <1>4
<1>6. Len(P) - n + 1 = 0
  BY <1>3, <1>5, Zenon
<1> QED BY <1>4, <1>6 DEF P

\* The stored migrations, marked as no longer to be relied on after a failure.
LEMMA UndoUncleaned ==
    ASSUME NEW u, \E X : u \in Seq(X), \A k \in DOMAIN u : GoalOK(u[k])
    PROVE  /\ \E X : Unclean(u) \in Seq(X)
           /\ DOMAIN Unclean(u) = DOMAIN u
           /\ \A k \in DOMAIN u : GoalOK(Unclean(u)[k]) /\ ~Unclean(u)[k].clean
<1>1. PICK X : u \in Seq(X)
  BY Zenon
<1>2. Unclean(u) = [i \in DOMAIN u |-> [u[i] EXCEPT !.clean = FALSE]]
  BY Zenon DEF Unclean, MapSeq
<1> DEFINE Y == {[u[i] EXCEPT !.clean = FALSE] : i \in DOMAIN u}
           w == Unclean(u)
<1>3. Unclean(u) \in Seq(Y)
  <2>1. DOMAIN u = 1 .. Len(u) /\ Len(u) \in Nat
    BY <1>1
  <2>2. Unclean(u) \in [1 .. Len(u) -> Y]
    BY <1>2, <2>1, Zenon
  <2> HIDE DEF Y
  <2> QED BY <2>1, <2>2
<1>4. DOMAIN Unclean(u) = DOMAIN u
  BY <1>2, Zenon
<1>5. ASSUME NEW k \in DOMAIN u
      PROVE  GoalOK(Unclean(u)[k]) /\ ~Unclean(u)[k].clean
  <2> DEFINE g == u[k]
             h == Unclean(u)[k]
  <2>1. h = [g EXCEPT !.clean = FALSE]
    BY <1>2, Zenon
  <2>2. g = [before |-> g.before, after |-> g.after, clean |-> g.clean, enforced |-> g.enforced]
        /\ g.enforced \in BOOLEAN /\ Paired(g.before, g.after)
    BY Zenon DEF GoalOK
  <2> HIDE DEF g, h
  <2>3. h = [before |-> g.before, after |-> g.after, clean |-> FALSE, enforced |-> g.enforced]
    BY <2>1, <2>2, Zenon
  <2>4. /\ h.before = g.before /\ h.after = g.after /\ h.enforced = g.enforced /\ h.clean = FALSE
    BY <2>3, Zenon
  <2>5. h = [before |-> h.before, after |-> h.after, clean |-> h.clean, enforced |-> h.enforced]
    BY <2>3, <2>4, Zenon
  <2>6. GoalOK(h) /\ ~h.clean
    BY <2>2, <2>4, <2>5, Zenon DEF GoalOK
  <2> QED BY <2>6, Zenon DEF h
<1> QED BY <1>3, <1>4, <1>5, Zenon

\* The types of all variables hold at first.
LEMMA TypesInit == ASSUME PlanFacts, Init PROVE TypesOK
<1>1. /\ SchemaOK(Schema(<<>>, <<>>)) /\ DOMAIN Schema(<<>>, <<>>).def = {}
  BY KnownEmpty, Zenon
<1>2. Paired(goal.before, goal.after) /\ goal.clean = TRUE /\ goal.enforced = TRUE
  <2>1. goal.before = Schema(<<>>, <<>>) /\ goal.after = Schema(<<>>, <<>>)
        /\ goal.clean = TRUE /\ goal.enforced = TRUE
    BY Zenon DEF Init
  <2> QED BY <1>1, <2>1, Zenon DEF Paired
<1>3. goal = [before |-> goal.before, after |-> goal.after, clean |-> goal.clean,
              enforced |-> goal.enforced]
  BY Zenon DEF Init
<1>4. GoalOK(goal)
  BY <1>2, <1>3, Zenon DEF GoalOK
<1>5. DefOK(tables) /\ RowsOK
  BY DEF Init, DefOK, RowsOK
<1>6. undo \in Seq({}) /\ DOMAIN undo = {}
  BY DEF Init
<1> QED BY <1>4, <1>5, <1>6, Zenon DEF Init, TypesOK, AtRest

\* applyMigration keeps them and starts with the first statement.
LEMMA MigrateTypes ==
    ASSUME PlanFacts, TypesOK, NEW dm \in project, NEW force, Migrate(dm, force)
    PROVE  /\ TypesOK'
           /\ Remaining(goal', steps', 1)
           /\ goal'.before.def = tables
<1> DEFINE from == Described
           to == Calculate(dm)
<1>1. SchemaOK(from) /\ from.def = tables
  BY KnownDescribed, Zenon DEF Described, TypesOK
<1>2. Calculated(to)
  <2>1. dm \in UNION Projects
    BY Zenon DEF TypesOK
  <2> QED BY <2>1, KnownCalculated, Zenon
<1>3. Paired(from, to)
  BY <1>1, <1>2, Zenon DEF Paired, Calculated
<1>4. /\ goal' = [before |-> from, after |-> to, clean |-> TRUE, enforced |-> enforced]
      /\ steps' = CorrectedSteps(from, to)
      /\ status' = "applying"
      /\ UNCHANGED <<tables, rows, enforced, undo, project>>
  BY Zenon DEF Migrate
<1> HIDE DEF from, to
<1>5. goal'.before = from /\ goal'.after = to /\ goal'.clean = TRUE /\ goal'.enforced = enforced
  BY <1>4, Zenon
<1>6. goal' = [before |-> goal'.before, after |-> goal'.after, clean |-> goal'.clean,
               enforced |-> goal'.enforced]
  BY <1>4, <1>5, Zenon
<1>7. GoalOK(goal')
  BY <1>3, <1>5, <1>6, Zenon DEF GoalOK, TypesOK
<1>8. Remaining(goal', steps', 1)
  BY <1>4, <1>5, <1>7, AtFirst, Zenon DEF Program
<1>9. TypesOK'
  BY <1>2, <1>4, <1>5, <1>7, <1>8, Zenon DEF TypesOK, RowsOK, AtRest
<1> QED BY <1>1, <1>5, <1>8, <1>9, Zenon

\* unapplyMigration, too.
LEMMA UnapplyTypes ==
    ASSUME PlanFacts, TypesOK, Unapply
    PROVE  /\ TypesOK'
           /\ Remaining(goal', steps', 1)
<1> DEFINE m == Head(undo)
<1>1. m = undo[1] /\ 1 \in DOMAIN undo /\ DOMAIN Tail(undo) = 1 .. Len(undo) - 1
      /\ (\A k \in DOMAIN Tail(undo) : Tail(undo)[k] = undo[k + 1] /\ k + 1 \in DOMAIN undo)
      /\ \E X : Tail(undo) \in Seq(X)
  BY DEF TypesOK, Unapply
<1>2. GoalOK(m)
  BY <1>1, Zenon DEF TypesOK
<1>3. /\ goal' = [before |-> m.after, after |-> m.before, clean |-> m.clean, enforced |-> enforced]
      /\ steps' = CorrectedSteps(m.after, m.before)
      /\ status' = "unapplying"
      /\ undo' = Tail(undo)
      /\ UNCHANGED <<tables, rows, enforced, project>>
  BY Zenon DEF Unapply
<1> HIDE DEF m
<1>4. Paired(m.after, m.before) /\ m.clean \in BOOLEAN
  BY <1>2, Zenon DEF GoalOK, Paired
<1>5. goal'.before = m.after /\ goal'.after = m.before /\ goal'.clean = m.clean
      /\ goal'.enforced = enforced
  BY <1>3, Zenon
<1>6. goal' = [before |-> goal'.before, after |-> goal'.after, clean |-> goal'.clean,
               enforced |-> goal'.enforced]
  BY <1>3, <1>5, Zenon
<1>7. GoalOK(goal')
  BY <1>4, <1>5, <1>6, Zenon DEF GoalOK, TypesOK
<1>8. Remaining(goal', steps', 1)
  BY <1>3, <1>5, <1>7, AtFirst, Zenon DEF Program
<1>9. \A k \in DOMAIN undo' : GoalOK(undo'[k])
  BY <1>1, <1>3, Zenon DEF TypesOK
<1>10. (\E X : undo' \in Seq(X)) /\ (\E n : Remaining(goal', steps', n))
  BY <1>1, <1>3, <1>8, Zenon
<1>11. TypesOK'
  BY <1>3, <1>7, <1>9, <1>10, Zenon DEF TypesOK, RowsOK, AtRest
<1> QED BY <1>8, <1>11, Zenon

\* A statement keeps them and leads to the next one.
LEMMA ExecuteTypes ==
    ASSUME RowFacts, PlanFacts, TypesOK, ExecuteStep
    PROVE  /\ TypesOK'
           /\ StepOK(Head(steps)) /\ Accepts(Head(steps))
           /\ UNCHANGED <<status, goal, undo, kept>>
           /\ \E n : /\ Remaining(goal, steps, n) /\ Remaining(goal, steps', n + 1)
                     /\ n \in 1 .. Len(Program(goal)) /\ Head(steps) = Program(goal)[n]
<1>1. /\ DefOK(tables) /\ RowsOK /\ GoalOK(goal) /\ ~AtRest /\ steps # <<>>
      /\ enforced \in BOOLEAN
  BY Zenon DEF TypesOK, ExecuteStep
<1>2. PICK n : Remaining(goal, steps, n)
  BY Zenon DEF TypesOK, ExecuteStep
<1>3. /\ n \in 1 .. Len(Program(goal)) /\ Head(steps) = Program(goal)[n]
      /\ Remaining(goal, Tail(steps), n + 1) /\ StepOK(Head(steps))
  BY <1>1, <1>2, AtNext, Zenon
<1>4. /\ Accepts(Head(steps)) /\ tables' = TablesAfter(Head(steps)) /\ rows' = RowsAfter(Head(steps))
      /\ enforced' = (IF Head(steps).step = "ForeignKeys" THEN Head(steps).on ELSE enforced)
      /\ steps' = Tail(steps)
      /\ UNCHANGED <<status, goal, undo, kept, project, count>>
  BY Zenon DEF ExecuteStep
<1>5. DefOK(tables')
  BY <1>1, <1>3, <1>4, Zenon DEF RowFacts, TablesStayOKFact
<1>6. RowsOK'
  BY <1>1, <1>3, <1>4, Zenon DEF RowsOK, RowFacts, RowsStayOKFact
<1>7. enforced' \in BOOLEAN
  <2>1. CASE Head(steps).step = "ForeignKeys"
    <3>1. Head(steps).on \in BOOLEAN
      BY <1>3, <2>1, Zenon DEF StepOK
    <3> QED BY <1>4, <2>1, <3>1, Zenon
  <2>2. CASE Head(steps).step # "ForeignKeys"
    BY <1>1, <1>4, <2>2, Zenon
  <2> QED BY <2>1, <2>2, Zenon
<1>8. Remaining(goal', steps', n + 1)
  BY <1>3, <1>4, Zenon
<1>9. TypesOK'
  <2>1. \E k : Remaining(goal', steps', k)
    BY <1>8, Zenon
  <2>2. /\ status' = status /\ goal' = goal /\ undo' = undo /\ project' = project
    BY <1>4, Zenon
  <2> QED BY <1>5, <1>6, <1>7, <2>1, <2>2, Zenon DEF TypesOK, AtRest
<1> QED BY <1>2, <1>3, <1>4, <1>9, Zenon

\* A statement that fails keeps them.
LEMMA FailTypes == ASSUME TypesOK, FailStep PROVE TypesOK'
<1>1. /\ \E X : Unclean(undo) \in Seq(X)
      /\ DOMAIN Unclean(undo) = DOMAIN undo
      /\ \A k \in DOMAIN undo : GoalOK(Unclean(undo)[k])
  BY UndoUncleaned, Zenon DEF TypesOK
<1>2. undo' = Unclean(undo) /\ status' = "failure" /\ UNCHANGED <<tables, rows, enforced, goal, project>>
  BY Zenon DEF FailStep
<1> QED BY <1>1, <1>2, Zenon DEF TypesOK, RowsOK, AtRest

\* The end of a migration or of a rollback keeps them.
LEMMA FinishTypes == ASSUME TypesOK, Finish PROVE TypesOK'
<1>1. /\ \E X : Unclean(undo) \in Seq(X)
      /\ DOMAIN Unclean(undo) = DOMAIN undo
      /\ \A k \in DOMAIN undo : GoalOK(Unclean(undo)[k])
  BY UndoUncleaned, Zenon DEF TypesOK
<1>2. UNCHANGED <<tables, rows, enforced, goal, project>>
  BY Zenon DEF Finish
<1>3. CASE /\ status = "applying" /\ status' = "success" /\ undo' = <<goal>> \o undo
  <2>1. PICK X : undo \in Seq(X)
    BY Zenon DEF TypesOK
  <2>2. <<goal>> \o undo \in Seq(X \cup {goal})
    <3>1. undo \in Seq(X \cup {goal}) /\ <<goal>> \in Seq(X \cup {goal})
      BY <2>1
    <3> QED BY <3>1
  <2>3. \A k \in DOMAIN (<<goal>> \o undo) :
            \/ (<<goal>> \o undo)[k] = goal
            \/ \E i \in DOMAIN undo : (<<goal>> \o undo)[k] = undo[i]
    <3>1. DOMAIN undo = 1 .. Len(undo) /\ Len(undo) \in Nat
      BY <2>1
    <3>2. DOMAIN (<<goal>> \o undo) = 1 .. Len(undo) + 1
      BY <2>1
    <3>3. (<<goal>> \o undo)[1] = goal /\ \A k \in 2 .. Len(undo) + 1 : (<<goal>> \o undo)[k] = undo[k - 1]
      BY <2>1
    <3>4. \A k \in 1 .. Len(undo) + 1 : k # 1 => k \in 2 .. Len(undo) + 1 /\ k - 1 \in 1 .. Len(undo)
      BY <3>1
    <3> QED BY <3>1, <3>2, <3>3, <3>4, Zenon
  <2>4. \A k \in DOMAIN undo' : GoalOK(undo'[k])
    BY <1>3, <2>3, Zenon DEF TypesOK
  <2>5. \E Y : undo' \in Seq(Y)
    BY <1>3, <2>2, Zenon
  <2> QED BY <1>2, <1>3, <2>4, <2>5, Zenon DEF TypesOK, RowsOK, AtRest
<1>4. CASE /\ status' = "rolled_back" /\ undo' \in {undo, Unclean(undo)}
  <2>1. (\E X : undo' \in Seq(X)) /\ \A k \in DOMAIN undo' : GoalOK(undo'[k])
    BY <1>1, <1>4, Zenon DEF TypesOK
  <2> QED BY <1>2, <1>4, <2>1, Zenon DEF TypesOK, RowsOK, AtRest
<1> QED BY <1>3, <1>4, Zenon DEF Finish

\* A client that writes rows keeps them.
LEMMA WriteTypes ==
    ASSUME TypesOK, NEW t \in DOMAIN tables, NEW values \in SUBSET DOMAIN tables[t].columns, NEW nulls,
           WriteRows(t, values, nulls)
    PROVE  TypesOK'
<1>1. /\ rows' = [rows EXCEPT ![t] = [values |-> values, nulls |-> nulls]]
      /\ UNCHANGED <<tables, enforced, status, steps, goal, undo, project>>
  BY Zenon DEF WriteRows
<1>2. RowsOK'
  BY <1>1, Zenon DEF TypesOK, RowsOK
<1> QED BY <1>1, <1>2, Zenon DEF TypesOK, AtRest

\* Every step keeps them.
LEMMA TypesInductive == ASSUME RowFacts, PlanFacts, TypesOK, [Next]_vars PROVE TypesOK'
<1>1. CASE UNCHANGED vars
  BY <1>1, Zenon DEF TypesOK, RowsOK, AtRest, vars
<1>2. CASE \E dm \in project, force \in BOOLEAN : Migrate(dm, force)
  BY <1>2, MigrateTypes, Zenon
<1>3. CASE MigrateNothing
  BY <1>1, <1>3, Zenon DEF MigrateNothing
<1>4. CASE \E t \in DOMAIN tables :
          \E values, nulls \in SUBSET DOMAIN tables[t].columns : WriteRows(t, values, nulls)
  BY <1>4, WriteTypes, Zenon
<1> QED BY <1>1, <1>2, <1>3, <1>4, UnapplyTypes, ExecuteTypes, FailTypes, FinishTypes, Zenon DEF Next

-----------------------------------------------------------------------------
(* Where a migration is.                                                   *)

\* The statements that remain tell the position in the program.
LEMMA PositionIs ==
    ASSUME PlanFacts, NEW g, NEW st, GoalOK(g), NEW n, Remaining(g, st, n)
    PROVE  n = Position(g, st)
<1> DEFINE P == Program(g)
<1>1. PICK X : P \in Seq(X)
  BY ProgramOK, Zenon DEF GoalOK, Program
<1>2. n \in 1 .. Len(P) + 1 /\ st = SubSeq(P, n, Len(P))
  BY Zenon DEF Remaining
<1> HIDE DEF P
<1>3. Len(P) \in Nat /\ n \in Nat
  BY <1>1, <1>2
<1>4. Len(st) = Len(P) - n + 1
  BY <1>1, <1>2, <1>3
<1>5. n = Len(P) - Len(st) + 1
  BY <1>3, <1>4
<1> QED BY <1>5, Zenon DEF Position, P

\* The same for the current one.
LEMMA HereIs ==
    ASSUME PlanFacts, TypesOK, NEW n, Remaining(goal, steps, n)
    PROVE  n = Here
BY PositionIs, Zenon DEF TypesOK, Here

\* It starts with the first one.
LEMMA HereStarts ==
    ASSUME PlanFacts, TypesOK', Remaining(goal', steps', 1)
    PROVE  Here' = 1
<1> DEFINE one == 1
<1> HIDE DEF one
<1>1. GoalOK(goal') /\ Remaining(goal', steps', one)
  BY Zenon DEF TypesOK, one
<1>2. one = Position(goal', steps')
  BY <1>1, PositionIs, Zenon
<1> QED BY <1>2, Zenon DEF Here, one

\* On SQLite every remaining statement belongs to a step of the differ.
LEMMA SqliteExecutes ==
    ASSUME PlanFacts, Family = "sqlite", TypesOK, ~AtRest, steps # <<>>
    PROVE  \E s, j : Executes(s, j)
<1> DEFINE from == goal.before
           to == goal.after
<1>1. PICK n : Remaining(goal, steps, n)
  BY Zenon DEF TypesOK
<1>2. GoalOK(goal)
  BY Zenon DEF TypesOK
<1>3. n = Here
  BY <1>1, HereIs, Zenon
<1>4. n \in 1 .. Len(CorrectedSteps(from, to)) /\ Head(steps) = CorrectedSteps(from, to)[n]
  BY <1>1, <1>2, AtNext, Zenon DEF Program
<1>5. Paired(from, to) /\ SchemaOK(from) /\ SchemaOK(to)
  BY <1>2, Zenon DEF GoalOK, Paired
<1>6. PICK s, j : Current(from, to, n, s, j)
  BY <1>4, <1>5, KnownEnds, Zenon
<1>7. Progress(from, to, n, s, j)
  BY <1>5, <1>6, KnownProgress, Zenon
<1>8. s \in DiffSteps(from, to)
  BY <1>7, Zenon DEF Progress, Effective
<1> HIDE DEF from, to
<1>9. \/ ~Rewrites(s) /\ Head(steps) = s /\ j = 1 /\ Len(Block(from, to, s)) = 1
      \/ /\ Rewrites(s) /\ s.table \in Both(from, to) /\ s.table \in FinalTables
         /\ Len(IndexList(to.def[s.table])) \in Nat
         /\ Lists(IndexList(to.def[s.table]), DOMAIN to.def[s.table].indices)
         /\ Len(Block(from, to, s)) = Len(IndexList(to.def[s.table])) + 6
         /\ Rewriting(from, to, s.table, j, Head(steps))
  <2> HIDE DEF Here
  <2>1. Head(steps) = CorrectedSteps(from, to)[n]
    BY <1>4, Zenon
  <2> QED BY <1>5, <1>6, <2>1, SqliteStatement, Zenon
<1>10. Executes(s, j)
  BY <1>3, <1>5, <1>6, <1>7, <1>8, <1>9, Zenon DEF Executes, from, to
<1> QED BY <1>10, Zenon

\* It moves by one.
LEMMA HereMoves ==
    ASSUME RowFacts, PlanFacts, TypesOK, ExecuteStep
    PROVE  Here' = Here + 1 /\ Here \in Nat /\ goal' = goal
<1>1. PICK n : /\ Remaining(goal, steps, n) /\ Remaining(goal, steps', n + 1)
               /\ n \in 1 .. Len(Program(goal))
  BY ExecuteTypes, Zenon
<1>2. TypesOK' /\ goal' = goal
  BY ExecuteTypes, Zenon
<1>3. n = Here
  BY <1>1, HereIs, Zenon
<1>4. Remaining(goal', steps', n + 1)
  BY <1>1, <1>2, Zenon
<1>5. n + 1 = Here'
  <2> DEFINE m == n + 1
  <2> HIDE DEF m
  <2>1. GoalOK(goal') /\ Remaining(goal', steps', m)
    BY <1>2, <1>4, Zenon DEF m, TypesOK
  <2>2. m = Position(goal', steps')
    BY <2>1, PositionIs, Zenon
  <2> QED BY <2>2, Zenon DEF m, Here
<1> QED BY <1>1, <1>2, <1>3, <1>5

\* At the end nothing is left to do.
LEMMA HereEnds ==
    ASSUME RowFacts, PlanFacts, Family = "sqlite", TypesOK, ~AtRest, steps = <<>>
    PROVE  /\ Todo(goal.before, goal.after, Here) = {}
           /\ Calm(goal.before, goal.after, Here)
<1> DEFINE from == goal.before
           to == goal.after
           L == Len(CorrectedSteps(from, to))
<1>1. PICK n : Remaining(goal, steps, n)
  BY Zenon DEF TypesOK
<1>2. GoalOK(goal) /\ SchemaOK(from) /\ SchemaOK(to)
  BY Zenon DEF TypesOK, GoalOK, Paired
<1>3. n = Here /\ n = L + 1
  BY <1>1, <1>2, HereIs, AtEnd, Zenon DEF Program
<1>4. /\ L \in Nat
      /\ Calm(from, to, 1)
      /\ Todo(from, to, L + 1) = {}
      /\ \A k \in 1 .. L : \E s, j : Current(from, to, k, s, j)
  BY <1>2, KnownEnds, Zenon
<1> HIDE DEF from, to, L
<1>5. CASE L = 0
  BY <1>3, <1>4, <1>5 DEF from, to
<1>6. CASE L # 0
  <2>1. PICK s, j : Current(from, to, L, s, j)
    BY <1>4, <1>6
  <2>2. Progress(from, to, L, s, j)
    BY <1>2, <2>1, KnownProgress, Zenon
  <2> DEFINE b == Block(from, to, s)
  <2>3. j \in 1 .. Len(b) /\ (j = Len(b) => Calm(from, to, L + 1))
        /\ (j < Len(b) => Current(from, to, L + 1, s, j + 1))
    BY <2>2, Zenon DEF Progress
  <2>4. ~(j < Len(b))
    <3> SUFFICES ASSUME j < Len(b)
                 PROVE  FALSE
      BY Zenon
    <3> DEFINE k == L + 1
               i == j + 1
    <3> HIDE DEF k, i
    <3>1. Current(from, to, k, s, i)
      BY <2>3, Zenon DEF k, i
    <3>2. Progress(from, to, k, s, i)
      BY <1>2, <3>1, KnownProgress, Zenon
    <3>3. k \in 1 .. L
      BY <3>2, Zenon DEF Progress, L
    <3> QED BY <1>4, <3>3 DEF k
  <2>5. Len(b) \in Nat
    <3>1. \E X : b \in Seq(X)
      BY <1>2, <2>2, KnownFinite, Zenon DEF Progress, Effective, RowFacts, BlockShapeFact
    <3> QED BY <3>1
  <2>6. j = Len(b)
    BY <2>3, <2>4, <2>5
  <2> QED BY <1>3, <1>4, <2>3, <2>6, Zenon DEF from, to
<1> QED BY <1>5, <1>6, Zenon

\* That step is the one the position tells.
LEMMA ExecutesAt ==
    ASSUME PlanFacts, Family = "sqlite", TypesOK, ~AtRest, steps # <<>>,
           NEW s, NEW j, Current(goal.before, goal.after, Here, s, j)
    PROVE  Executes(s, j)
<1> DEFINE from == goal.before
           to == goal.after
<1>1. PICK n : Remaining(goal, steps, n)
  BY Zenon DEF TypesOK
<1>2. GoalOK(goal)
  BY Zenon DEF TypesOK
<1>3. n = Here
  BY <1>1, HereIs, Zenon
<1>4. Head(steps) = CorrectedSteps(from, to)[n]
  BY <1>1, <1>2, AtNext, Zenon DEF Program
<1>5. Paired(from, to) /\ SchemaOK(from) /\ SchemaOK(to)
  BY <1>2, Zenon DEF GoalOK, Paired
<1>6. Current(from, to, n, s, j)
  BY <1>3, Zenon
<1>7. Progress(from, to, n, s, j)
  BY <1>5, <1>6, KnownProgress, Zenon
<1>8. s \in DiffSteps(from, to)
  BY <1>7, Zenon DEF Progress, Effective
<1> HIDE DEF from, to
<1>9. \/ ~Rewrites(s) /\ Head(steps) = s /\ j = 1 /\ Len(Block(from, to, s)) = 1
      \/ /\ Rewrites(s) /\ s.table \in Both(from, to) /\ s.table \in FinalTables
         /\ Len(IndexList(to.def[s.table])) \in Nat
         /\ Lists(IndexList(to.def[s.table]), DOMAIN to.def[s.table].indices)
         /\ Len(Block(from, to, s)) = Len(IndexList(to.def[s.table])) + 6
         /\ Rewriting(from, to, s.table, j, Head(steps))
  BY <1>4, <1>5, <1>6, SqliteStatement, Zenon
<1> QED BY <1>3, <1>5, <1>6, <1>7, <1>8, <1>9, Zenon DEF Executes, from, to

-----------------------------------------------------------------------------
(* ForeignKeys(FALSE) is followed by ForeignKeys(TRUE).                    *)

\* The statements that PostgreSQL gets.
LEMMA PostgresStatement ==
    ASSUME PlanFacts, Family = "postgres", NEW from, NEW to, Paired(from, to),
           NEW n \in 1 .. Len(CorrectedSteps(from, to))
    PROVE  LET h == CorrectedSteps(from, to)[n]
           IN  \/ ~IdChanges(from, to) /\ h \in DelayedSteps(from, to)
               \/ /\ IdChanges(from, to)
                  /\ h = DropTables(DOMAIN from.def) \/ h \in DelayedSteps(Schema(<<>>, <<>>), to)
<1> DEFINE All == CorrectedSteps(from, to)
           h == All[n]
<1>1. SchemaOK(from) /\ SchemaOK(to)
  BY Zenon DEF Paired
<1>2. CASE ~IdChanges(from, to)
  <2>1. Lists(All, DelayedSteps(from, to))
    BY <1>1, <1>2, KnownPostgres, Zenon
  <2> HIDE DEF All
  <2>2. All \in Seq(DelayedSteps(from, to))
    BY <2>1, Zenon DEF Lists
  <2>3. h \in DelayedSteps(from, to)
    BY <2>2 DEF All
  <2> QED BY <1>2, <2>3, Zenon DEF All
<1>3. CASE IdChanges(from, to)
  <2> DEFINE D == DelayedSteps(Schema(<<>>, <<>>), to)
             x == DropTables(DOMAIN from.def)
  <2>1. PICK rest : All = <<x>> \o rest /\ Lists(rest, D)
    BY <1>1, <1>3, KnownPostgres, Zenon
  <2> HIDE DEF All, D, x
  <2>2. rest \in Seq(D \cup {x}) /\ <<x>> \in Seq(D \cup {x})
    BY <2>1 DEF Lists
  <2>3. All \in Seq(D \cup {x})
    BY <2>1, <2>2
  <2>4. h \in D \cup {x}
    BY <2>3 DEF All
  <2> QED BY <1>3, <2>4, Zenon DEF All, D, x
<1> QED BY <1>2, <1>3, Zenon

KeysOK ==
    /\ Family = "postgres" => enforced
    /\ Family = "sqlite" /\ ~AtRest /\ goal.enforced /\ Calm(goal.before, goal.after, Here) => enforced
    /\ ForeignKeysEnforced

\* A statement keeps the invariant of the foreign keys.
LEMMA KeysExecute ==
    ASSUME StepFacts, RowFacts, PlanFacts, TypesOK, KeysOK, ExecuteStep
    PROVE  KeysOK'
<1> DEFINE h == Head(steps)
           from == goal.before
           to == goal.after
<1>1. /\ ~AtRest /\ steps # <<>> /\ status' = status /\ goal' = goal
      /\ enforced' = (IF h.step = "ForeignKeys" THEN h.on ELSE enforced)
  BY Zenon DEF ExecuteStep
<1>2. ForeignKeysEnforced'
  BY <1>1, Zenon DEF AtRest, ForeignKeysEnforced
<1>3. CASE Family = "postgres"
  <2>1. PICK n : n \in 1 .. Len(Program(goal)) /\ h = Program(goal)[n]
    BY ExecuteTypes, Zenon
  <2>2. Paired(from, to)
    BY Zenon DEF TypesOK, GoalOK
  <2>3. \/ h = DropTables(DOMAIN from.def) \/ h \in DelayedSteps(Schema(<<>>, <<>>), to)
        \/ h \in DelayedSteps(from, to)
    BY <1>3, <2>1, <2>2, PostgresStatement, Zenon DEF Program
  <2>4. h.step # "ForeignKeys"
    <3>1. CASE h = DropTables(DOMAIN from.def)
      BY <3>1 DEF DropTables
    <3>2. CASE h \in DelayedSteps(Schema(<<>>, <<>>), to)
      BY <3>2, Zenon DEF StepFacts, DiffKindsFact
    <3>3. CASE h \in DelayedSteps(from, to)
      BY <3>3, Zenon DEF StepFacts, DiffKindsFact
    <3> QED BY <2>3, <3>1, <3>2, <3>3, Zenon
  <2>5. enforced' = enforced
    BY <1>1, <2>4, Zenon
  <2> QED BY <1>2, <1>3, <2>5, Zenon DEF KeysOK
<1>4. CASE Family = "sqlite"
  <2> SUFFICES ASSUME goal.enforced, Calm(from, to, Here + 1)
               PROVE  enforced'
    <3>1. Here' = Here + 1
      BY HereMoves, Zenon
    <3> QED BY <1>1, <1>2, <1>4, <3>1, Zenon DEF KeysOK
  <2>1. PICK s, j : Executes(s, j)
    BY <1>1, <1>4, SqliteExecutes, Zenon
  <2> DEFINE b == Block(from, to, s)
  <2>2. /\ s \in DiffSteps(from, to)
        /\ Progress(from, to, Here, s, j)
        /\ SchemaOK(from) /\ SchemaOK(to)
    BY <2>1, Zenon DEF Executes, Paired
  <2>3. j \in 1 .. Len(b) /\ (j < Len(b) => Current(from, to, Here + 1, s, j + 1))
        /\ (j = 1 => Calm(from, to, Here))
    BY <2>2, Zenon DEF Progress
  <2>4. ~(j < Len(b))
    <3> SUFFICES ASSUME j < Len(b)
                 PROVE  FALSE
      BY Zenon
    <3> DEFINE k == Here + 1
               i == j + 1
    <3> HIDE DEF k, i
    <3>1. Current(from, to, k, s, i) /\ Calm(from, to, k)
      BY <2>3, Zenon DEF k, i
    <3>2. Progress(from, to, k, s, i)
      BY <1>4, <2>2, <3>1, KnownProgress, Zenon
    <3>3. i = 1
      BY <3>1, <3>2, Zenon DEF Progress
    <3> QED BY <2>3, <3>3 DEF i
  <2>5. CASE ~Rewrites(s) /\ h = s /\ j = 1
    <3>1. h.step # "ForeignKeys"
      BY <2>2, <2>5 DEF StepFacts, DiffKindsFact
    <3>2. enforced
      BY <1>1, <1>4, <2>3, <2>5, Zenon DEF KeysOK
    <3> QED BY <1>1, <3>1, <3>2, Zenon
  <2>6. CASE /\ Len(IndexList(to.def[s.table])) \in Nat
             /\ Len(b) = Len(IndexList(to.def[s.table])) + 6
             /\ Rewriting(from, to, s.table, j, h)
    <3> DEFINE L == Len(IndexList(to.def[s.table]))
    <3>1. j = L + 6
      BY <2>3, <2>4, <2>6
    <3>2. h = SwitchOn
      BY <2>6, <3>1 DEF Rewriting
    <3> QED BY <1>1, <3>2, Zenon DEF StepFacts, SwitchFieldsFact
  <2> QED BY <2>1, <2>5, <2>6, Zenon DEF Executes
<1> QED BY <1>3, <1>4, SqlAssumption, Zenon

\* Every step keeps it.
LEMMA KeysInductive == ASSUME StepFacts, RowFacts, PlanFacts, TypesOK, KeysOK, [Next]_vars PROVE KeysOK'
<1>1. ASSUME NEW dm, NEW force, Migrate(dm, force)
      PROVE  KeysOK'
  <2>1. /\ goal' = [before |-> Described, after |-> Calculate(dm), clean |-> TRUE, enforced |-> enforced]
        /\ enforced' = enforced /\ status' = "applying"
    BY <1>1, Zenon DEF Migrate
  <2>2. goal'.enforced = enforced
    BY <2>1, Zenon
  <2> QED BY <2>1, <2>2, Zenon DEF KeysOK, ForeignKeysEnforced
<1>2. ASSUME Unapply
      PROVE  KeysOK'
  <2>1. /\ goal' = [before |-> Head(undo).after, after |-> Head(undo).before, clean |-> Head(undo).clean,
                    enforced |-> enforced]
        /\ enforced' = enforced /\ status' = "unapplying"
    BY <1>2, Zenon DEF Unapply
  <2>2. goal'.enforced = enforced
    BY <2>1, Zenon
  <2> QED BY <2>1, <2>2, Zenon DEF KeysOK, ForeignKeysEnforced
<1>3. ASSUME FailStep
      PROVE  KeysOK'
  BY <1>3, Zenon DEF KeysOK, ForeignKeysEnforced, FailStep, AtRest
<1>4. ASSUME Finish
      PROVE  KeysOK'
  <2>1. /\ ~AtRest /\ steps = <<>> /\ goal' = goal /\ enforced' = enforced
        /\ status' \in {"success", "rolled_back"}
    BY <1>4, Zenon DEF Finish
  <2>2. Family = "sqlite" /\ goal.enforced => enforced
    BY <2>1, HereEnds, Zenon DEF KeysOK
  <2>3. goal.enforced => enforced
    BY <2>2, SqlAssumption, Zenon DEF KeysOK
  <2> QED BY <2>1, <2>3, Zenon DEF KeysOK, ForeignKeysEnforced, AtRest
<1>5. ASSUME UNCHANGED <<enforced, status, goal, steps>>
      PROVE  KeysOK'
  BY <1>5, Zenon DEF KeysOK, ForeignKeysEnforced, AtRest, Here
<1>6. ASSUME UNCHANGED vars \/ MigrateNothing
      PROVE  KeysOK'
  BY <1>5, <1>6, Zenon DEF MigrateNothing, vars
<1>7. ASSUME NEW t, NEW values, NEW nulls, WriteRows(t, values, nulls)
      PROVE  KeysOK'
  BY <1>5, <1>7, Zenon DEF WriteRows
<1> QED BY <1>1, <1>2, <1>3, <1>4, <1>6, <1>7, KeysExecute, Zenon DEF Next

-----------------------------------------------------------------------------
(* SQLite: the values of the rows.                                         *)

\* The values k are values of the rows r.
Holds(k, r) == \A v \in k : v[1] \in DOMAIN r /\ v[2] \in r[v[1]].values

\* The tables that the migration drops are empty.
Discardable(k, r, stay) == k # {} => \A t \in DOMAIN r \ stay : Empty(r[t])

\* The values of table x are also in the rows of the new table.
Copied(k, r, x) ==
    /\ Temporary(x) \in DOMAIN r
    /\ \A v \in k : v[1] = x => v[2] \in r[Temporary(x)].values

Others(k, x) == {v \in k : v[1] # x}

\* Before the j-th statement of the rewrite of x.
Rewritten(k, r, e, to, x, j) ==
    /\ e = FALSE
    /\ \/ j \in {2, 3} /\ Holds(k, r) /\ Discardable(k, r, DOMAIN to.def)
       \/ /\ j = 4 /\ Holds(k, r) /\ Copied(k, r, x)
          /\ Discardable(k, r, DOMAIN to.def \cup {Temporary(x)})
       \/ /\ j = 5 /\ Holds(Others(k, x), r) /\ Copied(k, r, x)
          /\ Discardable(k, r, DOMAIN to.def \cup {Temporary(x)})
       \/ j > 5 /\ Holds(k, r) /\ Discardable(k, r, DOMAIN to.def)

\* What an unforced migration without warnings may rely on.
Spared(k, from, to) ==
    \A v \in k : /\ v[1] \in Both(from, to)
                 /\ v[2] \in DOMAIN from.def[v[1]].columns \cap DOMAIN to.def[v[1]].columns

SafeOn(k, r, e, from, to, n) ==
    /\ Spared(k, from, to)
    /\ \/ Calm(from, to, n) /\ Holds(k, r) /\ Discardable(k, r, DOMAIN to.def)
       \/ \E s, j : /\ Current(from, to, n, s, j) /\ Rewrites(s) /\ j # 1
                    /\ Rewritten(k, r, e, to, s.table, j)

ValuesOK ==
    /\ NoSilentLoss
    /\ ~AtRest => SafeOn(kept, rows, enforced, goal.before, goal.after, Here)

\* Dropping empty tables, or any with foreign keys off, deletes no other rows.
LEMMA NothingDeleted ==
    ASSUME NEW STATE names, enforced = FALSE \/ \A t \in names : Empty(rows[t])
    PROVE  \A u : AfterDelete(u, names) = rows[u]
BY Zenon DEF AfterDelete

\* No silent loss, of the values k among the rows r.
Present(k, r) ==
    \A v \in k : \E u \in {v[1], Temporary(v[1])} \cap DOMAIN r : v[2] \in r[u].values

\* The invariant of the values says that none is lost.
LEMMA SafePresent ==
    ASSUME NEW k, NEW r, NEW e, NEW from, NEW to, NEW n, SafeOn(k, r, e, from, to, n)
    PROVE  Present(k, r)
<1>1. CASE Holds(k, r)
  BY <1>1, Zenon DEF Holds, Present
<1>2. ASSUME NEW x, Holds(Others(k, x), r) /\ Copied(k, r, x)
      PROVE  Present(k, r)
  BY <1>2, Zenon DEF Holds, Others, Copied, Present
<1> QED BY <1>1, <1>2, Zenon DEF SafeOn, Rewritten

\* The rows of a table are replaced.
LEMMA HoldsWith ==
    ASSUME NEW k, NEW r, NEW stay, NEW t, NEW new, Holds(k, r), Discardable(k, r, stay),
           t \in stay, t \in DOMAIN r => r[t].values \subseteq new.values
    PROVE  Holds(k, With(r, t, new)) /\ Discardable(k, With(r, t, new), stay)
<1> DEFINE R == With(r, t, new)
<1>1. /\ DOMAIN R = DOMAIN r \cup {t} /\ R[t] = new
      /\ \A u \in DOMAIN r : u # t => R[u] = r[u]
  BY Zenon DEF With
<1> HIDE DEF R
<1>2. Holds(k, R)
  BY <1>1, Zenon DEF Holds
<1>3. Discardable(k, R, stay)
  BY <1>1, Zenon DEF Discardable
<1> QED BY <1>2, <1>3, Zenon DEF R

\* The rows of a table are dropped.
LEMMA HoldsWithout ==
    ASSUME NEW k, NEW r, NEW stay, NEW t, Holds(k, r), Discardable(k, r, stay), \A v \in k : v[1] # t
    PROVE  LET R == [u \in DOMAIN r \ {t} |-> r[u]]
           IN  Holds(k, R) /\ Discardable(k, R, stay)
<1> DEFINE R == [u \in DOMAIN r \ {t} |-> r[u]]
<1>1. /\ DOMAIN R = DOMAIN r \ {t}
      /\ \A u \in DOMAIN r : u # t => R[u] = r[u]
  BY Zenon
<1> HIDE DEF R
<1>2. Holds(k, R)
  BY <1>1, Zenon DEF Holds
<1>3. Discardable(k, R, stay)
  BY <1>1, Zenon DEF Discardable
<1> QED BY <1>2, <1>3, Zenon DEF R

\* A step that needs no rewrite.
LEMMA PlainSpares ==
    ASSUME StepFacts, RowFacts, Family = "sqlite", TypesOK, NEW from, NEW to, NEW STATE s, s \in DiffSteps(from, to),
           ~Rewrites(s), Accepts(s), Spared(kept, from, to), Holds(kept, rows),
           Discardable(kept, rows, DOMAIN to.def), StepOK(s)
    PROVE  /\ Holds(kept, RowsAfter(s))
           /\ Discardable(kept, RowsAfter(s), DOMAIN to.def)
<1> DEFINE R == RowsAfter(s)
<1>1. CASE s \in DropSteps(from, to)
  <2>1. PICK t \in DOMAIN from.def \ DOMAIN to.def : s = DropTables({t})
    BY <1>1, Zenon DEF DropSteps
  <2>2. s.step = "DropTables" /\ s.names = {t}
    BY <2>1, Zenon DEF DropTables
  <2>3. t \in DOMAIN rows
    BY <2>2, Zenon DEF Accepts, TypesOK, RowsOK
  <2>4. R = [u \in DOMAIN rows \ {t} |-> AfterDelete(u, {t})]
    <3>1. R = [u \in DOMAIN rows \ s.names |-> AfterDelete(u, s.names)]
      BY <2>2, Zenon DEF RowFacts, RowsAfterIsFact
    <3> QED BY <2>2, <3>1, Zenon
  <2>5. CASE kept = {}
    BY <2>5, Zenon DEF Holds, Discardable
  <2>6. CASE kept # {}
    <3>1. Empty(rows[t])
      BY <2>3, <2>6, Zenon DEF Discardable
    <3>2. \A u : AfterDelete(u, {t}) = rows[u]
      BY <3>1, NothingDeleted, Zenon
    <3>3. R = [u \in DOMAIN rows \ {t} |-> rows[u]]
      BY <2>4, <3>2, Zenon
    <3>4. \A v \in kept : v[1] # t
      BY Zenon DEF Spared, Both
    <3> HIDE DEF R
    <3> QED BY <3>3, <3>4, HoldsWithout DEF R
  <2> QED BY <2>5, <2>6, Zenon
<1>2. CASE s \in CreateSteps(from, to)
  <2>1. PICK t \in DOMAIN to.def \ DOMAIN from.def : s = CreateTable(t, to.def[t])
    BY <1>2 DEF StepFacts, StepFieldsFact, CreateFieldsFact
  <2>2. s.step = "CreateTable" /\ s.table = t
    BY <2>1, Zenon DEF CreateTable
  <2>3. R = With(rows, t, NoRows)
    BY <2>2, Zenon DEF RowFacts, RowsAfterIsFact
  <2>4. t \notin DOMAIN rows
    BY <2>2, Zenon DEF Accepts, TypesOK, RowsOK
  <2>5. t \in DOMAIN to.def /\ (t \in DOMAIN rows => rows[t].values \subseteq NoRows.values)
    BY <2>4, Zenon
  <2> HIDE DEF R
  <2> QED BY <2>3, <2>5, HoldsWith, Zenon DEF R
<1>3. CASE s \in AlterSteps(from, to)
  <2>1. PICK t \in Both(from, to) : s = ChangeOf(from, to, t)
    BY <1>3, Zenon DEF StepFacts, StepFieldsFact, AlterFieldsFact
  <2>2. s.step = "AlterTable" /\ s.table = t
    BY <2>1, Zenon DEF ChangeOf, AlterTable
  <2>3. s.drop = {} /\ s.alter = {}
    BY <2>2, Zenon DEF Rewrites, NeedsFix
  <2>4. \E r : /\ R = With(rows, t, r)
               /\ rows[t].values \subseteq r.values
    <3> DEFINE r == AddedTo([values |-> rows[t].values, nulls |-> rows[t].nulls], s.def, s.add \cup s.alter)
    <3>1. R = With(rows, t, r)
      BY <2>2, <2>3, Zenon DEF RowFacts, RowsAfterIsFact
    <3>2. rows[t].values \subseteq r.values
      BY Zenon DEF RowFacts, AddedValuesFact
    <3> QED BY <3>1, <3>2, Zenon
  <2>5. t \in DOMAIN to.def
    BY Zenon DEF Both
  <2> HIDE DEF R
  <2> QED BY <2>4, <2>5, HoldsWith, Zenon DEF R
<1>4. CASE s \in DropIndexSteps(from, to) \cup CreateIndexSteps(from, to)
  <2>1. s.step \in {"DropIndex", "CreateIndex"}
    BY <1>4, Zenon DEF StepFacts, StepFieldsFact, DropIndexFieldsFact, DropFieldsFact, CreateFieldsFact, AlterFieldsFact, CreateIndexFieldsFact, RenameFieldsFact
  <2>2. R = rows
    BY <2>1, Zenon DEF RowFacts, RowsAfterIsFact
  <2> QED BY <2>2, Zenon
<1>5. CASE s \in RenameSteps(from, to)
  BY <1>5, Zenon DEF Rewrites, StepFacts, StepFieldsFact, RenameFieldsFact
<1> QED BY <1>1, <1>2, <1>3, <1>4, <1>5, Zenon DEF DiffSteps

\* A statement of a rewrite.
LEMMA RewriteSpares ==
    ASSUME StepFacts, RowFacts, TypesOK, NEW from, NEW to, Paired(from, to), NEW x \in Both(from, to), x \in FinalTables,
           NEW STATE h, NEW j, Rewriting(from, to, x, j, h), StepOK(h), Accepts(h),
           NEW L, L \in Nat, L = Len(IndexList(to.def[x])), Spared(kept, from, to),
           \/ j = 1 /\ Holds(kept, rows) /\ Discardable(kept, rows, DOMAIN to.def)
           \/ j # 1 /\ Rewritten(kept, rows, enforced, to, x, j),
           NEW STATE e, e = IF h.step = "ForeignKeys" THEN h.on ELSE enforced
    PROVE  /\ j < L + 6 => Rewritten(kept, RowsAfter(h), e, to, x, j + 1)
           /\ j = L + 6 => /\ Holds(kept, RowsAfter(h))
                           /\ Discardable(kept, RowsAfter(h), DOMAIN to.def)
<1> DEFINE T == Temporary(x)
           R == RowsAfter(h)
           stay == DOMAIN to.def
           more == stay \cup {T}
<1>0. /\ T \notin FinalTables /\ x # T /\ x \in stay
      /\ \A v \in kept : v[1] \in FinalTables /\ v[1] # T
      /\ DOMAIN rows = DOMAIN tables
  BY TableAssumption DEF Temporaries, Spared, Both, TypesOK, RowsOK, StepFacts, BothFinalFact
<1> HIDE DEF T
<1>1. CASE j = 1 /\ h = SwitchOff
  <2>1. h.step = "ForeignKeys" /\ h.on = FALSE
    BY <1>1, Zenon DEF StepFacts, SwitchFieldsFact
  <2>2. e = FALSE
    BY <2>1, Zenon
  <2>3. R = rows
    BY <2>1, Zenon DEF RowFacts, RowsAfterIsFact
  <2>4. Holds(kept, rows) /\ Discardable(kept, rows, DOMAIN to.def)
    BY <1>1, Zenon
  <2>5. Rewritten(kept, rows, e, to, x, 2)
    BY <2>2, <2>4, Zenon DEF Rewritten
  <2> QED BY <1>1, <2>3, <2>5
<1>2. CASE j = 2 /\ h = CreateTable(Temporary(x), [to.def[x] EXCEPT !.indices = NoIndices])
  <2>1. h.step = "CreateTable" /\ h.table = T
    BY <1>2, Zenon DEF CreateTable, T
  <2>2. e = enforced
    BY <2>1, Zenon
  <2>3. R = With(rows, T, NoRows)
    BY <2>1, Zenon DEF RowFacts, RowsAfterIsFact
  <2>4. T \notin DOMAIN rows
    BY <1>0, <2>1, Zenon DEF Accepts
  <2>5. enforced = FALSE /\ Holds(kept, rows) /\ Discardable(kept, rows, DOMAIN to.def)
    BY <1>2 DEF Rewritten
  <2>6. /\ DOMAIN R = DOMAIN rows \cup {T} /\ R[T] = NoRows
        /\ \A u \in DOMAIN rows : u # T => R[u] = rows[u]
    BY <2>3, Zenon DEF With
  <2> HIDE DEF R
  <2>7. Holds(kept, R)
    BY <2>4, <2>5, <2>6, Zenon DEF Holds
  <2>8. Empty(NoRows)
    BY Zenon DEF Empty, NoRows
  <2>9. Discardable(kept, R, DOMAIN to.def)
    BY <2>4, <2>5, <2>6, <2>8, Zenon DEF Discardable
  <2>10. Rewritten(kept, R, e, to, x, 3)
    BY <2>2, <2>5, <2>7, <2>9, Zenon DEF Rewritten
  <2> QED BY <1>2, <2>10 DEF R
<1>3. CASE j = 3 /\ h = CopyRows(x, Temporary(x), DOMAIN from.def[x].columns \cap DOMAIN to.def[x].columns)
  <2> DEFINE C == DOMAIN from.def[x].columns \cap DOMAIN to.def[x].columns
             r == AddedTo([values |-> rows[x].values \cap C, nulls |-> rows[x].nulls \cap C],
                          tables[T], DOMAIN tables[T].columns \ C)
  <2>1. h.step = "CopyRows" /\ h.table = x /\ h.new = T /\ h.columns = C
    BY <1>3, Zenon DEF CopyRows, T
  <2>2. e = enforced
    BY <2>1, Zenon
  <2>3. R = With(rows, T, r)
    BY <2>1, Zenon DEF RowFacts, RowsAfterIsFact
  <2>4. rows[x].values \cap C \subseteq r.values
    BY DEF RowFacts, AddedValuesFact
  <2>5. enforced = FALSE /\ Holds(kept, rows) /\ Discardable(kept, rows, DOMAIN to.def)
    BY <1>3 DEF Rewritten
  <2>6. /\ DOMAIN R = DOMAIN rows \cup {T} /\ R[T] = r
        /\ \A u \in DOMAIN rows : u # T => R[u] = rows[u]
    BY <2>3, Zenon DEF With
  <2> HIDE DEF R, r
  <2>7. Holds(kept, R)
    BY <1>0, <2>5, <2>6, Zenon DEF Holds
  <2>8. Copied(kept, R, x)
    BY <2>4, <2>5, <2>6, Zenon DEF Copied, T, Holds, Spared
  <2>9. Discardable(kept, R, DOMAIN to.def \cup {T})
    BY <2>5, <2>6, Zenon DEF Discardable
  <2>10. Rewritten(kept, R, e, to, x, 4)
    BY <2>2, <2>5, <2>7, <2>8, <2>9, Zenon DEF Rewritten, T
  <2> QED BY <1>3, <2>10 DEF R
<1>4. CASE j = 4 /\ h = DropTables({x})
  <2>1. h.step = "DropTables" /\ h.names = {x}
    BY <1>4, Zenon DEF DropTables
  <2>2. e = enforced
    BY <2>1, Zenon
  <2>3. /\ enforced = FALSE /\ Holds(kept, rows) /\ Copied(kept, rows, x)
        /\ Discardable(kept, rows, DOMAIN to.def \cup {T})
    BY <1>4 DEF Rewritten, T
  <2>4. R = [u \in DOMAIN rows \ {x} |-> rows[u]]
    <3>1. R = [u \in DOMAIN rows \ h.names |-> AfterDelete(u, h.names)]
      BY <2>1, Zenon DEF RowFacts, RowsAfterIsFact
    <3>2. \A u : AfterDelete(u, h.names) = rows[u]
      BY <2>3, NothingDeleted, Zenon
    <3> QED BY <2>1, <3>1, <3>2, Zenon
  <2>5. /\ DOMAIN R = DOMAIN rows \ {x}
        /\ \A u \in DOMAIN R : R[u] = rows[u]
    BY <2>4, Zenon
  <2> HIDE DEF R
  <2>7. Holds(Others(kept, x), R)
    BY <2>3, <2>5, Zenon DEF Holds, Others
  <2>8. Copied(kept, R, x)
    BY <1>0, <2>3, <2>5, Zenon DEF Copied, T
  <2>9. Discardable(kept, R, DOMAIN to.def \cup {T})
    BY <2>3, <2>5, Zenon DEF Discardable
  <2>10. Rewritten(kept, R, e, to, x, 5)
    BY <2>2, <2>3, <2>7, <2>8, <2>9, Zenon DEF Rewritten, T
  <2> QED BY <1>4, <2>10 DEF R
<1>5. CASE j = 5 /\ h = RenameTable(Temporary(x), x)
  <2>1. h.step = "RenameTable" /\ h.table = T /\ h.new = x
    BY <1>5, Zenon DEF RenameTable, T
  <2>2. e = enforced
    BY <2>1, Zenon
  <2>3. /\ enforced = FALSE /\ Holds(Others(kept, x), rows) /\ Copied(kept, rows, x)
        /\ Discardable(kept, rows, DOMAIN to.def \cup {T})
    BY <1>5 DEF Rewritten, T
  <2>4. R = With(Without(rows, {T}), x, rows[T])
    BY <2>1, Zenon DEF RowFacts, RowsAfterIsFact
  <2>5. /\ DOMAIN R = (DOMAIN rows \ {T}) \cup {x} /\ R[x] = rows[T]
        /\ \A u \in DOMAIN rows \ {T} : u # x => R[u] = rows[u]
    BY <2>4, Zenon DEF With, Without
  <2> HIDE DEF R
  <2>6. Holds(kept, R)
    BY <1>0, <2>3, <2>5, Zenon DEF Holds, Others, Copied, T
  <2>7. Discardable(kept, R, DOMAIN to.def)
    BY <1>0, <2>3, <2>5, Zenon DEF Discardable
  <2>8. Rewritten(kept, R, e, to, x, 6)
    BY <2>2, <2>3, <2>6, <2>7 DEF Rewritten
  <2> QED BY <1>5, <2>8 DEF R
<1>6. CASE /\ j \in 6 .. L + 5
           /\ \E i, d : h = CreateIndex(x, i, d)
  <2>1. h.step = "CreateIndex"
    BY <1>6 DEF CreateIndex
  <2>2. e = enforced
    BY <2>1, Zenon
  <2>3. R = rows
    BY <2>1, Zenon DEF RowFacts, RowsAfterIsFact
  <2>4. /\ enforced = FALSE /\ Holds(kept, rows) /\ Discardable(kept, rows, DOMAIN to.def)
    BY <1>6 DEF Rewritten
  <2>5. j + 1 > 5
    BY <1>6
  <2>6. Rewritten(kept, rows, e, to, x, j + 1)
    BY <2>2, <2>4, <2>5, Zenon DEF Rewritten
  <2> QED BY <1>6, <2>3, <2>6
<1>7. CASE j = L + 6 /\ h = SwitchOn
  <2>1. h.step = "ForeignKeys"
    BY <1>7, Zenon DEF StepFacts, SwitchFieldsFact
  <2>2. R = rows
    BY <2>1, Zenon DEF RowFacts, RowsAfterIsFact
  <2>3. Holds(kept, rows) /\ Discardable(kept, rows, DOMAIN to.def)
    BY <1>7 DEF Rewritten
  <2> QED BY <1>7, <2>2, <2>3
<1> HIDE DEF R
<1> QED
  <2>1. \/ j = 1 /\ h = SwitchOff
        \/ j = 2 /\ h = CreateTable(Temporary(x), [to.def[x] EXCEPT !.indices = NoIndices])
        \/ j = 3 /\ h = CopyRows(x, Temporary(x), DOMAIN from.def[x].columns \cap DOMAIN to.def[x].columns)
        \/ j = 4 /\ h = DropTables({x})
        \/ j = 5 /\ h = RenameTable(Temporary(x), x)
        \/ j \in 6 .. L + 5 /\ \E i, d : h = CreateIndex(x, i, d)
        \/ j = L + 6 /\ h = SwitchOn
    BY Zenon DEF Rewriting
  <2> QED BY ONLY <1>1, <1>2, <1>3, <1>4, <1>5, <1>6, <1>7, <2>1, Zenon

\* A statement keeps the invariant of the values.
LEMMA ValuesExecute ==
    ASSUME StepFacts, RowFacts, PlanFacts, Family = "sqlite", TypesOK, ValuesOK, ExecuteStep
    PROVE  ValuesOK'
<1> DEFINE h == Head(steps)
           from == goal.before
           to == goal.after
           e == IF h.step = "ForeignKeys" THEN h.on ELSE enforced
<1>1. /\ ~AtRest /\ steps # <<>> /\ status' = status /\ goal' = goal /\ kept' = kept
      /\ rows' = RowsAfter(h) /\ enforced' = e /\ StepOK(h) /\ Accepts(h)
      /\ Here' = Here + 1
  <2>1. ~AtRest /\ steps # <<>> /\ rows' = RowsAfter(h) /\ enforced' = e
    BY Zenon DEF ExecuteStep
  <2> HIDE DEF h, e
  <2> QED BY <2>1, ExecuteTypes, HereMoves, Zenon DEF h
<1>2. SafeOn(kept, rows, enforced, from, to, Here)
  BY <1>1, Zenon DEF ValuesOK
<1>3. \E s, j : /\ Executes(s, j)
                /\ \/ j = 1 /\ Holds(kept, rows) /\ Discardable(kept, rows, DOMAIN to.def)
                   \/ Rewrites(s) /\ j # 1 /\ Rewritten(kept, rows, enforced, to, s.table, j)
  <2>1. CASE Calm(from, to, Here) /\ Holds(kept, rows) /\ Discardable(kept, rows, DOMAIN to.def)
    <3>1. PICK s, j : Executes(s, j)
      BY <1>1, SqliteExecutes, Zenon
    <3>2. j = 1
      BY <2>1, <3>1, Zenon DEF Executes, Progress
    <3> QED BY <2>1, <3>1, <3>2, Zenon
  <2>2. CASE \E s, j : /\ Current(from, to, Here, s, j) /\ Rewrites(s) /\ j # 1
                       /\ Rewritten(kept, rows, enforced, to, s.table, j)
    BY <1>1, <2>2, ExecutesAt, Zenon
  <2> QED BY <1>2, <2>1, <2>2, Zenon DEF SafeOn
<1>4. PICK s, j : /\ Executes(s, j)
                  /\ \/ j = 1 /\ Holds(kept, rows) /\ Discardable(kept, rows, DOMAIN to.def)
                     \/ Rewrites(s) /\ j # 1 /\ Rewritten(kept, rows, enforced, to, s.table, j)
  BY <1>3, Zenon
<1> DEFINE b == Block(from, to, s)
           q == Len(IndexList(to.def[s.table]))
<1>5. /\ Paired(from, to) /\ s \in DiffSteps(from, to)
      /\ Progress(from, to, Here, s, j)
      /\ \/ ~Rewrites(s) /\ h = s /\ j = 1 /\ Len(b) = 1
         \/ /\ Rewrites(s) /\ s.table \in Both(from, to) /\ s.table \in FinalTables
            /\ q \in Nat /\ Len(b) = q + 6
            /\ Rewriting(from, to, s.table, j, h)
  BY <1>4, Zenon DEF Executes
<1>6. /\ j \in 1 .. Len(b)
      /\ j < Len(b) => Current(from, to, Here + 1, s, j + 1)
      /\ j = Len(b) => Calm(from, to, Here + 1)
  BY <1>5, Zenon DEF Progress
<1>7. Spared(kept, from, to)
  BY <1>2, Zenon DEF SafeOn
<1> HIDE DEF h, e, from, to
<1>8. CASE ~Rewrites(s) /\ h = s /\ j = 1 /\ Len(b) = 1
  <2>1. Holds(kept, rows) /\ Discardable(kept, rows, DOMAIN to.def)
    BY <1>4, <1>8, Zenon
  <2>2. /\ Holds(kept, RowsAfter(h))
        /\ Discardable(kept, RowsAfter(h), DOMAIN to.def)
    <3>1. h \in DiffSteps(from, to) /\ ~Rewrites(h)
      BY <1>5, <1>8, Zenon
    <3> QED BY <1>1, <1>7, <2>1, <3>1, PlainSpares, Zenon
  <2>3. Calm(from, to, Here + 1)
    BY <1>6, <1>8, Zenon
  <2>4. SafeOn(kept, RowsAfter(h), e, from, to, Here + 1)
    BY <1>7, <2>2, <2>3, Zenon DEF SafeOn
  <2> QED BY <1>1, <2>4, SafePresent, Zenon DEF ValuesOK, NoSilentLoss, Present, from, to
<1>9. CASE /\ Rewrites(s) /\ s.table \in Both(from, to) /\ s.table \in FinalTables
           /\ q \in Nat /\ Len(b) = q + 6
           /\ Rewriting(from, to, s.table, j, h)
  <2> DEFINE x == s.table
  <2> HIDE DEF x, q
  <2>1. \/ j = 1 /\ Holds(kept, rows) /\ Discardable(kept, rows, DOMAIN to.def)
        \/ j # 1 /\ Rewritten(kept, rows, enforced, to, x, j)
    BY <1>4, Zenon DEF x
  <2>2. q = Len(IndexList(to.def[x])) /\ q \in Nat /\ x \in Both(from, to) /\ x \in FinalTables
        /\ Rewriting(from, to, x, j, h)
    BY <1>9, Zenon DEF q, x
  <2>3. e = IF h.step = "ForeignKeys" THEN h.on ELSE enforced
    BY Zenon DEF e
  <2>4. /\ j < q + 6 => Rewritten(kept, RowsAfter(h), e, to, x, j + 1)
        /\ j = q + 6 => /\ Holds(kept, RowsAfter(h))
                        /\ Discardable(kept, RowsAfter(h), DOMAIN to.def)
    BY <1>1, <1>5, <1>7, <2>1, <2>2, <2>3, RewriteSpares, Zenon
  <2>5. CASE j = Len(b)
    <3>1. SafeOn(kept, RowsAfter(h), e, from, to, Here + 1)
      BY <1>6, <1>7, <1>9, <2>4, <2>5 DEF SafeOn
    <3> QED BY <1>1, <3>1, SafePresent, Zenon DEF ValuesOK, NoSilentLoss, Present, from, to
  <2>6. CASE j < Len(b)
    <3>1. /\ Current(from, to, Here + 1, s, j + 1) /\ Rewrites(s) /\ j + 1 # 1
          /\ Rewritten(kept, RowsAfter(h), e, to, s.table, j + 1)
      BY <1>6, <1>9, <2>4, <2>6 DEF x
    <3>2. SafeOn(kept, RowsAfter(h), e, from, to, Here + 1)
      BY <1>7, <3>1, Zenon DEF SafeOn
    <3> QED BY <1>1, <3>2, SafePresent, Zenon DEF ValuesOK, NoSilentLoss, Present, from, to
  <2>7. j = Len(b) \/ j < Len(b)
    BY <1>6, <1>9
  <2> QED BY <2>5, <2>6, <2>7
<1> QED BY <1>5, <1>8, <1>9, Zenon

\* Without a warning nothing that has values is dropped.
LEMMA WarnsNot ==
    ASSUME PlanFacts, NEW from, NEW to, SchemaOK(from), SchemaOK(to), ~Warns(OriginalSteps(from, to)),
           NEW s \in DiffSteps(from, to)
    PROVE  /\ s.step = "AlterTable" => rows[s.table].values \cap (s.drop \cup s.alter) = {}
           /\ s.step = "DropTables" => \A t \in s.names : Empty(rows[t])
<1> DEFINE O == OriginalSteps(from, to)
<1>1. Lists(O, DiffSteps(from, to))
  BY KnownSteps, Zenon
<1>2. \E i \in DOMAIN O : O[i] = s
  <2> HIDE DEF O
  <2>1. s \in Range(O)
    BY <1>1, Zenon DEF Lists
  <2> QED BY <2>1, Zenon DEF Range
<1> QED BY <1>2, Zenon DEF Warns

\* A migration without a warning only relies on values that stay.
LEMMA UnwarnedSpares ==
    ASSUME PlanFacts, NEW from, NEW to, SchemaOK(from), SchemaOK(to), ~Warns(OriginalSteps(from, to)),
           from.def = tables, RowsOK
    PROVE  /\ Spared(Values, from, to)
           /\ \A v \in Values : /\ v[1] \in DOMAIN rows /\ v[2] \in rows[v[1]].values
                                /\ ~ColumnDiffers(from.def[v[1]].columns[v[2]], to.def[v[1]].columns[v[2]])
           /\ \A t \in DOMAIN rows \ DOMAIN to.def : Empty(rows[t])
<1>1. \A t \in DOMAIN rows \ DOMAIN to.def : Empty(rows[t])
  <2> SUFFICES ASSUME NEW t \in DOMAIN rows \ DOMAIN to.def
               PROVE  Empty(rows[t])
    BY Zenon
  <2>1. DropTables({t}) \in DiffSteps(from, to)
    BY Zenon DEF DropSteps, DiffSteps, RowsOK
  <2>2. DropTables({t}).step = "DropTables" /\ DropTables({t}).names = {t}
    BY Zenon DEF DropTables
  <2> QED BY <2>1, <2>2, WarnsNot, Zenon
<1>2. ASSUME NEW v \in Values
      PROVE  /\ v[1] \in DOMAIN rows /\ v[2] \in rows[v[1]].values
             /\ v[1] \in Both(from, to)
             /\ v[2] \in DOMAIN from.def[v[1]].columns \cap DOMAIN to.def[v[1]].columns
             /\ ~ColumnDiffers(from.def[v[1]].columns[v[2]], to.def[v[1]].columns[v[2]])
  <2>1. PICK t \in DOMAIN rows : v \in {t} \X rows[t].values
    BY Zenon DEF Values
  <2>2. PICK c \in rows[t].values : v = <<t, c>>
    BY <2>1
  <2>3. v[1] = t /\ v[2] = c
    BY <2>2, Zenon
  <2>4. t \in Both(from, to)
    <3>1. ~Empty(rows[t])
      BY Zenon DEF Empty
    <3> QED BY <1>1, <3>1, Zenon DEF Both, RowsOK
  <2>5. c \in DOMAIN from.def[t].columns
    BY Zenon DEF RowsOK
  <2> DEFINE s == ChangeOf(from, to, t)
  <2>6. /\ s.step = "AlterTable" /\ s.table = t
        /\ s.drop = DOMAIN from.def[t].columns \ DOMAIN to.def[t].columns
        /\ s.alter = {d \in DOMAIN from.def[t].columns \cap DOMAIN to.def[t].columns :
                         ColumnDiffers(from.def[t].columns[d], to.def[t].columns[d])}
    BY Zenon DEF ChangeOf, AlterTable
  <2> HIDE DEF s
  <2>7. c \notin s.drop \cup s.alter
    <3> SUFFICES ASSUME c \in s.drop \cup s.alter
                 PROVE  FALSE
      BY Zenon
    <3>1. IsChange(s)
      BY Zenon DEF IsChange
    <3>2. s \in DiffSteps(from, to)
      BY <2>4, <3>1, Zenon DEF AlterSteps, DiffSteps, s
    <3>3. rows[s.table].values \cap (s.drop \cup s.alter) = {}
      BY <2>6, <3>2, WarnsNot, Zenon
    <3> QED BY <2>6, <3>3, Zenon
  <2>8. c \in DOMAIN to.def[t].columns /\ ~ColumnDiffers(from.def[t].columns[c], to.def[t].columns[c])
    BY <2>5, <2>6, <2>7, Zenon
  <2> QED BY <2>2, <2>3, <2>4, <2>5, <2>8, Zenon
<1> QED BY <1>1, <1>2, Zenon DEF Spared

\* applyMigration establishes it.
LEMMA ValuesMigrate ==
    ASSUME PlanFacts, Family = "sqlite", TypesOK, NEW dm \in project, NEW force \in BOOLEAN, Migrate(dm, force)
    PROVE  ValuesOK'
<1> DEFINE from == Described
           to == Calculate(dm)
<1>1. /\ kept' = (IF force THEN {} ELSE Values)
      /\ goal'.before = from /\ goal'.after = to
      /\ rows' = rows /\ enforced' = enforced
      /\ Warns(OriginalSteps(from, to)) => force
  <2>1. goal' = [before |-> from, after |-> to, clean |-> TRUE, enforced |-> enforced]
        /\ kept' = (IF force THEN {} ELSE Values) /\ rows' = rows /\ enforced' = enforced
        /\ (Warns(OriginalSteps(from, to)) => force)
    BY Zenon DEF Migrate
  <2> HIDE DEF from, to
  <2> QED BY <2>1, Zenon
<1>2. SchemaOK(from) /\ from.def = tables
  BY KnownDescribed, Zenon DEF Described, TypesOK
<1>3. SchemaOK(to)
  <2>1. dm \in UNION Projects
    BY Zenon DEF TypesOK
  <2> QED BY <2>1, KnownCalculated, Zenon DEF Calculated
<1>4. Here' = 1
  BY MigrateTypes, HereStarts, Zenon
<1>5. Calm(from, to, 1)
  BY <1>2, <1>3, KnownEnds, Zenon
<1> HIDE DEF from, to
<1>6. /\ Spared(kept', from, to) /\ Holds(kept', rows) /\ Discardable(kept', rows, DOMAIN to.def)
  <2>1. CASE kept' = {}
    BY <2>1, Zenon DEF Spared, Holds, Discardable
  <2>2. CASE kept' = Values /\ ~Warns(OriginalSteps(from, to))
    <3>1. /\ Spared(Values, from, to)
          /\ \A v \in Values : v[1] \in DOMAIN rows /\ v[2] \in rows[v[1]].values
          /\ \A t \in DOMAIN rows \ DOMAIN to.def : Empty(rows[t])
      BY <1>2, <1>3, <2>2, UnwarnedSpares, Zenon DEF TypesOK
    <3> QED BY <2>2, <3>1, Zenon DEF Holds, Discardable
  <2>3. (kept' = {}) \/ (kept' = Values /\ ~Warns(OriginalSteps(from, to)))
    <3>1. CASE force
      BY <1>1, <3>1, Zenon
    <3>2. CASE ~force
      BY <1>1, <3>2, Zenon
    <3> QED BY <3>1, <3>2, Zenon
  <2> QED BY <2>1, <2>2, <2>3, Zenon
<1>7. SafeOn(kept', rows', enforced', goal'.before, goal'.after, Here')
  BY <1>1, <1>4, <1>5, <1>6, Zenon DEF SafeOn
<1>8. Present(kept', rows')
  BY <1>7, SafePresent, Zenon
<1> QED BY <1>7, <1>8, Zenon DEF ValuesOK, NoSilentLoss, Present

\* Every step keeps it.
LEMMA ValuesInductive ==
    ASSUME StepFacts, RowFacts, PlanFacts, Family = "sqlite", TypesOK, ValuesOK, [Next]_vars
    PROVE  ValuesOK'
<1>1. ASSUME UNCHANGED <<rows, kept>>, AtRest'
      PROVE  ValuesOK'
  BY <1>1, Zenon DEF ValuesOK, NoSilentLoss
<1>2. ASSUME Unapply
      PROVE  ValuesOK'
  <2>1. kept' = {} /\ rows' = rows /\ GoalOK(goal') /\ Here' = 1
    BY <1>2, UnapplyTypes, HereStarts, Zenon DEF Unapply, TypesOK
  <2>2. SchemaOK(goal'.before) /\ SchemaOK(goal'.after)
    BY <2>1, Zenon DEF GoalOK, Paired
  <2>3. Calm(goal'.before, goal'.after, 1)
    BY <2>2, KnownEnds, Zenon
  <2>4. Spared({}, goal'.before, goal'.after) /\ Holds({}, rows)
        /\ Discardable({}, rows, DOMAIN goal'.after.def)
    BY Zenon DEF Spared, Holds, Discardable
  <2>5. SafeOn(kept', rows', enforced', goal'.before, goal'.after, Here')
    BY <2>1, <2>3, <2>4, Zenon DEF SafeOn
  <2> QED BY <2>1, <2>5, Zenon DEF ValuesOK, NoSilentLoss
<1>3. ASSUME FailStep
      PROVE  ValuesOK'
  BY <1>1, <1>3, Zenon DEF FailStep, AtRest
<1>4. ASSUME Finish
      PROVE  ValuesOK'
  <2>1. UNCHANGED <<rows, kept>> /\ status' \in {"success", "rolled_back"}
    BY <1>4, Zenon DEF Finish
  <2> QED BY <1>1, <2>1, Zenon DEF AtRest
<1>5. ASSUME NEW t, NEW values, NEW nulls, WriteRows(t, values, nulls), t \in DOMAIN tables
      PROVE  ValuesOK'
  <2>1. /\ AtRest /\ Empty(rows[t]) /\ status' = status /\ kept' = kept
        /\ rows' = [rows EXCEPT ![t] = [values |-> values, nulls |-> nulls]]
    BY <1>5, Zenon DEF WriteRows
  <2>2. DOMAIN rows' = DOMAIN rows /\ \A u \in DOMAIN rows : u # t => rows'[u] = rows[u]
    BY <2>1, Zenon
  <2>3. NoSilentLoss'
    <3> SUFFICES ASSUME NEW v \in kept
                 PROVE  \E u \in {v[1], Temporary(v[1])} \cap DOMAIN rows' : v[2] \in rows'[u].values
      BY <2>1, Zenon DEF NoSilentLoss
    <3>1. PICK u \in {v[1], Temporary(v[1])} \cap DOMAIN rows : v[2] \in rows[u].values
      BY Zenon DEF ValuesOK, NoSilentLoss
    <3>2. u # t
      BY <2>1, <3>1, Zenon DEF Empty
    <3> QED BY <2>2, <3>1, <3>2, Zenon
  <2> QED BY <2>1, <2>3, Zenon DEF ValuesOK, AtRest
<1>6. ASSUME UNCHANGED vars
      PROVE  ValuesOK'
  BY <1>6, Zenon DEF ValuesOK, NoSilentLoss, AtRest, vars, Here
<1>7. ASSUME NEW dm \in project, NEW force \in BOOLEAN, Migrate(dm, force)
      PROVE  ValuesOK'
  BY <1>7, ValuesMigrate, Zenon
<1> QED BY <1>2, <1>3, <1>4, <1>5, <1>6, <1>7, ValuesExecute, Zenon DEF Next, MigrateNothing

=============================================================================
