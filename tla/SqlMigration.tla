---------------------------- MODULE SqlMigration ----------------------------
(***************************************************************************)
(* What one database migration does to an SQL schema and to its rows: the  *)
(* schema SqlSchemaCalculator makes of a datamodel, the steps that         *)
(* SqlSchemaDiffer and SqlDatabaseMigrationInferrer derive from it and     *)
(* from the live schema, the checks of SqlDestructiveChangesChecker, and   *)
(* the statements as PostgreSQL or SQLite executes them, one by one.       *)
(*                                                                         *)
(* A model has an id, at most one further scalar field, at most one inline *)
(* relation to another model and at most one scalar list; two models may   *)
(* share a many-to-many relation.  Of the rows of a table the model keeps, *)
(* for every column, whether some row has a value there and whether some   *)
(* row has a NULL there.                                                   *)
(***************************************************************************)
EXTENDS StepSequences

CONSTANTS
    Family,           \* "postgres" or "sqlite"
    Models,           \* the names of models, and of their tables
    Projects,         \* sets of datamodels; a client migrates between those of one
    ModelOrder,       \* the models in the order of the datamodel text
    DescriberOrder,   \* the tables in the order of the describer
    Faults,           \* {"statement"} if any statement may fail, or {}
    MaxMigrations,    \* bound: the number of applyMigration commands
    None              \* no field, no relation, no table

ASSUME SqlAssumption ==
    /\ Family \in {"postgres", "sqlite"}
    /\ Models # {} /\ None \notin Models
    /\ ModelOrder \in Seq(Models) /\ IsInjective(ModelOrder) /\ Range(ModelOrder) = Models
    /\ MaxMigrations \in Nat

VARIABLES
    tables,       \* the live schema: its tables and their definitions
    rows,         \* per table, the columns that hold values and NULLs
    enforced,     \* does SQLite enforce foreign keys on this connection?
    status,       \* what the engine does, or did last
    steps,        \* the statements it has still to send
    goal,         \* the schema those statements lead to
    undo,         \* the successful migrations that can be rolled back, last first
    kept,         \* auxiliary: the values an unforced migration started with
    project,      \* the datamodels of the client's project
    count         \* the number of migrations started

vars == <<tables, rows, enforced, status, steps, goal, undo, kept, project, count>>

-----------------------------------------------------------------------------
(* Schemas.                                                                *)

Types == {"Int", "String"}

\* The tables besides those of models.
ListTable(m) == <<m, "list">>
RelationTable == <<"_relation">>
Temporary(t) == <<"new", t>>

ListTables == {ListTable(m) : m \in Models}
FinalTables == Models \cup ListTables \cup {RelationTable}
Temporaries == {Temporary(t) : t \in FinalTables}

\* No model has the name of a table that is made for another one, and the
\* describer lists every table.
ASSUME TableAssumption ==
    /\ Models \cap (ListTables \cup {RelationTable}) = {}
    /\ FinalTables \cap Temporaries = {}
    /\ None \notin FinalTables \cup Temporaries
    /\ DescriberOrder \in Seq(FinalTables \cup Temporaries)
    /\ IsInjective(DescriberOrder)
    /\ Range(DescriberOrder) = FinalTables \cup Temporaries

MapSeq(Op(_), s) == [i \in DOMAIN s |-> Op(s[i])]

\* The elements of s that pass the test, in their order.
Filter(s, Test(_)) == FlattenSeq(MapSeq(LAMBDA x : IF Test(x) THEN <<x>> ELSE <<>>, s))

Scalar(type, arity) == [family |-> type, arity |-> arity, references |-> None]
ForeignKey(type, arity, t) == [family |-> type, arity |-> arity, references |-> t]

NoIndices == [i \in {} |-> None]

\* A schema lists its tables in some order: table(), has_table() find by name.
Schema(order, def) == [order |-> Filter(order, LAMBDA t : t \in DOMAIN def),
                       def |-> def]

-----------------------------------------------------------------------------
(* SqlSchemaCalculator.                                                    *)

\* A datamodel is [model: models -> definition, manyToMany: BOOLEAN], with
\* definitions [id, field, arity, indexes, link, required, list].
Arities == {"Required", "Nullable"}

WellFormed(dm) ==
    /\ DOMAIN dm.model \subseteq Models
    /\ dm.manyToMany \in BOOLEAN
    /\ dm.manyToMany => DOMAIN dm.model = Models
    /\ \A m \in DOMAIN dm.model :
          LET d == dm.model[m]
          IN  /\ d.id \in Types /\ d.field \in Types \cup {None} /\ d.arity \in Arities
              /\ d.link \in DOMAIN dm.model \cup {None} /\ d.required \in Arities
              /\ d.list \in BOOLEAN
              /\ IsFiniteSet(d.indexes) /\ (d.indexes # {} => d.field # None)

\* The names that an index of m may have: they start with the name of m.
OwnIndexes(m) ==
    UNION {dm.model[m].indexes : dm \in {x \in UNION Projects : m \in DOMAIN x.model}}

ASSUME ProjectAssumption ==
    /\ None \notin Types
    /\ \A dm \in UNION Projects : WellFormed(dm)
    /\ \A m, n \in Models : m # n => OwnIndexes(m) \cap OwnIndexes(n) = {}
    /\ \A m \in Models : "AB_unique" \notin OwnIndexes(m)

ModelTable(dm, m) ==
    LET d == dm.model[m]
        names == {"id"} \cup {c \in {"field"} : d.field # None}
                        \cup {c \in {"link"} : d.link # None}
    IN  [columns |-> [c \in names |->
            CASE c = "id" -> Scalar(d.id, "Required")
              [] c = "field" -> Scalar(d.field, d.arity)
              [] c = "link" -> ForeignKey(dm.model[d.link].id, d.required, d.link)],
         pk |-> {"id"},
         indices |-> [i \in d.indexes |-> [columns |-> <<"field">>, unique |-> TRUE]]]

ScalarListTable(dm, m) ==
    [columns |-> [c \in {"nodeId", "position", "value"} |->
        CASE c = "nodeId" -> ForeignKey(dm.model[m].id, "Required", m)
          [] c = "position" -> Scalar("Int", "Required")
          [] c = "value" -> Scalar("String", "Required")],
     pk |-> {"nodeId", "position"},
     indices |-> NoIndices]

ManyToManyTable(dm) ==
    [columns |-> [m \in DOMAIN dm.model |-> ForeignKey(dm.model[m].id, "Required", m)],
     pk |-> {},
     indices |-> [i \in {"AB_unique"} |-> [columns |-> ModelOrder, unique |-> TRUE]]]

ScalarLists(dm) == {m \in DOMAIN dm.model : dm.model[m].list}

CalculatorOrder == ModelOrder \o MapSeq(ListTable, ModelOrder) \o <<RelationTable>>

\* SqlSchemaCalculator::calculate: model tables, scalar lists, relation tables.
Calculate(dm) ==
    Schema(CalculatorOrder,
           [t \in DOMAIN dm.model \cup {ListTable(m) : m \in ScalarLists(dm)}
                    \cup {x \in {RelationTable} : dm.manyToMany} |->
              IF t \in Models THEN ModelTable(dm, t)
              ELSE IF t = RelationTable THEN ManyToManyTable(dm)
              ELSE ScalarListTable(dm, t[1])])

-----------------------------------------------------------------------------
(* Steps.                                                                  *)

CreateTable(t, def) == [step |-> "CreateTable", table |-> t, def |-> def]
DropTables(names) == [step |-> "DropTables", names |-> names]
\* `drop`, `add` and `alter` are the changes; the columns come from `def`.
AlterTable(t, def, drop, add, alter) ==
    [step |-> "AlterTable", table |-> t, def |-> def,
     drop |-> drop, add |-> add, alter |-> alter]
RenameTable(t, new) == [step |-> "RenameTable", table |-> t, new |-> new]
CreateIndex(t, i, def) ==
    [step |-> "CreateIndex", table |-> t, index |-> i, def |-> def]
DropIndex(t, i) == [step |-> "DropIndex", table |-> t, index |-> i]
AlterIndex(t, i, new) == [step |-> "AlterIndex", table |-> t, index |-> i, new |-> new]
\* The RawSql steps: the copy of a table and the two pragmas.
CopyRows(t, new, columns) ==
    [step |-> "CopyRows", table |-> t, new |-> new, columns |-> columns]
ForeignKeys(on) == [step |-> "ForeignKeys", on |-> on]

-----------------------------------------------------------------------------
(* SqlSchemaDiffer.                                                        *)

Common(previous, next) ==
    Filter(previous.order, LAMBDA t : t \in DOMAIN next.def)

\* Mutant: a change of arity goes unnoticed.
ColumnDiffersInType(p, n) == p.family # n.family \/ p.references # n.references

\* alter_columns: the arity of a column with a foreign key is not compared.
ColumnDiffers(p, n) ==
    \/ p.family # n.family
    \/ p.arity # n.arity /\ ~(p.references # None /\ n.references # None)
    \/ p.references # n.references

AlterTables(previous, next) ==
    LET Change(t) ==
            LET p == previous.def[t].columns
                n == next.def[t].columns
            IN  AlterTable(t, next.def[t], DOMAIN p \ DOMAIN n, DOMAIN n \ DOMAIN p,
                           {c \in DOMAIN p \cap DOMAIN n : ColumnDiffers(p[c], n[c])})
    IN  Filter(MapSeq(Change, Common(previous, next)),
                  LAMBDA s : s.drop \cup s.add \cup s.alter # {})

\* alter_indexes: the first index that only differs from i by its name, if any,
\* is taken for its new name.
Equivalents(previous, next, t, i) ==
    LET p == previous.def[t].indices
        n == next.def[t].indices
    IN  {j \in DOMAIN n : p[i] = n[j] /\ i # j}

Renamed(previous, next, t) ==
    {<<i, CHOOSE j \in Equivalents(previous, next, t, i) : TRUE>> :
        i \in {x \in DOMAIN previous.def[t].indices : Equivalents(previous, next, t, x) # {}}}

AlterIndexes(previous, next) ==
    FlattenSeq(MapSeq(
        LAMBDA t : MapSeq(LAMBDA r : AlterIndex(t, r[1], r[2]),
                          SetToSeq(Renamed(previous, next, t))),
        Common(previous, next)))

IndexNames(schema, t) ==
    IF t \in DOMAIN schema.def THEN DOMAIN schema.def[t].indices ELSE {}

CreateIndexes(previous, next, renamed) ==
    FlattenSeq(MapSeq(
        LAMBDA t : MapSeq(LAMBDA i : CreateIndex(t, i, next.def[t].indices[i]),
                          SetToSeq({i \in IndexNames(next, t) \ IndexNames(previous, t) :
                              \A s \in Range(renamed) : s.new # i})),
        next.order))

\* An index that covers the primary key is left alone.
DropIndexes(previous, next, renamed) ==
    FlattenSeq(MapSeq(
        LAMBDA t : MapSeq(LAMBDA i : DropIndex(t, i),
                          SetToSeq({i \in IndexNames(previous, t) \ IndexNames(next, t) :
                              /\ \A s \in Range(renamed) : s.index # i
                              /\ Range(previous.def[t].indices[i].columns)
                                    # previous.def[t].pk})),
        previous.order))

\* SqlSchemaDiffer::diff.
Diff(previous, next) ==
    LET renamed == AlterIndexes(previous, next) IN
    [dropIndexes |-> DropIndexes(previous, next, renamed),
     dropTables |-> MapSeq(LAMBDA t : DropTables({t}),
         Filter(previous.order, LAMBDA t : t \notin DOMAIN next.def)),
     createTables |-> MapSeq(LAMBDA t : CreateTable(t, next.def[t]),
         Filter(next.order, LAMBDA t : t \notin DOMAIN previous.def)),
     alterTables |-> AlterTables(previous, next),
     createIndexes |-> CreateIndexes(previous, next, renamed),
     alterIndexes |-> renamed]

\* SqlSchemaDiff::into_steps.
IntoSteps(diff) ==
    diff.dropIndexes \o diff.dropTables \o diff.createTables
        \o diff.alterTables \o diff.createIndexes \o diff.alterIndexes

-----------------------------------------------------------------------------
(* SqlDatabaseMigrationInferrer: corrections per database.                 *)

\* Mutant: foreign keys are created with their table.
DelayNothing(diff) == IntoSteps(diff)

\* delay_foreign_key_creation: a column that references a table created by the
\* same migration is added once all tables exist.
DelayForeignKeyCreation(diff) ==
    LET created == {s.table : s \in Range(diff.createTables)}
        Delayed(s) ==
            {c \in DOMAIN s.def.columns :
                /\ s.def.columns[c].references \in created
                /\ c \notin s.def.pk
                /\ s.table # RelationTable}
        Trimmed(s) == CreateTable(s.table, [s.def EXCEPT !.columns =
            [c \in DOMAIN s.def.columns \ Delayed(s) |-> s.def.columns[c]]])
        Later(s) == AlterTable(s.table, s.def, {}, Delayed(s), {})
    IN  IntoSteps([diff EXCEPT
            !.createTables = MapSeq(Trimmed, @),
            !.alterTables = @ \o MapSeq(Later,
                Filter(diff.createTables, LAMBDA s : Delayed(s) # {}))])

\* fix_id_column_type_change: all tables are dropped and created again.
FixIdColumnTypeChange(from, to, corrected) ==
    LET IdTypeChange(s) ==
            /\ s.step = "AlterTable"
            /\ s.table \in DOMAIN from.def
            /\ \E c \in s.alter \cap from.def[s.table].pk :
                  from.def[s.table].columns[c].family # s.def.columns[c].family
    IN  IF \E i \in DOMAIN corrected : IdTypeChange(corrected[i])
          THEN <<DropTables(DOMAIN from.def)>>
                   \o DelayForeignKeyCreation(Diff(Schema(<<>>, <<>>), to))
          ELSE corrected

\* Mutant: altered columns need no rewrite.
NeedsFixUnlessAltered(s) ==
    s.drop # {} \/ \E c \in s.add : s.def.columns[c].arity = "Required"

\* needs_fix: SQLite can only add columns that may be NULL.
NeedsFix(s) ==
    \/ s.drop \cup s.alter # {}
    \/ \E c \in s.add : s.def.columns[c].arity = "Required"

\* Mutants: the indexes are not created again; foreign keys stay off.
FixWithoutIndexes(current, next, t) ==
    <<ForeignKeys(FALSE),
      CreateTable(Temporary(t), [next EXCEPT !.indices = NoIndices]),
      CopyRows(t, Temporary(t), DOMAIN current.columns \cap DOMAIN next.columns),
      DropTables({t}),
      RenameTable(Temporary(t), t),
      ForeignKeys(TRUE)>>

FixLeavesForeignKeysOff(current, next, t) ==
    <<ForeignKeys(FALSE),
      CreateTable(Temporary(t), [next EXCEPT !.indices = NoIndices]),
      CopyRows(t, Temporary(t), DOMAIN current.columns \cap DOMAIN next.columns),
      DropTables({t}),
      RenameTable(Temporary(t), t)>>
    \o MapSeq(LAMBDA i : CreateIndex(t, i, next.indices[i]), SetToSeq(DOMAIN next.indices))

\* fix: a new table, a copy of the rows, and the names exchanged.
Fix(current, next, t) ==
    <<ForeignKeys(FALSE),
      CreateTable(Temporary(t), [next EXCEPT !.indices = NoIndices]),
      CopyRows(t, Temporary(t), DOMAIN current.columns \cap DOMAIN next.columns),
      DropTables({t}),
      RenameTable(Temporary(t), t)>>
    \o MapSeq(LAMBDA i : CreateIndex(t, i, next.indices[i]), SetToSeq(DOMAIN next.indices))
    \o <<ForeignKeys(TRUE)>>

\* fix_stupid_sqlite: tables that cannot be altered are rewritten; that creates
\* their indexes too.
FixStupidSqlite(from, to, diff) ==
    LET fixed == {s.table : s \in {x \in Range(diff.alterTables) : NeedsFix(x)}}
    IN  FlattenSeq(MapSeq(
            LAMBDA s :
                IF \/ s.step = "AlterTable" /\ NeedsFix(s)
                   \/ s.step = "AlterIndex"
                  THEN Fix(from.def[s.table], to.def[s.table], s.table)
                ELSE IF s.step = "CreateIndex" /\ s.table \in fixed
                  THEN <<>>
                ELSE <<s>>,
            IntoSteps(diff)))

\* infer_database_migration_steps_and_fix: the steps that are executed.
CorrectedSteps(from, to) ==
    LET diff == Diff(from, to)
    IN  IF Family = "sqlite"
          THEN FixStupidSqlite(from, to, diff)
          ELSE FixIdColumnTypeChange(from, to, DelayForeignKeyCreation(diff))

OriginalSteps(from, to) == IntoSteps(Diff(from, to))

-----------------------------------------------------------------------------
(* The database.                                                           *)

\* The renderers never declare a column with a foreign key NOT NULL.
RenderColumn(c) ==
    [c EXCEPT !.arity = IF c.references # None THEN "Nullable" ELSE @]

RenderColumns(columns) == [c \in DOMAIN columns |-> RenderColumn(columns[c])]

NoRows == [values |-> {}, nulls |-> {}]
Empty(r) == r.values \cup r.nulls = {}

\* A column added to rows that exist: the default of a required one, else NULL.
AddedTo(r, def, names) ==
    IF Empty(r) THEN r
    ELSE LET required == {c \in names : RenderColumn(def.columns[c]).arity = "Required"}
         IN  [values |-> r.values \cup required, nulls |-> r.nulls \cup (names \ required)]

Without(f, S) == [x \in DOMAIN f \ S |-> f[x]]
With(f, x, v) == [y \in DOMAIN f \cup {x} |-> IF y = x THEN v ELSE f[y]]

References(t) == \* the other tables with a foreign key to t
    {u \in DOMAIN tables \ {t} : \E c \in DOMAIN tables[u].columns :
        tables[u].columns[c].references = t}

Exist(def, extra) ==
    \A c \in DOMAIN def.columns :
        def.columns[c].references \in {None} \cup DOMAIN tables \cup extra

\* Does the database execute this statement?  `Accepts` is what the schema
\* decides; rows can still make it fail, see MayFail.
Accepts(s) ==
    CASE s.step = "CreateTable" ->
            /\ s.table \notin DOMAIN tables
            /\ Family = "postgres" => Exist(s.def, {s.table})
      [] s.step = "DropTables" ->
            /\ s.names \subseteq DOMAIN tables
            /\ Family = "postgres" => \A t \in s.names : References(t) \subseteq s.names
      [] s.step = "AlterTable" ->
            /\ s.table \in DOMAIN tables
            /\ s.drop \cup s.alter \subseteq DOMAIN tables[s.table].columns
            /\ s.add \cap DOMAIN tables[s.table].columns = {}
            /\ IF Family = "postgres"
                 THEN \A c \in s.add \cup s.alter :
                        s.def.columns[c].references \in {None} \cup DOMAIN tables
                 ELSE s.drop \cup s.alter = {} /\ Cardinality(s.add) = 1
      [] s.step = "RenameTable" ->
            s.table \in DOMAIN tables /\ s.new \notin DOMAIN tables
      [] s.step = "CreateIndex" ->
            /\ s.table \in DOMAIN tables
            /\ s.index \notin DOMAIN tables[s.table].indices
            /\ Range(s.def.columns) \subseteq DOMAIN tables[s.table].columns
      [] s.step = "DropIndex" ->
            s.table \in DOMAIN tables /\ s.index \in DOMAIN tables[s.table].indices
      [] s.step = "AlterIndex" ->
            /\ s.table \in DOMAIN tables
            /\ s.index \in DOMAIN tables[s.table].indices
            /\ s.new \notin DOMAIN tables[s.table].indices
      [] s.step = "CopyRows" ->
            /\ {s.table, s.new} \subseteq DOMAIN tables
            /\ s.columns \subseteq DOMAIN tables[s.table].columns
            /\ s.columns \subseteq DOMAIN tables[s.new].columns
      [] s.step = "ForeignKeys" -> TRUE

\* Rows that violate a constraint the statement would establish.
MustFail(s) ==
    Accepts(s) /\ s.step = "CopyRows" /\ \E c \in s.columns \cap rows[s.table].nulls :
        tables[s.new].columns[c].arity = "Required"

\* Two rows may have the same value, and a text may be no number.
MayFail(s) ==
    \/ "statement" \in Faults
    \/ s.step = "CreateIndex" /\ s.table \in DOMAIN rows /\ ~Empty(rows[s.table])
    \/ /\ s.step = "CopyRows" /\ {s.table, s.new} \subseteq DOMAIN rows
       /\ ~Empty(rows[s.table])
       /\ \E c \in s.columns \cap tables[s.new].pk : tables[s.new].columns[c].family = "Int"

\* The columns of u that reference a dropped table.
Orphaned(u, names) ==
    {c \in DOMAIN tables[u].columns : tables[u].columns[c].references \in names}

\* SQLite empties a table before it drops it: ON DELETE SET NULL for inline
\* relations, ON DELETE CASCADE for scalar lists and relation tables.
AfterDelete(u, names) ==
    LET lost == Orphaned(u, names)
    IN  IF \/ Family = "postgres" \/ ~enforced
           \/ lost = {} \/ \A t \in names : Empty(rows[t])
          THEN rows[u]
        ELSE IF u \in Models \cup {Temporary(m) : m \in Models}
          THEN [values |-> rows[u].values \ lost,
                nulls |-> rows[u].nulls \cup (rows[u].values \cap lost)]
        ELSE NoRows

TablesAfter(s) ==
    LET old == tables[s.table]
    IN  CASE s.step = "CreateTable" ->
              With(tables, s.table,
                   [s.def EXCEPT !.columns = RenderColumns(@), !.indices = NoIndices])
          [] s.step = "DropTables" -> Without(tables, s.names)
          [] s.step = "AlterTable" ->
              With(tables, s.table,
                   [old EXCEPT
                      !.columns = [c \in (DOMAIN @ \ s.drop) \cup s.add |->
                          IF c \in s.add \cup s.alter THEN RenderColumn(s.def.columns[c])
                          ELSE @[c]],
                      !.indices = Without(@, {i \in DOMAIN @ :
                          Range(@[i].columns) \cap (s.drop \cup s.alter) # {}})])
          [] s.step = "RenameTable" ->
              With(Without(tables, {s.table}), s.new, old)
          [] s.step = "CreateIndex" ->
              With(tables, s.table, [old EXCEPT !.indices = With(@, s.index, s.def)])
          [] s.step = "DropIndex" ->
              With(tables, s.table, [old EXCEPT !.indices = Without(@, {s.index})])
          [] s.step = "AlterIndex" ->
              With(tables, s.table, [old EXCEPT !.indices =
                  With(Without(@, {s.index}), s.new, @[s.index])])
          [] OTHER -> tables

RowsAfter(s) ==
    CASE s.step = "CreateTable" -> With(rows, s.table, NoRows)
      [] s.step = "DropTables" ->
          [u \in DOMAIN rows \ s.names |-> AfterDelete(u, s.names)]
      [] s.step = "AlterTable" ->
          LET gone == s.drop \cup s.alter
              r == [values |-> rows[s.table].values \ gone,
                    nulls |-> rows[s.table].nulls \ gone]
          IN  With(rows, s.table, AddedTo(r, s.def, s.add \cup s.alter))
      [] s.step = "RenameTable" -> With(Without(rows, {s.table}), s.new, rows[s.table])
      [] s.step = "CopyRows" ->
          LET r == [values |-> rows[s.table].values \cap s.columns,
                    nulls |-> rows[s.table].nulls \cap s.columns]
          IN  With(rows, s.new, AddedTo(r, tables[s.new],
                                        DOMAIN tables[s.new].columns \ s.columns))
      [] OTHER -> rows

-----------------------------------------------------------------------------
(* The engine: applyMigration and unapplyMigration on this schema.         *)

Described == Schema(DescriberOrder, tables)

AtRest == status \notin {"applying", "unapplying"}

\* Mutant: columns are not checked.
WarnsOfTables(original) ==
    \E i \in DOMAIN original :
        original[i].step = "DropTables" /\ \E t \in original[i].names : ~Empty(rows[t])

\* SqlDestructiveChangesChecker::check: values in a dropped or altered column,
\* rows in a dropped table.
Warns(original) ==
    \E i \in DOMAIN original :
        LET s == original[i]
        IN  \/ s.step = "AlterTable" /\ rows[s.table].values \cap (s.drop \cup s.alter) # {}
            \/ s.step = "DropTables" /\ \E t \in s.names : ~Empty(rows[t])

Values == UNION {{t} \X rows[t].values : t \in DOMAIN rows}

Migrate(dm, force) ==
    LET from == Described
        to == Calculate(dm)
    IN  /\ AtRest
        /\ count < MaxMigrations
        /\ Warns(OriginalSteps(from, to)) => force
        /\ status' = "applying"
        /\ steps' = CorrectedSteps(from, to)
        /\ goal' = [before |-> from, after |-> to, clean |-> TRUE, enforced |-> enforced]
        /\ kept' = IF force THEN {} ELSE Values
        /\ count' = count + 1
        /\ UNCHANGED <<tables, rows, enforced, undo, project>>

\* A migration with warnings and without `force` changes nothing, and neither
\* do the read-only commands.
MigrateNothing == AtRest /\ UNCHANGED vars

\* Mutant: the rollback executes corrected_steps.
UnapplyForwards ==
    /\ AtRest
    /\ undo # <<>>
    /\ LET m == Head(undo)
       IN  /\ steps' = CorrectedSteps(m.before, m.after)
           /\ goal' = [before |-> m.after, after |-> m.before, clean |-> m.clean,
                       enforced |-> enforced]
    /\ status' = "unapplying"
    /\ undo' = Tail(undo)
    /\ kept' = {}
    /\ UNCHANGED <<tables, rows, enforced, project, count>>

\* unapplyMigration executes the rollback stored with the last success.
Unapply ==
    /\ AtRest
    /\ undo # <<>>
    /\ LET m == Head(undo)
       IN  /\ steps' = CorrectedSteps(m.after, m.before)
           /\ goal' = [before |-> m.after, after |-> m.before, clean |-> m.clean,
                       enforced |-> enforced]
    /\ status' = "unapplying"
    /\ undo' = Tail(undo)
    /\ kept' = {}
    /\ UNCHANGED <<tables, rows, enforced, project, count>>

\* An index on a column that the migration altered.
OnAlteredColumn(t, i) ==
    LET old == goal.before.def[t].columns
        new == goal.after.def[t].columns
    IN  /\ t \in DOMAIN goal.before.def
        /\ \E c \in Range(goal.after.def[t].indices[i].columns) \cap DOMAIN old :
              ColumnDiffers(old[c], new[c])

\* The live schema is the one the migration leads to, as the renderers write it,
\* but for indexes of which `lost` is true.
Reached(lost(_, _)) ==
    /\ DOMAIN tables = DOMAIN goal.after.def
    /\ \A t \in DOMAIN tables :
          LET wanted == goal.after.def[t]
              live == tables[t]
          IN  /\ live.columns = RenderColumns(wanted.columns)
              /\ live.pk = wanted.pk
              /\ DOMAIN live.indices \subseteq DOMAIN wanted.indices
              /\ \A i \in DOMAIN wanted.indices :
                    IF i \in DOMAIN live.indices THEN live.indices[i] = wanted.indices[i]
                    ELSE lost(t, i)

\* Auxiliary: the migrations before one that failed, or whose rollback did not
\* restore everything, do not end in the schema that is live now.
Unclean(migrations) == MapSeq(LAMBDA m : [m EXCEPT !.clean = FALSE], migrations)

\* apply_next_step: the statement is executed,
ExecuteStep ==
    /\ ~AtRest
    /\ steps # <<>>
    /\ LET s == Head(steps)
       IN  /\ Accepts(s) /\ ~MustFail(s)
           /\ tables' = TablesAfter(s)
           /\ rows' = RowsAfter(s)
           /\ enforced' = IF s.step = "ForeignKeys" THEN s.on ELSE enforced
    /\ steps' = Tail(steps)
    /\ UNCHANGED <<status, goal, undo, kept, project, count>>

\* or it fails, and the migration with it.
FailStep ==
    /\ ~AtRest
    /\ steps # <<>>
    /\ ~Accepts(Head(steps)) \/ MustFail(Head(steps)) \/ MayFail(Head(steps))
    /\ status' = "failure"
    /\ steps' = <<>>
    /\ undo' = Unclean(undo)
    /\ UNCHANGED <<tables, rows, enforced, goal, kept, project, count>>

Finish ==
    /\ ~AtRest
    /\ steps = <<>>
    /\ \/ status = "applying" /\ status' = "success" /\ undo' = <<goal>> \o undo
       \/ /\ status = "unapplying"
          /\ status' = "rolled_back"
          /\ undo' = IF Reached(LAMBDA t, i : FALSE) THEN undo ELSE Unclean(undo)
    /\ UNCHANGED <<tables, rows, enforced, steps, goal, kept, project, count>>

\* The application writes rows.
WriteRows(t, values, nulls) ==
    LET columns == tables[t].columns
    IN  /\ AtRest
        /\ Empty(rows[t])
        /\ values \cup nulls = DOMAIN columns
        /\ \A c \in nulls : t \in Models /\ columns[c].arity = "Nullable"
        /\ \A c \in values : columns[c].references # None =>
              columns[c].references \in DOMAIN rows
                 /\ ~Empty(rows[columns[c].references])
        /\ rows' = [rows EXCEPT ![t] = [values |-> values, nulls |-> nulls]]
        /\ UNCHANGED <<tables, enforced, status, steps, goal, undo, kept, project, count>>

Init ==
    /\ tables = <<>>
    /\ rows = <<>>
    /\ enforced = TRUE
    /\ status = "idle"
    /\ steps = <<>>
    /\ goal = [before |-> Schema(<<>>, <<>>), after |-> Schema(<<>>, <<>>),
               clean |-> TRUE, enforced |-> TRUE]
    /\ undo = <<>>
    /\ kept = {}
    /\ project \in Projects
    /\ count = 0

Next ==
    \/ \E dm \in project, force \in BOOLEAN : Migrate(dm, force)
    \/ MigrateNothing
    \/ Unapply
    \/ ExecuteStep
    \/ FailStep
    \/ Finish
    \/ \E t \in DOMAIN tables :
          \E values, nulls \in SUBSET DOMAIN tables[t].columns : WriteRows(t, values, nulls)

Spec == Init /\ [][Next]_vars

-----------------------------------------------------------------------------
(* Properties.                                                             *)

\* DatabaseMigrationInferrer, "migrating the database from one datamodel to
\* another": when all steps of a migration were executed, the live schema is the
\* one calculated from the datamodel, whatever the migration started from.
SchemaReached == status = "success" => Reached(LAMBDA t, i : FALSE)

\* The same, but for the indexes of altered columns, which PostgreSQL drops with
\* the old column.
SchemaReachedButIndexes == status = "success" => Reached(OnAlteredColumn)

\* A rollback that runs to its end undoes the migration: the live schema is
\* again the one that was introspected before it, unless a failed migration came
\* in between.
RollbackRestores == status = "rolled_back" /\ goal.clean => Reached(LAMBDA t, i : FALSE)

\* The same, again but for the indexes of altered columns: and unless the
\* rollback of a later migration lost such an index.
RollbackRestoresButIndexes == status = "rolled_back" /\ goal.clean => Reached(OnAlteredColumn)

\* DestructiveChangesChecker, "checking whether a migration could lead to data
\* loss": an unforced migration, which had no warning, loses no value, even when
\* it stops half-way.
NoSilentLoss ==
    \A v \in kept :
        \E u \in {v[1], Temporary(v[1])} \cap DOMAIN rows : v[2] \in rows[u].values

\* Does the running or last migration change the type of an id?
ChangesIdType ==
    \E t \in Models \cap DOMAIN goal.before.def \cap DOMAIN goal.after.def :
        goal.before.def[t].columns["id"].family # goal.after.def[t].columns["id"].family

\* The same, as long as no id changes its type.
NoSilentLossForSameIds == ChangesIdType \/ NoSilentLoss

\* The steps that the database refuses because of the schema although no
\* correction covers them: a single DROP TABLE, on SQLite two columns added at
\* once, an index renamed whose column was altered.
KnownRefusal(s) ==
    \/ s.step = "DropTables" /\ Cardinality(s.names) = 1
    \/ s.step = "AlterTable" /\ Family = "sqlite" /\ Cardinality(s.add) > 1
    \/ s.step = "AlterIndex"

\* SqlMigration, the corrected steps are those that can be applied directly: the
\* database refuses no other step of a migration because of the schema. Tables
\* that reference each other can be created in any order, and a rewritten SQLite
\* table gets its indexes once (delay_foreign_key_creation, fix).
CorrectionsApplicable ==
    status = "applying" /\ steps # <<>> => Accepts(Head(steps)) \/ KnownRefusal(Head(steps))

\* The rewrite of SQLite tables switches foreign keys off; when a migration has
\* run to its end they are enforced as they were before it.
ForeignKeysEnforced ==
    status \in {"success", "rolled_back"} /\ goal.enforced => enforced

=============================================================================
