# A verification project for the Prisma engines

This directory holds TLA+ specifications of the Prisma engines (the query
engine behind Photon, the migration engine behind Lift, the introspection
engine and the libraries they share), TLC configurations that check them on
small instances, and TLAPS proofs of the results that matter most. Every
definition is written from the Rust source; `PROJECT.json` gives the lines each
definition stands for.

## 1. The system

| part | state | operations | what makes it hard |
|---|---|---|---|
| migration commands (`migration-engine/core/src/commands`) | none of their own; a command in progress holds a migration in memory | applyMigration, unapplyMigration, reset, inferMigrationSteps, listMigrations, migrationProgress, calculateDatabaseSteps, calculateDatamodel | no transaction and no lock: several engines interleave at every statement; a crash leaves a half-applied schema |
| migration persistence (`migration-connector`, `sql_migration_persistence.rs`) | the `_Migration` table | init, reset, last, load_all, by_name, create, update | rows are found by name and revision; errors are unwrapped; `last` sees successful rows only |
| migration applier | progress counters of the running migration | apply, unapply | the status machine of a migration, partial failure |
| SQL schema differ, inferrer, step applier, destructive change checker | the live schema | diff of two schemas, corrections per database, one statement per step, row counts | the order of steps, foreign keys between tables created together, the SQLite table rewrite, checks made on other steps than those executed |
| datamodel steps: differ and calculator | a datamodel | infer steps, apply steps | the two must be inverse to each other |
| query executor, transactions | one connection and one transaction per write query | execute, commit, rollback | several writes of one request, reads after writes |
| query graph, Expressionista, interpreter | a directed graph with guards on its contents, an environment of results | create nodes and edges, pluck, transform to an expression tree, interpret | the order of dependent nodes, guards, result nodes |
| query graph builders | the graph under construction | create, update, upsert, delete, connect, disconnect, set, top level and nested | which relation checks are inserted for which side of which relation |
| query schema and document parser | a cache of weak type references | build types, parse a selection | recursive types, optional and required inputs |
| SQL query connector | a database | read one/many/related, write, pagination, filters | cursors, limits per parent |
| datamodel library | an AST and a datamodel | parse, precheck, lift, standardise, validate, lower, render | back relation fields, names, idempotence |
| internal data model (`prisma-models`) | models, fields, relations | convert | where a relation lives |
| introspection | an SQL schema | calculate a datamodel | relation tables, inline relations |
| servers, renderers, connections, inflector | — | I/O, formatting | not modelled |

The migration engine and the query engine meet in the database only: the first
changes the tables in which the second writes rows.

## 2. Modules

| module | what it models |
|---|---|
| `MigrationEngine` | the life of a migration: the commands of one or more engine processes on one database, statement by statement, with failing statements and crashes |
| `MigrationLifecycle` | abstract: what the engine promises about the life of a migration |
| `MCMigrationEngine` | model values and symmetry for TLC |
| `MigrationEngineProofs` | type correctness, and what one engine does: the ledger describes the database, the engine implements `MigrationLifecycle`, inferred steps apply, rows are spared |
| `MigrationConcurrencyProofs` | any number of engines that apply: each drives its own row; the progress counters |
| `SqlMigration` | one SQL migration: calculated schema, diff, corrections, statements, rows, rollback, on PostgreSQL or SQLite |
| `StepSequences` | the two operators on sequences `SqlMigration` needs, apart from the rest of `SequencesExt` |
| `MCSqlMigration` | the datamodels for TLC |
| `SqlSteps`, `SqlStepProofs` | the steps of a migration as sets, their statements on SQLite, what a statement does to a table and to its rows |
| `SqlPlans`, `SqlDiffProofs` | the steps in their order: what the differ lists, and where in the statements a migration is |
| `SqlMigrationProofs` | types, foreign keys and values while a migration is executed |
| `SqlSchemas`, `SqlSchemaProofs` | the live schema while some steps are pending, and that SQLite accepts the next statement |
| `SqlRollbackProofs` | the way to the goal, the history of migrations and the way back |
| `SqlTheorems` | the theorems about SQL migrations |
| `QueryGraph` | the query graph, the swap of marked nodes, the translation to an expression |
| `WriteGraphBuilder` | the graphs of all write operations and nested writes |
| `QueryExecutor` | a document of write operations: graphs, transactions, interpreter, tables |
| `WriteEffects` | reference: what a request means, on the tables alone |
| `DocumentService` | abstract: what the sender of a document of write operations is promised |
| `WriteCorrectness` | the properties that relate them |
| `MCQueryExecutor` | data models, tables and documents for TLC |
| `SchemaAst` | the syntax tree of a datamodel, its text, rendering and parsing |
| `Directives` | values, functions, arguments, and every directive: validated, applied, serialised |
| `DatamodelValidator` | precheck, lift, validate, standardise, lower |
| `Configuration` | datasources and generators: load and serialise |
| `InternalDataModel` | the query engine's data model: conversion, relations and where they are kept |
| `SqlIntrospection` | the schema of a datamodel, the description of a database, the datamodel of a description |
| `DatamodelPipeline` | a text goes through the library and both engines, and comes back rendered or introspected |
| `MCDatamodelPipeline` | the families of datamodels for TLC |
| `DatamodelSteps` | the steps of a migration: the differ, the calculator |
| `DatamodelMigrations` | clients that infer, write and apply steps over a history |
| `MCDatamodelMigrations` | the families of datamodels for TLC |
| `QuerySchema` | the query schema of a data model: input and output types, and the cache they are built in |
| `QueryDocument` | parsing: a request validated against the schema |
| `ReadQueries` | the read queries of a parsed request: filters, arguments, selections |
| `SqlReads` | the SQL of a read and what the database answers: filters, cursors, orders, pages |
| `ReadExecutor` | a request from validation to answer, one statement at a time |
| `ReadMeaning` | reference: what a read means, on the records alone |
| `ReadCorrectness` | reference: which requests are valid; the properties |
| `MCReads` | data models, databases and documents for TLC |

`MigrationEngine` looks at a migration from outside, as a set of tables to drop
and to create under any interleaving; `SqlMigration` looks into one, with
columns, keys, indexes and rows, for one engine.

### MigrationEngine

State. `table` and `migrations` are the `_Migration` table and its rows
(`Migration` in `migration_persistence.rs`), `serial` the sequence behind the
`revision` column, `schema` the tables of the live schema, `filled` those that
hold rows. `pc[e]` is the statement engine `e` executes next and `job[e]` what
its running command has in memory: the datamodel it goes to (`to`), the schema
it introspected (`from`), the statements still to be sent (`drop`, `create`) and
the `MigrationUpdateParams`. `base` is auxiliary: the schema the database had
when the ledger was last empty.

Abstraction. A datamodel is the set of its models and one model is one table, so
that a database migration is a set of DROP TABLE statements followed by a set of
CREATE TABLE statements (`SqlSchemaDiff::into_steps`). The order inside each set
is left open: `SqlSchemaDiffer` takes it from the order of the introspection.
The contents of a table are whether it holds rows.

Actions, in the order of the code:

| code | actions |
|---|---|
| `MigrationEngine::init` | `Start` |
| `ApplyMigrationCommand::execute` | `StartApply` (reads `last`), `CalculateNext` (reads the ledger again, calculates the next datamodel), `InferDatabaseMigration` (introspects), `CheckDestructiveChanges` (counts rows), `CreateMigration` |
| `MigrationApplierImpl::apply` | `MarkInProgress`, `ApplyStep` and `RecordApplyStep` in turn, `FinishApply` or `FailApply` |
| `UnapplyMigrationCommand::execute`, `MigrationApplierImpl::unapply` | `StartUnapply`, `MarkRollingBack`, `UnapplyStep` and `RecordUnapplyStep`, `FinishUnapply` or `FailUnapply`, `ReportActive` |
| `ResetCommand::execute` | `StartReset` (DELETE), `ResetDrop`, `ResetInit` |
| the read-only commands | `ReadOnlyCommand` |
| `.unwrap()` on a query of a missing table | `Panic`, `RequestPanics` |
| process death | `Crash` |

Each statement is atomic and nothing spans two of them. One engine handles one
command at a time (`rpc.rs` blocks on it); several engines share the database.
A statement fails when the database refuses it (a table to drop is gone, one to
create exists) and, with the fault `statement`, for any other reason. On SQLite
the reset removes the file and unwraps the ATTACH that follows; the panic is
covered by `Crash`. `serial` survives a reset whose DROP fails; SQLite may then
hand out revisions again, which no property distinguishes because the rows are
gone.

### What the runs check

| run | bounds | properties |
|---|---|---|
| `one` | 1 engine, 2 models, a watch and a saved name, 2 revisions, all commands and faults | `TypeOK`, `LedgerMatchesDatabase`, `ProgressIsComplete`, `InferThenApplyWhenSettled`, `NoUnforcedLoss`, `LifecycleImplemented` |
| `two` | 2 engines, 2 models, 2 revisions, apply, all faults | `OneDriver`, `StatusMovesForward` |
| `live` | 2 engines, 1 model, 1 revision (each engine may start one more), apply/unapply/reset, failing statements | `EveryMigrationSettles`, `EveryCommandReturns` |
| `rollback_race` | 2 engines, 2 models, apply/unapply, no fault | `StatusMovesForward`, violated |

`LifecycleImplemented` is a refinement. `MigrationLifecycle` has the rows without their names
and counters, the last revision and the schema, and five steps: a migration is announced;
its status moves to a successor; a table is dropped or created towards the goal
of a running migration; the ledger is cleared; everything is dropped. The mapping
forgets the commands in memory (`Rows` for `rows`, `serial` for `issued`), so
every step of an engine between two statements is a stuttering step. It gives more
than an invariant: the schema never moves away from a goal that was recorded
first, and success or the end of a rollback is recorded only when
the goal is reached, also when the migration before failed half-way. Two engines do not
implement it: each may introspect a schema the other one is about to change.

Bounds. Two models give migrations of none, one and two steps, hence a statement
in the middle. Two revisions give a success, a failure or an interruption and a
migration after it, with a rollback of each; the proofs of section 3 cover longer
histories. Liveness needs one model only: whether a command waits does not depend
on the number of its statements, and resets empty the ledger, so that histories
of any length occur. `MaxRevision`
bounds when an apply may start, so with two engines one more row than that can
appear.

Fairness. `FairSpec` asks weak fairness of `Step(e)`: a running command is
sequential code that never waits for another engine, so it takes its next step.
Nothing is asked of requests or starts, and liveness is checked without crashes,
which may of course leave a migration unfinished.

### What the properties leave open

* `rollback_race` (violated): `unapply` asserts the status of the copy it read
  (`migration_applier.rs:41`), not of the row it overwrites. Two engines that
  read the same row both roll it back, and its status returns from
  RollbackSuccess to RollingBack. `StatusMovesForward` does hold for
  one engine and for any number of engines that only apply (both proved).
* `InferThenApplyWhenSettled` has a precondition: to leave watch mode, `inferMigrationSteps` starts from the last
  *successful* saved migration and `applyMigration` from the last saved migration
  *of any status*. After a saved migration was rolled back (or failed) the steps
  inferred do not apply.

### SqlMigration

State. `tables` is the live schema: per table its columns (type, arity,
referenced table), primary key and indices, as `sql_schema_describer` returns
them. `rows` keeps of the contents of a table, per column, whether some row has a
value there and whether some row has a NULL. `steps` are the statements still to
be sent, `goal` the schemas the migration leads from and to, `undo` the
successful migrations a rollback can undo, `project` the datamodels of the client's
project (it never changes), `enforced` SQLite's
`PRAGMA foreign_keys` of the connection. `kept` is auxiliary: the values that
existed when an unforced migration began.

A datamodel gives a model an id, at most one more scalar field with its indexes,
at most one inline relation and at most one scalar list, and the pair of models a
many-to-many relation. `Calculate`, `Diff`, `IntoSteps` and the corrections
are functions of schemas, translated from the functions of the same names.

| code | definitions |
|---|---|
| `SqlSchemaCalculator` | `Calculate`, `ModelTable`, `ScalarListTable`, `ManyToManyTable` |
| `SqlSchemaDiffer` | `Diff`, `AlterTables`, `ColumnDiffers`, `AlterIndexes`, `CreateIndexes`, `DropIndexes`, `IntoSteps` |
| `SqlDatabaseMigrationInferrer` | `CorrectedSteps`, `DelayForeignKeyCreation`, `FixIdColumnTypeChange`, `FixStupidSqlite`, `NeedsFix`, `Fix` |
| `SqlDestructiveChangesChecker` | `Warns`, on the original steps |
| `apply_next_step`, `render_raw_sql` | `ExecuteStep`, `FailStep`, `TablesAfter`, `RowsAfter` |
| applyMigration, unapplyMigration | `Migrate`, `Unapply`, `Finish` |

The databases are outside the repository. `Accepts` says which statements they
refuse because of the schema: PostgreSQL a table that references a missing one
and DROP TABLE of a referenced one; SQLite several changes in one ALTER TABLE and
any but ADD COLUMN. PostgreSQL drops the indexes of a dropped column with it;
SQLite empties a table before dropping it, with the ON DELETE actions, if foreign
keys are enforced. All statements use one connection: the pool of
`sql-connection` hands out an idle one first and the engine sends one statement
at a time. Tables are described in the order of their names (PostgreSQL's
`ORDER BY table_name`); on SQLite no property depends on the order.

| run | datamodels | properties |
|---|---|---|
| `postgres` | a field project, a relation project or an id project; any statement may fail | `SchemaReachedButIndexes`, `RollbackRestoresButIndexes`, `NoSilentLossForSameIds`, `CorrectionsApplicable` |
| `sqlite` | a field, relation or edge project; any statement may fail | `SchemaReached`, `RollbackRestores`, `NoSilentLoss`, `CorrectionsApplicable`, `ForeignKeysEnforced` |

A project is a set of datamodels, and a client migrates between any two of its
own: the *field* project has one model with any id type, field, arity, index name
or scalar list; the *relation* project two models with any inline relations, also
to themselves and to each other, and a many-to-many relation; the *id* project
related models whose ids change type; the *edge* project two indexes on one
column and two optional columns that appear together.

Bounds. Two migrations, each to any datamodel of the project, so that every pair
of them is a change; with failing statements the second one starts from every half-way
state of the first. Rollbacks of both. Rows may be written between.

What does not hold on PostgreSQL. An altered column is dropped and added, and
loses its indexes, which the differ takes to be still there:
`SchemaReachedButIndexes` leaves them out, and so does `RollbackRestoresButIndexes`
(on SQLite a rollback restores every index, `RollbackRestores`). A changed id type drops every table,
while the warnings come from the uncorrected steps: `NoSilentLossForSameIds`
leaves such migrations out.

`KnownRefusal` names the statements that `CorrectionsApplicable` leaves aside: a
DROP TABLE that comes before the tables that reference the dropped one are
altered or dropped (PostgreSQL refuses it, and the migration fails half-way), on
SQLite two optional columns added by one ALTER TABLE (`needs_fix`
looks for required, dropped and altered columns only), and a renamed index.
`alter_indexes` takes any index with the same columns and another name for the
new name of an index, also when both exist before and after, so the `postgres`
run has no datamodel with two indexes on one column: there the differ would
rename one of them over and over.

### QueryExecutor

A request goes through four stages, one module each. `WriteGraphBuilder!build`
makes the graph of an operation: its nodes are queries and control flow, its
edges carry the closures that transform a node with the ids its parent
returned. `QueryGraph!finalize` swaps the marked pairs, `QueryGraph!translate`
makes the expression, and `QueryExecutor` evaluates it, one query per step, in a
transaction of its own.

| code | definitions |
|---|---|
| `QueryGraph`, `invariance_rules.rs` | `create_edge`, `remove_edge`, `is_direct_child`, `swap_marked`, `Violates` |
| `Expressionista` | `build_query_expression`, `build_flow_expression`, `fold_result_scopes`, `transform_node` |
| `query_graph_builder/write` | the operators of the same names; `ConnectOneToOne`, `CreateOneToMany` ... for the `handle_*` functions |
| `QueryInterpreter` | `Settle`, `StepEval`, `StepReturn`, `Statement` |
| SQL connector | `create_one`, `update_records`, `delete_records`, `create_relation`, `set` ... |
| `InterpretingExecutor::execute` | `Build`, `Start`, `Statement`, `Commit`, `Rollback`; `ConnectorFails` is the connection |

Abstraction. A record is its id and whether a scalar was written; a filter is a
set of ids; a closure is the number of ids it accepts, the error otherwise, and a
word for what it does. Edge numbers are kept, because the code orders
children by them and petgraph moves the last edge to a freed number
(`remove_edge`). Builders that add several nodes and edges are written as one
`Part` in the order of creation. `find_edge` reports a second edge between two
nodes as an error of its own: the code says there is none.
The database is external: foreign keys as the migration engine creates them, which set
the column to null when the record they refer to is deleted. The column is never NOT NULL, not even for a required
field (`sql_renderer/common.rs`, `render_nullability`), and has no unique constraint for a one-to-one relation: what a relation
asks for is kept by the checks of the builders or not at all, which is what `RelationsKept` is about.

| run | documents | properties |
|---|---|---|
| `writes` | all requests below | `RelationsKept`, `NoInternalError`, `EveryNodeOnce`, `DocumentImplemented` |
| `nested_unlinked` | a nested create with a nested write, in an update | `CommittedEffect`, violated |

`DocumentImplemented` is a refinement of `DocumentService`, in which an operation of a
document is performed at once (`WriteEffects!Effect`, a definition by the meaning of
each operation that knows no graph, for the tables; `Answer` for the answer) or ends the document. The mapping takes
the committed tables for `tables`, so that building a graph, every statement and
every rollback must be a stuttering step and a commit exactly one `Perform`. Hence a failed
operation leaves nothing behind and those before it stay: a document is atomic per
operation, not as a whole. That a document ends is not checked: fairness makes
TLC evaluate ENABLED of the whole interpreter, which is out of its reach.
`CommittedEffect` is the part about the tables, as an invariant.

`RelationsKept`: in every committed table a field that is no list has at most one record, a
required one exactly one. The exception is `Vacated`: a nested `set` takes records out of
a list without asking whether their side of the relation is required (`connect_nested_set` has no
check), so the other end of a list that was set may be null.

Bounds. The 13 kinds of a relation between two models (1:1 with each side required
or not and the column on either side, 1:n, n:1, m:n), all tables of one or two
records on each side in which the relations hold, every operation with every
nested write on one field; pairs of nested writes on one list; pairs of operations
in one document; for four representative kinds, a second relation on the same
model or below the first one, which gives nested writes two levels deep. Two records per side
are what it takes to steal a record from another parent.

Left out of the documents, because the code is known to differ: the violated
case, a nested connect to a missing record when the column is in the child
(`update_one` unwraps the id of a record that was not found), and `disconnect: false` on a single field whose other side is a list, which
disconnects (`handle_one_to_many` ignores the flag). Not modelled: relations of
a model with itself, scalar lists, filters other than by id, reads.

What the violated property shows. `nested_unlinked`: for
`update A {x: {create: {y: {...}}}}` with the column of x in the child, `swap_marked`
adds an edge and then removes one; the added edge takes the freed number, so the
new child is created before the read that looks for an old child to unlink, which
finds and unlinks the new one.

### DatamodelPipeline

A behaviour follows one datamodel from its text on: `ParseAst`, `LoadSources`, `Precheck`,
`LiftAst`, `Validate`, `Standardise`, then `LoadConfiguration`, `Convert` (the query engine)
and `CalculateSchema` (the migration engine). From there it is rendered to a text
(`RenderDatamodel`, as the migration engine records it) or its schema is created and
introspected (`Introspect`), and the result goes through everything once more.
`earlier` keeps what the first round gave.

Abstraction. A text is a sequence of tokens that keeps what the grammar tells
apart: a name, a quoted string, a number, a list, a function call
(`SchemaAst!Render`, `Parse`). A name is a sequence of atoms, so that the names the
code makes (`AToB`, `a_x`, plural forms) are made and taken apart as in the code.
The inflector and the environment are constants. The order of names, by which the
code decides sides, is `AtomOrder`.

| code | definitions |
|---|---|
| `ast/parser`, `ast/renderer` | `Parse`, `parse_*`, `IsExpression`; `Render`, `render_*` |
| `common/value`, `common/functions`, `common/argument` | `evaluate`, `as_*`, `arg`, `default_arg` |
| `validator/directive` | `validate_and_apply`, `serialize_*`, one operator per directive |
| `precheck`, `lift`, `validate`, `standardise`, `lower` | the operators of the same names |
| `configuration` | `load_source`, `load_generator`, `source_to_ast`, `lower_generator` |
| `prisma-models` | `convert`, `CalculateRelation`, `relation_is_inlined_in_parent` and the other questions of the query engine |
| `sql_schema_calculator`, `sql_renderer` | `calculate`, `ModelTable`, ... |
| `sql-schema-describer/sqlite`, `calculate_datamodel.rs` | `describe`; `calculate_model`, `calculate_relation_name`, ... |

| run | datamodels | properties |
|---|---|---|
| `datamodel` | 35 337: every pair of relation fields between two models and of a model with itself, scalar fields with every pair of directives, model directives, configuration blocks | `RelationsAreComplete`, `NoPanic`, `AcceptedIsLoaded`, `EnginesAgree`, `RenderingIsFaithful`, `SchemaIsCreatable`, `ConfigurationIsKept`, `IntrospectionIsFaithful` |
| `self_relation` | the self relations | `SingularFieldIsTheColumn`, violated |

Bounds. Two models and three relation fields are what it takes for a relation to be
ambiguous, shared or one-sided; what the code looks up is never farther away than the
other side of a field.

Each property names the datamodels for which the code does not keep it. They
are accepted by the library and:

* panic in both engines when both sides of a 1:1 relation have `references`, in the
  query engine when one relation name is used for two pairs of models, in the
  migration engine for a Decimal or an enum without values (`AcceptedIsLoaded`);
* are recorded as a text that does not parse, for a DateTime literal as default
  value, or is refused, for an embedded model that refers;
* lose a `references` on the side that is not the default one (both `RenderingIsFaithful`);
* give an index on a field without a column, or one column twice (`SchemaIsCreatable`);
* come back from introspection as something else, for m:n self relations, an m:n relation
  beside another one, String ids, unique relation fields (`IntrospectionIsFaithful`).

`NoPanic` excepts texts that the validation has refused, since the standardisation
works on them all the same. A datasource that cannot be loaded is dropped without
an error, although `libs/datamodel/src/lib.rs:107` promises one; the model does the same.

What the violated property shows. `self_relation`: for a self relation of a list and
a single field, `relation_is_inlined_in_parent` answers by the side alone, so the
query engine takes the column to be with the list when that is side B.

### DatamodelMigrations

`history` are the rows of the ledger (text, steps, watch or not), `pending[c]` the plans a
client has not applied yet. `InferMigrationSteps` infers a plan, assuming those pending
to be applied, `WriteSteps` is a plan written by hand (the only source of renames),
`ApplyMigration` applies the first one, to whatever the ledger has by then. All
datamodels are texts, parsed, validated and rendered as in the modules above. Every migration
succeeds: failing ones are the subject of `MigrationEngine`.

| run | bounds | properties |
|---|---|---|
| `steps` | 2 clients, 3 migrations, 2 plans per client, 8 families of datamodels | `InferredStepsReach`, `ReinferringIsNeutral`, `OthersAreKept`, `HistoryReplays` |

Bounds. Three migrations: one to start from, one of the other client, and a stale
one. Each family varies one thing (models and fields, the type of a field, directives,
enums, relations, what rendering leaves out, custom types, watch mode), so that every kind of step
is inferred and applied. Nothing happens once the ledger is full, hence no check for deadlock.

`OthersAreKept` compares the datamodel after a migration with the one before it: a plan that is out of
date removes nothing that it was not inferred from. A saved plan is applied to the last saved
datamodel when the last migration was of the watch mode (`handle_transition_out_of_watch_mode`, `apply_migration.rs`), so
what was only tried out there, also by another client, is gone; that is `Unsaved`, and excepted.

What the properties leave out. The steps that create a model with two `@@unique` send
the arguments of both to the first (`push_created_directive` leaves them out of the
locator), and the inferred plan is refused. Custom types have no steps at all, so a
datamodel with one is inferred and then refused. `InferredStepsReach` excepts both. `HistoryReplays` is about histories whose
datamodels were recorded as written: what rendering leaves out is missing in the base of
the next steps, and not in the steps.

### ReadExecutor

A request is `[dm, op, sel]`: a data model, query or mutation, and a selection. `Validate`
parses it against the schema (`QueryDocument`, `QuerySchema`) and builds the tree of read
queries (`ReadQueries`), or refuses it; a mutation that is accepted is handed over, its execution
being the subject of `QueryExecutor`. `ReadRecords` and `ReadList` each run one SQL
statement (`SqlReads`) in the order of `query_interpreters/read.rs`: the records, their scalar lists, then
each nested query with the ids of its parents. `Serialize` puts the results
together as `response_ir` does. A read opens no transaction, so `Write`, a commit of
another client, may come between any two statements. `NextPage` is a client that
walks through a model's records with the id of the last one it was given.

State. `db` has the rows, scalar lists and relation tables; `todo` the statements left, `results` what
each returned, `seen` the database it saw, `touched` the records others have changed,
`pages` what the walking client has been given.

Abstraction. Names are tuples of parts: the name of a type is put together
from the names of models and fields as in the code, which is what makes types collide, and a
filter is a field's name and a suffix. Values are numbers, nulls, lists and objects; a string is known by
what it is the form of (a date, a document, a UUID), and string matching is left out. The
database's three-valued logic is `Not3`, `And3`, `Or3`, `Compare` and `In3`. Nulls sort first on SQLite and
MySQL and last on PostgreSQL. Rows that no ORDER BY sorts (scalar lists, the outer select over
row numbers) are taken in the order of their keys; a UNION ALL of no selects is
no rows. Names are those of the modern mode.

| run | bounds | properties |
|---|---|---|
| `reads` | 5 data models, about 220 documents, up to 96 databases of 1 to 4 records per model, 3 kinds of databases, 1 commit of another client | `SchemaIsWhole`, `RefusedIffInvalid`, `AnswerIsTheMeaning`, `OnlyKnownFailures`, `PagesAreComplete` |

Bounds. A scenario is a document with a database; documents are grouped by what they
exercise: every scalar filter with and without nulls, relation filters up to three deep over every
kind of relation, combinations of the arguments that page (SQLite, PostgreSQL), cursors and ids that are strings, nested reads
(SQLite, MySQL), walks forward and backward, odd and invalid documents, mutations for
the schema. Databases of two or three records have a record inside, outside and at the edge of
each page. One commit is enough to change what a later statement sees. A
client that has its answer is done, which is a stuttering step, so deadlock is checked.

What the properties say. `SchemaIsWhole`: every type that is referred to
is there and filled when the build ends, and building never panics. `RefusedIffInvalid`:
a request is refused exactly when the reference in `ReadCorrectness`, which knows the data model and
no types, calls it invalid, or it pages from a UUID. `AnswerIsTheMeaning`: the answer is what
`ReadMeaning` computes, each record as the statement that read it saw it.
`OnlyKnownFailures`: a valid request fails only in the ways listed below. `PagesAreComplete`: a walk
gives every record that no one touched exactly once, in order.

What they leave out, because the code does otherwise (for each, TLC has a counterexample
when it is not excepted):

* `NOT IN` over a sub-select with a null column is never true, so `_none`, `_every` and NOT over a relation
  whose foreign key is on the other side find nothing once one key is null (`NullInNotIn`);
* the third nested relation filter is tied to the alias of the level above or to none (`TooDeep`);
* `first` and `last` together: the limit is `last`, the trimming is by `first` (`FirstAndLast`);
* a cursor of the form of a UUID is offered by the schema, also for every id of type ID, and parsed, and then has no
  conversion to an id (`transformers.rs`): the read is refused, so that ids that are UUIDs cannot be paged through (`UuidCursor`);
* a cursor among null values of the order's field compares with null (`CursorAmongNulls`);
* MySQL reads the children of a parent again when the parent's id comes back after another's (`ParentComesBack`);
* a field whose name ends like an operation (`check_in`, `BRAND`) is taken for that operation (`NamedLikeAnOperation`);
* two relation fields of one name to one model share the input of their nested creates, since its name has the field's name and
  not its opposite's (`SharedCreateInput`);
* an alias, or a field selected twice, is looked up under a name that is not there (`Aliased`, `Repeated`),
  a null for AND, OR, NOT, `_some`, `_every` or `_none` reaches an unreachable arm (`NullFilter`), and a
  required related record that is deleted between two statements has no default (`RequiredRelation`): these panic.

## 3. Proofs

Every theorem holds for any constants that satisfy the named assumptions of the
modules (`ConstantsAssumption` of `MigrationEngine`; `SqlAssumption`,
`TableAssumption` and `ProjectAssumption` of `SqlMigration`): any models, names,
datamodels and numbers of migrations. What else a theorem assumes is said below.

### MigrationEngine

`TypeCorrect` is `Spec => []TypeOK`, for any number of engines. `TypeOK`
is inductive together with `RevisionsBounded` (revisions lie between 1 and
`serial`), which `Latest` needs: a maximum of a set of revisions exists because
they are bounded.

`UnforcedMigrationsSpareRows` is `Spec => NoUnforcedLoss`, for any number of engines.
Its invariant `SparesInv` says that from the checker on, what an unforced job has
left to drop was empty when the checker looked.

`InferredStepsApply` is `Spec => []InferThenApplyWhenSettled`, for any number of engines, from unique revisions
(`UniqueRevisions`): the last row of a kind is then one row, whichever command looks for it.

For one engine (`Engines = {e}`) `MigrationEngineProofs` proves

* `LedgerDescribesDatabase`: `Spec => []LedgerMatchesDatabase`;
* `LifecycleIsImplemented`: `Spec => LifecycleImplemented`, the refinement of section 2;
* `StatusOnlyMovesForward`: `Spec => StatusMovesForward`.

None of them is inductive by itself. `LedgerInv` says, for every control point of the
engine, what the ledger says of the schema. `Says(M, b, r, S)` is the claim of a
ledger `M` with rows newer than `r` set aside; `Leads` says that the statements
still to be sent turn the live schema into the target; `Own` that the row of the
running command is in the ledger as the command last wrote it; `NothingAfter`
that no row is newer; `RollbackChain` that the schema stored as `before` in the
row that a rollback would undo is the schema the ledger describes without that
row. The last one is what makes a rollback sound: without it, undoing a
migration could lead to a schema no row describes. The proof has one lemma per kind of step (an update of the own row, a statement,
the end of a command, an emptied ledger) and one step per action.

The refinement needs `JobInv` besides: the statements in memory lead to the
target of the job and never away from it (`Towards`). Each action is then shown to be a step of `MigrationLifecycle`
or to leave its variables alone (`ActionStep`); `LedgerInv` gives the reached goal at
the end of an apply or a rollback.

`MigrationConcurrencyProofs` is about any number of engines that apply, fail and crash, and neither roll back
nor reset (`{"unapply", "reset"} \cap Commands = {}`); the violated
`rollback_race` shows why the assumption is needed.

* `EveryEngineDrivesItsRow`: `Spec => []OneDriver`;
* `StatusMovesForwardForAll`: `Spec => StatusMovesForward`;
* `ProgressOfAllEngines`: `Spec => []ProgressIsComplete`, and `ProgressOfOneEngine`, the same for one engine and
  every command.

`DriversInv` adds to `OneDriver` that the row of an engine that applies is in the ledger with the
status the engine remembers: an update then finds this row, and no other engine's, because revisions
are unique and the database numbers them.

`ProgressInv` says that what a row has counted and the statements its engine has left
add up to the statements of the migration (`Tally`), at each control point with or without the
statement that was executed and not counted yet; that a row which is not being rolled back has
counted no rollback; and that a job whose row is still to be created has all its statements left
(`Planned`). That no two engines drive one row comes from the invariants above.

### SqlMigration

`SqlTheorems` proves, for any number of migrations, rollbacks and failing statements,

* `ForeignKeysRestored`: `Spec => []ForeignKeysEnforced`, on both databases;

and for `Family = "sqlite"`

* `SqliteLosesNothing`: `Spec => []NoSilentLoss`;
* `SqliteReachesSchema`: `Spec => []SchemaReached`;
* `SqliteRollbackRestores`: `Spec => []RollbackRestores`;
* `SqliteAppliesCorrections`: `Spec => []CorrectionsApplicable`.

The argument has four layers.

1. *Steps and plans.* The differ builds sequences out of sequences. `SqlDiffProofs` shows that
   they list the sets of `SqlSteps` (`DiffSteps`), each step once, in the order of
   `into_steps` (`Rank`), and that the statements for SQLite are the steps with a rewrite in place of
   some and nothing in place of others (`Block`). A migration is then a walk through a
   plan: before its n-th statement it is between two steps (`Calm`) with the set
   `Todo` of steps pending, or inside a rewrite.
2. *Types, foreign keys, values* (`SqlMigrationProofs`). `TypesOK` says what schemas, rows, goals and
   histories look like and that `steps` is a rest of the plan of `goal`. `KeysOK`: between two
   steps foreign keys are enforced if the migration found them enforced. `ValuesOK`: between two steps every kept value is in its table,
   and each table still to be dropped holds none (`SafeOn`); inside a rewrite the value is in the table until the copy
   has it, and dropping the old table cascades nowhere because foreign keys are off.
   `NoSilentLoss` alone is not inductive: it does not say that the values a later statement discards are none of those kept.
3. *The live schema* (`SqlSchemaProofs`). `Live(T, from, to, P)` gives the tables, columns and indexes while `P` is pending;
   each step that is done turns `Live` for `P` into `Live` for the rest, and the
   database accepts the first pending step. With nothing pending it is the goal.
4. *Histories* (`SqlRollbackProofs`). `SchemasOK` says that the live schema is on its way to the goal (`Arrives`) and that the
   migrations that can be undone form a chain, each one leading to where the next one started
   (`Undoes`, `History`). This is what makes the rollback of an earlier migration arrive where it should.

Each layer takes what it needs of the one before as a hypothesis, an operator that states it (`StepFacts`,
`RowFacts`, `PlanFacts`, `LiveFacts`, `ExecutionFacts`, and `Enumerated` and `Inductive` for finite sets and induction);
`SqlTheorems` proves all of them, so the theorems rest on none. Induction over the length of a
plan is stated for a set of numbers (`SetInduction`), which follows from the well-foundedness of the naturals and needs no operator as a
parameter. `SequencesExt` brings bags and theorems about them into each proof that reaches it, which is why
`SetToSeq` and `FlattenSeq` stand in a module of their own, `StepSequences`, in terms the provers can expand.

### Only model-checked

* Liveness (`EveryMigrationSettles`, `EveryCommandReturns`): fairness is out of the prover's reach.
* Rollbacks and resets of several engines: `StatusMovesForward` fails there (`rollback_race`), and what holds is liveness.
* SQL migrations on PostgreSQL, but for the foreign keys. `NoSilentLossForSameIds` needs that the two sides of every foreign key have one type in
  every half-way schema, which the statements of the model do not enforce; `SchemaReachedButIndexes` and
  `RollbackRestoresButIndexes` need that no model has two indexes on one column, which is a restriction
  of the `postgres` run's datamodels and not of the code. `CorrectionsApplicable` rests on the same description of half-way schemas, which is
  worked out for SQLite only: there no statement alters a column in place and none depends on the order of
  the tables.
* `QueryExecutor`, `DatamodelPipeline`, `DatamodelMigrations` and `ReadExecutor`, whose graphs,
  trees and documents are built by recursive operators.

## 4. Not modelled

* MySQL: its renderer, its statements and its describer follow the same lines with other
  syntax; changes of an index that keeps its name.
* Scalar lists in writes, writes and filters on self relations, filters in writes other than by id,
  string matching in filters, embedded models in the query schema.
* The grammar below tokens, comments and positions, the reformatter, the DMMF output.
* The servers, the RPC encoding, connections, the command lines: I/O.
* The inflector: rules on English words, a constant of the models.
