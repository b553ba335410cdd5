-------------------------- MODULE MigrationEngine --------------------------
(***************************************************************************)
(* The life of a migration in the migration engine: the applyMigration,    *)
(* unapplyMigration and reset commands of one or more engine processes     *)
(* working on one SQL database, the `_Migration` table in which they keep  *)
(* the ledger of migrations, and the tables of the live schema.            *)
(*                                                                         *)
(* A datamodel is the set of its models and the live schema the set of its *)
(* tables: one model is one table, and a database migration is a sequence  *)
(* of DROP TABLE statements followed by one of CREATE TABLE statements.    *)
(* Every statement sent to the database is an atomic step and nothing      *)
(* spans two of them, because the engine opens no transaction and takes no *)
(* lock.  Two engines therefore interleave at any statement, a statement   *)
(* may fail, and an engine may stop between any two.                       *)
(***************************************************************************)
EXTENDS Naturals, FiniteSets

CONSTANTS
    Engines,      \* the engine processes that share the database
    Models,       \* the names of models and of their tables
    Names,        \* the migration ids clients use
    WatchNames,   \* the ids that start with "watch"
    Commands,     \* what clients do: a subset of CommandNames
    Faults,       \* what may go wrong: a subset of FaultNames
    MaxRevision   \* bound: no applyMigration is started past this revision

CommandNames == {"apply", "unapply", "reset", "write"}
FaultNames == {"crash", "statement"}

ASSUME ConstantsAssumption ==
    /\ IsFiniteSet(Models)
    /\ Names # {}
    /\ WatchNames \subseteq Names
    /\ Commands \subseteq CommandNames
    /\ Faults \subseteq FaultNames
    /\ MaxRevision \in Nat

VARIABLES
    table,        \* does the `_Migration` table exist?
    migrations,   \* the rows of `_Migration`
    serial,       \* the revision the database handed out last
    schema,       \* the tables of the live schema
    filled,       \* the tables that hold rows
    base,         \* auxiliary: the schema when the ledger was last empty
    pc,           \* what each engine does next
    job           \* what each engine has in memory for the running command

vars == <<table, migrations, serial, schema, filled, base, pc, job>>

-----------------------------------------------------------------------------
(* The rows of `_Migration`, and what an engine has in memory.             *)

Datamodels == SUBSET Models

MigrationStatus ==
    {"Pending", "MigrationInProgress", "MigrationSuccess", "MigrationFailure",
     "RollingBack", "RollbackSuccess", "RollbackFailure"}

\* The database_migration column holds the schemas before and after; the
\* latter is what SqlSchemaCalculator makes of `datamodel`.
Migration ==
    [name: Names, revision: Nat, status: MigrationStatus,
     applied: Nat, rolled_back: Nat, finished: BOOLEAN,
     datamodel: Datamodels, before: Datamodels]

MigrationUpdateParams ==
    [revision: Nat, status: MigrationStatus,
     applied: Nat, rolled_back: Nat, finished: BOOLEAN]

\* The datamodel steps of an input: CreateModel steps, then DeleteModel steps.
DatamodelSteps ==
    {s \in [create: Datamodels, delete: Datamodels] : s.create \cap s.delete = {}}

\* `drop` and `create` are the statements still to be executed.
Job ==
    [name: Names, force: BOOLEAN, leaving: BOOLEAN, steps: DatamodelSteps,
     from: Datamodels, to: Datamodels,
     drop: Datamodels, create: Datamodels, seen: Datamodels,
     params: MigrationUpdateParams]

NoParams == [revision |-> 0, status |-> "Pending",
             applied |-> 0, rolled_back |-> 0, finished |-> FALSE]

NoJob == [name |-> CHOOSE n \in Names : TRUE, force |-> FALSE, leaving |-> FALSE,
          steps |-> [create |-> {}, delete |-> {}], from |-> {}, to |-> {},
          drop |-> {}, create |-> {}, seen |-> {}, params |-> NoParams]

Applying == {"start_apply", "apply", "record_apply", "finish_apply", "fail_apply"}
Unapplying == {"start_unapply", "unapply", "record_unapply",
               "finish_unapply", "fail_unapply"}
Resetting == {"reset_drop", "reset_init"}
Preparing == {"calculate", "infer", "check", "create"}
Busy == Preparing \cup Applying \cup Unapplying \cup {"report"} \cup Resetting

\* One type invariant: every row, counter and in-memory job is well formed.
TypeOK ==
    /\ table \in BOOLEAN
    /\ migrations \subseteq Migration
    /\ serial \in Nat
    /\ schema \in Datamodels
    /\ filled \subseteq schema
    /\ base \in Datamodels
    /\ pc \in [Engines -> {"down", "idle"} \cup Busy]
    /\ job \in [Engines -> Job]

-----------------------------------------------------------------------------
(* Reading the ledger.                                                     *)

\* The row with the highest revision: ORDER BY revision DESC, first row.
Latest(S) == CHOOSE m \in S : \A x \in S : x.revision <= m.revision

DatamodelOf(S) == IF S = {} THEN {} ELSE Latest(S).datamodel

Successes == {m \in migrations : m.status = "MigrationSuccess"}
NonWatch == {m \in migrations : m.name \notin WatchNames}

\* MigrationPersistence::current_datamodel, of the row `last` returns.
CurrentDatamodel == DatamodelOf(Successes)

\* The datamodel of last_non_watch_migration, whatever its status.
LastNonWatchDatamodel == DatamodelOf(NonWatch)

\* The datamodel of last_non_watch_applied_migration.
LastNonWatchAppliedDatamodel == DatamodelOf(NonWatch \cap Successes)

-----------------------------------------------------------------------------
(* Datamodel steps: the differ that infers them and the calculator that    *)
(* applies them.                                                           *)

Diff(previous, next) == [create |-> next \ previous, delete |-> previous \ next]

\* The calculator refuses to create what exists or to delete what does not.
Applicable(datamodel, steps) ==
    /\ steps.create \cap datamodel = {}
    /\ steps.delete \subseteq datamodel

Calculate(datamodel, steps) == (datamodel \cup steps.create) \ steps.delete

\* inferMigrationSteps: the datamodel its returned steps start from.
InferBase(name) ==
    IF name \in WatchNames THEN CurrentDatamodel ELSE LastNonWatchAppliedDatamodel

InferMigrationSteps(name, datamodel) == Diff(InferBase(name), datamodel)

\* applyMigration: is this the first migration after watch mode?
LeavesWatchMode(name) ==
    /\ Successes # {}
    /\ Latest(Successes).name \in WatchNames
    /\ name \notin WatchNames

\* Mutant: the transition out of watch mode is forgotten.
ApplyBaseIgnoringWatch(leaving) == CurrentDatamodel

\* applyMigration: the datamodel the given steps are applied to.
ApplyBase(leaving) ==
    IF leaving THEN LastNonWatchDatamodel ELSE CurrentDatamodel

-----------------------------------------------------------------------------
(* Writing the ledger.                                                     *)

\* Mutant: the row is found by name alone.
UpdatedByName(name, p) ==
    {IF m.name = name
       THEN [m EXCEPT !.status = p.status, !.applied = p.applied,
                      !.rolled_back = p.rolled_back, !.finished = p.finished]
       ELSE m : m \in migrations}

\* MigrationPersistence::update: the row with this name and revision, if any.
Updated(name, p) ==
    {IF m.revision = p.revision /\ m.name = name
       THEN [m EXCEPT !.status = p.status, !.applied = p.applied,
                      !.rolled_back = p.rolled_back, !.finished = p.finished]
       ELSE m : m \in migrations}

Goto(e, label) == pc' = [pc EXCEPT ![e] = label]

\* The command is done with its migration: its in-memory state is gone.
Forget(e, label) == Goto(e, label) /\ job' = [job EXCEPT ![e] = NoJob]

Return(e) == Forget(e, "idle")

\* Persist the parameters p of e's job; a missing table is a Panic instead.
Persist(e, p) ==
    /\ table
    /\ migrations' = Updated(job[e].name, p)
    /\ UNCHANGED <<table, serial, schema, filled, base>>

\* Persist and go on with the command.
Advance(e, p, label) ==
    /\ Persist(e, p)
    /\ job' = [job EXCEPT ![e].params = p]
    /\ Goto(e, label)

-----------------------------------------------------------------------------
(* Engine start.                                                           *)

\* MigrationEngine::init creates the schema and the table when missing.
Start(e) ==
    /\ pc[e] = "down"
    /\ table' = TRUE
    /\ Goto(e, "idle")
    /\ UNCHANGED <<migrations, serial, schema, filled, base, job>>

\* listMigrations, migrationProgress, inferMigrationSteps, calculateDatamodel
\* and calculateDatabaseSteps only read.
ReadOnlyCommand(e) == pc[e] = "idle" /\ table /\ UNCHANGED vars

-----------------------------------------------------------------------------
(* applyMigration.                                                         *)

\* ApplyMigrationCommand::execute reads the last migration to choose its branch.
StartApply(e, name, steps, force) ==
    /\ "apply" \in Commands
    /\ pc[e] = "idle"
    /\ table
    /\ serial < MaxRevision
    /\ job' = [job EXCEPT ![e] =
                  [NoJob EXCEPT !.name = name, !.steps = steps, !.force = force,
                                !.leaving = LeavesWatchMode(name)]]
    /\ Goto(e, "calculate")
    /\ UNCHANGED <<table, migrations, serial, schema, filled, base>>

\* The branch reads the ledger again and applies the steps to its base.
CalculateNext(e) ==
    LET from == ApplyBase(job[e].leaving)
        steps == job[e].steps
    IN  /\ pc[e] = "calculate"
        /\ table
        /\ \/ /\ Applicable(from, steps)
              /\ job' = [job EXCEPT ![e].to = Calculate(from, steps),
                                    ![e].steps = NoJob.steps,
                                    ![e].leaving = FALSE]
              /\ Goto(e, "infer")
           \/ /\ ~Applicable(from, steps)
              /\ Return(e)
        /\ UNCHANGED <<table, migrations, serial, schema, filled, base>>

\* Mutant: the diff starts from the schema the ledger describes.
InferFromLedger(e) ==
    /\ pc[e] = "infer"
    /\ job' = [job EXCEPT ![e].from = CurrentDatamodel,
                          ![e].drop = CurrentDatamodel \ job[e].to,
                          ![e].create = job[e].to \ CurrentDatamodel]
    /\ Goto(e, "check")
    /\ UNCHANGED <<table, migrations, serial, schema, filled, base>>

\* The inferrer introspects the live schema and diffs it with the next one;
\* the datamodel of the ledger plays no part in it.
InferDatabaseMigration(e) ==
    /\ pc[e] = "infer"
    /\ job' = [job EXCEPT ![e].from = schema,
                          ![e].drop = schema \ job[e].to,
                          ![e].create = job[e].to \ schema]
    /\ Goto(e, "check")
    /\ UNCHANGED <<table, migrations, serial, schema, filled, base>>

\* Mutant: warnings do not stop an unforced migration.
CheckIgnoringWarnings(e) ==
    LET Proceeds == job[e].drop \subseteq schema
    IN  /\ pc[e] = "check"
        /\ \/ /\ Proceeds
              /\ job' = [job EXCEPT ![e].seen = filled]
              /\ Goto(e, "create")
           \/ ~Proceeds /\ Return(e)
        /\ UNCHANGED <<table, migrations, serial, schema, filled, base>>

\* Counting the rows of the tables to drop: a missing table is an error, a
\* non-empty one a warning, and warnings stop a migration without `force`.
CheckDestructiveChanges(e) ==
    LET j == job[e]
        Proceeds == j.drop \subseteq schema /\ (j.drop \cap filled = {} \/ j.force)
    IN  /\ pc[e] = "check"
        /\ \/ /\ Proceeds
              /\ job' = [job EXCEPT ![e].seen = filled]
              /\ Goto(e, "create")
           \/ ~Proceeds /\ Return(e)
        /\ UNCHANGED <<table, migrations, serial, schema, filled, base>>

\* Mutant: the engine numbers the row itself, by counting those it sees.
CreateWithoutSerial(e) ==
    LET p == [NoParams EXCEPT !.revision = Cardinality(Successes) + 1]
    IN  /\ pc[e] = "create"
        /\ table
        /\ serial' = serial + 1
        /\ migrations' = migrations \cup
              {[name |-> job[e].name, revision |-> p.revision, status |-> p.status,
                applied |-> p.applied, rolled_back |-> p.rolled_back,
                finished |-> p.finished,
                datamodel |-> job[e].to, before |-> job[e].from]}
        /\ job' = [job EXCEPT ![e].params = p]
        /\ Goto(e, "start_apply")
        /\ UNCHANGED <<table, schema, filled, base>>

\* MigrationPersistence::create inserts the row; the database numbers it.
CreateMigration(e) ==
    LET p == [NoParams EXCEPT !.revision = serial + 1]
    IN  /\ pc[e] = "create"
        /\ table
        /\ serial' = serial + 1
        /\ migrations' = migrations \cup
              {[name |-> job[e].name, revision |-> p.revision, status |-> p.status,
                applied |-> p.applied, rolled_back |-> p.rolled_back,
                finished |-> p.finished,
                datamodel |-> job[e].to, before |-> job[e].from]}
        /\ job' = [job EXCEPT ![e].params = p]
        /\ Goto(e, "start_apply")
        /\ UNCHANGED <<table, schema, filled, base>>

MarkInProgress(e) ==
    /\ pc[e] = "start_apply"
    /\ Advance(e, [job[e].params EXCEPT !.status = "MigrationInProgress"], "apply")

\* The statement an index of the migration stands for: drops come first.
NextStatement(j, t) == t \in j.drop \/ (j.drop = {} /\ t \in j.create)

Succeeds(j, t) ==
    \/ t \in j.drop /\ t \in schema
    \/ t \in j.create /\ t \notin schema /\ table

\* apply_next_step sends one statement.  After the last one, or when there is
\* none, the loop ends; otherwise its progress is recorded.
ExecuteStatement(e, record, finish, fail) ==
    LET j == job[e]
    IN  \/ /\ j.drop \cup j.create = {}
           /\ Goto(e, finish)
           /\ UNCHANGED <<schema, filled, job>>
        \/ \E t \in Models :
              /\ NextStatement(j, t)
              /\ Succeeds(j, t)
              /\ schema' = IF t \in j.drop THEN schema \ {t} ELSE schema \cup {t}
              /\ filled' = filled \ {t}
              /\ job' = [job EXCEPT ![e].drop = @ \ {t}, ![e].create = @ \ {t}]
              /\ Goto(e, IF (j.drop \cup j.create) \ {t} = {} THEN finish ELSE record)
        \/ \E t \in Models :
              /\ NextStatement(j, t)
              /\ ~Succeeds(j, t) \/ "statement" \in Faults
              /\ Goto(e, fail)
              /\ UNCHANGED <<schema, filled, job>>

\* One turn of MigrationApplierImpl::go_forward, up to the update.
ApplyStep(e) ==
    /\ pc[e] = "apply"
    /\ ExecuteStatement(e, "record_apply", "finish_apply", "fail_apply")
    /\ UNCHANGED <<table, migrations, serial, base>>

RecordApplyStep(e) ==
    /\ pc[e] = "record_apply"
    /\ Advance(e, [job[e].params EXCEPT !.applied = @ + 1], "apply")

FinishApply(e) ==
    /\ pc[e] = "finish_apply"
    /\ Persist(e, [job[e].params EXCEPT !.status = "MigrationSuccess",
                                        !.finished = TRUE])
    /\ Return(e)

\* Mutant: the error is returned before it is recorded.
FailApplySilently(e) ==
    /\ pc[e] = "fail_apply"
    /\ table
    /\ Return(e)
    /\ UNCHANGED <<table, migrations, serial, schema, filled, base>>

FailApply(e) ==
    /\ pc[e] = "fail_apply"
    /\ Persist(e, [job[e].params EXCEPT !.status = "MigrationFailure"])
    /\ Return(e)

-----------------------------------------------------------------------------
(* unapplyMigration.                                                       *)

\* UnapplyMigrationCommand::execute reads the last successful row and the
\* rollback stored with it; without one there is nothing to do.
StartUnapply(e) ==
    LET m == Latest(Successes)
    IN  /\ "unapply" \in Commands
        /\ pc[e] = "idle"
        /\ table
        /\ Successes # {}
        /\ job' = [job EXCEPT ![e] =
                      [NoJob EXCEPT
                         !.name = m.name, !.from = m.datamodel, !.to = m.before,
                         !.drop = m.datamodel \ m.before,
                         !.create = m.before \ m.datamodel,
                         !.params = [revision |-> m.revision, status |-> m.status,
                                     applied |-> m.applied,
                                     rolled_back |-> m.rolled_back,
                                     finished |-> m.finished]]]
        /\ Goto(e, "start_unapply")
        /\ UNCHANGED <<table, migrations, serial, schema, filled, base>>

MarkRollingBack(e) ==
    /\ pc[e] = "start_unapply"
    /\ Advance(e, [job[e].params EXCEPT !.status = "RollingBack"], "unapply")

\* One turn of MigrationApplierImpl::go_backward, up to the update.
UnapplyStep(e) ==
    /\ pc[e] = "unapply"
    /\ ExecuteStatement(e, "record_unapply", "finish_unapply", "fail_unapply")
    /\ UNCHANGED <<table, migrations, serial, base>>

\* Mutant: a rollback counts down from zero.
RecordUnapplyDown(e) ==
    /\ pc[e] = "record_unapply"
    /\ Advance(e, [job[e].params EXCEPT !.rolled_back = @ - 1], "unapply")

\* Mutant: a rollback counts in the wrong column.
RecordUnapplyAsApplied(e) ==
    /\ pc[e] = "record_unapply"
    /\ Advance(e, [job[e].params EXCEPT !.applied = @ + 1], "unapply")

RecordUnapplyStep(e) ==
    /\ pc[e] = "record_unapply"
    /\ Advance(e, [job[e].params EXCEPT !.rolled_back = @ + 1], "unapply")

FinishUnapply(e) ==
    /\ pc[e] = "finish_unapply"
    /\ Persist(e, [job[e].params EXCEPT !.status = "RollbackSuccess"])
    /\ Forget(e, "report")

\* The answer names the migration that is active now: one more read.
ReportActive(e) ==
    /\ pc[e] = "report"
    /\ table
    /\ Return(e)
    /\ UNCHANGED <<table, migrations, serial, schema, filled, base>>

\* Mutant: a migration that could not be rolled back counts as applied.
FailUnapplyAsApplied(e) ==
    /\ pc[e] = "fail_unapply"
    /\ Persist(e, [job[e].params EXCEPT !.status = "MigrationSuccess"])
    /\ Return(e)

FailUnapply(e) ==
    /\ pc[e] = "fail_unapply"
    /\ Persist(e, [job[e].params EXCEPT !.status = "RollbackFailure"])
    /\ Return(e)

-----------------------------------------------------------------------------
(* reset.                                                                  *)

\* DELETE FROM "_Migration"; its error, the rule on MySQL, is ignored.
StartReset(e) ==
    /\ "reset" \in Commands
    /\ pc[e] = "idle"
    /\ \/ table /\ migrations' = {} /\ base' = schema
       \/ UNCHANGED <<migrations, base>>
    /\ Goto(e, "reset_drop")
    /\ UNCHANGED <<table, serial, schema, filled, job>>

\* DROP SCHEMA (or removing the SQLite file); its error is ignored too.
ResetDrop(e) ==
    /\ pc[e] = "reset_drop"
    /\ \/ /\ table' = FALSE
          /\ migrations' = {}
          /\ serial' = 0
          /\ schema' = {}
          /\ filled' = {}
          /\ base' = {}
       \/ /\ "statement" \in Faults
          /\ UNCHANGED <<table, migrations, serial, schema, filled, base>>
    /\ Goto(e, "reset_init")
    /\ UNCHANGED job

\* ResetCommand::execute ends with MigrationEngine::init.
ResetInit(e) ==
    /\ pc[e] = "reset_init"
    /\ table' = TRUE
    /\ Goto(e, "idle")
    /\ UNCHANGED <<migrations, serial, schema, filled, base, job>>

-----------------------------------------------------------------------------
(* The environment.                                                        *)

Halt(e) ==
    /\ Forget(e, "down")
    /\ UNCHANGED <<table, migrations, serial, schema, filled, base>>

Crash(e) == "crash" \in Faults /\ pc[e] # "down" /\ Halt(e)

\* Reading or updating a table that another engine's reset has dropped: the
\* results are unwrapped.
ReadsLedger ==
    {"calculate", "create", "start_apply", "record_apply", "finish_apply",
     "fail_apply", "start_unapply", "record_unapply", "finish_unapply",
     "fail_unapply", "report"}

\* Mutant: an update waits for the table to come back.
PanicOnReads(e) == pc[e] = "calculate" /\ ~table /\ Halt(e)

Panic(e) == pc[e] \in ReadsLedger /\ ~table /\ Halt(e)

\* Every command but reset reads the ledger first.
RequestPanics(e) == pc[e] = "idle" /\ ~table /\ Halt(e)

\* The application writes rows through the query engine.
WriteRows(t) ==
    /\ "write" \in Commands
    /\ t \in schema \ filled
    /\ filled' = filled \cup {t}
    /\ UNCHANGED <<table, migrations, serial, schema, base, pc, job>>

-----------------------------------------------------------------------------

Init ==
    /\ table = FALSE
    /\ migrations = {}
    /\ serial = 0
    /\ schema \in Datamodels
    /\ filled = {}
    /\ base = schema
    /\ pc = [e \in Engines |-> "down"]
    /\ job = [e \in Engines |-> NoJob]

\* A command that runs goes on without waiting for anyone.
Step(e) ==
    \/ CalculateNext(e) \/ InferDatabaseMigration(e)
    \/ CheckDestructiveChanges(e) \/ CreateMigration(e)
    \/ MarkInProgress(e) \/ ApplyStep(e) \/ RecordApplyStep(e)
    \/ FinishApply(e) \/ FailApply(e)
    \/ MarkRollingBack(e) \/ UnapplyStep(e) \/ RecordUnapplyStep(e)
    \/ FinishUnapply(e) \/ FailUnapply(e) \/ ReportActive(e)
    \/ ResetDrop(e) \/ ResetInit(e)
    \/ Panic(e)

Request(e) ==
    \/ \E name \in Names, steps \in DatamodelSteps, force \in BOOLEAN :
          StartApply(e, name, steps, force)
    \/ StartUnapply(e)
    \/ StartReset(e)
    \/ ReadOnlyCommand(e)
    \/ RequestPanics(e)

Next ==
    \/ \E e \in Engines : Start(e) \/ Request(e) \/ Step(e) \/ Crash(e)
    \/ \E t \in Models : WriteRows(t)

Spec == Init /\ [][Next]_vars

FairSpec == Spec /\ \A e \in Engines : WF_vars(Step(e))

-----------------------------------------------------------------------------
(* Properties.                                                             *)

\* A row that says its migration changed the database, or may have, and whose
\* effect the ledger no longer describes: it failed, or its engine stopped.
Residue(m) ==
    m.status \in {"MigrationInProgress", "MigrationFailure",
                  "RollingBack", "RollbackFailure"}

NoResidueAfter(revision) ==
    \A m \in migrations : Residue(m) => m.revision < revision

AtRest == \A e \in Engines : pc[e] \in {"down", "idle"}

\* MigrationPersistence::current_datamodel is what the engine takes the live
\* schema to be.  With one engine and nothing running, the schema is exactly
\* the datamodel of the last successful migration (with none: the schema
\* before the first one), after any history of applied, refused, failed,
\* interrupted and rolled back migrations and resets, unless an unfinished or
\* failed migration is newer than it.
LedgerMatchesDatabase ==
    AtRest =>
        IF Successes = {}
          THEN NoResidueAfter(0) => schema = base
          ELSE NoResidueAfter(Latest(Successes).revision)
                  => schema = CurrentDatamodel

\* The number of database steps of a migration.
StepCount(m) ==
    Cardinality(m.datamodel \ m.before) + Cardinality(m.before \ m.datamodel)

\* go_forward and go_backward count a step only when another one follows it.
Counted(m) == IF StepCount(m) = 0 THEN 0 ELSE StepCount(m) - 1

\* The progress a client polls with migrationProgress: a migration that
\* succeeded was applied to its last step, one that was rolled back was rolled
\* back to its last step, and a running one never reports more than that.
ProgressIsComplete ==
    \A m \in migrations :
        /\ m.finished => m.applied = Counted(m)
        /\ m.status = "RollbackSuccess" => m.rolled_back = Counted(m)
        /\ m.applied <= Counted(m) /\ m.rolled_back <= Counted(m)

\* A row without its name and its progress.
Row(m) == [revision |-> m.revision, status |-> m.status,
           datamodel |-> m.datamodel, before |-> m.before]

Rows == {Row(m) : m \in migrations}

Lifecycle == INSTANCE MigrationLifecycle WITH rows <- Rows, issued <- serial

\* One engine implements the life of a migration: MigrationApplierImpl records
\* that a migration runs before its first statement and a statement before the
\* next one, so that whatever fails or stops, the schema moves only towards a
\* recorded goal, and success is recorded only when the goal is reached.
LifecycleImplemented == Lifecycle!Spec

Successors(status) == Lifecycle!Successors(status)

\* The assertions of MigrationApplierImpl::apply and ::unapply on the status
\* they start from: the persisted status of a row only moves forward through
\* the life of a migration, and a rollback starts from success.
StatusMovesForward ==
    [][\A m \in migrations, n \in migrations' :
          (m.revision = n.revision /\ m.status # n.status)
             => n.status \in Successors(m.status)]_vars

\* MigrationPersistence::update finds its row by name and revision: a row is
\* driven by one engine, and no two rows share a revision.
OneDriver ==
    /\ \A m, n \in migrations : m.revision = n.revision => m = n
    /\ \A d, e \in Engines :
          /\ pc[d] \in Applying \cup Unapplying
          /\ pc[e] \in Applying \cup Unapplying
          /\ job[d].params.revision = job[e].params.revision
          => d = e

\* DestructiveChangesChecker: "Warnings will prevent a migration from being
\* applied, unless the `force` flag is passed".  No step of an unforced
\* migration drops a table that held rows when the checker counted them.
NoUnforcedLoss ==
    [][\A e \in Engines :
          ApplyStep(e) /\ ~job[e].force
             => (schema \ schema') \cap job[e].seen = {}]_vars

\* What a client does: infer the steps to a datamodel, then apply them.
RoundTrips(name, datamodel) ==
    LET from == ApplyBase(LeavesWatchMode(name))
        steps == InferMigrationSteps(name, datamodel)
    IN  Applicable(from, steps) /\ Calculate(from, steps) = datamodel

\* inferMigrationSteps followed by applyMigration, with nothing else running,
\* reaches the datamodel asked for, in and out of watch mode.
InferThenApply ==
    AtRest => \A name \in Names, datamodel \in Datamodels :
        RoundTrips(name, datamodel)

\* The same, as long as the last non-watch migration is a successful one.
InferThenApplyWhenSettled ==
    (NonWatch # {} => Latest(NonWatch).status = "MigrationSuccess")
        => InferThenApply

\* Part of the induction: revisions are handed out in order.
RevisionsBounded == \A m \in migrations : m.revision \in 1 .. serial

\* Without crashes every migration that was started is settled, as a success
\* or a failure: each engine runs its command to the end.
EveryMigrationSettles ==
    \A r \in 1 .. MaxRevision + Cardinality(Engines) :
        (\E m \in migrations : m.revision = r /\ m.status # "MigrationSuccess")
            ~> (\A m \in migrations : m.revision = r =>
                    m.status \in {"MigrationSuccess", "MigrationFailure",
                                  "RollbackSuccess", "RollbackFailure"})

\* Without crashes every command returns, whatever the other engines do: when a
\* reset drops the ledger under it, it fails instead of waiting.
EveryCommandReturns ==
    \A e \in Engines : (pc[e] \in Busy) ~> (pc[e] \notin Busy)

=============================================================================
