----------------------- MODULE MigrationEngineProofs -----------------------
(***************************************************************************)
(* Proofs about MigrationEngine, for every set of engines, models and      *)
(* migration ids, every workload and every set of faults: types, inferred  *)
(* steps that apply (InferThenApplyWhenSettled), rows that are spared      *)
(* (NoUnforcedLoss); with one engine also that                             *)
(*   - the schema is the one the ledger says it is (LedgerMatchesDatabase),*)
(*   - the engine implements the life of a migration                       *)
(*     (LifecycleImplemented), and                                         *)
(*   - the status of a row only moves forward (StatusMovesForward).        *)
(***************************************************************************)
EXTENDS MigrationEngine, WellFoundedInduction, TLAPS

-----------------------------------------------------------------------------
(* The row with the highest revision.                                      *)

\* A non-empty set of natural numbers below a bound has a maximum.
LEMMA HasMaximum ==
    ASSUME NEW n \in Nat, NEW T \in SUBSET (0 .. n), T # {}
    PROVE  \E x \in T : \A y \in T : y <= x
<1> DEFINE Less == {p \in Nat \X Nat : p[1] < p[2]}
           U == {n - x : x \in T}
<1>1. IsWellFoundedOn(Less, Nat)
  BY NatLessThanWellFounded, Zenon DEF OpToRel
<1>2. U \subseteq Nat /\ U # {}
  <2>1. \A x \in T : n - x \in Nat
    OBVIOUS
  <2> QED BY <2>1, Zenon
<1>3. PICK u \in U : \A v \in U : <<v, u>> \notin Less
  <2> HIDE DEF U, Less
  <2> QED BY <1>1, <1>2, WFMin, Zenon
<1>4. PICK x \in T : u = n - x
  BY <1>3, Zenon
<1>5. ASSUME NEW y \in T, ~(y <= x)
      PROVE  FALSE
  <2>1. n - y \in U /\ <<n - y, u>> \in Less
    BY <1>4, <1>5
  <2> QED BY <1>3, <2>1, Zenon
<1> QED BY <1>5, Zenon

\* ORDER BY revision DESC finds the newest row of a selection of the ledger.
LEMMA LatestIsNewest ==
    ASSUME TypeOK, RevisionsBounded, NEW S \in SUBSET migrations, S # {}
    PROVE  /\ Latest(S) \in S
           /\ \A x \in S : x.revision <= Latest(S).revision
<1> DEFINE T == {m.revision : m \in S}
<1>1. T \in SUBSET (0 .. serial) /\ T # {}
  BY DEF TypeOK, RevisionsBounded
<1>2. PICK r \in T : \A y \in T : y <= r
  <2> HIDE DEF T
  <2> QED BY <1>1, HasMaximum, Zenon DEF TypeOK
<1>3. PICK m \in S : m.revision = r
  BY <1>2, Zenon
<1>4. \A x \in S : x.revision <= m.revision
  BY <1>2, <1>3, Zenon
<1> QED BY <1>4, Zenon DEF Latest

\* Every datamodel read from the ledger is one.
LEMMA DatamodelOfType ==
    ASSUME TypeOK, RevisionsBounded, NEW S \in SUBSET migrations
    PROVE  DatamodelOf(S) \in Datamodels
<1>1. CASE S = {}
  BY <1>1, Zenon DEF DatamodelOf, Datamodels
<1>2. CASE S # {}
  <2>1. Latest(S) \in Migration
    BY <1>2, LatestIsNewest, Zenon DEF TypeOK
  <2> QED BY <1>2, <2>1, Zenon DEF DatamodelOf, Migration
<1> QED BY <1>1, <1>2, Zenon

-----------------------------------------------------------------------------
(* Type correctness.                                                       *)

\* An idle engine has no job.
LEMMA NoJobType == NoJob \in Job
<1>1. (CHOOSE n \in Names : TRUE) \in Names
  BY ConstantsAssumption, Zenon
<1>2. NoParams \in MigrationUpdateParams
  BY Zenon DEF NoParams, MigrationUpdateParams, MigrationStatus
<1>3. [create |-> {}, delete |-> {}] \in DatamodelSteps
  BY Zenon DEF DatamodelSteps, Datamodels
<1> QED BY <1>1, <1>2, <1>3, Zenon DEF NoJob, Job, Datamodels

\* An update keeps the rows well formed and their number and order.
LEMMA UpdatedType ==
    ASSUME TypeOK, RevisionsBounded,
           NEW name \in Names, NEW p \in MigrationUpdateParams
    PROVE  /\ Updated(name, p) \subseteq Migration
           /\ \A m \in Updated(name, p) : m.revision \in 1 .. serial
<1> SUFFICES ASSUME NEW m \in migrations,
                    NEW n, n = IF m.revision = p.revision /\ m.name = name
                                 THEN [m EXCEPT !.status = p.status, !.applied = p.applied,
                                        !.rolled_back = p.rolled_back, !.finished = p.finished]
                                 ELSE m
             PROVE  n \in Migration /\ n.revision = m.revision
  BY Zenon DEF Updated, RevisionsBounded
<1> m \in Migration
  BY Zenon DEF TypeOK
<1> QED BY Zenon DEF Migration, MigrationUpdateParams

TypeInv == TypeOK /\ RevisionsBounded

\* Persisting the parameters of a job keeps the type invariant's ledger part.
LEMMA PersistType ==
    ASSUME TypeInv, NEW e \in Engines, NEW p \in MigrationUpdateParams, Persist(e, p)
    PROVE  /\ table' \in BOOLEAN /\ migrations' \subseteq Migration /\ serial' \in Nat
           /\ schema' \in Datamodels /\ filled' \subseteq schema' /\ base' \in Datamodels
           /\ RevisionsBounded'
<1>1. job[e].name \in Names
  BY Zenon DEF TypeInv, TypeOK, Job
<1> QED BY <1>1, UpdatedType, Zenon DEF TypeInv, TypeOK, Persist, RevisionsBounded

\* Storing the progress of a migration keeps the types.
LEMMA AdvanceType ==
    ASSUME TypeInv, NEW e \in Engines, NEW p \in MigrationUpdateParams,
           NEW label \in Busy, Advance(e, p, label)
    PROVE  TypeInv'
<1>1. job' \in [Engines -> Job]
  BY DEF TypeInv, TypeOK, Advance, Job
<1>2. pc' \in [Engines -> {"down", "idle"} \cup Busy]
  BY Zenon DEF TypeInv, TypeOK, Advance, Goto
<1> QED BY <1>1, <1>2, PersistType, Zenon DEF TypeInv, TypeOK, Advance

\* Forgetting the job keeps its type.
LEMMA ForgetType ==
    ASSUME TypeInv, NEW e \in Engines, NEW label \in {"down", "idle"} \cup Busy,
           Forget(e, label)
    PROVE  job' \in [Engines -> Job] /\ pc' \in [Engines -> {"down", "idle"} \cup Busy]
BY NoJobType, Zenon DEF TypeInv, TypeOK, Forget, Goto

\* An engine that stops keeps the types.
LEMMA HaltType ==
    ASSUME TypeInv, NEW e \in Engines, Halt(e)
    PROVE  TypeInv'
<1>1. job' \in [Engines -> Job] /\ pc' \in [Engines -> {"down", "idle"} \cup Busy]
  BY ForgetType, Zenon DEF Halt
<1> QED BY <1>1, Zenon DEF TypeInv, TypeOK, Halt, RevisionsBounded

\* The parameters an engine persists are those it holds, with some fields set.
LEMMA ParamsType ==
    ASSUME NEW p \in MigrationUpdateParams, NEW st \in MigrationStatus
    PROVE  /\ [p EXCEPT !.status = st] \in MigrationUpdateParams
           /\ [p EXCEPT !.status = st, !.finished = TRUE] \in MigrationUpdateParams
           /\ [p EXCEPT !.applied = @ + 1] \in MigrationUpdateParams
           /\ [p EXCEPT !.rolled_back = @ + 1] \in MigrationUpdateParams
<1>1. [p EXCEPT !.status = st] \in MigrationUpdateParams
  BY Zenon DEF MigrationUpdateParams
<1>2. [p EXCEPT !.status = st, !.finished = TRUE] \in MigrationUpdateParams
  BY Zenon DEF MigrationUpdateParams
<1>3. [p EXCEPT !.applied = @ + 1] \in MigrationUpdateParams
  BY DEF MigrationUpdateParams
<1>4. [p EXCEPT !.rolled_back = @ + 1] \in MigrationUpdateParams
  BY DEF MigrationUpdateParams
<1> QED BY <1>1, <1>2, <1>3, <1>4, Zenon

\* The parameters of a job are those of an update.
LEMMA JobParamsType ==
    ASSUME TypeInv, NEW e \in Engines
    PROVE  job[e] \in Job /\ job[e].params \in MigrationUpdateParams
BY Zenon DEF TypeInv, TypeOK, Job

\* Executing a statement keeps the types.
LEMMA ExecuteStatementType ==
    ASSUME TypeInv, NEW e \in Engines, NEW record \in Busy, NEW finish \in Busy,
           NEW fail \in Busy, ExecuteStatement(e, record, finish, fail),
           UNCHANGED <<table, migrations, serial, base>>
    PROVE  TypeInv'
<1>1. job' \in [Engines -> Job]
  <2>1. CASE UNCHANGED job
    BY <2>1, Zenon DEF TypeInv, TypeOK
  <2>2. ASSUME NEW t, job' = [job EXCEPT ![e].drop = @ \ {t}, ![e].create = @ \ {t}]
        PROVE  job' \in [Engines -> Job]
    <3> DEFINE j == [job[e] EXCEPT !.drop = @ \ {t}, !.create = @ \ {t}]
    <3>1. j \in Job
      BY JobParamsType, Zenon DEF Job, Datamodels
    <3>2. job' = [job EXCEPT ![e] = j]
      BY <2>2, Zenon DEF TypeInv, TypeOK
    <3> QED BY <3>1, <3>2, Zenon DEF TypeInv, TypeOK
  <2> QED BY <2>1, <2>2, Zenon DEF ExecuteStatement
<1>2. schema' \in Datamodels /\ filled' \subseteq schema'
  BY Zenon DEF TypeInv, TypeOK, ExecuteStatement, NextStatement, Succeeds, Datamodels
<1>3. pc' \in [Engines -> {"down", "idle"} \cup Busy]
  BY Zenon DEF TypeInv, TypeOK, ExecuteStatement, Goto
<1> QED BY <1>1, <1>2, <1>3, Zenon DEF TypeInv, TypeOK, RevisionsBounded

\* Choosing the branch, inferring and checking change only the engine's memory.
LEMMA PrepareType ==
    ASSUME TypeInv, NEW e \in Engines,
           \/ \E name \in Names, steps \in DatamodelSteps, force \in BOOLEAN :
                 StartApply(e, name, steps, force)
           \/ CalculateNext(e)
           \/ InferDatabaseMigration(e)
           \/ CheckDestructiveChanges(e)
    PROVE  TypeInv'
<1> USE DEF TypeInv
<1>1. job' \in [Engines -> Job] /\ pc' \in [Engines -> {"down", "idle"} \cup Busy]
  <2>1. ASSUME NEW name \in Names, NEW steps \in DatamodelSteps, NEW force \in BOOLEAN,
               StartApply(e, name, steps, force)
        PROVE  job' \in [Engines -> Job] /\ pc' \in [Engines -> {"down", "idle"} \cup Busy]
    <3> DEFINE j == [NoJob EXCEPT !.name = name, !.steps = steps, !.force = force,
                                  !.leaving = LeavesWatchMode(name)]
    <3>1. LeavesWatchMode(name) \in BOOLEAN
      BY Zenon DEF LeavesWatchMode
    <3>2. j \in Job
      <4> HIDE DEF TypeInv
      <4> QED BY <3>1, NoJobType, Zenon DEF Job
    <3>3. job' = [job EXCEPT ![e] = j] /\ pc' = [pc EXCEPT ![e] = "calculate"]
      BY <2>1, Zenon DEF StartApply, Goto
    <3> HIDE DEF j
    <3> QED BY <3>2, <3>3, Zenon DEF TypeOK, Busy, Preparing
  <2>2. CASE CalculateNext(e)
    <3> DEFINE from == ApplyBase(job[e].leaving)
               to == Calculate(from, job[e].steps)
               j == [job[e] EXCEPT !.to = to, !.steps = NoJob.steps, !.leaving = FALSE]
    <3>1. from \in Datamodels
      BY DatamodelOfType, Zenon DEF ApplyBase, LastNonWatchDatamodel, CurrentDatamodel,
                             NonWatch, Successes
    <3>2. to \in Datamodels
      BY <3>1, JobParamsType, Zenon DEF Calculate, Datamodels, Job, DatamodelSteps
    <3>3. NoJob.steps \in DatamodelSteps
      BY NoJobType, Zenon DEF Job
    <3>4. j \in Job
      <4> HIDE DEF to
      <4> QED BY <3>2, <3>3, JobParamsType, Zenon DEF Job
    <3>5. CASE Return(e)
      BY <3>5, ForgetType, Zenon DEF Return
    <3>6. CASE job' = [job EXCEPT ![e] = j] /\ Goto(e, "infer")
      <4> HIDE DEF j
      <4> QED BY <3>4, <3>6, Zenon DEF TypeOK, Goto, Busy, Preparing
    <3>7. [job EXCEPT ![e].to = to, ![e].steps = NoJob.steps, ![e].leaving = FALSE]
             = [job EXCEPT ![e] = j]
      BY Zenon DEF TypeOK
    <3> QED BY <2>2, <3>5, <3>6, <3>7, Zenon DEF CalculateNext
  <2>3. CASE InferDatabaseMigration(e)
    <3> DEFINE j == [job[e] EXCEPT !.from = schema, !.drop = schema \ job[e].to,
                                   !.create = job[e].to \ schema]
    <3>1. j \in Job
      BY JobParamsType, ZenonT(60) DEF TypeOK, Job, Datamodels
    <3>2. job' = [job EXCEPT ![e] = j] /\ pc' = [pc EXCEPT ![e] = "check"]
      BY <2>3, Zenon DEF InferDatabaseMigration, Goto, TypeOK
    <3> HIDE DEF j
    <3> QED BY <3>1, <3>2, Zenon DEF TypeOK, Busy, Preparing
  <2>4. CASE CheckDestructiveChanges(e)
    <3> DEFINE j == [job[e] EXCEPT !.seen = filled]
    <3>1. j \in Job
      BY JobParamsType DEF TypeOK, Job, Datamodels
    <3>2. CASE Return(e)
      BY <3>2, ForgetType, Zenon DEF Return
    <3>3. CASE job' = [job EXCEPT ![e] = j] /\ Goto(e, "create")
      <4> HIDE DEF j
      <4> QED BY <3>1, <3>3, Zenon DEF TypeOK, Goto, Busy, Preparing
    <3> QED BY <2>4, <3>2, <3>3, Zenon DEF CheckDestructiveChanges
  <2> QED BY <2>1, <2>2, <2>3, <2>4, Zenon
<1>2. UNCHANGED <<table, migrations, serial, schema, filled, base>>
  BY Zenon DEF StartApply, CalculateNext, InferDatabaseMigration, CheckDestructiveChanges
<1> QED BY <1>1, <1>2, Zenon DEF TypeOK, RevisionsBounded

\* The row MigrationPersistence::create inserts is newer than all others.
LEMMA CreateMigrationType ==
    ASSUME TypeInv, NEW e \in Engines, CreateMigration(e)
    PROVE  TypeInv'
<1> DEFINE p == [NoParams EXCEPT !.revision = serial + 1]
           row == [name |-> job[e].name, revision |-> p.revision, status |-> p.status,
                   applied |-> p.applied, rolled_back |-> p.rolled_back,
                   finished |-> p.finished,
                   datamodel |-> job[e].to, before |-> job[e].from]
           j == [job[e] EXCEPT !.params = p]
<1>1. p \in MigrationUpdateParams /\ p.revision = serial + 1
  <2>1. serial + 1 \in Nat
    BY DEF TypeInv, TypeOK
  <2>2. NoParams \in MigrationUpdateParams
    BY Zenon DEF NoParams, MigrationUpdateParams, MigrationStatus
  <2> QED BY <2>1, <2>2, Zenon DEF MigrationUpdateParams
<1>2. serial \in Nat /\ serial' = serial + 1 /\ migrations' = migrations \cup {row}
  BY Zenon DEF CreateMigration, TypeInv, TypeOK
<1>3. job' = [job EXCEPT ![e] = j] /\ pc' = [pc EXCEPT ![e] = "start_apply"]
  BY Zenon DEF CreateMigration, Goto, TypeInv, TypeOK
<1> HIDE DEF p
<1>4. row \in Migration /\ row.revision = serial'
  BY <1>1, <1>2, JobParamsType, Zenon DEF Job, Migration, MigrationUpdateParams
<1>5. j \in Job
  BY <1>1, JobParamsType, Zenon DEF Job
<1> HIDE DEF row, j
<1>6. RevisionsBounded'
  BY <1>2, <1>4 DEF TypeInv, RevisionsBounded
<1>7. job' \in [Engines -> Job] /\ pc' \in [Engines -> {"down", "idle"} \cup Busy]
  BY <1>3, <1>5, Zenon DEF TypeInv, TypeOK, Busy, Applying
<1> QED BY <1>2, <1>4, <1>6, <1>7 DEF TypeInv, TypeOK, CreateMigration

\* unapplyMigration takes a well-formed row into memory.
LEMMA StartUnapplyType ==
    ASSUME TypeInv, NEW e \in Engines, StartUnapply(e)
    PROVE  TypeInv'
<1> DEFINE m == Latest(Successes)
           p == [revision |-> m.revision, status |-> m.status, applied |-> m.applied,
                 rolled_back |-> m.rolled_back, finished |-> m.finished]
           j == [NoJob EXCEPT !.name = m.name, !.from = m.datamodel, !.to = m.before,
                              !.drop = m.datamodel \ m.before,
                              !.create = m.before \ m.datamodel, !.params = p]
<1>1. m \in Migration
  BY LatestIsNewest, Zenon DEF StartUnapply, Successes, TypeInv, TypeOK
<1>2. job' = [job EXCEPT ![e] = j] /\ pc' = [pc EXCEPT ![e] = "start_unapply"]
  BY Zenon DEF StartUnapply, Goto
<1> HIDE DEF m
<1>3. p \in MigrationUpdateParams
  BY <1>1, Zenon DEF Migration, MigrationUpdateParams
<1> HIDE DEF p
<1>4. j \in Job
  BY <1>1, <1>3, NoJobType, Zenon DEF Job, Migration, Datamodels
<1> HIDE DEF j
<1>5. job' \in [Engines -> Job] /\ pc' \in [Engines -> {"down", "idle"} \cup Busy]
  BY <1>2, <1>4, Zenon DEF TypeInv, TypeOK, Busy, Unapplying
<1> QED BY <1>5, Zenon DEF TypeInv, TypeOK, StartUnapply, RevisionsBounded

\* The updates of a job that goes on, and those that end it.
LEMMA UpdateType ==
    ASSUME TypeInv, NEW e \in Engines,
           \/ MarkInProgress(e) \/ RecordApplyStep(e)
           \/ FinishApply(e) \/ FailApply(e)
           \/ MarkRollingBack(e) \/ RecordUnapplyStep(e)
           \/ FinishUnapply(e) \/ FailUnapply(e)
    PROVE  TypeInv'
<1> DEFINE p == job[e].params
<1>0. p \in MigrationUpdateParams
  BY JobParamsType, Zenon
<1>1. \A st \in MigrationStatus :
         /\ [p EXCEPT !.status = st] \in MigrationUpdateParams
         /\ [p EXCEPT !.status = st, !.finished = TRUE] \in MigrationUpdateParams
         /\ [p EXCEPT !.applied = @ + 1] \in MigrationUpdateParams
         /\ [p EXCEPT !.rolled_back = @ + 1] \in MigrationUpdateParams
  <2> HIDE DEF p
  <2> QED BY <1>0, ParamsType, Zenon
<1>2. {"apply", "unapply", "report"} \subseteq Busy
  BY Zenon DEF Busy, Applying, Unapplying
<1>3. ASSUME NEW q \in MigrationUpdateParams, NEW label \in {"idle", "report"},
             Persist(e, q), Forget(e, label)
      PROVE  TypeInv'
  <2>1. job' \in [Engines -> Job] /\ pc' \in [Engines -> {"down", "idle"} \cup Busy]
    BY <1>2, <1>3, ForgetType, Zenon
  <2> QED BY <1>3, <2>1, PersistType, Zenon DEF TypeInv, TypeOK
<1>4. CASE MarkInProgress(e)
  BY <1>1, <1>2, <1>4, AdvanceType, Zenon DEF MarkInProgress, MigrationStatus
<1>5. CASE RecordApplyStep(e)
  BY <1>1, <1>2, <1>5, AdvanceType, Zenon DEF RecordApplyStep, MigrationStatus
<1>6. CASE FinishApply(e)
  BY <1>1, <1>3, <1>6, Zenon DEF FinishApply, Return, MigrationStatus
<1>7. CASE FailApply(e)
  BY <1>1, <1>3, <1>7, Zenon DEF FailApply, Return, MigrationStatus
<1>8. CASE MarkRollingBack(e)
  BY <1>1, <1>2, <1>8, AdvanceType, Zenon DEF MarkRollingBack, MigrationStatus
<1>9. CASE RecordUnapplyStep(e)
  BY <1>1, <1>2, <1>9, AdvanceType, Zenon DEF RecordUnapplyStep, MigrationStatus
<1>10. CASE FinishUnapply(e)
  BY <1>1, <1>3, <1>10, Zenon DEF FinishUnapply, MigrationStatus
<1>11. CASE FailUnapply(e)
  BY <1>1, <1>3, <1>11, Zenon DEF FailUnapply, Return, MigrationStatus
<1> QED BY <1>4, <1>5, <1>6, <1>7, <1>8, <1>9, <1>10, <1>11, Zenon

\* Every step keeps the type invariant and the order of the revisions.
LEMMA TypeStep == TypeInv /\ [Next]_vars => TypeInv'
<1> SUFFICES ASSUME TypeInv, [Next]_vars
             PROVE  TypeInv'
  BY Zenon
<1>1. ASSUME NEW e \in Engines, Start(e)
      PROVE  TypeInv'
  BY <1>1, Zenon DEF TypeInv, TypeOK, RevisionsBounded, Start, Goto
<1>2. ASSUME NEW e \in Engines, Request(e)
      PROVE  TypeInv'
  <2>1. CASE \E name \in Names, steps \in DatamodelSteps, force \in BOOLEAN :
                StartApply(e, name, steps, force)
    BY <2>1, PrepareType, Zenon
  <2>2. CASE StartUnapply(e)
    BY <2>2, StartUnapplyType, Zenon
  <2>3. CASE StartReset(e)
    BY <2>3, Zenon DEF TypeInv, TypeOK, RevisionsBounded, StartReset, Goto, Busy, Resetting
  <2>4. CASE ReadOnlyCommand(e)
    BY <2>4, Zenon DEF TypeInv, TypeOK, RevisionsBounded, ReadOnlyCommand, vars
  <2>5. CASE RequestPanics(e)
    BY <2>5, HaltType, Zenon DEF RequestPanics
  <2> QED BY <1>2, <2>1, <2>2, <2>3, <2>4, <2>5, Zenon DEF Request
<1>3. ASSUME NEW e \in Engines, Step(e)
      PROVE  TypeInv'
  <2>1. CASE CalculateNext(e) \/ InferDatabaseMigration(e) \/ CheckDestructiveChanges(e)
    BY <2>1, PrepareType, Zenon
  <2>2. CASE CreateMigration(e)
    BY <2>2, CreateMigrationType, Zenon
  <2>3. CASE \/ MarkInProgress(e) \/ RecordApplyStep(e)
             \/ FinishApply(e) \/ FailApply(e)
             \/ MarkRollingBack(e) \/ RecordUnapplyStep(e)
             \/ FinishUnapply(e) \/ FailUnapply(e)
    BY <2>3, UpdateType, Zenon
  <2>4. CASE ApplyStep(e)
    BY <2>4, ExecuteStatementType, Zenon DEF ApplyStep, Busy, Applying
  <2>5. CASE UnapplyStep(e)
    BY <2>5, ExecuteStatementType, Zenon DEF UnapplyStep, Busy, Unapplying
  <2>6. CASE ResetDrop(e)
    <3>1. pc' \in [Engines -> {"down", "idle"} \cup Busy] /\ job' \in [Engines -> Job]
      BY <2>6, Zenon DEF TypeInv, TypeOK, ResetDrop, Goto, Busy, Resetting
    <3>2. table' \in BOOLEAN
      BY <2>6, Zenon DEF TypeInv, TypeOK, ResetDrop
    <3>3. /\ migrations' \subseteq Migration /\ serial' \in Nat /\ schema' \in Datamodels
          /\ filled' \subseteq schema' /\ base' \in Datamodels
      BY <2>6 DEF TypeInv, TypeOK, ResetDrop, Datamodels
    <3>4. RevisionsBounded'
      BY <2>6, Zenon DEF TypeInv, RevisionsBounded, ResetDrop
    <3> QED BY <3>1, <3>2, <3>3, <3>4, Zenon DEF TypeInv, TypeOK
  <2>7. CASE ResetInit(e)
    BY <2>7, Zenon DEF TypeInv, TypeOK, RevisionsBounded, ResetInit, Goto
  <2>8. CASE Panic(e)
    BY <2>8, HaltType, Zenon DEF Panic
  <2>9. CASE ReportActive(e)
    BY <2>9, ForgetType, Zenon DEF ReportActive, Return, TypeInv, TypeOK, RevisionsBounded
  <2> QED BY <1>3, <2>1, <2>2, <2>3, <2>4, <2>5, <2>6, <2>7, <2>8, <2>9, Zenon DEF Step
<1>4. ASSUME NEW e \in Engines, Crash(e)
      PROVE  TypeInv'
  BY <1>4, HaltType, Zenon DEF Crash
<1>5. ASSUME NEW t \in Models, WriteRows(t)
      PROVE  TypeInv'
  BY <1>5, Zenon DEF TypeInv, TypeOK, RevisionsBounded, WriteRows
<1>6. CASE UNCHANGED vars
  BY <1>6, Zenon DEF TypeInv, TypeOK, RevisionsBounded, vars
<1> QED BY <1>1, <1>2, <1>3, <1>4, <1>5, <1>6, Zenon DEF Next

\* The engine starts in a well-formed state.
LEMMA TypeInit == Init => TypeInv
<1> SUFFICES ASSUME Init
             PROVE  TypeInv
  BY Zenon
<1>1. table \in BOOLEAN
  BY Zenon DEF Init
<1>2. job \in [Engines -> Job] /\ pc \in [Engines -> {"down", "idle"} \cup Busy]
  BY NoJobType, Zenon DEF Init
<1> QED BY <1>1, <1>2, Zenon DEF Init, TypeInv, TypeOK, RevisionsBounded

\* Every row of `_Migration`, every counter and every job in the memory of an
\* engine stays well formed, with any number of engines and under all faults.
THEOREM TypeCorrect == Spec => []TypeOK
<1>1. Spec => []TypeInv
  BY TypeInit, TypeStep, PTL DEF Spec
<1>2. TypeInv => TypeOK
  BY Zenon DEF TypeInv
<1> QED BY <1>1, <1>2, PTL

-----------------------------------------------------------------------------
(* Revisions.                                                              *)

\* No two rows share a revision.
UniqueRevisions == \A m, n \in migrations : m.revision = n.revision => m = n

\* The database has handed out the revision of every row.
LEMMA RevisionTypes ==
    ASSUME TypeInv
    PROVE  /\ serial \in Nat
           /\ \A m \in migrations : m.revision \in Nat /\ m.revision <= serial
BY DEF TypeInv, TypeOK, RevisionsBounded, Migration

\* An update changes no revision, so it makes no two rows share one.
LEMMA UpdateKeepsUnique ==
    ASSUME TypeInv, UniqueRevisions, NEW e \in Engines, NEW STATE p, Persist(e, p)
    PROVE  UniqueRevisions'
<1> DEFINE After(m) == IF m.revision = p.revision /\ m.name = job[e].name
                         THEN [m EXCEPT !.status = p.status, !.applied = p.applied,
                                        !.rolled_back = p.rolled_back,
                                        !.finished = p.finished]
                         ELSE m
<1>1. migrations' = {After(m) : m \in migrations}
  BY Zenon DEF Persist, Updated
<1>2. \A m \in migrations : After(m).revision = m.revision
  BY Zenon DEF TypeInv, TypeOK, Migration
<1> HIDE DEF After
<1> QED BY <1>1, <1>2 DEF UniqueRevisions

\* The row MigrationPersistence::create inserts has a revision of its own.
LEMMA CreateKeepsUnique ==
    ASSUME TypeInv, UniqueRevisions, NEW e \in Engines, CreateMigration(e)
    PROVE  UniqueRevisions'
<1>1. PICK row : migrations' = migrations \cup {row} /\ row.revision = serial + 1
  <2> DEFINE p == [NoParams EXCEPT !.revision = serial + 1]
             row == [name |-> job[e].name, revision |-> p.revision, status |-> p.status,
                     applied |-> p.applied, rolled_back |-> p.rolled_back,
                     finished |-> p.finished,
                     datamodel |-> job[e].to, before |-> job[e].from]
  <2>1. migrations' = migrations \cup {row}
    BY Zenon DEF CreateMigration
  <2>2. row.revision = serial + 1
    BY Zenon DEF NoParams
  <2> HIDE DEF row
  <2> QED BY <2>1, <2>2, Zenon
<1>2. \A m \in migrations : m.revision # row.revision
  BY <1>1, RevisionTypes
<1> QED BY <1>1, <1>2, Zenon DEF UniqueRevisions

\* No step of any number of engines makes two rows share a revision.
LEMMA UniqueStep == TypeInv /\ UniqueRevisions /\ [Next]_vars => UniqueRevisions'
<1> SUFFICES ASSUME TypeInv, UniqueRevisions, [Next]_vars
             PROVE  UniqueRevisions'
  BY Zenon
<1>1. CASE migrations' = migrations \/ migrations' = {}
  BY <1>1, Zenon DEF UniqueRevisions
<1>2. ASSUME NEW e \in Engines, Start(e) \/ Request(e) \/ Crash(e)
      PROVE  migrations' = migrations \/ migrations' = {}
  BY <1>2, Zenon DEF Start, Request, StartApply, StartUnapply, StartReset, ReadOnlyCommand,
              RequestPanics, Crash, Halt, vars
<1>3. ASSUME NEW e \in Engines, Step(e)
      PROVE  UniqueRevisions'
  <2>1. CASE CreateMigration(e)
    BY <2>1, CreateKeepsUnique, Zenon
  <2>2. CASE \/ MarkInProgress(e) \/ RecordApplyStep(e)
             \/ FinishApply(e) \/ FailApply(e)
             \/ MarkRollingBack(e) \/ RecordUnapplyStep(e)
             \/ FinishUnapply(e) \/ FailUnapply(e)
    BY <2>2, UpdateKeepsUnique, Zenon
       DEF MarkInProgress, RecordApplyStep, FinishApply, FailApply, MarkRollingBack,
           RecordUnapplyStep, FinishUnapply, FailUnapply, Advance
  <2>3. CASE \/ CalculateNext(e) \/ InferDatabaseMigration(e) \/ CheckDestructiveChanges(e)
             \/ ApplyStep(e) \/ UnapplyStep(e) \/ ReportActive(e)
             \/ ResetDrop(e) \/ ResetInit(e) \/ Panic(e)
    BY <1>1, <2>3, Zenon DEF CalculateNext, InferDatabaseMigration, CheckDestructiveChanges,
                      ApplyStep, UnapplyStep, ReportActive, ResetDrop, ResetInit, Panic, Halt
  <2> QED BY <1>3, <2>1, <2>2, <2>3, Zenon DEF Step
<1>4. CASE (\E t \in Models : WriteRows(t)) \/ UNCHANGED vars
  BY <1>1, <1>4, Zenon DEF WriteRows, vars
<1> QED BY <1>1, <1>2, <1>3, <1>4, Zenon DEF Next

\* No revision at first.
LEMMA UniqueInit == Init => UniqueRevisions
BY Zenon DEF Init, UniqueRevisions

\* The two conditions under which ORDER BY revision DESC has one answer.
LEMMA RevisionsAlwaysUnique == Spec => [](TypeInv /\ UniqueRevisions)
<1> DEFINE I == TypeInv /\ UniqueRevisions
<1>1. Init => I
  BY TypeInit, UniqueInit, Zenon
<1>2. I /\ [Next]_vars => I'
  BY TypeStep, UniqueStep, Zenon
<1> QED BY <1>1, <1>2, PTL DEF Spec

-----------------------------------------------------------------------------
(* inferMigrationSteps followed by applyMigration.                         *)

\* The newest row of a selection is the newest of every part that contains it.
LEMMA LatestOfPart ==
    ASSUME TypeInv, UniqueRevisions, NEW S \in SUBSET migrations, NEW T \in SUBSET S,
           S # {}, Latest(S) \in T
    PROVE  Latest(T) = Latest(S)
<1>1. Latest(S) \in S /\ \A x \in S : x.revision <= Latest(S).revision
  BY LatestIsNewest, Zenon DEF TypeInv
<1>2. Latest(T) \in T /\ \A x \in T : x.revision <= Latest(T).revision
  BY LatestIsNewest, Zenon DEF TypeInv
<1>3. Latest(T).revision = Latest(S).revision
  BY <1>1, <1>2, RevisionTypes
<1> QED BY <1>1, <1>2, <1>3, Zenon DEF UniqueRevisions

\* What the differ infers, the calculator can apply, and it leads to the goal.
LEMMA DiffRoundTrips ==
    ASSUME NEW from, NEW to
    PROVE  /\ Applicable(from, Diff(from, to))
           /\ Calculate(from, Diff(from, to)) = to
BY Zenon DEF Applicable, Calculate, Diff

\* inferMigrationSteps and applyMigration start from the same datamodel: in
\* watch mode, out of it, and on the way out of it.
LEMMA SameBase ==
    ASSUME TypeInv, UniqueRevisions, NEW name \in Names,
           NonWatch # {} => Latest(NonWatch).status = "MigrationSuccess"
    PROVE  ApplyBase(LeavesWatchMode(name)) = InferBase(name)
<1>1. NonWatch \in SUBSET migrations /\ Successes \in SUBSET migrations
  BY Zenon DEF NonWatch, Successes
<1>2. CASE name \in WatchNames
  BY <1>2, Zenon DEF LeavesWatchMode, ApplyBase, InferBase
<1>3. CASE name \notin WatchNames /\ LeavesWatchMode(name)
  <2>1. CASE NonWatch = {}
    BY <1>3, <2>1, Zenon DEF ApplyBase, InferBase, LastNonWatchDatamodel,
                      LastNonWatchAppliedDatamodel, DatamodelOf
  <2>2. CASE NonWatch # {}
    <3>1. Latest(NonWatch) \in NonWatch \cap Successes
      BY <1>1, <2>2, LatestIsNewest, Zenon DEF TypeInv, Successes
    <3>2. Latest(NonWatch \cap Successes) = Latest(NonWatch)
      BY <1>1, <2>2, <3>1, LatestOfPart, Zenon
    <3> QED BY <1>3, <3>1, <3>2, Zenon DEF ApplyBase, InferBase, LastNonWatchDatamodel,
                                    LastNonWatchAppliedDatamodel, DatamodelOf
  <2> QED BY <2>1, <2>2, Zenon
<1>4. CASE name \notin WatchNames /\ ~LeavesWatchMode(name)
  <2>1. CASE Successes = {}
    BY <1>4, <2>1, Zenon DEF ApplyBase, InferBase, CurrentDatamodel,
                      LastNonWatchAppliedDatamodel, DatamodelOf
  <2>2. CASE Successes # {}
    <3>1. Latest(Successes) \in NonWatch \cap Successes
      BY <1>1, <1>4, <2>2, LatestIsNewest, Zenon DEF TypeInv, NonWatch, LeavesWatchMode
    <3>2. Latest(NonWatch \cap Successes) = Latest(Successes)
      BY <1>1, <2>2, <3>1, LatestOfPart, Zenon
    <3> QED BY <1>4, <3>1, <3>2, Zenon DEF ApplyBase, InferBase, CurrentDatamodel,
                                    LastNonWatchAppliedDatamodel, DatamodelOf
  <2> QED BY <2>1, <2>2, Zenon
<1> QED BY <1>2, <1>3, <1>4, Zenon

\* inferMigrationSteps followed by applyMigration reaches the datamodel asked
\* for, in, out of and on the way out of watch mode, after any history of any
\* number of engines, as long as the last non-watch migration succeeded: the
\* datamodel InferMigrationStepsCommand diffs from is the one
\* ApplyMigrationCommand applies the steps to.
THEOREM InferredStepsApply == Spec => []InferThenApplyWhenSettled
<1>1. TypeInv /\ UniqueRevisions => InferThenApplyWhenSettled
  BY SameBase, DiffRoundTrips, Zenon
     DEF InferThenApplyWhenSettled, InferThenApply, RoundTrips, InferMigrationSteps
<1> QED BY <1>1, RevisionsAlwaysUnique, PTL

-----------------------------------------------------------------------------
(* The check for destructive changes.                                      *)

\* Where a job has passed the checker.
Checked == {"create"} \cup Applying

\* What is left to drop was empty when the checker looked, or it is forced.
Spares(j) == ~j.force => j.drop \cap j.seen = {}

SparesInv == \A e \in Engines : pc[e] \in Checked => Spares(job[e])

\* An engine changes its own job only.
LEMMA SparesLocal ==
    ASSUME SparesInv, NEW e \in Engines,
           \A d \in Engines \ {e} : pc'[d] = pc[d] /\ job'[d] = job[d],
           pc'[e] \in Checked => Spares(job'[e])
    PROVE  SparesInv'
<1> SUFFICES ASSUME NEW d \in Engines, pc'[d] \in Checked
             PROVE  Spares(job'[d])
  BY Zenon DEF SparesInv, Spares
<1>1. CASE d = e
  BY <1>1, Zenon
<1>2. CASE d # e
  BY <1>2, Zenon DEF SparesInv
<1> QED BY <1>1, <1>2, Zenon

\* Nothing was applied at first.
LEMMA SparesInit == Init => SparesInv
BY Zenon DEF Init, SparesInv, Checked, Applying

\* Every step keeps the strengthening.
LEMMA SparesStep == TypeInv /\ SparesInv /\ [Next]_vars => SparesInv'
<1> SUFFICES ASSUME TypeInv, SparesInv, [Next]_vars
             PROVE  SparesInv'
  BY Zenon
<1>0. job \in [Engines -> Job] /\ pc \in [Engines -> {"down", "idle"} \cup Busy]
  BY Zenon DEF TypeInv, TypeOK
<1>1. ASSUME NEW e \in Engines, NEW label, Goto(e, label),
             \A d \in Engines \ {e} : job'[d] = job[d],
             label \in Checked => Spares(job'[e])
      PROVE  SparesInv'
  BY <1>0, <1>1, SparesLocal, Zenon DEF Goto
<1>2. ASSUME NEW e \in Engines, NEW label \in {"idle", "down", "report"}, Forget(e, label)
      PROVE  SparesInv'
  <2>1. label \notin Checked
    BY Zenon DEF Checked, Applying
  <2> QED BY <1>0, <1>1, <1>2, <2>1, Zenon DEF Forget
<1>3. ASSUME NEW e \in Engines, NEW STATE p, NEW label, pc[e] \in Checked \/ label \notin Checked,
             Goto(e, label), job' = [job EXCEPT ![e].params = p]
      PROVE  SparesInv'
  <2>1. /\ job'[e].force = job[e].force /\ job'[e].drop = job[e].drop
        /\ job'[e].seen = job[e].seen
    BY <1>0, <1>3, Zenon DEF Job
  <2>2. pc[e] \in Checked => Spares(job'[e])
    BY <2>1, Zenon DEF SparesInv, Spares
  <2> QED BY <1>0, <1>1, <1>3, <2>2, Zenon
<1>4. ASSUME NEW e \in Engines, NEW label, pc[e] \in Checked \/ label \notin Checked,
             Goto(e, label), job' = job
      PROVE  SparesInv'
  BY <1>1, <1>4, Zenon DEF SparesInv
<1>5. ASSUME NEW e \in Engines, NEW record, NEW finish, NEW fail,
             pc[e] \in Checked \/ {record, finish, fail} \cap Checked = {},
             ExecuteStatement(e, record, finish, fail)
      PROVE  SparesInv'
  <2>1. ASSUME NEW t \in Models, NEW label \in {record, finish},
               job' = [job EXCEPT ![e].drop = @ \ {t}, ![e].create = @ \ {t}],
               Goto(e, label)
        PROVE  SparesInv'
    <3>1. /\ job'[e].force = job[e].force /\ job'[e].drop = job[e].drop \ {t}
          /\ job'[e].seen = job[e].seen
      BY <1>0, <2>1, Zenon DEF Job
    <3>2. pc[e] \in Checked => Spares(job'[e])
      BY <3>1, Zenon DEF SparesInv, Spares
    <3>3. label \in Checked => Spares(job'[e])
      BY <1>5, <2>1, <3>2, Zenon
    <3> QED BY <1>0, <1>1, <2>1, <3>3, Zenon
  <2>2. \/ \E label \in {finish, fail} : Goto(e, label) /\ job' = job
        \/ \E t \in Models, label \in {record, finish} :
              /\ job' = [job EXCEPT ![e].drop = @ \ {t}, ![e].create = @ \ {t}]
              /\ Goto(e, label)
    BY <1>5, Zenon DEF ExecuteStatement
  <2>3. ASSUME NEW label \in {finish, fail}, Goto(e, label), job' = job
        PROVE  SparesInv'
    BY <1>4, <1>5, <2>3, Zenon
  <2> QED BY ONLY <2>1, <2>2, <2>3, Zenon
<1>6. ASSUME NEW e \in Engines, CheckDestructiveChanges(e)
      PROVE  SparesInv'
  <2>1. ASSUME Goto(e, "create"), job' = [job EXCEPT ![e].seen = filled],
               job[e].drop \cap filled = {} \/ job[e].force
        PROVE  SparesInv'
    <3>1. /\ job'[e].force = job[e].force /\ job'[e].drop = job[e].drop
          /\ job'[e].seen = filled
      BY <1>0, <2>1, Zenon DEF Job
    <3>2. Spares(job'[e])
      BY <2>1, <3>1, Zenon DEF Spares
    <3> QED BY <1>0, <1>1, <2>1, <3>2, Zenon
  <2> QED BY <1>2, <1>6, <2>1, Zenon DEF CheckDestructiveChanges, Return
<1>7. "calculate" \notin Checked /\ "infer" \notin Checked /\ "check" \notin Checked
  BY Zenon DEF Checked, Applying
<1>8. ASSUME NEW e \in Engines, CalculateNext(e) \/ InferDatabaseMigration(e)
      PROVE  SparesInv'
  <2>1. CASE Return(e)
    BY <1>2, <2>1, Zenon DEF Return
  <2>2. CASE Goto(e, "infer") /\ \A d \in Engines \ {e} : job'[d] = job[d]
    BY <1>1, <1>7, <2>2, Zenon
  <2>3. CASE Goto(e, "check") /\ \A d \in Engines \ {e} : job'[d] = job[d]
    BY <1>1, <1>7, <2>3, Zenon
  <2> QED BY <1>0, <1>8, <2>1, <2>2, <2>3, Zenon DEF CalculateNext, InferDatabaseMigration
<1>9. ASSUME NEW e \in Engines, Request(e)
      PROVE  SparesInv'
  <2>1. ASSUME NEW name, NEW steps, NEW force, StartApply(e, name, steps, force)
        PROVE  SparesInv'
    BY <1>0, <1>1, <1>7, <2>1, Zenon DEF StartApply
  <2>2. CASE StartUnapply(e)
    <3>1. "start_unapply" \notin Checked
      BY Zenon DEF Checked, Applying
    <3>2. Goto(e, "start_unapply") /\ \A d \in Engines \ {e} : job'[d] = job[d]
      BY <1>0, <2>2, Zenon DEF StartUnapply
    <3> QED BY <1>1, <3>1, <3>2, Zenon
  <2>3. CASE StartReset(e)
    <3>1. "reset_drop" \notin Checked
      BY Zenon DEF Checked, Applying
    <3> QED BY <1>4, <2>3, <3>1, Zenon DEF StartReset
  <2>4. CASE ReadOnlyCommand(e)
    BY <2>4, Zenon DEF ReadOnlyCommand, vars, SparesInv
  <2>5. CASE RequestPanics(e)
    BY <1>2, <2>5, Zenon DEF RequestPanics, Halt
  <2> QED BY <1>9, <2>1, <2>2, <2>3, <2>4, <2>5, Zenon DEF Request
<1>10. ASSUME NEW e \in Engines, Step(e)
       PROVE  SparesInv'
  <2>1. CASE CreateMigration(e)
    <3> DEFINE p == [NoParams EXCEPT !.revision = serial + 1]
    <3>1. pc[e] \in Checked /\ Goto(e, "start_apply") /\ job' = [job EXCEPT ![e].params = p]
      BY <2>1, Zenon DEF CreateMigration, Checked
    <3> QED BY ONLY <1>3, <3>1, Zenon
  <2>2. CASE MarkInProgress(e) \/ RecordApplyStep(e) \/ MarkRollingBack(e) \/ RecordUnapplyStep(e)
    <3>1. "unapply" \notin Checked
      BY Zenon DEF Checked, Applying
    <3>2. pc[e] \in {"start_apply", "record_apply"} => pc[e] \in Checked
      BY Zenon DEF Checked, Applying
    <3> QED BY <1>3, <2>2, <3>1, <3>2, Zenon
            DEF MarkInProgress, RecordApplyStep, MarkRollingBack, RecordUnapplyStep, Advance
  <2>3. CASE \/ FinishApply(e) \/ FailApply(e) \/ FinishUnapply(e) \/ FailUnapply(e)
             \/ ReportActive(e) \/ Panic(e)
    BY <1>2, <2>3, Zenon DEF FinishApply, FailApply, FinishUnapply, FailUnapply, ReportActive,
                      Panic, Halt, Return
  <2>4. CASE ApplyStep(e)
    <3>1. pc[e] \in Checked
      BY <2>4, Zenon DEF ApplyStep, Checked, Applying
    <3> QED BY <1>5, <2>4, <3>1, Zenon DEF ApplyStep
  <2>5. CASE UnapplyStep(e)
    <3>1. {"record_unapply", "finish_unapply", "fail_unapply"} \cap Checked = {}
      BY Zenon DEF Checked, Applying
    <3> QED BY <1>5, <2>5, <3>1, Zenon DEF UnapplyStep
  <2>6. CASE ResetDrop(e) \/ ResetInit(e)
    <3>1. "reset_init" \notin Checked /\ "idle" \notin Checked
      BY Zenon DEF Checked, Applying
    <3> QED BY <1>4, <2>6, <3>1, Zenon DEF ResetDrop, ResetInit
  <2> QED BY <1>6, <1>8, <1>10, <2>1, <2>2, <2>3, <2>4, <2>5, <2>6, Zenon DEF Step
<1>11. ASSUME NEW e \in Engines, Start(e) \/ Crash(e)
       PROVE  SparesInv'
  <2>1. "idle" \notin Checked
    BY Zenon DEF Checked, Applying
  <2> QED BY <1>2, <1>4, <1>11, <2>1, Zenon DEF Start, Crash, Halt
<1>12. CASE (\E t \in Models : WriteRows(t)) \/ UNCHANGED vars
  BY <1>12, Zenon DEF WriteRows, vars, SparesInv
<1> QED BY <1>9, <1>10, <1>11, <1>12, Zenon DEF Next

\* A step of an unforced migration drops only what was empty at the check.
LossStep ==
    \A e \in Engines :
        ApplyStep(e) /\ ~job[e].force => (schema \ schema') \cap job[e].seen = {}

\* It implies what a step may lose.
LEMMA SparesSuffices == SparesInv => LossStep
<1> SUFFICES ASSUME SparesInv, NEW e \in Engines, ApplyStep(e), ~job[e].force
             PROVE  (schema \ schema') \cap job[e].seen = {}
  BY Zenon DEF LossStep
<1>1. job[e].drop \cap job[e].seen = {}
  BY Zenon DEF ApplyStep, SparesInv, Spares, Checked, Applying
<1>2. schema \ schema' \subseteq job[e].drop
  BY Zenon DEF ApplyStep, ExecuteStatement
<1> QED BY <1>1, <1>2, Zenon

\* DestructiveChangesChecker: without `force`, no statement of a migration
\* drops a table in which the checker found rows, however many engines change
\* the ledger, the schema and the tables between the check and the statement.
THEOREM UnforcedMigrationsSpareRows == Spec => NoUnforcedLoss
<1> DEFINE I == TypeInv /\ SparesInv
<1>1. Init => I
  BY TypeInit, SparesInit, Zenon
<1>2. I /\ [Next]_vars => I'
  BY TypeStep, SparesStep, Zenon
<1>3. I => LossStep
  BY SparesSuffices, Zenon
<1>4. NoUnforcedLoss <=> [][LossStep]_vars
  BY Zenon DEF NoUnforcedLoss, LossStep
<1> HIDE DEF I, LossStep
<1> QED BY <1>1, <1>2, <1>3, <1>4, PTL DEF Spec

-----------------------------------------------------------------------------
(* The ledger of one engine: the inductive invariant.                      *)

\* A row that says something about the schema after it.
Matters(m) == m.status \notin {"Pending", "RollbackSuccess"}

\* The rows M older than revision r say the schema is S: it is the datamodel of
\* the last successful one or, without any, the schema b the ledger started
\* from, unless a newer row among them is unfinished or failed.
Says(M, b, r, S) ==
    /\ (\A x \in M : x.revision < r => ~Matters(x)) => S = b
    /\ \A q \in M :
          /\ q.status = "MigrationSuccess"
          /\ q.revision < r
          /\ \A x \in M : q.revision < x.revision /\ x.revision < r => ~Matters(x)
          => S = q.datamodel

\* What a rollback of a successful migration leads to is what the rows before
\* it say.
RollbackChain ==
    \A m \in migrations :
        m.status = "MigrationSuccess" => Says(migrations, base, m.revision, m.before)

\* The statements still to execute lead from the live schema to j.to.
Leads(j) ==
    /\ j.create \subseteq j.to
    /\ j.drop \cap j.to = {}
    /\ schema = (j.to \ j.create) \cup j.drop

\* The row an engine drives, as the engine remembers it.
Own(j, m) ==
    m.revision = j.params.revision /\ m.name = j.name /\ m.status = j.params.status

NothingAfter(r) == \A x \in migrations : r < x.revision => ~Matters(x)

PrepareInv(e) == pc[e] \in {"check", "create"} => schema = job[e].from /\ Leads(job[e])

ApplyInv(e) ==
    LET j == job[e]
    IN  pc[e] \in Applying =>
          /\ j.params.revision = serial
          /\ j.params.status = IF pc[e] = "start_apply" THEN "Pending"
                                                        ELSE "MigrationInProgress"
          /\ \E m \in migrations : Own(j, m) /\ m.datamodel = j.to /\ m.before = j.from
          /\ Says(migrations, base, serial, j.from)
          /\ pc[e] = "start_apply" => schema = j.from
          /\ pc[e] \in {"start_apply", "apply", "record_apply"} => Leads(j)
          /\ pc[e] = "finish_apply" => schema = j.to

UnapplyInv(e) ==
    LET j == job[e]
        r == j.params.revision
    IN  pc[e] \in Unapplying =>
          /\ j.params.status = IF pc[e] = "start_unapply" THEN "MigrationSuccess"
                                                          ELSE "RollingBack"
          /\ \E m \in migrations : Own(j, m) /\ m.datamodel = j.from /\ m.before = j.to
          /\ Says(migrations, base, r, j.to)
          /\ \A x \in migrations : r < x.revision => x.status # "MigrationSuccess"
          /\ NothingAfter(r) =>
                /\ pc[e] \in {"start_unapply", "unapply", "record_unapply"} => Leads(j)
                /\ pc[e] = "finish_unapply" => schema = j.to

\* After every command, and wherever a running one has not touched the schema,
\* the ledger says what the schema is.
RestInv(e) ==
    (pc[e] \in Applying \cup Unapplying => pc[e] \in {"start_apply", "start_unapply"})
        => Says(migrations, base, serial + 1, schema)

LedgerInv ==
    /\ UniqueRevisions
    /\ RollbackChain
    /\ \A e \in Engines :
          /\ PrepareInv(e)
          /\ ApplyInv(e)
          /\ UnapplyInv(e)
          /\ pc[e] \notin (Applying \cup Unapplying) \/ pc[e] \in {"start_apply", "start_unapply"}
               => Says(migrations, base, serial + 1, schema)

-----------------------------------------------------------------------------
(* What the rows of a ledger say.                                          *)

\* Only the older rows count.
LEMMA SaysSame ==
    ASSUME NEW M, NEW N, NEW b, NEW r, NEW S,
           \A x \in M : x.revision < r => x \in N,
           \A x \in N : x.revision < r => x \in M,
           Says(M, b, r, S)
    PROVE  Says(N, b, r, S)
BY Zenon DEF Says

\* Nothing is said above an unfinished or failed row that no success follows.
LEMMA SaysNothing ==
    ASSUME NEW M, NEW b, NEW r, NEW S, NEW m \in M,
           \A x \in M : x.revision \in Nat,
           m.revision < r, Matters(m), m.status # "MigrationSuccess",
           \A x, y \in M : x.revision = y.revision => x = y,
           \A x \in M : m.revision < x.revision => x.status # "MigrationSuccess"
    PROVE  Says(M, b, r, S)
BY DEF Says

\* A row that does not matter can be passed over.
LEMMA SaysMore ==
    ASSUME NEW M, NEW b, NEW r \in Nat, NEW S, Says(M, b, r, S),
           \A x \in M : x.revision \in Nat,
           \A x \in M : x.revision = r => ~Matters(x)
    PROVE  Says(M, b, r + 1, S)
BY DEF Says, Matters

-----------------------------------------------------------------------------
(* Updates.                                                                *)

\* An update replaces the row its engine drives and no other.
LEMMA UpdateOwn ==
    ASSUME TypeInv, UniqueRevisions, NEW e \in Engines, NEW m \in migrations,
           Own(job[e], m), NEW p \in MigrationUpdateParams,
           p.revision = job[e].params.revision, Persist(e, p)
    PROVE  \E n : /\ migrations' = (migrations \ {m}) \cup {n}
                  /\ n.revision = m.revision /\ n.name = m.name
                  /\ n.datamodel = m.datamodel /\ n.before = m.before
                  /\ n.status = p.status /\ n.applied = p.applied
                  /\ n.rolled_back = p.rolled_back /\ n.finished = p.finished
<1> DEFINE n == [m EXCEPT !.status = p.status, !.applied = p.applied,
                          !.rolled_back = p.rolled_back, !.finished = p.finished]
<1>1. m \in Migration
  BY Zenon DEF TypeInv, TypeOK
<1>2. /\ n.revision = m.revision /\ n.name = m.name
      /\ n.datamodel = m.datamodel /\ n.before = m.before
      /\ n.status = p.status /\ n.applied = p.applied
      /\ n.rolled_back = p.rolled_back /\ n.finished = p.finished
  BY <1>1, Zenon DEF Migration
<1>3. \A x \in migrations : (x.revision = p.revision /\ x.name = job[e].name) <=> x = m
  BY Zenon DEF UniqueRevisions, Own
<1>4. Updated(job[e].name, p) = (migrations \ {m}) \cup {n}
  <2>1. ASSUME NEW y \in Updated(job[e].name, p)
        PROVE  y \in (migrations \ {m}) \cup {n}
    BY <1>3, Zenon DEF Updated
  <2>2. ASSUME NEW y \in migrations \ {m}
        PROVE  y \in Updated(job[e].name, p)
    BY <1>3, Zenon DEF Updated
  <2>3. n \in Updated(job[e].name, p)
    BY <1>3, Zenon DEF Updated
  <2> HIDE DEF n
  <2> QED BY <2>1, <2>2, <2>3, Zenon
<1> HIDE DEF n
<1> QED BY <1>2, <1>4, Zenon DEF Persist

\* The update of a row no success is newer than keeps what the ledger says
\* below it, and the chain of rollbacks.
LEMMA UpdateLedger ==
    ASSUME TypeInv, UniqueRevisions, RollbackChain, NEW m \in migrations, NEW n,
           migrations' = (migrations \ {m}) \cup {n}, base' = base,
           n.revision = m.revision, n.before = m.before,
           \A x \in migrations : m.revision < x.revision => x.status # "MigrationSuccess",
           n.status = "MigrationSuccess" => Says(migrations, base, m.revision, m.before)
    PROVE  /\ UniqueRevisions'
           /\ RollbackChain'
           /\ \A S : Says(migrations, base, m.revision, S)
                        => Says(migrations', base', m.revision, S)
<1>1. \A x \in migrations : x.revision \in Nat
  BY Zenon DEF TypeInv, TypeOK, Migration
<1>2. UniqueRevisions'
  BY DEF UniqueRevisions
<1>3. ASSUME NEW r \in Nat, r <= m.revision, NEW S, Says(migrations, base, r, S)
      PROVE  Says(migrations', base', r, S)
  <2>1. \A x \in migrations : x.revision < r => x \in migrations'
    BY <1>1, <1>3
  <2>2. \A x \in migrations' : x.revision < r => x \in migrations
    BY <1>1, <1>3
  <2> QED BY <1>3, <2>1, <2>2, SaysSame, Zenon
<1>4. ASSUME NEW x \in migrations', x.status = "MigrationSuccess"
      PROVE  Says(migrations', base', x.revision, x.before)
  <2>1. CASE x = n
    BY <1>1, <1>3, <1>4, <2>1
  <2>2. CASE x \in migrations
    <3>1. x.revision <= m.revision
      BY <1>1, <1>4, <2>2
    <3> QED BY <1>1, <1>3, <1>4, <2>2, <3>1, Zenon DEF RollbackChain
  <2> QED BY <2>1, <2>2, Zenon
<1>5. RollbackChain'
  BY <1>4, Zenon DEF RollbackChain
<1> QED BY <1>1, <1>2, <1>3, <1>5

-----------------------------------------------------------------------------
(* The steps of a single engine.                                           *)

\* The invariant, for the only engine.
LEMMA OneEngine ==
    ASSUME NEW e, Engines = {e}
    PROVE  LedgerInv <=> /\ UniqueRevisions /\ RollbackChain
                         /\ PrepareInv(e) /\ ApplyInv(e) /\ UnapplyInv(e) /\ RestInv(e)
<1>1. \A d \in Engines : d = e
  BY Zenon
<1>2. e \in Engines
  BY Zenon
<1> QED BY <1>1, <1>2, ZenonT(60) DEF LedgerInv, PrepareInv, ApplyInv, UnapplyInv, RestInv

\* With one engine the invariant is that of its command.
LEMMA OneEngineNext ==
    ASSUME NEW e, Engines = {e}, UniqueRevisions', RollbackChain',
           PrepareInv(e)', ApplyInv(e)', UnapplyInv(e)', RestInv(e)'
    PROVE  LedgerInv'
<1>1. \A d \in Engines : d = e
  BY Zenon
<1> QED BY <1>1, ZenonT(60) DEF LedgerInv, PrepareInv, ApplyInv, UnapplyInv, RestInv

\* An engine may stop anywhere: if its command has touched the schema, the row
\* it drives says so.
LEMMA StopAnywhere ==
    ASSUME NEW e, Engines = {e}, TypeInv, LedgerInv
    PROVE  Says(migrations, base, serial + 1, schema)
<1> USE OneEngine, RevisionTypes
<1>1. CASE pc[e] \in Applying /\ pc[e] # "start_apply"
  <2>1. PICK m \in migrations : Own(job[e], m) /\ m.revision = serial
                                /\ m.status = "MigrationInProgress"
    BY <1>1 DEF ApplyInv, Own
  <2> QED BY <2>1, SaysNothing DEF UniqueRevisions, Matters
<1>2. CASE pc[e] \in Unapplying /\ pc[e] # "start_unapply"
  <2>1. PICK m \in migrations :
          /\ m.status = "RollingBack"
          /\ \A x \in migrations : m.revision < x.revision => x.status # "MigrationSuccess"
    BY <1>2 DEF UnapplyInv, Own
  <2>2. m.revision < serial + 1
    OBVIOUS
  <2> QED BY <2>1, <2>2, SaysNothing, Zenon DEF UniqueRevisions, Matters
<1>3. CASE pc[e] \in Applying \cup Unapplying => pc[e] \in {"start_apply", "start_unapply"}
  BY <1>3, Zenon DEF RestInv
<1> QED BY <1>1, <1>2, <1>3, Zenon

\* A step that leaves the ledger and the schema alone and ends the command, or
\* takes it to a point where it has nothing in memory that matters.
LEMMA Quiet ==
    ASSUME NEW e, Engines = {e}, TypeInv, LedgerInv,
           UNCHANGED <<migrations, serial, schema, base>>,
           pc'[e] \notin Applying \cup Unapplying \cup {"check", "create"}
    PROVE  LedgerInv'
<1>1. Says(migrations', base', serial' + 1, schema')
  BY StopAnywhere, Zenon
<1>2. UniqueRevisions' /\ RollbackChain'
  BY OneEngine, Zenon DEF UniqueRevisions, RollbackChain
<1>3. PrepareInv(e)' /\ ApplyInv(e)' /\ UnapplyInv(e)'
  BY Zenon DEF PrepareInv, ApplyInv, UnapplyInv
<1>4. RestInv(e)'
  BY <1>1, Zenon DEF RestInv
<1> QED BY <1>2, <1>3, <1>4, OneEngineNext, Zenon

\* A reset that empties the ledger starts from the schema it leaves.
LEMMA Emptied ==
    ASSUME NEW e, Engines = {e}, migrations' = {}, base' = schema',
           pc'[e] \in {"reset_drop", "reset_init"}
    PROVE  LedgerInv'
BY Zenon DEF LedgerInv, UniqueRevisions, RollbackChain, PrepareInv, ApplyInv, UnapplyInv,
       RestInv, Says, Applying, Unapplying

\* An update that goes on with an apply.
LEMMA AdvanceApply ==
    ASSUME NEW e, Engines = {e}, TypeInv, LedgerInv,
           pc[e] \in {"start_apply", "record_apply"},
           NEW p \in MigrationUpdateParams, p.revision = job[e].params.revision,
           p.status = "MigrationInProgress", Advance(e, p, "apply")
    PROVE  LedgerInv'
<1> USE OneEngine
<1> DEFINE j == job[e]
<1>0. e \in Engines
  BY Zenon
<1>1. pc[e] \in Applying
  BY Zenon DEF Applying
<1>2. PICK m \in migrations : Own(j, m) /\ m.datamodel = j.to /\ m.before = j.from
  BY <1>1, Zenon DEF ApplyInv
<1>3. m.revision = serial
  BY <1>1, <1>2, Zenon DEF ApplyInv, Own
<1>4. PICK n : /\ migrations' = (migrations \ {m}) \cup {n}
               /\ n.revision = m.revision /\ n.name = m.name
               /\ n.datamodel = m.datamodel /\ n.before = m.before
               /\ n.status = p.status
  BY <1>0, <1>2, UpdateOwn DEF Advance
<1>5. UNCHANGED <<serial, schema, base>>
  BY Zenon DEF Advance, Persist
<1>6. /\ UniqueRevisions' /\ RollbackChain'
      /\ \A S : Says(migrations, base, m.revision, S)
                   => Says(migrations', base', m.revision, S)
  <2>1. \A x \in migrations : ~(m.revision < x.revision)
    BY <1>3, RevisionTypes
  <2> QED BY <1>4, <1>5, <2>1, UpdateLedger, Zenon
<1>7. job[e] \in Job /\ job \in [Engines -> Job] /\ pc \in [Engines -> {"down", "idle"} \cup Busy]
  BY Zenon DEF TypeInv, TypeOK
<1>8. pc'[e] = "apply" /\ job'[e] = [job[e] EXCEPT !.params = p]
  BY <1>0, <1>7, Zenon DEF Advance, Goto
<1>9. /\ job'[e].params = p /\ job'[e].name = j.name /\ job'[e].to = j.to
      /\ job'[e].from = j.from /\ job'[e].drop = j.drop /\ job'[e].create = j.create
  BY <1>7, <1>8, Zenon DEF Job
<1>10. PrepareInv(e)' /\ UnapplyInv(e)' /\ RestInv(e)'
  BY <1>8, Zenon DEF PrepareInv, UnapplyInv, RestInv, Applying, Unapplying
<1>11. ApplyInv(e)'
  <2>1. n \in migrations' /\ Own(job'[e], n) /\ n.datamodel = job'[e].to
                          /\ n.before = job'[e].from
    BY <1>2, <1>4, <1>9, Zenon DEF Own
  <2>2. Says(migrations', base', serial', job'[e].from)
    BY <1>1, <1>3, <1>5, <1>6, <1>9, Zenon DEF ApplyInv
  <2>3. Leads(job[e])
    BY <1>1, Zenon DEF ApplyInv
  <2>4. Leads(job[e])'
    BY <1>5, <1>9, <2>3, Zenon DEF Leads
  <2>5. job'[e].params.revision = serial' /\ job'[e].params.status = "MigrationInProgress"
    BY <1>1, <1>5, <1>9, Zenon DEF ApplyInv
  <2> QED BY <1>8, <2>1, <2>2, <2>4, <2>5, Zenon DEF ApplyInv
<1> QED BY <1>6, <1>10, <1>11, OneEngineNext, Zenon

\* The update that ends an apply.
LEMMA EndApply ==
    ASSUME NEW e, Engines = {e}, TypeInv, LedgerInv,
           NEW p \in MigrationUpdateParams, p.revision = job[e].params.revision,
           \/ pc[e] = "finish_apply" /\ p.status = "MigrationSuccess"
           \/ pc[e] = "fail_apply" /\ p.status = "MigrationFailure",
           Persist(e, p), NEW label \in {"idle", "report"}, Forget(e, label)
    PROVE  LedgerInv'
<1> USE OneEngine
<1> DEFINE j == job[e]
<1>0. e \in Engines
  BY Zenon
<1>1. pc[e] \in Applying
  BY Zenon DEF Applying
<1>2. PICK m \in migrations : Own(j, m) /\ m.datamodel = j.to /\ m.before = j.from
  BY <1>1, Zenon DEF ApplyInv
<1>3. m.revision = serial /\ serial \in Nat
  BY <1>1, <1>2, RevisionTypes, Zenon DEF ApplyInv, Own
<1>4. PICK n : /\ migrations' = (migrations \ {m}) \cup {n}
               /\ n.revision = m.revision /\ n.name = m.name
               /\ n.datamodel = m.datamodel /\ n.before = m.before
               /\ n.status = p.status
  BY <1>0, <1>2, UpdateOwn
<1>5. UNCHANGED <<serial, schema, base>>
  BY Zenon DEF Persist
<1>6. UniqueRevisions' /\ RollbackChain'
  <2>1. \A x \in migrations : ~(m.revision < x.revision)
    BY <1>3, RevisionTypes
  <2>2. Says(migrations, base, m.revision, m.before)
    BY <1>1, <1>2, <1>3, Zenon DEF ApplyInv
  <2> QED BY <1>4, <1>5, <2>1, <2>2, UpdateLedger, Zenon
<1>7. pc'[e] \in {"idle", "report"}
  BY <1>0, Zenon DEF Forget, Goto, TypeInv, TypeOK
<1>8. PrepareInv(e)' /\ ApplyInv(e)' /\ UnapplyInv(e)'
  BY <1>7, Zenon DEF PrepareInv, ApplyInv, UnapplyInv, Applying, Unapplying
<1>9. \A x \in migrations' : x.revision \in Nat /\ x.revision <= serial
  BY <1>3, <1>4, RevisionTypes, Zenon
<1>10. Says(migrations', base', serial' + 1, schema')
  <2>1. CASE pc[e] = "finish_apply"
    <3>1. schema = n.datamodel /\ n.status = "MigrationSuccess"
      BY <1>1, <1>2, <1>4, <2>1, Zenon DEF ApplyInv
    <3>2. \A q \in migrations' : (q.revision < n.revision \/ q = n)
      BY <1>3, <1>4, <1>6, <1>9 DEF UniqueRevisions
    <3> QED BY <1>3, <1>4, <1>5, <1>9, <3>1, <3>2 DEF Says, Matters
  <2>2. CASE pc[e] = "fail_apply"
    <3>1. n \in migrations' /\ n.revision < serial + 1 /\ n.status = "MigrationFailure"
      BY <1>3, <1>4, <2>2
    <3>2. \A x \in migrations' : ~(n.revision < x.revision)
      BY <1>3, <1>4, <1>9
    <3> QED BY <1>5, <1>6, <1>9, <3>1, <3>2, SaysNothing, Zenon DEF UniqueRevisions, Matters
  <2> QED BY <2>1, <2>2, Zenon
<1>11. RestInv(e)'
  BY <1>10, Zenon DEF RestInv
<1> QED BY <1>6, <1>8, <1>11, OneEngineNext, Zenon

\* An update that goes on with an unapply.
LEMMA AdvanceUnapply ==
    ASSUME NEW e, Engines = {e}, TypeInv, LedgerInv,
           pc[e] \in {"start_unapply", "record_unapply"},
           NEW p \in MigrationUpdateParams, p.revision = job[e].params.revision,
           p.status = "RollingBack", Advance(e, p, "unapply")
    PROVE  LedgerInv'
<1> USE OneEngine
<1> DEFINE j == job[e]
<1>0. e \in Engines
  BY Zenon
<1>1. pc[e] \in Unapplying
  BY Zenon DEF Unapplying
<1>2. PICK m \in migrations : Own(j, m) /\ m.datamodel = j.from /\ m.before = j.to
  BY <1>1, Zenon DEF UnapplyInv
<1>3. /\ m.revision = j.params.revision
      /\ \A x \in migrations : m.revision < x.revision => x.status # "MigrationSuccess"
  BY <1>1, <1>2, Zenon DEF UnapplyInv, Own
<1>4. PICK n : /\ migrations' = (migrations \ {m}) \cup {n}
               /\ n.revision = m.revision /\ n.name = m.name
               /\ n.datamodel = m.datamodel /\ n.before = m.before
               /\ n.status = p.status
  BY <1>0, <1>2, UpdateOwn DEF Advance
<1>5. UNCHANGED <<serial, schema, base>>
  BY Zenon DEF Advance, Persist
<1>6. /\ UniqueRevisions' /\ RollbackChain'
      /\ \A S : Says(migrations, base, m.revision, S)
                   => Says(migrations', base', m.revision, S)
  BY <1>3, <1>4, <1>5, UpdateLedger, Zenon
<1>7. job[e] \in Job /\ job \in [Engines -> Job] /\ pc \in [Engines -> {"down", "idle"} \cup Busy]
  BY Zenon DEF TypeInv, TypeOK
<1>8. pc'[e] = "unapply" /\ job'[e] = [job[e] EXCEPT !.params = p]
  BY <1>0, <1>7, Zenon DEF Advance, Goto
<1>9. /\ job'[e].params = p /\ job'[e].name = j.name /\ job'[e].to = j.to
      /\ job'[e].from = j.from /\ job'[e].drop = j.drop /\ job'[e].create = j.create
  BY <1>7, <1>8, Zenon DEF Job
<1>10. PrepareInv(e)' /\ ApplyInv(e)' /\ RestInv(e)'
  BY <1>8, Zenon DEF PrepareInv, ApplyInv, RestInv, Applying, Unapplying
<1>11. UnapplyInv(e)'
  <2>1. n \in migrations' /\ Own(job'[e], n) /\ n.datamodel = job'[e].from
                          /\ n.before = job'[e].to
    BY <1>2, <1>4, <1>9, Zenon DEF Own
  <2>2. Says(migrations', base', job'[e].params.revision, job'[e].to)
    BY <1>1, <1>3, <1>6, <1>9, Zenon DEF UnapplyInv
  <2>3. \A x \in migrations' :
           job'[e].params.revision < x.revision => x.status # "MigrationSuccess"
    BY <1>3, <1>4, <1>9, Zenon
  <2>4. NothingAfter(job[e].params.revision)' => Leads(job[e])'
    <3> SUFFICES ASSUME NothingAfter(job[e].params.revision)'
                 PROVE  Leads(job[e])'
      BY Zenon
    <3>1. NothingAfter(job[e].params.revision)
      <4> SUFFICES ASSUME NEW x \in migrations, job[e].params.revision < x.revision
                   PROVE  ~Matters(x)
        BY Zenon DEF NothingAfter
      <4>1. x # m
        BY <1>3, RevisionTypes
      <4> QED BY <1>4, <1>9, <4>1, Zenon DEF NothingAfter
    <3>2. Leads(job[e])
      BY <1>1, <3>1, Zenon DEF UnapplyInv
    <3> QED BY <1>5, <1>9, <3>2, Zenon DEF Leads
  <2> QED BY <1>8, <1>9, <2>1, <2>2, <2>3, <2>4, Zenon DEF UnapplyInv
<1> QED BY <1>6, <1>10, <1>11, OneEngineNext, Zenon

\* The update that ends an unapply.
LEMMA EndUnapply ==
    ASSUME NEW e, Engines = {e}, TypeInv, LedgerInv,
           NEW p \in MigrationUpdateParams, p.revision = job[e].params.revision,
           \/ pc[e] = "finish_unapply" /\ p.status = "RollbackSuccess"
           \/ pc[e] = "fail_unapply" /\ p.status = "RollbackFailure",
           Persist(e, p), NEW label \in {"idle", "report"}, Forget(e, label)
    PROVE  LedgerInv'
<1> USE OneEngine
<1> DEFINE j == job[e]
           r == j.params.revision
<1>0. e \in Engines
  BY Zenon
<1>1. pc[e] \in Unapplying
  BY Zenon DEF Unapplying
<1>2. PICK m \in migrations : Own(j, m) /\ m.datamodel = j.from /\ m.before = j.to
  BY <1>1, Zenon DEF UnapplyInv
<1>3. /\ m.revision = r
      /\ \A x \in migrations : r < x.revision => x.status # "MigrationSuccess"
  BY <1>1, <1>2, Zenon DEF UnapplyInv, Own
<1>4. PICK n : /\ migrations' = (migrations \ {m}) \cup {n}
               /\ n.revision = m.revision /\ n.name = m.name
               /\ n.datamodel = m.datamodel /\ n.before = m.before
               /\ n.status = p.status
  BY <1>0, <1>2, UpdateOwn, SMTT(60)
<1>5. UNCHANGED <<serial, schema, base>>
  BY Zenon DEF Persist
<1>6. /\ UniqueRevisions' /\ RollbackChain'
      /\ \A S : Says(migrations, base, m.revision, S)
                   => Says(migrations', base', m.revision, S)
  BY <1>3, <1>4, <1>5, UpdateLedger, Zenon
<1>7. pc'[e] \in {"idle", "report"}
  BY <1>0, Zenon DEF Forget, Goto, TypeInv, TypeOK
<1>8. PrepareInv(e)' /\ ApplyInv(e)' /\ UnapplyInv(e)'
  BY <1>7, Zenon DEF PrepareInv, ApplyInv, UnapplyInv, Applying, Unapplying
<1>9. \A x \in migrations' : x.revision \in Nat /\ x.revision < serial + 1
  BY <1>4, RevisionTypes, SMTT(60)
<1>10. \A x \in migrations' : r < x.revision => x.status # "MigrationSuccess"
  BY <1>3, <1>4, Zenon
<1>11. r \in Nat /\ n.revision = r /\ n \in migrations'
  BY <1>3, <1>4, RevisionTypes, Zenon
<1>12. Says(migrations', base', serial' + 1, schema')
  <2>1. CASE pc[e] = "finish_unapply"
    <3>1. Says(migrations', base', r, j.to)
      BY <1>1, <1>3, <1>6, Zenon DEF UnapplyInv
    <3>2. (\A x \in migrations' : r < x.revision => ~Matters(x)) => schema = j.to
      <4> SUFFICES ASSUME \A x \in migrations' : r < x.revision => ~Matters(x)
                   PROVE  schema = j.to
        BY Zenon
      <4>1. \A x \in migrations : r < x.revision => ~Matters(x)
        BY <1>3, <1>4, <1>11
      <4> QED BY <1>1, <2>1, <4>1, Zenon DEF UnapplyInv, NothingAfter
    <3>3. \A x \in migrations' : x.revision = r => ~Matters(x)
      BY <1>4, <1>6, <1>11, <2>1, SMTT(60) DEF UniqueRevisions, Matters
    <3> HIDE DEF r, j
    <3>4. ASSUME \A x \in migrations' : x.revision < serial + 1 => ~Matters(x)
          PROVE  schema = base
      BY <1>5, <1>9, <3>1, <3>2, <3>4, Zenon DEF Says
    <3>5. ASSUME NEW q \in migrations', q.status = "MigrationSuccess",
                 \A x \in migrations' : q.revision < x.revision /\ x.revision < serial + 1
                                          => ~Matters(x)
          PROVE  schema = q.datamodel
      <4>1. q.revision < r
        BY <1>9, <1>10, <1>11, <3>3, <3>5 DEF Matters
      <4>2. schema = j.to
        BY <1>9, <1>11, <3>2, <3>5, <4>1
      <4> QED BY <1>9, <1>11, <3>1, <3>5, <4>1, <4>2, Zenon DEF Says
    <3> QED BY <1>5, <3>4, <3>5, Zenon DEF Says
  <2>2. CASE pc[e] = "fail_unapply"
    <3>1. n.revision < serial + 1 /\ n.status = "RollbackFailure"
      BY <1>4, <1>9, <1>11, <2>2, Zenon
    <3> QED BY <1>5, <1>6, <1>9, <1>10, <1>11, <3>1, SaysNothing, Zenon
            DEF UniqueRevisions, Matters
  <2> QED BY <2>1, <2>2, Zenon
<1>13. RestInv(e)'
  BY <1>12, Zenon DEF RestInv
<1> QED BY <1>6, <1>8, <1>13, OneEngineNext, Zenon

\* A statement brings the schema closer to where the migration leads.
LEMMA StatementLeads ==
    ASSUME TypeInv, NEW e \in Engines, NEW record, NEW finish, NEW fail,
           finish \notin {record, fail}, record # fail,
           ExecuteStatement(e, record, finish, fail)
    PROVE  /\ pc'[e] \in {record, finish, fail}
           /\ job'[e].params = job[e].params /\ job'[e].name = job[e].name
           /\ job'[e].to = job[e].to /\ job'[e].from = job[e].from
           /\ Leads(job[e]) => /\ pc'[e] = record => Leads(job[e])'
                               /\ pc'[e] = finish => schema' = job[e].to
<1> DEFINE j == job[e]
<1>0. job \in [Engines -> Job] /\ j \in Job /\ pc \in [Engines -> {"down", "idle"} \cup Busy]
  BY Zenon DEF TypeInv, TypeOK
<1>1. CASE j.drop \cup j.create = {} /\ Goto(e, finish) /\ UNCHANGED <<schema, filled, job>>
  <2>1. pc'[e] = finish
    BY <1>0, <1>1, Zenon DEF Goto
  <2>2. Leads(j) => schema = j.to
    BY <1>1, Zenon DEF Leads
  <2> QED BY <1>1, <2>1, <2>2, Zenon
<1>2. ASSUME NEW t \in Models, NextStatement(j, t), Succeeds(j, t),
             schema' = IF t \in j.drop THEN schema \ {t} ELSE schema \cup {t},
             job' = [job EXCEPT ![e].drop = @ \ {t}, ![e].create = @ \ {t}],
             Goto(e, IF (j.drop \cup j.create) \ {t} = {} THEN finish ELSE record)
      PROVE  /\ pc'[e] \in {record, finish, fail}
             /\ job'[e].params = job[e].params /\ job'[e].name = job[e].name
             /\ job'[e].to = job[e].to /\ job'[e].from = job[e].from
             /\ Leads(j) => /\ pc'[e] = record => Leads(job[e])'
                            /\ pc'[e] = finish => schema' = j.to
  <2>1. pc'[e] = IF (j.drop \cup j.create) \ {t} = {} THEN finish ELSE record
    BY <1>0, <1>2, Zenon DEF Goto
  <2>2. job'[e] = [j EXCEPT !.drop = @ \ {t}, !.create = @ \ {t}]
    BY <1>0, <1>2, Zenon
  <2>3. /\ job'[e].params = j.params /\ job'[e].name = j.name
        /\ job'[e].to = j.to /\ job'[e].from = j.from
        /\ job'[e].drop = j.drop \ {t} /\ job'[e].create = j.create \ {t}
    BY <1>0, <2>2, Zenon DEF Job
  <2>4. ASSUME Leads(j)
        PROVE  schema' = (j.to \ (j.create \ {t})) \cup (j.drop \ {t})
    <3>1. CASE t \in j.drop
      BY <1>2, <2>4, <3>1, Zenon DEF Leads
    <3>2. CASE t \notin j.drop
      BY <1>2, <2>4, <3>2, Zenon DEF Leads, NextStatement
    <3> QED BY <3>1, <3>2, Zenon
  <2>5. ASSUME Leads(j)
        PROVE  Leads(job[e])'
    BY <2>3, <2>4, <2>5, Zenon DEF Leads
  <2>6. ASSUME Leads(j), pc'[e] = finish
        PROVE  schema' = j.to
    <3>1. j.create \ {t} = {} /\ j.drop \ {t} = {}
      BY <2>1, <2>6, Zenon
    <3> QED BY <2>4, <2>6, <3>1, Zenon
  <2> QED BY <2>1, <2>3, <2>5, <2>6, Zenon
<1>3. CASE Goto(e, fail) /\ UNCHANGED <<schema, filled, job>>
  <2>1. pc'[e] = fail
    BY <1>0, <1>3, Zenon DEF Goto
  <2> QED BY <1>3, <2>1, Zenon
<1> QED BY <1>1, <1>2, <1>3, Zenon DEF ExecuteStatement

\* The steps of applyMigration keep it.
LEMMA ApplyStepLedger ==
    ASSUME NEW e, Engines = {e}, TypeInv, LedgerInv, ApplyStep(e)
    PROVE  LedgerInv'
<1> USE OneEngine
<1>0. e \in Engines
  BY Zenon
<1>1. pc[e] = "apply" /\ pc[e] \in Applying
  BY Zenon DEF ApplyStep, Applying
<1>2. /\ pc'[e] \in {"record_apply", "finish_apply", "fail_apply"}
      /\ job'[e].params = job[e].params /\ job'[e].name = job[e].name
      /\ job'[e].to = job[e].to /\ job'[e].from = job[e].from
      /\ Leads(job[e]) => /\ pc'[e] = "record_apply" => Leads(job[e])'
                          /\ pc'[e] = "finish_apply" => schema' = job[e].to
  BY <1>0, StatementLeads, SMTT(60) DEF ApplyStep
<1>3. UNCHANGED <<migrations, serial, base>>
  BY Zenon DEF ApplyStep
<1>4. Leads(job[e])
  BY <1>1, Zenon DEF ApplyInv
<1>5. UniqueRevisions' /\ RollbackChain'
  BY <1>3, Zenon DEF UniqueRevisions, RollbackChain
<1>6. PrepareInv(e)' /\ UnapplyInv(e)' /\ RestInv(e)'
  BY <1>2, Zenon DEF PrepareInv, UnapplyInv, RestInv, Applying, Unapplying
<1>7. ApplyInv(e)'
  BY <1>1, <1>2, <1>3, <1>4, SMTT(60) DEF ApplyInv, Own
<1> QED BY <1>5, <1>6, <1>7, OneEngineNext, Zenon

\* The steps of unapplyMigration keep it.
LEMMA UnapplyStepLedger ==
    ASSUME NEW e, Engines = {e}, TypeInv, LedgerInv, UnapplyStep(e)
    PROVE  LedgerInv'
<1> USE OneEngine
<1>0. e \in Engines
  BY Zenon
<1>1. pc[e] = "unapply" /\ pc[e] \in Unapplying
  BY Zenon DEF UnapplyStep, Unapplying
<1>2. /\ pc'[e] \in {"record_unapply", "finish_unapply", "fail_unapply"}
      /\ job'[e].params = job[e].params /\ job'[e].name = job[e].name
      /\ job'[e].to = job[e].to /\ job'[e].from = job[e].from
      /\ Leads(job[e]) => /\ pc'[e] = "record_unapply" => Leads(job[e])'
                          /\ pc'[e] = "finish_unapply" => schema' = job[e].to
  BY <1>0, StatementLeads, SMTT(60) DEF UnapplyStep
<1>3. UNCHANGED <<migrations, serial, base>>
  BY Zenon DEF UnapplyStep
<1>4. NothingAfter(job[e].params.revision) => Leads(job[e])
  BY <1>1, Zenon DEF UnapplyInv
<1>5. NothingAfter(job[e].params.revision)' => NothingAfter(job[e].params.revision)
  BY <1>2, <1>3, Zenon DEF NothingAfter
<1>6. UniqueRevisions' /\ RollbackChain'
  BY <1>3, Zenon DEF UniqueRevisions, RollbackChain
<1>7. PrepareInv(e)' /\ ApplyInv(e)' /\ RestInv(e)'
  BY <1>2, Zenon DEF PrepareInv, ApplyInv, RestInv, Applying, Unapplying
<1>8. UnapplyInv(e)'
  BY <1>1, <1>2, <1>3, <1>4, <1>5, SMTT(60) DEF UnapplyInv, Own
<1> QED BY <1>6, <1>7, <1>8, OneEngineNext, Zenon

\* Introspection and the destructive-change check.
LEMMA PrepareLedger ==
    ASSUME NEW e, Engines = {e}, TypeInv, LedgerInv,
           UNCHANGED <<migrations, serial, schema, base>>,
           pc'[e] \in {"check", "create"}, schema = job'[e].from, Leads(job[e])'
    PROVE  LedgerInv'
<1>1. Says(migrations', base', serial' + 1, schema')
  BY StopAnywhere, Zenon
<1>2. UniqueRevisions' /\ RollbackChain'
  BY OneEngine, Zenon DEF UniqueRevisions, RollbackChain
<1>3. PrepareInv(e)' /\ ApplyInv(e)' /\ UnapplyInv(e)'
  BY Zenon DEF PrepareInv, ApplyInv, UnapplyInv, Applying, Unapplying
<1>4. RestInv(e)'
  BY <1>1, Zenon DEF RestInv
<1> QED BY <1>2, <1>3, <1>4, OneEngineNext, Zenon

\* Inferring and checking a migration keep it.
LEMMA InferLedger ==
    ASSUME NEW e, Engines = {e}, TypeInv, LedgerInv,
           InferDatabaseMigration(e) \/ CheckDestructiveChanges(e)
    PROVE  LedgerInv'
<1>0. e \in Engines
  BY Zenon
<1>1. job \in [Engines -> Job] /\ job[e] \in Job /\ pc \in [Engines -> {"down", "idle"} \cup Busy]
  BY Zenon DEF TypeInv, TypeOK
<1>2. UNCHANGED <<migrations, serial, schema, base>>
  BY Zenon DEF InferDatabaseMigration, CheckDestructiveChanges
<1>3. CASE InferDatabaseMigration(e)
  <2>1. pc'[e] = "check"
    BY <1>0, <1>1, <1>3, Zenon DEF InferDatabaseMigration, Goto
  <2>2. /\ job'[e].from = schema /\ job'[e].to = job[e].to
        /\ job'[e].drop = schema \ job[e].to /\ job'[e].create = job[e].to \ schema
    BY <1>0, <1>1, <1>3, Zenon DEF InferDatabaseMigration, Job
  <2>3. Leads(job[e])'
    BY <1>2, <2>2, Zenon DEF Leads
  <2> QED BY <1>2, <2>1, <2>2, <2>3, PrepareLedger, Zenon
<1>4. CASE CheckDestructiveChanges(e) /\ Return(e)
  <2>1. pc'[e] = "idle"
    BY <1>0, <1>1, <1>4, Zenon DEF Return, Forget, Goto
  <2> QED BY <1>2, <2>1, Quiet, Zenon DEF Applying, Unapplying
<1>5. CASE CheckDestructiveChanges(e) /\ job' = [job EXCEPT ![e].seen = filled]
                                      /\ Goto(e, "create")
  <2>1. pc'[e] = "create"
    BY <1>0, <1>1, <1>5, Zenon DEF Goto
  <2>2. /\ job'[e].from = job[e].from /\ job'[e].to = job[e].to
        /\ job'[e].drop = job[e].drop /\ job'[e].create = job[e].create
    BY <1>0, <1>1, <1>5, Zenon DEF Job
  <2>3. schema = job[e].from /\ Leads(job[e])
    BY <1>5, OneEngine, Zenon DEF PrepareInv, CheckDestructiveChanges
  <2>4. Leads(job[e])'
    BY <1>2, <2>2, <2>3, Zenon DEF Leads
  <2> QED BY <1>2, <2>1, <2>2, <2>3, <2>4, PrepareLedger, Zenon
<1> QED BY <1>3, <1>4, <1>5, Zenon DEF CheckDestructiveChanges

\* The new row records the schema it was inferred from, which is the live one.
LEMMA CreateLedger ==
    ASSUME NEW e, Engines = {e}, TypeInv, LedgerInv, CreateMigration(e)
    PROVE  LedgerInv'
<1> USE OneEngine
<1> DEFINE p == [NoParams EXCEPT !.revision = serial + 1]
           n == [name |-> job[e].name, revision |-> p.revision, status |-> p.status,
                 applied |-> p.applied, rolled_back |-> p.rolled_back,
                 finished |-> p.finished,
                 datamodel |-> job[e].to, before |-> job[e].from]
<1>0. e \in Engines /\ pc[e] = "create"
  BY Zenon DEF CreateMigration
<1>1. job \in [Engines -> Job] /\ job[e] \in Job /\ pc \in [Engines -> {"down", "idle"} \cup Busy]
  BY <1>0, Zenon DEF TypeInv, TypeOK
<1>2. p.revision = serial + 1 /\ p.status = "Pending"
  BY Zenon DEF NoParams
<1>3. /\ serial' = serial + 1 /\ migrations' = migrations \cup {n}
      /\ UNCHANGED <<schema, base>>
  BY Zenon DEF CreateMigration
<1>4. pc'[e] = "start_apply" /\ job'[e] = [job[e] EXCEPT !.params = p]
  BY <1>0, <1>1, Zenon DEF CreateMigration, Goto
<1>5. /\ job'[e].params = p /\ job'[e].name = job[e].name /\ job'[e].to = job[e].to
      /\ job'[e].from = job[e].from /\ job'[e].drop = job[e].drop
      /\ job'[e].create = job[e].create
  BY <1>1, <1>4, Zenon DEF Job
<1>6. /\ n.revision = serial + 1 /\ n.status = "Pending" /\ n.name = job[e].name
      /\ n.datamodel = job[e].to /\ n.before = job[e].from
  BY <1>2, Zenon
<1> HIDE DEF p, n
<1>7. serial \in Nat /\ \A x \in migrations : x.revision \in Nat /\ x.revision < serial + 1
  BY RevisionTypes
<1>8. UniqueRevisions'
  BY <1>3, <1>6, <1>7 DEF UniqueRevisions
<1>9. ASSUME NEW r \in Nat, r <= serial + 1, NEW S, Says(migrations, base, r, S)
      PROVE  Says(migrations', base', r, S)
  <2>1. \A x \in migrations' : x.revision < r => x \in migrations
    BY <1>3, <1>6, <1>7, <1>9
  <2>2. \A x \in migrations : x.revision < r => x \in migrations'
    BY <1>3, Zenon
  <2> QED BY <1>3, <1>9, <2>1, <2>2, SaysSame, Zenon
<1>10. RollbackChain'
  <2> SUFFICES ASSUME NEW x \in migrations', x.status = "MigrationSuccess"
               PROVE  Says(migrations', base', x.revision, x.before)
    BY Zenon DEF RollbackChain
  <2>1. x \in migrations
    BY <1>3, <1>6, Zenon
  <2> QED BY <1>7, <1>9, <2>1 DEF RollbackChain
<1>11. schema = job[e].from /\ Leads(job[e]) /\ Says(migrations, base, serial + 1, schema)
  BY <1>0, Zenon DEF PrepareInv, RestInv, Applying, Unapplying
<1>12. Says(migrations', base', serial', schema')
  <2>1. serial + 1 \in Nat /\ serial + 1 <= serial + 1
    BY <1>7
  <2>2. Says(migrations', base', serial + 1, schema)
    BY <1>9, <1>11, <2>1, Zenon
  <2> QED BY <1>3, <2>2, Zenon
<1>13. Says(migrations', base', serial' + 1, schema')
  <2>1. \A x \in migrations' : x.revision \in Nat
    BY <1>3, <1>6, <1>7
  <2>2. \A x \in migrations' : x.revision = serial' => ~Matters(x)
    BY <1>3, <1>6, <1>7 DEF Matters
  <2> QED BY <1>3, <1>7, <1>12, <2>1, <2>2, SaysMore
<1>14. PrepareInv(e)' /\ UnapplyInv(e)' /\ RestInv(e)'
  BY <1>4, <1>13, Zenon DEF PrepareInv, UnapplyInv, RestInv, Unapplying
<1>15. ApplyInv(e)'
  <2>1. Leads(job[e])'
    BY <1>3, <1>5, <1>11, Zenon DEF Leads
  <2>2. n \in migrations' /\ Own(job'[e], n)
    BY <1>2, <1>3, <1>5, <1>6, Zenon DEF Own
  <2>3. \E m \in migrations' : /\ Own(job'[e], m)
                               /\ m.datamodel = job'[e].to /\ m.before = job'[e].from
    BY <1>5, <1>6, <2>2, Zenon
  <2> QED BY <1>2, <1>3, <1>4, <1>5, <1>11, <1>12, <2>1, <2>3, Zenon DEF ApplyInv
<1> QED BY <1>8, <1>10, <1>14, <1>15, OneEngineNext, Zenon

\* unapplyMigration starts from the last success, which nothing successful
\* follows; its rollback leads to what the rows before it say.
LEMMA StartUnapplyLedger ==
    ASSUME NEW e, Engines = {e}, TypeInv, LedgerInv, StartUnapply(e)
    PROVE  LedgerInv'
<1> USE OneEngine
<1> DEFINE m == Latest(Successes)
<1>0. e \in Engines /\ pc[e] = "idle" /\ UNCHANGED <<migrations, serial, schema, base>>
  BY Zenon DEF StartUnapply
<1>1. job \in [Engines -> Job] /\ pc \in [Engines -> {"down", "idle"} \cup Busy]
  BY Zenon DEF TypeInv, TypeOK
<1>2. m \in Successes /\ \A x \in Successes : x.revision <= m.revision
  <2>1. Successes \in SUBSET migrations /\ Successes # {}
    BY Zenon DEF Successes, StartUnapply
  <2> QED BY <2>1, LatestIsNewest, Zenon DEF TypeInv
<1>3. pc'[e] = "start_unapply"
  BY <1>0, <1>1, Zenon DEF StartUnapply, Goto
<1>4. /\ job'[e].name = m.name /\ job'[e].from = m.datamodel /\ job'[e].to = m.before
      /\ job'[e].drop = m.datamodel \ m.before /\ job'[e].create = m.before \ m.datamodel
      /\ job'[e].params.revision = m.revision /\ job'[e].params.status = m.status
  <2> DEFINE p == [revision |-> m.revision, status |-> m.status, applied |-> m.applied,
                   rolled_back |-> m.rolled_back, finished |-> m.finished]
             j == [NoJob EXCEPT !.name = m.name, !.from = m.datamodel, !.to = m.before,
                                !.drop = m.datamodel \ m.before,
                                !.create = m.before \ m.datamodel, !.params = p]
  <2>1. job'[e] = j
    BY <1>0, <1>1, Zenon DEF StartUnapply
  <2>2. p.revision = m.revision /\ p.status = m.status
    BY Zenon
  <2> HIDE DEF m, p
  <2>3. /\ j.name = m.name /\ j.from = m.datamodel /\ j.to = m.before
        /\ j.drop = m.datamodel \ m.before /\ j.create = m.before \ m.datamodel
        /\ j.params = p
    BY Zenon DEF NoJob
  <2> HIDE DEF j
  <2> QED BY <2>1, <2>2, <2>3, Zenon
<1> HIDE DEF m
<1>5. m \in migrations /\ m.status = "MigrationSuccess"
  BY <1>2, Zenon DEF Successes
<1>6. \A x \in migrations : m.revision < x.revision => x.status # "MigrationSuccess"
  BY <1>2, <1>5, RevisionTypes DEF Successes
<1>7. Says(migrations, base, m.revision, m.before)
  BY <1>5, Zenon DEF RollbackChain
<1>8. Says(migrations, base, serial + 1, schema)
  BY StopAnywhere, Zenon
<1>9. NothingAfter(m.revision) => schema = m.datamodel
  BY <1>5, <1>8, RevisionTypes DEF NothingAfter, Says
<1>10. UniqueRevisions' /\ RollbackChain'
  BY <1>0, Zenon DEF UniqueRevisions, RollbackChain
<1>11. PrepareInv(e)' /\ ApplyInv(e)' /\ RestInv(e)'
  BY <1>0, <1>3, <1>8, Zenon DEF PrepareInv, ApplyInv, RestInv, Applying
<1>12. UnapplyInv(e)'
  <2>1. \E x \in migrations' : /\ Own(job'[e], x)
                               /\ x.datamodel = job'[e].from /\ x.before = job'[e].to
    BY <1>0, <1>4, <1>5, Zenon DEF Own
  <2>2. NothingAfter(m.revision) => Leads(job[e])'
    BY <1>0, <1>4, <1>9, Zenon DEF Leads
  <2>3. NothingAfter(job[e].params.revision)' => NothingAfter(m.revision)
    BY <1>0, <1>4, Zenon DEF NothingAfter
  <2>4. Says(migrations', base', job'[e].params.revision, job'[e].to)
    BY <1>0, <1>4, <1>7, Zenon
  <2>5. \A x \in migrations' :
           job'[e].params.revision < x.revision => x.status # "MigrationSuccess"
    BY <1>0, <1>4, <1>6, Zenon
  <2> QED BY <1>3, <1>4, <1>5, <2>1, <2>2, <2>3, <2>4, <2>5, Zenon DEF UnapplyInv
<1> QED BY <1>10, <1>11, <1>12, OneEngineNext, Zenon

\* The invariant does not depend on rows of application tables.
LEMMA SameLedger ==
    ASSUME NEW e, Engines = {e}, LedgerInv,
           UNCHANGED <<migrations, serial, schema, base, pc, job>>
    PROVE  LedgerInv'
<1> USE OneEngine
<1>1. UniqueRevisions' /\ RollbackChain' /\ RestInv(e)'
  BY Zenon DEF UniqueRevisions, RollbackChain, RestInv
<1>2. PrepareInv(e)'
  BY Zenon DEF PrepareInv, Leads
<1>3. ApplyInv(e)'
  BY DEF ApplyInv, Own, Leads
<1>4. UnapplyInv(e)'
  BY DEF UnapplyInv, Own, Leads, NothingAfter
<1> QED BY <1>1, <1>2, <1>3, <1>4, OneEngineNext, Zenon

\* The parameters of an update are the engine's, with a new status or count.
LEMMA UpdateParams ==
    ASSUME NEW e \in Engines, TypeInv, NEW st \in MigrationStatus
    PROVE  /\ [job[e].params EXCEPT !.status = st] \in MigrationUpdateParams
           /\ [job[e].params EXCEPT !.status = st].revision = job[e].params.revision
           /\ [job[e].params EXCEPT !.status = st].status = st
           /\ [job[e].params EXCEPT !.status = st, !.finished = TRUE]
                 \in MigrationUpdateParams
           /\ [job[e].params EXCEPT !.status = st, !.finished = TRUE].revision
                 = job[e].params.revision
           /\ [job[e].params EXCEPT !.status = st, !.finished = TRUE].status = st
           /\ [job[e].params EXCEPT !.applied = @ + 1] \in MigrationUpdateParams
           /\ [job[e].params EXCEPT !.applied = @ + 1].revision = job[e].params.revision
           /\ [job[e].params EXCEPT !.applied = @ + 1].status = job[e].params.status
           /\ [job[e].params EXCEPT !.rolled_back = @ + 1] \in MigrationUpdateParams
           /\ [job[e].params EXCEPT !.rolled_back = @ + 1].revision = job[e].params.revision
           /\ [job[e].params EXCEPT !.rolled_back = @ + 1].status = job[e].params.status
<1> DEFINE q == job[e].params
<1>1. q \in MigrationUpdateParams
  BY JobParamsType, Zenon
<1> HIDE DEF q
<1>2. /\ [q EXCEPT !.status = st] \in MigrationUpdateParams
      /\ [q EXCEPT !.status = st, !.finished = TRUE] \in MigrationUpdateParams
      /\ [q EXCEPT !.applied = @ + 1] \in MigrationUpdateParams
      /\ [q EXCEPT !.rolled_back = @ + 1] \in MigrationUpdateParams
  BY <1>1, ParamsType, Zenon
<1>3. /\ [q EXCEPT !.status = st].revision = q.revision
      /\ [q EXCEPT !.status = st].status = st
      /\ [q EXCEPT !.status = st, !.finished = TRUE].revision = q.revision
      /\ [q EXCEPT !.status = st, !.finished = TRUE].status = st
      /\ [q EXCEPT !.applied = @ + 1].revision = q.revision
      /\ [q EXCEPT !.applied = @ + 1].status = q.status
      /\ [q EXCEPT !.rolled_back = @ + 1].revision = q.revision
      /\ [q EXCEPT !.rolled_back = @ + 1].status = q.status
  BY <1>1, Zenon DEF MigrationUpdateParams
<1> QED BY <1>2, <1>3, Zenon DEF q

-----------------------------------------------------------------------------
(* The theorems.                                                           *)

\* It holds at first.
LEMMA LedgerInit ==
    ASSUME NEW e, Engines = {e}, Init
    PROVE  LedgerInv
BY Zenon DEF Init, LedgerInv, UniqueRevisions, RollbackChain, PrepareInv, ApplyInv, UnapplyInv,
       RestInv, Says, Applying, Unapplying

\* Every step of the only engine keeps the invariant.
LEMMA LedgerStep ==
    ASSUME NEW e, Engines = {e}, TypeInv, LedgerInv, [Next]_vars
    PROVE  LedgerInv'
<1> USE OneEngine
<1>0. e \in Engines
  BY Zenon
<1>1. job \in [Engines -> Job] /\ pc \in [Engines -> {"down", "idle"} \cup Busy]
  BY Zenon DEF TypeInv, TypeOK
<1>2. \A label : Goto(e, label) => pc'[e] = label
  BY <1>0, <1>1, Zenon DEF Goto
<1>3. CASE Start(e) \/ ResetInit(e)
  BY <1>2, <1>3, Quiet, Zenon DEF Start, ResetInit, Applying, Unapplying
<1>4. CASE \E name \in Names, steps \in DatamodelSteps, force \in BOOLEAN :
              StartApply(e, name, steps, force)
  BY <1>2, <1>4, Quiet, Zenon DEF StartApply, Applying, Unapplying
<1>5. CASE StartUnapply(e)
  BY <1>5, StartUnapplyLedger, Zenon
<1>6. CASE StartReset(e)
  <2>1. CASE migrations' = {} /\ base' = schema
    BY <1>2, <1>6, <2>1, Emptied, Zenon DEF StartReset
  <2>2. CASE UNCHANGED <<migrations, base>>
    BY <1>2, <1>6, <2>2, Quiet, Zenon DEF StartReset, Applying, Unapplying
  <2> QED BY <1>6, <2>1, <2>2, Zenon DEF StartReset
<1>7. CASE ResetDrop(e)
  <2>1. CASE migrations' = {} /\ schema' = {} /\ base' = {}
    BY <1>2, <1>7, <2>1, Emptied, Zenon DEF ResetDrop
  <2>2. CASE UNCHANGED <<table, migrations, serial, schema, filled, base>>
    BY <1>2, <1>7, <2>2, Quiet, Zenon DEF ResetDrop, Applying, Unapplying
  <2> QED BY <1>7, <2>1, <2>2, Zenon DEF ResetDrop
<1>8. CASE CalculateNext(e)
  BY <1>2, <1>8, Quiet, Zenon DEF CalculateNext, Return, Forget, Applying, Unapplying
<1>9. CASE InferDatabaseMigration(e) \/ CheckDestructiveChanges(e)
  BY <1>9, InferLedger, Zenon
<1>10. CASE CreateMigration(e)
  BY <1>10, CreateLedger, Zenon
<1>11. CASE MarkInProgress(e)
  <2>1. "MigrationInProgress" \in MigrationStatus
    BY Zenon DEF MigrationStatus
  <2> QED BY <1>0, <1>11, <2>1, UpdateParams, AdvanceApply, Zenon DEF MarkInProgress
<1>12. CASE RecordApplyStep(e)
  <2>1. job[e].params.status = "MigrationInProgress"
    BY <1>12, Zenon DEF ApplyInv, RecordApplyStep, Applying
  <2>2. "MigrationInProgress" \in MigrationStatus
    BY Zenon DEF MigrationStatus
  <2> QED BY <1>0, <1>12, <2>1, <2>2, UpdateParams, AdvanceApply, ZenonT(60) DEF RecordApplyStep
<1>13. CASE ApplyStep(e)
  BY <1>13, ApplyStepLedger, Zenon
<1>14. CASE FinishApply(e) \/ FailApply(e)
  <2>1. {"MigrationSuccess", "MigrationFailure"} \subseteq MigrationStatus
    BY Zenon DEF MigrationStatus
  <2> QED BY <1>0, <1>14, <2>1, UpdateParams, EndApply, Zenon
          DEF FinishApply, FailApply, Return
<1>15. CASE MarkRollingBack(e)
  <2>1. "RollingBack" \in MigrationStatus
    BY Zenon DEF MigrationStatus
  <2> QED BY <1>0, <1>15, <2>1, UpdateParams, AdvanceUnapply, Zenon DEF MarkRollingBack
<1>16. CASE RecordUnapplyStep(e)
  <2>1. job[e].params.status = "RollingBack"
    BY <1>16, Zenon DEF UnapplyInv, RecordUnapplyStep, Unapplying
  <2>2. "RollingBack" \in MigrationStatus
    BY Zenon DEF MigrationStatus
  <2> QED BY <1>0, <1>16, <2>1, <2>2, UpdateParams, AdvanceUnapply, ZenonT(60) DEF RecordUnapplyStep
<1>17. CASE UnapplyStep(e)
  BY <1>17, UnapplyStepLedger, Zenon
<1>18. CASE FinishUnapply(e) \/ FailUnapply(e)
  <2>1. {"RollbackSuccess", "RollbackFailure"} \subseteq MigrationStatus
    BY Zenon DEF MigrationStatus
  <2> QED BY <1>0, <1>18, <2>1, UpdateParams, EndUnapply, Zenon
          DEF FinishUnapply, FailUnapply, Return
<1>19. CASE Halt(e)
  BY <1>2, <1>19, Quiet, Zenon DEF Halt, Forget, Applying, Unapplying
<1>20. CASE ReadOnlyCommand(e) \/ (\E t \in Models : WriteRows(t)) \/ UNCHANGED vars
  BY <1>20, SameLedger, Zenon DEF ReadOnlyCommand, WriteRows, vars
<1>21. CASE ReportActive(e)
  BY <1>2, <1>21, Quiet, Zenon DEF ReportActive, Return, Forget, Applying, Unapplying
<1>22. CASE Step(e)
  BY <1>21, <1>3, <1>7, <1>8, <1>9, <1>10, <1>11, <1>12, <1>13, <1>14, <1>15, <1>16, <1>17,
     <1>18, <1>19, <1>22, Zenon DEF Step, Panic
<1>23. CASE Request(e)
  BY <1>4, <1>5, <1>6, <1>19, <1>20, <1>23, Zenon DEF Request, RequestPanics
<1>24. CASE Crash(e)
  BY <1>19, <1>24, Zenon DEF Crash
<1>25. Next => (Start(e) \/ Request(e) \/ Step(e) \/ Crash(e) \/ \E t \in Models : WriteRows(t))
  BY Zenon DEF Next
<1> QED BY <1>3, <1>20, <1>22, <1>23, <1>24, <1>25, Zenon

\* It implies that the ledger matches the database.
LEMMA LedgerInvSuffices ==
    ASSUME NEW e, Engines = {e}, TypeInv, LedgerInv
    PROVE  LedgerMatchesDatabase
<1> SUFFICES ASSUME AtRest
             PROVE  IF Successes = {}
                      THEN NoResidueAfter(0) => schema = base
                      ELSE NoResidueAfter(Latest(Successes).revision)
                              => schema = CurrentDatamodel
  BY Zenon DEF LedgerMatchesDatabase
<1>1. Says(migrations, base, serial + 1, schema)
  BY StopAnywhere, Zenon
<1>2. \A m \in migrations : m.revision \in Nat /\ m.revision < serial + 1
  BY RevisionTypes
<1>3. \A m \in migrations : m.status \in MigrationStatus
  BY Zenon DEF TypeInv, TypeOK, Migration
<1>4. \A m \in migrations : Matters(m) => Residue(m) \/ m \in Successes
  BY <1>3, Zenon DEF Matters, Residue, Successes, MigrationStatus
<1>5. CASE Successes = {}
  BY <1>1, <1>2, <1>4, <1>5 DEF NoResidueAfter, Says
<1>6. CASE Successes # {}
  <2> DEFINE m == Latest(Successes)
  <2>1. m \in Successes /\ \A x \in Successes : x.revision <= m.revision
    <3>1. Successes \in SUBSET migrations
      BY Zenon DEF Successes
    <3> QED BY <1>6, <3>1, LatestIsNewest, Zenon DEF TypeInv
  <2>2. CurrentDatamodel = m.datamodel
    BY <1>6, Zenon DEF CurrentDatamodel, DatamodelOf
  <2> HIDE DEF m
  <2>3. m \in migrations /\ m.status = "MigrationSuccess"
    BY <2>1, Zenon DEF Successes
  <2>4. NoResidueAfter(m.revision) => schema = m.datamodel
    BY <1>1, <1>2, <1>4, <2>1, <2>3 DEF NoResidueAfter, Says, Successes
  <2> QED BY <1>6, <2>2, <2>4, Zenon DEF m
<1> QED BY <1>5, <1>6, Zenon

\* With one engine, the live schema is the one the ledger of migrations says it
\* is (MigrationPersistence::current_datamodel) whenever nothing runs: after
\* every history of migrations, rollbacks, resets, failures and crashes.
THEOREM LedgerDescribesDatabase ==
    ASSUME NEW e, Engines = {e}
    PROVE  Spec => []LedgerMatchesDatabase
<1>1. Init => TypeInv /\ LedgerInv
  BY TypeInit, LedgerInit, Zenon
<1>2. (TypeInv /\ LedgerInv) /\ [Next]_vars => (TypeInv /\ LedgerInv)'
  BY TypeStep, LedgerStep, Zenon
<1>3. TypeInv /\ LedgerInv => LedgerMatchesDatabase
  BY LedgerInvSuffices, Zenon
<1> QED BY <1>1, <1>2, <1>3, PTL DEF Spec

\* The statements an engine still has to execute lead towards the goal of its
\* command, whatever the schema is and however many engines there are.
Towards(j) == j.create \subseteq j.to /\ j.drop \cap j.to = {}

Fresh(j) == j.create = {} /\ j.drop = {}

JobInv == \A e \in Engines : Towards(job[e]) /\ (pc[e] = "calculate" => Fresh(job[e]))

\* An engine changes its own job only.
LEMMA JobLocal ==
    ASSUME JobInv, TypeInv, NEW e \in Engines,
           \A d \in Engines \ {e} : pc'[d] = pc[d] /\ job'[d] = job[d],
           Towards(job'[e]), pc'[e] # "calculate" \/ Fresh(job'[e])
    PROVE  JobInv'
<1> SUFFICES ASSUME NEW d \in Engines
             PROVE  Towards(job'[d]) /\ (pc'[d] = "calculate" => Fresh(job'[d]))
  BY Zenon DEF JobInv, Towards, Fresh
<1>1. CASE d = e
  BY <1>1, Zenon
<1>2. CASE d # e
  BY <1>2, Zenon DEF JobInv
<1> QED BY <1>1, <1>2, Zenon

\* No engine has a job at first.
LEMMA JobInit == Init => JobInv
<1> SUFFICES ASSUME Init PROVE JobInv
  BY Zenon
<1>1. NoJob.create = {} /\ NoJob.drop = {}
  BY Zenon DEF NoJob
<1> QED BY <1>1, Zenon DEF Init, JobInv, Towards, Fresh

\* Every step keeps what is known of jobs.
LEMMA JobStep == TypeInv /\ JobInv /\ [Next]_vars => JobInv'
<1> SUFFICES ASSUME TypeInv, JobInv, [Next]_vars
             PROVE  JobInv'
  BY Zenon
<1>0. job \in [Engines -> Job] /\ pc \in [Engines -> {"down", "idle"} \cup Busy]
  BY Zenon DEF TypeInv, TypeOK
<1>1. \A d \in Engines : Towards(job[d]) /\ (pc[d] = "calculate" => Fresh(job[d]))
  BY Zenon DEF JobInv
<1>2. Towards(NoJob) /\ Fresh(NoJob)
  BY Zenon DEF Towards, Fresh, NoJob
<1>3. ASSUME NEW e \in Engines, NEW label, label # "calculate", Goto(e, label), job' = job
      PROVE  JobInv'
  BY <1>0, <1>1, <1>3, JobLocal, Zenon DEF Goto
<1>4. ASSUME NEW e \in Engines, NEW label, Forget(e, label)
      PROVE  JobInv'
  BY <1>0, <1>2, <1>4, JobLocal, Zenon DEF Forget, Goto
<1>5. ASSUME NEW e \in Engines, NEW STATE p, NEW label, label # "calculate",
             Goto(e, label), job' = [job EXCEPT ![e].params = p]
      PROVE  JobInv'
  <2>1. /\ job'[e].create = job[e].create /\ job'[e].drop = job[e].drop
        /\ job'[e].to = job[e].to
    BY <1>0, <1>5, Zenon DEF Job
  <2>2. Towards(job'[e])
    BY <1>1, <2>1, Zenon DEF Towards
  <2> QED BY <1>0, <1>5, <2>2, JobLocal, Zenon DEF Goto
<1>6. ASSUME NEW e \in Engines, NEW record, NEW finish, NEW fail,
             "calculate" \notin {record, finish, fail},
             ExecuteStatement(e, record, finish, fail)
      PROVE  JobInv'
  <2>1. ASSUME NEW t \in Models,
               job' = [job EXCEPT ![e].drop = @ \ {t}, ![e].create = @ \ {t}],
               Goto(e, IF (job[e].drop \cup job[e].create) \ {t} = {} THEN finish ELSE record)
        PROVE  JobInv'
    <3>1. /\ job'[e].create = job[e].create \ {t} /\ job'[e].drop = job[e].drop \ {t}
          /\ job'[e].to = job[e].to
      BY <1>0, <2>1, Zenon DEF Job
    <3>2. Towards(job'[e])
      BY <1>1, <3>1, Zenon DEF Towards
    <3>3. pc'[e] # "calculate" /\ \A d \in Engines \ {e} : pc'[d] = pc[d] /\ job'[d] = job[d]
      BY <1>0, <1>6, <2>1, Zenon DEF Goto
    <3> QED BY <3>2, <3>3, JobLocal, Zenon
  <2>2. \/ Goto(e, finish) /\ job' = job
        \/ \E t \in Models :
              /\ job' = [job EXCEPT ![e].drop = @ \ {t}, ![e].create = @ \ {t}]
              /\ Goto(e, IF (job[e].drop \cup job[e].create) \ {t} = {} THEN finish ELSE record)
        \/ Goto(e, fail) /\ job' = job
    BY <1>6, Zenon DEF ExecuteStatement
  <2>3. finish # "calculate" /\ fail # "calculate"
    BY <1>6, Zenon
  <2>4. CASE job' = job /\ (Goto(e, finish) \/ Goto(e, fail))
    BY <1>3, <2>3, <2>4, Zenon
  <2> QED BY ONLY <2>1, <2>2, <2>4, Zenon
<1>7. ASSUME NEW e \in Engines, CalculateNext(e)
      PROVE  JobInv'
  <2> DEFINE to == Calculate(ApplyBase(job[e].leaving), job[e].steps)
             steps == NoJob.steps
  <2>1. CASE /\ Goto(e, "infer")
             /\ job' = [job EXCEPT ![e].to = to, ![e].steps = steps, ![e].leaving = FALSE]
    <3>0. Fresh(job[e])
      BY <1>1, <1>7, Zenon DEF CalculateNext
    <3> HIDE DEF to, steps
    <3>1. job'[e].create = {} /\ job'[e].drop = {}
      BY <1>0, <2>1, <3>0, Zenon DEF Job, Fresh
    <3>2. Towards(job'[e])
      BY <3>1, Zenon DEF Towards
    <3> QED BY <1>0, <2>1, <3>2, JobLocal, Zenon DEF Goto
  <2>2. CASE Return(e)
    BY <1>4, <2>2, Zenon DEF Return
  <2> QED BY ONLY <1>7, <2>1, <2>2, Zenon DEF CalculateNext
<1>8. ASSUME NEW e \in Engines, InferDatabaseMigration(e)
      PROVE  JobInv'
  <2>1. /\ job'[e].drop = schema \ job[e].to /\ job'[e].create = job[e].to \ schema
        /\ job'[e].to = job[e].to
    BY <1>0, <1>8, Zenon DEF Job, InferDatabaseMigration
  <2>2. Towards(job'[e])
    BY <2>1, Zenon DEF Towards
  <2> QED BY <1>0, <1>8, <2>2, JobLocal, Zenon DEF InferDatabaseMigration, Goto
<1>9. ASSUME NEW e \in Engines, CheckDestructiveChanges(e)
      PROVE  JobInv'
  <2>1. ASSUME Goto(e, "create"), job' = [job EXCEPT ![e].seen = filled]
        PROVE  JobInv'
    <3>1. /\ job'[e].create = job[e].create /\ job'[e].drop = job[e].drop
          /\ job'[e].to = job[e].to
      BY <1>0, <2>1, Zenon DEF Job
    <3>2. Towards(job'[e])
      BY <1>1, <3>1, Zenon DEF Towards
    <3> QED BY <1>0, <2>1, <3>2, JobLocal, Zenon DEF Goto
  <2> QED BY <1>4, <1>9, <2>1, Zenon DEF CheckDestructiveChanges, Return
<1>10. ASSUME NEW e \in Engines, Request(e)
       PROVE  JobInv'
  <2>1. ASSUME NEW name, NEW steps, NEW force, StartApply(e, name, steps, force)
        PROVE  JobInv'
    <3>1. job'[e].create = {} /\ job'[e].drop = {}
      BY <1>0, <2>1, Zenon DEF StartApply, NoJob
    <3>2. Towards(job'[e]) /\ Fresh(job'[e])
      BY <3>1, Zenon DEF Towards, Fresh
    <3> QED BY <1>0, <2>1, <3>2, JobLocal, Zenon DEF StartApply, Goto
  <2>2. ASSUME StartUnapply(e)
        PROVE  JobInv'
    <3> DEFINE m == Latest(Successes)
    <3>1. /\ job'[e].drop = m.datamodel \ m.before /\ job'[e].create = m.before \ m.datamodel
          /\ job'[e].to = m.before
      BY <1>0, <2>2, Zenon DEF StartUnapply, NoJob
    <3> HIDE DEF m
    <3>2. Towards(job'[e])
      BY <3>1, Zenon DEF Towards
    <3> QED BY <1>0, <2>2, <3>2, JobLocal, Zenon DEF StartUnapply, Goto
  <2>3. CASE StartReset(e)
    BY <1>3, <2>3, Zenon DEF StartReset
  <2>4. CASE ReadOnlyCommand(e)
    BY <2>4, Zenon DEF ReadOnlyCommand, vars, JobInv, Towards, Fresh
  <2>5. CASE RequestPanics(e)
    BY <1>4, <2>5, Zenon DEF RequestPanics, Halt
  <2> QED BY <1>10, <2>1, <2>2, <2>3, <2>4, <2>5, Zenon DEF Request
<1>11. ASSUME NEW e \in Engines, Step(e)
       PROVE  JobInv'
  <2>1. CASE CreateMigration(e)
    <3> DEFINE p == [NoParams EXCEPT !.revision = serial + 1]
    <3>1. Goto(e, "start_apply") /\ job' = [job EXCEPT ![e].params = p]
      BY <2>1, Zenon DEF CreateMigration
    <3> QED BY <1>5, <3>1, "start_apply" # "calculate", Zenon
  <2>2. CASE MarkInProgress(e) \/ RecordApplyStep(e) \/ MarkRollingBack(e) \/ RecordUnapplyStep(e)
    BY <1>5, <2>2, Zenon DEF MarkInProgress, RecordApplyStep, MarkRollingBack, RecordUnapplyStep, Advance
  <2>3. CASE \/ FinishApply(e) \/ FailApply(e) \/ FinishUnapply(e) \/ FailUnapply(e)
             \/ ReportActive(e) \/ Panic(e)
    BY <1>4, <2>3, Zenon DEF FinishApply, FailApply, FinishUnapply, FailUnapply, ReportActive,
                      Panic, Halt, Return
  <2>4. CASE ApplyStep(e) \/ UnapplyStep(e)
    BY <1>6, <2>4, Zenon DEF ApplyStep, UnapplyStep
  <2>5. CASE ResetDrop(e) \/ ResetInit(e)
    <3>1. job' = job /\ (Goto(e, "reset_init") \/ Goto(e, "idle"))
      BY <2>5, Zenon DEF ResetDrop, ResetInit
    <3>2. "reset_init" # "calculate" /\ "idle" # "calculate"
      BY Zenon
    <3> QED BY <1>3, <3>1, <3>2, Zenon
  <2> QED BY <1>7, <1>8, <1>9, <1>11, <2>1, <2>2, <2>3, <2>4, <2>5, Zenon DEF Step
<1>12. ASSUME NEW e \in Engines, Start(e) \/ Crash(e)
       PROVE  JobInv'
  BY <1>3, <1>4, <1>12, Zenon DEF Start, Crash, Halt
<1>13. CASE (\E t \in Models : WriteRows(t)) \/ UNCHANGED vars
  BY <1>13, Zenon DEF WriteRows, vars, JobInv, Towards, Fresh
<1> QED BY <1>10, <1>11, <1>12, <1>13, Zenon DEF Next

\* The two properties of steps.
LifecycleStep == [Lifecycle!Next]_(Lifecycle!ledger)

ForwardStep ==
    \A m \in migrations, n \in migrations' :
        (m.revision = n.revision /\ m.status # n.status)
            => n.status \in Successors(m.status)

\* Most steps change neither a row nor the schema.
LEMMA NoRowStep ==
    ASSUME UniqueRevisions, UNCHANGED <<migrations, serial, schema>>
    PROVE  LifecycleStep /\ ForwardStep
<1>1. ForwardStep
  BY Zenon DEF UniqueRevisions, ForwardStep
<1>2. Rows' = Rows
  BY Zenon DEF Rows, Row
<1> QED BY <1>1, <1>2, Zenon DEF LifecycleStep, Lifecycle!ledger

\* An update moves the row of its engine.
LEMMA RowStep ==
    ASSUME TypeInv, UniqueRevisions, NEW e \in Engines, NEW m \in migrations,
           Own(job[e], m), NEW p \in MigrationUpdateParams,
           p.revision = job[e].params.revision, Persist(e, p),
           p.status # m.status => p.status \in Successors(m.status),
           p.status = "MigrationSuccess" => schema = m.datamodel,
           p.status = "RollbackSuccess" /\ NothingAfter(m.revision) => schema = m.before
    PROVE  LifecycleStep /\ ForwardStep
<1>1. PICK n : /\ migrations' = (migrations \ {m}) \cup {n}
               /\ n.revision = m.revision /\ n.datamodel = m.datamodel
               /\ n.before = m.before /\ n.status = p.status
  BY UpdateOwn, SMTT(60)
<1>2. UNCHANGED <<schema, serial>>
  BY Zenon DEF Persist
<1>3. ForwardStep
  BY <1>1, SMTT(60) DEF ForwardStep, UniqueRevisions
<1>4. /\ Row(m) \in Rows
      /\ Row(n) = [Row(m) EXCEPT !.status = p.status]
      /\ Row(m).status = m.status /\ Row(m).revision = m.revision
      /\ Row(m).datamodel = m.datamodel /\ Row(m).before = m.before
  BY <1>1 DEF Rows, Row
<1>5. Rows' = (Rows \ {Row(m)}) \cup {Row(n)}
  <2>1. \A x \in migrations \ {m} : Row(x) # Row(m)
    BY Zenon DEF UniqueRevisions, Row
  <2>2. Rows' = {Row(x) : x \in migrations'}
    BY Zenon DEF Rows, Row
  <2> QED BY <1>1, <2>1, <2>2, Zenon DEF Rows
<1>6. CASE p.status = m.status
  <2>1. Row(n) = Row(m)
    BY <1>1, <1>6, Zenon DEF Row
  <2> QED BY <1>2, <1>3, <1>4, <1>5, <2>1, Zenon DEF LifecycleStep, Lifecycle!ledger
<1>7. CASE p.status # m.status
  <2>1. Lifecycle!IsNewest(Row(m)) => NothingAfter(m.revision)
    <3> SUFFICES ASSUME Lifecycle!IsNewest(Row(m)), NEW x \in migrations,
                        m.revision < x.revision
                 PROVE  ~Matters(x)
      BY Zenon DEF NothingAfter
    <3>1. Row(x) \in Rows /\ Row(x).revision = x.revision /\ Row(x).status = x.status
      BY Zenon DEF Rows, Row
    <3> QED BY <1>4, <3>1, Zenon DEF Lifecycle!IsNewest, Lifecycle!Counts, Matters
  <2>2. Lifecycle!Move(Row(m), p.status)
    BY <1>2, <1>4, <1>5, <2>1, Zenon DEF Lifecycle!Move
  <2>3. p.status \in Lifecycle!Successors(Row(m).status)
    BY <1>4, <1>7, Zenon DEF Successors
  <2> QED BY <1>3, <1>4, <2>2, <2>3, Zenon DEF LifecycleStep, Lifecycle!Next
<1> QED BY <1>6, <1>7, Zenon

\* A statement moves one table towards the goal of the command.
LEMMA StatementStep ==
    ASSUME NEW e \in Engines, NEW record, NEW finish, NEW fail, Towards(job[e]),
           ExecuteStatement(e, record, finish, fail)
    PROVE  \/ schema' = schema
           \/ \E t \in schema \ job[e].to : schema' = schema \ {t}
           \/ \E t \in job[e].to \ schema : schema' = schema \cup {t}
<1> DEFINE j == job[e]
<1>1. ASSUME NEW t \in Models, NextStatement(j, t), Succeeds(j, t),
             schema' = IF t \in j.drop THEN schema \ {t} ELSE schema \cup {t}
      PROVE  \/ \E x \in schema \ j.to : schema' = schema \ {x}
             \/ \E x \in j.to \ schema : schema' = schema \cup {x}
  <2>1. CASE t \in j.drop
    <3>1. t \in schema \ j.to
      BY <2>1, <1>1, Zenon DEF Towards, NextStatement, Succeeds
    <3> QED BY <1>1, <2>1, <3>1, Zenon
  <2>2. CASE t \notin j.drop
    <3>1. t \in j.to \ schema
      BY <2>2, <1>1, Zenon DEF Towards, NextStatement, Succeeds
    <3> QED BY <1>1, <2>2, <3>1, Zenon
  <2> QED BY <2>1, <2>2, Zenon
<1>2. \/ schema' = schema
      \/ \E t \in Models :
            /\ NextStatement(j, t) /\ Succeeds(j, t)
            /\ schema' = IF t \in j.drop THEN schema \ {t} ELSE schema \cup {t}
  BY Zenon DEF ExecuteStatement
<1> QED BY <1>1, <1>2, Zenon

\* So does a migration, and the row of the migration names the goal.
LEMMA ChangeStep ==
    ASSUME UniqueRevisions, NEW e \in Engines, NEW record, NEW finish, NEW fail,
           Towards(job[e]), ExecuteStatement(e, record, finish, fail),
           UNCHANGED <<migrations, serial>>, NEW m \in migrations,
           \/ m.status = "MigrationInProgress" /\ m.datamodel = job[e].to
           \/ m.status = "RollingBack" /\ m.before = job[e].to
    PROVE  LifecycleStep /\ ForwardStep
<1>1. ForwardStep
  BY Zenon DEF ForwardStep, UniqueRevisions
<1>2. Rows' = Rows /\ Row(m) \in Rows
  BY Zenon DEF Rows, Row
<1>3. /\ Lifecycle!Goal(Row(m)) = job[e].to
      /\ Row(m).status \in {"MigrationInProgress", "RollingBack"}
  BY Zenon DEF Lifecycle!Goal, Row
<1>4. CASE schema' = schema
  BY <1>1, <1>2, <1>4, Zenon DEF LifecycleStep, Lifecycle!ledger
<1>5. CASE \/ \E t \in schema \ job[e].to : schema' = schema \ {t}
           \/ \E t \in job[e].to \ schema : schema' = schema \cup {t}
  <2>1. Lifecycle!Change(Row(m))
    BY <1>2, <1>3, <1>5, Zenon DEF Lifecycle!Change
  <2> QED BY <1>1, <1>2, <2>1, Zenon DEF LifecycleStep, Lifecycle!Next
<1> QED BY <1>4, <1>5, StatementStep, Zenon

\* A reset forgets the rows.
LEMMA ResetStep ==
    ASSUME migrations' = {},
           UNCHANGED <<serial, schema>> \/ (serial' = 0 /\ schema' = {})
    PROVE  LifecycleStep /\ ForwardStep
<1>1. ForwardStep
  BY Zenon DEF ForwardStep
<1>2. Rows' = {}
  BY Zenon DEF Rows
<1>3. Lifecycle!Clear \/ Lifecycle!Drop
  BY <1>2, Zenon DEF Lifecycle!Clear, Lifecycle!Drop
<1> QED BY <1>1, <1>3, Zenon DEF LifecycleStep, Lifecycle!Next

\* Every step of one engine respects the order of the states of a migration.
LEMMA ActionStep ==
    ASSUME NEW e, Engines = {e}, TypeInv, LedgerInv, JobInv, [Next]_vars
    PROVE  LifecycleStep /\ ForwardStep
<1>0. e \in Engines
  BY Zenon
<1>inv. UniqueRevisions /\ PrepareInv(e) /\ ApplyInv(e) /\ UnapplyInv(e)
  BY OneEngine, Zenon
<1>job. Towards(job[e])
  BY <1>0, Zenon DEF JobInv
<1>1. CASE UNCHANGED <<migrations, serial, schema>>
  BY <1>inv, <1>1, NoRowStep, Zenon
<1>2. CASE CreateMigration(e)
  <2> DEFINE p == [NoParams EXCEPT !.revision = serial + 1]
             n == [name |-> job[e].name, revision |-> p.revision, status |-> p.status,
                   applied |-> p.applied, rolled_back |-> p.rolled_back,
                   finished |-> p.finished,
                   datamodel |-> job[e].to, before |-> job[e].from]
  <2>0. p.revision = serial + 1 /\ p.status = "Pending"
    BY Zenon DEF NoParams
  <2>1. /\ migrations' = migrations \cup {n} /\ serial' = serial + 1 /\ schema' = schema
        /\ n.revision = serial + 1 /\ n.status = "Pending"
        /\ n.datamodel = job[e].to /\ n.before = job[e].from
    BY <1>2, <2>0, Zenon DEF CreateMigration
  <2> HIDE DEF n
  <2>2. ForwardStep
    BY <1>inv, <2>1, RevisionTypes, SMTT(60) DEF ForwardStep, UniqueRevisions
  <2>3. job[e].from = schema /\ job[e].to \in SUBSET Models
    BY <1>0, <1>2, <1>inv, Zenon DEF CreateMigration, PrepareInv, TypeInv, TypeOK, Job, Datamodels
  <2>4. Rows' = Rows \cup {Row(n)}
    <3>1. Rows' = {Row(x) : x \in migrations'}
      BY Zenon DEF Rows, Row
    <3> QED BY <2>1, <3>1, Zenon DEF Rows
  <2>5. Row(n) = [revision |-> serial + 1, status |-> "Pending",
                  datamodel |-> job[e].to, before |-> schema]
    BY <2>1, <2>3, Zenon DEF Row
  <2>6. Lifecycle!Announce
    BY <2>1, <2>3, <2>4, <2>5, Zenon DEF Lifecycle!Announce
  <2> QED BY <2>2, <2>6, Zenon DEF LifecycleStep, Lifecycle!Next
<1>3. ASSUME pc[e] \in Applying
      PROVE  \E m \in migrations :
                /\ Own(job[e], m) /\ m.datamodel = job[e].to
                /\ m.status = job[e].params.status
                /\ m.status = IF pc[e] = "start_apply" THEN "Pending"
                                                       ELSE "MigrationInProgress"
  <2>1. ApplyInv(e)
    BY <1>inv, Zenon
  <2>2. /\ job[e].params.status = IF pc[e] = "start_apply" THEN "Pending"
                                                           ELSE "MigrationInProgress"
        /\ \E m \in migrations : Own(job[e], m) /\ m.datamodel = job[e].to
    BY ONLY <1>3, <2>1, Zenon DEF ApplyInv
  <2> QED BY ONLY <2>2, Zenon DEF Own
<1>4. ASSUME pc[e] \in Unapplying
      PROVE  \E m \in migrations :
                /\ Own(job[e], m) /\ m.before = job[e].to
                /\ m.status = job[e].params.status
                /\ m.status = IF pc[e] = "start_unapply" THEN "MigrationSuccess"
                                                         ELSE "RollingBack"
  <2>1. UnapplyInv(e)
    BY <1>inv, Zenon
  <2>2. /\ job[e].params.status = IF pc[e] = "start_unapply" THEN "MigrationSuccess"
                                                             ELSE "RollingBack"
        /\ \E m \in migrations : Own(job[e], m) /\ m.before = job[e].to
    BY ONLY <1>4, <2>1, Zenon DEF UnapplyInv
  <2> QED BY ONLY <2>2, Zenon DEF Own
<1>5. {"MigrationInProgress", "MigrationSuccess", "MigrationFailure",
       "RollingBack", "RollbackSuccess", "RollbackFailure"} \subseteq MigrationStatus
  BY Zenon DEF MigrationStatus
<1>7. CASE MarkInProgress(e)
  <2> DEFINE p == [job[e].params EXCEPT !.status = "MigrationInProgress"]
  <2>1. PICK m \in migrations : Own(job[e], m) /\ m.status = "Pending"
    BY <1>3, <1>7, Zenon DEF MarkInProgress, Applying
  <2>2. /\ p \in MigrationUpdateParams /\ p.revision = job[e].params.revision
        /\ p.status = "MigrationInProgress"
    BY <1>0, <1>5, UpdateParams, Zenon
  <2>3. Persist(e, p)
    BY <1>7, Zenon DEF MarkInProgress, Advance
  <2>4. p.status \in Successors(m.status)
    BY <2>1, <2>2 DEF Successors, Lifecycle!Successors
  <2> HIDE DEF p
  <2> QED BY <1>0, <1>inv, <2>1, <2>2, <2>3, <2>4, RowStep, Zenon
<1>8. CASE RecordApplyStep(e)
  <2> DEFINE p == [job[e].params EXCEPT !.applied = @ + 1]
  <2>1. PICK m \in migrations : /\ Own(job[e], m) /\ m.status = "MigrationInProgress"
                                /\ m.status = job[e].params.status
    BY <1>3, <1>8, Zenon DEF RecordApplyStep, Applying
  <2>2. /\ p \in MigrationUpdateParams /\ p.revision = job[e].params.revision
        /\ p.status = job[e].params.status
    BY <1>0, <1>5, UpdateParams, Zenon
  <2>3. Persist(e, p)
    BY <1>8, Zenon DEF RecordApplyStep, Advance
  <2> HIDE DEF p
  <2> QED BY <1>0, <1>inv, <2>1, <2>2, <2>3, RowStep, Zenon
<1>9. CASE FinishApply(e)
  <2> DEFINE p == [job[e].params EXCEPT !.status = "MigrationSuccess", !.finished = TRUE]
  <2>1. PICK m \in migrations : /\ Own(job[e], m) /\ m.status = "MigrationInProgress"
                                /\ m.datamodel = job[e].to
    BY <1>3, <1>9, Zenon DEF FinishApply, Applying
  <2>2. /\ p \in MigrationUpdateParams /\ p.revision = job[e].params.revision
        /\ p.status = "MigrationSuccess"
    BY <1>0, <1>5, UpdateParams, Zenon
  <2>3. Persist(e, p)
    BY <1>9, Zenon DEF FinishApply
  <2>4. p.status \in Successors(m.status)
    BY <2>1, <2>2 DEF Successors, Lifecycle!Successors
  <2>5. schema = m.datamodel
    BY <1>inv, <1>9, <2>1, Zenon DEF ApplyInv, FinishApply, Applying
  <2> HIDE DEF p
  <2> QED BY <1>0, <1>inv, <2>1, <2>2, <2>3, <2>4, <2>5, RowStep, Zenon
<1>10. CASE FailApply(e)
  <2> DEFINE p == [job[e].params EXCEPT !.status = "MigrationFailure"]
  <2>1. PICK m \in migrations : Own(job[e], m) /\ m.status = "MigrationInProgress"
    BY <1>3, <1>10, Zenon DEF FailApply, Applying
  <2>2. /\ p \in MigrationUpdateParams /\ p.revision = job[e].params.revision
        /\ p.status = "MigrationFailure"
    BY <1>0, <1>5, UpdateParams, Zenon
  <2>3. Persist(e, p)
    BY <1>10, Zenon DEF FailApply
  <2>4. p.status \in Successors(m.status)
    BY <2>1, <2>2 DEF Successors, Lifecycle!Successors
  <2> HIDE DEF p
  <2> QED BY <1>0, <1>inv, <2>1, <2>2, <2>3, <2>4, RowStep, Zenon
<1>11. CASE MarkRollingBack(e)
  <2> DEFINE p == [job[e].params EXCEPT !.status = "RollingBack"]
  <2>1. PICK m \in migrations : Own(job[e], m) /\ m.status = "MigrationSuccess"
    BY <1>4, <1>11, Zenon DEF MarkRollingBack, Unapplying
  <2>2. /\ p \in MigrationUpdateParams /\ p.revision = job[e].params.revision
        /\ p.status = "RollingBack"
    BY <1>0, <1>5, UpdateParams, Zenon
  <2>3. Persist(e, p)
    BY <1>11, Zenon DEF MarkRollingBack, Advance
  <2>4. p.status \in Successors(m.status)
    BY <2>1, <2>2 DEF Successors, Lifecycle!Successors
  <2> HIDE DEF p
  <2> QED BY <1>0, <1>inv, <2>1, <2>2, <2>3, <2>4, RowStep, Zenon
<1>12. CASE RecordUnapplyStep(e)
  <2> DEFINE p == [job[e].params EXCEPT !.rolled_back = @ + 1]
  <2>1. PICK m \in migrations : /\ Own(job[e], m) /\ m.status = "RollingBack"
                                /\ m.status = job[e].params.status
    BY <1>4, <1>12, Zenon DEF RecordUnapplyStep, Unapplying
  <2>2. /\ p \in MigrationUpdateParams /\ p.revision = job[e].params.revision
        /\ p.status = job[e].params.status
    BY <1>0, <1>5, UpdateParams, Zenon
  <2>3. Persist(e, p)
    BY <1>12, Zenon DEF RecordUnapplyStep, Advance
  <2> HIDE DEF p
  <2> QED BY <1>0, <1>inv, <2>1, <2>2, <2>3, RowStep, Zenon
<1>13. CASE FinishUnapply(e)
  <2> DEFINE p == [job[e].params EXCEPT !.status = "RollbackSuccess"]
  <2>1. PICK m \in migrations : Own(job[e], m) /\ m.status = "RollingBack"
                              /\ m.before = job[e].to
    BY <1>4, <1>13, Zenon DEF FinishUnapply, Unapplying
  <2>2. /\ p \in MigrationUpdateParams /\ p.revision = job[e].params.revision
        /\ p.status = "RollbackSuccess"
    BY <1>0, <1>5, UpdateParams, Zenon
  <2>3. Persist(e, p)
    BY <1>13, Zenon DEF FinishUnapply
  <2>4. p.status \in Successors(m.status)
    BY <2>1, <2>2 DEF Successors, Lifecycle!Successors
  <2>5. NothingAfter(m.revision) => schema = m.before
    BY <1>inv, <1>13, <2>1, Zenon DEF UnapplyInv, FinishUnapply, Unapplying, Own
  <2> HIDE DEF p
  <2> QED BY <1>0, <1>inv, <2>1, <2>2, <2>3, <2>4, <2>5, RowStep, Zenon
<1>14. CASE FailUnapply(e)
  <2> DEFINE p == [job[e].params EXCEPT !.status = "RollbackFailure"]
  <2>1. PICK m \in migrations : Own(job[e], m) /\ m.status = "RollingBack"
    BY <1>4, <1>14, Zenon DEF FailUnapply, Unapplying
  <2>2. /\ p \in MigrationUpdateParams /\ p.revision = job[e].params.revision
        /\ p.status = "RollbackFailure"
    BY <1>0, <1>5, UpdateParams, Zenon
  <2>3. Persist(e, p)
    BY <1>14, Zenon DEF FailUnapply
  <2>4. p.status \in Successors(m.status)
    BY <2>1, <2>2 DEF Successors, Lifecycle!Successors
  <2> HIDE DEF p
  <2> QED BY <1>0, <1>inv, <2>1, <2>2, <2>3, <2>4, RowStep, Zenon
<1>15. CASE ApplyStep(e)
  <2>1. PICK m \in migrations : m.status = "MigrationInProgress" /\ m.datamodel = job[e].to
    BY <1>3, <1>15, Zenon DEF ApplyStep, Applying
  <2>2. /\ ExecuteStatement(e, "record_apply", "finish_apply", "fail_apply")
        /\ UNCHANGED <<migrations, serial>>
    BY <1>15, Zenon DEF ApplyStep
  <2> QED BY <1>0, <1>inv, <1>job, <2>1, <2>2, ChangeStep, Zenon
<1>16. CASE UnapplyStep(e)
  <2>1. PICK m \in migrations : m.status = "RollingBack" /\ m.before = job[e].to
    BY <1>4, <1>16, Zenon DEF UnapplyStep, Unapplying
  <2>2. /\ ExecuteStatement(e, "record_unapply", "finish_unapply", "fail_unapply")
        /\ UNCHANGED <<migrations, serial>>
    BY <1>16, Zenon DEF UnapplyStep
  <2> QED BY <1>0, <1>inv, <1>job, <2>1, <2>2, ChangeStep, Zenon
<1>17. CASE StartReset(e) \/ ResetDrop(e)
  <2>1. \/ UNCHANGED <<migrations, serial, schema>>
        \/ migrations' = {} /\ (UNCHANGED <<serial, schema>> \/ (serial' = 0 /\ schema' = {}))
    BY <1>17, Zenon DEF StartReset, ResetDrop
  <2> QED BY <1>1, <2>1, ResetStep, Zenon
<1>18. CASE Step(e)
  <2>1. CASE \/ CalculateNext(e) \/ InferDatabaseMigration(e) \/ CheckDestructiveChanges(e)
             \/ ReportActive(e) \/ ResetInit(e) \/ Panic(e)
    BY <1>1, <2>1, Zenon DEF CalculateNext, InferDatabaseMigration, CheckDestructiveChanges,
                      ReportActive, ResetInit, Panic, Halt
  <2> QED BY <1>2, <1>7, <1>8, <1>9, <1>10, <1>11, <1>12, <1>13, <1>14, <1>15, <1>16,
             <1>17, <1>18, <2>1, Zenon
          DEF Step
<1>19. CASE Start(e) \/ Request(e) \/ Crash(e)
  <2>1. CASE Start(e) \/ Crash(e)
    BY <1>1, <2>1, Zenon DEF Start, Crash, Halt
  <2>2. CASE Request(e)
    <3>1. CASE \E name \in Names, steps \in DatamodelSteps, force \in BOOLEAN :
                  StartApply(e, name, steps, force)
      BY <1>1, <3>1, Zenon DEF StartApply
    <3>2. CASE StartUnapply(e)
      BY <1>1, <3>2, Zenon DEF StartUnapply
    <3>3. CASE ReadOnlyCommand(e) \/ RequestPanics(e)
      BY <1>1, <3>3, Zenon DEF ReadOnlyCommand, RequestPanics, Halt, vars
    <3> QED BY <1>17, <2>2, <3>1, <3>2, <3>3, Zenon DEF Request
  <2> QED BY <1>19, <2>1, <2>2, Zenon
<1>20. CASE (\E t \in Models : WriteRows(t)) \/ UNCHANGED vars
  BY <1>1, <1>20, Zenon DEF WriteRows, vars
<1>21. Next => (Start(e) \/ Request(e) \/ Step(e) \/ Crash(e) \/ \E t \in Models : WriteRows(t))
  BY Zenon DEF Next
<1> QED BY <1>18, <1>19, <1>20, <1>21, Zenon

\* With one engine the migration engine implements the life of a migration
\* (MigrationLifecycle): MigrationApplierImpl changes the schema only towards a
\* goal the ledger has recorded, and records success only when it is reached,
\* whatever an earlier failure, crash or rollback has left behind.
THEOREM LifecycleIsImplemented ==
    ASSUME NEW e, Engines = {e}
    PROVE  Spec => LifecycleImplemented
<1>1. Init => TypeInv /\ LedgerInv /\ JobInv
  BY TypeInit, LedgerInit, JobInit, Zenon
<1>2. (TypeInv /\ LedgerInv /\ JobInv) /\ [Next]_vars => (TypeInv /\ LedgerInv /\ JobInv)'
  BY TypeStep, LedgerStep, JobStep, Zenon
<1>3. Init => Lifecycle!Init
  BY Zenon DEF Init, Lifecycle!Init, Rows, Datamodels
<1>4. (TypeInv /\ LedgerInv /\ JobInv) /\ [Next]_vars => [Lifecycle!Next]_(Lifecycle!ledger)
  BY ActionStep, Zenon DEF LifecycleStep
<1> QED BY <1>1, <1>2, <1>3, <1>4, PTL DEF Spec, LifecycleImplemented, Lifecycle!Spec

\* The assertions of MigrationApplierImpl hold of the persisted rows too when
\* one engine runs: a status only moves forward, and rollback follows success.
THEOREM StatusOnlyMovesForward ==
    ASSUME NEW e, Engines = {e}
    PROVE  Spec => StatusMovesForward
<1>1. Init => TypeInv /\ LedgerInv /\ JobInv
  BY TypeInit, LedgerInit, JobInit, Zenon
<1>2. (TypeInv /\ LedgerInv /\ JobInv) /\ [Next]_vars => (TypeInv /\ LedgerInv /\ JobInv)'
  BY TypeStep, LedgerStep, JobStep, Zenon
<1>3. (TypeInv /\ LedgerInv /\ JobInv) /\ [Next]_vars => [ForwardStep]_vars
  BY ActionStep, Zenon
<1> QED BY <1>1, <1>2, <1>3, PTL DEF Spec, StatusMovesForward, ForwardStep

=============================================================================
