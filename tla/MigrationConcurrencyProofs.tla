--------------------- MODULE MigrationConcurrencyProofs ---------------------
(***************************************************************************)
(* Any number of engines may apply migrations to one database at once, as  *)
(* long as none rolls back or resets: proofs that each drives a row of its *)
(* own (OneDriver), that the status of every row moves forward             *)
(* (StatusMovesForward) and that the progress of a migration adds up       *)
(* (ProgressIsComplete, also for one engine with every command), for every *)
(* workload, all faults and every set of models and migration ids.         *)
(***************************************************************************)
EXTENDS MigrationEngineProofs, FiniteSetTheorems


-----------------------------------------------------------------------------
(* The inductive invariant.                                                *)

\* An engine that applies a migration finds its row as it has left it.
DrivesItsRow(e) ==
    /\ pc[e] \notin Unapplying \cup Resetting \cup {"report"}
    /\ pc[e] \in Applying =>
          /\ job[e].params.status = IF pc[e] = "start_apply" THEN "Pending"
                                                             ELSE "MigrationInProgress"
          /\ \E m \in migrations : Own(job[e], m)

DriversInv == OneDriver /\ \A e \in Engines : DrivesItsRow(e)

\* OneDriver without its second half.
LEMMA DriversUnique == OneDriver => UniqueRevisions
BY Zenon DEF OneDriver, UniqueRevisions

-----------------------------------------------------------------------------
(* The steps of an engine.                                                 *)

\* What a step of e does not touch.
Alone(e) == \A d \in Engines \ {e} : pc'[d] = pc[d] /\ job'[d] = job[d]

\* A step that leaves the ledger alone and e without a row, or with its own.
LEMMA QuietDriver ==
    ASSUME TypeInv, DriversInv, NEW e \in Engines, Alone(e), UNCHANGED migrations,
           pc'[e] \notin Unapplying \cup Resetting \cup {"report"},
           pc'[e] \in Applying =>
              /\ pc[e] \in Applying
              /\ (pc[e] = "start_apply") = (pc'[e] = "start_apply")
              /\ job'[e].params = job[e].params /\ job'[e].name = job[e].name
    PROVE  DriversInv' /\ ForwardStep
<1>1. ForwardStep
  BY Zenon DEF DriversInv, OneDriver, ForwardStep
<1>2. ASSUME NEW d \in Engines, pc'[d] \in Applying \cup Unapplying
      PROVE  /\ pc[d] \in Applying /\ (pc[d] = "start_apply") = (pc'[d] = "start_apply")
             /\ job'[d].params = job[d].params /\ job'[d].name = job[d].name
  <2>1. CASE d = e
    BY <1>2, <2>1, Zenon
  <2>2. CASE d # e
    BY <1>2, <2>2, Zenon DEF Alone, DriversInv, DrivesItsRow
  <2> QED BY <2>1, <2>2, Zenon
<1>3. OneDriver'
  BY <1>2, Zenon DEF DriversInv, OneDriver
<1>4. ASSUME NEW d \in Engines
      PROVE  DrivesItsRow(d)'
  <2>1. pc'[d] \notin Unapplying \cup Resetting \cup {"report"}
    BY Zenon DEF Alone, DriversInv, DrivesItsRow
  <2>2. DrivesItsRow(d)
    BY Zenon DEF DriversInv
  <2> QED BY <1>2, <2>1, <2>2, Zenon DEF DrivesItsRow, Own
<1> QED BY <1>1, <1>3, <1>4, Zenon DEF DriversInv

\* A new row has a revision that no engine drives.
LEMMA CreateDriver ==
    ASSUME TypeInv, DriversInv, NEW e \in Engines, CreateMigration(e)
    PROVE  DriversInv' /\ ForwardStep
<1> DEFINE p == [NoParams EXCEPT !.revision = serial + 1]
           n == [name |-> job[e].name, revision |-> p.revision, status |-> p.status,
                 applied |-> p.applied, rolled_back |-> p.rolled_back,
                 finished |-> p.finished,
                 datamodel |-> job[e].to, before |-> job[e].from]
<1>0. job \in [Engines -> Job] /\ pc \in [Engines -> {"down", "idle"} \cup Busy]
  BY Zenon DEF TypeInv, TypeOK
<1>1. p.revision = serial + 1 /\ p.status = "Pending"
  BY Zenon DEF NoParams
<1>2. /\ migrations' = migrations \cup {n}
      /\ n.revision = serial + 1 /\ n.status = "Pending" /\ n.name = job[e].name
  BY <1>1, Zenon DEF CreateMigration
<1>3. /\ Alone(e) /\ pc'[e] = "start_apply"
      /\ job'[e].params = p /\ job'[e].name = job[e].name
  BY <1>0, Zenon DEF CreateMigration, Goto, Alone, Job
<1>4. Own(job'[e], n)
  BY <1>1, <1>2, <1>3, Zenon DEF Own
<1> HIDE DEF n, p
<1>5. \A m \in migrations : m.revision # n.revision
  BY <1>2, RevisionTypes
<1>6. ForwardStep
  BY <1>2, <1>5, Zenon DEF DriversInv, OneDriver, ForwardStep
<1>7. ASSUME NEW d \in Engines \ {e}, pc'[d] \in Applying \cup Unapplying
      PROVE  pc[d] \in Applying /\ job'[d] = job[d] /\ job[d].params.revision # n.revision
  <2>1. pc[d] \in Applying /\ job'[d] = job[d] /\ DrivesItsRow(d)
    BY <1>3, <1>7, Zenon DEF Alone, DriversInv, DrivesItsRow
  <2> QED BY <1>5, <2>1, Zenon DEF DrivesItsRow, Own
<1>8. OneDriver'
  <2>1. \A m, x \in migrations' : m.revision = x.revision => m = x
    BY <1>2, <1>5, Zenon DEF DriversInv, OneDriver
  <2>2. ASSUME NEW c \in Engines, NEW d \in Engines,
               pc'[c] \in Applying \cup Unapplying, pc'[d] \in Applying \cup Unapplying,
               job'[c].params.revision = job'[d].params.revision
        PROVE  c = d
    <3>1. job'[e].params.revision = n.revision
      BY <1>4, Zenon DEF Own
    <3>2. CASE c = e \/ d = e
      BY <1>7, <2>2, <3>1, <3>2, Zenon
    <3>3. CASE c # e /\ d # e
      BY <1>7, <2>2, <3>3, Zenon DEF DriversInv, OneDriver
    <3> QED BY <3>2, <3>3, Zenon
  <2> QED BY <2>1, <2>2, Zenon DEF OneDriver
<1>9. ASSUME NEW d \in Engines
      PROVE  DrivesItsRow(d)'
  <2>1. CASE d = e
    BY <1>1, <1>2, <1>3, <1>4, <2>1, Zenon DEF DrivesItsRow, Applying, Unapplying, Resetting, Own
  <2>2. CASE d # e
    <3>1. DrivesItsRow(d) /\ pc'[d] = pc[d] /\ job'[d] = job[d]
      BY <1>3, <2>2, Zenon DEF DriversInv, Alone
    <3> QED BY <1>2, <3>1, Zenon DEF DrivesItsRow, Own
  <2> QED BY <2>1, <2>2, Zenon
<1> QED BY <1>6, <1>8, <1>9, Zenon DEF DriversInv

\* An update leaves the rows of the other engines alone.
LEMMA UpdateDriver ==
    ASSUME TypeInv, DriversInv, NEW e \in Engines, Alone(e), pc[e] \in Applying,
           NEW p \in MigrationUpdateParams, p.revision = job[e].params.revision,
           Persist(e, p),
           p.status # job[e].params.status => p.status \in Successors(job[e].params.status),
           \/ pc'[e] = "idle"
           \/ /\ pc'[e] = "apply" /\ p.status = "MigrationInProgress"
              /\ job'[e].params = p /\ job'[e].name = job[e].name
    PROVE  DriversInv' /\ ForwardStep
<1>0. OneDriver /\ UniqueRevisions /\ \A d \in Engines : DrivesItsRow(d)
  BY DriversUnique, Zenon DEF DriversInv
<1>1. PICK m \in migrations : Own(job[e], m)
  BY <1>0, Zenon DEF DrivesItsRow
<1>2. PICK n : /\ migrations' = (migrations \ {m}) \cup {n}
               /\ n.revision = m.revision /\ n.name = m.name /\ n.status = p.status
  BY <1>0, <1>1, UpdateOwn
<1>3. ForwardStep
  BY <1>0, <1>1, <1>2 DEF ForwardStep, UniqueRevisions, Own
<1>4. \A x, y \in migrations' : x.revision = y.revision => x = y
  BY <1>0, <1>2 DEF UniqueRevisions
<1>5. ASSUME NEW d \in Engines, pc'[d] \in Applying \cup Unapplying
      PROVE  pc[d] \in Applying /\ job'[d].params.revision = job[d].params.revision
  <2>1. CASE d = e
    BY <1>5, <2>1, Zenon DEF Applying, Unapplying
  <2>2. CASE d # e
    BY <1>0, <1>5, <2>2, Zenon DEF Alone, DrivesItsRow
  <2> QED BY <2>1, <2>2, Zenon
<1>6. OneDriver'
  BY <1>0, <1>4, <1>5, Zenon DEF OneDriver
<1>7. ASSUME NEW d \in Engines
      PROVE  DrivesItsRow(d)'
  <2>1. CASE d = e /\ pc'[e] = "idle"
    BY <2>1, Zenon DEF DrivesItsRow, Applying, Unapplying, Resetting
  <2>2. CASE d = e /\ pc'[e] # "idle"
    <3>1. Own(job'[e], n)
      BY <1>1, <1>2, <2>2, Zenon DEF Own
    <3> QED BY <1>2, <2>2, <3>1, Zenon DEF DrivesItsRow, Applying, Unapplying, Resetting, Own
  <2>3. CASE d # e
    <3>1. DrivesItsRow(d) /\ pc'[d] = pc[d] /\ job'[d] = job[d]
      BY <1>0, <2>3, Zenon DEF Alone
    <3>2. ASSUME pc[d] \in Applying
          PROVE  \E x \in migrations' : Own(job[d], x)
      <4>1. PICK x \in migrations : Own(job[d], x)
        BY <3>1, <3>2, Zenon DEF DrivesItsRow
      <4>2. job[d].params.revision # job[e].params.revision
        BY <1>0, <2>3, <3>2, Zenon DEF OneDriver
      <4>3. x # m
        BY <1>1, <4>1, <4>2, Zenon DEF Own
      <4> QED BY <1>2, <4>1, <4>3, Zenon
    <3> QED BY <3>1, <3>2, Zenon DEF DrivesItsRow, Own
  <2> QED BY <2>1, <2>2, <2>3, Zenon
<1> QED BY <1>3, <1>6, <1>7, Zenon DEF DriversInv

\* An engine that stops, or returns, drives nothing.
LEMMA ForgetDriver ==
    ASSUME TypeInv, DriversInv, NEW e \in Engines, NEW label \in {"idle", "down"},
           Forget(e, label), UNCHANGED migrations
    PROVE  DriversInv' /\ ForwardStep
<1>1. Alone(e) /\ pc'[e] = label
  BY Zenon DEF Forget, Goto, Alone, TypeInv, TypeOK
<1> QED BY <1>1, QuietDriver, Zenon DEF Applying, Unapplying, Resetting

\* Without rollbacks and resets every step keeps one driver for each migration.
LEMMA DriversStep ==
    ASSUME {"unapply", "reset"} \cap Commands = {}, TypeInv, DriversInv, [Next]_vars
    PROVE  DriversInv' /\ ForwardStep
<1>0. job \in [Engines -> Job] /\ pc \in [Engines -> {"down", "idle"} \cup Busy]
  BY Zenon DEF TypeInv, TypeOK
<1>1. \A e \in Engines : DrivesItsRow(e)
  BY Zenon DEF DriversInv
<1>2. {"MigrationInProgress", "MigrationSuccess", "MigrationFailure"} \subseteq MigrationStatus
  BY Zenon DEF MigrationStatus
<1>3. ASSUME NEW e \in Engines, NEW label, Goto(e, label),
             label \notin Applying \cup Unapplying \cup Resetting \cup {"report"},
             \A d \in Engines \ {e} : job'[d] = job[d], UNCHANGED migrations
      PROVE  DriversInv' /\ ForwardStep
  <2>1. Alone(e) /\ pc'[e] = label
    BY <1>0, <1>3, Zenon DEF Goto, Alone
  <2> QED BY <1>3, <2>1, QuietDriver, Zenon
<1>4. ASSUME NEW e \in Engines, Request(e)
      PROVE  DriversInv' /\ ForwardStep
  <2>1. ASSUME NEW name \in Names, NEW steps \in DatamodelSteps, NEW force \in BOOLEAN,
               StartApply(e, name, steps, force)
        PROVE  DriversInv' /\ ForwardStep
    <3>1. /\ Goto(e, "calculate") /\ UNCHANGED migrations
          /\ \A d \in Engines \ {e} : job'[d] = job[d]
      BY <1>0, <2>1, Zenon DEF StartApply
    <3> QED BY <1>3, <3>1, Zenon DEF Applying, Unapplying, Resetting
  <2>2. CASE ReadOnlyCommand(e)
    <3>1. Alone(e) /\ UNCHANGED migrations /\ pc'[e] = "idle"
      BY <2>2, Zenon DEF ReadOnlyCommand, Alone, vars
    <3> QED BY <3>1, QuietDriver, Zenon DEF Applying, Unapplying, Resetting
  <2>3. CASE RequestPanics(e)
    BY <2>3, ForgetDriver, Zenon DEF RequestPanics, Halt
  <2>4. ~StartUnapply(e) /\ ~StartReset(e)
    BY Zenon DEF StartUnapply, StartReset
  <2> QED BY <1>4, <2>1, <2>2, <2>3, <2>4, Zenon DEF Request
<1>5. ASSUME NEW e \in Engines, CalculateNext(e) \/ CheckDestructiveChanges(e)
      PROVE  DriversInv' /\ ForwardStep
  <2>1. UNCHANGED migrations /\ \A d \in Engines \ {e} : job'[d] = job[d]
    BY <1>0, <1>5, Zenon DEF CalculateNext, CheckDestructiveChanges, Return, Forget
  <2>2. Goto(e, "infer") \/ Goto(e, "create") \/ Goto(e, "idle")
    BY <1>5, Zenon DEF CalculateNext, CheckDestructiveChanges, Return, Forget
  <2> QED BY <1>3, <2>1, <2>2, Zenon DEF Applying, Unapplying, Resetting
<1>6. ASSUME NEW e \in Engines, InferDatabaseMigration(e)
      PROVE  DriversInv' /\ ForwardStep
  <2>1. /\ Goto(e, "check") /\ UNCHANGED migrations
        /\ \A d \in Engines \ {e} : job'[d] = job[d]
    BY <1>0, <1>6, Zenon DEF InferDatabaseMigration
  <2> QED BY <1>3, <2>1, Zenon DEF Applying, Unapplying, Resetting
<1>7. ASSUME NEW e \in Engines, ApplyStep(e)
      PROVE  DriversInv' /\ ForwardStep
  <2>1. /\ pc'[e] \in {"record_apply", "finish_apply", "fail_apply"}
        /\ job'[e].params = job[e].params /\ job'[e].name = job[e].name
    BY <1>7, StatementLeads DEF ApplyStep
  <2>2. Alone(e) /\ UNCHANGED migrations /\ pc[e] = "apply"
    BY <1>0, <1>7, Zenon DEF ApplyStep, ExecuteStatement, Goto, Alone
  <2> QED BY <2>1, <2>2, QuietDriver, Zenon DEF Applying, Unapplying, Resetting
<1>8. ASSUME NEW e \in Engines, MarkInProgress(e)
      PROVE  DriversInv' /\ ForwardStep
  <2> DEFINE p == [job[e].params EXCEPT !.status = "MigrationInProgress"]
  <2>1. /\ p \in MigrationUpdateParams /\ p.revision = job[e].params.revision
        /\ p.status = "MigrationInProgress"
    BY <1>2, UpdateParams, Zenon
  <2>2. /\ Persist(e, p) /\ job' = [job EXCEPT ![e].params = p] /\ Goto(e, "apply")
        /\ pc[e] = "start_apply"
    BY <1>8, Zenon DEF MarkInProgress, Advance
  <2> HIDE DEF p
  <2>3. /\ Alone(e) /\ pc'[e] = "apply"
        /\ job'[e].params = p /\ job'[e].name = job[e].name
    BY <1>0, <2>2, Zenon DEF Goto, Alone, Job
  <2>4. job[e].params.status = "Pending" /\ pc[e] \in Applying
    BY <1>1, <2>2, Zenon DEF DrivesItsRow, Applying
  <2>5. p.status \in Successors(job[e].params.status)
    BY <2>1, <2>4, Zenon DEF Successors, Lifecycle!Successors
  <2> QED BY <2>1, <2>2, <2>3, <2>4, <2>5, UpdateDriver, Zenon
<1>9. ASSUME NEW e \in Engines, RecordApplyStep(e)
      PROVE  DriversInv' /\ ForwardStep
  <2> DEFINE p == [job[e].params EXCEPT !.applied = @ + 1]
  <2>1. /\ p \in MigrationUpdateParams /\ p.revision = job[e].params.revision
        /\ p.status = job[e].params.status
    BY <1>2, UpdateParams, Zenon
  <2>2. /\ Persist(e, p) /\ job' = [job EXCEPT ![e].params = p] /\ Goto(e, "apply")
        /\ pc[e] = "record_apply"
    BY <1>9, Zenon DEF RecordApplyStep, Advance
  <2> HIDE DEF p
  <2>3. /\ Alone(e) /\ pc'[e] = "apply"
        /\ job'[e].params = p /\ job'[e].name = job[e].name
    BY <1>0, <2>2, Zenon DEF Goto, Alone, Job
  <2>4. job[e].params.status = "MigrationInProgress" /\ pc[e] \in Applying
    BY <1>1, <2>2, Zenon DEF DrivesItsRow, Applying
  <2> QED BY <2>1, <2>2, <2>3, <2>4, UpdateDriver, Zenon
<1>10. ASSUME NEW e \in Engines, NEW p \in MigrationUpdateParams,
              p.revision = job[e].params.revision,
              p.status \in {"MigrationSuccess", "MigrationFailure"},
              pc[e] \in {"finish_apply", "fail_apply"}, Persist(e, p), Return(e)
       PROVE  DriversInv' /\ ForwardStep
  <2>1. Alone(e) /\ pc'[e] = "idle"
    BY <1>0, <1>10, Zenon DEF Return, Forget, Goto, Alone
  <2>2. job[e].params.status = "MigrationInProgress" /\ pc[e] \in Applying
    BY <1>1, <1>10, Zenon DEF DrivesItsRow, Applying
  <2>3. p.status \in Successors(job[e].params.status)
    BY <1>10, <2>2, Zenon DEF Successors, Lifecycle!Successors
  <2> QED BY <1>10, <2>1, <2>2, <2>3, UpdateDriver, Zenon
<1>11. ASSUME NEW e \in Engines, FinishApply(e)
       PROVE  DriversInv' /\ ForwardStep
  <2> DEFINE p == [job[e].params EXCEPT !.status = "MigrationSuccess", !.finished = TRUE]
  <2>1. /\ p \in MigrationUpdateParams /\ p.revision = job[e].params.revision
        /\ p.status = "MigrationSuccess"
    BY <1>2, UpdateParams, Zenon
  <2>2. Persist(e, p) /\ Return(e) /\ pc[e] = "finish_apply"
    BY <1>11, Zenon DEF FinishApply
  <2> HIDE DEF p
  <2> QED BY <1>10, <2>1, <2>2, Zenon
<1>12. ASSUME NEW e \in Engines, FailApply(e)
       PROVE  DriversInv' /\ ForwardStep
  <2> DEFINE p == [job[e].params EXCEPT !.status = "MigrationFailure"]
  <2>1. /\ p \in MigrationUpdateParams /\ p.revision = job[e].params.revision
        /\ p.status = "MigrationFailure"
    BY <1>2, UpdateParams, Zenon
  <2>2. Persist(e, p) /\ Return(e) /\ pc[e] = "fail_apply"
    BY <1>12, Zenon DEF FailApply
  <2> HIDE DEF p
  <2> QED BY <1>10, <2>1, <2>2, Zenon
<1>13. ASSUME NEW e \in Engines, Step(e)
       PROVE  DriversInv' /\ ForwardStep
  <2>1. CASE Panic(e)
    BY <2>1, ForgetDriver, Zenon DEF Panic, Halt
  <2>2. CASE CreateMigration(e)
    BY <2>2, CreateDriver, Zenon
  <2>3. /\ ~MarkRollingBack(e) /\ ~UnapplyStep(e) /\ ~RecordUnapplyStep(e)
        /\ ~FinishUnapply(e) /\ ~FailUnapply(e) /\ ~ReportActive(e)
        /\ ~ResetDrop(e) /\ ~ResetInit(e)
    BY <1>1, Zenon DEF DrivesItsRow, Unapplying, Resetting, MarkRollingBack, UnapplyStep,
                RecordUnapplyStep, FinishUnapply, FailUnapply, ReportActive, ResetDrop, ResetInit
  <2> QED BY <1>5, <1>6, <1>7, <1>8, <1>9, <1>11, <1>12, <1>13, <2>1, <2>2, <2>3, Zenon DEF Step
<1>14. ASSUME NEW e \in Engines, Start(e)
       PROVE  DriversInv' /\ ForwardStep
  <2>1. Goto(e, "idle") /\ job' = job /\ UNCHANGED migrations
    BY <1>14, Zenon DEF Start
  <2> QED BY <1>3, <2>1, Zenon DEF Applying, Unapplying, Resetting
<1>15. ASSUME NEW e \in Engines, Crash(e)
       PROVE  DriversInv' /\ ForwardStep
  BY <1>15, ForgetDriver, Zenon DEF Crash, Halt
<1>16. CASE (\E t \in Models : WriteRows(t)) \/ UNCHANGED vars
  <2>1. UNCHANGED <<migrations, pc, job>>
    BY <1>16, Zenon DEF WriteRows, vars
  <2>2. ForwardStep
    BY <2>1, Zenon DEF DriversInv, OneDriver, ForwardStep
  <2> QED BY <2>1, <2>2, Zenon DEF DriversInv, OneDriver, DrivesItsRow, Own
<1> QED BY <1>4, <1>13, <1>14, <1>15, <1>16, Zenon DEF Next

\* No migration has a driver at first.
LEMMA DriversInit == Init => DriversInv
<1> SUFFICES ASSUME Init PROVE DriversInv
  BY Zenon
<1>1. \A e \in Engines : pc[e] = "down"
  BY Zenon DEF Init
<1>2. migrations = {}
  BY Zenon DEF Init
<1> QED BY <1>1, <1>2, Zenon DEF DriversInv, OneDriver, DrivesItsRow, Applying, Unapplying, Resetting

-----------------------------------------------------------------------------
(* The theorems.                                                           *)

\* MigrationPersistence::create and ::update with any number of engines that
\* apply migrations, crash and fail at any statement: no two rows share a
\* revision and no two engines drive one row.
THEOREM EveryEngineDrivesItsRow ==
    ASSUME {"unapply", "reset"} \cap Commands = {}
    PROVE  Spec => []OneDriver
<1>1. Init => TypeInv /\ DriversInv
  BY TypeInit, DriversInit, Zenon
<1>2. (TypeInv /\ DriversInv) /\ [Next]_vars => (TypeInv /\ DriversInv)'
  BY TypeStep, DriversStep, Zenon
<1>3. TypeInv /\ DriversInv => OneDriver
  BY Zenon DEF DriversInv
<1> QED BY <1>1, <1>2, <1>3, PTL DEF Spec

\* The assertion of MigrationApplierImpl::apply on the status it starts from,
\* of the persisted rows and for any number of engines that apply migrations:
\* no engine sets back the status of a row, its own or another one's.
THEOREM StatusMovesForwardForAll ==
    ASSUME {"unapply", "reset"} \cap Commands = {}
    PROVE  Spec => StatusMovesForward
<1>1. Init => TypeInv /\ DriversInv
  BY TypeInit, DriversInit, Zenon
<1>2. (TypeInv /\ DriversInv) /\ [Next]_vars => (TypeInv /\ DriversInv)'
  BY TypeStep, DriversStep, Zenon
<1>3. (TypeInv /\ DriversInv) /\ [Next]_vars => [ForwardStep]_vars
  BY DriversStep, Zenon
<1> QED BY <1>1, <1>2, <1>3, PTL DEF Spec, StatusMovesForward, ForwardStep

-----------------------------------------------------------------------------
(* The inductive invariant: what was counted and what is left to execute   *)
(* add up to the statements of the migration.                              *)

Remaining(j) == Cardinality(j.drop) + Cardinality(j.create)

\* The progress of a row, whoever drives it.
RowProgress(m) ==
    /\ m.applied <= Counted(m) /\ m.rolled_back <= Counted(m)
    /\ m.finished => m.applied = Counted(m)
    /\ m.status = "RollbackSuccess" => m.rolled_back = Counted(m)
    /\ m.status \notin {"RollingBack", "RollbackSuccess", "RollbackFailure"}
          => m.rolled_back = 0

\* The counter of a command at a label, of n statements and `left` to execute.
Tally(label, count, left, n) ==
    /\ label \in {"start_apply", "start_unapply"} => count = 0 /\ left = n
    /\ label \in {"apply", "unapply"} => count + left = n /\ (n = 0 \/ left # 0)
    /\ label \in {"record_apply", "record_unapply"} => count + 1 + left = n /\ left # 0
    /\ label \in {"finish_apply", "finish_unapply"} => count = IF n = 0 THEN 0 ELSE n - 1

\* The row m as the engine with job j that applies its migration knows it.
Applies(j, label, m) ==
    /\ Own(j, m) /\ m.datamodel = j.to /\ m.before = j.from
    /\ m.applied = j.params.applied /\ m.rolled_back = j.params.rolled_back
    /\ m.finished = j.params.finished
    /\ ~m.finished /\ m.rolled_back = 0
    /\ m.status \in {"Pending", "MigrationInProgress"}
    /\ Tally(label, m.applied, Remaining(j), StepCount(m))

\* The same of an engine that rolls it back.
Unapplies(j, label, m) ==
    /\ Own(j, m) /\ m.datamodel = j.from /\ m.before = j.to
    /\ m.applied = j.params.applied /\ m.rolled_back = j.params.rolled_back
    /\ m.finished = j.params.finished
    /\ label # "start_unapply" => m.status = "RollingBack"
    /\ Tally(label, m.rolled_back, Remaining(j), StepCount(m))

\* The row m, if an engine at this label drives one.
Driven(j, label, m) ==
    /\ label \in Applying => Applies(j, label, m)
    /\ label \in Unapplying => Unapplies(j, label, m)

\* Before its row is created, a job has all the statements of the migration.
Planned(j) == j.drop = j.from \ j.to /\ j.create = j.to \ j.from

EngineProgress(e) ==
    /\ pc[e] \in {"check", "create"} => Planned(job[e])
    /\ pc[e] \in Applying \cup Unapplying => \E m \in migrations : Driven(job[e], pc[e], m)

ProgressInv ==
    /\ \A m \in migrations : RowProgress(m)
    /\ \A e \in Engines : EngineProgress(e)

-----------------------------------------------------------------------------
(* Counting.                                                               *)

\* Datamodels are finite.
LEMMA FiniteDatamodel ==
    ASSUME NEW S \in Datamodels
    PROVE  IsFiniteSet(S) /\ Cardinality(S) \in Nat
<1>1. IsFiniteSet(S)
  BY ConstantsAssumption, FS_Subset, Zenon DEF Datamodels
<1> QED BY <1>1, FS_CardinalityType, Zenon

\* The number of steps of a migration.
LEMMA StepCountType ==
    ASSUME NEW m, m.datamodel \in Datamodels, m.before \in Datamodels
    PROVE  StepCount(m) \in Nat /\ Counted(m) \in Nat
<1>1. m.datamodel \ m.before \in Datamodels /\ m.before \ m.datamodel \in Datamodels
  BY Zenon DEF Datamodels
<1>2. StepCount(m) \in Nat
  <2>1. /\ Cardinality(m.datamodel \ m.before) \in Nat
        /\ Cardinality(m.before \ m.datamodel) \in Nat
    BY <1>1, FiniteDatamodel, Zenon
  <2> QED BY <2>1 DEF StepCount
<1> QED BY <1>2 DEF Counted

\* The number of steps that remain.
LEMMA RemainingType ==
    ASSUME NEW j, j.drop \in Datamodels, j.create \in Datamodels
    PROVE  Remaining(j) \in Nat /\ (Remaining(j) = 0 <=> j.drop \cup j.create = {})
<1>1. /\ IsFiniteSet(j.drop) /\ Cardinality(j.drop) \in Nat
      /\ IsFiniteSet(j.create) /\ Cardinality(j.create) \in Nat
  BY FiniteDatamodel, Zenon
<1>2. (Cardinality(j.drop) = 0 <=> j.drop = {}) /\ (Cardinality(j.create) = 0 <=> j.create = {})
  BY <1>1, FS_EmptySet, Zenon
<1> QED BY <1>1, <1>2 DEF Remaining

\* A statement that was executed is one less to execute.
LEMMA OneStatementLess ==
    ASSUME NEW j, NEW k, j.drop \in Datamodels, j.create \in Datamodels,
           j.drop \cap j.create = {}, NEW t \in j.drop \cup j.create,
           k.drop = j.drop \ {t}, k.create = j.create \ {t}
    PROVE  Remaining(k) = Remaining(j) - 1
<1> DEFINE drops == Cardinality(j.drop)
           creates == Cardinality(j.create)
<1>1. /\ IsFiniteSet(j.drop) /\ drops \in Nat
      /\ IsFiniteSet(j.create) /\ creates \in Nat
  BY FiniteDatamodel, Zenon
<1>2. Remaining(j) = drops + creates /\ Remaining(k) = Cardinality(k.drop) + Cardinality(k.create)
  BY Zenon DEF Remaining
<1>3. CASE t \in j.drop
  <2>1. Cardinality(k.drop) = drops - 1
    BY <1>1, <1>3, FS_RemoveElement, Zenon
  <2>2. k.create = j.create
    BY <1>3, Zenon
  <2>3. Cardinality(k.create) = creates
    BY <2>2, Zenon
  <2> HIDE DEF drops, creates
  <2> QED BY <1>1, <1>2, <2>1, <2>3
<1>4. CASE t \in j.create
  <2>1. Cardinality(k.create) = creates - 1
    BY <1>1, <1>4, FS_RemoveElement, Zenon
  <2>2. k.drop = j.drop
    BY <1>4, Zenon
  <2>3. Cardinality(k.drop) = drops
    BY <2>2, Zenon
  <2> HIDE DEF drops, creates
  <2> QED BY <1>1, <1>2, <2>1, <2>3
<1> QED BY <1>3, <1>4, Zenon

-----------------------------------------------------------------------------
(* The steps of an engine.                                                 *)

\* What the types say of a job.
LEMMA JobTypes ==
    ASSUME TypeInv, NEW e \in Engines
    PROVE  /\ job[e] \in Job /\ job[e].drop \in Datamodels /\ job[e].create \in Datamodels
           /\ job[e].to \in Datamodels /\ job[e].from \in Datamodels
           /\ job[e].params \in MigrationUpdateParams
           /\ Remaining(job[e]) \in Nat
<1>1. /\ job[e] \in Job /\ job[e].drop \in Datamodels /\ job[e].create \in Datamodels
      /\ job[e].to \in Datamodels /\ job[e].from \in Datamodels
      /\ job[e].params \in MigrationUpdateParams
  BY Zenon DEF TypeInv, TypeOK, Job
<1> QED BY <1>1, RemainingType, Zenon

\* What they say of a row of the migrations table.
LEMMA RowTypes ==
    ASSUME TypeInv, NEW m \in migrations
    PROVE  /\ m.applied \in Nat /\ m.rolled_back \in Nat /\ m.finished \in BOOLEAN
           /\ m.datamodel \in Datamodels /\ m.before \in Datamodels
           /\ StepCount(m) \in Nat /\ Counted(m) \in Nat
           /\ Counted(m) = IF StepCount(m) = 0 THEN 0 ELSE StepCount(m) - 1
<1>1. /\ m.applied \in Nat /\ m.rolled_back \in Nat /\ m.finished \in BOOLEAN
      /\ m.datamodel \in Datamodels /\ m.before \in Datamodels
  BY Zenon DEF TypeInv, TypeOK, Migration
<1> QED BY <1>1, StepCountType, Zenon DEF Counted

\* A step that changes no row.
LEMMA KeepProgress ==
    ASSUME ProgressInv, NEW e \in Engines, Alone(e), UNCHANGED migrations,
           pc'[e] \in {"check", "create"} => Planned(job'[e]),
           pc'[e] \in Applying \cup Unapplying
              => \E m \in migrations : Driven(job'[e], pc'[e], m)
    PROVE  ProgressInv'
<1>1. \A m \in migrations' : RowProgress(m)
  BY Zenon DEF ProgressInv
<1>2. ASSUME NEW d \in Engines
      PROVE  /\ pc'[d] \in {"check", "create"} => Planned(job'[d])
             /\ pc'[d] \in Applying \cup Unapplying
                   => \E m \in migrations' : Driven(job'[d], pc'[d], m)
  <2>1. CASE d = e
    BY <2>1, Zenon
  <2>2. CASE d # e
    BY <2>2, Zenon DEF ProgressInv, EngineProgress, Alone
  <2> QED BY <2>1, <2>2, Zenon
<1>3. \A d \in Engines : EngineProgress(d)'
  BY ONLY <1>2, Zenon DEF EngineProgress, Planned, Driven, Applies, Unapplies, Own, Tally,
     Remaining, StepCount
<1> QED BY <1>1, <1>3, Zenon DEF ProgressInv, RowProgress, Counted, StepCount

\* A statement is executed.
LEMMA ExecuteTally ==
    ASSUME TypeInv, NEW e \in Engines, Towards(job[e]),
           NEW record, NEW finish, NEW fail,
           ExecuteStatement(e, record, finish, fail),
           NEW n \in Nat, NEW count \in Nat, count + Remaining(job[e]) = n,
           n = 0 \/ Remaining(job[e]) # 0
    PROVE  /\ Alone(e)
           /\ job'[e].params = job[e].params /\ job'[e].name = job[e].name
           /\ job'[e].to = job[e].to /\ job'[e].from = job[e].from
           /\ \/ /\ pc'[e] = record
                 /\ count + 1 + Remaining(job'[e]) = n /\ Remaining(job'[e]) # 0
              \/ pc'[e] = finish /\ count = IF n = 0 THEN 0 ELSE n - 1
              \/ pc'[e] = fail
<1> DEFINE j == job[e]
<1>0. job \in [Engines -> Job] /\ pc \in [Engines -> {"down", "idle"} \cup Busy]
  BY Zenon DEF TypeInv, TypeOK
<1>t. /\ j \in Job /\ j.drop \in Datamodels /\ j.create \in Datamodels
      /\ Remaining(j) \in Nat /\ (Remaining(j) = 0 <=> j.drop \cup j.create = {})
  BY JobTypes, RemainingType, Zenon
<1>1. CASE j.drop \cup j.create = {} /\ Goto(e, finish) /\ job' = job
  <2>1. Alone(e) /\ pc'[e] = finish
    BY <1>0, <1>1, Zenon DEF Goto, Alone
  <2>2. Remaining(j) = 0
    BY <1>t, <1>1, Zenon
  <2>3. n = 0 /\ count = 0
    BY <2>2
  <2> QED BY <1>1, <2>1, <2>3, Zenon
<1>2. ASSUME NEW t \in Models, NextStatement(j, t),
             job' = [job EXCEPT ![e].drop = @ \ {t}, ![e].create = @ \ {t}],
             Goto(e, IF (j.drop \cup j.create) \ {t} = {} THEN finish ELSE record)
      PROVE  /\ Alone(e)
             /\ job'[e].params = j.params /\ job'[e].name = j.name
             /\ job'[e].to = j.to /\ job'[e].from = j.from
             /\ \/ /\ pc'[e] = record
                   /\ count + 1 + Remaining(job'[e]) = n /\ Remaining(job'[e]) # 0
                \/ pc'[e] = finish /\ count = IF n = 0 THEN 0 ELSE n - 1
  <2>1. /\ job'[e].params = j.params /\ job'[e].name = j.name
        /\ job'[e].to = j.to /\ job'[e].from = j.from
        /\ job'[e].drop = j.drop \ {t} /\ job'[e].create = j.create \ {t}
    BY <1>0, <1>2, Zenon DEF Job
  <2>2. /\ Alone(e)
        /\ pc'[e] = IF (j.drop \cup j.create) \ {t} = {} THEN finish ELSE record
    BY <1>0, <1>2, Zenon DEF Goto, Alone
  <2>3. t \in j.drop \cup j.create /\ j.drop \cap j.create = {}
    BY <1>2, Zenon DEF NextStatement, Towards
  <2> DEFINE k == job'[e]
  <2>4. Remaining(k) = Remaining(j) - 1
    BY <1>t, <2>1, <2>3, OneStatementLess, Zenon
  <2>5. Remaining(k) \in Nat /\ (Remaining(k) = 0 <=> k.drop \cup k.create = {})
    <3>1. k.drop \in Datamodels /\ k.create \in Datamodels
      BY <1>t, <2>1, Zenon DEF Datamodels
    <3> QED BY <3>1, RemainingType, Zenon
  <2>6. k.drop \cup k.create = (j.drop \cup j.create) \ {t}
    BY <2>1, Zenon
  <2> HIDE DEF k
  <2>7. CASE (j.drop \cup j.create) \ {t} = {}
    <3>1. Remaining(k) = 0
      BY <2>5, <2>6, <2>7, Zenon
    <3>2. Remaining(j) = 1
      BY <1>t, <2>4, <3>1
    <3>3. count = IF n = 0 THEN 0 ELSE n - 1
      BY <3>2
    <3> QED BY <2>1, <2>2, <2>7, <3>3, Zenon
  <2>8. CASE (j.drop \cup j.create) \ {t} # {}
    <3>1. Remaining(k) # 0
      BY <2>5, <2>6, <2>8, Zenon
    <3>2. count + 1 + Remaining(k) = n
      BY <1>t, <2>4, <2>5
    <3> QED BY <2>1, <2>2, <2>8, <3>1, <3>2, Zenon DEF k
  <2> QED BY <2>7, <2>8, Zenon
<1>3. CASE Goto(e, fail) /\ job' = job
  <2>1. Alone(e) /\ pc'[e] = fail
    BY <1>0, <1>3, Zenon DEF Goto, Alone
  <2> QED BY <1>3, <2>1, Zenon
<1>4. \/ j.drop \cup j.create = {} /\ Goto(e, finish) /\ job' = job
      \/ \E t \in Models :
            /\ NextStatement(j, t)
            /\ job' = [job EXCEPT ![e].drop = @ \ {t}, ![e].create = @ \ {t}]
            /\ Goto(e, IF (j.drop \cup j.create) \ {t} = {} THEN finish ELSE record)
      \/ Goto(e, fail) /\ job' = job
  BY Zenon DEF ExecuteStatement
<1> QED BY ONLY <1>1, <1>2, <1>3, <1>4, Zenon

\* A turn of go_forward or go_backward, up to the update.
LEMMA StatementProgress ==
    ASSUME TypeInv, JobInv, ProgressInv, NEW e \in Engines, ApplyStep(e) \/ UnapplyStep(e)
    PROVE  ProgressInv'
<1>1. Towards(job[e])
  BY Zenon DEF JobInv
<1>2. CASE ApplyStep(e)
  <2>1. /\ pc[e] = "apply" /\ UNCHANGED migrations
        /\ ExecuteStatement(e, "record_apply", "finish_apply", "fail_apply")
    BY <1>2, Zenon DEF ApplyStep
  <2>2. PICK m \in migrations : Applies(job[e], "apply", m)
    BY <2>1, Zenon DEF ProgressInv, EngineProgress, Driven, Applying
  <2>3. m.applied \in Nat /\ StepCount(m) \in Nat
    BY RowTypes, Zenon
  <2>4. /\ m.applied + Remaining(job[e]) = StepCount(m)
        /\ StepCount(m) = 0 \/ Remaining(job[e]) # 0
    BY <2>2, Zenon DEF Applies, Tally
  <2>5. /\ Alone(e)
        /\ job'[e].params = job[e].params /\ job'[e].name = job[e].name
        /\ job'[e].to = job[e].to /\ job'[e].from = job[e].from
        /\ \/ /\ pc'[e] = "record_apply"
              /\ m.applied + 1 + Remaining(job'[e]) = StepCount(m) /\ Remaining(job'[e]) # 0
           \/ /\ pc'[e] = "finish_apply"
              /\ m.applied = IF StepCount(m) = 0 THEN 0 ELSE StepCount(m) - 1
           \/ pc'[e] = "fail_apply"
    BY <1>1, <2>1, <2>3, <2>4, ExecuteTally
  <2>6. Tally(pc'[e], m.applied, Remaining(job'[e]), StepCount(m))
    BY <2>5, Zenon DEF Tally
  <2>7. Driven(job'[e], pc'[e], m)
    BY <2>2, <2>5, <2>6, Zenon DEF Driven, Applies, Own, Applying, Unapplying
  <2>8. pc'[e] \notin {"check", "create"}
    BY <2>5, Zenon
  <2> QED BY <2>1, <2>5, <2>7, <2>8, KeepProgress, Zenon
<1>3. CASE UnapplyStep(e)
  <2>1. /\ pc[e] = "unapply" /\ UNCHANGED migrations
        /\ ExecuteStatement(e, "record_unapply", "finish_unapply", "fail_unapply")
    BY <1>3, Zenon DEF UnapplyStep
  <2>2. PICK m \in migrations : Unapplies(job[e], "unapply", m)
    BY <2>1, Zenon DEF ProgressInv, EngineProgress, Driven, Unapplying
  <2>3. m.rolled_back \in Nat /\ StepCount(m) \in Nat
    BY RowTypes, Zenon
  <2>4. /\ m.rolled_back + Remaining(job[e]) = StepCount(m)
        /\ StepCount(m) = 0 \/ Remaining(job[e]) # 0
    BY <2>2, Zenon DEF Unapplies, Tally
  <2>5. /\ Alone(e)
        /\ job'[e].params = job[e].params /\ job'[e].name = job[e].name
        /\ job'[e].to = job[e].to /\ job'[e].from = job[e].from
        /\ \/ /\ pc'[e] = "record_unapply"
              /\ m.rolled_back + 1 + Remaining(job'[e]) = StepCount(m)
              /\ Remaining(job'[e]) # 0
           \/ /\ pc'[e] = "finish_unapply"
              /\ m.rolled_back = IF StepCount(m) = 0 THEN 0 ELSE StepCount(m) - 1
           \/ pc'[e] = "fail_unapply"
    BY <1>1, <2>1, <2>3, <2>4, ExecuteTally
  <2>6. Tally(pc'[e], m.rolled_back, Remaining(job'[e]), StepCount(m))
    BY <2>5, Zenon DEF Tally
  <2>7. Driven(job'[e], pc'[e], m)
    BY <2>2, <2>5, <2>6, Zenon DEF Driven, Unapplies, Own, Applying, Unapplying
  <2>8. pc'[e] \notin {"check", "create"}
    BY <2>5, Zenon
  <2> QED BY <2>1, <2>5, <2>7, <2>8, KeepProgress, Zenon
<1> QED BY <1>2, <1>3, Zenon

\* n is the row m after an update with p.
After(m, p, n) ==
    /\ n.revision = m.revision /\ n.name = m.name
    /\ n.datamodel = m.datamodel /\ n.before = m.before
    /\ n.status = p.status /\ n.applied = p.applied
    /\ n.rolled_back = p.rolled_back /\ n.finished = p.finished

\* An update of the row that the engine drives.
LEMMA UpdateProgress ==
    ASSUME TypeInv, OneDriver, ProgressInv, NEW e \in Engines, Alone(e),
           pc[e] \in Applying \cup Unapplying,
           NEW m \in migrations, Own(job[e], m),
           NEW p \in MigrationUpdateParams, p.revision = job[e].params.revision,
           Persist(e, p), pc'[e] \notin {"check", "create"},
           \A n : After(m, p, n) => RowProgress(n),
           pc'[e] \in Applying \cup Unapplying =>
              \A n : After(m, p, n) => Driven(job'[e], pc'[e], n)
    PROVE  ProgressInv'
<1>1. PICK n : migrations' = (migrations \ {m}) \cup {n} /\ After(m, p, n)
  BY DriversUnique, UpdateOwn, Zenon DEF After
<1>2. \A x \in migrations' : RowProgress(x)
  BY <1>1, Zenon DEF ProgressInv
<1>3. ASSUME NEW d \in Engines
      PROVE  /\ pc'[d] \in {"check", "create"} => Planned(job'[d])
             /\ pc'[d] \in Applying \cup Unapplying
                   => \E x \in migrations' : Driven(job'[d], pc'[d], x)
  <2>1. CASE d = e
    BY <1>1, <2>1, Zenon
  <2>2. CASE d # e
    <3>1. pc'[d] = pc[d] /\ job'[d] = job[d] /\ EngineProgress(d)
      BY <2>2, Zenon DEF Alone, ProgressInv
    <3>2. ASSUME pc[d] \in Applying \cup Unapplying
          PROVE  \E x \in migrations' : Driven(job[d], pc[d], x)
      <4>1. PICK x \in migrations : Driven(job[d], pc[d], x)
        BY <3>1, <3>2, Zenon DEF EngineProgress
      <4>2. x.revision = job[d].params.revision
        BY <3>2, <4>1, Zenon DEF Driven, Applies, Unapplies, Own
      <4>3. job[d].params.revision # job[e].params.revision
        BY <2>2, <3>2, Zenon DEF OneDriver
      <4>4. x # m
        BY <4>2, <4>3, Zenon DEF Own
      <4> QED BY <1>1, <4>1, <4>4, Zenon
    <3> QED BY <3>1, <3>2, Zenon DEF EngineProgress
  <2> QED BY <2>1, <2>2, Zenon
<1>4. \A d \in Engines : EngineProgress(d)'
  BY ONLY <1>3, Zenon DEF EngineProgress, Planned, Driven, Applies, Unapplies, Own, Tally,
     Remaining, StepCount
<1> QED BY <1>2, <1>4, Zenon DEF ProgressInv, RowProgress, Counted, StepCount

\* The same number of statements before and after an update.
LEMMA AfterCounts ==
    ASSUME NEW m, NEW p, NEW n, After(m, p, n)
    PROVE  StepCount(n) = StepCount(m) /\ Counted(n) = Counted(m)
BY Zenon DEF After, StepCount, Counted

\* What an engine holds after it has persisted p and goes on.
LEMMA AdvanceJob ==
    ASSUME TypeInv, NEW e \in Engines, NEW STATE p, NEW label, Advance(e, p, label)
    PROVE  /\ Alone(e) /\ Persist(e, p) /\ pc'[e] = label
           /\ job'[e].params = p /\ job'[e].name = job[e].name
           /\ job'[e].to = job[e].to /\ job'[e].from = job[e].from
           /\ Remaining(job'[e]) = Remaining(job[e])
<1>0. job \in [Engines -> Job] /\ pc \in [Engines -> {"down", "idle"} \cup Busy]
  BY Zenon DEF TypeInv, TypeOK
<1>1. /\ Persist(e, p) /\ job' = [job EXCEPT ![e].params = p]
      /\ pc' = [pc EXCEPT ![e] = label]
  BY Zenon DEF Advance, Goto
<1>2. Alone(e) /\ pc'[e] = label
  BY <1>0, <1>1, Zenon DEF Alone
<1>3. /\ job'[e].params = p /\ job'[e].name = job[e].name
      /\ job'[e].to = job[e].to /\ job'[e].from = job[e].from
      /\ job'[e].drop = job[e].drop /\ job'[e].create = job[e].create
  BY <1>0, <1>1, Zenon DEF Job
<1>4. Remaining(job'[e]) = Remaining(job[e])
  BY <1>3, Zenon DEF Remaining
<1> QED BY <1>1, <1>2, <1>3, <1>4, Zenon

\* The parameters an engine persists.
LEMMA ChangedStatus ==
    ASSUME NEW q \in MigrationUpdateParams, NEW st \in MigrationStatus
    PROVE  LET p == [q EXCEPT !.status = st]
           IN  /\ p \in MigrationUpdateParams /\ p.revision = q.revision
               /\ p.status = st /\ p.applied = q.applied
               /\ p.rolled_back = q.rolled_back /\ p.finished = q.finished
BY Zenon DEF MigrationUpdateParams

\* One more step was applied.
LEMMA CountedApplied ==
    ASSUME NEW q \in MigrationUpdateParams
    PROVE  LET p == [q EXCEPT !.applied = @ + 1]
           IN  /\ p \in MigrationUpdateParams /\ p.revision = q.revision
               /\ p.status = q.status /\ p.applied = q.applied + 1
               /\ p.rolled_back = q.rolled_back /\ p.finished = q.finished
BY DEF MigrationUpdateParams

\* One more step was rolled back.
LEMMA CountedRolledBack ==
    ASSUME NEW q \in MigrationUpdateParams
    PROVE  LET p == [q EXCEPT !.rolled_back = @ + 1]
           IN  /\ p \in MigrationUpdateParams /\ p.revision = q.revision
               /\ p.status = q.status /\ p.rolled_back = q.rolled_back + 1
               /\ p.applied = q.applied /\ p.finished = q.finished
BY DEF MigrationUpdateParams

\* Marking a migration as in progress keeps the count.
LEMMA MarkInProgressProgress ==
    ASSUME TypeInv, OneDriver, ProgressInv, NEW e \in Engines, MarkInProgress(e)
    PROVE  ProgressInv'
<1> DEFINE q == job[e].params
           p == [q EXCEPT !.status = "MigrationInProgress"]
<1>0. q \in MigrationUpdateParams /\ "MigrationInProgress" \in MigrationStatus
  BY JobTypes, Zenon DEF MigrationStatus
<1>1. /\ p \in MigrationUpdateParams /\ p.revision = q.revision
      /\ p.status = "MigrationInProgress" /\ p.applied = q.applied
      /\ p.rolled_back = q.rolled_back /\ p.finished = q.finished
  BY <1>0, ChangedStatus, Zenon
<1>2. pc[e] = "start_apply" /\ pc[e] \in Applying /\ Advance(e, p, "apply")
  BY Zenon DEF MarkInProgress, Applying
<1>3. PICK m \in migrations : Applies(job[e], "start_apply", m)
  BY <1>2, Zenon DEF ProgressInv, EngineProgress, Driven
<1> HIDE DEF p
<1>4. /\ Alone(e) /\ Persist(e, p) /\ pc'[e] = "apply"
      /\ job'[e].params = p /\ job'[e].name = job[e].name
      /\ job'[e].to = job[e].to /\ job'[e].from = job[e].from
      /\ Remaining(job'[e]) = Remaining(job[e])
  BY <1>2, AdvanceJob, Zenon
<1>5. RowProgress(m) /\ StepCount(m) \in Nat /\ Counted(m) \in Nat
  BY RowTypes, Zenon DEF ProgressInv
<1>6. ASSUME NEW n, After(m, p, n)
      PROVE  RowProgress(n) /\ Driven(job'[e], pc'[e], n)
  <2>1. StepCount(n) = StepCount(m) /\ Counted(n) = Counted(m)
    BY <1>6, AfterCounts, Zenon
  <2>2. RowProgress(n)
    BY <1>1, <1>3, <1>5, <1>6, <2>1, Zenon DEF After, RowProgress, Applies
  <2>3. Tally("apply", n.applied, Remaining(job'[e]), StepCount(n))
    BY <1>1, <1>3, <1>4, <1>5, <1>6, <2>1, SMTT(60) DEF After, Applies, Tally
  <2>4. Own(job'[e], n)
    BY <1>1, <1>3, <1>4, <1>6, Zenon DEF After, Own, Applies
  <2>5. Applies(job'[e], "apply", n)
    BY <1>1, <1>3, <1>4, <1>6, <2>3, <2>4, Zenon DEF After, Applies
  <2> QED BY <1>4, <2>2, <2>5, Zenon DEF Driven, Applying, Unapplying
<1>7. Own(job[e], m)
  BY <1>3, Zenon DEF Applies
<1> QED BY <1>1, <1>2, <1>4, <1>6, <1>7, UpdateProgress, Zenon

\* Recording an applied step keeps it.
LEMMA RecordApplyProgress ==
    ASSUME TypeInv, OneDriver, ProgressInv, NEW e \in Engines, RecordApplyStep(e)
    PROVE  ProgressInv'
<1> DEFINE q == job[e].params
           p == [q EXCEPT !.applied = @ + 1]
<1>0. q \in MigrationUpdateParams
  BY JobTypes, Zenon
<1>1. /\ p \in MigrationUpdateParams /\ p.revision = q.revision
      /\ p.status = q.status /\ p.applied = q.applied + 1
      /\ p.rolled_back = q.rolled_back /\ p.finished = q.finished
  BY <1>0, CountedApplied, Zenon
<1>2. pc[e] = "record_apply" /\ pc[e] \in Applying /\ Advance(e, p, "apply")
  BY Zenon DEF RecordApplyStep, Applying
<1>3. PICK m \in migrations : Applies(job[e], "record_apply", m)
  BY <1>2, Zenon DEF ProgressInv, EngineProgress, Driven
<1> HIDE DEF p
<1>4. /\ Alone(e) /\ Persist(e, p) /\ pc'[e] = "apply"
      /\ job'[e].params = p /\ job'[e].name = job[e].name
      /\ job'[e].to = job[e].to /\ job'[e].from = job[e].from
      /\ Remaining(job'[e]) = Remaining(job[e])
  BY <1>2, AdvanceJob, Zenon
<1>5. /\ RowProgress(m) /\ StepCount(m) \in Nat /\ Counted(m) \in Nat
      /\ Counted(m) = IF StepCount(m) = 0 THEN 0 ELSE StepCount(m) - 1
      /\ Remaining(job[e]) \in Nat /\ m.applied \in Nat
  BY RowTypes, JobTypes, Zenon DEF ProgressInv
<1>6. m.applied + 1 + Remaining(job[e]) = StepCount(m) /\ Remaining(job[e]) # 0
  BY <1>3, Zenon DEF Applies, Tally
<1>7. m.applied + 1 <= Counted(m)
  BY <1>5, <1>6
<1>8. ASSUME NEW n, After(m, p, n)
      PROVE  RowProgress(n) /\ Driven(job'[e], pc'[e], n)
  <2>1. StepCount(n) = StepCount(m) /\ Counted(n) = Counted(m)
    BY <1>8, AfterCounts, Zenon
  <2>2. n.applied = m.applied + 1 /\ n.rolled_back = m.rolled_back
        /\ n.finished = m.finished /\ n.status = m.status
    BY <1>1, <1>3, <1>8, Zenon DEF After, Applies, Own
  <2>3. RowProgress(n)
    BY <1>3, <1>5, <1>7, <2>1, <2>2, Zenon DEF RowProgress, Applies
  <2>4. Tally("apply", n.applied, Remaining(job'[e]), StepCount(n))
    BY <1>4, <1>5, <1>6, <2>1, <2>2, Zenon DEF Tally
  <2>5. Own(job'[e], n)
    BY <1>1, <1>3, <1>4, <1>8, Zenon DEF After, Own, Applies
  <2>6. Applies(job'[e], "apply", n)
    BY <1>1, <1>3, <1>4, <1>8, <2>2, <2>4, <2>5, Zenon DEF After, Applies
  <2> QED BY <1>4, <2>3, <2>6, Zenon DEF Driven, Applying, Unapplying
<1>9. Own(job[e], m)
  BY <1>3, Zenon DEF Applies
<1> QED BY <1>1, <1>2, <1>4, <1>8, <1>9, UpdateProgress, Zenon

\* Marking a migration as rolling back keeps it.
LEMMA MarkRollingBackProgress ==
    ASSUME TypeInv, OneDriver, ProgressInv, NEW e \in Engines, MarkRollingBack(e)
    PROVE  ProgressInv'
<1> DEFINE q == job[e].params
           p == [q EXCEPT !.status = "RollingBack"]
<1>0. q \in MigrationUpdateParams /\ "RollingBack" \in MigrationStatus
  BY JobTypes, Zenon DEF MigrationStatus
<1>1. /\ p \in MigrationUpdateParams /\ p.revision = q.revision
      /\ p.status = "RollingBack" /\ p.applied = q.applied
      /\ p.rolled_back = q.rolled_back /\ p.finished = q.finished
  BY <1>0, ChangedStatus, Zenon
<1>2. pc[e] = "start_unapply" /\ pc[e] \in Unapplying /\ Advance(e, p, "unapply")
  BY Zenon DEF MarkRollingBack, Unapplying
<1>3. PICK m \in migrations : Unapplies(job[e], "start_unapply", m)
  BY <1>2, Zenon DEF ProgressInv, EngineProgress, Driven
<1> HIDE DEF p
<1>4. /\ Alone(e) /\ Persist(e, p) /\ pc'[e] = "unapply"
      /\ job'[e].params = p /\ job'[e].name = job[e].name
      /\ job'[e].to = job[e].to /\ job'[e].from = job[e].from
      /\ Remaining(job'[e]) = Remaining(job[e])
  BY <1>2, AdvanceJob, Zenon
<1>5. RowProgress(m) /\ StepCount(m) \in Nat /\ Counted(m) \in Nat
  BY RowTypes, Zenon DEF ProgressInv
<1>6. ASSUME NEW n, After(m, p, n)
      PROVE  RowProgress(n) /\ Driven(job'[e], pc'[e], n)
  <2>1. StepCount(n) = StepCount(m) /\ Counted(n) = Counted(m)
    BY <1>6, AfterCounts, Zenon
  <2>2. RowProgress(n)
    BY <1>1, <1>3, <1>5, <1>6, <2>1, Zenon DEF After, RowProgress, Unapplies
  <2>3. Tally("unapply", n.rolled_back, Remaining(job'[e]), StepCount(n))
    BY <1>1, <1>3, <1>4, <1>5, <1>6, <2>1, SMTT(60) DEF After, Unapplies, Tally
  <2>4. Own(job'[e], n)
    BY <1>1, <1>3, <1>4, <1>6, Zenon DEF After, Own, Unapplies
  <2>5. Unapplies(job'[e], "unapply", n)
    BY <1>1, <1>3, <1>4, <1>6, <2>3, <2>4, Zenon DEF After, Unapplies
  <2> QED BY <1>4, <2>2, <2>5, Zenon DEF Driven, Applying, Unapplying
<1>7. Own(job[e], m)
  BY <1>3, Zenon DEF Unapplies
<1> QED BY <1>1, <1>2, <1>4, <1>6, <1>7, UpdateProgress, Zenon

\* Recording a step that was rolled back keeps it.
LEMMA RecordUnapplyProgress ==
    ASSUME TypeInv, OneDriver, ProgressInv, NEW e \in Engines, RecordUnapplyStep(e)
    PROVE  ProgressInv'
<1> DEFINE q == job[e].params
           p == [q EXCEPT !.rolled_back = @ + 1]
<1>0. q \in MigrationUpdateParams
  BY JobTypes, Zenon
<1>1. /\ p \in MigrationUpdateParams /\ p.revision = q.revision
      /\ p.status = q.status /\ p.rolled_back = q.rolled_back + 1
      /\ p.applied = q.applied /\ p.finished = q.finished
  BY <1>0, CountedRolledBack, Zenon
<1>2. pc[e] = "record_unapply" /\ pc[e] \in Unapplying /\ Advance(e, p, "unapply")
  BY Zenon DEF RecordUnapplyStep, Unapplying
<1>3. PICK m \in migrations : Unapplies(job[e], "record_unapply", m)
  BY <1>2, Zenon DEF ProgressInv, EngineProgress, Driven
<1> HIDE DEF p
<1>4. /\ Alone(e) /\ Persist(e, p) /\ pc'[e] = "unapply"
      /\ job'[e].params = p /\ job'[e].name = job[e].name
      /\ job'[e].to = job[e].to /\ job'[e].from = job[e].from
      /\ Remaining(job'[e]) = Remaining(job[e])
  BY <1>2, AdvanceJob, Zenon
<1>5. /\ RowProgress(m) /\ StepCount(m) \in Nat /\ Counted(m) \in Nat
      /\ Counted(m) = IF StepCount(m) = 0 THEN 0 ELSE StepCount(m) - 1
      /\ Remaining(job[e]) \in Nat /\ m.rolled_back \in Nat
  BY RowTypes, JobTypes, Zenon DEF ProgressInv
<1>6. m.rolled_back + 1 + Remaining(job[e]) = StepCount(m) /\ Remaining(job[e]) # 0
  BY <1>3, Zenon DEF Unapplies, Tally
<1>7. m.rolled_back + 1 <= Counted(m)
  BY <1>5, <1>6
<1>8. ASSUME NEW n, After(m, p, n)
      PROVE  RowProgress(n) /\ Driven(job'[e], pc'[e], n)
  <2>1. StepCount(n) = StepCount(m) /\ Counted(n) = Counted(m)
    BY <1>8, AfterCounts, Zenon
  <2>2. n.rolled_back = m.rolled_back + 1 /\ n.applied = m.applied
        /\ n.finished = m.finished /\ n.status = m.status
    BY <1>1, <1>3, <1>8, Zenon DEF After, Unapplies, Own
  <2>3. RowProgress(n)
    BY <1>3, <1>5, <1>7, <2>1, <2>2, Zenon DEF RowProgress, Unapplies
  <2>4. Tally("unapply", n.rolled_back, Remaining(job'[e]), StepCount(n))
    BY <1>4, <1>5, <1>6, <2>1, <2>2, Zenon DEF Tally
  <2>5. Own(job'[e], n)
    BY <1>1, <1>3, <1>4, <1>8, Zenon DEF After, Own, Unapplies
  <2>6. Unapplies(job'[e], "unapply", n)
    BY <1>1, <1>3, <1>4, <1>8, <2>2, <2>4, <2>5, Zenon DEF After, Unapplies
  <2> QED BY <1>4, <2>3, <2>6, Zenon DEF Driven, Applying, Unapplying
<1>9. Own(job[e], m)
  BY <1>3, Zenon DEF Unapplies
<1> QED BY <1>1, <1>2, <1>4, <1>8, <1>9, UpdateProgress, Zenon

\* The parameters that finish a migration.
LEMMA FinishedParams ==
    ASSUME NEW q \in MigrationUpdateParams, NEW st \in MigrationStatus
    PROVE  LET p == [q EXCEPT !.status = st, !.finished = TRUE]
           IN  /\ p \in MigrationUpdateParams /\ p.revision = q.revision
               /\ p.status = st /\ p.applied = q.applied
               /\ p.rolled_back = q.rolled_back /\ p.finished = TRUE
BY Zenon DEF MigrationUpdateParams

\* The last update of a command.
LEMMA EndProgress ==
    ASSUME TypeInv, OneDriver, ProgressInv, NEW e \in Engines,
           pc[e] \in Applying \cup Unapplying,
           NEW m \in migrations, Own(job[e], m),
           NEW p \in MigrationUpdateParams, p.revision = job[e].params.revision,
           NEW label \in {"idle", "report"}, Persist(e, p), Forget(e, label),
           \A n : After(m, p, n) => RowProgress(n)
    PROVE  ProgressInv'
<1>1. Alone(e) /\ pc'[e] = label
  BY Zenon DEF Forget, Goto, Alone, TypeInv, TypeOK
<1>2. pc'[e] \notin {"check", "create"} \cup Applying \cup Unapplying
  BY <1>1, Zenon DEF Applying, Unapplying
<1> QED BY <1>1, <1>2, UpdateProgress, Zenon

\* The end of a migration keeps it.
LEMMA FinishApplyProgress ==
    ASSUME TypeInv, OneDriver, ProgressInv, NEW e \in Engines, FinishApply(e)
    PROVE  ProgressInv'
<1> DEFINE q == job[e].params
           p == [q EXCEPT !.status = "MigrationSuccess", !.finished = TRUE]
<1>0. q \in MigrationUpdateParams /\ "MigrationSuccess" \in MigrationStatus
  BY JobTypes, Zenon DEF MigrationStatus
<1>1. /\ p \in MigrationUpdateParams /\ p.revision = q.revision
      /\ p.status = "MigrationSuccess" /\ p.applied = q.applied
      /\ p.rolled_back = q.rolled_back /\ p.finished = TRUE
  BY <1>0, FinishedParams, Zenon
<1>2. /\ pc[e] = "finish_apply" /\ pc[e] \in Applying
      /\ Persist(e, p) /\ Forget(e, "idle")
  BY Zenon DEF FinishApply, Return, Applying
<1>3. PICK m \in migrations : Applies(job[e], "finish_apply", m)
  BY <1>2, Zenon DEF ProgressInv, EngineProgress, Driven
<1> HIDE DEF p
<1>4. /\ RowProgress(m)
      /\ Counted(m) = IF StepCount(m) = 0 THEN 0 ELSE StepCount(m) - 1
  BY RowTypes, Zenon DEF ProgressInv
<1>5. ASSUME NEW n, After(m, p, n)
      PROVE  RowProgress(n)
  <2>1. Counted(n) = Counted(m)
    BY <1>5, AfterCounts, Zenon
  <2> QED BY <1>1, <1>3, <1>4, <1>5, <2>1, ZenonT(60) DEF After, RowProgress, Applies, Tally
<1>6. Own(job[e], m)
  BY <1>3, Zenon DEF Applies
<1> QED BY <1>1, <1>2, <1>5, <1>6, EndProgress, Zenon

\* A failed migration keeps it.
LEMMA FailApplyProgress ==
    ASSUME TypeInv, OneDriver, ProgressInv, NEW e \in Engines, FailApply(e)
    PROVE  ProgressInv'
<1> DEFINE q == job[e].params
           p == [q EXCEPT !.status = "MigrationFailure"]
<1>0. q \in MigrationUpdateParams /\ "MigrationFailure" \in MigrationStatus
  BY JobTypes, Zenon DEF MigrationStatus
<1>1. /\ p \in MigrationUpdateParams /\ p.revision = q.revision
      /\ p.status = "MigrationFailure" /\ p.applied = q.applied
      /\ p.rolled_back = q.rolled_back /\ p.finished = q.finished
  BY <1>0, ChangedStatus, Zenon
<1>2. /\ pc[e] = "fail_apply" /\ pc[e] \in Applying
      /\ Persist(e, p) /\ Forget(e, "idle")
  BY Zenon DEF FailApply, Return, Applying
<1>3. PICK m \in migrations : Applies(job[e], "fail_apply", m)
  BY <1>2, Zenon DEF ProgressInv, EngineProgress, Driven
<1> HIDE DEF p
<1>4. /\ RowProgress(m)
      /\ Counted(m) = IF StepCount(m) = 0 THEN 0 ELSE StepCount(m) - 1
  BY RowTypes, Zenon DEF ProgressInv
<1>5. ASSUME NEW n, After(m, p, n)
      PROVE  RowProgress(n)
  <2>1. Counted(n) = Counted(m)
    BY <1>5, AfterCounts, Zenon
  <2> QED BY <1>1, <1>3, <1>4, <1>5, <2>1, Zenon DEF After, RowProgress, Applies, Tally
<1>6. Own(job[e], m)
  BY <1>3, Zenon DEF Applies
<1> QED BY <1>1, <1>2, <1>5, <1>6, EndProgress, Zenon

\* The end of a rollback keeps it.
LEMMA FinishUnapplyProgress ==
    ASSUME TypeInv, OneDriver, ProgressInv, NEW e \in Engines, FinishUnapply(e)
    PROVE  ProgressInv'
<1> DEFINE q == job[e].params
           p == [q EXCEPT !.status = "RollbackSuccess"]
<1>0. q \in MigrationUpdateParams /\ "RollbackSuccess" \in MigrationStatus
  BY JobTypes, Zenon DEF MigrationStatus
<1>1. /\ p \in MigrationUpdateParams /\ p.revision = q.revision
      /\ p.status = "RollbackSuccess" /\ p.applied = q.applied
      /\ p.rolled_back = q.rolled_back /\ p.finished = q.finished
  BY <1>0, ChangedStatus, Zenon
<1>2. /\ pc[e] = "finish_unapply" /\ pc[e] \in Unapplying
      /\ Persist(e, p) /\ Forget(e, "report")
  BY Zenon DEF FinishUnapply, Unapplying
<1>3. PICK m \in migrations : Unapplies(job[e], "finish_unapply", m)
  BY <1>2, Zenon DEF ProgressInv, EngineProgress, Driven
<1> HIDE DEF p
<1>4. /\ RowProgress(m)
      /\ Counted(m) = IF StepCount(m) = 0 THEN 0 ELSE StepCount(m) - 1
  BY RowTypes, Zenon DEF ProgressInv
<1>5. ASSUME NEW n, After(m, p, n)
      PROVE  RowProgress(n)
  <2>1. Counted(n) = Counted(m)
    BY <1>5, AfterCounts, Zenon
  <2> QED BY <1>1, <1>3, <1>4, <1>5, <2>1, Zenon DEF After, RowProgress, Unapplies, Tally
<1>6. Own(job[e], m)
  BY <1>3, Zenon DEF Unapplies
<1> QED BY <1>1, <1>2, <1>5, <1>6, EndProgress, Zenon

\* A failed rollback keeps it.
LEMMA FailUnapplyProgress ==
    ASSUME TypeInv, OneDriver, ProgressInv, NEW e \in Engines, FailUnapply(e)
    PROVE  ProgressInv'
<1> DEFINE q == job[e].params
           p == [q EXCEPT !.status = "RollbackFailure"]
<1>0. q \in MigrationUpdateParams /\ "RollbackFailure" \in MigrationStatus
  BY JobTypes, Zenon DEF MigrationStatus
<1>1. /\ p \in MigrationUpdateParams /\ p.revision = q.revision
      /\ p.status = "RollbackFailure" /\ p.applied = q.applied
      /\ p.rolled_back = q.rolled_back /\ p.finished = q.finished
  BY <1>0, ChangedStatus, Zenon
<1>2. /\ pc[e] = "fail_unapply" /\ pc[e] \in Unapplying
      /\ Persist(e, p) /\ Forget(e, "idle")
  BY Zenon DEF FailUnapply, Return, Unapplying
<1>3. PICK m \in migrations : Unapplies(job[e], "fail_unapply", m)
  BY <1>2, Zenon DEF ProgressInv, EngineProgress, Driven
<1> HIDE DEF p
<1>4. /\ RowProgress(m)
      /\ Counted(m) = IF StepCount(m) = 0 THEN 0 ELSE StepCount(m) - 1
  BY RowTypes, Zenon DEF ProgressInv
<1>5. ASSUME NEW n, After(m, p, n)
      PROVE  RowProgress(n)
  <2>1. Counted(n) = Counted(m)
    BY <1>5, AfterCounts, Zenon
  <2> QED BY <1>1, <1>3, <1>4, <1>5, <2>1, Zenon DEF After, RowProgress, Unapplies, Tally
<1>6. Own(job[e], m)
  BY <1>3, Zenon DEF Unapplies
<1> QED BY <1>1, <1>2, <1>5, <1>6, EndProgress, Zenon

\* The new row starts at zero, with every statement left.
LEMMA CreateProgress ==
    ASSUME TypeInv, ProgressInv, NEW e \in Engines, CreateMigration(e)
    PROVE  ProgressInv'
<1> DEFINE p == [NoParams EXCEPT !.revision = serial + 1]
           n == [name |-> job[e].name, revision |-> p.revision, status |-> p.status,
                 applied |-> p.applied, rolled_back |-> p.rolled_back,
                 finished |-> p.finished,
                 datamodel |-> job[e].to, before |-> job[e].from]
<1>0. job \in [Engines -> Job] /\ pc \in [Engines -> {"down", "idle"} \cup Busy]
  BY Zenon DEF TypeInv, TypeOK
<1>1. p.status = "Pending" /\ p.applied = 0 /\ p.rolled_back = 0 /\ p.finished = FALSE
  BY Zenon DEF NoParams
<1>2. /\ migrations' = migrations \cup {n} /\ pc[e] = "create"
      /\ n.name = job[e].name /\ n.revision = p.revision /\ n.status = p.status
      /\ n.applied = p.applied /\ n.rolled_back = p.rolled_back /\ n.finished = p.finished
      /\ n.datamodel = job[e].to /\ n.before = job[e].from
  BY Zenon DEF CreateMigration
<1>3. /\ Alone(e) /\ pc'[e] = "start_apply"
      /\ job'[e].params = p /\ job'[e].name = job[e].name
      /\ job'[e].to = job[e].to /\ job'[e].from = job[e].from
      /\ job'[e].drop = job[e].drop /\ job'[e].create = job[e].create
  BY <1>0, Zenon DEF CreateMigration, Goto, Alone, Job
<1> HIDE DEF n, p
<1>4. StepCount(n) \in Nat /\ Counted(n) \in Nat /\ Remaining(job[e]) = StepCount(n)
  <2>1. Planned(job[e])
    BY <1>2, Zenon DEF ProgressInv, EngineProgress
  <2>2. n.datamodel \in Datamodels /\ n.before \in Datamodels
    BY <1>2, JobTypes, Zenon
  <2>3. StepCount(n) \in Nat /\ Counted(n) \in Nat
    BY <2>2, StepCountType, Zenon
  <2>4. /\ Cardinality(n.datamodel \ n.before) \in Nat
        /\ Cardinality(n.before \ n.datamodel) \in Nat
    <3>1. n.datamodel \ n.before \in Datamodels /\ n.before \ n.datamodel \in Datamodels
      BY <2>2, Zenon DEF Datamodels
    <3> QED BY <3>1, FiniteDatamodel, Zenon
  <2>5. job[e].drop = n.before \ n.datamodel /\ job[e].create = n.datamodel \ n.before
    BY <1>2, <2>1, Zenon DEF Planned
  <2> QED BY <2>3, <2>4, <2>5 DEF Remaining, StepCount
<1>5. RowProgress(n)
  BY <1>1, <1>2, <1>4 DEF RowProgress
<1>6. Driven(job'[e], pc'[e], n)
  <2>1. Remaining(job'[e]) = StepCount(n)
    BY <1>3, <1>4, Zenon DEF Remaining
  <2>2. Tally("start_apply", n.applied, Remaining(job'[e]), StepCount(n))
    BY <1>1, <1>2, <2>1, Zenon DEF Tally
  <2> QED BY <1>1, <1>2, <1>3, <2>2, Zenon DEF Driven, Applies, Own, Applying, Unapplying
<1>7. \A m \in migrations' : RowProgress(m)
  BY <1>2, <1>5, Zenon DEF ProgressInv
<1>8. ASSUME NEW d \in Engines
      PROVE  /\ pc'[d] \in {"check", "create"} => Planned(job'[d])
             /\ pc'[d] \in Applying \cup Unapplying
                   => \E m \in migrations' : Driven(job'[d], pc'[d], m)
  <2>1. CASE d = e
    BY <1>2, <1>3, <1>6, <2>1, Zenon
  <2>2. CASE d # e
    BY <1>2, <1>3, <2>2, Zenon DEF ProgressInv, EngineProgress, Alone
  <2> QED BY <2>1, <2>2, Zenon
<1>9. \A d \in Engines : EngineProgress(d)'
  BY ONLY <1>8, Zenon DEF EngineProgress, Planned, Driven, Applies, Unapplies, Own, Tally,
     Remaining, StepCount
<1> QED BY <1>7, <1>9, Zenon DEF ProgressInv, RowProgress, Counted, StepCount

\* A rollback starts with a row that was never rolled back.
LEMMA StartUnapplyProgress ==
    ASSUME TypeInv, ProgressInv, NEW e \in Engines, StartUnapply(e)
    PROVE  ProgressInv'
<1> DEFINE m == Latest(Successes)
           p == [revision |-> m.revision, status |-> m.status, applied |-> m.applied,
                 rolled_back |-> m.rolled_back, finished |-> m.finished]
           j == [NoJob EXCEPT !.name = m.name, !.from = m.datamodel, !.to = m.before,
                              !.drop = m.datamodel \ m.before,
                              !.create = m.before \ m.datamodel, !.params = p]
<1>0. job \in [Engines -> Job] /\ pc \in [Engines -> {"down", "idle"} \cup Busy]
  BY Zenon DEF TypeInv, TypeOK
<1>1. m \in Successes
  <2>1. Successes \in SUBSET migrations /\ Successes # {}
    BY Zenon DEF Successes, StartUnapply
  <2> QED BY <2>1, LatestIsNewest, Zenon DEF TypeInv
<1>2. Alone(e) /\ UNCHANGED migrations /\ pc'[e] = "start_unapply" /\ job'[e] = j
  BY <1>0, Zenon DEF StartUnapply, Goto, Alone
<1>3. /\ p.revision = m.revision /\ p.status = m.status /\ p.applied = m.applied
      /\ p.rolled_back = m.rolled_back /\ p.finished = m.finished
  BY Zenon
<1> HIDE DEF m, p
<1>4. /\ j.name = m.name /\ j.from = m.datamodel /\ j.to = m.before
      /\ j.drop = m.datamodel \ m.before /\ j.create = m.before \ m.datamodel
      /\ j.params = p
  BY Zenon DEF NoJob
<1> HIDE DEF j
<1>5. m \in migrations /\ m.status = "MigrationSuccess"
  BY <1>1, Zenon DEF Successes
<1>6. m.rolled_back = 0
  BY <1>5, Zenon DEF ProgressInv, RowProgress
<1>7. Remaining(j) = StepCount(m)
  <2>1. /\ Cardinality(m.datamodel \ m.before) \in Nat
        /\ Cardinality(m.before \ m.datamodel) \in Nat
    <3>1. m.datamodel \ m.before \in Datamodels /\ m.before \ m.datamodel \in Datamodels
      BY <1>5, RowTypes, Zenon DEF Datamodels
    <3> QED BY <3>1, FiniteDatamodel, Zenon
  <2> QED BY <1>4, <2>1, Zenon DEF Remaining, StepCount
<1>8. Tally("start_unapply", m.rolled_back, Remaining(j), StepCount(m))
  BY <1>6, <1>7, Zenon DEF Tally
<1>9. Driven(j, "start_unapply", m)
  BY <1>3, <1>4, <1>8, Zenon DEF Driven, Unapplies, Own, Applying, Unapplying
<1> QED BY <1>2, <1>5, <1>9, KeepProgress, Zenon

\* A step that changes no row and leaves the engine without one.
LEMMA FreeProgress ==
    ASSUME ProgressInv, NEW e \in Engines, Alone(e), UNCHANGED migrations,
           pc'[e] \notin {"check", "create"} \cup Applying \cup Unapplying
    PROVE  ProgressInv'
BY KeepProgress, Zenon

\* A step that empties the ledger under nobody.
LEMMA EmptiedProgress ==
    ASSUME NEW e, Engines = {e}, migrations' = {},
           pc'[e] \notin {"check", "create"} \cup Applying \cup Unapplying
    PROVE  ProgressInv'
BY Zenon DEF ProgressInv, EngineProgress

\* The steps before the row is created, and those after which none is driven.
LEMMA PrepareProgress ==
    ASSUME TypeInv, ProgressInv, NEW e \in Engines,
           \/ CalculateNext(e) \/ InferDatabaseMigration(e) \/ CheckDestructiveChanges(e)
    PROVE  ProgressInv'
<1>0. job \in [Engines -> Job] /\ pc \in [Engines -> {"down", "idle"} \cup Busy]
  BY Zenon DEF TypeInv, TypeOK
<1>1. CASE CalculateNext(e)
  <2>1. Alone(e) /\ UNCHANGED migrations /\ pc'[e] \in {"infer", "idle"}
    BY <1>0, <1>1, Zenon DEF CalculateNext, Return, Forget, Goto, Alone
  <2> QED BY <2>1, FreeProgress, Zenon DEF Applying, Unapplying
<1>2. CASE InferDatabaseMigration(e)
  <2>1. Alone(e) /\ UNCHANGED migrations /\ pc'[e] = "check"
    BY <1>0, <1>2, Zenon DEF InferDatabaseMigration, Goto, Alone
  <2>2. /\ job'[e].from = schema /\ job'[e].to = job[e].to
        /\ job'[e].drop = schema \ job[e].to /\ job'[e].create = job[e].to \ schema
    BY <1>0, <1>2, Zenon DEF InferDatabaseMigration, Job
  <2>3. Planned(job'[e])
    BY <2>2, Zenon DEF Planned
  <2> QED BY <2>1, <2>3, KeepProgress, Zenon DEF Applying, Unapplying
<1>3. CASE CheckDestructiveChanges(e)
  <2>1. Alone(e) /\ UNCHANGED migrations /\ pc[e] = "check" /\ pc'[e] \in {"create", "idle"}
    BY <1>0, <1>3, Zenon DEF CheckDestructiveChanges, Return, Forget, Goto, Alone
  <2>2. CASE pc'[e] = "idle"
    BY <2>1, <2>2, FreeProgress, Zenon DEF Applying, Unapplying
  <2>3. CASE pc'[e] = "create"
    <3>1. job' = [job EXCEPT ![e].seen = filled]
      BY <1>0, <1>3, <2>3, Zenon DEF CheckDestructiveChanges, Return, Forget, Goto
    <3>2. /\ job'[e].from = job[e].from /\ job'[e].to = job[e].to
          /\ job'[e].drop = job[e].drop /\ job'[e].create = job[e].create
      BY <1>0, <3>1, Zenon DEF Job
    <3>3. Planned(job'[e])
      BY <2>1, <3>2, Zenon DEF Planned, ProgressInv, EngineProgress
    <3> QED BY <2>1, <2>3, <3>3, KeepProgress, Zenon DEF Applying, Unapplying
  <2> QED BY <2>1, <2>2, <2>3, Zenon
<1> QED BY <1>1, <1>2, <1>3, Zenon

\* Forgetting the job keeps it.
LEMMA ForgetProgress ==
    ASSUME TypeInv, ProgressInv, NEW e \in Engines, NEW label \in {"idle", "down"},
           Forget(e, label), UNCHANGED migrations
    PROVE  ProgressInv'
<1>1. Alone(e) /\ pc'[e] = label
  BY Zenon DEF Forget, Goto, Alone, TypeInv, TypeOK
<1> QED BY <1>1, FreeProgress, Zenon DEF Applying, Unapplying

\* Resets, when nobody else is at work.
LEMMA ResetProgress ==
    ASSUME TypeInv, ProgressInv, NEW e \in Engines, Engines = {e},
           StartReset(e) \/ ResetDrop(e)
    PROVE  ProgressInv'
<1>0. pc \in [Engines -> {"down", "idle"} \cup Busy]
  BY Zenon DEF TypeInv, TypeOK
<1>1. /\ Alone(e) /\ pc'[e] \in {"reset_drop", "reset_init"}
      /\ migrations' = {} \/ UNCHANGED migrations
  BY <1>0, Zenon DEF StartReset, ResetDrop, Goto, Alone
<1>2. pc'[e] \notin {"check", "create"} \cup Applying \cup Unapplying
  BY <1>1, Zenon DEF Applying, Unapplying
<1> QED BY <1>1, <1>2, FreeProgress, EmptiedProgress, Zenon

\* Requests, with the assumption on resets.
LEMMA RequestProgress ==
    ASSUME TypeInv, ProgressInv, NEW e \in Engines, Request(e),
           StartReset(e) => Engines = {e}
    PROVE  ProgressInv'
<1>0. job \in [Engines -> Job] /\ pc \in [Engines -> {"down", "idle"} \cup Busy]
  BY Zenon DEF TypeInv, TypeOK
<1>1. ASSUME NEW name \in Names, NEW steps \in DatamodelSteps, NEW force \in BOOLEAN,
             StartApply(e, name, steps, force)
      PROVE  ProgressInv'
  <2>1. Alone(e) /\ UNCHANGED migrations /\ pc'[e] = "calculate"
    BY <1>0, <1>1, Zenon DEF StartApply, Goto, Alone
  <2> QED BY <2>1, FreeProgress, Zenon DEF Applying, Unapplying
<1>2. CASE StartUnapply(e)
  BY <1>2, StartUnapplyProgress, Zenon
<1>3. CASE StartReset(e)
  BY <1>3, ResetProgress, Zenon
<1>4. CASE ReadOnlyCommand(e)
  <2>1. Alone(e) /\ UNCHANGED migrations /\ pc'[e] = "idle"
    BY <1>4, Zenon DEF ReadOnlyCommand, Alone, vars
  <2> QED BY <2>1, FreeProgress, Zenon DEF Applying, Unapplying
<1>5. CASE RequestPanics(e)
  BY <1>5, ForgetProgress, Zenon DEF RequestPanics, Halt
<1> QED BY <1>1, <1>2, <1>3, <1>4, <1>5, Zenon DEF Request

\* Every step keeps it.
LEMMA ProgressStep ==
    ASSUME TypeInv, JobInv, OneDriver, ProgressInv, [Next]_vars,
           \A e \in Engines : StartReset(e) \/ ResetDrop(e) => Engines = {e}
    PROVE  ProgressInv'
<1>0. job \in [Engines -> Job] /\ pc \in [Engines -> {"down", "idle"} \cup Busy]
  BY Zenon DEF TypeInv, TypeOK
<1>1. ASSUME NEW e \in Engines, Request(e)
      PROVE  ProgressInv'
  BY <1>1, RequestProgress, Zenon
<1>2. ASSUME NEW e \in Engines, Start(e) \/ ResetInit(e)
      PROVE  ProgressInv'
  <2>1. Alone(e) /\ UNCHANGED migrations /\ pc'[e] = "idle"
    BY <1>0, <1>2, Zenon DEF Start, ResetInit, Goto, Alone
  <2> QED BY <2>1, FreeProgress, Zenon DEF Applying, Unapplying
<1>3. ASSUME NEW e \in Engines, Crash(e) \/ Panic(e)
      PROVE  ProgressInv'
  BY <1>3, ForgetProgress, Zenon DEF Crash, Panic, Halt
<1>4. ASSUME NEW e \in Engines, ReportActive(e)
      PROVE  ProgressInv'
  BY <1>4, ForgetProgress, Zenon DEF ReportActive, Return
<1>5. ASSUME NEW e \in Engines, Step(e)
      PROVE  ProgressInv'
  <2>1. CASE CalculateNext(e) \/ InferDatabaseMigration(e) \/ CheckDestructiveChanges(e)
    BY <2>1, PrepareProgress, Zenon
  <2>2. CASE CreateMigration(e)
    BY <2>2, CreateProgress, Zenon
  <2>3. CASE ApplyStep(e) \/ UnapplyStep(e)
    BY <2>3, StatementProgress, Zenon
  <2>4. CASE ResetDrop(e)
    BY <2>4, ResetProgress, Zenon
  <2>5. CASE MarkInProgress(e)
    BY <2>5, MarkInProgressProgress, Zenon
  <2>6. CASE RecordApplyStep(e)
    BY <2>6, RecordApplyProgress, Zenon
  <2>7. CASE FinishApply(e)
    BY <2>7, FinishApplyProgress, Zenon
  <2>8. CASE FailApply(e)
    BY <2>8, FailApplyProgress, Zenon
  <2>9. CASE MarkRollingBack(e)
    BY <2>9, MarkRollingBackProgress, Zenon
  <2>10. CASE RecordUnapplyStep(e)
    BY <2>10, RecordUnapplyProgress, Zenon
  <2>11. CASE FinishUnapply(e)
    BY <2>11, FinishUnapplyProgress, Zenon
  <2>12. CASE FailUnapply(e)
    BY <2>12, FailUnapplyProgress, Zenon
  <2> QED BY <1>2, <1>3, <1>4, <1>5, <2>1, <2>2, <2>3, <2>4, <2>5, <2>6, <2>7, <2>8, <2>9,
             <2>10, <2>11, <2>12, Zenon DEF Step
<1>6. CASE (\E t \in Models : WriteRows(t)) \/ UNCHANGED vars
  <2>1. UNCHANGED <<migrations, pc, job>>
    BY <1>6, Zenon DEF WriteRows, vars
  <2>2. \A m \in migrations' : RowProgress(m)
    BY <2>1, Zenon DEF ProgressInv
  <2>3. ASSUME NEW d \in Engines
        PROVE  /\ pc'[d] \in {"check", "create"} => Planned(job'[d])
               /\ pc'[d] \in Applying \cup Unapplying
                     => \E m \in migrations' : Driven(job'[d], pc'[d], m)
    BY <2>1, Zenon DEF ProgressInv, EngineProgress
  <2>4. \A d \in Engines : EngineProgress(d)'
    BY ONLY <2>3, Zenon DEF EngineProgress, Planned, Driven, Applies, Unapplies, Own, Tally,
       Remaining, StepCount
  <2> QED BY <2>2, <2>4, Zenon DEF ProgressInv, RowProgress, Counted, StepCount
<1> QED BY <1>1, <1>2, <1>3, <1>5, <1>6, Zenon DEF Next

\* It holds at first.
LEMMA ProgressInit == Init => ProgressInv
<1> SUFFICES ASSUME Init PROVE ProgressInv
  BY Zenon
<1>1. \A e \in Engines : pc[e] = "down"
  BY Zenon DEF Init
<1>2. migrations = {}
  BY Zenon DEF Init
<1> QED BY <1>1, <1>2, Zenon DEF ProgressInv, EngineProgress, Applying, Unapplying

\* It implies that a finished migration counts all its steps.
LEMMA ProgressSuffices == ProgressInv => ProgressIsComplete
BY Zenon DEF ProgressInv, RowProgress, ProgressIsComplete

-----------------------------------------------------------------------------
(* The theorems.                                                           *)

\* go_forward and go_backward with one engine, whatever fails, crashes, is
\* rolled back or is reset: a migration recorded as finished or rolled back has
\* counted every step but the last, and none ever counts more.
THEOREM ProgressOfOneEngine ==
    ASSUME NEW e, Engines = {e}
    PROVE  Spec => []ProgressIsComplete
<1> DEFINE I == TypeInv /\ LedgerInv /\ JobInv /\ ProgressInv
<1>1. Init => I
  BY TypeInit, LedgerInit, JobInit, ProgressInit, Zenon
<1>2. ASSUME I PROVE OneDriver
  <2>1. \A m, n \in migrations : m.revision = n.revision => m = n
    BY <1>2, OneEngine, Zenon DEF UniqueRevisions
  <2> QED BY <2>1, Zenon DEF OneDriver
<1>3. ASSUME I, [Next]_vars PROVE ProgressInv'
  <2>1. \A d \in Engines : StartReset(d) \/ ResetDrop(d) => Engines = {d}
    BY Zenon
  <2> QED BY <1>2, <1>3, <2>1, ProgressStep, Zenon
<1>4. I /\ [Next]_vars => I'
  BY <1>3, TypeStep, LedgerStep, JobStep, Zenon
<1>5. I => ProgressIsComplete
  BY ProgressSuffices, Zenon
<1> HIDE DEF I
<1> QED BY <1>1, <1>4, <1>5, PTL DEF Spec

\* go_forward with any number of engines that apply migrations to one database
\* at the same time, crash and fail at any statement: each counts its own steps
\* in its own row.
THEOREM ProgressOfAllEngines ==
    ASSUME {"unapply", "reset"} \cap Commands = {}
    PROVE  Spec => []ProgressIsComplete
<1> DEFINE I == TypeInv /\ DriversInv /\ JobInv /\ ProgressInv
<1>1. Init => I
  BY TypeInit, DriversInit, JobInit, ProgressInit, Zenon
<1>2. ASSUME I, [Next]_vars PROVE ProgressInv'
  <2>1. ASSUME NEW d \in Engines PROVE ~StartReset(d) /\ ~ResetDrop(d)
    <3>1. DrivesItsRow(d)
      BY <1>2, Zenon DEF DriversInv
    <3> QED BY <3>1, Zenon DEF StartReset, ResetDrop, DrivesItsRow, Resetting
  <2>2. OneDriver
    BY <1>2, Zenon DEF DriversInv
  <2> QED BY <1>2, <2>1, <2>2, ProgressStep, Zenon
<1>3. I /\ [Next]_vars => I'
  BY <1>2, TypeStep, DriversStep, JobStep, Zenon
<1>4. I => ProgressIsComplete
  BY ProgressSuffices, Zenon
<1> HIDE DEF I
<1> QED BY <1>1, <1>3, <1>4, PTL DEF Spec

=============================================================================
