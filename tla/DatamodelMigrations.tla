------------------------ MODULE DatamodelMigrations ------------------------
(***************************************************************************)
(* Datamodels and the steps between them over a history of migrations:     *)
(* clients have steps inferred for the datamodel they have edited          *)
(* (infer_migration_steps.rs) or write them by hand, and apply them later  *)
(* (apply_migration.rs), when another client may have applied its own.     *)
(*                                                                         *)
(* The ledger and the database are those of MigrationEngine and            *)
(* SqlMigration; here every migration that is applied succeeds, and a row  *)
(* is what the ledger keeps of it: the text of the datamodel, the steps    *)
(* and whether it is a migration of the watch mode.                        *)
(***************************************************************************)
EXTENDS DatamodelSteps

CONSTANTS
    Clients,
    MaxMigrations,      \* bound: the rows of the ledger
    MaxPending          \* bound: the plans a client has

VARIABLES
    inputs,             \* the texts that are edited, the steps written by hand and
                        \* the modes (watch or not) of a behaviour
    history,            \* the rows of the ledger
    pending,            \* by client: the plans to be applied, in order
    reply               \* what the last command has returned

vars == <<inputs, history, pending, reply>>

NoReply == [command |-> "none", st |-> "ok", fresh |-> FALSE, plan |-> <<>>]

(* A text that a client has edited, and what parsing it gives.              *)
Edited(text) == [text |-> text, ast |-> Parse(text).v, datamodel |-> parse_datamodel(text)]

Start(texts, scripts, modes) ==
    /\ inputs = [targets |-> {Edited(text) : text \in texts}, scripts |-> scripts,
                 modes |-> modes]
    /\ history = <<>>
    /\ pending = [c \in Clients |-> <<>>]
    /\ reply = NoReply

-----------------------------------------------------------------------------
(* The ledger.  A row is read with its datamodel; that what is recorded is  *)
(* valid when it is read is a question to DatamodelPipeline.                *)

LastNonWatch == SelectLastInSeq(history, LAMBDA row : ~row.watch)

AstOf(i) == IF i = 0 THEN EmptyAst ELSE Parse(history[i].text).v

CurrentAst == AstOf(Len(history))

AllSteps(plans) == FlattenSeq([i \in DOMAIN plans |-> plans[i].steps])

-----------------------------------------------------------------------------
(* inferMigrationSteps.  The plans that a client has are assumed to be      *)
(* applied.                                                                 *)

Plan(steps, base, watch, target) ==
    [steps |-> steps, base |-> base, watch |-> watch, target |-> target]

(* The steps, from the assumed datamodel in watch mode and from that of the *)
(* last other migration otherwise.                                          *)
InferredPlan(assumed, target, watch) ==
    LET base == IF watch THEN assumed ELSE AstOf(LastNonWatch) IN
    Ok(Plan(diff(base, target.ast), base, watch, <<target>>))

infer_migration_steps(assume, target, watch) ==
    AndThen(Calculate(CurrentAst, assume), LAMBDA assumed :
    AndThen(lift_ast(assumed), LAMBDA assumed_datamodel :
    AndThen(target.datamodel, LAMBDA next_datamodel :
        InferredPlan(assumed, target, watch))))

Planned(c, assume, result) ==
    pending' = [pending EXCEPT ![c] =
        CASE result.st # "ok" -> <<>>
          [] assume /\ result.v.watch -> Append(@, result.v)
          [] OTHER -> <<result.v>>]

InferMigrationSteps(c, target, watch, assume) ==
    /\ Len(history) < MaxMigrations
    /\ assume <=> pending[c] # <<>>
    /\ assume /\ watch => Len(pending[c]) < MaxPending
    /\ \E result \in {infer_migration_steps(IF assume THEN AllSteps(pending[c]) ELSE <<>>,
                                            target, watch)} :
          /\ Planned(c, assume, result)
          /\ reply' = [NoReply EXCEPT !.st = result.st]
    /\ UNCHANGED <<inputs, history>>

(* A plan that is not inferred.                                             *)
WriteSteps(c, steps) ==
    /\ Len(history) < MaxMigrations /\ pending[c] = <<>>
    /\ pending' = [pending EXCEPT ![c] = <<Plan(steps, EmptyAst, FALSE, <<>>)>>]
    /\ reply' = NoReply
    /\ UNCHANGED <<inputs, history>>

-----------------------------------------------------------------------------
(* applyMigration.                                                          *)

(* Mutant: every migration starts from the last one that is not of the watch *)
(* mode.                                                                    *)
BaseIsSaved(watch) == LastNonWatch

(* Leaving the watch mode starts from the last migration that is not of it. *)
BaseOf(watch) ==
    IF history # <<>> /\ Last(history).watch /\ ~watch THEN LastNonWatch ELSE Len(history)

apply_migration(plan, base) ==
    AndThen(Calculate(AstOf(base), plan.steps), LAMBDA next_ast :
    AndThen(lift_ast(next_ast), LAMBDA next_datamodel :
        Ok([ast |-> next_ast, datamodel |-> next_datamodel])))

(* Beside the text, the tree and the datamodel it is made from.             *)
Row(plan, next, text) ==
    [text |-> text, ast |-> next.ast, datamodel |-> next.datamodel,
     steps |-> plan.steps, watch |-> plan.watch]

Recorded(c, plan, base, result) ==
    /\ reply' = [command |-> "apply", st |-> result.st, plan |-> <<plan>>,
                 fresh |-> plan.target # <<>> /\ plan.base = AstOf(base)]
    /\ \/ /\ result.st = "ok"
          /\ history' = Append(history, Row(plan, result.v, render_datamodel(result.v.datamodel)))
          /\ pending' = [pending EXCEPT ![c] = Tail(@)]
       \/ /\ result.st # "ok"
          /\ pending' = [pending EXCEPT ![c] = <<>>]
          /\ UNCHANGED history

ApplyMigration(c) ==
    /\ pending[c] # <<>>
    /\ Len(history) < MaxMigrations
    /\ \E plan \in {Head(pending[c])} : \E base \in {BaseOf(plan.watch)} :
          Recorded(c, plan, base, apply_migration(plan, base))
    /\ UNCHANGED inputs

CalculateFromCurrent(steps) == Calculate(CurrentAst, steps)

(* calculateDatamodel: the steps from nothing.                              *)
calculate_datamodel(steps) == Calculate(EmptyAst, steps)

Next ==
    \E c \in Clients :
        \/ \E target \in inputs.targets, watch \in inputs.modes, assume \in inputs.modes :
              InferMigrationSteps(c, target, watch, assume)
        \/ \E steps \in inputs.scripts : WriteSteps(c, steps)
        \/ ApplyMigration(c)

-----------------------------------------------------------------------------
(* Properties.                                                              *)

(* What a datamodel says, whatever the order it is written in.              *)
Meaning(dm) ==
    [models |-> {[dm.models[i] EXCEPT !.fields = ToSet(@), !.indexes = ToSet(@)] :
                    i \in DOMAIN dm.models},
     enums |-> {[dm.enums[i] EXCEPT !.values = ToSet(@)] : i \in DOMAIN dm.enums}]

Means(result, dm) == result.st = "ok" /\ Meaning(result.v) = Meaning(dm)

(* A model that the steps create has a directive twice: the arguments of    *)
(* both go to the first.                                                    *)
CreatesRepeated(plan) ==
    \E i, j \in DOMAIN plan.steps :
        /\ i # j /\ plan.steps[i] = plan.steps[j]
        /\ plan.steps[i].step = "CreateDirective" /\ plan.steps[i].locator.arguments = <<>>

UsesCustomType(plan) == plan.target[1].text.types # <<>>

Reaches(plan) ==
    /\ reply.st = "ok"
    /\ Meaning(Last(history).datamodel) = Meaning(plan.target[1].datamodel.v)

(* Steps inferred for a datamodel, applied to the datamodel they were       *)
(* inferred from, are accepted and give what the text of the user means,    *)
(* but for custom types, which have no steps, and for a new model with a    *)
(* directive it has twice.                                                  *)
InferredStepsReach ==
    reply.fresh =>
        \/ Reaches(reply.plan[1])
        \/ CreatesRepeated(reply.plan[1])
        \/ UsesCustomType(reply.plan[1])

(* Inferring the datamodel that was applied once more may give steps, since *)
(* what is recorded is not what was written; they change nothing.           *)
ReinferringIsNeutral ==
    reply.fresh /\ reply.st = "ok" =>
        LET base == AstOf(BaseOf(reply.plan[1].watch))
            steps == diff(base, reply.plan[1].target[1].ast)
        IN Means(AndThen(Calculate(base, steps), lift_ast), Last(history).datamodel)

(* The names of the models, fields and enums of a syntax tree.              *)
Names(ast) ==
    {<<"enum", ast.enums[i].name>> : i \in DOMAIN ast.enums}
    \cup {<<"model", ast.models[i].name>> : i \in DOMAIN ast.models}
    \cup UNION {{<<"field", ast.models[i].name, ast.models[i].fields[j].name>> :
                    j \in DOMAIN ast.models[i].fields} : i \in DOMAIN ast.models}

(* Of the datamodel before the last migration, what was added in watch mode *)
(* and is in no saved migration.                                            *)
Unsaved ==
    LET earlier == Front(history) IN
    Names(AstOf(Len(earlier))) \ Names(AstOf(SelectLastInSeq(earlier, LAMBDA row : ~row.watch)))

(* A plan that is out of date deletes nothing that it was not inferred      *)
(* from: what others have added in between is still in the datamodel that   *)
(* follows the current one, but for fields they have added to a model that  *)
(* the plan deletes, and but for what was only tried out in watch mode when *)
(* a saved plan ends it (handle_transition_out_of_watch_mode).              *)
OthersAreKept ==
    reply.plan # <<>> /\ reply.st = "ok" /\ reply.plan[1].target # <<>> =>
        LET base == Names(reply.plan[1].base) IN
        \A name \in Names(AstOf(Len(history) - 1)) \ base :
            \/ name \in Names(CurrentAst)
            \/ name[1] = "field" /\ <<"model", name[2]>> \in base \ Names(CurrentAst)
            \/ ~reply.plan[1].watch /\ name \in Unsaved

(* A text, whatever the order of its directives.                            *)
Unordered(text) ==
    LET dirs(ds) == {[name |-> ds[i].name, args |-> ToSet(ds[i].args)] : i \in DOMAIN ds}
        field(f) == [name |-> f.name, tpe |-> f.tpe, arity |-> f.arity,
                     directives |-> dirs(f.directives)]
        model(m) == [name |-> m.name, directives |-> dirs(m.directives),
                     fields |-> {field(m.fields[i]) : i \in DOMAIN m.fields}]
    IN <<{model(text.models[i]) : i \in DOMAIN text.models}, ToSet(text.enums)>>

(* A row is written as its steps say.                                       *)
AsWritten(row) == Unordered(row.text) = Unordered(Render(row.ast))

(* The steps of the saved migrations, from nothing, lead to the datamodel   *)
(* of the last, as calculateDatamodel has it; as long as the datamodels are *)
(* recorded as they were written, without a default name or references      *)
(* left out.                                                                *)
HistoryReplays ==
    LET saved == SelectSeq(history, LAMBDA row : ~row.watch) IN
    /\ reply.command = "apply" /\ saved # <<>>
    /\ \A i \in DOMAIN saved : AsWritten(saved[i])
    => Means(AndThen(calculate_datamodel(AllSteps(saved)), lift_ast), Last(saved).datamodel)
=============================================================================
