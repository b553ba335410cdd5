--------------------------- MODULE DatamodelSteps ---------------------------
(***************************************************************************)
(* The steps of a migration: the differ of the migration engine, which     *)
(* lists the steps from one datamodel to another (datamodel_differ.rs and  *)
(* its modules), and the calculator, which applies a list of steps to a    *)
(* datamodel (datamodel_calculator.rs).  Both work on the syntax tree;     *)
(* custom types, sources and generators have no steps.                     *)
(*                                                                         *)
(* A value travels in a step as the text it is rendered to.                *)
(***************************************************************************)
EXTENDS DatamodelValidator

FlatMap(seq, Op(_)) == FlattenSeq([i \in DOMAIN seq |-> Op(seq[i])])

-----------------------------------------------------------------------------
(* migration_connector::steps.                                              *)

OnField(model, field) == [on |-> "field", top |-> model, field |-> field]

OnModel(model) == [on |-> "model", top |-> model, field |-> <<>>]

OnEnum(enum) == [on |-> "enum", top |-> enum, field |-> <<>>]

DirectiveLocation(location, directive, arguments) ==
    [location |-> location, directive |-> directive, arguments |-> arguments]

from_ast_argument(argument) == Arg(argument.name, render_value(argument.value))

to_ast_argument(argument) == Arg(argument.name, parse_expression(argument.value))

MatchesByName(locator, directive) == locator.directive = directive.name

(* Both sides have as many arguments, and each of the directive is one of   *)
(* the locator's.                                                           *)
matches_ast_directive(locator, directive) ==
    /\ locator.directive = directive.name
    /\ locator.arguments # <<>> =>
          /\ Len(directive.args) = Len(locator.arguments[1])
          /\ \A i \in DOMAIN directive.args :
                from_ast_argument(directive.args[i]) \in ToSet(locator.arguments[1])

-----------------------------------------------------------------------------
(* Pairing the parts of two datamodels by name.                             *)

Matching(thing, others) == Find(others, LAMBDA o : o.name = thing.name)

Unmatched(these, others) == SelectSeq(these, LAMBDA t : Matching(t, others) = <<>>)

Pairs(previous, next) ==
    FlatMap(previous, LAMBDA p :
        [i \in DOMAIN Matching(p, next) |-> [previous |-> p, next |-> Matching(p, next)[i]]])

model_pairs(differ) == Pairs(differ.previous.models, differ.next.models)

created_models(differ) == Unmatched(differ.next.models, differ.previous.models)

deleted_models(differ) == Unmatched(differ.previous.models, differ.next.models)

enum_pairs(differ) == Pairs(differ.previous.enums, differ.next.enums)

created_enums(differ) == Unmatched(differ.next.enums, differ.previous.enums)

deleted_enums(differ) == Unmatched(differ.previous.enums, differ.next.enums)

created_values(differ) ==
    SelectSeq(differ.next.values, LAMBDA v : v \notin ToSet(differ.previous.values))

deleted_values(differ) ==
    SelectSeq(differ.previous.values, LAMBDA v : v \notin ToSet(differ.next.values))

created_fields(differ) == Unmatched(differ.next.fields, differ.previous.fields)

deleted_fields(differ) == Unmatched(differ.previous.fields, differ.next.fields)

field_pairs(differ) == Pairs(differ.previous.fields, differ.next.fields)

created_directives(differ) == Unmatched(differ.next.directives, differ.previous.directives)

deleted_directives(differ) == Unmatched(differ.previous.directives, differ.next.directives)

directive_pairs(differ) == Pairs(differ.previous.directives, differ.next.directives)

created_arguments(differ) == Unmatched(differ.next.args, differ.previous.args)

deleted_arguments(differ) == Unmatched(differ.previous.args, differ.next.args)

argument_pairs(differ) == Pairs(differ.previous.args, differ.next.args)

(* The directives a model may have more than one of are not paired.         *)
RepeatedModelDirectives == {"unique", "index"}

is_repeated(directive) == directive.name \in RepeatedModelDirectives

Regular(model) ==
    [model EXCEPT !.directives = SelectSeq(@, LAMBDA d : ~is_repeated(d))]

RegularDiffer(differ) ==
    [previous |-> Regular(differ.previous), next |-> Regular(differ.next)]

(* Every argument of the first is one of the second.                        *)
directives_are_identical(previous, next) ==
    /\ previous.name = next.name
    /\ Len(previous.args) = Len(next.args)
    /\ \A i \in DOMAIN previous.args : \E j \in DOMAIN next.args :
          from_ast_argument(previous.args[i]) = from_ast_argument(next.args[j])

created_repeated_directives(differ) ==
    SelectSeq(SelectSeq(differ.next.directives, is_repeated), LAMBDA n :
        \A p \in ToSet(SelectSeq(differ.previous.directives, is_repeated)) :
            ~directives_are_identical(p, n))

deleted_repeated_directives(differ) ==
    SelectSeq(SelectSeq(differ.previous.directives, is_repeated), LAMBDA p :
        \A n \in ToSet(SelectSeq(differ.next.directives, is_repeated)) :
            ~directives_are_identical(p, n))

-----------------------------------------------------------------------------
(* The differ.                                                              *)

push_created_directive_argument(locator, argument) ==
    [step |-> "CreateDirectiveArgument", locator |-> locator,
     argument |-> argument.name, value |-> render_value(argument.value)]

push_updated_directive_argument(locator, pair) ==
    LET new == render_value(pair.next.value) IN
    IF render_value(pair.previous.value) = new THEN <<>>
    ELSE <<[step |-> "UpdateDirectiveArgument", locator |-> locator,
            argument |-> pair.next.name, value |-> new]>>

push_deleted_directive_argument(locator, argument) ==
    [step |-> "DeleteDirectiveArgument", locator |-> locator, argument |-> argument.name]

push_created_directive(location, directive) ==
    LET locator == DirectiveLocation(location, directive.name, <<>>) IN
    <<[step |-> "CreateDirective", locator |-> locator]>>
    \o [i \in DOMAIN directive.args |->
           push_created_directive_argument(locator, directive.args[i])]

push_updated_directive(location, differ) ==
    LET locator == DirectiveLocation(location, differ.previous.name, <<>>)
        created == created_arguments(differ)
        deleted == deleted_arguments(differ)
    IN [i \in DOMAIN created |-> push_created_directive_argument(locator, created[i])]
       \o FlatMap(argument_pairs(differ), LAMBDA p : push_updated_directive_argument(locator, p))
       \o [i \in DOMAIN deleted |-> push_deleted_directive_argument(locator, deleted[i])]

push_deleted_directive(location, directive) ==
    [step |-> "DeleteDirective", locator |-> DirectiveLocation(location, directive.name, <<>>)]

WithArguments(location, directive) ==
    DirectiveLocation(location, directive.name,
                      <<[i \in DOMAIN directive.args |-> from_ast_argument(directive.args[i])]>>)

push_created_directive_with_arguments(location, directive) ==
    [step |-> "CreateDirective", locator |-> WithArguments(location, directive)]

push_deleted_directive_with_arguments(location, directive) ==
    [step |-> "DeleteDirective", locator |-> WithArguments(location, directive)]

push_created_directives(location, directives) ==
    FlatMap(directives, LAMBDA d : push_created_directive(location, d))

push_updated_directives(location, pairs) ==
    FlatMap(pairs, LAMBDA p : push_updated_directive(location, p))

push_deleted_directives(location, directives) ==
    [i \in DOMAIN directives |-> push_deleted_directive(location, directives[i])]

push_changed_directives(location, differ) ==
    push_created_directives(location, created_directives(differ))
    \o push_updated_directives(location, directive_pairs(differ))
    \o push_deleted_directives(location, deleted_directives(differ))

diff_value(current, updated) == IF current = updated THEN <<>> ELSE <<updated>>

push_created_fields(model, fields) ==
    FlatMap(fields, LAMBDA f :
        <<[step |-> "CreateField", model |-> model, field |-> f.name,
           tpe |-> f.tpe, arity |-> f.arity]>>
        \o push_created_directives(OnField(model, f.name), f.directives))

push_deleted_fields(model, fields) ==
    [i \in DOMAIN fields |-> [step |-> "DeleteField", model |-> model, field |-> fields[i].name]]

PushUpdatedTypes(model, pairs) ==
    FlatMap(pairs, LAMBDA p :
        LET tpe == diff_value(p.previous.tpe, p.next.tpe) IN
        (IF tpe = <<>> THEN <<>>
         ELSE <<[step |-> "UpdateField", model |-> model, field |-> p.previous.name,
                 new_name |-> <<>>, tpe |-> tpe,
                 arity |-> diff_value(p.previous.arity, p.next.arity)]>>)
        \o push_changed_directives(OnField(model, p.previous.name), p))

(* Fields are paired by their names, so an inferred step renames nothing.   *)
push_updated_fields(model, pairs) ==
    FlatMap(pairs, LAMBDA p :
        LET tpe == diff_value(p.previous.tpe, p.next.tpe)
            arity == diff_value(p.previous.arity, p.next.arity)
        IN (IF tpe = <<>> /\ arity = <<>> THEN <<>>
            ELSE <<[step |-> "UpdateField", model |-> model, field |-> p.previous.name,
                    new_name |-> <<>>, tpe |-> tpe, arity |-> arity]>>)
           \o push_changed_directives(OnField(model, p.previous.name), p))

push_created_models(models) ==
    FlatMap(models, LAMBDA m :
        <<[step |-> "CreateModel", model |-> m.name]>>
        \o push_created_fields(m.name, m.fields)
        \o push_created_directives(OnModel(m.name), m.directives))

push_deleted_models(models) ==
    [i \in DOMAIN models |-> [step |-> "DeleteModel", model |-> models[i].name]]

push_updated_models(pairs) ==
    FlatMap(pairs, LAMBDA p :
        LET name == p.previous.name
            created == created_repeated_directives(p)
            deleted == deleted_repeated_directives(p)
        IN push_created_fields(name, created_fields(p))
           \o push_deleted_fields(name, deleted_fields(p))
           \o push_updated_fields(name, field_pairs(p))
           \o push_changed_directives(OnModel(name), RegularDiffer(p))
           \o [i \in DOMAIN created |->
                  push_created_directive_with_arguments(OnModel(name), created[i])]
           \o [i \in DOMAIN deleted |->
                  push_deleted_directive_with_arguments(OnModel(name), deleted[i])])

push_models(differ) ==
    push_created_models(created_models(differ))
    \o push_deleted_models(deleted_models(differ))
    \o push_updated_models(model_pairs(differ))

push_created_enums(enums) ==
    FlatMap(enums, LAMBDA e :
        <<[step |-> "CreateEnum", enum |-> e.name, values |-> e.values]>>
        \o push_created_directives(OnEnum(e.name), e.directives))

push_deleted_enums(enums) ==
    [i \in DOMAIN enums |-> [step |-> "DeleteEnum", enum |-> enums[i].name]]

push_updated_enums(pairs) ==
    FlatMap(pairs, LAMBDA p :
        LET created == created_values(p)
            deleted == deleted_values(p)
        IN (IF created = <<>> /\ deleted = <<>> THEN <<>>
            ELSE <<[step |-> "UpdateEnum", enum |-> p.previous.name, new_name |-> <<>>,
                    created_values |-> created, deleted_values |-> deleted]>>)
           \o push_changed_directives(OnEnum(p.previous.name), p))

push_enums(differ) ==
    push_created_enums(created_enums(differ))
    \o push_deleted_enums(deleted_enums(differ))
    \o push_updated_enums(enum_pairs(differ))

diff(previous, next) ==
    push_enums([previous |-> previous, next |-> next])
    \o push_models([previous |-> previous, next |-> next])

-----------------------------------------------------------------------------
(* The calculator.                                                          *)

EnumIndex(schema, name) == SelectInSeq(schema.enums, LAMBDA e : e.name = name)

apply_create_enum(schema, s) ==
    IF find_enum(schema, s.enum) # <<>> THEN Err
    ELSE Ok([schema EXCEPT !.enums =
                Append(@, [name |-> s.enum, values |-> s.values, directives |-> <<>>])])

(* The new name, and the values added and then removed.                     *)
apply_update_enum(schema, s) ==
    LET i == EnumIndex(schema, s.enum) IN
    IF i = 0 THEN Err
    ELSE Ok([schema EXCEPT
                !.enums[i].name = OrElse(s.new_name, @),
                !.enums[i].values = SelectSeq(@ \o s.created_values,
                                              LAMBDA v : v \notin ToSet(s.deleted_values))])

apply_delete_enum(schema, s) ==
    IF find_enum(schema, s.enum) = <<>> THEN Err
    ELSE Ok([schema EXCEPT !.enums = SelectSeq(@, LAMBDA e : e.name # s.enum)])

apply_create_model(schema, s) ==
    IF find_model(schema, s.model) # <<>> THEN Err
    ELSE Ok([schema EXCEPT !.models =
                Append(@, [name |-> s.model, fields |-> <<>>, directives |-> <<>>])])

apply_update_model(schema, s) ==
    LET i == ModelIndex(schema, s.model) IN
    IF i = 0 THEN Err ELSE Ok([schema EXCEPT !.models[i].name = OrElse(s.new_name, @)])

apply_delete_model(schema, s) ==
    IF find_model(schema, s.model) = <<>> THEN Err
    ELSE Ok([schema EXCEPT !.models = SelectSeq(@, LAMBDA m : m.name # s.model)])

(* The index of a field of a model, 0 when either is missing.               *)
FieldAt(schema, model, field) ==
    LET i == ModelIndex(schema, model) IN
    IF i = 0 THEN 0 ELSE FieldIndex(schema.models[i], field)

apply_create_field(schema, s) ==
    LET i == ModelIndex(schema, s.model) IN
    IF FieldAt(schema, s.model, s.field) # 0 \/ i = 0 THEN Err
    ELSE Ok([schema EXCEPT !.models[i].fields =
                Append(@, [name |-> s.field, tpe |-> s.tpe, arity |-> s.arity,
                           directives |-> <<>>])])

apply_update_field(schema, s) ==
    LET j == FieldAt(schema, s.model, s.field) IN
    IF j = 0 THEN Err
    ELSE Ok([schema EXCEPT !.models[ModelIndex(schema, s.model)].fields[j] =
                [@ EXCEPT !.arity = OrElse(s.arity, @), !.tpe = OrElse(s.tpe, @),
                          !.name = OrElse(s.new_name, @)]])

apply_delete_field(schema, s) ==
    IF FieldAt(schema, s.model, s.field) = 0 THEN Err
    ELSE Ok([schema EXCEPT !.models[ModelIndex(schema, s.model)].fields =
                SelectSeq(@, LAMBDA f : f.name # s.field)])

(* The directives of a place, as an optional value.                         *)
find_directives(schema, at) ==
    CASE at.on = "enum" -> [i \in DOMAIN find_enum(schema, at.top) |->
                               find_enum(schema, at.top)[i].directives]
      [] at.on = "model" -> [i \in DOMAIN find_model(schema, at.top) |->
                                find_model(schema, at.top)[i].directives]
      [] at.on = "field" ->
            LET j == FieldAt(schema, at.top, at.field) IN
            IF j = 0 THEN <<>>
            ELSE <<schema.models[ModelIndex(schema, at.top)].fields[j].directives>>

WithDirectives(schema, at, directives) ==
    CASE at.on = "enum" -> [schema EXCEPT !.enums[EnumIndex(schema, at.top)].directives = directives]
      [] at.on = "model" ->
            [schema EXCEPT !.models[ModelIndex(schema, at.top)].directives = directives]
      [] at.on = "field" ->
            [schema EXCEPT !.models[ModelIndex(schema, at.top)]
                            .fields[FieldAt(schema, at.top, at.field)].directives = directives]

AreExpressions(args) == \A i \in DOMAIN args : IsExpression(args[i].value)

(* A directive is added whether or not there is one of that name.           *)
apply_create_directive(schema, s) ==
    LET at == s.locator.location
        here == find_directives(schema, at)
        args == OrElse(s.locator.arguments, <<>>)
    IN CASE here = <<>> -> Err
         [] ~AreExpressions(args) -> Panic
         [] OTHER -> Ok(WithDirectives(schema, at, Append(here[1],
                            Dir(s.locator.directive,
                                [i \in DOMAIN args |-> to_ast_argument(args[i])]))))

apply_delete_directive(schema, s) ==
    LET at == s.locator.location
        here == find_directives(schema, at)
    IN IF here = <<>> THEN Err
       ELSE Ok(WithDirectives(schema, at,
                   SelectSeq(here[1], LAMBDA d : ~matches_ast_directive(s.locator, d))))

(* The first directive of the name, whatever its arguments: 0 if there is   *)
(* none, which the steps on arguments unwrap.                               *)
find_directive(schema, locator) ==
    LET here == find_directives(schema, locator.location) IN
    IF here = <<>> THEN 0 ELSE SelectInSeq(here[1], LAMBDA d : d.name = locator.directive)

(* The arguments of a directive after a step on them.                       *)
apply_create_directive_argument(args, s) ==
    Append(args, to_ast_argument(Arg(s.argument, s.value)))

apply_update_directive_argument(args, s) ==
    [j \in DOMAIN args |-> IF args[j].name = s.argument
                           THEN to_ast_argument(Arg(s.argument, s.value)) ELSE args[j]]

apply_delete_directive_argument(args, s) == SelectSeq(args, LAMBDA a : a.name # s.argument)

AppliedToArguments(args, s) ==
    CASE s.step = "CreateDirectiveArgument" -> apply_create_directive_argument(args, s)
      [] s.step = "UpdateDirectiveArgument" -> apply_update_directive_argument(args, s)
      [] s.step = "DeleteDirectiveArgument" -> apply_delete_directive_argument(args, s)

(* A step that does not find the directive panics, and so does one whose    *)
(* value does not parse.                                                    *)
apply_directive_argument(schema, s, i) ==
    IF i = 0 \/ (s.step # "DeleteDirectiveArgument" /\ ~IsExpression(s.value)) THEN Panic
    ELSE Ok(WithDirectives(schema, s.locator.location,
                [find_directives(schema, s.locator.location)[1] EXCEPT
                    ![i].args = AppliedToArguments(@, s)]))

apply_step(schema, s) ==
    CASE s.step = "CreateEnum" -> apply_create_enum(schema, s)
      [] s.step = "UpdateEnum" -> apply_update_enum(schema, s)
      [] s.step = "DeleteEnum" -> apply_delete_enum(schema, s)
      [] s.step = "CreateModel" -> apply_create_model(schema, s)
      [] s.step = "UpdateModel" -> apply_update_model(schema, s)
      [] s.step = "DeleteModel" -> apply_delete_model(schema, s)
      [] s.step = "CreateField" -> apply_create_field(schema, s)
      [] s.step = "UpdateField" -> apply_update_field(schema, s)
      [] s.step = "DeleteField" -> apply_delete_field(schema, s)
      [] s.step = "CreateDirective" -> apply_create_directive(schema, s)
      [] s.step = "DeleteDirective" -> apply_delete_directive(schema, s)
      [] OTHER -> apply_directive_argument(schema, s, find_directive(schema, s.locator))

(* infer: the first step that fails ends it, and the schema is a copy.      *)
Calculate(schema, steps) ==
    FoldLeft(LAMBDA acc, s : IF acc.st = "ok" THEN apply_step(acc.v, s) ELSE acc,
             Ok(schema), steps)

-----------------------------------------------------------------------------
(* datamodel::lift_ast: the phases of the ValidationPipeline, without the   *)
(* early return of a source that cannot be loaded.                          *)

Phases(prechecked, validated, standardised) ==
    CASE validated.st = "panic" \/ standardised.st = "panic" -> Panic
      [] ~prechecked \/ validated.st = "err" -> Err
      [] OTHER -> standardised

lift_ast(ast) ==
    AndThen(lift(ast), LAMBDA dm : Phases(precheck(ast), validate(dm), standardise(dm)))

parse_datamodel(text) == AndThen(Parse(text), lift_ast)

render_datamodel(dm) == Render(lower(dm))
=============================================================================
