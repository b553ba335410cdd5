----------------------------- MODULE Directives -----------------------------
(***************************************************************************)
(* The directives of a datamodel (libs/datamodel/src/common and            *)
(* validator/directive): how a value is evaluated and converted, how the   *)
(* arguments of a directive are looked up, what each builtin directive     *)
(* does to the field or model it stands on, and how a field or model is    *)
(* written back as directives.                                             *)
(*                                                                         *)
(* String interpolation and the namespaced directives of a datasource are  *)
(* left out.  The texts a Rust parse::<T>() accepts are listed for the     *)
(* atoms that are numbers or timestamps.                                   *)
(***************************************************************************)
EXTENDS SchemaAst

CONSTANT Env            \* the environment: a function from names to texts

-----------------------------------------------------------------------------
(* PrismaType, and the texts of its values.                                 *)

PrismaType == {<<"Int">>, <<"Float">>, <<"Decimal">>, <<"Boolean">>,
               <<"String">>, <<"DateTime">>}

IntTexts == {<<"0">>, <<"1">>}

(* What f32::to_string writes for the text it has read.                     *)
FloatText(text) == IF text = <<"1.0">> THEN <<"1">> ELSE text

(* dml::Value: a value of a type, a constant literal or a server-side call. *)
DmlValue(tpe, text) == [tpe |-> tpe, t |-> text, call |-> FALSE]

DmlCall(tpe, name) == [tpe |-> tpe, t |-> name, call |-> TRUE]

ConstantLiteral(text) == DmlValue(<<"Constant">>, text)

-----------------------------------------------------------------------------
(* FunctionalEvaluator: the builtin functions.  A server-side function is   *)
(* kept as an expression of its return type; env() becomes a value of any   *)
(* kind that remembers its variable.                                        *)

ReturnType(name) ==
    CASE name = <<"now">> -> <<"DateTime">>
      [] OTHER -> <<"String">>

ServerSide == {<<"now">>, <<"cuid">>, <<"uuid">>}

Evaluated(expr, value) == Ok([expr |-> expr, value |-> value, env |-> <<>>])

FromEnv(variable) ==
    Ok([expr |-> FALSE, value |-> AnyValue(Env[variable]), env |-> <<variable>>])

IsLiteral(e, kinds) == ~e.expr /\ e.value.k \in kinds \cup {"any"}

as_str(e) == IF IsLiteral(e, {"string"}) THEN Ok(e.value.t) ELSE Err

(* EnvFunctional::apply on its evaluated parameters.                        *)
apply_env(params) ==
    IF Len(params) # 1 THEN Err
    ELSE LET variable == as_str(params[1]) IN
         IF variable.st = "ok" /\ variable.v \in DOMAIN Env
         THEN FromEnv(variable.v) ELSE Err

(* ValueValidator::new.                                                     *)
RECURSIVE evaluate(_)
evaluate(value) ==
    IF value.k # "function" THEN Evaluated(FALSE, value)
    ELSE LET params == Collected([i \in DOMAIN value.a |-> evaluate(value.a[i])]) IN
         CASE params.st # "ok" -> Err
           [] value.t = <<"env">> -> apply_env(params.v)
           [] value.t \in ServerSide /\ params.v = <<>> -> Evaluated(TRUE, value)
           [] OTHER -> Err

as_int(e) ==
    IF IsLiteral(e, {"numeric"}) /\ e.value.t \in IntTexts THEN Ok(e.value.t) ELSE Err

as_float(e) ==
    IF IsLiteral(e, {"numeric"}) /\ e.value.t[1] \in Numerals
    THEN Ok(FloatText(e.value.t)) ELSE Err

as_bool(e) ==
    IF IsLiteral(e, {"boolean"}) /\ e.value.t \in {<<"true">>, <<"false">>}
    THEN Ok(e.value.t) ELSE Err

as_date_time(e) ==
    IF IsLiteral(e, {"string"}) /\ e.value.t[1] \in Timestamps THEN Ok(e.value.t) ELSE Err

as_constant_literal(e) == IF IsLiteral(e, {"constant"}) THEN Ok(e.value.t) ELSE Err

(* A single value stands for the array that holds it.                       *)
as_array(e) ==
    IF ~e.expr /\ e.value.k = "array"
    THEN Collected([i \in DOMAIN e.value.a |-> evaluate(e.value.a[i])])
    ELSE Ok(<<e>>)

to_str_vec(es) == Collected([i \in DOMAIN es |-> as_str(es[i])])

to_literal_vec(es) == Collected([i \in DOMAIN es |-> as_constant_literal(es[i])])

Typed(tpe, result) ==
    IF result.st = "ok" THEN Ok(DmlValue(tpe, result.v)) ELSE result

as_type(e, tpe) ==
    IF e.expr
    THEN IF ReturnType(e.value.t) = tpe THEN Ok(DmlCall(tpe, e.value.t)) ELSE Err
    ELSE Typed(tpe, CASE tpe = <<"Int">> -> as_int(e)
                      [] tpe \in {<<"Float">>, <<"Decimal">>} -> as_float(e)
                      [] tpe = <<"Boolean">> -> as_bool(e)
                      [] tpe = <<"DateTime">> -> as_date_time(e)
                      [] tpe = <<"String">> -> as_str(e))

(* Into<ast::Expression> for dml::Value.  A timestamp becomes a constant.   *)
ToExpression(value) ==
    CASE value.call -> Call(value.t, <<>>)
      [] value.tpe \in {<<"Int">>, <<"Float">>, <<"Decimal">>} -> Num(value.t)
      [] value.tpe = <<"Boolean">> -> Bool(value.t)
      [] value.tpe = <<"String">> -> Str(value.t)
      [] OTHER -> Const(value.t)

-----------------------------------------------------------------------------
(* Arguments.                                                               *)

arg_internal(args, name) == Find(args, LAMBDA a : a.name = name)

arg(args, name) ==
    LET found == arg_internal(args, name) IN
    IF found = <<>> THEN Err ELSE evaluate(found[1].value)

(* The argument of that name or the unnamed one; both at once is an error.  *)
default_arg(args, name) ==
    LET named == arg_internal(args, name)
        unnamed == arg_internal(args, "")
    IN IF (named = <<>>) = (unnamed = <<>>) THEN Err
       ELSE evaluate((named \o unnamed)[1].value)

check_for_duplicate_arguments(args) ==
    \A i, j \in DOMAIN args : args[i].name = args[j].name => i = j

(* The arguments a directive has looked up when it succeeds.                *)
UsedArguments(directive) ==
    CASE directive = "default" -> {"value", ""}
      [] directive = "map" -> {"name", ""}
      [] directive = "relation" -> {"name", "", "references", "onDelete"}
      [] directive = "scalarList" -> {"strategy"}
      [] directive = "sequence" -> {"name", "allocationSize", "initialValue"}
      [] directive = "id" -> {"strategy"}
      [] OTHER -> {}

UsedModelArguments(directive) ==
    CASE directive \in {"unique", "index"} -> {"name", "fields", ""}
      [] directive = "map" -> {"name", ""}
      [] directive = "id" -> {"fields", ""}
      [] OTHER -> {}

check_for_unused_arguments(args, used) == \A i \in DOMAIN args : args[i].name \in used

(* A step on the result of an earlier one, with its early return.           *)
AndThen(result, Step(_)) == IF result.st = "ok" THEN Step(result.v) ELSE result

-----------------------------------------------------------------------------
(* The field directives: validate_and_apply of each.                        *)

apply_default(args, field) ==
    IF field.arity = "List" \/ field.kind = "relation" THEN Err
    ELSE AndThen(default_arg(args, "value"), LAMBDA e :
         AndThen(IF field.kind = "base" THEN as_type(e, field.tpe)
                 ELSE Typed(<<"Constant">>, as_constant_literal(e)),
                 LAMBDA v : Ok([field EXCEPT !.default_value = <<v>>])))

(* An argument that cannot be evaluated counts as absent.                   *)
apply_id(args, field) ==
    LET strategy == arg(args, "strategy")
        info(s) == Ok([field EXCEPT !.id_info = <<[strategy |-> s, sequence |-> <<>>]>>])
    IN CASE field.arity # "Required" -> Err
         [] strategy.st = "err" -> info(<<"AUTO">>)
         [] OTHER -> AndThen(as_constant_literal(strategy.v), LAMBDA s :
                        IF s \in {<<"AUTO">>, <<"NONE">>} THEN info(s) ELSE Err)

apply_map(args, obj) ==
    AndThen(default_arg(args, "name"), LAMBDA e :
    AndThen(as_str(e), LAMBDA name : Ok([obj EXCEPT !.database_name = <<name>>])))

relation_name(args, field) ==
    LET name == default_arg(args, "name") IN
    IF name.st = "err" THEN Ok(field)
    ELSE AndThen(as_str(name.v), LAMBDA n :
            IF n = <<>> THEN Err ELSE Ok([field EXCEPT !.rel = n]))

relation_references(args, field) ==
    LET references == arg(args, "references") IN
    IF references.st = "err" THEN Ok(field)
    ELSE AndThen(as_array(references.v), LAMBDA es :
         AndThen(to_literal_vec(es), LAMBDA names :
            Ok([field EXCEPT !.to_fields = names])))

relation_on_delete(args, field) ==
    LET on_delete == arg(args, "onDelete") IN
    IF on_delete.st = "err" THEN Ok(field)
    ELSE AndThen(as_constant_literal(on_delete.v), LAMBDA s :
            IF s \in {<<"CASCADE">>, <<"NONE">>}
            THEN Ok([field EXCEPT !.on_delete = s]) ELSE Err)

apply_relation(args, field) ==
    IF field.kind # "relation" THEN Err
    ELSE AndThen(relation_name(args, field), LAMBDA named :
         AndThen(relation_references(args, named), LAMBDA referring :
                 relation_on_delete(args, referring)))

apply_scalar_list(args, field) ==
    AndThen(arg(args, "strategy"), LAMBDA e :
    AndThen(as_constant_literal(e), LAMBDA s :
        IF s \in {<<"EMBEDDED">>, <<"RELATION">>}
        THEN Ok([field EXCEPT !.scalar_list_strategy = <<s>>]) ELSE Err))

(* The field must be an id already: @sequence comes after @id.              *)
apply_sequence(args, field) ==
    AndThen(arg(args, "name"), LAMBDA n : AndThen(as_str(n), LAMBDA name :
    AndThen(arg(args, "allocationSize"), LAMBDA a : AndThen(as_int(a), LAMBDA size :
    AndThen(arg(args, "initialValue"), LAMBDA i : AndThen(as_int(i), LAMBDA initial :
        IF field.id_info = <<>> THEN Err
        ELSE Ok([field EXCEPT !.id_info[1].sequence =
                    <<[name |-> name, size |-> size, initial |-> initial]>>])))))))

apply_unique(args, field) == Ok([field EXCEPT !.is_unique = TRUE])

apply_updated_at(args, field) ==
    IF field.kind # "base" \/ field.tpe # <<"DateTime">> \/ field.arity = "List" THEN Err
    ELSE Ok([field EXCEPT !.is_updated_at = TRUE])

FieldDirectives == {"map", "id", "scalarList", "sequence", "unique", "default",
                    "relation", "updatedAt"}

apply_field_directive(d, field) ==
    CASE d.name = "default" -> apply_default(d.args, field)
      [] d.name = "id" -> apply_id(d.args, field)
      [] d.name = "map" -> apply_map(d.args, field)
      [] d.name = "relation" -> apply_relation(d.args, field)
      [] d.name = "scalarList" -> apply_scalar_list(d.args, field)
      [] d.name = "sequence" -> apply_sequence(d.args, field)
      [] d.name = "unique" -> apply_unique(d.args, field)
      [] d.name = "updatedAt" -> apply_updated_at(d.args, field)

-----------------------------------------------------------------------------
(* The model directives.  The fields of an index or of an id are unwrapped: *)
(* one that is not a constant panics.                                       *)

index_fields(args, model) ==
    AndThen(default_arg(args, "fields"), LAMBDA e :
    AndThen(as_array(e), LAMBDA es :
        LET names == to_literal_vec(es) IN
        CASE names.st # "ok" -> Panic
          [] \E i \in DOMAIN names.v : find_field(model, names.v[i]) = <<>> -> Err
          [] OTHER -> names))

validate_index(args, model, tpe) ==
    LET given == arg_internal(args, "name")
        name == IF given = <<>> THEN Ok(<<>>)
                ELSE AndThen(evaluate(given[1].value), LAMBDA e :
                     AndThen(as_str(e), LAMBDA n : Ok(<<n>>)))
    IN AndThen(name, LAMBDA n :
       AndThen(index_fields(args, model), LAMBDA fields :
           Ok([model EXCEPT !.indexes =
                  Append(@, [name |-> n, fields |-> fields, tpe |-> tpe])])))

apply_model_id(args, model) ==
    AndThen(index_fields(args, model), LAMBDA fields :
        Ok([model EXCEPT !.id_fields = fields]))

apply_embedded(args, model) == Ok([model EXCEPT !.is_embedded = TRUE])

ModelDirectives == {"map", "embedded", "unique", "index", "id"}

apply_model_directive(d, model) ==
    CASE d.name = "map" -> apply_map(d.args, model)
      [] d.name = "embedded" -> apply_embedded(d.args, model)
      [] d.name = "unique" -> validate_index(d.args, model, "unique")
      [] d.name = "index" -> validate_index(d.args, model, "normal")
      [] d.name = "id" -> apply_model_id(d.args, model)

-----------------------------------------------------------------------------
(* DirectiveListValidator.  A directive that fails leaves an error and the  *)
(* others are applied all the same; unused arguments are only looked for    *)
(* when the directive has succeeded.                                        *)

is_duplicate_definition_allowed(level, name) ==
    level = "model" /\ name \in {"unique", "index"}

Duplicated(level, directives, d) ==
    /\ ~is_duplicate_definition_allowed(level, d.name)
    /\ Count(directives, LAMBDA other : other.name = d.name) > 1

Applied(level, d, obj) ==
    IF level = "field" THEN apply_field_directive(d, obj) ELSE apply_model_directive(d, obj)

Used(level, name) ==
    IF level = "field" THEN UsedArguments(name) ELSE UsedModelArguments(name)

Known(level) == IF level = "field" THEN FieldDirectives ELSE ModelDirectives

Outcome(level, directives, acc, d, result) ==
    [obj |-> IF result.st = "ok" THEN result.v ELSE acc.obj,
     panic |-> acc.panic \/ result.st = "panic",
     err |-> \/ acc.err
             \/ result.st = "err"
             \/ Duplicated(level, directives, d)
             \/ ~check_for_duplicate_arguments(d.args)
             \/ /\ result.st = "ok"
                /\ ~check_for_unused_arguments(d.args, Used(level, d.name))]

ApplyOne(level, directives, acc, d) ==
    IF d.name \notin Known(level) THEN [acc EXCEPT !.err = TRUE]
    ELSE Outcome(level, directives, acc, d, Applied(level, d, acc.obj))

Verdict(end) == IF end.panic THEN Panic ELSE IF end.err THEN Err ELSE Ok(end.obj)

validate_and_apply(level, directives, obj) ==
    LET step(acc, d) == ApplyOne(level, directives, acc, d) IN
    Verdict(FoldLeft(step, [obj |-> obj, panic |-> FALSE, err |-> FALSE], directives))

-----------------------------------------------------------------------------
(* serialize of each directive; the list is in the order of the names.      *)

FieldNames(names) == Arr([i \in DOMAIN names |-> Const(names[i])])

serialize_default(field) ==
    IF field.default_value = <<>> THEN <<>>
    ELSE <<Dir("default", <<Arg("", ToExpression(field.default_value[1]))>>)>>

serialize_id(field) ==
    IF field.id_info = <<>> THEN <<>>
    ELSE <<Dir("id", IF field.id_info[1].strategy = <<"AUTO">> THEN <<>>
                     ELSE <<Arg("strategy", Const(field.id_info[1].strategy))>>)>>

serialize_map(obj) ==
    IF obj.database_name = <<>> THEN <<>>
    ELSE <<Dir("map", <<Arg("", Str(obj.database_name[1]))>>)>>

serialize_scalar_list(field) ==
    IF field.scalar_list_strategy = <<>> THEN <<>>
    ELSE <<Dir("scalarList", <<Arg("strategy", Const(field.scalar_list_strategy[1]))>>)>>

serialize_sequence(field) ==
    IF field.id_info = <<>> \/ OrElse(field.id_info, [sequence |-> <<>>]).sequence = <<>>
    THEN <<>>
    ELSE LET s == field.id_info[1].sequence[1] IN
         <<Dir("sequence", <<Arg("name", Str(s.name)), Arg("allocationSize", Num(s.size)),
                             Arg("initialValue", Num(s.initial))>>)>>

serialize_unique(field) == IF field.is_unique THEN <<Dir("unique", <<>>)>> ELSE <<>>

serialize_updated_at(field) ==
    IF field.is_updated_at THEN <<Dir("updatedAt", <<>>)>> ELSE <<>>

serialize_embedded(model) == IF model.is_embedded THEN <<Dir("embedded", <<>>)>> ELSE <<>>

serialize_index_definitions(model, tpe, directive) ==
    LET indexes == SelectSeq(model.indexes, LAMBDA i : i.tpe = tpe) IN
    [i \in DOMAIN indexes |->
        Dir(directive, <<Arg("", FieldNames(indexes[i].fields))>>
                       \o IF indexes[i].name = <<>> THEN <<>>
                          ELSE <<Arg("name", Str(indexes[i].name[1]))>>)]

serialize_model_id(model) ==
    IF model.id_fields = <<>> THEN <<>>
    ELSE <<Dir("id", <<Arg("", FieldNames(model.id_fields))>>)>>

(* Mutant: the name of the table is not written.                            *)
SerializeUnmapped(model) ==
    serialize_embedded(model)
    \o serialize_model_id(model)
    \o serialize_index_definitions(model, "normal", "index")
    \o serialize_index_definitions(model, "unique", "unique")

serialize_model(model) ==
    serialize_embedded(model)
    \o serialize_model_id(model)
    \o serialize_index_definitions(model, "normal", "index")
    \o serialize_map(model)
    \o serialize_index_definitions(model, "unique", "unique")
=============================================================================
