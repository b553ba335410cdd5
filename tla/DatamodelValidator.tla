------------------------- MODULE DatamodelValidator -------------------------
(***************************************************************************)
(* From an AST to a datamodel and back (libs/datamodel/src/validator and   *)
(* dml): the checks on names, the lifting of the AST, the validations, the *)
(* completion of the relations, and the lowering of a datamodel to an AST. *)
(* Each phase is an operator with the result the code returns; the order   *)
(* of the phases and what an error in one of them stops is the pipeline's. *)
(***************************************************************************)
EXTENDS Directives

CONSTANTS
    Camel,              \* the atoms whose first letter camel_case lowers
    Plural              \* the inflector: the plural of an atom, in atoms

camel_case(name) == <<Camel[name[1]]>> \o Tail(name)

pluralize(name) == Front(name) \o Plural[Last(name)]

DefaultRelationName(from, to) ==
    IF Before(from, to) THEN from \o <<"To">> \o to ELSE to \o <<"To">> \o from

-----------------------------------------------------------------------------
(* The datamodel: dml::Model, dml::Field and what is asked of them.         *)

NewModel(name) ==
    [name |-> name, fields |-> <<>>, database_name |-> <<>>, is_embedded |-> FALSE,
     indexes |-> <<>>, id_fields |-> <<>>]

NewField(name, kind, tpe) ==
    [name |-> name, arity |-> "Required", kind |-> kind, tpe |-> tpe,
     rel |-> <<>>, to_fields |-> <<>>, on_delete |-> <<"NONE">>,
     database_name |-> <<>>, default_value |-> <<>>, is_unique |-> FALSE,
     id_info |-> <<>>, scalar_list_strategy |-> <<>>, is_generated |-> FALSE,
     is_updated_at |-> FALSE]

singular_id_fields(model) == SelectSeq(model.fields, LAMBDA f : f.id_info # <<>>)

id_field_names(model) ==
    IF singular_id_fields(model) = <<>> THEN model.id_fields
    ELSE <<singular_id_fields(model)[1].name>>

IsRelation(field) == field.kind = "relation"

(* The field of the model that is the other side of a relation.  Only on a  *)
(* self relation can the excluded field be mistaken for it.                 *)
related_field(model, to, name, exclude) ==
    Find(model.fields, LAMBDA f :
        /\ IsRelation(f) /\ f.tpe = to /\ f.rel = name
        /\ model.name # to \/ f.name # exclude)

RelatedField(dm, model, f) ==
    related_field(find_model(dm, f.tpe)[1], model.name, f.rel, f.name)

is_relation_model(model) ==
    Count(model.fields, LAMBDA f : IsRelation(f) /\ f.arity = "Required") = 2

-----------------------------------------------------------------------------
(* Precheck: no two types, fields, enum values, datasources, generators or  *)
(* keys of one block have a name in common, and none that of a scalar type. *)

NoDuplicates(seq) == \A i, j \in DOMAIN seq : seq[i].name = seq[j].name => i = j

assert_is_not_a_reserved_scalar_type(seq) ==
    \A i \in DOMAIN seq : seq[i].name \notin PrismaType

precheck_enum(enum) ==
    \A i, j \in DOMAIN enum.values : enum.values[i] = enum.values[j] => i = j

precheck_model(model) == NoDuplicates(model.fields)

precheck_block(block) == NoDuplicates(block.args)

precheck(ast) ==
    LET named(seq) == [i \in DOMAIN seq |-> [name |-> seq[i].name]]
        tops == named(ast.enums) \o named(ast.models) \o named(ast.types)
        of(kind) == SelectSeq(ast.blocks, LAMBDA b : b.kind = kind)
    IN /\ assert_is_not_a_reserved_scalar_type(tops \o named(ast.blocks))
       /\ NoDuplicates(tops)
       /\ NoDuplicates(of("datasource")) /\ NoDuplicates(of("generator"))
       /\ \A i \in DOMAIN ast.enums : precheck_enum(ast.enums[i])
       /\ \A i \in DOMAIN ast.models : precheck_model(ast.models[i])
       /\ \A i \in DOMAIN ast.blocks : precheck_block(ast.blocks[i])

-----------------------------------------------------------------------------
(* LiftAstToDml.                                                            *)

FieldType(kind, tpe, directives) == [kind |-> kind, tpe |-> tpe, directives |-> directives]

(* A type name is a scalar, a model, an enum or a custom type, looked up in *)
(* that order.  A custom type stands for its base type, and its directives  *)
(* come before those of the field; it may not name itself on the way.       *)
RECURSIVE lift_field_type(_, _, _)
lift_field_type(name, ast, checked) ==
    CASE name \in PrismaType -> Ok(FieldType("base", name, <<>>))
      [] find_model(ast, name) # <<>> -> Ok(FieldType("relation", name, <<>>))
      [] find_enum(ast, name) # <<>> -> Ok(FieldType("enum", name, <<>>))
      [] name \in checked \/ find_custom_type(ast, name) = <<>> -> Err
      [] OTHER ->
           LET custom == find_custom_type(ast, name)[1] IN
           AndThen(lift_field_type(custom.tpe, ast, checked \cup {name}), LAMBDA base :
               IF base.kind = "relation" THEN Err
               ELSE Ok([base EXCEPT !.directives = @ \o custom.directives]))

lift_field(field, ast) ==
    AndThen(lift_field_type(field.tpe, ast, {}), LAMBDA type :
        validate_and_apply("field", type.directives \o field.directives,
            [NewField(field.name, type.kind, type.tpe) EXCEPT !.arity = field.arity]))

(* A field that fails is missing when the model's directives are applied.   *)
WithFields(model, lifted) ==
    LET good == SelectSeq(lifted, LAMBDA r : r.st = "ok") IN
    [NewModel(model.name) EXCEPT !.fields = [i \in DOMAIN good |-> good[i].v]]

Unless(results, result) ==
    LET all == Collected(Append(results, result)) IN IF all.st = "ok" THEN result ELSE all

LiftModel(model, lifted) ==
    Unless(lifted, validate_and_apply("model", model.directives, WithFields(model, lifted)))

lift_model(model, ast) ==
    LiftModel(model, [i \in DOMAIN model.fields |-> lift_field(model.fields[i], ast)])

(* No directive is known on an enum: any is an error.                       *)
lift_enum(enum) ==
    IF enum.directives = <<>> THEN Ok([name |-> enum.name, values |-> enum.values]) ELSE Err

Lifted(all) == IF all.st = "ok" THEN Ok([models |-> all.v[1], enums |-> all.v[2]]) ELSE all

lift(ast) ==
    Lifted(Collected(<<
        Collected([i \in DOMAIN ast.models |-> lift_model(ast.models[i], ast)]),
        Collected([i \in DOMAIN ast.enums |-> lift_enum(ast.enums[i])])>>))

-----------------------------------------------------------------------------
(* Validator.  All models are looked at, whatever the errors so far.        *)

validate_model_has_id(model) ==
    \/ is_relation_model(model)
    \/ <<Len(singular_id_fields(model)), model.id_fields = <<>>>> \in {<<1, TRUE>>, <<0, FALSE>>}

validate_id_fields_valid(model) ==
    \A i \in DOMAIN singular_id_fields(model) :
        LET f == singular_id_fields(model)[i] IN
        /\ f.kind = "base" /\ f.arity = "Required"
        /\ \/ /\ f.tpe = <<"String">> /\ f.default_value # <<>>
              /\ f.default_value[1].call
              /\ f.default_value[1].t \in {<<"cuid">>, <<"uuid">>}
           \/ f.tpe = <<"Int">> /\ f.default_value = <<>>

validate_relations_not_ambiguous(model) ==
    LET relations == {i \in DOMAIN model.fields : IsRelation(model.fields[i])}
        f(i) == model.fields[i]
        foreign == {i \in relations : f(i).tpe # model.name}
        self == {i \in relations : f(i).tpe = model.name}
    IN /\ \A i, j \in foreign :
             f(i) # f(j) => ~(f(i).tpe = f(j).tpe /\ f(i).rel = f(j).rel)
       /\ \A i, j \in self : f(i) # f(j) =>
             /\ ~(f(i).rel = <<>> /\ f(j).rel = <<>>)
             /\ \A l \in self : f(i) # f(l) /\ f(j) # f(l) =>
                   ~(f(i).rel = f(j).rel /\ f(i).rel = f(l).rel)

(* The fields of an embedded model, in order: one whose other side does not *)
(* exist is unwrapped, one whose other side does is an error unless it      *)
(* refers to fields itself.                                                 *)
validate_embedded_types_have_no_back_relation(dm, model) ==
    LET relations == SelectSeq(model.fields, IsRelation)
        back(f) == RelatedField(dm, model, f)
        stop == SelectInSeq(relations, LAMBDA f :
                    back(f) = <<>> \/ f.to_fields = <<>>)
    IN CASE ~model.is_embedded \/ stop = 0 -> Ok(<<>>)
         [] back(relations[stop]) = <<>> -> Panic
         [] OTHER -> Err

validate_model(dm, model) ==
    LET embedded == validate_embedded_types_have_no_back_relation(dm, model) IN
    IF /\ validate_model_has_id(model)
       /\ validate_id_fields_valid(model)
       /\ validate_relations_not_ambiguous(model)
    THEN embedded
    ELSE IF embedded.st = "panic" THEN Panic ELSE Err

validate(dm) == Collected([i \in DOMAIN dm.models |-> validate_model(dm, dm.models[i])])

-----------------------------------------------------------------------------
(* Standardiser.                                                            *)

(* Mutant: the name of the relation is forgotten.                           *)
NamelessBackRelation(model, f) ==
    LET single == f.arity # "List" IN
    [model |-> f.tpe, source_model |-> model.name, source_field |-> f.name,
     field |-> [NewField(IF single THEN camel_case(pluralize(model.name))
                         ELSE camel_case(model.name), "relation", model.name)
                EXCEPT !.arity = IF single THEN "List" ELSE "Optional", !.is_generated = TRUE]]

(* The back relation field a relation field lacks, for the related model.   *)
MissingBackRelation(model, f) ==
    LET single == f.arity # "List" IN
    [model |-> f.tpe, source_model |-> model.name, source_field |-> f.name,
     field |-> [NewField(IF single THEN camel_case(pluralize(model.name))
                         ELSE camel_case(model.name), "relation", model.name)
                EXCEPT !.arity = IF single THEN "List" ELSE "Optional",
                       !.rel = f.rel, !.is_generated = TRUE]]

find_missing_back_relation_fields(dm, model) ==
    LET missing == SelectSeq(model.fields, LAMBDA f :
                       IsRelation(f) /\ RelatedField(dm, model, f) = <<>>)
    IN [i \in DOMAIN missing |-> MissingBackRelation(model, missing[i])]

ModelIndex(dm, name) == SelectInSeq(dm.models, LAMBDA m : m.name = name)

FieldIndex(model, name) == SelectInSeq(model.fields, LAMBDA f : f.name = name)

(* A generated name that is taken is an error, whose message looks up the   *)
(* field without a back relation in the first model of that name.           *)
AddBackRelation(acc, m) ==
    LET i == ModelIndex(acc.dm, m.model)
        source == find_model(acc.dm, m.source_model)[1]
    IN CASE find_field(acc.dm.models[i], m.field.name) = <<>> ->
              [acc EXCEPT !.dm.models[i].fields = Append(@, m.field)]
         [] find_field(source, m.source_field) = <<>> -> [acc EXCEPT !.panic = TRUE]
         [] OTHER -> [acc EXCEPT !.err = TRUE]

(* The other fields are added all the same; the standardisation ends there. *)
add_missing_back_relations(dm) ==
    LET missing == FlattenSeq([i \in DOMAIN dm.models |->
                       find_missing_back_relation_fields(dm, dm.models[i])])
        end == FoldLeft(AddBackRelation, [dm |-> dm, err |-> FALSE, panic |-> FALSE], missing)
    IN CASE end.panic -> Panic
         [] end.err -> Err
         [] OTHER -> Ok(end.dm)

(* Which side of a relation refers to the ids of the other.                 *)
embed_here(model, f, related, back) ==
    CASE back.arity = "List" -> TRUE
      [] f.arity = "List" -> FALSE
      [] model.name # related.name -> Before(model.name, related.name)
      [] OTHER -> Before(f.name, back.name)

(* The original of the datamodel is looked at while the copy is changed.    *)
WithToFields(dm, model, f) ==
    LET related == find_model(dm, f.tpe)[1]
        back == RelatedField(dm, model, f)[1]
    IN IF /\ f.to_fields = <<>> /\ back.to_fields = <<>>
          /\ embed_here(model, f, related, back)
       THEN [f EXCEPT !.to_fields = id_field_names(related)] ELSE f

(* The other side of every relation field is unwrapped.                     *)
AllRelated(dm) ==
    \A i \in DOMAIN dm.models : \A j \in DOMAIN dm.models[i].fields :
        LET f == dm.models[i].fields[j] IN
        IsRelation(f) => RelatedField(dm, dm.models[i], f) # <<>>

set_relation_to_field_to_id_if_missing(dm) ==
    IF ~AllRelated(dm) THEN Panic
    ELSE Ok([dm EXCEPT !.models = [i \in DOMAIN dm.models |->
        [dm.models[i] EXCEPT !.fields = [j \in DOMAIN dm.models[i].fields |->
            LET f == dm.models[i].fields[j] IN
            IF IsRelation(f) THEN WithToFields(dm, dm.models[i], f) ELSE f]]]])

tie(a_model, a_field, b_model, b_field) ==
    \/ Before(a_model.name, b_model.name)
    \/ a_model.name = b_model.name /\ Before(a_field.name, b_field.name)

(* Mutant: a relation whose sides both refer to fields is not counted.      *)
IsUnnamedOnOneSide(dm, model, f) ==
    /\ IsRelation(f) /\ f.rel = <<>> /\ f.to_fields # <<>>
    /\ RelatedField(dm, model, f)[1].to_fields = <<>>

(* Once per relation: by the side that refers to fields, and when both do   *)
(* by the lower of the two.                                                 *)
IsUnnamed(dm, model, f) ==
    /\ IsRelation(f) /\ f.rel = <<>> /\ f.to_fields # <<>>
    /\ LET back == RelatedField(dm, model, f)[1] IN
       back.to_fields = <<>> \/ tie(model, f, find_model(dm, f.tpe)[1], back)

find_unnamed_relations(dm) ==
    FlattenSeq([i \in DOMAIN dm.models |->
        LET unnamed == SelectSeq(dm.models[i].fields, LAMBDA f : IsUnnamed(dm, dm.models[i], f))
        IN [j \in DOMAIN unnamed |-> [model |-> dm.models[i], field |-> unnamed[j]]]])

NameRelation(dm, m, f, name) ==
    LET i == ModelIndex(dm, m) IN
    [dm EXCEPT !.models[i].fields[FieldIndex(dm.models[i], f)].rel = name]

(* The first side is looked up by name, the second with the name they had;  *)
(* without one of them, or if it is not a relation, the code panics.        *)
NameBoth(acc, unnamed) ==
    LET model == unnamed.model
        f == unnamed.field
        name == DefaultRelationName(model.name, f.tpe)
        first == find_field(find_model(acc.v, model.name)[1], f.name)
        here == NameRelation(acc.v, model.name, f.name, name)
        back == related_field(find_model(here, f.tpe)[1], model.name, <<>>, f.name)
    IN CASE acc.st # "ok" -> acc
         [] SelectSeq(first, IsRelation) = <<>> -> Panic
         [] back = <<>> -> Panic
         [] OTHER -> Ok(NameRelation(here, f.tpe, back[1].name, name))

name_unnamed_relations(dm) == FoldLeft(NameBoth, Ok(dm), find_unnamed_relations(dm))

standardise(dm) ==
    AndThen(add_missing_back_relations(dm), LAMBDA complete :
    AndThen(set_relation_to_field_to_id_if_missing(complete), LAMBDA embedded :
        name_unnamed_relations(embedded)))

-----------------------------------------------------------------------------
(* LowerDmlToAst.  Generated fields are not written; the default name of a  *)
(* relation is not, and its references only when they are not the ids, and  *)
(* only on the model with the lower name.                                   *)

serialize_relation(dm, model, f) ==
    LET related == find_model(dm, f.tpe)[1]
        args == (IF f.rel \in {<<>>, DefaultRelationName(f.tpe, model.name)} THEN <<>>
                 ELSE <<Arg("", Str(f.rel))>>)
             \o (IF /\ f.to_fields # <<>>
                    /\ Sorted(f.to_fields) # Sorted(id_field_names(related))
                    /\ Before(model.name, related.name)
                 THEN <<Arg("references", FieldNames(f.to_fields))>> ELSE <<>>)
             \o (IF f.on_delete = <<"NONE">> THEN <<>>
                 ELSE <<Arg("onDelete", Const(f.on_delete))>>)
    IN IF IsRelation(f) /\ args # <<>> THEN <<Dir("relation", args)>> ELSE <<>>

serialize_field(dm, model, f) ==
    serialize_default(f) \o serialize_id(f) \o serialize_map(f)
    \o (IF IsRelation(f) THEN serialize_relation(dm, model, f) ELSE <<>>)
    \o serialize_scalar_list(f) \o serialize_sequence(f)
    \o serialize_unique(f) \o serialize_updated_at(f)

lower_field(dm, model, f) ==
    [name |-> f.name, tpe |-> f.tpe, arity |-> f.arity,
     directives |-> serialize_field(dm, model, f)]

lower_model(dm, model) ==
    LET written == SelectSeq(model.fields, LAMBDA f : ~f.is_generated) IN
    [name |-> model.name,
     fields |-> [i \in DOMAIN written |-> lower_field(dm, model, written[i])],
     directives |-> serialize_model(model)]

lower_enum(enum) == [name |-> enum.name, values |-> enum.values, directives |-> <<>>]

lower(dm) ==
    [EmptyAst EXCEPT
        !.models = [i \in DOMAIN dm.models |-> lower_model(dm, dm.models[i])],
        !.enums = [i \in DOMAIN dm.enums |-> lower_enum(dm.enums[i])]]
=============================================================================
