------------------------- MODULE InternalDataModel -------------------------
(***************************************************************************)
(* The query engine's view of a datamodel (prisma-models): the conversion  *)
(* of the datamodel to models, fields and relations, and where a relation  *)
(* field finds its data.  The relations are calculated here for the        *)
(* migration engine as well.                                               *)
(*                                                                         *)
(* The lazily set references between the parts are lookups by name.        *)
(* Connector-specific types and the legacy format are left out.            *)
(***************************************************************************)
EXTENDS DatamodelValidator

final_db_name(f) == OrElse(f.database_name, f.name)

-----------------------------------------------------------------------------
(* TempRelationHolder.                                                      *)

InlineIn(model, field) ==
    [kind |-> "Inline", model |-> model.name, column |-> final_db_name(field)]

RelationTable == [kind |-> "Table", model |-> <<>>, column |-> <<>>]

(* Which model, and on a self relation which field, is side A.              *)
Sides(model, f, related, back) ==
    IF \/ Before(model.name, related.name)
       \/ model.name = related.name /\ Before(f.name, back.name)
    THEN [model_a |-> model, model_b |-> related, field_a |-> f, field_b |-> back]
    ELSE [model_a |-> related, model_b |-> model, field_a |-> back, field_b |-> f]

(* Two lists need a table; a list leaves the column to the other side; of   *)
(* two single fields the one that refers to fields has it, and they may not *)
(* both.                                                                    *)
Manifestation(model, f, related, back, s) ==
    CASE s.field_a.arity = "List" /\ s.field_b.arity = "List" -> Ok(RelationTable)
      [] s.field_b.arity = "List" -> Ok(InlineIn(s.model_a, s.field_a))
      [] s.field_a.arity = "List" -> Ok(InlineIn(s.model_b, s.field_b))
      [] f.to_fields # <<>> /\ back.to_fields # <<>> -> Panic
      [] f.to_fields # <<>> -> Ok(InlineIn(model, f))
      [] back.to_fields # <<>> -> Ok(InlineIn(related, back))
      [] Before(s.model_a.name, s.model_b.name) -> Ok(InlineIn(s.model_a, s.field_a))
      [] OTHER -> Ok(InlineIn(s.model_b, s.field_b))

(* The name under which the relation is known; a nameless one gets its own. *)
relation_holder_name(s, f) ==
    IF f.rel = <<>> THEN s.model_a.name \o <<"To">> \o s.model_b.name ELSE f.rel

RelationHolder(name, s, manifestation) ==
    [name |-> name, manifestation |-> manifestation, model_a |-> s.model_a,
     model_b |-> s.model_b, field_a |-> s.field_a, field_b |-> s.field_b]

CalculateRelation(dm, model, f) ==
    LET back == RelatedField(dm, model, f)
        related == find_model(dm, f.tpe)[1]
        s == Sides(model, f, related, back[1])
    IN IF back = <<>> THEN Panic
       ELSE AndThen(Manifestation(model, f, related, back[1], s), LAMBDA m :
                Ok(RelationHolder(relation_holder_name(s, f), s, m)))

(* unique_by: of the relations of one name only the first is kept.          *)
FirstOfEachName(relations) ==
    LET keep == {i \in DOMAIN relations :
                    \A j \in 1 .. i - 1 : relations[j].name # relations[i].name}
        order == SetToSortSeq(keep, <)
    IN [i \in DOMAIN order |-> relations[order[i]]]

calculate_relations(dm) ==
    LET of(model) ==
            LET fields == SelectSeq(model.fields, IsRelation) IN
            [i \in DOMAIN fields |-> CalculateRelation(dm, model, fields[i])]
        all == Collected(FlattenSeq([i \in DOMAIN dm.models |-> of(dm.models[i])]))
    IN AndThen(all, LAMBDA relations : Ok(FirstOfEachName(relations)))

-----------------------------------------------------------------------------
(* DatamodelConverter.                                                      *)

type_identifier(f) ==
    CASE f.kind = "enum" -> "Enum"
      [] f.kind = "relation" -> "Relation"
      [] f.tpe = <<"Decimal">> -> "Float"
      [] f.tpe = <<"String">> /\ \E v \in ToSet(f.default_value) : v.call /\ v.t = <<"cuid">> ->
           "GraphQLID"
      [] f.tpe = <<"String">> /\ \E v \in ToSet(f.default_value) : v.call /\ v.t = <<"uuid">> ->
           "UUID"
      [] OTHER -> f.tpe[1]

is_auto_generated(f) ==
    /\ \E info \in ToSet(f.id_info) : info.strategy = <<"AUTO">>
    /\ type_identifier(f) = "Int"

Behaviour(kind, strategy) == <<[kind |-> kind, strategy |-> strategy]>>

behaviour(f) ==
    CASE f.id_info # <<>> -> Behaviour("Id", f.id_info[1].strategy)
      [] \E v \in ToSet(f.default_value) : v.call /\ v.t = <<"now">> -> Behaviour("CreatedAt", <<>>)
      [] f.is_updated_at -> Behaviour("UpdatedAt", <<>>)
      [] f.scalar_list_strategy # <<>> -> Behaviour("ScalarList", f.scalar_list_strategy[1])
      [] OTHER -> <<>>

internal_enum(dm, f) == IF f.kind = "enum" THEN find_enum(dm, f.tpe) ELSE <<>>

(* Of the default values the server-side calls are left to the behaviour.   *)
default_value(f) == SelectSeq(f.default_value, LAMBDA v : ~v.call)

InternalField(dm, f) ==
    [name |-> f.name, tpe |-> type_identifier(f), is_required |-> f.arity = "Required",
     is_list |-> f.arity = "List", is_unique |-> f.is_unique,
     is_auto_generated |-> is_auto_generated(f), db |-> f.database_name,
     behaviour |-> behaviour(f), default_value |-> default_value(f),
     internal_enum |-> internal_enum(dm, f), relation_name |-> <<>>, side |-> ""]

(* Mutant: only side A is compared.                                         *)
IsForSideA(r, model, f) == r.model_a = model /\ r.field_a = f

is_for_model_and_field(r, model, f) ==
    \/ r.model_a = model /\ r.field_a = f
    \/ r.model_b = model /\ r.field_b = f

convert_field(dm, relations, model, f) ==
    LET r == Find(relations, LAMBDA x : is_for_model_and_field(x, model, f)) IN
    CASE ~IsRelation(f) -> Ok(InternalField(dm, f))
      [] r = <<>> -> Panic
      [] OTHER -> Ok([InternalField(dm, f) EXCEPT
                        !.relation_name = r[1].name, !.behaviour = <<>>,
                        !.default_value = <<>>,
                        !.side = IF r[1].field_a = f THEN "A" ELSE "B"])

convert_model(dm, relations, model) ==
    AndThen(Collected([i \in DOMAIN model.fields |->
                          convert_field(dm, relations, model, model.fields[i])]),
            LAMBDA fields : Ok([name |-> model.name, is_embedded |-> model.is_embedded,
                                db |-> model.database_name, fields |-> fields]))

convert_relations(relations) ==
    [i \in DOMAIN relations |->
        [name |-> relations[i].name, model_a |-> relations[i].model_a.name,
         model_b |-> relations[i].model_b.name,
         manifestation |-> relations[i].manifestation]]

convert(dm) ==
    AndThen(calculate_relations(dm), LAMBDA relations :
    AndThen(Collected([i \in DOMAIN dm.models |->
                          convert_model(dm, relations, dm.models[i])]), LAMBDA models :
        Ok([models |-> models, relations |-> convert_relations(relations),
            enums |-> dm.enums])))

-----------------------------------------------------------------------------
(* Relation, RelationField, Fields and Model, asked by name.  No field is   *)
(* hidden in a converted datamodel.                                         *)

find_relation(idm, name) == Find(idm.relations, LAMBDA r : r.name = name)

is_self_relation(r) == r.model_a = r.model_b

is_inline_relation(r) == r.manifestation.kind = "Inline"

RelationFields(model) == SelectSeq(model.fields, LAMBDA f : f.tpe = "Relation")

relation_of(idm, f) == find_relation(idm, f.relation_name)[1]

find_from_relation(model, name, side) ==
    Find(RelationFields(model), LAMBDA f : f.relation_name = name /\ f.side = side)

related_model(idm, f) ==
    LET r == relation_of(idm, f) IN
    find_model(idm, IF f.side = "A" THEN r.model_b ELSE r.model_a)[1]

related_internal_field(idm, f) ==
    find_from_relation(related_model(idm, f), f.relation_name,
                       IF f.side = "A" THEN "B" ELSE "A")

(* "Inlined in self / model of self".                                       *)
relation_is_inlined_in_parent(idm, model, f) ==
    LET r == relation_of(idm, f) IN
    /\ is_inline_relation(r)
    /\ IF is_self_relation(r) THEN f.side = "B" ELSE r.manifestation.model = model.name

(* The column that a field of the model is read from.                       *)
relation_db_name(idm, model, f) ==
    IF relation_is_inlined_in_parent(idm, model, f)
    THEN relation_of(idm, f).manifestation.column ELSE f.name

scalar_db_name(f) == OrElse(f.db, f.name)

model_db_name(model) == OrElse(model.db, model.name)

(* Fields::id: the last of the id fields; none at all panics.               *)
IdFields(model) ==
    SelectSeq(model.fields, LAMBDA f : \E b \in ToSet(f.behaviour) : b.kind = "Id")

id_column(model) == scalar_db_name(Last(IdFields(model)))

(* Mutant: a self relation is not told apart.                               *)
ModelAColumnOfAny(idm, r) ==
    CASE ~is_inline_relation(r) -> <<"A">>
      [] r.manifestation.model # r.model_a -> r.manifestation.column
      [] OTHER -> id_column(find_model(idm, r.model_a)[1])

(* The columns of the relation's table that hold the ids of the two sides.  *)
model_a_column(idm, r) ==
    CASE ~is_inline_relation(r) -> <<"A">>
      [] is_self_relation(r) \/ r.manifestation.model # r.model_a -> r.manifestation.column
      [] OTHER -> id_column(find_model(idm, r.model_a)[1])

model_b_column(idm, r) ==
    CASE ~is_inline_relation(r) -> <<"B">>
      [] is_self_relation(r) \/ r.manifestation.model = r.model_b ->
           id_column(find_model(idm, r.model_b)[1])
      [] OTHER -> r.manifestation.column

relation_column(idm, f) ==
    IF f.side = "A" THEN model_a_column(idm, relation_of(idm, f))
    ELSE model_b_column(idm, relation_of(idm, f))

opposite_column(idm, f) ==
    IF f.side = "A" THEN model_b_column(idm, relation_of(idm, f))
    ELSE model_a_column(idm, relation_of(idm, f))

relation_table(idm, r) ==
    IF is_inline_relation(r) THEN model_db_name(find_model(idm, r.manifestation.model)[1])
    ELSE <<"_">> \o r.name
=============================================================================
