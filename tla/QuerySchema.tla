----------------------------- MODULE QuerySchema -----------------------------
(***************************************************************************)
(* The query schema of a data model: the input and output types a request  *)
(* is validated against (query-engine/core/src/schema_builder).            *)
(*                                                                         *)
(* A data model is a sequence of models [name, fields].  A field is        *)
(*   [model, name, scalar, type, list, required, unique, id, hidden,       *)
(*    default, auto, to, opp, at]                                          *)
(* where auto is whether the engine or the database fills the field (an id *)
(* that is generated, createdAt, updatedAt), and to, opp and at describe a *)
(* relation field: the related model, the name of the opposite field, and  *)
(* where the foreign key is ("here", "there" or in a "table").  Names are  *)
(* tuples of name parts, so that a type's name is the concatenation of its *)
(* parts and a filter's name is a field's name followed by a suffix.       *)
(*                                                                         *)
(* The builders share a cache of types that are entered empty and filled   *)
(* later, which is what lets types refer to each other.  Every builder     *)
(* takes the cache and returns the cache it leaves behind; the type it     *)
(* returns is known by its name.                                           *)
(***************************************************************************)
EXTENDS Naturals, Sequences, SequencesExt, TLC

-----------------------------------------------------------------------------
(* The data model, as the builders see it.                                 *)

model_of(dm, m) == dm[CHOOSE i \in DOMAIN dm : dm[i].name = m]

find_from_all(dm, m, name) == SelectSeq(model_of(dm, m).fields, LAMBDA f : f.name = name)

related_field(dm, rf) == find_from_all(dm, rf.to, rf.opp)[1]

scalar_fields(dm, m) == SelectSeq(model_of(dm, m).fields, LAMBDA f : f.scalar)

id_field(dm, m) == SelectSeq(scalar_fields(dm, m), LAMBDA f : f.id)[1]

visible_relations(dm, m) ==
  SelectSeq(model_of(dm, m).fields, LAMBDA f : ~f.scalar /\ ~f.hidden)

(* The relation fields of a nested input: all but the opposite of the one  *)
(* it is reached through.  A parent is <<>> at the root and <<rf>> below.  *)
relations_without(dm, m, parent) ==
  SelectSeq(visible_relations(dm, m),
            LAMBDA f : parent = <<>> \/ parent[1].opp # f.name)

-----------------------------------------------------------------------------
(* Input types.                                                            *)

InputType(opt, list, kind, of) == [opt |-> opt, list |-> list, kind |-> kind, of |-> of]

map_required_input_type(f) ==
  InputType(FALSE, f.list, IF f.type = "Enum" THEN "enum" ELSE "scalar", <<f.type>>)

map_optional_input_type(f) == [map_required_input_type(f) EXCEPT !.opt = TRUE]

wrap_list_input_object_type(name, list) == InputType(TRUE, list, "object", name)

input_field(name, type) == [name |-> name, type |-> type, default |-> FALSE]

-----------------------------------------------------------------------------
(* The cache.  Entering a name twice, filling a type twice and asking      *)
(* whether an unfilled type is empty all panic.                            *)

EmptyCache == [types |-> <<>>, panic |-> FALSE]

Cached(c, name) == name \in DOMAIN c.types

insert(c, name) ==
  [types |-> (name :> [set |-> FALSE, fields |-> <<>>]) @@ c.types,
   panic |-> c.panic \/ Cached(c, name)]

set_fields(c, name, fields) ==
  [types |-> [c.types EXCEPT ![name] = [set |-> TRUE, fields |-> fields]],
   panic |-> c.panic \/ c.types[name].set]

define(c, name, fields) == set_fields(insert(c, name), name, fields)

cache_once(c, name, fields) == IF Cached(c, name) THEN c ELSE define(c, name, fields)

is_empty(c, name) == c.types[name].fields = <<>>

peek(c, name) == [c EXCEPT !.panic = @ \/ ~c.types[name].set]

-----------------------------------------------------------------------------
(* Types shared by the create and update inputs.                           *)

where_unique_name(m) == <<m, "WhereUniqueInput">>

where_unique_object_type(dm, c, m) ==
  LET unique == SelectSeq(scalar_fields(dm, m), LAMBDA f : (f.unique /\ ~f.hidden) \/ f.id)
  IN  cache_once(c, where_unique_name(m),
                 [i \in DOMAIN unique |->
                    input_field(unique[i].name, map_optional_input_type(unique[i]))])

where_input_field(name, rf) ==
  input_field(name, wrap_list_input_object_type(where_unique_name(rf.to), rf.list))

list_set_name(f, kind) == <<f.model, kind>> \o f.name \o <<"Input">>

(* A list field is given through an object with one field, "set".          *)
scalar_list_types(c, fields, kind) ==
  FoldLeft(LAMBDA acc, f : IF f.list
                           THEN cache_once(acc, list_set_name(f, kind),
                                           <<input_field(<<"set">>, map_optional_input_type(f))>>)
                           ELSE acc,
           c, fields)

scalar_input_field(f, kind, type, default) ==
  IF f.list
  THEN input_field(f.name, InputType(TRUE, FALSE, "object", list_set_name(f, kind)))
  ELSE [input_field(f.name, type) EXCEPT !.default = default]

(* The fields that are not lists come first.                               *)
scalar_input_fields(fields, kind, types, defaults) ==
  LET at == [i \in DOMAIN fields |-> scalar_input_field(fields[i], kind, types[i], defaults[i])]
  IN  SelectSeq(at, LAMBDA a : a.type.kind # "object")
      \o SelectSeq(at, LAMBDA a : a.type.kind = "object")

-----------------------------------------------------------------------------
(* Create inputs.                                                          *)

create_name(dm, m, parent) ==
  IF parent # <<>> /\ ~related_field(dm, parent[1]).hidden
  THEN <<m, "CreateWithout">> \o parent[1].opp \o <<"Input">>
  ELSE <<m, "CreateInput">>

(* The name takes the relation field's own name, not its opposite's.       *)
nested_create_name(dm, rf) ==
  <<rf.to, IF rf.list THEN "CreateMany" ELSE "CreateOne">>
  \o (IF related_field(dm, rf).hidden THEN <<>> ELSE <<"Without">> \o rf.name)
  \o <<"Input">>

(* The mutant of nested_update_name: named after the field itself.         *)
NamedAfterItself(dm, rf) ==
  <<rf.to, IF rf.list THEN "UpdateMany" ELSE IF rf.required THEN "UpdateOneRequired" ELSE "UpdateOne">>
  \o (IF related_field(dm, rf).hidden THEN <<>> ELSE <<"Without">> \o rf.name)
  \o <<"Input">>

(* An Int id is given by the database.                                     *)
do_filter(f) == f.id => f.type # "Int"

create_scalar_type(f) ==
  IF f.required /\ ~f.default /\ ~f.auto
  THEN map_required_input_type(f)
  ELSE map_optional_input_type(f)

RECURSIVE create_input_type(_, _, _, _)
RECURSIVE relation_input_fields_create(_, _, _)

create_input_type(dm, c, m, parent) ==
  LET name == create_name(dm, m, parent)
      scalars == SelectSeq(scalar_fields(dm, m), LAMBDA f : ~f.hidden /\ do_filter(f))
      relations == relations_without(dm, m, parent)
      fields == scalar_input_fields(scalars, "Create",
                                    [i \in DOMAIN scalars |-> create_scalar_type(scalars[i])],
                                    [i \in DOMAIN scalars |-> scalars[i].default])
                \o [i \in DOMAIN relations |->
                      input_field(relations[i].name,
                                  InputType(~relations[i].required, FALSE, "object",
                                            nested_create_name(dm, relations[i])))]
  IN  IF Cached(c, name) THEN c
      ELSE set_fields(relation_input_fields_create(
                        dm, scalar_list_types(insert(c, name), scalars, "Create"), relations),
                      name, fields)

relation_input_fields_create(dm, c, relations) ==
  FoldLeft(LAMBDA acc, rf :
             LET name == nested_create_name(dm, rf)
                 fields == <<input_field(<<"create">>,
                               wrap_list_input_object_type(create_name(dm, rf.to, <<rf>>), rf.list)),
                             where_input_field(<<"connect">>, rf)>>
             IN  IF Cached(acc, name) THEN acc
                 ELSE set_fields(where_unique_object_type(
                                   dm, create_input_type(dm, insert(acc, name), rf.to, <<rf>>), rf.to),
                                 name, fields),
           c, relations)

-----------------------------------------------------------------------------
(* Update inputs.                                                          *)

nested_update_name(dm, rf) ==
  <<rf.to, IF rf.list THEN "UpdateMany" ELSE IF rf.required THEN "UpdateOneRequired" ELSE "UpdateOne">>
  \o (IF related_field(dm, rf).hidden THEN <<>> ELSE <<"Without">> \o rf.opp)
  \o <<"Input">>

(* The types that carry the data of one nested operation on rf.            *)
nested_name(dm, rf, what, hidden, ending) ==
  IF related_field(dm, rf).hidden
  THEN <<rf.to, what, hidden>>
  ELSE <<rf.to, what, "Without">> \o rf.opp \o <<ending>>

nested_update_data_name(dm, rf) == nested_name(dm, rf, "Update", "DataInput", "DataInput")

nested_update_where_name(dm, rf) ==
  nested_name(dm, rf, "UpdateWithWhereUnique", "NestedInput", "Input")

nested_upsert_name(dm, rf) ==
  nested_name(dm, rf, IF rf.list THEN "UpsertWithWhereUnique" ELSE "Upsert", "NestedInput", "Input")

scalar_input_fields_for_update(dm, m) ==
  LET scalars == scalar_fields(dm, m)
  IN  scalar_input_fields(scalars, "Update",
                          [i \in DOMAIN scalars |-> map_optional_input_type(scalars[i])],
                          [i \in DOMAIN scalars |-> FALSE])

Object(name, type) == input_field(name, InputType(FALSE, FALSE, "object", type))

ManyObjects(name, type) == input_field(name, InputType(TRUE, TRUE, "object", type))

Flag(name) == input_field(name, InputType(TRUE, FALSE, "scalar", <<"Boolean">>))

relation_update_fields(dm, rf, upsert) ==
  <<input_field(<<"create">>,
      wrap_list_input_object_type(create_name(dm, rf.to, <<rf>>), rf.list)),
    where_input_field(<<"connect">>, rf)>>
  \o (IF rf.list THEN <<where_input_field(<<"set">>, rf),
                        where_input_field(<<"disconnect">>, rf),
                        where_input_field(<<"delete">>, rf)>>
      ELSE IF rf.required THEN <<>>
      ELSE <<Flag(<<"disconnect">>), Flag(<<"delete">>)>>)
  \o <<input_field(<<"update">>,
         wrap_list_input_object_type(IF rf.list THEN nested_update_where_name(dm, rf)
                                                ELSE nested_update_data_name(dm, rf), rf.list))>>
  \o (IF rf.list THEN <<ManyObjects(<<"updateMany">>, <<rf.to, "UpdateManyWithWhereNestedInput">>),
                        ManyObjects(<<"deleteMany">>, <<rf.to, "ScalarWhereInput">>)>>
      ELSE <<>>)
  \o (IF upsert THEN <<input_field(<<"upsert">>,
                         wrap_list_input_object_type(nested_upsert_name(dm, rf), rf.list))>>
      ELSE <<>>)

(* The mutant of nested_update_many_types: the data's type is not entered. *)
WithoutItsData(dm, c, rf) ==
  cache_once(c, <<rf.to, "UpdateManyWithWhereNestedInput">>,
             <<Object(<<"where">>, <<rf.to, "ScalarWhereInput">>),
               Object(<<"data">>, <<rf.to, "UpdateManyDataInput">>)>>)

(* The types of updateMany: entered together the first time a list        *)
(* relation to the model is met.                                           *)
nested_update_many_types(dm, c, rf) ==
  LET data == <<rf.to, "UpdateManyDataInput">>
      name == <<rf.to, "UpdateManyWithWhereNestedInput">>
      c1 == cache_once(scalar_list_types(c, scalar_fields(dm, rf.to), "Update"),
                       data, scalar_input_fields_for_update(dm, rf.to))
  IN  IF Cached(c, name) THEN c
      ELSE define(c1, name, <<Object(<<"where">>, <<rf.to, "ScalarWhereInput">>),
                              Object(<<"data">>, data)>>)

(* An upsert is offered unless its create input has no field.              *)
upsert_type(dm, c, rf) ==
  LET create == create_name(dm, rf.to, <<rf>>)
      where == where_unique_name(rf.to)
      looked == IF rf.list THEN peek(peek(c, where), create) ELSE peek(c, create)
  IN  IF is_empty(c, create) THEN looked
      ELSE cache_once(looked, nested_upsert_name(dm, rf),
                      (IF rf.list THEN <<Object(<<"where">>, where)>> ELSE <<>>)
                      \o <<Object(<<"update">>, nested_update_data_name(dm, rf)),
                           Object(<<"create">>, create)>>)

nested_upsert_input_object(dm, c, rf) ==
  upsert_type(dm, create_input_type(dm, where_unique_object_type(dm, c, rf.to), rf.to, <<rf>>), rf)

(* The types of the nested updates of a list.                              *)
nested_list_types(dm, c, rf) ==
  IF rf.list
  THEN nested_update_many_types(
         dm, cache_once(c, nested_update_where_name(dm, rf),
                        <<Object(<<"where">>, where_unique_name(rf.to)),
                          Object(<<"data">>, nested_update_data_name(dm, rf))>>), rf)
  ELSE c

fill_nested_update(dm, c, rf) ==
  set_fields(c, nested_update_name(dm, rf),
             relation_update_fields(dm, rf, ~is_empty(c, create_name(dm, rf.to, <<rf>>))))

RECURSIVE relation_input_fields_for_update(_, _, _)
RECURSIVE nested_update_data(_, _, _)

(* The nested operations of each relation, in the order their types are    *)
(* asked for: create, connect, update, updateMany, upsert.                 *)
relation_input_fields_for_update(dm, c, relations) ==
  FoldLeft(LAMBDA acc, rf :
    IF Cached(acc, nested_update_name(dm, rf)) THEN acc
    ELSE fill_nested_update(dm,
           nested_upsert_input_object(dm,
             nested_list_types(dm,
               nested_update_data(dm,
                 where_unique_object_type(dm,
                   create_input_type(dm, insert(acc, nested_update_name(dm, rf)), rf.to, <<rf>>), rf.to), rf), rf), rf), rf),
    c, relations)

update_fields(dm, m, parent) ==
  LET relations == relations_without(dm, m, parent)
  IN  scalar_input_fields_for_update(dm, m)
      \o [i \in DOMAIN relations |->
            input_field(relations[i].name,
                        InputType(TRUE, FALSE, "object", nested_update_name(dm, relations[i])))]

update_object(dm, c, name, m, parent) ==
  IF Cached(c, name) THEN c
  ELSE set_fields(relation_input_fields_for_update(
                    dm, scalar_list_types(insert(c, name), scalar_fields(dm, m), "Update"),
                    relations_without(dm, m, parent)),
                  name, update_fields(dm, m, parent))

nested_update_data(dm, c, rf) ==
  update_object(dm, c, nested_update_data_name(dm, rf), rf.to, <<rf>>)

update_input_type(dm, c, m) == update_object(dm, c, <<m, "UpdateInput">>, m, <<>>)

update_many_input_type(dm, c, m) ==
  LET name == <<m, "UpdateManyMutationInput">>
  IN  IF Cached(c, name) THEN c
      ELSE define(scalar_list_types(c, scalar_fields(dm, m), "Update"),
                  name, scalar_input_fields_for_update(dm, m))

-----------------------------------------------------------------------------
(* Filters.  A filter's name is the name of a field and a suffix.          *)

Plain == << <<>>, <<"_not">> >>
Inclusion == << <<"_in">>, <<"_not", "_in">> >>
Alphanumeric == << <<"_lt">>, <<"_lte">>, <<"_gt">>, <<"_gte">> >>
Matching == << <<"_contains">>, <<"_not", "_contains">>, <<"_starts_with">>,
               <<"_not", "_starts_with">>, <<"_ends_with">>, <<"_not", "_ends_with">> >>
MultiRelation == << <<"_every">>, <<"_some">>, <<"_none">> >>

get_field_filters(f) ==
  IF f.list THEN IF f.scalar THEN <<>> ELSE MultiRelation
  ELSE IF ~f.scalar THEN << <<>> >>
  ELSE CASE f.type \in {"UUID", "ID", "String"} -> Plain \o Inclusion \o Alphanumeric \o Matching
         [] f.type \in {"Int", "Float", "DateTime"} -> Plain \o Inclusion \o Alphanumeric
         [] f.type = "Boolean" -> Plain
         [] f.type = "Enum" -> Plain \o Inclusion
         [] f.type = "Json" -> <<>>

filter_input_field(f, suffix) ==
  input_field(f.name \o suffix,
              IF f.scalar
              THEN [map_optional_input_type(f) EXCEPT !.list = suffix \in ToSet(Inclusion)]
              ELSE InputType(TRUE, FALSE, "object", <<f.to, "WhereInput">>))

filter_input_fields(fields) ==
  FlattenSeq([i \in DOMAIN fields |->
                LET suffixes == get_field_filters(fields[i])
                IN  [j \in DOMAIN suffixes |-> filter_input_field(fields[i], suffixes[j])]])

combinators(name) == <<ManyObjects(<<"AND">>, name), ManyObjects(<<"OR">>, name),
                       ManyObjects(<<"NOT">>, name)>>

scalar_filter_object_type(dm, m) ==
  combinators(<<m, "ScalarWhereInput">>)
  \o filter_input_fields(SelectSeq(scalar_fields(dm, m), LAMBDA f : ~f.hidden))

build_filter_object(dm, m) ==
  combinators(<<m, "WhereInput">>)
  \o filter_input_fields(SelectSeq(scalar_fields(dm, m), LAMBDA f : ~f.hidden))
  \o filter_input_fields(visible_relations(dm, m))

(* Every model is reached, from the root fields or through a relation.     *)
filter_types(dm) ==
  LET Names == {dm[i].name : i \in DOMAIN dm}
  IN  [n \in {<<m, "WhereInput">> : m \in Names} |->
         [set |-> TRUE, fields |-> build_filter_object(dm, n[1])]]
      @@ [n \in {<<m, "ScalarWhereInput">> : m \in Names} |->
         [set |-> TRUE, fields |-> scalar_filter_object_type(dm, n[1])]]

-----------------------------------------------------------------------------
(* Object types and the roots.                                             *)

OutputType(list, opt, kind, of) == [list |-> list, opt |-> opt, kind |-> kind, of |-> of]

argument(name, type) == [name |-> <<name>>, type |-> type]

Count == InputType(TRUE, FALSE, "scalar", <<"Int">>)

where_argument(m) == argument("where", InputType(TRUE, FALSE, "object", <<m, "WhereInput">>))

many_records_arguments(dm, m) ==
  LET id == map_optional_input_type(id_field(dm, m))
  IN  <<where_argument(m), argument("orderBy", InputType(TRUE, FALSE, "enum", <<"OrderBy", m>>)),
        argument("skip", Count), argument("after", id), argument("before", id),
        argument("first", Count), argument("last", Count)>>

(* A scalar list is never optional; a relation is unless it is required.   *)
map_output_type(f) ==
  OutputType(f.list, ~f.required /\ ~(f.scalar /\ f.list),
             IF f.scalar THEN "scalar" ELSE "object", IF f.scalar THEN <<f.type>> ELSE <<f.to>>)

field(name, args, type, tag) == [name |-> name, args |-> args, type |-> type, tag |-> tag]

map_field(dm, f) ==
  field(f.name, IF ~f.scalar /\ f.list THEN many_records_arguments(dm, f.to) ELSE <<>>,
        map_output_type(f), "")

compute_fields(dm, m) ==
  LET shown == SelectSeq(model_of(dm, m).fields, LAMBDA f : ~f.hidden)
  IN  [i \in DOMAIN shown |-> map_field(dm, shown[i])]

count_field == field(<<"count">>, <<>>, OutputType(FALSE, FALSE, "scalar", <<"Int">>), "")

object_types(dm) ==
  LET Names == {dm[i].name : i \in DOMAIN dm}
  IN  [n \in {<<m>> : m \in Names} |-> compute_fields(dm, n[1])]
      @@ [n \in {<<"Aggregate", m>> : m \in Names} |-> <<count_field>>]
      @@ (<<"BatchPayload">> :> <<count_field>>)

(* The values of the enum that orders a model's records.                   *)
order_by_values(dm, m) ==
  {f.name \o <<way>> : f \in ToSet(SelectSeq(scalar_fields(dm, m), LAMBDA g : ~g.list)),
                       way \in {"_ASC", "_DESC"}}

build_query_type(dm) ==
  FlattenSeq([i \in DOMAIN dm |->
    LET m == dm[i].name
    IN  <<field(<<"findMany", m>>, many_records_arguments(dm, m),
                OutputType(TRUE, FALSE, "object", <<m>>), "FindMany"),
          field(<<"aggregate", m>>, <<>>,
                OutputType(FALSE, FALSE, "object", <<"Aggregate", m>>), "Aggregate"),
          field(<<"findOne", m>>,
                <<argument("where", InputType(FALSE, FALSE, "object", where_unique_name(m)))>>,
                OutputType(FALSE, TRUE, "object", <<m>>), "FindOne")>>])

(* The input types, in the order the mutation fields of the models ask for *)
(* them.  The emptiness of a root create or update input decides whether   *)
(* its arguments are offered.                                              *)
build_input_types(dm) ==
  FoldLeft(LAMBDA c, model :
             LET m == model.name
                 c1 == peek(create_input_type(dm, c, m, <<>>), <<m, "CreateInput">>)
                 c2 == peek(where_unique_object_type(dm, c1, m), where_unique_name(m))
                 c3 == peek(update_input_type(dm, c2, m), <<m, "UpdateInput">>)
             IN  update_many_input_type(dm, c3, m),
           EmptyCache, dm)

mutation_fields(m, c) ==
  LET One(opt) == OutputType(FALSE, opt, "object", <<m>>)
      Many == OutputType(FALSE, FALSE, "object", <<"BatchPayload">>)
      Input(name, type) == argument(name, InputType(FALSE, FALSE, "object", type))
      where == Input("where", where_unique_name(m))
      create == <<m, "CreateInput">>
      update == <<m, "UpdateInput">>
  IN  <<field(<<"createOne", m>>, IF is_empty(c, create) THEN <<>> ELSE <<Input("data", create)>>,
              One(FALSE), "CreateOne"),
        field(<<"deleteOne", m>>, <<where>>, One(TRUE), "DeleteOne"),
        field(<<"updateOne", m>>, <<Input("data", update), where>>, One(TRUE), "UpdateOne")>>
      \o (IF is_empty(c, create) \/ is_empty(c, update) THEN <<>>
          ELSE <<field(<<"upsertOne", m>>,
                       <<where, Input("create", create), Input("update", update)>>,
                       One(FALSE), "UpsertOne")>>)
      \o <<field(<<"updateMany", m>>,
                 <<Input("data", <<m, "UpdateManyMutationInput">>), where_argument(m)>>,
                 Many, "UpdateMany"),
           field(<<"deleteMany", m>>, <<where_argument(m)>>, Many, "DeleteMany")>>

(* The values of the data model's enum.                                    *)
EnumValues == {<<"ONE">>, <<"TWO">>}

schema_of(dm, c) ==
  [query |-> build_query_type(dm),
   mutation |-> FlattenSeq([i \in DOMAIN dm |-> mutation_fields(dm[i].name, c)]),
   inputs |-> c.types @@ filter_types(dm),
   objects |-> object_types(dm),
   enums |-> [e \in {<<"OrderBy", dm[i].name>> : i \in DOMAIN dm} |-> order_by_values(dm, e[2])]
            @@ (<<"Enum">> :> EnumValues),
   panic |-> c.panic]

build(dm) == schema_of(dm, build_input_types(dm))
=============================================================================
