---------------------------- MODULE QueryDocument ----------------------------
(***************************************************************************)
(* Parsing: a request's selections are validated against the query schema  *)
(* and turned into parsed fields (core/src/query_document/parser.rs).      *)
(*                                                                         *)
(* A selection is [name, alias, args, nested]; args is a sequence of       *)
(* [name, value].  A value, given or parsed, is [t, n, e, l, o]: its type, *)
(* and a number, a name, a list or the entries [name, value] of an object. *)
(* A parsed object has type "map".  A result is [ok, v].                   *)
(***************************************************************************)
EXTENDS QuerySchema

Value(t, n, e, l, o) == [t |-> t, n |-> n, e |-> e, l |-> l, o |-> o]
NullValue == Value("null", 0, <<>>, <<>>, <<>>)

Names(entries) == {entries[i].name : i \in DOMAIN entries}

find(entries, name) == entries[CHOOSE i \in DOMAIN entries :
                                 /\ entries[i].name = name
                                 /\ \A j \in 1..(i - 1) : entries[j].name # name]

Accept(v) == [ok |-> TRUE, v |-> v]
Refuse(v) == [ok |-> FALSE, v |-> v]

(* The results of a sequence, or the refusal of one of them.               *)
Collect(results) ==
  [ok |-> \A i \in DOMAIN results : results[i].ok, v |-> [i \in DOMAIN results |-> results[i].v]]

-----------------------------------------------------------------------------
(* Whether a string is a date, a document or a UUID is a property of the   *)
(* string, and its name says which it is.                                  *)
parse_scalar(schema, v, kind, of) ==
  LET type == of[1]
  IN  CASE kind = "enum" ->
             IF v.t = "enum" /\ v.e \in schema.enums[of] THEN Accept(v) ELSE Refuse(v)
        [] kind = "scalar" /\ v.t = "string" /\ type \in {"DateTime", "Json", "UUID"} ->
             IF v.e = <<type>> THEN Accept([v EXCEPT !.t = type]) ELSE Refuse(v)
        [] kind = "scalar" /\ v.t = "string" /\ type = "ID" ->
             Accept([v EXCEPT !.t = IF v.e = <<"UUID">> THEN "UUID" ELSE "string"])
        [] kind = "scalar" /\ <<v.t, type>> \in {<<"string", "String">>, <<"bool", "Boolean">>} -> Accept(v)
        [] kind = "scalar" /\ v.t \in {"int", "float"} /\ type \in {"Int", "Float"} ->
             Accept([v EXCEPT !.t = IF type = "Int" THEN "int" ELSE "float"])
        [] kind = "scalar" /\ v.t = "int" /\ type = "ID" -> Accept([v EXCEPT !.t = "id"])
        [] OTHER -> Refuse(v)

RECURSIVE parse_input_value(_, _, _)
RECURSIVE parse_input_object(_, _, _)

parse_list(schema, values, type) ==
  Collect([i \in DOMAIN values |-> parse_input_value(schema, values[i], [type EXCEPT !.list = FALSE])])

(* A null is accepted only where the type is optional; a single value     *)
(* where a list is wanted is a list of one.                                *)
parse_input_value(schema, v, type) ==
  LET inner == [type EXCEPT !.opt = FALSE]
  IN  CASE v.t = "null" /\ type.opt -> Accept(v)
        [] v.t = "null" /\ ~type.opt -> Refuse(v)
        [] v.t # "null" /\ type.list ->
             LET parsed == parse_list(schema, IF v.t = "list" THEN v.l ELSE <<v>>, inner)
             IN  [ok |-> parsed.ok, v |-> Value("list", 0, <<>>, parsed.v, <<>>)]
        [] v.t # "null" /\ ~type.list /\ type.kind = "object" ->
             IF v.t = "object" THEN parse_input_object(schema, v.o, type.of) ELSE Refuse(v)
        [] OTHER -> parse_scalar(schema, v, type.kind, type.of)

(* Fields that are not given must be optional or have a default, which is  *)
(* then added; fields that are given must be known and well typed.         *)
parse_input_object(schema, entries, name) ==
  LET fields == schema.inputs[name].fields
      unset == SelectSeq(fields, LAMBDA f : f.name \notin Names(entries))
      defaults == SelectSeq(unset, LAMBDA f : f.default)
      given == [i \in DOMAIN entries |->
                  IF entries[i].name \in Names(fields)
                  THEN parse_input_value(schema, entries[i].value, find(fields, entries[i].name).type)
                  ELSE Refuse(entries[i].value)]
      parsed == Collect(given)
  IN  [ok |-> parsed.ok /\ \A i \in DOMAIN unset : unset[i].default \/ unset[i].type.opt,
       v |-> Value("map", 0, <<>>, <<>>,
                   [i \in DOMAIN entries |-> [name |-> entries[i].name, value |-> parsed.v[i]]]
                   \o [i \in DOMAIN defaults |-> [name |-> defaults[i].name, value |-> NullValue]])]

-----------------------------------------------------------------------------
(* An argument that is not given is validated as a null and left out.      *)
parse_arguments(schema, schema_field, given) ==
  LET wanted == schema_field.args
      results == [i \in DOMAIN wanted |->
                    parse_input_value(schema,
                      IF wanted[i].name \in Names(given) THEN find(given, wanted[i].name).value ELSE NullValue,
                      wanted[i].type)]
      all == [i \in DOMAIN wanted |-> [name |-> wanted[i].name, value |-> results[i].v]]
  IN  [ok |-> Names(given) \subseteq Names(wanted) /\ \A i \in DOMAIN results : results[i].ok,
       v |-> SelectSeq(all, LAMBDA a : a.name \in Names(given))]

RECURSIVE parse_object(_, _, _)

parse_field(schema, selection, schema_field) ==
  LET args == parse_arguments(schema, schema_field, selection.args)
      nested == IF schema_field.type.kind = "object"
                THEN parse_object(schema, selection.nested, schema.objects[schema_field.type.of])
                ELSE Accept(<<>>)
  IN  [ok |-> args.ok /\ nested.ok,
       v |-> [name |-> selection.name, alias |-> selection.alias, args |-> args.v,
              nested |-> nested.v, type |-> schema_field.type, tag |-> schema_field.tag]]

(* The fields of an object: at least one, all of them known.  A field may  *)
(* be selected more than once.                                             *)
parse_object(schema, selections, fields) ==
  IF selections = <<>> \/ \E i \in DOMAIN selections : selections[i].name \notin Names(fields)
  THEN Refuse(<<>>)
  ELSE Collect([i \in DOMAIN selections |->
                  parse_field(schema, selections[i], find(fields, selections[i].name))])
=============================================================================
