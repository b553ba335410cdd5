----------------------------- MODULE ReadQueries -----------------------------
(***************************************************************************)
(* Building a read: a parsed field becomes a tree of read queries          *)
(* (core/src/query_graph_builder/read and utils).                          *)
(*                                                                         *)
(* Building ends "ok", in an "error" that is returned to the client, or in *)
(* a "panic" (an unwrap or an unreachable arm): [r, v].                    *)
(*                                                                         *)
(* A filter is [k, f, op, v, sub]: its kind, the field and operation, the  *)
(* values compared with, and the nested filters.  A read query is          *)
(*   [kind, name, model, rf, finder, args, scalars, lists, order, nested,  *)
(*    type].                                                               *)
(***************************************************************************)
EXTENDS QueryDocument, Integers

Null == 0 - 1

Ok(v) == [r |-> "ok", v |-> v]
Failed(r, v) == [r |-> r, v |-> v]

(* The first result of a sequence that is not ok decides.                  *)
CollectAll(results, failed) ==
  LET bad == SelectSeq(results, LAMBDA x : x.r # "ok")
  IN  IF bad = <<>> THEN Ok([i \in DOMAIN results |-> results[i].v]) ELSE Failed(bad[1].r, failed)

-----------------------------------------------------------------------------
(* Filters.                                                                *)

Filter(k, f, op, v, sub) == [k |-> k, f |-> f, op |-> op, v |-> v, sub |-> sub]
NoFilter == Filter("and", <<>>, "", <<>>, <<>>)

(* Filter operations in descending order of how they are checked.          *)
FILTER_OPERATIONS ==
  << [op |-> "NotIn", suffix |-> <<"_not", "_in">>],
     [op |-> "NotContains", suffix |-> <<"_not", "_contains">>],
     [op |-> "NotStartsWith", suffix |-> <<"_not", "_starts_with">>],
     [op |-> "NotEndsWith", suffix |-> <<"_not", "_ends_with">>],
     [op |-> "In", suffix |-> <<"_in">>], [op |-> "Not", suffix |-> <<"_not">>],
     [op |-> "Lt", suffix |-> <<"_lt">>], [op |-> "Lte", suffix |-> <<"_lte">>],
     [op |-> "Gt", suffix |-> <<"_gt">>], [op |-> "Gte", suffix |-> <<"_gte">>],
     [op |-> "Contains", suffix |-> <<"_contains">>],
     [op |-> "StartsWith", suffix |-> <<"_starts_with">>],
     [op |-> "EndsWith", suffix |-> <<"_ends_with">>],
     [op |-> "Some", suffix |-> <<"_some">>], [op |-> "None", suffix |-> <<"_none">>],
     [op |-> "Every", suffix |-> <<"_every">>],
     [op |-> "NestedAnd", suffix |-> <<"AND">>], [op |-> "NestedOr", suffix |-> <<"OR">>],
     [op |-> "NestedNot", suffix |-> <<"NOT">>], [op |-> "Field", suffix |-> <<>>] >>

EndsWith(name, suffix) ==
  /\ Len(suffix) <= Len(name)
  /\ SubSeq(name, Len(name) - Len(suffix) + 1, Len(name)) = suffix

(* The mutant of find_op: of two suffixes the shorter one is taken.        *)
ShorterSuffix(name) ==
  LET ops == SelectSeq(FILTER_OPERATIONS, LAMBDA o : EndsWith(name, o.suffix))
  IN  ops[IF Len(ops) > 2 THEN 2 ELSE 1]

find_op(name) == SelectSeq(FILTER_OPERATIONS, LAMBDA o : EndsWith(name, o.suffix))[1]

(* Every occurrence of the suffix at the end is removed.                   *)
trim_end_matches(name, suffix) ==
  LET n == CHOOSE k \in 0..Len(name) :
             /\ \A i \in 0..(k - 1) :
                  EndsWith(SubSeq(name, 1, Len(name) - i * Len(suffix)), suffix)
             /\ ~EndsWith(SubSeq(name, 1, Len(name) - k * Len(suffix)), suffix)
  IN  IF suffix = <<>> THEN name ELSE SubSeq(name, 1, Len(name) - n * Len(suffix))

NumberOf(v) == IF v.t = "null" THEN Null ELSE v.n

(* In and NotIn want a list or a null; any other operation takes a value.  *)
scalar_filter(f, op, v) ==
  CASE v.t = "map" -> Failed("error", NoFilter)
    [] v.t # "map" /\ op \in {"Some", "None", "Every"} -> Failed("panic", NoFilter)
    [] op \in {"In", "NotIn"} /\ v.t = "list" ->
         Ok(Filter("scalar", f, op, [i \in DOMAIN v.l |-> NumberOf(v.l[i])], <<>>))
    [] op \in {"In", "NotIn"} /\ v.t = "null" -> Ok(Filter("scalar", f, op, <<Null>>, <<>>))
    [] op \in {"In", "NotIn"} /\ v.t \notin {"list", "null", "map"} -> Failed("error", NoFilter)
    [] OTHER -> Ok(Filter("scalar", f, op, <<NumberOf(v)>>, <<>>))

relation_filter(f, op, v, nested) ==
  CASE v.t = "map" /\ nested.r # "ok" -> nested
    [] v.t = "map" /\ nested.r = "ok" /\ op \in {"Some", "None", "Every", "Field"} ->
         Ok(Filter("relation", f, op, <<>>, <<nested.v>>))
    [] v.t = "null" /\ op = "Field" -> Ok(Filter("isnull", f, op, <<>>, <<>>))
    [] v.t \notin {"map", "null"} -> Failed("error", NoFilter)
    [] OTHER -> Failed("panic", NoFilter)

RECURSIVE extract_filter(_, _, _)

filter_entry(dm, m, entry) ==
  LET op == find_op(entry.name)
      fields == find_from_all(dm, m, trim_end_matches(entry.name, op.suffix))
      v == entry.value
      maps == IF v.t = "map" THEN <<v>> ELSE v.l
      nested == CollectAll([i \in DOMAIN maps |-> IF maps[i].t = "map"
                                                  THEN extract_filter(dm, m, maps[i].o)
                                                  ELSE Failed("error", NoFilter)], <<>>)
      kind == [NestedAnd |-> "and", NestedOr |-> "or", NestedNot |-> "not"]
  IN  CASE op.op \in DOMAIN kind /\ v.t \in {"list", "map"} ->
             IF nested.r = "ok" THEN Ok(Filter(kind[op.op], <<>>, "", <<>>, nested.v))
             ELSE Failed(nested.r, NoFilter)
        [] op.op \in DOMAIN kind /\ v.t \notin {"list", "map"} -> Failed("panic", NoFilter)
        [] op.op \notin DOMAIN kind /\ fields = <<>> -> Failed("panic", NoFilter)
        [] op.op \notin DOMAIN kind /\ fields # <<>> ->
             IF fields[1].scalar THEN scalar_filter(fields[1], op.op, v)
             ELSE relation_filter(fields[1], op.op, v,
                    IF v.t = "map" THEN extract_filter(dm, fields[1].to, v.o) ELSE Ok(NoFilter))

extract_filter(dm, m, entries) ==
  LET all == CollectAll([i \in DOMAIN entries |-> filter_entry(dm, m, entries[i])], <<>>)
  IN  IF all.r = "ok" THEN Ok(Filter("and", <<>>, "", <<>>, all.v)) ELSE Failed(all.r, NoFilter)

-----------------------------------------------------------------------------
(* Query arguments.                                                        *)

NoArgs == [skip |-> Null, first |-> Null, last |-> Null, after |-> Null, before |-> Null,
           order |-> <<>>, filter |-> NoFilter]

argument_of(args, name) ==
  IF <<name>> \in Names(args) THEN find(args, <<name>>).value ELSE NullValue

(* An order is the field's name and the direction.                         *)
order_of(v) == IF v.t = "null" THEN <<>> ELSE <<SubSeq(v.e, 1, Len(v.e) - 1), v.e[Len(v.e)]>>

(* The conversion of a cursor to an id knows numbers and strings, and not  *)
(* what a string of the form of a UUID was parsed to.                      *)
into_id(v) == IF v.t = "UUID" THEN Failed("error", Null) ELSE Ok(NumberOf(v))

(* The arguments in the order of the schema: where comes before cursors.   *)
extract_query_args(dm, m, args) ==
  LET where == argument_of(args, "where")
      filter == IF where.t = "null" THEN Ok(NoFilter) ELSE extract_filter(dm, m, where.o)
      after == into_id(argument_of(args, "after"))
      before == into_id(argument_of(args, "before"))
  IN  [r |-> CollectAll(<<filter, after, before>>, <<>>).r,
       v |-> [skip |-> NumberOf(argument_of(args, "skip")), first |-> NumberOf(argument_of(args, "first")),
              last |-> NumberOf(argument_of(args, "last")), after |-> after.v, before |-> before.v,
              order |-> order_of(argument_of(args, "orderBy")), filter |-> filter.v]]

(* A record is found by exactly one field, with a value.                   *)
extract_record_finder(where) ==
  IF Len(where.o) # 1 THEN Failed("error", <<>>)
  ELSE IF where.o[1].value.t = "null" THEN Failed("error", <<>>)
  ELSE Ok(<<where.o[1].name, where.o[1].value.n>>)

-----------------------------------------------------------------------------
(* Read queries.                                                           *)

(* The order of the answer's keys: aliases where they are given.           *)
collect_selection_order(fields) ==
  [i \in DOMAIN fields |-> IF fields[i].alias = <<>> THEN fields[i].name ELSE fields[i].alias]

(* The scalar and list fields that are selected, by name.                  *)
collect_selected(dm, m, fields, list) ==
  LET picked == SelectSeq(fields, LAMBDA f : LET g == find_from_all(dm, m, f.name)[1]
                                             IN  g.scalar /\ g.list = list)
  IN  [i \in DOMAIN picked |-> picked[i].name]

RECURSIVE build_read(_, _, _, _, _)

collect_nested_queries(dm, m, fields) ==
  LET relations == SelectSeq(fields, LAMBDA f : ~find_from_all(dm, m, f.name)[1].scalar)
  IN  CollectAll([i \in DOMAIN relations |->
                    LET rf == find_from_all(dm, m, relations[i].name)[1]
                    IN  build_read(dm, "related", rf.to, <<rf>>, relations[i])], <<>>)

(* A record, many records, the records related to others, or a count.      *)
build_read(dm, kind, m, rf, field_) ==
  LET args == IF kind \in {"many", "related"} THEN extract_query_args(dm, m, field_.args) ELSE Ok(NoArgs)
      finder == IF kind = "one" THEN extract_record_finder(argument_of(field_.args, "where")) ELSE Ok(<<>>)
      selected == IF kind = "count" THEN <<>> ELSE field_.nested
      nested == collect_nested_queries(dm, m, selected)
      query == [kind |-> kind, name |-> field_.name, model |-> m, rf |-> rf,
                finder |-> finder.v, args |-> args.v,
                scalars |-> collect_selected(dm, m, selected, FALSE),
                lists |-> collect_selected(dm, m, selected, TRUE),
                order |-> collect_selection_order(selected),
                nested |-> nested.v, type |-> field_.type]
  IN  CASE args.r # "ok" -> Failed(args.r, query)
        [] args.r = "ok" /\ finder.r # "ok" -> Failed(finder.r, query)
        [] OTHER -> [r |-> nested.r, v |-> query]

(* A root field of the Query object: parsed, then built by the builder     *)
(* attached to it.                                                         *)
NoQuery == [kind |-> "none", name |-> <<>>, model |-> "", rf |-> <<>>, finder |-> <<>>, args |-> NoArgs,
            scalars |-> <<>>, lists |-> <<>>, order |-> <<>>, nested |-> <<>>,
            type |-> OutputType(FALSE, FALSE, "", <<>>)]

map_read_operation(dm, schema, selection) ==
  LET parsed == parse_object(schema, <<selection>>, schema.query)
      f == parsed.v[1]
      kind == [FindOne |-> "one", FindMany |-> "many", Aggregate |-> "count"]
  IN  IF ~parsed.ok THEN Failed("error", NoQuery)
      ELSE build_read(dm, kind[f.tag], f.name[2], <<>>, f)
=============================================================================
