---------------------------- MODULE ReadExecutor ----------------------------
(***************************************************************************)
(* A request on its way through the query engine: validated and built,     *)
(* executed one SQL statement at a time, and its results put together into *)
(* the answer (core/src/interpreter/query_interpreters/read.rs and         *)
(* core/src/response_ir).                                                  *)
(*                                                                         *)
(* A read opens no transaction: every statement sees the database as it is *)
(* when the statement runs, and other clients commit in between.           *)
(***************************************************************************)
EXTENDS SqlReads

CONSTANTS Datamodels,  \* data models by name
          Scenarios,   \* [request, db, connector, writes, pages]
          Edits(_)     \* the databases another client may turn a database into

VARIABLES
  scenario,   \* what the behaviour began with
  request,    \* [dm, op, sel]: the request the engine is working on
  db,         \* the database
  phase,      \* "asked", "reading" or "answered"
  query,      \* the tree of read queries
  todo,       \* the statements still to run
  results,    \* what the statements returned, by statement
  seen,       \* the database each statement saw
  reply,      \* [r, item]: the answer
  touched,    \* <<model, id>> of the records changed by others
  pages       \* the pages of records a client has been given

vars == <<scenario, request, db, phase, query, todo, results, seen, reply, touched, pages>>

(* The schema is built once, when the engine starts.                       *)
Schemas == [d \in DOMAIN Datamodels |-> build(Datamodels[d])]

-----------------------------------------------------------------------------
(* Items of an answer: a value, a list, or a map in the order of its keys. *)

Item(t, v, l, m) == [t |-> t, v |-> v, l |-> l, m |-> m]
ValueItem(v) == Item("value", v, <<>>, <<>>)
ListItem(l) == Item("list", 0, l, <<>>)
MapItem(m) == Item("map", 0, <<>>, m)
NoItem == Item("none", 0, <<>>, <<>>)

NoReply == [r |-> "none", item |-> NoItem]

-----------------------------------------------------------------------------
(* The statements of a query: its records, each of its scalar lists, and   *)
(* then those of the nested queries in turn.  A statement is known by the  *)
(* path of its query and the list it reads, if it reads one.               *)

RECURSIVE statements(_, _)
statements(q, path) ==
  <<[path |-> path, list |-> <<>>]>>
  \o [i \in DOMAIN q.lists |-> [path |-> path, list |-> q.lists[i]]]
  \o FlattenSeq([i \in DOMAIN q.nested |-> statements(q.nested[i], Append(path, i))])

RECURSIVE query_at(_, _)
query_at(q, path) == IF path = <<>> THEN q ELSE query_at(q.nested[Head(path)], Tail(path))

Records(path) == [path |-> path, list |-> <<>>]

collect_ids(rows) == [i \in DOMAIN rows |-> rows[i].id]

(* Rows as the statement returns them: with the values of the columns.     *)
FetchedRows(m, rows) ==
  [i \in DOMAIN rows |-> [id |-> rows[i].id, parent |-> rows[i].parent, values |-> db.rows[m][rows[i].id]]]

run_records(q, path) ==
  LET dm == Datamodels[request.dm]
      nulls_first == scenario.connector # "postgres"
  IN  CASE q.kind = "one" ->
             FetchedRows(q.model, WithParent(get_single_record(dm, db, q.model, q.finder), Null))
        [] q.kind = "many" ->
             FetchedRows(q.model, WithParent(get_many_records(dm, db, q.model, q.args, nulls_first), Null))
        [] q.kind = "related" ->
             FetchedRows(q.model, get_related_records(dm, db, scenario.connector, q.rf[1],
                                                      collect_ids(results[Records(Front(path))]), q.args))
        [] q.kind = "count" -> <<[id |-> Null, parent |-> Null, values |-> count_by_model(db, q.model)]>>

-----------------------------------------------------------------------------
(* The answer.                                                             *)

(* The mutant of trim_records: the extra record is taken from the end.     *)
TrimmedAtTheEnd(items, args) ==
  LET s == IF args.last # Null THEN Reverse(items) ELSE items
      n == IF args.first # Null THEN args.first ELSE args.last
  IN  IF n # Null /\ Len(s) > n THEN SubSeq(s, 1, Len(s) - 1) ELSE s

(* One record more than asked for may have been read; the last records     *)
(* are read in reverse.                                                    *)
trim_records(items, args) ==
  LET s == IF args.last # Null THEN Reverse(items) ELSE items
  IN  CASE args.first # Null /\ Len(s) > args.first -> SubSeq(s, 1, Len(s) - 1)
        [] ~(args.first # Null /\ Len(s) > args.first) /\ args.last # Null /\ Len(s) > args.last -> Tail(s)
        [] OTHER -> s

(* What a record without related records or list values gets.              *)
default_item(type) ==
  CASE type.list -> Ok(ListItem(<<>>))
    [] ~type.list /\ type.opt -> Ok(ValueItem(Null))
    [] ~type.list /\ ~type.opt -> Failed("panic", NoItem)

RECURSIVE serialize_record_selection(_, _, _, _)

(* A record's object: scalars, nested results and lists are entered by     *)
(* field name, and then taken out one by one in the order of the selection.*)
serialize_object(dm, q, nested, lists, row) ==
  LET model_field(name) == find_from_all(dm, q.model, name)[1]
      scalars == ToSet(q.scalars) \cup {id_field(dm, q.model).name}
      value(name) == IF model_field(name).id THEN row.id ELSE row.values[name]
      inner == [i \in DOMAIN q.nested |->
                  IF row.id \in DOMAIN nested[i].v THEN Ok(nested[i].v[row.id])
                  ELSE default_item(q.nested[i].type)]
      named(name) == {i \in DOMAIN q.nested : q.nested[i].name = name}
      latest(name) == CHOOSE i \in named(name) : \A j \in named(name) : j <= i
      names == scalars \cup ToSet(q.lists) \cup {q.nested[i].name : i \in DOMAIN q.nested}
      item(name) == CASE name \in scalars -> ValueItem(value(name))
                      [] name \in ToSet(q.lists) ->
                           ListItem(IF row.id \in DOMAIN lists[name]
                                    THEN [i \in DOMAIN lists[name][row.id] |-> ValueItem(lists[name][row.id][i])]
                                    ELSE <<>>)
                      [] OTHER -> inner[latest(name)].v
  IN  CASE \E n \in scalars : value(n) = Null /\ model_field(n).required -> Failed("error", NoItem)
        [] ~(\E n \in scalars : value(n) = Null /\ model_field(n).required)
           /\ \E n \in names : named(n) # {} /\ inner[latest(n)].r # "ok" -> Failed("panic", NoItem)
        [] OTHER ->
             IF ToSet(q.order) \subseteq names /\ IsInjective(q.order)
             THEN Ok(MapItem([i \in DOMAIN q.order |-> <<q.order[i], item(q.order[i])>>]))
             ELSE Failed("panic", NoItem)

serialize_objects(dm, q, path, res) ==
  LET rows == res[Records(path)]
      nested == [i \in DOMAIN q.nested |->
                   serialize_record_selection(dm, q.nested[i], Append(path, i), res)]
      lists == [name \in ToSet(q.lists) |-> res[[path |-> path, list |-> name]]]
      bad == SelectSeq(nested, LAMBDA n : n.r # "ok")
  IN  IF bad # <<>> THEN Failed(bad[1].r, <<>>)
      ELSE CollectAll([i \in DOMAIN rows |-> serialize_object(dm, q, nested, lists, rows[i])], <<>>)

(* The objects of every parent: a list of them, or the only one.           *)
serialize_record_selection(dm, q, path, res) ==
  LET rows == res[Records(path)]
      objects == serialize_objects(dm, q, path, res)
      of(p) == LET at == SelectSeq([i \in DOMAIN rows |-> i], LAMBDA i : rows[i].parent = p)
               IN  [i \in DOMAIN at |-> objects.v[at[i]]]
      parents == {rows[i].parent : i \in DOMAIN rows}
  IN  CASE Records(path) \notin DOMAIN res -> Ok(<<>>)
        [] Records(path) \in DOMAIN res /\ objects.r # "ok" -> Failed(objects.r, <<>>)
        [] Records(path) \in DOMAIN res /\ objects.r = "ok" /\ q.type.list ->
             Ok([p \in parents |-> ListItem(trim_records(of(p), q.args))])
        [] Records(path) \in DOMAIN res /\ objects.r = "ok" /\ ~q.type.list ->
             IF \E p \in parents : Len(of(p)) > 1 THEN Failed("error", <<>>)
             ELSE Ok([p \in parents |-> of(p)[1]])

serialize(dm, q, res) ==
  LET all == serialize_record_selection(dm, q, <<>>, res)
  IN  CASE q.kind = "count" ->
             [r |-> "ok", item |-> MapItem(<< <<<<"count">>, ValueItem(res[Records(<<>>)][1].values)>> >>)]
        [] q.kind # "count" /\ all.r # "ok" -> [r |-> all.r, item |-> NoItem]
        [] q.kind # "count" /\ all.r = "ok" ->
             [r |-> "ok", item |-> IF DOMAIN all.v = {} THEN default_item(q.type).v ELSE all.v[Null]]

-----------------------------------------------------------------------------
Init ==
  /\ \E s \in Scenarios : scenario = s
  /\ request = scenario.request
  /\ db = scenario.db
  /\ phase = "asked"
  /\ query = NoQuery
  /\ todo = <<>>
  /\ results = <<>>
  /\ seen = <<>>
  /\ reply = NoReply
  /\ touched = {}
  /\ pages = <<>>

Answer(r, item) == phase' = "answered" /\ reply' = [r |-> r, item |-> item] /\ todo' = <<>>

(* A mutation is validated like a query and then handed to the builder of  *)
(* its write graph.                                                        *)
map_write_operation(schema, selection) == parse_object(schema, <<selection>>, schema.mutation).ok

map_operation(dm, schema, op, selection) ==
  IF op = "query" THEN map_read_operation(dm, schema, selection)
  ELSE Failed(IF map_write_operation(schema, selection) THEN "handed over" ELSE "error", NoQuery)

Built(built) ==
  IF built.r = "ok"
  THEN /\ phase' = "reading"
       /\ query' = built.v
       /\ todo' = statements(built.v, <<>>)
       /\ UNCHANGED reply
  ELSE /\ Answer(IF built.r = "error" THEN "refused" ELSE built.r, NoItem)
       /\ UNCHANGED query

Validate ==
  /\ phase = "asked"
  /\ Built(map_operation(Datamodels[request.dm], Schemas[request.dm], request.op, request.sel))
  /\ results' = <<>>
  /\ seen' = <<>>
  /\ UNCHANGED <<scenario, request, db, touched, pages>>

(* A single record that is not found ends the reading: nothing nested is   *)
(* asked for.                                                              *)
Fetched(q, rows) ==
  /\ results' = (todo[1] :> rows) @@ results
  /\ todo' = IF q.kind = "one" /\ rows = <<>> THEN <<>> ELSE Tail(todo)
  /\ UNCHANGED <<phase, reply>>

(* A statement that reads records; the database may refuse it.             *)
ReadRecords ==
  /\ phase = "reading"
  /\ todo # <<>>
  /\ todo[1].list = <<>>
  /\ LET q == query_at(query, todo[1].path)
     IN  IF resolves(q.args.filter, Null, {}) THEN Fetched(q, run_records(q, todo[1].path))
         ELSE Answer("error", NoItem) /\ UNCHANGED results
  /\ seen' = (todo[1] :> db) @@ seen
  /\ UNCHANGED <<scenario, request, db, query, touched, pages>>

(* A statement that reads the values of a scalar list.                     *)
ReadList ==
  /\ phase = "reading"
  /\ todo # <<>>
  /\ todo[1].list # <<>>
  /\ LET q == query_at(query, todo[1].path)
     IN  results' = (todo[1] :> get_scalar_list_values(db, q.model, todo[1].list,
                                   collect_ids(results[Records(todo[1].path)]))) @@ results
  /\ todo' = Tail(todo)
  /\ seen' = (todo[1] :> db) @@ seen
  /\ UNCHANGED <<scenario, request, db, phase, query, reply, touched, pages>>

Answered(answer) == Answer(answer.r, answer.item)

Serialize ==
  /\ phase = "reading"
  /\ todo = <<>>
  /\ Answered(serialize(Datamodels[request.dm], query, results))
  /\ UNCHANGED <<scenario, request, db, query, results, seen, touched, pages>>

(* A client that pages through the records of a model asks for the page    *)
(* beyond the record it was given last.                                    *)
PageIds == [i \in DOMAIN reply.item.l |-> reply.item.l[i].m[1][2].v]

NextPage ==
  /\ phase = "answered"
  /\ scenario.pages # ""
  /\ reply.r = "ok"
  /\ reply.item.l # <<>>
  /\ LET cursor == IF scenario.pages = "after" THEN PageIds[Len(PageIds)] ELSE PageIds[1]
         at == [name |-> <<scenario.pages>>, value |-> Value("int", cursor, <<>>, <<>>, <<>>)]
     IN  request' = [request EXCEPT !.sel.args = <<at>> \o scenario.request.sel.args]
  /\ pages' = Append(pages, PageIds)
  /\ phase' = "asked"
  /\ reply' = NoReply
  /\ UNCHANGED <<scenario, db, query, todo, results, seen, touched>>

(* Another client commits.                                                 *)
Write ==
  /\ scenario.writes
  /\ touched = {}
  /\ phase # "answered" \/ scenario.pages # ""
  /\ \E e \in Edits(db) : db' = e.db /\ touched' = e.touched
  /\ UNCHANGED <<scenario, request, phase, query, todo, results, seen, reply, pages>>

(* The client has what it wanted.                                          *)
Done ==
  /\ phase = "answered"
  /\ \/ scenario.pages = ""
     \/ reply.r # "ok"
     \/ reply.item.l = <<>>
  /\ UNCHANGED vars

Next == Validate \/ ReadRecords \/ ReadList \/ Serialize \/ NextPage \/ Write \/ Done

Spec == Init /\ [][Next]_vars
=============================================================================
