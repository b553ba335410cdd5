--------------------------- MODULE WriteGraphBuilder ---------------------------
(***************************************************************************)
(* The graph builders of the write operations                              *)
(* (query_graph_builder/write): createOne, updateOne, upsertOne, deleteOne,*)
(* updateMany and deleteMany, with the nested writes of their data.        *)
(*                                                                         *)
(* A relation field f is seen from its model ("parent"); "related",        *)
(* "rlist", "rrequired" describe the field on the other side.  "inline"    *)
(* says that the relation is a column of one of the two tables (else it is *)
(* a join table), "owner" that the column is on this side (for a join      *)
(* table: that this side is the first column).                             *)
(*                                                                         *)
(* A record finder is the set with the id it names, {} when the caller gave*)
(* null; Everything is "no finder".  Data of a create or an update is      *)
(* [id, touch, nested]: the id of the new record, whether a scalar is      *)
(* written, and a sequence of [field, op, vals] in the order of the parsed *)
(* BTreeMap.  A value of a nested operation is [where, flag, create,       *)
(* update], of which every operation uses its own parts.                   *)
(***************************************************************************)
EXTENDS QueryGraph, TLC

CONSTANTS Everything,    \* The set of all record ids.
          Null           \* The value of an empty column.

related_field(f) ==
    [rel |-> f.rel, model |-> f.to, name |-> f.related, to |-> f.model, related |-> f.name,
     list |-> f.rlist, required |-> f.rrequired, rlist |-> f.list, rrequired |-> f.required,
     inline |-> f.inline, owner |-> ~ f.owner]

is_many_to_many(f) == f.list /\ f.rlist
is_one_to_many(f) == f.list # f.rlist
relation_is_inlined_in_parent(f) == f.inline /\ f.owner
relation_is_inlined_in_child(f) == f.inline /\ ~ f.owner

(* InternalDataModel::fields_requiring_model *)
fields_requiring_model(schema, model) ==
    SetToSeq({f \in schema : f.to = model /\ f.required /\ ~ f.list})

-------------------------------------------------------------------------------
(* Nodes.  One record shape serves all queries. *)

NoArgs == [f \in {} |-> Null]

Query(kind, model) ==
    [kind |-> kind, model |-> model, field |-> Null, filter |-> Everything, args |-> NoArgs,
     touch |-> FALSE, id |-> Null, parents |-> {}, parent |-> Null, child |-> Null, cond |-> FALSE]

CreateRecord(model, data) == [Query("create", model) EXCEPT !.id = data.id, !.touch = data.touch]
UpdateRecord(model, finder, touch) == [Query("update", model) EXCEPT !.filter = finder, !.touch = touch]
DeleteRecord(model, finder) == [Query("delete", model) EXCEPT !.filter = finder]
UpdateManyRecords(model, filter, touch) == [Query("updateMany", model) EXCEPT !.filter = filter, !.touch = touch]
DeleteManyRecords(model, filter) == [Query("deleteMany", model) EXCEPT !.filter = filter]
RecordQuery(model, finder) == [Query("readOne", model) EXCEPT !.filter = finder]
RelatedRecordsQuery(f, filter) == [Query("readRelated", f.to) EXCEPT !.field = f, !.filter = filter]
RelationQuery(kind, f) == [Query(kind, f.model) EXCEPT !.field = f]
FlowNode(kind) == Query(kind, Null)

(* utils.rs *)
read_ids_infallible(model, filter) == [Query("readMany", model) EXCEPT !.filter = filter]
update_record_node_placeholder(model, finder) == UpdateRecord(model, finder, FALSE)
node_is_create(g, n) == g.nodes[n].kind = "create"

-------------------------------------------------------------------------------
(* Dependencies.  ParentIds carries a closure: the number of parent ids it  *)
(* asks for (lo..hi, with the error for fewer and for more) and what it     *)
(* does to the node ("field" is the argument it sets, if any).              *)

ExecutionOrder == [kind |-> "order"]
Then == [kind |-> "then"]
Else == [kind |-> "else"]

Many == Cardinality(Everything)

ParentIds(lo, hi, few, many, do, field) ==
    [kind |-> "ids", lo |-> lo, hi |-> hi, few |-> few, many |-> many, do |-> do, field |-> field]

(* The closure pops the last id, and fails when there is none. *)
PopId(err, do, field) == ParentIds(1, Many, err, NoError, do, field)
ExactlyOne(none, do) == ParentIds(1, 1, none, "AssertionError", do, Null)
AllIds(do) == ParentIds(0, Many, NoError, NoError, do, Null)

InjectFinder(err) == PopId(err, "finder", Null)
InjectArg(f) == PopId("AssertionError", "arg", f)

-------------------------------------------------------------------------------
(* utils.rs: building blocks.  "n" is the NodeRef of a part's first node. *)

(* The edge of insert_find_children_by_parent_node; its node is a            *)
(* RelatedRecordsQuery.                                                      *)
insert_find_children_by_parent_node(parent, read) == Edge(parent, read, AllIds("parents"))

(* Read the child(ren) already related to the parent; fail if there is one   *)
(* that needs the relation; else clear the column on its side, if it is there. *)
insert_existing_1to1_related_model_checks(n, parent, f) ==
    LET existing == n + 1
        if_node  == n + 2
    IN  Part(<<RelatedRecordsQuery(f, Everything), update_record_node_placeholder(f.to, Everything),
               FlowNode("if")>>,
             <<insert_find_children_by_parent_node(parent, n),
               Edge(n, if_node, ParentIds(0, IF f.rrequired THEN 0 ELSE Many, NoError, "RelationViolation",
                                          IF relation_is_inlined_in_parent(f) THEN "ifNever" ELSE "ifAny", Null)),
               Edge(if_node, existing, Then),
               Edge(n, existing, PopId("AssertionError", "finderAndNull", related_field(f)))>>)

(* Mutant: no look at the records that need the deleted one. *)
DeleteUnchecked(n, schema, model, parent, child) == Nothing

(* One read for every field that needs a record of the model, in a chain,    *)
(* each with an edge to the Empty node "n" that fails if it found something.  *)
insert_deletion_checks(n, schema, model, parent, child) ==
    LET fields == fields_requiring_model(schema, model)
        last   == Len(fields)
        fail   == ParentIds(0, 0, NoError, "RelationViolation", "nothing", Null)
    IN  IF fields = <<>> THEN Nothing
        ELSE Part(<<FlowNode("empty")>>
                    \o [i \in 1..last |-> RelatedRecordsQuery(related_field(fields[i]), Everything)],
                  FlattenSeq([i \in 1..last |-> <<insert_find_children_by_parent_node(parent, n + i),
                                                  Edge(n + i, n, fail)>>])
                    \o [i \in 1..(last - 1) |-> Edge(n + i, n + i + 1, ExecutionOrder)]
                    \o <<Edge(n, child, ExecutionOrder)>>)

(* connect.rs and disconnect.rs *)
connect_records_node(n, parent, child, f) ==
    Part(<<RelationQuery("connect", f)>>,
         <<Edge(parent, n, ExactlyOne("AssertionError", "parent")),
           Edge(child, n, ExactlyOne("AssertionError", "child"))>>)

DisconnectManyToMany(n, parent, child, f) ==
    Part(<<RelationQuery("disconnect", f)>>,
         <<Edge(parent, n, PopId("AssertionError", "parent", Null)),
           Edge(child, n, ExactlyOne("RecordsNotConnected", "child"))>>)

DisconnectOneToX(n, parent, child, f) ==
    LET here   == relation_is_inlined_in_parent(f)
        column == IF here THEN f ELSE related_field(f)
    IN  Part(<<update_record_node_placeholder(column.model, Everything)>>,
             <<Edge(IF here THEN parent ELSE child, n, PopId("RecordsNotConnected", "finderAndNull", column)),
               Edge(IF here THEN child ELSE parent, n,
                    ParentIds(1, Many, "RecordsNotConnected", NoError, "nothing", Null))>>)

disconnect_records_node(g, parent, child, f) ==
    ExtendIf(TRUE, IF ~ is_many_to_many(f) /\ (f.required \/ f.rrequired) THEN Fail(g, "RelationViolation") ELSE g,
             LAMBDA n : IF is_many_to_many(f) THEN DisconnectManyToMany(n, parent, child, f)
                                              ELSE DisconnectOneToX(n, parent, child, f))

(* extract_record_finder *)
extract_record_finders(g, wheres) == IF {} \in wheres THEN Fail(g, "InputError") ELSE g

-------------------------------------------------------------------------------
(* Nested connect (nested/connect_nested.rs) *)

ConnectManyToMany(g, parent, f, finder) ==
    LET child == NextRef(g)
    IN  Extend(g, Join(<<Part(<<read_ids_infallible(f.to, finder)>>, <<Edge(parent, child, ExecutionOrder)>>),
                         connect_records_node(child + 1, parent, child, f)>>))

ConnectOneToMany(g, parent, f, finder) ==
    LET child == NextRef(g)
    IN  IF relation_is_inlined_in_parent(f)
        THEN Extend(mark_nodes(g, parent, child),
                    Part(<<read_ids_infallible(f.to, finder)>>, <<Edge(parent, child, InjectArg(f))>>))
        ELSE Extend(g, Part(<<update_record_node_placeholder(f.to, finder)>>,
                            <<Edge(parent, child, InjectArg(related_field(f)))>>))

(* The update that writes the column on the parent's, or the child's, side. *)
LinkOnParent(n, parent, child, f) ==
    Part(<<update_record_node_placeholder(f.model, Everything)>>,
         <<Edge(child, n, InjectArg(f)), Edge(parent, n, InjectFinder("AssertionError"))>>)

LinkOnChild(n, parent, child, f) ==
    Part(<<update_record_node_placeholder(f.to, Everything)>>,
         <<Edge(child, n, InjectFinder("AssertionError")), Edge(parent, n, InjectArg(related_field(f)))>>)

(* The child read, the checks of its parent, the edge to it, the checks of   *)
(* the parent's child, and the update that links the two.                    *)
ConnectOneToOne(g, parent, f, finder) ==
    LET here   == relation_is_inlined_in_parent(f)
        create == node_is_create(g, parent)
        child  == NextRef(g)
        g1 == Extend(mark_nodes(g, parent, child), Part(<<read_ids_infallible(f.to, finder)>>, <<>>))
        g2 == ExtendIf(f.required \/ here, g1,
                       LAMBDA n : insert_existing_1to1_related_model_checks(n, child, related_field(f)))
        g3 == create_edge(g2, parent, child,
                          PopId("AssertionError", IF here /\ create THEN "arg" ELSE "nothing", f))
        g4 == ExtendIf(~ create /\ (f.rrequired \/ ~ here), g3,
                       LAMBDA n : insert_existing_1to1_related_model_checks(n, parent, f))
    IN  IF f.required /\ f.rrequired THEN Fail(g, "RelationViolation")
        ELSE ExtendIf(~ (here /\ create), g4,
                      LAMBDA n : IF here THEN LinkOnParent(n, parent, child, f) ELSE LinkOnChild(n, parent, child, f))

connect_nested_connect(g, parent, f, v) ==
    CASE v.where = {}       -> extract_record_finders(g, {v.where})
      [] is_many_to_many(f) -> ConnectManyToMany(g, parent, f, v.where)
      [] is_one_to_many(f)  -> ConnectOneToMany(g, parent, f, v.where)
      [] OTHER              -> ConnectOneToOne(g, parent, f, v.where)

-------------------------------------------------------------------------------
(* Nested create (nested/create_nested.rs); "children" are the create nodes. *)

CreateManyToMany(g, parent, f, children) ==
    Extend(g, Join([i \in DOMAIN children |->
                       Join(<<Part(<<>>, <<Edge(parent, children[i], ExecutionOrder)>>),
                              connect_records_node(NextRef(g) + i - 1, parent, children[i], f)>>)]))

CreateOneToMany(g, parent, f, children) ==
    IF relation_is_inlined_in_parent(f)
    THEN create_edge(mark_nodes(g, parent, Last(children)), parent, Last(children), InjectArg(f))
    ELSE Extend(g, Part(<<>>, [i \in DOMAIN children |-> Edge(parent, children[i], InjectArg(related_field(f)))]))

CreateOneToOne(g, parent, f, child) ==
    LET here   == relation_is_inlined_in_parent(f)
        create == node_is_create(g, parent)
        g1 == ExtendIf(~ create, IF here THEN mark_nodes(g, parent, child) ELSE g,
                       LAMBDA n : insert_existing_1to1_related_model_checks(n, parent, f))
        g2 == create_edge(g1, parent, child,
                          PopId("AssertionError", "argIfCreate", IF here THEN f ELSE related_field(f)))
    IN  IF ~ create /\ f.required /\ f.rrequired THEN Fail(g, "RelationViolation")
        ELSE ExtendIf(here /\ ~ create, g2, LAMBDA n : LinkOnParent(n, parent, child, f))

RECURSIVE create_record_node(_, _, _)
RECURSIVE update_record_node(_, _, _, _)

(* The create nodes come first, each with the nested writes of its own data. *)
CreateNodes(g, model, vals) ==
    FoldLeft(LAMBDA acc, v : [graph |-> create_record_node(acc.graph, model, v.create),
                              refs  |-> Append(acc.refs, NextRef(acc.graph))],
             [graph |-> g, refs |-> <<>>], vals)

ConnectCreated(created, parent, f) ==
    CASE is_many_to_many(f) -> CreateManyToMany(created.graph, parent, f, created.refs)
      [] is_one_to_many(f)  -> CreateOneToMany(created.graph, parent, f, created.refs)
      [] OTHER              -> CreateOneToOne(created.graph, parent, f, Last(created.refs))

connect_nested_create(g, parent, f, vals) == ConnectCreated(CreateNodes(g, f.to, vals), parent, f)

-------------------------------------------------------------------------------
(* Nested delete, deleteMany, disconnect and set. *)

Finders(vals) == {v.where : v \in Range(vals)}

(* As many related records must be found as finders were given. *)
connect_nested_delete_list(g, parent, f, vals) ==
    LET delete == NextRef(g)
        find   == delete + 1
        wheres == UNION Finders(vals)
        count  == ParentIds(Len(vals), Len(vals), "RecordsNotConnected", "RecordsNotConnected", "narrow", Null)
    IN  Extend(extract_record_finders(g, Finders(vals)),
               Join(<<Part(<<DeleteManyRecords(f.to, wheres), RelatedRecordsQuery(f, wheres)>>,
                           <<insert_find_children_by_parent_node(parent, find)>>),
                      insert_deletion_checks(find + 1, g.schema, f.to, find, delete),
                      Part(<<>>, <<Edge(find, delete, count)>>)>>))

(* A read of related records, the checks for what needs them, their delete. *)
DeleteRelated(g, parent, f, read, delete, dep) ==
    LET n == NextRef(g)
    IN  Extend(g, Join(<<Part(<<read, delete>>, <<insert_find_children_by_parent_node(parent, n)>>),
                         insert_deletion_checks(n + 2, g.schema, f.to, n, n + 1),
                         Part(<<>>, <<Edge(n, n + 1, dep)>>)>>))

connect_nested_delete(g, parent, f, v) ==
    IF v.flag THEN DeleteRelated(g, parent, f, RelatedRecordsQuery(f, Everything), DeleteRecord(f.to, Everything),
                                 InjectFinder("AssertionError"))
    ELSE g

(* Mutant: the filter is not narrowed to the related records. *)
DeleteManyOfAnyone(g, parent, f, v) ==
    DeleteRelated(g, parent, f, RelatedRecordsQuery(f, v.where), DeleteManyRecords(f.to, v.where), AllIds("nothing"))

connect_nested_delete_many(g, parent, f, v) ==
    DeleteRelated(g, parent, f, RelatedRecordsQuery(f, v.where), DeleteManyRecords(f.to, v.where), AllIds("narrow"))

(* The related records that a nested value means: the one a finder names if  *)
(* the field is a list, else whichever is there.                             *)
Meant(f, v) == IF f.list THEN v.where ELSE Everything

FindMeant(g, parent, f, v) ==
    Extend(extract_record_finders(g, {Meant(f, v)}),
           Part(<<RelatedRecordsQuery(f, Meant(f, v))>>, <<insert_find_children_by_parent_node(parent, NextRef(g))>>))

(* A finder for a list, a flag for a single relation (which only 1:1 looks at). *)
connect_nested_disconnect(g, parent, f, v) ==
    IF ~ f.list /\ ~ f.rlist /\ ~ v.flag THEN g
    ELSE disconnect_records_node(FindMeant(g, parent, f, v), parent, NextRef(g), f)

connect_nested_set(g, parent, f, vals) ==
    LET child == NextRef(g)
        set   == child + 1
    IN  Extend(extract_record_finders(g, Finders(vals)),
               Part(<<read_ids_infallible(f.to, UNION Finders(vals)), RelationQuery("set", f)>>,
                    <<Edge(parent, child, ExecutionOrder), Edge(parent, set, ExactlyOne("AssertionError", "parent")),
                      Edge(child, set, AllIds("wheres"))>>))

-------------------------------------------------------------------------------
(* Nested update, updateMany and upsert. *)

connect_nested_update(g, parent, f, v) ==
    LET update == NextRef(g) + 1
    IN  create_edge(update_record_node(FindMeant(g, parent, f, v), f.to, Everything, v.update),
                    NextRef(g), update, InjectFinder("AssertionError"))

connect_nested_update_many(g, parent, f, v) ==
    LET n == NextRef(g)
    IN  Extend(g, Part(<<RelatedRecordsQuery(f, v.where), UpdateManyRecords(f.to, v.where, v.update.touch)>>,
                       <<insert_find_children_by_parent_node(parent, n), Edge(n, n + 1, AllIds("narrow"))>>))

(* The If node of an upsert, its two arms, and the link of the created record. *)
UpsertArms(parent, f, read, create, update, if_node) ==
    Join(<<Part(<<FlowNode("if")>>,
                <<Edge(read, if_node, AllIds("ifAny")), Edge(read, update, InjectFinder("AssertionError")),
                  Edge(if_node, update, Then), Edge(if_node, create, Else)>>),
           IF relation_is_inlined_in_child(f)
           THEN Part(<<>>, <<Edge(parent, create, InjectArg(related_field(f)))>>)
           ELSE connect_records_node(if_node + 1, parent, create, f)>>)

connect_nested_upsert(g, parent, f, v) ==
    LET read == NextRef(g)
    IN  Continue(create_record_node(FindMeant(g, parent, f, v), f.to, v.create),
            LAMBDA created, update :
                ExtendIf(TRUE, update_record_node(created, f.to, Everything, v.update),
                         LAMBDA n : UpsertArms(parent, f, read, read + 1, update, n)))

-------------------------------------------------------------------------------
(* nested/mod.rs: one nested operation.  Most builders treat the values of a *)
(* list one after the other.                                                 *)

NestedValue(g, parent, f, op, v) ==
    CASE op = "connect"    -> connect_nested_connect(g, parent, f, v)
      [] op = "delete"     -> connect_nested_delete(g, parent, f, v)
      [] op = "deleteMany" -> connect_nested_delete_many(g, parent, f, v)
      [] op = "disconnect" -> connect_nested_disconnect(g, parent, f, v)
      [] op = "update"     -> connect_nested_update(g, parent, f, v)
      [] op = "updateMany" -> connect_nested_update_many(g, parent, f, v)
      [] op = "upsert"     -> connect_nested_upsert(g, parent, f, v)

NestedItem(g, parent, n) ==
    CASE n.op = "create"                 -> connect_nested_create(g, parent, n.field, n.vals)
      [] n.op = "delete" /\ n.field.list -> connect_nested_delete_list(g, parent, n.field, n.vals)
      [] n.op = "set"                    -> connect_nested_set(g, parent, n.field, n.vals)
      [] OTHER -> FoldLeft(LAMBDA acc, v : NestedValue(acc, parent, n.field, n.op, v), g, n.vals)

connect_nested_query(g, parent, nested) ==
    FoldLeft(LAMBDA acc, n : NestedItem(acc, parent, n), g, nested)

create_record_node(g, model, data) ==
    connect_nested_query(Extend(g, Part(<<CreateRecord(model, data)>>, <<>>)), NextRef(g), data.nested)

update_record_node(g, model, finder, data) ==
    connect_nested_query(Extend(g, Part(<<UpdateRecord(model, finder, data.touch)>>, <<>>)), NextRef(g), data.nested)

-------------------------------------------------------------------------------
(* The operations of the mutation object, one graph each.  A request is      *)
(* [op, model, where, create, update].                                       *)

(* The follow-up read of the record a node has written. *)
ReadBack(g, node, model) ==
    Extend(add_result_node(g, NextRef(g)),
           Part(<<RecordQuery(model, Everything)>>, <<Edge(node, NextRef(g), InjectFinder("AssertionError"))>>))

create_record(g, r) == ReadBack(create_record_node(g, r.model, r.create), 1, r.model)

update_record(g, r) ==
    ReadBack(update_record_node(extract_record_finders(g, {r.where}), r.model, r.where, r.update), 1, r.model)

update_many_records(g, r) ==
    Extend(g, Part(<<UpdateManyRecords(r.model, r.where, r.update.touch)>>, <<>>))

(* The read, the delete, and between them the checks. *)
Deletion(g, r, read, delete) ==
    Extend(g, Join(<<Part(<<read, delete>>, <<>>), insert_deletion_checks(3, g.schema, r.model, 1, 2),
                     Part(<<>>, <<Edge(1, 2, ExecutionOrder)>>)>>))

delete_record(g, r) ==
    add_result_node(Deletion(extract_record_finders(g, {r.where}), r,
                             RecordQuery(r.model, r.where), DeleteRecord(r.model, r.where)), 1)

delete_many_records(g, r) ==
    Deletion(g, r, read_ids_infallible(r.model, r.where), DeleteManyRecords(r.model, r.where))

(* Nodes 1 and 2 are the read and the create. *)
TopUpsertArms(model, update, n) ==
    Part(<<RecordQuery(model, Everything), RecordQuery(model, Everything), FlowNode("if")>>,
         <<Edge(1, n + 2, AllIds("ifAny")), Edge(n + 2, update, Then), Edge(n + 2, 2, Else),
           Edge(update, n + 1, InjectFinder("AssertionError")), Edge(2, n, InjectFinder("AssertionError"))>>)

upsert_record(g, r) ==
    LET found == Extend(extract_record_finders(g, {r.where}), Part(<<read_ids_infallible(r.model, r.where)>>, <<>>))
    IN  Continue(create_record_node(found, r.model, r.create),
            LAMBDA created, update :
                Continue(update_record_node(created, r.model, r.where, r.update),
                         LAMBDA updated, n :
                             Extend([updated EXCEPT !.results = {n, n + 1}], TopUpsertArms(r.model, update, n))))

build(schema, r) ==
    LET g == new(schema)
    IN  CASE r.op = "createOne"  -> create_record(g, r)
          [] r.op = "updateOne"  -> update_record(g, r)
          [] r.op = "updateMany" -> update_many_records(g, r)
          [] r.op = "deleteOne"  -> delete_record(g, r)
          [] r.op = "deleteMany" -> delete_many_records(g, r)
          [] r.op = "upsertOne"  -> upsert_record(g, r)
===============================================================================
