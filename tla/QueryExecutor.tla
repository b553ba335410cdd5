----------------------------- MODULE QueryExecutor -----------------------------
(***************************************************************************)
(* The execution of a document of write operations: InterpretingExecutor,  *)
(* QueryPipeline, QueryInterpreter and the SQL connector's read and write  *)
(* operations on the tables.                                               *)
(*                                                                         *)
(* The tables are a record: "rows" gives the ids of each model, "links"    *)
(* holds <<relation, owner, other>> for every set foreign key column and   *)
(* every row of a join table, "touched" the records whose scalar fields    *)
(* were updated.  The foreign keys are the ones the migration engine makes:*)
(* ON DELETE SET NULL for a column, CASCADE for a join table.  No column   *)
(* with a foreign key is NOT NULL (render_nullability), so the database    *)
(* does not know which relation fields are required.                       *)
(***************************************************************************)
EXTENDS WriteGraphBuilder, FiniteSetsExt

CONSTANTS Schemas,          \* The data models: sets of relation fields.
          TablesOf(_),      \* The tables a schema's database may hold at the start.
          RequestsOf(_, _)  \* The documents for them: sequences of operations.

-------------------------------------------------------------------------------
(* The connector: reads. *)

Pairs(db, f) ==
    LET rel == {l \in db.links : l[1] = f.rel}
    IN  IF f.owner THEN {<<l[2], l[3]>> : l \in rel} ELSE {<<l[3], l[2]>> : l \in rel}

Found(db, n) == db.rows[n.model] \cap n.filter

RelatedTo(db, f, parents) == {p[2] : p \in {q \in Pairs(db, f) : q[1] \in parents}}

(* A result is [ok, ids]: ExpressionResult::as_ids, which is None for counts *)
(* and unit results.                                                         *)
Ids(s) == [ok |-> TRUE, ids |-> s]
NoIds == [ok |-> FALSE, ids |-> {}]

Done(db, result) == [db |-> db, result |-> result, err |-> NoError]
Error(db, e) == [db |-> db, result |-> NoIds, err |-> e]

-------------------------------------------------------------------------------
(* The connector: writes. *)

(* The columns of a model: the relation fields inlined in its table. *)
Columns(schema, model) == {f \in schema : f.model = model /\ relation_is_inlined_in_parent(f)}

SetColumns(links, ids, args) ==
    {l \in links : ~ \E f \in DOMAIN args : l[1] = f.rel /\ l[2] \in ids}
      \cup {<<f.rel, i, args[f]>> : f \in {x \in DOMAIN args : args[x] # Null}, i \in ids}

(* What the database refuses about the values of foreign key columns. *)
ColumnError(db, schema, model, args) ==
    CASE \E f \in DOMAIN args : f \notin Columns(schema, model) -> "UnknownColumn"
      [] \E f \in DOMAIN args : args[f] # Null /\ args[f] \notin db.rows[f.to] -> "ForeignKeyViolation"
      [] OTHER -> NoError

create_one(db, schema, n) ==
    LET e == ColumnError(db, schema, n.model, n.args)
    IN  CASE e # NoError -> Error(db, e)
          [] n.id \in db.rows[n.model] -> Error(db, "UniqueConstraintViolation")
          [] OTHER -> Done([db EXCEPT !.rows[n.model] = @ \cup {n.id},
                                      !.links = SetColumns(@, {n.id}, n.args)], Ids({n.id}))

(* update_records: no UPDATE at all without arguments. *)
update_records(db, schema, n) ==
    LET ids == Found(db, n)
        e   == ColumnError(db, schema, n.model, n.args)
    IN  CASE ids = {} -> Done(db, Ids({}))
          [] \E f \in DOMAIN n.args : f.required /\ n.args[f] = Null -> Error(db, "FieldCannotBeNull")
          [] e # NoError -> Error(db, e)
          [] OTHER -> Done([db EXCEPT !.links = SetColumns(@, ids, n.args),
                                      !.touched = IF n.touch THEN @ \cup ids ELSE @], Ids(ids))

(* update_one unwraps the last id: a panic when nothing matched. *)
update_one(db, schema, n) ==
    LET r == update_records(db, schema, n)
    IN  IF r.err # NoError THEN r
        ELSE IF r.result.ids = {} THEN Error(db, "Panic")
        ELSE [r EXCEPT !.result = Ids({Max(@.ids)})]

update_many(db, schema, n) ==
    [update_records(db, schema, n) EXCEPT !.result = NoIds]

(* The columns that refer to a deleted record become NULL, required or not. *)
delete_records(db, n) ==
    LET ids == Found(db, n)
    IN  Done([rows    |-> [db.rows EXCEPT ![n.model] = @ \ ids],
              links   |-> {l \in db.links : l[2] \notin ids /\ l[3] \notin ids},
              touched |-> db.touched \ ids], NoIds)

(* delete_one refuses to run without a finder. *)
delete_one(db, n) ==
    IF n.filter = Everything THEN Error(db, "InterpretationError") ELSE delete_records(db, n)

(* WriteQueryBuilder::create_relation: a plain UPDATE of the column, or an   *)
(* INSERT that ignores a duplicate.                                          *)
create_relation(db, f, parent, child) ==
    LET link  == IF f.owner THEN <<f.rel, parent, child>> ELSE <<f.rel, child, parent>>
        kept  == IF f.inline THEN {l \in db.links : ~ (l[1] = f.rel /\ l[2] = link[2])} ELSE db.links
        owner == IF f.owner THEN f.model ELSE f.to
        other == IF f.owner THEN f.to ELSE f.model
    IN  CASE f.inline /\ link[2] \notin db.rows[owner] -> Done(db, NoIds)
          [] link[2] \notin db.rows[owner] \/ link[3] \notin db.rows[other] -> Error(db, "ForeignKeyViolation")
          [] OTHER -> Done([db EXCEPT !.links = kept \cup {link}], NoIds)

(* disconnect is only used for join tables. *)
delete_relation(db, f, parent, child) ==
    Done([db EXCEPT !.links = @ \ {<<f.rel, IF f.owner THEN parent ELSE child,
                                            IF f.owner THEN child ELSE parent>>}], NoIds)

(* delete_relation_by_parent: the column is set to NULL, the rows of the join *)
(* table are deleted.                                                        *)
delete_relation_by_parent(db, f, parent) ==
    LET mine == {l \in db.links : l[1] = f.rel /\ parent = IF f.owner THEN l[2] ELSE l[3]}
    IN  Done([db EXCEPT !.links = @ \ mine], NoIds)

RECURSIVE ConnectAll(_, _, _, _)
ConnectAll(r, f, parent, children) ==
    IF r.err # NoError \/ children = {} THEN r
    ELSE LET c == Min(children)
         IN  ConnectAll(create_relation(r.db, f, parent, c), f, parent, children \ {c})

set(db, f, parent, children) ==
    ConnectAll(delete_relation_by_parent(db, f, parent), f, parent, children)

(* query_interpreters: execute one query. *)
execute(db, schema, n) ==
    CASE n.kind = "create"      -> create_one(db, schema, n)
      [] n.kind = "update"      -> update_one(db, schema, n)
      [] n.kind = "updateMany"  -> update_many(db, schema, n)
      [] n.kind = "delete"      -> delete_one(db, n)
      [] n.kind = "deleteMany"  -> delete_records(db, n)
      [] n.kind = "connect"     -> create_relation(db, n.field, n.parent, n.child)
      [] n.kind = "disconnect"  -> delete_relation(db, n.field, n.parent, n.child)
      [] n.kind = "set"         -> set(db, n.field, n.parent, n.parents)
      [] n.kind = "readOne"     -> IF n.filter = Everything THEN Error(db, "Panic")
                                   ELSE Done(db, Ids(Found(db, n)))
      [] n.kind = "readMany"    -> Done(db, Ids(Found(db, n)))
      [] n.kind = "readRelated" -> Done(db, Ids(RelatedTo(db, n.field, n.parents) \cap n.filter))

-------------------------------------------------------------------------------
(* Node transformers (Expressionista::transform_node and the closures on the *)
(* edges), run when the expression is reached.                               *)

Inject(n, f, v) == [n EXCEPT !.args = (f :> v) @@ @]

Apply(n, fn, ids) ==
    LET last == Max(ids)
    IN  CASE fn.do = "finder"        -> [n EXCEPT !.filter = {last}]
          [] fn.do = "finderAndNull" -> Inject([n EXCEPT !.filter = {last}], fn.field, Null)
          [] fn.do = "arg"           -> IF n.kind \in {"create", "update", "updateMany"}
                                        THEN Inject(n, fn.field, last) ELSE n
          [] fn.do = "argIfCreate"   -> IF n.kind = "create" THEN Inject(n, fn.field, last) ELSE n
          [] fn.do = "parents"       -> [n EXCEPT !.parents = ids]
          [] fn.do = "wheres"        -> [n EXCEPT !.parents = ids]
          [] fn.do = "parent"        -> [n EXCEPT !.parent = last]
          [] fn.do = "child"         -> [n EXCEPT !.child = last]
          [] fn.do = "narrow"        -> [n EXCEPT !.filter = @ \cap ids]
          [] fn.do = "ifAny"         -> [n EXCEPT !.cond = (ids # {})]
          [] fn.do = "ifNever"       -> [n EXCEPT !.cond = FALSE]
          [] fn.do = "nothing"       -> n

RECURSIVE transform_node(_, _, _)
transform_node(n, deps, env) ==
    IF deps = <<>> THEN [node |-> n, err |-> NoError]
    ELSE LET d == Head(deps)
         IN  IF d.from \notin DOMAIN env THEN [node |-> n, err |-> "EnvVarNotFound"]
             ELSE LET v == env[d.from]
                  IN  CASE ~ v.ok                         -> [node |-> n, err |-> "InterpretationError"]
                        [] Cardinality(v.ids) < d.fn.lo   -> [node |-> n, err |-> d.fn.few]
                        [] Cardinality(v.ids) > d.fn.hi   -> [node |-> n, err |-> d.fn.many]
                        [] OTHER -> transform_node(Apply(n, d.fn, v.ids), Tail(deps), env)

-------------------------------------------------------------------------------
(* QueryInterpreter::interpret as a stack machine.  A frame waits for the    *)
(* value of the frame above it: "let" for the next binding, "seq" for the    *)
(* next expression.  Settle runs the machine up to the next query.           *)

Eval(expr, env) == [frame |-> "eval", expr |-> expr, env |-> env, inner |-> env]

Machine(stack) == [stack |-> stack, result |-> NoIds, returning |-> FALSE, err |-> NoError]

Push(m, frames) == [m EXCEPT !.stack = frames \o Tail(@), !.returning = FALSE]
Return(m, v) == [m EXCEPT !.stack = Tail(@), !.result = v, !.returning = TRUE]
Stop(m, e) == [m EXCEPT !.stack = <<>>, !.err = e]

(* Continue with the expressions of a body, the last of which is the value. *)
Sequence(m, body, env) ==
    IF body = <<>> THEN Return(m, NoIds)
    ELSE Push(m, <<Eval(Head(body), env)>> \o
                 (IF Len(body) = 1 THEN <<>>
                  ELSE <<[Eval([Expr("seq") EXCEPT !.body = Tail(body)], env) EXCEPT !.frame = "seq"]>>))

(* Bindings are evaluated in the outer environment, the body in the inner one. *)
Bind(m, e, env, inner) ==
    IF e.binds = <<>> THEN Sequence(m, e.body, inner)
    ELSE Push(m, <<Eval(Head(e.binds).expr, env),
                   [frame |-> "let", expr |-> e, env |-> env, inner |-> inner]>>)

StepEval(m, nodes) ==
    LET top == Head(m.stack)
        e   == top.expr
        t   == transform_node(IF e.node = 0 THEN Null ELSE nodes[e.node], e.deps, top.env)
        bound == SelectSeq(e.binds, LAMBDA b : b \in DOMAIN top.env)
    IN  CASE e.type = "let" -> Bind(m, e, top.env, top.env)
          [] e.type = "seq" -> IF t.err # NoError THEN Stop(m, t.err) ELSE Sequence(m, e.body, top.env)
          [] e.type = "if"  -> IF e.deps = <<>> THEN Stop(m, "Panic")
                               ELSE IF t.err # NoError THEN Stop(m, t.err)
                               ELSE Sequence(m, IF t.node.cond THEN e.body ELSE e.else, top.env)
          [] e.type = "get" -> IF e.node \in DOMAIN top.env THEN Return(m, top.env[e.node])
                               ELSE Stop(m, "EnvVarNotFound")
          [] e.type = "first" -> IF bound = <<>> THEN Stop(m, "Panic") ELSE Return(m, top.env[Head(bound)])

StepReturn(m) ==
    LET top == Head(m.stack)
        e   == top.expr
    IN  IF top.frame = "seq" THEN Sequence(m, e.body, top.env)
        ELSE Bind(m, [e EXCEPT !.binds = Tail(@)], top.env, (Head(e.binds).name :> m.result) @@ top.inner)

RECURSIVE Settle(_, _)
Settle(m, nodes) ==
    CASE m.stack = <<>> -> m
      [] m.stack # <<>> /\ m.returning -> Settle(StepReturn(m), nodes)
      [] m.stack # <<>> /\ ~ m.returning /\ Head(m.stack).expr.type = "query" -> m
      [] OTHER -> Settle(StepEval(m, nodes), nodes)

-------------------------------------------------------------------------------
(* InterpretingExecutor::execute and QueryPipeline::execute. *)

VARIABLES
    document,   \* The document being executed.
    phase,      \* "build", "start", "run", "done" or "failed".
    next,       \* The operation that runs or runs next.
    graph,      \* The finished graph of that operation.
    db,         \* The committed tables.
    tx,         \* The tables as the open transaction sees them.
    machine,    \* The interpreter.
    responses,  \* The results of the operations that succeeded.
    error       \* The error the caller gets, if any.

vars == <<document, phase, next, graph, db, tx, machine, responses, error>>

NoGraph == new({})

Init ==
    /\ \E s \in Schemas : \E d \in TablesOf(s) : \E ops \in RequestsOf(s, d) :
           document = [schema |-> s, db |-> d, operations |-> ops]
    /\ phase = "build"
    /\ next = 1
    /\ graph = NoGraph
    /\ db = document.db
    /\ tx = document.db
    /\ machine = Machine(<<>>)
    /\ responses = <<>>
    /\ error = NoError

(* QueryGraphBuilder::build: all graphs are built before the first one runs. *)
Build ==
    LET errs == SelectSeq([i \in DOMAIN document.operations |->
                              build(document.schema, document.operations[i]).err],
                          LAMBDA e : e # NoError)
    IN  /\ phase = "build"
        /\ IF errs = <<>> THEN phase' = "start" /\ UNCHANGED error
                          ELSE phase' = "failed" /\ error' = Head(errs)
        /\ UNCHANGED <<document, next, graph, db, tx, machine, responses>>

(* The interpreter at the first query of a finished graph. *)
Load(g, e) ==
    CASE g.err # NoError              -> Stop(Machine(<<>>), g.err)
      [] ~ IsInjective(Occurrences(e)) -> Stop(Machine(<<>>), "Panic")
      [] OTHER                        -> Settle(Machine(<<Eval(e, NoArgs)>>), g.nodes)

(* start_transaction, finalize, translate. *)
Start ==
    /\ phase = "start"
    /\ phase' = "run"
    /\ tx' = db
    /\ \E g \in {finalize(build(document.schema, document.operations[next]))} :
           /\ graph' = g
           /\ machine' = Load(g, translate(g))
    /\ UNCHANGED <<document, next, db, responses, error>>

(* One query of the expression, with the expressions around it. *)
Statement ==
    LET top == Head(machine.stack)
        t   == transform_node(graph.nodes[top.expr.node], top.expr.deps, top.env)
        r   == execute(tx, document.schema, t.node)
    IN  /\ phase = "run"
        /\ machine.stack # <<>>
        /\ IF t.err # NoError
           THEN machine' = Stop(machine, t.err) /\ UNCHANGED tx
           ELSE /\ tx' = r.db
                /\ machine' = IF r.err # NoError THEN Stop(machine, r.err)
                              ELSE Settle(Return(machine, r.result), graph.nodes)
        /\ UNCHANGED <<document, phase, next, graph, db, responses, error>>

(* The connection fails under a statement or under the commit. *)
ConnectorFails ==
    /\ phase = "run"
    /\ machine.err = NoError
    /\ machine' = Stop(machine, "ConnectorError")
    /\ UNCHANGED <<document, phase, next, graph, db, tx, responses, error>>

Commit ==
    /\ phase = "run"
    /\ machine.stack = <<>>
    /\ machine.err = NoError
    /\ db' = tx
    /\ responses' = Append(responses, machine.result)
    /\ phase' = IF next = Len(document.operations) THEN "done" ELSE "start"
    /\ next' = next + 1
    /\ graph' = NoGraph
    /\ machine' = Machine(<<>>)
    /\ UNCHANGED <<document, tx, error>>

(* rollback, or the drop of the transaction when the engine panics. *)
Rollback ==
    /\ phase = "run"
    /\ machine.err # NoError
    /\ tx' = db
    /\ error' = machine.err
    /\ phase' = "failed"
    /\ graph' = NoGraph
    /\ machine' = Machine(<<>>)
    /\ UNCHANGED <<document, next, db, responses>>

Finished == phase \in {"done", "failed"} /\ UNCHANGED vars

Next == Build \/ Start \/ Statement \/ ConnectorFails \/ Commit \/ Rollback \/ Finished

Spec == Init /\ [][Next]_vars
===============================================================================
