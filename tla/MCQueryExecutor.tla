---------------------------- MODULE MCQueryExecutor ----------------------------
(***************************************************************************)
(* Data models, tables and documents for QueryExecutor: the model A with a *)
(* relation x to B, alone, next to a relation y to C, or above a relation  *)
(* y from B to C, every relation of each of the 13 kinds.                  *)
(***************************************************************************)
EXTENDS WriteCorrectness

MCEverything == 1..11

(* The records in the tables are 1, 2 (A), 3, 4 (B) and 5, 6 (C). *)
NewA == 7
NewB == 8
NewB2 == 9
NewC == 10
Missing == 11

-------------------------------------------------------------------------------
(* Data models. *)

FieldsOf(rel, m, x, n, y, list, required, rlist, rrequired, inline, owner) ==
    LET f == [rel |-> rel, model |-> m, name |-> x, to |-> n, related |-> y,
              list |-> list, required |-> required, rlist |-> rlist, rrequired |-> rrequired,
              inline |-> inline, owner |-> owner]
    IN  {f, related_field(f)}

OneToOnes(rel, m, x, n, y) ==
    {FieldsOf(rel, m, x, n, y, FALSE, req, FALSE, rreq, TRUE, own) : req, rreq, own \in BOOLEAN}
OneToManys(rel, m, x, n, y) ==
    {FieldsOf(rel, m, x, n, y, TRUE, FALSE, FALSE, rreq, TRUE, FALSE) : rreq \in BOOLEAN}
ManyToOnes(rel, m, x, n, y) ==
    {FieldsOf(rel, m, x, n, y, FALSE, req, TRUE, FALSE, TRUE, TRUE) : req \in BOOLEAN}
ManyToManys(rel, m, x, n, y) ==
    {FieldsOf(rel, m, x, n, y, TRUE, FALSE, TRUE, FALSE, FALSE, TRUE)}

Relations(rel, m, x, n, y) ==
    OneToOnes(rel, m, x, n, y) \cup OneToManys(rel, m, x, n, y)
      \cup ManyToOnes(rel, m, x, n, y) \cup ManyToManys(rel, m, x, n, y)

(* One kind of each way in which a nested write is built: the column in the  *)
(* parent or in the child, which needs it, a list of parents, a join table.  *)
SomeRelations(rel, m, x, n, y) ==
    {FieldsOf(rel, m, x, n, y, FALSE, FALSE, FALSE, FALSE, TRUE, TRUE),
     FieldsOf(rel, m, x, n, y, FALSE, FALSE, FALSE, TRUE, TRUE, FALSE),
     FieldsOf(rel, m, x, n, y, FALSE, TRUE, TRUE, FALSE, TRUE, TRUE)}
      \cup ManyToManys(rel, m, x, n, y)

(* One relation; two on A; one below the other. *)
Singles == Relations("r", "A", "x", "B", "a")
Forks == {r \cup s : r \in SomeRelations("r", "A", "x", "B", "a"), s \in SomeRelations("s", "A", "y", "C", "b")}
Chains == {r \cup s : r \in Singles, s \in SomeRelations("s", "B", "y", "C", "b")}

X(schema) == CHOOSE f \in schema : f.name = "x"
Y(schema) == CHOOSE f \in schema : f.name = "y"
IsSingle(schema) == \A f \in schema : f.name # "y"
IsChain(schema) == \E f \in schema : f.name = "y" /\ f.model = "B"

(* All tables with the given records in which the relations hold. *)
Links(f, rows) == SUBSET {IF f.owner THEN <<f.rel, p, c>> ELSE <<f.rel, c, p>> :
                              p \in rows[f.model], c \in rows[f.to]}

AllTables(schema, rows) ==
    LET links == IF IsSingle(schema) THEN Links(X(schema), rows)
                 ELSE {l \cup k : l \in Links(X(schema), rows), k \in Links(Y(schema), rows)}
    IN  {d \in {[rows |-> rows, links |-> l, touched |-> {}] : l \in links} : RelationsHold(d, schema)}

Rows(as, bs, cs) == [A |-> as, B |-> bs, C |-> cs]

MCTables(schema) ==
    CASE IsSingle(schema) -> UNION {AllTables(schema, Rows(as, bs, {})) : as \in {{1}, {1, 2}}, bs \in {{3}, {3, 4}}}
      [] IsChain(schema)  -> AllTables(schema, Rows({1}, {3, 4}, {5}))
      [] OTHER            -> AllTables(schema, Rows({1}, {3}, {5})) \cup AllTables(schema, Rows({1, 2}, {3}, {5}))

-------------------------------------------------------------------------------
(* The values of one nested operation on a field: "old" are the records of   *)
(* its model, "fresh" the id of one to create.                                 *)

NoData == [id |-> Null, touch |-> FALSE, nested |-> <<>>]
NoValue == [where |-> {}, flag |-> FALSE, create |-> NoData, update |-> NoData]

New(id, nested) == [NoData EXCEPT !.id = id, !.nested = nested]
Change(nested) == [NoData EXCEPT !.touch = TRUE, !.nested = nested]
Finder(id) == [NoValue EXCEPT !.where = {id}]
Flag(b) == [NoValue EXCEPT !.flag = b]
CreateOf(id) == [NoValue EXCEPT !.create = New(id, <<>>)]

(* What names the records of a nested update or upsert. *)
Named(f, ids) == IF f.list THEN {Finder(i) : i \in ids} ELSE {NoValue}

Lists(f, seqs) == IF f.list THEN seqs ELSE {}
Optional(f, seqs) == IF f.list \/ f.required THEN {} ELSE seqs

(* A connect to a missing record of a child that holds the column, and the   *)
(* disconnect flag FALSE on a field whose other side is a list, are left out:*)
(* see the README.                                                           *)
Values(f, op, old, fresh) ==
    LET one == Min(old)
        two == Max(old)
        both == <<Finder(one), Finder(two)>>
        ghost == <<Finder(Missing)>>
        holds == f.list /\ ~ f.rlist
    IN  CASE op = "create"     -> {<<CreateOf(fresh)>>} \cup Lists(f, {<<CreateOf(fresh), CreateOf(NewB2)>>})
          [] op = "connect"    -> {<<Finder(one)>>, <<NoValue>>} \cup Lists(f, {both})
                                    \cup IF holds THEN {} ELSE {ghost}
          [] op = "delete"     -> Lists(f, {<<Finder(one)>>, both, ghost}) \cup Optional(f, {<<Flag(TRUE)>>, <<Flag(FALSE)>>})
          [] op = "deleteMany" -> Lists(f, {<<[NoValue EXCEPT !.where = w]>> : w \in {{one}, Everything}})
          [] op = "disconnect" -> Lists(f, {<<Finder(one)>>, both})
                                    \cup Optional(f, {<<Flag(b)>> : b \in IF f.rlist THEN {TRUE} ELSE BOOLEAN})
          [] op = "set"        -> Lists(f, {<<>>, <<Finder(one)>>, both, ghost})
          [] op = "update"     -> {<<[v EXCEPT !.update = Change(<<>>)]>> : v \in Named(f, {one})}
          [] op = "updateMany" -> Lists(f, {<<[NoValue EXCEPT !.where = w, !.update = Change(<<>>)]>> :
                                                w \in {{one}, Everything}})
          [] op = "upsert"     -> {<<[v EXCEPT !.create = New(fresh, <<>>), !.update = Change(<<>>)]>> :
                                       v \in Named(f, {one, Missing})}

(* In the order of a BTreeMap. *)
Ops == <<"connect", "create", "delete", "deleteMany", "disconnect", "set", "update", "updateMany", "upsert">>
OpsOfCreate == {"connect", "create"}

Item(f, op, vals) == [field |-> f, op |-> op, vals |-> vals]
Items(f, ops, old, fresh) == UNION {{Item(f, op, vals) : vals \in Values(f, op, old, fresh)} : op \in ops}

ItemsB(f, ops, d) == Items(f, ops, d.rows["B"], NewB)
ItemsC(f, ops, d) == {i \in Items(f, ops, d.rows["C"], NewC) : Len(i.vals) <= 1}

-------------------------------------------------------------------------------
(* Documents of one operation. *)

Request(op, model, where, create, update) ==
    [op |-> op, model |-> model, where |-> where, create |-> create, update |-> update]

CreateA(nested) == Request("createOne", "A", {}, New(NewA, nested), NoData)
UpdateA(nested) == Request("updateOne", "A", {1}, NoData, Change(nested))
UpsertA(where, create, update) == Request("upsertOne", "A", {where}, New(NewA, create), Change(update))
DeleteA(where) == Request("deleteOne", "A", where, NoData, NoData)
DeleteManyA(where) == Request("deleteMany", "A", where, NoData, NoData)
UpdateManyA(where) == Request("updateMany", "A", where, NoData, Change(<<>>))

(* The nested writes of x in a create and in an update of A. *)
InCreate(f, d) == {<<i>> : i \in ItemsB(f, OpsOfCreate, d)} \cup IF f.required THEN {} ELSE {<<>>}
InUpdate(f, d) == {<<>>} \cup {<<i>> : i \in ItemsB(f, Range(Ops), d)}

(* A create that the schema accepts. *)
SomeCreate(f) == <<Item(f, "create", <<CreateOf(NewB)>>)>>

SingleRequests(f, d) ==
    {CreateA(n) : n \in InCreate(f, d)} \cup {UpdateA(n) : n \in InUpdate(f, d)}
      \cup {UpsertA(Missing, n, <<>>) : n \in InCreate(f, d)}
      \cup {UpsertA(1, SomeCreate(f), n) : n \in InUpdate(f, d)}
      \cup {DeleteA(w) : w \in {{1}, {Missing}, {}}}
      \cup {DeleteManyA(w) : w \in {{1}, Everything}} \cup {UpdateManyA(w) : w \in {{1}, Everything}}

(* Two nested operations on one list. *)
ListRequests(f, d) ==
    {UpdateA(<<Item(f, Ops[i], v), Item(f, Ops[j], w)>>) :
        <<i, v, j, w>> \in UNION {{i} \X {v \in Values(f, Ops[i], d.rows["B"], NewB) : Len(v) = 1}
                                    \X {j} \X {w \in Values(f, Ops[j], d.rows["B"], NewB) : Len(w) = 1} :
                                     <<i, j>> \in {p \in (1..9) \X (1..9) : p[1] < p[2]}}}

(* Two operations in one document, one of which may fail. *)
PairRequests(f, d) ==
    LET rs == {CreateA(SomeCreate(f)), UpdateA(<<Item(f, "connect", <<Finder(3)>>)>>), UpdateA(<<>>),
               DeleteA({1}), DeleteA({}), DeleteManyA(Everything), UpsertA(1, SomeCreate(f), <<>>)}
    IN  {p \in rs \X rs : p[1].op \in {"deleteOne", "deleteMany"} => p[2].op # "updateOne"}

(* Nested writes on two fields of A. *)
ForkRequests(x, y, d) ==
    {CreateA(<<i, j>>) : i \in {k \in ItemsB(x, OpsOfCreate, d) : Len(k.vals) <= 1}, j \in ItemsC(y, OpsOfCreate, d)}
      \cup {UpdateA(<<i, j>>) : i \in {k \in ItemsB(x, Range(Ops), d) : Len(k.vals) <= 1},
                                     j \in ItemsC(y, {"connect", "create", "disconnect", "upsert"}, d)}

(* Nested writes inside the nested writes of A. *)
DeepCreate(x, y, d) ==
    {Item(x, "create", <<[NoValue EXCEPT !.create = New(NewB, <<j>>)]>>) : j \in ItemsC(y, OpsOfCreate, d)}

DeepUpdate(x, y, d) ==
    {Item(x, "update", <<[v EXCEPT !.update = Change(<<j>>)]>>) : v \in Named(x, {3}), j \in ItemsC(y, Range(Ops), d)}
      \cup {Item(x, "upsert", <<[v EXCEPT !.create = New(NewB, <<Item(y, "create", <<CreateOf(NewC)>>)>>),
                                         !.update = Change(<<j>>)]>>) :
                v \in Named(x, {3}), j \in ItemsC(y, Range(Ops), d)}

(* A nested create with nested writes of its own, for a field of a one-to-one *)
(* relation with the column in the child, in an update: see nested_unlinked.  *)
Unlinks(x) == ~ x.list /\ ~ x.rlist /\ ~ x.owner

ChainRequests(x, y, d) ==
    {CreateA(<<i>>) : i \in DeepCreate(x, y, d)} \cup {UpdateA(<<i>>) : i \in DeepUpdate(x, y, d)}
      \cup IF Unlinks(x) THEN {} ELSE {UpdateA(<<i>>) : i \in DeepCreate(x, y, d)}

One(rs) == {<<r>> : r \in rs}

MCRequests(schema, d) ==
    LET x == X(schema)
    IN  CASE IsSingle(schema) -> One(SingleRequests(x, d)) \cup PairRequests(x, d)
                                   \cup IF x.list /\ Cardinality(d.rows["A"]) = 2 THEN One(ListRequests(x, d)) ELSE {}
          [] IsChain(schema)  -> One(ChainRequests(x, Y(schema), d))
          [] OTHER            -> One(ForkRequests(x, Y(schema), d))

MCSchemas == Singles \cup Chains \cup Forks

-------------------------------------------------------------------------------
(* A record created for A.x, itself with a nested write. *)
UnlinkedSchemas == {s \in Chains : Unlinks(X(s))}
UnlinkedRequests(schema, d) == One({UpdateA(<<i>>) : i \in DeepCreate(X(schema), Y(schema), d)})
===============================================================================
