--------------------------- MODULE ReadCorrectness ---------------------------
(***************************************************************************)
(* The properties of requests: which are accepted, what is answered, what  *)
(* can fail, and what a client that pages through the records is given.    *)
(***************************************************************************)
EXTENDS ReadMeaning

-----------------------------------------------------------------------------
(* Valid documents, from the data model alone.                             *)

Fits(type, v) ==
  CASE type \in {"Int", "Float"} -> v.t \in {"int", "float"}
    [] type = "ID" -> v.t \in {"int", "string"}
    [] type = "String" -> v.t = "string"
    [] type = "Boolean" -> v.t = "bool"
    [] type = "Enum" -> v.t = "enum" /\ v.e \in EnumValues
    [] type \in {"DateTime", "Json", "UUID"} -> v.t = "string" /\ v.e = <<type>>

IsField(m, name) == \E f \in ToSet(model_of(Dm, m).fields) : f.name = name /\ ~f.hidden
FieldNamed(m, name) == find_from_all(Dm, m, name)[1]
IsObject(v) == v.t = "object"

(* What a filter on a field compares with: a value, a list of values, a    *)
(* filter of the related records, or nothing, when there is no such filter.*)
Comparand(f, operation) ==
  CASE f.scalar /\ (f.list \/ f.type = "Json") -> "nothing"
    [] f.scalar /\ ~f.list /\ f.type # "Json" ->
         CASE operation \in {<<>>, <<"_not">>} -> "value"
           [] operation \in {<<"_in">>, <<"_not", "_in">>} /\ f.type # "Boolean" -> "list"
           [] operation \in {<<"_lt">>, <<"_lte">>, <<"_gt">>, <<"_gte">>} /\ f.type \notin {"Boolean", "Enum"} -> "value"
           [] operation \in ToSet(Matching) /\ f.type \in {"String", "ID", "UUID"} -> "value"
           [] OTHER -> "nothing"
    [] ~f.scalar -> IF operation \in IF f.list THEN {<<"_some">>, <<"_none">>, <<"_every">>} ELSE {<<>>}
                    THEN "filter" ELSE "nothing"

Begins(name, f) == Len(f.name) <= Len(name) /\ SubSeq(name, 1, Len(f.name)) = f.name

(* A filter of scalars has no relations in it.                             *)
RECURSIVE ValidWhere(_, _, _)
ValidFilter(m, f, comparand, v, deep) ==
  CASE comparand = "value" -> Fits(f.type, v)
    [] comparand = "list" -> \A i \in DOMAIN Listed(v) : Fits(f.type, Listed(v)[i])
    [] comparand \in {"filter", "filters"} ->
         /\ deep \/ comparand = "filters"
         /\ comparand = "filters" \/ v.t # "list"
         /\ \A i \in DOMAIN Listed(v) :
              IsObject(Listed(v)[i]) /\ ValidWhere(IF comparand = "filter" THEN f.to ELSE m, Listed(v)[i].o, deep)
    [] comparand = "nothing" -> FALSE

ValidWhere(m, entries, deep) ==
  \A i \in DOMAIN entries :
    LET name == entries[i].name
        f == FieldOf(m, name)
        comparand == CASE name \in Combinators -> "filters"
                       [] name \notin Combinators /\ ~\E g \in ToSet(model_of(Dm, m).fields) : ~g.hidden /\ Begins(name, g) -> "nothing"
                       [] OTHER -> Comparand(f, OperationOf(m, name))
    IN  /\ comparand # "nothing"
        /\ comparand = "filter" => deep
        /\ entries[i].value.t = "null" \/ ValidFilter(m, f, comparand, entries[i].value, deep)

ValidUnique(m, v) ==
  IsObject(v) /\ \A i \in DOMAIN v.o :
    /\ \E f \in ToSet(scalar_fields(Dm, m)) : f.name = v.o[i].name /\ (f.id \/ (f.unique /\ ~f.hidden))
    /\ v.o[i].value.t = "null" \/ Fits(FieldNamed(m, v.o[i].name).type, v.o[i].value)

ValidManyArgument(m, name, w) ==
  LET fits == CASE name = <<"where">> -> IsObject(w) /\ ValidWhere(m, w.o, TRUE)
                [] name = <<"orderBy">> ->
                     w.t = "enum" /\ \E f \in ToSet(scalar_fields(Dm, m)), way \in {"_ASC", "_DESC"} :
                                       ~f.list /\ w.e = f.name \o <<way>>
                [] name \in {<<"skip">>, <<"first">>, <<"last">>} -> Fits("Int", w)
                [] name \in {<<"after">>, <<"before">>} -> Fits(id_field(Dm, m).type, w)
  IN  /\ name \in {<<"where">>, <<"orderBy">>, <<"skip">>, <<"first">>, <<"last">>, <<"after">>, <<"before">>}
      /\ w.t = "null" \/ fits

ValidManyArguments(m, args) == \A i \in DOMAIN args : ValidManyArgument(m, args[i].name, args[i].value)

RECURSIVE ValidSelections(_, _)
ValidSelections(m, selections) ==
  /\ selections # <<>>
  /\ \A i \in DOMAIN selections :
       /\ IsField(m, selections[i].name)
       /\ LET f == FieldNamed(m, selections[i].name)
          IN  /\ IF ~f.scalar /\ f.list
                 THEN ValidManyArguments(f.to, selections[i].args)
                 ELSE selections[i].args = <<>>
              /\ ~f.scalar => ValidSelections(f.to, selections[i].nested)

(* A record is found by one field that is given.                           *)
ValidFinder(m, args) ==
  /\ Names(args) = {<<"where">>}
  /\ ValidUnique(m, Entry(args, <<"where">>))
  /\ Len(Entry(args, <<"where">>).o) = 1
  /\ Entry(args, <<"where">>).o[1].value.t # "null"

OnlyCount(selections) ==
  selections # <<>> /\ \A i \in DOMAIN selections : selections[i].name = <<"count">> /\ selections[i].args = <<>>

ValidRead(operation, m, s) ==
  IF operation = "aggregate" THEN s.args = <<>> /\ OnlyCount(s.nested)
  ELSE /\ IF operation = "findOne" THEN ValidFinder(m, s.args) ELSE ValidManyArguments(m, s.args)
       /\ ValidSelections(m, s.nested)

-----------------------------------------------------------------------------
(* Valid writes.  Data is nested under the relation field it is reached    *)
(* through, whose opposite is not part of it.                              *)

Shown(m, parent) ==
  {f \in ToSet(model_of(Dm, m).fields) : ~f.hidden /\ (parent = <<>> \/ parent[1].opp # f.name)}

ValidList(f, v) ==
  IsObject(v) /\ \A i \in DOMAIN v.o :
    /\ v.o[i].name = <<"set">>
    /\ v.o[i].value.t = "null" \/ \A j \in DOMAIN Listed(v.o[i].value) : Fits(f.type, Listed(v.o[i].value)[j])

(* A create input that would have no field at all is not offered.          *)
Creatable(m, parent) == \E f \in Shown(m, parent) : f.scalar /\ f.id => f.type # "Int"

(* The operations nested under a relation field, and what each takes: an   *)
(* operand, or an object of operands.                                      *)
Operations(rf, how) ==
  (<<"create">> :> (<<>> :> "create")) @@ (<<"connect">> :> (<<>> :> "unique"))
  @@ (IF how = "create" THEN <<>>
      ELSE (<<"update">> :> IF rf.list THEN (<<"where">> :> "unique") @@ (<<"data">> :> "update") ELSE <<>> :> "update")
           @@ (IF ~Creatable(rf.to, <<rf>>) THEN <<>>
               ELSE <<"upsert">> :> ((<<"update">> :> "update") @@ (<<"create">> :> "create")
                                     @@ (IF rf.list THEN <<"where">> :> "unique" ELSE <<>>)))
           @@ (IF rf.list
               THEN [n \in {<<"set">>, <<"disconnect">>, <<"delete">>} |-> <<>> :> "unique"]
                    @@ (<<"updateMany">> :> ((<<"where">> :> "filter") @@ (<<"data">> :> "scalars")))
                    @@ (<<"deleteMany">> :> (<<>> :> "filter"))
               ELSE IF rf.required THEN <<>>
               ELSE [n \in {<<"disconnect">>, <<"delete">>} |-> <<>> :> "flag"]))

RECURSIVE ValidData(_, _, _, _)

ValidOperand(m, parent, kind, y) ==
  CASE kind \in {"create", "update", "scalars"} -> ValidData(m, parent, kind, y)
    [] kind = "unique" -> ValidUnique(m, y)
    [] kind \in {"filter", "records"} ->
         (IsObject(y) /\ ValidWhere(m, y.o, kind = "records")) \/ (kind = "records" /\ y.t = "null")
    [] kind = "flag" -> y.t = "bool"

(* Of a list any number may be given, otherwise one.                       *)
ValidOperation(rf, operands, x) ==
  x.t = "null" \/
    /\ x.t = "list" => rf.list
    /\ \A i \in DOMAIN Listed(x) :
         LET y == Listed(x)[i]
         IN  /\ DOMAIN operands = {<<>>} \/ (IsObject(y) /\ Names(y.o) = DOMAIN operands)
             /\ \A k \in DOMAIN operands : ValidOperand(rf.to, <<rf>>, operands[k], IF k = <<>> THEN y ELSE Entry(y.o, k))

(* The data of a record that is created or updated, or whose scalars only  *)
(* are.                                                                    *)
ValidData(m, parent, how, v) ==
  LET may == IF how = "create" THEN {f \in Shown(m, parent) : f.scalar /\ f.id => f.type # "Int"}
             ELSE ToSet(scalar_fields(Dm, m)) \cup IF how = "update" THEN Shown(m, parent) ELSE {}
      must == {f \in may : how = "create" /\ f.required /\ ~f.default /\ ~f.auto /\ ~(f.scalar /\ f.list)}
      Valid(f, w) == CASE f.scalar /\ ~f.list -> Fits(f.type, w)
                       [] f.scalar /\ f.list -> ValidList(f, w)
                       [] ~f.scalar -> IsObject(w) /\ \A i \in DOMAIN w.o :
                            /\ w.o[i].name \in DOMAIN Operations(f, how)
                            /\ ValidOperation(f, Operations(f, how)[w.o[i].name], w.o[i].value)
  IN  /\ IsObject(v)
      /\ {f.name : f \in must} \subseteq Names(v.o)
      /\ Names(v.o) \subseteq {f.name : f \in may}
      /\ \A i \in DOMAIN v.o : IF v.o[i].value.t = "null" THEN FieldNamed(m, v.o[i].name) \notin must
                               ELSE Valid(FieldNamed(m, v.o[i].name), v.o[i].value)

(* The arguments of a mutation; only the filter of many records may be     *)
(* left out.                                                               *)
Arguments(operation, m) ==
  CASE operation = "createOne" -> IF Creatable(m, <<>>) THEN <<"data">> :> "create" ELSE <<>>
    [] operation = "deleteOne" -> <<"where">> :> "unique"
    [] operation = "updateOne" -> (<<"where">> :> "unique") @@ (<<"data">> :> "update")
    [] operation = "upsertOne" -> (<<"where">> :> "unique") @@ (<<"create">> :> "create") @@ (<<"update">> :> "update")
    [] operation = "updateMany" -> (<<"where">> :> "records") @@ (<<"data">> :> "scalars")
    [] operation = "deleteMany" -> <<"where">> :> "records"

ValidWrite(operation, m, s) ==
  LET wanted == Arguments(operation, m)
  IN  /\ operation = "upsertOne" => Creatable(m, <<>>)
      /\ {k \in DOMAIN wanted : wanted[k] # "records"} \subseteq Names(s.args)
      /\ Names(s.args) \subseteq DOMAIN wanted
      /\ \A i \in DOMAIN s.args : ValidOperand(m, <<>>, wanted[s.args[i].name], s.args[i].value)
      /\ IF operation \in {"updateMany", "deleteMany"} THEN OnlyCount(s.nested) ELSE ValidSelections(m, s.nested)

-----------------------------------------------------------------------------
(* The shapes of documents and databases the engine is known not to serve  *)
(* as they read.                                                           *)

RECURSIVE Below(_, _)
Below(m, selections) ==
  UNION {LET s == selections[i]
         IN  {[model |-> m, sel |-> s]}
             \cup IF find_from_all(Dm, m, s.name) = <<>> \/ FieldNamed(m, s.name).scalar THEN {}
                  ELSE Below(FieldNamed(m, s.name).to, s.nested) : i \in DOMAIN selections}

Selections == Below(request.sel.name[2], request.sel.nested)

(* Answers are entered by field name and taken out by alias.               *)
Aliased == \E b \in Selections : b.sel.alias # <<>>

RECURSIVE Repeats(_)
Repeats(selections) ==
  \/ \E i, j \in DOMAIN selections : i # j /\ selections[i].name = selections[j].name
  \/ \E i \in DOMAIN selections : Repeats(selections[i].nested)

Repeated == Repeats(request.sel.nested)

(* Every selection of many records: the model and the arguments.           *)
Many ==
  (IF request.sel.name[1] = "findMany" THEN {[model |-> request.sel.name[2], args |-> request.sel.args]} ELSE {})
  \cup {[model |-> FieldNamed(b.model, b.sel.name).to, args |-> b.sel.args] :
          b \in {c \in Selections : c.sel.args # <<>>}}

(* The parts of a filter: how many relation filters deep they are, and     *)
(* whether they are all there is in the filter of the relation above.      *)
RECURSIVE Parts(_, _, _, _)
Parts(m, entries, depth, direct) ==
  UNION {LET e == entries[i]
             f == FieldOf(m, e.name)
         IN  {[model |-> m, name |-> e.name, value |-> e.value, depth |-> depth,
               alone |-> direct /\ Len(entries) = 1]}
             \cup CASE e.name \in Combinators ->
                         UNION {Parts(m, Listed(e.value)[j].o, depth, FALSE) : j \in DOMAIN Listed(e.value)}
                    [] e.name \notin Combinators /\ f.scalar -> {}
                    [] e.name \notin Combinators /\ ~f.scalar -> Parts(f.to, e.value.o, depth + 1, TRUE)
         : i \in DOMAIN entries}

Filters == UNION {IF Given(q.args, <<"where">>) THEN Parts(q.model, Entry(q.args, <<"where">>).o, 1, FALSE) ELSE {} :
                    q \in Many}

OnRelation(p) == p.name \notin Combinators /\ ~FieldOf(p.model, p.name).scalar

NullFilter ==
  \E p \in Filters : /\ p.value.t = "null"
                     /\ OnRelation(p) => FieldOf(p.model, p.name).list
                     /\ OnRelation(p) \/ p.name \in Combinators

(* NOT IN a sub-select that returns a null is never true.                  *)
NullInNotIn(filters, d) ==
  /\ \E p \in filters : p.name = <<"NOT">> \/ (OnRelation(p) /\ OperationOf(p.model, p.name) \in {<<"_none">>, <<"_every">>})
  /\ \E p \in filters : /\ OnRelation(p)
                        /\ FieldOf(p.model, p.name).at = "there"
                        /\ \E r \in relation_rows(d, FieldOf(p.model, p.name)) : r[1] = Null

(* The third relation filter is tied to the wrong alias unless it is alone.*)
TooDeep(filters) == \E p \in filters : OnRelation(p) /\ p.depth >= 3 /\ ~p.alone

FirstAndLast == \E q \in Many : Given(q.args, <<"first">>) /\ Given(q.args, <<"last">>)

CursorAmongNulls(d) ==
  \E q \in Many :
    /\ Given(q.args, <<"after">>) \/ Given(q.args, <<"before">>)
    /\ Given(q.args, <<"orderBy">>)
    /\ \E id \in Ids(d, q.model) :
         column(d, q.model, id, FieldNamed(q.model, Front(Entry(q.args, <<"orderBy">>).e))) = Null

(* A cursor that has the form of a UUID cannot be made an id, although the *)
(* schema offers it, and although every id may have that form.             *)
UuidCursor ==
  \E q \in Many : \E name \in {<<"after">>, <<"before">>} :
    Given(q.args, name) /\ Entry(q.args, name).t = "string" /\ Entry(q.args, name).e = <<"UUID">>

(* The union of selects reads a parent's records again when the parent     *)
(* comes back after another.                                               *)
ParentComesBack ==
  /\ scenario.connector = "mysql"
  /\ \E s \in DOMAIN results : s.path # <<>> /\ s.list = <<>> /\ ~IsInjective(collect_ids(results[s]))

(* A field whose name ends like a filter operation.                        *)
NamedLikeAnOperation ==
  \E i \in DOMAIN Dm : \E f \in ToSet(Dm[i].fields) : find_op(f.name).suffix # <<>>

(* Two relation fields of one name to one model share the input type of    *)
(* their nested creates, which has the fields of the first.                *)
SharedCreateInput ==
  /\ request.sel.name[1] \in {"createOne", "upsertOne"}
  /\ \E i, j \in DOMAIN Dm : \E f \in ToSet(Dm[i].fields), g \in ToSet(Dm[j].fields) :
       /\ ~f.scalar /\ ~g.scalar /\ ~f.hidden /\ ~g.hidden
       /\ f # g /\ f.name = g.name /\ f.to = g.to

RequiredRelation == \E b \in Selections : LET f == FieldNamed(b.model, b.sel.name)
                                          IN  ~f.scalar /\ ~f.list /\ f.required

-----------------------------------------------------------------------------
(* Properties.                                                             *)

Whole(s) ==
  LET Known(type) == type.kind = "object" => type.of \in DOMAIN s.inputs /\ s.inputs[type.of].set
  IN  /\ ~s.panic
      /\ \A n \in DOMAIN s.inputs : \A i \in DOMAIN s.inputs[n].fields : Known(s.inputs[n].fields[i].type)
      /\ \A f \in ToSet(s.query \o s.mutation) : \A i \in DOMAIN f.args : Known(f.args[i].type)

(* The query schema is whole: no builder panics, and every input type that *)
(* some field or argument refers to has been filled, although the types    *)
(* refer to each other and are entered in the cache before they are filled *)
(* (schema_builder/cache.rs, input_builder_extensions.rs).                 *)
SchemaIsWhole == Whole(Schemas[request.dm])

(* A request is refused exactly when the data model does not give it a     *)
(* meaning, or a read pages from a UUID: the schema that is built and the  *)
(* parser offer every operation on every field, ask for what a record      *)
(* needs, and nothing else, and no builder refuses what they let through   *)
(* but such a cursor (schema_builder, query_document/parser.rs,            *)
(* transformers.rs).                                                       *)
RefusedIffInvalid ==
  LET operation == request.sel.name[1]
      m == request.sel.name[2]
  IN  phase = "answered" /\ pages = <<>> /\ ~SharedCreateInput =>
        (reply.r # "refused" <=> IF request.op = "mutation" THEN ValidWrite(operation, m, request.sel)
                                 ELSE ValidRead(operation, m, request.sel) /\ ~UuidCursor)

(* The answer says what the document means, every record as the statement  *)
(* that read it saw it: the records the filters select, in order, the page *)
(* that is asked for, under the right parents.  Exempt are the shapes      *)
(* above, and the pages of a walk, which are judged together below         *)
(* (filter_conversion.rs, cursor_condition.rs, response_ir).               *)
AnswerIsTheMeaning ==
  /\ phase = "answered" /\ reply.r = "ok" /\ scenario.pages = ""
  /\ ~Aliased /\ ~TooDeep(Filters) /\ ~FirstAndLast /\ ~ParentComesBack /\ ~NamedLikeAnOperation
  /\ \A s \in DOMAIN seen : ~NullInNotIn(Filters, seen[s]) /\ ~CursorAmongNulls(seen[s])
  => reply.item = MeaningOf(seen[Records(<<>>)], request.sel.name[2], request.sel)

(* A request that is accepted is answered.  The unwraps that query         *)
(* validation is said to make safe fail only for the documents named here, *)
(* or when a record on the way to a required relation is deleted between   *)
(* two statements of one read (response_ir/internal.rs, utils/filters.rs). *)
OnlyKnownFailures ==
  phase = "answered" =>
    /\ reply.r = "panic" => \/ Aliased \/ Repeated \/ NullFilter \/ NamedLikeAnOperation
                            \/ (touched # {} /\ RequiredRelation)
    /\ reply.r = "error" => TooDeep(Filters) \/ NamedLikeAnOperation

(* A client that pages through a model sees every record that others leave *)
(* alone exactly once, whatever they do to the rest, as long as the record *)
(* it continues from is left alone too; and in order, when nothing is      *)
(* written.  Ids of the form of a UUID cannot be paged through             *)
(* (UuidCursor; cursor_condition.rs, ordering.rs, query_arguments.rs).     *)
PagesAreComplete ==
  LET m == request.sel.name[2]
      args == scenario.request.sel.args
      forward == scenario.pages = "after"
      visited == FlattenSeq(IF forward THEN pages ELSE Reverse(pages))
      cursors == {IF forward THEN Last(pages[i]) ELSE pages[i][1] : i \in DOMAIN pages}
      left == {id \in Matches(db, m, args) : <<m, id>> \notin touched}
  IN  /\ phase = "answered" /\ reply.r = "ok" /\ pages # <<>> /\ reply.item.l = <<>>
      /\ ~CursorAmongNulls(db) /\ ~CursorAmongNulls(scenario.db)
      /\ ~\E c \in cursors : <<m, c>> \in touched
      => /\ \A id \in left : Len(SelectSeq(visited, LAMBDA v : v = id)) = 1
         /\ touched = {} => visited = SelectSeq(InOrder(db, m, args), LAMBDA id : id \in left)
=============================================================================
