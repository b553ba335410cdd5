------------------------------ MODULE SqlReads ------------------------------
(***************************************************************************)
(* The SQL of a read and what the database answers to it                   *)
(* (connectors/sql-query-connector).                                       *)
(*                                                                         *)
(* A database is [rows, lists, links]:                                     *)
(*   rows[m][id][f]      the column f of a record of model m;              *)
(*   lists[<<m, f>>][id] the values of a scalar list, in their own table;  *)
(*   links[<<m, f>>]     the pairs of ids in the table of the relation     *)
(*                       whose first side is the field f of m.             *)
(* A condition is true, false or unknown ("T", "F", "U"), as a comparison  *)
(* with a null is; a WHERE keeps the rows for which it is true.            *)
(***************************************************************************)
EXTENDS ReadQueries, FiniteSets

-----------------------------------------------------------------------------
(* The database's logic: a library as far as the code is concerned.        *)

Truth(b) == IF b THEN "T" ELSE "F"

Not3(a) == CASE a = "T" -> "F" [] a = "F" -> "T" [] a = "U" -> "U"

And3(S) == IF "F" \in S THEN "F" ELSE IF "U" \in S THEN "U" ELSE "T"

Or3(S) == IF "T" \in S THEN "T" ELSE IF "U" \in S THEN "U" ELSE "F"

InvertIf(b, a) == IF b THEN Not3(a) ELSE a

Compare(a, op, b) ==
  IF a = Null \/ b = Null THEN "U"
  ELSE Truth(CASE op = "=" -> a = b [] op = "<" -> a < b [] op = ">" -> a > b
               [] op = "<=" -> a <= b [] op = ">=" -> a >= b)

(* v IN (S): unknown when v is not found and either is null.               *)
In3(v, S) == Or3({Compare(v, "=", s) : s \in S})

-----------------------------------------------------------------------------
(* Tables.                                                                 *)

Ids(db, m) == DOMAIN db.rows[m]

column(db, m, id, f) == IF f.id THEN id ELSE db.rows[m][id][f.name]

(* The rows of a relation's table as pairs of the relation column and the  *)
(* opposite column of rf.  Of a relation that is inlined, the table is the *)
(* one of the model that holds the foreign key, which may be null.         *)
relation_rows(db, rf) ==
  CASE rf.at = "here" -> {<<i, db.rows[rf.model][i][rf.name]>> : i \in Ids(db, rf.model)}
    [] rf.at = "there" -> {<<db.rows[rf.to][j][rf.opp], j>> : j \in Ids(db, rf.to)}
    [] rf.at = "table" -> IF <<rf.model, rf.name>> \in DOMAIN db.links
                          THEN db.links[<<rf.model, rf.name>>]
                          ELSE {<<p[2], p[1]>> : p \in db.links[<<rf.to, rf.opp>>]}

-----------------------------------------------------------------------------
(* Filters.  Alias -1 stands for no alias, n for the n-th nested select;   *)
(* env gives the row each alias is at.                                     *)

dec(n) == IF n = 0 THEN 0 ELSE n - 1

(* The id a relation filter at alias n compares: of the alias below.       *)
id_alias(n) == IF n = Null THEN Null ELSE dec(n)

(* A filter with one conjunct or disjunct is that one.                     *)
compacted(f) == IF f.k \in {"and", "or"} /\ Len(f.sub) = 1 THEN f.sub[1] ELSE f

negates(op) == op \in {"Every", "None"}

invert_of_subselect(op) == op = "Every"

scalar_cond(v, op, vs) ==
  CASE op \in {"Field", "In"} /\ vs = <<Null>> -> Truth(v = Null)
    [] op \in {"Not", "NotIn"} /\ vs = <<Null>> -> Truth(v # Null)
    [] op = "Field" /\ vs # <<Null>> -> Compare(v, "=", vs[1])
    [] op = "Not" /\ vs # <<Null>> -> Not3(Compare(v, "=", vs[1]))
    [] op = "In" /\ vs # <<Null>> -> In3(v, ToSet(vs))
    [] op = "NotIn" /\ vs # <<Null>> -> Not3(In3(v, ToSet(vs)))
    [] op = "Lt" -> Compare(v, "<", vs[1])
    [] op = "Lte" -> Compare(v, "<=", vs[1])
    [] op = "Gt" -> Compare(v, ">", vs[1])
    [] op = "Gte" -> Compare(v, ">=", vs[1])

one_relation_is_null(db, rf, id) ==
  IF rf.at = "here" THEN Truth(db.rows[rf.model][id][rf.name] = Null)
  ELSE Not3(In3(id, {r[1] : r \in {x \in relation_rows(db, rf) : x[1] # Null}}))

RECURSIVE aliased_cond(_, _, _, _)
RECURSIVE aliased_sel(_, _, _, _)

aliased_cond(db, f, n, env) ==
  LET sub == {aliased_cond(db, f.sub[i], n, env) : i \in DOMAIN f.sub}
  IN  CASE f.k = "and" -> And3(sub)
        [] f.k = "or" -> Or3(sub)
        [] f.k = "not" -> And3({Not3(a) : a \in sub})
        [] f.k = "scalar" -> scalar_cond(column(db, env[n].model, env[n].id, f.f), f.op, f.v)
        [] f.k = "isnull" -> one_relation_is_null(db, f.f, env[n].id)
        [] f.k = "relation" ->
             InvertIf(negates(f.op), In3(env[id_alias(n)].id, aliased_sel(db, f, n + 1, env)))

(* The relation columns the sub-select of a relation filter returns.  When *)
(* the nested filter is itself a relation filter the related record is not *)
(* joined: the opposite column is compared with the inner sub-select.      *)
aliased_sel(db, f, n, env) ==
  LET nested == compacted(f.sub[1])
      inner == aliased_sel(db, nested, n + 1, env)
      joined == {r \in relation_rows(db, f.f) : r[2] \in Ids(db, f.f.to)}
      Kept(a) == InvertIf(invert_of_subselect(f.op), a) = "T"
  IN  IF nested.k = "relation"
      THEN {r[1] : r \in {x \in relation_rows(db, f.f) :
                             Kept(InvertIf(negates(nested.op), In3(x[2], inner)))}}
      ELSE {r[1] : r \in {x \in joined :
                             Kept(aliased_cond(db, nested, n,
                                               (n :> [model |-> f.f.to, id |-> x[2]]) @@ env))}}

(* Whether the database knows every alias a filter's columns are taken     *)
(* from; joins are the nested selects that join the related record.        *)
RECURSIVE resolves(_, _, _)
resolves(f, n, joins) ==
  LET nested == compacted(f.sub[1])
  IN  CASE f.k \in {"and", "or", "not"} -> \A i \in DOMAIN f.sub : resolves(f.sub[i], n, joins)
        [] f.k \in {"scalar", "isnull"} -> TRUE
        [] f.k = "relation" ->
             /\ id_alias(n) \in joins \cup {Null}
             /\ resolves([f EXCEPT !.k = "subselect"], n + 1, joins)
        [] f.k = "subselect" ->
             IF nested.k = "relation"
             THEN resolves([nested EXCEPT !.k = "subselect"], n + 1, joins)
             ELSE resolves(nested, n, joins \cup {n})

-----------------------------------------------------------------------------
(* Cursors and order.                                                      *)

order_field(dm, m, order) ==
  IF order = <<>> THEN id_field(dm, m) ELSE find_from_all(dm, m, order[1])[1]

ascending(order) == order = <<>> \/ order[2] = "_ASC"

(* Beyond the record c: further along the order, or level with it and      *)
(* further along the ids.  The position of c is read by a sub-select.      *)
cursor_for(db, m, f, id, c, further, next) ==
  LET at == IF c \in Ids(db, m) THEN column(db, m, c, f) ELSE Null
      v == column(db, m, id, f)
  IN  Or3({And3({Compare(v, "=", at), Compare(id, next, c)}), Compare(v, further, at)})

cursor_condition(dm, db, m, args, id) ==
  LET f == order_field(dm, m, args.order)
      up == ascending(args.order)
  IN  And3({IF args.after = Null THEN "T"
            ELSE cursor_for(db, m, f, id, args.after, IF up THEN ">" ELSE "<", ">"),
            IF args.before = Null THEN "T"
            ELSE cursor_for(db, m, f, id, args.before, IF up THEN "<" ELSE ">", "<")})

(* Where a null sorts is the database's choice.                            *)
sort_key(v, nulls_first) == IF v # Null THEN v ELSE IF nulls_first THEN Null ELSE 1000

(* ORDER BY the order's field and then the id; both turn round when the    *)
(* last records are asked for.                                             *)
ordered_before(dm, db, m, args, nulls_first, a, b) ==
  LET f == order_field(dm, m, args.order)
      reverse == args.last # Null
      ka == sort_key(column(db, m, a, f), nulls_first)
      kb == sort_key(column(db, m, b, f), nulls_first)
  IN  \/ IF ascending(args.order) # reverse THEN ka < kb ELSE ka > kb
      \/ (ka = kb /\ IF reverse THEN a > b ELSE a < b)

(* A set in the order of a strict total order on it.                       *)
Sorted(S, before(_, _)) ==
  [i \in 1..Cardinality(S) |-> CHOOSE x \in S : Cardinality({y \in S : before(y, x)}) = i - 1]

(* The mutant of selected_ids: a cursor takes the place of the filter.     *)
CursorOrFilter(dm, db, m, args) ==
  {id \in Ids(db, m) :
     "T" = IF args.after # Null \/ args.before # Null THEN cursor_condition(dm, db, m, args, id)
           ELSE aliased_cond(db, args.filter, Null, Null :> [model |-> m, id |-> id])}

(* The records that pass the filter and the cursors.                       *)
selected_ids(dm, db, m, args) ==
  {id \in Ids(db, m) :
     And3({aliased_cond(db, args.filter, Null, Null :> [model |-> m, id |-> id]),
           cursor_condition(dm, db, m, args, id)}) = "T"}

-----------------------------------------------------------------------------
(* Selects.                                                                *)

limited_count(args) == IF args.last # Null THEN args.last ELSE args.first

or_zero(n) == IF n = Null THEN 0 ELSE n

(* OFFSET skip LIMIT count + 1: one more, to see whether there is more.    *)
window(s, args) ==
  LET from == or_zero(args.skip) + 1
      to == IF limited_count(args) = Null THEN Len(s) ELSE or_zero(args.skip) + limited_count(args) + 1
  IN  SubSeq(s, from, IF to < Len(s) THEN to ELSE Len(s))

in_order(dm, db, m, args, nulls_first, S) ==
  Sorted(S, LAMBDA a, b : ordered_before(dm, db, m, args, nulls_first, a, b))

get_many_records(dm, db, m, args, nulls_first) ==
  window(in_order(dm, db, m, args, nulls_first, selected_ids(dm, db, m, args)), args)

get_single_record(dm, db, m, finder) ==
  Sorted({id \in Ids(db, m) : column(db, m, id, find_from_all(dm, m, finder[1])[1]) = finder[2]},
         LAMBDA a, b : a < b)

is_with_pagination(args) == args.last # Null \/ args.first # Null \/ args.skip # Null

(* The records related to one parent, in order.                            *)
related_to(dm, db, rf, parent, args, nulls_first) ==
  in_order(dm, db, rf.to, args, nulls_first,
           {r[2] : r \in {x \in relation_rows(db, rf) : x[1] = parent}}
           \cap selected_ids(dm, db, rf.to, args))

WithParent(ids, parent) == [i \in DOMAIN ids |-> [id |-> ids[i], parent |-> parent]]

without_pagination(dm, db, rf, parents, args, nulls_first) ==
  LET rows == UNION {ToSet(WithParent(related_to(dm, db, rf, p, args, nulls_first), p)) : p \in ToSet(parents)}
  IN  Sorted(rows, LAMBDA a, b :
        \/ ordered_before(dm, db, rf.to, args, nulls_first, a.id, b.id)
        \/ a.id = b.id /\ a.parent < b.parent)

(* ROW_NUMBER() OVER (PARTITION BY parent ORDER BY ...).                   *)
with_row_number(dm, db, rf, parents, args, nulls_first) ==
  LET distinct == Sorted(ToSet(parents), LAMBDA a, b : a < b)
  IN  FlattenSeq([i \in DOMAIN distinct |->
        WithParent(window(related_to(dm, db, rf, distinct[i], args, nulls_first), args), distinct[i])])

(* Consecutive repetitions only are removed.                               *)
dedup(s) == LET keep == SelectSeq([i \in DOMAIN s |-> i], LAMBDA i : i = 1 \/ s[i - 1] # s[i])
            IN  [i \in DOMAIN keep |-> s[keep[i]]]

(* One select per parent, joined by UNION ALL.                             *)
with_union_all(dm, db, rf, parents, args, nulls_first) ==
  LET distinct_ids == dedup(parents)
  IN  FlattenSeq([i \in DOMAIN distinct_ids |->
        WithParent(window(related_to(dm, db, rf, distinct_ids[i], args, nulls_first), args), distinct_ids[i])])

(* SQLite and PostgreSQL number the rows, MySQL takes the union; nulls     *)
(* come last in PostgreSQL.                                                *)
get_related_records(dm, db, connector, rf, parents, args) ==
  LET nulls_first == connector # "postgres"
  IN  CASE ~is_with_pagination(args) -> without_pagination(dm, db, rf, parents, args, nulls_first)
        [] is_with_pagination(args) /\ connector = "mysql" ->
             with_union_all(dm, db, rf, parents, args, nulls_first)
        [] is_with_pagination(args) /\ connector # "mysql" ->
             with_row_number(dm, db, rf, parents, args, nulls_first)

(* The values of a list field, by record; a record without values has no   *)
(* row.                                                                    *)
get_scalar_list_values(db, m, name, ids) ==
  LET table == db.lists[<<m, name>>]
  IN  [id \in {i \in ToSet(ids) : i \in DOMAIN table /\ table[i] # <<>>} |-> table[id]]

count_by_model(db, m) == Cardinality(Ids(db, m))
=============================================================================
