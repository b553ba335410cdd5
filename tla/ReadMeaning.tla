----------------------------- MODULE ReadMeaning -----------------------------
(***************************************************************************)
(* What a request means, read off the document and the data model alone:   *)
(* which documents are valid, which records a filter selects, which page   *)
(* of them is wanted, and what the answer says.  The properties compare    *)
(* this with what the engine does.                                         *)
(***************************************************************************)
EXTENDS ReadExecutor

Dm == Datamodels[request.dm]
Entry(entries, name) == entries[CHOOSE i \in DOMAIN entries : entries[i].name = name].value
Given(entries, name) == \E i \in DOMAIN entries : entries[i].name = name /\ entries[i].value.t # "null"

-----------------------------------------------------------------------------
(* Filters.                                                                *)

(* A filter's name is the name of a field followed by an operation.        *)
FieldOf(m, name) ==
  LET fits(f) == Len(f.name) <= Len(name) /\ SubSeq(name, 1, Len(f.name)) = f.name
      all == {f \in ToSet(model_of(Dm, m).fields) : fits(f)}
  IN  CHOOSE f \in all : \A g \in all : Len(g.name) <= Len(f.name)

OperationOf(m, name) == SubSeq(name, Len(FieldOf(m, name).name) + 1, Len(name))

Combinators == {<<"AND">>, <<"OR">>, <<"NOT">>}

Listed(v) == IF v.t = "list" THEN v.l ELSE <<v>>

Number(v) == IF v.t = "null" THEN Null ELSE v.n

(* Comparing with a null asks whether there is a value.                    *)
ScalarHolds(v, operation, given) ==
  LET Equal(w) == IF w = Null THEN Truth(v = Null) ELSE Compare(v, "=", w)
      among == IF given.t = "null" THEN Equal(Null)
               ELSE Or3({Equal(Number(w)) : w \in ToSet(Listed(given))})
  IN  CASE operation = <<>> -> Equal(Number(given))
        [] operation = <<"_not">> -> Not3(Equal(Number(given)))
        [] operation = <<"_in">> -> among
        [] operation = <<"_not", "_in">> -> Not3(among)
        [] operation = <<"_lt">> -> Compare(v, "<", Number(given))
        [] operation = <<"_lte">> -> Compare(v, "<=", Number(given))
        [] operation = <<"_gt">> -> Compare(v, ">", Number(given))
        [] operation = <<"_gte">> -> Compare(v, ">=", Number(given))

RelatedTo(d, rf, id) == {p[2] : p \in {r \in relation_rows(d, rf) : r[1] = id}} \cap Ids(d, rf.to)

RECURSIVE Holds(_, _, _, _)

Combined(name, parts) ==
  CASE name = <<"AND">> -> And3(parts)
    [] name = <<"OR">> -> Or3(parts)
    [] name = <<"NOT">> -> And3({Not3(a) : a \in parts})

Quantified(operation, parts) ==
  CASE operation \in {<<>>, <<"_some">>} -> Truth("T" \in parts)
    [] operation = <<"_none">> -> Truth("T" \notin parts)
    [] operation = <<"_every">> -> Truth("F" \notin parts)

EntryHolds(d, m, id, name, v) ==
  LET f == FieldOf(m, name)
  IN  CASE name \in Combinators -> Combined(name, {Holds(d, m, id, w.o) : w \in ToSet(Listed(v))})
        [] name \notin Combinators /\ f.scalar -> ScalarHolds(column(d, m, id, f), OperationOf(m, name), v)
        [] name \notin Combinators /\ ~f.scalar ->
             IF v.t = "null" THEN Truth(RelatedTo(d, f, id) = {})
             ELSE Quantified(OperationOf(m, name), {Holds(d, f.to, r, v.o) : r \in RelatedTo(d, f, id)})

Holds(d, m, id, entries) == And3({EntryHolds(d, m, id, e.name, e.value) : e \in ToSet(entries)})

-----------------------------------------------------------------------------
(* Pages.                                                                  *)

ArgumentNumber(args, name) == IF Given(args, <<name>>) THEN Entry(args, <<name>>).n ELSE Null

(* The records of a model in the order asked for; level records are in the *)
(* order of their ids.                                                     *)
InOrder(d, m, args) ==
  LET by == IF Given(args, <<"orderBy">>) THEN Entry(args, <<"orderBy">>).e ELSE id_field(Dm, m).name \o <<"_ASC">>
      f == find_from_all(Dm, m, Front(by))[1]
      key(id) == LET v == column(d, m, id, f)
                 IN  IF v = Null /\ scenario.connector = "postgres" THEN 1000 ELSE v
      Less(a, b) == IF Last(by) = "_ASC" THEN key(a) < key(b) ELSE key(a) > key(b)
  IN  Sorted(Ids(d, m), LAMBDA a, b : Less(a, b) \/ (key(a) = key(b) /\ a < b))

(* A page of the records S: those between the cursors, counted from the    *)
(* front, or from the back when the last records are wanted.               *)
Between(all, S, after, before) ==
  LET at(id) == CHOOSE i \in DOMAIN all : all[i] = id
  IN  SelectSeq(all, LAMBDA id : /\ id \in S
                                 /\ {after, before} \subseteq ToSet(all) \cup {Null}
                                 /\ after = Null \/ at(id) > at(after)
                                 /\ before = Null \/ at(id) < at(before))

Counted(s, skip, first, last) ==
  SelectSeq([i \in DOMAIN s |-> i],
            LAMBDA i : LET from == IF last # Null THEN Len(s) + 1 - i ELSE i
                       IN  /\ skip # Null => from > skip
                           /\ last # Null => from <= last + (IF skip = Null THEN 0 ELSE skip)
                           /\ first # Null => from <= first + (IF skip = Null THEN 0 ELSE skip))

PageOf(between, args) ==
  LET at == Counted(between, ArgumentNumber(args, "skip"), ArgumentNumber(args, "first"), ArgumentNumber(args, "last"))
  IN  [i \in DOMAIN at |-> between[at[i]]]

Page(d, m, args, S) ==
  PageOf(Between(InOrder(d, m, args), S, ArgumentNumber(args, "after"), ArgumentNumber(args, "before")), args)

-----------------------------------------------------------------------------
(* The answer: every record as the statement that read it saw it.          *)

Key(selection) == IF selection.alias = <<>> THEN selection.name ELSE selection.alias

RECURSIVE ObjectOf(_, _, _, _)

Matches(d, m, args) ==
  {id \in Ids(d, m) : Given(args, <<"where">>) => Holds(d, m, id, Entry(args, <<"where">>).o) = "T"}

Shaped(list, objects) ==
  IF list THEN ListItem(objects) ELSE IF objects = <<>> THEN ValueItem(Null) ELSE objects[1]

ItemOf(m, list, ids, selections, path) ==
  Shaped(list, [i \in DOMAIN ids |-> ObjectOf(m, ids[i], selections, path)])

RelatedItem(d, parent, rf, selection, path) ==
  ItemOf(rf.to, rf.list,
         Page(d, rf.to, selection.args, RelatedTo(d, rf, parent) \cap Matches(d, rf.to, selection.args)),
         selection.nested, path)

ObjectOf(m, id, selections, path) ==
  LET f(i) == find_from_all(Dm, m, selections[i].name)[1]
      d == seen[Records(path)]
      list(i) == [path |-> path, list |-> selections[i].name]
      values(i) == LET t == seen[list(i)].lists[<<m, selections[i].name>>]
                   IN  IF id \in DOMAIN t THEN t[id] ELSE <<>>
      nth(i) == Cardinality({j \in 1..i : ~f(j).scalar})
      item(i) == CASE f(i).scalar /\ ~f(i).list -> ValueItem(column(d, m, id, f(i)))
                   [] f(i).scalar /\ f(i).list ->
                        ListItem([j \in DOMAIN values(i) |-> ValueItem(values(i)[j])])
                   [] ~f(i).scalar -> RelatedItem(seen[Records(Append(path, nth(i)))], id, f(i), selections[i],
                                                  Append(path, nth(i)))
  IN  MapItem([i \in DOMAIN selections |-> <<Key(selections[i]), item(i)>>])

FoundBy(d, m, finder) ==
  SelectSeq(Sorted(Ids(d, m), LAMBDA a, b : a < b),
            LAMBDA id : column(d, m, id, find_from_all(Dm, m, finder.name)[1]) = finder.value.n)

MeaningOf(d, m, selection) ==
  IF selection.name[1] = "aggregate" THEN MapItem(<< <<<<"count">>, ValueItem(Cardinality(Ids(d, m)))>> >>)
  ELSE ItemOf(m, selection.name[1] = "findMany",
              IF selection.name[1] = "findOne" THEN FoundBy(d, m, Entry(selection.args, <<"where">>).o[1])
              ELSE Page(d, m, selection.args, Matches(d, m, selection.args)),
              selection.nested, <<>>)
=============================================================================
