------------------------------ MODULE SqlSteps ------------------------------
(***************************************************************************)
(* What the proofs about SQL migrations speak of: schemas and the steps of *)
(* a migration as sets, the statements that SQLite gets for a step, and    *)
(* what a statement makes of a table.                                      *)
(***************************************************************************)
EXTENDS SqlMigration

-----------------------------------------------------------------------------
(* Sequences that list a set: every element of it, once.                   *)

Lists(s, S) == s \in Seq(S) /\ Range(s) = S /\ IsInjective(s)

\* What a set that is finite can be listed as, and how many elements it has.
\* SqlTheorems proves it; the lemmas that need no more of SetToSeq and
\* Cardinality assume it.
Enumerated ==
    \A S : IsFiniteSet(S) =>
        /\ Lists(SetToSeq(S), S)
        /\ Cardinality(S) \in Nat /\ (Cardinality(S) = 0 => S = {})

\* Induction over a set of numbers.  SqlTheorems proves it, too.
Inductive ==
    \A T : 0 \in T /\ (\A n \in Nat : n \in T => n + 1 \in T) => \A n \in Nat : n \in T

-----------------------------------------------------------------------------
(* Walking through a flattened sequence, one element after the other.      *)

\* The place of every element of a flattened sequence: the k-th part starts
\* after off[k] elements.
Places(ss, off) ==
    /\ off \in [1 .. Len(ss) + 1 -> Nat]
    /\ off[1] = 0
    /\ \A k \in 1 .. Len(ss) : off[k + 1] = off[k] + Len(ss[k])
    /\ \A k, l \in 1 .. Len(ss) + 1 : k <= l => off[k] <= off[l]
    /\ Len(FlattenSeq(ss)) = off[Len(ss) + 1]
    /\ \A k \in 1 .. Len(ss) : \A j \in 1 .. Len(ss[k]) :
          FlattenSeq(ss)[off[k] + j] = ss[k][j]
    /\ \A p \in 1 .. Len(FlattenSeq(ss)) :
          \E k \in 1 .. Len(ss) : \E j \in 1 .. Len(ss[k]) : p = off[k] + j

Offsets(ss) == CHOOSE off : Places(ss, off)

\* The n-th element is the j-th one of the k-th part.
At(ss, n, k, j) == k \in DOMAIN ss /\ j \in 1 .. Len(ss[k]) /\ n = Offsets(ss)[k] + j

\* The parts that lie before the n-th element.
Walked(ss, n) == {k \in DOMAIN ss : ss[k] # <<>> /\ Offsets(ss)[k + 1] < n}

\* The n-th element is the first one of its part, or there is none.
Between(ss, n) == n = Len(FlattenSeq(ss)) + 1 \/ \E k \in DOMAIN ss : At(ss, n, k, 1)

-----------------------------------------------------------------------------
(* A plan O whose k-th item is carried out by the statements ss[k], one    *)
(* after the other: what is pending before the n-th statement, and which   *)
(* statement of which item that is.                                        *)

Pending(O, ss, n) == {O[k] : k \in {l \in DOMAIN ss : ss[l] # <<>> /\ l \notin Walked(ss, n)}}

Doing(O, ss, n, s, j) == \E k \in DOMAIN ss : At(ss, n, k, j) /\ s = O[k]

-----------------------------------------------------------------------------
(* Facts about sequences: the place of every element of FlattenSeq(ss), and what*)
(* a filter keeps.  Induction is over sets of numbers.                     *)

\* The parts that a filter makes of s: an element of s that lies in K, or none.
Parts(s, K) == [i \in DOMAIN s |-> IF s[i] \in K THEN <<s[i]>> ELSE <<>>]

-----------------------------------------------------------------------------
(* Schemas.                                                                *)

AllTables == FinalTables \cup Temporaries

Column == [family: Types, arity: Arities, references: Models \cup {None}]

\* The table whose rewrite t is, or t.
Base(t) == IF t \in FinalTables THEN t ELSE CHOOSE x \in FinalTables : Temporary(x) = t

\* The primary key, the index names and the index definition of a final table.
KeyOf(t) ==
    IF t \in Models THEN {"id"}
    ELSE IF t = RelationTable THEN {} ELSE {"nodeId", "position"}

NamesOf(t) ==
    IF t \in Models THEN OwnIndexes(t)
    ELSE IF t = RelationTable THEN {"AB_unique"} ELSE {}

IndexOf(t) ==
    [columns |-> IF t = RelationTable THEN ModelOrder ELSE <<"field">>, unique |-> TRUE]

TableOK(t, d) ==
    /\ d = [columns |-> d.columns, pk |-> d.pk, indices |-> d.indices]
    /\ d.columns \in [DOMAIN d.columns -> Column]
    /\ IsFiniteSet(DOMAIN d.columns)
    /\ d.pk = KeyOf(Base(t))
    /\ d.indices \in [DOMAIN d.indices -> {IndexOf(Base(t))}]
    /\ IsFiniteSet(DOMAIN d.indices)
    /\ DOMAIN d.indices \subseteq NamesOf(Base(t))

DefOK(def) ==
    /\ DOMAIN def \subseteq AllTables
    /\ \A t \in DOMAIN def : TableOK(t, def[t])

SchemaOK(schema) ==
    /\ DefOK(schema.def)
    /\ Lists(schema.order, DOMAIN schema.def)

\* A schema that SqlSchemaCalculator made: no temporary table, every key and
\* every index over columns of its table.
Calculated(schema) ==
    /\ SchemaOK(schema)
    /\ DOMAIN schema.def \subseteq FinalTables
    /\ \A t \in DOMAIN schema.def :
          LET d == schema.def[t]
          IN  /\ d.pk \subseteq DOMAIN d.columns
              /\ \A i \in DOMAIN d.indices : Range(d.indices[i].columns) \subseteq DOMAIN d.columns

\* One of the two schemas of a migration is calculated.
Paired(from, to) ==
    /\ SchemaOK(from) /\ SchemaOK(to)
    /\ DOMAIN from.def \subseteq FinalTables \/ DOMAIN to.def \subseteq FinalTables

GoalOK(g) ==
    /\ g = [before |-> g.before, after |-> g.after, clean |-> g.clean, enforced |-> g.enforced]
    /\ g.clean \in BOOLEAN /\ g.enforced \in BOOLEAN
    /\ Paired(g.before, g.after)

-----------------------------------------------------------------------------
(* SqlSchemaDiffer: the steps as sets.                                     *)

Both(from, to) == DOMAIN from.def \cap DOMAIN to.def

ChangeOf(from, to, t) ==
    LET p == from.def[t].columns
        n == to.def[t].columns
    IN  AlterTable(t, to.def[t], DOMAIN p \ DOMAIN n, DOMAIN n \ DOMAIN p,
                   {c \in DOMAIN p \cap DOMAIN n : ColumnDiffers(p[c], n[c])})

IsChange(s) == s.drop \cup s.add \cup s.alter # {}

DropSteps(from, to) == {DropTables({t}) : t \in DOMAIN from.def \ DOMAIN to.def}

CreateSteps(from, to) == {CreateTable(t, to.def[t]) : t \in DOMAIN to.def \ DOMAIN from.def}

AlterSteps(from, to) == {s \in {ChangeOf(from, to, t) : t \in Both(from, to)} : IsChange(s)}

RenameStepsOf(from, to, t) == {AlterIndex(t, r[1], r[2]) : r \in Renamed(from, to, t)}

RenameSteps(from, to) == UNION {RenameStepsOf(from, to, t) : t \in Both(from, to)}

NewIndexes(from, to, t) ==
    {i \in IndexNames(to, t) \ IndexNames(from, t) : \A s \in RenameSteps(from, to) : s.new # i}

OldIndexes(from, to, t) ==
    {i \in IndexNames(from, t) \ IndexNames(to, t) :
        /\ \A s \in RenameSteps(from, to) : s.index # i
        /\ Range(from.def[t].indices[i].columns) # from.def[t].pk}

CreateIndexStepsOf(from, to, t) ==
    {CreateIndex(t, i, to.def[t].indices[i]) : i \in NewIndexes(from, to, t)}

DropIndexStepsOf(from, to, t) == {DropIndex(t, i) : i \in OldIndexes(from, to, t)}

CreateIndexSteps(from, to) == UNION {CreateIndexStepsOf(from, to, t) : t \in DOMAIN to.def}

DropIndexSteps(from, to) == UNION {DropIndexStepsOf(from, to, t) : t \in DOMAIN from.def}

Rank(s) ==
    IF s.step = "DropIndex" THEN 0
    ELSE IF s.step = "DropTables" THEN 1
    ELSE IF s.step = "CreateTable" THEN 2
    ELSE IF s.step = "AlterTable" THEN 3
    ELSE IF s.step = "CreateIndex" THEN 4
    ELSE 5

DiffSteps(from, to) ==
    DropIndexSteps(from, to) \cup DropSteps(from, to) \cup CreateSteps(from, to)
        \cup AlterSteps(from, to) \cup CreateIndexSteps(from, to) \cup RenameSteps(from, to)

-----------------------------------------------------------------------------
(* delay_foreign_key_creation.                                             *)

NewTables(from, to) == DOMAIN to.def \ DOMAIN from.def

\* The columns of a new table that are added later.
DelayedOf(from, to, t) ==
    {c \in DOMAIN to.def[t].columns :
        /\ to.def[t].columns[c].references \in NewTables(from, to)
        /\ c \notin to.def[t].pk
        /\ t # RelationTable}

TrimmedDef(from, to, t) ==
    [to.def[t] EXCEPT !.columns =
        [c \in DOMAIN to.def[t].columns \ DelayedOf(from, to, t) |-> to.def[t].columns[c]]]

TrimmedSteps(from, to) == {CreateTable(t, TrimmedDef(from, to, t)) : t \in NewTables(from, to)}

LaterSteps(from, to) ==
    {AlterTable(t, to.def[t], {}, DelayedOf(from, to, t), {}) :
        t \in {x \in NewTables(from, to) : DelayedOf(from, to, x) # {}}}

DelayedSteps(from, to) ==
    DropIndexSteps(from, to) \cup DropSteps(from, to) \cup TrimmedSteps(from, to)
        \cup (AlterSteps(from, to) \cup LaterSteps(from, to))
        \cup CreateIndexSteps(from, to) \cup RenameSteps(from, to)

-----------------------------------------------------------------------------
(* fix_stupid_sqlite: the statements of every step.                        *)

FixedTables(from, to) == {s.table : s \in {x \in AlterSteps(from, to) : NeedsFix(x)}}

Rewrites(s) == (s.step = "AlterTable" /\ NeedsFix(s)) \/ s.step = "AlterIndex"

Block(from, to, s) ==
    IF Rewrites(s) THEN Fix(from.def[s.table], to.def[s.table], s.table)
    ELSE IF s.step = "CreateIndex" /\ s.table \in FixedTables(from, to) THEN <<>>
    ELSE <<s>>

\* The indexes of a rewritten table, in the order in which they are created.
IndexList(d) == SetToSeq(DOMAIN d.indices)

SwitchOff == ForeignKeys(FALSE)

SwitchOn == ForeignKeys(TRUE)

\* The statements F of the rewrite of table t.
FixForm(F, current, next, t) ==
    LET q == IndexList(next)
    IN  /\ Len(F) = Len(q) + 6
        /\ F[1] = SwitchOff
        /\ F[2] = CreateTable(Temporary(t), [next EXCEPT !.indices = NoIndices])
        /\ F[3] = CopyRows(t, Temporary(t), DOMAIN current.columns \cap DOMAIN next.columns)
        /\ F[4] = DropTables({t})
        /\ F[5] = RenameTable(Temporary(t), t)
        /\ \A i \in 1 .. Len(q) : F[i + 5] = CreateIndex(t, q[i], next.indices[q[i]])
        /\ F[Len(q) + 6] = SwitchOn

Effective(from, to) == {s \in DiffSteps(from, to) : Block(from, to, s) # <<>>}

\* The j-th statement h of the rewrite of t.
Rewriting(from, to, t, j, h) ==
    LET next == to.def[t]
        q == IndexList(next)
    IN  \/ j = 1 /\ h = SwitchOff
        \/ j = 2 /\ h = CreateTable(Temporary(t), [next EXCEPT !.indices = NoIndices])
        \/ j = 3 /\ h = CopyRows(t, Temporary(t), DOMAIN from.def[t].columns \cap DOMAIN next.columns)
        \/ j = 4 /\ h = DropTables({t})
        \/ j = 5 /\ h = RenameTable(Temporary(t), t)
        \/ /\ j \in 6 .. Len(q) + 5
           /\ h = CreateIndex(t, q[j - 5], next.indices[q[j - 5]])
        \/ j = Len(q) + 6 /\ h = SwitchOn

-----------------------------------------------------------------------------
(* apply_next_step: what a statement makes of the tables.                  *)

StepOK(s) ==
    \/ /\ s.step = "CreateTable"
       /\ s.table \in AllTables /\ TableOK(s.table, s.def)
    \/ s.step = "DropTables"
    \/ /\ s.step = "AlterTable"
       /\ s.table \in AllTables /\ TableOK(s.table, s.def)
       /\ s.add \cup s.alter \subseteq DOMAIN s.def.columns
       /\ s.drop \cap s.alter = {}
    \/ /\ s.step = "RenameTable"
       /\ s.new \in AllTables /\ Base(s.new) = Base(s.table)
    \/ /\ s.step = "CreateIndex"
       /\ s.def = IndexOf(Base(s.table)) /\ s.index \in NamesOf(Base(s.table))
    \/ s.step = "DropIndex"
    \/ s.step = "AlterIndex" /\ s.new \in NamesOf(Base(s.table))
    \/ s.step = "CopyRows"
    \/ s.step = "ForeignKeys" /\ s.on \in BOOLEAN

AlteredColumns(old, s) ==
    [c \in (DOMAIN old.columns \ s.drop) \cup s.add |->
        IF c \in s.add \cup s.alter THEN RenderColumn(s.def.columns[c]) ELSE old.columns[c]]

AlteredIndices(old, s) ==
    Without(old.indices, {i \in DOMAIN old.indices :
        Range(old.indices[i].columns) \cap (s.drop \cup s.alter) # {}})

Altered(old, s) == [columns |-> AlteredColumns(old, s), pk |-> old.pk, indices |-> AlteredIndices(old, s)]

-----------------------------------------------------------------------------
(* apply_next_step: the tables and the rows stay well-formed.              *)

RowsOK == /\ DOMAIN rows = DOMAIN tables
          /\ \A t \in DOMAIN rows : rows[t].values \subseteq DOMAIN tables[t].columns

=============================================================================
