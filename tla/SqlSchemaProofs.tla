--------------------------- MODULE SqlSchemaProofs --------------------------
(***************************************************************************)
(* The schema on its way from one to the next on SQLite: which tables,     *)
(* columns and indexes it has while some steps of the migration are still  *)
(* pending, and that the database accepts the next statement.              *)
(***************************************************************************)
EXTENDS SqlSchemas, TLAPS

\* Time for the provers.
USE SMTT(60)

-----------------------------------------------------------------------------
(* The schema on its way from one schema to another, on SQLite.            *)

\* What changes of the pending work when a step is done.
LEMMA StepDone ==
    ASSUME StepFacts, NEW from, NEW to, NEW P, P \subseteq DiffSteps(from, to), NEW s \in P
    PROVE  Relieved(from, to, P, P \ {s}, s)
<1> DEFINE Q == P \ {s}
<1>0. /\ s \in DropIndexSteps(from, to) \/ s \in DropSteps(from, to) \/ s \in CreateSteps(from, to)
         \/ s \in AlterSteps(from, to) \/ s \in CreateIndexSteps(from, to) \/ s \in RenameSteps(from, to)
  BY Zenon DEF DiffSteps
<1>1. Gone(from, Q) = IF s.step = "DropTables" THEN Gone(from, P) \ s.names ELSE Gone(from, P)
  <2>1. CASE s.step = "DropTables"
    <3>0. s \in DropSteps(from, to)
      BY <1>0, <2>1, Zenon DEF StepFacts, StepFieldsFact, DropIndexFieldsFact, DropFieldsFact, CreateFieldsFact, AlterFieldsFact, CreateIndexFieldsFact, RenameFieldsFact
    <3>1. PICK u : s = DropTables({u})
      BY <3>0, Zenon DEF DropSteps
    <3>2. \A t : DropTables({t}) = s <=> t = u
      <4>1. \A t : DropTables({t}).names = {t}
        BY Zenon DEF StepFacts, StepShapesFact, DropTablesShapeFact
      <4> QED BY <3>1, <4>1, Zenon
    <3>3. s.names = {u}
      BY <3>1, Zenon DEF StepFacts, StepShapesFact, DropTablesShapeFact
    <3> QED BY <2>1, <3>2, <3>3, Zenon DEF Gone
  <2>2. CASE s.step # "DropTables"
    <3>1. \A t : DropTables({t}) # s
      BY <2>2, Zenon DEF StepFacts, StepShapesFact, DropTablesShapeFact
    <3> QED BY <2>2, <3>1, Zenon DEF Gone
  <2> QED BY <2>1, <2>2, Zenon
<1>2. Awaited(to, Q) = IF s.step = "CreateTable" THEN Awaited(to, P) \ {s.table} ELSE Awaited(to, P)
  <2>1. CASE s.step = "CreateTable"
    <3>1. PICK u : s = CreateTable(u, to.def[u])
      BY <1>0, <2>1 DEF StepFacts, StepFieldsFact, DropIndexFieldsFact, DropFieldsFact, CreateFieldsFact, AlterFieldsFact, CreateIndexFieldsFact, RenameFieldsFact
    <3>2. s.table = u
      BY <3>1, Zenon DEF StepFacts, StepShapesFact, CreateTableShapeFact
    <3>3. \A t : CreateTable(t, to.def[t]) = s <=> t = u
      <4>1. \A t : CreateTable(t, to.def[t]).table = t
        BY Zenon DEF StepFacts, StepShapesFact, CreateTableShapeFact
      <4> QED BY <3>1, <4>1
    <3> QED BY <2>1, <3>2, <3>3, Zenon DEF Awaited
  <2>2. CASE s.step # "CreateTable"
    <3>1. \A t : CreateTable(t, to.def[t]) # s
      BY <2>2 DEF StepFacts, StepShapesFact, CreateTableShapeFact
    <3> QED BY <2>2, <3>1, Zenon DEF Awaited
  <2> QED BY <2>1, <2>2, Zenon
<1>3. Outdated(from, to, Q) = IF s.step = "AlterTable" THEN Outdated(from, to, P) \ {s.table}
                              ELSE Outdated(from, to, P)
  <2>0. \A t : ChangeOf(from, to, t).step = "AlterTable" /\ ChangeOf(from, to, t).table = t
    BY DEF StepFacts, ChangeFieldsFact
  <2>1. CASE s.step = "AlterTable"
    <3>1. PICK u : s = ChangeOf(from, to, u)
      BY <1>0, <2>1 DEF StepFacts, StepFieldsFact, DropIndexFieldsFact, DropFieldsFact, CreateFieldsFact, AlterFieldsFact, CreateIndexFieldsFact, RenameFieldsFact
    <3>2. s.table = u /\ \A t : ChangeOf(from, to, t) = s <=> t = u
      BY <2>0, <3>1
    <3> QED BY <2>1, <3>2, Zenon DEF Outdated
  <2>2. CASE s.step # "AlterTable"
    <3>1. \A t : ChangeOf(from, to, t) # s
      BY <2>0, <2>2, Zenon
    <3> QED BY <2>2, <3>1, Zenon DEF Outdated
  <2> QED BY <2>1, <2>2, Zenon
<1>4. \A t : DropsOf(from, t, Q) = IF s.step = "DropIndex" /\ t = s.table THEN DropsOf(from, t, P) \ {s.index}
                                   ELSE DropsOf(from, t, P)
  <2> SUFFICES ASSUME NEW t
               PROVE  DropsOf(from, t, Q) = IF s.step = "DropIndex" /\ t = s.table
                                              THEN DropsOf(from, t, P) \ {s.index} ELSE DropsOf(from, t, P)
    BY Zenon
  <2>0. \A i : DropIndex(t, i).step = "DropIndex" /\ DropIndex(t, i).table = t /\ DropIndex(t, i).index = i
    BY Zenon DEF StepFacts, StepShapesFact, DropIndexShapeFact
  <2>1. CASE s.step = "DropIndex" /\ t = s.table
    <3>1. PICK u, k : s = DropIndex(u, k)
      BY <1>0, <2>1 DEF StepFacts, StepFieldsFact, DropIndexFieldsFact, DropFieldsFact, CreateFieldsFact, AlterFieldsFact, CreateIndexFieldsFact, RenameFieldsFact
    <3>2. s = DropIndex(t, k) /\ s.index = k
      <4>1. s.table = u /\ s.index = k
        BY <3>1, Zenon DEF StepFacts, StepShapesFact, DropIndexShapeFact
      <4> QED BY <2>1, <3>1, <4>1, Zenon
    <3>3. \A i : DropIndex(t, i) = s <=> i = k
      BY <2>0, <3>2, Zenon
    <3> QED BY <2>1, <3>2, <3>3, Zenon DEF DropsOf
  <2>2. CASE ~(s.step = "DropIndex" /\ t = s.table)
    <3>1. \A i : DropIndex(t, i) # s
      BY <2>0, <2>2, Zenon
    <3> QED BY <2>2, <3>1, Zenon DEF DropsOf
  <2> QED BY <2>1, <2>2, Zenon
<1>5. \A t : CreatesOf(to, t, Q) = IF s.step = "CreateIndex" /\ t = s.table THEN CreatesOf(to, t, P) \ {s.index}
                                   ELSE CreatesOf(to, t, P)
  <2> SUFFICES ASSUME NEW t
               PROVE  CreatesOf(to, t, Q) = IF s.step = "CreateIndex" /\ t = s.table
                                              THEN CreatesOf(to, t, P) \ {s.index} ELSE CreatesOf(to, t, P)
    BY Zenon
  <2> DEFINE d(i) == to.def[t].indices[i]
  <2>0. \A i : /\ CreateIndex(t, i, d(i)).step = "CreateIndex" /\ CreateIndex(t, i, d(i)).table = t
               /\ CreateIndex(t, i, d(i)).index = i
    BY DEF StepFacts, StepShapesFact, CreateIndexShapeFact
  <2>1. CASE s.step = "CreateIndex" /\ t = s.table
    <3>1. PICK u, k : s = CreateIndex(u, k, to.def[u].indices[k])
      BY <1>0, <2>1 DEF StepFacts, StepFieldsFact, DropIndexFieldsFact, DropFieldsFact, CreateFieldsFact, AlterFieldsFact, CreateIndexFieldsFact, RenameFieldsFact
    <3>2. s = CreateIndex(t, k, d(k)) /\ s.index = k
      <4>1. s.table = u /\ s.index = k
        BY <3>1 DEF StepFacts, StepShapesFact, CreateIndexShapeFact
      <4> QED BY <2>1, <3>1, <4>1, Zenon
    <3> HIDE DEF d
    <3>3. \A i : CreateIndex(t, i, d(i)) = s <=> i = k
      BY <2>0, <3>2, Zenon
    <3> QED BY <2>1, <3>2, <3>3, Zenon DEF CreatesOf, d
  <2>2. CASE ~(s.step = "CreateIndex" /\ t = s.table)
    <3>1. \A i : CreateIndex(t, i, d(i)) # s
      BY <2>0, <2>2, Zenon
    <3> QED BY <2>2, <3>1, Zenon DEF CreatesOf
  <2> QED BY <2>1, <2>2, Zenon
<1>6. ~Rewrites(s) => Unwritten(Q) = Unwritten(P)
  BY Zenon DEF Unwritten
<1>7. \A t : t # s.table => (t \in Unwritten(Q) <=> t \in Unwritten(P))
  BY Zenon DEF Unwritten
<1> QED BY <1>1, <1>2, <1>3, <1>4, <1>5, <1>6, <1>7, Zenon DEF Relieved

\* The pending steps stay the last ones when their first one is done.
LEMMA OrderedWithout ==
    ASSUME NEW from, NEW to, NEW P, Ordered(from, to, P), NEW s, First(P, s)
    PROVE  Ordered(from, to, P \ {s})
<1>1. \A x : Rank(x) \in Nat
  BY Zenon DEF Rank
<1>2. ASSUME NEW a \in P \ {s}, NEW b \in Effective(from, to), Rank(a) < Rank(b)
      PROVE  b \in P \ {s}
  <2>1. b \in P
    BY <1>2, Zenon DEF Ordered
  <2>2. b # s
    BY <1>1, <1>2, Zenon DEF First
  <2> QED BY <2>1, <2>2, Zenon
<1> QED BY <1>2, Zenon DEF Ordered

\* When a step is the first pending one, all kinds before it are done.
LEMMA FirstClears ==
    ASSUME StepFacts, NEW from, NEW to, NEW P, NEW s, First(P, s), s \in DiffSteps(from, to)
    PROVE  Cleared(from, to, P, s)
<1>0. /\ s.step \in {"DropIndex", "DropTables", "CreateTable", "AlterTable", "CreateIndex", "AlterIndex"}
      /\ \A x \in P : ~(Rank(x) < Rank(s))
  BY Zenon DEF First, StepFacts, DiffKindsFact
<1>1. ASSUME s.step \notin {"DropIndex", "DropTables"}
      PROVE  Gone(from, P) = {}
  <2>1. \A t : Rank(DropTables({t})) = 1
    BY Zenon DEF Rank, StepFacts, StepShapesFact, DropTablesShapeFact
  <2>2. Rank(s) \in 2 .. 5
    BY <1>0, <1>1 DEF Rank
  <2>3. \A t : DropTables({t}) \notin P
    BY <1>0, <2>1, <2>2
  <2> QED BY <2>3, Zenon DEF Gone
<1>2. ASSUME s.step # "DropIndex", NEW t
      PROVE  DropsOf(from, t, P) = {}
  <2>1. \A i : Rank(DropIndex(t, i)) = 0
    BY Zenon DEF Rank, StepFacts, StepShapesFact, DropIndexShapeFact
  <2>2. Rank(s) \in 1 .. 5
    BY <1>0, <1>2 DEF Rank
  <2> QED BY <1>0, <2>1, <2>2 DEF DropsOf
<1>3. ASSUME s.step \in {"AlterTable", "CreateIndex", "AlterIndex"}
      PROVE  Awaited(to, P) = {}
  <2>1. \A t, d : Rank(CreateTable(t, d)) = 2
    BY Zenon DEF Rank, StepFacts, StepShapesFact, CreateTableShapeFact
  <2>2. Rank(s) \in 3 .. 5
    BY <1>3 DEF Rank
  <2> QED BY <1>0, <2>1, <2>2 DEF Awaited
<1>4. ASSUME s.step \in {"CreateIndex", "AlterIndex"}
      PROVE  Outdated(from, to, P) = {}
  <2>1. \A t : Rank(ChangeOf(from, to, t)) = 3
    BY DEF Rank, StepFacts, ChangeFieldsFact
  <2>2. Rank(s) \in 4 .. 5
    BY <1>4 DEF Rank
  <2> QED BY <1>0, <2>1, <2>2 DEF Outdated
<1>5. ASSUME s.step = "AlterIndex", NEW t
      PROVE  CreatesOf(to, t, P) = {}
  <2>1. \A i, d : Rank(CreateIndex(t, i, d)) = 4
    BY DEF Rank, StepFacts, StepShapesFact, CreateIndexShapeFact
  <2>2. Rank(s) = 5
    BY <1>5, Zenon DEF Rank
  <2> QED BY <1>0, <2>1, <2>2 DEF CreatesOf
<1> QED BY <1>1, <1>2, <1>3, <1>4, <1>5, Zenon DEF Cleared

\* Columns that the differ takes for the same are rendered the same way.
LEMMA RenderSame ==
    ASSUME NEW p \in Column, NEW n \in Column, ~ColumnDiffers(p, n)
    PROVE  RenderColumn(p) = RenderColumn(n)
<1>1. /\ p = [family |-> p.family, arity |-> p.arity, references |-> p.references]
      /\ n = [family |-> n.family, arity |-> n.arity, references |-> n.references]
  BY Zenon DEF Column
<1>2. p.family = n.family /\ p.references = n.references /\ (p.references = None => p.arity = n.arity)
  BY Zenon DEF ColumnDiffers
<1>3. \A c : c = [family |-> c.family, arity |-> c.arity, references |-> c.references] =>
          RenderColumn(c) = [family |-> c.family, references |-> c.references,
                             arity |-> IF c.references # None THEN "Nullable" ELSE c.arity]
  BY DEF RenderColumn
<1> QED BY <1>1, <1>2, <1>3, Zenon

\* Rendering a column again changes nothing.
LEMMA RenderTwice ==
    ASSUME NEW c \in Column
    PROVE  RenderColumn(RenderColumn(c)) = RenderColumn(c)
<1>1. c = [family |-> c.family, arity |-> c.arity, references |-> c.references]
  BY Zenon DEF Column
<1>2. \A d : d = [family |-> d.family, arity |-> d.arity, references |-> d.references] =>
          RenderColumn(d) = [family |-> d.family, references |-> d.references,
                             arity |-> IF d.references # None THEN "Nullable" ELSE d.arity]
  BY DEF RenderColumn
<1> DEFINE r == RenderColumn(c)
<1>3. r = [family |-> c.family, references |-> c.references,
           arity |-> IF c.references # None THEN "Nullable" ELSE c.arity]
  BY <1>1, <1>2, Zenon
<1> HIDE DEF r
<1>4. r = [family |-> r.family, arity |-> r.arity, references |-> r.references]
      /\ r.family = c.family /\ r.references = c.references
      /\ r.arity = IF c.references # None THEN "Nullable" ELSE c.arity
  BY <1>3, Zenon
<1>5. RenderColumn(r) = r
  BY <1>2, <1>4, Zenon
<1> QED BY <1>5, Zenon DEF r

\* The tables that s does not touch.
LEMMA TableStays ==
    ASSUME NEW from, NEW to, NEW P, NEW Q, NEW s, Relieved(from, to, P, Q, s), NEW d, NEW t,
           TableOn(d, from, to, P, t), s.step = "DropTables" \/ t # s.table
    PROVE  TableOn(d, from, to, Q, t)
<1>1. /\ DropsOf(from, t, Q) = DropsOf(from, t, P)
      /\ CreatesOf(to, t, Q) = CreatesOf(to, t, P)
  BY Zenon DEF Relieved
<1>2. t \in Outdated(from, to, Q) <=> t \in Outdated(from, to, P)
  BY Zenon DEF Relieved
<1>3. t \in Unwritten(Q) <=> t \in Unwritten(P)
  BY Zenon DEF Relieved, Rewrites
<1> QED BY <1>1, <1>2, <1>3, Zenon DEF TableOn

\* Every step has statements, but for an index of a table that is rewritten.
LEMMA EffectiveSteps ==
    ASSUME StepFacts, Enumerated, NEW from, NEW to, Paired(from, to), NEW s \in DiffSteps(from, to)
    PROVE  s \in Effective(from, to) <=> ~(s.step = "CreateIndex" /\ s.table \in FixedTables(from, to))
<1>0. SchemaOK(from) /\ SchemaOK(to)
  BY Zenon DEF Paired
<1>1. CASE Rewrites(s)
  <2>1. s.step # "CreateIndex"
    BY <1>1, Zenon DEF Rewrites
  <2>2. s.table \in Both(from, to)
    BY <1>1, Zenon DEF StepFacts, RewrittenTableFact
  <2> DEFINE next == to.def[s.table]
             F == Fix(from.def[s.table], next, s.table)
  <2>3. IsFiniteSet(DOMAIN next.indices)
    BY <1>0, <2>2, Zenon DEF SchemaOK, DefOK, TableOK, Both
  <2>4. Len(F) = Len(IndexList(next)) + 6 /\ Len(IndexList(next)) \in Nat
    <3> HIDE DEF next
    <3>1. /\ Len(IndexList(next)) \in Nat
          /\ FixForm(F, from.def[s.table], next, s.table)
      BY <2>3, Zenon DEF StepFacts, FixShapeFact
    <3> QED BY <3>1, Zenon DEF FixForm
  <2>5. Block(from, to, s) = F
    BY <1>1, Zenon DEF Block
  <2> HIDE DEF F, next
  <2>6. F # <<>>
    BY <2>4
  <2> QED BY <2>1, <2>5, <2>6, Zenon DEF Effective
<1>2. CASE ~Rewrites(s)
  <2>1. <<s>> # <<>>
    BY Zenon
  <2> QED BY <1>2, <2>1, Zenon DEF Effective, Block
<1> QED BY <1>1, <1>2, Zenon

\* Index names tell the table, and no index covers just a primary key.
LEMMA IndexNaming ==
    /\ \A t, u \in FinalTables : t # u => NamesOf(t) \cap NamesOf(u) = {}
    /\ \A t \in FinalTables : NamesOf(t) # {} => Range(IndexOf(t).columns) # KeyOf(t)
<1>1. \A t, u \in FinalTables : t # u => NamesOf(t) \cap NamesOf(u) = {}
  <2> SUFFICES ASSUME NEW t \in FinalTables, NEW u \in FinalTables, t # u, NEW i,
                      i \in NamesOf(t), i \in NamesOf(u)
               PROVE  FALSE
    BY Zenon
  <2>1. CASE t \in Models /\ u \in Models
    BY <2>1, ProjectAssumption, Zenon DEF NamesOf
  <2>2. CASE t \in Models /\ u \notin Models
    <3>1. i = "AB_unique" /\ i \in OwnIndexes(t)
      BY <2>2, Zenon DEF NamesOf
    <3> QED BY <2>2, <3>1, ProjectAssumption, Zenon
  <2>3. CASE t \notin Models /\ u \in Models
    <3>1. i = "AB_unique" /\ i \in OwnIndexes(u)
      BY <2>3, Zenon DEF NamesOf
    <3> QED BY <2>3, <3>1, ProjectAssumption, Zenon
  <2>4. CASE t \notin Models /\ u \notin Models
    BY <2>4, Zenon DEF NamesOf
  <2> QED BY <2>1, <2>2, <2>3, <2>4, Zenon
<1>2. ASSUME NEW t \in FinalTables, NamesOf(t) # {}
      PROVE  Range(IndexOf(t).columns) # KeyOf(t)
  <2>1. CASE t = RelationTable
    <3>1. IndexOf(t).columns = ModelOrder
      BY <2>1, Zenon DEF IndexOf
    <3>2. t \notin Models
      BY <2>1, TableAssumption, Zenon
    <3>3. KeyOf(t) = {}
      BY <2>1, <3>2, Zenon DEF KeyOf
    <3> QED BY <3>1, <3>3, SqlAssumption, Zenon
  <2>2. CASE t # RelationTable
    <3>1. t \in Models
      BY <1>2, <2>2, Zenon DEF NamesOf
    <3>2. IndexOf(t).columns = <<"field">> /\ KeyOf(t) = {"id"}
      BY <2>2, <3>1, Zenon DEF IndexOf, KeyOf
    <3>3. <<"field">>[1] = "field" /\ 1 \in DOMAIN <<"field">>
      OBVIOUS
    <3>4. "field" \in Range(<<"field">>)
      BY <3>3, Zenon DEF Range
    <3> QED BY <3>2, <3>4
  <2> QED BY <2>1, <2>2, Zenon
<1> QED BY <1>1, <1>2, Zenon

\* The indexes of a table that both schemas have.
LEMMA SharedIndexes ==
    ASSUME StepFacts, NEW from, NEW to, Paired(from, to), NEW t \in FinalTables,
           \A s \in RenameSteps(from, to) : s.table # t
    PROVE  /\ NewIndexes(from, to, t) = IndexNames(to, t) \ IndexNames(from, t)
           /\ OldIndexes(from, to, t) = IndexNames(from, t) \ IndexNames(to, t)
<1>0. /\ \A u \in DOMAIN from.def : TableOK(u, from.def[u])
      /\ \A u \in DOMAIN to.def : TableOK(u, to.def[u])
  BY Zenon DEF Paired, SchemaOK, DefOK
<1>1. \A u \in FinalTables : Base(u) = u
  BY Zenon DEF StepFacts, FinalBaseFact
<1>2. /\ IndexNames(to, t) \subseteq NamesOf(t)
      /\ IndexNames(from, t) \subseteq NamesOf(t)
  BY <1>0, <1>1, Zenon DEF IndexNames, TableOK
<1>3. ASSUME NEW s \in RenameSteps(from, to)
      PROVE  s.new \notin NamesOf(t) /\ s.index \notin NamesOf(t)
  <2>0. PICK u \in Both(from, to) : \E r \in Renamed(from, to, u) : s = AlterIndex(u, r[1], r[2])
    BY DEF StepFacts, StepFieldsFact, RenameFieldsFact
  <2>1. PICK r \in Renamed(from, to, u) : s = AlterIndex(u, r[1], r[2])
    BY <2>0, Zenon
  <2>2. u \in FinalTables
    BY Zenon DEF StepFacts, BothFinalFact
  <2>3. s.table = u /\ s.index = r[1] /\ s.new = r[2]
    BY <2>1 DEF StepFacts, StepShapesFact, AlterIndexShapeFact
  <2>4. u # t
    BY <1>3, <2>3, Zenon
  <2>5. r[1] \in DOMAIN from.def[u].indices /\ r[2] \in DOMAIN to.def[u].indices
    <3>1. PICK i : /\ r = <<i, CHOOSE j \in Equivalents(from, to, u, i) : TRUE>>
                   /\ i \in DOMAIN from.def[u].indices /\ Equivalents(from, to, u, i) # {}
      BY Zenon DEF Renamed
    <3>2. (CHOOSE j \in Equivalents(from, to, u, i) : TRUE) \in Equivalents(from, to, u, i)
      BY <3>1, Zenon
    <3>3. Equivalents(from, to, u, i) \subseteq DOMAIN to.def[u].indices
      BY Zenon DEF Equivalents
    <3> QED BY <3>1, <3>2, <3>3, Zenon
  <2>6. r[1] \in NamesOf(u) /\ r[2] \in NamesOf(u)
    BY <1>0, <1>1, <2>2, <2>5, Zenon DEF Both, TableOK
  <2> QED BY <2>2, <2>3, <2>4, <2>6, IndexNaming, Zenon
<1>4. \A i \in IndexNames(from, t) : Range(from.def[t].indices[i].columns) # from.def[t].pk
  <2> SUFFICES ASSUME NEW i \in IndexNames(from, t)
               PROVE  Range(from.def[t].indices[i].columns) # from.def[t].pk
    BY Zenon
  <2>1. t \in DOMAIN from.def /\ i \in DOMAIN from.def[t].indices
    BY Zenon DEF IndexNames
  <2>2. from.def[t].indices[i] = IndexOf(t) /\ from.def[t].pk = KeyOf(t)
    <3> DEFINE d == from.def[t]
    <3>1. Base(t) = t /\ TableOK(t, d)
      BY <1>0, <1>1, <2>1, Zenon
    <3>2. i \in DOMAIN d.indices
      BY <2>1, Zenon DEF d
    <3> HIDE DEF d
    <3>3. d.pk = KeyOf(Base(t)) /\ d.indices[i] = IndexOf(Base(t))
      BY ONLY <3>1, <3>2, Zenon, StepFacts DEF StepFacts, TableNamedFact
    <3> QED BY <3>1, <3>3, Zenon DEF d
  <2>3. NamesOf(t) # {}
    BY <1>2, Zenon
  <2> QED BY <2>2, <2>3, IndexNaming, Zenon
<1> QED BY <1>2, <1>3, <1>4, Zenon DEF NewIndexes, OldIndexes

\* A table that the differ finds unchanged.
LEMMA UnchangedColumns ==
    ASSUME StepFacts, NEW from, NEW to, Paired(from, to), NEW t \in Both(from, to), ~IsChange(ChangeOf(from, to, t))
    PROVE  RenderColumns(from.def[t].columns) = RenderColumns(to.def[t].columns)
<1> DEFINE p == from.def[t].columns
           n == to.def[t].columns
<1>1. p \in [DOMAIN p -> Column] /\ n \in [DOMAIN n -> Column]
  BY Zenon DEF Paired, SchemaOK, DefOK, TableOK, Both
<1>2. /\ DOMAIN p \ DOMAIN n = {} /\ DOMAIN n \ DOMAIN p = {}
      /\ {c \in DOMAIN p \cap DOMAIN n : ColumnDiffers(p[c], n[c])} = {}
  <2> DEFINE s == ChangeOf(from, to, t)
  <2>1. /\ s.drop = DOMAIN p \ DOMAIN n /\ s.add = DOMAIN n \ DOMAIN p
        /\ s.alter = {c \in DOMAIN p \cap DOMAIN n : ColumnDiffers(p[c], n[c])}
    BY DEF StepFacts, ChangeFieldsFact
  <2>2. s.drop \cup s.add \cup s.alter = {}
    BY Zenon DEF IsChange
  <2> HIDE DEF s, p, n
  <2> QED BY <2>1, <2>2, Zenon
<1> HIDE DEF p, n
<1>3. DOMAIN p = DOMAIN n
  BY <1>2, Zenon
<1>4. \A c \in DOMAIN p : RenderColumn(p[c]) = RenderColumn(n[c])
  BY <1>1, <1>2, <1>3, RenderSame, Zenon
<1>5. RenderColumns(p) = RenderColumns(n)
  BY <1>3, <1>4, Zenon DEF RenderColumns
<1> QED BY <1>5, Zenon DEF p, n

\* Before the first step the schema is the one that was introspected.
LEMMA LiveStart ==
    ASSUME StepFacts, Enumerated, NEW from, NEW to, Paired(from, to), NEW T, Matches(T, from.def)
    PROVE  Live(T, from, to, Effective(from, to))
<1> DEFINE E == Effective(from, to)
<1>1. \A s \in DiffSteps(from, to) :
         s \in E <=> ~(s.step = "CreateIndex" /\ s.table \in FixedTables(from, to))
  BY EffectiveSteps, Zenon
<1>2. E \subseteq DiffSteps(from, to)
  BY Zenon DEF Effective
<1>3. Ordered(from, to, E)
  BY Zenon DEF Ordered
<1> HIDE DEF E
<1>4. Gone(from, E) = DOMAIN from.def \ DOMAIN to.def
  <2>1. \A t : DropTables({t}) \in E <=> DropTables({t}) \in DiffSteps(from, to)
    BY <1>1, <1>2, Zenon DEF StepFacts, StepShapesFact, DropTablesShapeFact
  <2>2. \A t : DropTables({t}) \in DiffSteps(from, to) => t \in DOMAIN from.def \ DOMAIN to.def
    <3> SUFFICES ASSUME NEW t, DropTables({t}) \in DiffSteps(from, to)
                 PROVE  t \in DOMAIN from.def \ DOMAIN to.def
      BY Zenon
    <3>1. DropTables({t}).step = "DropTables" /\ DropTables({t}).names = {t}
      BY Zenon DEF StepFacts, StepShapesFact, DropTablesShapeFact
    <3>2. DropTables({t}) \in DropSteps(from, to)
      BY <3>1, Zenon DEF DiffSteps, StepFacts, StepFieldsFact, DropIndexFieldsFact, DropFieldsFact, CreateFieldsFact, AlterFieldsFact, CreateIndexFieldsFact, RenameFieldsFact
    <3>3. PICK u \in DOMAIN from.def \ DOMAIN to.def : DropTables({t}) = DropTables({u})
      BY <3>2, Zenon DEF DropSteps
    <3>4. {t} = {u}
      BY <3>1, <3>3, Zenon DEF StepFacts, StepShapesFact, DropTablesShapeFact
    <3> QED BY <3>4, Zenon
  <2>3. \A t \in DOMAIN from.def \ DOMAIN to.def : DropTables({t}) \in DiffSteps(from, to)
    BY Zenon DEF DiffSteps, DropSteps
  <2> QED BY <2>1, <2>2, <2>3, Zenon DEF Gone
<1>5. Awaited(to, E) = DOMAIN to.def \ DOMAIN from.def
  <2> DEFINE S(t) == CreateTable(t, to.def[t])
  <2>0. \A t : S(t).step = "CreateTable" /\ S(t).table = t
    BY Zenon DEF StepFacts, StepShapesFact, CreateTableShapeFact
  <2>1. \A t : S(t) \in E <=> S(t) \in DiffSteps(from, to)
    BY <1>1, <1>2, <2>0, Zenon
  <2>2. \A t : S(t) \in DiffSteps(from, to) => t \in DOMAIN to.def \ DOMAIN from.def
    <3> SUFFICES ASSUME NEW t, S(t) \in DiffSteps(from, to)
                 PROVE  t \in DOMAIN to.def \ DOMAIN from.def
      BY Zenon
    <3>2. S(t) \in CreateSteps(from, to)
      BY <2>0 DEF DiffSteps, StepFacts, StepFieldsFact, DropIndexFieldsFact, DropFieldsFact, CreateFieldsFact, AlterFieldsFact, CreateIndexFieldsFact, RenameFieldsFact
    <3>3. PICK u \in DOMAIN to.def \ DOMAIN from.def : S(t) = S(u)
      BY <3>2, Zenon DEF CreateSteps
    <3> HIDE DEF S
    <3>4. t = u
      BY <2>0, <3>3, Zenon
    <3> QED BY <3>4, Zenon
  <2>3. \A t \in DOMAIN to.def \ DOMAIN from.def : S(t) \in DiffSteps(from, to)
    BY Zenon DEF DiffSteps, CreateSteps
  <2> QED BY <2>1, <2>2, <2>3, Zenon DEF Awaited
<1>6. DOMAIN T = (DOMAIN to.def \cup Gone(from, E)) \ Awaited(to, E)
  BY <1>4, <1>5, Zenon DEF Matches
<1>7. ASSUME NEW t \in DOMAIN T
      PROVE  TableOn(T[t], from, to, E, t)
  <2>1. /\ t \in DOMAIN from.def /\ T[t].columns = RenderColumns(from.def[t].columns)
        /\ DOMAIN T[t].indices = DOMAIN from.def[t].indices
        /\ IndexNames(from, t) = DOMAIN from.def[t].indices
    BY <1>7, Zenon DEF Matches, IndexNames
  <2>2. DropsOf(from, t, E) \subseteq DOMAIN T[t].indices
    BY <2>1, Zenon DEF DropsOf
  <2> SUFFICES ASSUME t \in DOMAIN to.def
               PROVE  /\ T[t].columns = IF t \in Outdated(from, to, E) THEN RenderColumns(from.def[t].columns)
                                        ELSE RenderColumns(to.def[t].columns)
                      /\ t \in Unwritten(E) => CreatesOf(to, t, E) \cap DOMAIN T[t].indices = {}
                      /\ t \notin Unwritten(E) =>
                            DOMAIN T[t].indices =
                               (DOMAIN to.def[t].indices \cup DropsOf(from, t, E)) \ CreatesOf(to, t, E)
    BY <2>2, Zenon DEF TableOn
  <2>3. t \in Both(from, to) /\ t \in FinalTables /\ IndexNames(to, t) = DOMAIN to.def[t].indices
    BY <2>1, Zenon DEF Both, IndexNames, StepFacts, BothFinalFact
  <2>4. T[t].columns = IF t \in Outdated(from, to, E) THEN RenderColumns(from.def[t].columns)
                       ELSE RenderColumns(to.def[t].columns)
    <3>1. CASE IsChange(ChangeOf(from, to, t))
      <4>1. ChangeOf(from, to, t) \in DiffSteps(from, to)
        BY <2>3, <3>1, Zenon DEF DiffSteps, AlterSteps
      <4>2. ChangeOf(from, to, t).step = "AlterTable"
        BY DEF StepFacts, ChangeFieldsFact
      <4>3. ChangeOf(from, to, t) \in E
        BY <1>1, <4>1, <4>2, Zenon
      <4> QED BY <2>1, <2>3, <4>3, Zenon DEF Outdated
    <3>2. CASE ~IsChange(ChangeOf(from, to, t))
      BY <2>1, <2>3, <3>2, UnchangedColumns, Zenon
    <3> QED BY <3>1, <3>2, Zenon
  <2>5. \A i : CreateIndex(t, i, to.def[t].indices[i]) \in E => i \in NewIndexes(from, to, t)
    <3> SUFFICES ASSUME NEW i, CreateIndex(t, i, to.def[t].indices[i]) \in E
                 PROVE  i \in NewIndexes(from, to, t)
      BY Zenon
    <3> DEFINE c == CreateIndex(t, i, to.def[t].indices[i])
    <3>1. c.step = "CreateIndex" /\ c.table = t /\ c.index = i /\ c \in DiffSteps(from, to)
      BY <1>2 DEF StepFacts, StepShapesFact, CreateIndexShapeFact
    <3> HIDE DEF c
    <3>2. c \in CreateIndexSteps(from, to)
      BY <3>1, Zenon DEF DiffSteps, StepFacts, StepFieldsFact, DropIndexFieldsFact, DropFieldsFact, CreateFieldsFact, AlterFieldsFact, CreateIndexFieldsFact, RenameFieldsFact
    <3>3. PICK u \in DOMAIN to.def : \E k \in NewIndexes(from, to, u) : c = CreateIndex(u, k, to.def[u].indices[k])
      BY <3>2 DEF StepFacts, StepFieldsFact, CreateIndexFieldsFact
    <3>4. PICK k \in NewIndexes(from, to, u) : c = CreateIndex(u, k, to.def[u].indices[k])
      BY <3>3, Zenon
    <3>5. u = t /\ k = i
      BY <3>1, <3>4 DEF StepFacts, StepShapesFact, CreateIndexShapeFact
    <3> QED BY <3>5, Zenon
  <2>6. CreatesOf(to, t, E) \cap DOMAIN T[t].indices = {}
    BY <2>1, <2>5, Zenon DEF CreatesOf, NewIndexes
  <2>7. ASSUME t \notin Unwritten(E)
        PROVE  DOMAIN T[t].indices = (DOMAIN to.def[t].indices \cup DropsOf(from, t, E)) \ CreatesOf(to, t, E)
    <3>1. \A s \in RenameSteps(from, to) : s.table # t
      <4> SUFFICES ASSUME NEW s \in RenameSteps(from, to), s.table = t
                   PROVE  FALSE
        BY Zenon
      <4>1. s.step = "AlterIndex" /\ s \in DiffSteps(from, to)
        BY Zenon DEF DiffSteps, StepFacts, StepFieldsFact, RenameFieldsFact
      <4>2. s \in E
        BY <1>1, <4>1, Zenon
      <4> QED BY <2>7, <4>1, <4>2, Zenon DEF Unwritten, Rewrites
    <3>2. t \notin FixedTables(from, to)
      <4> SUFFICES ASSUME NEW s \in AlterSteps(from, to), NeedsFix(s), s.table = t
                   PROVE  FALSE
        BY Zenon DEF FixedTables
      <4>1. s.step = "AlterTable" /\ s \in DiffSteps(from, to)
        BY Zenon DEF DiffSteps, StepFacts, StepFieldsFact, AlterFieldsFact
      <4>2. s \in E
        BY <1>1, <4>1, Zenon
      <4> QED BY <2>7, <4>1, <4>2, Zenon DEF Unwritten, Rewrites
    <3>3. /\ NewIndexes(from, to, t) = IndexNames(to, t) \ IndexNames(from, t)
          /\ OldIndexes(from, to, t) = IndexNames(from, t) \ IndexNames(to, t)
      BY <2>3, <3>1, SharedIndexes
    <3>4. CreatesOf(to, t, E) = NewIndexes(from, to, t)
      <4>1. ASSUME NEW i \in NewIndexes(from, to, t)
            PROVE  CreateIndex(t, i, to.def[t].indices[i]) \in E
        <5>1. CreateIndex(t, i, to.def[t].indices[i]) \in DiffSteps(from, to)
          BY <2>3 DEF DiffSteps, CreateIndexSteps, CreateIndexStepsOf, Both
        <5>2. CreateIndex(t, i, to.def[t].indices[i]).table = t
          BY Zenon DEF StepFacts, StepShapesFact, CreateIndexShapeFact
        <5> QED BY <1>1, <3>2, <5>1, <5>2, Zenon
      <4>2. NewIndexes(from, to, t) \subseteq IndexNames(to, t)
        BY Zenon DEF NewIndexes
      <4> QED BY <2>5, <4>1, <4>2, Zenon DEF CreatesOf
    <3>5. OldIndexes(from, to, t) \subseteq DropsOf(from, t, E)
      <4>1. ASSUME NEW i \in OldIndexes(from, to, t)
            PROVE  DropIndex(t, i) \in E
        <5>1. DropIndex(t, i) \in DiffSteps(from, to)
          BY <2>1 DEF DiffSteps, DropIndexSteps, DropIndexStepsOf
        <5>2. DropIndex(t, i).step = "DropIndex"
          BY Zenon DEF StepFacts, StepShapesFact, DropIndexShapeFact
        <5> QED BY <1>1, <5>1, <5>2, Zenon
      <4> QED BY <4>1, Zenon DEF DropsOf, OldIndexes
    <3>6. DropsOf(from, t, E) \subseteq IndexNames(from, t)
      BY Zenon DEF DropsOf
    <3> QED BY <2>1, <2>3, <3>3, <3>4, <3>5, <3>6
  <2> QED BY <2>4, <2>6, <2>7, Zenon
<1> QED BY <1>3, <1>6, <1>7, Zenon DEF Live, E

\* A step that makes or changes a single table.
LEMMA LiveChange ==
    ASSUME StepFacts, NEW from, NEW to, NEW P, NEW T, Live(T, from, to, P), NEW s, First(P, s),
           s.step # "DropTables", NEW U, DOMAIN U = DOMAIN T \cup {s.table},
           \A t \in DOMAIN T : t # s.table => U[t] = T[t],
           IF s.step = "CreateTable" THEN s.table \in DOMAIN to.def ELSE s.table \in DOMAIN T,
           TableOn(U[s.table], from, to, P \ {s}, s.table)
    PROVE  Live(U, from, to, P \ {s})
<1> DEFINE Q == P \ {s}
<1>1. /\ Ordered(from, to, P) /\ DOMAIN T = (DOMAIN to.def \cup Gone(from, P)) \ Awaited(to, P)
      /\ \A t \in DOMAIN T : TableOn(T[t], from, to, P, t)
  BY Zenon DEF Live
<1>2. Ordered(from, to, Q)
  BY <1>1, OrderedWithout, Zenon
<1>3. Relieved(from, to, P, Q, s)
  <2>1. P \subseteq DiffSteps(from, to) /\ s \in P
    BY <1>1, Zenon DEF Ordered, Effective, First
  <2> QED BY <2>1, StepDone, Zenon
<1> HIDE DEF Q
<1>4. DOMAIN U = (DOMAIN to.def \cup Gone(from, Q)) \ Awaited(to, Q)
  BY <1>1, <1>3, Zenon DEF Relieved
<1>5. ASSUME NEW t \in DOMAIN U
      PROVE  TableOn(U[t], from, to, Q, t)
  <2>1. CASE t = s.table
    BY <2>1, Zenon DEF Q
  <2>2. CASE t # s.table
    <3>1. t \in DOMAIN T /\ U[t] = T[t] /\ TableOn(T[t], from, to, P, t)
      BY <1>1, <1>5, <2>2, Zenon
    <3>2. TableOn(T[t], from, to, Q, t)
      BY <1>3, <2>2, <3>1, TableStays, Zenon
    <3> QED BY <3>1, <3>2, Zenon
  <2> QED BY <2>1, <2>2, Zenon
<1> QED BY <1>2, <1>4, <1>5, Zenon DEF Live, Q

\* DROP TABLE.
LEMMA LiveDropTable ==
    ASSUME StepFacts, NEW from, NEW to, NEW P, NEW T, Live(T, from, to, P), NEW s, First(P, s),
           s \in DropSteps(from, to)
    PROVE  Live(Without(T, s.names), from, to, P \ {s}) /\ s.names \subseteq DOMAIN T
<1> DEFINE Q == P \ {s}
           U == Without(T, s.names)
<1>1. /\ Ordered(from, to, P) /\ DOMAIN T = (DOMAIN to.def \cup Gone(from, P)) \ Awaited(to, P)
      /\ \A t \in DOMAIN T : TableOn(T[t], from, to, P, t)
  BY Zenon DEF Live
<1>2. Ordered(from, to, Q)
  BY <1>1, OrderedWithout, Zenon
<1>3. Relieved(from, to, P, Q, s)
  <2>1. P \subseteq DiffSteps(from, to) /\ s \in P
    BY <1>1, Zenon DEF Ordered, Effective, First
  <2> QED BY <2>1, StepDone, Zenon
<1>4. PICK x \in DOMAIN from.def \ DOMAIN to.def : s = DropTables({x})
  BY Zenon DEF DropSteps
<1>5. s.step = "DropTables" /\ s.names = {x}
  BY <1>4, Zenon DEF StepFacts, StepShapesFact, DropTablesShapeFact
<1>6. DOMAIN U = DOMAIN T \ {x} /\ \A t \in DOMAIN U : U[t] = T[t]
  BY <1>5, Zenon DEF Without
<1>7. x \in DOMAIN T
  <2>1. x \in Gone(from, P)
    BY <1>4, Zenon DEF Gone, First
  <2> QED BY <1>1, <1>4, <2>1, Zenon DEF Awaited
<1> HIDE DEF Q, U
<1>8. DOMAIN U = (DOMAIN to.def \cup Gone(from, Q)) \ Awaited(to, Q)
  BY <1>1, <1>3, <1>4, <1>5, <1>6, Zenon DEF Relieved
<1>9. ASSUME NEW t \in DOMAIN U
      PROVE  TableOn(U[t], from, to, Q, t)
  <2>1. U[t] = T[t] /\ TableOn(T[t], from, to, P, t)
    BY <1>1, <1>6, Zenon
  <2> QED BY <1>3, <1>5, <2>1, TableStays, Zenon
<1> QED BY <1>2, <1>5, <1>7, <1>8, <1>9, Zenon DEF Live, Q, U

\* DROP INDEX.
LEMMA LiveDropIndex ==
    ASSUME StepFacts, NEW from, NEW to, NEW P, NEW T, Live(T, from, to, P), NEW s, First(P, s),
           s \in DropIndexSteps(from, to), s.table \in DOMAIN T,
           NEW U, DOMAIN U = DOMAIN T, \A t \in DOMAIN T : t # s.table => U[t] = T[t],
           U[s.table].columns = T[s.table].columns,
           DOMAIN U[s.table].indices = DOMAIN T[s.table].indices \ {s.index}
    PROVE  Live(U, from, to, P \ {s})
<1> DEFINE Q == P \ {s}
           x == s.table
           d == T[x]
           e == U[x]
<1>0. s.step = "DropIndex"
  BY Zenon DEF StepFacts, StepFieldsFact, DropIndexFieldsFact
<1>1. s.index \notin IndexNames(to, x)
  <2>1. PICK t \in DOMAIN from.def : \E i \in OldIndexes(from, to, t) : s = DropIndex(t, i)
    BY DEF StepFacts, StepFieldsFact, DropIndexFieldsFact
  <2>2. PICK i \in OldIndexes(from, to, t) : s = DropIndex(t, i)
    BY <2>1, Zenon
  <2>3. t = x /\ i = s.index
    BY <2>2, Zenon DEF StepFacts, StepShapesFact, DropIndexShapeFact
  <2> QED BY <2>2, <2>3, Zenon DEF OldIndexes
<1>2. TableOn(d, from, to, P, x)
  BY Zenon DEF Live
<1>3. Relieved(from, to, P, Q, s)
  <2>1. P \subseteq DiffSteps(from, to) /\ s \in P
    BY Zenon DEF Live, Ordered, Effective, First
  <2> QED BY <2>1, StepDone, Zenon
<1>4. /\ DropsOf(from, x, Q) = DropsOf(from, x, P) \ {s.index}
      /\ CreatesOf(to, x, Q) = CreatesOf(to, x, P)
      /\ Outdated(from, to, Q) = Outdated(from, to, P)
      /\ Unwritten(Q) = Unwritten(P)
  BY <1>0, <1>3, Zenon DEF Relieved, Rewrites
<1>5. TableOn(e, from, to, Q, x)
  <2> HIDE DEF Q, x, d, e
  <2>1. e.columns = d.columns /\ DOMAIN e.indices = DOMAIN d.indices \ {s.index}
    BY Zenon DEF x, d, e
  <2>2. x \in DOMAIN to.def => s.index \notin DOMAIN to.def[x].indices
    BY <1>1, Zenon DEF IndexNames
  <2>3. DropsOf(from, x, Q) \subseteq DOMAIN e.indices
    BY <1>2, <1>4, <2>1, Zenon DEF TableOn
  <2> SUFFICES ASSUME x \in DOMAIN to.def
               PROVE  TableOn(e, from, to, Q, x)
    BY <2>3, Zenon DEF TableOn
  <2>4. e.columns = IF x \in Outdated(from, to, Q) THEN RenderColumns(from.def[x].columns)
                    ELSE RenderColumns(to.def[x].columns)
    BY <1>2, <1>4, <2>1, Zenon DEF TableOn
  <2>5. x \in Unwritten(Q) => CreatesOf(to, x, Q) \cap DOMAIN e.indices = {}
    BY <1>2, <1>4, <2>1, Zenon DEF TableOn
  <2>6. x \notin Unwritten(Q) =>
            DOMAIN e.indices = (DOMAIN to.def[x].indices \cup DropsOf(from, x, Q)) \ CreatesOf(to, x, Q)
    BY <1>2, <1>4, <2>1, <2>2 DEF TableOn
  <2> QED BY <2>3, <2>4, <2>5, <2>6, Zenon DEF TableOn
<1>6. DOMAIN U = DOMAIN T \cup {s.table}
  BY Zenon
<1> QED BY <1>0, <1>5, <1>6, LiveChange, Zenon

\* The indexes of a new table are created after it.
LEMMA IndexesAwaited ==
    ASSUME StepFacts, Enumerated, NEW from, NEW to, Paired(from, to), Bare(to.def), NEW P, Ordered(from, to, P),
           NEW s \in P, s \in CreateSteps(from, to)
    PROVE  /\ CreatesOf(to, s.table, P) = DOMAIN to.def[s.table].indices
           /\ s.table \in DOMAIN to.def \ DOMAIN from.def /\ s.def = to.def[s.table]
<1>1. PICK t \in DOMAIN to.def \ DOMAIN from.def : s = CreateTable(t, to.def[t])
  BY Zenon DEF CreateSteps
<1>2. s.table = t /\ s.step = "CreateTable" /\ s.def = to.def[t]
  BY <1>1 DEF StepFacts, StepShapesFact, CreateTableShapeFact
<1>3. IndexNames(to, t) = DOMAIN to.def[t].indices /\ IndexNames(from, t) = {}
  BY <1>1, Zenon DEF IndexNames
<1>4. ASSUME NEW i \in DOMAIN to.def[t].indices
      PROVE  CreateIndex(t, i, to.def[t].indices[i]) \in P
  <2> DEFINE c == CreateIndex(t, i, to.def[t].indices[i])
  <2>0. c.step = "CreateIndex" /\ c.table = t
    BY DEF StepFacts, StepShapesFact, CreateIndexShapeFact
  <2>1. t \in FinalTables
    <3>1. t \in AllTables
      BY <1>1, Zenon DEF Paired, SchemaOK, DefOK
    <3>2. t \notin Temporaries
      BY <1>1, <1>4, Zenon DEF Bare
    <3> QED BY <3>1, <3>2, Zenon DEF AllTables
  <2>2. \A r \in RenameSteps(from, to) : r.table # t
    <3> SUFFICES ASSUME NEW r \in RenameSteps(from, to), r.table = t
                 PROVE  FALSE
      BY Zenon
    <3>1. PICK u \in Both(from, to) : \E n : r = AlterIndex(u, n[1], n[2])
      BY DEF StepFacts, StepFieldsFact, RenameFieldsFact
    <3>2. r.table = u
      BY <3>1 DEF StepFacts, StepShapesFact, AlterIndexShapeFact
    <3> QED BY <1>1, <3>2, Zenon DEF Both
  <2>3. i \in NewIndexes(from, to, t)
    BY <1>3, <1>4, <2>1, <2>2, SharedIndexes
  <2>4. c \in DiffSteps(from, to)
    BY <1>1, <2>3 DEF DiffSteps, CreateIndexSteps, CreateIndexStepsOf
  <2>5. t \notin FixedTables(from, to)
    <3> SUFFICES ASSUME NEW r \in AlterSteps(from, to), r.table = t
                 PROVE  FALSE
      BY Zenon DEF FixedTables
    <3>1. PICK u \in Both(from, to) : r = ChangeOf(from, to, u)
      BY Zenon DEF StepFacts, StepFieldsFact, AlterFieldsFact
    <3>2. r.table = u
      BY <3>1 DEF StepFacts, ChangeFieldsFact
    <3> QED BY <1>1, <3>2, Zenon DEF Both
  <2> HIDE DEF c
  <2>6. c \in Effective(from, to)
    BY <2>0, <2>4, <2>5, EffectiveSteps, Zenon
  <2>7. Rank(s) = 2 /\ Rank(c) = 4
    BY <1>2, <2>0, Zenon DEF Rank
  <2>8. c \in P
    BY <2>6, <2>7 DEF Ordered
  <2> QED BY <2>8, Zenon DEF c
<1> QED BY <1>1, <1>2, <1>3, <1>4, Zenon DEF CreatesOf

\* Rewritten tables are in both schemas.
LEMMA UnwrittenShared ==
    ASSUME StepFacts, NEW from, NEW to, Paired(from, to), NEW P, P \subseteq DiffSteps(from, to)
    PROVE  Unwritten(P) \subseteq Both(from, to)
BY Zenon DEF Unwritten, StepFacts, RewrittenTableFact

\* CREATE TABLE.
LEMMA LiveCreateTable ==
    ASSUME StepFacts, Enumerated, NEW from, NEW to, Paired(from, to), Bare(to.def), NEW P, NEW T, Live(T, from, to, P),
           NEW s, First(P, s), s \in CreateSteps(from, to),
           NEW U, DOMAIN U = DOMAIN T \cup {s.table},
           \A t \in DOMAIN T : t # s.table => U[t] = T[t],
           U[s.table].columns = RenderColumns(s.def.columns), DOMAIN U[s.table].indices = {}
    PROVE  Live(U, from, to, P \ {s}) /\ s.table \notin DOMAIN T
<1> DEFINE Q == P \ {s}
           x == s.table
           e == U[x]
<1>0. s.step = "CreateTable" /\ s \in P /\ Ordered(from, to, P) /\ P \subseteq DiffSteps(from, to)
  BY Zenon DEF First, Live, Ordered, Effective, StepFacts, StepFieldsFact, CreateFieldsFact
<1>1. /\ CreatesOf(to, x, P) = DOMAIN to.def[x].indices
      /\ x \in DOMAIN to.def \ DOMAIN from.def /\ s.def = to.def[x]
  BY <1>0, IndexesAwaited
<1>2. x \notin DOMAIN T
  <2>1. s = CreateTable(x, to.def[x])
    <3>1. PICK t \in DOMAIN to.def : s = CreateTable(t, to.def[t])
      BY Zenon DEF CreateSteps
    <3> QED BY <3>1, Zenon DEF StepFacts, StepShapesFact, CreateTableShapeFact
  <2> HIDE DEF x
  <2>2. x \in Awaited(to, P)
    BY <1>0, <1>1, <2>1, Zenon DEF Awaited
  <2> QED BY <2>2, Zenon DEF Live
<1>3. Relieved(from, to, P, Q, s)
  BY <1>0, StepDone, Zenon
<1>4. CreatesOf(to, x, Q) = DOMAIN to.def[x].indices
  BY <1>0, <1>1, <1>3, Zenon DEF Relieved
<1>5. x \notin Unwritten(Q) /\ x \notin Outdated(from, to, Q) /\ DropsOf(from, x, Q) = {}
  <2>1. Q \subseteq DiffSteps(from, to)
    BY <1>0, Zenon
  <2>2. Unwritten(Q) \subseteq Both(from, to)
    BY <2>1, UnwrittenShared, Zenon
  <2> QED BY <1>1, <2>2, Zenon DEF Both, Outdated, DropsOf, IndexNames
<1>6. TableOn(e, from, to, Q, x)
  <2>1. e.columns = RenderColumns(to.def[x].columns) /\ DOMAIN e.indices = {}
    BY <1>1, Zenon
  <2> HIDE DEF e, Q, x
  <2> QED BY <1>4, <1>5, <2>1, Zenon DEF TableOn
<1>7. Live(U, from, to, Q)
  BY <1>0, <1>1, <1>6, LiveChange, Zenon
<1> QED BY <1>2, <1>7, Zenon

\* SQLite's ALTER TABLE, which only adds columns that may be NULL.
LEMMA LiveAlter ==
    ASSUME StepFacts, NEW from, NEW to, Paired(from, to), NEW P, NEW T, Live(T, from, to, P),
           NEW s, First(P, s), s \in AlterSteps(from, to), ~Rewrites(s)
    PROVE  /\ s.table \in DOMAIN T /\ s.table \in DOMAIN to.def /\ s.drop \cup s.alter = {}
           /\ T[s.table].columns = RenderColumns(from.def[s.table].columns)
           /\ s.add \cap DOMAIN T[s.table].columns = {}
           /\ \A U : Exchanged(T, U, s.table, AlteredColumns(T[s.table], s), DOMAIN T[s.table].indices)
                     => Live(U, from, to, P \ {s})
<1> DEFINE Q == P \ {s}
           x == s.table
           p == from.def[x].columns
           n == to.def[x].columns
<1>0. s.step = "AlterTable" /\ s \in P /\ P \subseteq DiffSteps(from, to) /\ s \in DiffSteps(from, to)
  BY Zenon DEF First, Live, Ordered, Effective, StepFacts, StepFieldsFact, AlterFieldsFact
<1>1. s = ChangeOf(from, to, x) /\ x \in Both(from, to)
  <2>1. PICK t \in Both(from, to) : s = ChangeOf(from, to, t)
    BY Zenon DEF StepFacts, StepFieldsFact, AlterFieldsFact
  <2>2. ChangeOf(from, to, t).table = t
    BY DEF StepFacts, ChangeFieldsFact
  <2> QED BY <2>1, <2>2, Zenon
<1>2. /\ s.drop = DOMAIN p \ DOMAIN n /\ s.add = DOMAIN n \ DOMAIN p /\ s.def = to.def[x]
      /\ s.alter = {c \in DOMAIN p \cap DOMAIN n : ColumnDiffers(p[c], n[c])}
  <2> DEFINE y == x
  <2> HIDE DEF y
  <2>1. LET z == ChangeOf(from, to, y)
        IN  /\ z.drop = DOMAIN from.def[y].columns \ DOMAIN to.def[y].columns
            /\ z.add = DOMAIN to.def[y].columns \ DOMAIN from.def[y].columns
            /\ z.def = to.def[y]
            /\ z.alter = {c \in DOMAIN from.def[y].columns \cap DOMAIN to.def[y].columns :
                             ColumnDiffers(from.def[y].columns[c], to.def[y].columns[c])}
    BY DEF StepFacts, ChangeFieldsFact
  <2> QED BY <1>1, <2>1, Zenon DEF y
<1>3. s.drop \cup s.alter = {}
  BY <1>0, Zenon DEF Rewrites, NeedsFix
<1>4. p \in [DOMAIN p -> Column] /\ n \in [DOMAIN n -> Column]
  BY <1>1, Zenon DEF Paired, SchemaOK, DefOK, TableOK, Both
<1>5. Cleared(from, to, P, s)
  BY <1>0, FirstClears, Zenon
<1>6. x \in DOMAIN T
  <2>1. Awaited(to, P) = {}
    BY <1>0, <1>5, Zenon DEF Cleared
  <2> QED BY <1>1, <2>1, Zenon DEF Both, Live
<1>7. TableOn(T[x], from, to, P, x) /\ x \in DOMAIN to.def /\ x \in Outdated(from, to, P)
  BY <1>0, <1>1, <1>6, Zenon DEF Live, Outdated, Both
<1>8. T[x].columns = RenderColumns(p)
  BY <1>7, Zenon DEF TableOn
<1>9. DOMAIN RenderColumns(p) = DOMAIN p /\ \A c \in DOMAIN p : RenderColumns(p)[c] = RenderColumn(p[c])
  BY Zenon DEF RenderColumns
<1>10. s.add \cap DOMAIN T[x].columns = {}
  BY <1>2, <1>8, <1>9, Zenon
<1>11. AlteredColumns(T[x], s) = RenderColumns(n)
  <2> HIDE DEF p, n, x
  <2>1. DOMAIN n = (DOMAIN p \ s.drop) \cup s.add
    BY <1>2, <1>3, Zenon
  <2>2. \A c \in DOMAIN p \cap DOMAIN n : RenderColumn(p[c]) = RenderColumn(n[c])
    BY <1>2, <1>3, <1>4, RenderSame, Zenon
  <2>3. AlteredColumns(T[x], s) = [c \in DOMAIN n |-> IF c \in s.add \cup s.alter THEN RenderColumn(n[c])
                                                      ELSE RenderColumns(p)[c]]
    BY <1>2, <1>8, <1>9, <2>1, Zenon DEF AlteredColumns, n
  <2>4. \A c \in DOMAIN n : c \notin s.add \cup s.alter => RenderColumns(p)[c] = RenderColumn(n[c])
    BY <1>9, <2>1, <2>2, Zenon
  <2> QED BY <2>3, <2>4, Zenon DEF RenderColumns
<1>12. Relieved(from, to, P, Q, s)
  BY <1>0, StepDone, Zenon
<1>13. ASSUME NEW U, Exchanged(T, U, x, AlteredColumns(T[x], s), DOMAIN T[x].indices)
       PROVE  Live(U, from, to, P \ {s})
  <2> DEFINE e == U[x]
             d == T[x]
  <2>1. /\ DropsOf(from, x, Q) = DropsOf(from, x, P) /\ CreatesOf(to, x, Q) = CreatesOf(to, x, P)
        /\ x \notin Outdated(from, to, Q) /\ Unwritten(Q) = Unwritten(P)
    BY <1>0, <1>12, Zenon DEF Relieved
  <2>2. e.columns = RenderColumns(to.def[x].columns) /\ DOMAIN e.indices = DOMAIN d.indices
    BY <1>11, <1>13, Zenon DEF Exchanged
  <2>3. TableOn(e, from, to, Q, x)
    <3> HIDE DEF e, d
    <3>1. TableOn(d, from, to, P, x)
      BY <1>7, Zenon DEF d
    <3> HIDE DEF x, Q
    <3> QED BY <2>1, <2>2, <3>1, Zenon DEF TableOn
  <2>4. DOMAIN U = DOMAIN T \cup {s.table}
    BY <1>6, <1>13, Zenon DEF Exchanged
  <2> QED BY <1>0, <1>6, <1>13, <2>3, <2>4, LiveChange, Zenon DEF Exchanged
<1>14. \A U : Exchanged(T, U, x, AlteredColumns(T[x], s), DOMAIN T[x].indices)
                     => Live(U, from, to, P \ {s})
  BY ONLY <1>13, Zenon
<1> QED BY ONLY <1>3, <1>6, <1>7, <1>8, <1>10, <1>14, Zenon

\* CREATE INDEX.
LEMMA LiveCreateIndex ==
    ASSUME StepFacts, NEW from, NEW to, Paired(from, to), NEW P, NEW T, Live(T, from, to, P),
           NEW s, First(P, s), s \in CreateIndexSteps(from, to)
    PROVE  /\ Creatable(T, to, s)
           /\ \A U : Exchanged(T, U, s.table, T[s.table].columns,
                               DOMAIN T[s.table].indices \cup {s.index})
                     => Live(U, from, to, P \ {s})
<1> DEFINE Q == P \ {s}
           x == s.table
           k == s.index
<1>0. s.step = "CreateIndex" /\ s \in P /\ P \subseteq DiffSteps(from, to) /\ s \in DiffSteps(from, to)
  BY Zenon DEF First, Live, Ordered, Effective, StepFacts, StepFieldsFact, CreateIndexFieldsFact
<1>1. /\ x \in DOMAIN to.def /\ k \in NewIndexes(from, to, x)
      /\ s = CreateIndex(x, k, to.def[x].indices[k]) /\ s.def = to.def[x].indices[k]
  <2>1. PICK t \in DOMAIN to.def : \E i \in NewIndexes(from, to, t) : s = CreateIndex(t, i, to.def[t].indices[i])
    BY DEF StepFacts, StepFieldsFact, CreateIndexFieldsFact
  <2>2. PICK i \in NewIndexes(from, to, t) : s = CreateIndex(t, i, to.def[t].indices[i])
    BY <2>1, Zenon
  <2>3. x = t /\ k = i /\ s.def = to.def[t].indices[i]
    BY <2>2 DEF StepFacts, StepShapesFact, CreateIndexShapeFact
  <2> QED BY <2>2, <2>3, Zenon
<1>2. k \in DOMAIN to.def[x].indices /\ IndexNames(to, x) = DOMAIN to.def[x].indices
  BY <1>1, Zenon DEF NewIndexes, IndexNames
<1>3. Cleared(from, to, P, s)
  BY <1>0, FirstClears, Zenon
<1>4. Awaited(to, P) = {} /\ Outdated(from, to, P) = {} /\ DropsOf(from, x, P) = {}
  BY <1>0, <1>3, Zenon DEF Cleared
<1>5. x \in DOMAIN T /\ TableOn(T[x], from, to, P, x)
  BY <1>1, <1>4, Zenon DEF Live
<1> HIDE DEF x, k, Q
<1>6. k \in CreatesOf(to, x, P)
  BY <1>0, <1>1, <1>2, Zenon DEF CreatesOf
<1>7. k \notin DOMAIN T[x].indices /\ T[x].columns = RenderColumns(to.def[x].columns)
  BY <1>1, <1>4, <1>5, <1>6, Zenon DEF TableOn
<1>8. Relieved(from, to, P, Q, s)
  BY <1>0, StepDone, Zenon DEF Q
<1>9. ASSUME NEW U, Exchanged(T, U, x, T[x].columns, DOMAIN T[x].indices \cup {k})
      PROVE  Live(U, from, to, Q)
  <2> DEFINE e == U[x]
             d == T[x]
  <2>1. /\ DropsOf(from, x, Q) = {} /\ CreatesOf(to, x, Q) = CreatesOf(to, x, P) \ {k}
        /\ Outdated(from, to, Q) = {} /\ Unwritten(Q) = Unwritten(P)
    BY <1>0, <1>4, <1>8, Zenon DEF Relieved, Rewrites, x, k
  <2>2. /\ e.columns = d.columns /\ DOMAIN e.indices = DOMAIN d.indices \cup {k}
        /\ TableOn(d, from, to, P, x)
    BY <1>5, <1>9, Zenon DEF Exchanged
  <2>3. TableOn(e, from, to, Q, x)
    <3> HIDE DEF e, d
    <3> QED BY <1>2, <1>4, <1>6, <2>1, <2>2, Zenon DEF TableOn
  <2>4. DOMAIN U = DOMAIN T \cup {s.table}
    BY <1>5, <1>9, Zenon DEF Exchanged, x
  <2> QED BY <1>0, <1>5, <1>9, <2>3, <2>4, LiveChange, Zenon DEF Exchanged, x, Q
<1>10. \A U : Exchanged(T, U, x, T[x].columns, DOMAIN T[x].indices \cup {k})
                     => Live(U, from, to, Q)
  BY ONLY <1>9, Zenon
<1>11. x = s.table /\ k = s.index /\ Q = P \ {s}
  BY Zenon DEF x, k, Q
<1> QED BY ONLY <1>1, <1>2, <1>5, <1>7, <1>10, <1>11, Zenon DEF Creatable

\* fix(): a table made anew.
LEMMA LiveRewrite ==
    ASSUME StepFacts, Enumerated, NEW from, NEW to, Paired(from, to), NEW P, NEW T, Live(T, from, to, P),
           NEW s, First(P, s), Rewrites(s)
    PROVE  /\ s.table \in DOMAIN T /\ s.table \in Both(from, to)
           /\ DOMAIN T \subseteq DOMAIN to.def
           /\ T[s.table].columns \in {RenderColumns(from.def[s.table].columns),
                                      RenderColumns(to.def[s.table].columns)}
           /\ \A U : Exchanged(T, U, s.table, RenderColumns(to.def[s.table].columns),
                               DOMAIN to.def[s.table].indices)
                     => Live(U, from, to, P \ {s})
<1> DEFINE Q == P \ {s}
           x == s.table
<1>0. /\ s.step \in {"AlterTable", "AlterIndex"} /\ s \in P /\ P \subseteq DiffSteps(from, to)
      /\ s \in DiffSteps(from, to) /\ P \subseteq Effective(from, to)
  BY Zenon DEF First, Live, Ordered, Effective, Rewrites
<1>1. x \in Both(from, to)
  BY <1>0, Zenon DEF StepFacts, RewrittenTableFact
<1>2. Cleared(from, to, P, s)
  BY <1>0, FirstClears, Zenon
<1>3. Gone(from, P) = {} /\ Awaited(to, P) = {} /\ DropsOf(from, x, P) = {}
  BY <1>0, <1>2, Zenon DEF Cleared
<1>4. DOMAIN T = DOMAIN to.def /\ x \in DOMAIN T /\ x \in DOMAIN to.def
  BY <1>1, <1>3, Zenon DEF Live, Both
<1>5. TableOn(T[x], from, to, P, x)
  BY <1>4, Zenon DEF Live
<1>6. T[x].columns \in {RenderColumns(from.def[x].columns), RenderColumns(to.def[x].columns)}
  BY <1>4, <1>5, Zenon DEF TableOn
<1>7. CreatesOf(to, x, P) = {}
  <2>1. CASE s.step = "AlterIndex"
    BY <1>2, <2>1, Zenon DEF Cleared
  <2>2. CASE s.step = "AlterTable"
    <3>1. s \in AlterSteps(from, to)
      BY <1>0, <2>2, Zenon DEF DiffSteps, StepFacts, StepFieldsFact, DropIndexFieldsFact, DropFieldsFact, CreateFieldsFact, AlterFieldsFact, CreateIndexFieldsFact, RenameFieldsFact
    <3>2. x \in FixedTables(from, to)
      BY <2>2, <3>1, Zenon DEF FixedTables, Rewrites
    <3>3. ASSUME NEW i, CreateIndex(x, i, to.def[x].indices[i]) \in P
          PROVE  FALSE
      <4> DEFINE c == CreateIndex(x, i, to.def[x].indices[i])
      <4>1. c.step = "CreateIndex" /\ c.table = x
        BY DEF StepFacts, StepShapesFact, CreateIndexShapeFact
      <4>2. c \in Effective(from, to) /\ c \in DiffSteps(from, to)
        BY <1>0, <3>3, Zenon DEF Effective
      <4> HIDE DEF c
      <4> QED BY <3>2, <4>1, <4>2, EffectiveSteps, Zenon
    <3> QED BY <3>3, Zenon DEF CreatesOf
  <2> QED BY <1>0, <2>1, <2>2, Zenon
<1>8. Relieved(from, to, P, Q, s)
  BY <1>0, StepDone, Zenon
<1>9. DropsOf(from, x, Q) = {} /\ CreatesOf(to, x, Q) = {}
  BY <1>0, <1>3, <1>7, <1>8, Zenon DEF Relieved
<1>10. x \notin Outdated(from, to, Q)
  <2>1. CASE s.step = "AlterIndex"
    BY <1>2, <1>8, <2>1, Zenon DEF Cleared, Relieved
  <2>2. CASE s.step = "AlterTable"
    BY <1>8, <2>2, Zenon DEF Relieved
  <2> QED BY <1>0, <2>1, <2>2, Zenon
<1> HIDE DEF Q
<1>11. ASSUME NEW U, Exchanged(T, U, x, RenderColumns(to.def[x].columns), DOMAIN to.def[x].indices)
       PROVE  Live(U, from, to, Q)
  <2> DEFINE e == U[x]
  <2>1. TableOn(e, from, to, Q, x)
    <3>1. e.columns = RenderColumns(to.def[x].columns) /\ DOMAIN e.indices = DOMAIN to.def[x].indices
      BY <1>11, Zenon DEF Exchanged
    <3> HIDE DEF e, x
    <3> QED BY <1>9, <1>10, <3>1, Zenon DEF TableOn
  <2>2. DOMAIN U = DOMAIN T \cup {s.table}
    BY <1>4, <1>11, Zenon DEF Exchanged
  <2> QED BY <1>0, <1>4, <1>11, <2>1, <2>2, LiveChange, Zenon DEF Exchanged, Q
<1>12. \A U : Exchanged(T, U, x, RenderColumns(to.def[x].columns), DOMAIN to.def[x].indices)
                     => Live(U, from, to, Q)
  BY ONLY <1>11, Zenon
<1>13. DOMAIN T \subseteq DOMAIN to.def /\ Q = P \ {s}
  BY <1>4, Zenon DEF Q
<1> QED BY ONLY <1>1, <1>4, <1>6, <1>12, <1>13, Zenon

\* When no step is pending, the schema is the new one.
LEMMA LiveEnd ==
    ASSUME NEW from, NEW to, NEW T, Live(T, from, to, {})
    PROVE  Matches(T, to.def)
<1>1. /\ Gone(from, {}) = {} /\ Awaited(to, {}) = {} /\ Outdated(from, to, {}) = {} /\ Unwritten({}) = {}
      /\ \A t : DropsOf(from, t, {}) = {} /\ CreatesOf(to, t, {}) = {}
  BY Zenon DEF Gone, Awaited, Outdated, Unwritten, DropsOf, CreatesOf
<1>2. DOMAIN T = DOMAIN to.def /\ \A t \in DOMAIN T : TableOn(T[t], from, to, {}, t)
  BY <1>1, Zenon DEF Live
<1>3. ASSUME NEW t \in DOMAIN T
      PROVE  T[t].columns = RenderColumns(to.def[t].columns) /\ DOMAIN T[t].indices = DOMAIN to.def[t].indices
  BY <1>1, <1>2, Zenon DEF TableOn
<1> QED BY <1>2, <1>3, Zenon DEF Matches

-----------------------------------------------------------------------------
(* What a statement draws is drawn as the renderers draw it.               *)

\* The same for all columns of a table.
LEMMA RenderedTwice ==
    ASSUME StepFacts, NEW columns, columns \in [DOMAIN columns -> Column]
    PROVE  RenderColumns(RenderColumns(columns)) = RenderColumns(columns)
<1> DEFINE r == RenderColumns(columns)
<1>1. DOMAIN r = DOMAIN columns /\ \A c \in DOMAIN columns : r[c] = RenderColumn(columns[c])
  BY Zenon DEF StepFacts, RenderedColumnsFact
<1>2. RenderColumns(r) = [c \in DOMAIN columns |-> RenderColumn(r[c])]
  BY <1>1, Zenon DEF RenderColumns
<1>3. \A c \in DOMAIN columns : RenderColumn(r[c]) = RenderColumn(columns[c])
  BY <1>1, RenderTwice, Zenon
<1>4. r = [c \in DOMAIN columns |-> RenderColumn(columns[c])]
  BY Zenon DEF RenderColumns
<1> HIDE DEF r
<1>5. RenderColumns(r) = r
  BY <1>2, <1>3, <1>4, Zenon
<1> QED BY <1>5, Zenon DEF r

\* What matches a schema that matches a third one.
LEMMA MatchesThrough ==
    ASSUME StepFacts, NEW a, NEW b, NEW c, DefOK(c), Matches(a, b), Matches(b, c)
    PROVE  Matches(a, c)
<1>1. SUFFICES ASSUME NEW t \in DOMAIN a
               PROVE  /\ a[t].columns = RenderColumns(c[t].columns)
                      /\ DOMAIN a[t].indices = DOMAIN c[t].indices
  BY Zenon DEF Matches
<1>2. /\ t \in DOMAIN b /\ t \in DOMAIN c
      /\ a[t].columns = RenderColumns(b[t].columns) /\ DOMAIN a[t].indices = DOMAIN b[t].indices
      /\ b[t].columns = RenderColumns(c[t].columns) /\ DOMAIN b[t].indices = DOMAIN c[t].indices
  BY Zenon DEF Matches
<1>3. c[t].columns \in [DOMAIN c[t].columns -> Column]
  BY <1>2, Zenon DEF DefOK, TableOK
<1> DEFINE n == c[t].columns
<1>4. RenderColumns(RenderColumns(n)) = RenderColumns(n)
  BY <1>3, RenderedTwice, Zenon
<1> QED BY ONLY <1>2, <1>4, Zenon DEF n

\* ALTER TABLE leaves rendered columns.
LEMMA AlteredRendered ==
    ASSUME NEW t, NEW old, NEW s, TableOK(t, old), TableOK(t, s.def),
           s.add \cup s.alter \subseteq DOMAIN s.def.columns,
           old.columns = RenderColumns(old.columns)
    PROVE  AlteredColumns(old, s) = RenderColumns(AlteredColumns(old, s))
<1> DEFINE p == old.columns
           n == s.def.columns
           a == AlteredColumns(old, s)
           D == (DOMAIN p \ s.drop) \cup s.add
           G == s.add \cup s.alter
<1>1. p \in [DOMAIN p -> Column] /\ n \in [DOMAIN n -> Column] /\ G \subseteq DOMAIN n
  BY Zenon DEF TableOK
<1>2. a = [c \in D |-> IF c \in G THEN RenderColumn(n[c]) ELSE p[c]]
  BY Zenon DEF AlteredColumns
<1>3. \A c \in DOMAIN p : p[c] = RenderColumn(p[c])
  BY Zenon DEF RenderColumns
<1>4. \A c \in G : RenderColumn(RenderColumn(n[c])) = RenderColumn(n[c])
  BY <1>1, RenderTwice, Zenon
<1>5. RenderColumns(a) = [c \in D |-> RenderColumn(a[c])]
  BY <1>2, Zenon DEF RenderColumns
<1> HIDE DEF a, p, n
<1>6. \A c \in D : RenderColumn(a[c]) = a[c]
  <2>1. ASSUME NEW c \in D
        PROVE  RenderColumn(a[c]) = a[c]
    <3>1. CASE c \in G
      BY <1>2, <1>4, <3>1, Zenon
    <3>2. CASE c \notin G
      BY <1>2, <1>3, <3>2, Zenon
    <3> QED BY <3>1, <3>2, Zenon
  <2> QED BY <2>1, Zenon
<1>7. a = [c \in D |-> a[c]]
  BY <1>2, Zenon
<1>8. RenderColumns(a) = a
  BY <1>5, <1>6, <1>7, Zenon
<1> QED BY <1>8, Zenon DEF a

\* What a statement does to the tables, as far as Live() tells them apart.
LEMMA StatementEffect ==
    ASSUME StepFacts, NEW STATE s, DefOK(tables), StepOK(s), Accepts(s)
    PROVE  /\ s.step = "CreateTable" =>
                 /\ DOMAIN TablesAfter(s) = DOMAIN tables \cup {s.table}
                 /\ \A t \in DOMAIN tables : t # s.table => TablesAfter(s)[t] = tables[t]
                 /\ TablesAfter(s)[s.table].columns = RenderColumns(s.def.columns)
                 /\ DOMAIN TablesAfter(s)[s.table].indices = {}
           /\ s.step = "AlterTable" =>
                 Exchanged(tables, TablesAfter(s), s.table, AlteredColumns(tables[s.table], s),
                           DOMAIN AlteredIndices(tables[s.table], s))
           /\ s.step = "CreateIndex" =>
                 Exchanged(tables, TablesAfter(s), s.table, tables[s.table].columns,
                           DOMAIN tables[s.table].indices \cup {s.index})
           /\ s.step = "DropIndex" =>
                 Exchanged(tables, TablesAfter(s), s.table, tables[s.table].columns,
                           DOMAIN tables[s.table].indices \ {s.index})
<1> DEFINE R == TablesAfter(s)
           x == s.table
           d == tables[x]
<1>1. ASSUME x \in DOMAIN tables, NEW e, R = With(tables, x, e)
      PROVE  Exchanged(tables, R, x, e.columns, DOMAIN e.indices)
  <2>1. /\ DOMAIN R = DOMAIN tables /\ R[x] = e
        /\ \A t \in DOMAIN tables : t # x => R[t] = tables[t]
    BY <1>1, Zenon DEF With
  <2> HIDE DEF R, x
  <2> QED BY <2>1, Zenon DEF Exchanged
<1>2. ASSUME x \in DOMAIN tables, NEW f
      PROVE  [d EXCEPT !.indices = f].columns = d.columns /\ [d EXCEPT !.indices = f].indices = f
  <2>1. d = [columns |-> d.columns, pk |-> d.pk, indices |-> d.indices]
    BY <1>2, Zenon DEF DefOK, TableOK
  <2> HIDE DEF d
  <2> QED BY <2>1, Zenon
<1>3. CASE s.step = "CreateTable"
  <2> DEFINE e == [s.def EXCEPT !.columns = RenderColumns(@), !.indices = NoIndices]
  <2>1. R = With(tables, x, e)
    BY <1>3, Zenon DEF StepFacts, TablesAfterIsFact
  <2>2. s.def = [columns |-> s.def.columns, pk |-> s.def.pk, indices |-> s.def.indices]
    BY <1>3, Zenon DEF StepOK, TableOK
  <2>3. e.columns = RenderColumns(s.def.columns) /\ e.indices = NoIndices
    BY <2>2, Zenon
  <2>4. DOMAIN e.indices = {}
    BY <2>3, Zenon DEF NoIndices
  <2> HIDE DEF e, R
  <2>5. /\ DOMAIN R = DOMAIN tables \cup {x} /\ R[x] = e
        /\ \A t \in DOMAIN tables : t # x => R[t] = tables[t]
    BY <2>1, Zenon DEF With
  <2> QED BY <1>3, <2>3, <2>4, <2>5, Zenon DEF R
<1>4. CASE s.step = "AlterTable"
  <2>1. R = With(tables, x, Altered(d, s)) /\ x \in DOMAIN tables
    BY <1>4, Zenon DEF Accepts, StepFacts, TablesAfterIsFact
  <2>2. Altered(d, s).columns = AlteredColumns(d, s) /\ Altered(d, s).indices = AlteredIndices(d, s)
    BY Zenon DEF Altered
  <2>3. Exchanged(tables, R, x, Altered(d, s).columns, DOMAIN Altered(d, s).indices)
    BY <1>1, <2>1, Zenon
  <2> QED BY ONLY <1>4, <2>2, <2>3, Zenon DEF R, x, d
<1>5. CASE s.step = "CreateIndex"
  <2> DEFINE f == With(d.indices, s.index, s.def)
             e == [d EXCEPT !.indices = f]
  <2>1. R = With(tables, x, e) /\ x \in DOMAIN tables
    BY <1>5, Zenon DEF Accepts, StepFacts, TablesAfterIsFact
  <2>2. DOMAIN f = DOMAIN d.indices \cup {s.index}
    BY Zenon DEF With
  <2>3. e.columns = d.columns /\ e.indices = f
    BY <1>2, <2>1, Zenon
  <2>4. Exchanged(tables, R, x, e.columns, DOMAIN e.indices)
    BY <1>1, <2>1, Zenon
  <2> HIDE DEF e, f
  <2>5. Exchanged(tables, R, x, d.columns, DOMAIN d.indices \cup {s.index})
    BY ONLY <2>2, <2>3, <2>4, Zenon
  <2> QED BY ONLY <1>5, <2>5, Zenon DEF R, x, d
<1>6. CASE s.step = "DropIndex"
  <2> DEFINE f == Without(d.indices, {s.index})
             e == [d EXCEPT !.indices = f]
  <2>1. R = With(tables, x, e) /\ x \in DOMAIN tables
    BY <1>6, Zenon DEF Accepts, StepFacts, TablesAfterIsFact
  <2>2. DOMAIN f = DOMAIN d.indices \ {s.index}
    BY Zenon DEF Without
  <2>3. e.columns = d.columns /\ e.indices = f
    BY <1>2, <2>1, Zenon
  <2>4. Exchanged(tables, R, x, e.columns, DOMAIN e.indices)
    BY <1>1, <2>1, Zenon
  <2> HIDE DEF e, f
  <2>5. Exchanged(tables, R, x, d.columns, DOMAIN d.indices \ {s.index})
    BY ONLY <2>2, <2>3, <2>4, Zenon
  <2> QED BY ONLY <1>6, <2>5, Zenon DEF R, x, d
<1> HIDE DEF R, d
<1> QED
  <2>1. s.step \in {"CreateTable", "AlterTable", "CreateIndex", "DropIndex"} \/
        s.step \notin {"CreateTable", "AlterTable", "CreateIndex", "DropIndex"}
    BY Zenon
  <2> QED BY <1>3, <1>4, <1>5, <1>6, <2>1, Zenon DEF R, d

\* Every statement leaves tables as the database describes them.
LEMMA DrawnAfter ==
    ASSUME StepFacts, NEW STATE h, DefOK(tables), StepOK(h), Accepts(h), Drawn(tables),
           h.step # "AlterIndex", h.step = "CreateIndex" => h.table \notin Temporaries,
           h.step = "RenameTable" => h.new \notin Temporaries
    PROVE  Drawn(TablesAfter(h))
<1> DEFINE R == TablesAfter(h)
           x == h.table
           Fine(t, d) == (t \in Temporaries => DOMAIN d.indices = {}) /\ d.columns = RenderColumns(d.columns)
<1>1. ASSUME NEW def
      PROVE  Drawn(def) <=> \A t \in DOMAIN def : Fine(t, def[t])
  BY Zenon DEF Drawn, Bare, Rendered
<1>2. SUFFICES \A t \in DOMAIN R : Fine(t, R[t])
  BY <1>1, Zenon
<1>3. \A t \in DOMAIN tables : Fine(t, tables[t])
  BY <1>1, Zenon
<1>4. ASSUME x \in DOMAIN tables, NEW columns, NEW indices, Exchanged(tables, R, x, columns, indices),
             columns = RenderColumns(columns), x \in Temporaries => indices = {}
      PROVE  \A t \in DOMAIN R : Fine(t, R[t])
  <2> HIDE DEF R, x
  <2> QED BY <1>3, <1>4, Zenon DEF Exchanged
<1>5. CASE h.step = "CreateTable"
  <2>1. /\ DOMAIN R = DOMAIN tables \cup {x}
        /\ \A t \in DOMAIN tables : t # x => R[t] = tables[t]
        /\ R[x].columns = RenderColumns(h.def.columns)
        /\ DOMAIN R[x].indices = {}
    BY <1>5, StatementEffect, Zenon
  <2>2. RenderColumns(RenderColumns(h.def.columns)) = RenderColumns(h.def.columns)
    BY <1>5, RenderedTwice, Zenon DEF StepOK, TableOK
  <2> HIDE DEF R
  <2> QED BY <1>3, <2>1, <2>2, Zenon
<1>6. CASE h.step = "DropTables"
  <2>1. R = Without(tables, h.names)
    BY <1>6, Zenon DEF StepFacts, TablesAfterIsFact
  <2> HIDE DEF R
  <2> QED BY <1>3, <2>1, Zenon DEF Without
<1>7. CASE h.step = "AlterTable"
  <2>1. /\ x \in DOMAIN tables /\ TableOK(x, tables[x]) /\ TableOK(x, h.def)
        /\ h.add \cup h.alter \subseteq DOMAIN h.def.columns
    BY <1>7, Zenon DEF Accepts, DefOK, StepOK
  <2>2. Exchanged(tables, R, x, AlteredColumns(tables[x], h), DOMAIN AlteredIndices(tables[x], h))
    BY <1>7, StatementEffect, Zenon
  <2>3. AlteredColumns(tables[x], h) = RenderColumns(AlteredColumns(tables[x], h))
    BY <1>3, <2>1, AlteredRendered
  <2>4. x \in Temporaries => DOMAIN AlteredIndices(tables[x], h) = {}
    BY <1>3, <2>1, Zenon DEF AlteredIndices, Without
  <2> QED BY <1>4, <2>1, <2>2, <2>3, <2>4, Zenon
<1>8. CASE h.step = "RenameTable"
  <2>1. R = With(Without(tables, {x}), h.new, tables[x]) /\ x \in DOMAIN tables
    BY <1>8, Zenon DEF Accepts, StepFacts, TablesAfterIsFact
  <2>2. /\ DOMAIN R = (DOMAIN tables \ {x}) \cup {h.new} /\ R[h.new] = tables[x]
        /\ \A t \in DOMAIN tables \ {x} : t # h.new => R[t] = tables[t]
    BY <2>1, Zenon DEF With, Without
  <2>3. h.new \notin Temporaries /\ Fine(x, tables[x])
    BY <1>3, <1>8, <2>1, Zenon
  <2>4. Fine(h.new, R[h.new])
    BY <2>2, <2>3, Zenon
  <2> HIDE DEF R, x, Fine
  <2>5. ASSUME NEW t \in DOMAIN R, t # h.new
        PROVE  Fine(t, R[t])
    BY <1>3, <2>2, <2>5, Zenon
  <2> QED BY <2>4, <2>5, Zenon
<1>9. CASE h.step = "CreateIndex"
  <2>1. Exchanged(tables, R, x, tables[x].columns, DOMAIN tables[x].indices \cup {h.index})
    BY <1>9, StatementEffect, Zenon
  <2>2. x \in DOMAIN tables /\ x \notin Temporaries
    BY <1>9, Zenon DEF Accepts
  <2> QED BY <1>3, <1>4, <2>1, <2>2, Zenon
<1>10. CASE h.step = "DropIndex"
  <2>1. Exchanged(tables, R, x, tables[x].columns, DOMAIN tables[x].indices \ {h.index})
    BY <1>10, StatementEffect, Zenon
  <2>2. x \in DOMAIN tables
    BY <1>10, Zenon DEF Accepts
  <2> QED BY <1>3, <1>4, <2>1, <2>2, Zenon
<1>11. CASE h.step \in {"CopyRows", "ForeignKeys"}
  <2>1. R = tables
    BY <1>11, Zenon DEF StepFacts, TablesAfterIsFact
  <2> QED BY <1>3, <2>1, Zenon
<1> HIDE DEF R, x, Fine
<1> QED
  <2>1. h.step \in {"CreateTable", "DropTables", "AlterTable", "RenameTable", "CreateIndex", "DropIndex",
                    "CopyRows", "ForeignKeys"}
    BY Zenon DEF StepOK
  <2> QED BY <1>5, <1>6, <1>7, <1>8, <1>9, <1>10, <1>11, <2>1, Zenon

-----------------------------------------------------------------------------
(* The migrations that can be undone.                                      *)

\* A migration that succeeded becomes the last one.
LEMMA HistoryGrows ==
    ASSUME NEW X, NEW u \in Seq(X), NEW g, NEW def, History(u, g.before.def), GoalBare(g), g.clean,
           Matches(def, g.after.def)
    PROVE  History(<<g>> \o u, def)
<1> DEFINE v == <<g>> \o u
           n == Len(u)
<1>1. n \in Nat /\ DOMAIN u = 1 .. n /\ (u # <<>> <=> n # 0)
  OBVIOUS
<1>2. DOMAIN v = 1 .. n + 1 /\ v[1] = g /\ \A k \in 2 .. n + 1 : v[k] = u[k - 1]
  OBVIOUS
<1> HIDE DEF v, n
<1>3. \A k \in 1 .. n : k + 1 \in 2 .. n + 1 /\ (k + 1) - 1 = k /\ k + 1 \in 1 .. n + 1
  BY <1>1
<1>4. \A k \in 1 .. n : v[k + 1] = u[k]
  BY <1>2, <1>3, Zenon
<1>5. \A k \in 1 .. n + 1 : k = 1 \/ (k - 1 \in 1 .. n /\ (k - 1) + 1 = k)
  BY <1>1
<1>6. v # <<>> /\ v[1].clean => Matches(def, v[1].after.def)
  BY <1>2, Zenon
<1>7. \A k \in DOMAIN v : GoalBare(v[k])
  <2>1. \A k \in 1 .. n : GoalBare(u[k])
    BY <1>1, Zenon DEF History
  <2>2. ASSUME NEW k \in 1 .. n + 1
        PROVE  GoalBare(v[k])
    <3>1. CASE k = 1
      BY <1>2, <3>1, Zenon
    <3>2. CASE k - 1 \in 1 .. n /\ (k - 1) + 1 = k
      <4> DEFINE i == k - 1
      <4>1. i \in 1 .. n /\ i + 1 = k
        BY <3>2, Zenon
      <4> HIDE DEF i
      <4>2. v[k] = u[i]
        BY <1>4, <4>1, Zenon
      <4> QED BY <2>1, <4>1, <4>2, Zenon
    <3> QED BY <1>5, <3>1, <3>2, Zenon
  <2> QED BY <1>2, <2>2, Zenon
<1>8. ASSUME NEW k \in DOMAIN v, k + 1 \in DOMAIN v, v[k + 1].clean
      PROVE  v[k].clean /\ Matches(v[k].before.def, v[k + 1].after.def)
  <2>1. k \in 1 .. n
    BY <1>1, <1>2, <1>8
  <2>2. v[k + 1] = u[k]
    BY <1>4, <2>1, Zenon
  <2>3. CASE k = 1
    <3>1. u # <<>> /\ u[1].clean /\ v[k] = g
      BY <1>1, <1>2, <1>8, <2>1, <2>2, <2>3
    <3>2. Matches(g.before.def, u[1].after.def)
      BY <3>1, Zenon DEF History
    <3> QED BY <2>2, <2>3, <3>1, <3>2, Zenon
  <2>4. CASE k # 1
    <3> DEFINE i == k - 1
    <3>1. i \in 1 .. n /\ i + 1 = k
      BY <1>1, <2>1, <2>4
    <3> HIDE DEF i
    <3>2. v[k] = u[i] /\ v[k + 1] = u[i + 1]
      BY <1>4, <2>2, <3>1, Zenon
    <3>3. i \in DOMAIN u /\ i + 1 \in DOMAIN u /\ u[i + 1].clean
      BY <1>1, <1>8, <2>1, <3>1, <3>2, Zenon
    <3>4. u[i].clean /\ Matches(u[i].before.def, u[i + 1].after.def)
      BY <3>3, Zenon DEF History
    <3> QED BY <3>2, <3>4, Zenon
  <2> QED BY <2>3, <2>4, Zenon
<1>9. History(v, def)
  BY <1>6, <1>7, <1>8, Zenon DEF History
<1> QED BY <1>9, Zenon DEF v

\* The last migration is taken from the others.
LEMMA HistoryShrinks ==
    ASSUME NEW X, NEW u \in Seq(X), u # <<>>, NEW def, History(u, def)
    PROVE  /\ History(Tail(u), u[1].before.def)
           /\ Tail(u) # <<>> /\ Tail(u)[1].clean => u[1].clean
           /\ u[1].clean => Matches(def, u[1].after.def)
           /\ GoalBare(u[1])
<1> DEFINE v == Tail(u)
           n == Len(u)
<1>1. n \in Nat /\ DOMAIN u = 1 .. n /\ n # 0 /\ 1 \in DOMAIN u
  OBVIOUS
<1>2. DOMAIN v = 1 .. n - 1 /\ (v # <<>> => n # 1) /\ \A k \in 1 .. n - 1 : v[k] = u[k + 1]
  <2>1. v \in Seq(X) /\ Len(v) = n - 1 /\ \A k \in 1 .. n - 1 : v[k] = u[k + 1]
    OBVIOUS
  <2> HIDE DEF v, n
  <2>2. DOMAIN v = 1 .. n - 1 /\ (v # <<>> => Len(v) # 0)
    BY <2>1
  <2> QED BY <1>1, <2>1, <2>2
<1> HIDE DEF v, n
<1>3. \A k \in 1 .. n - 1 : k \in 1 .. n /\ k + 1 \in 1 .. n
  BY <1>1
<1>4. n # 1 => 1 \in 1 .. n - 1 /\ 2 \in 1 .. n /\ 1 + 1 = 2
  BY <1>1
<1>5. n # 1 => v[1] = u[2]
  BY <1>2, <1>4, Zenon
<1>6. n # 1 /\ u[2].clean => u[1].clean /\ Matches(u[1].before.def, u[2].after.def)
  BY <1>1, <1>4, Zenon DEF History
<1>7. v # <<>> /\ v[1].clean => u[1].clean /\ Matches(u[1].before.def, v[1].after.def)
  BY <1>2, <1>5, <1>6, Zenon
<1>8. \A k \in DOMAIN v : GoalBare(v[k])
  BY <1>1, <1>2, <1>3, Zenon DEF History
<1>9. ASSUME NEW k \in DOMAIN v, k + 1 \in DOMAIN v, v[k + 1].clean
      PROVE  v[k].clean /\ Matches(v[k].before.def, v[k + 1].after.def)
  <2> DEFINE i == k + 1
  <2>1. i \in 1 .. n - 1 /\ k \in 1 .. n - 1
    BY <1>2, <1>9, Zenon
  <2>2. v[k] = u[i] /\ v[i] = u[i + 1] /\ i \in DOMAIN u /\ i + 1 \in DOMAIN u /\ v[i].clean
    BY <1>1, <1>2, <1>3, <1>9, <2>1, Zenon
  <2> HIDE DEF i
  <2>3. u[i].clean /\ Matches(u[i].before.def, u[i + 1].after.def)
    BY <2>2, Zenon DEF History
  <2>4. v[k].clean /\ Matches(v[k].before.def, v[i].after.def)
    BY <2>2, <2>3, Zenon
  <2> QED BY <2>4, Zenon DEF i
<1>10. History(v, u[1].before.def)
  BY <1>7, <1>8, <1>9, Zenon DEF History
<1>11. (u[1].clean => Matches(def, u[1].after.def)) /\ GoalBare(u[1])
  BY <1>1, Zenon DEF History
<1> QED BY <1>7, <1>10, <1>11, Zenon DEF v

\* The schema is the one the last migration led to, but rendered once more.
LEMMA HistoryMoves ==
    ASSUME StepFacts, NEW u, \A k \in DOMAIN u : GoalOK(u[k]), NEW X, u \in Seq(X),
           NEW a, NEW b, Matches(a, b), History(u, b)
    PROVE  History(u, a)
<1>1. u # <<>> => 1 \in DOMAIN u
  OBVIOUS
<1>2. ASSUME u # <<>>, u[1].clean
      PROVE  Matches(a, u[1].after.def)
  <2>1. DefOK(u[1].after.def)
    BY <1>1, <1>2, Zenon DEF GoalOK, Paired, SchemaOK
  <2>2. Matches(b, u[1].after.def)
    BY <1>2, Zenon DEF History
  <2> QED BY <2>1, <2>2, MatchesThrough, Zenon
<1> QED BY <1>2, Zenon DEF History

=============================================================================
