---------------------------- MODULE SqlDiffProofs ---------------------------
(***************************************************************************)
(* What the steps of a migration are: the lists that SqlSchemaDiffer makes *)
(* of two schemas, without duplicates and in the order of                  *)
(* SqlSchemaDiff::into_steps, and the statements that SQLite gets instead. *)
(***************************************************************************)
EXTENDS SqlPlans, SqlStepProofs

\* Time for the provers.
USE SMTT(60)

-----------------------------------------------------------------------------
(* Finite sets.                                                            *)

\* The image of a finite set is finite.
LEMMA FiniteImage ==
    ASSUME NEW S, IsFiniteSet(S), NEW f, DOMAIN f = S
    PROVE  IsFiniteSet({f[x] : x \in S})
<1> DEFINE T == {f[x] : x \in S}
<1>1. PICK q \in Seq(S) : \A s \in S : \E n \in 1 .. Len(q) : q[n] = s
  BY Zenon DEF IsFiniteSet
<1> DEFINE r == [i \in 1 .. Len(q) |-> f[q[i]]]
<1>2. r \in Seq(T) /\ Len(r) = Len(q)
  OBVIOUS
<1>3. \A s \in T : \E n \in 1 .. Len(r) : r[n] = s
  BY <1>1, <1>2
<1> HIDE DEF r, T
<1>4. IsFiniteSet(T)
  BY <1>2, <1>3, Zenon DEF IsFiniteSet
<1> QED BY <1>4, Zenon DEF T

-----------------------------------------------------------------------------
(* Schemas.                                                                *)

\* Schema() keeps the tables of the definition, each once.
LEMMA SchemaLists ==
    ASSUME Inductive, NEW order, NEW def, NEW S, Lists(order, S), DOMAIN def \subseteq S, DefOK(def)
    PROVE  SchemaOK(Schema(order, def)) /\ Schema(order, def).def = def
<1> DEFINE K == DOMAIN def
           r == FlattenSeq(Parts(order, K))
<1>1. Schema(order, def) = [order |-> r, def |-> def]
  BY Zenon DEF Schema, Filter, MapSeq, Parts
<1>2. Lists(r, S \cap K)
  BY ListsFiltered, Zenon
<1>3. S \cap K = K
  BY Zenon
<1>4. Lists(r, K)
  BY <1>2, <1>3, Zenon
<1> HIDE DEF r
<1> QED BY <1>1, <1>4 DEF SchemaOK

\* The schema without tables.
LEMMA EmptySchema ==
    ASSUME Inductive
    PROVE  /\ SchemaOK(Schema(<<>>, <<>>))
           /\ Schema(<<>>, <<>>).def = <<>>
           /\ DOMAIN Schema(<<>>, <<>>).def = {}
<1>1. Lists(<<>>, {})
  BY DEF Lists, Range, IsInjective
<1>2. DOMAIN <<>> = {} /\ DefOK(<<>>)
  BY DEF DefOK
<1> QED BY <1>1, <1>2, SchemaLists, Zenon

\* Introspection describes the tables that exist.
LEMMA DescribedSchema ==
    ASSUME Inductive, NEW def, DefOK(def)
    PROVE  /\ SchemaOK(Schema(DescriberOrder, def))
           /\ Schema(DescriberOrder, def).def = def
<1>1. Lists(DescriberOrder, AllTables)
  BY TableAssumption, Zenon DEF Lists, AllTables
<1>2. DOMAIN def \subseteq AllTables
  BY Zenon DEF DefOK
<1> QED BY <1>1, <1>2, SchemaLists, Zenon

\* The order of the calculator is one of all final tables.
LEMMA CalculatorLists == Lists(CalculatorOrder, FinalTables)
<1> DEFINE f == [m \in Models |-> ListTable(m)]
           ls == [i \in DOMAIN ModelOrder |-> ListTable(ModelOrder[i])]
<1>1. Lists(ModelOrder, Models)
  BY SqlAssumption, Zenon DEF Lists
<1>2. \A m, n \in Models : f[m] = f[n] => m = n
  BY Zenon DEF ListTable
<1>3. Lists([i \in DOMAIN ModelOrder |-> f[ModelOrder[i]]], {f[m] : m \in Models})
  <2> HIDE DEF f
  <2> QED BY <1>1, <1>2, ListsImage
<1>4. {f[m] : m \in Models} = ListTables
  BY Zenon DEF ListTables
<1>5. [i \in DOMAIN ModelOrder |-> f[ModelOrder[i]]] = ls
  BY SqlAssumption
<1>6. Lists(ls, ListTables)
  BY <1>3, <1>4, <1>5, Zenon
<1>7. Models \cap ListTables = {} /\ RelationTable \notin Models
  BY TableAssumption, Zenon
<1>8. RelationTable \notin ListTables
  BY Zenon DEF ListTables, ListTable, RelationTable
<1>9. Lists(<<RelationTable>>, {RelationTable})
  BY DEF Lists, Range, IsInjective
<1>10. Lists(ModelOrder \o ls, Models \cup ListTables)
  <2> HIDE DEF ls
  <2> QED BY <1>1, <1>6, <1>7, ListsConcat, Zenon
<1>11. (Models \cup ListTables) \cap {RelationTable} = {}
  BY <1>7, <1>8, Zenon
<1>12. Lists((ModelOrder \o ls) \o <<RelationTable>>, (Models \cup ListTables) \cup {RelationTable})
  <2> HIDE DEF ls
  <2> QED BY <1>9, <1>10, <1>11, ListsConcat, Zenon
<1> QED BY <1>12, Zenon DEF CalculatorOrder, MapSeq, FinalTables

\* A datamodel has finitely many models.
LEMMA FiniteModels == IsFiniteSet(Models)
<1>1. Lists(ModelOrder, Models)
  BY SqlAssumption, Zenon DEF Lists
<1>2. /\ ModelOrder \in [1 .. Len(ModelOrder) -> Models] /\ Len(ModelOrder) \in Nat
      /\ \A m \in Models : \E i \in 1 .. Len(ModelOrder) : m = ModelOrder[i]
  BY <1>1 DEF Lists, Range
<1> QED BY <1>2 DEF IsFiniteSet

\* Every calculated table is what its name says.
LEMMA ModelTableOK ==
    ASSUME NEW dm, dm \in UNION Projects, NEW m \in DOMAIN dm.model
    PROVE  /\ TableOK(m, ModelTable(dm, m))
           /\ m \in Models
           /\ LET d == ModelTable(dm, m)
              IN  /\ d.pk \subseteq DOMAIN d.columns
                  /\ \A i \in DOMAIN d.indices :
                        Range(d.indices[i].columns) \subseteq DOMAIN d.columns
<1> DEFINE d == dm.model[m]
           names == {"id"} \cup {c \in {"field"} : d.field # None}
                        \cup {c \in {"link"} : d.link # None}
           cols == [c \in names |->
            CASE c = "id" -> Scalar(d.id, "Required")
              [] c = "field" -> Scalar(d.field, d.arity)
              [] c = "link" -> ForeignKey(dm.model[d.link].id, d.required, d.link)]
           inds == [i \in d.indexes |-> [columns |-> <<"field">>, unique |-> TRUE]]
<1>1. ModelTable(dm, m) = [columns |-> cols, pk |-> {"id"}, indices |-> inds]
  BY Zenon DEF ModelTable
<1>2. /\ m \in Models /\ DOMAIN dm.model \subseteq Models
      /\ d.id \in Types /\ d.field \in Types \cup {None} /\ d.arity \in Arities
      /\ d.link \in DOMAIN dm.model \cup {None} /\ d.required \in Arities
      /\ IsFiniteSet(d.indexes) /\ (d.indexes # {} => d.field # None)
      /\ \A x \in DOMAIN dm.model : dm.model[x].id \in Types
  BY ProjectAssumption, Zenon DEF WellFormed
<1>3. IsFiniteSet(names) /\ "id" \in names /\ (d.field # None => "field" \in names)
  <2>1. IsFiniteSet({"id"}) /\ IsFiniteSet({"field"}) /\ IsFiniteSet({"link"})
    BY FiniteFew, Zenon
  <2>2. /\ {c \in {"field"} : d.field # None} \subseteq {"field"}
        /\ {c \in {"link"} : d.link # None} \subseteq {"link"}
    BY Zenon
  <2>3. /\ IsFiniteSet({c \in {"field"} : d.field # None})
        /\ IsFiniteSet({c \in {"link"} : d.link # None})
    BY <2>1, <2>2, FiniteSubset, Zenon
  <2> QED BY <2>1, <2>3, FiniteUnion, Zenon
<1>4. cols \in [names -> Column]
  <2> SUFFICES ASSUME NEW c \in names
               PROVE  cols[c] \in Column
    BY Zenon
  <2>1. "Required" \in Arities
    BY Zenon DEF Arities
  <2>2. CASE c = "id"
    BY <1>2, <2>1, <2>2, Zenon DEF Column, Scalar
  <2>3. CASE c = "field"
    <3>1. d.field \in Types
      BY <1>2, <2>3, Zenon
    <3> QED BY <1>2, <2>3, <3>1, Zenon DEF Column, Scalar
  <2>4. CASE c = "link"
    <3>1. d.link \in DOMAIN dm.model
      BY <1>2, <2>4, Zenon
    <3> QED BY <1>2, <2>4, <3>1, Zenon DEF Column, ForeignKey
  <2> QED BY <2>2, <2>3, <2>4, Zenon
<1>5. Base(m) = m /\ m # RelationTable
  BY <1>2, TableAssumption, FinalBase, Zenon DEF FinalTables
<1>6. KeyOf(m) = {"id"} /\ NamesOf(m) = OwnIndexes(m) /\ IndexOf(m) = [columns |-> <<"field">>, unique |-> TRUE]
  BY <1>2, <1>5, Zenon DEF KeyOf, NamesOf, IndexOf
<1>7. d.indexes \subseteq OwnIndexes(m)
  BY Zenon DEF OwnIndexes
<1>8. inds \in [d.indexes -> {IndexOf(m)}]
  BY <1>6, Zenon
<1>9. Range(<<"field">>) = {"field"}
  BY DEF Range
<1>10. \A i \in d.indexes : inds[i].columns = <<"field">>
  BY Zenon
<1> HIDE DEF cols, inds, names, d
<1>11. TableOK(m, [columns |-> cols, pk |-> {"id"}, indices |-> inds])
  BY <1>2, <1>3, <1>4, <1>5, <1>6, <1>7, <1>8, Zenon DEF TableOK
<1> QED BY <1>1, <1>2, <1>3, <1>4, <1>8, <1>9, <1>10, <1>11

\* The table that calculate() makes for a scalar list is proper.
LEMMA ListTableOK ==
    ASSUME NEW dm, dm \in UNION Projects, NEW m \in DOMAIN dm.model
    PROVE  /\ TableOK(ListTable(m), ScalarListTable(dm, m))
           /\ ListTable(m) \in FinalTables \ (Models \cup {RelationTable})
           /\ LET d == ScalarListTable(dm, m)
              IN  d.pk \subseteq DOMAIN d.columns /\ DOMAIN d.indices = {}
<1> DEFINE names == {"nodeId", "position", "value"}
           cols == [c \in names |->
        CASE c = "nodeId" -> ForeignKey(dm.model[m].id, "Required", m)
          [] c = "position" -> Scalar("Int", "Required")
          [] c = "value" -> Scalar("String", "Required")]
<1>1. ScalarListTable(dm, m) = [columns |-> cols, pk |-> {"nodeId", "position"}, indices |-> NoIndices]
  BY Zenon DEF ScalarListTable
<1>2. m \in Models /\ dm.model[m].id \in Types
  BY ProjectAssumption, Zenon DEF WellFormed
<1>3. cols \in [names -> Column]
  <2>1. "Required" \in Arities /\ "Int" \in Types /\ "String" \in Types
    BY Zenon DEF Arities, Types
  <2> SUFFICES ASSUME NEW c \in names
               PROVE  cols[c] \in Column
    BY Zenon
  <2>2. CASE c = "nodeId"
    BY <1>2, <2>1, <2>2, Zenon DEF Column, ForeignKey
  <2>3. CASE c = "position"
    BY <2>1, <2>3, Zenon DEF Column, Scalar
  <2>4. CASE c = "value"
    BY <2>1, <2>4, Zenon DEF Column, Scalar
  <2> QED BY <2>2, <2>3, <2>4, Zenon
<1>4. IsFiniteSet(names)
  <2>1. IsFiniteSet({"nodeId"} \cup {"position"})
    BY FiniteFew, FiniteUnion, Zenon
  <2>2. IsFiniteSet(({"nodeId"} \cup {"position"}) \cup {"value"})
    BY <2>1, FiniteFew, FiniteUnion, Zenon
  <2>3. names = ({"nodeId"} \cup {"position"}) \cup {"value"}
    BY Zenon
  <2> QED BY <2>2, <2>3, Zenon
<1>5. /\ ListTable(m) \in FinalTables /\ ListTable(m) \notin Models
      /\ ListTable(m) # RelationTable
  BY <1>2, TableAssumption DEF FinalTables, ListTables, ListTable, RelationTable
<1>6. Base(ListTable(m)) = ListTable(m) /\ KeyOf(ListTable(m)) = {"nodeId", "position"}
  BY <1>5, FinalBase, Zenon DEF KeyOf
<1>7. DOMAIN NoIndices = {} /\ IsFiniteSet({}) /\ NoIndices = [i \in {} |-> None]
  BY FiniteFew, Zenon DEF NoIndices
<1>8. NoIndices \in [{} -> {IndexOf(ListTable(m))}]
  BY <1>7, Zenon
<1>9. cols = [c \in DOMAIN cols |-> cols[c]] /\ DOMAIN cols = names
  BY Zenon
<1> HIDE DEF cols
<1>10. TableOK(ListTable(m), [columns |-> cols, pk |-> {"nodeId", "position"}, indices |-> NoIndices])
  BY <1>3, <1>4, <1>6, <1>7, <1>8, <1>9, Zenon DEF TableOK
<1> QED BY <1>1, <1>5, <1>7, <1>9, <1>10

\* So is the one for a many-to-many relation.
LEMMA RelationTableOK ==
    ASSUME NEW dm, dm \in UNION Projects, dm.manyToMany
    PROVE  /\ TableOK(RelationTable, ManyToManyTable(dm))
           /\ LET d == ManyToManyTable(dm)
              IN  /\ d.pk \subseteq DOMAIN d.columns
                  /\ \A i \in DOMAIN d.indices :
                        Range(d.indices[i].columns) \subseteq DOMAIN d.columns
<1> DEFINE cols == [m \in DOMAIN dm.model |-> ForeignKey(dm.model[m].id, "Required", m)]
           inds == [i \in {"AB_unique"} |-> [columns |-> ModelOrder, unique |-> TRUE]]
<1>1. ManyToManyTable(dm) = [columns |-> cols, pk |-> {}, indices |-> inds]
  BY Zenon DEF ManyToManyTable
<1>2. DOMAIN dm.model = Models /\ \A m \in Models : dm.model[m].id \in Types
  BY ProjectAssumption, Zenon DEF WellFormed
<1>3. cols \in [Models -> Column]
  BY <1>2, Zenon DEF Column, ForeignKey, Arities
<1>4. RelationTable \in FinalTables /\ RelationTable \notin Models
  BY TableAssumption, Zenon DEF FinalTables
<1>5. /\ Base(RelationTable) = RelationTable /\ KeyOf(RelationTable) = {}
      /\ NamesOf(RelationTable) = {"AB_unique"}
      /\ IndexOf(RelationTable) = [columns |-> ModelOrder, unique |-> TRUE]
  BY <1>4, FinalBase, Zenon DEF KeyOf, NamesOf, IndexOf
<1>6. inds \in [{"AB_unique"} -> {IndexOf(RelationTable)}] /\ IsFiniteSet({"AB_unique"})
  BY <1>5, FiniteFew, Zenon
<1>7. \A i \in {"AB_unique"} : inds[i].columns = ModelOrder
  BY Zenon
<1>8. Range(ModelOrder) = Models
  BY SqlAssumption, Zenon
<1> HIDE DEF cols, inds
<1>9. TableOK(RelationTable, [columns |-> cols, pk |-> {}, indices |-> inds])
  BY <1>3, <1>5, <1>6, FiniteModels, Zenon DEF TableOK
<1> QED BY <1>1, <1>3, <1>6, <1>7, <1>8, <1>9

\* SqlSchemaCalculator::calculate makes such a schema.
LEMMA CalculateOK ==
    ASSUME Inductive, NEW dm, dm \in UNION Projects
    PROVE  Calculated(Calculate(dm))
<1> DEFINE lists == {ListTable(m) : m \in ScalarLists(dm)}
           S == DOMAIN dm.model \cup lists \cup {x \in {RelationTable} : dm.manyToMany}
           D(t) == IF t \in Models THEN ModelTable(dm, t)
                   ELSE IF t = RelationTable THEN ManyToManyTable(dm)
                   ELSE ScalarListTable(dm, t[1])
           def == [t \in S |-> D(t)]
           Good(t, d) == /\ TableOK(t, d)
                         /\ d.pk \subseteq DOMAIN d.columns
                         /\ \A i \in DOMAIN d.indices :
                               Range(d.indices[i].columns) \subseteq DOMAIN d.columns
<1>1. Calculate(dm) = Schema(CalculatorOrder, def)
  BY Zenon DEF Calculate
<1>2. ASSUME NEW t \in S
      PROVE  t \in FinalTables /\ Good(t, D(t))
  <2>1. DOMAIN dm.model \subseteq Models
    BY ProjectAssumption, Zenon DEF WellFormed
  <2>2. CASE t \in DOMAIN dm.model
    <3>1. t \in Models /\ t \in FinalTables /\ D(t) = ModelTable(dm, t)
      BY <2>1, <2>2, Zenon DEF FinalTables
    <3>2. Good(t, ModelTable(dm, t))
      BY <2>2, ModelTableOK, Zenon
    <3> QED BY <3>1, <3>2, Zenon
  <2>3. CASE t \in lists
    <3>1. PICK m \in DOMAIN dm.model : t = ListTable(m)
      BY <2>3, Zenon DEF ScalarLists
    <3>2. /\ TableOK(ListTable(m), ScalarListTable(dm, m))
          /\ ListTable(m) \in FinalTables \ (Models \cup {RelationTable})
          /\ ScalarListTable(dm, m).pk \subseteq DOMAIN ScalarListTable(dm, m).columns
          /\ DOMAIN ScalarListTable(dm, m).indices = {}
      BY ListTableOK, Zenon
    <3>3. t[1] = m
      BY <3>1, Zenon DEF ListTable
    <3>4. D(t) = ScalarListTable(dm, m) /\ t \in FinalTables
      BY <3>1, <3>2, <3>3, Zenon
    <3>5. Good(t, ScalarListTable(dm, m))
      BY <3>1, <3>2, Zenon
    <3> QED BY <3>4, <3>5, Zenon
  <2>4. CASE t = RelationTable /\ dm.manyToMany
    <3>1. t \in FinalTables /\ t \notin Models /\ D(t) = ManyToManyTable(dm)
      BY <2>4, TableAssumption, Zenon DEF FinalTables
    <3>2. Good(t, ManyToManyTable(dm))
      BY <2>4, RelationTableOK, Zenon
    <3> QED BY <3>1, <3>2, Zenon
  <2> QED BY <2>2, <2>3, <2>4, Zenon
<1> HIDE DEF D, S
<1>3. DOMAIN def = S /\ \A t \in S : def[t] = D(t)
  BY Zenon
<1> HIDE DEF def, Good
<1>4. DOMAIN def \subseteq FinalTables /\ \A t \in DOMAIN def : Good(t, def[t])
  BY <1>2, <1>3, Zenon
<1>5. DefOK(def)
  BY <1>4, Zenon DEF DefOK, AllTables, Good
<1>6. SchemaOK(Schema(CalculatorOrder, def)) /\ Schema(CalculatorOrder, def).def = def
  BY <1>4, <1>5, CalculatorLists, SchemaLists, Zenon
<1>7. \A t \in DOMAIN def :
          /\ def[t].pk \subseteq DOMAIN def[t].columns
          /\ \A i \in DOMAIN def[t].indices : Range(def[t].indices[i].columns) \subseteq DOMAIN def[t].columns
  BY <1>4, Zenon DEF Good
<1> DEFINE sch == Schema(CalculatorOrder, def)
<1> HIDE DEF sch
<1>8. SchemaOK(sch) /\ sch.def = def
  BY <1>6, Zenon DEF sch
<1>9. Calculated(sch)
  BY <1>4, <1>7, <1>8, Zenon DEF Calculated
<1> QED BY <1>1, <1>9, Zenon DEF sch

-----------------------------------------------------------------------------
(* SqlSchemaDiffer: the steps as lists.                                    *)

\* Tables that both schemas have, in the order of the first.
LEMMA CommonLists ==
    ASSUME Inductive, NEW from, NEW to, SchemaOK(from), SchemaOK(to)
    PROVE  Lists(Common(from, to), Both(from, to))
<1>1. Common(from, to) = FlattenSeq(Parts(from.order, DOMAIN to.def))
  BY Zenon DEF Common, Filter, MapSeq, Parts
<1>2. Lists(from.order, DOMAIN from.def)
  BY Zenon DEF SchemaOK
<1> QED BY <1>1, <1>2, ListsFiltered DEF Both

\* drop_tables() lists the tables to drop, each once.
LEMMA DropTablesList ==
    ASSUME Inductive, NEW from, NEW to, SchemaOK(from), SchemaOK(to)
    PROVE  Lists(Diff(from, to).dropTables, DropSteps(from, to))
<1> DEFINE K == DOMAIN from.def \ DOMAIN to.def
           o == from.order
           F == Filter(o, LAMBDA t : t \notin DOMAIN to.def)
           f == [t \in K |-> DropTables({t})]
<1>1. Lists(o, DOMAIN from.def)
  BY Zenon DEF SchemaOK
<1>2. \A i \in DOMAIN o : o[i] \in DOMAIN from.def
  BY <1>1 DEF Lists
<1>3. F = FlattenSeq(Parts(o, K))
  <2>1. [i \in DOMAIN o |-> IF o[i] \notin DOMAIN to.def THEN <<o[i]>> ELSE <<>>] = Parts(o, K)
    BY <1>2, Zenon DEF Parts
  <2> QED BY <2>1, Zenon DEF Filter, MapSeq
<1>4. DOMAIN from.def \cap K = K
  BY Zenon
<1>5. Lists(FlattenSeq(Parts(o, K)), DOMAIN from.def \cap K)
  BY <1>1, ListsFiltered, Zenon
<1>6. Lists(F, K)
  BY <1>3, <1>4, <1>5, Zenon
<1> HIDE DEF F, K
<1>7. \A x, y \in K : f[x] = f[y] => x = y
  <2> SUFFICES ASSUME NEW x \in K, NEW y \in K, DropTables({x}) = DropTables({y})
               PROVE  x = y
    BY Zenon
  <2>1. DropTables({x}).names = DropTables({y}).names
    BY Zenon
  <2> QED BY <2>1, Zenon DEF DropTables
<1>8. \A i \in DOMAIN F : F[i] \in K
  BY <1>6 DEF Lists
<1>9. [i \in DOMAIN F |-> f[F[i]]] = MapSeq(LAMBDA t : DropTables({t}), F)
  BY <1>8, Zenon DEF MapSeq
<1>10. {f[x] : x \in K} = DropSteps(from, to)
  BY Zenon DEF DropSteps, K
<1> HIDE DEF f
<1>11. Lists([i \in DOMAIN F |-> f[F[i]]], {f[x] : x \in K})
  BY <1>6, <1>7, ListsImage
<1>12. Diff(from, to).dropTables = MapSeq(LAMBDA t : DropTables({t}), F)
  BY Zenon DEF Diff, F
<1> QED BY <1>9, <1>10, <1>11, <1>12, Zenon

\* create_tables() lists the tables to create, each once.
LEMMA CreateTablesList ==
    ASSUME Inductive, NEW from, NEW to, SchemaOK(from), SchemaOK(to)
    PROVE  Lists(Diff(from, to).createTables, CreateSteps(from, to))
<1> DEFINE K == DOMAIN to.def \ DOMAIN from.def
           o == to.order
           F == Filter(o, LAMBDA t : t \notin DOMAIN from.def)
           f == [t \in K |-> CreateTable(t, to.def[t])]
<1>1. Lists(o, DOMAIN to.def)
  BY Zenon DEF SchemaOK
<1>2. \A i \in DOMAIN o : o[i] \in DOMAIN to.def
  BY <1>1 DEF Lists
<1>3. F = FlattenSeq(Parts(o, K))
  <2>1. [i \in DOMAIN o |-> IF o[i] \notin DOMAIN from.def THEN <<o[i]>> ELSE <<>>] = Parts(o, K)
    BY <1>2, Zenon DEF Parts
  <2> QED BY <2>1, Zenon DEF Filter, MapSeq
<1>4. DOMAIN to.def \cap K = K
  BY Zenon
<1>5. Lists(FlattenSeq(Parts(o, K)), DOMAIN to.def \cap K)
  BY <1>1, ListsFiltered, Zenon
<1>6. Lists(F, K)
  BY <1>3, <1>4, <1>5, Zenon
<1> HIDE DEF F, K
<1>7. \A x, y \in K : f[x] = f[y] => x = y
  <2> SUFFICES ASSUME NEW x \in K, NEW y \in K, CreateTable(x, to.def[x]) = CreateTable(y, to.def[y])
               PROVE  x = y
    BY Zenon
  <2>1. CreateTable(x, to.def[x]).table = CreateTable(y, to.def[y]).table
    BY Zenon
  <2> QED BY <2>1, Zenon DEF CreateTable
<1>8. \A i \in DOMAIN F : F[i] \in K
  BY <1>6 DEF Lists
<1>9. [i \in DOMAIN F |-> f[F[i]]] = MapSeq(LAMBDA t : CreateTable(t, to.def[t]), F)
  BY <1>8, Zenon DEF MapSeq
<1>10. {f[x] : x \in K} = CreateSteps(from, to)
  BY Zenon DEF CreateSteps, K
<1> HIDE DEF f
<1>11. Lists([i \in DOMAIN F |-> f[F[i]]], {f[x] : x \in K})
  BY <1>6, <1>7, ListsImage
<1>12. Diff(from, to).createTables = MapSeq(LAMBDA t : CreateTable(t, to.def[t]), F)
  BY Zenon DEF Diff, F
<1> QED BY <1>9, <1>10, <1>11, <1>12, Zenon

\* alter_tables() lists the tables whose columns change, each once.
LEMMA AlterTablesList ==
    ASSUME Inductive, NEW from, NEW to, SchemaOK(from), SchemaOK(to)
    PROVE  Lists(Diff(from, to).alterTables, AlterSteps(from, to))
<1> DEFINE C == Common(from, to)
           B == Both(from, to)
           f == [t \in B |-> ChangeOf(from, to, t)]
           M == [i \in DOMAIN C |-> f[C[i]]]
           S == {f[t] : t \in B}
           K == {s \in S : IsChange(s)}
<1>1. Lists(C, B)
  BY CommonLists, Zenon
<1>2. \A i \in DOMAIN C : C[i] \in B
  BY <1>1 DEF Lists
<1>3. \A x, y \in B : f[x] = f[y] => x = y
  <2> SUFFICES ASSUME NEW x \in B, NEW y \in B, ChangeOf(from, to, x) = ChangeOf(from, to, y)
               PROVE  x = y
    BY Zenon
  <2>1. ChangeOf(from, to, x).table = ChangeOf(from, to, y).table
    BY Zenon
  <2> QED BY <2>1, Zenon DEF ChangeOf, AlterTable
<1>4. Lists(M, S)
  <2> HIDE DEF f, C, B
  <2> QED BY <1>1, <1>3, ListsImage
<1>5. K = AlterSteps(from, to)
  BY Zenon DEF AlterSteps
<1>6. S \cap K = K
  BY Zenon
<1>7. AlterTables(from, to) =
        FlattenSeq([i \in DOMAIN M |-> IF IsChange(M[i]) THEN <<M[i]>> ELSE <<>>])
  <2>1. M = [i \in DOMAIN C |-> ChangeOf(from, to, C[i])]
    BY <1>2, Zenon
  <2>2. MapSeq(LAMBDA t : ChangeOf(from, to, t), C) = M
    BY <2>1, Zenon DEF MapSeq
  <2> HIDE DEF M
  <2>3. AlterTables(from, to) = Filter(MapSeq(LAMBDA t : ChangeOf(from, to, t), C), IsChange)
    BY Zenon DEF AlterTables, ChangeOf, IsChange
  <2>4. AlterTables(from, to) = Filter(M, IsChange)
    BY <2>2, <2>3, Zenon
  <2> QED BY <2>4, Zenon DEF Filter, MapSeq
<1>8. \A i \in DOMAIN M : M[i] \in S
  BY <1>2, Zenon
<1> HIDE DEF S, M, f, C, B
<1>9. [i \in DOMAIN M |-> IF IsChange(M[i]) THEN <<M[i]>> ELSE <<>>] = Parts(M, K)
  BY <1>8, Zenon DEF Parts
<1>10. Lists(FlattenSeq(Parts(M, K)), S \cap K)
  BY <1>4, ListsFiltered, Zenon
<1>11. Lists(AlterTables(from, to), K)
  BY <1>6, <1>7, <1>9, <1>10, Zenon
<1>12. Diff(from, to).alterTables = AlterTables(from, to)
  BY Zenon DEF Diff
<1> QED BY <1>5, <1>11, <1>12, Zenon

\* alter_indexes() lists the renamed indexes, each once.
LEMMA AlterIndexesList ==
    ASSUME Inductive, Enumerated, NEW from, NEW to, SchemaOK(from), SchemaOK(to)
    PROVE  Lists(AlterIndexes(from, to), RenameSteps(from, to))
<1> DEFINE C == Common(from, to)
           B == Both(from, to)
           R(t) == Renamed(from, to, t)
           In(t) == MapSeq(LAMBDA r : AlterIndex(t, r[1], r[2]), SetToSeq(R(t)))
           ss == [i \in DOMAIN C |-> In(C[i])]
           g == [t \in B |-> RenameStepsOf(from, to, t)]
<1>1. Lists(C, B)
  BY CommonLists, Zenon
<1>2. \A i \in DOMAIN C : C[i] \in B
  BY <1>1 DEF Lists
<1>3. ASSUME NEW t \in B
      PROVE  Lists(In(t), g[t])
  <2> DEFINE names == {x \in DOMAIN from.def[t].indices : Equivalents(from, to, t, x) # {}}
             Q == SetToSeq(R(t))
             h == [r \in R(t) |-> AlterIndex(t, r[1], r[2])]
  <2>1. IsFiniteSet(DOMAIN from.def[t].indices)
    BY Zenon DEF Both, SchemaOK, DefOK, TableOK
  <2>2. IsFiniteSet(names)
    BY <2>1, FiniteSubset, Zenon
  <2>3. R(t) = {<<i, CHOOSE j \in Equivalents(from, to, t, i) : TRUE>> : i \in names}
    BY Zenon DEF Renamed
  <2>4. IsFiniteSet(R(t))
    <3> HIDE DEF names
    <3> DEFINE e == [i \in names |-> <<i, CHOOSE j \in Equivalents(from, to, t, i) : TRUE>>]
    <3>1. R(t) = {e[i] : i \in names} /\ DOMAIN e = names
      BY <2>3, Zenon
    <3> HIDE DEF e
    <3> QED BY <2>2, <3>1, FiniteImage
  <2>5. Lists(Q, R(t))
    BY <2>4, Zenon DEF Enumerated
  <2>6. \A x, y \in R(t) : h[x] = h[y] => x = y
    <3> SUFFICES ASSUME NEW x \in R(t), NEW y \in R(t),
                        AlterIndex(t, x[1], x[2]) = AlterIndex(t, y[1], y[2])
                 PROVE  x = y
      BY Zenon
    <3>1. AlterIndex(t, x[1], x[2]).index = AlterIndex(t, y[1], y[2]).index
      BY Zenon
    <3>2. AlterIndex(t, x[1], x[2]).new = AlterIndex(t, y[1], y[2]).new
      BY Zenon
    <3>3. x[1] = y[1] /\ x[2] = y[2]
      BY <3>1, <3>2, Zenon DEF AlterIndex
    <3>4. x = <<x[1], x[2]>> /\ y = <<y[1], y[2]>>
      <4> HIDE DEF names
      <4> QED BY <2>3
    <3> QED BY <3>3, <3>4, Zenon
  <2> HIDE DEF R
  <2>7. \A i \in DOMAIN Q : Q[i] \in R(t)
    BY <2>5 DEF Lists
  <2> HIDE DEF Q
  <2>8. [i \in DOMAIN Q |-> h[Q[i]]] = In(t)
    BY <2>7, Zenon DEF MapSeq, Q
  <2>9. {h[x] : x \in R(t)} = g[t]
    BY Zenon DEF RenameStepsOf, R
  <2> HIDE DEF h
  <2>10. Lists([i \in DOMAIN Q |-> h[Q[i]]], {h[x] : x \in R(t)})
    BY <2>5, <2>6, ListsImage
  <2> QED BY <2>8, <2>9, <2>10, Zenon
<1>4. \A x, y \in B : x # y => g[x] \cap g[y] = {}
  <2> SUFFICES ASSUME NEW x \in B, NEW y \in B, NEW s \in RenameStepsOf(from, to, x),
                      s \in RenameStepsOf(from, to, y)
               PROVE  x = y
    BY Zenon
  <2>1. s.table = x /\ s.table = y
    BY DEF RenameStepsOf, AlterIndex
  <2> QED BY <2>1, Zenon
<1>5. AlterIndexes(from, to) = FlattenSeq(ss)
  BY Zenon DEF AlterIndexes, MapSeq
<1>6. DOMAIN ss = DOMAIN C /\ ss = [i \in DOMAIN C |-> ss[i]]
  BY Zenon
<1>7. \A i \in DOMAIN C : Lists(ss[i], g[C[i]])
  BY <1>2, <1>3, Zenon
<1>8. UNION {g[x] : x \in B} = RenameSteps(from, to)
  BY Zenon DEF RenameSteps
<1> HIDE DEF ss, g, C, B
<1>9. Lists(FlattenSeq(ss), UNION {g[x] : x \in B})
  BY <1>1, <1>4, <1>6, <1>7, ListsFlattened
<1> QED BY <1>5, <1>8, <1>9, Zenon

\* create_indexes() lists the new indexes, each once.
LEMMA CreateIndexesList ==
    ASSUME Inductive, Enumerated, NEW from, NEW to, SchemaOK(from), SchemaOK(to)
    PROVE  Lists(Diff(from, to).createIndexes, CreateIndexSteps(from, to))
<1> DEFINE C == to.order
           B == DOMAIN to.def
           R(t) == NewIndexes(from, to, t)
           In(t) == MapSeq(LAMBDA i : CreateIndex(t, i, to.def[t].indices[i]), SetToSeq(R(t)))
           ss == [i \in DOMAIN C |-> In(C[i])]
           g == [t \in B |-> CreateIndexStepsOf(from, to, t)]
<1>1. Lists(C, B)
  BY Zenon DEF SchemaOK
<1>2. \A i \in DOMAIN C : C[i] \in B
  BY <1>1 DEF Lists
<1>3. ASSUME NEW t \in B
      PROVE  Lists(In(t), g[t])
  <2> DEFINE Q == SetToSeq(R(t))
             h == [r \in R(t) |-> CreateIndex(t, r, to.def[t].indices[r])]
  <2>1. IsFiniteSet(DOMAIN to.def[t].indices)
    BY Zenon DEF SchemaOK, DefOK, TableOK
  <2>2. R(t) \subseteq DOMAIN to.def[t].indices
    BY Zenon DEF NewIndexes, IndexNames
  <2>4. IsFiniteSet(R(t))
    BY <2>1, <2>2, FiniteSubset, Zenon
  <2>5. Lists(Q, R(t))
    BY <2>4, Zenon DEF Enumerated
  <2> HIDE DEF R
  <2>6. \A x, y \in R(t) : h[x] = h[y] => x = y
    <3> SUFFICES ASSUME NEW x \in R(t), NEW y \in R(t),
                        CreateIndex(t, x, to.def[t].indices[x]) = CreateIndex(t, y, to.def[t].indices[y])
                 PROVE  x = y
      BY Zenon
    <3>1. CreateIndex(t, x, to.def[t].indices[x]).index = CreateIndex(t, y, to.def[t].indices[y]).index
      BY Zenon
    <3> QED BY <3>1, Zenon DEF CreateIndex
  <2>7. \A i \in DOMAIN Q : Q[i] \in R(t)
    BY <2>5 DEF Lists
  <2> HIDE DEF Q
  <2>8. [i \in DOMAIN Q |-> h[Q[i]]] = In(t)
    BY <2>7, Zenon DEF MapSeq, Q
  <2>9. {h[x] : x \in R(t)} = g[t]
    BY Zenon DEF CreateIndexStepsOf, R
  <2> HIDE DEF h
  <2>10. Lists([i \in DOMAIN Q |-> h[Q[i]]], {h[x] : x \in R(t)})
    BY <2>5, <2>6, ListsImage
  <2> QED BY <2>8, <2>9, <2>10, Zenon
<1>4. \A x, y \in B : x # y => g[x] \cap g[y] = {}
  <2> SUFFICES ASSUME NEW x \in B, NEW y \in B, NEW s \in CreateIndexStepsOf(from, to, x),
                      s \in CreateIndexStepsOf(from, to, y)
               PROVE  x = y
    BY Zenon
  <2>1. s.table = x /\ s.table = y
    BY DEF CreateIndexStepsOf, CreateIndex
  <2> QED BY <2>1, Zenon
<1>5. Diff(from, to).createIndexes = FlattenSeq(ss)
  <2>1. Range(AlterIndexes(from, to)) = RenameSteps(from, to)
    BY AlterIndexesList, Zenon DEF Lists
  <2>2. Diff(from, to).createIndexes = CreateIndexes(from, to, AlterIndexes(from, to))
    BY Zenon DEF Diff
  <2>3. CreateIndexes(from, to, AlterIndexes(from, to)) = FlattenSeq(ss)
    BY <2>1, Zenon DEF CreateIndexes, MapSeq, NewIndexes
  <2> QED BY <2>2, <2>3, Zenon
<1>6. DOMAIN ss = DOMAIN C /\ ss = [i \in DOMAIN C |-> ss[i]]
  BY Zenon
<1>7. \A i \in DOMAIN C : Lists(ss[i], g[C[i]])
  BY <1>2, <1>3, Zenon
<1>8. UNION {g[x] : x \in B} = CreateIndexSteps(from, to)
  BY Zenon DEF CreateIndexSteps
<1> HIDE DEF ss, g, C, B
<1>9. Lists(FlattenSeq(ss), UNION {g[x] : x \in B})
  BY <1>1, <1>4, <1>6, <1>7, ListsFlattened
<1> QED BY <1>5, <1>8, <1>9, Zenon

\* drop_indexes() lists the old indexes, each once.
LEMMA DropIndexesList ==
    ASSUME Inductive, Enumerated, NEW from, NEW to, SchemaOK(from), SchemaOK(to)
    PROVE  Lists(Diff(from, to).dropIndexes, DropIndexSteps(from, to))
<1> DEFINE C == from.order
           B == DOMAIN from.def
           R(t) == OldIndexes(from, to, t)
           In(t) == MapSeq(LAMBDA i : DropIndex(t, i), SetToSeq(R(t)))
           ss == [i \in DOMAIN C |-> In(C[i])]
           g == [t \in B |-> DropIndexStepsOf(from, to, t)]
<1>1. Lists(C, B)
  BY Zenon DEF SchemaOK
<1>2. \A i \in DOMAIN C : C[i] \in B
  BY <1>1 DEF Lists
<1>3. ASSUME NEW t \in B
      PROVE  Lists(In(t), g[t])
  <2> DEFINE Q == SetToSeq(R(t))
             h == [r \in R(t) |-> DropIndex(t, r)]
  <2>1. IsFiniteSet(DOMAIN from.def[t].indices)
    BY Zenon DEF SchemaOK, DefOK, TableOK
  <2>2. R(t) \subseteq DOMAIN from.def[t].indices
    BY Zenon DEF OldIndexes, IndexNames
  <2>4. IsFiniteSet(R(t))
    BY <2>1, <2>2, FiniteSubset, Zenon
  <2>5. Lists(Q, R(t))
    BY <2>4, Zenon DEF Enumerated
  <2> HIDE DEF R
  <2>6. \A x, y \in R(t) : h[x] = h[y] => x = y
    <3> SUFFICES ASSUME NEW x \in R(t), NEW y \in R(t), DropIndex(t, x) = DropIndex(t, y)
                 PROVE  x = y
      BY Zenon
    <3>1. DropIndex(t, x).index = DropIndex(t, y).index
      BY Zenon
    <3> QED BY <3>1, Zenon DEF DropIndex
  <2>7. \A i \in DOMAIN Q : Q[i] \in R(t)
    BY <2>5 DEF Lists
  <2> HIDE DEF Q
  <2>8. [i \in DOMAIN Q |-> h[Q[i]]] = In(t)
    BY <2>7, Zenon DEF MapSeq, Q
  <2>9. {h[x] : x \in R(t)} = g[t]
    BY Zenon DEF DropIndexStepsOf, R
  <2> HIDE DEF h
  <2>10. Lists([i \in DOMAIN Q |-> h[Q[i]]], {h[x] : x \in R(t)})
    BY <2>5, <2>6, ListsImage
  <2> QED BY <2>8, <2>9, <2>10, Zenon
<1>4. \A x, y \in B : x # y => g[x] \cap g[y] = {}
  <2> SUFFICES ASSUME NEW x \in B, NEW y \in B, NEW s \in DropIndexStepsOf(from, to, x),
                      s \in DropIndexStepsOf(from, to, y)
               PROVE  x = y
    BY Zenon
  <2>1. s.table = x /\ s.table = y
    BY DEF DropIndexStepsOf, DropIndex
  <2> QED BY <2>1, Zenon
<1>5. Diff(from, to).dropIndexes = FlattenSeq(ss)
  <2>1. Range(AlterIndexes(from, to)) = RenameSteps(from, to)
    BY AlterIndexesList, Zenon DEF Lists
  <2>2. Diff(from, to).dropIndexes = DropIndexes(from, to, AlterIndexes(from, to))
    BY Zenon DEF Diff
  <2>3. DropIndexes(from, to, AlterIndexes(from, to)) = FlattenSeq(ss)
    BY <2>1, Zenon DEF DropIndexes, MapSeq, OldIndexes
  <2> QED BY <2>2, <2>3, Zenon
<1>6. DOMAIN ss = DOMAIN C /\ ss = [i \in DOMAIN C |-> ss[i]]
  BY Zenon
<1>7. \A i \in DOMAIN C : Lists(ss[i], g[C[i]])
  BY <1>2, <1>3, Zenon
<1>8. UNION {g[x] : x \in B} = DropIndexSteps(from, to)
  BY Zenon DEF DropIndexSteps
<1> HIDE DEF ss, g, C, B
<1>9. Lists(FlattenSeq(ss), UNION {g[x] : x \in B})
  BY <1>1, <1>4, <1>6, <1>7, ListsFlattened
<1> QED BY <1>5, <1>8, <1>9, Zenon

-----------------------------------------------------------------------------
(* SqlSchemaDiff::into_steps: the steps in the order of their kinds.       *)

\* A list of steps of one kind is sorted.
LEMMA SortedSame ==
    ASSUME NEW s, NEW S, Lists(s, S), NEW n \in Nat, \A x \in S : Rank(x) = n
    PROVE  Sorted(s)
<1>1. \A i \in DOMAIN s : Rank(s[i]) = n
  BY DEF Lists
<1> QED BY <1>1 DEF Sorted

\* A sorted list, followed by steps of a later kind.
LEMMA SortedConcat ==
    ASSUME NEW s, NEW S, NEW t, NEW T, Lists(s, S), Lists(t, T), S \cap T = {},
           Sorted(s), Sorted(t), NEW n \in Nat,
           \A x \in S : Rank(x) \in Nat /\ Rank(x) < n, \A x \in T : Rank(x) = n
    PROVE  /\ Lists(s \o t, S \cup T) /\ Sorted(s \o t)
           /\ \A x \in S \cup T : Rank(x) \in Nat /\ Rank(x) < n + 1
<1>1. Lists(s \o t, S \cup T)
  BY ListsConcat, Zenon
<1>2. s \in Seq(S) /\ t \in Seq(T) /\ Len(s) \in Nat /\ Len(t) \in Nat
  BY DEF Lists
<1>3. /\ DOMAIN (s \o t) = 1 .. Len(s) + Len(t) /\ DOMAIN s = 1 .. Len(s) /\ DOMAIN t = 1 .. Len(t)
      /\ \A i \in 1 .. Len(s) : (s \o t)[i] = s[i] /\ s[i] \in S
      /\ \A i \in 1 .. Len(s) + Len(t) : i > Len(s) =>
            (s \o t)[i] = t[i - Len(s)] /\ i - Len(s) \in 1 .. Len(t) /\ t[i - Len(s)] \in T
  BY <1>2
<1> DEFINE r == s \o t
<1> HIDE DEF r
<1>4. Sorted(r)
  <2> SUFFICES ASSUME NEW i \in 1 .. Len(s) + Len(t), NEW j \in 1 .. Len(s) + Len(t),
                      Rank(r[i]) < Rank(r[j])
               PROVE  i < j
    BY <1>3, Zenon DEF Sorted, r
  <2>1. CASE i \in 1 .. Len(s) /\ j \in 1 .. Len(s)
    <3>1. Rank(s[i]) < Rank(s[j])
      BY <1>3, <2>1, Zenon DEF r
    <3> QED BY <1>3, <2>1, <3>1, Zenon DEF Sorted
  <2>2. CASE i \in 1 .. Len(s) /\ j > Len(s)
    BY <1>2, <2>2
  <2>3. CASE i > Len(s) /\ j \in 1 .. Len(s)
    <3>1. Rank(r[i]) = n /\ Rank(r[j]) < n /\ Rank(r[j]) \in Nat
      BY <1>3, <2>3, Zenon DEF r
    <3> QED BY <3>1
  <2>4. CASE i > Len(s) /\ j > Len(s)
    <3>1. Rank(r[i]) = n /\ Rank(r[j]) = n
      BY <1>3, <2>4, Zenon DEF r
    <3> QED BY <3>1
  <2> QED BY <1>2, <2>1, <2>2, <2>3, <2>4
<1> QED BY <1>1, <1>4 DEF r

\* into_steps() lists the steps of the diff, kind after kind.
LEMMA IntoStepsList ==
    ASSUME NEW d, NEW A, NEW B, NEW C, NEW D, NEW E, NEW F,
           Lists(d.dropIndexes, A), Lists(d.dropTables, B), Lists(d.createTables, C),
           Lists(d.alterTables, D), Lists(d.createIndexes, E), Lists(d.alterIndexes, F),
           \A x \in A : x.step = "DropIndex", \A x \in B : x.step = "DropTables",
           \A x \in C : x.step = "CreateTable", \A x \in D : x.step = "AlterTable",
           \A x \in E : x.step = "CreateIndex", \A x \in F : x.step = "AlterIndex"
    PROVE  /\ Lists(IntoSteps(d), A \cup B \cup C \cup D \cup E \cup F)
           /\ Sorted(IntoSteps(d))
<1>1. /\ \A x \in A : Rank(x) = 0
      /\ \A x \in B : Rank(x) = 1
      /\ \A x \in C : Rank(x) = 2
      /\ \A x \in D : Rank(x) = 3
      /\ \A x \in E : Rank(x) = 4
      /\ \A x \in F : Rank(x) = 5
  BY Zenon DEF Rank
<1>2. /\ Sorted(d.dropIndexes) /\ Sorted(d.dropTables) /\ Sorted(d.createTables)
      /\ Sorted(d.alterTables) /\ Sorted(d.createIndexes) /\ Sorted(d.alterIndexes)
  BY <1>1, SortedSame
<1> DEFINE s2 == d.dropIndexes \o d.dropTables
           s3 == s2 \o d.createTables
           s4 == s3 \o d.alterTables
           s5 == s4 \o d.createIndexes
           s6 == s5 \o d.alterIndexes
           S2 == A \cup B
           S3 == S2 \cup C
           S4 == S3 \cup D
           S5 == S4 \cup E
           S6 == S5 \cup F
<1>3. /\ Lists(s2, S2) /\ Sorted(s2)
      /\ \A x \in S2 : Rank(x) \in Nat /\ Rank(x) < 2
  <2>0. Lists(d.dropIndexes, A) /\ Sorted(d.dropIndexes) /\ \A x \in A : Rank(x) \in Nat /\ Rank(x) < 1
    BY <1>1, <1>2
  <2>1. A \cap B = {}
    BY Zenon
  <2>2. Lists(d.dropTables, B) /\ Sorted(d.dropTables) /\ 1 \in Nat /\ \A x \in B : Rank(x) = 1
    BY <1>1, <1>2, Zenon
  <2>3. /\ Lists(s2, S2) /\ Sorted(s2)
        /\ \A x \in S2 : Rank(x) \in Nat /\ Rank(x) < 1 + 1
    BY ONLY <2>0, <2>1, <2>2, SortedConcat
  <2> QED BY <2>3
<1>4. \A x \in S2 : x.step # "CreateTable"
  BY Zenon
<1>5. \A x \in S3 : x.step # "AlterTable"
  BY Zenon
<1>6. \A x \in S4 : x.step # "CreateIndex"
  BY Zenon
<1>7. \A x \in S5 : x.step # "AlterIndex"
  BY Zenon
<1> HIDE DEF s2, S2
<1>8. /\ Lists(s3, S3) /\ Sorted(s3)
      /\ \A x \in S3 : Rank(x) \in Nat /\ Rank(x) < 3
  <2>1. S2 \cap C = {}
    BY <1>4, Zenon
  <2>2. Lists(d.createTables, C) /\ Sorted(d.createTables) /\ 2 \in Nat /\ \A x \in C : Rank(x) = 2
    BY <1>1, <1>2, Zenon
  <2>3. /\ Lists(s3, S3) /\ Sorted(s3)
        /\ \A x \in S3 : Rank(x) \in Nat /\ Rank(x) < 2 + 1
    BY ONLY <1>3, <2>1, <2>2, SortedConcat
  <2> QED BY <2>3
<1> HIDE DEF s3, S3
<1>9. /\ Lists(s4, S4) /\ Sorted(s4)
      /\ \A x \in S4 : Rank(x) \in Nat /\ Rank(x) < 4
  <2>1. S3 \cap D = {}
    BY <1>5, Zenon
  <2>2. Lists(d.alterTables, D) /\ Sorted(d.alterTables) /\ 3 \in Nat /\ \A x \in D : Rank(x) = 3
    BY <1>1, <1>2, Zenon
  <2>3. /\ Lists(s4, S4) /\ Sorted(s4)
        /\ \A x \in S4 : Rank(x) \in Nat /\ Rank(x) < 3 + 1
    BY ONLY <1>8, <2>1, <2>2, SortedConcat
  <2> QED BY <2>3
<1> HIDE DEF s4, S4
<1>10. /\ Lists(s5, S5) /\ Sorted(s5)
      /\ \A x \in S5 : Rank(x) \in Nat /\ Rank(x) < 5
  <2>1. S4 \cap E = {}
    BY <1>6, Zenon
  <2>2. Lists(d.createIndexes, E) /\ Sorted(d.createIndexes) /\ 4 \in Nat /\ \A x \in E : Rank(x) = 4
    BY <1>1, <1>2, Zenon
  <2>3. /\ Lists(s5, S5) /\ Sorted(s5)
        /\ \A x \in S5 : Rank(x) \in Nat /\ Rank(x) < 4 + 1
    BY ONLY <1>9, <2>1, <2>2, SortedConcat
  <2> QED BY <2>3
<1> HIDE DEF s5, S5
<1>11. /\ Lists(s6, S6) /\ Sorted(s6)
      /\ \A x \in S6 : Rank(x) \in Nat /\ Rank(x) < 6
  <2>1. S5 \cap F = {}
    BY <1>7, Zenon
  <2>2. Lists(d.alterIndexes, F) /\ Sorted(d.alterIndexes) /\ 5 \in Nat /\ \A x \in F : Rank(x) = 5
    BY <1>1, <1>2, Zenon
  <2>3. /\ Lists(s6, S6) /\ Sorted(s6)
        /\ \A x \in S6 : Rank(x) \in Nat /\ Rank(x) < 5 + 1
    BY ONLY <1>10, <2>1, <2>2, SortedConcat
  <2> QED BY <2>3
<1>12. IntoSteps(d) = s6
  BY Zenon DEF IntoSteps, s5, s4, s3, s2
<1>13. S6 = A \cup B \cup C \cup D \cup E \cup F
  BY Zenon DEF S5, S4, S3, S2
<1> HIDE DEF s6, S6
<1> QED BY <1>11, <1>12, <1>13, Zenon

\* The steps that the checks of the engine see: every difference once, sorted
\* by kind.
LEMMA OriginalList ==
    ASSUME Inductive, Enumerated, NEW from, NEW to, SchemaOK(from), SchemaOK(to)
    PROVE  Lists(OriginalSteps(from, to), DiffSteps(from, to)) /\ Sorted(OriginalSteps(from, to))
<1>1. Diff(from, to).alterIndexes = AlterIndexes(from, to)
  BY Zenon DEF Diff
<1>2. Lists(Diff(from, to).alterIndexes, RenameSteps(from, to))
  BY <1>1, AlterIndexesList, Zenon
<1> DEFINE d == Diff(from, to)
<1>3. /\ Lists(d.dropIndexes, DropIndexSteps(from, to)) /\ Lists(d.dropTables, DropSteps(from, to))
      /\ Lists(d.createTables, CreateSteps(from, to)) /\ Lists(d.alterTables, AlterSteps(from, to))
      /\ Lists(d.createIndexes, CreateIndexSteps(from, to))
      /\ Lists(d.alterIndexes, RenameSteps(from, to))
  BY <1>2, DropIndexesList, DropTablesList, CreateTablesList, AlterTablesList, CreateIndexesList, Zenon
<1>4. /\ \A x \in DropIndexSteps(from, to) : x.step = "DropIndex"
      /\ \A x \in DropSteps(from, to) : x.step = "DropTables"
      /\ \A x \in CreateSteps(from, to) : x.step = "CreateTable"
      /\ \A x \in AlterSteps(from, to) : x.step = "AlterTable"
      /\ \A x \in CreateIndexSteps(from, to) : x.step = "CreateIndex"
      /\ \A x \in RenameSteps(from, to) : x.step = "AlterIndex"
  BY StepFields
<1> HIDE DEF d
<1>5. Lists(IntoSteps(d), DiffSteps(from, to)) /\ Sorted(IntoSteps(d))
  BY ONLY <1>3, <1>4, IntoStepsList DEF DiffSteps
<1> QED BY <1>5, Zenon DEF OriginalSteps, d

-----------------------------------------------------------------------------
(* fix_stupid_sqlite: the statements of all steps.                         *)

\* The statements that SQLite gets are those of the steps, one after the other.
LEMMA SqliteProgram ==
    ASSUME Inductive, Enumerated, Family = "sqlite", NEW from, NEW to, SchemaOK(from), SchemaOK(to)
    PROVE  /\ CorrectedSteps(from, to) = FlattenSeq(Blocks(from, to))
           /\ \E X : Blocks(from, to) \in Seq(Seq(X))
           /\ DOMAIN Blocks(from, to) = DOMAIN OriginalSteps(from, to)
           /\ \A k \in DOMAIN OriginalSteps(from, to) :
                 Blocks(from, to)[k] = Block(from, to, OriginalSteps(from, to)[k])
<1> DEFINE O == OriginalSteps(from, to)
           B == Blocks(from, to)
<1>1. Lists(O, DiffSteps(from, to))
  BY OriginalList, Zenon
<1>2. /\ O \in Seq(DiffSteps(from, to)) /\ DOMAIN O = 1 .. Len(O) /\ Len(O) \in Nat
      /\ \A k \in DOMAIN O : O[k] \in DiffSteps(from, to)
  BY <1>1 DEF Lists
<1>3. DOMAIN B = DOMAIN O /\ \A k \in DOMAIN O : B[k] = Block(from, to, O[k])
  BY Zenon DEF Blocks
<1>4. CorrectedSteps(from, to) = FlattenSeq(B)
  <2>1. Range(Diff(from, to).alterTables) = AlterSteps(from, to)
    BY AlterTablesList, Zenon DEF Lists
  <2>2. CorrectedSteps(from, to) = FixStupidSqlite(from, to, Diff(from, to))
    BY Zenon DEF CorrectedSteps
  <2>3. FixStupidSqlite(from, to, Diff(from, to)) = FlattenSeq(B)
    BY <2>1, Zenon DEF FixStupidSqlite, MapSeq, Blocks, Block, Rewrites, FixedTables, OriginalSteps
  <2> QED BY <2>2, <2>3, Zenon
<1>5. B \in Seq(Seq(UNION {Range(Block(from, to, s)) : s \in DiffSteps(from, to)}))
  <2> DEFINE X == UNION {Range(Block(from, to, s)) : s \in DiffSteps(from, to)}
  <2>1. ASSUME NEW k \in DOMAIN O
        PROVE  B[k] \in Seq(X)
    <3> DEFINE b == Block(from, to, O[k])
    <3>1. PICK Y : b \in Seq(Y)
      BY <1>2, BlockShape, Zenon
    <3>2. \A i \in 1 .. Len(b) : b[i] \in X
      <4>1. DOMAIN b = 1 .. Len(b)
        BY <3>1
      <4>2. \A i \in 1 .. Len(b) : b[i] \in Range(b)
        BY <4>1, Zenon DEF Range
      <4> QED BY <1>2, <4>2, Zenon
    <3> HIDE DEF X
    <3>3. b \in Seq(X)
      <4> HIDE DEF b
      <4> QED BY <3>1, <3>2
    <3> QED BY <1>3, <3>3, Zenon
  <2> HIDE DEF X
  <2>2. B \in [1 .. Len(O) -> Seq(X)]
    <3>1. B = [k \in DOMAIN O |-> B[k]]
      BY Zenon DEF Blocks
    <3> QED BY <1>2, <2>1, <3>1, Zenon
  <2> HIDE DEF B
  <2>3. B \in Seq(Seq(X))
    BY <1>2, <2>2
  <2> QED BY <2>3, Zenon DEF X
<1> QED BY <1>3, <1>4, <1>5, Zenon

\* The statements as a walk over the steps.
LEMMA SqliteEnds ==
    ASSUME Inductive, Enumerated, Family = "sqlite", NEW from, NEW to, SchemaOK(from), SchemaOK(to)
    PROVE  /\ Len(CorrectedSteps(from, to)) \in Nat
           /\ \E X : CorrectedSteps(from, to) \in Seq(X)
           /\ Calm(from, to, 1) /\ Todo(from, to, 1) = Effective(from, to)
           /\ Todo(from, to, Len(CorrectedSteps(from, to)) + 1) = {}
           /\ \A n \in 1 .. Len(CorrectedSteps(from, to)) : \E s, j : Current(from, to, n, s, j)
<1> DEFINE O == OriginalSteps(from, to)
           B == Blocks(from, to)
           All == CorrectedSteps(from, to)
<1>1. /\ All = FlattenSeq(B) /\ DOMAIN B = DOMAIN O
      /\ \A k \in DOMAIN O : B[k] = Block(from, to, O[k])
  BY SqliteProgram, Zenon
<1>2. PICK X : B \in Seq(Seq(X))
  BY SqliteProgram, Zenon
<1>3. Lists(O, DiffSteps(from, to))
  BY OriginalList, Zenon
<1> HIDE DEF O, B, All
<1>4. FlattenSeq(B) \in Seq(X)
  BY <1>2, FlattenPlaces, Zenon
<1>5. /\ Pending(O, B, 1) = {O[k] : k \in {l \in DOMAIN B : B[l] # <<>>}}
      /\ Between(B, 1)
      /\ Pending(O, B, Len(FlattenSeq(B)) + 1) = {}
  BY <1>2, PlanEnds, Zenon
<1>6. \A n \in 1 .. Len(FlattenSeq(B)) : \E s, j : Doing(O, B, n, s, j)
  BY <1>2, PlanAt, Zenon
<1>7. {O[k] : k \in {l \in DOMAIN B : B[l] # <<>>}} = Effective(from, to)
  <2>1. /\ \A k \in DOMAIN O : O[k] \in DiffSteps(from, to)
        /\ \A s \in DiffSteps(from, to) : \E k \in DOMAIN O : s = O[k]
    BY <1>3, Zenon DEF Lists, Range
  <2> QED BY <1>1, <2>1 DEF Effective
<1>8. Len(All) \in Nat /\ All \in Seq(X)
  BY <1>1, <1>4
<1>9. /\ Between(B, 1) /\ Pending(O, B, 1) = Effective(from, to)
      /\ Pending(O, B, Len(All) + 1) = {}
      /\ \A n \in 1 .. Len(All) : \E s, j : Doing(O, B, n, s, j)
  BY ONLY <1>1, <1>5, <1>6, <1>7, Zenon
<1> QED BY <1>8, <1>9, Zenon DEF Todo, Current, Calm, O, B, All

\* What is pending after a statement of SQLite's program, and what comes next.
LEMMA SqliteStep ==
    ASSUME Inductive, Enumerated, Family = "sqlite", NEW from, NEW to, SchemaOK(from), SchemaOK(to),
           NEW n, NEW s, NEW j, Current(from, to, n, s, j)
    PROVE  Progress(from, to, n, s, j)
<1> DEFINE O == OriginalSteps(from, to)
           B == Blocks(from, to)
           All == CorrectedSteps(from, to)
<1>1. /\ All = FlattenSeq(B) /\ DOMAIN B = DOMAIN O
      /\ \A k \in DOMAIN O : B[k] = Block(from, to, O[k])
  BY SqliteProgram, Zenon
<1>2. PICK X : B \in Seq(Seq(X))
  BY SqliteProgram, Zenon
<1>3. Lists(O, DiffSteps(from, to)) /\ Sorted(O)
  BY OriginalList, Zenon
<1>4. Doing(O, B, n, s, j)
  BY Zenon DEF Current
<1> HIDE DEF O, B, All
<1>5. PICK k \in DOMAIN B :
         /\ s = O[k] /\ j \in 1 .. Len(B[k]) /\ B[k] # <<>>
         /\ n \in 1 .. Len(FlattenSeq(B))
         /\ FlattenSeq(B)[n] = B[k][j]
         /\ s \in Pending(O, B, n)
         /\ \A x \in Pending(O, B, n) : \E l \in DOMAIN B : x = O[l] /\ ~(l < k)
         /\ Between(B, n) => j = 1
  BY <1>2, <1>4, PlanDoing
<1>6. B[k] = Block(from, to, s)
  BY <1>1, <1>5, Zenon
<1>7. IsInjective(O) /\ Doing(O, B, n, O[k], j)
  BY <1>3, <1>4, <1>5, Zenon DEF Lists
<1>8. /\ j < Len(B[k]) => /\ Doing(O, B, n + 1, O[k], j + 1)
                          /\ Pending(O, B, n + 1) = Pending(O, B, n)
      /\ j = Len(B[k]) => /\ Pending(O, B, n + 1) = Pending(O, B, n) \ {O[k]}
                          /\ Between(B, n + 1)
  BY <1>1, <1>2, <1>7, PlanStep
<1>9. j = 1 => Between(B, n)
  BY <1>4, Zenon DEF Doing, Between
<1>10. ASSUME NEW x \in Pending(O, B, n)
       PROVE  x \in Effective(from, to) /\ ~(Rank(x) < Rank(s))
  <2>1. PICK l \in DOMAIN B : x = O[l] /\ ~(l < k)
    BY <1>5, Zenon
  <2>2. ~(Rank(O[l]) < Rank(O[k]))
    BY <1>1, <1>3, <2>1, Zenon DEF Sorted
  <2>3. PICK m \in DOMAIN B : x = O[m] /\ B[m] # <<>>
    BY Zenon DEF Pending
  <2>4. O[m] \in DiffSteps(from, to)
    BY <1>1, <1>3, <2>3 DEF Lists
  <2> QED BY <1>1, <1>5, <2>1, <2>2, <2>3, <2>4, Zenon DEF Effective
<1>11. n \in 1 .. Len(All) /\ All[n] = Block(from, to, s)[j]
  BY ONLY <1>1, <1>5, <1>6, Zenon
<1>12. j \in 1 .. Len(Block(from, to, s))
  BY <1>5, <1>6, Zenon
<1>13. /\ j < Len(Block(from, to, s)) => Doing(O, B, n + 1, s, j + 1) /\ Pending(O, B, n + 1) = Pending(O, B, n)
       /\ j = Len(Block(from, to, s)) => Pending(O, B, n + 1) = Pending(O, B, n) \ {s} /\ Between(B, n + 1)
  BY ONLY <1>5, <1>6, <1>8, Zenon
<1>14. s \in Pending(O, B, n) /\ (Between(B, n) <=> j = 1) /\ s \in Effective(from, to)
  BY <1>5, <1>9, <1>10, Zenon
<1> QED BY <1>10, <1>11, <1>12, <1>13, <1>14, Zenon DEF Progress, Todo, Current, Calm, O, B, All

-----------------------------------------------------------------------------
(* delay_foreign_key_creation and fix_id_column_type_change.               *)

\* What is delayed belongs to a new table.
LEMMA LaterTables ==
    ASSUME NEW from, NEW to, NEW s \in LaterSteps(from, to)
    PROVE  s.step = "AlterTable" /\ s.table \notin DOMAIN from.def
<1>1. PICK t \in NewTables(from, to) :
          s = AlterTable(t, to.def[t], {}, DelayedOf(from, to, t), {})
  BY Zenon DEF LaterSteps
<1>2. s.step = "AlterTable" /\ s.table = t
  BY <1>1, Zenon DEF AlterTable
<1> QED BY <1>2, Zenon DEF NewTables

\* delay_foreign_key_creation() lists its steps, kind after kind, each once.
LEMMA DelayedList ==
    ASSUME Inductive, Enumerated, NEW from, NEW to, SchemaOK(from), SchemaOK(to)
    PROVE  /\ Lists(DelayForeignKeyCreation(Diff(from, to)), DelayedSteps(from, to))
           /\ Sorted(DelayForeignKeyCreation(Diff(from, to)))
<1> DEFINE d == Diff(from, to)
           N == NewTables(from, to)
           created == {s.table : s \in Range(d.createTables)}
           Delayed(s) == {c \in DOMAIN s.def.columns :
                            /\ s.def.columns[c].references \in created
                            /\ c \notin s.def.pk
                            /\ s.table # RelationTable}
           Trimmed(s) == CreateTable(s.table, [s.def EXCEPT !.columns =
               [c \in DOMAIN s.def.columns \ Delayed(s) |-> s.def.columns[c]]])
           Later(s) == AlterTable(s.table, s.def, {}, Delayed(s), {})
           C == CreateSteps(from, to)
           ct == d.createTables
           trimmed == MapSeq(Trimmed, ct)
           late == Filter(ct, LAMBDA s : Delayed(s) # {})
           later == MapSeq(Later, late)
           e == [d EXCEPT !.createTables = MapSeq(Trimmed, @), !.alterTables = @ \o later]
<1>1. DelayForeignKeyCreation(d) = IntoSteps(e)
  BY Zenon DEF DelayForeignKeyCreation
<1>2. Lists(ct, C)
  BY CreateTablesList, Zenon
<1>3. /\ \A i \in DOMAIN ct : ct[i] \in C
      /\ Range(ct) = C
  BY <1>2 DEF Lists
<1>4. \A s \in C : \E t \in N : s = CreateTable(t, to.def[t]) /\ s.table = t /\ s.def = to.def[t]
  BY DEF CreateSteps, CreateTable, NewTables
<1>5. \A t \in N : CreateTable(t, to.def[t]) \in C /\ CreateTable(t, to.def[t]).table = t
                    /\ CreateTable(t, to.def[t]).def = to.def[t]
  BY Zenon DEF CreateSteps, CreateTable, NewTables
<1>6. created = N
  <2> HIDE DEF C, N
  <2>1. {s.table : s \in C} = N
    BY <1>4, <1>5
  <2>2. Range(d.createTables) = C
    BY <1>3, Zenon
  <2> HIDE DEF d
  <2> QED BY <2>1, <2>2, Zenon
<1>7. \A s \in C : Delayed(s) = DelayedOf(from, to, s.table)
  <2> SUFFICES ASSUME NEW s \in C
               PROVE  Delayed(s) = DelayedOf(from, to, s.table)
    BY Zenon
  <2>1. s.def = to.def[s.table]
    BY <1>4, Zenon
  <2> HIDE DEF C, N, created, d
  <2> QED BY <1>6, <2>1, Zenon DEF DelayedOf, N
<1> HIDE DEF created, Delayed
<1>8. \A s \in C : Trimmed(s) = CreateTable(s.table, TrimmedDef(from, to, s.table))
  <2> SUFFICES ASSUME NEW s \in C
               PROVE  Trimmed(s) = CreateTable(s.table, TrimmedDef(from, to, s.table))
    BY Zenon
  <2>1. s.def = to.def[s.table] /\ Delayed(s) = DelayedOf(from, to, s.table)
    BY <1>4, <1>7, Zenon
  <2> QED BY <2>1, Zenon DEF TrimmedDef
<1>9. \A s \in C : Later(s) = AlterTable(s.table, to.def[s.table], {}, DelayedOf(from, to, s.table), {})
  <2> SUFFICES ASSUME NEW s \in C
               PROVE  Later(s) = AlterTable(s.table, to.def[s.table], {}, DelayedOf(from, to, s.table), {})
    BY Zenon
  <2>1. s.def = to.def[s.table] /\ Delayed(s) = DelayedOf(from, to, s.table)
    BY <1>4, <1>7, Zenon
  <2> QED BY <2>1, Zenon
<1>10. \A s, u \in C : s.table = u.table => s = u
  <2> HIDE DEF C
  <2> QED BY <1>4
<1> HIDE DEF Trimmed, Later
<1>11. Lists(trimmed, TrimmedSteps(from, to))
  <2> DEFINE f == [s \in C |-> CreateTable(s.table, TrimmedDef(from, to, s.table))]
  <2>1. \A s, u \in C : f[s] = f[u] => s = u
    <3> SUFFICES ASSUME NEW s \in C, NEW u \in C,
                        CreateTable(s.table, TrimmedDef(from, to, s.table))
                          = CreateTable(u.table, TrimmedDef(from, to, u.table))
                 PROVE  s = u
      BY Zenon
    <3>1. CreateTable(s.table, TrimmedDef(from, to, s.table)).table
            = CreateTable(u.table, TrimmedDef(from, to, u.table)).table
      BY Zenon
    <3>2. s.table = u.table
      BY <3>1, Zenon DEF CreateTable
    <3> QED BY <1>10, <3>2, Zenon
  <2>2. {f[s] : s \in C} = TrimmedSteps(from, to)
    <3> HIDE DEF C
    <3> QED BY <1>4, <1>5 DEF TrimmedSteps, N
  <2>3. [i \in DOMAIN ct |-> f[ct[i]]] = trimmed
    <3> HIDE DEF C, ct
    <3> QED BY <1>3, <1>8, Zenon DEF MapSeq
  <2> HIDE DEF f, ct, C, trimmed
  <2>4. Lists([i \in DOMAIN ct |-> f[ct[i]]], {f[s] : s \in C})
    BY <1>2, <2>1, ListsImage
  <2> QED BY <2>2, <2>3, <2>4, Zenon
<1>12. Lists(later, LaterSteps(from, to))
  <2> DEFINE K == {s \in C : DelayedOf(from, to, s.table) # {}}
             f == [s \in K |-> AlterTable(s.table, to.def[s.table], {}, DelayedOf(from, to, s.table), {})]
  <2>1. [i \in DOMAIN ct |-> IF Delayed(ct[i]) # {} THEN <<ct[i]>> ELSE <<>>] = Parts(ct, K)
    <3> HIDE DEF C, ct
    <3> QED BY <1>3, <1>7, Zenon DEF Parts
  <2>2. late = FlattenSeq(Parts(ct, K))
    BY <2>1, Zenon DEF Filter, MapSeq
  <2>3. C \cap K = K
    BY Zenon
  <2>4. Lists(FlattenSeq(Parts(ct, K)), C \cap K)
    BY <1>2, ListsFiltered, Zenon
  <2>5. Lists(late, K)
    BY <2>2, <2>3, <2>4, Zenon
  <2> HIDE DEF late, ct
  <2>6. \A i \in DOMAIN late : late[i] \in K
    BY <2>5 DEF Lists
  <2>7. \A s, u \in K : f[s] = f[u] => s = u
    <3> SUFFICES ASSUME NEW s \in K, NEW u \in K,
                        AlterTable(s.table, to.def[s.table], {}, DelayedOf(from, to, s.table), {})
                          = AlterTable(u.table, to.def[u.table], {}, DelayedOf(from, to, u.table), {})
                 PROVE  s = u
      BY Zenon
    <3>1. AlterTable(s.table, to.def[s.table], {}, DelayedOf(from, to, s.table), {}).table
            = AlterTable(u.table, to.def[u.table], {}, DelayedOf(from, to, u.table), {}).table
      BY Zenon
    <3>2. s.table = u.table
      BY <3>1, Zenon DEF AlterTable
    <3> QED BY <1>10, <3>2, Zenon
  <2>8. {f[s] : s \in K} = LaterSteps(from, to)
    <3> HIDE DEF C
    <3> QED BY <1>4, <1>5, Zenon DEF LaterSteps, N
  <2>9. [i \in DOMAIN late |-> f[late[i]]] = later
    <3>1. \A i \in DOMAIN late : f[late[i]] = Later(late[i])
      <4> HIDE DEF C
      <4> QED BY <1>9, <2>6, Zenon
    <3> HIDE DEF f
    <3> QED BY <3>1, Zenon DEF MapSeq
  <2> HIDE DEF f, K, later
  <2>10. Lists([i \in DOMAIN late |-> f[late[i]]], {f[s] : s \in K})
    BY <2>5, <2>7, ListsImage
  <2> QED BY <2>8, <2>9, <2>10, Zenon
<1>13. AlterSteps(from, to) \cap LaterSteps(from, to) = {}
  <2>1. \A s \in AlterSteps(from, to) : s.table \in DOMAIN from.def
    BY StepFields DEF Both, ChangeOf, AlterTable
  <2>2. \A s \in LaterSteps(from, to) : s.table \notin DOMAIN from.def
    BY LaterTables, Zenon
  <2> QED BY <2>1, <2>2, Zenon
<1>14. Lists(d.alterTables \o later, AlterSteps(from, to) \cup LaterSteps(from, to))
  <2>1. Lists(d.alterTables, AlterSteps(from, to))
    BY AlterTablesList, Zenon
  <2> HIDE DEF later, d
  <2> QED BY <1>12, <1>13, <2>1, ListsConcat, Zenon
<1>15. /\ e.dropIndexes = d.dropIndexes /\ e.dropTables = d.dropTables
       /\ e.createTables = trimmed /\ e.alterTables = d.alterTables \o later
       /\ e.createIndexes = d.createIndexes /\ e.alterIndexes = d.alterIndexes
       /\ d.alterIndexes = AlterIndexes(from, to)
  <2> DEFINE mid == [d EXCEPT !.createTables = trimmed]
  <2>1. d = [dropIndexes |-> d.dropIndexes, dropTables |-> d.dropTables,
             createTables |-> d.createTables, alterTables |-> d.alterTables,
             createIndexes |-> d.createIndexes, alterIndexes |-> d.alterIndexes]
        /\ d.alterIndexes = AlterIndexes(from, to)
    BY Zenon DEF Diff
  <2> HIDE DEF d, trimmed, later
  <2>2. mid = [dropIndexes |-> d.dropIndexes, dropTables |-> d.dropTables,
             createTables |-> trimmed, alterTables |-> d.alterTables,
             createIndexes |-> d.createIndexes, alterIndexes |-> d.alterIndexes]
    BY <2>1
  <2>3. e = [mid EXCEPT !.alterTables = @ \o later]
    BY Zenon DEF trimmed
  <2> HIDE DEF mid, e
  <2>4. e = [dropIndexes |-> d.dropIndexes, dropTables |-> d.dropTables,
             createTables |-> trimmed, alterTables |-> d.alterTables \o later,
             createIndexes |-> d.createIndexes, alterIndexes |-> d.alterIndexes]
    BY <2>2, <2>3, Zenon
  <2> QED BY <2>1, <2>4, Zenon
<1>16. /\ Lists(d.dropIndexes, DropIndexSteps(from, to)) /\ Lists(d.dropTables, DropSteps(from, to))
       /\ Lists(d.createIndexes, CreateIndexSteps(from, to))
       /\ Lists(AlterIndexes(from, to), RenameSteps(from, to))
  BY DropIndexesList, DropTablesList, CreateIndexesList, AlterIndexesList, Zenon
<1> HIDE DEF d, e, trimmed, later
<1>17. /\ Lists(e.dropIndexes, DropIndexSteps(from, to)) /\ Lists(e.dropTables, DropSteps(from, to))
       /\ Lists(e.createTables, TrimmedSteps(from, to))
       /\ Lists(e.alterTables, AlterSteps(from, to) \cup LaterSteps(from, to))
       /\ Lists(e.createIndexes, CreateIndexSteps(from, to))
       /\ Lists(e.alterIndexes, RenameSteps(from, to))
  BY ONLY <1>11, <1>14, <1>15, <1>16, Zenon
<1>18. /\ \A x \in DropIndexSteps(from, to) : x.step = "DropIndex"
       /\ \A x \in DropSteps(from, to) : x.step = "DropTables"
       /\ \A x \in TrimmedSteps(from, to) : x.step = "CreateTable"
       /\ \A x \in AlterSteps(from, to) \cup LaterSteps(from, to) : x.step = "AlterTable"
       /\ \A x \in CreateIndexSteps(from, to) : x.step = "CreateIndex"
       /\ \A x \in RenameSteps(from, to) : x.step = "AlterIndex"
  <2>1. \A x \in TrimmedSteps(from, to) : x.step = "CreateTable"
    BY DEF TrimmedSteps, CreateTable
  <2>2. \A x \in LaterSteps(from, to) : x.step = "AlterTable"
    BY DEF LaterSteps, AlterTable
  <2> QED BY <2>1, <2>2, StepFields
<1>19. Lists(IntoSteps(e), DelayedSteps(from, to)) /\ Sorted(IntoSteps(e))
  BY ONLY <1>17, <1>18, IntoStepsList DEF DelayedSteps
<1> QED BY <1>1, <1>19, Zenon DEF d

\* The program of PostgreSQL: all tables are dropped first when an id changes its type.
LEMMA PostgresProgram ==
    ASSUME Inductive, Enumerated, Family = "postgres", NEW from, NEW to, SchemaOK(from), SchemaOK(to)
    PROVE  /\ ~IdChanges(from, to) =>
                 /\ Lists(CorrectedSteps(from, to), DelayedSteps(from, to))
                 /\ Sorted(CorrectedSteps(from, to))
           /\ IdChanges(from, to) =>
                 \E rest : /\ CorrectedSteps(from, to) = <<DropTables(DOMAIN from.def)>> \o rest
                           /\ Lists(rest, DelayedSteps(Schema(<<>>, <<>>), to))
                           /\ Sorted(rest)
<1> DEFINE ss == DelayForeignKeyCreation(Diff(from, to))
           rest == DelayForeignKeyCreation(Diff(Schema(<<>>, <<>>), to))
           Changes(s) == /\ s.step = "AlterTable"
                         /\ s.table \in DOMAIN from.def
                         /\ \E c \in s.alter \cap from.def[s.table].pk :
                               from.def[s.table].columns[c].family # s.def.columns[c].family
<1>1. Lists(ss, DelayedSteps(from, to)) /\ Sorted(ss)
  BY DelayedList, Zenon
<1>2. Lists(rest, DelayedSteps(Schema(<<>>, <<>>), to)) /\ Sorted(rest)
  BY EmptySchema, DelayedList, Zenon
<1>3. CorrectedSteps(from, to) =
          IF \E i \in DOMAIN ss : Changes(ss[i])
          THEN <<DropTables(DOMAIN from.def)>> \o rest ELSE ss
  BY Zenon DEF CorrectedSteps, FixIdColumnTypeChange
<1> HIDE DEF ss, rest
<1>4. (\E i \in DOMAIN ss : Changes(ss[i])) <=> \E s \in DelayedSteps(from, to) : Changes(s)
  <2>1. Range(ss) = DelayedSteps(from, to)
    BY <1>1, Zenon DEF Lists
  <2>2. \A x : x \in Range(ss) <=> \E i \in DOMAIN ss : ss[i] = x
    BY Zenon DEF Range
  <2> HIDE DEF Changes
  <2> QED BY <2>1, <2>2, Zenon
<1>5. (\E s \in DelayedSteps(from, to) : Changes(s)) <=> IdChanges(from, to)
  <2>1. \A s \in AlterSteps(from, to) : s.step = "AlterTable" /\ s.table \in DOMAIN from.def
    BY StepFields DEF Both, ChangeOf, AlterTable
  <2>2. \A s \in LaterSteps(from, to) : s.table \notin DOMAIN from.def
    BY LaterTables, Zenon
  <2>3. \A s \in TrimmedSteps(from, to) : s.step # "AlterTable"
    BY DEF TrimmedSteps, CreateTable
  <2>4. \A s \in DropIndexSteps(from, to) \cup DropSteps(from, to) \cup CreateIndexSteps(from, to)
                  \cup RenameSteps(from, to) : s.step # "AlterTable"
    BY StepFields
  <2> QED BY <2>1, <2>2, <2>3, <2>4, Zenon DEF DelayedSteps, IdChanges
<1> HIDE DEF Changes
<1> QED BY <1>1, <1>2, <1>3, <1>4, <1>5, Zenon

-----------------------------------------------------------------------------
(* The statements of a migration are well-formed.                          *)

\* A statement of SQLite's program is a step of the differ or one of fix()'s.
LEMMA StatementIs ==
    ASSUME Inductive, Enumerated, Family = "sqlite", NEW from, NEW to, Paired(from, to),
           NEW n, NEW s, NEW j, Current(from, to, n, s, j)
    PROVE  LET h == CorrectedSteps(from, to)[n]
           IN  \/ ~Rewrites(s) /\ h = s /\ j = 1 /\ Len(Block(from, to, s)) = 1
               \/ /\ Rewrites(s) /\ s.table \in Both(from, to) /\ s.table \in FinalTables
                  /\ Len(IndexList(to.def[s.table])) \in Nat
                  /\ Lists(IndexList(to.def[s.table]), DOMAIN to.def[s.table].indices)
                  /\ Len(Block(from, to, s)) = Len(IndexList(to.def[s.table])) + 6
                  /\ Rewriting(from, to, s.table, j, h)
<1> DEFINE h == CorrectedSteps(from, to)[n]
           b == Block(from, to, s)
           next == to.def[s.table]
           q == IndexList(next)
<1>1. SchemaOK(from) /\ SchemaOK(to)
  BY Zenon DEF Paired
<1>2. /\ h = b[j] /\ s \in Effective(from, to) /\ j \in 1 .. Len(b)
  <2>1. Progress(from, to, n, s, j)
    BY <1>1, SqliteStep, Zenon
  <2> QED BY <2>1, Zenon DEF Progress
<1>3. s \in DiffSteps(from, to) /\ b # <<>>
  BY <1>2, Zenon DEF Effective
<1>4. CASE ~Rewrites(s)
  <2>1. b = <<s>>
    BY <1>3, <1>4, Zenon DEF Block
  <2>2. Len(b) = 1
    BY <2>1
  <2>3. j = 1
    BY <1>2, <2>2
  <2>4. h = s
    BY <1>2, <2>1, <2>3
  <2> QED BY <1>4, <2>2, <2>3, <2>4, Zenon
<1>5. CASE Rewrites(s)
  <2>1. s.table \in Both(from, to)
    BY <1>1, <1>3, <1>5, RewrittenTable, Zenon
  <2>2. s.table \in FinalTables
    BY <2>1 DEF Both, Paired
  <2>3. IsFiniteSet(DOMAIN next.indices)
    BY <1>1, <2>1, Zenon DEF Both, SchemaOK, DefOK, TableOK
  <2>4. b = Fix(from.def[s.table], next, s.table)
    BY <1>5, Zenon DEF Block
  <2> DEFINE F == Fix(from.def[s.table], next, s.table)
             t == s.table
  <2>5. /\ Lists(q, DOMAIN next.indices) /\ Len(q) \in Nat
        /\ Len(F) = Len(q) + 6
        /\ F[1] = SwitchOff
        /\ F[2] = CreateTable(Temporary(t), [next EXCEPT !.indices = NoIndices])
        /\ F[3] = CopyRows(t, Temporary(t), DOMAIN from.def[t].columns \cap DOMAIN next.columns)
        /\ F[4] = DropTables({t})
        /\ F[5] = RenameTable(Temporary(t), t)
        /\ \A i \in 1 .. Len(q) : F[i + 5] = CreateIndex(t, q[i], next.indices[q[i]])
        /\ F[Len(q) + 6] = SwitchOn
    <3>1. /\ Lists(q, DOMAIN next.indices) /\ Len(q) \in Nat
          /\ FixForm(F, from.def[t], next, t)
      BY <2>3, FixShape, Zenon
    <3> HIDE DEF F, next
    <3> QED BY <3>1, Zenon DEF FixForm
  <2> HIDE DEF F, q, b, h
  <2>6. h = F[j] /\ j \in 1 .. Len(q) + 6
    BY <1>2, <2>4, <2>5, Zenon DEF F
  <2>7. j \in 6 .. Len(q) + 5 => j - 5 \in 1 .. Len(q) /\ (j - 5) + 5 = j
    BY <2>5, <2>6
  <2>8. j \in 6 .. Len(q) + 5 => h = CreateIndex(t, q[j - 5], next.indices[q[j - 5]])
    <3> SUFFICES ASSUME j \in 6 .. Len(q) + 5
                 PROVE  h = CreateIndex(t, q[j - 5], next.indices[q[j - 5]])
      BY Zenon
    <3>1. F[(j - 5) + 5] = CreateIndex(t, q[j - 5], next.indices[q[j - 5]])
      BY <2>5, <2>7, Zenon
    <3> QED BY <2>6, <2>7, <3>1, Zenon
  <2>9. j \in 1 .. 5 \/ j \in 6 .. Len(q) + 5 \/ j = Len(q) + 6
    BY <2>5, <2>6
  <2>91. j \in 1 .. 5 => j = 1 \/ j = 2 \/ j = 3 \/ j = 4 \/ j = 5
    OBVIOUS
  <2>10. Rewriting(from, to, t, j, h)
    BY <2>5, <2>6, <2>8, <2>9, <2>91, Zenon DEF Rewriting, q
  <2>11. Len(b) = Len(q) + 6
    BY <2>4, <2>5, Zenon DEF F
  <2> QED BY <1>5, <2>1, <2>2, <2>5, <2>10, <2>11, Zenon DEF h, q, b
<1> QED BY <1>4, <1>5, Zenon

\* The steps of the differ are proper ones.
LEMMA DiffStepsOK ==
    ASSUME NEW from, NEW to, SchemaOK(from), SchemaOK(to), NEW s \in DiffSteps(from, to)
    PROVE  StepOK(s)
<1>0. /\ \A t \in DOMAIN to.def : t \in AllTables /\ TableOK(t, to.def[t])
      /\ \A t \in DOMAIN from.def : t \in AllTables /\ TableOK(t, from.def[t])
  BY Zenon DEF SchemaOK, DefOK
<1>1. CASE s \in DropIndexSteps(from, to) \cup DropSteps(from, to)
  BY <1>1, StepFields DEF StepOK
<1>2. CASE s \in CreateSteps(from, to)
  <2>1. PICK t \in DOMAIN to.def \ DOMAIN from.def : s = CreateTable(t, to.def[t])
    BY <1>2, StepFields
  <2>2. s.step = "CreateTable" /\ s.table = t /\ s.def = to.def[t]
    BY <2>1, Zenon DEF CreateTable
  <2> QED BY <1>0, <2>2, Zenon DEF StepOK
<1>3. CASE s \in AlterSteps(from, to)
  <2>1. PICK t \in Both(from, to) : s = ChangeOf(from, to, t)
    BY <1>3, StepFields
  <2>2. /\ s.step = "AlterTable" /\ s.table = t /\ s.def = to.def[t]
        /\ s.drop = DOMAIN from.def[t].columns \ DOMAIN to.def[t].columns
        /\ s.add = DOMAIN to.def[t].columns \ DOMAIN from.def[t].columns
        /\ s.alter \subseteq DOMAIN from.def[t].columns \cap DOMAIN to.def[t].columns
    BY <2>1, Zenon DEF ChangeOf, AlterTable
  <2>3. s.add \cup s.alter \subseteq DOMAIN s.def.columns /\ s.drop \cap s.alter = {}
    BY <2>2, Zenon
  <2> QED BY <1>0, <2>2, <2>3, Zenon DEF StepOK, Both
<1>4. CASE s \in CreateIndexSteps(from, to)
  <2>1. PICK t \in DOMAIN to.def : \E i \in NewIndexes(from, to, t) :
                       s = CreateIndex(t, i, to.def[t].indices[i])
    BY <1>4, StepFields
  <2>2. PICK i \in NewIndexes(from, to, t) : s = CreateIndex(t, i, to.def[t].indices[i])
    BY <2>1, Zenon
  <2>3. i \in DOMAIN to.def[t].indices
    BY Zenon DEF NewIndexes, IndexNames
  <2>4. to.def[t].indices[i] = IndexOf(Base(t)) /\ i \in NamesOf(Base(t))
    BY <1>0, <2>3, Zenon DEF TableOK
  <2>5. s.step = "CreateIndex" /\ s.table = t /\ s.index = i /\ s.def = to.def[t].indices[i]
    BY <2>2, Zenon DEF CreateIndex
  <2> QED BY <2>4, <2>5, Zenon DEF StepOK
<1>5. CASE s \in RenameSteps(from, to)
  <2>1. PICK t \in Both(from, to) : \E r \in Renamed(from, to, t) : s = AlterIndex(t, r[1], r[2])
    BY <1>5, StepFields
  <2>2. PICK r \in Renamed(from, to, t) : s = AlterIndex(t, r[1], r[2])
    BY <2>1, Zenon
  <2>3. r[2] \in DOMAIN to.def[t].indices
    BY DEF Renamed, Equivalents
  <2>4. r[2] \in NamesOf(Base(t))
    BY <1>0, <2>3, Zenon DEF TableOK, Both
  <2>5. s.step = "AlterIndex" /\ s.table = t /\ s.new = r[2]
    BY <2>2, Zenon DEF AlterIndex
  <2> QED BY <2>4, <2>5, Zenon DEF StepOK
<1> QED BY <1>1, <1>2, <1>3, <1>4, <1>5, Zenon DEF DiffSteps

\* The statements of fix() are proper ones.
LEMMA RewritingOK ==
    ASSUME NEW from, NEW to, Paired(from, to), NEW t \in Both(from, to), t \in FinalTables,
           NEW j, NEW h, Rewriting(from, to, t, j, h),
           Lists(IndexList(to.def[t]), DOMAIN to.def[t].indices)
    PROVE  StepOK(h)
<1> DEFINE next == to.def[t]
           q == IndexList(next)
<1>1. TableOK(t, next)
  BY Zenon DEF Paired, SchemaOK, DefOK, Both
<1>2. /\ Temporary(t) \in AllTables /\ t \in AllTables
      /\ Base(Temporary(t)) = t /\ Base(t) = t
  BY FinalBase, Zenon DEF AllTables
<1>3. CASE h = SwitchOff \/ h = SwitchOn
  BY <1>3, SwitchFields, Zenon DEF StepOK
<1>4. CASE h = CreateTable(Temporary(t), [next EXCEPT !.indices = NoIndices])
  <2> DEFINE d == [next EXCEPT !.indices = NoIndices]
  <2>1. /\ NoIndices \in [DOMAIN NoIndices -> {IndexOf(Base(t))}] /\ IsFiniteSet(DOMAIN NoIndices)
        /\ DOMAIN NoIndices \subseteq NamesOf(Base(t))
    BY FiniteNone, Zenon
  <2>2. TableOK(t, d)
    BY <1>1, <2>1, IndexedTableOK, Zenon
  <2>3. TableOK(Temporary(t), d)
    BY <1>2, <2>2, Zenon DEF TableOK
  <2> HIDE DEF d
  <2>4. h.step = "CreateTable" /\ h.table = Temporary(t) /\ h.def = d
    BY <1>4, Zenon DEF CreateTable, d
  <2> QED BY <1>2, <2>3, <2>4, Zenon DEF StepOK
<1>5. CASE h = CopyRows(t, Temporary(t), DOMAIN from.def[t].columns \cap DOMAIN next.columns)
  BY <1>5, Zenon DEF CopyRows, StepOK
<1>6. CASE h = DropTables({t})
  BY <1>6, Zenon DEF DropTables, StepOK
<1>7. CASE h = RenameTable(Temporary(t), t)
  <2>1. h.step = "RenameTable" /\ h.table = Temporary(t) /\ h.new = t
    BY <1>7, Zenon DEF RenameTable
  <2> QED BY <1>2, <2>1, Zenon DEF StepOK
<1>8. CASE j \in 6 .. Len(q) + 5 /\ h = CreateIndex(t, q[j - 5], next.indices[q[j - 5]])
  <2> DEFINE i == q[j - 5]
  <2>1. q \in Seq(DOMAIN next.indices)
    BY Zenon DEF Lists
  <2> HIDE DEF q
  <2>2. Len(q) \in Nat /\ j - 5 \in 1 .. Len(q)
    BY <1>8, <2>1
  <2>3. i \in DOMAIN next.indices
    BY <2>1, <2>2
  <2>4. next.indices[i] = IndexOf(Base(t)) /\ i \in NamesOf(Base(t))
    BY <1>1, <2>3, Zenon DEF TableOK
  <2> HIDE DEF i
  <2>5. h.step = "CreateIndex" /\ h.table = t /\ h.index = i /\ h.def = next.indices[i]
    BY <1>8, Zenon DEF CreateIndex, i
  <2> QED BY <2>4, <2>5, Zenon DEF StepOK
<1> QED BY <1>3, <1>4, <1>5, <1>6, <1>7, <1>8, Zenon DEF Rewriting

\* All statements of SQLite's program are proper ones.
LEMMA SqliteStepsOK ==
    ASSUME Inductive, Enumerated, Family = "sqlite", NEW from, NEW to, Paired(from, to)
    PROVE  \A n \in 1 .. Len(CorrectedSteps(from, to)) : StepOK(CorrectedSteps(from, to)[n])
<1> SUFFICES ASSUME NEW n \in 1 .. Len(CorrectedSteps(from, to))
             PROVE  StepOK(CorrectedSteps(from, to)[n])
  BY Zenon
<1> DEFINE h == CorrectedSteps(from, to)[n]
<1>1. SchemaOK(from) /\ SchemaOK(to)
  BY Zenon DEF Paired
<1>2. \E s, j : Current(from, to, n, s, j)
  BY <1>1, SqliteEnds, Zenon
<1>3. PICK s, j : Current(from, to, n, s, j)
  BY <1>2, Zenon
<1>4. s \in DiffSteps(from, to)
  <2>1. Progress(from, to, n, s, j)
    BY <1>1, <1>3, SqliteStep, Zenon
  <2> QED BY <2>1, Zenon DEF Progress, Effective
<1>5. \/ h = s
      \/ /\ s.table \in Both(from, to) /\ s.table \in FinalTables
         /\ Lists(IndexList(to.def[s.table]), DOMAIN to.def[s.table].indices)
         /\ Rewriting(from, to, s.table, j, h)
  BY <1>3, StatementIs, Zenon
<1> HIDE DEF h
<1>6. ASSUME h = s
      PROVE  StepOK(h)
  BY <1>1, <1>4, <1>6, DiffStepsOK, Zenon
<1>7. ASSUME h # s
      PROVE  StepOK(h)
  BY <1>5, <1>7, RewritingOK, Zenon
<1> QED BY <1>6, <1>7, Zenon DEF h

\* The steps of delay_foreign_key_creation() are proper ones.
LEMMA DelayedStepsOK ==
    ASSUME NEW from, NEW to, SchemaOK(from), SchemaOK(to), NEW s \in DelayedSteps(from, to)
    PROVE  StepOK(s)
<1>1. CASE s \in DiffSteps(from, to)
  BY <1>1, DiffStepsOK, Zenon
<1>2. \A t \in DOMAIN to.def : t \in AllTables /\ TableOK(t, to.def[t])
  BY Zenon DEF SchemaOK, DefOK
<1>3. CASE s \in TrimmedSteps(from, to)
  <2>1. PICK t \in DOMAIN to.def : s = CreateTable(t, TrimmedDef(from, to, t))
    BY <1>3, Zenon DEF TrimmedSteps, NewTables
  <2> DEFINE d == to.def[t]
             D == DOMAIN d.columns \ DelayedOf(from, to, t)
             cols == [c \in D |-> d.columns[c]]
             new == [d EXCEPT !.columns = cols]
  <2>2. /\ d = [columns |-> d.columns, pk |-> d.pk, indices |-> d.indices]
        /\ d.columns \in [DOMAIN d.columns -> Column] /\ IsFiniteSet(DOMAIN d.columns)
    BY <1>2, Zenon DEF TableOK
  <2>3. cols \in [D -> Column] /\ DOMAIN cols = D /\ IsFiniteSet(D)
    BY <2>2, FiniteSubset, Zenon
  <2> HIDE DEF cols
  <2>4. new = [columns |-> cols, pk |-> d.pk, indices |-> d.indices]
    BY <2>2
  <2>5. TrimmedDef(from, to, t) = new
    BY Zenon DEF TrimmedDef, cols
  <2> HIDE DEF D, new
  <2>6. /\ new = [columns |-> new.columns, pk |-> new.pk, indices |-> new.indices]
        /\ new.columns = cols /\ new.pk = d.pk /\ new.indices = d.indices
    BY <2>4, Zenon
  <2>7. TableOK(t, new)
    BY <1>2, <2>3, <2>6, Zenon DEF TableOK
  <2>8. s.step = "CreateTable" /\ s.table = t /\ s.def = new
    BY <2>1, <2>5, Zenon DEF CreateTable
  <2> QED BY <1>2, <2>7, <2>8, Zenon DEF StepOK
<1>4. CASE s \in LaterSteps(from, to)
  <2>1. PICK t \in DOMAIN to.def : s = AlterTable(t, to.def[t], {}, DelayedOf(from, to, t), {})
    BY <1>4, Zenon DEF LaterSteps, NewTables
  <2>2. /\ s.step = "AlterTable" /\ s.table = t /\ s.def = to.def[t] /\ s.drop = {} /\ s.alter = {}
        /\ s.add = DelayedOf(from, to, t)
    BY <2>1, Zenon DEF AlterTable
  <2>3. DelayedOf(from, to, t) \subseteq DOMAIN to.def[t].columns
    BY Zenon DEF DelayedOf
  <2>4. s.add \cup s.alter \subseteq DOMAIN s.def.columns /\ s.drop \cap s.alter = {}
    BY <2>2, <2>3, Zenon
  <2>5. s.table \in AllTables /\ TableOK(s.table, s.def)
    BY <1>2, <2>2, Zenon
  <2> QED BY <2>2, <2>4, <2>5, Zenon DEF StepOK
<1> QED BY <1>1, <1>3, <1>4, Zenon DEF DelayedSteps, DiffSteps

\* Every statement of a migration is well-formed.
LEMMA StatementsOK ==
    ASSUME Inductive, Enumerated, NEW from, NEW to, Paired(from, to)
    PROVE  LET All == CorrectedSteps(from, to)
           IN  /\ \E X : All \in Seq(X)
               /\ \A n \in 1 .. Len(All) : StepOK(All[n])
<1> DEFINE All == CorrectedSteps(from, to)
<1>1. SchemaOK(from) /\ SchemaOK(to)
  BY Zenon DEF Paired
<1>2. CASE Family = "sqlite"
  BY <1>1, <1>2, SqliteEnds, SqliteStepsOK, Zenon
<1>3. CASE Family = "postgres"
  <2>1. CASE ~IdChanges(from, to)
    <3>1. Lists(All, DelayedSteps(from, to))
      BY <1>1, <1>3, <2>1, PostgresProgram, Zenon
    <3> HIDE DEF All
    <3>2. All \in Seq(DelayedSteps(from, to))
      BY <3>1, Zenon DEF Lists
    <3>3. \A n \in 1 .. Len(All) : All[n] \in DelayedSteps(from, to)
      BY <3>2
    <3> QED BY <1>1, <3>2, <3>3, DelayedStepsOK, Zenon DEF All
  <2>2. CASE IdChanges(from, to)
    <3> DEFINE none == Schema(<<>>, <<>>)
    <3>1. PICK rest : /\ All = <<DropTables(DOMAIN from.def)>> \o rest
                      /\ Lists(rest, DelayedSteps(none, to))
      BY <1>1, <1>3, <2>2, PostgresProgram, Zenon
    <3>2. SchemaOK(none)
      BY EmptySchema, Zenon
    <3> HIDE DEF All, none
    <3> DEFINE D == DelayedSteps(none, to)
               x == DropTables(DOMAIN from.def)
    <3>3. rest \in Seq(D)
      BY <3>1, Zenon DEF Lists
    <3>4. StepOK(x)
      BY Zenon DEF StepOK, DropTables
    <3>5. \A s \in D : StepOK(s)
      BY <1>1, <3>2, DelayedStepsOK, Zenon
    <3> HIDE DEF x, D
    <3>6. <<x>> \o rest \in Seq(D \cup {x})
      <4>1. rest \in Seq(D \cup {x}) /\ <<x>> \in Seq(D \cup {x})
        BY <3>3
      <4> QED BY <4>1
    <3>7. \A n \in 1 .. Len(<<x>> \o rest) : (<<x>> \o rest)[n] \in D \cup {x}
      BY <3>6
    <3>8. All = <<x>> \o rest
      BY <3>1, Zenon DEF x
    <3>9. \A n \in 1 .. Len(All) : StepOK(All[n])
      BY <3>4, <3>5, <3>7, <3>8, Zenon
    <3> QED BY <3>6, <3>8, <3>9, Zenon DEF All
  <2> QED BY <2>1, <2>2, Zenon
<1> QED BY <1>2, <1>3, SqlAssumption, Zenon

\* All of it together, as the execution of a migration needs it.
LEMMA PlansHold ==
    ASSUME Inductive, Enumerated
    PROVE  PlanFacts
<1>1. \A def : DefOK(def) => /\ SchemaOK(Schema(DescriberOrder, def))
                            /\ Schema(DescriberOrder, def).def = def
  BY DescribedSchema, Zenon
<1>2. \A dm \in UNION Projects : Calculated(Calculate(dm))
  BY CalculateOK, Zenon
<1>3. \A from, to : SchemaOK(from) /\ SchemaOK(to) =>
          /\ Lists(OriginalSteps(from, to), DiffSteps(from, to))
          /\ Sorted(OriginalSteps(from, to))
  BY OriginalList, Zenon
<1>4. \A from, to : Family = "sqlite" /\ SchemaOK(from) /\ SchemaOK(to) =>
          /\ Len(CorrectedSteps(from, to)) \in Nat
          /\ \E X : CorrectedSteps(from, to) \in Seq(X)
          /\ Calm(from, to, 1) /\ Todo(from, to, 1) = Effective(from, to)
          /\ Todo(from, to, Len(CorrectedSteps(from, to)) + 1) = {}
          /\ \A n \in 1 .. Len(CorrectedSteps(from, to)) : \E s, j : Current(from, to, n, s, j)
          /\ \A n, s, j : Current(from, to, n, s, j) => Progress(from, to, n, s, j)
  <2> SUFFICES ASSUME Family = "sqlite", NEW from, NEW to, SchemaOK(from), SchemaOK(to)
               PROVE  /\ Len(CorrectedSteps(from, to)) \in Nat
                      /\ \E X : CorrectedSteps(from, to) \in Seq(X)
                      /\ Calm(from, to, 1) /\ Todo(from, to, 1) = Effective(from, to)
                      /\ Todo(from, to, Len(CorrectedSteps(from, to)) + 1) = {}
                      /\ \A n \in 1 .. Len(CorrectedSteps(from, to)) :
                            \E s, j : Current(from, to, n, s, j)
                      /\ \A n, s, j : Current(from, to, n, s, j) => Progress(from, to, n, s, j)
    BY Zenon
  <2>1. \A n, s, j : Current(from, to, n, s, j) => Progress(from, to, n, s, j)
    BY SqliteStep, Zenon
  <2> QED BY <2>1, SqliteEnds, Zenon
<1>5. \A from, to : Family = "postgres" /\ SchemaOK(from) /\ SchemaOK(to) =>
          /\ ~IdChanges(from, to) =>
                /\ Lists(CorrectedSteps(from, to), DelayedSteps(from, to))
                /\ Sorted(CorrectedSteps(from, to))
          /\ IdChanges(from, to) =>
                \E rest : /\ CorrectedSteps(from, to) = <<DropTables(DOMAIN from.def)>> \o rest
                          /\ Lists(rest, DelayedSteps(Schema(<<>>, <<>>), to))
                          /\ Sorted(rest)
  BY PostgresProgram, Zenon
<1>6. \A from, to : Paired(from, to) =>
          /\ \E X : CorrectedSteps(from, to) \in Seq(X)
          /\ \A n \in 1 .. Len(CorrectedSteps(from, to)) : StepOK(CorrectedSteps(from, to)[n])
  BY StatementsOK, Zenon
<1>7. \A from, to : Family = "sqlite" /\ Paired(from, to) => \A n, s, j :
          Current(from, to, n, s, j) => Statement(from, to, s, j, CorrectedSteps(from, to)[n])
  BY StatementIs, Zenon DEF Statement
<1> QED BY <1>1, <1>2, <1>3, <1>4, <1>5, <1>6, <1>7, EmptySchema, Zenon DEF PlanFacts

=============================================================================
