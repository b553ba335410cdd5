--------------------------- MODULE MCSqlMigration ---------------------------
(***************************************************************************)
(* Datamodels for model checking SqlMigration.                             *)
(***************************************************************************)
EXTENDS SqlMigration

CONSTANTS a, b

MCModelOrder == <<b, a>>

\* Ordered by name, as the describers do: a, a_list, b, b_list, ...
MCDescriberOrder ==
    <<a, ListTable(a), b, ListTable(b), RelationTable,
      Temporary(a), Temporary(ListTable(a)), Temporary(b), Temporary(ListTable(b)),
      Temporary(RelationTable)>>

Plain == [id |-> "Int", field |-> None, arity |-> "Nullable", indexes |-> {},
          link |-> None, required |-> "Nullable", list |-> FALSE]

NoModels == {[model |-> [m \in {} |-> Plain], manyToMany |-> FALSE]}

\* One model: its id type, a field of any type and arity, with or without an
\* index under one of two names, or a scalar list.
FieldModels ==
    {d \in [id: Types, field: Types \cup {None}, arity: {"Required", "Nullable"},
            indexes: {{}, {"i1"}, {"i2"}}, link: {None}, required: {"Nullable"},
            list: BOOLEAN] :
        /\ d.field = None => d.arity = "Nullable" /\ d.indexes = {}
        /\ d.list => d.indexes = {}}

FieldDatamodels ==
    {[model |-> [m \in {a} |-> d], manyToMany |-> FALSE] : d \in FieldModels}
        \cup NoModels

\* Two models with inline relations and a many-to-many relation.
RelationModels(ids, arities) ==
    {d \in [id: ids, field: {None}, arity: {"Nullable"}, indexes: {{}},
            link: {a, b, None}, required: arities, list: {FALSE}] :
        d.link = None => d.required = "Nullable"}

Pairs(ids, arities) ==
    {[model |-> [m \in {a, b} |-> IF m = a THEN d ELSE e], manyToMany |-> r] :
        d \in RelationModels(ids, arities), e \in RelationModels(ids, arities),
        r \in BOOLEAN}

\* A many-to-many relation besides a required or a circular inline one.
Tangled(dm) ==
    /\ dm.manyToMany
    /\ \E m \in DOMAIN dm.model :
          dm.model[m].required = "Required" \/ dm.model[m].link = m

Singles(ids, arities) ==
    UNION {{[model |-> [m \in {x} |-> d], manyToMany |-> FALSE] :
                d \in {y \in RelationModels(ids, arities) : y.link \in {x, None}}} :
           x \in {a, b}}

\* Relations change, with ids of one type; then ids change their type.
RelationDatamodels ==
    {dm \in Pairs({"Int"}, {"Required", "Nullable"}) : ~Tangled(dm)}
        \cup Singles({"Int"}, {"Required", "Nullable"}) \cup NoModels

IdDatamodels ==
    {dm \in Pairs(Types, {"Nullable"}) \cup Singles(Types, {"Nullable"}) :
        a \in DOMAIN dm.model => dm.model[a].link = None}

\* For SQLite: two indexes on one column, and two optional columns that appear together.
EdgeDatamodels ==
    {[model |-> [m \in {a} |-> [Plain EXCEPT !.field = "Int", !.indexes = {"i1", "i2"},
                                            !.link = l]],
      manyToMany |-> FALSE] : l \in {None, a}}
    \cup
    {[model |-> [m \in {a} |-> [Plain EXCEPT !.field = f, !.link = l]],
      manyToMany |-> FALSE] : f \in {None, "Int"}, l \in {None, a}}

FieldProjects == {FieldDatamodels}
RelationProjects == {RelationDatamodels}
IdProjects == {IdDatamodels}
PostgresProjects == FieldProjects \cup RelationProjects \cup IdProjects
SqliteProjects == FieldProjects \cup RelationProjects \cup {EdgeDatamodels}
=============================================================================
