-------------------------- MODULE SqlIntrospection --------------------------
(***************************************************************************)
(* From a datamodel to a SQL schema and back: the schema the migration     *)
(* engine calculates, what the SQLite describer finds once the schema has  *)
(* been rendered and created, and the datamodel the introspection engine   *)
(* calculates from that.                                                   *)
(*                                                                         *)
(* A column is [name, family, arity, default, auto]; a foreign key has one *)
(* column, as every foreign key the calculator writes.                     *)
(***************************************************************************)
EXTENDS InternalDataModel

(* A loop with `?`: the first step that does not succeed ends it.           *)
InOrder(results) ==
    LET stop == SelectInSeq(results, LAMBDA r : r.st # "ok") IN
    IF stop = 0 THEN Ok([i \in DOMAIN results |-> results[i].v]) ELSE results[stop]

-----------------------------------------------------------------------------
(* SqlSchemaCalculator.                                                     *)

id_field(model) ==
    IF singular_id_fields(model) = <<>> THEN Err ELSE Ok(singular_id_fields(model)[1])

IsScalar(f) == f.kind \in {"base", "enum"}

(* An enum is a string; there is no column type for Decimal.                *)
column_type(f) ==
    CASE f.kind = "enum" -> Ok("String")
      [] f.tpe = <<"Decimal">> -> Panic
      [] OTHER -> Ok(f.tpe[1])

column_arity(f) == IF f.arity = "Optional" THEN "Nullable" ELSE f.arity

(* An enum without values has no first one to fall back on.                 *)
default_migration_value(dm, f) ==
    CASE f.kind = "enum" ->
           LET values == find_enum(dm, f.tpe)[1].values IN
           IF values = <<>> THEN Panic ELSE Ok(values[1])
      [] f.tpe = <<"Boolean">> -> Ok(<<"false">>)
      [] f.tpe \in {<<"Int">>, <<"Float">>, <<"Decimal">>} -> Ok(<<"0">>)
      [] f.tpe = <<"String">> -> Ok(<<>>)
      [] f.tpe = <<"DateTime">> -> Ok(<<"1970", "00:00">>)

(* A timestamp is written without its zone.                                 *)
migration_value_new(dm, f) ==
    LET literal == SelectSeq(f.default_value, LAMBDA v : ~v.call)
        value == IF literal = <<>> THEN default_migration_value(dm, f)
                 ELSE Ok(IF f.tpe = <<"DateTime">> THEN Append(literal[1].t, "00:00")
                         ELSE literal[1].t)
    IN AndThen(value, LAMBDA text : Ok(IF f.id_info = <<>> THEN <<text>> ELSE <<>>))

Column(name, family, arity) ==
    [name |-> name, family |-> family, arity |-> arity, default |-> <<>>, auto |-> FALSE]

ScalarColumn(dm, f) ==
    AndThen(column_type(f), LAMBDA family :
    AndThen(migration_value_new(dm, f), LAMBDA default :
        Ok([Column(final_db_name(f), family, column_arity(f)) EXCEPT
               !.default = default, !.auto = family = "Int" /\ f.id_info # <<>>])))

Joined(names) ==
    FoldLeft(LAMBDA acc, n : IF acc = <<>> THEN n ELSE acc \o <<"_">> \o n, <<>>, names)

SqlIndex(name, columns, tpe) == [name |-> name, columns |-> columns, tpe |-> tpe]

(* Mutant: the columns are called as the fields.                            *)
IndexesByField(model) ==
    LET single == SelectSeq(model.fields, LAMBDA f : f.is_unique) IN
    [i \in DOMAIN single |->
        SqlIndex(single[i].name, <<single[i].name>>, "unique")]
    \o [i \in DOMAIN model.indexes |->
           SqlIndex(model.name, model.indexes[i].fields, model.indexes[i].tpe)]

ModelIndexes(model) ==
    LET single == SelectSeq(model.fields, LAMBDA f : f.is_unique)
        columns(index) == [i \in DOMAIN index.fields |->
                              final_db_name(find_field(model, index.fields[i])[1])]
        named(names) == final_db_name(model) \o <<".">> \o Joined(names)
    IN [i \in DOMAIN single |->
           SqlIndex(named(<<final_db_name(single[i])>>), <<final_db_name(single[i])>>, "unique")]
       \o [i \in DOMAIN model.indexes |->
              SqlIndex(OrElse(model.indexes[i].name, named(columns(model.indexes[i]))),
                       columns(model.indexes[i]), model.indexes[i].tpe)]

calculate_model_table(dm, model) ==
    LET scalars == SelectSeq(model.fields, LAMBDA f : IsScalar(f) /\ f.arity # "List") IN
    AndThen(InOrder([i \in DOMAIN scalars |-> ScalarColumn(dm, scalars[i])]), LAMBDA columns :
    AndThen(id_field(model), LAMBDA id :
        Ok([name |-> final_db_name(model), columns |-> columns,
            indices |-> ModelIndexes(model), primary_key |-> <<final_db_name(id)>>,
            foreign_keys |-> <<>>])))

SqlForeignKey(column, table, referenced, on_delete) ==
    [column |-> column, table |-> table, referenced |-> referenced, on_delete |-> on_delete]

calculate_scalar_list_table(model, f) ==
    AndThen(id_field(model), LAMBDA id : AndThen(column_type(id), LAMBDA id_type :
    AndThen(column_type(f), LAMBDA family :
        Ok([name |-> Joined(<<final_db_name(model), final_db_name(f)>>),
            columns |-> <<Column(<<"nodeId">>, id_type, "Required"),
                          Column(<<"position">>, "Int", "Required"),
                          Column(<<"value">>, family, "Required")>>,
            indices |-> <<>>, primary_key |-> <<<<"nodeId">>, <<"position">>>>,
            foreign_keys |-> <<SqlForeignKey(<<"nodeId">>, final_db_name(model),
                                             final_db_name(id), "Cascade")>>]))))

calculate_scalar_list_tables(dm) ==
    LET of(model) ==
            LET lists == SelectSeq(model.fields, LAMBDA f : IsScalar(f) /\ f.arity = "List")
            IN [i \in DOMAIN lists |-> calculate_scalar_list_table(model, lists[i])]
    IN InOrder(FlattenSeq([i \in DOMAIN dm.models |-> of(dm.models[i])]))

(* The column and the foreign key of a relation that is inlined in a model. *)
(* The field is looked up by its column.                                    *)
InlineColumn(model, r) ==
    LET here == IF model = r.model_a THEN r.model_a ELSE r.model_b
        related == IF model = r.model_a THEN r.model_b ELSE r.model_a
        column == r.manifestation.column
        f == Find(here.fields, LAMBDA x : final_db_name(x) = column)[1]
    IN AndThen(id_field(related), LAMBDA id : AndThen(column_type(id), LAMBDA family :
           Ok([column |-> Column(column, family, column_arity(f)),
               key |-> SqlForeignKey(column, final_db_name(related),
                                     final_db_name(id), "SetNull")])))

add_inline_relations(model, table, relations) ==
    LET inline == SelectSeq(relations, LAMBDA r :
                      r.manifestation.kind = "Inline" /\ r.manifestation.model = model.name)
    IN AndThen(InOrder([i \in DOMAIN inline |-> InlineColumn(model, inline[i])]), LAMBDA added :
           Ok([table EXCEPT !.columns = @ \o [i \in DOMAIN added |-> added[i].column],
                            !.foreign_keys = [i \in DOMAIN added |-> added[i].key]]))

calculate_relation_table(r) ==
    LET name == <<"_">> \o r.name IN
    AndThen(id_field(r.model_a), LAMBDA a : AndThen(id_field(r.model_b), LAMBDA b :
    AndThen(column_type(a), LAMBDA a_type : AndThen(column_type(b), LAMBDA b_type :
        Ok([name |-> name,
            columns |-> <<Column(<<"A">>, a_type, "Required"),
                          Column(<<"B">>, b_type, "Required")>>,
            indices |-> <<SqlIndex(name \o <<"_", "AB_unique">>, <<<<"A">>, <<"B">>>>, "unique")>>,
            primary_key |-> <<>>,
            foreign_keys |->
                <<SqlForeignKey(<<"A">>, final_db_name(r.model_a), final_db_name(a), "Cascade"),
                  SqlForeignKey(<<"B">>, final_db_name(r.model_b), final_db_name(b),
                                "Cascade")>>])))))

WithSortedColumns(table) ==
    [table EXCEPT !.columns = SortSeq(@, LAMBDA c, d : Before(c.name, d.name))]

calculate_schema(dm) ==
    LET models == dm.models IN
    AndThen(InOrder([i \in DOMAIN models |-> calculate_model_table(dm, models[i])]),
        LAMBDA plain :
    AndThen(calculate_relations(dm), LAMBDA relations :
    AndThen(InOrder([i \in DOMAIN plain |->
                        add_inline_relations(models[i], plain[i], relations)]),
        LAMBDA model_tables :
    AndThen(calculate_scalar_list_tables(dm), LAMBDA list_tables :
    AndThen(LET many == SelectSeq(relations, LAMBDA r : r.manifestation.kind = "Table")
            IN InOrder([i \in DOMAIN many |-> calculate_relation_table(many[i])]),
        LAMBDA relation_tables :
        LET tables == model_tables \o list_tables \o relation_tables IN
        Ok([i \in DOMAIN tables |-> WithSortedColumns(tables[i])]))))))

-----------------------------------------------------------------------------
(* The SQLite renderer and describer: what is left of a table that has been *)
(* created from its rendering.                                              *)

(* A string or a timestamp is quoted unless it is already.                  *)
render_default(column) ==
    IF column.arity # "Required" \/ column.default = <<>> THEN <<>>
    ELSE LET text == column.default[1]
             quoted == text # <<>> /\ text[1] = "'"
         IN <<IF column.family \in {"String", "DateTime"} /\ ~quoted
              THEN <<"'">> \o text \o <<"'">> ELSE text>>

(* A column with a foreign key is never NOT NULL.                           *)
render_nullability(table, column) ==
    /\ column.arity = "Required"
    /\ \A i \in DOMAIN table.foreign_keys : table.foreign_keys[i].column # column.name

render_column_type(family) ==
    CASE family = "Boolean" -> "BOOLEAN" [] family = "DateTime" -> "DATE"
      [] family = "Float" -> "REAL" [] family = "Int" -> "INTEGER" [] family = "String" -> "TEXT"

render_column(table, column) ==
    [name |-> column.name, type |-> render_column_type(column.family),
     notnull |-> render_nullability(table, column), dflt_value |-> render_default(column)]

get_column_type(type) ==
    CASE type = "INTEGER" -> "Int" [] type = "REAL" -> "Float" [] type = "BOOLEAN" -> "Boolean"
      [] type = "TEXT" -> "String" [] type = "DATE" -> "DateTime"

(* "If the primary key is a single integer column, it's autoincrementing".  *)
get_column(primary_key, row) ==
    [name |-> row.name, family |-> get_column_type(row.type),
     arity |-> IF row.notnull THEN "Required" ELSE "Nullable",
     default |-> row.dflt_value,
     auto |-> primary_key = <<row.name>> /\ row.type = "INTEGER"]

(* Of the actions the calculator only asks for two.                         *)
render_on_delete(action) == IF action = "Cascade" THEN "CASCADE" ELSE "SET NULL"

render_references(key) ==
    [from |-> key.column, table |-> key.table, to |-> key.referenced,
     on_delete |-> render_on_delete(key.on_delete)]

get_foreign_keys(rows) ==
    SortSeq([i \in DOMAIN rows |->
                SqlForeignKey(rows[i].from, rows[i].table, rows[i].to,
                              IF rows[i].on_delete = "CASCADE" THEN "Cascade" ELSE "SetNull")],
            LAMBDA f, g : Before(f.column, g.column))

get_table(table) ==
    [table EXCEPT
        !.columns = [i \in DOMAIN @ |-> get_column(table.primary_key, render_column(table, @[i]))],
        !.foreign_keys = get_foreign_keys([i \in DOMAIN @ |-> render_references(@[i])])]

describe(schema) == [i \in DOMAIN schema |-> get_table(schema[i])]

-----------------------------------------------------------------------------
(* calculate_datamodel.rs.                                                  *)

HasColumn(table, name) == \E i \in DOMAIN table.columns : table.columns[i].name = name

is_prisma_join_table(table) ==
    /\ Len(table.columns) = 2 /\ Len(table.foreign_keys) = 2
    /\ Before(table.foreign_keys[1].table, table.foreign_keys[2].table)
    /\ table.name[1] = "_"
    /\ HasColumn(table, <<"A">>) /\ HasColumn(table, <<"B">>)
    /\ Len(table.indices) = 1
    /\ Len(table.indices[1].columns) = 2 /\ table.indices[1].tpe = "unique"

is_prisma_scalar_list_table(table) ==
    /\ "_" \in ToSet(table.name)
    /\ Len(table.columns) = 3
    /\ \A name \in {<<"nodeId">>, <<"position">>, <<"value">>} : HasColumn(table, name)

is_migration_table(table) == table.name = <<"_", "Migration">>

is_column_unique(table, column) ==
    \E i \in DOMAIN table.indices :
        table.indices[i].tpe = "unique" /\ table.indices[i].columns = <<column>>

(* Mutant: it is called after the tables whatever connects them.            *)
NameOfTables(schema, key, table) ==
    IF Before(table.name, key.table) THEN table.name \o <<"To">> \o key.table
    ELSE key.table \o <<"To">> \o table.name

(* The relation of a foreign key is called after the two tables, and after  *)
(* the column as well when they are connected in more than one way.         *)
calculate_relation_name(schema, key, table) ==
    LET from == table.name
        to == key.table
        referenced == Find(schema, LAMBDA t : t.name = to)[1]
        same == Count(table.foreign_keys, LAMBDA k : k.table = to)
        opposite == Count(referenced.foreign_keys, LAMBDA k : k.table = from)
        here == IF same < 2 /\ opposite = 0 THEN from ELSE from \o <<"_">> \o key.column
    IN IF Before(from, to) THEN here \o <<"To">> \o to ELSE to \o <<"To">> \o here

calculate_field_type(schema, table, column) ==
    LET key == Find(table.foreign_keys, LAMBDA k : k.column = column.name) IN
    IF key = <<>> THEN NewField(column.name, "base", <<column.family>>)
    ELSE [NewField(column.name, "relation", key[1].table) EXCEPT
             !.rel = calculate_relation_name(schema, key[1], table),
             !.to_fields = <<key[1].referenced>>,
             !.on_delete = IF key[1].on_delete = "Cascade" THEN <<"CASCADE">> ELSE <<"NONE">>]

calc_id_info(table, column) ==
    IF table.primary_key # <<column.name>> THEN <<>>
    ELSE <<[strategy |-> IF column.auto THEN <<"AUTO">> ELSE <<"NONE">>, sequence |-> <<>>]>>

(* The default keeps its quotes; a timestamp is dropped.                    *)
calculate_default(text, family) ==
    CASE family \in {"Int", "Float"} /\ text[1] \in Numerals ->
           <<DmlValue(<<family>>, IF family = "Float" THEN FloatText(text) ELSE text)>>
      [] family = "Boolean" -> <<DmlValue(<<"Boolean">>, text)>>
      [] family = "String" -> <<DmlValue(<<"String">>, text)>>
      [] OTHER -> <<>>

IntrospectedField(schema, table, column) ==
    LET f == calculate_field_type(schema, table, column)
        id == calc_id_info(table, column)
    IN [f EXCEPT
           !.arity = IF column.arity = "Nullable" THEN "Optional" ELSE column.arity,
           !.id_info = id,
           !.scalar_list_strategy = IF column.arity = "List" THEN <<<<"EMBEDDED">>>> ELSE <<>>,
           !.default_value = IF column.default = <<>> THEN <<>>
                             ELSE calculate_default(column.default[1], column.family),
           !.is_unique = f.kind # "relation" /\ id = <<>> /\ is_column_unique(table, column.name)]

IntrospectedModel(schema, table) ==
    LET kept == SelectSeq(table.indices, LAMBDA i : Len(i.columns) > 1 \/ i.tpe # "unique") IN
    [NewModel(table.name) EXCEPT
        !.fields = [i \in DOMAIN table.columns |->
                       IntrospectedField(schema, table, table.columns[i])],
        !.indexes = [i \in DOMAIN kept |->
                        [name |-> <<kept[i].name>>, fields |-> kept[i].columns, tpe |-> kept[i].tpe]],
        !.id_fields = IF Len(table.primary_key) > 1 THEN table.primary_key ELSE <<>>]

To(model, field) == [model |-> model, field |-> field]

(* Datamodel::related_field leaves out the field of that name on whatever   *)
(* model.                                                                   *)
HasRelatedField(dm, model, f) ==
    LET related == find_model(dm, f.tpe)[1] IN
    \E i \in DOMAIN related.fields :
        LET back == related.fields[i] IN
        IsRelation(back) /\ back.tpe = model.name /\ back.rel = f.rel /\ back.name # f.name

BackRelationField(schema, model, f) ==
    LET table == Find(schema, LAMBDA t : t.name = model.name)[1]
        arity == IF f.arity = "List" \/ is_column_unique(table, f.name) THEN "Optional" ELSE "List"
    IN To(f.tpe, [NewField(IF arity = "List" THEN camel_case(pluralize(model.name))
                           ELSE camel_case(model.name), "relation", model.name) EXCEPT
                     !.arity = arity, !.rel = f.rel, !.to_fields = <<f.name>>])

back_relation_fields(schema, dm) ==
    FlattenSeq([i \in DOMAIN dm.models |->
        LET lacking == SelectSeq(dm.models[i].fields, LAMBDA f :
                           IsRelation(f) /\ ~HasRelatedField(dm, dm.models[i], f))
        IN [j \in DOMAIN lacking |-> BackRelationField(schema, dm.models[i], lacking[j])]])

(* is_prisma_join_table only holds for two different tables.                *)
create_many_to_many_field(key, name) ==
    [NewField(camel_case(pluralize(key.table)), "relation", key.table) EXCEPT
        !.arity = "List", !.rel = name, !.to_fields = <<key.referenced>>]

many_to_many_fields(schema) ==
    LET joins == SelectSeq(schema, is_prisma_join_table)
        of(t) == LET name == Tail(t.name) IN
                 <<To(t.foreign_keys[2].table, create_many_to_many_field(t.foreign_keys[1], name)),
                   To(t.foreign_keys[1].table, create_many_to_many_field(t.foreign_keys[2], name))>>
    IN FlattenSeq([i \in DOMAIN joins |-> of(joins[i])])

(* The name of a list table is cut at its underscores, and what follows the *)
(* second one is lost.                                                      *)
SplitName(name) ==
    LET first == SelectInSeq(name, LAMBDA a : a = "_")
        rest == SubSeq(name, first + 1, Len(name))
        second == SelectInSeq(rest, LAMBDA a : a = "_")
    IN <<SubSeq(name, 1, first - 1),
         IF second = 0 THEN rest ELSE SubSeq(rest, 1, second - 1)>>

scalar_list_fields(schema) ==
    LET lists == SelectSeq(schema, is_prisma_scalar_list_table)
        of(t) == LET value == Find(t.columns, LAMBDA c : c.name = <<"value">>)[1]
                     f == calculate_field_type(schema, t, value)
                 IN To(SplitName(t.name)[1],
                       [f EXCEPT !.name = SplitName(t.name)[2], !.arity = "List",
                                 !.scalar_list_strategy = <<<<"RELATION">>>>])
    IN [i \in DOMAIN lists |-> of(lists[i])]

(* Added fields of one name in one model take the relation's name as well;  *)
(* the fields the model has already are not looked at.                      *)
WithSuffixes(added) ==
    [i \in DOMAIN added |->
        LET duplicated == \E j \in DOMAIN added :
                /\ j # i /\ added[j].model = added[i].model
                /\ added[j].field.name = added[i].field.name
        IN IF duplicated /\ IsRelation(added[i].field)
           THEN [added[i] EXCEPT !.field.name = @ \o <<"_">> \o added[i].field.rel]
           ELSE added[i]]

AddField(dm, to) ==
    IF ModelIndex(dm, to.model) = 0 THEN dm
    ELSE [dm EXCEPT !.models[ModelIndex(dm, to.model)].fields = Append(@, to.field)]

(* The model of every added field is unwrapped.                             *)
AddFields(dm, added) ==
    IF \E i \in DOMAIN added : ModelIndex(dm, added[i].model) = 0 THEN Panic
    ELSE Ok(FoldLeft(AddField, dm, added))

calculate_model(schema) ==
    LET tables == SelectSeq(schema, LAMBDA t :
                      ~is_migration_table(t) /\ ~is_prisma_join_table(t)
                      /\ ~is_prisma_scalar_list_table(t))
        dm == [models |-> [i \in DOMAIN tables |-> IntrospectedModel(schema, tables[i])],
               enums |-> <<>>]
    IN AddFields(dm, WithSuffixes(back_relation_fields(schema, dm) \o many_to_many_fields(schema)
                                  \o scalar_list_fields(schema)))
=============================================================================
