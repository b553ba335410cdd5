------------------------- MODULE DatamodelPipeline -------------------------
(***************************************************************************)
(* What becomes of a datamodel text.  The datamodel library takes it       *)
(* through the phases of parse_datamodel, with the early return of each;   *)
(* a text that passes is loaded by the query engine (configuration,        *)
(* internal datamodel) and by the migration engine (SQL schema).  The      *)
(* datamodel is then rendered, as it is for every migration that is        *)
(* recorded, or its database is introspected, and the text that comes out  *)
(* goes through the same phases once more.                                 *)
(***************************************************************************)
EXTENDS SqlIntrospection, Configuration

CONSTANTS
    Overrides,          \* OVERWRITE_DATASOURCES: a function from names to urls
    MaxRounds           \* bound: how often a text is read

VARIABLES
    pc,                 \* the phase that comes next, "failed" or "panicked"
    text,               \* the text that is read
    ast,                \* SchemaAst, once it is parsed
    errors,             \* the phases that have reported errors
    dm,                 \* the Datamodel, once it is lifted
    config,             \* the result of load_configuration
    engine,             \* the result of DatamodelConverter::convert
    schema,             \* the result of SqlSchemaCalculator::calculate
    via,                \* where the text comes from
    earlier             \* the rounds before this one

vars == <<pc, text, ast, errors, dm, config, engine, schema, via, earlier>>

None == [st |-> "none", v |-> <<>>]

EmptyDatamodel == [models |-> <<>>, enums |-> <<>>]

Start(first) ==
    /\ text = first
    /\ pc = "parse"
    /\ ast = EmptyAst
    /\ errors = {}
    /\ dm = EmptyDatamodel
    /\ config = None /\ engine = None /\ schema = None
    /\ via = "user"
    /\ earlier = <<>>

-----------------------------------------------------------------------------
(* parse_datamodel.                                                         *)

(* Nothing is looked at in a text that does not parse.                      *)
ParseText ==
    /\ pc = "parse"
    /\ \E result \in {Parse(text)} :
          IF result.st = "ok"
          THEN ast' = result.v /\ pc' = "load_sources" /\ UNCHANGED errors
          ELSE errors' = {"parse"} /\ pc' = "failed" /\ UNCHANGED ast
    /\ UNCHANGED <<text, dm, config, engine, schema, via, earlier>>

(* The datamodel is validated without the sources if they cannot be loaded. *)
LoadSources ==
    /\ pc = "load_sources"
    /\ errors' = IF load_sources(ast).st = "ok" THEN errors ELSE errors \cup {"sources"}
    /\ pc' = "precheck"
    /\ UNCHANGED <<text, ast, dm, config, engine, schema, via, earlier>>

Precheck ==
    /\ pc = "precheck"
    /\ errors' = IF precheck(ast) THEN errors ELSE errors \cup {"precheck"}
    /\ pc' = "lift"
    /\ UNCHANGED <<text, ast, dm, config, engine, schema, via, earlier>>

(* "Cannot continue on lifter error."                                       *)
Lift ==
    /\ pc = "lift"
    /\ \E result \in {lift(ast)} :
          CASE result.st = "ok" -> dm' = result.v /\ pc' = "validate" /\ UNCHANGED errors
            [] result.st = "err" -> errors' = errors \cup {"lift"} /\ pc' = "failed" /\ UNCHANGED dm
            [] OTHER -> pc' = "panicked" /\ UNCHANGED <<errors, dm>>
    /\ UNCHANGED <<text, ast, config, engine, schema, via, earlier>>

Validate ==
    /\ pc = "validate"
    /\ \E result \in {validate(dm)} :
          /\ errors' = IF result.st = "err" THEN errors \cup {"validate"} ELSE errors
          /\ pc' = IF result.st = "panic" THEN "panicked" ELSE "standardise"
    /\ UNCHANGED <<text, ast, dm, config, engine, schema, via, earlier>>

(* The phases up to here have an error in common, the sources have their    *)
(* own: only the former are returned.                                       *)
Accepted(errs) == errs \subseteq {"sources"}

Standardise ==
    /\ pc = "standardise"
    /\ \E result \in {standardise(dm)} :
          LET errs == IF result.st = "err" THEN errors \cup {"standardise"} ELSE errors IN
          /\ errors' = errs
          /\ dm' = IF result.st = "ok" THEN result.v ELSE dm
          /\ pc' = CASE result.st = "panic" -> "panicked"
                     [] Accepted(errs) -> "load_configuration"
                     [] OTHER -> "failed"
    /\ UNCHANGED <<text, ast, config, engine, schema, via, earlier>>

-----------------------------------------------------------------------------
(* The engines.                                                             *)

Overridden(source) ==
    IF source.name \in DOMAIN Overrides
    THEN [source EXCEPT !.url = Overrides[source.name], !.env = <<>>] ELSE source

load_configuration(tree) ==
    AndThen(load_sources(tree), LAMBDA sources :
    AndThen(load_generators_from_ast(tree), LAMBDA generators :
        Ok([datasources |-> [i \in DOMAIN sources |-> Overridden(sources[i])],
            generators |-> generators])))

LoadConfiguration ==
    /\ pc = "load_configuration"
    /\ config' = load_configuration(ast)
    /\ pc' = "convert"
    /\ UNCHANGED <<text, ast, errors, dm, engine, schema, via, earlier>>

Convert ==
    /\ pc = "convert"
    /\ engine' = IF config.st = "ok" THEN convert(dm) ELSE Err
    /\ pc' = "calculate"
    /\ UNCHANGED <<text, ast, errors, dm, config, schema, via, earlier>>

CalculateSchema ==
    /\ pc = "calculate"
    /\ schema' = calculate_schema(dm)
    /\ pc' = "loaded"
    /\ UNCHANGED <<text, ast, errors, dm, config, engine, via, earlier>>

-----------------------------------------------------------------------------
(* The next round.                                                          *)

Restart(how, new) ==
    /\ Len(earlier) + 1 < MaxRounds
    /\ earlier' = Append(earlier, [text |-> text, dm |-> dm, config |-> config,
                                   engine |-> engine, schema |-> schema])
    /\ text' = new
    /\ via' = how
    /\ pc' = "parse"
    /\ ast' = EmptyAst /\ errors' = {} /\ dm' = EmptyDatamodel
    /\ config' = None /\ engine' = None /\ schema' = None

RenderDatamodel ==
    /\ pc = "loaded" /\ config.st = "ok"
    /\ Restart("rendered", Render(add_config_to_ast(config.v.datasources, config.v.generators,
                                                    lower(dm))))

(* What the database asks of a schema before it can be created.             *)
Distinct(seq) == \A i, j \in DOMAIN seq : seq[i].name = seq[j].name => i = j

IsCreatable(tables) ==
    /\ Distinct(tables)
    /\ \A i \in DOMAIN tables :
          LET t == tables[i] IN
          /\ Distinct(t.columns)
          /\ \A j \in DOMAIN t.indices : \A k \in DOMAIN t.indices[j].columns :
                HasColumn(t, t.indices[j].columns[k])

(* The database has the schema; the introspection has no configuration.     *)
Introspect ==
    /\ pc = "loaded" /\ schema.st = "ok" /\ IsCreatable(schema.v)
    /\ Len(earlier) + 1 < MaxRounds
    /\ \E result \in {calculate_model(describe(schema.v))} :
          \/ result.st = "ok" /\ Restart("introspected", Render(lower(result.v)))
          \/ /\ result.st = "panic" /\ pc' = "panicked"
             /\ UNCHANGED <<text, ast, errors, dm, config, engine, schema, via, earlier>>

Done ==
    /\ \/ pc \in {"failed", "panicked"}
       \/ /\ pc = "loaded"
          /\ \/ Len(earlier) + 1 = MaxRounds
             \/ config.st # "ok" /\ (schema.st # "ok" \/ ~IsCreatable(schema.v))
    /\ UNCHANGED vars

Next ==
    \/ ParseText \/ LoadSources \/ Precheck \/ Lift \/ Validate \/ Standardise
    \/ LoadConfiguration \/ Convert \/ CalculateSchema
    \/ RenderDatamodel \/ Introspect \/ Done

-----------------------------------------------------------------------------
(* Properties.  Each names the cases in which the code does not keep it, by *)
(* what they have in common.                                                *)

IsAccepted == pc \in {"load_configuration", "convert", "calculate", "loaded"}

AllFields(d) ==
    UNION {{<<d.models[i], d.models[i].fields[j]>> : j \in DOMAIN d.models[i].fields} :
           i \in DOMAIN d.models}

RelationsOf(d) == {mf \in AllFields(d) : IsRelation(mf[2])}

Back(d, mf) == RelatedField(d, mf[1], mf[2])

IsList(f) == f.arity = "List"

(* A relation with a model that only connects others and has no id.         *)
ConnectsWithoutId(d, mf) ==
    <<>> \in {id_field_names(mf[1]), id_field_names(find_model(d, mf[2].tpe)[1])}

(* Once a datamodel is accepted the two sides of every relation find each   *)
(* other; they have a name, and a side says where the ids of the other are, *)
(* unless the model to refer to has no id.  add_missing_back_relations,     *)
(* set_relation_to_field_to_id_if_missing and name_unnamed_relations each   *)
(* look the sides up again with what the one before has changed.            *)
RelationsAreComplete ==
    IsAccepted => \A mf \in RelationsOf(dm) :
        LET back == Back(dm, mf) IN
        /\ back # <<>> /\ Back(dm, <<find_model(dm, mf[2].tpe)[1], back[1]>>) = <<mf[2]>>
        /\ \/ mf[2].rel # <<>> /\ (mf[2].to_fields # <<>> \/ back[1].to_fields # <<>>)
           \/ ConnectsWithoutId(dm, mf)

(* The fields of an index are given as strings.                             *)
IndexOfStrings ==
    \E i \in DOMAIN ast.models : \E j \in DOMAIN ast.models[i].directives :
        LET d == ast.models[i].directives[j] IN
        /\ d.name \in {"unique", "index", "id"}
        /\ \E k \in DOMAIN d.args : \E l \in DOMAIN d.args[k].value.a :
              d.args[k].value.a[l].k # "constant"

(* An embedded model has a relation field without its opposite.             *)
EmbeddedOneSided == \E mf \in RelationsOf(dm) : mf[1].is_embedded /\ Back(dm, mf) = <<>>

(* A list field of a table whose name has an underscore of its own.         *)
ListTableNameIsCut ==
    schema.st = "ok" /\ \E mf \in AllFields(dm) :
        "_" \in ToSet(final_db_name(mf[1])) /\ IsScalar(mf[2]) /\ IsList(mf[2])

(* A text is read, and a database introspected, without a panic, in spite   *)
(* of the unwraps in the lifting, the validation, the standardisation and   *)
(* calculate_model; but for a text with other errors already found, which   *)
(* the standardisation is given all the same, and the three cases above.    *)
NoPanic ==
    pc = "panicked" => \/ errors \cap {"precheck", "validate"} # {}
                       \/ IndexOfStrings \/ EmbeddedOneSided \/ ListTableNameIsCut

(* Both sides of a relation of single fields refer to the other.            *)
ReferBothWays(d) ==
    \E mf \in RelationsOf(d) :
        LET back == Back(d, mf)[1] IN
        ~IsList(mf[2]) /\ ~IsList(back) /\ mf[2].to_fields # <<>> /\ back.to_fields # <<>>

(* One name for the relations of two pairs of models.                       *)
NameIsShared(d) ==
    \E mf, ng \in RelationsOf(d) :
        mf[2].rel = ng[2].rel /\ {mf[1].name, mf[2].tpe} # {ng[1].name, ng[2].tpe}

(* A type for which the migration engine has no column.                     *)
NoColumnType(d) ==
    \E mf \in AllFields(d) :
        \/ mf[2].kind = "base" /\ mf[2].tpe = <<"Decimal">>
        \/ mf[2].kind = "enum" /\ find_enum(d, mf[2].tpe)[1].values = <<>>

(* Both engines can load what the datamodel library accepts: the panics of  *)
(* DatamodelConverter and of SqlSchemaCalculator, which say the situation   *)
(* cannot arise, are reached in the three cases above and in no other.      *)
AcceptedIsLoaded ==
    /\ engine.st = "panic" => ReferBothWays(dm) \/ NameIsShared(dm)
    /\ schema.st = "panic" => ReferBothWays(dm) \/ NoColumnType(dm)

TableOf(name) == Find(schema.v, LAMBDA t : t.name = name)

HasKey(table, column, to, referenced) ==
    \E i \in DOMAIN table.foreign_keys :
        LET k == table.foreign_keys[i] IN
        k.column = column /\ k.table = to /\ k.referenced = referenced

FieldStored(m, f) ==
    LET t == TableOf(relation_table(engine.v, relation_of(engine.v, f)))
        related == related_model(engine.v, f)
        key(column, of) == HasKey(t[1], column, model_db_name(of), id_column(of))
        isId(column, of) == t[1].primary_key = <<column>> /\ t[1].name = model_db_name(of)
        own == relation_column(engine.v, f)
        other == opposite_column(engine.v, f)
    IN /\ t # <<>>
       /\ \/ key(own, m) /\ key(other, related)
          \/ key(own, m) /\ isId(other, related)
          \/ isId(own, m) /\ key(other, related)
       /\ relation_is_inlined_in_parent(engine.v, m, f) =>
             \E table \in ToSet(TableOf(model_db_name(m))) :
                 HasColumn(table, relation_db_name(engine.v, m, f))

(* The query engine and the migration engine, which work out independently  *)
(* where a relation is kept, agree: the table the former joins for a field  *)
(* is in the schema of the latter, each of the columns it takes for the two *)
(* sides is a foreign key to that side's model or the model's own id, and   *)
(* the column it selects with the model's own record is there.              *)
EnginesAgree ==
    engine.st = "ok" /\ schema.st = "ok" =>
        \A i \in DOMAIN engine.v.models :
            \A f \in ToSet(RelationFields(engine.v.models[i])) : FieldStored(engine.v.models[i], f)

(* A timestamp as a default value: it is written without quotes.            *)
TimestampDefault(d) ==
    \E mf \in AllFields(d) :
        LET default == mf[2].default_value IN
        default # <<>> /\ default[1].tpe = <<"DateTime">> /\ ~default[1].call

(* An embedded model refers to ids: that it does is not always written.     *)
EmbeddedRefers(d) ==
    \E mf \in RelationsOf(d) : mf[1].is_embedded /\ mf[2].to_fields # <<>>

(* The references of a relation of single fields stand on the side that     *)
(* does not get them by default.                                            *)
OtherSideRefers(d) ==
    \E mf \in RelationsOf(d) :
        LET back == Back(d, mf)[1] IN
        /\ ~IsList(mf[2]) /\ ~IsList(back) /\ mf[2].to_fields # <<>>
        /\ ~embed_here(mf[1], mf[2], find_model(d, mf[2].tpe)[1], back)

(* Two schemas with the same tables; the order of the indexes is free.      *)
SameSchema(s, t) ==
    /\ Len(s) = Len(t)
    /\ \A i \in DOMAIN s :
          /\ [s[i] EXCEPT !.indices = <<>>] = [t[i] EXCEPT !.indices = <<>>]
          /\ ToSet(s[i].indices) = ToSet(t[i].indices)

(* What render_datamodel writes of an accepted datamodel is accepted again, *)
(* as the migration engine unwraps the text it has recorded, and means what *)
(* it meant: both engines load the same from it, although generated fields, *)
(* default names and references to ids are left out of the text and made up *)
(* again by the standardisation.                                            *)
RenderingIsFaithful ==
    via = "rendered" =>
        /\ pc \in {"failed", "panicked"} =>
              TimestampDefault(earlier[1].dm) \/ EmbeddedRefers(earlier[1].dm)
        /\ schema # None =>
              \/ /\ engine = earlier[1].engine
                 /\ schema.st = earlier[1].schema.st
                 /\ SameSchema(schema.v, earlier[1].schema.v)
              \/ OtherSideRefers(earlier[1].dm)

(* A list, or the side of a relation that is not kept with its model.       *)
HasNoColumn(d, mf) ==
    IF IsScalar(mf[2]) THEN IsList(mf[2])
    ELSE CalculateRelation(d, mf[1], mf[2]).v.manifestation # InlineIn(mf[1], mf[2])

IndexedWithoutColumn(d) ==
    \E mf \in AllFields(d) :
        /\ HasNoColumn(d, mf)
        /\ \/ mf[2].is_unique
           \/ \E i \in DOMAIN mf[1].indexes : mf[2].name \in ToSet(mf[1].indexes[i].fields)

SharesColumn(d) ==
    \E mf, mg \in AllFields(d) :
        /\ mf[1] = mg[1] /\ mf # mg /\ final_db_name(mf[2]) = final_db_name(mg[2])
        /\ ~HasNoColumn(d, mf) /\ ~HasNoColumn(d, mg)

(* A schema the migration engine works out can be created: names of tables  *)
(* and of the columns of a table are distinct, although model, list and     *)
(* relation tables are named by different rules, and indexes are on columns *)
(* that exist; but for an index on a field that has no column, and for two  *)
(* fields mapped to one.                                                    *)
SchemaIsCreatable ==
    schema.st = "ok" => IsCreatable(schema.v) \/ IndexedWithoutColumn(dm) \/ SharesColumn(dm)

(* The configuration is rendered so that it loads as it was, with the urls  *)
(* that the environment has overridden.                                     *)
ConfigurationIsKept == via = "rendered" /\ config # None => config = earlier[1].config

(* A relation of two lists of one model, or beside another relation of its  *)
(* two models: its table is taken for a model, or its fields get the names  *)
(* of the other's.                                                          *)
ListsMeetOthers(d) ==
    \E mf \in RelationsOf(d) :
        /\ IsList(mf[2]) /\ IsList(Back(d, mf)[1])
        /\ \/ mf[2].tpe = mf[1].name
           \/ \E mg \in RelationsOf(d) : mg[1] = mf[1] /\ mg # mf /\ mg[2].tpe = mf[2].tpe

(* An id that is not an integer, or that has an index besides.              *)
UnusualId(d) ==
    \E mf \in AllFields(d) :
        mf[2].id_info # <<>> /\ (mf[2].tpe # <<"Int">> \/ mf[2].is_unique)

(* The index of a relation field is not introspected.                       *)
UniqueRelation(d) == \E mf \in RelationsOf(d) : mf[2].is_unique

Introspectable(d) == ~ListsMeetOthers(d) /\ ~UnusualId(d) /\ ~UniqueRelation(d)

(* The datamodel introspected from a database that the migration engine has *)
(* made is accepted, and its schema is the one of the database; so a        *)
(* migration to it has nothing to do.  Three exceptions are above.          *)
IntrospectionIsFaithful ==
    via = "introspected" /\ Introspectable(earlier[1].dm) =>
        /\ pc \notin {"failed", "panicked"} /\ schema.st # "panic"
        /\ schema.st = "ok" => SameSchema(describe(schema.v), describe(earlier[1].schema.v))

(* documentation/psl-sql-conversion.md: "The relation field that is         *)
(* singular is mapped to a column with a foreign key constraint."  The      *)
(* query engine takes the column to be with the field that is no list.      *)
SingularFieldIsTheColumn ==
    engine.st = "ok" => \A i \in DOMAIN engine.v.models :
        LET m == engine.v.models[i] IN
        \A j \in DOMAIN RelationFields(m) :
            LET f == RelationFields(m)[j]
                back == related_internal_field(engine.v, f)[1]
            IN f.is_list # back.is_list =>
                   (relation_is_inlined_in_parent(engine.v, m, f) <=> ~f.is_list)
=============================================================================
