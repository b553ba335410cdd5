------------------------ MODULE MCDatamodelPipeline ------------------------
(***************************************************************************)
(* Instances of DatamodelPipeline: the texts are those of a few families,  *)
(* each with every combination of its parts.                               *)
(***************************************************************************)
EXTENDS DatamodelPipeline

MCAtomOrder ==
    <<"'", "(array)", ".", "0", "00:00", "1", "1.0", "1.5", "1970", "9999999999",
      "A", "AB_unique", "AUTO", "B", "CASCADE", "DB_URL", "E", "EMBEDDED", "Float",
      "Int", "Migration", "NONE", "R", "RELATION", "String", "T", "To", "U", "_",
      "a", "b", "client", "db", "e", "f", "false", "id", "k", "l", "m", "mysql",
      "nodeId", "p", "position", "postgres", "q", "r", "s", "sqlite", "t", "true", "u",
      "url", "v", "value", "w", "x", "y">>

MCEnv == (<<"DB_URL">> :> <<"url">>)

MCOverrides == (<<"r">> :> <<"u">>)

MCCamel == [a \in ToSet(MCAtomOrder) |->
               CASE a = "A" -> "a" [] a = "B" -> "b" [] OTHER -> a]

MCPlural == [a \in ToSet(MCAtomOrder) |-> <<a, "s">>]

-----------------------------------------------------------------------------
F(name, tpe, arity, directives) ==
    [name |-> name, tpe |-> tpe, arity |-> arity, directives |-> directives]

Id == F(<<"id">>, <<"Int">>, "Required", <<Dir("id", <<>>)>>)

Model(name, fields, directives) ==
    [name |-> name, fields |-> fields, directives |-> directives]

Quiet(models) == Render([EmptyAst EXCEPT !.models = models])

(* Relations between A and B, and of A with itself.                         *)
RelationDirectives ==
    {<<>>,
     <<Dir("relation", <<Arg("name", Str(<<"R">>))>>)>>,
     <<Dir("relation", <<Arg("references", Arr(<<Const(<<"id">>)>>))>>)>>,
     <<Dir("unique", <<>>)>>}

Maps == {<<>>, <<Dir("map", <<Arg("", Str(<<"m">>))>>)>>}

RelationField(names, to) ==
    {F(n, to, arity, rel \o map) : n \in names, arity \in {"Required", "Optional", "List"},
                                   rel \in RelationDirectives, map \in Maps}

Optionally(fields) == {<<>>} \cup {<<f>> : f \in fields}

Embeddings == {<<>>, <<Dir("embedded", <<>>)>>}

Related ==
    \E f \in RelationField({<<"x">>}, <<"B">>),
       g \in Optionally(RelationField({<<"y">>}, <<"A">>)), e \in Embeddings :
        Start(Quiet(<<Model(<<"A">>, <<Id, f>>, <<>>), Model(<<"B">>, <<Id>> \o g, e)>>))

Unmapped(names, to) == {f \in RelationField(names, to) : \A i \in DOMAIN f.directives :
                                                           f.directives[i].name # "map"}

TwiceRelated ==
    \E f \in Unmapped({<<"x">>}, <<"B">>), g \in Unmapped({<<"w">>}, <<"B">>),
       h \in Optionally(Unmapped({<<"y">>}, <<"A">>)) :
        Start(Quiet(<<Model(<<"A">>, <<Id, f, g>>, <<>>), Model(<<"B">>, <<Id>> \o h, <<>>)>>))

SelfRelated ==
    \E f \in RelationField({<<"p">>}, <<"A">>),
       g \in Optionally(RelationField({<<"q">>}, <<"A">>)) :
        Start(Quiet(<<Model(<<"A">>, <<Id, f>> \o g, <<>>)>>))

(* One name for relations of different models.                              *)
ThreeRelated ==
    \E f \in Unmapped({<<"x">>}, <<"B">>), g \in Unmapped({<<"w">>}, <<"E">>) :
        Start(Quiet(<<Model(<<"A">>, <<Id, f, g>>, <<>>), Model(<<"B">>, <<Id>>, <<>>),
                      Model(<<"E">>, <<Id>>, <<>>)>>))

(* A model without an id that only connects two others, and relations that  *)
(* say what they refer to and what a deletion does.                         *)
Connecting ==
    \E f \in RelationField({<<"x">>}, <<"B">>), g \in Unmapped({<<"w">>}, <<"E">>),
       h \in Optionally(Unmapped({<<"y">>}, <<"A">>)) :
        Start(Quiet(<<Model(<<"A">>, <<f, g>>, <<>>), Model(<<"B">>, <<Id>> \o h, <<>>),
                      Model(<<"E">>, <<Id>>, <<>>)>>))

Deleting ==
    \E to \in {<<"A">>, <<"B">>}, arity \in {"Required", "List"},
       on \in {<<"CASCADE">>, <<"NONE">>, <<"u">>},
       refs \in {<<>>, <<Arg("references", Const(<<"k">>))>>,
                 <<Arg("references", Arr(<<Str(<<"k">>)>>))>>},
       name \in {<<>>, <<Arg("", Str(<<"R">>))>>, <<Arg("", Str(<<>>))>>, <<Arg("", Num(<<"1">>))>>} :
        LET f == F(<<"x">>, to, arity,
                   <<Dir("relation", name \o refs \o <<Arg("onDelete", Const(on))>>)>>)
            k == F(<<"k">>, <<"Int">>, "Required", <<Dir("unique", <<>>)>>)
        IN \E a \in {<<"A">>, <<"B">>} :
              Start(Quiet(<<Model(a, <<Id, f, k>>, <<>>),
                            Model(IF a = <<"A">> THEN <<"B">> ELSE <<"A">>, <<Id, k>>, <<>>)>>))

(* One scalar field, with at most two directives.                           *)
ScalarTypes == {<<"Int">>, <<"Float">>, <<"Decimal">>, <<"Boolean">>, <<"String">>,
                <<"DateTime">>, <<"E">>, <<"T">>, <<"U">>}

Defaults == {Num(<<"1">>), Num(<<"1.0">>), Num(<<"9999999999">>), Str(<<"u">>), Str(<<"1970">>),
             Bool(<<"true">>), Const(<<"v">>), Call(<<"cuid">>, <<>>), Call(<<"now">>, <<>>),
             Call(<<"env">>, <<Str(<<"DB_URL">>)>>), Call(<<"f">>, <<>>)}

FieldDirs ==
    {Dir("default", <<Arg("", v)>>) : v \in Defaults}
    \cup {Dir("id", <<>>), Dir("id", <<Arg("strategy", Const(<<"NONE">>))>>),
          Dir("unique", <<>>), Dir("unique", <<Arg("name", Str(<<"u">>))>>),
          Dir("updatedAt", <<>>), Dir("map", <<Arg("name", Str(<<"m">>))>>),
          Dir("scalarList", <<Arg("strategy", Const(<<"EMBEDDED">>))>>),
          Dir("sequence", <<Arg("name", Str(<<"u">>)), Arg("allocationSize", Num(<<"1">>)),
                            Arg("initialValue", Num(<<"0">>))>>),
          Dir("relation", <<>>), Dir("f", <<>>)}

Enum(values) == [name |-> <<"E">>, values |-> values, directives |-> <<>>]

CustomTypes(base) ==
    <<F(<<"T">>, <<"String">>, "Required", <<Dir("unique", <<>>)>>),
      F(<<"U">>, base, "Required", <<>>)>>

WithScalar(f, ids, values, base) ==
    Render([EmptyAst EXCEPT !.models = <<Model(<<"A">>, ids \o <<f>>, <<>>)>>,
                            !.enums = <<Enum(values)>>, !.types = CustomTypes(base)])

ScalarWithOne ==
    \E tpe \in ScalarTypes, arity \in {"Required", "Optional", "List"},
       d \in Optionally(FieldDirs), ids \in {<<Id>>, <<>>},
       values \in {<<>>, <<<<"v">>>>}, base \in {<<"T">>, <<"U">>, <<"A">>} :
        Start(WithScalar(F(<<"x">>, tpe, arity, d), ids, values, base))

ScalarWithTwo ==
    \E tpe \in ScalarTypes \ {<<"Decimal">>}, d \in FieldDirs, e \in FieldDirs,
       ids \in {<<Id>>, <<>>} :
        Start(WithScalar(F(<<"x">>, tpe, "Required", <<d, e>>), ids, <<<<"v">>>>, <<"T">>))

(* The directives of a model, and names that occur twice.                   *)
Listed(names) == Arr([i \in DOMAIN names |-> Const(names[i])])

ModelDirs ==
    {Dir("map", <<Arg("", Str(<<"m">>))>>), Dir("map", <<Arg("", Str(<<"m", "_", "a">>))>>),
     Dir("embedded", <<>>), Dir("id", <<Arg("", Listed(<<<<"x">>, <<"y">>>>))>>),
     Dir("unique", <<Arg("fields", Listed(<<<<"x">>>>))>>),
     Dir("unique", <<Arg("", Listed(<<<<"x">>, <<"y">>>>))>>),
     Dir("index", <<Arg("", Listed(<<<<"y">>, <<"x">>>>)), Arg("name", Str(<<"k">>))>>),
     Dir("index", <<Arg("", Listed(<<<<"w">>>>))>>),
     Dir("unique", <<Arg("", Arr(<<Str(<<"x">>)>>))>>)}

Plain(name, tpe) == F(name, tpe, "Required", <<>>)

Structured ==
    \E ids \in {<<Id>>, <<>>}, n \in {<<"x">>, <<"y">>},
       tpe \in {<<"String">>, <<"A">>}, arity \in {"List", "Optional"},
       d \in ModelDirs, e \in ModelDirs,
       more \in {<<>>, <<Model(<<"B">>, <<Id, Plain(<<"r">>, <<"A">>)>>, <<>>)>>,
                 <<Model(<<"A">>, <<Id, Plain(<<"r">>, <<"A">>)>>, <<>>)>>} :
        Start(Quiet(<<Model(<<"A">>, ids \o <<Plain(<<"x">>, <<"Int">>), Plain(n, tpe),
                                              F(<<"l">>, <<"Int">>, arity, <<>>)>>, <<d, e>>)>>
                    \o more))

(* Configuration blocks.                                                    *)
Block(kind, name, args) == [kind |-> kind, name |-> name, args |-> args]

Urls == {Str(<<"u">>), Call(<<"env">>, <<Str(<<"DB_URL">>)>>), Call(<<"env">>, <<Str(<<"u">>)>>),
         Num(<<"1">>)}

SourceBlocks ==
    {<<Block("datasource", name, <<Arg("provider", p), Arg("url", u)>> \o on)>> :
        name \in {<<"db">>, <<"r">>},
        p \in {Str(<<"sqlite">>), Str(<<"postgres">>), Str(<<"u">>),
               Call(<<"env">>, <<Str(<<"DB_URL">>)>>)},
        u \in Urls, on \in {<<>>, <<Arg("enabled", Bool(<<"false">>))>>,
                            <<Arg("enabled", Bool(<<"true">>))>>, <<Arg("enabled", Num(<<"1">>))>>}}

GeneratorBlocks ==
    {<<Block("generator", <<"client">>, p \o output \o targets \o rest)>> :
        p \in {<<>>, <<Arg("provider", Str(<<"client">>))>>},
        output \in {<<>>, <<Arg("output", Str(<<"p">>))>>, <<Arg("output", Num(<<"1">>))>>},
        targets \in {<<>>, <<Arg("binaryTargets", Arr(<<Str(<<"a">>), Str(<<"b">>)>>))>>,
                     <<Arg("binaryTargets", Str(<<"a">>))>>},
        rest \in {<<>>, <<Arg("k", Str(<<"v">>))>>, <<Arg("k", Arr(<<Num(<<"1">>)>>))>>,
                  <<Arg("k", Num(<<"1">>)), Arg("k", Num(<<"0">>))>>}}

Configured ==
    \E s \in {<<>>} \cup SourceBlocks, g \in {<<>>} \cup GeneratorBlocks :
        Start(Render([EmptyAst EXCEPT !.models = <<Model(<<"A">>, <<Id>>, <<>>)>>,
                                      !.blocks = s \o g]))

MCInit ==
    \/ Related \/ TwiceRelated \/ SelfRelated \/ ThreeRelated \/ Connecting \/ Deleting
    \/ ScalarWithOne \/ ScalarWithTwo \/ Structured \/ Configured

MCSpec == MCInit /\ [][Next]_vars
=============================================================================
