----------------------- MODULE MCDatamodelMigrations -----------------------
(***************************************************************************)
(* Instances of DatamodelMigrations: the datamodels that clients edit are  *)
(* those of one family, chosen at the start.                               *)
(***************************************************************************)
EXTENDS DatamodelMigrations

MCAtomOrder ==
    <<"'", "(array)", ".", "0", "1", "1.0", "1.5", "9999999999", "A", "B", "CASCADE", "E",
      "Int", "NONE", "R", "String", "T", "To", "U", "_", "a", "b", "cuid", "id", "k", "m",
      "s", "v", "w", "x", "y", "z">>

MCEnv == [n \in {} |-> <<>>]

MCCamel == [a \in ToSet(MCAtomOrder) |->
               CASE a = "A" -> "a" [] a = "B" -> "b" [] OTHER -> a]

MCPlural == [a \in ToSet(MCAtomOrder) |-> <<a, "s">>]

-----------------------------------------------------------------------------
F(name, tpe, arity, directives) ==
    [name |-> name, tpe |-> tpe, arity |-> arity, directives |-> directives]

Id == F(<<"id">>, <<"Int">>, "Required", <<Dir("id", <<>>)>>)

Plain(name, tpe) == F(name, tpe, "Required", <<>>)

Model(name, fields, directives) ==
    [name |-> name, fields |-> fields, directives |-> directives]

Text(models, enums, types) ==
    Render([EmptyAst EXCEPT !.models = models, !.enums = enums, !.types = types])

A(fields, directives) == Model(<<"A">>, <<Id>> \o fields, directives)

B(fields) == Model(<<"B">>, <<Id>> \o fields, <<>>)

Quiet(models) == Text(models, <<>>, <<>>)

X == Plain(<<"x">>, <<"Int">>)

Y == Plain(<<"y">>, <<"String">>)

Enum(values) == [name |-> <<"E">>, values |-> values, directives |-> <<>>]

-----------------------------------------------------------------------------
(* Models and fields come and go.                                           *)
Models == {Quiet(<<A(<<>>, <<>>)>>), Quiet(<<A(<<X>>, <<>>)>>), Quiet(<<A(<<Y, X>>, <<>>), B(<<>>)>>)}

(* The type, the arity and the directives of a field.                       *)
Fields == {Quiet(<<A(<<f>>, <<>>)>>) : f \in
    {X, F(<<"x">>, <<"String">>, "Optional", <<Dir("default", <<Arg("", Str(<<"v">>))>>)>>),
     F(<<"x">>, <<"Int">>, "Required", <<Dir("default", <<Arg("", Num(<<"1">>))>>), Dir("unique", <<>>)>>),
     F(<<"x">>, <<"Int">>, "List", <<Dir("map", <<Arg("name", Str(<<"m">>))>>)>>)}}

(* The directives of a model, one of which may be repeated.                 *)
On(names) == Arr([i \in DOMAIN names |-> Const(names[i])])

UniqueX == Dir("unique", <<Arg("", On(<<<<"x">>>>))>>)

UniqueXY == Dir("unique", <<Arg("", On(<<<<"x">>, <<"y">>>>))>>)

IndexY(name) == Dir("index", <<Arg("fields", On(<<<<"y">>>>)), Arg("name", Str(<<name>>))>>)

Mapped(name) == Dir("map", <<Arg("", Str(<<name>>))>>)

Directives_ == {Quiet(<<A(<<X, Y>>, ds)>>) : ds \in
    {<<UniqueX>>, <<UniqueX, UniqueXY>>, <<IndexY("k"), Mapped("m")>>,
     <<Mapped("a"), UniqueXY, IndexY("k")>>}}

(* Enumerations.                                                            *)
Enums == {Text(<<A(<<>>, <<>>)>>, <<>>, <<>>)}
    \cup {Text(<<A(<<Plain(<<"x">>, <<"E">>)>>, <<>>)>>, <<Enum(values)>>, <<>>) :
            values \in {<<<<"v">>, <<"w">>>>, <<<<"w">>, <<"z">>>>}}

(* Relations, with one side written or both.                                *)
Relation(args) == <<Dir("relation", args)>>

Relations ==
    {Quiet(<<A(<<F(<<"x">>, <<"B">>, "Optional", Relation(args))>>, <<>>),
             B(IF both THEN <<F(<<"y">>, <<"A">>, "List", Relation(args))>> ELSE <<>>)>>) :
        args \in {<<>>, <<Arg("name", Str(<<"R">>))>>}, both \in BOOLEAN}

(* What is left out of the text that is recorded.                           *)
Normalised ==
    {Quiet(<<A(<<F(<<"x">>, <<"B">>, "Optional", ds)>>, <<>>), B(<<>>)>>) : ds \in
        {<<>>, Relation(<<Arg("name", Str(<<"A", "To", "B">>))>>),
         Relation(<<Arg("references", On(<<<<"id">>>>))>>)}}

Types == {Text(<<A(<<X>>, <<>>)>>, <<>>, <<>>),
          Text(<<A(<<Plain(<<"x">>, <<"T">>)>>, <<>>)>>, <<>>, <<Plain(<<"T">>, <<"Int">>)>>)}

(* Edited in watch mode, and saved.                                         *)
Watched == {Quiet(<<A(<<X>>, <<>>)>>), Quiet(<<A(<<>>, <<Mapped("m")>>), B(<<>>)>>)}

(* Steps no differ makes: new names.                                        *)
NewNames ==
    {<<[step |-> "UpdateModel", model |-> <<"A">>, new_name |-> <<<<"B">>>>],
       [step |-> "UpdateField", model |-> <<"B">>, field |-> <<"x">>, new_name |-> <<<<"z">>>>,
        tpe |-> <<>>, arity |-> <<>>]>>}

NewEnumName ==
    {<<[step |-> "UpdateEnum", enum |-> <<"E">>, new_name |-> <<<<"U">>>>,
        created_values |-> <<>>, deleted_values |-> <<>>],
       [step |-> "UpdateField", model |-> <<"A">>, field |-> <<"x">>, new_name |-> <<>>,
        tpe |-> <<<<"U">>>>, arity |-> <<>>]>>}

MCInit ==
    \/ \E family \in {Fields, Directives_, Relations, Normalised, Types} : Start(family, {}, {FALSE})
    \/ Start(Models, NewNames, {FALSE})
    \/ Start(Enums, NewEnumName, {FALSE})
    \/ Start(Watched, {}, BOOLEAN)

Symmetry == Permutations(Clients)

MCSpec == MCInit /\ [][Next]_vars
=============================================================================
