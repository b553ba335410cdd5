--------------------------- MODULE Configuration ---------------------------
(***************************************************************************)
(* The datasource and generator blocks of a datamodel                      *)
(* (libs/datamodel/src/configuration): how they are loaded from the AST    *)
(* and written back to it.  Documentation comments are left out.           *)
(***************************************************************************)
EXTENDS Directives

(* The connector types of the builtin source definitions.                   *)
BuiltinSources == {<<"mysql">>, <<"postgresql">>, <<"sqlite">>}

(* The definition a provider names; "postgres" is the former name of one.   *)
connector_type(provider) ==
    IF provider = <<"postgres">> THEN <<"postgresql">> ELSE provider

(* A source that is switched off is loaded as nothing.                      *)
CreateSource(block, url, provider) ==
    LET enabled == arg(block.args, "enabled")
        source == [name |-> block.name, connector |-> connector_type(provider),
                   url |-> url.value.t, env |-> url.env]
        created == IF source.connector \in BuiltinSources THEN Ok(<<source>>) ELSE Err
    IN IF enabled.st = "err" THEN created
       ELSE AndThen(as_bool(enabled.v), LAMBDA on :
                IF on = <<"true">> THEN created ELSE Ok(<<>>))

load_source(block) ==
    AndThen(arg(block.args, "url"), LAMBDA url :
    AndThen(as_str(url), LAMBDA text :
    AndThen(arg(block.args, "provider"), LAMBDA provider :
    AndThen(as_str(provider), LAMBDA name :
        IF provider.env # <<>> THEN Err ELSE CreateSource(block, url, name)))))

Blocks(ast, kind) == SelectSeq(ast.blocks, LAMBDA b : b.kind = kind)

load_sources(ast) ==
    LET blocks == Blocks(ast, "datasource") IN
    AndThen(Collected([i \in DOMAIN blocks |-> load_source(blocks[i])]),
            LAMBDA sources : Ok(FlattenSeq(sources)))

FirstClassProperties == {"provider", "output", "binaryTargets"}

(* Expression::to_string.                                                   *)
ToText(value) == IF value.k = "array" THEN <<"(array)">> ELSE value.t

(* The other keys of a generator; of two equal ones the last counts.        *)
GeneratorConfig(args) ==
    [key \in {args[i].name : i \in DOMAIN args} \ FirstClassProperties |->
        ToText(args[SelectLastInSeq(args, LAMBDA a : a.name = key)].value)]

(* A first class key that is absent, or cannot be evaluated, is left out.   *)
GeneratorOutput(args) ==
    LET output == arg(args, "output") IN
    IF output.st = "err" THEN Ok(<<>>)
    ELSE AndThen(as_str(output.v), LAMBDA text : Ok(<<text>>))

GeneratorTargets(args) ==
    LET targets == arg(args, "binaryTargets") IN
    IF targets.st = "err" THEN Ok(<<>>)
    ELSE AndThen(as_array(targets.v), LAMBDA es : to_str_vec(es))

lift_generator(block) ==
    AndThen(arg(block.args, "provider"), LAMBDA p : AndThen(as_str(p), LAMBDA provider :
    AndThen(GeneratorOutput(block.args), LAMBDA output :
    AndThen(GeneratorTargets(block.args), LAMBDA targets :
        Ok([name |-> block.name, provider |-> provider, output |-> output,
            binary_targets |-> targets, config |-> GeneratorConfig(block.args)])))))

load_generators_from_ast(ast) ==
    LET blocks == Blocks(ast, "generator") IN
    Collected([i \in DOMAIN blocks |-> lift_generator(blocks[i])])

-----------------------------------------------------------------------------
(* Writing.  A url read from the environment stays an env() call.           *)

(* Mutant: the url is written out.                                          *)
SourceWithUrl(source) ==
    [kind |-> "datasource", name |-> source.name,
     args |-> <<Arg("provider", Str(source.connector)), Arg("url", Str(source.url))>>]

source_to_ast(source) ==
    [kind |-> "datasource", name |-> source.name,
     args |-> <<Arg("provider", Str(source.connector)),
                Arg("url", IF source.env = <<>> THEN Str(source.url)
                           ELSE Call(<<"env">>, <<Str(source.env[1])>>))>>]

(* The keys of the configuration come in the order of a hash map.           *)
lower_generator(generator) ==
    LET keys == SetToSeq(DOMAIN generator.config)
        targets == generator.binary_targets
    IN [kind |-> "generator", name |-> generator.name,
        args |-> <<Arg("provider", Str(generator.provider))>>
              \o (IF generator.output = <<>> THEN <<>>
                  ELSE <<Arg("output", Str(generator.output[1]))>>)
              \o (IF targets = <<>> THEN <<>>
                  ELSE <<Arg("binaryTargets", Arr([i \in DOMAIN targets |-> Str(targets[i])]))>>)
              \o [i \in DOMAIN keys |-> Arg(keys[i], Str(generator.config[keys[i]]))]]

(* Each kind is put in front of what the AST holds.                         *)
add_config_to_ast(sources, generators, ast) ==
    [ast EXCEPT !.blocks =
        [i \in DOMAIN generators |-> lower_generator(generators[i])]
        \o [i \in DOMAIN sources |-> source_to_ast(sources[i])] \o @]
=============================================================================
