----------------------------- MODULE SchemaAst -----------------------------
(***************************************************************************)
(* The syntax of a datamodel: the AST of libs/datamodel/src/ast, the       *)
(* renderer that writes it as text and the parser that reads the text.     *)
(*                                                                         *)
(* A name is a sequence of atoms, so that the names the code builds        *)
(* (relation names, relation tables, index names, generated fields) are    *)
(* concatenations here as they are there, and compare in the same order.   *)
(* A value is a record [k, t, a]: its kind, its text and its parts (the    *)
(* elements of an array, the parameters of a function).  An optional value *)
(* is a sequence of at most one element.                                   *)
(*                                                                         *)
(* Text is the same tree with the kinds of the values gone: a quoted       *)
(* string, a bare word, a call or a list.  What the parser makes of a bare *)
(* word depends on the word alone.  Layout, comments and documentation are *)
(* left out.                                                               *)
(***************************************************************************)
EXTENDS Naturals, Sequences, SequencesExt, FiniteSets

CONSTANT AtomOrder      \* the atoms of the names, in string order

-----------------------------------------------------------------------------
(* Results: Rust's Ok and Err, and a panic, which no `?` catches.           *)

Ok(v) == [st |-> "ok", v |-> v]

Err == [st |-> "err", v |-> <<>>]

Panic == [st |-> "panic", v |-> <<>>]

(* Every step of a loop that collects its errors is taken: a panic in any   *)
(* of them ends the request, otherwise one error is enough to fail it.      *)
Collected(results) ==
    IF \E i \in DOMAIN results : results[i].st = "panic" THEN Panic
    ELSE IF \E i \in DOMAIN results : results[i].st = "err" THEN Err
    ELSE Ok([i \in DOMAIN results |-> results[i].v])

(* The first element that passes the test, as an optional value.            *)
Find(seq, Test(_)) ==
    LET i == SelectInSeq(seq, Test) IN IF i = 0 THEN <<>> ELSE <<seq[i]>>

Count(seq, Test(_)) == Cardinality({i \in DOMAIN seq : Test(seq[i])})

OrElse(option, default) == IF option = <<>> THEN default ELSE option[1]

-----------------------------------------------------------------------------
(* Names.                                                                   *)

Rank == [atom \in ToSet(AtomOrder) |->
            CHOOSE i \in DOMAIN AtomOrder : AtomOrder[i] = atom]

(* `<` on strings.                                                          *)
Before(a, b) ==
    \/ IsStrictPrefix(a, b)
    \/ \E i \in DOMAIN a \cap DOMAIN b :
          /\ SubSeq(a, 1, i - 1) = SubSeq(b, 1, i - 1)
          /\ Rank[a[i]] < Rank[b[i]]

Sorted(names) == SortSeq(names, Before)

(* The words that are not identifiers: the digits, a timestamp and a        *)
(* leading underscore.                                                      *)
Numerals == {"0", "1", "1.0", "1.5", "9999999999"}

Timestamps == {"1970"}

IsIdentifier(name) ==
    /\ name # <<>>
    /\ name[1] \notin Numerals \cup Timestamps \cup {"_"}

-----------------------------------------------------------------------------
(* ast::Expression.                                                         *)

Str(text) == [k |-> "string", t |-> text, a |-> <<>>]

Const(text) == [k |-> "constant", t |-> text, a |-> <<>>]

Num(text) == [k |-> "numeric", t |-> text, a |-> <<>>]

Bool(text) == [k |-> "boolean", t |-> text, a |-> <<>>]

AnyValue(text) == [k |-> "any", t |-> text, a |-> <<>>]

Call(name, params) == [k |-> "function", t |-> name, a |-> params]

Arr(elements) == [k |-> "array", t |-> <<>>, a |-> elements]

Arg(name, value) == [name |-> name, value |-> value]

Dir(name, args) == [name |-> name, args |-> args]

EmptyAst == [models |-> <<>>, enums |-> <<>>, types |-> <<>>, blocks |-> <<>>]

find_model(schema, name) == Find(schema.models, LAMBDA m : m.name = name)

find_enum(schema, name) == Find(schema.enums, LAMBDA e : e.name = name)

find_custom_type(ast, name) == Find(ast.types, LAMBDA t : t.name = name)

find_field(model, name) == Find(model.fields, LAMBDA f : f.name = name)

-----------------------------------------------------------------------------
(* The renderer.  An expression of kind Any is not rendered: it only exists *)
(* while env() is evaluated.                                                *)

RECURSIVE render_value(_)
render_value(value) ==
    [form |-> CASE value.k = "array" -> "list"
                [] value.k = "function" -> "call"
                [] value.k = "string" -> "quoted"
                [] OTHER -> "bare",
     t |-> value.t,
     a |-> [i \in DOMAIN value.a |-> render_value(value.a[i])]]

render_arguments(args) ==
    [i \in DOMAIN args |-> Arg(args[i].name, render_value(args[i].value))]

render_directives(directives) ==
    [i \in DOMAIN directives |->
        Dir(directives[i].name, render_arguments(directives[i].args))]

render_field(field) ==
    [name |-> field.name, tpe |-> field.tpe, arity |-> field.arity,
     directives |-> render_directives(field.directives)]

render_model(model) ==
    [name |-> model.name,
     fields |-> [i \in DOMAIN model.fields |-> render_field(model.fields[i])],
     directives |-> render_directives(model.directives)]

render_enum(enum) ==
    [enum EXCEPT !.directives = render_directives(enum.directives)]

render_block(block) == [block EXCEPT !.args = render_arguments(block.args)]

Render(ast) ==
    [models |-> [i \in DOMAIN ast.models |-> render_model(ast.models[i])],
     enums |-> [i \in DOMAIN ast.enums |-> render_enum(ast.enums[i])],
     types |-> [i \in DOMAIN ast.types |-> render_field(ast.types[i])],
     blocks |-> [i \in DOMAIN ast.blocks |-> render_block(ast.blocks[i])]]

-----------------------------------------------------------------------------
(* The parser.  The grammar allows one unnamed argument, and only in the    *)
(* first place; an array has an element.                                    *)

RECURSIVE IsExpression(_)
IsExpression(word) ==
    /\ word.form = "list" => word.a # <<>>
    /\ word.form = "call" => IsIdentifier(word.t)
    /\ word.form = "bare" => word.t[1] \in Numerals \/ IsIdentifier(word.t)
    /\ \A i \in DOMAIN word.a : IsExpression(word.a[i])

RECURSIVE parse_expression(_)
parse_expression(word) ==
    [k |-> CASE word.form = "list" -> "array"
             [] word.form = "call" -> "function"
             [] word.form = "quoted" -> "string"
             [] word.t[1] \in Numerals -> "numeric"
             [] word.t \in {<<"true">>, <<"false">>} -> "boolean"
             [] OTHER -> "constant",
     t |-> word.t,
     a |-> [i \in DOMAIN word.a |-> parse_expression(word.a[i])]]

AreDirectives(directives) ==
    \A i \in DOMAIN directives : \A j \in DOMAIN directives[i].args :
        /\ directives[i].args[j].name = "" => j = 1
        /\ IsExpression(directives[i].args[j].value)

parse_arguments(args) ==
    [i \in DOMAIN args |-> Arg(args[i].name, parse_expression(args[i].value))]

parse_directives(directives) ==
    [i \in DOMAIN directives |->
        Dir(directives[i].name, parse_arguments(directives[i].args))]

AreFields(fields) ==
    \A i \in DOMAIN fields :
        /\ IsIdentifier(fields[i].name) /\ IsIdentifier(fields[i].tpe)
        /\ AreDirectives(fields[i].directives)

parse_field(field) ==
    [field EXCEPT !.directives = parse_directives(field.directives)]

IsModel(model) ==
    /\ IsIdentifier(model.name)
    /\ AreFields(model.fields)
    /\ AreDirectives(model.directives)

parse_model(model) ==
    [name |-> model.name,
     fields |-> [i \in DOMAIN model.fields |-> parse_field(model.fields[i])],
     directives |-> parse_directives(model.directives)]

IsEnum(enum) ==
    /\ IsIdentifier(enum.name)
    /\ \A i \in DOMAIN enum.values : IsIdentifier(enum.values[i])
    /\ AreDirectives(enum.directives)

parse_enum(enum) ==
    [enum EXCEPT !.directives = parse_directives(enum.directives)]

IsBlock(block) ==
    /\ IsIdentifier(block.name)
    /\ \A i \in DOMAIN block.args : IsExpression(block.args[i].value)

parse_block(block) == [block EXCEPT !.args = parse_arguments(block.args)]

Parse(text) ==
    IF /\ \A i \in DOMAIN text.models : IsModel(text.models[i])
       /\ \A i \in DOMAIN text.enums : IsEnum(text.enums[i])
       /\ AreFields(text.types)
       /\ \A i \in DOMAIN text.blocks : IsBlock(text.blocks[i])
    THEN Ok([models |-> [i \in DOMAIN text.models |-> parse_model(text.models[i])],
             enums |-> [i \in DOMAIN text.enums |-> parse_enum(text.enums[i])],
             types |-> [i \in DOMAIN text.types |-> parse_field(text.types[i])],
             blocks |-> [i \in DOMAIN text.blocks |-> parse_block(text.blocks[i])]])
    ELSE Err
=============================================================================
