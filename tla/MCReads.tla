------------------------------- MODULE MCReads -------------------------------
(***************************************************************************)
(* Small data models, databases and documents for the request modules.     *)
(***************************************************************************)
EXTENDS ReadCorrectness

-----------------------------------------------------------------------------
(* Data models.                                                            *)

Plainly(m, name, type) ==
  [model |-> m, name |-> name, scalar |-> TRUE, type |-> type, list |-> FALSE, required |-> FALSE,
   unique |-> FALSE, id |-> FALSE, hidden |-> FALSE, default |-> FALSE,
   auto |-> FALSE, to |-> "", opp |-> <<>>, at |-> ""]
Id(m, type) == [Plainly(m, <<"id">>, type) EXCEPT !.id = TRUE, !.required = TRUE, !.unique = TRUE, !.auto = TRUE]
X(m) == Plainly(m, <<"x">>, "Int")
ToOne(m, name, to, opp, at) ==
  [Plainly(m, <<name>>, "") EXCEPT !.scalar = FALSE, !.to = to, !.opp = <<opp>>, !.at = at]
ToMany(m, name, to, opp, at) == [ToOne(m, name, to, opp, at) EXCEPT !.list = TRUE]
Required(f) == [f EXCEPT !.required = TRUE]
Model(m, fields) == [name |-> m, fields |-> fields]

(* Every kind of relation: inlined on either side, in a table of its own,  *)
(* to one and to many, required and optional.                              *)
Shop ==
  <<Model("A", <<Id("A", "ID"), X("A"), ToMany("A", "bs", "B", "a", "there"),
                 ToMany("A", "cs", "C", "as", "table"), ToOne("A", "d", "D", "of", "there")>>),
    Model("B", <<Id("B", "ID"), X("B"), [Plainly("B", <<"l">>, "Int") EXCEPT !.list = TRUE],
                 ToOne("B", "a", "A", "bs", "here")>>),
    Model("C", <<Id("C", "ID"), X("C"), ToMany("C", "as", "A", "cs", "table")>>),
    Model("D", <<Id("D", "ID"), Required(ToOne("D", "of", "A", "d", "here"))>>)>>

(* Two relation fields of the same name to the same model.                 *)
Shared ==
  <<Model("P", <<Id("P", "ID"), ToMany("P", "ts", "T", "p", "there")>>),
    Model("Q", <<Id("Q", "ID"), ToMany("Q", "ts", "T", "q", "there")>>),
    Model("T", <<Id("T", "ID"), X("T"), ToOne("T", "p", "P", "ts", "here"),
                 Required(ToOne("T", "q", "Q", "ts", "here"))>>)>>

(* Fields whose names end like an operation.                               *)
Suffixed ==
  <<Model("S", <<Id("S", "ID"), X("S"), Plainly("S", <<"check", "_in">>, "Int"),
                 [ToOne("S", "", "R", "ss", "here") EXCEPT !.name = <<"BR", "AND">>]>>),
    Model("R", <<Id("R", "ID"), X("R"), [ToMany("R", "ss", "S", "", "there") EXCEPT !.opp = <<"BR", "AND">>]>>)>>

(* Ids the database or the client gives, a model with nothing to create, a *)
(* hidden back relation, and the other scalar types.                       *)
Mixed ==
  <<Model("G", <<Id("G", "Int"), Required(Plainly("G", <<"name">>, "String")),
                 [Required(Plainly("G", <<"on">>, "Boolean")) EXCEPT !.default = TRUE],
                 Plainly("G", <<"e">>, "Enum"), [Required(Plainly("G", <<"t">>, "DateTime")) EXCEPT !.auto = TRUE],
                 ToMany("G", "hs", "H", "g", "there"), ToMany("G", "ks", "K", "g", "there")>>),
    Model("H", <<Id("H", "Int"), Required(ToOne("H", "g", "G", "hs", "here"))>>),
    Model("K", <<[Id("K", "ID") EXCEPT !.auto = FALSE], [Plainly("K", <<"u">>, "Int") EXCEPT !.unique = TRUE],
                 [ToOne("K", "g", "G", "ks", "here") EXCEPT !.hidden = TRUE]>>)>>

(* Ids that are UUIDs.                                                     *)
Uuids == <<Model("U", <<Id("U", "UUID"), X("U")>>)>>

MCDatamodels == [shop |-> Shop, shared |-> Shared, suffixed |-> Suffixed, mixed |-> Mixed, uuids |-> Uuids]

-----------------------------------------------------------------------------
(* Documents.                                                              *)

Sel(name, args, nested) == [name |-> name, alias |-> <<>>, args |-> args, nested |-> nested]
As(alias, s) == [s EXCEPT !.alias = <<alias>>]
Fld(name) == Sel(<<name>>, <<>>, <<>>)
Rel(name, args, nested) == Sel(<<name>>, args, nested)
V(name, value) == [name |-> name, value |-> value]
Arg1(name, value) == V(<<name>>, value)
Num(n) == Value("int", n, <<>>, <<>>, <<>>)
Txt(kind) == Value("string", 0, <<kind>>, <<>>, <<>>)
Enm(e) == Value("enum", 0, e, <<>>, <<>>)
Bool == Value("bool", 0, <<>>, <<>>, <<>>)
Lst(l) == Value("list", 0, <<>>, l, <<>>)
Obj(o) == Value("object", 0, <<>>, <<>>, o)
Where(o) == Arg1("where", Obj(o))
By(f, way) == Arg1("orderBy", Enm(<<f, way>>))
First(n) == Arg1("first", Num(n))
Last_(n) == Arg1("last", Num(n))
Skip(n) == Arg1("skip", Num(n))
After(n) == Arg1("after", Num(n))
Before(n) == Arg1("before", Num(n))
ManyA(args, nested) == Sel(<<"findMany", "A">>, args, nested)
Ids_ == <<Fld("id")>>
FilterA(o) == ManyA(<<Where(o)>>, Ids_)
xIs(op, v) == V(<<"x">> \o op, v)
Some(n, o) == V(<<n, "_some">>, Obj(o))
None(n, o) == V(<<n, "_none">>, Obj(o))
Every_(n, o) == V(<<n, "_every">>, Obj(o))
With(n, o) == V(<<n>>, Obj(o))

ScalarFilters ==
  {FilterA(<<xIs(op, v)>>) : op \in {<<>>, <<"_not">>, <<"_lt">>, <<"_lte">>, <<"_gt">>, <<"_gte">>},
                             v \in {Num(1), NullValue}}
  \cup {FilterA(<<xIs(op, v)>>) : op \in {<<"_in">>, <<"_not", "_in">>},
                                  v \in {Num(1), NullValue, Lst(<<>>), Lst(<<Num(0), Num(1)>>)}}

x1 == xIs(<<>>, Num(1))
RelationFilters ==
  {FilterA(o) : o \in
    { <<q>> : q \in {Some("bs", <<x1>>), None("bs", <<x1>>), Every_("bs", <<x1>>), Some("cs", <<x1>>),
                     None("cs", <<x1>>), Every_("cs", <<x1>>), Some("bs", <<>>), Every_("cs", <<>>),
                     With("d", <<>>), V(<<"d">>, NullValue), V(<<"bs", "_some">>, NullValue)} }
    \cup { <<V(<<c>>, v)>> : c \in {"AND", "OR", "NOT"},
             v \in {NullValue, Lst(<<>>), Obj(<<x1>>), Lst(<<Obj(<<x1>>), Obj(<<Some("bs", <<x1>>)>>)>>)} }
    \cup { <<Some("cs", <<q>>)>> : q \in {Some("as", <<x1>>), None("as", <<x1>>), Every_("as", <<x1>>)} }
    \cup { <<Every_("cs", <<q>>)>> : q \in {Some("as", <<x1>>), Every_("as", <<x1>>)} }
    \cup { <<None("bs", <<With("a", <<x1>>)>>)>>, <<Every_("bs", <<With("a", <<x1, Some("cs", <<x1>>)>>)>>)>>,
           <<Some("bs", <<V(<<"a">>, NullValue)>>)>>,
           <<Some("cs", <<x1, Some("as", <<x1>>)>>)>>,
           <<Some("cs", <<Some("as", <<Some("bs", <<x1>>)>>)>>)>>,
           <<Some("cs", <<x1, Some("as", <<x1, Some("bs", <<x1>>)>>)>>)>>,
           <<Some("cs", <<Some("as", <<x1, Some("bs", <<x1>>)>>)>>)>> } }

Paged ==
  {ManyA(args, Ids_) : args \in
    {a \o o : o \in {<<>>, <<By("x", "_ASC")>>, <<By("x", "_DESC")>>, <<By("id", "_DESC")>>},
              a \in {<<First(1)>>, <<Last_(1)>>, <<First(0)>>, <<First(1), Skip(1)>>, <<Last_(2), Skip(1)>>,
                     <<After(2)>>, <<Before(2)>>, <<After(1), Last_(1)>>, <<Before(3), First(1)>>,
                     <<After(1), Before(3)>>, <<First(1), Last_(2)>>, <<Skip(2)>>, <<After(4)>>}}}

Nested ==
  {ManyA(<<>>, <<Fld("x"), Rel("bs", args, <<Fld("id"), Fld("l")>>), Rel("d", <<>>, Ids_)>>) :
     args \in {<<>>, <<First(1)>>, <<Last_(1), By("x", "_DESC")>>, <<Where(<<x1>>), Skip(1)>>, <<After(1)>>}}
  \cup {Sel(<<"findOne", "A">>, <<Where(<<V(<<"id">>, Num(n))>>)>>,
            <<Rel("cs", <<>>, <<Fld("x"), Rel("as", args, Ids_)>>)>>) : n \in {1, 4}, args \in {<<>>, <<First(1)>>}}
  \cup {ManyA(<<First(2)>>, <<Rel("cs", <<>>, <<Rel("as", <<First(1)>>, <<Rel("cs", <<First(1)>>, Ids_)>>)>>)>>),
        Sel(<<"findMany", "D">>, <<>>, <<Fld("id"), Rel("of", <<>>, Ids_)>>),
        Sel(<<"findMany", "B">>, <<>>, <<Rel("a", <<>>, <<Fld("x"), Rel("bs", <<>>, Ids_)>>), Fld("l")>>),
        Sel(<<"aggregate", "A">>, <<>>, <<Fld("count")>>)}

Odd ==
  {ManyA(<<>>, <<As("y", Fld("x"))>>), ManyA(<<>>, <<As("x", Fld("id")), As("id", Fld("x"))>>),
   ManyA(<<>>, <<Fld("x"), Fld("x")>>), ManyA(<<>>, <<Rel("bs", <<>>, Ids_), As("more", Rel("bs", <<First(1)>>, Ids_))>>),
   ManyA(<<>>, <<>>), ManyA(<<>>, <<Fld("nothing")>>), ManyA(<<First(1), Arg1("nothing", Num(1))>>, Ids_),
   ManyA(<<By("bs", "_ASC")>>, Ids_), ManyA(<<>>, <<Rel("d", <<First(1)>>, Ids_)>>),
   FilterA(<<xIs(<<"_contains">>, Num(1))>>), FilterA(<<V(<<"l">>, Num(1))>>), FilterA(<<V(<<"bs">>, Obj(<<>>))>>),
   FilterA(<<xIs(<<>>, Txt("text"))>>), FilterA(<<xIs(<<>>, Lst(<<Num(1)>>))>>),
   FilterA(<<V(<<"d", "_some">>, Obj(<<>>))>>), As("renamed", ManyA(<<>>, Ids_))}
  \cup {Sel(<<"findOne", "A">>, args, Ids_) : args \in
          {<<>>, <<Where(<<>>)>>, <<Where(<<V(<<"id">>, NullValue)>>)>>, <<Where(<<x1>>)>>,
           <<Arg1("where", NullValue)>>, <<Where(<<V(<<"id">>, Num(1))>>), First(1)>>}}

(* Cursors and ids that are strings, some of the form of a UUID.           *)
OfForm ==
  {Arg1(cursor, Txt(form)) : cursor \in {"after", "before"}, form \in {"UUID", "text"}}
  \cup {Where(<<V(<<"id">>, Txt(form))>>) : form \in {"UUID", "text"}}
StringIds ==
  {ManyA(<<a, First(1)>>, Ids_) : a \in OfForm} \cup {ManyA(<<>>, <<Rel("bs", <<a>>, Ids_)>>) : a \in OfForm}
UuidIds ==
  {Sel(<<"findMany", "U">>, <<a>>, Ids_) : a \in OfForm \cup {After(1), First(1)}}
  \cup {Sel(<<"findOne", "U">>, <<a>>, Ids_) : a \in OfForm}

(* Mutations: only their validation is part of these modules.              *)
Mutation(kind, m, args) ==
  Sel(<<kind, m>>, args, IF kind \in {"updateMany", "deleteMany"} THEN <<Fld("count")>> ELSE Ids_)
Data(o) == Arg1("data", Obj(o))
Create(m, o) == Mutation("createOne", m, <<Data(o)>>)
ById(n) == Obj(<<V(<<"id">>, Num(n))>>)
UpdateA(o) == Mutation("updateOne", "A", <<Data(o), Arg1("where", ById(1))>>)
In_(rel, op, v) == V(<<rel>>, Obj(<<V(<<op>>, v)>>))

ShopWrites ==
  {Create("A", o) : o \in
     {<<>>, <<x1>>, <<V(<<"id">>, Txt("text")), x1>>, <<xIs(<<>>, Txt("text"))>>,
      <<In_("bs", "create", Obj(<<x1>>))>>, <<In_("bs", "create", Lst(<<Obj(<<>>), Obj(<<x1>>)>>))>>,
      <<In_("bs", "create", Obj(<<In_("a", "connect", ById(1))>>))>>,
      <<In_("bs", "connect", ById(1))>>, <<In_("bs", "update", Obj(<<>>))>>,
      <<In_("d", "create", Obj(<<>>))>>, <<In_("d", "create", Lst(<<Obj(<<>>)>>))>>,
      <<In_("cs", "create", Obj(<<x1, In_("as", "create", Obj(<<>>))>>))>>, <<V(<<"bs">>, NullValue)>>}}
  \cup {Create("D", o) : o \in {<<>>, <<V(<<"of">>, NullValue)>>, <<In_("of", "create", Obj(<<x1>>))>>,
                                <<In_("of", "connect", ById(1))>>, <<V(<<"of">>, Obj(<<>>))>>,
                                <<In_("of", "create", Obj(<<In_("d", "connect", ById(1))>>))>>}}
  \cup {Create("B", <<V(<<"l">>, v)>>) : v \in {Obj(<<V(<<"set">>, Num(1))>>), Obj(<<>>), Lst(<<Num(1)>>)}}
  \cup {UpdateA(o) : o \in
     {<<>>, <<x1>>, <<xIs(<<>>, NullValue)>>, <<In_("d", "disconnect", Bool)>>, <<In_("d", "disconnect", ById(1))>>,
      <<In_("d", "delete", Bool)>>, <<In_("d", "set", ById(1))>>,
      <<In_("d", "upsert", Obj(<<V(<<"update">>, Obj(<<>>)), V(<<"create">>, Obj(<<>>))>>))>>,
      <<In_("bs", "set", Lst(<<ById(1)>>))>>, <<In_("bs", "disconnect", ById(1))>>, <<In_("bs", "disconnect", Bool)>>,
      <<In_("bs", "update", Obj(<<V(<<"where">>, ById(1)), V(<<"data">>, Obj(<<x1>>))>>))>>,
      <<In_("bs", "update", Obj(<<V(<<"data">>, Obj(<<x1>>))>>))>>,
      <<In_("bs", "update", Obj(<<V(<<"where">>, ById(1)), V(<<"data">>, Obj(<<In_("a", "connect", ById(1))>>))>>))>>,
      <<In_("cs", "upsert", Obj(<<V(<<"where">>, ById(1)), V(<<"update">>, Obj(<<>>)), V(<<"create">>, Obj(<<x1>>))>>))>>,
      <<In_("bs", "updateMany", Obj(<<V(<<"where">>, Obj(<<x1>>)), V(<<"data">>, Obj(<<x1>>))>>))>>,
      <<In_("bs", "updateMany", Obj(<<V(<<"where">>, Obj(<<With("a", <<>>)>>)), V(<<"data">>, Obj(<<x1>>))>>))>>,
      <<In_("bs", "updateMany", Obj(<<V(<<"where">>, Obj(<<x1>>)), V(<<"data">>, Obj(<<In_("a", "connect", ById(1))>>))>>))>>,
      <<In_("bs", "deleteMany", Obj(<<V(<<"NOT">>, Obj(<<x1>>))>>))>>}}
  \cup {Mutation("updateOne", "D", <<Data(<<In_("of", op, v)>>), Arg1("where", ById(1))>>) :
          op \in {"disconnect", "update", "delete"}, v \in {Bool, Obj(<<x1>>)}}
  \cup {Mutation("deleteOne", "A", <<Arg1("where", ById(1))>>), Mutation("deleteOne", "A", <<>>),
        Mutation("updateMany", "A", <<Data(<<x1>>)>>), Mutation("updateMany", "A", <<Data(<<In_("d", "delete", Bool)>>)>>),
        Mutation("deleteMany", "A", <<>>), Mutation("deleteMany", "A", <<Where(<<Some("bs", <<x1>>)>>)>>),
        Mutation("upsertOne", "A", <<Arg1("where", ById(1)), Arg1("create", Obj(<<>>)), Arg1("update", Obj(<<x1>>))>>)}

named == V(<<"name">>, Txt("text"))
MixedWrites ==
  {Create("G", o) : o \in {<<>>, <<named>>, <<named, V(<<"id">>, Num(1))>>, <<named, V(<<"on">>, Bool)>>, <<named, V(<<"on">>, NullValue)>>,
                           <<named, V(<<"e">>, Enm(<<"ONE">>))>>, <<named, V(<<"e">>, Enm(<<"SIX">>))>>,
                           <<named, V(<<"t">>, Txt("DateTime"))>>, <<named, V(<<"t">>, Txt("text"))>>,
                           <<named, In_("ks", "create", Obj(<<V(<<"u">>, Num(1))>>))>>,
                           <<named, In_("ks", "create", Obj(<<V(<<"id">>, Num(1))>>))>>,
                           <<named, In_("ks", "create", Obj(<<In_("g", "connect", ById(1))>>))>>,
                           <<named, In_("ks", "connect", Obj(<<V(<<"u">>, Num(1))>>))>>,
                           <<named, In_("hs", "create", Obj(<<>>))>>}}
  \cup {Mutation("updateOne", "G", <<Data(<<In_(rel, "upsert",
            Obj(<<V(<<"where">>, ById(1)), V(<<"update">>, Obj(<<>>)), V(<<"create">>, Obj(<<>>))>>))>>),
            Arg1("where", ById(1))>>) : rel \in {"hs", "ks"}}
  \cup {Mutation("createOne", "H", <<>>), Create("H", <<In_("g", "connect", ById(1))>>)}

SharedWrites ==
  {Create(m, <<In_("ts", "create", Obj(<<In_(r, "connect", ById(1))>>))>>) : m \in {"P", "Q"}, r \in {"p", "q"}}
  \cup {Mutation("updateOne", m, <<Data(<<In_("ts", "update",
            Obj(<<V(<<"where">>, ById(1)), V(<<"data">>, Obj(<<In_(r, "connect", ById(1))>>))>>))>>),
            Arg1("where", ById(1))>>) : m \in {"P", "Q"}, r \in {"p", "q"}}

-----------------------------------------------------------------------------
(* Databases.                                                              *)

EmptyDb == [rows |-> [m \in {"A", "B", "C", "D", "R", "S", "U"} |-> <<>>],
            lists |-> <<"B", <<"l">>>> :> <<>>, links |-> <<"A", <<"cs">>>> :> {}]

(* The x of the As, the x and the A of the Bs, the links to two Cs, the A  *)
(* of the one D, if there is one.                                          *)
Db(ax, bx, ba, links, da) ==
  [rows |-> [A |-> [i \in DOMAIN ax |-> <<"x">> :> ax[i]],
             B |-> [i \in DOMAIN bx |-> (<<"x">> :> bx[i]) @@ (<<"a">> :> ba[i])],
             C |-> [i \in 1..2 |-> <<"x">> :> 2 - i],
             D |-> IF da = Null THEN <<>> ELSE <<(<<"of">> :> da)>>,
             R |-> <<>>, S |-> <<>>],
   lists |-> <<"B", <<"l">>>> :> [i \in DOMAIN bx |-> IF i = 1 THEN <<7, 5>> ELSE <<>>],
   links |-> <<"A", <<"cs">>>> :> links]

FilterDbs ==
  {Db(ax, bx, ba, links, da) :
     ax \in {<<1, 0>>, <<Null, 1>>}, bx \in {<<1, 0>>, <<1, Null>>}, ba \in {<<1, 1>>, <<1, Null>>, <<Null, 2>>, <<1, 2>>},
     links \in {{}, {<<1, 1>>, <<2, 2>>}, {<<1, 1>>, <<1, 2>>, <<2, 1>>}}, da \in {Null, 1}}

PageDbs == {Db(ax, <<>>, <<>>, {}, Null) : ax \in [1..3 -> {0, 1}] \cup {<<0, Null, 1>>, <<Null, Null, 0>>}}

WalkDbs == {Db(ax, <<>>, <<>>, {}, Null) : 
  ax \in {f \in [1..4 -> {0, 1}] : f[1] + f[2] = 1} \cup {<<0, 0, 0, 0>>, <<0, Null, 1, 0>>}}

NestedDbs == {Db(<<1, 0, 1>>, <<1, 0, 1>>, ba, links, da) :
                ba \in {<<1, 1, 2>>, <<3, Null, 1>>}, da \in {Null, 2},
                links \in {{<<1, 1>>, <<2, 2>>}, {<<1, 1>>, <<1, 2>>, <<2, 1>>, <<3, 2>>, <<3, 1>>}}}

SuffixDb ==
  [EmptyDb EXCEPT !.rows["S"] = <<(<<"x">> :> 1) @@ (<<"check", "_in">> :> 1) @@ (<<"BR", "AND">> :> 1)>>,
                  !.rows["R"] = <<(<<"x">> :> 0)>>]

(* What another client may do to the records of A, B and D.                *)
Without(f, i) == [j \in DOMAIN f \ {i} |-> f[j]]
DeleteA(d, i) ==
  [d EXCEPT !.rows["A"] = Without(@, i),
            !.rows["B"] = [j \in DOMAIN @ |-> IF @[j][<<"a">>] = i THEN [@[j] EXCEPT ![<<"a">>] = Null] ELSE @[j]],
            !.links = [k \in DOMAIN @ |-> {p \in @[k] : p[1] # i}]]
MCEdits(d) ==
  {[db |-> DeleteA(d, i), touched |-> {<<"A", i>>}] :
     i \in {j \in Ids(d, "A") : \A k \in Ids(d, "D") : d.rows["D"][k][<<"of">>] # j}}
  \cup {[db |-> [d EXCEPT !.rows["A"][i] = <<"x">> :> v], touched |-> {<<"A", i>>}] :
          i \in Ids(d, "A") \cap {1, 2}, v \in {0, 1}}
  \cup {[db |-> [d EXCEPT !.rows["A"] = (5 :> (<<"x">> :> 0)) @@ @], touched |-> {<<"A", 5>>}]}
  \cup {[db |-> [d EXCEPT !.rows["D"] = Without(@, i)], touched |-> {<<"D", i>>}] : i \in Ids(d, "D")}
  \cup {[db |-> [d EXCEPT !.rows["B"] = Without(@, i), !.lists = [k \in DOMAIN @ |-> Without(@[k], i)]],
         touched |-> {<<"B", i>>}] : i \in Ids(d, "B")}
  \cup {[db |-> [d EXCEPT !.rows["B"][i][<<"a">>] = v], touched |-> {<<"B", i>>}] :
          i \in Ids(d, "B") \cap {1}, v \in {Null, 2}}

-----------------------------------------------------------------------------
(* Scenarios.                                                              *)

Scenario(dm, op, sel, d, connector, writes, pages_) ==
  [request |-> [dm |-> dm, op |-> op, sel |-> sel], db |-> d, connector |-> connector,
   writes |-> writes, pages |-> pages_]

Filtering == {Scenario("shop", "query", s, d, "sqlite", FALSE, "") : s \in ScalarFilters \cup RelationFilters, d \in FilterDbs}
Paging == {Scenario("shop", "query", s, d, c, FALSE, "") : s \in Paged, d \in PageDbs, c \in {"sqlite", "postgres"}}
Nesting == {Scenario("shop", "query", s, d, c, TRUE, "") : s \in Nested, d \in NestedDbs, c \in {"sqlite", "mysql"}}
Walking ==
  {Scenario("shop", "query", ManyA(<<First(n)>> \o o \o w, Ids_), d, "sqlite", TRUE, "after") :
     n \in {1, 2}, o \in {<<>>, <<By("x", "_ASC")>>, <<By("x", "_DESC")>>}, w \in {<<>>, <<Where(<<x1>>)>>}, d \in WalkDbs}
  \cup {Scenario("shop", "query", ManyA(<<Last_(n)>> \o o, Ids_), d, "sqlite", TRUE, "before") :
     n \in {1, 2}, o \in {<<>>, <<By("x", "_ASC")>>, <<By("x", "_DESC")>>}, d \in WalkDbs}
OddOnes ==
  {Scenario("shop", "query", s, d, "sqlite", FALSE, "") : s \in Odd \cup StringIds, d \in {EmptyDb} \cup {Db(<<1, 0>>, <<1>>, <<1>>, {}, Null)}}
  \cup {Scenario("suffixed", "query", Sel(<<"findMany", "S">>, <<Where(<<V(n, v)>>)>>, Ids_), SuffixDb, "sqlite", FALSE, "") :
          n \in {<<"check", "_in">>, <<"check", "_in", "_in">>, <<"check", "_in", "_not">>, <<"x">>}, v \in {Num(1), Lst(<<Num(1)>>)}}
  \cup {Scenario("suffixed", "query", Sel(<<"findMany", "S">>, <<Where(<<V(<<"BR", "AND">>, v)>>)>>, Ids_),
                 SuffixDb, "sqlite", FALSE, "") : v \in {NullValue, Obj(<<x1>>)}}
  \cup {Scenario("uuids", "query", s, [EmptyDb EXCEPT !.rows["U"] = u], "sqlite", FALSE, "") :
          s \in UuidIds, u \in {<<>>, <<(<<"x">> :> 1)>>}}
Writing ==
  {Scenario("shop", "mutation", s, EmptyDb, "sqlite", FALSE, "") : s \in ShopWrites}
  \cup {Scenario("mixed", "mutation", s, EmptyDb, "sqlite", FALSE, "") : s \in MixedWrites}
  \cup {Scenario("shared", "mutation", s, EmptyDb, "sqlite", FALSE, "") : s \in SharedWrites}

MCScenarios == Filtering \cup Paging \cup Nesting \cup Walking \cup OddOnes \cup Writing
=============================================================================
