----------------------------- MODULE SqlSchemas -----------------------------
(***************************************************************************)
(* The schema on its way from one to the next on SQLite: which tables,     *)
(* columns and indexes it has while some steps are still pending.          *)
(***************************************************************************)
EXTENDS SqlPlans

-----------------------------------------------------------------------------
(* The schema on its way from one schema to another, on SQLite.            *)

\* What the pending steps P have still to change.
Gone(from, P) == {t \in DOMAIN from.def : DropTables({t}) \in P}

Awaited(to, P) == {t \in DOMAIN to.def : CreateTable(t, to.def[t]) \in P}

Outdated(from, to, P) == {t \in Both(from, to) : ChangeOf(from, to, t) \in P}

DropsOf(from, t, P) == {i \in IndexNames(from, t) : DropIndex(t, i) \in P}

CreatesOf(to, t, P) == {i \in IndexNames(to, t) : CreateIndex(t, i, to.def[t].indices[i]) \in P}

Unwritten(P) == {s.table : s \in {x \in P : Rewrites(x)}}

\* What changes when step s is done.
Relieved(from, to, P, Q, s) ==
    /\ Gone(from, Q) = IF s.step = "DropTables" THEN Gone(from, P) \ s.names ELSE Gone(from, P)
    /\ Awaited(to, Q) = IF s.step = "CreateTable" THEN Awaited(to, P) \ {s.table} ELSE Awaited(to, P)
    /\ Outdated(from, to, Q) = IF s.step = "AlterTable" THEN Outdated(from, to, P) \ {s.table}
                               ELSE Outdated(from, to, P)
    /\ \A t : DropsOf(from, t, Q) = IF s.step = "DropIndex" /\ t = s.table THEN DropsOf(from, t, P) \ {s.index}
                                    ELSE DropsOf(from, t, P)
    /\ \A t : CreatesOf(to, t, Q) = IF s.step = "CreateIndex" /\ t = s.table THEN CreatesOf(to, t, P) \ {s.index}
                                    ELSE CreatesOf(to, t, P)
    /\ ~Rewrites(s) => Unwritten(Q) = Unwritten(P)
    /\ \A t : t # s.table => (t \in Unwritten(Q) <=> t \in Unwritten(P))

\* Steps are done in the order of their rank.
Ordered(from, to, P) ==
    /\ P \subseteq Effective(from, to)
    /\ \A a \in P, b \in Effective(from, to) : Rank(a) < Rank(b) => b \in P

\* The live definition d of table t while P is pending.
TableOn(d, from, to, P, t) ==
    /\ DropsOf(from, t, P) \subseteq DOMAIN d.indices
    /\ t \in DOMAIN to.def =>
          /\ d.columns = IF t \in Outdated(from, to, P) THEN RenderColumns(from.def[t].columns)
                         ELSE RenderColumns(to.def[t].columns)
          /\ t \in Unwritten(P) => CreatesOf(to, t, P) \cap DOMAIN d.indices = {}
          /\ t \notin Unwritten(P) =>
                DOMAIN d.indices = (DOMAIN to.def[t].indices \cup DropsOf(from, t, P)) \ CreatesOf(to, t, P)

\* The live tables T while P is pending.
Live(T, from, to, P) ==
    /\ Ordered(from, to, P)
    /\ DOMAIN T = (DOMAIN to.def \cup Gone(from, P)) \ Awaited(to, P)
    /\ \A t \in DOMAIN T : TableOn(T[t], from, to, P, t)

\* No pending step comes before s.
First(P, s) == s \in P /\ \A x \in P : ~(Rank(x) < Rank(s))

\* What is already done when s is next.
Cleared(from, to, P, s) ==
    /\ s.step \notin {"DropIndex", "DropTables"} => Gone(from, P) = {}
    /\ s.step # "DropIndex" => \A t : DropsOf(from, t, P) = {}
    /\ s.step \in {"AlterTable", "CreateIndex", "AlterIndex"} => Awaited(to, P) = {}
    /\ s.step \in {"CreateIndex", "AlterIndex"} => Outdated(from, to, P) = {}
    /\ s.step = "AlterIndex" => \A t : CreatesOf(to, t, P) = {}

\* Two definitions of the same schema, the first as the renderers write it.
Matches(def, wanted) ==
    /\ DOMAIN def = DOMAIN wanted
    /\ \A t \in DOMAIN def :
          /\ def[t].columns = RenderColumns(wanted[t].columns)
          /\ DOMAIN def[t].indices = DOMAIN wanted[t].indices

\* Tables that a failed rewrite left behind have no indexes.
Bare(def) == \A t \in DOMAIN def \cap Temporaries : DOMAIN def[t].indices = {}

\* U is T but for the table x.
Exchanged(T, U, x, columns, indices) ==
    /\ DOMAIN U = DOMAIN T /\ \A t \in DOMAIN T : t # x => U[t] = T[t]
    /\ U[x].columns = columns /\ DOMAIN U[x].indices = indices

\* The table T, in place, has the columns but not yet the index that s creates.
Creatable(T, to, s) ==
    /\ s.table \in DOMAIN T /\ s.table \in DOMAIN to.def
    /\ s.index \in DOMAIN to.def[s.table].indices /\ s.def = to.def[s.table].indices[s.index]
    /\ s.index \notin DOMAIN T[s.table].indices
    /\ T[s.table].columns = RenderColumns(to.def[s.table].columns)

-----------------------------------------------------------------------------
(* What a statement draws is drawn as the renderers draw it.               *)

\* A schema as the statements leave it: the columns are as they were rendered,
\* and the tables that are made for a rewrite have no indexes.
Rendered(def) == \A t \in DOMAIN def : def[t].columns = RenderColumns(def[t].columns)

Drawn(def) == Bare(def) /\ Rendered(def)

-----------------------------------------------------------------------------
(* The migrations that can be undone.                                      *)

GoalBare(g) == Bare(g.before.def) /\ Bare(g.after.def)

\* The last migration of u led to def, each one before it to where the next one
\* started; of those that are unclean this is not known.
History(u, def) ==
    /\ u # <<>> /\ u[1].clean => Matches(def, u[1].after.def)
    /\ \A k \in DOMAIN u : k + 1 \in DOMAIN u /\ u[k + 1].clean =>
          u[k].clean /\ Matches(u[k].before.def, u[k + 1].after.def)
    /\ \A k \in DOMAIN u : GoalBare(u[k])

=============================================================================
