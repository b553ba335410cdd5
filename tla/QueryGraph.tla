------------------------------ MODULE QueryGraph ------------------------------
(***************************************************************************)
(* The query graph of the query engine's core (query_graph/mod.rs), the    *)
(* checks that guard its edges (query_graph/invariance_rules.rs), and the  *)
(* translation of a finished graph to the expression the interpreter runs  *)
(* (interpreter/expressionista.rs).                                        *)
(*                                                                         *)
(* A graph is a record.  "nodes" and "edges" are sequences because petgraph*)
(* numbers both and the code orders children by edge number; a NodeRef is  *)
(* an index into "nodes".  "marked" are the pairs to swap, "results" the   *)
(* result nodes, "err" the first error met while building ("" if none):    *)
(* the code stops there, and here the rest of the graph is never used.     *)
(* An edge carries a dependency record; its closures are described by data,*)
(* see WriteGraphBuilder.                                                  *)
(***************************************************************************)
EXTENDS Integers, Sequences, FiniteSets, SequencesExt

NoError == ""

(* QueryGraph::new *)
new(schema) ==
    [schema |-> schema, nodes |-> <<>>, edges |-> <<>>, marked |-> <<>>,
     results |-> {}, err |-> NoError]

Fail(g, e) == IF g.err = NoError THEN [g EXCEPT !.err = e] ELSE g

(* The NodeRef that the next create_node returns. *)
NextRef(g) == Len(g.nodes) + 1

IsFlow(node) == node.kind \in {"if", "empty"}

-------------------------------------------------------------------------------
(* Edges, in ascending index order as collect_edges sorts them. *)

collect_edges(g, chosen) ==
    SelectSeq([i \in DOMAIN g.edges |-> i], LAMBDA i : i \in chosen)

outgoing_edges(g, n) == collect_edges(g, {i \in DOMAIN g.edges : g.edges[i].from = n})
incoming_edges(g, n) == collect_edges(g, {i \in DOMAIN g.edges : g.edges[i].to = n})

child_pairs(g, n) ==
    LET out == outgoing_edges(g, n) IN [i \in DOMAIN out |-> g.edges[out[i]].to]

(* invariance_rules.rs, after_edge_creation: only Then and Else leave an If  *)
(* node, at most two of them, and no edge points to its own source.          *)
Violates(g, e) ==
    \/ g.nodes[e.from].kind = "if"
       /\ (e.dep.kind \notin {"then", "else"} \/ Len(outgoing_edges(g, e.from)) > 2)
    \/ e.from = e.to

Edge(from, to, dep) == [from |-> from, to |-> to, dep |-> dep]

(* A part of a graph: nodes numbered from the next free NodeRef on, and edges *)
(* in the order of their creation.                                           *)
Part(nodes, edges) == [nodes |-> nodes, edges |-> edges]
Nothing == Part(<<>>, <<>>)
Join(parts) == Part(FlattenSeq([i \in DOMAIN parts |-> parts[i].nodes]),
                    FlattenSeq([i \in DOMAIN parts |-> parts[i].edges]))

(* create_node for the nodes and create_edge for the edges of a part. *)
Extend(g, part) ==
    LET h == [g EXCEPT !.nodes = @ \o part.nodes, !.edges = @ \o part.edges]
    IN  IF \E e \in Range(part.edges) : Violates(h, e) THEN Fail(h, "InvarianceViolation") ELSE h

create_edge(g, from, to, dep) == Extend(g, Part(<<>>, <<Edge(from, to, dep)>>))

(* The part may depend on the number of its first node, and on a condition; *)
(* what follows may depend on the graph and its next NodeRef.               *)
ExtendIf(condition, g, PartAt(_)) == IF condition THEN Extend(g, PartAt(NextRef(g))) ELSE g
Continue(g, With(_, _)) == With(g, NextRef(g))

(* petgraph's Graph::remove_edge: the last edge takes the freed index. *)
remove_edge(g, i) ==
    LET n == Len(g.edges)
    IN  [g EXCEPT !.edges = SubSeq([g.edges EXCEPT ![i] = g.edges[n]], 1, n - 1)]

add_result_node(g, n) == [g EXCEPT !.results = @ \cup {n}]
mark_nodes(g, parent, child) == [g EXCEPT !.marked = Append(@, <<parent, child>>)]

-------------------------------------------------------------------------------
(* Ancestry. *)

RECURSIVE Descendants(_, _)
Descendants(g, ns) ==
    LET more == ns \cup {e.to : e \in {f \in Range(g.edges) : f.from \in ns}}
    IN  IF more = ns THEN ns ELSE Descendants(g, more)

Children(g, n) == Range(child_pairs(g, n))

(* is_ancestor: "successor" can be reached from "ancestor" in one or more edges. *)
is_ancestor(g, ancestor, successor) == successor \in Descendants(g, Children(g, ancestor))

Acyclic(g) == \A n \in DOMAIN g.nodes : ~ is_ancestor(g, n, n)

(* Mutant: a child with a second parent is nobody's direct child. *)
is_direct_child_of_one(g, parent, child) ==
    \A i \in DOMAIN g.edges : g.edges[i].to = child => g.edges[i].from = parent

is_direct_child(g, parent, child) ==
    \A i \in DOMAIN g.edges :
        (g.edges[i].to = child /\ g.edges[i].from # parent)
            => is_ancestor(g, g.edges[i].from, parent)

direct_child_pairs(g, n) ==
    SelectSeq(child_pairs(g, n), LAMBDA c : is_direct_child(g, n, c))

subgraph_contains_result(g, n) == Descendants(g, {n}) \cap g.results # {}

root_nodes(g) ==
    SelectSeq([n \in DOMAIN g.nodes |-> n], LAMBDA n : incoming_edges(g, n) = <<>>)

-------------------------------------------------------------------------------
(* swap_marked: the child of every marked pair becomes a parent of its       *)
(* parent, last pair first.                                                  *)

(* Mutant: a Flow node keeps its edge to the marked parent, as other nodes do. *)
SwapParentEdgeOfAny(g, i, child) == create_edge(g, g.edges[i].from, child, [kind |-> "order"])

(* One of the edges into the marked parent.  A Flow node is rewired to the   *)
(* child; any other parent gets an extra ordering edge to the child.  The    *)
(* indices in "parent_edges" were read before the first removal.             *)
SwapParentEdge(g, i, child) ==
    LET e == g.edges[i]
    IN  IF IsFlow(g.nodes[e.from])
        THEN create_edge(remove_edge(g, i), e.from, child, e.dep)
        ELSE create_edge(g, e.from, child, [kind |-> "order"])

RECURSIVE SwapParentEdges(_, _, _)
SwapParentEdges(g, parent_edges, child) ==
    IF parent_edges = <<>> THEN g
    ELSE SwapParentEdges(SwapParentEdge(g, Head(parent_edges), child), Tail(parent_edges), child)

(* "Can only be one at most" says the code of the edge it looks up; a second *)
(* one is an error here, so that a graph that has it is noticed.             *)
find_edge(g, parent, child) ==
    collect_edges(g, {i \in DOMAIN g.edges : g.edges[i].from = parent /\ g.edges[i].to = child})

SwapPair(g, parent, child) ==
    LET wired    == SwapParentEdges(g, incoming_edges(g, parent), child)
        existing == find_edge(wired, parent, child)
    IN  CASE existing = <<>>      -> wired
          [] Len(existing) = 1  -> create_edge(remove_edge(wired, existing[1]), child, parent,
                                               wired.edges[existing[1]].dep)
          [] OTHER              -> Fail(wired, "AmbiguousEdge")

RECURSIVE SwapPairs(_, _)
SwapPairs(g, marked) ==
    IF marked = <<>> THEN g
    ELSE SwapPairs(SwapPair(g, Last(marked)[1], Last(marked)[2]), Front(marked))

swap_marked(g) == SwapPairs([g EXCEPT !.marked = <<>>], g.marked)

(* finalize; the validation it calls has no rule switched on. *)
finalize(g) == swap_marked(g)

-------------------------------------------------------------------------------
(* Expressionista: the expression for a node and everything below it that   *)
(* has the node as its closest ancestor.  Every node of the tree carries    *)
(* "deps", the closures that transform it, each with the node whose result  *)
(* it reads.                                                                *)

Expr(type) == [type |-> type, node |-> 0, deps |-> <<>>, binds |-> <<>>, body |-> <<>>, else |-> <<>>]

(* collect_parent_transformers *)
collect_parent_transformers(g, edges) ==
    LET ids == SelectSeq(edges, LAMBDA i : g.edges[i].dep.kind = "ids")
    IN  [k \in DOMAIN ids |-> [from |-> g.edges[ids[k]].from, fn |-> g.edges[ids[k]].dep]]

(* The children whose subgraph holds a result are taken out of the list at   *)
(* positions found before the first removal: with two of them the second     *)
(* removal is one place too far to the right.                                *)
RECURSIVE RemovePositions(_, _)
RemovePositions(children, positions) ==
    IF positions = <<>> THEN [rest |-> children, taken |-> <<>>]
    ELSE LET more == RemovePositions(RemoveAt(children, Head(positions)), Tail(positions))
         IN  [more EXCEPT !.taken = <<children[Head(positions)]>> \o @]

SplitResults(g, children) ==
    RemovePositions(children,
        SelectSeq([i \in DOMAIN children |-> i],
                  LAMBDA i : subgraph_contains_result(g, children[i])))

(* fold_result_scopes *)
fold_result_scopes(binds) ==
    [Expr("let") EXCEPT !.binds = binds,
                        !.body = <<[Expr("first") EXCEPT !.binds = [i \in DOMAIN binds |-> binds[i].name]]>>]

RECURSIVE build_expression(_, _, _)

(* Nodes below a node are built with all their incoming edges, roots with none. *)
BuildChild(g, n) == build_expression(g, n, incoming_edges(g, n))

build_query_expression(g, n, parent_edges) ==
    LET split   == SplitResults(g, direct_child_pairs(g, n))
        before  == [i \in DOMAIN split.rest |-> BuildChild(g, split.rest[i])]
        scopes  == [i \in DOMAIN split.taken |->
                       [name |-> split.taken[i], expr |-> BuildChild(g, split.taken[i])]]
        body    == before \o (IF scopes = <<>> THEN <<>> ELSE <<fold_result_scopes(scopes)>>)
        expr    == [Expr("query") EXCEPT !.node = n, !.deps = collect_parent_transformers(g, parent_edges)]
        get     == IF n \in g.results THEN <<[Expr("get") EXCEPT !.node = n]>> ELSE <<>>
    IN  IF body = <<>> THEN expr
        ELSE [Expr("let") EXCEPT !.binds = <<[name |-> n, expr |-> expr]>>, !.body = body \o get]

(* An If node is transformed by its newest incoming edge alone; an Empty     *)
(* node runs the transformers of all of them before its children.           *)
build_flow_expression(g, n, parent_edges) ==
    IF g.nodes[n].kind = "empty"
    THEN LET below == direct_child_pairs(g, n)
         IN  [Expr("seq") EXCEPT !.node = n, !.deps = collect_parent_transformers(g, parent_edges),
                                 !.body = [i \in DOMAIN below |-> BuildChild(g, below[i])]]
    ELSE LET out(kind) == SelectSeq(outgoing_edges(g, n), LAMBDA i : g.edges[i].dep.kind = kind)
             arm(es)   == [i \in DOMAIN es |-> BuildChild(g, g.edges[es[i]].to)]
             newest(es) == IF es = <<>> THEN <<>> ELSE <<Last(es)>>
         IN  [Expr("if") EXCEPT !.node = n,
                                !.deps = collect_parent_transformers(g, newest(parent_edges)),
                                !.body = arm(newest(out("then"))),
                                !.else = arm(newest(out("else")))]

build_expression(g, n, parent_edges) ==
    IF IsFlow(g.nodes[n]) THEN build_flow_expression(g, n, parent_edges)
                          ELSE build_query_expression(g, n, parent_edges)

(* translate *)
translate(g) ==
    LET roots == root_nodes(g)
    IN  [Expr("seq") EXCEPT !.body = [i \in DOMAIN roots |-> build_expression(g, roots[i], <<>>)]]

(* The nodes an expression evaluates, one entry for each place it does.  The *)
(* code takes a node's content out of the graph when it builds it: meeting a *)
(* node a second time is a panic.                                            *)
RECURSIVE Occurrences(_)
Occurrences(e) ==
    LET parts == [i \in DOMAIN e.body |-> e.body[i]] \o e.else
                   \o (IF e.type = "let" THEN [i \in DOMAIN e.binds |-> e.binds[i].expr] ELSE <<>>)
    IN  (IF e.type \in {"query", "if"} \/ (e.type = "seq" /\ e.node # 0) THEN <<e.node>> ELSE <<>>)
            \o FlattenSeq([i \in DOMAIN parts |-> Occurrences(parts[i])])
===============================================================================
