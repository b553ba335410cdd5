--------------------------- MODULE WriteCorrectness ---------------------------
(***************************************************************************)
(* What a document of write operations promises: the properties of         *)
(* QueryExecutor, stated with the reference definitions of WriteEffects.   *)
(***************************************************************************)
EXTENDS QueryExecutor, WriteEffects

(* The errors that are no answer to the caller's request but a failure of  *)
(* the engine: a panic, a result that is not in scope or has no ids, a     *)
(* malformed graph, a column that the table does not have.                 *)
InternalErrors ==
    {"Panic", "EnvVarNotFound", "InterpretationError", "InvarianceViolation", "AmbiguousEdge",
     "UnknownColumn"}

(* The committed tables are always the ones the successful operations      *)
(* describe, each applied in full and in order, and an operation that      *)
(* failed, at any statement, leaves no trace: the graphs of the nested     *)
(* writes, their translation and their interpretation in a transaction     *)
(* (InterpretingExecutor::execute) compute what the request says.          *)
CommittedEffect ==
    db = EffectOfAll(document.db, SubSeq(document.operations, 1, next - 1))

(* All nested writes of an operation. *)
RECURSIVE NestedWrites(_)
NestedWrites(data) ==
    Range(data.nested) \cup UNION {UNION {NestedWrites(v.create) \cup NestedWrites(v.update) : v \in Range(w.vals)} :
                                      w \in Range(data.nested)}

(* The other ends of the lists that a committed set has written: it takes    *)
(* records out of the list and does not look whether they can do without     *)
(* (connect_nested_set).                                                     *)
Vacated ==
    LET committed == {document.operations[i] : i \in 1 .. next - 1}
        writes    == UNION {NestedWrites(o.create) \cup NestedWrites(o.update) : o \in committed}
    IN  {related_field(w.field) : w \in {x \in writes : x.op = "set"}}

(* No committed table ever breaks a relation: the checks that the builders *)
(* insert for the other ends of a relation (insert_deletion_checks,        *)
(* insert_existing_1to1_related_model_checks) keep a required field set    *)
(* and a field that is no list single.  The database does neither, since   *)
(* no foreign key column is NOT NULL or unique.  The exception is a field  *)
(* at the other end of a list that was set.                                *)
RelationsKept ==
    /\ RelationsFit(db, document.schema)
    /\ RequiredSet(db, document.schema \ Vacated)

(* A request that names existing records is never answered by a failure of *)
(* the engine: every dependency of a node finds its parent's ids in scope  *)
(* (Expressionista, Env::get), no update of one record comes back empty    *)
(* (update_one), no edge breaks an invariance rule.                        *)
NoInternalError == error \notin InternalErrors

(* The translation of a finished graph evaluates every node, and evaluates *)
(* it once: swapping the marked pairs (swap_marked) and choosing direct    *)
(* children (is_direct_child) loses no query and leaves no cycle.          *)
EveryNodeOnce ==
    phase = "start" =>
        \A g \in {finalize(build(document.schema, document.operations[next]))} :
            \A o \in {Occurrences(translate(g))} :
                g.err = NoError => IsInjective(o) /\ Range(o) = DOMAIN g.nodes /\ Acyclic(g)

(* A document, seen from outside: the committed tables, the answers and    *)
(* what became of it.                                                      *)
Document == INSTANCE DocumentService
              WITH tables <- db, answers <- responses,
                   outcome <- CASE phase = "done"   -> "answered"
                                [] phase = "failed" -> "refused"
                                [] OTHER            -> "open"

(* InterpretingExecutor::execute implements the service: each operation     *)
(* takes effect in one step, with the effect the request describes and the  *)
(* record it created, updated or deleted as the answer, whichever nested    *)
(* writes ran around it and whichever arm an upsert took; an operation that *)
(* fails, at any statement, leaves no trace, and ends the document.         *)
DocumentImplemented == Document!Spec
===============================================================================
