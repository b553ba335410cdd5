---------------------------- MODULE DocumentService ----------------------------
(***************************************************************************)
(* What the query engine promises the sender of a document of write        *)
(* operations, without graphs, expressions, statements or transactions:    *)
(* the operations are performed one after the other, each as a whole; one  *)
(* that cannot be performed ends the document and changes nothing.  The    *)
(* operations before a refused one stay.                                   *)
(***************************************************************************)
EXTENDS WriteEffects

VARIABLES
    document,   \* The tables at the start and the operations asked for.
    tables,     \* The tables that everybody sees.
    answers,    \* The answers to the operations performed so far.
    outcome     \* "open", "answered" or "refused".

service == <<document, tables, answers, outcome>>

(* An operation on one record is answered by that record, one on many by   *)
(* no record.                                                              *)
Answer(db, r) ==
    LET hit == db.rows[r.model] \cap r.where
        record(ids) == [ok |-> TRUE, ids |-> ids]
    IN  CASE r.op = "createOne"                  -> record({r.create.id})
          [] r.op \in {"updateOne", "deleteOne"} -> record(hit)
          [] r.op = "upsertOne"                  -> record(IF hit = {} THEN {r.create.id} ELSE hit)
          [] OTHER                               -> [ok |-> FALSE, ids |-> {}]

Init ==
    /\ tables = document.db
    /\ answers = <<>>
    /\ outcome = "open"

Perform ==
    LET i == Len(answers) + 1
    IN  /\ outcome = "open"
        /\ i \in DOMAIN document.operations
        /\ answers' = Append(answers, Answer(tables, document.operations[i]))
        /\ tables' = Effect(tables, document.operations[i])
        /\ outcome' = IF i = Len(document.operations) THEN "answered" ELSE "open"
        /\ UNCHANGED document

Refuse ==
    /\ outcome = "open"
    /\ outcome' = "refused"
    /\ UNCHANGED <<document, tables, answers>>

Spec == Init /\ [][Perform \/ Refuse]_service
===============================================================================
