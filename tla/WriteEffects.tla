----------------------------- MODULE WriteEffects -----------------------------
(***************************************************************************)
(* What the write operations promise, stated on the tables and without any *)
(* graph: the tables after a request that succeeds, and the relations that *)
(* hold between the records at any time.                                   *)
(***************************************************************************)
EXTENDS Integers, Sequences, FiniteSets

(* The pairs of related records of a field, seen from the field's model. *)
Related(db, f) ==
    IF f.owner THEN {<<l[2], l[3]>> : l \in {x \in db.links : x[1] = f.rel}}
               ELSE {<<l[3], l[2]>> : l \in {x \in db.links : x[1] = f.rel}}

RelatedOf(db, f, p) == {c \in db.rows[f.to] : <<p, c>> \in Related(db, f)}

Put(db, f, p, c) ==
    [db EXCEPT !.links = @ \cup {IF f.owner THEN <<f.rel, p, c>> ELSE <<f.rel, c, p>>}]

Drop(db, f, ps, cs) ==
    [db EXCEPT !.links = {l \in @ : ~ (l[1] = f.rel /\ IF f.owner THEN l[2] \in ps /\ l[3] \in cs
                                                                  ELSE l[3] \in ps /\ l[2] \in cs)}]

(* Relating two records takes them out of the relations they may have only once. *)
Relate(db, f, p, c) ==
    LET d1 == IF f.list THEN db ELSE Drop(db, f, {p}, db.rows[f.to])
        d2 == IF f.rlist THEN d1 ELSE Drop(d1, f, db.rows[f.model], {c})
    IN  Put(d2, f, p, c)

Delete(db, model, ids) ==
    [rows    |-> [db.rows EXCEPT ![model] = @ \ ids],
     links   |-> {l \in db.links : l[2] \notin ids /\ l[3] \notin ids},
     touched |-> db.touched \ ids]

Touch(db, ids, touch) == IF touch THEN [db EXCEPT !.touched = @ \cup ids] ELSE db

TheOne(s) == CHOOSE x \in s : TRUE

RECURSIVE EffectOfNested(_, _, _)

EffectOfCreate(db, model, data) ==
    EffectOfNested([db EXCEPT !.rows[model] = @ \cup {data.id}], data.id, data.nested)

EffectOfUpdate(db, id, data) == EffectOfNested(Touch(db, {id}, data.touch), id, data.nested)

(* One value of a nested operation on the record p. *)
EffectOfValue(db, p, f, op, v) ==
    LET mine == RelatedOf(db, f, p)
    IN  CASE op = "create"     -> Relate(EffectOfCreate(db, f.to, v.create), f, p, v.create.id)
          [] op = "connect"    -> Relate(db, f, p, TheOne(v.where))
          [] op = "disconnect" -> IF f.list THEN Drop(db, f, {p}, v.where)
                                  ELSE IF v.flag THEN Drop(db, f, {p}, mine) ELSE db
          [] op = "delete"     -> IF f.list THEN Delete(db, f.to, v.where)
                                  ELSE IF v.flag THEN Delete(db, f.to, mine) ELSE db
          [] op = "deleteMany" -> Delete(db, f.to, mine \cap v.where)
          [] op = "update"     -> EffectOfUpdate(db, TheOne(IF f.list THEN v.where ELSE mine), v.update)
          [] op = "updateMany" -> Touch(db, mine \cap v.where, v.update.touch)
          [] op = "upsert"     -> LET hit == IF f.list THEN mine \cap v.where ELSE mine
                                  IN  IF hit = {}
                                      THEN Relate(EffectOfCreate(db, f.to, v.create), f, p, v.create.id)
                                      ELSE EffectOfUpdate(db, TheOne(hit), v.update)

RECURSIVE EffectOfValues(_, _, _, _, _)
EffectOfValues(db, p, f, op, vals) ==
    IF vals = <<>> THEN db
    ELSE EffectOfValues(EffectOfValue(db, p, f, op, Head(vals)), p, f, op, Tail(vals))

(* set: exactly the named records that exist. *)
EffectOfSet(db, p, f, vals) ==
    LET named == {c \in db.rows[f.to] : \E i \in DOMAIN vals : c \in vals[i].where}
        kept  == Drop(db, f, {p}, db.rows[f.to])
        free  == IF f.rlist THEN kept ELSE Drop(kept, f, db.rows[f.model], named)
    IN  [free EXCEPT !.links = @ \cup {IF f.owner THEN <<f.rel, p, c>> ELSE <<f.rel, c, p>> : c \in named}]

EffectOfNested(db, p, nested) ==
    IF nested = <<>> THEN db
    ELSE LET n == Head(nested)
         IN  EffectOfNested(IF n.op = "set" THEN EffectOfSet(db, p, n.field, n.vals)
                            ELSE EffectOfValues(db, p, n.field, n.op, n.vals), p, Tail(nested))

(* The tables after a request that succeeds. *)
Effect(db, r) ==
    LET hit == db.rows[r.model] \cap r.where
    IN  CASE r.op = "createOne"  -> EffectOfCreate(db, r.model, r.create)
          [] r.op = "updateOne"  -> EffectOfUpdate(db, TheOne(r.where), r.update)
          [] r.op = "updateMany" -> Touch(db, hit, r.update.touch)
          [] r.op = "deleteOne"  -> Delete(db, r.model, hit)
          [] r.op = "deleteMany" -> Delete(db, r.model, hit)
          [] r.op = "upsertOne"  -> IF hit = {} THEN EffectOfCreate(db, r.model, r.create)
                                    ELSE EffectOfUpdate(db, TheOne(hit), r.update)

RECURSIVE EffectOfAll(_, _)
EffectOfAll(db, rs) == IF rs = <<>> THEN db ELSE EffectOfAll(Effect(db, Head(rs)), Tail(rs))

-------------------------------------------------------------------------------
(* A field relates only records that exist, and one that is no list relates  *)
(* a record to at most one other.                                            *)
RelationsFit(db, schema) ==
    \A f \in schema :
        /\ \A pair \in Related(db, f) : pair[1] \in db.rows[f.model] /\ pair[2] \in db.rows[f.to]
        /\ ~ f.list => \A p \in db.rows[f.model] : Cardinality(RelatedOf(db, f, p)) <= 1

(* A required field relates every record. *)
RequiredSet(db, fields) ==
    \A f \in fields : f.required => \A p \in db.rows[f.model] : RelatedOf(db, f, p) # {}

RelationsHold(db, schema) == RelationsFit(db, schema) /\ RequiredSet(db, schema)
===============================================================================
