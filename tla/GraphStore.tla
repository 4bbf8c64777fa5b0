----------------------------- MODULE GraphStore -----------------------------
(***************************************************************************)
(* The tables of one workspace's graph file and the statements the         *)
(* mutation service runs on them (crates/mcpmem-core/src/mutation.rs):     *)
(* entities, observations, relations, the mirror row each relation keeps   *)
(* for the chunk worker, relation observations, attributes, the three      *)
(* full-text indexes, and the counters every read trusts.                  *)
(*                                                                         *)
(* A database is a record, a statement an operator from a database to a    *)
(* database, so a transaction that fails is one whose result is dropped.   *)
(* Times, positions (observations are read in the order of their ids) and  *)
(* the revisions and jobs of the index queue (ChunkJobs, IndexSystem) are  *)
(* left out; every row is a live one (flags=0).                            *)
(***************************************************************************)
EXTENDS Integers, FiniteSets, Sequences, SequencesExt, TLC

CONSTANTS
    Names,          \* entity names; NoName is the empty string
    NoName,
    EntityTypes, RelationTypes,
    Defines,        \* the relation type "defines" of the code index
    Bodies,         \* observation texts
    AttrKeys, AttrValues

ASSUME GraphConstants == NoName \notin Names /\ Defines \in RelationTypes

Triples == Names \X Names \X RelationTypes

Attributes == UNION {[keys -> AttrValues] : keys \in SUBSET AttrKeys}

Empty == [x \in {} |-> x]

(* Rows of a table without some keys, and with one row or several put in. *)
Without(table, keys) == [k \in DOMAIN table \ keys |-> table[k]]
With(table, key, row) == [k \in DOMAIN table \cup {key} |-> IF k = key THEN row ELSE table[k]]
Over(rows, table) == [k \in DOMAIN rows \cup DOMAIN table |-> IF k \in DOMAIN rows THEN rows[k] ELSE table[k]]

EmptyStore ==
    [entity |-> Empty, observation |-> Empty, relation |-> {}, mirror |-> Empty,
     relobs |-> Empty, attribute |-> Empty,
     name_fts |-> {}, obs_fts |-> {}, rel_obs_fts |-> {},
     type_dict |-> Empty, described |-> {},
     stat |-> [entities |-> 0, relations |-> 0, observations |-> 0, relation_obs |-> 0],
     seq |-> [entity |-> 0, obs |-> 0, rel_obs |-> 0]]

-----------------------------------------------------------------------------
(* Reading. *)

Exists(d, n) == \E i \in DOMAIN d.entity : d.entity[i].name = n
IdOf(d, n) == CHOOSE i \in DOMAIN d.entity : d.entity[i].name = n

attributes_for(d, kind, owner) ==
    LET keys == {k \in AttrKeys : <<kind, owner, k>> \in DOMAIN d.attribute}
    IN [k \in keys |-> d.attribute[<<kind, owner, k>>]]

ObservationsOf(d, i) == {o \in DOMAIN d.observation : d.observation[o].entity = i}
BodiesOf(d, i) == {d.observation[o].body : o \in ObservationsOf(d, i)}

(* The entity as an event carries it: its id, type, observations and
   attributes. *)
read_entity(d, n) ==
    LET i == IdOf(d, n)
    IN [id |-> i, type |-> d.entity[i].type,
        observations |-> {<<o, d.observation[o].body>> : o \in ObservationsOf(d, i)},
        attributes |-> attributes_for(d, "entity", i)]

Named(d, r) == <<d.entity[r[1]].name, d.entity[r[2]].name, r[3]>>

relations_for(d, n) ==
    {Named(d, r) : r \in {q \in d.relation : n \in {d.entity[q[1]].name, d.entity[q[2]].name}}}

defined_names(d, n) == {n} \cup {r[2] : r \in {q \in relations_for(d, n) : q[1] = n /\ q[3] = Defines}}

(* The triple of ids a triple of names stands for, and the live mirror. *)
Ids(d, t) == <<IdOf(d, t[1]), IdOf(d, t[2]), t[3]>>

LiveMirrors(d, t) ==
    IF Exists(d, t[1]) /\ Exists(d, t[2])
    THEN {m \in DOMAIN d.mirror : d.mirror[m] = [triple |-> Ids(d, t), deleted |-> FALSE]}
    ELSE {}

resolve_relation_mirror(d, t) == CHOOSE m \in LiveMirrors(d, t) : TRUE

(* Mutant of mirror_detail: the attributes of the entity with the mirror's
   number. *)
DetailOfEntity(d, t) ==
    LET m == resolve_relation_mirror(d, t)
    IN [observations |-> {<<o, d.relobs[o].body>> : o \in {p \in DOMAIN d.relobs : d.relobs[p].mirror = m}},
        attributes |-> attributes_for(d, "entity", m)]

mirror_detail(d, t) ==
    LET m == resolve_relation_mirror(d, t)
    IN [observations |-> {<<o, d.relobs[o].body>> : o \in {p \in DOMAIN d.relobs : d.relobs[p].mirror = m}},
        attributes |-> attributes_for(d, "relation", m)]

-----------------------------------------------------------------------------
(* Writing. *)

type_id(d, kind, t) ==
    IF <<kind, t>> \in DOMAIN d.type_dict THEN d
    ELSE [d EXCEPT !.type_dict = With(@, <<kind, t>>, 0)]

(* A description registers a type that has no member yet; clearing it leaves
   the row. *)
set_type_description(d, kind, t, given) ==
    [type_id(d, kind, t) EXCEPT !.described = IF given THEN @ \cup {<<kind, t>>} ELSE @ \ {<<kind, t>>}]

(* Insert and delete of an observation row run the obs_fts triggers. *)
InsertObservation(d, i, b) ==
    LET o == d.seq.obs + 1
    IN [d EXCEPT !.seq.obs = o,
                 !.observation = With(@, o, [entity |-> i, body |-> b]),
                 !.obs_fts = @ \cup {<<o, b>>}]

insert_observations(d, i, contents) ==
    FoldLeft(LAMBDA acc, b : InsertObservation(acc, i, b), d, contents)

(* Only the bodies that the entity does not have yet: each once. *)
InsertMissing(d, i, b) == IF b \in BodiesOf(d, i) THEN d ELSE InsertObservation(d, i, b)

insert_missing(d, i, contents) == FoldLeft(LAMBDA acc, b : InsertMissing(acc, i, b), d, contents)

(* Likewise the bodies of another entity, in the order of their ids. *)
CopyObservation(acc, d, old, i, o) ==
    IF o \in ObservationsOf(d, old) THEN InsertMissing(acc, i, d.observation[o].body) ELSE acc

copy_observations(d, old, i) ==
    FoldLeft(LAMBDA acc, o : CopyObservation(acc, d, old, i, o), d, [o \in 1..d.seq.obs |-> o])

DeleteObservationRows(d, os) ==
    [d EXCEPT !.observation = Without(@, os),
              !.obs_fts = @ \ {<<o, d.observation[o].body>> : o \in os \cap DOMAIN d.observation}]

InsertRelationObservation(d, m, b) ==
    LET o == d.seq.rel_obs + 1
    IN [d EXCEPT !.seq.rel_obs = o,
                 !.relobs = With(@, o, [mirror |-> m, body |-> b]),
                 !.rel_obs_fts = @ \cup {<<o, b>>},
                 !.stat.relation_obs = @ + 1]

insert_relation_observations(d, m, contents) ==
    FoldLeft(LAMBDA acc, b : InsertRelationObservation(acc, m, b), d, contents)

DeleteRelationObservationRows(d, os) ==
    [d EXCEPT !.relobs = Without(@, os),
              !.rel_obs_fts = @ \ {<<o, d.relobs[o].body>> : o \in os \cap DOMAIN d.relobs}]

upsert_attributes(d, kind, owner, attributes) ==
    LET written == [k \in {<<kind, owner, key>> : key \in DOMAIN attributes} |-> attributes[k[3]]]
    IN [d EXCEPT !.attribute = Over(written, @)]

delete_attribute_keys(d, kind, owner, keys) ==
    [d EXCEPT !.attribute = Without(@, {<<kind, owner, key>> : key \in keys})]

create_entity(d, e) ==
    IF e.name = NoName \/ Exists(d, e.name) THEN d
    ELSE LET i == d.seq.entity + 1
             row == [name |-> e.name, type |-> e.type, obs_count |-> 0, out_deg |-> 0, in_deg |-> 0]
             d1 == [type_id(d, 0, e.type) EXCEPT !.seq.entity = i, !.entity = With(@, i, row)]
             d2 == insert_observations(d1, i, e.observations)
             d3 == upsert_attributes(d2, "entity", i, e.attributes)
         IN [d3 EXCEPT !.name_fts = @ \cup {<<i, e.name>>}]

(* A mirror id is SQLite's rowid: one more than the largest in the table. *)
NextMirror(d) == 1 + (IF d.mirror = Empty THEN 0 ELSE CHOOSE m \in DOMAIN d.mirror : \A k \in DOMAIN d.mirror : k <= m)

MirrorsOf(d, r) == {m \in DOMAIN d.mirror : d.mirror[m].triple = r}

(* INSERT ... ON CONFLICT(from_id,to_id,type_id) DO UPDATE SET deleted. *)
MirrorFor(d, r) == IF MirrorsOf(d, r) = {} THEN NextMirror(d) ELSE CHOOSE k \in MirrorsOf(d, r) : TRUE
PutMirror(d, r, deleted) == [d EXCEPT !.mirror = With(@, MirrorFor(d, r), [triple |-> r, deleted |-> deleted])]

(* Mutant of tombstone_relation_mirror: the attributes are left behind. *)
TombstoneKeepsAttributes(d, r) ==
    LET d1 == PutMirror(d, r, TRUE)
        m == CHOOSE k \in MirrorsOf(d1, r) : TRUE
    IN DeleteRelationObservationRows(d1, {o \in DOMAIN d1.relobs : d1.relobs[o].mirror = m})

(* The mirror's observations and attributes die with the relation; the
   counter of relation observations is left as it was. *)
tombstone_relation_mirror(d, r) ==
    LET d1 == PutMirror(d, r, TRUE)
        m == CHOOSE k \in MirrorsOf(d1, r) : TRUE
        d2 == DeleteRelationObservationRows(d1, {o \in DOMAIN d1.relobs : d1.relobs[o].mirror = m})
    IN delete_attribute_keys(d2, "relation", m, AttrKeys)

TombstoneAll(d, rs) == FoldLeft(tombstone_relation_mirror, d, SetToSeq(rs))

create_relation(d, t) ==
    IF ~(Exists(d, t[1]) /\ Exists(d, t[2])) THEN d
    ELSE LET d1 == type_id(d, 1, t[3])
             r == Ids(d, t)
         IN IF r \in d.relation THEN d1
            ELSE PutMirror([d1 EXCEPT !.relation = @ \cup {r}], r, FALSE)

create_relation_with(d, input) ==
    LET d1 == create_relation(d, input.triple)
    IN IF d1.relation = d.relation THEN d1
       ELSE LET m == resolve_relation_mirror(d1, input.triple)
            IN upsert_attributes(insert_relation_observations(d1, m, input.observations),
                                 "relation", m, input.attributes)

DeleteEntity(d, n) ==
    IF ~Exists(d, n) THEN d
    ELSE LET i == IdOf(d, n)
             rs == {r \in d.relation : i \in {r[1], r[2]}}
             d1 == DeleteObservationRows(d, ObservationsOf(d, i))
             d2 == [d1 EXCEPT !.relation = @ \ rs, !.name_fts = @ \ {<<i, n>>}, !.entity = Without(@, {i})]
         IN TombstoneAll(delete_attribute_keys(d2, "entity", i, AttrKeys), rs)

(* The attachments go with the entity too (module Attachments). *)
delete_entities(d, names) == FoldLeft(DeleteEntity, d, SetToSeq(names))

(* Swapping or re-typing a relation: a tombstone in the way is deleted, the
   triple gets a mirror row of its own, the children move to it, and the old
   mirror is tombstoned. *)
rehome_relation_children(d, old, new) ==
    LET kept == {k \in DOMAIN d.attribute : k[1] = "relation" /\ k[2] = old}
        moved == [k \in {<<"relation", new, q[3]>> : q \in kept} |-> d.attribute[<<"relation", old, k[3]>>]]
    IN [d EXCEPT !.relobs = [o \in DOMAIN @ |-> IF @[o].mirror = old THEN [@[o] EXCEPT !.mirror = new] ELSE @[o]],
                 !.attribute = Over(moved, Without(@, kept))]

(* Mutant of MoveRelation: the old mirror dies before its children move. *)
TombstoneFirst(d, old, r, s) ==
    LET d1 == [d EXCEPT !.relation = (@ \ {r}) \cup {s},
                        !.mirror = Without(@, {m \in MirrorsOf(d, s) : @[m].deleted})]
        new == NextMirror(d1)
        d2 == [tombstone_relation_mirror(d1, r) EXCEPT !.mirror = With(@, new, [triple |-> s, deleted |-> FALSE])]
    IN rehome_relation_children(d2, old, new)

MoveRelation(d, old, r, s) ==
    LET d1 == [d EXCEPT !.relation = (@ \ {r}) \cup {s},
                        !.mirror = Without(@, {m \in MirrorsOf(d, s) : @[m].deleted})]
        new == NextMirror(d1)
        d2 == [d1 EXCEPT !.mirror = With(@, new, [triple |-> s, deleted |-> FALSE])]
    IN tombstone_relation_mirror(rehome_relation_children(d2, old, new), r)

==============================================================================
