------------------------------- MODULE Graph -------------------------------
(***************************************************************************)
(* The graph of one workspace: every write goes through the mutation       *)
(* service (crates/mcpmem-core/src/mutation.rs), which runs a request in   *)
(* one transaction, compares what it captured before and after, brings the *)
(* counters up to date by the difference and publishes it as change events.*)
(* The tools (src/actions/memory.rs) and the web UI                        *)
(* (src/ui/api/mutations.rs) turn calls into requests.                     *)
(***************************************************************************)
EXTENDS GraphStore

CONSTANTS
    EntityInputs,   \* the entities a request may carry
    RelationInputs, \* the relations, with their observations and attributes
    MaxBatch,       \* items of one request
    MaxEntity, MaxObs, MaxRelObs, MaxMirror   \* bounds on the ids handed out

ASSUME GraphInputs ==
    /\ \A e \in EntityInputs :
           /\ e.name \in Names \cup {NoName} /\ e.type \in EntityTypes
           /\ e.observations \in Seq(Bodies) /\ e.attributes \in Attributes
    /\ \A i \in RelationInputs :
           i.triple \in Triples /\ i.observations \in Seq(Bodies) /\ i.attributes \in Attributes
    /\ {MaxBatch, MaxEntity, MaxObs, MaxRelObs, MaxMirror} \subseteq Nat

VARIABLES
    db,       \* the graph file
    replica,  \* a subscriber that applies every change event
    dropped,  \* relation observations deleted with their relation since the last wipe
    editing   \* a request of the web UI that passed its conflict check

graphVars == <<db, replica, dropped, editing>>

Idle == [op |-> "None"]

Batches(S) == UNION {[1..n -> S] : n \in 1..MaxBatch}

Ok(d) == [ok |-> TRUE, db |-> d]
Refused(d) == [ok |-> FALSE, db |-> d]

-----------------------------------------------------------------------------
(* execute: what each request does, item by item where it carries several. *)

UpsertEntity(d, e) ==
    IF ~Exists(d, e.name) THEN create_entity(d, e)
    ELSE LET i == IdOf(d, e.name)
             d1 == [type_id(d, 0, e.type) EXCEPT !.entity[i].type = e.type]
         IN upsert_attributes(insert_missing(d1, i, e.observations), "entity", i, e.attributes)

DeleteRelation(d, t) ==
    IF ~(Exists(d, t[1]) /\ Exists(d, t[2])) \/ Ids(d, t) \notin d.relation THEN d
    ELSE tombstone_relation_mirror([d EXCEPT !.relation = @ \ {Ids(d, t)}], Ids(d, t))

AddRelationObservations(d, u) ==
    IF LiveMirrors(d, u.triple) = {} THEN Refused(d)
    ELSE Ok(insert_relation_observations(d, resolve_relation_mirror(d, u.triple), u.contents))

(* Deletes rows of one mirror and takes them off the counter. *)
DropRelationObservations(d, os) ==
    [DeleteRelationObservationRows(d, os) EXCEPT !.stat.relation_obs = @ - Cardinality(os)]

DeleteRelationObservations(d, u) ==
    IF u.contents = <<>> THEN Ok(d)
    ELSE IF LiveMirrors(d, u.triple) = {} THEN Refused(d)
    ELSE LET m == resolve_relation_mirror(d, u.triple)
         IN Ok(DropRelationObservations(d, {o \in DOMAIN d.relobs :
                   d.relobs[o].mirror = m /\ d.relobs[o].body \in Range(u.contents)}))

DeleteRelationObservationById(d, q) ==
    IF LiveMirrors(d, q.triple) = {} THEN Refused(d)
    ELSE LET m == resolve_relation_mirror(d, q.triple)
         IN Ok(DropRelationObservations(d, {o \in DOMAIN d.relobs \cap {q.id} : d.relobs[o].mirror = m}))

(* An attribute target is an entity (by name) or a relation (by triple). *)
HasOwner(d, t) == IF t.kind = "entity" THEN Exists(d, t.name) ELSE LiveMirrors(d, t.triple) # {}

resolve_attribute_owner(d, t) ==
    IF t.kind = "entity" THEN IdOf(d, t.name) ELSE resolve_relation_mirror(d, t.triple)

SetAttributes(d, t) ==
    IF ~HasOwner(d, t) THEN Refused(d)
    ELSE Ok(upsert_attributes(d, t.kind, resolve_attribute_owner(d, t), t.attributes))

DeleteAttributes(d, t) ==
    IF ~HasOwner(d, t) THEN Refused(d)
    ELSE Ok(delete_attribute_keys(d, t.kind, resolve_attribute_owner(d, t), t.keys))

AddObservations(d, u) ==
    IF ~Exists(d, u.name) THEN Refused(d)
    ELSE Ok(insert_observations(d, IdOf(d, u.name), u.contents))

DeleteObservations(d, u) ==
    IF u.contents = <<>> THEN Ok(d)
    ELSE IF ~Exists(d, u.name) THEN Refused(d)
    ELSE Ok(DeleteObservationRows(d, {o \in ObservationsOf(d, IdOf(d, u.name)) :
                                          d.observation[o].body \in Range(u.contents)}))

ItemOf(d, op, x) ==
    CASE op = "CreateEntities" -> Ok(create_entity(d, x))
      [] op = "UpsertEntities" -> Ok(UpsertEntity(d, x))
      [] op = "CreateRelations" -> Ok(create_relation_with(d, x))
      [] op = "DeleteRelations" -> Ok(DeleteRelation(d, x))
      [] op = "AddRelationObservations" -> AddRelationObservations(d, x)
      [] op = "DeleteRelationObservations" -> DeleteRelationObservations(d, x)
      [] op = "SetAttributes" -> SetAttributes(d, x)
      [] op = "DeleteAttributes" -> DeleteAttributes(d, x)
      [] op = "AddObservations" -> AddObservations(d, x)
      [] op = "DeleteObservations" -> DeleteObservations(d, x)

(* The items in order; the first that fails fails them all. *)
InOrder(d, q) ==
    FoldLeft(LAMBDA acc, x : IF acc.ok THEN ItemOf(acc.db, q.op, x) ELSE acc, Ok(d), q.items)

DeleteEntities(d, q) == Ok(delete_entities(d, Range(q.items)))

(* Mutant of EditObservation: the index keeps the text that was replaced. *)
EditKeepsIndex(d, q) ==
    IF ~Exists(d, q.name) \/ q.id \notin ObservationsOf(d, IdOf(d, q.name)) THEN Refused(d)
    ELSE Ok([d EXCEPT !.observation[q.id].body = q.body,
                      !.obs_fts = @ \cup {<<q.id, q.body>>}])

(* obs_fts has no update trigger: the row is reindexed by hand. *)
EditObservation(d, q) ==
    IF ~Exists(d, q.name) \/ q.id \notin ObservationsOf(d, IdOf(d, q.name)) THEN Refused(d)
    ELSE Ok([d EXCEPT !.observation[q.id].body = q.body,
                      !.obs_fts = (@ \ {<<q.id, d.observation[q.id].body>>}) \cup {<<q.id, q.body>>}])

DeleteObservationById(d, q) ==
    IF ~Exists(d, q.name) THEN Refused(d)
    ELSE Ok(DeleteObservationRows(d, ObservationsOf(d, IdOf(d, q.name)) \cap {q.id}))

(* A live target triple refuses the move, by the UNIQUE of either table. *)
Taken(d, t) == Ids(d, t) \in d.relation \/ LiveMirrors(d, t) # {}

ReverseRelation(d, q) ==
    LET t == q.triple
        s == <<t[2], t[1], t[3]>>
    IN IF t[1] = t[2] \/ LiveMirrors(d, t) = {} \/ Taken(d, s) THEN Refused(d)
       ELSE Ok(MoveRelation(d, resolve_relation_mirror(d, t), Ids(d, t), Ids(d, s)))

ChangeRelationType(d, q) ==
    LET t == q.triple
        s == <<t[1], t[2], q.type>>
    IN IF s = t THEN Ok(d)
       ELSE IF LiveMirrors(d, t) = {} \/ Taken(d, s) THEN Refused(d)
       ELSE Ok(MoveRelation(type_id(d, 1, q.type), resolve_relation_mirror(d, t), Ids(d, t), Ids(d, s)))

(* The source's new bodies, attributes and relations go to the target and
   the source is deleted (a source with files is refused: Attachments). *)
MergeEntities(d, q) ==
    IF ~(Exists(d, q.source) /\ Exists(d, q.target)) THEN Refused(d)
    ELSE IF q.source = q.target THEN Ok(d)
    ELSE LET old == IdOf(d, q.source)
             into == IdOf(d, q.target)
             d1 == upsert_attributes(copy_observations(d, old, into), "entity", into,
                                     attributes_for(d, "entity", old))
             Retarget(n) == IF n = q.source THEN q.target ELSE n
             moved == {<<Retarget(t[1]), Retarget(t[2]), t[3]>> : t \in relations_for(d, q.source)}
         IN Ok(delete_entities(FoldLeft(create_relation, d1, SetToSeq(moved)), {q.source}))

RenameEntity(d, q) ==
    IF ~Exists(d, q.old) THEN Refused(d)
    ELSE IF q.old = q.new THEN Ok(d)
    ELSE IF Exists(d, q.new) THEN Refused(d)
    ELSE LET i == IdOf(d, q.old)
         IN Ok([d EXCEPT !.entity[i].name = q.new,
                         !.name_fts = (@ \ {<<i, q.old>>}) \cup {<<i, q.new>>}])

PurgeDefinedEntities(d, q) == Ok(delete_entities(d, defined_names(d, q.name)))

Wipe(d) ==
    [delete_entities(d, {d.entity[i].name : i \in DOMAIN d.entity}) EXCEPT
        !.name_fts = {}, !.obs_fts = {}, !.rel_obs_fts = {}, !.stat.relation_obs = 0]

execute(d, q) ==
    CASE q.op \in {"CreateEntities", "UpsertEntities", "CreateRelations", "DeleteRelations",
                   "AddRelationObservations", "DeleteRelationObservations", "SetAttributes",
                   "DeleteAttributes", "AddObservations", "DeleteObservations"} -> InOrder(d, q)
      [] q.op = "DeleteEntities" -> DeleteEntities(d, q)
      [] q.op = "DeleteRelationObservationById" -> DeleteRelationObservationById(d, q)
      [] q.op = "EditObservation" -> EditObservation(d, q)
      [] q.op = "DeleteObservationById" -> DeleteObservationById(d, q)
      [] q.op = "ReverseRelation" -> ReverseRelation(d, q)
      [] q.op = "ChangeRelationType" -> ChangeRelationType(d, q)
      [] q.op = "MergeEntities" -> MergeEntities(d, q)
      [] q.op = "RenameEntity" -> RenameEntity(d, q)
      [] q.op = "PurgeDefinedEntities" -> PurgeDefinedEntities(d, q)
      [] q.op = "Compact" -> Ok(d)
      [] q.op = "Wipe" -> Ok(Wipe(d))

-----------------------------------------------------------------------------
(* What a request may change: the entities captured before and after it. *)

Neighbours(d, names) == UNION {{t[1], t[2]} : t \in UNION {relations_for(d, n) : n \in names}}

(* The entities a request names. *)
Touched(d, q) ==
    CASE q.op \in {"CreateEntities", "UpsertEntities"} -> {e.name : e \in Range(q.items)}
      [] q.op = "DeleteEntities" -> Range(q.items)
      [] q.op = "CreateRelations" -> UNION {{i.triple[1], i.triple[2]} : i \in Range(q.items)}
      [] q.op = "DeleteRelations" -> UNION {{t[1], t[2]} : t \in Range(q.items)}
      [] q.op \in {"AddObservations", "DeleteObservations"} -> {u.name : u \in Range(q.items)}
      [] q.op \in {"EditObservation", "DeleteObservationById"} -> {q.name}
      [] q.op \in {"AddRelationObservations", "DeleteRelationObservations"} -> {u.triple[1] : u \in Range(q.items)}
      [] q.op = "DeleteRelationObservationById" -> {q.triple[1]}
      [] q.op \in {"ReverseRelation", "ChangeRelationType"} -> {q.triple[1], q.triple[2]}
      [] q.op \in {"SetAttributes", "DeleteAttributes"} ->
             {IF t.kind = "entity" THEN t.name ELSE t.triple[1] : t \in Range(q.items)}
      [] q.op = "MergeEntities" -> {q.source, q.target}
      [] q.op = "RenameEntity" -> {q.old, q.new}
      [] q.op = "PurgeDefinedEntities" -> defined_names(d, q.name)
      [] q.op = "Compact" -> {}
      [] q.op = "Wipe" -> {d.entity[i].name : i \in DOMAIN d.entity}

Disturbs == {"DeleteEntities", "MergeEntities", "RenameEntity", "PurgeDefinedEntities"}

(* Mutant of affected_names: the neighbours of a deleted entity are not
   captured. *)
WithoutNeighbours(d, q) == Touched(d, q)

affected_names(d, q) ==
    LET names == Touched(d, q)
    IN IF q.op \in Disturbs THEN names \cup Neighbours(d, names) ELSE names

capture(d, names) ==
    LET rels == UNION {relations_for(d, n) : n \in names}
    IN [entities |-> [n \in {m \in names : Exists(d, m)} |-> read_entity(d, n)],
        relations |-> rels,
        details |-> [t \in {u \in rels : LiveMirrors(d, u) # {}} |-> mirror_detail(d, t)]]

-----------------------------------------------------------------------------
(* From the two captures: the events, and the counters' corrections. *)

None == [id |-> 0]

Row(snapshot, n) == IF n \in DOMAIN snapshot.entities THEN snapshot.entities[n] ELSE None

At(ts, n) == {t \in ts : n \in {t[1], t[2]}}

DetailIn(snapshot, t) ==
    IF t \in DOMAIN snapshot.details THEN snapshot.details[t] ELSE [observations |-> {}, attributes |-> Empty]

EntityChange(before, after, n) ==
    [kind |-> "entity", name |-> n, before |-> Row(before, n), after |-> Row(after, n),
     added |-> {<<t, DetailIn(after, t)>> : t \in At(after.relations \ before.relations, n)},
     removed |-> {<<t, DetailIn(before, t)>> : t \in At(before.relations \ after.relations, n)}]

(* A relation whose observations or attributes changed is reported on its
   `from' end. *)
RelationChanges(before, after) ==
    {[kind |-> "relation", triple |-> t, name |-> t[1], before |-> None, after |-> after.entities[t[1]],
      detail |-> after.details[t]] :
        t \in {u \in DOMAIN after.details \cap DOMAIN before.details :
                  after.details[u] # before.details[u] /\ u[1] \in DOMAIN after.entities}}

effective_changes(before, after) ==
    {EntityChange(before, after, n) :
        n \in {m \in DOMAIN before.entities \cup DOMAIN after.entities :
                  \/ Row(before, m) # Row(after, m)
                  \/ At(after.relations, m) # At(before.relations, m)}}
    \cup RelationChanges(before, after)

rename_changes(before, after, old, new) ==
    IF old \in DOMAIN before.entities /\ new \in DOMAIN after.entities
    THEN {[kind |-> "rename", name |-> new, old |-> old,
           before |-> before.entities[old], after |-> after.entities[new]]}
    ELSE {}

(* The entities whose cached counts are written again. *)
Rewritten(changes) == {c.after.id : c \in {x \in changes : x.kind # "rename" /\ x.after # None}}

update_counters(d, before, after, changes, quiet) ==
    LET OfType(s, t) == {n \in DOMAIN s.entities : s.entities[n].type = t}
        OfRelType(s, t) == {r \in s.relations : r[3] = t}
        Delta(k) == IF k[1] = 0 THEN Cardinality(OfType(after, k[2])) - Cardinality(OfType(before, k[2]))
                    ELSE Cardinality(OfRelType(after, k[2])) - Cardinality(OfRelType(before, k[2]))
        Obs(s) == Cardinality(UNION {s.entities[n].observations : n \in DOMAIN s.entities})
    IN [d EXCEPT
            !.type_dict = [k \in DOMAIN @ |-> IF quiet THEN @[k] ELSE @[k] + Delta(k)],
            !.stat.entities = @ + Cardinality(DOMAIN after.entities) - Cardinality(DOMAIN before.entities),
            !.stat.relations = @ + Cardinality(after.relations) - Cardinality(before.relations),
            !.stat.observations = @ + Obs(after) - Obs(before),
            !.entity = [i \in DOMAIN @ |->
                IF i \notin Rewritten(changes) THEN @[i]
                ELSE [@[i] EXCEPT
                    !.obs_count = Cardinality(after.entities[d.entity[i].name].observations),
                    !.out_deg = Cardinality({r \in after.relations : r[1] = d.entity[i].name}),
                    !.in_deg = Cardinality({r \in after.relations : r[2] = d.entity[i].name})]]]

Quiet == {"SetAttributes", "DeleteAttributes", "AddRelationObservations",
          "DeleteRelationObservations", "DeleteRelationObservationById"}

(* A subscriber that keeps its own copy of the graph by the events alone. *)
Consume(r, changes) ==
    LET own == {c \in changes : c.kind = "entity"}
        renames == {c \in changes : c.kind = "rename"}
        gone == {c.name : c \in {x \in own : x.after = None}} \cup {c.old : c \in renames}
        set == [n \in {c.name : c \in {x \in changes : x.after # None}} |->
                    (CHOOSE c \in changes : c.name = n /\ c.after # None).after]
        removed == UNION {{x[1] : x \in c.removed} : c \in own}
        added == (UNION {c.added : c \in own}) \cup {<<c.triple, c.detail>> : c \in {x \in changes : x.kind = "relation"}}
        put == [t \in {x[1] : x \in added} |-> (CHOOSE x \in added : x[1] = t)[2]]
        kept == Over(put, Without(r.relations, removed))
        New(n) == IF \E c \in renames : c.old = n THEN (CHOOSE c \in renames : c.old = n).name ELSE n
        Old(t) == CHOOSE u \in DOMAIN kept : t = <<New(u[1]), New(u[2]), u[3]>>
    IN [entities |-> Over(set, Without(r.entities, gone)),
        relations |-> [t \in {<<New(u[1]), New(u[2]), u[3]>> : u \in DOMAIN kept} |-> kept[Old(t)]]]

Fits(d) ==
    /\ d.seq.entity <= MaxEntity /\ d.seq.obs <= MaxObs /\ d.seq.rel_obs <= MaxRelObs
    /\ \A m \in DOMAIN d.mirror : m <= MaxMirror

(* Relation observations that went away with their relation. *)
LostWith(d, e) ==
    Cardinality({o \in DOMAIN d.relobs \ DOMAIN e.relobs : e.mirror[d.relobs[o].mirror].deleted})

(* A rename is one event; any other request is told by its difference. *)
changes_of(q, before, after) ==
    IF q.op = "RenameEntity" /\ q.old # q.new
    THEN rename_changes(before, after, q.old, q.new)
    ELSE effective_changes(before, after)

(* One request, one transaction: refused it leaves no trace. *)
apply_inner(q) ==
    \E out \in {execute(db, q)} :
        /\ out.ok /\ Fits(out.db)
        /\ dropped' = IF q.op = "Wipe" THEN 0 ELSE dropped + LostWith(db, out.db)
        /\ \E names \in {affected_names(db, q)} :
           \E before \in {capture(db, names)}, after \in {capture(out.db, names)} :
           \E changes \in {changes_of(q, before, after)} :
               /\ db' = update_counters(out.db, before, after, changes, q.op \in Quiet)
               /\ replica' = Consume(replica, changes)

-----------------------------------------------------------------------------
(* The tools: each validates its arguments and applies one request. *)

validate_name(n) == n # NoName

Apply(q) == apply_inner(q) /\ UNCHANGED editing

handle_create_entities(items) ==
    /\ \A e \in Range(items) : validate_name(e.name)
    /\ Apply([op |-> "CreateEntities", items |-> items])

handle_upsert_entities(items) ==
    /\ \A e \in Range(items) : validate_name(e.name)
    /\ Apply([op |-> "UpsertEntities", items |-> items])

handle_delete_entities(names) == Apply([op |-> "DeleteEntities", items |-> names])

handle_create_relations(items) == Apply([op |-> "CreateRelations", items |-> items])

handle_delete_relations(ts) == Apply([op |-> "DeleteRelations", items |-> ts])

handle_add_observations(us) == Apply([op |-> "AddObservations", items |-> us])

handle_delete_observations(us) == Apply([op |-> "DeleteObservations", items |-> us])

handle_add_relation_observations(us) == Apply([op |-> "AddRelationObservations", items |-> us])

handle_delete_relation_observations(us) == Apply([op |-> "DeleteRelationObservations", items |-> us])

handle_set_attributes(ts) == Apply([op |-> "SetAttributes", items |-> ts])

handle_delete_attributes(ts) == Apply([op |-> "DeleteAttributes", items |-> ts])

handle_merge_entities(s, t) == Apply([op |-> "MergeEntities", source |-> s, target |-> t])

handle_rename_entity(old, new) == Apply([op |-> "RenameEntity", old |-> old, new |-> new])

code_purge_file(n) == Apply([op |-> "PurgeDefinedEntities", name |-> n])

wipe == Apply([op |-> "Wipe"])

(* No request of the mutation service, and no event. *)
handle_set_type_description(kind, t, given) ==
    db' = set_type_description(db, kind, t, given) /\ UNCHANGED <<replica, dropped, editing>>

(* What calls may carry. *)
Updates == [name : Names, contents : {<<b>> : b \in Bodies}]
RelationUpdates == [triple : Triples, contents : {<<b>> : b \in Bodies}]
OneAttribute == UNION {[{k} -> AttrValues] : k \in AttrKeys}
OneKey == {{k} : k \in AttrKeys}
Sets == [kind : {"entity"}, name : Names, attributes : OneAttribute]
        \cup [kind : {"relation"}, triple : Triples, attributes : OneAttribute]
Deletes == [kind : {"entity"}, name : Names, keys : OneKey]
           \cup [kind : {"relation"}, triple : Triples, keys : OneKey]

ToolCall ==
    \/ \E items \in Batches(EntityInputs) : handle_create_entities(items) \/ handle_upsert_entities(items)
    \/ \E names \in Batches(Names) : handle_delete_entities(names)
    \/ \E items \in Batches(RelationInputs) : handle_create_relations(items)
    \/ \E t \in Triples : handle_delete_relations(<<t>>)
    \/ \E us \in Batches(Updates) : handle_add_observations(us) \/ handle_delete_observations(us)
    \/ \E u \in RelationUpdates : handle_add_relation_observations(<<u>>) \/ handle_delete_relation_observations(<<u>>)
    \/ \E t \in Sets : handle_set_attributes(<<t>>)
    \/ \E t \in Deletes : handle_delete_attributes(<<t>>)
    \/ \E m, n \in Names : handle_merge_entities(m, n) \/ handle_rename_entity(m, n)
    \/ \E n \in Names : code_purge_file(n)
    \/ wipe
    \/ \E given \in BOOLEAN :
           \/ \E t \in EntityTypes : handle_set_type_description(0, t, given)
           \/ \E t \in RelationTypes : handle_set_type_description(1, t, given)

-----------------------------------------------------------------------------
(* The web UI.  A create or a rename is first checked against the graph, so
   that the user sees a conflict; the request runs later, on what the graph
   has become. *)

Conflicting == {"CreateEntities", "CreateRelations", "RenameEntity"}

into_request ==
    {[op |-> "CreateEntities", items |-> <<e>>] : e \in EntityInputs}
    \cup {[op |-> "CreateRelations", items |-> <<i>>] : i \in RelationInputs}
    \cup [op : {"RenameEntity"}, old : Names, new : Names]
    \cup [op : {"ReverseRelation"}, triple : Triples]
    \cup [op : {"ChangeRelationType"}, triple : Triples, type : RelationTypes]
    \cup [op : {"EditObservation"}, name : Names, id : 1..MaxObs, body : Bodies]
    \cup [op : {"DeleteObservationById"}, name : Names, id : 1..MaxObs]
    \cup [op : {"DeleteRelationObservationById"}, triple : Triples, id : 1..MaxRelObs]

conflict_message(q) ==
    \/ q.op = "CreateEntities" /\ Exists(db, q.items[1].name)
    \/ q.op = "CreateRelations" /\ LiveMirrors(db, q.items[1].triple) # {}
    \/ q.op = "RenameEntity" /\ Exists(db, q.new)

ui_mutations_handler(q) == q.op \notin Conflicting /\ Apply(q)

apply_with_conflict_check(q) ==
    /\ editing = Idle /\ q.op \in Conflicting /\ ~conflict_message(q)
    /\ editing' = q
    /\ UNCHANGED <<db, replica, dropped>>

(* The request runs, or the service refuses it. *)
UiApply ==
    /\ editing # Idle /\ editing' = Idle
    /\ \/ apply_inner(editing)
       \/ ~execute(db, editing).ok /\ UNCHANGED <<db, replica, dropped>>

UiCall ==
    \/ \E q \in into_request : ui_mutations_handler(q) \/ apply_with_conflict_check(q)
    \/ UiApply

GraphInit ==
    /\ db = EmptyStore /\ replica = [entities |-> Empty, relations |-> Empty]
    /\ dropped = 0 /\ editing = Idle

GraphNext == ToolCall \/ UiCall

GraphSpec == GraphInit /\ [][GraphNext]_graphVars

-----------------------------------------------------------------------------
(* graph_stats, describe_entity, degree and the type catalogue answer from
   counters that no write recomputes: they equal what counting the rows
   gives, whatever sequence of writes, merges, moves and deletes came
   before.  The one of relation observations also counts, until the next
   wipe, the ones that died with their relation. *)
CountersExact ==
    /\ db.stat.entities = Cardinality(DOMAIN db.entity)
    /\ db.stat.relations = Cardinality(db.relation)
    /\ db.stat.observations = Cardinality(DOMAIN db.observation)
    /\ db.stat.relation_obs = Cardinality(DOMAIN db.relobs) + dropped
    /\ \A k \in DOMAIN db.type_dict : db.type_dict[k] =
           IF k[1] = 0 THEN Cardinality({i \in DOMAIN db.entity : db.entity[i].type = k[2]})
           ELSE Cardinality({r \in db.relation : r[3] = k[2]})
    /\ \A i \in DOMAIN db.entity :
           /\ <<0, db.entity[i].type>> \in DOMAIN db.type_dict
           /\ db.entity[i].obs_count = Cardinality(ObservationsOf(db, i))
           /\ db.entity[i].out_deg = Cardinality({r \in db.relation : r[1] = i})
           /\ db.entity[i].in_deg = Cardinality({r \in db.relation : r[2] = i})

(* A full-text search finds exactly the live names and texts: the indexes
   kept partly by triggers and partly by hand never miss a row nor keep a
   text that is gone. *)
SearchIndexExact ==
    /\ db.name_fts = {<<i, db.entity[i].name>> : i \in DOMAIN db.entity}
    /\ db.obs_fts = {<<o, db.observation[o].body>> : o \in DOMAIN db.observation}
    /\ db.rel_obs_fts = {<<o, db.relobs[o].body>> : o \in DOMAIN db.relobs}

(* Every relation has one live mirror and every live mirror its relation;
   observations and attributes hang on rows that are alive. *)
MirrorsExact ==
    LET live == {m \in DOMAIN db.mirror : ~db.mirror[m].deleted}
    IN /\ db.relation = {db.mirror[m].triple : m \in live}
       /\ \A m, n \in DOMAIN db.mirror : db.mirror[m].triple = db.mirror[n].triple => m = n
       /\ \A o \in DOMAIN db.observation : db.observation[o].entity \in DOMAIN db.entity
       /\ \A o \in DOMAIN db.relobs : db.relobs[o].mirror \in live
       /\ \A k \in DOMAIN db.attribute : k[2] \in (IF k[1] = "entity" THEN DOMAIN db.entity ELSE live)

(* The events are enough to follow the graph: a subscriber that applies
   every change to its copy has the entities, the relations and what hangs
   on them after each transaction, renames, merges and moves included. *)
ReplicaExact ==
    LET names == {db.entity[i].name : i \in DOMAIN db.entity}
        now == capture(db, names)
    IN replica = [entities |-> now.entities, relations |-> now.details]

(* Relation observations are lost only with a relation that is deleted or an
   entity that is deleted or merged away: swapping or re-typing a relation
   loses none. *)
MovesLoseNothing ==
    [][dropped' > dropped => \/ Cardinality(db'.relation) < Cardinality(db.relation)
                             \/ DOMAIN db'.entity # DOMAIN db.entity]_graphVars

-----------------------------------------------------------------------------
(* The strengthening that makes SearchIndexExact and MirrorsExact inductive:
   what holds between any two statements, and what only a whole request
   restores. *)

IsTable(table, keys, Rows) == DOMAIN table \subseteq keys /\ table \in [DOMAIN table -> Rows]

Texts(table) == {<<o, table[o].body>> : o \in DOMAIN table}

Live(d) == {m \in DOMAIN d.mirror : ~d.mirror[m].deleted}

(* The relations that the mirrors stand for. *)
Mirrored(d) == {d.mirror[m].triple : m \in Live(d)}

Links == Nat \X Nat \X RelationTypes
EntityRow == [name : Names, type : EntityTypes, obs_count : Nat, out_deg : Nat, in_deg : Nat]
TypeKeys == ({0} \X EntityTypes) \cup ({1} \X RelationTypes)

EntitiesOK(d) ==
    /\ IsTable(d.entity, 1..d.seq.entity, EntityRow)
    /\ \A i, j \in DOMAIN d.entity : d.entity[i].name = d.entity[j].name => i = j
    /\ d.name_fts \subseteq (1..d.seq.entity) \X Names

ObservationsOK(d) ==
    /\ IsTable(d.observation, 1..d.seq.obs, [entity : DOMAIN d.entity, body : Bodies])
    /\ d.obs_fts = Texts(d.observation)

MirrorsOK(d) ==
    /\ IsTable(d.mirror, Nat, [triple : Links, deleted : BOOLEAN])
    /\ DOMAIN d.mirror # {} => \E m \in DOMAIN d.mirror : \A k \in DOMAIN d.mirror : k <= m
    /\ \A m, n \in DOMAIN d.mirror : d.mirror[m].triple = d.mirror[n].triple => m = n

RelationObservationsOK(d) ==
    /\ IsTable(d.relobs, 1..d.seq.rel_obs, [mirror : Live(d), body : Bodies])
    /\ d.rel_obs_fts = Texts(d.relobs)

AttributesOK(d) ==
    IsTable(d.attribute, ({"entity"} \X (DOMAIN d.entity) \X AttrKeys) \cup ({"relation"} \X Live(d) \X AttrKeys),
            AttrValues)

IsStore(d) ==
    d = [entity |-> d.entity, observation |-> d.observation, relation |-> d.relation,
         mirror |-> d.mirror, relobs |-> d.relobs, attribute |-> d.attribute,
         name_fts |-> d.name_fts, obs_fts |-> d.obs_fts, rel_obs_fts |-> d.rel_obs_fts,
         type_dict |-> d.type_dict, described |-> d.described, stat |-> d.stat, seq |-> d.seq]

CountersOK(d) ==
    /\ d.seq \in [entity : Nat, obs : Nat, rel_obs : Nat]
    /\ d.stat \in [entities : Int, relations : Int, observations : Int, relation_obs : Int]
    /\ IsTable(d.type_dict, TypeKeys, Int)
    /\ d.described \subseteq TypeKeys
    /\ d.relation \subseteq Links
    /\ IsStore(d)

Sound(d) ==
    /\ EntitiesOK(d) /\ ObservationsOK(d) /\ MirrorsOK(d)
    /\ RelationObservationsOK(d) /\ AttributesOK(d) /\ CountersOK(d)

(* Names are indexed; relations have live ends and one live mirror each. *)
Whole(d) ==
    /\ Sound(d)
    /\ d.name_fts = {<<i, d.entity[i].name>> : i \in DOMAIN d.entity}
    /\ d.relation = Mirrored(d)
    /\ d.relation \subseteq (DOMAIN d.entity) \X (DOMAIN d.entity) \X RelationTypes

GraphInv == Whole(db) /\ editing \in into_request \cup {Idle}

==============================================================================
