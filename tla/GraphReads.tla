----------------------------- MODULE GraphReads -----------------------------
(***************************************************************************)
(* What the read tools and the viewer answer from the tables of GraphStore *)
(* (crates/mcpmem-core/src/graph.rs, src/ui/api): full-text search, the    *)
(* search of relations, one entity with its surroundings, degrees and type *)
(* counts, pages, the export.  They answer from the full-text indexes, the *)
(* mirrors and the counters; the properties say that this is what the rows *)
(* themselves would give.                                                  *)
(*                                                                         *)
(* A query is the set of texts it matches, rank an order of its own.       *)
(***************************************************************************)
EXTENDS GraphStore

CONSTANTS
    AnyValue,         \* the empty text: a filter that is not given
    MaxSearchLimit, MaxNamesAsked, MaxRelationResults, MaxExportRows,
    MaxUiNodes,       \* the most entities a page of the viewer has
    PageSizes         \* sizes the viewer's search may ask for

Least(m, n) == IF m < n THEN m ELSE n
Take(s, n) == SubSeq(s, 1, Least(n, Len(s)))

-----------------------------------------------------------------------------
(* Mutant of fts_candidate_ids: an entity found twice is kept twice. *)
AllCandidates(d, q, cap) ==
    LET byName == Take(SetToSeq({f[1] : f \in {g \in d.name_fts : g[2] \in q}}), cap)
        found == {f \in d.obs_fts : f[2] \in q /\ f[1] \in DOMAIN d.observation}
    IN byName \o Take(SetToSeq({d.observation[f[1]].entity : f \in found}), cap)

(* Names first, then texts, each capped before entities found twice and
   entities of another type are left out. *)
fts_candidate_ids(d, q, cap) ==
    LET byName == Take(SetToSeq({f[1] : f \in {g \in d.name_fts : g[2] \in q}}), cap)
        found == {f \in d.obs_fts : f[2] \in q /\ f[1] \in DOMAIN d.observation}
        byText == Take(SetToSeq({d.observation[f[1]].entity : f \in found}), cap)
    IN byName \o SelectSeq(byText, LAMBDA i : i \notin ToSet(byName))

OfType(d, i, type) == i \in DOMAIN d.entity /\ type \in {AnyValue, d.entity[i].type}

search_nodes_filtered(d, q, type, offset, limit) ==
    LET kept == SelectSeq(fts_candidate_ids(d, q, offset + limit), LAMBDA i : OfType(d, i, type))
    IN IF q = {} THEN <<>> ELSE SubSeq(kept, offset + 1, Least(offset + limit, Len(kept)))

handle_search_nodes(d, q, type, offset, limit) ==
    search_nodes_filtered(d, q, type, offset, Least(limit, MaxSearchLimit))

(* The rows of the relation table, or of the relation observations that
   match, as triples; a row whose mirror is missing has no detail and is
   left out. *)
Fitting(d, r, f) ==
    /\ f.from # AnyValue => Exists(d, f.from) /\ r[1] = IdOf(d, f.from)
    /\ f.to # AnyValue => Exists(d, f.to) /\ r[2] = IdOf(d, f.to)
    /\ f.type \in {AnyValue, r[3]}

TextRows(d, q, f) ==
    {o \in DOMAIN d.relobs :
        /\ \E x \in d.rel_obs_fts : x[1] = o /\ x[2] \in q
        /\ d.relobs[o].mirror \in DOMAIN d.mirror /\ ~d.mirror[d.relobs[o].mirror].deleted
        /\ Fitting(d, d.mirror[d.relobs[o].mirror].triple, f)}

Distinct(s) == LET first(i) == \A j \in 1..(i - 1) : s[j] # s[i]
               IN [k \in 1..Cardinality({i \in DOMAIN s : first(i)}) |->
                     s[CHOOSE i \in DOMAIN s : first(i) /\ Cardinality({j \in 1..i : first(j)}) = k]]

relation_details(d, rows) ==
    LET there == SelectSeq(rows, LAMBDA r : LiveMirrors(d, Named(d, r)) # {})
    IN [i \in DOMAIN there |-> [triple |-> Named(d, there[i])] @@ mirror_detail(d, Named(d, there[i]))]

(* The limit is on the rows: before they are made distinct, with a query. *)
search_relations(d, q, f, limit) ==
    relation_details(d,
        IF q # {}
        THEN LET rows == SetToSeq(TextRows(d, q, f))
                 kept == Take(rows, IF limit = 0 THEN Len(rows) ELSE limit)
             IN Distinct([i \in DOMAIN kept |-> d.mirror[d.relobs[kept[i]].mirror].triple])
        ELSE Take(SetToSeq({r \in d.relation : Fitting(d, r, f)}), limit))

handle_search_relations(d, q, f) == search_relations(d, q, f, MaxRelationResults)

(* One relation of the viewer's inspector, by its triple. *)
ui_relation_handler(d, t) == search_relations(d, {}, [from |-> t[1], to |-> t[2], type |-> t[3]], 1)

(* What is left of the words of a search box when the separators are taken
   out; with nothing left, entities are not searched and relations are not
   filtered by text. *)
fts_query(words) == words \ {AnyValue}

build_direct_payload(d, scope, words, f, type, k) ==
    IF scope = "relations"
    THEN LET a == search_relations(d, fts_query(words), f, k) IN [i \in DOMAIN a |-> a[i].triple]
    ELSE search_nodes_filtered(d, fts_query(words), type, 0, k)

(* {} is a refused request. *)
ui_search_handler(d, scope, words, f, type, k) ==
    IF words = {} \/ k \notin PageSizes THEN {} ELSE {build_direct_payload(d, scope, words, f, type, k)}

-----------------------------------------------------------------------------
(* What is not found is {}. *)

get_entity(d, n) == IF Exists(d, n) THEN {read_entity(d, n)} ELSE {}

entities_exist(d, names) == [i \in DOMAIN names |-> Exists(d, names[i])]
handle_entity_exists(d, names) == entities_exist(d, Take(names, MaxNamesAsked))

(* In one transaction, and counted from the relations it has read. *)
describe_entity(d, n) ==
    LET rs == relations_for(d, n)
    IN IF ~Exists(d, n) THEN {}
       ELSE {[entity |-> read_entity(d, n), relations |-> rs,
              neighbors |-> {IF r[1] = n THEN r[2] ELSE r[1] : r \in rs},
              incoming |-> Cardinality({r \in rs : r[2] = n}),
              outgoing |-> Cardinality({r \in rs : r[1] = n})]}

degree(d, n, direction) ==
    IF ~Exists(d, n) THEN {}
    ELSE LET row == d.entity[IdOf(d, n)]
         IN {CASE direction = "out" -> row.out_deg
               [] direction = "in" -> row.in_deg
               [] direction = "both" -> row.out_deg + row.in_deg}

handle_graph_stats(d) == <<d.stat.entities, d.stat.relations>>

select_all_types(d, kind) ==
    {<<k[2], d.type_dict[k]>> : k \in {j \in DOMAIN d.type_dict : j[1] = kind /\ d.type_dict[j] > 0}}

(* The list tools also show a type that is only described. *)
select_type_catalog(d, kind) ==
    {<<k[2], d.type_dict[k]>> : k \in {j \in DOMAIN d.type_dict : j[1] = kind /\ (d.type_dict[j] > 0 \/ j \in d.described)}}

build_types_payload(d) == [entities |-> select_type_catalog(d, 0), relations |-> select_type_catalog(d, 1)]

PageIds(d, type, offset, limit) ==
    LET ids == SetToSortSeq({i \in DOMAIN d.entity : OfType(d, i, type)}, <)
    IN {ids[k] : k \in DOMAIN ids \cap (offset + 1..offset + limit)}

ui_meta(d) == [types |-> select_all_types(d, 0), entities |-> d.stat.entities, relations |-> d.stat.relations]

(* The viewer's page, and whether there is another: by the counters. *)
build_graph_payload(d, type, offset, limit) ==
    LET page == PageIds(d, type, offset, limit)
        meta == ui_meta(d)
        total == IF type = AnyValue THEN meta.entities
                 ELSE IF \E c \in meta.types : c[1] = type THEN (CHOOSE c \in meta.types : c[1] = type)[2] ELSE 0
    IN [ids |-> page,
        relations |-> {r \in d.relation : r[1] \in page /\ r[2] \in page},
        meta |-> meta,
        more |-> offset + Cardinality(page) < total]

ui_graph_handler(d, type, offset, limit) ==
    build_graph_payload(d, type, offset, IF limit < 1 THEN 1 ELSE Least(limit, MaxUiNodes))

batch_get_entities(d, names) == [i \in DOMAIN names |-> get_entity(d, names[i])]
handle_batch_get_entities(d, names) == batch_get_entities(d, Take(names, MaxNamesAsked))

(* Entities and relations are capped apart; a relation without a mirror has
   nothing on it. *)
ExportRow(d, r) ==
    IF LiveMirrors(d, Named(d, r)) = {} THEN <<Named(d, r), {}>>
    ELSE <<Named(d, r), mirror_detail(d, Named(d, r)).observations>>

export(d, rows) ==
    LET ids == Take(SetToSortSeq(DOMAIN d.entity, <), rows)
        rs == Take(SetToSeq(d.relation), rows)
    IN [entities |-> {read_entity(d, d.entity[ids[i]].name) : i \in DOMAIN ids},
        relations |-> {ExportRow(d, rs[i]) : i \in DOMAIN rs}]

handle_export_graph(d) == export(d, MaxExportRows)

-----------------------------------------------------------------------------
(* Reference: from the rows alone. *)

Matching(d, q) == {i \in DOMAIN d.entity : d.entity[i].name \in q \/ BodiesOf(d, i) \cap q # {}}

Filters == [from : Names \cup {AnyValue}, to : Names \cup {AnyValue}, type : RelationTypes \cup {AnyValue}]
Queries == {{n} : n \in Names} \cup {{b} : b \in Bodies} \cup {Names \cup Bodies}

Chosen(d, q, f) ==
    {t \in Triples :
        /\ f.from \in {AnyValue, t[1]} /\ f.to \in {AnyValue, t[2]} /\ f.type \in {AnyValue, t[3]}
        /\ \E m \in LiveMirrors(d, t) :
              q = {} \/ \E o \in DOMAIN d.relobs : d.relobs[o].mirror = m /\ d.relobs[o].body \in q}

(* Search gives every entity at most once, only ones that match, and as many
   as there are for the page when no type is asked for. *)
NodesFound(d) ==
    \A q \in Queries, type \in EntityTypes \cup {AnyValue}, offset \in 0..1, limit \in {1, 9} :
        LET a == handle_search_nodes(d, q, type, offset, limit)
            left == Cardinality(Matching(d, q)) - offset
        IN /\ \A i, j \in DOMAIN a : a[i] = a[j] => i = j
           /\ \A i \in DOMAIN a : a[i] \in Matching(d, q) /\ OfType(d, a[i], type)
           /\ type = AnyValue => Len(a) = (IF left < 0 THEN 0 ELSE Least(left, Least(limit, MaxSearchLimit)))

(* The relations found are the ones asked for, each once, and none is
   missing while the limit is not reached. *)
RelationsFound(d) ==
    \A f \in Filters, q \in {{}, Bodies} :
        LET a == handle_search_relations(d, q, f)
            given == {a[i].triple : i \in DOMAIN a}
        IN /\ \A i, j \in DOMAIN a : a[i].triple = a[j].triple => i = j
           /\ given \subseteq Chosen(d, q, f)
           /\ Cardinality(DOMAIN d.relobs) <= MaxRelationResults /\ Cardinality(d.relation) <= MaxRelationResults => given = Chosen(d, q, f)
           /\ \A i \in DOMAIN a : {o[2] : o \in a[i].observations} \cap Bodies # {} \/ q = {}

(* The search box finds no other entities and relations than the tools do. *)
BoxAgrees(d) ==
    LET all == [from |-> AnyValue, to |-> AnyValue, type |-> AnyValue]
    IN \A words \in Queries \cup {{AnyValue}}, k \in PageSizes :
        \A a \in ui_search_handler(d, "nodes", words, all, AnyValue, k),
           r \in ui_search_handler(d, "relations", words, all, AnyValue, k) :
            /\ Len(a) <= k /\ ToSet(a) \subseteq Matching(d, words)
            /\ Len(r) <= k /\ ToSet(r) \subseteq Chosen(d, words \ {AnyValue}, all)

(* An entity's description, its degrees and the tables they are counted in
   agree. *)
DescribedRight(d) ==
    /\ \A n \in Names : \A e \in describe_entity(d, n) :
           /\ degree(d, n, "in") = {e.incoming} /\ degree(d, n, "out") = {e.outgoing}
           /\ degree(d, n, "both") = {e.incoming + e.outgoing}
           /\ e.neighbors = {m \in Names : \E r \in RelationTypes : LiveMirrors(d, <<n, m, r>>) \cup LiveMirrors(d, <<m, n, r>>) # {}}
           /\ handle_batch_get_entities(d, <<n, n>>) = <<{e.entity}, {e.entity}>>
    /\ \A n \in Names : handle_entity_exists(d, <<n>>) = <<describe_entity(d, n) # {}>>
    /\ \A t \in Triples : Len(ui_relation_handler(d, t)) = Cardinality(LiveMirrors(d, t))

(* Paging by the counters ends where the entities do, and the type
   catalogue lists the types in use and the described ones. *)
PagesEnd(d) ==
    /\ \A type \in EntityTypes \cup {AnyValue}, offset \in 0..2, limit \in {0, 1, 9} :
           LET a == ui_graph_handler(d, type, offset, limit)
           IN a.more <=> PageIds(d, type, offset + (IF limit < 1 THEN 1 ELSE Least(limit, MaxUiNodes)), 1) # {}
    /\ {k[1] : k \in build_types_payload(d).entities} =
           {d.entity[i].type : i \in DOMAIN d.entity} \cup {k[2] : k \in {j \in d.described : j[1] = 0}}
    /\ {k[1] : k \in build_types_payload(d).relations} =
           {r[3] : r \in d.relation} \cup {k[2] : k \in {j \in d.described : j[1] = 1}}
    /\ handle_graph_stats(d) = <<Cardinality(DOMAIN d.entity), Cardinality(d.relation)>>

ExportIsWhole(d) ==
    LET whole == handle_export_graph(d)
    IN Cardinality(DOMAIN d.entity) <= MaxExportRows /\ Cardinality(d.relation) <= MaxExportRows =>
        /\ {e.id : e \in whole.entities} = DOMAIN d.entity
        /\ Cardinality(whole.relations) = Cardinality(d.relation)
        /\ UNION {{o[1] : o \in x[2]} : x \in whole.relations} = DOMAIN d.relobs

AnswersExact(d) ==
    NodesFound(d) /\ RelationsFound(d) /\ BoxAgrees(d) /\ DescribedRight(d) /\ PagesEnd(d) /\ ExportIsWhole(d)

==============================================================================
