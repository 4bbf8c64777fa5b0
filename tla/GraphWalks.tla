----------------------------- MODULE GraphWalks -----------------------------
(***************************************************************************)
(* The reads of the graph that take more than one statement                *)
(* (crates/mcpmem-core/src/graph.rs): find_path, find_all_paths,           *)
(* neighbors, extract_subgraph, open_nodes and read_graph.  They run on a  *)
(* reader connection without a transaction, so every statement sees the    *)
(* graph as it is by then, while other callers commit.                     *)
(*                                                                         *)
(* Entities are known by their ids; the lookups of the names a call starts *)
(* with are one step, since a commit between two of them shows the same as *)
(* one before or after both.  What was there during the whole read, and at *)
(* any moment of it, is kept for the properties.                           *)
(***************************************************************************)
EXTENDS Integers, Sequences, FiniteSets, SequencesExt

CONSTANTS
    NodeIds, LinkTypes, AnyType,
    Nets,         \* graphs a read may begin on
    Questions,    \* calls a client makes
    MaxEntities,  \* MAX_TRAVERSAL_ENTITIES
    MaxRels,      \* MAX_TRAVERSAL_RELS
    MaxQueue,     \* MAX_QUEUE_SIZE
    MaxNeighborDepth, MaxExpandDepth, MaxPathsDepth, MaxPathsResults,   \* limits of the calls
    MaxCommits    \* bound: commits of others while reads run

VARIABLES
    net,     \* the committed graph: live entities and relations
    walk,    \* the read under way
    during   \* relations there throughout and at any time of it, entities deleted meanwhile

walkVars == <<net, walk, during>>

NoRead == [pc |-> "idle"]
NoPath == <<>>

WalksInit ==
    /\ net \in Nets
    /\ walk = NoRead
    /\ during = [always |-> {}, ever |-> {}, lost |-> {}, commits |-> 0]

-----------------------------------------------------------------------------
(* Statements. *)

Rows(from, side, type) ==
    {r \in net.rels : (IF side = "out" THEN r[1] ELSE r[2]) \in from /\ type \in {AnyType, r[3]}}
Other(r, side) == IF side = "out" THEN r[2] ELSE r[1]
Others(from, side) == {Other(r, side) : r \in Rows(from, side, AnyType)}
Alive(r) == r[1] \in net.live /\ r[2] \in net.live

Begin(w) ==
    /\ walk = NoRead
    /\ walk' = w
    /\ during' = [during EXCEPT !.always = net.rels, !.ever = net.rels, !.lost = {}]
    /\ UNCHANGED net

Reached(pc) == walk # NoRead /\ walk.pc = pc
Goes(w) == walk' = w /\ UNCHANGED <<net, during>>
Answered(q, a) == [q |-> q, pc |-> "answered", answer |-> a]

-----------------------------------------------------------------------------
(* The shortest path: breadth first, along relations of both directions. *)

find_path(q) ==
    /\ {q.from, q.to} \subseteq net.live
    /\ Begin(IF q.from = q.to THEN Answered(q, <<q.from>>)
             ELSE [q |-> q, pc |-> "path", queue |-> <<q.from>>, visited |-> {q.from}, parent |-> <<>>])

Arrived == walk.queue # <<>> => Head(walk.queue) = walk.q.to

(* Neighbours not visited yet are queued in the order of the rows. *)
Visit(w, cur, found, pc) ==
    \E order \in SetToSeqs(found \ w.visited) :
        Goes([w EXCEPT !.queue = @ \o order,
                       !.visited = @ \cup found,
                       !.parent = [n \in found \ w.visited |-> cur] @@ @,
                       !.pc = pc])

OutNeighbours ==
    /\ Reached("path") /\ ~Arrived
    /\ LET cur == Head(walk.queue)
       IN Visit([cur |-> cur] @@ [walk EXCEPT !.queue = Tail(@)], cur, Others({cur}, "out"), "path in")

(* Mutant of InNeighbours: relations are followed forwards only. *)
ForwardsOnly == Reached("path in") /\ Goes([walk EXCEPT !.pc = "path"])

InNeighbours == Reached("path in") /\ Visit(walk, walk.cur, Others({walk.cur}, "in"), "path")

Backwards(parent, from, to) ==
    LET chain[n \in NodeIds] == IF n = from THEN <<n>> ELSE Append(chain[parent[n]], n)
    IN chain[to]

PathFound ==
    /\ Reached("path") /\ Arrived
    /\ LET q == walk.q
       IN Goes(IF q.to \notin DOMAIN walk.parent THEN Answered(q, NoPath)
               ELSE [q |-> q, pc |-> "names", path |-> Backwards(walk.parent, q.from, q.to)])

(* The names of the path's entities, of those that still have one. *)
PathNames ==
    Reached("names") /\ Goes(Answered(walk.q, SelectSeq(walk.path, LAMBDA n : n \in net.live)))

-----------------------------------------------------------------------------
(* All paths up to a length, until there are enough. *)

find_all_paths(q) ==
    /\ {q.from, q.to} \subseteq net.live
    /\ Begin(IF q.from = q.to THEN Answered(q, <<<<q.from>>>>)
             ELSE [q |-> q, pc |-> "paths", queue |-> <<<<q.from>>>>, paths |-> <<>>,
                   cur |-> <<>>, full |-> FALSE])

(* One row: a path that arrives is kept, another is queued when it is simple
   and short enough.  Enough paths end the rows of this statement. *)
Extend(w, n) ==
    LET p == Append(w.cur, n)
        queues == n # w.q.to /\ n \notin ToSet(w.cur) /\ Len(w.cur) < w.q.depth
    IN CASE n = w.q.to -> [w EXCEPT !.paths = Append(@, p), !.stop = Len(w.paths) + 1 >= w.q.most]
         [] queues /\ Len(w.queue) < MaxQueue -> [w EXCEPT !.queue = Append(@, p)]
         [] queues /\ Len(w.queue) >= MaxQueue -> [w EXCEPT !.full = TRUE, !.stop = TRUE]
         [] n # w.q.to /\ ~queues -> w

(* One row per relation: two relations to one neighbour give it twice. *)
ExtendAll(w, side, pc) ==
    LET rows == SetToSeq(Rows({Last(w.cur)}, side, AnyType))
        step(acc, r) == IF acc.stop THEN acc ELSE Extend(acc, Other(r, side))
        v == FoldLeft(step, w @@ [stop |-> FALSE], rows)
    IN IF v.full THEN [q |-> w.q, pc |-> "refused"]
       ELSE [q |-> w.q, pc |-> pc, queue |-> v.queue, paths |-> v.paths, cur |-> v.cur, full |-> FALSE]

Enough == walk.queue = <<>> \/ Len(walk.paths) >= walk.q.most

NextPath ==
    /\ Reached("paths") /\ ~Enough
    /\ LET w == [walk EXCEPT !.cur = Head(walk.queue), !.queue = Tail(@)]
       IN Goes(IF Len(w.cur) > w.q.depth THEN w ELSE ExtendAll(w, "out", "paths in"))

NextPathIn == Reached("paths in") /\ Goes(ExtendAll(walk, "in", "paths"))

AllPathNames ==
    /\ Reached("paths") /\ Enough
    /\ Goes([q |-> walk.q, pc |-> "all names", paths |-> walk.paths])

AllNamed ==
    /\ Reached("all names")
    /\ Goes(Answered(walk.q, [i \in DOMAIN walk.paths |-> SelectSeq(walk.paths[i], LAMBDA n : n \in net.live)]))

-----------------------------------------------------------------------------
(* What is around some entities, level by level. *)

Around(q, seeds) ==
    [q |-> q, pc |-> "level", ids |-> seeds, rels |-> {}, frontier |-> seeds, next |-> {},
     level |-> 0, todo |-> <<>>, capped |-> FALSE]

neighbors(q) == q.seeds \subseteq net.live /\ Begin(Around(q, q.seeds))

extract_subgraph(q) == Begin(Around(q, q.seeds \cap net.live))

(* The statements of a level: one per entity and direction, or one per
   direction for all of them. *)
LevelBegins ==
    /\ Reached("level") /\ walk.level < walk.q.depth /\ walk.frontier # {}
    /\ \E order \in (IF walk.q.op = "neighbors" THEN SetToSeqs({{n} : n \in walk.frontier}) ELSE {<<walk.frontier>>}) :
           LET statements == FlattenSeq([i \in DOMAIN order |-> [j \in DOMAIN walk.q.sides |-> <<order[i], walk.q.sides[j]>>]])
           IN Goes([walk EXCEPT !.todo = statements, !.next = {}, !.pc = "rows"])

ReadRows ==
    /\ Reached("rows") /\ walk.todo # <<>>
    /\ LET s == Head(walk.todo)
           rows == Rows(s[1], s[2], walk.q.type)
           fresh == {Other(r, s[2]) : r \in rows} \ walk.ids
       IN Goes([walk EXCEPT !.todo = Tail(@), !.rels = @ \cup rows, !.ids = @ \cup fresh, !.next = @ \cup fresh])

LevelEnds ==
    /\ Reached("rows") /\ walk.todo = <<>>
    /\ Goes(IF Cardinality(walk.ids) > MaxEntities \/ Cardinality(walk.rels) > MaxRels
            THEN [walk EXCEPT !.pc = "entities", !.capped = TRUE]
            ELSE [walk EXCEPT !.frontier = walk.next, !.level = @ + 1, !.pc = "level"])

WalkEnds ==
    /\ Reached("level") /\ (walk.level = walk.q.depth \/ walk.frontier = {})
    /\ Goes([walk EXCEPT !.pc = "entities"])

-----------------------------------------------------------------------------
(* Named entities with their relations, and a page of the graph. *)

Listing(q, ids) ==
    Begin(IF ids = {} THEN Answered(q, [entities |-> {}, relations |-> {}, capped |-> FALSE])
          ELSE [q |-> q, pc |-> "entities", ids |-> ids, capped |-> FALSE])

open_nodes(q) == Listing(q, q.seeds \cap net.live)

read_graph_page(q) ==
    LET ids == SetToSortSeq(net.live \cap q.seeds, <)
    IN Listing(q, {ids[i] : i \in DOMAIN ids \cap (q.offset + 1..q.offset + q.limit)})

(* Both kinds of reads end with a statement for the entities and one for the
   relations. *)
EntitiesRead ==
    /\ Reached("entities")
    /\ Goes([entities |-> walk.ids \cap net.live] @@ [walk EXCEPT !.pc = "relations"])

RelationsRead ==
    /\ Reached("relations")
    /\ LET rels == CASE walk.q.op = "open_nodes" -> {r \in net.rels : r[1] \in walk.ids \/ r[2] \in walk.ids}
                     [] walk.q.op = "read_graph" -> {r \in net.rels : r[1] \in walk.ids /\ r[2] \in walk.ids}
                     [] OTHER -> {r \in walk.rels : Alive(r)}
       IN Goes(Answered(walk.q, [entities |-> walk.entities, relations |-> rels, capped |-> walk.capped]))

-----------------------------------------------------------------------------
(* Other callers, while a read runs (module Graph has what a commit is). *)

Commits(after) ==
    /\ walk # NoRead /\ walk.pc \notin {"answered", "refused"} /\ during.commits < MaxCommits
    /\ net' = after
    /\ during' = [always |-> during.always \cap after.rels, ever |-> during.ever \cup after.rels,
                  lost |-> during.lost \cup (net.live \ after.live), commits |-> during.commits + 1]
    /\ UNCHANGED walk

OthersCommit ==
    \/ \E r \in net.live \X net.live \X LinkTypes : r \notin net.rels /\ Commits([net EXCEPT !.rels = @ \cup {r}])
    \/ \E r \in net.rels : Commits([net EXCEPT !.rels = @ \ {r}])
    \/ \E n \in net.live : Commits([live |-> net.live \ {n}, rels |-> {r \in net.rels : n \notin {r[1], r[2]}}])

ReadDone == (Reached("answered") \/ Reached("refused")) /\ Goes(NoRead)

(* The tools and the viewer: a depth that is too large is refused by some
   and lowered by others. *)
handle_find_path(q) == q.op = "find_path" /\ find_path(q)

handle_find_all_paths(q) ==
    /\ q.op = "find_all_paths"
    /\ find_all_paths([q EXCEPT !.depth = Min({@, MaxPathsDepth}), !.most = Min({@, MaxPathsResults})])

handle_get_neighbors(q) == q.op = "neighbors" /\ q.depth <= MaxNeighborDepth /\ neighbors(q)

ui_expand_handler(q) ==
    /\ q.op = "neighbors" /\ q.type = AnyType
    /\ neighbors([q EXCEPT !.depth = Max({1, Min({@, MaxExpandDepth})})])

handle_extract_subgraph(q) ==
    q.op = "extract_subgraph" /\ q.depth <= MaxNeighborDepth /\ extract_subgraph(q)

handle_open_nodes(q) == q.op = "open_nodes" /\ open_nodes(q)

handle_read_graph(q) == q.op = "read_graph" /\ read_graph_page(q)

Ask ==
    \E q \in Questions :
        \/ handle_find_path(q) \/ handle_find_all_paths(q) \/ handle_get_neighbors(q) \/ ui_expand_handler(q)
        \/ handle_extract_subgraph(q) \/ handle_open_nodes(q) \/ handle_read_graph(q)

WalksNext ==
    \/ Ask \/ OutNeighbours \/ InNeighbours \/ PathFound \/ PathNames
    \/ NextPath \/ NextPathIn \/ AllPathNames \/ AllNamed
    \/ LevelBegins \/ ReadRows \/ LevelEnds \/ WalkEnds \/ EntitiesRead \/ RelationsRead
    \/ OthersCommit \/ ReadDone

WalksSpec == WalksInit /\ [][WalksNext]_walkVars

-----------------------------------------------------------------------------
(* Reference: the relations a step may take from some entities, and the
   entities within k steps. *)
Along(rels, S, side, type) ==
    {r \in rels : (IF side = "out" THEN r[1] ELSE r[2]) \in S /\ type \in {AnyType, r[3]}}

Touching(rels, S, q) == UNION {Along(rels, S, side, q.type) : side \in ToSet(q.sides)}

Reach(rels, S, q, k) ==
    LET step(T) == UNION {{Other(r, side) : r \in Along(rels, T, side, q.type)} : side \in ToSet(q.sides)}
        within[j \in 0..k] == IF j = 0 THEN S ELSE within[j - 1] \cup step(within[j - 1])
    IN within[k]

Undirected == [sides |-> <<"out", "in">>, type |-> AnyType]
Linked(rels, p) == \A i \in 1..(Len(p) - 1) : \E r \in rels : {r[1], r[2]} = {p[i], p[i + 1]}

SimplePaths(rels, q) ==
    {p \in SeqOf(NodeIds, q.depth + 1) :
        /\ p # <<>> /\ Len(p) > 1 /\ p[1] = q.from /\ Last(p) = q.to
        /\ \A i, j \in DOMAIN p : p[i] = p[j] => i = j
        /\ Linked(rels, p)}

(* The path given is at most as long as any that was there all the time, and
   no such path is missed; its steps were relations at some moment, unless an
   entity was deleted while the search ran and left a hole. *)
PathIsShortest(q, a) ==
    LET steps == {k \in 0..Cardinality(NodeIds) : q.to \in Reach(during.always, {q.from}, Undirected, k)}
    IN IF a = NoPath THEN steps = {}
       ELSE /\ \A k \in steps : Len(a) <= k + 1
            /\ during.lost = {} => a[1] = q.from /\ Last(a) = q.to /\ Linked(during.ever, a)

(* Every simple path that was there all the time is given unless there are
   enough; one path more than asked for is possible. *)
PathsAreAll(q, a) ==
    /\ Len(a) <= q.most + 1
    /\ Len(a) < q.most => SimplePaths(during.always, q) \subseteq ToSet(a)
    /\ during.lost = {} => \A i \in DOMAIN a : a[i] \in SimplePaths(during.ever, q)

(* A subgraph is closed under its relations, and lies between what was there
   all the time and what was there at some moment, within the depth asked. *)
SubgraphIsThere(q, a) ==
    LET closest == Reach(during.always, q.seeds \cap net.live, q, q.depth)
        widest == Reach(during.ever, q.seeds, q, q.depth)
        inner(rels, k) == IF k = 0 THEN {} ELSE Touching(rels, Reach(rels, q.seeds, q, k - 1), q)
    IN /\ \A r \in a.relations : r[1] \in a.entities /\ r[2] \in a.entities
       /\ a.entities \subseteq widest
       /\ a.relations \subseteq inner(during.ever, q.depth)
       /\ ~a.capped => /\ closest \ during.lost \subseteq a.entities
                       /\ inner(during.always, q.depth) \subseteq a.relations
       /\ a.capped => Cardinality(a.entities \cup during.lost) > MaxEntities \/ Cardinality(during.ever) > MaxRels

ListingIsThere(q, a) ==
    LET ends(r) == IF q.op = "read_graph" THEN {r[1], r[2]} \subseteq a.entities ELSE {r[1], r[2]} \cap a.entities # {}
    IN /\ a.relations \subseteq during.ever
       /\ {r \in during.always : ends(r)} \subseteq a.relations
       /\ q.op = "read_graph" => \A r \in a.relations : ends(r)

(* Whatever is committed while a read runs over several statements, its
   answer is bounded by what the graph was during the read; with no commit
   in between it is exact. *)
WalksSound ==
    Reached("answered") =>
        CASE walk.q.op = "find_path" -> PathIsShortest(walk.q, walk.answer)
          [] walk.q.op = "find_all_paths" /\ walk.q.from # walk.q.to -> PathsAreAll(walk.q, walk.answer)
          [] walk.q.op \in {"neighbors", "extract_subgraph"} -> SubgraphIsThere(walk.q, walk.answer)
          [] walk.q.op \in {"open_nodes", "read_graph"} -> ListingIsThere(walk.q, walk.answer)
          [] OTHER -> TRUE

==============================================================================
