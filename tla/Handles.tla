------------------------------ MODULE Handles ------------------------------
(***************************************************************************)
(* The open graphs of one server process: WorkspaceHandles, the bounded    *)
(* cache of graph handles and vector stores that requests and the indexer  *)
(* share, and the id counters each GraphHandle keeps in memory.            *)
(*                                                                         *)
(* A handle lives as long as the cache or a caller holds it: after an      *)
(* eviction a second handle of the same file may be opened while a request *)
(* still writes through the first.  What the index of a file goes through  *)
(* (ChunkJobs, ManagedSnapshot) is reduced to what opening a store depends *)
(* on.                                                                     *)
(***************************************************************************)
EXTENDS Integers, Sequences, FiniteSets, SequencesExt

CONSTANTS
    Graphs,      \* registered workspaces
    Legacy,      \* the one the server was started on; pinned
    Callers,     \* requests in flight
    Bound,       \* BOUND
    MaxHandles,  \* bound: handles open at a time
    MaxId        \* bound: ids given out per file

ASSUME HandlesAssumption ==
    /\ Legacy \in Graphs
    /\ Bound \in Nat \ {0, 1}  \* with room for one, the pinned entry would be skipped forever
    /\ MaxHandles \in Nat \ {0}
    /\ MaxId \in Nat

VARIABLES
    entries,  \* the cached handle of each workspace that has one
    recency,  \* workspace ids, most recently used last
    handles,  \* the open handles: file, counter in memory, whether a snapshot is loaded
    held,     \* the handle each request or the indexer works with
    refused,  \* the workspace a request was refused, until the caller gives up
    files     \* the files: counter, ids and rows ever used, the state of the index

handleVars == <<entries, recency, handles, held, refused, files>>

NoHandle == 0
Indexer == "indexer"
Holders == Callers \cup {Indexer}

\* Whether the index has a published snapshot, one with newer vectors to
\* publish, is being rebuilt or has failed; `complete' once a profile served.
IndexStates == {"none", "published", "stale", "rebuilding", "failed"}

Files == [seq : 0..MaxId, ids : SUBSET (1..MaxId), rows : 0..MaxId,
          index : IndexStates, complete : BOOLEAN]
Handle == [graph : Graphs, seq : 0..MaxId, loaded : BOOLEAN]

\* The handle the server is built with.
Original == 1

Waiting(who) == held[who] = NoHandle /\ (who \in Callers => refused[who] = {})

\* Only handles somebody holds are open.
Kept(open, cached, holding) ==
    LET live == {cached[g] : g \in DOMAIN cached} \cup {holding[w] : w \in Holders}
    IN [h \in DOMAIN open \cap live |-> open[h]]

-----------------------------------------------------------------------------
(* Opening *)

\* GraphHandle::new reads the counter of the file.
NewHandle(g, loaded) == [graph |-> g, seq |-> files[g].seq, loaded |-> loaded]

\* load_managed_snapshot: a file without a profile has nothing to load; an index
\* that is not published is an error.
load_managed_snapshot(g) == files[g].index \in {"none", "published"}

touch(q, g) == Append(SelectSeq(q, LAMBDA x : x # g), g)

Evictions == [recency : Seq(Graphs), gone : SUBSET Graphs, size : Nat]

\* The while loop of open_entry: the pinned id goes to the back, others go.
Evict[s \in Evictions] ==
    IF s.size < Bound \/ s.recency = <<>> THEN s
    ELSE IF Head(s.recency) = Legacy THEN Evict[[s EXCEPT !.recency = Append(Tail(@), Legacy)]]
    ELSE Evict[[recency |-> Tail(s.recency), gone |-> s.gone \cup {Head(s.recency)}, size |-> s.size - 1]]

\* Storing an open entry: what open_entry does once the handle is there.
Insert(g, h, new, who) ==
    LET room == Evict[[recency |-> recency, gone |-> {}, size |-> Cardinality(DOMAIN entries)]]
        cached == [f \in (DOMAIN entries \ room.gone) \cup {g} |->
                     IF f = g THEN h ELSE entries[f]]
    IN /\ entries' = cached
       /\ recency' = Append(room.recency, g)
       /\ held' = [held EXCEPT ![who] = h]
       /\ handles' = Kept([i \in DOMAIN handles \cup {h} |-> IF i = h THEN new ELSE handles[i]],
                           cached, held')

Hit(g, who) ==
    /\ g \in DOMAIN entries
    /\ recency' = touch(recency, g)
    /\ held' = [held EXCEPT ![who] = entries[g]]
    /\ UNCHANGED <<entries, handles>>

Miss(g, who, loaded) ==
    /\ g \notin DOMAIN entries
    /\ \E h \in (1..MaxHandles) \ DOMAIN handles :
         /\ \A i \in (1..MaxHandles) \ DOMAIN handles : h <= i
         /\ Insert(g, h, NewHandle(g, loaded), who)

\* A request: an index that cannot be loaded refuses the whole of it, and
\* nothing is cached.
get(q, g) ==
    /\ Waiting(q)
    /\ \/ Hit(g, q) /\ UNCHANGED refused
       \/ /\ load_managed_snapshot(g)
          /\ Miss(g, q, files[g].index = "published")
          /\ UNCHANGED refused
       \/ /\ g \notin DOMAIN entries /\ ~load_managed_snapshot(g)
          /\ refused' = [refused EXCEPT ![q] = {g}]
          /\ UNCHANGED <<entries, recency, handles, held>>
    /\ UNCHANGED files

\* A turn of the indexer opens without loading.
get_by_registered_path(g) ==
    /\ Waiting(Indexer)
    /\ Hit(g, Indexer) \/ Miss(g, Indexer, FALSE)
    /\ UNCHANGED <<refused, files>>

Release(q) ==
    /\ ~Waiting(q)
    /\ held' = [held EXCEPT ![q] = NoHandle]
    /\ refused' = [refused EXCEPT ![q] = {}]
    /\ handles' = Kept(handles, entries, held')
    /\ UNCHANGED <<entries, recency, files>>

-----------------------------------------------------------------------------
(* Ids *)

Larger(i, j) == IF i < j THEN j ELSE i

\* Mutant of refresh_seqs: the handle trusts its own counter.
OwnCounter(h) == handles[h].seq

refresh_seqs(h) == Larger(handles[h].seq, files[handles[h].graph].seq)

\* A mutation takes ids in its transaction.  sync_seqs writes the counter back
\* on commit; a rollback leaves the one in memory ahead.
Mutates(q) ==
    LET h == held[q]
        g == handles[h].graph
        f == files[g]
        first == refresh_seqs(h)
    IN /\ q \in Callers /\ h # NoHandle
       /\ \E n \in 1..2, commits \in BOOLEAN :
            /\ first + n <= MaxId /\ f.rows + n <= MaxId
            /\ handles' = [handles EXCEPT ![h].seq = first + n]
            /\ files' = IF commits
                         THEN [files EXCEPT ![g] = [f EXCEPT !.seq = first + n,
                                                             !.ids = @ \cup (first + 1 .. first + n),
                                                             !.rows = @ + n]]
                         ELSE files
       /\ UNCHANGED <<entries, recency, held, refused>>

-----------------------------------------------------------------------------
(* The index *)

\* reconcile_managed_snapshot through handle h: the index and what h serves
\* afterwards; `ready' says whether the candidate of a rebuild passes its scan.
reconciled(h, ready) ==
    LET f == files[handles[h].graph]
        to == IF f.index = "stale" \/ (f.index = "rebuilding" /\ ready) THEN "published" ELSE f.index
    IN [file |-> [f EXCEPT !.index = to, !.complete = @ \/ to = "published"],
        loaded |-> CASE to = "published" -> TRUE
                     [] to = "none"      -> FALSE
                     [] OTHER            -> handles[h].loaded]

\* The rest of the indexer's turn: an error of the worker skips the reconcile.
\* The entry it ends on may have been evicted meanwhile.
run_indexer_graph(ready) ==
    LET h == held[Indexer]
        r == reconciled(h, ready)
    IN /\ h # NoHandle
       /\ held' = [held EXCEPT ![Indexer] = NoHandle]
       /\ \/ /\ files' = [files EXCEPT ![handles[h].graph] = r.file]
             /\ handles' = Kept([handles EXCEPT ![h].loaded = r.loaded], entries, held')
          \/ /\ handles' = Kept(handles, entries, held')
             /\ UNCHANGED files
       /\ UNCHANGED <<entries, recency, refused>>

\* Mutant of cached_vectors: only the store the server was started on.
LegacyOnly == {Legacy}

cached_vectors == DOMAIN entries

\* One store's turn in the refresh loop of the transport.
refresh(g, ready) ==
    LET r == reconciled(entries[g], ready)
    IN /\ g \in cached_vectors
       /\ files' = [files EXCEPT ![g] = r.file]
       /\ handles' = [handles EXCEPT ![entries[g]].loaded = r.loaded]
       /\ UNCHANGED <<entries, recency, held, refused>>

\* What indexers and operators do to the file: new vectors, a new profile, a
\* rebuild given up, a publication by another process.
IndexMoves(g) ==
    LET f == files[g]
    IN /\ \E to \in IndexStates \ {"none"} :
            /\ CASE f.index = "published"  -> to \in {"stale", "rebuilding"}
                 [] f.index = "stale"      -> to \in {"published", "rebuilding"}
                 [] f.index = "rebuilding" -> to \in {"published", "failed"}
                 [] OTHER                  -> to = "rebuilding"
            /\ files' = [files EXCEPT ![g] = [f EXCEPT !.index = to,
                                                        !.complete = @ \/ to = "published"]]
       /\ UNCHANGED <<entries, recency, handles, held, refused>>

-----------------------------------------------------------------------------

\* MCPServer::new and WorkspaceHandles::new: the legacy store is opened first,
\* and only warns when its index cannot be loaded.
HandlesInit ==
    /\ files = [g \in Graphs |-> [seq |-> 0, ids |-> {}, rows |-> 0, index |-> "none", complete |-> FALSE]]
    /\ entries = [g \in {Legacy} |-> Original]
    /\ recency = <<Legacy>>
    /\ handles = [h \in {Original} |-> NewHandle(Legacy, FALSE)]
    /\ held = [w \in Holders |-> NoHandle]
    /\ refused = [q \in Callers |-> {}]

HandlesRestart ==
    /\ entries' = [g \in {Legacy} |-> Original]
    /\ recency' = <<Legacy>>
    /\ handles' = [h \in {Original} |-> NewHandle(Legacy, files[Legacy].index = "published")]
    /\ held' = [w \in Holders |-> NoHandle]
    /\ refused' = [q \in Callers |-> {}]
    /\ UNCHANGED files

HandlesNext ==
    \/ \E q \in Callers, g \in Graphs : get(q, g)
    \/ \E q \in Callers : Mutates(q) \/ Release(q)
    \/ \E g \in Graphs : get_by_registered_path(g) \/ IndexMoves(g)
    \/ \E ready \in BOOLEAN : run_indexer_graph(ready) \/ \E g \in Graphs : refresh(g, ready)
    \/ HandlesRestart

HandlesSpec == HandlesInit /\ [][HandlesNext]_handleVars

-----------------------------------------------------------------------------
(* Properties *)

\* No id is given to two rows, although an evicted handle and its successor may
\* both be writing with counters of their own (refresh_seqs, sync_seqs).
NoIdTaken == \A g \in Graphs : files[g].rows = Cardinality(files[g].ids)

\* What keeps it so: a cached handle and one somebody works with are open, and
\* the one cached for a workspace is a handle of its file;
HoldsOpen(open, cached, holding) ==
    /\ DOMAIN open \subseteq 1..MaxHandles
    /\ open \in [DOMAIN open -> Handle]
    /\ holding \in [Holders -> DOMAIN open \cup {NoHandle}]
    /\ DOMAIN cached \subseteq Graphs
    /\ \A g \in DOMAIN cached : cached[g] \in DOMAIN open /\ open[cached[g]].graph = g

OpenInv == HoldsOpen(handles, entries, held)

\* and the counter in the file has passed every id in it, while a counter in
\* memory may be ahead of it or behind.
CounterInv ==
    /\ files \in [Graphs -> Files]
    /\ \A g \in Graphs : files[g].ids \subseteq 1..files[g].seq

HandlesInv == OpenInv /\ CounterInv /\ NoIdTaken

\* Once an index is published, every cached store comes to serve it, also one
\* the indexer opened without loading (the refresh loop of the transport).
EntriesCatchUp ==
    \A g \in Graphs :
        (files[g].index = "published" /\ g \in DOMAIN entries)
        ~> (files[g].index # "published" \/ g \notin DOMAIN entries \/ handles[entries[g]].loaded)

\* README: "the old chunks keep serving until the new profile is complete"; a
\* workspace that has served is never refused.
OldKeepsServing ==
    [][\A q \in Callers : \A g \in refused'[q] \ refused[q] : ~files[g].complete]_handleVars

=============================================================================
