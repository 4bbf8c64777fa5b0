--------------------------- MODULE ProcessProofs ---------------------------
(***************************************************************************)
(* What holds of the processes of a deployment of any size: the repair is  *)
(* exact for files of any size, any number of attempts and backups, and a  *)
(* failure or crash at any statement; no id of a graph file is given out   *)
(* twice, however many handles of it are open; and the code map of a       *)
(* watched project is current when it is quiet, for any edits, jobs and    *)
(* watchers.                                                               *)
(***************************************************************************)
EXTENDS RelationRepair, Handles, CodeIndex, FiniteSetTheorems, WellFoundedInduction, TLAPS

-----------------------------------------------------------------------------
(* The offline repair *)

\* A set of numbers has a least one.
LEMMA LeastNumber ==
    ASSUME NEW T, T \subseteq Nat, T # {}
    PROVE  \E m \in T : \A k \in T : m <= k
<1> DEFINE less == {ss \in Nat \X Nat : ss[1] < ss[2]}
<1>1. IsWellFoundedOn(less, Nat)
    BY NatLessThanWellFounded DEF OpToRel
<1> HIDE DEF less
<1>2. PICK m \in T : \A k \in T : <<k, m>> \notin less
    BY <1>1, WFMin
<1>3. \A k \in T : ~(k < m)
    BY <1>2 DEF less
<1> QED BY <1>3

\* Of the rows of a triple one is the first, and Oldest keeps it.
LEMMA FirstRowStays ==
    ASSUME NEW rows, Keyed(rows), NEW r \in rows
    PROVE  \E q \in Oldest(rows) : q.triple = r.triple
<1> DEFINE same == {s \in rows : s.triple = r.triple}
           times == {s.created : s \in same}
<1>1. PICK c \in times : \A k \in times : c <= k
  <2>1. times \subseteq Nat /\ r.created \in times
    BY DEF Keyed
  <2> QED BY <2>1, LeastNumber
<1> DEFINE early == {s \in same : s.created = c}
           ids == {s.id : s \in early}
<1>2. PICK i \in ids : \A k \in ids : i <= k
  <2>1. ids \subseteq Nat /\ ids # {}
    BY <1>1 DEF Keyed
  <2> QED BY <2>1, LeastNumber
<1>3. PICK q \in early : q.id = i
    BY <1>2
<1>4. ASSUME NEW s \in same, s # q PROVE Before(q, s)
  <2>1. q.created \in Nat /\ s.created \in Nat /\ q.id \in Nat /\ s.id \in Nat /\ s.id # q.id
    BY <1>3, <1>4 DEF Keyed
  <2>2. q.created <= s.created
    BY <1>1, <1>3
  <2>3. s.created = q.created => q.id <= s.id
    BY <1>2, <1>3
  <2> QED BY <2>1, <2>2, <2>3 DEF Before
<1> QED BY <1>3, <1>4 DEF Oldest

\* Deleting duplicates prunes a file that is as it was, and leaves a pruned one
\* pruned.
LEMMA DeletingPrunes ==
    ASSUME original \in OldFiles, NEW f, f = original \/ Pruned(f), IsFile(f)
    PROVE  Pruned([f EXCEPT !.rows = Oldest(@)])
<1> DEFINE g == [f EXCEPT !.rows = Oldest(@)]
<1>1. g.rows = Oldest(f.rows)
    BY DEF IsFile
<1>2. Keyed(original.rows) /\ f.rows \subseteq original.rows
    BY RepairAssumption DEF Pruned
<1>3. Keyed(f.rows)
    BY <1>2 DEF Keyed
<1>4. Oldest(f.rows) \subseteq f.rows
    BY DEF Oldest
<1>5. Groups(g) = Groups(f)
  <2>1. ASSUME NEW t \in Groups(f) PROVE t \in Groups(g)
    <3>1. PICK r \in f.rows : r.triple = t
        BY <2>1 DEF Groups
    <3>2. PICK q \in Oldest(f.rows) : q.triple = t
        BY <3>1, <1>3, FirstRowStays
    <3> QED BY <3>2, <1>1 DEF Groups
  <2> QED BY <2>1, <1>1, <1>4 DEF Groups
<1>6. Groups(f) = Groups(original)
    BY DEF Pruned
<1>7. ASSUME NEW r \in Oldest(f.rows), NEW s \in original.rows, s.triple = r.triple, Before(s, r)
      PROVE  FALSE
  <2>1. CASE f = original
    <3>1. r.id \in Nat /\ s.id \in Nat /\ r.created \in Nat /\ s.created \in Nat
        BY <1>2, <1>4 DEF Keyed
    <3>2. s # r
        BY <1>7, <3>1 DEF Before
    <3>3. Before(r, s)
        BY <2>1, <1>7, <3>2 DEF Oldest
    <3> QED BY <1>7, <3>1, <3>3 DEF Before
  <2>2. CASE Pruned(f)
    BY <2>2, <1>4, <1>7 DEF Pruned
  <2> QED BY <2>1, <2>2
<1> HIDE DEF g
<1> QED BY <1>1, <1>2, <1>4, <1>5, <1>6, <1>7 DEF Pruned, g

\* Recounting changes no row.
LEMMA RecountKeeps ==
    ASSUME NEW f, IsFile(f)
    PROVE  /\ IsFile(rebuild_relation_caches(f))
           /\ rebuild_relation_caches(f).rows = f.rows
<1>1. ASSUME NEW v PROVE
        /\ IsFile([f EXCEPT !.stat = v]) /\ [f EXCEPT !.stat = v].rows = f.rows
    BY DEF IsFile
<1>2. ASSUME NEW g, IsFile(g), NEW v PROVE
        /\ IsFile([g EXCEPT !.types = v]) /\ [g EXCEPT !.types = v].rows = g.rows
        /\ IsFile([g EXCEPT !.out = v]) /\ [g EXCEPT !.out = v].rows = g.rows
        /\ IsFile([g EXCEPT !.in = v]) /\ [g EXCEPT !.in = v].rows = g.rows
    BY <1>2 DEF IsFile
<1> DEFINE f1 == [f EXCEPT !.stat = Cardinality(f.rows)]
           f2 == [f1 EXCEPT !.types = [t \in DOMAIN f.types |-> Cardinality(RowsWith(f, 3, t))]]
           f3 == [f2 EXCEPT !.out = [e \in DOMAIN f.out |-> Cardinality(RowsWith(f, 1, e))]]
           f4 == [f3 EXCEPT !.in = [e \in DOMAIN f.in |-> Cardinality(RowsWith(f, 2, e))]]
<1>3. rebuild_relation_caches(f) = f4
    BY DEF rebuild_relation_caches
<1>4. IsFile(f1) /\ f1.rows = f.rows
    BY <1>1
<1> HIDE DEF f1
<1>5. IsFile(f2) /\ f2.rows = f.rows
    BY <1>2, <1>4
<1> HIDE DEF f2
<1>6. IsFile(f3) /\ f3.rows = f.rows
    BY <1>2, <1>5
<1> HIDE DEF f3
<1>7. IsFile(f4) /\ f4.rows = f.rows
    BY <1>2, <1>6
<1> HIDE DEF f4
<1> QED BY <1>3, <1>7

\* A repair starts where the file is as it was.
LEMMA RepairInitInv == RepairInit => RepairInv
    BY RepairAssumption DEF RepairInit, RepairInv, RepairExact, AttemptInv, NotRunning

\* Every statement of an attempt, and every way it may stop, keeps it.
LEMMA RepairStepInv == RepairInv /\ [RepairNext]_repairVars => RepairInv'
<1> SUFFICES ASSUME RepairInv, [RepairNext]_repairVars PROVE RepairInv'
    OBVIOUS
<1> USE DEF RepairInv
<1>1. CASE UNCHANGED repairVars
    BY <1>1 DEF repairVars, RepairExact, AttemptInv, Repaired, Pruned
<1>2. ASSUME NEW p \in BackupPaths, reserve_backup(p) PROVE RepairInv'
  <2>1. RepairExact'
    BY <1>2 DEF reserve_backup, RepairExact, Repaired, Pruned
  <2>2. AttemptInv'
    BY <1>2 DEF reserve_backup, AttemptInv
  <2> QED BY <1>2, <2>1, <2>2 DEF reserve_backup
<1>3. CASE backup_and_verify
  <2>1. RepairExact'
    <3>1. SUFFICES ASSUME file # original PROVE RepairExact'
        BY <1>3 DEF backup_and_verify, RepairExact
    <3>2. PICK p \in DOMAIN backups : backups[p] = {original}
        BY <3>1 DEF RepairExact
    <3>3. p # repair.path
        BY <1>3, <3>2 DEF backup_and_verify, Going, AttemptInv, Reserved
    <3> QED BY <1>3, <3>1, <3>2, <3>3 DEF backup_and_verify, RepairExact, Repaired, Pruned
  <2>2. AttemptInv'
    BY <1>3 DEF backup_and_verify, Going, AttemptInv, NotRunning
  <2> QED BY <1>3, <2>1, <2>2 DEF backup_and_verify
<1>4. CASE validate_source
    BY <1>4 DEF validate_source, Going, On, RepairExact, AttemptInv, Repaired, Pruned
<1>5. CASE DeleteDuplicates
  <2>1. repair.tx = file /\ (file = original \/ Pruned(file))
    BY <1>5 DEF DeleteDuplicates, Going, AttemptInv, RepairExact, Repaired
  <2> DEFINE g == [repair.tx EXCEPT !.rows = Oldest(@)]
  <2>2. Pruned(g) /\ IsFile(g)
    BY <2>1, DeletingPrunes DEF IsFile
  <2> HIDE DEF g
  <2>3. repair' = [repair EXCEPT !.pc = "recount", !.tx = g]
    BY <1>5 DEF DeleteDuplicates, On, g
  <2> QED BY <1>5, <2>2, <2>3 DEF DeleteDuplicates, Going, On, RepairExact, AttemptInv, NotRunning, Repaired, Pruned
<1>6. CASE Recount
  <2> DEFINE g == rebuild_relation_caches(repair.tx)
  <2>1. IsFile(g) /\ g.rows = repair.tx.rows /\ Pruned(repair.tx)
    BY <1>6, RecountKeeps DEF Recount, Going, AttemptInv
  <2> HIDE DEF g
  <2>2. Pruned(g)
    BY <2>1 DEF Pruned, Groups
  <2>3. repair' = [repair EXCEPT !.pc = "index", !.tx = g]
    BY <1>6 DEF Recount, On, g
  <2> QED BY <1>6, <2>1, <2>2, <2>3 DEF Recount, Going, On, RepairExact, AttemptInv, NotRunning, Repaired, Pruned
<1>7. CASE ensure_relation_unique_index
  <2> DEFINE g == [repair.tx EXCEPT !.index = "triple"]
  <2>1. IsFile(g) /\ g.rows = repair.tx.rows /\ g.index = "triple" /\ Pruned(repair.tx)
    BY <1>7 DEF ensure_relation_unique_index, Going, AttemptInv, IsFile
  <2> HIDE DEF g
  <2>2. Pruned(g)
    BY <2>1 DEF Pruned, Groups
  <2>3. repair' = [repair EXCEPT !.pc = "audit", !.tx = g]
    BY <1>7 DEF ensure_relation_unique_index, On, g
  <2> QED BY <1>7, <2>1, <2>2, <2>3
          DEF ensure_relation_unique_index, Going, On, RepairExact, AttemptInv, NotRunning, Repaired, Pruned
<1>8. CASE CommitRepair
  <2>1. Repaired(repair.tx) /\ IsFile(repair.tx)
    BY <1>8 DEF CommitRepair, Going, AttemptInv, Repaired
  <2>2. \E p \in DOMAIN backups : backups[p] = {original}
    BY <1>8 DEF CommitRepair, Going, AttemptInv, RepairExact
  <2> QED BY <1>8, <2>1, <2>2 DEF CommitRepair, RepairExact, AttemptInv, Repaired, Pruned
<1>9. CASE RepairFails
    BY <1>9 DEF RepairFails, RepairExact, AttemptInv, Repaired, Pruned
<1> QED BY <1>1, <1>2, <1>3, <1>4, <1>5, <1>6, <1>7, <1>8, <1>9 DEF RepairNext, audit

\* RepairExact for every legacy file with keyed rows, any backup paths and any
\* number of attempts (repair, backup_and_verify): the file is untouched, or it
\* is clean, keeps the first row of every relation and has a true backup.
THEOREM RepairIsExact == RepairSpec => []RepairExact
<1>1. RepairInv => RepairExact
    BY DEF RepairInv
<1> QED BY <1>1, RepairInitInv, RepairStepInv, PTL DEF RepairSpec

-----------------------------------------------------------------------------
(* Open graphs *)

\* Closing what nobody holds leaves the rest in order.
LEMMA KeptHolds ==
    ASSUME NEW open, NEW cached, NEW holding, HoldsOpen(open, cached, holding)
    PROVE  HoldsOpen(Kept(open, cached, holding), cached, holding)
<1> DEFINE live == {cached[g] : g \in DOMAIN cached} \cup {holding[w] : w \in Holders}
           kept == [h \in DOMAIN open \cap live |-> open[h]]
<1>1. DOMAIN kept = DOMAIN open \cap live /\ \A h \in DOMAIN kept : kept[h] = open[h]
    OBVIOUS
<1>2. kept = Kept(open, cached, holding)
    BY DEF Kept
<1>3. DOMAIN kept \subseteq 1..MaxHandles /\ kept \in [DOMAIN kept -> Handle]
    BY DEF HoldsOpen
<1>4. holding \in [Holders -> DOMAIN kept \cup {NoHandle}]
    BY <1>1 DEF HoldsOpen
<1>5. \A g \in DOMAIN cached : cached[g] \in DOMAIN kept /\ kept[cached[g]].graph = g
    BY <1>1 DEF HoldsOpen
<1> QED BY <1>2, <1>3, <1>4, <1>5 DEF HoldsOpen

\* A handle whose counter or snapshot changed is still a handle of its file.
LEMMA ChangedHandleHolds ==
    ASSUME NEW open, NEW cached, NEW holding, HoldsOpen(open, cached, holding),
           NEW h \in DOMAIN open, NEW new \in Handle, new.graph = open[h].graph
    PROVE  HoldsOpen([open EXCEPT ![h] = new], cached, holding)
    BY DEF HoldsOpen

\* Taking a handle that is open, or none.
LEMMA TakenHolds ==
    ASSUME NEW open, NEW cached, NEW holding, HoldsOpen(open, cached, holding),
           NEW who \in Holders, NEW h \in DOMAIN open \cup {NoHandle}
    PROVE  HoldsOpen(open, cached, [holding EXCEPT ![who] = h])
    BY DEF HoldsOpen

\* A cached handle that is taken is open.
LEMMA HitHolds ==
    ASSUME OpenInv, NEW g \in Graphs, NEW who \in Holders, Hit(g, who)
    PROVE  OpenInv'
<1>1. entries[g] \in DOMAIN handles
    BY DEF Hit, OpenInv, HoldsOpen
<1> QED BY <1>1, TakenHolds DEF Hit, OpenInv

\* Whatever a miss evicts, a handle that somebody holds stays open.
LEMMA MissHolds ==
    ASSUME HandlesInv, NEW g \in Graphs, NEW who \in Holders, NEW loaded \in BOOLEAN,
           Miss(g, who, loaded)
    PROVE  OpenInv'
<1>1. PICK h \in (1..MaxHandles) \ DOMAIN handles : Insert(g, h, NewHandle(g, loaded), who)
    BY DEF Miss
<1> DEFINE new == NewHandle(g, loaded)
           gone == Evict[[recency |-> recency, gone |-> {}, size |-> Cardinality(DOMAIN entries)]].gone
           cached == [f \in (DOMAIN entries \ gone) \cup {g} |-> IF f = g THEN h ELSE entries[f]]
           open == [i \in DOMAIN handles \cup {h} |-> IF i = h THEN new ELSE handles[i]]
           holding == [held EXCEPT ![who] = h]
<1>2. entries' = cached /\ held' = holding /\ handles' = Kept(open, cached, holding)
    BY <1>1 DEF Insert
<1>3. new \in Handle /\ new.graph = g
    BY DEF NewHandle, Handle, Files, HandlesInv, CounterInv
<1> HIDE DEF new, gone
<1>4. DOMAIN open \subseteq 1..MaxHandles /\ open \in [DOMAIN open -> Handle]
    BY <1>3 DEF HandlesInv, OpenInv, HoldsOpen
<1>5. holding \in [Holders -> DOMAIN open \cup {NoHandle}]
    BY DEF HandlesInv, OpenInv, HoldsOpen
<1>6. DOMAIN cached \subseteq Graphs
    BY DEF HandlesInv, OpenInv, HoldsOpen
<1>7. \A f \in DOMAIN cached : cached[f] \in DOMAIN open /\ open[cached[f]].graph = f
    BY <1>3 DEF HandlesInv, OpenInv, HoldsOpen
<1>8. HoldsOpen(open, cached, holding)
    BY <1>4, <1>5, <1>6, <1>7 DEF HoldsOpen
<1> HIDE DEF open, cached, holding
<1> QED BY <1>2, <1>8, KeptHolds DEF OpenInv

\* The server starts with one handle.
LEMMA FirstHandleHolds ==
    ASSUME NEW new \in Handle, new.graph = Legacy
    PROVE  HoldsOpen([h \in {Original} |-> new], [g \in {Legacy} |-> Original], [w \in Holders |-> NoHandle])
<1>1. Original \in 1..MaxHandles
    BY HandlesAssumption DEF Original
<1> QED BY <1>1, HandlesAssumption DEF HoldsOpen

\* At the start nothing is open.
LEMMA HandlesInitInv == HandlesInit => HandlesInv
<1> SUFFICES ASSUME HandlesInit PROVE HandlesInv
    OBVIOUS
<1> USE HandlesAssumption DEF HandlesInit
<1>1. CounterInv
    BY DEF CounterInv, Files, IndexStates
<1>2. NoIdTaken
    BY FS_EmptySet DEF NoIdTaken
<1>3. NewHandle(Legacy, FALSE) \in Handle /\ NewHandle(Legacy, FALSE).graph = Legacy
    BY <1>1 DEF NewHandle, Handle, CounterInv, Files
<1>4. OpenInv
    BY <1>3, FirstHandleHolds DEF OpenInv
<1> QED BY <1>1, <1>2, <1>4 DEF HandlesInv

\* The ids a committed mutation takes are new, and as many as it says.
LEMMA IdsAreNew ==
    ASSUME NEW ids, NEW seq \in Nat, ids \subseteq 1..seq,
           NEW first \in Nat, seq <= first, NEW n \in 1..2
    PROVE  /\ ids \cup (first + 1 .. first + n) \subseteq 1..(first + n)
           /\ Cardinality(ids \cup (first + 1 .. first + n)) = Cardinality(ids) + n
<1> DEFINE more == first + 1 .. first + n
<1>1. IsFiniteSet(ids)
  <2>1. IsFiniteSet(1..seq)
    BY FS_Interval
  <2> QED BY <2>1, FS_Subset
<1>2. IsFiniteSet(more) /\ Cardinality(more) = n
    BY FS_Interval
<1>3. ids \cap more = {} /\ ids \cup more \subseteq 1..(first + n)
    OBVIOUS
<1>4. Cardinality(ids \cap more) = 0
    BY <1>3, FS_EmptySet
<1>5. Cardinality(ids) \in Nat
    BY <1>1, FS_CardinalityType
<1> HIDE DEF more
<1>6. Cardinality(ids \cup more) = Cardinality(ids) + n
  <2>1. Cardinality(ids \cup more) = Cardinality(ids) + Cardinality(more) - Cardinality(ids \cap more)
    BY <1>1, <1>2, FS_Union
  <2> QED BY <1>2, <1>4, <1>5, <2>1
<1> QED BY <1>3, <1>6 DEF more

\* A file changes; the others stay as they are.
LEMMA FileStep ==
    ASSUME CounterInv, NoIdTaken, NEW g \in Graphs, NEW f \in Files,
           f.ids \subseteq 1..f.seq, f.rows = Cardinality(f.ids),
           files' = [files EXCEPT ![g] = f]
    PROVE  CounterInv' /\ NoIdTaken'
<1>1. \A x \in Graphs : files'[x] = IF x = g THEN f ELSE files[x]
    BY DEF CounterInv
<1>2. files' \in [Graphs -> Files]
    BY DEF CounterInv
<1> QED BY <1>1, <1>2 DEF CounterInv, NoIdTaken

\* Moving an index takes no ids.
LEMMA IndexMoved ==
    ASSUME NEW f \in Files, NEW to \in IndexStates, NEW c \in BOOLEAN
    PROVE  LET g == [f EXCEPT !.index = to, !.complete = c]
           IN g \in Files /\ g.ids = f.ids /\ g.seq = f.seq /\ g.rows = f.rows
    BY DEF Files

\* reconcile_managed_snapshot leaves the ids of its file alone.
LEMMA ReconciledFile ==
    ASSUME HandlesInv, NEW h \in DOMAIN handles, NEW ready \in BOOLEAN
    PROVE  LET f == files[handles[h].graph]
               r == reconciled(h, ready)
           IN /\ r.file \in Files /\ r.file.ids = f.ids /\ r.file.seq = f.seq /\ r.file.rows = f.rows
              /\ [handles[h] EXCEPT !.loaded = r.loaded] \in Handle
<1> DEFINE f == files[handles[h].graph]
           to == IF f.index = "stale" \/ (f.index = "rebuilding" /\ ready) THEN "published" ELSE f.index
           c == f.complete \/ to = "published"
           l == CASE to = "published" -> TRUE [] to = "none" -> FALSE [] OTHER -> handles[h].loaded
           r == reconciled(h, ready)
<1>1. f \in Files /\ handles[h] \in Handle
    BY DEF HandlesInv, OpenInv, HoldsOpen, CounterInv, Handle
<1>2. f.index \in IndexStates /\ handles[h].loaded \in BOOLEAN
    BY <1>1 DEF Files, Handle
<1>3. to \in IndexStates
    BY <1>2, Zenon DEF IndexStates
<1>4. c \in BOOLEAN
    BY Zenon
<1>5. l \in BOOLEAN
    BY <1>2
<1>6. r = [file |-> [f EXCEPT !.index = to, !.complete = c], loaded |-> l]
    BY Zenon DEF reconciled
<1> HIDE DEF to, c, l, f, r
<1>7. r.file = [f EXCEPT !.index = to, !.complete = c] /\ r.loaded = l
    BY <1>6
<1>8. [handles[h] EXCEPT !.loaded = l] \in Handle
    BY <1>1, <1>5 DEF Handle
<1>9. r.file \in Files /\ r.file.ids = f.ids /\ r.file.seq = f.seq /\ r.file.rows = f.rows
  <2> DEFINE g == [f EXCEPT !.index = to, !.complete = c]
  <2>1. g \in Files /\ g.ids = f.ids /\ g.seq = f.seq /\ g.rows = f.rows
    BY <1>1, <1>3, <1>4, IndexMoved
  <2> QED BY <1>7, <2>1, Zenon
<1> QED BY <1>7, <1>8, <1>9 DEF f, r

\* A request opens a graph, or finds it open.
LEMMA GetInv ==
    ASSUME HandlesInv, NEW q \in Callers, NEW g \in Graphs, get(q, g)
    PROVE  HandlesInv'
<1>1. q \in Holders
    BY DEF Holders
<1>2. CounterInv' /\ NoIdTaken'
    BY DEF get, HandlesInv, CounterInv, NoIdTaken
<1>3. CASE Hit(g, q)
    BY <1>1, <1>2, <1>3, HitHolds DEF HandlesInv
<1>4. CASE Miss(g, q, files[g].index = "published")
  <2>1. (files[g].index = "published") \in BOOLEAN
    BY Zenon
  <2> QED BY <1>1, <1>2, <1>4, <2>1, MissHolds DEF HandlesInv
<1>5. CASE UNCHANGED <<entries, recency, handles, held>>
    BY <1>2, <1>5 DEF HandlesInv, OpenInv
<1> QED BY <1>3, <1>4, <1>5, Zenon DEF get

\* The indexer takes a graph by its path.
LEMMA GetByPathInv ==
    ASSUME HandlesInv, NEW g \in Graphs, get_by_registered_path(g)
    PROVE  HandlesInv'
<1>1. Indexer \in Holders
    BY DEF Holders
<1>2. CounterInv' /\ NoIdTaken'
    BY DEF get_by_registered_path, HandlesInv, CounterInv, NoIdTaken
<1> QED BY <1>1, <1>2, HitHolds, MissHolds DEF get_by_registered_path, HandlesInv

\* A handle that is let go closes only when nobody has it.
LEMMA ReleaseInv ==
    ASSUME HandlesInv, NEW q \in Callers, Release(q)
    PROVE  HandlesInv'
<1>1. CounterInv' /\ NoIdTaken'
    BY DEF Release, HandlesInv, CounterInv, NoIdTaken
<1>2. HoldsOpen(handles, entries, held')
    BY TakenHolds DEF Release, HandlesInv, OpenInv, Holders
<1>3. HoldsOpen(Kept(handles, entries, held'), entries, held')
    BY <1>2, KeptHolds
<1> QED BY <1>1, <1>3 DEF Release, HandlesInv, OpenInv

\* A mutation takes ids beyond the counter of its handle and that of the file.
LEMMA MutatesInv ==
    ASSUME HandlesInv, NEW q \in Callers, Mutates(q)
    PROVE  HandlesInv'
<1> DEFINE h == held[q]
           g == handles[h].graph
           f == files[g]
           first == refresh_seqs(h)
<1>1. PICK n \in 1..2, commits \in BOOLEAN :
        /\ first + n <= MaxId /\ f.rows + n <= MaxId
        /\ handles' = [handles EXCEPT ![h].seq = first + n]
        /\ files' = IF commits
                     THEN [files EXCEPT ![g] = [f EXCEPT !.seq = first + n,
                                                         !.ids = @ \cup (first + 1 .. first + n),
                                                         !.rows = @ + n]]
                     ELSE files
    BY Zenon DEF Mutates
<1>2. h \in DOMAIN handles
    BY DEF Mutates, HandlesInv, OpenInv, HoldsOpen, Holders
<1>3. handles[h] \in Handle /\ g \in Graphs
    BY <1>2 DEF HandlesInv, OpenInv, HoldsOpen, Handle
<1>4. f \in Files /\ f.ids \subseteq 1..f.seq /\ f.rows = Cardinality(f.ids)
    BY <1>3 DEF HandlesInv, CounterInv, NoIdTaken
<1>5. first \in Nat /\ f.seq <= first /\ f.seq \in Nat /\ f.rows \in Nat
    BY <1>3, <1>4 DEF refresh_seqs, Larger, Handle, Files
<1> DEFINE new == [handles[h] EXCEPT !.seq = first + n]
<1>6. handles' = [handles EXCEPT ![h] = new]
    BY <1>1
<1> HIDE DEF first
<1>7. new \in Handle /\ new.graph = g
    BY <1>1, <1>3, <1>5, HandlesAssumption DEF Handle
<1>8. OpenInv'
  <2>1. HoldsOpen([handles EXCEPT ![h] = new], entries, held)
    BY <1>2, <1>7, ChangedHandleHolds DEF HandlesInv, OpenInv
  <2> QED BY <1>6, <2>1 DEF Mutates, OpenInv
<1>9. CounterInv' /\ NoIdTaken'
  <2>1. CASE ~commits
    BY <1>1, <2>1 DEF HandlesInv, CounterInv, NoIdTaken
  <2>2. CASE commits
    <3> DEFINE ids == f.ids \cup (first + 1 .. first + n)
               to == [f EXCEPT !.seq = first + n, !.ids = @ \cup (first + 1 .. first + n), !.rows = @ + n]
    <3>1. ids \subseteq 1..(first + n) /\ Cardinality(ids) = f.rows + n
      <4> DEFINE old == f.ids
                 seq == f.seq
      <4>1. seq \in Nat /\ old \subseteq 1..seq /\ seq <= first
        BY <1>4, <1>5
      <4> HIDE DEF old, seq
      <4>2. /\ old \cup (first + 1 .. first + n) \subseteq 1..(first + n)
            /\ Cardinality(old \cup (first + 1 .. first + n)) = Cardinality(old) + n
        BY <1>5, <4>1, IdsAreNew
      <4> QED BY <1>4, <4>2 DEF old
    <3>2. to.seq = first + n /\ to.ids = ids /\ to.rows = f.rows + n
        BY <1>4 DEF Files
    <3>3. to \in Files
      <4>1. first + n \in 0..MaxId /\ f.rows + n \in 0..MaxId /\ ids \in SUBSET (1..MaxId)
        BY <1>1, <1>5, <3>1, HandlesAssumption
      <4> HIDE DEF ids
      <4>2. to = [f EXCEPT !.seq = first + n, !.ids = ids, !.rows = f.rows + n]
        BY DEF ids
      <4> QED BY <1>4, <4>1, <4>2 DEF Files
    <3>4. files' = [files EXCEPT ![g] = to]
        BY <1>1, <2>2
    <3> HIDE DEF to, ids
    <3> QED BY <1>3, <3>1, <3>2, <3>3, <3>4, FileStep DEF HandlesInv
  <2> QED BY <2>1, <2>2
<1> QED BY <1>8, <1>9 DEF HandlesInv

\* The indexer reconciles its graph and lets the handle go.
LEMMA RunIndexerInv ==
    ASSUME HandlesInv, NEW ready \in BOOLEAN, run_indexer_graph(ready)
    PROVE  HandlesInv'
<1> DEFINE h == held[Indexer]
           r == reconciled(h, ready)
           f == files[handles[h].graph]
           new == [handles[h] EXCEPT !.loaded = r.loaded]
<1>1. h \in DOMAIN handles /\ Indexer \in Holders
    BY DEF run_indexer_graph, HandlesInv, OpenInv, HoldsOpen, Holders
<1>2. r.file \in Files /\ r.file.ids = f.ids /\ r.file.seq = f.seq /\ r.file.rows = f.rows /\ new \in Handle
    BY <1>1, ReconciledFile
<1>3. handles[h] \in Handle /\ handles[h].graph \in Graphs
    BY <1>1 DEF HandlesInv, OpenInv, HoldsOpen, Handle
<1>4. HoldsOpen(handles, entries, held')
    BY <1>1, TakenHolds DEF run_indexer_graph, HandlesInv, OpenInv
<1>5. CASE files' = files /\ handles' = Kept(handles, entries, held')
  <2>1. OpenInv'
    BY <1>4, <1>5, KeptHolds DEF run_indexer_graph, OpenInv
  <2> QED BY <1>5, <2>1 DEF HandlesInv, CounterInv, NoIdTaken
<1>6. CASE /\ files' = [files EXCEPT ![handles[h].graph] = r.file]
           /\ handles' = Kept([handles EXCEPT ![h].loaded = r.loaded], entries, held')
  <2>1. [handles EXCEPT ![h].loaded = r.loaded] = [handles EXCEPT ![h] = new]
    OBVIOUS
  <2>2. new.graph = handles[h].graph
    BY <1>3 DEF Handle
  <2> HIDE DEF new
  <2>3. HoldsOpen([handles EXCEPT ![h] = new], entries, held')
    BY <1>1, <1>2, <1>4, <2>2, ChangedHandleHolds
  <2>4. OpenInv'
    BY <1>6, <2>1, <2>3, KeptHolds DEF run_indexer_graph, OpenInv
  <2>5. CounterInv' /\ NoIdTaken'
    <3>1. f.ids \subseteq 1..f.seq /\ f.rows = Cardinality(f.ids)
        BY <1>3 DEF HandlesInv, CounterInv, NoIdTaken
    <3> HIDE DEF r, f, h
    <3> QED BY <1>2, <1>3, <1>6, <3>1, FileStep DEF HandlesInv
  <2> QED BY <2>4, <2>5 DEF HandlesInv
<1> QED BY <1>5, <1>6, Zenon DEF run_indexer_graph

\* The refresh loop visits entries and hands out no id.
LEMMA RefreshInv ==
    ASSUME HandlesInv, NEW g \in Graphs, NEW ready \in BOOLEAN, refresh(g, ready)
    PROVE  HandlesInv'
<1> DEFINE h == entries[g]
           r == reconciled(h, ready)
           new == [handles[h] EXCEPT !.loaded = r.loaded]
<1>1. h \in DOMAIN handles /\ handles[h].graph = g
    BY DEF refresh, cached_vectors, HandlesInv, OpenInv, HoldsOpen
<1>2. r.file \in Files /\ r.file.ids = files[g].ids /\ r.file.seq = files[g].seq /\ r.file.rows = files[g].rows /\ new \in Handle
    BY <1>1, ReconciledFile
<1>3. handles' = [handles EXCEPT ![h] = new] /\ files' = [files EXCEPT ![g] = r.file]
    BY DEF refresh
<1>4. new.graph = handles[h].graph
    BY <1>1 DEF HandlesInv, OpenInv, HoldsOpen, Handle
<1> HIDE DEF new, r
<1>5. HoldsOpen([handles EXCEPT ![h] = new], entries, held)
    BY <1>1, <1>2, <1>4, ChangedHandleHolds DEF HandlesInv, OpenInv
<1>6. files[g].ids \subseteq 1..files[g].seq /\ files[g].rows = Cardinality(files[g].ids)
    BY DEF HandlesInv, CounterInv, NoIdTaken
<1>7. CounterInv' /\ NoIdTaken'
    BY <1>2, <1>3, <1>6, FileStep DEF HandlesInv
<1> QED BY <1>3, <1>5, <1>7 DEF refresh, HandlesInv, OpenInv

\* A new generation of the index changes no handle.
LEMMA IndexMovesInv ==
    ASSUME HandlesInv, NEW g \in Graphs, IndexMoves(g)
    PROVE  HandlesInv'
<1>1. PICK to \in IndexStates :
        files' = [files EXCEPT ![g] = [files[g] EXCEPT !.index = to, !.complete = @ \/ to = "published"]]
    BY Zenon DEF IndexMoves
<1> DEFINE c == files[g].complete \/ to = "published"
           f == [files[g] EXCEPT !.index = to, !.complete = c]
<1>2. c \in BOOLEAN
    BY Zenon
<1>3. files' = [files EXCEPT ![g] = f]
    BY <1>1, Zenon
<1>4. files[g] \in Files /\ files[g].ids \subseteq 1..files[g].seq /\ files[g].rows = Cardinality(files[g].ids)
    BY DEF HandlesInv, CounterInv, NoIdTaken
<1> HIDE DEF c
<1>5. f \in Files /\ f.ids = files[g].ids /\ f.seq = files[g].seq /\ f.rows = files[g].rows
    BY <1>2, <1>4, IndexMoved
<1> HIDE DEF f
<1>6. CounterInv' /\ NoIdTaken'
    BY <1>3, <1>4, <1>5, FileStep DEF HandlesInv
<1> QED BY <1>6 DEF IndexMoves, HandlesInv, OpenInv

\* A restart closes every handle; the file keeps its counters.
LEMMA HandlesRestartInv == HandlesInv /\ HandlesRestart => HandlesInv'
<1> SUFFICES ASSUME HandlesInv, HandlesRestart PROVE HandlesInv'
    OBVIOUS
<1> DEFINE new == NewHandle(Legacy, files[Legacy].index = "published")
<1>1. (files[Legacy].index = "published") \in BOOLEAN
    BY Zenon
<1>2. files[Legacy] \in Files
    BY HandlesAssumption DEF HandlesInv, CounterInv
<1>3. new \in Handle /\ new.graph = Legacy
  <2> DEFINE b == files[Legacy].index = "published"
  <2> HIDE DEF b
  <2>1. NewHandle(Legacy, b) \in Handle /\ NewHandle(Legacy, b).graph = Legacy
    BY <1>1, <1>2, HandlesAssumption DEF NewHandle, Handle, Files, b
  <2> QED BY <2>1 DEF b
<1>4. handles' = [h \in {Original} |-> new] /\ entries' = [g \in {Legacy} |-> Original] /\ held' = [w \in Holders |-> NoHandle]
    BY Zenon DEF HandlesRestart
<1> HIDE DEF new
<1>5. OpenInv'
    BY <1>3, <1>4, FirstHandleHolds DEF OpenInv
<1> QED BY <1>5 DEF HandlesRestart, HandlesInv, CounterInv, NoIdTaken

\* Every step keeps the counters ahead of the ids and the handles in order.
LEMMA HandlesStepInv == HandlesInv /\ [HandlesNext]_handleVars => HandlesInv'
<1>1. ASSUME HandlesInv, UNCHANGED handleVars PROVE HandlesInv'
    BY <1>1 DEF handleVars, HandlesInv, OpenInv, CounterInv, NoIdTaken
<1>2. ASSUME HandlesInv, HandlesNext PROVE HandlesInv'
    BY <1>2, GetInv, MutatesInv, ReleaseInv, GetByPathInv, IndexMovesInv, RunIndexerInv, RefreshInv,
       HandlesRestartInv DEF HandlesNext
<1> QED BY <1>1, <1>2

\* NoIdTaken for any number of workspaces, requests, open handles and ids, and
\* whatever the cache evicts: however many handles of a file write with counters
\* of their own, commit or roll back, no id is given to two rows (refresh_seqs,
\* sync_seqs).
THEOREM NoIdGivenTwice == HandlesSpec => []NoIdTaken
<1>1. HandlesInv => NoIdTaken
    BY DEF HandlesInv
<1> QED BY <1>1, HandlesInitInv, HandlesStepInv, PTL DEF HandlesSpec

-----------------------------------------------------------------------------
(* The code map: types *)

\* The steps of a job, as far as its slot is concerned.
LEMMA GoesType ==
    ASSUME CodeTypeOK, NEW j \in Jobs, job[j] # NoJob, NEW pc \in Working \cup {"registered", "begin"},
           Goes(j, pc)
    PROVE  /\ job' \in [Jobs -> Job \cup {NoJob}] /\ job'[j] # NoJob
           /\ job'[j].pc = pc /\ job'[j].kind = job[j].kind /\ job'[j].slot = job[j].slot
           /\ \A i \in Jobs : i # j => job'[i] = job[i]
<1>1. job[j] \in Job /\ job' = [job EXCEPT ![j] = [job[j] EXCEPT !.pc = pc]]
    BY DEF CodeTypeOK, Goes
<1> DEFINE new == [job[j] EXCEPT !.pc = pc]
<1>2. new \in Job /\ new.pc = pc /\ new.kind = job[j].kind /\ new.slot = job[j].slot
    BY <1>1 DEF Job
<1>3. new # NoJob
    BY <1>2 DEF NoJob, Job, ToolKinds, RepoKinds
<1> HIDE DEF new
<1>4. job' = [job EXCEPT ![j] = new]
    BY <1>1 DEF new
<1>5. job'[j] = new
    BY <1>4 DEF CodeTypeOK
<1> QED BY <1>2, <1>3, <1>4, <1>5 DEF CodeTypeOK

\* A job that ends leaves its row and its slot.
LEMMA EndsType ==
    ASSUME CodeTypeOK, NEW j \in Jobs, job[j] # NoJob, Ends(j)
    PROVE  /\ job' \in [Jobs -> Job \cup {NoJob}] /\ job'[j] = NoJob
           /\ \A i \in Jobs : i # j => job'[i] = job[i]
           /\ in_flight' \in BOOLEAN /\ (in_flight' <=> in_flight /\ ~job[j].slot)
<1>1. in_flight' \in BOOLEAN /\ (in_flight' <=> in_flight /\ ~job[j].slot)
    BY Zenon DEF Ends
<1> QED BY <1>1 DEF CodeTypeOK, Ends

\* A job that starts gets a row.
LEMMA StartsType ==
    ASSUME CodeTypeOK, NEW j \in Jobs, NEW kind \in ToolKinds \cup RepoKinds,
           NEW pc \in Working \cup {"registered", "begin"}, NEW slot \in BOOLEAN, Starts(j, kind, pc, slot)
    PROVE  /\ job' \in [Jobs -> Job \cup {NoJob}] /\ job'[j] # NoJob
           /\ job'[j].kind = kind /\ job'[j].pc = pc /\ job'[j].slot = slot
           /\ \A i \in Jobs : i # j => job'[i] = job[i]
<1> DEFINE new == [kind |-> kind, pc |-> pc, slot |-> slot, watcher |-> 0]
<1>1. new \in Job /\ new.pc = pc /\ new.kind = kind /\ new.slot = slot /\ new # NoJob
    BY CodeAssumption DEF Job, NoJob, ToolKinds, RepoKinds
<1>2. job' = [job EXCEPT ![j] = new]
    BY DEF Starts
<1> HIDE DEF new
<1>3. job'[j] = new
    BY <1>2 DEF CodeTypeOK
<1> QED BY <1>1, <1>2, <1>3 DEF CodeTypeOK

\* A function from 1..n is a sequence.
LEMMA FunctionIsSeq ==
    ASSUME NEW S, NEW n \in Nat, NEW g \in [1..n -> S]
    PROVE  g \in Seq(S) /\ Len(g) = n
    OBVIOUS

\* A sequence as a function.
LEMMA SeqIsFunction ==
    ASSUME NEW S, NEW q \in Seq(S)
    PROVE  q \in [1..Len(q) -> S] /\ Len(q) \in Nat /\ DOMAIN q = 1..Len(q)
    OBVIOUS

\* Every watcher gets the files that changed.
LEMMA ChangedType ==
    ASSUME CodeTypeOK, NEW d \in [SourceFiles -> 0..MaxVersion], Changed(d)
    PROVE  LET fs == {f \in SourceFiles : d[f] # disk[f]}
           IN /\ disk' = d /\ heard' \subseteq SourceFiles
              /\ watchers' \in Seq(Watcher) /\ Len(watchers') = Len(watchers)
              /\ \A w \in 1..Len(watchers) :
                   /\ watchers'[w].stop = watchers[w].stop /\ watchers'[w].lost = watchers[w].lost
                   /\ watchers'[w].pending = watchers[w].pending \cup fs
<1> DEFINE fs == {f \in SourceFiles : d[f] # disk[f]}
           n == Len(watchers)
           to(w) == [watchers[w] EXCEPT !.pending = @ \cup fs]
<1>1. n \in Nat /\ DOMAIN watchers = 1..n /\ watchers \in [1..n -> Watcher]
    BY SeqIsFunction DEF CodeTypeOK
<1>2. ASSUME NEW w \in 1..n
      PROVE  to(w) \in Watcher /\ to(w).stop = watchers[w].stop /\ to(w).lost = watchers[w].lost /\ to(w).pending = watchers[w].pending \cup fs
  <2>1. watchers[w] \in Watcher
    BY <1>1
  <2> HIDE DEF n
  <2> QED BY <2>1 DEF Watcher
<1>3. watchers' = [w \in 1..n |-> to(w)] /\ disk' = d
    BY <1>1 DEF Changed
<1> HIDE DEF to, n
<1>4. watchers' \in [1..n -> Watcher] /\ \A w \in 1..n : watchers'[w] = to(w)
    BY <1>2, <1>3
<1>5. watchers' \in Seq(Watcher) /\ Len(watchers') = n
    BY <1>1, <1>4, FunctionIsSeq
<1>6. heard' \subseteq SourceFiles
    BY DEF Changed, CodeTypeOK
<1> QED BY <1>2, <1>3, <1>4, <1>5, <1>6 DEF n

\* A work list is a function on some of the files.
LEMMA WorkList ==
    ASSUME NEW work
    PROVE  work \in WorkLists <=> /\ DOMAIN work \subseteq SourceFiles
                                  /\ work \in [DOMAIN work -> [version : Versions, existed : BOOLEAN]]
    BY DEF WorkLists

\* A pass starts with an empty work list.
LEMMA NoWork == <<>> \in WorkLists /\ DOMAIN <<>> = {}
<1>1. <<>> \in Seq([version : Versions, existed : BOOLEAN]) /\ Len(<<>>) = 0
    OBVIOUS
<1>2. DOMAIN <<>> = 1..0 /\ <<>> \in [1..0 -> [version : Versions, existed : BOOLEAN]]
    BY <1>1, SeqIsFunction
<1>3. 1..0 = {}
    OBVIOUS
<1> QED BY <1>2, <1>3, WorkList

\* A pass that begins.
LEMMA BeginsType ==
    ASSUME CodeTypeOK, NEW a \in Jobs \cup WatcherIds, NEW gone \in SUBSET SourceFiles,
           NEW fs \in SUBSET SourceFiles, NEW force \in BOOLEAN, NEW lost \in BOOLEAN,
           Begins(a, gone, fs, force, lost)
    PROVE  pass' \in [Jobs \cup WatcherIds -> Pass \cup {NoPass}]
<1> DEFINE new == [pc |-> "parse", gone |-> gone, todo |-> fs, force |-> force, work |-> <<>>, lost |-> lost]
<1>1. new \in Pass
    BY NoWork DEF Pass
<1>2. pass' = [pass EXCEPT ![a] = new]
    BY DEF Begins
<1> HIDE DEF new
<1> QED BY <1>1, <1>2 DEF CodeTypeOK

-----------------------------------------------------------------------------
(* The code map: what the writes of a pass do *)

SameFile(d, e, f) ==
    e.hash[f] = d.hash[f] /\ Of(f, e.symbols) = Of(f, d.symbols) /\ Of(f, e.defines) = Of(f, d.defines)

\* Purging a file whose rows are in order leaves nothing of it, and the other
\* files alone.
LEMMA PurgeFacts ==
    ASSUME NEW d \in CodeDb, NEW f \in SourceFiles
    PROVE  LET e == code_purge_file(d, f)
           IN /\ e \in CodeDb
              /\ \A g \in SourceFiles \ {f} : SameFile(d, e, g)
              /\ Ordered(d, f) => Ordered(e, f) /\ e.hash[f] = 0
<1> DEFINE e == code_purge_file(d, f)
           defined == {s \in d.defines : s[1] = f}
<1>1. CASE d.hash[f] = 0
  <2>1. e = d
    BY <1>1 DEF code_purge_file
  <2> QED BY <1>1, <2>1 DEF SameFile
<1>2. CASE d.hash[f] # 0
  <2>1. e = [hash |-> [d.hash EXCEPT ![f] = 0], symbols |-> d.symbols \ defined, defines |-> d.defines \ defined]
    BY <1>2 DEF code_purge_file
  <2>2. e.hash = [d.hash EXCEPT ![f] = 0] /\ e.symbols = d.symbols \ defined /\ e.defines = d.defines \ defined
    BY <2>1
  <2>3. 0 \in 0..MaxVersion
    BY CodeAssumption
  <2>4. e \in CodeDb
    BY <2>1, <2>3 DEF CodeDb
  <2>5. d.hash \in [SourceFiles -> 0..MaxVersion]
    BY DEF CodeDb
  <2> HIDE DEF e
  <2>6. ASSUME NEW g \in SourceFiles \ {f} PROVE SameFile(d, e, g)
    BY <2>2, <2>5 DEF SameFile, Of
  <2>7. ASSUME Ordered(d, f) PROVE Ordered(e, f) /\ e.hash[f] = 0
    <3>1. e.hash[f] = 0
        BY <2>2, <2>5
    <3>2. Of(f, d.symbols) = defined
        BY <2>7 DEF Ordered, Of
    <3>3. Of(f, e.symbols) = {} /\ Of(f, e.defines) = {}
        BY <2>2, <3>2 DEF Of
    <3> QED BY <3>1, <3>3 DEF Ordered, Only
  <2> QED BY <2>4, <2>6, <2>7 DEF e
<1> QED BY <1>1, <1>2

\* The entities of what was read are there, without relations yet.
Entered(d, f, v) == d.hash[f] = v /\ Of(f, d.symbols) = Only(f, v) /\ Of(f, d.defines) = {}

\* upsert_entities writes the files of the work list and no other.
LEMMA UpsertFacts ==
    ASSUME NEW d \in CodeDb, NEW work \in WorkLists
    PROVE  LET e == upsert_entities(d, work)
           IN /\ e \in CodeDb
              /\ \A f \in SourceFiles \ DOMAIN work : SameFile(d, e, f)
              /\ \A f \in DOMAIN work : Ordered(d, f) /\ d.hash[f] = 0 => Entered(e, f, work[f].version)
<1> DEFINE e == upsert_entities(d, work)
           hash == [f \in SourceFiles |-> IF f \in DOMAIN work /\ d.hash[f] = 0 THEN work[f].version ELSE d.hash[f]]
           symbols == d.symbols \cup {<<f, work[f].version>> : f \in DOMAIN work}
<1>1. DOMAIN work \subseteq SourceFiles /\ \A f \in DOMAIN work : work[f].version \in Versions
    BY WorkList
<1>2. d.hash \in [SourceFiles -> 0..MaxVersion] /\ d.symbols \subseteq SourceFiles \X Versions
    BY DEF CodeDb
<1>3. e = [d EXCEPT !.hash = hash, !.symbols = symbols]
    BY Zenon DEF upsert_entities
<1>4. hash \in [SourceFiles -> 0..MaxVersion]
    BY <1>1, <1>2, CodeAssumption DEF Versions
<1>5. symbols \in SUBSET (SourceFiles \X Versions)
    BY <1>1, <1>2
<1>6. \A f \in SourceFiles : hash[f] = IF f \in DOMAIN work /\ d.hash[f] = 0 THEN work[f].version ELSE d.hash[f]
    OBVIOUS
<1>7. \A f : Of(f, symbols) = Of(f, d.symbols) \cup (IF f \in DOMAIN work THEN {<<f, work[f].version>>} ELSE {})
    BY DEF Of
<1> HIDE DEF hash, symbols, e
<1>8. e \in CodeDb /\ e.hash = hash /\ e.symbols = symbols /\ e.defines = d.defines
    BY <1>3, <1>4, <1>5 DEF CodeDb
<1>9. ASSUME NEW f \in SourceFiles \ DOMAIN work PROVE SameFile(d, e, f)
    BY <1>6, <1>7, <1>8 DEF SameFile
<1>10. ASSUME NEW f \in DOMAIN work, Ordered(d, f), d.hash[f] = 0 PROVE Entered(e, f, work[f].version)
  <2>1. work[f].version # 0 /\ f \in SourceFiles
    BY <1>1, <1>10 DEF Versions
  <2> QED BY <1>6, <1>7, <1>8, <1>10, <2>1 DEF Ordered, Entered, Only
<1> QED BY <1>8, <1>9, <1>10 DEF e

\* With the relations the rows of what was read are in order.
LEMMA RelateFacts ==
    ASSUME NEW d \in CodeDb, NEW work \in WorkLists
    PROVE  LET e == create_relations(d, work)
           IN /\ e \in CodeDb
              /\ \A f \in SourceFiles \ DOMAIN work : SameFile(d, e, f)
              /\ \A f \in DOMAIN work :
                   Entered(d, f, work[f].version) => Ordered(e, f) /\ e.hash[f] = work[f].version
<1> DEFINE e == create_relations(d, work)
           both == {x \in DOMAIN work : d.hash[x] # 0 /\ <<x, work[x].version>> \in d.symbols}
           defines == d.defines \cup {<<f, work[f].version>> : f \in both}
<1>1. DOMAIN work \subseteq SourceFiles /\ \A f \in DOMAIN work : work[f].version \in Versions
    BY WorkList
<1>2. d.hash \in [SourceFiles -> 0..MaxVersion] /\ d.defines \subseteq SourceFiles \X Versions
    BY DEF CodeDb
<1>3. e = [d EXCEPT !.defines = defines]
    BY Zenon DEF create_relations
<1> HIDE DEF both
<1>4. defines \in SUBSET (SourceFiles \X Versions)
  <2>1. both \subseteq DOMAIN work
    BY DEF both
  <2> QED BY <1>1, <1>2, <2>1
<1>5. \A f : Of(f, defines) = Of(f, d.defines) \cup (IF f \in both THEN {<<f, work[f].version>>} ELSE {})
    BY DEF Of
<1> HIDE DEF defines, e
<1>6. e \in CodeDb /\ e.hash = d.hash /\ e.symbols = d.symbols /\ e.defines = defines
    BY <1>3, <1>4 DEF CodeDb
<1>7. ASSUME NEW f \in SourceFiles \ DOMAIN work PROVE SameFile(d, e, f)
    BY <1>5, <1>6 DEF SameFile, both
<1>8. ASSUME NEW f \in DOMAIN work, Entered(d, f, work[f].version)
      PROVE  Ordered(e, f) /\ e.hash[f] = work[f].version
  <2>1. work[f].version # 0
    BY <1>1, <1>8 DEF Versions
  <2>2. <<f, work[f].version>> \in d.symbols /\ f \in both
    BY <1>8, <2>1 DEF Entered, Only, Of, both
  <2> QED BY <1>5, <1>6, <1>8, <2>1, <2>2 DEF Ordered, Entered, Only
<1> QED BY <1>6, <1>7, <1>8 DEF e

-----------------------------------------------------------------------------
(* The code map: the steps of a pass *)

Runners == Jobs \cup WatcherIds

\* A runner that runs has a pass.
LEMMA IsPass ==
    ASSUME CodeTypeOK, NEW a \in Runners, pass[a].pc # "none"
    PROVE  pass[a] \in Pass
    BY DEF CodeTypeOK, Runners, NoPass

\* A pass becomes q.
LEMMA PassBecomes ==
    ASSUME CodeTypeOK, NEW a \in Runners, NEW q \in Pass, pass' = [pass EXCEPT ![a] = q]
    PROVE  /\ pass' \in [Runners -> Pass \cup {NoPass}] /\ pass'[a] = q /\ q # NoPass
           /\ \A b \in Runners : b # a => pass'[b] = pass[b]
<1>1. q # NoPass
    BY DEF Pass, NoPass
<1> QED BY <1>1 DEF CodeTypeOK, Runners

\* What a pass does to a file that is gone.
LEMMA PurgeGoneStep ==
    ASSUME CodeTypeOK, NEW a \in Runners, PurgeGone(a)
    PROVE  \E f \in pass[a].gone, q \in Pass :
             /\ pass' = [pass EXCEPT ![a] = q] /\ code' = IF pass[a].lost THEN code ELSE code_purge_file(code, f)
             /\ pass[a].pc = "parse" /\ q.pc = "parse" /\ q.gone = pass[a].gone \ {f}
             /\ q.todo = pass[a].todo /\ q.work = pass[a].work /\ q.lost = pass[a].lost
<1>1. PICK f \in pass[a].gone : Write(a, code_purge_file(code, f)) /\ pass' = [pass EXCEPT ![a].gone = @ \ {f}]
    BY DEF PurgeGone
<1> DEFINE q == [pass[a] EXCEPT !.gone = @ \ {f}]
<1>2. pass[a].pc = "parse" /\ pass[a] \in Pass
    BY IsPass DEF PurgeGone
<1>3. /\ q \in Pass /\ q.pc = "parse" /\ q.gone = pass[a].gone \ {f}
      /\ q.todo = pass[a].todo /\ q.work = pass[a].work /\ q.lost = pass[a].lost
    BY <1>2 DEF Pass
<1>4. pass' = [pass EXCEPT ![a] = q]
    BY <1>1
<1> HIDE DEF q
<1> QED BY <1>1, <1>2, <1>3, <1>4 DEF Write

\* What parse_one adds to the list for f.
Reads(f) == [version |-> disk[f], existed |-> code.hash[f] # 0]

\* What a pass reads of one file.
LEMMA ParseOneStep ==
    ASSUME CodeTypeOK, NEW a \in Runners, parse_one(a)
    PROVE  \E f \in pass[a].todo, q \in Pass :
             /\ pass' = [pass EXCEPT ![a] = q] /\ code' = code
             /\ pass[a].pc = "parse" /\ pass[a].gone = {} /\ q.pc = "parse" /\ q.gone = {}
             /\ q.todo = pass[a].todo \ {f} /\ q.lost = pass[a].lost
             /\ IF disk[f] = 0 \/ Unchanged(f, pass[a].force) THEN q.work = pass[a].work
                ELSE /\ DOMAIN q.work = DOMAIN pass[a].work \cup {f}
                     /\ q.work[f].version = disk[f] /\ (q.work[f].existed <=> code.hash[f] # 0)
                     /\ \A x \in DOMAIN pass[a].work : x # f => q.work[x] = pass[a].work[x]
<1> DEFINE new(f) == IF disk[f] = 0 \/ Unchanged(f, pass[a].force) THEN pass[a].work
                     ELSE Adds(pass[a].work, f, Reads(f))
<1>1. PICK f \in pass[a].todo : pass' = [pass EXCEPT ![a].todo = @ \ {f}, ![a].work = new(f)]
    BY Zenon DEF parse_one, Reads
<1>2. pass[a].pc = "parse" /\ pass[a].gone = {} /\ pass[a] \in Pass /\ code' = code
    BY IsPass DEF parse_one
<1>3. f \in SourceFiles /\ pass[a].work \in WorkLists
    BY <1>2 DEF Pass
<1>4. disk[f] \in 0..MaxVersion
    BY <1>3 DEF CodeTypeOK
<1>5. ASSUME disk[f] # 0 PROVE Reads(f) \in [version : Versions, existed : BOOLEAN]
  <2>1. (code.hash[f] # 0) \in BOOLEAN
    BY Zenon
  <2>2. disk[f] \in Versions
    BY <1>4, <1>5, CodeAssumption DEF Versions
  <2> QED BY <2>1, <2>2, Zenon DEF Reads
<1>6. Reads(f).version = disk[f] /\ (Reads(f).existed <=> code.hash[f] # 0)
    BY Zenon DEF Reads
<1> DEFINE work == new(f)
<1>7. /\ work \in WorkLists
      /\ IF disk[f] = 0 \/ Unchanged(f, pass[a].force) THEN work = pass[a].work
         ELSE /\ DOMAIN work = DOMAIN pass[a].work \cup {f}
              /\ work[f].version = disk[f] /\ (work[f].existed <=> code.hash[f] # 0)
              /\ \A x \in DOMAIN pass[a].work : x # f => work[x] = pass[a].work[x]
  <2>1. CASE disk[f] = 0 \/ Unchanged(f, pass[a].force)
    BY <1>3, <2>1
  <2>2. CASE ~(disk[f] = 0 \/ Unchanged(f, pass[a].force))
    <3> DEFINE r == Reads(f)
               old == pass[a].work
               both == Adds(old, f, r)
    <3>1. both = [x \in DOMAIN old \cup {f} |-> IF x = f THEN r ELSE old[x]]
        BY DEF Adds
    <3>2. work = both
        BY <2>2
    <3>3. r \in [version : Versions, existed : BOOLEAN]
        BY <1>5, <2>2
    <3> HIDE DEF r, both
    <3>4. DOMAIN old \subseteq SourceFiles /\ \A x \in DOMAIN old : old[x] \in [version : Versions, existed : BOOLEAN]
        BY <1>3, WorkList
    <3>5. both \in [DOMAIN both -> [version : Versions, existed : BOOLEAN]] /\ DOMAIN both = DOMAIN old \cup {f}
        BY <3>1, <3>3, <3>4
    <3>6. both \in WorkLists
        BY <1>3, <3>4, <3>5, WorkList
    <3>7. both[f] = r /\ \A x \in DOMAIN old : x # f => both[x] = old[x]
        BY <3>1
    <3> HIDE DEF work
    <3>8. both[f].version = disk[f] /\ (both[f].existed <=> code.hash[f] # 0)
        BY <1>6, <3>7, Zenon DEF r
    <3> QED BY <2>2, <3>2, <3>5, <3>6, <3>7, <3>8, Zenon
  <2> QED BY <2>1, <2>2
<1> DEFINE q == [pass[a] EXCEPT !.todo = @ \ {f}, !.work = work]
<1> HIDE DEF work
<1>8. q \in Pass /\ q.pc = "parse" /\ q.gone = {} /\ q.todo = pass[a].todo \ {f} /\ q.work = work /\ q.lost = pass[a].lost
    BY <1>2, <1>7 DEF Pass
<1>9. pass' = [pass EXCEPT ![a] = q]
  <2>1. pass' = [pass EXCEPT ![a].todo = @ \ {f}, ![a].work = work]
    BY <1>1 DEF work
  <2> QED BY <2>1 DEF CodeTypeOK, Runners
<1> HIDE DEF q
<1>10. IF disk[f] = 0 \/ Unchanged(f, pass[a].force) THEN q.work = pass[a].work
       ELSE /\ DOMAIN q.work = DOMAIN pass[a].work \cup {f}
            /\ q.work[f].version = disk[f] /\ (q.work[f].existed <=> code.hash[f] # 0)
            /\ \A x \in DOMAIN pass[a].work : x # f => q.work[x] = pass[a].work[x]
    BY <1>7, <1>8, Zenon
<1>11. f \in pass[a].todo /\ q \in Pass
    BY <1>8
<1> QED BY <1>2, <1>8, <1>9, <1>10, <1>11, Zenon

\* A pass that has read every file goes on to purge.
LEMMA ParsedStep ==
    ASSUME CodeTypeOK, NEW a \in Runners, Parsed(a)
    PROVE  \E q \in Pass :
             /\ pass' = [pass EXCEPT ![a] = q] /\ code' = code
             /\ pass[a].pc = "parse" /\ pass[a].gone = {} /\ pass[a].todo = {} /\ q.pc = "purge"
             /\ q.todo = {f \in DOMAIN pass[a].work : pass[a].work[f].existed}
             /\ q.work = pass[a].work /\ q.lost = pass[a].lost
<1> DEFINE todo == {f \in DOMAIN pass[a].work : pass[a].work[f].existed}
           q == [pass[a] EXCEPT !.pc = "purge", !.todo = todo]
<1>1. pass[a].pc = "parse" /\ pass[a].gone = {} /\ pass[a].todo = {} /\ pass[a] \in Pass /\ code' = code
    BY IsPass DEF Parsed
<1>2. todo \in SUBSET SourceFiles
  <2>1. pass[a].work \in WorkLists
    BY <1>1 DEF Pass
  <2> QED BY <2>1, WorkList
<1>3. pass' = [pass EXCEPT ![a].pc = "purge", ![a].todo = todo]
    BY Zenon DEF Parsed
<1> HIDE DEF todo
<1>4. pass' = [pass EXCEPT ![a] = q]
    BY <1>3 DEF CodeTypeOK, Runners
<1>5. q \in Pass /\ q.pc = "purge" /\ q.todo = todo /\ q.work = pass[a].work /\ q.lost = pass[a].lost
    BY <1>1, <1>2 DEF Pass
<1> HIDE DEF q
<1> QED BY <1>1, <1>4, <1>5 DEF todo

\* What a pass does to the old rows of a changed file.
LEMMA PurgeChangedStep ==
    ASSUME CodeTypeOK, NEW a \in Runners, PurgeChanged(a)
    PROVE  \E f \in pass[a].todo, q \in Pass :
             /\ pass' = [pass EXCEPT ![a] = q] /\ code' = IF pass[a].lost THEN code ELSE code_purge_file(code, f)
             /\ pass[a].pc = "purge" /\ q.pc = "purge" /\ q.todo = pass[a].todo \ {f}
             /\ q.work = pass[a].work /\ q.lost = pass[a].lost
<1>1. PICK f \in pass[a].todo : Write(a, code_purge_file(code, f)) /\ pass' = [pass EXCEPT ![a].todo = @ \ {f}]
    BY DEF PurgeChanged
<1> DEFINE q == [pass[a] EXCEPT !.todo = @ \ {f}]
<1>2. pass[a].pc = "purge" /\ pass[a] \in Pass
    BY IsPass DEF PurgeChanged
<1>3. q \in Pass /\ q.pc = "purge" /\ q.todo = pass[a].todo \ {f} /\ q.work = pass[a].work /\ q.lost = pass[a].lost
    BY <1>2 DEF Pass
<1>4. pass' = [pass EXCEPT ![a] = q]
    BY <1>1
<1> HIDE DEF q
<1> QED BY <1>1, <1>2, <1>3, <1>4 DEF Write

\* A pass that writes keeps its work list.
LEMMA WriteStep ==
    ASSUME CodeTypeOK, NEW a \in Runners, NEW pc \in {"relate", "done"}, pass[a].pc # "none",
           pass' = [pass EXCEPT ![a].pc = pc]
    PROVE  \E q \in Pass :
             /\ pass' = [pass EXCEPT ![a] = q] /\ q.pc = pc
             /\ q.work = pass[a].work /\ q.lost = pass[a].lost
<1> DEFINE q == [pass[a] EXCEPT !.pc = pc]
<1>1. pass[a] \in Pass
    BY IsPass
<1>2. q \in Pass /\ q.pc = pc /\ q.work = pass[a].work /\ q.lost = pass[a].lost
    BY <1>1 DEF Pass
<1> QED BY <1>2

\* The writes of a pass keep the types of the map.
LEMMA IndexPathsType ==
    ASSUME CodeTypeOK, NEW a \in Runners, index_paths(a)
    PROVE  CodeTypeOK'
<1>1. code' \in CodeDb /\ \E q \in Pass : pass' = [pass EXCEPT ![a] = q]
  <2>1. CASE PurgeGone(a)
    <3>1. PICK f \in pass[a].gone, q \in Pass :
            /\ pass' = [pass EXCEPT ![a] = q] /\ code' = IF pass[a].lost THEN code ELSE code_purge_file(code, f)
            /\ pass[a].pc = "parse"
        BY <2>1, PurgeGoneStep
    <3>2. f \in SourceFiles
        BY <3>1, IsPass DEF Pass
    <3> QED BY <3>1, <3>2, PurgeFacts DEF CodeTypeOK
  <2>2. CASE parse_one(a)
    BY <2>2, ParseOneStep DEF CodeTypeOK
  <2>3. CASE Parsed(a)
    BY <2>3, ParsedStep DEF CodeTypeOK
  <2>4. CASE PurgeChanged(a)
    <3>1. PICK f \in pass[a].todo, q \in Pass :
            /\ pass' = [pass EXCEPT ![a] = q] /\ code' = IF pass[a].lost THEN code ELSE code_purge_file(code, f)
            /\ pass[a].pc = "purge"
        BY <2>4, PurgeChangedStep
    <3>2. f \in SourceFiles
        BY <3>1, IsPass DEF Pass
    <3> QED BY <3>1, <3>2, PurgeFacts DEF CodeTypeOK
  <2>5. CASE WriteEntities(a)
    <3>1. pass[a].work \in WorkLists
        BY <2>5, IsPass DEF WriteEntities, Pass
    <3>2. code' \in CodeDb
        BY <2>5, <3>1, UpsertFacts DEF WriteEntities, Write, CodeTypeOK
    <3> QED BY <2>5, <3>2, WriteStep DEF WriteEntities
  <2>6. CASE WriteRelations(a)
    <3>1. pass[a].work \in WorkLists
        BY <2>6, IsPass DEF WriteRelations, Pass
    <3>2. code' \in CodeDb
        BY <2>6, <3>1, RelateFacts DEF WriteRelations, Write, CodeTypeOK
    <3> QED BY <2>6, <3>2, WriteStep DEF WriteRelations
  <2> QED BY <2>1, <2>2, <2>3, <2>4, <2>5, <2>6 DEF index_paths
<1>2. pass' \in [Runners -> Pass \cup {NoPass}]
    BY <1>1, PassBecomes
<1> QED BY <1>1, <1>2 DEF index_paths, CodeTypeOK, ghosts, Runners

\* A job that moves on.
LEMMA JobBecomes ==
    ASSUME CodeTypeOK, NEW j \in Jobs, NEW q \in Job, job' = [job EXCEPT ![j] = q]
    PROVE  /\ job' \in [Jobs -> Job \cup {NoJob}] /\ job'[j] = q /\ q # NoJob
           /\ \A i \in Jobs : i # j => job'[i] = job[i]
<1>1. q # NoJob
    BY DEF Job, NoJob, ToolKinds, RepoKinds
<1> QED BY <1>1 DEF CodeTypeOK

\* A watcher that moves on.
LEMMA WatcherBecomes ==
    ASSUME CodeTypeOK, NEW w \in 1..Len(watchers), NEW q \in Watcher, watchers' = [watchers EXCEPT ![w] = q]
    PROVE  /\ watchers' \in Seq(Watcher) /\ Len(watchers') = Len(watchers) /\ watchers'[w] = q
           /\ \A v \in 1..Len(watchers) : v # w => watchers'[v] = watchers[v]
<1> DEFINE n == Len(watchers)
<1>1. n \in Nat /\ watchers \in [1..n -> Watcher]
    BY SeqIsFunction DEF CodeTypeOK
<1> HIDE DEF n
<1>2. w \in 1..n
    BY DEF n
<1>3. watchers' \in [1..n -> Watcher] /\ watchers'[w] = q /\ \A v \in 1..n : v # w => watchers'[v] = watchers[v]
    BY <1>1, <1>2
<1>4. watchers' \in Seq(Watcher) /\ Len(watchers') = n
    BY <1>1, <1>3, FunctionIsSeq
<1> QED BY <1>3, <1>4 DEF n

\* The row of a watcher.
LEMMA WatcherType ==
    ASSUME CodeTypeOK, NEW w \in 1..Len(watchers)
    PROVE  watchers[w] \in Watcher
    BY SeqIsFunction DEF CodeTypeOK

\* A dropped project: its database is empty, its watchers and passes have lost it.
LEMMA ForgetType ==
    ASSUME CodeTypeOK, Forget
    PROVE  /\ code' = EmptyCode /\ code' \in CodeDb
           /\ watchers' \in Seq(Watcher) /\ Len(watchers') = Len(watchers)
           /\ \A w \in 1..Len(watchers) : watchers'[w].lost /\ watchers'[w].stop = watchers[w].stop
           /\ pass' \in [Runners -> Pass \cup {NoPass}]
           /\ \A a \in Runners : (pass'[a] = NoPass <=> pass[a] = NoPass) /\ (pass'[a] # NoPass => pass'[a].lost)
<1>1. code' = EmptyCode /\ code' \in CodeDb
    BY CodeAssumption DEF Forget, EmptyCode, NoFiles, CodeDb
<1> DEFINE n == Len(watchers)
           to(w) == [watchers[w] EXCEPT !.lost = TRUE]
<1>2. n \in Nat /\ DOMAIN watchers = 1..n /\ watchers \in [1..n -> Watcher]
    BY SeqIsFunction DEF CodeTypeOK
<1>3. watchers' = [w \in 1..n |-> to(w)]
    BY <1>2 DEF Forget
<1>4. ASSUME NEW w \in 1..n PROVE to(w) \in Watcher /\ to(w).lost /\ to(w).stop = watchers[w].stop
  <2>1. watchers[w] \in Watcher
    BY <1>2
  <2> QED BY <2>1 DEF Watcher
<1> HIDE DEF to, n
<1>5. watchers' \in [1..n -> Watcher] /\ \A w \in 1..n : watchers'[w] = to(w)
    BY <1>3, <1>4
<1>6. watchers' \in Seq(Watcher) /\ Len(watchers') = n
    BY <1>2, <1>5, FunctionIsSeq
<1> DEFINE cut(a) == IF pass[a] = NoPass THEN NoPass ELSE [pass[a] EXCEPT !.lost = TRUE]
<1>7. pass' = [a \in Runners |-> cut(a)]
    BY DEF Forget, CodeTypeOK, Runners
<1>8. ASSUME NEW a \in Runners
      PROVE  cut(a) \in Pass \cup {NoPass} /\ (cut(a) = NoPass <=> pass[a] = NoPass) /\ (cut(a) # NoPass => cut(a).lost)
  <2>1. CASE pass[a] = NoPass
    BY <2>1
  <2>2. CASE pass[a] # NoPass
    <3>1. pass[a] \in Pass
        BY <2>2 DEF CodeTypeOK, Runners
    <3>2. cut(a) \in Pass /\ cut(a).lost
        BY <2>2, <3>1 DEF Pass
    <3>3. cut(a) # NoPass
        BY <3>2 DEF Pass, NoPass
    <3> QED BY <2>2, <3>2, <3>3
  <2> QED BY <2>1, <2>2
<1> HIDE DEF cut
<1>9. pass' \in [Runners -> Pass \cup {NoPass}] /\ \A a \in Runners : pass'[a] = cut(a)
    BY <1>7, <1>8
<1> QED BY <1>1, <1>4, <1>5, <1>6, <1>8, <1>9 DEF n

\* A new watcher takes the registry over.
LEMMA SpawnType ==
    ASSUME CodeTypeOK, spawn_watcher, Len(watchers) < MaxWatchers
    PROVE  /\ watchers' \in Seq(Watcher) /\ Len(watchers') <= MaxWatchers
           /\ registered' \in 0..Len(watchers') /\ heard' = {}
<1> DEFINE new == [stop |-> FALSE, pending |-> {}, lost |-> FALSE]
<1>1. new \in Watcher
    BY DEF Watcher
<1>2. watchers' = Append(watchers, new) /\ registered' = Len(watchers) + 1 /\ heard' = {}
    BY DEF spawn_watcher
<1> HIDE DEF new
<1>3. watchers' \in Seq(Watcher) /\ Len(watchers') = Len(watchers) + 1 /\ Len(watchers) \in Nat
    BY <1>1, <1>2 DEF CodeTypeOK
<1> QED BY <1>2, <1>3, CodeAssumption

\* A pull puts some content in place.
LEMMA PulledChanges ==
    ASSUME CodeTypeOK, Pulled
    PROVE  \E d \in [SourceFiles -> 0..MaxVersion] : Changed(d)
<1>1. ASSUME NEW v \in Versions PROVE [f \in SourceFiles |-> v] \in [SourceFiles -> 0..MaxVersion]
    BY CodeAssumption DEF Versions
<1>2. [f \in SourceFiles |-> IF disk[f] = 0 THEN 1 ELSE disk[f]] \in [SourceFiles -> 0..MaxVersion]
    BY CodeAssumption DEF CodeTypeOK
<1> QED BY <1>1, <1>2 DEF Pulled

\* No files at all is a worktree.
LEMMA NoFilesType == NoFiles \in [SourceFiles -> 0..MaxVersion]
    BY CodeAssumption DEF NoFiles

\* The types in groups: what jobs change, what watchers hear, what passes write.
JobTypes == job \in [Jobs -> Job \cup {NoJob}] /\ in_flight \in BOOLEAN
EarTypes ==
    /\ disk \in [SourceFiles -> 0..MaxVersion] /\ heard \subseteq SourceFiles
    /\ watchers \in Seq(Watcher) /\ Len(watchers) <= MaxWatchers /\ registered \in 0..Len(watchers)
MapTypes == code \in CodeDb /\ pass \in [Runners -> Pass \cup {NoPass}]

\* The type invariant in the three groups that actions change.
LEMMA TypeGroups ==
    /\ CodeTypeOK <=> JobTypes /\ EarTypes /\ MapTypes
    /\ CodeTypeOK' <=> JobTypes' /\ EarTypes' /\ MapTypes'
    BY DEF CodeTypeOK, JobTypes, EarTypes, MapTypes, Runners

\* A change on disk is heard or not; both have their types.
LEMMA ChangedEars ==
    ASSUME CodeTypeOK, NEW d \in [SourceFiles -> 0..MaxVersion], Changed(d), UNCHANGED registered
    PROVE  EarTypes'
    BY ChangedType DEF CodeTypeOK, EarTypes

\* Nothing is heard.
LEMMA EarsRest ==
    ASSUME CodeTypeOK, UNCHANGED <<disk, heard, watchers, registered>>
    PROVE  EarTypes'
    BY DEF CodeTypeOK, EarTypes

\* The map rests.
LEMMA MapRests ==
    ASSUME CodeTypeOK, UNCHANGED <<code, pass>>
    PROVE  MapTypes'
    BY DEF CodeTypeOK, MapTypes, Runners

\* The jobs rest.
LEMMA JobsRest ==
    ASSUME CodeTypeOK, UNCHANGED <<job, in_flight>>
    PROVE  JobTypes'
    BY DEF CodeTypeOK, JobTypes

\* A pass that ends.
LEMMA PassEndsType ==
    ASSUME CodeTypeOK, NEW a \in Runners, pass' = [pass EXCEPT ![a] = NoPass]
    PROVE  pass' \in [Runners -> Pass \cup {NoPass}]
    BY DEF CodeTypeOK, Runners

\* A job or call ends or goes on.
LEMMA GoesOrEnds ==
    ASSUME CodeTypeOK, NEW j \in Jobs, job[j] # NoJob, NEW pc \in Working \cup {"registered", "begin"},
           (Goes(j, pc) /\ UNCHANGED in_flight) \/ Ends(j)
    PROVE  JobTypes'
    BY GoesType, EndsType DEF JobTypes, CodeTypeOK

\* A pass that begins.
LEMMA IndexBeginsType ==
    ASSUME CodeTypeOK, NEW j \in Jobs, NEW force \in BOOLEAN, IndexBegins(j, force), UNCHANGED code
    PROVE  MapTypes'
<1> DEFINE fs == {f \in SourceFiles : disk[f] # 0}
<1>1. Begins(j, {}, fs, force, FALSE) /\ fs \in SUBSET SourceFiles
    BY DEF IndexBegins
<1> HIDE DEF fs
<1>2. pass' \in [Jobs \cup WatcherIds -> Pass \cup {NoPass}]
    BY <1>1, BeginsType
<1> QED BY <1>2 DEF MapTypes, CodeTypeOK, Runners

\* An edit on disk keeps the types.
LEMMA EditType ==
    ASSUME CodeTypeOK, Edit PROVE CodeTypeOK'
<1>1. PICK f \in SourceFiles, v \in 0..MaxVersion : Changed([disk EXCEPT ![f] = v])
    BY DEF Edit
<1>2. [disk EXCEPT ![f] = v] \in [SourceFiles -> 0..MaxVersion]
    BY DEF CodeTypeOK
<1>3. EarTypes'
    BY <1>1, <1>2, ChangedEars DEF Edit
<1> QED BY <1>3, MapRests, JobsRest, TypeGroups DEF Edit

\* A restart keeps the types.
LEMMA RestartType ==
    ASSUME CodeTypeOK, CodeRestart PROVE CodeTypeOK'
<1>1. EmptyCode \in CodeDb
    BY CodeAssumption DEF EmptyCode, NoFiles, CodeDb
<1>2. JobTypes'
    BY DEF CodeRestart, JobTypes
<1>3. <<>> \in Seq(Watcher) /\ Len(<<>>) = 0
    OBVIOUS
<1>4. EarTypes'
    BY <1>3, CodeAssumption DEF CodeRestart, CodeTypeOK, EarTypes
<1>5. MapTypes'
    BY <1>1 DEF CodeRestart, CodeTypeOK, MapTypes, Runners
<1> QED BY <1>2, <1>4, <1>5, TypeGroups

\* code_index and code_watch keep the types.
LEMMA ToolsType ==
    ASSUME CodeTypeOK, NEW j \in Jobs, handle_code_index(j) \/ handle_code_watch(j)
    PROVE  CodeTypeOK'
<1>1. PICK force \in BOOLEAN : IndexBegins(j, force)
    BY DEF handle_code_index, handle_code_watch
<1>2. MapTypes'
    BY <1>1, IndexBeginsType DEF handle_code_index, handle_code_watch
<1>3. PICK kind \in ToolKinds : Starts(j, kind, "pass", FALSE)
    BY DEF handle_code_index, handle_code_watch, ToolKinds
<1>4. job' \in [Jobs -> Job \cup {NoJob}]
    BY <1>3, StartsType DEF Working
<1>5. UNCHANGED in_flight /\ UNCHANGED <<disk, heard, watchers, registered>>
    BY DEF handle_code_index, handle_code_watch
<1>6. JobTypes'
    BY <1>4, <1>5 DEF JobTypes, CodeTypeOK
<1> QED BY <1>2, <1>5, <1>6, EarsRest, TypeGroups

\* The end of a tool call keeps the types.
LEMMA ToolEndsType ==
    ASSUME CodeTypeOK, NEW j \in Jobs, ToolEnds(j)
    PROVE  CodeTypeOK'
<1>1. MapTypes'
    BY PassEndsType DEF ToolEnds, MapTypes, CodeTypeOK, Runners
<1>2. job[j] # NoJob
    BY DEF ToolEnds, NoJob
<1>3. JobTypes'
    BY <1>2, EndsType DEF ToolEnds, JobTypes
<1>4. EarTypes'
  <2>1. CASE spawn_watcher /\ Len(watchers) < MaxWatchers
    BY <2>1, SpawnType DEF ToolEnds, EarTypes, CodeTypeOK
  <2>2. CASE UNCHANGED <<watchers, registered, heard, kg>>
    BY <2>2, EarsRest DEF ToolEnds
  <2> QED BY <2>1, <2>2 DEF ToolEnds
<1> QED BY <1>1, <1>3, <1>4, TypeGroups

\* A call on a repository keeps the types.
LEMMA RepoCallType ==
    ASSUME CodeTypeOK, NEW j \in Jobs, RepoCall(j)
    PROVE  CodeTypeOK'
<1>1. UNCHANGED <<disk, heard, watchers, registered>> /\ UNCHANGED <<code, pass>>
    BY DEF RepoCall, register, reindex, remove, Schedule
<1>2. PICK kind \in RepoKinds, pc \in {"registered", "begin"}, slot \in BOOLEAN :
        Starts(j, kind, pc, slot) /\ (in_flight' = in_flight \/ in_flight' = TRUE)
    BY DEF RepoCall, register, reindex, remove, Schedule, try_begin_job, RepoKinds
<1>3. JobTypes'
  <2>1. job' \in [Jobs -> Job \cup {NoJob}]
    BY <1>2, StartsType
  <2>2. in_flight' \in BOOLEAN
    BY <1>2, Zenon DEF CodeTypeOK
  <2> QED BY <2>1, <2>2 DEF JobTypes
<1> QED BY <1>1, <1>3, EarsRest, MapRests, TypeGroups

\* A job takes the in-flight slot.
LEMMA TakesSlot ==
    ASSUME CodeTypeOK, NEW j \in Jobs, job[j] # NoJob, job' = [job EXCEPT ![j].pc = "begin", ![j].slot = TRUE]
    PROVE  /\ job' \in [Jobs -> Job \cup {NoJob}] /\ job'[j] # NoJob
           /\ job'[j].pc = "begin" /\ job'[j].slot /\ job'[j].kind = job[j].kind
           /\ \A i \in Jobs : i # j => job'[i] = job[i]
<1> DEFINE q == [job[j] EXCEPT !.pc = "begin", !.slot = TRUE]
<1>1. job[j] \in Job
    BY DEF CodeTypeOK
<1>2. q \in Job /\ q.pc = "begin" /\ q.slot /\ q.kind = job[j].kind
    BY <1>1 DEF Job
<1>3. job' = [job EXCEPT ![j] = q]
    BY DEF CodeTypeOK
<1> HIDE DEF q
<1> QED BY <1>2, <1>3, JobBecomes

\* The steps of a job before it works on the worktree.
LEMMA BeginningType ==
    ASSUME CodeTypeOK, NEW j \in Jobs, add_job(j) \/ add(j) \/ Opens(j)
    PROVE  CodeTypeOK'
<1>1. UNCHANGED <<disk, heard, watchers, registered>> /\ UNCHANGED <<code, pass>> /\ job[j] # NoJob
    BY DEF add_job, add, Opens, At, ghosts
<1>2. JobTypes'
  <2>1. CASE add_job(j)
    BY <1>1, <2>1, TakesSlot, EndsType DEF add_job, try_begin_job, JobTypes
  <2>2. CASE add(j)
    BY <1>1, <2>2, GoesOrEnds DEF add
  <2>3. CASE Opens(j)
    <3>1. \/ \E pc \in {"stop", "fetch"} : Goes(j, pc) /\ UNCHANGED in_flight
          \/ Ends(j)
        BY <2>3 DEF Opens, JobFails
    <3> QED BY <1>1, <3>1, GoesOrEnds DEF Working
  <2> QED BY <2>1, <2>2, <2>3
<1> QED BY <1>1, <1>2, EarsRest, MapRests, TypeGroups

\* The steps that clone, pull and index.
LEMMA FetchingType ==
    ASSUME CodeTypeOK, NEW j \in Jobs, do_update(j) \/ do_clone(j) \/ Cloned(j) \/ do_index(j) \/ Indexed(j)
    PROVE  CodeTypeOK'
<1>1. job[j] # NoJob
    BY DEF do_update, do_clone, Cloned, do_index, Indexed, At, RepoJobs
<1>2. JobTypes'
  <2>1. \/ \E pc \in Working : Goes(j, pc) /\ UNCHANGED in_flight
        \/ Ends(j)
    BY DEF do_update, do_clone, Cloned, do_index, Indexed, JobFails, Working
  <2> QED BY <1>1, <2>1, GoesOrEnds
<1>3. EarTypes'
  <2>1. \/ Pulled \/ Changed(NoFiles)
        \/ UNCHANGED <<disk, heard, watchers>>
    BY DEF do_update, do_clone, Cloned, do_index, Indexed, ghosts
  <2>2. UNCHANGED registered
    BY DEF do_update, do_clone, Cloned, do_index, Indexed
  <2> QED BY <2>1, <2>2, PulledChanges, NoFilesType, ChangedEars, EarsRest
<1>4. MapTypes'
  <2>1. CASE do_index(j)
    BY <2>1, IndexBeginsType, MapRests DEF do_index
  <2>2. CASE Indexed(j)
    BY <2>2, PassEndsType DEF Indexed, MapTypes, CodeTypeOK, Runners
  <2>3. CASE do_update(j) \/ do_clone(j) \/ Cloned(j)
    BY <2>3, MapRests DEF do_update, do_clone, Cloned
  <2> QED BY <2>1, <2>2, <2>3
<1> QED BY <1>2, <1>3, <1>4, TypeGroups

\* Stopping a watcher keeps the types.
LEMMA StopType ==
    ASSUME CodeTypeOK, NEW j \in Jobs, stop_watcher(j)
    PROVE  CodeTypeOK'
<1>1. job[j] \in Job /\ UNCHANGED <<code, pass, disk, heard, in_flight>> /\ registered' = 0
    BY DEF stop_watcher, At, ghosts, CodeTypeOK
<1>2. CASE registered = 0
  <2>1. Goes(j, "drop") /\ UNCHANGED watchers
    BY <1>2 DEF stop_watcher
  <2>2. JobTypes'
    BY <1>1, <2>1, GoesOrEnds DEF stop_watcher, At, Working
  <2>3. EarTypes'
    BY <1>1, <1>2, <2>1, EarsRest
  <2> QED BY <1>1, <2>2, <2>3, MapRests, TypeGroups
<1>3. CASE registered # 0
  <2>1. registered \in 1..Len(watchers) /\ registered \in 0..MaxWatchers /\ Len(watchers) \in Nat
    BY <1>3, CodeAssumption DEF CodeTypeOK
  <2> DEFINE q == [job[j] EXCEPT !.pc = "join", !.watcher = registered]
             v == [watchers[registered] EXCEPT !.stop = TRUE]
  <2>2. q \in Job
    BY <1>1, <2>1 DEF Job, Working
  <2>3. job' = [job EXCEPT ![j] = q]
    BY <1>3 DEF stop_watcher, CodeTypeOK
  <2>4. v \in Watcher
    BY <2>1, WatcherType DEF Watcher
  <2>5. watchers' = [watchers EXCEPT ![registered] = v]
    BY <1>3 DEF stop_watcher
  <2> HIDE DEF q, v
  <2>6. JobTypes'
    BY <1>1, <2>2, <2>3, JobBecomes DEF JobTypes, CodeTypeOK
  <2>7. watchers' \in Seq(Watcher) /\ Len(watchers') = Len(watchers)
    BY <2>1, <2>4, <2>5, WatcherBecomes
  <2>8. EarTypes'
    BY <1>1, <2>1, <2>7 DEF EarTypes, CodeTypeOK
  <2> QED BY <1>1, <2>6, <2>8, MapRests, TypeGroups
<1> QED BY <1>2, <1>3

\* The steps of a removal keep the types.
LEMMA RemovingType ==
    ASSUME CodeTypeOK, NEW j \in Jobs,
           Join(j) \/ drop_project(j) \/ Unlink(j) \/ RemoveTree(j) \/ DeleteRow(j)
    PROVE  CodeTypeOK'
<1>1. job[j] # NoJob /\ UNCHANGED registered
    BY DEF Join, drop_project, Unlink, RemoveTree, DeleteRow, At
<1>2. JobTypes'
  <2>1. \/ \E pc \in Working : Goes(j, pc) /\ UNCHANGED in_flight
        \/ Ends(j)
    BY DEF Join, drop_project, Unlink, RemoveTree, DeleteRow, JobFails, Working
  <2> QED BY <1>1, <2>1, GoesOrEnds
<1>3. CASE Forget /\ UNCHANGED <<disk, heard>>
    BY <1>1, <1>2, <1>3, ForgetType, TypeGroups DEF EarTypes, MapTypes, CodeTypeOK
<1>4. CASE UNCHANGED <<code, pass, watchers, disk, heard>>
    BY <1>1, <1>2, <1>4, EarsRest, MapRests, TypeGroups
<1>5. CASE Changed(NoFiles) /\ UNCHANGED <<code, pass>>
    BY <1>1, <1>2, <1>5, NoFilesType, ChangedEars, MapRests, TypeGroups
<1> QED BY <1>3, <1>4, <1>5 DEF Join, drop_project, Unlink, RemoveTree, DeleteRow, ghosts

\* The steps of a watcher keep the types.
LEMMA WatcherStepType ==
    ASSUME CodeTypeOK, NEW w \in WatcherIds, WatcherStep(w)
    PROVE  CodeTypeOK'
<1>1. w \in Runners /\ w \in 1..Len(watchers)
    BY SeqIsFunction DEF Runners, WatcherStep, CodeTypeOK
<1>2. CASE Debounced(w)
  <2> DEFINE gone == {f \in watchers[w].pending : disk[f] = 0}
             fs == watchers[w].pending \ gone
             q == [watchers[w] EXCEPT !.pending = {}]
  <2>1. watchers[w] \in Watcher
    BY <1>1, WatcherType
  <2>2. gone \in SUBSET SourceFiles /\ fs \in SUBSET SourceFiles /\ watchers[w].lost \in BOOLEAN
    BY <2>1 DEF Watcher
  <2>3. Begins(w, gone, fs, FALSE, watchers[w].lost) /\ watchers' = [watchers EXCEPT ![w] = q]
    BY <1>2 DEF Debounced
  <2>4. q \in Watcher
    BY <2>1 DEF Watcher
  <2> HIDE DEF gone, fs, q
  <2>5. pass' \in [Jobs \cup WatcherIds -> Pass \cup {NoPass}]
    BY <2>2, <2>3, BeginsType
  <2>6. MapTypes'
    BY <1>2, <2>5 DEF MapTypes, Debounced, CodeTypeOK, Runners
  <2>7. watchers' \in Seq(Watcher) /\ Len(watchers') = Len(watchers)
    BY <1>1, <2>3, <2>4, WatcherBecomes
  <2>8. EarTypes'
    BY <1>2, <2>7 DEF EarTypes, Debounced, CodeTypeOK
  <2> QED BY <1>2, <2>6, <2>8, JobsRest, TypeGroups DEF Debounced
<1>3. CASE index_paths(w)
    BY <1>1, <1>3, IndexPathsType
<1>4. CASE BatchEnds(w)
  <2>1. MapTypes'
    BY <1>1, <1>4, PassEndsType DEF BatchEnds, MapTypes, CodeTypeOK
  <2> QED BY <1>4, <2>1, EarsRest, JobsRest, TypeGroups DEF BatchEnds, ghosts
<1> QED BY <1>2, <1>3, <1>4 DEF WatcherStep

\* Every step keeps the types.
LEMMA CodeTypeStep == CodeTypeOK /\ [CodeNext]_codeVars => CodeTypeOK'
<1>1. ASSUME CodeTypeOK, UNCHANGED codeVars PROVE CodeTypeOK'
    BY <1>1, EarsRest, MapRests, JobsRest, TypeGroups DEF codeVars
<1>2. ASSUME CodeTypeOK, Outside PROVE CodeTypeOK'
    BY <1>2, EditType, RestartType, ToolsType, RepoCallType DEF Outside
<1>3. ASSUME CodeTypeOK, NEW j \in Jobs, JobStep(j) PROVE CodeTypeOK'
  <2>1. j \in Runners
    BY DEF Runners
  <2> QED BY <1>3, <2>1, IndexPathsType, ToolEndsType, BeginningType, FetchingType, StopType, RemovingType
        DEF JobStep, remove_inner, wipe_inner
<1> QED BY <1>1, <1>2, <1>3, WatcherStepType DEF CodeNext

\* The types hold at the start.
LEMMA CodeTypeInit == CodeInit => CodeTypeOK
<1> SUFFICES ASSUME CodeInit PROVE CodeTypeOK
    OBVIOUS
<1>1. EmptyCode \in CodeDb
    BY CodeAssumption DEF EmptyCode, NoFiles, CodeDb
<1>2. <<>> \in Seq(Watcher) /\ Len(<<>>) = 0
    OBVIOUS
<1>3. EarTypes
    BY <1>2, CodeAssumption DEF CodeInit, EarTypes
<1>4. JobTypes /\ MapTypes
    BY <1>1 DEF CodeInit, JobTypes, MapTypes, Runners
<1> QED BY <1>3, <1>4, TypeGroups

-----------------------------------------------------------------------------
(* The code map: the in-flight slot and the row *)

RepoInv == CodeTypeOK /\ JobsInv /\ RowInv

\* A job goes on with the slot it has, or has not.
LEMMA SlotGoes ==
    ASSUME CodeTypeOK, JobsInv, NEW j \in Jobs, job[j] # NoJob, job[j].pc # "pass",
           job[j].pc # "registered" \/ job[j].kind = "add",
           job'[j] # NoJob, job'[j].kind = job[j].kind, job'[j].slot = job[j].slot,
           \A i \in Jobs : i # j => job'[i] = job[i], UNCHANGED in_flight
    PROVE  JobsInv'
<1>1. job[j] \in Job /\ job[j].kind \in RepoKinds
    BY DEF CodeTypeOK, Job, JobsInv
<1>2. job[j].kind \notin ToolKinds
    BY <1>1 DEF RepoKinds, ToolKinds
<1> QED BY <1>1, <1>2 DEF JobsInv

\* A job that ends frees the slot it has.
LEMMA SlotFreed ==
    ASSUME CodeTypeOK, JobsInv, NEW j \in Jobs, job[j] # NoJob, Ends(j)
    PROVE  JobsInv'
    BY EndsType DEF JobsInv

\* A job that begins with the slot found it free.
LEMMA SlotTaken ==
    ASSUME CodeTypeOK, JobsInv, NEW j \in Jobs, ~in_flight, in_flight',
           job'[j] # NoJob, job'[j].slot, job'[j].kind \in RepoKinds,
           \A i \in Jobs : i # j => job'[i] = job[i]
    PROVE  JobsInv'
<1>1. job'[j].kind \notin ToolKinds
    BY DEF RepoKinds, ToolKinds
<1> QED BY <1>1 DEF JobsInv

\* A job without the slot does not disturb the one that has it.
LEMMA NoSlot ==
    ASSUME CodeTypeOK, JobsInv, NEW j \in Jobs, job'[j] # NoJob, job'[j].slot = FALSE, UNCHANGED in_flight,
           job'[j].kind \in ToolKinds => job'[j].pc = "pass",
           job'[j].kind \in RepoKinds => job'[j].pc = "registered",
           \A i \in Jobs : i # j => job'[i] = job[i]
    PROVE  JobsInv'
    BY DEF JobsInv

\* A job past its registration is the only one that is, so what it does to the
\* row and the worktree concerns no other.
LEMMA RowStep ==
    ASSUME CodeTypeOK, JobsInv, RowInv, UNCHANGED <<managed, loose>>,
           NEW j \in RepoJobs, job[j].pc # "registered",
           \A i \in Jobs : i # j => job'[i] = job[i],
           \/ job'[j] = NoJob
           \/ /\ job'[j].kind = job[j].kind
              /\ job'[j].pc \in Working \ {"pass", "index"} => repo' # "none"
              /\ job'[j].pc = "delete" => tree' = "none",
           managed /\ ~loose => (repo' = "none" => tree' = "none")
    PROVE  RowInv'
<1> SUFFICES ASSUME managed, ~loose
             PROVE  /\ \A i, k \in RepoJobs' : job'[i].kind = "add" => i = k
                    /\ \A i \in RepoJobs' : /\ job'[i].pc \in Working \ {"pass", "index"} => repo' # "none"
                                            /\ job'[i].pc = "delete" => tree' = "none"
                    /\ repo' = "none" => tree' = "none"
    BY DEF RowInv
<1>1. ASSUME NEW i \in RepoJobs', i # j
      PROVE  i \in RepoJobs /\ job'[i] = job[i] /\ job[i].kind # "add" /\ job[i].pc = "registered"
  <2>1. i \in RepoJobs /\ job'[i] = job[i]
    BY <1>1 DEF RepoJobs
  <2>2. job[i].kind # "add" /\ job[j].kind # "add"
    BY <1>1, <2>1 DEF RowInv
  <2>3. job[i] \in Job /\ job[j] \in Job /\ i \in Jobs /\ j \in Jobs /\ job[i] # NoJob /\ job[j] # NoJob
    BY <2>1 DEF RepoJobs, CodeTypeOK
  <2>4. job[i].kind \in RepoKinds /\ job[j].kind \in RepoKinds
    BY <2>1, <2>3 DEF RepoJobs, Job, ToolKinds
  <2>5. job[j].slot
    BY <2>2, <2>3, <2>4 DEF JobsInv
  <2>6. ~job[i].slot
    BY <1>1, <2>3, <2>5 DEF JobsInv
  <2> QED BY <2>1, <2>2, <2>3, <2>4, <2>6 DEF JobsInv
<1>2. ASSUME j \in RepoJobs' PROVE job'[j].kind = job[j].kind /\ job'[j] # NoJob
    BY <1>2 DEF RepoJobs
<1>3. \A i, k \in RepoJobs' : job'[i].kind = "add" => i = k
  <2> SUFFICES ASSUME NEW i \in RepoJobs', NEW k \in RepoJobs', job'[i].kind = "add", i # k PROVE FALSE
    OBVIOUS
  <2>1. i = j /\ k \in RepoJobs
    BY <1>1
  <2>2. job[j].kind = "add"
    BY <1>2, <2>1
  <2> QED BY <2>1, <2>2 DEF RowInv
<1>4. ASSUME NEW i \in RepoJobs'
      PROVE  /\ job'[i].pc \in Working \ {"pass", "index"} => repo' # "none"
             /\ job'[i].pc = "delete" => tree' = "none"
  <2>1. CASE i = j
    BY <1>2, <2>1
  <2>2. CASE i # j
    BY <1>1, <2>2 DEF Working
  <2> QED BY <2>1, <2>2
<1> QED BY <1>3, <1>4

\* Calls of tools are no jobs of the repository.
LEMMA RowRests ==
    ASSUME RowInv, UNCHANGED <<managed, loose, repo, tree>>,
           \A j \in Jobs : \/ job'[j] = job[j] \/ job'[j] = NoJob
                           \/ job'[j].kind \in ToolKinds
                           \/ job[j] # NoJob /\ job[j].kind \in RepoKinds /\ job'[j].kind = job[j].kind /\ job'[j].pc = "begin"
    PROVE  RowInv'
<1>1. ASSUME NEW j \in RepoJobs'
      PROVE  /\ j \in RepoJobs /\ job'[j].kind = job[j].kind
             /\ job'[j] = job[j] \/ job'[j].pc = "begin"
    BY <1>1 DEF RepoJobs, ToolKinds, RepoKinds
<1>2. managed /\ ~loose => \A i, j \in RepoJobs' : job'[i].kind = "add" => i = j
    BY <1>1 DEF RowInv
<1>3. managed /\ ~loose => \A j \in RepoJobs' : /\ job'[j].pc \in Working \ {"pass", "index"} => repo # "none"
                                                /\ job'[j].pc = "delete" => tree = "none"
    BY <1>1 DEF RowInv, Working
<1> QED BY <1>2, <1>3 DEF RowInv

\* A new job: Meets tells when it or another is an add and not alone.
LEMMA RowJoined ==
    ASSUME CodeTypeOK, RowInv, NEW j \in Jobs, job[j] = NoJob, NEW kind \in RepoKinds, Meets(kind),
           job'[j].kind = kind, job'[j].pc \in {"registered", "begin"},
           \A i \in Jobs : i # j => job'[i] = job[i], UNCHANGED <<managed, tree>>,
           repo' = "none" => repo = "none"
    PROVE  RowInv'
<1> SUFFICES ASSUME managed, ~loose'
             PROVE  /\ \A i, k \in RepoJobs' : job'[i].kind = "add" => i = k
                    /\ \A i \in RepoJobs' : /\ job'[i].pc \in Working \ {"pass", "index"} => repo' # "none"
                                            /\ job'[i].pc = "delete" => tree' = "none"
                    /\ repo' = "none" => tree' = "none"
    BY DEF RowInv
<1>1. ~loose /\ (RepoJobs # {} => kind # "add" /\ \A i \in RepoJobs : job[i].kind # "add")
    BY Zenon DEF Meets
<1>2. ASSUME NEW i \in RepoJobs', i # j PROVE i \in RepoJobs /\ job'[i] = job[i]
    BY <1>2 DEF RepoJobs
<1>3. \A i, k \in RepoJobs' : job'[i].kind = "add" => i = k
    BY <1>1, <1>2
<1>4. ASSUME NEW i \in RepoJobs'
      PROVE  /\ job'[i].pc \in Working \ {"pass", "index"} => repo' # "none"
             /\ job'[i].pc = "delete" => tree' = "none"
  <2>1. CASE i = j
    BY <2>1 DEF Working
  <2>2. CASE i # j
    BY <1>1, <1>2, <2>2 DEF RowInv
  <2> QED BY <2>1, <2>2
<1> QED BY <1>1, <1>3, <1>4 DEF RowInv

\* A call on a repository checks the slot and the row.
LEMMA RepoCallInv ==
    ASSUME RepoInv, NEW j \in Jobs, RepoCall(j)
    PROVE  JobsInv' /\ RowInv'
<1>1. CodeTypeOK /\ JobsInv /\ RowInv /\ job[j] = NoJob
    BY DEF RepoInv, RepoCall, register, reindex, remove, Schedule, Idle
<1>2. CASE register(j)
  <2>1. PICK kind \in {"add", "add_job"} : Starts(j, kind, "registered", FALSE) /\ Meets(kind)
    BY <1>2 DEF register
  <2>2. kind \in RepoKinds /\ kind \in ToolKinds \cup RepoKinds
    BY DEF RepoKinds
  <2>3. /\ job'[j] # NoJob /\ job'[j].kind = kind /\ job'[j].pc = "registered" /\ job'[j].slot = FALSE
        /\ \A i \in Jobs : i # j => job'[i] = job[i]
    <3>1. Starts(j, kind, "registered", FALSE) /\ "registered" \in Working \cup {"registered", "begin"} /\ FALSE \in BOOLEAN
        BY <2>1
    <3> QED BY <1>1, <2>2, <3>1, StartsType, Zenon
  <2>4. UNCHANGED <<managed, tree, in_flight>> /\ repo' = "pending"
    BY <1>2 DEF register
  <2>5. JobsInv'
    <3>1. job'[j].kind \notin ToolKinds
        BY <2>3 DEF ToolKinds
    <3> QED BY <1>1, <2>3, <2>4, <3>1, NoSlot
  <2>6. RowInv'
    BY <1>1, <2>1, <2>2, <2>3, <2>4, RowJoined
  <2> QED BY <2>5, <2>6
<1>3. CASE reindex(j) \/ remove(j)
  <2>1. PICK kind \in {"reindex", "remove"}, state \in {"indexing", "removing"} : Schedule(j, kind, state)
    BY <1>3 DEF reindex, remove
  <2>2. kind \in RepoKinds /\ kind \in ToolKinds \cup RepoKinds
    BY DEF RepoKinds
  <2>3. /\ job'[j] # NoJob /\ job'[j].kind = kind /\ job'[j].pc = "begin" /\ job'[j].slot
        /\ \A i \in Jobs : i # j => job'[i] = job[i]
    <3>1. Starts(j, kind, "begin", TRUE)
        BY <2>1 DEF Schedule
    <3> QED BY <1>1, <2>2, <3>1, StartsType
  <2>4. UNCHANGED <<managed, tree>> /\ ~in_flight /\ in_flight' /\ Meets(kind) /\ (repo' = "none" => repo = "none")
    BY <2>1 DEF Schedule, try_begin_job, set_state
  <2>5. JobsInv'
    BY <1>1, <2>2, <2>3, <2>4, SlotTaken
  <2>6. RowInv'
    BY <1>1, <2>2, <2>3, <2>4, RowJoined
  <2> QED BY <2>5, <2>6
<1> QED BY <1>2, <1>3 DEF RepoCall

\* The tools do not touch rows or slots.
LEMMA ToolsInv ==
    ASSUME RepoInv, NEW j \in Jobs, handle_code_index(j) \/ handle_code_watch(j) \/ ToolEnds(j)
    PROVE  JobsInv' /\ RowInv'
<1>1. CodeTypeOK /\ JobsInv /\ RowInv /\ UNCHANGED <<managed, loose, repo, tree>>
    BY DEF RepoInv, handle_code_index, handle_code_watch, ToolEnds
<1>2. CASE handle_code_index(j) \/ handle_code_watch(j)
  <2>1. PICK kind \in ToolKinds : Starts(j, kind, "pass", FALSE) /\ UNCHANGED in_flight
    BY <1>2 DEF handle_code_index, handle_code_watch, ToolKinds
  <2>2. /\ job'[j] # NoJob /\ job'[j].kind = kind /\ job'[j].pc = "pass" /\ job'[j].slot = FALSE
        /\ \A i \in Jobs : i # j => job'[i] = job[i]
    <3>1. kind \in ToolKinds \cup RepoKinds /\ "pass" \in Working \cup {"registered", "begin"}
        BY DEF Working
    <3> QED BY <1>1, <2>1, <3>1, StartsType
  <2>3. JobsInv'
    <3>1. job'[j].kind \notin RepoKinds
        BY <2>2 DEF ToolKinds, RepoKinds
    <3>2. UNCHANGED in_flight
        BY <2>1
    <3> QED BY <1>1, <2>2, <3>1, <3>2, NoSlot, Zenon
  <2>4. RowInv'
    BY <1>1, <2>1, <2>2, RowRests
  <2> QED BY <2>3, <2>4
<1>3. CASE ToolEnds(j)
  <2>1. job[j] # NoJob /\ Ends(j)
    BY <1>3 DEF ToolEnds, NoJob
  <2> QED BY <1>1, <2>1, SlotFreed, EndsType, RowRests
<1> QED BY <1>2, <1>3

\* A job of the repository that is At one of its steps.
LEMMA AtWork ==
    ASSUME CodeTypeOK, JobsInv, NEW j \in Jobs, job[j] # NoJob, job[j].pc # "pass"
    PROVE  j \in RepoJobs /\ job[j].kind \in RepoKinds
    BY DEF CodeTypeOK, JobsInv, RepoJobs, Job, ToolKinds, RepoKinds

\* A job that begins takes the slot and sets its row.
LEMMA BeginningInv ==
    ASSUME RepoInv, NEW j \in Jobs, add_job(j) \/ add(j) \/ Opens(j)
    PROVE  JobsInv' /\ RowInv'
<1>1. CodeTypeOK /\ JobsInv /\ RowInv /\ job[j] # NoJob /\ job[j].pc \in {"registered", "begin"} /\ UNCHANGED <<managed, loose, tree>>
    BY DEF RepoInv, add_job, add, Opens, At, ghosts
<1>2. j \in RepoJobs /\ job[j].kind \in RepoKinds
    BY <1>1, AtWork
<1>3. CASE add_job(j)
  <2>1. UNCHANGED repo
    BY <1>3 DEF add_job
  <2>2. CASE try_begin_job /\ job' = [job EXCEPT ![j].pc = "begin", ![j].slot = TRUE]
    <3>1. /\ job'[j] # NoJob /\ job'[j].pc = "begin" /\ job'[j].slot /\ job'[j].kind = job[j].kind
          /\ \A i \in Jobs : i # j => job'[i] = job[i]
        BY <1>1, <2>2, TakesSlot
    <3>2. ~in_flight /\ in_flight'
        BY <2>2 DEF try_begin_job
    <3>3. JobsInv'
        BY <1>1, <1>2, <3>1, <3>2, SlotTaken
    <3>4. RowInv'
        BY <1>1, <1>2, <2>1, <3>1, RowRests
    <3> QED BY <3>3, <3>4
  <2>3. CASE Ends(j)
    BY <1>1, <2>1, <2>3, SlotFreed, EndsType, RowRests
  <2> QED BY <1>3, <2>2, <2>3 DEF add_job
<1>4. CASE add(j)
  <2>1. UNCHANGED <<repo, in_flight>> /\ Goes(j, "begin") /\ job[j].kind = "add"
    BY <1>4 DEF add
  <2>2. /\ job'[j] # NoJob /\ job'[j].pc = "begin" /\ job'[j].slot = job[j].slot /\ job'[j].kind = job[j].kind
        /\ \A i \in Jobs : i # j => job'[i] = job[i]
    BY <1>1, <2>1, GoesType
  <2> QED BY <1>1, <1>2, <2>1, <2>2, SlotGoes, RowRests
<1>5. CASE Opens(j)
  <2>1. job[j].pc = "begin"
    BY <1>5 DEF Opens, At
  <2>2. CASE Ends(j)
    <3>1. repo' = "none" => repo = "none"
        BY <1>5 DEF Opens, JobFails, set_state
    <3>2. job'[j] = NoJob /\ \A i \in Jobs : i # j => job'[i] = job[i]
        BY <1>1, <2>2, EndsType
    <3>3. managed /\ ~loose => (repo' = "none" => tree' = "none")
        BY <1>1, <3>1 DEF RowInv
    <3> QED BY <1>1, <1>2, <2>1, <2>2, <3>2, <3>3, SlotFreed, RowStep
  <2>3. CASE ~Ends(j)
    <3>1. /\ repo' # "none" /\ UNCHANGED in_flight
          /\ \E pc \in {"stop", "fetch"} : Goes(j, pc)
        BY <1>5, <2>3 DEF Opens, JobFails
    <3>2. /\ job'[j] # NoJob /\ job'[j].pc \in {"stop", "fetch"} /\ job'[j].slot = job[j].slot /\ job'[j].kind = job[j].kind
          /\ \A i \in Jobs : i # j => job'[i] = job[i]
        BY <1>1, <3>1, GoesType DEF Working
    <3>3. JobsInv'
        BY <1>1, <2>1, <3>1, <3>2, SlotGoes
    <3>4. RowInv'
        BY <1>1, <1>2, <2>1, <3>1, <3>2, RowStep
    <3> QED BY <3>3, <3>4
  <2> QED BY <2>2, <2>3
<1> QED BY <1>3, <1>4, <1>5

\* A job at work goes on, or fails and leaves the row as it is or in error.
LEMMA WorkGoes ==
    ASSUME RepoInv, NEW j \in Jobs, job[j] # NoJob, job[j].pc \notin {"registered", "pass"},
           NEW pc \in Working, Goes(j, pc), UNCHANGED <<managed, loose, in_flight>>,
           managed /\ ~loose => /\ repo' # "none" \/ pc \in {"pass", "index"}
                                /\ pc = "delete" => tree' = "none"
                                /\ repo' = "none" => tree' = "none"
    PROVE  JobsInv' /\ RowInv'
<1>1. CodeTypeOK /\ JobsInv /\ RowInv
    BY DEF RepoInv
<1>2. /\ job'[j] # NoJob /\ job'[j].pc = pc /\ job'[j].slot = job[j].slot /\ job'[j].kind = job[j].kind
      /\ \A i \in Jobs : i # j => job'[i] = job[i]
    BY <1>1, GoesType
<1>3. JobsInv'
    BY <1>1, <1>2, SlotGoes
<1>4. RowInv'
  <2>1. CASE managed /\ ~loose
    <3>1. j \in RepoJobs
        BY <1>1, AtWork
    <3> QED BY <1>1, <1>2, <2>1, <3>1, RowStep
  <2>2. CASE ~(managed /\ ~loose)
    BY <2>2 DEF RowInv
  <2> QED BY <2>1, <2>2
<1> QED BY <1>3, <1>4

\* A job that ends leaves no worktree without its row.
LEMMA WorkEnds ==
    ASSUME RepoInv, NEW j \in RepoJobs, job[j].pc # "registered", Ends(j), UNCHANGED <<managed, loose>>,
           managed /\ ~loose => (repo' = "none" => tree' = "none")
    PROVE  JobsInv' /\ RowInv'
<1>1. CodeTypeOK /\ JobsInv /\ RowInv /\ j \in Jobs /\ job[j] # NoJob
    BY DEF RepoInv, RepoJobs
<1>2. job'[j] = NoJob /\ \A i \in Jobs : i # j => job'[i] = job[i]
    BY <1>1, EndsType
<1> QED BY <1>1, <1>2, SlotFreed, RowStep

\* Cloning, updating and indexing keep the row of their worktree.
LEMMA FetchingInv ==
    ASSUME RepoInv, NEW j \in Jobs, do_update(j) \/ do_clone(j) \/ Cloned(j) \/ do_index(j) \/ Indexed(j)
    PROVE  JobsInv' /\ RowInv'
<1>1. CodeTypeOK /\ JobsInv /\ RowInv /\ UNCHANGED <<managed, loose>>
    BY DEF RepoInv, do_update, do_clone, Cloned, do_index, Indexed, ghosts
<1>2. CASE Indexed(j)
  <2>1. j \in RepoJobs /\ Ends(j) /\ UNCHANGED tree /\ (repo' = "none" => repo = "none") /\ job[j] # NoJob
    BY <1>2 DEF Indexed, set_state, RepoJobs
  <2>2. CASE job[j].pc # "registered"
    BY <1>1, <2>1, <2>2, WorkEnds DEF RowInv
  <2>3. CASE job[j].pc = "registered"
    <3>1. CASE repo' = repo
      <4>1. job'[j] = NoJob /\ \A i \in Jobs : i # j => job'[i] = job[i]
        BY <1>1, <2>1, EndsType
      <4> QED BY <1>1, <2>1, <3>1, <4>1, SlotFreed, RowRests
    <3>2. CASE repo' # repo
      <4>1. repo # "none" /\ repo' # "none"
        BY <1>2, <3>2 DEF Indexed, set_state
      <4>2. job'[j] = NoJob /\ \A i \in Jobs : i # j => job'[i] = job[i]
        BY <1>1, <2>1, EndsType
      <4>3. \A i \in RepoJobs' : i \in RepoJobs /\ job'[i] = job[i]
        BY <4>2 DEF RepoJobs
      <4>4. RowInv'
        BY <1>1, <2>1, <4>1, <4>3 DEF RowInv
      <4> QED BY <1>1, <2>1, <4>4, SlotFreed
    <3> QED BY <3>1, <3>2
  <2> QED BY <2>2, <2>3
<1>3. CASE ~Indexed(j)
  <2>1. job[j] # NoJob /\ job[j].pc \in {"fetch", "clone", "index"}
    BY <1>3 DEF do_update, do_clone, Cloned, do_index, At
  <2>2. j \in RepoJobs
    BY <1>1, <2>1, AtWork
  <2>3. managed /\ ~loose => (repo = "none" => tree = "none") /\ (job[j].pc # "index" => repo # "none")
    BY <1>1, <2>1, <2>2 DEF RowInv, Working
  <2>4. CASE Ends(j)
    <3>1. repo' = "none" => repo = "none"
        BY <1>3, <2>4 DEF do_update, do_clone, Cloned, do_index, JobFails, set_state, Goes, Ends
    <3>2. UNCHANGED tree \/ job[j].pc # "index"
        BY <1>3 DEF do_update, do_clone, Cloned, do_index, At
    <3> QED BY <1>1, <2>1, <2>2, <2>3, <2>4, <3>1, <3>2, WorkEnds
  <2>5. CASE ~Ends(j)
    <3>1. UNCHANGED in_flight /\ (repo' = "none" => repo = "none")
        BY <1>3, <2>5 DEF do_update, do_clone, Cloned, do_index, JobFails, set_state
    <3>2. PICK pc \in {"index", "clone", "pass"} : Goes(j, pc) /\ (pc = "pass" => UNCHANGED tree) /\ (pc # "pass" => job[j].pc # "index")
        BY <1>3, <2>5 DEF do_update, do_clone, Cloned, do_index, JobFails, At
    <3>3. pc \in Working /\ pc # "delete"
        BY DEF Working
    <3> QED BY <1>1, <2>1, <2>3, <3>1, <3>2, <3>3, WorkGoes
  <2> QED BY <2>4, <2>5
<1> QED BY <1>2, <1>3

\* A removal stops the watcher first.
LEMMA StopInv ==
    ASSUME RepoInv, NEW j \in Jobs, stop_watcher(j)
    PROVE  JobsInv' /\ RowInv'
<1>1. CodeTypeOK /\ JobsInv /\ RowInv /\ UNCHANGED <<managed, loose, repo, tree, in_flight>> /\ job[j] # NoJob /\ job[j].pc = "stop"
    BY DEF RepoInv, stop_watcher, ghosts, At
<1>2. j \in RepoJobs
    BY <1>1, AtWork
<1>3. managed /\ ~loose => repo # "none"
    BY <1>1, <1>2 DEF RowInv, Working
<1>4. CASE registered = 0
  <2>1. Goes(j, "drop") /\ "drop" \in Working
    BY <1>4 DEF stop_watcher, Working
  <2> QED BY <1>1, <1>3, <2>1, WorkGoes
<1>5. CASE registered # 0
  <2> DEFINE q == [job[j] EXCEPT !.pc = "join", !.watcher = registered]
  <2>1. job[j] \in Job /\ registered \in 0..MaxWatchers
    BY <1>1, <1>5, CodeAssumption DEF CodeTypeOK
  <2>2. q \in Job /\ q.pc = "join" /\ q.kind = job[j].kind /\ q.slot = job[j].slot
    BY <2>1 DEF Job, Working
  <2>3. job' = [job EXCEPT ![j] = q]
    BY <1>1, <1>5 DEF stop_watcher, CodeTypeOK
  <2> HIDE DEF q
  <2>4. job'[j] = q /\ job'[j] # NoJob /\ \A i \in Jobs : i # j => job'[i] = job[i]
    BY <1>1, <2>2, <2>3, JobBecomes
  <2>5. JobsInv'
    BY <1>1, <2>2, <2>4, SlotGoes
  <2>6. RowInv'
    <3>1. CASE managed /\ ~loose
        BY <1>1, <1>2, <1>3, <2>2, <2>4, <3>1, RowStep
    <3>2. CASE ~(managed /\ ~loose)
        BY <1>1, <3>2 DEF RowInv
    <3> QED BY <3>1, <3>2
  <2> QED BY <2>5, <2>6
<1> QED BY <1>4, <1>5

\* A removal drops the worktree before the row.
LEMMA RemovingInv ==
    ASSUME RepoInv, NEW j \in Jobs,
           Join(j) \/ drop_project(j) \/ Unlink(j) \/ RemoveTree(j) \/ DeleteRow(j)
    PROVE  JobsInv' /\ RowInv'
<1>1. CodeTypeOK /\ JobsInv /\ RowInv /\ UNCHANGED <<managed, loose>>
    BY DEF RepoInv, Join, drop_project, Unlink, RemoveTree, DeleteRow, ghosts
<1>2. job[j] # NoJob /\ job[j].pc \in {"join", "drop", "unlink", "rmtree", "delete"}
    BY DEF Join, drop_project, Unlink, RemoveTree, DeleteRow, At
<1>3. j \in RepoJobs
    BY <1>1, <1>2, AtWork
<1>4. managed /\ ~loose => repo # "none" /\ (job[j].pc = "delete" => tree = "none")
    BY <1>1, <1>2, <1>3 DEF RowInv, Working
<1>5. CASE DeleteRow(j)
    BY <1>1, <1>2, <1>3, <1>4, <1>5, WorkEnds DEF DeleteRow, At
<1>6. CASE JobFails(j) /\ ~DeleteRow(j)
  <2>1. managed /\ ~loose => repo' # "none"
    BY <1>4, <1>6 DEF JobFails, set_state
  <2> QED BY <1>1, <1>2, <1>3, <1>6, <2>1, WorkEnds DEF JobFails
<1>7. CASE ~JobFails(j) /\ ~DeleteRow(j)
  <2>1. UNCHANGED <<repo, in_flight>>
    BY <1>7 DEF Join, drop_project, Unlink, RemoveTree
  <2>2. PICK pc \in Working : Goes(j, pc) /\ (pc = "delete" => tree' = "none")
    BY <1>7 DEF Join, drop_project, Unlink, RemoveTree, Working
  <2> QED BY <1>1, <1>2, <1>4, <2>1, <2>2, WorkGoes
<1> QED BY <1>5, <1>6, <1>7

\* Steps that leave rows, worktree and jobs alone.
LEMMA CodeJobsRest ==
    ASSUME RepoInv, UNCHANGED <<managed, tree, repo, in_flight, job, loose>>
    PROVE  JobsInv' /\ RowInv'
    BY DEF RepoInv, JobsInv, RowInv, RepoJobs

\* A restart forgets the jobs and the slot.
LEMMA CodeRestartJobs ==
    ASSUME RepoInv, CodeRestart
    PROVE  JobsInv' /\ RowInv'
<1>1. \A j \in Jobs : job'[j] = NoJob
    BY DEF CodeRestart
<1>2. JobsInv' /\ RepoJobs' = {}
    BY <1>1 DEF JobsInv, RepoJobs
<1>3. UNCHANGED <<managed, loose, tree>> /\ (repo' = "none" => repo = "none")
    BY DEF CodeRestart
<1>4. RowInv'
    BY <1>2, <1>3 DEF RepoInv, RowInv
<1> QED BY <1>2, <1>4

\* Every step keeps slot and row.
LEMMA RepoInvStep == RepoInv /\ [CodeNext]_codeVars => RepoInv'
<1> SUFFICES ASSUME RepoInv, [CodeNext]_codeVars PROVE RepoInv'
    OBVIOUS
<1>1. CodeTypeOK'
    BY CodeTypeStep DEF RepoInv
<1>2. CASE UNCHANGED codeVars
    BY <1>1, <1>2, CodeJobsRest DEF codeVars, RepoInv
<1>3. CASE Outside
  <2>1. CASE Edit
    BY <1>1, <2>1, CodeJobsRest DEF Edit, RepoInv
  <2> QED BY <1>1, <1>3, <2>1, CodeRestartJobs, ToolsInv, RepoCallInv DEF Outside, RepoInv
<1>4. ASSUME NEW j \in Jobs, JobStep(j) PROVE RepoInv'
  <2>1. CASE index_paths(j)
    BY <1>1, <2>1, CodeJobsRest DEF index_paths, ghosts, RepoInv
  <2> QED BY <1>1, <1>4, <2>1, ToolsInv, BeginningInv, FetchingInv, StopInv, RemovingInv
        DEF JobStep, remove_inner, wipe_inner, RepoInv
<1>5. ASSUME NEW w \in WatcherIds, WatcherStep(w) PROVE RepoInv'
  <2>1. UNCHANGED <<managed, tree, repo, in_flight, job, loose>>
    BY <1>5 DEF WatcherStep, Debounced, index_paths, BatchEnds, ghosts
  <2> QED BY <1>1, <2>1, CodeJobsRest DEF RepoInv
<1> QED BY <1>2, <1>3, <1>4, <1>5 DEF CodeNext

\* At the start there is neither.
LEMMA RepoInvInit == CodeInit => RepoInv
<1> SUFFICES ASSUME CodeInit PROVE RepoInv
    OBVIOUS
<1>1. RepoJobs = {} /\ \A j \in Jobs : job[j] = NoJob
    BY DEF CodeInit, RepoJobs
<1>2. RowInv
    BY <1>1 DEF CodeInit, RowInv
<1> QED BY <1>1, <1>2, CodeTypeInit DEF RepoInv, JobsInv

\* NothingLeftBehind for any number of jobs, files and watchers, and a failure or
\* a restart at any step: where no add of the MCP tool met another job, a
\* repository without a row and without a job has no worktree (remove_inner,
\* try_begin_job).
THEOREM RemovalIsComplete == CodeSpec => []NothingLeftBehind
<1>1. RepoInv => NothingLeftBehind
    BY DEF RepoInv, RowInv, NothingLeftBehind
<1> QED BY <1>1, RepoInvInit, RepoInvStep, PTL DEF CodeSpec

-----------------------------------------------------------------------------
(* The code map: it is current when its watcher is quiet *)

\* What is not written, and settled no more than before, stays as it was.
LEMMA FileRests ==
    ASSUME NEW p, NEW d, NEW e, NEW dk, NEW dl, NEW fs, NEW gs, NEW f, SameFile(d, e, f),
           f \in gs => f \in fs /\ dl[f] = dk[f]
    PROVE  /\ AtRest(d, dk, fs, f) => AtRest(e, dl, gs, f)
           /\ Underway(p, d, dk, fs, f) => Underway(p, e, dl, gs, f)
<1>1. AtRest(d, dk, fs, f) => AtRest(e, dl, gs, f)
    BY DEF AtRest, SameFile, Ordered
<1>2. Ordered(d, f) => Ordered(e, f)
    BY DEF SameFile, Ordered
<1>3. e.hash[f] = d.hash[f] /\ Of(f, e.symbols) = Of(f, d.symbols) /\ Of(f, e.defines) = Of(f, d.defines)
    BY DEF SameFile
<1>4. ASSUME Underway(p, d, dk, fs, f) PROVE Underway(p, e, dl, gs, f)
    BY <1>1, <1>2, <1>3, <1>4 DEF Underway
<1> QED BY <1>1, <1>4

\* A deleted file is purged.
LEMMA PurgeGoneFile ==
    ASSUME NEW p, NEW q, NEW d \in CodeDb, NEW dk, NEW fs, NEW f \in SourceFiles, NEW g \in SourceFiles,
           g \in p.gone, p.pc = "parse", q.pc = "parse", q.gone = p.gone \ {g}, q.todo = p.todo, q.work = p.work,
           Underway(p, d, dk, fs, f)
    PROVE  Underway(q, code_purge_file(d, g), dk, fs, f)
<1> DEFINE e == code_purge_file(d, g)
<1>1. /\ Ordered(d, f) /\ f \notin DOMAIN p.work
      /\ f \in fs => /\ f \in p.gone => dk[f] = 0
                     /\ f \in p.todo => dk[f] # 0
                     /\ f \notin p.gone \cup p.todo => d.hash[f] = dk[f]
    BY DEF Underway
<1>2. CASE f = g
  <2>1. Ordered(e, f) /\ e.hash[f] = 0
    BY <1>1, <1>2, PurgeFacts
  <2> HIDE DEF e
  <2>2. Underway(q, e, dk, fs, f)
    BY <1>1, <1>2, <2>1 DEF Underway
  <2> QED BY <2>2 DEF e
<1>3. CASE f # g
  <2>1. SameFile(d, e, f)
    BY <1>3, PurgeFacts
  <2> HIDE DEF e
  <2>2. Ordered(e, f) /\ e.hash[f] = d.hash[f]
    BY <1>1, <2>1 DEF SameFile, Ordered
  <2>3. Underway(q, e, dk, fs, f)
    BY <1>1, <1>3, <2>2 DEF Underway
  <2> QED BY <2>3 DEF e
<1> QED BY <1>2, <1>3

\* A file is read: it is noted, or the map of it is what it should be.
LEMMA ParseOneFile ==
    ASSUME NEW p, NEW q, NEW d \in CodeDb, NEW dk, NEW fs, NEW f \in SourceFiles, NEW g \in SourceFiles,
           g \in p.todo, p.pc = "parse", q.pc = "parse", p.gone = {}, q.gone = {}, q.todo = p.todo \ {g},
           \/ q.work = p.work /\ (dk[g] = 0 \/ d.hash[g] = dk[g])
           \/ /\ DOMAIN q.work = DOMAIN p.work \cup {g}
              /\ q.work[g].version = dk[g] /\ (q.work[g].existed <=> d.hash[g] # 0)
              /\ \A x \in DOMAIN p.work : x # g => q.work[x] = p.work[x],
           Underway(p, d, dk, fs, f)
    PROVE  Underway(q, d, dk, fs, f)
<1>1. /\ Ordered(d, f)
      /\ f \in DOMAIN p.work => f \notin p.todo /\ (p.work[f].existed <=> d.hash[f] # 0)
      /\ f \in fs => /\ f \in p.todo => dk[f] # 0
                     /\ f \in DOMAIN p.work => p.work[f].version = dk[f]
                     /\ f \notin p.todo \cup DOMAIN p.work => d.hash[f] = dk[f]
    BY DEF Underway
<1>2. CASE f # g
  <2>1. f \in DOMAIN q.work <=> f \in DOMAIN p.work
    BY <1>2
  <2>2. f \in DOMAIN p.work => q.work[f] = p.work[f]
    BY <1>2
  <2>3. f \in q.todo <=> f \in p.todo
    BY <1>2
  <2> QED BY <1>1, <2>1, <2>2, <2>3 DEF Underway
<1>3. CASE f = g
  <2>1. f \notin q.todo /\ f \notin DOMAIN p.work
    BY <1>1, <1>3
  <2>2. CASE q.work = p.work /\ (dk[g] = 0 \/ d.hash[g] = dk[g])
    BY <1>1, <1>3, <2>1, <2>2 DEF Underway
  <2>3. CASE /\ DOMAIN q.work = DOMAIN p.work \cup {g}
             /\ q.work[g].version = dk[g] /\ (q.work[g].existed <=> d.hash[g] # 0)
    BY <1>1, <1>3, <2>1, <2>3 DEF Underway
  <2> QED BY <2>2, <2>3
<1> QED BY <1>2, <1>3

\* Of each file: the purge begins with what was read.
LEMMA ParsedFile ==
    ASSUME NEW p, NEW q, NEW d, NEW dk, NEW fs, NEW f, p.pc = "parse", q.pc = "purge", p.gone = {}, p.todo = {},
           q.todo = {x \in DOMAIN p.work : p.work[x].existed}, q.work = p.work,
           Underway(p, d, dk, fs, f)
    PROVE  Underway(q, d, dk, fs, f)
<1>1. /\ Ordered(d, f)
      /\ f \in DOMAIN p.work => (p.work[f].existed <=> d.hash[f] # 0)
      /\ f \in fs => /\ f \in DOMAIN p.work => p.work[f].version = dk[f]
                     /\ f \notin DOMAIN p.work => d.hash[f] = dk[f]
    BY DEF Underway
<1>2. f \in q.todo => f \in DOMAIN q.work
    OBVIOUS
<1>3. f \in DOMAIN q.work \ q.todo => d.hash[f] = 0
    BY <1>1
<1>4. f \in fs => dk[f] = IF f \in DOMAIN q.work THEN q.work[f].version ELSE d.hash[f]
    BY <1>1
<1> QED BY <1>1, <1>2, <1>3, <1>4 DEF Underway

\* Of each file: old rows of a changed one go.
LEMMA PurgeChangedFile ==
    ASSUME NEW p, NEW q, NEW d \in CodeDb, NEW dk, NEW fs, NEW f \in SourceFiles, NEW g \in SourceFiles,
           g \in p.todo, p.pc = "purge", q.pc = "purge", q.todo = p.todo \ {g}, q.work = p.work,
           Underway(p, d, dk, fs, f)
    PROVE  Underway(q, code_purge_file(d, g), dk, fs, f)
<1> DEFINE e == code_purge_file(d, g)
<1>1. /\ Ordered(d, f) /\ (f \in p.todo => f \in DOMAIN p.work) /\ (f \in DOMAIN p.work \ p.todo => d.hash[f] = 0)
      /\ f \in fs => dk[f] = IF f \in DOMAIN p.work THEN p.work[f].version ELSE d.hash[f]
    BY DEF Underway
<1>2. CASE f = g
  <2>1. Ordered(e, f) /\ e.hash[f] = 0
    BY <1>1, <1>2, PurgeFacts
  <2> HIDE DEF e
  <2>2. Underway(q, e, dk, fs, f)
    BY <1>1, <1>2, <2>1 DEF Underway
  <2> QED BY <2>2 DEF e
<1>3. CASE f # g
  <2>1. SameFile(d, e, f)
    BY <1>3, PurgeFacts
  <2> HIDE DEF e
  <2>2. Ordered(e, f) /\ e.hash[f] = d.hash[f]
    BY <1>1, <2>1 DEF SameFile, Ordered
  <2>3. Underway(q, e, dk, fs, f)
    BY <1>1, <1>3, <2>2 DEF Underway
  <2> QED BY <2>3 DEF e
<1> QED BY <1>2, <1>3

\* Of each file: hash and entities are written together.
LEMMA WriteEntitiesFile ==
    ASSUME NEW p, NEW q, NEW d \in CodeDb, NEW dk, NEW fs, NEW f \in SourceFiles,
           p.pc = "purge", p.todo = {}, q.pc = "relate", q.work = p.work, p.work \in WorkLists,
           Underway(p, d, dk, fs, f)
    PROVE  Underway(q, upsert_entities(d, p.work), dk, fs, f)
<1> DEFINE e == upsert_entities(d, p.work)
<1>1. /\ Ordered(d, f) /\ (f \in DOMAIN p.work => d.hash[f] = 0)
      /\ f \in fs => dk[f] = IF f \in DOMAIN p.work THEN p.work[f].version ELSE d.hash[f]
    BY DEF Underway
<1>2. CASE f \in DOMAIN p.work
  <2>1. Entered(e, f, p.work[f].version)
    BY <1>1, <1>2, UpsertFacts
  <2> HIDE DEF e
  <2>2. Underway(q, e, dk, fs, f)
    BY <1>1, <1>2, <2>1 DEF Underway, Entered
  <2> QED BY <2>2 DEF e
<1>3. CASE f \notin DOMAIN p.work
  <2>1. SameFile(d, e, f)
    BY <1>3, UpsertFacts
  <2> HIDE DEF e
  <2>2. AtRest(e, dk, fs, f)
    BY <1>1, <1>3, <2>1 DEF AtRest, Ordered, SameFile
  <2>3. Underway(q, e, dk, fs, f)
    BY <1>3, <2>2 DEF Underway
  <2> QED BY <2>3 DEF e
<1> QED BY <1>2, <1>3

\* Of each file: the relations follow.
LEMMA WriteRelationsFile ==
    ASSUME NEW p, NEW q, NEW d \in CodeDb, NEW dk, NEW fs, NEW f \in SourceFiles,
           p.pc = "relate", q.pc = "done", p.work \in WorkLists,
           Underway(p, d, dk, fs, f)
    PROVE  Underway(q, create_relations(d, p.work), dk, fs, f)
<1> DEFINE e == create_relations(d, p.work)
<1>1. AtRest(e, dk, fs, f)
  <2>1. CASE f \in DOMAIN p.work
    <3>1. Entered(d, f, p.work[f].version) /\ (f \in fs => d.hash[f] = dk[f]) /\ d.hash[f] = p.work[f].version
        BY <2>1 DEF Underway, Entered
    <3>2. Ordered(e, f) /\ e.hash[f] = p.work[f].version
        BY <2>1, <3>1, RelateFacts
    <3> QED BY <3>1, <3>2 DEF AtRest
  <2>2. CASE f \notin DOMAIN p.work
    <3>1. AtRest(d, dk, fs, f)
        BY <2>2 DEF Underway
    <3>2. SameFile(d, e, f)
        BY <2>2, RelateFacts
    <3> QED BY <3>1, <3>2, FileRests
  <2> QED BY <2>1, <2>2
<1> HIDE DEF e
<1>2. Underway(q, e, dk, fs, f)
    BY <1>1 DEF Underway
<1> QED BY <1>2 DEF e

CurrentInv == CodeTypeOK /\ MapInv

\* The runners that run.
LEMMA ActiveIs ==
    ASSUME CodeTypeOK, NEW a \in Runners
    PROVE  /\ a \in Active <=> pass[a] # NoPass
           /\ Active \subseteq Runners
           /\ a \in Active => pass[a] \in Pass
    BY DEF CodeTypeOK, Active, Runners

\* Nothing is written and no file is settled that was not before.
LEMMA MapAlike ==
    ASSUME MapInv, UNCHANGED <<code, pass, torn>>,
           \A f \in Settled' : f \in Settled /\ disk'[f] = disk[f]
    PROVE  MapInv'
<1> SUFFICES ASSUME ~torn
             PROVE  /\ \A a, b \in Active' : a = b
                    /\ \A f \in SourceFiles : IF \E a \in Active' : ~pass'[a].lost
                                              THEN \A a \in Active' : Underway(pass'[a], code', disk', Settled', f)
                                              ELSE AtRest(code', disk', Settled', f)
    BY DEF MapInv
<1>1. Active' = Active /\ pass' = pass /\ code' = code
    BY DEF Active
<1>2. ASSUME NEW f \in SourceFiles, NEW a
      PROVE  /\ AtRest(code, disk, Settled, f) => AtRest(code', disk', Settled', f)
             /\ Underway(pass[a], code, disk, Settled, f) => Underway(pass'[a], code', disk', Settled', f)
  <2>1. SameFile(code, code', f)
    BY <1>1 DEF SameFile
  <2>2. f \in Settled' => f \in Settled /\ disk'[f] = disk[f]
    OBVIOUS
  <2> QED BY <1>1, <2>1, <2>2, FileRests
<1> QED BY <1>1, <1>2 DEF MapInv

\* The one pass that is active takes a step.
LEMMA MapPassStep ==
    ASSUME CodeTypeOK, MapInv, NEW a \in Runners, pass[a] # NoPass,
           NEW q \in Pass, pass' = [pass EXCEPT ![a] = q], q.lost = pass[a].lost,
           UNCHANGED <<disk, watchers, registered, heard, torn>>,
           pass[a].lost => code' = code,
           ~pass[a].lost => \A f \in SourceFiles : Underway(pass[a], code, disk, Settled, f)
                                                   => Underway(q, code', disk, Settled, f)
    PROVE  MapInv'
<1> SUFFICES ASSUME ~torn
             PROVE  /\ \A b, c \in Active' : b = c
                    /\ \A f \in SourceFiles : IF \E b \in Active' : ~pass'[b].lost
                                              THEN \A b \in Active' : Underway(pass'[b], code', disk', Settled', f)
                                              ELSE AtRest(code', disk', Settled', f)
    BY DEF MapInv
<1>1. pass' \in [Runners -> Pass \cup {NoPass}] /\ pass'[a] = q /\ q # NoPass /\ \A b \in Runners : b # a => pass'[b] = pass[b]
    BY PassBecomes
<1>2. Active = {a}
    BY ActiveIs DEF MapInv
<1>3. Active' = {a}
    BY <1>1, <1>2, ActiveIs DEF Active
<1>4. Settled' = Settled /\ disk' = disk
    BY DEF Settled, Ear
<1>5. CASE pass[a].lost
    BY <1>1, <1>2, <1>3, <1>4, <1>5 DEF MapInv
<1>6. CASE ~pass[a].lost
    BY <1>1, <1>2, <1>3, <1>4, <1>6 DEF MapInv
<1> QED BY <1>5, <1>6

\* Each stage of a pass, by what it does to one file.
LEMMA MapIndexPaths ==
    ASSUME CurrentInv, NEW a \in Runners, index_paths(a)
    PROVE  MapInv'
<1>1. CodeTypeOK /\ MapInv /\ code \in CodeDb /\ UNCHANGED <<disk, watchers, registered, heard, torn>>
    BY DEF CurrentInv, CodeTypeOK, index_paths, ghosts
<1>2. pass[a].pc # "none" /\ pass[a] # NoPass /\ pass[a] \in Pass
  <2>1. pass[a].pc # "none"
    BY DEF index_paths, PurgeGone, parse_one, Parsed, PurgeChanged, WriteEntities, WriteRelations
  <2> QED BY <1>1, <2>1, IsPass DEF NoPass
<1>3. pass[a].gone \subseteq SourceFiles /\ pass[a].todo \subseteq SourceFiles /\ pass[a].work \in WorkLists
    BY <1>2 DEF Pass
<1>4. CASE PurgeGone(a)
  <2>1. PICK g \in pass[a].gone, q \in Pass :
          /\ pass' = [pass EXCEPT ![a] = q] /\ code' = IF pass[a].lost THEN code ELSE code_purge_file(code, g)
          /\ pass[a].pc = "parse" /\ q.pc = "parse" /\ q.gone = pass[a].gone \ {g}
          /\ q.todo = pass[a].todo /\ q.work = pass[a].work /\ q.lost = pass[a].lost
    BY <1>1, <1>4, PurgeGoneStep
  <2>2. ASSUME ~pass[a].lost, NEW f \in SourceFiles, Underway(pass[a], code, disk, Settled, f)
        PROVE  Underway(q, code', disk, Settled, f)
    <3>1. g \in SourceFiles /\ code' = code_purge_file(code, g)
        BY <1>3, <2>1, <2>2
    <3>2. Underway(q, code_purge_file(code, g), disk, Settled, f)
        BY <1>1, <2>1, <2>2, <3>1, PurgeGoneFile
    <3> QED BY <3>1, <3>2
  <2> QED BY <1>1, <1>2, <2>1, <2>2, MapPassStep
<1>5. CASE parse_one(a)
  <2>1. PICK g \in pass[a].todo, q \in Pass :
          /\ pass' = [pass EXCEPT ![a] = q] /\ code' = code
          /\ pass[a].pc = "parse" /\ pass[a].gone = {} /\ q.pc = "parse" /\ q.gone = {}
          /\ q.todo = pass[a].todo \ {g} /\ q.lost = pass[a].lost
          /\ IF disk[g] = 0 \/ Unchanged(g, pass[a].force) THEN q.work = pass[a].work
             ELSE /\ DOMAIN q.work = DOMAIN pass[a].work \cup {g}
                  /\ q.work[g].version = disk[g] /\ (q.work[g].existed <=> code.hash[g] # 0)
                  /\ \A x \in DOMAIN pass[a].work : x # g => q.work[x] = pass[a].work[x]
    BY <1>1, <1>5, ParseOneStep, Zenon
  <2>2. \/ q.work = pass[a].work /\ (disk[g] = 0 \/ code.hash[g] = disk[g])
        \/ /\ DOMAIN q.work = DOMAIN pass[a].work \cup {g}
           /\ q.work[g].version = disk[g] /\ (q.work[g].existed <=> code.hash[g] # 0)
           /\ \A x \in DOMAIN pass[a].work : x # g => q.work[x] = pass[a].work[x]
    BY <2>1, Zenon DEF Unchanged
  <2>3. ASSUME NEW f \in SourceFiles, Underway(pass[a], code, disk, Settled, f)
        PROVE  Underway(q, code, disk, Settled, f)
    <3>1. g \in SourceFiles
        BY <1>3
    <3> QED BY <1>1, <2>1, <2>2, <2>3, <3>1, ParseOneFile, Zenon
  <2>4. pass' = [pass EXCEPT ![a] = q] /\ code' = code /\ q.lost = pass[a].lost
    BY <2>1, Zenon
  <2> QED BY <1>1, <1>2, <2>3, <2>4, MapPassStep
<1>6. CASE Parsed(a)
  <2>1. PICK q \in Pass :
          /\ pass' = [pass EXCEPT ![a] = q] /\ code' = code
          /\ pass[a].pc = "parse" /\ pass[a].gone = {} /\ pass[a].todo = {} /\ q.pc = "purge"
          /\ q.todo = {f \in DOMAIN pass[a].work : pass[a].work[f].existed}
          /\ q.work = pass[a].work /\ q.lost = pass[a].lost
    BY <1>1, <1>6, ParsedStep
  <2>2. ASSUME NEW f \in SourceFiles, Underway(pass[a], code, disk, Settled, f)
        PROVE  Underway(q, code, disk, Settled, f)
    BY <2>1, <2>2, ParsedFile
  <2> QED BY <1>1, <1>2, <2>1, <2>2, MapPassStep
<1>7. CASE PurgeChanged(a)
  <2>1. PICK g \in pass[a].todo, q \in Pass :
          /\ pass' = [pass EXCEPT ![a] = q] /\ code' = IF pass[a].lost THEN code ELSE code_purge_file(code, g)
          /\ pass[a].pc = "purge" /\ q.pc = "purge" /\ q.todo = pass[a].todo \ {g}
          /\ q.work = pass[a].work /\ q.lost = pass[a].lost
    BY <1>1, <1>7, PurgeChangedStep
  <2>2. ASSUME ~pass[a].lost, NEW f \in SourceFiles, Underway(pass[a], code, disk, Settled, f)
        PROVE  Underway(q, code', disk, Settled, f)
    <3>1. g \in SourceFiles /\ code' = code_purge_file(code, g)
        BY <1>3, <2>1, <2>2
    <3>2. Underway(q, code_purge_file(code, g), disk, Settled, f)
        BY <1>1, <2>1, <2>2, <3>1, PurgeChangedFile
    <3> QED BY <3>1, <3>2
  <2> QED BY <1>1, <1>2, <2>1, <2>2, MapPassStep
<1>8. CASE WriteEntities(a)
  <2>1. PICK q \in Pass : pass' = [pass EXCEPT ![a] = q] /\ q.pc = "relate" /\ q.work = pass[a].work /\ q.lost = pass[a].lost
    BY <1>1, <1>2, <1>8, WriteStep DEF WriteEntities
  <2>2. pass[a].pc = "purge" /\ pass[a].todo = {} /\ code' = IF pass[a].lost THEN code ELSE upsert_entities(code, pass[a].work)
    BY <1>8 DEF WriteEntities, Write
  <2>3. ASSUME ~pass[a].lost, NEW f \in SourceFiles, Underway(pass[a], code, disk, Settled, f)
        PROVE  Underway(q, code', disk, Settled, f)
    <3>1. Underway(q, upsert_entities(code, pass[a].work), disk, Settled, f)
        BY <1>1, <1>3, <2>1, <2>2, <2>3, WriteEntitiesFile
    <3> QED BY <2>2, <2>3, <3>1
  <2> QED BY <1>1, <1>2, <2>1, <2>2, <2>3, MapPassStep
<1>9. CASE WriteRelations(a)
  <2>1. PICK q \in Pass : pass' = [pass EXCEPT ![a] = q] /\ q.pc = "done" /\ q.work = pass[a].work /\ q.lost = pass[a].lost
    BY <1>1, <1>2, <1>9, WriteStep DEF WriteRelations
  <2>2. pass[a].pc = "relate" /\ code' = IF pass[a].lost THEN code ELSE create_relations(code, pass[a].work)
    BY <1>9 DEF WriteRelations, Write
  <2>3. ASSUME ~pass[a].lost, NEW f \in SourceFiles, Underway(pass[a], code, disk, Settled, f)
        PROVE  Underway(q, code', disk, Settled, f)
    <3>1. Underway(q, create_relations(code, pass[a].work), disk, Settled, f)
        BY <1>1, <1>3, <2>1, <2>2, <2>3, WriteRelationsFile
    <3> QED BY <2>2, <2>3, <3>1
  <2> QED BY <1>1, <1>2, <2>1, <2>2, <2>3, MapPassStep
<1> QED BY <1>4, <1>5, <1>6, <1>7, <1>8, <1>9 DEF index_paths

\* A pass that is done leaves everything at rest.
LEMMA MapPassEnds ==
    ASSUME CurrentInv, NEW a \in Runners, pass[a].pc = "done", pass' = [pass EXCEPT ![a] = NoPass],
           UNCHANGED <<code, disk, torn>>, Settled' \subseteq Settled
    PROVE  MapInv'
<1> SUFFICES ASSUME ~torn
             PROVE  Active' = {} /\ \A f \in SourceFiles : AtRest(code', disk', Settled', f)
    BY DEF MapInv
<1>1. pass[a] # NoPass /\ CodeTypeOK /\ MapInv
    BY DEF NoPass, CurrentInv
<1>2. Active = {a}
    BY <1>1, ActiveIs DEF MapInv
<1>3. Active' = {}
    BY <1>1, <1>2 DEF CodeTypeOK, Active, Runners
<1>4. ASSUME NEW f \in SourceFiles PROVE AtRest(code, disk, Settled, f)
    BY <1>1, <1>2 DEF MapInv, Underway
<1>5. ASSUME NEW f \in SourceFiles PROVE AtRest(code', disk', Settled', f)
    BY <1>4 DEF AtRest
<1> QED BY <1>3, <1>5

\* A pass begins where none is active: what is settled and not in its lists was
\* settled before.
LEMMA MapBegins ==
    ASSUME CurrentInv, NEW a \in Runners, NEW p \in Pass, pass' = [pass EXCEPT ![a] = p],
           p.pc = "parse", DOMAIN p.work = {}, UNCHANGED <<code, disk>>,
           ~torn' => ~torn /\ Active = {},
           \A f \in Settled' : /\ f \in p.gone => disk[f] = 0
                               /\ f \in p.todo => disk[f] # 0
                               /\ p.lost \/ f \notin p.gone \cup p.todo => f \in Settled
    PROVE  MapInv'
<1> SUFFICES ASSUME ~torn'
             PROVE  /\ \A b, c \in Active' : b = c
                    /\ \A f \in SourceFiles : IF \E b \in Active' : ~pass'[b].lost
                                              THEN \A b \in Active' : Underway(pass'[b], code', disk', Settled', f)
                                              ELSE AtRest(code', disk', Settled', f)
    BY DEF MapInv
<1>1. CodeTypeOK /\ MapInv /\ ~torn /\ Active = {}
    BY DEF CurrentInv
<1>2. pass' \in [Runners -> Pass \cup {NoPass}] /\ pass'[a] = p /\ p # NoPass /\ \A b \in Runners : b # a => pass'[b] = pass[b]
    BY <1>1, PassBecomes
<1>3. Active' = {a}
    BY <1>1, <1>2, ActiveIs DEF Active
<1>4. \A f \in SourceFiles : AtRest(code, disk, Settled, f)
    BY <1>1 DEF MapInv
<1>5. CASE p.lost
  <2>1. \A f \in SourceFiles : AtRest(code', disk', Settled', f)
    BY <1>4, <1>5 DEF AtRest
  <2> QED BY <1>2, <1>3, <1>5, <2>1
<1>6. CASE ~p.lost
  <2>1. ASSUME NEW f \in SourceFiles PROVE Underway(p, code, disk, Settled', f)
    <3>1. Ordered(code, f) /\ (f \in Settled => code.hash[f] = disk[f])
        BY <1>4 DEF AtRest
    <3> QED BY <3>1 DEF Underway
  <2> QED BY <1>2, <1>3, <1>6, <2>1
<1> QED BY <1>5, <1>6

\* What the worktree's changes settle: nothing, and what changed is taken up again.
LEMMA ChangedSettles ==
    ASSUME CodeTypeOK, NEW d \in [SourceFiles -> 0..MaxVersion], Changed(d), UNCHANGED registered
    PROVE  \A f \in Settled' : f \in Settled /\ disk'[f] = disk[f]
<1> DEFINE fs == {f \in SourceFiles : d[f] # disk[f]}
<1>1. /\ disk' = d
      /\ \A w \in 1..Len(watchers) :
           /\ watchers'[w].stop = watchers[w].stop /\ watchers'[w].lost = watchers[w].lost
           /\ watchers'[w].pending = watchers[w].pending \cup fs
    BY ChangedType
<1>2. heard \subseteq SourceFiles /\ heard' = IF Ear(registered) THEN heard \cup fs ELSE heard \ fs
    BY DEF Changed, CodeTypeOK
<1>3. CASE registered = 0
    BY <1>3 DEF Settled, Ear
<1>4. CASE registered # 0
  <2>1. registered \in 1..Len(watchers)
    BY <1>4 DEF CodeTypeOK
  <2>2. Ear(registered)' <=> Ear(registered)
    BY <1>1, <2>1 DEF Ear
  <2>3. ASSUME NEW f \in Settled' PROVE f \in Settled /\ disk'[f] = disk[f]
    <3>1. Ear(registered) /\ ~watchers'[registered].lost /\ f \in heard' /\ f \notin watchers'[registered].pending
        BY <2>2 DEF Settled
    <3>2. ~watchers[registered].lost /\ f \notin watchers[registered].pending /\ f \notin fs
        BY <1>1, <2>1, <3>1
    <3>3. f \in heard /\ f \in SourceFiles
        BY <1>2, <3>1, <3>2
    <3>4. f \in Settled
        BY <3>1, <3>2, <3>3 DEF Settled
    <3> QED BY <1>1, <3>2, <3>3, <3>4
  <2> QED BY <2>3
<1> QED BY <1>3, <1>4

\* A change on disk makes the map old until it is heard.
LEMMA MapChanged ==
    ASSUME CurrentInv, NEW d \in [SourceFiles -> 0..MaxVersion], Changed(d), UNCHANGED <<registered, code, pass, torn>>
    PROVE  MapInv'
    BY ChangedSettles, MapAlike DEF CurrentInv

\* Steps that leave map, disk and watchers alone.
LEMMA MapFrame ==
    ASSUME CurrentInv, UNCHANGED <<code, pass, torn, disk, heard, watchers>>,
           registered' \in {0, registered}
    PROVE  MapInv'
<1>1. Settled' \subseteq Settled
    BY DEF Settled, Ear
<1> QED BY <1>1, MapAlike DEF CurrentInv

\* A deleted database is empty, and who still writes to it is lost.
LEMMA MapForgets ==
    ASSUME CurrentInv, Forget, UNCHANGED <<disk, heard, registered, torn>>
    PROVE  MapInv'
<1>1. CodeTypeOK /\ MapInv
    BY DEF CurrentInv
<1>2. /\ code' = EmptyCode
      /\ \A w \in 1..Len(watchers) : watchers'[w].lost
      /\ pass' \in [Runners -> Pass \cup {NoPass}]
      /\ \A a \in Runners : (pass'[a] = NoPass <=> pass[a] = NoPass) /\ (pass'[a] # NoPass => pass'[a].lost)
    BY <1>1, ForgetType
<1>3. Active' = Active /\ \A a \in Active' : pass'[a].lost
    BY <1>1, <1>2 DEF Active, CodeTypeOK, Runners
<1>4. Settled' = {}
    BY <1>1, <1>2 DEF Settled, Ear, CodeTypeOK
<1>5. ASSUME NEW f \in SourceFiles PROVE AtRest(code', disk', Settled', f)
  <2>1. code'.hash[f] = 0 /\ code'.symbols = {} /\ code'.defines = {}
    BY <1>2 DEF EmptyCode, NoFiles
  <2> QED BY <1>4, <2>1 DEF AtRest, Ordered, Of, Only
<1> QED BY <1>1, <1>3, <1>5 DEF MapInv

\* A restart that cuts no writes short leaves the rows in order.
LEMMA MapRestarts ==
    ASSUME CurrentInv, CodeRestart
    PROVE  MapInv'
<1> SUFFICES ASSUME ~torn'
             PROVE  Active' = {} /\ \A f \in SourceFiles : AtRest(code', disk', Settled', f)
    BY DEF MapInv
<1>1. CodeTypeOK /\ MapInv /\ ~torn /\ \A a \in DOMAIN pass : pass[a].pc \notin {"purge", "relate"}
    BY DEF CurrentInv, CodeRestart
<1>2. Active' = {}
    BY DEF CodeRestart, Active
<1>3. Settled' = {}
    BY DEF CodeRestart, Settled, Ear
<1>4. ASSUME NEW f \in SourceFiles PROVE Ordered(code, f)
  <2>1. CASE \E a \in Active : ~pass[a].lost
    <3>1. PICK a \in Active : Underway(pass[a], code, disk, Settled, f)
        BY <1>1, <2>1 DEF MapInv
    <3>2. pass[a] \in Pass /\ pass[a].pc \notin {"purge", "relate"}
        BY <1>1 DEF Active, CodeTypeOK
    <3>3. pass[a].pc \in {"parse", "done"}
        BY <3>2 DEF Pass
    <3> QED BY <3>1, <3>3 DEF Underway, AtRest
  <2>2. CASE ~\E a \in Active : ~pass[a].lost
    BY <1>1, <2>2 DEF MapInv, AtRest
  <2> QED BY <2>1, <2>2
<1>5. ASSUME NEW f \in SourceFiles PROVE Ordered(EmptyCode, f)
  <2>1. EmptyCode.hash[f] = 0 /\ EmptyCode.symbols = {} /\ EmptyCode.defines = {}
    BY DEF EmptyCode, NoFiles
  <2> QED BY <2>1 DEF Ordered, Of, Only
<1>6. code' = EmptyCode \/ code' = code
    BY DEF CodeRestart
<1> QED BY <1>2, <1>3, <1>4, <1>5, <1>6 DEF AtRest

\* A pass begins: alone, or the map counts as torn.
LEMMA MapIndexBegins ==
    ASSUME CurrentInv, NEW j \in Jobs, NEW force \in BOOLEAN, IndexBegins(j, force),
           UNCHANGED <<code, disk, watchers, registered, heard>>
    PROVE  MapInv'
<1> DEFINE fs == {f \in SourceFiles : disk[f] # 0}
<1>1. Begins(j, {}, fs, force, FALSE) /\ fs \in SUBSET SourceFiles /\ j \in Runners
    BY DEF IndexBegins, Runners
<1>2. Settled' = Settled
    BY DEF Settled, Ear
<1>3. \A f \in fs : disk[f] # 0
    OBVIOUS
<1>4. ~torn' => ~torn /\ Active = {}
    BY <1>1 DEF Begins, Active
<1> HIDE DEF fs
<1> DEFINE p == [pc |-> "parse", gone |-> {}, todo |-> fs, force |-> force, work |-> <<>>, lost |-> FALSE]
<1>5. p \in Pass /\ p.pc = "parse" /\ p.gone = {} /\ p.todo = fs /\ DOMAIN p.work = {} /\ ~p.lost
    BY <1>1, NoWork DEF Pass
<1>6. pass' = [pass EXCEPT ![j] = p]
    BY <1>1 DEF Begins
<1> HIDE DEF p
<1> QED BY <1>1, <1>2, <1>3, <1>4, <1>5, <1>6, MapBegins

\* A watcher takes up what is pending: that is settled now.
LEMMA MapDebounced ==
    ASSUME CurrentInv, NEW w \in WatcherIds, w \in DOMAIN watchers, Debounced(w)
    PROVE  MapInv'
<1>1. CodeTypeOK /\ w \in 1..Len(watchers) /\ w \in Runners
    BY SeqIsFunction DEF CurrentInv, CodeTypeOK, Runners
<1> DEFINE pending == watchers[w].pending
           gone == {f \in pending : disk[f] = 0}
           fs == pending \ gone
           lost == watchers[w].lost
           q == [watchers[w] EXCEPT !.pending = {}]
<1>2. watchers[w] \in Watcher
    BY <1>1, WatcherType
<1>3. gone \in SUBSET SourceFiles /\ fs \in SUBSET SourceFiles /\ lost \in BOOLEAN
    BY <1>2 DEF Watcher
<1>4. /\ Begins(w, gone, fs, FALSE, lost) /\ watchers' = [watchers EXCEPT ![w] = q]
      /\ UNCHANGED <<code, disk, registered, heard>>
    BY DEF Debounced
<1>5. q \in Watcher /\ q.pending = {} /\ q.stop = watchers[w].stop /\ q.lost = watchers[w].lost
    BY <1>2 DEF Watcher
<1>6. \A f \in gone : disk[f] = 0
    OBVIOUS
<1>7. \A f \in fs : disk[f] # 0
    OBVIOUS
<1>8. gone \cup fs = pending
    OBVIOUS
<1> HIDE DEF gone, fs, q
<1>9. watchers'[w] = q /\ \A v \in 1..Len(watchers) : v # w => watchers'[v] = watchers[v]
    BY <1>1, <1>4, <1>5, WatcherBecomes
<1>10. ASSUME NEW f \in Settled', lost \/ f \notin gone \cup fs PROVE f \in Settled
  <2>1. registered # 0 /\ registered \in 1..Len(watchers) /\ f \in heard
    BY <1>1, <1>4 DEF Settled, Ear, CodeTypeOK
  <2>2. CASE registered # w
    <3>1. watchers'[registered] = watchers[registered]
        BY <1>9, <2>1, <2>2
    <3> QED BY <1>4, <3>1 DEF Settled, Ear
  <2>3. CASE registered = w
    <3>1. ~q.stop /\ ~q.lost
        BY <1>4, <1>9, <2>3 DEF Settled, Ear
    <3>2. ~watchers[w].stop /\ ~watchers[w].lost /\ f \notin pending
        BY <1>5, <1>8, <1>10, <3>1
    <3> QED BY <2>1, <2>3, <3>2 DEF Settled, Ear
  <2> QED BY <2>2, <2>3
<1>11. ~torn' => ~torn /\ Active = {}
    BY <1>4 DEF Begins, Active
<1> HIDE DEF lost
<1> DEFINE p == [pc |-> "parse", gone |-> gone, todo |-> fs, force |-> FALSE, work |-> <<>>, lost |-> lost]
<1>12. p \in Pass /\ p.pc = "parse" /\ p.gone = gone /\ p.todo = fs /\ DOMAIN p.work = {} /\ (p.lost <=> lost)
    BY <1>3, NoWork DEF Pass
<1>13. pass' = [pass EXCEPT ![w] = p]
    BY <1>4 DEF Begins
<1> HIDE DEF p
<1> QED BY <1>1, <1>4, <1>6, <1>7, <1>10, <1>11, <1>12, <1>13, MapBegins

\* A tool call ends with its pass.
LEMMA MapToolEnds ==
    ASSUME CurrentInv, NEW j \in Jobs, ToolEnds(j)
    PROVE  MapInv'
<1>1. Settled' \subseteq Settled
  <2>1. CASE spawn_watcher
    BY <2>1 DEF spawn_watcher, Settled
  <2>2. CASE UNCHANGED <<watchers, registered, heard>>
    BY <2>2 DEF Settled, Ear
  <2> QED BY <2>1, <2>2 DEF ToolEnds
<1> QED BY <1>1, MapPassEnds DEF ToolEnds, Runners

\* The steps of a repository job on the map.
LEMMA MapJobs ==
    ASSUME CurrentInv, NEW j \in Jobs,
           do_update(j) \/ do_clone(j) \/ Cloned(j) \/ do_index(j) \/ Indexed(j)
    PROVE  MapInv'
<1>1. CASE do_index(j)
  <2>1. CASE IndexBegins(j, FALSE)
    BY <1>1, <2>1, MapIndexBegins DEF do_index
  <2>2. CASE UNCHANGED <<kg, pass, torn>>
    BY <1>1, <2>2, MapFrame DEF do_index
  <2> QED BY <1>1, <2>1, <2>2 DEF do_index
<1>2. CASE Indexed(j)
  <2>1. Settled' \subseteq Settled
    BY <1>2 DEF Indexed, Settled, Ear, ghosts
  <2> QED BY <1>2, <2>1, MapPassEnds DEF Indexed, Runners, ghosts
<1>3. CASE do_update(j) \/ do_clone(j) \/ Cloned(j)
  <2>1. UNCHANGED <<registered, code, pass, torn>>
    BY <1>3 DEF do_update, do_clone, Cloned
  <2>2. \/ Pulled \/ Changed(NoFiles)
        \/ UNCHANGED <<disk, heard, watchers>>
    BY <1>3 DEF do_update, do_clone, Cloned
  <2> QED BY <2>1, <2>2, PulledChanges, NoFilesType, MapChanged, MapFrame DEF CurrentInv
<1> QED BY <1>1, <1>2, <1>3

\* The thread that is stopped is no longer registered.
LEMMA MapStops ==
    ASSUME CurrentInv, NEW j \in Jobs, stop_watcher(j)
    PROVE  MapInv'
<1>1. Settled' = {}
    BY DEF stop_watcher, Settled, Ear
<1> QED BY <1>1, MapAlike DEF stop_watcher, ghosts, CurrentInv

\* The steps of a removal on the map.
LEMMA MapRemoves ==
    ASSUME CurrentInv, NEW j \in Jobs,
           Join(j) \/ drop_project(j) \/ Unlink(j) \/ RemoveTree(j) \/ DeleteRow(j)
    PROVE  MapInv'
<1>1. UNCHANGED <<registered, torn>>
    BY DEF Join, drop_project, Unlink, RemoveTree, DeleteRow, ghosts
<1>2. \/ Forget /\ UNCHANGED <<disk, heard>>
      \/ UNCHANGED <<code, pass, watchers, disk, heard>>
      \/ Changed(NoFiles) /\ UNCHANGED <<code, pass>>
    BY DEF Join, drop_project, Unlink, RemoveTree, DeleteRow, ghosts
<1> QED BY <1>1, <1>2, MapForgets, MapFrame, MapChanged, NoFilesType

\* Every step keeps the map as current as its passes say.
LEMMA CurrentStep == CurrentInv /\ [CodeNext]_codeVars => CurrentInv'
<1> SUFFICES ASSUME CurrentInv, [CodeNext]_codeVars PROVE MapInv'
    BY CodeTypeStep DEF CurrentInv
<1>1. CASE UNCHANGED codeVars
    BY <1>1, MapFrame DEF codeVars
<1>2. CASE Outside
  <2>1. CASE Edit
    <3>1. PICK f \in SourceFiles, v \in 0..MaxVersion : Changed([disk EXCEPT ![f] = v])
        BY <2>1 DEF Edit
    <3>2. [disk EXCEPT ![f] = v] \in [SourceFiles -> 0..MaxVersion]
        BY DEF CurrentInv, CodeTypeOK
    <3> QED BY <2>1, <3>1, <3>2, MapChanged DEF Edit
  <2>2. CASE CodeRestart
    BY <2>2, MapRestarts
  <2>3. ASSUME NEW j \in Jobs, handle_code_index(j) \/ handle_code_watch(j) PROVE MapInv'
    BY <2>3, MapIndexBegins DEF handle_code_index, handle_code_watch
  <2>4. ASSUME NEW j \in Jobs, RepoCall(j) PROVE MapInv'
    BY <2>4, MapFrame DEF RepoCall, register, reindex, remove, Schedule
  <2> QED BY <1>2, <2>1, <2>2, <2>3, <2>4 DEF Outside
<1>3. ASSUME NEW j \in Jobs, JobStep(j) PROVE MapInv'
  <2>1. CASE index_paths(j)
    BY <2>1, MapIndexPaths DEF Runners
  <2>2. CASE add_job(j) \/ add(j) \/ Opens(j)
    BY <2>2, MapFrame DEF add_job, add, Opens, ghosts
  <2> QED BY <1>3, <2>1, <2>2, MapToolEnds, MapJobs, MapStops, MapRemoves DEF JobStep, remove_inner, wipe_inner
<1>4. ASSUME NEW w \in WatcherIds, WatcherStep(w) PROVE MapInv'
  <2>1. CASE BatchEnds(w)
    <3>1. Settled' \subseteq Settled
        BY <2>1 DEF BatchEnds, Settled, Ear, ghosts
    <3> QED BY <2>1, <3>1, MapPassEnds DEF BatchEnds, Runners, ghosts
  <2> QED BY <1>4, <2>1, MapDebounced, MapIndexPaths DEF WatcherStep, Runners
<1> QED BY <1>1, <1>2, <1>3, <1>4 DEF CodeNext

\* At the start there is no map.
LEMMA CurrentInit == CodeInit => CurrentInv
<1> SUFFICES ASSUME CodeInit PROVE MapInv
    BY CodeTypeInit DEF CurrentInv
<1>1. Active = {} /\ Settled = {}
    BY DEF CodeInit, Active, Settled, Ear
<1>2. ASSUME NEW f \in SourceFiles PROVE AtRest(code, disk, Settled, f)
  <2>1. code.hash[f] = 0 /\ code.symbols = {} /\ code.defines = {}
    BY DEF CodeInit, EmptyCode, NoFiles
  <2> QED BY <1>1, <2>1 DEF AtRest, Ordered, Of, Only
<1> QED BY <1>1, <1>2 DEF MapInv

\* QuietMapIsCurrent for any number of files, versions, tool calls, jobs and
\* watchers: whatever changes between the reads and the writes of passes, once
\* no pass runs and the watcher has nothing pending, the map of every file it
\* heard of is the map of what the file holds (spawn_watcher, index_paths).
THEOREM WatchedMapIsCurrent == CodeSpec => []QuietMapIsCurrent
<1>1. CurrentInv => QuietMapIsCurrent
  <2> SUFFICES ASSUME CurrentInv, ~torn, Ear(registered), watchers[registered].pending = {},
                      ~watchers[registered].lost, \A a \in DOMAIN pass : pass[a] = NoPass,
                      NEW f \in heard
               PROVE  Mapped(f)
    BY DEF QuietMapIsCurrent
  <2>1. f \in Settled /\ f \in SourceFiles /\ Active = {}
    BY DEF Settled, CurrentInv, CodeTypeOK, Active
  <2>2. AtRest(code, disk, Settled, f)
    BY <2>1 DEF CurrentInv, MapInv
  <2> QED BY <2>1, <2>2 DEF AtRest, Ordered, Of, Only, Mapped
<1> QED BY <1>1, CurrentInit, CurrentStep, PTL DEF CodeSpec

=============================================================================
