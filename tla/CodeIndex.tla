----------------------------- MODULE CodeIndex -----------------------------
(***************************************************************************)
(* The code map of one project: the indexer (actions/code.rs), the file    *)
(* watcher (watcher.rs) and the managed repository behind the project      *)
(* (repos.rs), with the registry of open code databases.                   *)
(*                                                                         *)
(* A file's content is a version, which stands for its hash and for the    *)
(* symbols it defines.  Calls between symbols are left out, and so are the *)
(* limits on files and symbols.  An index pass reads files in parallel and *)
(* then writes in separate transactions; passes of tool calls, of          *)
(* repository jobs and of watchers interleave.  git, file and process      *)
(* failures are modelled, failures of SQLite statements are not.           *)
(***************************************************************************)
EXTENDS Integers, Sequences, FiniteSets, SequencesExt

CONSTANTS
    SourceFiles,
    MaxVersion,   \* bound: contents of a file
    MaxChanges,   \* bound: edits, clones and pulls that change the worktree
    Jobs,         \* bound: tool calls and jobs at work at once
    MaxWatchers   \* bound: watchers ever spawned

ASSUME CodeAssumption ==
    /\ MaxVersion \in Nat \ {0} /\ MaxChanges \in Nat /\ MaxWatchers \in Nat
    /\ Jobs \cap (0..MaxWatchers) = {}

VARIABLES
    managed,    \* whether the project is a managed repository
    tree,       \* its worktree: "none", "partial" (clone cut short) or "valid"
    disk,       \* the version of each file, 0 if there is no such file
    changes,    \* changes made to the worktree
    code,       \* the code database
    kg,         \* the registry's handle: "none", "open", "unlinked"
    repo,       \* state of the code_repo row, "none" without one
    in_flight,  \* whether the key is in IN_FLIGHT
    job,        \* the call or job of each slot
    watchers,   \* watcher threads, in the order they were spawned
    registered, \* the watcher in the registry, 0 if none
    pass,       \* the index pass of each job and watcher
    heard,      \* files last changed under the ear of the registered watcher
    torn,       \* two passes overlapped, or one was cut short
    loose       \* an add without the in-flight slot met another job

codeVars == <<managed, tree, disk, changes, code, kg, repo, in_flight, job, watchers, registered, pass, heard, torn, loose>>
ghosts == <<heard, torn, loose>>

Versions == 1..MaxVersion
NoFiles == [f \in SourceFiles |-> 0]
EmptyCode == [hash |-> NoFiles, symbols |-> {}, defines |-> {}]
NoJob == [kind |-> "none"]
NoPass == [pc |-> "none"]
WatcherIds == 1..MaxWatchers
Transient == {"cloning", "indexing", "removing"}

CodeInit ==
    /\ managed \in BOOLEAN
    /\ tree = (IF managed THEN "none" ELSE "valid")
    /\ disk = [f \in SourceFiles |-> IF managed THEN 0 ELSE 1]
    /\ changes = 0 /\ code = EmptyCode /\ kg = "none" /\ repo = "none" /\ in_flight = FALSE
    /\ job = [j \in Jobs |-> NoJob] /\ watchers = <<>> /\ registered = 0
    /\ pass = [a \in Jobs \cup WatcherIds |-> NoPass]
    /\ heard = {} /\ torn = FALSE /\ loose = FALSE

-----------------------------------------------------------------------------
(* The worktree changes: watchers that listen get an event per file. *)

Ear(w) == w # 0 /\ ~watchers[w].stop

\* The worktree becomes d.
Changed(d) ==
    LET fs == {f \in SourceFiles : d[f] # disk[f]}
    IN /\ disk' = d
       /\ heard' = IF Ear(registered) THEN heard \cup fs ELSE heard \ fs
       /\ watchers' = [w \in DOMAIN watchers |-> [watchers[w] EXCEPT !.pending = @ \cup fs]]

Edit ==
    /\ ~managed /\ changes < MaxChanges /\ changes' = changes + 1
    /\ \E f \in SourceFiles : \E v \in (0..MaxVersion) \ {disk[f]} : Changed([disk EXCEPT ![f] = v])
    /\ UNCHANGED <<managed, tree, code, kg, repo, in_flight, job, registered, pass, torn, loose>>

-----------------------------------------------------------------------------
(* The code database, and an index pass over it. *)

code_purge_file(d, f) ==
    IF d.hash[f] = 0 THEN d
    ELSE LET defined == {s \in d.defines : s[1] = f}
         IN [hash |-> [d.hash EXCEPT ![f] = 0], symbols |-> d.symbols \ defined, defines |-> d.defines \ defined]

\* The observations of an entity that is there are kept: the first hash counts.
upsert_entities(d, work) ==
    [d EXCEPT !.hash = [f \in SourceFiles |-> IF f \in DOMAIN work /\ @[f] = 0 THEN work[f].version ELSE @[f]],
              !.symbols = @ \cup {<<f, work[f].version>> : f \in DOMAIN work}]

\* A relation whose ends do not both exist is dropped.
create_relations(d, work) ==
    [d EXCEPT !.defines = @ \cup {<<f, work[f].version>> : f \in {x \in DOMAIN work : d.hash[x] # 0 /\ <<x, work[x].version>> \in d.symbols}}]

resolve == kg' = (IF kg = "none" THEN "open" ELSE kg)

\* gone: deleted files to purge; todo: files to read.  A pass whose database
\* file was deleted writes to a file nobody can open any more (lost).
Begins(a, gone, fs, force, lost) ==
    /\ pass' = [pass EXCEPT ![a] = [pc |-> "parse", gone |-> gone, todo |-> fs, force |-> force, work |-> <<>>, lost |-> lost]]
    /\ torn' = (torn \/ \E b \in DOMAIN pass : pass[b] # NoPass)

Write(a, d) == code' = IF pass[a].lost THEN code ELSE d

PurgeGone(a) ==
    /\ pass[a].pc = "parse"
    /\ \E f \in pass[a].gone :
         /\ Write(a, code_purge_file(code, f))
         /\ pass' = [pass EXCEPT ![a].gone = @ \ {f}]

Unchanged(f, force) == ~force /\ code.hash[f] = disk[f]

Adds(work, f, w) == [x \in DOMAIN work \cup {f} |-> IF x = f THEN w ELSE work[x]]

parse_one(a) ==
    /\ pass[a].pc = "parse" /\ pass[a].gone = {}
    /\ \E f \in pass[a].todo :
         pass' = [pass EXCEPT ![a].todo = @ \ {f},
                              ![a].work = IF disk[f] = 0 \/ Unchanged(f, pass[a].force) THEN @
                                          ELSE Adds(@, f, [version |-> disk[f], existed |-> code.hash[f] # 0])]
    /\ UNCHANGED code

Parsed(a) ==
    /\ pass[a].pc = "parse" /\ pass[a].gone = {} /\ pass[a].todo = {}
    /\ pass' = [pass EXCEPT ![a].pc = "purge", ![a].todo = {f \in DOMAIN pass[a].work : pass[a].work[f].existed}]
    /\ UNCHANGED code

PurgeChanged(a) ==
    /\ pass[a].pc = "purge"
    /\ \E f \in pass[a].todo :
         /\ Write(a, code_purge_file(code, f))
         /\ pass' = [pass EXCEPT ![a].todo = @ \ {f}]

WriteEntities(a) ==
    /\ pass[a].pc = "purge" /\ pass[a].todo = {}
    /\ Write(a, upsert_entities(code, pass[a].work))
    /\ pass' = [pass EXCEPT ![a].pc = "relate"]

WriteRelations(a) ==
    /\ pass[a].pc = "relate"
    /\ Write(a, create_relations(code, pass[a].work))
    /\ pass' = [pass EXCEPT ![a].pc = "done"]

index_paths(a) ==
    /\ PurgeGone(a) \/ parse_one(a) \/ Parsed(a) \/ PurgeChanged(a) \/ WriteEntities(a) \/ WriteRelations(a)
    /\ UNCHANGED <<managed, tree, disk, changes, kg, repo, in_flight, job, watchers, registered, ghosts>>

-----------------------------------------------------------------------------
(* Watchers. *)

spawn_watcher ==
    /\ watchers' = Append(watchers, [stop |-> FALSE, pending |-> {}, lost |-> FALSE])
    /\ registered' = Len(watchers) + 1
    /\ heard' = {}

\* The debounce window passed: the pending paths are taken, and the files that
\* are still there are indexed, the others purged.
Debounced(w) ==
    /\ pass[w] = NoPass /\ ~watchers[w].stop /\ watchers[w].pending # {}
    /\ watchers' = [watchers EXCEPT ![w].pending = {}]
    /\ LET gone == {f \in watchers[w].pending : disk[f] = 0}
       IN Begins(w, gone, watchers[w].pending \ gone, FALSE, watchers[w].lost)
    /\ UNCHANGED <<managed, tree, disk, changes, code, kg, repo, in_flight, job, registered, heard, loose>>

\* Mutant of BatchEnds: the pending paths are cleared after the batch, with those
\* that came in during it.
BatchEndsClears(w) ==
    /\ pass[w].pc = "done"
    /\ pass' = [pass EXCEPT ![w] = NoPass]
    /\ watchers' = [watchers EXCEPT ![w].pending = {}]
    /\ UNCHANGED <<managed, tree, disk, changes, code, kg, repo, in_flight, job, registered, ghosts>>

BatchEnds(w) ==
    /\ pass[w].pc = "done"
    /\ pass' = [pass EXCEPT ![w] = NoPass]
    /\ UNCHANGED <<managed, tree, disk, changes, code, kg, repo, in_flight, job, watchers, registered, ghosts>>

-----------------------------------------------------------------------------
(* Tool calls on the code map. *)

Idle(j) == job[j] = NoJob
Starts(j, kind, pc, slot) == job' = [job EXCEPT ![j] = [kind |-> kind, pc |-> pc, slot |-> slot, watcher |-> 0]]
Goes(j, pc) == job' = [job EXCEPT ![j].pc = pc]
Ends(j) == job' = [job EXCEPT ![j] = NoJob] /\ in_flight' = (in_flight /\ ~job[j].slot)
At(j, pc) == job[j] # NoJob /\ job[j].pc = pc

\* handle_code_index: a path that does not exist is refused.
IndexBegins(j, force) ==
    /\ tree # "none" /\ resolve
    /\ Begins(j, {}, {f \in SourceFiles : disk[f] # 0}, force, FALSE)

handle_code_index(j) ==
    /\ Idle(j)
    /\ \E force \in BOOLEAN : IndexBegins(j, force)
    /\ Starts(j, "index", "pass", FALSE)
    /\ UNCHANGED <<managed, tree, disk, changes, code, repo, in_flight, watchers, registered, heard, loose>>

\* The first index, then the watcher, which hears what changes from now on.
handle_code_watch(j) ==
    /\ Idle(j) /\ Len(watchers) < MaxWatchers
    /\ \E force \in BOOLEAN : IndexBegins(j, force)
    /\ Starts(j, "watch", "pass", FALSE)
    /\ UNCHANGED <<managed, tree, disk, changes, code, repo, in_flight, watchers, registered, heard, loose>>

ToolEnds(j) ==
    /\ pass[j].pc = "done" /\ job[j].kind \in {"index", "watch"}
    /\ pass' = [pass EXCEPT ![j] = NoPass] /\ Ends(j)
    /\ IF job[j].kind = "watch" /\ Len(watchers) < MaxWatchers
       THEN spawn_watcher /\ resolve ELSE UNCHANGED <<watchers, registered, heard, kg>>
    /\ UNCHANGED <<managed, tree, disk, changes, code, repo, torn, loose>>

-----------------------------------------------------------------------------
(* Jobs of a managed repository. *)

RepoJobs == {j \in Jobs : job[j] # NoJob /\ job[j].kind \notin {"index", "watch"}}
set_state(s) == repo' = (IF repo = "none" THEN "none" ELSE s)

\* An add of the MCP tool takes no slot.
Meets(kind) == loose' = (loose \/ (RepoJobs # {} /\ (kind = "add" \/ \E i \in RepoJobs : job[i].kind = "add")))

register(j) ==
    /\ managed /\ Idle(j) /\ repo = "none"
    /\ repo' = "pending"
    /\ \E kind \in {"add", "add_job"} : Starts(j, kind, "registered", FALSE) /\ Meets(kind)
    /\ UNCHANGED <<managed, tree, disk, changes, code, kg, in_flight, watchers, registered, pass, heard, torn>>

\* Mutant of try_begin_job: the set is not asked.
BeginAnyway == in_flight' = TRUE

try_begin_job == ~in_flight /\ in_flight' = TRUE

add_job(j) ==
    /\ At(j, "registered") /\ job[j].kind = "add_job"
    /\ \/ try_begin_job /\ job' = [job EXCEPT ![j].pc = "begin", ![j].slot = TRUE]
       \/ in_flight /\ Ends(j)
    /\ UNCHANGED <<managed, tree, disk, changes, code, kg, repo, watchers, registered, pass, ghosts>>

add(j) ==
    /\ At(j, "registered") /\ job[j].kind = "add" /\ Goes(j, "begin")
    /\ UNCHANGED <<managed, tree, disk, changes, code, kg, repo, in_flight, watchers, registered, pass, ghosts>>

\* The job forms mark the row before their thread starts, the tool forms do not.
Schedule(j, kind, state) ==
    /\ managed /\ Idle(j) /\ try_begin_job
    /\ Starts(j, kind, "begin", TRUE) /\ Meets(kind)
    /\ set_state(state) \/ UNCHANGED repo
    /\ UNCHANGED <<managed, tree, disk, changes, code, kg, watchers, registered, pass, heard, torn>>

reindex(j) == Schedule(j, "reindex", "indexing")
remove(j) == Schedule(j, "remove", "removing")

JobFails(j) == set_state("error") /\ Ends(j)

\* Every job reads the row first.  Without git an add or a reindex fails; when
\* its credentials cannot be prepared it ends and the row stays as it is.
Opens(j) ==
    /\ At(j, "begin")
    /\ \/ repo = "none" /\ Ends(j) /\ UNCHANGED repo
       \/ /\ repo # "none"
          /\ repo' = CASE job[j].kind = "remove" -> "removing" [] job[j].kind = "reindex" -> "indexing" [] OTHER -> "cloning"
          /\ \/ Goes(j, IF job[j].kind = "remove" THEN "stop" ELSE "fetch") /\ UNCHANGED in_flight
             \/ job[j].kind # "remove" /\ Ends(j)
       \/ repo # "none" /\ job[j].kind # "remove" /\ JobFails(j)
    /\ UNCHANGED <<managed, tree, disk, changes, code, kg, watchers, registered, pass, ghosts>>

\* A new clone or a pull: the worktree has whatever upstream has now.
Pulled ==
    \/ changes < MaxChanges /\ changes' = changes + 1 /\ \E v \in Versions : Changed([f \in SourceFiles |-> v])
    \/ UNCHANGED changes /\ Changed([f \in SourceFiles |-> IF disk[f] = 0 THEN 1 ELSE disk[f]])

do_update(j) ==
    /\ At(j, "fetch") /\ tree = "valid" /\ job[j].kind = "reindex"
    /\ \/ Pulled /\ Goes(j, "index") /\ UNCHANGED <<repo, in_flight>>
       \/ JobFails(j) /\ UNCHANGED <<changes, disk, watchers, heard>>
    /\ UNCHANGED <<managed, tree, code, kg, registered, pass, torn, loose>>

do_clone(j) ==
    /\ At(j, "fetch") /\ ~(tree = "valid" /\ job[j].kind = "reindex")
    /\ IF tree = "valid" THEN Goes(j, "index") /\ set_state("indexing") /\ UNCHANGED <<tree, disk, watchers, heard>>
       ELSE Goes(j, "clone") /\ tree' = "partial" /\ Changed(NoFiles) /\ UNCHANGED repo
    /\ UNCHANGED <<managed, changes, code, kg, in_flight, registered, pass, torn, loose>>

Cloned(j) ==
    /\ At(j, "clone")
    /\ \/ tree' = "valid" /\ Pulled /\ Goes(j, "index") /\ set_state("indexing") /\ UNCHANGED in_flight
       \/ tree' \in {"none", "partial"} /\ JobFails(j) /\ UNCHANGED <<changes, disk, watchers, heard>>
    /\ UNCHANGED <<managed, code, kg, registered, pass, torn, loose>>

do_index(j) ==
    /\ At(j, "index")
    /\ IF tree = "none" THEN JobFails(j) /\ UNCHANGED <<kg, pass, torn>>
       ELSE IndexBegins(j, FALSE) /\ Goes(j, "pass") /\ UNCHANGED <<repo, in_flight>>
    /\ UNCHANGED <<managed, tree, disk, changes, code, watchers, registered, heard, loose>>

Indexed(j) ==
    /\ j \in RepoJobs /\ pass[j].pc = "done"
    /\ pass' = [pass EXCEPT ![j] = NoPass] /\ set_state("indexed") /\ Ends(j)
    /\ UNCHANGED <<managed, tree, disk, changes, code, kg, watchers, registered, ghosts>>

-----------------------------------------------------------------------------
(* Removal: stop the watcher, close the database, delete its files and the
   worktree, and the row last. *)

stop_watcher(j) ==
    /\ At(j, "stop")
    /\ IF registered = 0 THEN Goes(j, "drop") /\ UNCHANGED watchers
       ELSE /\ watchers' = [watchers EXCEPT ![registered].stop = TRUE]
            /\ job' = [job EXCEPT ![j].pc = "join", ![j].watcher = registered]
    /\ registered' = 0
    /\ UNCHANGED <<managed, tree, disk, changes, code, kg, repo, in_flight, pass, ghosts>>

\* The thread sees the flag once its batch is done.
Join(j) ==
    /\ At(j, "join") /\ pass[job[j].watcher] = NoPass /\ Goes(j, "drop")
    /\ UNCHANGED <<managed, tree, disk, changes, code, kg, repo, in_flight, watchers, registered, pass, ghosts>>

\* Nobody can open the database any more that handles are still open on.
Forget ==
    /\ code' = EmptyCode
    /\ pass' = [a \in DOMAIN pass |-> IF pass[a] = NoPass THEN NoPass ELSE [pass[a] EXCEPT !.lost = TRUE]]
    /\ watchers' = [w \in DOMAIN watchers |-> [watchers[w] EXCEPT !.lost = TRUE]]

drop_project(j) ==
    /\ At(j, "drop") /\ Goes(j, "unlink")
    /\ kg' = "none"
    /\ IF kg = "unlinked" THEN Forget ELSE UNCHANGED <<code, pass, watchers>>
    /\ UNCHANGED <<managed, tree, disk, changes, repo, in_flight, registered, ghosts>>

\* A handle opened again meanwhile goes on serving the deleted file.
Unlink(j) ==
    /\ At(j, "unlink")
    /\ \/ /\ Goes(j, "rmtree") /\ UNCHANGED <<repo, in_flight>>
          /\ IF kg = "none" THEN Forget /\ UNCHANGED kg ELSE kg' = "unlinked" /\ UNCHANGED <<code, pass, watchers>>
       \/ JobFails(j) /\ UNCHANGED <<code, pass, watchers, kg>>
    /\ UNCHANGED <<managed, tree, disk, changes, registered, ghosts>>

RemoveTree(j) ==
    /\ At(j, "rmtree")
    /\ \/ tree' = "none" /\ Changed(NoFiles) /\ Goes(j, "delete") /\ UNCHANGED <<repo, in_flight>>
       \/ tree # "none" /\ tree' = "partial" /\ Changed(NoFiles) /\ JobFails(j)
    /\ UNCHANGED <<managed, changes, code, kg, registered, pass, torn, loose>>

DeleteRow(j) ==
    /\ At(j, "delete") /\ repo' = "none" /\ Ends(j)
    /\ UNCHANGED <<managed, tree, disk, changes, code, kg, watchers, registered, pass, ghosts>>

wipe_inner(j) == stop_watcher(j) \/ Join(j) \/ drop_project(j) \/ Unlink(j) \/ RemoveTree(j)
remove_inner(j) == wipe_inner(j) \/ DeleteRow(j)

\* The process stops and starts again: jobs, passes and watchers are gone, and
\* init makes the row of a job pending.
CodeRestart ==
    /\ job' = [j \in Jobs |-> NoJob] /\ pass' = [a \in DOMAIN pass |-> NoPass]
    /\ watchers' = <<>> /\ registered' = 0 /\ in_flight' = FALSE /\ kg' = "none"
    /\ code' = (IF kg = "unlinked" THEN EmptyCode ELSE code)
    /\ repo' = (IF repo \in Transient THEN "pending" ELSE repo)
    /\ heard' = {} /\ torn' = (torn \/ \E a \in DOMAIN pass : pass[a].pc \in {"purge", "relate"})
    /\ UNCHANGED <<managed, tree, disk, changes, loose>>

-----------------------------------------------------------------------------

\* The tools and the admin routes of managed repositories.
RepoCall(j) == register(j) \/ reindex(j) \/ remove(j)

\* Somebody calls a tool or an admin route, or changes a file; or the process stops.
Outside ==
    \/ Edit \/ CodeRestart
    \/ \E j \in Jobs : handle_code_index(j) \/ handle_code_watch(j) \/ RepoCall(j)

JobStep(j) ==
    \/ index_paths(j) \/ ToolEnds(j) \/ add_job(j) \/ add(j) \/ Opens(j)
    \/ do_update(j) \/ do_clone(j) \/ Cloned(j) \/ do_index(j) \/ Indexed(j) \/ remove_inner(j)

WatcherStep(w) == w \in DOMAIN watchers /\ (Debounced(w) \/ index_paths(w) \/ BatchEnds(w))

CodeNext == Outside \/ (\E j \in Jobs : JobStep(j)) \/ (\E w \in WatcherIds : WatcherStep(w))

CodeSpec == CodeInit /\ [][CodeNext]_codeVars

-----------------------------------------------------------------------------

(* Properties *)

ToolKinds == {"index", "watch"}
RepoKinds == {"add", "add_job", "reindex", "remove"}
Working == {"fetch", "clone", "index", "pass", "stop", "join", "drop", "unlink", "rmtree", "delete"}
Job == [kind : ToolKinds \cup RepoKinds, pc : Working \cup {"registered", "begin"}, slot : BOOLEAN,
        watcher : 0..MaxWatchers]
CodeDb == [hash : [SourceFiles -> 0..MaxVersion], symbols : SUBSET (SourceFiles \X Versions),
           defines : SUBSET (SourceFiles \X Versions)]
WorkLists == UNION {[fs -> [version : Versions, existed : BOOLEAN]] : fs \in SUBSET SourceFiles}
Pass == [pc : {"parse", "purge", "relate", "done"}, gone : SUBSET SourceFiles, todo : SUBSET SourceFiles,
         force : BOOLEAN, work : WorkLists, lost : BOOLEAN]
Watcher == [stop : BOOLEAN, pending : SUBSET SourceFiles, lost : BOOLEAN]

CodeTypeOK ==
    /\ disk \in [SourceFiles -> 0..MaxVersion] /\ heard \subseteq SourceFiles /\ code \in CodeDb
    /\ job \in [Jobs -> Job \cup {NoJob}] /\ in_flight \in BOOLEAN
    /\ watchers \in Seq(Watcher) /\ Len(watchers) <= MaxWatchers /\ registered \in 0..Len(watchers)
    /\ pass \in [Jobs \cup WatcherIds -> Pass \cup {NoPass}]

Mapped(f) ==
    LET now == IF disk[f] = 0 THEN {} ELSE {<<f, disk[f]>>}
    IN /\ code.hash[f] = disk[f]
       /\ {s \in code.symbols : s[1] = f} = now
       /\ {s \in code.defines : s[1] = f} = now

\* However edits, deletions and pulls fall between a watcher's reads and its
\* writes, once it is quiet the map of every file it heard of is the map of what
\* the file holds now - as long as no two index passes overlapped, none was cut
\* short, and no removal that began before the watcher deleted its database
\* (spawn_watcher, index_paths).
QuietMapIsCurrent ==
    /\ Ear(registered) /\ watchers[registered].pending = {} /\ ~watchers[registered].lost
    /\ \A a \in DOMAIN pass : pass[a] = NoPass
    /\ ~torn
    => \A f \in heard : Mapped(f)

\* A repository without a row has no worktree left, whatever fails and
\* wherever a removal stops - unless an add of the MCP tool, which takes no
\* in-flight slot, met another job.
NothingLeftBehind ==
    managed /\ ~loose /\ repo = "none" /\ RepoJobs = {} => tree = "none"

\* Why: the in-flight slot has one owner, and every job but an add of the MCP
\* tool has it once it is past its registration.
JobsInv ==
    \A j \in Jobs : job[j] # NoJob =>
        /\ job[j].slot => in_flight /\ \A i \in Jobs : job[i] # NoJob /\ job[i].slot => i = j
        /\ job[j].kind \in ToolKinds => job[j].pc = "pass" /\ ~job[j].slot
        /\ job[j].kind \in RepoKinds => job[j].slot \/ job[j].kind = "add" \/ job[j].pc = "registered"

\* An add that met no other job is alone; a job that works on a repository works
\* under its row, which goes after the worktree.
RowInv ==
    managed /\ ~loose =>
        /\ \A i, j \in RepoJobs : job[i].kind = "add" => i = j
        /\ \A j \in RepoJobs :
             /\ job[j].pc \in Working \ {"pass", "index"} => repo # "none"
             /\ job[j].pc = "delete" => tree = "none"
        /\ repo = "none" => tree = "none"

\* Why the map is current: the database describes one version of each file, or
\* none, except while a pass is about to write the relations of what it read.
Of(f, rows) == {s \in rows : s[1] = f}
Only(f, v) == IF v = 0 THEN {} ELSE {<<f, v>>}
Ordered(d, f) == Of(f, d.symbols) = Only(f, d.hash[f]) /\ Of(f, d.defines) = Only(f, d.hash[f])

\* What the registered watcher heard of and took up when it last did.
Settled ==
    IF Ear(registered) /\ ~watchers[registered].lost THEN heard \ watchers[registered].pending ELSE {}

\* In database d nothing is to be done for f when files are as in dk and those
\* in fs have been taken up.
AtRest(d, dk, fs, f) == Ordered(d, f) /\ (f \in fs => d.hash[f] = dk[f])

\* What a pass p has still to do for f.
Underway(p, d, dk, fs, f) ==
    /\ p.pc = "parse" =>
         /\ Ordered(d, f)
         /\ f \in DOMAIN p.work => p.gone = {} /\ f \notin p.todo /\ (p.work[f].existed <=> d.hash[f] # 0)
         /\ f \in fs => /\ f \in p.gone => dk[f] = 0
                        /\ f \in p.todo => dk[f] # 0
                        /\ f \in DOMAIN p.work => p.work[f].version = dk[f]
                        /\ f \notin p.gone \cup p.todo \cup DOMAIN p.work => d.hash[f] = dk[f]
    /\ p.pc = "purge" =>
         /\ Ordered(d, f)
         /\ f \in p.todo => f \in DOMAIN p.work
         /\ f \in DOMAIN p.work \ p.todo => d.hash[f] = 0
         /\ f \in fs => dk[f] = IF f \in DOMAIN p.work THEN p.work[f].version ELSE d.hash[f]
    /\ p.pc = "relate" =>
         IF f \in DOMAIN p.work
         THEN /\ d.hash[f] = p.work[f].version /\ (f \in fs => d.hash[f] = dk[f])
              /\ Of(f, d.symbols) = Only(f, d.hash[f]) /\ Of(f, d.defines) = {}
         ELSE AtRest(d, dk, fs, f)
    /\ p.pc = "done" => AtRest(d, dk, fs, f)

Active == {a \in DOMAIN pass : pass[a] # NoPass}

MapInv ==
    ~torn => /\ \A a, b \in Active : a = b
             /\ \A f \in SourceFiles : IF \E a \in Active : ~pass[a].lost
                                       THEN \A a \in Active : Underway(pass[a], code, disk, Settled, f)
                                       ELSE AtRest(code, disk, Settled, f)

=============================================================================
