----------------------------- MODULE IndexSystem -----------------------------
(***************************************************************************)
(* The whole index: graph mutations, the profile registry, the indexer     *)
(* workers and the readers' snapshots, all running against one database.   *)
(***************************************************************************)
EXTENDS IndexerWorker, ManagedSnapshot

vars == <<tables, workerVars, readerVars>>

Init == StoreInit /\ WorkerInit /\ ReaderInit

StoreStep ==
    /\ Mutation \/ (\E p \in Profiles : BeginRebuild(p)) \/ FailRebuild
    /\ UNCHANGED <<workerVars, readerVars>>

IndexerStep ==
    /\ \/ \E w \in Workers : WorkerStep(w) \/ Crash(w)
       \/ \E p \in Profiles, o \in Owners : TimerPasses(p, o)
    /\ UNCHANGED readerVars

SnapshotStep == (\E r \in Readers : ReaderStep(r)) /\ UNCHANGED workerVars

Next == StoreStep \/ IndexerStep \/ SnapshotStep

Spec == Init /\ [][Next]_vars

\* The runtime polls run_once and reconcile_managed_snapshot forever
\* (IndexerService, McpTransportService) and time goes on; nobody has to write
\* to the graph, start or fail a rebuild, or crash.
Fairness ==
    /\ \A w \in Workers : WF_vars(WorkerStep(w) /\ UNCHANGED readerVars)
    /\ \A p \in Profiles, o \in Owners :
         WF_vars(~Running(p, o) /\ TimerPasses(p, o) /\ UNCHANGED readerVars)
    /\ \A r \in Readers : /\ WF_vars(ReaderStep(r) /\ UNCHANGED workerVars)
                            /\ SF_vars(ReadState(r) /\ UNCHANGED workerVars)

FairSpec == Spec /\ Fairness

-----------------------------------------------------------------------------
(* Properties *)

\* The rows, registry, workers and readers have the shape their tables and
\* structs allow.
TypeOK == StoreTypeOK /\ WorkerTypeOK /\ ReaderTypeOK

\* The chunk set that an owner should have: its current text at its current
\* revision, read in one piece, or nothing.
Expected(o) ==
    IF Live(o) /\ o \notin Blank
    THEN [rev |-> owner[o].rev, head |-> owner[o].content, body |-> owner[o].content]
    ELSE NoVec

\* Every live owner is queued, at its current revision, in the serving profile
\* and in a rebuilding candidate: no write that races begin_rebuild, a failed
\* rebuild or an activation is forgotten.
NothingForgotten ==
    \A p \in Fed, o \in Owners :
        Live(o) => /\ job[p][o].st \in {"pending", "leased", "done", "dead"}
                   /\ job[p][o].rev = owner[o].rev
                   /\ job[p][o].op = "upsert"

\* commit_chunks: a job that is done stored exactly the text its owner has now,
\* never a text the worker read before a later write, before the mirror id was
\* given back at the same revision, or half before and half after a write.  A
\* dead-lettered owner has no chunk set at all.
DoneMeansCurrent ==
    \A p \in Fed, o \in Owners :
        /\ job[p][o].st = "done" => vec[p][o] = Expected(o)
        /\ job[p][o].st = "dead" => vec[p][o] = NoVec

\* The full-scan stamp of verify_full_scan stays true for as long as it equals
\* the durable generation: no live owner of the profile has unfinished work.
ScanStampSound ==
    \A p \in Fed, o \in Owners :
        gen[p].full = gen[p].durable /\ Live(o) => job[p][o].st \in {"done", "dead"}

\* Search is right end to end: a reader whose snapshot carries the durable
\* generation of a fed profile serves, for every owner whose job is done, the
\* owner's current text, and nothing for a deleted owner.  The rows of a deleted
\* file are gone at once, job included, and so is the file from the search.
SearchIsCurrent ==
    \A r \in Readers, o \in Owners :
        LET p == snapshot[r].profile
        IN /\ p \in Fed
           /\ snapshot[r].gen = gen[p].durable
           /\ job[p][o].st = "done" \/ (o \in Attachments /\ ~Live(o))
           => snapshot[r].vectors[o] = Expected(o)

-----------------------------------------------------------------------------
(* The strengthening that makes the safety properties inductive *)

RegistryInv ==
    /\ {registry.serving, registry.candidate} \subseteq adopted \cup {NoProfile}
    /\ registry.state = "Active" => registry.serving # NoProfile
    /\ registry.state = "Rebuilding" => registry.candidate # NoProfile
    /\ registry.state \in {"Rebuilding", "Failed"} => registry.candidate # registry.serving

\* Claims exist only in fed profiles: failing or replacing a profile ends them.
ClaimsAreFed ==
    \A p \in Profiles, o \in Owners : job[p][o].st \in {"pending", "leased"} => p \in Fed

\* While the row a worker claimed still names it, nothing has changed since: the
\* row is the one claimed and what the worker read is the owner's text.
ClaimStillGood(w) ==
    LET k == worker[w].k
        row == job[k.p][k.o]
        text == owner[k.o].content
    IN /\ k \in Claimed
       /\ (row.st = "leased" /\ row.lease = w) =>
            /\ row.rev = k.rev
            /\ row.op = k.op
            /\ worker[w].pc \in {"reread", "embed", "renew"} => worker[w].doc.head = text
            /\ worker[w].pc \in {"embed", "renew"} => worker[w].doc.body = text
            /\ worker[w].pc = "commit" /\ k.op = "upsert"
               => worker[w].doc = [head |-> text, body |-> text]

WorkersInv ==
    \A w \in Workers : /\ ~At(w, "idle") => ClaimStillGood(w)
                       /\ At(w, "embed") => worker[w].left > 0

\* A file that is not ready has no vectors, in any profile.
FilesInv == \A p \in Profiles, a \in Attachments : vec[p][a] # NoVec => Live(a)

\* A snapshot of profile p is no newer than the store, and if it is not older it
\* has the stored chunk set of every owner whose job is done and of every file.
Agrees(s) ==
    s.profile # NoProfile =>
       /\ s.profile \in adopted
       /\ s.gen <= gen[s.profile].durable
       /\ s.gen = gen[s.profile].durable =>
            \A o \in Owners : job[s.profile][o].st = "done" \/ o \in Attachments
                              => s.vectors[o] = vec[s.profile][o]

ReaderInv(r) ==
    LET new == reader[r].next
    IN /\ Agrees(snapshot[r])
       /\ snapshot[r].profile = NoProfile => snapshot[r].gen = 0
       /\ ~ReaderAt(r, "rest") => new.profile \in adopted
       /\ reader[r].pc \notin {"rest", "generation", "check"} =>
            /\ new.gen <= gen[new.profile].durable
            /\ snapshot[r].profile = new.profile => snapshot[r].gen <= new.gen
       /\ reader[r].pc \in {"mark", "verify", "activate", "swap"} => Agrees(new)

ReadersInv == \A r \in Readers : ReaderInv(r)

IInv ==
    /\ TypeOK
    /\ RegistryInv
    /\ ClaimsAreFed
    /\ NothingForgotten
    /\ DoneMeansCurrent
    /\ ScanStampSound
    /\ FilesInv
    /\ WorkersInv
    /\ ReadersInv

-----------------------------------------------------------------------------
(* What the repository claims, action properties and liveness *)

\* jobs.rs, retry: "A dead-lettered owner must not keep a stale chunk set in the
\* candidate: the verified full-scan gate would otherwise publish a snapshot
\* serving an outdated embedding."
NoDeadLetterServed ==
    \A r \in Readers, o \in Owners :
        LET p == snapshot[r].profile
        IN /\ registry.state = "Active"
           /\ p = registry.serving
           /\ snapshot[r].gen = gen[p].durable
           /\ job[p][o].st = "dead"
           => snapshot[r].vectors[o] = NoVec

\* A snapshot never goes back to an older generation of its profile.
SnapshotsAdvance ==
    [][\A r \in Readers : snapshot'[r].profile = snapshot[r].profile
                          => snapshot'[r].gen >= snapshot[r].gen]_vars

\* The serving profile is replaced only by one that is complete: when search
\* moves to a new profile every live owner has its current text there or is
\* dead-lettered, and no claim on the old profile can write any more.
ActivationIsComplete ==
    [][registry'.serving # registry.serving
       => LET p == registry'.serving
          IN /\ \A o \in Owners : Live(o) => \/ job'[p][o].st = "dead"
                                             \/ vec'[p][o] = Expected(o)
             /\ \A q \in Profiles \ {p}, o \in Owners :
                  job'[q][o].st \notin {"pending", "leased"}]_vars

\* The indexer's promise (MAX_ATTEMPTS): every job of a fed profile is settled
\* or given up, whatever the provider does; none occupies the queue forever.
JobsSettle ==
    \A p \in Profiles, o \in Owners :
        job[p][o].st \in {"pending", "leased"}
        ~> job[p][o].st \in {"none", "done", "dead", "held"}

\* A rebuild ends: the candidate is activated, or an operator fails it.  It needs
\* every extraction to end, which is up to the extraction worker.
RebuildEnds ==
    (registry.state = "Rebuilding")
    ~> (registry.state # "Rebuilding" \/ \E a \in Attachments : owner[a].st = "uploaded")

\* Everything indexed becomes searchable: once writes stop and no rebuild is on,
\* every reader ends up with the durable generation of the serving profile.
ReadersCatchUp ==
    \A r \in Readers :
        (registry.state = "Active")
        ~> \/ registry.state # "Active"
           \/ /\ snapshot[r].profile = registry.serving
              /\ snapshot[r].gen = gen[registry.serving].durable

=============================================================================
