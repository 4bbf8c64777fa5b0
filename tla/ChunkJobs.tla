------------------------------ MODULE ChunkJobs ------------------------------
(***************************************************************************)
(* The durable side of the embedding index: the owners of text (entities,  *)
(* relation mirrors, attachments), the table chunk_index_job, the stored   *)
(* chunk vectors, the profile registry and the ANN generation markers.     *)
(*                                                                         *)
(* Every action is one SQLite write transaction (TxGuard::begin takes the  *)
(* write lock), so it is atomic against every other connection.  The       *)
(* worker and the snapshot reader, which spread over several transactions, *)
(* are in IndexerWorker and ManagedSnapshot.                               *)
(*                                                                         *)
(* Time is kept as one flag per job row: `ripe' says that the timer of the *)
(* row (next_attempt_us of a pending row, lease_until_us of a leased one)  *)
(* has passed.  A lease, the pair (lease_token, lease_epoch), is named by  *)
(* the worker that claimed it: a worker runs one job at a time and forgets *)
(* its claim when run_once returns, so the pair of its current claim is    *)
(* the only one it can present.  Every statement that changes lease_epoch  *)
(* replaces or clears lease_token with it.                                 *)
(***************************************************************************)
EXTENDS Integers, FiniteSets

CONSTANTS
    Profiles,     \* ids of index profiles that may be adopted
    Entities,     \* entity ids; never reused (graph.next_entity_id)
    Relations,    \* relation mirror ids, an initial segment 1..n of rowids
    Attachments,  \* attachment rowids; reused after a delete
    Ends,         \* the entities that every modelled relation joins
    Parent,       \* the entity that owns each attachment
    Blank,        \* attachments whose extraction yields no text
    Workers,      \* indexer processes
    NoProfile,    \* stands for a NULL profile id
    NoLease,      \* stands for a NULL lease token
    MaxAttempts,  \* MAX_ATTEMPTS of the indexer
    MaxContent    \* bound: text versions of one owner

ASSUME ChunkJobsAssumption ==
    /\ NoProfile \notin Profiles
    /\ NoLease \notin Workers
    /\ Relations \subseteq Nat \ {0}
    /\ Entities \cap Relations = {}
    /\ Entities \cap Attachments = {}
    /\ Relations \cap Attachments = {}
    /\ Ends \subseteq Entities
    /\ Parent \in [Attachments -> Entities]
    /\ Blank \subseteq Attachments
    /\ MaxAttempts \in Nat \ {0}
    /\ MaxContent \in Nat

Owners == Entities \cup Relations \cup Attachments

VARIABLES
    owner,     \* entity_revision, taxonomy_relation and attachment rows
    registry,  \* the row of index_profile_registry
    job,       \* chunk_index_job, one row per profile and owner
    vec,       \* chunk_vector, the revision and text of an owner's chunk set
    gen,       \* ann_generation, one row per profile
    adopted    \* ids present in index_profile

tables == <<owner, registry, job, vec, gen, adopted>>

-----------------------------------------------------------------------------
(* Rows *)

\* `content' numbers the texts an owner has had; two texts of one owner differ
\* exactly when their numbers do, while `rev' may repeat (see CreateRelation).
OwnerRow == [st : {"absent", "uploaded", "error", "live", "tomb"},
             rev : Nat, content : 0..MaxContent]

Operations == {"upsert", "delete"}

JobRow == [st : {"none", "pending", "leased", "done", "dead", "held"},
           op : Operations, rev : Nat, lease : Workers \cup {NoLease},
           ripe : BOOLEAN, attempts : 0..MaxAttempts]

\* The two parts of a document that are read by two queries keep the content
\* number each query saw.
VecRow == [rev : Nat, head : 0..MaxContent, body : 0..MaxContent]

\* -1 stands for a NULL full_scan_generation and for "never published".
GenRow == [durable : Nat, published : Int, full : Int]

NoRow == [st |-> "none", op |-> "upsert", rev |-> 0, lease |-> NoLease,
          ripe |-> FALSE, attempts |-> 0]
NoVec == [rev |-> 0, head |-> 0, body |-> 0]

Registry == [state : {"LegacyCompat", "Active", "Rebuilding", "Failed"},
             serving : Profiles \cup {NoProfile},
             candidate : Profiles \cup {NoProfile}]

Live(o) == owner[o].st = "live"

\* serving_profile_ids: the profiles that receive index jobs.
Fed == {p \in Profiles : \/ registry.serving = p
                         \/ registry.state = "Rebuilding" /\ registry.candidate = p}

\* The row enqueue_chunk_change writes: the claim of whoever held the row ends.
FreshRow(o, own) ==
    [st |-> "pending", op |-> IF own[o].st = "live" THEN "upsert" ELSE "delete",
     rev |-> own[o].rev, lease |-> NoLease, ripe |-> TRUE, attempts |-> 0]

\* enqueue_chunk_change for every owner in C, whose rows `own' already holds.
\* With no managed profile the rows go to the nil profile, held: no operation
\* reads them, so they are left out.
Enqueue(C, own) ==
    [p \in Profiles |-> [o \in Owners |->
        IF p \in Fed /\ o \in C THEN FreshRow(o, own) ELSE job[p][o]]]

Unscanned(g) == [durable |-> g.durable, published |-> g.published, full |-> -1]
Advanced(g) == [durable |-> g.durable + 1, published |-> g.published, full |-> -1]

\* A graph mutation: the owner rows become `own' and the owners in C are queued.
Write(own, C) ==
    /\ owner' = own
    /\ job' = Enqueue(C, own)
    /\ gen' = [p \in Profiles |-> IF p \in Fed /\ C # {} THEN Unscanned(gen[p]) ELSE gen[p]]
    /\ UNCHANGED <<registry, vec, adopted>>

-----------------------------------------------------------------------------
(* Graph mutations *)

Rewritten(row) == [row EXCEPT !.rev = @ + 1, !.content = @ + 1]
Touched(row) == [row EXCEPT !.rev = @ + 1]
Buried(row) == [row EXCEPT !.st = "tomb", !.rev = @ + 1]
Created(row) == [st |-> "live", rev |-> 1, content |-> row.content + 1]

CreateEntity(e) ==
    /\ owner[e].st = "absent"
    /\ owner[e].content < MaxContent
    /\ Write([owner EXCEPT ![e] = Created(@)], {e})

\* Observations, retyping and renaming all rewrite the entity's document.
UpdateEntity(e) ==
    /\ Live(e)
    /\ owner[e].content < MaxContent
    /\ Write([owner EXCEPT ![e] = Rewritten(@)], {e})

LiveMirrors(e) == {r \in Relations : e \in Ends /\ Live(r)}
FilesOf(e) == {a \in Attachments : Parent[a] = e /\ owner[a].st # "absent"}

\* Profiles that know attachment a, by a job or by a vector.
Indexed(a) == {p \in Profiles : job[p][a] # NoRow \/ vec[p][a] # NoVec}

\* The row delete of attachments (delete_attachment_rows) takes the job rows
\* and the vectors with it, in every profile.
WithoutFiles(t, A, none) ==
    [p \in Profiles |-> [o \in Owners |-> IF o \in A THEN none ELSE t[p][o]]]

\* The delete cascades to the files of the entity and tombstones its relations;
\* the other endpoint of a tombstoned relation changes with it.
DeleteEntity(e) ==
    LET files  == FilesOf(e)
        buried == {e} \cup LiveMirrors(e)
        others == IF LiveMirrors(e) = {} THEN {} ELSE Ends \ {e}
        own    == [o \in Owners |->
                     IF o \in files THEN [owner[o] EXCEPT !.st = "absent", !.rev = 0]
                     ELSE IF o \in buried THEN Buried(owner[o])
                     ELSE IF o \in others THEN Touched(owner[o])
                     ELSE owner[o]]
        known  == UNION {Indexed(a) : a \in files}
    IN /\ Live(e)
       /\ owner' = own
       /\ job' = WithoutFiles(Enqueue(buried \cup others, own), files, NoRow)
       /\ vec' = WithoutFiles(vec, files, NoVec)
       /\ gen' = [p \in Profiles |-> IF p \in known THEN Advanced(gen[p])
                                     ELSE IF p \in Fed THEN Unscanned(gen[p])
                                     ELSE gen[p]]
       /\ UNCHANGED <<registry, adopted>>

EndsLive == \A e \in Ends : Live(e)

\* SQLite gives a new row of taxonomy_relation, an INTEGER PRIMARY KEY without
\* AUTOINCREMENT, the largest rowid in the table plus one.
IsNextMirror(r, own) ==
    /\ own[r].st = "absent"
    /\ \A s \in Relations : own[s].st # "absent" => s < r
    /\ r = 1 \/ (r - 1 \in Relations /\ own[r - 1].st # "absent")

\* A new triple gets a new mirror; a triple that was deleted gets its own mirror
\* back, at revision 1 again.
CreateRelation(r) ==
    /\ EndsLive
    /\ owner[r].st = "tomb" \/ IsNextMirror(r, owner)
    /\ owner[r].content < MaxContent
    /\ Write([o \in Owners |-> IF o = r THEN Created(owner[o])
                               ELSE IF o \in Ends THEN Touched(owner[o])
                               ELSE owner[o]],
             {r} \cup Ends)

\* Adding or deleting observations of a relation is quiet for its endpoints.
UpdateRelation(r) ==
    /\ Live(r)
    /\ owner[r].content < MaxContent
    /\ Write([owner EXCEPT ![r] = Rewritten(@)], {r})

DeleteRelation(r) ==
    /\ Live(r)
    /\ Write([o \in Owners |-> IF o = r THEN Buried(owner[o])
                               ELSE IF o \in Ends THEN Touched(owner[o])
                               ELSE owner[o]],
             {r} \cup Ends)

\* ReverseRelation and ChangeRelationType: the tombstone of the target triple,
\* if there is one (`old'), is deleted outright, a fresh mirror s takes the
\* children of r, and r is tombstoned.
MoveRelation(r, old, s) ==
    LET cleared == [o \in Owners |-> IF o \in old
                                     THEN [owner[o] EXCEPT !.st = "absent", !.rev = 0]
                                     ELSE owner[o]]
    IN /\ Live(r)
       /\ \A o \in old : owner[o].st = "tomb"
       /\ IsNextMirror(s, cleared)
       /\ owner[s].content < MaxContent
       /\ Write([o \in Owners |-> IF o = s THEN Created(cleared[o])
                                  ELSE IF o = r THEN Buried(cleared[o])
                                  ELSE IF o \in Ends THEN Touched(cleared[o])
                                  ELSE cleared[o]],
                {r, s} \cup Ends)

\* write_attachment stores the file at revision 1 and queues its extraction.
UploadAttachment(a) ==
    /\ Live(Parent[a])
    /\ owner[a].st = "absent"
    /\ Write([owner EXCEPT ![a] = [@ EXCEPT !.st = "uploaded", !.rev = 1]], {})

\* The extraction worker publishes the text of the file (complete), or gives up.
ExtractAttachment(a) ==
    /\ owner[a].st = "uploaded"
    /\ owner[a].content < MaxContent
    /\ Write([owner EXCEPT ![a] = [Rewritten(@) EXCEPT !.st = "live"]], {a})

AbandonExtraction(a) ==
    /\ owner[a].st = "uploaded"
    /\ Write([owner EXCEPT ![a] = [@ EXCEPT !.st = "error"]], {})

DeleteAttachment(a) ==
    /\ owner[a].st # "absent"
    /\ owner' = [owner EXCEPT ![a] = [@ EXCEPT !.st = "absent", !.rev = 0]]
    /\ job' = WithoutFiles(job, {a}, NoRow)
    /\ vec' = WithoutFiles(vec, {a}, NoVec)
    /\ gen' = [p \in Profiles |-> IF p \in Indexed(a) THEN Advanced(gen[p]) ELSE gen[p]]
    /\ UNCHANGED <<registry, adopted>>

Mutation ==
    \/ \E e \in Entities : CreateEntity(e) \/ UpdateEntity(e) \/ DeleteEntity(e)
    \/ \E r \in Relations : CreateRelation(r) \/ UpdateRelation(r) \/ DeleteRelation(r)
    \/ \E r, s \in Relations : \/ MoveRelation(r, {}, s)
                               \/ \E t \in Relations : MoveRelation(r, {t}, s)
    \/ \E a \in Attachments : \/ UploadAttachment(a) \/ ExtractAttachment(a)
                              \/ AbandonExtraction(a) \/ DeleteAttachment(a)

-----------------------------------------------------------------------------
(* The profile registry *)

\* Mutant of RebuildRow: every row starts at revision 1.
RebuildRowAtOne(o) ==
    IF Live(o) \/ (o \in Relations /\ owner[o].st = "tomb")
    THEN [FreshRow(o, owner) EXCEPT !.rev = 1] ELSE NoRow

\* The rows begin_rebuild queues for a new candidate: every live entity and
\* ready attachment, and every relation mirror, tombstones included.
RebuildRow(o) ==
    IF Live(o) \/ (o \in Relations /\ owner[o].st = "tomb")
    THEN FreshRow(o, owner) ELSE NoRow

\* Mutant of BeginRebuild: a retired profile id may be used again.
BeginRebuildAgain(p) ==
    /\ registry.state # "Rebuilding"
    /\ adopted' = adopted \cup {p}
    /\ registry' = [registry EXCEPT !.state = "Rebuilding", !.candidate = p]
    /\ gen' = [gen EXCEPT ![p] = [durable |-> 0, published |-> -1, full |-> -1]]
    /\ job' = [job EXCEPT ![p] = [o \in Owners |-> RebuildRow(o)]]
    /\ UNCHANGED <<owner, vec>>

BeginRebuild(p) ==
    /\ registry.state # "Rebuilding"
    /\ p \notin adopted
    /\ adopted' = adopted \cup {p}
    /\ registry' = [registry EXCEPT !.state = "Rebuilding", !.candidate = p]
    /\ gen' = [gen EXCEPT ![p] = [durable |-> 0, published |-> -1, full |-> -1]]
    /\ job' = [job EXCEPT ![p] = [o \in Owners |-> RebuildRow(o)]]
    /\ UNCHANGED <<owner, vec>>

\* Unfinished rows of profiles outside P lose their claim and are held.
HeldExcept(P) ==
    [p \in Profiles |-> [o \in Owners |->
        IF p \in P \/ job[p][o].st \in {"none", "done"} THEN job[p][o]
        ELSE [job[p][o] EXCEPT !.st = "held", !.lease = NoLease]]]

FailRebuild ==
    /\ registry.state = "Rebuilding"
    /\ registry' = [registry EXCEPT !.state = "Failed"]
    /\ job' = HeldExcept(Profiles \ {registry.candidate})
    /\ UNCHANGED <<owner, vec, gen, adopted>>

\* The rows of attachment a at profile p match its stored text.
AttachmentIndexed(p, a) ==
    IF a \in Blank THEN vec[p][a] = NoVec
    ELSE vec[p][a] # NoVec /\ vec[p][a].rev = owner[a].rev

\* Mutants of VectorsCurrent: vectors of any revision count, whatever is queued;
\* a dead-lettered owner blocks the gate.
VectorsCurrentAnyRevision(p) ==
    \A o \in Owners : Live(o) => job[p][o].st = "dead" \/ vec[p][o] # NoVec

VectorsCurrentNoneDead(p) ==
    \A o \in Owners : /\ Live(o) => vec[p][o] # NoVec /\ vec[p][o].rev = owner[o].rev
                      /\ job[p][o].st \in {"none", "done", "dead"}

\* verify_vectors_current
VectorsCurrent(p) ==
    /\ \A o \in Entities \cup Relations :
         /\ Live(o) => \/ job[p][o].st = "dead"
                       \/ vec[p][o] # NoVec /\ vec[p][o].rev = owner[o].rev
         /\ vec[p][o] # NoVec => Live(o)
    /\ \A a \in Attachments :
         /\ owner[a].st # "uploaded"
         /\ Live(a) => /\ job[p][a].st \in {"done", "dead"}
                       /\ job[p][a].rev = owner[a].rev
                       /\ job[p][a].st = "done" => AttachmentIndexed(p, a)
                       /\ job[p][a].st = "dead" => vec[p][a] = NoVec
         /\ vec[p][a] # NoVec => Live(a) /\ a \notin Blank /\ vec[p][a].rev = owner[a].rev
    /\ \A o \in Owners : job[p][o].st \in {"none", "done", "dead"}

\* verify_full_scan stamps the current durable generation.
VerifyFullScan(p) ==
    /\ VectorsCurrent(p)
    /\ gen' = [gen EXCEPT ![p].full = gen[p].durable]
    /\ UNCHANGED <<owner, registry, job, vec, adopted>>

MarkPublished(p, g) ==
    /\ gen[p].durable = g
    /\ gen' = [gen EXCEPT ![p].published = g]
    /\ UNCHANGED <<owner, registry, job, vec, adopted>>

CanActivate(p) ==
    /\ registry.state = "Rebuilding"
    /\ registry.candidate = p
    /\ VectorsCurrent(p)
    /\ gen[p].full = gen[p].durable
    /\ gen[p].published = gen[p].durable

Activate(p) ==
    /\ CanActivate(p)
    /\ registry' = [state |-> "Active", serving |-> p, candidate |-> NoProfile]
    /\ job' = HeldExcept({p})
    /\ UNCHANGED <<owner, vec, gen, adopted>>

-----------------------------------------------------------------------------
(* The job repository, as the worker calls it.  k is the worker's copy of  *)
(* the claimed row.                                                        *)

Due(p, o) ==
    /\ job[p][o].st \in {"pending", "leased"}
    /\ job[p][o].ripe
    /\ p \in Fed

SetRow(p, o, row) == [job EXCEPT ![p][o] = row]
SetVec(p, o, chunks) == [vec EXCEPT ![p][o] = chunks]

LeasedTo(w, row) ==
    [row EXCEPT !.st = "leased", !.lease = w, !.ripe = FALSE,
                !.attempts = IF @ < MaxAttempts THEN @ + 1 ELSE @]

\* claim_due orders the due rows by next_attempt_us and id; any due row may be
\* the first.  `attempts' is only ever compared with MaxAttempts and stops there.
ClaimRow(w, p, o) ==
    /\ Due(p, o)
    /\ job' = SetRow(p, o, LeasedTo(w, job[p][o]))
    /\ UNCHANGED <<owner, registry, vec, gen, adopted>>

\* Mutant of Holds: the lease token is not compared.
HoldsAnyLease(w, k, late) ==
    /\ job[k.p][k.o].st = "leased"
    /\ late \/ ~job[k.p][k.o].ripe

\* The fence of renew, retry and commit_chunks.  `late': the caller read the
\* clock before it waited for the write lock, so the lease it still sees as
\* running may have run out meanwhile.
Holds(w, k, late) ==
    /\ job[k.p][k.o].st = "leased"
    /\ job[k.p][k.o].lease = w
    /\ late \/ ~job[k.p][k.o].ripe

RenewRow(k) ==
    /\ job' = SetRow(k.p, k.o, [job[k.p][k.o] EXCEPT !.ripe = FALSE])
    /\ UNCHANGED <<owner, registry, vec, gen, adopted>>

\* Mutant of RetryRow: no owner ever dies.
RetryRowForever(k) ==
    /\ job' = SetRow(k.p, k.o, [job[k.p][k.o] EXCEPT !.st = "pending", !.ripe = FALSE])
    /\ UNCHANGED <<owner, registry, vec, gen, adopted>>

\* retry: back to pending with a new timer, or dead.  A dead owner loses its
\* vectors; only for an attachment does that advance the generation.
RetryRow(k) ==
    LET dead == k.attempts >= MaxAttempts
    IN /\ job' = SetRow(k.p, k.o, [job[k.p][k.o] EXCEPT
                    !.st = IF dead THEN "dead" ELSE "pending", !.ripe = FALSE])
       /\ vec' = IF dead THEN SetVec(k.p, k.o, NoVec) ELSE vec
       /\ gen' = IF dead /\ k.o \in Attachments /\ vec[k.p][k.o] # NoVec
                 THEN [gen EXCEPT ![k.p] = Advanced(@)] ELSE gen
       /\ UNCHANGED <<owner, registry, adopted>>

\* commit_chunks accepts the claim: the row is still the claimed one, and the
\* owner is alive or tombstoned as the operation says, at the job's revision.
\* A delete job of an attachment is never accepted.
CommitAccepts(w, k, late) ==
    /\ Holds(w, k, late)
    /\ job[k.p][k.o].rev = k.rev
    /\ owner[k.o].rev = k.rev
    /\ owner[k.o].st = IF k.op = "upsert" THEN "live" ELSE "tomb"

\* The chunk set commit_chunks stores for a document.
Chunks(k, doc) ==
    IF k.op = "delete" \/ k.o \in Blank THEN NoVec
    ELSE [rev |-> k.rev, head |-> doc.head, body |-> doc.body]

CommitRow(k, doc) ==
    /\ vec' = SetVec(k.p, k.o, Chunks(k, doc))
    /\ job' = SetRow(k.p, k.o, [job[k.p][k.o] EXCEPT !.st = "done"])
    /\ gen' = [gen EXCEPT ![k.p] = Advanced(@)]
    /\ UNCHANGED <<owner, registry, adopted>>

-----------------------------------------------------------------------------

StoreInit ==
    /\ owner = [o \in Owners |-> [st |-> "absent", rev |-> 0, content |-> 0]]
    /\ registry = [state |-> "LegacyCompat", serving |-> NoProfile, candidate |-> NoProfile]
    /\ job = [p \in Profiles |-> [o \in Owners |-> NoRow]]
    /\ vec = [p \in Profiles |-> [o \in Owners |-> NoVec]]
    /\ gen = [p \in Profiles |-> [durable |-> 0, published |-> -1, full |-> -1]]
    /\ adopted = {}

StoreTypeOK ==
    /\ owner \in [Owners -> OwnerRow]
    /\ registry \in Registry
    /\ job \in [Profiles -> [Owners -> JobRow]]
    /\ vec \in [Profiles -> [Owners -> VecRow]]
    /\ gen \in [Profiles -> GenRow]
    /\ adopted \subseteq Profiles

=============================================================================
