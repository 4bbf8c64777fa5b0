----------------------------- MODULE Attachments -----------------------------
(***************************************************************************)
(* Files on entities: upload sessions, the byte budget of the workspace,   *)
(* and the extraction of their text by workers that lease attachment_job.  *)
(*                                                                         *)
(* Every call of the upload API is one transaction.  A worker's run_once   *)
(* is split where it leaves the database: the claim, the read of the blob, *)
(* the read of the checkpoints, the render and the OCR of a page with a    *)
(* renewal of the lease after each, the checkpoint of a page, the commit   *)
(* or the record of a failure.                                             *)
(*                                                                         *)
(* Bytes are counted in blocks, a chunk is one block, and the text of a    *)
(* page is the pair of the file it was read from and its number.  A rowid  *)
(* is given again after a delete, so `serial' (a history value) tells the  *)
(* files apart that had the same rowid.  Time is one flag per session      *)
(* (`expired') and per job (`ripe': next_attempt_us of a pending row or    *)
(* lease_until_us of a leased one has passed).  A lease (token, epoch) is  *)
(* named by the worker that took it.                                       *)
(***************************************************************************)
EXTENDS Integers, Sequences, FiniteSetsExt

CONSTANTS
    Entities,     \* entities that files belong to
    Names,        \* file names
    Docs,         \* contents of files that pass the MIME allowlist
    Size,         \* blocks of a content
    Blocks,       \* blocks a client may send; the k-th of a content is k
    Pages,        \* pages of a PDF; 0: not a PDF, one page of decoded text
    Uploads,      \* upload sessions (random UUIDs: none is created twice)
    Ids,          \* rowids of attachment
    Workers,      \* extraction workers, of one process or several
    NoLease,      \* stands for a NULL lease token
    NoFile,       \* a session or a worker without a file
    MaxBytes,     \* max_bytes
    Budget,       \* workspace_byte_budget
    MaxAttempts,  \* MAX_ATTEMPTS, and the 8 of claim_due and retry
    PagesPerTurn, \* MAX_PAGES_PER_TURN
    MaxPages,     \* MAX_PDF_PAGES
    MaxFiles      \* bound: files stored

\* "It equals MAX_ATTEMPTS times MAX_PAGES_PER_TURN".
ASSUME AttachmentsAssumption ==
    /\ Ids \subseteq Nat \ {0}
    /\ NoLease \notin Workers
    /\ NoFile \notin Ids
    /\ Size \in [Docs -> Nat]
    /\ Pages \in [Docs -> Nat]
    /\ Blocks \subseteq Nat
    /\ MaxBytes \in Nat
    /\ Budget \in Nat
    /\ MaxAttempts \in Nat \ {0}
    /\ PagesPerTurn \in Nat \ {0}
    /\ MaxPages = MaxAttempts * PagesPerTurn
    /\ MaxFiles \in Nat

VARIABLES
    live,   \* entities that exist
    upload, \* attachment_upload with its chunks
    file,   \* attachment
    job,    \* attachment_job
    text,   \* attachment_text: page number to text
    worker, \* the stack of run_once of each worker
    stored  \* history: files stored so far

vars == <<live, upload, file, job, text, worker, stored>>
rows == <<file, job, text>>

NoSession == [st |-> "none"]
Gone == [st |-> "gone"]
NoRow == [st |-> "none"]
\* `hurt' is a history value: an attempt on this file met a failure.
NoJob == [st |-> "none", lease |-> NoLease, ripe |-> FALSE, attempts |-> 0, hurt |-> FALSE]
NoText == <<>>
Idle == [pc |-> "idle", id |-> NoFile, rev |-> 0, attempts |-> 0, lease |-> "valid",
         doc |-> NoFile, serial |-> 0, pages |-> NoText, left |-> 0, dead |-> FALSE]

Init ==
    /\ live = Entities
    /\ upload = [u \in Uploads |-> NoSession]
    /\ file = [i \in Ids |-> NoRow]
    /\ job = [i \in Ids |-> NoJob]
    /\ text = [i \in Ids |-> NoText]
    /\ worker = [w \in Workers |-> Idle]
    /\ stored = 0

-----------------------------------------------------------------------------
(* Storing a file *)

Stored == {i \in Ids : file[i].st # "none"}
Reserving == {u \in Uploads : upload[u].st = "open" /\ ~upload[u].expired}

Total(f, S) == MapThenSumSet(LAMBDA x : f[x], S)

\* The bytes check_budget counts: stored files and the reservations of others.
Held == [i \in Stored |-> Size[file[i].doc]]
Reserved == [u \in Reserving |-> Size[upload[u].doc]]
Taken(excluded) == Total(Held, Stored) + Total(Reserved, Reserving \ excluded)

\* Mutant of InBudget: only stored files are counted.
InBudgetOfStored(d, excluded) == Total(Held, Stored) + Size[d] <= Budget

InBudget(d, excluded) == Taken(excluded) + Size[d] <= Budget

\* validate_file: the name is free on a live entity.
Admitted(e, n, d) ==
    /\ Size[d] <= MaxBytes
    /\ e \in live
    /\ \A i \in Stored : <<file[i].ent, file[i].name>> # <<e, n>>

\* SQLite gives a new row the largest rowid plus one.
IsNextId(i) == (\A j \in Stored : j < i) /\ (i = 1 \/ i - 1 \in Stored)

\* write_attachment, once the bytes match the declared length and digest.
StoreRow(i, e, n, d) ==
    /\ stored < MaxFiles
    /\ IsNextId(i)
    /\ file' = [file EXCEPT ![i] = [st |-> "uploaded", ent |-> e, name |-> n, doc |-> d,
                                    rev |-> 1, serial |-> stored + 1]]
    /\ job' = [job EXCEPT ![i] = [NoJob EXCEPT !.st = "pending", !.ripe = TRUE]]
    /\ stored' = stored + 1
    /\ UNCHANGED text

Begin(u, e, n, d) ==
    /\ upload[u].st = "none"
    /\ Admitted(e, n, d)
    /\ InBudget(d, {})
    /\ upload' = [upload EXCEPT ![u] = [st |-> "open", ent |-> e, name |-> n, doc |-> d,
                                        got |-> <<>>, expired |-> FALSE, id |-> NoFile,
                                        serial |-> 0]]
    /\ UNCHANGED <<live, rows, worker, stored>>

\* A session that is neither finished nor expired.
Usable(u) == upload[u].st = "open" /\ ~upload[u].expired

\* append_attachment_chunk of the next index, with the block a client sends for
\* it.  A repeat of the last chunk answers as before, any other index is
\* refused: neither changes anything.
AppendChunk(u, block) ==
    /\ Usable(u)
    /\ Taken({}) <= Budget
    /\ upload[u].ent \in live
    /\ Len(upload[u].got) < Size[upload[u].doc]
    /\ upload' = [upload EXCEPT ![u].got = Append(@, block)]
    /\ UNCHANGED <<live, rows, worker, stored>>

\* The bytes have the declared length and SHA-256.
Complete(u) == upload[u].got = [k \in 1..Size[upload[u].doc] |-> k]

\* finish_upload; a second call answers with the stored id and changes nothing.
Finish(u, i) ==
    LET s == upload[u]
    IN /\ Usable(u)
       /\ Complete(u)
       /\ Admitted(s.ent, s.name, s.doc)
       /\ InBudget(s.doc, {u})
       /\ StoreRow(i, s.ent, s.name, s.doc)
       /\ upload' = [upload EXCEPT ![u] = [s EXCEPT !.st = "done", !.got = <<>>, !.id = i,
                                                    !.serial = stored + 1]]
       /\ UNCHANGED <<live, worker>>

\* cancel_upload takes a finished session too; its file stays.
Cancel(u) ==
    /\ upload[u].st \in {"open", "done"}
    /\ upload' = [upload EXCEPT ![u] = Gone]
    /\ UNCHANGED <<live, rows, worker, stored>>

\* POST of a whole body, counted and hashed while it is spooled.
StoreReader(e, n, d, i) ==
    /\ Admitted(e, n, d)
    /\ InBudget(d, {})
    /\ StoreRow(i, e, n, d)
    /\ UNCHANGED <<live, upload, worker>>

\* Mutant of Ended: the finished session of a removed file stays.
EndedUnfinished(u, S, E) == upload[u].st = "open" /\ upload[u].ent \in E

\* The sessions that go with the files S and the entities E.
Ended(u, S, E) == \/ upload[u].st = "open" /\ upload[u].ent \in E
                  \/ upload[u].st = "done" /\ upload[u].id \in S

\* delete_attachment_rows, for each file of S.
RemoveRows(S, E) ==
    /\ file' = [i \in Ids |-> IF i \in S THEN NoRow ELSE file[i]]
    /\ job' = [i \in Ids |-> IF i \in S THEN NoJob ELSE job[i]]
    /\ text' = [i \in Ids |-> IF i \in S THEN NoText ELSE text[i]]
    /\ upload' = [u \in Uploads |-> IF Ended(u, S, E) THEN Gone ELSE upload[u]]
    /\ UNCHANGED <<worker, stored>>

DeleteFile(i) == i \in Stored /\ RemoveRows({i}, {}) /\ UNCHANGED live

\* delete_entities: the files and the unfinished sessions go with the entity.
DeleteEntity(e) ==
    /\ e \in live
    /\ live' = live \ {e}
    /\ RemoveRows({i \in Stored : file[i].ent = e}, {e})

\* An entity may come back under the rowid of a deleted one.
CreateEntity(e) ==
    /\ e \notin live
    /\ live' = live \cup {e}
    /\ UNCHANGED <<upload, rows, worker, stored>>

ClientStep ==
    \/ \E u \in Uploads :
         \/ Cancel(u)
         \/ \E e \in Entities, n \in Names, d \in Docs : Begin(u, e, n, d)
         \/ \E b \in Blocks : AppendChunk(u, b)
         \/ \E i \in Ids : Finish(u, i)
    \/ \E e \in Entities : DeleteEntity(e) \/ CreateEntity(e)
    \/ \E i \in Ids : DeleteFile(i)
    \/ \E i \in Ids, e \in Entities, n \in Names, d \in Docs : StoreReader(e, n, d, i)

-----------------------------------------------------------------------------
(* The extraction worker *)

At(w, pc) == worker[w].pc = pc

\* Mutant of Swept: the chunks go and the reservation stays.
SweptChunks(u) == IF upload[u].st = "open" /\ upload[u].expired
                  THEN [upload[u] EXCEPT !.got = <<>>] ELSE upload[u]

\* expire_uploads.  It is the first transaction of run_once and touches no row
\* that claim_due, the second one, reads: the model takes them in one step.
Swept(u) == IF upload[u].st = "open" /\ upload[u].expired THEN Gone ELSE upload[u]

\* The leases claim_due gives up: lapsed, and no attempt is left.
Spent(i) == job[i].st = "leased" /\ job[i].ripe /\ job[i].attempts >= MaxAttempts

GivenUp(i) == IF Spent(i) THEN [job[i] EXCEPT !.st = "dead", !.lease = NoLease] ELSE job[i]

Failed(i) == IF Spent(i) THEN [file[i] EXCEPT !.st = "error"] ELSE file[i]

\* Mutant of Due: only pending rows are taken.
DuePending(i) ==
    /\ file[i].st \in {"uploaded", "extracting"}
    /\ file[i].ent \in live
    /\ job[i].attempts < MaxAttempts
    /\ job[i].st = "pending" /\ job[i].ripe

\* claim_due takes the row with the smallest next_attempt_us; the model lets any
\* due row be the first.
Due(i) == /\ file[i].st \in {"uploaded", "extracting"}
          /\ file[i].ent \in live
          /\ job[i].attempts < MaxAttempts
          /\ job[i].st \in {"pending", "leased"} /\ job[i].ripe

ClaimNothing(w) ==
    /\ At(w, "idle")
    /\ \A i \in Ids : ~Due(i)
    /\ file' = [i \in Ids |-> Failed(i)]
    /\ job' = [i \in Ids |-> GivenUp(i)]
    /\ upload' = [u \in Uploads |-> Swept(u)]
    /\ UNCHANGED <<live, text, worker, stored>>

Claim(w, i) ==
    /\ At(w, "idle")
    /\ Due(i)
    /\ file' = [j \in Ids |-> IF j = i THEN [file[i] EXCEPT !.st = "extracting"] ELSE Failed(j)]
    /\ job' = [j \in Ids |-> IF j = i THEN [job[i] EXCEPT !.st = "leased", !.lease = w,
                                                            !.ripe = FALSE, !.attempts = @ + 1]
                             ELSE GivenUp(j)]
    /\ worker' = [worker EXCEPT ![w] = [Idle EXCEPT !.pc = "read", !.id = i,
                                                    !.rev = file[i].rev,
                                                    !.attempts = job[i].attempts + 1]]
    /\ upload' = [u \in Uploads |-> Swept(u)]
    /\ UNCHANGED <<live, text, stored>>

\* Mutant of Holds: the lease is not compared.
HoldsAnyLease(w) == worker[w].id # NoFile /\ job[worker[w].id].st = "leased"

\* The lease is the worker's own.
Holds(w) ==
    /\ worker[w].id # NoFile
    /\ job[worker[w].id].st = "leased"
    /\ job[worker[w].id].lease = w

\* fenced, apart from the deadline.
Fenced(w) == LET f == file[worker[w].id]
             IN Holds(w) /\ f.st = "extracting" /\ f.rev = worker[w].rev /\ f.ent \in live

\* The clock is read before the lock is taken: a lease that lapses in between
\* may still go through.  Once a reading was past the deadline, all later ones
\* are.
Passes(w) == Fenced(w) /\ worker[w].lease # "lost"
Refused(w) == Fenced(w) => worker[w].lease # "valid"

Stop(w) == worker' = [worker EXCEPT ![w] = Idle]
Go(w, pc) == worker' = [worker EXCEPT ![w].pc = pc]
Fail(w, dead) == worker' = [worker EXCEPT ![w].pc = "fail", ![w].dead = dead]

\* The blob is read outside a transaction; without a row run_once ends in an
\* error.
Read(w) ==
    LET f == file[worker[w].id]
    IN /\ At(w, "read")
       /\ \/ f.st = "none" /\ Stop(w)
          \/ /\ f.st # "none"
             /\ worker' = [worker EXCEPT ![w].pc = "open", ![w].doc = f.doc,
                                         ![w].serial = f.serial]
       /\ UNCHANGED <<live, upload, rows, stored>>

\* extract_text decodes all of a text file; extract_pdf counts the pages and
\* resumes after the checkpoints.  OCR may not be configured, the bytes may not
\* be UTF-8 (both terminal), pdfinfo or the render directory may fail.
Open(w) ==
    LET p == Pages[worker[w].doc]
    IN /\ At(w, "open")
       /\ \/ \E dead \in BOOLEAN : Fail(w, dead)
          \/ /\ p = 0
             /\ worker' = [worker EXCEPT ![w].pc = "commit",
                                         ![w].pages = [q \in 1..1 |-> <<worker[w].serial, q>>]]
          \/ /\ p \in 1..MaxPages
             /\ worker' = [worker EXCEPT ![w].pc = "page", ![w].left = PagesPerTurn,
                                         ![w].pages = text[worker[w].id]]
       /\ UNCHANGED <<live, upload, rows, stored>>

NextPage(w) == Len(worker[w].pages) + 1

\* renew: go on with a lease of full length, or stop because it is lost.
Renewed(w, pc) ==
    \/ /\ Passes(w)
       /\ job' = [job EXCEPT ![worker[w].id].ripe = FALSE]
       /\ worker' = [worker EXCEPT ![w].pc = pc, ![w].lease = "valid"]
    \/ Refused(w) /\ Stop(w) /\ UNCHANGED job

\* Mutant of TurnOver: off by one.
TurnOverEarly(w) == worker[w].left <= 1

\* The pages of this turn are used up.
TurnOver(w) == worker[w].left = 0

\* The head of the page loop; without a page left in this turn the job keeps
\* its lease and resumes when it lapses.
Render(w) ==
    /\ At(w, "page")
    /\ \/ NextPage(w) > Pages[worker[w].doc] /\ Go(w, "commit") /\ UNCHANGED job
       \/ /\ NextPage(w) <= Pages[worker[w].doc]
          /\ \/ TurnOver(w) /\ Stop(w) /\ UNCHANGED job
             \/ ~TurnOver(w) /\ Fail(w, FALSE) /\ UNCHANGED job
             \/ ~TurnOver(w) /\ Renewed(w, "ocr")
    /\ UNCHANGED <<live, upload, file, text, stored>>

\* transcribe_page and the renewal after it.
Ocr(w) ==
    /\ At(w, "ocr")
    /\ \/ \E dead \in BOOLEAN : Fail(w, dead) /\ UNCHANGED job
       \/ Renewed(w, "save")
    /\ UNCHANGED <<live, upload, file, text, stored>>

WithPage(t, p, source) == [q \in DOMAIN t \cup {p} |-> IF q = p THEN source ELSE t[q]]

\* checkpoint_page: one INSERT, fenced by the lease alone; it fails with the
\* database, or on the primary key.  A refused page is kept in memory all the
\* same.
Checkpoint(w) ==
    LET i == worker[w].id
        p == NextPage(w)
        source == <<worker[w].serial, p>>
        pushed(lease) == [worker[w] EXCEPT !.pc = "page", !.left = @ - 1, !.lease = lease,
                                           !.pages = Append(@, source)]
    IN /\ At(w, "save")
       /\ \/ /\ Holds(w) /\ worker[w].lease # "lost"
             /\ p \notin DOMAIN text[i]
             /\ text' = [text EXCEPT ![i] = WithPage(@, p, source)]
             /\ worker' = [worker EXCEPT ![w] = pushed(@.lease)]
          \/ Fail(w, FALSE) /\ UNCHANGED text
          \/ /\ Holds(w) => worker[w].lease # "valid"
             /\ worker' = [worker EXCEPT ![w] = pushed("lost")]
             /\ UNCHANGED text
       /\ UNCHANGED <<live, upload, file, job, stored>>

\* complete: the text of every page is written anew, in one fenced transaction.
\* Its chunks and its index job are ChunkJobs' ExtractAttachment.
Publish(w) ==
    LET i == worker[w].id
    IN /\ At(w, "commit")
       /\ \/ /\ Passes(w)
             /\ text' = [text EXCEPT ![i] = worker[w].pages]
             /\ file' = [file EXCEPT ![i].st = "ready", ![i].rev = @ + 1]
             /\ job' = [job EXCEPT ![i].st = "done", ![i].lease = NoLease]
          \/ Refused(w) /\ UNCHANGED rows
       /\ Stop(w)
       /\ UNCHANGED <<live, upload, stored>>

Dead(w) == worker[w].dead \/ worker[w].attempts >= MaxAttempts

\* Mutant of Retried: the job is closed and the file is forgotten.
RetriedKeepsStatus(w) ==
    /\ job' = [job EXCEPT ![worker[w].id].st = IF Dead(w) THEN "dead" ELSE "pending",
                          ![worker[w].id].lease = NoLease, ![worker[w].id].ripe = FALSE,
                          ![worker[w].id].hurt = TRUE]
    /\ UNCHANGED file

\* retry: the next attempt a second later, or the end.
Retried(w) ==
    /\ job' = [job EXCEPT ![worker[w].id].st = IF Dead(w) THEN "dead" ELSE "pending",
                          ![worker[w].id].lease = NoLease, ![worker[w].id].ripe = FALSE,
                          ![worker[w].id].hurt = TRUE]
    /\ file' = [file EXCEPT ![worker[w].id].st = IF Dead(w) THEN "error" ELSE "extracting"]

Retry(w) ==
    /\ At(w, "fail")
    /\ \/ Passes(w) /\ Retried(w)
       \/ Refused(w) /\ UNCHANGED <<file, job>>
    /\ Stop(w)
    /\ UNCHANGED <<live, upload, text, stored>>

WorkerStep(w) ==
    \/ ClaimNothing(w) \/ \E i \in Ids : Claim(w, i)
    \/ Read(w) \/ Open(w) \/ Render(w) \/ Ocr(w) \/ Checkpoint(w) \/ Publish(w) \/ Retry(w)

-----------------------------------------------------------------------------
(* Time and faults *)

Running(i) == \E w \in Workers : ~At(w, "idle") /\ worker[w].id = i /\ job[i].lease = w

\* A process stops, or run_once returns an error of the database.
Crash(w) ==
    /\ ~At(w, "idle")
    /\ Stop(w)
    /\ job' = IF Holds(w) THEN [job EXCEPT ![worker[w].id].hurt = TRUE] ELSE job
    /\ UNCHANGED <<live, upload, file, text, stored>>

\* A worker outlives its lease: rendering and OCR are bounded below it, waiting
\* for the database and the scheduler are not.
Overrun(w) ==
    /\ Holds(w) /\ worker[w].lease = "valid"
    /\ worker' = [worker EXCEPT ![w].lease = "lapsing"]
    /\ job' = [job EXCEPT ![worker[w].id].ripe = TRUE, ![worker[w].id].hurt = TRUE]
    /\ UNCHANGED <<live, upload, file, text, stored>>

\* The retry delay passes, or the lease of a job nobody works on.
TimerPasses(i) ==
    /\ job[i].st \in {"pending", "leased"} /\ ~job[i].ripe
    /\ job[i].st = "leased" => ~Running(i)
    /\ job' = [job EXCEPT ![i].ripe = TRUE]
    /\ UNCHANGED <<live, upload, file, text, worker, stored>>

\* An hour passes.
Lapse(u) ==
    /\ upload[u].st = "open" /\ ~upload[u].expired
    /\ upload' = [upload EXCEPT ![u].expired = TRUE]
    /\ UNCHANGED <<live, rows, worker, stored>>

Next ==
    \/ ClientStep
    \/ \E w \in Workers : WorkerStep(w) \/ Crash(w) \/ Overrun(w)
    \/ \E i \in Ids : TimerPasses(i)
    \/ \E u \in Uploads : Lapse(u)

Spec == Init /\ [][Next]_vars

\* The extractor role runs run_once when something is due, and every 30 seconds.
Fairness == /\ \A w \in Workers : WF_vars(WorkerStep(w))
            /\ \A i \in Ids : WF_vars(TimerPasses(i))
            /\ \A u \in Uploads : WF_vars(Lapse(u))

FairSpec == Spec /\ Fairness

-----------------------------------------------------------------------------
(* Properties *)

\* The rows of a file are a run of pages from the first: extract_pdf takes
\* their number for the last page that is done.
Texts == Seq((1..MaxFiles) \X Nat)

SessionRow == [st : {"open", "done"}, ent : Entities, name : Names, doc : Docs,
               got : Seq(Blocks), expired : BOOLEAN, id : Ids \cup {NoFile},
               serial : 0..MaxFiles]
FileRow == [st : {"uploaded", "extracting", "ready", "error"}, ent : Entities, name : Names,
            doc : Docs, rev : 1..2, serial : 1..MaxFiles]
JobRow == [st : {"none", "pending", "leased", "done", "dead"}, lease : Workers \cup {NoLease},
           ripe : BOOLEAN, attempts : 0..MaxAttempts, hurt : BOOLEAN]
WorkerRow == [pc : {"idle", "read", "open", "page", "ocr", "save", "commit", "fail"},
              id : Ids \cup {NoFile}, rev : 0..2, attempts : 0..MaxAttempts,
              lease : {"valid", "lapsing", "lost"}, doc : Docs \cup {NoFile}, serial : 0..MaxFiles,
              pages : Texts, left : 0..PagesPerTurn, dead : BOOLEAN]

\* The tables and stacks keep their shape; no job is claimed more than
\* MAX_ATTEMPTS times, whatever crashes or outlives its lease, and no turn
\* pays for more than MAX_PAGES_PER_TURN pages.
TypeOK ==
    /\ live \subseteq Entities
    /\ upload \in [Uploads -> SessionRow \cup {NoSession, Gone}]
    /\ file \in [Ids -> FileRow \cup {NoRow}]
    /\ job \in [Ids -> JobRow]
    /\ text \in [Ids -> Texts]
    /\ worker \in [Workers -> WorkerRow]
    /\ stored \in 0..MaxFiles

\* check_budget: stored bytes and the reservations of live sessions together
\* never exceed the budget, whichever way files come in.
BudgetHolds == Taken({}) <= Budget

\* finish_upload answers a repeated call with the id it stored; that id is
\* still the file of this session, never one that got the rowid later.
FinishedNamesOwn ==
    \A u \in Uploads :
        upload[u].st = "done" => LET i == upload[u].id
                                 IN i \in Stored /\ file[i].serial = upload[u].serial

StatusFits(f, j) ==
    /\ f.st = "none" <=> j.st = "none"
    /\ f.st = "uploaded" => j.st = "pending" /\ j.attempts = 0
    /\ f.st = "extracting" => j.st \in {"pending", "leased"}
    /\ f.st = "ready" <=> j.st = "done"
    /\ f.st = "error" <=> j.st = "dead"

\* What users see (status) and what workers obey (the job) never disagree,
\* although each is written by a statement of its own: a file is not shown as
\* extracting without a job that can still end it, and an `error' or `ready'
\* file is not claimed again.
StatusMatchesJob == \A i \in Ids : StatusFits(file[i], job[i])

\* "a maximum-size PDF completes within the eight-claim dead-letter bound": a
\* file is given up only if an attempt on it failed, crashed or lost its lease.
OnlyFailuresKill ==
    \A i \in Ids : file[i].st = "error" => job[i].hurt

PageCount(d) == IF Pages[d] = 0 THEN 1 ELSE Pages[d]

\* The first n pages of a file, and of no other.
Own(serial, n) == [p \in 1..n |-> <<serial, p>>]

\* All the text of the file that has the rowid now.
WholeText(i) == text[i] = Own(file[i].serial, PageCount(file[i].doc))

Phase(i) == IF file[i].st \in {"uploaded", "extracting"} THEN "stored"
            ELSE IF file[i].st = "error" THEN "failed" ELSE file[i].st
Phases == [i \in Ids |-> Phase(i)]
Revisions == [i \in Ids |-> IF file[i].st = "none" THEN 0 ELSE file[i].rev]
Wholes == {i \in Ids : file[i].st = "ready" /\ WholeText(i)}

Life == INSTANCE FileLife WITH phase <- Phases, rev <- Revisions, whole <- Wholes

\* Sessions, leases, checkpoints and retries implement the life of a file: it
\* is published once, whole, with its own text, or given up; no stale worker
\* publishes into a file that got the rowid of another.
IsFileLife == Life!Spec

-----------------------------------------------------------------------------
(* The strengthening that makes these inductive *)

\* Files go with their entity.
ParentInv == \A i \in Stored : file[i].ent \in live

\* Checkpoints are pages of the file itself, in order; a published text is whole.
TextInv(i) ==
    /\ i \notin Stored => text[i] = NoText
    /\ i \in Stored => text[i] = Own(file[i].serial, Len(text[i]))
    /\ file[i].st \in {"uploaded", "extracting"} => Len(text[i]) <= Pages[file[i].doc]
    /\ file[i].st = "ready" => WholeText(i)
    /\ i \in Stored => (file[i].rev = 2 <=> file[i].st = "ready")

Transcribing(w) == worker[w].pc \in {"page", "ocr", "save"}

\* A worker that holds its lease knows the file, and its pages in memory are the
\* checkpoints of the file, unless one was refused; then it cannot go on.
ClaimInv(w) ==
    LET i == worker[w].id
        s == worker[w].serial
        t == worker[w].pages
    IN /\ worker[w].attempts = job[i].attempts
       /\ worker[w].rev = file[i].rev
       /\ worker[w].lease = "valid" <=> ~job[i].ripe
       /\ worker[w].lease # "valid" => job[i].hurt
       /\ ~At(w, "read") => s = file[i].serial /\ worker[w].doc = file[i].doc
       /\ worker[w].lease # "lost" =>
            /\ Transcribing(w) => t = text[i]
            /\ At(w, "commit") => t = Own(s, PageCount(worker[w].doc))

\* What a busy worker knows, whether its lease holds or not.
StackInv(w) ==
    /\ At(w, "idle") <=> worker[w].id = NoFile
    /\ ~At(w, "idle") /\ ~At(w, "read") => worker[w].serial # 0 /\ worker[w].doc \in Docs
    /\ Transcribing(w) => Pages[worker[w].doc] \in 1..MaxPages
    /\ worker[w].pc \in {"ocr", "save"} => /\ NextPage(w) <= Pages[worker[w].doc]
                                          /\ worker[w].left > 0

\* Without a failure every turn but the last one adds PagesPerTurn pages.
TurnsInv(i) ==
    LET j == job[i]
        done == Len(text[i])
    IN ~j.hurt =>
         /\ j.st = "pending" => j.attempts = 0 /\ done = 0
         /\ j.st = "leased" /\ ~Running(i) =>
              done = j.attempts * PagesPerTurn /\ done < Pages[file[i].doc]
              /\ Pages[file[i].doc] <= MaxPages
         /\ \A w \in Workers :
              worker[w].id = i /\ Holds(w) =>
                /\ worker[w].pc \in {"read", "open"} => done = (j.attempts - 1) * PagesPerTurn
                /\ Transcribing(w) => done = j.attempts * PagesPerTurn - worker[w].left

Inductive ==
    /\ TypeOK
    /\ StatusMatchesJob
    /\ FinishedNamesOwn
    /\ OnlyFailuresKill
    /\ ParentInv
    /\ \A i \in Ids : TextInv(i) /\ TurnsInv(i)
    /\ \A w \in Workers : StackInv(w) /\ (Holds(w) => ClaimInv(w))

\* Only finitely many files and sessions are there to be added up.
BudgetInv == BudgetHolds /\ IsFiniteSet(Stored) /\ IsFiniteSet(Reserving)

-----------------------------------------------------------------------------
(* Liveness, and what the repository claims *)

\* Every stored file is published, given up or removed.
FilesSettle ==
    \A i \in Ids : file[i].st = "uploaded" ~> file[i].st \in {"none", "ready", "error"}

\* A reservation nobody finishes is given back.
ReservationsEnd == \A u \in Uploads : upload[u].st = "open" ~> upload[u].st \in {"done", "gone"}

=============================================================================
