---------------------------- MODULE IndexerWorker ----------------------------
(***************************************************************************)
(* The indexer process: IndexerWorker::run_once of crates/mcpmem-indexer,  *)
(* split where it leaves the database: between the claim and the first     *)
(* renewal, around the two reads of a document, around every provider      *)
(* request, and before the commit.  Between two steps any other process    *)
(* may run.                                                                *)
(***************************************************************************)
EXTENDS ChunkJobs

CONSTANTS
    NoJob,       \* a worker between two runs
    MaxBatches,  \* bound: provider requests of one document
    MaxFaults    \* bound: crashes, and leases that lapse under a running worker

ASSUME WorkerAssumption ==
    /\ MaxBatches \in Nat \ {0}
    /\ MaxFaults \in Nat
    /\ NoJob \notin [p : Profiles, o : Owners, op : Operations, rev : Nat,
                     attempts : 0..MaxAttempts]

VARIABLES
    worker,  \* where each worker stands in run_once, and its local values
    faults   \* faults so far

workerVars == <<worker, faults>>

\* The copy claim_due returns.
Claimed == [p : Profiles, o : Owners, op : Operations, rev : Nat,
            attempts : 0..MaxAttempts]

Doc == [head : 0..MaxContent, body : 0..MaxContent]
NoDoc == [head |-> 0, body |-> 0]

Idle == [pc |-> "idle", k |-> NoJob, doc |-> NoDoc, left |-> 0]

WorkerState ==
    [pc : {"idle", "claimed", "read", "reread", "embed", "renew", "commit", "failed"},
     k : Claimed \cup {NoJob}, doc : Doc, left : 0..MaxBatches]

At(w, pc) == worker[w].pc = pc
Become(w, state) == worker' = [worker EXCEPT ![w] = state]
Go(w, pc) == Become(w, [worker[w] EXCEPT !.pc = pc])
Return(w) == Become(w, Idle)

\* A worker whose run is not over still counts on its lease.
Running(p, o) == \E w \in Workers : ~At(w, "idle") /\ worker[w].k.p = p /\ worker[w].k.o = o
                                    /\ job[p][o].lease = w

-----------------------------------------------------------------------------

Claim(w, p, o) ==
    /\ At(w, "idle")
    /\ ClaimRow(w, p, o)
    /\ Become(w, [pc |-> "claimed", doc |-> NoDoc, left |-> 0,
                  k |-> [p |-> p, o |-> o, op |-> job[p][o].op, rev |-> job[p][o].rev,
                         attempts |-> LeasedTo(w, job[p][o]).attempts]])
    /\ UNCHANGED faults

\* Nothing is due: run_once turns to the taxonomy jobs and returns.
FindNothing(w) ==
    /\ At(w, "idle")
    /\ \A p \in Profiles, o \in Owners : ~Due(p, o)
    /\ UNCHANGED <<tables, workerVars>>

\* The renewal before the work starts.
StartWork(w, late) ==
    LET k == worker[w].k
    IN /\ At(w, "claimed")
       /\ \/ /\ Holds(w, k, late)
             /\ RenewRow(k)
             /\ Go(w, IF k.op = "delete" THEN "commit" ELSE "read")
          \/ /\ ~Holds(w, k, late)
             /\ Return(w)
             /\ UNCHANGED tables
       /\ UNCHANGED faults

\* canonical_document, and the first query of relation_chunks and
\* attachment_chunks: fenced on the owner's revision and liveness.
ReadDocument(w) ==
    LET k == worker[w].k
        found == Live(k.o) /\ owner[k.o].rev = k.rev
    IN /\ At(w, "read")
       /\ \/ /\ ~found
             /\ Go(w, "failed")
          \/ /\ found
             /\ k.o \in Entities
             /\ \E n \in 1..MaxBatches :
                  Become(w, [pc |-> "embed", k |-> k, left |-> n,
                             doc |-> [head |-> owner[k.o].content,
                                      body |-> owner[k.o].content]])
          \/ /\ found
             /\ k.o \notin Entities
             /\ Become(w, [pc |-> "reread", k |-> k, left |-> 0,
                           doc |-> [NoDoc EXCEPT !.head = owner[k.o].content]])
       /\ UNCHANGED <<tables, faults>>

\* The second query of relation_chunks (the observations) and attachment_chunks
\* (the segments) is not fenced.  No segments: straight to the commit.
ReadBody(w) ==
    LET k == worker[w].k
        doc == [worker[w].doc EXCEPT !.body = owner[k.o].content]
    IN /\ At(w, "reread")
       /\ \/ /\ k.o \in Blank
             /\ Become(w, [pc |-> "commit", k |-> k, doc |-> doc, left |-> 0])
          \/ /\ k.o \notin Blank
             /\ \E n \in 1..MaxBatches :
                  Become(w, [pc |-> "embed", k |-> k, doc |-> doc, left |-> n])
       /\ UNCHANGED <<tables, faults>>

\* One provider request; it may fail.
Embed(w) ==
    /\ At(w, "embed")
    /\ \/ Become(w, [worker[w] EXCEPT !.pc = "renew", !.left = @ - 1])
       \/ Go(w, "failed")
    /\ UNCHANGED <<tables, faults>>

\* The renewal between two requests and before the commit.
RenewLease(w, late) ==
    LET k == worker[w].k
    IN /\ At(w, "renew")
       /\ \/ /\ Holds(w, k, late)
             /\ RenewRow(k)
             /\ Go(w, IF worker[w].left > 0 THEN "embed" ELSE "commit")
          \/ /\ ~Holds(w, k, late)
             /\ Return(w)
             /\ UNCHANGED tables
       /\ UNCHANGED faults

\* commit_chunks: accepted, refused (the row stays leased), or an error that
\* rolls back because the provider's vectors do not fit the profile.
Commit(w, late) ==
    LET k == worker[w].k
    IN /\ At(w, "commit")
       /\ \/ /\ CommitAccepts(w, k, late)
             /\ CommitRow(k, worker[w].doc)
             /\ Return(w)
          \/ /\ ~CommitAccepts(w, k, late)
             /\ Return(w)
             /\ UNCHANGED tables
          \/ /\ CommitAccepts(w, k, late)
             /\ Chunks(k, worker[w].doc) # NoVec
             /\ Go(w, "failed")
             /\ UNCHANGED tables
       /\ UNCHANGED faults

\* The error path of run_once.
Retry(w, late) ==
    LET k == worker[w].k
    IN /\ At(w, "failed")
       /\ \/ Holds(w, k, late) /\ RetryRow(k)
          \/ ~Holds(w, k, late) /\ UNCHANGED tables
       /\ Return(w)
       /\ UNCHANGED faults

\* The process dies, or a database error ends run_once early.
Crash(w) ==
    /\ ~At(w, "idle")
    /\ faults < MaxFaults
    /\ faults' = faults + 1
    /\ Return(w)
    /\ UNCHANGED tables

\* The timer of a row passes: a retry falls due, or a lease lapses.
TimerPasses(p, o) ==
    /\ job[p][o].st \in {"pending", "leased"}
    /\ ~job[p][o].ripe
    /\ job' = SetRow(p, o, [job[p][o] EXCEPT !.ripe = TRUE])
    /\ IF job[p][o].st = "leased" /\ Running(p, o)
       THEN faults < MaxFaults /\ faults' = faults + 1
       ELSE UNCHANGED faults
    /\ UNCHANGED <<owner, registry, vec, gen, adopted, worker>>

WorkerStep(w) ==
    \/ \E p \in Profiles, o \in Owners : Claim(w, p, o)
    \/ FindNothing(w)
    \/ \E late \in BOOLEAN : StartWork(w, late) \/ RenewLease(w, late)
                             \/ Commit(w, late) \/ Retry(w, late)
    \/ ReadDocument(w)
    \/ ReadBody(w)
    \/ Embed(w)

WorkerInit == worker = [w \in Workers |-> Idle] /\ faults = 0

WorkerTypeOK == worker \in [Workers -> WorkerState] /\ faults \in 0..MaxFaults

=============================================================================
