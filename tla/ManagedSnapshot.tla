--------------------------- MODULE ManagedSnapshot ---------------------------
(***************************************************************************)
(* The in-memory reader of the vector store: VectorStore::                 *)
(* reconcile_managed_snapshot and load_managed_snapshot.  Both hold the    *)
(* lock of their own connection throughout, but run outside a transaction: *)
(* the indexer and other processes commit between any two of their         *)
(* statements.                                                             *)
(***************************************************************************)
EXTENDS ChunkJobs

CONSTANTS Readers  \* processes that keep a snapshot in memory

VARIABLES
    reader,   \* where each reader stands, and its local values
    snapshot  \* the snapshot each reader serves searches from

readerVars == <<reader, snapshot>>

NoVectors == [o \in Owners |-> NoVec]
NoSnapshot == [profile |-> NoProfile, gen |-> 0, vectors |-> NoVectors]

Snapshot == [profile : Profiles \cup {NoProfile}, gen : Nat, vectors : [Owners -> VecRow]]

\* `state' is the registry state read first; `next' the snapshot being built.
Resting == [pc |-> "rest", state |-> "LegacyCompat", next |-> NoSnapshot]

ReaderState == [pc : {"rest", "generation", "load", "mark", "verify", "activate", "swap",
                      "check", "reload"},
                state : {"LegacyCompat", "Active", "Rebuilding", "Failed"},
                next : Snapshot]

ReaderAt(r, pc) == reader[r].pc = pc
ReaderBecome(r, state) == reader' = [reader EXCEPT ![r] = state]
ReaderGo(r, pc) == ReaderBecome(r, [reader[r] EXCEPT !.pc = pc])
Rest(r) == ReaderBecome(r, Resting)

-----------------------------------------------------------------------------
(* reconcile_managed_snapshot *)

\* The profile to serve: an active one, or the candidate of a rebuild.
Target == IF registry.state = "Rebuilding" THEN registry.candidate ELSE registry.serving

\* Failed keeps the snapshot there is; LegacyCompat drops it.
ReadState(r) ==
    /\ ReaderAt(r, "rest")
    /\ \/ /\ registry.state \in {"Active", "Rebuilding"}
          /\ ReaderBecome(r, [pc |-> "generation", state |-> registry.state,
                              next |-> [NoSnapshot EXCEPT !.profile = Target]])
          /\ UNCHANGED snapshot
       \/ /\ registry.state = "LegacyCompat"
          /\ snapshot' = [snapshot EXCEPT ![r] = NoSnapshot]
          /\ UNCHANGED reader
       \/ /\ registry.state = "Failed"
          /\ UNCHANGED readerVars
    /\ UNCHANGED tables

\* Mutant of ReadGeneration: any snapshot of the profile counts as served.
ReadGenerationOnce(r) ==
    LET p == reader[r].next.profile
    IN /\ ReaderAt(r, "generation")
       /\ \/ /\ snapshot[r].profile = p
             /\ Rest(r)
          \/ /\ snapshot[r].profile # p
             /\ ReaderBecome(r, [reader[r] EXCEPT !.pc = "load",
                                                  !.next = [@ EXCEPT !.gen = gen[p].durable]])
       /\ UNCHANGED <<tables, snapshot>>

\* A generation that is already served ends the run.
ReadGeneration(r) ==
    LET p == reader[r].next.profile
        g == gen[p].durable
    IN /\ ReaderAt(r, "generation")
       /\ \/ /\ snapshot[r].profile = p /\ snapshot[r].gen = g
             /\ Rest(r)
          \/ /\ ~(snapshot[r].profile = p /\ snapshot[r].gen = g)
             /\ ReaderBecome(r, [reader[r] EXCEPT !.pc = "load",
                                                  !.next = [@ EXCEPT !.gen = g]])
       /\ UNCHANGED <<tables, snapshot>>

LoadVectors(r) ==
    /\ ReaderAt(r, "load")
    /\ ReaderBecome(r, [reader[r] EXCEPT !.pc = "mark",
                           !.next = [@ EXCEPT !.vectors = vec[reader[r].next.profile]]])
    /\ UNCHANGED <<tables, snapshot>>

\* The publish mark is refused when the durable generation moved meanwhile.
Publish(r) ==
    LET new == reader[r].next
    IN /\ ReaderAt(r, "mark")
       /\ \/ /\ MarkPublished(new.profile, new.gen)
             /\ ReaderGo(r, IF reader[r].state = "Rebuilding" THEN "verify" ELSE "swap")
          \/ /\ gen[new.profile].durable # new.gen
             /\ Rest(r)
             /\ UNCHANGED tables
       /\ UNCHANGED snapshot

Verify(r) ==
    LET p == reader[r].next.profile
    IN /\ ReaderAt(r, "verify")
       /\ \/ VerifyFullScan(p) /\ ReaderGo(r, "activate")
          \/ ~VectorsCurrent(p) /\ Rest(r) /\ UNCHANGED tables
       /\ UNCHANGED snapshot

ActivateCandidate(r) ==
    LET p == reader[r].next.profile
    IN /\ ReaderAt(r, "activate")
       /\ \/ Activate(p) /\ ReaderGo(r, "swap")
          \/ ~CanActivate(p) /\ Rest(r) /\ UNCHANGED tables
       /\ UNCHANGED snapshot

\* Mutant of Swap: the generation is read again, after the vectors.
SwapRestamps(r) ==
    /\ ReaderAt(r, "swap")
    /\ snapshot' = [snapshot EXCEPT ![r] =
         [reader[r].next EXCEPT !.gen = gen[reader[r].next.profile].durable]]
    /\ Rest(r)
    /\ UNCHANGED tables

Swap(r) ==
    /\ ReaderAt(r, "swap")
    /\ snapshot' = [snapshot EXCEPT ![r] = reader[r].next]
    /\ Rest(r)
    /\ UNCHANGED tables

-----------------------------------------------------------------------------
(* load_managed_snapshot, at startup and on a cache miss: never writes *)

LoadState(r) ==
    /\ ReaderAt(r, "rest")
    /\ registry.state = "Active"
    /\ ReaderBecome(r, [pc |-> "check", state |-> "Active",
                        next |-> [NoSnapshot EXCEPT !.profile = registry.serving]])
    /\ UNCHANGED <<tables, snapshot>>

CheckPublished(r) ==
    LET g == gen[reader[r].next.profile]
    IN /\ ReaderAt(r, "check")
       /\ \/ /\ g.published = g.durable
             /\ ReaderBecome(r, [reader[r] EXCEPT !.pc = "reload",
                                                  !.next = [@ EXCEPT !.gen = g.durable]])
          \/ /\ g.published # g.durable
             /\ Rest(r)
       /\ UNCHANGED <<tables, snapshot>>

Reload(r) ==
    /\ ReaderAt(r, "reload")
    /\ snapshot' = [snapshot EXCEPT ![r] =
         [reader[r].next EXCEPT !.vectors = vec[reader[r].next.profile]]]
    /\ Rest(r)
    /\ UNCHANGED tables

Reconcile(r) ==
    \/ ReadState(r) \/ ReadGeneration(r) \/ LoadVectors(r) \/ Publish(r)
    \/ Verify(r) \/ ActivateCandidate(r) \/ Swap(r)

ReaderStep(r) == Reconcile(r) \/ LoadState(r) \/ CheckPublished(r) \/ Reload(r)

ReaderInit ==
    /\ reader = [r \in Readers |-> Resting]
    /\ snapshot = [r \in Readers |-> NoSnapshot]

ReaderTypeOK ==
    /\ reader \in [Readers -> ReaderState]
    /\ snapshot \in [Readers -> Snapshot]

=============================================================================
