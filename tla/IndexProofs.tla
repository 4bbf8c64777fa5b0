----------------------------- MODULE IndexProofs -----------------------------
(***************************************************************************)
(* The safety of IndexSystem for every number of profiles, owners, workers *)
(* and readers and every bound: IInv is inductive, and the properties      *)
(* follow from it.                                                         *)
(***************************************************************************)
EXTENDS IndexSystem, TLAPS

StoreInv ==
    /\ StoreTypeOK
    /\ RegistryInv
    /\ ClaimsAreFed
    /\ NothingForgotten
    /\ DoneMeansCurrent
    /\ ScanStampSound
    /\ FilesInv

-----------------------------------------------------------------------------
(* Rows and tables *)

\* A write clears the stamp; a change of the stored vectors also advances.
LEMMA GenFacts ==
    ASSUME NEW g \in GenRow
    PROVE  /\ Unscanned(g) \in GenRow
           /\ Advanced(g) \in GenRow
           /\ Unscanned(g).durable = g.durable
           /\ Advanced(g).durable = g.durable + 1
           /\ Unscanned(g).full # Unscanned(g).durable
           /\ Advanced(g).full # Advanced(g).durable
  BY DEF GenRow, Unscanned, Advanced

\* The rows the model writes have the types of their tables.
LEMMA RowTypes ==
    ASSUME StoreTypeOK
    PROVE  /\ NoRow \in JobRow
           /\ NoVec \in VecRow
           /\ \A own \in [Owners -> OwnerRow], o \in Owners : FreshRow(o, own) \in JobRow
           /\ \A p \in Profiles : Unscanned(gen[p]) \in GenRow /\ Advanced(gen[p]) \in GenRow
  <1>1. NoRow \in JobRow
    BY ChunkJobsAssumption DEF NoRow, JobRow, Operations
  <1>2. NoVec \in VecRow
    BY ChunkJobsAssumption DEF NoVec, VecRow
  <1>3. \A own \in [Owners -> OwnerRow], o \in Owners : FreshRow(o, own) \in JobRow
    BY ChunkJobsAssumption DEF FreshRow, JobRow, Operations, OwnerRow
  <1>4. \A p \in Profiles : Unscanned(gen[p]) \in GenRow /\ Advanced(gen[p]) \in GenRow
    BY GenFacts DEF StoreTypeOK
  <1> QED BY <1>1, <1>2, <1>3, <1>4

\* SetRow writes one row of chunk_index_job.
LEMMA SetRowFacts ==
    ASSUME StoreTypeOK, NEW p \in Profiles, NEW o \in Owners, NEW row \in JobRow
    PROVE  /\ SetRow(p, o, row) \in [Profiles -> [Owners -> JobRow]]
           /\ SetRow(p, o, row)[p][o] = row
           /\ \A q \in Profiles, x \in Owners :
                q # p \/ x # o => SetRow(p, o, row)[q][x] = job[q][x]
  BY DEF StoreTypeOK, SetRow

\* SetVec writes the chunk set of one owner.
LEMMA SetVecFacts ==
    ASSUME StoreTypeOK, NEW p \in Profiles, NEW o \in Owners, NEW chunks \in VecRow
    PROVE  /\ SetVec(p, o, chunks) \in [Profiles -> [Owners -> VecRow]]
           /\ SetVec(p, o, chunks)[p][o] = chunks
           /\ \A q \in Profiles, x \in Owners :
                q # p \/ x # o => SetVec(p, o, chunks)[q][x] = vec[q][x]
  BY DEF StoreTypeOK, SetVec

\* Enqueue and WithoutFiles, row by row.
LEMMA EnqueueFacts ==
    ASSUME StoreTypeOK, NEW own \in [Owners -> OwnerRow], NEW C, NEW A
    PROVE  LET j == WithoutFiles(Enqueue(C, own), A, NoRow)
           IN /\ j \in [Profiles -> [Owners -> JobRow]]
              /\ \A p \in Profiles, o \in Owners :
                   j[p][o] = IF o \in A THEN NoRow
                             ELSE IF p \in Fed /\ o \in C THEN FreshRow(o, own)
                             ELSE job[p][o]
  <1> DEFINE j == WithoutFiles(Enqueue(C, own), A, NoRow)
             row(p, o) == IF o \in A THEN NoRow
                          ELSE IF p \in Fed /\ o \in C THEN FreshRow(o, own)
                          ELSE job[p][o]
  <1>1. \A p \in Profiles, o \in Owners : row(p, o) \in JobRow
    BY RowTypes DEF StoreTypeOK
  <1>2. j = [p \in Profiles |-> [o \in Owners |-> row(p, o)]]
    BY Zenon DEF WithoutFiles, Enqueue
  <1> HIDE DEF row, j
  <1>3. j \in [Profiles -> [Owners -> JobRow]] /\ \A p \in Profiles, o \in Owners : j[p][o] = row(p, o)
    BY <1>1, <1>2
  <1> QED BY <1>3 DEF row, j

-----------------------------------------------------------------------------
(* Frames: what a step of the store leaves to workers and readers *)

\* No snapshot that was right becomes wrong: generations only grow, and while
\* one stands no owner becomes done and no vector of a done owner changes.
Forward ==
    /\ adopted \subseteq adopted'
    /\ \A p \in adopted :
         /\ gen[p].durable <= gen'[p].durable
         /\ gen[p].durable = gen'[p].durable =>
              \A o \in Owners :
                job'[p][o].st = "done" \/ o \in Attachments
                => /\ job[p][o].st = "done" \/ o \in Attachments
                   /\ vec'[p][o] = vec[p][o]

\* A claim that is left standing is left alone, and so is the text under it.
ClaimsKept ==
    \A p \in Profiles, o \in Owners :
        job'[p][o].st = "leased" /\ job'[p][o].lease \in Workers
        => /\ job[p][o].st = "leased"
           /\ job'[p][o].lease = job[p][o].lease
           /\ job'[p][o].rev = job[p][o].rev
           /\ job'[p][o].op = job[p][o].op
           /\ owner'[o].content = owner[o].content

\* A snapshot that was right stays right.
LEMMA AgreesForward ==
    ASSUME StoreTypeOK, StoreTypeOK', Forward, NEW s \in Snapshot, Agrees(s)
    PROVE  Agrees(s)'
  <1>1. \A p \in adopted : p \in Profiles /\ gen[p].durable \in Nat /\ gen'[p].durable \in Nat
    BY DEF StoreTypeOK, GenRow
  <1>2. s.gen \in Nat
    BY DEF Snapshot
  <1> QED BY <1>1, <1>2 DEF Agrees, Forward

\* A reader that does not move stays in order when the store goes forward.
LEMMA ReaderForward ==
    ASSUME StoreTypeOK, StoreTypeOK', ReaderTypeOK, Forward, NEW r \in Readers, ReaderInv(r),
           reader'[r] = reader[r], snapshot'[r] = snapshot[r]
    PROVE  ReaderInv(r)'
  <1> DEFINE new == reader[r].next
             old == snapshot[r]
  <1>1. \A p \in adopted : p \in Profiles /\ gen[p].durable \in Nat /\ gen'[p].durable \in Nat
    BY DEF StoreTypeOK, GenRow
  <1>2. old \in Snapshot /\ new \in Snapshot /\ new.gen \in Nat
    BY DEF ReaderTypeOK, ReaderState, Snapshot
  <1>3. Agrees(snapshot[r])'
    BY <1>2, AgreesForward DEF ReaderInv
  <1>4. reader[r].pc \in {"mark", "verify", "activate", "swap"} => Agrees(reader[r].next)'
    BY <1>2, AgreesForward DEF ReaderInv
  <1>5. reader[r].pc # "rest" => new.profile \in adopted /\ new.profile \in adopted'
    BY DEF ReaderInv, ReaderAt, Forward
  <1>6. reader[r].pc \notin {"rest", "generation", "check"} =>
          new.gen <= gen'[new.profile].durable
    BY <1>1, <1>2, <1>5 DEF ReaderInv, Forward
  <1> QED BY <1>3, <1>4, <1>5, <1>6 DEF ReaderInv, ReaderAt

\* A step of the store that goes forward leaves the readers in order.
LEMMA ReadersForward ==
    ASSUME StoreTypeOK, StoreTypeOK', ReaderTypeOK, ReadersInv, Forward,
           UNCHANGED readerVars
    PROVE  ReadersInv'
  BY ReaderForward DEF ReadersInv, readerVars

\* A step that keeps the claims leaves the workers in order.
LEMMA WorkersKept ==
    ASSUME WorkersInv, ClaimsKept, worker' = worker
    PROVE  WorkersInv'
  <1> SUFFICES ASSUME NEW w \in Workers, ~At(w, "idle")'
               PROVE  ClaimStillGood(w)'
    BY DEF WorkersInv, At
  <1> DEFINE k == worker[w].k
  <1>1. ClaimStillGood(w)
    BY DEF WorkersInv, At
  <1>2. k \in Claimed /\ k.p \in Profiles /\ k.o \in Owners /\ worker'[w].k = k
    BY <1>1 DEF ClaimStillGood, Claimed
  <1>3. (job'[k.p][k.o].st = "leased" /\ job'[k.p][k.o].lease = w)
        => /\ job[k.p][k.o].st = "leased"
           /\ job[k.p][k.o].lease = w
           /\ job'[k.p][k.o].rev = job[k.p][k.o].rev
           /\ job'[k.p][k.o].op = job[k.p][k.o].op
           /\ owner'[k.o].content = owner[k.o].content
    BY <1>2 DEF ClaimsKept
  <1> QED BY <1>1, <1>2, <1>3 DEF ClaimStillGood

\* The same for the step of one worker w, whose own claim is treated apart.
LEMMA OtherWorkersKept ==
    ASSUME WorkersInv, NEW w \in Workers,
           \A v \in Workers \ {w} : worker'[v] = worker[v],
           \A p \in Profiles, o \in Owners :
             job'[p][o].st = "leased" /\ job'[p][o].lease \in Workers \ {w}
             => /\ job[p][o].st = "leased"
                /\ job'[p][o].lease = job[p][o].lease
                /\ job'[p][o].rev = job[p][o].rev
                /\ job'[p][o].op = job[p][o].op,
           owner' = owner,
           worker'[w].pc # "idle" => ClaimStillGood(w)',
           worker'[w].pc = "embed" => worker'[w].left > 0
    PROVE  WorkersInv'
  <1> SUFFICES ASSUME NEW v \in Workers \ {w}, ~At(v, "idle")
               PROVE  ClaimStillGood(v)'
    BY DEF WorkersInv, At
  <1> DEFINE k == worker[v].k
  <1>1. ClaimStillGood(v)
    BY DEF WorkersInv, At
  <1>2. k \in Claimed /\ k.p \in Profiles /\ k.o \in Owners /\ worker'[v] = worker[v]
    BY <1>1 DEF ClaimStillGood, Claimed
  <1>3. (job'[k.p][k.o].st = "leased" /\ job'[k.p][k.o].lease = v)
        => /\ job[k.p][k.o].st = "leased"
           /\ job[k.p][k.o].lease = v
           /\ job'[k.p][k.o].rev = job[k.p][k.o].rev
           /\ job'[k.p][k.o].op = job[k.p][k.o].op
    BY <1>2
  <1> QED BY <1>1, <1>2, <1>3 DEF ClaimStillGood

-----------------------------------------------------------------------------
(* Graph mutations *)

\* What every graph mutation does: the owners in C are queued, the rows of the
\* files are deleted, no other owner changes its text or its liveness, and a
\* profile that knew one of the files gets a new generation.
MutationEffect(C, files) ==
    /\ owner' \in [Owners -> OwnerRow]
    /\ files \subseteq Attachments
    /\ \A o \in Owners \ (C \cup files) :
         /\ owner'[o].content = owner[o].content
         /\ owner'[o] = owner[o] \/ (owner'[o].st # "live" /\ owner[o].st # "live")
    /\ \A a \in Attachments \ files : owner[a].st = "live" => owner'[a].st = "live"
    /\ \A a \in files : owner'[a].st # "live"
    /\ job' \in [Profiles -> [Owners -> JobRow]]
    /\ \A p \in Profiles, o \in Owners :
         job'[p][o] = IF o \in files THEN NoRow
                      ELSE IF p \in Fed /\ o \in C THEN FreshRow(o, owner')
                      ELSE job[p][o]
    /\ vec' \in [Profiles -> [Owners -> VecRow]]
    /\ \A p \in Profiles, o \in Owners : vec'[p][o] = IF o \in files THEN NoVec ELSE vec[p][o]
    /\ gen' \in [Profiles -> GenRow]
    /\ \A p \in Profiles : gen'[p] \in {gen[p], Unscanned(gen[p]), Advanced(gen[p])}
    /\ \A p \in Fed : C # {} => gen'[p] \in {Unscanned(gen[p]), Advanced(gen[p])}
    /\ \A p \in Profiles, a \in files : p \in Indexed(a) => gen'[p] = Advanced(gen[p])
    /\ UNCHANGED <<registry, adopted>>

\* A mutation keeps the store's invariant, the claims and the snapshots.
LEMMA MutationKeeps ==
    ASSUME StoreInv, NEW C, NEW files, MutationEffect(C, files)
    PROVE  StoreInv' /\ ClaimsKept /\ Forward
  <1> USE DEF StoreInv
  <1>0. Fed' = Fed
    BY DEF MutationEffect, Fed
  <1>1. StoreTypeOK'
    BY DEF StoreTypeOK, MutationEffect
  <1>2. RegistryInv'
    BY DEF RegistryInv, MutationEffect
  <1>3. ASSUME NEW p \in Profiles, NEW o \in Owners
        PROVE  /\ job[p][o] \in JobRow /\ job'[p][o] \in JobRow
               /\ \/ o \in files /\ job'[p][o].st = "none" /\ owner'[o].st # "live"
                  \/ /\ o \notin files /\ p \in Fed /\ o \in C
                     /\ job'[p][o].st = "pending" /\ job'[p][o].lease = NoLease
                     /\ job'[p][o].rev = owner'[o].rev
                     /\ owner'[o].st = "live" => job'[p][o].op = "upsert"
                  \/ o \notin files /\ ~(p \in Fed /\ o \in C) /\ job'[p][o] = job[p][o]
    <2>1. job[p][o] \in JobRow /\ job'[p][o] \in JobRow
      BY DEF MutationEffect, StoreTypeOK
    <2>2. job'[p][o] = IF o \in files THEN NoRow
                       ELSE IF p \in Fed /\ o \in C THEN FreshRow(o, owner')
                       ELSE job[p][o]
      BY DEF MutationEffect
    <2>3. o \in files => owner'[o].st # "live"
      BY DEF MutationEffect
    <2>4. NoRow.st = "none"
      BY DEF NoRow
    <2>5. /\ FreshRow(o, owner').st = "pending"
          /\ FreshRow(o, owner').lease = NoLease
          /\ FreshRow(o, owner').rev = owner'[o].rev
          /\ owner'[o].st = "live" => FreshRow(o, owner').op = "upsert"
      BY DEF FreshRow
    <2> QED BY <2>1, <2>2, <2>3, <2>4, <2>5
  <1>4. ClaimsAreFed'
    BY <1>0, <1>3 DEF ClaimsAreFed
  <1>5. Attachments \subseteq Owners /\ Fed \subseteq Profiles
    BY DEF Owners, Fed
  <1>6. NothingForgotten'
    <2> SUFFICES ASSUME NEW p \in Fed, NEW o \in Owners, Live(o)'
                 PROVE  /\ job'[p][o].st \in {"pending", "leased", "done", "dead"}
                        /\ job'[p][o].rev = owner'[o].rev
                        /\ job'[p][o].op = "upsert"
      BY <1>0 DEF NothingForgotten
    <2>1. CASE o \in C /\ o \notin files
      BY <1>3, <1>5, <2>1 DEF Live
    <2>2. CASE o \notin C /\ o \notin files
      <3>1. owner'[o] = owner[o]
        BY <2>2 DEF MutationEffect, Live
      <3>2. job'[p][o] = job[p][o]
        BY <1>3, <1>5, <2>2
      <3> QED BY <3>1, <3>2 DEF NothingForgotten, Live
    <2>3. CASE o \in files
      BY <2>3 DEF MutationEffect, Live
    <2> QED BY <2>1, <2>2, <2>3
  <1>7. DoneMeansCurrent'
    <2> SUFFICES ASSUME NEW p \in Fed, NEW o \in Owners
                 PROVE  /\ job'[p][o].st = "done" => vec'[p][o] = Expected(o)'
                        /\ job'[p][o].st = "dead" => vec'[p][o] = NoVec
      BY <1>0 DEF DoneMeansCurrent
    <2>1. CASE o \in C \/ o \in files
      BY <1>3, <1>5, <2>1
    <2>2. CASE o \notin C /\ o \notin files
      <3>1. job'[p][o] = job[p][o] /\ vec'[p][o] = vec[p][o]
        BY <1>5, <2>2 DEF MutationEffect
      <3>2. Expected(o)' = Expected(o)
        BY <2>2 DEF MutationEffect, Expected, Live
      <3> QED BY <3>1, <3>2 DEF DoneMeansCurrent
    <2> QED BY <2>1, <2>2
  <1>8. \A p \in Profiles :
          /\ gen[p].durable \in Nat /\ gen'[p].durable \in Nat
          /\ gen[p].durable <= gen'[p].durable
          /\ gen[p].durable = gen'[p].durable => gen'[p] # Advanced(gen[p])
          /\ gen'[p].full = gen'[p].durable
             => /\ gen'[p] = gen[p]
                /\ gen'[p] \notin {Unscanned(gen[p]), Advanced(gen[p])}
    <2> SUFFICES ASSUME NEW p \in Profiles
                 PROVE  /\ gen[p].durable \in Nat /\ gen'[p].durable \in Nat
                        /\ gen[p].durable <= gen'[p].durable
                        /\ gen[p].durable = gen'[p].durable => gen'[p] # Advanced(gen[p])
                        /\ gen'[p].full = gen'[p].durable
                           => /\ gen'[p] = gen[p]
                              /\ gen'[p] \notin {Unscanned(gen[p]), Advanced(gen[p])}
      OBVIOUS
    <2>1. gen[p] \in GenRow /\ gen'[p] \in {gen[p], Unscanned(gen[p]), Advanced(gen[p])}
      BY DEF StoreTypeOK, MutationEffect
    <2>2. gen[p].durable \in Nat
      BY <2>1 DEF GenRow
    <2> QED BY <2>1, <2>2, GenFacts
  <1>9. ScanStampSound'
    <2> SUFFICES ASSUME NEW p \in Fed, NEW o \in Owners,
                        gen'[p].full = gen'[p].durable, Live(o)'
                 PROVE  job'[p][o].st \in {"done", "dead"}
      BY <1>0 DEF ScanStampSound
    <2>1. gen'[p] = gen[p] /\ C = {}
      BY <1>5, <1>8 DEF MutationEffect
    <2>2. o \notin files
      BY DEF MutationEffect, Live
    <2>3. job'[p][o] = job[p][o] /\ owner'[o] = owner[o]
      BY <1>5, <2>1, <2>2 DEF MutationEffect, Live
    <2> QED BY <2>1, <2>3 DEF ScanStampSound, Live
  <1>10. FilesInv'
    BY <1>5 DEF FilesInv, MutationEffect, Live
  <1>11. ClaimsKept
    <2> SUFFICES ASSUME NEW p \in Profiles, NEW o \in Owners,
                        job'[p][o].st = "leased", job'[p][o].lease \in Workers
                 PROVE  job'[p][o] = job[p][o] /\ owner'[o].content = owner[o].content
      BY DEF ClaimsKept
    <2>1. o \notin files /\ ~(p \in Fed /\ o \in C) /\ job'[p][o] = job[p][o]
      BY <1>3, ChunkJobsAssumption
    <2>2. p \in Fed
      BY <2>1 DEF ClaimsAreFed
    <2> QED BY <2>1, <2>2 DEF MutationEffect
  <1>12. Forward
    <2> SUFFICES ASSUME NEW p \in adopted
                 PROVE  /\ gen[p].durable <= gen'[p].durable
                        /\ gen[p].durable = gen'[p].durable =>
                             \A o \in Owners :
                               job'[p][o].st = "done" \/ o \in Attachments
                               => /\ job[p][o].st = "done" \/ o \in Attachments
                                  /\ vec'[p][o] = vec[p][o]
      BY DEF Forward, MutationEffect
    <2>1. p \in Profiles
      BY DEF StoreTypeOK
    <2>2. ASSUME gen[p].durable = gen'[p].durable, NEW o \in Owners,
                 job'[p][o].st = "done" \/ o \in Attachments
          PROVE  /\ job[p][o].st = "done" \/ o \in Attachments
                 /\ vec'[p][o] = vec[p][o]
      <3>1. job[p][o].st = "done" \/ o \in Attachments
        BY <1>3, <2>1, <2>2
      <3>2. CASE o \in files
        <4>1. p \notin Indexed(o)
          BY <1>8, <2>1, <2>2, <3>2 DEF MutationEffect
        <4>2. vec[p][o] = NoVec
          BY <2>1, <4>1 DEF Indexed
        <4> QED BY <2>1, <3>1, <3>2, <4>2 DEF MutationEffect
      <3>3. CASE o \notin files
        BY <2>1, <3>1, <3>3 DEF MutationEffect
      <3> QED BY <3>2, <3>3
    <2> QED BY <1>8, <2>1, <2>2
  <1> QED BY <1>1, <1>2, <1>4, <1>6, <1>7, <1>9, <1>10, <1>11, <1>12

\* Write has the effect of a mutation when the owners outside C keep their text
\* and their liveness, and no file goes.
LEMMA WriteEffect ==
    ASSUME StoreTypeOK, NEW own \in [Owners -> OwnerRow], NEW C, Write(own, C),
           \A o \in Owners \ C :
              /\ own[o].content = owner[o].content
              /\ own[o] = owner[o] \/ (own[o].st # "live" /\ owner[o].st # "live"),
           \A a \in Attachments : owner[a].st = "live" => own[a].st = "live"
    PROVE  MutationEffect(C, {})
  <1>1. owner' = own /\ UNCHANGED <<registry, vec, adopted>>
    BY DEF Write
  <1>2. /\ job' \in [Profiles -> [Owners -> JobRow]]
        /\ \A p \in Profiles, o \in Owners :
             job'[p][o] = IF p \in Fed /\ o \in C THEN FreshRow(o, own) ELSE job[p][o]
    <2>1. job' = Enqueue(C, own)
      BY DEF Write
    <2>2. \A p \in Profiles, o \in Owners :
            (IF p \in Fed /\ o \in C THEN FreshRow(o, own) ELSE job[p][o]) \in JobRow
      BY RowTypes DEF StoreTypeOK
    <2> QED BY <2>1, <2>2 DEF Enqueue
  <1>3. /\ gen' \in [Profiles -> GenRow]
        /\ \A p \in Profiles : gen'[p] = IF p \in Fed /\ C # {} THEN Unscanned(gen[p]) ELSE gen[p]
    <2>1. \A p \in Profiles : Unscanned(gen[p]) \in GenRow /\ gen[p] \in GenRow
      BY RowTypes DEF StoreTypeOK
    <2> QED BY <2>1 DEF Write
  <1>4. vec' \in [Profiles -> [Owners -> VecRow]]
    BY <1>1 DEF StoreTypeOK
  <1> QED BY <1>1, <1>2, <1>3, <1>4 DEF MutationEffect, Fed

\* The four ways an owner row is rewritten keep its type.
LEMMA OwnerRowFacts ==
    ASSUME NEW row \in OwnerRow
    PROVE  /\ row.content < MaxContent => /\ Rewritten(row) \in OwnerRow
                                          /\ [Rewritten(row) EXCEPT !.st = "live"] \in OwnerRow
                                          /\ Created(row) \in OwnerRow
           /\ Touched(row) \in OwnerRow
           /\ Buried(row) \in OwnerRow
           /\ Rewritten(row).st = row.st
           /\ Touched(row).st = row.st
           /\ [row EXCEPT !.st = "absent", !.rev = 0] \in OwnerRow
           /\ [row EXCEPT !.st = "absent", !.rev = 0].st = "absent"
           /\ [row EXCEPT !.st = "absent", !.rev = 0].content = row.content
  <1> USE ChunkJobsAssumption
  <1>1. /\ row.st \in {"absent", "uploaded", "error", "live", "tomb"}
        /\ row.rev \in Nat /\ row.rev + 1 \in Nat
        /\ row.content \in 0..MaxContent
        /\ row.content < MaxContent => row.content + 1 \in 0..MaxContent
    BY DEF OwnerRow
  <1>2. row.content < MaxContent => Rewritten(row) \in OwnerRow
    BY <1>1 DEF OwnerRow, Rewritten
  <1>3. row.content < MaxContent => [Rewritten(row) EXCEPT !.st = "live"] \in OwnerRow
    BY <1>2 DEF OwnerRow
  <1>4. row.content < MaxContent => Created(row) \in OwnerRow
    BY <1>1 DEF OwnerRow, Created
  <1>5. Touched(row) \in OwnerRow /\ Touched(row).st = row.st
    BY <1>1 DEF OwnerRow, Touched
  <1>6. Buried(row) \in OwnerRow
    BY <1>1 DEF OwnerRow, Buried
  <1>7. Rewritten(row).st = row.st
    BY DEF OwnerRow, Rewritten
  <1>8. /\ [row EXCEPT !.st = "absent", !.rev = 0] \in OwnerRow
        /\ [row EXCEPT !.st = "absent", !.rev = 0].st = "absent"
        /\ [row EXCEPT !.st = "absent", !.rev = 0].content = row.content
    BY <1>1 DEF OwnerRow
  <1> QED BY <1>2, <1>3, <1>4, <1>5, <1>6, <1>7, <1>8

\* The mutations of entities and relations that write owner rows only.
LEMMA GraphWrites ==
    ASSUME StoreTypeOK,
           \/ \E e \in Entities : CreateEntity(e) \/ UpdateEntity(e)
           \/ \E r \in Relations : CreateRelation(r) \/ UpdateRelation(r) \/ DeleteRelation(r)
           \/ \E r, s, t \in Relations : MoveRelation(r, {}, s) \/ MoveRelation(r, {t}, s)
    PROVE  \E C \in SUBSET Owners : MutationEffect(C, {})
  <1> USE ChunkJobsAssumption
  <1>0. \A o \in Owners : owner[o] \in OwnerRow
    BY DEF StoreTypeOK
  <1>1. Entities \subseteq Owners /\ Relations \subseteq Owners /\ Ends \subseteq Owners
    BY DEF Owners
  <1>2. \A o \in Ends \cup Entities \cup Relations : o \notin Attachments
    BY DEF Owners
  <1>3. ASSUME NEW e \in Entities, CreateEntity(e)
        PROVE  MutationEffect({e}, {})
    <2> DEFINE own == [owner EXCEPT ![e] = Created(@)]
    <2>1. own \in [Owners -> OwnerRow] /\ \A o \in Owners \ {e} : own[o] = owner[o]
      BY <1>0, <1>1, <1>3, OwnerRowFacts DEF CreateEntity, StoreTypeOK
    <2>2. Write(own, {e})
      BY <1>3 DEF CreateEntity
    <2> HIDE DEF own
    <2>3. \A a \in Attachments : owner[a].st = "live" => own[a].st = "live"
      BY <1>2, <2>1 DEF Owners
    <2> QED BY <2>1, <2>2, <2>3, WriteEffect
  <1>4. ASSUME NEW o \in Entities \cup Relations, Live(o), owner[o].content < MaxContent,
               Write([owner EXCEPT ![o] = Rewritten(@)], {o})
        PROVE  MutationEffect({o}, {})
    <2> DEFINE own == [owner EXCEPT ![o] = Rewritten(@)]
    <2>1. own \in [Owners -> OwnerRow] /\ \A x \in Owners \ {o} : own[x] = owner[x]
      BY <1>0, <1>1, <1>4, OwnerRowFacts DEF StoreTypeOK
    <2>2. Write(own, {o})
      BY <1>4
    <2> HIDE DEF own
    <2>3. \A a \in Attachments : owner[a].st = "live" => own[a].st = "live"
      BY <1>2, <2>1 DEF Owners
    <2> QED BY <2>1, <2>2, <2>3, WriteEffect
  <1>5. ASSUME NEW r \in Relations, CreateRelation(r)
        PROVE  MutationEffect({r} \cup Ends, {})
    <2> DEFINE own == [o \in Owners |-> IF o = r THEN Created(owner[o])
                                        ELSE IF o \in Ends THEN Touched(owner[o])
                                        ELSE owner[o]]
    <2>1. /\ own \in [Owners -> OwnerRow]
          /\ \A o \in Owners \ ({r} \cup Ends) : own[o] = owner[o]
      BY <1>0, <1>1, <1>5, OwnerRowFacts DEF CreateRelation
    <2>2. Write(own, {r} \cup Ends)
      BY <1>5 DEF CreateRelation
    <2> HIDE DEF own
    <2>3. \A a \in Attachments : owner[a].st = "live" => own[a].st = "live"
      BY <1>2, <2>1 DEF Owners
    <2> QED BY <2>1, <2>2, <2>3, WriteEffect
  <1>6. ASSUME NEW r \in Relations, DeleteRelation(r)
        PROVE  MutationEffect({r} \cup Ends, {})
    <2> DEFINE own == [o \in Owners |-> IF o = r THEN Buried(owner[o])
                                        ELSE IF o \in Ends THEN Touched(owner[o])
                                        ELSE owner[o]]
    <2>1. /\ own \in [Owners -> OwnerRow]
          /\ \A o \in Owners \ ({r} \cup Ends) : own[o] = owner[o]
      BY <1>0, <1>1, <1>6, OwnerRowFacts DEF DeleteRelation
    <2>2. Write(own, {r} \cup Ends)
      BY <1>6 DEF DeleteRelation
    <2> HIDE DEF own
    <2>3. \A a \in Attachments : owner[a].st = "live" => own[a].st = "live"
      BY <1>2, <2>1 DEF Owners
    <2> QED BY <2>1, <2>2, <2>3, WriteEffect
  <1>7. ASSUME NEW r \in Relations, NEW s \in Relations, NEW old \in SUBSET Relations,
               MoveRelation(r, old, s)
        PROVE  MutationEffect({r, s} \cup Ends, {})
    <2> DEFINE cleared == [o \in Owners |-> IF o \in old
                                            THEN [owner[o] EXCEPT !.st = "absent", !.rev = 0]
                                            ELSE owner[o]]
               own == [o \in Owners |-> IF o = s THEN Created(cleared[o])
                                        ELSE IF o = r THEN Buried(cleared[o])
                                        ELSE IF o \in Ends THEN Touched(cleared[o])
                                        ELSE cleared[o]]
    <2>1. \A o \in Owners : cleared[o] \in OwnerRow /\ cleared[o].content = owner[o].content
      BY <1>0, OwnerRowFacts
    <2>2. \A o \in Owners : \/ cleared[o] = owner[o]
                            \/ /\ o \in old
                               /\ cleared[o].st # "live" /\ owner[o].st # "live"
      <3>1. \A o \in old : owner[o].st = "tomb" /\ owner[o] \in OwnerRow
        BY <1>0, <1>1, <1>7 DEF MoveRelation
      <3>2. \A o \in old : cleared[o].st = "absent"
        BY <1>1, <3>1, OwnerRowFacts
      <3> QED BY <3>1, <3>2
    <2>3. owner[s].content < MaxContent /\ Write(own, {r, s} \cup Ends)
      BY <1>7 DEF MoveRelation
    <2> HIDE DEF cleared
    <2>4. /\ own \in [Owners -> OwnerRow]
          /\ \A o \in Owners \ ({r, s} \cup Ends) : own[o] = cleared[o]
      BY <1>1, <2>1, <2>3, OwnerRowFacts
    <2> HIDE DEF own
    <2>5. \A a \in Attachments : own[a] = owner[a]
      BY <1>2, <2>2, <2>4 DEF Owners
    <2> QED BY <2>1, <2>2, <2>3, <2>4, <2>5, WriteEffect
  <1>8. \A e \in Entities : UpdateEntity(e) => MutationEffect({e}, {})
    BY <1>4 DEF UpdateEntity
  <1>9. \A r \in Relations : UpdateRelation(r) => MutationEffect({r}, {})
    BY <1>4 DEF UpdateRelation
  <1>10. CASE \E e \in Entities : CreateEntity(e) \/ UpdateEntity(e)
    BY <1>1, <1>3, <1>8, <1>10
  <1>11. CASE \E r \in Relations : CreateRelation(r) \/ UpdateRelation(r) \/ DeleteRelation(r)
    <2> PICK r \in Relations : CreateRelation(r) \/ UpdateRelation(r) \/ DeleteRelation(r)
      BY <1>11
    <2> {r} \in SUBSET Owners /\ {r} \cup Ends \in SUBSET Owners
      BY <1>1
    <2> QED BY <1>5, <1>6, <1>9
  <1>12. CASE \E r, s, t \in Relations : MoveRelation(r, {}, s) \/ MoveRelation(r, {t}, s)
    <2> PICK r, s, t \in Relations : MoveRelation(r, {}, s) \/ MoveRelation(r, {t}, s)
      BY <1>12
    <2>1. {} \in SUBSET Relations /\ {t} \in SUBSET Relations
      OBVIOUS
    <2>2. {r, s} \cup Ends \in SUBSET Owners
      BY <1>1
    <2> QED BY <1>7, <2>1, <2>2
  <1> QED BY <1>10, <1>11, <1>12

\* The mutations of attachments that write the owner row.
LEMMA FileWrites ==
    ASSUME StoreTypeOK, NEW a \in Attachments,
           UploadAttachment(a) \/ ExtractAttachment(a) \/ AbandonExtraction(a)
    PROVE  \E C \in SUBSET Owners : MutationEffect(C, {})
  <1> USE ChunkJobsAssumption
  <1>1. a \in Owners /\ owner[a] \in OwnerRow
    BY DEF Owners, StoreTypeOK
  <1>2. ASSUME NEW row \in OwnerRow, row.content = owner[a].content,
               row.st # "live", owner[a].st # "live",
               Write([owner EXCEPT ![a] = row], {})
        PROVE  MutationEffect({}, {})
    <2> DEFINE own == [owner EXCEPT ![a] = row]
    <2>1. /\ own \in [Owners -> OwnerRow]
          /\ own[a] = row
          /\ \A o \in Owners \ {a} : own[o] = owner[o]
      BY <1>1, <1>2 DEF StoreTypeOK
    <2>2. Write(own, {})
      BY <1>2
    <2> HIDE DEF own
    <2>3. \A x \in Attachments : owner[x].st = "live" => own[x].st = "live"
      BY <1>2, <2>1 DEF Owners
    <2>4. \A o \in Owners : /\ own[o].content = owner[o].content
                            /\ own[o] = owner[o] \/ (own[o].st # "live" /\ owner[o].st # "live")
      BY <1>2, <2>1
    <2> QED BY <2>1, <2>2, <2>3, <2>4, WriteEffect
  <1>3. CASE UploadAttachment(a)
    <2> DEFINE row == [owner[a] EXCEPT !.st = "uploaded", !.rev = 1]
    <2>1. row \in OwnerRow /\ row.content = owner[a].content /\ row.st # "live"
      BY <1>1 DEF OwnerRow
    <2>2. owner[a].st # "live" /\ Write([owner EXCEPT ![a] = row], {})
      BY <1>3 DEF UploadAttachment
    <2> HIDE DEF row
    <2> QED BY <1>2, <2>1, <2>2
  <1>4. CASE AbandonExtraction(a)
    <2> DEFINE row == [owner[a] EXCEPT !.st = "error"]
    <2>1. row \in OwnerRow /\ row.content = owner[a].content /\ row.st # "live"
      BY <1>1 DEF OwnerRow
    <2>2. owner[a].st # "live" /\ Write([owner EXCEPT ![a] = row], {})
      BY <1>4 DEF AbandonExtraction
    <2> HIDE DEF row
    <2> QED BY <1>2, <2>1, <2>2
  <1>5. CASE ExtractAttachment(a)
    <2> DEFINE own == [owner EXCEPT ![a] = [Rewritten(@) EXCEPT !.st = "live"]]
    <2>1. /\ own \in [Owners -> OwnerRow]
          /\ \A o \in Owners \ {a} : own[o] = owner[o]
      BY <1>1, <1>5, OwnerRowFacts DEF StoreTypeOK, ExtractAttachment
    <2>2. Write(own, {a})
      BY <1>5 DEF ExtractAttachment
    <2>3. owner[a].st # "live"
      BY <1>5 DEF ExtractAttachment
    <2> HIDE DEF own
    <2>4. \A x \in Attachments : owner[x].st = "live" => own[x].st = "live"
      BY <2>1, <2>3 DEF Owners
    <2>5. MutationEffect({a}, {})
      BY <2>1, <2>2, <2>4, WriteEffect
    <2> QED BY <1>1, <2>5
  <1> QED BY <1>3, <1>4, <1>5

\* The mutations that delete files: the row delete of one, and the cascade.
LEMMA FileDeletes ==
    ASSUME StoreTypeOK,
           (\E a \in Attachments : DeleteAttachment(a)) \/ (\E e \in Entities : DeleteEntity(e))
    PROVE  \E C, files \in SUBSET Owners : MutationEffect(C, files)
  <1> USE ChunkJobsAssumption
  <1>0. \A o \in Owners : owner[o] \in OwnerRow
    BY DEF StoreTypeOK
  <1>1. /\ Attachments \subseteq Owners /\ Entities \subseteq Owners /\ Relations \subseteq Owners
        /\ \A o \in Entities \cup Relations : o \notin Attachments
    BY DEF Owners
  <1>2. ASSUME NEW A \in SUBSET Attachments
        PROVE  /\ WithoutFiles(vec, A, NoVec) \in [Profiles -> [Owners -> VecRow]]
               /\ \A p \in Profiles, o \in Owners :
                    WithoutFiles(vec, A, NoVec)[p][o] = IF o \in A THEN NoVec ELSE vec[p][o]
    <2>1. \A p \in Profiles, o \in Owners : (IF o \in A THEN NoVec ELSE vec[p][o]) \in VecRow
      BY RowTypes DEF StoreTypeOK
    <2> QED BY <2>1 DEF WithoutFiles
  <1>3. \A p \in Profiles :
          gen[p] \in GenRow /\ Unscanned(gen[p]) \in GenRow /\ Advanced(gen[p]) \in GenRow
    BY RowTypes DEF StoreTypeOK
  <1>4. ASSUME NEW a \in Attachments, DeleteAttachment(a)
        PROVE  MutationEffect({}, {a})
    <2>1. /\ owner' \in [Owners -> OwnerRow]
          /\ owner'[a].st = "absent"
          /\ \A o \in Owners \ {a} : owner'[o] = owner[o]
      BY <1>0, <1>1, <1>4, OwnerRowFacts DEF DeleteAttachment, StoreTypeOK
    <2>2. /\ job' \in [Profiles -> [Owners -> JobRow]]
          /\ \A p \in Profiles, o \in Owners : job'[p][o] = IF o \in {a} THEN NoRow ELSE job[p][o]
      <3>1. \A p \in Profiles, o \in Owners : (IF o \in {a} THEN NoRow ELSE job[p][o]) \in JobRow
        BY RowTypes DEF StoreTypeOK
      <3>2. job' = WithoutFiles(job, {a}, NoRow)
        BY <1>4 DEF DeleteAttachment
      <3> QED BY <3>1, <3>2 DEF WithoutFiles
    <2>3. vec' = WithoutFiles(vec, {a}, NoVec)
      BY <1>4 DEF DeleteAttachment
    <2>4. /\ gen' \in [Profiles -> GenRow]
          /\ \A p \in Profiles : gen'[p] = IF p \in Indexed(a) THEN Advanced(gen[p]) ELSE gen[p]
      BY <1>3, <1>4 DEF DeleteAttachment
    <2>5. UNCHANGED <<registry, adopted>>
      BY <1>4 DEF DeleteAttachment
    <2>6. /\ \A o \in Owners \ ({} \cup {a}) : owner'[o] = owner[o]
          /\ \A x \in Attachments \ {a} : owner'[x] = owner[x]
          /\ \A x \in {a} : owner'[x].st # "live"
          /\ {a} \subseteq Attachments
      BY <1>1, <2>1
    <2>7. \A p \in Profiles, o \in Owners :
            job'[p][o] = IF o \in {a} THEN NoRow
                         ELSE IF p \in Fed /\ o \in {} THEN FreshRow(o, owner')
                         ELSE job[p][o]
      BY <2>2
    <2>8. /\ vec' \in [Profiles -> [Owners -> VecRow]]
          /\ \A p \in Profiles, o \in Owners : vec'[p][o] = IF o \in {a} THEN NoVec ELSE vec[p][o]
      BY <1>2, <2>3, <2>6
    <2>9. /\ \A p \in Profiles : gen'[p] \in {gen[p], Unscanned(gen[p]), Advanced(gen[p])}
          /\ \A p \in Profiles, x \in {a} : p \in Indexed(x) => gen'[p] = Advanced(gen[p])
      BY <2>4
    <2> QED BY <2>1, <2>2, <2>4, <2>5, <2>6, <2>7, <2>8, <2>9 DEF MutationEffect
  <1>5. ASSUME NEW e \in Entities, DeleteEntity(e)
        PROVE  \E C, files \in SUBSET Owners : MutationEffect(C, files)
    <2> DEFINE files == FilesOf(e)
               buried == {e} \cup LiveMirrors(e)
               others == IF LiveMirrors(e) = {} THEN {} ELSE Ends \ {e}
               own == [o \in Owners |->
                         IF o \in files THEN [owner[o] EXCEPT !.st = "absent", !.rev = 0]
                         ELSE IF o \in buried THEN Buried(owner[o])
                         ELSE IF o \in others THEN Touched(owner[o])
                         ELSE owner[o]]
               known == UNION {Indexed(a) : a \in files}
    <2>1. /\ files \in SUBSET Attachments
          /\ buried \in SUBSET (Entities \cup Relations)
          /\ others \in SUBSET Entities
      BY DEF FilesOf, LiveMirrors
    <2>2. /\ owner' = own
          /\ job' = WithoutFiles(Enqueue(buried \cup others, own), files, NoRow)
          /\ vec' = WithoutFiles(vec, files, NoVec)
          /\ gen' = [p \in Profiles |-> IF p \in known THEN Advanced(gen[p])
                                        ELSE IF p \in Fed THEN Unscanned(gen[p])
                                        ELSE gen[p]]
          /\ UNCHANGED <<registry, adopted>>
      BY <1>5 DEF DeleteEntity
    <2>3. \A p \in Profiles, a \in files : p \in Indexed(a) => p \in known
      OBVIOUS
    <2>4. own \in [Owners -> OwnerRow]
      BY <1>0, OwnerRowFacts
    <2>5. /\ \A o \in files : own[o].st = "absent"
          /\ \A o \in Owners \ (files \cup buried \cup others) : own[o] = owner[o]
      BY <1>0, <1>1, <2>1, OwnerRowFacts
    <2> HIDE DEF files, buried, others, own, known
    <2>6. /\ job' \in [Profiles -> [Owners -> JobRow]]
          /\ \A p \in Profiles, o \in Owners :
               job'[p][o] = IF o \in files THEN NoRow
                            ELSE IF p \in Fed /\ o \in buried \cup others THEN FreshRow(o, own)
                            ELSE job[p][o]
      BY <2>2, <2>4, EnqueueFacts
    <2>7. /\ vec' \in [Profiles -> [Owners -> VecRow]]
          /\ \A p \in Profiles, o \in Owners : vec'[p][o] = IF o \in files THEN NoVec ELSE vec[p][o]
      BY <1>2, <2>1, <2>2
    <2>8. /\ gen' \in [Profiles -> GenRow]
          /\ \A p \in Profiles : gen'[p] = IF p \in known THEN Advanced(gen[p])
                                           ELSE IF p \in Fed THEN Unscanned(gen[p])
                                           ELSE gen[p]
      BY <1>3, <2>2
    <2>9. \A o \in Owners \ ((buried \cup others) \cup files) : owner'[o] = owner[o]
      BY <2>2, <2>5
    <2>10. \A a \in Attachments \ files : owner'[a] = owner[a]
      BY <1>1, <2>1, <2>9
    <2>11. MutationEffect(buried \cup others, files)
      <3>1. \A p \in Profiles : gen'[p] \in {gen[p], Unscanned(gen[p]), Advanced(gen[p])}
        BY <2>8
      <3>2. \A p \in Fed : gen'[p] \in {Unscanned(gen[p]), Advanced(gen[p])}
        BY <2>8 DEF Fed
      <3>3. \A p \in Profiles, a \in files : p \in Indexed(a) => gen'[p] = Advanced(gen[p])
        BY <2>3, <2>8
      <3>4. /\ owner' \in [Owners -> OwnerRow]
            /\ \A a \in files : owner'[a].st # "live"
            /\ files \subseteq Attachments
        BY <2>1, <2>2, <2>4, <2>5
      <3>5. \A p \in Profiles, o \in Owners :
              job'[p][o] = IF o \in files THEN NoRow
                           ELSE IF p \in Fed /\ o \in buried \cup others THEN FreshRow(o, owner')
                           ELSE job[p][o]
        BY <2>2, <2>6
      <3> QED BY <2>2, <2>6, <2>7, <2>8, <2>9, <2>10, <3>1, <3>2, <3>3, <3>4, <3>5
              DEF MutationEffect
    <2> QED BY <1>1, <2>1, <2>11
  <1>6. ASSUME NEW a \in Attachments, DeleteAttachment(a)
        PROVE  \E C, files \in SUBSET Owners : MutationEffect(C, files)
    <2> {} \in SUBSET Owners /\ {a} \in SUBSET Owners
      BY <1>1
    <2> QED BY <1>4, <1>6
  <1> QED BY <1>5, <1>6

\* Every graph mutation keeps the store's invariant, the claims and the snapshots.
LEMMA MutationSafe ==
    ASSUME StoreInv, Mutation
    PROVE  StoreInv' /\ ClaimsKept /\ Forward
  <1>1. StoreTypeOK
    BY DEF StoreInv
  <1>2. \E C, files \in SUBSET Owners : MutationEffect(C, files)
    <2>1. {} \in SUBSET Owners
      OBVIOUS
    <2> QED BY <1>1, <2>1, GraphWrites, FileWrites, FileDeletes DEF Mutation
  <1> QED BY <1>2, MutationKeeps

-----------------------------------------------------------------------------
(* The profile registry and the generation markers *)

\* HeldExcept, row by row.
LEMMA HeldFacts ==
    ASSUME StoreTypeOK, NEW P
    PROVE  /\ HeldExcept(P) \in [Profiles -> [Owners -> JobRow]]
           /\ \A p \in Profiles, o \in Owners :
                \/ HeldExcept(P)[p][o] = job[p][o]
                   /\ (p \in P \/ job[p][o].st \in {"none", "done"})
                \/ HeldExcept(P)[p][o].st = "held" /\ p \notin P /\ job[p][o].st # "done"
  <1> USE ChunkJobsAssumption
  <1> DEFINE held(p, o) == [job[p][o] EXCEPT !.st = "held", !.lease = NoLease]
             row(p, o) == IF p \in P \/ job[p][o].st \in {"none", "done"} THEN job[p][o]
                          ELSE held(p, o)
  <1>1. \A p \in Profiles, o \in Owners : held(p, o) \in JobRow /\ held(p, o).st = "held"
    <2> TAKE p \in Profiles, o \in Owners
    <2>1. job[p][o] \in JobRow
      BY DEF StoreTypeOK
    <2> QED BY <2>1 DEF JobRow
  <1>2. HeldExcept(P) = [p \in Profiles |-> [o \in Owners |-> row(p, o)]]
    BY Zenon DEF HeldExcept
  <1> HIDE DEF held
  <1>3. \A p \in Profiles, o \in Owners : row(p, o) \in JobRow
    BY <1>1 DEF StoreTypeOK
  <1> QED BY <1>1, <1>2, <1>3

\* A rebuild queues every live owner for a profile nobody knew.
LEMMA BeginRebuildSafe ==
    ASSUME StoreInv, NEW p \in Profiles, BeginRebuild(p)
    PROVE  StoreInv' /\ ClaimsKept /\ Forward
  <1> USE ChunkJobsAssumption DEF StoreInv
  <1>1. /\ p \notin adopted /\ p # NoProfile
        /\ registry' \in Registry
        /\ registry'.state = "Rebuilding" /\ registry'.candidate = p
        /\ registry'.serving = registry.serving
        /\ registry.state # "Rebuilding"
        /\ adopted' = adopted \cup {p}
        /\ owner' = owner /\ vec' = vec
    BY DEF BeginRebuild, StoreTypeOK, Registry
  <1>2. Fed' = Fed \cup {p} /\ p \notin Fed
    BY <1>1 DEF Fed, RegistryInv
  <1>3. /\ job' \in [Profiles -> [Owners -> JobRow]]
        /\ \A q \in Profiles \ {p} : job'[q] = job[q]
        /\ \A o \in Owners : job'[p][o] = RebuildRow(o)
    <2>1. \A o \in Owners : RebuildRow(o) \in JobRow
      BY RowTypes DEF RebuildRow, StoreTypeOK
    <2> QED BY <2>1 DEF BeginRebuild, StoreTypeOK
  <1>4. \A o \in Owners :
          /\ RebuildRow(o).st \in {"none", "pending"}
          /\ RebuildRow(o).lease = NoLease
          /\ Live(o) => /\ RebuildRow(o).st = "pending"
                        /\ RebuildRow(o).rev = owner[o].rev
                        /\ RebuildRow(o).op = "upsert"
    BY DEF RebuildRow, FreshRow, NoRow, Live
  <1>5. /\ gen' \in [Profiles -> GenRow]
        /\ \A q \in Profiles \ {p} : gen'[q] = gen[q]
        /\ gen'[p].full # gen'[p].durable
    BY DEF BeginRebuild, StoreTypeOK, GenRow
  <1>6. StoreTypeOK'
    BY <1>1, <1>3, <1>5 DEF StoreTypeOK
  <1>7. RegistryInv'
    BY <1>1 DEF RegistryInv
  <1>8. ClaimsAreFed'
    BY <1>2, <1>3 DEF ClaimsAreFed
  <1>9. Fed \subseteq Profiles \ {p}
    BY <1>2 DEF Fed
  <1>10. \A o \in Owners : Live(o)' = Live(o) /\ Expected(o)' = Expected(o)
    BY <1>1 DEF Live, Expected
  <1>11. NothingForgotten'
    BY <1>1, <1>2, <1>3, <1>4, <1>9, <1>10 DEF NothingForgotten
  <1>12. DoneMeansCurrent'
    BY <1>1, <1>2, <1>3, <1>4, <1>9, <1>10 DEF DoneMeansCurrent
  <1>13. ScanStampSound'
    BY <1>2, <1>3, <1>5, <1>9, <1>10 DEF ScanStampSound
  <1>14. FilesInv'
    BY <1>1 DEF FilesInv, Live
  <1>15. ClaimsKept
    BY <1>1, <1>3, <1>4 DEF ClaimsKept
  <1>16. Forward
    <2>1. \A q \in adopted : q \in Profiles \ {p} /\ gen[q].durable \in Nat
      BY <1>1 DEF StoreTypeOK, GenRow
    <2> QED BY <1>1, <1>3, <1>5, <2>1 DEF Forward
  <1> QED BY <1>6, <1>7, <1>8, <1>11, <1>12, <1>13, <1>14, <1>15, <1>16

\* Failing a rebuild ends the claims on its candidate.
LEMMA FailRebuildSafe ==
    ASSUME StoreInv, FailRebuild
    PROVE  StoreInv' /\ ClaimsKept /\ Forward
  <1> USE ChunkJobsAssumption DEF StoreInv
  <1> DEFINE c == registry.candidate
  <1>1. /\ registry' \in Registry
        /\ registry'.state = "Failed" /\ registry'.candidate = c
        /\ registry'.serving = registry.serving
        /\ registry.state = "Rebuilding"
        /\ UNCHANGED <<owner, vec, gen, adopted>>
    BY DEF FailRebuild, StoreTypeOK, Registry
  <1>2. Fed' \subseteq Fed \ {c} /\ Fed \subseteq Profiles /\ Fed \ {c} \subseteq Fed'
    BY <1>1 DEF Fed, RegistryInv
  <1>3. /\ job' \in [Profiles -> [Owners -> JobRow]]
        /\ \A p \in Profiles, o \in Owners :
             \/ job'[p][o] = job[p][o] /\ (p # c \/ job[p][o].st \in {"none", "done"})
             \/ job'[p][o].st = "held" /\ p = c /\ job[p][o].st # "done"
    BY HeldFacts DEF FailRebuild
  <1>4. StoreTypeOK' /\ RegistryInv' /\ FilesInv'
    BY <1>1, <1>3 DEF StoreTypeOK, RegistryInv, FilesInv, Live
  <1>5. ClaimsAreFed'
    BY <1>2, <1>3 DEF ClaimsAreFed
  <1>6. \A o \in Owners : Live(o)' = Live(o) /\ Expected(o)' = Expected(o)
    BY <1>1 DEF Live, Expected
  <1>7. \A p \in Fed', o \in Owners : p \in Fed /\ job'[p][o] = job[p][o]
    BY <1>2, <1>3
  <1>8. NothingForgotten' /\ DoneMeansCurrent' /\ ScanStampSound'
    BY <1>1, <1>6, <1>7 DEF NothingForgotten, DoneMeansCurrent, ScanStampSound
  <1>9. ClaimsKept
    BY <1>1, <1>3 DEF ClaimsKept
  <1>10. Forward
    <2>1. \A q \in adopted : q \in Profiles /\ gen[q].durable \in Nat
      BY <1>1 DEF StoreTypeOK, GenRow
    <2> QED BY <1>1, <1>3, <2>1 DEF Forward
  <1> QED BY <1>4, <1>5, <1>8, <1>9, <1>10

\* Activation replaces the serving profile and ends every claim on another one.
LEMMA ActivateSafe ==
    ASSUME StoreInv, NEW p \in Profiles, Activate(p)
    PROVE  StoreInv' /\ ClaimsKept /\ Forward
  <1> USE ChunkJobsAssumption DEF StoreInv
  <1>1. /\ registry' = [state |-> "Active", serving |-> p, candidate |-> NoProfile]
        /\ registry.state = "Rebuilding" /\ registry.candidate = p
        /\ UNCHANGED <<owner, vec, gen, adopted>>
    BY DEF Activate, CanActivate
  <1>2. Fed' = {p} /\ p \in Fed /\ p # NoProfile
    BY <1>1 DEF Fed
  <1>3. /\ job' \in [Profiles -> [Owners -> JobRow]]
        /\ \A q \in Profiles, o \in Owners :
             \/ job'[q][o] = job[q][o] /\ (q = p \/ job[q][o].st \in {"none", "done"})
             \/ job'[q][o].st = "held" /\ q # p /\ job[q][o].st # "done"
    BY HeldFacts DEF Activate
  <1>4. StoreTypeOK' /\ FilesInv'
    BY <1>1, <1>3 DEF StoreTypeOK, FilesInv, Live, Registry
  <1>5. RegistryInv'
    BY <1>1, <1>2 DEF RegistryInv
  <1>6. ClaimsAreFed'
    BY <1>2, <1>3 DEF ClaimsAreFed
  <1>7. \A o \in Owners : Live(o)' = Live(o) /\ Expected(o)' = Expected(o)
    BY <1>1 DEF Live, Expected
  <1>8. \A o \in Owners : job'[p][o] = job[p][o]
    BY <1>3
  <1>9. NothingForgotten' /\ DoneMeansCurrent' /\ ScanStampSound'
    BY <1>1, <1>2, <1>7, <1>8 DEF NothingForgotten, DoneMeansCurrent, ScanStampSound
  <1>10. ClaimsKept
    BY <1>1, <1>3 DEF ClaimsKept
  <1>11. Forward
    <2>1. \A q \in adopted : q \in Profiles /\ gen[q].durable \in Nat
      BY <1>1 DEF StoreTypeOK, GenRow
    <2> QED BY <1>1, <1>3, <2>1 DEF Forward
  <1> QED BY <1>4, <1>5, <1>6, <1>9, <1>10, <1>11

\* The publish mark and the full-scan stamp touch nothing else; the stamp is
\* sound because every live owner of a fed profile has a row.
LEMMA MarkersSafe ==
    ASSUME StoreInv, NEW p \in Profiles,
           VerifyFullScan(p) \/ \E g \in Nat : MarkPublished(p, g)
    PROVE  StoreInv' /\ ClaimsKept /\ Forward
  <1> USE DEF StoreInv
  <1>1. UNCHANGED <<owner, registry, job, vec, adopted>>
    BY DEF VerifyFullScan, MarkPublished
  <1>2. /\ gen' \in [Profiles -> GenRow]
        /\ \A q \in Profiles : gen'[q].durable = gen[q].durable
        /\ \A q \in Profiles : q # p => gen'[q] = gen[q]
        /\ gen'[p].full = gen[p].full \/ VectorsCurrent(p)
    <2>1. gen[p] \in GenRow
      BY DEF StoreTypeOK
    <2>2. CASE VerifyFullScan(p)
      BY <2>1, <2>2 DEF VerifyFullScan, StoreTypeOK, GenRow
    <2>3. CASE \E g \in Nat : MarkPublished(p, g)
      <3> PICK g \in Nat : MarkPublished(p, g)
        BY <2>3
      <3>1. gen' = [gen EXCEPT ![p] = [gen[p] EXCEPT !.published = g]]
        BY DEF MarkPublished
      <3>2. /\ [gen[p] EXCEPT !.published = g] \in GenRow
            /\ [gen[p] EXCEPT !.published = g].durable = gen[p].durable
            /\ [gen[p] EXCEPT !.published = g].full = gen[p].full
        BY <2>1 DEF GenRow
      <3> QED BY <3>1, <3>2 DEF StoreTypeOK
    <2> QED BY <2>2, <2>3
  <1>3. Fed' = Fed /\ Fed \subseteq Profiles
    BY <1>1 DEF Fed
  <1>4. \A o \in Owners : Live(o)' = Live(o) /\ Expected(o)' = Expected(o)
    BY <1>1 DEF Live, Expected
  <1>5. StoreTypeOK' /\ RegistryInv' /\ ClaimsAreFed' /\ NothingForgotten' /\ DoneMeansCurrent'
    BY <1>1, <1>2, <1>3, <1>4
       DEF StoreTypeOK, RegistryInv, ClaimsAreFed, NothingForgotten, DoneMeansCurrent
  <1>6. ScanStampSound'
    <2> SUFFICES ASSUME NEW q \in Fed, NEW o \in Owners,
                        gen'[q].full = gen'[q].durable, Live(o)
                 PROVE  job[q][o].st \in {"done", "dead"}
      BY <1>1, <1>3, <1>4 DEF ScanStampSound
    <2>1. CASE gen'[q].full = gen[q].full
      BY <1>2, <1>3, <2>1 DEF ScanStampSound
    <2>2. CASE gen'[q].full # gen[q].full
      <3>1. q = p /\ VectorsCurrent(p)
        BY <1>2, <1>3, <2>2
      <3>2. job[q][o].st \in {"none", "done", "dead"}
        BY <3>1 DEF VectorsCurrent
      <3> QED BY <3>2 DEF NothingForgotten
    <2> QED BY <2>1, <2>2
  <1>7. FilesInv'
    BY <1>1 DEF FilesInv, Live
  <1>8. ClaimsKept
    BY <1>1 DEF ClaimsKept
  <1>9. Forward
    <2>1. \A q \in adopted : q \in Profiles /\ gen[q].durable \in Nat
      BY DEF StoreTypeOK, GenRow
    <2> QED BY <1>1, <1>2, <2>1 DEF Forward
  <1> QED BY <1>5, <1>6, <1>7, <1>8, <1>9

-----------------------------------------------------------------------------
(* The job repository *)

\* A claim, a renewal and a passing timer rewrite one unfinished row, which
\* stays unfinished and keeps its revision and operation.
RowRewritten(p, o) ==
    /\ job[p][o].st \in {"pending", "leased"}
    /\ job'[p][o].st \in {"pending", "leased"}
    /\ job'[p][o].rev = job[p][o].rev
    /\ job'[p][o].op = job[p][o].op
    /\ job' \in [Profiles -> [Owners -> JobRow]]
    /\ \A q \in Profiles, x \in Owners : q # p \/ x # o => job'[q][x] = job[q][x]
    /\ UNCHANGED <<owner, registry, vec, gen, adopted>>

\* A claim, a renewal or a timer changes one claim and nothing else.
LEMMA RowRewrittenSafe ==
    ASSUME StoreInv, NEW p \in Profiles, NEW o \in Owners, RowRewritten(p, o)
    PROVE  StoreInv' /\ Forward
  <1> USE DEF StoreInv
  <1>1. Fed' = Fed /\ Fed \subseteq Profiles
    BY DEF Fed, RowRewritten
  <1>2. \A x \in Owners : Live(x)' = Live(x) /\ Expected(x)' = Expected(x)
    BY DEF Live, Expected, RowRewritten
  <1>3. StoreTypeOK' /\ RegistryInv' /\ FilesInv'
    BY DEF StoreTypeOK, RegistryInv, FilesInv, Live, RowRewritten
  <1>4. \A q \in Profiles, x \in Owners :
          \/ job'[q][x] = job[q][x]
          \/ /\ job[q][x].st \in {"pending", "leased"} /\ job'[q][x].st \in {"pending", "leased"}
             /\ job'[q][x].rev = job[q][x].rev
             /\ job'[q][x].op = job[q][x].op
    BY DEF RowRewritten
  <1>5. UNCHANGED <<owner, registry, vec, gen, adopted>>
    BY DEF RowRewritten
  <1>6. ClaimsAreFed'
    BY <1>1, <1>4 DEF ClaimsAreFed
  <1>7. NothingForgotten'
    BY <1>1, <1>2, <1>4, <1>5 DEF NothingForgotten
  <1>8. DoneMeansCurrent'
    BY <1>1, <1>2, <1>4, <1>5 DEF DoneMeansCurrent
  <1>9. ScanStampSound'
    BY <1>1, <1>2, <1>4, <1>5 DEF ScanStampSound
  <1>10. Forward
    <2>1. \A q \in adopted : q \in Profiles /\ gen[q].durable \in Nat
      BY DEF StoreTypeOK, GenRow
    <2> QED BY <1>4, <1>5, <2>1 DEF Forward
  <1> QED BY <1>3, <1>6, <1>7, <1>8, <1>9, <1>10

\* A retry either queues the row again or buries it with its vectors.
LEMMA RetrySafe ==
    ASSUME StoreInv, NEW k \in Claimed, NEW w \in Workers, NEW late \in BOOLEAN,
           Holds(w, k, late), RetryRow(k)
    PROVE  StoreInv' /\ ClaimsKept /\ Forward
  <1> USE DEF StoreInv
  <1> DEFINE p == k.p
             o == k.o
             dead == k.attempts >= MaxAttempts
             row == [job[p][o] EXCEPT !.st = IF dead THEN "dead" ELSE "pending", !.ripe = FALSE]
  <1>1. p \in Profiles /\ o \in Owners /\ job[p][o].st = "leased"
    BY DEF Claimed, Holds
  <1>2. /\ job[p][o] \in JobRow
        /\ row \in JobRow /\ row.st = (IF dead THEN "dead" ELSE "pending")
        /\ row.rev = job[p][o].rev /\ row.op = job[p][o].op
    <2>1. job[p][o] \in JobRow
      BY <1>1 DEF StoreTypeOK
    <2> QED BY <2>1 DEF JobRow
  <1>3. /\ job' = SetRow(p, o, row)
        /\ vec' = IF dead THEN SetVec(p, o, NoVec) ELSE vec
        /\ gen' = IF dead /\ o \in Attachments /\ vec[p][o] # NoVec
                  THEN [gen EXCEPT ![p] = Advanced(@)] ELSE gen
        /\ UNCHANGED <<owner, registry, adopted>>
    BY DEF RetryRow
  <1> HIDE DEF row, dead
  <1>4. /\ job' \in [Profiles -> [Owners -> JobRow]]
        /\ job'[p][o] = row
        /\ \A q \in Profiles, x \in Owners : q # p \/ x # o => job'[q][x] = job[q][x]
    <2>1. /\ SetRow(p, o, row) \in [Profiles -> [Owners -> JobRow]]
          /\ SetRow(p, o, row)[p][o] = row
          /\ \A q \in Profiles, x \in Owners :
               q # p \/ x # o => SetRow(p, o, row)[q][x] = job[q][x]
      BY <1>1, <1>2, SetRowFacts
    <2> QED BY <1>3, <2>1
  <1>5. /\ vec' \in [Profiles -> [Owners -> VecRow]]
        /\ dead => vec'[p][o] = NoVec
        /\ ~dead => vec' = vec
        /\ \A q \in Profiles, x \in Owners : q # p \/ x # o => vec'[q][x] = vec[q][x]
    BY <1>1, <1>3, RowTypes, SetVecFacts DEF StoreTypeOK
  <1>6. /\ gen' \in [Profiles -> GenRow]
        /\ \A q \in Profiles : gen'[q] \in {gen[q], Advanced(gen[q])}
        /\ dead /\ o \in Attachments /\ vec[p][o] # NoVec => gen'[p] = Advanced(gen[p])
    BY <1>1, <1>3, RowTypes DEF StoreTypeOK
  <1>7. \A q \in Profiles :
          /\ gen[q].durable \in Nat /\ gen[q].durable <= gen'[q].durable
          /\ gen'[q] = Advanced(gen[q]) => gen[q].durable # gen'[q].durable
          /\ gen'[q].full = gen'[q].durable => gen'[q] = gen[q]
    <2> SUFFICES ASSUME NEW q \in Profiles
                 PROVE  /\ gen[q].durable \in Nat /\ gen[q].durable <= gen'[q].durable
                        /\ gen'[q] = Advanced(gen[q]) => gen[q].durable # gen'[q].durable
                        /\ gen'[q].full = gen'[q].durable => gen'[q] = gen[q]
      OBVIOUS
    <2>1. gen[q] \in GenRow
      BY DEF StoreTypeOK
    <2>2. gen[q].durable \in Nat
      BY <2>1 DEF GenRow
    <2> QED BY <1>6, <2>1, <2>2, GenFacts
  <1>8. Fed' = Fed /\ Fed \subseteq Profiles
    BY <1>3 DEF Fed
  <1>9. \A x \in Owners : Live(x)' = Live(x) /\ Expected(x)' = Expected(x)
    BY <1>3 DEF Live, Expected
  <1>10. StoreTypeOK' /\ RegistryInv'
    BY <1>3, <1>4, <1>5, <1>6 DEF StoreTypeOK, RegistryInv
  <1>11. \A q \in Profiles, x \in Owners :
           \/ job'[q][x] = job[q][x] /\ vec'[q][x] = vec[q][x]
           \/ /\ q = p /\ x = o
              /\ job[q][x].st = "leased"
              /\ job'[q][x].st = "pending" \/ (job'[q][x].st = "dead" /\ vec'[q][x] = NoVec)
              /\ job'[q][x].rev = job[q][x].rev
              /\ job'[q][x].op = job[q][x].op
              /\ vec'[q][x] \in {vec[q][x], NoVec}
    BY <1>1, <1>2, <1>4, <1>5
  <1>12. ClaimsAreFed'
    BY <1>8, <1>11 DEF ClaimsAreFed
  <1>13. NothingForgotten'
    BY <1>3, <1>8, <1>9, <1>11 DEF NothingForgotten
  <1>14. DoneMeansCurrent'
    BY <1>8, <1>9, <1>11 DEF DoneMeansCurrent
  <1>15. ScanStampSound'
    BY <1>7, <1>8, <1>9, <1>11 DEF ScanStampSound
  <1>16. FilesInv'
    BY <1>9, <1>11 DEF FilesInv, Owners
  <1>17. ClaimsKept
    BY <1>3, <1>11 DEF ClaimsKept
  <1>18. Forward
    <2> SUFFICES ASSUME NEW q \in adopted, gen[q].durable = gen'[q].durable, NEW x \in Owners,
                        job'[q][x].st = "done" \/ x \in Attachments
                 PROVE  /\ job[q][x].st = "done" \/ x \in Attachments
                        /\ vec'[q][x] = vec[q][x]
      BY <1>3, <1>7 DEF Forward, StoreTypeOK
    <2>1. q \in Profiles
      BY DEF StoreTypeOK
    <2>2. CASE q # p \/ x # o
      BY <1>11, <2>1, <2>2
    <2>3. CASE q = p /\ x = o
      <3>1. x \in Attachments
        <4>1. job'[p][o].st # "done"
          BY <1>2, <1>4
        <4> QED BY <2>3, <4>1
      <3>2. dead => vec[p][o] = NoVec
        BY <1>6, <1>7, <2>1, <2>3, <3>1
      <3> QED BY <1>5, <2>3, <3>1, <3>2
    <2> QED BY <2>2, <2>3
  <1> QED BY <1>10, <1>12, <1>13, <1>14, <1>15, <1>16, <1>17, <1>18

\* An accepted commit stores the text the owner has now: the claim still stands,
\* so nothing was written since it was read.
LEMMA CommitSafe ==
    ASSUME StoreInv, NEW k \in Claimed, NEW w \in Workers, NEW late \in BOOLEAN,
           NEW doc \in Doc, CommitAccepts(w, k, late), CommitRow(k, doc),
           job[k.p][k.o].op = k.op,
           k.op = "upsert" => doc = [head |-> owner[k.o].content, body |-> owner[k.o].content]
    PROVE  StoreInv' /\ ClaimsKept /\ Forward
  <1> USE ChunkJobsAssumption DEF StoreInv
  <1> DEFINE p == k.p
             o == k.o
             row == [job[p][o] EXCEPT !.st = "done"]
             new == Chunks(k, doc)
  <1>1. /\ p \in Profiles /\ o \in Owners /\ k.rev \in Nat
        /\ k.op \in {"upsert", "delete"}
        /\ doc.head \in 0..MaxContent /\ doc.body \in 0..MaxContent
    BY DEF Claimed, Operations, Doc
  <1>2. /\ job[p][o].st = "leased"
        /\ job[p][o].rev = k.rev /\ owner[o].rev = k.rev
        /\ owner[o].st = IF k.op = "upsert" THEN "live" ELSE "tomb"
    BY DEF CommitAccepts, Holds
  <1>3. /\ row \in JobRow /\ row.st = "done"
        /\ row.rev = job[p][o].rev /\ row.op = job[p][o].op
    <2>1. job[p][o] \in JobRow
      BY <1>1 DEF StoreTypeOK
    <2> QED BY <2>1 DEF JobRow
  <1>4. new \in VecRow
    BY <1>1, RowTypes DEF Chunks, VecRow
  <1>5. new = Expected(o)
    <2>1. CASE k.op = "upsert"
      BY <1>2, <2>1 DEF Chunks, Expected, Live
    <2>2. CASE k.op = "delete"
      BY <1>2, <2>2 DEF Chunks, Expected, Live
    <2> QED BY <1>1, <2>1, <2>2
  <1>6. /\ job' = SetRow(p, o, row)
        /\ vec' = SetVec(p, o, new)
        /\ gen' = [gen EXCEPT ![p] = Advanced(@)]
        /\ UNCHANGED <<owner, registry, adopted>>
    BY DEF CommitRow
  <1> HIDE DEF row, new
  <1>7. /\ job' \in [Profiles -> [Owners -> JobRow]]
        /\ job'[p][o] = row
        /\ \A q \in Profiles, x \in Owners : q # p \/ x # o => job'[q][x] = job[q][x]
    <2>1. /\ SetRow(p, o, row) \in [Profiles -> [Owners -> JobRow]]
          /\ SetRow(p, o, row)[p][o] = row
          /\ \A q \in Profiles, x \in Owners :
               q # p \/ x # o => SetRow(p, o, row)[q][x] = job[q][x]
      BY <1>1, <1>3, SetRowFacts
    <2> QED BY <1>6, <2>1
  <1>8. /\ vec' \in [Profiles -> [Owners -> VecRow]]
        /\ vec'[p][o] = new
        /\ \A q \in Profiles, x \in Owners : q # p \/ x # o => vec'[q][x] = vec[q][x]
    <2>1. /\ SetVec(p, o, new) \in [Profiles -> [Owners -> VecRow]]
          /\ SetVec(p, o, new)[p][o] = new
          /\ \A q \in Profiles, x \in Owners :
               q # p \/ x # o => SetVec(p, o, new)[q][x] = vec[q][x]
      BY <1>1, <1>4, SetVecFacts
    <2> QED BY <1>6, <2>1
  <1>9. /\ gen' \in [Profiles -> GenRow]
        /\ \A q \in Profiles : q # p => gen'[q] = gen[q]
        /\ gen'[p].durable = gen[p].durable + 1
        /\ gen'[p].full # gen'[p].durable
    <2>1. gen[p] \in GenRow
      BY <1>1 DEF StoreTypeOK
    <2>2. gen'[p] = Advanced(gen[p]) /\ \A q \in Profiles : q # p => gen'[q] = gen[q]
      BY <1>1, <1>6 DEF StoreTypeOK
    <2> QED BY <1>1, <1>6, <2>1, <2>2, GenFacts DEF StoreTypeOK
  <1>10. Fed' = Fed /\ Fed \subseteq Profiles
    BY <1>6 DEF Fed
  <1>11. \A x \in Owners : Live(x)' = Live(x) /\ Expected(x)' = Expected(x)
    BY <1>6 DEF Live, Expected
  <1>12. StoreTypeOK' /\ RegistryInv'
    BY <1>6, <1>7, <1>8, <1>9 DEF StoreTypeOK, RegistryInv
  <1>13. \A q \in Profiles, x \in Owners :
           \/ job'[q][x] = job[q][x] /\ vec'[q][x] = vec[q][x]
           \/ /\ q = p /\ x = o
              /\ job'[q][x].st = "done"
              /\ job'[q][x].rev = job[q][x].rev
              /\ job'[q][x].op = job[q][x].op
              /\ vec'[q][x] = Expected(x)
    BY <1>3, <1>5, <1>7, <1>8
  <1>14. ClaimsAreFed'
    BY <1>10, <1>13 DEF ClaimsAreFed
  <1>15. NothingForgotten'
    BY <1>6, <1>10, <1>11, <1>13 DEF NothingForgotten
  <1>16. DoneMeansCurrent'
    BY <1>10, <1>11, <1>13 DEF DoneMeansCurrent
  <1>17. ScanStampSound'
    <2> SUFFICES ASSUME NEW q \in Fed, NEW x \in Owners,
                        gen'[q].full = gen'[q].durable, Live(x)
                 PROVE  job'[q][x].st \in {"done", "dead"}
      BY <1>10, <1>11 DEF ScanStampSound
    <2>1. q # p /\ gen'[q] = gen[q]
      BY <1>9, <1>10
    <2> QED BY <1>10, <1>13, <2>1 DEF ScanStampSound
  <1>18. FilesInv'
    <2>1. Attachments \subseteq Owners /\ \A x \in Owners : Expected(x) # NoVec => Live(x)
      BY DEF Owners, Expected
    <2> QED BY <1>11, <1>13, <2>1 DEF FilesInv
  <1>19. ClaimsKept
    BY <1>6, <1>13 DEF ClaimsKept
  <1>20. Forward
    <2>1. \A q \in adopted : q \in Profiles /\ gen[q].durable \in Nat
      BY DEF StoreTypeOK, GenRow
    <2>2. \A q \in adopted : gen[q].durable <= gen'[q].durable
      BY <1>9, <2>1
    <2>3. \A q \in adopted : gen[q].durable = gen'[q].durable => q # p
      BY <1>9, <2>1
    <2> QED BY <1>6, <1>13, <2>1, <2>2, <2>3 DEF Forward
  <1> QED BY <1>12, <1>14, <1>15, <1>16, <1>17, <1>18, <1>19, <1>20

-----------------------------------------------------------------------------
(* The worker *)

\* What a step of the indexer keeps.
WorkerSafe == StoreInv' /\ WorkerTypeOK' /\ WorkersInv' /\ Forward

\* A step that leaves the tables alone keeps every invariant of the store.
LEMMA Unchanged ==
    ASSUME StoreInv, UNCHANGED tables
    PROVE  StoreInv' /\ ClaimsKept /\ Forward
  <1> USE DEF StoreInv
  <1>1. UNCHANGED <<owner, registry, job, vec, gen, adopted>>
    BY DEF tables
  <1>2. StoreInv'
    BY <1>1 DEF StoreTypeOK, RegistryInv, ClaimsAreFed, NothingForgotten, DoneMeansCurrent,
                ScanStampSound, FilesInv, Fed, Live, Expected
  <1>3. \A q \in adopted : gen[q].durable \in Nat
    BY DEF StoreTypeOK, GenRow
  <1> QED BY <1>1, <1>2, <1>3 DEF ClaimsKept, Forward

\* A worker that moves without touching the store.
LEMMA WorkerMoves ==
    ASSUME StoreInv, WorkerTypeOK, WorkersInv, UNCHANGED tables, NEW w \in Workers,
           NEW state \in WorkerState, Become(w, state), faults' \in 0..MaxFaults,
           state.pc # "idle" => ClaimStillGood(w)',
           state.pc = "embed" => state.left > 0
    PROVE  WorkerSafe
  <1>1. worker'[w] = state /\ \A v \in Workers \ {w} : worker'[v] = worker[v]
    BY DEF Become, WorkerTypeOK
  <1>2. WorkerTypeOK'
    BY DEF Become, WorkerTypeOK
  <1>3. StoreInv' /\ Forward
    BY Unchanged
  <1>4. owner' = owner /\ job' = job
    BY DEF tables
  <1>5. WorkersInv'
    BY <1>1, <1>4, OtherWorkersKept
  <1> QED BY <1>2, <1>3, <1>5 DEF WorkerSafe

\* The renewal of a claim.
LEMMA RenewFacts ==
    ASSUME StoreInv, NEW k \in Claimed, NEW w \in Workers, NEW late \in BOOLEAN,
           Holds(w, k, late), RenewRow(k)
    PROVE  RowRewritten(k.p, k.o) /\ ClaimsKept
  <1> USE DEF StoreInv
  <1> DEFINE row == [job[k.p][k.o] EXCEPT !.ripe = FALSE]
  <1>1. k.p \in Profiles /\ k.o \in Owners /\ job[k.p][k.o].st = "leased"
    BY DEF Claimed, Holds
  <1>2. /\ row \in JobRow /\ row.st = "leased" /\ row.lease = job[k.p][k.o].lease
        /\ row.rev = job[k.p][k.o].rev /\ row.op = job[k.p][k.o].op
    <2>1. job[k.p][k.o] \in JobRow
      BY <1>1 DEF StoreTypeOK
    <2> QED BY <1>1, <2>1 DEF JobRow
  <1>3. job' = SetRow(k.p, k.o, row) /\ UNCHANGED <<owner, registry, vec, gen, adopted>>
    BY DEF RenewRow
  <1> HIDE DEF row
  <1>4. /\ SetRow(k.p, k.o, row) \in [Profiles -> [Owners -> JobRow]]
        /\ SetRow(k.p, k.o, row)[k.p][k.o] = row
        /\ \A q \in Profiles, x \in Owners :
             q # k.p \/ x # k.o => SetRow(k.p, k.o, row)[q][x] = job[q][x]
    BY <1>1, <1>2, SetRowFacts
  <1>5. RowRewritten(k.p, k.o)
    BY <1>1, <1>2, <1>3, <1>4 DEF RowRewritten
  <1>6. ClaimsKept
    BY <1>1, <1>2, <1>3, <1>4 DEF ClaimsKept
  <1> QED BY <1>5, <1>6

\* A worker that renews its claim and moves on with it.
LEMMA WorkerRenews ==
    ASSUME StoreInv, WorkerTypeOK, WorkersInv, NEW w \in Workers, NEW late \in BOOLEAN,
           NEW state \in WorkerState, Become(w, state), faults' = faults,
           ~At(w, "idle"), state.k = worker[w].k, state.doc = worker[w].doc,
           Holds(w, worker[w].k, late), RenewRow(worker[w].k),
           state.pc = "embed" => state.left > 0,
           state.pc \in {"reread", "embed", "renew"} => At(w, "renew"),
           state.pc = "commit" => At(w, "renew") \/ worker[w].k.op = "delete"
    PROVE  WorkerSafe
  <1> DEFINE k == worker[w].k
  <1>1. worker'[w] = state /\ \A v \in Workers \ {w} : worker'[v] = worker[v]
    BY DEF Become, WorkerTypeOK
  <1>2. WorkerTypeOK'
    BY DEF Become, WorkerTypeOK
  <1>3. ClaimStillGood(w) /\ k \in Claimed /\ k.p \in Profiles /\ k.o \in Owners
    BY DEF WorkersInv, ClaimStillGood, Claimed
  <1>4. RowRewritten(k.p, k.o) /\ ClaimsKept
    BY <1>3, RenewFacts
  <1>5. StoreInv' /\ Forward
    BY <1>3, <1>4, RowRewrittenSafe
  <1>6. /\ owner' = owner
        /\ job'[k.p][k.o].rev = job[k.p][k.o].rev
        /\ job'[k.p][k.o].op = job[k.p][k.o].op
    BY <1>4 DEF RowRewritten
  <1>7. job[k.p][k.o].st = "leased" /\ job[k.p][k.o].lease = w
    BY DEF Holds
  <1>8. At(w, "renew") => worker[w].doc.head = owner[k.o].content
                          /\ worker[w].doc.body = owner[k.o].content
    BY <1>3, <1>7 DEF ClaimStillGood, At
  <1>9. worker[w].doc = [head |-> worker[w].doc.head, body |-> worker[w].doc.body]
    BY DEF WorkerTypeOK, WorkerState, Doc
  <1>10. ClaimStillGood(w)'
    <2>1. job[k.p][k.o].rev = k.rev /\ job[k.p][k.o].op = k.op
      BY <1>3, <1>7 DEF ClaimStillGood
    <2>2. "delete" # "upsert"
      OBVIOUS
    <2> QED BY <1>1, <1>3, <1>6, <1>8, <1>9, <2>1, <2>2 DEF ClaimStillGood
  <1>11. WorkersInv'
    BY <1>1, <1>4, <1>6, <1>10, OtherWorkersKept DEF ClaimsKept
  <1> QED BY <1>2, <1>5, <1>11 DEF WorkerSafe

\* A worker that gives up its run.
LEMMA WorkerReturns ==
    ASSUME StoreInv', Forward, ClaimsKept, WorkerTypeOK, WorkersInv, NEW w \in Workers,
           owner' = owner, Return(w), faults' \in 0..MaxFaults
    PROVE  WorkerSafe
  <1>1. Idle \in WorkerState /\ Idle.pc = "idle"
    BY ChunkJobsAssumption, WorkerAssumption DEF Idle, NoDoc, WorkerState, Doc
  <1>2. worker'[w] = Idle /\ \A v \in Workers \ {w} : worker'[v] = worker[v]
    BY DEF Return, Become, WorkerTypeOK
  <1>3. WorkerTypeOK'
    BY <1>1 DEF Return, Become, WorkerTypeOK
  <1>4. WorkersInv'
    <2>1. worker'[w].pc = "idle"
      BY <1>1, <1>2
    <2> QED BY <1>2, <2>1, OtherWorkersKept DEF ClaimsKept
  <1> QED BY <1>3, <1>4 DEF WorkerSafe

\* claim_due gives a due row to a worker; whoever held it before loses it.
LEMMA ClaimSafe ==
    ASSUME StoreInv, WorkerTypeOK, WorkersInv,
           NEW w \in Workers, NEW p \in Profiles, NEW o \in Owners, Claim(w, p, o)
    PROVE  WorkerSafe
  <1> USE ChunkJobsAssumption DEF StoreInv
  <1> DEFINE row == LeasedTo(w, job[p][o])
             state == [pc |-> "claimed", doc |-> NoDoc, left |-> 0,
                       k |-> [p |-> p, o |-> o, op |-> job[p][o].op, rev |-> job[p][o].rev,
                              attempts |-> row.attempts]]
  <1>1. job[p][o] \in JobRow
    BY DEF StoreTypeOK
  <1>2. /\ job[p][o].st \in {"pending", "leased"}
        /\ job' = SetRow(p, o, row)
        /\ UNCHANGED <<owner, registry, vec, gen, adopted>>
        /\ Become(w, state) /\ faults' = faults
    BY DEF Claim, ClaimRow, Due
  <1>3. /\ row \in JobRow /\ row.st = "leased" /\ row.lease = w
        /\ row.rev = job[p][o].rev /\ row.op = job[p][o].op
    <2>1. /\ job[p][o].attempts \in 0..MaxAttempts
          /\ (IF job[p][o].attempts < MaxAttempts THEN job[p][o].attempts + 1
              ELSE job[p][o].attempts) \in 0..MaxAttempts
      BY <1>1 DEF JobRow
    <2> QED BY <1>1, <2>1 DEF JobRow, LeasedTo
  <1>4. state.k \in Claimed
    BY <1>1, <1>3 DEF Claimed, JobRow
  <1>5. state \in WorkerState
    BY <1>4, WorkerAssumption DEF WorkerState, NoDoc, Doc
  <1>6. state.pc = "claimed" /\ state.k.p = p /\ state.k.o = o
        /\ state.k.rev = job[p][o].rev /\ state.k.op = job[p][o].op
    OBVIOUS
  <1> HIDE DEF row, state
  <1>7. /\ SetRow(p, o, row) \in [Profiles -> [Owners -> JobRow]]
        /\ SetRow(p, o, row)[p][o] = row
        /\ \A q \in Profiles, x \in Owners :
             q # p \/ x # o => SetRow(p, o, row)[q][x] = job[q][x]
    BY <1>3, SetRowFacts
  <1>8. RowRewritten(p, o)
    BY <1>2, <1>3, <1>7 DEF RowRewritten
  <1>9. StoreInv' /\ Forward
    BY <1>8, RowRewrittenSafe
  <1>10. worker'[w] = state /\ \A v \in Workers \ {w} : worker'[v] = worker[v]
    BY <1>2 DEF Become, WorkerTypeOK
  <1>11. WorkerTypeOK'
    BY <1>2, <1>5 DEF Become, WorkerTypeOK
  <1>12. ClaimStillGood(w)'
    BY <1>2, <1>3, <1>4, <1>6, <1>7, <1>10 DEF ClaimStillGood
  <1>13. \A q \in Profiles, x \in Owners :
           job'[q][x].st = "leased" /\ job'[q][x].lease \in Workers \ {w}
           => job'[q][x] = job[q][x]
    BY <1>2, <1>3, <1>7
  <1>14. WorkersInv'
    BY <1>2, <1>6, <1>10, <1>12, <1>13, OtherWorkersKept
  <1> QED BY <1>9, <1>11, <1>14 DEF WorkerSafe

\* The clock only makes a row due; a claim under it still stands.
LEMMA TimerSafe ==
    ASSUME StoreInv, WorkerTypeOK, WorkersInv,
           NEW p \in Profiles, NEW o \in Owners, TimerPasses(p, o)
    PROVE  WorkerSafe
  <1> USE DEF StoreInv
  <1> DEFINE row == [job[p][o] EXCEPT !.ripe = TRUE]
  <1>1. job[p][o] \in JobRow
    BY DEF StoreTypeOK
  <1>2. /\ job[p][o].st \in {"pending", "leased"}
        /\ job' = SetRow(p, o, row)
        /\ UNCHANGED <<owner, registry, vec, gen, adopted, worker>>
        /\ faults' = faults \/ (faults < MaxFaults /\ faults' = faults + 1)
    BY DEF TimerPasses
  <1>3. /\ row \in JobRow /\ row.st = job[p][o].st /\ row.lease = job[p][o].lease
        /\ row.rev = job[p][o].rev /\ row.op = job[p][o].op
    BY <1>1 DEF JobRow
  <1> HIDE DEF row
  <1>4. /\ SetRow(p, o, row) \in [Profiles -> [Owners -> JobRow]]
        /\ SetRow(p, o, row)[p][o] = row
        /\ \A q \in Profiles, x \in Owners :
             q # p \/ x # o => SetRow(p, o, row)[q][x] = job[q][x]
    BY <1>3, SetRowFacts
  <1>5. RowRewritten(p, o)
    BY <1>2, <1>3, <1>4 DEF RowRewritten
  <1>6. StoreInv' /\ Forward
    BY <1>5, RowRewrittenSafe
  <1>7. ClaimsKept
    BY <1>2, <1>3, <1>4 DEF ClaimsKept
  <1>8. WorkersInv'
    BY <1>2, <1>7, WorkersKept
  <1>9. WorkerTypeOK'
    BY <1>2, WorkerAssumption DEF WorkerTypeOK
  <1> QED BY <1>6, <1>8, <1>9 DEF WorkerSafe

\* The reads and the provider requests: the worker moves, the store does not.
LEMMA ReadsSafe ==
    ASSUME StoreInv, WorkerTypeOK, WorkersInv, NEW w \in Workers,
           ReadDocument(w) \/ ReadBody(w) \/ Embed(w)
    PROVE  WorkerSafe
  <1> USE ChunkJobsAssumption, WorkerAssumption
  <1> DEFINE k == worker[w].k
             text == owner[k.o].content
  <1>1. UNCHANGED tables /\ faults' = faults /\ ~At(w, "idle")
    BY DEF ReadDocument, ReadBody, Embed, At
  <1>2. ClaimStillGood(w) /\ k \in Claimed /\ k.o \in Owners
    BY <1>1 DEF WorkersInv, ClaimStillGood, Claimed
  <1>3. owner' = owner /\ job' = job
    BY <1>1 DEF tables
  <1>4. /\ worker[w] \in WorkerState /\ worker[w].doc \in Doc
        /\ worker[w].left \in 0..MaxBatches /\ faults' \in 0..MaxFaults
    BY <1>1 DEF WorkerTypeOK, WorkerState
  <1>5. text \in 0..MaxContent
    BY <1>2 DEF StoreInv, StoreTypeOK, OwnerRow
  <1>6. ASSUME NEW state \in WorkerState, Become(w, state), state.k = k,
               state.pc = "embed" => state.left > 0,
               (job[k.p][k.o].st = "leased" /\ job[k.p][k.o].lease = w) =>
                  /\ state.pc \in {"reread", "embed", "renew"} => state.doc.head = text
                  /\ state.pc \in {"embed", "renew"} => state.doc.body = text
                  /\ state.pc = "commit" => state.doc = [head |-> text, body |-> text]
        PROVE  WorkerSafe
    <2>1. worker'[w] = state
      BY <1>6 DEF Become, WorkerTypeOK
    <2>2. ClaimStillGood(w)'
      BY <1>2, <1>3, <1>6, <2>1 DEF ClaimStillGood
    <2> QED BY <1>1, <1>4, <1>6, <2>2, WorkerMoves
  <1>7. ASSUME Go(w, "failed") PROVE WorkerSafe
    <2> DEFINE state == [worker[w] EXCEPT !.pc = "failed"]
    <2>1. state \in WorkerState /\ state.k = k /\ state.pc = "failed"
      BY <1>4 DEF WorkerState
    <2>2. Become(w, state)
      BY <1>7 DEF Go
    <2> HIDE DEF state
    <2> QED BY <1>6, <2>1, <2>2
  <1>8. CASE ReadDocument(w)
    <2>1. CASE Go(w, "failed")
      BY <1>7, <2>1
    <2>2. ASSUME NEW n \in 1..MaxBatches,
                 Become(w, [pc |-> "embed", k |-> k, left |-> n,
                            doc |-> [head |-> text, body |-> text]])
          PROVE  WorkerSafe
      <3> DEFINE state == [pc |-> "embed", k |-> k, left |-> n,
                           doc |-> [head |-> text, body |-> text]]
      <3>1. state \in WorkerState
        BY <1>2, <1>5 DEF WorkerState, Doc
      <3>2. state.k = k /\ state.left > 0 /\ state.doc.head = text /\ state.doc.body = text
            /\ state.pc = "embed" /\ Become(w, state)
        BY <2>2
      <3> HIDE DEF state
      <3> QED BY <1>6, <3>1, <3>2
    <2>3. ASSUME Become(w, [pc |-> "reread", k |-> k, left |-> 0,
                            doc |-> [NoDoc EXCEPT !.head = text]])
          PROVE  WorkerSafe
      <3> DEFINE state == [pc |-> "reread", k |-> k, left |-> 0,
                           doc |-> [NoDoc EXCEPT !.head = text]]
      <3>1. [NoDoc EXCEPT !.head = text] \in Doc /\ [NoDoc EXCEPT !.head = text].head = text
        BY <1>5 DEF NoDoc, Doc
      <3>2. state \in WorkerState
        BY <1>2, <3>1 DEF WorkerState
      <3>3. state.k = k /\ state.doc.head = text /\ state.pc = "reread" /\ Become(w, state)
        BY <2>3, <3>1
      <3> HIDE DEF state
      <3> QED BY <1>6, <3>2, <3>3
    <2> QED BY <1>8, <2>1, <2>2, <2>3 DEF ReadDocument
  <1>9. CASE ReadBody(w)
    <2> DEFINE doc == [worker[w].doc EXCEPT !.body = text]
    <2>1. doc \in Doc /\ doc.body = text /\ doc.head = worker[w].doc.head
      BY <1>4, <1>5 DEF Doc
    <2>2. doc = [head |-> doc.head, body |-> doc.body]
      BY <2>1 DEF Doc
    <2>3. (job[k.p][k.o].st = "leased" /\ job[k.p][k.o].lease = w) => doc.head = text
      BY <1>2, <1>9, <2>1 DEF ClaimStillGood, ReadBody, At
    <2>4. ASSUME NEW pc \in {"commit", "embed"}, NEW n \in 0..MaxBatches,
                 pc = "embed" => n > 0,
                 Become(w, [pc |-> pc, k |-> k, doc |-> doc, left |-> n])
          PROVE  WorkerSafe
      <3> HIDE DEF doc
      <3> DEFINE state == [pc |-> pc, k |-> k, doc |-> doc, left |-> n]
      <3>1. state \in WorkerState
        BY <1>2, <2>1 DEF WorkerState
      <3>2. state.k = k /\ state.doc = doc /\ state.pc = pc /\ state.left = n /\ Become(w, state)
        BY <2>4
      <3> HIDE DEF state
      <3> QED BY <1>6, <2>1, <2>2, <2>3, <2>4, <3>1, <3>2
    <2>5. CASE Become(w, [pc |-> "commit", k |-> k, doc |-> doc, left |-> 0])
      <3>1. 0 \in 0..MaxBatches
        OBVIOUS
      <3> QED BY <2>4, <2>5, <3>1
    <2>6. ASSUME NEW n \in 1..MaxBatches,
                 Become(w, [pc |-> "embed", k |-> k, doc |-> doc, left |-> n])
          PROVE  WorkerSafe
      <3>1. n \in 0..MaxBatches /\ n > 0
        OBVIOUS
      <3> QED BY <2>4, <2>6, <3>1
    <2> QED BY <1>9, <2>5, <2>6 DEF ReadBody
  <1>10. CASE Embed(w)
    <2>1. CASE Go(w, "failed")
      BY <1>7, <2>1
    <2>2. CASE Become(w, [worker[w] EXCEPT !.pc = "renew", !.left = @ - 1])
      <3> DEFINE state == [worker[w] EXCEPT !.pc = "renew", !.left = @ - 1]
      <3>1. worker[w].left - 1 \in 0..MaxBatches
        BY <1>4, <1>10 DEF WorkersInv, Embed, At
      <3>2. state \in WorkerState
        BY <1>4, <3>1 DEF WorkerState
      <3>3. state.k = k /\ state.pc = "renew" /\ state.doc = worker[w].doc /\ Become(w, state)
        BY <1>4, <2>2 DEF WorkerState
      <3>4. (job[k.p][k.o].st = "leased" /\ job[k.p][k.o].lease = w)
            => worker[w].doc.head = text /\ worker[w].doc.body = text
        BY <1>2, <1>10 DEF ClaimStillGood, Embed, At
      <3> HIDE DEF state
      <3> QED BY <1>6, <3>2, <3>3, <3>4
    <2> QED BY <1>10, <2>1, <2>2 DEF Embed
  <1> QED BY <1>8, <1>9, <1>10

\* The renewals: go on with a standing claim, or give up.
LEMMA RenewalsSafe ==
    ASSUME StoreInv, WorkerTypeOK, WorkersInv, NEW w \in Workers, NEW late \in BOOLEAN,
           StartWork(w, late) \/ RenewLease(w, late)
    PROVE  WorkerSafe
  <1> DEFINE k == worker[w].k
  <1>1. faults' = faults /\ ~At(w, "idle") /\ worker[w] \in WorkerState
        /\ faults' \in 0..MaxFaults
    BY DEF StartWork, RenewLease, At, WorkerTypeOK
  <1>2. ASSUME UNCHANGED tables, Return(w) PROVE WorkerSafe
    <2>1. owner' = owner
      BY <1>2 DEF tables
    <2> QED BY <1>1, <1>2, <2>1, Unchanged, WorkerReturns
  <1>3. ASSUME NEW pc \in {"commit", "read", "embed"}, Go(w, pc), Holds(w, k, late), RenewRow(k),
               pc = "embed" => worker[w].left > 0,
               pc = "embed" => At(w, "renew"),
               pc = "commit" => At(w, "renew") \/ k.op = "delete"
        PROVE  WorkerSafe
    <2> DEFINE state == [worker[w] EXCEPT !.pc = pc]
    <2>1. /\ state \in WorkerState /\ state.pc = pc /\ state.k = k
          /\ state.doc = worker[w].doc /\ state.left = worker[w].left
      BY <1>1 DEF WorkerState
    <2>2. Become(w, state)
      BY <1>3 DEF Go
    <2> HIDE DEF state
    <2> QED BY <1>1, <1>3, <2>1, <2>2, WorkerRenews
  <1>4. CASE StartWork(w, late)
    <2>1. CASE Return(w) /\ UNCHANGED tables
      BY <1>2, <2>1
    <2>2. CASE Holds(w, k, late) /\ RenewRow(k) /\ Go(w, IF k.op = "delete" THEN "commit" ELSE "read")
      <3>1. CASE k.op = "delete"
        BY <1>3, <2>2, <3>1
      <3>2. CASE k.op # "delete"
        BY <1>3, <2>2, <3>2
      <3> QED BY <3>1, <3>2
    <2> QED BY <1>4, <2>1, <2>2 DEF StartWork
  <1>5. CASE RenewLease(w, late)
    <2>0. At(w, "renew")
      BY <1>5 DEF RenewLease
    <2>1. CASE Return(w) /\ UNCHANGED tables
      BY <1>2, <2>1
    <2>2. CASE Holds(w, k, late) /\ RenewRow(k)
               /\ Go(w, IF worker[w].left > 0 THEN "embed" ELSE "commit")
      <3>1. CASE worker[w].left > 0
        BY <1>3, <2>0, <2>2, <3>1
      <3>2. CASE ~(worker[w].left > 0)
        BY <1>3, <2>0, <2>2, <3>2
      <3> QED BY <3>1, <3>2
    <2> QED BY <1>5, <2>1, <2>2 DEF RenewLease
  <1> QED BY <1>4, <1>5

\* The commit and the error path.
LEMMA SettlesSafe ==
    ASSUME StoreInv, WorkerTypeOK, WorkersInv, NEW w \in Workers, NEW late \in BOOLEAN,
           Commit(w, late) \/ Retry(w, late)
    PROVE  WorkerSafe
  <1> DEFINE k == worker[w].k
             doc == worker[w].doc
  <1>1. /\ ~At(w, "idle") /\ worker[w] \in WorkerState /\ doc \in Doc
        /\ faults' = faults /\ faults' \in 0..MaxFaults
    BY DEF Commit, Retry, At, WorkerTypeOK, WorkerState
  <1>2. ClaimStillGood(w) /\ k \in Claimed
    BY <1>1 DEF WorkersInv, ClaimStillGood
  <1>3. ASSUME UNCHANGED tables, Return(w) PROVE WorkerSafe
    <2>1. owner' = owner
      BY <1>3 DEF tables
    <2> QED BY <1>1, <1>3, <2>1, Unchanged, WorkerReturns
  <1>4. ASSUME At(w, "commit"), CommitAccepts(w, k, late), CommitRow(k, doc), Return(w)
        PROVE  WorkerSafe
    <2>1. /\ job[k.p][k.o].op = k.op
          /\ k.op = "upsert" => doc = [head |-> owner[k.o].content, body |-> owner[k.o].content]
      BY <1>2, <1>4 DEF ClaimStillGood, CommitAccepts, Holds, At
    <2>2. StoreInv' /\ ClaimsKept /\ Forward
      BY <1>1, <1>2, <1>4, <2>1, CommitSafe
    <2>3. owner' = owner
      BY <1>4 DEF CommitRow
    <2> QED BY <1>1, <1>4, <2>2, <2>3, WorkerReturns
  <1>5. ASSUME UNCHANGED tables, Go(w, "failed")
        PROVE  WorkerSafe
    <2> DEFINE state == [worker[w] EXCEPT !.pc = "failed"]
    <2>1. state \in WorkerState /\ state.k = k /\ state.pc = "failed"
      BY <1>1 DEF WorkerState
    <2>2. Become(w, state)
      BY <1>5 DEF Go
    <2> HIDE DEF state
    <2>3. worker'[w] = state
      BY <2>2 DEF Become, WorkerTypeOK
    <2>4. owner' = owner /\ job' = job
      BY <1>5 DEF tables
    <2>5. ClaimStillGood(w)'
      BY <1>2, <2>1, <2>3, <2>4 DEF ClaimStillGood
    <2> QED BY <1>1, <1>5, <2>1, <2>2, <2>5, WorkerMoves
  <1>6. ASSUME Holds(w, k, late), RetryRow(k), Return(w)
        PROVE  WorkerSafe
    <2>1. StoreInv' /\ ClaimsKept /\ Forward
      BY <1>2, <1>6, RetrySafe
    <2>2. owner' = owner
      BY <1>6 DEF RetryRow
    <2> QED BY <1>1, <1>6, <2>1, <2>2, WorkerReturns
  <1>7. CASE Commit(w, late)
    BY <1>3, <1>4, <1>5, <1>7 DEF Commit
  <1>8. CASE Retry(w, late)
    BY <1>3, <1>6, <1>8 DEF Retry
  <1> QED BY <1>7, <1>8

\* Every step of the indexer, its crashes and the clock included.
LEMMA IndexerSafe ==
    ASSUME StoreInv, WorkerTypeOK, WorkersInv, IndexerStep
    PROVE  WorkerSafe
  <1>1. ASSUME NEW w \in Workers, FindNothing(w) PROVE WorkerSafe
    <2>1. UNCHANGED tables /\ worker' = worker /\ faults' = faults
      BY <1>1 DEF FindNothing, workerVars
    <2>2. StoreInv' /\ ClaimsKept /\ Forward
      BY <2>1, Unchanged
    <2>3. WorkersInv'
      BY <2>1, <2>2, WorkersKept
    <2> QED BY <2>1, <2>2, <2>3 DEF WorkerSafe, WorkerTypeOK
  <1>2. ASSUME NEW w \in Workers, Crash(w) PROVE WorkerSafe
    <2>1. UNCHANGED tables /\ Return(w) /\ faults' \in 0..MaxFaults
      BY <1>2, WorkerAssumption DEF Crash, WorkerTypeOK
    <2>2. owner' = owner
      BY <2>1 DEF tables
    <2> QED BY <2>1, <2>2, Unchanged, WorkerReturns
  <1>3. ASSUME NEW w \in Workers, WorkerStep(w) PROVE WorkerSafe
    BY <1>1, <1>3, ClaimSafe, ReadsSafe, RenewalsSafe, SettlesSafe DEF WorkerStep
  <1> QED BY <1>2, <1>3, TimerSafe DEF IndexerStep

-----------------------------------------------------------------------------
(* Readers *)

\* What a step of reader r has to show: the store is left in order, the claims
\* are kept, the readers are in order, and the snapshot did not go back.
ReaderSafe(r) ==
    /\ StoreInv' /\ ClaimsKept
    /\ ReaderTypeOK' /\ ReadersInv'
    /\ \A x \in Readers : snapshot'[x].profile = snapshot[x].profile
                          => snapshot'[x].gen >= snapshot[x].gen

\* The obligations of one reader's step, on its new state and snapshot.
LEMMA ReaderMoves ==
    ASSUME StoreInv, StoreInv', ClaimsKept, Forward, ReaderTypeOK, ReadersInv,
           NEW r \in Readers, NEW state \in ReaderState, NEW s \in Snapshot,
           ReaderBecome(r, state), snapshot' = [snapshot EXCEPT ![r] = s],
           Agrees(s)', s.profile = NoProfile => s.gen = 0,
           s.profile = snapshot[r].profile => s.gen >= snapshot[r].gen,
           state.pc # "rest" => state.next.profile \in adopted,
           state.pc \notin {"rest", "generation", "check"} =>
             /\ state.next.gen <= gen'[state.next.profile].durable
             /\ s.profile = state.next.profile => s.gen <= state.next.gen,
           state.pc \in {"mark", "verify", "activate", "swap"} => Agrees(state.next)'
    PROVE  ReaderSafe(r)
  <1>1. StoreTypeOK /\ StoreTypeOK'
    BY DEF StoreInv
  <1>2. /\ reader'[r] = state /\ snapshot'[r] = s
        /\ \A x \in Readers \ {r} : reader'[x] = reader[x] /\ snapshot'[x] = snapshot[x]
    BY DEF ReaderBecome, ReaderTypeOK
  <1>3. ReaderTypeOK'
    BY DEF ReaderBecome, ReaderTypeOK
  <1>4. ReaderInv(r)'
    BY <1>2 DEF ReaderInv, ReaderAt, Forward
  <1>5. \A x \in Readers \ {r} : ReaderInv(x)'
    BY <1>1, <1>2, ReaderForward DEF ReadersInv
  <1>6. \A x \in Readers : snapshot[x].gen \in Nat
    BY DEF ReaderTypeOK, Snapshot
  <1>7. ASSUME NEW x \in Readers, snapshot'[x].profile = snapshot[x].profile
        PROVE  snapshot'[x].gen >= snapshot[x].gen
    BY <1>2, <1>6, <1>7
  <1> QED BY <1>3, <1>4, <1>5, <1>7 DEF ReaderSafe, ReadersInv

\* A step that leaves the snapshot alone.
LEMMA ReaderGoesOn ==
    ASSUME StoreInv, StoreInv', ClaimsKept, Forward, ReaderTypeOK, ReadersInv,
           NEW r \in Readers, NEW state \in ReaderState,
           ReaderBecome(r, state), UNCHANGED snapshot,
           state.pc # "rest" => state.next.profile \in adopted,
           state.pc \notin {"rest", "generation", "check"} =>
             /\ state.next.gen <= gen'[state.next.profile].durable
             /\ snapshot[r].profile = state.next.profile => snapshot[r].gen <= state.next.gen,
           state.pc \in {"mark", "verify", "activate", "swap"} => Agrees(state.next)'
    PROVE  ReaderSafe(r)
  <1> DEFINE s == snapshot[r]
  <1>1. s \in Snapshot /\ snapshot' = [snapshot EXCEPT ![r] = s] /\ s.gen >= s.gen
    BY DEF ReaderTypeOK, Snapshot
  <1>2. Agrees(snapshot[r]) /\ (s.profile = NoProfile => s.gen = 0)
    BY DEF ReadersInv, ReaderInv
  <1>3. \A t \in Snapshot : Agrees(t) => Agrees(t)'
    BY AgreesForward DEF StoreInv
  <1>4. PICK t \in Snapshot : t = s
    BY <1>1
  <1>5. Agrees(t)'
    BY <1>2, <1>3, <1>4
  <1> QED BY <1>1, <1>2, <1>4, <1>5, ReaderMoves

\* A run of reconcile or load that ends without a new snapshot.
LEMMA ReaderRests ==
    ASSUME StoreInv, StoreInv', ClaimsKept, Forward, ReaderTypeOK, ReadersInv,
           NEW r \in Readers, Rest(r), UNCHANGED snapshot
    PROVE  ReaderSafe(r)
  <1>1. Resting \in ReaderState /\ Resting.pc = "rest"
    BY RowTypes DEF StoreInv, Resting, ReaderState, NoSnapshot, Snapshot, NoVectors
  <1>2. ReaderBecome(r, Resting)
    BY DEF Rest
  <1> HIDE DEF Resting
  <1> QED BY <1>1, <1>2, ReaderGoesOn

\* A reader that moves on with the snapshot it is building.
LEMMA ReaderGoes ==
    ASSUME StoreInv, StoreInv', ClaimsKept, Forward, ReaderTypeOK, ReadersInv,
           NEW r \in Readers, NEW pc \in {"verify", "activate", "swap"},
           reader[r].pc \in {"mark", "verify", "activate"},
           ReaderGo(r, pc), UNCHANGED snapshot
    PROVE  ReaderSafe(r)
  <1> DEFINE new == reader[r].next
  <1>1. /\ [reader[r] EXCEPT !.pc = pc] \in ReaderState
        /\ new \in Snapshot /\ new.gen \in Nat
    BY DEF ReaderTypeOK, ReaderState, Snapshot
  <1>2. PICK state \in ReaderState : state = [reader[r] EXCEPT !.pc = pc]
    BY <1>1
  <1>3. state.pc = pc /\ state.next = new /\ ReaderBecome(r, state)
    BY <1>2 DEF ReaderGo, ReaderTypeOK, ReaderState
  <1>4. /\ new.profile \in adopted /\ new.gen <= gen[new.profile].durable
        /\ snapshot[r].profile = new.profile => snapshot[r].gen <= new.gen
        /\ Agrees(new)
    BY DEF ReadersInv, ReaderInv, ReaderAt
  <1>5. Agrees(state.next)'
    <2>1. \A t \in Snapshot : Agrees(t) => Agrees(t)'
      BY AgreesForward DEF StoreInv
    <2> QED BY <1>1, <1>3, <1>4, <2>1
  <1>6. new.gen <= gen'[new.profile].durable
    <2>1. gen[new.profile].durable \in Nat /\ gen'[new.profile].durable \in Nat
      BY <1>4 DEF StoreInv, StoreTypeOK, GenRow
    <2> QED BY <1>1, <1>4, <2>1 DEF Forward
  <1> QED BY <1>3, <1>4, <1>5, <1>6, ReaderGoesOn

\* The first step of reconcile and of load.
LEMMA ReadStateSafe ==
    ASSUME StoreInv, ReaderTypeOK, ReadersInv, NEW r \in Readers,
           ReadState(r) \/ LoadState(r)
    PROVE  ReaderSafe(r)
  <1> USE ChunkJobsAssumption
  <1>1. StoreInv' /\ ClaimsKept /\ Forward
    BY Unchanged DEF ReadState, LoadState
  <1>2. NoSnapshot \in Snapshot /\ NoSnapshot.profile = NoProfile /\ NoSnapshot.gen = 0
    BY RowTypes DEF StoreInv, NoSnapshot, Snapshot, NoVectors
  <1>3. ASSUME NEW pc \in {"generation", "check"}, NEW st \in {"Active", "Rebuilding"},
               NEW p \in adopted, UNCHANGED snapshot,
               ReaderBecome(r, [pc |-> pc, state |-> st, next |-> [NoSnapshot EXCEPT !.profile = p]])
        PROVE  ReaderSafe(r)
    <2>1. p \in Profiles
      BY DEF StoreInv, StoreTypeOK
    <2>2. [NoSnapshot EXCEPT !.profile = p] \in Snapshot
          /\ [NoSnapshot EXCEPT !.profile = p].profile = p
      BY <1>2, <2>1 DEF Snapshot
    <2>3. PICK next \in Snapshot : next = [NoSnapshot EXCEPT !.profile = p]
      BY <2>2
    <2>4. PICK state \in ReaderState : state = [pc |-> pc, state |-> st, next |-> next]
      BY <2>3 DEF ReaderState
    <2>5. state.pc = pc /\ state.next.profile = p /\ ReaderBecome(r, state)
      BY <1>3, <2>2, <2>3, <2>4
    <2> QED BY <1>1, <1>3, <2>5, ReaderGoesOn
  <1>4. CASE LoadState(r)
    <2>1. registry.serving \in adopted
      BY <1>4 DEF LoadState, StoreInv, RegistryInv
    <2> QED BY <1>3, <1>4, <2>1 DEF LoadState
  <1>5. CASE /\ registry.state \in {"Active", "Rebuilding"}
             /\ ReaderBecome(r, [pc |-> "generation", state |-> registry.state,
                                 next |-> [NoSnapshot EXCEPT !.profile = Target]])
             /\ UNCHANGED snapshot
    <2>1. Target \in adopted
      BY <1>5 DEF Target, StoreInv, RegistryInv
    <2> HIDE DEF Target
    <2> QED BY <1>3, <1>5, <2>1
  <1>6. PICK state \in ReaderState : state = reader[r]
    BY DEF ReaderTypeOK
  <1>7. ASSUME ReaderAt(r, "rest"), reader' = reader
        PROVE  state.pc = "rest" /\ ReaderBecome(r, state)
    BY <1>6, <1>7 DEF ReaderAt, ReaderBecome, ReaderTypeOK
  <1>8. CASE /\ ReaderAt(r, "rest") /\ reader' = reader
             /\ snapshot' = [snapshot EXCEPT ![r] = NoSnapshot]
    <2>1. PICK s \in Snapshot : s = NoSnapshot
      BY <1>2
    <2>2. Agrees(s)'
      BY <1>2, <2>1 DEF Agrees
    <2>3. s.profile = snapshot[r].profile => s.gen >= snapshot[r].gen
      BY <1>2, <2>1 DEF ReadersInv, ReaderInv
    <2>4. snapshot' = [snapshot EXCEPT ![r] = s] /\ s.profile = NoProfile /\ s.gen = 0
      BY <1>2, <1>8, <2>1
    <2> HIDE DEF NoSnapshot
    <2> QED BY <1>1, <1>7, <1>8, <2>2, <2>3, <2>4, ReaderMoves
  <1>9. CASE ReaderAt(r, "rest") /\ UNCHANGED readerVars
    BY <1>1, <1>7, <1>9, ReaderGoesOn DEF readerVars
  <1> QED BY <1>4, <1>5, <1>8, <1>9 DEF ReadState

\* The generation is read before the vectors, so a snapshot is never newer than
\* its vectors.
LEMMA ReadGenerationSafe ==
    ASSUME StoreInv, ReaderTypeOK, ReadersInv, NEW r \in Readers,
           ReadGeneration(r) \/ CheckPublished(r)
    PROVE  ReaderSafe(r)
  <1> DEFINE p == reader[r].next.profile
             g == gen[p].durable
  <1>1. StoreInv' /\ ClaimsKept /\ Forward /\ UNCHANGED snapshot
    BY Unchanged DEF ReadGeneration, CheckPublished
  <1>2. CASE Rest(r)
    BY <1>1, <1>2, ReaderRests
  <1>3. ASSUME NEW pc \in {"load", "reload"},
               ReaderBecome(r, [reader[r] EXCEPT !.pc = pc, !.next = [@ EXCEPT !.gen = g]])
        PROVE  ReaderSafe(r)
    <2>1. p \in adopted /\ g \in Nat /\ gen'[p].durable = g
      BY DEF ReadGeneration, CheckPublished, ReadersInv, ReaderInv, ReaderAt, StoreInv,
             StoreTypeOK, GenRow, tables
    <2>2. PICK old \in ReaderState : old = reader[r]
      BY DEF ReaderTypeOK
    <2>3. PICK n \in Nat : n = g
      BY <2>1
    <2>4. PICK state : state = [old EXCEPT !.pc = pc, !.next = [old.next EXCEPT !.gen = n]]
      OBVIOUS
    <2>5. old.next \in Snapshot
      BY DEF ReaderState
    <2>6. /\ [old.next EXCEPT !.gen = n] \in Snapshot
          /\ [old.next EXCEPT !.gen = n].gen = n
          /\ [old.next EXCEPT !.gen = n].profile = old.next.profile
      BY <2>5 DEF Snapshot
    <2>7. /\ state \in ReaderState /\ state.pc = pc
          /\ state.next = [old.next EXCEPT !.gen = n]
      BY <2>4, <2>6 DEF ReaderState
    <2>8. ReaderBecome(r, state)
      BY <1>3, <2>2, <2>3, <2>4
    <2>9. snapshot[r].profile = p => snapshot[r].gen <= n
      BY <2>1, <2>3, ChunkJobsAssumption DEF ReadersInv, ReaderInv, Agrees, StoreInv, StoreTypeOK
    <2>10. state.next.gen = n /\ state.next.profile = p
      BY <2>2, <2>6, <2>7
    <2>11. n <= gen'[p].durable
      BY <2>1, <2>3
    <2>12. /\ state.pc # "rest" /\ state.next.profile \in adopted
           /\ state.pc \notin {"mark", "verify", "activate", "swap"}
           /\ state.next.gen <= gen'[state.next.profile].durable
           /\ snapshot[r].profile = state.next.profile => snapshot[r].gen <= state.next.gen
      BY <2>1, <2>7, <2>9, <2>10, <2>11
    <2>13. state \in ReaderState
      BY <2>7
    <2> QED BY <1>1, <2>8, <2>12, <2>13, ReaderGoesOn
  <1> QED BY <1>2, <1>3 DEF ReadGeneration, CheckPublished

\* The vectors of profile p, loaded under a generation that was read before.
LEMMA LoadedAgrees ==
    ASSUME StoreInv, NEW new \in Snapshot, new.profile \in adopted,
           new.gen <= gen[new.profile].durable, UNCHANGED tables
    PROVE  \E s \in Snapshot : /\ s = [new EXCEPT !.vectors = vec[new.profile]]
                               /\ s.profile = new.profile /\ s.gen = new.gen /\ Agrees(s)'
  <1>1. new.profile \in Profiles /\ vec[new.profile] \in [Owners -> VecRow]
    BY DEF StoreInv, StoreTypeOK
  <1>2. PICK s : s = [new EXCEPT !.vectors = vec[new.profile]]
    OBVIOUS
  <1>3. s \in Snapshot /\ s.profile = new.profile /\ s.gen = new.gen
        /\ s.vectors = vec[new.profile]
    BY <1>1, <1>2 DEF Snapshot
  <1>4. UNCHANGED <<gen, job, vec, adopted>>
    BY DEF tables
  <1>5. Agrees(s)'
    BY <1>3, <1>4 DEF Agrees
  <1> QED BY <1>2, <1>3, <1>5

\* The vectors of the candidate or the serving profile are loaded.
LEMMA LoadVectorsSafe ==
    ASSUME StoreInv, ReaderTypeOK, ReadersInv, NEW r \in Readers, LoadVectors(r)
    PROVE  ReaderSafe(r)
  <1>1. StoreInv' /\ ClaimsKept /\ Forward /\ UNCHANGED snapshot /\ UNCHANGED tables
    BY Unchanged DEF LoadVectors
  <1>2. PICK old \in ReaderState : old = reader[r]
    BY DEF ReaderTypeOK
  <1>3. PICK new \in Snapshot : new = reader[r].next
    BY <1>2 DEF ReaderState
  <1>4. /\ new.profile \in adopted /\ new.gen <= gen[new.profile].durable
        /\ snapshot[r].profile = new.profile => snapshot[r].gen <= new.gen
    BY <1>3 DEF LoadVectors, ReadersInv, ReaderInv, ReaderAt
  <1>5. PICK s \in Snapshot : /\ s = [new EXCEPT !.vectors = vec[new.profile]]
                              /\ s.profile = new.profile /\ s.gen = new.gen /\ Agrees(s)'
    BY <1>1, <1>4, LoadedAgrees
  <1>6. PICK state : state = [old EXCEPT !.pc = "mark", !.next = s]
    OBVIOUS
  <1>7. state \in ReaderState /\ state.pc = "mark" /\ state.next = s
    BY <1>6 DEF ReaderState
  <1>8. ReaderBecome(r, state)
    BY <1>2, <1>3, <1>5, <1>6 DEF LoadVectors
  <1>9. gen' = gen
    BY <1>1 DEF tables
  <1> QED BY <1>1, <1>4, <1>5, <1>7, <1>8, <1>9, ReaderGoesOn

\* The new snapshot takes the place of the served one.
LEMMA SwapSafe ==
    ASSUME StoreInv, ReaderTypeOK, ReadersInv, NEW r \in Readers, Swap(r) \/ Reload(r)
    PROVE  ReaderSafe(r)
  <1>1. StoreInv' /\ ClaimsKept /\ Forward /\ UNCHANGED tables /\ Rest(r)
    BY Unchanged DEF Swap, Reload
  <1>2. PICK new \in Snapshot : new = reader[r].next
    BY DEF ReaderTypeOK, ReaderState
  <1>3. /\ new.profile \in adopted /\ new.gen <= gen[new.profile].durable
        /\ snapshot[r].profile = new.profile => snapshot[r].gen <= new.gen
        /\ new.profile # NoProfile
    BY <1>2, ChunkJobsAssumption
       DEF Swap, Reload, ReadersInv, ReaderInv, ReaderAt, StoreInv, StoreTypeOK
  <1>4. Resting \in ReaderState /\ Resting.pc = "rest"
    BY RowTypes DEF StoreInv, Resting, ReaderState, NoSnapshot, Snapshot, NoVectors
  <1>5. PICK state \in ReaderState : state = Resting
    BY <1>4
  <1>6. state.pc = "rest" /\ ReaderBecome(r, state)
    BY <1>1, <1>4, <1>5 DEF Rest
  <1>7. snapshot[r].gen \in Nat /\ new.gen \in Nat
    BY DEF ReaderTypeOK, Snapshot
  <1>8. ASSUME NEW s \in Snapshot, s.profile = new.profile, s.gen = new.gen, Agrees(s)',
               snapshot' = [snapshot EXCEPT ![r] = s]
        PROVE  ReaderSafe(r)
    <2>1. s.profile # NoProfile /\ (s.profile = snapshot[r].profile => s.gen >= snapshot[r].gen)
      BY <1>3, <1>7, <1>8
    <2> QED BY <1>1, <1>6, <1>8, <2>1, ReaderMoves
  <1>9. CASE Swap(r)
    <2>1. Agrees(new)
      BY <1>2, <1>9 DEF Swap, ReadersInv, ReaderInv, ReaderAt
    <2>2. Agrees(new)'
      BY <1>1, <2>1, AgreesForward DEF StoreInv
    <2>3. snapshot' = [snapshot EXCEPT ![r] = new]
      BY <1>2, <1>9 DEF Swap
    <2> QED BY <1>8, <2>2, <2>3
  <1>10. CASE Reload(r)
    <2>1. PICK s \in Snapshot : /\ s = [new EXCEPT !.vectors = vec[new.profile]]
                                /\ s.profile = new.profile /\ s.gen = new.gen /\ Agrees(s)'
      BY <1>1, <1>3, LoadedAgrees
    <2>2. snapshot' = [snapshot EXCEPT ![r] = s]
      BY <1>2, <1>10, <2>1 DEF Reload
    <2> QED BY <1>8, <2>1, <2>2
  <1> QED BY <1>9, <1>10

\* The steps of reconcile that write to the store.
LEMMA PublishSafe ==
    ASSUME StoreInv, ReaderTypeOK, ReadersInv, NEW r \in Readers,
           Publish(r) \/ Verify(r) \/ ActivateCandidate(r)
    PROVE  ReaderSafe(r)
  <1> DEFINE new == reader[r].next
  <1>1. /\ reader[r].pc \in {"mark", "verify", "activate"} /\ UNCHANGED snapshot
        /\ new.profile \in Profiles /\ new.gen \in Nat
    BY DEF Publish, Verify, ActivateCandidate, ReaderAt, ReadersInv, ReaderInv, StoreInv,
           StoreTypeOK, ReaderTypeOK, ReaderState, Snapshot
  <1>2. CASE Rest(r) /\ UNCHANGED tables
    BY <1>1, <1>2, Unchanged, ReaderRests
  <1>3. CASE MarkPublished(new.profile, new.gen)
             /\ ReaderGo(r, IF reader[r].state = "Rebuilding" THEN "verify" ELSE "swap")
    <2>1. StoreInv' /\ ClaimsKept /\ Forward
      BY <1>1, <1>3, MarkersSafe
    <2>2. CASE reader[r].state = "Rebuilding"
      BY <1>1, <1>3, <2>1, <2>2, ReaderGoes
    <2>3. CASE reader[r].state # "Rebuilding"
      BY <1>1, <1>3, <2>1, <2>3, ReaderGoes
    <2> QED BY <2>2, <2>3
  <1>4. CASE VerifyFullScan(new.profile) /\ ReaderGo(r, "activate")
    <2>1. StoreInv' /\ ClaimsKept /\ Forward
      BY <1>1, <1>4, MarkersSafe
    <2> QED BY <1>1, <1>4, <2>1, ReaderGoes
  <1>5. CASE Activate(new.profile) /\ ReaderGo(r, "swap")
    <2>1. StoreInv' /\ ClaimsKept /\ Forward
      BY <1>1, <1>5, ActivateSafe
    <2> QED BY <1>1, <1>5, <2>1, ReaderGoes
  <1> QED BY <1>2, <1>3, <1>4, <1>5 DEF Publish, Verify, ActivateCandidate

\* Every step of a reader.
LEMMA ReaderStepSafe ==
    ASSUME StoreInv, ReaderTypeOK, ReadersInv, NEW r \in Readers, ReaderStep(r)
    PROVE  ReaderSafe(r)
  BY ReadStateSafe, ReadGenerationSafe, LoadVectorsSafe, SwapSafe, PublishSafe
     DEF ReaderStep, Reconcile

-----------------------------------------------------------------------------
(* The inductive invariant *)

\* The invariant holds in an empty database.
LEMMA InitIInv == Init => IInv
  <1> SUFFICES ASSUME Init PROVE IInv
    OBVIOUS
  <1> USE ChunkJobsAssumption, WorkerAssumption
  <1>1. StoreTypeOK
    BY DEF Init, StoreInit, StoreTypeOK, OwnerRow, Registry, JobRow, NoRow, VecRow, NoVec,
           GenRow, Operations
  <1>2. NoVec \in VecRow /\ NoSnapshot \in Snapshot
    BY <1>1, RowTypes DEF NoSnapshot, Snapshot, NoVectors
  <1>3. WorkerTypeOK
    BY DEF Init, WorkerInit, WorkerTypeOK, Idle, NoDoc, WorkerState, Doc
  <1>4. ReaderTypeOK
    <2>1. Resting \in ReaderState
      BY <1>2 DEF Resting, ReaderState
    <2> QED BY <1>2, <2>1 DEF Init, ReaderInit, ReaderTypeOK
  <1>5. Fed = {} /\ RegistryInv
    BY DEF Init, StoreInit, Fed, RegistryInv
  <1>6. ClaimsAreFed
    BY DEF Init, StoreInit, ClaimsAreFed, NoRow
  <1>7. NothingForgotten /\ DoneMeansCurrent /\ ScanStampSound
    BY <1>5 DEF NothingForgotten, DoneMeansCurrent, ScanStampSound
  <1>8. FilesInv
    BY DEF Init, StoreInit, FilesInv, Owners
  <1>9. WorkersInv
    BY DEF Init, WorkerInit, WorkersInv, At, Idle
  <1>10. ReadersInv
    BY DEF Init, ReaderInit, ReadersInv, ReaderInv, ReaderAt, Resting, NoSnapshot, Agrees
  <1> QED BY <1>1, <1>3, <1>4, <1>5, <1>6, <1>7, <1>8, <1>9, <1>10 DEF IInv, TypeOK

\* Every step keeps it, and no step takes a snapshot back.
LEMMA NextIInv ==
    ASSUME IInv, [Next]_vars
    PROVE  /\ IInv'
           /\ \A r \in Readers : snapshot'[r].profile = snapshot[r].profile
                                 => snapshot'[r].gen >= snapshot[r].gen
  <1>1. StoreInv /\ WorkerTypeOK /\ WorkersInv /\ ReaderTypeOK /\ ReadersInv
    BY DEF IInv, TypeOK, StoreInv
  <1>2. StoreTypeOK
    BY <1>1 DEF StoreInv
  <1>3. ASSUME StoreInv', WorkerTypeOK', WorkersInv', ReaderTypeOK', ReadersInv'
        PROVE  IInv'
    BY <1>3 DEF IInv, TypeOK, StoreInv
  <1>4. ASSUME StoreInv', Forward, UNCHANGED readerVars
        PROVE  /\ ReaderTypeOK' /\ ReadersInv'
               /\ \A r \in Readers : snapshot'[r].gen >= snapshot[r].gen
    <2>1. ReaderTypeOK' /\ snapshot' = snapshot
      BY <1>1, <1>4 DEF readerVars, ReaderTypeOK
    <2>2. ReadersInv'
      BY <1>1, <1>2, <1>4, ReadersForward DEF StoreInv
    <2>3. \A r \in Readers : snapshot[r].gen \in Nat
      BY <1>1 DEF ReaderTypeOK, Snapshot
    <2> QED BY <2>1, <2>2, <2>3
  <1>5. ASSUME ClaimsKept, UNCHANGED workerVars
        PROVE  WorkerTypeOK' /\ WorkersInv'
    <2>1. worker' = worker /\ faults' = faults
      BY <1>5 DEF workerVars
    <2> QED BY <1>1, <1>5, <2>1, WorkersKept DEF WorkerTypeOK
  <1>6. CASE StoreStep
    <2>1. StoreInv' /\ ClaimsKept /\ Forward
      BY <1>1, <1>6, MutationSafe, BeginRebuildSafe, FailRebuildSafe DEF StoreStep
    <2>2. UNCHANGED workerVars /\ UNCHANGED readerVars
      BY <1>6 DEF StoreStep
    <2> QED BY <1>3, <1>4, <1>5, <2>1, <2>2
  <1>7. CASE IndexerStep
    <2>1. StoreInv' /\ Forward /\ WorkerTypeOK' /\ WorkersInv'
      BY <1>1, <1>7, IndexerSafe DEF WorkerSafe
    <2>2. UNCHANGED readerVars
      BY <1>7 DEF IndexerStep
    <2> QED BY <1>3, <1>4, <2>1, <2>2
  <1>8. CASE SnapshotStep
    <2>1. PICK r \in Readers : ReaderStep(r)
      BY <1>8 DEF SnapshotStep
    <2>2. ReaderSafe(r)
      BY <1>1, <2>1, ReaderStepSafe
    <2>3. UNCHANGED workerVars
      BY <1>8 DEF SnapshotStep
    <2> QED BY <1>3, <1>5, <2>2, <2>3 DEF ReaderSafe
  <1>9. CASE UNCHANGED vars
    <2>1. UNCHANGED tables /\ UNCHANGED workerVars /\ UNCHANGED readerVars
      BY <1>9 DEF vars
    <2>2. StoreInv' /\ ClaimsKept /\ Forward
      BY <1>1, <2>1, Unchanged
    <2> QED BY <1>3, <1>4, <1>5, <2>1, <2>2
  <1> QED BY <1>6, <1>7, <1>8, <1>9 DEF Next

\* IInv is an invariant of the index: the store, the claims of the workers and
\* the snapshots of the readers stay consistent under every interleaving.
THEOREM Invariant == Spec => []IInv
  <1>1. Init => IInv
    BY InitIInv
  <1>2. IInv /\ [Next]_vars => IInv'
    BY NextIInv
  <1> QED BY <1>1, <1>2, PTL DEF Spec

-----------------------------------------------------------------------------
(* The properties *)

\* Rows, registry, workers and readers keep the shape of their tables and structs.
THEOREM TypeCorrect == Spec => []TypeOK
  <1>1. IInv => TypeOK
    BY DEF IInv
  <1> QED BY <1>1, Invariant, PTL

\* No write is forgotten by the queue of a profile that is fed, whatever rebuild,
\* failure or activation it races.
THEOREM Queued == Spec => []NothingForgotten
  <1>1. IInv => NothingForgotten
    BY DEF IInv
  <1> QED BY <1>1, Invariant, PTL

\* commit_chunks: a done job stored the text that its owner has now.
THEOREM DoneIsCurrent == Spec => []DoneMeansCurrent
  <1>1. IInv => DoneMeansCurrent
    BY DEF IInv
  <1> QED BY <1>1, Invariant, PTL

\* verify_full_scan: a stamp that equals the durable generation is still true.
THEOREM StampIsSound == Spec => []ScanStampSound
  <1>1. IInv => ScanStampSound
    BY DEF IInv
  <1> QED BY <1>1, Invariant, PTL

\* A snapshot at the durable generation serves the current text of every owner
\* whose job is done, and nothing of a deleted one.
THEOREM SearchServesCurrent == Spec => []SearchIsCurrent
  <1>1. IInv => SearchIsCurrent
    <2> SUFFICES ASSUME IInv, NEW r \in Readers, NEW o \in Owners,
                        snapshot[r].profile \in Fed,
                        snapshot[r].gen = gen[snapshot[r].profile].durable,
                        job[snapshot[r].profile][o].st = "done" \/ (o \in Attachments /\ ~Live(o))
                 PROVE  snapshot[r].vectors[o] = Expected(o)
      BY DEF SearchIsCurrent
    <2> DEFINE p == snapshot[r].profile
    <2>1. p \in Profiles /\ p # NoProfile
      BY ChunkJobsAssumption DEF Fed
    <2>2. snapshot[r].vectors[o] = vec[p][o]
      BY <2>1 DEF IInv, ReadersInv, ReaderInv, Agrees
    <2>3. CASE job[p][o].st = "done"
      BY <2>2, <2>3 DEF IInv, DoneMeansCurrent
    <2>4. CASE o \in Attachments /\ ~Live(o)
      BY <2>1, <2>2, <2>4 DEF IInv, FilesInv, Expected
    <2> QED BY <2>3, <2>4
  <1> QED BY <1>1, Invariant, PTL

\* A reader never replaces its snapshot by an older one of the same profile.
THEOREM SnapshotsGoForward == Spec => SnapshotsAdvance
  <1>1. IInv /\ [Next]_vars
        => [\A r \in Readers : snapshot'[r].profile = snapshot[r].profile
                               => snapshot'[r].gen >= snapshot[r].gen]_vars
    BY NextIInv
  <1> QED BY <1>1, Invariant, PTL DEF Spec, SnapshotsAdvance

\* Only activate replaces the serving profile.
LEMMA ServingChanges ==
    ASSUME StoreTypeOK, [Next]_vars, registry'.serving # registry.serving
    PROVE  \E r \in Readers : ReaderAt(r, "activate") /\ Activate(reader[r].next.profile)
  <1>1. ASSUME registry' = registry PROVE FALSE
    BY <1>1
  <1>2. ASSUME Mutation PROVE FALSE
    BY <1>1, <1>2 DEF Mutation, CreateEntity, UpdateEntity, DeleteEntity, CreateRelation,
       UpdateRelation, DeleteRelation, MoveRelation, UploadAttachment, ExtractAttachment,
       AbandonExtraction, DeleteAttachment, Write
  <1>3. ASSUME NEW p \in Profiles, BeginRebuild(p) PROVE FALSE
    BY <1>3 DEF BeginRebuild, StoreTypeOK, Registry
  <1>4. ASSUME FailRebuild PROVE FALSE
    BY <1>4 DEF FailRebuild, StoreTypeOK, Registry
  <1>5. ASSUME NEW w \in Workers, WorkerStep(w) \/ Crash(w) PROVE FALSE
    BY <1>1, <1>5 DEF WorkerStep, Crash, Claim, FindNothing, StartWork, ReadDocument, ReadBody,
       Embed, RenewLease, Commit, Retry, ClaimRow, RenewRow, CommitRow, RetryRow, tables
  <1>6. ASSUME NEW p \in Profiles, NEW o \in Owners, TimerPasses(p, o) PROVE FALSE
    BY <1>1, <1>6 DEF TimerPasses
  <1>7. ASSUME NEW r \in Readers, ReaderStep(r)
        PROVE  ReaderAt(r, "activate") /\ Activate(reader[r].next.profile)
    BY <1>1, <1>7 DEF ReaderStep, Reconcile, ReadState, ReadGeneration, LoadVectors, Publish,
       Verify, ActivateCandidate, Swap, LoadState, CheckPublished, Reload, MarkPublished,
       VerifyFullScan, tables
  <1>8. ASSUME UNCHANGED vars PROVE FALSE
    BY <1>1, <1>8 DEF vars, tables
  <1>9. StoreStep => FALSE
    BY <1>2, <1>3, <1>4 DEF StoreStep
  <1>10. IndexerStep => FALSE
    BY <1>5, <1>6 DEF IndexerStep
  <1> QED BY <1>7, <1>8, <1>9, <1>10 DEF Next, SnapshotStep

\* Search moves to a new profile only when that profile has the current text of
\* every live owner that is not dead-lettered, and when no claim on another
\* profile can write any more.
THEOREM ActivationsAreComplete == Spec => ActivationIsComplete
  <1> DEFINE Complete ==
        registry'.serving # registry.serving
        => LET p == registry'.serving
           IN /\ \A o \in Owners : Live(o) => \/ job'[p][o].st = "dead"
                                              \/ vec'[p][o] = Expected(o)
              /\ \A q \in Profiles \ {p}, o \in Owners :
                   job'[q][o].st \notin {"pending", "leased"}
  <1>1. IInv /\ [Next]_vars => Complete
    <2> SUFFICES ASSUME IInv, [Next]_vars, registry'.serving # registry.serving
                 PROVE  Complete
      OBVIOUS
    <2>1. StoreTypeOK /\ NothingForgotten /\ DoneMeansCurrent
      BY DEF IInv, TypeOK
    <2>2. PICK r \in Readers : ReaderAt(r, "activate") /\ Activate(reader[r].next.profile)
      BY <2>1, ServingChanges
    <2> DEFINE p == reader[r].next.profile
    <2>3. p \in Profiles
      BY <2>1, <2>2 DEF IInv, ReadersInv, ReaderInv, ReaderAt, StoreTypeOK
    <2>4. /\ registry'.serving = p /\ p \in Fed /\ VectorsCurrent(p)
          /\ job' = HeldExcept({p}) /\ vec' = vec
      BY <2>2, <2>3 DEF Activate, CanActivate, Fed
    <2>5. \A q \in Profiles, o \in Owners :
            \/ job'[q][o] = job[q][o] /\ (q = p \/ job[q][o].st \in {"none", "done"})
            \/ job'[q][o].st = "held" /\ q # p
      BY <2>1, <2>4, HeldFacts
    <2>6. ASSUME NEW o \in Owners, Live(o)
          PROVE  job'[p][o].st = "dead" \/ vec'[p][o] = Expected(o)
      <3>1. job[p][o].st \in {"done", "dead"}
        BY <2>1, <2>4, <2>6 DEF NothingForgotten, VectorsCurrent
      <3>2. job'[p][o] = job[p][o]
        BY <2>3, <2>5
      <3> QED BY <2>1, <2>4, <3>1, <3>2 DEF DoneMeansCurrent
    <2>7. ASSUME NEW q \in Profiles \ {p}, NEW o \in Owners
          PROVE  job'[q][o].st \notin {"pending", "leased"}
      BY <2>5
    <2> QED BY <2>4, <2>6, <2>7
  <1>2. IInv /\ [Next]_vars => [Complete]_vars
    BY <1>1
  <1> QED BY <1>2, Invariant, PTL DEF Spec, ActivationIsComplete

=============================================================================
