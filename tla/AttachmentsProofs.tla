--------------------------- MODULE AttachmentsProofs ---------------------------
(* The life of files, for any number of entities, files, sessions, workers,  *)
(* pages and attempts.                                                       *)
EXTENDS Attachments, SequenceTheorems, FiniteSetTheorems, WellFoundedInduction, TLAPS

-----------------------------------------------------------------------------
(* Pages *)

\* The first n pages of a file are a text of length n.
LEMMA OwnText ==
    ASSUME NEW s \in 1..MaxFiles, NEW n \in Nat
    PROVE Own(s, n) \in Texts /\ Len(Own(s, n)) = n /\ DOMAIN Own(s, n) = 1..n
<1>1. Own(s, n) \in [1..n -> (1..MaxFiles) \X Nat]
    BY DEF Own
<1>2. Own(s, n) \in Texts
    BY <1>1, SeqDef DEF Texts
<1>3. DOMAIN Own(s, n) = 1..n
    BY DEF Own
<1> QED BY <1>2, <1>3, LenProperties DEF Texts

\* Both ways to add the next page: the row in the table and the push in memory.
LEMMA OwnGrows ==
    ASSUME NEW s \in 1..MaxFiles, NEW n \in Nat
    PROVE /\ Append(Own(s, n), <<s, n + 1>>) = Own(s, n + 1)
          /\ WithPage(Own(s, n), n + 1, <<s, n + 1>>) = Own(s, n + 1)
<1>1. Own(s, n) \in Texts /\ Len(Own(s, n)) = n /\ DOMAIN Own(s, n) = 1..n
    BY OwnText
<1>2. 1..n \cup {n + 1} = 1..(n + 1)
    OBVIOUS
<1>3. WithPage(Own(s, n), n + 1, <<s, n + 1>>) = Own(s, n + 1)
    BY <1>1, <1>2 DEF WithPage, Own
<1>4. Append(Own(s, n), <<s, n + 1>>) = Own(s, n + 1)
  <2> DEFINE a == Append(Own(s, n), <<s, n + 1>>)
  <2>1. /\ a \in Seq((1..MaxFiles) \X Nat) /\ Len(a) = n + 1
        /\ \A p \in 1..n : a[p] = Own(s, n)[p]
        /\ a[n + 1] = <<s, n + 1>>
    BY <1>1, AppendProperties DEF Texts
  <2>2. Own(s, n + 1) \in Texts /\ Len(Own(s, n + 1)) = n + 1
    BY OwnText
  <2>3. \A p \in 1..(n + 1) : a[p] = Own(s, n + 1)[p]
    BY <2>1, <1>2 DEF Own
  <2>4. a = Own(s, n + 1)
    <3> HIDE DEF a
    <3> QED BY <2>1, <2>2, <2>3, SeqEqual DEF Texts
  <2> QED BY <2>4
<1> QED BY <1>3, <1>4

\* Turns times pages: a deferred file has attempts left.
LEMMA FewerTurns ==
    ASSUME NEW a \in Nat, NEW m \in Nat, NEW p \in Nat \ {0}, a * p < m * p
    PROVE a < m
<1> SUFFICES ASSUME a >= m PROVE FALSE
    OBVIOUS
<1>1. PICK k \in Nat : a = m + k
    <2>1. a - m \in Nat /\ a = m + (a - m)
        OBVIOUS
    <2> QED BY <2>1
<1>2. a * p = m * p + k * p
    BY <1>1
<1>3. k * p >= 0 /\ m * p \in Nat
    OBVIOUS
<1> QED BY <1>2, <1>3

-----------------------------------------------------------------------------
(* The invariant, by row and by worker *)

RowInv(i) ==
    /\ StatusFits(file[i], job[i])
    /\ file[i].st = "error" => job[i].hurt
    /\ i \in Stored => file[i].ent \in live
    /\ TextInv(i)
    /\ TurnsInv(i)

WorkInv(w) == StackInv(w) /\ (Holds(w) => ClaimInv(w))

\* The invariant row by row and worker by worker.
LEMMA Parts ==
    Inductive <=> /\ TypeOK
                  /\ FinishedNamesOwn
                  /\ \A i \in Ids : RowInv(i)
                  /\ \A w \in Workers : WorkInv(w)
BY DEF Inductive, RowInv, WorkInv, StatusMatchesJob, OnlyFailuresKill, ParentInv, Stored

\* A row that no step touches, with the workers that are on it.
LEMMA RowElsewhere ==
    ASSUME NEW j \in Ids, RowInv(j), UNCHANGED <<file[j], job[j], text[j]>>,
           j \in Stored => file[j].ent \in live',
           \A v \in Workers :
             worker[v].id = j \/ worker'[v].id = j => worker'[v] = worker[v]
    PROVE RowInv(j)'
<1>1. \A v \in Workers : worker'[v].id = j => (Holds(v)' <=> Holds(v)) /\ worker'[v] = worker[v]
    BY DEF Holds
<1>2. Running(j) <=> Running(j)'
    BY DEF Running, At
<1>3. TurnsInv(j)'
    BY <1>1, <1>2 DEF RowInv, TurnsInv, Transcribing
<1>4. TextInv(j)'
    BY DEF RowInv, TextInv, WholeText, Stored
<1> QED BY <1>3, <1>4 DEF RowInv, Stored

\* A worker that no step moves, and whose file is not touched while it holds it.
LEMMA WorkElsewhere ==
    ASSUME NEW v \in Workers, WorkInv(v), worker'[v] = worker[v],
           Holds(v)' => /\ Holds(v)
                        /\ UNCHANGED <<file[worker[v].id], job[worker[v].id], text[worker[v].id]>>
    PROVE WorkInv(v)'
<1>1. StackInv(v)'
    BY DEF WorkInv, StackInv, At, Transcribing, NextPage
<1>2. Holds(v)' => ClaimInv(v)'
    BY DEF WorkInv, ClaimInv, At, Transcribing
<1> QED BY <1>1, <1>2 DEF WorkInv

\* A step of one worker on one file.
LEMMA Local ==
    ASSUME Inductive, NEW w \in Workers, NEW i \in Ids,
           UNCHANGED <<live, upload, stored>>,
           worker' \in [Workers -> WorkerRow],
           file' \in [Ids -> FileRow \cup {NoRow}],
           job' \in [Ids -> JobRow],
           text' \in [Ids -> Texts],
           \A v \in Workers \ {w} : worker'[v] = worker[v],
           \A j \in Ids \ {i} : UNCHANGED <<file[j], job[j], text[j]>>,
           worker[w].id \in {i, NoFile}, worker'[w].id \in {i, NoFile},
           \/ UNCHANGED <<file, job, text>>
           \/ \A v \in Workers \ {w} : worker[v].id = i => ~Holds(v)',
           file'[i].st = "none" <=> file[i].st = "none",
           file[i].st # "none" => file'[i].serial = file[i].serial,
           RowInv(i)', WorkInv(w)'
    PROVE Inductive'
<1> USE AttachmentsAssumption
<1>0. TypeOK /\ FinishedNamesOwn
    BY DEF Inductive
<1>1. TypeOK'
    BY <1>0 DEF TypeOK
<1>2. FinishedNamesOwn'
    BY <1>0 DEF FinishedNamesOwn, Stored
<1>3. ASSUME NEW j \in Ids PROVE RowInv(j)'
  <2>1. CASE j = i
    BY <2>1
  <2>2. CASE j # i
    <3>1. RowInv(j) /\ (j \in Stored => file[j].ent \in live')
        BY Parts DEF RowInv
    <3>2. \A v \in Workers : worker[v].id = j \/ worker'[v].id = j => worker'[v] = worker[v]
        BY <2>2
    <3> QED BY <2>2, <3>1, <3>2, RowElsewhere
  <2> QED BY <2>1, <2>2
<1>4. ASSUME NEW v \in Workers PROVE WorkInv(v)'
  <2>1. CASE v = w
    BY <2>1
  <2>2. CASE v # w
    <3>1. WorkInv(v) /\ worker'[v] = worker[v] /\ worker[v].id \in Ids \cup {NoFile}
        BY <2>2, Parts, <1>0 DEF TypeOK, WorkerRow
    <3>2. Holds(v)' => Holds(v) /\ UNCHANGED <<file[worker[v].id], job[worker[v].id], text[worker[v].id]>>
      <4>1. CASE UNCHANGED <<file, job, text>>
        BY <3>1, <4>1 DEF Holds
      <4>2. CASE worker[v].id # i
        <5> DEFINE k == worker[v].id
        <5>1. CASE k = NoFile
            BY <3>1, <5>1 DEF Holds
        <5>2. CASE k # NoFile
          <6>1. k \in Ids \ {i} /\ worker'[v].id = k
            BY <3>1, <4>2, <5>2
          <6>2. file'[k] = file[k] /\ job'[k] = job[k] /\ text'[k] = text[k]
            BY <6>1
          <6> QED BY <3>1, <6>1, <6>2 DEF Holds
        <5> QED BY <5>1, <5>2
      <4>3. CASE worker[v].id = i /\ ~Holds(v)'
        BY <4>3
      <4> QED BY <2>2, <4>1, <4>2, <4>3
    <3> QED BY <3>1, <3>2, WorkElsewhere
  <2> QED BY <2>1, <2>2
<1> QED BY <1>1, <1>2, <1>3, <1>4, Parts DEF Inductive, RowInv, WorkInv, StatusMatchesJob, OnlyFailuresKill, ParentInv, Stored

-----------------------------------------------------------------------------
(* A worker on its claim *)

\* What is known of the claim of a busy worker.
LEMMA BusyFacts ==
    ASSUME Inductive, NEW w \in Workers, ~At(w, "idle")
    PROVE /\ worker[w].id \in Ids /\ worker[w].id # NoFile
          /\ worker[w] \in WorkerRow
          /\ file[worker[w].id] \in FileRow \cup {NoRow}
          /\ job[worker[w].id] \in JobRow
          /\ text[worker[w].id] \in Texts
          /\ StackInv(w) /\ RowInv(worker[w].id)
          /\ Holds(w) <=> job[worker[w].id].st = "leased" /\ job[worker[w].id].lease = w
<1>1. TypeOK /\ WorkInv(w)
    BY Parts
<1>2. worker[w] \in WorkerRow /\ StackInv(w)
    BY <1>1 DEF TypeOK, WorkInv
<1>3. worker[w].id \in Ids /\ worker[w].id # NoFile
    BY <1>2 DEF StackInv, WorkerRow
<1> QED BY <1>1, <1>2, <1>3, Parts DEF TypeOK, Holds

\* Who holds the lease of a job passes the whole fence.
LEMMA HolderFacts ==
    ASSUME Inductive, NEW w \in Workers, Holds(w)
    PROVE /\ ~At(w, "idle")
          /\ file[worker[w].id] \in FileRow /\ file[worker[w].id].st = "extracting"
          /\ file[worker[w].id].rev = 1
          /\ ClaimInv(w) /\ Fenced(w)
<1> DEFINE i == worker[w].id
<1>1. TypeOK /\ WorkInv(w) /\ ClaimInv(w)
    BY Parts DEF WorkInv
<1>2. ~At(w, "idle")
    BY <1>1 DEF WorkInv, StackInv, Holds
<1>3. i \in Ids /\ file[i] \in FileRow \cup {NoRow} /\ RowInv(i)
    BY <1>2, BusyFacts
<1>4. file[i].st = "extracting"
  <2>1. file[i].st \in {"none", "uploaded", "extracting", "ready", "error"}
    BY <1>3 DEF FileRow, NoRow
  <2> QED BY <1>3, <2>1 DEF RowInv, StatusFits, Holds
<1>5. file[i] \in FileRow
    BY <1>3, <1>4 DEF NoRow
<1>6. i \in Stored /\ file[i].ent \in live /\ file[i].rev = 1
    BY <1>3, <1>4, <1>5 DEF RowInv, Stored, TextInv, FileRow
<1>7. Fenced(w)
    BY <1>1, <1>4, <1>6 DEF Fenced, ClaimInv
<1> QED BY <1>1, <1>2, <1>4, <1>5, <1>6, <1>7

\* The turn so far, as TurnsInv counts it for the holder.
TurnFits(w) ==
    LET done == Len(text[worker[w].id])
        claims == job[worker[w].id].attempts
    IN /\ worker[w].pc \in {"read", "open"} => done = (claims - 1) * PagesPerTurn
       /\ Transcribing(w) => done = claims * PagesPerTurn - worker[w].left

\* A worker that holds its lease on an unhurt job has turns left for its pages.
LEMMA HolderTurn ==
    ASSUME Inductive, NEW w \in Workers, Holds(w), ~job[worker[w].id].hurt
    PROVE TurnFits(w)
<1>1. worker[w].id \in Ids /\ RowInv(worker[w].id)
    BY HolderFacts, BusyFacts
<1> QED BY <1>1 DEF RowInv, TurnsInv, TurnFits

\* A busy worker goes on and writes nothing.
LEMMA MoveKeeps ==
    ASSUME Inductive, NEW w \in Workers, ~At(w, "idle"),
           UNCHANGED <<live, upload, file, job, text, stored>>,
           worker' = [worker EXCEPT ![w] = worker'[w]],
           worker'[w] \in WorkerRow,
           worker'[w].pc # "idle",
           worker'[w].id = worker[w].id,
           StackInv(w)',
           Holds(w) => ClaimInv(w)',
           Holds(w) /\ ~job[worker[w].id].hurt => TurnFits(w)'
    PROVE Inductive'
<1> DEFINE i == worker[w].id
<1>0. TypeOK /\ i \in Ids /\ RowInv(i)
    BY BusyFacts, Parts
<1>1. worker' \in [Workers -> WorkerRow] /\ \A v \in Workers \ {w} : worker'[v] = worker[v]
    BY <1>0 DEF TypeOK
<1>2. Holds(w)' <=> Holds(w)
    BY DEF Holds
<1>3. WorkInv(w)'
    BY <1>2 DEF WorkInv
<1>4. \A v \in Workers : (Holds(v)' <=> Holds(v)) /\ worker'[v].id = worker[v].id
    BY <1>1 DEF Holds
<1>5. Running(i)' <=> Running(i)
    BY <1>1 DEF Running, At
<1>6. TurnsInv(i)'
  <2> SUFFICES ASSUME ~job[i].hurt PROVE TurnsInv(i)'
    BY <1>0 DEF TurnsInv
  <2>1. \A v \in Workers : worker'[v].id = i /\ Holds(v)' =>
          /\ worker'[v].pc \in {"read", "open"} => Len(text[i]) = (job[i].attempts - 1) * PagesPerTurn
          /\ Transcribing(v)' => Len(text[i]) = job[i].attempts * PagesPerTurn - worker'[v].left
    <3> TAKE v \in Workers
    <3> HAVE worker'[v].id = i /\ Holds(v)'
    <3>1. CASE v = w
        BY <1>2, <3>1 DEF TurnFits
    <3>2. CASE v # w
      <4>1. worker'[v] = worker[v] /\ Holds(v) /\ worker[v].id = i
        BY <1>1, <1>4, <3>2
      <4>2. TurnFits(v)
        BY <4>1, HolderTurn
      <4> QED BY <4>1, <4>2 DEF TurnFits, Transcribing
    <3> QED BY <3>1, <3>2
  <2>2. /\ job[i].st = "pending" => job[i].attempts = 0 /\ Len(text[i]) = 0
        /\ job[i].st = "leased" /\ ~Running(i) =>
              /\ Len(text[i]) = job[i].attempts * PagesPerTurn
              /\ Len(text[i]) < Pages[file[i].doc] /\ Pages[file[i].doc] <= MaxPages
    BY <1>0 DEF RowInv, TurnsInv
  <2> QED BY <1>0, <1>5, <2>1, <2>2 DEF TurnsInv
<1>7. RowInv(i)'
    BY <1>0, <1>6 DEF RowInv, TextInv, WholeText, Stored
<1> QED BY <1>0, <1>1, <1>3, <1>7, Local DEF TypeOK

\* A busy worker stops and writes nothing: it lost its lease, met a failure that
\* is noted already, or has used up its turn.
LEMMA StopKeeps ==
    ASSUME Inductive, NEW w \in Workers, ~At(w, "idle"), Stop(w),
           UNCHANGED <<live, upload, file, job, text, stored>>,
           Holds(w) => \/ job[worker[w].id].hurt
                       \/ LET done == Len(text[worker[w].id])
                              pages == Pages[file[worker[w].id].doc]
                          IN /\ done = job[worker[w].id].attempts * PagesPerTurn
                             /\ done < pages /\ pages <= MaxPages
    PROVE Inductive'
<1> USE AttachmentsAssumption
<1>a. PICK i \in Ids : i = worker[w].id
    BY BusyFacts
<1>0. /\ TypeOK /\ i = worker[w].id /\ RowInv(i) /\ i # NoFile /\ Inductive
      /\ Holds(w) <=> job[i].st = "leased" /\ job[i].lease = w
    BY <1>a, BusyFacts, Parts
<1>1. worker'[w] = Idle /\ \A v \in Workers \ {w} : worker'[v] = worker[v]
    BY <1>0 DEF TypeOK, Stop
<1>2. Idle \in WorkerRow
    BY EmptySeq DEF Idle, WorkerRow, NoText, Texts
<1>3. worker' \in [Workers -> WorkerRow]
    BY <1>0, <1>2 DEF TypeOK, Stop
<1>4. WorkInv(w)'
    BY <1>1 DEF WorkInv, StackInv, Holds, Idle, At, Transcribing
<1>5. \A v \in Workers : Holds(v)' => v # w /\ Holds(v) /\ worker'[v] = worker[v]
    BY <1>1 DEF Holds, Idle
<1>6. TurnsInv(i)'
  <2> SUFFICES ASSUME ~job[i].hurt PROVE TurnsInv(i)'
    BY <1>0 DEF TurnsInv
  <2>1. \A v \in Workers : worker'[v].id = i /\ Holds(v)' =>
          /\ worker'[v].pc \in {"read", "open"} => Len(text[i]) = (job[i].attempts - 1) * PagesPerTurn
          /\ Transcribing(v)' => Len(text[i]) = job[i].attempts * PagesPerTurn - worker'[v].left
    <3> TAKE v \in Workers
    <3> HAVE worker'[v].id = i /\ Holds(v)'
    <3>1. worker'[v] = worker[v] /\ Holds(v) /\ worker[v].id = i
        BY <1>5
    <3>2. TurnFits(v)
        BY <1>0, <3>1, HolderTurn
    <3> QED BY <3>1, <3>2 DEF TurnFits, Transcribing
  <2>2. job[i].st = "pending" => job[i].attempts = 0 /\ Len(text[i]) = 0
    BY <1>0 DEF RowInv, TurnsInv
  <2>3. job[i].st = "leased" /\ ~Running(i)' =>
              /\ Len(text[i]) = job[i].attempts * PagesPerTurn
              /\ Len(text[i]) < Pages[file[i].doc] /\ Pages[file[i].doc] <= MaxPages
    <3>1. CASE Holds(w)
        BY <1>0, <3>1
    <3>2. CASE job[i].st = "leased" /\ ~Holds(w)
      <4>1. Running(i) => Running(i)'
        BY <1>0, <1>1, <3>2 DEF Running, At
      <4> QED BY <1>0, <4>1 DEF RowInv, TurnsInv
    <3> QED BY <3>1, <3>2
  <2> QED BY <1>0, <2>1, <2>2, <2>3 DEF TurnsInv
<1>7. RowInv(i)'
    BY <1>0, <1>6 DEF RowInv, TextInv, WholeText, Stored
<1>8. worker'[w].id = NoFile
    BY <1>1 DEF Idle
<1> QED BY <1>0, <1>1, <1>3, <1>4, <1>7, <1>8, Local DEF TypeOK

-----------------------------------------------------------------------------
(* The steps of run_once *)

\* A failure is remembered until it is recorded.
LEMMA FailKeeps ==
    ASSUME Inductive, NEW w \in Workers, ~At(w, "idle"), ~At(w, "read"),
           NEW dead \in BOOLEAN, Fail(w, dead),
           UNCHANGED <<live, upload, file, job, text, stored>>
    PROVE Inductive'
<1>0. /\ worker[w] \in WorkerRow /\ StackInv(w) /\ worker[w].id \in Ids
      /\ worker \in [Workers -> WorkerRow] /\ Inductive
    BY BusyFacts, Parts DEF TypeOK
<1>1. /\ worker' = [worker EXCEPT ![w] = worker'[w]]
      /\ worker'[w] = [worker[w] EXCEPT !.pc = "fail", !.dead = dead]
    BY <1>0 DEF Fail
<1>2. worker'[w] \in WorkerRow /\ worker'[w].pc = "fail"
    BY <1>0, <1>1 DEF WorkerRow
<1>3. /\ worker'[w].id = worker[w].id /\ worker'[w].attempts = worker[w].attempts
      /\ worker'[w].rev = worker[w].rev /\ worker'[w].lease = worker[w].lease
      /\ worker'[w].serial = worker[w].serial /\ worker'[w].doc = worker[w].doc
    BY <1>0, <1>1 DEF WorkerRow
<1>4. StackInv(w)'
    BY <1>0, <1>2, <1>3 DEF StackInv, At, Transcribing
<1>5. Holds(w) => ClaimInv(w)'
    BY <1>0, <1>2, <1>3, HolderFacts DEF ClaimInv, At, Transcribing
<1>6. TurnFits(w)'
    BY <1>2 DEF TurnFits, Transcribing
<1> QED BY <1>0, <1>1, <1>2, <1>3, <1>4, <1>5, <1>6, MoveKeeps

\* The blob is read without a lock: it may be that of another file by now.
LEMMA ReadKeeps == ASSUME NEW w \in Workers PROVE Inductive /\ Read(w) => Inductive'
<1> SUFFICES ASSUME Inductive, Read(w) PROVE Inductive'
    OBVIOUS
<1>0. /\ ~At(w, "idle") /\ At(w, "read")
      /\ UNCHANGED <<live, upload, file, job, text, stored>>
    BY DEF Read, At, rows
<1>1. /\ worker[w] \in WorkerRow /\ StackInv(w) /\ worker[w].id \in Ids
      /\ worker \in [Workers -> WorkerRow]
      /\ file[worker[w].id] \in FileRow \cup {NoRow}
    BY <1>0, BusyFacts, Parts DEF TypeOK
<1>2. CASE file[worker[w].id].st = "none" /\ Stop(w)
  <2>1. ~Holds(w)
    BY <1>2, HolderFacts
  <2> QED BY <1>0, <1>2, <2>1, StopKeeps
<1>3. CASE /\ file[worker[w].id].st # "none"
           /\ worker' = [worker EXCEPT ![w].pc = "open", ![w].doc = file[worker[w].id].doc,
                                       ![w].serial = file[worker[w].id].serial]
  <2> DEFINE f == file[worker[w].id]
  <2>1. f \in FileRow
    BY <1>1, <1>3 DEF NoRow
  <2>2. /\ worker' = [worker EXCEPT ![w] = worker'[w]]
        /\ worker'[w] = [worker[w] EXCEPT !.pc = "open", !.doc = f.doc, !.serial = f.serial]
    BY <1>1, <1>3
  <2>3. /\ worker'[w].pc = "open" /\ worker'[w].doc = f.doc /\ worker'[w].serial = f.serial
        /\ worker'[w].id = worker[w].id /\ worker'[w].attempts = worker[w].attempts
        /\ worker'[w].rev = worker[w].rev /\ worker'[w].lease = worker[w].lease
    BY <1>1, <2>2 DEF WorkerRow
  <2>4. worker'[w] \in WorkerRow /\ f.doc \in Docs /\ f.serial \in 1..MaxFiles
    <3>1. f.doc \in Docs /\ f.serial \in 1..MaxFiles /\ f.serial \in 0..MaxFiles
        BY <2>1, AttachmentsAssumption DEF FileRow
    <3> HIDE DEF f
    <3> QED BY <1>1, <2>2, <3>1 DEF WorkerRow
  <2>5. StackInv(w)'
    BY <1>0, <1>1, <2>3, <2>4 DEF StackInv, At, Transcribing
  <2>6. Holds(w) => ClaimInv(w)'
    BY <1>0, <2>3, HolderFacts DEF ClaimInv, At, Transcribing
  <2>7. Holds(w) /\ ~job[worker[w].id].hurt => TurnFits(w)'
    <3> SUFFICES ASSUME Holds(w), ~job[worker[w].id].hurt PROVE TurnFits(w)'
        OBVIOUS
    <3>1. TurnFits(w)
        BY HolderTurn
    <3> QED BY <1>0, <2>3, <3>1 DEF TurnFits, Transcribing, At
  <2> QED BY <1>0, <2>2, <2>3, <2>4, <2>5, <2>6, <2>7, MoveKeeps
<1> QED BY <1>2, <1>3 DEF Read

\* A text is decoded at once; a PDF resumes after its checkpoints.
LEMMA OpenKeeps == ASSUME NEW w \in Workers PROVE Inductive /\ Open(w) => Inductive'
<1> SUFFICES ASSUME Inductive, Open(w) PROVE Inductive'
    OBVIOUS
<1> USE AttachmentsAssumption
<1>0. /\ ~At(w, "idle") /\ At(w, "open") /\ ~At(w, "read")
      /\ UNCHANGED <<live, upload, file, job, text, stored>>
    BY DEF Open, At, rows
<1>1. /\ worker[w] \in WorkerRow /\ StackInv(w) /\ worker[w].id \in Ids
      /\ worker \in [Workers -> WorkerRow] /\ text[worker[w].id] \in Texts
      /\ job[worker[w].id] \in JobRow
    BY <1>0, BusyFacts, Parts DEF TypeOK
<1>2. worker[w].doc \in Docs /\ worker[w].serial \in 1..MaxFiles
    BY <1>0, <1>1 DEF StackInv, WorkerRow
<1>3. ASSUME NEW dead \in BOOLEAN, Fail(w, dead) PROVE Inductive'
    BY <1>0, <1>3, FailKeeps
<1> DEFINE s == worker[w].serial
           p == Pages[worker[w].doc]
<1>4. CASE /\ p = 0
           /\ worker' = [worker EXCEPT ![w].pc = "commit",
                                       ![w].pages = [q \in 1..1 |-> <<worker[w].serial, q>>]]
  <2>1. [q \in 1..1 |-> <<worker[w].serial, q>>] = Own(s, 1)
    BY DEF Own
  <2>2. /\ worker' = [worker EXCEPT ![w] = worker'[w]]
        /\ worker'[w] = [worker[w] EXCEPT !.pc = "commit", !.pages = Own(s, 1)]
    BY <1>1, <1>4, <2>1
  <2>3. Own(s, 1) \in Texts
    BY <1>2, OwnText
  <2>4. /\ worker'[w].pc = "commit" /\ worker'[w].doc = worker[w].doc
        /\ worker'[w].serial = worker[w].serial /\ worker'[w].pages = Own(s, 1)
        /\ worker'[w].id = worker[w].id /\ worker'[w].attempts = worker[w].attempts
        /\ worker'[w].rev = worker[w].rev /\ worker'[w].lease = worker[w].lease
    BY <1>1, <2>2 DEF WorkerRow
  <2>5. worker'[w] \in WorkerRow
    BY <1>1, <2>2, <2>3 DEF WorkerRow
  <2>6. StackInv(w)'
    BY <1>0, <1>1, <2>4 DEF StackInv, At, Transcribing
  <2>7. PageCount(worker[w].doc) = 1
    BY <1>4 DEF PageCount
  <2>8. Holds(w) => ClaimInv(w)'
    BY <1>0, <2>4, <2>7, HolderFacts DEF ClaimInv, At, Transcribing
  <2>9. TurnFits(w)'
    BY <2>4 DEF TurnFits, Transcribing
  <2> QED BY <1>0, <2>2, <2>4, <2>5, <2>6, <2>8, <2>9, MoveKeeps
<1>5. CASE /\ p \in 1..MaxPages
           /\ worker' = [worker EXCEPT ![w].pc = "page", ![w].left = PagesPerTurn,
                                       ![w].pages = text[worker[w].id]]
  <2>2. /\ worker' = [worker EXCEPT ![w] = worker'[w]]
        /\ worker'[w] = [worker[w] EXCEPT !.pc = "page", !.left = PagesPerTurn,
                                          !.pages = text[worker[w].id]]
    BY <1>1, <1>5
  <2>4. /\ worker'[w].pc = "page" /\ worker'[w].doc = worker[w].doc
        /\ worker'[w].serial = worker[w].serial /\ worker'[w].pages = text[worker[w].id]
        /\ worker'[w].id = worker[w].id /\ worker'[w].attempts = worker[w].attempts
        /\ worker'[w].rev = worker[w].rev /\ worker'[w].lease = worker[w].lease
        /\ worker'[w].left = PagesPerTurn
    BY <1>1, <2>2 DEF WorkerRow
  <2>5. worker'[w] \in WorkerRow
    <3>1. PagesPerTurn \in 0..PagesPerTurn
        OBVIOUS
    <3> QED BY <1>1, <2>2, <3>1 DEF WorkerRow
  <2>6. StackInv(w)'
    BY <1>0, <1>1, <1>5, <2>4 DEF StackInv, At, Transcribing
  <2>8. Holds(w) => ClaimInv(w)'
    BY <1>0, <2>4, HolderFacts DEF ClaimInv, At, Transcribing
  <2>9. Holds(w) /\ ~job[worker[w].id].hurt => TurnFits(w)'
    <3> SUFFICES ASSUME Holds(w), ~job[worker[w].id].hurt PROVE TurnFits(w)'
        OBVIOUS
    <3>1. Len(text[worker[w].id]) = (job[worker[w].id].attempts - 1) * PagesPerTurn
        BY <1>0, HolderTurn DEF TurnFits, At
    <3>2. job[worker[w].id].attempts \in Nat /\ PagesPerTurn \in Nat
        BY <1>1 DEF JobRow
    <3>3. (job[worker[w].id].attempts - 1) * PagesPerTurn
            = job[worker[w].id].attempts * PagesPerTurn - PagesPerTurn
        BY <3>2
    <3> QED BY <1>0, <2>4, <3>1, <3>3 DEF TurnFits, Transcribing
  <2> QED BY <1>0, <2>2, <2>4, <2>5, <2>6, <2>8, <2>9, MoveKeeps
<1> QED BY <1>3, <1>4, <1>5 DEF Open

-----------------------------------------------------------------------------
(* What the holder of a lease writes *)

\* The holder writes its rows, and keeps the lease or gives it back: nobody else
\* holds it.
LEMMA HolderWrites ==
    ASSUME Inductive, NEW w \in Workers, Holds(w), NEW i \in Ids, i = worker[w].id,
           UNCHANGED <<live, upload, stored>>,
           worker' = [worker EXCEPT ![w] = worker'[w]], worker'[w] \in WorkerRow,
           worker'[w].id \in {i, NoFile},
           file' = [file EXCEPT ![i] = file'[i]], file'[i] \in FileRow,
           file'[i].serial = file[i].serial,
           job' = [job EXCEPT ![i] = job'[i]], job'[i] \in JobRow,
           job'[i].lease \in {w, NoLease},
           text' = [text EXCEPT ![i] = text'[i]], text'[i] \in Texts,
           RowInv(i)', WorkInv(w)'
    PROVE Inductive'
<1> USE AttachmentsAssumption
<1>0. TypeOK /\ file[i].st = "extracting"
    BY HolderFacts, Parts
<1>1. /\ worker' \in [Workers -> WorkerRow] /\ file' \in [Ids -> FileRow \cup {NoRow}]
      /\ job' \in [Ids -> JobRow] /\ text' \in [Ids -> Texts]
    BY <1>0 DEF TypeOK
<1>2. /\ \A v \in Workers \ {w} : worker'[v] = worker[v]
      /\ \A j \in Ids \ {i} : UNCHANGED <<file[j], job[j], text[j]>>
    BY <1>0 DEF TypeOK
<1>3. \A v \in Workers \ {w} : worker[v].id = i => ~Holds(v)'
    BY <1>2 DEF Holds
<1>4. file'[i].st # "none"
    BY DEF FileRow
<1> QED BY <1>0, <1>1, <1>2, <1>3, <1>4, Local

\* It goes on with its lease.
LEMMA HolderGoesOn ==
    ASSUME Inductive, NEW w \in Workers, Holds(w), NEW i \in Ids, i = worker[w].id,
           UNCHANGED <<live, upload, file, stored>>,
           worker' = [worker EXCEPT ![w] = worker'[w]], worker'[w] \in WorkerRow,
           worker'[w].id = i, worker'[w].pc # "idle",
           job' = [job EXCEPT ![i] = job'[i]], job'[i] \in JobRow,
           job'[i].st = "leased", job'[i].lease = w,
           text' = [text EXCEPT ![i] = text'[i]], text'[i] \in Texts,
           TextInv(i)', StackInv(w)', ClaimInv(w)',
           ~job'[i].hurt => TurnFits(w)'
    PROVE Inductive'
<1> USE AttachmentsAssumption
<1>0. TypeOK /\ file[i] \in FileRow /\ file[i].st = "extracting" /\ RowInv(i)
    BY HolderFacts, Parts
<1>1. i # NoFile /\ Running(i)'
    BY DEF Running, At
<1>2. \A v \in Workers : Holds(v)' /\ worker'[v].id = i => v = w
    BY DEF Holds
<1>3. TurnsInv(i)'
    BY <1>1, <1>2 DEF TurnsInv, TurnFits
<1>4. StatusFits(file[i], job[i])'
    BY <1>0 DEF StatusFits
<1>5. RowInv(i)'
    BY <1>0, <1>3, <1>4 DEF RowInv, Stored
<1>6. WorkInv(w)'
    BY DEF WorkInv
<1>7. file' = [file EXCEPT ![i] = file'[i]] /\ file'[i] \in FileRow /\ file'[i].serial = file[i].serial
    BY <1>0 DEF TypeOK
<1> QED BY <1>5, <1>6, <1>7, HolderWrites

\* Its attempt ends: with the job closed, or with a failure.
LEMMA HolderEnds ==
    ASSUME Inductive, NEW w \in Workers, Holds(w), NEW i \in Ids, i = worker[w].id,
           UNCHANGED <<live, upload, stored>>, Stop(w),
           file' = [file EXCEPT ![i] = file'[i]], file'[i] \in FileRow,
           file'[i].serial = file[i].serial, file'[i].ent = file[i].ent,
           job' = [job EXCEPT ![i] = job'[i]], job'[i] \in JobRow,
           job'[i].lease \in {w, NoLease}, job'[i].st = "done" \/ job'[i].hurt,
           StatusFits(file[i], job[i])',
           text' = [text EXCEPT ![i] = text'[i]], text'[i] \in Texts,
           TextInv(i)'
    PROVE Inductive'
<1> USE AttachmentsAssumption
<1>0. TypeOK /\ file[i] \in FileRow /\ file[i].st = "extracting" /\ RowInv(i)
    BY HolderFacts, Parts
<1>1. /\ worker' = [worker EXCEPT ![w] = worker'[w]] /\ worker'[w] = Idle
    BY <1>0 DEF TypeOK, Stop
<1>2. Idle \in WorkerRow /\ Idle.id = NoFile
    BY EmptySeq DEF Idle, WorkerRow, NoText, Texts
<1>3. WorkInv(w)'
    BY <1>1 DEF WorkInv, StackInv, Holds, Idle, At, Transcribing
<1>4. job'[i].st = "done" => job'[i].st # "pending" /\ job'[i].st # "leased"
    OBVIOUS
<1>5. TurnsInv(i)'
    BY <1>4 DEF TurnsInv, Holds
<1>6. file'[i].st = "error" => job'[i].hurt
    BY DEF StatusFits
<1>7. i \in Stored' => file'[i].ent \in live'
    BY <1>0 DEF RowInv, Stored
<1>8. RowInv(i)'
    BY <1>5, <1>6, <1>7 DEF RowInv
<1>9. worker'[w] \in WorkerRow /\ worker'[w].id = NoFile
    BY <1>1, <1>2
<1> HIDE DEF Idle
<1> QED BY <1>1, <1>3, <1>8, <1>9, HolderWrites

\* The row of a holder as it is.
LEMMA HolderRows ==
    ASSUME Inductive, NEW w \in Workers, Holds(w), NEW i \in Ids, i = worker[w].id
    PROVE /\ worker[w] \in WorkerRow /\ file[i] \in FileRow /\ job[i] \in JobRow
          /\ text[i] \in Texts /\ text = [text EXCEPT ![i] = text[i]]
          /\ file = [file EXCEPT ![i] = file[i]]
          /\ worker \in [Workers -> WorkerRow] /\ job \in [Ids -> JobRow]
          /\ file \in [Ids -> FileRow \cup {NoRow}] /\ text \in [Ids -> Texts]
          /\ job[i].st = "leased" /\ job[i].lease = w
          /\ TextInv(i) /\ ClaimInv(w) /\ StackInv(w) /\ RowInv(i)
BY HolderFacts, BusyFacts, Parts DEF TypeOK, Holds, RowInv

\* A renewal that passes.
LEMMA RenewKeeps ==
    ASSUME Inductive, NEW w \in Workers, Passes(w), NEW pc \in {"ocr", "save"},
           Transcribing(w), NextPage(w) <= Pages[worker[w].doc], worker[w].left > 0,
           job' = [job EXCEPT ![worker[w].id].ripe = FALSE],
           worker' = [worker EXCEPT ![w].pc = pc, ![w].lease = "valid"],
           UNCHANGED <<live, upload, file, text, stored>>
    PROVE Inductive'
<1>0. Holds(w) /\ worker[w].lease # "lost"
    BY DEF Passes, Fenced
<1>a. PICK i \in Ids : i = worker[w].id
    BY <1>0, HolderFacts, BusyFacts
<1>1. /\ worker[w] \in WorkerRow /\ job[i] \in JobRow /\ text[i] \in Texts
      /\ worker \in [Workers -> WorkerRow] /\ job \in [Ids -> JobRow]
      /\ job[i].st = "leased" /\ job[i].lease = w
      /\ TextInv(i) /\ ClaimInv(w) /\ StackInv(w)
      /\ text = [text EXCEPT ![i] = text[i]]
    BY <1>0, <1>a, HolderRows
<1>2. /\ worker' = [worker EXCEPT ![w] = worker'[w]]
      /\ worker'[w] = [worker[w] EXCEPT !.pc = pc, !.lease = "valid"]
      /\ job' = [job EXCEPT ![i] = job'[i]]
      /\ job'[i] = [job[i] EXCEPT !.ripe = FALSE]
    BY <1>a, <1>1
<1>3. worker'[w] \in WorkerRow /\ job'[i] \in JobRow
  <2>1. worker'[w] \in WorkerRow
    BY <1>1, <1>2 DEF WorkerRow
  <2>2. job'[i] \in JobRow
    BY <1>1, <1>2 DEF JobRow
  <2> QED BY <2>1, <2>2
<1>4. /\ worker'[w].id = i /\ worker'[w].pc = pc /\ worker'[w].lease = "valid"
      /\ worker'[w].attempts = worker[w].attempts /\ worker'[w].rev = worker[w].rev
      /\ worker'[w].serial = worker[w].serial /\ worker'[w].doc = worker[w].doc
      /\ worker'[w].pages = worker[w].pages /\ worker'[w].left = worker[w].left
    BY <1>a, <1>1, <1>2 DEF WorkerRow
<1>5. /\ job'[i].st = "leased" /\ job'[i].lease = w /\ job'[i].ripe = FALSE
      /\ job'[i].attempts = job[i].attempts /\ job'[i].hurt = job[i].hurt
    BY <1>1, <1>2 DEF JobRow
<1>6. TextInv(i)'
    BY <1>1 DEF TextInv, WholeText, Stored
<1>7. StackInv(w)'
    BY <1>1, <1>4 DEF StackInv, At, Transcribing, NextPage
<1>8. ClaimInv(w)'
    BY <1>0, <1>a, <1>1, <1>4, <1>5 DEF ClaimInv, At, Transcribing
<1>9. ~job'[i].hurt => TurnFits(w)'
    <2> SUFFICES ASSUME ~job'[i].hurt PROVE TurnFits(w)'
        OBVIOUS
    <2>1. TurnFits(w)
        BY <1>0, <1>a, <1>5, HolderTurn
    <2> QED BY <1>a, <1>4, <1>5, <2>1 DEF TurnFits, Transcribing
<1> QED BY <1>0, <1>a, <1>1, <1>2, <1>3, <1>4, <1>5, <1>6, <1>7, <1>8, <1>9, HolderGoesOn

\* A refused worker stops: its lease is not the job's, or it outlived it.
LEMMA RefusedKeeps ==
    ASSUME Inductive, NEW w \in Workers, ~At(w, "idle"), Refused(w), Stop(w),
           UNCHANGED <<live, upload, file, job, text, stored>>
    PROVE Inductive'
<1>1. Holds(w) => job[worker[w].id].hurt
    BY HolderFacts DEF Refused, ClaimInv
<1> QED BY <1>1, StopKeeps

-----------------------------------------------------------------------------
(* Pages and the end of an attempt *)

\* The head of the page loop: all pages are there, the turn is over, or one
\* more page is rendered.
LEMMA RenderKeeps == ASSUME NEW w \in Workers PROVE Inductive /\ Render(w) => Inductive'
<1> SUFFICES ASSUME Inductive, Render(w) PROVE Inductive'
    OBVIOUS
<1> USE AttachmentsAssumption
<1>0. /\ ~At(w, "idle") /\ At(w, "page") /\ ~At(w, "read") /\ Transcribing(w)
      /\ UNCHANGED <<live, upload, file, text, stored>>
    BY DEF Render, At, Transcribing
<1>a. PICK i \in Ids : i = worker[w].id
    BY <1>0, BusyFacts
<1>1. /\ worker[w] \in WorkerRow /\ StackInv(w) /\ RowInv(i)
      /\ worker \in [Workers -> WorkerRow] /\ text[i] \in Texts
    BY <1>0, <1>a, BusyFacts, Parts DEF TypeOK
<1>2. Pages[worker[w].doc] \in 1..MaxPages /\ worker[w].doc \in Docs
    BY <1>0, <1>1 DEF StackInv
\* While the holder can still go on, its pages are the checkpoints.
<1>3. ASSUME Holds(w), worker[w].lease # "lost"
      PROVE /\ worker[w].pages = Own(worker[w].serial, Len(worker[w].pages))
            /\ worker[w].pages = text[i]
            /\ worker[w].doc = file[i].doc
            /\ Len(text[i]) <= Pages[file[i].doc] /\ Len(text[i]) \in Nat
  <2>1. ClaimInv(w) /\ file[i].st = "extracting" /\ file[i] \in FileRow /\ TextInv(i)
    BY <1>a, <1>3, HolderFacts, HolderRows
  <2>2. Len(text[i]) \in Nat
    BY <1>1, LenProperties DEF Texts
  <2>3. worker[w].serial = file[i].serial /\ worker[w].doc = file[i].doc /\ worker[w].pages = text[i]
    BY <1>a, <1>0, <1>3, <2>1 DEF ClaimInv
  <2>4. i \in Stored
    BY <2>1 DEF Stored
  <2> QED BY <2>1, <2>2, <2>3, <2>4 DEF TextInv
<1>4. CASE NextPage(w) > Pages[worker[w].doc] /\ Go(w, "commit") /\ UNCHANGED job
  <2>1. /\ worker' = [worker EXCEPT ![w] = worker'[w]]
        /\ worker'[w] = [worker[w] EXCEPT !.pc = "commit"]
    BY <1>1, <1>4 DEF Go
  <2>2. /\ worker'[w].pc = "commit" /\ worker'[w].doc = worker[w].doc
        /\ worker'[w].serial = worker[w].serial /\ worker'[w].pages = worker[w].pages
        /\ worker'[w].id = worker[w].id /\ worker'[w].attempts = worker[w].attempts
        /\ worker'[w].rev = worker[w].rev /\ worker'[w].lease = worker[w].lease
    BY <1>1, <2>1 DEF WorkerRow
  <2>3. worker'[w] \in WorkerRow
    BY <1>1, <2>1 DEF WorkerRow
  <2>4. StackInv(w)'
    BY <1>0, <1>1, <2>2 DEF StackInv, At, Transcribing
  <2>5. PageCount(worker[w].doc) = Pages[worker[w].doc]
    BY <1>2 DEF PageCount
  <2>6. Holds(w) /\ worker[w].lease # "lost" =>
          worker[w].pages = Own(worker[w].serial, PageCount(worker[w].doc))
    <3> SUFFICES ASSUME Holds(w), worker[w].lease # "lost"
                 PROVE worker[w].pages = Own(worker[w].serial, PageCount(worker[w].doc))
        OBVIOUS
    <3>1. Len(worker[w].pages) = Pages[worker[w].doc]
        BY <1>2, <1>3, <1>4 DEF NextPage
    <3> QED BY <1>3, <2>5, <3>1
  <2>7. Holds(w) => ClaimInv(w)'
    BY <1>0, <1>4, <2>2, <2>6, HolderFacts DEF ClaimInv, At, Transcribing
  <2>8. TurnFits(w)'
    BY <2>2 DEF TurnFits, Transcribing
  <2> QED BY <1>0, <1>4, <2>1, <2>2, <2>3, <2>4, <2>7, <2>8, MoveKeeps
<1>5. CASE NextPage(w) <= Pages[worker[w].doc] /\ TurnOver(w) /\ Stop(w) /\ UNCHANGED job
  <2>1. ASSUME Holds(w), ~job[i].hurt
        PROVE /\ Len(text[i]) = job[i].attempts * PagesPerTurn
              /\ Len(text[i]) < Pages[file[i].doc] /\ Pages[file[i].doc] <= MaxPages
    <3>1. worker[w].lease # "lost" /\ job[i].attempts \in Nat
        BY <1>a, <2>1, HolderRows DEF ClaimInv, JobRow
    <3>2. Len(text[i]) = job[i].attempts * PagesPerTurn - 0
        BY <1>a, <1>0, <1>5, <2>1, HolderTurn DEF TurnFits, TurnOver
    <3>3. job[i].attempts * PagesPerTurn \in Nat
        BY <3>1
    <3>4. worker[w].pages = text[i] /\ worker[w].doc = file[i].doc /\ Len(text[i]) \in Nat
        BY <1>3, <2>1, <3>1
    <3>5. Len(text[i]) + 1 <= Pages[file[i].doc]
        BY <1>5, <3>4 DEF NextPage
    <3>6. Pages[file[i].doc] \in 1..MaxPages /\ MaxPages \in Int
        BY <1>2, <3>4
    <3>7. Len(text[i]) < Pages[file[i].doc] /\ Pages[file[i].doc] <= MaxPages
        BY <3>4, <3>5, <3>6
    <3> QED BY <3>2, <3>3, <3>7
  <2> QED BY <1>0, <1>a, <1>5, <2>1, StopKeeps
<1>6. CASE Fail(w, FALSE) /\ UNCHANGED job
    BY <1>0, <1>6, FailKeeps
<1>7. CASE NextPage(w) <= Pages[worker[w].doc] /\ ~TurnOver(w) /\ Renewed(w, "ocr")
  <2>1. worker[w].left > 0
    BY <1>1, <1>7 DEF TurnOver, WorkerRow
  <2> QED BY <1>0, <1>7, <2>1, RenewKeeps, RefusedKeeps DEF Renewed
<1> QED BY <1>4, <1>5, <1>6, <1>7 DEF Render

\* A page read by OCR goes to the worker's memory.
LEMMA OcrKeeps == ASSUME NEW w \in Workers PROVE Inductive /\ Ocr(w) => Inductive'
<1> SUFFICES ASSUME Inductive, Ocr(w) PROVE Inductive'
    OBVIOUS
<1>0. /\ ~At(w, "idle") /\ ~At(w, "read") /\ Transcribing(w) /\ worker[w].pc = "ocr"
      /\ UNCHANGED <<live, upload, file, text, stored>>
    BY DEF Ocr, At, Transcribing
<1>1. NextPage(w) <= Pages[worker[w].doc] /\ worker[w].left > 0
    BY <1>0, BusyFacts DEF StackInv
<1>2. ASSUME NEW dead \in BOOLEAN, Fail(w, dead), UNCHANGED job PROVE Inductive'
    BY <1>0, <1>2, FailKeeps
<1>3. CASE Renewed(w, "save")
    BY <1>0, <1>1, <1>3, RenewKeeps, RefusedKeeps DEF Renewed
<1> QED BY <1>2, <1>3 DEF Ocr

\* A page becomes a row only under the lease, and then right after the others.
LEMMA CheckpointKeeps == ASSUME NEW w \in Workers PROVE Inductive /\ Checkpoint(w) => Inductive'
<1> SUFFICES ASSUME Inductive, Checkpoint(w) PROVE Inductive'
    OBVIOUS
<1> USE AttachmentsAssumption
<1>0. /\ ~At(w, "idle") /\ ~At(w, "read") /\ Transcribing(w) /\ worker[w].pc = "save"
      /\ UNCHANGED <<live, upload, file, job, stored>>
    BY DEF Checkpoint, At, Transcribing
<1>a. PICK i \in Ids : i = worker[w].id
    BY <1>0, BusyFacts
<1> DEFINE s == worker[w].serial
           p == NextPage(w)
<1>1. /\ worker[w] \in WorkerRow /\ StackInv(w) /\ RowInv(i)
      /\ worker \in [Workers -> WorkerRow] /\ text[i] \in Texts /\ text \in [Ids -> Texts]
    BY <1>0, <1>a, BusyFacts, Parts DEF TypeOK
<1>2. /\ s \in 1..MaxFiles /\ p \in Nat /\ worker[w].pages \in Texts
      /\ p = Len(worker[w].pages) + 1 /\ Len(worker[w].pages) \in Nat
  <2>1. worker[w].pages \in Texts /\ s \in 0..MaxFiles /\ s # 0
    BY <1>0, <1>1 DEF WorkerRow, StackInv
  <2>2. Len(worker[w].pages) \in Nat
    BY <2>1, LenProperties DEF Texts
  <2> QED BY <2>1, <2>2 DEF NextPage
<1>3. /\ p <= Pages[worker[w].doc] /\ worker[w].left > 0 /\ worker[w].left - 1 \in 0..PagesPerTurn
      /\ Pages[worker[w].doc] \in 1..MaxPages /\ worker[w].doc \in Docs
    BY <1>0, <1>1 DEF StackInv, WorkerRow
<1> DEFINE more == Append(worker[w].pages, <<s, p>>)
           pushed(lease) == [worker[w] EXCEPT !.pc = "page", !.left = @ - 1, !.lease = lease,
                                              !.pages = more]
<1>4. more \in Texts
    BY <1>2, AppendProperties DEF Texts
<1>5. ASSUME NEW lease \in {"valid", "lapsing", "lost"}, worker' = [worker EXCEPT ![w] = pushed(lease)]
      PROVE /\ worker' = [worker EXCEPT ![w] = worker'[w]] /\ worker'[w] \in WorkerRow
            /\ worker'[w].pc = "page" /\ worker'[w].doc = worker[w].doc
            /\ worker'[w].serial = s /\ worker'[w].pages = more
            /\ worker'[w].id = worker[w].id /\ worker'[w].attempts = worker[w].attempts
            /\ worker'[w].rev = worker[w].rev /\ worker'[w].lease = lease
            /\ worker'[w].left = worker[w].left - 1
            /\ StackInv(w)'
  <2> HIDE DEF more, p
  <2>1. worker'[w] = pushed(lease) /\ worker' = [worker EXCEPT ![w] = worker'[w]]
    BY <1>1, <1>5
  <2>2. worker'[w] \in WorkerRow
    BY <1>1, <1>3, <1>4, <2>1 DEF WorkerRow
  <2>3. /\ worker'[w].pc = "page" /\ worker'[w].doc = worker[w].doc
        /\ worker'[w].serial = s /\ worker'[w].pages = more
        /\ worker'[w].id = worker[w].id /\ worker'[w].attempts = worker[w].attempts
        /\ worker'[w].rev = worker[w].rev /\ worker'[w].lease = lease
        /\ worker'[w].left = worker[w].left - 1
    BY <1>1, <2>1 DEF WorkerRow
  <2>4. StackInv(w)'
    BY <1>0, <1>1, <1>3, <2>3 DEF StackInv, At, Transcribing
  <2> QED BY <2>1, <2>2, <2>3, <2>4
<1>6. CASE /\ Holds(w) /\ worker[w].lease # "lost"
           /\ text' = [text EXCEPT ![worker[w].id] = WithPage(@, p, <<s, p>>)]
           /\ worker' = [worker EXCEPT ![w] = pushed(@.lease)]
  <2>1. /\ ClaimInv(w) /\ file[i].st = "extracting" /\ file[i] \in FileRow /\ TextInv(i)
        /\ job[i].st = "leased" /\ job[i].lease = w /\ job[i] \in JobRow
        /\ job = [job EXCEPT ![i] = job[i]]
    BY <1>a, <1>6, HolderFacts, HolderRows
  <2> DEFINE n == Len(text[i])
  <2>2. /\ s = file[i].serial /\ worker[w].doc = file[i].doc
        /\ worker[w].pages = text[i] /\ text[i] = Own(s, n) /\ n \in Nat /\ p = n + 1
    <3>1. s = file[i].serial /\ worker[w].doc = file[i].doc /\ worker[w].pages = text[i]
        BY <1>a, <1>0, <1>6, <2>1 DEF ClaimInv
    <3>2. i \in Stored
        BY <2>1 DEF Stored
    <3> QED BY <1>2, <2>1, <3>1, <3>2 DEF TextInv
  <2>3. more = Own(s, n + 1) /\ text'[i] = Own(s, n + 1) /\ text' = [text EXCEPT ![i] = text'[i]]
    <3>1. Append(Own(s, n), <<s, n + 1>>) = Own(s, n + 1)
          /\ WithPage(Own(s, n), n + 1, <<s, n + 1>>) = Own(s, n + 1)
        BY <1>2, <2>2, OwnGrows
    <3>2. text'[i] = WithPage(text[i], p, <<s, p>>) /\ text' = [text EXCEPT ![i] = text'[i]]
        BY <1>a, <1>1, <1>6
    <3> QED BY <2>2, <3>1, <3>2
  <2>4. text'[i] \in Texts /\ Len(text'[i]) = n + 1
    BY <1>2, <2>2, <2>3, OwnText
  <2>5. /\ worker' = [worker EXCEPT ![w] = worker'[w]] /\ worker'[w] \in WorkerRow
        /\ worker'[w].pc = "page" /\ worker'[w].doc = worker[w].doc
        /\ worker'[w].serial = s /\ worker'[w].pages = more
        /\ worker'[w].id = worker[w].id /\ worker'[w].attempts = worker[w].attempts
        /\ worker'[w].rev = worker[w].rev /\ worker'[w].lease = worker[w].lease
        /\ worker'[w].left = worker[w].left - 1
        /\ StackInv(w)'
    <3>1. worker[w].lease \in {"valid", "lapsing", "lost"}
        BY <1>1 DEF WorkerRow
    <3>2. worker' = [worker EXCEPT ![w] = pushed(worker[w].lease)]
        BY <1>6
    <3> QED BY <1>5, <3>1, <3>2
  <2> HIDE DEF more, n, s, p
  <2>6. TextInv(i)'
    <3>1. i \in Stored' /\ file'[i].st = "extracting" /\ file'[i] = file[i]
        BY <1>0, <2>1 DEF Stored
    <3>2. n + 1 <= Pages[file[i].doc]
        BY <1>3, <2>2
    <3>3. file[i].rev # 2
        BY <2>1 DEF TextInv, Stored, FileRow
    <3> QED BY <2>2, <2>3, <2>4, <3>1, <3>2, <3>3 DEF TextInv
  <2>7. ClaimInv(w)'
    BY <1>0, <1>a, <1>6, <2>1, <2>2, <2>3, <2>5 DEF ClaimInv, At, Transcribing
  <2>8. ~job'[i].hurt => TurnFits(w)'
    <3> SUFFICES ASSUME ~job[i].hurt PROVE TurnFits(w)'
        BY <1>0
    <3>1. n = job[i].attempts * PagesPerTurn - worker[w].left
        BY <1>0, <1>a, <1>6, HolderTurn DEF TurnFits, n
    <3>2. worker[w].left \in Nat /\ job[i].attempts \in Nat /\ job[i].attempts * PagesPerTurn \in Nat
        BY <1>1, <2>1 DEF WorkerRow, JobRow
    <3>3. n + 1 = job[i].attempts * PagesPerTurn - (worker[w].left - 1)
        BY <3>1, <3>2
    <3> QED BY <1>0, <1>a, <2>4, <2>5, <3>3 DEF TurnFits, Transcribing
  <2> QED BY <1>0, <1>a, <1>6, <2>1, <2>3, <2>4, <2>5, <2>6, <2>7, <2>8, HolderGoesOn
<1>7. CASE Fail(w, FALSE) /\ UNCHANGED text
    BY <1>0, <1>7, FailKeeps
<1>8. CASE /\ Holds(w) => worker[w].lease # "valid"
           /\ worker' = [worker EXCEPT ![w] = pushed("lost")]
           /\ UNCHANGED text
  <2>1. /\ worker' = [worker EXCEPT ![w] = worker'[w]] /\ worker'[w] \in WorkerRow
        /\ worker'[w].pc = "page" /\ worker'[w].doc = worker[w].doc
        /\ worker'[w].serial = s /\ worker'[w].pages = more
        /\ worker'[w].id = worker[w].id /\ worker'[w].attempts = worker[w].attempts
        /\ worker'[w].rev = worker[w].rev /\ worker'[w].lease = "lost"
        /\ StackInv(w)'
    BY <1>5, <1>8
  <2> HIDE DEF more
  <2>2. Holds(w) => job[worker[w].id].hurt /\ ClaimInv(w)'
    BY <1>0, <1>8, <2>1, HolderFacts DEF ClaimInv, At, Transcribing
  <2> QED BY <1>0, <1>8, <2>1, <2>2, MoveKeeps
<1> QED BY <1>6, <1>7, <1>8 DEF Checkpoint

\* The commit replaces the checkpoints by all pages.
LEMMA PublishKeeps == ASSUME NEW w \in Workers PROVE Inductive /\ Publish(w) => Inductive'
<1> SUFFICES ASSUME Inductive, Publish(w) PROVE Inductive'
    OBVIOUS
<1>0. /\ ~At(w, "idle") /\ At(w, "commit") /\ ~At(w, "read") /\ Stop(w)
      /\ UNCHANGED <<live, upload, stored>>
    BY DEF Publish, At
<1>a. PICK i \in Ids : i = worker[w].id
    BY <1>0, BusyFacts
<1>1. CASE /\ Passes(w)
           /\ text' = [text EXCEPT ![i] = worker[w].pages]
           /\ file' = [file EXCEPT ![i].st = "ready", ![i].rev = @ + 1]
           /\ job' = [job EXCEPT ![i].st = "done", ![i].lease = NoLease]
  <2>0. Holds(w) /\ worker[w].lease # "lost"
    BY <1>1 DEF Passes, Fenced
  <2>1. /\ worker[w] \in WorkerRow /\ file[i] \in FileRow /\ job[i] \in JobRow
        /\ file \in [Ids -> FileRow \cup {NoRow}] /\ text \in [Ids -> Texts]
        /\ job \in [Ids -> JobRow] /\ ClaimInv(w)
    BY <1>a, <2>0, HolderRows
  <2>2. file[i].rev = 1
    BY <1>a, <2>0, HolderFacts
  <2>3. /\ text'[i] = worker[w].pages /\ text' = [text EXCEPT ![i] = text'[i]]
        /\ file'[i] = [file[i] EXCEPT !.st = "ready", !.rev = 2]
        /\ file' = [file EXCEPT ![i] = file'[i]]
        /\ job'[i] = [job[i] EXCEPT !.st = "done", !.lease = NoLease]
        /\ job' = [job EXCEPT ![i] = job'[i]]
    <3>1. text'[i] = worker[w].pages /\ text' = [text EXCEPT ![i] = text'[i]]
        BY <1>1, <2>1
    <3>2. /\ file'[i] = [file[i] EXCEPT !.st = "ready", !.rev = @ + 1]
          /\ file' = [file EXCEPT ![i] = file'[i]]
        BY <1>1, <2>1
    <3>3. [file[i] EXCEPT !.st = "ready"].rev + 1 = 2
        BY <2>1, <2>2 DEF FileRow
    <3>4. file'[i] = [file[i] EXCEPT !.st = "ready", !.rev = 2]
        BY <3>2, <3>3, Zenon
    <3>5. /\ job'[i] = [job[i] EXCEPT !.st = "done", !.lease = NoLease]
          /\ job' = [job EXCEPT ![i] = job'[i]]
        BY <1>1, <2>1
    <3> QED BY <3>1, <3>2, <3>4, <3>5
  <2>4. file'[i] \in FileRow
    <3>1. 2 \in 1..2
        OBVIOUS
    <3> QED BY <2>1, <2>3, <3>1 DEF FileRow
  <2>5. job'[i] \in JobRow
    BY <2>1, <2>3 DEF JobRow
  <2>6. /\ file'[i].serial = file[i].serial /\ file'[i].ent = file[i].ent
        /\ file'[i].doc = file[i].doc /\ file'[i].st = "ready" /\ file'[i].rev = 2
    BY <2>1, <2>3 DEF FileRow
  <2>7. job'[i].st = "done" /\ job'[i].lease = NoLease
    BY <2>1, <2>3 DEF JobRow
  <2>8. text'[i] = Own(file[i].serial, PageCount(file[i].doc)) /\ text'[i] \in Texts
    BY <1>0, <1>a, <2>0, <2>1, <2>3 DEF ClaimInv, WorkerRow
  <2>9. PageCount(file[i].doc) \in Nat /\ file[i].serial \in 1..MaxFiles
    BY <2>1, AttachmentsAssumption DEF PageCount, FileRow
  <2>10. Len(text'[i]) = PageCount(file[i].doc)
    BY <2>8, <2>9, OwnText
  <2>11. TextInv(i)'
    BY <2>6, <2>8, <2>10 DEF TextInv, WholeText, Stored
  <2>12. StatusFits(file[i], job[i])'
    BY <2>6, <2>7 DEF StatusFits
  <2> QED BY <1>0, <1>a, <2>0, <2>3, <2>4, <2>5, <2>6, <2>7, <2>8, <2>11, <2>12, HolderEnds
<1>2. CASE Refused(w) /\ UNCHANGED rows
    BY <1>0, <1>2, RefusedKeeps DEF rows
<1> QED BY <1>a, <1>1, <1>2 DEF Publish

\* A failure is recorded: another attempt, or the end.
LEMMA RetryKeeps == ASSUME NEW w \in Workers PROVE Inductive /\ Retry(w) => Inductive'
<1> SUFFICES ASSUME Inductive, Retry(w) PROVE Inductive'
    OBVIOUS
<1>0. ~At(w, "idle") /\ Stop(w) /\ UNCHANGED <<live, upload, text, stored>>
    BY DEF Retry, At
<1>a. PICK i \in Ids : i = worker[w].id
    BY <1>0, BusyFacts
<1>1. CASE Passes(w) /\ Retried(w)
  <2>0. Holds(w)
    BY <1>1 DEF Passes, Fenced
  <2>1. /\ file[i] \in FileRow /\ job[i] \in JobRow /\ text[i] \in Texts /\ TextInv(i)
        /\ file \in [Ids -> FileRow \cup {NoRow}] /\ job \in [Ids -> JobRow]
        /\ text = [text EXCEPT ![i] = text[i]]
    BY <1>a, <2>0, HolderRows
  <2>2. PICK fs \in {"error", "extracting"}, js \in {"dead", "pending"} :
            /\ fs = "error" <=> js = "dead"
            /\ job' = [job EXCEPT ![i].st = js, ![i].lease = NoLease, ![i].ripe = FALSE, ![i].hurt = TRUE]
            /\ file' = [file EXCEPT ![i].st = fs]
    <3>1. CASE Dead(w)
        BY <1>a, <1>1, <3>1 DEF Retried
    <3>2. CASE ~Dead(w)
        BY <1>a, <1>1, <3>2 DEF Retried
    <3> QED BY <3>1, <3>2
  <2>3. /\ file'[i] = [file[i] EXCEPT !.st = fs] /\ file' = [file EXCEPT ![i] = file'[i]]
        /\ job'[i] = [job[i] EXCEPT !.st = js, !.lease = NoLease, !.ripe = FALSE, !.hurt = TRUE]
        /\ job' = [job EXCEPT ![i] = job'[i]]
    BY <2>1, <2>2
  <2>4. file'[i] \in FileRow
    BY <2>1, <2>3 DEF FileRow
  <2>5. job'[i] \in JobRow
    BY <2>1, <2>3 DEF JobRow
  <2>6. /\ file'[i].serial = file[i].serial /\ file'[i].ent = file[i].ent
        /\ file'[i].doc = file[i].doc /\ file'[i].st = fs /\ file'[i].rev = file[i].rev
    BY <2>1, <2>3 DEF FileRow
  <2>7. job'[i].st = js /\ job'[i].lease = NoLease /\ job'[i].hurt = TRUE
    BY <2>1, <2>3 DEF JobRow
  <2>8. StatusFits(file[i], job[i])'
    BY <2>2, <2>6, <2>7 DEF StatusFits
  <2>9. file[i].st = "extracting"
    BY <1>a, <2>0, HolderFacts
  <2>10. TextInv(i)'
    BY <1>0, <2>1, <2>6, <2>9 DEF TextInv, WholeText, Stored
  <2>11. text'[i] \in Texts /\ text' = [text EXCEPT ![i] = text'[i]]
    BY <1>0, <2>1
  <2> QED BY <1>0, <1>a, <2>0, <2>3, <2>4, <2>5, <2>6, <2>7, <2>8, <2>10, <2>11, HolderEnds
<1>2. CASE Refused(w) /\ UNCHANGED <<file, job>>
    BY <1>0, <1>2, RefusedKeeps
<1> QED BY <1>1, <1>2 DEF Retry

\* A crash loses the worker's memory, not its lease.
LEMMA CrashKeeps == ASSUME NEW w \in Workers PROVE Inductive /\ Crash(w) => Inductive'
<1> SUFFICES ASSUME Inductive, Crash(w) PROVE Inductive'
    OBVIOUS
<1>0. ~At(w, "idle") /\ Stop(w) /\ UNCHANGED <<live, upload, file, text, stored>>
    BY DEF Crash
<1>a. PICK i \in Ids : i = worker[w].id
    BY <1>0, BusyFacts
<1>1. CASE Holds(w)
  <2>1. /\ file[i] \in FileRow /\ job[i] \in JobRow /\ text[i] \in Texts /\ TextInv(i) /\ RowInv(i)
        /\ file = [file EXCEPT ![i] = file[i]] /\ job \in [Ids -> JobRow]
        /\ text = [text EXCEPT ![i] = text[i]] /\ job[i].lease = w
    BY <1>a, <1>1, HolderRows
  <2>3. /\ job'[i] = [job[i] EXCEPT !.hurt = TRUE] /\ job' = [job EXCEPT ![i] = job'[i]]
    BY <1>a, <1>1, <2>1 DEF Crash
  <2>4. job'[i] \in JobRow
    BY <2>1, <2>3 DEF JobRow
  <2>5. /\ job'[i].st = job[i].st /\ job'[i].lease = w /\ job'[i].hurt = TRUE
        /\ job'[i].attempts = job[i].attempts
    BY <2>1, <2>3 DEF JobRow
  <2>6. StatusFits(file[i], job[i])'
    BY <1>0, <2>1, <2>5 DEF RowInv, StatusFits
  <2>7. TextInv(i)'
    BY <1>0, <2>1 DEF TextInv, WholeText, Stored
  <2>8. /\ text'[i] \in Texts /\ text' = [text EXCEPT ![i] = text'[i]]
        /\ file'[i] = file[i] /\ file' = [file EXCEPT ![i] = file'[i]]
    BY <1>0, <2>1
  <2> QED BY <1>0, <1>a, <1>1, <2>1, <2>3, <2>4, <2>5, <2>6, <2>7, <2>8, HolderEnds
<1>2. CASE ~Holds(w)
  <2>1. UNCHANGED job
    BY <1>2 DEF Crash
  <2> QED BY <1>0, <1>2, <2>1, StopKeeps
<1> QED BY <1>1, <1>2

\* A lease that runs out under a live worker.
LEMMA OverrunKeeps == ASSUME NEW w \in Workers PROVE Inductive /\ Overrun(w) => Inductive'
<1> SUFFICES ASSUME Inductive, Overrun(w) PROVE Inductive'
    OBVIOUS
<1>0. /\ Holds(w) /\ worker[w].lease = "valid" /\ ~At(w, "idle")
      /\ UNCHANGED <<live, upload, file, text, stored>>
    BY HolderFacts DEF Overrun
<1>a. PICK i \in Ids : i = worker[w].id
    BY <1>0, BusyFacts
<1>1. /\ worker[w] \in WorkerRow /\ job[i] \in JobRow /\ text[i] \in Texts
      /\ worker \in [Workers -> WorkerRow] /\ job \in [Ids -> JobRow]
      /\ job[i].st = "leased" /\ job[i].lease = w
      /\ TextInv(i) /\ ClaimInv(w) /\ StackInv(w)
      /\ text = [text EXCEPT ![i] = text[i]]
    BY <1>0, <1>a, HolderRows
<1>2. /\ worker' = [worker EXCEPT ![w] = worker'[w]]
      /\ worker'[w] = [worker[w] EXCEPT !.lease = "lapsing"]
      /\ job' = [job EXCEPT ![i] = job'[i]]
      /\ job'[i] = [job[i] EXCEPT !.ripe = TRUE, !.hurt = TRUE]
    BY <1>a, <1>1 DEF Overrun
<1>3. worker'[w] \in WorkerRow
    BY <1>1, <1>2 DEF WorkerRow
<1>4. job'[i] \in JobRow
    BY <1>1, <1>2 DEF JobRow
<1>5. /\ worker'[w].id = i /\ worker'[w].pc = worker[w].pc /\ worker'[w].lease = "lapsing"
      /\ worker'[w].attempts = worker[w].attempts /\ worker'[w].rev = worker[w].rev
      /\ worker'[w].serial = worker[w].serial /\ worker'[w].doc = worker[w].doc
      /\ worker'[w].pages = worker[w].pages /\ worker'[w].left = worker[w].left
    BY <1>a, <1>1, <1>2 DEF WorkerRow
<1>6. /\ job'[i].st = "leased" /\ job'[i].lease = w /\ job'[i].ripe = TRUE
      /\ job'[i].attempts = job[i].attempts /\ job'[i].hurt = TRUE
    BY <1>1, <1>2 DEF JobRow
<1>7. TextInv(i)'
    BY <1>0, <1>1 DEF TextInv, WholeText, Stored
<1>8. StackInv(w)'
    BY <1>a, <1>1, <1>5 DEF StackInv, At, Transcribing, NextPage
<1>9. ClaimInv(w)'
    BY <1>0, <1>a, <1>1, <1>5, <1>6 DEF ClaimInv, At, Transcribing
<1>10. worker'[w].pc # "idle" /\ text'[i] \in Texts /\ text' = [text EXCEPT ![i] = text'[i]]
    BY <1>0, <1>1, <1>5 DEF At
<1> QED BY <1>0, <1>a, <1>2, <1>3, <1>4, <1>5, <1>6, <1>7, <1>8, <1>9, <1>10, HolderGoesOn

-----------------------------------------------------------------------------
(* Time, sessions and stored files *)

\* A worker that holds its lease holds the one of its file's job.
LEMMA HolderRuns ==
    ASSUME Inductive, NEW v \in Workers, Holds(v)
    PROVE /\ worker[v].id \in Ids /\ Running(worker[v].id)
          /\ job[worker[v].id].st = "leased" /\ job[worker[v].id].lease = v
BY HolderFacts, BusyFacts DEF Running, Holds

\* A retry time or a lease that passes.
LEMMA TimerKeeps == ASSUME NEW i \in Ids PROVE Inductive /\ TimerPasses(i) => Inductive'
<1> SUFFICES ASSUME Inductive, TimerPasses(i) PROVE Inductive'
    OBVIOUS
<1> USE AttachmentsAssumption
<1>0. /\ TypeOK /\ FinishedNamesOwn /\ RowInv(i) /\ job \in [Ids -> JobRow] /\ job[i] \in JobRow
      /\ UNCHANGED <<live, upload, file, text, worker, stored>>
    BY Parts DEF TimerPasses, TypeOK
<1>1. /\ job'[i] = [job[i] EXCEPT !.ripe = TRUE] /\ job' \in [Ids -> JobRow]
      /\ \A j \in Ids \ {i} : job'[j] = job[j]
  <2>1. job'[i] = [job[i] EXCEPT !.ripe = TRUE] /\ job' = [job EXCEPT ![i] = job'[i]]
    BY <1>0 DEF TimerPasses
  <2>2. job'[i] \in JobRow
    BY <1>0, <2>1 DEF JobRow
  <2> QED BY <1>0, <2>1, <2>2
<1>2. /\ job'[i].st = job[i].st /\ job'[i].lease = job[i].lease
      /\ job'[i].attempts = job[i].attempts /\ job'[i].hurt = job[i].hurt
    BY <1>0, <1>1 DEF JobRow
<1>3. \A v \in Workers : Holds(v)' => Holds(v) /\ worker[v].id \in Ids \ {i}
  <2> TAKE v \in Workers
  <2> HAVE Holds(v)'
  <2>1. worker[v].id \in Ids
    BY <1>0 DEF Holds, TypeOK, WorkerRow
  <2>2. Holds(v)
    BY <1>0, <1>1, <1>2, <2>1 DEF Holds
  <2>3. worker[v].id # i
    BY <2>2, HolderRuns DEF TimerPasses
  <2> QED BY <2>1, <2>2, <2>3
<1>4. TypeOK' /\ FinishedNamesOwn'
    BY <1>0, <1>1 DEF TypeOK, FinishedNamesOwn, Stored
<1>5. ASSUME NEW v \in Workers PROVE WorkInv(v)'
  <2>1. WorkInv(v)
    BY Parts
  <2>2. Holds(v)' => Holds(v) /\ UNCHANGED <<file[worker[v].id], job[worker[v].id], text[worker[v].id]>>
    BY <1>0, <1>1, <1>3
  <2> QED BY <1>0, <2>1, <2>2, WorkElsewhere
<1>6. ASSUME NEW j \in Ids PROVE RowInv(j)'
  <2>0. RowInv(j)
    BY Parts
  <2>1. CASE j = i
    <3>1. Running(i)' <=> Running(i)
        BY <1>0, <1>2 DEF Running, At
    <3>2. TurnsInv(i)'
        BY <1>0, <1>2, <1>3, <3>1 DEF RowInv, TurnsInv
    <3>3. StatusFits(file[i], job[i])'
        BY <1>0, <1>2 DEF RowInv, StatusFits
    <3> QED BY <1>0, <1>2, <2>1, <3>2, <3>3 DEF RowInv, TextInv, WholeText, Stored
  <2>2. CASE j # i
    <3>1. UNCHANGED <<file[j], job[j], text[j]>> /\ (j \in Stored => file[j].ent \in live')
        BY <1>0, <1>1, <2>0, <2>2 DEF RowInv
    <3> QED BY <1>0, <2>0, <3>1, RowElsewhere
  <2> QED BY <2>1, <2>2
<1> QED BY <1>4, <1>5, <1>6, Parts DEF Inductive, RowInv, WorkInv, StatusMatchesJob, OnlyFailuresKill, ParentInv, Stored

\* Sessions and entities come, and sessions go, without touching a file.
LEMMA SessionsKeep ==
    ASSUME Inductive, UNCHANGED <<file, job, text, worker, stored>>,
           live \subseteq live', live' \subseteq Entities,
           upload' \in [Uploads -> SessionRow \cup {NoSession, Gone}],
           \A u \in Uploads : upload'[u].st = "done" => upload'[u] = upload[u]
    PROVE Inductive'
<1>0. TypeOK /\ FinishedNamesOwn
    BY Parts
<1>1. TypeOK'
    BY <1>0 DEF TypeOK
<1>2. FinishedNamesOwn'
    BY <1>0 DEF FinishedNamesOwn, Stored
<1>3. ASSUME NEW j \in Ids PROVE RowInv(j)'
  <2>1. RowInv(j) /\ (j \in Stored => file[j].ent \in live')
    BY Parts DEF RowInv
  <2> QED BY <2>1, RowElsewhere
<1>4. ASSUME NEW v \in Workers PROVE WorkInv(v)'
  <2>1. WorkInv(v) /\ (Holds(v)' => Holds(v))
    BY Parts DEF Holds
  <2> QED BY <2>1, WorkElsewhere
<1> QED BY <1>1, <1>2, <1>3, <1>4, Parts DEF Inductive, RowInv, WorkInv, StatusMatchesJob, OnlyFailuresKill, ParentInv, Stored

\* Steps of an upload session before it finishes.
LEMMA SessionSteps ==
    ASSUME Inductive, NEW u \in Uploads
    PROVE /\ \A e \in Entities, n \in Names, d \in Docs : Begin(u, e, n, d) => Inductive'
          /\ \A b \in Blocks : AppendChunk(u, b) => Inductive'
          /\ Cancel(u) => Inductive'
          /\ Lapse(u) => Inductive'
<1> USE AttachmentsAssumption
<1>0. /\ upload \in [Uploads -> SessionRow \cup {NoSession, Gone}] /\ live \subseteq Entities
      /\ upload[u] \in SessionRow \cup {NoSession, Gone}
    BY Parts DEF TypeOK
<1>1. upload[u].st = "open" => upload[u] \in SessionRow
    BY <1>0 DEF NoSession, Gone
<1>2. ASSUME NEW e \in Entities, NEW n \in Names, NEW d \in Docs, Begin(u, e, n, d) PROVE Inductive'
  <2>1. upload'[u] \in SessionRow /\ upload'[u].st = "open"
    <3>1. <<>> \in Seq(Blocks) /\ 0 \in 0..MaxFiles
        BY EmptySeq
    <3> QED BY <1>0, <1>2, <3>1 DEF Begin, SessionRow
  <2> QED BY <1>0, <1>2, <2>1, SessionsKeep DEF Begin, rows
<1>3. ASSUME NEW b \in Blocks, AppendChunk(u, b) PROVE Inductive'
  <2>1. upload'[u] = [upload[u] EXCEPT !.got = Append(upload[u].got, b)]
    BY <1>0, <1>3 DEF AppendChunk
  <2>2. upload[u] \in SessionRow /\ upload[u].st = "open"
    BY <1>1, <1>3 DEF AppendChunk, Usable
  <2>3. Append(upload[u].got, b) \in Seq(Blocks)
    BY <2>2, AppendProperties DEF SessionRow
  <2>4. upload'[u] \in SessionRow /\ upload'[u].st = "open"
    BY <2>1, <2>2, <2>3 DEF SessionRow
  <2> QED BY <1>0, <1>3, <2>4, SessionsKeep DEF AppendChunk, rows
<1>4. ASSUME Cancel(u) PROVE Inductive'
  <2>1. upload'[u] = Gone /\ Gone.st # "done"
    BY <1>0, <1>4 DEF Cancel, Gone
  <2> QED BY <1>0, <1>4, <2>1, SessionsKeep DEF Cancel, rows
<1>5. ASSUME Lapse(u) PROVE Inductive'
  <2>1. upload'[u] = [upload[u] EXCEPT !.expired = TRUE] /\ upload[u] \in SessionRow
    BY <1>0, <1>1, <1>5 DEF Lapse
  <2>2. upload'[u] \in SessionRow
    BY <2>1 DEF SessionRow
  <2>3. upload'[u].st = "open"
    BY <2>1, <1>5 DEF SessionRow, Lapse
  <2> QED BY <1>0, <1>5, <2>2, <2>3, SessionsKeep DEF Lapse, rows
<1> QED BY <1>2, <1>3, <1>4, <1>5

\* A new entity has no file.
LEMMA CreateKeeps == ASSUME NEW e \in Entities PROVE Inductive /\ CreateEntity(e) => Inductive'
<1> SUFFICES ASSUME Inductive, CreateEntity(e) PROVE Inductive'
    OBVIOUS
<1>1. TypeOK
    BY Parts
<1> QED BY <1>1, SessionsKeep DEF CreateEntity, rows, TypeOK

\* A new file takes a rowid that no row, job or text has.
LEMMA StoreKeeps ==
    ASSUME Inductive, NEW i \in Ids, NEW e \in live, NEW n \in Names, NEW d \in Docs,
           StoreRow(i, e, n, d), UNCHANGED <<live, worker>>,
           upload' \in [Uploads -> SessionRow \cup {NoSession, Gone}],
           \A u \in Uploads : upload'[u].st = "done" =>
              \/ upload'[u] = upload[u]
              \/ upload'[u].id = i /\ upload'[u].serial = stored + 1
    PROVE Inductive'
<1> USE AttachmentsAssumption
<1>0. /\ TypeOK /\ FinishedNamesOwn /\ RowInv(i) /\ e \in Entities
      /\ stored \in Nat /\ stored < MaxFiles /\ stored' = stored + 1
    BY Parts DEF TypeOK, StoreRow
<1>1. i \notin Stored /\ file[i].st = "none" /\ job[i].st = "none" /\ text[i] = <<>>
  <2>1. i \notin Stored
    BY DEF StoreRow, IsNextId, Stored
  <2>2. file[i].st = "none" /\ text[i] = <<>>
    BY <1>0, <2>1 DEF Stored, RowInv, TextInv, NoText
  <2> QED BY <1>0, <2>1, <2>2 DEF RowInv, StatusFits
<1>2. /\ file'[i] = [st |-> "uploaded", ent |-> e, name |-> n, doc |-> d, rev |-> 1,
                     serial |-> stored + 1]
      /\ job'[i] = [st |-> "pending", lease |-> NoLease, ripe |-> TRUE, attempts |-> 0, hurt |-> FALSE]
      /\ UNCHANGED text
      /\ \A j \in Ids \ {i} : file'[j] = file[j] /\ job'[j] = job[j]
    BY <1>0 DEF StoreRow, TypeOK, NoJob
<1>3. file'[i] \in FileRow /\ job'[i] \in JobRow
  <2>1. stored + 1 \in 1..MaxFiles /\ 1 \in 1..2 /\ 0 \in 0..MaxAttempts
    BY <1>0
  <2> QED BY <1>0, <1>2, <2>1 DEF FileRow, JobRow
<1>4. TypeOK'
  <2>1. stored' \in 0..MaxFiles
    BY <1>0
  <2>2. file' \in [Ids -> FileRow \cup {NoRow}] /\ job' \in [Ids -> JobRow]
    BY <1>0, <1>3 DEF TypeOK, StoreRow
  <2> QED BY <1>0, <1>2, <2>1, <2>2 DEF TypeOK
<1>5. FinishedNamesOwn'
  <2> SUFFICES ASSUME NEW u \in Uploads, upload'[u].st = "done"
               PROVE upload'[u].id \in Stored' /\ file'[upload'[u].id].serial = upload'[u].serial
    BY DEF FinishedNamesOwn
  <2>1. CASE upload'[u] = upload[u]
    <3>1. upload[u].id \in Stored /\ file[upload[u].id].serial = upload[u].serial
        BY <1>0, <2>1 DEF FinishedNamesOwn
    <3>2. upload[u].id \in Ids \ {i}
        BY <1>1, <3>1 DEF Stored
    <3>3. file'[upload[u].id] = file[upload[u].id]
        BY <1>2, <3>2
    <3> QED BY <2>1, <3>1, <3>2, <3>3 DEF Stored
  <2>2. CASE upload'[u].id = i /\ upload'[u].serial = stored + 1
    BY <1>2, <2>2 DEF Stored
  <2> QED BY <2>1, <2>2
<1>6. ASSUME NEW j \in Ids PROVE RowInv(j)'
  <2>1. CASE j = i
    <3>1. StatusFits(file[i], job[i])'
        BY <1>2 DEF StatusFits
    <3>2. text'[i] = Own(stored + 1, 0) /\ Len(text'[i]) = 0
        BY <1>1, <1>2 DEF Own
    <3>3. TextInv(i)'
        BY <1>2, <3>2 DEF TextInv, Stored
    <3>4. \A v \in Workers : ~(worker'[v].id = i /\ Holds(v)')
        BY <1>2 DEF Holds
    <3>5. TurnsInv(i)'
        BY <1>2, <3>2, <3>4 DEF TurnsInv
    <3> QED BY <1>2, <2>1, <3>1, <3>3, <3>5 DEF RowInv
  <2>2. CASE j # i
    <3>1. RowInv(j) /\ (j \in Stored => file[j].ent \in live')
        BY Parts DEF RowInv
    <3>2. UNCHANGED <<file[j], job[j], text[j]>>
        BY <1>2, <2>2
    <3> QED BY <3>1, <3>2, RowElsewhere
  <2> QED BY <2>1, <2>2
<1>7. ASSUME NEW v \in Workers PROVE WorkInv(v)'
  <2>1. WorkInv(v) /\ worker[v].id \in Ids \cup {NoFile}
    BY <1>0, Parts DEF TypeOK, WorkerRow
  <2>2. Holds(v)' => Holds(v) /\ UNCHANGED <<file[worker[v].id], job[worker[v].id], text[worker[v].id]>>
    <3>1. CASE worker[v].id \in Ids \ {i}
      <4> DEFINE k == worker[v].id
      <4>1. UNCHANGED <<file[k], job[k], text[k]>> /\ worker'[v].id = k
        BY <1>2, <3>1
      <4> QED BY <4>1 DEF Holds
    <3>2. CASE worker[v].id = NoFile
        BY <3>2 DEF Holds
    <3>3. CASE worker[v].id = i
        BY <1>2, <3>3 DEF Holds
    <3> QED BY <2>1, <3>1, <3>2, <3>3
  <2> QED BY <2>1, <2>2, WorkElsewhere
<1> QED BY <1>4, <1>5, <1>6, <1>7, Parts DEF Inductive, RowInv, WorkInv, StatusMatchesJob, OnlyFailuresKill, ParentInv, Stored

\* A finished upload is a new file under an id that is free.
LEMMA FinishKeeps == ASSUME NEW u \in Uploads, NEW i \in Ids PROVE Inductive /\ Finish(u, i) => Inductive'
<1> SUFFICES ASSUME Inductive, Finish(u, i) PROVE Inductive'
    OBVIOUS
<1> USE AttachmentsAssumption
<1>0. /\ upload \in [Uploads -> SessionRow \cup {NoSession, Gone}]
      /\ upload[u] \in SessionRow \cup {NoSession, Gone}
      /\ stored \in Nat /\ stored < MaxFiles
    BY Parts DEF TypeOK, Finish, StoreRow
<1>1. upload[u] \in SessionRow
    BY <1>0 DEF Finish, Usable, NoSession, Gone
<1>2. upload'[u] = [upload[u] EXCEPT !.st = "done", !.got = <<>>, !.id = i, !.serial = stored + 1]
    BY <1>0 DEF Finish
<1>3. /\ upload'[u] \in SessionRow /\ upload'[u].id = i /\ upload'[u].serial = stored + 1
  <2>1. <<>> \in Seq(Blocks) /\ stored + 1 \in 0..MaxFiles
    BY <1>0, EmptySeq
  <2> QED BY <1>1, <1>2, <2>1 DEF SessionRow
<1>4. /\ upload' \in [Uploads -> SessionRow \cup {NoSession, Gone}]
      /\ \A v \in Uploads \ {u} : upload'[v] = upload[v]
    BY <1>0, <1>3 DEF Finish
<1>5. /\ upload[u].ent \in live /\ upload[u].name \in Names /\ upload[u].doc \in Docs
      /\ StoreRow(i, upload[u].ent, upload[u].name, upload[u].doc) /\ UNCHANGED <<live, worker>>
    BY <1>1 DEF Finish, Admitted, SessionRow
<1> QED BY <1>3, <1>4, <1>5, StoreKeeps

\* A file stored at once is a new file under an id that is free.
LEMMA ReaderKeeps ==
    ASSUME NEW e \in Entities, NEW n \in Names, NEW d \in Docs, NEW i \in Ids
    PROVE Inductive /\ StoreReader(e, n, d, i) => Inductive'
<1> SUFFICES ASSUME Inductive, StoreReader(e, n, d, i) PROVE Inductive'
    OBVIOUS
<1>1. /\ upload' \in [Uploads -> SessionRow \cup {NoSession, Gone}] /\ upload' = upload
      /\ e \in live
    BY Parts DEF StoreReader, TypeOK, Admitted
<1> QED BY <1>1, StoreKeeps DEF StoreReader

\* Rows, job, text and finished session of a file go together.
LEMMA RemoveKeeps ==
    ASSUME Inductive, NEW S \in SUBSET Ids, NEW E, RemoveRows(S, E), live' \subseteq live,
           \A i \in Ids \ S : i \in Stored => file[i].ent \in live'
    PROVE Inductive'
<1> USE AttachmentsAssumption
<1>0. /\ TypeOK /\ FinishedNamesOwn /\ UNCHANGED <<worker, stored>>
      /\ \A i \in S : file'[i] = NoRow /\ job'[i] = NoJob /\ text'[i] = NoText
      /\ \A i \in Ids \ S : UNCHANGED <<file[i], job[i], text[i]>>
      /\ \A u \in Uploads : upload'[u] = IF Ended(u, S, E) THEN Gone ELSE upload[u]
    BY Parts DEF RemoveRows
<1>1. TypeOK'
  <2>1. NoJob \in JobRow /\ NoText \in Texts
    BY EmptySeq DEF NoJob, JobRow, NoText, Texts
  <2> QED BY <1>0, <2>1 DEF TypeOK, RemoveRows
<1>2. FinishedNamesOwn'
  <2> SUFFICES ASSUME NEW u \in Uploads, upload'[u].st = "done"
               PROVE upload'[u].id \in Stored' /\ file'[upload'[u].id].serial = upload'[u].serial
    BY DEF FinishedNamesOwn
  <2>1. upload'[u] = upload[u] /\ ~Ended(u, S, E)
    BY <1>0 DEF Gone
  <2>2. /\ upload[u].id \in Stored /\ file[upload[u].id].serial = upload[u].serial
        /\ upload[u].id \notin S
    BY <1>0, <2>1 DEF FinishedNamesOwn, Ended
  <2>3. upload[u].id \in Ids
    BY <2>2 DEF Stored
  <2> QED BY <1>0, <2>1, <2>2, <2>3 DEF Stored
<1>3. ASSUME NEW j \in Ids PROVE RowInv(j)'
  <2>1. CASE j \in S
    <3>1. file'[j].st = "none" /\ job'[j].st = "none" /\ j \notin Stored' /\ text'[j] = NoText
        BY <1>0, <2>1 DEF NoRow, NoJob, Stored
    <3>2. StatusFits(file[j], job[j])' /\ TextInv(j)'
        BY <3>1 DEF StatusFits, TextInv
    <3>3. \A v \in Workers : ~(worker'[v].id = j /\ Holds(v)')
        BY <3>1 DEF Holds
    <3>4. TurnsInv(j)'
        BY <3>1, <3>3 DEF TurnsInv
    <3> QED BY <3>1, <3>2, <3>4 DEF RowInv
  <2>2. CASE j \notin S
    <3>1. RowInv(j) /\ (j \in Stored => file[j].ent \in live')
        BY <2>2, Parts
    <3> QED BY <1>0, <2>2, <3>1, RowElsewhere
  <2> QED BY <2>1, <2>2
<1>4. ASSUME NEW v \in Workers PROVE WorkInv(v)'
  <2>1. WorkInv(v) /\ worker[v].id \in Ids \cup {NoFile}
    BY <1>0, Parts DEF TypeOK, WorkerRow
  <2>2. Holds(v)' => Holds(v) /\ UNCHANGED <<file[worker[v].id], job[worker[v].id], text[worker[v].id]>>
    <3>1. CASE worker[v].id \in Ids \ S
      <4> DEFINE k == worker[v].id
      <4>1. UNCHANGED <<file[k], job[k], text[k]>> /\ worker'[v].id = k
        BY <1>0, <3>1
      <4> QED BY <4>1 DEF Holds
    <3>2. CASE worker[v].id = NoFile
        BY <1>0, <3>2 DEF Holds
    <3>3. CASE worker[v].id \in S
      <4>1. job'[worker[v].id] = NoJob /\ worker'[v].id = worker[v].id
        BY <1>0, <3>3
      <4>2. job'[worker[v].id].st = "none"
        BY <4>1 DEF NoJob
      <4> QED BY <4>1, <4>2 DEF Holds
    <3> QED BY <2>1, <3>1, <3>2, <3>3
  <2> QED BY <1>0, <2>1, <2>2, WorkElsewhere
<1> QED BY <1>1, <1>2, <1>3, <1>4, Parts DEF Inductive, RowInv, WorkInv, StatusMatchesJob, OnlyFailuresKill, ParentInv, Stored

\* A deleted file takes its job, pages and checkpoints with it.
LEMMA DeleteFileKeeps == ASSUME NEW i \in Ids PROVE Inductive /\ DeleteFile(i) => Inductive'
BY RemoveKeeps, Parts DEF DeleteFile, RowInv

\* A deleted entity takes its files and sessions with it.
LEMMA DeleteEntityKeeps == ASSUME NEW e \in Entities PROVE Inductive /\ DeleteEntity(e) => Inductive'
<1> SUFFICES ASSUME Inductive, DeleteEntity(e) PROVE Inductive'
    OBVIOUS
<1> DEFINE S == {i \in Stored : file[i].ent = e}
<1>1. S \in SUBSET Ids /\ live' \subseteq live /\ RemoveRows(S, {e})
    BY DEF DeleteEntity, Stored
<1>2. \A i \in Ids \ S : i \in Stored => file[i].ent \in live'
    BY Parts DEF RowInv, DeleteEntity
<1> QED BY <1>1, <1>2, RemoveKeeps

-----------------------------------------------------------------------------
(* Claims *)

\* A lapsed lease without a failure belongs to a deferred file: the turns so far
\* were full, and pages are missing.
LEMMA Deferred ==
    ASSUME Inductive, NEW i \in Ids, job[i].st = "leased", job[i].ripe, ~job[i].hurt
    PROVE /\ Len(text[i]) = job[i].attempts * PagesPerTurn
          /\ job[i].attempts < MaxAttempts
<1> USE AttachmentsAssumption
<1>0. RowInv(i) /\ job[i] \in JobRow /\ i # NoFile
    BY Parts DEF TypeOK
<1>1. ~Running(i)
  <2> SUFFICES ASSUME Running(i) PROVE FALSE
    OBVIOUS
  <2>1. PICK v \in Workers : ~At(v, "idle") /\ worker[v].id = i /\ job[i].lease = v
    BY DEF Running
  <2>2. Holds(v)
    BY <1>0, <2>1 DEF Holds
  <2>3. ClaimInv(v)
    BY <2>2, HolderFacts
  <2> QED BY <2>1, <2>3 DEF ClaimInv
<1>2. /\ Len(text[i]) = job[i].attempts * PagesPerTurn
      /\ Len(text[i]) < Pages[file[i].doc] /\ Pages[file[i].doc] <= MaxPages
    BY <1>0, <1>1 DEF RowInv, TurnsInv
<1>3. job[i].attempts \in Nat /\ Len(text[i]) \in Nat /\ file[i] \in FileRow
  <2>1. text[i] \in Texts /\ file[i] \in FileRow \cup {NoRow}
    BY Parts DEF TypeOK
  <2>2. file[i].st # "none"
    BY <1>0 DEF RowInv, StatusFits
  <2>3. file[i] \in FileRow
    BY <2>1, <2>2 DEF NoRow
  <2> QED BY <1>0, <2>1, <2>3, LenProperties DEF JobRow, Texts
<1>4. Pages[file[i].doc] \in Nat
    BY <1>3 DEF FileRow
<1>5. job[i].attempts * PagesPerTurn < MaxAttempts * PagesPerTurn
  <2>1. MaxPages = MaxAttempts * PagesPerTurn /\ MaxAttempts * PagesPerTurn \in Nat
    OBVIOUS
  <2> QED BY <1>2, <1>3, <1>4, <2>1
<1>6. job[i].attempts < MaxAttempts
    BY <1>3, <1>5, FewerTurns
<1> QED BY <1>2, <1>6

\* "a maximum-size PDF completes within the eight-claim dead-letter bound".
LEMMA SpentHurt == ASSUME Inductive, NEW i \in Ids, Spent(i) PROVE job[i].hurt
<1>1. job[i] \in JobRow /\ job[i].attempts \in Nat
    BY Parts, AttachmentsAssumption DEF TypeOK, JobRow
<1>2. ~job[i].hurt => job[i].attempts < MaxAttempts
    BY Deferred DEF Spent
<1> QED BY <1>1, <1>2, AttachmentsAssumption DEF Spent, JobRow

\* A row that claim_due leaves or gives up.
LEMMA GivenUpRow ==
    ASSUME Inductive, NEW j \in Ids, file'[j] = Failed(j), job'[j] = GivenUp(j),
           UNCHANGED <<live, text>>,
           \A v \in Workers :
             worker[v].id = j \/ worker'[v].id = j => worker'[v] = worker[v]
    PROVE /\ RowInv(j)'
          /\ file'[j] \in FileRow \cup {NoRow} /\ job'[j] \in JobRow
          /\ file'[j].st = "none" <=> file[j].st = "none"
          /\ file[j].st # "none" => file'[j].serial = file[j].serial
<1>0. RowInv(j) /\ file[j] \in FileRow \cup {NoRow} /\ job[j] \in JobRow
    BY Parts DEF TypeOK
<1>1. CASE ~Spent(j)
  <2>1. UNCHANGED <<file[j], job[j], text[j]>> /\ (j \in Stored => file[j].ent \in live')
    BY <1>0, <1>1 DEF Failed, GivenUp, RowInv
  <2>2. RowInv(j)'
    BY <1>0, <2>1, RowElsewhere
  <2> QED BY <1>0, <2>1, <2>2
<1>2. CASE Spent(j)
  <2>1. file[j].st = "extracting"
    <3>1. file[j].st \in {"none", "uploaded", "extracting", "ready", "error"}
        BY <1>0 DEF FileRow, NoRow
    <3> QED BY <1>0, <1>2, <3>1 DEF RowInv, StatusFits, Spent
  <2>2. file[j] \in FileRow
    BY <1>0, <2>1 DEF NoRow
  <2>3. file'[j] = [file[j] EXCEPT !.st = "error"]
        /\ job'[j] = [job[j] EXCEPT !.st = "dead", !.lease = NoLease]
    BY <1>2 DEF Failed, GivenUp
  <2>4. file'[j] \in FileRow
    BY <2>2, <2>3 DEF FileRow
  <2>5. job'[j] \in JobRow
    BY <1>0, <2>3 DEF JobRow
  <2>6. /\ file'[j].st = "error" /\ file'[j].serial = file[j].serial
        /\ file'[j].ent = file[j].ent /\ file'[j].rev = file[j].rev
    BY <2>2, <2>3 DEF FileRow
  <2>7. job'[j].st = "dead" /\ job'[j].hurt = job[j].hurt
    BY <1>0, <2>3 DEF JobRow
  <2>8. StatusFits(file[j], job[j])' /\ job'[j].hurt
    BY <1>2, <2>6, <2>7, SpentHurt DEF StatusFits
  <2>9. TextInv(j)'
    BY <1>0, <2>1, <2>2, <2>6 DEF RowInv, TextInv, Stored
  <2>10. TurnsInv(j)'
    BY <2>8 DEF TurnsInv
  <2>11. j \in Stored' => file'[j].ent \in live'
    BY <1>0, <2>1, <2>6 DEF RowInv, Stored
  <2>12. RowInv(j)'
    BY <2>8, <2>9, <2>10, <2>11 DEF RowInv
  <2> QED BY <2>1, <2>4, <2>5, <2>6, <2>12
<1> QED BY <1>1, <1>2

\* A worker whose lease was not taken away.
LEMMA GivenUpWork ==
    ASSUME Inductive, NEW v \in Workers, worker'[v] = worker[v], UNCHANGED text,
           \A k \in Ids : worker[v].id = k =>
              \/ file'[k] = Failed(k) /\ job'[k] = GivenUp(k)
              \/ job'[k].lease # v
    PROVE WorkInv(v)'
<1> USE AttachmentsAssumption
<1>0. WorkInv(v) /\ worker[v].id \in Ids \cup {NoFile} /\ job \in [Ids -> JobRow]
    BY Parts DEF TypeOK, WorkerRow
<1>1. Holds(v)' => Holds(v) /\ UNCHANGED <<file[worker[v].id], job[worker[v].id], text[worker[v].id]>>
  <2> SUFFICES ASSUME Holds(v)'
               PROVE Holds(v) /\ UNCHANGED <<file[worker[v].id], job[worker[v].id], text[worker[v].id]>>
    OBVIOUS
  <2>1. PICK k \in Ids : k = worker[v].id
    BY <1>0 DEF Holds
  <2>2. job'[k].lease = v /\ job'[k].st = "leased"
    BY <2>1 DEF Holds
  <2>3. file'[k] = Failed(k) /\ job'[k] = GivenUp(k)
    BY <2>1, <2>2
  <2>4. ~Spent(k)
    <3> SUFFICES ASSUME Spent(k) PROVE FALSE
        OBVIOUS
    <3>1. job'[k] = [job[k] EXCEPT !.st = "dead", !.lease = NoLease] /\ job[k] \in JobRow
        BY <1>0, <2>3 DEF GivenUp
    <3>2. job'[k].st = "dead"
        BY <3>1 DEF JobRow
    <3> QED BY <2>2, <3>2
  <2>5. file'[k] = file[k] /\ job'[k] = job[k]
    BY <2>3, <2>4 DEF Failed, GivenUp
  <2> QED BY <2>1, <2>2, <2>5 DEF Holds
<1> QED BY <1>0, <1>1, WorkElsewhere

\* The sweep removes sessions that ran out and leaves finished ones.
LEMMA SweptFacts ==
    ASSUME Inductive, upload' = [u \in Uploads |-> Swept(u)]
    PROVE /\ upload' \in [Uploads -> SessionRow \cup {NoSession, Gone}]
          /\ \A u \in Uploads : upload'[u].st = "done" => upload'[u] = upload[u]
<1>1. upload \in [Uploads -> SessionRow \cup {NoSession, Gone}]
    BY Parts DEF TypeOK
<1> QED BY <1>1 DEF Swept, Gone

\* A claim that finds nothing.
LEMMA ClaimNothingKeeps == ASSUME NEW w \in Workers PROVE Inductive /\ ClaimNothing(w) => Inductive'
<1> SUFFICES ASSUME Inductive, ClaimNothing(w) PROVE Inductive'
    OBVIOUS
<1>0. /\ TypeOK /\ FinishedNamesOwn /\ UNCHANGED <<live, text, worker, stored>>
      /\ \A j \in Ids : file'[j] = Failed(j) /\ job'[j] = GivenUp(j)
      /\ DOMAIN file' = Ids /\ DOMAIN job' = Ids
      /\ file' = [j \in Ids |-> file'[j]] /\ job' = [j \in Ids |-> job'[j]]
    BY Parts DEF ClaimNothing
<1>1. /\ upload' \in [Uploads -> SessionRow \cup {NoSession, Gone}]
      /\ \A u \in Uploads : upload'[u].st = "done" => upload'[u] = upload[u]
    BY SweptFacts DEF ClaimNothing
<1>2. \A j \in Ids :
          /\ RowInv(j)'
          /\ file'[j] \in FileRow \cup {NoRow} /\ job'[j] \in JobRow
          /\ file'[j].st = "none" <=> file[j].st = "none"
          /\ file[j].st # "none" => file'[j].serial = file[j].serial
    BY <1>0, GivenUpRow
<1>3. \A v \in Workers : WorkInv(v)'
    BY <1>0, GivenUpWork
<1>4. TypeOK'
  <2>1. file' \in [Ids -> FileRow \cup {NoRow}]
    BY <1>0, <1>2
  <2>2. job' \in [Ids -> JobRow]
    BY <1>0, <1>2
  <2> QED BY <1>0, <1>1, <2>1, <2>2 DEF TypeOK
<1>5. FinishedNamesOwn'
    BY <1>0, <1>1, <1>2 DEF FinishedNamesOwn, Stored
<1> QED BY <1>2, <1>3, <1>4, <1>5, Parts DEF Inductive, RowInv, WorkInv, StatusMatchesJob, OnlyFailuresKill, ParentInv, Stored

\* A claim takes a due row from whoever had it, and begins a turn.
LEMMA ClaimKeeps ==
    ASSUME NEW w \in Workers, NEW i \in Ids PROVE Inductive /\ Claim(w, i) => Inductive'
<1> SUFFICES ASSUME Inductive, Claim(w, i) PROVE Inductive'
    OBVIOUS
<1> USE AttachmentsAssumption
<1>0. /\ TypeOK /\ FinishedNamesOwn /\ UNCHANGED <<live, text, stored>> /\ Due(i) /\ i # NoFile
      /\ RowInv(i) /\ job[i] \in JobRow /\ worker[w].id = NoFile
      /\ \A j \in Ids \ {i} : file'[j] = Failed(j) /\ job'[j] = GivenUp(j)
      /\ file' = [j \in Ids |-> file'[j]] /\ job' = [j \in Ids |-> job'[j]]
      /\ file'[i] = [file[i] EXCEPT !.st = "extracting"]
      /\ job'[i] = [job[i] EXCEPT !.st = "leased", !.lease = w, !.ripe = FALSE, !.attempts = @ + 1]
  <2>1. WorkInv(w) /\ TypeOK /\ FinishedNamesOwn /\ RowInv(i) /\ Due(i)
    BY Parts DEF Claim
  <2>2. worker[w].id = NoFile
    BY <2>1 DEF Claim, WorkInv, StackInv
  <2> QED BY <2>1, <2>2 DEF Claim, TypeOK
<1>1. file[i] \in FileRow /\ file[i].st \in {"uploaded", "extracting"} /\ file[i].rev = 1
  <2>1. file[i] \in FileRow \cup {NoRow} /\ file[i].st \in {"uploaded", "extracting"}
    BY <1>0 DEF TypeOK, Due
  <2>2. file[i] \in FileRow
    BY <2>1 DEF NoRow
  <2> QED BY <1>0, <2>1, <2>2 DEF FileRow, RowInv, TextInv, Stored
<1>2. job[i].attempts \in Nat /\ job[i].attempts < MaxAttempts /\ job[i].attempts + 1 \in 0..MaxAttempts
    BY <1>0 DEF JobRow, Due
<1>3. /\ file'[i] \in FileRow /\ file'[i].st = "extracting" /\ file'[i].rev = 1
      /\ file'[i].serial = file[i].serial /\ file'[i].ent = file[i].ent /\ file'[i].doc = file[i].doc
  <2>1. file'[i] \in FileRow
    BY <1>0, <1>1 DEF FileRow
  <2> QED BY <1>0, <1>1, <2>1 DEF FileRow
<1>4. /\ job'[i].st = "leased" /\ job'[i].lease = w /\ job'[i].ripe = FALSE
      /\ job'[i].attempts = job[i].attempts + 1 /\ job'[i].hurt = job[i].hurt
    BY <1>0 DEF JobRow
<1>5. job'[i] \in JobRow
  <2>1. job'[i] = [st |-> "leased", lease |-> w, ripe |-> FALSE, attempts |-> job[i].attempts + 1,
                   hurt |-> job[i].hurt]
    BY <1>0 DEF JobRow
  <2>2. job[i].hurt \in BOOLEAN
    BY <1>0 DEF JobRow
  <2> QED BY <1>2, <2>1, <2>2 DEF JobRow
<1>6. /\ worker' = [worker EXCEPT ![w] = worker'[w]] /\ worker' \in [Workers -> WorkerRow]
      /\ worker'[w].pc = "read" /\ worker'[w].id = i /\ worker'[w].rev = 1
      /\ worker'[w].attempts = job[i].attempts + 1 /\ worker'[w].lease = "valid"
  <2>1. worker'[w] = [Idle EXCEPT !.pc = "read", !.id = i, !.rev = file[i].rev,
                                  !.attempts = job[i].attempts + 1]
        /\ worker' = [worker EXCEPT ![w] = worker'[w]]
    BY <1>0 DEF Claim, TypeOK
  <2>2. worker'[w] = [pc |-> "read", id |-> i, rev |-> 1, attempts |-> job[i].attempts + 1,
                      lease |-> "valid", doc |-> NoFile, serial |-> 0, pages |-> NoText,
                      left |-> 0, dead |-> FALSE]
    BY <1>1, <2>1 DEF Idle
  <2>3. NoText \in Texts /\ 0 \in 0..MaxFiles /\ 0 \in 0..PagesPerTurn /\ 1 \in 0..2
    BY EmptySeq DEF NoText, Texts
  <2>4. worker'[w] \in WorkerRow
    BY <1>2, <2>2, <2>3 DEF WorkerRow
  <2>5. worker' \in [Workers -> WorkerRow]
    BY <1>0, <2>1, <2>4 DEF TypeOK
  <2>6. /\ worker'[w].pc = "read" /\ worker'[w].id = i /\ worker'[w].rev = 1
        /\ worker'[w].attempts = job[i].attempts + 1 /\ worker'[w].lease = "valid"
    BY <2>2
  <2> QED BY <2>1, <2>5, <2>6
<1>7. /\ upload' \in [Uploads -> SessionRow \cup {NoSession, Gone}]
      /\ \A u \in Uploads : upload'[u].st = "done" => upload'[u] = upload[u]
    BY SweptFacts DEF Claim
<1>8. \A v \in Workers \ {w} : worker'[v] = worker[v]
    BY <1>0, <1>6 DEF TypeOK
<1>9. RowInv(i)'
  <2>1. StatusFits(file[i], job[i])'
    BY <1>3, <1>4 DEF StatusFits
  <2>2. TextInv(i)'
    BY <1>0, <1>1, <1>3 DEF RowInv, TextInv, Stored
  <2>3. TurnsInv(i)'
    <3> SUFFICES ASSUME ~job[i].hurt PROVE TurnsInv(i)'
        BY <1>4 DEF TurnsInv
    <3>1. Len(text[i]) = job[i].attempts * PagesPerTurn
      <4>1. CASE job[i].st = "pending"
        BY <1>0, <4>1 DEF RowInv, TurnsInv
      <4>2. CASE job[i].st = "leased"
        BY <1>0, <4>2, Deferred DEF Due
      <4> QED BY <1>0, <4>1, <4>2 DEF Due
    <3>2. (job[i].attempts + 1) - 1 = job[i].attempts
        BY <1>2
    <3>3. Running(i)'
        BY <1>4, <1>6 DEF Running, At
    <3>4. \A v \in Workers : Holds(v)' /\ worker'[v].id = i => v = w
        BY <1>4 DEF Holds
    <3> QED BY <1>0, <1>4, <1>6, <3>1, <3>2, <3>3, <3>4 DEF TurnsInv, Transcribing
  <2>4. i \in Stored' => file'[i].ent \in live'
    BY <1>0, <1>1, <1>3 DEF RowInv, Stored
  <2> QED BY <1>3, <2>1, <2>2, <2>3, <2>4 DEF RowInv
<1>10. \A j \in Ids \ {i} :
          /\ RowInv(j)'
          /\ file'[j] \in FileRow \cup {NoRow} /\ job'[j] \in JobRow
          /\ file'[j].st = "none" <=> file[j].st = "none"
          /\ file[j].st # "none" => file'[j].serial = file[j].serial
  <2> TAKE j \in Ids \ {i}
  <2>1. \A v \in Workers : worker[v].id = j \/ worker'[v].id = j => worker'[v] = worker[v]
    BY <1>0, <1>6, <1>8
  <2> QED BY <1>0, <2>1, GivenUpRow
<1>11. ASSUME NEW v \in Workers PROVE WorkInv(v)'
  <2>1. CASE v = w
    <3>1. StackInv(w)'
        BY <1>0, <1>6 DEF StackInv, At, Transcribing
    <3>2. ClaimInv(w)'
        BY <1>3, <1>4, <1>6 DEF ClaimInv, At, Transcribing
    <3> QED BY <2>1, <3>1, <3>2 DEF WorkInv
  <2>2. CASE v # w
    <3>1. \A k \in Ids : \/ file'[k] = Failed(k) /\ job'[k] = GivenUp(k)
                         \/ job'[k].lease # v
        BY <1>0, <1>4, <2>2
    <3> QED BY <1>0, <1>8, <2>2, <3>1, GivenUpWork
  <2> QED BY <2>1, <2>2
<1>12. TypeOK'
  <2>1. file' \in [Ids -> FileRow \cup {NoRow}]
    BY <1>0, <1>3, <1>10
  <2>2. job' \in [Ids -> JobRow]
    BY <1>0, <1>5, <1>10
  <2> QED BY <1>0, <1>6, <1>7, <2>1, <2>2 DEF TypeOK
<1>13. FinishedNamesOwn'
  <2>1. \A j \in Ids : /\ file'[j].st = "none" <=> file[j].st = "none"
                       /\ file[j].st # "none" => file'[j].serial = file[j].serial
    BY <1>1, <1>3, <1>10
  <2> QED BY <1>0, <1>7, <2>1 DEF FinishedNamesOwn, Stored
<1> QED BY <1>9, <1>10, <1>11, <1>12, <1>13, Parts DEF Inductive, RowInv, WorkInv, StatusMatchesJob, OnlyFailuresKill, ParentInv, Stored

-----------------------------------------------------------------------------
(* The theorems *)

\* At the start there is no file.
LEMMA InitHolds == Init => Inductive
<1> SUFFICES ASSUME Init PROVE Inductive
    OBVIOUS
<1> USE AttachmentsAssumption
<1>1. NoJob \in JobRow /\ NoText \in Texts /\ Idle \in WorkerRow
  <2>1. NoText \in Texts /\ 0 \in 0..MaxFiles /\ 0 \in 0..PagesPerTurn /\ 0 \in 0..2 /\ 0 \in 0..MaxAttempts
    BY EmptySeq DEF NoText, Texts
  <2> QED BY <2>1 DEF NoJob, JobRow, Idle, WorkerRow
<1>2. TypeOK
    BY <1>1 DEF Init, TypeOK
<1>3. FinishedNamesOwn
    BY DEF Init, FinishedNamesOwn, NoSession
<1>4. \A w \in Workers : WorkInv(w) /\ ~Holds(w)
    BY DEF Init, WorkInv, StackInv, Holds, Idle, At, Transcribing
<1>5. ASSUME NEW i \in Ids PROVE RowInv(i)
  <2>1. file[i].st = "none" /\ job[i].st = "none" /\ text[i] = NoText /\ i \notin Stored
    BY DEF Init, NoRow, NoJob, Stored
  <2>2. StatusFits(file[i], job[i]) /\ TextInv(i)
    BY <2>1 DEF StatusFits, TextInv
  <2>3. TurnsInv(i)
    BY <1>4, <2>1 DEF TurnsInv
  <2> QED BY <2>1, <2>2, <2>3 DEF RowInv
<1> QED BY <1>2, <1>3, <1>4, <1>5, Parts

\* Every step keeps the invariant.
LEMMA NextKeeps == Inductive /\ [Next]_vars => Inductive'
<1> SUFFICES ASSUME Inductive, [Next]_vars PROVE Inductive'
    OBVIOUS
<1>1. CASE UNCHANGED vars
  <2>1. live \subseteq Entities /\ upload \in [Uploads -> SessionRow \cup {NoSession, Gone}]
    BY Parts DEF TypeOK
  <2> QED BY <1>1, <2>1, SessionsKeep DEF vars
<1>2. CASE ClientStep
    BY <1>2, SessionSteps, CreateKeeps, FinishKeeps, ReaderKeeps, DeleteFileKeeps, DeleteEntityKeeps
       DEF ClientStep
<1>3. ASSUME NEW w \in Workers, WorkerStep(w) \/ Crash(w) \/ Overrun(w) PROVE Inductive'
    BY <1>3, ClaimNothingKeeps, ClaimKeeps, ReadKeeps, OpenKeeps, RenderKeeps, OcrKeeps,
       CheckpointKeeps, PublishKeeps, RetryKeeps, CrashKeeps, OverrunKeeps DEF WorkerStep
<1>4. ASSUME NEW i \in Ids, TimerPasses(i) PROVE Inductive'
    BY <1>4, TimerKeeps
<1>5. ASSUME NEW u \in Uploads, Lapse(u) PROVE Inductive'
    BY <1>5, SessionSteps
<1> QED BY <1>1, <1>2, <1>3, <1>4, <1>5 DEF Next

\* Sessions, files, jobs, checkpoints and the stacks of all workers always fit
\* together, whatever crashes, outlives its lease or is deleted on the way.
THEOREM FilesInvariant == Spec => []Inductive
<1>1. Init => Inductive
    BY InitHolds
<1>2. Inductive /\ [Next]_vars => Inductive'
    BY NextKeeps
<1> QED BY <1>1, <1>2, PTL DEF Spec

\* The tables and stacks keep their shape, no job is claimed more than
\* MAX_ATTEMPTS times and no turn pays for more than MAX_PAGES_PER_TURN pages.
THEOREM FilesTyped == Spec => []TypeOK
<1>1. Inductive => TypeOK
    BY DEF Inductive
<1> QED BY <1>1, FilesInvariant, PTL

\* The status users see and the job workers obey never disagree.
THEOREM StatusAndJob == Spec => []StatusMatchesJob
<1>1. Inductive => StatusMatchesJob
    BY DEF Inductive
<1> QED BY <1>1, FilesInvariant, PTL

\* The id a repeated finish_upload answers with is the session's own file.
THEOREM FinishedOwn == Spec => []FinishedNamesOwn
<1>1. Inductive => FinishedNamesOwn
    BY DEF Inductive
<1> QED BY <1>1, FilesInvariant, PTL

\* The turns suffice: for every page limit that is MAX_ATTEMPTS times
\* MAX_PAGES_PER_TURN, a file is given up only after a failed attempt.
THEOREM TurnsSuffice == Spec => []OnlyFailuresKill
<1>1. Inductive => OnlyFailuresKill
    BY DEF Inductive
<1> QED BY <1>1, FilesInvariant, PTL

-----------------------------------------------------------------------------
(* The tables implement FileLife *)

Revision(i) == IF file[i].st = "none" THEN 0 ELSE file[i].rev

\* The start of the refinement.
LEMMA InitLives == Init => Life!Init
<1> SUFFICES ASSUME Init PROVE Life!Init
    OBVIOUS
<1>1. \A i \in Ids : file[i].st = "none"
    BY DEF Init, NoRow
<1>2. Phases = [i \in Ids |-> "none"]
    BY <1>1 DEF Phases, Phase
<1>3. Revisions = [i \in Ids |-> 0]
    BY <1>1 DEF Revisions
<1>4. Wholes = {}
    BY <1>1 DEF Wholes
<1> QED BY <1>2, <1>3, <1>4 DEF Life!Init

\* Every published file is whole.
LEMMA ReadyWhole ==
    /\ Inductive => Wholes = {i \in Ids : file[i].st = "ready"}
    /\ Inductive' => Wholes' = {i \in Ids : file'[i].st = "ready"}
BY DEF Inductive, TextInv, Wholes

\* What a step does to the files S, seen from FileLife, when it leaves the others.
LEMMA SomeEnd ==
    ASSUME Inductive, Inductive', NEW S \in SUBSET Ids, NEW end \in {"failed", "none"},
           end = "failed" => \A i \in S : Phase(i) = "stored",
           \A i \in S : Phase(i)' = end /\ Revision(i)' = IF end = "none" THEN 0 ELSE Revision(i),
           \A i \in Ids \ S : Phase(i)' = Phase(i) /\ Revision(i)' = Revision(i)
    PROVE Life!Next
<1>1. \A i \in Ids : (file[i].st = "ready" <=> Phase(i) = "ready")
                     /\ (file'[i].st = "ready" <=> Phase(i)' = "ready")
    BY DEF Phase
<1>2. Wholes = {i \in Ids : Phase(i) = "ready"} /\ Wholes' = {i \in Ids : Phase(i)' = "ready"}
    BY <1>1, ReadyWhole
<1>3. Wholes' = Wholes \ S
    BY <1>2
<1>4. Phases' = [i \in Ids |-> IF i \in S THEN end ELSE Phases[i]]
    BY DEF Phases
<1>5. Revisions = [i \in Ids |-> Revision(i)] /\ Revisions' = [i \in Ids |-> Revision(i)']
    BY DEF Revisions, Revision
<1>6. CASE end = "none"
  <2>1. Revisions' = [i \in Ids |-> IF i \in S THEN 0 ELSE Revisions[i]]
    BY <1>5, <1>6
  <2>2. Life!Remove(S)
    BY <1>3, <1>4, <1>6, <2>1 DEF Life!Remove
  <2> QED BY <2>2 DEF Life!Next
<1>7. CASE end = "failed"
  <2>1. Revisions' = Revisions
    BY <1>5, <1>7
  <2>2. Wholes' = Wholes
    BY <1>2, <1>3, <1>7
  <2>3. \A i \in S : Phases[i] = "stored"
    BY <1>7 DEF Phases
  <2>4. Life!GiveUp(S)
    BY <1>4, <1>7, <2>1, <2>2, <2>3 DEF Life!GiveUp
  <2> QED BY <2>4 DEF Life!Next
<1> QED BY <1>6, <1>7

\* One file is stored or published.
LEMMA OneMoves ==
    ASSUME Inductive, Inductive', NEW i \in Ids,
           \/ file[i].st = "none" /\ file'[i].st = "uploaded" /\ file'[i].rev = 1
           \/ file[i].st = "extracting" /\ file'[i].st = "ready" /\ file'[i].rev = 2,
           \A j \in Ids \ {i} : file'[j] = file[j]
    PROVE Life!Next
<1>1. \A j \in Ids \ {i} : Phase(j)' = Phase(j) /\ Revision(j)' = Revision(j)
    BY DEF Phase, Revision
<1>2. Revisions = [j \in Ids |-> Revision(j)] /\ Revisions' = [j \in Ids |-> Revision(j)']
    BY DEF Revisions, Revision
<1>3. Phases = [j \in Ids |-> Phase(j)] /\ Phases' = [j \in Ids |-> Phase(j)']
    BY DEF Phases
<1>4. Wholes = {j \in Ids : file[j].st = "ready"} /\ Wholes' = {j \in Ids : file'[j].st = "ready"}
    BY ReadyWhole
<1>5. CASE file[i].st = "none" /\ file'[i].st = "uploaded" /\ file'[i].rev = 1
  <2>1. Phase(i) = "none" /\ Phase(i)' = "stored" /\ Revision(i)' = 1
    BY <1>5 DEF Phase, Revision
  <2>2. Phases' = [Phases EXCEPT ![i] = "stored"] /\ Phases[i] = "none"
    BY <1>1, <1>3, <2>1
  <2>3. Revisions' = [Revisions EXCEPT ![i] = 1]
    BY <1>1, <1>2, <2>1
  <2>4. Wholes' = Wholes
    BY <1>4, <1>5
  <2>5. Life!Store(i)
    BY <2>2, <2>3, <2>4 DEF Life!Store
  <2> QED BY <2>5 DEF Life!Next
<1>6. CASE file[i].st = "extracting" /\ file'[i].st = "ready" /\ file'[i].rev = 2
  <2>1. Phase(i) = "stored" /\ Phase(i)' = "ready" /\ Revision(i)' = 2
    BY <1>6 DEF Phase, Revision
  <2>2. Phases' = [Phases EXCEPT ![i] = "ready"] /\ Phases[i] = "stored"
    BY <1>1, <1>3, <2>1
  <2>3. Revisions' = [Revisions EXCEPT ![i] = 2]
    BY <1>1, <1>2, <2>1
  <2>4. Wholes' = Wholes \cup {i}
    BY <1>4, <1>6
  <2>5. Life!Publish(i)
    BY <2>2, <2>3, <2>4 DEF Life!Publish
  <2> QED BY <2>5 DEF Life!Next
<1> QED BY <1>5, <1>6

\* Every step stores a file, publishes one, gives some up, removes some, or
\* changes nothing that a reader of files relies on.
LEMMA NextLives == Inductive /\ Inductive' /\ [Next]_vars => [Life!Next]_<<Phases, Revisions, Wholes>>
<1> SUFFICES ASSUME Inductive, Inductive', [Next]_vars
             PROVE Life!Next \/ UNCHANGED <<Phases, Revisions, Wholes>>
    OBVIOUS
<1>0. file \in [Ids -> FileRow \cup {NoRow}] /\ \A i \in Ids : file[i] \in FileRow \cup {NoRow}
    BY Parts DEF TypeOK
<1>1. CASE UNCHANGED file
  <2>1. Wholes' = Wholes
    BY <1>1, ReadyWhole
  <2>2. Phases' = Phases /\ Revisions' = Revisions
    BY <1>1 DEF Phases, Phase, Revisions
  <2> QED BY <2>1, <2>2
<1>2. ASSUME NEW i \in Ids, NEW e, NEW n, NEW d, StoreRow(i, e, n, d) PROVE Life!Next
  <2>1. file[i].st = "none"
    BY <1>2, AttachmentsAssumption DEF StoreRow, IsNextId, Stored
  <2>2. file'[i].st = "uploaded" /\ file'[i].rev = 1 /\ \A j \in Ids \ {i} : file'[j] = file[j]
    BY <1>0, <1>2 DEF StoreRow
  <2> QED BY <2>1, <2>2, OneMoves
<1>3. ASSUME NEW S \in SUBSET Ids, NEW E, RemoveRows(S, E) PROVE Life!Next
  <2>1. \A i \in S : Phase(i)' = "none" /\ Revision(i)' = 0
    BY <1>3 DEF RemoveRows, Phase, Revision, NoRow
  <2>2. \A i \in Ids \ S : Phase(i)' = Phase(i) /\ Revision(i)' = Revision(i)
    BY <1>3 DEF RemoveRows, Phase, Revision
  <2> QED BY <2>1, <2>2, SomeEnd
\* Files are given up by claim_due.
<1>4. ASSUME NEW T \in SUBSET Ids, \A j \in T : file'[j] = Failed(j),
             \A j \in Ids \ T : /\ ~Spent(j)
                                /\ file[j].st \in {"uploaded", "extracting"}
                                /\ file'[j] = [file[j] EXCEPT !.st = "extracting"]
      PROVE Life!Next
  <2>0. PICK S \in SUBSET Ids : S = {j \in T : Spent(j)}
    OBVIOUS
  <2>1. ASSUME NEW j \in S
        PROVE Phase(j) = "stored" /\ Phase(j)' = "failed" /\ Revision(j)' = Revision(j)
    <3>1. Spent(j) /\ j \in Ids /\ RowInv(j) /\ file'[j] = Failed(j)
        BY <1>4, <2>0, Parts
    <3>2. file[j].st = "extracting" /\ file[j] \in FileRow
      <4>1. file[j].st \in {"none", "uploaded", "extracting", "ready", "error"}
        BY <1>0, <3>1 DEF FileRow, NoRow
      <4>2. file[j].st = "extracting"
        BY <3>1, <4>1 DEF RowInv, StatusFits, Spent
      <4> QED BY <1>0, <3>1, <4>2 DEF NoRow
    <3>3. file'[j] = [file[j] EXCEPT !.st = "error"]
        BY <3>1 DEF Failed
    <3>4. file'[j].st = "error" /\ file'[j].rev = file[j].rev
        BY <3>2, <3>3 DEF FileRow
    <3> QED BY <3>2, <3>4 DEF Phase, Revision
  <2>2. ASSUME NEW j \in Ids \ S PROVE Phase(j)' = Phase(j) /\ Revision(j)' = Revision(j)
    <3>1. CASE j \in T
      <4>1. file'[j] = file[j]
        BY <1>4, <2>0, <2>2, <3>1 DEF Failed
      <4> QED BY <4>1 DEF Phase, Revision
    <3>2. CASE j \notin T
      <4>1. file[j].st \in {"uploaded", "extracting"} /\ file'[j] = [file[j] EXCEPT !.st = "extracting"]
        BY <1>4, <2>2, <3>2
      <4>2. file[j] \in FileRow
        BY <1>0, <4>1 DEF NoRow
      <4>3. file'[j].st = "extracting" /\ file'[j].rev = file[j].rev
        BY <4>1, <4>2 DEF FileRow
      <4> QED BY <4>1, <4>3 DEF Phase, Revision
    <3> QED BY <3>1, <3>2
  <2>3. /\ \A j \in S : Phase(j) = "stored" /\ Phase(j)' = "failed" /\ Revision(j)' = Revision(j)
        /\ \A j \in Ids \ S : Phase(j)' = Phase(j) /\ Revision(j)' = Revision(j)
    BY <2>1, <2>2
  <2> QED BY <2>3, SomeEnd
<1>5. ASSUME NEW w \in Workers, ClaimNothing(w) PROVE Life!Next
  <2>1. \A j \in Ids : file'[j] = Failed(j)
    BY <1>5 DEF ClaimNothing
  <2> QED BY <2>1, <1>4
<1>6. ASSUME NEW w \in Workers, NEW i \in Ids, Claim(w, i) PROVE Life!Next
  <2>1. /\ \A j \in Ids \ {i} : file'[j] = Failed(j)
        /\ file'[i] = [file[i] EXCEPT !.st = "extracting"]
        /\ file[i].st \in {"uploaded", "extracting"}
    BY <1>6 DEF Claim, Due
  <2>2. ~Spent(i)
    <3>1. job[i].attempts \in Nat /\ job[i].attempts < MaxAttempts
        BY <1>6, Parts, AttachmentsAssumption DEF TypeOK, JobRow, Claim, Due
    <3> QED BY <3>1, AttachmentsAssumption DEF Spent
  <2>3. PICK T \in SUBSET Ids : T = Ids \ {i}
    OBVIOUS
  <2> QED BY <2>1, <2>2, <2>3, <1>4
<1>7. ASSUME NEW w \in Workers, Publish(w) PROVE Life!Next \/ UNCHANGED <<Phases, Revisions, Wholes>>
  <2>1. CASE UNCHANGED rows
    BY <1>1, <2>1 DEF rows
  <2>2. CASE Passes(w) /\ file' = [file EXCEPT ![worker[w].id].st = "ready", ![worker[w].id].rev = @ + 1]
    <3>0. Holds(w)
        BY <2>2 DEF Passes, Fenced
    <3>1. /\ worker[w].id \in Ids /\ file[worker[w].id] \in FileRow
          /\ file[worker[w].id].st = "extracting" /\ file[worker[w].id].rev = 1
        BY <3>0, HolderFacts, BusyFacts
    <3>a. PICK i \in Ids : i = worker[w].id
        BY <3>1
    <3>2. /\ file'[i] = [file[i] EXCEPT !.st = "ready", !.rev = @ + 1]
          /\ \A j \in Ids \ {i} : file'[j] = file[j]
        BY <1>0, <2>2, <3>a
    <3>3. file'[i].st = "ready" /\ file'[i].rev = 2
        BY <3>1, <3>a, <3>2 DEF FileRow
    <3> QED BY <3>1, <3>a, <3>2, <3>3, OneMoves
  <2> QED BY <1>7, <2>1, <2>2 DEF Publish
<1>8. ASSUME NEW w \in Workers, Retry(w) PROVE Life!Next \/ UNCHANGED <<Phases, Revisions, Wholes>>
  <2>1. CASE UNCHANGED file
    BY <1>1, <2>1
  <2>2. CASE Passes(w) /\ Retried(w)
    <3>0. Holds(w)
        BY <2>2 DEF Passes, Fenced
    <3>1. /\ worker[w].id \in Ids /\ file[worker[w].id] \in FileRow
          /\ file[worker[w].id].st = "extracting"
        BY <3>0, HolderFacts, BusyFacts
    <3>a. PICK i \in Ids : i = worker[w].id
        BY <3>1
    <3>2. PICK fs \in {"error", "extracting"} : file' = [file EXCEPT ![i].st = fs]
        BY <2>2, <3>a DEF Retried
    <3>3. file'[i].st = fs /\ file'[i].rev = file[i].rev /\ \A j \in Ids \ {i} : file'[j] = file[j]
        BY <1>0, <3>1, <3>a, <3>2 DEF FileRow
    <3>4. \A j \in Ids \ {i} : Phase(j)' = Phase(j) /\ Revision(j)' = Revision(j)
        BY <3>3 DEF Phase, Revision
    <3>5. CASE fs = "error"
      <4>1. Phase(i) = "stored" /\ Phase(i)' = "failed" /\ Revision(i)' = Revision(i)
        BY <3>1, <3>a, <3>3, <3>5 DEF Phase, Revision
      <4>2. PICK S \in SUBSET Ids : S = {i}
        OBVIOUS
      <4> QED BY <3>4, <4>1, <4>2, SomeEnd
    <3>6. CASE fs = "extracting"
      <4>1. Phase(i)' = Phase(i) /\ Revision(i)' = Revision(i)
        BY <3>1, <3>a, <3>3, <3>6 DEF Phase, Revision
      <4>2. PICK S \in SUBSET Ids : S = {}
        OBVIOUS
      <4> QED BY <3>4, <4>1, <4>2, SomeEnd
    <3> QED BY <3>5, <3>6
  <2> QED BY <1>8, <2>1, <2>2 DEF Retry
<1>9. ASSUME NEW w \in Workers,
             \/ Read(w) \/ Open(w) \/ Render(w) \/ Ocr(w) \/ Checkpoint(w) \/ Crash(w) \/ Overrun(w)
      PROVE UNCHANGED file
    BY <1>9 DEF Read, Open, Render, Ocr, Checkpoint, Crash, Overrun, rows
<1>11. CASE ClientStep
  <2>1. ASSUME NEW u \in Uploads, Cancel(u) PROVE UNCHANGED file
    BY <2>1 DEF Cancel, rows
  <2>2. ASSUME NEW u \in Uploads, NEW e \in Entities, NEW n \in Names, NEW d \in Docs, Begin(u, e, n, d)
        PROVE UNCHANGED file
    BY <2>2 DEF Begin, rows
  <2>3. ASSUME NEW u \in Uploads, NEW b \in Blocks, AppendChunk(u, b) PROVE UNCHANGED file
    BY <2>3 DEF AppendChunk, rows
  <2>4. ASSUME NEW u \in Uploads, NEW i \in Ids, Finish(u, i) PROVE Life!Next
    BY <1>2, <2>4 DEF Finish
  <2>5. ASSUME NEW e \in Entities, DeleteEntity(e) PROVE Life!Next
    <3>1. {i \in Stored : file[i].ent = e} \in SUBSET Ids
        BY DEF Stored
    <3> QED BY <1>3, <2>5, <3>1 DEF DeleteEntity
  <2>6. ASSUME NEW e \in Entities, CreateEntity(e) PROVE UNCHANGED file
    BY <2>6 DEF CreateEntity, rows
  <2>7. ASSUME NEW i \in Ids, DeleteFile(i) PROVE Life!Next
    BY <1>3, <2>7 DEF DeleteFile
  <2>8. ASSUME NEW i \in Ids, NEW e \in Entities, NEW n \in Names, NEW d \in Docs, StoreReader(e, n, d, i)
        PROVE Life!Next
    BY <1>2, <2>8 DEF StoreReader
  <2> QED BY <1>1, <1>11, <2>1, <2>2, <2>3, <2>4, <2>5, <2>6, <2>7, <2>8 DEF ClientStep
<1>12. CASE UNCHANGED vars
    BY <1>1, <1>12 DEF vars
<1>13. ASSUME NEW i \in Ids, TimerPasses(i) PROVE UNCHANGED file
    BY <1>13 DEF TimerPasses
<1>14. ASSUME NEW u \in Uploads, Lapse(u) PROVE UNCHANGED file
    BY <1>14 DEF Lapse, rows
<1> QED BY <1>1, <1>5, <1>6, <1>7, <1>8, <1>9, <1>11, <1>12, <1>13, <1>14 DEF Next, WorkerStep

\* Sessions, leases, checkpoints and retries implement the life of a file: it is
\* published once, whole, with its own text, or given up.
THEOREM ImplementsFileLife == Spec => IsFileLife
<1>1. Inductive /\ Inductive' /\ [Next]_vars => [Life!Next]_<<Phases, Revisions, Wholes>>
    BY NextLives
<1> QED BY <1>1, InitLives, FilesInvariant, PTL DEF Spec, IsFileLife, Life!Spec, Life!vars

-----------------------------------------------------------------------------
(* Sums over finite sets, by least counterexample *)

\* A set of numbers that is not empty has a least one.
LEMMA Least ==
    ASSUME NEW T, T \subseteq Nat, T # {}
    PROVE  \E m \in T : \A k \in T : m <= k
<1> DEFINE less == {ss \in Nat \X Nat : ss[1] < ss[2]}
<1>1. IsWellFoundedOn(less, Nat)
    BY NatLessThanWellFounded DEF OpToRel
<1> HIDE DEF less
<1>2. PICK m \in T : \A k \in T : <<k, m>> \notin less
    BY <1>1, WFMin
<1>3. \A k \in T : ~(k < m)
    BY <1>2 DEF less
<1> QED BY <1>3

\* The function MapThenSumSet adds up with: a set is one of its elements and the
\* rest.
First(s) == CHOOSE x \in s : TRUE
Adding(f, S, g) ==
    g = [s \in SUBSET S |-> IF s = {} THEN 0 ELSE f[First(s)] + g[s \ {First(s)}]]

IsSum(f, S, g) == g \in [SUBSET S -> Nat] /\ Adding(f, S, g)

\* The subsets of a finite set with at most n elements, and adding up those.
Small(S, n) == {s \in SUBSET S : Cardinality(s) <= n}
AddingSmall(f, S, n, g) ==
    /\ g \in [Small(S, n) -> Nat]
    /\ \A s \in Small(S, n) : g[s] = IF s = {} THEN 0 ELSE f[First(s)] + g[s \ {First(s)}]

\* Without one element a finite set has one element less.
LEMMA Rest ==
    ASSUME NEW s, IsFiniteSet(s), NEW x \in s
    PROVE  /\ IsFiniteSet(s \ {x}) /\ Cardinality(s) \in Nat \ {0}
           /\ Cardinality(s \ {x}) = Cardinality(s) - 1
    BY FS_RemoveElement, FS_CardinalityType, FS_EmptySet

\* The element that a sum takes first.
LEMMA FirstIn == ASSUME NEW s, s # {} PROVE First(s) \in s
    BY DEF First

\* Sets of every size can be added up.
LEMMA SmallSums ==
    ASSUME NEW S, IsFiniteSet(S), NEW f, \A x \in S : f[x] \in Nat, NEW n \in Nat
    PROVE  \E g : AddingSmall(f, S, n, g)
<1> DEFINE Bad == {m \in Nat : ~\E g : AddingSmall(f, S, m, g)}
<1> SUFFICES ASSUME Bad # {} PROVE FALSE
    OBVIOUS
<1>1. PICK m \in Bad : \A k \in Bad : m <= k
    BY Least
<1>2. \A s \in SUBSET S : IsFiniteSet(s) /\ Cardinality(s) \in Nat
    BY FS_Subset, FS_CardinalityType
<1>3. CASE m = 0
  <2> DEFINE g == [s \in Small(S, 0) |-> 0]
  <2>1. \A s \in Small(S, 0) : s = {}
    BY <1>2, FS_EmptySet DEF Small
  <2>2. AddingSmall(f, S, 0, g)
    BY <2>1 DEF AddingSmall
  <2> QED BY <1>1, <1>3, <2>2
<1>4. CASE m # 0
  <2>1. m - 1 \in Nat /\ m - 1 \notin Bad
    BY <1>1, <1>4
  <2>2. PICK h : AddingSmall(f, S, m - 1, h)
    BY <2>1
  <2> DEFINE g == [s \in Small(S, m) |-> IF s = {} THEN 0 ELSE f[First(s)] + h[s \ {First(s)}]]
  <2>3. ASSUME NEW s \in Small(S, m), s # {}
        PROVE  First(s) \in S /\ s \ {First(s)} \in Small(S, m - 1) /\ s \ {First(s)} \in Small(S, m)
    <3>1. s \in SUBSET S /\ First(s) \in s /\ Cardinality(s) <= m
        BY <2>3, FirstIn DEF Small
    <3>2. IsFiniteSet(s) /\ Cardinality(s) \in Nat
        BY <1>2, <3>1
    <3>3. Cardinality(s \ {First(s)}) = Cardinality(s) - 1
        BY <3>1, <3>2, Rest
    <3> QED BY <3>1, <3>2, <3>3 DEF Small
  <2>4. \A s \in Small(S, m) : s = {} \/ h[s \ {First(s)}] \in Nat
    BY <2>2, <2>3 DEF AddingSmall
  <2>5. g \in [Small(S, m) -> Nat]
    <3>1. ASSUME NEW s \in Small(S, m)
          PROVE  (IF s = {} THEN 0 ELSE f[First(s)] + h[s \ {First(s)}]) \in Nat
      <4>1. CASE s = {}
        BY <4>1
      <4>2. CASE s # {}
        <5>1. f[First(s)] \in Nat /\ h[s \ {First(s)}] \in Nat
            BY <2>3, <2>4, <4>2
        <5> QED BY <4>2, <5>1
      <4> QED BY <4>1, <4>2
    <3> QED BY <3>1
  <2>6. ASSUME NEW s \in Small(S, m - 1) PROVE s \in Small(S, m) /\ g[s] = h[s]
    <3>1. s \in Small(S, m)
        BY <2>6, <1>2 DEF Small
    <3> QED BY <2>2, <3>1 DEF AddingSmall
  <2>7. \A s \in Small(S, m) : g[s] = IF s = {} THEN 0 ELSE f[First(s)] + g[s \ {First(s)}]
    BY <2>3, <2>6
  <2> HIDE DEF g
  <2> QED BY <1>1, <2>5, <2>7 DEF AddingSmall
<1> QED BY <1>3, <1>4

\* So the sum is what one such function gives.
LEMMA SumsExist ==
    ASSUME NEW S, IsFiniteSet(S), NEW f, \A x \in S : f[x] \in Nat
    PROVE  \E g : IsSum(f, S, g) /\ Total(f, S) = g[S]
<1>1. Cardinality(S) \in Nat
    BY FS_CardinalityType
<1>2. \A s \in SUBSET S : IsFiniteSet(s) /\ Cardinality(s) <= Cardinality(S)
    BY FS_Subset
<1>3. Small(S, Cardinality(S)) = SUBSET S
    BY <1>2 DEF Small
<1>4. PICK h : AddingSmall(f, S, Cardinality(S), h)
    BY <1>1, SmallSums
<1>5. h \in [SUBSET S -> Nat] /\ Adding(f, S, h)
    BY <1>3, <1>4 DEF AddingSmall, Adding
<1> DEFINE g == CHOOSE k : Adding(f, S, k)
<1>6. Adding(f, S, g)
    BY <1>5
<1>7. Total(f, S) = g[S]
    BY DEF Total, MapThenSumSet, MapThenFoldSet, First, Adding
<1> HIDE DEF g
<1>8. g \in [SUBSET S -> Nat]
  <2> DEFINE Bad == {Cardinality(s) : s \in {t \in SUBSET S : g[t] \notin Nat}}
  <2>0. DOMAIN g = SUBSET S /\ g = [s \in SUBSET S |-> g[s]]
    BY <1>6 DEF Adding
  <2> SUFFICES ASSUME Bad # {} PROVE FALSE
    <3>1. ASSUME Bad = {}, NEW s \in SUBSET S PROVE g[s] \in Nat
        BY <3>1
    <3> QED BY <2>0, <3>1
  <2>1. Bad \subseteq Nat
    BY <1>2, FS_CardinalityType
  <2>2. PICK m \in Bad : \A k \in Bad : m <= k
    BY <2>1, Least
  <2>3. PICK s \in SUBSET S : g[s] \notin Nat /\ Cardinality(s) = m
    BY <2>2
  <2>4. s # {}
    BY <1>6, <2>3 DEF Adding
  <2>5. First(s) \in s /\ s \ {First(s)} \in SUBSET S
    BY <2>4, FirstIn
  <2>6. Cardinality(s \ {First(s)}) = m - 1 /\ m \in Nat
    BY <1>2, <2>1, <2>3, <2>5, Rest
  <2>7. g[s \ {First(s)}] \in Nat
    BY <2>2, <2>5, <2>6
  <2>8. g[s] = f[First(s)] + g[s \ {First(s)}]
    BY <1>6, <2>4 DEF Adding
  <2> QED BY <2>3, <2>5, <2>7, <2>8
<1> QED BY <1>6, <1>7, <1>8 DEF IsSum

\* Functions that agree on a set add it up to the same.
LEMMA SumsAgree ==
    ASSUME NEW S, IsFiniteSet(S), NEW f, NEW g, IsSum(f, S, g),
           NEW T, T \subseteq S, NEW e, NEW h, IsSum(e, T, h),
           \A x \in T : e[x] = f[x]
    PROVE  g[T] = h[T]
<1> DEFINE Bad == {Cardinality(s) : s \in {t \in SUBSET T : g[t] # h[t]}}
<1> SUFFICES ASSUME Bad # {} PROVE FALSE
    OBVIOUS
<1>1. \A s \in SUBSET T : IsFiniteSet(s) /\ Cardinality(s) \in Nat
    BY FS_Subset, FS_CardinalityType
<1>b. Bad \subseteq Nat
    BY <1>1
<1>2. PICK m \in Bad : \A k \in Bad : m <= k
    BY <1>b, Least
<1>3. PICK s \in SUBSET T : g[s] # h[s] /\ Cardinality(s) = m
    BY <1>2
<1>4. s # {}
    BY <1>3 DEF IsSum, Adding
<1>5. First(s) \in s /\ s \ {First(s)} \in SUBSET T
    BY <1>4, FirstIn
<1>6. Cardinality(s \ {First(s)}) = m - 1 /\ m \in Nat
    BY <1>1, <1>3, <1>5, Rest
<1>7. g[s \ {First(s)}] = h[s \ {First(s)}]
    BY <1>2, <1>5, <1>6
<1>8. g[s] = f[First(s)] + g[s \ {First(s)}] /\ h[s] = e[First(s)] + h[s \ {First(s)}]
    BY <1>4 DEF IsSum, Adding
<1> QED BY <1>3, <1>5, <1>7, <1>8

\* The sum does not depend on the order: any element can be taken first.
LEMMA AnyFirst ==
    ASSUME NEW S, IsFiniteSet(S), NEW f, \A x \in S : f[x] \in Nat,
           NEW g, IsSum(f, S, g),
           NEW t \in SUBSET S, NEW z \in t, NEW rest, rest = t \ {z}
    PROVE  g[t] = f[z] + g[rest]
<1> DEFINE Order(s) == \A x \in s : g[s] = f[x] + g[s \ {x}]
           Bad == {Cardinality(s) : s \in {q \in SUBSET S : ~Order(q)}}
<1> SUFFICES ASSUME Bad # {} PROVE FALSE
  <2>1. ASSUME Bad = {} PROVE Order(t)
    BY <2>1
  <2> QED BY <2>1
<1>1. \A s \in SUBSET S : IsFiniteSet(s) /\ Cardinality(s) \in Nat
    BY FS_Subset, FS_CardinalityType
<1>b. Bad \subseteq Nat
    BY <1>1
<1>2. PICK m \in Bad : \A k \in Bad : m <= k
    BY <1>b, Least
<1>3. PICK s \in SUBSET S : ~Order(s) /\ Cardinality(s) = m
    BY <1>2
<1>4. PICK x \in s : g[s] # f[x] + g[s \ {x}]
    BY <1>3
<1> DEFINE y == First(s)
           sx == s \ {x}
           sy == s \ {y}
           r == sx \ {y}
<1>5. y \in s
    BY <1>4, FirstIn
<1>6. g[s] = f[y] + g[sy]
    BY <1>4 DEF IsSum, Adding
<1>7. x # y
    BY <1>4, <1>6
<1>8. /\ sx \in SUBSET S /\ sy \in SUBSET S /\ r = sy \ {x} /\ r \in SUBSET S
      /\ y \in sx /\ x \in sy /\ x \in S /\ y \in S
    BY <1>4, <1>5, <1>7
<1>9. Cardinality(sx) = m - 1 /\ Cardinality(sy) = m - 1 /\ m \in Nat
    BY <1>1, <1>3, <1>4, <1>5, Rest
<1>e. g[s] # f[x] + g[sx] /\ r = sx \ {y}
    BY <1>4
<1> HIDE DEF y, sx, sy, r
<1>10. m - 1 \notin Bad
  <2>1. ~(m <= m - 1)
    BY <1>9
  <2> QED BY <1>2, <2>1
<1>11. Order(sx) /\ Order(sy)
    BY <1>8, <1>9, <1>10
<1>12. g[sx] = f[y] + g[r] /\ g[sy] = f[x] + g[r]
    BY <1>8, <1>11, <1>e
<1>13. f[x] \in Nat /\ f[y] \in Nat /\ g[r] \in Nat
    BY <1>8 DEF IsSum
<1> QED BY <1>e, <1>6, <1>12, <1>13

\* Sums of natural numbers.
LEMMA TotalIsNat ==
    ASSUME NEW S, IsFiniteSet(S), NEW f, \A x \in S : f[x] \in Nat
    PROVE  Total(f, S) \in Nat
<1>1. PICK g : IsSum(f, S, g) /\ Total(f, S) = g[S]
    BY SumsExist
<1>2. S \in SUBSET S
    OBVIOUS
<1> QED BY <1>1, <1>2 DEF IsSum

\* Nothing adds up to zero.
LEMMA TotalOfNone == ASSUME NEW f PROVE Total(f, {}) = 0
    BY SumsExist, FS_EmptySet DEF IsSum, Adding

\* Only the values on the set count.
LEMMA TotalOfSame ==
    ASSUME NEW S, IsFiniteSet(S), NEW f, NEW e, \A x \in S : f[x] \in Nat /\ e[x] = f[x]
    PROVE  Total(e, S) = Total(f, S)
<1>1. PICK g : IsSum(f, S, g) /\ Total(f, S) = g[S]
    BY SumsExist
<1>2. PICK h : IsSum(e, S, h) /\ Total(e, S) = h[S]
    BY SumsExist
<1>3. S \subseteq S
    OBVIOUS
<1>4. g[S] = h[S]
    BY <1>1, <1>2, <1>3, SumsAgree
<1> QED BY <1>1, <1>2, <1>4

\* One element more adds its value.
LEMMA TotalWithOne ==
    ASSUME NEW S, IsFiniteSet(S), NEW f, \A y \in S : f[y] \in Nat, NEW x \in S,
           NEW R, R = S \ {x}
    PROVE  Total(f, S) = f[x] + Total(f, R)
<1>1. PICK g : IsSum(f, S, g) /\ Total(f, S) = g[S]
    BY SumsExist
<1>2. IsFiniteSet(R) /\ R \subseteq S /\ \A y \in R : f[y] \in Nat
    BY FS_Subset
<1>3. PICK h : IsSum(f, R, h) /\ Total(f, R) = h[R]
    BY <1>2, SumsExist
<1>4. g[R] = h[R]
    BY <1>1, <1>2, <1>3, SumsAgree
<1>5. S \in SUBSET S
    OBVIOUS
<1>6. g[S] = f[x] + g[R]
    BY <1>1, <1>5, AnyFirst
<1> QED BY <1>1, <1>3, <1>4, <1>6

\* Fewer elements add up to no more.
LEMMA TotalOfFewer ==
    ASSUME NEW S, IsFiniteSet(S), NEW f, \A x \in S : f[x] \in Nat, NEW T \in SUBSET S
    PROVE  Total(f, T) <= Total(f, S)
<1> DEFINE Bad == {Cardinality(R) : R \in {Q \in SUBSET S : T \subseteq Q /\ ~(Total(f, T) <= Total(f, Q))}}
<1> SUFFICES ASSUME Bad # {} PROVE FALSE
    OBVIOUS
<1>1. \A R \in SUBSET S : IsFiniteSet(R) /\ Cardinality(R) \in Nat /\ Total(f, R) \in Nat
    BY FS_Subset, FS_CardinalityType, TotalIsNat
<1>b. Bad \subseteq Nat
    BY <1>1
<1>2. PICK m \in Bad : \A k \in Bad : m <= k
    BY <1>b, Least
<1>3. PICK R \in SUBSET S : T \subseteq R /\ ~(Total(f, T) <= Total(f, R)) /\ Cardinality(R) = m
    BY <1>2
<1>4. R # T
    BY <1>1, <1>3
<1>5. PICK x \in R : x \notin T
    BY <1>3, <1>4
<1> DEFINE rest == R \ {x}
<1>6. Cardinality(rest) = m - 1 /\ m \in Nat /\ rest \in SUBSET S /\ T \subseteq rest
    BY <1>1, <1>3, <1>5, Rest
<1>7. rest = R \ {x}
    OBVIOUS
<1> HIDE DEF rest
<1>8. Total(f, T) <= Total(f, rest)
  <2>1. ~(m <= m - 1)
    BY <1>6
  <2>2. m - 1 \notin Bad
    BY <1>2, <2>1
  <2> QED BY <1>6, <2>2
<1>9. Total(f, R) = f[x] + Total(f, rest)
    BY <1>1, <1>5, <1>7, TotalWithOne
<1>10. f[x] \in Nat /\ Total(f, rest) \in Nat /\ Total(f, T) \in Nat
    BY <1>1, <1>5, <1>6
<1> QED BY <1>3, <1>8, <1>9, <1>10

-----------------------------------------------------------------------------
(* The byte budget *)

\* Docs of stored files and of open sessions have a size.
LEMMA SizesAreNat ==
    ASSUME TypeOK
    PROVE  /\ \A i \in Stored : file[i] \in FileRow /\ file[i].doc \in Docs /\ Held[i] = Size[file[i].doc] /\ Held[i] \in Nat
           /\ \A u \in Reserving : upload[u] \in SessionRow /\ upload[u].doc \in Docs
                 /\ Reserved[u] = Size[upload[u].doc] /\ Reserved[u] \in Nat
<1>1. ASSUME NEW i \in Stored
      PROVE file[i] \in FileRow /\ file[i].doc \in Docs /\ Held[i] = Size[file[i].doc] /\ Held[i] \in Nat
  <2>1. file[i] \in FileRow \cup {NoRow} /\ file[i].st # "none"
    BY DEF TypeOK, Stored
  <2>2. file[i] \in FileRow
    BY <2>1 DEF NoRow
  <2>3. file[i].doc \in Docs
    BY <2>2 DEF FileRow
  <2> QED BY <2>2, <2>3, AttachmentsAssumption DEF Held
<1>2. ASSUME NEW u \in Reserving
      PROVE /\ upload[u] \in SessionRow /\ upload[u].doc \in Docs
            /\ Reserved[u] = Size[upload[u].doc] /\ Reserved[u] \in Nat
  <2>1. upload[u] \in SessionRow \cup {NoSession, Gone} /\ upload[u].st = "open"
    BY DEF TypeOK, Reserving
  <2>2. upload[u] \in SessionRow
    BY <2>1 DEF NoSession, Gone
  <2>3. upload[u].doc \in Docs
    BY <2>2 DEF SessionRow
  <2> QED BY <2>2, <2>3, AttachmentsAssumption DEF Reserved
<1> QED BY <1>1, <1>2

\* The two sums, and that leaving nobody out changes nothing.
LEMMA TakenIs ==
    ASSUME TypeOK, IsFiniteSet(Stored), IsFiniteSet(Reserving)
    PROVE  /\ Total(Held, Stored) \in Nat /\ Total(Reserved, Reserving) \in Nat
           /\ Taken({}) = Total(Held, Stored) + Total(Reserved, Reserving)
<1>1. Reserving \ {} = Reserving
    OBVIOUS
<1> QED BY <1>1, SizesAreNat, TotalIsNat DEF Taken

\* Part of what was added up, with the same values.
LEMMA TotalOfPart ==
    ASSUME NEW S, IsFiniteSet(S), NEW f, \A x \in S : f[x] \in Nat,
           NEW T, T \subseteq S, NEW e, \A x \in T : e[x] = f[x]
    PROVE  IsFiniteSet(T) /\ Total(e, T) \in Nat /\ Total(e, T) <= Total(f, S)
<1>1. IsFiniteSet(T) /\ \A x \in T : f[x] \in Nat /\ e[x] = f[x]
    BY FS_Subset
<1>2. Total(e, T) = Total(f, T) /\ Total(f, T) \in Nat
    BY <1>1, TotalOfSame, TotalIsNat
<1>3. Total(f, T) <= Total(f, S)
    BY TotalOfFewer
<1> QED BY <1>1, <1>2, <1>3

\* All that was added up, and one more.
OneMore(S, z, T) == z \notin S /\ T = S \cup {z}

\* One element more adds its value.
LEMMA TotalOfMore ==
    ASSUME NEW S, IsFiniteSet(S), NEW f, \A x \in S : f[x] \in Nat,
           NEW z, NEW T, OneMore(S, z, T),
           NEW e, \A x \in S : e[x] = f[x], e[z] \in Nat
    PROVE  IsFiniteSet(T) /\ Total(e, T) = Total(f, S) + e[z]
<1>1. IsFiniteSet(T) /\ S = T \ {z} /\ \A x \in T : e[x] \in Nat
    BY FS_AddElement DEF OneMore
<1>2. Total(e, T) = e[z] + Total(e, S)
    BY <1>1, TotalWithOne DEF OneMore
<1>3. Total(e, S) = Total(f, S) /\ Total(f, S) \in Nat
    BY TotalOfSame, TotalIsNat
<1> QED BY <1>1, <1>2, <1>3

\* What is counted after a step.
LEMMA CountedThen ==
    /\ Held' = [i \in Stored' |-> Size[file'[i].doc]]
    /\ Reserved' = [u \in Reserving' |-> Size[upload'[u].doc]]
    /\ Taken({})' = Total(Held', Stored') + Total(Reserved', Reserving')
<1>1. Reserving' \ {} = Reserving'
    OBVIOUS
<1> QED BY <1>1 DEF Held, Reserved, Taken

\* A step after which no file and no reservation is new.
LEMMA FewerKeepsBudget ==
    ASSUME TypeOK, BudgetInv,
           Stored' \subseteq Stored, \A i \in Stored' : file'[i].doc = file[i].doc,
           Reserving' \subseteq Reserving, \A u \in Reserving' : upload'[u].doc = upload[u].doc
    PROVE  BudgetInv'
<1> USE AttachmentsAssumption
<1>0. IsFiniteSet(Stored) /\ IsFiniteSet(Reserving) /\ Taken({}) <= Budget
    BY DEF BudgetInv, BudgetHolds
<1>1. /\ \A i \in Stored : Held[i] \in Nat
      /\ \A u \in Reserving : Reserved[u] \in Nat
    BY SizesAreNat
<1>2. \A i \in Stored' : Held'[i] = Held[i]
    BY SizesAreNat, CountedThen
<1>3. \A u \in Reserving' : Reserved'[u] = Reserved[u]
    BY SizesAreNat, CountedThen
<1>4. /\ IsFiniteSet(Stored') /\ Total(Held', Stored') \in Nat
      /\ Total(Held', Stored') <= Total(Held, Stored)
    BY <1>0, <1>1, <1>2, TotalOfPart
<1>5. /\ IsFiniteSet(Reserving') /\ Total(Reserved', Reserving') \in Nat
      /\ Total(Reserved', Reserving') <= Total(Reserved, Reserving)
    BY <1>0, <1>1, <1>3, TotalOfPart
<1>6. Taken({})' <= Budget
    BY <1>0, <1>4, <1>5, TakenIs, CountedThen
<1> QED BY <1>4, <1>5, <1>6 DEF BudgetInv, BudgetHolds

\* The row that StoreRow adds is new, and the others stay.
LEMMA StoredGrows ==
    ASSUME TypeOK, NEW i \in Ids, NEW e, NEW n, NEW d, StoreRow(i, e, n, d)
    PROVE  /\ i \notin Stored /\ Stored' = Stored \cup {i}
           /\ file'[i].doc = d
           /\ \A j \in Stored : file'[j].doc = file[j].doc
<1>1. i \notin Stored
  <2>1. i \in Nat /\ ~(i < i)
    BY AttachmentsAssumption
  <2> QED BY <2>1 DEF StoreRow, IsNextId
<1>2. /\ file'[i].st = "uploaded" /\ file'[i].doc = d
      /\ \A j \in Ids \ {i} : file'[j] = file[j]
    BY DEF StoreRow, TypeOK
<1>3. Stored' = Stored \cup {i}
    BY <1>2 DEF Stored
<1> QED BY <1>1, <1>2, <1>3 DEF Stored

\* A new reservation was counted before it was made.
LEMMA BeginKeepsBudget ==
    ASSUME TypeOK, BudgetInv,
           NEW u \in Uploads, NEW e \in Entities, NEW n \in Names, NEW d \in Docs, Begin(u, e, n, d)
    PROVE  BudgetInv'
<1> USE AttachmentsAssumption
<1>0. IsFiniteSet(Stored) /\ IsFiniteSet(Reserving) /\ Taken({}) + Size[d] <= Budget
    BY DEF BudgetInv, Begin, InBudget
<1>1. /\ \A i \in Stored : Held[i] \in Nat
      /\ \A v \in Reserving : Reserved[v] \in Nat
    BY SizesAreNat
<1>2. /\ upload'[u].st = "open" /\ ~upload'[u].expired /\ upload'[u].doc = d
      /\ \A v \in Uploads \ {u} : upload'[v] = upload[v]
    BY DEF Begin, TypeOK
<1>3. u \notin Reserving /\ Reserving' = Reserving \cup {u}
    BY <1>2 DEF Reserving, Begin
<1>4. \A v \in Reserving : Reserved'[v] = Reserved[v]
    BY <1>2, <1>3, SizesAreNat, CountedThen DEF Reserving
<1>5. Reserved'[u] = Size[d] /\ Size[d] \in Nat
    BY <1>2, <1>3, CountedThen
<1>6. IsFiniteSet(Reserving') /\ Total(Reserved', Reserving') = Total(Reserved, Reserving) + Size[d]
  <2>1. OneMore(Reserving, u, Reserving')
    BY <1>3 DEF OneMore
  <2>2. Total(Reserved', Reserving') = Total(Reserved, Reserving) + Reserved'[u] /\ IsFiniteSet(Reserving')
    BY <1>0, <1>1, <1>4, <1>5, <2>1, TotalOfMore
  <2> QED BY <1>5, <2>2
<1>7. Stored' = Stored /\ \A i \in Stored' : Held'[i] = Held[i]
    BY CountedThen, SizesAreNat DEF Begin, rows, Stored
<1>8. Total(Held', Stored') = Total(Held, Stored)
    BY <1>0, <1>1, <1>7, TotalOfSame
<1>9. Taken({})' <= Budget
    BY <1>0, <1>6, <1>8, <1>5, TakenIs, CountedThen
<1> QED BY <1>0, <1>6, <1>7, <1>9 DEF BudgetInv, BudgetHolds

\* So was a file that came in one request.
LEMMA ReaderKeepsBudget ==
    ASSUME TypeOK, BudgetInv,
           NEW i \in Ids, NEW e \in Entities, NEW n \in Names, NEW d \in Docs, StoreReader(e, n, d, i)
    PROVE  BudgetInv'
<1> USE AttachmentsAssumption
<1>0. /\ IsFiniteSet(Stored) /\ IsFiniteSet(Reserving) /\ Taken({}) + Size[d] <= Budget
      /\ StoreRow(i, e, n, d)
    BY DEF BudgetInv, StoreReader, InBudget
<1>1. /\ \A j \in Stored : Held[j] \in Nat
      /\ \A v \in Reserving : Reserved[v] \in Nat
    BY SizesAreNat
<1>2. /\ i \notin Stored /\ Stored' = Stored \cup {i} /\ file'[i].doc = d
      /\ \A j \in Stored : file'[j].doc = file[j].doc
    BY <1>0, StoredGrows
<1>3. \A j \in Stored : Held'[j] = Held[j]
    BY <1>2, SizesAreNat, CountedThen
<1>4. Held'[i] = Size[d] /\ Size[d] \in Nat
    BY <1>2, CountedThen
<1>5. IsFiniteSet(Stored') /\ Total(Held', Stored') = Total(Held, Stored) + Size[d]
  <2>1. /\ IsFiniteSet(Stored) /\ \A j \in Stored : Held[j] \in Nat
        /\ OneMore(Stored, i, Stored')
        /\ \A j \in Stored : Held'[j] = Held[j]
        /\ Held'[i] \in Nat
    BY <1>0, <1>1, <1>2, <1>3, <1>4 DEF OneMore
  <2>2. IsFiniteSet(Stored') /\ Total(Held', Stored') = Total(Held, Stored) + Held'[i]
    BY <2>1, TotalOfMore
  <2> QED BY <1>4, <2>2
<1>6. Reserving' = Reserving /\ \A v \in Reserving' : Reserved'[v] = Reserved[v]
    BY CountedThen, SizesAreNat DEF StoreReader, Reserving
<1>7. Total(Reserved', Reserving') = Total(Reserved, Reserving)
    BY <1>0, <1>1, <1>6, TotalOfSame
<1>8. Taken({})' <= Budget
    BY <1>0, <1>4, <1>5, <1>7, TakenIs, CountedThen
<1> QED BY <1>0, <1>5, <1>6, <1>8 DEF BudgetInv, BudgetHolds

\* A session turns its own reservation into a file.
LEMMA FinishKeepsBudget ==
    ASSUME TypeOK, BudgetInv, NEW u \in Uploads, NEW i \in Ids, Finish(u, i)
    PROVE  BudgetInv'
<1> USE AttachmentsAssumption
<1>a. PICK d : d = upload[u].doc
    OBVIOUS
<1>0. /\ IsFiniteSet(Stored) /\ IsFiniteSet(Reserving) /\ u \in Reserving
      /\ Taken({u}) + Size[d] <= Budget
      /\ StoreRow(i, upload[u].ent, upload[u].name, d)
    BY <1>a DEF BudgetInv, Finish, InBudget, Usable, Reserving
<1>1. /\ \A j \in Stored : Held[j] \in Nat
      /\ \A v \in Reserving : Reserved[v] \in Nat
      /\ Size[d] \in Nat
    BY <1>a, <1>0, SizesAreNat
<1>2. /\ i \notin Stored /\ Stored' = Stored \cup {i} /\ file'[i].doc = d
      /\ \A j \in Stored : file'[j].doc = file[j].doc
    BY <1>0, StoredGrows
<1>3. \A j \in Stored : Held'[j] = Held[j]
    BY <1>2, SizesAreNat, CountedThen
<1>4. Held'[i] = Size[d]
    BY <1>2, CountedThen
<1>5. IsFiniteSet(Stored') /\ Total(Held', Stored') = Total(Held, Stored) + Size[d]
  <2>1. /\ IsFiniteSet(Stored) /\ \A j \in Stored : Held[j] \in Nat
        /\ OneMore(Stored, i, Stored')
        /\ \A j \in Stored : Held'[j] = Held[j]
        /\ Held'[i] \in Nat
    BY <1>0, <1>1, <1>2, <1>3, <1>4 DEF OneMore
  <2>2. IsFiniteSet(Stored') /\ Total(Held', Stored') = Total(Held, Stored) + Held'[i]
    BY <2>1, TotalOfMore
  <2> QED BY <1>4, <2>2
<1>6. /\ upload'[u].st = "done"
      /\ \A v \in Uploads \ {u} : upload'[v] = upload[v]
  <2>1. upload[u] \in SessionRow
    BY <1>0, SizesAreNat
  <2> QED BY <2>1 DEF Finish, TypeOK, SessionRow
<1>7. Reserving' = Reserving \ {u}
    BY <1>6 DEF Reserving
<1>8. \A v \in Reserving' : Reserved'[v] = Reserved[v]
    BY <1>6, <1>7, SizesAreNat, CountedThen DEF Reserving
<1>9. /\ IsFiniteSet(Reserving') /\ Reserving' \subseteq Reserving
      /\ \A v \in Reserving' : Reserved[v] \in Nat
    BY <1>0, <1>1, <1>7, FS_Subset
<1>10. Total(Reserved', Reserving') = Total(Reserved, Reserving') /\ Total(Reserved, Reserving') \in Nat
    BY <1>8, <1>9, TotalOfSame, TotalIsNat
<1>11. Taken({u}) = Total(Held, Stored) + Total(Reserved, Reserving')
    BY <1>7 DEF Taken
<1>12. Taken({})' <= Budget
    BY <1>0, <1>1, <1>5, <1>10, <1>11, TakenIs, CountedThen
<1> QED BY <1>5, <1>9, <1>12 DEF BudgetInv, BudgetHolds

\* No row of a step is a new file, and none a new reservation.
OldFiles ==
    \A i \in Ids : file'[i].st # "none" => file[i].st # "none" /\ file'[i].doc = file[i].doc

OldSessions ==
    \A u \in Uploads :
        upload'[u].st = "open" /\ ~upload'[u].expired =>
            /\ upload[u].st = "open" /\ ~upload[u].expired
            /\ upload'[u].doc = upload[u].doc

\* A step that adds no file and no reservation keeps the budget.
LEMMA OldKeepsBudget == TypeOK /\ BudgetInv /\ OldFiles /\ OldSessions => BudgetInv'
<1> SUFFICES ASSUME TypeOK, BudgetInv, OldFiles, OldSessions PROVE BudgetInv'
    OBVIOUS
<1>1. Stored' \subseteq Stored /\ \A i \in Stored' : file'[i].doc = file[i].doc
    BY DEF OldFiles, Stored
<1>2. Reserving' \subseteq Reserving /\ \A u \in Reserving' : upload'[u].doc = upload[u].doc
    BY DEF OldSessions, Reserving
<1> QED BY <1>1, <1>2, FewerKeepsBudget

\* Steps that leave a table alone.
LEMMA SameFiles == UNCHANGED file => OldFiles
    BY DEF OldFiles

\* Sessions that rest are old ones.
LEMMA SameSessions == UNCHANGED upload => OldSessions
    BY DEF OldSessions

\* A client that stores nothing and reserves nothing.
LEMMA ClientTakesNoMore ==
    ASSUME TypeOK
    PROVE  /\ \A u \in Uploads : Cancel(u) \/ Lapse(u) => OldFiles /\ OldSessions
           /\ \A u \in Uploads, b \in Blocks : AppendChunk(u, b) => OldFiles /\ OldSessions
           /\ \A S, E : RemoveRows(S, E) => OldFiles /\ OldSessions
           /\ \A e \in Entities : CreateEntity(e) => OldFiles /\ OldSessions
<1>1. ASSUME NEW u \in Uploads, Cancel(u) PROVE OldFiles /\ OldSessions
    BY <1>1 DEF Cancel, rows, OldFiles, OldSessions, TypeOK, Gone
<1>2. ASSUME NEW u \in Uploads, upload[u].st = "open" PROVE upload[u] \in SessionRow
    BY <1>2 DEF TypeOK, NoSession, Gone
<1>3. ASSUME NEW u \in Uploads, Lapse(u) PROVE OldFiles /\ OldSessions
  <2>1. upload[u] \in SessionRow
    BY <1>2, <1>3 DEF Lapse
  <2>2. upload'[u].expired /\ \A v \in Uploads \ {u} : upload'[v] = upload[v]
    BY <1>3, <2>1 DEF Lapse, TypeOK, SessionRow
  <2> QED BY <1>3, <2>2 DEF Lapse, rows, OldFiles, OldSessions
<1>4. ASSUME NEW u \in Uploads, NEW b \in Blocks, AppendChunk(u, b) PROVE OldFiles /\ OldSessions
  <2>1. upload[u] \in SessionRow /\ upload[u].st = "open" /\ ~upload[u].expired
    BY <1>2, <1>4 DEF AppendChunk, Usable
  <2>2. upload'[u].doc = upload[u].doc /\ \A v \in Uploads \ {u} : upload'[v] = upload[v]
    BY <1>4, <2>1 DEF AppendChunk, TypeOK, SessionRow
  <2> QED BY <1>4, <2>1, <2>2 DEF AppendChunk, rows, OldFiles, OldSessions
<1>5. ASSUME NEW S, NEW E, RemoveRows(S, E) PROVE OldFiles /\ OldSessions
    BY <1>5 DEF RemoveRows, OldFiles, OldSessions, NoRow, Gone
<1>6. ASSUME NEW e \in Entities, CreateEntity(e) PROVE OldFiles /\ OldSessions
    BY <1>6 DEF CreateEntity, rows, OldFiles, OldSessions
<1> QED BY <1>1, <1>3, <1>4, <1>5, <1>6

\* A worker stores nothing, and claim_due only gives reservations back.
LEMMA WorkerTakesNoMore ==
    ASSUME Inductive, NEW w \in Workers, WorkerStep(w)
    PROVE  OldFiles /\ OldSessions
<1>1. file \in [Ids -> FileRow \cup {NoRow}] /\ \A i \in Ids : StatusFits(file[i], job[i])
    BY DEF Inductive, TypeOK, StatusMatchesJob
<1>2. ASSUME NEW i \in Ids, file[i].st # "none", NEW st
      PROVE  [file[i] EXCEPT !.st = st].doc = file[i].doc
  <2>1. file[i] \in FileRow
    BY <1>1, <1>2 DEF NoRow
  <2> QED BY <2>1 DEF FileRow
<1>3. ASSUME NEW i \in Ids
      PROVE  Failed(i).st # "none" => file[i].st # "none" /\ Failed(i).doc = file[i].doc
  <2>1. Spent(i) => file[i].st # "none"
    BY <1>1 DEF Spent, StatusFits
  <2> QED BY <1>2, <2>1 DEF Failed
<1>4. ASSUME upload' = [u \in Uploads |-> Swept(u)] PROVE OldSessions
    BY <1>4 DEF Swept, OldSessions, Gone
<1>5. ASSUME Holds(w) PROVE worker[w].id \in Ids /\ file[worker[w].id] \in FileRow
    BY <1>5, HolderFacts, BusyFacts
<1>6. CASE ClaimNothing(w)
    BY <1>3, <1>4, <1>6 DEF ClaimNothing, OldFiles
<1>7. ASSUME NEW i \in Ids, Claim(w, i) PROVE OldFiles /\ OldSessions
  <2>1. file[i].st # "none"
    BY <1>7 DEF Claim, Due
  <2>2. \A j \in Ids : file'[j] = IF j = i THEN [file[i] EXCEPT !.st = "extracting"] ELSE Failed(j)
    BY <1>7 DEF Claim
  <2>3. ASSUME NEW j \in Ids PROVE file'[j].st # "none" => file[j].st # "none" /\ file'[j].doc = file[j].doc
    <3>1. CASE j = i
      <4>1. file'[j] = [file[i] EXCEPT !.st = "extracting"]
        BY <2>2, <3>1
      <4>2. [file[i] EXCEPT !.st = "extracting"].doc = file[i].doc
        BY <1>2, <2>1
      <4> QED BY <2>1, <3>1, <4>1, <4>2
    <3>2. CASE j # i
        BY <1>3, <2>2, <3>2
    <3> QED BY <3>1, <3>2
  <2>4. OldFiles
    BY <2>3 DEF OldFiles
  <2> QED BY <1>4, <1>7, <2>4 DEF Claim
<1>8. CASE Publish(w)
  <2>1. CASE Passes(w) /\ file' = [file EXCEPT ![worker[w].id].st = "ready", ![worker[w].id].rev = @ + 1]
    <3> DEFINE i == worker[w].id
    <3>1. i \in Ids /\ file[i] \in FileRow
        BY <1>5, <2>1 DEF Passes, Fenced
    <3>2. file'[i].doc = file[i].doc /\ file[i].st # "none" /\ \A j \in Ids \ {i} : file'[j] = file[j]
        BY <1>1, <2>1, <3>1 DEF FileRow
    <3> HIDE DEF i
    <3> QED BY <1>8, <3>1, <3>2, SameSessions DEF OldFiles, Publish
  <2> QED BY <1>8, <2>1, SameFiles, SameSessions DEF Publish, rows
<1>9. CASE Retry(w)
  <2>1. CASE Passes(w) /\ Retried(w)
    <3> DEFINE i == worker[w].id
    <3>1. i \in Ids /\ file[i] \in FileRow
        BY <1>5, <2>1 DEF Passes, Fenced
    <3>2. PICK st : file' = [file EXCEPT ![i].st = st]
        BY <2>1 DEF Retried
    <3>3. file'[i].doc = file[i].doc /\ file[i].st # "none" /\ \A j \in Ids \ {i} : file'[j] = file[j]
        BY <1>1, <3>1, <3>2 DEF FileRow
    <3> HIDE DEF i
    <3> QED BY <1>9, <3>1, <3>3, SameSessions DEF OldFiles, Retry
  <2> QED BY <1>9, <2>1, SameFiles, SameSessions DEF Retry
<1>10. ASSUME Read(w) \/ Open(w) \/ Render(w) \/ Ocr(w) \/ Checkpoint(w)
       PROVE  UNCHANGED <<file, upload>>
    BY <1>10 DEF Read, Open, Render, Ocr, Checkpoint, rows
<1> QED BY <1>6, <1>7, <1>8, <1>9, <1>10, SameFiles, SameSessions DEF WorkerStep

\* At the start nothing is stored.
LEMMA InitBudget == Init => BudgetInv
<1> SUFFICES ASSUME Init PROVE BudgetInv
    OBVIOUS
<1>1. Stored = {} /\ Reserving = {}
    BY DEF Init, Stored, Reserving, NoRow, NoSession
<1>2. Reserving \ {} = {}
    BY <1>1
<1>3. Taken({}) = 0
    BY <1>1, <1>2, TotalOfNone DEF Taken
<1> QED BY <1>1, <1>3, FS_EmptySet, AttachmentsAssumption DEF BudgetInv, BudgetHolds

\* Every step keeps the budget.
LEMMA NextBudget == Inductive /\ BudgetInv /\ [Next]_vars => BudgetInv'
<1> SUFFICES ASSUME Inductive, BudgetInv, [Next]_vars PROVE BudgetInv'
    OBVIOUS
<1>0. TypeOK
    BY DEF Inductive
<1>1. CASE ClientStep
  <2>1. ASSUME NEW e \in Entities, DeleteEntity(e) PROVE BudgetInv'
    BY <1>0, <2>1, ClientTakesNoMore, OldKeepsBudget DEF DeleteEntity
  <2>2. ASSUME NEW i \in Ids, DeleteFile(i) PROVE BudgetInv'
    BY <1>0, <2>2, ClientTakesNoMore, OldKeepsBudget DEF DeleteFile
  <2>3. ASSUME NEW u \in Uploads, Cancel(u) PROVE BudgetInv'
    BY <1>0, <2>3, ClientTakesNoMore, OldKeepsBudget
  <2>4. ASSUME NEW u \in Uploads, NEW b \in Blocks, AppendChunk(u, b) PROVE BudgetInv'
    BY <1>0, <2>4, ClientTakesNoMore, OldKeepsBudget
  <2>5. ASSUME NEW e \in Entities, CreateEntity(e) PROVE BudgetInv'
    BY <1>0, <2>5, ClientTakesNoMore, OldKeepsBudget
  <2> QED BY <1>0, <1>1, <2>1, <2>2, <2>3, <2>4, <2>5, BeginKeepsBudget, FinishKeepsBudget,
             ReaderKeepsBudget DEF ClientStep
<1>2. ASSUME NEW w \in Workers, WorkerStep(w) PROVE BudgetInv'
    BY <1>0, <1>2, WorkerTakesNoMore, OldKeepsBudget
<1>3. ASSUME NEW u \in Uploads, Lapse(u) PROVE BudgetInv'
    BY <1>0, <1>3, ClientTakesNoMore, OldKeepsBudget
<1>4. ASSUME UNCHANGED <<file, upload>> PROVE BudgetInv'
    BY <1>0, <1>4, SameFiles, SameSessions, OldKeepsBudget
<1>5. ASSUME NEW w \in Workers, Crash(w) \/ Overrun(w) PROVE BudgetInv'
    BY <1>4, <1>5 DEF Crash, Overrun
<1>6. ASSUME NEW i \in Ids, TimerPasses(i) PROVE BudgetInv'
    BY <1>4, <1>6 DEF TimerPasses
<1>7. CASE UNCHANGED vars
    BY <1>4, <1>7 DEF vars
<1> QED BY <1>1, <1>2, <1>3, <1>5, <1>6, <1>7 DEF Next

\* The bytes of stored files and the reservations of live sessions together
\* never exceed the budget of the workspace: check_budget counts the session
\* that is being finished once, and a lapsed reservation can be given away
\* because finish_upload refuses it.
THEOREM BudgetIsKept == Spec => []BudgetHolds
<1>1. Init => BudgetInv
    BY InitBudget
<1>2. Inductive /\ BudgetInv /\ [Next]_vars => BudgetInv'
    BY NextBudget
<1>3. BudgetInv => BudgetHolds
    BY DEF BudgetInv
<1> QED BY <1>1, <1>2, <1>3, FilesInvariant, PTL DEF Spec

===============================================================================
