----------------------------- MODULE OutboxProofs -----------------------------
(* The outbox keeps its promises for any number of subscriptions, events,   *)
(* workers, attempts and faults.                                            *)
EXTENDS Outbox, TLAPS

\* Init: every row is absent and every worker idle.
LEMMA InitInductive == Init => Inductive
<1> SUFFICES ASSUME Init PROVE Inductive
    OBVIOUS
<1> USE OutboxAssumption DEF Init, NoRow, Idle, At
<1>1. TypeOK
    BY DEF TypeOK, OutboxRow, WorkerRow, NoPatch, Outcomes
<1>2. UnbornInv /\ SerialInv /\ AttemptsInv /\ AttemptsBounded
    BY DEF UnbornInv, SerialInv, AttemptsInv, AttemptsBounded
<1>3. \A w \in Workers : At(w, "idle")
    OBVIOUS
<1> QED BY <1>1, <1>2, <1>3 DEF Inductive

\* Adding, patching or deleting a subscription leaves the outbox alone.
LEMMA AdminKeeps == Inductive /\ AdminStep => Inductive'
<1> SUFFICES ASSUME Inductive, AdminStep PROVE Inductive'
    OBVIOUS
<1>1. /\ UNCHANGED <<events, row, worker, late, applied, faults>>
      /\ sub' \in [Subs -> Rows \cup {Unused, Gone}]
      /\ DOMAIN admin' = Admins
      /\ \A a \in Admins : admin'[a].at = "write" => admin'[a].s \in Subs /\ admin'[a].new \in Rows
  <2>1. CASE \E s \in Subs : Delete(s) \/ \E new \in Settings : Add(s, new)
    BY <2>1, OutboxAssumption DEF Inductive, TypeOK, Delete, Add, remote
  <2>2. ASSUME NEW a \in Admins, PatchWrite(a) PROVE <1>1
    BY <2>2, OutboxAssumption DEF Inductive, TypeOK, PatchWrite, NoPatch, remote
  <2>3. ASSUME NEW a \in Admins, NEW s \in Subs, NEW p \in Patches, PatchRead(a, s, p)
        PROVE <1>1
    <3>1. sub[s] \in Rows
        BY <2>3 DEF Inductive, TypeOK, PatchRead, Exists
    <3>2. Merged(sub[s], p) \in Rows
        BY <3>1, OutboxAssumption
    <3> QED BY <2>3, <3>2 DEF Inductive, TypeOK, PatchRead, remote
  <2> QED BY <2>1, <2>2, <2>3 DEF AdminStep
<1> QED BY <1>1 DEF Inductive, TypeOK, UnbornInv, ClaimInv, SerialInv, AttemptsInv,
           AttemptsBounded, At, Holds, Running, Taken

\* A new event brings rows only for itself, where there were none.
LEMMA CommitKeeps == ASSUME NEW e \in Kinds PROVE Inductive /\ Commit(e) => Inductive'
<1> SUFFICES ASSUME Inductive, Commit(e) PROVE Inductive'
    OBVIOUS
<1> USE OutboxAssumption
<1>0. TypeOK /\ UnbornInv
    BY DEF Inductive
<1>1. /\ events' \in Seq(Kinds) /\ Len(events') = Len(events) + 1 /\ Len(events') <= MaxEvents
      /\ UNCHANGED <<sub, admin, worker, late, applied, faults>>
      /\ Len(events) \in Nat
    BY <1>0 DEF TypeOK, Commit, policy, remote
<1>2. \A d \in Deliveries :
        \/ row'[d] = row[d]
        \/ d[1] = Len(events) + 1 /\ row[d].st = "none" /\ row'[d] = FirstRow
    BY <1>0, <1>1 DEF Commit, UnbornInv, Deliveries
<1>3. TypeOK'
    BY <1>0, <1>1, <1>2 DEF TypeOK, OutboxRow, Commit, FirstRow
<1>4. UnbornInv'
    BY <1>0, <1>1, <1>2 DEF UnbornInv, Deliveries
<1>5. \A w \in Workers : ~At(w, "idle")' => ClaimInv(w)'
    BY <1>1, <1>2 DEF Inductive, ClaimInv, At, Holds, Taken
<1>6. SerialInv'
    BY <1>2 DEF Inductive, SerialInv, FirstRow
<1>7. AttemptsInv' /\ AttemptsBounded'
  <2>1. \A d \in Deliveries : row'[d] = row[d] => (Running(d) <=> Running(d)')
    BY <1>1 DEF Running, At
  <2>2. 0 < MaxAttempts /\ 0 <= MaxAttempts + faults
    BY <1>0 DEF TypeOK
  <2>3. FirstRow.st = "pending" /\ FirstRow.attempts = 0
    BY DEF FirstRow
  <2>4. AttemptsInv'
    BY <1>1, <1>2, <2>1, <2>2, <2>3 DEF Inductive, AttemptsInv
  <2>5. AttemptsBounded'
    BY <1>1, <1>2, <2>2, <2>3 DEF Inductive, AttemptsBounded
  <2> QED BY <2>4, <2>5
<1>8. \A d \in late' : row'[d].st # "none"
    BY <1>0, <1>1, <1>2 DEF Inductive, TypeOK
<1> QED BY <1>3, <1>4, <1>5, <1>6, <1>7, <1>8 DEF Inductive

\* claim_due takes a row that is due, and no other row of its subscription is
\* under an unexpired lease.
LEMMA ClaimKeeps ==
    ASSUME NEW w \in Workers, NEW d \in Deliveries PROVE Inductive /\ Claim(w, d) => Inductive'
<1> SUFFICES ASSUME Inductive, Claim(w, d) PROVE Inductive'
    OBVIOUS
<1> USE OutboxAssumption
<1>0. TypeOK
    BY DEF Inductive
<1>1. UNCHANGED <<sub, admin, events, late, applied, faults>>
    BY DEF Claim, policy, remote
<1>2. /\ row'[d] = [st |-> "leased", lease |-> w, ripe |-> FALSE, attempts |-> row[d].attempts + 1]
      /\ \A e \in Deliveries \ {d} : row'[e] = row[e]
      /\ DOMAIN row' = Deliveries /\ row' = [e \in Deliveries |-> row'[e]]
    BY <1>0 DEF Claim, TypeOK
<1>3. /\ worker'[w] = [pc |-> "lookup", d |-> d, over |-> FALSE,
                       attempts |-> row[d].attempts + 1, outcome |-> "none", to |-> Unused]
      /\ \A v \in Workers \ {w} : worker'[v] = worker[v]
      /\ worker' = [v \in Workers |-> worker'[v]]
    BY <1>0 DEF Claim, TypeOK, Idle
<1>4. /\ row[d].st \in {"pending", "leased"} /\ row[d].ripe /\ At(w, "idle")
      /\ \A e \in Deliveries : e[2] = d[2] => ~(row[e].st = "leased" /\ ~row[e].ripe)
      /\ row[d].attempts \in Nat
    BY <1>0 DEF Claim, Due, Busy, TypeOK, OutboxRow
<1>5. row[d].attempts + 1 <= MaxAttempts + faults
    BY <1>0, <1>4 DEF Inductive, AttemptsInv, TypeOK
<1>6. TypeOK'
  <2>1. row'[d] \in OutboxRow
    BY <1>0, <1>2, <1>4, <1>5 DEF TypeOK, OutboxRow
  <2>2. worker'[w] \in WorkerRow
    BY <1>3, <1>4 DEF WorkerRow
  <2>3. row' \in [Deliveries -> OutboxRow]
    BY <1>0, <1>2, <2>1 DEF TypeOK
  <2>4. worker' \in [Workers -> WorkerRow]
    BY <1>0, <1>3, <2>2 DEF TypeOK
  <2> QED BY <1>0, <1>1, <2>3, <2>4 DEF TypeOK
<1>7. UnbornInv'
    BY <1>1, <1>2, <1>4 DEF Inductive, UnbornInv
<1>8. ASSUME NEW v \in Workers, ~At(v, "idle")' PROVE ClaimInv(v)'
  <2>1. CASE v = w
    <3>1. Holds(v)' /\ ~At(v, "settle")' /\ worker'[v].d = d
        BY <2>1, <1>2, <1>3 DEF At, Holds
    <3>2. worker'[v].attempts = row'[d].attempts /\ worker'[v].over = row'[d].ripe /\ row'[d].st # "none"
        BY <2>1, <1>2, <1>3
    <3> QED BY <3>1, <3>2 DEF ClaimInv
  <2>2. CASE v # w
    <3>1. ClaimInv(v) /\ worker'[v] = worker[v]
        BY <1>3, <1>8, <2>2 DEF Inductive, At
    <3>2. CASE worker[v].d = d
      <4>1. worker[v].over
        BY <3>1, <3>2, <1>4 DEF ClaimInv
      <4>2. ~Holds(v)' /\ row'[d].st # "none"
        BY <3>1, <3>2, <1>2, <2>2 DEF Holds
      <4> QED BY <3>1, <3>2, <4>1, <4>2, <1>1 DEF ClaimInv, At, Taken
    <3>3. CASE worker[v].d # d
        BY <3>1, <3>3, <1>1, <1>2 DEF ClaimInv, Holds, At, Taken
    <3> QED BY <3>2, <3>3
  <2> QED BY <2>1, <2>2
<1>9. SerialInv'
    BY <1>2, <1>4 DEF Inductive, SerialInv
<1>10. AttemptsInv'
  <2> SUFFICES ASSUME NEW e \in Deliveries
               PROVE /\ row'[e].st \in {"none", "pending"} => row'[e].attempts < MaxAttempts
                     /\ row'[e].st = "leased" /\ (row'[e].ripe \/ ~Running(e)')
                        => row'[e].attempts < MaxAttempts + faults'
    BY DEF AttemptsInv
  <2>1. CASE e = d
    <3>1. Running(d)'
        BY <1>2, <1>3 DEF Running, At
    <3> QED BY <2>1, <3>1, <1>2
  <2>2. CASE e # d
    <3>1. Running(e) => Running(e)'
        BY <2>2, <1>2, <1>3, <1>4 DEF Running, At
    <3> QED BY <2>2, <3>1, <1>1, <1>2 DEF Inductive, AttemptsInv
  <2> QED BY <2>1, <2>2
<1>11. AttemptsBounded'
    BY <1>1, <1>2, <1>5 DEF Inductive, AttemptsBounded
<1>12. ASSUME NEW e \in late' PROVE row'[e].st # "none"
  <2>1. e \in Deliveries /\ row[e].st # "none"
    BY <1>0, <1>1, <1>12 DEF Inductive, TypeOK
  <2> QED BY <1>2, <2>1
<1> QED BY <1>6, <1>7, <1>8, <1>9, <1>10, <1>11, <1>12 DEF Inductive

\* The receiver has exactly one more delivery after it takes one.
LEMMA TakeAdds ==
    ASSUME TypeOK, NEW d \in Deliveries, Take(d)
    PROVE /\ applied' \in [Subs -> Seq(1..MaxEvents)]
          /\ \A e \in Deliveries : Taken(e)' <=> Taken(e) \/ e = d
<1> USE OutboxAssumption
<1>0. d[1] \in 1..MaxEvents /\ d[2] \in Subs /\ applied \in [Subs -> Seq(1..MaxEvents)]
    BY DEF TypeOK, Deliveries
<1>1. CASE Taken(d)
    BY <1>0, <1>1 DEF Take, Taken
<1>2. CASE ~Taken(d)
  <2>1. /\ applied' = [applied EXCEPT ![d[2]] = Append(applied[d[2]], d[1])]
        /\ applied[d[2]] \in Seq(1..MaxEvents)
    BY <1>0, <1>2 DEF Take
  <2>2. applied' \in [Subs -> Seq(1..MaxEvents)]
    BY <1>0, <2>1
  <2>3. ASSUME NEW e \in Deliveries PROVE Taken(e)' <=> Taken(e) \/ e = d
    <3>1. CASE e[2] # d[2]
        BY <1>0, <2>1, <3>1 DEF Taken, Deliveries
    <3>2. CASE e[2] = d[2]
      <4>1. e = d <=> e[1] = d[1]
        BY <3>2 DEF Deliveries
      <4>2. applied'[e[2]] = Append(applied[e[2]], d[1])
        BY <1>0, <2>1, <3>2
      <4> DEFINE q == applied[e[2]]
      <4>3. /\ q \in Seq(1..MaxEvents)
            /\ DOMAIN Append(q, d[1]) = DOMAIN q \cup {Len(q) + 1}
            /\ \A i \in DOMAIN q : Append(q, d[1])[i] = q[i]
            /\ Append(q, d[1])[Len(q) + 1] = d[1]
        BY <1>0, <2>1, <3>2
      <4> QED BY <4>1, <4>2, <4>3 DEF Taken
    <3> QED BY <3>1, <3>2
  <2> QED BY <2>2, <2>3
<1> QED BY <1>1, <1>2

\* Steps that leave the rows alone and move one worker on within its claim.
LEMMA WorkerMoves ==
    ASSUME Inductive, NEW w \in Workers, ~At(w, "idle"),
           UNCHANGED <<sub, admin, events, row, faults>>,
           worker' \in [Workers -> WorkerRow],
           \A v \in Workers \ {w} : worker'[v] = worker[v],
           worker'[w].pc # "idle",
           worker'[w].d = worker[w].d,
           worker'[w].over = worker[w].over,
           worker'[w].attempts = worker[w].attempts,
           applied' \in [Subs -> Seq(1..MaxEvents)],
           \A d \in Deliveries : Taken(d) => Taken(d)',
           worker'[w].pc = "settle" /\ worker'[w].outcome = "delivered" => Taken(worker[w].d)',
           late' \subseteq late \cup {worker[w].d}
    PROVE Inductive'
<1>0. TypeOK /\ ClaimInv(w)
    BY DEF Inductive
<1>1. TypeOK'
    BY <1>0 DEF TypeOK, ClaimInv
<1>2. \A v \in Workers : ~At(v, "idle")' => ClaimInv(v)'
  <2> SUFFICES ASSUME NEW v \in Workers, ~At(v, "idle")' PROVE ClaimInv(v)'
    OBVIOUS
  <2>1. CASE v = w
    BY <1>0, <2>1 DEF ClaimInv, Holds, At
  <2>2. CASE v # w
    BY <2>2 DEF Inductive, ClaimInv, Holds, At
  <2> QED BY <2>1, <2>2
<1>3. UnbornInv' /\ SerialInv' /\ AttemptsBounded'
    BY DEF Inductive, UnbornInv, SerialInv, AttemptsBounded
<1>4. \A d \in Deliveries : Running(d) => Running(d)'
    BY DEF Running, At
<1>5. AttemptsInv'
    BY <1>4 DEF Inductive, AttemptsInv
<1>6. \A d \in late' : row'[d].st # "none"
    BY <1>0 DEF Inductive, ClaimInv
<1> QED BY <1>1, <1>2, <1>3, <1>5, <1>6 DEF Inductive

\* An answer moves the worker to its write-back and changes nothing of its claim.
LEMMA AnsweredMoves ==
    ASSUME TypeOK, NEW w \in Workers, NEW o \in Outcomes, Answered(w, o)
    PROVE /\ worker' \in [Workers -> WorkerRow]
          /\ \A v \in Workers \ {w} : worker'[v] = worker[v]
          /\ worker'[w].pc = "settle" /\ worker'[w].outcome = o
          /\ worker'[w].d = worker[w].d /\ worker'[w].over = worker[w].over
          /\ worker'[w].attempts = worker[w].attempts
<1>1. worker \in [Workers -> WorkerRow]
    BY DEF TypeOK
<1>2. /\ worker'[w] = [worker[w] EXCEPT !.pc = "settle", !.outcome = o, !.to = Unused]
      /\ \A v \in Workers \ {w} : worker'[v] = worker[v]
      /\ worker' = [v \in Workers |-> worker'[v]]
    BY <1>1 DEF Answered
<1>3. worker[w] \in WorkerRow
    BY <1>1
<1>4. worker'[w] \in WorkerRow
    BY <1>2, <1>3 DEF WorkerRow
<1>5. worker' \in [Workers -> WorkerRow]
    BY <1>1, <1>2, <1>4
<1>6. /\ worker'[w].pc = "settle" /\ worker'[w].outcome = o
      /\ worker'[w].d = worker[w].d /\ worker'[w].over = worker[w].over
      /\ worker'[w].attempts = worker[w].attempts
    BY <1>2, <1>3 DEF WorkerRow
<1> QED BY <1>2, <1>5, <1>6

\* The subscription is looked up; the row is not touched.
LEMMA LookupKeeps == ASSUME NEW w \in Workers PROVE Inductive /\ Lookup(w) => Inductive'
<1> SUFFICES ASSUME Inductive, Lookup(w) PROVE Inductive'
    OBVIOUS
<1>0. TypeOK /\ ~At(w, "idle") /\ ClaimInv(w)
    BY DEF Inductive, Lookup, At
<1>1. UNCHANGED <<sub, admin, events, row, faults, late, applied>>
    BY DEF Lookup, policy, remote
<1>2. worker[w].d[2] \in Subs
    BY <1>0 DEF ClaimInv, Deliveries
<1>3. /\ worker' \in [Workers -> WorkerRow] /\ worker'[w].pc # "idle"
      /\ \A v \in Workers \ {w} : worker'[v] = worker[v]
      /\ worker'[w].d = worker[w].d /\ worker'[w].over = worker[w].over
      /\ worker'[w].attempts = worker[w].attempts
      /\ worker'[w].pc = "settle" => worker'[w].outcome # "delivered"
  <2>1. CASE Answered(w, "discarded")
    BY <1>0, <2>1, AnsweredMoves DEF Outcomes
  <2>2. CASE /\ Exists(worker[w].d[2])
             /\ worker' = [worker EXCEPT ![w].pc = "send", ![w].to = sub[worker[w].d[2]]]
    <3>1. worker[w] \in WorkerRow /\ sub[worker[w].d[2]] \in Rows
        BY <1>0, <1>2, <2>2 DEF TypeOK, Exists
    <3>2. /\ worker'[w] = [worker[w] EXCEPT !.pc = "send", !.to = sub[worker[w].d[2]]]
          /\ \A v \in Workers \ {w} : worker'[v] = worker[v]
          /\ worker' = [v \in Workers |-> worker'[v]]
        BY <1>0, <2>2 DEF TypeOK
    <3>3. worker'[w] \in WorkerRow /\ worker'[w].pc = "send" /\ worker'[w].d = worker[w].d
          /\ worker'[w].over = worker[w].over /\ worker'[w].attempts = worker[w].attempts
        BY <3>1, <3>2 DEF WorkerRow
    <3>4. worker' \in [Workers -> WorkerRow]
        BY <1>0, <3>2, <3>3 DEF TypeOK
    <3> QED BY <3>2, <3>3, <3>4
  <2> QED BY <2>1, <2>2 DEF Lookup
<1>5. applied' \in [Subs -> Seq(1..MaxEvents)] /\ \A d \in Deliveries : Taken(d) => Taken(d)'
    BY <1>0, <1>1 DEF TypeOK, Taken
<1> QED BY <1>0, <1>1, <1>3, <1>5, WorkerMoves

\* The request: whatever comes back, the receiver has what it acknowledged.
LEMMA SendKeeps == ASSUME NEW w \in Workers PROVE Inductive /\ Send(w) => Inductive'
<1> SUFFICES ASSUME Inductive, Send(w) PROVE Inductive'
    OBVIOUS
<1>0. TypeOK /\ ~At(w, "idle") /\ ClaimInv(w) /\ worker[w].d \in Deliveries
    BY DEF Inductive, Send, Post, At, ClaimInv
<1>1. UNCHANGED <<sub, admin, events, row, faults>>
    BY DEF Send, Post, policy
<1>2. PICK o \in Outcomes : Answered(w, o)
    BY DEF Send, Post, Outcomes
<1>3. /\ worker' \in [Workers -> WorkerRow]
      /\ \A v \in Workers \ {w} : worker'[v] = worker[v]
      /\ worker'[w].pc = "settle" /\ worker'[w].outcome = o
      /\ worker'[w].d = worker[w].d /\ worker'[w].over = worker[w].over
      /\ worker'[w].attempts = worker[w].attempts
    BY <1>0, <1>2, AnsweredMoves
<1>4. Take(worker[w].d) \/ UNCHANGED applied
    BY DEF Send, Post, remote
<1>5. /\ applied' \in [Subs -> Seq(1..MaxEvents)]
      /\ \A d \in Deliveries : Taken(d) => Taken(d)'
  <2>1. CASE Take(worker[w].d)
    BY <1>0, <2>1, TakeAdds
  <2>2. CASE UNCHANGED applied
    BY <1>0, <2>2 DEF TypeOK, Taken
  <2> QED BY <1>4, <2>1, <2>2
<1>6. o = "delivered" => Taken(worker[w].d)'
  <2> SUFFICES ASSUME o = "delivered" PROVE Taken(worker[w].d)'
    OBVIOUS
  <2>1. CASE Take(worker[w].d)
    <3>1. \A d \in Deliveries : Taken(d)' <=> Taken(d) \/ d = worker[w].d
        BY <1>0, <2>1, TakeAdds
    <3>2. worker'[w].d \in Deliveries /\ worker'[w].d = worker[w].d
        BY <1>0, <1>3
    <3> QED BY <3>1, <3>2
  <2>2. ASSUME NEW p \in {"refused", "retryable", "fatal", "failed"}, Answered(w, p) PROVE FALSE
    <3>1. p \in Outcomes
        BY DEF Outcomes
    <3>2. worker'[w].outcome = p
        BY <1>0, <2>2, <3>1, AnsweredMoves
    <3> QED BY <1>3, <3>2
  <2> QED BY <2>1, <2>2 DEF Send, Post
<1>7. late' \subseteq late \cup {worker[w].d}
    BY DEF Send, Post, remote
<1> QED BY <1>0, <1>1, <1>3, <1>5, <1>6, <1>7, WorkerMoves

\* complete and retry: only the newest claim writes, and a row that goes back to
\* pending has attempts left.
LEMMA SettleKeeps == ASSUME NEW w \in Workers PROVE Inductive /\ Settle(w) => Inductive'
<1> SUFFICES ASSUME Inductive, Settle(w) PROVE Inductive'
    OBVIOUS
<1> USE OutboxAssumption
<1> DEFINE d == worker[w].d
<1>0. TypeOK /\ ~At(w, "idle") /\ ClaimInv(w) /\ d \in Deliveries
    BY DEF Inductive, Settle, At, ClaimInv
<1>1. UNCHANGED <<sub, admin, events, late, applied, faults>>
    BY DEF Settle, policy, remote
<1>2. /\ worker'[w] = Idle
      /\ \A v \in Workers \ {w} : worker'[v] = worker[v]
      /\ worker' \in [Workers -> WorkerRow]
  <2>1. Idle \in WorkerRow
    BY DEF Idle, WorkerRow
  <2> QED BY <1>0, <2>1 DEF Settle, TypeOK
<1>3. At(w, "idle")'
    BY <1>2 DEF At, Idle
<1>4. CASE Holds(w) /\ row' = [row EXCEPT ![d] = Settled(w)]
  <2>0. row[d] \in OutboxRow
    BY <1>0 DEF TypeOK
  <2>1. /\ row'[d] = Settled(w)
        /\ \A e \in Deliveries \ {d} : row'[e] = row[e]
        /\ row' = [e \in Deliveries |-> row'[e]]
    BY <1>0, <1>4 DEF TypeOK
  <2>2. /\ Settled(w) \in OutboxRow
        /\ Settled(w).st \in {"done", "dead", "pending"}
        /\ Settled(w).attempts = row[d].attempts
        /\ Settled(w).st = "pending" => ~Dead(w)
    BY <2>0 DEF Settled, OutboxRow
  <2>3. Settled(w).st = "pending" => row[d].attempts < MaxAttempts
    BY <1>0, <1>4, <2>0, <2>2 DEF Dead, ClaimInv, OutboxRow
  <2>4. TypeOK'
    <3>1. row' \in [Deliveries -> OutboxRow]
        BY <1>0, <2>1, <2>2 DEF TypeOK
    <3> QED BY <1>0, <1>1, <1>2, <3>1 DEF TypeOK
  <2>5. UnbornInv'
    BY <1>0, <1>1, <1>4, <2>1 DEF Inductive, UnbornInv, ClaimInv
  <2>6. ASSUME NEW v \in Workers, ~At(v, "idle")' PROVE ClaimInv(v)'
    <3>1. v # w /\ ClaimInv(v) /\ worker'[v] = worker[v]
        BY <1>2, <1>3, <2>6 DEF Inductive, At
    <3>2. CASE worker[v].d = d
      <4>1. worker[v].over
        BY <1>4, <3>1, <3>2 DEF ClaimInv, Holds
      <4>2. ~Holds(v)' /\ row'[d].st # "none"
        BY <2>1, <2>2, <3>1, <3>2 DEF Holds
      <4> QED BY <1>1, <3>1, <3>2, <4>1, <4>2 DEF ClaimInv, At, Taken
    <3>3. CASE worker[v].d # d
        BY <1>1, <2>1, <3>1, <3>3 DEF ClaimInv, Holds, At, Taken
    <3> QED BY <3>2, <3>3
  <2>7. SerialInv'
    BY <2>1, <2>2 DEF Inductive, SerialInv
  <2>8. AttemptsInv'
    <3> SUFFICES ASSUME NEW e \in Deliveries
                 PROVE /\ row'[e].st \in {"none", "pending"} => row'[e].attempts < MaxAttempts
                       /\ row'[e].st = "leased" /\ (row'[e].ripe \/ ~Running(e)')
                          => row'[e].attempts < MaxAttempts + faults'
        BY DEF AttemptsInv
    <3>1. CASE e = d
        BY <2>1, <2>2, <2>3, <3>1
    <3>2. CASE e # d
      <4>1. Running(e) => Running(e)'
        BY <1>2, <2>1, <3>2 DEF Running, At
      <4> QED BY <1>1, <2>1, <3>2, <4>1 DEF Inductive, AttemptsInv
    <3> QED BY <3>1, <3>2
  <2>9. AttemptsBounded'
    BY <1>1, <2>1, <2>2 DEF Inductive, AttemptsBounded
  <2>10. ASSUME NEW e \in late' PROVE row'[e].st # "none"
    <3>1. e \in Deliveries /\ row[e].st # "none"
        BY <1>0, <1>1, <2>10 DEF Inductive, TypeOK
    <3> QED BY <2>1, <2>2, <3>1
  <2> QED BY <2>4, <2>5, <2>6, <2>7, <2>8, <2>9, <2>10 DEF Inductive
<1>5. CASE (Holds(w) => worker[w].over) /\ UNCHANGED row
  <2>1. TypeOK'
    BY <1>0, <1>1, <1>2, <1>5 DEF TypeOK
  <2>2. \A v \in Workers : ~At(v, "idle")' => ClaimInv(v)'
    BY <1>1, <1>2, <1>3, <1>5 DEF Inductive, ClaimInv, Holds, At, Taken
  <2>3. UnbornInv' /\ SerialInv' /\ AttemptsBounded' /\ \A e \in late' : row'[e].st # "none"
    BY <1>1, <1>5 DEF Inductive, UnbornInv, SerialInv, AttemptsBounded
  <2>4. AttemptsInv'
    <3>1. ASSUME NEW e \in Deliveries, row[e].st = "leased", row[e].ripe \/ ~Running(e)'
          PROVE row[e].ripe \/ ~Running(e)
      <4>1. CASE e = d /\ row[e].lease = w
        BY <1>0, <1>5, <3>1, <4>1 DEF ClaimInv, Holds
      <4>2. CASE ~(e = d /\ row[e].lease = w)
        BY <1>2, <1>5, <3>1, <4>2 DEF Running, At
      <4> QED BY <4>1, <4>2
    <3> QED BY <1>1, <1>5, <3>1 DEF Inductive, AttemptsInv
  <2> QED BY <2>1, <2>2, <2>3, <2>4 DEF Inductive
<1> QED BY <1>4, <1>5 DEF Settle

\* A crash leaves the row leased and pays for the attempt with a fault.
LEMMA CrashKeeps == ASSUME NEW w \in Workers PROVE Inductive /\ Crash(w) => Inductive'
<1> SUFFICES ASSUME Inductive, Crash(w) PROVE Inductive'
    OBVIOUS
<1> USE OutboxAssumption
<1>0. TypeOK
    BY DEF Inductive
<1>1. /\ UNCHANGED <<sub, admin, events, row, late, applied>>
      /\ faults \in Nat /\ faults' = faults + 1 /\ faults' \in 0..MaxFaults
    BY <1>0 DEF Crash, Fault, policy, remote, TypeOK
<1>2. /\ worker'[w] = Idle
      /\ \A v \in Workers \ {w} : worker'[v] = worker[v]
      /\ worker' \in [Workers -> WorkerRow]
  <2>1. Idle \in WorkerRow
    BY DEF Idle, WorkerRow
  <2> QED BY <1>0, <2>1 DEF Crash, TypeOK
<1>3. TypeOK'
    BY <1>0, <1>1, <1>2 DEF TypeOK
<1>4. At(w, "idle")'
    BY <1>2 DEF At, Idle
<1>5. \A v \in Workers : ~At(v, "idle")' => ClaimInv(v)'
    BY <1>1, <1>2, <1>4 DEF Inductive, ClaimInv, Holds, At, Taken
<1>6. UnbornInv' /\ SerialInv' /\ \A e \in late' : row'[e].st # "none"
    BY <1>1 DEF Inductive, UnbornInv, SerialInv
<1>7. \A e \in Deliveries : row[e].attempts \in Nat /\ row[e].attempts < MaxAttempts + faults'
    BY <1>0, <1>1 DEF Inductive, AttemptsBounded, TypeOK, OutboxRow
<1>8. AttemptsInv' /\ AttemptsBounded'
    BY <1>1, <1>7 DEF Inductive, AttemptsInv, AttemptsBounded
<1> QED BY <1>3, <1>5, <1>6, <1>8 DEF Inductive

\* The delay of a row passes, or a lease whose worker is gone.
LEMMA TimerKeeps == ASSUME NEW d \in Deliveries PROVE Inductive /\ TimerPasses(d) => Inductive'
<1> SUFFICES ASSUME Inductive, TimerPasses(d) PROVE Inductive'
    OBVIOUS
<1> USE OutboxAssumption
<1>0. TypeOK /\ row[d] \in OutboxRow
    BY DEF Inductive, TypeOK
<1>1. UNCHANGED <<sub, admin, events, worker, late, applied, faults>>
    BY DEF TimerPasses, policy, remote
<1>2. /\ row'[d] = [row[d] EXCEPT !.ripe = TRUE]
      /\ \A e \in Deliveries \ {d} : row'[e] = row[e]
      /\ row' = [e \in Deliveries |-> row'[e]]
    BY <1>0 DEF TimerPasses, TypeOK
<1>3. /\ row'[d].st = row[d].st /\ row'[d].lease = row[d].lease /\ row'[d].attempts = row[d].attempts
      /\ row'[d].ripe = TRUE
      /\ row'[d] \in OutboxRow
    BY <1>0, <1>2 DEF OutboxRow
<1>4. row[d].st \in {"pending", "leased"} /\ (row[d].st = "leased" => ~Running(d))
    BY DEF TimerPasses
<1>5. TypeOK'
  <2>1. row' \in [Deliveries -> OutboxRow]
    BY <1>0, <1>2, <1>3 DEF TypeOK
  <2> QED BY <1>0, <1>1, <2>1 DEF TypeOK
<1>6. UnbornInv' /\ SerialInv' /\ AttemptsBounded'
    BY <1>1, <1>2, <1>3 DEF Inductive, UnbornInv, SerialInv, AttemptsBounded
<1>7. ASSUME NEW v \in Workers, ~At(v, "idle")' PROVE ClaimInv(v)'
  <2>1. ClaimInv(v) /\ ~At(v, "idle")
    BY <1>1, <1>7 DEF Inductive, At
  <2>2. CASE worker[v].d = d
    <3>1. ~Holds(v) /\ ~Holds(v)'
        BY <1>1, <1>3, <1>4, <2>1, <2>2 DEF Holds, Running
    <3> QED BY <1>1, <1>3, <2>1, <2>2, <3>1 DEF ClaimInv, At, Taken
  <2>3. CASE worker[v].d # d
    BY <1>1, <1>2, <2>1, <2>3 DEF ClaimInv, Holds, At, Taken
  <2> QED BY <2>2, <2>3
<1>8. AttemptsInv'
  <2>0. \A e \in Deliveries : row'[e].lease = row[e].lease
    BY <1>2, <1>3
  <2>1. \A e \in Deliveries : Running(e) <=> Running(e)'
    BY <1>1, <2>0 DEF Running, At
  <2>2. \A e \in Deliveries : row'[e].attempts = row[e].attempts /\ row'[e].st = row[e].st
    BY <1>2, <1>3
  <2> QED BY <1>1, <1>2, <1>4, <2>1, <2>2 DEF Inductive, AttemptsInv
<1>9. ASSUME NEW e \in late' PROVE row'[e].st # "none"
  <2>1. e \in Deliveries /\ row[e].st # "none"
    BY <1>0, <1>1, <1>9 DEF Inductive, TypeOK
  <2> QED BY <1>2, <1>3, <2>1
<1> QED BY <1>5, <1>6, <1>7, <1>8, <1>9 DEF Inductive

\* A worker outlives its lease: its row may be claimed again, at the price of a
\* fault.
LEMMA OverrunKeeps == ASSUME NEW w \in Workers PROVE Inductive /\ Overrun(w) => Inductive'
<1> SUFFICES ASSUME Inductive, Overrun(w) PROVE Inductive'
    OBVIOUS
<1> USE OutboxAssumption
<1> DEFINE d == worker[w].d
<1>0. /\ TypeOK /\ ClaimInv(w) /\ Holds(w) /\ d \in Deliveries
      /\ row[d] \in OutboxRow /\ worker[w] \in WorkerRow
    BY DEF Inductive, Overrun, ClaimInv, TypeOK
<1>1. /\ UNCHANGED <<sub, admin, events, late, applied>>
      /\ faults \in Nat /\ faults' = faults + 1 /\ faults' \in 0..MaxFaults
    BY <1>0 DEF Overrun, Fault, policy, remote, TypeOK
<1>2. /\ worker'[w] = [worker[w] EXCEPT !.over = TRUE]
      /\ \A v \in Workers \ {w} : worker'[v] = worker[v]
      /\ worker' = [v \in Workers |-> worker'[v]]
    BY <1>0 DEF Overrun, TypeOK
<1>3. /\ worker'[w] \in WorkerRow /\ worker'[w].d = d /\ worker'[w].over = TRUE
      /\ worker'[w].pc = worker[w].pc /\ worker'[w].outcome = worker[w].outcome
      /\ worker'[w].attempts = worker[w].attempts
    BY <1>0, <1>2 DEF WorkerRow
<1>4. /\ row'[d] = [row[d] EXCEPT !.ripe = TRUE]
      /\ \A e \in Deliveries \ {d} : row'[e] = row[e]
      /\ row' = [e \in Deliveries |-> row'[e]]
    BY <1>0 DEF Overrun, TypeOK
<1>5. /\ row'[d].st = row[d].st /\ row'[d].lease = row[d].lease /\ row'[d].attempts = row[d].attempts
      /\ row'[d].ripe = TRUE /\ row'[d] \in OutboxRow
    BY <1>0, <1>4 DEF OutboxRow
<1>6. TypeOK'
  <2>1. row' \in [Deliveries -> OutboxRow]
    BY <1>0, <1>4, <1>5 DEF TypeOK
  <2>2. worker' \in [Workers -> WorkerRow]
    BY <1>0, <1>2, <1>3 DEF TypeOK
  <2> QED BY <1>0, <1>1, <2>1, <2>2 DEF TypeOK
<1>7. UnbornInv' /\ SerialInv'
    BY <1>1, <1>4, <1>5 DEF Inductive, UnbornInv, SerialInv
<1>8. ASSUME NEW v \in Workers, ~At(v, "idle")' PROVE ClaimInv(v)'
  <2>1. CASE v = w
    BY <1>0, <1>1, <1>3, <1>5, <2>1 DEF ClaimInv, Holds, At, Taken
  <2>2. CASE v # w
    <3>1. ClaimInv(v) /\ worker'[v] = worker[v]
        BY <1>2, <1>8, <2>2 DEF Inductive, At
    <3>2. CASE worker[v].d = d
      <4>1. ~Holds(v) /\ ~Holds(v)'
        BY <1>0, <1>5, <2>2, <3>1, <3>2 DEF Holds
      <4> QED BY <1>1, <1>5, <3>1, <3>2, <4>1 DEF ClaimInv, At, Taken
    <3>3. CASE worker[v].d # d
        BY <1>1, <1>4, <3>1, <3>3 DEF ClaimInv, Holds, At, Taken
    <3> QED BY <3>2, <3>3
  <2> QED BY <2>1, <2>2
<1>9. \A e \in Deliveries : /\ row'[e].attempts = row[e].attempts /\ row'[e].st = row[e].st
                            /\ row[e].attempts \in Nat
                            /\ row[e].attempts < MaxAttempts + faults'
  <2>1. \A e \in Deliveries : row'[e].attempts = row[e].attempts /\ row'[e].st = row[e].st
    BY <1>4, <1>5
  <2>2. \A e \in Deliveries : row[e].attempts \in Nat /\ row[e].attempts <= MaxAttempts + faults
    BY <1>0 DEF Inductive, AttemptsBounded, TypeOK, OutboxRow
  <2> QED BY <1>1, <2>1, <2>2
<1>10. AttemptsInv' /\ AttemptsBounded'
    BY <1>1, <1>9 DEF Inductive, AttemptsInv, AttemptsBounded
<1>11. ASSUME NEW e \in late' PROVE row'[e].st # "none"
  <2>1. e \in Deliveries /\ row[e].st # "none"
    BY <1>0, <1>1, <1>11 DEF Inductive, TypeOK
  <2> QED BY <1>9, <2>1
<1> QED BY <1>6, <1>7, <1>8, <1>10, <1>11 DEF Inductive

\* A request that was given up arrives at the receiver.
LEMMA ArriveKeeps == ASSUME NEW d \in Deliveries PROVE Inductive /\ Arrive(d) => Inductive'
<1> SUFFICES ASSUME Inductive, Arrive(d) PROVE Inductive'
    OBVIOUS
<1>0. TypeOK
    BY DEF Inductive
<1>1. UNCHANGED <<sub, admin, events, row, worker, faults>> /\ late' \subseteq late
    BY DEF Arrive, policy
<1>2. /\ applied' \in [Subs -> Seq(1..MaxEvents)]
      /\ \A e \in Deliveries : Taken(e) => Taken(e)'
    BY <1>0, TakeAdds DEF Arrive
<1>3. TypeOK'
    BY <1>0, <1>1, <1>2 DEF TypeOK
<1>4. ASSUME NEW v \in Workers, ~At(v, "idle")' PROVE ClaimInv(v)'
  <2>1. ClaimInv(v) /\ worker'[v] = worker[v] /\ worker[v].d \in Deliveries
    BY <1>1, <1>4 DEF Inductive, At, ClaimInv
  <2> QED BY <1>1, <1>2, <2>1 DEF ClaimInv, Holds, At
<1>5. UnbornInv' /\ SerialInv' /\ AttemptsInv' /\ AttemptsBounded'
    BY <1>1 DEF Inductive, UnbornInv, SerialInv, AttemptsInv, AttemptsBounded, Running, At
<1> QED BY <1>1, <1>3, <1>4, <1>5 DEF Inductive

\* Every step of the system, stuttering included, keeps the invariant.
LEMMA NextKeeps == Inductive /\ [Next]_vars => Inductive'
<1> SUFFICES ASSUME Inductive, [Next]_vars PROVE Inductive'
    OBVIOUS
<1>1. CASE UNCHANGED vars
    BY <1>1 DEF vars, Inductive, TypeOK, UnbornInv, ClaimInv, SerialInv, AttemptsInv,
               AttemptsBounded, At, Holds, Running, Taken
<1>2. CASE Next
    BY <1>2, AdminKeeps, CommitKeeps, ClaimKeeps, LookupKeeps, SendKeeps, SettleKeeps, CrashKeeps,
       OverrunKeeps, ArriveKeeps, TimerKeeps DEF Next, WorkerStep
<1> QED BY <1>1, <1>2

\* The strengthened invariant holds in every reachable state.
THEOREM OutboxInvariant == Spec => []Inductive
    BY InitInductive, NextKeeps, PTL DEF Spec

\* A worker within its lease holds the one unexpired lease of its subscription.
LEMMA OneInFlightHolds == Inductive => OneInFlight
<1> SUFFICES ASSUME Inductive, NEW v \in Workers, NEW w \in Workers,
                    ~At(v, "idle"), ~worker[v].over, ~At(w, "idle"), ~worker[w].over,
                    worker[v].d[2] = worker[w].d[2]
             PROVE v = w
    BY DEF OneInFlight
<1>1. ClaimInv(v) /\ ClaimInv(w)
    BY DEF Inductive
<1>2. Holds(v) /\ Holds(w) /\ ~row[worker[v].d].ripe /\ ~row[worker[w].d].ripe
    BY <1>1 DEF ClaimInv
<1>3. worker[v].d = worker[w].d
    BY <1>1, <1>2 DEF Inductive, SerialInv, ClaimInv, Holds
<1> QED BY <1>2, <1>3 DEF Holds

\* claim_due and the fenced write-backs: two workers within their leases never
\* serve one subscription.
THEOREM InFlightOnce == Spec => []OneInFlight
    BY OutboxInvariant, OneInFlightHolds, PTL

\* MAX_ATTEMPTS: beyond it a delivery is tried only after a crash or an overrun.
THEOREM AttemptsAreBounded == Spec => []AttemptsBounded
<1>1. Inductive => AttemptsBounded
    BY DEF Inductive
<1> QED BY <1>1, OutboxInvariant, PTL

-----------------------------------------------------------------------------
(* The outbox implements AtLeastOnce *)

\* The state of a delivery that its row stands for.
Phase(d) == IF row[d].st \in {"pending", "leased"} THEN "owed" ELSE row[d].st
Phases == [d \in Deliveries |-> Phase(d)]
TakenSet == {d \in Deliveries : Taken(d)}

\* No delivery is owed or taken at the start.
LEMMA InitPromises == Init => Promise!Init
<1> SUFFICES ASSUME Init PROVE Promise!Init
    OBVIOUS
<1>1. \A d \in Deliveries : row[d].st = "none" /\ ~Taken(d)
    BY DEF Init, NoRow, Taken, Deliveries
<1> QED BY <1>1 DEF Promise!Init

\* A step that changes no phase and no receiver is a stutter of the promise.
LEMMA QuietStutters ==
    ASSUME \A d \in Deliveries : Phase(d)' = Phase(d), UNCHANGED applied
    PROVE UNCHANGED <<Phases, TakenSet>>
<1>1. \A d \in Deliveries : Taken(d)' <=> Taken(d)
    BY DEF Taken
<1> QED BY <1>1 DEF Phases, TakenSet

\* Every step owes new deliveries, lets the receiver take one, closes one, or
\* changes nothing that was promised.
LEMMA NextPromises ==
    Inductive /\ [Next]_vars => [Promise!Next]_<<Phases, TakenSet>>
<1> SUFFICES ASSUME Inductive, [Next]_vars PROVE Promise!Next \/ UNCHANGED <<Phases, TakenSet>>
    OBVIOUS
<1> USE OutboxAssumption
<1>0. TypeOK /\ \A d \in Deliveries : row[d] \in OutboxRow
    BY DEF Inductive, TypeOK
<1>1. CASE UNCHANGED <<row, applied>>
    BY <1>1, QuietStutters DEF Phase
<1>2. ASSUME NEW e \in Kinds, Commit(e) PROVE Promise!Next
  <2>0. PICK Born \in SUBSET Deliveries :
            Born = {d \in Deliveries : d[1] = Len(events) + 1 /\ Matches(d[2], e)}
    OBVIOUS
  <2>1. \A d \in Born : row[d].st = "none"
    BY <1>0, <2>0 DEF Inductive, TypeOK, UnbornInv, Deliveries
  <2>2. \A d \in Deliveries : row'[d] = IF d \in Born THEN FirstRow ELSE row[d]
    BY <1>2, <2>0 DEF Commit
  <2>3. \A d \in Deliveries : Phase(d)' = IF d \in Born THEN "owed" ELSE Phase(d)
    BY <2>2 DEF Phase, FirstRow
  <2>4. UNCHANGED applied
    BY <1>2 DEF Commit, remote
  <2>5. \A d \in Deliveries : Taken(d)' <=> Taken(d)
    BY <2>4 DEF Taken
  <2>6. Promise!Owe(Born)
    <3>1. \A d \in Born : Phases[d] = "none"
        BY <2>1 DEF Phases, Phase
    <3>2. Phases' = [d \in Deliveries |-> IF d \in Born THEN "owed" ELSE Phases[d]]
        BY <2>3 DEF Phases
    <3>3. TakenSet' = TakenSet
        BY <2>5 DEF TakenSet
    <3> QED BY <3>1, <3>2, <3>3 DEF Promise!Owe, Phases, TakenSet, Phase
  <2> QED BY <2>6 DEF Promise!Next
<1>3. ASSUME NEW d \in Deliveries, Take(d), row[d].st # "none", UNCHANGED row PROVE Promise!Next
  <2>1. \A e \in Deliveries : Taken(e)' <=> Taken(e) \/ e = d
    BY <1>0, <1>3, TakeAdds
  <2>2. TakenSet' = TakenSet \cup {d}
    BY <2>1 DEF TakenSet
  <2>3. Phases' = Phases /\ Phases[d] # "none"
    BY <1>3 DEF Phases, Phase
  <2>4. Promise!Take(d)
    BY <2>2, <2>3 DEF Promise!Take, Phases, TakenSet, Phase
  <2> QED BY <2>4 DEF Promise!Next
<1>4. ASSUME NEW d \in Deliveries, NEW end \in {"done", "dead"}, row[d].st = "leased",
             row' = [row EXCEPT ![d].st = end], end = "done" => Taken(d), UNCHANGED applied
      PROVE Promise!Next
  <2>1. \A e \in Deliveries : Phase(e)' = IF e = d THEN end ELSE Phase(e)
    BY <1>0, <1>4 DEF Phase, OutboxRow, TypeOK
  <2>2. TakenSet' = TakenSet
    BY <1>4 DEF TakenSet, Taken
  <2>3. Phases' = [Phases EXCEPT ![d] = end] /\ Phases[d] = "owed"
    BY <1>4, <2>1 DEF Phases, Phase
  <2>4. end = "done" => d \in TakenSet
    BY <1>4 DEF TakenSet
  <2>5. Promise!Close(d)
    BY <2>2, <2>3, <2>4 DEF Promise!Close, Phases, TakenSet, Phase
  <2> QED BY <2>5 DEF Promise!Next
<1>5. ASSUME NEW w \in Workers, NEW d \in Deliveries, Claim(w, d) PROVE UNCHANGED <<Phases, TakenSet>>
  <2>1. \A e \in Deliveries : Phase(e)' = Phase(e)
    BY <1>0, <1>5 DEF Claim, Due, Phase, TypeOK
  <2> QED BY <1>5, <2>1, QuietStutters DEF Claim, remote
<1>6. ASSUME NEW d \in Deliveries, TimerPasses(d) PROVE UNCHANGED <<Phases, TakenSet>>
  <2>1. \A e \in Deliveries : row'[e].st = row[e].st
    BY <1>0, <1>6 DEF TimerPasses, TypeOK, OutboxRow
  <2> QED BY <1>6, <2>1, QuietStutters DEF TimerPasses, remote, Phase
<1>7. ASSUME NEW w \in Workers, Overrun(w) PROVE UNCHANGED <<Phases, TakenSet>>
  <2>1. \A e \in Deliveries : row'[e].st = row[e].st
    BY <1>0, <1>7 DEF Overrun, TypeOK, OutboxRow
  <2> QED BY <1>7, <2>1, QuietStutters DEF Overrun, remote, Phase
<1>8. ASSUME NEW w \in Workers, Send(w) PROVE Promise!Next \/ UNCHANGED <<Phases, TakenSet>>
  <2>1. worker[w].d \in Deliveries /\ row[worker[w].d].st # "none" /\ UNCHANGED row
    BY <1>8 DEF Inductive, Send, Post, At, ClaimInv
  <2>2. Take(worker[w].d) \/ UNCHANGED applied
    BY <1>8 DEF Send, Post, remote
  <2> QED BY <1>1, <1>3, <2>1, <2>2
<1>9. ASSUME NEW d \in Deliveries, Arrive(d) PROVE Promise!Next
    BY <1>3, <1>9 DEF Arrive, Inductive
<1>10. ASSUME NEW w \in Workers, Settle(w) PROVE Promise!Next \/ UNCHANGED <<Phases, TakenSet>>
  <2> DEFINE d == worker[w].d
  <2>1. ClaimInv(w) /\ d \in Deliveries /\ UNCHANGED applied
    BY <1>10 DEF Inductive, Settle, At, ClaimInv, remote
  <2>2. CASE UNCHANGED row
    BY <1>1, <2>1, <2>2
  <2>3. CASE Holds(w) /\ row' = [row EXCEPT ![d] = Settled(w)]
    <3>0. row[d].st = "leased" /\ row[d] \in OutboxRow
        BY <1>0, <2>1, <2>3 DEF Holds
    <3>1. CASE worker[w].outcome = "delivered"
      <4>1. Settled(w) = [row[d] EXCEPT !.st = "done"]
        BY <3>1 DEF Settled
      <4>2. row' = [row EXCEPT ![d].st = "done"]
        BY <1>0, <2>1, <2>3, <4>1 DEF TypeOK
      <4>3. Taken(d)
        BY <1>10, <2>1, <3>1 DEF ClaimInv, Settle
      <4> QED BY <1>4, <2>1, <3>0, <4>2, <4>3
    <3>2. CASE worker[w].outcome # "delivered" /\ Dead(w)
      <4>1. Settled(w) = [row[d] EXCEPT !.st = "dead"]
        BY <3>2 DEF Settled
      <4>2. row' = [row EXCEPT ![d].st = "dead"]
        BY <1>0, <2>1, <2>3, <4>1 DEF TypeOK
      <4> QED BY <1>4, <2>1, <3>0, <4>2
    <3>3. CASE worker[w].outcome # "delivered" /\ ~Dead(w)
      <4>1. Settled(w) = [row[d] EXCEPT !.st = "pending", !.ripe = FALSE]
        BY <3>3 DEF Settled
      <4>2. row'[d].st = "pending" /\ \A e \in Deliveries \ {d} : row'[e] = row[e]
        BY <1>0, <2>1, <2>3, <3>0, <4>1 DEF TypeOK, OutboxRow
      <4>3. \A e \in Deliveries : Phase(e)' = Phase(e)
        BY <3>0, <4>2 DEF Phase
      <4> QED BY <2>1, <4>3, QuietStutters
    <3> QED BY <3>1, <3>2, <3>3
  <2> QED BY <1>10, <2>2, <2>3 DEF Settle
<1>11. CASE AdminStep
  <2>1. UNCHANGED <<row, applied>>
    BY <1>11 DEF AdminStep, Add, Delete, PatchRead, PatchWrite, remote
  <2> QED BY <1>1, <2>1
<1>12. ASSUME NEW w \in Workers, Lookup(w) \/ Crash(w) PROVE UNCHANGED <<Phases, TakenSet>>
  <2>1. UNCHANGED <<row, applied>>
    BY <1>12 DEF Lookup, Crash, remote
  <2> QED BY <2>1, QuietStutters DEF Phase
<1>13. CASE UNCHANGED vars
    BY <1>1, <1>13 DEF vars
<1> QED BY <1>2, <1>5, <1>6, <1>7, <1>8, <1>9, <1>10, <1>11, <1>12, <1>13 DEF Next, WorkerStep

\* At-least-once delivery: a delivery is closed as done only after its receiver
\* acknowledged it, and no delivery is lost or opened again.
THEOREM ImplementsAtLeastOnce == Spec => IsAtLeastOnce
<1>1. Inductive /\ [Next]_vars => [Promise!Next]_<<Phases, TakenSet>>
    BY NextPromises
<1>2. <<Phases, TakenSet>> = <<[d \in Deliveries |->
                                 IF row[d].st \in {"pending", "leased"} THEN "owed" ELSE row[d].st],
                               {d \in Deliveries : Taken(d)}>>
    BY DEF Phases, Phase, TakenSet
<1> QED BY <1>1, <1>2, InitPromises, OutboxInvariant, PTL DEF Spec, IsAtLeastOnce, Promise!Spec, Phases, Phase, TakenSet

-----------------------------------------------------------------------------
(* A subscription does not receive its own writes *)

\* A merge of a patch that leaves the filter alone keeps it.
LEMMA MergeKeepsFilter ==
    ASSUME FiltersFixed, NEW old \in Rows, NEW patch \in Patches
    PROVE SameFilter(old, Merged(old, patch))
    BY DEF FiltersFixed, SameFilter, Merged, Rows

\* Every step but the registration of a subscription and the commit of an event:
\* the copies it leaves come from copies that were there, no delivery is new and
\* no id is free again.
LEMMA DescentKeeps ==
    ASSUME FilterInv, UNCHANGED events,
           \A s \in Subs : \A r \in Copies(s)' : \E q \in Copies(s) : SameFilter(q, r),
           \A s \in Subs : sub'[s] = Unused => sub[s] = Unused,
           \A d \in Deliveries : row'[d].st # "none" => row[d].st # "none"
    PROVE FilterInv'
<1> SUFFICES ASSUME NEW s \in Subs
    PROVE /\ \A q, r \in Copies(s)' : SameFilter(q, r)
          /\ \A d \in Deliveries : d[2] = s /\ row'[d].st # "none"
               => \A r \in Copies(s)' : Passes(events'[d[1]], r)
          /\ sub'[s] = Unused => /\ Copies(s)' = {}
                                 /\ \A d \in Deliveries : d[2] = s => row'[d].st = "none"
    BY DEF FilterInv, Passes, SameFilter
<1>1. \A q, r \in Copies(s)' : SameFilter(q, r)
  <2> SUFFICES ASSUME NEW q \in Copies(s)', NEW r \in Copies(s)' PROVE SameFilter(q, r)
    OBVIOUS
  <2>1. PICK x \in Copies(s) : SameFilter(x, q)
    OBVIOUS
  <2>2. PICK y \in Copies(s) : SameFilter(y, r)
    OBVIOUS
  <2>3. SameFilter(x, y)
    BY DEF FilterInv
  <2> QED BY <2>1, <2>2, <2>3 DEF SameFilter
<1>2. ASSUME NEW d \in Deliveries, d[2] = s, row'[d].st # "none", NEW r \in Copies(s)'
      PROVE Passes(events'[d[1]], r)
  <2>1. PICK x \in Copies(s) : SameFilter(x, r)
    OBVIOUS
  <2>2. Passes(events[d[1]], x)
    BY <1>2 DEF FilterInv
  <2> QED BY <2>1, <2>2 DEF SameFilter, Passes
<1>3. ASSUME sub'[s] = Unused
      PROVE Copies(s)' = {} /\ \A d \in Deliveries : d[2] = s => row'[d].st = "none"
  <2>1. Copies(s) = {} /\ \A d \in Deliveries : d[2] = s => row[d].st = "none"
    BY <1>3 DEF FilterInv
  <2> QED BY <2>1
<1> QED BY <1>1, <1>2, <1>3

\* Membership in the copies, spelled out.
LEMMA CopiesAre ==
    ASSUME NEW s \in Subs, NEW r
    PROVE r \in Copies(s) <=>
            \/ Exists(s) /\ r = sub[s]
            \/ \E a \in Admins : admin[a].at = "write" /\ admin[a].s = s /\ r = admin[a].new
            \/ \E w \in Workers : At(w, "send") /\ worker[w].d[2] = s /\ r = worker[w].to
    BY DEF Copies

\* The same for the next state.
LEMMA CopiesWillBe ==
    ASSUME NEW s \in Subs, NEW r
    PROVE r \in Copies(s)' <=>
            \/ Exists(s)' /\ r = sub'[s]
            \/ \E a \in Admins : admin'[a].at = "write" /\ admin'[a].s = s /\ r = admin'[a].new
            \/ \E w \in Workers : worker'[w].pc = "send" /\ worker'[w].d[2] = s /\ r = worker'[w].to
    BY DEF Copies, At

\* A step of a worker or of time: the subscriptions and the requests stay, and a
\* worker that is sending was sending the same before, or has just read the row.
LEMMA WorkKeeps ==
    ASSUME Inductive, FilterInv, UNCHANGED <<sub, admin, events>>,
           \A v \in Workers : worker'[v].pc = "send" =>
              \/ /\ worker[v].pc = "send" /\ worker'[v].d = worker[v].d
                 /\ worker'[v].to = worker[v].to
              \/ /\ worker'[v].d[2] \in Subs /\ Exists(worker'[v].d[2])
                 /\ worker'[v].to = sub[worker'[v].d[2]],
           \A d \in Deliveries : row'[d].st # "none" => row[d].st # "none"
    PROVE FilterInv'
<1>1. \A s \in Subs : \A r \in Copies(s)' : r \in Copies(s)
  <2> SUFFICES ASSUME NEW s \in Subs, NEW r \in Copies(s)' PROVE r \in Copies(s)
    OBVIOUS
  <2>1. CASE Exists(s)' /\ r = sub'[s]
    BY <2>1, CopiesAre DEF Exists
  <2>2. CASE \E a \in Admins : admin'[a].at = "write" /\ admin'[a].s = s /\ r = admin'[a].new
    BY <2>2, CopiesAre
  <2>3. CASE \E w \in Workers : worker'[w].pc = "send" /\ worker'[w].d[2] = s /\ r = worker'[w].to
    BY <2>3, CopiesAre DEF At
  <2> QED BY <2>1, <2>2, <2>3, CopiesWillBe
<1>2. \A s \in Subs : \A r \in Copies(s)' : \E q \in Copies(s) : SameFilter(q, r)
    BY <1>1 DEF SameFilter
<1> QED BY <1>2, DescentKeeps

\* The steps of one worker.
LEMMA WorkerKeepsFilter ==
    ASSUME NEW w \in Workers, Inductive, FilterInv, WorkerStep(w) \/ Crash(w) \/ Overrun(w)
    PROVE FilterInv'
<1>0. worker \in [Workers -> WorkerRow] /\ row \in [Deliveries -> OutboxRow]
    BY DEF Inductive, TypeOK
<1>1. ASSUME NEW d \in Deliveries, Claim(w, d) PROVE FilterInv'
  <2>1. /\ UNCHANGED <<sub, admin, events>>
        /\ \A v \in Workers : worker'[v] = worker[v] \/ worker'[v].pc = "lookup"
        /\ \A e \in Deliveries : row'[e] = row[e] \/ (e = d /\ row[e].st # "none")
    BY <1>0, <1>1 DEF Claim, Due, policy, Idle
  <2> QED BY <2>1, WorkKeeps
<1>2. ASSUME Lookup(w) PROVE FilterInv'
  <2>1. UNCHANGED <<sub, admin, events, row>> /\ worker[w].d \in Deliveries
    BY <1>2 DEF Lookup, policy, Inductive, ClaimInv, At
  <2>2. worker[w].d[2] \in Subs
    BY <2>1 DEF Deliveries
  <2>3. CASE Answered(w, "discarded")
    <3>1. \A v \in Workers : worker'[v] = worker[v] \/ worker'[v].pc = "settle"
        BY <1>0, <2>3 DEF Answered, WorkerRow
    <3> QED BY <2>1, <3>1, WorkKeeps
  <2>4. CASE /\ Exists(worker[w].d[2])
             /\ worker' = [worker EXCEPT ![w].pc = "send", ![w].to = sub[worker[w].d[2]]]
    <3>1. /\ \A v \in Workers \ {w} : worker'[v] = worker[v]
          /\ worker'[w].d = worker[w].d /\ worker'[w].to = sub[worker[w].d[2]]
        BY <1>0, <2>4 DEF WorkerRow
    <3> QED BY <2>1, <2>2, <2>4, <3>1, WorkKeeps
  <2> QED BY <1>2, <2>3, <2>4 DEF Lookup
<1>3. ASSUME Send(w) PROVE FilterInv'
  <2>1. UNCHANGED <<sub, admin, events, row>>
    BY <1>3 DEF Send, Post, policy
  <2>2. PICK o \in Outcomes : Answered(w, o)
    BY <1>3 DEF Send, Post, Outcomes
  <2>3. \A v \in Workers : worker'[v] = worker[v] \/ worker'[v].pc = "settle"
    BY <1>0, <2>2 DEF Answered, WorkerRow
  <2> QED BY <2>1, <2>3, WorkKeeps
<1>4. ASSUME Settle(w) PROVE FilterInv'
  <2>1. /\ UNCHANGED <<sub, admin, events>>
        /\ \A v \in Workers : worker'[v] = worker[v] \/ worker'[v].pc = "idle"
    BY <1>0, <1>4 DEF Settle, policy, Idle
  <2>2. \A d \in Deliveries : row'[d] = row[d] \/ (d = worker[w].d /\ row[d].st # "none")
    BY <1>0, <1>4 DEF Settle, Holds
  <2> QED BY <2>1, <2>2, WorkKeeps
<1>5. ASSUME Crash(w) PROVE FilterInv'
  <2>1. /\ UNCHANGED <<sub, admin, events, row>>
        /\ \A v \in Workers : worker'[v] = worker[v] \/ worker'[v].pc = "idle"
    BY <1>0, <1>5 DEF Crash, policy, Idle
  <2> QED BY <2>1, WorkKeeps
<1>6. ASSUME Overrun(w) PROVE FilterInv'
  <2>1. UNCHANGED <<sub, admin, events>>
    BY <1>6 DEF Overrun, policy
  <2>2. \A v \in Workers : /\ worker'[v].pc = worker[v].pc /\ worker'[v].d = worker[v].d
                           /\ worker'[v].to = worker[v].to
    BY <1>0, <1>6 DEF Overrun, WorkerRow
  <2>3. \A d \in Deliveries : row'[d].st = row[d].st
    BY <1>0, <1>6 DEF Overrun, OutboxRow
  <2> QED BY <2>1, <2>2, <2>3, WorkKeeps
<1> QED BY <1>1, <1>2, <1>3, <1>4, <1>5, <1>6 DEF WorkerStep

\* Time and the network do not touch a subscription.
LEMMA TimeKeepsFilter ==
    ASSUME NEW d \in Deliveries, Inductive, FilterInv, Arrive(d) \/ TimerPasses(d)
    PROVE FilterInv'
<1>1. UNCHANGED <<sub, admin, events, worker>>
    BY DEF Arrive, TimerPasses, policy
<1>2. \A e \in Deliveries : row'[e].st = row[e].st
    BY DEF Inductive, TypeOK, OutboxRow, Arrive, TimerPasses
<1> QED BY <1>1, <1>2, WorkKeeps

\* A new subscription has an id nobody used: nothing is queued for it.
LEMMA AddKeepsFilter ==
    ASSUME NEW s \in Subs, NEW new \in Settings, Inductive, FilterInv, Add(s, new)
    PROVE FilterInv'
<1>1. /\ UNCHANGED <<admin, events, row, worker>> /\ new \in Rows
      /\ sub[s] = Unused /\ sub'[s] = new /\ \A t \in Subs \ {s} : sub'[t] = sub[t]
    BY OutboxAssumption DEF Add, Inductive, TypeOK
<1>2. new # Unused
    BY <1>1, OutboxAssumption
<1>3. Copies(s) = {} /\ \A d \in Deliveries : d[2] = s => row[d].st = "none"
    BY <1>1 DEF FilterInv
<1>4. \A r \in Copies(s)' : r = new
  <2> SUFFICES ASSUME NEW r \in Copies(s)', r # new PROVE FALSE
    OBVIOUS
  <2>1. r \in Copies(s)
    BY <1>1, CopiesAre, CopiesWillBe DEF At
  <2> QED BY <1>3, <2>1
<1>5. \A t \in Subs \ {s} : Copies(t)' = Copies(t)
  <2> SUFFICES ASSUME NEW t \in Subs \ {s} PROVE Copies(t)' = Copies(t)
    OBVIOUS
  <2>1. \A r : r \in Copies(t)' <=> r \in Copies(t)
    BY <1>1, CopiesAre, CopiesWillBe DEF At, Exists
  <2> QED BY <2>1
<1>6. ASSUME NEW t \in Subs
      PROVE /\ \A q, r \in Copies(t)' : SameFilter(q, r)
            /\ \A d \in Deliveries : d[2] = t /\ row'[d].st # "none"
                 => \A r \in Copies(t)' : Passes(events'[d[1]], r)
            /\ sub'[t] = Unused => /\ Copies(t)' = {}
                                   /\ \A d \in Deliveries : d[2] = t => row'[d].st = "none"
  <2>1. CASE t = s
    BY <1>1, <1>2, <1>3, <1>4, <2>1 DEF SameFilter
  <2>2. CASE t # s
    BY <1>1, <1>5, <2>2 DEF FilterInv
  <2> QED BY <2>1, <2>2
<1> QED BY <1>6 DEF FilterInv, SameFilter, Passes

\* Deleting, reading for a PATCH and writing it back: an upsert after a DELETE
\* brings back the filter the deliveries were queued under.
LEMMA EditKeepsFilter ==
    ASSUME FiltersFixed, Inductive, FilterInv, UNCHANGED <<events, row, worker>>,
           \/ \E s \in Subs : Delete(s)
           \/ \E a \in Admins : PatchWrite(a) \/ \E s \in Subs, p \in Patches : PatchRead(a, s, p)
    PROVE FilterInv'
<1>0. /\ sub \in [Subs -> Rows \cup {Unused, Gone}] /\ DOMAIN admin = Admins
      /\ \A a \in Admins : admin[a].at = "write" => admin[a].s \in Subs /\ admin[a].new \in Rows
    BY DEF Inductive, TypeOK
<1>s. \A r : SameFilter(r, r)
    BY DEF SameFilter
<1>1. ASSUME NEW s \in Subs, Delete(s) PROVE FilterInv'
  <2>1. /\ UNCHANGED admin /\ sub'[s] = Gone /\ \A t \in Subs \ {s} : sub'[t] = sub[t]
    BY <1>0, <1>1 DEF Delete
  <2>2. \A t \in Subs : \A r \in Copies(t)' : r \in Copies(t)
    BY <2>1, CopiesAre, CopiesWillBe DEF At, Exists
  <2>3. \A t \in Subs : sub'[t] = Unused => sub[t] = Unused
    BY <2>1, OutboxAssumption
  <2> QED BY <1>s, <2>2, <2>3, DescentKeeps
<1>2. ASSUME NEW a \in Admins, PatchWrite(a) PROVE FilterInv'
  <2>1. /\ admin[a].at = "write" /\ admin[a].s \in Subs /\ admin[a].new \in Rows
        /\ sub'[admin[a].s] = admin[a].new
        /\ \A t \in Subs \ {admin[a].s} : sub'[t] = sub[t]
        /\ admin'[a].at = "rest" /\ \A b \in Admins \ {a} : admin'[b] = admin[b]
    BY <1>0, <1>2 DEF PatchWrite, NoPatch
  <2>2. ASSUME NEW t \in Subs, NEW r \in Copies(t)' PROVE r \in Copies(t)
    <3>1. CASE Exists(t)' /\ r = sub'[t]
        BY <2>1, <3>1, CopiesAre DEF Exists
    <3>2. CASE \E b \in Admins : admin'[b].at = "write" /\ admin'[b].s = t /\ r = admin'[b].new
        BY <2>1, <3>2, CopiesAre
    <3>3. CASE \E w \in Workers : worker'[w].pc = "send" /\ worker'[w].d[2] = t /\ r = worker'[w].to
        BY <3>3, CopiesAre DEF At
    <3> QED BY <2>2, <3>1, <3>2, <3>3, CopiesWillBe
  <2>3. \A t \in Subs : sub'[t] = Unused => sub[t] = Unused
    BY <2>1, OutboxAssumption
  <2> QED BY <1>s, <2>2, <2>3, DescentKeeps
<1>3. ASSUME NEW a \in Admins, NEW s \in Subs, NEW p \in Patches, PatchRead(a, s, p)
      PROVE FilterInv'
  <2>1. /\ UNCHANGED sub /\ Exists(s) /\ sub[s] \in Rows
        /\ admin'[a].s = s /\ admin'[a].new = Merged(sub[s], p)
        /\ \A b \in Admins \ {a} : admin'[b] = admin[b]
    BY <1>0, <1>3 DEF PatchRead, Exists
  <2>2. SameFilter(sub[s], Merged(sub[s], p)) /\ sub[s] \in Copies(s)
    BY <2>1, MergeKeepsFilter, CopiesAre
  <2>3. ASSUME NEW t \in Subs, NEW r \in Copies(t)'
        PROVE \E q \in Copies(t) : SameFilter(q, r)
    <3>1. CASE Exists(t)' /\ r = sub'[t]
        BY <1>s, <2>1, <3>1, CopiesAre DEF Exists
    <3>2. ASSUME NEW b \in Admins, admin'[b].at = "write", admin'[b].s = t, r = admin'[b].new
          PROVE \E q \in Copies(t) : SameFilter(q, r)
      <4>1. CASE b = a
        BY <2>1, <2>2, <3>2, <4>1
      <4>2. CASE b # a
        BY <1>s, <2>1, <3>2, <4>2, CopiesAre
      <4> QED BY <4>1, <4>2
    <3>3. CASE \E w \in Workers : worker'[w].pc = "send" /\ worker'[w].d[2] = t /\ r = worker'[w].to
        BY <1>s, <3>3, CopiesAre DEF At
    <3> QED BY <2>3, <3>1, <3>2, <3>3, CopiesWillBe
  <2>4. \A t \in Subs : sub'[t] = Unused => sub[t] = Unused
    BY <2>1
  <2> QED BY <2>3, <2>4, DescentKeeps
<1> QED BY <1>1, <1>2, <1>3

\* A commit queues an event only where it passes the filter of the row, which is
\* the filter of every copy.
LEMMA CommitKeepsFilter ==
    ASSUME NEW e \in Kinds, Inductive, FilterInv, Commit(e) PROVE FilterInv'
<1>0. /\ UNCHANGED <<sub, admin, worker>> /\ events \in Seq(Kinds) /\ Len(events) \in Nat
      /\ events' = Append(events, e) /\ UnbornInv
    BY DEF Commit, policy, Inductive, TypeOK
<1>1. \A t \in Subs : Copies(t)' = Copies(t)
    BY <1>0 DEF Copies, Exists, At
<1>2. \A d \in Deliveries :
        \/ row'[d] = row[d]
        \/ d[1] = Len(events) + 1 /\ Matches(d[2], e)
    BY DEF Commit
<1>3. ASSUME NEW t \in Subs, NEW d \in Deliveries, d[2] = t, row'[d].st # "none",
             NEW r \in Copies(t)
      PROVE Passes(events'[d[1]], r)
  <2>1. CASE row[d].st # "none"
    <3>1. d[1] \in 1..Len(events)
        BY <1>0, <2>1 DEF UnbornInv, Deliveries
    <3>2. events'[d[1]] = events[d[1]]
        BY <1>0, <3>1
    <3> QED BY <1>3, <2>1, <3>2 DEF FilterInv
  <2>2. CASE row[d].st = "none"
    <3>1. d[1] = Len(events) + 1 /\ Matches(t, e)
        BY <1>2, <1>3, <2>2
    <3>2. events'[d[1]] = e
        BY <1>0, <3>1
    <3>3. sub[t] \in Copies(t) /\ Passes(e, sub[t])
        BY <3>1, CopiesAre DEF Matches, Passes
    <3>4. SameFilter(sub[t], r)
        BY <1>3, <3>3 DEF FilterInv
    <3> QED BY <3>2, <3>3, <3>4 DEF SameFilter, Passes
  <2> QED BY <2>1, <2>2
<1>4. ASSUME NEW t \in Subs, sub[t] = Unused, NEW d \in Deliveries, d[2] = t
      PROVE row'[d].st = "none"
    BY <1>2, <1>4 DEF FilterInv, Matches, Exists
<1>5. ASSUME NEW t \in Subs
      PROVE /\ \A q, r \in Copies(t)' : SameFilter(q, r)
            /\ \A d \in Deliveries : d[2] = t /\ row'[d].st # "none"
                 => \A r \in Copies(t)' : Passes(events'[d[1]], r)
            /\ sub'[t] = Unused => /\ Copies(t)' = {}
                                   /\ \A d \in Deliveries : d[2] = t => row'[d].st = "none"
  <2>1. Copies(t)' = Copies(t) /\ sub'[t] = sub[t]
    BY <1>0, <1>1
  <2>2. \A q, r \in Copies(t)' : SameFilter(q, r)
    BY <2>1 DEF FilterInv
  <2>3. \A d \in Deliveries : d[2] = t /\ row'[d].st # "none"
           => \A r \in Copies(t)' : Passes(events'[d[1]], r)
    BY <1>3, <2>1
  <2>4. sub'[t] = Unused => Copies(t)' = {}
    BY <2>1 DEF FilterInv
  <2>5. sub'[t] = Unused => \A d \in Deliveries : d[2] = t => row'[d].st = "none"
    BY <1>4, <2>1
  <2> QED BY <2>2, <2>3, <2>4, <2>5
<1> QED BY <1>5 DEF FilterInv, SameFilter, Passes

\* enqueue_matching and PATCH: as long as no filter is edited, no worker is about
\* to send a subscription an event of its own origin or of an ignored one, however
\* pauses, deletions and stale write-backs of the row interleave with the queue.
THEOREM OwnWritesStayHome == FiltersFixed => (Spec => []NeverOwnWrites)
<1> SUFFICES ASSUME FiltersFixed PROVE Spec => []NeverOwnWrites
    OBVIOUS
<1>1. Init => FilterInv
    BY DEF Init, FilterInv, Copies, Exists, At, Idle, NoPatch, NoRow
<1>2. Inductive /\ FilterInv /\ [Next]_vars => FilterInv'
  <2> SUFFICES ASSUME Inductive, FilterInv, [Next]_vars PROVE FilterInv'
    OBVIOUS
  <2>1. CASE UNCHANGED vars
    BY <2>1, WorkKeeps DEF vars
  <2>2. CASE AdminStep
    <3>1. ASSUME NEW s \in Subs, Delete(s) PROVE FilterInv'
      <4>1. UNCHANGED <<events, row, worker>>
        BY <3>1 DEF Delete
      <4> QED BY <3>1, <4>1, EditKeepsFilter
    <3>2. ASSUME NEW a \in Admins, PatchWrite(a) PROVE FilterInv'
      <4>1. UNCHANGED <<events, row, worker>>
        BY <3>2 DEF PatchWrite
      <4> QED BY <3>2, <4>1, EditKeepsFilter
    <3>3. ASSUME NEW a \in Admins, NEW s \in Subs, NEW p \in Patches, PatchRead(a, s, p)
          PROVE FilterInv'
      <4>1. UNCHANGED <<events, row, worker>>
        BY <3>3 DEF PatchRead
      <4> QED BY <3>3, <4>1, EditKeepsFilter
    <3>4. ASSUME NEW s \in Subs, NEW new \in Settings, Add(s, new) PROVE FilterInv'
        BY <3>4, AddKeepsFilter
    <3> QED BY <2>2, <3>1, <3>2, <3>3, <3>4, Zenon DEF AdminStep
  <2>3. ASSUME NEW e \in Kinds, Commit(e) PROVE FilterInv'
    BY <2>3, CommitKeepsFilter
  <2>4. ASSUME NEW w \in Workers, WorkerStep(w) \/ Crash(w) \/ Overrun(w) PROVE FilterInv'
    BY <2>4, WorkerKeepsFilter
  <2>5. ASSUME NEW d \in Deliveries, Arrive(d) \/ TimerPasses(d) PROVE FilterInv'
    BY <2>5, TimeKeepsFilter
  <2> QED BY <2>1, <2>2, <2>3, <2>4, <2>5, Zenon DEF Next
<1>3. Inductive /\ FilterInv => NeverOwnWrites
  <2> SUFFICES ASSUME Inductive, FilterInv, NEW w \in Workers, At(w, "send")
      PROVE Passes(events[worker[w].d[1]], worker[w].to)
    BY DEF NeverOwnWrites, Passes
  <2>1. worker[w].d \in Deliveries /\ row[worker[w].d].st # "none"
    BY DEF Inductive, ClaimInv, At
  <2>2. worker[w].d[2] \in Subs
    BY <2>1 DEF Deliveries
  <2>3. worker[w].to \in Copies(worker[w].d[2])
    BY <2>2, CopiesAre
  <2> QED BY <2>1, <2>2, <2>3 DEF FilterInv
<1> QED BY <1>1, <1>2, <1>3, OutboxInvariant, PTL DEF Spec

===============================================================================
