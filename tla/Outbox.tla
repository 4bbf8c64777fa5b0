-------------------------------- MODULE Outbox --------------------------------
(***************************************************************************)
(* Webhooks: the subscriptions, the table event_outbox that a mutation     *)
(* fills in its own transaction, and the workers that drain it over HTTPS. *)
(*                                                                         *)
(* A worker's run_once is split where it leaves the database: claim_due,   *)
(* the lookup of the subscription, the request, the write-back.  The       *)
(* PATCH of the admin API reads and writes the subscription in two         *)
(* statements without a transaction, and is split between them.            *)
(*                                                                         *)
(* Time is one flag per row: `ripe' says that next_attempt_us of a pending *)
(* row or lease_until_us of a leased one has passed.  As in ChunkJobs a    *)
(* lease (token, epoch) is named by the worker that took it.               *)
(***************************************************************************)
EXTENDS Integers, Sequences, FiniteSets

CONSTANTS
    Subs,         \* subscription ids (random UUIDs: none is created twice)
    Origins,      \* origins of writes and of consumers
    Types,        \* entity types
    Settings,     \* the rows an administrator may register
    Patches,      \* the changes an administrator may send, some fields each
    Kinds,        \* the events a mutation may commit
    Workers,      \* webhook workers, of one process or several
    Admins,       \* concurrent admin requests
    NoLease,      \* stands for a NULL lease token
    NoDelivery,   \* an idle worker's claim
    Unused, Gone, \* a subscription id without a row: not yet, no longer
    MaxAttempts,  \* MAX_ATTEMPTS
    MaxEvents,    \* bound: committed events
    MaxFaults     \* bound: crashes and leases that lapse under their worker

ChangeOperation == {"create", "update", "delete", "rename"}

\* The endpoint and the secret reference of a row decide the outcome of a
\* request, which is left open.
Rows == [origin : Origins, ignored : SUBSET Origins, ops : SUBSET ChangeOperation,
         types : SUBSET Types, enabled : BOOLEAN]

\* The named fields of the patch, and the rest of the row that was read.
Merged(old, patch) == [f \in DOMAIN old |-> IF f \in DOMAIN patch THEN patch[f] ELSE old[f]]

Deliveries == (1..MaxEvents) \X Subs

ASSUME OutboxAssumption ==
    /\ NoLease \notin Workers
    /\ NoDelivery \notin Deliveries
    /\ Unused \notin Rows
    /\ Gone \notin Rows
    /\ Unused # Gone
    /\ Settings \subseteq Rows
    /\ \A patch \in Patches, old \in Rows : Merged(old, patch) \in Rows
    /\ Kinds \subseteq [origin : Origins, op : ChangeOperation, type : Types]
    /\ MaxAttempts \in Nat \ {0}
    /\ MaxEvents \in Nat
    /\ MaxFaults \in Nat

VARIABLES
    sub,     \* webhook_subscription
    admin,   \* the PATCH each admin request is in the middle of
    events,  \* change_event, in commit order
    row,     \* event_outbox, one row per event and subscription
    worker,  \* the stack of run_once of each worker
    late,    \* requests given up by a worker and still on the network
    applied, \* events each receiver has acknowledged, in order, without repeats
    faults   \* history: faults so far

vars == <<sub, admin, events, row, worker, late, applied, faults>>
policy == <<sub, admin>>
remote == <<late, applied>>

Exists(s) == sub[s] \notin {Unused, Gone}

Outcomes == {"delivered", "retryable", "failed", "fatal", "refused", "discarded"}

NoRow == [st |-> "none", lease |-> NoLease, ripe |-> FALSE, attempts |-> 0]
Idle == [pc |-> "idle", d |-> NoDelivery, over |-> FALSE, attempts |-> 0,
         outcome |-> "none", to |-> Unused]
NoPatch == [at |-> "rest"]

Init ==
    /\ sub = [s \in Subs |-> Unused]
    /\ admin = [a \in Admins |-> NoPatch]
    /\ events = <<>>
    /\ row = [d \in Deliveries |-> NoRow]
    /\ worker = [w \in Workers |-> Idle]
    /\ late = {}
    /\ applied = [s \in Subs |-> <<>>]
    /\ faults = 0

-----------------------------------------------------------------------------
(* Subscriptions *)

\* webhook_add_subscription and POST /ui/api/webhooks.
Add(s, new) ==
    /\ sub[s] = Unused
    /\ sub' = [sub EXCEPT ![s] = new]
    /\ UNCHANGED <<admin, events, row, worker, remote, faults>>

\* webhook_delete_subscription and DELETE: deliveries of the row stay.
Delete(s) ==
    /\ Exists(s)
    /\ sub' = [sub EXCEPT ![s] = Gone]
    /\ UNCHANGED <<admin, events, row, worker, remote, faults>>

PatchRead(a, s, patch) ==
    /\ admin[a] = NoPatch
    /\ Exists(s)
    /\ admin' = [admin EXCEPT ![a] = [at |-> "write", s |-> s, patch |-> patch,
                                      new |-> Merged(sub[s], patch)]]
    /\ UNCHANGED <<sub, events, row, worker, remote, faults>>

\* upsert inserts the row again if a DELETE came between.
PatchWrite(a) ==
    /\ admin[a].at = "write"
    /\ sub' = [sub EXCEPT ![admin[a].s] = admin[a].new]
    /\ admin' = [admin EXCEPT ![a] = NoPatch]
    /\ UNCHANGED <<events, row, worker, remote, faults>>

AdminStep ==
    \/ \E s \in Subs : Delete(s) \/ \E new \in Settings : Add(s, new)
    \/ \E a \in Admins : PatchWrite(a) \/ \E s \in Subs, p \in Patches : PatchRead(a, s, p)

-----------------------------------------------------------------------------
(* A mutation commits an event and its deliveries in one transaction *)

\* An empty list of operations or types matches every one.
Among(x, S) == S = {} \/ x \in S

\* Mutant of Matches: only the consumer's own origin is dropped.
MatchesIgnored(s, e) ==
    /\ Exists(s)
    /\ sub[s].enabled
    /\ e.origin # sub[s].origin
    /\ Among(e.op, sub[s].ops)
    /\ Among(e.type, sub[s].types)

\* SubscriptionRepository::matching.
Matches(s, e) ==
    /\ Exists(s)
    /\ sub[s].enabled
    /\ e.origin # sub[s].origin
    /\ e.origin \notin sub[s].ignored
    /\ Among(e.op, sub[s].ops)
    /\ Among(e.type, sub[s].types)

\* enqueue_matching inserts the defaults of the table: the row is due at once.
FirstRow == [st |-> "pending", lease |-> NoLease, ripe |-> TRUE, attempts |-> 0]

\* persist_changes, for one change of the transaction; a transaction of several
\* is a run of these steps.
Commit(e) ==
    /\ Len(events) < MaxEvents
    /\ events' = Append(events, e)
    /\ row' = [d \in Deliveries |->
                 IF d[1] = Len(events) + 1 /\ Matches(d[2], e) THEN FirstRow ELSE row[d]]
    /\ UNCHANGED <<policy, worker, remote, faults>>

-----------------------------------------------------------------------------
(* The worker *)

At(w, pc) == worker[w].pc = pc

Running(d) == \E w \in Workers : ~At(w, "idle") /\ worker[w].d = d /\ row[d].lease = w

Busy(s) == \E d \in Deliveries : d[2] = s /\ row[d].st = "leased" /\ ~row[d].ripe

\* Mutant of Due: the lease of a worker that is gone is never taken over.
DuePending(d) == row[d].st = "pending" /\ row[d].ripe /\ ~Busy(d[2])

\* claim_due, the WHERE clause.  Untried rows come first, in the order of their
\* random delivery_id, then the others by next_attempt_us; the clock is read
\* before the lock is taken, so a row that ripens meanwhile may still be passed
\* over.  The model lets any due row be the first.
Due(d) == row[d].st \in {"pending", "leased"} /\ row[d].ripe /\ ~Busy(d[2])

Claim(w, d) ==
    /\ At(w, "idle")
    /\ Due(d)
    /\ row' = [row EXCEPT ![d] = [st |-> "leased", lease |-> w, ripe |-> FALSE,
                                  attempts |-> @.attempts + 1]]
    /\ worker' = [worker EXCEPT ![w] = [Idle EXCEPT !.pc = "lookup", !.d = d,
                                                    !.attempts = row[d].attempts + 1]]
    /\ UNCHANGED <<policy, events, remote, faults>>

Answered(w, outcome) ==
    worker' = [worker EXCEPT ![w].pc = "settle", ![w].outcome = outcome, ![w].to = Unused]

\* A missing or disabled subscription discards the delivery.
Lookup(w) ==
    LET s == worker[w].d[2]
    IN /\ At(w, "lookup")
       /\ \/ /\ Exists(s) /\ sub[s].enabled
             /\ worker' = [worker EXCEPT ![w].pc = "send", ![w].to = sub[s]]
          \/ ~(Exists(s) /\ sub[s].enabled) /\ Answered(w, "discarded")
       /\ UNCHANGED <<policy, events, row, remote, faults>>

Taken(d) == \E i \in DOMAIN applied[d[2]] : applied[d[2]][i] = d[1]

\* The receiver acknowledges an event; it drops repeats by event id.
Take(d) ==
    applied' = [applied EXCEPT ![d[2]] =
                  IF Taken(d) THEN @ ELSE Append(@, d[1])]

\* ReqwestTransport::post: the receiver answers, or the transport fails and the
\* request may have been taken, may be lost, or may still arrive.
Post(w) ==
    LET d == worker[w].d
    IN \/ \E o \in {"retryable", "fatal"} : Answered(w, o) /\ UNCHANGED remote
       \/ Answered(w, "delivered") /\ Take(d) /\ UNCHANGED late
       \/ /\ Answered(w, "failed")
          /\ \/ UNCHANGED remote
             \/ Take(d) /\ UNCHANGED late
             \/ late' = late \cup {d} /\ UNCHANGED applied

\* deliver: the endpoint policy, the size of the envelope or a missing signing
\* key refuses the delivery before anything is sent.
Send(w) ==
    /\ At(w, "send")
    /\ \/ Answered(w, "refused") /\ UNCHANGED remote
       \/ Post(w)
    /\ UNCHANGED <<policy, events, row, faults>>

\* A request that its worker gave up reaches the receiver.
Arrive(d) ==
    /\ d \in late
    /\ late' = late \ {d}
    /\ Take(d)
    /\ UNCHANGED <<policy, events, row, worker, faults>>

\* Mutant of Holds: the lease is not compared.
HoldsAnyLease(w) == row[worker[w].d].st = "leased"

\* The WHERE clause of complete and retry.
Holds(w) == row[worker[w].d].st = "leased" /\ row[worker[w].d].lease = w

\* Mutant of Dead: one attempt too many.
DeadOneLater(w) ==
    \/ worker[w].outcome \in {"refused", "fatal", "discarded"}
    \/ worker[w].attempts > MaxAttempts

Dead(w) == \/ worker[w].outcome \in {"refused", "fatal", "discarded"}
           \/ worker[w].attempts >= MaxAttempts

\* Mutant of Settled: a response of any status completes the delivery.
SettledOnAnyAnswer(w) ==
    CASE worker[w].outcome \in {"delivered", "retryable"} ->
           [row[worker[w].d] EXCEPT !.st = "done"]
      [] Dead(w) -> [row[worker[w].d] EXCEPT !.st = "dead"]
      [] OTHER -> [row[worker[w].d] EXCEPT !.st = "pending", !.ripe = FALSE]

\* The row that complete or retry writes; neither clears the lease.
Settled(w) ==
    CASE worker[w].outcome = "delivered" -> [row[worker[w].d] EXCEPT !.st = "done"]
      [] worker[w].outcome # "delivered" /\ Dead(w) -> [row[worker[w].d] EXCEPT !.st = "dead"]
      [] OTHER -> [row[worker[w].d] EXCEPT !.st = "pending", !.ripe = FALSE]

\* complete and retry read the clock before they take the lock: when the lease
\* lapses in between they may still go through.
Settle(w) ==
    /\ At(w, "settle")
    /\ \/ Holds(w) /\ row' = [row EXCEPT ![worker[w].d] = Settled(w)]
       \/ (Holds(w) => worker[w].over) /\ UNCHANGED row
    /\ worker' = [worker EXCEPT ![w] = Idle]
    /\ UNCHANGED <<policy, events, remote, faults>>

WorkerStep(w) == \/ \E d \in Deliveries : Claim(w, d)
                 \/ Lookup(w) \/ Send(w) \/ Settle(w)

-----------------------------------------------------------------------------
(* Time and faults *)

Fault == faults < MaxFaults /\ faults' = faults + 1

\* A process stops, or run_once returns an error of the database: the row stays
\* leased.
Crash(w) ==
    /\ Fault
    /\ ~At(w, "idle")
    /\ worker' = [worker EXCEPT ![w] = Idle]
    /\ UNCHANGED <<policy, events, row, remote>>

\* The retry delay passes, or the lease of a worker that is gone.
TimerPasses(d) ==
    /\ row[d].st \in {"pending", "leased"} /\ ~row[d].ripe
    /\ row[d].st = "leased" => ~Running(d)
    /\ row' = [row EXCEPT ![d].ripe = TRUE]
    /\ UNCHANGED <<policy, events, worker, remote, faults>>

\* A worker outlives its lease: the request is bounded by ten seconds and the
\* lease by thirty, but name resolution and the scheduler are not.
Overrun(w) ==
    /\ Fault
    /\ ~At(w, "idle") /\ ~worker[w].over
    /\ worker' = [worker EXCEPT ![w].over = TRUE]
    /\ row' = IF Holds(w) THEN [row EXCEPT ![worker[w].d].ripe = TRUE] ELSE row
    /\ UNCHANGED <<policy, events, remote>>

Next ==
    \/ AdminStep
    \/ \E e \in Kinds : Commit(e)
    \/ \E w \in Workers : WorkerStep(w) \/ Crash(w) \/ Overrun(w)
    \/ \E d \in Deliveries : Arrive(d) \/ TimerPasses(d)

Spec == Init /\ [][Next]_vars

\* WebhookService polls run_once every 250 ms and time goes on.
Fairness == /\ \A w \in Workers : WF_vars(WorkerStep(w))
            /\ \A d \in Deliveries : WF_vars(TimerPasses(d))

FairSpec == Spec /\ Fairness

-----------------------------------------------------------------------------
(* Properties *)

OutboxRow == [st : {"none", "pending", "leased", "done", "dead"},
              lease : Workers \cup {NoLease}, ripe : BOOLEAN,
              attempts : 0..MaxAttempts + MaxFaults]

WorkerRow == [pc : {"idle", "lookup", "send", "settle"}, d : Deliveries \cup {NoDelivery},
              over : BOOLEAN, attempts : Nat, outcome : Outcomes \cup {"none"},
              to : Rows \cup {Unused}]

\* The tables and stacks have the shape the schema and run_once allow; attempts
\* stay within MAX_ATTEMPTS and the modelled faults.
TypeOK ==
    /\ sub \in [Subs -> Rows \cup {Unused, Gone}]
    /\ events \in Seq(Kinds) /\ Len(events) <= MaxEvents
    /\ row \in [Deliveries -> OutboxRow]
    /\ worker \in [Workers -> WorkerRow]
    /\ DOMAIN admin = Admins
    /\ \A a \in Admins : admin[a].at = "write" => admin[a].s \in Subs /\ admin[a].new \in Rows
    /\ late \subseteq Deliveries
    /\ applied \in [Subs -> Seq(1..MaxEvents)]
    /\ faults \in 0..MaxFaults

\* claim_due: "At most one active delivery per subscription, including claims
\* made by other processes".  Two workers whose leases have not run out never
\* work for the same subscription, whatever a stale worker writes back.
OneInFlight ==
    \A v, w \in Workers :
        /\ ~At(v, "idle") /\ ~worker[v].over
        /\ ~At(w, "idle") /\ ~worker[w].over
        /\ worker[v].d[2] = worker[w].d[2]
        => v = w

\* "After eight attempts the row moves to dead": a delivery is tried more often
\* only when a worker crashed on it or outlived its lease.
AttemptsBounded == \A d \in Deliveries : row[d].attempts <= MaxAttempts + faults

\* The outbox implements at-least-once delivery: no delivery is closed as done
\* unless its receiver acknowledged it, none is lost, and none is opened again
\* by a stale worker, a late answer or an edit of its subscription.
Promise == INSTANCE AtLeastOnce WITH
    state <- [d \in Deliveries |-> IF row[d].st \in {"pending", "leased"} THEN "owed"
                                   ELSE row[d].st],
    taken <- {d \in Deliveries : Taken(d)}
IsAtLeastOnce == Promise!Spec

-----------------------------------------------------------------------------
(* The strengthening that makes these inductive *)

\* An event that is not committed has no deliveries.
UnbornInv == \A d \in Deliveries : d[1] > Len(events) => row[d].st = "none"

\* A worker within its lease holds its row, and what it counted is what the row
\* counts for as long as it holds it.
ClaimInv(w) ==
    /\ worker[w].d \in Deliveries
    /\ row[worker[w].d].st # "none"
    /\ ~worker[w].over => Holds(w)
    /\ Holds(w) => /\ worker[w].attempts = row[worker[w].d].attempts
                   /\ worker[w].over = row[worker[w].d].ripe
    /\ At(w, "settle") /\ worker[w].outcome = "delivered" => Taken(worker[w].d)

\* One lease per subscription has not run out.
SerialInv ==
    \A d, e \in Deliveries :
        /\ d[2] = e[2]
        /\ row[d].st = "leased" /\ ~row[d].ripe
        /\ row[e].st = "leased" /\ ~row[e].ripe
        => d = e

\* Beyond MAX_ATTEMPTS every claim that is over has cost a fault.
AttemptsInv ==
    \A d \in Deliveries :
        /\ row[d].st \in {"none", "pending"} => row[d].attempts < MaxAttempts
        /\ row[d].st = "leased" /\ (row[d].ripe \/ ~Running(d))
           => row[d].attempts < MaxAttempts + faults

Inductive ==
    /\ TypeOK
    /\ UnbornInv
    /\ \A w \in Workers : ~At(w, "idle") => ClaimInv(w)
    /\ SerialInv
    /\ AttemptsInv
    /\ AttemptsBounded
    /\ \A d \in late : row[d].st # "none"

-----------------------------------------------------------------------------
(* Liveness, and what the repository claims *)

\* Every delivery is closed in the end, whatever the receiver answers and
\* whatever happens to its subscription.
DeliveriesSettle ==
    \A d \in Deliveries : row[d].st = "pending" ~> row[d].st \in {"done", "dead"}

\* mcpmem-webhook/README.md: "A subscription never receives its own writes: the
\* filter drops an event whose origin equals `consumer_origin`, or is in
\* `ignored_origins`."  Stated for the subscription row the worker has just
\* read: it holds as long as no filter is edited, since an edit does not reach
\* the deliveries that are queued already.
NeverOwnWrites ==
    \A w \in Workers :
        At(w, "send") => LET e == events[worker[w].d[1]]
                         IN e.origin # worker[w].to.origin /\ e.origin \notin worker[w].to.ignored


\* No PATCH names consumer_origin or ignored_origins.
FiltersFixed == \A patch \in Patches : {"origin", "ignored"} \cap DOMAIN patch = {}

SameFilter(q, r) == q.origin = r.origin /\ q.ignored = r.ignored

Passes(e, r) == e.origin # r.origin /\ e.origin \notin r.ignored

\* The copies of a subscription somebody may still act on: the row itself, what
\* a PATCH is about to write, what a worker has read.
Copies(s) ==
    {r \in {sub[s]} : Exists(s)}
    \cup {admin[a].new : a \in {b \in Admins : admin[b].at = "write" /\ admin[b].s = s}}
    \cup {worker[w].to : w \in {v \in Workers : At(v, "send") /\ worker[v].d[2] = s}}

\* With the filters fixed, all the copies of a subscription carry one filter, and
\* every event that was ever queued for it passes; this outlives the deletion of
\* the row, which a PATCH may undo.
FilterInv ==
    \A s \in Subs :
        /\ \A q, r \in Copies(s) : SameFilter(q, r)
        /\ \A d \in Deliveries : d[2] = s /\ row[d].st # "none"
             => \A r \in Copies(s) : Passes(events[d[1]], r)
        /\ sub[s] = Unused => /\ Copies(s) = {}
                              /\ \A d \in Deliveries : d[2] = s => row[d].st = "none"

=============================================================================
