------------------------------- MODULE MCOutbox -------------------------------
(* Instances of Outbox for TLC. *)
EXTENDS Outbox, TLC

CONSTANTS s1, w1, w2, a1, a2, own, other, third

Plain == [origin |-> own, ignored |-> {}, ops |-> {}, types |-> {}, enabled |-> TRUE]
Picky == [Plain EXCEPT !.ignored = {other}, !.ops = {"update"}, !.types = {"task"}]
MCPicky == {Picky}

\* Pausing and resuming.
MCPause == {[enabled |-> FALSE], [enabled |-> TRUE]}

Written(o) == [origin |-> o, op |-> "update", type |-> "task"]
MCKinds == {Written(other), Written(third)}

\* An administrator's PATCH meets one busy worker at a time.
OnePatched == Cardinality({w \in Workers : worker[w] # Idle}) = 2 => \A a \in Admins : admin[a] = NoPatch

FairApartSpec ==
    /\ Init /\ [][Next /\ OnePatched']_vars
    /\ \A w \in Workers : WF_vars(WorkerStep(w) /\ OnePatched')
    /\ \A d \in Deliveries : WF_vars(TimerPasses(d))

Symmetry == Permutations(Workers)

=============================================================================
