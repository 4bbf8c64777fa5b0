----------------------------- MODULE AtLeastOnce -----------------------------
(***************************************************************************)
(* What the webhook outbox promises for each delivery, a pair of an event  *)
(* and a subscription: once the event is committed the delivery is owed;   *)
(* the receiver may take it any number of times; in the end it is closed   *)
(* as done, and then the receiver has it, or as dead.  A closed delivery   *)
(* is never opened again.                                                  *)
(***************************************************************************)
CONSTANT Deliveries

VARIABLES
    state,  \* none, owed, done or dead
    taken   \* the deliveries that the receiver has acknowledged

Init == state = [d \in Deliveries |-> "none"] /\ taken = {}

Owe(D) ==
    /\ \A d \in D : state[d] = "none"
    /\ state' = [d \in Deliveries |-> IF d \in D THEN "owed" ELSE state[d]]
    /\ UNCHANGED taken

\* A late duplicate may reach the receiver after the delivery is closed.
Take(d) == state[d] # "none" /\ taken' = taken \cup {d} /\ UNCHANGED state

Close(d) ==
    /\ state[d] = "owed"
    /\ \E end \in {"done", "dead"} :
         /\ end = "done" => d \in taken
         /\ state' = [state EXCEPT ![d] = end]
    /\ UNCHANGED taken

Next == \/ \E D \in SUBSET Deliveries : Owe(D)
        \/ \E d \in Deliveries : Take(d) \/ Close(d)

Spec == Init /\ [][Next]_<<state, taken>>

=============================================================================
