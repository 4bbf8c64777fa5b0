------------------------------- MODULE FileLife -------------------------------
(***************************************************************************)
(* What the rest of the system relies on about a stored file: it is stored *)
(* at revision 1 without text, and then either published once, whole, at   *)
(* revision 2, or given up for good; it may be removed at any time, and    *)
(* its id may then be given to another file.  ChunkJobs assumes this life  *)
(* of the owners it calls attachments.                                     *)
(***************************************************************************)
EXTENDS Naturals

CONSTANTS Ids

VARIABLES
    phase, \* none, stored, ready or failed
    rev,   \* the revision the index is told of
    whole  \* the files whose published text is all of their own text

vars == <<phase, rev, whole>>

Init == /\ phase = [i \in Ids |-> "none"]
        /\ rev = [i \in Ids |-> 0]
        /\ whole = {}

Store(i) == /\ phase[i] = "none"
            /\ phase' = [phase EXCEPT ![i] = "stored"]
            /\ rev' = [rev EXCEPT ![i] = 1]
            /\ UNCHANGED whole

Publish(i) == /\ phase[i] = "stored"
              /\ phase' = [phase EXCEPT ![i] = "ready"]
              /\ rev' = [rev EXCEPT ![i] = 2]
              /\ whole' = whole \cup {i}

\* Several at a time: claim_due gives up every file whose attempts are spent.
GiveUp(S) == /\ \A i \in S : phase[i] = "stored"
             /\ phase' = [i \in Ids |-> IF i \in S THEN "failed" ELSE phase[i]]
             /\ UNCHANGED <<rev, whole>>

\* Several at a time: the delete of an entity removes all of its files.
Remove(S) == /\ phase' = [i \in Ids |-> IF i \in S THEN "none" ELSE phase[i]]
             /\ rev' = [i \in Ids |-> IF i \in S THEN 0 ELSE rev[i]]
             /\ whole' = whole \ S

Next == \/ \E i \in Ids : Store(i) \/ Publish(i)
        \/ \E S \in SUBSET Ids : GiveUp(S) \/ Remove(S)

Spec == Init /\ [][Next]_vars

=============================================================================
