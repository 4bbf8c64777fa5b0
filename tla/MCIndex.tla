------------------------------- MODULE MCIndex -------------------------------
(* Instances of IndexSystem for TLC. *)
EXTENDS IndexSystem, TLC

CONSTANTS e1, a1, w1, w2, p1, p2, r1

\* Attachments belong to e1 in every instance.
MCParent == [a \in Attachments |-> e1]

\* Mirror ids are rowids and not interchangeable; workers and profiles are.
Symmetry == Permutations(Workers) \cup Permutations(Profiles)

\* Two small worlds in one instance: a file and its entity with one busy worker
\* and a reader, or relations with all workers and no reader.
Unused(S) == \A o \in S : owner[o].st = "absent" /\ \A p \in Profiles : job[p][o].st = "none"

Apart ==
    \/ Unused(Relations) /\ Cardinality({w \in Workers : ~At(w, "idle")}) <= 1
    \/ Unused(Entities \cup Attachments) /\ \A r \in Readers : ReaderAt(r, "rest") /\ snapshot[r] = NoSnapshot

ApartSpec == Init /\ [][Next /\ Apart']_vars

=============================================================================
