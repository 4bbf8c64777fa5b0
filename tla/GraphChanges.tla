---------------------------- MODULE GraphChanges ----------------------------
(***************************************************************************)
(* What a request changes is what its two captures tell.                   *)
(*                                                                         *)
(* affected_names is computed before a request runs; whatever the request  *)
(* then does, the rows of every other entity are left alone (Confined).    *)
(* From that, the counters brought up to date by the difference of the     *)
(* captures equal what counting the rows gives, and a subscriber that      *)
(* applies the change events keeps an exact copy.                          *)
(***************************************************************************)
EXTENDS GraphProofs

-----------------------------------------------------------------------------
(* Rows outside a set of names *)

\* An entity whose name is not among N, and a live mirror that starts at one.
Out(d, i, N) == i \in DOMAIN d.entity /\ d.entity[i].name \notin N
Far(d, m, N) == m \in Live(d) /\ Out(d, d.mirror[m].triple[1], N)

\* What hangs on them.
OutObs(d, o, N) == o \in DOMAIN d.observation /\ Out(d, d.observation[o].entity, N)
OutRel(d, r, N) == r \in d.relation /\ (Out(d, r[1], N) \/ Out(d, r[2], N))
OutRelObs(d, o, N) == o \in DOMAIN d.relobs /\ Far(d, d.relobs[o].mirror, N)
OutOwner(d, kind, owner, N) == (kind = "entity" /\ Out(d, owner, N)) \/ (kind = "relation" /\ Far(d, owner, N))
OutKey(d, k, N) == k \in DOMAIN d.attribute /\ OutOwner(d, k[1], k[2], N)

\* Going from d to e leaves all of that as it is.
SameEntitiesOut(d, e, N) ==
    \A i : (Out(d, i, N) <=> Out(e, i, N)) /\ (Out(d, i, N) => e.entity[i] = d.entity[i])
SameObsOut(d, e, N) ==
    \A o : (OutObs(d, o, N) <=> OutObs(e, o, N)) /\ (OutObs(d, o, N) => e.observation[o] = d.observation[o])
SameRelsOut(d, e, N) == \A r : OutRel(d, r, N) <=> OutRel(e, r, N)
SameMirrorsOut(d, e, N) ==
    \A m : (Far(d, m, N) <=> Far(e, m, N)) /\ (Far(d, m, N) => e.mirror[m] = d.mirror[m])
SameRelObsOut(d, e, N) ==
    \A o : (OutRelObs(d, o, N) <=> OutRelObs(e, o, N)) /\ (OutRelObs(d, o, N) => e.relobs[o] = d.relobs[o])
SameKeysOut(d, e, N) ==
    \A k : (OutKey(d, k, N) <=> OutKey(e, k, N)) /\ (OutKey(d, k, N) => e.attribute[k] = d.attribute[k])

Confined(d, e, N) ==
    /\ SameEntitiesOut(d, e, N) /\ SameObsOut(d, e, N) /\ SameRelsOut(d, e, N)
    /\ SameMirrorsOut(d, e, N) /\ SameRelObsOut(d, e, N) /\ SameKeysOut(d, e, N)

\* Every type in use is in the type dictionary.
Registered(d) ==
    /\ \A i \in DOMAIN d.entity : <<0, d.entity[i].type>> \in DOMAIN d.type_dict
    /\ \A r \in d.relation : <<1, r[3]>> \in DOMAIN d.type_dict

\* No statement of a request writes a count of an entity it keeps; only
\* RenameEntity writes its name.
RowsKept(d, e) ==
    /\ d.seq.entity \in Nat /\ e.seq.entity \in Nat /\ d.seq.entity <= e.seq.entity
    /\ DOMAIN e.entity \subseteq Nat
    /\ \A i \in DOMAIN e.entity : i <= d.seq.entity =>
           /\ i \in DOMAIN d.entity /\ e.entity[i].name = d.entity[i].name
           /\ e.entity[i].obs_count = d.entity[i].obs_count
           /\ e.entity[i].out_deg = d.entity[i].out_deg
           /\ e.entity[i].in_deg = d.entity[i].in_deg

\* Nor a total, except the one of relation observations; new types count zero.
TotalsKept(d, e) ==
    /\ e.stat.entities = d.stat.entities
    /\ e.stat.relations = d.stat.relations
    /\ e.stat.observations = d.stat.observations
    /\ DOMAIN d.type_dict \subseteq DOMAIN e.type_dict
    /\ \A k \in DOMAIN e.type_dict : e.type_dict[k] = IF k \in DOMAIN d.type_dict THEN d.type_dict[k] ELSE 0

Kept(d, e) == RowsKept(d, e) /\ TotalsKept(d, e) /\ (Registered(d) => Registered(e))

\* Relation observations that are not on file but still counted.
Surplus(d) == d.stat.relation_obs - Cardinality(DOMAIN d.relobs)

\* No relation goes, and its observations are counted.
Steady(d, e) == Surplus(e) = Surplus(d) /\ Live(d) \subseteq Live(e)

\* Relations go; their observations go with them and stay counted.
Cuts(d, e) ==
    /\ e.stat.relation_obs = d.stat.relation_obs
    /\ e.relation \subseteq d.relation
    /\ DOMAIN e.relobs \subseteq DOMAIN d.relobs
    /\ \A o \in DOMAIN d.relobs :
           \/ o \in DOMAIN e.relobs /\ e.relobs[o] = d.relobs[o]
           \/ e.mirror[d.relobs[o].mirror].deleted
    /\ \A m \in DOMAIN d.mirror :
           /\ m \in DOMAIN e.mirror /\ e.mirror[m].triple = d.mirror[m].triple
           /\ d.mirror[m].deleted => e.mirror[m].deleted

\* What a statement that deletes no relation does, and one that does.
Writes(d, e, N) == Confined(d, e, N) /\ Kept(d, e) /\ Steady(d, e)
Removes(d, e, N) == Confined(d, e, N) /\ Kept(d, e) /\ Cuts(d, e)

\* Nothing done is confined, and two confined steps are.
LEMMA ConfinedSteps ==
    /\ \A d, N : Confined(d, d, N)
    /\ \A d, e, f, N : Confined(d, e, N) /\ Confined(e, f, N) => Confined(d, f, N)
<1>1. \A d, N : Confined(d, d, N)
    BY DEF Confined, SameEntitiesOut, SameObsOut, SameRelsOut, SameMirrorsOut, SameRelObsOut, SameKeysOut
<1>2. ASSUME NEW d, NEW e, NEW f, NEW N, Confined(d, e, N), Confined(e, f, N) PROVE Confined(d, f, N)
  <2>1. SameEntitiesOut(d, f, N)
    BY <1>2 DEF Confined, SameEntitiesOut
  <2>2. SameObsOut(d, f, N)
    BY <1>2 DEF Confined, SameObsOut
  <2>3. SameRelsOut(d, f, N)
    BY <1>2 DEF Confined, SameRelsOut
  <2>4. SameMirrorsOut(d, f, N)
    BY <1>2 DEF Confined, SameMirrorsOut
  <2>5. SameRelObsOut(d, f, N)
    BY <1>2 DEF Confined, SameRelObsOut
  <2>6. SameKeysOut(d, f, N)
    BY <1>2 DEF Confined, SameKeysOut
  <2> QED BY <2>1, <2>2, <2>3, <2>4, <2>5, <2>6 DEF Confined
<1> QED BY <1>1, <1>2

\* Counts and totals are kept by nothing done, and by two steps that keep them.
LEMMA KeptSteps ==
    /\ \A d : Sound(d) => Kept(d, d)
    /\ \A d, e, f : Kept(d, e) /\ Kept(e, f) => Kept(d, f)
<1>1. ASSUME NEW d, Sound(d) PROVE Kept(d, d)
    BY <1>1, Fields DEF Kept, RowsKept, TotalsKept
<1>2. ASSUME NEW d, NEW e, NEW f, Kept(d, e), Kept(e, f) PROVE Kept(d, f)
  <2>1. RowsKept(d, f)
    BY <1>2 DEF Kept, RowsKept
  <2>2. TotalsKept(d, f)
    BY <1>2 DEF Kept, TotalsKept
  <2> QED BY <1>2, <2>1, <2>2 DEF Kept
<1> QED BY <1>1, <1>2

\* So are the two ledgers.
LEMMA LedgerSteps ==
    /\ \A d : Steady(d, d) /\ Cuts(d, d)
    /\ \A d, e, f : Steady(d, e) /\ Steady(e, f) => Steady(d, f)
    /\ \A d, e, f : Sound(d) /\ Cuts(d, e) /\ Cuts(e, f) => Cuts(d, f)
<1>1. \A d : Steady(d, d) /\ Cuts(d, d)
    BY DEF Steady, Cuts
<1>2. \A d, e, f : Steady(d, e) /\ Steady(e, f) => Steady(d, f)
    BY DEF Steady
<1>3. ASSUME NEW d, NEW e, NEW f, Sound(d), Cuts(d, e), Cuts(e, f) PROVE Cuts(d, f)
  <2>0. \A o \in DOMAIN d.relobs : d.relobs[o].mirror \in DOMAIN d.mirror
    BY <1>3 DEF Sound, RelationObservationsOK, IsTable, Live
  <2>1. ASSUME NEW o \in DOMAIN d.relobs
        PROVE  \/ o \in DOMAIN f.relobs /\ f.relobs[o] = d.relobs[o]
               \/ f.mirror[d.relobs[o].mirror].deleted
    BY <1>3, <2>0 DEF Cuts
  <2> QED BY <1>3, <2>1 DEF Cuts
<1> QED BY <1>1, <1>2, <1>3

\* The two kinds of step compose.
LEMMA WriteSteps ==
    /\ \A d, N : Sound(d) => Writes(d, d, N) /\ Removes(d, d, N)
    /\ \A d, e, f, N : Writes(d, e, N) /\ Writes(e, f, N) => Writes(d, f, N)
    /\ \A d, e, f, N : Sound(d) /\ Removes(d, e, N) /\ Removes(e, f, N) => Removes(d, f, N)
<1>1. \A d, N : Sound(d) => Writes(d, d, N) /\ Removes(d, d, N)
    BY ConfinedSteps, KeptSteps, LedgerSteps DEF Writes, Removes
<1>2. ASSUME NEW d, NEW e, NEW f, NEW N, Writes(d, e, N), Writes(e, f, N) PROVE Writes(d, f, N)
    BY <1>2, ConfinedSteps, KeptSteps, LedgerSteps DEF Writes
<1>3. ASSUME NEW d, NEW e, NEW f, NEW N, Sound(d), Removes(d, e, N), Removes(e, f, N) PROVE Removes(d, f, N)
    BY <1>3, ConfinedSteps, KeptSteps, LedgerSteps DEF Removes
<1> QED BY <1>1, <1>2, <1>3

\* The same entities and mirrors are outside.
LEMMA SameOut ==
    ASSUME NEW d, NEW e, e.entity = d.entity, e.relation = d.relation, e.mirror = d.mirror, NEW N
    PROVE  /\ \A i : Out(d, i, N) <=> Out(e, i, N)
           /\ \A m : Far(d, m, N) <=> Far(e, m, N)
           /\ \A kind, owner : OutOwner(d, kind, owner, N) <=> OutOwner(e, kind, owner, N)
           /\ Live(e) = Live(d)
           /\ SameEntitiesOut(d, e, N) /\ SameRelsOut(d, e, N) /\ SameMirrorsOut(d, e, N)
<1>1. Live(e) = Live(d)
    BY DEF Live
<1>2. \A i : Out(d, i, N) <=> Out(e, i, N)
    BY DEF Out
<1>3. \A m : Far(d, m, N) <=> Far(e, m, N)
    BY <1>1, <1>2 DEF Far
<1>4. \A kind, owner : OutOwner(d, kind, owner, N) <=> OutOwner(e, kind, owner, N)
    BY <1>2, <1>3 DEF OutOwner
<1>5. SameEntitiesOut(d, e, N) /\ SameRelsOut(d, e, N) /\ SameMirrorsOut(d, e, N)
    BY <1>2, <1>3 DEF SameEntitiesOut, SameRelsOut, SameMirrorsOut, OutRel
<1> QED BY <1>1, <1>2, <1>3, <1>4, <1>5

\* Counts and totals live in four fields.
LEMMA SameKept ==
    ASSUME NEW d, Sound(d), NEW e, e.entity = d.entity, e.relation = d.relation, e.seq.entity = d.seq.entity,
           e.type_dict = d.type_dict, e.stat.entities = d.stat.entities, e.stat.relations = d.stat.relations,
           e.stat.observations = d.stat.observations
    PROVE  Kept(d, e)
<1>1. d.seq.entity \in Nat /\ DOMAIN d.entity \subseteq Nat
    BY Fields
<1>2. RowsKept(d, e)
    BY <1>1 DEF RowsKept
<1>3. TotalsKept(d, e)
    BY DEF TotalsKept
<1>4. Registered(d) => Registered(e)
    BY DEF Registered
<1> QED BY <1>2, <1>3, <1>4 DEF Kept

\* The fields that no text or attribute of an entity touches.
SameRest(d, e) ==
    /\ e.entity = d.entity /\ e.relation = d.relation /\ e.mirror = d.mirror /\ e.relobs = d.relobs
    /\ e.seq.entity = d.seq.entity /\ e.stat = d.stat /\ e.type_dict = d.type_dict

\* Texts and attributes of entities may change inside N.
LEMMA SameRestWrites ==
    ASSUME NEW d, Sound(d), NEW e, SameRest(d, e), NEW N, SameObsOut(d, e, N), SameKeysOut(d, e, N)
    PROVE  Writes(d, e, N)
<1>1. /\ \A m : Far(d, m, N) <=> Far(e, m, N)
      /\ Live(e) = Live(d)
      /\ SameEntitiesOut(d, e, N) /\ SameRelsOut(d, e, N) /\ SameMirrorsOut(d, e, N)
    BY SameOut DEF SameRest
<1>2. SameRelObsOut(d, e, N)
    BY <1>1 DEF SameRelObsOut, OutRelObs, SameRest
<1>3. Kept(d, e)
    BY SameKept DEF SameRest
<1>4. Steady(d, e)
    BY <1>1 DEF Steady, Surplus, SameRest
<1> QED BY <1>1, <1>2, <1>3, <1>4 DEF Writes, Confined

\* Attributes that are the same are the same outside.
LEMMA SameKeys ==
    ASSUME NEW d, NEW e, e.entity = d.entity, e.relation = d.relation, e.mirror = d.mirror, e.attribute = d.attribute, NEW N
    PROVE  SameKeysOut(d, e, N)
<1>1. \A kind, owner : OutOwner(d, kind, owner, N) <=> OutOwner(e, kind, owner, N)
    BY SameOut
<1> QED BY <1>1 DEF SameKeysOut, OutKey

\* Texts that are the same are the same outside.
LEMMA SameObs ==
    ASSUME NEW d, NEW e, e.entity = d.entity, e.observation = d.observation, NEW N
    PROVE  SameObsOut(d, e, N)
BY DEF SameObsOut, OutObs, Out

\* A text of an entity in N.
LEMMA InsertObservationWrites ==
    ASSUME NEW d, Sound(d), NEW i, NEW b, NEW N, ~Out(d, i, N)
    PROVE  Writes(d, InsertObservation(d, i, b), N)
<1> DEFINE o == d.seq.obs + 1
           row == [entity |-> i, body |-> b]
           e == InsertObservation(d, i, b)
<1>0. d.seq.obs \in Nat /\ DOMAIN d.observation \subseteq 1..d.seq.obs
    BY DEF Sound, CountersOK, ObservationsOK, IsTable
<1>1. IsStore(d)
    BY DEF Sound, CountersOK
<1>2. e = [d EXCEPT !.seq = [d.seq EXCEPT !.obs = o], !.observation = With(d.observation, o, row), !.obs_fts = d.obs_fts \cup {<<o, b>>}]
    BY DEF InsertObservation
<1> HIDE DEF e
<1>3. SameRest(d, e) /\ e.observation = With(d.observation, o, row) /\ e.attribute = d.attribute
    BY <1>1, <1>2 DEF IsStore, SameRest, Sound, CountersOK
<1>4. \A k : Out(d, k, N) <=> Out(e, k, N)
    BY <1>3 DEF SameRest, Out
<1>5. o \notin DOMAIN d.observation
    BY <1>0
<1> HIDE DEF o
<1>6. SameObsOut(d, e, N)
    BY <1>3, <1>4, <1>5 DEF SameObsOut, OutObs, With
<1>7. SameKeysOut(d, e, N)
    BY <1>3, SameKeys DEF SameRest
<1> QED BY <1>3, <1>6, <1>7, SameRestWrites DEF e

\* Texts of an entity in N that go.
LEMMA DeleteObservationRowsWrites ==
    ASSUME NEW d, Sound(d), NEW os, NEW N, \A o \in os : ~OutObs(d, o, N)
    PROVE  Writes(d, DeleteObservationRows(d, os), N)
<1> DEFINE e == DeleteObservationRows(d, os)
<1>1. IsStore(d)
    BY DEF Sound, CountersOK
<1>2. e = [d EXCEPT !.observation = Without(d.observation, os),
                    !.obs_fts = d.obs_fts \ {<<o, d.observation[o].body>> : o \in os \cap DOMAIN d.observation}]
    BY DEF DeleteObservationRows
<1> HIDE DEF e
<1>3. SameRest(d, e) /\ e.observation = Without(d.observation, os) /\ e.attribute = d.attribute
    BY <1>1, <1>2 DEF IsStore, SameRest, Sound, CountersOK
<1>4. \A k : Out(d, k, N) <=> Out(e, k, N)
    BY <1>3 DEF SameRest, Out
<1>6. SameObsOut(d, e, N)
    BY <1>3, <1>4 DEF SameObsOut, OutObs, Without
<1>7. SameKeysOut(d, e, N)
    BY <1>3, SameKeys DEF SameRest
<1> QED BY <1>3, <1>6, <1>7, SameRestWrites DEF e

\* The attributes of an owner in N.
LEMMA AttributesWrites ==
    ASSUME NEW d, Sound(d), NEW u, NEW e, e = [d EXCEPT !.attribute = u], NEW N,
           \A k : (k \in DOMAIN u /\ OutOwner(d, k[1], k[2], N)) <=> OutKey(d, k, N),
           \A k : OutKey(d, k, N) => u[k] = d.attribute[k]
    PROVE  Writes(d, e, N)
<1>1. IsStore(d)
    BY DEF Sound, CountersOK
<1>2. SameRest(d, e) /\ e.attribute = u /\ e.observation = d.observation
    BY <1>1 DEF IsStore, SameRest, Sound, CountersOK
<1>3. \A kind, owner : OutOwner(d, kind, owner, N) <=> OutOwner(e, kind, owner, N)
    BY <1>2, SameOut DEF SameRest
<1>4. SameKeysOut(d, e, N)
    BY <1>2, <1>3 DEF SameKeysOut, OutKey
<1>5. SameObsOut(d, e, N)
    BY <1>2, SameObs DEF SameRest
<1> QED BY <1>2, <1>4, <1>5, SameRestWrites

\* upsert_attributes on an owner in N.
LEMMA UpsertAttributesWrites ==
    ASSUME NEW d, Sound(d), NEW kind, NEW owner, NEW attributes, NEW N, ~OutOwner(d, kind, owner, N)
    PROVE  Writes(d, upsert_attributes(d, kind, owner, attributes), N)
<1> DEFINE keys == {<<kind, owner, key>> : key \in DOMAIN attributes}
           written == [k \in keys |-> attributes[k[3]]]
           u == Over(written, d.attribute)
<1>1. \A k \in keys : ~OutOwner(d, k[1], k[2], N)
    OBVIOUS
<1> HIDE DEF keys
<1>2. DOMAIN u = keys \cup DOMAIN d.attribute /\ \A k \in DOMAIN d.attribute : k \notin keys => u[k] = d.attribute[k]
    BY DEF Over
<1>3. upsert_attributes(d, kind, owner, attributes) = [d EXCEPT !.attribute = u]
    BY DEF upsert_attributes, keys
<1> HIDE DEF u
<1> QED BY <1>1, <1>2, <1>3, AttributesWrites DEF OutKey

\* delete_attribute_keys on an owner in N.
LEMMA DeleteAttributeKeysWrites ==
    ASSUME NEW d, Sound(d), NEW kind, NEW owner, NEW gone, NEW N, ~OutOwner(d, kind, owner, N)
    PROVE  Writes(d, delete_attribute_keys(d, kind, owner, gone), N)
<1> DEFINE keys == {<<kind, owner, key>> : key \in gone}
           u == Without(d.attribute, keys)
<1>1. \A k \in keys : ~OutOwner(d, k[1], k[2], N)
    OBVIOUS
<1> HIDE DEF keys
<1>2. DOMAIN u = DOMAIN d.attribute \ keys /\ \A k \in DOMAIN d.attribute : k \notin keys => u[k] = d.attribute[k]
    BY DEF Without
<1>3. delete_attribute_keys(d, kind, owner, gone) = [d EXCEPT !.attribute = u]
    BY DEF delete_attribute_keys, keys
<1> HIDE DEF u
<1> QED BY <1>1, <1>2, <1>3, AttributesWrites DEF OutKey

\* Relation observations of mirrors inside N may change.
LEMMA RelObsConfined ==
    ASSUME NEW d, Sound(d), NEW e, e.entity = d.entity, e.relation = d.relation, e.mirror = d.mirror,
           e.seq.entity = d.seq.entity, e.type_dict = d.type_dict, e.stat.entities = d.stat.entities,
           e.stat.relations = d.stat.relations, e.stat.observations = d.stat.observations,
           e.observation = d.observation, e.attribute = d.attribute, NEW N, SameRelObsOut(d, e, N)
    PROVE  Confined(d, e, N) /\ Kept(d, e)
<1>1. SameEntitiesOut(d, e, N) /\ SameRelsOut(d, e, N) /\ SameMirrorsOut(d, e, N)
    BY SameOut
<1>2. SameKeysOut(d, e, N)
    BY SameKeys
<1>3. SameObsOut(d, e, N)
    BY SameObs
<1>4. Kept(d, e)
    BY SameKept
<1> QED BY <1>1, <1>2, <1>3, <1>4 DEF Confined

\* The rows of a table with numbers as keys can be counted.
LEMMA RowsCount ==
    ASSUME NEW t, NEW n \in Nat, NEW R, IsTable(t, 1..n, R)
    PROVE  /\ IsFiniteSet(DOMAIN t) /\ Cardinality(DOMAIN t) \in Nat
           /\ \A S \in SUBSET DOMAIN t : IsFiniteSet(S) /\ Cardinality(S) \in Nat
           /\ \A S \in SUBSET DOMAIN t : Cardinality(DOMAIN t \ S) = Cardinality(DOMAIN t) - Cardinality(S)
<1>1. IsFiniteSet(1..n) /\ DOMAIN t \subseteq 1..n
    BY FS_Interval DEF IsTable
<1>2. IsFiniteSet(DOMAIN t)
    BY <1>1, FS_Subset
<1>3. ASSUME NEW S \in SUBSET DOMAIN t
      PROVE  /\ IsFiniteSet(S) /\ Cardinality(S) \in Nat
             /\ Cardinality(DOMAIN t \ S) = Cardinality(DOMAIN t) - Cardinality(S)
  <2>1. IsFiniteSet(S)
    BY <1>2, FS_Subset
  <2>2. Cardinality(S) \in Nat /\ Cardinality(DOMAIN t) \in Nat
    BY <1>2, <2>1, FS_CardinalityType
  <2>3. DOMAIN t \cap S = S
    OBVIOUS
  <2>4. Cardinality(DOMAIN t \ S) = Cardinality(DOMAIN t) - Cardinality(DOMAIN t \cap S)
    BY <1>2, <2>1, FS_Difference
  <2> QED BY <2>1, <2>2, <2>3, <2>4
<1> QED BY <1>2, <1>3, FS_CardinalityType

\* A relation observation of a mirror in N, counted at once.
LEMMA InsertRelationObservationWrites ==
    ASSUME NEW d, Sound(d), NEW m, NEW b, NEW N, ~Far(d, m, N)
    PROVE  Writes(d, InsertRelationObservation(d, m, b), N)
<1> DEFINE o == d.seq.rel_obs + 1
           row == [mirror |-> m, body |-> b]
           e == InsertRelationObservation(d, m, b)
<1>0. /\ d.seq.rel_obs \in Nat /\ DOMAIN d.relobs \subseteq 1..d.seq.rel_obs
      /\ d.stat \in [entities : Int, relations : Int, observations : Int, relation_obs : Int]
      /\ IsTable(d.relobs, 1..d.seq.rel_obs, [mirror : Live(d), body : Bodies])
    BY DEF Sound, CountersOK, RelationObservationsOK, IsTable
<1>1. IsStore(d)
    BY DEF Sound, CountersOK
<1>2. e = [d EXCEPT !.seq = [d.seq EXCEPT !.rel_obs = o], !.relobs = With(d.relobs, o, row),
                    !.rel_obs_fts = d.rel_obs_fts \cup {<<o, b>>},
                    !.stat = [d.stat EXCEPT !.relation_obs = d.stat.relation_obs + 1]]
    BY DEF InsertRelationObservation
<1> HIDE DEF e
<1>3. /\ e.entity = d.entity /\ e.relation = d.relation /\ e.mirror = d.mirror
      /\ e.seq.entity = d.seq.entity /\ e.type_dict = d.type_dict /\ e.stat.entities = d.stat.entities
      /\ e.stat.relations = d.stat.relations /\ e.stat.observations = d.stat.observations
      /\ e.observation = d.observation /\ e.attribute = d.attribute
      /\ e.relobs = With(d.relobs, o, row) /\ e.stat.relation_obs = d.stat.relation_obs + 1
    BY <1>0, <1>1, <1>2 DEF IsStore, Sound, CountersOK
<1>4. (\A k : Far(d, k, N) <=> Far(e, k, N)) /\ Live(e) = Live(d)
    BY <1>3, SameOut
<1>5. o \notin DOMAIN d.relobs
    BY <1>0
<1> HIDE DEF o
<1>6. SameRelObsOut(d, e, N)
    BY <1>3, <1>4, <1>5 DEF SameRelObsOut, OutRelObs, With
<1>7. DOMAIN e.relobs = DOMAIN d.relobs \cup {o}
    BY <1>3 DEF With
<1>8. Cardinality(DOMAIN e.relobs) = Cardinality(DOMAIN d.relobs) + 1 /\ Cardinality(DOMAIN d.relobs) \in Nat
    BY <1>0, <1>5, <1>7, RowsCount, FS_AddElement
<1>9. Steady(d, e)
    BY <1>0, <1>3, <1>4, <1>8 DEF Steady, Surplus
<1> QED BY <1>3, <1>6, <1>9, RelObsConfined DEF Writes, e

\* Relation observations that are deleted and taken off the counter.
LEMMA DropRelationObservationsWrites ==
    ASSUME NEW d, Sound(d), NEW os \in SUBSET DOMAIN d.relobs, NEW N, \A o \in os : ~OutRelObs(d, o, N)
    PROVE  Writes(d, DropRelationObservations(d, os), N)
<1> DEFINE e == DropRelationObservations(d, os)
<1>0. /\ d.seq.rel_obs \in Nat
      /\ d.stat \in [entities : Int, relations : Int, observations : Int, relation_obs : Int]
      /\ IsTable(d.relobs, 1..d.seq.rel_obs, [mirror : Live(d), body : Bodies])
    BY DEF Sound, CountersOK, RelationObservationsOK
<1>1. IsStore(d)
    BY DEF Sound, CountersOK
<1>2. e = [d EXCEPT !.relobs = Without(d.relobs, os),
                    !.rel_obs_fts = d.rel_obs_fts \ {<<o, d.relobs[o].body>> : o \in os \cap DOMAIN d.relobs},
                    !.stat = [d.stat EXCEPT !.relation_obs = d.stat.relation_obs - Cardinality(os)]]
  <2> DEFINE f == DeleteRelationObservationRows(d, os)
  <2>1. f = [d EXCEPT !.relobs = Without(d.relobs, os),
                      !.rel_obs_fts = d.rel_obs_fts \ {<<o, d.relobs[o].body>> : o \in os \cap DOMAIN d.relobs}]
    BY DEF DeleteRelationObservationRows
  <2>2. e = [f EXCEPT !.stat = [f.stat EXCEPT !.relation_obs = f.stat.relation_obs - Cardinality(os)]]
    BY DEF DropRelationObservations
  <2> HIDE DEF f, e
  <2> QED BY <1>1, <2>1, <2>2 DEF IsStore
<1> HIDE DEF e
<1>3. /\ e.entity = d.entity /\ e.relation = d.relation /\ e.mirror = d.mirror
      /\ e.seq.entity = d.seq.entity /\ e.type_dict = d.type_dict /\ e.stat.entities = d.stat.entities
      /\ e.stat.relations = d.stat.relations /\ e.stat.observations = d.stat.observations
      /\ e.observation = d.observation /\ e.attribute = d.attribute
      /\ e.relobs = Without(d.relobs, os) /\ e.stat.relation_obs = d.stat.relation_obs - Cardinality(os)
    BY <1>0, <1>1, <1>2 DEF IsStore, Sound, CountersOK
<1>4. (\A k : Far(d, k, N) <=> Far(e, k, N)) /\ Live(e) = Live(d)
    BY <1>3, SameOut
<1>6. SameRelObsOut(d, e, N)
    BY <1>3, <1>4 DEF SameRelObsOut, OutRelObs, Without
<1>7. DOMAIN e.relobs = DOMAIN d.relobs \ os
    BY <1>3 DEF Without
<1>8. /\ Cardinality(DOMAIN e.relobs) = Cardinality(DOMAIN d.relobs) - Cardinality(os)
      /\ Cardinality(DOMAIN d.relobs) \in Nat /\ Cardinality(os) \in Nat
    BY <1>0, <1>7, RowsCount
<1>9. Steady(d, e)
    BY <1>0, <1>3, <1>4, <1>8 DEF Steady, Surplus
<1> QED BY <1>3, <1>6, <1>9, RelObsConfined DEF Writes, e

\* Rows other than mirrors and what hangs on them.
SameOwners(d, e) ==
    /\ e.entity = d.entity /\ e.relation = d.relation /\ e.observation = d.observation /\ e.seq.entity = d.seq.entity
    /\ e.stat.entities = d.stat.entities /\ e.stat.relations = d.stat.relations
    /\ e.stat.observations = d.stat.observations /\ e.type_dict = d.type_dict

\* Mirrors inside N may change, with what hangs on them.
LEMMA SameOwnersConfined ==
    ASSUME NEW d, Sound(d), NEW e, SameOwners(d, e), NEW N,
           SameMirrorsOut(d, e, N), SameRelObsOut(d, e, N), SameKeysOut(d, e, N)
    PROVE  Confined(d, e, N) /\ Kept(d, e)
<1>1. SameEntitiesOut(d, e, N)
    BY DEF SameOwners, SameEntitiesOut, Out
<1>2. SameRelsOut(d, e, N)
    BY DEF SameOwners, SameRelsOut, OutRel, Out
<1>3. SameObsOut(d, e, N)
    BY SameObs DEF SameOwners
<1>4. Kept(d, e)
    BY SameKept DEF SameOwners
<1> QED BY <1>1, <1>2, <1>3, <1>4 DEF Confined

\* A new type counts zero.
LEMMA TypeIdWrites ==
    ASSUME NEW d, Sound(d), NEW kind, NEW t, NEW N
    PROVE  LET e == type_id(d, kind, t)
           IN  Writes(d, e, N) /\ <<kind, t>> \in DOMAIN e.type_dict
<1> DEFINE td == With(d.type_dict, <<kind, t>>, 0)
           e == type_id(d, kind, t)
<1>1. CASE <<kind, t>> \in DOMAIN d.type_dict
    BY <1>1, WriteSteps DEF type_id
<1>2. CASE <<kind, t>> \notin DOMAIN d.type_dict
  <2>1. IsStore(d) /\ d.seq.entity \in Nat /\ DOMAIN d.entity \subseteq Nat
    BY Fields DEF Sound, CountersOK
  <2>2. e = [d EXCEPT !.type_dict = td]
    BY <1>2 DEF type_id
  <2>3. DOMAIN td = DOMAIN d.type_dict \cup {<<kind, t>>} /\ td[<<kind, t>>] = 0
        /\ \A k \in DOMAIN d.type_dict : td[k] = d.type_dict[k]
    BY <1>2 DEF With
  <2> HIDE DEF e, td
  <2>4. /\ e.entity = d.entity /\ e.relation = d.relation /\ e.mirror = d.mirror /\ e.relobs = d.relobs
        /\ e.attribute = d.attribute /\ e.observation = d.observation /\ e.seq = d.seq /\ e.stat = d.stat
        /\ e.type_dict = td
    BY <2>1, <2>2 DEF IsStore
  <2>5. /\ Live(e) = Live(d) /\ \A m : Far(d, m, N) <=> Far(e, m, N)
        /\ SameEntitiesOut(d, e, N) /\ SameRelsOut(d, e, N) /\ SameMirrorsOut(d, e, N)
    BY <2>4, SameOut
  <2>6. SameKeysOut(d, e, N) /\ SameObsOut(d, e, N)
    BY <2>4, SameKeys, SameObs
  <2>7. SameRelObsOut(d, e, N)
    BY <2>4, <2>5 DEF SameRelObsOut, OutRelObs
  <2>8. RowsKept(d, e)
    BY <2>1, <2>4 DEF RowsKept
  <2>9. TotalsKept(d, e)
    BY <2>3, <2>4 DEF TotalsKept
  <2>10. Registered(d) => Registered(e)
    BY <2>3, <2>4 DEF Registered
  <2>11. Steady(d, e)
    BY <2>4, <2>5 DEF Steady, Surplus
  <2>12. Writes(d, e, N)
    BY <2>5, <2>6, <2>7, <2>8, <2>9, <2>10, <2>11 DEF Writes, Confined, Kept
  <2> QED BY <2>3, <2>4, <2>12 DEF e
<1> QED BY <1>1, <1>2

\* Relations between entities in N may come and go.
LEMMA RelationsChange ==
    ASSUME NEW d, Sound(d), NEW rr, NEW e, e = [d EXCEPT !.relation = rr], NEW N,
           \A r : (r \in rr /\ (Out(d, r[1], N) \/ Out(d, r[2], N))) <=> OutRel(d, r, N),
           \A r \in rr : r \in d.relation \/ <<1, r[3]>> \in DOMAIN d.type_dict
    PROVE  Writes(d, e, N) /\ (rr \subseteq d.relation => Removes(d, e, N))
<1>1. IsStore(d) /\ d.seq.entity \in Nat /\ DOMAIN d.entity \subseteq Nat
    BY Fields DEF Sound, CountersOK
<1>2. /\ e.entity = d.entity /\ e.relation = rr /\ e.mirror = d.mirror /\ e.relobs = d.relobs
      /\ e.attribute = d.attribute /\ e.observation = d.observation /\ e.seq = d.seq /\ e.stat = d.stat
      /\ e.type_dict = d.type_dict
    BY <1>1 DEF IsStore
<1>3. \A i : Out(d, i, N) <=> Out(e, i, N)
    BY <1>2 DEF Out
<1>4. Live(e) = Live(d) /\ \A m : Far(d, m, N) <=> Far(e, m, N)
    BY <1>2, <1>3 DEF Live, Far
<1>5. SameEntitiesOut(d, e, N) /\ SameMirrorsOut(d, e, N)
    BY <1>2, <1>3, <1>4 DEF SameEntitiesOut, SameMirrorsOut
<1>6. SameRelsOut(d, e, N)
    BY <1>2, <1>3 DEF SameRelsOut, OutRel
<1>7. SameObsOut(d, e, N)
    BY <1>2, SameObs
<1>8. SameRelObsOut(d, e, N) /\ SameKeysOut(d, e, N)
    BY <1>2, <1>3, <1>4 DEF SameRelObsOut, OutRelObs, SameKeysOut, OutKey, OutOwner
<1>9. Kept(d, e)
  <2>1. RowsKept(d, e)
    BY <1>1, <1>2 DEF RowsKept
  <2>2. TotalsKept(d, e)
    BY <1>2 DEF TotalsKept
  <2>3. Registered(d) => Registered(e)
    BY <1>2 DEF Registered
  <2> QED BY <2>1, <2>2, <2>3 DEF Kept
<1>10. Steady(d, e) /\ (rr \subseteq d.relation => Cuts(d, e))
    BY <1>2, <1>4 DEF Steady, Surplus, Cuts
<1> QED BY <1>5, <1>6, <1>7, <1>8, <1>9, <1>10 DEF Writes, Removes, Confined

\* A mirror that starts in N, put in.
LEMMA PutMirrorInside ==
    ASSUME NEW d, MirrorsOK(d), NEW r \in Links, NEW del \in BOOLEAN, NEW m, NEW e, Puts(d, e, m, r, del),
           e.entity = d.entity, NEW N, ~Out(d, r[1], N)
    PROVE  /\ \A i : Out(d, i, N) <=> Out(e, i, N)
           /\ ~Far(d, m, N) /\ ~Far(e, m, N) /\ SameMirrorsOut(d, e, N)
           /\ ~del => Live(d) \subseteq Live(e)
<1>1. /\ MirrorsOK(e) /\ MirrorsOf(e, r) = {m} /\ DOMAIN e.mirror = DOMAIN d.mirror \cup {m}
      /\ e.mirror[m] = [triple |-> r, deleted |-> del]
      /\ \A k \in DOMAIN d.mirror : k # m => e.mirror[k] = d.mirror[k] /\ d.mirror[k].triple # r
      /\ m \in DOMAIN d.mirror => d.mirror[m].triple = r
    BY PutMirrorRow
<1>2. \A i : Out(d, i, N) <=> Out(e, i, N)
    BY DEF Out
<1>3. ~Far(d, m, N) /\ ~Far(e, m, N)
    BY <1>1, <1>2 DEF Far, Live
<1>4. \A k : k # m => (k \in Live(d) <=> k \in Live(e))
    BY <1>1 DEF Live
<1>5. \A k \in Live(d) : k # m => e.mirror[k] = d.mirror[k]
    BY <1>1 DEF Live
<1>6. SameMirrorsOut(d, e, N)
    BY <1>2, <1>3, <1>4, <1>5 DEF SameMirrorsOut, Far
<1>7. ~del => Live(d) \subseteq Live(e)
    BY <1>1, <1>4 DEF Live
<1> QED BY <1>2, <1>3, <1>6, <1>7

\* create_relation's mirror.
LEMMA PutLiveWrites ==
    ASSUME NEW d, Sound(d), NEW r \in Links, NEW N, ~Out(d, r[1], N)
    PROVE  Writes(d, PutMirror(d, r, FALSE), N)
<1> DEFINE m == MirrorFor(d, r)
           e == PutMirror(d, r, FALSE)
<1>1. IsStore(d) /\ MirrorsOK(d)
    BY DEF Sound, CountersOK
<1> HIDE DEF m
<1>2. e = [d EXCEPT !.mirror = With(d.mirror, m, [triple |-> r, deleted |-> FALSE])]
    BY DEF PutMirror, m
<1> HIDE DEF e
<1>3. /\ SameOwners(d, e) /\ e.relobs = d.relobs /\ e.attribute = d.attribute /\ e.stat = d.stat
      /\ e.mirror = With(d.mirror, m, [triple |-> r, deleted |-> FALSE])
    BY <1>1, <1>2 DEF IsStore, SameOwners
<1>4. Puts(d, e, m, r, FALSE)
    BY <1>3 DEF Puts, m
<1>5. /\ \A i : Out(d, i, N) <=> Out(e, i, N)
      /\ SameMirrorsOut(d, e, N) /\ Live(d) \subseteq Live(e)
    BY <1>1, <1>3, <1>4, PutMirrorInside DEF SameOwners
<1>6. \A k : Far(d, k, N) <=> Far(e, k, N)
    BY <1>5 DEF SameMirrorsOut
<1>7. SameRelObsOut(d, e, N) /\ SameKeysOut(d, e, N)
    BY <1>3, <1>5, <1>6 DEF SameRelObsOut, OutRelObs, SameKeysOut, OutKey, OutOwner
<1>8. Steady(d, e)
    BY <1>3, <1>5 DEF Steady, Surplus
<1> QED BY <1>3, <1>5, <1>7, <1>8, SameOwnersConfined DEF Writes, e

\* tombstone_relation_mirror, field by field.
LEMMA TombstoneFields ==
    ASSUME NEW d, Sound(d), NEW r \in Links
    PROVE  LET m == MirrorFor(d, r)
               e == tombstone_relation_mirror(d, r)
           IN  /\ SameOwners(d, e) /\ e.stat = d.stat
               /\ e.mirror = With(d.mirror, m, [triple |-> r, deleted |-> TRUE])
               /\ e.relobs = Without(d.relobs, {o \in DOMAIN d.relobs : d.relobs[o].mirror = m})
               /\ e.attribute = Without(d.attribute, {<<"relation", m, key>> : key \in AttrKeys})
               /\ Puts(d, e, m, r, TRUE)
<1> DEFINE m == MirrorFor(d, r)
           mm == With(d.mirror, m, [triple |-> r, deleted |-> TRUE])
           d1 == PutMirror(d, r, TRUE)
           os == {o \in DOMAIN d.relobs : d.relobs[o].mirror = m}
           d2 == DeleteRelationObservationRows(d1, os)
           tt == Without(d.relobs, os)
           x == d.rel_obs_fts \ {<<o, d.relobs[o].body>> : o \in os \cap DOMAIN d.relobs}
           u == Without(d.attribute, {<<"relation", m, key>> : key \in AttrKeys})
           e == delete_attribute_keys(d2, "relation", m, AttrKeys)
<1>0. IsStore(d) /\ MirrorsOK(d)
    BY DEF Sound, CountersOK
<1>1. d1 = [d EXCEPT !.mirror = mm]
    BY DEF PutMirror
<1> HIDE DEF m, mm, d1
<1>2. d1.mirror = mm /\ d1.relobs = d.relobs /\ d1.rel_obs_fts = d.rel_obs_fts /\ d1.attribute = d.attribute
    BY <1>0, <1>1 DEF IsStore
<1>3. Puts(d, d1, m, r, TRUE)
    BY <1>2 DEF Puts, mm, m
<1>4. /\ MirrorsOK(d1) /\ MirrorsOf(d1, r) = {m} /\ DOMAIN d1.mirror = DOMAIN d.mirror \cup {m}
      /\ d1.mirror[m] = [triple |-> r, deleted |-> TRUE]
      /\ \A k \in DOMAIN d.mirror : k # m => d1.mirror[k] = d.mirror[k] /\ d.mirror[k].triple # r
      /\ m \in DOMAIN d.mirror => d.mirror[m].triple = r
    BY <1>0, <1>3, PutMirrorRow
<1>5. (CHOOSE k \in MirrorsOf(d1, r) : TRUE) = m
    BY <1>4
<1>6. tombstone_relation_mirror(d, r) = e
    BY <1>2, <1>5 DEF tombstone_relation_mirror, d1
<1> HIDE DEF os
<1>7. d2 = [d1 EXCEPT !.relobs = tt, !.rel_obs_fts = x]
    BY <1>2 DEF DeleteRelationObservationRows
<1> HIDE DEF d2, tt, x
<1>8. d2.attribute = d.attribute
    BY <1>0, <1>1, <1>7 DEF IsStore
<1>9. e = [d2 EXCEPT !.attribute = u]
    BY <1>8 DEF delete_attribute_keys
<1> HIDE DEF e, u
<1>10. /\ SameOwners(d, e) /\ e.stat = d.stat /\ e.mirror = mm /\ e.relobs = tt /\ e.attribute = u
    BY <1>0, <1>1, <1>7, <1>9 DEF IsStore, SameOwners
<1>11. Puts(d, e, m, r, TRUE)
    BY <1>10 DEF Puts, mm, m
<1> QED BY <1>6, <1>10, <1>11 DEF mm, tt, u, os, m

\* A mirror that starts in N dies with what hangs on it.
LEMMA TombstoneRemoves ==
    ASSUME NEW d, Sound(d), NEW r \in Links, NEW N, ~Out(d, r[1], N)
    PROVE  Removes(d, tombstone_relation_mirror(d, r), N)
<1> DEFINE m == MirrorFor(d, r)
           e == tombstone_relation_mirror(d, r)
           os == {o \in DOMAIN d.relobs : d.relobs[o].mirror = m}
           ks == {<<"relation", m, key>> : key \in AttrKeys}
<1>1. MirrorsOK(d)
    BY DEF Sound
<1>3. \A k \in ks : k[1] = "relation" /\ k[2] = m
    OBVIOUS
<1>2. /\ SameOwners(d, e) /\ e.stat = d.stat
      /\ e.mirror = With(d.mirror, m, [triple |-> r, deleted |-> TRUE])
      /\ e.relobs = Without(d.relobs, os)
      /\ e.attribute = Without(d.attribute, ks) /\ Puts(d, e, m, r, TRUE)
    BY TombstoneFields
<1> HIDE DEF m, e, ks
<1>4. /\ \A i : Out(d, i, N) <=> Out(e, i, N)
      /\ ~Far(d, m, N) /\ ~Far(e, m, N) /\ SameMirrorsOut(d, e, N)
    BY <1>1, <1>2, PutMirrorInside DEF SameOwners
<1>5. \A k : Far(d, k, N) <=> Far(e, k, N)
    BY <1>4 DEF SameMirrorsOut
<1>6. SameRelObsOut(d, e, N)
    BY <1>2, <1>4, <1>5 DEF SameRelObsOut, OutRelObs, Without
<1>7. \A k : k[1] = "relation" /\ k[2] = m => ~OutOwner(d, k[1], k[2], N) /\ ~OutOwner(e, k[1], k[2], N)
    BY <1>4 DEF OutOwner
<1>8. \A kind, owner : OutOwner(d, kind, owner, N) <=> OutOwner(e, kind, owner, N)
    BY <1>4, <1>5 DEF OutOwner
<1>9. SameKeysOut(d, e, N)
    BY <1>2, <1>3, <1>7, <1>8 DEF SameKeysOut, OutKey, Without
<1>10. /\ MirrorsOK(e) /\ MirrorsOf(e, r) = {m} /\ DOMAIN e.mirror = DOMAIN d.mirror \cup {m}
       /\ e.mirror[m] = [triple |-> r, deleted |-> TRUE]
       /\ \A k \in DOMAIN d.mirror : k # m => e.mirror[k] = d.mirror[k] /\ d.mirror[k].triple # r
       /\ m \in DOMAIN d.mirror => d.mirror[m].triple = r
    BY <1>1, <1>2, PutMirrorRow
<1>11. Cuts(d, e)
  <2>1. e.mirror[m].deleted /\ e.mirror[m].triple = r
    BY <1>10
  <2>2. ASSUME NEW k \in DOMAIN d.mirror
        PROVE  /\ k \in DOMAIN e.mirror /\ e.mirror[k].triple = d.mirror[k].triple
               /\ d.mirror[k].deleted => e.mirror[k].deleted
    BY <1>10, <2>1
  <2>3. DOMAIN e.relobs = DOMAIN d.relobs \ os /\ \A o \in DOMAIN e.relobs : e.relobs[o] = d.relobs[o]
    BY <1>2 DEF Without
  <2>4. \A o \in DOMAIN d.relobs : o \in DOMAIN e.relobs \/ d.relobs[o].mirror = m
    BY <2>3
  <2>5. \A o \in DOMAIN d.relobs : (o \in DOMAIN e.relobs /\ e.relobs[o] = d.relobs[o]) \/ e.mirror[d.relobs[o].mirror].deleted
    BY <2>1, <2>3, <2>4
  <2> QED BY <1>2, <2>2, <2>3, <2>5 DEF Cuts, SameOwners
<1> QED BY <1>2, <1>4, <1>6, <1>9, <1>11, SameOwnersConfined DEF Removes, e

\* What hangs on a mirror in N moves to another one in N.
LEMMA RehomeWrites ==
    ASSUME NEW d, Sound(d), NEW old, NEW new, NEW N, ~Far(d, old, N), ~Far(d, new, N)
    PROVE  LET e == rehome_relation_children(d, old, new)
           IN  /\ Writes(d, e, N) /\ DOMAIN e.relobs = DOMAIN d.relobs /\ e.stat = d.stat
               /\ old # new => \A o \in DOMAIN e.relobs : e.relobs[o].mirror # old
<1> DEFINE kept == {k \in DOMAIN d.attribute : k[1] = "relation" /\ k[2] = old}
           keys == {<<"relation", new, q[3]>> : q \in kept}
           moved == [k \in keys |-> d.attribute[<<"relation", old, k[3]>>]]
           t == [o \in DOMAIN d.relobs |-> IF d.relobs[o].mirror = old THEN [d.relobs[o] EXCEPT !.mirror = new] ELSE d.relobs[o]]
           u == Over(moved, Without(d.attribute, kept))
           e == rehome_relation_children(d, old, new)
<1>1. IsStore(d)
    BY DEF Sound, CountersOK
<1>2. e = [d EXCEPT !.relobs = t, !.attribute = u]
    BY DEF rehome_relation_children
<1>3. \A k \in keys : k[1] = "relation" /\ k[2] = new
    OBVIOUS
<1>4. \A o \in DOMAIN d.relobs : d.relobs[o] = [mirror |-> d.relobs[o].mirror, body |-> d.relobs[o].body]
    BY DEF Sound, RelationObservationsOK, IsTable
<1>5. \A o \in DOMAIN d.relobs : t[o].mirror = IF d.relobs[o].mirror = old THEN new ELSE d.relobs[o].mirror
    BY <1>4
<1>6. DOMAIN t = DOMAIN d.relobs /\ \A o \in DOMAIN d.relobs : d.relobs[o].mirror # old => t[o] = d.relobs[o]
    OBVIOUS
<1> HIDE DEF keys
<1>7. /\ DOMAIN u = keys \cup (DOMAIN d.attribute \ kept)
      /\ \A k \in DOMAIN d.attribute \ kept : k \notin keys => u[k] = d.attribute[k]
    BY DEF Over, Without
<1> HIDE DEF e, t, u
<1>8. SameOwners(d, e) /\ e.relobs = t /\ e.attribute = u /\ e.stat = d.stat /\ e.mirror = d.mirror
    BY <1>1, <1>2 DEF IsStore, SameOwners
<1>9. /\ \A m : Far(d, m, N) <=> Far(e, m, N)
      /\ \A kind, owner : OutOwner(d, kind, owner, N) <=> OutOwner(e, kind, owner, N)
      /\ Live(e) = Live(d) /\ SameMirrorsOut(d, e, N)
    BY <1>8, SameOut DEF SameOwners
<1>10. SameRelObsOut(d, e, N)
    BY <1>5, <1>6, <1>8, <1>9 DEF SameRelObsOut, OutRelObs
<1>11. \A k : (k \in kept \/ k \in keys) => ~OutOwner(d, k[1], k[2], N)
    BY <1>3 DEF OutOwner
<1> HIDE DEF kept
<1>12. SameKeysOut(d, e, N)
  <2> SUFFICES ASSUME NEW k
               PROVE  (OutKey(d, k, N) <=> OutKey(e, k, N)) /\ (OutKey(d, k, N) => e.attribute[k] = d.attribute[k])
    BY DEF SameKeysOut
  <2> QED BY <1>7, <1>8, <1>9, <1>11 DEF OutKey
<1>13. Steady(d, e)
    BY <1>6, <1>8, <1>9 DEF Steady, Surplus
<1>14. Writes(d, e, N)
    BY <1>8, <1>9, <1>10, <1>12, <1>13, SameOwnersConfined DEF Writes
<1> QED BY <1>5, <1>6, <1>8, <1>14 DEF e

-----------------------------------------------------------------------------
(* Folds stay where each of their steps does *)

\* insert_observations, text by text.
LEMMA InsertObservationsStays ==
    ASSUME NEW D, NEW d \in D, NEW i, NEW items \in Seq(Bodies), \A e \in D, b \in Bodies : InsertObservation(e, i, b) \in D
    PROVE  insert_observations(d, i, items) \in D
<1> DEFINE n == Len(items)
           g == [p \in D \X (1..n) |-> InsertObservation(p[1], i, items[p[2]])]
           Runs(it) == it = [s \in SUBSET (1..n) |->
                                IF s = {} THEN d ELSE InsertObservation(it[Before(s)], i, items[Max(s)])]
           c == CHOOSE it : Runs(it)
<1>0. n \in Nat /\ DOMAIN items = 1..n /\ \A k \in 1..n : items[k] \in Bodies
    OBVIOUS
<1>1. insert_observations(d, i, items) = c[1..n]
    BY <1>0 DEF insert_observations, FoldLeft, MapThenFoldSet, Before
<1>2. \A e \in D, k \in 1..n : InsertObservation(e, i, items[k]) \in D
    BY <1>0
<1> HIDE DEF n
<1>3. g \in [D \X (1..n) -> D]
    BY <1>2
<1>4. PICK it : /\ it \in [SUBSET (1..n) -> D] /\ RunOf(d, n, g, it, SUBSET (1..n))
                /\ \A s \in SUBSET (1..n) : s # {} => it[Before(s)] \in D /\ Max(s) \in 1..n
    BY <1>0, <1>3, FoldExists
<1>5. Runs(it)
  <2>1. \A s \in SUBSET (1..n) : it[s] = IF s = {} THEN d ELSE InsertObservation(it[Before(s)], i, items[Max(s)])
    BY <1>4 DEF RunOf
  <2> QED BY <1>4, <2>1
<1>6. Runs(c)
    BY <1>5
<1> HIDE DEF c
<1> DEFINE P == [s \in SUBSET (1..n) |-> D]
<1>7. \A s \in SUBSET (1..n) : s # {} => Before(s) \in SUBSET (1..n) /\ Max(s) \in 1..n
    BY <1>0, BeforeSmaller
<1>8. \A s \in SUBSET (1..n) : (s # {} => c[Before(s)] \in P[Before(s)]) => c[s] \in P[s]
    BY <1>2, <1>6, <1>7
<1>9. c[1..n] \in P[1..n]
    BY <1>0, <1>8, FoldReaches
<1> QED BY <1>1, <1>9

\* The texts of an upsert.
LEMMA InsertMissingStays ==
    ASSUME NEW D, NEW d \in D, NEW i, NEW items \in Seq(Bodies), \A e \in D, b \in Bodies : InsertMissing(e, i, b) \in D
    PROVE  insert_missing(d, i, items) \in D
<1> DEFINE n == Len(items)
           g == [p \in D \X (1..n) |-> InsertMissing(p[1], i, items[p[2]])]
           Runs(it) == it = [s \in SUBSET (1..n) |->
                                IF s = {} THEN d ELSE InsertMissing(it[Before(s)], i, items[Max(s)])]
           c == CHOOSE it : Runs(it)
<1>0. n \in Nat /\ DOMAIN items = 1..n /\ \A k \in 1..n : items[k] \in Bodies
    OBVIOUS
<1>1. insert_missing(d, i, items) = c[1..n]
    BY <1>0 DEF insert_missing, FoldLeft, MapThenFoldSet, Before
<1>2. \A e \in D, k \in 1..n : InsertMissing(e, i, items[k]) \in D
    BY <1>0
<1> HIDE DEF n
<1>3. g \in [D \X (1..n) -> D]
    BY <1>2
<1>4. PICK it : /\ it \in [SUBSET (1..n) -> D] /\ RunOf(d, n, g, it, SUBSET (1..n))
                /\ \A s \in SUBSET (1..n) : s # {} => it[Before(s)] \in D /\ Max(s) \in 1..n
    BY <1>0, <1>3, FoldExists
<1>5. Runs(it)
  <2>1. \A s \in SUBSET (1..n) : it[s] = IF s = {} THEN d ELSE InsertMissing(it[Before(s)], i, items[Max(s)])
    BY <1>4 DEF RunOf
  <2> QED BY <1>4, <2>1
<1>6. Runs(c)
    BY <1>5
<1> HIDE DEF c
<1> DEFINE P == [s \in SUBSET (1..n) |-> D]
<1>7. \A s \in SUBSET (1..n) : s # {} => Before(s) \in SUBSET (1..n) /\ Max(s) \in 1..n
    BY <1>0, BeforeSmaller
<1>8. \A s \in SUBSET (1..n) : (s # {} => c[Before(s)] \in P[Before(s)]) => c[s] \in P[s]
    BY <1>2, <1>6, <1>7
<1>9. c[1..n] \in P[1..n]
    BY <1>0, <1>8, FoldReaches
<1> QED BY <1>1, <1>9

\* The texts of a merge.
LEMMA CopyObservationsStays ==
    ASSUME NEW D, NEW d \in D, d.seq.obs \in Nat, NEW old, NEW i, \A e \in D, o \in 1..d.seq.obs : CopyObservation(e, d, old, i, o) \in D
    PROVE  copy_observations(d, old, i) \in D
<1> DEFINE n == d.seq.obs
           ids == [o \in 1..n |-> o]
           g == [p \in D \X (1..n) |-> CopyObservation(p[1], d, old, i, ids[p[2]])]
           Runs(it) == it = [s \in SUBSET (1..n) |->
                                IF s = {} THEN d ELSE CopyObservation(it[Before(s)], d, old, i, ids[Max(s)])]
           c == CHOOSE it : Runs(it)
<1>0. n \in Nat /\ DOMAIN ids = 1..n /\ \A k \in 1..n : ids[k] = k
    OBVIOUS
<1>1. copy_observations(d, old, i) = c[1..n]
    BY <1>0 DEF copy_observations, FoldLeft, MapThenFoldSet, Before
<1>2. \A e \in D, k \in 1..n : CopyObservation(e, d, old, i, ids[k]) \in D
    BY <1>0
<1> HIDE DEF n, ids
<1>3. g \in [D \X (1..n) -> D]
    BY <1>2
<1>4. PICK it : /\ it \in [SUBSET (1..n) -> D] /\ RunOf(d, n, g, it, SUBSET (1..n))
                /\ \A s \in SUBSET (1..n) : s # {} => it[Before(s)] \in D /\ Max(s) \in 1..n
    BY <1>0, <1>3, FoldExists
<1>5. Runs(it)
  <2>1. \A s \in SUBSET (1..n) : it[s] = IF s = {} THEN d ELSE CopyObservation(it[Before(s)], d, old, i, ids[Max(s)])
    BY <1>4 DEF RunOf
  <2> QED BY <1>4, <2>1
<1>6. Runs(c)
    BY <1>5
<1> HIDE DEF c
<1> DEFINE P == [s \in SUBSET (1..n) |-> D]
<1>7. \A s \in SUBSET (1..n) : s # {} => Before(s) \in SUBSET (1..n) /\ Max(s) \in 1..n
    BY <1>0, BeforeSmaller
<1>8. \A s \in SUBSET (1..n) : (s # {} => c[Before(s)] \in P[Before(s)]) => c[s] \in P[s]
    BY <1>2, <1>6, <1>7
<1> HIDE DEF P
<1>9. c[1..n] \in P[1..n]
    BY <1>0, <1>8, FoldReaches
<1> QED BY <1>1, <1>9 DEF P

\* insert_relation_observations, text by text.
LEMMA InsertRelationObservationsStays ==
    ASSUME NEW D, NEW d \in D, NEW m, NEW items \in Seq(Bodies), \A e \in D, b \in Bodies : InsertRelationObservation(e, m, b) \in D
    PROVE  insert_relation_observations(d, m, items) \in D
<1> DEFINE n == Len(items)
           g == [p \in D \X (1..n) |-> InsertRelationObservation(p[1], m, items[p[2]])]
           Runs(it) == it = [s \in SUBSET (1..n) |->
                                IF s = {} THEN d ELSE InsertRelationObservation(it[Before(s)], m, items[Max(s)])]
           c == CHOOSE it : Runs(it)
<1>0. n \in Nat /\ DOMAIN items = 1..n /\ \A k \in 1..n : items[k] \in Bodies
    OBVIOUS
<1>1. insert_relation_observations(d, m, items) = c[1..n]
    BY <1>0 DEF insert_relation_observations, FoldLeft, MapThenFoldSet, Before
<1>2. \A e \in D, k \in 1..n : InsertRelationObservation(e, m, items[k]) \in D
    BY <1>0
<1> HIDE DEF n
<1>3. g \in [D \X (1..n) -> D]
    BY <1>2
<1>4. PICK it : /\ it \in [SUBSET (1..n) -> D] /\ RunOf(d, n, g, it, SUBSET (1..n))
                /\ \A s \in SUBSET (1..n) : s # {} => it[Before(s)] \in D /\ Max(s) \in 1..n
    BY <1>0, <1>3, FoldExists
<1>5. Runs(it)
  <2>1. \A s \in SUBSET (1..n) : it[s] = IF s = {} THEN d ELSE InsertRelationObservation(it[Before(s)], m, items[Max(s)])
    BY <1>4 DEF RunOf
  <2> QED BY <1>4, <2>1
<1>6. Runs(c)
    BY <1>5
<1> HIDE DEF c
<1> DEFINE P == [s \in SUBSET (1..n) |-> D]
<1>7. \A s \in SUBSET (1..n) : s # {} => Before(s) \in SUBSET (1..n) /\ Max(s) \in 1..n
    BY <1>0, BeforeSmaller
<1>8. \A s \in SUBSET (1..n) : (s # {} => c[Before(s)] \in P[Before(s)]) => c[s] \in P[s]
    BY <1>2, <1>6, <1>7
<1>9. c[1..n] \in P[1..n]
    BY <1>0, <1>8, FoldReaches
<1> QED BY <1>1, <1>9

\* The cascade of a delete, relation by relation.
LEMMA TombstoneAllStays ==
    ASSUME NEW D, NEW d \in D, NEW rs, IsFiniteSet(rs), \A e \in D, r \in rs : tombstone_relation_mirror(e, r) \in D
    PROVE  TombstoneAll(d, rs) \in D
<1> DEFINE n == Cardinality(rs)
           g == [p \in D \X (1..n) |-> tombstone_relation_mirror(p[1], SetToSeq(rs)[p[2]])]
           Runs(it) == it = [s \in SUBSET (1..n) |->
                                IF s = {} THEN d ELSE tombstone_relation_mirror(it[Before(s)], SetToSeq(rs)[Max(s)])]
           c == CHOOSE it : Runs(it)
<1>0. n \in Nat /\ DOMAIN SetToSeq(rs) = 1..n /\ \A k \in 1..n : SetToSeq(rs)[k] \in rs
    BY Sequenced
<1>1. TombstoneAll(d, rs) = c[1..n]
    BY <1>0 DEF TombstoneAll, FoldLeft, MapThenFoldSet, Before
<1>2. \A e \in D, k \in 1..n : tombstone_relation_mirror(e, SetToSeq(rs)[k]) \in D
    BY <1>0
<1> HIDE DEF n
<1>3. g \in [D \X (1..n) -> D]
    BY <1>2
<1>4. PICK it : /\ it \in [SUBSET (1..n) -> D] /\ RunOf(d, n, g, it, SUBSET (1..n))
                /\ \A s \in SUBSET (1..n) : s # {} => it[Before(s)] \in D /\ Max(s) \in 1..n
    BY <1>0, <1>3, FoldExists
<1>5. Runs(it)
  <2>1. \A s \in SUBSET (1..n) : it[s] = IF s = {} THEN d ELSE tombstone_relation_mirror(it[Before(s)], SetToSeq(rs)[Max(s)])
    BY <1>4 DEF RunOf
  <2> QED BY <1>4, <2>1
<1>6. Runs(c)
    BY <1>5
<1> HIDE DEF c
<1> DEFINE P == [s \in SUBSET (1..n) |-> D]
<1>7. \A s \in SUBSET (1..n) : s # {} => Before(s) \in SUBSET (1..n) /\ Max(s) \in 1..n
    BY <1>0, BeforeSmaller
<1>8. \A s \in SUBSET (1..n) : (s # {} => c[Before(s)] \in P[Before(s)]) => c[s] \in P[s]
    BY <1>2, <1>6, <1>7
<1>9. c[1..n] \in P[1..n]
    BY <1>0, <1>8, FoldReaches
<1> QED BY <1>1, <1>9

\* delete_entities, name by name.
LEMMA DeleteEntitiesStays ==
    ASSUME NEW D, NEW d \in D, NEW ns, IsFiniteSet(ns), \A e \in D, n \in ns : DeleteEntity(e, n) \in D
    PROVE  delete_entities(d, ns) \in D
<1> DEFINE n == Cardinality(ns)
           g == [p \in D \X (1..n) |-> DeleteEntity(p[1], SetToSeq(ns)[p[2]])]
           Runs(it) == it = [s \in SUBSET (1..n) |->
                                IF s = {} THEN d ELSE DeleteEntity(it[Before(s)], SetToSeq(ns)[Max(s)])]
           c == CHOOSE it : Runs(it)
<1>0. n \in Nat /\ DOMAIN SetToSeq(ns) = 1..n /\ \A k \in 1..n : SetToSeq(ns)[k] \in ns
    BY Sequenced
<1>1. delete_entities(d, ns) = c[1..n]
    BY <1>0 DEF delete_entities, FoldLeft, MapThenFoldSet, Before
<1>2. \A e \in D, k \in 1..n : DeleteEntity(e, SetToSeq(ns)[k]) \in D
    BY <1>0
<1> HIDE DEF n
<1>3. g \in [D \X (1..n) -> D]
    BY <1>2
<1>4. PICK it : /\ it \in [SUBSET (1..n) -> D] /\ RunOf(d, n, g, it, SUBSET (1..n))
                /\ \A s \in SUBSET (1..n) : s # {} => it[Before(s)] \in D /\ Max(s) \in 1..n
    BY <1>0, <1>3, FoldExists
<1>5. Runs(it)
  <2>1. \A s \in SUBSET (1..n) : it[s] = IF s = {} THEN d ELSE DeleteEntity(it[Before(s)], SetToSeq(ns)[Max(s)])
    BY <1>4 DEF RunOf
  <2> QED BY <1>4, <2>1
<1>6. Runs(c)
    BY <1>5
<1> HIDE DEF c
<1> DEFINE P == [s \in SUBSET (1..n) |-> D]
<1>7. \A s \in SUBSET (1..n) : s # {} => Before(s) \in SUBSET (1..n) /\ Max(s) \in 1..n
    BY <1>0, BeforeSmaller
<1>8. \A s \in SUBSET (1..n) : (s # {} => c[Before(s)] \in P[Before(s)]) => c[s] \in P[s]
    BY <1>2, <1>6, <1>7
<1>9. c[1..n] \in P[1..n]
    BY <1>0, <1>8, FoldReaches
<1> QED BY <1>1, <1>9

\* The relations that a merge moves.
LEMMA CreateRelationsStays ==
    ASSUME NEW D, NEW d \in D, NEW ts, IsFiniteSet(ts), \A e \in D, t \in ts : create_relation(e, t) \in D
    PROVE  FoldLeft(create_relation, d, SetToSeq(ts)) \in D
<1> DEFINE n == Cardinality(ts)
           g == [p \in D \X (1..n) |-> create_relation(p[1], SetToSeq(ts)[p[2]])]
           Runs(it) == it = [s \in SUBSET (1..n) |->
                                IF s = {} THEN d ELSE create_relation(it[Before(s)], SetToSeq(ts)[Max(s)])]
           c == CHOOSE it : Runs(it)
<1>0. n \in Nat /\ DOMAIN SetToSeq(ts) = 1..n /\ \A k \in 1..n : SetToSeq(ts)[k] \in ts
    BY Sequenced
<1>1. FoldLeft(create_relation, d, SetToSeq(ts)) = c[1..n]
    BY <1>0 DEF FoldLeft, MapThenFoldSet, Before
<1>2. \A e \in D, k \in 1..n : create_relation(e, SetToSeq(ts)[k]) \in D
    BY <1>0
<1> HIDE DEF n
<1>3. g \in [D \X (1..n) -> D]
    BY <1>2
<1>4. PICK it : /\ it \in [SUBSET (1..n) -> D] /\ RunOf(d, n, g, it, SUBSET (1..n))
                /\ \A s \in SUBSET (1..n) : s # {} => it[Before(s)] \in D /\ Max(s) \in 1..n
    BY <1>0, <1>3, FoldExists
<1>5. Runs(it)
  <2>1. \A s \in SUBSET (1..n) : it[s] = IF s = {} THEN d ELSE create_relation(it[Before(s)], SetToSeq(ts)[Max(s)])
    BY <1>4 DEF RunOf
  <2> QED BY <1>4, <2>1
<1>6. Runs(c)
    BY <1>5
<1> HIDE DEF c
<1> DEFINE P == [s \in SUBSET (1..n) |-> D]
<1>7. \A s \in SUBSET (1..n) : s # {} => Before(s) \in SUBSET (1..n) /\ Max(s) \in 1..n
    BY <1>0, BeforeSmaller
<1>8. \A s \in SUBSET (1..n) : (s # {} => c[Before(s)] \in P[Before(s)]) => c[s] \in P[s]
    BY <1>2, <1>6, <1>7
<1>9. c[1..n] \in P[1..n]
    BY <1>0, <1>8, FoldReaches
<1> QED BY <1>1, <1>9

\* The items of a request in order.
LEMMA InOrderStays ==
    ASSUME NEW D, NEW d, Ok(d) \in D, NEW q, NEW m \in Nat, DOMAIN q.items = 1..m, \A a \in D, k \in 1..m : NextItem(a, q.op, q.items[k]) \in D
    PROVE  InOrder(d, q) \in D
<1> DEFINE n == m
           g == [p \in D \X (1..n) |-> NextItem(p[1], q.op, q.items[p[2]])]
           Runs(it) == it = [s \in SUBSET (1..n) |->
                                IF s = {} THEN Ok(d) ELSE NextItem(it[Before(s)], q.op, q.items[Max(s)])]
           c == CHOOSE it : Runs(it)
<1>0. n \in Nat /\ DOMAIN q.items = 1..n
    OBVIOUS
<1>1. InOrder(d, q) = c[1..n]
    BY <1>0 DEF InOrder, NextItem, FoldLeft, MapThenFoldSet, Before
<1>2. \A e \in D, k \in 1..n : NextItem(e, q.op, q.items[k]) \in D
    BY <1>0
<1> HIDE DEF n
<1>3. g \in [D \X (1..n) -> D]
    BY <1>2
<1>4. PICK it : /\ it \in [SUBSET (1..n) -> D] /\ RunOf(Ok(d), n, g, it, SUBSET (1..n))
                /\ \A s \in SUBSET (1..n) : s # {} => it[Before(s)] \in D /\ Max(s) \in 1..n
    BY <1>0, <1>3, FoldExists
<1>5. Runs(it)
  <2>1. \A s \in SUBSET (1..n) : it[s] = IF s = {} THEN Ok(d) ELSE NextItem(it[Before(s)], q.op, q.items[Max(s)])
    BY <1>4 DEF RunOf
  <2> QED BY <1>4, <2>1
<1>6. Runs(c)
    BY <1>5
<1> HIDE DEF c
<1> DEFINE P == [s \in SUBSET (1..n) |-> D]
<1>7. \A s \in SUBSET (1..n) : s # {} => Before(s) \in SUBSET (1..n) /\ Max(s) \in 1..n
    BY <1>0, BeforeSmaller
<1>8. \A s \in SUBSET (1..n) : (s # {} => c[Before(s)] \in P[Before(s)]) => c[s] \in P[s]
    BY <1>2, <1>6, <1>7
<1>9. c[1..n] \in P[1..n]
    BY <1>0, <1>8, FoldReaches
<1> QED BY <1>1, <1>9

-----------------------------------------------------------------------------
(* Statements that write what is inside *)

\* A name in N has an entity inside, and a triple that starts in N a mirror inside.
LEMMA Inside ==
    ASSUME NEW d, NEW N
    PROVE  /\ \A n \in N : Exists(d, n) => ~Out(d, IdOf(d, n), N)
           /\ \A t : t[1] \in N /\ LiveMirrors(d, t) # {} => ~Far(d, resolve_relation_mirror(d, t), N)
<1>1. ASSUME NEW n \in N, Exists(d, n) PROVE ~Out(d, IdOf(d, n), N)
    BY <1>1, IdOfIs DEF Out
<1>2. ASSUME NEW t, t[1] \in N, LiveMirrors(d, t) # {} PROVE ~Far(d, resolve_relation_mirror(d, t), N)
  <2>1. d.mirror[resolve_relation_mirror(d, t)].triple = Ids(d, t) /\ Exists(d, t[1])
    BY <1>2, MirrorResolved
  <2>2. Ids(d, t)[1] = IdOf(d, t[1])
    BY DEF Ids
  <2> QED BY <1>1, <1>2, <2>1, <2>2 DEF Far
<1> QED BY <1>1, <1>2

\* insert_observations on an entity in N.
LEMMA InsertObservationsWrites ==
    ASSUME NEW d, Sound(d), NEW i \in DOMAIN d.entity, NEW items \in Seq(Bodies), NEW N, ~Out(d, i, N)
    PROVE  Writes(d, insert_observations(d, i, items), N)
<1> DEFINE D == {e \in Stores : Sound(e) /\ SameGraph(d, e) /\ Writes(d, e, N)}
<1>1. d \in D
    BY SoundIsStore, WriteSteps DEF SameGraph
<1>2. ASSUME NEW e \in D, NEW b \in Bodies PROVE InsertObservation(e, i, b) \in D
  <2> DEFINE a == InsertObservation(e, i, b)
  <2>1. ~Out(e, i, N) /\ i \in DOMAIN e.entity
    BY DEF SameGraph, Out
  <2>2. Writes(e, a, N)
    BY <2>1, InsertObservationWrites
  <2>3. Sound(a) /\ SameGraph(e, a)
    BY <2>1, InsertObservationSound
  <2> HIDE DEF a
  <2>4. Writes(d, a, N)
    BY <2>2, WriteSteps
  <2>5. SameGraph(d, a)
    BY <2>3 DEF SameGraph
  <2> QED BY <2>3, <2>4, <2>5, SoundIsStore DEF a
<1> HIDE DEF D
<1>3. insert_observations(d, i, items) \in D
    BY <1>1, <1>2, InsertObservationsStays
<1> QED BY <1>3 DEF D

\* One text that the entity may have.
LEMMA InsertMissingOneWrites ==
    ASSUME NEW d, Sound(d), NEW i, NEW b, NEW N, ~Out(d, i, N)
    PROVE  Writes(d, InsertMissing(d, i, b), N)
BY InsertObservationWrites, WriteSteps DEF InsertMissing

\* Texts that stay with a sound store of the same graph.
LEMMA InsertMissingOneStays ==
    ASSUME NEW d, NEW N, NEW i \in DOMAIN d.entity, ~Out(d, i, N), NEW b \in Bodies,
           NEW e, Sound(e), SameGraph(d, e), Writes(d, e, N)
    PROVE  LET a == InsertMissing(e, i, b)
           IN  a \in Stores /\ Sound(a) /\ SameGraph(d, a) /\ Writes(d, a, N)
<1> DEFINE a == InsertMissing(e, i, b)
<1>1. ~Out(e, i, N) /\ i \in DOMAIN e.entity
    BY DEF SameGraph, Out
<1>2. Writes(e, a, N)
    BY <1>1, InsertMissingOneWrites
<1>3. Sound(a) /\ SameGraph(e, a)
    BY <1>1, InsertMissingOneSound
<1> HIDE DEF a
<1>4. Writes(d, a, N)
    BY <1>2, WriteSteps
<1>5. SameGraph(d, a)
    BY <1>3 DEF SameGraph
<1> QED BY <1>3, <1>4, <1>5, SoundIsStore DEF a

\* The texts of an upsert.
LEMMA InsertMissingWrites ==
    ASSUME NEW d, Sound(d), NEW i \in DOMAIN d.entity, NEW items \in Seq(Bodies), NEW N, ~Out(d, i, N)
    PROVE  Writes(d, insert_missing(d, i, items), N)
<1> DEFINE D == {e \in Stores : Sound(e) /\ SameGraph(d, e) /\ Writes(d, e, N)}
<1>1. d \in D
    BY SoundIsStore, WriteSteps DEF SameGraph
<1>2. ASSUME NEW e \in D, NEW b \in Bodies PROVE InsertMissing(e, i, b) \in D
    BY InsertMissingOneStays
<1> HIDE DEF D
<1>3. insert_missing(d, i, items) \in D
    BY <1>1, <1>2, InsertMissingStays
<1> QED BY <1>3 DEF D

\* The texts of a merge; they hang on no relation.
LEMMA CopyObservationsWrites ==
    ASSUME NEW d, Sound(d), NEW old, NEW i \in DOMAIN d.entity, NEW N, ~Out(d, i, N)
    PROVE  Writes(d, copy_observations(d, old, i), N)
<1> DEFINE D == {e \in Stores : Sound(e) /\ SameGraph(d, e) /\ Writes(d, e, N)}
<1>1. d \in D
    BY SoundIsStore, WriteSteps DEF SameGraph
<1>2. ASSUME NEW e \in D, NEW o \in 1..d.seq.obs PROVE CopyObservation(e, d, old, i, o) \in D
  <2>1. ASSUME o \in ObservationsOf(d, old) PROVE InsertMissing(e, i, d.observation[o].body) \in D
    <3>1. d.observation[o].body \in Bodies
        BY <2>1 DEF Sound, ObservationsOK, IsTable, ObservationsOf
    <3> QED BY <3>1, InsertMissingOneStays
  <2> HIDE DEF D
  <2> QED BY <2>1 DEF CopyObservation
<1>3. d.seq.obs \in Nat
    BY Fields
<1> HIDE DEF D
<1>4. copy_observations(d, old, i) \in D
    BY <1>1, <1>2, <1>3, CopyObservationsStays
<1> QED BY <1>4 DEF D

\* insert_relation_observations on a mirror in N.
LEMMA InsertRelationObservationsWrites ==
    ASSUME NEW d, Sound(d), NEW m \in Live(d), NEW items \in Seq(Bodies), NEW N, ~Far(d, m, N)
    PROVE  Writes(d, insert_relation_observations(d, m, items), N)
<1> DEFINE D == {e \in Stores : Sound(e) /\ SameGraph(d, e) /\ Writes(d, e, N)}
<1>1. d \in D
    BY SoundIsStore, WriteSteps DEF SameGraph
<1>2. ASSUME NEW e \in D, NEW b \in Bodies PROVE InsertRelationObservation(e, m, b) \in D
  <2> DEFINE a == InsertRelationObservation(e, m, b)
  <2>1. ~Far(e, m, N) /\ m \in Live(e)
    BY SameOut DEF SameGraph
  <2>2. Writes(e, a, N)
    BY <2>1, InsertRelationObservationWrites
  <2>3. Sound(a) /\ SameGraph(e, a)
    BY <2>1, InsertRelationObservationSound
  <2> HIDE DEF a
  <2>4. Writes(d, a, N)
    BY <2>2, WriteSteps
  <2>5. SameGraph(d, a)
    BY <2>3 DEF SameGraph
  <2> QED BY <2>3, <2>4, <2>5, SoundIsStore DEF a
<1> HIDE DEF D
<1>3. insert_relation_observations(d, m, items) \in D
    BY <1>1, <1>2, InsertRelationObservationsStays
<1> QED BY <1>3 DEF D

\* create_relation between two entities in N.
LEMMA CreateRelationWrites ==
    ASSUME NEW d, Whole(d), NEW t \in Triples, NEW N, t[1] \in N, t[2] \in N
    PROVE  Writes(d, create_relation(d, t), N)
<1> DEFINE r == Ids(d, t)
           d1 == type_id(d, 1, t[3])
           d2 == [d1 EXCEPT !.relation = d1.relation \cup {r}]
           e == PutMirror(d2, r, FALSE)
<1>0. Sound(d)
    BY DEF Whole
<1>1. CASE ~(Exists(d, t[1]) /\ Exists(d, t[2]))
    BY <1>0, <1>1, WriteSteps DEF create_relation
<1>2. CASE Exists(d, t[1]) /\ Exists(d, t[2])
  <2>1. r \in (DOMAIN d.entity) \X (DOMAIN d.entity) \X RelationTypes /\ r \in Links
    BY <1>0, <1>2, IdsAre
  <2>2. <<1, t[3]>> \in TypeKeys
    BY DEF TypeKeys, Triples
  <2>3. ~Out(d, r[1], N) /\ ~Out(d, r[2], N) /\ r[3] = t[3]
    BY <1>2, Inside DEF Ids
  <2>4. Sound(d1) /\ SameGraph(d, d1)
    BY <1>0, <2>2, TypeIdSound
  <2>5. Writes(d, d1, N) /\ <<1, t[3]>> \in DOMAIN d1.type_dict
    BY <1>0, TypeIdWrites
  <2> HIDE DEF r, d1
  <2>6. ~Out(d1, r[1], N) /\ ~Out(d1, r[2], N) /\ d1.relation \subseteq Links
    BY <2>3, <2>4, SameOut DEF SameGraph, Sound, CountersOK
  <2>7. Sound(d2) /\ d2.entity = d1.entity
    <3>1. d1.relation \cup {r} \in SUBSET Links
        BY <2>1, <2>6
    <3> QED BY <2>4, <3>1, RelationChangeSound
  <2>8. Writes(d1, d2, N)
    <3> DEFINE rr == d1.relation \cup {r}
    <3>1. \A x : (x \in rr /\ (Out(d1, x[1], N) \/ Out(d1, x[2], N))) <=> OutRel(d1, x, N)
        BY <2>6 DEF OutRel
    <3>2. \A x \in rr : x \in d1.relation \/ <<1, x[3]>> \in DOMAIN d1.type_dict
        BY <2>3, <2>5
    <3> HIDE DEF rr
    <3>3. d2 = [d1 EXCEPT !.relation = rr]
        BY DEF rr
    <3> HIDE DEF d2
    <3> QED BY <2>4, <3>1, <3>2, <3>3, RelationsChange
  <2>9. ~Out(d2, r[1], N)
    BY <2>6, <2>7 DEF Out
  <2> HIDE DEF d2
  <2>10. Writes(d2, e, N)
    BY <2>1, <2>7, <2>9, PutLiveWrites
  <2> HIDE DEF e
  <2>11. create_relation(d, t) = IF r \in d.relation THEN d1 ELSE e
    BY <1>2 DEF create_relation, r, d1, d2, e
  <2>12. Writes(d, e, N)
    BY <2>5, <2>8, <2>10, WriteSteps
  <2> QED BY <2>5, <2>11, <2>12
<1> QED BY <1>1, <1>2

\* A relation with its observations and attributes.
LEMMA CreateRelationWithWrites ==
    ASSUME NEW d, Whole(d), NEW x, x.triple \in Triples, x.observations \in Seq(Bodies), x.attributes \in Attributes,
           NEW N, x.triple[1] \in N, x.triple[2] \in N
    PROVE  Writes(d, create_relation_with(d, x), N)
<1> DEFINE t == x.triple
           d1 == create_relation(d, t)
           m == resolve_relation_mirror(d1, t)
           d2 == insert_relation_observations(d1, m, x.observations)
           d3 == upsert_attributes(d2, "relation", m, x.attributes)
<1>1. /\ Whole(d1) /\ d1.entity = d.entity
      /\ d1.relation # d.relation => Exists(d, t[1]) /\ Exists(d, t[2]) /\ Ids(d, t) \in d1.relation
    BY CreateRelationWhole
<1>2. Writes(d, d1, N)
    BY CreateRelationWrites
<1>3. create_relation_with(d, x) = IF d1.relation = d.relation THEN d1 ELSE d3
    BY DEF create_relation_with
<1> HIDE DEF d1
<1>4. ASSUME d1.relation # d.relation PROVE Writes(d1, d3, N)
  <2>1. Exists(d1, t[1]) /\ Exists(d1, t[2]) /\ Ids(d1, t) \in d1.relation
    BY <1>1, <1>4 DEF Exists, Ids, IdOf
  <2>2. LiveMirrors(d1, t) # {}
    BY <1>1, <2>1, MirrorFound
  <2>3. m \in Live(d1) /\ ~Far(d1, m, N)
    BY <2>2, MirrorResolved, Inside
  <2> HIDE DEF m
  <2>4. Sound(d2) /\ SameGraph(d1, d2)
    BY <1>1, <2>3, InsertRelationObservationsSound DEF Whole
  <2>5. Writes(d1, d2, N)
    BY <1>1, <2>3, InsertRelationObservationsWrites DEF Whole
  <2> HIDE DEF d2
  <2>6. ~Far(d2, m, N)
    BY <2>3, <2>4, SameOut DEF SameGraph
  <2>7. ~OutOwner(d2, "relation", m, N)
    BY <2>6 DEF OutOwner
  <2>8. Writes(d2, d3, N)
    BY <2>4, <2>7, UpsertAttributesWrites
  <2> HIDE DEF d3
  <2> QED BY <2>5, <2>8, WriteSteps
<1> HIDE DEF d3
<1> QED BY <1>2, <1>3, <1>4, WriteSteps

\* Entities may change, and what hangs on them stays.
LEMMA EntitiesChange ==
    ASSUME NEW d, NEW e, e.relation = d.relation, e.observation = d.observation, e.mirror = d.mirror,
           e.relobs = d.relobs, e.attribute = d.attribute, e.stat = d.stat, NEW N, SameEntitiesOut(d, e, N)
    PROVE  Confined(d, e, N) /\ Steady(d, e)
<1>1. \A i : Out(d, i, N) <=> Out(e, i, N)
    BY DEF SameEntitiesOut
<1>2. Live(e) = Live(d)
    BY DEF Live
<1>3. \A m : Far(d, m, N) <=> Far(e, m, N)
    BY <1>1, <1>2 DEF Far
<1>4. SameMirrorsOut(d, e, N) /\ SameRelsOut(d, e, N)
    BY <1>1, <1>3 DEF SameMirrorsOut, SameRelsOut, OutRel
<1>5. SameObsOut(d, e, N) /\ SameRelObsOut(d, e, N)
    BY <1>1, <1>3 DEF SameObsOut, OutObs, SameRelObsOut, OutRelObs
<1>6. SameKeysOut(d, e, N)
    BY <1>1, <1>3 DEF SameKeysOut, OutKey, OutOwner
<1>7. Steady(d, e)
    BY <1>2 DEF Steady, Surplus
<1> QED BY <1>4, <1>5, <1>6, <1>7 DEF Confined

\* A new entity in N.
LEMMA NewEntityWrites ==
    ASSUME NEW d, Whole(d), NEW x, IsEntityInput(x), x.name # NoName, ~Exists(d, x.name), NEW N, x.name \in N
    PROVE  Writes(d, NewEntity(d, x), N)
<1> DEFINE i == d.seq.entity + 1
           d0 == type_id(d, 0, x.type)
           e == NewEntity(d, x)
<1>1. d.seq.entity \in Nat /\ DOMAIN d.entity \subseteq Nat
    BY Fields DEF Whole
<1>2. Writes(d, d0, N) /\ <<0, x.type>> \in DOMAIN d0.type_dict
    BY TypeIdWrites DEF Whole
<1>3. Sound(d0) /\ SameGraph(d, d0) /\ d0.seq = d.seq
    <2>1. <<0, x.type>> \in TypeKeys
        BY DEF TypeKeys, IsEntityInput
    <2> QED BY <2>1, TypeIdSound DEF Whole
<1>4. e.entity = With(d.entity, i, NewRow(x)) /\ e.seq.entity = i /\ i \notin DOMAIN d.entity
    BY NewEntitySound
<1>5. e = [d0 EXCEPT !.seq = [d0.seq EXCEPT !.entity = i], !.entity = With(d0.entity, i, NewRow(x))]
    BY DEF NewEntity
<1> HIDE DEF e, d0
<1>6. /\ e.relation = d0.relation /\ e.observation = d0.observation /\ e.mirror = d0.mirror
      /\ e.relobs = d0.relobs /\ e.attribute = d0.attribute /\ e.stat = d0.stat /\ e.type_dict = d0.type_dict
    <2>1. IsStore(d0)
        BY <1>3 DEF Sound, CountersOK
    <2> QED BY <1>5, <2>1 DEF IsStore
<1>7. NewRow(x).name = x.name /\ NewRow(x).type = x.type
    BY DEF NewRow
<1>8. d0.entity = d.entity /\ d0.seq = d.seq
    BY <1>3 DEF SameGraph
<1>9. DOMAIN e.entity = DOMAIN d0.entity \cup {i} /\ e.entity[i] = NewRow(x)
      /\ (\A j \in DOMAIN d0.entity : e.entity[j] = d0.entity[j]) /\ i \notin DOMAIN d0.entity
    BY <1>4, <1>8 DEF With
<1>10. SameEntitiesOut(d0, e, N)
    BY <1>7, <1>9 DEF SameEntitiesOut, Out
<1>11. Confined(d0, e, N) /\ Steady(d0, e)
    BY <1>6, <1>10, EntitiesChange
<1>12. RowsKept(d0, e)
    BY <1>1, <1>4, <1>8, <1>9 DEF RowsKept
<1>13. TotalsKept(d0, e)
    BY <1>6 DEF TotalsKept
<1>14. Registered(d0) => Registered(e)
    BY <1>2, <1>6, <1>7, <1>9 DEF Registered
<1>15. Writes(d0, e, N)
    BY <1>11, <1>12, <1>13, <1>14 DEF Writes, Kept
<1> QED BY <1>2, <1>15, WriteSteps DEF e

\* Only the name index differs.
LEMMA NameIndexWrites ==
    ASSUME NEW d, Sound(d), NEW nn, NEW N
    PROVE  Writes(d, [d EXCEPT !.name_fts = nn], N)
<1> DEFINE e == [d EXCEPT !.name_fts = nn]
<1>1. IsStore(d)
    BY DEF Sound, CountersOK
<1>2. SameRest(d, e) /\ e.observation = d.observation /\ e.attribute = d.attribute
    BY <1>1 DEF IsStore, SameRest
<1> HIDE DEF e
<1>3. SameObsOut(d, e, N) /\ SameKeysOut(d, e, N)
    BY <1>2, SameObs, SameKeys DEF SameRest
<1>4. Writes(d, e, N)
    BY <1>2, <1>3, SameRestWrites
<1> QED BY <1>4 DEF e

\* create_entity with its texts and attributes.
LEMMA CreateEntityWrites ==
    ASSUME NEW d, Whole(d), NEW x, IsEntityInput(x), NEW N, x.name \in N
    PROVE  Writes(d, create_entity(d, x), N)
<1>1. CASE x.name = NoName \/ Exists(d, x.name)
    BY <1>1, WriteSteps DEF create_entity, Whole
<1>2. CASE ~(x.name = NoName \/ Exists(d, x.name))
  <2> DEFINE i == d.seq.entity + 1
             d1 == NewEntity(d, x)
             d2 == insert_observations(d1, i, x.observations)
             d3 == upsert_attributes(d2, "entity", i, x.attributes)
             e == [d3 EXCEPT !.name_fts = d3.name_fts \cup {<<i, x.name>>}]
  <2>1. create_entity(d, x) = e
    BY <1>2 DEF create_entity, NewEntity, NewRow
  <2>2. x.observations \in Seq(Bodies) /\ x.attributes \in Attributes
    BY DEF IsEntityInput
  <2>3. Sound(d1) /\ d1.entity = With(d.entity, i, NewRow(x))
    BY <1>2, NewEntitySound
  <2>4. Writes(d, d1, N)
    BY <1>2, NewEntityWrites
  <2> HIDE DEF d1, i
  <2>5. i \in DOMAIN d1.entity /\ ~Out(d1, i, N)
    BY <2>3 DEF With, Out, NewRow
  <2>6. Sound(d2) /\ SameGraph(d1, d2)
    BY <2>2, <2>3, <2>5, InsertObservationsSound
  <2>7. Writes(d1, d2, N)
    BY <2>2, <2>3, <2>5, InsertObservationsWrites
  <2> HIDE DEF d2
  <2>8. <<"entity", i>> \in Owned(d2) /\ ~OutOwner(d2, "entity", i, N)
    BY <2>5, <2>6 DEF Owned, SameGraph, OutOwner, Out
  <2>9. Sound(d3)
    BY <2>2, <2>6, <2>8, UpsertAttributesSound
  <2>10. Writes(d2, d3, N)
    BY <2>6, <2>8, UpsertAttributesWrites
  <2> HIDE DEF d3
  <2>11. Writes(d3, e, N)
    BY <2>9, NameIndexWrites
  <2> HIDE DEF e
  <2> QED BY <2>1, <2>4, <2>7, <2>10, <2>11, WriteSteps
<1> QED BY <1>1, <1>2

\* An upsert of an entity in N.
LEMMA UpsertEntityWrites ==
    ASSUME NEW d, Whole(d), NEW x, IsEntityInput(x), NEW N, x.name \in N
    PROVE  Writes(d, UpsertEntity(d, x), N)
<1>1. CASE ~Exists(d, x.name)
    BY <1>1, CreateEntityWrites DEF UpsertEntity
<1>2. CASE Exists(d, x.name)
  <2> DEFINE i == IdOf(d, x.name)
             d0 == type_id(d, 0, x.type)
             d1 == [d0 EXCEPT !.entity[i].type = x.type]
             ee == [d0.entity EXCEPT ![i] = [d0.entity[i] EXCEPT !.type = x.type]]
             d2 == insert_missing(d1, i, x.observations)
             d3 == upsert_attributes(d2, "entity", i, x.attributes)
  <2>1. UpsertEntity(d, x) = d3
    BY <1>2 DEF UpsertEntity
  <2>2. x.type \in EntityTypes /\ x.observations \in Seq(Bodies) /\ x.attributes \in Attributes
    BY DEF IsEntityInput
  <2>3. Sound(d0) /\ SameGraph(d, d0)
    <3>1. <<0, x.type>> \in TypeKeys
        BY <2>2 DEF TypeKeys
    <3> QED BY <3>1, TypeIdSound DEF Whole
  <2>4. i \in DOMAIN d.entity /\ ~Out(d, i, N)
    BY <1>2, IdOfIs, Inside
  <2>5. Writes(d, d0, N) /\ <<0, x.type>> \in DOMAIN d0.type_dict
    BY TypeIdWrites DEF Whole
  <2> HIDE DEF d0, i
  <2>6. /\ Whole(d0) /\ IsStore(d0) /\ d0.entity = d.entity /\ \A j \in DOMAIN d0.entity : d0.entity[j] \in EntityRow
        /\ d0.seq.entity \in Nat /\ DOMAIN d0.entity \subseteq Nat
    <3>1. Whole(d0)
        BY <2>3, SameIsWhole
    <3> QED BY <2>3, <3>1, Fields DEF SameGraph, Sound, CountersOK
  <2>7. d1 = [d0 EXCEPT !.entity = ee]
    BY <2>6 DEF IsStore
  <2>8. Edits(d0, d1, ee, d0.relation, d0.name_fts)
    <3> HIDE DEF d1, ee
    <3> QED BY <2>6, <2>7 DEF Edits, IsStore
  <2>9. /\ ee \in [DOMAIN d0.entity -> EntityRow]
        /\ \A j \in DOMAIN d0.entity : /\ ee[j].name = d0.entity[j].name /\ ee[j].obs_count = d0.entity[j].obs_count
                                       /\ ee[j].out_deg = d0.entity[j].out_deg /\ ee[j].in_deg = d0.entity[j].in_deg
        /\ \A j \in DOMAIN d0.entity : j # i => ee[j] = d0.entity[j]
        /\ ee[i].type = x.type
    <3> DEFINE row == [d0.entity[i] EXCEPT !.type = x.type]
    <3>1. d0.entity \in [DOMAIN d0.entity -> EntityRow]
        BY <2>3 DEF Sound, EntitiesOK, IsTable
    <3>2. /\ row \in EntityRow /\ row.name = d0.entity[i].name /\ row.type = x.type
          /\ row.obs_count = d0.entity[i].obs_count /\ row.out_deg = d0.entity[i].out_deg /\ row.in_deg = d0.entity[i].in_deg
        BY <2>2, <2>4, <2>6 DEF EntityRow
    <3> HIDE DEF row
    <3>3. ee = [d0.entity EXCEPT ![i] = row]
        BY DEF row
    <3> HIDE DEF ee
    <3> QED BY <2>4, <2>6, <3>1, <3>2, <3>3
  <2> HIDE DEF d1, ee
  <2>10. Whole(d1) /\ d1.entity = ee /\ i \in DOMAIN d1.entity
    BY <2>4, <2>6, <2>8, <2>9, RowsWhole
  <2>11. /\ d1.relation = d0.relation /\ d1.observation = d0.observation /\ d1.mirror = d0.mirror
         /\ d1.relobs = d0.relobs /\ d1.attribute = d0.attribute /\ d1.stat = d0.stat
         /\ d1.type_dict = d0.type_dict /\ d1.seq = d0.seq
    BY <2>6, <2>7 DEF IsStore
  <2>12. DOMAIN ee = DOMAIN d0.entity
    BY <2>9
  <2>13. ~Out(d0, i, N) /\ ~Out(d1, i, N)
    BY <2>4, <2>6, <2>9, <2>10 DEF Out
  <2>14. SameEntitiesOut(d0, d1, N)
    BY <2>9, <2>10, <2>12, <2>13 DEF SameEntitiesOut, Out
  <2>15. RowsKept(d0, d1)
    BY <2>6, <2>9, <2>10, <2>11, <2>12 DEF RowsKept
  <2>16. TotalsKept(d0, d1)
    BY <2>11 DEF TotalsKept
  <2>17. Registered(d0) => Registered(d1)
    BY <2>5, <2>9, <2>10, <2>11, <2>12 DEF Registered
  <2>18. Writes(d0, d1, N)
    BY <2>11, <2>14, <2>15, <2>16, <2>17, EntitiesChange DEF Writes, Kept
  <2>19. Sound(d2) /\ SameGraph(d1, d2)
    BY <2>2, <2>10, InsertMissingSound DEF Whole
  <2>20. Writes(d1, d2, N)
    BY <2>2, <2>10, <2>13, InsertMissingWrites DEF Whole
  <2> HIDE DEF d2
  <2>21. ~OutOwner(d2, "entity", i, N)
    BY <2>13, <2>19 DEF SameGraph, OutOwner, Out
  <2>22. Writes(d2, d3, N)
    BY <2>19, <2>21, UpsertAttributesWrites
  <2> HIDE DEF d3
  <2> QED BY <2>1, <2>5, <2>18, <2>20, <2>22, WriteSteps
<1> QED BY <1>1, <1>2

-----------------------------------------------------------------------------
(* Statements that delete what is inside *)

\* DeleteRelations, between two entities in N.
LEMMA DeleteRelationRemoves ==
    ASSUME NEW d, Whole(d), NEW t \in Triples, NEW N, t[1] \in N, t[2] \in N
    PROVE  Removes(d, DeleteRelation(d, t), N)
<1> DEFINE r == Ids(d, t)
           rr == d.relation \ {r}
           d1 == [d EXCEPT !.relation = rr]
           e == tombstone_relation_mirror(d1, r)
<1>1. CASE ~(Exists(d, t[1]) /\ Exists(d, t[2])) \/ r \notin d.relation
    BY <1>1, WriteSteps DEF DeleteRelation, Whole
<1>2. CASE Exists(d, t[1]) /\ Exists(d, t[2]) /\ r \in d.relation
  <2>1. DeleteRelation(d, t) = e
    BY <1>2 DEF DeleteRelation
  <2>2. ~Out(d, r[1], N) /\ ~Out(d, r[2], N)
    BY <1>2, Inside DEF Ids
  <2>3. d.relation \subseteq Links /\ r \in Links /\ Sound(d)
    BY <1>2 DEF Whole, Sound, CountersOK
  <2> HIDE DEF r
  <2>4. Sound(d1) /\ d1.entity = d.entity
    <3>1. rr \in SUBSET Links
        BY <2>3
    <3> HIDE DEF rr
    <3> QED BY <2>3, <3>1, RelationChangeSound
  <2>5. Removes(d, d1, N)
    <3>1. \A x : (x \in rr /\ (Out(d, x[1], N) \/ Out(d, x[2], N))) <=> OutRel(d, x, N)
        BY <2>2 DEF OutRel
    <3>2. rr \subseteq d.relation
        OBVIOUS
    <3> HIDE DEF rr
    <3> QED BY <2>3, <3>1, <3>2, RelationsChange
  <2>6. ~Out(d1, r[1], N)
    BY <2>2, <2>4 DEF Out
  <2> HIDE DEF d1
  <2>7. Removes(d1, e, N)
    BY <2>3, <2>4, <2>6, TombstoneRemoves
  <2> HIDE DEF e
  <2> QED BY <2>1, <2>3, <2>5, <2>7, WriteSteps
<1> QED BY <1>1, <1>2

\* The names to delete and all that is related to them are in N.
Surrounded(d, names, N) ==
    /\ names \subseteq N
    /\ \A r \in d.relation : \A n \in names :
           n \in {d.entity[r[1]].name, d.entity[r[2]].name}
               => d.entity[r[1]].name \in N /\ d.entity[r[2]].name \in N

\* An entity on its way out, and its relations, are inside.
LEMMA DetachedRemoves ==
    ASSUME NEW d, Whole(d), NEW n, Exists(d, n), NEW N, Surrounded(d, {n}, N)
    PROVE  /\ Removes(d, Detached(d, n), N)
           /\ \A r \in RelationsAt(d, IdOf(d, n)) : ~Out(Detached(d, n), r[1], N)
<1> DEFINE i == IdOf(d, n)
           rs == RelationsAt(d, i)
           e == Detached(d, n)
           ks == {<<"entity", i, key>> : key \in AttrKeys}
           os == ObservationsOf(d, i)
<1>1. /\ Sound(e) /\ e.entity = Without(d.entity, {i}) /\ e.relation = d.relation \ rs
      /\ e.observation = Without(d.observation, os)
      /\ e.attribute = Without(d.attribute, ks)
      /\ e.mirror = d.mirror /\ e.relobs = d.relobs /\ e.stat = d.stat /\ e.type_dict = d.type_dict
      /\ e.seq = d.seq
    BY DetachedSound
<1>2. i \in DOMAIN d.entity /\ d.entity[i].name = n /\ n \in N
    BY IdOfIs DEF Surrounded
<1>3. d.seq.entity \in Nat /\ DOMAIN d.entity \subseteq Nat
    BY Fields DEF Whole
<1>4. \A k \in ks : k[1] = "entity" /\ k[2] = i
    OBVIOUS
<1>5. \A r \in rs : r \in d.relation /\ ~Out(d, r[1], N) /\ ~Out(d, r[2], N)
    BY <1>2 DEF RelationsAt, Surrounded, Out
<1>6. \A o : o \in os <=> o \in DOMAIN d.observation /\ d.observation[o].entity = i
    BY DEF ObservationsOf
<1> HIDE DEF i, e, rs, ks, os
<1>7. DOMAIN e.entity = DOMAIN d.entity \ {i} /\ \A j \in DOMAIN e.entity : e.entity[j] = d.entity[j]
    BY <1>1 DEF Without
<1>8. SameEntitiesOut(d, e, N) /\ ~Out(d, i, N)
    BY <1>2, <1>7 DEF SameEntitiesOut, Out
<1>9. \A j : Out(d, j, N) <=> Out(e, j, N)
    BY <1>8 DEF SameEntitiesOut
<1>10. SameObsOut(d, e, N)
    BY <1>1, <1>6, <1>8, <1>9 DEF SameObsOut, OutObs, Without
<1>11. SameRelsOut(d, e, N)
    BY <1>1, <1>5, <1>9 DEF SameRelsOut, OutRel
<1>12. \A m : Far(d, m, N) <=> Far(e, m, N)
    BY <1>1, <1>9 DEF Far, Live
<1>13. SameMirrorsOut(d, e, N) /\ SameRelObsOut(d, e, N)
    BY <1>1, <1>12 DEF SameMirrorsOut, SameRelObsOut, OutRelObs
<1>14. \A k \in ks : ~OutOwner(d, k[1], k[2], N)
    BY <1>4, <1>8 DEF OutOwner
<1>15. \A kind, owner : OutOwner(d, kind, owner, N) <=> OutOwner(e, kind, owner, N)
    BY <1>9, <1>12 DEF OutOwner
<1>16. SameKeysOut(d, e, N)
    BY <1>1, <1>14, <1>15 DEF SameKeysOut, OutKey, Without
<1>17. RowsKept(d, e)
    BY <1>1, <1>3, <1>7 DEF RowsKept
<1>18. TotalsKept(d, e)
    BY <1>1 DEF TotalsKept
<1>19. Registered(d) => Registered(e)
    BY <1>1, <1>7 DEF Registered
<1>20. Cuts(d, e)
    BY <1>1 DEF Cuts
<1>21. Removes(d, e, N)
    BY <1>8, <1>10, <1>11, <1>13, <1>16, <1>17, <1>18, <1>19, <1>20 DEF Removes, Confined, Kept
<1> QED BY <1>5, <1>9, <1>21 DEF e, rs, i

\* The cascade of a delete.
LEMMA DeleteEntityRemoves ==
    ASSUME NEW d, Whole(d), NEW names, NEW n \in names, NEW N, Surrounded(d, names, N)
    PROVE  LET e == DeleteEntity(d, n) IN Removes(d, e, N) /\ Surrounded(e, names, N)
<1>1. CASE ~Exists(d, n)
    BY <1>1, WriteSteps DEF DeleteEntity, Whole
<1>2. CASE Exists(d, n)
  <2> DEFINE i == IdOf(d, n)
             rs == RelationsAt(d, i)
             f == Detached(d, n)
             e == TombstoneAll(f, rs)
             D == {a \in Stores : Sound(a) /\ a.entity = f.entity /\ a.relation = f.relation /\ Removes(f, a, N)}
  <2>1. DeleteEntity(d, n) = e
    BY <1>2 DEF DeleteEntity, Detached, RelationsAt
  <2>2. Surrounded(d, {n}, N)
    BY DEF Surrounded
  <2>3. Removes(d, f, N) /\ \A r \in rs : ~Out(f, r[1], N)
    BY <1>2, <2>2, DetachedRemoves
  <2>4. Sound(f) /\ f.entity = Without(d.entity, {i}) /\ f.relation = d.relation \ rs
    BY <1>2, DetachedSound
  <2>5. rs \subseteq Links /\ IsFiniteSet(rs) /\ d.relation \subseteq (DOMAIN d.entity) \X (DOMAIN d.entity) \X RelationTypes
    <3>1. rs \subseteq d.relation /\ d.relation \subseteq Links
        BY DEF RelationsAt, Whole, Sound, CountersOK
    <3> HIDE DEF rs
    <3> QED BY <3>1, RelationsFinite, FS_Subset DEF Whole
  <2>6. \A r \in f.relation : r[1] # i /\ r[2] # i /\ r \in d.relation
    BY <2>4 DEF RelationsAt
  <2> HIDE DEF f, rs, i
  <2>7. f \in D
    BY <2>4, SoundIsStore, WriteSteps
  <2>8. ASSUME NEW a \in D, NEW r \in rs PROVE tombstone_relation_mirror(a, r) \in D
    <3> DEFINE b == tombstone_relation_mirror(a, r)
    <3>1. ~Out(a, r[1], N)
        BY <2>3 DEF Out
    <3>2. Sound(b) /\ b.entity = a.entity /\ b.relation = a.relation
        BY <2>5, TombstoneSound
    <3>3. Removes(a, b, N)
        BY <2>5, <3>1, TombstoneRemoves
    <3> HIDE DEF b
    <3>4. Removes(f, b, N)
        BY <2>4, <3>3, WriteSteps
    <3> QED BY <3>2, <3>4, SoundIsStore DEF b
  <2> HIDE DEF D
  <2>9. e \in D
    BY <2>5, <2>7, <2>8, TombstoneAllStays
  <2>10. Removes(f, e, N) /\ e.entity = f.entity /\ e.relation = f.relation
    BY <2>9 DEF D
  <2> HIDE DEF e
  <2>11. Removes(d, e, N)
    BY <2>3, <2>10, WriteSteps DEF Whole
  <2>12. Surrounded(e, names, N)
    <3>1. \A r \in e.relation : r \in d.relation /\ e.entity[r[1]] = d.entity[r[1]] /\ e.entity[r[2]] = d.entity[r[2]]
        BY <2>4, <2>5, <2>6, <2>10 DEF Without
    <3> QED BY <3>1 DEF Surrounded
  <2> QED BY <2>1, <2>11, <2>12
<1> QED BY <1>1, <1>2

\* delete_entities of names that are surrounded.
LEMMA DeleteEntitiesRemoves ==
    ASSUME NEW d, Whole(d), NEW names, IsFiniteSet(names), NEW N, Surrounded(d, names, N)
    PROVE  Removes(d, delete_entities(d, names), N)
<1> DEFINE D == {a \in Stores : Whole(a) /\ Surrounded(a, names, N) /\ Removes(d, a, N)}
<1>1. d \in D
    BY SoundIsStore, WriteSteps DEF Whole
<1>2. ASSUME NEW a \in D, NEW n \in names PROVE DeleteEntity(a, n) \in D
  <2> DEFINE b == DeleteEntity(a, n)
  <2>1. Removes(a, b, N) /\ Surrounded(b, names, N)
    BY DeleteEntityRemoves
  <2>2. Whole(b)
    BY DeleteEntityWhole
  <2> HIDE DEF b
  <2>3. Removes(d, b, N)
    BY <2>1, WriteSteps DEF Whole
  <2> QED BY <2>1, <2>2, <2>3, SoundIsStore DEF Whole, b
<1> HIDE DEF D
<1>3. delete_entities(d, names) \in D
    BY <1>1, <1>2, DeleteEntitiesStays
<1> QED BY <1>3 DEF D

\* The relations that a merge makes are between names in N.
LEMMA CreateRelationsWrites ==
    ASSUME NEW d, Whole(d), NEW ts \in SUBSET Triples, IsFiniteSet(ts), NEW N, \A t \in ts : t[1] \in N /\ t[2] \in N,
           NEW names, Surrounded(d, names, N)
    PROVE  LET e == FoldLeft(create_relation, d, SetToSeq(ts))
           IN  /\ Whole(e) /\ Writes(d, e, N) /\ Surrounded(e, names, N)
               /\ e.entity = d.entity /\ e.relobs = d.relobs /\ e.stat = d.stat
<1> DEFINE D == {a \in Stores : /\ Whole(a) /\ Writes(d, a, N) /\ Surrounded(a, names, N)
                                /\ a.entity = d.entity /\ a.relobs = d.relobs /\ a.stat = d.stat}
<1>1. d \in D
    BY SoundIsStore, WriteSteps DEF Whole
<1>2. ASSUME NEW a \in D, NEW t \in ts PROVE create_relation(a, t) \in D
  <2> DEFINE b == create_relation(a, t)
  <2>1. Writes(a, b, N)
    BY CreateRelationWrites
  <2>2. Whole(b) /\ b.entity = a.entity
    BY CreateRelationWhole
  <2>3. /\ b.relobs = a.relobs /\ b.stat = a.stat
        /\ \A r \in b.relation : r \in a.relation \/ (Exists(a, t[1]) /\ Exists(a, t[2]) /\ r = Ids(a, t))
    <3> DEFINE d1 == type_id(a, 1, t[3])
               r == Ids(a, t)
               d2 == [d1 EXCEPT !.relation = d1.relation \cup {r}]
               f == PutMirror(d2, r, FALSE)
    <3>1. IsStore(a)
        BY DEF Whole, Sound, CountersOK
    <3>2. /\ d1.relobs = a.relobs /\ d1.stat = a.stat /\ d1.relation = a.relation /\ IsStore(d1)
        BY <3>1 DEF type_id, IsStore
    <3> HIDE DEF d1, r
    <3>3. f.relobs = a.relobs /\ f.stat = a.stat /\ f.relation = a.relation \cup {r}
        BY <3>2 DEF PutMirror, IsStore
    <3> HIDE DEF f
    <3>4. b = IF ~(Exists(a, t[1]) /\ Exists(a, t[2])) THEN a ELSE IF r \in a.relation THEN d1 ELSE f
        BY DEF create_relation, r, d1, f
    <3> HIDE DEF b
    <3> QED BY <3>2, <3>3, <3>4 DEF r
  <2> HIDE DEF b
  <2>4. Surrounded(b, names, N)
    <3>1. ASSUME NEW r \in b.relation, r \notin a.relation
          PROVE  b.entity[r[1]].name \in N /\ b.entity[r[2]].name \in N
        BY <2>2, <2>3, <3>1, IdOfIs DEF Ids
    <3> QED BY <2>2, <3>1 DEF Surrounded
  <2>5. Writes(d, b, N)
    BY <2>1, WriteSteps
  <2>6. b \in Stores
    BY <2>2, SoundIsStore DEF Whole
  <2> QED BY <2>2, <2>3, <2>4, <2>5, <2>6 DEF b
<1> HIDE DEF D
<1>3. FoldLeft(create_relation, d, SetToSeq(ts)) \in D
    BY <1>1, <1>2, CreateRelationsStays
<1> QED BY <1>3 DEF D

\* What a move of a relation does: no relation observation is lost.
Moves(d, e, N) ==
    /\ Confined(d, e, N) /\ Kept(d, e)
    /\ DOMAIN e.relobs = DOMAIN d.relobs /\ e.stat.relation_obs = d.stat.relation_obs

\* The first half of a move, with both relations inside N.
LEMMA ClearedMoves ==
    ASSUME NEW d, Whole(d), NEW r \in d.relation, NEW s \in (DOMAIN d.entity) \X (DOMAIN d.entity) \X RelationTypes,
           s \notin d.relation, <<1, s[3]>> \in DOMAIN d.type_dict,
           NEW N, ~Out(d, r[1], N), ~Out(d, r[2], N), ~Out(d, s[1], N), ~Out(d, s[2], N)
    PROVE  Moves(d, Cleared(d, r, s), N) /\ Cleared(d, r, s).relobs = d.relobs
<1> DEFINE e == Cleared(d, r, s)
           rr == (d.relation \ {r}) \cup {s}
           mm == Without(d.mirror, {m \in MirrorsOf(d, s) : d.mirror[m].deleted})
<1>1. /\ Sound(e) /\ e.entity = d.entity /\ e.relation = rr
      /\ Live(e) = Live(d) /\ \A m \in Live(d) : e.mirror[m] = d.mirror[m]
    BY ClearedSound
<1>2. IsStore(d) /\ d.seq.entity \in Nat /\ DOMAIN d.entity \subseteq Nat
    BY Fields DEF Whole, Sound, CountersOK
<1>3. e = [d EXCEPT !.relation = rr, !.mirror = mm]
    BY DEF Cleared
<1> HIDE DEF e, mm
<1>4. /\ e.relobs = d.relobs /\ e.attribute = d.attribute /\ e.observation = d.observation
      /\ e.seq = d.seq /\ e.stat = d.stat /\ e.type_dict = d.type_dict
    BY <1>2, <1>3 DEF IsStore
<1>5. \A i : Out(d, i, N) <=> Out(e, i, N)
    BY <1>1 DEF Out
<1>6. \A m : Far(d, m, N) <=> Far(e, m, N)
    BY <1>1, <1>5 DEF Far
<1>7. SameEntitiesOut(d, e, N) /\ SameMirrorsOut(d, e, N)
    BY <1>1, <1>5, <1>6 DEF SameEntitiesOut, SameMirrorsOut, Far
<1>8. SameRelsOut(d, e, N)
    BY <1>1, <1>5 DEF SameRelsOut, OutRel
<1>9. SameObsOut(d, e, N)
    BY <1>1, <1>4, SameObs
<1>10. SameRelObsOut(d, e, N) /\ SameKeysOut(d, e, N)
    BY <1>4, <1>5, <1>6 DEF SameRelObsOut, OutRelObs, SameKeysOut, OutKey, OutOwner
<1>11. RowsKept(d, e)
    BY <1>1, <1>2, <1>4 DEF RowsKept
<1>12. TotalsKept(d, e)
    BY <1>4 DEF TotalsKept
<1>13. Registered(d) => Registered(e)
    BY <1>1, <1>4 DEF Registered
<1> QED BY <1>4, <1>7, <1>8, <1>9, <1>10, <1>11, <1>12, <1>13 DEF Moves, Confined, Kept, e

\* MoveRelation: the children are re-homed before the old mirror dies.
LEMMA MoveRelationMoves ==
    ASSUME NEW d, Whole(d), NEW r \in d.relation, NEW s \in (DOMAIN d.entity) \X (DOMAIN d.entity) \X RelationTypes,
           s \notin d.relation, <<1, s[3]>> \in DOMAIN d.type_dict, NEW old \in Live(d), d.mirror[old].triple = r,
           NEW N, ~Out(d, r[1], N), ~Out(d, r[2], N), ~Out(d, s[1], N), ~Out(d, s[2], N)
    PROVE  Moves(d, MoveRelation(d, old, r, s), N)
<1> DEFINE d1 == Cleared(d, r, s)
           new == NextMirror(d1)
           d2 == [d1 EXCEPT !.mirror = With(d1.mirror, new, [triple |-> s, deleted |-> FALSE])]
           f == rehome_relation_children(d2, old, new)
           e == tombstone_relation_mirror(f, r)
<1>1. MoveRelation(d, old, r, s) = e
    BY DEF MoveRelation, Cleared
<1>2. r \in Links /\ s \in Links /\ r # s
  <2>1. d.relation \subseteq Links /\ DOMAIN d.entity \subseteq Nat
    BY Fields DEF Whole, Sound, CountersOK
  <2> QED BY <2>1 DEF Links
<1>3. /\ Sound(d1) /\ d1.entity = d.entity /\ Live(d1) = Live(d) /\ MirrorsOf(d1, s) = {}
      /\ \A m \in Live(d) : d1.mirror[m] = d.mirror[m]
    BY ClearedSound
<1>4. Moves(d, d1, N)
    BY ClearedMoves
<1> HIDE DEF d1
<1>5. d2 = PutMirror(d1, s, FALSE) /\ new = MirrorFor(d1, s)
    BY <1>3 DEF PutMirror, MirrorFor
<1>6. MirrorsOK(d1) /\ IsStore(d1)
    BY <1>3 DEF Sound, CountersOK
<1>7. /\ d2.mirror = With(d1.mirror, new, [triple |-> s, deleted |-> FALSE])
      /\ d2.relobs = d1.relobs /\ d2.stat = d1.stat
    BY <1>6 DEF IsStore
<1> HIDE DEF d2, new
<1>8. Sound(d2) /\ d2.entity = d.entity /\ new \in Live(d2)
  <2>1. /\ Sound(PutMirror(d1, s, FALSE)) /\ PutMirror(d1, s, FALSE).entity = d1.entity
        /\ MirrorFor(d1, s) \in Live(PutMirror(d1, s, FALSE))
    BY <1>2, <1>3, PutLiveMirror
  <2> QED BY <1>3, <1>5, <2>1
<1>9. \A i : Out(d, i, N) <=> Out(d1, i, N)
    BY <1>3 DEF Out
<1>10. Writes(d1, d2, N)
    BY <1>2, <1>3, <1>5, <1>9, PutLiveWrites
<1>11. old \in DOMAIN d1.mirror /\ d1.mirror[old].triple = r
    BY <1>3 DEF Live
<1>12. Puts(d1, d2, new, s, FALSE)
    BY <1>5, <1>7 DEF Puts
<1>13. /\ new # old /\ d2.mirror[old] = d1.mirror[old] /\ old \in DOMAIN d2.mirror
       /\ ~Far(d2, new, N)
  <2>0. FALSE \in BOOLEAN
    OBVIOUS
  <2>1. /\ MirrorsOK(d2) /\ MirrorsOf(d2, s) = {new} /\ DOMAIN d2.mirror = DOMAIN d1.mirror \cup {new}
        /\ d2.mirror[new] = [triple |-> s, deleted |-> FALSE]
        /\ \A k \in DOMAIN d1.mirror : k # new => d2.mirror[k] = d1.mirror[k] /\ d1.mirror[k].triple # s
        /\ new \in DOMAIN d1.mirror => d1.mirror[new].triple = s
    BY <1>2, <1>6, <1>12, <2>0, PutMirrorRow
  <2>2. ~Far(d2, new, N)
    BY <1>8, <2>1 DEF Far, Out
  <2> QED BY <1>2, <1>11, <2>1, <2>2
<1>14. ~Far(d2, old, N)
    BY <1>8, <1>11, <1>13 DEF Far, Out
<1>15. Sound(f) /\ SameGraph(d2, f)
    BY <1>8, RehomeSound
<1>16. /\ Writes(d2, f, N) /\ DOMAIN f.relobs = DOMAIN d2.relobs /\ f.stat = d2.stat
       /\ old # new => \A o \in DOMAIN f.relobs : f.relobs[o].mirror # old
    BY <1>8, <1>13, <1>14, RehomeWrites
<1> HIDE DEF f
<1>17. MirrorFor(f, r) = old
  <2>1. f.mirror = d2.mirror /\ MirrorsOK(f)
    BY <1>15 DEF SameGraph, Sound
  <2>2. MirrorsOf(f, r) = {old}
    BY <1>11, <1>13, <2>1 DEF MirrorsOf, MirrorsOK
  <2> QED BY <2>2 DEF MirrorFor
<1>18. Removes(f, e, N)
  <2>1. ~Out(f, r[1], N)
    BY <1>8, <1>15 DEF SameGraph, Out
  <2> QED BY <1>2, <1>15, <2>1, TombstoneRemoves
<1>19. e.relobs = Without(f.relobs, {o \in DOMAIN f.relobs : f.relobs[o].mirror = old}) /\ e.stat = f.stat
  <2> DEFINE m == MirrorFor(f, r)
  <2>1. /\ SameOwners(f, e) /\ e.stat = f.stat
        /\ e.mirror = With(f.mirror, m, [triple |-> r, deleted |-> TRUE])
        /\ e.relobs = Without(f.relobs, {o \in DOMAIN f.relobs : f.relobs[o].mirror = m})
        /\ e.attribute = Without(f.attribute, {<<"relation", m, key>> : key \in AttrKeys})
        /\ Puts(f, e, m, r, TRUE)
    <3>1. Sound(f) /\ r \in Links
        BY <1>2, <1>15
    <3> QED BY ONLY <3>1, TombstoneFields
  <2> QED BY <1>17, <2>1
<1> HIDE DEF e
<1>20. DOMAIN e.relobs = DOMAIN f.relobs
    BY <1>13, <1>16, <1>19 DEF Without
<1>21. Confined(d, e, N)
    BY <1>4, <1>10, <1>16, <1>18, ConfinedSteps DEF Moves, Writes, Removes
<1>22. Kept(d, e)
    BY <1>4, <1>10, <1>16, <1>18, KeptSteps DEF Moves, Writes, Removes
<1>23. DOMAIN e.relobs = DOMAIN d.relobs /\ e.stat.relation_obs = d.stat.relation_obs
    BY <1>4, <1>7, <1>16, <1>19, <1>20 DEF Moves
<1> QED BY <1>1, <1>21, <1>22, <1>23 DEF Moves
-----------------------------------------------------------------------------
(* Requests *)

\* The entities that affected_names counts for an item are in N.
ItemNear(op, x, N) ==
    /\ op \in {"CreateEntities", "UpsertEntities", "AddObservations", "DeleteObservations"} => x.name \in N
    /\ op = "CreateRelations" => x.triple[1] \in N /\ x.triple[2] \in N
    /\ op = "DeleteRelations" => x[1] \in N /\ x[2] \in N
    /\ op \in {"AddRelationObservations", "DeleteRelationObservations"} => x.triple[1] \in N
    /\ op \in {"SetAttributes", "DeleteAttributes"} => (IF x.kind = "entity" THEN x.name ELSE x.triple[1]) \in N

\* What the items of a request do.
ItemDoes(op, d, e, N) ==
    /\ op = "DeleteRelations" => Removes(d, e, N)
    /\ op # "DeleteRelations" => Writes(d, e, N)
    /\ op \in Quiet => SameGraph(d, e)

\* The owner of attributes that a request names is in N.
LEMMA OwnerInside ==
    ASSUME NEW d, NEW t, IsOwner(t), HasOwner(d, t), NEW N, (IF t.kind = "entity" THEN t.name ELSE t.triple[1]) \in N
    PROVE  ~OutOwner(d, t.kind, resolve_attribute_owner(d, t), N)
<1>1. CASE t.kind = "entity"
  <2>1. ~Out(d, IdOf(d, t.name), N) /\ resolve_attribute_owner(d, t) = IdOf(d, t.name)
    BY <1>1, Inside DEF HasOwner, resolve_attribute_owner
  <2> QED BY <1>1, <2>1 DEF OutOwner
<1>2. CASE t.kind # "entity"
  <2>1. ~Far(d, resolve_relation_mirror(d, t.triple), N) /\ resolve_attribute_owner(d, t) = resolve_relation_mirror(d, t.triple)
    BY <1>2, Inside DEF HasOwner, resolve_attribute_owner
  <2> QED BY <1>2, <2>1 DEF OutOwner
<1> QED BY <1>1, <1>2

\* An item that is refused or finds nothing to do.
LEMMA NothingDone == ASSUME NEW d, Whole(d), NEW op, NEW N PROVE ItemDoes(op, d, d, N)
BY WriteSteps DEF ItemDoes, Whole, SameGraph

\* One item of a request.
LEMMA ItemFollows ==
    ASSUME NEW d, Whole(d), NEW op, NEW x, IsItem(op, x), NEW N, ItemNear(op, x, N)
    PROVE  ItemDoes(op, d, ItemOf(d, op, x).db, N)
<1>0. /\ Sound(d) /\ ItemDoes(op, d, d, N) /\ Ok(d).db = d /\ Refused(d).db = d
      /\ \A e : Ok(e).db = e
    BY NothingDone DEF Whole, Ok, Refused
<1>1. CASE op = "CreateEntities"
  <2>1. IsEntityInput(x) /\ ItemOf(d, op, x) = Ok(create_entity(d, x)) /\ x.name \in N
    BY <1>1 DEF IsItem, ItemOf, ItemNear
  <2>2. Writes(d, create_entity(d, x), N)
    BY <2>1, CreateEntityWrites
  <2> QED BY <1>0, <1>1, <2>1, <2>2 DEF ItemDoes, Quiet
<1>2. CASE op = "UpsertEntities"
  <2>1. IsEntityInput(x) /\ ItemOf(d, op, x) = Ok(UpsertEntity(d, x)) /\ x.name \in N
    BY <1>2 DEF IsItem, ItemOf, ItemNear
  <2>2. Writes(d, UpsertEntity(d, x), N)
    BY <2>1, UpsertEntityWrites
  <2> QED BY <1>0, <1>2, <2>1, <2>2 DEF ItemDoes, Quiet
<1>3. CASE op = "CreateRelations"
  <2>1. /\ x.triple \in Triples /\ x.observations \in Seq(Bodies) /\ x.attributes \in Attributes
        /\ ItemOf(d, op, x) = Ok(create_relation_with(d, x)) /\ x.triple[1] \in N /\ x.triple[2] \in N
    BY <1>3 DEF IsItem, ItemOf, ItemNear
  <2>2. Writes(d, create_relation_with(d, x), N)
    BY <2>1, CreateRelationWithWrites
  <2> QED BY <1>0, <1>3, <2>1, <2>2 DEF ItemDoes, Quiet
<1>4. CASE op = "DeleteRelations"
  <2>1. x \in Triples /\ ItemOf(d, op, x) = Ok(DeleteRelation(d, x)) /\ x[1] \in N /\ x[2] \in N
    BY <1>4 DEF IsItem, ItemOf, ItemNear
  <2>2. Removes(d, DeleteRelation(d, x), N)
    BY <2>1, DeleteRelationRemoves
  <2> QED BY <1>0, <1>4, <2>1, <2>2 DEF ItemDoes, Quiet
<1>5. CASE op = "AddRelationObservations"
  <2> DEFINE m == resolve_relation_mirror(d, x.triple)
             e == insert_relation_observations(d, m, x.contents)
  <2>1. x.contents \in Seq(Bodies) /\ ItemOf(d, op, x) = AddRelationObservations(d, x) /\ x.triple[1] \in N
    BY <1>5 DEF IsItem, ItemOf, ItemNear
  <2>2. CASE LiveMirrors(d, x.triple) = {}
    BY <1>0, <2>1, <2>2 DEF AddRelationObservations
  <2>3. CASE LiveMirrors(d, x.triple) # {}
    <3>1. m \in Live(d) /\ ~Far(d, m, N)
        BY <2>1, <2>3, MirrorResolved, Inside
    <3>2. ItemOf(d, op, x) = Ok(e)
        BY <2>1, <2>3 DEF AddRelationObservations
    <3> HIDE DEF m
    <3>3. Writes(d, e, N) /\ SameGraph(d, e)
        BY <1>0, <2>1, <3>1, InsertRelationObservationsWrites, InsertRelationObservationsSound
    <3> QED BY <1>0, <1>5, <3>2, <3>3 DEF ItemDoes
  <2> QED BY <2>2, <2>3
<1>6. CASE op = "DeleteRelationObservations"
  <2> DEFINE m == resolve_relation_mirror(d, x.triple)
             os == {o \in DOMAIN d.relobs : d.relobs[o].mirror = m /\ d.relobs[o].body \in Range(x.contents)}
             e == DropRelationObservations(d, os)
  <2>1. ItemOf(d, op, x) = DeleteRelationObservations(d, x) /\ x.triple[1] \in N
    BY <1>6 DEF ItemOf, ItemNear
  <2>2. CASE x.contents = <<>> \/ LiveMirrors(d, x.triple) = {}
    BY <1>0, <2>1, <2>2 DEF DeleteRelationObservations
  <2>3. CASE ~(x.contents = <<>> \/ LiveMirrors(d, x.triple) = {})
    <3>1. ItemOf(d, op, x) = Ok(e)
        BY <2>1, <2>3 DEF DeleteRelationObservations
    <3>2. ~Far(d, m, N)
        BY <2>1, <2>3, Inside
    <3>3. os \in SUBSET DOMAIN d.relobs /\ \A o \in os : ~OutRelObs(d, o, N)
        BY <3>2 DEF OutRelObs
    <3> HIDE DEF os
    <3>4. Writes(d, e, N) /\ SameGraph(d, e)
        BY <1>0, <3>3, DropRelationObservationsWrites, DropRelationObservationsSound
    <3> QED BY <1>0, <1>6, <3>1, <3>4 DEF ItemDoes
  <2> QED BY <2>2, <2>3
<1>7. CASE op = "SetAttributes"
  <2> DEFINE e == upsert_attributes(d, x.kind, resolve_attribute_owner(d, x), x.attributes)
  <2>1. /\ IsOwner(x) /\ x.attributes \in Attributes /\ ItemOf(d, op, x) = SetAttributes(d, x)
        /\ (IF x.kind = "entity" THEN x.name ELSE x.triple[1]) \in N
    BY <1>7 DEF IsItem, ItemOf, ItemNear
  <2>2. CASE ~HasOwner(d, x)
    BY <1>0, <2>1, <2>2 DEF SetAttributes
  <2>3. CASE HasOwner(d, x)
    <3>1. Sound(e) /\ SameGraph(d, e)
        BY <1>0, <2>1, <2>3, OwnerOwned, UpsertAttributesSound
    <3>2. ItemOf(d, op, x) = Ok(e)
        BY <2>1, <2>3 DEF SetAttributes
    <3>3. Writes(d, e, N)
        BY <1>0, <2>1, <2>3, OwnerInside, UpsertAttributesWrites
    <3> HIDE DEF e
    <3> QED BY <1>0, <1>7, <3>1, <3>2, <3>3 DEF ItemDoes
  <2> QED BY <2>2, <2>3
<1>8. CASE op = "DeleteAttributes"
  <2> DEFINE e == delete_attribute_keys(d, x.kind, resolve_attribute_owner(d, x), x.keys)
  <2>1. /\ IsOwner(x) /\ ItemOf(d, op, x) = DeleteAttributes(d, x)
        /\ (IF x.kind = "entity" THEN x.name ELSE x.triple[1]) \in N
    BY <1>8 DEF IsItem, ItemOf, ItemNear
  <2>2. CASE ~HasOwner(d, x)
    BY <1>0, <2>1, <2>2 DEF DeleteAttributes
  <2>3. CASE HasOwner(d, x)
    <3>1. Sound(e) /\ SameGraph(d, e)
        BY <1>0, DeleteAttributeKeysSound
    <3>2. ItemOf(d, op, x) = Ok(e)
        BY <2>1, <2>3 DEF DeleteAttributes
    <3>3. Writes(d, e, N)
        BY <1>0, <2>1, <2>3, OwnerInside, DeleteAttributeKeysWrites
    <3> HIDE DEF e
    <3> QED BY <1>0, <1>8, <3>1, <3>2, <3>3 DEF ItemDoes
  <2> QED BY <2>2, <2>3
<1>9. CASE op = "AddObservations"
  <2> DEFINE e == insert_observations(d, IdOf(d, x.name), x.contents)
  <2>1. x.contents \in Seq(Bodies) /\ ItemOf(d, op, x) = AddObservations(d, x) /\ x.name \in N
    BY <1>9 DEF IsItem, ItemOf, ItemNear
  <2>2. CASE ~Exists(d, x.name)
    BY <1>0, <2>1, <2>2 DEF AddObservations
  <2>3. CASE Exists(d, x.name)
    <3>1. IdOf(d, x.name) \in DOMAIN d.entity /\ ~Out(d, IdOf(d, x.name), N)
        BY <2>1, <2>3, IdOfIs, Inside
    <3>2. Writes(d, e, N)
        BY <1>0, <2>1, <3>1, InsertObservationsWrites
    <3>3. ItemOf(d, op, x) = Ok(e)
        BY <2>1, <2>3 DEF AddObservations
    <3> HIDE DEF e
    <3> QED BY <1>0, <1>9, <3>2, <3>3 DEF ItemDoes, Quiet
  <2> QED BY <2>2, <2>3
<1>10. CASE op = "DeleteObservations"
  <2> DEFINE os == {o \in ObservationsOf(d, IdOf(d, x.name)) : d.observation[o].body \in Range(x.contents)}
             e == DeleteObservationRows(d, os)
  <2>1. ItemOf(d, op, x) = DeleteObservations(d, x) /\ x.name \in N
    BY <1>10 DEF ItemOf, ItemNear
  <2>2. CASE x.contents = <<>> \/ ~Exists(d, x.name)
    BY <1>0, <2>1, <2>2 DEF DeleteObservations
  <2>3. CASE ~(x.contents = <<>> \/ ~Exists(d, x.name))
    <3>1. ItemOf(d, op, x) = Ok(e)
        BY <2>1, <2>3 DEF DeleteObservations
    <3>2. ~Out(d, IdOf(d, x.name), N)
        BY <2>1, <2>3, Inside
    <3>3. \A o \in os : ~OutObs(d, o, N)
        BY <3>2 DEF OutObs, ObservationsOf
    <3> HIDE DEF os
    <3>4. Writes(d, e, N)
        BY <1>0, <3>3, DeleteObservationRowsWrites
    <3> QED BY <1>0, <1>10, <3>1, <3>4 DEF ItemDoes, Quiet
  <2> QED BY <2>2, <2>3
<1> QED BY <1>1, <1>2, <1>3, <1>4, <1>5, <1>6, <1>7, <1>8, <1>9, <1>10 DEF IsItem

\* Two items that follow each other.
LEMMA ItemSteps ==
    ASSUME NEW op, NEW d, Sound(d), NEW e, NEW f, NEW N, ItemDoes(op, d, e, N), ItemDoes(op, e, f, N)
    PROVE  ItemDoes(op, d, f, N)
<1>1. op # "DeleteRelations" => Writes(d, f, N)
    BY WriteSteps DEF ItemDoes
<1>2. op = "DeleteRelations" => Removes(d, f, N)
    BY WriteSteps DEF ItemDoes
<1>3. op \in Quiet => SameGraph(d, f)
    BY DEF ItemDoes, SameGraph
<1> QED BY <1>1, <1>2, <1>3 DEF ItemDoes

\* The items of a request in order.
LEMMA InOrderFollows ==
    ASSUME NEW d, Whole(d), NEW q, NEW m \in Nat, DOMAIN q.items = 1..m, NEW N,
           \A k \in 1..m : IsItem(q.op, q.items[k]) /\ ItemNear(q.op, q.items[k], N)
    PROVE  ItemDoes(q.op, d, InOrder(d, q).db, N)
<1> DEFINE D == {a \in [ok : BOOLEAN, db : Stores] : Outcome(a) /\ ItemDoes(q.op, d, a.db, N)}
<1>1. Ok(d) \in D
  <2>1. Ok(d) \in [ok : BOOLEAN, db : Stores] /\ Ok(d).db = d
    BY SoundIsStore DEF Whole, Ok
  <2> QED BY <2>1, OkOutcome, NothingDone
<1>2. ASSUME NEW a \in D, NEW k \in 1..m PROVE NextItem(a, q.op, q.items[k]) \in D
  <2> DEFINE b == ItemOf(a.db, q.op, q.items[k])
  <2>1. CASE ~a.ok
    BY <2>1 DEF NextItem
  <2>2. CASE a.ok
    <3>1. Whole(a.db)
        BY DEF Outcome
    <3>2. Outcome(b)
        BY <3>1, ItemWhole
    <3>3. ItemDoes(q.op, a.db, b.db, N)
        BY <3>1, ItemFollows
    <3>4. NextItem(a, q.op, q.items[k]) = b
        BY <2>2 DEF NextItem
    <3> HIDE DEF b
    <3>5. ItemDoes(q.op, d, b.db, N)
        BY <3>3, ItemSteps DEF Whole
    <3>6. b \in [ok : BOOLEAN, db : Stores]
        BY <3>2, SoundIsStore DEF Outcome, Whole
    <3> QED BY <3>2, <3>4, <3>5, <3>6
  <2> QED BY <2>1, <2>2
<1> HIDE DEF D
<1>3. InOrder(d, q) \in D
    BY <1>1, <1>2, InOrderStays
<1> QED BY <1>3 DEF D
-----------------------------------------------------------------------------
(* The ledger of relation observations *)

\* What is lost with relations is what the counter goes on counting.
Counted(d, e) == LostWith(d, e) \in Nat /\ Surplus(e) = Surplus(d) + LostWith(d, e)

\* Something is lost only with a relation, or an entity, that is gone.
Booked(d, e) ==
    /\ Counted(d, e)
    /\ LostWith(d, e) > 0 => Cardinality(e.relation) < Cardinality(d.relation) \/ DOMAIN e.entity # DOMAIN d.entity

\* The counter is a number.
LEMMA SurplusInt == ASSUME NEW d, Sound(d) PROVE Surplus(d) \in Int /\ IsFiniteSet(DOMAIN d.relobs) /\ Cardinality(DOMAIN d.relobs) \in Nat
<1>1. d.seq.rel_obs \in Nat /\ IsTable(d.relobs, 1..d.seq.rel_obs, [mirror : Live(d), body : Bodies])
    BY DEF Sound, CountersOK, RelationObservationsOK
<1>2. IsFiniteSet(DOMAIN d.relobs) /\ Cardinality(DOMAIN d.relobs) \in Nat
    BY <1>1, RowsCount
<1>3. d.stat.relation_obs \in Int
    BY DEF Sound, CountersOK
<1> QED BY <1>2, <1>3 DEF Surplus

\* No relation goes, so nothing is lost.
LEMMA SteadyBooked == ASSUME NEW d, Sound(d), NEW e, Steady(d, e) PROVE Booked(d, e)
<1>1. \A o \in DOMAIN d.relobs : d.relobs[o].mirror \in Live(d)
    BY DEF Sound, RelationObservationsOK, IsTable
<1>2. {o \in DOMAIN d.relobs \ DOMAIN e.relobs : e.mirror[d.relobs[o].mirror].deleted} = {}
    BY <1>1 DEF Steady, Live
<1>3. LostWith(d, e) = 0
    BY <1>2, FS_EmptySet DEF LostWith
<1> QED BY <1>3, SurplusInt DEF Booked, Counted, Steady

\* A move keeps the rows.
LEMMA MovesBooked == ASSUME NEW d, Sound(d), NEW e, NEW N, Moves(d, e, N) PROVE Booked(d, e)
<1>1. {o \in DOMAIN d.relobs \ DOMAIN e.relobs : e.mirror[d.relobs[o].mirror].deleted} = {}
    BY DEF Moves
<1>2. LostWith(d, e) = 0
    BY <1>1, FS_EmptySet DEF LostWith
<1> QED BY <1>2, SurplusInt DEF Booked, Counted, Moves, Surplus

\* What a deletion of relations takes off the rows stays on the counter.
LEMMA CutsCounted ==
    ASSUME NEW d, Sound(d), NEW e, Sound(e), Cuts(d, e)
    PROVE  Counted(d, e) /\ (LostWith(d, e) > 0 => \E o \in DOMAIN d.relobs : o \notin DOMAIN e.relobs)
<1> DEFINE L == DOMAIN d.relobs \ DOMAIN e.relobs
<1>1. {o \in DOMAIN d.relobs \ DOMAIN e.relobs : e.mirror[d.relobs[o].mirror].deleted} = L
    BY DEF Cuts
<1>2. LostWith(d, e) = Cardinality(L)
    BY <1>1 DEF LostWith
<1>3. DOMAIN e.relobs \in SUBSET DOMAIN d.relobs
    BY DEF Cuts
<1>4. d.seq.rel_obs \in Nat /\ IsTable(d.relobs, 1..d.seq.rel_obs, [mirror : Live(d), body : Bodies])
    BY DEF Sound, CountersOK, RelationObservationsOK
<1>5. /\ Cardinality(L) = Cardinality(DOMAIN d.relobs) - Cardinality(DOMAIN e.relobs)
      /\ Cardinality(DOMAIN d.relobs) \in Nat /\ Cardinality(DOMAIN e.relobs) \in Nat
    BY <1>3, <1>4, RowsCount
<1>6. IsFiniteSet(L) /\ Cardinality(L) \in Nat
  <2>1. L \in SUBSET DOMAIN d.relobs
    OBVIOUS
  <2> HIDE DEF L
  <2> QED BY <1>4, <2>1, RowsCount
<1>7. d.stat.relation_obs \in Int /\ e.stat.relation_obs = d.stat.relation_obs
    BY DEF Sound, CountersOK, Cuts
<1>8. Counted(d, e)
    BY <1>2, <1>5, <1>6, <1>7 DEF Counted, Surplus
<1>9. L = {} => Cardinality(L) = 0
    BY FS_EmptySet
<1> QED BY <1>2, <1>8, <1>9

\* A relation observation is lost with its relation.
LEMMA CutsBooked == ASSUME NEW d, Whole(d), NEW e, Whole(e), Cuts(d, e) PROVE Booked(d, e)
<1>1. Counted(d, e) /\ (LostWith(d, e) > 0 => \E o \in DOMAIN d.relobs : o \notin DOMAIN e.relobs)
    BY CutsCounted DEF Whole
<1>2. ASSUME NEW o \in DOMAIN d.relobs, o \notin DOMAIN e.relobs
      PROVE  Cardinality(e.relation) < Cardinality(d.relation)
  <2> DEFINE m == d.relobs[o].mirror
             r == d.mirror[m].triple
  <2>1. m \in Live(d)
    BY DEF Whole, Sound, RelationObservationsOK, IsTable
  <2>2. r \in d.relation /\ m \in DOMAIN d.mirror
    BY <2>1 DEF Whole, Mirrored, Live
  <2>3. m \in DOMAIN e.mirror /\ e.mirror[m].triple = r /\ e.mirror[m].deleted
    BY <1>2, <2>2 DEF Cuts
  <2>4. m \notin Live(e)
    BY <2>3 DEF Live
  <2> HIDE DEF m, r
  <2>5. r \notin e.relation
    BY <2>3, <2>4 DEF Whole, Mirrored, Live, Sound, MirrorsOK
  <2>6. e.relation \in SUBSET d.relation /\ e.relation # d.relation /\ IsFiniteSet(d.relation)
    BY <2>2, <2>5, RelationsFinite DEF Cuts
  <2>7. /\ IsFiniteSet(e.relation) /\ Cardinality(e.relation) <= Cardinality(d.relation)
        /\ Cardinality(e.relation) # Cardinality(d.relation)
    BY <2>6, FS_Subset
  <2>8. Cardinality(e.relation) \in Nat /\ Cardinality(d.relation) \in Nat
    BY <2>6, <2>7, FS_CardinalityType
  <2> QED BY <2>7, <2>8
<1> QED BY <1>1, <1>2 DEF Booked
-----------------------------------------------------------------------------
(* The requests that are not lists of items *)

\* EditObservation of an entity in N.
LEMMA EditObservationWrites ==
    ASSUME NEW d, Whole(d), NEW q, NEW N, q.name \in N
    PROVE  Writes(d, EditObservation(d, q).db, N)
<1>0. Sound(d) /\ (\A e : Ok(e).db = e) /\ Refused(d).db = d /\ Writes(d, d, N)
    BY WriteSteps DEF Whole, Ok, Refused
<1>1. CASE ~Exists(d, q.name) \/ q.id \notin ObservationsOf(d, IdOf(d, q.name))
    BY <1>0, <1>1 DEF EditObservation
<1>2. CASE Exists(d, q.name) /\ q.id \in ObservationsOf(d, IdOf(d, q.name))
  <2> DEFINE o == q.id
             t == [d.observation EXCEPT ![o] = [d.observation[o] EXCEPT !.body = q.body]]
             e == [d EXCEPT !.observation[q.id].body = q.body,
                            !.obs_fts = (d.obs_fts \ {<<q.id, d.observation[q.id].body>>}) \cup {<<q.id, q.body>>}]
  <2>1. EditObservation(d, q) = Ok(e)
    BY <1>2 DEF EditObservation
  <2>2. IsStore(d) /\ o \in DOMAIN d.observation /\ ~Out(d, d.observation[o].entity, N)
    BY <1>2, Inside DEF Whole, Sound, CountersOK, ObservationsOf
  <2>3. SameRest(d, e) /\ e.attribute = d.attribute /\ e.observation = t
    BY <2>2 DEF IsStore, SameRest
  <2>4. d.observation[o] \in [entity : DOMAIN d.entity, body : Bodies]
    BY <1>0, <2>2 DEF Sound, ObservationsOK, IsTable
  <2>5. /\ DOMAIN t = DOMAIN d.observation /\ t[o].entity = d.observation[o].entity
        /\ \A p \in DOMAIN d.observation : p # o => t[p] = d.observation[p]
    BY <2>2, <2>4
  <2> HIDE DEF t, e
  <2>6. SameObsOut(d, e, N)
    BY <2>2, <2>3, <2>5 DEF SameObsOut, OutObs, Out, SameRest
  <2>7. SameKeysOut(d, e, N)
    BY <2>3, SameKeys DEF SameRest
  <2>8. Writes(d, e, N)
    BY <1>0, <2>3, <2>6, <2>7, SameRestWrites
  <2> QED BY <1>0, <2>1, <2>8
<1> QED BY <1>1, <1>2

\* DeleteObservationById of an entity in N.
LEMMA DeleteObservationByIdWrites ==
    ASSUME NEW d, Whole(d), NEW q, NEW N, q.name \in N
    PROVE  Writes(d, DeleteObservationById(d, q).db, N)
<1>0. Sound(d) /\ (\A e : Ok(e).db = e) /\ Refused(d).db = d /\ Writes(d, d, N)
    BY WriteSteps DEF Whole, Ok, Refused
<1>1. CASE ~Exists(d, q.name)
    BY <1>0, <1>1 DEF DeleteObservationById
<1>2. CASE Exists(d, q.name)
  <2> DEFINE os == ObservationsOf(d, IdOf(d, q.name)) \cap {q.id}
             e == DeleteObservationRows(d, os)
  <2>1. DeleteObservationById(d, q) = Ok(e)
    BY <1>2 DEF DeleteObservationById
  <2>2. \A o \in os : ~OutObs(d, o, N)
    BY <1>2, Inside DEF OutObs, ObservationsOf
  <2> HIDE DEF os
  <2>3. Writes(d, e, N)
    BY <1>0, <2>2, DeleteObservationRowsWrites
  <2> QED BY <1>0, <2>1, <2>3
<1> QED BY <1>1, <1>2

\* DeleteRelationObservationById of a relation that starts in N.
LEMMA DeleteRelationObservationByIdWrites ==
    ASSUME NEW d, Whole(d), NEW q, NEW N, q.triple[1] \in N
    PROVE  LET e == DeleteRelationObservationById(d, q).db IN Writes(d, e, N) /\ SameGraph(d, e)
<1>0. Sound(d) /\ (\A e : Ok(e).db = e) /\ Refused(d).db = d /\ Writes(d, d, N) /\ SameGraph(d, d)
    BY WriteSteps DEF Whole, Ok, Refused, SameGraph
<1>1. CASE LiveMirrors(d, q.triple) = {}
    BY <1>0, <1>1 DEF DeleteRelationObservationById
<1>2. CASE LiveMirrors(d, q.triple) # {}
  <2> DEFINE m == resolve_relation_mirror(d, q.triple)
             os == {o \in DOMAIN d.relobs \cap {q.id} : d.relobs[o].mirror = m}
             e == DropRelationObservations(d, os)
  <2>1. DeleteRelationObservationById(d, q) = Ok(e)
    BY <1>2 DEF DeleteRelationObservationById
  <2>2. ~Far(d, m, N)
    BY <1>2, Inside
  <2>3. os \in SUBSET DOMAIN d.relobs /\ \A o \in os : ~OutRelObs(d, o, N)
    BY <2>2 DEF OutRelObs
  <2> HIDE DEF os
  <2>4. Writes(d, e, N) /\ SameGraph(d, e)
    BY <1>0, <2>3, DropRelationObservationsWrites, DropRelationObservationsSound
  <2> QED BY <1>0, <2>1, <2>4
<1> QED BY <1>1, <1>2

\* Nothing done is a move as well.
LEMMA MovesNothing == ASSUME NEW d, Sound(d), NEW N PROVE Moves(d, d, N)
BY ConfinedSteps, KeptSteps DEF Moves

\* ReverseRelation between entities in N.
LEMMA ReverseRelationMoves ==
    ASSUME NEW d, Whole(d), Registered(d), NEW q, q.triple \in Triples, NEW N, q.triple[1] \in N, q.triple[2] \in N
    PROVE  Moves(d, ReverseRelation(d, q).db, N)
<1> DEFINE t == q.triple
           s == <<t[2], t[1], t[3]>>
           m == resolve_relation_mirror(d, t)
           r1 == Ids(d, t)
           r2 == Ids(d, s)
           e == MoveRelation(d, m, r1, r2)
<1>0. (\A f : Ok(f).db = f) /\ Refused(d).db = d /\ Moves(d, d, N)
    BY MovesNothing DEF Whole, Ok, Refused
<1>1. CASE t[1] = t[2] \/ LiveMirrors(d, t) = {} \/ Taken(d, s)
    BY <1>0, <1>1 DEF ReverseRelation
<1>2. CASE ~(t[1] = t[2] \/ LiveMirrors(d, t) = {} \/ Taken(d, s))
  <2>1. ReverseRelation(d, q) = Ok(e)
    BY <1>2 DEF ReverseRelation
  <2>2. m \in Live(d) /\ d.mirror[m].triple = r1 /\ Exists(d, t[1]) /\ Exists(d, t[2])
    BY <1>2, MirrorResolved
  <2>3. r1 \in d.relation
    BY <2>2 DEF Whole, Mirrored
  <2>4. s \in Triples /\ s[1] = t[2] /\ s[2] = t[1]
    BY DEF Triples
  <2>5. r2 \notin d.relation
    BY <1>2 DEF Taken
  <2>6. ~Out(d, r1[1], N) /\ ~Out(d, r1[2], N) /\ ~Out(d, r2[1], N) /\ ~Out(d, r2[2], N)
    BY <2>2, Inside DEF Ids
  <2>7. <<1, r2[3]>> \in DOMAIN d.type_dict
    BY <2>3 DEF Registered, Ids
  <2> HIDE DEF s, m
  <2>8. r2 \in (DOMAIN d.entity) \X (DOMAIN d.entity) \X RelationTypes
    BY <2>2, <2>4, IdsAre DEF Whole
  <2> HIDE DEF r1, r2
  <2>9. Moves(d, e, N)
    BY <2>2, <2>3, <2>5, <2>6, <2>7, <2>8, MoveRelationMoves
  <2> QED BY <1>0, <2>1, <2>9
<1> QED BY <1>1, <1>2

\* ChangeRelationType between entities in N: type_id registers the new type first.
LEMMA ChangeRelationTypeMoves ==
    ASSUME NEW d, Whole(d), NEW q, q.triple \in Triples, q.type \in RelationTypes, NEW N, q.triple[1] \in N, q.triple[2] \in N
    PROVE  Moves(d, ChangeRelationType(d, q).db, N)
<1> DEFINE t == q.triple
           s == <<t[1], t[2], q.type>>
           m == resolve_relation_mirror(d, t)
           d1 == type_id(d, 1, q.type)
           r1 == Ids(d, t)
           r2 == Ids(d, s)
           e == MoveRelation(d1, m, r1, r2)
<1>0. (\A f : Ok(f).db = f) /\ Refused(d).db = d /\ Moves(d, d, N)
    BY MovesNothing DEF Whole, Ok, Refused
<1>1. CASE s = t \/ LiveMirrors(d, t) = {} \/ Taken(d, s)
    BY <1>0, <1>1 DEF ChangeRelationType
<1>2. CASE ~(s = t \/ LiveMirrors(d, t) = {} \/ Taken(d, s))
  <2>1. ChangeRelationType(d, q) = Ok(e)
    BY <1>2 DEF ChangeRelationType
  <2>2. m \in Live(d) /\ d.mirror[m].triple = r1 /\ Exists(d, t[1]) /\ Exists(d, t[2])
    BY <1>2, MirrorResolved
  <2>3. r1 \in d.relation
    BY <2>2 DEF Whole, Mirrored
  <2>4. s \in Triples /\ s[1] = t[1] /\ s[2] = t[2] /\ s[3] = q.type
    BY DEF Triples
  <2>5. r2 \notin d.relation
    BY <1>2 DEF Taken
  <2>6. <<1, q.type>> \in TypeKeys
    BY DEF TypeKeys
  <2>7. Sound(d1) /\ SameGraph(d, d1) /\ Writes(d, d1, N) /\ <<1, q.type>> \in DOMAIN d1.type_dict
    BY <2>6, TypeIdSound, TypeIdWrites DEF Whole
  <2>8. Whole(d1) /\ d1.entity = d.entity /\ d1.relation = d.relation /\ d1.mirror = d.mirror /\ Live(d1) = Live(d)
    BY <2>7, SameIsWhole DEF SameGraph, Live
  <2>9. d1.relobs = d.relobs /\ d1.stat = d.stat
    <3>1. IsStore(d)
        BY DEF Whole, Sound, CountersOK
    <3> QED BY <3>1 DEF type_id, IsStore
  <2>10. ~Out(d, r1[1], N) /\ ~Out(d, r1[2], N) /\ ~Out(d, r2[1], N) /\ ~Out(d, r2[2], N)
    BY <2>2, Inside DEF Ids
  <2>11. r2[3] = q.type
    BY DEF Ids
  <2> HIDE DEF s, m, d1
  <2>12. r2 \in (DOMAIN d.entity) \X (DOMAIN d.entity) \X RelationTypes
    BY <2>2, <2>4, IdsAre DEF Whole
  <2> HIDE DEF r1, r2
  <2>13. ~Out(d1, r1[1], N) /\ ~Out(d1, r1[2], N) /\ ~Out(d1, r2[1], N) /\ ~Out(d1, r2[2], N)
    BY <2>8, <2>10 DEF Out
  <2>14. Moves(d1, e, N)
    BY <2>2, <2>3, <2>5, <2>7, <2>8, <2>11, <2>12, <2>13, MoveRelationMoves
  <2> HIDE DEF e
  <2>15. Moves(d, e, N)
    BY <2>7, <2>9, <2>14, ConfinedSteps, KeptSteps DEF Moves, Writes
  <2> QED BY <1>0, <2>1, <2>15
<1> QED BY <1>1, <1>2
\* One row of e.entity has another name; every other field is as it was.
Renamed(d, e, i, new) ==
    /\ i \in DOMAIN d.entity /\ DOMAIN e.entity = DOMAIN d.entity
    /\ \A j \in DOMAIN d.entity : j # i => e.entity[j] = d.entity[j]
    /\ e.entity[i].name = new /\ e.entity[i].type = d.entity[i].type
    /\ e.entity[i].obs_count = d.entity[i].obs_count /\ e.entity[i].out_deg = d.entity[i].out_deg
    /\ e.entity[i].in_deg = d.entity[i].in_deg
    /\ e.relation = d.relation /\ e.observation = d.observation /\ e.mirror = d.mirror
    /\ e.relobs = d.relobs /\ e.attribute = d.attribute /\ e.stat = d.stat /\ e.type_dict = d.type_dict /\ e.seq = d.seq

\* RenameEntity, when it renames.
LEMMA RenameRows ==
    ASSUME NEW d, Whole(d), NEW q, q.new \in Names, Exists(d, q.old), q.old # q.new, ~Exists(d, q.new)
    PROVE  Renamed(d, RenameEntity(d, q).db, IdOf(d, q.old), q.new)
<1> DEFINE i == IdOf(d, q.old)
           ee == [d.entity EXCEPT ![i] = [d.entity[i] EXCEPT !.name = q.new]]
           nn == (d.name_fts \ {<<i, q.old>>}) \cup {<<i, q.new>>}
           e == [d EXCEPT !.entity[i].name = q.new, !.name_fts = nn]
<1>1. RenameEntity(d, q).db = e
    BY DEF RenameEntity, Ok
<1>2. i \in DOMAIN d.entity
    BY IdOfIs
<1>3. IsStore(d) /\ d.entity[i] \in EntityRow
    BY <1>2, Fields DEF Whole, Sound, CountersOK
<1> HIDE DEF i
<1>4. e = [d EXCEPT !.entity = ee, !.name_fts = nn]
    BY <1>3 DEF IsStore
<1>5. /\ DOMAIN ee = DOMAIN d.entity /\ \A j \in DOMAIN d.entity : j # i => ee[j] = d.entity[j]
    BY <1>2
<1>6. ee[i] = [d.entity[i] EXCEPT !.name = q.new]
    BY <1>2
<1>7. /\ ee[i].name = q.new /\ ee[i].type = d.entity[i].type
      /\ ee[i].obs_count = d.entity[i].obs_count /\ ee[i].out_deg = d.entity[i].out_deg
      /\ ee[i].in_deg = d.entity[i].in_deg
    BY <1>3, <1>6 DEF EntityRow
<1> HIDE DEF ee, e, nn
<1>8. /\ e.entity = ee /\ e.relation = d.relation /\ e.observation = d.observation /\ e.mirror = d.mirror
      /\ e.relobs = d.relobs /\ e.attribute = d.attribute /\ e.stat = d.stat /\ e.type_dict = d.type_dict /\ e.seq = d.seq
    BY <1>3, <1>4 DEF IsStore
<1> QED BY <1>1, <1>2, <1>5, <1>7, <1>8 DEF Renamed, i

\* A rename between two names in N.
LEMMA RenamedFollows ==
    ASSUME NEW d, NEW e, NEW i, NEW new, Renamed(d, e, i, new)
    PROVE  /\ TotalsKept(d, e) /\ (Registered(d) => Registered(e))
           /\ \A N : new \in N /\ d.entity[i].name \in N => Confined(d, e, N) /\ Steady(d, e)
<1>1. ASSUME NEW N, new \in N, d.entity[i].name \in N PROVE Confined(d, e, N) /\ Steady(d, e)
  <2>1. SameEntitiesOut(d, e, N)
    BY <1>1 DEF SameEntitiesOut, Out, Renamed
  <2> QED BY <2>1, EntitiesChange DEF Renamed
<1>2. TotalsKept(d, e)
    BY DEF TotalsKept, Renamed
<1>3. Registered(d) => Registered(e)
    BY DEF Registered, Renamed
<1> QED BY <1>1, <1>2, <1>3

RenamedBy(q, d, e) ==
    /\ q.op = "RenameEntity" /\ q.old # q.new /\ Exists(d, q.old) /\ ~Exists(d, q.new)
    /\ Renamed(d, e, IdOf(d, q.old), q.new)

\* RenameEntity.
LEMMA RenameEntityFollows ==
    ASSUME NEW d, Whole(d), NEW q, q.op = "RenameEntity", q.new \in Names, NEW N, q.new \in N, q.old \in N
    PROVE  LET e == RenameEntity(d, q).db
           IN  Confined(d, e, N) /\ Steady(d, e) /\ (Kept(d, e) \/ RenamedBy(q, d, e))
<1>0. Sound(d) /\ (\A f : Ok(f).db = f) /\ Refused(d).db = d /\ Writes(d, d, N)
    BY WriteSteps DEF Whole, Ok, Refused
<1>1. CASE ~Exists(d, q.old) \/ q.old = q.new \/ Exists(d, q.new)
  <2>1. RenameEntity(d, q).db = d
    BY <1>0, <1>1 DEF RenameEntity
  <2> QED BY <1>0, <2>1 DEF Writes
<1>2. CASE ~(~Exists(d, q.old) \/ q.old = q.new \/ Exists(d, q.new))
  <2>1. Renamed(d, RenameEntity(d, q).db, IdOf(d, q.old), q.new)
    BY <1>2, RenameRows
  <2>2. d.entity[IdOf(d, q.old)].name = q.old
    BY <1>2, IdOfIs
  <2>3. Confined(d, RenameEntity(d, q).db, N) /\ Steady(d, RenameEntity(d, q).db)
    BY <2>1, <2>2, RenamedFollows
  <2> QED BY <1>2, <2>1, <2>3 DEF RenamedBy
<1> QED BY <1>1, <1>2

\* The neighbours of the names that a request takes away are captured too.
LEMMA NeighboursSurround ==
    ASSUME NEW d, NEW names
    PROVE  Surrounded(d, names, names \cup Neighbours(d, names))
<1>1. ASSUME NEW r \in d.relation, NEW n \in names, n \in {d.entity[r[1]].name, d.entity[r[2]].name}
      PROVE  d.entity[r[1]].name \in Neighbours(d, names) /\ d.entity[r[2]].name \in Neighbours(d, names)
  <2>1. Named(d, r) \in relations_for(d, n)
    BY <1>1 DEF relations_for
  <2>2. Named(d, r)[1] = d.entity[r[1]].name /\ Named(d, r)[2] = d.entity[r[2]].name
    BY DEF Named
  <2> QED BY <2>1, <2>2 DEF Neighbours
<1> QED BY <1>1 DEF Surrounded

\* Wipe: nothing is left, and the counter is reset.
LEMMA WipeFollows ==
    ASSUME NEW d, Whole(d)
    PROVE  LET e == Wipe(d)
           IN  /\ Confined(d, e, NamesOf(d)) /\ Kept(d, e)
               /\ e.stat.relation_obs = 0 /\ DOMAIN e.relobs = {} /\ DOMAIN e.entity = {}
<1> DEFINE names == NamesOf(d)
           d1 == delete_entities(d, names)
           e == Wipe(d)
<1>1. IsFiniteSet(names)
  <2> DEFINE f == [i \in DOMAIN d.entity |-> d.entity[i].name]
  <2>1. names = {f[i] : i \in DOMAIN d.entity}
    BY DEF NamesOf
  <2>2. d.seq.entity \in Nat /\ DOMAIN d.entity \in SUBSET (1..d.seq.entity)
    BY Fields DEF Whole, Sound, EntitiesOK, IsTable
  <2>3. IsFiniteSet(DOMAIN d.entity)
    BY <2>2, Indexes
  <2> HIDE DEF f
  <2> QED BY <2>1, <2>3, ImageFinite
<1>2. Whole(d1) /\ NamesOf(d1) = {}
    BY <1>1, DeleteEntitiesWhole
<1>3. Surrounded(d, names, names)
    BY DEF Surrounded, NamesOf, Whole
<1>4. Removes(d, d1, names)
    BY <1>1, <1>3, DeleteEntitiesRemoves
<1>5. e = [d1 EXCEPT !.name_fts = {}, !.obs_fts = {}, !.rel_obs_fts = {}, !.stat = [d1.stat EXCEPT !.relation_obs = 0]]
    BY DEF Wipe, NamesOf
<1>6. Whole(e)
    BY WipeWhole
<1> HIDE DEF d1, e
<1>7. IsStore(d1) /\ d1.stat \in [entities : Int, relations : Int, observations : Int, relation_obs : Int] /\ Sound(d1)
    BY <1>2 DEF Whole, Sound, CountersOK
<1>8. /\ e.entity = d1.entity /\ e.relation = d1.relation /\ e.seq = d1.seq /\ e.type_dict = d1.type_dict
      /\ e.stat = [d1.stat EXCEPT !.relation_obs = 0]
    BY <1>5, <1>7 DEF IsStore
<1>9. /\ e.stat.entities = d1.stat.entities /\ e.stat.relations = d1.stat.relations
      /\ e.stat.observations = d1.stat.observations /\ e.stat.relation_obs = 0
    BY <1>7, <1>8
<1>10. Kept(d, e)
  <2>1. Kept(d1, e)
    BY <1>7, <1>8, <1>9, SameKept
  <2> QED BY <1>4, <2>1, KeptSteps DEF Removes
<1>11. DOMAIN e.entity = {}
  <2>1. DOMAIN d1.entity = {}
    BY <1>2 DEF NamesOf
  <2> QED BY <1>8, <2>1
<1>12. Live(e) = {}
  <2>1. e.relation = {}
    BY <1>6, <1>11 DEF Whole
  <2>2. {e.mirror[m].triple : m \in Live(e)} = {}
    BY <1>6, <2>1 DEF Whole, Mirrored
  <2> QED BY <2>2
<1>13. DOMAIN e.relobs = {}
  <2>1. \A o \in DOMAIN e.relobs : e.relobs[o].mirror \in Live(e)
    BY <1>6 DEF Whole, Sound, RelationObservationsOK, IsTable
  <2> QED BY <1>12, <2>1
<1>14. \A i : ~Out(d, i, names) /\ ~Out(e, i, names)
    BY <1>11 DEF Out, NamesOf
<1> HIDE DEF names
<1>15. \A m : ~Far(d, m, names) /\ ~Far(e, m, names)
    BY <1>14 DEF Far
<1>16. Confined(d, e, names)
  <2>1. SameEntitiesOut(d, e, names) /\ SameMirrorsOut(d, e, names)
    BY <1>14, <1>15 DEF SameEntitiesOut, SameMirrorsOut
  <2>2. SameObsOut(d, e, names) /\ SameRelsOut(d, e, names)
    BY <1>14 DEF SameObsOut, OutObs, SameRelsOut, OutRel
  <2>3. SameRelObsOut(d, e, names) /\ SameKeysOut(d, e, names)
    BY <1>14, <1>15 DEF SameRelObsOut, OutRelObs, SameKeysOut, OutKey, OutOwner
  <2> QED BY <2>1, <2>2, <2>3 DEF Confined
<1> QED BY <1>9, <1>10, <1>11, <1>13, <1>16 DEF e, names
\* An image under a function that is one-to-one has as many members.
LEMMA ImageCount ==
    ASSUME NEW S, IsFiniteSet(S), NEW f, \A x, y \in S : f[x] = f[y] => x = y
    PROVE  IsFiniteSet({f[x] : x \in S}) /\ Cardinality({f[x] : x \in S}) = Cardinality(S)
<1> DEFINE T == {f[x] : x \in S}
           g == [x \in S |-> f[x]]
<1>1. g \in Surjection(S, T)
    BY DEF Surjection
<1>2. g \in Injection(S, T)
    BY DEF Injection, IsInjective
<1> QED BY <1>1, <1>2, FS_Surjection

\* There are as many names as entities.
LEMMA NamesCount ==
    ASSUME NEW d, Sound(d)
    PROVE  /\ IsFiniteSet(NamesOf(d)) /\ Cardinality(NamesOf(d)) = Cardinality(DOMAIN d.entity)
           /\ IsFiniteSet(DOMAIN d.entity) /\ Cardinality(DOMAIN d.entity) \in Nat
<1> DEFINE f == [i \in DOMAIN d.entity |-> d.entity[i].name]
<1>1. NamesOf(d) = {f[i] : i \in DOMAIN d.entity}
    BY DEF NamesOf
<1>2. d.seq.entity \in Nat /\ DOMAIN d.entity \in SUBSET (1..d.seq.entity)
    BY Fields DEF Sound, EntitiesOK, IsTable
<1>3. IsFiniteSet(DOMAIN d.entity) /\ Cardinality(DOMAIN d.entity) \in Nat
    BY <1>2, Indexes
<1>4. \A i, j \in DOMAIN d.entity : f[i] = f[j] => i = j
    BY DEF Sound, EntitiesOK
<1> HIDE DEF f
<1> QED BY <1>1, <1>3, <1>4, ImageCount

\* The copied texts of a merge leave the relation observations alone.
LEMMA CopyObservationsRest ==
    ASSUME NEW d, Sound(d), NEW old, NEW i \in DOMAIN d.entity
    PROVE  LET e == copy_observations(d, old, i) IN e.relobs = d.relobs /\ e.stat = d.stat
<1> DEFINE D == {e \in Stores : Sound(e) /\ SameGraph(d, e) /\ e.relobs = d.relobs /\ e.stat = d.stat}
<1>1. d \in D
    BY SoundIsStore DEF SameGraph
<1>2. ASSUME NEW e \in D, NEW o \in 1..d.seq.obs PROVE CopyObservation(e, d, old, i, o) \in D
  <2>1. ASSUME o \in ObservationsOf(d, old) PROVE InsertMissing(e, i, d.observation[o].body) \in D
    <3> DEFINE b == d.observation[o].body
               a == InsertMissing(e, i, b)
               c == InsertObservation(e, i, b)
    <3>1. b \in Bodies
        BY <2>1 DEF Sound, ObservationsOK, IsTable, ObservationsOf
    <3>2. i \in DOMAIN e.entity
        BY DEF SameGraph
    <3> HIDE DEF b
    <3>3. Sound(a) /\ SameGraph(e, a)
        BY <3>1, <3>2, InsertMissingOneSound
    <3>4. IsStore(e)
        BY DEF Sound, CountersOK
    <3>5. c.relobs = e.relobs /\ c.stat = e.stat
        BY <3>4 DEF InsertObservation, IsStore
    <3> HIDE DEF c
    <3>6. a = e \/ a = c
        BY DEF InsertMissing, c
    <3> HIDE DEF a
    <3>7. a.relobs = d.relobs /\ a.stat = d.stat /\ SameGraph(d, a)
        BY <3>3, <3>5, <3>6 DEF SameGraph
    <3> QED BY <3>3, <3>7, SoundIsStore DEF a, b
  <2> HIDE DEF D
  <2> QED BY <2>1 DEF CopyObservation
<1>3. d.seq.obs \in Nat
    BY Fields
<1> HIDE DEF D
<1>4. copy_observations(d, old, i) \in D
    BY <1>1, <1>2, <1>3, CopyObservationsStays
<1> QED BY <1>4 DEF D

\* MergeEntities: the target, the source and its neighbours.
LEMMA MergeEntitiesFollows ==
    ASSUME NEW d, Whole(d), NEW q, q.source \in Names, q.target \in Names, NEW N, q.target \in N, Surrounded(d, {q.source}, N)
    PROVE  LET e == MergeEntities(d, q).db IN Confined(d, e, N) /\ Kept(d, e) /\ Booked(d, e)
<1>0. (\A f : Ok(f).db = f) /\ Refused(d).db = d /\ Writes(d, d, N) /\ Booked(d, d)
    BY WriteSteps, SteadyBooked, LedgerSteps DEF Whole, Ok, Refused
<1>1. CASE ~(Exists(d, q.source) /\ Exists(d, q.target)) \/ q.source = q.target
    BY <1>0, <1>1 DEF MergeEntities, Writes
<1>2. CASE ~(~(Exists(d, q.source) /\ Exists(d, q.target)) \/ q.source = q.target)
  <2> DEFINE old == IdOf(d, q.source)
             into == IdOf(d, q.target)
             d0 == copy_observations(d, old, into)
             attrs == attributes_for(d, "entity", old)
             d1 == upsert_attributes(d0, "entity", into, attrs)
             Retarget(n) == IF n = q.source THEN q.target ELSE n
             S == relations_for(d, q.source)
             f == [t \in S |-> <<Retarget(t[1]), Retarget(t[2]), t[3]>>]
             moved == {<<Retarget(t[1]), Retarget(t[2]), t[3]>> : t \in S}
             d2 == FoldLeft(create_relation, d1, SetToSeq(moved))
             e == delete_entities(d2, {q.source})
  <2>1. MergeEntities(d, q) = Ok(e)
    BY <1>2 DEF MergeEntities
  <2>2. into \in DOMAIN d.entity /\ ~Out(d, into, N) /\ old \in DOMAIN d.entity /\ d.entity[old].name = q.source
    BY <1>2, IdOfIs, Inside
  <2> HIDE DEF into, old
  <2>3. Sound(d0) /\ SameGraph(d, d0) /\ Writes(d, d0, N)
    BY <2>2, CopyObservationsSound, CopyObservationsWrites DEF Whole
  <2>4. attrs \in Attributes
    <3> DEFINE keys == {k \in AttrKeys : <<"entity", old, k>> \in DOMAIN d.attribute}
    <3>1. \A k \in keys : d.attribute[<<"entity", old, k>>] \in AttrValues
        BY DEF Whole, Sound, AttributesOK, IsTable
    <3>2. attrs = [k \in keys |-> d.attribute[<<"entity", old, k>>]]
        BY DEF attributes_for
    <3>3. attrs \in [keys -> AttrValues] /\ keys \in SUBSET AttrKeys
        BY <3>1, <3>2
    <3> QED BY <3>3 DEF Attributes
  <2>5. <<"entity", into>> \in Owned(d0) /\ ~OutOwner(d0, "entity", into, N)
    BY <2>2, <2>3 DEF Owned, SameGraph, OutOwner, Out
  <2> HIDE DEF attrs
  <2>6. d0.relobs = d.relobs /\ d0.stat = d.stat
    BY <2>2, CopyObservationsRest DEF Whole
  <2> HIDE DEF d0
  <2>7. Sound(d1) /\ SameGraph(d0, d1) /\ Writes(d0, d1, N)
    BY <2>3, <2>4, <2>5, UpsertAttributesSound, UpsertAttributesWrites
  <2>8. d1.relobs = d0.relobs /\ d1.stat = d0.stat
    <3>1. IsStore(d0)
        BY <2>3 DEF Sound, CountersOK
    <3> QED BY <3>1 DEF upsert_attributes, IsStore
  <2> HIDE DEF d1
  <2>9. Whole(d1)
    BY <2>3, <2>7, SameIsWhole
  <2>10. S \in SUBSET Triples /\ IsFiniteSet(S)
    BY RelationsFor
  <2>11. \A t \in S : t[1] \in N /\ t[2] \in N
    BY DEF relations_for, Named, Surrounded
  <2> HIDE DEF S
  <2>12. moved = {f[t] : t \in S}
    OBVIOUS
  <2>13. moved \in SUBSET Triples
    BY <2>10 DEF Triples
  <2>14. \A t \in moved : t[1] \in N /\ t[2] \in N
    BY <2>11
  <2>15. IsFiniteSet(moved)
    <3> HIDE DEF f, moved
    <3> QED BY <2>10, <2>12, ImageFinite
  <2> HIDE DEF moved
  <2>16. Surrounded(d1, {q.source}, N)
    BY <2>3, <2>7 DEF Surrounded, SameGraph
  <2>17. /\ Whole(d2) /\ Writes(d1, d2, N) /\ Surrounded(d2, {q.source}, N)
         /\ d2.entity = d1.entity /\ d2.relobs = d1.relobs /\ d2.stat = d1.stat
    BY <2>9, <2>13, <2>14, <2>15, <2>16, CreateRelationsWrites
  <2> HIDE DEF d2
  <2>18. Whole(e) /\ Removes(d2, e, N) /\ NamesOf(e) = NamesOf(d2) \ {q.source}
    BY <2>17, FS_Singleton, DeleteEntitiesWhole, DeleteEntitiesRemoves
  <2> HIDE DEF e
  <2>19. Confined(d, e, N) /\ Kept(d, e)
    BY <2>3, <2>7, <2>17, <2>18, ConfinedSteps, KeptSteps DEF Writes, Removes
  <2>20. d2.entity = d.entity /\ d2.relobs = d.relobs /\ d2.stat = d.stat
    BY <2>3, <2>6, <2>7, <2>8, <2>17 DEF SameGraph
  <2>21. Counted(d2, e)
    BY <2>17, <2>18, CutsCounted DEF Whole, Removes
  <2>22. Counted(d, e)
    BY <2>20, <2>21 DEF Counted, LostWith, Surplus
  <2>23. DOMAIN e.entity # DOMAIN d.entity
    <3>1. NamesOf(d2) = NamesOf(d) /\ q.source \in NamesOf(d)
        BY <2>2, <2>20 DEF NamesOf
    <3>2. Cardinality(NamesOf(e)) = Cardinality(NamesOf(d)) - 1 /\ Cardinality(NamesOf(d)) \in Nat
        BY <2>18, <3>1, NamesCount, FS_RemoveElement, FS_CardinalityType DEF Whole
    <3>3. /\ Cardinality(NamesOf(d)) = Cardinality(DOMAIN d.entity)
          /\ Cardinality(NamesOf(e)) = Cardinality(DOMAIN e.entity)
        BY <2>18, NamesCount DEF Whole
    <3> QED BY <3>2, <3>3
  <2> QED BY <1>0, <2>1, <2>19, <2>22, <2>23 DEF Booked
<1> QED BY <1>1, <1>2
\* What a request does, told by its name: nothing outside the names that
\* affected_names gives, and the ledger of relation observations in order.
RequestDoes(q, d, e, N) ==
    /\ Confined(d, e, N) /\ (Kept(d, e) \/ RenamedBy(q, d, e))
    /\ q.op # "Wipe" => Booked(d, e)
    /\ q.op = "Wipe" => e.stat.relation_obs = 0 /\ DOMAIN e.relobs = {}
    /\ q.op \in Quiet => SameGraph(d, e)

\* A request of items.
LEMMA ItemsFollow ==
    ASSUME NEW d, Whole(d), NEW q, q.op \in Itemised, IsRequest(q)
    PROVE  RequestDoes(q, d, execute(d, q).db, affected_names(d, q))
<1> DEFINE N == Touched(d, q)
           e == InOrder(d, q).db
<1>1. execute(d, q) = InOrder(d, q) /\ affected_names(d, q) = N
    BY DEF execute, affected_names, Itemised, Disturbs
<1>2. PICK m \in Nat : DOMAIN q.items = 1..m /\ \A k \in 1..m : IsItem(q.op, q.items[k])
    BY DEF IsRequest, Itemised
<1>3. ASSUME NEW k \in 1..m PROVE ItemNear(q.op, q.items[k], N)
  <2> DEFINE x == q.items[k]
  <2>1. x \in Range(q.items)
    BY <1>2 DEF Range
  <2>2. CASE q.op \in {"CreateEntities", "UpsertEntities"}
    <3>1. N = {y.name : y \in Range(q.items)}
        BY <2>2 DEF Touched
    <3>2. x.name \in N
        BY <2>1, <3>1
    <3> HIDE DEF N, x
    <3> QED BY <2>2, <3>2 DEF ItemNear, x
  <2>3. CASE q.op \in {"AddObservations", "DeleteObservations"}
    <3>1. N = {y.name : y \in Range(q.items)}
        BY <2>3 DEF Touched
    <3>2. x.name \in N
        BY <2>1, <3>1
    <3> HIDE DEF N, x
    <3> QED BY <2>3, <3>2 DEF ItemNear, x
  <2>4. CASE q.op = "CreateRelations"
    <3>1. N = UNION {{i.triple[1], i.triple[2]} : i \in Range(q.items)}
        BY <2>4 DEF Touched
    <3>2. x.triple[1] \in N /\ x.triple[2] \in N
        BY <2>1, <3>1
    <3> HIDE DEF N, x
    <3> QED BY <2>4, <3>2 DEF ItemNear, x
  <2>5. CASE q.op = "DeleteRelations"
    <3>1. N = UNION {{t[1], t[2]} : t \in Range(q.items)}
        BY <2>5 DEF Touched
    <3>2. x[1] \in N /\ x[2] \in N
        BY <2>1, <3>1
    <3> HIDE DEF N, x
    <3> QED BY <2>5, <3>2 DEF ItemNear, x
  <2>6. CASE q.op \in {"AddRelationObservations", "DeleteRelationObservations"}
    <3>1. N = {u.triple[1] : u \in Range(q.items)}
        BY <2>6 DEF Touched
    <3>2. x.triple[1] \in N
        BY <2>1, <3>1
    <3> HIDE DEF N, x
    <3> QED BY <2>6, <3>2 DEF ItemNear, x
  <2>7. CASE q.op \in {"SetAttributes", "DeleteAttributes"}
    <3>1. N = {IF t.kind = "entity" THEN t.name ELSE t.triple[1] : t \in Range(q.items)}
        BY <2>7 DEF Touched
    <3>2. (IF x.kind = "entity" THEN x.name ELSE x.triple[1]) \in N
        BY <2>1, <3>1
    <3> HIDE DEF N, x
    <3> QED BY <2>7, <3>2 DEF ItemNear, x
  <2> QED BY <2>2, <2>3, <2>4, <2>5, <2>6, <2>7 DEF Itemised
<1> HIDE DEF N
<1>4. ItemDoes(q.op, d, e, N)
    BY <1>2, <1>3, InOrderFollows
<1>5. Whole(e)
    BY <1>2, InOrderWhole DEF Outcome
<1> HIDE DEF e
<1>6. Confined(d, e, N) /\ Kept(d, e) /\ Booked(d, e)
    BY <1>4, <1>5, SteadyBooked, CutsBooked DEF ItemDoes, Writes, Removes, Whole
<1>7. q.op \in Quiet => SameGraph(d, e)
    BY <1>4 DEF ItemDoes
<1>8. q.op # "Wipe"
    BY DEF Itemised
<1> QED BY <1>1, <1>6, <1>7, <1>8 DEF RequestDoes, e

\* A request that writes.
LEMMA WritesDoes ==
    ASSUME NEW d, Sound(d), NEW q, q.op # "Wipe", NEW e, NEW N, Writes(d, e, N), q.op \in Quiet => SameGraph(d, e)
    PROVE  RequestDoes(q, d, e, N)
BY SteadyBooked DEF RequestDoes, Writes

\* A request that deletes entities.
LEMMA RemovesDoes ==
    ASSUME NEW d, Whole(d), NEW q, q.op \notin Quiet, q.op # "Wipe", NEW e, Whole(e), NEW N, Removes(d, e, N)
    PROVE  RequestDoes(q, d, e, N)
BY CutsBooked DEF RequestDoes, Removes

\* Every request, and affected_names computed before it runs.
LEMMA RequestFollows ==
    ASSUME NEW d, Whole(d), Registered(d), NEW q, IsRequest(q)
    PROVE  RequestDoes(q, d, execute(d, q).db, affected_names(d, q))
<1> DEFINE N == affected_names(d, q)
           e == execute(d, q).db
<1>0. Sound(d) /\ (\A f : Ok(f).db = f) /\ Whole(e)
    BY ExecuteWhole DEF Whole, Ok, Outcome
<1>1. CASE q.op \in Itemised
    BY <1>1, ItemsFollow
<1>2. CASE q.op = "DeleteEntities"
  <2> DEFINE names == Range(q.items)
  <2>1. e = delete_entities(d, names) /\ N = names \cup Neighbours(d, names) /\ IsFiniteSet(names)
    BY <1>2 DEF execute, DeleteEntities, Ok, affected_names, Touched, Disturbs, IsRequest, Itemised
  <2> HIDE DEF e, N, names
  <2>2. Removes(d, e, N)
    BY <2>1, NeighboursSurround, DeleteEntitiesRemoves
  <2>3. q.op \notin Quiet /\ q.op # "Wipe"
    BY <1>2 DEF Quiet
  <2>4. RequestDoes(q, d, e, N)
    BY <1>0, <2>2, <2>3, RemovesDoes
  <2> QED BY <2>4 DEF e, N
<1>3. CASE q.op = "PurgeDefinedEntities"
  <2> DEFINE names == defined_names(d, q.name)
  <2>1. e = delete_entities(d, names) /\ N = names \cup Neighbours(d, names)
    BY <1>3 DEF execute, PurgeDefinedEntities, Ok, affected_names, Touched, Disturbs
  <2>2. IsFiniteSet(names)
    BY DefinedNamesFinite
  <2> HIDE DEF e, N, names
  <2>3. Removes(d, e, N)
    BY <2>1, <2>2, NeighboursSurround, DeleteEntitiesRemoves
  <2>4. q.op \notin Quiet /\ q.op # "Wipe"
    BY <1>3 DEF Quiet
  <2>5. RequestDoes(q, d, e, N)
    BY <1>0, <2>3, <2>4, RemovesDoes
  <2> QED BY <2>5 DEF e, N
<1>4. CASE q.op = "DeleteRelationObservationById"
  <2>1. e = DeleteRelationObservationById(d, q).db /\ N = {q.triple[1]}
    BY <1>4 DEF execute, affected_names, Touched, Disturbs
  <2> HIDE DEF e, N
  <2>2. Writes(d, e, N) /\ SameGraph(d, e)
    BY <2>1, DeleteRelationObservationByIdWrites
  <2>3. RequestDoes(q, d, e, N)
    BY <1>0, <1>4, <2>2, WritesDoes
  <2> QED BY <2>3 DEF e, N
<1>5. CASE q.op = "EditObservation"
  <2>1. e = EditObservation(d, q).db /\ N = {q.name} /\ q.op \notin Quiet
    BY <1>5 DEF execute, affected_names, Touched, Disturbs, Quiet
  <2> HIDE DEF e, N
  <2>2. Writes(d, e, N)
    BY <2>1, EditObservationWrites
  <2>3. RequestDoes(q, d, e, N)
    BY <1>0, <1>5, <2>1, <2>2, WritesDoes
  <2> QED BY <2>3 DEF e, N
<1>6. CASE q.op = "DeleteObservationById"
  <2>1. e = DeleteObservationById(d, q).db /\ N = {q.name} /\ q.op \notin Quiet
    BY <1>6 DEF execute, affected_names, Touched, Disturbs, Quiet
  <2> HIDE DEF e, N
  <2>2. Writes(d, e, N)
    BY <2>1, DeleteObservationByIdWrites
  <2>3. RequestDoes(q, d, e, N)
    BY <1>0, <1>6, <2>1, <2>2, WritesDoes
  <2> QED BY <2>3 DEF e, N
<1>7. CASE q.op \in {"ReverseRelation", "ChangeRelationType"}
  <2>1. N = {q.triple[1], q.triple[2]} /\ q.op \notin Quiet /\ q.op # "Wipe"
    BY <1>7 DEF affected_names, Touched, Disturbs, Quiet
  <2>2. Moves(d, e, N)
    <3>1. CASE q.op = "ReverseRelation"
      <4>1. e = ReverseRelation(d, q).db /\ q.triple \in Triples
        BY <3>1 DEF execute, IsRequest, Itemised
      <4> HIDE DEF e, N
      <4> QED BY <2>1, <4>1, ReverseRelationMoves
    <3>2. CASE q.op = "ChangeRelationType"
      <4>1. e = ChangeRelationType(d, q).db /\ q.triple \in Triples /\ q.type \in RelationTypes
        BY <3>2 DEF execute, IsRequest, Itemised
      <4> HIDE DEF e, N
      <4> QED BY <2>1, <4>1, ChangeRelationTypeMoves
    <3> QED BY <1>7, <3>1, <3>2
  <2> HIDE DEF e, N
  <2>3. RequestDoes(q, d, e, N)
    BY <1>0, <2>1, <2>2, MovesBooked DEF RequestDoes, Moves
  <2> QED BY <2>3 DEF e, N
<1>8. CASE q.op = "MergeEntities"
  <2> DEFINE names == {q.source, q.target}
  <2>1. /\ e = MergeEntities(d, q).db /\ N = names \cup Neighbours(d, names)
        /\ q.source \in Names /\ q.target \in Names /\ q.op \notin Quiet /\ q.op # "Wipe"
    BY <1>8 DEF execute, affected_names, Touched, Disturbs, IsRequest, Itemised, Quiet
  <2>2. Surrounded(d, names, N) /\ q.target \in N
    BY <2>1, NeighboursSurround
  <2> HIDE DEF e, N
  <2>3. Surrounded(d, {q.source}, N)
    BY <2>2 DEF Surrounded
  <2>4. Confined(d, e, N) /\ Kept(d, e) /\ Booked(d, e)
    BY <2>1, <2>2, <2>3, MergeEntitiesFollows
  <2>5. RequestDoes(q, d, e, N)
    BY <2>1, <2>4 DEF RequestDoes
  <2> QED BY <2>5 DEF e, N
<1>9. CASE q.op = "RenameEntity"
  <2>1. e = RenameEntity(d, q).db /\ {q.old, q.new} \subseteq N /\ q.new \in Names /\ q.op \notin Quiet
    BY <1>9 DEF execute, affected_names, Touched, Disturbs, Quiet, IsRequest, Itemised
  <2> HIDE DEF e, N
  <2>2. Confined(d, e, N) /\ Steady(d, e) /\ (Kept(d, e) \/ RenamedBy(q, d, e))
    BY <1>9, <2>1, RenameEntityFollows
  <2>3. RequestDoes(q, d, e, N)
    BY <1>0, <1>9, <2>1, <2>2, SteadyBooked DEF RequestDoes
  <2> QED BY <2>3 DEF e, N
<1>10. CASE q.op = "Wipe"
  <2>1. e = Wipe(d) /\ N = NamesOf(d) /\ q.op \notin Quiet
    BY <1>10 DEF execute, Ok, affected_names, Touched, Disturbs, Quiet, NamesOf
  <2>2. Confined(d, e, N) /\ Kept(d, e) /\ e.stat.relation_obs = 0 /\ DOMAIN e.relobs = {}
    BY <2>1, WipeFollows
  <2> HIDE DEF e, N
  <2>3. RequestDoes(q, d, e, N)
    BY <1>10, <2>1, <2>2 DEF RequestDoes
  <2> QED BY <2>3 DEF e, N
<1> QED BY <1>1, <1>2, <1>3, <1>4, <1>5, <1>6, <1>7, <1>8, <1>9, <1>10 DEF IsRequest
-----------------------------------------------------------------------------
(* What a capture holds *)

\* The rows that a capture of N reads.
NearIds(d, N) == {i \in DOMAIN d.entity : d.entity[i].name \in N}
NearRels(d, N) == {r \in d.relation : ~(Out(d, r[1], N) /\ Out(d, r[2], N))}
NearObs(d, N) == {o \in DOMAIN d.observation : d.observation[o].entity \in NearIds(d, N)}

\* The texts of an entity, and the entity as a capture holds it.
TextsOf(d, i) == {<<o, d.observation[o].body>> : o \in ObservationsOf(d, i)}
EntityRead(d, i) ==
    [id |-> i, type |-> d.entity[i].type, observations |-> TextsOf(d, i), attributes |-> attributes_for(d, "entity", i)]

\* Names are unique.
LEMMA NameIsId ==
    ASSUME NEW d, Sound(d), NEW i \in DOMAIN d.entity
    PROVE  Exists(d, d.entity[i].name) /\ IdOf(d, d.entity[i].name) = i
<1>1. Exists(d, d.entity[i].name)
    BY DEF Exists
<1>2. IdOf(d, d.entity[i].name) \in DOMAIN d.entity /\ d.entity[IdOf(d, d.entity[i].name)].name = d.entity[i].name
    BY <1>1, IdOfIs
<1> QED BY <1>1, <1>2 DEF Sound, EntitiesOK

\* The names of two ends and a type tell a relation.
LEMMA NamedOnce ==
    ASSUME NEW d, Whole(d)
    PROVE  /\ \A r, s \in d.relation : Named(d, r) = Named(d, s) => r = s
           /\ \A r \in d.relation : Named(d, r) = <<d.entity[r[1]].name, d.entity[r[2]].name, r[3]>>
           /\ \A r \in d.relation : r[1] \in DOMAIN d.entity /\ r[2] \in DOMAIN d.entity
<1>1. d.relation \subseteq (DOMAIN d.entity) \X (DOMAIN d.entity) \X RelationTypes
    BY DEF Whole
<1>2. \A i, j \in DOMAIN d.entity : d.entity[i].name = d.entity[j].name => i = j
    BY DEF Whole, Sound, EntitiesOK
<1>3. ASSUME NEW r \in d.relation, NEW s \in d.relation, Named(d, r) = Named(d, s) PROVE r = s
  <2>1. /\ r[1] \in DOMAIN d.entity /\ r[2] \in DOMAIN d.entity /\ s[1] \in DOMAIN d.entity /\ s[2] \in DOMAIN d.entity
        /\ r = <<r[1], r[2], r[3]>> /\ s = <<s[1], s[2], s[3]>>
    BY <1>1
  <2>2. d.entity[r[1]].name = d.entity[s[1]].name /\ d.entity[r[2]].name = d.entity[s[2]].name /\ r[3] = s[3]
    BY <1>3 DEF Named
  <2>3. r[1] = s[1] /\ r[2] = s[2]
    BY <1>2, <2>1, <2>2
  <2> QED BY <2>1, <2>2, <2>3
<1> QED BY <1>1, <1>3 DEF Named

\* The entities of a capture.
LEMMA CapturedEntities ==
    ASSUME NEW d, Sound(d), NEW N
    PROVE  LET c == capture(d, N)
           IN  /\ DOMAIN c.entities = {d.entity[i].name : i \in NearIds(d, N)}
               /\ \A i \in NearIds(d, N) : c.entities[d.entity[i].name] = EntityRead(d, i)
<1> DEFINE S == {m \in N : Exists(d, m)}
           E == [n \in S |-> read_entity(d, n)]
<1>1. capture(d, N).entities = E
    BY DEF capture
<1>2. S = {d.entity[i].name : i \in NearIds(d, N)}
    BY DEF Exists, NearIds
<1>3. ASSUME NEW i \in NearIds(d, N) PROVE E[d.entity[i].name] = EntityRead(d, i)
  <2>1. i \in DOMAIN d.entity /\ d.entity[i].name \in S /\ IdOf(d, d.entity[i].name) = i
    BY NameIsId DEF NearIds
  <2>2. read_entity(d, d.entity[i].name) = EntityRead(d, i)
    BY <2>1 DEF read_entity, EntityRead, TextsOf
  <2> QED BY <2>1, <2>2
<1> HIDE DEF S
<1> QED BY <1>1, <1>2, <1>3

\* The relations of a capture.
LEMMA CapturedRelations ==
    ASSUME NEW d, Whole(d), NEW N
    PROVE  capture(d, N).relations = {Named(d, r) : r \in NearRels(d, N)}
<1>1. capture(d, N).relations = UNION {relations_for(d, n) : n \in N}
    BY DEF capture
<1>2. \A r \in d.relation : r \in NearRels(d, N) <=> (d.entity[r[1]].name \in N \/ d.entity[r[2]].name \in N)
    BY NamedOnce DEF NearRels, Out
<1>3. \A r \in NearRels(d, N) : r \in d.relation
    BY DEF NearRels
<1>4. UNION {relations_for(d, n) : n \in N} = {Named(d, r) : r \in NearRels(d, N)}
    BY <1>2, <1>3 DEF relations_for
<1> QED BY <1>1, <1>4

\* What is outside is left alone, so a count changes by what changes inside.
LEMMA Difference ==
    ASSUME NEW S, IsFiniteSet(S), NEW T, IsFiniteSet(T), NEW A \in SUBSET S, NEW B \in SUBSET T, S \ A = T \ B
    PROVE  /\ Cardinality(S) \in Nat /\ Cardinality(T) \in Nat /\ Cardinality(A) \in Nat /\ Cardinality(B) \in Nat
           /\ Cardinality(T) = Cardinality(S) + Cardinality(B) - Cardinality(A)
<1>1. S \cap A = A /\ T \cap B = B
    OBVIOUS
<1>2. /\ Cardinality(S \ A) = Cardinality(S) - Cardinality(S \cap A)
      /\ Cardinality(T \ B) = Cardinality(T) - Cardinality(T \cap B)
    BY FS_Difference
<1>3. IsFiniteSet(A) /\ IsFiniteSet(B)
    BY FS_Subset
<1>4. Cardinality(S) \in Nat /\ Cardinality(T) \in Nat /\ Cardinality(A) \in Nat /\ Cardinality(B) \in Nat
    BY <1>3, FS_CardinalityType
<1>5. Cardinality(S \ A) = Cardinality(T \ B)
    BY Zenon
<1>6. Cardinality(S) - Cardinality(A) = Cardinality(T) - Cardinality(B)
    BY ONLY <1>1, <1>2, <1>5
<1> QED BY ONLY <1>4, <1>6

\* What a capture holds of one type, and its texts.
TypedIn(s, t) == {n \in DOMAIN s.entities : s.entities[n].type = t}
TypedRelsIn(s, t) == {r \in s.relations : r[3] = t}
ObsIn(s) == UNION {s.entities[n].observations : n \in DOMAIN s.entities}

\* The rows that a capture reads of one type.
NearTyped(d, N, t) == {i \in NearIds(d, N) : d.entity[i].type = t}
NearTypedRels(d, N, t) == {r \in NearRels(d, N) : r[3] = t}

\* Entities of a capture, counted, and those of one type.
LEMMA EntitiesCounted ==
    ASSUME NEW d, Sound(d), NEW N
    PROVE  LET c == capture(d, N)
           IN  /\ Cardinality(DOMAIN c.entities) = Cardinality(NearIds(d, N))
               /\ \A t : Cardinality(TypedIn(c, t)) = Cardinality(NearTyped(d, N, t))
<1> DEFINE c == capture(d, N)
           I == NearIds(d, N)
           f == [i \in DOMAIN d.entity |-> d.entity[i].name]
<1>1. /\ DOMAIN c.entities = {d.entity[i].name : i \in I}
      /\ \A i \in I : c.entities[d.entity[i].name] = EntityRead(d, i)
    BY CapturedEntities
<1>2. I \subseteq DOMAIN d.entity /\ IsFiniteSet(DOMAIN d.entity)
    BY NamesCount DEF NearIds
<1>3. \A i, j \in DOMAIN d.entity : f[i] = f[j] => i = j
    BY DEF Sound, EntitiesOK
<1> HIDE DEF c, I
<1>4. ASSUME NEW J \in SUBSET I PROVE Cardinality({d.entity[i].name : i \in J}) = Cardinality(J)
  <2>1. {d.entity[i].name : i \in J} = {f[i] : i \in J}
    BY <1>2
  <2>2. IsFiniteSet(J) /\ \A i, j \in J : f[i] = f[j] => i = j
    BY <1>2, <1>3, FS_Subset
  <2> HIDE DEF f
  <2>3. Cardinality({f[i] : i \in J}) = Cardinality(J)
    BY ONLY <2>2, ImageCount
  <2> QED BY <2>1, <2>3
<1>5. ASSUME NEW t
      PROVE  Cardinality(TypedIn(c, t)) = Cardinality(NearTyped(d, N, t))
  <2> DEFINE J == NearTyped(d, N, t)
  <2>0. \A i : EntityRead(d, i).type = d.entity[i].type
    BY DEF EntityRead
  <2>1. \A i \in I : c.entities[d.entity[i].name].type = d.entity[i].type
    BY <1>1, <2>0
  <2>2. TypedIn(c, t) = {d.entity[i].name : i \in J}
    BY <1>1, <2>1 DEF TypedIn, NearTyped, I
  <2>3. J \in SUBSET I
    BY DEF NearTyped, I
  <2> HIDE DEF J
  <2>4. Cardinality({d.entity[i].name : i \in J}) = Cardinality(J)
    BY <1>4, <2>3
  <2> QED BY <2>2, <2>4 DEF J
<1>6. Cardinality(DOMAIN c.entities) = Cardinality(I)
    BY <1>1, <1>4
<1> QED BY <1>5, <1>6 DEF c, I

\* Relations under their names, counted.
LEMMA NamedCounted ==
    ASSUME NEW d, Whole(d), NEW J \in SUBSET d.relation
    PROVE  IsFiniteSet(J) /\ Cardinality({Named(d, r) : r \in J}) = Cardinality(J)
<1> DEFINE f == [r \in d.relation |-> Named(d, r)]
<1>1. IsFiniteSet(J)
    BY RelationsFinite, FS_Subset
<1>2. \A r, s \in J : f[r] = f[s] => r = s
    BY NamedOnce
<1>3. {Named(d, r) : r \in J} = {f[r] : r \in J}
    OBVIOUS
<1> HIDE DEF f
<1>4. Cardinality({f[r] : r \in J}) = Cardinality(J)
    BY ONLY <1>1, <1>2, ImageCount
<1> QED BY <1>1, <1>3, <1>4

\* Relations of a capture, counted, and those of one type.
LEMMA RelationsCounted ==
    ASSUME NEW d, Whole(d), NEW N
    PROVE  LET c == capture(d, N)
           IN  /\ Cardinality(c.relations) = Cardinality(NearRels(d, N))
               /\ \A t : Cardinality(TypedRelsIn(c, t)) = Cardinality(NearTypedRels(d, N, t))
<1> DEFINE c == capture(d, N)
           R == NearRels(d, N)
<1>1. c.relations = {Named(d, r) : r \in R}
    BY CapturedRelations
<1>2. R \in SUBSET d.relation
    BY DEF NearRels
<1> HIDE DEF c, R
<1>3. ASSUME NEW t PROVE Cardinality(TypedRelsIn(c, t)) = Cardinality(NearTypedRels(d, N, t))
  <2> DEFINE J == NearTypedRels(d, N, t)
  <2>1. \A r \in R : Named(d, r)[3] = r[3]
    BY <1>2, NamedOnce
  <2>2. TypedRelsIn(c, t) = {Named(d, r) : r \in J}
    BY <1>1, <2>1 DEF TypedRelsIn, NearTypedRels, R
  <2>3. J \in SUBSET d.relation
    BY <1>2 DEF NearTypedRels, R
  <2> HIDE DEF J
  <2>4. Cardinality({Named(d, r) : r \in J}) = Cardinality(J)
    BY <2>3, NamedCounted
  <2> QED BY <2>2, <2>4 DEF J
<1>4. Cardinality({Named(d, r) : r \in R}) = Cardinality(R)
    BY <1>2, NamedCounted
<1> QED BY <1>1, <1>3, <1>4 DEF c, R
\* The texts of a capture are those of the entities in N.
LEMMA ObservationsCounted ==
    ASSUME NEW d, Sound(d), NEW N
    PROVE  LET c == capture(d, N)
           IN  Cardinality(ObsIn(c)) = Cardinality(NearObs(d, N))
<1> DEFINE c == capture(d, N)
           O == NearObs(d, N)
           I == NearIds(d, N)
           U == ObsIn(c)
           f == [o \in DOMAIN d.observation |-> <<o, d.observation[o].body>>]
<1>1. /\ DOMAIN c.entities = {d.entity[i].name : i \in I}
      /\ \A i \in I : c.entities[d.entity[i].name] = EntityRead(d, i)
    BY CapturedEntities
<1>2. \A i : EntityRead(d, i).observations = TextsOf(d, i)
    BY DEF EntityRead
<1>3. \A x : x \in U <=> \E i \in I : x \in TextsOf(d, i)
  <2> HIDE DEF c, I
  <2>1. \A i \in I : c.entities[d.entity[i].name].observations = TextsOf(d, i)
    BY <1>1, <1>2
  <2> QED BY <1>1, <2>1 DEF ObsIn
<1>4. \A x : x \in {f[o] : o \in O} <=> \E i \in I : x \in TextsOf(d, i)
    BY DEF NearObs, TextsOf, ObservationsOf
<1>5. U = {f[o] : o \in O}
  <2> HIDE DEF U, f, O, I
  <2> QED BY <1>3, <1>4
<1>6. IsFiniteSet(O)
  <2>1. d.seq.obs \in Nat /\ DOMAIN d.observation \in SUBSET (1..d.seq.obs)
    BY Fields DEF Sound, ObservationsOK, IsTable
  <2>2. IsFiniteSet(DOMAIN d.observation) /\ O \in SUBSET DOMAIN d.observation
    BY <2>1, Indexes DEF NearObs
  <2> HIDE DEF O
  <2> QED BY <2>2, FS_Subset
<1>7. \A o, p \in O : f[o] = f[p] => o = p
    BY DEF NearObs
<1> HIDE DEF f, O, U
<1>8. Cardinality({f[o] : o \in O}) = Cardinality(O)
    BY ONLY <1>6, <1>7, ImageCount
<1>9. Cardinality(U) = Cardinality(O)
    BY <1>5, <1>8
<1> QED BY <1>9 DEF U, O

\* The entities and relations of one type.
Typed(d, t) == {i \in DOMAIN d.entity : d.entity[i].type = t}
TypedRels(d, t) == {r \in d.relation : r[3] = t}

\* What a request leaves alone is what its captures do not hold.
LEMMA OutsideSame ==
    ASSUME NEW d, Whole(d), NEW e, Whole(e), NEW N, Confined(d, e, N)
    PROVE  /\ DOMAIN d.entity \ NearIds(d, N) = DOMAIN e.entity \ NearIds(e, N)
           /\ d.relation \ NearRels(d, N) = e.relation \ NearRels(e, N)
           /\ DOMAIN d.observation \ NearObs(d, N) = DOMAIN e.observation \ NearObs(e, N)
           /\ \A t : Typed(d, t) \ NearTyped(d, N, t) = Typed(e, t) \ NearTyped(e, N, t)
           /\ \A t : TypedRels(d, t) \ NearTypedRels(d, N, t) = TypedRels(e, t) \ NearTypedRels(e, N, t)
<1>1. \A a, i : Out(a, i, N) <=> i \in DOMAIN a.entity /\ i \notin NearIds(a, N)
    BY DEF Out, NearIds
<1>2. \A i : (Out(d, i, N) <=> Out(e, i, N)) /\ (Out(d, i, N) => e.entity[i] = d.entity[i])
    BY DEF Confined, SameEntitiesOut
<1>3. DOMAIN d.entity \ NearIds(d, N) = DOMAIN e.entity \ NearIds(e, N)
    BY <1>1, <1>2
<1>4. \A r : (r \in d.relation /\ r \notin NearRels(d, N)) <=> (r \in e.relation /\ r \notin NearRels(e, N))
    BY <1>2 DEF Confined, SameRelsOut, OutRel, NearRels
<1>5. d.relation \ NearRels(d, N) = e.relation \ NearRels(e, N)
    BY <1>4
<1>6. ASSUME NEW o
      PROVE  (o \in DOMAIN d.observation /\ o \notin NearObs(d, N)) <=> (o \in DOMAIN e.observation /\ o \notin NearObs(e, N))
  <2>1. /\ \A p \in DOMAIN d.observation : d.observation[p].entity \in DOMAIN d.entity
        /\ \A p \in DOMAIN e.observation : e.observation[p].entity \in DOMAIN e.entity
    BY DEF Whole, Sound, ObservationsOK, IsTable
  <2>2. OutObs(d, o, N) <=> OutObs(e, o, N)
    BY DEF Confined, SameObsOut
  <2> QED BY <1>1, <2>1, <2>2 DEF OutObs, NearObs
<1>7. DOMAIN d.observation \ NearObs(d, N) = DOMAIN e.observation \ NearObs(e, N)
    BY <1>6
<1>8. ASSUME NEW t
      PROVE  Typed(d, t) \ NearTyped(d, N, t) = Typed(e, t) \ NearTyped(e, N, t)
  <2>1. \A i : i \in Typed(d, t) \ NearTyped(d, N, t) <=> Out(d, i, N) /\ d.entity[i].type = t
    BY <1>1 DEF Typed, NearTyped
  <2>2. \A i : i \in Typed(e, t) \ NearTyped(e, N, t) <=> Out(e, i, N) /\ e.entity[i].type = t
    BY <1>1 DEF Typed, NearTyped
  <2> QED BY <1>2, <2>1, <2>2
<1>9. ASSUME NEW t
      PROVE  TypedRels(d, t) \ NearTypedRels(d, N, t) = TypedRels(e, t) \ NearTypedRels(e, N, t)
    BY <1>4 DEF TypedRels, NearTypedRels
<1> QED BY <1>3, <1>5, <1>7, <1>8, <1>9

\* What update_counters adds to the members of a type.
TypeDelta(before, after, k) ==
    IF k[1] = 0 THEN Cardinality(TypedIn(after, k[2])) - Cardinality(TypedIn(before, k[2]))
    ELSE Cardinality(TypedRelsIn(after, k[2])) - Cardinality(TypedRelsIn(before, k[2]))

\* The relations that a capture holds from and to one name.
FromIn(s, n) == {r \in s.relations : r[1] = n}
ToIn(s, n) == {r \in s.relations : r[2] = n}

\* update_counters, field by field.
Recounted(d, before, after, changes, quiet, f) ==
    /\ f.relation = d.relation /\ f.observation = d.observation /\ f.mirror = d.mirror
    /\ f.relobs = d.relobs /\ f.attribute = d.attribute
    /\ f.type_dict = [k \in DOMAIN d.type_dict |->
                         IF quiet THEN d.type_dict[k] ELSE d.type_dict[k] + TypeDelta(before, after, k)]
    /\ f.stat.entities = d.stat.entities + Cardinality(DOMAIN after.entities) - Cardinality(DOMAIN before.entities)
    /\ f.stat.relations = d.stat.relations + Cardinality(after.relations) - Cardinality(before.relations)
    /\ f.stat.observations = d.stat.observations + Cardinality(ObsIn(after)) - Cardinality(ObsIn(before))
    /\ f.stat.relation_obs = d.stat.relation_obs
    /\ DOMAIN f.entity = DOMAIN d.entity
    /\ \A i \in DOMAIN d.entity : f.entity[i].name = d.entity[i].name /\ f.entity[i].type = d.entity[i].type
    /\ \A i \in DOMAIN d.entity : i \notin Rewritten(changes) => f.entity[i] = d.entity[i]
    /\ \A i \in DOMAIN d.entity : i \in Rewritten(changes) =>
           /\ f.entity[i].obs_count = Cardinality(after.entities[d.entity[i].name].observations)
           /\ f.entity[i].out_deg = Cardinality(FromIn(after, d.entity[i].name))
           /\ f.entity[i].in_deg = Cardinality(ToIn(after, d.entity[i].name))

\* That is what update_counters does.
LEMMA UpdateFields ==
    ASSUME NEW d, Sound(d), NEW before, NEW after, NEW changes, NEW quiet \in BOOLEAN
    PROVE  Recounted(d, before, after, changes, quiet, update_counters(d, before, after, changes, quiet))
<1> DEFINE td == [k \in DOMAIN d.type_dict |-> IF quiet THEN d.type_dict[k] ELSE d.type_dict[k] + TypeDelta(before, after, k)]
           a == d.stat.entities + Cardinality(DOMAIN after.entities) - Cardinality(DOMAIN before.entities)
           b == d.stat.relations + Cardinality(after.relations) - Cardinality(before.relations)
           c == d.stat.observations + Cardinality(ObsIn(after)) - Cardinality(ObsIn(before))
           st == [d.stat EXCEPT !.entities = a, !.relations = b, !.observations = c]
           Obs(i) == Cardinality(after.entities[d.entity[i].name].observations)
           Outs(i) == Cardinality({r \in after.relations : r[1] = d.entity[i].name})
           Ins(i) == Cardinality({r \in after.relations : r[2] = d.entity[i].name})
           Recount(i) == [d.entity[i] EXCEPT !.obs_count = Obs(i), !.out_deg = Outs(i), !.in_deg = Ins(i)]
           ee == [i \in DOMAIN d.entity |-> IF i \notin Rewritten(changes) THEN d.entity[i] ELSE Recount(i)]
           f == update_counters(d, before, after, changes, quiet)
<1>1. IsStore(d) /\ d.stat \in [entities : Int, relations : Int, observations : Int, relation_obs : Int]
    BY DEF Sound, CountersOK
<1>2. f = [d EXCEPT !.type_dict = td, !.stat = st, !.entity = ee]
    BY <1>1 DEF update_counters, IsStore, TypeDelta, TypedIn, TypedRelsIn, ObsIn
<1>3. \A i \in DOMAIN d.entity : d.entity[i] \in EntityRow
    BY Fields
<1> HIDE DEF Obs, Outs, Ins, a, b, c
<1>4. st.entities = a /\ st.relations = b /\ st.observations = c /\ st.relation_obs = d.stat.relation_obs
    BY <1>1
<1>5. \A i \in DOMAIN d.entity :
          /\ Recount(i).name = d.entity[i].name /\ Recount(i).type = d.entity[i].type
          /\ Recount(i).obs_count = Obs(i) /\ Recount(i).out_deg = Outs(i) /\ Recount(i).in_deg = Ins(i)
    BY <1>3 DEF EntityRow
<1> HIDE DEF Recount
<1>6. /\ DOMAIN ee = DOMAIN d.entity
      /\ \A i \in DOMAIN d.entity : ee[i].name = d.entity[i].name /\ ee[i].type = d.entity[i].type
      /\ \A i \in DOMAIN d.entity : i \notin Rewritten(changes) => ee[i] = d.entity[i]
      /\ \A i \in DOMAIN d.entity : i \in Rewritten(changes) =>
             ee[i].obs_count = Obs(i) /\ ee[i].out_deg = Outs(i) /\ ee[i].in_deg = Ins(i)
    BY <1>5
<1> HIDE DEF td, st, ee, f
<1>7. /\ f.relation = d.relation /\ f.observation = d.observation /\ f.mirror = d.mirror
      /\ f.relobs = d.relobs /\ f.attribute = d.attribute /\ f.type_dict = td /\ f.stat = st /\ f.entity = ee
    BY <1>1, <1>2 DEF IsStore
<1>8. Recounted(d, before, after, changes, quiet, f)
    BY <1>4, <1>6, <1>7 DEF Recounted, td, a, b, c, Obs, Outs, Ins, FromIn, ToIn
<1> QED BY <1>8 DEF f

-----------------------------------------------------------------------------
(* The counters after one request. *)

TotalsExact(d) ==
    /\ d.stat.entities = Cardinality(DOMAIN d.entity)
    /\ d.stat.relations = Cardinality(d.relation)
    /\ d.stat.observations = Cardinality(DOMAIN d.observation)

Members(d, k) == IF k[1] = 0 THEN Cardinality(Typed(d, k[2])) ELSE Cardinality(TypedRels(d, k[2]))
TypesExact(d) == \A k \in DOMAIN d.type_dict : d.type_dict[k] = Members(d, k)

OutOf(d, i) == {r \in d.relation : r[1] = i}
Into(d, i) == {r \in d.relation : r[2] = i}
DegreesExact(d) ==
    \A i \in DOMAIN d.entity :
        /\ d.entity[i].obs_count = Cardinality(ObservationsOf(d, i))
        /\ d.entity[i].out_deg = Cardinality(OutOf(d, i))
        /\ d.entity[i].in_deg = Cardinality(Into(d, i))

\* The rows that are counted are finitely many.
LEMMA RowsFinite ==
    ASSUME NEW d, Whole(d)
    PROVE  IsFiniteSet(DOMAIN d.entity) /\ IsFiniteSet(d.relation) /\ IsFiniteSet(DOMAIN d.observation)
<1>1. IsFiniteSet(DOMAIN d.entity)
    BY NamesCount DEF Whole
<1>2. d.relation \in SUBSET d.relation
    OBVIOUS
<1>3. IsFiniteSet(d.relation)
    BY <1>2, NamedCounted
<1>4. d.seq.obs \in Nat /\ DOMAIN d.observation \in SUBSET (1..d.seq.obs)
    BY Fields DEF Whole, Sound, ObservationsOK, IsTable
<1>5. IsFiniteSet(DOMAIN d.observation)
    BY <1>4, Indexes, FS_Subset
<1> QED BY <1>1, <1>3, <1>5

\* graph_stats: the totals move by what the two captures differ in.
LEMMA TotalsFollow ==
    ASSUME NEW d, Whole(d), NEW e, Whole(e), NEW N, Confined(d, e, N), TotalsKept(d, e), TotalsExact(d),
           NEW changes, NEW quiet \in BOOLEAN
    PROVE  TotalsExact(update_counters(e, capture(d, N), capture(e, N), changes, quiet))
<1> DEFINE before == capture(d, N)
           after == capture(e, N)
           f == update_counters(e, before, after, changes, quiet)
<1>0. Sound(d) /\ Sound(e)
    BY DEF Whole
<1>1. /\ f.relation = e.relation /\ f.observation = e.observation /\ DOMAIN f.entity = DOMAIN e.entity
      /\ f.stat.entities = e.stat.entities + Cardinality(DOMAIN after.entities) - Cardinality(DOMAIN before.entities)
      /\ f.stat.relations = e.stat.relations + Cardinality(after.relations) - Cardinality(before.relations)
      /\ f.stat.observations = e.stat.observations + Cardinality(ObsIn(after)) - Cardinality(ObsIn(before))
  <2>1. Recounted(e, before, after, changes, quiet, f)
    BY <1>0, UpdateFields, Zenon
  <2> HIDE DEF before, after, f
  <2> QED BY <2>1 DEF Recounted
<1>2. /\ Cardinality(DOMAIN before.entities) = Cardinality(NearIds(d, N))
      /\ Cardinality(DOMAIN after.entities) = Cardinality(NearIds(e, N))
    BY <1>0, EntitiesCounted
<1>3. /\ Cardinality(before.relations) = Cardinality(NearRels(d, N))
      /\ Cardinality(after.relations) = Cardinality(NearRels(e, N))
    BY RelationsCounted
<1>4. /\ Cardinality(ObsIn(before)) = Cardinality(NearObs(d, N))
      /\ Cardinality(ObsIn(after)) = Cardinality(NearObs(e, N))
    BY <1>0, ObservationsCounted
<1>5. /\ NearIds(d, N) \in SUBSET DOMAIN d.entity /\ NearIds(e, N) \in SUBSET DOMAIN e.entity
      /\ NearRels(d, N) \in SUBSET d.relation /\ NearRels(e, N) \in SUBSET e.relation
      /\ NearObs(d, N) \in SUBSET DOMAIN d.observation /\ NearObs(e, N) \in SUBSET DOMAIN e.observation
    BY DEF NearIds, NearRels, NearObs
<1>6. /\ DOMAIN d.entity \ NearIds(d, N) = DOMAIN e.entity \ NearIds(e, N)
      /\ d.relation \ NearRels(d, N) = e.relation \ NearRels(e, N)
      /\ DOMAIN d.observation \ NearObs(d, N) = DOMAIN e.observation \ NearObs(e, N)
    BY OutsideSame
<1>7. /\ IsFiniteSet(DOMAIN d.entity) /\ IsFiniteSet(d.relation) /\ IsFiniteSet(DOMAIN d.observation)
      /\ IsFiniteSet(DOMAIN e.entity) /\ IsFiniteSet(e.relation) /\ IsFiniteSet(DOMAIN e.observation)
    BY RowsFinite
<1>8. /\ e.stat.entities = d.stat.entities /\ e.stat.relations = d.stat.relations
      /\ e.stat.observations = d.stat.observations
    BY DEF TotalsKept
<1> HIDE DEF f, before, after
<1>9. f.stat.entities = Cardinality(DOMAIN f.entity)
  <2>1. /\ Cardinality(DOMAIN d.entity) \in Nat /\ Cardinality(DOMAIN e.entity) \in Nat
        /\ Cardinality(NearIds(d, N)) \in Nat /\ Cardinality(NearIds(e, N)) \in Nat
        /\ Cardinality(DOMAIN e.entity) = Cardinality(DOMAIN d.entity) + Cardinality(NearIds(e, N)) - Cardinality(NearIds(d, N))
    BY ONLY <1>5, <1>6, <1>7, Difference
  <2> QED BY <1>1, <1>2, <1>8, <2>1 DEF TotalsExact
<1>10. f.stat.relations = Cardinality(f.relation)
  <2>1. Cardinality(e.relation) = Cardinality(d.relation) + Cardinality(NearRels(e, N)) - Cardinality(NearRels(d, N))
    BY ONLY <1>5, <1>6, <1>7, Difference
  <2> QED BY <1>1, <1>3, <1>8, <2>1 DEF TotalsExact
<1>11. f.stat.observations = Cardinality(DOMAIN f.observation)
  <2>1. /\ Cardinality(DOMAIN d.observation) \in Nat /\ Cardinality(DOMAIN e.observation) \in Nat
        /\ Cardinality(NearObs(d, N)) \in Nat /\ Cardinality(NearObs(e, N)) \in Nat
        /\ Cardinality(DOMAIN e.observation)
               = Cardinality(DOMAIN d.observation) + Cardinality(NearObs(e, N)) - Cardinality(NearObs(d, N))
    BY ONLY <1>5, <1>6, <1>7, Difference
  <2> QED BY <1>1, <1>4, <1>8, <2>1 DEF TotalsExact
<1> QED BY <1>9, <1>10, <1>11 DEF TotalsExact, f, before, after

\* A type that is registered by the request had no member before.
LEMMA TypesBefore ==
    ASSUME NEW d, Whole(d), Registered(d), TypesExact(d), NEW e, Whole(e), TotalsKept(d, e), NEW k \in DOMAIN e.type_dict
    PROVE  e.type_dict[k] = Members(d, k)
<1>1. e.type_dict[k] = IF k \in DOMAIN d.type_dict THEN d.type_dict[k] ELSE 0
    BY DEF TotalsKept
<1>2. CASE k \in DOMAIN d.type_dict
    BY <1>1, <1>2 DEF TypesExact
<1>3. CASE k \notin DOMAIN d.type_dict
  <2>1. k \in TypeKeys
    BY DEF Whole, Sound, CountersOK, IsTable
  <2>2. Cardinality({}) = 0
    BY FS_EmptySet
  <2>3. CASE k[1] = 0
    <3>1. k = <<0, k[2]>>
        BY <2>1, <2>3 DEF TypeKeys
    <3>2. Typed(d, k[2]) = {}
        BY <1>3, <3>1 DEF Registered, Typed
    <3> QED BY <1>1, <1>3, <2>2, <2>3, <3>2 DEF Members
  <2>4. CASE k[1] # 0
    <3>1. k = <<1, k[2]>>
        BY <2>1, <2>4 DEF TypeKeys
    <3>2. TypedRels(d, k[2]) = {}
        BY <1>3, <3>1 DEF Registered, TypedRels
    <3> QED BY <1>1, <1>3, <2>2, <2>4, <3>2 DEF Members
  <2> QED BY <2>3, <2>4
<1> QED BY <1>2, <1>3

\* The type catalogue: the members of a type move by what the captures differ in.
LEMMA TypesMove ==
    ASSUME NEW d, Whole(d), NEW e, Whole(e), NEW N, Confined(d, e, N), NEW k
    PROVE  Members(e, k) = Members(d, k) + TypeDelta(capture(d, N), capture(e, N), k)
<1> DEFINE before == capture(d, N)
           after == capture(e, N)
           t == k[2]
           A(a) == NearTyped(a, N, t)
           B(a) == NearTypedRels(a, N, t)
<1>0. Sound(d) /\ Sound(e)
    BY DEF Whole
<1>1. /\ IsFiniteSet(DOMAIN d.entity) /\ IsFiniteSet(d.relation)
      /\ IsFiniteSet(DOMAIN e.entity) /\ IsFiniteSet(e.relation)
    BY RowsFinite
<1>2. CASE k[1] = 0
  <2>1. Cardinality(TypedIn(before, t)) = Cardinality(A(d)) /\ Cardinality(TypedIn(after, t)) = Cardinality(A(e))
    BY <1>0, EntitiesCounted
  <2>2. /\ A(d) \in SUBSET Typed(d, t) /\ A(e) \in SUBSET Typed(e, t)
        /\ Typed(d, t) \in SUBSET DOMAIN d.entity /\ Typed(e, t) \in SUBSET DOMAIN e.entity
    BY DEF NearTyped, NearIds, Typed
  <2>3. Typed(d, t) \ A(d) = Typed(e, t) \ A(e)
    BY OutsideSame
  <2> HIDE DEF A, before, after, t
  <2>4. IsFiniteSet(Typed(d, t)) /\ IsFiniteSet(Typed(e, t))
    BY <1>1, <2>2, FS_Subset
  <2>5. /\ Cardinality(Typed(d, t)) \in Nat /\ Cardinality(Typed(e, t)) \in Nat
        /\ Cardinality(A(d)) \in Nat /\ Cardinality(A(e)) \in Nat
        /\ Cardinality(Typed(e, t)) = Cardinality(Typed(d, t)) + Cardinality(A(e)) - Cardinality(A(d))
    BY ONLY <2>2, <2>3, <2>4, Difference
  <2>6. Members(d, k) = Cardinality(Typed(d, t)) /\ Members(e, k) = Cardinality(Typed(e, t))
    BY <1>2 DEF Members, t
  <2>7. TypeDelta(before, after, k) = Cardinality(A(e)) - Cardinality(A(d))
    BY <1>2, <2>1 DEF TypeDelta, t
  <2> QED BY <2>5, <2>6, <2>7 DEF before, after
<1>3. CASE k[1] # 0
  <2>1. Cardinality(TypedRelsIn(before, t)) = Cardinality(B(d)) /\ Cardinality(TypedRelsIn(after, t)) = Cardinality(B(e))
    BY RelationsCounted
  <2>2. /\ B(d) \in SUBSET TypedRels(d, t) /\ B(e) \in SUBSET TypedRels(e, t)
        /\ TypedRels(d, t) \in SUBSET d.relation /\ TypedRels(e, t) \in SUBSET e.relation
    BY DEF NearTypedRels, NearRels, TypedRels
  <2>3. TypedRels(d, t) \ B(d) = TypedRels(e, t) \ B(e)
    BY OutsideSame
  <2> HIDE DEF B, before, after, t
  <2>4. IsFiniteSet(TypedRels(d, t)) /\ IsFiniteSet(TypedRels(e, t))
    BY <1>1, <2>2, FS_Subset
  <2>5. /\ Cardinality(TypedRels(d, t)) \in Nat /\ Cardinality(TypedRels(e, t)) \in Nat
        /\ Cardinality(B(d)) \in Nat /\ Cardinality(B(e)) \in Nat
        /\ Cardinality(TypedRels(e, t)) = Cardinality(TypedRels(d, t)) + Cardinality(B(e)) - Cardinality(B(d))
    BY ONLY <2>2, <2>3, <2>4, Difference
  <2>6. Members(d, k) = Cardinality(TypedRels(d, t)) /\ Members(e, k) = Cardinality(TypedRels(e, t))
    BY <1>3 DEF Members, t
  <2>7. TypeDelta(before, after, k) = Cardinality(B(e)) - Cardinality(B(d))
    BY <1>3, <2>1 DEF TypeDelta, t
  <2> QED BY <2>5, <2>6, <2>7 DEF before, after
<1> QED BY <1>2, <1>3

\* The type catalogue, also when the request is one of those that skip it.
LEMMA TypesFollow ==
    ASSUME NEW d, Whole(d), Registered(d), TypesExact(d), NEW e, Whole(e), TotalsKept(d, e), NEW N, Confined(d, e, N),
           NEW changes, NEW quiet \in BOOLEAN, quiet => SameGraph(d, e)
    PROVE  TypesExact(update_counters(e, capture(d, N), capture(e, N), changes, quiet))
<1> DEFINE before == capture(d, N)
           after == capture(e, N)
           f == update_counters(e, before, after, changes, quiet)
<1>0. Sound(e)
    BY DEF Whole
<1>1. /\ f.relation = e.relation /\ DOMAIN f.entity = DOMAIN e.entity
      /\ \A i \in DOMAIN e.entity : f.entity[i].type = e.entity[i].type
      /\ f.type_dict = [k \in DOMAIN e.type_dict |->
                            IF quiet THEN e.type_dict[k] ELSE e.type_dict[k] + TypeDelta(before, after, k)]
  <2>1. Recounted(e, before, after, changes, quiet, f)
    BY <1>0, UpdateFields, Zenon
  <2> HIDE DEF before, after, f
  <2> QED BY <2>1 DEF Recounted
<1> HIDE DEF f
<1>2. \A t : Typed(f, t) = Typed(e, t) /\ TypedRels(f, t) = TypedRels(e, t)
    BY <1>1 DEF Typed, TypedRels
<1>3. \A k : Members(f, k) = Members(e, k)
    BY <1>2 DEF Members
<1>4. ASSUME NEW k \in DOMAIN e.type_dict PROVE f.type_dict[k] = Members(e, k)
  <2>1. e.type_dict[k] = Members(d, k)
    BY TypesBefore
  <2>2. CASE quiet
    <3>1. Typed(d, k[2]) = Typed(e, k[2]) /\ TypedRels(d, k[2]) = TypedRels(e, k[2])
        BY <2>2 DEF SameGraph, Typed, TypedRels
    <3>2. Members(d, k) = Members(e, k)
        BY <3>1 DEF Members
    <3> QED BY <1>1, <2>1, <2>2, <3>2
  <2>3. CASE ~quiet
    <3>1. Members(e, k) = Members(d, k) + TypeDelta(before, after, k)
        BY TypesMove
    <3> QED BY <1>1, <2>1, <2>3, <3>1
  <2> QED BY <2>2, <2>3
<1>5. DOMAIN f.type_dict = DOMAIN e.type_dict
    BY <1>1
<1> QED BY <1>3, <1>4, <1>5 DEF TypesExact, f

\* What update_counters reads of an entity in the capture is what its rows give.
LEMMA CapturedCounts ==
    ASSUME NEW d, Whole(d), NEW N, NEW i \in NearIds(d, N)
    PROVE  LET c == capture(d, N)
               n == d.entity[i].name
           IN  /\ n \in DOMAIN c.entities /\ c.entities[n] = EntityRead(d, i)
               /\ Cardinality(c.entities[n].observations) = Cardinality(ObservationsOf(d, i))
               /\ Cardinality(FromIn(c, n)) = Cardinality(OutOf(d, i))
               /\ Cardinality(ToIn(c, n)) = Cardinality(Into(d, i))
<1> DEFINE c == capture(d, N)
           n == d.entity[i].name
           f == [o \in DOMAIN d.observation |-> <<o, d.observation[o].body>>]
<1>0. Sound(d) /\ i \in DOMAIN d.entity /\ n \in N
    BY DEF Whole, NearIds
<1>1. n \in DOMAIN c.entities /\ c.entities[n] = EntityRead(d, i)
    BY <1>0, CapturedEntities
<1>2. Cardinality(TextsOf(d, i)) = Cardinality(ObservationsOf(d, i))
  <2>1. TextsOf(d, i) = {f[o] : o \in ObservationsOf(d, i)}
    BY DEF TextsOf, ObservationsOf
  <2>2. \A o, p \in ObservationsOf(d, i) : f[o] = f[p] => o = p
    BY DEF ObservationsOf
  <2>3. IsFiniteSet(DOMAIN d.observation) /\ ObservationsOf(d, i) \in SUBSET DOMAIN d.observation
    BY RowsFinite DEF ObservationsOf
  <2>4. IsFiniteSet(ObservationsOf(d, i))
    BY <2>3, FS_Subset
  <2> HIDE DEF f
  <2>5. Cardinality({f[o] : o \in ObservationsOf(d, i)}) = Cardinality(ObservationsOf(d, i))
    BY ONLY <2>2, <2>4, ImageCount
  <2> QED BY <2>1, <2>5
<1>3. c.relations = {Named(d, r) : r \in NearRels(d, N)}
    BY CapturedRelations
<1>4. ASSUME NEW r \in d.relation
      PROVE  /\ Named(d, r)[1] = n <=> r[1] = i
             /\ Named(d, r)[2] = n <=> r[2] = i
             /\ r[1] = i \/ r[2] = i => r \in NearRels(d, N)
  <2>1. Named(d, r) = <<d.entity[r[1]].name, d.entity[r[2]].name, r[3]>> /\ r[1] \in DOMAIN d.entity /\ r[2] \in DOMAIN d.entity
    BY NamedOnce
  <2>2. \A j \in DOMAIN d.entity : d.entity[j].name = n => j = i
    BY <1>0 DEF Sound, EntitiesOK
  <2> QED BY <1>0, <2>1, <2>2 DEF NearRels, Out
<1>5. NearRels(d, N) \subseteq d.relation
    BY DEF NearRels
<1> HIDE DEF c, n
<1>6. FromIn(c, n) = {Named(d, r) : r \in OutOf(d, i)}
    BY <1>3, <1>4, <1>5 DEF FromIn, OutOf
<1>7. ToIn(c, n) = {Named(d, r) : r \in Into(d, i)}
    BY <1>3, <1>4, <1>5 DEF ToIn, Into
<1>8. OutOf(d, i) \in SUBSET d.relation /\ Into(d, i) \in SUBSET d.relation
    BY DEF OutOf, Into
<1>9. /\ Cardinality({Named(d, r) : r \in OutOf(d, i)}) = Cardinality(OutOf(d, i))
      /\ Cardinality({Named(d, r) : r \in Into(d, i)}) = Cardinality(Into(d, i))
    BY <1>8, NamedCounted
<1>10. EntityRead(d, i).observations = TextsOf(d, i)
    BY DEF EntityRead
<1> QED BY <1>1, <1>2, <1>6, <1>7, <1>9, <1>10 DEF c, n

\* An entity that is captured and not written again reads the same before and after.
LEMMA NotRewritten ==
    ASSUME NEW d, Whole(d), NEW e, Whole(e), NEW N, NEW i \in NearIds(e, N),
           i \notin Rewritten(effective_changes(capture(d, N), capture(e, N)))
    PROVE  LET n == e.entity[i].name
           IN  /\ i \in NearIds(d, N) /\ d.entity[i].name = n
               /\ capture(d, N).entities[n] = capture(e, N).entities[n]
               /\ At(capture(d, N).relations, n) = At(capture(e, N).relations, n)
<1> DEFINE before == capture(d, N)
           after == capture(e, N)
           n == e.entity[i].name
           c == EntityChange(before, after, n)
<1>0. Sound(d) /\ Sound(e) /\ i \in DOMAIN e.entity
    BY DEF Whole, NearIds
<1>1. n \in DOMAIN after.entities /\ after.entities[n] = EntityRead(e, i)
    BY CapturedCounts
<1>2. i \in Nat \ {0}
  <2>1. e.seq.entity \in Nat /\ DOMAIN e.entity \subseteq 1..e.seq.entity
    BY <1>0, Fields DEF Sound, EntitiesOK, IsTable
  <2> QED BY <1>0, <2>1
<1>3. \A a, j : EntityRead(a, j).id = j
    BY DEF EntityRead
<1>4. None.id = 0
    BY DEF None
<1>5. Row(after, n) = EntityRead(e, i) /\ Row(after, n) # None
    BY <1>1, <1>2, <1>3, <1>4 DEF Row
<1>6. c.kind = "entity" /\ c.after = Row(after, n)
    BY DEF EntityChange
<1> HIDE DEF before, after, n
<1>7. Row(before, n) = Row(after, n) /\ At(after.relations, n) = At(before.relations, n)
  <2> SUFFICES ASSUME ~(Row(before, n) = Row(after, n) /\ At(after.relations, n) = At(before.relations, n)) PROVE FALSE
    OBVIOUS
  <2>1. c \in effective_changes(before, after)
    BY <1>1 DEF effective_changes
  <2> HIDE DEF c
  <2>2. c.after.id = i /\ c.after # None /\ c.kind # "rename"
    BY <1>3, <1>5, <1>6
  <2>3. i \in Rewritten(effective_changes(before, after))
    BY <2>1, <2>2 DEF Rewritten
  <2> QED BY <2>3 DEF before, after
<1>8. n \in DOMAIN before.entities /\ before.entities[n] = after.entities[n]
    BY <1>1, <1>5, <1>7 DEF Row
<1>9. /\ DOMAIN before.entities = {d.entity[j].name : j \in NearIds(d, N)}
      /\ \A j \in NearIds(d, N) : before.entities[d.entity[j].name] = EntityRead(d, j)
    BY <1>0, CapturedEntities DEF before
<1>10. PICK j \in NearIds(d, N) : d.entity[j].name = n
    BY <1>8, <1>9
<1>11. j = i
    BY <1>1, <1>3, <1>8, <1>9, <1>10
<1> QED BY <1>7, <1>8, <1>10, <1>11 DEF before, after, n

\* The entities whose counts are written again are captured.
LEMMA RewrittenNear ==
    ASSUME NEW d, Sound(d), NEW N, NEW before, NEW i, i \in Rewritten(effective_changes(before, capture(d, N)))
    PROVE  i \in NearIds(d, N)
<1> DEFINE q == [op |-> "Wipe"]
           after == capture(d, N)
<1>1. changes_of(q, before, after) = effective_changes(before, after)
    BY DEF changes_of
<1>2. DOMAIN after.entities = {d.entity[j].name : j \in NearIds(d, N)}
    BY CapturedEntities
<1>3. after = capture(d, N)
    OBVIOUS
<1> HIDE DEF q, after
<1>4. i \in DOMAIN d.entity /\ d.entity[i].name \in DOMAIN after.entities
  <2>1. i \in Rewritten(changes_of(q, before, after))
    BY <1>1 DEF after
  <2> QED BY ONLY <1>3, <2>1, RewrittenCaptured
<1> QED BY <1>2, <1>4 DEF NearIds

\* What hangs on an entity that the request does not name is as it was.
LEMMA CountsOut ==
    ASSUME NEW d, Whole(d), NEW e, Whole(e), NEW N, Confined(d, e, N), NEW i, Out(e, i, N)
    PROVE  /\ i \in DOMAIN d.entity /\ e.entity[i] = d.entity[i]
           /\ ObservationsOf(e, i) = ObservationsOf(d, i) /\ OutOf(e, i) = OutOf(d, i) /\ Into(e, i) = Into(d, i)
<1>1. Out(d, i, N) /\ e.entity[i] = d.entity[i]
    BY DEF Confined, SameEntitiesOut
<1>2. \A o : (OutObs(d, o, N) <=> OutObs(e, o, N)) /\ (OutObs(d, o, N) => e.observation[o] = d.observation[o])
    BY DEF Confined, SameObsOut
<1>3. ObservationsOf(e, i) = ObservationsOf(d, i)
    BY <1>1, <1>2 DEF OutObs, ObservationsOf
<1>4. \A r : OutRel(d, r, N) <=> OutRel(e, r, N)
    BY DEF Confined, SameRelsOut
<1>5. OutOf(e, i) = OutOf(d, i) /\ Into(e, i) = Into(d, i)
    BY <1>1, <1>4 DEF OutRel, OutOf, Into
<1> QED BY <1>1, <1>3, <1>5 DEF Out

\* describe_entity and degree: a request that does not rename.
LEMMA DegreesFollow ==
    ASSUME NEW d, Whole(d), DegreesExact(d), NEW e, Whole(e), Kept(d, e), NEW N, Confined(d, e, N), NEW quiet \in BOOLEAN
    PROVE  DegreesExact(update_counters(e, capture(d, N), capture(e, N),
                                        effective_changes(capture(d, N), capture(e, N)), quiet))
<1> DEFINE before == capture(d, N)
           after == capture(e, N)
           changes == effective_changes(before, after)
           f == update_counters(e, before, after, changes, quiet)
<1>0. Sound(d) /\ Sound(e)
    BY DEF Whole
<1>1. Recounted(e, before, after, changes, quiet, f)
    BY <1>0, UpdateFields, Zenon
<1> HIDE DEF f
<1>2. \A i : ObservationsOf(f, i) = ObservationsOf(e, i) /\ OutOf(f, i) = OutOf(e, i) /\ Into(f, i) = Into(e, i)
    BY <1>1 DEF Recounted, ObservationsOf, OutOf, Into
<1>3. ASSUME NEW i \in DOMAIN e.entity
      PROVE  /\ f.entity[i].obs_count = Cardinality(ObservationsOf(e, i))
             /\ f.entity[i].out_deg = Cardinality(OutOf(e, i))
             /\ f.entity[i].in_deg = Cardinality(Into(e, i))
  <2> DEFINE n == e.entity[i].name
  <2>1. CASE i \in Rewritten(changes) /\ i \in NearIds(e, N)
    <3>1. /\ f.entity[i].obs_count = Cardinality(after.entities[n].observations)
          /\ f.entity[i].out_deg = Cardinality(FromIn(after, n))
          /\ f.entity[i].in_deg = Cardinality(ToIn(after, n))
        BY <1>1, <2>1 DEF Recounted
    <3>2. /\ Cardinality(after.entities[n].observations) = Cardinality(ObservationsOf(e, i))
          /\ Cardinality(FromIn(after, n)) = Cardinality(OutOf(e, i))
          /\ Cardinality(ToIn(after, n)) = Cardinality(Into(e, i))
        BY <2>1, CapturedCounts
    <3> QED BY <3>1, <3>2
  <2>2. CASE i \notin NearIds(e, N)
    <3>1. Out(e, i, N)
        BY <2>2 DEF Out, NearIds
    <3>2. /\ i \in DOMAIN d.entity /\ e.entity[i] = d.entity[i]
          /\ ObservationsOf(e, i) = ObservationsOf(d, i) /\ OutOf(e, i) = OutOf(d, i) /\ Into(e, i) = Into(d, i)
        BY <3>1, CountsOut
    <3>3. i \notin Rewritten(changes)
      <4>1. \A j : j \in Rewritten(changes) => j \in NearIds(e, N)
        BY <1>0, RewrittenNear
      <4> QED BY <2>2, <4>1
    <3>4. f.entity[i] = e.entity[i]
        BY <1>1, <3>3 DEF Recounted
    <3> QED BY <3>2, <3>4 DEF DegreesExact
  <2>3. CASE i \notin Rewritten(changes) /\ i \in NearIds(e, N)
    <3>1. /\ i \in NearIds(d, N) /\ d.entity[i].name = n
          /\ before.entities[n] = after.entities[n] /\ At(before.relations, n) = At(after.relations, n)
        BY <2>3, NotRewritten
    <3>2. /\ Cardinality(after.entities[n].observations) = Cardinality(ObservationsOf(e, i))
          /\ Cardinality(FromIn(after, n)) = Cardinality(OutOf(e, i))
          /\ Cardinality(ToIn(after, n)) = Cardinality(Into(e, i))
        BY <2>3, CapturedCounts
    <3>3. /\ Cardinality(before.entities[n].observations) = Cardinality(ObservationsOf(d, i))
          /\ Cardinality(FromIn(before, n)) = Cardinality(OutOf(d, i))
          /\ Cardinality(ToIn(before, n)) = Cardinality(Into(d, i))
      <4>1. /\ Cardinality(before.entities[d.entity[i].name].observations) = Cardinality(ObservationsOf(d, i))
            /\ Cardinality(FromIn(before, d.entity[i].name)) = Cardinality(OutOf(d, i))
            /\ Cardinality(ToIn(before, d.entity[i].name)) = Cardinality(Into(d, i))
        BY <3>1, CapturedCounts
      <4> QED BY <3>1, <4>1
    <3> HIDE DEF before, after, n
    <3>4. FromIn(before, n) = FromIn(after, n) /\ ToIn(before, n) = ToIn(after, n)
      <4>1. \A ts : \A t \in ts : t[1] = n \/ t[2] = n => t \in At(ts, n)
        BY DEF At
      <4>2. \A ts, t : t \in At(ts, n) => t \in ts
        BY DEF At
      <4> QED BY <3>1, <4>1, <4>2 DEF FromIn, ToIn
    <3>5. i \in DOMAIN d.entity /\ i <= d.seq.entity
      <4>1. d.seq.entity \in Nat /\ DOMAIN d.entity \subseteq 1..d.seq.entity
        BY <1>0, Fields DEF Sound, EntitiesOK, IsTable
      <4>2. i \in DOMAIN d.entity
        BY <3>1 DEF NearIds
      <4> QED BY <4>1, <4>2
    <3>6. /\ e.entity[i].obs_count = d.entity[i].obs_count /\ e.entity[i].out_deg = d.entity[i].out_deg
          /\ e.entity[i].in_deg = d.entity[i].in_deg
        BY <3>5 DEF Kept, RowsKept
    <3>7. f.entity[i] = e.entity[i]
        BY <1>1, <2>3 DEF Recounted
    <3> QED BY <3>1, <3>2, <3>3, <3>4, <3>5, <3>6, <3>7 DEF DegreesExact
  <2> QED BY <2>1, <2>2, <2>3
<1>4. DOMAIN f.entity = DOMAIN e.entity
    BY <1>1 DEF Recounted
<1> QED BY <1>2, <1>3, <1>4 DEF DegreesExact, f

\* The rename writes no count again, and every count stays right.
LEMMA DegreesRenamed ==
    ASSUME NEW d, Whole(d), DegreesExact(d), NEW e, Whole(e), NEW i, NEW new, Renamed(d, e, i, new),
           NEW before, NEW after, NEW m, NEW n, NEW quiet \in BOOLEAN
    PROVE  DegreesExact(update_counters(e, before, after, rename_changes(before, after, m, n), quiet))
<1> DEFINE changes == rename_changes(before, after, m, n)
           f == update_counters(e, before, after, changes, quiet)
<1>0. Sound(e)
    BY DEF Whole
<1>1. Recounted(e, before, after, changes, quiet, f)
    BY <1>0, UpdateFields, Zenon
<1>2. \A c \in changes : c.kind = "rename"
    BY DEF rename_changes
<1> HIDE DEF f, changes
<1>3. Rewritten(changes) = {}
    BY <1>2 DEF Rewritten
<1>4. DOMAIN f.entity = DOMAIN e.entity /\ \A j \in DOMAIN e.entity : f.entity[j] = e.entity[j]
    BY <1>1, <1>3 DEF Recounted
<1>5. \A j : ObservationsOf(f, j) = ObservationsOf(d, j) /\ OutOf(f, j) = OutOf(d, j) /\ Into(f, j) = Into(d, j)
    BY <1>1 DEF Recounted, Renamed, ObservationsOf, OutOf, Into
<1>6. \A j \in DOMAIN f.entity :
          /\ j \in DOMAIN d.entity /\ f.entity[j].obs_count = d.entity[j].obs_count
          /\ f.entity[j].out_deg = d.entity[j].out_deg /\ f.entity[j].in_deg = d.entity[j].in_deg
    BY <1>4 DEF Renamed
<1>7. DegreesExact(f)
    BY <1>5, <1>6 DEF DegreesExact
<1> QED BY <1>7 DEF f, changes

\* Every counter that no write recomputes is what counting the rows gives.
Exact(d) == Registered(d) /\ TotalsExact(d) /\ TypesExact(d) /\ DegreesExact(d)

\* A request renames, or leaves the names and the counters alone.
LEMMA RenamedOrKept ==
    ASSUME NEW d, Whole(d), Registered(d), NEW q, IsRequest(q), execute(d, q).ok
    PROVE  LET e == execute(d, q).db
           IN  RenamedBy(q, d, e) \/ (Kept(d, e) /\ ~(q.op = "RenameEntity" /\ q.old # q.new))
<1> DEFINE e == execute(d, q).db
<1>1. RequestDoes(q, d, e, affected_names(d, q))
    BY RequestFollows
<1>2. CASE q.op = "RenameEntity" /\ q.old # q.new
  <2>1. execute(d, q) = RenameEntity(d, q) /\ q.new \in Names
    BY <1>2 DEF execute, IsRequest, Itemised
  <2>2. ~Refused(d).ok
    BY DEF Refused
  <2>3. Exists(d, q.old) /\ ~Exists(d, q.new)
    BY <1>2, <2>1, <2>2 DEF RenameEntity
  <2>4. Renamed(d, RenameEntity(d, q).db, IdOf(d, q.old), q.new)
    BY <1>2, <2>1, <2>3, RenameRows
  <2> QED BY <1>2, <2>1, <2>3, <2>4 DEF RenamedBy
<1>3. CASE ~(q.op = "RenameEntity" /\ q.old # q.new)
    BY <1>1, <1>3 DEF RequestDoes, RenamedBy
<1> QED BY <1>2, <1>3

\* A request that is accepted leaves the counters exact.
LEMMA RequestExact ==
    ASSUME NEW d, Whole(d), Exact(d), NEW q, IsRequest(q), execute(d, q).ok
    PROVE  LET e == execute(d, q).db
               N == affected_names(d, q)
               before == capture(d, N)
               after == capture(e, N)
           IN  Exact(update_counters(e, before, after, changes_of(q, before, after), q.op \in Quiet))
<1> DEFINE e == execute(d, q).db
           N == affected_names(d, q)
           before == capture(d, N)
           after == capture(e, N)
           changes == changes_of(q, before, after)
           quiet == q.op \in Quiet
           f == update_counters(e, before, after, changes, quiet)
<1>0. Registered(d) /\ TotalsExact(d) /\ TypesExact(d) /\ DegreesExact(d)
    BY DEF Exact
<1>1. Whole(e)
    BY ExecuteWhole DEF Outcome
<1>2. RequestDoes(q, d, e, N)
    BY <1>0, RequestFollows
<1>3. Confined(d, e, N) /\ TotalsKept(d, e) /\ Registered(e)
    BY <1>0, <1>2, RenamedFollows DEF RequestDoes, RenamedBy, Kept
<1>4. quiet \in BOOLEAN /\ (quiet => SameGraph(d, e))
    BY <1>2 DEF RequestDoes
<1>5. RenamedBy(q, d, e) \/ (Kept(d, e) /\ ~(q.op = "RenameEntity" /\ q.old # q.new))
    BY <1>0, RenamedOrKept
<1> HIDE DEF e, N, quiet
<1>6. TotalsExact(f)
    BY <1>0, <1>1, <1>3, <1>4, TotalsFollow, Zenon
<1>7. TypesExact(f)
    BY <1>0, <1>1, <1>3, <1>4, TypesFollow, Zenon
<1>8. DegreesExact(f)
  <2>1. CASE RenamedBy(q, d, e)
    <3>0. q.op = "RenameEntity" /\ q.old # q.new
        BY <2>1 DEF RenamedBy
    <3>1. changes = rename_changes(before, after, q.old, q.new)
        BY <3>0 DEF changes_of
    <3>2. Renamed(d, e, IdOf(d, q.old), q.new)
        BY <2>1 DEF RenamedBy
    <3> HIDE DEF before, after
    <3>3. DegreesExact(update_counters(e, before, after, rename_changes(before, after, q.old, q.new), quiet))
        BY <1>0, <1>1, <1>4, <3>2, DegreesRenamed, Zenon
    <3> QED BY <3>1, <3>3, Zenon
  <2>2. CASE Kept(d, e) /\ ~(q.op = "RenameEntity" /\ q.old # q.new)
    <3>1. changes = effective_changes(before, after)
        BY <2>2, Zenon DEF changes_of
    <3>2. DegreesExact(update_counters(e, before, after, effective_changes(before, after), quiet))
        BY <1>0, <1>1, <1>3, <1>4, <2>2, DegreesFollow, Zenon
    <3> HIDE DEF before, after, changes
    <3> QED BY <3>1, <3>2, Zenon
  <2> QED BY <1>5, <2>1, <2>2
<1>9. Registered(f)
  <2>1. Recounted(e, before, after, changes, quiet, f)
    BY <1>1, <1>4, UpdateFields, Zenon DEF Whole
  <2>2. Registered(e)
    BY <1>3
  <2> HIDE DEF f, before, after, changes
  <2> QED BY <2>1, <2>2 DEF Recounted, Registered
<1>10. Exact(f)
  <2> HIDE DEF f
  <2> QED BY <1>6, <1>7, <1>8, <1>9 DEF Exact
<1> QED BY <1>10 DEF e, N, quiet

\* Describing a type registers it, and it has no member yet.
LEMMA DescriptionExact ==
    ASSUME NEW d, Whole(d), Exact(d), NEW kind, NEW t, <<kind, t>> \in TypeKeys, NEW given \in BOOLEAN
    PROVE  LET f == set_type_description(d, kind, t, given) IN Exact(f) /\ Surplus(f) = Surplus(d)
<1> DEFINE e == type_id(d, kind, t)
           f == set_type_description(d, kind, t, given)
           dd == IF given THEN e.described \cup {<<kind, t>>} ELSE e.described \ {<<kind, t>>}
<1>0. Sound(d) /\ Registered(d) /\ TotalsExact(d) /\ TypesExact(d) /\ DegreesExact(d)
    BY DEF Exact, Whole
<1>1. Sound(e) /\ SameGraph(d, e) /\ e.observation = d.observation /\ e.relobs = d.relobs /\ e.stat = d.stat
  <2>1. Sound(e) /\ SameGraph(d, e)
    BY <1>0, TypeIdSound
  <2>2. IsStore(d)
    BY <1>0 DEF Sound, CountersOK
  <2>3. e.observation = d.observation /\ e.relobs = d.relobs /\ e.stat = d.stat
    BY <2>2 DEF type_id, IsStore
  <2> QED BY <2>1, <2>3
<1>2. Whole(e)
    BY <1>1, SameIsWhole
<1>3. Kept(d, e)
    BY <1>0, TypeIdWrites DEF Writes
<1>4. f = [e EXCEPT !.described = dd]
    BY DEF set_type_description
<1>5. IsStore(e)
    BY <1>1 DEF Sound, CountersOK
<1> HIDE DEF e, dd, f
<1>6. /\ f.entity = d.entity /\ f.relation = d.relation /\ f.observation = d.observation /\ f.relobs = d.relobs
      /\ f.stat = d.stat /\ f.type_dict = e.type_dict
    BY <1>1, <1>4, <1>5 DEF IsStore, SameGraph
<1>7. TotalsExact(f)
    BY <1>0, <1>6 DEF TotalsExact
<1>8. DegreesExact(f)
  <2>1. \A i : ObservationsOf(f, i) = ObservationsOf(d, i) /\ OutOf(f, i) = OutOf(d, i) /\ Into(f, i) = Into(d, i)
    BY <1>6 DEF ObservationsOf, OutOf, Into
  <2> QED BY <1>0, <1>6, <2>1 DEF DegreesExact
<1>9. TypesExact(f)
  <2>1. \A u : Typed(f, u) = Typed(d, u) /\ TypedRels(f, u) = TypedRels(d, u)
    BY <1>6 DEF Typed, TypedRels
  <2>2. \A k : Members(f, k) = Members(d, k)
    BY <2>1 DEF Members
  <2>3. \A k \in DOMAIN e.type_dict : e.type_dict[k] = Members(d, k)
    BY <1>0, <1>2, <1>3, TypesBefore DEF Kept
  <2> QED BY <1>6, <2>2, <2>3 DEF TypesExact
<1>10. Registered(f)
  <2>1. Registered(e)
    BY <1>0, <1>3 DEF Kept
  <2> QED BY <1>1, <1>6, <2>1 DEF Registered, SameGraph
<1>11. Surplus(f) = Surplus(d)
    BY <1>6 DEF Surplus
<1> QED BY <1>7, <1>8, <1>9, <1>10, <1>11 DEF Exact, f

-----------------------------------------------------------------------------
(* The inductive invariant: with the types registered and the ledger of the
   relation observations, the counters determine one another. *)
CountersInv == GraphInv /\ Exact(db) /\ dropped \in Nat /\ Surplus(db) = dropped

\* One transaction: the counters, and what is lost with a relation.
LEMMA ApplyExact ==
    ASSUME CountersInv, NEW q, IsRequest(q), apply_inner(q)
    PROVE  /\ Exact(db') /\ dropped' \in Nat /\ Surplus(db') = dropped'
           /\ dropped' > dropped => \/ Cardinality(db'.relation) < Cardinality(db.relation)
                                    \/ DOMAIN db'.entity # DOMAIN db.entity
<1> DEFINE e == execute(db, q).db
           N == affected_names(db, q)
           before == capture(db, N)
           after == capture(e, N)
           changes == changes_of(q, before, after)
           quiet == q.op \in Quiet
           f == update_counters(e, before, after, changes, quiet)
<1>1. /\ db' = f /\ execute(db, q).ok
      /\ dropped' = IF q.op = "Wipe" THEN 0 ELSE dropped + LostWith(db, e)
    BY DEF apply_inner
<1>2. Whole(db) /\ Exact(db) /\ dropped \in Nat /\ Surplus(db) = dropped /\ Registered(db)
    BY DEF CountersInv, GraphInv, Exact
<1>3. Exact(f)
    BY <1>1, <1>2, RequestExact
<1>4. RequestDoes(q, db, e, N)
    BY <1>2, RequestFollows
<1>5. Whole(e)
    BY <1>2, ExecuteWhole DEF Outcome
<1>6. quiet \in BOOLEAN
    OBVIOUS
<1>7. Recounted(e, before, after, changes, quiet, f)
    BY <1>5, <1>6, UpdateFields, Zenon DEF Whole
<1> HIDE DEF e, N, quiet, f, before, after, changes
<1>8. Surplus(f) = Surplus(e) /\ f.relation = e.relation /\ DOMAIN f.entity = DOMAIN e.entity
    BY <1>7 DEF Recounted, Surplus
<1>9. CASE q.op = "Wipe"
  <2>1. e.stat.relation_obs = 0 /\ DOMAIN e.relobs = {}
    BY <1>4, <1>9 DEF RequestDoes
  <2>2. Surplus(e) = 0
    BY <2>1, FS_EmptySet DEF Surplus
  <2>3. dropped' = 0
    BY <1>1, <1>9
  <2> QED BY <1>1, <1>2, <1>3, <1>8, <2>2, <2>3
<1>10. CASE q.op # "Wipe"
  <2>1. /\ LostWith(db, e) \in Nat /\ Surplus(e) = Surplus(db) + LostWith(db, e)
        /\ LostWith(db, e) > 0 => \/ Cardinality(e.relation) < Cardinality(db.relation)
                                  \/ DOMAIN e.entity # DOMAIN db.entity
    BY <1>4, <1>10 DEF RequestDoes, Booked, Counted
  <2>2. dropped' = dropped + LostWith(db, e)
    BY <1>1, <1>10
  <2>3. dropped' \in Nat /\ Surplus(e) = dropped' /\ (dropped' > dropped => LostWith(db, e) > 0)
    BY <1>2, <2>1, <2>2
  <2> QED BY <1>1, <1>3, <1>8, <2>1, <2>3
<1> QED BY <1>9, <1>10

\* Any step.
LEMMA CountersStep ==
    ASSUME CountersInv, [GraphNext]_graphVars
    PROVE  /\ Exact(db') /\ dropped' \in Nat /\ Surplus(db') = dropped'
           /\ dropped' > dropped => \/ Cardinality(db'.relation) < Cardinality(db.relation)
                                    \/ DOMAIN db'.entity # DOMAIN db.entity
<1>0. Requested \/ Described \/ UNCHANGED <<db, replica, dropped>>
    BY StepDoes DEF CountersInv, GraphInv
<1>1. CASE Requested
    BY <1>1, ApplyExact DEF Requested
<1>2. CASE Described
  <2>1. PICK kind, t, given : <<kind, t>> \in TypeKeys /\ given \in BOOLEAN /\ handle_set_type_description(kind, t, given)
    BY <1>2 DEF Described
  <2>2. db' = set_type_description(db, kind, t, given) /\ dropped' = dropped
    BY <2>1 DEF handle_set_type_description
  <2>3. /\ Exact(set_type_description(db, kind, t, given))
        /\ Surplus(set_type_description(db, kind, t, given)) = Surplus(db)
    BY <2>1, DescriptionExact DEF CountersInv, GraphInv
  <2>4. dropped \in Nat /\ Surplus(db) = dropped
    BY DEF CountersInv
  <2> QED BY <2>2, <2>3, <2>4
<1>3. CASE UNCHANGED <<db, replica, dropped>>
  <2>1. db' = db /\ dropped' = dropped
    BY <1>3
  <2>2. Exact(db) /\ dropped \in Nat /\ Surplus(db) = dropped
    BY DEF CountersInv
  <2> QED BY <2>1, <2>2
<1> QED BY <1>0, <1>1, <1>2, <1>3

\* A new file counts nothing.
LEMMA InitExact == ASSUME GraphInit PROVE CountersInv
<1>1. GraphInv /\ db = EmptyStore /\ dropped = 0
    BY InitWhole DEF GraphInit
<1>2. /\ db.entity = Empty /\ db.observation = Empty /\ db.relobs = Empty /\ db.relation = {} /\ db.type_dict = Empty
      /\ db.stat = [entities |-> 0, relations |-> 0, observations |-> 0, relation_obs |-> 0]
    BY <1>1 DEF EmptyStore
<1>3. DOMAIN Empty = {} /\ Cardinality({}) = 0
    BY FS_EmptySet DEF Empty
<1>4. Exact(db)
    BY <1>2, <1>3 DEF Exact, Registered, TotalsExact, TypesExact, DegreesExact
<1>5. Surplus(db) = 0
    BY <1>2, <1>3 DEF Surplus
<1> QED BY <1>1, <1>4, <1>5 DEF CountersInv

\* The invariant holds in every reachable state.
THEOREM CountersStayExact == GraphSpec => []CountersInv
<1>1. GraphInv /\ GraphInv' /\ CountersInv /\ [GraphNext]_graphVars => CountersInv'
  <2> SUFFICES ASSUME GraphInv', CountersInv, [GraphNext]_graphVars PROVE CountersInv'
    OBVIOUS
  <2>1. Exact(db') /\ dropped' \in Nat /\ Surplus(db') = dropped'
    BY CountersStep
  <2> QED BY <2>1 DEF CountersInv
<1> QED BY <1>1, InitExact, GraphStaysWhole, PTL DEF GraphSpec

\* graph_stats, describe_entity, degree and the type catalogue answer what
\* counting the rows would, for any number of entities, relations and
\* observations: update_counters of mutation.rs, which only sees what
\* affected_names captured, misses no row that the request wrote.
THEOREM CountersMatchRows == GraphSpec => []CountersExact
<1>1. CountersInv => CountersExact
  <2> SUFFICES ASSUME CountersInv PROVE CountersExact
    OBVIOUS
  <2>1. /\ Registered(db) /\ TotalsExact(db) /\ TypesExact(db) /\ DegreesExact(db)
        /\ dropped \in Nat /\ Surplus(db) = dropped /\ Sound(db)
    BY DEF CountersInv, Exact, GraphInv, Whole
  <2>2. db.stat.relation_obs = Cardinality(DOMAIN db.relobs) + dropped
    <3>1. db.stat.relation_obs \in Int /\ Cardinality(DOMAIN db.relobs) \in Nat
        BY <2>1, SurplusInt DEF Sound, CountersOK
    <3> QED BY <2>1, <3>1 DEF Surplus
  <2>3. \A k \in DOMAIN db.type_dict : db.type_dict[k] =
            IF k[1] = 0 THEN Cardinality({i \in DOMAIN db.entity : db.entity[i].type = k[2]})
            ELSE Cardinality({r \in db.relation : r[3] = k[2]})
    BY <2>1, Zenon DEF TypesExact, Members, Typed, TypedRels
  <2>4. \A i \in DOMAIN db.entity :
            /\ <<0, db.entity[i].type>> \in DOMAIN db.type_dict
            /\ db.entity[i].obs_count = Cardinality(ObservationsOf(db, i))
            /\ db.entity[i].out_deg = Cardinality({r \in db.relation : r[1] = i})
            /\ db.entity[i].in_deg = Cardinality({r \in db.relation : r[2] = i})
    BY <2>1, Zenon DEF DegreesExact, Registered, OutOf, Into
  <2> QED BY <2>1, <2>2, <2>3, <2>4, Zenon DEF TotalsExact, CountersExact
<1> QED BY <1>1, CountersStayExact, PTL

\* Relation observations are lost only with a relation that is deleted or an
\* entity that is deleted or merged away: swapping the ends of a relation and
\* changing its type, which mutation.rs does by moving its children to
\* another mirror, lose none.
THEOREM MovesLoseNoObservation == GraphSpec => MovesLoseNothing
<1>1. CountersInv /\ [GraphNext]_graphVars =>
          [dropped' > dropped => \/ Cardinality(db'.relation) < Cardinality(db.relation)
                                 \/ DOMAIN db'.entity # DOMAIN db.entity]_graphVars
    BY CountersStep
<1> QED BY <1>1, CountersStayExact, PTL DEF GraphSpec, MovesLoseNothing

-----------------------------------------------------------------------------
(* The graph as a subscriber sees it: entities and relations by name. *)

Rels(d) == {Named(d, r) : r \in d.relation}
EntityView(d) == [n \in NamesOf(d) |-> read_entity(d, n)]
RelationView(d) == [t \in Rels(d) |-> mirror_detail(d, t)]

\* What is left of the two under the names of N.
Near(T, N) == {t \in T : t[1] \in N \/ t[2] \in N}
Window(E, R, N) ==
    [entities |-> [n \in DOMAIN E \cap N |-> E[n]],
     relations |-> Near(DOMAIN R, N),
     details |-> [t \in Near(DOMAIN R, N) |-> R[t]]]

\* What hangs on one mirror.
DetailOf(d, m) ==
    [observations |-> {<<o, d.relobs[o].body>> : o \in {p \in DOMAIN d.relobs : d.relobs[p].mirror = m}},
     attributes |-> attributes_for(d, "relation", m)]

\* A relation is found by its names, and is read from its own mirror.
LEMMA MirrorRead ==
    ASSUME NEW d, Whole(d), NEW m \in Live(d)
    PROVE  LET r == d.mirror[m].triple
           IN  r \in d.relation /\ LiveMirrors(d, Named(d, r)) = {m} /\ mirror_detail(d, Named(d, r)) = DetailOf(d, m)
<1> DEFINE r == d.mirror[m].triple
           t == Named(d, r)
<1>0. Sound(d) /\ r \in d.relation /\ m \in DOMAIN d.mirror
    BY DEF Whole, Mirrored, Live
<1>1. t = <<d.entity[r[1]].name, d.entity[r[2]].name, r[3]>> /\ r[1] \in DOMAIN d.entity /\ r[2] \in DOMAIN d.entity
    BY <1>0, NamedOnce
<1>2. /\ Exists(d, d.entity[r[1]].name) /\ IdOf(d, d.entity[r[1]].name) = r[1]
      /\ Exists(d, d.entity[r[2]].name) /\ IdOf(d, d.entity[r[2]].name) = r[2]
    BY <1>0, <1>1, NameIsId
<1>3. r = <<r[1], r[2], r[3]>>
    BY <1>0 DEF Sound, CountersOK, Links
<1>4. /\ \A k \in DOMAIN d.mirror : d.mirror[k] \in [triple : Links, deleted : BOOLEAN]
      /\ \A k, n \in DOMAIN d.mirror : d.mirror[k].triple = d.mirror[n].triple => k = n
      /\ d.mirror[m].deleted = FALSE
    BY <1>0 DEF Sound, MirrorsOK, IsTable, Live
<1> HIDE DEF r, t
<1>5. Ids(d, t) = r /\ Exists(d, t[1]) /\ Exists(d, t[2])
    BY <1>1, <1>2, <1>3 DEF Ids
<1>6. d.mirror[m] = [triple |-> r, deleted |-> FALSE]
    BY <1>0, <1>4 DEF r
<1>7. ASSUME NEW k \in DOMAIN d.mirror PROVE d.mirror[k] = [triple |-> r, deleted |-> FALSE] <=> k = m
  <2>1. ASSUME d.mirror[k] = [triple |-> r, deleted |-> FALSE] PROVE k = m
    <3>1. d.mirror[k].triple = d.mirror[m].triple
        BY <1>6, <2>1
    <3> QED BY <1>0, <1>4, <3>1
  <2> QED BY <1>6, <2>1
<1>8. LiveMirrors(d, t) = {m}
    BY <1>0, <1>5, <1>7 DEF LiveMirrors
<1>9. resolve_relation_mirror(d, t) = m
    BY <1>8 DEF resolve_relation_mirror
<1>10. mirror_detail(d, t) = DetailOf(d, m)
    BY <1>9 DEF mirror_detail, DetailOf
<1> QED BY <1>0, <1>8, <1>10 DEF r, t

\* Every relation has a mirror.
LEMMA HasMirror ==
    ASSUME NEW d, Whole(d), NEW r \in d.relation
    PROVE  \E m \in Live(d) : d.mirror[m].triple = r
    BY DEF Whole, Mirrored

\* An entity is read by its name.
LEMMA EntityViewed ==
    ASSUME NEW d, Whole(d)
    PROVE  /\ DOMAIN EntityView(d) = NamesOf(d)
           /\ \A i \in DOMAIN d.entity : d.entity[i].name \in NamesOf(d) /\ EntityView(d)[d.entity[i].name] = EntityRead(d, i)
<1>1. ASSUME NEW i \in DOMAIN d.entity
      PROVE  d.entity[i].name \in NamesOf(d) /\ EntityView(d)[d.entity[i].name] = EntityRead(d, i)
  <2>1. IdOf(d, d.entity[i].name) = i
    BY NameIsId DEF Whole
  <2>2. d.entity[i].name \in NamesOf(d)
    BY DEF NamesOf
  <2>3. read_entity(d, d.entity[i].name) = EntityRead(d, i)
    BY <2>1 DEF read_entity, EntityRead, TextsOf
  <2> QED BY <2>2, <2>3 DEF EntityView
<1> QED BY <1>1 DEF EntityView

\* So is a relation.
LEMMA RelationViewed ==
    ASSUME NEW d, Whole(d)
    PROVE  /\ DOMAIN RelationView(d) = Rels(d)
           /\ \A m \in Live(d) : /\ Named(d, d.mirror[m].triple) \in Rels(d)
                                 /\ RelationView(d)[Named(d, d.mirror[m].triple)] = DetailOf(d, m)
           /\ \A t \in Rels(d) : t = <<t[1], t[2], t[3]>> /\ t[1] \in NamesOf(d) /\ t[2] \in NamesOf(d)
<1>1. ASSUME NEW m \in Live(d)
      PROVE  /\ Named(d, d.mirror[m].triple) \in Rels(d)
             /\ RelationView(d)[Named(d, d.mirror[m].triple)] = DetailOf(d, m)
  <2>1. d.mirror[m].triple \in d.relation /\ mirror_detail(d, Named(d, d.mirror[m].triple)) = DetailOf(d, m)
    BY MirrorRead
  <2>2. Named(d, d.mirror[m].triple) \in Rels(d)
    BY <2>1 DEF Rels
  <2> QED BY <2>1, <2>2 DEF RelationView
<1>2. ASSUME NEW t \in Rels(d) PROVE t = <<t[1], t[2], t[3]>> /\ t[1] \in NamesOf(d) /\ t[2] \in NamesOf(d)
  <2>1. PICK r \in d.relation : t = Named(d, r)
    BY DEF Rels
  <2>2. t = <<d.entity[r[1]].name, d.entity[r[2]].name, r[3]>> /\ r[1] \in DOMAIN d.entity /\ r[2] \in DOMAIN d.entity
    BY <2>1, NamedOnce
  <2> QED BY <2>2 DEF NamesOf
<1> QED BY <1>1, <1>2 DEF RelationView

\* A capture is a window on the two views.
LEMMA CaptureIsWindow ==
    ASSUME NEW d, Whole(d), NEW N
    PROVE  capture(d, N) = Window(EntityView(d), RelationView(d), N)
<1> DEFINE rels == UNION {relations_for(d, n) : n \in N}
           E == EntityView(d)
           R == RelationView(d)
<1>1. DOMAIN E = NamesOf(d) /\ DOMAIN R = Rels(d)
    BY EntityViewed, RelationViewed
<1>2. {m \in N : Exists(d, m)} = NamesOf(d) \cap N
    BY DEF NamesOf, Exists
<1>3. [n \in {m \in N : Exists(d, m)} |-> read_entity(d, n)] = [n \in DOMAIN E \cap N |-> E[n]]
    BY <1>1, <1>2 DEF EntityView
<1>4. rels = Near(Rels(d), N)
  <2>1. \A n, t : t \in relations_for(d, n) <=> \E r \in d.relation : t = Named(d, r) /\ n \in {d.entity[r[1]].name, d.entity[r[2]].name}
    BY DEF relations_for
  <2>2. \A r : Named(d, r)[1] = d.entity[r[1]].name /\ Named(d, r)[2] = d.entity[r[2]].name
    BY DEF Named
  <2>3. \A t : t \in rels <=> \E n \in N : t \in relations_for(d, n)
    OBVIOUS
  <2> HIDE DEF rels
  <2>4. \A t : t \in rels <=> t \in Near(Rels(d), N)
    BY <2>1, <2>2, <2>3 DEF Near, Rels
  <2> QED BY <2>4
<1>5. \A t \in Rels(d) : LiveMirrors(d, t) # {}
  <2>1. ASSUME NEW t \in Rels(d) PROVE LiveMirrors(d, t) # {}
    <3>1. PICK r \in d.relation : t = Named(d, r)
        BY DEF Rels
    <3>2. PICK m \in Live(d) : d.mirror[m].triple = r
        BY HasMirror
    <3>3. LiveMirrors(d, Named(d, d.mirror[m].triple)) = {m}
        BY MirrorRead
    <3> QED BY <3>1, <3>2, <3>3
  <2> QED BY <2>1
<1> HIDE DEF rels, E, R
<1>6. {u \in rels : LiveMirrors(d, u) # {}} = Near(DOMAIN R, N)
    BY <1>1, <1>4, <1>5 DEF Near
<1>7. \A t \in Near(DOMAIN R, N) : mirror_detail(d, t) = R[t]
    BY <1>1 DEF R, RelationView, Near
<1>8. [t \in {u \in rels : LiveMirrors(d, u) # {}} |-> mirror_detail(d, t)] = [t \in Near(DOMAIN R, N) |-> R[t]]
    BY <1>6, <1>7
<1>9. capture(d, N) = [entities |-> [n \in {m \in N : Exists(d, m)} |-> read_entity(d, n)], relations |-> rels,
                       details |-> [t \in {u \in rels : LiveMirrors(d, u) # {}} |-> mirror_detail(d, t)]]
    BY Zenon DEF capture, rels
<1>10. capture(d, N) = [entities |-> [n \in DOMAIN E \cap N |-> E[n]], relations |-> Near(DOMAIN R, N),
                        details |-> [t \in Near(DOMAIN R, N) |-> R[t]]]
    BY <1>1, <1>3, <1>4, <1>8, <1>9, Zenon
<1> QED BY <1>10, Zenon DEF Window, E, R

\* What a request leaves alone reads the same: entities outside N, relations
\* between them, and the details of every relation that starts at one.
Alike(E, R, E2, R2, N) ==
    /\ \A n : n \notin N => (n \in DOMAIN E <=> n \in DOMAIN E2) /\ (n \in DOMAIN E => E2[n] = E[n])
    /\ \A t : t[1] \notin N /\ t[2] \notin N => (t \in DOMAIN R <=> t \in DOMAIN R2)
    /\ \A t \in DOMAIN R \cap DOMAIN R2 : t[1] \notin N => R2[t] = R[t]

\* Views of a graph: functions, the ends of a relation are entities, and no
\* entity reads as none.
Views(E, R) ==
    /\ E = [n \in DOMAIN E |-> E[n]] /\ R = [t \in DOMAIN R |-> R[t]]
    /\ \A n \in DOMAIN E : E[n] # None
    /\ \A t \in DOMAIN R : t = <<t[1], t[2], t[3]>> /\ t[1] \in DOMAIN E /\ t[2] \in DOMAIN E

\* The views of a store are such views.
LEMMA StoreViews ==
    ASSUME NEW d, Whole(d)
    PROVE  Views(EntityView(d), RelationView(d))
<1>1. EntityView(d) = [n \in DOMAIN EntityView(d) |-> EntityView(d)[n]]
    BY DEF EntityView
<1>2. RelationView(d) = [t \in DOMAIN RelationView(d) |-> RelationView(d)[t]]
    BY DEF RelationView
<1>3. ASSUME NEW n \in NamesOf(d) PROVE EntityView(d)[n] # None
  <2>1. PICK i \in DOMAIN d.entity : n = d.entity[i].name
    BY DEF NamesOf
  <2>2. EntityView(d)[n] = EntityRead(d, i)
    BY <2>1, EntityViewed
  <2>3. EntityRead(d, i).id = i /\ None.id = 0
    BY DEF EntityRead, None
  <2>4. d.seq.entity \in Nat /\ DOMAIN d.entity \subseteq 1..d.seq.entity
    BY Fields DEF Whole, Sound, EntitiesOK, IsTable
  <2>5. i # 0
    BY <2>4
  <2> QED BY <2>2, <2>3, <2>5
<1>4. DOMAIN EntityView(d) = NamesOf(d) /\ DOMAIN RelationView(d) = Rels(d)
    BY EntityViewed, RelationViewed
<1>5. \A t \in Rels(d) : t = <<t[1], t[2], t[3]>> /\ t[1] \in NamesOf(d) /\ t[2] \in NamesOf(d)
    BY RelationViewed
<1> QED BY <1>1, <1>2, <1>3, <1>4, <1>5 DEF Views

\* The attributes of an owner outside N are left alone.
LEMMA AttributesAlike ==
    ASSUME NEW d, NEW e, NEW N, SameKeysOut(d, e, N), NEW kind, NEW owner,
           OutOwner(d, kind, owner, N), OutOwner(e, kind, owner, N)
    PROVE  attributes_for(e, kind, owner) = attributes_for(d, kind, owner)
<1>1. ASSUME NEW k
      PROVE  /\ <<kind, owner, k>> \in DOMAIN d.attribute <=> <<kind, owner, k>> \in DOMAIN e.attribute
             /\ <<kind, owner, k>> \in DOMAIN d.attribute => e.attribute[<<kind, owner, k>>] = d.attribute[<<kind, owner, k>>]
  <2>1. <<kind, owner, k>>[1] = kind /\ <<kind, owner, k>>[2] = owner
    OBVIOUS
  <2>2. /\ OutKey(d, <<kind, owner, k>>, N) <=> OutKey(e, <<kind, owner, k>>, N)
        /\ OutKey(d, <<kind, owner, k>>, N) => e.attribute[<<kind, owner, k>>] = d.attribute[<<kind, owner, k>>]
    BY DEF SameKeysOut
  <2> QED BY <2>1, <2>2 DEF OutKey
<1> DEFINE K(a) == {k \in AttrKeys : <<kind, owner, k>> \in DOMAIN a.attribute}
<1>2. K(e) = K(d)
    BY <1>1
<1>3. \A k \in K(d) : e.attribute[<<kind, owner, k>>] = d.attribute[<<kind, owner, k>>]
    BY <1>1
<1>4. \A a : attributes_for(a, kind, owner) = [k \in K(a) |-> a.attribute[<<kind, owner, k>>]]
    BY DEF attributes_for
<1> HIDE DEF K
<1> QED BY <1>2, <1>3, <1>4

\* An entity outside N reads the same.
LEMMA EntityAlike ==
    ASSUME NEW d, Whole(d), NEW e, Whole(e), NEW N, Confined(d, e, N), NEW i, Out(e, i, N)
    PROVE  EntityRead(e, i) = EntityRead(d, i) /\ i \in DOMAIN d.entity /\ d.entity[i].name = e.entity[i].name
<1>1. /\ i \in DOMAIN d.entity /\ e.entity[i] = d.entity[i]
      /\ ObservationsOf(e, i) = ObservationsOf(d, i)
    BY CountsOut
<1>2. Out(d, i, N)
    BY DEF Confined, SameEntitiesOut
<1>3. \A o \in ObservationsOf(d, i) : e.observation[o] = d.observation[o]
    BY <1>2 DEF Confined, SameObsOut, OutObs, ObservationsOf
<1>4. TextsOf(e, i) = TextsOf(d, i)
    BY <1>1, <1>3 DEF TextsOf
<1>5. attributes_for(e, "entity", i) = attributes_for(d, "entity", i)
    BY <1>2, AttributesAlike DEF Confined, OutOwner
<1> QED BY <1>1, <1>4, <1>5 DEF EntityRead

\* A mirror whose relation starts outside N reads the same.
LEMMA DetailAlike ==
    ASSUME NEW d, NEW e, NEW N, Confined(d, e, N), NEW m, Far(d, m, N)
    PROVE  Far(e, m, N) /\ e.mirror[m] = d.mirror[m] /\ DetailOf(e, m) = DetailOf(d, m)
<1>1. Far(e, m, N) /\ e.mirror[m] = d.mirror[m]
    BY DEF Confined, SameMirrorsOut
<1>2. \A o : (OutRelObs(d, o, N) <=> OutRelObs(e, o, N)) /\ (OutRelObs(d, o, N) => e.relobs[o] = d.relobs[o])
    BY DEF Confined, SameRelObsOut
<1> DEFINE O(a) == {p \in DOMAIN a.relobs : a.relobs[p].mirror = m}
<1>3. O(e) = O(d) /\ \A o \in O(d) : e.relobs[o] = d.relobs[o]
    BY <1>1, <1>2 DEF OutRelObs
<1>4. attributes_for(e, "relation", m) = attributes_for(d, "relation", m)
    BY <1>1, AttributesAlike DEF Confined, OutOwner
<1>5. \A a : DetailOf(a, m) = [observations |-> {<<o, a.relobs[o].body>> : o \in O(a)},
                              attributes |-> attributes_for(a, "relation", m)]
    BY DEF DetailOf
<1> HIDE DEF O
<1>6. {<<o, e.relobs[o].body>> : o \in O(e)} = {<<o, d.relobs[o].body>> : o \in O(d)}
    BY <1>3
<1>7. DetailOf(e, m) = DetailOf(d, m)
    BY <1>4, <1>5, <1>6
<1> QED BY <1>1, <1>7

\* Whatever a request other than a rename does, the rest of the graph reads the same.
LEMMA RestAlike ==
    ASSUME NEW d, Whole(d), NEW e, Whole(e), NEW N, Confined(d, e, N), RowsKept(d, e)
    PROVE  Alike(EntityView(d), RelationView(d), EntityView(e), RelationView(e), N)
<1>0. /\ DOMAIN EntityView(d) = NamesOf(d) /\ DOMAIN EntityView(e) = NamesOf(e)
      /\ DOMAIN RelationView(d) = Rels(d) /\ DOMAIN RelationView(e) = Rels(e)
    BY EntityViewed, RelationViewed
<1>1. \A i : Out(d, i, N) <=> Out(e, i, N)
    BY DEF Confined, SameEntitiesOut
<1>2. ASSUME NEW n, n \notin N
      PROVE  (n \in NamesOf(d) <=> n \in NamesOf(e)) /\ (n \in NamesOf(d) => EntityView(e)[n] = EntityView(d)[n])
  <2>1. ASSUME NEW i, i \in DOMAIN d.entity \/ i \in DOMAIN e.entity,
               i \in DOMAIN d.entity => d.entity[i].name = n, i \in DOMAIN e.entity => e.entity[i].name = n
        PROVE  /\ i \in DOMAIN d.entity /\ i \in DOMAIN e.entity /\ n \in NamesOf(d) /\ n \in NamesOf(e)
               /\ EntityView(e)[n] = EntityView(d)[n]
    <3>1. Out(d, i, N) /\ Out(e, i, N)
        BY <1>1, <1>2, <2>1 DEF Out
    <3>2. i \in DOMAIN d.entity /\ i \in DOMAIN e.entity
        BY <3>1 DEF Out
    <3>3. EntityRead(e, i) = EntityRead(d, i)
        BY <3>1, EntityAlike
    <3> QED BY <2>1, <3>2, <3>3, EntityViewed
  <2>2. ASSUME NEW i \in DOMAIN d.entity, d.entity[i].name = n PROVE i \in DOMAIN e.entity /\ e.entity[i].name = n
    <3>1. Out(e, i, N)
        BY <1>1, <1>2, <2>2 DEF Out
    <3> QED BY <2>2, <3>1, EntityAlike DEF Out
  <2>3. ASSUME NEW i \in DOMAIN e.entity, e.entity[i].name = n PROVE i \in DOMAIN d.entity /\ d.entity[i].name = n
    <3>1. Out(e, i, N)
        BY <1>2, <2>3 DEF Out
    <3> QED BY <2>3, <3>1, EntityAlike
  <2>4. (n \in NamesOf(d) <=> \E i \in DOMAIN d.entity : d.entity[i].name = n)
        /\ (n \in NamesOf(e) <=> \E i \in DOMAIN e.entity : e.entity[i].name = n)
    BY DEF NamesOf
  <2> QED BY <2>1, <2>2, <2>3, <2>4
<1>3. \A a : Whole(a) => \A r \in a.relation : /\ r[1] \in DOMAIN a.entity /\ r[2] \in DOMAIN a.entity
                                               /\ Named(a, r) = <<a.entity[r[1]].name, a.entity[r[2]].name, r[3]>>
    BY NamedOnce
<1>4. \A r : OutRel(d, r, N) <=> OutRel(e, r, N)
    BY DEF Confined, SameRelsOut
<1>5. ASSUME NEW i, Out(d, i, N) \/ Out(e, i, N)
      PROVE  i \in DOMAIN d.entity /\ i \in DOMAIN e.entity /\ e.entity[i].name = d.entity[i].name
    BY <1>1, <1>5 DEF Out, Confined, SameEntitiesOut
<1>6. ASSUME NEW t, t[1] \notin N, t[2] \notin N PROVE t \in Rels(d) <=> t \in Rels(e)
  <2>1. ASSUME NEW r \in d.relation, t = Named(d, r) PROVE r \in e.relation /\ t = Named(e, r)
    <3>1. Out(d, r[1], N) /\ Out(d, r[2], N)
        BY <1>3, <1>6, <2>1 DEF Out
    <3>2. r \in e.relation
        BY <1>4, <3>1 DEF OutRel
    <3> QED BY <1>3, <1>5, <2>1, <3>1, <3>2
  <2>2. ASSUME NEW r \in e.relation, t = Named(e, r) PROVE r \in d.relation /\ t = Named(d, r)
    <3>1. Out(e, r[1], N) /\ Out(e, r[2], N)
        BY <1>3, <1>6, <2>2 DEF Out
    <3>2. r \in d.relation
        BY <1>4, <3>1 DEF OutRel
    <3> QED BY <1>3, <1>5, <2>2, <3>1, <3>2
  <2> QED BY <2>1, <2>2 DEF Rels
<1>7. ASSUME NEW t \in Rels(d), t \in Rels(e), t[1] \notin N PROVE RelationView(e)[t] = RelationView(d)[t]
  <2>1. PICK r \in d.relation : t = Named(d, r)
    BY DEF Rels
  <2>2. PICK s \in e.relation : t = Named(e, s)
    BY <1>7 DEF Rels
  <2>3. /\ t = <<d.entity[r[1]].name, d.entity[r[2]].name, r[3]>> /\ r[1] \in DOMAIN d.entity /\ r[2] \in DOMAIN d.entity
        /\ t = <<e.entity[s[1]].name, e.entity[s[2]].name, s[3]>> /\ s[1] \in DOMAIN e.entity /\ s[2] \in DOMAIN e.entity
    BY <1>3, <2>1, <2>2
  <2>4. Out(d, r[1], N)
    BY <1>7, <2>3 DEF Out
  <2>5. r \in e.relation
    BY <1>4, <2>4 DEF OutRel
  <2>6. e.entity[r[1]].name = d.entity[r[1]].name /\ r[1] \in DOMAIN e.entity
    BY <1>5, <2>4
  <2>7. e.entity[r[2]].name = d.entity[r[2]].name
    <3>1. d.seq.entity \in Nat /\ DOMAIN d.entity \subseteq 1..d.seq.entity
        BY Fields DEF Whole, Sound, EntitiesOK, IsTable
    <3>2. r[2] <= d.seq.entity /\ r[2] \in DOMAIN e.entity
        BY <1>3, <2>3, <2>5, <3>1
    <3> QED BY <3>2 DEF RowsKept
  <2>8. Named(e, r) = t
    BY <1>3, <2>3, <2>5, <2>6, <2>7
  <2>9. PICK m \in Live(d) : d.mirror[m].triple = r
    BY HasMirror
  <2>10. Far(d, m, N)
    BY <2>4, <2>9 DEF Far
  <2>11. m \in Live(e) /\ e.mirror[m] = d.mirror[m] /\ DetailOf(e, m) = DetailOf(d, m)
    BY <2>10, DetailAlike DEF Far
  <2>12. RelationView(d)[Named(d, d.mirror[m].triple)] = DetailOf(d, m)
    BY RelationViewed
  <2>13. RelationView(e)[Named(e, e.mirror[m].triple)] = DetailOf(e, m)
    BY <2>11, RelationViewed
  <2> QED BY <2>1, <2>8, <2>9, <2>11, <2>12, <2>13
<1> QED BY <1>0, <1>2, <1>6, <1>7 DEF Alike

-----------------------------------------------------------------------------
(* A subscriber follows the graph by the changes alone *)

\* What Consume takes from a set of changes.
OwnBy(C) == {c \in C : c.kind = "entity"}
RenamesBy(C) == {c \in C : c.kind = "rename"}
GoneBy(C) == {c.name : c \in {x \in OwnBy(C) : x.after = None}} \cup {c.old : c \in RenamesBy(C)}
SetBy(C) == [n \in {c.name : c \in {x \in C : x.after # None}} |-> (CHOOSE c \in C : c.name = n /\ c.after # None).after]
RemovedBy(C) == UNION {{x[1] : x \in c.removed} : c \in OwnBy(C)}
AddedBy(C) == (UNION {c.added : c \in OwnBy(C)}) \cup {<<c.triple, c.detail>> : c \in {x \in C : x.kind = "relation"}}
PutBy(C) == [t \in {x[1] : x \in AddedBy(C)} |-> (CHOOSE x \in AddedBy(C) : x[1] = t)[2]]
NewBy(C, n) == IF \E c \in RenamesBy(C) : c.old = n THEN (CHOOSE c \in RenamesBy(C) : c.old = n).name ELSE n
MovedBy(C, u) == <<NewBy(C, u[1]), NewBy(C, u[2]), u[3]>>
CarriedBy(C, K) == [t \in {MovedBy(C, u) : u \in DOMAIN K} |-> K[CHOOSE u \in DOMAIN K : t = MovedBy(C, u)]]

LEMMA ConsumeParts ==
    ASSUME NEW E, NEW R, NEW C
    PROVE  Consume([entities |-> E, relations |-> R], C) =
               [entities |-> Over(SetBy(C), Without(E, GoneBy(C))),
                relations |-> CarriedBy(C, Over(PutBy(C), Without(R, RemovedBy(C))))]
<1> DEFINE r == [entities |-> E, relations |-> R]
<1>1. r.entities = E /\ r.relations = R
    OBVIOUS
<1>2. Consume(r, C) = [entities |-> Over(SetBy(C), Without(r.entities, GoneBy(C))),
                       relations |-> CarriedBy(C, Over(PutBy(C), Without(r.relations, RemovedBy(C))))]
    BY Zenon DEF Consume, OwnBy, RenamesBy, GoneBy, SetBy, RemovedBy, AddedBy, PutBy, NewBy, MovedBy, CarriedBy
<1> QED BY <1>1, <1>2

\* The changes of a set that leave an entity are of the names of S, as f has them.
Leaves(C, S, f) ==
    /\ \A c \in C : c.after # None => c.name \in S /\ c.after = f[c.name]
    /\ \A n \in S : \E c \in C : c.name = n /\ c.after # None

LEMMA SetReads ==
    ASSUME NEW C, NEW S, NEW f, Leaves(C, S, f)
    PROVE  SetBy(C) = [n \in S |-> f[n]]
<1>0. /\ \A c \in C : c.after # None => c.name \in S /\ c.after = f[c.name]
      /\ \A n \in S : \E c \in C : c.name = n /\ c.after # None
    BY DEF Leaves
<1>1. {c.name : c \in {x \in C : x.after # None}} = S
    BY <1>0
<1>2. ASSUME NEW n \in S PROVE (CHOOSE c \in C : c.name = n /\ c.after # None).after = f[n]
  <2>1. \E c \in C : c.name = n /\ c.after # None
    BY <1>0
  <2>2. PICK k \in C : k = (CHOOSE c \in C : c.name = n /\ c.after # None) /\ k.name = n /\ k.after # None
    BY <2>1, Zenon
  <2> QED BY <1>0, <2>2
<1> QED BY <1>1, <1>2 DEF SetBy

LEMMA PutReads ==
    ASSUME NEW C, NEW P, NEW f, AddedBy(C) = {<<t, f[t]>> : t \in P}
    PROVE  PutBy(C) = [t \in P |-> f[t]]
<1> DEFINE D == AddedBy(C)
<1>0. \A x : x \in D <=> \E t \in P : x = <<t, f[t]>>
    OBVIOUS
<1> HIDE DEF D
<1>5. \A x \in D : x[1] \in P /\ x[2] = f[x[1]]
    BY <1>0
<1>6. \A t \in P : <<t, f[t]>> \in D /\ <<t, f[t]>>[1] = t
    BY <1>0
<1>1. {x[1] : x \in D} = P
    BY <1>5, <1>6
<1>2. ASSUME NEW t \in P PROVE (CHOOSE x \in D : x[1] = t)[2] = f[t]
  <2>1. <<t, f[t]>> \in D /\ <<t, f[t]>>[1] = t
    BY <1>6
  <2>2. PICK k \in D : k = (CHOOSE x \in D : x[1] = t) /\ k[1] = t
    BY <2>1, Zenon
  <2> QED BY <1>5, <2>2
<1>3. PutBy(C) = [t \in {x[1] : x \in D} |-> (CHOOSE x \in D : x[1] = t)[2]]
    BY DEF PutBy, D
<1> QED BY <1>1, <1>2, <1>3

\* Without a rename relations keep their names.
LEMMA NothingCarried ==
    ASSUME NEW C, RenamesBy(C) = {}, NEW K, K = [t \in DOMAIN K |-> K[t]],
           \A t \in DOMAIN K : t = <<t[1], t[2], t[3]>>
    PROVE  CarriedBy(C, K) = K
<1>1. \A n : NewBy(C, n) = n
    BY DEF NewBy
<1>2. \A t \in DOMAIN K : MovedBy(C, t) = t
    BY <1>1 DEF MovedBy
<1>3. {MovedBy(C, u) : u \in DOMAIN K} = DOMAIN K
    BY <1>2
<1>4. ASSUME NEW t \in DOMAIN K PROVE (CHOOSE u \in DOMAIN K : t = MovedBy(C, u)) = t
    BY <1>2
<1> QED BY <1>3, <1>4 DEF CarriedBy

\* The names and the relations that a difference tells of.
Changed(B, A) ==
    {m \in DOMAIN B.entities \cup DOMAIN A.entities :
        Row(B, m) # Row(A, m) \/ At(A.relations, m) # At(B.relations, m)}
Reworded(B, A) ==
    {u \in DOMAIN A.details \cap DOMAIN B.details : A.details[u] # B.details[u] /\ u[1] \in DOMAIN A.entities}
RelationChange(A, t) ==
    [kind |-> "relation", triple |-> t, name |-> t[1], before |-> None, after |-> A.entities[t[1]], detail |-> A.details[t]]

\* What Consume takes from a difference.
Tells(B, A, C, M, W) ==
    /\ RenamesBy(C) = {}
    /\ GoneBy(C) = {n \in M : n \notin DOMAIN A.entities}
    /\ SetBy(C) = [n \in {m \in M : m \in DOMAIN A.entities} \cup {t[1] : t \in W} |-> A.entities[n]]
    /\ RemovedBy(C) = {t \in B.relations \ A.relations : t[1] \in M \/ t[2] \in M}
    /\ AddedBy(C) = {<<t, DetailIn(A, t)>> : t \in {u \in A.relations \ B.relations : u[1] \in M \/ u[2] \in M} \cup W}

LEMMA DifferenceParts ==
    ASSUME NEW B, NEW A, \A n \in DOMAIN A.entities : A.entities[n] # None
    PROVE  Tells(B, A, effective_changes(B, A), Changed(B, A), Reworded(B, A))
<1> DEFINE C == effective_changes(B, A)
           M == Changed(B, A)
           W == Reworded(B, A)
<1>1. C = {EntityChange(B, A, n) : n \in M} \cup {RelationChange(A, t) : t \in W}
    BY Zenon DEF effective_changes, RelationChanges, Changed, Reworded, RelationChange
<1>2. \A n : /\ EntityChange(B, A, n).kind = "entity" /\ EntityChange(B, A, n).name = n
             /\ EntityChange(B, A, n).after = Row(A, n)
             /\ EntityChange(B, A, n).added = {<<t, DetailIn(A, t)>> : t \in At(A.relations \ B.relations, n)}
             /\ EntityChange(B, A, n).removed = {<<t, DetailIn(B, t)>> : t \in At(B.relations \ A.relations, n)}
    BY DEF EntityChange
<1>3. \A t : /\ RelationChange(A, t).kind = "relation" /\ RelationChange(A, t).name = t[1]
             /\ RelationChange(A, t).triple = t /\ RelationChange(A, t).detail = A.details[t]
             /\ RelationChange(A, t).after = A.entities[t[1]]
    BY DEF RelationChange
<1>4. \A n : Row(A, n) = None <=> n \notin DOMAIN A.entities
    BY DEF Row
<1>5. \A n \in DOMAIN A.entities : Row(A, n) = A.entities[n]
    BY DEF Row
<1>6. \A t \in W : t[1] \in DOMAIN A.entities /\ DetailIn(A, t) = A.details[t]
    BY DEF Reworded, DetailIn
<1> HIDE DEF C, M, W
<1>7. RenamesBy(C) = {}
    BY <1>1, <1>2, <1>3 DEF RenamesBy
<1>8. OwnBy(C) = {EntityChange(B, A, n) : n \in M}
    BY <1>1, <1>2, <1>3 DEF OwnBy
<1>9. {x \in C : x.kind = "relation"} = {RelationChange(A, t) : t \in W}
    BY <1>1, <1>2, <1>3
<1>10. GoneBy(C) = {n \in M : n \notin DOMAIN A.entities}
    BY <1>2, <1>4, <1>7, <1>8 DEF GoneBy
<1>11. SetBy(C) = [n \in {m \in M : m \in DOMAIN A.entities} \cup {t[1] : t \in W} |-> A.entities[n]]
  <2> DEFINE S == {m \in M : m \in DOMAIN A.entities} \cup {t[1] : t \in W}
  <2>1. ASSUME NEW c \in C, c.after # None PROVE c.name \in S /\ c.after = A.entities[c.name]
    <3>1. CASE \E n \in M : c = EntityChange(B, A, n)
        BY <1>2, <1>4, <1>5, <2>1, <3>1
    <3>2. CASE \E t \in W : c = RelationChange(A, t)
        BY <1>3, <3>2
    <3> QED BY <1>1, <3>1, <3>2
  <2>2. ASSUME NEW n \in S PROVE \E c \in C : c.name = n /\ c.after # None
    <3>1. CASE n \in M /\ n \in DOMAIN A.entities
      <4>1. EntityChange(B, A, n) \in C
        BY <1>1, <3>1
      <4> QED BY <1>2, <1>4, <3>1, <4>1
    <3>2. CASE \E t \in W : n = t[1]
      <4>1. PICK t \in W : n = t[1]
        BY <3>2
      <4>2. RelationChange(A, t) \in C
        BY <1>1
      <4> QED BY <1>3, <1>6, <4>1, <4>2
    <3> QED BY <3>1, <3>2
  <2> HIDE DEF S
  <2>3. SetBy(C) = [n \in S |-> A.entities[n]]
    <3>1. Leaves(C, S, A.entities)
        BY <2>1, <2>2 DEF Leaves
    <3> QED BY ONLY <3>1, SetReads
  <2> QED BY <2>3 DEF S
<1>12. RemovedBy(C) = {t \in B.relations \ A.relations : t[1] \in M \/ t[2] \in M}
  <2>1. \A t : t \in RemovedBy(C) <=> \E n \in M : \E x \in EntityChange(B, A, n).removed : t = x[1]
    BY <1>8 DEF RemovedBy
  <2>2. ASSUME NEW n, NEW t
        PROVE  (\E x \in EntityChange(B, A, n).removed : t = x[1]) <=> t \in At(B.relations \ A.relations, n)
    <3> DEFINE Z == At(B.relations \ A.relations, n)
               X == EntityChange(B, A, n).removed
    <3>1. X = {<<u, DetailIn(B, u)>> : u \in Z}
        BY <1>2
    <3> HIDE DEF X, Z
    <3>2. \A x : x \in X <=> \E u \in Z : x = <<u, DetailIn(B, u)>>
        BY <3>1
    <3>3. \A u : <<u, DetailIn(B, u)>>[1] = u
        OBVIOUS
    <3>4. ASSUME NEW x \in X, t = x[1] PROVE t \in Z
        BY <3>2, <3>4
    <3>5. ASSUME t \in Z PROVE \E x \in X : t = x[1]
        BY <3>2, <3>3, <3>5
    <3> QED BY <3>4, <3>5 DEF X, Z
  <2>3. \A t : t \in RemovedBy(C) <=> t \in B.relations \ A.relations /\ (t[1] \in M \/ t[2] \in M)
    <3>1. \A t : t \in RemovedBy(C) <=> \E n \in M : t \in At(B.relations \ A.relations, n)
      <4> DEFINE TakenAt(n, t) == \E x \in EntityChange(B, A, n).removed : t = x[1]
      <4>1. \A t : t \in RemovedBy(C) <=> \E n \in M : TakenAt(n, t)
        BY <2>1
      <4>2. \A n, t : TakenAt(n, t) <=> t \in At(B.relations \ A.relations, n)
        BY <2>2
      <4> HIDE DEF TakenAt
      <4> QED BY <4>1, <4>2
    <3> QED BY <3>1 DEF At
  <2> QED BY <2>3
<1>13. AddedBy(C) = {<<t, DetailIn(A, t)>> : t \in {u \in A.relations \ B.relations : u[1] \in M \/ u[2] \in M} \cup W}
  <2>1. \A x : x \in UNION {c.added : c \in OwnBy(C)} <=>
                  \E t \in {u \in A.relations \ B.relations : u[1] \in M \/ u[2] \in M} : x = <<t, DetailIn(A, t)>>
    BY <1>2, <1>8 DEF At
  <2>2. \A x : x \in {<<c.triple, c.detail>> : c \in {y \in C : y.kind = "relation"}} <=> \E t \in W : x = <<t, DetailIn(A, t)>>
    <3>1. \A t \in W : RelationChange(A, t).triple = t /\ RelationChange(A, t).detail = DetailIn(A, t)
        BY <1>3, <1>6
    <3>2. \A x : x \in {<<c.triple, c.detail>> : c \in {RelationChange(A, t) : t \in W}} <=>
                    \E t \in W : x = <<RelationChange(A, t).triple, RelationChange(A, t).detail>>
        OBVIOUS
    <3> QED BY <1>9, <3>1, <3>2
  <2>3. \A x : x \in AddedBy(C) <=> \/ x \in UNION {c.added : c \in OwnBy(C)}
                                   \/ x \in {<<c.triple, c.detail>> : c \in {y \in C : y.kind = "relation"}}
    BY Zenon DEF AddedBy
  <2>4. \A x : x \in AddedBy(C) <=>
                  x \in {<<t, DetailIn(A, t)>> : t \in {u \in A.relations \ B.relations : u[1] \in M \/ u[2] \in M} \cup W}
    BY ONLY <2>1, <2>2, <2>3
  <2> QED BY <2>4
<1> QED BY <1>7, <1>10, <1>11, <1>12, <1>13, Zenon DEF Tells, C, M, W

\* Any request but a rename: a copy of the views before becomes one of the views after.
LEMMA DifferenceFollows ==
    ASSUME NEW E, NEW R, Views(E, R), NEW E2, NEW R2, Views(E2, R2), NEW N, Alike(E, R, E2, R2, N)
    PROVE  Consume([entities |-> E, relations |-> R], effective_changes(Window(E, R, N), Window(E2, R2, N)))
               = [entities |-> E2, relations |-> R2]
<1> DEFINE B == Window(E, R, N)
           A == Window(E2, R2, N)
           C == effective_changes(B, A)
           M == Changed(B, A)
           W == Reworded(B, A)
           S == {m \in M : m \in DOMAIN A.entities} \cup {t[1] : t \in W}
           P == {u \in A.relations \ B.relations : u[1] \in M \/ u[2] \in M} \cup W
           K == Over(PutBy(C), Without(R, RemovedBy(C)))
<1>1. /\ DOMAIN B.entities = DOMAIN E \cap N /\ \A n \in DOMAIN E \cap N : B.entities[n] = E[n]
      /\ B.relations = Near(DOMAIN R, N) /\ DOMAIN B.details = Near(DOMAIN R, N)
      /\ \A t \in Near(DOMAIN R, N) : B.details[t] = R[t]
    BY DEF Window
<1>2. /\ DOMAIN A.entities = DOMAIN E2 \cap N /\ \A n \in DOMAIN E2 \cap N : A.entities[n] = E2[n]
      /\ A.relations = Near(DOMAIN R2, N) /\ DOMAIN A.details = Near(DOMAIN R2, N)
      /\ \A t \in Near(DOMAIN R2, N) : A.details[t] = R2[t]
    BY DEF Window
<1>3. /\ \A t \in DOMAIN R : t[1] \in DOMAIN E /\ t[2] \in DOMAIN E
      /\ \A t \in DOMAIN R2 : t = <<t[1], t[2], t[3]>> /\ t[1] \in DOMAIN E2 /\ t[2] \in DOMAIN E2
      /\ \A n \in DOMAIN E : E[n] # None
      /\ \A n \in DOMAIN E2 : E2[n] # None
    BY DEF Views
<1>4. E2 = [n \in DOMAIN E2 |-> E2[n]] /\ R2 = [t \in DOMAIN R2 |-> R2[t]]
    BY DEF Views
<1>5. /\ \A n : n \notin N => (n \in DOMAIN E <=> n \in DOMAIN E2) /\ (n \in DOMAIN E => E2[n] = E[n])
      /\ \A t : t[1] \notin N /\ t[2] \notin N => (t \in DOMAIN R <=> t \in DOMAIN R2)
      /\ \A t \in DOMAIN R \cap DOMAIN R2 : t[1] \notin N => R2[t] = R[t]
    BY DEF Alike
<1>6. \A T, t : t \in Near(T, N) <=> t \in T /\ (t[1] \in N \/ t[2] \in N)
    BY DEF Near
<1>7. /\ \A n : Row(B, n) = IF n \in DOMAIN E \cap N THEN E[n] ELSE None
      /\ \A n : Row(A, n) = IF n \in DOMAIN E2 \cap N THEN E2[n] ELSE None
    BY <1>1, <1>2 DEF Row
<1> HIDE DEF B, A
<1>8. \A n \in DOMAIN A.entities : A.entities[n] # None
    BY <1>2, <1>3
<1>9. /\ RenamesBy(C) = {}
      /\ GoneBy(C) = {n \in M : n \notin DOMAIN A.entities}
      /\ SetBy(C) = [n \in S |-> A.entities[n]]
      /\ RemovedBy(C) = {t \in B.relations \ A.relations : t[1] \in M \/ t[2] \in M}
      /\ AddedBy(C) = {<<t, DetailIn(A, t)>> : t \in P}
  <2>1. Tells(B, A, C, M, W)
    BY <1>8, DifferenceParts
  <2> HIDE DEF C, M, W
  <2> QED BY <2>1, Zenon DEF Tells
<1>10. /\ \A n : n \in M <=> /\ n \in DOMAIN E \cap N \/ n \in DOMAIN E2 \cap N
                             /\ Row(B, n) # Row(A, n) \/ At(A.relations, n) # At(B.relations, n)
       /\ \A t : t \in W <=> /\ t \in Near(DOMAIN R, N) /\ t \in Near(DOMAIN R2, N)
                             /\ R2[t] # R[t] /\ t[1] \in DOMAIN E2 \cap N
    BY <1>1, <1>2 DEF Changed, Reworded
<1>11. \A t : (t \in B.relations \ A.relations \/ t \in A.relations \ B.relations) => t[1] \in M \/ t[2] \in M
  <2>1. ASSUME NEW t, NEW n, n \in {t[1], t[2]}, n \in N,
               \/ t \in Near(DOMAIN R, N) \ Near(DOMAIN R2, N)
               \/ t \in Near(DOMAIN R2, N) \ Near(DOMAIN R, N)
        PROVE  n \in M
    <3>1. n \in DOMAIN E \cap N \/ n \in DOMAIN E2 \cap N
        BY <1>3, <1>6, <2>1
    <3>2. t \in At(A.relations, n) <=> t \in A.relations
        BY <2>1 DEF At
    <3>3. t \in At(B.relations, n) <=> t \in B.relations
        BY <2>1 DEF At
    <3>4. At(A.relations, n) # At(B.relations, n)
        BY <1>1, <1>2, <2>1, <3>2, <3>3
    <3> QED BY <1>10, <3>1, <3>4
  <2> QED BY <1>1, <1>2, <1>6, <2>1
<1> HIDE DEF C, M, W
<1>12. Over(SetBy(C), Without(E, GoneBy(C))) = E2
  <2> DEFINE G == GoneBy(C)
  <2>1. \A n : n \in G <=> n \in DOMAIN E \cap N /\ n \notin DOMAIN E2
    <3>1. ASSUME NEW n, n \in DOMAIN E \cap N, n \notin DOMAIN E2 PROVE n \in M
        BY <1>3, <1>7, <1>10, <3>1
    <3> QED BY <1>2, <1>9, <1>10, <3>1
  <2>2. \A n : n \in S <=> \/ n \in M /\ n \in DOMAIN E2 \cap N
                           \/ \E t \in W : n = t[1]
    BY <1>2
  <2>3. \A n \in S : n \in DOMAIN E2 /\ A.entities[n] = E2[n]
    BY <1>2, <1>10, <2>2
  <2> HIDE DEF G, S
  <2>4. DOMAIN SetBy(C) = S /\ \A n \in S : SetBy(C)[n] = E2[n]
    BY <1>9, <2>3
  <2>5. \A n : n \in S \/ n \in DOMAIN E \ G <=> n \in DOMAIN E2
    <3>1. ASSUME NEW n \in DOMAIN E2, n \notin DOMAIN E PROVE n \in S
      <4>1. n \in N
        BY <1>5, <3>1
      <4>2. Row(B, n) # Row(A, n)
        BY <1>3, <1>7, <3>1, <4>1
      <4> QED BY <1>10, <2>2, <3>1, <4>1, <4>2
    <3> QED BY <1>5, <2>1, <2>3, <3>1
  <2>6. \A n \in DOMAIN E \ G : n \notin S => E[n] = E2[n]
    <3>1. ASSUME NEW n \in DOMAIN E \ G, n \notin S, n \in N PROVE E[n] = E2[n]
      <4>1. n \in DOMAIN E2
        BY <2>1, <3>1
      <4>2. n \notin M
        BY <2>2, <3>1, <4>1
      <4>3. Row(B, n) = Row(A, n)
        BY <1>10, <3>1, <4>2
      <4> QED BY <1>7, <3>1, <4>1, <4>3
    <3> QED BY <1>5, <3>1
  <2>7. DOMAIN SetBy(C) \cup (DOMAIN E \ G) = DOMAIN E2
    BY <2>4, <2>5
  <2>8. Over(SetBy(C), Without(E, G)) =
            [n \in DOMAIN SetBy(C) \cup (DOMAIN E \ G) |-> IF n \in DOMAIN SetBy(C) THEN SetBy(C)[n] ELSE E[n]]
    BY DEF Over, Without
  <2>9. \A n \in DOMAIN E2 : (IF n \in DOMAIN SetBy(C) THEN SetBy(C)[n] ELSE E[n]) = E2[n]
    BY <2>4, <2>5, <2>6
  <2> QED BY <1>4, <2>7, <2>8, <2>9 DEF G
<1>13. K = R2
  <2> DEFINE D == RemovedBy(C)
  <2>1. \A t : t \in D <=> t \in Near(DOMAIN R, N) /\ t \notin Near(DOMAIN R2, N)
    BY <1>1, <1>2, <1>9, <1>11
  <2>2. \A t : t \in P <=> (t \in Near(DOMAIN R2, N) /\ t \notin Near(DOMAIN R, N)) \/ t \in W
    BY <1>1, <1>2, <1>11
  <2>3. \A t \in P : t \in DOMAIN R2 /\ DetailIn(A, t) = R2[t]
    BY <1>2, <1>6, <1>10, <2>2 DEF DetailIn
  <2> HIDE DEF D, P
  <2>4. PutBy(C) = [t \in P |-> R2[t]]
    <3>1. AddedBy(C) = {<<t, R2[t]>> : t \in P}
        BY <1>9, <2>3
    <3> QED BY ONLY <3>1, PutReads
  <2>5. \A t : t \in P \/ t \in DOMAIN R \ D <=> t \in DOMAIN R2
    BY <1>5, <1>6, <2>1, <2>2, <2>3
  <2>6. ASSUME NEW t \in DOMAIN R \ D, t \notin P PROVE R[t] = R2[t]
    <3>0. t \in DOMAIN R2
        BY <2>5
    <3>1. CASE t[1] \in N
      <4>1. t \in Near(DOMAIN R, N) /\ t \in Near(DOMAIN R2, N) /\ t[1] \in DOMAIN E2 \cap N
        BY <1>3, <1>6, <3>0, <3>1
      <4>2. t \notin W
        BY <2>2, <2>6
      <4> QED BY <1>10, <4>1, <4>2
    <3> QED BY <1>5, <3>0, <3>1
  <2>7. DOMAIN PutBy(C) = P /\ \A t \in P : PutBy(C)[t] = R2[t]
    BY <2>4
  <2>8. DOMAIN PutBy(C) \cup (DOMAIN R \ D) = DOMAIN R2
    BY <2>5, <2>7
  <2>9. Over(PutBy(C), Without(R, D)) =
            [t \in DOMAIN PutBy(C) \cup (DOMAIN R \ D) |-> IF t \in DOMAIN PutBy(C) THEN PutBy(C)[t] ELSE R[t]]
    BY DEF Over, Without
  <2>10. \A t \in DOMAIN R2 : (IF t \in DOMAIN PutBy(C) THEN PutBy(C)[t] ELSE R[t]) = R2[t]
    BY <2>5, <2>6, <2>7
  <2> QED BY <1>4, <2>8, <2>9, <2>10 DEF D
<1>14. CarriedBy(C, R2) = R2
  <2>1. RenamesBy(C) = {} /\ R2 = [t \in DOMAIN R2 |-> R2[t]] /\ \A t \in DOMAIN R2 : t = <<t[1], t[2], t[3]>>
    BY <1>3, <1>4, <1>9
  <2> QED BY ONLY <2>1, NothingCarried
<1>15. Consume([entities |-> E, relations |-> R], C) =
           [entities |-> Over(SetBy(C), Without(E, GoneBy(C))), relations |-> CarriedBy(C, K)]
    BY ConsumeParts
<1> HIDE DEF K
<1> QED BY <1>12, <1>13, <1>14, <1>15 DEF C, B, A

\* The relation u with the new name in place of the old.
Fresh(n, old, new) == IF n = old THEN new ELSE n
Redirect(u, old, new) == <<Fresh(u[1], old, new), Fresh(u[2], old, new), u[3]>>

\* Views before and after a rename.
RenamedViews(E, R, E2, R2, old, new) ==
    /\ old \in DOMAIN E /\ new \notin DOMAIN E /\ DOMAIN E2 = (DOMAIN E \ {old}) \cup {new}
    /\ \A n \in DOMAIN E \ {old} : E2[n] = E[n]
    /\ DOMAIN R2 = {Redirect(u, old, new) : u \in DOMAIN R}
    /\ \A u \in DOMAIN R : R2[Redirect(u, old, new)] = R[u]

RenameChange(old, new, was, is) == [kind |-> "rename", name |-> new, old |-> old, before |-> was, after |-> is]

\* A rename: its one event moves the entity and every relation at it.
LEMMA RenameFollows ==
    ASSUME NEW E, NEW R, Views(E, R), NEW E2, NEW R2, Views(E2, R2), NEW old, NEW new,
           RenamedViews(E, R, E2, R2, old, new), NEW was
    PROVE  Consume([entities |-> E, relations |-> R], {RenameChange(old, new, was, E2[new])})
               = [entities |-> E2, relations |-> R2]
<1> DEFINE c == RenameChange(old, new, was, E2[new])
           C == {c}
<1>0. /\ old \in DOMAIN E /\ new \notin DOMAIN E /\ DOMAIN E2 = (DOMAIN E \ {old}) \cup {new}
      /\ \A n \in DOMAIN E \ {old} : E2[n] = E[n]
      /\ DOMAIN R2 = {Redirect(u, old, new) : u \in DOMAIN R}
      /\ \A u \in DOMAIN R : R2[Redirect(u, old, new)] = R[u]
    BY DEF RenamedViews
<1>1. /\ E2 = [n \in DOMAIN E2 |-> E2[n]] /\ R2 = [t \in DOMAIN R2 |-> R2[t]] /\ R = [t \in DOMAIN R |-> R[t]]
      /\ \A n \in DOMAIN E2 : E2[n] # None
    BY DEF Views
<1>2. c.kind = "rename" /\ c.name = new /\ c.old = old /\ c.after = E2[new]
    BY DEF RenameChange
<1>3. E2[new] # None
    BY <1>0, <1>1
<1> HIDE DEF c
<1>4. OwnBy(C) = {} /\ RenamesBy(C) = C
    BY <1>2 DEF OwnBy, RenamesBy
<1>5. GoneBy(C) = {old}
    BY <1>2, <1>4 DEF GoneBy
<1>6. SetBy(C) = [n \in {new} |-> E2[n]]
  <2>1. Leaves(C, {new}, E2)
    BY <1>2, <1>3 DEF Leaves
  <2> HIDE DEF C
  <2> QED BY ONLY <2>1, SetReads
<1>7. RemovedBy(C) = {} /\ AddedBy(C) = {}
    BY <1>2, <1>4 DEF RemovedBy, AddedBy
<1>8. DOMAIN PutBy(C) = {}
    BY <1>7 DEF PutBy
<1>9. \A n : NewBy(C, n) = Fresh(n, old, new)
  <2>1. ASSUME NEW n PROVE NewBy(C, n) = Fresh(n, old, new)
    <3>1. CASE n = old
      <4>1. (CHOOSE x \in C : x.old = n) = c
        BY <1>2, <3>1
      <4> QED BY <1>2, <1>4, <3>1, <4>1 DEF NewBy, Fresh
    <3>2. CASE n # old
        BY <1>2, <1>4, <3>2 DEF NewBy, Fresh
    <3> QED BY <3>1, <3>2
  <2> QED BY <2>1
<1>10. \A u : MovedBy(C, u) = Redirect(u, old, new)
    BY <1>9 DEF MovedBy, Redirect
<1> HIDE DEF C
<1>11. Over(SetBy(C), Without(E, GoneBy(C))) = E2
  <2>1. Over(SetBy(C), Without(E, GoneBy(C))) = [n \in {new} \cup (DOMAIN E \ {old}) |-> IF n \in {new} THEN E2[n] ELSE E[n]]
    BY <1>5, <1>6 DEF Over, Without
  <2>2. {new} \cup (DOMAIN E \ {old}) = DOMAIN E2
    BY <1>0
  <2>3. \A n \in DOMAIN E2 : (IF n \in {new} THEN E2[n] ELSE E[n]) = E2[n]
    BY <1>0
  <2> QED BY <1>1, <2>1, <2>2, <2>3
<1>12. Over(PutBy(C), Without(R, RemovedBy(C))) = R
  <2>1. Over(PutBy(C), Without(R, RemovedBy(C))) =
            [t \in DOMAIN PutBy(C) \cup (DOMAIN R \ {}) |-> IF t \in DOMAIN PutBy(C) THEN PutBy(C)[t] ELSE R[t]]
    BY <1>7 DEF Over, Without
  <2> QED BY <1>1, <1>8, <2>1
<1>13. CarriedBy(C, R) = R2
  <2>1. {MovedBy(C, u) : u \in DOMAIN R} = DOMAIN R2
    BY <1>0, <1>10
  <2>2. ASSUME NEW t \in DOMAIN R2 PROVE R[CHOOSE u \in DOMAIN R : t = MovedBy(C, u)] = R2[t]
    <3>1. \E u \in DOMAIN R : t = MovedBy(C, u)
        BY <2>1
    <3>2. PICK v \in DOMAIN R : v = (CHOOSE u \in DOMAIN R : t = MovedBy(C, u)) /\ t = MovedBy(C, v)
        BY <3>1, Zenon
    <3> QED BY <1>0, <1>10, <3>2
  <2>3. CarriedBy(C, R) = [t \in DOMAIN R2 |-> R[CHOOSE u \in DOMAIN R : t = MovedBy(C, u)]]
    BY <2>1, Zenon DEF CarriedBy
  <2>4. CarriedBy(C, R) = [t \in DOMAIN R2 |-> R2[t]]
    BY <2>2, <2>3
  <2> QED BY <1>1, <2>4
<1>14. Consume([entities |-> E, relations |-> R], C) =
           [entities |-> Over(SetBy(C), Without(E, GoneBy(C))),
            relations |-> CarriedBy(C, Over(PutBy(C), Without(R, RemovedBy(C))))]
    BY ConsumeParts
<1>15. Consume([entities |-> E, relations |-> R], C) = [entities |-> E2, relations |-> R2]
    BY <1>11, <1>12, <1>13, <1>14, Zenon
<1> QED BY <1>15 DEF C, c

\* RenameEntity renames in the views.
LEMMA RenamedViewed ==
    ASSUME NEW d, Whole(d), NEW e, Whole(e), NEW old, NEW new, old # new, Exists(d, old), ~Exists(d, new),
           Renamed(d, e, IdOf(d, old), new)
    PROVE  RenamedViews(EntityView(d), RelationView(d), EntityView(e), RelationView(e), old, new)
<1> DEFINE i == IdOf(d, old)
<1>1. i \in DOMAIN d.entity /\ d.entity[i].name = old
    BY IdOfIs DEF Whole
<1>2. \A j \in DOMAIN d.entity : d.entity[j].name # new
    BY DEF Exists
<1>3. \A j, k \in DOMAIN d.entity : d.entity[j].name = d.entity[k].name => j = k
    BY DEF Whole, Sound, EntitiesOK
<1>4. /\ DOMAIN e.entity = DOMAIN d.entity
      /\ \A j \in DOMAIN d.entity : j # i => e.entity[j] = d.entity[j]
      /\ e.entity[i].name = new /\ e.entity[i].type = d.entity[i].type
      /\ e.relation = d.relation /\ e.observation = d.observation /\ e.mirror = d.mirror
      /\ e.relobs = d.relobs /\ e.attribute = d.attribute
    BY DEF Renamed
<1> HIDE DEF i
<1>5. \A j \in DOMAIN d.entity : e.entity[j].name = Fresh(d.entity[j].name, old, new)
    BY <1>1, <1>3, <1>4 DEF Fresh
<1>6. /\ DOMAIN EntityView(d) = NamesOf(d) /\ DOMAIN EntityView(e) = NamesOf(e)
      /\ DOMAIN RelationView(d) = Rels(d) /\ DOMAIN RelationView(e) = Rels(e)
    BY EntityViewed, RelationViewed
<1>7. old \in NamesOf(d) /\ new \notin NamesOf(d)
    BY <1>1, <1>2 DEF NamesOf
<1>8. NamesOf(e) = (NamesOf(d) \ {old}) \cup {new}
  <2>1. \A n : n \in NamesOf(e) <=> \E j \in DOMAIN d.entity : n = Fresh(d.entity[j].name, old, new)
    BY <1>4, <1>5 DEF NamesOf
  <2>2. \A n : n \in NamesOf(d) <=> \E j \in DOMAIN d.entity : n = d.entity[j].name
    BY DEF NamesOf
  <2>3. ASSUME NEW n PROVE n \in NamesOf(e) <=> n \in (NamesOf(d) \ {old}) \cup {new}
    <3>1. CASE n = new
        BY <1>1, <2>1, <3>1 DEF Fresh
    <3>2. CASE n # new
        BY <2>1, <2>2, <3>2 DEF Fresh
    <3> QED BY <3>1, <3>2
  <2> QED BY <2>3
<1>9. ASSUME NEW n \in NamesOf(d) \ {old} PROVE EntityView(e)[n] = EntityView(d)[n]
  <2>1. PICK j \in DOMAIN d.entity : n = d.entity[j].name
    BY DEF NamesOf
  <2>2. j # i /\ e.entity[j] = d.entity[j] /\ j \in DOMAIN e.entity
    BY <1>1, <1>4, <2>1, <1>9
  <2>3. ObservationsOf(e, j) = ObservationsOf(d, j)
    BY <1>4 DEF ObservationsOf
  <2>4. TextsOf(e, j) = TextsOf(d, j)
    BY <1>4, <2>3 DEF TextsOf
  <2>5. attributes_for(e, "entity", j) = attributes_for(d, "entity", j)
    BY <1>4 DEF attributes_for
  <2>6. EntityRead(e, j) = EntityRead(d, j)
    BY <2>2, <2>4, <2>5 DEF EntityRead
  <2>7. EntityView(d)[d.entity[j].name] = EntityRead(d, j)
    BY EntityViewed
  <2>8. EntityView(e)[e.entity[j].name] = EntityRead(e, j)
    BY <2>2, EntityViewed
  <2> QED BY <2>1, <2>2, <2>6, <2>7, <2>8
<1>10. \A r \in d.relation : Named(e, r) = Redirect(Named(d, r), old, new)
  <2>1. ASSUME NEW r \in d.relation PROVE Named(e, r) = Redirect(Named(d, r), old, new)
    <3>1. r[1] \in DOMAIN d.entity /\ r[2] \in DOMAIN d.entity
        BY NamedOnce
    <3>2. /\ e.entity[r[1]].name = Fresh(d.entity[r[1]].name, old, new)
          /\ e.entity[r[2]].name = Fresh(d.entity[r[2]].name, old, new)
        BY <1>5, <3>1
    <3>3. Named(d, r)[1] = d.entity[r[1]].name /\ Named(d, r)[2] = d.entity[r[2]].name /\ Named(d, r)[3] = r[3]
        BY DEF Named
    <3> QED BY <3>2, <3>3 DEF Named, Redirect
  <2> QED BY <2>1
<1>11. Rels(e) = {Redirect(u, old, new) : u \in Rels(d)}
    BY <1>4, <1>10 DEF Rels
<1>12. ASSUME NEW u \in Rels(d) PROVE RelationView(e)[Redirect(u, old, new)] = RelationView(d)[u]
  <2>1. PICK r \in d.relation : u = Named(d, r)
    BY DEF Rels
  <2>2. PICK m \in Live(d) : d.mirror[m].triple = r
    BY HasMirror
  <2>3. m \in Live(e) /\ e.mirror[m].triple = r
    BY <1>4, <2>2 DEF Live
  <2>4. RelationView(d)[Named(d, d.mirror[m].triple)] = DetailOf(d, m)
    BY RelationViewed
  <2>5. RelationView(e)[Named(e, e.mirror[m].triple)] = DetailOf(e, m)
    BY <2>3, RelationViewed
  <2>6. attributes_for(e, "relation", m) = attributes_for(d, "relation", m)
    BY <1>4 DEF attributes_for
  <2>7. DetailOf(e, m) = DetailOf(d, m)
    BY <1>4, <2>6 DEF DetailOf
  <2> QED BY <1>10, <2>1, <2>2, <2>3, <2>4, <2>5, <2>7
<1> QED BY <1>6, <1>7, <1>8, <1>9, <1>11, <1>12 DEF RenamedViews

\* Counters and descriptions of types are not part of the views.
SameRows(d, f) ==
    /\ f.relation = d.relation /\ f.observation = d.observation /\ f.mirror = d.mirror
    /\ f.relobs = d.relobs /\ f.attribute = d.attribute
    /\ DOMAIN f.entity = DOMAIN d.entity
    /\ \A i \in DOMAIN d.entity : f.entity[i].name = d.entity[i].name /\ f.entity[i].type = d.entity[i].type

LEMMA SameViews ==
    ASSUME NEW d, Whole(d), NEW f, Whole(f), SameRows(d, f)
    PROVE  EntityView(f) = EntityView(d) /\ RelationView(f) = RelationView(d)
<1>0. /\ f.relation = d.relation /\ f.observation = d.observation /\ f.mirror = d.mirror
      /\ f.relobs = d.relobs /\ f.attribute = d.attribute
      /\ DOMAIN f.entity = DOMAIN d.entity
      /\ \A i \in DOMAIN d.entity : f.entity[i].name = d.entity[i].name /\ f.entity[i].type = d.entity[i].type
    BY DEF SameRows
<1>1. NamesOf(f) = NamesOf(d)
    BY <1>0 DEF NamesOf
<1>2. \A kind, owner : attributes_for(f, kind, owner) = attributes_for(d, kind, owner)
    BY <1>0 DEF attributes_for
<1>3. ASSUME NEW n \in NamesOf(d) PROVE EntityView(f)[n] = EntityView(d)[n]
  <2>1. PICK i \in DOMAIN d.entity : n = d.entity[i].name
    BY DEF NamesOf
  <2>2. ObservationsOf(f, i) = ObservationsOf(d, i)
    BY <1>0 DEF ObservationsOf
  <2>3. TextsOf(f, i) = TextsOf(d, i)
    BY <1>0, <2>2 DEF TextsOf
  <2>4. EntityRead(f, i) = EntityRead(d, i)
    BY <1>0, <1>2, <2>3 DEF EntityRead
  <2>5. EntityView(d)[d.entity[i].name] = EntityRead(d, i)
    BY EntityViewed
  <2>6. EntityView(f)[f.entity[i].name] = EntityRead(f, i)
    BY <1>0, EntityViewed
  <2> QED BY <1>0, <2>1, <2>4, <2>5, <2>6
<1>4. \A r \in d.relation : Named(f, r) = Named(d, r)
  <2>1. \A r \in d.relation : r[1] \in DOMAIN d.entity /\ r[2] \in DOMAIN d.entity
    BY NamedOnce
  <2> QED BY <1>0, <2>1 DEF Named
<1>5. Rels(f) = Rels(d)
    BY <1>0, <1>4 DEF Rels
<1>6. ASSUME NEW t \in Rels(d) PROVE RelationView(f)[t] = RelationView(d)[t]
  <2>1. PICK r \in d.relation : t = Named(d, r)
    BY DEF Rels
  <2>2. PICK m \in Live(d) : d.mirror[m].triple = r
    BY HasMirror
  <2>3. m \in Live(f) /\ f.mirror[m].triple = r
    BY <1>0, <2>2 DEF Live
  <2>4. RelationView(d)[Named(d, d.mirror[m].triple)] = DetailOf(d, m)
    BY RelationViewed
  <2>5. RelationView(f)[Named(f, f.mirror[m].triple)] = DetailOf(f, m)
    BY <2>3, RelationViewed
  <2>6. DetailOf(f, m) = DetailOf(d, m)
    BY <1>0, <1>2 DEF DetailOf
  <2> QED BY <1>4, <2>1, <2>2, <2>3, <2>4, <2>5, <2>6
<1>7. /\ DOMAIN EntityView(d) = NamesOf(d) /\ DOMAIN EntityView(f) = NamesOf(f)
      /\ DOMAIN RelationView(d) = Rels(d) /\ DOMAIN RelationView(f) = Rels(f)
    BY EntityViewed, RelationViewed
<1>8. /\ EntityView(d) = [n \in DOMAIN EntityView(d) |-> EntityView(d)[n]]
      /\ EntityView(f) = [n \in DOMAIN EntityView(f) |-> EntityView(f)[n]]
      /\ RelationView(d) = [t \in DOMAIN RelationView(d) |-> RelationView(d)[t]]
      /\ RelationView(f) = [t \in DOMAIN RelationView(f) |-> RelationView(f)[t]]
    BY StoreViews DEF Views
<1>9. EntityView(f) = EntityView(d)
    BY <1>1, <1>3, <1>7, <1>8
<1>10. RelationView(f) = RelationView(d)
    BY <1>5, <1>6, <1>7, <1>8
<1> QED BY <1>9, <1>10

\* The copy that a subscriber should have of the store d.
CopyOf(d) == [entities |-> EntityView(d), relations |-> RelationView(d)]

\* What a request tells makes the copy of the store before it the one after it.
LEMMA RequestTold ==
    ASSUME NEW d, Whole(d), Registered(d), NEW q, IsRequest(q), execute(d, q).ok
    PROVE  LET e == execute(d, q).db
               N == affected_names(d, q)
           IN  Consume(CopyOf(d), changes_of(q, capture(d, N), capture(e, N))) = CopyOf(e)
<1> DEFINE e == execute(d, q).db
           N == affected_names(d, q)
           before == capture(d, N)
           after == capture(e, N)
           E == EntityView(d)
           R == RelationView(d)
           E2 == EntityView(e)
           R2 == RelationView(e)
<1>1. Whole(e)
    BY ExecuteWhole DEF Outcome
<1>2. Confined(d, e, N)
    BY RequestFollows DEF RequestDoes
<1>3. RenamedBy(q, d, e) \/ (Kept(d, e) /\ ~(q.op = "RenameEntity" /\ q.old # q.new))
    BY RenamedOrKept
<1>4. q.op = "RenameEntity" => q.old \in N /\ q.new \in N
    BY DEF affected_names, Touched
<1> HIDE DEF e, N
<1>5. before = Window(E, R, N) /\ after = Window(E2, R2, N)
    BY <1>1, CaptureIsWindow
<1>6. Views(E, R) /\ Views(E2, R2)
    BY <1>1, StoreViews
<1> HIDE DEF before, after
<1>7. CASE RenamedBy(q, d, e)
  <2>0. /\ q.op = "RenameEntity" /\ q.old # q.new /\ Exists(d, q.old) /\ ~Exists(d, q.new)
        /\ Renamed(d, e, IdOf(d, q.old), q.new)
    BY <1>7 DEF RenamedBy
  <2>1. RenamedViews(E, R, E2, R2, q.old, q.new)
    BY <1>1, <2>0, RenamedViewed
  <2> HIDE DEF E, R, E2, R2
  <2>2. q.old \in DOMAIN E /\ q.new \in DOMAIN E2
    BY <2>1 DEF RenamedViews
  <2>3. q.old \in DOMAIN before.entities /\ q.new \in DOMAIN after.entities /\ after.entities[q.new] = E2[q.new]
    BY <1>4, <1>5, <2>0, <2>2 DEF Window
  <2>4. changes_of(q, before, after) = {RenameChange(q.old, q.new, before.entities[q.old], E2[q.new])}
    BY <2>0, <2>3 DEF changes_of, rename_changes, RenameChange
  <2>5. Consume([entities |-> E, relations |-> R], {RenameChange(q.old, q.new, before.entities[q.old], E2[q.new])})
            = [entities |-> E2, relations |-> R2]
    BY ONLY <1>6, <2>1, RenameFollows
  <2>6. Consume([entities |-> E, relations |-> R], changes_of(q, before, after)) = [entities |-> E2, relations |-> R2]
    BY <2>4, <2>5, Zenon
  <2> QED BY <2>6, Zenon DEF CopyOf, E, R, E2, R2, before, after, e, N
<1>8. CASE Kept(d, e) /\ ~(q.op = "RenameEntity" /\ q.old # q.new)
  <2>1. Alike(E, R, E2, R2, N)
    BY <1>1, <1>2, <1>8, RestAlike DEF Kept
  <2>2. changes_of(q, before, after) = effective_changes(before, after)
    BY <1>8, Zenon DEF changes_of
  <2> HIDE DEF E, R, E2, R2
  <2>3. Consume([entities |-> E, relations |-> R], effective_changes(Window(E, R, N), Window(E2, R2, N)))
            = [entities |-> E2, relations |-> R2]
    BY ONLY <1>6, <2>1, DifferenceFollows
  <2>4. Consume([entities |-> E, relations |-> R], changes_of(q, before, after)) = [entities |-> E2, relations |-> R2]
    BY <1>5, <2>2, <2>3, Zenon
  <2> QED BY <2>4, Zenon DEF CopyOf, E, R, E2, R2, before, after, e, N
<1> QED BY <1>3, <1>7, <1>8

\* The inductive invariant: the subscriber's copy is the one it should have.
ReplicaInv == CountersInv /\ replica = CopyOf(db)

\* Any step.
LEMMA ReplicaStep ==
    ASSUME ReplicaInv, GraphInv', [GraphNext]_graphVars
    PROVE  replica' = CopyOf(db')
<1>0. Requested \/ Described \/ UNCHANGED <<db, replica, dropped>>
    BY StepDoes DEF ReplicaInv, CountersInv, GraphInv
<1>1. Whole(db) /\ Whole(db') /\ Registered(db) /\ replica = CopyOf(db)
    BY DEF ReplicaInv, CountersInv, GraphInv, Exact
<1>2. CASE Requested
  <2>1. PICK q : IsRequest(q) /\ apply_inner(q)
    BY <1>2 DEF Requested
  <2> DEFINE e == execute(db, q).db
             N == affected_names(db, q)
             before == capture(db, N)
             after == capture(e, N)
             changes == changes_of(q, before, after)
             quiet == q.op \in Quiet
  <2>2. /\ db' = update_counters(e, before, after, changes, quiet) /\ execute(db, q).ok
        /\ replica' = Consume(replica, changes)
    BY <2>1 DEF apply_inner
  <2>3. Consume(CopyOf(db), changes) = CopyOf(e)
    BY <1>1, <2>1, <2>2, RequestTold
  <2>4. Whole(e)
    BY <1>1, <2>1, ExecuteWhole DEF Outcome
  <2>5. quiet \in BOOLEAN
    OBVIOUS
  <2> HIDE DEF e, N, before, after, changes, quiet
  <2>6. Recounted(e, before, after, changes, quiet, db')
    <3>1. Recounted(e, before, after, changes, quiet, update_counters(e, before, after, changes, quiet))
        BY <2>4, <2>5, UpdateFields, Zenon DEF Whole
    <3> QED BY <2>2, <3>1, Zenon
  <2>7. SameRows(e, db')
    BY <2>6 DEF Recounted, SameRows
  <2>8. EntityView(db') = EntityView(e) /\ RelationView(db') = RelationView(e)
    BY <1>1, <2>4, <2>7, SameViews
  <2> QED BY <1>1, <2>2, <2>3, <2>8 DEF CopyOf
<1>3. CASE Described
  <2>1. PICK kind, t, given : <<kind, t>> \in TypeKeys /\ given \in BOOLEAN /\ handle_set_type_description(kind, t, given)
    BY <1>3 DEF Described
  <2>2. db' = set_type_description(db, kind, t, given) /\ replica' = replica
    BY <2>1 DEF handle_set_type_description
  <2> DEFINE e == type_id(db, kind, t)
             dd == IF given THEN e.described \cup {<<kind, t>>} ELSE e.described \ {<<kind, t>>}
  <2>3. IsStore(db) /\ Sound(db)
    BY <1>1 DEF Whole, Sound, CountersOK
  <2>4. Sound(e) /\ SameGraph(db, e)
    BY <2>1, <2>3, TypeIdSound
  <2>5. e.observation = db.observation /\ e.relobs = db.relobs /\ e.attribute = db.attribute
    BY <2>3 DEF type_id, IsStore
  <2>6. db' = [e EXCEPT !.described = dd]
    BY <2>2 DEF set_type_description
  <2> HIDE DEF e, dd
  <2>7. SameRows(db, db')
    <3>1. IsStore(e)
        BY <2>4 DEF Sound, CountersOK
    <3>2. /\ db'.relation = e.relation /\ db'.observation = e.observation /\ db'.mirror = e.mirror
          /\ db'.relobs = e.relobs /\ db'.attribute = e.attribute /\ db'.entity = e.entity
        BY <2>6, <3>1 DEF IsStore
    <3> QED BY <2>4, <2>5, <3>2 DEF SameRows, SameGraph
  <2>8. EntityView(db') = EntityView(db) /\ RelationView(db') = RelationView(db)
    BY <1>1, <2>7, SameViews
  <2> QED BY <1>1, <2>2, <2>8 DEF CopyOf
<1>4. CASE UNCHANGED <<db, replica, dropped>>
    BY <1>1, <1>4
<1> QED BY <1>0, <1>2, <1>3, <1>4

\* A new subscriber of a new file has nothing.
LEMMA ReplicaInit == ASSUME GraphInit PROVE ReplicaInv
<1>1. CountersInv /\ db = EmptyStore /\ replica = [entities |-> Empty, relations |-> Empty]
    BY InitExact DEF GraphInit
<1>2. db.entity = Empty /\ db.relation = {} /\ DOMAIN Empty = {}
    BY <1>1 DEF EmptyStore, Empty
<1>3. NamesOf(db) = {} /\ Rels(db) = {}
    BY <1>2 DEF NamesOf, Rels
<1>4. EntityView(db) = Empty /\ RelationView(db) = Empty
    BY <1>3 DEF EntityView, RelationView, Empty
<1> QED BY <1>1, <1>4 DEF ReplicaInv, CopyOf

\* The events that mutation.rs writes are enough to follow the graph: after
\* every transaction, renames, merges and moves included, a subscriber that
\* only applies them has every entity, relation, observation and attribute.
THEOREM EventsTellTheGraph == GraphSpec => []ReplicaExact
<1>1. GraphInv' /\ CountersInv' /\ ReplicaInv /\ [GraphNext]_graphVars => ReplicaInv'
    BY ReplicaStep DEF ReplicaInv
<1>2. ReplicaInv => ReplicaExact
  <2> SUFFICES ASSUME ReplicaInv PROVE ReplicaExact
    OBVIOUS
  <2>1. Whole(db) /\ replica = CopyOf(db)
    BY DEF ReplicaInv, CountersInv, GraphInv
  <2> DEFINE E == EntityView(db)
             R == RelationView(db)
             now == capture(db, NamesOf(db))
  <2>2. now = Window(E, R, NamesOf(db))
    BY <2>1, CaptureIsWindow
  <2>3. Views(E, R) /\ DOMAIN E = NamesOf(db)
    BY <2>1, StoreViews, EntityViewed
  <2> HIDE DEF E, R, now
  <2>4. E = [n \in DOMAIN E |-> E[n]] /\ R = [t \in DOMAIN R |-> R[t]] /\ \A t \in DOMAIN R : t[1] \in DOMAIN E
    BY <2>3 DEF Views
  <2>5. DOMAIN E \cap NamesOf(db) = DOMAIN E /\ Near(DOMAIN R, NamesOf(db)) = DOMAIN R
    BY <2>3, <2>4 DEF Near
  <2>6. now.entities = E /\ now.details = R
    BY <2>2, <2>4, <2>5 DEF Window
  <2>7. replica = [entities |-> now.entities, relations |-> now.details]
    BY <2>1, <2>6 DEF CopyOf, E, R
  <2> QED BY <2>7, Zenon DEF ReplicaExact, now, NamesOf
<1> QED BY <1>1, <1>2, ReplicaInit, GraphStaysWhole, CountersStayExact, PTL DEF GraphSpec
=============================================================================
