----------------------------- MODULE GraphProofs -----------------------------
(***************************************************************************)
(* The full-text indexes and the mirrors of a graph are exact, for graphs  *)
(* and requests of any size.                                               *)
(*                                                                         *)
(* Every statement of mutation.rs keeps the store Sound; every request     *)
(* takes a Whole store to a Whole one.  A fold is followed by FoldReaches: *)
(* a step that fails to keep the invariant would have a first such place.  *)
(***************************************************************************)
EXTENDS Graph, FiniteSetTheorems, WellFoundedInduction, TLAPS

-----------------------------------------------------------------------------
(* Folds over sequences *)

\* A set of numbers that is not empty has a least one.
LEMMA Least ==
    ASSUME NEW T, T \subseteq Nat, T # {}
    PROVE  \E m \in T : \A k \in T : m <= k
<1> DEFINE less == {ss \in Nat \X Nat : ss[1] < ss[2]}
<1>1. IsWellFoundedOn(less, Nat)
    BY NatLessThanWellFounded DEF OpToRel
<1> HIDE DEF less
<1>2. PICK m \in T : \A k \in T : <<k, m>> \notin less
    BY <1>1, WFMin
<1>3. \A k \in T : ~(k < m)
    BY <1>2 DEF less
<1> QED BY <1>3

\* A finite set of numbers that is not empty has a greatest one.
LEMMA Greatest ==
    ASSUME NEW n \in Nat, NEW s \in SUBSET Nat, \A k \in s : k <= n, s # {}
    PROVE  Max(s) \in s /\ \A k \in s : k <= Max(s)
<1> DEFINE T == {n - k : k \in s}
<1>1. T \subseteq Nat /\ T # {}
  <2>1. \A k \in s : n - k \in Nat
    OBVIOUS
  <2> QED BY <2>1
<1>2. PICK m \in T : \A k \in T : m <= k
    BY <1>1, Least
<1>3. PICK x \in s : m = n - x
    BY <1>2
<1>4. \A y \in s : x >= y
    <2> TAKE y \in s
    <2>1. n - x <= n - y
        BY <1>2, <1>3
    <2> QED BY <2>1
<1> QED BY <1>4 DEF Max

\* FoldLeft takes the last index first.
Before(s) == s \ {Max(s)}

\* Sets of indexes are finite.
LEMMA Indexes ==
    ASSUME NEW n \in Nat, NEW s \in SUBSET (1..n)
    PROVE  /\ IsFiniteSet(s) /\ Cardinality(s) \in Nat /\ Cardinality(s) <= n
           /\ Cardinality(s) = 0 <=> s = {}
<1>1. IsFiniteSet(1..n) /\ Cardinality(1..n) = n
    BY FS_Interval
<1>2. IsFiniteSet(s) /\ Cardinality(s) <= Cardinality(1..n)
    BY <1>1, FS_Subset
<1> QED BY <1>1, <1>2, FS_CardinalityType, FS_EmptySet

\* What comes before a set of indexes is smaller.
LEMMA BeforeSmaller ==
    ASSUME NEW n \in Nat, NEW s \in SUBSET (1..n), s # {}
    PROVE  /\ Max(s) \in 1..n /\ Before(s) \in SUBSET (1..n) /\ s = Before(s) \cup {Max(s)}
           /\ Cardinality(s) \in Nat \ {0} /\ Cardinality(Before(s)) = Cardinality(s) - 1
<1>1. Max(s) \in s
    BY Greatest
<1>2. IsFiniteSet(s) /\ Cardinality(s) \in Nat \ {0}
    BY Indexes
<1>3. Cardinality(s \ {Max(s)}) = Cardinality(s) - 1
    BY <1>1, <1>2, FS_RemoveElement
<1> QED BY <1>1, <1>2, <1>3 DEF Before

\* What holds of the front and is kept by one item holds of the whole.
LEMMA FoldReaches ==
    ASSUME NEW n \in Nat, NEW it, NEW P,
           \A s \in SUBSET (1..n) : (s # {} => it[Before(s)] \in P[Before(s)]) => it[s] \in P[s]
    PROVE  it[1..n] \in P[1..n]
<1> DEFINE Bad == {Cardinality(s) : s \in {t \in SUBSET (1..n) : it[t] \notin P[t]}}
<1> SUFFICES ASSUME Bad # {} PROVE FALSE
    OBVIOUS
<1>1. \A s \in SUBSET (1..n) : Cardinality(s) \in Nat
    BY Indexes
<1>2. Bad \subseteq Nat
    BY <1>1
<1>3. PICK m \in Bad : \A k \in Bad : m <= k
    BY <1>2, Least
<1>4. PICK s \in SUBSET (1..n) : it[s] \notin P[s] /\ Cardinality(s) = m
    BY <1>3
<1>5. s # {} /\ it[Before(s)] \notin P[Before(s)]
    BY <1>4
<1>6. Before(s) \in SUBSET (1..n) /\ Cardinality(Before(s)) = m - 1 /\ m \in Nat
    BY <1>4, <1>5, BeforeSmaller
<1>7. ~(m <= m - 1)
    BY <1>6
<1> QED BY <1>3, <1>5, <1>6, <1>7

\* The function FoldLeft computes with exists: a step g leads from D to D.
RunOf(b, n, g, it, S) ==
    \A s \in S : it[s] = IF s = {} THEN b ELSE g[<<it[Before(s)], Max(s)>>]

Upto(n, m) == {s \in SUBSET (1..n) : Cardinality(s) <= m}

\* The results of a fold over every set of indexes, given a step that stays in D.
LEMMA FoldExists ==
    ASSUME NEW n \in Nat, NEW D, NEW b \in D, NEW g \in [D \X (1..n) -> D]
    PROVE  \E it : /\ it \in [SUBSET (1..n) -> D] /\ RunOf(b, n, g, it, SUBSET (1..n))
                   /\ \A s \in SUBSET (1..n) : s # {} => it[Before(s)] \in D /\ Max(s) \in 1..n
<1>1. \A s \in SUBSET (1..n) : Cardinality(s) \in Nat /\ Cardinality(s) <= n
    BY Indexes
<1> DEFINE Has(m) == \E it : it \in [SUBSET (1..n) -> D] /\ RunOf(b, n, g, it, Upto(n, m))
           Bad == {m \in Nat : ~Has(m)}
<1>2. Bad = {}
  <2> SUFFICES ASSUME Bad # {} PROVE FALSE
    OBVIOUS
  <2>1. PICK m \in Bad : \A k \in Bad : m <= k
    BY Least
  <2>2. CASE m = 0
    <3> DEFINE it == [s \in SUBSET (1..n) |-> b]
    <3>1. \A s \in Upto(n, 0) : s = {}
        BY Indexes DEF Upto
    <3>2. it \in [SUBSET (1..n) -> D] /\ RunOf(b, n, g, it, Upto(n, 0))
        BY <3>1 DEF RunOf, Upto
    <3> QED BY <2>1, <2>2, <3>2
  <2>3. CASE m # 0
    <3>1. m - 1 \in Nat /\ ~(m <= m - 1)
        BY <2>3
    <3>2. Has(m - 1)
        BY <2>1, <3>1
    <3>3. PICK h : h \in [SUBSET (1..n) -> D] /\ RunOf(b, n, g, h, Upto(n, m - 1))
        BY <3>2
    <3> DEFINE it == [s \in SUBSET (1..n) |-> IF s = {} THEN b ELSE g[<<h[Before(s)], Max(s)>>]]
    <3>4. ASSUME NEW s \in SUBSET (1..n) PROVE it[s] \in D
      <4>1. CASE s = {}
        BY <4>1
      <4>2. CASE s # {}
        <5>1. h[Before(s)] \in D /\ Max(s) \in 1..n
            BY <3>3, <4>2, BeforeSmaller
        <5> QED BY <4>2, <5>1
      <4> QED BY <4>1, <4>2
    <3>5. ASSUME NEW s \in Upto(n, m), s # {} PROVE it[Before(s)] = h[Before(s)]
      <4>1. s \in SUBSET (1..n) /\ Cardinality(s) <= m
        BY DEF Upto
      <4>2. Before(s) \in SUBSET (1..n) /\ Cardinality(Before(s)) <= m - 1
        BY <3>5, <4>1, BeforeSmaller
      <4>3. Before(s) \in Upto(n, m - 1)
        BY <4>2 DEF Upto
      <4> QED BY <3>3, <4>2, <4>3 DEF RunOf
    <3>6. \A s \in Upto(n, m) : it[s] = IF s = {} THEN b ELSE g[<<it[Before(s)], Max(s)>>]
      <4> TAKE s \in Upto(n, m)
      <4>1. it[s] = IF s = {} THEN b ELSE g[<<h[Before(s)], Max(s)>>]
        BY DEF Upto
      <4> HIDE DEF it
      <4> QED BY <3>5, <4>1
    <3>7. it \in [SUBSET (1..n) -> D]
        BY <3>4
    <3> HIDE DEF it
    <3> QED BY <2>1, <3>6, <3>7 DEF RunOf
  <2> QED BY <2>2, <2>3
<1>3. Has(n)
    BY <1>2
<1>4. Upto(n, n) = SUBSET (1..n)
    BY <1>1 DEF Upto
<1>5. \A s \in SUBSET (1..n) : s # {} => Before(s) \in SUBSET (1..n) /\ Max(s) \in 1..n
    BY BeforeSmaller
<1> QED BY <1>3, <1>4, <1>5


-----------------------------------------------------------------------------
(* The databases a fold passes through *)

Tables(keys, Rows) == UNION {[S -> Rows] : S \in SUBSET keys}

Stores ==
    [entity : Tables(Nat, EntityRow),
     observation : Tables(Nat, [entity : Nat, body : Bodies]),
     relation : SUBSET Links,
     mirror : Tables(Nat, [triple : Links, deleted : BOOLEAN]),
     relobs : Tables(Nat, [mirror : Nat, body : Bodies]),
     attribute : Tables({"entity", "relation"} \X Nat \X AttrKeys, AttrValues),
     name_fts : SUBSET (Nat \X Names),
     obs_fts : SUBSET (Nat \X Bodies),
     rel_obs_fts : SUBSET (Nat \X Bodies),
     type_dict : Tables(TypeKeys, Int),
     described : SUBSET TypeKeys,
     stat : [entities : Int, relations : Int, observations : Int, relation_obs : Int],
     seq : [entity : Nat, obs : Nat, rel_obs : Nat]]

\* A table over some keys is one over more.
LEMMA TableIn ==
    ASSUME NEW t, NEW keys, NEW Rows, NEW K, NEW R, IsTable(t, keys, Rows), keys \subseteq K, Rows \subseteq R
    PROVE  t \in Tables(K, R)
<1>1. DOMAIN t \in SUBSET K /\ t \in [DOMAIN t -> R]
    BY DEF IsTable
<1> QED BY <1>1 DEF Tables

\* A sound store has the type that folds work on.
LEMMA SoundIsStore == ASSUME NEW d, Sound(d) PROVE d \in Stores
<1> USE DEF Sound
<1>1. /\ d.seq \in [entity : Nat, obs : Nat, rel_obs : Nat]
      /\ 1..d.seq.entity \subseteq Nat /\ 1..d.seq.obs \subseteq Nat /\ 1..d.seq.rel_obs \subseteq Nat
    BY DEF CountersOK
<1>2. d.entity \in Tables(Nat, EntityRow) /\ DOMAIN d.entity \subseteq Nat
    BY <1>1, TableIn DEF EntitiesOK, IsTable
<1>3. d.observation \in Tables(Nat, [entity : Nat, body : Bodies])
  <2>1. [entity : DOMAIN d.entity, body : Bodies] \subseteq [entity : Nat, body : Bodies]
    BY <1>2
  <2> QED BY <1>1, <2>1, TableIn DEF ObservationsOK
<1>4. d.mirror \in Tables(Nat, [triple : Links, deleted : BOOLEAN]) /\ Live(d) \subseteq Nat
    BY TableIn DEF MirrorsOK, IsTable, Live
<1>5. d.relobs \in Tables(Nat, [mirror : Nat, body : Bodies])
  <2>1. [mirror : Live(d), body : Bodies] \subseteq [mirror : Nat, body : Bodies]
    BY <1>4
  <2> QED BY <1>1, <2>1, TableIn DEF RelationObservationsOK
<1>6. d.attribute \in Tables({"entity", "relation"} \X Nat \X AttrKeys, AttrValues)
  <2>1. ({"entity"} \X (DOMAIN d.entity) \X AttrKeys) \cup ({"relation"} \X Live(d) \X AttrKeys)
          \subseteq {"entity", "relation"} \X Nat \X AttrKeys
    BY <1>2, <1>4
  <2> QED BY <2>1, TableIn DEF AttributesOK
<1>7. d.type_dict \in Tables(TypeKeys, Int)
    BY TableIn DEF CountersOK
<1>8. \A i \in DOMAIN d.entity : i \in Nat /\ d.entity[i].name \in Names
    BY <1>2 DEF EntitiesOK, IsTable, EntityRow
<1>9. \A o \in DOMAIN d.observation : o \in Nat /\ d.observation[o].body \in Bodies
    BY <1>1 DEF ObservationsOK, IsTable
<1>10. \A o \in DOMAIN d.relobs : o \in Nat /\ d.relobs[o].body \in Bodies
    BY <1>1 DEF RelationObservationsOK, IsTable
<1>11. d.name_fts \in SUBSET (Nat \X Names) /\ d.obs_fts \in SUBSET (Nat \X Bodies) /\ d.rel_obs_fts \in SUBSET (Nat \X Bodies)
    BY <1>8, <1>9, <1>10 DEF EntitiesOK, ObservationsOK, RelationObservationsOK, Texts
<1>12. d.described \in SUBSET TypeKeys /\ d.relation \in SUBSET Links
       /\ d.stat \in [entities : Int, relations : Int, observations : Int, relation_obs : Int]
    BY DEF CountersOK
<1> QED BY <1>1, <1>2, <1>3, <1>4, <1>5, <1>6, <1>7, <1>11, <1>12 DEF CountersOK, IsStore, Stores

-----------------------------------------------------------------------------
(* Tables *)

\* A table with one row put in.
LEMMA WithRow ==
    ASSUME NEW t, NEW K, NEW R, IsTable(t, K, R), NEW k, NEW row \in R, NEW J, K \subseteq J, k \in J
    PROVE  /\ IsTable(With(t, k, row), J, R)
           /\ DOMAIN With(t, k, row) = DOMAIN t \cup {k}
           /\ With(t, k, row)[k] = row
           /\ \A x \in DOMAIN t : x # k => With(t, k, row)[x] = t[x]
    BY DEF IsTable, With

\* A new text and its index entry.
LEMMA WithText ==
    ASSUME NEW t, NEW k, k \notin DOMAIN t, NEW row
    PROVE  Texts(With(t, k, row)) = Texts(t) \cup {<<k, row.body>>}
<1> DEFINE u == With(t, k, row)
<1>1. /\ DOMAIN u = DOMAIN t \cup {k} /\ u[k] = row /\ k \notin DOMAIN t
      /\ \A x \in DOMAIN t : u[x] = t[x]
    BY DEF With
<1> HIDE DEF u
<1>2. Texts(u) = Texts(t) \cup {<<k, row.body>>}
    BY <1>1 DEF Texts
<1> QED BY <1>2 DEF u

\* Texts that go take their index entries along.
LEMMA WithoutTexts ==
    ASSUME NEW t, NEW ks
    PROVE  Texts(Without(t, ks)) = Texts(t) \ {<<o, t[o].body>> : o \in ks \cap DOMAIN t}
<1> DEFINE u == Without(t, ks)
<1>1. DOMAIN u = DOMAIN t \ ks /\ \A x \in DOMAIN t \ ks : u[x] = t[x]
    BY DEF Without
<1> HIDE DEF u
<1>2. Texts(u) = Texts(t) \ {<<o, t[o].body>> : o \in ks \cap DOMAIN t}
    BY <1>1 DEF Texts
<1> QED BY <1>2 DEF u

\* A table with rows taken out.
LEMMA WithoutRows ==
    ASSUME NEW t, NEW K, NEW R, IsTable(t, K, R), NEW ks
    PROVE  /\ IsTable(Without(t, ks), K, R)
           /\ DOMAIN Without(t, ks) = DOMAIN t \ ks
           /\ \A x \in DOMAIN t \ ks : Without(t, ks)[x] = t[x]
    BY DEF IsTable, Without

\* A table with several rows put in.
LEMMA OverRows ==
    ASSUME NEW t, NEW K, NEW R, IsTable(t, K, R), NEW u, NEW J, IsTable(u, J, R), NEW H, K \cup J \subseteq H
    PROVE  /\ IsTable(Over(u, t), H, R)
           /\ DOMAIN Over(u, t) = DOMAIN u \cup DOMAIN t
    BY DEF IsTable, Over

\* A table may have more room than it uses.
LEMMA WiderTable ==
    ASSUME NEW t, NEW K, NEW R, IsTable(t, K, R), NEW J, NEW Q, K \subseteq J, R \subseteq Q
    PROVE  IsTable(t, J, Q)
    BY DEF IsTable

\* What a database is made of.
LEMMA Fields ==
    ASSUME NEW d, Sound(d)
    PROVE  /\ d.seq.entity \in Nat /\ d.seq.obs \in Nat /\ d.seq.rel_obs \in Nat
           /\ DOMAIN d.entity \subseteq Nat /\ DOMAIN d.mirror \subseteq Nat /\ Live(d) \subseteq DOMAIN d.mirror
           /\ \A i \in DOMAIN d.entity : d.entity[i] \in EntityRow
           /\ \A m \in DOMAIN d.mirror : d.mirror[m] \in [triple : Links, deleted : BOOLEAN]
<1>1. d.seq.entity \in Nat /\ d.seq.obs \in Nat /\ d.seq.rel_obs \in Nat
    BY DEF Sound, CountersOK
<1>2. DOMAIN d.entity \subseteq Nat /\ \A i \in DOMAIN d.entity : d.entity[i] \in EntityRow
    BY <1>1 DEF Sound, EntitiesOK, IsTable
<1>3. DOMAIN d.mirror \subseteq Nat /\ \A m \in DOMAIN d.mirror : d.mirror[m] \in [triple : Links, deleted : BOOLEAN]
    BY DEF Sound, MirrorsOK, IsTable
<1> QED BY <1>1, <1>2, <1>3 DEF Live

-----------------------------------------------------------------------------
(* Statements on texts *)

\* The entities and their names, the relations and their mirrors are as before.
SameGraph(d, e) == e.entity = d.entity /\ e.relation = d.relation /\ e.mirror = d.mirror /\ e.name_fts = d.name_fts

\* Only the rows that SameGraph names matter to Whole.
LEMMA SameIsWhole == ASSUME NEW d, NEW e, Whole(d), Sound(e), SameGraph(d, e) PROVE Whole(e)
    BY DEF Whole, SameGraph, Mirrored, Live

\* What is left alone stays as it is.
LEMMA SameEntities ==
    ASSUME NEW d, NEW e, EntitiesOK(d), e.entity = d.entity, e.name_fts = d.name_fts, e.seq.entity = d.seq.entity
    PROVE  EntitiesOK(e)
    BY DEF EntitiesOK

\* The same mirrors are alive.
LEMMA SameMirrors == ASSUME NEW d, NEW e, MirrorsOK(d), e.mirror = d.mirror PROVE MirrorsOK(e) /\ Live(e) = Live(d)
    BY DEF MirrorsOK, Live

\* Observations depend on the keys of the entities only.
LEMMA SameObservations ==
    ASSUME NEW d, NEW e, ObservationsOK(d), e.observation = d.observation, e.obs_fts = d.obs_fts,
           e.seq.obs = d.seq.obs, DOMAIN e.entity = DOMAIN d.entity
    PROVE  ObservationsOK(e)
    BY DEF ObservationsOK

\* Relation observations depend on the live mirrors only.
LEMMA SameRelationObservations ==
    ASSUME NEW d, NEW e, RelationObservationsOK(d), e.relobs = d.relobs, e.rel_obs_fts = d.rel_obs_fts,
           e.seq.rel_obs = d.seq.rel_obs, Live(e) = Live(d)
    PROVE  RelationObservationsOK(e)
    BY DEF RelationObservationsOK

\* Attributes depend on the keys of their owners only.
LEMMA SameAttributes ==
    ASSUME NEW d, NEW e, AttributesOK(d), e.attribute = d.attribute,
           DOMAIN e.entity = DOMAIN d.entity, Live(e) = Live(d)
    PROVE  AttributesOK(e)
    BY DEF AttributesOK

\* A new row gets an id and an index entry of its own.
LEMMA InsertObservationSound ==
    ASSUME NEW d, Sound(d), NEW i \in DOMAIN d.entity, NEW b \in Bodies
    PROVE  Sound(InsertObservation(d, i, b)) /\ SameGraph(d, InsertObservation(d, i, b))
<1> DEFINE o == d.seq.obs + 1
           row == [entity |-> i, body |-> b]
           e == InsertObservation(d, i, b)
<1>0. d \in Stores /\ d.seq.obs \in Nat
    BY SoundIsStore, Fields
<1>1. e = [d EXCEPT !.seq = [d.seq EXCEPT !.obs = o], !.observation = With(d.observation, o, row),
                    !.obs_fts = d.obs_fts \cup {<<o, b>>}]
    BY <1>0 DEF InsertObservation, Stores
<1>2. /\ e.entity = d.entity /\ e.relation = d.relation /\ e.mirror = d.mirror
      /\ e.relobs = d.relobs /\ e.attribute = d.attribute /\ e.name_fts = d.name_fts
      /\ e.rel_obs_fts = d.rel_obs_fts /\ e.type_dict = d.type_dict /\ e.described = d.described
      /\ e.stat = d.stat /\ e.observation = With(d.observation, o, row)
      /\ e.obs_fts = d.obs_fts \cup {<<o, b>>}
      /\ e.seq.entity = d.seq.entity /\ e.seq.obs = o /\ e.seq.rel_obs = d.seq.rel_obs
    BY <1>0, <1>1 DEF Stores
<1>3. CountersOK(e)
  <2>1. e.seq \in [entity : Nat, obs : Nat, rel_obs : Nat]
    BY <1>0, <1>1 DEF Stores
  <2>2. IsStore(e)
    BY <1>1 DEF IsStore, Sound, CountersOK
  <2> HIDE DEF e
  <2> QED BY <1>2, <2>1, <2>2 DEF Sound, CountersOK
<1> HIDE DEF e
<1>4. EntitiesOK(e) /\ MirrorsOK(e) /\ Live(e) = Live(d) /\ DOMAIN e.entity = DOMAIN d.entity
    BY <1>2, SameEntities, SameMirrors DEF Sound
<1>5. RelationObservationsOK(e) /\ AttributesOK(e)
    BY <1>2, <1>4, SameRelationObservations, SameAttributes DEF Sound
<1>6. ObservationsOK(e)
  <2> DEFINE R == [entity : DOMAIN d.entity, body : Bodies]
  <2>1. IsTable(d.observation, 1..d.seq.obs, R) /\ d.obs_fts = Texts(d.observation)
    BY DEF Sound, ObservationsOK
  <2>2. row \in R /\ row.body = b /\ 1..d.seq.obs \subseteq 1..o /\ o \in 1..o /\ o \notin 1..d.seq.obs
    BY <1>0
  <2> HIDE DEF row, o, R
  <2>3. IsTable(With(d.observation, o, row), 1..o, R)
    BY <2>1, <2>2, WithRow
  <2>4. o \notin DOMAIN d.observation
    BY <2>1, <2>2 DEF IsTable
  <2>5. Texts(With(d.observation, o, row)) = Texts(d.observation) \cup {<<o, b>>}
    BY <2>2, <2>4, WithText
  <2> QED BY <1>2, <2>1, <2>3, <2>5 DEF ObservationsOK, R
<1> QED BY <1>2, <1>3, <1>4, <1>5, <1>6 DEF Sound, SameGraph, e

\* insert_observations, text by text.
LEMMA InsertObservationsSound ==
    ASSUME NEW d, Sound(d), NEW i \in DOMAIN d.entity, NEW items \in Seq(Bodies)
    PROVE  Sound(insert_observations(d, i, items)) /\ SameGraph(d, insert_observations(d, i, items))
<1> DEFINE n == Len(items)
           D == {e \in Stores : Sound(e) /\ SameGraph(d, e)}
           g == [p \in D \X (1..n) |-> InsertObservation(p[1], i, items[p[2]])]
           Runs(it) == it = [s \in SUBSET (1..n) |->
                                IF s = {} THEN d ELSE InsertObservation(it[Before(s)], i, items[Max(s)])]
           c == CHOOSE it : Runs(it)
<1>0. n \in Nat /\ DOMAIN items = 1..n /\ \A k \in 1..n : items[k] \in Bodies
    OBVIOUS
<1>1. insert_observations(d, i, items) = c[1..n]
    BY <1>0 DEF insert_observations, FoldLeft, MapThenFoldSet, Before
<1>2. d \in D
    BY SoundIsStore DEF SameGraph
<1>3. ASSUME NEW e \in D, NEW k \in 1..n PROVE InsertObservation(e, i, items[k]) \in D
  <2>1. Sound(InsertObservation(e, i, items[k])) /\ SameGraph(e, InsertObservation(e, i, items[k]))
    BY <1>0, InsertObservationSound DEF SameGraph
  <2> QED BY <2>1, SoundIsStore DEF SameGraph
<1> HIDE DEF n, D
<1>4. g \in [D \X (1..n) -> D]
    BY <1>3
<1>5. PICK it : /\ it \in [SUBSET (1..n) -> D] /\ RunOf(d, n, g, it, SUBSET (1..n))
                /\ \A s \in SUBSET (1..n) : s # {} => it[Before(s)] \in D /\ Max(s) \in 1..n
    BY <1>0, <1>2, <1>4, FoldExists
<1>6. Runs(it)
  <2>1. \A s \in SUBSET (1..n) : it[s] = IF s = {} THEN d ELSE InsertObservation(it[Before(s)], i, items[Max(s)])
    BY <1>5 DEF RunOf
  <2> QED BY <1>5, <2>1
<1>7. Runs(c)
    BY <1>6
<1> HIDE DEF c
<1> DEFINE P == [s \in SUBSET (1..n) |-> D]
<1>8. \A s \in SUBSET (1..n) : s # {} => Before(s) \in SUBSET (1..n) /\ Max(s) \in 1..n
    BY <1>0, BeforeSmaller
<1>9. \A s \in SUBSET (1..n) : (s # {} => c[Before(s)] \in P[Before(s)]) => c[s] \in P[s]
    BY <1>2, <1>3, <1>7, <1>8
<1>10. c[1..n] \in P[1..n]
    BY <1>0, <1>9, FoldReaches
<1> QED BY <1>1, <1>10 DEF D

\* One text of an upsert or a merge.
LEMMA InsertMissingOneSound ==
    ASSUME NEW d, Sound(d), NEW i \in DOMAIN d.entity, NEW b \in Bodies
    PROVE  Sound(InsertMissing(d, i, b)) /\ SameGraph(d, InsertMissing(d, i, b))
<1>1. Sound(InsertObservation(d, i, b)) /\ SameGraph(d, InsertObservation(d, i, b))
    BY InsertObservationSound
<1>2. SameGraph(d, d)
    BY DEF SameGraph
<1> QED BY <1>1, <1>2 DEF InsertMissing

\* The texts of an upsert.
LEMMA InsertMissingSound ==
    ASSUME NEW d, Sound(d), NEW i \in DOMAIN d.entity, NEW items \in Seq(Bodies)
    PROVE  Sound(insert_missing(d, i, items)) /\ SameGraph(d, insert_missing(d, i, items))
<1> DEFINE n == Len(items)
           D == {e \in Stores : Sound(e) /\ SameGraph(d, e)}
           g == [p \in D \X (1..n) |-> InsertMissing(p[1], i, items[p[2]])]
           Runs(it) == it = [s \in SUBSET (1..n) |->
                                IF s = {} THEN d ELSE InsertMissing(it[Before(s)], i, items[Max(s)])]
           c == CHOOSE it : Runs(it)
<1>0. n \in Nat /\ DOMAIN items = 1..n /\ \A k \in 1..n : items[k] \in Bodies
    OBVIOUS
<1>1. insert_missing(d, i, items) = c[1..n]
    BY <1>0 DEF insert_missing, FoldLeft, MapThenFoldSet, Before
<1>2. d \in D
    BY SoundIsStore DEF SameGraph
<1>3. ASSUME NEW e \in D, NEW k \in 1..n PROVE InsertMissing(e, i, items[k]) \in D
  <2>1. Sound(InsertMissing(e, i, items[k])) /\ SameGraph(e, InsertMissing(e, i, items[k]))
    BY <1>0, InsertMissingOneSound DEF SameGraph
  <2> QED BY <2>1, SoundIsStore DEF SameGraph
<1> HIDE DEF n, D
<1>4. g \in [D \X (1..n) -> D]
    BY <1>3
<1>5. PICK it : /\ it \in [SUBSET (1..n) -> D] /\ RunOf(d, n, g, it, SUBSET (1..n))
                /\ \A s \in SUBSET (1..n) : s # {} => it[Before(s)] \in D /\ Max(s) \in 1..n
    BY <1>0, <1>2, <1>4, FoldExists
<1>6. Runs(it)
  <2>1. \A s \in SUBSET (1..n) : it[s] = IF s = {} THEN d ELSE InsertMissing(it[Before(s)], i, items[Max(s)])
    BY <1>5 DEF RunOf
  <2> QED BY <1>5, <2>1
<1>7. Runs(c)
    BY <1>6
<1> HIDE DEF c
<1> DEFINE P == [s \in SUBSET (1..n) |-> D]
<1>8. \A s \in SUBSET (1..n) : s # {} => Before(s) \in SUBSET (1..n) /\ Max(s) \in 1..n
    BY <1>0, BeforeSmaller
<1>9. ASSUME NEW s \in SUBSET (1..n), s # {} => c[Before(s)] \in P[Before(s)] PROVE c[s] \in P[s]
  <2>1. CASE s = {}
    BY <1>2, <1>7, <2>1
  <2>2. CASE s # {}
    <3>1. c[Before(s)] \in D /\ c[s] = InsertMissing(c[Before(s)], i, items[Max(s)])
        BY <1>7, <1>8, <1>9, <2>2
    <3> QED BY <1>3, <1>8, <2>2, <3>1
  <2> QED BY <2>1, <2>2
<1> HIDE DEF P
<1>10. c[1..n] \in P[1..n]
    BY <1>0, <1>9, FoldReaches
<1> QED BY <1>1, <1>10 DEF D, P

\* The texts of a merge.
LEMMA CopyObservationsSound ==
    ASSUME NEW d, Sound(d), NEW old, NEW i \in DOMAIN d.entity
    PROVE  Sound(copy_observations(d, old, i)) /\ SameGraph(d, copy_observations(d, old, i))
<1> DEFINE n == d.seq.obs
           ids == [o \in 1..n |-> o]
           D == {e \in Stores : Sound(e) /\ SameGraph(d, e)}
           g == [p \in D \X (1..n) |-> CopyObservation(p[1], d, old, i, ids[p[2]])]
           Runs(it) == it = [s \in SUBSET (1..n) |->
                                IF s = {} THEN d ELSE CopyObservation(it[Before(s)], d, old, i, ids[Max(s)])]
           c == CHOOSE it : Runs(it)
<1>0. n \in Nat /\ DOMAIN ids = 1..n /\ \A k \in 1..n : ids[k] = k
    BY Fields
<1>1. copy_observations(d, old, i) = c[1..n]
    BY <1>0 DEF copy_observations, FoldLeft, MapThenFoldSet, Before
<1>2. d \in D
    BY SoundIsStore DEF SameGraph
<1>3. ASSUME NEW e \in D, NEW k \in 1..n PROVE CopyObservation(e, d, old, i, ids[k]) \in D
  <2> DEFINE a == InsertMissing(e, i, d.observation[k].body)
  <2>1. ASSUME k \in ObservationsOf(d, old) PROVE a \in D
    <3>1. d.observation[k].body \in Bodies
        BY <2>1 DEF Sound, ObservationsOK, IsTable, ObservationsOf
    <3>2. Sound(a) /\ SameGraph(e, a)
        BY <3>1, InsertMissingOneSound DEF SameGraph
    <3> QED BY <3>2, SoundIsStore DEF SameGraph
  <2> HIDE DEF a, D
  <2> QED BY <1>0, <2>1 DEF CopyObservation, a
<1> HIDE DEF n, D, ids
<1>4. g \in [D \X (1..n) -> D]
    BY <1>3
<1>5. PICK it : /\ it \in [SUBSET (1..n) -> D] /\ RunOf(d, n, g, it, SUBSET (1..n))
                /\ \A s \in SUBSET (1..n) : s # {} => it[Before(s)] \in D /\ Max(s) \in 1..n
    BY <1>0, <1>2, <1>4, FoldExists
<1>6. Runs(it)
  <2>1. \A s \in SUBSET (1..n) : it[s] = IF s = {} THEN d ELSE CopyObservation(it[Before(s)], d, old, i, ids[Max(s)])
    BY <1>5 DEF RunOf
  <2> QED BY <1>5, <2>1
<1>7. Runs(c)
    BY <1>6
<1> HIDE DEF c
<1> DEFINE P == [s \in SUBSET (1..n) |-> D]
<1>8. \A s \in SUBSET (1..n) : s # {} => Before(s) \in SUBSET (1..n) /\ Max(s) \in 1..n
    BY <1>0, BeforeSmaller
<1>9. ASSUME NEW s \in SUBSET (1..n), s # {} => c[Before(s)] \in P[Before(s)] PROVE c[s] \in P[s]
  <2>1. CASE s = {}
    BY <1>2, <1>7, <2>1
  <2>2. CASE s # {}
    <3>1. c[Before(s)] \in D /\ c[s] = CopyObservation(c[Before(s)], d, old, i, ids[Max(s)])
        BY <1>7, <1>8, <1>9, <2>2
    <3> QED BY <1>3, <1>8, <2>2, <3>1
  <2> QED BY <2>1, <2>2
<1> HIDE DEF P
<1>10. c[1..n] \in P[1..n]
    BY <1>0, <1>9, FoldReaches
<1> QED BY <1>1, <1>10 DEF D, P

\* The delete trigger takes exactly the deleted rows out of obs_fts.
LEMMA DeleteObservationRowsSound ==
    ASSUME NEW d, Sound(d), NEW os
    PROVE  Sound(DeleteObservationRows(d, os)) /\ SameGraph(d, DeleteObservationRows(d, os))
<1> DEFINE gone == {<<o, d.observation[o].body>> : o \in os \cap DOMAIN d.observation}
           t == Without(d.observation, os)
           R == [entity : DOMAIN d.entity, body : Bodies]
           e == DeleteObservationRows(d, os)
<1>1. e = [d EXCEPT !.observation = t, !.obs_fts = d.obs_fts \ gone] /\ IsStore(d)
    BY DEF DeleteObservationRows, Sound, CountersOK
<1> HIDE DEF gone, t, e
<1>2. /\ e.entity = d.entity /\ e.relation = d.relation /\ e.mirror = d.mirror
      /\ e.relobs = d.relobs /\ e.attribute = d.attribute /\ e.name_fts = d.name_fts
      /\ e.rel_obs_fts = d.rel_obs_fts /\ e.type_dict = d.type_dict /\ e.described = d.described
      /\ e.stat = d.stat /\ e.seq = d.seq /\ e.observation = t /\ e.obs_fts = d.obs_fts \ gone /\ IsStore(e)
    BY <1>1 DEF IsStore
<1>3. CountersOK(e)
    BY <1>2 DEF Sound, CountersOK
<1>4. EntitiesOK(e) /\ MirrorsOK(e) /\ Live(e) = Live(d) /\ DOMAIN e.entity = DOMAIN d.entity
    BY <1>2, SameEntities, SameMirrors DEF Sound
<1>5. RelationObservationsOK(e) /\ AttributesOK(e)
    BY <1>2, <1>4, SameRelationObservations, SameAttributes DEF Sound
<1>6. ObservationsOK(e)
  <2>1. IsTable(d.observation, 1..d.seq.obs, R) /\ d.obs_fts = Texts(d.observation)
    BY DEF Sound, ObservationsOK
  <2> HIDE DEF R
  <2>2. IsTable(t, 1..d.seq.obs, R)
    BY <2>1, WithoutRows DEF t
  <2>3. Texts(t) = Texts(d.observation) \ gone
    BY WithoutTexts DEF t, gone
  <2> QED BY <1>2, <2>1, <2>2, <2>3 DEF ObservationsOK, R
<1> QED BY <1>2, <1>3, <1>4, <1>5, <1>6 DEF Sound, SameGraph, e

\* The texts of relations: rows of a live mirror.
LEMMA InsertRelationObservationSound ==
    ASSUME NEW d, Sound(d), NEW m \in Live(d), NEW b \in Bodies
    PROVE  Sound(InsertRelationObservation(d, m, b)) /\ SameGraph(d, InsertRelationObservation(d, m, b))
<1> DEFINE o == d.seq.rel_obs + 1
           row == [mirror |-> m, body |-> b]
           t == With(d.relobs, o, row)
           e == InsertRelationObservation(d, m, b)
           R == [mirror : Live(d), body : Bodies]
<1>0. d \in Stores /\ d.seq.rel_obs \in Nat /\ IsStore(d)
    BY SoundIsStore, Fields DEF Sound, CountersOK
<1>1. e = [d EXCEPT !.seq = [d.seq EXCEPT !.rel_obs = o], !.relobs = t,
                    !.rel_obs_fts = d.rel_obs_fts \cup {<<o, b>>},
                    !.stat = [d.stat EXCEPT !.relation_obs = d.stat.relation_obs + 1]]
    BY <1>0 DEF InsertRelationObservation, Stores
<1>2. /\ e.entity = d.entity /\ e.relation = d.relation /\ e.mirror = d.mirror
      /\ e.observation = d.observation /\ e.attribute = d.attribute /\ e.name_fts = d.name_fts
      /\ e.obs_fts = d.obs_fts /\ e.type_dict = d.type_dict /\ e.described = d.described
      /\ e.relobs = t /\ e.rel_obs_fts = d.rel_obs_fts \cup {<<o, b>>}
      /\ e.seq.entity = d.seq.entity /\ e.seq.obs = d.seq.obs /\ e.seq.rel_obs = o
    BY <1>0, <1>1 DEF Stores
<1>3. CountersOK(e)
  <2>1. e.seq \in [entity : Nat, obs : Nat, rel_obs : Nat]
    BY <1>0, <1>1 DEF Stores
  <2>2. e.stat \in [entities : Int, relations : Int, observations : Int, relation_obs : Int]
    BY <1>0, <1>1 DEF Stores
  <2>3. IsStore(e)
    BY <1>0, <1>1 DEF IsStore
  <2> HIDE DEF e
  <2> QED BY <1>2, <2>1, <2>2, <2>3 DEF Sound, CountersOK
<1> HIDE DEF e, t
<1>4. EntitiesOK(e) /\ MirrorsOK(e) /\ Live(e) = Live(d) /\ DOMAIN e.entity = DOMAIN d.entity
    BY <1>2, SameEntities, SameMirrors DEF Sound
<1>5. ObservationsOK(e) /\ AttributesOK(e)
    BY <1>2, <1>4, SameObservations, SameAttributes DEF Sound
<1>6. RelationObservationsOK(e)
  <2>1. IsTable(d.relobs, 1..d.seq.rel_obs, R) /\ d.rel_obs_fts = Texts(d.relobs)
    BY DEF Sound, RelationObservationsOK
  <2>2. row \in R /\ row.body = b /\ 1..d.seq.rel_obs \subseteq 1..o /\ o \in 1..o /\ o \notin 1..d.seq.rel_obs
    BY <1>0
  <2> HIDE DEF row, o, R
  <2>3. IsTable(t, 1..o, R)
    BY <2>1, <2>2, WithRow DEF t
  <2>4. o \notin DOMAIN d.relobs
    BY <2>1, <2>2 DEF IsTable
  <2>5. Texts(t) = Texts(d.relobs) \cup {<<o, b>>}
    BY <2>2, <2>4, WithText DEF t
  <2> QED BY <1>2, <1>4, <2>1, <2>3, <2>5 DEF RelationObservationsOK, R
<1> QED BY <1>2, <1>3, <1>4, <1>5, <1>6 DEF Sound, SameGraph, e

\* insert_relation_observations, text by text.
LEMMA InsertRelationObservationsSound ==
    ASSUME NEW d, Sound(d), NEW m \in Live(d), NEW items \in Seq(Bodies)
    PROVE  Sound(insert_relation_observations(d, m, items)) /\ SameGraph(d, insert_relation_observations(d, m, items))
<1> DEFINE n == Len(items)
           D == {e \in Stores : Sound(e) /\ SameGraph(d, e)}
           g == [p \in D \X (1..n) |-> InsertRelationObservation(p[1], m, items[p[2]])]
           Runs(it) == it = [s \in SUBSET (1..n) |->
                                IF s = {} THEN d ELSE InsertRelationObservation(it[Before(s)], m, items[Max(s)])]
           c == CHOOSE it : Runs(it)
<1>0. n \in Nat /\ DOMAIN items = 1..n /\ \A k \in 1..n : items[k] \in Bodies
    OBVIOUS
<1>1. insert_relation_observations(d, m, items) = c[1..n]
    BY <1>0 DEF insert_relation_observations, FoldLeft, MapThenFoldSet, Before
<1>2. d \in D
    BY SoundIsStore DEF SameGraph
<1>3. ASSUME NEW e \in D, NEW k \in 1..n PROVE InsertRelationObservation(e, m, items[k]) \in D
  <2>1. m \in Live(e)
    BY SameMirrors DEF SameGraph, Sound
  <2>2. Sound(InsertRelationObservation(e, m, items[k])) /\ SameGraph(e, InsertRelationObservation(e, m, items[k]))
    BY <1>0, <2>1, InsertRelationObservationSound DEF SameGraph
  <2> QED BY <2>2, SoundIsStore DEF SameGraph
<1> HIDE DEF n, D
<1>4. g \in [D \X (1..n) -> D]
    BY <1>3
<1>5. PICK it : /\ it \in [SUBSET (1..n) -> D] /\ RunOf(d, n, g, it, SUBSET (1..n))
                /\ \A s \in SUBSET (1..n) : s # {} => it[Before(s)] \in D /\ Max(s) \in 1..n
    BY <1>0, <1>2, <1>4, FoldExists
<1>6. Runs(it)
  <2>1. \A s \in SUBSET (1..n) : it[s] = IF s = {} THEN d ELSE InsertRelationObservation(it[Before(s)], m, items[Max(s)])
    BY <1>5 DEF RunOf
  <2> QED BY <1>5, <2>1
<1>7. Runs(c)
    BY <1>6
<1> HIDE DEF c
<1> DEFINE P == [s \in SUBSET (1..n) |-> D]
<1>8. \A s \in SUBSET (1..n) : s # {} => Before(s) \in SUBSET (1..n) /\ Max(s) \in 1..n
    BY <1>0, BeforeSmaller
<1>9. ASSUME NEW s \in SUBSET (1..n), s # {} => c[Before(s)] \in P[Before(s)] PROVE c[s] \in P[s]
  <2>1. CASE s = {}
    BY <1>2, <1>7, <2>1
  <2>2. CASE s # {}
    <3>1. c[Before(s)] \in D /\ c[s] = InsertRelationObservation(c[Before(s)], m, items[Max(s)])
        BY <1>7, <1>8, <1>9, <2>2
    <3> QED BY <1>3, <1>8, <2>2, <3>1
  <2> QED BY <2>1, <2>2
<1> HIDE DEF P
<1>10. c[1..n] \in P[1..n]
    BY <1>0, <1>9, FoldReaches
<1> QED BY <1>1, <1>10 DEF D, P

\* The delete trigger takes exactly the deleted rows out of rel_obs_fts.
LEMMA DeleteRelationObservationRowsSound ==
    ASSUME NEW d, Sound(d), NEW os
    PROVE  LET e == DeleteRelationObservationRows(d, os)
           IN  /\ Sound(e) /\ SameGraph(d, e) /\ e.attribute = d.attribute
               /\ DOMAIN e.relobs = DOMAIN d.relobs \ os
               /\ \A o \in DOMAIN d.relobs \ os : e.relobs[o] = d.relobs[o]
<1> DEFINE gone == {<<o, d.relobs[o].body>> : o \in os \cap DOMAIN d.relobs}
           t == Without(d.relobs, os)
           R == [mirror : Live(d), body : Bodies]
           e == DeleteRelationObservationRows(d, os)
<1>1. e = [d EXCEPT !.relobs = t, !.rel_obs_fts = d.rel_obs_fts \ gone] /\ IsStore(d)
    BY DEF DeleteRelationObservationRows, Sound, CountersOK
<1> HIDE DEF gone, t, e
<1>2. /\ e.entity = d.entity /\ e.relation = d.relation /\ e.mirror = d.mirror
      /\ e.observation = d.observation /\ e.attribute = d.attribute /\ e.name_fts = d.name_fts
      /\ e.obs_fts = d.obs_fts /\ e.type_dict = d.type_dict /\ e.described = d.described
      /\ e.stat = d.stat /\ e.seq = d.seq /\ e.relobs = t /\ e.rel_obs_fts = d.rel_obs_fts \ gone /\ IsStore(e)
    BY <1>1 DEF IsStore
<1>3. CountersOK(e)
    BY <1>2 DEF Sound, CountersOK
<1>4. EntitiesOK(e) /\ MirrorsOK(e) /\ Live(e) = Live(d) /\ DOMAIN e.entity = DOMAIN d.entity
    BY <1>2, SameEntities, SameMirrors DEF Sound
<1>5. ObservationsOK(e) /\ AttributesOK(e)
    BY <1>2, <1>4, SameObservations, SameAttributes DEF Sound
<1>6. IsTable(d.relobs, 1..d.seq.rel_obs, R) /\ d.rel_obs_fts = Texts(d.relobs)
    BY DEF Sound, RelationObservationsOK
<1>7. RelationObservationsOK(e)
  <2> HIDE DEF R
  <2>2. IsTable(t, 1..d.seq.rel_obs, R)
    BY <1>6, WithoutRows DEF t
  <2>3. Texts(t) = Texts(d.relobs) \ gone
    BY WithoutTexts DEF t, gone
  <2> QED BY <1>2, <1>4, <1>6, <2>2, <2>3 DEF RelationObservationsOK, R
<1>8. DOMAIN t = DOMAIN d.relobs \ os /\ \A o \in DOMAIN d.relobs \ os : t[o] = d.relobs[o]
    BY DEF t, Without
<1> QED BY <1>2, <1>3, <1>4, <1>5, <1>7, <1>8 DEF Sound, SameGraph, e

\* The counters and the type dictionary may be anything of their type.
LEMMA CountersSound ==
    ASSUME NEW d, Sound(d), NEW e, CountersOK(e), SameGraph(d, e), e.observation = d.observation,
           e.relobs = d.relobs, e.attribute = d.attribute, e.name_fts = d.name_fts, e.obs_fts = d.obs_fts,
           e.rel_obs_fts = d.rel_obs_fts, e.seq = d.seq
    PROVE  Sound(e)
<1>1. EntitiesOK(e) /\ MirrorsOK(e) /\ Live(e) = Live(d) /\ DOMAIN e.entity = DOMAIN d.entity
    BY SameEntities, SameMirrors DEF Sound, SameGraph
<1>2. ObservationsOK(e) /\ AttributesOK(e) /\ RelationObservationsOK(e)
    BY <1>1, SameObservations, SameAttributes, SameRelationObservations DEF Sound
<1> QED BY <1>1, <1>2 DEF Sound

\* graph_stat is no part of the graph.
LEMMA StatSound ==
    ASSUME NEW d, Sound(d), NEW st \in [entities : Int, relations : Int, observations : Int, relation_obs : Int]
    PROVE  Sound([d EXCEPT !.stat = st]) /\ SameGraph(d, [d EXCEPT !.stat = st])
<1> DEFINE e == [d EXCEPT !.stat = st]
<1>1. IsStore(d)
    BY DEF Sound, CountersOK
<1>2. /\ SameGraph(d, e) /\ e.observation = d.observation /\ e.relobs = d.relobs /\ e.attribute = d.attribute
      /\ e.name_fts = d.name_fts /\ e.obs_fts = d.obs_fts /\ e.rel_obs_fts = d.rel_obs_fts /\ e.seq = d.seq
      /\ e.type_dict = d.type_dict /\ e.described = d.described /\ e.relation = d.relation /\ e.stat = st
      /\ IsStore(e)
    BY <1>1 DEF IsStore, SameGraph
<1> HIDE DEF e
<1>3. CountersOK(e)
    BY <1>2 DEF Sound, CountersOK
<1>4. Sound(e)
    BY <1>2, <1>3, CountersSound
<1> QED BY <1>2, <1>4 DEF e

\* Deleted relation observations and their counter.
LEMMA DropRelationObservationsSound ==
    ASSUME NEW d, Sound(d), NEW os \in SUBSET DOMAIN d.relobs
    PROVE  Sound(DropRelationObservations(d, os)) /\ SameGraph(d, DropRelationObservations(d, os))
<1> DEFINE e == DeleteRelationObservationRows(d, os)
           st == [e.stat EXCEPT !.relation_obs = e.stat.relation_obs - Cardinality(os)]
<1>1. Sound(e) /\ SameGraph(d, e)
    BY DeleteRelationObservationRowsSound
<1>2. Cardinality(os) \in Nat
  <2>1. os \in SUBSET (1..d.seq.rel_obs) /\ d.seq.rel_obs \in Nat
    BY Fields DEF Sound, RelationObservationsOK, IsTable
  <2> QED BY <2>1, Indexes
<1> HIDE DEF e
<1>3. st \in [entities : Int, relations : Int, observations : Int, relation_obs : Int]
    BY <1>1, <1>2 DEF Sound, CountersOK
<1>4. DropRelationObservations(d, os) = [e EXCEPT !.stat = st]
  <2>1. IsStore(e)
    BY <1>1 DEF Sound, CountersOK
  <2> QED BY <2>1 DEF DropRelationObservations, e, IsStore
<1> HIDE DEF st
<1>5. Sound([e EXCEPT !.stat = st]) /\ SameGraph(e, [e EXCEPT !.stat = st])
    BY <1>1, <1>3, StatSound
<1> QED BY <1>1, <1>4, <1>5 DEF SameGraph

\* type_id registers a type and touches no row.
LEMMA TypeIdSound ==
    ASSUME NEW d, Sound(d), NEW kind, NEW t, <<kind, t>> \in TypeKeys
    PROVE  LET e == type_id(d, kind, t) IN Sound(e) /\ SameGraph(d, e) /\ e.seq = d.seq
<1> DEFINE key == <<kind, t>>
           u == With(d.type_dict, key, 0)
           e == [d EXCEPT !.type_dict = u]
<1>1. IsStore(d) /\ IsTable(d.type_dict, TypeKeys, Int)
    BY DEF Sound, CountersOK
<1>2. IsTable(u, TypeKeys, Int)
  <2>1. key \in TypeKeys /\ 0 \in Int /\ TypeKeys \subseteq TypeKeys
    OBVIOUS
  <2> HIDE DEF key
  <2> QED BY <1>1, <2>1, WithRow
<1> HIDE DEF u
<1>3. /\ SameGraph(d, e) /\ e.observation = d.observation /\ e.relobs = d.relobs /\ e.attribute = d.attribute
      /\ e.name_fts = d.name_fts /\ e.obs_fts = d.obs_fts /\ e.rel_obs_fts = d.rel_obs_fts /\ e.seq = d.seq
      /\ e.type_dict = u /\ e.described = d.described /\ e.relation = d.relation /\ e.stat = d.stat
      /\ IsStore(e)
    BY <1>1 DEF IsStore, SameGraph
<1> HIDE DEF e
<1>4. CountersOK(e)
    BY <1>2, <1>3 DEF Sound, CountersOK
<1>5. Sound(e)
    BY <1>3, <1>4, CountersSound
<1>6. type_id(d, kind, t) = d \/ type_id(d, kind, t) = e
    BY DEF type_id, e, u, key
<1> QED BY <1>3, <1>5, <1>6 DEF SameGraph

\* Attributes hang on an entity or on a live mirror.
Owned(d) == ({"entity"} \X (DOMAIN d.entity)) \cup ({"relation"} \X Live(d))

\* Attributes may change as long as their owners live.
LEMMA AttributesSound ==
    ASSUME NEW d, Sound(d), NEW u, NEW e, e = [d EXCEPT !.attribute = u],
           IsTable(u, ({"entity"} \X (DOMAIN d.entity) \X AttrKeys) \cup ({"relation"} \X Live(d) \X AttrKeys), AttrValues)
    PROVE  Sound(e) /\ SameGraph(d, e) /\ e.relobs = d.relobs /\ e.attribute = u /\ e.seq = d.seq
<1>1. IsStore(d)
    BY DEF Sound, CountersOK
<1>2. /\ e.entity = d.entity /\ e.relation = d.relation /\ e.mirror = d.mirror
      /\ e.observation = d.observation /\ e.relobs = d.relobs /\ e.attribute = u
      /\ e.name_fts = d.name_fts /\ e.obs_fts = d.obs_fts /\ e.rel_obs_fts = d.rel_obs_fts /\ e.seq = d.seq
      /\ e.type_dict = d.type_dict /\ e.described = d.described /\ e.stat = d.stat /\ IsStore(e)
    BY <1>1 DEF IsStore
<1>3. EntitiesOK(e) /\ MirrorsOK(e) /\ Live(e) = Live(d) /\ DOMAIN e.entity = DOMAIN d.entity
    BY <1>2, SameEntities, SameMirrors DEF Sound
<1>4. ObservationsOK(e) /\ RelationObservationsOK(e)
    BY <1>2, <1>3, SameObservations, SameRelationObservations DEF Sound
<1>5. AttributesOK(e)
    BY <1>2, <1>3 DEF AttributesOK
<1>6. CountersOK(e)
    BY <1>2 DEF Sound, CountersOK
<1> QED BY <1>2, <1>3, <1>4, <1>5, <1>6 DEF Sound, SameGraph

\* upsert_attributes on an owner that lives.
LEMMA UpsertAttributesSound ==
    ASSUME NEW d, Sound(d), NEW kind, NEW owner, <<kind, owner>> \in Owned(d), NEW attributes \in Attributes
    PROVE  LET e == upsert_attributes(d, kind, owner, attributes) IN Sound(e) /\ SameGraph(d, e)
<1> DEFINE K == ({"entity"} \X (DOMAIN d.entity) \X AttrKeys) \cup ({"relation"} \X Live(d) \X AttrKeys)
           W == {<<kind, owner, key>> : key \in DOMAIN attributes}
           written == [k \in W |-> attributes[k[3]]]
           e == upsert_attributes(d, kind, owner, attributes)
<1>1. e = [d EXCEPT !.attribute = Over(written, d.attribute)]
    BY DEF upsert_attributes, Sound, CountersOK, IsStore
<1>2. DOMAIN attributes \subseteq AttrKeys /\ \A key \in DOMAIN attributes : attributes[key] \in AttrValues
    BY DEF Attributes
<1>3. W \subseteq K
    BY <1>2 DEF Owned
<1>4. \A k \in W : written[k] \in AttrValues
    BY <1>2
<1>5. IsTable(written, K, AttrValues)
    BY <1>3, <1>4 DEF IsTable
<1>6. IsTable(d.attribute, K, AttrValues)
    BY DEF Sound, AttributesOK
<1> HIDE DEF written
<1>7. IsTable(Over(written, d.attribute), K, AttrValues)
  <2> HIDE DEF K
  <2> QED BY <1>5, <1>6, OverRows
<1> HIDE DEF e
<1> QED BY <1>1, <1>7, AttributesSound DEF e

\* delete_attribute_keys leaves owners alone.
LEMMA DeleteAttributeKeysSound ==
    ASSUME NEW d, Sound(d), NEW kind, NEW owner, NEW keys
    PROVE  LET e == delete_attribute_keys(d, kind, owner, keys)
           IN  /\ Sound(e) /\ SameGraph(d, e) /\ e.relobs = d.relobs
               /\ DOMAIN e.attribute = DOMAIN d.attribute \ {<<kind, owner, key>> : key \in keys}
<1> DEFINE K == ({"entity"} \X (DOMAIN d.entity) \X AttrKeys) \cup ({"relation"} \X Live(d) \X AttrKeys)
           G == {<<kind, owner, key>> : key \in keys}
           u == Without(d.attribute, G)
           e == delete_attribute_keys(d, kind, owner, keys)
<1>1. e = [d EXCEPT !.attribute = u]
    BY DEF delete_attribute_keys, Sound, CountersOK, IsStore
<1>2. IsTable(d.attribute, K, AttrValues)
    BY DEF Sound, AttributesOK
<1> HIDE DEF G, e
<1>3. IsTable(u, K, AttrValues) /\ DOMAIN u = DOMAIN d.attribute \ G
  <2> HIDE DEF K
  <2> QED BY <1>2, WithoutRows
<1> HIDE DEF u
<1>4. Sound(e) /\ SameGraph(d, e) /\ e.relobs = d.relobs /\ e.attribute = u
    BY <1>1, <1>3, AttributesSound
<1> QED BY <1>3, <1>4 DEF e, G

-----------------------------------------------------------------------------
(* Mirrors *)

\* A rowid that no mirror has.
LEMMA NextMirrorIsNew ==
    ASSUME NEW d, MirrorsOK(d)
    PROVE  NextMirror(d) \in Nat /\ \A k \in DOMAIN d.mirror : k < NextMirror(d)
<1> DEFINE M == DOMAIN d.mirror
<1>1. M \subseteq Nat /\ (M # {} => \E m \in M : \A k \in M : k <= m)
    BY DEF MirrorsOK, IsTable
<1>2. CASE M = {}
  <2>1. d.mirror = Empty
    BY <1>2 DEF MirrorsOK, IsTable, Empty
  <2> QED BY <1>2, <2>1 DEF NextMirror
<1>3. CASE M # {}
  <2>1. d.mirror # Empty
    BY <1>3 DEF Empty
  <2> DEFINE x == CHOOSE m \in M : \A k \in M : k <= m
  <2>2. x \in M /\ \A k \in M : k <= x
    BY <1>1, <1>3
  <2>3. NextMirror(d) = 1 + x
    BY <2>1 DEF NextMirror
  <2> HIDE DEF x
  <2> QED BY <1>1, <2>2, <2>3
<1> QED BY <1>2, <1>3

\* e has d's mirrors but for the one of r, which is m.
Puts(d, e, m, r, del) == m = MirrorFor(d, r) /\ e.mirror = With(d.mirror, m, [triple |-> r, deleted |-> del])

\* The upsert of a mirror: a new row, or the triple's own.
LEMMA PutMirrorRow ==
    ASSUME NEW d, MirrorsOK(d), NEW r \in Links, NEW del \in BOOLEAN, NEW m, NEW e, Puts(d, e, m, r, del)
    PROVE  /\ MirrorsOK(e) /\ MirrorsOf(e, r) = {m} /\ DOMAIN e.mirror = DOMAIN d.mirror \cup {m}
           /\ e.mirror[m] = [triple |-> r, deleted |-> del]
           /\ \A k \in DOMAIN d.mirror : k # m => e.mirror[k] = d.mirror[k] /\ d.mirror[k].triple # r
           /\ m \in DOMAIN d.mirror => d.mirror[m].triple = r
<1> DEFINE row == [triple |-> r, deleted |-> del]
           R == [triple : Links, deleted : BOOLEAN]
<1>0. m = MirrorFor(d, r) /\ e.mirror = With(d.mirror, m, row)
    BY DEF Puts
<1>1. /\ IsTable(d.mirror, Nat, R) /\ DOMAIN d.mirror \subseteq Nat
      /\ \A x, y \in DOMAIN d.mirror : d.mirror[x].triple = d.mirror[y].triple => x = y
    BY DEF MirrorsOK, IsTable
<1>2. /\ m \in Nat
      /\ m \notin DOMAIN d.mirror => MirrorsOf(d, r) = {} /\ \A k \in DOMAIN d.mirror : k < m
      /\ m \in DOMAIN d.mirror => d.mirror[m].triple = r
  <2>1. CASE MirrorsOf(d, r) = {}
    BY <1>0, <1>1, <2>1, NextMirrorIsNew DEF MirrorFor
  <2>2. CASE MirrorsOf(d, r) # {}
    <3>1. m \in MirrorsOf(d, r)
        BY <1>0, <2>2 DEF MirrorFor
    <3> QED BY <1>1, <3>1 DEF MirrorsOf
  <2> QED BY <2>1, <2>2
<1>3. \A k \in DOMAIN d.mirror : k # m => d.mirror[k].triple # r
    BY <1>1, <1>2 DEF MirrorsOf
<1>4. row \in R /\ row.triple = r
    OBVIOUS
<1> HIDE DEF row
<1>5. /\ IsTable(e.mirror, Nat, R) /\ DOMAIN e.mirror = DOMAIN d.mirror \cup {m}
      /\ e.mirror[m] = row /\ \A x \in DOMAIN d.mirror : x # m => e.mirror[x] = d.mirror[x]
    BY <1>0, <1>1, <1>2, <1>4 DEF With, IsTable
<1>6. \A x, y \in DOMAIN e.mirror : e.mirror[x].triple = e.mirror[y].triple => x = y
    BY <1>1, <1>3, <1>4, <1>5
<1>7. \E b \in DOMAIN e.mirror : \A k \in DOMAIN e.mirror : k <= b
  <2>1. CASE m \in DOMAIN d.mirror
    <3>1. DOMAIN e.mirror = DOMAIN d.mirror /\ DOMAIN d.mirror # {}
        BY <1>5, <2>1
    <3> QED BY <3>1 DEF MirrorsOK
  <2>2. CASE m \notin DOMAIN d.mirror
    <3>1. \A k \in DOMAIN e.mirror : k <= m
        BY <1>1, <1>2, <1>5, <2>2
    <3> QED BY <1>5, <3>1
  <2> QED BY <2>1, <2>2
<1>8. MirrorsOK(e)
    BY <1>5, <1>6, <1>7 DEF MirrorsOK
<1>9. MirrorsOf(e, r) = {m}
    BY <1>3, <1>4, <1>5 DEF MirrorsOf
<1> QED BY <1>2, <1>3, <1>5, <1>8, <1>9 DEF row

\* What hangs on a mirror hangs on one of these.
HangOn(d, L) ==
    /\ \A o \in DOMAIN d.relobs : d.relobs[o].mirror \in L
    /\ \A k \in DOMAIN d.attribute : k[1] = "relation" => k[2] \in L

\* A store whose mirrors change under what hangs on them.
LEMMA MirrorChange ==
    ASSUME NEW d, Sound(d), NEW mm, NEW e, e = [d EXCEPT !.mirror = mm], MirrorsOK(e), HangOn(d, Live(e))
    PROVE  Sound(e) /\ e.entity = d.entity /\ e.relation = d.relation /\ e.name_fts = d.name_fts
<1>1. IsStore(d)
    BY DEF Sound, CountersOK
<1>2. /\ e.entity = d.entity /\ e.relation = d.relation /\ e.mirror = mm
      /\ e.observation = d.observation /\ e.relobs = d.relobs /\ e.attribute = d.attribute
      /\ e.name_fts = d.name_fts /\ e.obs_fts = d.obs_fts /\ e.rel_obs_fts = d.rel_obs_fts /\ e.seq = d.seq
      /\ e.type_dict = d.type_dict /\ e.described = d.described /\ e.stat = d.stat /\ IsStore(e)
    BY <1>1 DEF IsStore
<1>3. EntitiesOK(e) /\ ObservationsOK(e)
    BY <1>2, SameEntities, SameObservations DEF Sound
<1>4. RelationObservationsOK(e)
  <2>1. IsTable(d.relobs, 1..d.seq.rel_obs, [mirror : Live(d), body : Bodies]) /\ d.rel_obs_fts = Texts(d.relobs)
    BY DEF Sound, RelationObservationsOK
  <2>2. \A o \in DOMAIN d.relobs : d.relobs[o] \in [mirror : Live(e), body : Bodies]
    BY <2>1 DEF HangOn, IsTable
  <2> QED BY <1>2, <2>1, <2>2 DEF RelationObservationsOK, IsTable
<1>5. AttributesOK(e)
  <2> DEFINE K(L) == ({"entity"} \X (DOMAIN d.entity) \X AttrKeys) \cup ({"relation"} \X L \X AttrKeys)
  <2>1. IsTable(d.attribute, K(Live(d)), AttrValues)
    BY DEF Sound, AttributesOK
  <2>2. \A k \in DOMAIN d.attribute : k \in K(Live(e))
    <3> TAKE k \in DOMAIN d.attribute
    <3>1. k \in K(Live(d))
        BY <2>1 DEF IsTable
    <3>2. k[1] = "relation" => k[2] \in Live(e)
        BY DEF HangOn
    <3> QED BY <3>1, <3>2
  <2> QED BY <1>2, <2>1, <2>2 DEF AttributesOK, IsTable
<1>6. CountersOK(e)
    BY <1>2 DEF Sound, CountersOK
<1> QED BY <1>2, <1>3, <1>4, <1>5, <1>6 DEF Sound

\* A finite set as a sequence: each member at some place.
LEMMA Sequenced ==
    ASSUME NEW S, IsFiniteSet(S)
    PROVE  LET q == SetToSeq(S)
           IN  /\ Cardinality(S) \in Nat /\ DOMAIN q = 1..Cardinality(S)
               /\ \A k \in 1..Cardinality(S) : q[k] \in S
               /\ \A x \in S : \E k \in 1..Cardinality(S) : q[k] = x
<1> DEFINE n == Cardinality(S)
           q == SetToSeq(S)
<1>1. n \in Nat /\ ExistsBijection(1..n, S)
    BY FS_CardinalityType
<1>2. \E f \in [1..n -> S] : IsInjective(f)
    BY <1>1 DEF ExistsBijection, Bijection, Injection
<1>3. q \in [1..n -> S] /\ IsInjective(q)
    BY <1>2 DEF SetToSeq
<1> HIDE DEF q
<1>4. q \in Injection(1..n, S) /\ Cardinality(1..n) = n
    BY <1>1, <1>3, FS_Interval DEF Injection
<1>5. q \in Surjection(1..n, S)
    BY <1>4, FS_Injection
<1> QED BY <1>1, <1>3, <1>5 DEF Surjection, q

\* What was on the mirror goes with it.
LEMMA TombstoneSound ==
    ASSUME NEW d, Sound(d), NEW r \in Links
    PROVE  LET e == tombstone_relation_mirror(d, r)
           IN  Sound(e) /\ e.entity = d.entity /\ e.relation = d.relation /\ e.name_fts = d.name_fts /\ Mirrored(e) = Mirrored(d) \ {r}
<1> DEFINE m == MirrorFor(d, r)
           mm == With(d.mirror, m, [triple |-> r, deleted |-> TRUE])
           d1 == PutMirror(d, r, TRUE)
           os == {o \in DOMAIN d.relobs : d.relobs[o].mirror = m}
           f1 == DeleteRelationObservationRows(d, os)
           f2 == delete_attribute_keys(f1, "relation", m, AttrKeys)
           e == [f2 EXCEPT !.mirror = mm]
<1>0. IsStore(d) /\ MirrorsOK(d)
    BY DEF Sound, CountersOK
<1>1. d1 = [d EXCEPT !.mirror = mm]
    BY <1>0 DEF PutMirror, IsStore
<1>2. d1.mirror = mm /\ d1.relobs = d.relobs
    BY <1>0, <1>1 DEF IsStore
<1>3. /\ MirrorsOK(d1) /\ MirrorsOf(d1, r) = {m} /\ DOMAIN mm = DOMAIN d.mirror \cup {m}
      /\ mm[m] = [triple |-> r, deleted |-> TRUE]
      /\ \A k \in DOMAIN d.mirror : k # m => mm[k] = d.mirror[k] /\ d.mirror[k].triple # r
      /\ m \in DOMAIN d.mirror => d.mirror[m].triple = r
  <2> HIDE DEF m, d1
  <2>1. Puts(d, d1, m, r, TRUE)
    BY <1>2 DEF m, Puts
  <2>2. /\ MirrorsOK(d1) /\ MirrorsOf(d1, r) = {m} /\ DOMAIN d1.mirror = DOMAIN d.mirror \cup {m}
        /\ d1.mirror[m] = [triple |-> r, deleted |-> TRUE]
        /\ \A k \in DOMAIN d.mirror : k # m => d1.mirror[k] = d.mirror[k] /\ d.mirror[k].triple # r
        /\ m \in DOMAIN d.mirror => d.mirror[m].triple = r
    BY <1>0, <2>1, PutMirrorRow
  <2> HIDE DEF mm
  <2> QED BY <1>2, <2>2
<1>4. (CHOOSE k \in MirrorsOf(d1, r) : TRUE) = m
    BY <1>3
<1>5. tombstone_relation_mirror(d, r)
        = delete_attribute_keys(DeleteRelationObservationRows(d1, os), "relation", m, AttrKeys)
  <2> HIDE DEF m
  <2> QED BY <1>2, <1>4 DEF tombstone_relation_mirror
<1>6. tombstone_relation_mirror(d, r) = e
  <2> DEFINE t == Without(d.relobs, os)
             x == d.rel_obs_fts \ {<<o, d.relobs[o].body>> : o \in os \cap DOMAIN d.relobs}
             u == Without(d.attribute, {<<"relation", m, key>> : key \in AttrKeys})
             d2 == DeleteRelationObservationRows(d1, os)
  <2> HIDE DEF mm, m, os
  <2>1. f1 = [d EXCEPT !.relobs = t, !.rel_obs_fts = x]
    BY DEF DeleteRelationObservationRows
  <2>2. d1.relobs = d.relobs /\ d1.rel_obs_fts = d.rel_obs_fts /\ d1.attribute = d.attribute
    BY <1>0, <1>1 DEF IsStore
  <2> HIDE DEF d1
  <2>3. d2 = [d1 EXCEPT !.relobs = t, !.rel_obs_fts = x]
    BY <2>2 DEF DeleteRelationObservationRows
  <2> HIDE DEF t, x, d2, f1
  <2>4. d2.attribute = d.attribute /\ f1.attribute = d.attribute
    BY <1>0, <1>1, <2>1, <2>3 DEF IsStore
  <2>5. f2 = [f1 EXCEPT !.attribute = u] /\ delete_attribute_keys(d2, "relation", m, AttrKeys) = [d2 EXCEPT !.attribute = u]
    BY <2>4 DEF delete_attribute_keys
  <2> HIDE DEF u, f2
  <2> QED BY <1>0, <1>1, <1>5, <2>1, <2>3, <2>5 DEF IsStore, d2
<1>7. /\ Sound(f1) /\ SameGraph(d, f1) /\ f1.attribute = d.attribute
      /\ DOMAIN f1.relobs = DOMAIN d.relobs \ os /\ \A o \in DOMAIN d.relobs \ os : f1.relobs[o] = d.relobs[o]
    BY DeleteRelationObservationRowsSound
<1> HIDE DEF f1
<1>8. /\ Sound(f2) /\ SameGraph(f1, f2) /\ f2.relobs = f1.relobs
      /\ DOMAIN f2.attribute = DOMAIN d.attribute \ {<<"relation", m, key>> : key \in AttrKeys}
    BY <1>7, DeleteAttributeKeysSound
<1> HIDE DEF f2
<1>9. e.mirror = mm /\ SameGraph(d, f2)
    BY <1>7, <1>8 DEF Sound, CountersOK, IsStore, SameGraph
<1> HIDE DEF mm, m, d1
<1>10. MirrorsOK(e)
    BY <1>2, <1>3, <1>9, SameMirrors
<1>11. Live(e) = Live(d) \ {m}
  <2> HIDE DEF e
  <2> QED BY <1>3, <1>9 DEF Live
<1>12. HangOn(f2, Live(e))
  <2>1. ASSUME NEW o \in DOMAIN f2.relobs PROVE f2.relobs[o].mirror \in Live(e)
    <3>1. o \in DOMAIN d.relobs /\ d.relobs[o].mirror # m /\ f2.relobs[o] = d.relobs[o]
        BY <1>7, <1>8
    <3>2. d.relobs[o].mirror \in Live(d)
        BY <3>1 DEF Sound, RelationObservationsOK, IsTable
    <3> QED BY <1>11, <3>1, <3>2
  <2>2. ASSUME NEW k \in DOMAIN f2.attribute, k[1] = "relation" PROVE k[2] \in Live(e)
    <3>1. k \in ({"entity"} \X (DOMAIN d.entity) \X AttrKeys) \cup ({"relation"} \X Live(d) \X AttrKeys)
        BY <1>8 DEF Sound, AttributesOK, IsTable
    <3>2. k[2] \in Live(d) /\ k[3] \in AttrKeys /\ k = <<"relation", k[2], k[3]>>
        BY <2>2, <3>1
    <3>3. k[2] # m
        BY <1>8, <3>2
    <3> QED BY <1>11, <3>2, <3>3
  <2> HIDE DEF e
  <2> QED BY <2>1, <2>2 DEF HangOn
<1>13. Sound(e) /\ e.entity = f2.entity /\ e.relation = f2.relation /\ e.name_fts = f2.name_fts
    BY <1>8, <1>10, <1>12, MirrorChange
<1> HIDE DEF e
<1>14. Mirrored(e) = Mirrored(d) \ {r}
  <2>1. \A k \in Live(e) : e.mirror[k] = d.mirror[k] /\ d.mirror[k].triple # r
    BY <1>3, <1>9, <1>11 DEF Live
  <2>2. \A k \in Live(d) : d.mirror[k].triple # r => k \in Live(e)
    BY <1>3, <1>11 DEF Live
  <2> QED BY <1>11, <2>1, <2>2 DEF Mirrored
<1> QED BY <1>6, <1>9, <1>13, <1>14 DEF SameGraph

\* The cascade of a delete tombstones every relation of the entity.
LEMMA TombstoneAllSound ==
    ASSUME NEW d, Sound(d), NEW rs \in SUBSET Links, IsFiniteSet(rs)
    PROVE  LET e == TombstoneAll(d, rs)
           IN  Sound(e) /\ e.entity = d.entity /\ e.relation = d.relation /\ e.name_fts = d.name_fts /\ Mirrored(e) = Mirrored(d) \ rs
<1> DEFINE n == Cardinality(rs)
           q == SetToSeq(rs)
           Done(s) == {q[k] : k \in s}
           D == {e \in Stores : Sound(e) /\ e.entity = d.entity /\ e.relation = d.relation /\ e.name_fts = d.name_fts}
           g == [p \in D \X (1..n) |-> tombstone_relation_mirror(p[1], q[p[2]])]
           Runs(it) == it = [s \in SUBSET (1..n) |->
                                IF s = {} THEN d ELSE tombstone_relation_mirror(it[Before(s)], q[Max(s)])]
           c == CHOOSE it : Runs(it)
<1>0. /\ n \in Nat /\ DOMAIN q = 1..n /\ \A k \in 1..n : q[k] \in Links /\ q[k] \in rs
      /\ \A x \in rs : \E k \in 1..n : q[k] = x
    BY Sequenced
<1>1. TombstoneAll(d, rs) = c[1..n]
    BY <1>0 DEF TombstoneAll, FoldLeft, MapThenFoldSet, Before
<1>2. d \in D
    BY SoundIsStore
<1>3. ASSUME NEW e \in D, NEW k \in 1..n PROVE tombstone_relation_mirror(e, q[k]) \in D
  <2> DEFINE a == tombstone_relation_mirror(e, q[k])
  <2>1. Sound(a) /\ a.entity = e.entity /\ a.relation = e.relation /\ a.name_fts = e.name_fts
    BY <1>0, TombstoneSound
  <2> QED BY <2>1, SoundIsStore
<1> HIDE DEF n, D, q
<1>4. g \in [D \X (1..n) -> D]
    BY <1>3
<1>5. PICK it : /\ it \in [SUBSET (1..n) -> D] /\ RunOf(d, n, g, it, SUBSET (1..n))
                /\ \A s \in SUBSET (1..n) : s # {} => it[Before(s)] \in D /\ Max(s) \in 1..n
    BY <1>0, <1>2, <1>4, FoldExists
<1>6. Runs(it)
  <2>1. \A s \in SUBSET (1..n) : it[s] = IF s = {} THEN d ELSE tombstone_relation_mirror(it[Before(s)], q[Max(s)])
    BY <1>5 DEF RunOf
  <2> QED BY <1>5, <2>1
<1>7. Runs(c)
    BY <1>6
<1> HIDE DEF c
<1> DEFINE P == [s \in SUBSET (1..n) |-> {e \in D : Mirrored(e) = Mirrored(d) \ Done(s)}]
<1>8. \A s \in SUBSET (1..n) : s # {} => Before(s) \in SUBSET (1..n) /\ Max(s) \in 1..n
    BY <1>0, BeforeSmaller
<1>9. ASSUME NEW s \in SUBSET (1..n), s # {} => c[Before(s)] \in P[Before(s)] PROVE c[s] \in P[s]
  <2>1. CASE s = {}
    BY <1>2, <1>7, <2>1
  <2>2. CASE s # {}
    <3> DEFINE e == c[Before(s)]
    <3>1. e \in D /\ Mirrored(e) = Mirrored(d) \ Done(Before(s)) /\ c[s] = tombstone_relation_mirror(e, q[Max(s)])
        BY <1>7, <1>8, <1>9, <2>2
    <3>2. s = Before(s) \cup {Max(s)}
        BY <1>0, <2>2, BeforeSmaller
    <3> HIDE DEF e
    <3>3. c[s] \in D
        BY <1>3, <1>8, <2>2, <3>1
    <3>4. Mirrored(c[s]) = Mirrored(e) \ {q[Max(s)]}
        BY <1>0, <1>8, <2>2, <3>1, TombstoneSound DEF D
    <3>5. Done(s) = Done(Before(s)) \cup {q[Max(s)]}
        BY <3>2
    <3> QED BY <3>1, <3>3, <3>4, <3>5
  <2> QED BY <2>1, <2>2
<1> HIDE DEF P
<1>10. c[1..n] \in P[1..n]
    BY <1>0, <1>9, FoldReaches
<1> QED
  <2>1. Done(1..n) = rs
    BY <1>0
  <2> QED BY <1>1, <1>10, <2>1 DEF D, P

-----------------------------------------------------------------------------
(* Names, ids and relations *)

\* A name that exists has an id.
LEMMA IdOfIs ==
    ASSUME NEW d, NEW n, Exists(d, n)
    PROVE  IdOf(d, n) \in DOMAIN d.entity /\ d.entity[IdOf(d, n)].name = n
    BY DEF Exists, IdOf

\* A triple of names that exist has a triple of ids.
LEMMA IdsAre ==
    ASSUME NEW d, Sound(d), NEW t \in Triples, Exists(d, t[1]), Exists(d, t[2])
    PROVE  /\ Ids(d, t) \in (DOMAIN d.entity) \X (DOMAIN d.entity) \X RelationTypes /\ Ids(d, t) \in Links
<1>1. IdOf(d, t[1]) \in DOMAIN d.entity /\ IdOf(d, t[2]) \in DOMAIN d.entity /\ t[3] \in RelationTypes
    BY IdOfIs DEF Triples
<1>2. DOMAIN d.entity \subseteq Nat
    BY Fields
<1> QED BY <1>1, <1>2 DEF Ids, Links

\* A relation of a whole graph has a live mirror, which its triple finds.
LEMMA MirrorFound ==
    ASSUME NEW d, Whole(d), NEW t \in Triples, Exists(d, t[1]), Exists(d, t[2]), Ids(d, t) \in d.relation
    PROVE  LiveMirrors(d, t) # {}
<1>1. PICK m \in Live(d) : d.mirror[m].triple = Ids(d, t)
    BY DEF Whole, Mirrored
<1>2. m \in DOMAIN d.mirror /\ d.mirror[m] \in [triple : Links, deleted : BOOLEAN] /\ ~d.mirror[m].deleted
    BY <1>1, Fields DEF Live, Whole
<1>3. d.mirror[m] = [triple |-> Ids(d, t), deleted |-> FALSE]
    BY <1>1, <1>2
<1> QED BY <1>2, <1>3 DEF LiveMirrors

\* The live mirror that a triple of names resolves to.
LEMMA MirrorResolved ==
    ASSUME NEW d, NEW t, LiveMirrors(d, t) # {}
    PROVE  LET m == resolve_relation_mirror(d, t)
           IN  m \in Live(d) /\ d.mirror[m].triple = Ids(d, t) /\ Exists(d, t[1]) /\ Exists(d, t[2])
<1> DEFINE m == resolve_relation_mirror(d, t)
<1>1. m \in LiveMirrors(d, t)
    BY DEF resolve_relation_mirror
<1> HIDE DEF m
<1>2. Exists(d, t[1]) /\ Exists(d, t[2]) /\ m \in DOMAIN d.mirror /\ d.mirror[m] = [triple |-> Ids(d, t), deleted |-> FALSE]
    BY <1>1 DEF LiveMirrors
<1> QED BY <1>2 DEF Live, m

\* Entities, relations and what hangs on an entity.
Edits(d, e, ee, rr, nn) == e = [d EXCEPT !.entity = ee, !.relation = rr, !.name_fts = nn]

\* A store whose entities, relations and name index change.
LEMMA EntityChangeSound ==
    ASSUME NEW d, Sound(d), NEW ee, NEW rr, rr \subseteq Links, NEW nn, NEW e, Edits(d, e, ee, rr, nn), EntitiesOK(e),
           \A o \in DOMAIN d.observation : d.observation[o].entity \in DOMAIN ee,
           \A k \in DOMAIN d.attribute : k[1] = "entity" => k[2] \in DOMAIN ee
    PROVE  /\ Sound(e) /\ e.entity = ee /\ e.relation = rr /\ e.name_fts = nn
           /\ e.mirror = d.mirror /\ Mirrored(e) = Mirrored(d) /\ e.seq = d.seq
<1>1. IsStore(d)
    BY DEF Sound, CountersOK
<1>2. /\ e.entity = ee /\ e.relation = rr /\ e.mirror = d.mirror
      /\ e.observation = d.observation /\ e.relobs = d.relobs /\ e.attribute = d.attribute
      /\ e.name_fts = nn /\ e.obs_fts = d.obs_fts /\ e.rel_obs_fts = d.rel_obs_fts /\ e.seq = d.seq
      /\ e.type_dict = d.type_dict /\ e.described = d.described /\ e.stat = d.stat /\ IsStore(e)
    BY <1>1 DEF IsStore, Edits
<1>3. MirrorsOK(e) /\ Live(e) = Live(d) /\ Mirrored(e) = Mirrored(d)
  <2>1. MirrorsOK(e) /\ Live(e) = Live(d)
    BY <1>2, SameMirrors DEF Sound
  <2> QED BY <1>2, <2>1 DEF Mirrored
<1>4. RelationObservationsOK(e)
    BY <1>2, <1>3, SameRelationObservations DEF Sound
<1>5. ObservationsOK(e)
  <2>1. IsTable(d.observation, 1..d.seq.obs, [entity : DOMAIN d.entity, body : Bodies]) /\ d.obs_fts = Texts(d.observation)
    BY DEF Sound, ObservationsOK
  <2>2. \A o \in DOMAIN d.observation : d.observation[o] \in [entity : DOMAIN ee, body : Bodies]
    BY <2>1 DEF IsTable
  <2> QED BY <1>2, <2>1, <2>2 DEF ObservationsOK, IsTable
<1>6. AttributesOK(e)
  <2> DEFINE K(I) == ({"entity"} \X I \X AttrKeys) \cup ({"relation"} \X Live(d) \X AttrKeys)
  <2>1. IsTable(d.attribute, K(DOMAIN d.entity), AttrValues)
    BY DEF Sound, AttributesOK
  <2>2. \A k \in DOMAIN d.attribute : k \in K(DOMAIN ee)
    <3> TAKE k \in DOMAIN d.attribute
    <3>1. k \in K(DOMAIN d.entity)
        BY <2>1 DEF IsTable
    <3> QED BY <3>1
  <2> QED BY <1>2, <1>3, <2>1, <2>2 DEF AttributesOK, IsTable
<1>7. CountersOK(e)
    BY <1>2 DEF Sound, CountersOK
<1> QED BY <1>2, <1>3, <1>4, <1>5, <1>6, <1>7 DEF Sound

\* The two hypotheses of EntityChangeSound hold when no entity goes.
LEMMA EntitiesStay ==
    ASSUME NEW d, Sound(d), NEW I, DOMAIN d.entity \subseteq I
    PROVE  /\ \A o \in DOMAIN d.observation : d.observation[o].entity \in I
           /\ \A k \in DOMAIN d.attribute : k[1] = "entity" => k[2] \in I
<1>1. \A o \in DOMAIN d.observation : d.observation[o] \in [entity : DOMAIN d.entity, body : Bodies]
    BY DEF Sound, ObservationsOK, IsTable
<1>2. ASSUME NEW k \in DOMAIN d.attribute, k[1] = "entity" PROVE k[2] \in I
  <2>1. k \in ({"entity"} \X (DOMAIN d.entity) \X AttrKeys) \cup ({"relation"} \X Live(d) \X AttrKeys)
    BY DEF Sound, AttributesOK, IsTable
  <2> QED BY <1>2, <2>1
<1> QED BY <1>1, <1>2

\* A store whose relations change.
LEMMA RelationChangeSound ==
    ASSUME NEW d, Sound(d), NEW rr \in SUBSET Links
    PROVE  LET e == [d EXCEPT !.relation = rr]
           IN  /\ Sound(e) /\ e.entity = d.entity /\ e.relation = rr /\ e.name_fts = d.name_fts
               /\ e.mirror = d.mirror /\ Mirrored(e) = Mirrored(d)
<1> DEFINE e == [d EXCEPT !.relation = rr]
<1>1. IsStore(d)
    BY DEF Sound, CountersOK
<1>2. Edits(d, e, d.entity, rr, d.name_fts)
    BY <1>1 DEF IsStore, Edits
<1>3. e.entity = d.entity /\ e.name_fts = d.name_fts /\ e.seq = d.seq
    BY <1>1 DEF IsStore
<1> HIDE DEF e
<1>4. EntitiesOK(e)
    BY <1>3, SameEntities DEF Sound
<1>5. /\ \A o \in DOMAIN d.observation : d.observation[o].entity \in DOMAIN d.entity
      /\ \A k \in DOMAIN d.attribute : k[1] = "entity" => k[2] \in DOMAIN d.entity
    BY EntitiesStay
<1>6. /\ Sound(e) /\ e.entity = d.entity /\ e.relation = rr /\ e.name_fts = d.name_fts
      /\ e.mirror = d.mirror /\ Mirrored(e) = Mirrored(d)
    BY <1>2, <1>4, <1>5, EntityChangeSound
<1> QED BY <1>6 DEF e

\* A store has finitely many relations.
LEMMA RelationsFinite == ASSUME NEW d, Whole(d) PROVE IsFiniteSet(d.relation)
<1> DEFINE M == DOMAIN d.mirror
           f == [m \in Live(d) |-> d.mirror[m].triple]
<1>1. M \subseteq Nat /\ Live(d) \subseteq M /\ (M # {} => \E m \in M : \A k \in M : k <= m)
    BY Fields DEF Whole, Sound, MirrorsOK
<1>2. IsFiniteSet(Live(d))
  <2>1. CASE M = {}
    BY <1>1, <2>1, FS_EmptySet
  <2>2. CASE M # {}
    <3>1. PICK b \in M : \A k \in M : k <= b
        BY <1>1, <2>2
    <3> QED BY <1>1, <3>1, FS_BoundedSetOfNaturals
  <2> QED BY <2>1, <2>2
<1>3. f \in Surjection(Live(d), d.relation)
  <2>1. d.relation = {d.mirror[m].triple : m \in Live(d)}
    BY DEF Whole, Mirrored
  <2> QED BY <2>1 DEF Surjection
<1> QED BY <1>2, <1>3, FS_Surjection

\* What hangs on mirrors hangs on live ones.
LEMMA Hangs == ASSUME NEW d, Sound(d) PROVE HangOn(d, Live(d))
<1>1. \A o \in DOMAIN d.relobs : d.relobs[o].mirror \in Live(d)
    BY DEF Sound, RelationObservationsOK, IsTable
<1>2. ASSUME NEW k \in DOMAIN d.attribute, k[1] = "relation" PROVE k[2] \in Live(d)
  <2>1. k \in ({"entity"} \X (DOMAIN d.entity) \X AttrKeys) \cup ({"relation"} \X Live(d) \X AttrKeys)
    BY DEF Sound, AttributesOK, IsTable
  <2> QED BY <1>2, <2>1
<1> QED BY <1>1, <1>2 DEF HangOn

\* create_relation brings the triple's mirror to life.
LEMMA PutLiveMirror ==
    ASSUME NEW d, Sound(d), NEW r \in Links
    PROVE  LET e == PutMirror(d, r, FALSE)
           IN  /\ Sound(e) /\ e.entity = d.entity /\ e.relation = d.relation /\ e.name_fts = d.name_fts
               /\ Mirrored(e) = Mirrored(d) \cup {r} /\ MirrorFor(d, r) \in Live(e)
<1> DEFINE m == MirrorFor(d, r)
           mm == With(d.mirror, m, [triple |-> r, deleted |-> FALSE])
           e == PutMirror(d, r, FALSE)
<1>1. IsStore(d) /\ MirrorsOK(d)
    BY DEF Sound, CountersOK
<1>2. e = [d EXCEPT !.mirror = mm]
    BY DEF PutMirror
<1> HIDE DEF m, e
<1>3. e.mirror = mm
    BY <1>1, <1>2 DEF IsStore
<1> DEFINE del == FALSE
<1>4. Puts(d, e, m, r, del) /\ del \in BOOLEAN
    BY <1>3 DEF Puts, m
<1>5. /\ MirrorsOK(e) /\ DOMAIN e.mirror = DOMAIN d.mirror \cup {m}
      /\ e.mirror[m] = [triple |-> r, deleted |-> FALSE]
      /\ \A k \in DOMAIN d.mirror : k # m => e.mirror[k] = d.mirror[k]
      /\ m \in DOMAIN d.mirror => d.mirror[m].triple = r
  <2> HIDE DEF del
  <2>1. /\ MirrorsOK(e) /\ DOMAIN e.mirror = DOMAIN d.mirror \cup {m}
        /\ e.mirror[m] = [triple |-> r, deleted |-> del]
        /\ \A k \in DOMAIN d.mirror : k # m => e.mirror[k] = d.mirror[k]
        /\ m \in DOMAIN d.mirror => d.mirror[m].triple = r
    BY <1>1, <1>4, PutMirrorRow
  <2> QED BY <2>1 DEF del
<1>6. Live(e) = Live(d) \cup {m}
    BY <1>5 DEF Live
<1>7. HangOn(d, Live(d))
    BY Hangs
<1>8. HangOn(d, Live(e))
    BY <1>6, <1>7 DEF HangOn
<1> HIDE DEF mm
<1>9. Sound(e) /\ e.entity = d.entity /\ e.relation = d.relation /\ e.name_fts = d.name_fts
    BY <1>2, <1>5, <1>8, MirrorChange
<1>10. Mirrored(e) = Mirrored(d) \cup {r}
  <2>1. \A k \in Live(d) : e.mirror[k].triple = d.mirror[k].triple
    BY <1>5 DEF Live
  <2> QED BY <1>5, <1>6, <2>1 DEF Mirrored
<1> QED BY <1>6, <1>9, <1>10 DEF e, m

\* create_relation inserts a relation and its mirror together.
LEMMA CreateRelationWhole ==
    ASSUME NEW d, Whole(d), NEW t \in Triples
    PROVE  LET e == create_relation(d, t)
           IN  /\ Whole(e) /\ e.entity = d.entity
               /\ e.relation # d.relation => Exists(d, t[1]) /\ Exists(d, t[2]) /\ Ids(d, t) \in e.relation
<1> DEFINE r == Ids(d, t)
           d1 == type_id(d, 1, t[3])
           d2 == [d1 EXCEPT !.relation = d1.relation \cup {r}]
           e == PutMirror(d2, r, FALSE)
<1>1. CASE ~(Exists(d, t[1]) /\ Exists(d, t[2]))
    BY <1>1 DEF create_relation
<1>2. CASE Exists(d, t[1]) /\ Exists(d, t[2])
  <2>1. r \in (DOMAIN d.entity) \X (DOMAIN d.entity) \X RelationTypes /\ r \in Links
    BY <1>2, IdsAre DEF Whole
  <2>2. <<1, t[3]>> \in TypeKeys
    BY DEF TypeKeys, Triples
  <2>3. Sound(d1) /\ SameGraph(d, d1)
    BY <2>2, TypeIdSound DEF Whole
  <2> HIDE DEF r, d1
  <2>4. Whole(d1) /\ d1.entity = d.entity /\ d1.relation = d.relation /\ d.relation \subseteq Links
    <3>1. Whole(d1)
        BY <2>3, SameIsWhole
    <3>2. d.relation \subseteq Links
        BY DEF Whole, Sound, CountersOK
    <3> QED BY <2>3, <3>1, <3>2 DEF SameGraph
  <2>5. /\ Sound(d2) /\ d2.entity = d1.entity /\ d2.relation = d1.relation \cup {r} /\ d2.name_fts = d1.name_fts
        /\ Mirrored(d2) = Mirrored(d1)
    BY <2>1, <2>3, <2>4, RelationChangeSound
  <2> HIDE DEF d2
  <2>6. /\ Sound(e) /\ e.entity = d2.entity /\ e.relation = d2.relation /\ e.name_fts = d2.name_fts
        /\ Mirrored(e) = Mirrored(d2) \cup {r}
    BY <2>1, <2>5, PutLiveMirror
  <2>7. create_relation(d, t) = IF r \in d.relation THEN d1 ELSE e
    BY <1>2 DEF create_relation, r, d1, d2
  <2> HIDE DEF e
  <2>8. Whole(e)
    BY <2>1, <2>4, <2>5, <2>6 DEF Whole
  <2> QED BY <1>2, <2>4, <2>5, <2>6, <2>7, <2>8 DEF r
<1> QED BY <1>1, <1>2

\* A database of the same graph is whole when it is sound.
LEMMA CreateRelationWithWhole ==
    ASSUME NEW d, Whole(d), NEW x, x.triple \in Triples, x.observations \in Seq(Bodies), x.attributes \in Attributes
    PROVE  Whole(create_relation_with(d, x))
<1> DEFINE t == x.triple
           d1 == create_relation(d, t)
           m == resolve_relation_mirror(d1, t)
           d2 == insert_relation_observations(d1, m, x.observations)
           d3 == upsert_attributes(d2, "relation", m, x.attributes)
<1>1. /\ Whole(d1) /\ d1.entity = d.entity
      /\ d1.relation # d.relation => Exists(d, t[1]) /\ Exists(d, t[2]) /\ Ids(d, t) \in d1.relation
    BY CreateRelationWhole
<1>2. create_relation_with(d, x) = IF d1.relation = d.relation THEN d1 ELSE d3
    BY DEF create_relation_with
<1> HIDE DEF d1
<1>3. ASSUME d1.relation # d.relation PROVE Whole(d3)
  <2>1. Exists(d1, t[1]) /\ Exists(d1, t[2]) /\ Ids(d1, t) \in d1.relation
    BY <1>1, <1>3 DEF Exists, Ids, IdOf
  <2>2. m \in Live(d1)
    BY <1>1, <2>1, MirrorFound, MirrorResolved
  <2> HIDE DEF m
  <2>3. Sound(d2) /\ SameGraph(d1, d2)
    BY <1>1, <2>2, InsertRelationObservationsSound DEF Whole
  <2> HIDE DEF d2
  <2>4. <<"relation", m>> \in Owned(d2)
    BY <2>2, <2>3 DEF Owned, SameGraph, Live
  <2>5. Sound(d3) /\ SameGraph(d2, d3)
    BY <2>3, <2>4, UpsertAttributesSound
  <2> QED BY <1>1, <2>3, <2>5, SameIsWhole
<1> QED BY <1>1, <1>2, <1>3

\* DeleteRelations drops a relation and its mirror together.
LEMMA DeleteRelationWhole ==
    ASSUME NEW d, Whole(d), NEW t \in Triples
    PROVE  Whole(DeleteRelation(d, t))
<1> DEFINE r == Ids(d, t)
           d1 == [d EXCEPT !.relation = d.relation \ {r}]
           e == tombstone_relation_mirror(d1, r)
<1>1. CASE ~(Exists(d, t[1]) /\ Exists(d, t[2])) \/ r \notin d.relation
    BY <1>1 DEF DeleteRelation
<1>2. CASE Exists(d, t[1]) /\ Exists(d, t[2]) /\ r \in d.relation
  <2>1. r \in Links /\ d.relation \subseteq Links
    BY <1>2 DEF Whole, Sound, CountersOK
  <2>2. DeleteRelation(d, t) = e
    BY <1>2 DEF DeleteRelation
  <2> HIDE DEF r
  <2>3. /\ Sound(d1) /\ d1.entity = d.entity /\ d1.relation = d.relation \ {r} /\ d1.name_fts = d.name_fts
        /\ Mirrored(d1) = Mirrored(d)
    BY <2>1, RelationChangeSound DEF Whole
  <2> HIDE DEF d1
  <2>4. /\ Sound(e) /\ e.entity = d1.entity /\ e.relation = d1.relation /\ e.name_fts = d1.name_fts
        /\ Mirrored(e) = Mirrored(d1) \ {r}
    BY <2>1, <2>3, TombstoneSound
  <2> HIDE DEF e
  <2> QED BY <2>2, <2>3, <2>4 DEF Whole
<1> QED BY <1>1, <1>2

\* An entity goes with its texts, attributes and relations.
NamesOf(d) == {d.entity[i].name : i \in DOMAIN d.entity}

\* An entity on its way out: only the mirrors of its relations are left of it.
RelationsAt(d, i) == {r \in d.relation : i \in {r[1], r[2]}}
Detached(d, n) ==
    LET i == IdOf(d, n)
        d1 == DeleteObservationRows(d, ObservationsOf(d, i))
        d2 == [d1 EXCEPT !.relation = @ \ RelationsAt(d, i), !.name_fts = @ \ {<<i, n>>}, !.entity = Without(@, {i})]
    IN delete_attribute_keys(d2, "entity", i, AttrKeys)

\* Nothing hangs on the entity any more.
LEMMA DetachedSound ==
    ASSUME NEW d, Whole(d), NEW n, Exists(d, n)
    PROVE  LET i == IdOf(d, n)
               e == Detached(d, n)
           IN  /\ Sound(e) /\ e.entity = Without(d.entity, {i}) /\ e.relation = d.relation \ RelationsAt(d, i)
               /\ e.name_fts = d.name_fts \ {<<i, n>>} /\ Mirrored(e) = d.relation
               /\ e.observation = Without(d.observation, ObservationsOf(d, i))
               /\ e.attribute = Without(d.attribute, {<<"entity", i, key>> : key \in AttrKeys})
               /\ e.mirror = d.mirror /\ e.relobs = d.relobs /\ e.stat = d.stat /\ e.type_dict = d.type_dict
               /\ e.seq = d.seq
<1> DEFINE i == IdOf(d, n)
           rs == RelationsAt(d, i)
           os == ObservationsOf(d, i)
           d1 == DeleteObservationRows(d, os)
           d2 == [d1 EXCEPT !.relation = d1.relation \ rs, !.name_fts = d1.name_fts \ {<<i, n>>},
                            !.entity = Without(d1.entity, {i})]
           d3 == delete_attribute_keys(d2, "entity", i, AttrKeys)
           f == delete_attribute_keys(d1, "entity", i, AttrKeys)
           ee == Without(d.entity, {i})
           nn == d.name_fts \ {<<i, n>>}
           rr == d.relation \ rs
<1>2. i \in DOMAIN d.entity /\ d.entity[i].name = n
  BY IdOfIs
<1>3. d.relation \subseteq Links
    BY DEF Whole, Sound, CountersOK
<1>4. Sound(d1) /\ SameGraph(d, d1) /\ d1.observation = Without(d.observation, os) /\ d1.name_fts = d.name_fts
  <2>1. Sound(d1) /\ SameGraph(d, d1)
      BY DeleteObservationRowsSound DEF Whole
  <2>2. IsStore(d)
      BY DEF Whole, Sound, CountersOK
  <2> QED BY <2>1, <2>2 DEF DeleteObservationRows, IsStore
<1> HIDE DEF i, os, rs
<1>5. /\ Sound(f) /\ SameGraph(d1, f) /\ f.observation = d1.observation
      /\ DOMAIN f.attribute = DOMAIN d1.attribute \ {<<"entity", i, key>> : key \in AttrKeys}
  <2>1. /\ Sound(f) /\ SameGraph(d1, f)
        /\ DOMAIN f.attribute = DOMAIN d1.attribute \ {<<"entity", i, key>> : key \in AttrKeys}
      BY <1>4, DeleteAttributeKeysSound
  <2>2. IsStore(d1)
      BY <1>4 DEF Sound, CountersOK
  <2> HIDE DEF d1
  <2> QED BY <2>1, <2>2 DEF delete_attribute_keys, IsStore
<1>6. Edits(f, d3, ee, rr, nn)
  <2> DEFINE u == Without(d1.attribute, {<<"entity", i, key>> : key \in AttrKeys})
  <2>1. IsStore(d1) /\ d1.entity = d.entity /\ d1.relation = d.relation /\ d1.name_fts = d.name_fts
      BY <1>4 DEF Sound, CountersOK, SameGraph
  <2> HIDE DEF d1, ee, rr, nn
  <2>2. d2 = [d1 EXCEPT !.relation = rr, !.name_fts = nn, !.entity = ee]
      BY <2>1 DEF rr, nn, ee
  <2>3. f = [d1 EXCEPT !.attribute = u]
      BY DEF delete_attribute_keys
  <2> HIDE DEF d2, f
  <2>4. d2.attribute = d1.attribute
      BY <2>1, <2>2 DEF IsStore
  <2>5. d3 = [d2 EXCEPT !.attribute = u]
      BY <2>4 DEF delete_attribute_keys
  <2> HIDE DEF u, d3
  <2> QED BY <2>1, <2>2, <2>3, <2>5 DEF Edits, IsStore
<1>7. DOMAIN ee = DOMAIN d.entity \ {i} /\ \A j \in DOMAIN ee : ee[j] = d.entity[j]
  BY DEF Without
<1>8. /\ \A o \in DOMAIN f.observation : f.observation[o].entity \in DOMAIN ee
      /\ \A k \in DOMAIN f.attribute : k[1] = "entity" => k[2] \in DOMAIN ee
  <2>1. /\ \A o \in DOMAIN f.observation : f.observation[o].entity \in DOMAIN d.entity
        /\ \A k \in DOMAIN f.attribute : k[1] = "entity" => k[2] \in DOMAIN d.entity
      BY <1>4, <1>5, EntitiesStay DEF SameGraph
  <2>2. \A o \in DOMAIN f.observation : f.observation[o].entity # i
      BY <1>4, <1>5 DEF Without, os, ObservationsOf
  <2>3. ASSUME NEW k \in DOMAIN f.attribute, k[1] = "entity" PROVE k[2] # i
    <3>1. k \in ({"entity"} \X (DOMAIN f.entity) \X AttrKeys) \cup ({"relation"} \X Live(f) \X AttrKeys)
      BY <1>5 DEF Sound, AttributesOK, IsTable
    <3>2. k[3] \in AttrKeys /\ k = <<"entity", k[2], k[3]>>
      BY <2>3, <3>1
    <3> QED BY <1>5, <3>2
  <2> HIDE DEF f, ee
  <2> QED BY <1>7, <2>1, <2>2, <2>3
<1> HIDE DEF f, d1, d2, d3, ee
<1>9. EntitiesOK(d3) /\ rr \subseteq Links /\ d3.entity = ee /\ nn = {<<j, ee[j].name>> : j \in DOMAIN ee}
  <2>1. d3.entity = ee /\ d3.name_fts = nn /\ d3.seq = f.seq /\ f.seq = d.seq
    <3>1. f.seq = d1.seq /\ d1.seq = d.seq /\ IsStore(f)
      <4>1. IsStore(d) /\ IsStore(d1) /\ IsStore(f)
          BY <1>4, <1>5 DEF Whole, Sound, CountersOK
      <4> QED BY <4>1 DEF d1, f, DeleteObservationRows, delete_attribute_keys, IsStore
    <3> QED BY <1>6, <3>1 DEF Edits, IsStore
  <2>2. EntitiesOK(d)
      BY DEF Whole, Sound
  <2>3. IsTable(ee, 1..d.seq.entity, EntityRow)
      BY <2>2, WithoutRows DEF EntitiesOK, ee
  <2>4. \A j, k \in DOMAIN ee : ee[j].name = ee[k].name => j = k
      BY <1>7, <2>2 DEF EntitiesOK
  <2>5. nn = {<<j, ee[j].name>> : j \in DOMAIN ee} /\ nn \subseteq (1..d.seq.entity) \X Names
      BY <1>2, <1>7, <2>2 DEF Whole, EntitiesOK
  <2> QED BY <1>3, <2>1, <2>3, <2>4, <2>5 DEF EntitiesOK
<1>10. Sound(d3) /\ d3.entity = ee /\ d3.relation = rr /\ d3.name_fts = nn /\ Mirrored(d3) = Mirrored(f)
  <2> HIDE DEF rr, nn
  <2> QED BY <1>5, <1>6, <1>8, <1>9, EntityChangeSound
<1>11. Mirrored(f) = d.relation
  BY <1>4, <1>5 DEF SameGraph, Whole, Mirrored, Live
<1>12. /\ d3.observation = Without(d.observation, os) /\ d3.mirror = d.mirror /\ d3.relobs = d.relobs
       /\ d3.attribute = Without(d.attribute, {<<"entity", i, key>> : key \in AttrKeys})
       /\ d3.stat = d.stat /\ d3.type_dict = d.type_dict /\ d3.seq = d.seq
  <2>1. IsStore(d)
    BY DEF Whole, Sound, CountersOK
  <2>2. d1 = [d EXCEPT !.observation = Without(d.observation, os),
                       !.obs_fts = d.obs_fts \ {<<o, d.observation[o].body>> : o \in os \cap DOMAIN d.observation}]
    BY DEF d1, DeleteObservationRows
  <2>3. d2 = [d1 EXCEPT !.relation = d1.relation \ rs, !.name_fts = d1.name_fts \ {<<i, n>>},
                        !.entity = Without(d1.entity, {i})]
    BY DEF d2
  <2>4. d3 = [d2 EXCEPT !.attribute = Without(d2.attribute, {<<"entity", i, key>> : key \in AttrKeys})]
    BY DEF d3, delete_attribute_keys
  <2> QED BY <2>1, <2>2, <2>3, <2>4 DEF IsStore
<1>13. d3 = Detached(d, n)
    BY DEF d3, d2, d1, os, rs, i, Detached
<1>14. /\ Sound(d3) /\ d3.entity = ee /\ d3.relation = rr /\ d3.name_fts = nn /\ Mirrored(d3) = d.relation
    BY <1>10, <1>11
<1> QED BY <1>12, <1>13, <1>14 DEF ee, rr, nn, rs, os, i

\* A deleted entity takes its texts, attributes, relations and index row with it.
LEMMA DeleteEntityWhole ==
    ASSUME NEW d, Whole(d), NEW n
    PROVE  LET e == DeleteEntity(d, n) IN Whole(e) /\ NamesOf(e) = NamesOf(d) \ {n}
<1>1. CASE ~Exists(d, n)
    BY <1>1 DEF DeleteEntity, Exists, NamesOf
<1>2. CASE Exists(d, n)
  <2> DEFINE i == IdOf(d, n)
             rs == RelationsAt(d, i)
             d3 == Detached(d, n)
             ee == Without(d.entity, {i})
             nn == d.name_fts \ {<<i, n>>}
             rr == d.relation \ rs
             e == TombstoneAll(d3, rs)
  <2>1. DeleteEntity(d, n) = e
    BY <1>2 DEF DeleteEntity, Detached, RelationsAt
  <2>2. i \in DOMAIN d.entity /\ d.entity[i].name = n
    BY <1>2, IdOfIs
  <2>3. rs \in SUBSET Links /\ IsFiniteSet(rs) /\ rs \subseteq d.relation
    <3>1. rs \subseteq d.relation
        BY DEF RelationsAt
    <3>2. d.relation \subseteq Links
        BY DEF Whole, Sound, CountersOK
    <3> HIDE DEF rs
    <3> QED BY <3>1, <3>2, RelationsFinite, FS_Subset
  <2>10. Sound(d3) /\ d3.entity = ee /\ d3.relation = rr /\ d3.name_fts = nn /\ Mirrored(d3) = d.relation
    BY <1>2, DetachedSound
  <2> HIDE DEF d3, i
  <2>7. DOMAIN ee = DOMAIN d.entity \ {i} /\ \A j \in DOMAIN ee : ee[j] = d.entity[j]
    BY DEF Without
  <2> HIDE DEF rs, ee
  <2>9. nn = {<<j, ee[j].name>> : j \in DOMAIN ee}
    <3>1. EntitiesOK(d)
        BY DEF Whole, Sound
    <3> QED BY <2>2, <2>7, <3>1 DEF Whole, EntitiesOK
  <2>12. Sound(e) /\ e.entity = ee /\ e.relation = rr /\ e.name_fts = nn /\ Mirrored(e) = d.relation \ rs
    BY <2>3, <2>10, TombstoneAllSound
  <2> HIDE DEF e
  <2>13. rr \subseteq (DOMAIN ee) \X (DOMAIN ee) \X RelationTypes
    <3> SUFFICES ASSUME NEW r \in rr PROVE r \in (DOMAIN ee) \X (DOMAIN ee) \X RelationTypes
        OBVIOUS
    <3>1. r \in (DOMAIN d.entity) \X (DOMAIN d.entity) \X RelationTypes /\ r[1] # i /\ r[2] # i
        BY DEF Whole, rs, RelationsAt
    <3> QED BY <2>7, <3>1
  <2>14. NamesOf(e) = NamesOf(d) \ {n}
    <3>1. \A j \in DOMAIN d.entity : d.entity[j].name = n => j = i
        BY <2>2 DEF Whole, Sound, EntitiesOK
    <3> QED BY <2>2, <2>7, <2>12, <3>1 DEF NamesOf
  <2> QED BY <2>1, <2>9, <2>12, <2>13, <2>14 DEF Whole
<1> QED BY <1>1, <1>2

\* delete_entities, name by name; none of the names is left.
LEMMA DeleteEntitiesWhole ==
    ASSUME NEW d, Whole(d), NEW names, IsFiniteSet(names)
    PROVE  LET e == delete_entities(d, names) IN Whole(e) /\ NamesOf(e) = NamesOf(d) \ names
<1> DEFINE n == Cardinality(names)
           q == SetToSeq(names)
           Done(s) == {q[k] : k \in s}
           D == {e \in Stores : Whole(e)}
           g == [p \in D \X (1..n) |-> DeleteEntity(p[1], q[p[2]])]
           Runs(it) == it = [s \in SUBSET (1..n) |->
                                IF s = {} THEN d ELSE DeleteEntity(it[Before(s)], q[Max(s)])]
           c == CHOOSE it : Runs(it)
<1>0. /\ n \in Nat /\ DOMAIN q = 1..n /\ \A k \in 1..n : q[k] \in names
      /\ \A x \in names : \E k \in 1..n : q[k] = x
    BY Sequenced
<1>1. delete_entities(d, names) = c[1..n]
    BY <1>0 DEF delete_entities, FoldLeft, MapThenFoldSet, Before
<1>2. d \in D
    BY SoundIsStore DEF Whole
<1>3. ASSUME NEW e \in D, NEW k \in 1..n PROVE DeleteEntity(e, q[k]) \in D
  <2>1. Whole(DeleteEntity(e, q[k]))
    BY DeleteEntityWhole
  <2> QED BY <2>1, SoundIsStore DEF Whole
<1> HIDE DEF n, D, q
<1>4. g \in [D \X (1..n) -> D]
    BY <1>3
<1>5. PICK it : /\ it \in [SUBSET (1..n) -> D] /\ RunOf(d, n, g, it, SUBSET (1..n))
                /\ \A s \in SUBSET (1..n) : s # {} => it[Before(s)] \in D /\ Max(s) \in 1..n
    BY <1>0, <1>2, <1>4, FoldExists
<1>6. Runs(it)
  <2>1. \A s \in SUBSET (1..n) : it[s] = IF s = {} THEN d ELSE DeleteEntity(it[Before(s)], q[Max(s)])
    BY <1>5 DEF RunOf
  <2> QED BY <1>5, <2>1
<1>7. Runs(c)
    BY <1>6
<1> HIDE DEF c
<1> DEFINE P == [s \in SUBSET (1..n) |-> {e \in D : NamesOf(e) = NamesOf(d) \ Done(s)}]
<1>8. \A s \in SUBSET (1..n) : s # {} => Before(s) \in SUBSET (1..n) /\ Max(s) \in 1..n
    BY <1>0, BeforeSmaller
<1>9. ASSUME NEW s \in SUBSET (1..n), s # {} => c[Before(s)] \in P[Before(s)] PROVE c[s] \in P[s]
  <2>1. CASE s = {}
    BY <1>2, <1>7, <2>1
  <2>2. CASE s # {}
    <3> DEFINE e == c[Before(s)]
    <3>1. e \in D /\ NamesOf(e) = NamesOf(d) \ Done(Before(s)) /\ c[s] = DeleteEntity(e, q[Max(s)])
        BY <1>7, <1>8, <1>9, <2>2
    <3>2. s = Before(s) \cup {Max(s)}
        BY <1>0, <2>2, BeforeSmaller
    <3> HIDE DEF e
    <3>3. c[s] \in D
        BY <1>3, <1>8, <2>2, <3>1
    <3>4. NamesOf(c[s]) = NamesOf(e) \ {q[Max(s)]}
        BY <3>1, DeleteEntityWhole DEF D
    <3>5. Done(s) = Done(Before(s)) \cup {q[Max(s)]}
        BY <3>2
    <3> QED BY <3>1, <3>3, <3>4, <3>5
  <2> QED BY <2>1, <2>2
<1> HIDE DEF P
<1>10. c[1..n] \in P[1..n]
    BY <1>0, <1>9, FoldReaches
<1> QED
  <2>1. Done(1..n) = names
    BY <1>0
  <2> QED BY <1>1, <1>10, <2>1 DEF D, P

\* The relations that a merge moves.
LEMMA CreateRelationsWhole ==
    ASSUME NEW d, Whole(d), NEW ts \in SUBSET Triples, IsFiniteSet(ts)
    PROVE  Whole(FoldLeft(create_relation, d, SetToSeq(ts)))
<1> DEFINE n == Cardinality(ts)
           q == SetToSeq(ts)
           D == {e \in Stores : Whole(e)}
           g == [p \in D \X (1..n) |-> create_relation(p[1], q[p[2]])]
           Runs(it) == it = [s \in SUBSET (1..n) |->
                                IF s = {} THEN d ELSE create_relation(it[Before(s)], q[Max(s)])]
           c == CHOOSE it : Runs(it)
<1>0. n \in Nat /\ DOMAIN q = 1..n /\ \A k \in 1..n : q[k] \in Triples
    BY Sequenced
<1>1. FoldLeft(create_relation, d, SetToSeq(ts)) = c[1..n]
    BY <1>0 DEF FoldLeft, MapThenFoldSet, Before
<1>2. d \in D
    BY SoundIsStore DEF Whole
<1>3. ASSUME NEW e \in D, NEW k \in 1..n PROVE create_relation(e, q[k]) \in D
  <2>1. Whole(create_relation(e, q[k]))
    BY <1>0, CreateRelationWhole
  <2> QED BY <2>1, SoundIsStore DEF Whole
<1> HIDE DEF n, D, q
<1>4. g \in [D \X (1..n) -> D]
    BY <1>3
<1>5. PICK it : /\ it \in [SUBSET (1..n) -> D] /\ RunOf(d, n, g, it, SUBSET (1..n))
                /\ \A s \in SUBSET (1..n) : s # {} => it[Before(s)] \in D /\ Max(s) \in 1..n
    BY <1>0, <1>2, <1>4, FoldExists
<1>6. Runs(it)
  <2>1. \A s \in SUBSET (1..n) : it[s] = IF s = {} THEN d ELSE create_relation(it[Before(s)], q[Max(s)])
    BY <1>5 DEF RunOf
  <2> QED BY <1>5, <2>1
<1>7. Runs(c)
    BY <1>6
<1> HIDE DEF c
<1> DEFINE P == [s \in SUBSET (1..n) |-> D]
<1>8. \A s \in SUBSET (1..n) : s # {} => Before(s) \in SUBSET (1..n) /\ Max(s) \in 1..n
    BY <1>0, BeforeSmaller
<1>9. ASSUME NEW s \in SUBSET (1..n), s # {} => c[Before(s)] \in P[Before(s)] PROVE c[s] \in P[s]
  <2>1. CASE s = {}
    BY <1>2, <1>7, <2>1
  <2>2. CASE s # {}
    <3>1. c[Before(s)] \in D /\ c[s] = create_relation(c[Before(s)], q[Max(s)])
        BY <1>7, <1>8, <1>9, <2>2
    <3> QED BY <1>3, <1>8, <2>2, <3>1
  <2> QED BY <2>1, <2>2
<1> HIDE DEF P
<1>10. c[1..n] \in P[1..n]
    BY <1>0, <1>9, FoldReaches
<1> QED BY <1>1, <1>10 DEF D, P

-----------------------------------------------------------------------------
(* Rows of entities *)

\* Entities whose names stay: types and counts are free to change.
LEMMA RowsWhole ==
    ASSUME NEW d, Whole(d), NEW e, NEW ee, Edits(d, e, ee, d.relation, d.name_fts), ee \in [DOMAIN d.entity -> EntityRow],
           \A i \in DOMAIN d.entity : ee[i].name = d.entity[i].name
    PROVE  Whole(e) /\ e.entity = ee
<1>1. IsStore(d) /\ EntitiesOK(d) /\ d.relation \subseteq Links
    BY DEF Whole, Sound, CountersOK
<1>2. e.entity = ee /\ e.name_fts = d.name_fts /\ e.seq = d.seq
    BY <1>1 DEF Edits, IsStore
<1>3. EntitiesOK(e)
    BY <1>1, <1>2 DEF EntitiesOK, IsTable
<1>4. /\ \A o \in DOMAIN d.observation : d.observation[o].entity \in DOMAIN ee
      /\ \A k \in DOMAIN d.attribute : k[1] = "entity" => k[2] \in DOMAIN ee
    BY EntitiesStay DEF Whole
<1>5. Sound(e) /\ e.relation = d.relation /\ Mirrored(e) = Mirrored(d)
    BY <1>1, <1>3, <1>4, EntityChangeSound DEF Whole
<1> QED BY <1>2, <1>5 DEF Whole

\* An id that is handed out is used up.
LEMMA NextIdSound ==
    ASSUME NEW d, Sound(d)
    PROVE  LET e == [d EXCEPT !.seq = [d.seq EXCEPT !.entity = d.seq.entity + 1]]
           IN  Sound(e) /\ SameGraph(d, e) /\ e.seq.entity = d.seq.entity + 1
<1> DEFINE e == [d EXCEPT !.seq = [d.seq EXCEPT !.entity = d.seq.entity + 1]]
<1>0. d \in Stores /\ d.seq.entity \in Nat /\ IsStore(d)
    BY SoundIsStore, Fields DEF Sound, CountersOK
<1>1. /\ e.entity = d.entity /\ e.relation = d.relation /\ e.mirror = d.mirror
      /\ e.observation = d.observation /\ e.relobs = d.relobs /\ e.attribute = d.attribute
      /\ e.name_fts = d.name_fts /\ e.obs_fts = d.obs_fts /\ e.rel_obs_fts = d.rel_obs_fts
      /\ e.type_dict = d.type_dict /\ e.described = d.described /\ e.stat = d.stat
      /\ e.seq.entity = d.seq.entity + 1 /\ e.seq.obs = d.seq.obs /\ e.seq.rel_obs = d.seq.rel_obs
      /\ e.seq \in [entity : Nat, obs : Nat, rel_obs : Nat]
    BY <1>0 DEF Stores
<1>2. IsStore(e)
    BY <1>0 DEF IsStore
<1> HIDE DEF e
<1>3. MirrorsOK(e) /\ Live(e) = Live(d)
    BY <1>1, SameMirrors DEF Sound
<1>4. ObservationsOK(e) /\ RelationObservationsOK(e) /\ AttributesOK(e)
    BY <1>1, <1>3, SameObservations, SameRelationObservations, SameAttributes DEF Sound
<1>5. EntitiesOK(e)
  <2>1. EntitiesOK(d) /\ 1..d.seq.entity \subseteq 1..e.seq.entity
    BY <1>0, <1>1 DEF Sound
  <2> QED BY <1>1, <2>1 DEF EntitiesOK, IsTable
<1>6. CountersOK(e)
    BY <1>1, <1>2 DEF Sound, CountersOK
<1> QED BY <1>1, <1>3, <1>4, <1>5, <1>6 DEF Sound, SameGraph, e

IsEntityInput(x) ==
    /\ x.name \in Names \cup {NoName} /\ x.type \in EntityTypes
    /\ x.observations \in Seq(Bodies) /\ x.attributes \in Attributes

\* The row that create_entity inserts, before its texts and its name are indexed.
NewRow(x) == [name |-> x.name, type |-> x.type, obs_count |-> 0, out_deg |-> 0, in_deg |-> 0]
NewEntity(d, x) ==
    [type_id(d, 0, x.type) EXCEPT !.seq.entity = d.seq.entity + 1, !.entity = With(@, d.seq.entity + 1, NewRow(x))]

\* An id of its own, and a row that nothing hangs on yet.
LEMMA NewEntitySound ==
    ASSUME NEW d, Whole(d), NEW x, IsEntityInput(x), x.name # NoName, ~Exists(d, x.name)
    PROVE  LET i == d.seq.entity + 1
               d1 == NewEntity(d, x)
           IN  /\ Sound(d1) /\ d1.relation = d.relation /\ Mirrored(d1) = d.relation
               /\ d1.entity = With(d.entity, i, NewRow(x)) /\ d1.name_fts = d.name_fts /\ d1.seq.entity = i
               /\ i \notin DOMAIN d.entity /\ i \in Nat
<1> DEFINE i == d.seq.entity + 1
           row == NewRow(x)
           d0 == type_id(d, 0, x.type)
           f == [d0 EXCEPT !.seq = [d0.seq EXCEPT !.entity = d0.seq.entity + 1]]
           ee == With(d.entity, i, row)
           d1 == [d0 EXCEPT !.seq.entity = i, !.entity = With(d0.entity, i, row)]
<1>2. x.name \in Names /\ row \in EntityRow /\ x.type \in EntityTypes
      /\ x.observations \in Seq(Bodies) /\ x.attributes \in Attributes
  BY DEF IsEntityInput, EntityRow, NewRow
<1>3. Sound(d0) /\ SameGraph(d, d0) /\ d0.seq = d.seq
  <2>1. <<0, x.type>> \in TypeKeys
      BY <1>2 DEF TypeKeys
  <2> QED BY <2>1, TypeIdSound DEF Whole
<1> HIDE DEF d0
<1>4. Sound(f) /\ SameGraph(d, f) /\ f.seq.entity = i
  BY <1>3, NextIdSound DEF SameGraph
<1>5. Edits(f, d1, ee, f.relation, f.name_fts)
  <2>1. d0 \in Stores /\ IsStore(d0)
      BY <1>3, SoundIsStore DEF Sound, CountersOK
  <2>2. d1 = [d0 EXCEPT !.seq = [d0.seq EXCEPT !.entity = i], !.entity = ee]
      BY <1>3, <2>1 DEF Stores, SameGraph
  <2> HIDE DEF ee, d1
  <2> QED BY <1>3, <2>1, <2>2 DEF Edits, IsStore
<1>6. /\ EntitiesOK(d) /\ d.seq.entity \in Nat /\ d.relation \subseteq Links
      /\ d.name_fts = {<<j, d.entity[j].name>> : j \in DOMAIN d.entity} /\ DOMAIN d.entity \subseteq 1..d.seq.entity
  BY Fields DEF Whole, Sound, EntitiesOK, CountersOK, IsTable
<1>7. i \notin DOMAIN d.entity /\ i \in Nat /\ 1..d.seq.entity \subseteq 1..i /\ i \in 1..i
  BY <1>6
<1> HIDE DEF i, row
<1>8. /\ DOMAIN ee = DOMAIN d.entity \cup {i} /\ ee[i] = row /\ \A j \in DOMAIN d.entity : ee[j] = d.entity[j]
      /\ IsTable(ee, 1..i, EntityRow)
  <2>1. DOMAIN ee = DOMAIN d.entity \cup {i} /\ ee[i] = row /\ \A j \in DOMAIN d.entity : ee[j] = d.entity[j]
      BY <1>7 DEF With
  <2>2. IsTable(d.entity, 1..d.seq.entity, EntityRow)
      BY <1>6 DEF EntitiesOK
  <2>3. IsTable(ee, 1..i, EntityRow)
      BY <1>2, <1>7, <2>2, WithRow
  <2> QED BY <2>1, <2>3
<1>9. row.name = x.name
  BY DEF row, NewRow
<1>10. \A j \in DOMAIN d.entity : d.entity[j].name # x.name
  BY DEF Exists
<1> HIDE DEF f, ee
<1>11. d1.entity = ee /\ d1.name_fts = d.name_fts /\ d1.seq.entity = i
  <2>1. IsStore(f) /\ f.name_fts = d.name_fts
      BY <1>4 DEF Sound, CountersOK, SameGraph
  <2> HIDE DEF d1
  <2> QED BY <1>4, <1>5, <2>1 DEF Edits, IsStore
<1> HIDE DEF d1
<1>12. EntitiesOK(d1)
  <2>1. \A j, k \in DOMAIN ee : ee[j].name = ee[k].name => j = k
      BY <1>6, <1>8, <1>9, <1>10 DEF EntitiesOK
  <2>2. d.name_fts \subseteq (1..i) \X Names
      BY <1>6, <1>7 DEF EntitiesOK
  <2> QED BY <1>8, <1>11, <2>1, <2>2 DEF EntitiesOK
<1>13. /\ Sound(d1) /\ d1.relation = d.relation /\ Mirrored(d1) = d.relation
  <2>1. /\ \A o \in DOMAIN f.observation : f.observation[o].entity \in DOMAIN ee
        /\ \A k \in DOMAIN f.attribute : k[1] = "entity" => k[2] \in DOMAIN ee
      BY <1>4, <1>8, EntitiesStay DEF SameGraph
  <2>2. f.relation \subseteq Links /\ f.relation = d.relation
      BY <1>4, <1>6 DEF SameGraph
  <2>3. Sound(d1) /\ d1.relation = f.relation /\ Mirrored(d1) = Mirrored(f)
      BY <1>4, <1>5, <1>12, <2>1, <2>2, EntityChangeSound
  <2>4. Mirrored(f) = d.relation
      BY <1>4 DEF SameGraph, Whole, Mirrored, Live
  <2> QED BY <2>2, <2>3, <2>4
<1>14. /\ Sound(d1) /\ d1.relation = d.relation /\ Mirrored(d1) = d.relation /\ d1.entity = ee /\ d1.name_fts = d.name_fts
       /\ d1.seq.entity = i /\ i \notin DOMAIN d.entity /\ i \in Nat
    BY <1>7, <1>11, <1>13
<1> QED BY <1>14 DEF i, row, d0, d1, ee, NewEntity

\* create_entity indexes the name of the row it inserts.
LEMMA CreateEntityWhole ==
    ASSUME NEW d, Whole(d), NEW x, IsEntityInput(x)
    PROVE  Whole(create_entity(d, x))
<1>1. CASE x.name = NoName \/ Exists(d, x.name)
    BY <1>1 DEF create_entity
<1>2. CASE ~(x.name = NoName \/ Exists(d, x.name))
  <2> DEFINE i == d.seq.entity + 1
             row == NewRow(x)
             ee == With(d.entity, i, row)
             d1 == NewEntity(d, x)
             d2 == insert_observations(d1, i, x.observations)
             d3 == upsert_attributes(d2, "entity", i, x.attributes)
             e == [d3 EXCEPT !.name_fts = d3.name_fts \cup {<<i, x.name>>}]
  <2>1. create_entity(d, x) = e
    BY <1>2 DEF create_entity, NewEntity, NewRow
  <2>2. x.name \in Names /\ x.type \in EntityTypes /\ x.observations \in Seq(Bodies) /\ x.attributes \in Attributes
    BY <1>2 DEF IsEntityInput
  <2>3. /\ Sound(d1) /\ d1.relation = d.relation /\ Mirrored(d1) = d.relation
        /\ d1.entity = ee /\ d1.name_fts = d.name_fts /\ d1.seq.entity = i /\ i \notin DOMAIN d.entity
    BY <1>2, NewEntitySound
  <2>6. d.relation \subseteq Links /\ d.name_fts = {<<j, d.entity[j].name>> : j \in DOMAIN d.entity}
    BY DEF Whole, Sound, CountersOK
  <2>9. row.name = x.name
    BY DEF NewRow
  <2> HIDE DEF i, row, d1
  <2>8. DOMAIN ee = DOMAIN d.entity \cup {i} /\ ee[i] = row /\ \A j \in DOMAIN d.entity : ee[j] = d.entity[j]
    BY <2>3 DEF With
  <2> HIDE DEF ee
  <2>14. Sound(d2) /\ SameGraph(d1, d2)
    BY <2>2, <2>3, <2>8, InsertObservationsSound
  <2> HIDE DEF d2
  <2>15. <<"entity", i>> \in Owned(d2)
    BY <2>3, <2>8, <2>14 DEF Owned, SameGraph
  <2>16. Sound(d3) /\ SameGraph(d2, d3)
    BY <2>2, <2>14, <2>15, UpsertAttributesSound
  <2> HIDE DEF d3
  <2>17. /\ d3.entity = ee /\ d3.relation = d.relation /\ d3.name_fts = d.name_fts /\ Mirrored(d3) = d.relation
    BY <2>3, <2>14, <2>16 DEF SameGraph, Mirrored, Live
  <2> DEFINE nn == d.name_fts \cup {<<i, x.name>>}
  <2>18. Edits(d3, e, ee, d.relation, nn) /\ e.entity = ee /\ e.name_fts = nn /\ e.seq = d3.seq
    <3>1. IsStore(d3)
        BY <2>16 DEF Sound, CountersOK
    <3> QED BY <2>17, <3>1 DEF Edits, IsStore
  <2> HIDE DEF e
  <2>19. nn = {<<j, ee[j].name>> : j \in DOMAIN ee}
    BY <2>6, <2>8, <2>9
  <2>20. EntitiesOK(e)
    <3>1. EntitiesOK(d3)
        BY <2>16 DEF Sound
    <3>2. DOMAIN ee \subseteq 1..d3.seq.entity /\ \A j \in DOMAIN ee : ee[j].name \in Names
        BY <2>17, <3>1 DEF EntitiesOK, IsTable, EntityRow
    <3>3. nn \subseteq (1..d3.seq.entity) \X Names
        BY <2>19, <3>2
    <3> HIDE DEF nn
    <3> QED BY <2>17, <2>18, <3>1, <3>3 DEF EntitiesOK
  <2>21. /\ \A o \in DOMAIN d3.observation : d3.observation[o].entity \in DOMAIN ee
         /\ \A k \in DOMAIN d3.attribute : k[1] = "entity" => k[2] \in DOMAIN ee
    BY <2>16, <2>17, EntitiesStay
  <2>22. Sound(e) /\ e.relation = d.relation /\ Mirrored(e) = Mirrored(d3)
    <3> HIDE DEF nn
    <3> QED BY <2>6, <2>16, <2>18, <2>20, <2>21, EntityChangeSound
  <2>23. d.relation \subseteq (DOMAIN ee) \X (DOMAIN ee) \X RelationTypes
    BY <2>8 DEF Whole
  <2> HIDE DEF nn
  <2> QED BY <2>1, <2>17, <2>18, <2>19, <2>22, <2>23 DEF Whole
<1> QED BY <1>1, <1>2

\* An upsert keeps the name, and adds texts and attributes.
LEMMA UpsertEntityWhole ==
    ASSUME NEW d, Whole(d), NEW x, IsEntityInput(x)
    PROVE  Whole(UpsertEntity(d, x))
<1>1. CASE ~Exists(d, x.name)
    BY <1>1, CreateEntityWhole DEF UpsertEntity
<1>2. CASE Exists(d, x.name)
  <2> DEFINE i == IdOf(d, x.name)
             d0 == type_id(d, 0, x.type)
             d1 == [d0 EXCEPT !.entity[i].type = x.type]
             ee == [d0.entity EXCEPT ![i] = [d0.entity[i] EXCEPT !.type = x.type]]
             d2 == insert_missing(d1, i, x.observations)
             d3 == upsert_attributes(d2, "entity", i, x.attributes)
  <2>1. UpsertEntity(d, x) = d3
    BY <1>2 DEF UpsertEntity
  <2>2. x.type \in EntityTypes /\ x.observations \in Seq(Bodies) /\ x.attributes \in Attributes
    BY DEF IsEntityInput
  <2>3. Sound(d0) /\ SameGraph(d, d0)
    <3>1. <<0, x.type>> \in TypeKeys
        BY <2>2 DEF TypeKeys
    <3> QED BY <3>1, TypeIdSound DEF Whole
  <2>4. i \in DOMAIN d.entity
    BY <1>2, IdOfIs
  <2> HIDE DEF d0, i
  <2>5. Whole(d0) /\ IsStore(d0) /\ d0.entity = d.entity /\ \A j \in DOMAIN d0.entity : d0.entity[j] \in EntityRow
    <3>1. Whole(d0)
        BY <2>3, SameIsWhole
    <3> QED BY <2>3, <3>1, Fields DEF SameGraph, Sound, CountersOK
  <2>6. Edits(d0, d1, ee, d0.relation, d0.name_fts)
    <3>1. d1 = [d0 EXCEPT !.entity = ee]
        BY <2>5 DEF IsStore
    <3> HIDE DEF d1, ee
    <3> QED BY <2>5, <3>1 DEF Edits, IsStore
  <2>7. ee \in [DOMAIN d0.entity -> EntityRow] /\ \A j \in DOMAIN d0.entity : ee[j].name = d0.entity[j].name
    <3>1. d0.entity \in [DOMAIN d0.entity -> EntityRow]
        BY <2>3 DEF Sound, EntitiesOK, IsTable
    <3>2. [d0.entity[i] EXCEPT !.type = x.type] \in EntityRow /\ [d0.entity[i] EXCEPT !.type = x.type].name = d0.entity[i].name
        BY <2>2, <2>4, <2>5 DEF EntityRow
    <3> QED BY <2>4, <2>5, <3>1, <3>2
  <2> HIDE DEF d1, ee
  <2>8. Whole(d1) /\ i \in DOMAIN d1.entity
    BY <2>4, <2>5, <2>6, <2>7, RowsWhole
  <2>9. Sound(d2) /\ SameGraph(d1, d2)
    BY <2>2, <2>8, InsertMissingSound DEF Whole
  <2> HIDE DEF d2
  <2>10. <<"entity", i>> \in Owned(d2)
    BY <2>8, <2>9 DEF Owned, SameGraph
  <2>11. Sound(d3) /\ SameGraph(d2, d3)
    BY <2>2, <2>9, <2>10, UpsertAttributesSound
  <2> QED BY <2>1, <2>8, <2>9, <2>11, SameIsWhole
<1> QED BY <1>1, <1>2

-----------------------------------------------------------------------------
(* Swapping and re-typing a relation *)

\* A table whose rows are changed one by one.
LEMMA RehomeSound ==
    ASSUME NEW d, Sound(d), NEW old, NEW new \in Live(d)
    PROVE  LET e == rehome_relation_children(d, old, new) IN Sound(e) /\ SameGraph(d, e)
<1> DEFINE R == [mirror : Live(d), body : Bodies]
           K == ({"entity"} \X (DOMAIN d.entity) \X AttrKeys) \cup ({"relation"} \X Live(d) \X AttrKeys)
           kept == {k \in DOMAIN d.attribute : k[1] = "relation" /\ k[2] = old}
           W == {<<"relation", new, q[3]>> : q \in kept}
           moved == [k \in W |-> d.attribute[<<"relation", old, k[3]>>]]
           t == [o \in DOMAIN d.relobs |-> IF d.relobs[o].mirror = old THEN [d.relobs[o] EXCEPT !.mirror = new] ELSE d.relobs[o]]
           u == Over(moved, Without(d.attribute, kept))
           e == rehome_relation_children(d, old, new)
<1>1. e = [d EXCEPT !.relobs = t, !.attribute = u]
    BY DEF rehome_relation_children
<1>2. IsStore(d)
    BY DEF Sound, CountersOK
<1>3. IsTable(d.relobs, 1..d.seq.rel_obs, R) /\ d.rel_obs_fts = Texts(d.relobs)
    BY DEF Sound, RelationObservationsOK
<1>4. ASSUME NEW o \in DOMAIN d.relobs PROVE t[o] \in R /\ t[o].body = d.relobs[o].body
  <2>1. d.relobs[o] \in R
    BY <1>3 DEF IsTable
  <2>2. CASE d.relobs[o].mirror = old
    <3>1. t[o] = [d.relobs[o] EXCEPT !.mirror = new]
        BY <2>2
    <3> QED BY <2>1, <3>1
  <2>3. CASE d.relobs[o].mirror # old
    BY <2>1, <2>3
  <2> QED BY <2>2, <2>3
<1>5. DOMAIN t = DOMAIN d.relobs
    OBVIOUS
<1>6. t \in [DOMAIN d.relobs -> R]
    BY <1>4
<1> HIDE DEF t
<1>7. IsTable(t, 1..d.seq.rel_obs, R) /\ Texts(t) = Texts(d.relobs)
    BY <1>3, <1>4, <1>5, <1>6 DEF IsTable, Texts
<1>8. IsTable(d.attribute, K, AttrValues)
    BY DEF Sound, AttributesOK
<1>9. ASSUME NEW q \in kept PROVE q = <<"relation", old, q[3]>> /\ q[3] \in AttrKeys /\ d.attribute[q] \in AttrValues
  <2>1. q \in K /\ d.attribute[q] \in AttrValues
    BY <1>8 DEF IsTable
  <2> QED BY <2>1
<1>10. ASSUME NEW k \in W PROVE k \in K /\ moved[k] \in AttrValues
  <2>1. PICK q \in kept : k = <<"relation", new, q[3]>>
    OBVIOUS
  <2>2. k[3] = q[3] /\ moved[k] = d.attribute[<<"relation", old, q[3]>>]
    BY <2>1
  <2> HIDE DEF kept, moved, W
  <2> QED BY <1>9, <2>1, <2>2
<1>11. DOMAIN moved = W
    OBVIOUS
<1>12. moved \in [W -> AttrValues] /\ W \subseteq K
    BY <1>10
<1> HIDE DEF moved, W
<1>13. IsTable(moved, K, AttrValues)
    BY <1>11, <1>12 DEF IsTable
<1> HIDE DEF kept, K
<1>14. IsTable(Without(d.attribute, kept), K, AttrValues)
    BY <1>8, WithoutRows
<1>15. IsTable(u, K, AttrValues)
    BY <1>13, <1>14, OverRows
<1> HIDE DEF u, e
<1>16. /\ e.entity = d.entity /\ e.relation = d.relation /\ e.mirror = d.mirror
       /\ e.observation = d.observation /\ e.relobs = t /\ e.attribute = u
       /\ e.name_fts = d.name_fts /\ e.obs_fts = d.obs_fts /\ e.rel_obs_fts = d.rel_obs_fts
       /\ e.type_dict = d.type_dict /\ e.described = d.described /\ e.stat = d.stat /\ e.seq = d.seq /\ IsStore(e)
    BY <1>1, <1>2 DEF IsStore
<1>17. EntitiesOK(e) /\ MirrorsOK(e) /\ Live(e) = Live(d)
    BY <1>16, SameEntities, SameMirrors DEF Sound
<1>18. ObservationsOK(e)
    BY <1>16, SameObservations DEF Sound
<1>19. RelationObservationsOK(e)
    BY <1>3, <1>7, <1>16, <1>17 DEF RelationObservationsOK
<1>20. AttributesOK(e)
    BY <1>15, <1>16, <1>17 DEF AttributesOK, K
<1>21. CountersOK(e)
    BY <1>16 DEF Sound, CountersOK
<1> QED BY <1>16, <1>17, <1>18, <1>19, <1>20, <1>21 DEF Sound, SameGraph, e

\* The first half of a move: the triple is swapped, and a tombstone in the way goes.
Cleared(d, r, s) ==
    [d EXCEPT !.relation = (@ \ {r}) \cup {s}, !.mirror = Without(@, {m \in MirrorsOf(d, s) : @[m].deleted})]

\* It leaves every live mirror, and none of the new triple.
LEMMA ClearedSound ==
    ASSUME NEW d, Whole(d), NEW r \in d.relation, NEW s \in (DOMAIN d.entity) \X (DOMAIN d.entity) \X RelationTypes,
           s \notin d.relation
    PROVE  LET e == Cleared(d, r, s)
           IN  /\ Sound(e) /\ e.entity = d.entity /\ e.relation = (d.relation \ {r}) \cup {s} /\ e.name_fts = d.name_fts
               /\ Live(e) = Live(d) /\ Mirrored(e) = Mirrored(d) /\ MirrorsOf(e, s) = {}
               /\ \A m \in Live(d) : e.mirror[m] = d.mirror[m]
<1> DEFINE X == {m \in MirrorsOf(d, s) : d.mirror[m].deleted}
           rr == (d.relation \ {r}) \cup {s}
           mm == Without(d.mirror, X)
           d0 == [d EXCEPT !.relation = rr]
           d1 == [d EXCEPT !.relation = rr, !.mirror = mm]
<1>1. Cleared(d, r, s) = d1
    BY DEF Cleared
<1>2. IsStore(d) /\ MirrorsOK(d) /\ d.relation \subseteq Links /\ DOMAIN d.entity \subseteq Nat
      /\ d.name_fts = {<<i, d.entity[i].name>> : i \in DOMAIN d.entity}
    BY Fields DEF Whole, Sound, CountersOK
<1>3. s \in Links /\ rr \subseteq Links
    BY <1>2 DEF Links
<1>4. Sound(d0) /\ d0.entity = d.entity /\ d0.relation = rr /\ d0.name_fts = d.name_fts /\ d0.mirror = d.mirror
    BY <1>3, RelationChangeSound DEF Whole
<1> HIDE DEF rr, X
<1>5. d1 = [d0 EXCEPT !.mirror = mm] /\ d1.mirror = mm
    BY <1>2 DEF IsStore
<1> HIDE DEF d0, d1
<1>6. DOMAIN mm = DOMAIN d.mirror \ X /\ \A k \in DOMAIN mm : mm[k] = d.mirror[k]
    BY DEF Without
<1>7. MirrorsOK(d1)
  <2> DEFINE R == [triple : Links, deleted : BOOLEAN]
  <2>1. IsTable(d.mirror, Nat, R) /\ \A x, y \in DOMAIN d.mirror : d.mirror[x].triple = d.mirror[y].triple => x = y
    BY <1>2 DEF MirrorsOK
  <2>2. IsTable(mm, Nat, R)
    <3> HIDE DEF R
    <3> QED BY <2>1, WithoutRows
  <2> HIDE DEF mm
  <2>3. \A x, y \in DOMAIN mm : mm[x].triple = mm[y].triple => x = y
    BY <1>6, <2>1
  <2>4. ASSUME DOMAIN mm # {} PROVE \E b \in DOMAIN mm : \A k \in DOMAIN mm : k <= b
    <3>1. PICK n \in DOMAIN d.mirror : \A k \in DOMAIN d.mirror : k <= n
        BY <1>2, <1>6, <2>4 DEF MirrorsOK
    <3>2. DOMAIN mm \subseteq Nat /\ n \in Nat /\ \A k \in DOMAIN mm : k <= n
        BY <1>6, <2>1, <3>1 DEF IsTable
    <3> QED BY <2>4, <3>2, Greatest
  <2> QED BY <1>5, <2>2, <2>3, <2>4 DEF MirrorsOK
<1>8. \A m \in MirrorsOf(d, s) : d.mirror[m].deleted
    BY DEF Whole, Mirrored, Live, MirrorsOf
<1>9. Live(d1) = Live(d) /\ Mirrored(d1) = Mirrored(d) /\ \A m \in Live(d) : d1.mirror[m] = d.mirror[m]
  <2> HIDE DEF mm
  <2>1. Live(d1) = Live(d)
    BY <1>5, <1>6 DEF Live, X
  <2>2. \A m \in Live(d) : d1.mirror[m] = d.mirror[m]
    BY <1>5, <1>6, <2>1 DEF Live
  <2> QED BY <2>1, <2>2 DEF Mirrored
<1>10. MirrorsOf(d1, s) = {}
  <2> HIDE DEF mm
  <2> QED BY <1>5, <1>6, <1>8 DEF MirrorsOf, X
<1>11. HangOn(d0, Live(d1))
  <2>1. Live(d0) = Live(d1)
    BY <1>4, <1>9 DEF Live
  <2>2. HangOn(d0, Live(d0))
    BY <1>4, Hangs
  <2> QED BY <2>1, <2>2
<1>12. Sound(d1) /\ d1.entity = d.entity /\ d1.relation = rr /\ d1.name_fts = d.name_fts
  <2> HIDE DEF mm
  <2>1. Sound(d1) /\ d1.entity = d0.entity /\ d1.relation = d0.relation /\ d1.name_fts = d0.name_fts
    BY <1>4, <1>5, <1>7, <1>11, MirrorChange
  <2> QED BY <1>4, <2>1
<1> QED BY <1>1, <1>9, <1>10, <1>12 DEF rr

\* A move gives the new triple a mirror, re-homes the children, then tombstones the old one.
LEMMA MoveRelationWhole ==
    ASSUME NEW d, Whole(d), NEW r \in d.relation, NEW s \in (DOMAIN d.entity) \X (DOMAIN d.entity) \X RelationTypes,
           s \notin d.relation, NEW old
    PROVE  Whole(MoveRelation(d, old, r, s))
<1> DEFINE rr == (d.relation \ {r}) \cup {s}
           d1 == Cleared(d, r, s)
           new == NextMirror(d1)
           d2 == [d1 EXCEPT !.mirror = With(d1.mirror, new, [triple |-> s, deleted |-> FALSE])]
           f == rehome_relation_children(d2, old, new)
           e == tombstone_relation_mirror(f, r)
<1>1. MoveRelation(d, old, r, s) = e
    BY DEF MoveRelation, Cleared
<1>2. d.relation \subseteq Links /\ DOMAIN d.entity \subseteq Nat
      /\ d.name_fts = {<<i, d.entity[i].name>> : i \in DOMAIN d.entity}
    BY Fields DEF Whole, Sound, CountersOK
<1>3. s \in Links
    BY <1>2 DEF Links
<1>9. /\ Sound(d1) /\ d1.entity = d.entity /\ d1.relation = rr /\ d1.name_fts = d.name_fts
      /\ Mirrored(d1) = Mirrored(d) /\ MirrorsOf(d1, s) = {}
    BY ClearedSound
<1> HIDE DEF rr, d1
<1>13. d2 = PutMirror(d1, s, FALSE) /\ new = MirrorFor(d1, s)
    BY <1>9 DEF PutMirror, MirrorFor
<1> HIDE DEF d2, new
<1>14. /\ Sound(d2) /\ d2.entity = d.entity /\ d2.relation = rr /\ d2.name_fts = d.name_fts
       /\ Mirrored(d2) = d.relation \cup {s} /\ new \in Live(d2)
  <2>1. Mirrored(d1) = d.relation
    BY <1>9 DEF Whole
  <2>2. /\ Sound(PutMirror(d1, s, FALSE)) /\ PutMirror(d1, s, FALSE).entity = d1.entity
        /\ PutMirror(d1, s, FALSE).relation = d1.relation /\ PutMirror(d1, s, FALSE).name_fts = d1.name_fts
        /\ Mirrored(PutMirror(d1, s, FALSE)) = Mirrored(d1) \cup {s} /\ MirrorFor(d1, s) \in Live(PutMirror(d1, s, FALSE))
    BY <1>3, <1>9, PutLiveMirror
  <2> QED BY <1>9, <1>13, <2>1, <2>2
<1>15. Sound(f) /\ SameGraph(d2, f)
    BY <1>14, RehomeSound
<1> HIDE DEF f
<1>16. /\ Sound(e) /\ e.entity = f.entity /\ e.relation = f.relation /\ e.name_fts = f.name_fts
       /\ Mirrored(e) = Mirrored(f) \ {r}
    BY <1>2, <1>15, TombstoneSound
<1>17. Mirrored(f) = Mirrored(d2)
    BY <1>15 DEF SameGraph, Mirrored, Live
<1> HIDE DEF e
<1>18. /\ Sound(e) /\ e.entity = d.entity /\ e.relation = rr /\ e.name_fts = d.name_fts
       /\ Mirrored(e) = (d.relation \cup {s}) \ {r}
    BY <1>14, <1>15, <1>16, <1>17 DEF SameGraph
<1>19. (d.relation \cup {s}) \ {r} = rr /\ rr \subseteq (DOMAIN d.entity) \X (DOMAIN d.entity) \X RelationTypes
    BY DEF rr, Whole
<1> QED BY <1>1, <1>2, <1>18, <1>19 DEF Whole

-----------------------------------------------------------------------------
(* Requests *)

\* The image of a finite set is finite.
LEMMA ImageFinite ==
    ASSUME NEW S, IsFiniteSet(S), NEW f
    PROVE  IsFiniteSet({f[x] : x \in S})
<1> DEFINE T == {f[x] : x \in S}
           g == [x \in S |-> f[x]]
<1>1. g \in Surjection(S, T)
    BY DEF Surjection
<1> QED BY <1>1, FS_Surjection

\* The entity or the relation that attributes are set on.
IsOwner(t) == (t.kind = "entity" /\ t.name \in Names) \/ (t.kind = "relation" /\ t.triple \in Triples)

\* The owner of an attribute lives.
LEMMA OwnerOwned ==
    ASSUME NEW d, NEW t, IsOwner(t), HasOwner(d, t)
    PROVE  <<t.kind, resolve_attribute_owner(d, t)>> \in Owned(d)
<1>1. CASE t.kind = "entity"
  <2>1. Exists(d, t.name) /\ resolve_attribute_owner(d, t) = IdOf(d, t.name)
    BY <1>1 DEF HasOwner, resolve_attribute_owner
  <2>2. IdOf(d, t.name) \in DOMAIN d.entity
    BY <2>1, IdOfIs
  <2> QED BY <1>1, <2>1, <2>2 DEF Owned
<1>2. CASE t.kind = "relation"
  <2>1. LiveMirrors(d, t.triple) # {} /\ resolve_attribute_owner(d, t) = resolve_relation_mirror(d, t.triple)
    BY <1>2 DEF HasOwner, resolve_attribute_owner
  <2>2. resolve_relation_mirror(d, t.triple) \in Live(d)
    BY <2>1, MirrorResolved
  <2> QED BY <1>2, <2>1, <2>2 DEF Owned
<1> QED BY <1>1, <1>2 DEF IsOwner

\* A result, refused or not.
Outcome(a) == Whole(a.db) /\ a = [ok |-> a.ok, db |-> a.db] /\ a.ok \in BOOLEAN

\* A request that changes nothing, or that is refused.
LEMMA OkOutcome == ASSUME NEW d, Whole(d) PROVE Outcome(Ok(d)) /\ Outcome(Refused(d))
    BY DEF Outcome, Ok, Refused

IsItem(op, x) ==
    \/ op \in {"CreateEntities", "UpsertEntities"} /\ IsEntityInput(x)
    \/ op = "CreateRelations" /\ x.triple \in Triples /\ x.observations \in Seq(Bodies) /\ x.attributes \in Attributes
    \/ op = "DeleteRelations" /\ x \in Triples
    \/ op \in {"AddRelationObservations", "DeleteRelationObservations"} /\ x.triple \in Triples /\ x.contents \in Seq(Bodies)
    \/ op = "SetAttributes" /\ IsOwner(x) /\ x.attributes \in Attributes
    \/ op = "DeleteAttributes" /\ IsOwner(x)
    \/ op \in {"AddObservations", "DeleteObservations"} /\ x.name \in Names /\ x.contents \in Seq(Bodies)

\* One item of a request.
LEMMA ItemWhole ==
    ASSUME NEW d, Whole(d), NEW op, NEW x, IsItem(op, x)
    PROVE  Outcome(ItemOf(d, op, x))
<1>0. Sound(d) /\ Outcome(Ok(d)) /\ Outcome(Refused(d))
    BY OkOutcome DEF Whole
<1>1. CASE op = "CreateEntities"
  <2>1. IsEntityInput(x) /\ ItemOf(d, op, x) = Ok(create_entity(d, x))
    BY <1>1 DEF IsItem, ItemOf
  <2> QED BY <2>1, CreateEntityWhole, OkOutcome
<1>2. CASE op = "UpsertEntities"
  <2>1. IsEntityInput(x) /\ ItemOf(d, op, x) = Ok(UpsertEntity(d, x))
    BY <1>2 DEF IsItem, ItemOf
  <2> QED BY <2>1, UpsertEntityWhole, OkOutcome
<1>3. CASE op = "CreateRelations"
  <2>1. /\ x.triple \in Triples /\ x.observations \in Seq(Bodies) /\ x.attributes \in Attributes
        /\ ItemOf(d, op, x) = Ok(create_relation_with(d, x))
    BY <1>3 DEF IsItem, ItemOf
  <2> QED BY <2>1, CreateRelationWithWhole, OkOutcome
<1>4. CASE op = "DeleteRelations"
  <2>1. x \in Triples /\ ItemOf(d, op, x) = Ok(DeleteRelation(d, x))
    BY <1>4 DEF IsItem, ItemOf
  <2> QED BY <2>1, DeleteRelationWhole, OkOutcome
<1>5. CASE op = "AddRelationObservations"
  <2> DEFINE m == resolve_relation_mirror(d, x.triple)
             e == insert_relation_observations(d, m, x.contents)
  <2>1. x.contents \in Seq(Bodies) /\ ItemOf(d, op, x) = AddRelationObservations(d, x)
    BY <1>5 DEF IsItem, ItemOf
  <2>2. CASE LiveMirrors(d, x.triple) = {}
    BY <1>0, <2>1, <2>2 DEF AddRelationObservations
  <2>3. CASE LiveMirrors(d, x.triple) # {}
    <3>1. m \in Live(d)
        BY <2>3, MirrorResolved
    <3>2. ItemOf(d, op, x) = Ok(e)
        BY <2>1, <2>3 DEF AddRelationObservations
    <3> HIDE DEF m
    <3>3. Sound(e) /\ SameGraph(d, e)
        BY <1>0, <2>1, <3>1, InsertRelationObservationsSound
    <3> QED BY <3>2, <3>3, SameIsWhole, OkOutcome
  <2> QED BY <2>2, <2>3
<1>6. CASE op = "DeleteRelationObservations"
  <2> DEFINE m == resolve_relation_mirror(d, x.triple)
             os == {o \in DOMAIN d.relobs : d.relobs[o].mirror = m /\ d.relobs[o].body \in Range(x.contents)}
             e == DropRelationObservations(d, os)
  <2>1. ItemOf(d, op, x) = DeleteRelationObservations(d, x)
    BY <1>6 DEF ItemOf
  <2>2. ItemOf(d, op, x) \in {Ok(d), Refused(d), Ok(e)}
    BY <2>1 DEF DeleteRelationObservations
  <2>3. os \in SUBSET DOMAIN d.relobs
    OBVIOUS
  <2> HIDE DEF os
  <2>4. Sound(e) /\ SameGraph(d, e)
    BY <1>0, <2>3, DropRelationObservationsSound
  <2>5. Outcome(Ok(e))
    BY <2>4, SameIsWhole, OkOutcome
  <2> QED BY <1>0, <2>2, <2>5
<1>7. CASE op = "SetAttributes"
  <2> DEFINE e == upsert_attributes(d, x.kind, resolve_attribute_owner(d, x), x.attributes)
  <2>1. IsOwner(x) /\ x.attributes \in Attributes /\ ItemOf(d, op, x) = SetAttributes(d, x)
    BY <1>7 DEF IsItem, ItemOf
  <2>2. CASE ~HasOwner(d, x)
    BY <1>0, <2>1, <2>2 DEF SetAttributes
  <2>3. CASE HasOwner(d, x)
    <3>1. Sound(e) /\ SameGraph(d, e)
        BY <1>0, <2>1, <2>3, OwnerOwned, UpsertAttributesSound
    <3>2. ItemOf(d, op, x) = Ok(e)
        BY <2>1, <2>3 DEF SetAttributes
    <3> QED BY <3>1, <3>2, SameIsWhole, OkOutcome
  <2> QED BY <2>2, <2>3
<1>8. CASE op = "DeleteAttributes"
  <2> DEFINE e == delete_attribute_keys(d, x.kind, resolve_attribute_owner(d, x), x.keys)
  <2>1. ItemOf(d, op, x) = DeleteAttributes(d, x)
    BY <1>8 DEF ItemOf
  <2>2. ItemOf(d, op, x) \in {Refused(d), Ok(e)}
    BY <2>1 DEF DeleteAttributes
  <2>3. Sound(e) /\ SameGraph(d, e)
    BY <1>0, DeleteAttributeKeysSound
  <2>4. Outcome(Ok(e))
    BY <2>3, SameIsWhole, OkOutcome
  <2> QED BY <1>0, <2>2, <2>4
<1>9. CASE op = "AddObservations"
  <2> DEFINE e == insert_observations(d, IdOf(d, x.name), x.contents)
  <2>1. x.contents \in Seq(Bodies) /\ ItemOf(d, op, x) = AddObservations(d, x)
    BY <1>9 DEF IsItem, ItemOf
  <2>2. CASE ~Exists(d, x.name)
    BY <1>0, <2>1, <2>2 DEF AddObservations
  <2>3. CASE Exists(d, x.name)
    <3>1. IdOf(d, x.name) \in DOMAIN d.entity
        BY <2>3, IdOfIs
    <3>2. Sound(e) /\ SameGraph(d, e)
        BY <1>0, <2>1, <3>1, InsertObservationsSound
    <3>3. ItemOf(d, op, x) = Ok(e)
        BY <2>1, <2>3 DEF AddObservations
    <3> QED BY <3>2, <3>3, SameIsWhole, OkOutcome
  <2> QED BY <2>2, <2>3
<1>10. CASE op = "DeleteObservations"
  <2> DEFINE os == {o \in ObservationsOf(d, IdOf(d, x.name)) : d.observation[o].body \in Range(x.contents)}
             e == DeleteObservationRows(d, os)
  <2>1. ItemOf(d, op, x) = DeleteObservations(d, x)
    BY <1>10 DEF ItemOf
  <2>2. ItemOf(d, op, x) \in {Ok(d), Refused(d), Ok(e)}
    BY <2>1 DEF DeleteObservations
  <2>3. Sound(e) /\ SameGraph(d, e)
    BY <1>0, DeleteObservationRowsSound
  <2>4. Outcome(Ok(e))
    BY <2>3, SameIsWhole, OkOutcome
  <2> QED BY <1>0, <2>2, <2>4
<1> QED BY <1>1, <1>2, <1>3, <1>4, <1>5, <1>6, <1>7, <1>8, <1>9, <1>10 DEF IsItem

\* One item of a request, unless an earlier one failed.
NextItem(acc, op, x) == IF acc.ok THEN ItemOf(acc.db, op, x) ELSE acc

\* The items of a request in order.
LEMMA InOrderWhole ==
    ASSUME NEW d, Whole(d), NEW q, NEW m \in Nat, DOMAIN q.items = 1..m, \A k \in 1..m : IsItem(q.op, q.items[k])
    PROVE  Outcome(InOrder(d, q))
<1> DEFINE n == m
           D == {a \in [ok : BOOLEAN, db : Stores] : Outcome(a)}
           g == [p \in D \X (1..n) |-> NextItem(p[1], q.op, q.items[p[2]])]
           Runs(it) == it = [s \in SUBSET (1..n) |->
                                IF s = {} THEN Ok(d) ELSE NextItem(it[Before(s)], q.op, q.items[Max(s)])]
           c == CHOOSE it : Runs(it)
<1>0. n \in Nat
    OBVIOUS
<1>1. InOrder(d, q) = c[1..n]
    BY <1>0 DEF InOrder, NextItem, FoldLeft, MapThenFoldSet, Before
<1>2. Ok(d) \in D
    BY OkOutcome, SoundIsStore DEF Whole, Ok
<1>3. ASSUME NEW e \in D, NEW k \in 1..n PROVE NextItem(e, q.op, q.items[k]) \in D
  <2>1. Outcome(ItemOf(e.db, q.op, q.items[k]))
    BY ItemWhole DEF Outcome
  <2>2. Outcome(NextItem(e, q.op, q.items[k]))
    BY <2>1 DEF NextItem
  <2>3. NextItem(e, q.op, q.items[k]) \in [ok : BOOLEAN, db : Stores]
    BY <2>2, SoundIsStore DEF Outcome, Whole
  <2> QED BY <2>2, <2>3
<1> HIDE DEF n, D
<1>4. g \in [D \X (1..n) -> D]
    BY <1>3
<1>5. PICK it : /\ it \in [SUBSET (1..n) -> D] /\ RunOf(Ok(d), n, g, it, SUBSET (1..n))
                /\ \A s \in SUBSET (1..n) : s # {} => it[Before(s)] \in D /\ Max(s) \in 1..n
    BY <1>0, <1>2, <1>4, FoldExists
<1>6. Runs(it)
  <2>1. \A s \in SUBSET (1..n) : it[s] = IF s = {} THEN Ok(d) ELSE NextItem(it[Before(s)], q.op, q.items[Max(s)])
    BY <1>5 DEF RunOf
  <2> QED BY <1>5, <2>1
<1>7. Runs(c)
    BY <1>6
<1> HIDE DEF c
<1> DEFINE P == [s \in SUBSET (1..n) |-> D]
<1>8. \A s \in SUBSET (1..n) : s # {} => Before(s) \in SUBSET (1..n) /\ Max(s) \in 1..n
    BY <1>0, BeforeSmaller
<1>9. ASSUME NEW s \in SUBSET (1..n), s # {} => c[Before(s)] \in P[Before(s)] PROVE c[s] \in P[s]
  <2>1. CASE s = {}
    BY <1>2, <1>7, <2>1
  <2>2. CASE s # {}
    <3>1. c[Before(s)] \in D /\ c[s] = NextItem(c[Before(s)], q.op, q.items[Max(s)])
        BY <1>7, <1>8, <1>9, <2>2
    <3> QED BY <1>3, <1>8, <2>2, <3>1
  <2> QED BY <2>1, <2>2
<1> HIDE DEF P
<1>10. c[1..n] \in P[1..n]
    BY <1>0, <1>9, FoldReaches
<1> QED BY <1>1, <1>10 DEF D, P

\* The viewer deletes a relation observation.
LEMMA DeleteRelationObservationByIdWhole ==
    ASSUME NEW d, Whole(d), NEW q
    PROVE  Outcome(DeleteRelationObservationById(d, q))
<1> DEFINE m == resolve_relation_mirror(d, q.triple)
           os == {o \in DOMAIN d.relobs \cap {q.id} : d.relobs[o].mirror = m}
           e == DropRelationObservations(d, os)
<1>1. DeleteRelationObservationById(d, q) \in {Refused(d), Ok(e)}
    BY DEF DeleteRelationObservationById
<1>2. os \in SUBSET DOMAIN d.relobs
    OBVIOUS
<1> HIDE DEF os
<1>3. Sound(e) /\ SameGraph(d, e)
    BY <1>2, DropRelationObservationsSound DEF Whole
<1>4. Outcome(Ok(e)) /\ Outcome(Refused(d))
    BY <1>3, SameIsWhole, OkOutcome
<1> QED BY <1>1, <1>4

\* The viewer edits a text: obs_fts is reindexed by hand.
LEMMA EditObservationWhole ==
    ASSUME NEW d, Whole(d), NEW q, q.body \in Bodies
    PROVE  Outcome(EditObservation(d, q))
<1>1. CASE ~Exists(d, q.name) \/ q.id \notin ObservationsOf(d, IdOf(d, q.name))
    BY <1>1, OkOutcome DEF EditObservation
<1>2. CASE Exists(d, q.name) /\ q.id \in ObservationsOf(d, IdOf(d, q.name))
  <2> DEFINE o == q.id
             R == [entity : DOMAIN d.entity, body : Bodies]
             t == [d.observation EXCEPT ![o] = [d.observation[o] EXCEPT !.body = q.body]]
             x == (d.obs_fts \ {<<o, d.observation[o].body>>}) \cup {<<o, q.body>>}
             e == [d EXCEPT !.observation[q.id].body = q.body,
                            !.obs_fts = (d.obs_fts \ {<<q.id, d.observation[q.id].body>>}) \cup {<<q.id, q.body>>}]
  <2>1. EditObservation(d, q) = Ok(e)
    BY <1>2 DEF EditObservation
  <2>2. IsStore(d) /\ Sound(d) /\ o \in DOMAIN d.observation
    BY <1>2 DEF Whole, Sound, CountersOK, ObservationsOf
  <2>3. IsTable(d.observation, 1..d.seq.obs, R) /\ d.obs_fts = Texts(d.observation)
    BY <2>2 DEF Sound, ObservationsOK
  <2>4. e = [d EXCEPT !.observation = t, !.obs_fts = x]
    BY <2>2 DEF IsStore
  <2>5. d.observation[o] \in R
    BY <2>2, <2>3 DEF IsTable
  <2>6. [d.observation[o] EXCEPT !.body = q.body] \in R /\ [d.observation[o] EXCEPT !.body = q.body].body = q.body
    BY <2>5
  <2>7. /\ DOMAIN t = DOMAIN d.observation /\ t[o] \in R /\ t[o].body = q.body
        /\ \A p \in DOMAIN d.observation : p # o => t[p] = d.observation[p]
    BY <2>2, <2>6
  <2>8. t \in [DOMAIN d.observation -> R]
    BY <2>2, <2>3, <2>6 DEF IsTable
  <2> HIDE DEF t, e, o
  <2>9. IsTable(t, 1..d.seq.obs, R)
    BY <2>3, <2>7, <2>8 DEF IsTable
  <2>10. Texts(t) = x
    BY <2>2, <2>3, <2>7 DEF Texts
  <2> HIDE DEF x
  <2>11. /\ e.entity = d.entity /\ e.relation = d.relation /\ e.mirror = d.mirror
         /\ e.relobs = d.relobs /\ e.attribute = d.attribute /\ e.name_fts = d.name_fts
         /\ e.rel_obs_fts = d.rel_obs_fts /\ e.type_dict = d.type_dict /\ e.described = d.described
         /\ e.stat = d.stat /\ e.seq = d.seq /\ e.observation = t /\ e.obs_fts = x /\ IsStore(e)
    BY <2>2, <2>4 DEF IsStore
  <2>12. CountersOK(e)
    BY <2>2, <2>11 DEF Sound, CountersOK
  <2>13. EntitiesOK(e) /\ MirrorsOK(e) /\ Live(e) = Live(d) /\ DOMAIN e.entity = DOMAIN d.entity
    BY <2>2, <2>11, SameEntities, SameMirrors DEF Sound
  <2>14. RelationObservationsOK(e) /\ AttributesOK(e)
    BY <2>2, <2>11, <2>13, SameRelationObservations, SameAttributes DEF Sound
  <2>15. ObservationsOK(e)
    BY <2>9, <2>10, <2>11 DEF ObservationsOK
  <2>16. Sound(e) /\ SameGraph(d, e)
    BY <2>11, <2>12, <2>13, <2>14, <2>15 DEF Sound, SameGraph
  <2> QED BY <2>1, <2>16, SameIsWhole, OkOutcome
<1> QED BY <1>1, <1>2

\* The viewer deletes an observation.
LEMMA DeleteObservationByIdWhole ==
    ASSUME NEW d, Whole(d), NEW q
    PROVE  Outcome(DeleteObservationById(d, q))
<1> DEFINE e == DeleteObservationRows(d, ObservationsOf(d, IdOf(d, q.name)) \cap {q.id})
<1>1. DeleteObservationById(d, q) \in {Refused(d), Ok(e)}
    BY DEF DeleteObservationById
<1>2. Sound(e) /\ SameGraph(d, e)
    BY DeleteObservationRowsSound DEF Whole
<1>3. Outcome(Ok(e)) /\ Outcome(Refused(d))
    BY <1>2, SameIsWhole, OkOutcome
<1> QED BY <1>1, <1>3

\* The viewer swaps the ends of a relation, unless the other triple is alive.
LEMMA ReverseRelationWhole ==
    ASSUME NEW d, Whole(d), NEW q, q.triple \in Triples
    PROVE  Outcome(ReverseRelation(d, q))
<1> DEFINE t == q.triple
           s == <<t[2], t[1], t[3]>>
           m == resolve_relation_mirror(d, t)
           e == MoveRelation(d, m, Ids(d, t), Ids(d, s))
<1>1. CASE t[1] = t[2] \/ LiveMirrors(d, t) = {} \/ Taken(d, s)
    BY <1>1, OkOutcome DEF ReverseRelation
<1>2. CASE ~(t[1] = t[2] \/ LiveMirrors(d, t) = {} \/ Taken(d, s))
  <2>1. ReverseRelation(d, q) = Ok(e)
    BY <1>2 DEF ReverseRelation
  <2>2. m \in Live(d) /\ d.mirror[m].triple = Ids(d, t) /\ Exists(d, t[1]) /\ Exists(d, t[2])
    BY <1>2, MirrorResolved
  <2>3. Ids(d, t) \in d.relation
    BY <2>2 DEF Whole, Mirrored
  <2>4. s \in Triples /\ s[1] = t[2] /\ s[2] = t[1]
    BY DEF Triples
  <2>5. Ids(d, s) \notin d.relation
    BY <1>2 DEF Taken
  <2> HIDE DEF s, m
  <2>6. Ids(d, s) \in (DOMAIN d.entity) \X (DOMAIN d.entity) \X RelationTypes
    BY <2>2, <2>4, IdsAre DEF Whole
  <2>7. Whole(e)
    BY <2>3, <2>5, <2>6, MoveRelationWhole
  <2> QED BY <2>1, <2>7, OkOutcome
<1> QED BY <1>1, <1>2

\* The viewer re-types a relation, unless the other triple is alive.
LEMMA ChangeRelationTypeWhole ==
    ASSUME NEW d, Whole(d), NEW q, q.triple \in Triples, q.type \in RelationTypes
    PROVE  Outcome(ChangeRelationType(d, q))
<1> DEFINE t == q.triple
           s == <<t[1], t[2], q.type>>
           m == resolve_relation_mirror(d, t)
           d1 == type_id(d, 1, q.type)
           e == MoveRelation(d1, m, Ids(d, t), Ids(d, s))
<1>1. CASE s = t \/ LiveMirrors(d, t) = {} \/ Taken(d, s)
    BY <1>1, OkOutcome DEF ChangeRelationType
<1>2. CASE ~(s = t \/ LiveMirrors(d, t) = {} \/ Taken(d, s))
  <2>1. ChangeRelationType(d, q) = Ok(e)
    BY <1>2 DEF ChangeRelationType
  <2>2. m \in Live(d) /\ d.mirror[m].triple = Ids(d, t) /\ Exists(d, t[1]) /\ Exists(d, t[2])
    BY <1>2, MirrorResolved
  <2>3. Ids(d, t) \in d.relation
    BY <2>2 DEF Whole, Mirrored
  <2>4. s \in Triples /\ s[1] = t[1] /\ s[2] = t[2]
    BY DEF Triples
  <2>5. Ids(d, s) \notin d.relation
    BY <1>2 DEF Taken
  <2>6. <<1, q.type>> \in TypeKeys
    BY DEF TypeKeys
  <2>7. Whole(d1) /\ d1.entity = d.entity /\ d1.relation = d.relation
    BY <2>6, TypeIdSound, SameIsWhole DEF Whole, SameGraph
  <2> HIDE DEF s, m, d1
  <2>8. Ids(d, s) \in (DOMAIN d.entity) \X (DOMAIN d.entity) \X RelationTypes
    BY <2>2, <2>4, IdsAre DEF Whole
  <2>9. Whole(e)
    BY <2>3, <2>5, <2>7, <2>8, MoveRelationWhole
  <2> QED BY <2>1, <2>9, OkOutcome
<1> QED BY <1>1, <1>2

\* A rename swaps the name in name_fts by hand.
LEMMA RenameEntityWhole ==
    ASSUME NEW d, Whole(d), NEW q, q.new \in Names
    PROVE  Outcome(RenameEntity(d, q))
<1>1. CASE ~Exists(d, q.old) \/ q.old = q.new \/ Exists(d, q.new)
    BY <1>1, OkOutcome DEF RenameEntity
<1>2. CASE ~(~Exists(d, q.old) \/ q.old = q.new \/ Exists(d, q.new))
  <2> DEFINE i == IdOf(d, q.old)
             ee == [d.entity EXCEPT ![i] = [d.entity[i] EXCEPT !.name = q.new]]
             nn == (d.name_fts \ {<<i, q.old>>}) \cup {<<i, q.new>>}
             e == [d EXCEPT !.entity[i].name = q.new, !.name_fts = nn]
  <2>1. RenameEntity(d, q) = Ok(e)
    BY <1>2 DEF RenameEntity
  <2>2. i \in DOMAIN d.entity /\ d.entity[i].name = q.old
    BY <1>2, IdOfIs
  <2> HIDE DEF i
  <2>3. /\ IsStore(d) /\ EntitiesOK(d) /\ d.relation \subseteq Links
        /\ d.name_fts = {<<j, d.entity[j].name>> : j \in DOMAIN d.entity}
    BY DEF Whole, Sound, CountersOK
  <2>4. Edits(d, e, ee, d.relation, nn)
    <3>1. e = [d EXCEPT !.entity = ee, !.name_fts = nn]
        BY <2>3 DEF IsStore
    <3> HIDE DEF e, ee, nn
    <3> QED BY <2>3, <3>1 DEF Edits, IsStore
  <2>5. d.entity \in [DOMAIN d.entity -> EntityRow] /\ DOMAIN d.entity \subseteq 1..d.seq.entity
    BY <2>3 DEF EntitiesOK, IsTable
  <2>6. [d.entity[i] EXCEPT !.name = q.new] \in EntityRow /\ [d.entity[i] EXCEPT !.name = q.new].name = q.new
    BY <2>2, <2>5 DEF EntityRow
  <2>7. /\ ee \in [DOMAIN d.entity -> EntityRow] /\ ee[i].name = q.new /\ DOMAIN ee = DOMAIN d.entity
        /\ \A j \in DOMAIN d.entity : j # i => ee[j] = d.entity[j]
    BY <2>2, <2>5, <2>6
  <2> HIDE DEF ee, e
  <2>8. nn = {<<j, ee[j].name>> : j \in DOMAIN ee}
    BY <2>2, <2>3, <2>7
  <2>9. \A j \in DOMAIN d.entity : d.entity[j].name # q.new
    BY <1>2 DEF Exists
  <2>10. \A j, k \in DOMAIN ee : ee[j].name = ee[k].name => j = k
    BY <2>3, <2>7, <2>9 DEF EntitiesOK
  <2>11. e.entity = ee /\ e.name_fts = nn /\ e.seq = d.seq
    BY <2>3, <2>4 DEF Edits, IsStore
  <2>12. nn \subseteq (1..d.seq.entity) \X Names
    <3>1. \A j \in DOMAIN ee : ee[j].name \in Names
        BY <2>7 DEF EntityRow
    <3> QED BY <2>5, <2>7, <2>8, <3>1
  <2> HIDE DEF nn
  <2>13. EntitiesOK(e)
    BY <2>5, <2>7, <2>10, <2>11, <2>12 DEF EntitiesOK, IsTable
  <2>14. /\ \A o \in DOMAIN d.observation : d.observation[o].entity \in DOMAIN ee
         /\ \A k \in DOMAIN d.attribute : k[1] = "entity" => k[2] \in DOMAIN ee
    BY <2>7, EntitiesStay DEF Whole
  <2>15. Sound(e) /\ e.relation = d.relation /\ Mirrored(e) = Mirrored(d)
    BY <2>3, <2>4, <2>13, <2>14, EntityChangeSound DEF Whole
  <2>16. Whole(e)
    BY <2>7, <2>8, <2>11, <2>15 DEF Whole
  <2> QED BY <2>1, <2>16, OkOutcome
<1> QED BY <1>1, <1>2

\* The relations of an entity by name.
LEMMA RelationsFor ==
    ASSUME NEW d, Whole(d), NEW n
    PROVE  relations_for(d, n) \in SUBSET Triples /\ IsFiniteSet(relations_for(d, n))
<1> DEFINE S == {r \in d.relation : n \in {d.entity[r[1]].name, d.entity[r[2]].name}}
           f == [r \in S |-> Named(d, r)]
<1>1. relations_for(d, n) = {Named(d, r) : r \in S}
    BY DEF relations_for
<1>2. ASSUME NEW r \in d.relation PROVE Named(d, r) \in Triples
  <2>1. r \in (DOMAIN d.entity) \X (DOMAIN d.entity) \X RelationTypes
    BY DEF Whole
  <2>2. \A j \in DOMAIN d.entity : d.entity[j].name \in Names
    BY DEF Whole, Sound, EntitiesOK, IsTable, EntityRow
  <2> QED BY <2>1, <2>2 DEF Named, Triples
<1>3. S \subseteq d.relation
    OBVIOUS
<1>4. IsFiniteSet(S)
  <2> HIDE DEF S
  <2> QED BY <1>3, RelationsFinite, FS_Subset
<1>5. {f[r] : r \in S} = {Named(d, r) : r \in S}
    OBVIOUS
<1>6. IsFiniteSet({f[r] : r \in S})
  <2> HIDE DEF f, S
  <2> QED BY <1>4, ImageFinite
<1> HIDE DEF f
<1> QED BY <1>1, <1>2, <1>5, <1>6

\* A merge copies to the target and deletes the source.
LEMMA MergeEntitiesWhole ==
    ASSUME NEW d, Whole(d), NEW q, q.source \in Names, q.target \in Names
    PROVE  Outcome(MergeEntities(d, q))
<1>1. CASE ~(Exists(d, q.source) /\ Exists(d, q.target)) \/ q.source = q.target
    BY <1>1, OkOutcome DEF MergeEntities
<1>2. CASE ~(~(Exists(d, q.source) /\ Exists(d, q.target)) \/ q.source = q.target)
  <2> DEFINE old == IdOf(d, q.source)
             into == IdOf(d, q.target)
             d0 == copy_observations(d, old, into)
             attrs == attributes_for(d, "entity", old)
             d1 == upsert_attributes(d0, "entity", into, attrs)
             Retarget(n) == IF n = q.source THEN q.target ELSE n
             S == relations_for(d, q.source)
             f == [t \in S |-> <<Retarget(t[1]), Retarget(t[2]), t[3]>>]
             moved == {<<Retarget(t[1]), Retarget(t[2]), t[3]>> : t \in S}
             d2 == FoldLeft(create_relation, d1, SetToSeq(moved))
             e == delete_entities(d2, {q.source})
  <2>1. MergeEntities(d, q) = Ok(e)
    BY <1>2 DEF MergeEntities
  <2>2. into \in DOMAIN d.entity
    BY <1>2, IdOfIs
  <2> HIDE DEF into, old
  <2>3. Sound(d0) /\ SameGraph(d, d0)
    BY <2>2, CopyObservationsSound DEF Whole
  <2> HIDE DEF d0
  <2>4. attrs \in Attributes
    <3> DEFINE keys == {k \in AttrKeys : <<"entity", old, k>> \in DOMAIN d.attribute}
    <3>1. \A k \in keys : d.attribute[<<"entity", old, k>>] \in AttrValues
        BY DEF Whole, Sound, AttributesOK, IsTable
    <3>2. attrs = [k \in keys |-> d.attribute[<<"entity", old, k>>]]
        BY DEF attributes_for
    <3>3. attrs \in [keys -> AttrValues] /\ keys \in SUBSET AttrKeys
        BY <3>1, <3>2
    <3> QED BY <3>3 DEF Attributes
  <2>5. <<"entity", into>> \in Owned(d0)
    BY <2>2, <2>3 DEF Owned, SameGraph
  <2> HIDE DEF attrs
  <2>6. Sound(d1) /\ SameGraph(d0, d1)
    BY <2>3, <2>4, <2>5, UpsertAttributesSound
  <2> HIDE DEF d1
  <2>7. Whole(d1)
    BY <2>3, <2>6, SameIsWhole
  <2>8. S \in SUBSET Triples /\ IsFiniteSet(S)
    BY RelationsFor
  <2> HIDE DEF S
  <2>9. moved = {f[t] : t \in S}
    OBVIOUS
  <2>10. moved \in SUBSET Triples
    BY <2>8 DEF Triples
  <2>11. IsFiniteSet(moved)
    <3> HIDE DEF f, moved
    <3> QED BY <2>8, <2>9, ImageFinite
  <2> HIDE DEF moved
  <2>12. Whole(d2)
    BY <2>7, <2>10, <2>11, CreateRelationsWhole
  <2> HIDE DEF d2
  <2>13. Whole(e)
    BY <2>12, FS_Singleton, DeleteEntitiesWhole
  <2> QED BY <2>1, <2>13, OkOutcome
<1> QED BY <1>1, <1>2

\* A file defines finitely many names.
LEMMA DefinedNamesFinite == ASSUME NEW d, Whole(d), NEW n PROVE IsFiniteSet(defined_names(d, n))
<1> DEFINE S == {q \in relations_for(d, n) : q[1] = n /\ q[3] = Defines}
           f == [r \in S |-> r[2]]
           T == {f[r] : r \in S}
<1>1. IsFiniteSet(S)
    BY RelationsFor, FS_Subset
<1>2. defined_names(d, n) = T \cup {n}
    BY DEF defined_names
<1>3. IsFiniteSet(T)
  <2> HIDE DEF S, f
  <2> QED BY <1>1, ImageFinite
<1> HIDE DEF T
<1> QED BY <1>2, <1>3, FS_AddElement

\* A wipe leaves nothing to index.
LEMMA WipeWhole == ASSUME NEW d, Whole(d) PROVE Whole(Wipe(d))
<1> DEFINE names == NamesOf(d)
           d1 == delete_entities(d, names)
           st == [d1.stat EXCEPT !.relation_obs = 0]
           e == Wipe(d)
<1>1. IsFiniteSet(names)
  <2> DEFINE f == [i \in DOMAIN d.entity |-> d.entity[i].name]
  <2>1. names = {f[i] : i \in DOMAIN d.entity}
    BY DEF NamesOf
  <2>2. d.seq.entity \in Nat /\ DOMAIN d.entity \in SUBSET (1..d.seq.entity)
    BY Fields DEF Whole, Sound, EntitiesOK, IsTable
  <2>3. IsFiniteSet(DOMAIN d.entity)
    BY <2>2, Indexes
  <2> HIDE DEF f
  <2> QED BY <2>1, <2>3, ImageFinite
<1>2. Whole(d1) /\ NamesOf(d1) = {}
    BY <1>1, DeleteEntitiesWhole
<1>3. e = [d1 EXCEPT !.name_fts = {}, !.obs_fts = {}, !.rel_obs_fts = {}, !.stat.relation_obs = 0]
    BY DEF Wipe, NamesOf
<1> HIDE DEF d1, e
<1>4. DOMAIN d1.entity = {}
    BY <1>2 DEF NamesOf
<1>5. d1.relation = {} /\ Live(d1) = {}
  <2>1. d1.relation = {}
    BY <1>2, <1>4 DEF Whole
  <2>2. {d1.mirror[m].triple : m \in Live(d1)} = {}
    BY <1>2, <2>1 DEF Whole, Mirrored
  <2> QED BY <2>1, <2>2
<1>6. IsStore(d1) /\ d1 \in Stores /\ Sound(d1)
    BY <1>2, SoundIsStore DEF Whole, Sound, CountersOK
<1>7. DOMAIN d1.observation = {} /\ DOMAIN d1.relobs = {}
  <2>1. \A o \in DOMAIN d1.observation : d1.observation[o].entity \in DOMAIN d1.entity
    BY <1>6 DEF Sound, ObservationsOK, IsTable
  <2>2. \A o \in DOMAIN d1.relobs : d1.relobs[o].mirror \in Live(d1)
    BY <1>6 DEF Sound, RelationObservationsOK, IsTable
  <2> QED BY <1>4, <1>5, <2>1, <2>2
<1>8. /\ e.entity = d1.entity /\ e.relation = d1.relation /\ e.mirror = d1.mirror
      /\ e.relobs = d1.relobs /\ e.attribute = d1.attribute /\ e.observation = d1.observation
      /\ e.name_fts = {} /\ e.obs_fts = {} /\ e.rel_obs_fts = {}
      /\ e.type_dict = d1.type_dict /\ e.described = d1.described /\ e.stat = st /\ e.seq = d1.seq /\ IsStore(e)
    BY <1>3, <1>6 DEF IsStore
<1>9. d1.name_fts = {} /\ d1.obs_fts = {} /\ d1.rel_obs_fts = {}
    BY <1>2, <1>4, <1>6, <1>7 DEF Whole, Sound, ObservationsOK, RelationObservationsOK, Texts
<1>10. st \in [entities : Int, relations : Int, observations : Int, relation_obs : Int]
    BY <1>6 DEF Stores
<1> HIDE DEF st
<1>11. CountersOK(e)
    BY <1>6, <1>8, <1>10 DEF Sound, CountersOK
<1>12. SameGraph(d1, e)
    BY <1>8, <1>9 DEF SameGraph
<1>13. Sound(e)
    BY <1>6, <1>8, <1>9, <1>11, <1>12, CountersSound
<1> QED BY <1>2, <1>12, <1>13, SameIsWhole DEF e

Itemised ==
    {"CreateEntities", "UpsertEntities", "CreateRelations", "DeleteRelations", "AddRelationObservations",
     "DeleteRelationObservations", "SetAttributes", "DeleteAttributes", "AddObservations", "DeleteObservations"}

IsRequest(q) ==
    \/ q.op \in Itemised /\ \E m \in Nat : DOMAIN q.items = 1..m /\ \A k \in 1..m : IsItem(q.op, q.items[k])
    \/ q.op = "DeleteEntities" /\ IsFiniteSet(Range(q.items))
    \/ q.op \in {"DeleteRelationObservationById", "DeleteObservationById", "PurgeDefinedEntities", "Wipe"}
    \/ q.op = "EditObservation" /\ q.body \in Bodies
    \/ q.op = "ReverseRelation" /\ q.triple \in Triples
    \/ q.op = "ChangeRelationType" /\ q.triple \in Triples /\ q.type \in RelationTypes
    \/ q.op = "MergeEntities" /\ q.source \in Names /\ q.target \in Names
    \/ q.op = "RenameEntity" /\ q.new \in Names

\* Every request takes a whole graph to a whole graph, or is refused.
LEMMA ExecuteWhole == ASSUME NEW d, Whole(d), NEW q, IsRequest(q) PROVE Outcome(execute(d, q))
<1>1. CASE q.op \in Itemised
  <2>1. PICK m \in Nat : DOMAIN q.items = 1..m /\ \A k \in 1..m : IsItem(q.op, q.items[k])
    BY <1>1 DEF IsRequest, Itemised
  <2>2. execute(d, q) = InOrder(d, q)
    BY <1>1 DEF execute, Itemised
  <2> QED BY <2>1, <2>2, InOrderWhole
<1>2. CASE q.op = "DeleteEntities"
  <2>1. IsFiniteSet(Range(q.items)) /\ execute(d, q) = Ok(delete_entities(d, Range(q.items)))
    BY <1>2 DEF IsRequest, Itemised, execute, DeleteEntities
  <2> QED BY <2>1, DeleteEntitiesWhole, OkOutcome
<1>3. CASE q.op = "DeleteRelationObservationById"
  <2>1. execute(d, q) = DeleteRelationObservationById(d, q)
    BY <1>3 DEF execute
  <2> QED BY <2>1, DeleteRelationObservationByIdWhole
<1>4. CASE q.op = "DeleteObservationById"
  <2>1. execute(d, q) = DeleteObservationById(d, q)
    BY <1>4 DEF execute
  <2> QED BY <2>1, DeleteObservationByIdWhole
<1>5. CASE q.op = "PurgeDefinedEntities"
  <2>1. execute(d, q) = Ok(delete_entities(d, defined_names(d, q.name)))
    BY <1>5 DEF execute, PurgeDefinedEntities
  <2> QED BY <2>1, DefinedNamesFinite, DeleteEntitiesWhole, OkOutcome
<1>6. CASE q.op = "Wipe"
  <2>1. execute(d, q) = Ok(Wipe(d))
    BY <1>6 DEF execute
  <2> QED BY <2>1, WipeWhole, OkOutcome
<1>7. CASE q.op = "EditObservation"
  <2>1. q.body \in Bodies /\ execute(d, q) = EditObservation(d, q)
    BY <1>7 DEF IsRequest, Itemised, execute
  <2> QED BY <2>1, EditObservationWhole
<1>8. CASE q.op = "ReverseRelation"
  <2>1. q.triple \in Triples /\ execute(d, q) = ReverseRelation(d, q)
    BY <1>8 DEF IsRequest, Itemised, execute
  <2> QED BY <2>1, ReverseRelationWhole
<1>9. CASE q.op = "ChangeRelationType"
  <2>1. q.triple \in Triples /\ q.type \in RelationTypes /\ execute(d, q) = ChangeRelationType(d, q)
    BY <1>9 DEF IsRequest, Itemised, execute
  <2> QED BY <2>1, ChangeRelationTypeWhole
<1>10. CASE q.op = "MergeEntities"
  <2>1. q.source \in Names /\ q.target \in Names /\ execute(d, q) = MergeEntities(d, q)
    BY <1>10 DEF IsRequest, Itemised, execute
  <2> QED BY <2>1, MergeEntitiesWhole
<1>11. CASE q.op = "RenameEntity"
  <2>1. q.new \in Names /\ execute(d, q) = RenameEntity(d, q)
    BY <1>11 DEF IsRequest, Itemised, execute
  <2> QED BY <2>1, RenameEntityWhole
<1> QED BY <1>1, <1>2, <1>3, <1>4, <1>5, <1>6, <1>7, <1>8, <1>9, <1>10, <1>11 DEF IsRequest

-----------------------------------------------------------------------------
(* The counters *)

\* What is captured can be counted.
Countable(c) ==
    /\ IsFiniteSet(DOMAIN c.entities) /\ IsFiniteSet(c.relations)
    /\ IsFiniteSet(UNION {c.entities[n].observations : n \in DOMAIN c.entities})
    /\ \A n \in DOMAIN c.entities : IsFiniteSet(c.entities[n].observations)

\* A capture of a whole graph can be counted.
LEMMA CaptureCountable == ASSUME NEW d, Whole(d), NEW names PROVE Countable(capture(d, names))
<1> DEFINE c == capture(d, names)
           E == {m \in names : Exists(d, m)}
<1>1. /\ c.entities = [n \in E |-> read_entity(d, n)] /\ DOMAIN c.entities = E
      /\ c.relations = UNION {relations_for(d, n) : n \in names}
    BY DEF capture
<1> HIDE DEF c
<1>2. d.seq.entity \in Nat /\ DOMAIN d.entity \in SUBSET (1..d.seq.entity)
      /\ d.seq.obs \in Nat /\ DOMAIN d.observation \in SUBSET (1..d.seq.obs)
    BY Fields DEF Whole, Sound, EntitiesOK, ObservationsOK, IsTable
<1>3. IsFiniteSet(E)
  <2> DEFINE f == [i \in DOMAIN d.entity |-> d.entity[i].name]
  <2>1. E \subseteq {f[i] : i \in DOMAIN d.entity}
    BY DEF Exists
  <2>2. IsFiniteSet(DOMAIN d.entity)
    BY <1>2, Indexes
  <2> HIDE DEF f, E
  <2>3. IsFiniteSet({f[i] : i \in DOMAIN d.entity})
    BY <2>2, ImageFinite
  <2> QED BY <2>1, <2>3, FS_Subset
<1>4. IsFiniteSet(c.relations)
  <2> DEFINE f == [r \in d.relation |-> Named(d, r)]
             T == {f[r] : r \in d.relation}
  <2>1. c.relations \subseteq T
    BY <1>1 DEF relations_for
  <2> HIDE DEF f
  <2>2. IsFiniteSet(T)
    BY RelationsFinite, ImageFinite
  <2> HIDE DEF T
  <2> QED BY <2>1, <2>2, FS_Subset
<1> DEFINE g == [o \in DOMAIN d.observation |-> <<o, d.observation[o].body>>]
           O == {g[o] : o \in DOMAIN d.observation}
<1>5. ASSUME NEW n \in E PROVE c.entities[n].observations \subseteq O
  <2>1. c.entities[n].observations = {<<o, d.observation[o].body>> : o \in ObservationsOf(d, IdOf(d, n))}
    BY <1>1 DEF read_entity
  <2> QED BY <2>1 DEF ObservationsOf
<1> HIDE DEF g
<1>6. IsFiniteSet(O)
  <2>1. IsFiniteSet(DOMAIN d.observation)
    BY <1>2, Indexes
  <2> QED BY <2>1, ImageFinite
<1> HIDE DEF O, E
<1>7. UNION {c.entities[n].observations : n \in E} \subseteq O
    BY <1>5
<1>8. IsFiniteSet(UNION {c.entities[n].observations : n \in E})
    BY <1>6, <1>7, FS_Subset
<1>9. \A n \in E : IsFiniteSet(c.entities[n].observations)
    BY <1>5, <1>6, FS_Subset
<1>10. Countable(c)
    BY <1>1, <1>3, <1>4, <1>8, <1>9 DEF Countable
<1> QED BY <1>10 DEF c

\* Only captured entities are counted again.
LEMMA RewrittenCaptured ==
    ASSUME NEW d, NEW names, NEW before, NEW q, NEW i, NEW after, after = capture(d, names),
           i \in Rewritten(changes_of(q, before, after))
    PROVE  i \in DOMAIN d.entity /\ d.entity[i].name \in DOMAIN after.entities
<1> DEFINE E == {m \in names : Exists(d, m)}
<1>1. after.entities = [n \in E |-> read_entity(d, n)] /\ DOMAIN after.entities = E
    BY DEF capture
<1>2. PICK c \in changes_of(q, before, after) : c.kind # "rename" /\ c.after # None /\ i = c.after.id
    BY DEF Rewritten
<1>3. c \in effective_changes(before, after)
  <2>1. \A x \in rename_changes(before, after, q.old, q.new) : x.kind = "rename"
    BY DEF rename_changes
  <2> QED BY <1>2, <2>1 DEF changes_of
<1>4. \E n \in E : c.after = after.entities[n]
  <2>1. CASE c \in RelationChanges(before, after)
    BY <1>1, <2>1 DEF RelationChanges
  <2>2. CASE c \notin RelationChanges(before, after)
    <3>1. PICK n : c = EntityChange(before, after, n)
        BY <1>3, <2>2 DEF effective_changes
    <3>2. c.after = Row(after, n)
        BY <3>1 DEF EntityChange
    <3> QED BY <1>1, <1>2, <3>2 DEF Row
  <2> QED BY <2>1, <2>2
<1>5. PICK n \in E : c.after = after.entities[n]
    BY <1>4
<1>6. c.after.id = IdOf(d, n)
    BY <1>1, <1>5 DEF read_entity
<1>7. i \in DOMAIN d.entity /\ d.entity[i].name = n
    BY <1>2, <1>5, <1>6, IdOfIs
<1> QED BY <1>1, <1>7

\* Whatever is added to a counter, it stays a number.
LEMMA CountersChange ==
    ASSUME NEW d, Whole(d), NEW td, IsTable(td, TypeKeys, Int),
           NEW st \in [entities : Int, relations : Int, observations : Int, relation_obs : Int],
           NEW dd \in SUBSET TypeKeys
    PROVE  LET e == [d EXCEPT !.type_dict = td, !.stat = st, !.described = dd] IN Whole(e) /\ SameGraph(d, e)
<1> DEFINE e == [d EXCEPT !.type_dict = td, !.stat = st, !.described = dd]
<1>1. IsStore(d) /\ CountersOK(d) /\ Sound(d)
    BY DEF Whole, Sound, CountersOK
<1>2. /\ e.entity = d.entity /\ e.relation = d.relation /\ e.mirror = d.mirror
      /\ e.observation = d.observation /\ e.relobs = d.relobs /\ e.attribute = d.attribute
      /\ e.name_fts = d.name_fts /\ e.obs_fts = d.obs_fts /\ e.rel_obs_fts = d.rel_obs_fts
      /\ e.type_dict = td /\ e.described = dd /\ e.stat = st /\ e.seq = d.seq /\ IsStore(e)
  <2>1. e = [d EXCEPT !.type_dict = td, !.stat = st, !.described = dd]
    OBVIOUS
  <2> HIDE DEF e
  <2> QED BY <1>1, <2>1 DEF IsStore
<1> HIDE DEF e
<1>3. CountersOK(e) /\ SameGraph(d, e)
    BY <1>1, <1>2 DEF CountersOK, SameGraph
<1>4. Sound(e)
    BY <1>1, <1>2, <1>3, CountersSound
<1>5. Whole(e) /\ SameGraph(d, e)
    BY <1>3, <1>4, SameIsWhole
<1> QED BY <1>5 DEF e

\* update_counters writes counts, and no name, text or relation.
LEMMA CountersKept ==
    ASSUME NEW d, Whole(d), NEW d0, Whole(d0), NEW names, NEW q, NEW quiet \in BOOLEAN,
           NEW before, before = capture(d0, names), NEW after, after = capture(d, names)
    PROVE  Whole(update_counters(d, before, after, changes_of(q, before, after), quiet))
<1> DEFINE OfType(s, t) == {n \in DOMAIN s.entities : s.entities[n].type = t}
           OfRelType(s, t) == {r \in s.relations : r[3] = t}
           Delta(k) == IF k[1] = 0 THEN Cardinality(OfType(after, k[2])) - Cardinality(OfType(before, k[2]))
                       ELSE Cardinality(OfRelType(after, k[2])) - Cardinality(OfRelType(before, k[2]))
           Obs(s) == Cardinality(UNION {s.entities[n].observations : n \in DOMAIN s.entities})
           changes == changes_of(q, before, after)
           td == [k \in DOMAIN d.type_dict |-> IF quiet THEN d.type_dict[k] ELSE d.type_dict[k] + Delta(k)]
           st == [d.stat EXCEPT
                    !.entities = @ + Cardinality(DOMAIN after.entities) - Cardinality(DOMAIN before.entities),
                    !.relations = @ + Cardinality(after.relations) - Cardinality(before.relations),
                    !.observations = @ + Obs(after) - Obs(before)]
           Counted(i) == [d.entity[i] EXCEPT
                    !.obs_count = Cardinality(after.entities[d.entity[i].name].observations),
                    !.out_deg = Cardinality({r \in after.relations : r[1] = d.entity[i].name}),
                    !.in_deg = Cardinality({r \in after.relations : r[2] = d.entity[i].name})]
           ee == [i \in DOMAIN d.entity |-> IF i \notin Rewritten(changes) THEN d.entity[i] ELSE Counted(i)]
           f == [d EXCEPT !.type_dict = td, !.stat = st, !.described = d.described]
           e == update_counters(d, before, after, changes, quiet)
<1>1. Countable(before) /\ Countable(after)
    BY CaptureCountable
<1>2. IsStore(d) /\ d \in Stores /\ Sound(d)
    BY SoundIsStore DEF Whole, Sound, CountersOK
<1>3. e = [d EXCEPT !.type_dict = td, !.stat = st, !.entity = ee]
    BY <1>2 DEF update_counters, IsStore
<1>4. ASSUME NEW s, Countable(s), NEW t
      PROVE  Cardinality(OfType(s, t)) \in Nat /\ Cardinality(OfRelType(s, t)) \in Nat
  <2>1. IsFiniteSet(DOMAIN s.entities) /\ IsFiniteSet(s.relations)
    BY <1>4 DEF Countable
  <2>2. OfType(s, t) \in SUBSET (DOMAIN s.entities) /\ OfRelType(s, t) \in SUBSET s.relations
    OBVIOUS
  <2> HIDE DEF OfType, OfRelType
  <2>3. IsFiniteSet(OfType(s, t)) /\ IsFiniteSet(OfRelType(s, t))
    BY <2>1, <2>2, FS_Subset
  <2> QED BY <2>3, FS_CardinalityType
<1>5. ASSUME NEW s, Countable(s)
      PROVE  Cardinality(DOMAIN s.entities) \in Nat /\ Cardinality(s.relations) \in Nat /\ Obs(s) \in Nat
    BY <1>5, FS_CardinalityType DEF Countable
<1>6. \A k : Delta(k) \in Int
  <2> TAKE k
  <2> HIDE DEF OfType, OfRelType
  <2>1. /\ Cardinality(OfType(after, k[2])) \in Nat /\ Cardinality(OfType(before, k[2])) \in Nat
        /\ Cardinality(OfRelType(after, k[2])) \in Nat /\ Cardinality(OfRelType(before, k[2])) \in Nat
    BY <1>1, <1>4
  <2> QED BY <2>1
<1>7. IsTable(td, TypeKeys, Int)
  <2>1. DOMAIN d.type_dict \subseteq TypeKeys /\ \A k \in DOMAIN d.type_dict : d.type_dict[k] \in Int
    BY <1>2 DEF Sound, CountersOK, IsTable
  <2> HIDE DEF Delta
  <2>2. \A k \in DOMAIN d.type_dict : d.type_dict[k] + Delta(k) \in Int
    BY <1>6, <2>1
  <2> QED BY <2>1, <2>2 DEF IsTable
<1>8. st \in [entities : Int, relations : Int, observations : Int, relation_obs : Int]
  <2>1. d.stat \in [entities : Int, relations : Int, observations : Int, relation_obs : Int]
    BY <1>2 DEF Stores
  <2> HIDE DEF Obs
  <2>2. /\ Cardinality(DOMAIN after.entities) \in Nat /\ Cardinality(after.relations) \in Nat /\ Obs(after) \in Nat
        /\ Cardinality(DOMAIN before.entities) \in Nat /\ Cardinality(before.relations) \in Nat /\ Obs(before) \in Nat
    BY <1>1, <1>5
  <2> DEFINE a == d.stat.entities + Cardinality(DOMAIN after.entities) - Cardinality(DOMAIN before.entities)
             b == d.stat.relations + Cardinality(after.relations) - Cardinality(before.relations)
             c == d.stat.observations + Obs(after) - Obs(before)
  <2>3. a \in Int /\ b \in Int /\ c \in Int
    BY <2>1, <2>2
  <2>4. st = [d.stat EXCEPT !.entities = a, !.relations = b, !.observations = c]
    OBVIOUS
  <2> HIDE DEF a, b, c, st
  <2> QED BY <2>1, <2>3, <2>4
<1>9. ee \in [DOMAIN d.entity -> EntityRow] /\ \A i \in DOMAIN d.entity : ee[i].name = d.entity[i].name
  <2>1. \A i \in DOMAIN d.entity : d.entity[i] \in EntityRow
    BY <1>2, Fields
  <2>2. ASSUME NEW i \in DOMAIN d.entity, i \in Rewritten(changes)
        PROVE  Counted(i) \in EntityRow /\ Counted(i).name = d.entity[i].name
    <3> DEFINE outs == {r \in after.relations : r[1] = d.entity[i].name}
               ins == {r \in after.relations : r[2] = d.entity[i].name}
    <3>1. d.entity[i].name \in DOMAIN after.entities
        BY <2>2, RewrittenCaptured
    <3>2. IsFiniteSet(after.entities[d.entity[i].name].observations) /\ IsFiniteSet(after.relations)
        BY <1>1, <3>1 DEF Countable
    <3>3. IsFiniteSet(outs) /\ IsFiniteSet(ins)
        BY <3>2, FS_Subset
    <3> HIDE DEF outs, ins
    <3>4. /\ Cardinality(after.entities[d.entity[i].name].observations) \in Nat
          /\ Cardinality(outs) \in Nat /\ Cardinality(ins) \in Nat
        BY <3>2, <3>3, FS_CardinalityType
    <3>5. Counted(i) = [d.entity[i] EXCEPT !.obs_count = Cardinality(after.entities[d.entity[i].name].observations),
                                           !.out_deg = Cardinality(outs), !.in_deg = Cardinality(ins)]
        BY DEF outs, ins
    <3> QED BY <2>1, <3>4, <3>5 DEF EntityRow
  <2> HIDE DEF Counted, changes
  <2> QED BY <2>1, <2>2
<1> HIDE DEF td, st, ee, e
<1>10. Whole(f) /\ SameGraph(d, f)
    BY <1>2, <1>7, <1>8, CountersChange DEF Stores
<1>11. Edits(f, e, ee, f.relation, f.name_fts)
    BY <1>2, <1>3 DEF IsStore, Edits
<1> HIDE DEF f
<1>12. Whole(e)
    BY <1>9, <1>10, <1>11, RowsWhole DEF SameGraph
<1> QED BY <1>12 DEF e

\* A description touches the type catalogue only.
LEMMA DescriptionWhole ==
    ASSUME NEW d, Whole(d), NEW kind, NEW t, <<kind, t>> \in TypeKeys, NEW given \in BOOLEAN
    PROVE  Whole(set_type_description(d, kind, t, given))
<1> DEFINE f == type_id(d, kind, t)
           dd == IF given THEN f.described \cup {<<kind, t>>} ELSE f.described \ {<<kind, t>>}
           e == [f EXCEPT !.type_dict = f.type_dict, !.stat = f.stat, !.described = dd]
<1>1. Sound(f) /\ SameGraph(d, f)
    BY TypeIdSound DEF Whole
<1>2. Whole(f)
    BY <1>1, SameIsWhole
<1>3. set_type_description(d, kind, t, given) = [f EXCEPT !.described = dd]
    BY DEF set_type_description
<1> HIDE DEF f
<1>4. IsStore(f) /\ f \in Stores /\ f.described \subseteq TypeKeys /\ IsTable(f.type_dict, TypeKeys, Int)
    BY <1>1, SoundIsStore DEF Sound, CountersOK
<1>5. dd \in SUBSET TypeKeys
    BY <1>4
<1> HIDE DEF dd
<1>6. [f EXCEPT !.described = dd] = e
    BY <1>4 DEF IsStore
<1>7. f.stat \in [entities : Int, relations : Int, observations : Int, relation_obs : Int]
    BY <1>4 DEF Stores
<1>8. Whole(e)
    BY <1>2, <1>4, <1>5, <1>7, CountersChange
<1> QED BY <1>3, <1>6, <1>8

-----------------------------------------------------------------------------
(* One transaction *)

\* One transaction: the request and the counters.
LEMMA ApplyWhole ==
    ASSUME Whole(db), NEW STATE q, IsRequest(q), apply_inner(q)
    PROVE  Whole(db)'
<1> DEFINE d == execute(db, q).db
           names == affected_names(db, q)
           before == capture(db, names)
           after == capture(d, names)
           quiet == q.op \in Quiet
<1>1. db' = update_counters(d, before, after, changes_of(q, before, after), quiet)
    BY DEF apply_inner
<1>2. Whole(d)
    BY ExecuteWhole DEF Outcome
<1>3. quiet \in BOOLEAN
    OBVIOUS
<1> HIDE DEF d, names, quiet
<1>4. Whole(update_counters(d, before, after, changes_of(q, before, after), quiet))
    BY <1>2, <1>3, CountersKept
<1> HIDE DEF before, after
<1>5. Whole(db')
    BY <1>1, <1>4
<1> QED BY <1>5

\* Requests are made of items of the kind that they name.
LEMMA BatchIsRequest ==
    ASSUME NEW op \in Itemised, NEW S, \A x \in S : IsItem(op, x), NEW items \in Batches(S)
    PROVE  IsRequest([op |-> op, items |-> items])
<1>1. PICK n \in 1..MaxBatch : items \in [1..n -> S]
    BY DEF Batches
<1>2. n \in Nat
    BY GraphInputs
<1>3. DOMAIN items = 1..n /\ \A k \in 1..n : IsItem(op, items[k])
    BY <1>1
<1> QED BY <1>2, <1>3 DEF IsRequest

\* A request of one item.
LEMMA OneIsRequest ==
    ASSUME NEW op \in Itemised, NEW x, IsItem(op, x)
    PROVE  IsRequest([op |-> op, items |-> <<x>>])
<1>1. DOMAIN <<x>> = 1..1 /\ <<x>>[1] = x
    OBVIOUS
<1>2. \A k \in 1..1 : IsItem(op, <<x>>[k])
    BY <1>1
<1> QED BY <1>1, <1>2 DEF IsRequest

\* The entities that a call carries.
LEMMA EntityItem ==
    ASSUME NEW op \in {"CreateEntities", "UpsertEntities"}, NEW x \in EntityInputs PROVE IsItem(op, x)
    BY GraphInputs DEF IsItem, IsEntityInput

\* The relations that a call carries.
LEMMA RelationItem == ASSUME NEW x \in RelationInputs PROVE IsItem("CreateRelations", x)
    BY GraphInputs DEF IsItem

\* One text is a sequence of texts.
LEMMA OneBody == ASSUME NEW c \in {<<b>> : b \in Bodies} PROVE c \in Seq(Bodies)
<1>1. PICK b \in Bodies : c = <<b>>
    OBVIOUS
<1>2. <<b>> \in Seq(Bodies)
    OBVIOUS
<1> QED BY <1>1, <1>2

\* The observations that a call carries.
LEMMA UpdateItem ==
    ASSUME NEW op \in {"AddObservations", "DeleteObservations"}, NEW x \in Updates PROVE IsItem(op, x)
<1>1. x.name \in Names /\ x.contents \in {<<b>> : b \in Bodies}
    BY DEF Updates
<1> QED BY <1>1, OneBody DEF IsItem

\* The relation observations that a call carries.
LEMMA RelationUpdateItem ==
    ASSUME NEW op \in {"AddRelationObservations", "DeleteRelationObservations"}, NEW x \in RelationUpdates
    PROVE  IsItem(op, x)
<1>1. x.triple \in Triples /\ x.contents \in {<<b>> : b \in Bodies}
    BY DEF RelationUpdates
<1> QED BY <1>1, OneBody DEF IsItem

\* The attributes that a call carries.
LEMMA AttributeItem ==
    /\ \A x \in Sets : IsItem("SetAttributes", x)
    /\ \A x \in Deletes : IsItem("DeleteAttributes", x)
<1>1. OneAttribute \subseteq Attributes
  <2>1. \A k \in AttrKeys : {k} \in SUBSET AttrKeys
    OBVIOUS
  <2> QED BY <2>1 DEF OneAttribute, Attributes
<1>2. ASSUME NEW x \in Sets PROVE IsOwner(x) /\ x.attributes \in OneAttribute
    BY DEF Sets, IsOwner
<1>3. ASSUME NEW x \in Deletes PROVE IsOwner(x)
    BY DEF Deletes, IsOwner
<1> QED BY <1>1, <1>2, <1>3 DEF IsItem

\* The viewer's requests are requests.
LEMMA UiRequest == ASSUME NEW q \in into_request PROVE IsRequest(q)
<1>1. CASE \E e \in EntityInputs : q = [op |-> "CreateEntities", items |-> <<e>>]
    BY <1>1, EntityItem, OneIsRequest DEF Itemised
<1>2. CASE \E i \in RelationInputs : q = [op |-> "CreateRelations", items |-> <<i>>]
    BY <1>2, RelationItem, OneIsRequest DEF Itemised
<1>3. CASE q \in [op : {"RenameEntity"}, old : Names, new : Names]
    BY <1>3 DEF IsRequest
<1>4. CASE q \in [op : {"ReverseRelation"}, triple : Triples]
    BY <1>4 DEF IsRequest
<1>5. CASE q \in [op : {"ChangeRelationType"}, triple : Triples, type : RelationTypes]
    BY <1>5 DEF IsRequest
<1>6. CASE q \in [op : {"EditObservation"}, name : Names, id : 1..MaxObs, body : Bodies]
    BY <1>6 DEF IsRequest
<1>7. CASE q \in [op : {"DeleteObservationById"}, name : Names, id : 1..MaxObs]
    BY <1>7 DEF IsRequest
<1>8. CASE q \in [op : {"DeleteRelationObservationById"}, triple : Triples, id : 1..MaxRelObs]
    BY <1>8 DEF IsRequest
<1> QED BY <1>1, <1>2, <1>3, <1>4, <1>5, <1>6, <1>7, <1>8 DEF into_request

\* What a step does to the store: it applies a request or describes a type.
Requested == \E q : IsRequest(q) /\ apply_inner(q)
Described == \E kind, t, given : <<kind, t>> \in TypeKeys /\ given \in BOOLEAN /\ handle_set_type_description(kind, t, given)

\* Every tool call applies a request, or describes a type.
LEMMA ToolCallDoes == ASSUME ToolCall PROVE (Requested \/ Described) /\ UNCHANGED editing
<1> DEFINE Done == (Requested \/ Described) /\ UNCHANGED editing
<1>0. ASSUME NEW q, IsRequest(q), Apply(q) PROVE Done
    BY <1>0 DEF Apply, Requested
<1> HIDE DEF Done
<1>1. ASSUME NEW items \in Batches(EntityInputs), handle_create_entities(items) \/ handle_upsert_entities(items)
      PROVE  Done
  <2>1. /\ IsRequest([op |-> "CreateEntities", items |-> items])
        /\ IsRequest([op |-> "UpsertEntities", items |-> items])
    BY EntityItem, BatchIsRequest DEF Itemised
  <2> QED BY <1>0, <1>1, <2>1 DEF handle_create_entities, handle_upsert_entities
<1>2. ASSUME NEW names \in Batches(Names), handle_delete_entities(names) PROVE Done
  <2>1. PICK n \in 1..MaxBatch : names \in [1..n -> Names]
    BY DEF Batches
  <2>2. n \in Nat /\ DOMAIN names = 1..n
    BY <2>1, GraphInputs
  <2>3. IsFiniteSet(1..n)
    BY <2>2, Indexes
  <2>4. IsFiniteSet({names[k] : k \in 1..n})
    BY <2>3, ImageFinite
  <2>5. Range(names) = {names[k] : k \in 1..n}
    BY <2>2 DEF Range
  <2>6. IsRequest([op |-> "DeleteEntities", items |-> names])
    BY <2>4, <2>5 DEF IsRequest
  <2> QED BY <1>0, <1>2, <2>6 DEF handle_delete_entities
<1>3. ASSUME NEW items \in Batches(RelationInputs), handle_create_relations(items) PROVE Done
  <2>1. IsRequest([op |-> "CreateRelations", items |-> items])
    BY RelationItem, BatchIsRequest DEF Itemised
  <2> QED BY <1>0, <1>3, <2>1 DEF handle_create_relations
<1>4. ASSUME NEW t \in Triples, handle_delete_relations(<<t>>) PROVE Done
  <2>1. IsItem("DeleteRelations", t)
    BY DEF IsItem
  <2>2. IsRequest([op |-> "DeleteRelations", items |-> <<t>>])
    BY <2>1, OneIsRequest DEF Itemised
  <2> QED BY <1>0, <1>4, <2>2 DEF handle_delete_relations
<1>5. ASSUME NEW us \in Batches(Updates), handle_add_observations(us) \/ handle_delete_observations(us) PROVE Done
  <2>1. IsRequest([op |-> "AddObservations", items |-> us]) /\ IsRequest([op |-> "DeleteObservations", items |-> us])
    BY UpdateItem, BatchIsRequest DEF Itemised
  <2> QED BY <1>0, <1>5, <2>1 DEF handle_add_observations, handle_delete_observations
<1>6. ASSUME NEW u \in RelationUpdates,
             handle_add_relation_observations(<<u>>) \/ handle_delete_relation_observations(<<u>>)
      PROVE  Done
  <2>1. /\ IsRequest([op |-> "AddRelationObservations", items |-> <<u>>])
        /\ IsRequest([op |-> "DeleteRelationObservations", items |-> <<u>>])
    BY RelationUpdateItem, OneIsRequest DEF Itemised
  <2> QED BY <1>0, <1>6, <2>1 DEF handle_add_relation_observations, handle_delete_relation_observations
<1>7. ASSUME NEW t \in Sets, handle_set_attributes(<<t>>) PROVE Done
  <2>1. IsRequest([op |-> "SetAttributes", items |-> <<t>>])
    BY AttributeItem, OneIsRequest DEF Itemised
  <2> QED BY <1>0, <1>7, <2>1 DEF handle_set_attributes
<1>8. ASSUME NEW t \in Deletes, handle_delete_attributes(<<t>>) PROVE Done
  <2>1. IsRequest([op |-> "DeleteAttributes", items |-> <<t>>])
    BY AttributeItem, OneIsRequest DEF Itemised
  <2> QED BY <1>0, <1>8, <2>1 DEF handle_delete_attributes
<1>9. ASSUME NEW m \in Names, NEW n \in Names, handle_merge_entities(m, n) \/ handle_rename_entity(m, n) PROVE Done
  <2>1. /\ IsRequest([op |-> "MergeEntities", source |-> m, target |-> n])
        /\ IsRequest([op |-> "RenameEntity", old |-> m, new |-> n])
    BY DEF IsRequest
  <2> QED BY <1>0, <1>9, <2>1 DEF handle_merge_entities, handle_rename_entity
<1>10. ASSUME NEW n \in Names, code_purge_file(n) PROVE Done
  <2>1. IsRequest([op |-> "PurgeDefinedEntities", name |-> n])
    BY DEF IsRequest
  <2> QED BY <1>0, <1>10, <2>1 DEF code_purge_file
<1>11. ASSUME wipe PROVE Done
  <2>1. IsRequest([op |-> "Wipe"])
    BY DEF IsRequest
  <2> QED BY <1>0, <1>11, <2>1 DEF wipe
<1>12. ASSUME NEW given \in BOOLEAN, NEW kind, NEW t, <<kind, t>> \in TypeKeys, handle_set_type_description(kind, t, given)
       PROVE  Done
    BY <1>12 DEF Done, Described, handle_set_type_description
<1>13. ASSUME NEW given \in BOOLEAN,
              \/ \E t \in EntityTypes : handle_set_type_description(0, t, given)
              \/ \E t \in RelationTypes : handle_set_type_description(1, t, given)
       PROVE  Done
  <2>1. (\A t \in EntityTypes : <<0, t>> \in TypeKeys) /\ (\A t \in RelationTypes : <<1, t>> \in TypeKeys)
    BY DEF TypeKeys
  <2> QED BY <1>12, <1>13, <2>1
<1>14. Done
    BY <1>1, <1>2, <1>3, <1>4, <1>5, <1>6, <1>7, <1>8, <1>9, <1>10, <1>11, <1>13 DEF ToolCall
<1> QED BY <1>14 DEF Done

\* The viewer applies its requests, also when the graph changed since the check.
LEMMA UiCallDoes ==
    ASSUME editing \in into_request \cup {Idle}, UiCall
    PROVE  (Requested \/ UNCHANGED <<db, replica, dropped>>) /\ (editing \in into_request \cup {Idle})'
<1>1. ASSUME NEW q \in into_request, ui_mutations_handler(q)
      PROVE  Requested /\ (editing \in into_request \cup {Idle})'
  <2>1. IsRequest(q) /\ apply_inner(q) /\ editing' = editing
    BY <1>1, UiRequest DEF ui_mutations_handler, Apply
  <2> QED BY <2>1 DEF Requested, into_request
<1>2. ASSUME NEW q \in into_request, apply_with_conflict_check(q)
      PROVE  UNCHANGED <<db, replica, dropped>> /\ (editing \in into_request \cup {Idle})'
  <2>1. UNCHANGED <<db, replica, dropped>> /\ editing' = q
    BY <1>2 DEF apply_with_conflict_check
  <2> QED BY <2>1 DEF into_request
<1>3. ASSUME UiApply
      PROVE  (Requested \/ UNCHANGED <<db, replica, dropped>>) /\ (editing \in into_request \cup {Idle})'
  <2>1. editing' = Idle /\ editing \in into_request
    BY <1>3 DEF UiApply
  <2>2. IsRequest(editing)
    BY <2>1, UiRequest
  <2>3. apply_inner(editing) => Requested
    BY <2>2 DEF Requested
  <2> QED BY <1>3, <2>1, <2>3 DEF UiApply, Idle
<1> QED BY <1>1, <1>2, <1>3 DEF UiCall

\* Together: what any step of the graph does to the store.
LEMMA StepDoes ==
    ASSUME editing \in into_request \cup {Idle}, [GraphNext]_graphVars
    PROVE  /\ Requested \/ Described \/ UNCHANGED <<db, replica, dropped>>
           /\ (editing \in into_request \cup {Idle})'
<1>1. CASE UNCHANGED graphVars
    BY <1>1 DEF graphVars, into_request
<1>2. CASE ToolCall
  <2>1. (Requested \/ Described) /\ UNCHANGED editing
    BY <1>2, ToolCallDoes
  <2> QED BY <2>1 DEF into_request
<1>3. CASE UiCall
    BY <1>3, UiCallDoes
<1> QED BY <1>1, <1>2, <1>3 DEF GraphNext

\* A new file is whole.
LEMMA InitWhole == ASSUME GraphInit PROVE GraphInv
<1>1. db = EmptyStore /\ editing = Idle
    BY DEF GraphInit
<1>2. /\ db.entity = Empty /\ db.observation = Empty /\ db.mirror = Empty /\ db.relobs = Empty /\ db.attribute = Empty
      /\ db.relation = {} /\ db.name_fts = {} /\ db.obs_fts = {} /\ db.rel_obs_fts = {}
      /\ db.type_dict = Empty /\ db.described = {} /\ db.seq = [entity |-> 0, obs |-> 0, rel_obs |-> 0]
      /\ db.stat = [entities |-> 0, relations |-> 0, observations |-> 0, relation_obs |-> 0]
      /\ IsStore(db)
    BY <1>1 DEF EmptyStore, IsStore
<1>3. DOMAIN Empty = {} /\ \A keys, Rows : IsTable(Empty, keys, Rows)
    BY DEF Empty, IsTable
<1>4. EntitiesOK(db) /\ ObservationsOK(db) /\ MirrorsOK(db)
    BY <1>2, <1>3 DEF EntitiesOK, ObservationsOK, MirrorsOK, Texts
<1>5. RelationObservationsOK(db) /\ AttributesOK(db) /\ CountersOK(db)
    BY <1>2, <1>3 DEF RelationObservationsOK, AttributesOK, CountersOK, Texts
<1>6. Mirrored(db) = {}
    BY <1>2, <1>3 DEF Mirrored, Live
<1>7. Whole(db)
    BY <1>2, <1>3, <1>4, <1>5, <1>6 DEF Whole, Sound
<1> QED BY <1>1, <1>7 DEF GraphInv

-----------------------------------------------------------------------------

\* Every request leaves the graph whole, whatever it carries and whatever
\* came before it: mutation.rs runs each in one transaction, and the
\* statements of one restore what they break.
THEOREM GraphStaysWhole == GraphSpec => []GraphInv
<1>1. GraphInv /\ [GraphNext]_graphVars => GraphInv'
  <2> SUFFICES ASSUME GraphInv, [GraphNext]_graphVars PROVE GraphInv'
    OBVIOUS
  <2>0. /\ Requested \/ Described \/ UNCHANGED <<db, replica, dropped>>
        /\ (editing \in into_request \cup {Idle})'
    BY StepDoes DEF GraphInv
  <2>1. CASE Requested
    <3>1. PICK q : IsRequest(q) /\ apply_inner(q)
        BY <2>1 DEF Requested
    <3>2. Whole(db)'
        BY <3>1, ApplyWhole DEF GraphInv
    <3> QED BY <2>0, <3>2 DEF GraphInv
  <2>2. CASE Described
    <3>1. Whole(db')
        BY <2>2, DescriptionWhole DEF Described, handle_set_type_description, GraphInv
    <3> QED BY <2>0, <3>1 DEF GraphInv
  <2>3. CASE UNCHANGED <<db, replica, dropped>>
    <3>1. db' = db
        BY <2>3
    <3>2. Whole(db')
        BY <3>1 DEF GraphInv
    <3> QED BY <2>0, <3>2 DEF GraphInv
  <2> QED BY <2>0, <2>1, <2>2, <2>3
<1> QED BY <1>1, InitWhole, PTL DEF GraphSpec

\* A full-text search finds exactly the live names and texts, for any number
\* of entities, relations and observations: the indexes, which mutation.rs
\* keeps partly by triggers and partly by hand, never miss a row nor keep a
\* text that is gone.
THEOREM SearchFindsLiveTexts == GraphSpec => []SearchIndexExact
<1>1. GraphInv => SearchIndexExact
    BY DEF GraphInv, Whole, Sound, ObservationsOK, RelationObservationsOK, Texts, SearchIndexExact
<1> QED BY <1>1, GraphStaysWhole, PTL

\* Every relation has exactly one live mirror and every live mirror its
\* relation, and no observation or attribute hangs on a row that is gone,
\* through every create, delete, swap, re-type, rename, merge and wipe.
THEOREM MirrorsFollowRelations == GraphSpec => []MirrorsExact
<1>1. ASSUME Whole(db) PROVE MirrorsExact
  <2>1. Sound(db) /\ db.relation = {db.mirror[m].triple : m \in Live(db)}
    BY <1>1 DEF Whole, Mirrored
  <2>2. \A m, n \in DOMAIN db.mirror : db.mirror[m].triple = db.mirror[n].triple => m = n
    BY <2>1 DEF Sound, MirrorsOK
  <2>3. \A o \in DOMAIN db.observation : db.observation[o].entity \in DOMAIN db.entity
    BY <2>1 DEF Sound, ObservationsOK, IsTable
  <2>4. \A o \in DOMAIN db.relobs : db.relobs[o].mirror \in Live(db)
    BY <2>1 DEF Sound, RelationObservationsOK, IsTable
  <2>5. \A k \in DOMAIN db.attribute : k[2] \in (IF k[1] = "entity" THEN DOMAIN db.entity ELSE Live(db))
    BY <2>1 DEF Sound, AttributesOK, IsTable
  <2> QED BY <2>1, <2>2, <2>3, <2>4, <2>5 DEF MirrorsExact, Live
<1> QED BY <1>1, GraphStaysWhole, PTL DEF GraphInv

===============================================================================
