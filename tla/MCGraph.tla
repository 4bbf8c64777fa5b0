------------------------------ MODULE MCGraph ------------------------------
(***************************************************************************)
(* Small graphs.  One run explores five: one rich in entities and texts    *)
(* with few relations, one rich in relations and what hangs on them, one   *)
(* in which the web UI edits while the tools write, one whose types are    *)
(* described, and one that is read by walks of several statements while    *)
(* others commit.                                                          *)
(***************************************************************************)
EXTENDS Graph, GraphReads, GraphWalks

CONSTANTS x1, y1, t1, u1, b1, Parts
VARIABLE part

EntityInputsDef ==
    {[name |-> n, type |-> t1, observations |-> <<>>, attributes |-> Empty] : n \in Names}
    \cup {[name |-> x1, type |-> u1, observations |-> <<b1, b1>>, attributes |-> Empty]}
    \cup {[name |-> x1, type |-> u1, observations |-> <<>>, attributes |-> k :> v] : k \in AttrKeys, v \in AttrValues}

RelationInputsDef ==
    {[triple |-> r, observations |-> <<>>, attributes |-> Empty] : r \in Triples}
    \cup {[triple |-> <<x1, y1, Defines>>, observations |-> <<b1>>, attributes |-> k :> v] : k \in AttrKeys, v \in AttrValues}

(* Every graph of one type on three entities; a cycle with a shortcut, a
   double and a self relation on four. *)
NetsDef ==
    {[live |-> 1..3, rels |-> S] : S \in SUBSET {<<i, j, "t">> : <<i, j>> \in {p \in (1..3) \X (1..3) : p[1] # p[2]}}}
    \cup {[live |-> 1..4, rels |-> {<<1, 2, "t">>, <<2, 3, "t">>, <<3, 4, "t">>, <<1, 4, "u">>, <<1, 2, "u">>}],
          [live |-> 1..4, rels |-> {<<1, 2, "t">>, <<3, 2, "t">>, <<3, 4, "u">>, <<2, 2, "t">>, <<2, 1, "t">>}]}

QuestionsDef ==
    [op : {"find_path"}, from : {1}, to : {1, 3, 4}]
    \cup [op : {"find_all_paths"}, from : {1}, to : {1, 3, 4}, depth : {1, 4}, most : {1, 9}]
    \cup [op : {"neighbors"}, seeds : {{1}}, sides : {<<"out">>, <<"in">>, <<"out", "in">>}, type : {AnyType, "t"}, depth : 2..3]
    \cup [op : {"extract_subgraph"}, seeds : {{}, {1}, {1, 4}}, sides : {<<"out", "in">>}, type : {AnyType}, depth : {0, 2, 3}]
    \cup [op : {"open_nodes"}, seeds : {{1}, {2, 4}}]
    \cup [op : {"read_graph"}, seeds : {1..4, {1, 3}}, offset : 0..1, limit : {1, 2}]

Init ==
    /\ part \in Parts
    /\ GraphInit
    /\ IF part = "walks" THEN WalksInit ELSE net = {} /\ walk = NoRead /\ during = {}

(* What each small graph leaves out. *)
Within ==
    /\ db'.described \subseteq {<<0, t1>>, <<1, Defines>>}
    /\ \A r \in db'.relation : r[1] = r[2] => r = <<1, 1, Defines>>
    /\ part # "types" => db'.described = {} /\ \A k \in DOMAIN db'.type_dict \ DOMAIN db.type_dict : db'.type_dict[k] > 0
    /\ CASE part = "texts" ->
           /\ db'.seq.rel_obs = 0 /\ Cardinality(DOMAIN db'.mirror) <= 1 /\ editing' = Idle
           /\ db'.seq.entity = 3 => db'.seq.obs <= 1
           /\ \A r \in db'.relation : r[3] = Defines
           /\ \A k \in DOMAIN db'.attribute : k[1] = "entity" /\ db'.seq.obs = 0
      [] part = "links" ->
           /\ db'.seq.obs = 0 /\ db'.seq.entity <= 2 /\ editing' = Idle
           /\ \A k \in DOMAIN db'.attribute : k[1] = "relation"
           /\ db'.seq.rel_obs = 2 => db'.attribute = Empty /\ Cardinality(DOMAIN db'.mirror) = 1
      [] part = "edits" ->
           /\ db'.seq.obs = 0 /\ db'.seq.rel_obs = 0 /\ DOMAIN db'.attribute = {}
           /\ Cardinality(DOMAIN db'.mirror) <= 1
      [] part = "types" ->
           /\ db'.seq.obs = 0 /\ db'.seq.rel_obs = 0 /\ db'.seq.entity <= 2 /\ DOMAIN db'.attribute = {}
           /\ Cardinality(DOMAIN db'.mirror) <= 1 /\ editing' = Idle

(* Others commit while the two larger graphs are read. *)
WithinWalks == during'.commits > during.commits => 4 \in net.live

Next ==
    /\ UNCHANGED part
    /\ \/ part # "walks" /\ GraphNext /\ Within /\ UNCHANGED walkVars
       \/ part = "walks" /\ WalksNext /\ WithinWalks /\ UNCHANGED graphVars

(* In every state of the graph the reads answer what its rows say. *)
ReadsExact == AnswersExact(db)

Spec == Init /\ [][Next]_<<graphVars, walkVars, part>>

==============================================================================
