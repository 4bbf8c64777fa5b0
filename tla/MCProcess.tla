----------------------------- MODULE MCProcess -----------------------------
(***************************************************************************)
(* The processes of a deployment, in four small worlds explored by one     *)
(* run: the open graphs of a server, its roles, the code map of a project, *)
(* and the offline repair.                                                 *)
(* `part' names the world a behaviour is about; the variables of the       *)
(* others rest.                                                            *)
(***************************************************************************)
EXTENDS Handles, Roles, RelationRepair, CodeIndex

CONSTANTS g2, q2, s1, s2, s3, j1, j2, Parts

VARIABLE part

\* One role beside the transport, an extractor alone, and what does not parse.
CsvsDef ==
    {<<"mcp", r>> : r \in Loops} \cup {<<"extractor">>, <<"mcp", "mcp">>, <<"other">>}

\* Up to three rows of one relation and of one with a missing end, in any
\* order of age; an index of each kind; and a damaged file.
OldFilesDef ==
    LET legacy(f) == {[id |-> i, triple |-> f[i][1], created |-> f[i][2]] : i \in {j \in 1..3 : f[j] # <<>>}}
        cells == {<<>>} \cup {<<t, c>> : t \in {<<1, 2, "k">>}, c \in 1..2}
        counts == [stat |-> 1, types |-> [t \in {"k"} |-> 2], out |-> [e \in 1..2 |-> 1], in |-> [e \in 1..2 |-> 0]]
    IN {[rows |-> legacy(f), index |-> x, sound |-> TRUE] @@ counts : f \in [1..3 -> cells], x \in {"none", "triple", "partial"}}
       \cup {[rows |-> {[id |-> 1, triple |-> <<1, 9, "k">>, created |-> 1]}, index |-> "none", sound |-> b] @@ counts : b \in BOOLEAN}

Init ==
    /\ part \in Parts
    /\ HandlesInit /\ RolesInit /\ RepairInit /\ CodeInit
    /\ part # "repair" => original = CHOOSE f \in OldFiles : TRUE
    /\ part # "roles" => roles = {}
    /\ part # "code" => managed

\* Two requests write to g2 while it goes in and out of the cache; or its index
\* moves while one request and the indexer open it.
WithinHandles ==
    /\ \A g \in Graphs \ {g2} : files'[g].seq = 0 /\ files'[g].index = "none"
    /\ \A h \in DOMAIN handles' : handles'[h].graph # g2 => handles'[h].seq = 0
    /\ \/ files'[g2].index = "none" /\ held'[Indexer] = NoHandle
       \/ /\ \A h \in DOMAIN handles' : handles'[h].seq = 0
          /\ files'[g2].seq = 0
          /\ held'[q2] = NoHandle /\ refused'[q2] = {}

\* Workspaces register in one order; jobs fall due only where an extractor runs,
\* which has two workspaces to serve.
WithinRoles ==
    /\ rows' \in {<<s1>>, <<s1, s2>>, <<s1, s2, s3>>}
    /\ IF "extractor" \in roles' THEN Len(rows') <= 2 /\ Cardinality(uploads') <= 1
                                 ELSE due' \subseteq due

\* A managed repository under two jobs and a watcher; a local directory under one
\* tool call at a time and two watchers.  What the properties leave open once
\* passes overlapped or jobs met without the slot is not followed further.
WithinCode ==
    LET calls == {j \in Jobs : job[j] = NoJob /\ job'[j] # NoJob}
    IN /\ torn \/ loose => calls = {} /\ changes' = changes
       /\ j2 \in calls => managed /\ job[j1] # NoJob
       /\ managed => /\ changes' = 0 /\ Len(watchers') <= 1
                     /\ \A j \in calls : job'[j].kind # "index" /\ (job'[j].kind = "watch" => j = j2 /\ ~pass'[j].force)
       /\ ~managed /\ Len(watchers') = 2 => changes' <= 1

HandlesPart == part = "handles" /\ HandlesNext /\ WithinHandles /\ UNCHANGED <<roleVars, repairVars, codeVars>>
RolesPart == part = "roles" /\ RolesNext /\ WithinRoles /\ UNCHANGED <<handleVars, repairVars, codeVars>>
RepairPart == part = "repair" /\ RepairNext /\ UNCHANGED <<handleVars, roleVars, codeVars>>
CodePart == part = "code" /\ CodeNext /\ WithinCode /\ UNCHANGED <<handleVars, roleVars, repairVars>>

Next == (HandlesPart \/ RolesPart \/ RepairPart \/ CodePart) /\ UNCHANGED part

\* The refresh loop of the transport, and the loops of the roles.
Spec ==
    /\ Init /\ [][Next]_<<handleVars, roleVars, repairVars, codeVars, part>>
    /\ WF_handleVars(part = "handles" /\ \E ready \in BOOLEAN : refresh(g2, ready) /\ WithinHandles)
    /\ RolesFairness

=============================================================================
