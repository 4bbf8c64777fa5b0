----------------------------- MODULE Workspaces -----------------------------
(***************************************************************************)
(* The workspace registry: which graph files there are, who owns them, who *)
(* was given access, and which one each identity uses by default; with the *)
(* machine accounts, and with the removal of a human, which holds the      *)
(* registry's write lock while two other stores change.                    *)
(*                                                                         *)
(* The registry and the runtime principals live in two SQLite files: a     *)
(* crash can keep one commit and lose the other (`torn').  Names, paging   *)
(* and credentials are left out; a machine's token stands for its account. *)
(***************************************************************************)
EXTENDS Principals

CONSTANTS
    Machines, \* accounts create_machine can make
    Local,    \* machine:local, which is always registered
    MaxWs     \* bound: workspaces ever created

ASSUME WorkspacesAssumption ==
    /\ MaxWs \in Nat \ {0}
    /\ Local \notin Humans \cup Machines /\ Humans \cap Machines = {}

VARIABLES
    workspaces, \* the rows: a function from ids to owner and visibility
    grants,     \* workspace_grant: a function from <<workspace, id>> to the role
    defaults,   \* workspace_default: a function from ids to workspaces
    machines,   \* machine_account: a function from ids to "active" / "revoked"
    files,      \* graph files on disk
    creating,   \* the create between its file and its row, if one is there
    torn        \* history: humans whose removal lost the registry commit

wvars == <<workspaces, grants, defaults, machines, files, creating, torn>>
registryVars == <<now, pvars, wvars>>

Ids == Humans \cup Machines \cup {Local}
Legacy == 1
NoCreate == [owner |-> "none"]

WorkspacesTypeOK ==
    /\ PrincipalsTypeOK
    /\ DOMAIN workspaces \subseteq 1..MaxWs
    /\ \A w \in DOMAIN workspaces : workspaces[w] \in [owner : Ids, public : BOOLEAN]
    /\ DOMAIN grants \subseteq (DOMAIN workspaces) \X Ids
    /\ \A g \in DOMAIN grants : grants[g] \in {"reader", "writer"}
    /\ DOMAIN defaults \subseteq Ids
    /\ \A p \in DOMAIN defaults : defaults[p] \in DOMAIN workspaces
    /\ DOMAIN machines \subseteq Machines
    /\ \A m \in DOMAIN machines : machines[m] \in {"active", "revoked"}
    /\ files \subseteq 1..MaxWs
    /\ \/ creating = NoCreate
       \/ creating \in [owner : Ids, public : BOOLEAN, id : 1..MaxWs]
    /\ torn \subseteq Humans

(* First migration: the legacy graph becomes a workspace of its owner. *)
WorkspacesInit ==
    /\ PrincipalsInit
    /\ workspaces = [w \in {Legacy} |-> [owner |-> Local, public |-> FALSE]]
    /\ grants = [g \in {} |-> "reader"]
    /\ defaults = [p \in {Local} |-> Legacy]
    /\ machines = [m \in {} |-> "active"]
    /\ files = {Legacy}
    /\ creating = NoCreate
    /\ torn = {}

------------------------------------------------------------------------------
(* Reading the registry. *)

machine_active_in(p) ==
    p \in Machines => p \in DOMAIN machines /\ machines[p] = "active"
registered(p) == IF p \in Humans THEN human_registered(p) ELSE machine_active_in(p)
registered_for_write_in(p) == registered(p)

role(w, p) ==
    IF workspaces[w].owner = p THEN "owner"
    ELSE IF <<w, p>> \in DOMAIN grants THEN grants[<<w, p>>]
    ELSE IF workspaces[w].public THEN "public" ELSE "none"

(* Whether p may use workspace w with this access. *)
resolve(p, w, access) ==
    /\ registered(p)
    /\ w \in DOMAIN workspaces
    /\ CASE access = "owner" -> role(w, p) = "owner"
         [] access = "write" -> role(w, p) \in {"owner", "writer"}
         [] access = "read"  -> role(w, p) # "none"

(* What a request without a workspace id gets. *)
selected(p) == IF p \in DOMAIN defaults THEN {defaults[p]} ELSE {}
owns(p) == \E w \in DOMAIN workspaces : workspaces[w].owner = p
list(p) == {w \in DOMAIN workspaces : role(w, p) # "none"}

(* The write lock: a removal holds it from the owner check to the commit. *)
Unlocked == removing = NoRemoval

------------------------------------------------------------------------------
(* Changing it. *)

(* The graph file is made first, under no lock ... *)
CreateFile(p, pub) ==
    /\ creating = NoCreate
    /\ registered(p)
    /\ \E id \in 1..MaxWs \ files :
          /\ \A k \in 1..MaxWs \ files : id <= k
          /\ creating' = [owner |-> p, public |-> pub, id |-> id]
          /\ files' = files \cup {id}
    /\ UNCHANGED <<now, pvars, workspaces, grants, defaults, machines, torn>>

(* ... and the row after it, when the owner is still registered.  The first
   workspace of an identity becomes its default. *)
CreateRow ==
    LET w == creating.id
        p == creating.owner
    IN  /\ creating # NoCreate
        /\ Unlocked
        /\ creating' = NoCreate
        /\ \/ /\ registered_for_write_in(p)
              /\ workspaces' = [k \in DOMAIN workspaces \cup {w} |->
                    IF k = w THEN [owner |-> p, public |-> creating.public] ELSE workspaces[k]]
              /\ defaults' = IF p \in DOMAIN defaults THEN defaults
                             ELSE [k \in DOMAIN defaults \cup {p} |->
                                      IF k = p THEN w ELSE defaults[k]]
           \/ /\ ~registered_for_write_in(p)
              /\ UNCHANGED <<workspaces, defaults>>
        /\ UNCHANGED <<now, pvars, grants, machines, files, torn>>

set_default(p, w) ==
    /\ Unlocked
    /\ registered_for_write_in(p)
    /\ w \in DOMAIN workspaces
    /\ role(w, p) # "none"
    /\ defaults' = [k \in DOMAIN defaults \cup {p} |-> IF k = p THEN w ELSE defaults[k]]
    /\ UNCHANGED <<now, pvars, workspaces, grants, machines, files, creating, torn>>

grant(owner, w, p, r) ==
    /\ Unlocked
    /\ resolve(owner, w, "owner")
    /\ owner # p
    /\ registered_for_write_in(p)
    /\ grants' = [k \in DOMAIN grants \cup {<<w, p>>} |->
                     IF k = <<w, p>> THEN r ELSE grants[k]]
    /\ UNCHANGED <<now, pvars, workspaces, defaults, machines, files, creating, torn>>

revoke(owner, w, p) ==
    /\ Unlocked
    /\ resolve(owner, w, "owner")
    /\ <<w, p>> \in DOMAIN grants
    /\ grants' = [k \in DOMAIN grants \ {<<w, p>>} |-> grants[k]]
    /\ defaults' = [k \in {k \in DOMAIN defaults : ~(k = p /\ defaults[k] = w)} |-> defaults[k]]
    /\ UNCHANGED <<now, pvars, workspaces, machines, files, creating, torn>>

\* Mutant of set_visibility: the defaults of former readers stay.
VisibilityOnly(owner, w, pub) ==
    /\ Unlocked
    /\ resolve(owner, w, "owner")
    /\ workspaces' = [workspaces EXCEPT ![w].public = pub]
    /\ UNCHANGED <<now, pvars, grants, defaults, machines, files, creating, torn>>

(* Going private drops the defaults of everybody who only read it because it
   was public. *)
set_visibility(owner, w, pub) ==
    LET keeps(p) == \/ defaults[p] # w
                    \/ pub
                    \/ p = owner
                    \/ <<w, p>> \in DOMAIN grants
    IN  /\ Unlocked
        /\ resolve(owner, w, "owner")
        /\ workspaces' = [workspaces EXCEPT ![w].public = pub]
        /\ defaults' = [p \in {p \in DOMAIN defaults : keeps(p)} |-> defaults[p]]
        /\ UNCHANGED <<now, pvars, grants, machines, files, creating, torn>>

Forget(p) ==
    /\ grants' = [k \in {k \in DOMAIN grants : k[2] # p} |-> grants[k]]
    /\ defaults' = [k \in DOMAIN defaults \ {p} |-> defaults[k]]

create_machine(m) ==
    /\ Unlocked
    /\ m \in Machines \ DOMAIN machines
    /\ machines' = [k \in DOMAIN machines \cup {m} |->
                       IF k = m THEN "active" ELSE machines[k]]
    /\ UNCHANGED <<now, pvars, workspaces, grants, defaults, files, creating, torn>>

revoke_machine(m) ==
    /\ Unlocked
    /\ m \in DOMAIN machines /\ machines[m] = "active"
    /\ ~owns(m)
    /\ machines' = [machines EXCEPT ![m] = "revoked"]
    /\ Forget(m)
    /\ UNCHANGED <<now, pvars, workspaces, files, creating, torn>>

\* Mutant of with_human_access_cleanup: nobody asks what the human owns.
CleanupOfOwners(h) ==
    /\ RemoveStart(h)
    /\ UNCHANGED <<now, wvars>>

(* The removal of a human: lock and owner check, the two other stores, then
   the registry's own commit.  The grants of the removed human go with that
   commit. *)
with_human_access_cleanup(h) ==
    /\ ~owns(h)
    /\ RemoveStart(h)
    /\ UNCHANGED <<now, wvars>>

CleanupCommits ==
    /\ RemoveEnd
    /\ Forget(removing.human)
    /\ UNCHANGED <<now, workspaces, machines, files, creating, torn>>

CleanupRollsBack ==
    /\ RemoveFails
    /\ UNCHANGED <<now, wvars>>

(* The registry commit fails, or the process dies before it, when the runtime
   row is already gone. *)
CommitLost ==
    /\ RemoveEnd
    /\ torn' = torn \cup {removing.human}
    /\ UNCHANGED <<now, workspaces, grants, defaults, machines, files, creating>>

(* What a start checks of the saved registry. *)
open_with_principals ==
    /\ Legacy \in DOMAIN workspaces
    /\ \A w \in DOMAIN workspaces : registered(workspaces[w].owner) /\ w \in files

Crash ==
    /\ open_with_principals
    /\ creating' = NoCreate
    /\ HandlersLost
    /\ torn' = IF removing.at = "deleted" THEN torn \cup {removing.human} ELSE torn
    /\ UNCHANGED <<now, workspaces, grants, defaults, machines, files>>

(* The routes, each with what a request may ask for; the tools of the same
   names reach the same operations.  The caller is whoever the gate let in. *)
admin_create_workspace == \E p \in Ids, pub \in BOOLEAN : CreateFile(p, pub)
admin_update_workspace ==
    \E p \in Ids, w \in DOMAIN workspaces, pub \in BOOLEAN : set_visibility(p, w, pub)
admin_create_grant ==
    \E p, to \in Ids, w \in DOMAIN workspaces, r \in {"reader", "writer"} : grant(p, w, to, r)
admin_revoke_grant == \E p, from \in Ids, w \in DOMAIN workspaces : revoke(p, w, from)

WorkspacesNext ==
    \/ admin_create_workspace \/ CreateRow
    \/ admin_update_workspace
    \/ admin_create_grant \/ admin_revoke_grant
    \/ \E p \in Ids, w \in DOMAIN workspaces : set_default(p, w)
    \/ \E m \in Machines : create_machine(m) \/ revoke_machine(m)
    \/ \E h \in Humans : with_human_access_cleanup(h)
    \/ (RemoveGrants \/ AdminStep) /\ UNCHANGED <<now, wvars>>
    \/ CleanupCommits \/ CleanupRollsBack \/ CommitLost
    \/ Crash

WorkspacesSpec == WorkspacesInit /\ [][WorkspacesNext]_registryVars

------------------------------------------------------------------------------
(* Properties. *)

(* The server can always start again: whatever was created, revoked, removed
   or cut short, every workspace has its graph file and an owner that is
   still registered, which is what open_with_principals insists on. *)
CanStart == open_with_principals

(* Access goes with the identity and the identity with access: an identity
   that is not registered keeps no grant and no default (unless its removal
   lost the registry commit), and every default names a workspace that its
   identity may read. *)
AccessMatchesIdentity ==
    /\ \A g \in DOMAIN grants : registered(g[2]) \/ g[2] \in torn \/ g[2] = removing.human
    /\ \A p \in DOMAIN defaults :
          /\ registered(p) \/ p \in torn \/ p = removing.human
          /\ role(defaults[p], p) # "none"

------------------------------------------------------------------------------
(* The inductive invariant behind both. *)

(* Where a removal stands: its human owns nothing from the owner check to the
   end, and is registered until its row goes. *)
RemovalInv ==
    \/ removing = NoRemoval
    \/ /\ removing \in [human : Humans, at : {"locked", "revoked", "deleted"}]
       /\ ~owns(removing.human)
       /\ removing.at # "deleted" => get(removing.human)

(* Rows of the registry point at what is there: a create holds a file that no
   row has yet, grants and defaults name workspaces. *)
RowsInv ==
    /\ \A w \in DOMAIN workspaces : workspaces[w] \in [owner : Ids, public : BOOLEAN]
    /\ \A g \in DOMAIN grants :
          /\ g \in (DOMAIN workspaces) \X Ids
          /\ grants[g] \in {"reader", "writer"}
    /\ \A p \in DOMAIN defaults : p \in Ids /\ defaults[p] \in DOMAIN workspaces
    /\ creating # NoCreate =>
          /\ creating \in [owner : Ids, public : BOOLEAN, id : 1..MaxWs]
          /\ creating.id \in files \ DOMAIN workspaces

(* An identity with access is registered, or its removal has deleted the row
   and not reached, or lost, the registry's commit. *)
Accounted(p) ==
    registered(p) \/ p \in torn \/ (removing.at = "deleted" /\ p = removing.human)

RegistryInv ==
    /\ RemovalInv
    /\ RowsInv
    /\ CanStart
    /\ \A g \in DOMAIN grants : Accounted(g[2])
    /\ \A p \in DOMAIN defaults : Accounted(p) /\ role(defaults[p], p) # "none"

==============================================================================
