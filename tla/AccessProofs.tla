----------------------------- MODULE AccessProofs -----------------------------
(* Who gets in: the registry of workspaces can always be opened again and   *)
(* access goes with identity, for any humans, machine accounts and          *)
(* workspaces; and the two edges of the OAuth server, key rotation at the   *)
(* provider behind it, invisible for any number of keys and of logins at    *)
(* once, and the limiter in front of it, which refuses nobody without       *)
(* cause, for any limit, window and number of peers.                        *)
EXTENDS Upstream, RateLimiter, Workspaces, TLAPS

-----------------------------------------------------------------------------
(* The registry *)

\* Registration depends on the runtime rows and the machine accounts only.
LEMMA SameRegistration ==
    ASSUME UNCHANGED <<runtime, machines>>
    PROVE  \A p : registered(p)' <=> registered(p)
    BY DEF registered, human_registered, is_builtin, get, machine_active_in

\* While the lock is free, everybody with access is registered or torn.
LEMMA UnlockedAccess ==
    ASSUME removing = NoRemoval
    PROVE  \A p : Accounted(p) <=> registered(p) \/ p \in torn
    BY DEF Accounted, NoRemoval

\* Nothing the registry holds changes, and nobody registered is lost: what
\* is left to show is about the removal alone.
LEMMA RegistryFrame ==
    ASSUME RegistryInv, UNCHANGED <<workspaces, grants, defaults, files>>,
           UNCHANGED creating \/ creating' = NoCreate,
           RemovalInv',
           \A w \in DOMAIN workspaces : registered(workspaces[w].owner)',
           \A p \in Ids : Accounted(p) => Accounted(p)'
    PROVE  RegistryInv'
<1>1. RowsInv'
    BY DEF RegistryInv, RowsInv
<1>2. CanStart'
    BY DEF RegistryInv, CanStart, open_with_principals
<1>3. \A g \in DOMAIN grants' : Accounted(g[2])'
  <2> SUFFICES ASSUME NEW g \in DOMAIN grants PROVE Accounted(g[2])'
    OBVIOUS
  <2>1. g[2] \in Ids /\ Accounted(g[2])
    BY DEF RegistryInv, RowsInv
  <2> QED BY <2>1
<1>4. \A p \in DOMAIN defaults' : Accounted(p)' /\ (role(defaults[p], p) # "none")'
  <2> SUFFICES ASSUME NEW p \in DOMAIN defaults
               PROVE  Accounted(p)' /\ role(defaults[p], p)' # "none"
    OBVIOUS
  <2>1. p \in Ids /\ Accounted(p) /\ role(defaults[p], p) # "none"
    BY DEF RegistryInv, RowsInv
  <2>2. role(defaults[p], p)' = role(defaults[p], p)
    BY DEF role
  <2> QED BY <2>1, <2>2
<1> QED BY <1>1, <1>2, <1>3, <1>4 DEF RegistryInv

\* A step of the registry itself, taken while nobody is being removed: who is
\* registered stays as it is.
LEMMA RegistryWrites ==
    ASSUME RegistryInv, removing = NoRemoval, UNCHANGED <<runtime, machines, removing, torn>>,
           RowsInv', CanStart',
           \A g \in DOMAIN grants' : g \in DOMAIN grants \/ registered(g[2]),
           \A p \in DOMAIN defaults' :
              /\ p \in DOMAIN defaults \/ registered(p)
              /\ role(defaults[p], p)' # "none"
    PROVE  RegistryInv'
<1>1. RemovalInv'
    BY DEF RemovalInv
<1>2. \A p : Accounted(p)' <=> Accounted(p)
    BY SameRegistration DEF Accounted
<1>3. \A p : registered(p) => Accounted(p)
    BY DEF Accounted
<1>4. (\A g \in DOMAIN grants : Accounted(g[2])) /\ (\A p \in DOMAIN defaults : Accounted(p))
    BY DEF RegistryInv
<1>5. \A g \in DOMAIN grants' : Accounted(g[2])'
    BY <1>2, <1>3, <1>4
<1>6. \A p \in DOMAIN defaults' : Accounted(p)'
    BY <1>2, <1>3, <1>4
<1> QED BY <1>1, <1>5, <1>6 DEF RegistryInv

\* The migrated registry.
LEMMA RegistryInitInv == WorkspacesInit => RegistryInv
<1> SUFFICES ASSUME WorkspacesInit PROVE RegistryInv
    OBVIOUS
<1>1. registered(Local)
    BY WorkspacesAssumption DEF registered, machine_active_in
<1> QED BY <1>1 DEF WorkspacesInit, PrincipalsInit, RegistryInv, RemovalInv, RowsInv, CanStart,
        open_with_principals, Accounted, role, Ids, Legacy

\* A create makes its file, and holds an id no row has.
LEMMA CreateFileInv ==
    ASSUME RegistryInv, NEW p \in Ids, NEW pub \in BOOLEAN, CreateFile(p, pub)
    PROVE  RegistryInv'
<1>1. PICK id \in 1..MaxWs \ files :
         creating' = [owner |-> p, public |-> pub, id |-> id] /\ files' = files \cup {id}
    BY DEF CreateFile
<1>2. UNCHANGED <<workspaces, grants, defaults, machines, torn, pvars>>
    BY DEF CreateFile
<1>3. creating' \in [owner : Ids, public : BOOLEAN, id : 1..MaxWs] /\ creating'.id = id
    BY <1>1
<1>4. id \notin DOMAIN workspaces
    BY DEF RegistryInv, CanStart, open_with_principals
<1>5. RowsInv'
    BY <1>1, <1>2, <1>3, <1>4 DEF RegistryInv, RowsInv
<1>6. CanStart'
    BY <1>1, <1>2, SameRegistration DEF RegistryInv, CanStart, open_with_principals, pvars
<1>7. RemovalInv'
    BY <1>2 DEF RegistryInv, RemovalInv, owns, get, pvars
<1>8. \A q : Accounted(q)' <=> Accounted(q)
    BY <1>2, SameRegistration DEF Accounted, pvars
<1>9. \A w, q : role(w, q)' = role(w, q)
    BY <1>2 DEF role
<1> QED BY <1>2, <1>5, <1>6, <1>7, <1>8, <1>9 DEF RegistryInv

\* The row: a new workspace of an owner who is registered, and his default if
\* it is his first.
LEMMA CreateRowInv == ASSUME RegistryInv, CreateRow PROVE RegistryInv'
<1> DEFINE w == creating.id
           p == creating.owner
<1>1. /\ creating \in [owner : Ids, public : BOOLEAN, id : 1..MaxWs]
      /\ w \in files \ DOMAIN workspaces /\ p \in Ids /\ creating.public \in BOOLEAN
    BY DEF CreateRow, RegistryInv, RowsInv
<1>2. /\ removing = NoRemoval /\ creating' = NoCreate
      /\ UNCHANGED <<runtime, machines, removing, torn, grants, files>>
    BY DEF CreateRow, Unlocked, pvars
<1>3. CASE ~registered(p)
  <2>1. UNCHANGED <<workspaces, defaults>>
    BY <1>3 DEF CreateRow, registered_for_write_in
  <2>2. RowsInv' /\ CanStart'
    BY <1>2, <2>1, SameRegistration DEF RegistryInv, RowsInv, CanStart, open_with_principals
  <2>3. \A v, q : role(v, q)' = role(v, q)
    BY <1>2, <2>1 DEF role
  <2>4. \A q \in DOMAIN defaults' : q \in DOMAIN defaults /\ role(defaults[q], q)' # "none"
    BY <2>1, <2>3 DEF RegistryInv
  <2> QED BY <1>2, <2>1, <2>2, <2>4, RegistryWrites
<1>4. CASE registered(p)
  <2> DEFINE row == [owner |-> p, public |-> creating.public]
  <2>0. row \in [owner : Ids, public : BOOLEAN] /\ row.owner = p
    BY <1>1
  <2>1. workspaces' = [k \in DOMAIN workspaces \cup {w} |-> IF k = w THEN row ELSE workspaces[k]]
    BY <1>4 DEF CreateRow, registered_for_write_in
  <2>2. defaults' = IF p \in DOMAIN defaults THEN defaults
                    ELSE [k \in DOMAIN defaults \cup {p} |-> IF k = p THEN w ELSE defaults[k]]
    BY <1>4 DEF CreateRow, registered_for_write_in
  <2> HIDE DEF row, w, p
  <2>3. /\ DOMAIN workspaces' = DOMAIN workspaces \cup {w} /\ workspaces'[w] = row
        /\ \A v \in DOMAIN workspaces : workspaces'[v] = workspaces[v]
    BY <1>1, <2>1
  <2>4. /\ DOMAIN defaults \subseteq DOMAIN defaults'
        /\ \A q \in DOMAIN defaults' :
            (q \in DOMAIN defaults /\ defaults'[q] = defaults[q]) \/ (q = p /\ defaults'[q] = w)
    BY <2>2
  <2>5. RowsInv'
    BY <1>1, <1>2, <2>0, <2>3, <2>4 DEF RegistryInv, RowsInv
  <2>6. CanStart'
    BY <1>1, <1>2, <1>4, <2>0, <2>3, SameRegistration DEF RegistryInv, CanStart, open_with_principals
  <2>7. ASSUME NEW q \in DOMAIN defaults' PROVE q \in DOMAIN defaults \/ registered(q)
    BY <1>4, <2>4
  <2>8. ASSUME NEW q \in DOMAIN defaults' PROVE role(defaults[q], q)' # "none"
    <3>1. CASE q \in DOMAIN defaults /\ defaults'[q] = defaults[q]
      <4>1. role(defaults[q], q) # "none" /\ defaults[q] \in DOMAIN workspaces
        BY <3>1 DEF RegistryInv, RowsInv
      <4>2. role(defaults[q], q)' = role(defaults[q], q)
        BY <1>2, <2>3, <3>1, <4>1 DEF role
      <4> QED BY <4>1, <4>2
    <3>2. CASE q = p /\ defaults'[q] = w
        BY <2>0, <2>3, <3>2 DEF role
    <3> QED BY <2>4, <3>1, <3>2
  <2> QED BY <1>2, <2>5, <2>6, <2>7, <2>8, RegistryWrites
<1> QED BY <1>3, <1>4

\* A default is chosen among the workspaces one may read.
LEMMA SetDefaultInv ==
    ASSUME RegistryInv, NEW p \in Ids, NEW w, set_default(p, w)
    PROVE  RegistryInv'
<1>1. /\ removing = NoRemoval /\ registered(p)
      /\ w \in DOMAIN workspaces /\ role(w, p) # "none"
      /\ UNCHANGED <<runtime, removing, workspaces, grants, machines, files, creating, torn>>
    BY DEF set_default, Unlocked, registered_for_write_in, pvars
<1>2. \A q \in DOMAIN defaults' :
            (q \in DOMAIN defaults /\ defaults'[q] = defaults[q]) \/ (q = p /\ defaults'[q] = w)
    BY DEF set_default
<1>3. RowsInv' /\ CanStart'
    BY <1>1, <1>2, SameRegistration DEF RegistryInv, RowsInv, CanStart, open_with_principals
<1>6. ASSUME NEW q \in DOMAIN defaults' PROVE role(defaults[q], q)' # "none"
  <2>1. role(defaults[q], q)' = role(defaults'[q], q)
    BY <1>1 DEF role
  <2> QED BY <1>1, <1>2, <2>1 DEF RegistryInv
<1>7. \A q \in DOMAIN defaults' : q \in DOMAIN defaults \/ registered(q)
    BY <1>1, <1>2
<1> QED BY <1>1, <1>3, <1>6, <1>7, RegistryWrites

\* A grant goes to an identity that is registered, and never to the owner.
LEMMA GrantInv ==
    ASSUME RegistryInv, NEW owner, NEW w, NEW p \in Ids, NEW r \in {"reader", "writer"},
           grant(owner, w, p, r)
    PROVE  RegistryInv'
<1>1. /\ removing = NoRemoval /\ registered(p) /\ w \in DOMAIN workspaces
      /\ UNCHANGED <<runtime, removing, workspaces, defaults, machines, files, creating, torn>>
    BY DEF grant, Unlocked, registered_for_write_in, resolve, pvars
<1>2. /\ DOMAIN grants' = DOMAIN grants \cup {<<w, p>>} /\ grants'[<<w, p>>] = r
      /\ \A g \in DOMAIN grants : g # <<w, p>> => grants'[g] = grants[g]
    BY DEF grant
<1>3. RowsInv' /\ CanStart'
    BY <1>1, <1>2, SameRegistration DEF RegistryInv, RowsInv, CanStart, open_with_principals
<1>4. \A g \in DOMAIN grants' : g \in DOMAIN grants \/ registered(g[2])
    BY <1>1, <1>2
<1>5. ASSUME NEW q \in DOMAIN defaults' PROVE role(defaults[q], q)' # "none"
  <2>1. role(defaults[q], q) # "none"
    BY <1>1 DEF RegistryInv
  <2> QED BY <1>1, <1>2, <2>1 DEF role
<1> QED BY <1>1, <1>3, <1>4, <1>5, RegistryWrites

\* Whoever loses a grant loses the default that rested on it.
LEMMA RevokeInv ==
    ASSUME RegistryInv, NEW owner, NEW w, NEW p, revoke(owner, w, p)
    PROVE  RegistryInv'
<1>1. /\ removing = NoRemoval
      /\ UNCHANGED <<runtime, removing, workspaces, machines, files, creating, torn>>
    BY DEF revoke, Unlocked, pvars
<1>2. /\ DOMAIN grants' = DOMAIN grants \ {<<w, p>>}
      /\ \A g \in DOMAIN grants' : grants'[g] = grants[g]
    BY DEF revoke
<1>3. /\ \A q \in DOMAIN defaults' : q \in DOMAIN defaults /\ ~(q = p /\ defaults[q] = w)
      /\ \A q \in DOMAIN defaults' : defaults'[q] = defaults[q]
    BY DEF revoke
<1>4. RowsInv' /\ CanStart'
    BY <1>1, <1>2, <1>3, SameRegistration DEF RegistryInv, RowsInv, CanStart, open_with_principals
<1>5. ASSUME NEW q \in DOMAIN defaults' PROVE role(defaults[q], q)' # "none"
  <2>1. role(defaults[q], q) # "none" /\ defaults'[q] = defaults[q]
    BY <1>3 DEF RegistryInv
  <2>2. <<defaults[q], q>> # <<w, p>>
    BY <1>3
  <2> QED BY <1>1, <1>2, <2>1, <2>2 DEF role
<1> QED BY <1>1, <1>2, <1>3, <1>4, <1>5, RegistryWrites

\* Going private keeps the defaults of the owner and of those with a grant.
LEMMA SetVisibilityInv ==
    ASSUME RegistryInv, NEW owner, NEW w, NEW pub \in BOOLEAN, set_visibility(owner, w, pub)
    PROVE  RegistryInv'
<1>0. /\ removing = NoRemoval /\ resolve(owner, w, "owner")
      /\ workspaces' = [workspaces EXCEPT ![w].public = pub]
      /\ UNCHANGED <<pvars, grants, machines, files, creating, torn>>
    BY Zenon DEF set_visibility, Unlocked
<1>1. /\ removing = NoRemoval /\ w \in DOMAIN workspaces /\ workspaces[w].owner = owner
      /\ UNCHANGED <<runtime, removing, grants, machines, files, creating, torn>>
  <2>1. w \in DOMAIN workspaces /\ role(w, owner) = "owner"
    BY <1>0 DEF resolve
  <2>2. \A g \in DOMAIN grants : grants[g] # "owner"
    BY DEF RegistryInv, RowsInv
  <2>3. workspaces[w].owner = owner
    BY <2>1, <2>2 DEF role
  <2> QED BY <1>0, <2>1, <2>3 DEF pvars
<1> DEFINE row == [owner |-> workspaces[w].owner, public |-> pub]
<1>2. workspaces[w] \in [owner : Ids, public : BOOLEAN]
    BY <1>1 DEF RegistryInv, RowsInv
<1>3. workspaces' = [workspaces EXCEPT ![w] = row]
  <2>1. [workspaces[w] EXCEPT !.public = pub] = row
    BY <1>2
  <2> QED BY <1>0, <2>1
<1>4. row \in [owner : Ids, public : BOOLEAN] /\ row.owner = workspaces[w].owner
    BY <1>2
<1>4a. row.public = pub
    BY Zenon
<1> HIDE DEF row
<1>5. /\ DOMAIN workspaces' = DOMAIN workspaces /\ workspaces'[w] = row
      /\ \A v \in DOMAIN workspaces : workspaces'[v].owner = workspaces[v].owner
      /\ \A v \in DOMAIN workspaces : v # w => workspaces'[v] = workspaces[v]
    BY <1>1, <1>3, <1>4
<1>6. \A q \in DOMAIN defaults' :
          /\ q \in DOMAIN defaults /\ defaults'[q] = defaults[q]
          /\ defaults[q] # w \/ pub \/ q = owner \/ <<w, q>> \in DOMAIN grants
    BY Zenon DEF set_visibility
<1>7. RowsInv'
    BY <1>1, <1>4, <1>5, <1>6 DEF RegistryInv, RowsInv
<1>8. CanStart'
    BY <1>1, <1>5, SameRegistration DEF RegistryInv, CanStart, open_with_principals
<1>9. ASSUME NEW q \in DOMAIN defaults' PROVE role(defaults[q], q)' # "none"
  <2>1. /\ role(defaults[q], q) # "none" /\ defaults'[q] = defaults[q]
        /\ defaults[q] \in DOMAIN workspaces
        /\ \A g \in DOMAIN grants : grants[g] # "none"
    BY <1>6 DEF RegistryInv, RowsInv
  <2>2. CASE defaults[q] # w
    BY <1>1, <1>5, <2>1, <2>2 DEF role
  <2>3. CASE defaults[q] = w /\ (q = owner \/ <<w, q>> \in DOMAIN grants)
    BY <1>1, <1>5, <2>1, <2>3 DEF role
  <2>4. CASE defaults[q] = w /\ pub
    <3>1. workspaces'[w].public
        BY <1>4a, <1>5, <2>4, Zenon
    <3>2. role(w, q)' = IF workspaces'[w].owner = q THEN "owner"
                        ELSE IF <<w, q>> \in DOMAIN grants THEN grants[<<w, q>>] ELSE "public"
        BY <1>1, <3>1, Zenon DEF role
    <3>3. role(defaults[q], q)' = role(w, q)'
        BY <2>1, <2>4 DEF role
    <3> QED BY <2>1, <3>2, <3>3
  <2> QED BY <1>6, <2>2, <2>3, <2>4
<1> QED BY <1>1, <1>6, <1>7, <1>8, <1>9, RegistryWrites

\* An identity is forgotten: its grants and its default go, all others stay
\* what they were.  It must own nothing and nobody else may be waiting for it.
LEMMA ForgetInv ==
    ASSUME RegistryInv, NEW gone, Forget(gone), UNCHANGED <<workspaces, files, creating>>,
           RemovalInv',
           \A w \in DOMAIN workspaces : registered(workspaces[w].owner)',
           \A p \in Ids \ {gone} : Accounted(p) => Accounted(p)'
    PROVE  RegistryInv'
<1>1. \A g \in DOMAIN grants' : g \in DOMAIN grants /\ g[2] # gone /\ grants'[g] = grants[g]
    BY DEF Forget
<1>2. \A g \in DOMAIN grants : g[2] # gone => g \in DOMAIN grants'
    BY DEF Forget
<1>3. \A p \in DOMAIN defaults' : p \in DOMAIN defaults /\ p # gone /\ defaults'[p] = defaults[p]
    BY DEF Forget
<1>4. RowsInv'
    BY <1>1, <1>3 DEF RegistryInv, RowsInv
<1>5. CanStart'
    BY DEF RegistryInv, CanStart, open_with_principals
<1>6. ASSUME NEW g \in DOMAIN grants' PROVE Accounted(g[2])'
  <2>1. g[2] \in Ids \ {gone} /\ Accounted(g[2])
    BY <1>1 DEF RegistryInv, RowsInv
  <2> QED BY <2>1
<1>7. ASSUME NEW p \in DOMAIN defaults' PROVE Accounted(p)' /\ role(defaults[p], p)' # "none"
  <2>1. p \in Ids \ {gone} /\ Accounted(p) /\ role(defaults[p], p) # "none"
    BY <1>3 DEF RegistryInv, RowsInv
  <2>2. <<defaults[p], p>>[2] # gone
    BY <1>3
  <2>3. role(defaults[p], p)' = role(defaults[p], p)
    BY <1>1, <1>2, <1>3, <2>2 DEF role
  <2> QED BY <2>1, <2>3
<1> QED BY <1>4, <1>5, <1>6, <1>7 DEF RegistryInv

\* A machine account appears.
LEMMA CreateMachineInv ==
    ASSUME RegistryInv, NEW m, create_machine(m)
    PROVE  RegistryInv'
<1>1. /\ removing = NoRemoval
      /\ UNCHANGED <<runtime, removing, workspaces, grants, defaults, files, creating, torn>>
    BY DEF create_machine, Unlocked, pvars
<1>2. /\ DOMAIN machines' = DOMAIN machines \cup {m} /\ m \notin DOMAIN machines
      /\ \A k \in DOMAIN machines : machines'[k] = machines[k]
    BY DEF create_machine
<1>3. \A p : registered(p) => registered(p)'
    BY <1>1, <1>2 DEF registered, human_registered, is_builtin, get, machine_active_in
<1>4. \A w \in DOMAIN workspaces : registered(workspaces[w].owner)'
    BY <1>1, <1>3 DEF RegistryInv, CanStart, open_with_principals
<1>5. RemovalInv'
    BY <1>1 DEF RemovalInv
<1>6. \A p \in Ids : Accounted(p) => Accounted(p)'
    BY <1>1, <1>3 DEF Accounted
<1> QED BY <1>1, <1>4, <1>5, <1>6, RegistryFrame

\* A machine that owns nothing is revoked, with what it was given.
LEMMA RevokeMachineInv ==
    ASSUME RegistryInv, NEW m, revoke_machine(m)
    PROVE  RegistryInv'
<1>1. /\ removing = NoRemoval /\ ~owns(m) /\ Forget(m)
      /\ UNCHANGED <<runtime, removing, workspaces, files, creating, torn>>
    BY DEF revoke_machine, Unlocked, pvars
<1>2. DOMAIN machines' = DOMAIN machines /\ \A k \in DOMAIN machines \ {m} : machines'[k] = machines[k]
    BY DEF revoke_machine
<1>3. \A p : p # m /\ registered(p) => registered(p)'
    BY <1>1, <1>2 DEF registered, human_registered, is_builtin, get, machine_active_in
<1>4. \A w \in DOMAIN workspaces : registered(workspaces[w].owner)'
    BY <1>1, <1>3 DEF RegistryInv, CanStart, open_with_principals, owns
<1>5. RemovalInv'
    BY <1>1 DEF RemovalInv
<1>6. \A p \in Ids \ {m} : Accounted(p) => Accounted(p)'
    BY <1>1, <1>3 DEF Accounted
<1> QED BY <1>1, <1>4, <1>5, <1>6, ForgetInv

\* The removal takes the lock: its human owns nothing and is registered.
LEMMA RemovalStartsInv ==
    ASSUME RegistryInv, NEW h \in Humans, with_human_access_cleanup(h)
    PROVE  RegistryInv'
<1>1. /\ removing = NoRemoval /\ get(h) /\ ~owns(h)
      /\ removing' = [human |-> h, at |-> "locked"]
      /\ UNCHANGED <<runtime, workspaces, grants, defaults, machines, files, creating, torn>>
    BY DEF with_human_access_cleanup, RemoveStart, wvars
<1>2. RemovalInv'
    BY <1>1 DEF RemovalInv, owns, get
<1>3. \A p : registered(p)' <=> registered(p)
    BY <1>1, SameRegistration
<1>4. \A p \in Ids : Accounted(p) => Accounted(p)'
    BY <1>1, <1>3 DEF Accounted, NoRemoval
<1>5. \A w \in DOMAIN workspaces : registered(workspaces[w].owner)'
    BY <1>1, <1>3 DEF RegistryInv, CanStart, open_with_principals
<1> QED BY <1>1, <1>2, <1>4, <1>5, RegistryFrame

\* The administrator's other steps add runtime rows or change their scopes,
\* and only the removal deletes one: that of its own human, who owns nothing.
LEMMA AdminStepInv ==
    ASSUME RegistryInv, RemoveGrants \/ AdminStep, UNCHANGED wvars
    PROVE  RegistryInv'
<1>1. UNCHANGED <<workspaces, grants, defaults, machines, files, creating, torn>>
    BY DEF wvars
<1>2. \A w \in DOMAIN workspaces : registered(workspaces[w].owner)
    BY DEF RegistryInv, CanStart, open_with_principals
<1>3. CASE DOMAIN runtime \subseteq DOMAIN runtime' /\ UNCHANGED removing
  <2>1. \A p : registered(p) => registered(p)'
    BY <1>1, <1>3 DEF registered, human_registered, is_builtin, get, machine_active_in
  <2>2. RemovalInv'
    BY <1>1, <1>3 DEF RegistryInv, RemovalInv, owns, get
  <2>3. \A p \in Ids : Accounted(p) => Accounted(p)'
    BY <1>1, <1>3, <2>1 DEF Accounted
  <2> QED BY <1>1, <1>2, <2>1, <2>2, <2>3, RegistryFrame
<1>4. CASE RemoveGrants
  <2>1. /\ removing \in [human : Humans, at : {"locked", "revoked", "deleted"}]
        /\ ~owns(removing.human) /\ get(removing.human) /\ removing.at = "locked"
    BY <1>4 DEF RemoveGrants, RegistryInv, RemovalInv, NoRemoval
  <2>2. /\ removing' = [human |-> removing.human, at |-> "revoked"] /\ UNCHANGED runtime
    BY <1>4, <2>1 DEF RemoveGrants
  <2>3. RemovalInv'
    BY <1>1, <2>1, <2>2 DEF RemovalInv, owns, get
  <2>4. \A p : registered(p)' <=> registered(p)
    BY <1>1, <2>2, SameRegistration
  <2>5. \A p \in Ids : Accounted(p) => Accounted(p)'
    BY <1>1, <2>1, <2>2, <2>4 DEF Accounted
  <2> QED BY <1>1, <1>2, <2>3, <2>4, <2>5, RegistryFrame
<1>5. CASE RemoveRow
  <2>1. /\ removing \in [human : Humans, at : {"locked", "revoked", "deleted"}]
        /\ ~owns(removing.human) /\ removing.at = "revoked"
    BY <1>5 DEF RemoveRow, RegistryInv, RemovalInv, NoRemoval
  <2>2. /\ removing' = [human |-> removing.human, at |-> "deleted"]
        /\ DOMAIN runtime' = DOMAIN runtime \ {removing.human}
    BY <1>5, <2>1 DEF RemoveRow, without
  <2>3. RemovalInv'
    BY <1>1, <2>1, <2>2 DEF RemovalInv, owns
  <2>4. \A p : p # removing.human /\ registered(p) => registered(p)'
    BY <1>1, <2>2 DEF registered, human_registered, is_builtin, get, machine_active_in
  <2>5. \A w \in DOMAIN workspaces : registered(workspaces[w].owner)'
    BY <1>1, <1>2, <2>1, <2>4 DEF owns
  <2>6. \A p \in Ids : Accounted(p) => Accounted(p)'
    BY <1>1, <2>1, <2>2, <2>4 DEF Accounted
  <2> QED BY <1>1, <2>3, <2>5, <2>6, RegistryFrame
<1>6. ASSUME NEW h, NEW s, admin_create_principal(h, s) \/ admin_approve_waitlist(h, s)
      PROVE  RegistryInv'
    BY <1>3, <1>6 DEF admin_create_principal, admin_approve_waitlist, put
<1>7. ASSUME NEW h, NEW s, PatchPrincipalRead(h, s) \/ admin_dismiss_waitlist(h)
      PROVE  RegistryInv'
    BY <1>3, <1>7 DEF PatchPrincipalRead, admin_dismiss_waitlist
<1>8. CASE PatchPrincipalWrite
    BY <1>3, <1>8 DEF PatchPrincipalWrite, put
<1> QED BY <1>4, <1>5, <1>6, <1>7, <1>8 DEF AdminStep

\* The four ends of a removal: the registry's commit, a failure before the row
\* went, and a commit or a process lost after it.
LEMMA RemovalEndsInv ==
    ASSUME RegistryInv, CleanupCommits \/ CleanupRollsBack \/ CommitLost \/ Crash
    PROVE  RegistryInv'
<1>1. /\ removing' = NoRemoval /\ UNCHANGED <<runtime, workspaces, machines, files>>
      /\ UNCHANGED creating \/ creating' = NoCreate
    BY DEF CleanupCommits, CleanupRollsBack, CommitLost, Crash, RemoveEnd, RemoveFails,
           HandlersLost, wvars
<1>2. RemovalInv'
    BY <1>1 DEF RemovalInv
<1>3. \A p : registered(p)' <=> registered(p)
    BY <1>1, SameRegistration
<1>4. \A w \in DOMAIN workspaces : registered(workspaces[w].owner)'
    BY <1>1, <1>3 DEF RegistryInv, CanStart, open_with_principals
<1>5. CASE CleanupCommits
  <2>1. Forget(removing.human) /\ UNCHANGED <<creating, torn>>
    BY <1>5 DEF CleanupCommits
  <2>2. \A p \in Ids \ {removing.human} : Accounted(p) => Accounted(p)'
    BY <1>3, <2>1 DEF Accounted
  <2> QED BY <1>1, <1>2, <1>4, <2>1, <2>2, ForgetInv
<1>6. CASE CleanupRollsBack
  <2>1. removing.at # "deleted" /\ UNCHANGED <<grants, defaults, torn>>
    BY <1>6 DEF CleanupRollsBack, RemoveFails, wvars
  <2>2. \A p \in Ids : Accounted(p) => Accounted(p)'
    BY <1>3, <2>1 DEF Accounted
  <2> QED BY <1>1, <1>2, <1>4, <2>1, <2>2, RegistryFrame
<1>7. CASE CommitLost \/ Crash
  <2>1. /\ UNCHANGED <<grants, defaults>> /\ torn \subseteq torn'
        /\ removing.at = "deleted" => removing.human \in torn'
    BY <1>7 DEF CommitLost, RemoveEnd, Crash
  <2>2. \A p \in Ids : Accounted(p) => Accounted(p)'
    BY <1>3, <2>1 DEF Accounted
  <2> QED BY <1>1, <1>2, <1>4, <2>1, <2>2, RegistryFrame
<1> QED BY <1>5, <1>6, <1>7

\* Every step of the registry and of the administrator.
LEMMA RegistryStepInv == RegistryInv /\ [WorkspacesNext]_registryVars => RegistryInv'
<1> SUFFICES ASSUME RegistryInv, [WorkspacesNext]_registryVars PROVE RegistryInv'
    OBVIOUS
<1>1. CASE UNCHANGED registryVars
  <2>1. UNCHANGED <<runtime, removing, workspaces, grants, defaults, machines, files, creating, torn>>
    BY <1>1 DEF registryVars, pvars, wvars
  <2>2. \A p : registered(p)' <=> registered(p)
    BY <2>1, SameRegistration
  <2>3. RemovalInv' /\ \A p \in Ids : Accounted(p) => Accounted(p)'
    BY <2>1, <2>2 DEF RegistryInv, RemovalInv, Accounted, owns, get
  <2>4. \A w \in DOMAIN workspaces : registered(workspaces[w].owner)'
    BY <2>1, <2>2 DEF RegistryInv, CanStart, open_with_principals
  <2> QED BY <2>1, <2>3, <2>4, RegistryFrame
<1>2. CASE admin_create_workspace \/ CreateRow
    BY <1>2, CreateFileInv, CreateRowInv DEF admin_create_workspace
<1>3. CASE admin_update_workspace \/ admin_create_grant \/ admin_revoke_grant
    BY <1>3, SetVisibilityInv, GrantInv, RevokeInv
       DEF admin_update_workspace, admin_create_grant, admin_revoke_grant
<1>4. CASE \E p \in Ids, w \in DOMAIN workspaces : set_default(p, w)
    BY <1>4, SetDefaultInv
<1>5. CASE \E m \in Machines : create_machine(m) \/ revoke_machine(m)
    BY <1>5, CreateMachineInv, RevokeMachineInv
<1>6. CASE \E h \in Humans : with_human_access_cleanup(h)
    BY <1>6, RemovalStartsInv
<1>7. CASE (RemoveGrants \/ AdminStep) /\ UNCHANGED <<now, wvars>>
    BY <1>7, AdminStepInv
<1>8. CASE CleanupCommits \/ CleanupRollsBack \/ CommitLost \/ Crash
    BY <1>8, RemovalEndsInv
<1> QED BY <1>1, <1>2, <1>3, <1>4, <1>5, <1>6, <1>7, <1>8 DEF WorkspacesNext

\* CanStart for any registry (open_with_principals): whatever creates, grants,
\* revocations, removals and crashes have happened, in any order, every
\* workspace has its file and a registered owner.
THEOREM RegistryAlwaysOpens == WorkspacesSpec => []CanStart
<1>1. RegistryInv => CanStart
    BY DEF RegistryInv
<1> QED BY <1>1, RegistryInitInv, RegistryStepInv, PTL DEF WorkspacesSpec

\* AccessMatchesIdentity for any registry (revoke, set_visibility,
\* with_human_access_cleanup, revoke_machine): no grant and no default outlives
\* its identity unless a removal lost its last commit, and every default can be
\* read by whoever it belongs to.
THEOREM AccessGoesWithIdentity == WorkspacesSpec => []AccessMatchesIdentity
<1>1. RegistryInv => AccessMatchesIdentity
    BY DEF RegistryInv, AccessMatchesIdentity, Accounted
<1> QED BY <1>1, RegistryInitInv, RegistryStepInv, PTL DEF WorkspacesSpec

-----------------------------------------------------------------------------
(* The provider *)

\* A key that is found for a token is one the token may be checked with.
LEMMA FoundIsNamed ==
    ASSUME NEW kid, NEW set \in SUBSET Keys, NEW k \in key(kid, set)
    PROVE  k \in Keys /\ kid \in {NoKid, k}
    BY DEF key

\* The provider is discovered with its keys in the cache.
LEMMA UpstreamInitInv == UpstreamInit => UpstreamInv
    BY DEF UpstreamInit, UpstreamInv, ExchangeInv, RotationInvisible, Resting, Undecided

\* Every stretch of every login keeps the invariant, whatever the others do.
LEMMA UpstreamStepInv == UpstreamInv /\ [UpstreamNext]_uvars => UpstreamInv'
<1> SUFFICES ASSUME UpstreamInv, [UpstreamNext]_uvars PROVE UpstreamInv'
    OBVIOUS
<1> DEFINE Record == [at : {"fetching", "fetched", "stored", "checking"}, token : IdToken,
                      set : SUBSET Keys, raced : BOOLEAN]
<1> USE DEF UpstreamInv
<1>0. ASSUME NEW e \in Exchanges, exchanges[e].at # "idle" PROVE exchanges[e] \in Record
    BY <1>0 DEF ExchangeInv, Resting
<1>1. CASE UNCHANGED uvars
    BY <1>1 DEF uvars, ExchangeInv, RotationInvisible
<1>2. ASSUME NEW set \in SUBSET Keys \ {{}}, Rotate(set) PROVE UpstreamInv'
    BY <1>2 DEF Rotate, ExchangeInv, RotationInvisible, Undecided
<1>3. ASSUME NEW e \in Exchanges, NEW token \in IdToken, exchange(e, token) PROVE UpstreamInv'
  <2> DEFINE found == key(token.kid, cached)
             x == [at |-> IF found # {} THEN "checking" ELSE "fetching",
                   token |-> token, set |-> found, raced |-> FALSE]
  <2>1. \A k \in found : k \in Keys /\ token.kid \in {NoKid, k}
    BY FoundIsNamed
  <2>2. x \in Record /\ x.at # "stored" /\ x.token = token /\ x.set = found
    BY <2>1
  <2>3. exchanges' = [exchanges EXCEPT ![e] = x]
    BY <1>3 DEF exchange
  <2> HIDE DEF x, found
  <2> QED BY <1>3, <2>1, <2>2, <2>3 DEF exchange, ExchangeInv, RotationInvisible, Undecided
<1>4. ASSUME NEW e \in Exchanges, fetch_keys(e) PROVE UpstreamInv'
  <2> DEFINE y == [exchanges[e] EXCEPT !.at = "fetched", !.set = published]
  <2>1. y \in Record /\ y.at = "fetched"
    BY <1>0, <1>4 DEF fetch_keys
  <2>2. exchanges' = [exchanges EXCEPT ![e] = y]
    BY <1>4 DEF fetch_keys, ExchangeInv
  <2> HIDE DEF y
  <2>3. verdict' = Undecided /\ UNCHANGED <<published, cached>>
    BY <1>4 DEF fetch_keys
  <2>4. ExchangeInv'
    BY <2>1, <2>2, <2>3 DEF ExchangeInv
  <2> QED BY <2>3, <2>4 DEF RotationInvisible, Undecided
<1>5. ASSUME NEW e \in Exchanges, FetchFails(e) PROVE UpstreamInv'
    BY <1>5 DEF FetchFails, ExchangeInv, RotationInvisible, Resting
<1>6. ASSUME NEW e \in Exchanges, StoreKeys(e) PROVE UpstreamInv'
  <2>1. exchanges[e] \in Record
    BY <1>0, <1>6 DEF StoreKeys
  <2>2. \A f \in Exchanges : exchanges[f].at = "stored" => exchanges[f] \in Record
    BY <1>0
  <2> QED BY <1>6, <2>1, <2>2 DEF StoreKeys, ExchangeInv, RotationInvisible, Undecided
<1>7. ASSUME NEW e \in Exchanges, LookAgain(e) PROVE UpstreamInv'
  <2> DEFINE x == exchanges[e]
             found == key(x.token.kid, cached)
  <2>1. x \in Record /\ x.at = "stored" /\ (x.raced \/ cached = x.set)
    BY <1>0, <1>7 DEF LookAgain, ExchangeInv
  <2>2. \A k \in found : k \in Keys /\ x.token.kid \in {NoKid, k}
    BY FoundIsNamed
  <2>3. CASE found = {}
    BY <1>7, <2>1, <2>3 DEF LookAgain, ExchangeInv, RotationInvisible, Resting
  <2>4. CASE found # {}
    <3> DEFINE y == [x EXCEPT !.at = "checking", !.set = found]
    <3>1. y \in Record /\ y.at = "checking" /\ y.set = found /\ y.token = x.token
        BY <2>1, <2>2
    <3>2. /\ exchanges' = [exchanges EXCEPT ![e] = y]
          /\ verdict' = Undecided /\ UNCHANGED <<published, cached>>
        BY <1>7, <2>4 DEF LookAgain
    <3> HIDE DEF x, y, found
    <3>3. ExchangeInv'
        BY <2>2, <3>1, <3>2 DEF ExchangeInv
    <3> QED BY <3>2, <3>3 DEF RotationInvisible, Undecided
  <2> QED BY <2>3, <2>4
<1>8. ASSUME NEW e \in Exchanges, NEW claims \in Claims, Verified(e, claims) PROVE UpstreamInv'
  <2>1. exchanges[e] \in Record
    BY <1>0, <1>8 DEF Verified
  <2>2. ASSUME NEW k \in exchanges[e].set, verify(exchanges[e].token, k, claims)
        PROVE  exchanges[e].token.signer # Forger /\ exchanges[e].token.kid \in {NoKid, exchanges[e].token.signer}
    BY <1>8, <2>1, <2>2, UpstreamAssumption DEF Verified, verify, ExchangeInv
  <2>3. ExchangeInv'
    BY <1>8 DEF Verified, ExchangeInv, Resting
  <2>4. RotationInvisible'
    BY <1>8, <2>2 DEF Verified, RotationInvisible
  <2> QED BY <1>8, <2>3, <2>4 DEF Verified
<1> QED BY <1>1, <1>2, <1>3, <1>4, <1>5, <1>6, <1>7, <1>8 DEF UpstreamNext

\* RotationInvisible for any set of keys and any number of logins (exchange,
\* key, fetch_keys): a token is refused for an unknown key only if the fetched
\* set lacks it or an older set was stored in between, and accepted only under
\* the key it names.
THEOREM RotationIsInvisible == UpstreamSpec => []RotationInvisible
<1>1. UpstreamInv => RotationInvisible
    BY DEF UpstreamInv
<1> QED BY <1>1, UpstreamInitInv, UpstreamStepInv, PTL DEF UpstreamSpec

-----------------------------------------------------------------------------
(* The limiter *)

\* A request is counted under the address of a peer, whatever the header says.
LEMMA PeerIsCounted ==
    ASSUME NEW header \in Peers \cup {Unusable}, NEW connection \in Peers
    PROVE  Peer(header, connection) \in Peers
    BY DEF Peer, forwarded_for

\* A reading that is remembered is one the clock showed.
LEMMA ReadingOf ==
    ASSUME NEW Readings, NEW q \in Seq(Readings), NEW i \in 1..Len(q)
    PROVE  q[i] \in Readings
    OBVIOUS

\* The admission history of a peer: it never exceeds the limit, ends with the
\* new reading, and keeps the others in their order.
LEMMA Remembered ==
    ASSUME NEW q \in Seq(0..MaxReading), Len(q) <= Limit
    PROVE  LET r == IF Len(q) < Limit THEN Append(q, clock) ELSE Append(Tail(q), clock)
           IN  clock \in 0..MaxReading =>
               /\ r \in Seq(0..MaxReading) /\ Len(r) <= Limit
               /\ Len(r) = IF Len(q) < Limit THEN Len(q) + 1 ELSE Limit
               /\ r[Len(r)] = clock
               /\ \A j \in 1..(Len(r) - 1) :
                     /\ j + Len(q) + 1 - Len(r) \in 1..Len(q)
                     /\ r[j] = q[j + Len(q) + 1 - Len(r)]
<1> SUFFICES ASSUME clock \in 0..MaxReading
             PROVE  LET r == IF Len(q) < Limit THEN Append(q, clock) ELSE Append(Tail(q), clock)
                    IN  /\ r \in Seq(0..MaxReading) /\ Len(r) <= Limit
                        /\ Len(r) = IF Len(q) < Limit THEN Len(q) + 1 ELSE Limit
                        /\ r[Len(r)] = clock
                        /\ \A j \in 1..(Len(r) - 1) :
                              /\ j + Len(q) + 1 - Len(r) \in 1..Len(q)
                              /\ r[j] = q[j + Len(q) + 1 - Len(r)]
    OBVIOUS
<1>0. Len(q) \in Nat /\ Limit \in Nat /\ Limit > 0
    BY RateLimiterAssumption
<1>1. CASE Len(q) < Limit
    BY <1>0, <1>1
<1>2. CASE ~(Len(q) < Limit)
  <2> DEFINE t == Tail(q)
  <2>1. Len(q) = Limit /\ q # <<>>
    BY <1>0, <1>2
  <2>2. t \in Seq(0..MaxReading) /\ Len(t) = Limit - 1 /\ \A j \in 1..Len(t) : t[j] = q[j + 1]
    BY <1>0, <2>1
  <2> HIDE DEF t
  <2>3. /\ Append(t, clock) \in Seq(0..MaxReading) /\ Len(Append(t, clock)) = Limit
        /\ Append(t, clock)[Limit] = clock
        /\ \A j \in 1..(Limit - 1) : Append(t, clock)[j] = q[j + 1]
    BY <1>0, <2>2
  <2> QED BY <1>0, <1>2, <2>1, <2>3 DEF t
<1> QED BY <1>1, <1>2

\* A fresh limiter has counted nobody.
LEMMA LimiterInitInv == LimiterInit => LimiterInv
    BY RateLimiterAssumption DEF LimiterInit, LimiterInv, CountsInv, RefusedForCause

\* A request, admitted or refused, in a window that rolls or does not.
LEMMA CheckInv ==
    ASSUME LimiterInv, NEW k \in Peers, check(k)
    PROVE  LimiterInv'
<1> DEFINE start == IF Rolls THEN clock ELSE started
           open == IF Rolls THEN [p \in {} |-> 1] ELSE counts
           over == k \in DOMAIN open /\ open[k] >= Limit
           counted == k \in DOMAIN open \/ Cardinality(DOMAIN open) < MaxKeys
           more == [p \in DOMAIN open \cup {k} |->
                      IF p # k THEN open[p] ELSE IF k \in DOMAIN open THEN open[k] + 1 ELSE 1]
           r == IF Len(recent[k]) < Limit THEN Append(recent[k], clock)
                ELSE Append(Tail(recent[k]), clock)
<1>1. /\ started' = start /\ UNCHANGED clock
      /\ counts' = IF over \/ ~counted THEN open ELSE more
      /\ refused' = IF over THEN {k} ELSE {}
      /\ recent' = IF over THEN recent ELSE [recent EXCEPT ![k] = r]
    BY Zenon DEF check
<1>2. /\ clock \in Nat /\ started \in Nat /\ start \in 0..MaxReading /\ clock \in 0..MaxReading
      /\ Limit \in Nat \ {0} /\ Window \in Nat \ {0} /\ MaxReading \in Nat
      /\ clock - start \in 0..(Window - 1)
    BY RateLimiterAssumption DEF LimiterInv, Rolls
<1>3. \A p \in DOMAIN open :
         /\ p \in Peers /\ open[p] \in 1..Limit /\ open[p] <= Len(recent[p])
         /\ \A i \in 1..Len(recent[p]) :
               i > Len(recent[p]) - open[p] => recent[p][i] - start \in 0..(Window - 1)
    BY DEF LimiterInv, CountsInv
<1>4. /\ \A p \in Peers : recent[p] \in Seq(0..MaxReading) /\ Len(recent[p]) <= Limit
      /\ recent \in [Peers -> Seq(0..MaxReading)]
    BY DEF LimiterInv
<1>5. /\ r \in Seq(0..MaxReading) /\ Len(r) <= Limit
      /\ Len(r) = IF Len(recent[k]) < Limit THEN Len(recent[k]) + 1 ELSE Limit
      /\ r[Len(r)] = clock
      /\ \A j \in 1..(Len(r) - 1) :
            /\ j + Len(recent[k]) + 1 - Len(r) \in 1..Len(recent[k])
            /\ r[j] = recent[k][j + Len(recent[k]) + 1 - Len(r)]
    BY <1>2, <1>4, Remembered
<1> HIDE DEF start, open, r
<1>6. CASE over
  <2>1. counts' = open /\ recent' = recent /\ refused' = {k} /\ started' = start /\ clock' = clock
    BY <1>1, <1>6
  <2>2. CountsInv'
    BY <1>3, <2>1 DEF CountsInv
  <2>3. open[k] = Limit /\ Len(recent[k]) = Limit
    BY <1>2, <1>3, <1>4, <1>6
  <2>4. ASSUME NEW i \in DOMAIN recent[k]
        PROVE  clock - recent[k][i] \in -(Window - 1)..(Window - 1)
    <3>0. recent[k] \in Seq(0..MaxReading) /\ DOMAIN recent[k] = 1..Limit
        BY <1>4, <2>3
    <3>1. i \in 1..Len(recent[k])
        BY <2>3, <3>0
    <3>1a. recent[k][i] \in 0..MaxReading
        BY <3>0, <3>1, ReadingOf
    <3>2. recent[k][i] - start \in 0..(Window - 1)
        BY <1>2, <1>3, <1>6, <2>3, <3>1
    <3> QED BY <1>2, <3>1a, <3>2
  <2>5. RefusedForCause'
    BY <2>1, <2>3, <2>4 DEF RefusedForCause
  <2> QED BY <1>2, <1>4, <2>1, <2>2, <2>5 DEF LimiterInv
<1>7. CASE ~over
  <2>1. /\ recent' = [recent EXCEPT ![k] = r] /\ refused' = {} /\ started' = start /\ clock' = clock
        /\ counts' \in {open, more} /\ (k \in DOMAIN open => counts' = more)
    BY <1>1, <1>7
  <2>2. /\ recent' \in [Peers -> Seq(0..MaxReading)] /\ recent'[k] = r
        /\ \A p \in Peers : p # k => recent'[p] = recent[p]
        /\ \A p \in Peers : Len(recent'[p]) <= Limit
    BY <1>4, <1>5, <2>1
  <2>3. ASSUME NEW p \in DOMAIN counts', p # k
        PROVE  /\ p \in Peers /\ counts'[p] \in 1..Limit /\ counts'[p] <= Len(recent'[p])
               /\ \A i \in 1..Len(recent'[p]) :
                     i > Len(recent'[p]) - counts'[p] => recent'[p][i] - started' \in 0..(Window - 1)
    <3>1. p \in DOMAIN open /\ counts'[p] = open[p]
        BY <2>1, <2>3
    <3> QED BY <1>3, <2>1, <2>2, <2>3, <3>1
  <2>4. ASSUME k \in DOMAIN counts'
        PROVE  /\ counts'[k] \in 1..Limit /\ counts'[k] <= Len(r)
               /\ \A i \in 1..Len(r) : i > Len(r) - counts'[k] => r[i] - start \in 0..(Window - 1)
    <3>1. counts' = more
        BY <2>1, <2>4
    <3>2. CASE k \in DOMAIN open
      <4>1. counts'[k] = open[k] + 1 /\ open[k] \in 1..Limit /\ open[k] < Limit
        BY <1>2, <1>3, <1>7, <3>1, <3>2
      <4>2. open[k] <= Len(recent[k]) /\ Len(recent[k]) \in Nat /\ Len(r) \in Nat
        BY <1>3, <1>4, <1>5, <3>2
      <4>3. counts'[k] <= Len(r)
        BY <1>2, <1>5, <4>1, <4>2
      <4>4. ASSUME NEW i \in 1..Len(r), i > Len(r) - counts'[k]
            PROVE  r[i] - start \in 0..(Window - 1)
        <5>1. CASE i = Len(r)
            BY <1>2, <1>5, <5>1
        <5>2. CASE i # Len(r)
          <6> DEFINE j == i + Len(recent[k]) + 1 - Len(r)
          <6>1. j \in 1..Len(recent[k]) /\ r[i] = recent[k][j]
            BY <1>5, <4>2, <5>2
          <6>2. j > Len(recent[k]) - open[k]
            BY <4>1, <4>2, <4>4
          <6> HIDE DEF j
          <6> QED BY <1>3, <3>2, <6>1, <6>2
        <5> QED BY <5>1, <5>2
      <4> QED BY <1>2, <4>1, <4>3, <4>4
    <3>3. CASE k \notin DOMAIN open
      <4>1. counts'[k] = 1
        BY <3>1, <3>3
      <4>2. Len(r) \in Nat /\ Len(r) >= 1
        BY <1>2, <1>4, <1>5
      <4>3. \A i \in 1..Len(r) : i > Len(r) - 1 => i = Len(r)
        BY <4>2
      <4> QED BY <1>2, <1>5, <4>1, <4>2, <4>3
    <3> QED BY <3>2, <3>3
  <2>5. CountsInv'
    BY <2>1, <2>2, <2>3, <2>4 DEF CountsInv
  <2> QED BY <1>2, <2>1, <2>2, <2>5 DEF LimiterInv, RefusedForCause
<1> QED BY <1>6, <1>7

\* The clock may be set to any reading.
LEMMA LimiterStepInv == LimiterInv /\ [LimiterNext]_lvars => LimiterInv'
<1> SUFFICES ASSUME LimiterInv, [LimiterNext]_lvars PROVE LimiterInv'
    OBVIOUS
<1>1. CASE UNCHANGED lvars
    BY <1>1 DEF lvars, LimiterInv, CountsInv, RefusedForCause
<1>2. ASSUME NEW t \in 0..MaxReading, ClockReads(t) PROVE LimiterInv'
    BY <1>2 DEF ClockReads, LimiterInv, CountsInv, RefusedForCause
<1>3. ASSUME NEW header \in Peers \cup {Unusable}, NEW connection \in Peers,
             check(Peer(header, connection))
      PROVE  LimiterInv'
    BY <1>3, PeerIsCounted, CheckInv
<1> QED BY <1>1, <1>2, <1>3 DEF LimiterNext

\* RefusedForCause for any limit, window, table size and clock (check): a
\* refused peer had a full count of requests admitted within one window of the
\* clock's reading, however the clock is set and whoever else is counted.
THEOREM RefusalsHaveACause == LimiterSpec => []RefusedForCause
<1>1. LimiterInv => RefusedForCause
    BY DEF LimiterInv
<1> QED BY <1>1, LimiterInitInv, LimiterStepInv, PTL DEF LimiterSpec
===============================================================================
