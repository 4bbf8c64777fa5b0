----------------------------- MODULE Principals -----------------------------
(***************************************************************************)
(* Who may sign in: the principals file, the runtime principals that the   *)
(* administrator keeps beside it, the approval waitlist, and the admin     *)
(* handlers that change them.  OAuth and Workspaces build on this module:  *)
(* both read the registered humans, and the removal of a human runs        *)
(* through both of their stores (`removing' says how far it has come).     *)
(*                                                                         *)
(* A human is its stable id (issuer and subject); names and labels are     *)
(* left out.                                                               *)
(***************************************************************************)
EXTENDS Integers, FiniteSets, FiniteSetsExt

CONSTANTS
    Humans,      \* identities the provider can vouch for
    Builtin,     \* entries of the principals file: a function to scopes
    Scopes,      \* scopes this server issues
    WaitlistCap, \* WAITLIST_CAP
    WaitlistTtl, \* approval-waitlist-ttl-seconds; 0 disables the sweep
    MaxNow       \* bound on the clock

ASSUME PrincipalsAssumption ==
    /\ Humans # {} /\ Scopes # {}
    /\ DOMAIN Builtin \subseteq Humans
    /\ \A h \in DOMAIN Builtin : Builtin[h] \in SUBSET Scopes \ {{}}
    /\ WaitlistCap \in Nat \ {0} /\ WaitlistTtl \in Nat /\ MaxNow \in Nat

VARIABLES
    now,      \* the server's clock
    runtime,  \* runtime_principal: a function from humans to scopes
    waitlist, \* principal_waitlist rows
    patching, \* the PATCH between its read and its write, if one is there
    removing  \* the DELETE under way, if one is there

pvars == <<runtime, waitlist, patching, removing>>

Granted == SUBSET Scopes \ {{}}
WaitlistEntry == [human : Humans, first : 0..MaxNow, last : 0..MaxNow]
NoPatch == [human |-> "none"]
NoRemoval == [human |-> "none", at |-> "none"]

PrincipalsTypeOK ==
    /\ now \in 0..MaxNow
    /\ DOMAIN runtime \subseteq Humans
    /\ \A h \in DOMAIN runtime : runtime[h] \in Granted
    /\ waitlist \subseteq WaitlistEntry
    /\ patching = NoPatch \/ patching \in [human : Humans, scopes : Granted]
    /\ \/ removing = NoRemoval
       \/ removing \in [human : Humans, at : {"locked", "revoked", "deleted"}]

PrincipalsInit ==
    /\ now = 0
    /\ runtime = [h \in {} |-> {}]
    /\ waitlist = {}
    /\ patching = NoPatch
    /\ removing = NoRemoval

(* The wall clock.  Nothing in the process waits for it. *)
Tick ==
    /\ now < MaxNow
    /\ now' = now + 1

------------------------------------------------------------------------------
(* The store. *)

is_builtin(h) == h \in DOMAIN Builtin
get(h) == h \in DOMAIN runtime
put(h, s) == [k \in DOMAIN runtime \cup {h} |-> IF k = h THEN s ELSE runtime[k]]
without(h) == [k \in DOMAIN runtime \ {h} |-> runtime[k]]

(* The file comes before the runtime rows: a runtime row under a built-in
   key stays in the table, masked. *)
resolve_human(h) ==
    IF is_builtin(h) THEN Builtin[h] ELSE IF get(h) THEN runtime[h] ELSE {}
human_registered(h) == is_builtin(h) \/ get(h)

(* Slugs this server does not issue are refused, and so is an empty list. *)
canonical_scopes(raw) == raw \in Granted

(* Expired entries go first, then the least recently seen ones over the cap. *)
Expire(w) ==
    IF WaitlistTtl > 0 THEN {e \in w : e.first >= now - WaitlistTtl} ELSE w
Older(a, b) == a.last < b.last \/ (a.last = b.last /\ a.first < b.first)
Trims(w) ==
    {k \in SUBSET w :
        /\ Cardinality(k) = Min({Cardinality(w), WaitlistCap})
        /\ \A gone \in w \ k, kept \in k : ~Older(kept, gone)}

Sighted(h) ==
    LET seen == {e \in waitlist : e.human = h}
        first == IF seen = {} THEN now ELSE (CHOOSE e \in seen : TRUE).first
    IN (waitlist \ seen) \cup {[human |-> h, first |-> first, last |-> now]}

record_waitlist(h) == waitlist' \in Trims(Expire(Sighted(h)))

------------------------------------------------------------------------------
(* The admin handlers. *)

admin_create_principal(h, s) ==
    /\ canonical_scopes(s)
    /\ ~is_builtin(h)
    /\ ~get(h)
    /\ runtime' = put(h, s)
    /\ UNCHANGED <<waitlist, patching, removing>>

(* PATCH reads the row, merges the body into it and writes the whole row
   back: a body without scopes writes the scopes it read. *)
PatchPrincipalRead(h, s) ==
    /\ patching = NoPatch
    /\ ~is_builtin(h)
    /\ get(h)
    /\ s = runtime[h] \/ canonical_scopes(s)
    /\ patching' = [human |-> h, scopes |-> s]
    /\ UNCHANGED <<runtime, waitlist, removing>>

PatchPrincipalWrite ==
    /\ patching # NoPatch
    /\ runtime' = IF get(patching.human)
                  THEN put(patching.human, patching.scopes) ELSE runtime
    /\ patching' = NoPatch
    /\ UNCHANGED <<waitlist, removing>>

(* Promotion inserts the row and removes the entry in one transaction; a row
   that is already there makes the insert fail and keeps the entry. *)
admin_approve_waitlist(h, s) ==
    /\ canonical_scopes(s)
    /\ \E e \in waitlist : e.human = h
    /\ ~get(h)
    /\ runtime' = put(h, s)
    /\ waitlist' = {e \in waitlist : e.human # h}
    /\ UNCHANGED <<patching, removing>>

admin_dismiss_waitlist(h) ==
    /\ \E e \in waitlist : e.human = h
    /\ waitlist' = {e \in waitlist : e.human # h}
    /\ UNCHANGED <<runtime, patching, removing>>

(* DELETE: the row is read, the workspace registry's write lock is taken and
   the owner check passes; then the OAuth grants are revoked, the row is
   deleted, and the registry commits. *)
RemoveStart(h) ==
    /\ removing = NoRemoval
    /\ ~is_builtin(h)
    /\ get(h)
    /\ removing' = [human |-> h, at |-> "locked"]
    /\ UNCHANGED <<runtime, waitlist, patching>>

RemoveGrants ==
    /\ removing.at = "locked"
    /\ removing' = [removing EXCEPT !.at = "revoked"]
    /\ UNCHANGED <<runtime, waitlist, patching>>

RemoveRow ==
    /\ removing.at = "revoked"
    /\ runtime' = without(removing.human)
    /\ removing' = [removing EXCEPT !.at = "deleted"]
    /\ UNCHANGED <<waitlist, patching>>

RemoveEnd ==
    /\ removing.at = "deleted"
    /\ removing' = NoRemoval
    /\ UNCHANGED <<runtime, waitlist, patching>>

(* A store failure inside the removal, and a crash of the process, end the
   handlers where they are. *)
RemoveFails ==
    /\ removing.at \in {"locked", "revoked"}
    /\ removing' = NoRemoval
    /\ UNCHANGED <<runtime, waitlist, patching>>

HandlersLost ==
    /\ patching' = NoPatch
    /\ removing' = NoRemoval
    /\ UNCHANGED <<runtime, waitlist>>

AdminStep ==
    \/ \E h \in Humans, s \in SUBSET Scopes : admin_create_principal(h, s)
    \/ \E h \in Humans, s \in SUBSET Scopes : PatchPrincipalRead(h, s)
    \/ PatchPrincipalWrite
    \/ \E h \in Humans, s \in SUBSET Scopes : admin_approve_waitlist(h, s)
    \/ \E h \in Humans : admin_dismiss_waitlist(h)
    \/ RemoveRow

==============================================================================
