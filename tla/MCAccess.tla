------------------------------ MODULE MCAccess ------------------------------
(***************************************************************************)
(* Small instances of the parts that decide who may do what: the OAuth     *)
(* server, the provider behind it, the workspace registry and the request  *)
(* limiter.  No two parts take steps in the same behaviour, so one run     *)
(* explores their state spaces side by side (`part').                      *)
(***************************************************************************)
EXTENDS OAuth, Upstream, Workspaces, RateLimiter

CONSTANT Parts  \* the parts this run explores
VARIABLE part

accessVars == <<part, now, pvars, ovars, uvars, wvars, lvars>>

NoFile == [h \in {} |-> {}]

Init ==
    /\ part \in Parts
    /\ OAuthInit /\ WorkspacesInit
    /\ UpstreamInit /\ (part # "provider" => published = Keys)
    /\ LimiterInit /\ (part # "limiter" => clock = 0)

Next ==
    /\ UNCHANGED part
    /\ \/ part = "oauth" /\ OAuthNext /\ UNCHANGED <<uvars, wvars, lvars>>
       \/ part = "provider" /\ UpstreamNext /\ UNCHANGED <<now, pvars, ovars, wvars, lvars>>
       \/ part = "registry" /\ WorkspacesNext /\ UNCHANGED <<ovars, uvars, lvars>>
       \/ part = "limiter" /\ LimiterNext /\ UNCHANGED <<now, pvars, ovars, uvars, wvars>>

Spec == Init /\ [][Next]_accessVars

(* The types of the parts' tables, clocks and counters: rows only for
   keys that exist, and nothing beyond the bounds the code sets. *)
TypeOK ==
    /\ OAuthTypeOK
    /\ UpstreamTypeOK
    /\ WorkspacesTypeOK
    /\ LimiterTypeOK

==============================================================================
