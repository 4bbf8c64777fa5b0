------------------------------- MODULE OAuth --------------------------------
(***************************************************************************)
(* The OAuth 2.1 authorization server: client registration, the login      *)
(* that goes through an upstream provider, the consent decision, and the   *)
(* codes and tokens that follow from it.                                   *)
(*                                                                         *)
(* Every statement group runs under one mutex (with_store), so a token     *)
(* request is one step; a login is not, because it waits for the metadata  *)
(* document and for the provider between its store calls.  `calls' holds   *)
(* the requests that wait.  Values made by new_token are numbers that are  *)
(* never handed out twice (`minted'); the family of a grant is the number  *)
(* of its code.  PKCE verifier and redirect URI are one fact: whether the  *)
(* presenter can prove the code is its own.  There is one deployment, so   *)
(* one resource.                                                           *)
(***************************************************************************)
EXTENDS Principals

CONSTANTS
    Dcr,         \* ids dynamic registration can hand out
    Cimd,        \* ids that are metadata document URLs on an allowed domain
    Reserved,    \* ids of the server's own browser clients
    Requests,    \* logins the server can work on at once
    FetchTtl,    \* METADATA_TIMEOUT
    LoginTtl,    \* LOGIN_TTL_US
    CodeTtl,     \* CODE_TTL_US
    AccessTtl,   \* ACCESS_TTL_US
    RefreshTtl,  \* REFRESH_TTL_US
    MaxIdle,     \* CLIENT_MAX_IDLE_US
    MaxLogins,   \* bound: logins started
    MaxCodes,    \* bound: codes minted
    MaxTokens    \* bound: tokens issued

Clients == Dcr \cup Cimd \cup Reserved

(* The lifetimes are named constants of the code (5 seconds, 10 minutes, 60
   seconds, 1 hour and twice 30 days); what the rules below need of them is
   that a client outlives the fetch, the login and the code it started. *)
ASSUME OAuthAssumption ==
    /\ FetchTtl \in Nat /\ LoginTtl \in Nat \ {0} /\ CodeTtl \in Nat \ {0}
    /\ AccessTtl \in Nat \ {0} /\ RefreshTtl \in Nat \ {0}
    /\ MaxIdle \in Nat /\ MaxIdle >= FetchTtl + LoginTtl + CodeTtl
    /\ MaxLogins \in Nat /\ MaxCodes \in Nat /\ MaxTokens \in Nat

VARIABLES
    clients,  \* oauth_client: a function from ids to the last use
    logins,   \* oauth_login: a function from states to rows
    codes,    \* oauth_code: a function from codes to rows
    tokens,   \* oauth_token: a function from tokens to rows
    calls,    \* what each request in flight holds
    minted,   \* how many logins, codes and tokens were ever made
    issued,   \* dynamic client ids ever handed out
    dead      \* history: families that were revoked

ovars == <<clients, logins, codes, tokens, calls, minted, issued, dead>>
oauthVars == <<now, pvars, ovars>>

NoHuman == "nobody"
Login == [client : Clients, scopes : Granted, human : Humans \cup {NoHuman},
          expires : Nat]
Grant == [client : Clients, human : Humans, scopes : Granted, family : Nat]
Code == [grant : Grant, spent : BOOLEAN, expires : Nat]
Token == [grant : Grant, kind : {"access", "refresh"}, spent : BOOLEAN,
          revoked : BOOLEAN, expires : Nat]
Idle == [pc |-> "idle"]
Call ==
    {Idle}
    \cup [pc : {"fetch"}, client : Clients, scopes : Granted, at : Nat]
    \cup [pc : {"discover"}, client : Clients, scopes : Granted]
    \cup [pc : {"exchange"}, state : Nat, login : Login]
    \cup [pc : {"named", "known"}, state : Nat, login : Login, human : Humans,
          offered : Granted]

OAuthTypeOK ==
    /\ PrincipalsTypeOK
    /\ DOMAIN clients \subseteq Clients
    /\ \A c \in DOMAIN clients : clients[c] \in 0..MaxNow
    /\ DOMAIN logins \subseteq 1..MaxLogins
    /\ \A s \in DOMAIN logins : logins[s] \in Login
    /\ DOMAIN codes \subseteq 1..MaxCodes
    /\ \A c \in DOMAIN codes : codes[c] \in Code /\ codes[c].grant.family = c
    /\ DOMAIN tokens \subseteq 1..MaxTokens
    /\ \A t \in DOMAIN tokens : tokens[t] \in Token
    /\ calls \in [Requests -> Call]
    /\ minted \in [login : 0..MaxLogins, code : 0..MaxCodes, token : 0..MaxTokens]
    /\ issued \subseteq Dcr
    /\ dead \subseteq 1..MaxCodes

------------------------------------------------------------------------------
(* The store.  A row is present when its key is in the domain. *)

Row(table, key, row) ==
    [k \in DOMAIN table \cup {key} |-> IF k = key THEN row ELSE table[k]]
Drop(table, keys) == [k \in DOMAIN table \ keys |-> table[k]]
Live(row) == row.expires > now

put_client(c, at) == clients' = Row(clients, c, at)
get_client(c) == c \in DOMAIN clients
\* Mutant of touched: the last use stays the registration.
Untouched(c) == clients
(* An unknown client is a no-op. *)
touched(c) == IF get_client(c) THEN Row(clients, c, now) ELSE clients

put_login(s, login) == logins' = Row(logins, s, login)
Takeable(s) == s \in DOMAIN logins /\ Live(logins[s])
take_login(s) == logins' = Drop(logins, {s})

put_code(c, grant) ==
    codes' = Row(codes, c, [grant |-> grant, spent |-> FALSE, expires |-> now + CodeTtl])

(* What a presentation means: "valid", "replayed" or "unknown". *)
CodeOutcome(c) ==
    IF c \notin DOMAIN codes \/ ~Live(codes[c]) THEN "unknown"
    ELSE IF codes[c].spent THEN "replayed" ELSE "valid"
RefreshOutcome(t) ==
    IF \/ t \notin DOMAIN tokens \/ ~Live(tokens[t])
       \/ tokens[t].kind # "refresh" \/ tokens[t].revoked THEN "unknown"
    ELSE IF tokens[t].spent THEN "replayed" ELSE "valid"

find_access(t) ==
    /\ t \in DOMAIN tokens
    /\ tokens[t].kind = "access" /\ ~tokens[t].revoked /\ Live(tokens[t])

\* Mutant of Revoked: the token that was already spent is all that goes.
RevokedSpent(table, families) ==
    [t \in DOMAIN table |->
        [table[t] EXCEPT !.revoked = @ \/ (table[t].spent /\ table[t].grant.family \in families)]]
Revoked(table, families) ==
    [t \in DOMAIN table |->
        [table[t] EXCEPT !.revoked = @ \/ table[t].grant.family \in families]]
revoke_family(f) ==
    /\ tokens' = Revoked(tokens, {f})
    /\ dead' = dead \cup {f}
family_of(t) == {tokens[k].grant.family : k \in {k \in DOMAIN tokens \cap {t} : Live(tokens[k])}}

put_token(table, t, kind, grant, ttl) ==
    Row(table, t, [grant |-> grant, kind |-> kind, spent |-> FALSE,
                   revoked |-> FALSE, expires |-> now + ttl])

(* Two inserts.  When the second one fails the request answers an error and
   the access token is a row nobody holds the value of. *)
issue(table, grant, fails) ==
    LET access == put_token(table, minted.token + 1, "access", grant, AccessTtl)
    IN  /\ minted.token + 2 <= MaxTokens
        /\ minted' = [minted EXCEPT !.token = @ + 2]
        /\ tokens' = IF fails THEN access
                     ELSE put_token(access, minted.token + 2, "refresh", grant, RefreshTtl)

(* Families with a token that is not revoked yet are revoked; the codes and
   the logins that carry the human's name are deleted. *)
revoke_principal(h) ==
    LET named == {t \in DOMAIN tokens : tokens[t].grant.human = h /\ ~tokens[t].revoked}
        families == {tokens[t].grant.family : t \in named}
        pending == {c \in DOMAIN codes : codes[c].grant.human = h}
    IN  /\ tokens' = Revoked(tokens, families)
        /\ codes' = Drop(codes, pending)
        /\ logins' = Drop(logins, {s \in DOMAIN logins : logins[s].human = h})
        /\ dead' = dead \cup families \cup pending

Expired(table) == {k \in DOMAIN table : ~Live(table[k])}
sweep ==
    /\ logins' = Drop(logins, Expired(logins))
    /\ codes' = Drop(codes, Expired(codes))
    /\ tokens' = Drop(tokens, Expired(tokens))
evict_clients ==
    clients' = Drop(clients,
        {c \in DOMAIN clients \ Reserved :
            /\ clients[c] <= now - MaxIdle
            /\ \A t \in DOMAIN tokens : tokens[t].grant.client # c})

------------------------------------------------------------------------------
(* Registration and the login. *)

(* What a client says of itself: the kinds of redirect URI it lists, whether
   it gives a name and (in a document) its own URL as the client id, and
   whether something is too long or too many.  All of it right, or one thing
   wrong. *)
Proper == [uris |-> {"https", "loopback"}, named |-> TRUE, own |-> TRUE, bulky |-> FALSE]
Metadata ==
    {Proper, [Proper EXCEPT !.uris = {}], [Proper EXCEPT !.uris = {"https", "plain"}],
     [Proper EXCEPT !.named = FALSE], [Proper EXCEPT !.own = FALSE],
     [Proper EXCEPT !.bulky = TRUE]}
is_acceptable_redirect_uri(u) == u \in {"https", "loopback"}
check_redirect_uris(m) == \A u \in m.uris : is_acceptable_redirect_uri(u)
within_bounds(m) == ~m.bulky
accepts(m) == m.uris # {} /\ check_redirect_uris(m) /\ within_bounds(m)

(* A document counts only when it names its own URL and the client. *)
resolve_metadata_document(m) == m.own /\ m.named /\ accepts(m)

(* POST /oauth/register. *)
register(c, m) ==
    /\ accepts(m)
    /\ c \in Dcr \ issued
    /\ put_client(c, now)
    /\ issued' = issued \cup {c}
    /\ UNCHANGED <<now, pvars, logins, codes, tokens, calls, minted, dead>>

requested_scopes(s) == s \in Granted

(* GET /oauth/authorize, to its first wait.  A known client goes on to the
   provider; an unknown one is looked for at the URL it presents. *)
start_login(r, c, s) ==
    /\ calls[r] = Idle
    /\ requested_scopes(s)
    /\ \/ /\ get_client(c)
          /\ calls' = [calls EXCEPT ![r] = [pc |-> "discover", client |-> c, scopes |-> s]]
       \/ /\ ~get_client(c) /\ c \in Cimd
          /\ calls' = [calls EXCEPT ![r] =
                [pc |-> "fetch", client |-> c, scopes |-> s, at |-> now]]
    /\ UNCHANGED <<now, pvars, clients, logins, codes, tokens, minted, issued, dead>>

(* The request for a document gives up after its timeout. *)
MetadataFetch(r) == now <= calls[r].at + FetchTtl

(* The document is fetched: the client is recorded with the time the request
   arrived, whatever the row says by now.  A late or refused document, and a
   redirect URI the document does not list, end the request; the last leaves
   the client behind. *)
client_of(r, m, listed) ==
    LET ok == MetadataFetch(r) /\ resolve_metadata_document(m)
    IN
    /\ calls[r].pc = "fetch"
    /\ calls' = [calls EXCEPT ![r] =
          IF ok /\ listed
          THEN [pc |-> "discover", client |-> calls[r].client, scopes |-> calls[r].scopes]
          ELSE Idle]
    /\ IF ok THEN put_client(calls[r].client, calls[r].at) ELSE UNCHANGED clients
    /\ UNCHANGED <<now, pvars, logins, codes, tokens, minted, issued, dead>>

(* The provider is discovered, or not: the client's use is recorded and the
   login is stored before the browser is sent upstream. *)
LoginStarts(r) ==
    /\ calls[r].pc = "discover"
    /\ minted.login < MaxLogins
    /\ clients' = touched(calls[r].client)
    /\ put_login(minted.login + 1,
          [client |-> calls[r].client, scopes |-> calls[r].scopes,
           human |-> NoHuman, expires |-> now + LoginTtl])
    /\ minted' = [minted EXCEPT !.login = @ + 1]
    /\ calls' = [calls EXCEPT ![r] = Idle]
    /\ UNCHANGED <<now, pvars, codes, tokens, issued, dead>>

DiscoveryFails(r) ==
    /\ calls[r].pc = "discover"
    /\ calls' = [calls EXCEPT ![r] = Idle]
    /\ UNCHANGED <<now, pvars, clients, logins, codes, tokens, minted, issued, dead>>

(* GET /oauth/callback: the login is taken out of the table for as long as
   the provider is asked.  A login that was completed before is put back. *)
callback(r, s) ==
    /\ calls[r] = Idle
    /\ Takeable(s)
    /\ logins[s].human = NoHuman
    /\ take_login(s)
    /\ calls' = [calls EXCEPT ![r] = [pc |-> "exchange", state |-> s, login |-> logins[s]]]
    /\ UNCHANGED <<now, pvars, clients, codes, tokens, minted, issued, dead>>

(* The provider fails: the login returns to the table as it was. *)
restored(r) ==
    /\ calls[r].pc = "exchange"
    /\ put_login(calls[r].state, calls[r].login)
    /\ calls' = [calls EXCEPT ![r] = Idle]
    /\ UNCHANGED <<now, pvars, clients, codes, tokens, minted, issued, dead>>

offered(asked, held) == asked \cap held

(* The provider vouches for a human.  Somebody unknown goes to the waitlist
   when there is one; somebody who holds nothing that was asked for is
   refused; in both cases the login stays consumed. *)
principal_of(r, h) ==
    LET shown == offered(calls[r].login.scopes, resolve_human(h))
    IN  /\ calls[r].pc = "exchange"
        /\ calls' = [calls EXCEPT ![r] =
              IF human_registered(h) /\ shown # {}
              THEN [pc |-> "named", state |-> calls[r].state, login |-> calls[r].login,
                    human |-> h, offered |-> shown]
              ELSE Idle]
        /\ IF human_registered(h) THEN UNCHANGED waitlist
           ELSE record_waitlist(h) \/ UNCHANGED waitlist
        /\ UNCHANGED <<now, runtime, patching, removing, clients, logins, codes, tokens,
                       minted, issued, dead>>

(* The client must still be registered for the page to name it ... *)
consent_page(r) ==
    /\ calls[r].pc = "named"
    /\ calls' = [calls EXCEPT ![r] =
          IF get_client(calls[r].login.client) THEN [calls[r] EXCEPT !.pc = "known"] ELSE Idle]
    /\ UNCHANGED <<now, pvars, clients, logins, codes, tokens, minted, issued, dead>>

(* ... and then the login goes back into the table with the human and the
   offered scopes on it. *)
finish_login(r) ==
    /\ calls[r].pc = "known"
    /\ put_login(calls[r].state,
          [calls[r].login EXCEPT !.human = calls[r].human, !.scopes = calls[r].offered])
    /\ calls' = [calls EXCEPT ![r] = Idle]
    /\ UNCHANGED <<now, pvars, clients, codes, tokens, minted, issued, dead>>

------------------------------------------------------------------------------
(* Consent.  A wrong form token, a login without a human, a scope that was
   not offered and an empty decision put the login back, so they change
   nothing. *)

take_verified(s) == Takeable(s) /\ logins[s].human # NoHuman

approve(s, ticked) ==
    /\ take_verified(s)
    /\ ticked # {} /\ ticked \subseteq logins[s].scopes
    /\ minted.code < MaxCodes
    /\ take_login(s)
    /\ put_code(minted.code + 1,
          [client |-> logins[s].client, human |-> logins[s].human, scopes |-> ticked,
           family |-> minted.code + 1])
    /\ minted' = [minted EXCEPT !.code = @ + 1]
    /\ UNCHANGED <<now, pvars, clients, tokens, calls, issued, dead>>

deny(s) ==
    /\ take_verified(s)
    /\ take_login(s)
    /\ UNCHANGED <<now, pvars, clients, codes, tokens, calls, minted, issued, dead>>

(* POST /oauth/consent: one decision of the human. *)
consent ==
    \E s \in DOMAIN logins :
        deny(s) \/ \E ticked \in SUBSET Scopes : approve(s, ticked)

------------------------------------------------------------------------------
(* The token endpoint.  `by' is the client that presents, `proof' whether
   its verifier and redirect URI are the ones the code was minted for. *)

(* The code is spent by the read that fetches it, before anything is checked. *)
grant_authorization_code(c, by, proof, fails) ==
    LET honoured == proof /\ by = codes[c].grant.client
    IN  /\ CodeOutcome(c) = "valid"
        /\ codes' = [codes EXCEPT ![c].spent = TRUE]
        /\ IF honoured THEN issue(tokens, codes[c].grant, fails)
           ELSE UNCHANGED <<tokens, minted>>
        /\ clients' = IF honoured /\ ~fails THEN touched(by) ELSE clients
        /\ UNCHANGED <<now, pvars, logins, calls, issued, dead>>

ReplayCode(c) ==
    /\ CodeOutcome(c) = "replayed"
    /\ revoke_family(codes[c].grant.family)
    /\ UNCHANGED <<now, pvars, clients, logins, codes, calls, minted, issued>>

grant_refresh(t, by, fails) ==
    LET spent == [tokens EXCEPT ![t].spent = TRUE]
        grant == tokens[t].grant
    IN  /\ RefreshOutcome(t) = "valid"
        /\ \/ /\ by = grant.client
              /\ issue(spent, grant, fails)
              /\ clients' = IF fails THEN clients ELSE touched(by)
              /\ UNCHANGED dead
           \/ /\ by # grant.client
              /\ tokens' = Revoked(spent, {grant.family})
              /\ dead' = dead \cup {grant.family}
              /\ UNCHANGED <<clients, minted>>
        /\ UNCHANGED <<now, pvars, logins, codes, calls, issued>>

ReplayRefresh(t) ==
    /\ RefreshOutcome(t) = "replayed"
    /\ revoke_family(tokens[t].grant.family)
    /\ UNCHANGED <<now, pvars, clients, logins, codes, calls, minted, issued>>

(* POST /oauth/token. *)
token ==
    \/ \E c \in DOMAIN codes :
          \/ \E by \in Clients, proof, fails \in BOOLEAN :
                grant_authorization_code(c, by, proof, fails)
          \/ ReplayCode(c)
    \/ \E t \in DOMAIN tokens :
          \/ \E by \in Clients, fails \in BOOLEAN : grant_refresh(t, by, fails)
          \/ ReplayRefresh(t)

(* POST /oauth/revoke: either kind of token names the family. *)
revoke_token(t) ==
    /\ \E f \in family_of(t) : revoke_family(f)
    /\ UNCHANGED <<now, pvars, clients, logins, codes, calls, minted, issued>>

(* What a bearer token is worth on a request: the grant it was issued for,
   as long as its human is registered. *)
validate(t) == find_access(t)
Honoured(t) == validate(t) /\ human_registered(tokens[t].grant.human)

------------------------------------------------------------------------------
(* Upkeep, administration and restarts. *)

maintain ==
    /\ evict_clients
    /\ sweep
    /\ UNCHANGED <<now, pvars, calls, minted, issued, dead>>

seed_browser_clients ==
    clients' = [c \in DOMAIN clients \cup Reserved |->
                   IF c \in Reserved THEN now ELSE clients[c]]

Restart ==
    /\ seed_browser_clients
    /\ calls' = [r \in Requests |-> Idle]
    /\ HandlersLost
    /\ UNCHANGED <<now, logins, codes, tokens, minted, issued, dead>>

RemovalRevokes ==
    /\ RemoveGrants
    /\ revoke_principal(removing.human)
    /\ UNCHANGED <<now, clients, calls, minted, issued>>

OAuthInit ==
    /\ PrincipalsInit
    /\ clients = [c \in Reserved |-> 0]
    /\ logins = [s \in {} |-> {}] /\ codes = [s \in {} |-> {}] /\ tokens = [s \in {} |-> {}]
    /\ calls = [r \in Requests |-> Idle]
    /\ minted = [login |-> 0, code |-> 0, token |-> 0]
    /\ issued = {} /\ dead = {}

LoginStep(r) ==
    \/ \E c \in Clients, s \in SUBSET Scopes : start_login(r, c, s)
    \/ \E m \in Metadata, listed \in BOOLEAN : client_of(r, m, listed)
    \/ LoginStarts(r) \/ DiscoveryFails(r)
    \/ \E s \in DOMAIN logins : callback(r, s)
    \/ restored(r)
    \/ \E h \in Humans : principal_of(r, h)
    \/ consent_page(r) \/ finish_login(r)

CredentialStep ==
    \/ consent
    \/ token
    \/ \E t \in DOMAIN tokens : revoke_token(t)

OAuthNext ==
    \/ Tick /\ UNCHANGED <<pvars, ovars>>
    \/ \E c \in Dcr, m \in Metadata : register(c, m)
    \/ \E r \in Requests : LoginStep(r)
    \/ CredentialStep
    \/ maintain
    \/ Restart
    \/ AdminStep /\ UNCHANGED <<now, ovars>>
    \/ (\E h \in Humans : RemoveStart(h)) /\ UNCHANGED <<now, ovars>>
    \/ RemovalRevokes
    \/ (RemoveEnd \/ RemoveFails) /\ UNCHANGED <<now, ovars>>

OAuthSpec == OAuthInit /\ [][OAuthNext]_oauthVars

------------------------------------------------------------------------------
(* Properties. *)

Usable(t) == t \in DOMAIN tokens /\ ~tokens[t].revoked

(* A grant has one live branch: at most one refresh token of a family can
   still be spent, however often codes and tokens are presented, and a family
   that was revoked once (a replay, a foreign client, the revocation endpoint,
   the removal of its human) never holds a token that works again. *)
OneLiveBranch ==
    /\ \A t, u \in {t \in DOMAIN tokens : tokens[t].kind = "refresh" /\ Usable(t)} :
          /\ tokens[t].grant.family = tokens[u].grant.family
          /\ ~tokens[t].spent /\ ~tokens[u].spent
          => t = u
    /\ \A t \in DOMAIN tokens : tokens[t].grant.family \in dead => tokens[t].revoked
    /\ \A c \in DOMAIN codes : c \in dead => codes[c].spent

(* What makes it inductive.  The tables cs of codes and ts of tokens, with d
   the revoked families, n codes and k tokens minted so far: a token's code,
   while it is there, is spent and carries the same grant. *)
IsCode(row) ==
    row = [grant |-> row.grant, spent |-> row.spent, expires |-> row.expires]
IsToken(row) ==
    /\ row = [grant |-> row.grant, kind |-> row.kind, spent |-> row.spent,
              revoked |-> row.revoked, expires |-> row.expires]
    /\ row.spent \in BOOLEAN /\ row.revoked \in BOOLEAN
Spendable(ts, t) == ts[t].kind = "refresh" /\ ~ts[t].spent /\ ~ts[t].revoked

Branch(cs, ts, d, n, k) ==
    /\ cs = [c \in DOMAIN cs |-> cs[c]] /\ ts = [t \in DOMAIN ts |-> ts[t]]
    /\ n \in Nat /\ DOMAIN cs \subseteq 1..n
    /\ k \in Nat /\ DOMAIN ts \subseteq 1..k
    /\ d \subseteq 1..n
    /\ \A c \in DOMAIN cs : IsCode(cs[c]) /\ cs[c].grant.family = c /\ (c \in d => cs[c].spent)
    /\ \A t \in DOMAIN ts :
          /\ IsToken(ts[t]) /\ ts[t].grant.family \in 1..n
          /\ ts[t].grant.family \in d => ts[t].revoked
          /\ \A c \in DOMAIN cs : c = ts[t].grant.family => cs[c].spent /\ cs[c].grant = ts[t].grant
    /\ \A t, u \in DOMAIN ts :
          ts[t].grant.family = ts[u].grant.family /\ Spendable(ts, t) /\ Spendable(ts, u) => t = u

BranchInv ==
    /\ minted = [login |-> minted.login, code |-> minted.code, token |-> minted.token]
    /\ Branch(codes, tokens, dead, minted.code, minted.token)

(* Maintenance never ends a session: the client of every login a human has
   answered for, of every code and of every token that is still good is
   registered. *)
GrantsKeepTheirClient ==
    /\ \A s \in DOMAIN logins :
          logins[s].human # NoHuman /\ Live(logins[s]) => get_client(logins[s].client)
    /\ \A c \in DOMAIN codes : Live(codes[c]) => get_client(codes[c].grant.client)
    /\ \A t \in DOMAIN tokens : get_client(tokens[t].grant.client)

(* What makes it inductive: a client that is registered was used no longer ago
   than the logins and codes in its name allow, and a request that is about to
   put a login back has seen its client. *)
UsedSince(c, t) == get_client(c) => clients[c] >= t
LoginKept(row) ==
    /\ row = [client |-> row.client, scopes |-> row.scopes, human |-> row.human,
              expires |-> row.expires]
    /\ row.expires \in Int /\ row.expires <= now + LoginTtl
    /\ UsedSince(row.client, row.expires - LoginTtl - FetchTtl)
LoginGood(row) ==
    LoginKept(row) /\ (row.human # NoHuman /\ Live(row) => get_client(row.client))
CodeGood(row) ==
    /\ row.expires \in Int /\ row.expires <= now + CodeTtl
    /\ UsedSince(row.grant.client, row.expires - CodeTtl - LoginTtl - FetchTtl)
    /\ Live(row) => get_client(row.grant.client)
CallGood(x) ==
    /\ x.pc = "fetch" => x.at \in Int
    /\ x.pc \in {"exchange", "named", "known"} => LoginKept(x.login)
    /\ x.pc = "exchange" => x.login.human = NoHuman
    /\ x.pc \in {"named", "known"} =>
          x = [pc |-> x.pc, state |-> x.state, login |-> x.login, human |-> x.human,
               offered |-> x.offered]
    /\ x.pc = "known" /\ Live(x.login) => get_client(x.login.client)

ClientInv ==
    /\ now \in Int
    /\ \A c \in DOMAIN clients : clients[c] \in Int
    /\ \A s \in DOMAIN logins : LoginGood(logins[s])
    /\ \A c \in DOMAIN codes : CodeGood(codes[c])
    /\ \A t \in DOMAIN tokens : get_client(tokens[t].grant.client)
    /\ DOMAIN calls = Requests /\ \A r \in Requests : CallGood(calls[r])

(* README.md: after a runtime principal is removed "every refresh and new
   login is refused from that moment".  No step mints a code or a token for
   somebody who is not registered. *)
NewRows(table, before) == {table[k] : k \in DOMAIN table \ DOMAIN before}
RefusedFromDeletion ==
    [][ /\ \A row \in NewRows(codes', codes) : human_registered(row.grant.human)
        /\ \A row \in NewRows(tokens', tokens) : human_registered(row.grant.human) ]_oauthVars

==============================================================================
