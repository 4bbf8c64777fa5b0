------------------------------ MODULE Upstream ------------------------------
(***************************************************************************)
(* The upstream identity provider as the server sees it: the identity      *)
(* token of each login is verified with a cached copy of the provider's    *)
(* key set, which is fetched again when a token names a key it lacks.      *)
(*                                                                         *)
(* The provider rotates its keys whenever it likes.  Two logins may verify *)
(* at once: the cache is locked for each look and each store, never from   *)
(* one to the other.  A claim is a fact about the token.                   *)
(***************************************************************************)
EXTENDS Integers, FiniteSets

CONSTANTS
    Keys,       \* keys the provider may publish, by their kid
    NoKid,      \* a token that names no key
    Forger,     \* a signer that holds none of the keys
    Exchanges   \* logins that can verify at once

ASSUME UpstreamAssumption == NoKid \notin Keys /\ Forger \notin Keys /\ Keys # {}

VARIABLES
    published, \* the key set the provider serves
    cached,    \* Provider.keys
    exchanges, \* what each login in flight holds
    verdict    \* history: how the token fared that the last step decided on

uvars == <<published, cached, exchanges, verdict>>

Resting == [at |-> "idle"]
Undecided == [was |-> "none"]
IdToken == [kid : Keys \cup {NoKid}, signer : Keys \cup {Forger}]
(* What a token says besides its signature: everything right, or one thing
   wrong. *)
Right == [alg |-> "asymmetric", issuer |-> "ours", aud |-> {"us"}, azp |-> "none",
          nonce |-> "mine", expired |-> FALSE]
Claims ==
    {Right, [Right EXCEPT !.alg = "hmac"], [Right EXCEPT !.issuer = "other"],
     [Right EXCEPT !.aud = {"other"}], [Right EXCEPT !.aud = {"us", "other"}],
     [Right EXCEPT !.azp = "us"], [Right EXCEPT !.azp = "other"],
     [Right EXCEPT !.nonce = "other"], [Right EXCEPT !.expired = TRUE]}

UpstreamTypeOK ==
    /\ published \in SUBSET Keys \ {{}}
    /\ cached \in SUBSET Keys \ {{}}
    /\ \A e \in Exchanges : exchanges[e] = Resting \/
          /\ exchanges[e].at \in {"fetching", "fetched", "stored", "checking"}
          /\ exchanges[e].token \in IdToken
          /\ exchanges[e].set \subseteq Keys
    /\ verdict.was \in {"none", "accepted", "refused", "unknown"}

(* discover: the provider is found and its keys are read before it is used. *)
UpstreamInit ==
    /\ published \in SUBSET Keys \ {{}}
    /\ cached = published
    /\ exchanges = [e \in Exchanges |-> Resting]
    /\ verdict = Undecided

Rotate(set) ==
    /\ set # published
    /\ published' = set
    /\ verdict' = Undecided
    /\ UNCHANGED <<cached, exchanges>>

(* The key a token is checked with: the one it names, or the only one. *)
key(kid, set) ==
    IF kid = NoKid THEN {k \in set : set = {k}} ELSE set \cap {kid}

(* A key verifies its own family of algorithms, and never as a shared secret. *)
decoding_key(claims) == claims.alg = "asymmetric"

verify(token, k, claims) ==
    /\ decoding_key(claims)
    /\ token.signer = k
    /\ ~claims.expired /\ claims.issuer = "ours"
    /\ claims.aud = {"us"}
    /\ claims.azp # "other"
    /\ claims.nonce = "mine"

(* The token endpoint answers with a token; the cache is asked for its key. *)
exchange(e, token) ==
    LET found == key(token.kid, cached)
    IN  /\ exchanges[e] = Resting
        /\ exchanges' = [exchanges EXCEPT ![e] =
              [at |-> IF found # {} THEN "checking" ELSE "fetching",
               token |-> token, set |-> found, raced |-> FALSE]]
        /\ verdict' = Undecided
        /\ UNCHANGED <<published, cached>>

fetch_keys(e) ==
    /\ exchanges[e].at = "fetching"
    /\ exchanges' = [exchanges EXCEPT ![e].at = "fetched", ![e].set = published]
    /\ verdict' = Undecided
    /\ UNCHANGED <<published, cached>>

FetchFails(e) ==
    /\ exchanges[e].at = "fetching"
    /\ exchanges' = [exchanges EXCEPT ![e] = Resting]
    /\ verdict' = [was |-> "refused"]
    /\ UNCHANGED <<published, cached>>

\* Mutant of StoreKeys: the fetched set is not kept.
KeepOldKeys(e) ==
    /\ exchanges[e].at = "fetched"
    /\ exchanges' = [exchanges EXCEPT ![e].at = "stored"]
    /\ verdict' = Undecided
    /\ UNCHANGED <<published, cached>>

(* The fetched set replaces the cache, whatever another login stored since. *)
StoreKeys(e) ==
    /\ exchanges[e].at = "fetched"
    /\ cached' = exchanges[e].set
    /\ exchanges' = [f \in Exchanges |->
          IF f = e THEN [exchanges[e] EXCEPT !.at = "stored"]
          ELSE IF exchanges[f].at = "stored" THEN [exchanges[f] EXCEPT !.raced = TRUE]
          ELSE exchanges[f]]
    /\ verdict' = Undecided
    /\ UNCHANGED published

(* The second look decides. *)
LookAgain(e) ==
    LET x == exchanges[e]
        found == key(x.token.kid, cached)
    IN  /\ x.at = "stored"
        /\ exchanges' = [exchanges EXCEPT ![e] =
              IF found = {} THEN Resting ELSE [x EXCEPT !.at = "checking", !.set = found]]
        /\ verdict' = IF found # {} THEN Undecided
                      ELSE [was |-> "unknown", token |-> x.token, set |-> x.set, raced |-> x.raced]
        /\ UNCHANGED <<published, cached>>

Verified(e, claims) ==
    LET x == exchanges[e]
        good == \E k \in x.set : verify(x.token, k, claims)
    IN  /\ x.at = "checking"
        /\ exchanges' = [exchanges EXCEPT ![e] = Resting]
        /\ verdict' = IF good THEN [was |-> "accepted", token |-> x.token] ELSE [was |-> "refused"]
        /\ UNCHANGED <<published, cached>>

UpstreamNext ==
    \/ \E set \in SUBSET Keys \ {{}} : Rotate(set)
    \/ \E e \in Exchanges :
          \/ \E token \in IdToken : exchange(e, token)
          \/ fetch_keys(e) \/ FetchFails(e) \/ StoreKeys(e) \/ LookAgain(e)
          \/ \E claims \in Claims : Verified(e, claims)

UpstreamSpec == UpstreamInit /\ [][UpstreamNext]_uvars

------------------------------------------------------------------------------
(* A provider's key rotation goes unnoticed: a token is refused for an unknown
   key only when the set fetched for it does not hold that key, or when another
   login stored an older set between the store and the second look; and a token
   is accepted only with the one key it names, signed by that key. *)
RotationInvisible ==
    /\ verdict.was = "unknown" =>
          key(verdict.token.kid, verdict.set) = {} \/ verdict.raced
    /\ verdict.was = "accepted" =>
          /\ verdict.token.signer # Forger
          /\ verdict.token.kid \in {NoKid, verdict.token.signer}

(* What a login in flight may rely on: the key it checks with is one the
   token names, and after its store the cache is the set it fetched, unless
   another login stored since. *)
ExchangeInv ==
    /\ exchanges \in [Exchanges ->
          {Resting} \cup [at : {"fetching", "fetched", "stored", "checking"}, token : IdToken,
                          set : SUBSET Keys, raced : BOOLEAN]]
    /\ \A e \in Exchanges :
          /\ exchanges[e].at = "checking" =>
                \A k \in exchanges[e].set : exchanges[e].token.kid \in {NoKid, k}
          /\ exchanges[e].at = "stored" => exchanges[e].raced \/ cached = exchanges[e].set

UpstreamInv ==
    /\ published \in SUBSET Keys /\ cached \in SUBSET Keys
    /\ ExchangeInv /\ RotationInvisible

==============================================================================
