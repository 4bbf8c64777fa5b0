---------------------------- MODULE OAuthProofs -----------------------------
(* A grant has one live branch and keeps its client, for any number of      *)
(* humans, clients, logins, codes and tokens and any lifetimes.             *)
EXTENDS OAuth, TLAPS

\* Expired rows may go, and codes of a removed human.
LEMMA DropKeeps ==
    ASSUME NEW cs, NEW ts, NEW d, NEW n, NEW k, Branch(cs, ts, d, n, k), NEW C, NEW T
    PROVE  Branch(Drop(cs, C), Drop(ts, T), d, n, k)
<1> DEFINE cs2 == Drop(cs, C)
           ts2 == Drop(ts, T)
<1>1. /\ cs2 = [c \in DOMAIN cs2 |-> cs2[c]] /\ DOMAIN cs2 \subseteq DOMAIN cs
      /\ \A c \in DOMAIN cs2 : cs2[c] = cs[c]
    BY DEF Drop
<1>2. /\ ts2 = [t \in DOMAIN ts2 |-> ts2[t]] /\ DOMAIN ts2 \subseteq DOMAIN ts
      /\ \A t \in DOMAIN ts2 : ts2[t] = ts[t]
    BY DEF Drop
<1> HIDE DEF cs2, ts2
<1>3. Branch(cs2, ts2, d, n, k)
    BY <1>1, <1>2 DEF Branch, Spendable
<1> QED BY <1>3 DEF cs2, ts2

\* What the two updates of a token row change, and what they leave alone.
LEMMA SpentRow ==
    ASSUME NEW r, IsToken(r), NEW b \in BOOLEAN
    PROVE  LET q == [r EXCEPT !.spent = b] IN
           /\ IsToken(q) /\ q.spent = b /\ q.grant = r.grant /\ q.kind = r.kind
           /\ q.revoked = r.revoked
<1> DEFINE q == [r EXCEPT !.spent = b]
<1>1. q = [grant |-> r.grant, kind |-> r.kind, spent |-> b, revoked |-> r.revoked,
           expires |-> r.expires]
    BY SMT DEF IsToken
<1> HIDE DEF q
<1>2. q.spent = b /\ q.grant = r.grant /\ q.kind = r.kind /\ q.revoked = r.revoked
      /\ q.expires = r.expires
    BY <1>1
<1>3. q = [grant |-> q.grant, kind |-> q.kind, spent |-> q.spent, revoked |-> q.revoked,
           expires |-> q.expires]
    BY <1>1, <1>2, Zenon
<1>4. q.spent \in BOOLEAN /\ q.revoked \in BOOLEAN
    BY <1>2, Zenon DEF IsToken
<1>5. IsToken(q)
    BY <1>3, <1>4, Zenon DEF IsToken
<1> QED BY <1>2, <1>5, Zenon DEF q

\* The same for the revocation flag.
LEMMA RevokedRow ==
    ASSUME NEW r, IsToken(r), NEW b \in BOOLEAN
    PROVE  LET q == [r EXCEPT !.revoked = b] IN
           /\ IsToken(q) /\ q.revoked = b /\ q.grant = r.grant /\ q.kind = r.kind
           /\ q.spent = r.spent
<1> DEFINE q == [r EXCEPT !.revoked = b]
<1>1. q = [grant |-> r.grant, kind |-> r.kind, spent |-> r.spent, revoked |-> b,
           expires |-> r.expires]
    BY SMT DEF IsToken
<1> HIDE DEF q
<1>2. q.revoked = b /\ q.grant = r.grant /\ q.kind = r.kind /\ q.spent = r.spent
      /\ q.expires = r.expires
    BY <1>1
<1>3. q = [grant |-> q.grant, kind |-> q.kind, spent |-> q.spent, revoked |-> q.revoked,
           expires |-> q.expires]
    BY <1>1, <1>2, Zenon
<1>4. q.spent \in BOOLEAN /\ q.revoked \in BOOLEAN
    BY <1>2, Zenon DEF IsToken
<1>5. IsToken(q)
    BY <1>3, <1>4, Zenon DEF IsToken
<1> QED BY <1>2, <1>5, Zenon DEF q

\* A token that is spent stays what it was otherwise.
LEMMA SpendKeeps ==
    ASSUME NEW cs, NEW ts, NEW d, NEW n, NEW k, Branch(cs, ts, d, n, k), NEW t \in DOMAIN ts
    PROVE  LET ts2 == [ts EXCEPT ![t].spent = TRUE] IN
           /\ Branch(cs, ts2, d, n, k) /\ DOMAIN ts2 = DOMAIN ts /\ ~Spendable(ts2, t)
           /\ \A u \in DOMAIN ts : ts2[u].grant = ts[u].grant
           /\ \A u \in DOMAIN ts : Spendable(ts2, u) => Spendable(ts, u)
<1> DEFINE row == [ts[t] EXCEPT !.spent = TRUE]
           ts2 == [ts EXCEPT ![t] = row]
<1>1. /\ IsToken(row) /\ row.spent /\ row.grant = ts[t].grant
      /\ row.kind = ts[t].kind /\ row.revoked = ts[t].revoked
  <2>1. IsToken(ts[t])
      BY DEF Branch
  <2> QED BY <2>1, SpentRow
<1>2. [ts EXCEPT ![t].spent = TRUE] = ts2
    BY DEF row
<1> HIDE DEF row
<1>3. /\ ts2 = [u \in DOMAIN ts2 |-> ts2[u]] /\ DOMAIN ts2 = DOMAIN ts
      /\ ts2[t] = row /\ \A u \in DOMAIN ts : u # t => ts2[u] = ts[u]
    BY DEF Branch
<1> HIDE DEF ts2
<1>4. /\ \A u \in DOMAIN ts : ts2[u].grant = ts[u].grant
      /\ \A u \in DOMAIN ts : Spendable(ts2, u) => Spendable(ts, u)
      /\ ~Spendable(ts2, t)
    BY <1>1, <1>3 DEF Spendable
<1>5. \A u \in DOMAIN ts2 :
          /\ IsToken(ts2[u]) /\ ts2[u].grant.family \in 1..n
          /\ ts2[u].grant.family \in d => ts2[u].revoked
          /\ \A c \in DOMAIN cs : c = ts2[u].grant.family => cs[c].spent /\ cs[c].grant = ts2[u].grant
    BY <1>1, <1>3, <1>4 DEF Branch
<1>6. \A u, v \in DOMAIN ts2 :
          ts2[u].grant.family = ts2[v].grant.family /\ Spendable(ts2, u) /\ Spendable(ts2, v) => u = v
    BY <1>3, <1>4 DEF Branch
<1>7. Branch(cs, ts2, d, n, k)
    BY <1>3, <1>5, <1>6 DEF Branch
<1> QED BY <1>2, <1>3, <1>4, <1>7

\* The families F are revoked and the families G die with them, whose tokens
\* are revoked already or are in F; the codes C go, and the codes of F and G
\* that stay are spent.
LEMMA RevokeKeeps ==
    ASSUME NEW cs, NEW ts, NEW d, NEW n, NEW k, Branch(cs, ts, d, n, k),
           NEW F \in SUBSET (1..n), NEW G \in SUBSET (1..n), NEW C,
           \A c \in DOMAIN cs : c \in F \cup G => c \in C \/ cs[c].spent,
           \A t \in DOMAIN ts : ts[t].grant.family \in G =>
               ts[t].revoked \/ ts[t].grant.family \in F
    PROVE  Branch(Drop(cs, C), Revoked(ts, F), d \cup F \cup G, n, k)
<1> DEFINE cs2 == Drop(cs, C)
           ts2 == Revoked(ts, F)
<1>1. /\ cs2 = [c \in DOMAIN cs2 |-> cs2[c]] /\ DOMAIN cs2 \subseteq DOMAIN cs
      /\ \A c \in DOMAIN cs2 : cs2[c] = cs[c] /\ c \notin C
    BY DEF Drop
<1>2. ASSUME NEW t \in DOMAIN ts
      PROVE  /\ IsToken(ts2[t]) /\ ts2[t].grant = ts[t].grant /\ ts2[t].kind = ts[t].kind
             /\ ts2[t].spent = ts[t].spent
             /\ ts2[t].revoked = (ts[t].revoked \/ ts[t].grant.family \in F)
  <2> DEFINE b == ts[t].revoked \/ ts[t].grant.family \in F
  <2>1. ts2[t] = [ts[t] EXCEPT !.revoked = b]
      BY Zenon DEF Revoked
  <2>2. b \in BOOLEAN
      OBVIOUS
  <2> HIDE DEF b
  <2>3. IsToken(ts[t])
      BY DEF Branch
  <2> HIDE DEF ts2
  <2>4. /\ IsToken(ts2[t]) /\ ts2[t].revoked = b /\ ts2[t].grant = ts[t].grant
        /\ ts2[t].kind = ts[t].kind /\ ts2[t].spent = ts[t].spent
      BY <2>1, <2>2, <2>3, RevokedRow
  <2> QED BY <2>4, Zenon DEF b
<1>3. ts2 = [t \in DOMAIN ts2 |-> ts2[t]] /\ DOMAIN ts2 = DOMAIN ts
    BY DEF Revoked
<1> HIDE DEF cs2, ts2
<1>4. \A c \in DOMAIN cs2 :
          IsCode(cs2[c]) /\ cs2[c].grant.family = c /\ (c \in d \cup F \cup G => cs2[c].spent)
    BY <1>1 DEF Branch
<1>5. \A t \in DOMAIN ts2 :
          /\ IsToken(ts2[t]) /\ ts2[t].grant.family \in 1..n
          /\ ts2[t].grant.family \in d \cup F \cup G => ts2[t].revoked
    BY <1>2, <1>3 DEF Branch
<1>6. \A t \in DOMAIN ts2 : \A c \in DOMAIN cs2 :
          c = ts2[t].grant.family => cs2[c].spent /\ cs2[c].grant = ts2[t].grant
    BY <1>1, <1>2, <1>3 DEF Branch
<1>7. \A t \in DOMAIN ts2 : Spendable(ts2, t) => Spendable(ts, t)
    BY <1>2, <1>3 DEF Spendable
<1>8. \A t, u \in DOMAIN ts2 :
          ts2[t].grant.family = ts2[u].grant.family /\ Spendable(ts2, t) /\ Spendable(ts2, u) => t = u
    BY <1>2, <1>3, <1>7 DEF Branch
<1>9. /\ n \in Nat /\ DOMAIN cs2 \subseteq 1..n /\ k \in Nat /\ DOMAIN ts2 \subseteq 1..k
      /\ d \cup F \cup G \subseteq 1..n
    BY <1>1, <1>3 DEF Branch
<1>10. Branch(cs2, ts2, d \cup F \cup G, n, k)
    BY <1>1, <1>3, <1>4, <1>5, <1>6, <1>8, <1>9 DEF Branch
<1> QED BY <1>10 DEF cs2, ts2

\* No code goes when none is named.
LEMMA RevokeOne ==
    ASSUME NEW cs, NEW ts, NEW d, NEW n, NEW k, Branch(cs, ts, d, n, k), NEW f \in 1..n,
           \A c \in DOMAIN cs : c = f => cs[c].spent
    PROVE  Branch(cs, Revoked(ts, {f}), d \cup {f}, n, k)
<1>1. Drop(cs, {}) = cs
    BY DEF Drop, Branch
<1>2. Branch(Drop(cs, {}), Revoked(ts, {f}), d \cup {f} \cup {}, n, k)
    BY RevokeKeeps
<1>3. d \cup {f} \cup {} = d \cup {f}
    OBVIOUS
<1> QED BY <1>1, <1>2, <1>3

\* One more token, of a live family that has no refresh token left to spend.
LEMMA PutKeeps ==
    ASSUME NEW cs, NEW ts, NEW d, NEW n, NEW k, Branch(cs, ts, d, n, k),
           NEW grant, grant.family \in 1..n \ d,
           \A c \in DOMAIN cs : c = grant.family => cs[c].spent /\ cs[c].grant = grant,
           \A t \in DOMAIN ts : ts[t].grant.family = grant.family => ~Spendable(ts, t),
           NEW kind, NEW ttl
    PROVE  Branch(cs, put_token(ts, k + 1, kind, grant, ttl), d, n, k + 1)
<1> DEFINE row == [grant |-> grant, kind |-> kind, spent |-> FALSE, revoked |-> FALSE,
                   expires |-> now + ttl]
           ts2 == put_token(ts, k + 1, kind, grant, ttl)
<1>1. IsToken(row) /\ row.grant = grant
    BY DEF IsToken
<1>2. k \in Nat /\ k + 1 \notin DOMAIN ts
    BY DEF Branch
<1>3. /\ ts2 = [t \in DOMAIN ts2 |-> ts2[t]] /\ DOMAIN ts2 = DOMAIN ts \cup {k + 1}
      /\ ts2[k + 1] = row /\ \A t \in DOMAIN ts : ts2[t] = ts[t]
    BY <1>2 DEF put_token, Row
<1> HIDE DEF ts2, row
<1>4. k + 1 \in Nat /\ DOMAIN ts2 \subseteq 1..(k + 1)
    BY <1>2, <1>3 DEF Branch
<1>5. ASSUME NEW t \in DOMAIN ts2
      PROVE  /\ IsToken(ts2[t]) /\ ts2[t].grant.family \in 1..n
             /\ ts2[t].grant.family \in d => ts2[t].revoked
             /\ \A c \in DOMAIN cs : c = ts2[t].grant.family => cs[c].spent /\ cs[c].grant = ts2[t].grant
    BY <1>1, <1>3 DEF Branch
<1>6. \A t, u \in DOMAIN ts2 :
          ts2[t].grant.family = ts2[u].grant.family /\ Spendable(ts2, t) /\ Spendable(ts2, u) => t = u
    BY <1>1, <1>3 DEF Branch, Spendable
<1>7. Branch(cs, ts2, d, n, k + 1)
    BY <1>3, <1>4, <1>5, <1>6 DEF Branch
<1> QED BY <1>7 DEF ts2

\* More tokens may have been minted than the table knows.
LEMMA CountKeeps ==
    ASSUME NEW cs, NEW ts, NEW d, NEW n, NEW k, Branch(cs, ts, d, n, k)
    PROVE  Branch(cs, ts, d, n, k + 1)
<1>1. k + 1 \in Nat /\ DOMAIN ts \subseteq 1..(k + 1)
    BY DEF Branch
<1> QED BY <1>1 DEF Branch

\* A code that is presented for the first time has no token and is not dead.
LEMMA CodeKeeps ==
    ASSUME NEW cs, NEW ts, NEW d, NEW n, NEW k, Branch(cs, ts, d, n, k),
           NEW c \in DOMAIN cs, ~cs[c].spent
    PROVE  LET cs2 == [cs EXCEPT ![c].spent = TRUE] IN
           /\ Branch(cs2, ts, d, n, k) /\ c \in 1..n \ d
           /\ \A e \in DOMAIN cs2 : e = c => cs2[e].spent /\ cs2[e].grant = cs[c].grant
           /\ \A t \in DOMAIN ts : ts[t].grant.family # c
<1> DEFINE row == [cs[c] EXCEPT !.spent = TRUE]
           cs2 == [cs EXCEPT ![c] = row]
<1>1. IsCode(row) /\ row.spent /\ row.grant = cs[c].grant
  <2> DEFINE b == TRUE
  <2> HIDE DEF b
  <2>1. b \in BOOLEAN
      BY DEF b
  <2>2. IsCode(cs[c])
      BY DEF Branch
  <2> DEFINE q == [cs[c] EXCEPT !.spent = b]
  <2>3. q = [grant |-> cs[c].grant, spent |-> b, expires |-> cs[c].expires]
      BY <2>1, <2>2, SMT DEF IsCode
  <2>4. row = q
      BY Zenon DEF b
  <2> HIDE DEF q, row
  <2>5. q.grant = cs[c].grant /\ q.spent = b /\ q.expires = cs[c].expires
      BY <2>3
  <2>6. IsCode(q)
      BY <2>3, <2>5, Zenon DEF IsCode
  <2> QED BY <2>4, <2>5, <2>6, Zenon DEF b
<1>2. [cs EXCEPT ![c].spent = TRUE] = cs2
    BY DEF row
<1> HIDE DEF row
<1>3. /\ cs2 = [e \in DOMAIN cs2 |-> cs2[e]] /\ DOMAIN cs2 = DOMAIN cs
      /\ cs2[c] = row /\ \A e \in DOMAIN cs : e # c => cs2[e] = cs[e]
    BY DEF Branch
<1> HIDE DEF cs2
<1>4. c \in 1..n \ d /\ \A t \in DOMAIN ts : ts[t].grant.family # c
    BY DEF Branch
<1>5. \A e \in DOMAIN cs2 :
          IsCode(cs2[e]) /\ cs2[e].grant.family = e /\ (e \in d => cs2[e].spent)
    BY <1>1, <1>3, <1>4 DEF Branch
<1>6. \A t \in DOMAIN ts : \A e \in DOMAIN cs2 :
          e = ts[t].grant.family => cs2[e].spent /\ cs2[e].grant = ts[t].grant
    BY <1>3, <1>4 DEF Branch
<1>7. Branch(cs2, ts, d, n, k)
    BY <1>3, <1>5, <1>6 DEF Branch
<1> QED BY <1>1, <1>2, <1>3, <1>4, <1>7

\* A new code is the first row of its family.
LEMMA MintKeeps ==
    ASSUME NEW cs, NEW ts, NEW d, NEW n, NEW k, Branch(cs, ts, d, n, k),
           NEW grant, grant.family = n + 1, NEW e
    PROVE  Branch(Row(cs, n + 1, [grant |-> grant, spent |-> FALSE, expires |-> e]), ts, d, n + 1, k)
<1> DEFINE row == [grant |-> grant, spent |-> FALSE, expires |-> e]
           cs2 == Row(cs, n + 1, row)
<1>1. IsCode(row) /\ row.grant = grant
    BY DEF IsCode
<1>2. n \in Nat /\ n + 1 \in Nat /\ n + 1 \notin DOMAIN cs /\ n + 1 \notin 1..n
    BY DEF Branch
<1>3. /\ cs2 = [c \in DOMAIN cs2 |-> cs2[c]] /\ DOMAIN cs2 = DOMAIN cs \cup {n + 1}
      /\ cs2[n + 1] = row /\ \A c \in DOMAIN cs : cs2[c] = cs[c]
    BY <1>2 DEF Row
<1> HIDE DEF cs2, row
<1>4. /\ DOMAIN cs2 \subseteq 1..(n + 1) /\ d \subseteq 1..(n + 1) /\ n + 1 \notin d
      /\ 1..n \subseteq 1..(n + 1)
    BY <1>2, <1>3 DEF Branch
<1>5. \A c \in DOMAIN cs2 :
          IsCode(cs2[c]) /\ cs2[c].grant.family = c /\ (c \in d => cs2[c].spent)
    BY <1>1, <1>3, <1>4 DEF Branch
<1>6. \A t \in DOMAIN ts :
          /\ ts[t].grant.family \in 1..n
          /\ \A c \in DOMAIN cs2 : c = ts[t].grant.family => cs2[c].spent /\ cs2[c].grant = ts[t].grant
    BY <1>2, <1>3 DEF Branch
<1>7. Branch(cs2, ts, d, n + 1, k)
    BY <1>2, <1>3, <1>4, <1>5, <1>6 DEF Branch
<1> QED BY <1>7 DEF cs2, row

\* The pair of inserts: the access token does not count, so the refresh token
\* is the only one of the family; and the pair may stop half way.
LEMMA IssueKeeps ==
    ASSUME NEW cs, NEW ts, Branch(cs, ts, dead, minted.code, minted.token),
           NEW grant, grant.family \in 1..minted.code \ dead,
           \A c \in DOMAIN cs : c = grant.family => cs[c].spent /\ cs[c].grant = grant,
           \A t \in DOMAIN ts : ts[t].grant.family = grant.family => ~Spendable(ts, t),
           minted = [login |-> minted.login, code |-> minted.code, token |-> minted.token],
           NEW fails, issue(ts, grant, fails)
    PROVE  /\ minted' = [login |-> minted'.login, code |-> minted'.code, token |-> minted'.token]
           /\ Branch(cs, tokens', dead, minted'.code, minted'.token)
<1> DEFINE k == minted.token
           access == put_token(ts, k + 1, "access", grant, AccessTtl)
<1>1. k \in Nat /\ k + 1 \notin DOMAIN ts
    BY DEF Branch
<1>2. /\ minted'.code = minted.code /\ minted'.token = k + 1 + 1
      /\ minted' = [login |-> minted'.login, code |-> minted'.code, token |-> minted'.token]
    BY <1>1 DEF issue
<1>3. tokens' = IF fails THEN access
                ELSE put_token(access, k + 1 + 1, "refresh", grant, RefreshTtl)
  <2>1. k + 2 = k + 1 + 1
      BY <1>1
  <2> QED BY <2>1, Zenon DEF issue
<1>4. Branch(cs, access, dead, minted.code, k + 1)
    BY PutKeeps
<1>5. \A t \in DOMAIN access :
          access[t].grant.family = grant.family => ~Spendable(access, t)
  <2>1. /\ DOMAIN access = DOMAIN ts \cup {k + 1} /\ access[k + 1].kind = "access"
        /\ \A t \in DOMAIN ts : access[t] = ts[t]
      BY <1>1 DEF put_token, Row
  <2> HIDE DEF access
  <2> QED BY <2>1 DEF Spendable
<1> HIDE DEF access
<1>6. CASE fails
  <2>1. Branch(cs, access, dead, minted.code, k + 1 + 1)
      BY <1>4, CountKeeps
  <2> QED BY <1>2, <1>3, <1>6, <2>1
<1>7. CASE ~fails
  <2> DEFINE both == put_token(access, k + 1 + 1, "refresh", grant, RefreshTtl)
  <2>1. Branch(cs, both, dead, minted.code, k + 1 + 1)
      BY <1>4, <1>5, PutKeeps
  <2>2. tokens' = both
      BY <1>3, <1>7
  <2> HIDE DEF both
  <2> QED BY <1>2, <2>1, <2>2
<1> QED BY <1>6, <1>7

------------------------------------------------------------------------------
(* The steps. *)

Same == UNCHANGED <<codes, tokens, dead, minted>>

\* Steps that leave codes, tokens, revoked families and counters alone.
LEMMA SameKeeps ==
    ASSUME BranchInv, Same
    PROVE  BranchInv'
BY DEF BranchInv, Branch, Spendable, Same

\* Logins are counted beside the codes and the tokens.
LEMMA LoginsKeep ==
    ASSUME BranchInv, UNCHANGED <<codes, tokens, dead>>, minted' = [minted EXCEPT !.login = @ + 1]
    PROVE  BranchInv'
<1>1. minted'.code = minted.code /\ minted'.token = minted.token
      /\ minted' = [login |-> minted'.login, code |-> minted'.code, token |-> minted'.token]
    BY DEF BranchInv
<1> QED BY <1>1 DEF BranchInv, Branch, Spendable

\* Steps that mint nothing.
LEMMA BranchStep ==
    ASSUME BranchInv, minted' = minted,
           Branch(codes', tokens', dead', minted.code, minted.token)
    PROVE  BranchInv'
BY DEF BranchInv, Branch, Spendable

\* approve mints a code of a new family.
LEMMA ApproveStep ==
    ASSUME BranchInv, NEW s, NEW ticked, approve(s, ticked)
    PROVE  BranchInv'
<1> DEFINE n == minted.code
           grant == [client |-> logins[s].client, human |-> logins[s].human,
                     scopes |-> ticked, family |-> n + 1]
<1>1. Branch(codes, tokens, dead, n, minted.token)
    BY DEF BranchInv
<1>2. n \in Nat
    BY <1>1 DEF Branch
<1>3. /\ minted'.code = n + 1 /\ minted'.token = minted.token
      /\ minted' = [login |-> minted'.login, code |-> minted'.code, token |-> minted'.token]
    BY <1>2 DEF approve, BranchInv
<1>4. grant.family = n + 1
    OBVIOUS
<1>5. codes' = Row(codes, n + 1, [grant |-> grant, spent |-> FALSE, expires |-> now + CodeTtl])
    BY Zenon DEF approve, put_code
<1> HIDE DEF grant
<1>6. Branch(codes', tokens, dead, n + 1, minted.token)
    BY <1>1, <1>4, <1>5, MintKeeps
<1>7. tokens' = tokens /\ dead' = dead
    BY DEF approve
<1> QED BY <1>3, <1>6, <1>7 DEF BranchInv, Branch, Spendable

\* grant_authorization_code spends the code, then issues or refuses.
LEMMA CodeStep ==
    ASSUME BranchInv, NEW c \in DOMAIN codes, NEW by, NEW proof, NEW fails,
           grant_authorization_code(c, by, proof, fails)
    PROVE  BranchInv'
<1> DEFINE cs2 == [codes EXCEPT ![c].spent = TRUE]
           honoured == proof /\ by = codes[c].grant.client
<1>1. Branch(codes, tokens, dead, minted.code, minted.token)
    BY DEF BranchInv
<1>2. ~codes[c].spent
    BY DEF grant_authorization_code, CodeOutcome
<1>3. /\ Branch(cs2, tokens, dead, minted.code, minted.token) /\ c \in 1..minted.code \ dead
      /\ \A e \in DOMAIN cs2 : e = c => cs2[e].spent /\ cs2[e].grant = codes[c].grant
      /\ \A t \in DOMAIN tokens : tokens[t].grant.family # c
    BY <1>1, <1>2, CodeKeeps
<1>4. codes[c].grant.family = c
    BY <1>1 DEF Branch
<1>5. codes' = cs2 /\ dead' = dead
    BY DEF grant_authorization_code
<1> HIDE DEF cs2
<1>6. CASE honoured
  <2>1. issue(tokens, codes[c].grant, fails)
      BY <1>6, Zenon DEF grant_authorization_code
  <2>2. minted = [login |-> minted.login, code |-> minted.code, token |-> minted.token]
      BY DEF BranchInv
  <2>3. /\ minted' = [login |-> minted'.login, code |-> minted'.code, token |-> minted'.token]
        /\ Branch(cs2, tokens', dead, minted'.code, minted'.token)
      BY <1>3, <1>4, <2>1, <2>2, IssueKeeps
  <2> QED BY <1>5, <2>3 DEF BranchInv, Branch, Spendable
<1>7. CASE ~honoured
  <2>1. tokens' = tokens /\ minted' = minted
      BY <1>7, Zenon DEF grant_authorization_code
  <2> QED BY <1>3, <1>5, <2>1, BranchStep
<1> QED BY <1>6, <1>7

\* The family of a token is minted, and its code is spent.
LEMMA FamilyOf ==
    ASSUME BranchInv, NEW t \in DOMAIN tokens
    PROVE  /\ tokens[t].grant.family \in 1..minted.code
           /\ \A c \in DOMAIN codes : c = tokens[t].grant.family =>
                 codes[c].spent /\ codes[c].grant = tokens[t].grant
BY DEF BranchInv, Branch

\* A replay or the revocation endpoint ends a family whose code is spent.
LEMMA ReplayStep ==
    ASSUME BranchInv, NEW f \in 1..minted.code, \A c \in DOMAIN codes : c = f => codes[c].spent,
           revoke_family(f), UNCHANGED <<codes, minted>>
    PROVE  BranchInv'
<1>1. Branch(codes, Revoked(tokens, {f}), dead \cup {f}, minted.code, minted.token)
    BY RevokeOne DEF BranchInv
<1>2. tokens' = Revoked(tokens, {f}) /\ dead' = dead \cup {f} /\ codes' = codes /\ minted' = minted
    BY DEF revoke_family
<1> QED BY <1>1, <1>2, BranchStep

\* grant_refresh spends the token, then issues its successor or, for a foreign
\* client, revokes the family.
LEMMA RefreshStep ==
    ASSUME BranchInv, NEW t \in DOMAIN tokens, NEW by, NEW fails, grant_refresh(t, by, fails)
    PROVE  BranchInv'
<1> DEFINE ts2 == [tokens EXCEPT ![t].spent = TRUE]
           grant == tokens[t].grant
<1>1. Branch(codes, tokens, dead, minted.code, minted.token)
    BY DEF BranchInv
<1>2. Spendable(tokens, t)
    BY DEF grant_refresh, RefreshOutcome, Spendable
<1>3. /\ Branch(codes, ts2, dead, minted.code, minted.token) /\ DOMAIN ts2 = DOMAIN tokens
      /\ ~Spendable(ts2, t) /\ \A u \in DOMAIN tokens : ts2[u].grant = tokens[u].grant
      /\ \A u \in DOMAIN tokens : Spendable(ts2, u) => Spendable(tokens, u)
    BY <1>1, SpendKeeps
<1>4. /\ grant.family \in 1..minted.code
      /\ \A c \in DOMAIN codes : c = grant.family => codes[c].spent /\ codes[c].grant = grant
    BY FamilyOf
<1>5. grant.family \notin dead
    BY <1>1, <1>2 DEF Branch, Spendable
<1>6. codes' = codes
    BY DEF grant_refresh
<1>7. \/ issue(ts2, grant, fails) /\ dead' = dead
      \/ /\ tokens' = Revoked(ts2, {grant.family})
         /\ dead' = dead \cup {grant.family} /\ minted' = minted
    BY Zenon DEF grant_refresh
<1>8. \A u \in DOMAIN ts2 : ts2[u].grant.family = grant.family => ~Spendable(ts2, u)
  <2> HIDE DEF ts2
  <2> QED BY <1>1, <1>2, <1>3 DEF Branch
<1> HIDE DEF ts2, grant
<1>9. CASE issue(ts2, grant, fails) /\ dead' = dead
  <2>1. minted = [login |-> minted.login, code |-> minted.code, token |-> minted.token]
      BY DEF BranchInv
  <2>2. /\ minted' = [login |-> minted'.login, code |-> minted'.code, token |-> minted'.token]
        /\ Branch(codes, tokens', dead, minted'.code, minted'.token)
      BY <1>3, <1>4, <1>5, <1>8, <1>9, <2>1, IssueKeeps
  <2> QED BY <1>6, <1>9, <2>2 DEF BranchInv, Branch, Spendable
<1>10. CASE /\ tokens' = Revoked(ts2, {grant.family})
            /\ dead' = dead \cup {grant.family} /\ minted' = minted
  <2>1. Branch(codes, Revoked(ts2, {grant.family}), dead \cup {grant.family},
               minted.code, minted.token)
      BY <1>3, <1>4, RevokeOne
  <2> QED BY <1>6, <1>10, <2>1, BranchStep
<1> QED BY <1>7, <1>9, <1>10

\* sweep drops expired rows only.
LEMMA SweepStep ==
    ASSUME BranchInv, maintain
    PROVE  BranchInv'
<1>1. /\ codes' = Drop(codes, Expired(codes)) /\ tokens' = Drop(tokens, Expired(tokens))
      /\ dead' = dead /\ minted' = minted
    BY DEF maintain, sweep
<1>2. Branch(codes', tokens', dead, minted.code, minted.token)
    BY <1>1, DropKeeps DEF BranchInv
<1> QED BY <1>1, <1>2, BranchStep

\* A pending code's tokens carry its human: those still good are of the
\* revoked families.
LEMMA RemovalStep ==
    ASSUME BranchInv, RemovalRevokes
    PROVE  BranchInv'
<1> DEFINE h == removing.human
           named == {t \in DOMAIN tokens : tokens[t].grant.human = h /\ ~tokens[t].revoked}
           F == {tokens[t].grant.family : t \in named}
           C == {c \in DOMAIN codes : codes[c].grant.human = h}
<1>1. Branch(codes, tokens, dead, minted.code, minted.token)
    BY DEF BranchInv
<1>2. /\ tokens' = Revoked(tokens, F) /\ codes' = Drop(codes, C)
      /\ dead' = dead \cup F \cup C /\ minted' = minted
    BY Zenon DEF RemovalRevokes, revoke_principal
<1>3. F \subseteq 1..minted.code /\ C \subseteq 1..minted.code
    BY <1>1 DEF Branch
<1>4. \A c \in DOMAIN codes : c \in F \cup C => c \in C \/ codes[c].spent
    BY FamilyOf
<1>5. \A t \in DOMAIN tokens : tokens[t].grant.family \in C =>
          tokens[t].revoked \/ tokens[t].grant.family \in F
    BY FamilyOf
<1> HIDE DEF F, C
<1>6. Branch(Drop(codes, C), Revoked(tokens, F), dead \cup F \cup C, minted.code, minted.token)
    BY <1>1, <1>3, <1>4, <1>5, RevokeKeeps
<1> QED BY <1>2, <1>6, BranchStep

------------------------------------------------------------------------------

\* The tables start empty.
LEMMA InitBranch ==
    ASSUME OAuthInit
    PROVE  BranchInv
BY DEF OAuthInit, BranchInv, Branch, Spendable

\* Every step of the server keeps the invariant.
LEMMA NextBranch ==
    ASSUME BranchInv, [OAuthNext]_oauthVars
    PROVE  BranchInv'
<1>1. CASE Tick /\ UNCHANGED <<pvars, ovars>>
    BY <1>1, SameKeeps DEF Same, ovars
<1>2. ASSUME NEW c \in Dcr, NEW m \in Metadata, register(c, m) PROVE BranchInv'
    BY <1>2, SameKeeps DEF Same, register
<1>3. ASSUME NEW r \in Requests, LoginStep(r) PROVE BranchInv'
  <2>1. CASE LoginStarts(r)
      BY <2>1, LoginsKeep DEF LoginStarts
  <2>2. CASE DiscoveryFails(r) \/ restored(r) \/ consent_page(r) \/ finish_login(r)
      BY <2>2, SameKeeps DEF Same, DiscoveryFails, restored, consent_page, finish_login
  <2>3. ASSUME NEW c \in Clients, NEW s \in SUBSET Scopes, start_login(r, c, s) PROVE BranchInv'
      BY <2>3, SameKeeps DEF Same, start_login
  <2>4. ASSUME NEW m \in Metadata, NEW listed \in BOOLEAN, client_of(r, m, listed) PROVE BranchInv'
      BY <2>4, SameKeeps DEF Same, client_of
  <2>5. ASSUME NEW s \in DOMAIN logins, callback(r, s) PROVE BranchInv'
      BY <2>5, SameKeeps DEF Same, callback
  <2>6. ASSUME NEW h \in Humans, principal_of(r, h) PROVE BranchInv'
      BY <2>6, SameKeeps DEF Same, principal_of
  <2> QED BY <1>3, <2>1, <2>2, <2>3, <2>4, <2>5, <2>6 DEF LoginStep
<1>4. CASE CredentialStep
  <2>1. ASSUME NEW s \in DOMAIN logins, deny(s) PROVE BranchInv'
      BY <2>1, SameKeeps DEF Same, deny
  <2>2. ASSUME NEW s \in DOMAIN logins, NEW ticked \in SUBSET Scopes, approve(s, ticked)
        PROVE  BranchInv'
      BY <2>2, ApproveStep
  <2>3. ASSUME NEW c \in DOMAIN codes, NEW by \in Clients, NEW proof \in BOOLEAN,
               NEW fails \in BOOLEAN, grant_authorization_code(c, by, proof, fails)
        PROVE  BranchInv'
      BY <2>3, CodeStep
  <2>4. ASSUME NEW c \in DOMAIN codes, ReplayCode(c) PROVE BranchInv'
    <3>1. /\ c \in 1..minted.code /\ codes[c].grant.family = c /\ codes[c].spent
          /\ \A e \in DOMAIN codes : e = codes[c].grant.family => codes[e].spent
        BY <2>4 DEF ReplayCode, CodeOutcome, BranchInv, Branch
    <3> QED BY <2>4, <3>1, ReplayStep DEF ReplayCode
  <2>5. ASSUME NEW t \in DOMAIN tokens, NEW by \in Clients, NEW fails \in BOOLEAN,
               grant_refresh(t, by, fails)
        PROVE  BranchInv'
      BY <2>5, RefreshStep
  <2>6. ASSUME NEW t \in DOMAIN tokens, ReplayRefresh(t) PROVE BranchInv'
      BY <2>6, FamilyOf, ReplayStep DEF ReplayRefresh
  <2>7. ASSUME NEW t \in DOMAIN tokens, revoke_token(t) PROVE BranchInv'
    <3>1. PICK f \in family_of(t) : revoke_family(f)
        BY <2>7 DEF revoke_token
    <3>2. f = tokens[t].grant.family
        BY DEF family_of
    <3> QED BY <2>7, <3>1, <3>2, FamilyOf, ReplayStep DEF revoke_token
  <2> QED BY <1>4, <2>1, <2>2, <2>3, <2>4, <2>5, <2>6, <2>7 DEF CredentialStep, consent, token
<1>5. CASE maintain
    BY <1>5, SweepStep
<1>6. CASE Restart
    BY <1>6, SameKeeps DEF Same, Restart
<1>7. CASE AdminStep /\ UNCHANGED <<now, ovars>>
    BY <1>7, SameKeeps DEF Same, ovars
<1>8. CASE (\E h \in Humans : RemoveStart(h)) /\ UNCHANGED <<now, ovars>>
    BY <1>8, SameKeeps DEF Same, ovars
<1>9. CASE RemovalRevokes
    BY <1>9, RemovalStep
<1>10. CASE (RemoveEnd \/ RemoveFails) /\ UNCHANGED <<now, ovars>>
    BY <1>10, SameKeeps DEF Same, ovars
<1>11. CASE UNCHANGED oauthVars
    BY <1>11, SameKeeps DEF Same, oauthVars, ovars
<1> QED BY <1>1, <1>2, <1>3, <1>4, <1>5, <1>6, <1>7, <1>8, <1>9, <1>10, <1>11 DEF OAuthNext

\* The invariant is at least the property.
LEMMA BranchShows ==
    ASSUME BranchInv
    PROVE  OneLiveBranch
BY DEF BranchInv, Branch, Spendable, OneLiveBranch, Usable

(* Of every grant the authorization server makes, at most one refresh token
   can still be spent, and a family revoked by a replay, a foreign client,
   the revocation endpoint or the removal of its human stays revoked. *)
THEOREM OneBranchLives == OAuthSpec => []OneLiveBranch
<1>1. OAuthInit => BranchInv
    BY InitBranch
<1>2. BranchInv /\ [OAuthNext]_oauthVars => BranchInv'
    BY NextBranch
<1>3. BranchInv => OneLiveBranch
    BY BranchShows
<1> QED BY <1>1, <1>2, <1>3, PTL DEF OAuthSpec

------------------------------------------------------------------------------
(* The clients *)

\* What a step may do to the clients: a row is used again, now or as long ago
\* as a fetch may take, and one goes only after MaxIdle and without tokens.
ClientsKept ==
    /\ now' \in Int /\ now' >= now
    /\ \A c \in DOMAIN clients' :
          /\ clients'[c] \in Int
          /\ \/ c \in DOMAIN clients /\ clients'[c] >= clients[c]
             \/ clients'[c] >= now - FetchTtl
    /\ \A c \in DOMAIN clients \ DOMAIN clients' :
          /\ clients[c] <= now - MaxIdle
          /\ \A t \in DOMAIN tokens : tokens[t].grant.client # c

\* A login that was good stays good: it expires before its client can go.
LEMMA LoginStays ==
    ASSUME ClientInv, ClientsKept, NEW row
    PROVE  /\ LoginKept(row) => LoginKept(row)'
           /\ LoginKept(row) /\ (Live(row) => get_client(row.client)) =>
                 (Live(row)' => get_client(row.client)')
           /\ LoginGood(row) => LoginGood(row)'
<1> SUFFICES ASSUME LoginKept(row)
             PROVE  /\ LoginKept(row)'
                    /\ (Live(row) => get_client(row.client)) => (Live(row)' => get_client(row.client)')
                    /\ LoginGood(row) => LoginGood(row)'
    BY DEF LoginGood
<1> DEFINE c == row.client
           e == row.expires
<1>1. /\ e \in Int /\ e <= now + LoginTtl /\ now \in Int /\ now' \in Int /\ now' >= now
      /\ FetchTtl \in Nat /\ LoginTtl \in Nat /\ CodeTtl \in Nat /\ MaxIdle \in Nat
      /\ MaxIdle >= FetchTtl + LoginTtl + CodeTtl
      /\ c \in DOMAIN clients => clients[c] \in Int /\ clients[c] >= e - LoginTtl - FetchTtl
    BY OAuthAssumption DEF LoginKept, ClientInv, ClientsKept, UsedSince, get_client
<1>2. c \in DOMAIN clients' => clients'[c] \in Int /\ clients'[c] >= e - LoginTtl - FetchTtl
    BY <1>1 DEF ClientsKept
<1>3. c \in DOMAIN clients /\ e > now => c \in DOMAIN clients'
    BY <1>1 DEF ClientsKept
<1>4. LoginKept(row)'
    BY <1>1, <1>2 DEF LoginKept, UsedSince, get_client
<1>5. (Live(row) => get_client(row.client)) => (Live(row)' => get_client(row.client)')
    BY <1>1, <1>3 DEF Live, get_client
<1> QED BY <1>4, <1>5 DEF LoginGood

\* The same for a code, and for the row of it that is spent.
LEMMA CodeStays ==
    ASSUME ClientInv, ClientsKept, NEW row, CodeGood(row), NEW q,
           q.expires = row.expires, q.grant = row.grant
    PROVE  CodeGood(q)'
<1> DEFINE c == row.grant.client
           e == row.expires
<1>1. /\ e \in Int /\ e <= now + CodeTtl /\ now \in Int /\ now' \in Int /\ now' >= now
      /\ FetchTtl \in Nat /\ LoginTtl \in Nat /\ CodeTtl \in Nat /\ MaxIdle \in Nat
      /\ MaxIdle >= FetchTtl + LoginTtl + CodeTtl
      /\ c \in DOMAIN clients => clients[c] \in Int /\ clients[c] >= e - CodeTtl - LoginTtl - FetchTtl
      /\ e > now => c \in DOMAIN clients
    BY OAuthAssumption DEF CodeGood, ClientInv, ClientsKept, UsedSince, get_client, Live
<1>2. c \in DOMAIN clients' => clients'[c] \in Int /\ clients'[c] >= e - CodeTtl - LoginTtl - FetchTtl
    BY <1>1 DEF ClientsKept
<1>3. c \in DOMAIN clients /\ e > now => c \in DOMAIN clients'
    BY <1>1 DEF ClientsKept
<1> QED BY <1>1, <1>2, <1>3 DEF CodeGood, UsedSince, get_client, Live

\* What a request holds stays good while others take their steps.
LEMMA CallStays ==
    ASSUME ClientInv, ClientsKept, NEW x, CallGood(x)
    PROVE  CallGood(x)'
<1>1. x.pc = "fetch" => x.at \in Int
    BY DEF CallGood
<1>2. x.pc \in {"exchange", "named", "known"} => LoginKept(x.login)'
    BY LoginStays DEF CallGood
<1>3. x.pc = "known" => (Live(x.login)' => get_client(x.login.client)')
    BY LoginStays DEF CallGood
<1> QED BY <1>1, <1>2, <1>3 DEF CallGood

\* So a step is judged by the rows it changes.
LEMMA ClientStep ==
    ASSUME ClientInv, ClientsKept,
           \A s \in DOMAIN logins' :
               (s \in DOMAIN logins /\ logins'[s] = logins[s]) \/ LoginGood(logins[s])',
           \A c \in DOMAIN codes' :
               \/ c \in DOMAIN codes /\ codes'[c].expires = codes[c].expires
                                     /\ codes'[c].grant = codes[c].grant
               \/ CodeGood(codes[c])',
           \A t \in DOMAIN tokens' :
               \/ t \in DOMAIN tokens /\ tokens'[t].grant = tokens[t].grant
               \/ get_client(tokens[t].grant.client)',
           DOMAIN calls' = Requests,
           \A r \in Requests : calls'[r] = calls[r] \/ CallGood(calls[r])'
    PROVE  ClientInv'
<1>1. ASSUME NEW s \in DOMAIN logins' PROVE LoginGood(logins[s])'
  <2>1. CASE s \in DOMAIN logins /\ logins'[s] = logins[s]
    <3>1. LoginGood(logins[s])
        BY <2>1 DEF ClientInv
    <3>2. \A row : LoginGood(row) => LoginGood(row)'
        BY LoginStays
    <3> QED BY <2>1, <3>1, <3>2 DEF LoginGood, LoginKept, Live, get_client, UsedSince
  <2> QED BY <2>1
<1>2. ASSUME NEW c \in DOMAIN codes' PROVE CodeGood(codes[c])'
  <2>1. CASE /\ c \in DOMAIN codes /\ codes'[c].expires = codes[c].expires
             /\ codes'[c].grant = codes[c].grant
    <3>1. CodeGood(codes[c])
        BY <2>1 DEF ClientInv
    <3>2. \A q : q.expires = codes[c].expires /\ q.grant = codes[c].grant => CodeGood(q)'
        BY <3>1, CodeStays
    <3> QED BY <2>1, <3>2 DEF CodeGood, Live, get_client, UsedSince
  <2> QED BY <2>1
<1>3. ASSUME NEW t \in DOMAIN tokens' PROVE get_client(tokens[t].grant.client)'
    BY DEF ClientInv, ClientsKept, get_client
<1>4. ASSUME NEW r \in Requests PROVE CallGood(calls[r])'
  <2>1. CASE calls'[r] = calls[r]
    <3>1. CallGood(calls[r])
        BY DEF ClientInv
    <3>2. \A x : CallGood(x) => CallGood(x)'
        BY CallStays
    <3> QED BY <2>1, <3>1, <3>2 DEF CallGood, LoginKept, Live, get_client, UsedSince
  <2> QED BY <2>1
<1>5. now' \in Int /\ \A c \in DOMAIN clients' : clients'[c] \in Int
    BY DEF ClientsKept
<1> QED BY <1>1, <1>2, <1>3, <1>4, <1>5 DEF ClientInv

\* No client changes.
LEMMA ClientsRest ==
    ASSUME ClientInv, UNCHANGED clients, now' \in Int, now' >= now
    PROVE  ClientsKept
    BY DEF ClientInv, ClientsKept

\* One client is registered or used again, none goes.
LEMMA ClientsUsed ==
    ASSUME ClientInv, UNCHANGED now, NEW c, NEW at \in Int, at >= now - FetchTtl,
           clients' = Row(clients, c, at)
    PROVE  ClientsKept
    BY DEF ClientInv, ClientsKept, Row

\* The last use is recorded, if the client is there.
LEMMA ClientsTouched ==
    ASSUME ClientInv, UNCHANGED now, NEW c, clients' = touched(c)
    PROVE  ClientsKept
<1>1. now \in Int /\ FetchTtl \in Nat
    BY OAuthAssumption DEF ClientInv
<1>2. CASE clients' = clients
    BY <1>1, <1>2, ClientsRest
<1>3. CASE clients' = Row(clients, c, now)
    BY <1>1, <1>3, ClientsUsed
<1> QED BY <1>2, <1>3 DEF touched

\* Revocation leaves the grants of the tokens alone.
LEMMA RevokedGrants ==
    ASSUME NEW ts, \A t \in DOMAIN ts : IsToken(ts[t]), NEW F
    PROVE  /\ DOMAIN Revoked(ts, F) = DOMAIN ts
           /\ \A t \in DOMAIN ts : Revoked(ts, F)[t].grant = ts[t].grant
<1>1. DOMAIN Revoked(ts, F) = DOMAIN ts
    BY DEF Revoked
<1>2. ASSUME NEW t \in DOMAIN ts PROVE Revoked(ts, F)[t].grant = ts[t].grant
  <2> DEFINE b == ts[t].revoked \/ ts[t].grant.family \in F
  <2>1. Revoked(ts, F)[t] = [ts[t] EXCEPT !.revoked = b]
      BY Zenon DEF Revoked
  <2>2. b \in BOOLEAN
      OBVIOUS
  <2> HIDE DEF b
  <2>3. IsToken(ts[t])
      OBVIOUS
  <2> QED BY <2>1, <2>2, <2>3, RevokedRow
<1> QED BY <1>1, <1>2

\* New tokens carry the grant they are issued for.
LEMMA IssuedGrants ==
    ASSUME NEW ts, NEW grant, NEW fails, issue(ts, grant, fails)
    PROVE  \A t \in DOMAIN tokens' :
               (t \in DOMAIN ts /\ tokens'[t] = ts[t]) \/ tokens'[t].grant = grant
<1> DEFINE a == put_token(ts, minted.token + 1, "access", grant, AccessTtl)
           b == put_token(a, minted.token + 2, "refresh", grant, RefreshTtl)
<1>1. tokens' = a \/ tokens' = b
    BY Zenon DEF issue
<1>2. \A t \in DOMAIN a : (t \in DOMAIN ts /\ a[t] = ts[t]) \/ a[t].grant = grant
    BY DEF put_token, Row
<1> HIDE DEF a
<1>3. \A t \in DOMAIN b : (t \in DOMAIN a /\ b[t] = a[t]) \/ b[t].grant = grant
    BY DEF put_token, Row
<1> HIDE DEF b
<1> QED BY <1>1, <1>2, <1>3

\* Steps that change none of the tables: time, administration, stuttering.
LEMMA IdleClients ==
    ASSUME ClientInv, UNCHANGED ovars, now' \in Int, now' >= now
    PROVE  ClientInv'
<1>1. UNCHANGED <<clients, logins, codes, tokens, calls>>
    BY DEF ovars
<1>2. DOMAIN calls' = Requests
    BY <1>1 DEF ClientInv
<1> QED BY <1>1, <1>2, ClientsRest, ClientStep

\* A request gets on with its login.
LEMMA RequestClients ==
    ASSUME ClientInv, ClientsKept, UNCHANGED <<codes, tokens>>,
           \A s \in DOMAIN logins' :
               (s \in DOMAIN logins /\ logins'[s] = logins[s]) \/ LoginGood(logins[s])',
           NEW r \in Requests, NEW x, calls' = [calls EXCEPT ![r] = x], CallGood(calls[r])'
    PROVE  ClientInv'
<1>1. DOMAIN calls = Requests
    BY DEF ClientInv
<1>2. \A q \in Requests : q # r => calls'[q] = calls[q]
    BY <1>1
<1>3. DOMAIN calls' = Requests
    BY <1>1
<1> QED BY <1>2, <1>3, ClientStep

\* A request that holds nothing, or no more than a client, is in order.
LEMMA IdleGood ==
    ASSUME ClientInv, NEW r \in Requests, NEW c, NEW s, NEW x,
           x \in {Idle, [pc |-> "discover", client |-> c, scopes |-> s]},
           calls' = [calls EXCEPT ![r] = x]
    PROVE  CallGood(calls[r])'
<1>1. calls'[r] = x
    BY DEF ClientInv
<1>2. x.pc \in {"idle", "discover"}
    BY DEF Idle
<1> QED BY <1>1, <1>2 DEF CallGood

\* The request of a login up to the row it stores.
LEMMA StartClients ==
    ASSUME ClientInv, NEW r \in Requests, NEW c, NEW s, start_login(r, c, s)
    PROVE  ClientInv'
<1>1. UNCHANGED <<now, clients, logins, codes, tokens>> /\ now \in Int
    BY DEF start_login, ClientInv
<1>2. ClientsKept
    BY <1>1, ClientsRest
<1> DEFINE d == [pc |-> "discover", client |-> c, scopes |-> s]
           f == [pc |-> "fetch", client |-> c, scopes |-> s, at |-> now]
<1>3. CASE calls' = [calls EXCEPT ![r] = d]
  <2>1. d \in {Idle, [pc |-> "discover", client |-> c, scopes |-> s]}
    OBVIOUS
  <2> HIDE DEF d
  <2> QED BY <1>1, <1>2, <1>3, <2>1, IdleGood, RequestClients
<1>4. CASE calls' = [calls EXCEPT ![r] = f]
  <2>1. f.pc = "fetch" /\ f.at \in Int
    BY <1>1
  <2> HIDE DEF f
  <2>2. calls'[r] = f
    BY <1>4 DEF ClientInv
  <2>3. CallGood(calls[r])'
    BY <2>1, <2>2 DEF CallGood
  <2> QED BY <1>1, <1>2, <1>4, <2>3, RequestClients
<1> QED BY <1>3, <1>4 DEF start_login

\* A fetched document registers the client as of the request's arrival.
LEMMA FetchClients ==
    ASSUME ClientInv, NEW r \in Requests, NEW m, NEW listed, client_of(r, m, listed)
    PROVE  ClientInv'
<1> DEFINE ok == MetadataFetch(r) /\ resolve_metadata_document(m)
           d == [pc |-> "discover", client |-> calls[r].client, scopes |-> calls[r].scopes]
           x == IF ok /\ listed THEN d ELSE Idle
<1>1. /\ calls[r].pc = "fetch" /\ calls' = [calls EXCEPT ![r] = x]
      /\ UNCHANGED <<now, logins, codes, tokens>>
      /\ IF ok THEN clients' = Row(clients, calls[r].client, calls[r].at) ELSE UNCHANGED clients
    BY Zenon DEF client_of, put_client
<1>2. x \in {Idle, [pc |-> "discover", client |-> calls[r].client, scopes |-> calls[r].scopes]}
    OBVIOUS
<1>3. calls[r].at \in Int /\ now \in Int /\ FetchTtl \in Nat
    BY <1>1, OAuthAssumption DEF ClientInv, CallGood
<1>4. ok => calls[r].at >= now - FetchTtl
    BY <1>3 DEF MetadataFetch
<1> HIDE DEF x, ok
<1>5. ClientsKept
  <2>1. CASE ok
    BY <1>1, <1>3, <1>4, <2>1, ClientsUsed
  <2>2. CASE ~ok
    BY <1>1, <1>3, <2>2, ClientsRest
  <2> QED BY <2>1, <2>2
<1>6. CallGood(calls[r])'
    BY <1>1, <1>2, IdleGood
<1> QED BY <1>1, <1>5, <1>6, RequestClients

\* The login is stored together with its client's use.
LEMMA LoginClients ==
    ASSUME ClientInv, NEW r \in Requests, LoginStarts(r)
    PROVE  ClientInv'
<1> DEFINE c == calls[r].client
           row == [client |-> c, scopes |-> calls[r].scopes, human |-> NoHuman,
                   expires |-> now + LoginTtl]
<1>1. /\ clients' = touched(c) /\ logins' = Row(logins, minted.login + 1, row)
      /\ calls' = [calls EXCEPT ![r] = Idle] /\ UNCHANGED <<now, codes, tokens>>
    BY DEF LoginStarts, put_login
<1>2. ClientsKept
    BY <1>1, ClientsTouched
<1>3. now \in Int /\ now' = now /\ LoginTtl \in Nat /\ FetchTtl \in Nat
    BY <1>1, OAuthAssumption DEF ClientInv
<1>4. c \in DOMAIN clients' => clients'[c] = now
    BY <1>1 DEF touched, get_client, Row
<1>5. row = [client |-> row.client, scopes |-> row.scopes, human |-> row.human,
             expires |-> row.expires]
      /\ row.client = c /\ row.expires = now + LoginTtl /\ row.human = NoHuman
    OBVIOUS
<1> HIDE DEF row, c
<1>6. \A s \in DOMAIN logins' : (s \in DOMAIN logins /\ logins'[s] = logins[s]) \/ logins'[s] = row
    BY <1>1 DEF Row
<1>7. ASSUME NEW s \in DOMAIN logins', logins'[s] = row PROVE LoginGood(logins[s])'
    BY <1>3, <1>4, <1>5, <1>7 DEF LoginGood, LoginKept, UsedSince, get_client
<1>8. CallGood(calls[r])'
    BY <1>1, IdleGood
<1> QED BY <1>1, <1>2, <1>6, <1>7, <1>8, RequestClients

\* A login that a request holds goes back into the table, where it is good.
LEMMA PutBackClients ==
    ASSUME ClientInv, NEW r \in Requests, NEW k, NEW row, LoginGood(row), UNCHANGED now,
           logins' = Row(logins, k, row), calls' = [calls EXCEPT ![r] = Idle],
           UNCHANGED <<clients, codes, tokens>>
    PROVE  ClientInv'
<1>1. ClientsKept
    BY ClientsRest DEF ClientInv
<1>2. \A s \in DOMAIN logins' : (s \in DOMAIN logins /\ logins'[s] = logins[s]) \/ logins'[s] = row
    BY DEF Row
<1>3. ASSUME NEW s \in DOMAIN logins', logins'[s] = row PROVE LoginGood(logins[s])'
    BY <1>3 DEF LoginGood, LoginKept, UsedSince, get_client, Live
<1>4. CallGood(calls[r])'
    BY IdleGood
<1> QED BY <1>1, <1>2, <1>3, <1>4, RequestClients

\* Logins may go, and a request may take one with it.
LEMMA TakenClients ==
    ASSUME ClientInv, NEW r \in Requests, NEW K, NEW x, UNCHANGED now, logins' = Drop(logins, K),
           calls' = [calls EXCEPT ![r] = x], CallGood(x), UNCHANGED <<clients, codes, tokens>>
    PROVE  ClientInv'
<1>1. ClientsKept
    BY ClientsRest DEF ClientInv
<1>2. \A s \in DOMAIN logins' : s \in DOMAIN logins /\ logins'[s] = logins[s]
    BY DEF Drop
<1>3. calls'[r] = x
    BY DEF ClientInv
<1>4. CallGood(calls[r])'
    BY <1>3 DEF CallGood, LoginKept, UsedSince, get_client, Live
<1> QED BY <1>1, <1>2, <1>4, RequestClients

\* The human and the scopes are written into the row of a login.
LEMMA AnsweredRow ==
    ASSUME NEW l, NEW h, NEW s,
           l = [client |-> l.client, scopes |-> l.scopes, human |-> l.human, expires |-> l.expires]
    PROVE  [l EXCEPT !.human = h, !.scopes = s] =
               [client |-> l.client, scopes |-> s, human |-> h, expires |-> l.expires]
<1> DEFINE a == l.client
           b == l.scopes
           d == l.human
           e == l.expires
<1>1. l = [client |-> a, scopes |-> b, human |-> d, expires |-> e]
    OBVIOUS
<1> HIDE DEF a, b, d, e
<1> DEFINE k == [l EXCEPT !.human = h]
<1>2. k = [client |-> a, scopes |-> b, human |-> h, expires |-> e]
    BY <1>1
<1>3. [l EXCEPT !.human = h, !.scopes = s] = [k EXCEPT !.scopes = s]
    OBVIOUS
<1> HIDE DEF k
<1>4. [k EXCEPT !.scopes = s] = [client |-> a, scopes |-> s, human |-> h, expires |-> e]
    BY <1>2
<1> QED BY <1>3, <1>4 DEF a, e

\* The steps between the provider's answer and the consent page.
LEMMA CallbackClients ==
    ASSUME ClientInv, NEW r \in Requests,
           \/ \E s \in DOMAIN logins : callback(r, s)
           \/ restored(r) \/ consent_page(r) \/ finish_login(r) \/ DiscoveryFails(r)
           \/ \E h \in Humans : principal_of(r, h)
    PROVE  ClientInv'
<1>0. CallGood(calls[r]) /\ DOMAIN calls = Requests
    BY DEF ClientInv
<1>1. ASSUME NEW s \in DOMAIN logins, callback(r, s) PROVE ClientInv'
  <2> DEFINE x == [pc |-> "exchange", state |-> s, login |-> logins[s]]
  <2>1. /\ logins' = Drop(logins, {s}) /\ calls' = [calls EXCEPT ![r] = x]
        /\ logins[s].human = NoHuman /\ UNCHANGED <<now, clients, codes, tokens>>
    BY <1>1 DEF callback, take_login
  <2>2. x.pc = "exchange" /\ x.login = logins[s]
    OBVIOUS
  <2> HIDE DEF x
  <2>3. LoginKept(logins[s])
    BY DEF ClientInv, LoginGood
  <2>4. CallGood(x)
    BY <2>1, <2>2, <2>3 DEF CallGood
  <2> QED BY <2>1, <2>4, TakenClients
<1>2. CASE restored(r)
  <2>1. calls[r].pc = "exchange"
    BY <1>2 DEF restored
  <2>2. LoginGood(calls[r].login)
    BY <1>0, <2>1 DEF CallGood, LoginGood
  <2> QED BY <1>2, <2>2, PutBackClients DEF restored, put_login
<1>3. CASE consent_page(r)
  <2> DEFINE y == [calls[r] EXCEPT !.pc = "known"]
             x == IF get_client(calls[r].login.client) THEN y ELSE Idle
  <2>1. /\ calls[r].pc = "named" /\ calls' = [calls EXCEPT ![r] = x]
        /\ UNCHANGED <<now, clients, logins, codes, tokens>>
    BY <1>3 DEF consent_page
  <2>2. y = [pc |-> "known", state |-> calls[r].state, login |-> calls[r].login,
             human |-> calls[r].human, offered |-> calls[r].offered]
    BY <1>0, <2>1 DEF CallGood
  <2>3. CASE get_client(calls[r].login.client)
    <3>1. x = y
        BY <2>3
    <3>2. LoginKept(calls[r].login)
        BY <1>0, <2>1 DEF CallGood
    <3> HIDE DEF y, x
    <3>3. y.pc = "known" /\ y.login = calls[r].login
          /\ y = [pc |-> y.pc, state |-> y.state, login |-> y.login, human |-> y.human,
                  offered |-> y.offered]
        BY <2>2
    <3>4. CallGood(x)
        BY <2>3, <3>1, <3>2, <3>3 DEF CallGood
    <3>5. CallGood(calls[r])'
        BY <1>0, <2>1, <3>4 DEF CallGood, LoginKept, UsedSince, get_client, Live
    <3>6. ClientsKept
        BY <2>1, ClientsRest DEF ClientInv
    <3> QED BY <2>1, <3>5, <3>6, RequestClients
  <2>4. CASE ~get_client(calls[r].login.client)
    <3>1. calls' = [calls EXCEPT ![r] = Idle]
        BY <2>1, <2>4
    <3>2. ClientsKept
        BY <2>1, ClientsRest DEF ClientInv
    <3>3. CallGood(calls[r])'
        BY <3>1, IdleGood
    <3> QED BY <2>1, <3>1, <3>2, <3>3, RequestClients
  <2> QED BY <2>3, <2>4
<1>4. CASE finish_login(r)
  <2> DEFINE l == calls[r].login
             row == [l EXCEPT !.human = calls[r].human, !.scopes = calls[r].offered]
  <2>1. /\ calls[r].pc = "known" /\ logins' = Row(logins, calls[r].state, row)
        /\ calls' = [calls EXCEPT ![r] = Idle] /\ UNCHANGED <<now, clients, codes, tokens>>
    BY <1>4 DEF finish_login, put_login
  <2>2. LoginKept(l) /\ (Live(l) => get_client(l.client))
    BY <1>0, <2>1 DEF CallGood
  <2>3. row = [client |-> l.client, scopes |-> calls[r].offered, human |-> calls[r].human,
               expires |-> l.expires]
    <3>1. l = [client |-> l.client, scopes |-> l.scopes, human |-> l.human, expires |-> l.expires]
        BY <2>2 DEF LoginKept
    <3> HIDE DEF l
    <3> QED BY <3>1, AnsweredRow
  <2> HIDE DEF row, l
  <2>4. /\ row.client = l.client /\ row.expires = l.expires
        /\ row = [client |-> row.client, scopes |-> row.scopes, human |-> row.human,
                  expires |-> row.expires]
    BY <2>3
  <2>5. LoginGood(row)
    BY <2>2, <2>4 DEF LoginGood, LoginKept, Live
  <2> QED BY <2>1, <2>5, PutBackClients
<1>5. CASE DiscoveryFails(r)
  <2>1. calls' = [calls EXCEPT ![r] = Idle] /\ UNCHANGED <<now, clients, logins, codes, tokens>>
    BY <1>5 DEF DiscoveryFails
  <2>2. ClientsKept
    BY <2>1, ClientsRest DEF ClientInv
  <2>3. CallGood(calls[r])'
    BY <2>1, IdleGood
  <2> QED BY <2>1, <2>2, <2>3, RequestClients
<1>6. ASSUME NEW h \in Humans, principal_of(r, h) PROVE ClientInv'
  <2> DEFINE shown == offered(calls[r].login.scopes, resolve_human(h))
             y == [pc |-> "named", state |-> calls[r].state, login |-> calls[r].login,
                   human |-> h, offered |-> shown]
             x == IF human_registered(h) /\ shown # {} THEN y ELSE Idle
  <2>1. /\ calls[r].pc = "exchange" /\ calls' = [calls EXCEPT ![r] = x]
        /\ UNCHANGED <<now, clients, logins, codes, tokens>>
    BY <1>6, Zenon DEF principal_of
  <2>2. x = y \/ x = Idle
    OBVIOUS
  <2>3. ClientsKept
    BY <2>1, ClientsRest DEF ClientInv
  <2> HIDE DEF x, shown
  <2>4. CASE x = y
    <3>1. /\ y.pc = "named" /\ y.login = calls[r].login
          /\ y = [pc |-> y.pc, state |-> y.state, login |-> y.login, human |-> y.human,
                  offered |-> y.offered]
        OBVIOUS
    <3> HIDE DEF y
    <3>2. LoginKept(calls[r].login)
        BY <1>0, <2>1 DEF CallGood
    <3>3. calls'[r] = y
        BY <1>0, <2>1, <2>4
    <3>4. CallGood(calls[r])'
        BY <2>1, <3>1, <3>2, <3>3 DEF CallGood, LoginKept, UsedSince, get_client
    <3> QED BY <2>1, <2>3, <3>4, RequestClients
  <2>5. CASE x = Idle
    <3>1. CallGood(calls[r])'
        BY <2>1, <2>5, IdleGood
    <3> QED BY <2>1, <2>3, <3>1, RequestClients
  <2> QED BY <2>2, <2>4, <2>5
<1> QED BY <1>1, <1>2, <1>3, <1>4, <1>5, <1>6

\* A step of the credentials: no request moves.
LEMMA CredentialClients ==
    ASSUME ClientInv, ClientsKept, UNCHANGED calls,
           \A s \in DOMAIN logins' : s \in DOMAIN logins /\ logins'[s] = logins[s],
           \A c \in DOMAIN codes' :
               \/ c \in DOMAIN codes /\ codes'[c].expires = codes[c].expires
                                     /\ codes'[c].grant = codes[c].grant
               \/ CodeGood(codes[c])',
           \A t \in DOMAIN tokens' :
               \/ t \in DOMAIN tokens /\ tokens'[t].grant = tokens[t].grant
               \/ get_client(tokens[t].grant.client)'
    PROVE  ClientInv'
<1>1. DOMAIN calls' = Requests
    BY DEF ClientInv
<1> QED BY <1>1, ClientStep

\* A code is minted from a live login, so from a client used recently enough.
LEMMA ApproveClients ==
    ASSUME ClientInv, NEW s \in DOMAIN logins, NEW ticked, approve(s, ticked)
    PROVE  ClientInv'
<1> DEFINE l == logins[s]
           row == [grant |-> [client |-> l.client, human |-> l.human, scopes |-> ticked,
                              family |-> minted.code + 1],
                   spent |-> FALSE, expires |-> now + CodeTtl]
<1>1. /\ l.human # NoHuman /\ Live(l) /\ logins' = Drop(logins, {s})
      /\ codes' = Row(codes, minted.code + 1, row)
      /\ UNCHANGED <<now, clients, tokens, calls>>
    BY DEF approve, take_verified, Takeable, take_login, put_code
<1>2. row.grant.client = l.client /\ row.expires = now + CodeTtl
    OBVIOUS
<1> HIDE DEF row
<1>3. /\ now \in Int /\ FetchTtl \in Nat /\ LoginTtl \in Nat /\ CodeTtl \in Nat
      /\ l.expires \in Int /\ l.expires > now /\ l.client \in DOMAIN clients
      /\ clients[l.client] \in Int /\ clients[l.client] >= l.expires - LoginTtl - FetchTtl
    BY <1>1, OAuthAssumption DEF ClientInv, LoginGood, LoginKept, UsedSince, get_client, Live
<1> HIDE DEF l
<1>4. ClientsKept
    BY <1>1, <1>3, ClientsRest
<1>5. \A c \in DOMAIN codes' : (c \in DOMAIN codes /\ codes'[c] = codes[c]) \/ codes'[c] = row
    BY <1>1 DEF Row
<1>6. ASSUME NEW c \in DOMAIN codes', codes'[c] = row PROVE CodeGood(codes[c])'
    BY <1>1, <1>2, <1>3, <1>6 DEF CodeGood, UsedSince, get_client
<1>7. \A k \in DOMAIN logins' : k \in DOMAIN logins /\ logins'[k] = logins[k]
    BY <1>1 DEF Drop
<1> QED BY <1>1, <1>4, <1>5, <1>6, <1>7, CredentialClients

\* A code that is spent keeps its grant and its end.
LEMMA SpentCodes ==
    ASSUME NEW cs, NEW c \in DOMAIN cs, IsCode(cs[c])
    PROVE  LET cs2 == [cs EXCEPT ![c].spent = TRUE] IN
           /\ DOMAIN cs2 = DOMAIN cs
           /\ \A k \in DOMAIN cs : cs2[k].expires = cs[k].expires /\ cs2[k].grant = cs[k].grant
<1> DEFINE b == TRUE
           row == [cs[c] EXCEPT !.spent = TRUE]
           q == [cs[c] EXCEPT !.spent = b]
<1> HIDE DEF b
<1>1. b \in BOOLEAN
    BY DEF b
<1>2. q = [grant |-> cs[c].grant, spent |-> b, expires |-> cs[c].expires]
    BY <1>1, SMT DEF IsCode
<1>3. row = q
    BY Zenon DEF b
<1>4. [cs EXCEPT ![c].spent = TRUE] = [cs EXCEPT ![c] = row]
    OBVIOUS
<1> HIDE DEF q, row
<1>5. q.grant = cs[c].grant /\ q.expires = cs[c].expires
    BY <1>2
<1> QED BY <1>3, <1>4, <1>5

\* A code that is presented in time still has its client, and so have the
\* tokens it is exchanged for.
LEMMA ExchangeClients ==
    ASSUME ClientInv, BranchInv, NEW c \in DOMAIN codes, NEW by, NEW proof, NEW fails \in BOOLEAN,
           grant_authorization_code(c, by, proof, fails)
    PROVE  ClientInv'
<1> DEFINE grant == codes[c].grant
           honoured == proof /\ by = grant.client
<1>1. /\ CodeOutcome(c) = "valid" /\ codes' = [codes EXCEPT ![c].spent = TRUE]
      /\ IF honoured THEN issue(tokens, grant, fails) ELSE UNCHANGED <<tokens, minted>>
      /\ clients' = IF honoured /\ ~fails THEN touched(by) ELSE clients
      /\ UNCHANGED <<now, logins, calls>>
    BY Zenon DEF grant_authorization_code
<1>2. Live(codes[c]) /\ now \in Int
    BY <1>1 DEF CodeOutcome, ClientInv
<1>3. grant.client \in DOMAIN clients
    BY <1>2 DEF ClientInv, CodeGood, get_client
<1>4. clients' = touched(by) \/ clients' = clients
    BY <1>1
<1>5. ClientsKept
    BY <1>1, <1>2, <1>4, ClientsRest, ClientsTouched
<1>6. \A k \in DOMAIN codes' :
          /\ k \in DOMAIN codes /\ codes'[k].expires = codes[k].expires
          /\ codes'[k].grant = codes[k].grant
  <2>1. IsCode(codes[c])
    BY DEF BranchInv, Branch
  <2> QED BY <1>1, <2>1, SpentCodes
<1>7. grant.client \in DOMAIN clients'
    BY <1>3, <1>4 DEF get_client, touched, Row
<1> HIDE DEF grant
<1>8. \A t \in DOMAIN tokens' :
          (t \in DOMAIN tokens /\ tokens'[t] = tokens[t]) \/ tokens'[t].grant = grant
    BY <1>1, IssuedGrants
<1>9. \A t \in DOMAIN tokens' :
          \/ t \in DOMAIN tokens /\ tokens'[t].grant = tokens[t].grant
          \/ get_client(tokens[t].grant.client)'
    BY <1>7, <1>8 DEF get_client
<1> QED BY <1>1, <1>5, <1>6, <1>9, CredentialClients

\* A family is revoked: rows change, grants do not.
LEMMA RevokeClients ==
    ASSUME ClientInv, BranchInv, NEW F, tokens' = Revoked(tokens, F),
           UNCHANGED <<now, clients, calls>>,
           \A s \in DOMAIN logins' : s \in DOMAIN logins /\ logins'[s] = logins[s],
           \A c \in DOMAIN codes' : c \in DOMAIN codes /\ codes'[c] = codes[c]
    PROVE  ClientInv'
<1>1. ClientsKept
    BY ClientsRest DEF ClientInv
<1>2. \A t \in DOMAIN tokens : IsToken(tokens[t])
    BY DEF BranchInv, Branch
<1>3. \A t \in DOMAIN tokens' : t \in DOMAIN tokens /\ tokens'[t].grant = tokens[t].grant
    BY <1>2, RevokedGrants
<1> QED BY <1>1, <1>3, CredentialClients

\* A refresh: the new tokens are of the old one's client.
LEMMA RefreshClients ==
    ASSUME ClientInv, BranchInv, NEW t \in DOMAIN tokens, NEW by, NEW fails \in BOOLEAN,
           grant_refresh(t, by, fails)
    PROVE  ClientInv'
<1> DEFINE spent == [tokens EXCEPT ![t].spent = TRUE]
           grant == tokens[t].grant
<1>1. /\ UNCHANGED <<now, logins, codes, calls>>
      /\ \/ /\ by = grant.client /\ issue(spent, grant, fails)
            /\ clients' = IF fails THEN clients ELSE touched(by)
         \/ tokens' = Revoked(spent, {grant.family}) /\ UNCHANGED clients
    BY Zenon DEF grant_refresh
<1>2. /\ DOMAIN spent = DOMAIN tokens
      /\ \A u \in DOMAIN tokens : spent[u].grant = tokens[u].grant
      /\ \A u \in DOMAIN spent : IsToken(spent[u])
  <2>1. Branch(codes, tokens, dead, minted.code, minted.token)
    BY DEF BranchInv
  <2>2. /\ Branch(codes, spent, dead, minted.code, minted.token) /\ DOMAIN spent = DOMAIN tokens
        /\ \A u \in DOMAIN tokens : spent[u].grant = tokens[u].grant
    BY <2>1, SpendKeeps
  <2> HIDE DEF spent
  <2> QED BY <2>2 DEF Branch
<1>3. now \in Int /\ grant.client \in DOMAIN clients
    BY DEF ClientInv, get_client
<1> HIDE DEF spent, grant
<1>4. CASE tokens' = Revoked(spent, {grant.family}) /\ UNCHANGED clients
  <2>1. ClientsKept
    BY <1>1, <1>3, <1>4, ClientsRest
  <2>2. \A u \in DOMAIN tokens' : u \in DOMAIN tokens /\ tokens'[u].grant = tokens[u].grant
    BY <1>2, <1>4, RevokedGrants
  <2> QED BY <1>1, <2>1, <2>2, CredentialClients
<1>5. CASE issue(spent, grant, fails) /\ clients' = IF fails THEN clients ELSE touched(by)
  <2>1. clients' = clients \/ clients' = touched(by)
    BY <1>5
  <2>2. ClientsKept
    BY <1>1, <1>3, <2>1, ClientsRest, ClientsTouched
  <2>3. grant.client \in DOMAIN clients'
    BY <1>3, <2>1 DEF get_client, touched, Row
  <2>4. \A u \in DOMAIN tokens' : (u \in DOMAIN spent /\ tokens'[u] = spent[u]) \/ tokens'[u].grant = grant
    BY <1>5, IssuedGrants
  <2>5. \A u \in DOMAIN tokens' :
          \/ u \in DOMAIN tokens /\ tokens'[u].grant = tokens[u].grant
          \/ get_client(tokens[u].grant.client)'
    BY <1>2, <2>3, <2>4 DEF get_client
  <2> QED BY <1>1, <2>2, <2>5, CredentialClients
<1> QED BY <1>1, <1>4, <1>5

\* Maintenance evicts clients without tokens that were not used for MaxIdle.
LEMMA MaintainClients ==
    ASSUME ClientInv, maintain
    PROVE  ClientInv'
<1>1. /\ now \in Int /\ MaxIdle \in Nat /\ UNCHANGED <<now, calls>>
      /\ evict_clients /\ sweep
    BY OAuthAssumption DEF maintain, ClientInv
<1>2. /\ \A c \in DOMAIN clients' : c \in DOMAIN clients /\ clients'[c] = clients[c]
      /\ \A c \in DOMAIN clients \ DOMAIN clients' :
            /\ clients[c] <= now - MaxIdle
            /\ \A t \in DOMAIN tokens : tokens[t].grant.client # c
    BY <1>1 DEF evict_clients, Drop
<1>3. ClientsKept
    BY <1>1, <1>2 DEF ClientInv, ClientsKept
<1>4. /\ \A s \in DOMAIN logins' : s \in DOMAIN logins /\ logins'[s] = logins[s]
      /\ \A c \in DOMAIN codes' : c \in DOMAIN codes /\ codes'[c] = codes[c]
      /\ \A t \in DOMAIN tokens' : t \in DOMAIN tokens /\ tokens'[t] = tokens[t]
    BY <1>1 DEF sweep, Drop
<1> QED BY <1>1, <1>3, <1>4, CredentialClients

\* A start seeds the server's own clients; the requests are gone.
LEMMA RestartClients ==
    ASSUME ClientInv, Restart
    PROVE  ClientInv'
<1>1. /\ UNCHANGED <<now, logins, codes, tokens>> /\ now \in Int
      /\ calls' = [r \in Requests |-> Idle] /\ FetchTtl \in Nat
    BY OAuthAssumption DEF Restart, ClientInv
<1>2. ClientsKept
    BY <1>1 DEF Restart, seed_browser_clients, ClientInv, ClientsKept
<1>3. ASSUME NEW r \in Requests PROVE CallGood(calls[r])'
  <2>1. calls'[r] = Idle
    BY <1>1
  <2> QED BY <2>1 DEF CallGood, Idle
<1>4. DOMAIN calls' = Requests
    BY <1>1
<1> QED BY <1>1, <1>2, <1>3, <1>4, ClientStep

------------------------------------------------------------------------------

\* Only the server's own clients are there at first.
LEMMA InitClients ==
    ASSUME OAuthInit
    PROVE  ClientInv
<1>1. \A r \in Requests : CallGood(calls[r])
  <2>1. \A r \in Requests : calls[r] = Idle
    BY DEF OAuthInit
  <2> QED BY <2>1 DEF CallGood, Idle
<1> QED BY <1>1 DEF OAuthInit, PrincipalsInit, ClientInv

\* Every step of the server keeps the invariant.
LEMMA NextClients ==
    ASSUME BranchInv, ClientInv, [OAuthNext]_oauthVars
    PROVE  ClientInv'
<1>0. now \in Int
    BY DEF ClientInv
<1>1. CASE Tick /\ UNCHANGED <<pvars, ovars>>
    BY <1>0, <1>1, IdleClients DEF Tick
<1>2. ASSUME NEW c \in Dcr, NEW m \in Metadata, register(c, m) PROVE ClientInv'
  <2>1. clients' = Row(clients, c, now) /\ UNCHANGED <<now, logins, codes, tokens, calls>>
    BY <1>2 DEF register, put_client
  <2>2. ClientsKept
    BY <1>0, <2>1, ClientsUsed, OAuthAssumption
  <2> QED BY <2>1, <2>2, CredentialClients
<1>3. ASSUME NEW r \in Requests, LoginStep(r) PROVE ClientInv'
    BY <1>3, StartClients, FetchClients, LoginClients, CallbackClients DEF LoginStep
<1>4. CASE CredentialStep
  <2>1. ASSUME NEW s \in DOMAIN logins, deny(s) PROVE ClientInv'
    <3>1. UNCHANGED <<now, clients, codes, tokens, calls>>
          /\ \A k \in DOMAIN logins' : k \in DOMAIN logins /\ logins'[k] = logins[k]
        BY <2>1 DEF deny, take_login, Drop
    <3> QED BY <1>0, <3>1, ClientsRest, CredentialClients
  <2>2. ASSUME NEW s \in DOMAIN logins, NEW ticked \in SUBSET Scopes, approve(s, ticked)
        PROVE  ClientInv'
      BY <2>2, ApproveClients
  <2>3. ASSUME NEW c \in DOMAIN codes, NEW by \in Clients, NEW proof \in BOOLEAN,
               NEW fails \in BOOLEAN, grant_authorization_code(c, by, proof, fails)
        PROVE  ClientInv'
      BY <2>3, ExchangeClients
  <2>4. ASSUME NEW c \in DOMAIN codes, ReplayCode(c) PROVE ClientInv'
      BY <2>4, RevokeClients DEF ReplayCode, revoke_family
  <2>5. ASSUME NEW t \in DOMAIN tokens, NEW by \in Clients, NEW fails \in BOOLEAN,
               grant_refresh(t, by, fails)
        PROVE  ClientInv'
      BY <2>5, RefreshClients
  <2>6. ASSUME NEW t \in DOMAIN tokens, ReplayRefresh(t) \/ revoke_token(t) PROVE ClientInv'
      BY <2>6, RevokeClients DEF ReplayRefresh, revoke_token, revoke_family
  <2> QED BY <1>4, <2>1, <2>2, <2>3, <2>4, <2>5, <2>6 DEF CredentialStep, consent, token
<1>5. CASE maintain
    BY <1>5, MaintainClients
<1>6. CASE Restart
    BY <1>6, RestartClients
<1>7. CASE RemovalRevokes
  <2> DEFINE h == removing.human
             F == {tokens[t].grant.family :
                      t \in {t \in DOMAIN tokens : tokens[t].grant.human = h /\ ~tokens[t].revoked}}
             C == {c \in DOMAIN codes : codes[c].grant.human = h}
             L == {s \in DOMAIN logins : logins[s].human = h}
  <2>1. /\ tokens' = Revoked(tokens, F) /\ codes' = Drop(codes, C) /\ logins' = Drop(logins, L)
        /\ UNCHANGED <<now, clients, calls>>
    BY <1>7, Zenon DEF RemovalRevokes, revoke_principal
  <2> HIDE DEF F, C, L
  <2>2. /\ \A s \in DOMAIN logins' : s \in DOMAIN logins /\ logins'[s] = logins[s]
        /\ \A c \in DOMAIN codes' : c \in DOMAIN codes /\ codes'[c] = codes[c]
    BY <2>1 DEF Drop
  <2> QED BY <2>1, <2>2, RevokeClients
<1>8. CASE UNCHANGED <<now, ovars>>
    BY <1>0, <1>8, IdleClients
<1> QED BY <1>1, <1>2, <1>3, <1>4, <1>5, <1>6, <1>7, <1>8 DEF OAuthNext, oauthVars

\* GrantsKeepTheirClient for any lifetimes in the order the code gives them and
\* any number of concurrent logins (evict_clients, touch_client, client_of):
\* no login a human answered for, no code and no token outlives its client.
THEOREM ClientsOutliveGrants == OAuthSpec => []GrantsKeepTheirClient
<1>1. OAuthInit => BranchInv /\ ClientInv
    BY InitBranch, InitClients
<1>2. BranchInv /\ ClientInv /\ [OAuthNext]_oauthVars => BranchInv' /\ ClientInv'
    BY NextBranch, NextClients
<1>3. ClientInv => GrantsKeepTheirClient
    BY DEF ClientInv, GrantsKeepTheirClient, LoginGood, CodeGood
<1> QED BY <1>1, <1>2, <1>3, PTL DEF OAuthSpec

=============================================================================
