\* Logins, tokens and removals; the provider's keys; the workspace registry; the limiter.
SPECIFICATION Spec
CONSTANTS
  Parts = {"oauth", "provider", "registry", "limiter"}
  Humans = {h1}
  Builtin <- NoFile
  Scopes = {a}
  WaitlistCap = 1
  WaitlistTtl = 1
  MaxNow = 3
  Dcr = {d1}
  Cimd = {m1}
  Reserved = {u}
  Requests = {r1}
  FetchTtl = 1
  LoginTtl = 1
  CodeTtl = 1
  AccessTtl = 1
  RefreshTtl = 2
  MaxIdle = 3
  MaxLogins = 1
  MaxCodes = 1
  MaxTokens = 4
  Keys = {k1, k2}
  NoKid = nokid
  Forger = forger
  Exchanges = {e1, e2}
  Machines = {mach}
  Local = local
  MaxWs = 2
  Peers = {p1, p2}
  Unusable = none
  TrustForwarded = TRUE
  Limit = 2
  Window = 2
  MaxKeys = 1
  MaxReading = 4
INVARIANTS
  OneLiveBranch
  
  CanStart
  AccessMatchesIdentity
  RefusedForCause
  
CHECK_DEADLOCK FALSE
