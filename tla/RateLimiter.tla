---------------------------- MODULE RateLimiter -----------------------------
(***************************************************************************)
(* The request limiter in front of each anonymous OAuth endpoint: a fixed  *)
(* window shared by every peer, counted under one mutex, with a bounded    *)
(* number of peers.  The wall clock it reads may be set backwards.  The    *)
(* five endpoints have one limiter each, which share nothing.              *)
(***************************************************************************)
EXTENDS Integers, Sequences, FiniteSets

CONSTANTS
    Peers,          \* canonical addresses
    Unusable,       \* a forwarded header that is absent or is no address
    TrustForwarded, \* --trust-forwarded-proto
    Limit,          \* REGISTER_PER_WINDOW, LOGIN_PER_WINDOW
    Window,         \* WINDOW_US
    MaxKeys,        \* MAX_KEYS
    MaxReading      \* bound on the clock's readings

ASSUME RateLimiterAssumption ==
    /\ Unusable \notin Peers /\ TrustForwarded \in BOOLEAN
    /\ Limit \in Nat \ {0} /\ Window \in Nat \ {0}
    /\ MaxKeys \in Nat \ {0} /\ MaxReading \in Nat

VARIABLES
    clock,   \* what the wall clock reads
    started, \* when the window opened
    counts,  \* requests admitted in it: a function on the peers it counts
    recent,  \* history: readings of each peer's last admitted requests
    refused  \* history: the peer the last request refused, if it did

lvars == <<clock, started, counts, recent, refused>>

LimiterTypeOK ==
    /\ clock \in 0..MaxReading /\ started \in 0..MaxReading
    /\ DOMAIN counts \subseteq Peers
    /\ \A k \in DOMAIN counts : counts[k] \in 1..Limit
    /\ recent \in [Peers -> UNION {[1..n -> 0..MaxReading] : n \in 0..Limit}]
    /\ refused \subseteq Peers

(* RateLimiter::new: the window of a fresh limiter opened in the past. *)
LimiterInit ==
    /\ clock \in 0..MaxReading
    /\ started = 0
    /\ counts = [k \in {} |-> 1]
    /\ recent = [k \in Peers |-> <<>>]
    /\ refused = {}

(* Time passes, or an operator or NTP sets the clock. *)
ClockReads(t) ==
    /\ t # clock
    /\ clock' = t
    /\ refused' = {}
    /\ UNCHANGED <<started, counts, recent>>

(* The key a request is counted under. *)
forwarded_for(header) == IF header = Unusable THEN {} ELSE {header}
Peer(header, connection) ==
    IF TrustForwarded /\ forwarded_for(header) # {}
    THEN header ELSE connection

\* Mutant of Rolls: the window only rolls forward.
RollsForward == clock - started >= Window
Rolls == clock - started \notin 0..(Window - 1)

(* A request of peer k, which a full count refuses.  A peer that does not fit
   the map any more is admitted and not counted. *)
check(k) ==
    LET start == IF Rolls THEN clock ELSE started
        open == IF Rolls THEN [p \in {} |-> 1] ELSE counts
        over == k \in DOMAIN open /\ open[k] >= Limit
        counted == k \in DOMAIN open \/ Cardinality(DOMAIN open) < MaxKeys
    IN  /\ started' = start
        /\ counts' = IF over \/ ~counted THEN open
                     ELSE [p \in DOMAIN open \cup {k} |->
                             IF p # k THEN open[p] ELSE IF k \in DOMAIN open THEN open[k] + 1 ELSE 1]
        /\ refused' = IF over THEN {k} ELSE {}
        /\ recent' = IF over THEN recent
                     ELSE [recent EXCEPT ![k] =
                             IF Len(@) < Limit THEN Append(@, clock) ELSE Append(Tail(@), clock)]
        /\ UNCHANGED clock

LimiterNext ==
    \/ \E t \in 0..MaxReading : ClockReads(t)
    \/ \E header \in Peers \cup {Unusable}, connection \in Peers : check(Peer(header, connection))

LimiterSpec == LimiterInit /\ [][LimiterNext]_lvars

------------------------------------------------------------------------------
(* A peer is refused only for requests of its own that were admitted less than
   one window away from the clock's reading, in either direction.  So whoever
   waits the Retry-After of a refusal is admitted, and a clock that is set
   back does not keep the endpoint closed until it has caught up. *)
RefusedForCause ==
    \A k \in refused :
        /\ Len(recent[k]) = Limit
        /\ \A i \in DOMAIN recent[k] : clock - recent[k][i] \in -(Window - 1)..(Window - 1)

------------------------------------------------------------------------------
(* The inductive invariant behind it: a count stands for that many of the
   peer's last admitted requests, all of them inside the window. *)
CountsInv ==
    \A k \in DOMAIN counts :
        /\ k \in Peers
        /\ counts[k] \in 1..Limit
        /\ counts[k] <= Len(recent[k])
        /\ \A i \in 1..Len(recent[k]) :
              i > Len(recent[k]) - counts[k] => recent[k][i] - started \in 0..(Window - 1)

LimiterInv ==
    /\ clock \in 0..MaxReading /\ started \in 0..MaxReading
    /\ recent \in [Peers -> Seq(0..MaxReading)]
    /\ \A k \in Peers : Len(recent[k]) <= Limit
    /\ refused \subseteq Peers
    /\ CountsInv
    /\ RefusedForCause

==============================================================================
