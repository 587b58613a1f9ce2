----------------------------- MODULE RateLimiter -----------------------------
(***************************************************************************)
(* internal/ratelimiter (the second half of internal/vfs/zip/vfs.go): a   *)
(* token bucket per domain, held in an LRU with an idle TTL.               *)
(*                                                                         *)
(* DomainAllowed(domain) is three steps of a request goroutine:            *)
(* getDomainCounter (lru FindOrFetch, one atomic cache operation), then    *)
(* the argument rl.now() is evaluated, then limiter.AllowN takes the       *)
(* limiter's mutex.  Time is an integer clock; a bucket holds its tokens   *)
(* scaled by Every (the ticks per token), so rate.Every(perDomainFrequency) *)
(* is an integer refill of one scaled unit per tick.                       *)
(***************************************************************************)
EXTENDS Naturals, Sequences, FiniteSets

CONSTANTS
    Domains,      \* request hosts
    Workers,      \* request goroutines
    Burst,        \* perDomainBurstSize
    Every,        \* perDomainFrequency, in clock ticks
    Capacity,     \* defaultDomainsItems
    TTL,          \* defaultDomainsExpirationInterval, in clock ticks
    MaxTime,      \* the clock stops here
    MaxRequests,  \* DomainAllowed calls
    MaxLimiters,  \* rate.NewLimiter calls
    None, Never   \* no cached limiter; a limiter's zero last time

Ids == 1..MaxLimiters
Full == Burst * Every

VARIABLES
    now,       \* the wall clock rl.now() reads
    cache,     \* domain -> cached limiter, None if not cached
    seen,      \* domain -> last time the cache item was fetched or set
    lims,      \* limiter -> [tokens (scaled), last]
    nextId,    \* next limiter id
    pc, wdom, wlim, wt,   \* per goroutine: step, domain, limiter, time read
    requests,  \* DomainAllowed calls started
    adm        \* limiter -> clock at each of its successful AllowN calls

vars == <<now, cache, seen, lims, nextId, pc, wdom, wlim, wt, requests, adm>>

TypeOK ==
    /\ now \in 0..MaxTime
    /\ cache \in [Domains -> Ids \cup {None}]
    /\ seen \in [Domains -> 0..MaxTime]
    /\ lims \in [Ids -> [tokens : 0..Full, last : (0..MaxTime) \cup {Never}]]
    /\ nextId \in 1..MaxLimiters + 1
    /\ pc \in [Workers -> {"idle", "fetched", "timed"}]
    /\ requests \in 0..MaxRequests
    /\ adm \in [Ids -> Seq(0..MaxTime)]

MinOf(a, b) == IF a < b THEN a ELSE b

-----------------------------------------------------------------------------
(* rate.Limiter.advance: tokens refilled for the time since last, capped   *)
(* at the burst.  A t before last counts from t (no refill), and a limiter *)
(* never used has its zero last time, so it starts full.                   *)
Advance(l, t) ==
    IF l.last = Never THEN Full
    ELSE MinOf(Full, l.tokens + (t - MinOf(t, l.last)))

(* lru FindOrFetch for getDomainCounter: a cached item not idle for TTL is *)
(* returned and touched; otherwise rate.NewLimiter(rate.Every(frequency),  *)
(* burst) is stored, evicting the least recently used item when the cache *)
(* is over Capacity.                                                        *)
Hit(d) == cache[d] # None /\ now - seen[d] < TTL

getDomainCounter(w, d) ==
    \/ /\ Hit(d)
       /\ wlim' = [wlim EXCEPT ![w] = cache[d]]
       /\ seen' = [seen EXCEPT ![d] = now]
       /\ UNCHANGED <<cache, lims, nextId>>
    \/ /\ ~Hit(d)
       /\ nextId <= MaxLimiters
       /\ LET c1 == [cache EXCEPT ![d] = nextId]
              s1 == [seen EXCEPT ![d] = now]
              held == {e \in Domains : c1[e] # None}
              lru == CHOOSE e \in held \ {d} :
                         \A o \in held \ {d} : s1[e] <= s1[o]
          IN cache' = IF Cardinality(held) > Capacity
                      THEN [c1 EXCEPT ![lru] = None] ELSE c1
       /\ seen' = [seen EXCEPT ![d] = now]
       /\ lims' = [lims EXCEPT ![nextId] = [tokens |-> Full, last |-> Never]]
       /\ wlim' = [wlim EXCEPT ![w] = nextId]
       /\ nextId' = nextId + 1

(* DomainAllowed, first step: getDomainCounter(domain).                    *)
Fetch(w, d) ==
    /\ pc[w] = "idle" /\ requests < MaxRequests
    /\ getDomainCounter(w, d)
    /\ pc' = [pc EXCEPT ![w] = "fetched"]
    /\ wdom' = [wdom EXCEPT ![w] = d]
    /\ requests' = requests + 1
    /\ UNCHANGED <<now, wt, adm>>

(* The argument rl.now() is read before AllowN locks the limiter.          *)
ReadNow(w) ==
    /\ pc[w] = "fetched"
    /\ wt' = [wt EXCEPT ![w] = now]
    /\ pc' = [pc EXCEPT ![w] = "timed"]
    /\ UNCHANGED <<now, cache, seen, lims, nextId, wdom, wlim, requests, adm>>

(* limiter.AllowN(t, 1) under the limiter's mutex: allowed when a whole    *)
(* token is there after advance; an allowed call stores t as last.         *)
AllowN(w) ==
    LET l == lims[wlim[w]]
        t == wt[w]
        tokens == Advance(l, t)
    IN /\ pc[w] = "timed"
       /\ IF tokens >= Every
          THEN /\ lims' = [lims EXCEPT ![wlim[w]] = [tokens |-> tokens - Every, last |-> t]]
               /\ adm' = [adm EXCEPT ![wlim[w]] = Append(@, now)]
          ELSE UNCHANGED <<lims, adm>>
       /\ pc' = [pc EXCEPT ![w] = "idle"]
       /\ UNCHANGED <<now, cache, seen, nextId, wdom, wlim, wt, requests>>

Tick ==
    /\ now < MaxTime
    /\ now' = now + 1
    /\ UNCHANGED <<cache, seen, lims, nextId, pc, wdom, wlim, wt, requests, adm>>

-----------------------------------------------------------------------------
(* New: an empty cache and no limiter.                                     *)
Init ==
    /\ now = 0
    /\ cache = [d \in Domains |-> None]
    /\ seen = [d \in Domains |-> 0]
    /\ lims = [i \in Ids |-> [tokens |-> Full, last |-> Never]]
    /\ nextId = 1
    /\ pc = [w \in Workers |-> "idle"]
    /\ wdom = [w \in Workers |-> CHOOSE d \in Domains : TRUE]
    /\ wlim = [w \in Workers |-> 1]
    /\ wt = [w \in Workers |-> 0]
    /\ requests = 0
    /\ adm = [i \in Ids |-> <<>>]

Next ==
    \/ Tick
    \/ \E w \in Workers : \/ \E d \in Domains : Fetch(w, d)
                          \/ ReadNow(w)
                          \/ AllowN(w)

Spec == Init /\ [][Next]_vars

-----------------------------------------------------------------------------
(* One bucket admits at most Burst requests plus one per Every ticks in   *)
(* any window of time (spec 4.K: a token bucket of rate R and burst B),    *)
(* also when goroutines that read rl.now() earlier reach AllowN later.     *)
BucketBound ==
    \A i \in 1..(nextId - 1) : \A t1, t2 \in 0..now :
        t1 <= t2 =>
            Every * Cardinality({k \in DOMAIN adm[i] : adm[i][k] \in t1..t2})
                <= Full + (t2 - t1)

=============================================================================
