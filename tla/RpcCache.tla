------------------------------- MODULE RpcCache -------------------------------
(***************************************************************************)
(* The response cache of the RPC proxy (modules/rpc/rpc-cache.service.ts), *)
(* its in-flight deduplication, and the coalescer that takes the methods   *)
(* which are not cached (lib/request-coalescer.ts).                        *)
(*                                                                         *)
(* A request is answered from the cache, or joins an upstream call already *)
(* under way, or starts one.  What an upstream call does is RpcFailover's  *)
(* business: here it ends within CallTimeout, with a 200 or otherwise.     *)
(* The value a call returns is identified by the moment the call started,  *)
(* so a value's age is how much the chain may have moved on since.         *)
(***************************************************************************)
EXTENDS Naturals

CONSTANTS
  Key,          \* network:method:params
  Cacheable,    \* the keys of CACHEABLE_METHODS; the others are coalescible
  CacheRequest, \* concurrent requests
  NoRequest,    \* not a request
  Ttl,          \* the TTLs in use: the defaults and what PATCH cache/config sets
  Window,       \* dedupWindowMs
  CallTimeout,  \* the longest an upstream call lasts, over all its endpoints
  MaxCacheTime  \* bound on the clock

ASSUME CacheAssumption ==
  /\ Cacheable \subseteq Key /\ Key # {} /\ NoRequest \notin CacheRequest
  /\ Ttl \subseteq Nat \ {0} /\ Ttl # {}
  /\ Window \in Nat \ {0} /\ CallTimeout \in Nat \ {0} /\ MaxCacheTime \in Nat

VARIABLES
  cacheNow,  \* Date.now()
  ttl,       \* methodTtl, by key
  cache,     \* cache[k]: the cached value's age stamp and expiry, if any
  inflight,  \* inflight[k]: whose call the map holds, or NoRequest
  key,       \* key[r]: what the call r started asks for
  startedAt, \* startedAt[r]: when r started its call
  awaits,    \* awaits[r]: the request whose call r waits for, or NoRequest
  settledAt, \* settledAt[k]: when a call for k last settled
  before     \* before[r]: settledAt[key[r]] when r started its call

callVars == <<key, startedAt, before>>
cacheVars == <<cacheNow, ttl, cache, inflight, callVars, awaits, settledAt>>

Entry == [asOf : Nat, expiresAt : Nat]
\* An entry that has always been expired: the same to get as no entry.
NoEntry == [asOf |-> 0, expiresAt |-> 0]

\* What key holds for a request that has no call.
AnyKey == CHOOSE k \in Key : TRUE

CacheInit ==
  /\ cacheNow = 1
  /\ ttl \in [Key -> Ttl]
  /\ cache = [k \in Key |-> NoEntry]
  /\ inflight = [k \in Key |-> NoRequest]
  /\ key = [r \in CacheRequest |-> AnyKey]
  /\ startedAt = [r \in CacheRequest |-> 0]
  /\ awaits = [r \in CacheRequest |-> NoRequest]
  /\ settledAt = [k \in Key |-> 0]
  /\ before = [r \in CacheRequest |-> 0]

Running(r) == awaits[r] = r

-----------------------------------------------------------------------------
(* Mutant: an expired entry is served until somebody replaces it. *)
AnyEntry(k) == k \in Cacheable /\ cache[k].expiresAt > 0

(* get: an entry that has not expired. *)
Fresh(k) == k \in Cacheable /\ cacheNow <= cache[k].expiresAt

(* An entry of the in-flight map a request may join: for a cacheable key   *)
(* one that is younger than the window, otherwise any.                     *)
Joinable(k) ==
  /\ inflight[k] # NoRequest
  /\ k \in Cacheable => cacheNow - startedAt[inflight[k]] < Window

Hit(r, k) ==
  /\ awaits[r] = NoRequest
  /\ Fresh(k)
  /\ UNCHANGED cacheVars

(* A miss deletes the expired entry it finds. *)
Missed(k) ==
  /\ ~ Fresh(k)
  /\ cache' = [cache EXCEPT ![k] = NoEntry]

Join(r, k) ==
  /\ awaits[r] = NoRequest
  /\ Missed(k)
  /\ Joinable(k)
  /\ awaits' = [awaits EXCEPT ![r] = inflight[k]]
  /\ UNCHANGED <<cacheNow, ttl, inflight, callVars, settledAt>>

(* Mutants: the map keeps its old entry when it has one; calls are put in  *)
(* the map only when they may be cached.                                   *)
KeepsOldEntry(r, k) == IF inflight[k] # NoRequest THEN inflight ELSE [inflight EXCEPT ![k] = r]
RegistersCacheable(r, k) == IF k \in Cacheable THEN [inflight EXCEPT ![k] = r] ELSE inflight

Registered(r, k) == [inflight EXCEPT ![k] = r]

Call(r, k) ==
  /\ awaits[r] = NoRequest
  /\ Missed(k)
  /\ ~ Joinable(k)
  /\ awaits' = [awaits EXCEPT ![r] = r]
  /\ key' = [key EXCEPT ![r] = k]
  /\ startedAt' = [startedAt EXCEPT ![r] = cacheNow]
  /\ before' = [before EXCEPT ![r] = settledAt[k]]
  /\ inflight' = Registered(r, k)
  /\ UNCHANGED <<cacheNow, ttl, settledAt>>

(* Mutant: a call that failed stays in the map, as with then for finally. *)
UnregisteredIfGood(k, good) == IF good THEN [inflight EXCEPT ![k] = NoRequest] ELSE inflight

(* The finally clause deletes what the map holds for the key, and that may *)
(* be the entry of a later call.                                           *)
Unregistered(k, good) == [inflight EXCEPT ![k] = NoRequest]

Answered(r) == [s \in CacheRequest |-> IF awaits[s] = r THEN NoRequest ELSE awaits[s]]

(* A call settles: a 200 is cached, the map entry goes, and every request  *)
(* that awaits the call has its answer, or its error.                      *)
Settle(r, good) ==
  LET k == key[r] IN
  /\ Running(r)
  /\ cache' = IF good /\ k \in Cacheable
              THEN [cache EXCEPT ![k] = [asOf |-> startedAt[r], expiresAt |-> cacheNow + ttl[k]]]
              ELSE cache
  /\ inflight' = Unregistered(k, good)
  /\ awaits' = Answered(r)
  /\ settledAt' = [settledAt EXCEPT ![k] = cacheNow]
  /\ key' = [key EXCEPT ![r] = AnyKey]
  /\ startedAt' = [startedAt EXCEPT ![r] = 0]
  /\ before' = [before EXCEPT ![r] = 0]
  /\ UNCHANGED <<cacheNow, ttl>>

(* DELETE cache and DELETE cache/all: the entries of some keys go, and the *)
(* calls in flight stay.                                                   *)
Invalidate(K) ==
  /\ \E k \in K : cache[k] # NoEntry
  /\ cache' = [k \in Key |-> IF k \in K THEN NoEntry ELSE cache[k]]
  /\ UNCHANGED <<cacheNow, ttl, inflight, callVars, awaits, settledAt>>

(* Mutant: the new TTL is added to the old one. *)
SetTtlAdds(k, t) ==
  /\ ttl' = [ttl EXCEPT ![k] = @ + t]
  /\ UNCHANGED <<cacheNow, cache, inflight, callVars, awaits, settledAt>>

(* PATCH cache/config. *)
SetTtl(k, t) ==
  /\ ttl' = [ttl EXCEPT ![k] = t]
  /\ UNCHANGED <<cacheNow, cache, inflight, callVars, awaits, settledAt>>

CacheTick ==
  /\ cacheNow < MaxCacheTime
  /\ \A r \in CacheRequest : Running(r) => cacheNow < startedAt[r] + CallTimeout
  /\ cacheNow' = cacheNow + 1
  /\ UNCHANGED <<ttl, cache, inflight, callVars, awaits, settledAt>>

CacheNext ==
  \/ \E r \in CacheRequest, k \in Key : Hit(r, k) \/ Join(r, k) \/ Call(r, k)
  \/ \E r \in CacheRequest, good \in BOOLEAN : Settle(r, good)
  \/ \E K \in SUBSET Cacheable : Invalidate(K)
  \/ \E k \in Cacheable, t \in Ttl : SetTtl(k, t)
  \/ CacheTick

CacheSpec == CacheInit /\ [][CacheNext]_cacheVars

-----------------------------------------------------------------------------
(* The cache, the map and the calls have their types, and no stamp is in   *)
(* the future.                                                             *)
CacheTypeOK ==
  /\ cacheNow \in Nat \ {0} /\ ttl \in [Key -> Ttl]
  /\ cache \in [Key -> Entry] /\ \A k \in Key : cache[k].asOf <= cacheNow
  /\ inflight \in [Key -> CacheRequest \cup {NoRequest}]
  /\ key \in [CacheRequest -> Key]
  /\ startedAt \in [CacheRequest -> Nat] /\ \A r \in CacheRequest : startedAt[r] <= cacheNow
  /\ awaits \in [CacheRequest -> CacheRequest \cup {NoRequest}]
  /\ settledAt \in [Key -> Nat] /\ before \in [CacheRequest -> Nat]

(* No answer from the cache is older than a TTL and the duration of a      *)
(* call, although late answers overwrite newer ones and refill the cache   *)
(* after it was flushed.                                                   *)
AnswersBounded ==
  \A k \in Key : Fresh(k) => \E t \in Ttl : cacheNow - cache[k].asOf <= t + CallTimeout

(* Nobody joins a call that has settled: an entry of the map, and whatever *)
(* a request awaits, is a call still running for its key.                  *)
JoinedCallsRun ==
  /\ \A k \in Key : inflight[k] # NoRequest =>
       Running(inflight[k]) /\ key[inflight[k]] = k
  /\ \A r \in CacheRequest : awaits[r] # NoRequest => Running(awaits[r])

(* The coalescer: concurrent identical calls are one upstream request.     *)
CoalescedIntoOne ==
  \A r, s \in CacheRequest :
    Running(r) /\ Running(s) /\ key[r] = key[s] /\ key[r] \notin Cacheable => r = s

(* The deduplication of cacheable calls does so within its window as long  *)
(* as no other call for the key settles between the two.                   *)
Overlap(r, s) ==
  /\ r # s /\ Running(r) /\ Running(s)
  /\ key[r] = key[s] /\ key[r] \in Cacheable
  /\ startedAt[r] <= startedAt[s] /\ startedAt[s] - startedAt[r] < Window
OverlapsExplained ==
  \A r, s \in CacheRequest :
    Overlap(r, s) => before[s] >= startedAt[r] \/ before[r] >= startedAt[s]

(* What these rest on: a call ends in time, so an entry expires within a   *)
(* TTL and a call of the moment its value was asked for; and the map has a *)
(* call from its start, or a later one for the key, or one has settled     *)
(* since, which never happens to a coalesced call.                         *)
CallsEndInTime ==
  \A r \in CacheRequest : Running(r) => cacheNow <= startedAt[r] + CallTimeout
EntriesExpire ==
  \A k \in Key :
    cache[k].expiresAt = 0 \/ \E t \in Ttl : cache[k].expiresAt <= cache[k].asOf + CallTimeout + t
InMapOrSettled ==
  \A r \in CacheRequest : Running(r) =>
    LET k == key[r] IN
    \/ inflight[k] = r
    \/ /\ k \in Cacheable
       /\ \/ settledAt[k] >= startedAt[r]
          \/ inflight[k] # NoRequest /\ startedAt[inflight[k]] >= startedAt[r]

(* Together: answers are of bounded age, and calls are shared while they   *)
(* run and only then.                                                      *)
CacheInv ==
  /\ CacheTypeOK /\ AnswersBounded /\ JoinedCallsRun /\ CoalescedIntoOne
  /\ OverlapsExplained /\ CallsEndInTime /\ EntriesExpire /\ InMapOrSettled
=============================================================================
