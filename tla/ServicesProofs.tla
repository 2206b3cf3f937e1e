--------------------------- MODULE ServicesProofs ----------------------------
(***************************************************************************)
(* Theorems about the services of the API that keep their state in memory, *)
(* its dead letters and its audit trail, the readers of WASM files, and    *)
(* the token fixture.  They share no state, so each is proved of its own   *)
(* specification.                                                          *)
(***************************************************************************)
EXTENDS RpcCache, NetworkHealth, DeadLetters, AuditLog, RateLimits, WasmReader, TokenFixture,
        FiniteSetTheorems, SequenceTheorems, WellFoundedInduction, TLAPS

(* What stands for induction: a set of numbers has a least one.            *)
LEMMA LeastNumber ==
  ASSUME NEW S \in SUBSET Nat, S # {}
  PROVE  \E n \in S : n \in Nat /\ \A m \in S : n <= m
<1>1. PICK n \in S : \A y \in S : <<y, n>> \notin OpToRel(<, Nat)
  BY NatLessThanWellFounded, WFMin, Zenon
<1>2. \A y \in S : ~ (y < n)
  BY <1>1, Zenon DEF OpToRel
<1>3. n \in Nat /\ \A y \in S : n <= y
  BY <1>2
<1> QED BY <1>3

-----------------------------------------------------------------------------
(* Proofs about RpcCache for every set of keys and requests, every TTL,    *)
(* window and timeout: CacheInv is inductive, one lemma for each of its    *)
(* parts that a step can disturb.                                          *)

LEMMA KeyExists == AnyKey \in Key
BY CacheAssumption DEF AnyKey

LEMMA EntryTypes ==
  /\ NoEntry \in Entry /\ NoEntry.asOf = 0 /\ NoEntry.expiresAt = 0
  /\ \A a, e \in Nat : /\ [asOf |-> a, expiresAt |-> e] \in Entry
                       /\ [asOf |-> a, expiresAt |-> e].asOf = a
                       /\ [asOf |-> a, expiresAt |-> e].expiresAt = e
BY DEF Entry, NoEntry

(* An answer of bounded age and one call per coalesced key follow from the *)
(* rest.                                                                   *)
LEMMA BoundedFromExpiry ==
  ASSUME CacheTypeOK, EntriesExpire
  PROVE  AnswersBounded
<1>1. SUFFICES ASSUME NEW k \in Key, Fresh(k)
               PROVE  \E t \in Ttl : cacheNow - cache[k].asOf <= t + CallTimeout
  BY DEF AnswersBounded
<1>2. /\ cacheNow \in Nat \ {0} /\ cache[k].asOf \in Nat /\ cache[k].expiresAt \in Nat
      /\ cacheNow <= cache[k].expiresAt
  BY <1>1 DEF CacheTypeOK, Fresh, Entry
<1>3. PICK t \in Ttl : cache[k].expiresAt <= cache[k].asOf + CallTimeout + t
  BY <1>2 DEF EntriesExpire
<1>4. t \in Nat /\ CallTimeout \in Nat
  BY CacheAssumption
<1>5. cacheNow - cache[k].asOf <= t + CallTimeout
  BY <1>2, <1>3, <1>4
<1> QED BY <1>5

LEMMA CoalescedFromMap ==
  ASSUME InMapOrSettled
  PROVE  CoalescedIntoOne
BY DEF InMapOrSettled, CoalescedIntoOne

(* What a step has to keep.                                                *)
CacheCore ==
  /\ CacheTypeOK /\ JoinedCallsRun /\ OverlapsExplained
  /\ CallsEndInTime /\ EntriesExpire /\ InMapOrSettled

LEMMA CacheCoreIsInv == CacheInv <=> CacheCore
BY BoundedFromExpiry, CoalescedFromMap DEF CacheInv, CacheCore

LEMMA CacheBegins == CacheInit => CacheCore
<1>1. SUFFICES ASSUME CacheInit PROVE CacheCore
  OBVIOUS
<1>2. \A r \in CacheRequest : ~ Running(r)
  BY <1>1, CacheAssumption DEF CacheInit, Running
<1>3. CacheTypeOK
  BY <1>1, EntryTypes, KeyExists DEF CacheInit, CacheTypeOK
<1>4. JoinedCallsRun
  BY <1>1 DEF CacheInit, JoinedCallsRun
<1>5. OverlapsExplained /\ CallsEndInTime /\ InMapOrSettled
  BY <1>2 DEF OverlapsExplained, Overlap, CallsEndInTime, InMapOrSettled
<1>6. EntriesExpire
  BY <1>1, EntryTypes DEF CacheInit, EntriesExpire
<1> QED BY <1>3, <1>4, <1>5, <1>6 DEF CacheCore

-----------------------------------------------------------------------------
(* Deleting entries keeps them bounded.                                    *)
LEMMA DroppedEntries ==
  ASSUME CacheTypeOK, EntriesExpire, NEW D \in SUBSET Key, UNCHANGED cacheNow,
         cache' = [k \in Key |-> IF k \in D THEN NoEntry ELSE cache[k]]
  PROVE  /\ cache' \in [Key -> Entry] /\ \A k \in Key : cache'[k].asOf <= cacheNow'
         /\ EntriesExpire'
<1>1. \A k \in Key : cache'[k] = NoEntry \/ cache'[k] = cache[k]
  OBVIOUS
<1>2. cache' \in [Key -> Entry]
  BY EntryTypes DEF CacheTypeOK
<1>3. \A k \in Key : cache'[k].asOf <= cacheNow'
  BY <1>1, EntryTypes DEF CacheTypeOK
<1>4. EntriesExpire'
  BY <1>1, EntryTypes DEF EntriesExpire
<1> QED BY <1>2, <1>3, <1>4

LEMMA MissDrops ==
  ASSUME CacheTypeOK, EntriesExpire, NEW k \in Key, Missed(k), UNCHANGED cacheNow
  PROVE  /\ cache' \in [Key -> Entry] /\ \A j \in Key : cache'[j].asOf <= cacheNow'
         /\ EntriesExpire'
<1>1. cache' = [j \in Key |-> IF j \in {k} THEN NoEntry ELSE cache[j]]
  BY DEF Missed, CacheTypeOK
<1> QED BY <1>1, DroppedEntries

(* Steps that leave the calls, the map and the settled stamps alone.       *)
LEMMA CallsUntouched ==
  ASSUME CacheCore, UNCHANGED <<inflight, callVars, awaits, settledAt>>
  PROVE  JoinedCallsRun' /\ OverlapsExplained' /\ InMapOrSettled'
BY DEF CacheCore, callVars, JoinedCallsRun, OverlapsExplained, Overlap, InMapOrSettled, Running

LEMMA JoinStep ==
  ASSUME CacheCore, NEW r \in CacheRequest, NEW k \in Key, Join(r, k)
  PROVE  CacheCore'
<1> USE DEF CacheCore
<1>1. inflight[k] \in CacheRequest /\ Running(inflight[k]) /\ ~ Running(r)
  BY CacheAssumption DEF Join, Joinable, CacheTypeOK, JoinedCallsRun, Running
<1>2. \A s \in CacheRequest : (Running(s)' <=> Running(s)) /\ (s # r => awaits'[s] = awaits[s])
  BY <1>1 DEF Join, CacheTypeOK, Running
<1>3. awaits' \in [CacheRequest -> CacheRequest \cup {NoRequest}] /\ awaits'[r] = inflight[k]
  BY <1>1 DEF Join, CacheTypeOK
<1>4. UNCHANGED <<cacheNow, ttl, inflight, key, startedAt, before, settledAt>>
  BY DEF Join, callVars
<1>5. CacheTypeOK' /\ EntriesExpire'
  <2>1. /\ cache' \in [Key -> Entry] /\ \A j \in Key : cache'[j].asOf <= cacheNow'
        /\ EntriesExpire'
    BY <1>4, MissDrops DEF Join
  <2> QED BY <1>3, <1>4, <2>1 DEF CacheTypeOK
<1>6. JoinedCallsRun'
  <2>1. \A s \in CacheRequest : awaits[s] # NoRequest => awaits[s] \in CacheRequest
    BY DEF CacheTypeOK
  <2>2. \A j \in Key : inflight[j] # NoRequest => inflight[j] \in CacheRequest
    BY DEF CacheTypeOK
  <2> QED BY <1>1, <1>2, <1>3, <1>4, <2>1, <2>2 DEF JoinedCallsRun
<1>7. CallsEndInTime'
  BY <1>2, <1>4 DEF CallsEndInTime
<1>8. OverlapsExplained' /\ InMapOrSettled'
  BY <1>2, <1>4 DEF OverlapsExplained, Overlap, InMapOrSettled
<1> QED BY <1>5, <1>6, <1>7, <1>8

LEMMA CallStep ==
  ASSUME CacheCore, NEW r \in CacheRequest, NEW k \in Key, Call(r, k)
  PROVE  CacheCore'
<1> USE DEF CacheCore
<1>1. ~ Running(r) /\ \A j \in Key : inflight[j] # r
  BY CacheAssumption DEF Call, Running, JoinedCallsRun
<1>2. /\ awaits' = [awaits EXCEPT ![r] = r] /\ key' = [key EXCEPT ![r] = k]
      /\ startedAt' = [startedAt EXCEPT ![r] = cacheNow]
      /\ before' = [before EXCEPT ![r] = settledAt[k]]
      /\ inflight' = [inflight EXCEPT ![k] = r]
      /\ UNCHANGED <<cacheNow, ttl, settledAt>>
  BY DEF Call, Registered
<1>3. /\ awaits'[r] = r /\ key'[r] = k /\ startedAt'[r] = cacheNow /\ before'[r] = settledAt[k]
      /\ \A s \in CacheRequest \ {r} :
           /\ awaits'[s] = awaits[s] /\ key'[s] = key[s] /\ startedAt'[s] = startedAt[s]
           /\ before'[s] = before[s]
      /\ inflight'[k] = r /\ \A j \in Key \ {k} : inflight'[j] = inflight[j]
  BY <1>2 DEF CacheTypeOK
<1>4. CacheTypeOK' /\ EntriesExpire'
  <2>1. /\ cache' \in [Key -> Entry] /\ \A j \in Key : cache'[j].asOf <= cacheNow'
        /\ EntriesExpire'
    BY <1>2, MissDrops DEF Call
  <2>2. \A s \in CacheRequest : startedAt'[s] <= cacheNow'
    BY <1>2, <1>3 DEF CacheTypeOK
  <2>3. /\ cacheNow' \in Nat \ {0} /\ ttl' \in [Key -> Ttl]
        /\ inflight' \in [Key -> CacheRequest \cup {NoRequest}]
        /\ key' \in [CacheRequest -> Key] /\ startedAt' \in [CacheRequest -> Nat]
        /\ awaits' \in [CacheRequest -> CacheRequest \cup {NoRequest}]
        /\ settledAt' \in [Key -> Nat] /\ before' \in [CacheRequest -> Nat]
    BY <1>2 DEF CacheTypeOK
  <2> QED BY <2>1, <2>2, <2>3 DEF CacheTypeOK
<1>5. \A s \in CacheRequest \ {r} : Running(s)' <=> Running(s)
  BY <1>3 DEF Running
<1>6. Running(r)'
  BY <1>3 DEF Running
<1>7. JoinedCallsRun'
  <2>1. \A s \in CacheRequest : awaits[s] # NoRequest => awaits[s] \in CacheRequest \ {r}
    BY <1>1 DEF CacheTypeOK, JoinedCallsRun
  <2>2. \A j \in Key : inflight[j] # NoRequest => inflight[j] \in CacheRequest \ {r}
    BY <1>1 DEF CacheTypeOK
  <2>3. ASSUME NEW j \in Key, inflight'[j] # NoRequest
        PROVE  Running(inflight[j])' /\ key'[inflight'[j]] = j
    <3>1. CASE j = k
      BY <3>1, <1>3, <1>6
    <3>2. CASE j # k
      BY <3>2, <2>2, <2>3, <1>3, <1>5 DEF JoinedCallsRun
    <3> QED BY <3>1, <3>2
  <2>4. ASSUME NEW s \in CacheRequest, awaits'[s] # NoRequest
        PROVE  Running(awaits[s])'
    <3>1. CASE s = r
      BY <3>1, <1>3, <1>6
    <3>2. CASE s # r
      BY <3>2, <2>1, <2>4, <1>3, <1>5 DEF JoinedCallsRun
    <3> QED BY <3>1, <3>2
  <2> QED BY <2>3, <2>4 DEF JoinedCallsRun
<1>8. CallsEndInTime'
  <2>1. cacheNow <= cacheNow + CallTimeout
    BY CacheAssumption DEF CacheTypeOK
  <2> QED BY <2>1, <1>2, <1>3, <1>5 DEF CallsEndInTime
<1>9. \* A call of the same key that the map no longer has, or has not young enough.
      ASSUME NEW s \in CacheRequest \ {r}, Running(s), key[s] = k
      PROVE  /\ k \in Cacheable
             /\ cacheNow - startedAt[s] < Window => settledAt[k] >= startedAt[s]
  <2>1. CASE inflight[k] = s
    <3>1. s # NoRequest
      BY CacheAssumption
    <3> QED BY <2>1, <3>1 DEF Call, Joinable
  <2>2. CASE inflight[k] # s
    <3>1. /\ k \in Cacheable
          /\ \/ settledAt[k] >= startedAt[s]
             \/ inflight[k] # NoRequest /\ startedAt[inflight[k]] >= startedAt[s]
      BY <2>2, <1>9 DEF InMapOrSettled
    <3>2. ASSUME inflight[k] # NoRequest, startedAt[inflight[k]] >= startedAt[s]
          PROVE  ~ (cacheNow - startedAt[s] < Window)
      <4>1. inflight[k] \in CacheRequest
        BY <3>2 DEF CacheTypeOK
      <4>2. /\ cacheNow \in Nat /\ startedAt[s] \in Nat /\ startedAt[inflight[k]] \in Nat
            /\ Window \in Nat
        BY <4>1, CacheAssumption DEF CacheTypeOK
      <4>3. ~ (cacheNow - startedAt[inflight[k]] < Window)
        BY <3>1, <3>2 DEF Call, Joinable
      <4> QED BY <3>2, <4>2, <4>3
    <3> QED BY <3>1, <3>2
  <2> QED BY <2>1, <2>2
<1>10. InMapOrSettled'
  <2>1. SUFFICES ASSUME NEW s \in CacheRequest, Running(s)'
                 PROVE  \/ inflight'[key'[s]] = s
                        \/ /\ key'[s] \in Cacheable
                           /\ \/ settledAt'[key'[s]] >= startedAt'[s]
                              \/ /\ inflight'[key'[s]] # NoRequest
                                 /\ startedAt'[inflight'[key'[s]]] >= startedAt'[s]
    BY DEF InMapOrSettled
  <2>2. CASE s = r
    BY <2>2, <1>3
  <2>3. CASE s # r /\ key[s] = k
    <3>1. k \in Cacheable /\ startedAt'[inflight'[k]] = cacheNow /\ r # NoRequest
      BY <2>1, <2>3, <1>3, <1>5, <1>9, CacheAssumption
    <3>2. cacheNow >= startedAt[s]
      BY DEF CacheTypeOK
    <3> QED BY <2>3, <3>1, <3>2, <1>3
  <2>4. CASE s # r /\ key[s] # k
    <3>1. key[s] \in Key /\ inflight[key[s]] # r
      BY <1>1 DEF CacheTypeOK
    <3>2. inflight[key[s]] # NoRequest => inflight[key[s]] \in CacheRequest \ {r}
      BY <3>1 DEF CacheTypeOK
    <3> QED BY <2>1, <2>4, <3>1, <3>2, <1>2, <1>3, <1>5 DEF InMapOrSettled
  <2> QED BY <2>2, <2>3, <2>4
<1>11. OverlapsExplained'
  <2>1. SUFFICES ASSUME NEW a \in CacheRequest, NEW b \in CacheRequest, Overlap(a, b)'
                 PROVE  before'[b] >= startedAt'[a] \/ before'[a] >= startedAt'[b]
    BY DEF OverlapsExplained
  <2>2. CASE a # r /\ b # r
    BY <2>1, <2>2, <1>3, <1>5 DEF OverlapsExplained, Overlap
  <2>3. CASE b = r
    <3>1. a # r /\ Running(a) /\ key[a] = k /\ cacheNow - startedAt[a] < Window
      BY <2>1, <2>3, <1>3, <1>5 DEF Overlap
    <3> QED BY <3>1, <2>3, <1>3, <1>9
  <2>4. CASE a = r
    <3>1. b # r /\ Running(b) /\ key[b] = k /\ cacheNow <= startedAt[b]
      BY <2>1, <2>4, <1>3, <1>5 DEF Overlap
    <3>2. cacheNow - startedAt[b] < Window
      BY <3>1, CacheAssumption DEF CacheTypeOK
    <3> QED BY <3>1, <3>2, <2>4, <1>3, <1>9
  <2> QED BY <2>2, <2>3, <2>4
<1> QED BY <1>4, <1>7, <1>8, <1>10, <1>11

LEMMA SettleStep ==
  ASSUME CacheCore, NEW r \in CacheRequest, NEW good \in BOOLEAN, Settle(r, good)
  PROVE  CacheCore'
<1> USE DEF CacheCore
<1> DEFINE k == key[r]
<1>1. k \in Key /\ Running(r) /\ UNCHANGED <<cacheNow, ttl>>
  BY DEF Settle, CacheTypeOK
<1>2. /\ awaits' = [s \in CacheRequest |-> IF awaits[s] = r THEN NoRequest ELSE awaits[s]]
      /\ key' = [key EXCEPT ![r] = AnyKey]
      /\ startedAt' = [startedAt EXCEPT ![r] = 0]
      /\ before' = [before EXCEPT ![r] = 0]
      /\ inflight' = [inflight EXCEPT ![k] = NoRequest]
      /\ settledAt' = [settledAt EXCEPT ![k] = cacheNow]
  BY DEF Settle, Unregistered, Answered
<1>3. cache' = IF good /\ k \in Cacheable
               THEN [cache EXCEPT ![k] = [asOf |-> startedAt[r], expiresAt |-> cacheNow + ttl[k]]]
               ELSE cache
  BY DEF Settle
<1> HIDE DEF k
<1>4. /\ \A s \in CacheRequest \ {r} :
           key'[s] = key[s] /\ startedAt'[s] = startedAt[s] /\ before'[s] = before[s]
      /\ startedAt'[r] = 0
      /\ inflight'[k] = NoRequest /\ \A j \in Key \ {k} : inflight'[j] = inflight[j]
      /\ settledAt'[k] = cacheNow /\ \A j \in Key \ {k} : settledAt'[j] = settledAt[j]
  BY <1>1, <1>2 DEF CacheTypeOK
<1>5. ~ Running(r)' /\ \A s \in CacheRequest \ {r} : Running(s)' <=> Running(s)
  BY <1>1, <1>2, CacheAssumption DEF Running
<1>6. \A x \in CacheRequest : Running(x) /\ key[x] # k => x # r
  BY DEF k
<1>7. cacheNow \in Nat \ {0} /\ ttl[k] \in Ttl /\ ttl[k] \in Nat /\ startedAt[r] \in Nat
  BY <1>1, CacheAssumption DEF CacheTypeOK
<1>8. startedAt[r] <= cacheNow /\ cacheNow <= startedAt[r] + CallTimeout
  BY <1>1 DEF CacheTypeOK, CallsEndInTime
<1>9. \A j \in Key :
        \/ cache'[j] = cache[j]
        \/ j = k /\ cache'[j] = [asOf |-> startedAt[r], expiresAt |-> cacheNow + ttl[k]]
  BY <1>3 DEF CacheTypeOK
<1>10. cacheNow + ttl[k] \in Nat
  BY <1>7
<1>11. CacheTypeOK'
  <2>1. cache' \in [Key -> Entry]
    BY <1>3, <1>7, <1>10, EntryTypes DEF CacheTypeOK
  <2>2. \A j \in Key : cache'[j].asOf <= cacheNow'
    BY <1>1, <1>7, <1>8, <1>9, <1>10, EntryTypes DEF CacheTypeOK
  <2>3. \A s \in CacheRequest : startedAt'[s] <= cacheNow'
    BY <1>1, <1>4, <1>7 DEF CacheTypeOK
  <2>4. awaits' \in [CacheRequest -> CacheRequest \cup {NoRequest}]
    BY <1>2 DEF CacheTypeOK
  <2>5. /\ cacheNow' \in Nat \ {0} /\ ttl' \in [Key -> Ttl]
        /\ inflight' \in [Key -> CacheRequest \cup {NoRequest}]
        /\ key' \in [CacheRequest -> Key] /\ startedAt' \in [CacheRequest -> Nat]
        /\ settledAt' \in [Key -> Nat] /\ before' \in [CacheRequest -> Nat]
    BY <1>1, <1>2, KeyExists DEF CacheTypeOK
  <2> QED BY <2>1, <2>2, <2>3, <2>4, <2>5 DEF CacheTypeOK
<1>12. EntriesExpire'
  <2>1. SUFFICES ASSUME NEW j \in Key
                 PROVE  \/ cache'[j].expiresAt = 0
                        \/ \E t \in Ttl : cache'[j].expiresAt <= cache'[j].asOf + CallTimeout + t
    BY DEF EntriesExpire
  <2>2. CASE cache'[j] = cache[j]
    BY <2>2 DEF EntriesExpire
  <2>3. CASE cache'[j] = [asOf |-> startedAt[r], expiresAt |-> cacheNow + ttl[k]]
    <3>1. cache'[j].asOf = startedAt[r] /\ cache'[j].expiresAt = cacheNow + ttl[k]
      BY <2>3
    <3>2. cacheNow + ttl[k] <= startedAt[r] + CallTimeout + ttl[k]
      BY <1>7, <1>8, CacheAssumption
    <3> QED BY <3>1, <3>2, <1>7
  <2> QED BY <2>2, <2>3, <1>9
<1>13. JoinedCallsRun'
  <2>1. ASSUME NEW j \in Key, inflight'[j] # NoRequest
        PROVE  Running(inflight[j])' /\ key'[inflight'[j]] = j
    <3>1. j # k /\ inflight'[j] = inflight[j] /\ inflight[j] \in CacheRequest
      BY <2>1, <1>4 DEF CacheTypeOK
    <3>2. Running(inflight[j]) /\ key[inflight[j]] = j /\ inflight[j] # r
      BY <2>1, <3>1, <1>6 DEF JoinedCallsRun
    <3> QED BY <3>1, <3>2, <1>4, <1>5
  <2>2. ASSUME NEW s \in CacheRequest, awaits'[s] # NoRequest
        PROVE  Running(awaits[s])'
    <3>1. awaits'[s] = awaits[s] /\ awaits[s] # r /\ awaits[s] \in CacheRequest
      BY <2>2, <1>2 DEF CacheTypeOK
    <3>2. Running(awaits[s])
      BY <2>2, <3>1 DEF JoinedCallsRun
    <3> QED BY <3>1, <3>2, <1>5
  <2> QED BY <2>1, <2>2 DEF JoinedCallsRun
<1>14. CallsEndInTime'
  BY <1>1, <1>4, <1>5 DEF CallsEndInTime
<1>15. OverlapsExplained'
  BY <1>4, <1>5 DEF OverlapsExplained, Overlap
<1>16. InMapOrSettled'
  <2>1. SUFFICES ASSUME NEW s \in CacheRequest, Running(s)'
                 PROVE  \/ inflight'[key'[s]] = s
                        \/ /\ key'[s] \in Cacheable
                           /\ \/ settledAt'[key'[s]] >= startedAt'[s]
                              \/ /\ inflight'[key'[s]] # NoRequest
                                 /\ startedAt'[inflight'[key'[s]]] >= startedAt'[s]
    BY DEF InMapOrSettled
  <2>2. s # r /\ Running(s) /\ key'[s] = key[s] /\ startedAt'[s] = startedAt[s] /\ key[s] \in Key
    BY <2>1, <1>4, <1>5 DEF CacheTypeOK
  <2>3. CASE key[s] = k
    <3>1. k \in Cacheable
      BY <1>1, <2>2, <2>3 DEF InMapOrSettled, k
    <3>2. cacheNow >= startedAt[s]
      BY DEF CacheTypeOK
    <3> QED BY <2>2, <2>3, <3>1, <3>2, <1>4
  <2>4. CASE key[s] # k
    <3>1. inflight'[key[s]] = inflight[key[s]] /\ settledAt'[key[s]] = settledAt[key[s]]
      BY <2>2, <2>4, <1>4
    <3>2. inflight[key[s]] # NoRequest => inflight[key[s]] \in CacheRequest \ {r}
      BY <2>2, <2>4, <1>6 DEF JoinedCallsRun, CacheTypeOK
    <3> QED BY <2>2, <2>4, <3>1, <3>2, <1>4 DEF InMapOrSettled
  <2> QED BY <2>3, <2>4
<1> QED BY <1>11, <1>12, <1>13, <1>14, <1>15, <1>16

LEMMA InvalidateStep ==
  ASSUME CacheCore, NEW K \in SUBSET Cacheable, Invalidate(K)
  PROVE  CacheCore'
<1> USE DEF CacheCore
<1>1. /\ UNCHANGED <<cacheNow, ttl, inflight, callVars, awaits, settledAt>>
      /\ cache' = [k \in Key |-> IF k \in K THEN NoEntry ELSE cache[k]]
  BY DEF Invalidate
<1>2. /\ cache' \in [Key -> Entry] /\ \A k \in Key : cache'[k].asOf <= cacheNow'
      /\ EntriesExpire'
  <2>1. K \in SUBSET Key
    BY CacheAssumption
  <2> QED BY <2>1, <1>1, DroppedEntries
<1>3. CacheTypeOK' /\ CallsEndInTime'
  BY <1>1, <1>2 DEF CacheTypeOK, CallsEndInTime, Running, callVars
<1>4. JoinedCallsRun' /\ OverlapsExplained' /\ InMapOrSettled'
  BY <1>1, CallsUntouched
<1> QED BY <1>2, <1>3, <1>4

LEMMA SetTtlStep ==
  ASSUME CacheCore, NEW k \in Cacheable, NEW t \in Ttl, SetTtl(k, t)
  PROVE  CacheCore'
<1> USE DEF CacheCore
<1>1. /\ UNCHANGED <<cacheNow, cache, inflight, callVars, awaits, settledAt>>
      /\ ttl' = [ttl EXCEPT ![k] = t]
  BY DEF SetTtl
<1>2. CacheTypeOK' /\ CallsEndInTime' /\ EntriesExpire'
  BY <1>1 DEF CacheTypeOK, CallsEndInTime, EntriesExpire, Running, callVars
<1>3. JoinedCallsRun' /\ OverlapsExplained' /\ InMapOrSettled'
  BY <1>1, CallsUntouched
<1> QED BY <1>2, <1>3

LEMMA TickStep ==
  ASSUME CacheCore, CacheTick
  PROVE  CacheCore'
<1> USE DEF CacheCore
<1>1. /\ UNCHANGED <<ttl, cache, inflight, callVars, awaits, settledAt>>
      /\ cacheNow' = cacheNow + 1 /\ cacheNow \in Nat \ {0}
  BY DEF CacheTick, CacheTypeOK
<1>2. CacheTypeOK'
  <2>1. cacheNow' \in Nat \ {0} /\ \A n \in Nat : n <= cacheNow => n <= cacheNow'
    BY <1>1
  <2>2. \A k \in Key : cache[k].asOf \in Nat
    BY DEF CacheTypeOK, Entry
  <2> QED BY <1>1, <2>1, <2>2 DEF CacheTypeOK, callVars
<1>3. CallsEndInTime'
  <2>1. SUFFICES ASSUME NEW r \in CacheRequest, Running(r)'
                 PROVE  cacheNow' <= startedAt'[r] + CallTimeout
    BY DEF CallsEndInTime
  <2>2. cacheNow < startedAt[r] + CallTimeout
    BY <2>1, <1>1 DEF CacheTick, Running
  <2>3. startedAt[r] \in Nat /\ startedAt'[r] = startedAt[r] /\ CallTimeout \in Nat
    BY <1>1, CacheAssumption DEF CacheTypeOK, callVars
  <2> QED BY <2>2, <2>3, <1>1
<1>4. EntriesExpire'
  BY <1>1 DEF EntriesExpire
<1>5. JoinedCallsRun' /\ OverlapsExplained' /\ InMapOrSettled'
  BY <1>1, CallsUntouched
<1> QED BY <1>2, <1>3, <1>4, <1>5

-----------------------------------------------------------------------------
LEMMA Unmoved ==
  ASSUME CacheCore, UNCHANGED cacheVars
  PROVE  CacheCore'
<1> USE DEF CacheCore
<1>1. UNCHANGED <<cacheNow, ttl, cache, inflight, callVars, awaits, settledAt>>
  BY DEF cacheVars
<1>2. CacheTypeOK' /\ CallsEndInTime' /\ EntriesExpire'
  BY <1>1 DEF CacheTypeOK, CallsEndInTime, EntriesExpire, Running, callVars
<1>3. JoinedCallsRun' /\ OverlapsExplained' /\ InMapOrSettled'
  BY <1>1, CallsUntouched
<1> QED BY <1>2, <1>3

LEMMA CacheSteps == CacheCore /\ [CacheNext]_cacheVars => CacheCore'
<1> SUFFICES ASSUME CacheCore, [CacheNext]_cacheVars
             PROVE  CacheCore'
  OBVIOUS
<1>1. ASSUME NEW r \in CacheRequest, NEW k \in Key, Hit(r, k) \/ Join(r, k) \/ Call(r, k)
      PROVE  CacheCore'
  BY <1>1, Unmoved, JoinStep, CallStep DEF Hit
<1>2. ASSUME NEW r \in CacheRequest, NEW good \in BOOLEAN, Settle(r, good)
      PROVE  CacheCore'
  BY <1>2, SettleStep
<1>3. ASSUME NEW K \in SUBSET Cacheable, Invalidate(K)
      PROVE  CacheCore'
  BY <1>3, InvalidateStep
<1>4. ASSUME NEW k \in Cacheable, NEW t \in Ttl, SetTtl(k, t)
      PROVE  CacheCore'
  BY <1>4, SetTtlStep
<1>5. CASE CacheTick
  BY <1>5, TickStep
<1>6. CASE UNCHANGED cacheVars
  BY <1>6, Unmoved
<1> QED BY <1>1, <1>2, <1>3, <1>4, <1>5, <1>6 DEF CacheNext

(* An answer is no older than a TTL and a call, identical calls of a       *)
(* method that is not cached are one, and cached ones overlap within the   *)
(* window only if one of them settled in between.                          *)
THEOREM CacheIsHonest == CacheSpec => []CacheInv
<1>1. CacheSpec => []CacheCore
  BY CacheBegins, CacheSteps, PTL DEF CacheSpec
<1>2. CacheInv <=> CacheCore
  BY CacheCoreIsInv
<1> QED BY <1>1, <1>2, PTL

(* What a client is handed from the cache: however late answers arrive and *)
(* whatever was flushed, what it says was asked for at most a TTL and a    *)
(* call ago.                                                               *)
THEOREM AnswersAreBounded == CacheSpec => []AnswersBounded
<1>1. CacheInv => AnswersBounded
  BY DEF CacheInv
<1> QED BY <1>1, CacheIsHonest, PTL

(* The request coalescer sends no two identical requests at once.          *)
THEOREM OneCallAtATime == CacheSpec => []CoalescedIntoOne
<1>1. CacheInv => CoalescedIntoOne
  BY DEF CacheInv
<1> QED BY <1>1, CacheIsHonest, PTL

-----------------------------------------------------------------------------
(* The promises of NetworkHealth for any number of networks and requests,  *)
(* any probe timeout and any time to live: a network is probed once at a   *)
(* time, and what is told of it is recent.                                 *)
(*                                                                         *)
(* OneProbeForAll is not inductive: the code looks in the inflight map, so *)
(* the map must hold exactly the networks under probe (MapIsTrue).  That a *)
(* payload is recent is decided when its probe ends, so probes must end in *)
(* time (ProbesEnd), and an expiry be a bounded while after the stamp      *)
(* (StampsBound).                                                          *)

Probed == {p.of : p \in probes}

MapIsTrue == shared = Probed
ProbesEnd == \A p \in probes : time <= p.since + ProbeTimeout
StampsBound ==
  \A n \in HealthNetwork :
    \/ payload[n].expiresAt = 0
    \/ payload[n].expiresAt <= payload[n].asOf + ProbeTimeout + HealthTtl

ClockRuns == time >= 1

HealthCore == ClockRuns /\ HealthTypeOK /\ OneProbeForAll /\ MapIsTrue /\ ProbesEnd /\ StampsBound

LEMMA HealthBegins == HealthInit => HealthCore
<1> SUFFICES ASSUME HealthInit PROVE HealthCore
  OBVIOUS
<1>1. HealthTypeOK
  BY DEF HealthInit, HealthTypeOK
<1>2. OneProbeForAll /\ MapIsTrue /\ ProbesEnd
  BY DEF HealthInit, OneProbeForAll, MapIsTrue, Probed, ProbesEnd
<1>3. StampsBound /\ ClockRuns
  BY DEF HealthInit, StampsBound, ClockRuns
<1> QED BY <1>1, <1>2, <1>3 DEF HealthCore

(* Whoever asks starts probes of networks that nobody probes.              *)
LEMMA AskHealthHolds ==
  ASSUME HealthCore, NEW v \in Visitor, NEW N \in SUBSET HealthNetwork, Ask(v, N)
  PROVE  HealthCore'
<1> DEFINE missing == {n \in N : ~ Cached(n)}
           new == [of : missing \ shared, since : {time}]
<1>1. /\ waits' = [waits EXCEPT ![v] = missing]
      /\ probes' = probes \cup new
      /\ shared' = shared \cup missing
      /\ time' = time /\ payload' = payload
      /\ missing \subseteq HealthNetwork
  BY DEF Ask
<1>2. \A p \in new : p.of \in missing \ shared /\ p.since = time
  OBVIOUS
<1>3. \A n \in missing \ shared : \E p \in new : p.of = n
  <2>1. ASSUME NEW n \in missing \ shared PROVE [of |-> n, since |-> time] \in new
    OBVIOUS
  <2> QED BY <2>1
<1>4. \A p, q \in new : p.of = q.of => p = q
  OBVIOUS
<1> HIDE DEF missing, new
<1>5. Probed' = Probed \cup (missing \ shared)
  BY <1>1, <1>2, <1>3 DEF Probed
<1>6. MapIsTrue'
  BY <1>1, <1>5 DEF HealthCore, MapIsTrue
<1>7. HealthTypeOK'
  <2>1. probes' \subseteq [of : HealthNetwork, since : 1 .. time]
    <3>1. new \subseteq [of : HealthNetwork, since : 1 .. time]
      <4>1. time \in 1 .. time
        BY DEF HealthCore, HealthTypeOK, ClockRuns
      <4> QED BY <4>1, <1>1 DEF new
    <3> QED BY <1>1, <3>1 DEF HealthCore, HealthTypeOK
  <2> QED BY <1>1, <2>1 DEF HealthCore, HealthTypeOK
<1>8. OneProbeForAll'
  <2>1. ASSUME NEW p \in probes', NEW q \in probes', p.of = q.of PROVE p = q
    <3>1. \A r \in probes : r.of \in shared
      BY DEF HealthCore, MapIsTrue, Probed
    <3> QED BY <1>1, <1>2, <1>4, <2>1, <3>1 DEF HealthCore, OneProbeForAll
  <2>2. ASSUME NEW w \in Visitor PROVE waits'[w] \subseteq Probed'
    <3>1. waits[w] \subseteq Probed
      BY DEF HealthCore, OneProbeForAll, Probed
    <3>2. missing \subseteq Probed'
      BY <1>5 DEF HealthCore, MapIsTrue
    <3> QED BY <1>1, <1>5, <3>1, <3>2 DEF HealthCore, HealthTypeOK
  <2> QED BY <2>1, <2>2 DEF OneProbeForAll, Probed
<1>9. ProbesEnd'
  BY <1>1, <1>2, HealthAssumption DEF HealthCore, ProbesEnd, HealthTypeOK
<1>10. StampsBound' /\ ClockRuns'
  BY <1>1 DEF HealthCore, StampsBound, ClockRuns
<1> QED BY <1>6, <1>7, <1>8, <1>9, <1>10 DEF HealthCore

(* A probe ends: nobody waits for its network any more.                    *)
LEMMA ProbeEndHolds ==
  ASSUME HealthCore, NEW p \in probes, ProbeEnds(p)
  PROVE  HealthCore'
<1>1. /\ payload' = [payload EXCEPT ![p.of] = [asOf |-> p.since, expiresAt |-> time + HealthTtl]]
      /\ probes' = probes \ {p}
      /\ shared' = shared \ {p.of}
      /\ waits' = [v \in Visitor |-> waits[v] \ {p.of}]
      /\ time' = time
  BY DEF ProbeEnds, Stamped, Forgets
<1>2. p.of \in HealthNetwork /\ p.since \in 1 .. time /\ time \in Nat
  BY DEF HealthCore, HealthTypeOK
<1>3. Probed' = Probed \ {p.of}
  BY <1>1 DEF HealthCore, OneProbeForAll, Probed
<1>4. HealthTypeOK'
  <2>1. p.since \in 0 .. time /\ time + HealthTtl \in Nat
    BY <1>2, HealthAssumption
  <2>2. payload' \in [HealthNetwork -> [asOf : 0 .. time, expiresAt : Nat]]
    BY <1>1, <1>2, <2>1 DEF HealthCore, HealthTypeOK
  <2> QED BY <1>1, <2>2 DEF HealthCore, HealthTypeOK
<1>5. OneProbeForAll'
  <2>1. \A q, r \in probes' : q.of = r.of => q = r
    BY <1>1 DEF HealthCore, OneProbeForAll
  <2>2. \A v \in Visitor : waits'[v] \subseteq Probed'
    BY <1>1, <1>3 DEF HealthCore, OneProbeForAll, Probed
  <2> QED BY <2>1, <2>2 DEF OneProbeForAll, Probed
<1>6. MapIsTrue'
  BY <1>1, <1>3 DEF HealthCore, MapIsTrue
<1>7. ProbesEnd' /\ ClockRuns'
  BY <1>1 DEF HealthCore, ProbesEnd, ClockRuns
<1>8. StampsBound'
  <2>1. time <= p.since + ProbeTimeout
    BY DEF HealthCore, ProbesEnd
  <2>2. time + HealthTtl <= p.since + ProbeTimeout + HealthTtl
    BY <1>2, <2>1, HealthAssumption
  <2>3. ASSUME NEW n \in HealthNetwork
        PROVE \/ payload'[n].expiresAt = 0
              \/ payload'[n].expiresAt <= payload'[n].asOf + ProbeTimeout + HealthTtl
    <3>1. CASE n = p.of
      BY <1>1, <1>2, <2>2, <3>1 DEF HealthCore, HealthTypeOK
    <3>2. CASE n # p.of
      BY <1>1, <3>2 DEF HealthCore, HealthTypeOK, StampsBound
    <3> QED BY <3>1, <3>2
  <2> QED BY <2>3 DEF StampsBound
<1> QED BY <1>4, <1>5, <1>6, <1>7, <1>8 DEF HealthCore

(* Time passes only while every probe has some left.                       *)
LEMMA HealthTickHolds == ASSUME HealthCore, HealthTick PROVE HealthCore'
<1>1. /\ time' = time + 1 /\ time \in Nat
      /\ \A p \in probes : time < p.since + ProbeTimeout
      /\ payload' = payload /\ probes' = probes /\ shared' = shared /\ waits' = waits
  BY DEF HealthTick, HealthCore, HealthTypeOK
<1>2. HealthTypeOK'
  <2>1. 0 .. time \subseteq 0 .. time + 1 /\ 1 .. time \subseteq 1 .. time + 1
    BY <1>1
  <2>2. payload' \in [HealthNetwork -> [asOf : 0 .. time + 1, expiresAt : Nat]]
    BY <1>1, <2>1 DEF HealthCore, HealthTypeOK
  <2>3. probes' \subseteq [of : HealthNetwork, since : 1 .. time + 1]
    BY <1>1, <2>1 DEF HealthCore, HealthTypeOK
  <2> QED BY <1>1, <2>2, <2>3 DEF HealthCore, HealthTypeOK
<1>3. ProbesEnd'
  <2>1. \A p \in probes : p.since \in Nat
    BY DEF HealthCore, HealthTypeOK
  <2> QED BY <1>1, <2>1, HealthAssumption DEF ProbesEnd
<1>4. OneProbeForAll' /\ MapIsTrue' /\ StampsBound' /\ ClockRuns'
  BY <1>1 DEF HealthCore, OneProbeForAll, MapIsTrue, Probed, StampsBound, ClockRuns
<1> QED BY <1>2, <1>3, <1>4 DEF HealthCore

LEMMA HealthSteps == HealthCore /\ [HealthNext]_healthVars => HealthCore'
<1> SUFFICES ASSUME HealthCore, [HealthNext]_healthVars PROVE HealthCore'
  OBVIOUS
<1>1. ASSUME NEW v \in Visitor, NEW n \in HealthNetwork, Ask(v, {n}) PROVE HealthCore'
  BY <1>1, AskHealthHolds
<1>2. ASSUME NEW v \in Visitor, Ask(v, HealthNetwork) PROVE HealthCore'
  BY <1>2, AskHealthHolds
<1>3. ASSUME NEW p \in probes, ProbeEnds(p) PROVE HealthCore'
  BY <1>3, ProbeEndHolds
<1>4. CASE HealthTick
  BY <1>4, HealthTickHolds
<1>5. CASE UNCHANGED healthVars
  BY <1>5 DEF healthVars, HealthCore, HealthTypeOK, OneProbeForAll, MapIsTrue, Probed,
              ProbesEnd, StampsBound, ClockRuns
<1> QED BY <1>1, <1>2, <1>3, <1>4, <1>5 DEF HealthNext

(* What is cached is within its expiry, and so within the bound.           *)
LEMMA HealthBoundsTell == HealthCore => HealthInv
<1> SUFFICES ASSUME HealthCore PROVE HealthInv
  OBVIOUS
<1>1. ASSUME NEW n \in HealthNetwork, Cached(n)
      PROVE  time <= payload[n].asOf + ProbeTimeout + HealthTtl
  <2>1. /\ time \in Nat /\ payload[n].asOf \in Nat /\ payload[n].expiresAt \in Nat
        /\ time < payload[n].expiresAt
    BY <1>1 DEF HealthCore, HealthTypeOK, Cached
  <2>2. payload[n].expiresAt <= payload[n].asOf + ProbeTimeout + HealthTtl
    BY <2>1 DEF HealthCore, StampsBound
  <2> QED BY <2>1, <2>2, HealthAssumption
<1> QED BY <1>1 DEF HealthCore, HealthInv, HealthIsRecent

(* getHealth and getAllHealth: whoever asks for a network shares the probe *)
(* that is under way, nobody waits for one that is not, and what is told   *)
(* is at most a probe and a time to live old.                              *)
THEOREM HealthHolds == HealthSpec => []HealthInv
  BY HealthBegins, HealthSteps, HealthBoundsTell, PTL DEF HealthSpec

-----------------------------------------------------------------------------
(* DeadLetters for any number of jobs and retries.  What a retry has read  *)
(* may be old, and then its write forgets the ones it has missed: so the   *)
(* proof needs that what was read, and what was missed since, make up for  *)
(* the events sent (ReadsAccount); and that a row which was never written  *)
(* over counts them exactly.                                               *)
EmittedAccount == \A j \in DeadJob : emitted[j] <= letters[j].retryCount + overtaken[j]

ReadsAccount ==
  \A r \in Retry, j \in DeadJob : retrying[r].of = {j} =>
    LET read == retrying[r].read IN
    /\ letters[j].status # "none" /\ read.maxRetries = letters[j].maxRetries
    /\ emitted[j] <= read.retryCount + retrying[r].missed + overtaken[j]
    /\ retrying[r].missed = 0 => read.retryCount = letters[j].retryCount
    /\ overtaken[j] = 0 => read.retryCount <= letters[j].retryCount

FailedIsSpent ==
  \A j \in DeadJob : letters[j].status = "failed" /\ overtaken[j] = 0 =>
    letters[j].retryCount = letters[j].maxRetries

NoRowIsEmpty == \A j \in DeadJob : letters[j].status = "none" => letters[j] = NoLetter

LettersCore == LettersTypeOK /\ EmittedAccount /\ ReadsAccount /\ FailedIsSpent /\ NoRowIsEmpty

LEMMA RowTypes ==
  /\ NoLetter \in Letter /\ NoLetter.status = "none"
  /\ NoLetter.retryCount = 0 /\ NoLetter.maxRetries = 0
BY DeadLetterAssumption DEF NoLetter, Letter

LEMMA LettersBegin == LettersInit => LettersCore
<1> SUFFICES ASSUME LettersInit PROVE LettersCore
  OBVIOUS
<1>1. \A j \in DeadJob : letters[j] = NoLetter /\ emitted[j] = 0 /\ overtaken[j] = 0
  BY DEF LettersInit
<1>2. \A r \in Retry : retrying[r].of = {}
  BY DEF LettersInit, NoRetry
<1>3. LettersTypeOK
  BY <1>1, RowTypes, DeadLetterAssumption DEF LettersInit, LettersTypeOK, NoRetry
<1> QED
  BY <1>1, <1>2, <1>3, RowTypes
     DEF LettersCore, EmittedAccount, ReadsAccount, FailedIsSpent, NoRowIsEmpty

LEMMA EnqueueHolds ==
  ASSUME LettersCore, NEW j \in DeadJob, NEW max \in 0 .. MaxRetries, EnqueueLetter(j, max)
  PROVE  LettersCore'
<1> DEFINE row == [status |-> "pending", retryCount |-> 0, maxRetries |-> max]
<1>1. /\ letters' = [letters EXCEPT ![j] = row]
      /\ retrying' = retrying /\ emitted' = emitted /\ overtaken' = overtaken
  BY DEF EnqueueLetter
<1>2. letters[j] = NoLetter /\ letters[j].status = "none"
  BY DEF EnqueueLetter, LettersCore, NoRowIsEmpty
<1>3. /\ row \in Letter /\ row.status = "pending" /\ row.retryCount = 0
      /\ row.maxRetries = max /\ max \in Nat
  BY DeadLetterAssumption DEF Letter
<1> HIDE DEF row
<1>4. /\ letters'[j] = row /\ \A k \in DeadJob \ {j} : letters'[k] = letters[k]
      /\ letters' \in [DeadJob -> Letter]
  BY <1>1, <1>3 DEF LettersCore, LettersTypeOK
<1>5. LettersTypeOK'
  BY <1>1, <1>3, <1>4 DEF LettersCore, LettersTypeOK
<1>6. EmittedAccount' /\ FailedIsSpent' /\ NoRowIsEmpty'
  BY <1>1, <1>2, <1>3, <1>4, RowTypes
     DEF LettersCore, EmittedAccount, FailedIsSpent, NoRowIsEmpty
<1>7. ReadsAccount'
  BY <1>1, <1>2, <1>4 DEF LettersCore, ReadsAccount
<1> QED BY <1>5, <1>6, <1>7 DEF LettersCore

LEMMA ReadForRetryHolds ==
  ASSUME LettersCore, NEW r \in Retry, NEW j \in DeadJob, ReadForRetry(r, j)
  PROVE  LettersCore'
<1> DEFINE call == [of |-> {j}, read |-> letters[j], missed |-> 0]
<1>1. /\ retrying' = [retrying EXCEPT ![r] = call]
      /\ letters' = letters /\ emitted' = emitted /\ overtaken' = overtaken
      /\ letters[j].status # "none"
  BY DEF ReadForRetry
<1>2. call.of = {j} /\ call.read = letters[j] /\ call.missed = 0
  OBVIOUS
<1>3. LettersTypeOK'
  BY <1>1 DEF LettersCore, LettersTypeOK
<1> HIDE DEF call
<1>4. retrying'[r] = call /\ \A s \in Retry \ {r} : retrying'[s] = retrying[s]
  BY <1>1 DEF LettersCore, LettersTypeOK
<1>5. letters[j].retryCount \in Nat /\ emitted[j] \in Nat /\ overtaken[j] \in Nat
  BY DEF LettersCore, LettersTypeOK, Letter
<1>6. ReadsAccount'
  BY <1>1, <1>2, <1>4, <1>5 DEF LettersCore, ReadsAccount, EmittedAccount
<1> QED
  BY <1>1, <1>3, <1>6 DEF LettersCore, EmittedAccount, FailedIsSpent, NoRowIsEmpty

(* What a write is about to do, of the row it writes.                      *)
LEMMA ReadBounds ==
  ASSUME LettersCore, NEW r \in Retry, NEW j \in DeadJob, retrying[r].of = {j}
  PROVE  /\ letters[j].retryCount \in Nat /\ letters[j].maxRetries \in 0 .. MaxRetries
         /\ letters[j].retryCount <= letters[j].maxRetries /\ letters[j].status # "none"
         /\ emitted[j] \in Nat /\ overtaken[j] \in Nat /\ retrying[r].missed \in Nat
         /\ retrying[r].read.retryCount \in Nat
         /\ retrying[r].read.maxRetries = letters[j].maxRetries
         /\ emitted[j] <= retrying[r].read.retryCount + retrying[r].missed + overtaken[j]
         /\ retrying[r].missed = 0 => retrying[r].read.retryCount = letters[j].retryCount
         /\ overtaken[j] = 0 => retrying[r].read.retryCount <= letters[j].retryCount
<1>1. letters[j] \in Letter /\ letters[j].retryCount <= letters[j].maxRetries
  BY DEF LettersCore, LettersTypeOK
<1>2. retrying[r].read \in Letter /\ retrying[r].missed \in Nat
  BY DEF LettersCore, LettersTypeOK
<1>3. emitted[j] \in Nat /\ overtaken[j] \in Nat
  BY DEF LettersCore, LettersTypeOK
<1> QED BY <1>1, <1>2, <1>3 DEF LettersCore, ReadsAccount, Letter

LEMMA WriteFailedHolds ==
  ASSUME LettersCore, NEW r \in Retry, NEW j \in DeadJob, WriteFailed(r, j)
  PROVE  LettersCore'
<1>1. /\ letters' = [letters EXCEPT ![j].status = "failed"]
      /\ retrying' = [retrying EXCEPT ![r] = NoRetry]
      /\ emitted' = emitted /\ overtaken' = overtaken
      /\ retrying[r].of = {j} /\ Spent(retrying[r].read)
  BY DEF WriteFailed
<1>2. letters \in [DeadJob -> Letter]
  BY DEF LettersCore, LettersTypeOK
<1>3. /\ letters' \in [DeadJob -> Letter]
      /\ letters'[j].status = "failed"
      /\ letters'[j].retryCount = letters[j].retryCount
      /\ letters'[j].maxRetries = letters[j].maxRetries
      /\ \A k \in DeadJob \ {j} : letters'[k] = letters[k]
  BY <1>1, <1>2 DEF Letter
<1>4. /\ retrying'[r] = NoRetry /\ NoRetry.of = {}
      /\ \A s \in Retry \ {r} : retrying'[s] = retrying[s]
  BY <1>1 DEF LettersCore, LettersTypeOK, NoRetry
<1>5. LettersTypeOK'
  BY <1>1, <1>3, RowTypes DEF LettersCore, LettersTypeOK, NoRetry
<1>6. ReadsAccount'
  BY <1>1, <1>3, <1>4, SMTT(30) DEF LettersCore, ReadsAccount
<1>7. overtaken[j] = 0 => letters[j].retryCount = letters[j].maxRetries
  BY <1>1, ReadBounds DEF Spent
<1>8. EmittedAccount' /\ FailedIsSpent' /\ NoRowIsEmpty'
  BY <1>1, <1>3, <1>7 DEF LettersCore, EmittedAccount, FailedIsSpent, NoRowIsEmpty
<1> QED BY <1>5, <1>6, <1>8 DEF LettersCore

(* A retry that is overtaken has missed one more.                          *)
LEMMA OvertakesCounts ==
  ASSUME LettersTypeOK, NEW r \in Retry, NEW j \in DeadJob, Overtakes(r, j)
  PROVE  /\ retrying'[r].of = {}
         /\ \A s \in Retry \ {r} :
              /\ retrying'[s].of = retrying[s].of /\ retrying'[s].read = retrying[s].read
              /\ retrying'[s].missed =
                   IF retrying[s].of = {j} THEN retrying[s].missed + 1 ELSE retrying[s].missed
         /\ retrying' \in
              [Retry -> [of : {{}} \cup {{k} : k \in DeadJob}, read : Letter, missed : Nat]]
<1> DEFINE Held == [of : {{}} \cup {{k} : k \in DeadJob}, read : Letter, missed : Nat]
<1>1. NoRetry \in Held /\ NoRetry.of = {}
  BY RowTypes DEF NoRetry
<1>2. ASSUME NEW s \in Retry \ {r}
      PROVE  /\ retrying'[s] \in Held
             /\ retrying'[s].of = retrying[s].of /\ retrying'[s].read = retrying[s].read
             /\ retrying'[s].missed =
                  IF retrying[s].of = {j} THEN retrying[s].missed + 1 ELSE retrying[s].missed
  <2>1. retrying[s] \in Held
    BY DEF LettersTypeOK
  <2>2. retrying'[s] = [retrying[s] EXCEPT !.missed =
                          IF retrying[s].of = {j} THEN retrying[s].missed + 1
                          ELSE retrying[s].missed]
    BY DEF Overtakes
  <2> QED BY <2>1, <2>2
<1>3. retrying'[r] = NoRetry /\ DOMAIN retrying' = Retry
  BY DEF Overtakes
<1>4. retrying' = [s \in Retry |-> retrying'[s]]
  BY DEF Overtakes
<1> QED BY <1>1, <1>2, <1>3, <1>4

LEMMA WriteRetryHolds ==
  ASSUME LettersCore, NEW r \in Retry, NEW j \in DeadJob, WriteRetry(r, j)
  PROVE  LettersCore'
<1> DEFINE read == retrying[r].read
           missed == retrying[r].missed
<1>1. /\ letters' = [letters EXCEPT ![j].retryCount = CountedOnce(read),
                                    ![j].status = "pending"]
      /\ emitted' = [emitted EXCEPT ![j] = @ + 1]
      /\ overtaken' = [overtaken EXCEPT ![j] = @ + missed]
      /\ Overtakes(r, j) /\ emitted[j] < MaxCalls
      /\ retrying[r].of = {j} /\ ~ Spent(read)
  BY DEF WriteRetry
<1>2. letters \in [DeadJob -> Letter] /\ LettersTypeOK
  BY DEF LettersCore, LettersTypeOK
<1>3. /\ letters[j].maxRetries \in Nat /\ letters[j].maxRetries <= MaxRetries
      /\ read.retryCount \in Nat
      /\ read.retryCount < letters[j].maxRetries
  BY <1>1, ReadBounds, DeadLetterAssumption DEF Spent
<1>4. /\ letters' \in [DeadJob -> Letter]
      /\ letters'[j].status = "pending"
      /\ letters'[j].retryCount = read.retryCount + 1
      /\ letters'[j].maxRetries = letters[j].maxRetries
      /\ \A k \in DeadJob \ {j} : letters'[k] = letters[k]
  <2>1. read.retryCount + 1 \in 0 .. MaxRetries + 1
    BY <1>3, DeadLetterAssumption
  <2> QED BY <1>1, <1>2, <2>1 DEF Letter, CountedOnce
<1>5. /\ emitted' \in [DeadJob -> 0 .. MaxCalls] /\ overtaken' \in [DeadJob -> Nat]
      /\ emitted'[j] = emitted[j] + 1 /\ overtaken'[j] = overtaken[j] + missed
      /\ \A k \in DeadJob \ {j} : emitted'[k] = emitted[k] /\ overtaken'[k] = overtaken[k]
  BY <1>1, ReadBounds, DeadLetterAssumption DEF LettersCore, LettersTypeOK
<1>6. LettersTypeOK'
  BY <1>1, <1>2, <1>3, <1>4, <1>5, OvertakesCounts DEF LettersTypeOK
<1>7. EmittedAccount'
  BY <1>1, <1>4, <1>5, ReadBounds DEF LettersCore, EmittedAccount
<1>8. ASSUME NEW s \in Retry, NEW k \in DeadJob, retrying'[s].of = {k}
      PROVE  /\ letters'[k].status # "none"
             /\ retrying'[s].read.maxRetries = letters'[k].maxRetries
             /\ emitted'[k] <=
                  retrying'[s].read.retryCount + retrying'[s].missed + overtaken'[k]
             /\ retrying'[s].missed = 0 =>
                  retrying'[s].read.retryCount = letters'[k].retryCount
             /\ overtaken'[k] = 0 =>
                  retrying'[s].read.retryCount <= letters'[k].retryCount
  <2>1. s # r /\ retrying[s].of = {k} /\ retrying'[s].read = retrying[s].read
    BY <1>1, <1>2, <1>8, OvertakesCounts
  <2>2. CASE k = j
    <3>1. retrying'[s].missed = retrying[s].missed + 1
      BY <1>1, <1>2, <2>1, <2>2, OvertakesCounts
    <3>2. /\ overtaken[j] = 0 => retrying[s].read.retryCount <= letters[j].retryCount
          /\ missed = 0 => read.retryCount = letters[j].retryCount
          /\ missed \in Nat /\ overtaken[j] \in Nat /\ letters[j].retryCount \in Nat
          /\ retrying[s].read.retryCount \in Nat
      BY <1>1, <2>1, <2>2, ReadBounds
    <3>3. /\ emitted[j] <= retrying[s].read.retryCount + retrying[s].missed + overtaken[j]
          /\ retrying[s].missed \in Nat /\ emitted[j] \in Nat
          /\ retrying[s].read.maxRetries = letters[j].maxRetries
      BY <2>1, <2>2, ReadBounds
    <3> QED BY <1>3, <1>4, <1>5, <2>1, <2>2, <3>1, <3>2, <3>3
  <2>3. CASE k # j
    <3>1. {k} # {j}
      BY <2>3
    <3>2. retrying'[s].missed = retrying[s].missed
      BY <1>1, <1>2, <2>1, <3>1, OvertakesCounts
    <3> QED BY <1>4, <1>5, <2>1, <2>3, <3>2, ReadBounds
  <2> QED BY <2>2, <2>3
<1>9. ReadsAccount'
  BY <1>8 DEF ReadsAccount
<1>10. FailedIsSpent' /\ NoRowIsEmpty'
  BY <1>4, <1>5 DEF LettersCore, FailedIsSpent, NoRowIsEmpty
<1> QED BY <1>6, <1>7, <1>9, <1>10 DEF LettersCore

LEMMA LettersSteps == LettersCore /\ [LettersNext]_letterVars => LettersCore'
<1> SUFFICES ASSUME LettersCore, [LettersNext]_letterVars PROVE LettersCore'
  OBVIOUS
<1>1. CASE UNCHANGED letterVars
  BY <1>1 DEF letterVars, LettersCore, LettersTypeOK, EmittedAccount, ReadsAccount,
              FailedIsSpent, NoRowIsEmpty
<1> QED
  BY <1>1, EnqueueHolds, ReadForRetryHolds, WriteRetryHolds, WriteFailedHolds DEF LettersNext

(* retry: a job is retried as often as its row allows, once more for every *)
(* retry whose count another one wrote over, and it fails only when its    *)
(* retries are used up.                                                    *)
THEOREM LettersHold == LettersSpec => []LettersInv
<1>1. LettersCore => LettersInv
  <2> SUFFICES ASSUME LettersCore, NEW j \in DeadJob
               PROVE  emitted[j] <= letters[j].maxRetries + overtaken[j]
    BY DEF LettersCore, LettersInv, RetriesBoundedUnlessOvertaken, FailedIsSpent
  <2>1. /\ letters[j].retryCount \in Nat /\ letters[j].maxRetries \in Nat
        /\ letters[j].retryCount <= letters[j].maxRetries
        /\ emitted[j] \in Nat /\ overtaken[j] \in Nat
    BY DEF LettersCore, LettersTypeOK, Letter
  <2> QED BY <2>1 DEF LettersCore, EmittedAccount
<1> QED BY LettersBegin, LettersSteps, <1>1, PTL DEF LettersSpec

-----------------------------------------------------------------------------
(* AuditLog for any number of rows, any lag and any size of a page.  The   *)
(* rows are in a strict order, as no two share an id; Rank counts those    *)
(* above one.  A walk with a cursor has shown nothing below its cursor,    *)
(* and owes nothing above it.  A walk with offsets owes, but for ties,     *)
(* only rows whose rank is no less than where its next page begins.        *)
Rank(R, r) == Cardinality({s \in R : Above(s, r)})
Ordered(R) == R \subseteq Row /\ IsFiniteSet(R) /\ \A a, b \in R : a.id = b.id => a = b

CursorHasOne == walk.after = {} \/ \E c \in Row : walk.after = {c}
ShownWereRows == \A s \in shown : s.id \in used /\ \A r \in rows : r.id = s.id => r = s
ShownIsAboveCursor ==
  walk.kind = "cursor" /\ ~ walk.over =>
    /\ walk.after = {} => shown = {}
    /\ \A s \in shown, c \in walk.after : ~ Above(c, s)
TiesAreShown(r) == \E s \in shown : s.at = r.at
OffsetsOwe ==
  walk.kind = "offset" /\ ~ torn =>
    \A r \in owed :
      TiesAreShown(r) \/ (~ walk.over /\ Rank(rows, r) >= walk.skip + walk.got)
OffsetsCount ==
  /\ walk.kind = "offset" /\ ~ torn /\ walk.counted => walk.total >= Cardinality(rows)
  /\ ~ walk.read => walk.got = 0
TakesSome == ~ walk.over => walk.take \in Take

AuditCore ==
  /\ AuditTypeOK /\ IsFiniteSet(rows) /\ CursorHasOne /\ ShownWereRows
  /\ CursorWalksAreStable /\ ShownIsAboveCursor /\ OffsetsOwe /\ OffsetsCount /\ TakesSome

LEMMA LeastNatural ==
  ASSUME NEW S \in SUBSET Nat, S # {}
  PROVE  \E x \in S : \A y \in S : x <= y
<1>1. PICK x \in S : \A y \in S : <<y, x>> \notin OpToRel(<, Nat)
  BY NatLessThanWellFounded, WFMin, Zenon
<1>2. \A y \in S : ~ (y < x)
  BY <1>1, Zenon DEF OpToRel
<1> QED BY <1>2

LEMMA AboveIsOrder ==
  /\ \A a, b \in Row : Above(a, b) => ~ Above(b, a) /\ a # b
  /\ \A a, b \in Row : a.id # b.id => Above(a, b) \/ Above(b, a)
  /\ \A a, b, c \in Row : Above(a, b) /\ Above(b, c) => Above(a, c)
<1>1. \A a \in Row : a.at \in Nat /\ a.id \in Nat
  BY AuditAssumption DEF Row
<1> QED BY <1>1 DEF Above

LEMMA RanksAreNumbers ==
  ASSUME NEW R, IsFiniteSet(R), NEW r
  PROVE  /\ IsFiniteSet({s \in R : Above(s, r)}) /\ Rank(R, r) \in Nat
         /\ Rank(R, r) <= Cardinality(R) /\ Cardinality(R) \in Nat
<1>1. {s \in R : Above(s, r)} \in SUBSET R
  OBVIOUS
<1> QED BY <1>1, FS_Subset, FS_CardinalityType DEF Rank

(* What is above others has the lower rank.                                *)
LEMMA RankGrows ==
  ASSUME NEW R, Ordered(R), NEW a \in R, NEW b \in R, Above(a, b)
  PROVE  Rank(R, a) < Rank(R, b)
<1> DEFINE A == {s \in R : Above(s, a)}
           B == {s \in R : Above(s, b)}
<1>1. R \subseteq Row /\ IsFiniteSet(R)
  BY DEF Ordered
<1>2. a \notin A /\ A \cup {a} \subseteq B
  BY <1>1, AboveIsOrder
<1>3. /\ IsFiniteSet(A) /\ IsFiniteSet(B) /\ Rank(R, a) = Cardinality(A)
      /\ Rank(R, b) = Cardinality(B) /\ Rank(R, a) \in Nat /\ Rank(R, b) \in Nat
  BY <1>1, RanksAreNumbers DEF Rank
<1> HIDE DEF A, B
<1>4. Cardinality(A \cup {a}) = Cardinality(A) + 1
  BY <1>2, <1>3, FS_AddElement
<1>5. A \cup {a} \in SUBSET B
  BY <1>2
<1>6. Cardinality(A \cup {a}) <= Cardinality(B)
  BY <1>3, <1>5, FS_Subset
<1> QED BY <1>3, <1>4, <1>6

LEMMA RankBelowSize ==
  ASSUME NEW R, Ordered(R), NEW r \in R
  PROVE  Rank(R, r) < Cardinality(R)
<1> DEFINE A == {s \in R : Above(s, r)}
<1>1. R \subseteq Row /\ IsFiniteSet(R)
  BY DEF Ordered
<1>2. r \notin A /\ A \cup {r} \in SUBSET R
  BY <1>1, AboveIsOrder
<1>3. IsFiniteSet(A) /\ Rank(R, r) = Cardinality(A) /\ Rank(R, r) \in Nat
  BY <1>1, RanksAreNumbers DEF Rank
<1> HIDE DEF A
<1>4. Cardinality(A \cup {r}) = Cardinality(A) + 1
  BY <1>2, <1>3, FS_AddElement
<1>5. Cardinality(A \cup {r}) <= Cardinality(R) /\ Cardinality(R) \in Nat
  BY <1>1, <1>2, FS_Subset, FS_CardinalityType
<1> QED BY <1>3, <1>4, <1>5

(* Of some rows, one is above all others, and one below.                   *)
LEMMA FirstAndLast ==
  ASSUME NEW R, Ordered(R), R # {}
  PROVE  /\ \E r \in R : Rank(R, r) = 0
         /\ Last(R) \in R /\ \A s \in R : s = Last(R) \/ Above(s, Last(R))
<1>1. R \subseteq Row /\ IsFiniteSet(R) /\ \A a, b \in R : a.id = b.id => a = b
  BY DEF Ordered
<1>2. \A r \in R : Rank(R, r) \in Nat /\ Rank(R, r) < Cardinality(R)
  BY <1>1, RanksAreNumbers, RankBelowSize
<1>3. \E r \in R : Rank(R, r) = 0
  <2> DEFINE ranks == {Rank(R, r) : r \in R}
  <2>1. ranks \in SUBSET Nat /\ ranks # {}
    BY <1>2
  <2>2. PICK x \in ranks : \A y \in ranks : x <= y
    BY <2>1, LeastNatural
  <2>3. PICK r \in R : Rank(R, r) = x
    BY <2>2
  <2>4. \A s \in R : ~ Above(s, r)
    <3> SUFFICES ASSUME NEW s \in R, Above(s, r) PROVE FALSE
      OBVIOUS
    <3>1. Rank(R, s) < Rank(R, r) /\ Rank(R, s) \in ranks
      BY RankGrows
    <3>2. Rank(R, r) <= Rank(R, s)
      BY <2>2, <2>3, <3>1
    <3> QED BY <1>2, <3>1, <3>2
  <2>5. {s \in R : Above(s, r)} = {}
    BY <2>4
  <2> QED BY <2>5, FS_EmptySet DEF Rank
<1>4. \E r \in R : \A s \in R : s = r \/ Above(s, r)
  <2> DEFINE n == Cardinality(R)
             ranks == {n - Rank(R, r) : r \in R}
  <2>1. n \in Nat
    BY <1>1, FS_CardinalityType
  <2>2. ranks \in SUBSET Nat /\ ranks # {}
    BY <1>2, <2>1
  <2>3. PICK x \in ranks : \A y \in ranks : x <= y
    BY <2>2, LeastNatural
  <2>4. PICK r \in R : n - Rank(R, r) = x
    BY <2>3
  <2>5. ASSUME NEW s \in R, s # r, ~ Above(s, r) PROVE FALSE
    <3>1. Above(r, s)
      BY <1>1, <2>5, AboveIsOrder
    <3>2. Rank(R, r) < Rank(R, s) /\ n - Rank(R, s) \in ranks
      BY <3>1, RankGrows
    <3>3. n - Rank(R, r) <= n - Rank(R, s)
      BY <2>3, <2>4, <3>2
    <3> QED BY <1>2, <2>1, <3>2, <3>3
  <2> QED BY <2>5
<1> QED BY <1>3, <1>4 DEF Last

(* The newest rows: all there are, or enough of them, and what is left     *)
(* lies below the last.                                                    *)
LEMMA NewestOnes ==
  ASSUME NEW R, Ordered(R), NEW n \in Nat \ {0}
  PROVE  /\ Newest(n, R) \subseteq R /\ Ordered(Newest(n, R))
         /\ Cardinality(R) <= n => Newest(n, R) = R
         /\ R # {} => Newest(n, R) # {}
         /\ \A r \in R \ Newest(n, R), s \in Newest(n, R) : Above(s, r)
<1> DEFINE page == Newest(n, R)
<1>1. R \subseteq Row /\ IsFiniteSet(R) /\ \A a, b \in R : a.id = b.id => a = b
  BY DEF Ordered
<1>2. /\ \A r \in R : Rank(R, r) \in Nat /\ Rank(R, r) < Cardinality(R)
      /\ Cardinality(R) \in Nat
  BY <1>1, RanksAreNumbers, RankBelowSize, FS_CardinalityType
<1>3. page \in SUBSET R /\ \A r \in R : r \in page <=> Rank(R, r) < n
  BY DEF Newest, Rank
<1>4. Ordered(page)
  BY <1>1, <1>3, FS_Subset DEF Ordered
<1> HIDE DEF page
<1>5. Cardinality(R) <= n => page = R
  BY <1>2, <1>3
<1>6. R # {} => page # {}
  BY <1>3, FirstAndLast
<1>7. ASSUME NEW r \in R \ page, NEW s \in page PROVE Above(s, r)
  <2>1. ~ Above(r, s)
    <3> SUFFICES ASSUME Above(r, s) PROVE FALSE
      OBVIOUS
    <3>1. Rank(R, r) < Rank(R, s)
      BY <1>3, RankGrows
    <3>2. Rank(R, s) < n /\ ~ (Rank(R, r) < n)
      BY <1>3
    <3> QED BY <1>2, <1>3, <3>1, <3>2
  <2>2. r.id # s.id
    BY <1>1, <1>3
  <2> QED BY <1>1, <1>3, <2>1, <2>2, AboveIsOrder
<1> QED BY <1>3, <1>4, <1>5, <1>6, <1>7 DEF page

LEMMA AuditFacts ==
  ASSUME AuditCore
  PROVE  /\ today \in Nat /\ rows \subseteq Row /\ used \subseteq 1 .. MaxRows
         /\ \A r, s \in rows : r.id = s.id => r = s
         /\ \A r \in rows : r.at <= today /\ r.id \in used
         /\ IsFiniteSet(rows) /\ Ordered(rows)
         /\ walk \in Walk /\ owed \subseteq rows /\ shown \subseteq Row
         /\ twice \in BOOLEAN /\ torn \in BOOLEAN
         /\ walk.skip \in Nat /\ walk.got \in Nat /\ walk.total \in Nat
         /\ walk.kind \in {"cursor", "offset"} /\ walk.over \in BOOLEAN
         /\ walk.read \in BOOLEAN /\ walk.counted \in BOOLEAN
         /\ ~ walk.over => walk.take \in Nat \ {0}
<1>1. /\ today \in 0 .. MaxStamp /\ rows \subseteq Row /\ used \subseteq 1 .. MaxRows
      /\ \A r, s \in rows : r.id = s.id => r = s
      /\ \A r \in rows : r.at <= today /\ r.id \in used
      /\ walk \in Walk /\ owed \subseteq rows /\ shown \subseteq Row
      /\ twice \in BOOLEAN /\ torn \in BOOLEAN /\ IsFiniteSet(rows)
  BY DEF AuditCore, AuditTypeOK
<1>2. Ordered(rows)
  BY <1>1 DEF Ordered
<1>3. today \in Nat
  BY <1>1, AuditAssumption
<1>4. /\ walk.skip \in Nat /\ walk.got \in Nat /\ walk.total \in Nat
      /\ walk.kind \in {"cursor", "offset"} /\ walk.over \in BOOLEAN
      /\ walk.read \in BOOLEAN /\ walk.counted \in BOOLEAN
  BY <1>1 DEF Walk
<1>5. ~ walk.over => walk.take \in Nat \ {0}
  BY AuditAssumption DEF AuditCore, TakesSome
<1> QED BY <1>1, <1>2, <1>3, <1>4, <1>5

LEMMA RanksRise ==
  ASSUME NEW R, NEW S, IsFiniteSet(S), R \subseteq S, NEW r
  PROVE  Rank(R, r) <= Rank(S, r) /\ Rank(R, r) \in Nat /\ Rank(S, r) \in Nat
<1>1. {s \in R : Above(s, r)} \in SUBSET {s \in S : Above(s, r)}
  OBVIOUS
<1>2. IsFiniteSet({s \in S : Above(s, r)}) /\ Rank(S, r) \in Nat
  BY RanksAreNumbers
<1>3. IsFiniteSet(R)
  BY FS_Subset
<1> QED BY <1>1, <1>2, <1>3, RanksAreNumbers, FS_Subset DEF Rank

LEMMA LogEntryHolds ==
  ASSUME AuditCore, NEW id \in 1 .. MaxRows, NEW at \in 0 .. MaxStamp, LogEntry(id, at)
  PROVE  AuditCore'
<1> DEFINE new == [at |-> at, id |-> id]
<1>1. /\ id \notin used /\ used' = used \cup {id} /\ at <= today /\ rows' = rows \cup {new}
      /\ torn' = (torn \/ walk.counted \/ walk.read)
      /\ UNCHANGED <<today, walk, owed, shown, twice>>
  BY DEF LogEntry, StampedNow
<1>2. new \in Row /\ new.id = id /\ new.at = at
  BY DEF Row
<1> HIDE DEF new
<1>3. IsFiniteSet(rows') /\ rows \subseteq rows' /\ rows' \subseteq Row
  BY <1>1, <1>2, AuditFacts, FS_AddElement
<1>4. /\ \A r, s \in rows' : r.id = s.id => r = s
      /\ \A r \in rows' : r.at <= today /\ r.id \in used'
  BY <1>1, <1>2, AuditFacts
<1>5. AuditTypeOK'
  BY <1>1, <1>3, <1>4, AuditFacts DEF AuditCore, AuditTypeOK
<1>6. CursorHasOne' /\ CursorWalksAreStable' /\ ShownIsAboveCursor' /\ TakesSome'
  BY <1>1 DEF AuditCore, CursorHasOne, CursorWalksAreStable, ShownIsAboveCursor, TakesSome
<1>7. ShownWereRows'
  BY <1>1, <1>2 DEF AuditCore, ShownWereRows
<1>8. OffsetsOwe'
  <2> SUFFICES ASSUME walk.kind = "offset", ~ torn, NEW r \in owed
               PROVE  TiesAreShown(r)' \/ (~ walk.over /\ Rank(rows', r) >= walk.skip + walk.got)
    BY <1>1, AuditFacts DEF OffsetsOwe
  <2>1. TiesAreShown(r)' <=> TiesAreShown(r)
    BY <1>1 DEF TiesAreShown
  <2>2. Rank(rows, r) <= Rank(rows', r) /\ Rank(rows, r) \in Nat /\ Rank(rows', r) \in Nat
    BY <1>3, RanksRise
  <2>3. TiesAreShown(r) \/ (~ walk.over /\ Rank(rows, r) >= walk.skip + walk.got)
    BY DEF AuditCore, OffsetsOwe
  <2>4. walk.skip \in Nat /\ walk.got \in Nat
    BY AuditFacts
  <2> QED BY <2>1, <2>2, <2>3, <2>4
<1>9. OffsetsCount'
  BY <1>1, AuditFacts DEF AuditCore, OffsetsCount
<1> QED BY <1>3, <1>5, <1>6, <1>7, <1>8, <1>9 DEF AuditCore

LEMMA PruneHolds ==
  ASSUME AuditCore, NEW cutoff \in 0 .. MaxStamp, Prune(cutoff)
  PROVE  AuditCore'
<1>1. /\ rows' = {r \in rows : r.at >= cutoff} /\ owed' = owed \cap rows'
      /\ UNCHANGED <<today, used, walk, shown, twice, torn>>
  BY DEF Prune
<1>2. IsFiniteSet(rows') /\ rows' \subseteq rows /\ Cardinality(rows') <= Cardinality(rows)
      /\ Cardinality(rows') \in Nat /\ Cardinality(rows) \in Nat
  BY <1>1, AuditFacts, FS_Subset, FS_CardinalityType
<1>3. AuditTypeOK'
  BY <1>1, <1>2, AuditFacts DEF AuditCore, AuditTypeOK
<1>4. CursorHasOne' /\ CursorWalksAreStable' /\ ShownIsAboveCursor' /\ TakesSome'
  BY <1>1 DEF AuditCore, CursorHasOne, CursorWalksAreStable, ShownIsAboveCursor, TakesSome
<1>5. ShownWereRows'
  BY <1>1 DEF AuditCore, ShownWereRows
<1>6. OffsetsOwe'
  <2> SUFFICES ASSUME walk.kind = "offset", ~ torn, NEW r \in owed, r \in rows'
               PROVE  TiesAreShown(r)' \/ (~ walk.over /\ Rank(rows', r) >= walk.skip + walk.got)
    BY <1>1 DEF OffsetsOwe
  <2>1. TiesAreShown(r)' <=> TiesAreShown(r)
    BY <1>1 DEF TiesAreShown
  <2>2. ASSUME NEW s \in rows, Above(s, r) PROVE s \in rows'
    <3>1. s.at \in Nat /\ r.at \in Nat /\ r.at >= cutoff /\ cutoff \in Nat
      BY <1>1, AuditFacts, AuditAssumption DEF Row
    <3> QED BY <1>1, <2>2, <3>1 DEF Above
  <2>3. {s \in rows' : Above(s, r)} = {s \in rows : Above(s, r)}
    BY <1>2, <2>2
  <2>4. Rank(rows', r) = Rank(rows, r)
    BY <2>3 DEF Rank
  <2> QED BY <2>1, <2>4 DEF AuditCore, OffsetsOwe
<1>7. OffsetsCount'
  BY <1>1, <1>2, AuditFacts DEF AuditCore, OffsetsCount
<1> QED BY <1>2, <1>3, <1>4, <1>5, <1>6, <1>7 DEF AuditCore

LEMMA NoWalkTypes ==
  /\ \A kind \in {"cursor", "offset"} : [NoWalk EXCEPT !.kind = kind] \in Walk
  /\ NoWalk.after = {} /\ NoWalk.skip = 0 /\ NoWalk.got = 0 /\ ~ NoWalk.counted /\ ~ NoWalk.read
  /\ NoWalk.over /\ NoWalk.kind = "cursor" /\ NoWalk \in Walk
BY DEF NoWalk, Walk

LEMMA BeginWalkHolds ==
  ASSUME AuditCore, NEW kind \in {"cursor", "offset"}, NEW take \in Take, BeginWalk(kind, take)
  PROVE  AuditCore'
<1>1. /\ walk' = [NoWalk EXCEPT !.kind = kind, !.over = FALSE, !.take = take]
      /\ owed' = rows /\ shown' = {} /\ twice' = FALSE /\ torn' = FALSE
      /\ UNCHANGED <<today, rows, used>>
  BY DEF BeginWalk
<1>2. /\ walk' \in Walk /\ walk'.kind = kind /\ ~ walk'.over /\ walk'.take = take
      /\ walk'.after = {} /\ walk'.skip = 0 /\ walk'.got = 0 /\ ~ walk'.counted /\ ~ walk'.read
  BY <1>1 DEF NoWalk, Walk
<1>3. AuditTypeOK'
  <2>1. Cardinality(walk'.after) <= 1
    BY <1>2, FS_EmptySet
  <2>2. /\ today' \in 0 .. MaxStamp /\ rows' \subseteq Row /\ used' \subseteq 1 .. MaxRows
        /\ owed' \subseteq rows' /\ shown' \subseteq Row /\ twice' \in BOOLEAN /\ torn' \in BOOLEAN
    BY <1>1 DEF AuditCore, AuditTypeOK
  <2>3. /\ \A r, s \in rows' : r.id = s.id => r = s
        /\ \A r \in rows' : r.at <= today' /\ r.id \in used'
    BY <1>1 DEF AuditCore, AuditTypeOK
  <2> QED BY <1>2, <2>1, <2>2, <2>3 DEF AuditTypeOK
<1>4. CursorHasOne' /\ CursorWalksAreStable' /\ ShownIsAboveCursor' /\ TakesSome' /\ ShownWereRows'
  BY <1>1, <1>2
     DEF CursorHasOne, CursorWalksAreStable, ShownIsAboveCursor, TakesSome, ShownWereRows
<1>5. OffsetsOwe' /\ OffsetsCount'
  <2>1. \A r \in rows : Rank(rows, r) \in Nat
    BY AuditFacts, RanksAreNumbers
  <2>2. \A r \in rows : Rank(rows', r) \in Nat
    BY <1>1, <2>1
  <2>3. \A r \in rows : Rank(rows', r) >= walk'.skip + walk'.got
    BY <1>2, <2>2
  <2> QED BY <1>1, <1>2, <2>3 DEF OffsetsOwe, OffsetsCount
<1> QED BY <1>1, <1>3, <1>4, <1>5 DEF AuditCore

(* A page of a walk with a cursor: the rows it shows lie below all shown   *)
(* before, and those it leaves below all it shows.                         *)
LEMMA CursorPageHolds ==
  ASSUME AuditCore, CursorPage
  PROVE  AuditCore'
<1> DEFINE left == {r \in rows : \A c \in walk.after : Below(r, c)}
           page == Newest(walk.take, left)
<1>1. /\ walk.kind = "cursor" /\ ~ walk.over /\ UNCHANGED <<today, rows, used, torn>>
      /\ owed' = owed \ page /\ shown' = shown \cup page
      /\ twice' = (twice \/ page \cap shown # {})
      /\ walk' = IF Cardinality(left) > walk.take THEN [walk EXCEPT !.after = {Last(page)}]
                 ELSE Ended
  BY DEF CursorPage, Shows
<1>2. /\ left \in SUBSET rows /\ Ordered(left)
      /\ Cardinality(left) \in Nat /\ (left = {} => Cardinality(left) = 0)
  BY AuditFacts, FS_Subset, FS_CardinalityType, FS_EmptySet DEF Ordered
<1>3. walk.take \in Nat \ {0}
  BY <1>1, AuditFacts
<1>4. /\ page \subseteq left /\ Ordered(page) /\ (Cardinality(left) <= walk.take => page = left)
      /\ (left # {} => page # {}) /\ \A r \in left \ page, s \in page : Above(s, r)
  BY <1>2, <1>3, NewestOnes
<1>5. owed \subseteq left
  BY <1>1, AuditFacts DEF AuditCore, CursorWalksAreStable, Below
<1>6. page \cap shown = {}
  <2> SUFFICES ASSUME NEW s \in page, s \in shown PROVE FALSE
    OBVIOUS
  <2>1. s \in left
    BY <1>4
  <2>2. PICK c \in Row : walk.after = {c}
    BY <1>1, <2>1 DEF AuditCore, ShownIsAboveCursor, CursorHasOne
  <2>3. Above(c, s)
    BY <2>1, <2>2 DEF Below
  <2>4. ~ Above(c, s)
    BY <1>1, <2>2 DEF AuditCore, ShownIsAboveCursor
  <2> QED BY <2>3, <2>4
<1>7. \A s \in shown, r \in left : ~ Above(r, s)
  <2> SUFFICES ASSUME NEW s \in shown, NEW r \in left, Above(r, s) PROVE FALSE
    OBVIOUS
  <2>1. PICK c \in Row : walk.after = {c}
    BY <1>1 DEF AuditCore, ShownIsAboveCursor, CursorHasOne
  <2>2. Above(c, r) /\ ~ Above(c, s)
    BY <1>1, <2>1 DEF AuditCore, ShownIsAboveCursor, Below
  <2>3. c \in Row /\ r \in Row /\ s \in Row
    BY <1>2, AuditFacts
  <2> QED BY <2>2, <2>3, AboveIsOrder
<1>8. page \subseteq rows /\ page \subseteq Row /\ left \subseteq Row
  BY <1>2, <1>4, AuditFacts
<1>9. ASSUME NEW s \in shown' PROVE s \in Row /\ s.id \in used
                                    /\ \A r \in rows : r.id = s.id => r = s
  BY <1>1, <1>8, AuditFacts DEF AuditCore, ShownWereRows
<1>10. twice' = FALSE /\ shown' \subseteq Row /\ owed' \subseteq rows
  <2>1. ~ twice
    BY <1>1 DEF AuditCore, CursorWalksAreStable
  <2> QED BY <1>1, <1>6, <1>9, <2>1, AuditFacts
<1> HIDE DEF page, left
<1>11. walk' \in Walk
  <2>1. Cardinality(left) > walk.take => page # {}
    BY <1>2, <1>3, <1>4
  <2>2. Cardinality(left) > walk.take => Last(page) \in Row
    BY <1>4, <1>8, <2>1, FirstAndLast
  <2> QED BY <1>1, <2>2, AuditFacts DEF Walk, Ended, NoWalk
<1>12. CASE Cardinality(left) > walk.take
  <2>1. page # {} /\ Last(page) \in page /\ \A s \in page : s = Last(page) \/ Above(s, Last(page))
    BY <1>2, <1>3, <1>4, <1>12, FirstAndLast
  <2>2. /\ walk'.after = {Last(page)} /\ ~ walk'.over /\ walk'.kind = "cursor"
        /\ walk'.take = walk.take /\ walk'.read = walk.read /\ walk'.got = walk.got
    BY <1>1, <1>12, AuditFacts DEF Walk
  <2> DEFINE last == Last(page)
  <2>3. last \in page /\ last \in Row /\ last \in left
    BY <1>4, <1>8, <2>1
  <2> HIDE DEF last
  <2>4. walk'.after = {last}
    BY <2>2 DEF last
  <2>5. \A r \in owed' : Above(last, r)
    BY <1>1, <1>4, <1>5, <2>3
  <2>6. \A s \in shown' : ~ Above(last, s)
    <3>1. \A s \in page : s = last \/ Above(s, last)
      BY <2>1 DEF last
    <3>2. \A s \in page : ~ Above(last, s)
      BY <1>8, <2>3, <3>1, AboveIsOrder
    <3> QED BY <1>1, <1>7, <2>3, <3>2
  <2>7. Cardinality(walk'.after) <= 1
    <3>1. Cardinality({last}) = 1
      BY FS_Singleton
    <3> QED BY <2>4, <3>1
  <2>8. AuditTypeOK'
    BY <1>1, <1>10, <1>11, <2>7, AuditFacts DEF AuditCore, AuditTypeOK
  <2>9. CursorHasOne' /\ CursorWalksAreStable' /\ ShownIsAboveCursor'
    BY <1>10, <2>2, <2>3, <2>4, <2>5, <2>6
       DEF CursorHasOne, CursorWalksAreStable, ShownIsAboveCursor
  <2>10. ShownWereRows'
    BY <1>1, <1>9 DEF ShownWereRows
  <2>11. OffsetsOwe' /\ OffsetsCount' /\ TakesSome'
    BY <1>1, <2>2 DEF AuditCore, OffsetsOwe, OffsetsCount, TakesSome
  <2> QED BY <1>1, <2>8, <2>9, <2>10, <2>11 DEF AuditCore
<1>13. CASE ~ (Cardinality(left) > walk.take)
  <2>1. owed' = {}
    BY <1>1, <1>2, <1>3, <1>4, <1>5, <1>13
  <2>2. walk' = [NoWalk EXCEPT !.kind = "cursor"]
    BY <1>1, <1>13 DEF Ended
  <2>3. /\ walk' \in Walk /\ walk'.after = {} /\ walk'.over /\ walk'.kind = "cursor"
        /\ walk'.got = 0
    BY <2>2, NoWalkTypes DEF NoWalk
  <2>4. Cardinality(walk'.after) <= 1
    BY <2>3, FS_EmptySet
  <2>5. AuditTypeOK'
    BY <1>1, <1>10, <2>3, <2>4, AuditFacts DEF AuditCore, AuditTypeOK
  <2>6. CursorHasOne' /\ CursorWalksAreStable' /\ ShownIsAboveCursor'
    BY <1>10, <2>1, <2>3 DEF CursorHasOne, CursorWalksAreStable, ShownIsAboveCursor
  <2>7. ShownWereRows'
    BY <1>1, <1>9 DEF ShownWereRows
  <2>8. OffsetsOwe' /\ OffsetsCount' /\ TakesSome'
    BY <2>3 DEF OffsetsOwe, OffsetsCount, TakesSome
  <2> QED BY <1>1, <2>5, <2>6, <2>7, <2>8 DEF AuditCore
<1> QED BY <1>12, <1>13

(* A page with an offset: of the rows it leaves, one whose rank is not     *)
(* below the offset shares its stamp with a row of the page, or its rank   *)
(* is not below the end of the page either.                                *)
LEMMA OffsetShows ==
  ASSUME Ordered(rows), walk.skip \in Nat, walk.take \in Nat \ {0},
         NEW page \in OffsetPages(rows), NEW r \in rows \ page, Rank(rows, r) >= walk.skip
  PROVE  (\E s \in page : s.at = r.at) \/ Rank(rows, r) >= walk.skip + Cardinality(page)
<1> DEFINE A == {s \in rows : Above(s, r)}
<1>1. IsFiniteSet(rows) /\ \A s \in rows : s \in Row /\ s.at \in Nat /\ s.id \in Nat
  BY AuditAssumption DEF Ordered, Row
<1>2. /\ IsFiniteSet(A) /\ Rank(rows, r) = Cardinality(A) /\ Cardinality(A) \in Nat
      /\ Cardinality(rows) \in Nat /\ A \subseteq rows
  BY <1>1, RanksAreNumbers DEF Rank
<1>3. r \notin A /\ \A s \in rows : s \in A <=> Above(s, r)
  BY <1>1, AboveIsOrder
<1> HIDE DEF A
<1>4. CASE walk.skip >= Cardinality(rows)
  <2>1. page = {}
    BY <1>4 DEF OffsetPages
  <2>2. Cardinality(page) = 0
    BY <2>1, FS_EmptySet
  <2> QED BY <1>2, <2>2
<1>5. CASE ~ (walk.skip >= Cardinality(rows))
  <2>1. PICK behind \in kSubset(walk.skip, rows \ page) :
          /\ \A a \in behind, b \in rows \ behind : a.at >= b.at
          /\ \A a \in page, b \in rows \ (behind \cup page) : a.at >= b.at
    BY <1>5 DEF OffsetPages
  <2>2. /\ page \in SUBSET rows
        /\ Cardinality(page) = Min({walk.take, Cardinality(rows) - walk.skip})
    BY <1>5 DEF OffsetPages
  <2>3. behind \in SUBSET rows /\ behind \cap page = {} /\ Cardinality(behind) = walk.skip
    BY <2>1 DEF kSubset
  <2>4. IsFiniteSet(page) /\ IsFiniteSet(behind) /\ Cardinality(page) \in Nat
    BY <1>1, <2>2, <2>3, FS_Subset, FS_CardinalityType
  <2>5. page # {}
    <3> DEFINE b == Cardinality(rows) - walk.skip
               least == Min({walk.take, b})
    <3>1. b \in Nat \ {0}
      BY <1>2, <1>5
    <3> HIDE DEF b
    <3>2. \E x \in {walk.take, b} : \A y \in {walk.take, b} : x =< y
      BY <3>1
    <3>3. least \in {walk.take, b}
      BY <3>2 DEF Min
    <3>4. Cardinality(page) # 0
      BY <2>2, <3>1, <3>3 DEF b
    <3> QED BY <2>4, <3>4, FS_EmptySet
  <2>6. PICK p \in page : TRUE
    BY <2>5
  <2>7. p \in rows \ behind
    BY <2>2, <2>3
  <2>8. CASE r \in behind
    <3>1. ~ (A \subseteq behind)
      <4> SUFFICES ASSUME A \subseteq behind PROVE FALSE
        OBVIOUS
      <4>1. Cardinality(A \cup {r}) = Cardinality(A) + 1
        BY <1>2, <1>3, FS_AddElement
      <4>2. A \cup {r} \in SUBSET behind
        BY <2>8
      <4>3. Cardinality(A \cup {r}) <= Cardinality(behind)
        BY <2>4, <4>2, FS_Subset
      <4> QED BY <1>2, <2>3, <4>1, <4>3
    <3>2. PICK s \in rows \ behind : Above(s, r)
      BY <1>2, <1>3, <3>1
    <3>3. r.at >= s.at /\ r.at >= p.at
      BY <2>1, <2>7, <2>8, <3>2
    <3>4. s \in page \/ p.at >= s.at
      BY <2>1, <2>6, <3>2
    <3>5. r.at = s.at
      BY <1>1, <3>2, <3>3 DEF Above
    <3>6. s \in page \/ p.at = r.at
      BY <1>1, <2>7, <3>2, <3>3, <3>4, <3>5
    <3> QED BY <3>5, <3>6
  <2>9. CASE r \notin behind
    <3> SUFFICES ASSUME \A s \in page : s.at # r.at
                 PROVE  Rank(rows, r) >= walk.skip + Cardinality(page)
      OBVIOUS
    <3>1. \A s \in page : s.at > r.at
      <4>1. \A s \in page : s.at >= r.at /\ s \in rows
        BY <2>1, <2>2, <2>9
      <4> QED BY <1>1, <4>1
    <3>2. \A s \in behind : s.at > r.at
      <4>1. \A s \in behind : s.at >= p.at /\ s \in rows
        BY <2>1, <2>3, <2>7
      <4> QED BY <1>1, <2>7, <3>1, <4>1
    <3>3. page \cup behind \in SUBSET A
      BY <1>3, <2>2, <2>3, <3>1, <3>2 DEF Above
    <3>4. Cardinality(page \cup behind) = Cardinality(page) + Cardinality(behind)
      <4>1. Cardinality(page \cap behind) = 0
        <5>1. page \cap behind = {}
          BY <2>3
        <5> QED BY <5>1, FS_EmptySet
      <4>2. Cardinality(page \cup behind)
              = Cardinality(page) + Cardinality(behind) - Cardinality(page \cap behind)
        BY <2>4, FS_Union
      <4> QED BY <2>3, <2>4, <4>1, <4>2
    <3>5. Cardinality(page \cup behind) <= Cardinality(A)
      BY <1>2, <3>3, FS_Subset
    <3> QED BY <1>2, <2>3, <2>4, <3>4, <3>5
  <2> QED BY <2>8, <2>9
<1> QED BY <1>4, <1>5

LEMMA OffsetReadHolds ==
  ASSUME AuditCore, OffsetRead
  PROVE  AuditCore'
<1>1. PICK page \in OffsetPages(rows) :
        /\ walk' = [walk EXCEPT !.read = TRUE, !.got = Cardinality(page)]
        /\ owed' = owed \ page /\ shown' = shown \cup page
        /\ twice' = (twice \/ page \cap shown # {})
  BY DEF OffsetRead, Shows
<1>2. /\ walk.kind = "offset" /\ ~ walk.over /\ ~ walk.read /\ walk.got = 0
      /\ UNCHANGED <<today, rows, used, torn>>
  BY DEF OffsetRead, AuditCore, OffsetsCount
<1>3. /\ page \in SUBSET rows /\ IsFiniteSet(page) /\ Cardinality(page) \in Nat
      /\ page \subseteq Row
  <2>1. page \in SUBSET rows
    BY DEF OffsetPages
  <2> QED BY <2>1, AuditFacts, FS_Subset, FS_CardinalityType
<1>4. /\ walk' \in Walk /\ walk'.kind = "offset" /\ ~ walk'.over /\ walk'.read
      /\ walk'.take = walk.take /\ walk'.skip = walk.skip /\ walk'.got = Cardinality(page)
      /\ walk'.after = walk.after /\ walk'.total = walk.total /\ walk'.counted = walk.counted
  BY <1>1, <1>2, <1>3, AuditFacts DEF Walk
<1>5. AuditTypeOK'
  BY <1>1, <1>2, <1>3, <1>4, AuditFacts DEF AuditCore, AuditTypeOK
<1>6. CursorHasOne' /\ CursorWalksAreStable' /\ ShownIsAboveCursor' /\ TakesSome'
  BY <1>2, <1>4
     DEF AuditCore, CursorHasOne, CursorWalksAreStable, ShownIsAboveCursor, TakesSome
<1>7. ShownWereRows'
  BY <1>1, <1>2, <1>3, AuditFacts DEF AuditCore, ShownWereRows
<1>8. OffsetsOwe'
  <2> SUFFICES ASSUME ~ torn, NEW r \in owed, r \notin page
               PROVE  TiesAreShown(r)' \/ Rank(rows, r) >= walk.skip + Cardinality(page)
    BY <1>1, <1>2, <1>4 DEF OffsetsOwe, Rank
  <2>1. TiesAreShown(r) \/ Rank(rows, r) >= walk.skip + walk.got
    BY <1>2 DEF AuditCore, OffsetsOwe
  <2>2. CASE TiesAreShown(r)
    BY <1>1, <2>2 DEF TiesAreShown
  <2>3. CASE Rank(rows, r) >= walk.skip + walk.got
    <3>1. r \in rows \ page /\ walk.skip \in Nat /\ walk.take \in Nat \ {0} /\ Ordered(rows)
      BY <1>2, AuditFacts
    <3>2. Rank(rows, r) >= walk.skip
      BY <1>2, <2>3, <3>1
    <3>3. (\E s \in page : s.at = r.at) \/ Rank(rows, r) >= walk.skip + Cardinality(page)
      BY <3>1, <3>2, OffsetShows
    <3> QED BY <1>1, <3>3 DEF TiesAreShown
  <2> QED BY <2>1, <2>2, <2>3
<1>9. OffsetsCount'
  BY <1>2, <1>4 DEF AuditCore, OffsetsCount
<1>10. IsFiniteSet(rows')
  BY <1>2, AuditFacts
<1> QED BY <1>5, <1>6, <1>7, <1>8, <1>9, <1>10 DEF AuditCore

LEMMA OffsetCountHolds ==
  ASSUME AuditCore, OffsetCount
  PROVE  AuditCore'
<1>1. /\ walk.kind = "offset" /\ ~ walk.over
      /\ walk' = [walk EXCEPT !.counted = TRUE, !.total = Cardinality(rows)]
      /\ UNCHANGED <<today, rows, used, owed, shown, twice, torn>>
  BY DEF OffsetCount
<1>2. Cardinality(rows) \in Nat
  BY AuditFacts, FS_CardinalityType
<1>3. /\ walk' \in Walk /\ walk'.kind = "offset" /\ ~ walk'.over /\ walk'.read = walk.read
      /\ walk'.take = walk.take /\ walk'.skip = walk.skip /\ walk'.got = walk.got
      /\ walk'.after = walk.after /\ walk'.total = Cardinality(rows)
  BY <1>1, <1>2, AuditFacts DEF Walk
<1>4. AuditTypeOK'
  BY <1>1, <1>3, AuditFacts DEF AuditCore, AuditTypeOK
<1>5. CursorHasOne' /\ CursorWalksAreStable' /\ ShownIsAboveCursor' /\ TakesSome'
  BY <1>1, <1>3
     DEF AuditCore, CursorHasOne, CursorWalksAreStable, ShownIsAboveCursor, TakesSome
<1>6. ShownWereRows'
  BY <1>1 DEF AuditCore, ShownWereRows
<1>7. OffsetsOwe'
  BY <1>1, <1>3 DEF AuditCore, OffsetsOwe, TiesAreShown, Rank
<1>8. OffsetsCount'
  BY <1>1, <1>2, <1>3 DEF AuditCore, OffsetsCount
<1>9. IsFiniteSet(rows')
  BY <1>1, AuditFacts
<1> QED BY <1>4, <1>5, <1>6, <1>7, <1>8, <1>9 DEF AuditCore

(* The end of a walk: the count said that nothing follows, and the rank    *)
(* of a row is below the number of rows.                                   *)
LEMMA OffsetPageHolds ==
  ASSUME AuditCore, OffsetPage
  PROVE  AuditCore'
<1>1. /\ walk.kind = "offset" /\ walk.read /\ walk.counted
      /\ walk' = IF walk.skip + walk.got < walk.total
                 THEN [walk EXCEPT !.skip = walk.skip + walk.got, !.counted = FALSE,
                                   !.read = FALSE, !.total = 0, !.got = 0]
                 ELSE [NoWalk EXCEPT !.kind = "offset"]
      /\ UNCHANGED <<today, rows, used, owed, shown, twice, torn>>
  BY DEF OffsetPage, SkipsPage, Ended
<1>2. walk.skip \in Nat /\ walk.got \in Nat /\ walk.total \in Nat
  BY AuditFacts
<1>3. CASE walk.skip + walk.got < walk.total
  <2>1. /\ walk' \in Walk /\ walk'.kind = "offset" /\ walk'.over = walk.over /\ ~ walk'.read
        /\ walk'.take = walk.take /\ walk'.skip = walk.skip + walk.got /\ walk'.got = 0
        /\ walk'.after = walk.after /\ ~ walk'.counted
    <3> DEFINE next == walk.skip + walk.got
    <3>1. next \in Nat
      BY <1>2
    <3>2. walk' = [walk EXCEPT !.skip = next, !.counted = FALSE, !.read = FALSE, !.total = 0,
                               !.got = 0]
      BY <1>1, <1>3
    <3> HIDE DEF next
    <3>3. walk \in Walk
      BY AuditFacts
    <3>4. walk' \in Walk
      BY <3>1, <3>2, <3>3 DEF Walk
    <3>5. /\ walk'.kind = "offset" /\ walk'.over = walk.over /\ walk'.read = FALSE
          /\ walk'.take = walk.take /\ walk'.skip = next /\ walk'.got = 0
          /\ walk'.after = walk.after /\ walk'.counted = FALSE
      BY <1>1, <3>2, <3>3 DEF Walk
    <3> QED BY <3>4, <3>5 DEF next
  <2>2. AuditTypeOK'
    BY <1>1, <2>1, AuditFacts DEF AuditCore, AuditTypeOK
  <2>3. CursorHasOne' /\ CursorWalksAreStable' /\ ShownIsAboveCursor' /\ TakesSome'
    BY <1>1, <2>1
       DEF AuditCore, CursorHasOne, CursorWalksAreStable, ShownIsAboveCursor, TakesSome
  <2>4. ShownWereRows'
    BY <1>1 DEF AuditCore, ShownWereRows
  <2>5. walk'.skip + walk'.got = walk.skip + walk.got
    BY <1>2, <2>1
  <2>6. OffsetsOwe' /\ OffsetsCount'
    BY <1>1, <2>1, <2>5 DEF AuditCore, OffsetsOwe, OffsetsCount, TiesAreShown, Rank
  <2>7. IsFiniteSet(rows')
    BY <1>1, AuditFacts
  <2> QED BY <2>2, <2>3, <2>4, <2>6, <2>7 DEF AuditCore
<1>4. CASE ~ (walk.skip + walk.got < walk.total)
  <2>1. /\ walk' \in Walk /\ walk'.kind = "offset" /\ walk'.over /\ walk'.after = {}
        /\ ~ walk'.counted /\ walk'.got = 0
    BY <1>1, <1>4, NoWalkTypes DEF NoWalk
  <2>2. Cardinality(walk'.after) <= 1
    BY <2>1, FS_EmptySet
  <2>3. AuditTypeOK'
    BY <1>1, <2>1, <2>2, AuditFacts DEF AuditCore, AuditTypeOK
  <2>4. CursorHasOne' /\ CursorWalksAreStable' /\ ShownIsAboveCursor' /\ TakesSome'
    BY <2>1 DEF CursorHasOne, CursorWalksAreStable, ShownIsAboveCursor, TakesSome
  <2>5. ShownWereRows'
    BY <1>1 DEF AuditCore, ShownWereRows
  <2>6. ASSUME ~ torn, NEW r \in owed PROVE TiesAreShown(r)
    <3>1. walk.total >= Cardinality(rows)
      BY <1>1, <2>6 DEF AuditCore, OffsetsCount
    <3>2. r \in rows /\ IsFiniteSet(rows) /\ Ordered(rows)
      BY AuditFacts
    <3>3. Rank(rows, r) \in Nat /\ Cardinality(rows) \in Nat
      BY <3>2, RanksAreNumbers
    <3>4. Rank(rows, r) < Cardinality(rows)
      BY <3>2, RankBelowSize
    <3>5. ~ (Rank(rows, r) >= walk.skip + walk.got)
      BY <1>2, <1>4, <3>1, <3>3, <3>4
    <3> QED BY <1>1, <2>6, <3>5 DEF AuditCore, OffsetsOwe
  <2>7. OffsetsOwe'
    <3>1. \A r \in owed : torn \/ TiesAreShown(r)
      BY <2>6
    <3> QED BY <1>1, <3>1 DEF OffsetsOwe, TiesAreShown
  <2>8. OffsetsCount' /\ IsFiniteSet(rows')
    BY <1>1, <2>1, AuditFacts DEF OffsetsCount
  <2> QED BY <2>3, <2>4, <2>5, <2>7, <2>8 DEF AuditCore
<1> QED BY <1>3, <1>4

LEMMA NextDayHolds ==
  ASSUME AuditCore, NextDay
  PROVE  AuditCore'
<1>1. /\ today < MaxStamp /\ today' = today + 1
      /\ UNCHANGED <<rows, used, walk, owed, shown, twice, torn>>
  BY DEF NextDay, walkVars
<1>2. today' \in 0 .. MaxStamp
  BY <1>1, AuditFacts, AuditAssumption
<1>3. \A r \in rows : r.at <= today'
  <2>1. \A r \in rows : r.at \in Nat /\ r.at <= today
    BY AuditFacts, AuditAssumption DEF Row
  <2> QED BY <1>1, <2>1, AuditFacts
<1>4. AuditTypeOK'
  BY <1>1, <1>2, <1>3, AuditFacts DEF AuditCore, AuditTypeOK
<1>5. CursorHasOne' /\ CursorWalksAreStable' /\ ShownIsAboveCursor' /\ TakesSome'
  BY <1>1 DEF AuditCore, CursorHasOne, CursorWalksAreStable, ShownIsAboveCursor, TakesSome
<1>6. ShownWereRows' /\ OffsetsCount' /\ IsFiniteSet(rows')
  BY <1>1 DEF AuditCore, ShownWereRows, OffsetsCount
<1>7. OffsetsOwe'
  BY <1>1 DEF AuditCore, OffsetsOwe, TiesAreShown, Rank
<1> QED BY <1>4, <1>5, <1>6, <1>7 DEF AuditCore

LEMMA AuditBegins == AuditInit => AuditCore
<1> SUFFICES ASSUME AuditInit PROVE AuditCore
  OBVIOUS
<1>1. /\ today = MaxLag /\ rows = {} /\ used = {} /\ walk = NoWalk /\ owed = {}
      /\ shown = {} /\ twice = FALSE /\ torn = FALSE
  BY DEF AuditInit
<1>2. Cardinality(walk.after) <= 1
  BY <1>1, NoWalkTypes, FS_EmptySet
<1>3. AuditTypeOK
  BY <1>1, <1>2, NoWalkTypes, AuditAssumption DEF AuditTypeOK
<1>4. CursorHasOne /\ CursorWalksAreStable /\ ShownIsAboveCursor /\ TakesSome
  BY <1>1, NoWalkTypes
     DEF CursorHasOne, CursorWalksAreStable, ShownIsAboveCursor, TakesSome
<1>5. ShownWereRows /\ OffsetsOwe /\ OffsetsCount
  BY <1>1, NoWalkTypes DEF ShownWereRows, OffsetsOwe, OffsetsCount
<1>6. IsFiniteSet(rows)
  BY <1>1, FS_EmptySet
<1> QED BY <1>3, <1>4, <1>5, <1>6 DEF AuditCore

LEMMA AuditSteps == AuditCore /\ [AuditNext]_auditVars => AuditCore'
<1> SUFFICES ASSUME AuditCore, [AuditNext]_auditVars PROVE AuditCore'
  OBVIOUS
<1>1. CASE AuditNext
  BY <1>1, LogEntryHolds, PruneHolds, NextDayHolds, BeginWalkHolds, CursorPageHolds,
     OffsetReadHolds, OffsetCountHolds, OffsetPageHolds DEF AuditNext
<1>2. CASE UNCHANGED auditVars
  <2>1. UNCHANGED <<today, rows, used, walk, owed, shown, twice, torn>>
    BY <1>2 DEF auditVars, walkVars
  <2>2. AuditTypeOK' /\ CursorHasOne' /\ IsFiniteSet(rows')
    BY <2>1 DEF AuditCore, AuditTypeOK, CursorHasOne
  <2>3. CursorWalksAreStable' /\ ShownIsAboveCursor' /\ TakesSome' /\ ShownWereRows'
    BY <2>1 DEF AuditCore, CursorWalksAreStable, ShownIsAboveCursor, TakesSome, ShownWereRows
  <2>4. OffsetsOwe' /\ OffsetsCount'
    BY <2>1 DEF AuditCore, OffsetsOwe, OffsetsCount, TiesAreShown, Rank
  <2> QED BY <2>2, <2>3, <2>4 DEF AuditCore
<1> QED BY <1>1, <1>2

(* However many rows are added and pruned between two pages, a walk with a *)
(* cursor shows every row it owes once, and one with offsets skips a row   *)
(* only for one with the same stamp, or after rows came between the two    *)
(* queries of a page (query and queryLegacy in audit.service.ts).          *)
THEOREM AuditHolds == AuditSpec => []AuditInv
<1>1. AuditCore => AuditInv
  <2> SUFFICES ASSUME AuditCore PROVE AuditInv
    OBVIOUS
  <2>1. OffsetWalksSkipOnlyTies
    <3> SUFFICES ASSUME walk.kind = "offset", ~ torn, NEW r \in owed
                 PROVE  \/ \E s \in shown : s.at = r.at
                        \/ ~ walk.over /\ Cardinality({s \in rows : Above(s, r)}) >= walk.skip
      BY DEF OffsetWalksSkipOnlyTies
    <3>1. TiesAreShown(r) \/ (~ walk.over /\ Rank(rows, r) >= walk.skip + walk.got)
      BY DEF AuditCore, OffsetsOwe
    <3>2. walk.skip \in Nat /\ walk.got \in Nat /\ Rank(rows, r) \in Nat
      BY AuditFacts, RanksAreNumbers
    <3>3. TiesAreShown(r) \/ (~ walk.over /\ Rank(rows, r) >= walk.skip)
      BY <3>1, <3>2
    <3> QED BY <3>3 DEF TiesAreShown, Rank
  <2> QED BY <2>1 DEF AuditCore, AuditInv
<1> QED BY AuditBegins, AuditSteps, <1>1, PTL DEF AuditSpec

-----------------------------------------------------------------------------
(* RateLimits for any callers, limits, windows and bursts.  A bucket       *)
(* counts what has passed since its window began, and what passed within a *)
(* window before that is at most another limit (BucketCounts,              *)
(* NoBucketIsQuiet); the stamps of an owner are the newest of what it was  *)
(* let through, and older ones have left the window (StampsArePasses).     *)
Clocks == 0 .. MaxClock
WindowStart(c) == bucket[c].resetAt - LimitWindow
WindowEnd(c) == IF limiter[c] = "attempts" THEN bucket[c].resetAt + 1 ELSE bucket[c].resetAt

LimiterTypes(c) ==
  /\ limiter[c] \in {"address", "owner", "attempts"}
  /\ bucket[c] \in [count : 0 .. MaxRequests, resetAt : Nat]
  /\ stamps[c] \in Seq(1 .. clock) /\ Len(stamps[c]) <= OwnerMax
  /\ \A i, j \in DOMAIN stamps[c] : i <= j => stamps[c][i] <= stamps[c][j]
  /\ passed[c] \in [Clocks -> Nat] /\ advice[c] \in Nat

PassedAdds(c) ==
  \A t, u \in Clocks :
    /\ t <= u => passed[c][t] <= passed[c][u]
    /\ clock <= t => passed[c][t] = passed[c][clock]

SpansHold(c) ==
  \A t, u \in Clocks : t <= u /\ u <= t + LimitWindow =>
    passed[c][u] - passed[c][t] <= IF limiter[c] = "owner" THEN OwnerMax ELSE 2 * MaxRequests

BucketCounts(c) ==
  limiter[c] # "owner" /\ bucket[c].count > 0 =>
    /\ LimitWindow < bucket[c].resetAt /\ bucket[c].resetAt <= clock + LimitWindow
    /\ passed[c][clock] - passed[c][WindowStart(c) - 1] = bucket[c].count
    /\ \A t \in Clocks : WindowEnd(c) <= t + 1 => passed[c][t] = passed[c][clock]
    /\ \A t \in Clocks : WindowStart(c) <= t + 1 + LimitWindow =>
         passed[c][WindowStart(c) - 1] - passed[c][t] <= MaxRequests

NoBucketIsQuiet(c) ==
  limiter[c] # "owner" /\ bucket[c].count = 0 =>
    /\ passed[c][clock - 1] = passed[c][clock]
    /\ \A t \in Clocks : clock <= t + 1 + LimitWindow =>
         passed[c][clock] - passed[c][t] <= MaxRequests

StampsArePasses(c) ==
  limiter[c] = "owner" =>
    /\ \A i \in DOMAIN stamps[c] :
         passed[c][stamps[c][i]] >= passed[c][clock] - Len(stamps[c]) + i
    /\ \A t \in Clocks :
         clock <= t + LimitWindow => passed[c][t] >= passed[c][clock] - Len(stamps[c])

AdviceIsOfTheLimit(c) ==
  advice[c] # 0 =>
    \/ /\ limiter[c] = "address"
       /\ advice[c] = bucket[c].resetAt /\ bucket[c].count >= MaxRequests
    \/ /\ limiter[c] = "owner"
       /\ Len(stamps[c]) = OwnerMax /\ advice[c] = stamps[c][1] + LimitWindow

CallerHolds(c) ==
  /\ LimiterTypes(c) /\ PassedAdds(c) /\ SpansHold(c) /\ BucketCounts(c)
  /\ NoBucketIsQuiet(c) /\ StampsArePasses(c) /\ AdviceIsOfTheLimit(c)

LimitCore ==
  /\ clock \in 1 .. MaxClock
  /\ limiter \in [Caller -> {"address", "owner", "attempts"}]
  /\ bucket = [c \in Caller |-> bucket[c]] /\ stamps = [c \in Caller |-> stamps[c]]
  /\ passed = [c \in Caller |-> passed[c]] /\ advice = [c \in Caller |-> advice[c]]
  /\ \A c \in Caller : CallerHolds(c)

LEMMA LimiterFacts ==
  ASSUME LimitCore, NEW c \in Caller
  PROVE  /\ clock \in Nat /\ 1 <= clock /\ clock <= MaxClock /\ clock \in Clocks /\ clock - 1 \in Clocks
         /\ LimitWindow \in Nat /\ LimitWindow > 0 /\ MaxRequests \in Nat /\ MaxRequests > 0
         /\ OwnerMax \in Nat /\ OwnerMax > 0 /\ OwnerBurst \in 1 .. OwnerMax /\ MaxClock \in Nat
         /\ limiter[c] \in {"address", "owner", "attempts"}
         /\ bucket[c] \in [count : 0 .. MaxRequests, resetAt : Nat]
         /\ bucket[c].count \in 0 .. MaxRequests /\ bucket[c].resetAt \in Nat
         /\ passed[c] \in [Clocks -> Nat] /\ advice[c] \in Nat
         /\ stamps[c] \in Seq(1 .. clock) /\ Len(stamps[c]) \in Nat
<1>1. clock \in 1 .. MaxClock /\ LimiterTypes(c)
  BY DEF LimitCore, CallerHolds
<1>2. clock \in Nat /\ 1 <= clock /\ clock <= MaxClock /\ clock \in Clocks /\ clock - 1 \in Clocks
  BY <1>1, LimitAssumption DEF Clocks
<1> QED BY <1>1, <1>2, LimitAssumption DEF LimiterTypes

LEMMA OneCallerMoves ==
  ASSUME LimitCore, NEW c \in Caller, UNCHANGED <<clock, limiter>>,
         NEW b, NEW s, NEW p, NEW a,
         bucket' = [bucket EXCEPT ![c] = b], stamps' = [stamps EXCEPT ![c] = s],
         passed' = [passed EXCEPT ![c] = p], advice' = [advice EXCEPT ![c] = a],
         CallerHolds(c)'
  PROVE  LimitCore'
<1>1. ASSUME NEW d \in Caller, d # c PROVE CallerHolds(d)'
  <2>1. /\ bucket'[d] = bucket[d] /\ stamps'[d] = stamps[d] /\ passed'[d] = passed[d]
        /\ advice'[d] = advice[d] /\ limiter'[d] = limiter[d] /\ clock' = clock
    BY <1>1 DEF LimitCore
  <2>2. CallerHolds(d)
    BY DEF LimitCore
  <2>3. WindowStart(d)' = WindowStart(d) /\ WindowEnd(d)' = WindowEnd(d)
    BY <2>1 DEF WindowStart, WindowEnd
  <2>4. LimiterTypes(d)' /\ PassedAdds(d)'
    BY <2>1, <2>2 DEF CallerHolds, LimiterTypes, PassedAdds, Clocks
  <2>5. SpansHold(d)' /\ BucketCounts(d)'
    BY <2>1, <2>2, <2>3 DEF CallerHolds, SpansHold, BucketCounts, Clocks
  <2>6. NoBucketIsQuiet(d)' /\ StampsArePasses(d)' /\ AdviceIsOfTheLimit(d)'
    BY <2>1, <2>2 DEF CallerHolds, NoBucketIsQuiet, StampsArePasses, AdviceIsOfTheLimit, Clocks
  <2> QED BY <2>4, <2>5, <2>6 DEF CallerHolds
<1>2. \A d \in Caller : CallerHolds(d)'
  BY <1>1
<1>3. /\ clock' \in 1 .. MaxClock /\ limiter' \in [Caller -> {"address", "owner", "attempts"}]
      /\ bucket' = [d \in Caller |-> bucket'[d]] /\ stamps' = [d \in Caller |-> stamps'[d]]
      /\ passed' = [d \in Caller |-> passed'[d]] /\ advice' = [d \in Caller |-> advice'[d]]
  BY DEF LimitCore
<1> QED BY <1>2, <1>3 DEF LimitCore

(* What one pass does to the numbers of passes. *)
LEMMA PassAdds ==
  ASSUME LimitCore, NEW c \in Caller, Passes(c), clock' = clock
  PROVE  /\ passed'[c] \in [Clocks -> Nat] /\ advice'[c] = 0 /\ PassedAdds(c)'
         /\ \A t \in Clocks : /\ t < clock => passed'[c][t] = passed[c][t]
                              /\ clock <= t => passed'[c][t] = passed[c][clock] + 1
         /\ \A t \in Clocks : passed[c][t] \in Nat /\ passed[c][t] <= passed'[c][t]
         /\ \A t \in Clocks : passed[c][t] <= passed[c][clock]
<1>1. PassedAdds(c) /\ DOMAIN passed = Caller /\ DOMAIN advice = Caller
  BY DEF LimitCore, CallerHolds
<1>2. passed'[c] = [t \in Clocks |-> IF t < clock THEN passed[c][t] ELSE passed[c][t] + 1]
  BY <1>1 DEF Passes, Clocks
<1>3. advice'[c] = 0
  BY <1>1 DEF Passes
<1>4. \A t \in Clocks : passed[c][t] \in Nat
  BY LimiterFacts
<1>5. \A t \in Clocks : t \in Nat
  BY DEF Clocks
<1>6. passed'[c] \in [Clocks -> Nat]
  BY <1>2, <1>4
<1>7. \A t \in Clocks : /\ t < clock => passed'[c][t] = passed[c][t]
                        /\ clock <= t => passed'[c][t] = passed[c][clock] + 1
  BY <1>1, <1>2, <1>5, LimiterFacts DEF PassedAdds
<1>8. \A t \in Clocks : passed[c][t] <= passed[c][clock]
  <2> SUFFICES ASSUME NEW t \in Clocks PROVE passed[c][t] <= passed[c][clock]
    OBVIOUS
  <2>1. t <= clock \/ clock <= t
    BY <1>5, LimiterFacts
  <2>2. clock \in Clocks /\ passed[c][clock] \in Nat
    BY <1>4, LimiterFacts
  <2> QED BY <1>1, <2>1, <2>2 DEF PassedAdds
<1>9. \A t \in Clocks : passed[c][t] <= passed'[c][t]
  BY <1>4, <1>5, <1>7, <1>8, LimiterFacts, SMTT(30)
<1>10. PassedAdds(c)'
  <2> SUFFICES ASSUME NEW t \in Clocks, NEW u \in Clocks
               PROVE  /\ t <= u => passed'[c][t] <= passed'[c][u]
                      /\ clock <= t => passed'[c][t] = passed'[c][clock]
    BY DEF PassedAdds, Clocks
  <2>1. clock \in Clocks /\ clock \in Nat /\ t \in Nat /\ u \in Nat
    BY <1>5, LimiterFacts
  <2>2. t <= u => passed[c][t] <= passed[c][u]
    BY <1>1 DEF PassedAdds
  <2>3. passed[c][t] \in Nat /\ passed[c][u] \in Nat /\ passed[c][clock] \in Nat
    BY <1>4, <2>1
  <2>4. t < clock => passed'[c][t] = passed[c][t]
    BY <1>7
  <2>5. clock <= t => passed'[c][t] = passed[c][clock] + 1
    BY <1>7
  <2>6. u < clock => passed'[c][u] = passed[c][u]
    BY <1>7
  <2>7. clock <= u => passed'[c][u] = passed[c][clock] + 1
    BY <1>7
  <2>8. passed'[c][clock] = passed[c][clock] + 1 /\ passed[c][t] <= passed[c][clock]
    BY <1>7, <1>8, <2>1
  <2> QED BY <2>1, <2>2, <2>3, <2>4, <2>5, <2>6, <2>7, <2>8
<1> QED BY <1>3, <1>4, <1>6, <1>7, <1>8, <1>9, <1>10

(* When a window is over, nothing has passed at this moment yet, and what  *)
(* has passed within a window before it was all in one bucket.             *)
LEMMA QuietWhenOver ==
  ASSUME LimitCore, NEW c \in Caller, limiter[c] # "owner", Over(c)
  PROVE  /\ passed[c][clock - 1] = passed[c][clock]
         /\ \A t \in Clocks : clock <= t + 1 + LimitWindow =>
              passed[c][clock] - passed[c][t] <= MaxRequests
<1>1. CallerHolds(c)
  BY DEF LimitCore
<1>2. CASE bucket[c].count = 0
  BY <1>1, <1>2 DEF CallerHolds, NoBucketIsQuiet
<1>3. CASE bucket[c].count # 0
  <2>1. bucket[c].count > 0 /\ bucket[c].count <= MaxRequests
    BY <1>3, LimiterFacts
  <2>2. WindowEnd(c) <= clock /\ bucket[c].resetAt <= WindowEnd(c)
    BY <1>3, LimiterFacts DEF Over, WindowEnd
  <2>3. /\ LimitWindow < bucket[c].resetAt /\ bucket[c].resetAt <= clock + LimitWindow
        /\ passed[c][clock] - passed[c][WindowStart(c) - 1] = bucket[c].count
        /\ \A t \in Clocks : WindowEnd(c) <= t + 1 => passed[c][t] = passed[c][clock]
    BY <1>1, <2>1 DEF CallerHolds, BucketCounts
  <2>4. WindowStart(c) - 1 \in Clocks /\ WindowEnd(c) \in Nat
    <3>1. /\ bucket[c].resetAt \in Nat /\ LimitWindow \in Nat /\ clock \in Nat
          /\ MaxClock \in Nat /\ clock <= MaxClock
      BY LimiterFacts
    <3>2. WindowStart(c) - 1 \in Clocks
      BY <2>3, <3>1 DEF WindowStart, Clocks
    <3> QED BY <3>1, <3>2 DEF WindowEnd
  <2>5. passed[c][clock - 1] = passed[c][clock]
    BY <2>2, <2>3, <2>4, LimiterFacts
  <2>6. ASSUME NEW t \in Clocks, clock <= t + 1 + LimitWindow
        PROVE  passed[c][clock] - passed[c][t] <= MaxRequests
    <3>1. t \in Nat
      BY DEF Clocks
    <3>2. WindowStart(c) - 1 <= t
      BY <2>2, <2>3, <2>4, <2>6, <3>1, LimiterFacts, SMTT(30) DEF WindowStart
    <3>3. passed[c][WindowStart(c) - 1] <= passed[c][t]
      BY <1>1, <2>4, <3>2 DEF CallerHolds, PassedAdds
    <3>4. /\ passed[c][WindowStart(c) - 1] \in Nat /\ passed[c][t] \in Nat
          /\ passed[c][clock] \in Nat /\ bucket[c].count \in Nat /\ MaxRequests \in Nat
      BY <2>4, LimiterFacts
    <3>5. passed[c][clock] - passed[c][WindowStart(c) - 1] = bucket[c].count
      BY <2>3
    <3> QED BY <2>1, <3>3, <3>4, <3>5
  <2> QED BY <2>5, <2>6
<1> QED BY <1>2, <1>3

(* A request that opens a window, or is counted in one that is not full.   *)
LEMMA CountedHolds ==
  ASSUME LimitCore, NEW c \in Caller, limiter[c] # "owner", ~ Full(c), Counted(c), Passes(c),
         UNCHANGED <<clock, limiter, stamps>>
  PROVE  LimitCore'
<1> DEFINE b == IF Over(c) THEN [count |-> 1, resetAt |-> clock + LimitWindow]
                ELSE [bucket[c] EXCEPT !.count = bucket[c].count + 1]
           p == [t \in 0 .. MaxClock |-> IF t < clock THEN passed[c][t] ELSE passed[c][t] + 1]
<1>1. bucket' = [bucket EXCEPT ![c] = b] /\ bucket'[c] = b
  BY DEF LimitCore, Counted
<1>2. passed' = [passed EXCEPT ![c] = p] /\ advice' = [advice EXCEPT ![c] = 0]
  BY DEF Passes
<1>3. stamps' = [stamps EXCEPT ![c] = stamps[c]]
  BY DEF LimitCore
<1>4. /\ clock \in Nat /\ 1 <= clock /\ clock \in Clocks /\ clock - 1 \in Clocks
      /\ LimitWindow \in Nat /\ LimitWindow > 0 /\ MaxRequests \in Nat /\ MaxRequests > 0
      /\ bucket[c] \in [count : 0 .. MaxRequests, resetAt : Nat]
      /\ bucket[c].count \in 0 .. MaxRequests /\ bucket[c].resetAt \in Nat
  BY LimiterFacts
<1>5. /\ passed'[c] \in [Clocks -> Nat] /\ advice'[c] = 0 /\ PassedAdds(c)'
      /\ \A t \in Clocks : t < clock => passed'[c][t] = passed[c][t]
      /\ \A t \in Clocks : clock <= t => passed'[c][t] = passed[c][clock] + 1
      /\ \A t \in Clocks : passed[c][t] \in Nat /\ passed[c][t] <= passed'[c][t]
      /\ \A t \in Clocks : passed[c][t] <= passed[c][clock]
  BY PassAdds
<1>6. CallerHolds(c)
  BY DEF LimitCore
<1>7. \A t \in Clocks : t \in Nat
  BY DEF Clocks
<1>8. WindowEnd(c)' = IF limiter[c] = "attempts" THEN b.resetAt + 1 ELSE b.resetAt
  BY <1>1 DEF WindowEnd
<1>9. WindowStart(c)' = b.resetAt - LimitWindow
  BY <1>1 DEF WindowStart
<1>10. b.count \in 1 .. MaxRequests /\ b \in [count : 0 .. MaxRequests, resetAt : Nat]
  <2>1. CASE Over(c)
    BY <1>4, <2>1
  <2>2. CASE ~ Over(c)
    <3>1. bucket[c].count < MaxRequests
      BY <1>4, <2>2 DEF Full
    <3> QED BY <1>4, <2>2, <3>1
  <2> QED BY <2>1, <2>2
<1>11. /\ LimitWindow < b.resetAt /\ b.resetAt <= clock + LimitWindow
       /\ passed'[c][clock] - passed'[c][WindowStart(c)' - 1] = b.count
       /\ \A t \in Clocks : WindowEnd(c)' <= t + 1 => passed'[c][t] = passed'[c][clock]
       /\ \A t \in Clocks : WindowStart(c)' <= t + 1 + LimitWindow =>
            passed'[c][WindowStart(c)' - 1] - passed'[c][t] <= MaxRequests
       /\ WindowStart(c)' - 1 \in Clocks /\ WindowStart(c)' <= clock
  <2>1. CASE Over(c)
    <3>1. b.count = 1 /\ b.resetAt = clock + LimitWindow
      BY <2>1
    <3>2. WindowStart(c)' = clock /\ clock + LimitWindow <= WindowEnd(c)' /\ WindowEnd(c)' \in Nat
      BY <1>4, <1>8, <1>9, <3>1
    <3>3. passed'[c][clock - 1] = passed[c][clock] /\ passed'[c][clock] = passed[c][clock] + 1
      BY <1>4, <1>5, <2>1, QuietWhenOver
    <3>4. \A t \in Clocks : clock <= t + 1 + LimitWindow =>
            passed[c][clock] - passed[c][t] <= MaxRequests
      BY <2>1, QuietWhenOver
    <3>5. \A t \in Clocks : clock <= t + 1 + LimitWindow =>
            passed[c][clock] - passed'[c][t] <= MaxRequests
      <4> SUFFICES ASSUME NEW t \in Clocks, clock <= t + 1 + LimitWindow
                   PROVE  passed[c][clock] - passed'[c][t] <= MaxRequests
        OBVIOUS
      <4>1. /\ passed[c][t] \in Nat /\ passed[c][t] <= passed'[c][t] /\ passed[c][clock] \in Nat
            /\ passed'[c][t] \in Nat
        BY <1>4, <1>5
      <4>2. passed[c][clock] - passed[c][t] <= MaxRequests /\ MaxRequests \in Nat
        BY <1>4, <3>4
      <4> QED BY <4>1, <4>2
    <3>6. \A t \in Clocks : WindowEnd(c)' <= t + 1 => passed'[c][t] = passed'[c][clock]
      BY <1>4, <1>5, <1>7, <3>2
    <3>7. passed'[c][clock] - passed'[c][clock - 1] = 1
      BY <1>4, <1>5, <3>3
    <3>8. LimitWindow < b.resetAt /\ b.resetAt <= clock + LimitWindow
      BY <1>4, <3>1
    <3> HIDE DEF b
    <3> QED BY <1>4, <3>1, <3>2, <3>3, <3>5, <3>6, <3>7, <3>8
  <2>2. CASE ~ Over(c)
    <3>1. b.count = bucket[c].count + 1 /\ b.resetAt = bucket[c].resetAt /\ bucket[c].count > 0
      BY <1>4, <2>2 DEF Over
    <3>2. WindowStart(c)' = WindowStart(c) /\ WindowEnd(c)' = WindowEnd(c)
      BY <1>8, <1>9, <3>1 DEF WindowStart, WindowEnd
    <3>3. /\ LimitWindow < bucket[c].resetAt /\ bucket[c].resetAt <= clock + LimitWindow
          /\ passed[c][clock] - passed[c][WindowStart(c) - 1] = bucket[c].count
          /\ \A t \in Clocks : WindowStart(c) <= t + 1 + LimitWindow =>
               passed[c][WindowStart(c) - 1] - passed[c][t] <= MaxRequests
      BY <1>6, <3>1 DEF CallerHolds, BucketCounts
    <3>4. WindowStart(c) - 1 \in Clocks /\ WindowStart(c) <= clock /\ WindowStart(c) \in Nat
      <4>1. LimitWindow < bucket[c].resetAt /\ bucket[c].resetAt <= clock + LimitWindow
        BY <3>3
      <4>2. MaxClock \in Nat /\ clock <= MaxClock
        BY LimiterFacts
      <4> QED BY <1>4, <4>1, <4>2 DEF WindowStart, Clocks
    <3>5. clock < WindowEnd(c) /\ WindowEnd(c) \in Nat
      BY <1>4, <2>2 DEF WindowEnd, Over
    <3>6. passed'[c][WindowStart(c) - 1] = passed[c][WindowStart(c) - 1]
      BY <1>4, <1>5, <3>4
    <3>7. \A t \in Clocks : WindowEnd(c) <= t + 1 => passed'[c][t] = passed'[c][clock]
      BY <1>4, <1>5, <1>7, <3>5
    <3>8. \A t \in Clocks : WindowStart(c) <= t + 1 + LimitWindow =>
            passed[c][WindowStart(c) - 1] - passed'[c][t] <= MaxRequests
      <4> SUFFICES ASSUME NEW t \in Clocks, WindowStart(c) <= t + 1 + LimitWindow
                   PROVE  passed[c][WindowStart(c) - 1] - passed'[c][t] <= MaxRequests
        OBVIOUS
      <4>1. /\ passed[c][t] \in Nat /\ passed[c][t] <= passed'[c][t]
            /\ passed[c][WindowStart(c) - 1] \in Nat /\ passed'[c][t] \in Nat
        BY <1>5, <3>4
      <4> QED BY <1>4, <3>3, <4>1
    <3>9. passed'[c][clock] - passed'[c][WindowStart(c) - 1] = bucket[c].count + 1
      <4>1. passed'[c][clock] = passed[c][clock] + 1 /\ passed[c][clock] \in Nat
        BY <1>4, <1>5
      <4>2. passed[c][WindowStart(c) - 1] \in Nat
        BY <1>5, <3>4
      <4> QED BY <1>4, <3>3, <3>6, <4>1, <4>2
    <3> HIDE DEF b
    <3> QED BY <3>1, <3>2, <3>3, <3>4, <3>6, <3>7, <3>8, <3>9
  <2> QED BY <2>1, <2>2
<1> HIDE DEF b, p
<1>12. BucketCounts(c)' /\ NoBucketIsQuiet(c)'
  <2>1. bucket'[c].count = b.count /\ bucket'[c].resetAt = b.resetAt /\ bucket'[c].count # 0
    BY <1>1, <1>4, <1>10
  <2>2. BucketCounts(c)'
    BY <1>11, <2>1 DEF BucketCounts, Clocks
  <2> QED BY <2>1, <2>2 DEF NoBucketIsQuiet
<1>13. SpansHold(c)'
  <2> SUFFICES ASSUME NEW t \in Clocks, NEW u \in Clocks, t <= u, u <= t + LimitWindow
               PROVE  passed'[c][u] - passed'[c][t] <= 2 * MaxRequests
    BY DEF SpansHold, Clocks
  <2> DEFINE s == WindowStart(c)' - 1
  <2>1. s \in Clocks /\ s \in Nat /\ t \in Nat /\ u \in Nat /\ s < clock
    <3>1. s \in Clocks /\ s \in Nat /\ t \in Nat /\ u \in Nat
      BY <1>7, <1>11
    <3>2. WindowStart(c)' \in Int
      BY <1>9, <1>10, <1>4
    <3> QED BY <1>4, <1>11, <3>1, <3>2
  <2>2. passed'[c][t] \in Nat /\ passed'[c][u] \in Nat /\ passed'[c][s] \in Nat /\ passed'[c][clock] \in Nat
    BY <1>4, <1>5, <2>1
  <2>3. CASE u < clock
    <3>1. passed'[c][u] = passed[c][u] /\ passed'[c][t] = passed[c][t]
      BY <1>4, <1>5, <2>1, <2>3
    <3>2. passed[c][u] - passed[c][t] <= 2 * MaxRequests
      BY <1>6 DEF CallerHolds, SpansHold
    <3> QED BY <3>1, <3>2
  <2>4. CASE clock <= u
    <3>1. passed'[c][u] = passed'[c][clock]
      BY <1>4, <1>5, <2>4
    <3>2. passed'[c][clock] - passed'[c][s] <= MaxRequests
      BY <1>4, <1>10, <1>11
    <3>3. CASE s <= t
      <4>1. passed'[c][s] <= passed'[c][t]
        BY <1>5, <2>1, <3>3 DEF PassedAdds, Clocks
      <4> QED BY <1>4, <2>2, <3>1, <3>2, <4>1
    <3>4. CASE t < s
      <4>1. WindowStart(c)' <= t + 1 + LimitWindow
        <5>1. WindowStart(c)' <= clock /\ WindowStart(c)' \in Int
          BY <1>4, <1>9, <1>10, <1>11
        <5> QED BY <1>4, <2>1, <2>4, <5>1
      <4>2. passed'[c][s] - passed'[c][t] <= MaxRequests
        BY <1>11, <4>1
      <4> QED BY <1>4, <2>2, <3>1, <3>2, <4>2
    <3> QED BY <2>1, <3>3, <3>4
  <2> QED BY <1>4, <2>1, <2>3, <2>4
<1>14. LimiterTypes(c)'
  <2>1. LimiterTypes(c)
    BY <1>6 DEF CallerHolds
  <2>2. bucket'[c] \in [count : 0 .. MaxRequests, resetAt : Nat]
    BY <1>1, <1>10
  <2> QED BY <1>4, <1>5, <2>1, <2>2 DEF LimiterTypes, Clocks
<1>15. StampsArePasses(c)' /\ AdviceIsOfTheLimit(c)'
  BY <1>5 DEF StampsArePasses, AdviceIsOfTheLimit
<1>16. CallerHolds(c)'
  BY <1>5, <1>12, <1>13, <1>14, <1>15 DEF CallerHolds
<1> QED BY <1>1, <1>2, <1>3, <1>16, OneCallerMoves

LEMMA AddressHolds ==
  ASSUME LimitCore, NEW c \in Caller, AddressRequest(c)
  PROVE  LimitCore'
<1>1. CASE ~ Full(c) /\ Counted(c) /\ Passes(c)
  BY <1>1, CountedHolds DEF AddressRequest
<1>2. CASE Full(c) /\ UNCHANGED bucket /\ Refused(c, bucket[c].resetAt)
  <2>1. bucket' = [bucket EXCEPT ![c] = bucket[c]] /\ stamps' = [stamps EXCEPT ![c] = stamps[c]]
    BY <1>2 DEF LimitCore, AddressRequest
  <2>2. passed' = [passed EXCEPT ![c] = passed[c]]
    BY <1>2 DEF LimitCore, Refused
  <2>3. advice' = [advice EXCEPT ![c] = bucket[c].resetAt] /\ advice'[c] = bucket[c].resetAt
    BY <1>2 DEF LimitCore, Refused
  <2>4. UNCHANGED <<clock, limiter, bucket, stamps, passed>> /\ limiter[c] = "address"
    BY <1>2 DEF AddressRequest, Refused
  <2>5. bucket[c].count >= MaxRequests /\ bucket[c].resetAt \in Nat
    BY <1>2, LimiterFacts DEF Full
  <2>6. CallerHolds(c)
    BY DEF LimitCore
  <2>7. WindowStart(c)' = WindowStart(c) /\ WindowEnd(c)' = WindowEnd(c)
    BY <2>4 DEF WindowStart, WindowEnd
  <2>8. LimiterTypes(c)' /\ PassedAdds(c)' /\ SpansHold(c)'
    BY <2>3, <2>4, <2>5, <2>6 DEF CallerHolds, LimiterTypes, PassedAdds, SpansHold, Clocks
  <2>9. BucketCounts(c)' /\ NoBucketIsQuiet(c)' /\ StampsArePasses(c)'
    BY <2>4, <2>6, <2>7 DEF CallerHolds, BucketCounts, NoBucketIsQuiet, StampsArePasses, Clocks
  <2>10. AdviceIsOfTheLimit(c)'
    BY <2>3, <2>4, <2>5 DEF AdviceIsOfTheLimit
  <2>11. CallerHolds(c)'
    BY <2>8, <2>9, <2>10 DEF CallerHolds
  <2> QED BY <2>1, <2>2, <2>3, <2>4, <2>11, OneCallerMoves
<1> QED BY <1>1, <1>2 DEF AddressRequest

LEMMA KeyHolds ==
  ASSUME LimitCore, NEW c \in Caller, KeyRequest(c)
  PROVE  LimitCore'
<1>1. CASE ~ Full(c) /\ Counted(c) /\ Passes(c)
  BY <1>1, CountedHolds DEF KeyRequest
<1>2. CASE /\ Over(c) /\ bucket' = [bucket EXCEPT ![c] = [count |-> 0, resetAt |-> 0]]
           /\ UNCHANGED <<passed, advice>>
  <2>1. stamps' = [stamps EXCEPT ![c] = stamps[c]] /\ passed' = [passed EXCEPT ![c] = passed[c]]
    BY <1>2 DEF LimitCore, KeyRequest
  <2>2. advice' = [advice EXCEPT ![c] = advice[c]]
    BY <1>2 DEF LimitCore
  <2>3. bucket'[c] = [count |-> 0, resetAt |-> 0]
    BY <1>2 DEF LimitCore
  <2>4. UNCHANGED <<clock, limiter, stamps, passed, advice>> /\ limiter[c] = "attempts"
    BY <1>2 DEF KeyRequest
  <2>5. CallerHolds(c)
    BY DEF LimitCore
  <2>6. bucket'[c] \in [count : 0 .. MaxRequests, resetAt : Nat] /\ bucket'[c].count = 0
    BY <2>3, LimiterFacts
  <2>7. LimiterTypes(c)' /\ PassedAdds(c)' /\ SpansHold(c)'
    BY <2>4, <2>5, <2>6 DEF CallerHolds, LimiterTypes, PassedAdds, SpansHold, Clocks
  <2>8. BucketCounts(c)' /\ StampsArePasses(c)' /\ AdviceIsOfTheLimit(c)'
    BY <2>4, <2>5, <2>6 DEF CallerHolds, BucketCounts, StampsArePasses, AdviceIsOfTheLimit, Clocks
  <2>9. NoBucketIsQuiet(c)'
    BY <1>2, <2>4, QuietWhenOver DEF NoBucketIsQuiet, Clocks
  <2>10. CallerHolds(c)'
    BY <2>7, <2>8, <2>9 DEF CallerHolds
  <2> QED BY <1>2, <2>1, <2>2, <2>4, <2>10, OneCallerMoves, ZenonT(30)
<1> QED BY <1>1, <1>2 DEF KeyRequest

(* The stamps are in order, so that Gone cuts off a prefix: the least      *)
(* number after which all of them are in the window.                       *)
LEMMA GoneIsPrefix ==
  ASSUME LimitCore, NEW c \in Caller
  PROVE  /\ Gone(c) \in 0 .. Len(stamps[c])
         /\ \A i \in DOMAIN stamps[c] : stamps[c][i] + LimitWindow <= clock <=> i <= Gone(c)
<1> DEFINE S == {n \in 0 .. Len(stamps[c]) :
                   \A i \in DOMAIN stamps[c] : i > n => ~ (stamps[c][i] + LimitWindow <= clock)}
<1>1. /\ Len(stamps[c]) \in Nat /\ DOMAIN stamps[c] = 1 .. Len(stamps[c])
      /\ clock \in Nat /\ LimitWindow \in Nat
      /\ \A i \in DOMAIN stamps[c] : stamps[c][i] \in Nat
  BY LimiterFacts
<1>2. \A i, j \in DOMAIN stamps[c] : i <= j => stamps[c][i] <= stamps[c][j]
  BY DEF LimitCore, CallerHolds, LimiterTypes
<1>3. Len(stamps[c]) \in S /\ S \subseteq Nat
  BY <1>1
<1>4. PICK n \in S : n \in Nat /\ \A y \in S : n <= y
  <2> HIDE DEF S
  <2> QED BY <1>3, LeastNumber
<1>5. \A y \in S : ~ (y < n)
  BY <1>3, <1>4
<1>6. n \in 0 .. Len(stamps[c]) /\ n \in Nat
  BY <1>1
<1>7. ASSUME NEW i \in DOMAIN stamps[c], i <= n PROVE stamps[c][i] + LimitWindow <= clock
  <2> SUFFICES ASSUME ~ (stamps[c][i] + LimitWindow <= clock) PROVE FALSE
    OBVIOUS
  <2>1. i \in Nat /\ i > 0
    BY <1>1
  <2>2. i - 1 \in 0 .. Len(stamps[c]) /\ i - 1 < n
    BY <1>1, <1>6, <1>7, <2>1
  <2>3. ASSUME NEW j \in DOMAIN stamps[c], j > i - 1 PROVE ~ (stamps[c][j] + LimitWindow <= clock)
    <3>1. j \in Nat /\ i <= j
      BY <1>1, <2>1, <2>3
    <3>2. stamps[c][i] <= stamps[c][j]
      BY <1>2, <3>1
    <3> QED BY <1>1, <3>2
  <2>4. i - 1 \in S
    BY <2>2, <2>3
  <2> QED BY <1>5, <2>2, <2>4
<1>8. ASSUME NEW i \in DOMAIN stamps[c], ~ (i <= n) PROVE ~ (stamps[c][i] + LimitWindow <= clock)
  <2>1. i > n
    BY <1>1, <1>6, <1>8
  <2> QED BY <2>1
<1>9. \A i \in DOMAIN stamps[c] : stamps[c][i] + LimitWindow <= clock <=> i <= n
  BY <1>7, <1>8
<1> QED BY <1>6, <1>9 DEF Gone

(* What is left of the stamps, and that it is all that passed within the   *)
(* window.                                                                 *)
LEMMA InWindowFacts ==
  ASSUME LimitCore, NEW c \in Caller
  PROVE  /\ InWindow(c) \in Seq(1 .. clock) /\ Len(InWindow(c)) = Len(stamps[c]) - Gone(c)
         /\ Len(InWindow(c)) \in Nat /\ Len(InWindow(c)) <= OwnerMax /\ Gone(c) \in Nat
         /\ \A i \in 1 .. Len(InWindow(c)) : /\ InWindow(c)[i] = stamps[c][i + Gone(c)]
                                             /\ i + Gone(c) \in DOMAIN stamps[c]
         /\ \A i, j \in DOMAIN InWindow(c) : i <= j => InWindow(c)[i] <= InWindow(c)[j]
<1>1. /\ Len(stamps[c]) \in Nat /\ DOMAIN stamps[c] = 1 .. Len(stamps[c])
      /\ stamps[c] \in Seq(1 .. clock) /\ OwnerMax \in Nat
  BY LimiterFacts
<1>2. /\ \A i, j \in DOMAIN stamps[c] : i <= j => stamps[c][i] <= stamps[c][j]
      /\ Len(stamps[c]) <= OwnerMax
  BY DEF LimitCore, CallerHolds, LimiterTypes
<1>3. Gone(c) \in Nat /\ Gone(c) <= Len(stamps[c])
  BY <1>1, GoneIsPrefix
<1>4. /\ InWindow(c) \in Seq(1 .. clock)
      /\ Len(InWindow(c)) = Len(stamps[c]) - Gone(c)
      /\ \A i \in 1 .. Len(InWindow(c)) : InWindow(c)[i] = stamps[c][i + Gone(c)]
  <2> DEFINE m == Gone(c) + 1
             n == Len(stamps[c])
  <2>1. m \in Int /\ n \in Int /\ \A i \in m .. n : stamps[c][i] \in 1 .. clock
    <3>1. m \in Nat /\ m > 0 /\ n \in Nat
      <4>1. Gone(c) \in Nat /\ Len(stamps[c]) \in Nat
        BY <1>1, <1>3
      <4> QED BY <4>1
    <3>2. \A i \in 1 .. n : stamps[c][i] \in 1 .. clock
      <4>1. \A i \in DOMAIN stamps[c] : stamps[c][i] \in 1 .. clock
        BY LimiterFacts
      <4> QED BY <1>1, <4>1
    <3>3. \A i \in m .. n : i \in 1 .. n
      BY <3>1
    <3> QED BY <3>1, <3>2, <3>3
  <2>2. /\ SubSeq(stamps[c], m, n) \in Seq(1 .. clock)
        /\ Len(SubSeq(stamps[c], m, n)) = IF m <= n THEN n - m + 1 ELSE 0
        /\ \A i \in 1 .. n - m + 1 : SubSeq(stamps[c], m, n)[i] = stamps[c][m + i - 1]
    BY <2>1, SubSeqProperties
  <2>3. (IF m <= n THEN n - m + 1 ELSE 0) = n - Gone(c) /\ n - m + 1 = n - Gone(c)
    BY <1>1, <1>3
  <2>4. \A i \in 1 .. n - Gone(c) : m + i - 1 = i + Gone(c)
    BY <1>1, <1>3
  <2>5. InWindow(c) = SubSeq(stamps[c], m, n)
    BY DEF InWindow
  <2> HIDE DEF m
  <2> QED BY <2>2, <2>3, <2>4, <2>5
<1>5. Len(InWindow(c)) \in Nat /\ Len(InWindow(c)) <= OwnerMax
  BY <1>1, <1>2, <1>3, <1>4
<1>6. \A i \in 1 .. Len(InWindow(c)) : i \in Nat /\ i + Gone(c) \in DOMAIN stamps[c]
  BY <1>1, <1>3, <1>4
<1>7. DOMAIN InWindow(c) = 1 .. Len(InWindow(c))
  BY <1>4
<1>8. \A i, j \in DOMAIN InWindow(c) : i <= j => InWindow(c)[i] <= InWindow(c)[j]
  <2> SUFFICES ASSUME NEW i \in 1 .. Len(InWindow(c)), NEW j \in 1 .. Len(InWindow(c)), i <= j
               PROVE  InWindow(c)[i] <= InWindow(c)[j]
    BY <1>7
  <2>1. i + Gone(c) <= j + Gone(c)
    BY <1>3, <1>6
  <2>2. stamps[c][i + Gone(c)] <= stamps[c][j + Gone(c)]
    BY <1>2, <1>6, <2>1
  <2> QED BY <1>4, <2>2
<1> QED BY <1>3, <1>4, <1>5, <1>6, <1>8

LEMMA StampsAfterCut ==
  ASSUME LimitCore, NEW c \in Caller, limiter[c] = "owner"
  PROVE  /\ \A i \in 1 .. Len(InWindow(c)) :
              passed[c][InWindow(c)[i]] >= passed[c][clock] - Len(InWindow(c)) + i
         /\ \A t \in Clocks :
              clock <= t + LimitWindow => passed[c][t] >= passed[c][clock] - Len(InWindow(c))
<1>1. /\ Len(stamps[c]) \in Nat /\ DOMAIN stamps[c] = 1 .. Len(stamps[c]) /\ clock \in Clocks
      /\ clock \in Nat /\ MaxClock \in Nat /\ clock <= MaxClock /\ LimitWindow \in Nat
      /\ \A t \in Clocks : passed[c][t] \in Nat
      /\ \A i \in DOMAIN stamps[c] : stamps[c][i] \in 1 .. clock
  BY LimiterFacts
<1>2. CallerHolds(c)
  BY DEF LimitCore
<1>3. /\ \A i \in DOMAIN stamps[c] :
           passed[c][stamps[c][i]] >= passed[c][clock] - Len(stamps[c]) + i
      /\ \A t \in Clocks :
           clock <= t + LimitWindow => passed[c][t] >= passed[c][clock] - Len(stamps[c])
  BY <1>2 DEF CallerHolds, StampsArePasses
<1>4. Gone(c) \in Nat /\ Gone(c) <= Len(stamps[c]) /\ Len(InWindow(c)) = Len(stamps[c]) - Gone(c)
  BY <1>1, GoneIsPrefix, InWindowFacts
<1>5. ASSUME NEW i \in 1 .. Len(InWindow(c))
      PROVE  passed[c][InWindow(c)[i]] >= passed[c][clock] - Len(InWindow(c)) + i
  <2>1. InWindow(c)[i] = stamps[c][i + Gone(c)] /\ i + Gone(c) \in DOMAIN stamps[c] /\ i \in Nat
    BY InWindowFacts
  <2>2. passed[c][stamps[c][i + Gone(c)]] >= passed[c][clock] - Len(stamps[c]) + (i + Gone(c))
    BY <1>3, <2>1
  <2>3. stamps[c][i + Gone(c)] \in Clocks
    BY <1>1, <2>1 DEF Clocks
  <2>4. passed[c][stamps[c][i + Gone(c)]] \in Nat /\ passed[c][clock] \in Nat
    BY <1>1, <2>3
  <2> QED BY <1>1, <1>4, <2>1, <2>2, <2>4
<1>6. ASSUME NEW t \in Clocks, clock <= t + LimitWindow
      PROVE  passed[c][t] >= passed[c][clock] - Len(InWindow(c))
  <2>1. passed[c][t] \in Nat /\ passed[c][clock] \in Nat /\ t \in Nat
    BY <1>1 DEF Clocks
  <2>2. CASE Gone(c) = 0
    BY <1>1, <1>3, <1>4, <1>6, <2>1, <2>2
  <2>3. CASE Gone(c) # 0
    <3>1. Gone(c) \in DOMAIN stamps[c]
      BY <1>1, <1>4, <2>3
    <3>2. stamps[c][Gone(c)] + LimitWindow <= clock /\ stamps[c][Gone(c)] \in 1 .. clock
      BY <1>1, <1>4, <3>1, GoneIsPrefix
    <3>3. stamps[c][Gone(c)] <= t /\ stamps[c][Gone(c)] \in Clocks
      BY <1>1, <1>6, <2>1, <3>2 DEF Clocks
    <3>4. passed[c][stamps[c][Gone(c)]] <= passed[c][t] /\ passed[c][stamps[c][Gone(c)]] \in Nat
      BY <1>1, <1>2, <3>3 DEF CallerHolds, PassedAdds
    <3>5. passed[c][stamps[c][Gone(c)]] >= passed[c][clock] - Len(stamps[c]) + Gone(c)
      BY <1>3, <3>1
    <3>6. /\ Len(stamps[c]) \in Nat /\ Gone(c) \in Nat
          /\ Len(InWindow(c)) = Len(stamps[c]) - Gone(c)
      BY <1>1, <1>4
    <3> QED BY <2>1, <3>4, <3>5, <3>6, SMTT(30)
  <2> QED BY <2>2, <2>3
<1> QED BY <1>5, <1>6

LEMMA OnePassMore ==
  ASSUME NEW all \in Nat, NEW left \in Nat, NEW old \in Nat, NEW new \in Nat, old <= new
  PROVE  /\ \A i \in Nat : old >= all - left + i => new >= (all + 1) - (left + 1) + i
         /\ \A max \in Nat : old >= all - left /\ left < max => (all + 1) - new <= max
OBVIOUS

(* A request that is let through is the newest of at most OwnerMax stamps. *)
LEMMA OwnerPasses ==
  ASSUME LimitCore, NEW c \in Caller, limiter[c] = "owner", Allows(c), Passes(c),
         stamps' = [stamps EXCEPT ![c] = Append(InWindow(c), clock)],
         UNCHANGED <<clock, limiter, bucket>>
  PROVE  LimitCore'
<1> DEFINE w == InWindow(c)
           s == Append(w, clock)
           p == [t \in 0 .. MaxClock |-> IF t < clock THEN passed[c][t] ELSE passed[c][t] + 1]
<1>1. bucket' = [bucket EXCEPT ![c] = bucket[c]] /\ bucket'[c] = bucket[c]
  BY DEF LimitCore
<1>2. passed' = [passed EXCEPT ![c] = p] /\ advice' = [advice EXCEPT ![c] = 0]
  BY DEF Passes
<1>3. stamps'[c] = s
  BY DEF LimitCore
<1>4. /\ clock \in Nat /\ 1 <= clock /\ clock \in Clocks /\ clock <= MaxClock /\ MaxClock \in Nat
      /\ LimitWindow \in Nat /\ OwnerMax \in Nat /\ OwnerBurst \in 1 .. OwnerMax
      /\ bucket[c] \in [count : 0 .. MaxRequests, resetAt : Nat]
  BY LimiterFacts
<1>5. /\ passed'[c] \in [Clocks -> Nat] /\ advice'[c] = 0 /\ PassedAdds(c)'
      /\ \A t \in Clocks : t < clock => passed'[c][t] = passed[c][t]
      /\ \A t \in Clocks : clock <= t => passed'[c][t] = passed[c][clock] + 1
      /\ \A t \in Clocks : passed[c][t] \in Nat /\ passed[c][t] <= passed'[c][t]
      /\ \A t \in Clocks : passed[c][t] <= passed[c][clock]
  BY PassAdds
<1>6. CallerHolds(c)
  BY DEF LimitCore
<1>7. \A t \in Clocks : t \in Nat
  BY DEF Clocks
<1>8. /\ w \in Seq(1 .. clock) /\ Len(w) \in Nat /\ DOMAIN w = 1 .. Len(w)
      /\ \A i, j \in DOMAIN w : i <= j => w[i] <= w[j]
  BY InWindowFacts
<1>9. Len(w) < OwnerMax
  BY <1>4, <1>8 DEF Allows
<1>10. /\ \A i \in 1 .. Len(w) : passed[c][w[i]] >= passed[c][clock] - Len(w) + i
       /\ \A t \in Clocks : clock <= t + LimitWindow => passed[c][t] >= passed[c][clock] - Len(w)
  BY StampsAfterCut
<1>11. clock \in 1 .. clock /\ \A i \in 1 .. Len(w) : w[i] \in 1 .. clock
  BY <1>4, <1>8
<1> HIDE DEF w
<1>12. /\ s \in Seq(1 .. clock) /\ Len(s) = Len(w) + 1 /\ DOMAIN s = 1 .. Len(w) + 1
       /\ \A i \in 1 .. Len(w) : s[i] = w[i]
       /\ s[Len(w) + 1] = clock
  BY <1>8, <1>11, AppendProperties
<1> HIDE DEF s, p
<1>13. ASSUME NEW i \in DOMAIN s, NEW j \in DOMAIN s, i <= j PROVE s[i] <= s[j]
  <2>1. CASE j = Len(w) + 1
    BY <1>4, <1>12, <2>1
  <2>2. CASE j # Len(w) + 1
    <3>1. i \in 1 .. Len(w) /\ j \in 1 .. Len(w)
      BY <1>8, <1>12, <1>13, <2>2
    <3> QED BY <1>8, <1>12, <1>13, <3>1
  <2> QED BY <2>1, <2>2
<1>14. LimiterTypes(c)'
  <2>1. LimiterTypes(c)
    BY <1>6 DEF CallerHolds
  <2>2. \A i, j \in DOMAIN s : i <= j => s[i] <= s[j]
    BY <1>13
  <2>3. Len(s) <= OwnerMax
    BY <1>4, <1>8, <1>9, <1>12
  <2>4. s \in Seq(1 .. clock)
    BY <1>12
  <2>5. passed'[c] \in [Clocks -> Nat] /\ advice'[c] \in Nat
    BY <1>5
  <2>6. /\ limiter'[c] \in {"address", "owner", "attempts"}
        /\ bucket'[c] \in [count : 0 .. MaxRequests, resetAt : Nat]
    BY <1>1, <1>4, <2>1 DEF LimiterTypes
  <2>7. stamps'[c] = s /\ clock' = clock
    BY <1>3
  <2> QED BY <2>2, <2>3, <2>4, <2>5, <2>6, <2>7 DEF LimiterTypes, Clocks
<1>15. SpansHold(c)'
  <2> SUFFICES ASSUME NEW t \in Clocks, NEW u \in Clocks, t <= u, u <= t + LimitWindow
               PROVE  passed'[c][u] - passed'[c][t] <= OwnerMax
    BY DEF SpansHold, Clocks
  <2>1. passed'[c][t] \in Nat /\ passed'[c][u] \in Nat /\ t \in Nat /\ u \in Nat
    BY <1>5, <1>7
  <2>2. passed[c][t] \in Nat /\ passed[c][u] \in Nat /\ passed[c][clock] \in Nat
    BY <1>4, <1>5
  <2>3. CASE u < clock
    <3>1. passed'[c][u] = passed[c][u] /\ passed'[c][t] = passed[c][t]
      BY <1>4, <1>5, <2>1, <2>3
    <3>2. passed[c][u] - passed[c][t] <= OwnerMax
      BY <1>6 DEF CallerHolds, SpansHold
    <3> QED BY <3>1, <3>2
  <2>4. CASE clock <= u
    <3>1. passed'[c][u] = passed[c][clock] + 1
      BY <1>5, <2>4
    <3>2. passed[c][t] <= passed'[c][t]
      BY <1>5
    <3>3. passed[c][t] >= passed[c][clock] - Len(w)
      BY <1>4, <1>10, <2>1, <2>4
    <3>4. Len(w) \in Nat /\ OwnerMax \in Nat
      BY <1>4, <1>8
    <3> QED BY <1>9, <2>1, <2>2, <3>1, <3>2, <3>3, <3>4, OnePassMore, SMTT(30)
  <2> QED BY <1>4, <2>1, <2>3, <2>4
<1>16. StampsArePasses(c)'
  <2>1. passed'[c][clock] = passed[c][clock] + 1 /\ passed[c][clock] \in Nat
    BY <1>4, <1>5
  <2>2. ASSUME NEW i \in DOMAIN s
        PROVE  passed'[c][s[i]] >= passed'[c][clock] - Len(s) + i
    <3>1. CASE i = Len(w) + 1
      BY <1>4, <1>8, <1>12, <2>1, <3>1
    <3>2. CASE i # Len(w) + 1
      <4>1. i \in 1 .. Len(w)
        BY <1>8, <1>12, <3>2
      <4>2. s[i] = w[i] /\ w[i] \in Clocks /\ i \in Nat
        BY <1>4, <1>11, <1>12, <4>1 DEF Clocks
      <4>3. /\ passed[c][w[i]] \in Nat /\ passed'[c][w[i]] \in Nat
            /\ passed[c][w[i]] <= passed'[c][w[i]]
        BY <1>5, <4>2
      <4>4. passed[c][w[i]] >= passed[c][clock] - Len(w) + i
        BY <1>10, <4>1
      <4>5. Len(w) \in Nat /\ Len(s) = Len(w) + 1
        BY <1>8, <1>12
      <4> QED BY <2>1, <4>2, <4>3, <4>4, <4>5, OnePassMore
    <3> QED BY <3>1, <3>2
  <2>3. ASSUME NEW t \in Clocks, clock <= t + LimitWindow
        PROVE  passed'[c][t] >= passed'[c][clock] - Len(s)
    <3>1. passed[c][t] \in Nat /\ passed'[c][t] \in Nat /\ passed[c][t] <= passed'[c][t]
      BY <1>5
    <3>2. passed[c][t] >= passed[c][clock] - Len(w)
      BY <1>10, <2>3
    <3> QED BY <1>8, <1>12, <2>1, <3>1, <3>2
  <2> QED BY <1>3, <2>2, <2>3 DEF StampsArePasses, Clocks
<1>17. BucketCounts(c)' /\ NoBucketIsQuiet(c)' /\ AdviceIsOfTheLimit(c)'
  BY <1>5 DEF BucketCounts, NoBucketIsQuiet, AdviceIsOfTheLimit
<1>18. CallerHolds(c)'
  BY <1>5, <1>14, <1>15, <1>16, <1>17 DEF CallerHolds
<1> QED BY <1>1, <1>2, <1>18, OneCallerMoves

LEMMA OwnerIsRefused ==
  ASSUME LimitCore, NEW c \in Caller, limiter[c] = "owner", ~ Allows(c), Refused(c, Advice(c)),
         stamps' = [stamps EXCEPT ![c] = InWindow(c)], UNCHANGED <<clock, limiter, bucket>>
  PROVE  LimitCore'
<1>1. bucket' = [bucket EXCEPT ![c] = bucket[c]] /\ passed' = [passed EXCEPT ![c] = passed[c]]
  BY DEF LimitCore, Refused
<1>2. advice' = [advice EXCEPT ![c] = Advice(c)] /\ advice'[c] = Advice(c)
  BY DEF LimitCore, Refused
<1>3. UNCHANGED <<clock, limiter, bucket, passed>> /\ stamps'[c] = InWindow(c)
  BY DEF LimitCore, Refused
<1>4. OwnerMax \in Nat /\ OwnerMax > 0 /\ LimitWindow \in Nat /\ clock \in Nat
  BY LimiterFacts
<1>5. /\ InWindow(c) \in Seq(1 .. clock) /\ DOMAIN InWindow(c) = 1 .. Len(InWindow(c))
      /\ Len(InWindow(c)) \in Nat /\ Len(InWindow(c)) <= OwnerMax
      /\ \A i, j \in DOMAIN InWindow(c) : i <= j => InWindow(c)[i] <= InWindow(c)[j]
  BY InWindowFacts
<1>6. Len(InWindow(c)) = OwnerMax
  <2>1. ~ (Len(InWindow(c)) < OwnerMax)
    BY DEF Allows
  <2>2. Len(InWindow(c)) \in Nat /\ Len(InWindow(c)) <= OwnerMax
    BY <1>5
  <2> QED BY <1>4, <2>1, <2>2
<1>7. Advice(c) \in Nat /\ Advice(c) = InWindow(c)[1] + LimitWindow
  BY <1>4, <1>5, <1>6 DEF Advice
<1>8. CallerHolds(c)
  BY DEF LimitCore
<1>9. LimiterTypes(c)'
  BY <1>2, <1>3, <1>5, <1>7, <1>8 DEF CallerHolds, LimiterTypes, Clocks
<1>10. PassedAdds(c)' /\ SpansHold(c)'
  BY <1>3, <1>8 DEF CallerHolds, PassedAdds, SpansHold, Clocks
<1>11. BucketCounts(c)' /\ NoBucketIsQuiet(c)'
  BY <1>3 DEF BucketCounts, NoBucketIsQuiet
<1>12. StampsArePasses(c)'
  BY <1>3, <1>5, StampsAfterCut DEF StampsArePasses, Clocks
<1>13. AdviceIsOfTheLimit(c)'
  BY <1>2, <1>3, <1>6, <1>7 DEF AdviceIsOfTheLimit
<1>14. CallerHolds(c)'
  BY <1>9, <1>10, <1>11, <1>12, <1>13 DEF CallerHolds
<1> QED BY <1>1, <1>2, <1>3, <1>14, OneCallerMoves

LEMMA TickHolds ==
  ASSUME LimitCore, LimitTick
  PROVE  LimitCore'
<1>1. clock' = clock + 1 /\ clock < MaxClock /\ UNCHANGED <<limiter, bucket, stamps, passed, advice>>
  BY DEF LimitTick
<1>2. ASSUME NEW c \in Caller PROVE CallerHolds(c)'
  <2>1. /\ clock \in Nat /\ 1 <= clock /\ clock \in Clocks /\ clock + 1 \in Clocks
        /\ MaxClock \in Nat /\ LimitWindow \in Nat
        /\ \A t \in Clocks : t \in Nat /\ passed[c][t] \in Nat
        /\ bucket[c].resetAt \in Nat
    <3>1. /\ clock \in Nat /\ 1 <= clock /\ clock \in Clocks /\ MaxClock \in Nat
          /\ LimitWindow \in Nat /\ bucket[c].resetAt \in Nat /\ passed[c] \in [Clocks -> Nat]
      BY LimiterFacts
    <3>2. clock + 1 \in Clocks /\ \A t \in Clocks : t \in Nat
      BY <1>1, <3>1 DEF Clocks
    <3>3. \A t \in Clocks : passed[c][t] \in Nat
      BY <3>1
    <3> QED BY <3>1, <3>2, <3>3
  <2>2. CallerHolds(c)
    BY DEF LimitCore
  <2>3. \A t \in Clocks : clock <= t => passed[c][t] = passed[c][clock]
    BY <2>2, <2>1 DEF CallerHolds, PassedAdds
  <2>4. passed[c][clock + 1] = passed[c][clock]
    BY <2>1, <2>3
  <2>5. WindowStart(c)' = WindowStart(c) /\ WindowEnd(c)' = WindowEnd(c)
    BY <1>1 DEF WindowStart, WindowEnd
  <2>6. LimiterTypes(c)'
    <3>1. LimiterTypes(c) /\ stamps[c] \in Seq(1 .. clock)
      BY <2>2 DEF CallerHolds, LimiterTypes
    <3>2. stamps[c] \in Seq(1 .. clock + 1)
      BY <2>1, <3>1
    <3> QED BY <1>1, <3>1, <3>2 DEF LimiterTypes, Clocks
  <2>7. PassedAdds(c)' /\ SpansHold(c)'
    <3>1. ASSUME NEW t \in Clocks, clock + 1 <= t PROVE passed[c][t] = passed[c][clock + 1]
      <4>1. clock <= t
        BY <2>1, <3>1
      <4> QED BY <2>3, <2>4, <4>1
    <3>2. \A t, u \in Clocks : t <= u => passed[c][t] <= passed[c][u]
      BY <2>2 DEF CallerHolds, PassedAdds
    <3> QED BY <1>1, <2>2, <3>1, <3>2 DEF CallerHolds, PassedAdds, SpansHold, Clocks
  <2>8. BucketCounts(c)'
    <3> SUFFICES ASSUME limiter[c] # "owner", bucket[c].count > 0
        PROVE  /\ LimitWindow < bucket[c].resetAt /\ bucket[c].resetAt <= clock + 1 + LimitWindow
               /\ passed[c][clock + 1] - passed[c][WindowStart(c) - 1] = bucket[c].count
               /\ \A t \in Clocks : WindowEnd(c) <= t + 1 => passed[c][t] = passed[c][clock + 1]
               /\ \A t \in Clocks : WindowStart(c) <= t + 1 + LimitWindow =>
                    passed[c][WindowStart(c) - 1] - passed[c][t] <= MaxRequests
      BY <1>1, <2>5 DEF BucketCounts, Clocks
    <3>1. /\ LimitWindow < bucket[c].resetAt /\ bucket[c].resetAt <= clock + LimitWindow
          /\ passed[c][clock] - passed[c][WindowStart(c) - 1] = bucket[c].count
          /\ \A t \in Clocks : WindowEnd(c) <= t + 1 => passed[c][t] = passed[c][clock]
          /\ \A t \in Clocks : WindowStart(c) <= t + 1 + LimitWindow =>
               passed[c][WindowStart(c) - 1] - passed[c][t] <= MaxRequests
      BY <2>2 DEF CallerHolds, BucketCounts
    <3>2. bucket[c].resetAt <= clock + 1 + LimitWindow
      BY <2>1, <3>1
    <3> QED BY <2>4, <3>1, <3>2
  <2>9. NoBucketIsQuiet(c)'
    <3> SUFFICES ASSUME limiter[c] # "owner", bucket[c].count = 0
                 PROVE  /\ passed[c][clock' - 1] = passed[c][clock']
                        /\ \A t \in Clocks : clock' <= t + 1 + LimitWindow =>
                             passed[c][clock'] - passed[c][t] <= MaxRequests
      BY <1>1 DEF NoBucketIsQuiet, Clocks
    <3>1. \A t \in Clocks : clock <= t + 1 + LimitWindow =>
            passed[c][clock] - passed[c][t] <= MaxRequests
      BY <2>2 DEF CallerHolds, NoBucketIsQuiet
    <3>2. clock' - 1 = clock
      BY <1>1, <2>1
    <3>3. ASSUME NEW t \in Clocks, clock' <= t + 1 + LimitWindow
          PROVE  passed[c][clock'] - passed[c][t] <= MaxRequests
      <4>1. clock <= t + 1 + LimitWindow
        BY <1>1, <2>1, <3>3
      <4> QED BY <1>1, <2>4, <3>1, <4>1
    <3>4. passed[c][clock' - 1] = passed[c][clock']
      BY <1>1, <2>4, <3>2
    <3> QED BY <3>3, <3>4
  <2>10. StampsArePasses(c)'
    <3> SUFFICES ASSUME limiter[c] = "owner"
        PROVE  /\ \A i \in DOMAIN stamps[c] :
                    passed[c][stamps[c][i]] >= passed[c][clock] - Len(stamps[c]) + i
               /\ \A t \in Clocks : clock + 1 <= t + LimitWindow =>
                    passed[c][t] >= passed[c][clock] - Len(stamps[c])
      BY <1>1, <2>4 DEF StampsArePasses, Clocks
    <3>1. /\ \A i \in DOMAIN stamps[c] :
               passed[c][stamps[c][i]] >= passed[c][clock] - Len(stamps[c]) + i
          /\ \A t \in Clocks :
               clock <= t + LimitWindow => passed[c][t] >= passed[c][clock] - Len(stamps[c])
      BY <2>2 DEF CallerHolds, StampsArePasses
    <3> QED BY <2>1, <3>1
  <2>11. AdviceIsOfTheLimit(c)'
    BY <1>1, <2>2 DEF CallerHolds, AdviceIsOfTheLimit
  <2> QED BY <2>6, <2>7, <2>8, <2>9, <2>10, <2>11 DEF CallerHolds
<1>3. clock' \in 1 .. MaxClock
  BY <1>1, LimitAssumption DEF LimitCore
<1> QED BY <1>1, <1>2, <1>3 DEF LimitCore

LEMMA LimitsBegin == LimitInit => LimitCore
<1> SUFFICES ASSUME LimitInit PROVE LimitCore
  OBVIOUS
<1>1. ASSUME NEW c \in Caller PROVE CallerHolds(c)
  <2>1. /\ clock = 1 /\ limiter[c] \in {"address", "owner", "attempts"}
        /\ bucket[c] = [count |-> 0, resetAt |-> 0] /\ stamps[c] = <<>>
        /\ passed[c] = [t \in Clocks |-> 0] /\ advice[c] = 0
    BY DEF LimitInit, Clocks
  <2>2. /\ MaxRequests \in Nat /\ OwnerMax \in Nat /\ MaxClock \in Nat /\ MaxClock > 0
    BY LimitAssumption
  <2>3. \A t \in Clocks : passed[c][t] = 0
    BY <2>1
  <2>4. Len(stamps[c]) = 0 /\ DOMAIN stamps[c] = {} /\ stamps[c] \in Seq(1 .. clock)
    BY <2>1
  <2>5. bucket[c] \in [count : 0 .. MaxRequests, resetAt : Nat] /\ bucket[c].count = 0
    BY <2>1, <2>2
  <2>6. passed[c] \in [Clocks -> Nat]
    BY <2>1
  <2>7. clock \in Clocks /\ clock - 1 \in Clocks
    BY <2>1, <2>2 DEF Clocks
  <2>8. LimiterTypes(c)
    BY <2>1, <2>2, <2>4, <2>5, <2>6 DEF LimiterTypes
  <2>9. PassedAdds(c) /\ SpansHold(c)
    BY <2>2, <2>3, <2>7 DEF PassedAdds, SpansHold
  <2>10. BucketCounts(c) /\ NoBucketIsQuiet(c)
    BY <2>2, <2>3, <2>5, <2>7 DEF BucketCounts, NoBucketIsQuiet
  <2>11. StampsArePasses(c) /\ AdviceIsOfTheLimit(c)
    BY <2>1, <2>3, <2>4, <2>7 DEF StampsArePasses, AdviceIsOfTheLimit
  <2> QED BY <2>8, <2>9, <2>10, <2>11 DEF CallerHolds
<1>2. clock \in 1 .. MaxClock
  BY LimitAssumption DEF LimitInit
<1> QED BY <1>1, <1>2 DEF LimitInit, LimitCore

LEMMA LimitSteps == LimitCore /\ [LimitNext]_limitVars => LimitCore'
<1> SUFFICES ASSUME LimitCore, [LimitNext]_limitVars PROVE LimitCore'
  OBVIOUS
<1>1. ASSUME NEW c \in Caller, OwnerRequest(c) PROVE LimitCore'
  BY <1>1, OwnerPasses, OwnerIsRefused DEF OwnerRequest
<1>2. CASE LimitNext
  BY <1>1, <1>2, AddressHolds, KeyHolds, TickHolds DEF LimitNext
<1>3. CASE UNCHANGED limitVars
  <2>1. UNCHANGED <<clock, limiter, bucket, stamps, passed, advice>>
    BY <1>3 DEF limitVars
  <2>2. ASSUME NEW c \in Caller PROVE CallerHolds(c)'
    <3>1. CallerHolds(c)
      BY DEF LimitCore
    <3>2. WindowStart(c)' = WindowStart(c) /\ WindowEnd(c)' = WindowEnd(c)
      BY <2>1 DEF WindowStart, WindowEnd
    <3>3. LimiterTypes(c)' /\ PassedAdds(c)' /\ SpansHold(c)'
      BY <2>1, <3>1 DEF CallerHolds, LimiterTypes, PassedAdds, SpansHold, Clocks
    <3>4. BucketCounts(c)' /\ NoBucketIsQuiet(c)'
      BY <2>1, <3>1, <3>2 DEF CallerHolds, BucketCounts, NoBucketIsQuiet, Clocks
    <3>5. StampsArePasses(c)' /\ AdviceIsOfTheLimit(c)'
      BY <2>1, <3>1 DEF CallerHolds, StampsArePasses, AdviceIsOfTheLimit, Clocks
    <3> QED BY <3>3, <3>4, <3>5 DEF CallerHolds
  <2> QED BY <2>1, <2>2 DEF LimitCore
<1> QED BY <1>2, <1>3

(* The limits hold for any limit, window and burst: a fixed window lets    *)
(* through at most twice its limit in any span of its length, a sliding    *)
(* one at most its limit, and a refused caller is told exactly when it     *)
(* will be let through again (checkIpRateLimit, checkOwnerRateLimit).      *)
THEOREM LimitsHold == LimitSpec => []LimitInv
<1>1. LimitCore => LimitInv
  <2> SUFFICES ASSUME LimitCore PROVE LimitInv
    OBVIOUS
  <2>1. LimitTypeOK
    <3>1. clock \in Nat /\ limiter \in [Caller -> {"address", "owner", "attempts"}]
      BY DEF LimitCore
    <3>2. \A c \in Caller : LimiterTypes(c)
      BY DEF LimitCore, CallerHolds
    <3>3. /\ bucket \in [Caller -> [count : 0 .. MaxRequests, resetAt : Nat]]
          /\ passed \in [Caller -> [0 .. MaxClock -> Nat]] /\ advice \in [Caller -> Nat]
      BY <3>2 DEF LimitCore, LimiterTypes, Clocks
    <3> QED BY <3>1, <3>2, <3>3 DEF LimitTypeOK, LimiterTypes
  <2>2. FixedWindowsAtMostDouble /\ SlidingWindowHolds
    <3>1. ASSUME NEW c \in Caller, NEW s \in Span
          PROVE  PassedIn(c, s) <= IF limiter[c] = "owner" THEN OwnerMax ELSE 2 * MaxRequests
      <4>1. SpansHold(c)
        BY DEF LimitCore, CallerHolds
      <4>2. s[1] \in Clocks /\ s[2] \in Clocks /\ s[1] <= s[2] /\ s[2] <= s[1] + LimitWindow
        BY DEF Span, Clocks
      <4> QED BY <4>1, <4>2 DEF SpansHold, PassedIn
    <3> QED BY <3>1 DEF FixedWindowsAtMostDouble, SlidingWindowHolds
  <2>3. ASSUME NEW c \in Caller, advice[c] # 0
        PROVE  clock >= advice[c] <=> IF limiter[c] = "owner" THEN Allows(c) ELSE ~ Full(c)
    <3>1. AdviceIsOfTheLimit(c)
      BY DEF LimitCore, CallerHolds
    <3>2. CASE limiter[c] = "address"
      BY <2>3, <3>1, <3>2, LimiterFacts DEF AdviceIsOfTheLimit, Full, Over
    <3>3. CASE limiter[c] # "address"
      <4>1. /\ limiter[c] = "owner" /\ Len(stamps[c]) = OwnerMax
            /\ advice[c] = stamps[c][1] + LimitWindow
        BY <2>3, <3>1, <3>3 DEF AdviceIsOfTheLimit
      <4>2. /\ OwnerMax \in Nat /\ OwnerMax > 0 /\ OwnerBurst \in 1 .. OwnerMax
            /\ clock \in Nat /\ 1 \in DOMAIN stamps[c]
        BY <4>1, LimiterFacts
      <4>3. stamps[c][1] + LimitWindow <= clock <=> 1 <= Gone(c)
        BY <4>2, GoneIsPrefix
      <4>4. Gone(c) \in Nat /\ Len(InWindow(c)) = OwnerMax - Gone(c)
        BY <4>1, InWindowFacts
      <4>5. Allows(c) <=> 1 <= Gone(c)
        BY <4>2, <4>4 DEF Allows
      <4>6. clock >= advice[c] <=> stamps[c][1] + LimitWindow <= clock
        BY <4>1
      <4> QED BY <4>1, <4>3, <4>5, <4>6
    <3> QED BY <3>2, <3>3
  <2>4. RetryAfterIsExact
    BY <2>3 DEF RetryAfterIsExact
  <2> QED BY <2>1, <2>2, <2>4 DEF LimitInv
<1> QED BY LimitsBegin, LimitSteps, <1>1, PTL DEF LimitSpec

-----------------------------------------------------------------------------
(* TokenFixture for any holders and amounts.  That the balances add up to  *)
(* what was minted takes a lemma about sums: changing one summand changes  *)
(* the sum by as much.  SumFunction is a fold that takes the elements of a *)
(* set in an order of its own (Folding), so that it must first be shown    *)
(* that there is such a function and that any order is as good (AnyOrder); *)
(* both by a least number for which it would not be so.                    *)
Chosen(s) == CHOOSE x \in s : TRUE
Folds(g, f, s) == IF s = {} THEN 0 ELSE f[Chosen(s)] + g[s \ {Chosen(s)}]
Folding(f) == CHOOSE g : g = [s \in SUBSET (DOMAIN f) |-> Folds(g, f, s)]

LEMMA SumIsFold ==
  ASSUME NEW f
  PROVE  SumFunction(f) = Folding(f)[DOMAIN f]
BY DEF SumFunction, SumFunctionOnSet, FoldFunctionOnSet, MapThenFoldSet, Folding, Folds, Chosen

LEMMA ChosenFacts ==
  ASSUME NEW S, IsFiniteSet(S), NEW s \in SUBSET S, s # {}
  PROVE  /\ Chosen(s) \in s /\ s \ {Chosen(s)} \in SUBSET S
         /\ \A x \in s : /\ s \ {x} \in SUBSET S /\ Cardinality(s \ {x}) \in Nat
                         /\ Cardinality(s) = Cardinality(s \ {x}) + 1
<1>1. Chosen(s) \in s
  BY DEF Chosen
<1>2. IsFiniteSet(s)
  BY FS_Subset
<1>3. ASSUME NEW x \in s
      PROVE  Cardinality(s \ {x}) \in Nat /\ Cardinality(s) = Cardinality(s \ {x}) + 1
  <2>1. IsFiniteSet(s \ {x}) /\ Cardinality(s \ {x}) = Cardinality(s) - 1
    BY <1>2, FS_RemoveElement
  <2>2. Cardinality(s) \in Nat /\ Cardinality(s \ {x}) \in Nat
    BY <1>2, <2>1, FS_CardinalityType
  <2> QED BY <2>1, <2>2
<1> QED BY <1>1, <1>3

FoldsUpto(n, f, S) ==
  \E g \in [SUBSET S -> Int] : \A s \in SUBSET S : Cardinality(s) <= n => g[s] = Folds(g, f, s)

LEMMA FoldingExists ==
  ASSUME NEW S, IsFiniteSet(S), NEW f \in [S -> Int]
  PROVE  \A n \in Nat : FoldsUpto(n, f, S)
<1> DEFINE bad == {n \in Nat : ~ FoldsUpto(n, f, S)}
<1> SUFFICES ASSUME bad # {} PROVE FALSE
  OBVIOUS
<1>1. PICK n \in bad : n \in Nat /\ \A m \in bad : n <= m
  <2>1. bad \in SUBSET Nat
    OBVIOUS
  <2> HIDE DEF bad
  <2> QED BY <2>1, LeastNumber
<1>2. CASE n = 0
  <2> DEFINE g == [s \in SUBSET S |-> 0]
  <2>1. ASSUME NEW s \in SUBSET S, Cardinality(s) <= 0 PROVE g[s] = Folds(g, f, s)
    <3>1. ASSUME s # {} PROVE FALSE
      <4>1. /\ Cardinality(s \ {Chosen(s)}) \in Nat
            /\ Cardinality(s) = Cardinality(s \ {Chosen(s)}) + 1
        BY <3>1, ChosenFacts
      <4> QED BY <2>1, <4>1
    <3> QED BY <3>1 DEF Folds
  <2>2. g \in [SUBSET S -> Int]
    OBVIOUS
  <2>3. FoldsUpto(0, f, S)
    BY <2>1, <2>2 DEF FoldsUpto
  <2> QED BY <1>1, <1>2, <2>3
<1>3. CASE n # 0
  <2>1. FoldsUpto(n - 1, f, S)
    <3>1. n - 1 \in Nat /\ ~ (n <= n - 1)
      BY <1>1, <1>3
    <3>2. n - 1 \notin bad
      <4> HIDE DEF bad
      <4> QED BY <1>1, <3>1
    <3> QED BY <3>1, <3>2
  <2>2. PICK g \in [SUBSET S -> Int] :
          \A s \in SUBSET S : Cardinality(s) <= n - 1 => g[s] = Folds(g, f, s)
    BY <2>1 DEF FoldsUpto
  <2> DEFINE h == [s \in SUBSET S |-> Folds(g, f, s)]
  <2>3. ASSUME NEW s \in SUBSET S PROVE Folds(g, f, s) \in Int
    BY ChosenFacts DEF Folds
  <2>4. h \in [SUBSET S -> Int]
    BY <2>3
  <2>5. ASSUME NEW s \in SUBSET S, Cardinality(s) <= n PROVE h[s] = Folds(h, f, s)
    <3>1. CASE s = {}
      BY <3>1 DEF Folds
    <3>2. CASE s # {}
      <4>1. /\ Chosen(s) \in s /\ s \ {Chosen(s)} \in SUBSET S
            /\ Cardinality(s \ {Chosen(s)}) \in Nat
            /\ Cardinality(s) = Cardinality(s \ {Chosen(s)}) + 1
        BY <3>2, ChosenFacts
      <4>2. Cardinality(s \ {Chosen(s)}) <= n - 1
        BY <1>1, <2>5, <4>1
      <4>3. g[s \ {Chosen(s)}] = h[s \ {Chosen(s)}]
        BY <2>2, <4>1, <4>2
      <4> QED BY <3>2, <4>3 DEF Folds
    <3> QED BY <3>1, <3>2
  <2>6. FoldsUpto(n, f, S)
    <3> HIDE DEF h
    <3> QED BY <2>4, <2>5 DEF FoldsUpto
  <2> QED BY <1>1, <2>6
<1> QED BY <1>2, <1>3

LEMMA FoldingFolds ==
  ASSUME NEW S, IsFiniteSet(S), NEW f \in [S -> Int]
  PROVE  Folding(f) = [s \in SUBSET S |-> Folds(Folding(f), f, s)]
<1> PICK n \in Nat : n = Cardinality(S)
  BY FS_CardinalityType
<1>1. PICK g \in [SUBSET S -> Int] : \A s \in SUBSET S : Cardinality(s) <= n => g[s] = Folds(g, f, s)
  <2>1. FoldsUpto(n, f, S)
    BY FoldingExists
  <2> QED BY <2>1 DEF FoldsUpto
<1>2. \A s \in SUBSET S : Cardinality(s) <= n
  BY FS_Subset
<1>3. g = [s \in SUBSET S |-> Folds(g, f, s)]
  BY <1>1, <1>2
<1>4. DOMAIN f = S
  OBVIOUS
<1> QED BY <1>3, <1>4 DEF Folding

(* Whichever element is taken first, the sum is the same.                  *)
LEMMA AnyOrder ==
  ASSUME NEW S, IsFiniteSet(S), NEW f \in [S -> Int], NEW s \in SUBSET S
  PROVE  /\ Folding(f)[s] \in Int
         /\ s = {} => Folding(f)[s] = 0
         /\ \A x \in s : Folding(f)[s] = f[x] + Folding(f)[s \ {x}]
<1> DEFINE g == Folding(f)
           Good(t) == /\ g[t] \in Int
                      /\ t = {} => g[t] = 0
                      /\ \A x \in t : g[t] = f[x] + g[t \ {x}]
           bad == {n \in Nat : \E t \in SUBSET S : Cardinality(t) = n /\ ~ Good(t)}
<1>1. ASSUME NEW t \in SUBSET S PROVE Cardinality(t) \in Nat
  <2>1. IsFiniteSet(t)
    BY FS_Subset
  <2> QED BY <2>1, FS_CardinalityType
<1>2. \A t \in SUBSET S : g[t] = Folds(g, f, t)
  <2>1. g = [t \in SUBSET S |-> Folds(g, f, t)]
    BY FoldingFolds
  <2> HIDE DEF g
  <2> QED BY <2>1
<1> HIDE DEF g
<1>3. ASSUME bad # {} PROVE FALSE
  <2>1. bad \in SUBSET Nat
    OBVIOUS
  <2>2. PICK n \in bad : n \in Nat /\ \A m \in bad : n <= m
    <3> HIDE DEF bad
    <3> QED BY <1>3, <2>1, LeastNumber
  <2>3. PICK t \in SUBSET S : Cardinality(t) = n /\ ~ Good(t)
    OBVIOUS
  <2>4. ASSUME NEW u \in SUBSET S, Cardinality(u) < n PROVE Good(u)
    <3>1. Cardinality(u) \in Nat /\ ~ (Cardinality(u) \in bad)
      BY <1>1, <2>2, <2>4
    <3> QED BY <3>1
  <2>5. CASE t = {}
    <3>1. g[t] = 0
      <4> HIDE DEF bad, Good
      <4> QED BY <1>2, <2>5 DEF Folds
    <3> QED BY <2>3, <2>5, <3>1
  <2>6. CASE t # {}
    <3> DEFINE c == Chosen(t)
    <3>1. c \in t /\ c \in S /\ g[t] = f[c] + g[t \ {c}]
      BY <1>2, <2>6, ChosenFacts DEF Folds
    <3>2. \A x \in t : t \ {x} \in SUBSET S /\ Good(t \ {x})
      <4>1. ASSUME NEW x \in t PROVE t \ {x} \in SUBSET S /\ Cardinality(t \ {x}) < n
        BY <2>2, <2>3, <2>6, ChosenFacts
      <4> HIDE DEF Good
      <4> QED BY <2>4, <4>1
    <3> HIDE DEF c
    <3>3. g[t] \in Int
      <4>1. f[c] \in Int /\ Good(t \ {c})
        BY <3>1, <3>2
      <4>2. g[t \ {c}] \in Int
        BY <4>1
      <4> QED BY <3>1, <4>1, <4>2
    <3>4. ASSUME NEW x \in t PROVE g[t] = f[x] + g[t \ {x}]
      <4>1. CASE x = c
        BY <3>1, <4>1
      <4>2. CASE x # c
        <5>1. x \in t \ {c} /\ c \in t \ {x} /\ (t \ {c}) \ {x} = (t \ {x}) \ {c}
          BY <3>1, <4>2
        <5>2. g[t \ {c}] = f[x] + g[(t \ {c}) \ {x}]
          BY <3>1, <3>2, <5>1
        <5>3. g[t \ {x}] = f[c] + g[(t \ {x}) \ {c}]
          BY <3>2, <5>1
        <5>4. f[x] \in Int /\ f[c] \in Int /\ g[t \ {x}] \in Int /\ g[t \ {c}] \in Int
          BY <3>1, <3>2
        <5>5. g[(t \ {c}) \ {x}] \in Int
          <6>1. (t \ {c}) \ {x} \in SUBSET S /\ Cardinality((t \ {c}) \ {x}) < n
            <7>1. t \ {c} \in SUBSET S /\ t \ {c} # {} /\ Cardinality(t \ {c}) < n
              BY <2>2, <2>3, <2>6, <3>1, <5>1, ChosenFacts
            <7>2. Cardinality(t \ {c}) = Cardinality((t \ {c}) \ {x}) + 1
              BY <5>1, <7>1, ChosenFacts
            <7>3. (t \ {c}) \ {x} \in SUBSET S /\ Cardinality((t \ {c}) \ {x}) \in Nat
              <8> HIDE DEF Good, bad
              <8> QED BY <5>1, <7>1, ChosenFacts
            <7> QED BY <2>2, <7>1, <7>2, <7>3
          <6> QED BY <2>4, <6>1
        <5> QED BY <3>1, <5>1, <5>2, <5>3, <5>4, <5>5
      <4> QED BY <4>1, <4>2
    <3> QED BY <2>3, <2>6, <3>3, <3>4
  <2> QED BY <2>5, <2>6
<1>4. Cardinality(s) \notin bad
  BY <1>3
<1>5. Good(s)
  BY <1>1, <1>4
<1>6. Good(s) => /\ g[s] \in Int
                 /\ s = {} => g[s] = 0
                 /\ \A x \in s : g[s] = f[x] + g[s \ {x}]
  OBVIOUS
<1> HIDE DEF Good
<1> QED BY <1>5, <1>6 DEF g

LEMMA SumOfChange ==
  ASSUME NEW S, IsFiniteSet(S), NEW f \in [S -> Int], NEW h \in S, NEW v \in Int
  PROVE  /\ SumFunction(f) \in Int
         /\ SumFunction([f EXCEPT ![h] = v]) = SumFunction(f) - f[h] + v
<1> DEFINE e == [f EXCEPT ![h] = v]
           Same(t) == Folding(e)[t] = Folding(f)[t]
           bad == {n \in Nat : \E t \in SUBSET (S \ {h}) : Cardinality(t) = n /\ ~ Same(t)}
<1>1. e \in [S -> Int] /\ e[h] = v /\ \A x \in S \ {h} : e[x] = f[x]
  OBVIOUS
<1>2. SumFunction(f) = Folding(f)[S] /\ SumFunction(e) = Folding(e)[S]
  BY <1>1, SumIsFold
<1> HIDE DEF e
<1>3. ASSUME bad # {} PROVE FALSE
  <2>1. bad \in SUBSET Nat
    OBVIOUS
  <2>2. PICK n \in bad : n \in Nat /\ \A m \in bad : n <= m
    <3> HIDE DEF bad
    <3> QED BY <1>3, <2>1, LeastNumber
  <2>3. PICK t \in SUBSET (S \ {h}) : Cardinality(t) = n /\ ~ Same(t)
    OBVIOUS
  <2>4. CASE t = {}
    BY <1>1, <2>3, <2>4, AnyOrder
  <2>5. CASE t # {}
    <3>1. PICK x \in t : TRUE
      BY <2>5
    <3>2. t \in SUBSET S /\ t \ {x} \in SUBSET (S \ {h})
      OBVIOUS
    <3>3. Cardinality(t \ {x}) \in Nat /\ Cardinality(t \ {x}) < n
      BY <2>2, <2>3, <3>2, ChosenFacts
    <3>4. Same(t \ {x})
      <4>1. ~ (Cardinality(t \ {x}) \in bad)
        <5> HIDE DEF bad
        <5> QED BY <2>2, <3>3
      <4> QED BY <3>2, <3>3, <4>1
    <3>5. Folding(e)[t] = e[x] + Folding(e)[t \ {x}] /\ Folding(f)[t] = f[x] + Folding(f)[t \ {x}]
      <4> HIDE DEF bad
      <4> QED BY <1>1, <3>2, AnyOrder
    <3> QED BY <1>1, <2>3, <3>2, <3>4, <3>5
  <2> QED BY <2>4, <2>5
<1>4. Same(S \ {h})
  <2>1. Cardinality(S \ {h}) \in Nat
    BY FS_RemoveElement, FS_CardinalityType
  <2>2. ~ (Cardinality(S \ {h}) \in bad)
    BY <1>3
  <2> QED BY <2>1, <2>2
<1>5. Folding(e)[S] = v + Folding(e)[S \ {h}] /\ Folding(f)[S] = f[h] + Folding(f)[S \ {h}]
  BY <1>1, AnyOrder
<1>6. Folding(f)[S \ {h}] \in Int /\ f[h] \in Int /\ Folding(f)[S] \in Int
  BY AnyOrder
<1> QED BY <1>2, <1>4, <1>5, <1>6 DEF e

LEMMA NoSum ==
  ASSUME NEW S, IsFiniteSet(S)
  PROVE  SumFunction([h \in S |-> 0]) = 0
<1> DEFINE f == [h \in S |-> 0]
           bad == {n \in Nat : \E t \in SUBSET S : Cardinality(t) = n /\ Folding(f)[t] # 0}
<1>1. f \in [S -> Int] /\ \A h \in S : f[h] = 0
  OBVIOUS
<1>2. SumFunction(f) = Folding(f)[S]
  BY SumIsFold
<1> HIDE DEF f
<1>3. ASSUME bad # {} PROVE FALSE
  <2>1. bad \in SUBSET Nat
    OBVIOUS
  <2>2. PICK n \in bad : n \in Nat /\ \A m \in bad : n <= m
    <3> HIDE DEF bad
    <3> QED BY <1>3, <2>1, LeastNumber
  <2>3. PICK t \in SUBSET S : Cardinality(t) = n /\ Folding(f)[t] # 0
    OBVIOUS
  <2>4. t # {}
    BY <1>1, <2>3, AnyOrder
  <2>5. PICK x \in t : TRUE
    BY <2>4
  <2>6. /\ t \ {x} \in SUBSET S /\ Cardinality(t \ {x}) \in Nat
        /\ Cardinality(t) = Cardinality(t \ {x}) + 1
    BY <2>4, ChosenFacts
  <2>7. Cardinality(t \ {x}) \notin bad
    <3>1. Cardinality(t \ {x}) \in Nat /\ ~ (n <= Cardinality(t \ {x}))
      BY <2>2, <2>3, <2>6
    <3> HIDE DEF bad
    <3> QED BY <2>2, <3>1
  <2>8. Folding(f)[t] = f[x] + Folding(f)[t \ {x}]
    <3> HIDE DEF bad
    <3> QED BY <1>1, AnyOrder
  <2>9. Folding(f)[t \ {x}] = 0
    BY <2>6, <2>7
  <2>10. f[x] = 0
    BY <1>1
  <2> QED BY <2>3, <2>8, <2>9, <2>10
<1>4. Cardinality(S) \in Nat /\ Cardinality(S) \notin bad
  BY <1>3, FS_CardinalityType
<1> QED BY <1>2, <1>4 DEF f

LEMMA TokenBegins == TokenInit => TokenInv
<1> SUFFICES ASSUME TokenInit PROVE TokenInv
  OBVIOUS
<1> USE TokenAssumption
<1>1. balance \in [Holder -> Int] /\ \A h \in Holder : balance[h] = 0
  BY DEF TokenInit
<1>2. TokenTypeOK /\ NobodyOwes
  <2>1. 0 \in I128
    BY DEF I128
  <2>2. balance \in [Holder -> I128]
    BY <2>1 DEF TokenInit
  <2>3. admin = NoAdmin /\ supply = 0 /\ negative = FALSE
    BY DEF TokenInit
  <2>4. TokenTypeOK
    <3>1. admin \in Holder \cup {NoAdmin} /\ supply \in Int
      BY <2>3
    <3>2. negative \in BOOLEAN
      BY <2>3
    <3> QED BY <2>2, <3>1, <3>2 DEF TokenTypeOK
  <2>5. NobodyOwes
    BY <1>1 DEF NobodyOwes
  <2> QED BY <2>4, <2>5
<1>3. SupplyIsKept
  <2>1. balance = [h \in Holder |-> 0] /\ supply = 0
    BY DEF TokenInit
  <2>2. SumFunction(balance) = 0
    BY <2>1, NoSum
  <2> QED BY <2>1, <2>2 DEF SupplyIsKept
<1> QED BY <1>2, <1>3 DEF TokenInv

LEMMA MintHolds ==
  ASSUME TokenInv, NEW h \in Holder, NEW amount \in Amount, Mint(h, amount)
  PROVE  TokenInv'
<1>1. /\ balance \in [Holder -> Int] /\ balance \in [Holder -> I128] /\ amount \in Int
      /\ supply \in Int /\ negative \in BOOLEAN /\ SumFunction(balance) = supply
      /\ I128 \subseteq Int
  BY TokenAssumption DEF TokenInv, TokenTypeOK, I128, SupplyIsKept
<1>2. /\ balance' = [balance EXCEPT ![h] = balance[h] + amount] /\ balance[h] + amount \in I128
      /\ supply' = supply + amount /\ negative' = (negative \/ amount < 0) /\ admin' = admin
  BY DEF Mint
<1>3. TokenTypeOK'
  BY <1>1, <1>2 DEF TokenInv, TokenTypeOK, I128
<1>4. SupplyIsKept'
  <2>1. SumFunction(balance') = SumFunction(balance) - balance[h] + (balance[h] + amount)
    <3>1. balance[h] + amount \in Int /\ IsFiniteSet(Holder)
      BY <1>1, TokenAssumption
    <3>2. SumFunction([balance EXCEPT ![h] = balance[h] + amount])
            = SumFunction(balance) - balance[h] + (balance[h] + amount)
      BY <1>1, <3>1, SumOfChange
    <3> QED BY <1>2, <3>2
  <2>2. balance[h] \in Int
    BY <1>1
  <2> QED BY <1>1, <1>2, <2>1, <2>2 DEF SupplyIsKept
<1>5. NobodyOwes'
  <2> SUFFICES ASSUME ~ negative', NEW g \in Holder PROVE balance'[g] >= 0
    BY DEF NobodyOwes
  <2>1. ~ negative /\ ~ (amount < 0) /\ balance[g] >= 0 /\ balance[h] >= 0
    BY <1>2 DEF TokenInv, NobodyOwes
  <2>2. balance[h] \in Int /\ balance'[g] = IF g = h THEN balance[h] + amount ELSE balance[g]
    BY <1>1, <1>2
  <2> QED BY <1>1, <2>1, <2>2
<1> QED BY <1>3, <1>4, <1>5 DEF TokenInv

LEMMA TransferHolds ==
  ASSUME TokenInv, NEW from \in Holder, NEW to \in Holder, NEW amount \in Amount,
         TokenTransfer(from, to, amount)
  PROVE  TokenInv'
<1> DEFINE debited == [balance EXCEPT ![from] = balance[from] - amount]
<1>1. /\ balance \in [Holder -> Int] /\ balance \in [Holder -> I128] /\ amount \in Int
      /\ supply \in Int /\ negative \in BOOLEAN /\ SumFunction(balance) = supply
      /\ I128 \subseteq Int /\ IsFiniteSet(Holder)
  BY TokenAssumption DEF TokenInv, TokenTypeOK, I128, SupplyIsKept
<1>2. /\ balance' = [debited EXCEPT ![to] = balance[to] + amount] /\ balance[from] >= amount
      /\ balance[from] - amount \in I128 /\ balance[to] + amount \in I128
      /\ supply' = IF from = to THEN supply + amount ELSE supply
      /\ negative' = (negative \/ amount < 0) /\ admin' = admin
  BY DEF TokenTransfer, Moves
<1>3. /\ debited \in [Holder -> I128] /\ debited \in [Holder -> Int]
      /\ debited[from] = balance[from] - amount
      /\ \A h \in Holder : h # from => debited[h] = balance[h]
  BY <1>1, <1>2
<1>4. SumFunction(debited) = SumFunction(balance) - balance[from] + (balance[from] - amount)
  <2>1. balance[from] - amount \in Int
    BY <1>1
  <2> QED BY <1>1, <2>1, SumOfChange
<1> HIDE DEF debited
<1>5. /\ balance' \in [Holder -> I128] /\ balance'[to] = balance[to] + amount
      /\ \A h \in Holder : h # to => balance'[h] = debited[h]
  BY <1>2, <1>3
<1>6. TokenTypeOK'
  BY <1>1, <1>2, <1>5 DEF TokenInv, TokenTypeOK, I128
<1>7. SupplyIsKept'
  <2>1. SumFunction(balance') = SumFunction(debited) - debited[to] + (balance[to] + amount)
    BY <1>1, <1>2, <1>3, SumOfChange, ZenonT(30)
  <2>2. balance[from] \in Int /\ balance[to] \in Int
    BY <1>1
  <2>3. CASE from = to
    BY <1>1, <1>2, <1>3, <1>4, <2>1, <2>2, <2>3 DEF SupplyIsKept
  <2>4. CASE from # to
    BY <1>1, <1>2, <1>3, <1>4, <2>1, <2>2, <2>4 DEF SupplyIsKept
  <2> QED BY <2>3, <2>4
<1>8. NobodyOwes'
  <2> SUFFICES ASSUME ~ negative', NEW h \in Holder PROVE balance'[h] >= 0
    BY DEF NobodyOwes
  <2>1. ~ negative /\ ~ (amount < 0) /\ balance[h] >= 0 /\ balance[to] >= 0
    BY <1>1, <1>2 DEF TokenInv, NobodyOwes
  <2>2. balance[h] \in Int /\ balance[to] \in Int /\ balance[from] \in Int
    BY <1>1
  <2> QED BY <1>1, <1>2, <1>3, <1>5, <2>1, <2>2
<1> QED BY <1>6, <1>7, <1>8 DEF TokenInv

LEMMA TokenSteps == TokenInv /\ [TokenNext]_tokenVars => TokenInv'
<1> SUFFICES ASSUME TokenInv, [TokenNext]_tokenVars PROVE TokenInv'
  OBVIOUS
<1>1. CASE UNCHANGED <<balance, supply, negative>> /\ admin' \in Holder \cup {NoAdmin}
  BY <1>1 DEF TokenInv, TokenTypeOK, SupplyIsKept, NobodyOwes, I128
<1>2. ASSUME NEW h \in Holder, InitToken(h) PROVE TokenInv'
  BY <1>1, <1>2 DEF InitToken
<1>3. CASE TokenNext
  BY <1>2, <1>3, MintHolds, TransferHolds DEF TokenNext
<1>4. CASE UNCHANGED tokenVars
  BY <1>1, <1>4 DEF tokenVars, TokenInv, TokenTypeOK
<1> QED BY <1>3, <1>4

(* For any number of holders and any width of the amounts: the balances    *)
(* add up to what was minted and what transfers to oneself added, and no   *)
(* balance is below 0 unless a negative amount was named (mint, transfer). *)
THEOREM TokenHolds == TokenSpec => []TokenInv
BY TokenBegins, TokenSteps, PTL DEF TokenSpec

-----------------------------------------------------------------------------
(* WasmReader for any alphabet, width and length of the files.  Each loop  *)
(* is a function of its rounds, so what holds of a loop is proved by       *)
(* induction on rounds, which here takes the form of a set of numbers      *)
(* that is all of them (AllNumbers, AllUpto).                              *)
LEMMA AllNumbers ==
  ASSUME NEW G, 0 \in G, \A n \in Nat : n \in G => n + 1 \in G
  PROVE  Nat \subseteq G
<1> DEFINE bad == {n \in Nat : n \notin G}
<1> SUFFICES ASSUME bad # {} PROVE FALSE
  OBVIOUS
<1>1. PICK n \in bad : n \in Nat /\ \A m \in bad : n <= m
  <2>1. bad \in SUBSET Nat
    OBVIOUS
  <2> HIDE DEF bad
  <2> QED BY <2>1, LeastNumber
<1>2. n # 0 /\ n - 1 \in Nat /\ ~ (n <= n - 1)
  BY <1>1
<1>3. n - 1 \in G
  BY <1>1, <1>2
<1> QED BY <1>1, <1>2, <1>3

LEMMA AllUpto ==
  ASSUME NEW N \in Nat, NEW G, 0 \in G, \A n \in 1 .. N : n - 1 \in G => n \in G
  PROVE  0 .. N \subseteq G
<1> DEFINE H == {n \in Nat : n <= N => n \in G}
<1>1. 0 \in H /\ \A n \in Nat : n \in H => n + 1 \in H
  <2>1. ASSUME NEW n \in Nat, n \in H, n + 1 <= N PROVE n + 1 \in G
    <3>1. n + 1 \in 1 .. N /\ (n + 1) - 1 = n /\ n \in G
      BY <2>1
    <3> QED BY <3>1
  <2> QED BY <2>1
<1>2. Nat \subseteq H
  <2> HIDE DEF H
  <2> QED BY <1>1, AllNumbers
<1> QED BY <1>2

(* A loop over states of S has a state after every round.                  *)
Loops(S, f, s, N) ==
  {w \in [0 .. N -> S] : w[0] = s /\ \A i \in 1 .. N : w[i] = f[w[i - 1]]}

LEMMA Iterates ==
  ASSUME NEW S, NEW f \in [S -> S], NEW s \in S, NEW N \in Nat
  PROVE  Loops(S, f, s, N) # {}
<1> DEFINE Path(w, n) == w[0] = s /\ \A i \in 1 .. n : w[i] = f[w[i - 1]]
           G == {n \in Nat : \E w \in [0 .. n -> S] : Path(w, n)}
<1>1. 0 \in G
  <2>1. [i \in 0 .. 0 |-> s] \in [0 .. 0 -> S] /\ Path([i \in 0 .. 0 |-> s], 0)
    OBVIOUS
  <2> QED BY <2>1
<1>2. ASSUME NEW n \in Nat, n \in G PROVE n + 1 \in G
  <2>1. PICK w \in [0 .. n -> S] : Path(w, n)
    BY <1>2
  <2> DEFINE v == [i \in 0 .. n + 1 |-> IF i = n + 1 THEN f[w[n]] ELSE w[i]]
  <2>2. w[n] \in S /\ f[w[n]] \in S
    OBVIOUS
  <2>3. v \in [0 .. n + 1 -> S]
    <3>1. \A i \in 0 .. n + 1 : i # n + 1 => i \in 0 .. n
      OBVIOUS
    <3> QED BY <2>2, <3>1
  <2>4. v[0] = s
    BY <2>1
  <2>5. ASSUME NEW i \in 1 .. n + 1 PROVE v[i] = f[v[i - 1]]
    <3>1. CASE i = n + 1
      BY <3>1
    <3>2. CASE i # n + 1
      <4>1. i \in 1 .. n /\ i - 1 \in 0 .. n /\ i - 1 # n + 1
        BY <3>2
      <4> QED BY <2>1, <3>2, <4>1
    <3> QED BY <3>1, <3>2
  <2> HIDE DEF v
  <2> QED BY <2>3, <2>4, <2>5
<1>3. N \in G
  <2> HIDE DEF G
  <2>1. Nat \subseteq G
    BY <1>1, <1>2, AllNumbers
  <2> QED BY <2>1
<1> QED BY <1>3 DEF Loops

-----------------------------------------------------------------------------
Bytes == Seq(Byte)

LEMMA FilesAreBytes ==
  /\ File \subseteq Bytes /\ <<>> \in Bytes
  /\ \A bytes \in Bytes : /\ Len(bytes) \in Nat /\ DOMAIN bytes = 1 .. Len(bytes)
                          /\ \A i \in 1 .. Len(bytes) : bytes[i] \in Byte
BY DEF File, Bytes

(* What a run is: that many continuation bytes, and then the end.          *)
LEMMA RunsEnd ==
  ASSUME NEW bytes \in Bytes, NEW o \in 0 .. Len(bytes)
  PROVE  /\ Run(bytes, o) \in 0 .. Len(bytes) - o
         /\ \A i \in 1 .. Run(bytes, o) : bytes[o + i].more
         /\ o + Run(bytes, o) # Len(bytes) => ~ bytes[o + Run(bytes, o) + 1].more
<1> DEFINE E == {n \in 0 .. Len(bytes) - o :
                   o + n = Len(bytes) \/ ~ bytes[o + n + 1].more}
<1>1. Len(bytes) \in Nat /\ \A i \in 1 .. Len(bytes) : bytes[i] \in Byte
  BY FilesAreBytes
<1>2. Len(bytes) - o \in E /\ E \in SUBSET Nat
  BY <1>1
<1>3. Run(bytes, o) \in E /\ \A m \in E : Run(bytes, o) <= m
  <2>1. \E n \in E : \A m \in E : n <= m
    <3> HIDE DEF E
    <3> QED BY <1>2, LeastNumber
  <2>2. Run(bytes, o) = CHOOSE n \in E : \A m \in E : n <= m
    BY DEF Run
  <2> HIDE DEF E
  <2> QED BY <2>1, <2>2
<1>4. ASSUME NEW i \in 1 .. Run(bytes, o) PROVE bytes[o + i].more
  <2>1. i - 1 \in 0 .. Len(bytes) - o /\ ~ (Run(bytes, o) <= i - 1) /\ o + (i - 1) + 1 = o + i
    BY <1>1, <1>3
  <2>2. i - 1 \notin E
    <3> HIDE DEF E
    <3> QED BY <1>3, <2>1
  <2> QED BY <2>1, <2>2
<1> QED BY <1>3, <1>4

-----------------------------------------------------------------------------
(* Numbers and their bits: a number is the sum of the powers of its bits.  *)
LEMMA AllFinite ==
  ASSUME NEW U, IsFiniteSet(U), NEW G, {} \in G,
         \A T \in SUBSET U : \A x \in U \ T : T \in G => T \cup {x} \in G
  PROVE  SUBSET U \subseteq G
<1> DEFINE H == {n \in Nat : \A T \in SUBSET U : Cardinality(T) = n => T \in G}
<1>1. \A T \in SUBSET U : IsFiniteSet(T) /\ Cardinality(T) \in Nat
  BY FS_Subset, FS_CardinalityType
<1>2. 0 \in H
  <2>1. \A T \in SUBSET U : Cardinality(T) = 0 => T = {}
    BY <1>1, FS_EmptySet
  <2> QED BY <2>1
<1>3. ASSUME NEW n \in Nat, n \in H PROVE n + 1 \in H
  <2>1. ASSUME NEW T \in SUBSET U, Cardinality(T) = n + 1 PROVE T \in G
    <3>1. T # {}
      <4>1. Cardinality({}) = 0
        BY FS_EmptySet
      <4>2. n + 1 # 0
        OBVIOUS
      <4> HIDE DEF H
      <4> QED BY <2>1, <4>1, <4>2, Zenon
    <3> PICK x \in T : TRUE
      BY <3>1
    <3>2. Cardinality(T \ {x}) = n
      <4>1. IsFiniteSet(T) /\ Cardinality(T) = n + 1
        BY <1>1, <2>1
      <4>2. Cardinality(T \ {x}) = Cardinality(T) - 1
        BY <4>1, FS_RemoveElement
      <4> QED BY <4>1, <4>2
    <3>3. T \ {x} \in SUBSET U /\ x \in U \ (T \ {x}) /\ (T \ {x}) \cup {x} = T
      OBVIOUS
    <3>4. T \ {x} \in G
      BY <1>3, <3>2, <3>3
    <3>5. (T \ {x}) \cup {x} \in G
      BY <3>3, <3>4
    <3> QED BY <3>3, <3>5
  <2> QED BY <2>1
<1>4. Nat \subseteq H
  <2> HIDE DEF H
  <2> QED BY <1>2, <1>3, AllNumbers
<1> QED BY <1>1, <1>4

Pow(n) == 2^n

LEMMA Powers ==
  ASSUME NEW n \in Nat
  PROVE  /\ Pow(0) = 1 /\ Pow(n) \in Nat /\ Pow(n) > 0
         /\ Pow(n + 1) = 2 * Pow(n)
<1>1. Pow(0) = 1
  <2>1. 2^0 = 1
    BY SMT
  <2> QED BY <2>1 DEF Pow
<1>2. \A m \in Nat : /\ IsFiniteSet(1 .. m) /\ Cardinality(1 .. m) = m
                     /\ IsFiniteSet(SUBSET (1 .. m)) /\ Cardinality(SUBSET (1 .. m)) = Pow(m)
  <2> SUFFICES ASSUME NEW m \in Nat
               PROVE  /\ IsFiniteSet(1 .. m) /\ Cardinality(1 .. m) = m
                      /\ IsFiniteSet(SUBSET (1 .. m)) /\ Cardinality(SUBSET (1 .. m)) = Pow(m)
    OBVIOUS
  <2>1. IsFiniteSet(1 .. m) /\ Cardinality(1 .. m) = m
    BY FS_Interval
  <2>2. IsFiniteSet(SUBSET (1 .. m)) /\ Cardinality(SUBSET (1 .. m)) = 2^Cardinality(1 .. m)
    BY <2>1, FS_SUBSET
  <2> QED BY <2>1, <2>2, Zenon DEF Pow
<1> DEFINE A == SUBSET (1 .. n)
           B == {T \cup {n + 1} : T \in A}
<1>3. IsFiniteSet(A) /\ Cardinality(A) = Pow(n)
  BY <1>2
<1>4. Pow(n) \in Nat /\ Pow(n) > 0
  <2>1. {} \in A
    OBVIOUS
  <2> HIDE DEF A
  <2>2. Cardinality(A) \in Nat /\ Cardinality(A) # 0
    BY <1>3, <2>1, FS_CardinalityType, FS_EmptySet
  <2> QED BY <1>3, <2>2
<1>5. SUBSET (1 .. n + 1) = A \cup B
  <2>1. ASSUME NEW T \in SUBSET (1 .. n + 1) PROVE T \in A \cup B
    <3>1. CASE n + 1 \in T
      <4>1. T \ {n + 1} \in A /\ T = (T \ {n + 1}) \cup {n + 1}
        <5>1. \A x \in 1 .. n + 1 : x # n + 1 => x \in 1 .. n
          OBVIOUS
        <5> QED BY <3>1, <5>1
      <4> QED BY <4>1
    <3>2. CASE n + 1 \notin T
      BY <3>2
    <3> QED BY <3>1, <3>2
  <2>2. ASSUME NEW T \in A PROVE T \cup {n + 1} \in SUBSET (1 .. n + 1) /\ T \in SUBSET (1 .. n + 1)
    <3>1. 1 .. n \subseteq 1 .. n + 1 /\ n + 1 \in 1 .. n + 1
      OBVIOUS
    <3> QED BY <3>1
  <2>3. A \subseteq SUBSET (1 .. n + 1) /\ B \subseteq SUBSET (1 .. n + 1)
    <3> HIDE DEF A
    <3> QED BY <2>2
  <2>4. SUBSET (1 .. n + 1) \subseteq A \cup B
    <3> HIDE DEF A, B
    <3> QED BY <2>1
  <2> HIDE DEF A, B
  <2> QED BY <2>3, <2>4
<1>6. A \cap B = {}
  <2>1. n + 1 \notin 1 .. n
    OBVIOUS
  <2> QED BY <2>1
<1>7. IsFiniteSet(B) /\ Cardinality(B) = Cardinality(A)
  <2> DEFINE f == [T \in A |-> T \cup {n + 1}]
  <2>1. f \in Bijection(A, B)
    <3>1. n + 1 \notin 1 .. n
      OBVIOUS
    <3>2. \A T, V \in A : f[T] = f[V] => T = V
      BY <3>1
    <3>3. \A V \in B : \E T \in A : f[T] = V
      OBVIOUS
    <3>4. f \in [A -> B]
      OBVIOUS
    <3> HIDE DEF A, B, f
    <3> QED BY <3>2, <3>3, <3>4 DEF Bijection, Injection, Surjection, IsInjective
  <2>2. ExistsBijection(A, B)
    BY <2>1 DEF ExistsBijection
  <2> HIDE DEF A, B
  <2> QED BY <1>3, <2>2, FS_Bijection
<1>8. Cardinality(A \cup B) = Cardinality(A) + Cardinality(B) - Cardinality(A \cap B)
  <2> HIDE DEF A, B
  <2> QED BY <1>3, <1>7, FS_Union
<1>9. Cardinality(A \cap B) = 0
  BY <1>6, FS_EmptySet
<1>10. Cardinality(SUBSET (1 .. n + 1)) = Pow(n + 1)
  <2>1. n + 1 \in Nat
    OBVIOUS
  <2> QED BY <1>2, <2>1
<1>11. Pow(n + 1) = 2 * Pow(n)
  <2> HIDE DEF A, B
  <2>1. Pow(n + 1) = Cardinality(A \cup B) /\ Cardinality(A) = Pow(n) /\ Cardinality(B) = Pow(n)
    BY <1>3, <1>5, <1>7, <1>10, Zenon
  <2>2. Pow(n + 1) = Pow(n) + Pow(n) - 0
    BY <1>8, <1>9, <2>1, Zenon
  <2> QED BY <1>4, <2>2
<1> QED BY <1>1, <1>4, <1>11

LEMMA PowerOfSum ==
  ASSUME NEW m \in Nat, NEW n \in Nat
  PROVE  Pow(m + n) = Pow(m) * Pow(n)
<1> DEFINE G == {k \in Nat : Pow(m + k) = Pow(m) * Pow(k)}
<1>1. 0 \in G
  <2>1. Pow(m) \in Nat /\ Pow(0) = 1 /\ m + 0 = m
    BY Powers
  <2> QED BY <2>1
<1>2. ASSUME NEW k \in Nat, k \in G PROVE k + 1 \in G
  <2>1. Pow(m + k) = Pow(m) * Pow(k)
    BY <1>2
  <2>2. Pow(m + (k + 1)) = 2 * Pow(m + k) /\ Pow(k + 1) = 2 * Pow(k)
    <3>1. m + (k + 1) = (m + k) + 1 /\ m + k \in Nat
      OBVIOUS
    <3> QED BY <3>1, Powers
  <2>3. Pow(m) \in Nat /\ Pow(k) \in Nat
    BY Powers
  <2>4. \A a, b \in Nat : 2 * (a * b) = a * (2 * b)
    OBVIOUS
  <2>5. 2 * (Pow(m) * Pow(k)) = Pow(m) * (2 * Pow(k))
    BY <2>3, <2>4
  <2>6. Pow(m + (k + 1)) = Pow(m) * Pow(k + 1)
    BY <2>1, <2>2, <2>5
  <2> QED BY <2>6
<1>3. Nat \subseteq G
  <2> HIDE DEF G
  <2> QED BY <1>1, <1>2, AllNumbers
<1> QED BY <1>3

(* A sum is any of its summands and the sum of the others.                 *)
LEMMA SumOfPart ==
  ASSUME NEW S, IsFiniteSet(S), NEW f \in [S -> Int], NEW P \in SUBSET S
  PROVE  SumFunction([y \in P |-> f[y]]) = Folding(f)[P]
<1> DEFINE g == [y \in P |-> f[y]]
           G == {T \in SUBSET P : Folding(g)[T] = Folding(f)[T]}
<1>1. g \in [P -> Int] /\ IsFiniteSet(P) /\ DOMAIN g = P
  BY FS_Subset
<1>2. {} \in G
  BY <1>1, AnyOrder
<1>6. \A t \in SUBSET P : \A y \in t : Folding(g)[t] = g[y] + Folding(g)[t \ {y}]
  <2> SUFFICES ASSUME NEW t \in SUBSET P
               PROVE  \A y \in t : Folding(g)[t] = g[y] + Folding(g)[t \ {y}]
    OBVIOUS
  <2> HIDE DEF g, G
  <2> QED BY <1>1, AnyOrder
<1>7. \A t \in SUBSET S : \A y \in t : Folding(f)[t] = f[y] + Folding(f)[t \ {y}]
  <2> SUFFICES ASSUME NEW t \in SUBSET S
               PROVE  \A y \in t : Folding(f)[t] = f[y] + Folding(f)[t \ {y}]
    OBVIOUS
  <2> HIDE DEF G
  <2> QED BY AnyOrder
<1>3. ASSUME NEW T \in SUBSET P, NEW x \in P \ T, T \in G PROVE T \cup {x} \in G
  <2>1. T \cup {x} \in SUBSET P /\ T \cup {x} \in SUBSET S /\ (T \cup {x}) \ {x} = T
    OBVIOUS
  <2>2. Folding(g)[T \cup {x}] = g[x] + Folding(g)[T]
    <3>1. x \in T \cup {x}
      OBVIOUS
    <3> HIDE DEF g, G
    <3> QED BY <1>6, <2>1, <3>1
  <2>3. Folding(f)[T \cup {x}] = f[x] + Folding(f)[T]
    <3>1. x \in T \cup {x}
      OBVIOUS
    <3> HIDE DEF g, G
    <3> QED BY <1>7, <2>1, <3>1
  <2>4. g[x] = f[x]
    OBVIOUS
  <2> HIDE DEF g
  <2> QED BY <1>3, <2>1, <2>2, <2>3, <2>4
<1>4. P \in G
  <2>1. SUBSET P \subseteq G
    <3> HIDE DEF G
    <3> QED BY <1>1, <1>2, <1>3, AllFinite
  <2> QED BY <2>1
<1>5. SumFunction(g) = Folding(g)[P]
  <2> HIDE DEF g
  <2> QED BY <1>1, SumIsFold
<1> QED BY <1>4, <1>5

LEMMA SumStep ==
  ASSUME NEW S, IsFiniteSet(S), NEW f \in [S -> Int], NEW x \in S
  PROVE  /\ SumFunction([y \in S \ {x} |-> f[y]]) \in Int
         /\ SumFunction(f) = f[x] + SumFunction([y \in S \ {x} |-> f[y]])
<1>1. SumFunction(f) = Folding(f)[S]
  BY SumIsFold
<1>2. SumFunction([y \in S \ {x} |-> f[y]]) = Folding(f)[S \ {x}]
  <2>1. S \ {x} \in SUBSET S
    OBVIOUS
  <2> QED BY <2>1, SumOfPart
<1>3. S \in SUBSET S /\ S \ {x} \in SUBSET S
  OBVIOUS
<1>4. Folding(f)[S \ {x}] \in Int
  BY <1>3, AnyOrder
<1>5. \A y \in S : Folding(f)[S] = f[y] + Folding(f)[S \ {y}]
  BY <1>3, AnyOrder
<1>6. Folding(f)[S] = f[x] + Folding(f)[S \ {x}]
  BY <1>5
<1> QED BY <1>1, <1>2, <1>4, <1>6, Zenon

LEMMA RemainderIsRest ==
  ASSUME NEW a \in Nat, NEW q \in Nat, NEW m \in Nat, a < m
  PROVE  (q * m + a) % m = a
OBVIOUS

LEMMA RemainderOfSmall ==
  ASSUME NEW a \in Nat, NEW m \in Nat, a < m
  PROVE  a % m = a
OBVIOUS

LEMMA NumOfNone == Num({}) = 0
<1> DEFINE f == [b \in {} |-> 2^b]
<1>1. f \in [{} -> Int] /\ IsFiniteSet({}) /\ {} \in SUBSET {}
  BY FS_EmptySet
<1>2. Folding(f)[{}] = 0
  <2> HIDE DEF f
  <2> QED BY <1>1, AnyOrder
<1>3. SumFunction(f) = Folding(f)[{}]
  <2>1. DOMAIN f = {}
    OBVIOUS
  <2> HIDE DEF f
  <2> QED BY <2>1, SumIsFold, Zenon
<1> QED BY <1>2, <1>3 DEF Num

LEMMA NumStep ==
  ASSUME NEW T \in SUBSET Nat, IsFiniteSet(T), NEW x \in T
  PROVE  Num(T \ {x}) \in Int /\ Num(T) = Pow(x) + Num(T \ {x})
<1> DEFINE f == [b \in T |-> Pow(b)]
<1>1. \A b \in T : Pow(b) \in Int
  BY Powers
<1>2. f \in [T -> Int]
  BY <1>1
<1>3. [y \in T \ {x} |-> f[y]] = [y \in T \ {x} |-> Pow(y)] /\ f[x] = Pow(x)
  OBVIOUS
<1>4. /\ SumFunction([y \in T \ {x} |-> f[y]]) \in Int
      /\ SumFunction(f) = f[x] + SumFunction([y \in T \ {x} |-> f[y]])
  <2> HIDE DEF f
  <2> QED BY <1>2, SumStep, ZenonT(30)
<1>5. Num(T) = SumFunction(f)
  BY DEF Num, Pow
<1>6. Num(T \ {x}) = SumFunction([y \in T \ {x} |-> Pow(y)])
  BY DEF Num, Pow
<1> HIDE DEF f
<1> QED BY <1>3, <1>4, <1>5, <1>6, Zenon

LEMMA NumIsNat ==
  ASSUME NEW T \in SUBSET Nat, IsFiniteSet(T)
  PROVE  Num(T) \in Nat
<1> DEFINE G == {V \in SUBSET T : Num(V) \in Nat}
<1>1. {} \in G
  BY NumOfNone
<1>2. ASSUME NEW V \in SUBSET T, NEW x \in T \ V, V \in G PROVE V \cup {x} \in G
  <2>1. IsFiniteSet(V \cup {x}) /\ V \cup {x} \in SUBSET Nat /\ V \cup {x} \in SUBSET T
    BY FS_Subset
  <2>2. (V \cup {x}) \ {x} = V /\ x \in V \cup {x}
    OBVIOUS
  <2>3. Num(V \cup {x}) = Pow(x) + Num(V)
    BY <2>1, <2>2, NumStep, Zenon, SMTT(30)
  <2>4. Pow(x) \in Nat /\ Num(V) \in Nat
    BY <1>2, Powers
  <2>5. Num(V \cup {x}) \in Nat
    BY <2>3, <2>4
  <2> QED BY <2>1, <2>5
<1>3. SUBSET T \subseteq G
  <2> HIDE DEF G
  <2> QED BY <1>1, <1>2, AllFinite
<1> QED BY <1>3

LEMMA NumGrows ==
  ASSUME NEW T \in SUBSET Nat, IsFiniteSet(T), NEW x \in Nat \ T
  PROVE  Num(T \cup {x}) = Num(T) + Pow(x)
<1>1. IsFiniteSet(T \cup {x}) /\ T \cup {x} \in SUBSET Nat
  BY FS_AddElement
<1>2. (T \cup {x}) \ {x} = T /\ x \in T \cup {x}
  OBVIOUS
<1>3. Num(T \cup {x}) = Pow(x) + Num(T)
  BY <1>1, <1>2, NumStep, Zenon
<1> QED BY <1>3, NumIsNat, Powers

LEMMA NumOfUnion ==
  ASSUME NEW A \in SUBSET Nat, IsFiniteSet(A), NEW B \in SUBSET Nat, IsFiniteSet(B),
         A \cap B = {}
  PROVE  Num(A \cup B) = Num(A) + Num(B)
<1> DEFINE G == {V \in SUBSET B : Num(A \cup V) = Num(A) + Num(V)}
<1>1. {} \in G
  <2>1. A \cup {} = A /\ Num(A) \in Nat
    BY NumIsNat
  <2> QED BY <2>1, NumOfNone
<1>2. ASSUME NEW V \in SUBSET B, NEW x \in B \ V, V \in G PROVE V \cup {x} \in G
  <2>1. IsFiniteSet(V) /\ IsFiniteSet(A \cup V) /\ V \in SUBSET Nat /\ A \cup V \in SUBSET Nat
    BY FS_Subset, FS_Union
  <2>2. x \in Nat \ V /\ x \in Nat \ (A \cup V)
    OBVIOUS
  <2>3. Num(V \cup {x}) = Num(V) + Pow(x) /\ Num((A \cup V) \cup {x}) = Num(A \cup V) + Pow(x)
    BY <2>1, <2>2, NumGrows
  <2>4. Num(V) \in Nat /\ Num(A) \in Nat /\ Pow(x) \in Nat
    BY <2>1, NumIsNat, Powers
  <2>5. A \cup (V \cup {x}) = (A \cup V) \cup {x} /\ Num(A \cup V) = Num(A) + Num(V)
    BY <1>2
  <2>6. Num(A \cup (V \cup {x})) = Num(A) + Num(V \cup {x})
    <3>1. Num(A \cup (V \cup {x})) = Num(A \cup V) + Pow(x)
      BY <2>3, <2>5, Zenon
    <3> HIDE DEF G
    <3> QED BY <2>3, <2>4, <2>5, <3>1
  <2> QED BY <2>6
<1>3. SUBSET B \subseteq G
  <2> HIDE DEF G
  <2>1. \A V \in SUBSET B : \A x \in B \ V : V \in G => V \cup {x} \in G
    BY <1>2
  <2> QED BY ONLY IsFiniteSet(B), <1>1, <2>1, AllFinite
<1> QED BY <1>3

Shifted(T, k) == {b + k : b \in T}

LEMMA ShiftedFacts ==
  ASSUME NEW T \in SUBSET Nat, IsFiniteSet(T), NEW k \in Nat
  PROVE  /\ Shifted(T, k) \in SUBSET Nat /\ IsFiniteSet(Shifted(T, k))
         /\ Num(Shifted(T, k)) = Num(T) * Pow(k)
<1> DEFINE G == {V \in SUBSET T : /\ IsFiniteSet(Shifted(V, k))
                                  /\ Num(Shifted(V, k)) = Num(V) * Pow(k)}
<1>1. {} \in G
  <2>1. Shifted({}, k) = {} /\ IsFiniteSet({}) /\ Pow(k) \in Nat
    BY FS_EmptySet, Powers DEF Shifted
  <2>2. 0 = 0 * Pow(k)
    BY <2>1
  <2> QED BY <2>1, <2>2, NumOfNone
<1>2. ASSUME NEW V \in SUBSET T, NEW x \in T \ V, V \in G PROVE V \cup {x} \in G
  <2>1. IsFiniteSet(V) /\ V \in SUBSET Nat /\ Shifted(V, k) \in SUBSET Nat
    <3>1. IsFiniteSet(V)
      <4> HIDE DEF G
      <4> QED BY FS_Subset
    <3>2. \A b \in V : b + k \in Nat
      OBVIOUS
    <3> HIDE DEF G
    <3> QED BY <3>1, <3>2 DEF Shifted
  <2>2. Shifted(V \cup {x}, k) = Shifted(V, k) \cup {x + k}
    BY DEF Shifted
  <2>3. x \in Nat \ V /\ x + k \in Nat \ Shifted(V, k)
    BY <2>1 DEF Shifted
  <2>4. IsFiniteSet(Shifted(V, k)) /\ Num(Shifted(V, k)) = Num(V) * Pow(k)
    BY <1>2
  <2>5. IsFiniteSet(Shifted(V \cup {x}, k))
    <3>1. IsFiniteSet(Shifted(V, k) \cup {x + k})
      BY <2>4, FS_AddElement
    <3> QED BY <2>2, <3>1, Zenon
  <2>6. Num(V \cup {x}) = Num(V) + Pow(x)
    BY <2>1, <2>3, NumGrows
  <2>7. Num(Shifted(V \cup {x}, k)) = Num(Shifted(V, k)) + Pow(x + k)
    BY <2>1, <2>2, <2>3, <2>4, NumGrows
  <2>8. Pow(x + k) = Pow(x) * Pow(k) /\ Pow(x) \in Nat /\ Pow(k) \in Nat /\ Num(V) \in Nat
    BY <2>1, PowerOfSum, Powers, NumIsNat
  <2>9. \A a, b, c \in Nat : a * c + b * c = (a + b) * c
    OBVIOUS
  <2>10. Num(V) * Pow(k) + Pow(x) * Pow(k) = (Num(V) + Pow(x)) * Pow(k)
    BY <2>8, <2>9
  <2>11. Num(Shifted(V \cup {x}, k)) = Num(V \cup {x}) * Pow(k)
    BY <2>4, <2>6, <2>7, <2>8, <2>10, Zenon
  <2> QED BY <2>5, <2>11
<1>3. T \in G
  <2>1. SUBSET T \subseteq G
    <3> HIDE DEF G
    <3> QED BY <1>1, <1>2, AllFinite
  <2> QED BY <2>1
<1>4. Shifted(T, k) \in SUBSET Nat
  BY DEF Shifted
<1> QED BY <1>3, <1>4

LEMMA NumIsBelow ==
  ASSUME NEW w \in Nat
  PROVE  \A T \in SUBSET (0 .. w - 1) : IsFiniteSet(T) /\ Num(T) \in Nat /\ Num(T) < Pow(w)
<1> DEFINE G == {k \in Nat : \A T \in SUBSET (0 .. k - 1) : Num(T) < Pow(k)}
<1>1. \A k \in Nat : \A T \in SUBSET (0 .. k - 1) : IsFiniteSet(T) /\ T \in SUBSET Nat
  <2> SUFFICES ASSUME NEW k \in Nat, NEW T \in SUBSET (0 .. k - 1)
               PROVE  IsFiniteSet(T) /\ T \in SUBSET Nat
    OBVIOUS
  <2>1. IsFiniteSet(0 .. k - 1)
    <3>1. 0 \in Int /\ k - 1 \in Int
      OBVIOUS
    <3> QED BY <3>1, FS_Interval
  <2>2. IsFiniteSet(T)
    BY <2>1, FS_Subset
  <2> QED BY <2>2
<1>2. 0 \in G
  <2>1. \A T \in SUBSET (0 .. 0 - 1) : T = {}
    OBVIOUS
  <2>2. Num({}) < Pow(0)
    BY NumOfNone, Powers
  <2> QED BY <2>1, <2>2
<1>3. ASSUME NEW k \in Nat, k \in G PROVE k + 1 \in G
  <2> SUFFICES ASSUME NEW T \in SUBSET (0 .. (k + 1) - 1) PROVE Num(T) < Pow(k + 1)
    OBVIOUS
  <2>1. T \ {k} \in SUBSET (0 .. k - 1)
    OBVIOUS
  <2>2. IsFiniteSet(T \ {k}) /\ T \ {k} \in SUBSET Nat /\ Num(T \ {k}) \in Nat
    BY <1>1, <2>1, NumIsNat
  <2>3. Num(T \ {k}) < Pow(k)
    BY <1>3, <2>1
  <2>4. Pow(k + 1) = 2 * Pow(k) /\ Pow(k) \in Nat
    BY Powers
  <2>5. CASE k \in T
    <3>1. (T \ {k}) \cup {k} = T /\ k \in Nat \ (T \ {k})
      BY <2>5
    <3>2. Num(T) = Num(T \ {k}) + Pow(k)
      BY <2>2, <3>1, NumGrows
    <3> HIDE DEF G
    <3> QED BY <2>2, <2>3, <2>4, <3>2
  <2>6. CASE k \notin T
    <3>1. T \ {k} = T
      BY <2>6
    <3> HIDE DEF G
    <3> QED BY <2>2, <2>3, <2>4, <3>1
  <2> QED BY <2>5, <2>6
<1>4. Nat \subseteq G
  <2> HIDE DEF G
  <2> QED BY <1>2, <1>3, AllNumbers
<1> QED BY <1>1, <1>4, NumIsNat

(* Cutting a number off above bit w is taking the remainder.               *)
LEMMA NumOfLowBits ==
  ASSUME NEW T \in SUBSET Nat, IsFiniteSet(T), NEW w \in Nat
  PROVE  Num(T \cap 0 .. w - 1) = Num(T) % Pow(w)
<1> DEFINE L == T \cap 0 .. w - 1
           H == T \ (0 .. w - 1)
           Q == {b - w : b \in H}
<1>1. L \in SUBSET (0 .. w - 1) /\ L \in SUBSET Nat /\ IsFiniteSet(L)
  BY FS_Subset
<1>2. H \in SUBSET Nat /\ IsFiniteSet(H) /\ \A b \in H : b >= w
  BY FS_Subset
<1>3. Q \in SUBSET Nat /\ IsFiniteSet(Q)
  <2>1. Q \in SUBSET Nat
    BY <1>2
  <2>2. IsFiniteSet(Q)
    <3> DEFINE f == [b \in H |-> b - w]
    <3>1. f \in [H -> Q] /\ \A q \in Q : \E b \in H : f[b] = q
      OBVIOUS
    <3>2. f \in Surjection(H, Q)
      <4> HIDE DEF H, Q, f
      <4> QED BY <3>1 DEF Surjection
    <3> HIDE DEF H, Q, f
    <3> QED BY <1>2, <3>2, FS_Surjection
  <2> QED BY <2>1, <2>2
<1>4. Shifted(Q, w) = H
  <2> HIDE DEF H
  <2>1. \A b \in H : b \in Nat /\ (b - w) + w = b
    BY <1>2
  <2> QED BY <2>1 DEF Shifted
<1>5. Num(T) = Num(L) + Num(H)
  <2>1. L \cup H = T /\ L \cap H = {}
    OBVIOUS
  <2> HIDE DEF L, H
  <2> QED BY <1>1, <1>2, <2>1, NumOfUnion
<1>6. Num(H) = Num(Q) * Pow(w) /\ Num(Q) \in Nat
  <2> HIDE DEF Q, H
  <2> QED BY <1>3, <1>4, ShiftedFacts, NumIsNat
<1>7. Num(L) \in Nat /\ Num(L) < Pow(w)
  BY <1>1, NumIsBelow
<1>8. Pow(w) \in Nat
  BY Powers
<1> HIDE DEF L, H, Q
<1>9. Num(T) = Num(Q) * Pow(w) + Num(L)
  BY <1>5, <1>6, <1>7, <1>8
<1>10. (Num(Q) * Pow(w) + Num(L)) % Pow(w) = Num(L)
  BY <1>6, <1>7, <1>8, RemainderIsRest
<1> QED BY <1>9, <1>10 DEF L

-----------------------------------------------------------------------------
(* The groups of a number do not overlap, so that putting them together    *)
(* adds them up: what is read is what the bytes mean.                      *)
Shift(i) == GroupBits * (i - 1)
Group(bytes, o, i) == Shifted(bytes[o + i].low, Shift(i))
Groups(bytes, o, n) == UNION {Group(bytes, o, i) : i \in 1 .. n}
Meaning(bytes, o, n) ==
  SumFunction([i \in 1 .. n |-> Num(bytes[o + i].low) * 2^(GroupBits * (i - 1))])

LEMMA ShiftFacts ==
  /\ Width \in Nat /\ GroupBits \in Nat \ {0} /\ MaxBytes \in Nat \ {0}
  /\ \A i \in Nat \ {0} : Shift(i) \in Nat /\ Shift(i + 1) = Shift(i) + GroupBits
  /\ \A i \in 1 .. MaxBytes : Shift(i) < Width
<1>1. GroupBits \in Nat \ {0} /\ MaxBytes \in Nat \ {0}
  BY ReaderAssumption
<1>2. \A a, b \in Nat : a * b \in Nat
  OBVIOUS
<1>3. GroupBits * (MaxBytes - 1) \in Nat /\ Width \in Int /\ Width > GroupBits * (MaxBytes - 1)
  <2>1. MaxBytes - 1 \in Nat
    BY <1>1
  <2>2. GroupBits * (MaxBytes - 1) \in Nat /\ GroupBits * MaxBytes \in Nat
    BY <1>1, <1>2, <2>1
  <2>3. Width \in GroupBits * (MaxBytes - 1) + 1 .. GroupBits * MaxBytes
    BY ReaderAssumption
  <2> QED BY <2>2, <2>3
<1>4. ASSUME NEW i \in Nat \ {0}
      PROVE  Shift(i) \in Nat /\ Shift(i + 1) = Shift(i) + GroupBits
  <2>1. i - 1 \in Nat /\ (i + 1) - 1 = (i - 1) + 1
    OBVIOUS
  <2>2. \A a, b \in Nat : a * (b + 1) = a * b + a
    OBVIOUS
  <2>3. GroupBits * ((i - 1) + 1) = GroupBits * (i - 1) + GroupBits
    BY <1>1, <2>1, <2>2
  <2> QED BY <1>1, <1>2, <2>1, <2>3 DEF Shift
<1>5. ASSUME NEW i \in 1 .. MaxBytes PROVE Shift(i) < Width
  <2>1. i - 1 \in Nat /\ MaxBytes - i \in Nat /\ (i - 1) + (MaxBytes - i) = MaxBytes - 1
    BY <1>1
  <2>2. \A a, b, c \in Nat : a * (b + c) = a * b + a * c
    OBVIOUS
  <2>3. GroupBits * (MaxBytes - 1) = GroupBits * (i - 1) + GroupBits * (MaxBytes - i)
    BY <1>1, <2>1, <2>2
  <2>4. GroupBits * (i - 1) \in Nat /\ GroupBits * (MaxBytes - i) \in Nat
    BY <1>1, <1>2, <2>1
  <2> QED BY <1>3, <2>3, <2>4 DEF Shift
<1> QED BY <1>1, <1>3, <1>4, <1>5

LEMMA LowBits ==
  ASSUME NEW x \in Byte
  PROVE  /\ x.more \in BOOLEAN /\ x.low \in SUBSET (0 .. GroupBits - 1)
         /\ IsFiniteSet(x.low) /\ x.low \in SUBSET Nat /\ Num(x.low) \in Nat
<1>1. x.more \in BOOLEAN /\ x.low \in SUBSET (0 .. GroupBits - 1)
  BY ReaderAssumption DEF Bit
<1>2. IsFiniteSet(x.low) /\ Num(x.low) \in Nat
  BY <1>1, ShiftFacts, NumIsBelow
<1>3. x.low \in SUBSET Nat
  BY <1>1, ShiftFacts
<1> QED BY <1>1, <1>2, <1>3

LEMMA GroupsAddUp ==
  ASSUME NEW bytes \in Bytes, NEW o \in Nat
  PROVE  \A n \in Nat : o + n <= Len(bytes) =>
           /\ Groups(bytes, o, n) \in SUBSET (0 .. Shift(n + 1) - 1)
           /\ IsFiniteSet(Groups(bytes, o, n))
           /\ Meaning(bytes, o, n) \in Int
           /\ Num(Groups(bytes, o, n)) = Meaning(bytes, o, n)
<1> DEFINE Good(n) == /\ Groups(bytes, o, n) \in SUBSET (0 .. Shift(n + 1) - 1)
                      /\ IsFiniteSet(Groups(bytes, o, n))
                      /\ Meaning(bytes, o, n) \in Int
                      /\ Num(Groups(bytes, o, n)) = Meaning(bytes, o, n)
           G == {n \in Nat : o + n <= Len(bytes) => Good(n)}
<1>1. Len(bytes) \in Nat /\ \A i \in 1 .. Len(bytes) : bytes[i] \in Byte
  BY FilesAreBytes
<1>2. 0 \in G
  <2>1. Groups(bytes, o, 0) = {}
    BY DEF Groups
  <2>2. Meaning(bytes, o, 0) = 0
    <3> DEFINE f == [i \in {} |-> Num(bytes[o + i].low) * 2^(GroupBits * (i - 1))]
    <3>1. Meaning(bytes, o, 0) = SumFunction(f)
      <4>1. 1 .. 0 = {}
        OBVIOUS
      <4> QED BY <4>1, Zenon DEF Meaning
    <3>2. f \in [{} -> Int] /\ DOMAIN f = {} /\ IsFiniteSet({}) /\ {} \in SUBSET {}
      BY FS_EmptySet
    <3> HIDE DEF f
    <3>3. Folding(f)[{}] = 0
      BY <3>2, AnyOrder
    <3>4. SumFunction(f) = Folding(f)[{}]
      BY <3>2, SumIsFold, Zenon
    <3> QED BY <3>1, <3>3, <3>4
  <2>3. IsFiniteSet({}) /\ {} \in SUBSET (0 .. Shift(0 + 1) - 1)
    BY FS_EmptySet
  <2>4. Good(0)
    <3>1. Num(Groups(bytes, o, 0)) = 0
      BY <2>1, NumOfNone, Zenon
    <3> QED BY <2>1, <2>2, <2>3, <3>1
  <2> HIDE DEF Good
  <2> QED BY <2>4
<1>3. ASSUME NEW n \in Nat, n \in G PROVE n + 1 \in G
  <2> SUFFICES ASSUME o + (n + 1) <= Len(bytes) PROVE Good(n + 1)
    OBVIOUS
  <2> DEFINE V == Group(bytes, o, n + 1)
             low == bytes[o + (n + 1)].low
             f == [i \in 1 .. n + 1 |-> Num(bytes[o + i].low) * Pow(Shift(i))]
  <2>1. o + n <= Len(bytes) /\ Good(n)
    BY <1>1, <1>3
  <2> HIDE DEF G
  <2>2. bytes[o + (n + 1)] \in Byte /\ \A i \in 1 .. n + 1 : bytes[o + i] \in Byte
    BY <1>1
  <2>3. /\ low \in SUBSET (0 .. GroupBits - 1) /\ IsFiniteSet(low) /\ low \in SUBSET Nat
        /\ Num(low) \in Nat
    BY <2>2, LowBits
  <2>4. /\ Shift(n + 1) \in Nat /\ Shift((n + 1) + 1) = Shift(n + 1) + GroupBits
        /\ GroupBits \in Nat
    <3>1. n + 1 \in Nat \ {0}
      OBVIOUS
    <3> QED BY <3>1, ShiftFacts
  <2>5. /\ V \in SUBSET Nat /\ IsFiniteSet(V) /\ Num(V) = Num(low) * Pow(Shift(n + 1))
    <3> HIDE DEF low
    <3> QED BY <2>3, <2>4, ShiftedFacts DEF Group, low
  <2>6. \A b \in V : b \in Shift(n + 1) .. Shift((n + 1) + 1) - 1
    <3> SUFFICES ASSUME NEW c \in low PROVE c + Shift(n + 1) \in Shift(n + 1) .. Shift((n + 1) + 1) - 1
      BY DEF Group, Shifted
    <3>1. c \in 0 .. GroupBits - 1
      BY <2>3
    <3> HIDE DEF low
    <3> QED BY <2>4, <3>1
  <2>7. Groups(bytes, o, n + 1) = Groups(bytes, o, n) \cup V
    <3>1. 1 .. n + 1 = (1 .. n) \cup {n + 1}
      OBVIOUS
    <3>2. {Group(bytes, o, i) : i \in 1 .. n + 1} = {Group(bytes, o, i) : i \in 1 .. n} \cup {V}
      BY <3>1
    <3> HIDE DEF V
    <3> QED BY <3>2 DEF Groups
  <2> HIDE DEF V, low
  <2>8. Groups(bytes, o, n) \in SUBSET Nat /\ Groups(bytes, o, n) \cap V = {}
    <3>1. \A b \in Groups(bytes, o, n) : b \in Nat /\ b < Shift(n + 1)
      BY <2>1, <2>4
    <3>2. \A b \in V : ~ (b < Shift(n + 1))
      BY <2>4, <2>6
    <3> QED BY <3>1, <3>2
  <2>9. Num(Groups(bytes, o, n + 1)) = Meaning(bytes, o, n) + Num(low) * Pow(Shift(n + 1))
    <3>1. Num(Groups(bytes, o, n) \cup V) = Num(Groups(bytes, o, n)) + Num(V)
      BY <2>1, <2>5, <2>8, NumOfUnion
    <3> QED BY <2>1, <2>5, <2>7, <3>1, Zenon
  <2>10. f \in [1 .. n + 1 -> Int]
    <3>1. ASSUME NEW i \in 1 .. n + 1 PROVE Num(bytes[o + i].low) * Pow(Shift(i)) \in Int
      <4>1. Num(bytes[o + i].low) \in Nat
        BY <2>2, LowBits
      <4>2. Pow(Shift(i)) \in Nat
        <5>1. i \in Nat \ {0}
          OBVIOUS
        <5> QED BY <5>1, ShiftFacts, Powers
      <4> QED BY <4>1, <4>2
    <3> QED BY <3>1
  <2>11. /\ SumFunction(f) = f[n + 1] + SumFunction([i \in (1 .. n + 1) \ {n + 1} |-> f[i]])
         /\ SumFunction([i \in (1 .. n + 1) \ {n + 1} |-> f[i]]) \in Int
    <3>1. IsFiniteSet(1 .. n + 1) /\ n + 1 \in 1 .. n + 1
      <4>1. 1 \in Int /\ n + 1 \in Int
        OBVIOUS
      <4> QED BY <4>1, FS_Interval
    <3> HIDE DEF f
    <3> QED BY <2>10, <3>1, SumStep, ZenonT(30)
  <2>12. /\ f[n + 1] = Num(low) * Pow(Shift(n + 1))
         /\ [i \in (1 .. n + 1) \ {n + 1} |-> f[i]] =
              [i \in 1 .. n |-> Num(bytes[o + i].low) * Pow(Shift(i))]
    <3>1. (1 .. n + 1) \ {n + 1} = 1 .. n /\ n + 1 \in 1 .. n + 1
      OBVIOUS
    <3>2. \A i \in 1 .. n : i \in 1 .. n + 1
      OBVIOUS
    <3> QED BY <3>1, <3>2 DEF low
  <2>13. /\ Meaning(bytes, o, n + 1) = SumFunction(f)
         /\ Meaning(bytes, o, n) =
              SumFunction([i \in 1 .. n |-> Num(bytes[o + i].low) * Pow(Shift(i))])
    BY DEF Meaning, Pow, Shift
  <2> HIDE DEF f
  <2>14. Meaning(bytes, o, n + 1) = Num(low) * Pow(Shift(n + 1)) + Meaning(bytes, o, n)
    BY <2>11, <2>12, <2>13, Zenon
  <2>15. Num(low) * Pow(Shift(n + 1)) \in Int
    <3>1. Pow(Shift(n + 1)) \in Nat
      BY <2>4, Powers
    <3> QED BY <2>3, <3>1
  <2>16. Groups(bytes, o, n + 1) \in SUBSET (0 .. Shift((n + 1) + 1) - 1)
    <3>1. \A b \in Groups(bytes, o, n) : b \in 0 .. Shift((n + 1) + 1) - 1
      BY <2>1, <2>4
    <3>2. \A b \in V : b \in 0 .. Shift((n + 1) + 1) - 1
      BY <2>4, <2>6
    <3> QED BY <2>7, <3>1, <3>2
  <2>17. IsFiniteSet(Groups(bytes, o, n + 1))
    <3>1. IsFiniteSet(Groups(bytes, o, n) \cup V)
      BY <2>1, <2>5, FS_Union
    <3> QED BY <2>7, <3>1, Zenon
  <2>18. Meaning(bytes, o, n) \in Int
    BY <2>1
  <2>19. Meaning(bytes, o, n + 1) \in Int /\ Num(Groups(bytes, o, n + 1)) = Meaning(bytes, o, n + 1)
    BY <2>9, <2>14, <2>15, <2>18
  <2> QED BY <2>16, <2>17, <2>19
<1>4. Nat \subseteq G
  <2> HIDE DEF G
  <2> QED BY <1>2, <1>3, AllNumbers
<1>5. \A n \in Nat : o + n <= Len(bytes) => Good(n)
  <2> HIDE DEF Good
  <2> QED BY <1>4
<1> QED BY <1>5

Encoded(bytes, o, n) == Meaning(bytes, o, n) % Pow(Width)

(* Reading a number bit by bit, with the shifts as they were added up, is  *)
(* reading what it means, as far as there is room for its bits.            *)
LEMMA BitsAreMeant ==
  ASSUME NEW bytes \in Bytes, NEW o \in Nat, NEW n \in Nat, o + n <= Len(bytes),
         NEW shifts, \A i \in 1 .. n : shifts[i] = Shift(i)
  PROVE  Num(Bits(bytes, o, n, shifts)) = Encoded(bytes, o, n)
<1>1. Bits(bytes, o, n, shifts) = Groups(bytes, o, n) \cap 0 .. Width - 1
  <2>1. \A i \in 1 .. n : {b + shifts[i] : b \in bytes[o + i].low} = Group(bytes, o, i)
    BY DEF Group, Shifted
  <2>2. {{b + shifts[i] : b \in bytes[o + i].low} : i \in 1 .. n} = {Group(bytes, o, i) : i \in 1 .. n}
    BY <2>1
  <2>3. /\ Bits(bytes, o, n, shifts) =
             (UNION {{b + shifts[i] : b \in bytes[o + i].low} : i \in 1 .. n}) \cap 0 .. Width - 1
        /\ Groups(bytes, o, n) = UNION {Group(bytes, o, i) : i \in 1 .. n}
    BY Zenon DEF Bits, Groups
  <2> QED BY <2>2, <2>3, Zenon
<1>2. /\ Groups(bytes, o, n) \in SUBSET (0 .. Shift(n + 1) - 1) /\ IsFiniteSet(Groups(bytes, o, n))
      /\ Num(Groups(bytes, o, n)) = Meaning(bytes, o, n)
  BY GroupsAddUp
<1>3. Groups(bytes, o, n) \in SUBSET Nat
  BY <1>2
<1>4. Num(Groups(bytes, o, n) \cap 0 .. Width - 1) = Num(Groups(bytes, o, n)) % Pow(Width)
  BY <1>2, <1>3, ShiftFacts, NumOfLowBits
<1> QED BY <1>1, <1>2, <1>4, Zenon DEF Encoded

LEMMA BitsAreNumbers ==
  ASSUME NEW bytes, NEW o, NEW n, NEW shifts
  PROVE  Num(Bits(bytes, o, n, shifts)) \in Nat
<1>1. Bits(bytes, o, n, shifts) \in SUBSET (0 .. Width - 1)
  BY DEF Bits
<1>2. Width \in Nat
  BY ShiftFacts
<1>3. \A T \in SUBSET (0 .. Width - 1) : Num(T) \in Nat
  BY <1>2, NumIsBelow
<1> QED BY <1>1, <1>3, Zenon

(* What both readers return at least: a number, and where to go on.        *)
LEMMA ReadersGoOn ==
  ASSUME NEW bytes \in Bytes
  PROVE  /\ \A o \in 0 .. Len(bytes) : LET r == ReadVar(bytes, o) IN
              r.value \in Nat /\ r.next \in o .. Len(bytes) /\ (r.value > 0 => r.next > o)
         /\ \A o \in Nat : LET r == ReadStrict(bytes, o) IN
              r = Thrown \/ (r.ok /\ r.value \in Nat /\ r.next \in o + 1 .. Len(bytes)
                             /\ r = [ok |-> TRUE, value |-> r.value, next |-> r.next])
<1>1. Len(bytes) \in Nat /\ MaxBytes \in Nat
  BY FilesAreBytes, ShiftFacts
<1>2. ASSUME NEW o \in 0 .. Len(bytes)
      PROVE  /\ ReadVar(bytes, o).value \in Nat
             /\ ReadVar(bytes, o).next \in o .. Len(bytes)
             /\ ReadVar(bytes, o).value > 0 => ReadVar(bytes, o).next > o
  <2>1. Run(bytes, o) \in 0 .. Len(bytes) - o
    BY RunsEnd
  <2> DEFINE shifts == [i \in 1 .. MaxBytes |-> GroupBits * (i - 1)]
             v == Num(Bits(bytes, o, Run(bytes, o) + 1, shifts))
  <2>2. v \in Nat
    BY BitsAreNumbers
  <2>3. ReadVar(bytes, o) = IF Run(bytes, o) < MaxBytes /\ o + Run(bytes, o) < Len(bytes)
                            THEN [value |-> v, next |-> o + Run(bytes, o) + 1]
                            ELSE [value |-> 0, next |-> Least(o + MaxBytes, Len(bytes))]
    BY DEF ReadVar
  <2> HIDE DEF v
  <2>4. CASE Run(bytes, o) < MaxBytes /\ o + Run(bytes, o) < Len(bytes)
    <3>1. ReadVar(bytes, o) = [value |-> v, next |-> o + Run(bytes, o) + 1]
      BY <2>3, <2>4
    <3>2. o + Run(bytes, o) + 1 \in o .. Len(bytes) /\ o + Run(bytes, o) + 1 > o
      BY <1>1, <2>1, <2>4
    <3> QED BY <2>2, <3>1, <3>2
  <2>5. CASE ~ (Run(bytes, o) < MaxBytes /\ o + Run(bytes, o) < Len(bytes))
    <3>1. ReadVar(bytes, o) = [value |-> 0, next |-> Least(o + MaxBytes, Len(bytes))]
      BY <2>3, <2>5
    <3>2. Least(o + MaxBytes, Len(bytes)) \in o .. Len(bytes)
      BY <1>1 DEF Least
    <3> QED BY <3>1, <3>2
  <2> QED BY <2>4, <2>5
<1>3. ASSUME NEW o \in Nat
      PROVE  \/ ReadStrict(bytes, o) = Thrown
             \/ \E v \in Nat, m \in o + 1 .. Len(bytes) :
                  ReadStrict(bytes, o) = [ok |-> TRUE, value |-> v, next |-> m]
  <2> DEFINE run == IF o > Len(bytes) THEN 0 ELSE Run(bytes, o)
             shifts == [i \in 1 .. MaxBytes + 1 |-> (GroupBits * (i - 1)) % Width]
             v == Num(Bits(bytes, o, run + 1, shifts))
  <2>1. run \in Nat
    BY <1>1, RunsEnd
  <2>2. v \in Nat
    BY BitsAreNumbers
  <2>3. ReadStrict(bytes, o) = IF run <= MaxBytes /\ o + run < Len(bytes)
                               THEN [ok |-> TRUE, value |-> v, next |-> o + run + 1]
                               ELSE Thrown
    BY DEF ReadStrict
  <2> HIDE DEF v, run
  <2>4. CASE run <= MaxBytes /\ o + run < Len(bytes)
    <3>1. o + run + 1 \in o + 1 .. Len(bytes)
      BY <1>1, <2>1, <2>4
    <3> QED BY <2>2, <2>3, <2>4, <3>1
  <2>5. CASE ~ (run <= MaxBytes /\ o + run < Len(bytes))
    BY <2>3, <2>5
  <2> QED BY <2>4, <2>5
<1>4. ASSUME NEW o \in Nat, NEW v \in Nat, NEW m \in o + 1 .. Len(bytes),
             ReadStrict(bytes, o) = [ok |-> TRUE, value |-> v, next |-> m]
      PROVE  LET r == ReadStrict(bytes, o) IN
             r.ok /\ r.value \in Nat /\ r.next \in o + 1 .. Len(bytes)
             /\ r = [ok |-> TRUE, value |-> r.value, next |-> r.next]
  BY <1>4
<1> QED BY <1>2, <1>3, <1>4

(* Where no run of continuation bytes is too long, both readers read what  *)
(* is meant; and where the file ends within a number, one of them reads 0  *)
(* and stops at the end, and the other throws.                             *)
LEMMA ReadersRead ==
  ASSUME NEW bytes \in Bytes, NEW o \in 0 .. Len(bytes), Run(bytes, o) < MaxBytes
  PROVE  LET n == Run(bytes, o) + 1 IN
         IF o + n <= Len(bytes)
         THEN /\ ReadVar(bytes, o) = [value |-> Encoded(bytes, o, n), next |-> o + n]
              /\ ReadStrict(bytes, o) =
                   [ok |-> TRUE, value |-> Encoded(bytes, o, n), next |-> o + n]
         ELSE /\ ReadVar(bytes, o) = [value |-> 0, next |-> Len(bytes)]
              /\ ReadStrict(bytes, o) = Thrown
<1> DEFINE run == Run(bytes, o)
           vars1 == [i \in 1 .. MaxBytes |-> GroupBits * (i - 1)]
           vars2 == [i \in 1 .. MaxBytes + 1 |-> (GroupBits * (i - 1)) % Width]
<1>1. Len(bytes) \in Nat /\ MaxBytes \in Nat /\ run \in 0 .. Len(bytes) - o /\ ~ (o > Len(bytes))
  BY FilesAreBytes, ShiftFacts, RunsEnd
<1>2. ReadVar(bytes, o) = IF run < MaxBytes /\ o + run < Len(bytes)
                          THEN [value |-> Num(Bits(bytes, o, run + 1, vars1)), next |-> o + run + 1]
                          ELSE [value |-> 0, next |-> Least(o + MaxBytes, Len(bytes))]
  BY DEF ReadVar
<1>3. ReadStrict(bytes, o) =
        IF run <= MaxBytes /\ o + run < Len(bytes)
        THEN [ok |-> TRUE, value |-> Num(Bits(bytes, o, run + 1, vars2)), next |-> o + run + 1]
        ELSE Thrown
  BY <1>1 DEF ReadStrict
<1>4. \A i \in 1 .. run + 1 : vars1[i] = Shift(i)
  BY <1>1 DEF Shift
<1>5. \A i \in 1 .. run + 1 : vars2[i] = Shift(i)
  <2> SUFFICES ASSUME NEW i \in 1 .. run + 1 PROVE vars2[i] = Shift(i)
    OBVIOUS
  <2>1. i \in 1 .. MaxBytes /\ i \in 1 .. MaxBytes + 1 /\ i \in Nat \ {0}
    BY <1>1
  <2>2. vars2[i] = Shift(i) % Width
    BY <2>1 DEF Shift
  <2>3. Shift(i) \in Nat /\ Width \in Nat /\ Shift(i) < Width
    BY <2>1, ShiftFacts
  <2> QED BY <2>2, <2>3, RemainderOfSmall
<1> HIDE DEF run, vars1, vars2
<1>6. CASE o + run < Len(bytes)
  <2>1. run + 1 \in Nat /\ o \in Nat /\ o + (run + 1) <= Len(bytes)
    BY <1>1, <1>6
  <2>2. /\ Num(Bits(bytes, o, run + 1, vars1)) = Encoded(bytes, o, run + 1)
        /\ Num(Bits(bytes, o, run + 1, vars2)) = Encoded(bytes, o, run + 1)
    BY <1>4, <1>5, <2>1, BitsAreMeant
  <2>3. run < MaxBytes /\ run <= MaxBytes
    BY <1>1 DEF run
  <2>4. /\ ReadVar(bytes, o) = [value |-> Encoded(bytes, o, run + 1), next |-> o + run + 1]
        /\ ReadStrict(bytes, o) =
             [ok |-> TRUE, value |-> Encoded(bytes, o, run + 1), next |-> o + run + 1]
    BY <1>2, <1>3, <1>6, <2>2, <2>3
  <2>5. o + run + 1 = o + (run + 1)
    BY <1>1
  <2> QED BY <2>1, <2>4, <2>5 DEF run
<1>7. CASE ~ (o + run < Len(bytes))
  <2>1. ~ (o + (run + 1) <= Len(bytes)) /\ o + run = Len(bytes) /\ run < MaxBytes
    BY <1>1, <1>7 DEF run
  <2>2. Least(o + MaxBytes, Len(bytes)) = Len(bytes)
    BY <1>1, <2>1 DEF Least
  <2>3. ReadVar(bytes, o) = [value |-> 0, next |-> Len(bytes)] /\ ReadStrict(bytes, o) = Thrown
    BY <1>2, <1>3, <1>7, <2>2
  <2> QED BY <2>1, <2>3 DEF run
<1> QED BY <1>6, <1>7

-----------------------------------------------------------------------------
(* The loops: what states they go through, round by round.                 *)
Found(bytes) == {s \in [from : 0 .. Len(bytes), to : 0 .. Len(bytes)] : s.from <= s.to}
Place(bytes) == [at : 0 .. Len(bytes), found : Found(bytes)]
Section(bytes) == [id : Byte, start : 0 .. Len(bytes), end : 0 .. Len(bytes)]
Reader(bytes) == [at : 0 .. Len(bytes), list : Seq(Section(bytes))]
Size == [ok : BOOLEAN, value : Nat, next : Nat]

LEMMA PlaceGoesOn ==
  ASSUME NEW bytes \in Bytes, NEW place \in Place(bytes)
  PROVE  NextSection(bytes, place) \in Place(bytes)
<1> DEFINE size == ReadVar(bytes, place.at + 1)
           end == SectionEnd(place.at, size)
           name == ReadVar(bytes, size.next)
           start == name.next + name.value
<1>1. Len(bytes) \in Nat /\ place.at \in 0 .. Len(bytes) /\ place.found \in Found(bytes)
      /\ place = [at |-> place.at, found |-> place.found]
  BY FilesAreBytes DEF Place
<1>2. CASE place.at = Len(bytes)
  BY <1>2 DEF NextSection
<1>3. CASE place.at # Len(bytes)
  <2>1. place.at + 1 \in 0 .. Len(bytes)
    BY <1>1, <1>3
  <2>2. size.value \in Nat /\ size.next \in place.at + 1 .. Len(bytes)
    <3>1. LET r == ReadVar(bytes, place.at + 1) IN
            r.value \in Nat /\ r.next \in place.at + 1 .. Len(bytes) /\ (r.value > 0 => r.next > place.at + 1)
      BY <2>1, ReadersGoOn
    <3> QED BY <3>1
  <2>3. size.next \in 0 .. Len(bytes)
    BY <1>1, <2>1, <2>2
  <2> HIDE DEF size
  <2>4. name.value \in Nat /\ name.next \in 0 .. Len(bytes)
    <3>1. LET r == ReadVar(bytes, size.next) IN
            r.value \in Nat /\ r.next \in size.next .. Len(bytes) /\ (r.value > 0 => r.next > size.next)
      BY <2>3, ReadersGoOn
    <3>2. \A x \in size.next .. Len(bytes) : x \in 0 .. Len(bytes)
      BY <2>3
    <3> QED BY <3>1, <3>2
  <2> HIDE DEF name
  <2>5. end \in Nat /\ start \in Nat
    BY <1>1, <2>2, <2>3, <2>4 DEF SectionEnd
  <2>6. \/ NextSection(bytes, place) = [place EXCEPT !.at = Len(bytes)]
        \/ /\ end <= Len(bytes) /\ start <= end
           /\ NextSection(bytes, place) = [at |-> Len(bytes), found |-> [from |-> start, to |-> end]]
        \/ /\ end <= Len(bytes) /\ NextSection(bytes, place) = [place EXCEPT !.at = end]
    <3>1. ~ (end > Len(bytes)) => end <= Len(bytes)
      BY <1>1, <2>5
    <3> HIDE DEF end, start
    <3> QED BY <1>3, <3>1, Zenon DEF NextSection, size, name, end, start
  <2> HIDE DEF end, start
  <2>7. CASE NextSection(bytes, place) = [place EXCEPT !.at = Len(bytes)]
    BY <1>1, <2>7 DEF Place
  <2>8. CASE /\ end <= Len(bytes) /\ start <= end
             /\ NextSection(bytes, place) = [at |-> Len(bytes), found |-> [from |-> start, to |-> end]]
    <3>1. [from |-> start, to |-> end] \in Found(bytes)
      BY <1>1, <2>5, <2>8 DEF Found
    <3> QED BY <1>1, <2>8, <3>1 DEF Place
  <2>9. CASE end <= Len(bytes) /\ NextSection(bytes, place) = [place EXCEPT !.at = end]
    BY <1>1, <2>5, <2>9 DEF Place
  <2> QED BY <2>6, <2>7, <2>8, <2>9
<1> QED BY <1>2, <1>3

LEMMA ReaderGoesOn ==
  ASSUME NEW bytes \in Bytes, NEW reader \in Reader(bytes)
  PROVE  PushSection(bytes, reader) \in Reader(bytes)
<1> DEFINE size == ReadStrict(bytes, reader.at + 1)
           end == size.next + size.value
           piece == [id |-> bytes[reader.at + 1], start |-> size.next, end |-> end]
<1>1. /\ Len(bytes) \in Nat /\ reader.at \in 0 .. Len(bytes)
      /\ reader.list \in Seq(Section(bytes))
  BY FilesAreBytes DEF Reader
<1>2. BrokenSection \in Section(bytes)
  BY <1>1, ReaderAssumption DEF BrokenSection, Section
<1>3. CASE reader.at = Len(bytes)
  BY <1>3 DEF PushSection
<1>4. CASE reader.at # Len(bytes) /\ (~ size.ok \/ end > Len(bytes))
  <2>1. PushSection(bytes, reader) = [at |-> Len(bytes), list |-> Append(reader.list, BrokenSection)]
    BY <1>4 DEF PushSection
  <2>2. Append(reader.list, BrokenSection) \in Seq(Section(bytes))
    BY <1>1, <1>2
  <2> QED BY <1>1, <2>1, <2>2 DEF Reader
<1>5. CASE reader.at # Len(bytes) /\ ~ (~ size.ok \/ end > Len(bytes))
  <2>1. PushSection(bytes, reader) = [at |-> end, list |-> Append(reader.list, piece)]
    BY <1>5 DEF PushSection
  <2>2. reader.at + 1 \in Nat /\ reader.at + 1 \in 1 .. Len(bytes)
    BY <1>1, <1>5
  <2>3. size.value \in Nat /\ size.next \in reader.at + 1 + 1 .. Len(bytes)
    <3>1. size # Thrown
      BY <1>5 DEF Thrown
    <3> QED BY <2>2, <3>1, ReadersGoOn
  <2>4. bytes[reader.at + 1] \in Byte
    BY <2>2, FilesAreBytes
  <2> HIDE DEF size
  <2>5. end \in 0 .. Len(bytes) /\ size.next \in 0 .. Len(bytes)
    BY <1>1, <1>5, <2>3
  <2>6. piece \in Section(bytes)
    <3> HIDE DEF end
    <3> QED BY <2>4, <2>5 DEF Section
  <2> HIDE DEF piece, end
  <2>7. Append(reader.list, piece) \in Seq(Section(bytes))
    BY <1>1, <2>6
  <2> QED BY <2>1, <2>5, <2>7 DEF Reader
<1> QED BY <1>3, <1>4, <1>5

(* The bodies read so far are smaller together than what was read.         *)
Ahead(start) == {s \in Size : s.ok => s.next > start + s.value}

LEMMA SizesGoOn ==
  ASSUME NEW bytes \in Bytes, NEW start \in Nat, NEW sizes \in Ahead(start)
  PROVE  NextSize(bytes, sizes) \in Ahead(start)
<1> DEFINE size == ReadStrict(bytes, sizes.next)
<1>1. Len(bytes) \in Nat /\ sizes.next \in Nat /\ sizes.value \in Nat
  BY FilesAreBytes DEF Size, Ahead
<1>2. Thrown \in Ahead(start)
  BY DEF Thrown, Size, Ahead
<1>3. CASE ~ sizes.ok \/ ~ size.ok
  BY <1>2, <1>3 DEF NextSize
<1>4. CASE ~ (~ sizes.ok \/ ~ size.ok)
  <2>1. size.value \in Nat /\ size.next \in sizes.next + 1 .. Len(bytes)
    <3>1. size # Thrown
      BY <1>4 DEF Thrown
    <3> QED BY <1>1, <3>1, ReadersGoOn
  <2>2. NextSize(bytes, sizes) =
          [ok |-> TRUE, value |-> sizes.value + size.value, next |-> size.next + size.value]
    BY <1>4 DEF NextSize, NextBody
  <2>3. sizes.next > start + sizes.value
    BY <1>4 DEF Ahead
  <2> HIDE DEF size
  <2>4. /\ sizes.value + size.value \in Nat /\ size.next + size.value \in Nat
        /\ size.next + size.value > start + (sizes.value + size.value)
    <3>1. \A a, b, v \in Nat : \A n \in a + 1 .. Len(bytes) :
            a > start + b => b + v \in Nat /\ n + v \in Nat /\ n + v > start + (b + v)
      OBVIOUS
    <3> QED BY ONLY <1>1, <2>1, <2>3, <3>1
  <2> QED BY <2>2, <2>4 DEF Size, Ahead
<1> QED BY <1>3, <1>4

StartPlace == [at |-> 0, found |-> Null]
StartReader == [at |-> 0, list |-> <<>>]

LEMMA PlaceRounds ==
  ASSUME NEW bytes \in Bytes
  PROVE  \E w \in [0 .. MaxSections -> Place(bytes)] :
           /\ w[0] = StartPlace
           /\ \A i \in 1 .. MaxSections : w[i] = NextSection(bytes, w[i - 1])
           /\ Extract(bytes) = w[MaxSections].found
<1> DEFINE N == MaxSections
           S == Place(bytes)
           f == [s \in S |-> NextSection(bytes, s)]
           Is(a) == a = [i \in 0 .. N |-> IF i = 0 THEN StartPlace ELSE NextSection(bytes, a[i - 1])]
           w == CHOOSE a : Is(a)
<1>1. N \in Nat /\ N \in 0 .. N /\ 0 \in 0 .. N
  BY ReaderAssumption
<1>2. StartPlace \in S /\ f \in [S -> S]
  <2>1. StartPlace \in S
    BY FilesAreBytes DEF StartPlace, Place, Found, Null
  <2>2. f \in [S -> S]
    BY PlaceGoesOn
  <2> QED BY <2>1, <2>2
<1>3. \E a : Is(a)
  <2> HIDE DEF N, S, f
  <2>1. PICK a \in [0 .. N -> S] : a[0] = StartPlace /\ \A i \in 1 .. N : a[i] = f[a[i - 1]]
    <3>1. Loops(S, f, StartPlace, N) # {}
      BY <1>1, <1>2, Iterates
    <3> QED BY <3>1 DEF Loops
  <2>2. ASSUME NEW i \in 0 .. N
        PROVE  a[i] = IF i = 0 THEN StartPlace ELSE NextSection(bytes, a[i - 1])
    <3>1. CASE i = 0
      BY <2>1, <3>1
    <3>2. CASE i # 0
      <4>1. i \in 1 .. N /\ i - 1 \in 0 .. N
        BY <1>1, <3>2
      <4>2. a[i] = f[a[i - 1]] /\ a[i - 1] \in S
        BY <2>1, <4>1
      <4> QED BY <3>2, <4>2 DEF f
    <3> QED BY <3>1, <3>2
  <2> QED BY <2>2
<1>4. Is(w)
  <2> HIDE DEF Is
  <2> QED BY <1>3
<1>5. w[0] = StartPlace /\ \A i \in 1 .. N : w[i] = NextSection(bytes, w[i - 1])
  <2>1. \A i \in 0 .. N : w[i] = IF i = 0 THEN StartPlace ELSE NextSection(bytes, w[i - 1])
    <3> HIDE DEF w
    <3> QED BY <1>4
  <2> HIDE DEF w
  <2> QED BY <1>1, <2>1
<1>6. Extract(bytes) = w[N].found
  BY Zenon DEF Extract, Rounds, StartPlace
<1> HIDE DEF w, N, f
<1>7. 0 .. N \subseteq {i \in 0 .. N : w[i] \in S}
  <2> DEFINE G == {i \in 0 .. N : w[i] \in S}
  <2>1. 0 \in G
    BY <1>1, <1>2, <1>5
  <2>2. ASSUME NEW n \in 1 .. N, n - 1 \in G PROVE n \in G
    BY <1>1, <1>5, <2>2, PlaceGoesOn
  <2> HIDE DEF G
  <2>3. 0 .. N \subseteq G
    BY <1>1, <2>1, <2>2, AllUpto
  <2> QED BY <2>3 DEF G
<1>8. DOMAIN w = 0 .. N /\ w = [i \in 0 .. N |-> w[i]]
  BY <1>4
<1>9. w \in [0 .. N -> S]
  BY <1>7, <1>8
<1> QED BY <1>5, <1>6, <1>9 DEF N

LEMMA ReaderRounds ==
  ASSUME NEW bytes \in Bytes
  PROVE  \E w \in [0 .. Len(bytes) -> Reader(bytes)] :
           /\ w[0] = StartReader
           /\ \A i \in 1 .. Len(bytes) : w[i] = PushSection(bytes, w[i - 1])
           /\ Sections(bytes) = w[Len(bytes)].list
<1> DEFINE N == Len(bytes)
           S == Reader(bytes)
           f == [s \in S |-> PushSection(bytes, s)]
           Is(a) == a = [i \in 0 .. N |-> IF i = 0 THEN StartReader ELSE PushSection(bytes, a[i - 1])]
           w == CHOOSE a : Is(a)
<1>1. N \in Nat /\ N \in 0 .. N /\ 0 \in 0 .. N
  BY FilesAreBytes
<1>2. StartReader \in S /\ f \in [S -> S]
  <2>1. StartReader \in S
    BY <1>1 DEF StartReader, Reader
  <2>2. f \in [S -> S]
    BY ReaderGoesOn
  <2> QED BY <2>1, <2>2
<1>3. \E a : Is(a)
  <2> HIDE DEF N, S, f
  <2>1. PICK a \in [0 .. N -> S] : a[0] = StartReader /\ \A i \in 1 .. N : a[i] = f[a[i - 1]]
    <3>1. Loops(S, f, StartReader, N) # {}
      BY <1>1, <1>2, Iterates
    <3> QED BY <3>1 DEF Loops
  <2>2. ASSUME NEW i \in 0 .. N
        PROVE  a[i] = IF i = 0 THEN StartReader ELSE PushSection(bytes, a[i - 1])
    <3>1. CASE i = 0
      BY <2>1, <3>1
    <3>2. CASE i # 0
      <4>1. i \in 1 .. N /\ i - 1 \in 0 .. N
        BY <1>1, <3>2
      <4>2. a[i] = f[a[i - 1]] /\ a[i - 1] \in S
        BY <2>1, <4>1
      <4> QED BY <3>2, <4>2 DEF f
    <3> QED BY <3>1, <3>2
  <2> QED BY <2>2
<1>4. Is(w)
  <2> HIDE DEF Is
  <2> QED BY <1>3
<1>5. w[0] = StartReader /\ \A i \in 1 .. N : w[i] = PushSection(bytes, w[i - 1])
  <2>1. \A i \in 0 .. N : w[i] = IF i = 0 THEN StartReader ELSE PushSection(bytes, w[i - 1])
    <3> HIDE DEF w
    <3> QED BY <1>4
  <2> HIDE DEF w
  <2> QED BY <1>1, <2>1
<1>6. Sections(bytes) = w[N].list
  BY Zenon DEF Sections, Rounds, StartReader
<1> HIDE DEF w, N, f
<1>7. 0 .. N \subseteq {i \in 0 .. N : w[i] \in S}
  <2> DEFINE G == {i \in 0 .. N : w[i] \in S}
  <2>1. 0 \in G
    BY <1>1, <1>2, <1>5
  <2>2. ASSUME NEW n \in 1 .. N, n - 1 \in G PROVE n \in G
    BY <1>1, <1>5, <2>2, ReaderGoesOn
  <2> HIDE DEF G
  <2>3. 0 .. N \subseteq G
    BY <1>1, <2>1, <2>2, AllUpto
  <2> QED BY <2>3 DEF G
<1>8. DOMAIN w = 0 .. N /\ w = [i \in 0 .. N |-> w[i]]
  BY <1>4
<1>9. w \in [0 .. N -> S]
  BY <1>7, <1>8
<1> QED BY <1>5, <1>6, <1>9 DEF N

LEMMA BodiesAhead ==
  ASSUME NEW bytes \in Bytes, NEW start \in Nat
  PROVE  BodySizes(bytes, start) \in Ahead(start)
<1> DEFINE count == ReadStrict(bytes, start)
           s0 == [count EXCEPT !.value = 0]
           N == count.value
           S == Ahead(start)
           f == [s \in S |-> NextSize(bytes, s)]
           Is(a) == a = [i \in 0 .. N |-> IF i = 0 THEN s0 ELSE NextSize(bytes, a[i - 1])]
           w == CHOOSE a : Is(a)
<1>10. CASE ~ count.ok
  <2>1. BodySizes(bytes, start) = Thrown
    BY <1>10 DEF BodySizes
  <2> QED BY <2>1 DEF Ahead, Size, Thrown
<1> SUFFICES ASSUME count.ok PROVE BodySizes(bytes, start) \in Ahead(start)
  BY <1>10
<1>11. /\ Len(bytes) \in Nat /\ count.value \in Nat /\ count.next \in start + 1 .. Len(bytes)
       /\ count = [ok |-> TRUE, value |-> count.value, next |-> count.next]
  <2>1. count # Thrown
    BY DEF Thrown
  <2> QED BY <2>1, FilesAreBytes, ReadersGoOn
<1>1. N \in Nat /\ N \in 0 .. N /\ 0 \in 0 .. N
  <2> HIDE DEF count
  <2> QED BY <1>11
<1>2. s0 \in S /\ f \in [S -> S]
  <2>1. s0 \in S
    <3> HIDE DEF count
    <3>1. count \in Size /\ count.next \in Nat /\ count.next > start + 0
      <4>1. count.value \in Nat /\ count.next \in Nat
        BY <1>11
      <4>2. [ok |-> TRUE, value |-> count.value, next |-> count.next] \in Size
        BY <4>1 DEF Size
      <4>3. count = [ok |-> TRUE, value |-> count.value, next |-> count.next]
        BY <1>11
      <4>4. count \in Size
        BY <4>2, <4>3, Zenon
      <4>5. count.next > start + 0
        BY <1>11
      <4> QED BY <4>1, <4>4, <4>5
    <3>2. s0 \in Size /\ s0.next = count.next /\ s0.value = 0
      BY <3>1 DEF Size
    <3> HIDE DEF s0
    <3> QED BY <3>1, <3>2 DEF Ahead
  <2>2. f \in [S -> S]
    BY SizesGoOn
  <2> QED BY <2>1, <2>2
<1>3. \E a : Is(a)
  <2> HIDE DEF N, S, f, s0, count
  <2>1. PICK a \in [0 .. N -> S] : a[0] = s0 /\ \A i \in 1 .. N : a[i] = f[a[i - 1]]
    <3>1. Loops(S, f, s0, N) # {}
      BY <1>1, <1>2, Iterates
    <3> QED BY <3>1 DEF Loops
  <2>2. ASSUME NEW i \in 0 .. N
        PROVE  a[i] = IF i = 0 THEN s0 ELSE NextSize(bytes, a[i - 1])
    <3>1. CASE i = 0
      BY <2>1, <3>1
    <3>2. CASE i # 0
      <4>1. i \in 1 .. N /\ i - 1 \in 0 .. N
        BY <1>1, <3>2
      <4>2. a[i] = f[a[i - 1]] /\ a[i - 1] \in S
        BY <2>1, <4>1
      <4> QED BY <3>2, <4>2 DEF f
    <3> QED BY <3>1, <3>2
  <2> QED BY <2>2
<1>4. Is(w)
  <2> HIDE DEF Is
  <2> QED BY <1>3
<1>5. w[0] = s0 /\ \A i \in 1 .. N : w[i] = NextSize(bytes, w[i - 1])
  <2>1. \A i \in 0 .. N : w[i] = IF i = 0 THEN s0 ELSE NextSize(bytes, w[i - 1])
    <3> HIDE DEF w
    <3> QED BY <1>4
  <2> HIDE DEF w
  <2> QED BY <1>1, <2>1
<1>6. BodySizes(bytes, start) = w[N]
  BY Zenon DEF BodySizes, Rounds
<1> HIDE DEF w, N, f, s0, count
<1>7. 0 .. N \subseteq {i \in 0 .. N : w[i] \in S}
  <2> DEFINE G == {i \in 0 .. N : w[i] \in S}
  <2>1. 0 \in G
    BY <1>1, <1>2, <1>5
  <2>2. ASSUME NEW n \in 1 .. N, n - 1 \in G PROVE n \in G
    BY <1>1, <1>5, <2>2, SizesGoOn
  <2> HIDE DEF G
  <2>3. 0 .. N \subseteq G
    BY <1>1, <2>1, <2>2, AllUpto
  <2> QED BY <2>3 DEF G
<1>8. DOMAIN w = 0 .. N /\ w = [i \in 0 .. N |-> w[i]]
  BY <1>4
<1>9. w \in [0 .. N -> S]
  BY <1>7, <1>8
<1> QED BY <1>1, <1>6, <1>9

-----------------------------------------------------------------------------
(* The sections of a file, where a number is where it ought to be.         *)
LEMMA RemaindersAreNumbers ==
  ASSUME NEW a \in Int, NEW m \in Nat, m > 0
  PROVE  a % m \in Nat
OBVIOUS

LEMMA EncodedIsNumber ==
  ASSUME NEW bytes \in Bytes, NEW o \in Nat, NEW n \in Nat, o + n <= Len(bytes)
  PROVE  Encoded(bytes, o, n) \in Nat
<1>1. Meaning(bytes, o, n) \in Int
  BY GroupsAddUp
<1>2. Pow(Width) \in Nat /\ Pow(Width) > 0
  BY ShiftFacts, Powers
<1> QED BY <1>1, <1>2, RemaindersAreNumbers DEF Encoded

LEMMA ValueIsEncoded ==
  ASSUME NEW o, NEW n
  PROVE  Value(o, n) = Encoded(binary, o, n)
BY DEF Value, Encoded, Meaning, Pow

(* A section ends in one place at most.                                    *)
LEMMA OneSection ==
  ASSUME binary \in Bytes, NEW p \in 0 .. Len(binary) - 1
  PROVE  \A to : IsSection(p, to) <=>
           /\ Run(binary, p + 1) + 1 \in 1 .. MaxBytes
           /\ p + 1 + (Run(binary, p + 1) + 1) <= to
           /\ p + 1 + (Run(binary, p + 1) + 1)
                + Encoded(binary, p + 1, Run(binary, p + 1) + 1) = to
<1>1. Run(binary, p + 1) \in Nat
  <2>1. Len(binary) \in Nat
    BY FilesAreBytes
  <2>2. p + 1 \in 0 .. Len(binary)
    BY <2>1
  <2>3. Run(binary, p + 1) \in 0 .. Len(binary) - (p + 1)
    BY <2>2, RunsEnd
  <2> QED BY <2>1, <2>3
<1>2. MaxBytes \in Nat
  BY ShiftFacts
<1> SUFFICES ASSUME NEW to
             PROVE  IsSection(p, to) <=>
                      /\ Run(binary, p + 1) + 1 \in 1 .. MaxBytes
                      /\ p + 1 + (Run(binary, p + 1) + 1) <= to
                      /\ p + 1 + (Run(binary, p + 1) + 1)
                           + Encoded(binary, p + 1, Run(binary, p + 1) + 1) = to
  OBVIOUS
<1>3. IsSection(p, to) <=>
        \E n \in 1 .. MaxBytes : /\ p + 1 + n <= to /\ Run(binary, p + 1) = n - 1
                                 /\ p + 1 + n + Encoded(binary, p + 1, n) = to
  BY ValueIsEncoded DEF IsSection
<1>4. \A n \in 1 .. MaxBytes : Run(binary, p + 1) = n - 1 <=> n = Run(binary, p + 1) + 1
  BY <1>1, <1>2
<1> QED BY <1>3, <1>4, Zenon

LEMMA SectionsAreRead ==
  ASSUME binary \in Bytes, Proper, NEW p \in 0 .. Len(binary) - 1
  PROVE  LET size == ReadStrict(binary, p + 1)
             var == ReadVar(binary, p + 1)
         IN
         \/ /\ size.ok /\ size.next \in p + 2 .. size.next + size.value /\ size.value \in Nat
            /\ IsSection(p, size.next + size.value)
            /\ \A to : IsSection(p, to) => to = size.next + size.value
            /\ var = [value |-> size.value, next |-> size.next]
         \/ /\ ~ size.ok /\ \A to \in 0 .. Len(binary) : ~ IsSection(p, to)
            /\ var = [value |-> 0, next |-> Len(binary)]
<1> DEFINE n == Run(binary, p + 1) + 1
           e == Encoded(binary, p + 1, n)
<1>1. Len(binary) \in Nat /\ MaxBytes \in Nat
  BY FilesAreBytes, ShiftFacts
<1>2. p + 1 \in 0 .. Len(binary) /\ p + 1 \in Nat
  BY <1>1
<1>3. Run(binary, p + 1) < MaxBytes
  BY <1>2 DEF Proper
<1>4. n \in Nat /\ n \in 1 .. MaxBytes
  <2>1. Run(binary, p + 1) \in 0 .. Len(binary) - (p + 1)
    BY <1>2, RunsEnd
  <2> QED BY <1>1, <1>2, <1>3, <2>1
<1>5. \A to : IsSection(p, to) <=> p + 1 + n <= to /\ p + 1 + n + e = to
  BY <1>4, OneSection
<1>6. IF (p + 1) + n <= Len(binary)
      THEN /\ ReadVar(binary, p + 1) = [value |-> e, next |-> p + 1 + n]
           /\ ReadStrict(binary, p + 1) = [ok |-> TRUE, value |-> e, next |-> p + 1 + n]
      ELSE /\ ReadVar(binary, p + 1) = [value |-> 0, next |-> Len(binary)]
           /\ ReadStrict(binary, p + 1) = Thrown
  BY <1>2, <1>3, ReadersRead
<1>7. CASE (p + 1) + n <= Len(binary)
  <2>1. e \in Nat
    BY <1>2, <1>4, <1>7, EncodedIsNumber
  <2> HIDE DEF n, e
  <2>2. p + 1 + n \in p + 2 .. p + 1 + n + e /\ p + 1 + n <= p + 1 + n + e
    BY <1>2, <1>4, <2>1
  <2>3. /\ IsSection(p, p + 1 + n + e)
        /\ \A to : IsSection(p, to) => to = p + 1 + n + e
    BY <1>5, <2>2
  <2>4. /\ ReadStrict(binary, p + 1).ok /\ ReadStrict(binary, p + 1).value = e
        /\ ReadStrict(binary, p + 1).next = p + 1 + n
        /\ ReadVar(binary, p + 1) = [value |-> e, next |-> p + 1 + n]
    BY <1>6, <1>7
  <2> QED BY <2>1, <2>2, <2>3, <2>4
<1>8. CASE ~ ((p + 1) + n <= Len(binary))
  <2>1. ~ ReadStrict(binary, p + 1).ok /\ ReadVar(binary, p + 1) = [value |-> 0, next |-> Len(binary)]
    BY <1>6, <1>8 DEF Thrown
  <2> HIDE DEF n, e
  <2>2. ASSUME NEW to \in 0 .. Len(binary) PROVE ~ IsSection(p, to)
    <3>1. ~ (p + 1 + n <= to)
      BY <1>1, <1>2, <1>4, <1>8
    <3> QED BY <1>5, <3>1
  <2> QED BY <2>1, <2>2
<1> QED BY <1>7, <1>8

-----------------------------------------------------------------------------
(* The list of the estimator: a chain of sections from the first byte on,  *)
(* up to the last byte or to where there is no section.                    *)
Cut(l, k) == IF k = 0 THEN 0 ELSE l[k].end
Piece(p, s) ==
  /\ p \in 0 .. Len(binary) - 1 /\ IsSection(p, s.end) /\ s.end \in 0 .. Len(binary)
  /\ s.id = binary[p + 1] /\ s.start = ReadStrict(binary, p + 1).next /\ s.start \in p + 2 .. s.end
Chain(l, m) ==
  /\ \A k \in 1 .. m : Piece(Cut(l, k - 1), l[k])
  /\ \A a, b \in 0 .. m : a < b => Cut(l, a) < Cut(l, b)
NoSection(p) == p \in 0 .. Len(binary) - 1 /\ \A to \in 0 .. Len(binary) : ~ IsSection(p, to)
Whole(l, m) == m = Len(l) /\ Cut(l, m) = Len(binary)
Torn(l, m) == Len(l) = m + 1 /\ l[m + 1] = BrokenSection /\ NoSection(Cut(l, m))

Going(r, i) == /\ Chain(r.list, Len(r.list)) /\ r.at = Cut(r.list, Len(r.list))
               /\ i <= r.at \/ r.at = Len(binary)
Stuck(r) == r.at = Len(binary) /\ \E m \in Nat : Chain(r.list, m) /\ Torn(r.list, m)

LEMMA ChainGrows ==
  ASSUME binary \in Bytes, NEW l \in Seq(Section(binary)), NEW x \in Section(binary),
         Chain(l, Len(l))
  PROVE  /\ Len(Append(l, x)) = Len(l) + 1 /\ Append(l, x)[Len(l) + 1] = x
         /\ Cut(Append(l, x), Len(l)) = Cut(l, Len(l))
         /\ Chain(Append(l, x), Len(l))
         /\ Piece(Cut(l, Len(l)), x) => Chain(Append(l, x), Len(l) + 1)
<1> DEFINE m == Len(l)
           t == Append(l, x)
<1>1. m \in Nat /\ Len(t) = m + 1 /\ t[m + 1] = x /\ \A k \in 1 .. m : t[k] = l[k]
  OBVIOUS
<1>2. \A k \in 0 .. m : Cut(t, k) = Cut(l, k)
  <2> HIDE DEF t, m
  <2> QED BY <1>1 DEF Cut
<1>3. Cut(t, m + 1) = x.end
  <2> HIDE DEF t, m
  <2> QED BY <1>1 DEF Cut
<1>4. \A k \in 1 .. m : Piece(Cut(l, k - 1), l[k])
  BY DEF Chain
<1>5. \A a, b \in 0 .. m : a < b => Cut(l, a) < Cut(l, b)
  BY DEF Chain
<1> HIDE DEF t, m
<1>6. \A k \in 1 .. m : Piece(Cut(t, k - 1), t[k])
  <2>1. \A k \in 1 .. m : k - 1 \in 0 .. m
    BY <1>1
  <2> QED BY <1>1, <1>2, <1>4, <2>1
<1>7. \A a, b \in 0 .. m : a < b => Cut(t, a) < Cut(t, b)
  BY <1>2, <1>5
<1>8. ASSUME Piece(Cut(l, m), x) PROVE Chain(t, m + 1)
  <2>1. ASSUME NEW k \in 1 .. m + 1 PROVE Piece(Cut(t, k - 1), t[k])
    <3>1. CASE k = m + 1
      <4>1. k - 1 = m /\ m \in 0 .. m
        BY <1>1, <3>1
      <4>2. Cut(t, k - 1) = Cut(l, m) /\ t[k] = x
        BY <1>1, <1>2, <3>1, <4>1
      <4> QED BY <1>8, <4>2
    <3>2. CASE k # m + 1
      <4>1. k \in 1 .. m
        BY <1>1, <3>2
      <4> QED BY <1>6, <4>1
    <3> QED BY <3>1, <3>2
  <2>2. ASSUME NEW a \in 0 .. m + 1, NEW b \in 0 .. m + 1, a < b PROVE Cut(t, a) < Cut(t, b)
    <3>1. CASE b = m + 1
      <4>1. a \in 0 .. m /\ m \in 0 .. m
        BY <1>1, <2>2, <3>1
      <4>2. /\ Cut(t, m) \in 0 .. Len(binary) - 1 /\ x.start \in Cut(t, m) + 2 .. x.end
            /\ x.end \in 0 .. Len(binary) /\ Len(binary) \in Nat
        BY <1>2, <1>8, <4>1, FilesAreBytes DEF Piece
      <4>3. Cut(t, m) < x.end
        BY <4>2
      <4>4. CASE a = m
        BY <1>3, <3>1, <4>3, <4>4
      <4>5. CASE a # m
        <5>1. a \in 1 .. m \/ a = 0
          BY <1>1, <4>1
        <5>2. a < m
          BY <1>1, <4>1, <4>5
        <5>3. Cut(t, a) < Cut(t, m)
          BY <1>7, <4>1, <5>2
        <5>4. Cut(t, a) \in Int
          <6>1. CASE a = 0
            BY <6>1 DEF Cut
          <6>2. CASE a \in 1 .. m
            <7>1. t[a] = l[a] /\ l[a] \in Section(binary)
              BY <1>1, <6>2 DEF m
            <7>2. l[a].end \in Int
              BY <4>2, <7>1 DEF Section
            <7> QED BY <1>1, <6>2, <7>1, <7>2 DEF Cut
          <6> QED BY <5>1, <6>1, <6>2
        <5>5. Cut(t, a) < x.end
          BY <4>2, <4>3, <5>3, <5>4
        <5> QED BY <1>3, <3>1, <5>5
      <4> QED BY <4>4, <4>5
    <3>2. CASE b # m + 1
      <4>1. a \in 0 .. m /\ b \in 0 .. m
        BY <1>1, <2>2, <3>2
      <4> QED BY <1>7, <2>2, <4>1
    <3> QED BY <3>1, <3>2
  <2> QED BY <2>1, <2>2 DEF Chain
<1>9. m \in 0 .. m
  BY <1>1
<1>10. Chain(t, m) /\ Cut(t, m) = Cut(l, m)
  BY <1>2, <1>6, <1>7, <1>9 DEF Chain
<1> QED BY <1>1, <1>8, <1>10 DEF t, m

LEMMA ReaderFollows ==
  ASSUME binary \in Bytes, Proper, NEW r \in Reader(binary), NEW i \in 1 .. Len(binary),
         Going(r, i - 1) \/ Stuck(r)
  PROVE  Going(PushSection(binary, r), i) \/ Stuck(PushSection(binary, r))
<1> DEFINE size == ReadStrict(binary, r.at + 1)
           end == size.next + size.value
           q == PushSection(binary, r)
           m == Len(r.list)
           x == [id |-> binary[r.at + 1], start |-> size.next, end |-> end]
<1>1. /\ Len(binary) \in Nat /\ r.at \in 0 .. Len(binary) /\ r.list \in Seq(Section(binary))
      /\ m \in Nat
  BY FilesAreBytes DEF Reader
<1>2. CASE r.at = Len(binary)
  <2>1. q = r
    BY <1>2 DEF PushSection
  <2>2. Going(r, i - 1) => Going(r, i)
    BY <1>2 DEF Going
  <2> QED BY <2>1, <2>2
<1>3. CASE r.at # Len(binary)
  <2>1. /\ Chain(r.list, m) /\ r.at = Cut(r.list, m) /\ i - 1 <= r.at
        /\ r.at \in 0 .. Len(binary) - 1
    <3>1. Chain(r.list, m) /\ r.at = Cut(r.list, m) /\ i - 1 <= r.at
      BY <1>3 DEF Going, Stuck
    <3>2. r.at \in 0 .. Len(binary) - 1
      BY <1>1, <1>3
    <3> QED BY <3>1, <3>2
  <2>2. \/ /\ size.ok /\ size.next \in r.at + 2 .. end /\ size.value \in Nat
           /\ IsSection(r.at, end) /\ \A to : IsSection(r.at, to) => to = end
        \/ ~ size.ok /\ \A to \in 0 .. Len(binary) : ~ IsSection(r.at, to)
    BY <2>1, SectionsAreRead
  <2>3. CASE ~ size.ok \/ end > Len(binary)
    <3>1. q = [at |-> Len(binary), list |-> Append(r.list, BrokenSection)]
      BY <1>3, <2>3 DEF PushSection
    <3>2. NoSection(r.at)
      <4>1. ASSUME NEW to \in 0 .. Len(binary), IsSection(r.at, to) PROVE FALSE
        <5>1. to = end /\ ~ (end > Len(binary)) /\ size.ok
          <6> HIDE DEF size, end
          <6>1. size.ok /\ to = end
            BY <2>2, <4>1
          <6> QED BY <1>1, <6>1
        <5> QED BY <2>3, <5>1
      <4> QED BY <2>1, <4>1 DEF NoSection
    <3>3. BrokenSection \in Section(binary)
      BY <1>1, ReaderAssumption DEF BrokenSection, Section
    <3>4. /\ Len(q.list) = m + 1 /\ q.list[m + 1] = BrokenSection
          /\ Cut(q.list, m) = r.at /\ Chain(q.list, m)
      BY <1>1, <2>1, <3>1, <3>3, ChainGrows
    <3>5. Torn(q.list, m)
      BY <3>2, <3>4 DEF Torn
    <3>6. q.at = Len(binary)
      BY <3>1
    <3> HIDE DEF q, m
    <3>7. Stuck(q)
      BY <1>1, <3>4, <3>5, <3>6 DEF Stuck
    <3> QED BY <3>7 DEF q
  <2>4. CASE ~ (~ size.ok \/ end > Len(binary))
    <3>1. q = [at |-> end, list |-> Append(r.list, x)]
      BY <1>3, <2>4 DEF PushSection
    <3>2. size.next \in r.at + 2 .. end /\ size.value \in Nat /\ IsSection(r.at, end)
      BY <2>2, <2>4
    <3>3. size.next \in 0 .. Len(binary) /\ end \in 0 .. Len(binary) /\ i <= end
      <4>1. end \in Int /\ size.next \in Int
        <5>1. size.next \in Int
          <6> HIDE DEF end, size
          <6> QED BY <3>2
        <5> QED BY <3>2, <5>1
      <4>2. end <= Len(binary)
        <5> HIDE DEF size
        <5> QED BY <1>1, <2>4, <4>1
      <4> HIDE DEF end, size
      <4> QED BY <1>1, <2>1, <3>2, <4>1, <4>2
    <3>4. binary[r.at + 1] \in Byte
      <4>1. r.at + 1 \in 1 .. Len(binary)
        BY <1>1, <2>1
      <4> QED BY <4>1, FilesAreBytes
    <3>5. x \in Section(binary)
      <4> HIDE DEF size, end
      <4> QED BY <3>3, <3>4 DEF Section
    <3>6. Piece(r.at, x)
      <4>1. x.end = end /\ x.start = size.next /\ x.id = binary[r.at + 1]
        OBVIOUS
      <4> HIDE DEF x, end
      <4> QED BY <2>1, <3>2, <3>3, <4>1 DEF Piece
    <3>7. /\ Len(q.list) = m + 1 /\ q.list[m + 1] = x /\ Chain(q.list, m + 1)
      <4> HIDE DEF x
      <4> QED BY <1>1, <2>1, <3>1, <3>5, <3>6, ChainGrows
    <3>8. q.at = Cut(q.list, m + 1) /\ i <= q.at
      <4>1. m + 1 # 0 /\ x.end = end /\ q.at = end
        BY <1>1, <3>1
      <4> HIDE DEF q, m, x, end
      <4> QED BY <3>3, <3>7, <4>1 DEF Cut
    <3> HIDE DEF q, m
    <3>9. Going(q, i)
      BY <3>7, <3>8 DEF Going
    <3> QED BY <3>9 DEF q
  <2> QED BY <2>3, <2>4
<1> QED BY <1>2, <1>3

LEMMA Listed ==
  ASSUME binary \in Bytes, Proper
  PROVE  /\ Sections(binary) \in Seq(Section(binary))
         /\ \E m \in Nat : /\ Chain(Sections(binary), m)
                           /\ Whole(Sections(binary), m) \/ Torn(Sections(binary), m)
<1> DEFINE N == Len(binary)
<1>1. N \in Nat /\ N \in 0 .. N
  BY FilesAreBytes
<1>2. PICK w \in [0 .. N -> Reader(binary)] :
        /\ w[0] = StartReader
        /\ \A i \in 1 .. N : w[i] = PushSection(binary, w[i - 1])
        /\ Sections(binary) = w[N].list
  BY ReaderRounds
<1> DEFINE G == {i \in 0 .. N : Going(w[i], i) \/ Stuck(w[i])}
<1>3. 0 \in G
  <2>1. /\ w[0].list = <<>> /\ w[0].at = 0 /\ Len(<<>>) = 0 /\ Cut(<<>>, 0) = 0
    BY <1>2 DEF StartReader, Cut
  <2>2. Chain(<<>>, 0)
    BY DEF Chain
  <2>3. Going(w[0], 0)
    BY <2>1, <2>2 DEF Going
  <2> QED BY <1>1, <2>3
<1>4. ASSUME NEW n \in 1 .. N, n - 1 \in G PROVE n \in G
  <2>1. n \in 0 .. N /\ n - 1 \in 0 .. N /\ w[n - 1] \in Reader(binary)
    BY <1>1
  <2>2. Going(w[n - 1], n - 1) \/ Stuck(w[n - 1])
    BY <1>4
  <2>3. w[n] = PushSection(binary, w[n - 1])
    BY <1>2
  <2> QED BY <2>1, <2>2, <2>3, ReaderFollows
<1>5. Going(w[N], N) \/ Stuck(w[N])
  <2> HIDE DEF G
  <2>1. 0 .. N \subseteq G
    BY <1>1, <1>3, <1>4, AllUpto
  <2>2. N \in G
    BY <1>1, <2>1
  <2> QED BY <2>2 DEF G
<1>6. w[N] \in Reader(binary)
  BY <1>1
<1> HIDE DEF N
<1>7. w[N].at \in 0 .. N /\ w[N].list \in Seq(Section(binary)) /\ Len(w[N].list) \in Nat
  BY <1>6 DEF Reader, N
<1>8. CASE Going(w[N], N)
  <2>1. w[N].at = N
    BY <1>1, <1>7, <1>8 DEF Going, N
  <2>2. Chain(w[N].list, Len(w[N].list)) /\ Whole(w[N].list, Len(w[N].list))
    BY <1>8, <2>1 DEF Going, Whole, N
  <2> QED BY <1>2, <1>7, <2>2
<1>9. CASE Stuck(w[N])
  BY <1>2, <1>7, <1>9 DEF Stuck
<1> QED BY <1>5, <1>8, <1>9

(* What a chain is made of.                                                *)
LEMMA ChainFacts ==
  ASSUME binary \in Bytes, NEW l, NEW m \in Nat, Chain(l, m)
  PROVE  /\ Len(binary) \in Nat /\ Cut(l, 0) = 0
         /\ \A k \in 0 .. m : Cut(l, k) \in 0 .. Len(binary)
         /\ \A k \in 1 .. m : /\ Cut(l, k) = l[k].end /\ l[k] # BrokenSection
                              /\ k - 1 \in 0 .. m /\ Cut(l, k - 1) < Cut(l, k)
                              /\ IsSection(Cut(l, k - 1), Cut(l, k))
                              /\ \A to : IsSection(Cut(l, k - 1), to) => to = Cut(l, k)
<1>1. Len(binary) \in Nat /\ Cut(l, 0) = 0
  BY FilesAreBytes DEF Cut
<1>2. ASSUME NEW k \in 1 .. m
      PROVE  /\ Cut(l, k) = l[k].end /\ l[k] # BrokenSection /\ Cut(l, k) \in 0 .. Len(binary)
             /\ k - 1 \in 0 .. m /\ Cut(l, k - 1) < Cut(l, k)
             /\ IsSection(Cut(l, k - 1), Cut(l, k))
             /\ \A to : IsSection(Cut(l, k - 1), to) => to = Cut(l, k)
  <2>1. Cut(l, k) = l[k].end
    BY DEF Cut
  <2>2. Piece(Cut(l, k - 1), l[k])
    BY DEF Chain
  <2>3. k - 1 \in 0 .. m /\ k \in 0 .. m /\ k - 1 < k
    OBVIOUS
  <2>4. Cut(l, k - 1) < Cut(l, k)
    BY <2>3 DEF Chain
  <2>5. /\ Cut(l, k - 1) \in 0 .. Len(binary) - 1 /\ l[k].start \in Cut(l, k - 1) + 2 .. l[k].end
        /\ IsSection(Cut(l, k - 1), Cut(l, k)) /\ Cut(l, k) \in 0 .. Len(binary)
    BY <2>1, <2>2 DEF Piece
  <2>6. l[k].start # 0
    BY <1>1, <2>5
  <2>7. l[k] # BrokenSection
    BY <2>6 DEF BrokenSection
  <2>8. \A to : IsSection(Cut(l, k - 1), to) => to = Cut(l, k)
    BY <2>5, OneSection
  <2> QED BY <2>1, <2>3, <2>4, <2>5, <2>7, <2>8
<1>3. ASSUME NEW k \in 0 .. m PROVE Cut(l, k) \in 0 .. Len(binary)
  <2>1. CASE k = 0
    BY <1>1, <2>1
  <2>2. CASE k # 0
    <3>1. k \in 1 .. m
      BY <2>2
    <3> QED BY <1>2, <3>1
  <2> QED BY <2>1, <2>2
<1> QED BY <1>1, <1>2, <1>3

(* A chain up to the last byte takes the file apart ...                    *)
LEMMA WholeIsTiled ==
  ASSUME binary \in Bytes, NEW l \in Seq(Section(binary)), NEW m \in Nat, Chain(l, m), Whole(l, m)
  PROVE  Complete(l) /\ Tiled({0} \cup {l[i].end : i \in DOMAIN l})
<1> DEFINE cuts == {0} \cup {l[i].end : i \in DOMAIN l}
<1>1. /\ Len(binary) \in Nat /\ Cut(l, 0) = 0 /\ DOMAIN l = 1 .. m /\ Cut(l, m) = Len(binary)
      /\ \A k \in 1 .. m : Cut(l, k) = l[k].end
  BY ChainFacts DEF Whole
<1>2. cuts = {Cut(l, k) : k \in 0 .. m}
  <2>1. \A c \in cuts : \E k \in 0 .. m : c = Cut(l, k)
    <3>1. \A i \in 1 .. m : i \in 0 .. m
      OBVIOUS
    <3>2. 0 \in 0 .. m
      OBVIOUS
    <3> QED BY <1>1, <3>1, <3>2
  <2>2. ASSUME NEW k \in 0 .. m PROVE Cut(l, k) \in cuts
    <3>1. CASE k = 0
      BY <1>1, <3>1
    <3>2. CASE k # 0
      <4>1. k \in 1 .. m
        BY <3>2
      <4> QED BY <1>1, <4>1
    <3> QED BY <3>1, <3>2
  <2> HIDE DEF cuts
  <2> QED BY <2>1, <2>2
<1>3. Complete(l)
  BY <1>1, ChainFacts DEF Complete
<1> HIDE DEF cuts
<1>4. {0, Len(binary)} \subseteq cuts
  <2>1. 0 \in 0 .. m /\ m \in 0 .. m
    OBVIOUS
  <2> QED BY <1>1, <1>2, <2>1
<1>5. ASSUME NEW from \in cuts \ {Len(binary)}
      PROVE  \E to \in cuts : IsSection(from, to) /\ cuts \cap from + 1 .. to - 1 = {}
  <2>1. PICK j \in 0 .. m : from = Cut(l, j)
    BY <1>2
  <2>2. j # m
    BY <1>1, <2>1
  <2>3. j + 1 \in 1 .. m /\ j + 1 \in 0 .. m /\ (j + 1) - 1 = j
    BY <2>2
  <2>4. IsSection(from, Cut(l, j + 1))
    <3>1. IsSection(Cut(l, (j + 1) - 1), Cut(l, j + 1))
      BY <2>3, ChainFacts
    <3> QED BY <2>1, <2>3, <3>1
  <2>5. cuts \cap from + 1 .. Cut(l, j + 1) - 1 = {}
    <3> SUFFICES ASSUME NEW k \in 0 .. m, Cut(l, k) \in from + 1 .. Cut(l, j + 1) - 1 PROVE FALSE
      BY <1>2
    <3>1. Cut(l, k) \in Int /\ Cut(l, j) \in Int /\ Cut(l, j + 1) \in Int
      BY <1>1, <2>3, ChainFacts
    <3>2. Cut(l, j) < Cut(l, k) /\ Cut(l, k) < Cut(l, j + 1)
      BY <2>1, <3>1
    <3>3. CASE k <= j
      <4>1. k = j \/ k < j
        BY <3>3
      <4>2. k < j => Cut(l, k) < Cut(l, j)
        BY DEF Chain
      <4>3. Cut(l, k) = Cut(l, j) \/ Cut(l, k) < Cut(l, j)
        BY <4>1, <4>2
      <4> QED BY <3>1, <3>2, <4>3
    <3>4. CASE k > j
      <4>1. k = j + 1 \/ j + 1 < k
        BY <3>4
      <4>2. j + 1 < k => Cut(l, j + 1) < Cut(l, k)
        BY <2>3 DEF Chain
      <4>3. Cut(l, k) = Cut(l, j + 1) \/ Cut(l, j + 1) < Cut(l, k)
        BY <4>1, <4>2
      <4> QED BY <3>1, <3>2, <4>3
    <3> QED BY <3>3, <3>4
  <2>6. Cut(l, j + 1) \in cuts
    BY <1>2, <2>3
  <2> QED BY <2>4, <2>5, <2>6
<1>6. Tiled(cuts)
  BY <1>4, <1>5 DEF Tiled
<1> QED BY <1>3, <1>6 DEF cuts

(* ... and one that is torn is the beginning of none that does.            *)
LEMMA TornIsNotTiled ==
  ASSUME binary \in Bytes, NEW l \in Seq(Section(binary)), NEW m \in Nat, Chain(l, m), Torn(l, m)
  PROVE  /\ ~ Complete(l)
         /\ ~ \E c \in SUBSET (1 .. Len(binary) - 1) : Tiled(c \cup {0, Len(binary)})
<1>1. ~ Complete(l)
  <2>1. m + 1 \in DOMAIN l
    BY DEF Torn
  <2> QED BY <2>1 DEF Torn, Complete
<1>2. ASSUME NEW c \in SUBSET (1 .. Len(binary) - 1), Tiled(c \cup {0, Len(binary)}) PROVE FALSE
  <2> DEFINE cuts == c \cup {0, Len(binary)}
             G == {k \in 0 .. m : Cut(l, k) \in cuts}
  <2>1. Len(binary) \in Nat /\ cuts \subseteq 0 .. Len(binary)
    <3>1. Len(binary) \in Nat
      BY FilesAreBytes
    <3>2. \A x \in 1 .. Len(binary) - 1 : x \in 0 .. Len(binary)
      BY <3>1
    <3>3. 0 \in 0 .. Len(binary) /\ Len(binary) \in 0 .. Len(binary)
      BY <3>1
    <3> QED BY <3>1, <3>2, <3>3
  <2>2. \A from \in cuts \ {Len(binary)} : \E to \in cuts : IsSection(from, to)
    <3>1. \A from \in (c \cup {0, Len(binary)}) \ {Len(binary)} :
            \E to \in c \cup {0, Len(binary)} :
              IsSection(from, to) /\ (c \cup {0, Len(binary)}) \cap from + 1 .. to - 1 = {}
      BY <1>2, Zenon DEF Tiled
    <3> QED BY <3>1
  <2>3. 0 \in G
    BY ChainFacts
  <2>4. ASSUME NEW k \in 1 .. m, k - 1 \in G PROVE k \in G
    <3>1. Cut(l, k - 1) \in cuts /\ k - 1 \in 0 .. m /\ k \in 0 .. m
      BY <2>4
    <3> HIDE DEF G, cuts
    <3>2. /\ Cut(l, k - 1) < Cut(l, k) /\ Cut(l, k) \in 0 .. Len(binary)
          /\ Cut(l, k - 1) \in 0 .. Len(binary)
          /\ \A to : IsSection(Cut(l, k - 1), to) => to = Cut(l, k)
      BY <3>1, ChainFacts
    <3>3. Cut(l, k - 1) # Len(binary)
      BY <2>1, <3>2
    <3>4. PICK to \in cuts : IsSection(Cut(l, k - 1), to)
      BY <2>2, <3>1, <3>3
    <3>5. Cut(l, k) \in cuts
      BY <3>2, <3>4
    <3> QED BY <3>1, <3>5 DEF G
  <2>5. Cut(l, m) \in cuts
    <3> HIDE DEF G, cuts
    <3>1. 0 .. m \subseteq G
      BY <2>3, <2>4, AllUpto
    <3>2. m \in 0 .. m
      OBVIOUS
    <3> QED BY <3>1, <3>2 DEF G
  <2> HIDE DEF cuts
  <2>6. NoSection(Cut(l, m))
    BY DEF Torn
  <2>7. Cut(l, m) # Len(binary)
    BY <2>1, <2>6 DEF NoSection
  <2>8. PICK to \in cuts : IsSection(Cut(l, m), to)
    BY <2>2, <2>5, <2>7
  <2> QED BY <2>1, <2>6, <2>8 DEF NoSection
<1> QED BY <1>1, <1>2

-----------------------------------------------------------------------------
(* The parser goes along the same sections, and what it finds is the end   *)
(* of one of them.                                                         *)
EndOf(found, s) ==
  s.id = CustomId /\ found.to = s.end /\ found.from \in s.start + 2 .. found.to
Along(place, l, m) ==
  \/ place.found = Null /\ (place.at = Len(binary) \/ \E k \in 0 .. m : place.at = Cut(l, k))
  \/ place.at = Len(binary) /\ \E k \in 1 .. m : EndOf(place.found, l[k])

LEMMA NoneBehind ==
  ASSUME binary \in Bytes, NEW l, NEW m \in Nat, Chain(l, m), Whole(l, m) \/ Torn(l, m),
         NEW k \in 0 .. m, Cut(l, k) # Len(binary),
         NEW to \in 0 .. Len(binary), IsSection(Cut(l, k), to)
  PROVE  k + 1 \in 1 .. m /\ to = Cut(l, k + 1)
<1>1. k # m
  BY DEF Whole, Torn, NoSection
<1>2. k + 1 \in 1 .. m /\ (k + 1) - 1 = k
  BY <1>1
<1>3. IsSection(Cut(l, (k + 1) - 1), to) => to = Cut(l, k + 1)
  BY <1>2, ChainFacts
<1> QED BY <1>2, <1>3

LEMMA ParserFollows ==
  ASSUME binary \in Bytes, Proper, NEW l \in Seq(Section(binary)), NEW m \in Nat,
         Chain(l, m), Whole(l, m) \/ Torn(l, m),
         NEW place \in Place(binary), Along(place, l, m)
  PROVE  Along(NextSection(binary, place), l, m)
<1> DEFINE size == ReadVar(binary, place.at + 1)
           end == SectionEnd(place.at, size)
           name == ReadVar(binary, size.next)
           start == name.next + name.value
           q == NextSection(binary, place)
<1>1. Len(binary) \in Nat /\ place = [at |-> place.at, found |-> place.found]
  BY FilesAreBytes DEF Place
<1>2. CASE place.at = Len(binary)
  <2>1. q = place
    BY <1>2 DEF NextSection
  <2> QED BY <2>1
<1>3. CASE place.at # Len(binary)
  <2>1. PICK k \in 0 .. m : place.at = Cut(l, k)
    BY <1>3 DEF Along
  <2>2. place.found = Null
    BY <1>3 DEF Along
  <2>3. place.at \in 0 .. Len(binary) - 1
    <3>1. Cut(l, k) \in 0 .. Len(binary)
      BY ChainFacts
    <3> QED BY <1>1, <1>3, <2>1, <3>1
  <2> DEFINE strict == ReadStrict(binary, place.at + 1)
  <2>4. \/ /\ strict.ok /\ strict.next \in place.at + 2 .. strict.next + strict.value
           /\ strict.value \in Nat
           /\ IsSection(place.at, strict.next + strict.value)
           /\ size = [value |-> strict.value, next |-> strict.next]
        \/ size = [value |-> 0, next |-> Len(binary)]
    BY <2>3, SectionsAreRead
  <2>5. \/ q = [place EXCEPT !.at = Len(binary)]
        \/ /\ ~ (end > Len(binary)) /\ binary[place.at + 1] = CustomId /\ start <= end
           /\ name.value = 1
           /\ q = [at |-> Len(binary), found |-> [from |-> start, to |-> end]]
        \/ ~ (end > Len(binary)) /\ q = [place EXCEPT !.at = end]
    <3> HIDE DEF strict
    <3> QED BY <1>3, Zenon DEF NextSection
  <2>6. CASE q = [place EXCEPT !.at = Len(binary)]
    <3>1. q.at = Len(binary) /\ q.found = Null
      BY <1>1, <2>2, <2>6
    <3> HIDE DEF q
    <3> QED BY <3>1 DEF Along, q
  <2>7. CASE size = [value |-> 0, next |-> Len(binary)]
    <3>1. end = Len(binary)
      BY <1>1, <2>7 DEF SectionEnd
    <3>2. name.value = 0
      <4>1. name = ReadVar(binary, Len(binary)) /\ Len(binary) \in 0 .. Len(binary)
        BY <1>1, <2>7
      <4>2. /\ Run(binary, Len(binary)) < MaxBytes
            /\ Run(binary, Len(binary)) \in 0 .. Len(binary) - Len(binary)
        BY <4>1, RunsEnd DEF Proper
      <4>3. ~ (Len(binary) + (Run(binary, Len(binary)) + 1) <= Len(binary))
        BY <1>1, <4>2
      <4>4. ReadVar(binary, Len(binary)) = [value |-> 0, next |-> Len(binary)]
        BY <4>1, <4>2, <4>3, ReadersRead
      <4> QED BY <4>1, <4>4
    <3>3. q = [place EXCEPT !.at = Len(binary)]
      <4>1. 0 # 1
        OBVIOUS
      <4> HIDE DEF q, size, name, start, strict, end
      <4> QED BY <2>5, <3>1, <3>2, <4>1
    <3> QED BY <2>6, <3>3
  <2>8. CASE /\ strict.ok /\ strict.next \in place.at + 2 .. strict.next + strict.value
             /\ strict.value \in Nat
             /\ IsSection(place.at, strict.next + strict.value)
             /\ size = [value |-> strict.value, next |-> strict.next]
             /\ ~ (end > Len(binary))
    <3>1. size.next = strict.next /\ size.value = strict.value
      <4> HIDE DEF strict, size
      <4> QED BY <2>8
    <3>2. /\ size.next \in place.at + 2 .. size.next + size.value /\ size.value \in Nat
          /\ IsSection(place.at, end)
      <4> HIDE DEF strict, size
      <4> QED BY <2>8, <3>1 DEF SectionEnd
    <3>3. /\ size.next \in 0 .. Len(binary) /\ end \in 0 .. Len(binary)
      <4>1. end = size.next + size.value
        BY DEF SectionEnd
      <4> HIDE DEF size, end, strict
      <4> QED BY <1>1, <2>3, <2>8, <3>2, <4>1
    <3>4. /\ k + 1 \in 1 .. m /\ end = Cut(l, k + 1)
      <4>1. Cut(l, k) # Len(binary) /\ IsSection(Cut(l, k), end)
        BY <1>3, <2>1, <3>2
      <4> HIDE DEF end
      <4> QED BY <3>3, <4>1, NoneBehind
    <3>5. /\ l[k + 1].id = binary[place.at + 1] /\ l[k + 1].start = strict.next
          /\ end = l[k + 1].end
      <4>1. Piece(Cut(l, (k + 1) - 1), l[k + 1]) /\ (k + 1) - 1 = k
        BY <3>4 DEF Chain
      <4>2. Piece(place.at, l[k + 1])
        BY <2>1, <4>1
      <4>3. Cut(l, k + 1) = l[k + 1].end
        BY <3>4, ChainFacts
      <4> HIDE DEF end
      <4> QED BY <3>4, <4>2, <4>3 DEF Piece
    <3>6. CASE q = [place EXCEPT !.at = end]
      <4>1. q.at = Cut(l, k + 1) /\ q.found = Null
        <5> HIDE DEF end, q
        <5> QED BY <1>1, <2>2, <3>4, <3>6
      <4>2. k + 1 \in 0 .. m
        BY <3>4
      <4> HIDE DEF q
      <4> QED BY <4>1, <4>2 DEF Along, q
    <3>7. CASE /\ binary[place.at + 1] = CustomId /\ start <= end /\ name.value = 1
               /\ q = [at |-> Len(binary), found |-> [from |-> start, to |-> end]]
      <4>1. name.next > size.next /\ name.next \in size.next .. Len(binary)
        <5>1. LET r == ReadVar(binary, size.next) IN
                r.value \in Nat /\ r.next \in size.next .. Len(binary) /\ (r.value > 0 => r.next > size.next)
          BY <3>3, ReadersGoOn
        <5>2. name.value > 0
          BY <3>7
        <5> HIDE DEF size
        <5> QED BY <5>1, <5>2
      <4>2. start \in size.next + 2 .. end
        <5>1. start = name.next + 1
          BY <3>7
        <5>2. start <= end
          BY <3>7
        <5> HIDE DEF size, name, start, end, q, strict
        <5> QED BY <3>3, <4>1, <5>1, <5>2
      <4>3. q.found.from = start /\ q.found.to = end /\ q.at = Len(binary)
        <5> HIDE DEF size, name, start, end, q, strict
        <5> QED BY <3>7
      <4>4. EndOf(q.found, l[k + 1])
        <5>1. l[k + 1].id = CustomId
          BY <3>5, <3>7
        <5> HIDE DEF size, name, start, end, q, strict
        <5> QED BY <3>1, <3>5, <4>2, <4>3, <5>1 DEF EndOf
      <4> HIDE DEF q
      <4> QED BY <3>4, <4>3, <4>4 DEF Along, q
    <3>8. CASE q = [place EXCEPT !.at = Len(binary)]
      BY <2>6, <3>8
    <3> HIDE DEF size, name, start, end, q, strict
    <3>9. Along(q, l, m)
      BY <2>5, <3>6, <3>7, <3>8 DEF q
    <3> QED BY <3>9 DEF q
  <2>9. CASE end > Len(binary)
    <3>1. q = [place EXCEPT !.at = Len(binary)]
      <4> HIDE DEF size, name, start, end, q, strict
      <4> QED BY <2>5, <2>9
    <3> QED BY <2>6, <3>1
  <2> HIDE DEF size, name, start, end, q, strict
  <2>10. Along(q, l, m)
    BY <2>4, <2>7, <2>8, <2>9 DEF q
  <2> QED BY <2>10 DEF q
<1> QED BY <1>2, <1>3

-----------------------------------------------------------------------------
(* What has been read, or nothing yet.                                     *)
HasRead == binary \in File /\ section = Extract(binary) /\ estimate = Estimate(binary)

LEMMA ParserAgrees ==
  ASSUME binary \in Bytes, Proper, NEW l \in Seq(Section(binary)), NEW m \in Nat,
         Chain(l, m), Whole(l, m) \/ Torn(l, m), Extract(binary) # Null
  PROVE  \E k \in 1 .. m : EndOf(Extract(binary), l[k])
<1>1. PICK w \in [0 .. MaxSections -> Place(binary)] :
        /\ w[0] = StartPlace
        /\ \A i \in 1 .. MaxSections : w[i] = NextSection(binary, w[i - 1])
        /\ Extract(binary) = w[MaxSections].found
  BY PlaceRounds
<1>2. MaxSections \in Nat /\ MaxSections \in 0 .. MaxSections /\ 0 \in 0 .. MaxSections
  BY ReaderAssumption
<1> DEFINE G == {i \in 0 .. MaxSections : Along(w[i], l, m)}
<1>3. 0 \in G
  <2>1. w[0].found = Null /\ w[0].at = Cut(l, 0) /\ 0 \in 0 .. m
    BY <1>1 DEF StartPlace, Cut
  <2> QED BY <1>2, <2>1 DEF Along
<1>4. ASSUME NEW n \in 1 .. MaxSections, n - 1 \in G PROVE n \in G
  <2>1. n - 1 \in 0 .. MaxSections /\ n \in 0 .. MaxSections /\ Along(w[n - 1], l, m)
    BY <1>4
  <2>2. w[n - 1] \in Place(binary) /\ w[n] = NextSection(binary, w[n - 1])
    BY <1>1, <2>1
  <2>3. Along(w[n], l, m)
    BY <2>1, <2>2, ParserFollows
  <2> QED BY <2>1, <2>3
<1>5. Along(w[MaxSections], l, m)
  <2> HIDE DEF G
  <2>1. 0 .. MaxSections \subseteq G
    BY <1>2, <1>3, <1>4, AllUpto
  <2>2. MaxSections \in G
    BY <1>2, <2>1
  <2> QED BY <2>2 DEF G
<1> QED BY <1>1, <1>5 DEF Along

LEMMA ReadersAgreeOnFiles ==
  ASSUME HasRead
  PROVE  ReadersAgree
<1>1. binary \in Bytes /\ section = Extract(binary)
  BY FilesAreBytes DEF HasRead
<1> SUFFICES ASSUME Proper
             PROVE  LET sections == Sections(binary)
                        cuts == {0} \cup {sections[i].end : i \in DOMAIN sections}
                    IN
                    /\ IF Complete(sections) THEN Tiled(cuts)
                       ELSE ~ \E c \in SUBSET (1 .. Len(binary) - 1) : Tiled(c \cup {0, Len(binary)})
                    /\ section # Null =>
                         \E i \in DOMAIN sections :
                           /\ sections[i] # BrokenSection /\ sections[i].id = CustomId
                           /\ section.to = sections[i].end
                           /\ section.from \in sections[i].start + 2 .. section.to
  BY Zenon DEF ReadersAgree
<1> DEFINE l == Sections(binary)
<1>2. l \in Seq(Section(binary)) /\ \E m \in Nat : Chain(l, m) /\ (Whole(l, m) \/ Torn(l, m))
  BY <1>1, Listed
<1> HIDE DEF l
<1>3. PICK m \in Nat : Chain(l, m) /\ (Whole(l, m) \/ Torn(l, m))
  BY <1>2
<1>4. 1 .. m \subseteq DOMAIN l
  <2>1. Len(l) \in Nat /\ DOMAIN l = 1 .. Len(l)
    BY <1>2
  <2>2. Len(l) = m \/ Len(l) = m + 1
    BY <1>3 DEF Whole, Torn
  <2>3. \A i \in 1 .. m : i \in 1 .. Len(l)
    <3>1. \A n \in Nat : n = m \/ n = m + 1 => \A i \in 1 .. m : i \in 1 .. n
      OBVIOUS
    <3> QED BY ONLY <2>1, <2>2, <3>1
  <2> QED BY <2>1, <2>3
<1>5. IF Complete(l) THEN Tiled({0} \cup {l[i].end : i \in DOMAIN l})
      ELSE ~ \E c \in SUBSET (1 .. Len(binary) - 1) : Tiled(c \cup {0, Len(binary)})
  <2>1. CASE Whole(l, m)
    <3>1. Complete(l) /\ Tiled({0} \cup {l[i].end : i \in DOMAIN l})
      BY <1>1, <1>2, <1>3, <2>1, WholeIsTiled
    <3> QED BY <3>1
  <2>2. CASE Torn(l, m)
    <3>1. /\ ~ Complete(l)
          /\ ~ \E c \in SUBSET (1 .. Len(binary) - 1) : Tiled(c \cup {0, Len(binary)})
      BY <1>1, <1>2, <1>3, <2>2, TornIsNotTiled
    <3> QED BY <3>1, Zenon
  <2> QED BY <1>3, <2>1, <2>2
<1>6. ASSUME section # Null
      PROVE  \E i \in DOMAIN l : /\ l[i] # BrokenSection /\ l[i].id = CustomId
                                 /\ section.to = l[i].end
                                 /\ section.from \in l[i].start + 2 .. section.to
  <2>1. PICK k \in 1 .. m : EndOf(Extract(binary), l[k])
    BY <1>1, <1>2, <1>3, <1>6, ParserAgrees
  <2>2. l[k] # BrokenSection
    BY <1>1, <1>3, ChainFacts
  <2>3. l[k].id = CustomId /\ section.to = l[k].end /\ section.from \in l[k].start + 2 .. section.to
    BY <1>1, <2>1 DEF EndOf
  <2> QED BY <1>4, <2>2, <2>3
<1> QED BY <1>5, <1>6, Zenon DEF l

LEMMA EstimatesHold ==
  ASSUME HasRead
  PROVE  /\ estimate.valid \in BOOLEAN /\ {estimate.total, estimate.read} \subseteq Nat
         /\ BodiesAreRead
<1> DEFINE l == Sections(binary)
           code == {i \in DOMAIN l : l[i].id = CodeId}
           first == CHOOSE i \in code : \A j \in code : i <= j
           bodies == BodySizes(binary, l[first].start)
<1>1. binary \in Bytes /\ estimate = Estimate(binary)
  BY FilesAreBytes DEF HasRead
<1>2. l \in Seq(Section(binary))
  <2>1. PICK w \in [0 .. Len(binary) -> Reader(binary)] : l = w[Len(binary)].list
    BY <1>1, ReaderRounds
  <2>2. Len(binary) \in 0 .. Len(binary)
    BY <1>1, FilesAreBytes
  <2> HIDE DEF l
  <2> QED BY <2>1, <2>2 DEF Reader
<1>3. estimate \in {Invalid, NoCode} \/
      (code # {} /\ bodies.ok /\ estimate = [valid |-> TRUE, total |-> bodies.value,
                                             read |-> bodies.next - l[first].start])
  <2> SUFFICES ASSUME estimate \notin {Invalid, NoCode}
               PROVE  code # {} /\ bodies.ok /\ estimate = [valid |-> TRUE, total |-> bodies.value,
                                                             read |-> bodies.next - l[first].start]
    OBVIOUS
  <2> QED BY <1>1, Zenon DEF Estimate
<1>4. CASE estimate \in {Invalid, NoCode}
  <2>1. estimate.total = 0 /\ estimate.read = 0
    BY <1>4 DEF Invalid, NoCode
  <2>2. estimate = NoCode \/ estimate.valid = FALSE
    BY <1>4 DEF Invalid
  <2>3. estimate.valid \in BOOLEAN
    <3>1. NoCode.valid = TRUE
      BY DEF NoCode
    <3> QED BY <2>2, <3>1
  <2> QED BY <2>1, <2>2, <2>3 DEF BodiesAreRead
<1>5. CASE /\ code # {} /\ bodies.ok
           /\ estimate = [valid |-> TRUE, total |-> bodies.value,
                          read |-> bodies.next - l[first].start]
  <2> HIDE DEF l
  <2>1. first \in code
    <3>1. code \in SUBSET Nat
      BY <1>2
    <3>2. \E n \in code : \A j \in code : n <= j
      <4> HIDE DEF code
      <4> QED BY <1>5, <3>1, LeastNumber
    <3> HIDE DEF code
    <3> QED BY <3>2
  <2>2. l[first] \in Section(binary)
    <3> HIDE DEF first
    <3>1. first \in 1 .. Len(l)
      BY <1>2, <2>1
    <3> QED BY <1>2, <3>1
  <2> HIDE DEF first, code
  <2>3. l[first].start \in Nat
    <3>1. Len(binary) \in Nat /\ l[first].start \in 0 .. Len(binary)
      BY <1>1, <2>2, FilesAreBytes DEF Section
    <3> QED BY <3>1
  <2>4. bodies \in Ahead(l[first].start)
    BY <1>1, <2>3, BodiesAhead
  <2> HIDE DEF bodies
  <2>5. bodies.next > l[first].start + bodies.value
    BY <1>5, <2>4 DEF Ahead
  <2>6. bodies.value \in Nat /\ bodies.next \in Nat
    BY <2>4 DEF Ahead, Size
  <2>7. estimate.total = bodies.value /\ estimate.read = bodies.next - l[first].start
        /\ estimate.valid = TRUE
    BY <1>5
  <2>8. estimate.total \in Nat /\ estimate.read \in Nat /\ estimate.total < estimate.read
    <3> HIDE DEF BodiesAreRead
    <3> QED BY <2>3, <2>5, <2>6, <2>7
  <2> QED BY <2>7, <2>8 DEF BodiesAreRead
<1> QED BY <1>3, <1>4, <1>5

(* Whatever file they are given, the two readers take it apart in the same *)
(* way, as its numbers say, and what is measured of a code section is less *)
(* than what was read of it: wasm-parser and wasm-resource-estimator, for  *)
(* every width of numbers and every alphabet.                              *)
THEOREM ReadersHold == ReaderSpec => []ReaderInv
<1> DEFINE I == ReaderInit \/ HasRead
<1>1. ReaderInit => I
  BY DEF ReaderInit
<1>2. I /\ [ReaderNext]_readerVars => I'
  <2> SUFFICES ASSUME I, [ReaderNext]_readerVars PROVE I'
    OBVIOUS
  <2>1. CASE ReaderNext
    <3>1. PICK bytes \in File : ReadBinary(bytes)
      BY <2>1 DEF ReaderNext
    <3>2. binary' = bytes /\ section' = Extract(binary') /\ estimate' = Estimate(binary')
      BY <3>1 DEF ReadBinary
    <3> QED BY <3>2 DEF HasRead
  <2>2. CASE UNCHANGED readerVars
    BY <2>2 DEF readerVars, ReaderInit, HasRead
  <2> QED BY <2>1, <2>2
<1>3. I => ReaderInv
  <2>1. CASE ReaderInit
    <3>1. /\ binary = <<>> /\ section.from = 0 /\ section.to = 0 /\ estimate.valid = TRUE
          /\ estimate.total = 0 /\ estimate.read = 0 /\ Len(<<>>) = 0 /\ estimate = NoCode
      BY <2>1 DEF ReaderInit, Null, NoCode
    <3>2. ReaderTypeOK
      <4>1. estimate.valid \in BOOLEAN
        BY <3>1
      <4>2. section.from \in 0 .. Len(binary) /\ section.to \in section.from .. Len(binary)
        BY <3>1
      <4>3. binary \in File \cup {<<>>} /\ {estimate.total, estimate.read} \subseteq Nat
        BY <3>1
      <4> QED BY <4>1, <4>2, <4>3 DEF ReaderTypeOK
    <3> QED BY <3>1, <3>2 DEF ReaderInv, ReadersAgree, BodiesAreRead
  <2>2. CASE HasRead
    <3>1. section \in Found(binary) /\ Len(binary) \in Nat
      <4>1. binary \in Bytes /\ section = Extract(binary) /\ Len(binary) \in Nat
        BY <2>2, FilesAreBytes DEF HasRead
      <4>2. PICK w \in [0 .. MaxSections -> Place(binary)] : Extract(binary) = w[MaxSections].found
        BY <4>1, PlaceRounds
      <4>3. MaxSections \in 0 .. MaxSections
        BY ReaderAssumption
      <4>4. w[MaxSections] \in Place(binary)
        BY <4>3
      <4>5. w[MaxSections].found \in Found(binary)
        BY <4>4 DEF Place
      <4> QED BY <4>1, <4>2, <4>5
    <3>2. section.from \in 0 .. Len(binary) /\ section.to \in section.from .. Len(binary)
      BY <3>1 DEF Found
    <3>3. binary \in File
      BY <2>2 DEF HasRead
    <3>4. ReaderTypeOK
      BY <2>2, <3>2, <3>3, EstimatesHold DEF ReaderTypeOK
    <3> QED BY <2>2, <3>4, ReadersAgreeOnFiles, EstimatesHold DEF ReaderInv
  <2> QED BY <2>1, <2>2
<1> QED BY <1>1, <1>2, <1>3, PTL DEF ReaderSpec
=============================================================================
