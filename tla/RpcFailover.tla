----------------------------- MODULE RpcFailover -----------------------------
(***************************************************************************)
(* How the RPC proxy of apps/api picks an upstream endpoint: the failover  *)
(* list (modules/rpc/rpc-failover.service.ts), the circuit breakers        *)
(* (lib/circuit-breaker.ts) and the loop that uses both                    *)
(* (RpcService.fetchWithFailover), for one network.                        *)
(*                                                                         *)
(* A request sends to one endpoint at a time and awaits its answer; what   *)
(* runs between two awaits is one action.  Many requests are in flight at  *)
(* once and all read and write the two tables, so a report may be about a  *)
(* request sent long before the table's present state.  Time is modelled:  *)
(* the cooldowns and the request timeouts are what the two tables rely on. *)
(***************************************************************************)
EXTENDS Integers, FiniteSets

CONSTANTS
  Endpoint,          \* upstream URLs of the network
  NoEndpoint,        \* not an endpoint
  Index,             \* Index[e]: the place of e in RPC_ENDPOINTS_<network>
  Request,           \* proxied requests that may be in flight at once
  Timeout,           \* Timeout[r]: the timeoutMs of the method r calls
  CircuitThreshold, CircuitCooldown,  \* DEFAULT_CIRCUIT_OPTIONS
  FailureThreshold, FailoverCooldown, \* FAILURE_THRESHOLD, DEFAULT_COOLDOWN_MS
  MaxTime            \* bound on the clock

ASSUME FailoverAssumption ==
  /\ NoEndpoint \notin Endpoint /\ IsFiniteSet(Endpoint)
  /\ Index \in [Endpoint -> Nat]
  /\ \A e, f \in Endpoint : Index[e] = Index[f] => e = f
  /\ Timeout \in [Request -> Nat \ {0}]
  /\ CircuitThreshold \in Nat \ {0} /\ CircuitCooldown \in Nat \ {0}
  /\ FailureThreshold \in Nat \ {0} /\ FailoverCooldown \in Nat \ {0}
  /\ MaxTime \in Nat

VARIABLES
  now,         \* Date.now()
  circuits,    \* circuits[e]: the circuit breaker of e
  endpoints,   \* endpoints[e]: the failover state of e
  roundRobin,  \* roundRobinIndices of the network
  url,         \* url[r]: the endpoint r awaits, or NoEndpoint
  untried,     \* untried[r]: the endpoints r has not come to yet
  place,       \* place[r]: the place of each endpoint in the list r got
  sentAt,      \* sentAt[r]: when r sent to url[r]
  probe,       \* probe[r]: r was let through a half-open circuit
  outcome      \* outcome[r]: how r ended

tables == <<circuits, endpoints>>
requestVars == <<url, untried, place, sentAt, probe, outcome>>
vars == <<now, tables, roundRobin, requestVars>>

Never == -1
Circuit == [failures : Nat, openedAt : Nat \cup {Never}, probing : BOOLEAN]
ClosedCircuit == [failures |-> 0, openedAt |-> Never, probing |-> FALSE]

EndpointState == [failures : Nat, degradedUntil : Nat]
HealthyState == [failures |-> 0, degradedUntil |-> 0]

NoPlaces == [e \in Endpoint |-> 0]

Init ==
  /\ now = 0
  /\ circuits = [e \in Endpoint |-> ClosedCircuit]
  /\ endpoints = [e \in Endpoint |-> HealthyState]
  /\ roundRobin = 0
  /\ url = [r \in Request |-> NoEndpoint]
  /\ untried = [r \in Request |-> {}]
  /\ place = [r \in Request |-> NoPlaces]
  /\ sentAt = [r \in Request |-> 0]
  /\ probe = [r \in Request |-> FALSE]
  /\ outcome = [r \in Request |-> "none"]

-----------------------------------------------------------------------------
(* The circuit breaker. *)
State(c) ==
  IF c.openedAt = Never THEN "closed"
  ELSE IF now - c.openedAt >= CircuitCooldown THEN "half-open" ELSE "open"

(* Mutants: an open circuit lets requests through; a half-open one lets    *)
(* any number through.                                                     *)
CanRequestOpen(c) == ~ c.probing
CanRequestManyProbes(c) == State(c) # "open"

CanRequest(c) ==
  \/ State(c) = "closed"
  \/ State(c) = "half-open" /\ ~ c.probing

(* What canRequest leaves behind when it lets a request through. *)
Admitted(c) == IF State(c) = "half-open" THEN [c EXCEPT !.probing = TRUE] ELSE c

(* Mutants: openedAt holds the end of the cooldown instead of its start; a *)
(* failed probe does not give its permit back.                             *)
CircuitFailedStampsEnd(c) ==
  [failures |-> c.failures + 1,
   openedAt |-> IF c.openedAt # Never \/ c.failures + 1 >= CircuitThreshold
                THEN now + CircuitCooldown ELSE Never,
   probing |-> FALSE]
CircuitFailedKeepsProbing(c) ==
  [failures |-> c.failures + 1,
   openedAt |-> IF c.openedAt # Never \/ c.failures + 1 >= CircuitThreshold
                THEN now ELSE Never,
   probing |-> c.probing]

(* recordFailure; recordSuccess leaves ClosedCircuit. *)
CircuitFailed(c) ==
  [failures |-> c.failures + 1,
   openedAt |-> IF c.openedAt # Never \/ c.failures + 1 >= CircuitThreshold
                THEN now ELSE Never,
   probing |-> FALSE]

-----------------------------------------------------------------------------
(* The failover list: healthy endpoints first, rotated by roundRobin, then *)
(* the degraded ones, each group in its configured order.                  *)
IsHealthy(e) == endpoints[e].degradedUntil = 0 \/ now > endpoints[e].degradedUntil
Healthy == {e \in Endpoint : IsHealthy(e)}

Before(e, S) == Cardinality({f \in S : Index[f] < Index[e]})

(* Mutant: the rotation forgets to wrap around. *)
RotatedUnwrapped(k, n) == IF roundRobin <= k THEN k - roundRobin ELSE k

Rotated(k, n) == IF n > 1 /\ roundRobin < n THEN (k + n - roundRobin) % n ELSE k

PlaceOf(e) ==
  IF e \in Healthy
  THEN Rotated(Before(e, Healthy), Cardinality(Healthy))
  ELSE Cardinality(Healthy) + Before(e, Endpoint \ Healthy)

(* getEndpoints forgives every endpoint whose cooldown is over. *)
Recovered ==
  [e \in Endpoint |->
     IF IsHealthy(e) /\ endpoints[e].degradedUntil > 0 THEN HealthyState ELSE endpoints[e]]

EndpointFailed(h) ==
  [failures |-> h.failures + 1,
   degradedUntil |-> IF h.failures + 1 >= FailureThreshold
                     THEN now + FailoverCooldown ELSE h.degradedUntil]

-----------------------------------------------------------------------------
(* fetchWithFailover: send to the first endpoint of the list whose circuit *)
(* lets the request through, or end when there is none.                    *)
EndRequest(r, result) ==
  /\ url' = [url EXCEPT ![r] = NoEndpoint]
  /\ untried' = [untried EXCEPT ![r] = {}]
  /\ place' = [place EXCEPT ![r] = NoPlaces]
  /\ sentAt' = [sentAt EXCEPT ![r] = 0]
  /\ probe' = [probe EXCEPT ![r] = FALSE]
  /\ outcome' = [outcome EXCEPT ![r] = result]

SendTo(r, e, list, order, c) ==
  /\ url' = [url EXCEPT ![r] = e]
  /\ untried' = [untried EXCEPT ![r] = {f \in list : order[f] > order[e]}]
  /\ place' = [place EXCEPT ![r] = order]
  /\ sentAt' = [sentAt EXCEPT ![r] = now]
  /\ probe' = [probe EXCEPT ![r] = State(c[e]) = "half-open"]
  /\ outcome' = [outcome EXCEPT ![r] = "none"]
  /\ circuits' = [c EXCEPT ![e] = Admitted(c[e])]

TryNext(r, list, order, c, otherwise) ==
  LET open == {e \in list : CanRequest(c[e])} IN
  \/ open = {} /\ EndRequest(r, otherwise) /\ circuits' = c
  \/ \E e \in open :
       /\ \A f \in open : order[e] <= order[f]
       /\ SendTo(r, e, list, order, c)

(* getEndpoints: forgive, and move the rotation on. *)
ListTurned ==
  /\ endpoints' = Recovered
  /\ roundRobin' = LET n == Cardinality(Healthy)
                   IN IF n > 1 THEN (roundRobin + 1) % n ELSE roundRobin

(* proxy, up to the first await. *)
Begin(r) ==
  /\ url[r] = NoEndpoint
  /\ ListTurned
  /\ TryNext(r, Endpoint, [e \in Endpoint |-> PlaceOf(e)], circuits, "circuit open")
  /\ UNCHANGED now

(* proxy asks for the list before it looks in the cache, so a request that *)
(* is answered from the cache, or joins a call in flight, turns it too.    *)
AnsweredFromCache ==
  /\ ListTurned
  /\ UNCHANGED <<now, circuits, requestVars>>

(* The upstream answered: fetchUpstream returns whatever the status is.    *)
Answer(r, status) ==
  LET e == url[r] IN
  /\ e # NoEndpoint
  /\ circuits' = [circuits EXCEPT ![e] = ClosedCircuit]
  /\ endpoints' = [endpoints EXCEPT ![e] = HealthyState]
  /\ EndRequest(r, status)
  /\ UNCHANGED <<now, roundRobin>>

(* A network error, or the abort of the timeout. *)
Fail(r) ==
  LET e == url[r] IN
  /\ e # NoEndpoint
  /\ endpoints' = [endpoints EXCEPT ![e] = EndpointFailed(endpoints[e])]
  /\ TryNext(r, untried[r], place[r],
             [circuits EXCEPT ![e] = CircuitFailed(circuits[e])], "failed")
  /\ UNCHANGED <<now, roundRobin>>

(* Time passes, but no request outlives its timeout. *)
Tick ==
  /\ now < MaxTime
  /\ \A r \in Request : url[r] # NoEndpoint => now < sentAt[r] + Timeout[r]
  /\ now' = now + 1
  /\ UNCHANGED <<tables, roundRobin, requestVars>>

Next ==
  \/ \E r \in Request :
       \/ Begin(r) \/ Fail(r)
       \/ \E status \in {"ok", "server error"} : Answer(r, status)
  \/ AnsweredFromCache
  \/ Tick

Spec == Init /\ [][Next]_vars

-----------------------------------------------------------------------------
InFlight(r, e) == url[r] = e
Probing(r, e) == url[r] = e /\ probe[r]
IsOpen(e) == State(circuits[e]) = "open"

Outcome == {"none", "ok", "server error", "failed", "circuit open"}

(* The clock, the two tables and the requests have their types, and no     *)
(* time stamp is in the future.                                            *)
TypeOK ==
  /\ now \in Nat
  /\ circuits \in [Endpoint -> Circuit] /\ \A e \in Endpoint : circuits[e].openedAt <= now
  /\ endpoints \in [Endpoint -> EndpointState]
  /\ roundRobin \in Nat
  /\ url \in [Request -> Endpoint \cup {NoEndpoint}]
  /\ untried \in [Request -> SUBSET Endpoint]
  /\ place \in [Request -> [Endpoint -> Nat]]
  /\ sentAt \in [Request -> Nat] /\ \A r \in Request : sentAt[r] <= now
  /\ probe \in [Request -> BOOLEAN]
  /\ outcome \in [Request -> Outcome]

(* Half-open: exactly one test request until it reports back (lines 54-57  *)
(* of circuit-breaker.ts).  Any other report clears the flag that says so, *)
(* but none lets a second test request through before the cooldown is over *)
(* once more: of two that are out, one has waited for that long.  Every    *)
(* timeout is below the cooldown but that of simulateTransaction, which is *)
(* equal, so even then the second is sent when the first times out.        *)
ProbesApart ==
  \A e \in Endpoint : \A r, s \in Request :
    Probing(r, e) /\ Probing(s, e) /\ r # s =>
      \/ sentAt[r] >= sentAt[s] + CircuitCooldown
      \/ sentAt[s] >= sentAt[r] + CircuitCooldown

(* The permit of a half-open circuit is never lost: while it is taken, a   *)
(* test request is in flight that will give it back.  Were it lost, the    *)
(* endpoint would be refused for ever.                                     *)
PermitComesBack ==
  \A e \in Endpoint : circuits[e].probing => \E r \in Request : Probing(r, e)

(* An open circuit only drains: what is still in flight was sent before it *)
(* opened.                                                                 *)
OpenCircuitDrains ==
  \A e \in Endpoint : \A r \in Request :
    IsOpen(e) /\ InFlight(r, e) => sentAt[r] <= circuits[e].openedAt

(* What keeps these true between two awaits, for a request r in flight to  *)
(* an endpoint whose circuit is c: r has not outlived its timeout; it was  *)
(* sent before the circuit opened or once it was half-open; and a test     *)
(* request still has its permit unless a later report closed the circuit   *)
(* or opened it anew.                                                      *)
Tracked(r, c) ==
  /\ now <= sentAt[r] + Timeout[r]
  /\ c.openedAt # Never =>
       sentAt[r] <= c.openedAt \/ sentAt[r] >= c.openedAt + CircuitCooldown
  /\ probe[r] => c.probing \/ c.openedAt = Never \/ sentAt[r] <= c.openedAt

RequestsTracked == \A r \in Request : url[r] # NoEndpoint => Tracked(r, circuits[url[r]])

IInv == TypeOK /\ PermitComesBack /\ RequestsTracked

(* The list getEndpoints returns fills each of its places once, the first  *)
(* ones with the healthy endpoints, although the rotation index was        *)
(* computed for an earlier set of them and may lie beyond this one.        *)
ListIsComplete ==
  /\ {PlaceOf(e) : e \in Endpoint} = 0 .. Cardinality(Endpoint) - 1
  /\ \A e \in Healthy : PlaceOf(e) < Cardinality(Healthy)

(* rpc-proxy-failover.spec.ts: a 5xx answer makes the proxy try the next   *)
(* endpoint of the list.                                                   *)
ServerErrorFailsOver ==
  [][\A r \in Request :
       url[r] # NoEndpoint /\ outcome'[r] = "server error" => untried[r] = {}]_vars
=============================================================================
