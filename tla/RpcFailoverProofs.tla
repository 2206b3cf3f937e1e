-------------------------- MODULE RpcFailoverProofs --------------------------
(***************************************************************************)
(* Proofs about RpcFailover for every set of endpoints and requests and    *)
(* every threshold, cooldown and timeout.  The circuit breaker's claims    *)
(* rest on IInv.                                                           *)
(***************************************************************************)
EXTENDS RpcFailover, FiniteSetTheorems, TLAPS

LEMMA RemainderIsNumber ==
  ASSUME NEW a \in Nat, NEW n \in Nat, n > 0
  PROVE  a % n \in Nat
OBVIOUS

LEMMA StampsInThePast ==
  ASSUME TypeOK
  PROVE  0 <= now /\ ClosedCircuit.openedAt <= now
BY DEF TypeOK, ClosedCircuit, Never

(* The list of getEndpoints is a list: every endpoint has a place in it. *)
LEMMA PlacesAreNumbers ==
  ASSUME TypeOK, NEW e \in Endpoint
  PROVE  PlaceOf(e) \in Nat
<1>1. \A S \in SUBSET Endpoint : IsFiniteSet(S) /\ Cardinality(S) \in Nat
  BY FailoverAssumption, FS_Subset, FS_CardinalityType
<1>2. Cardinality(Healthy) \in Nat
  BY <1>1 DEF Healthy
<1>3. \A S \in SUBSET Endpoint : Before(e, S) \in Nat
  <2>1. TAKE S \in SUBSET Endpoint
  <2>2. {f \in S : Index[f] < Index[e]} \in SUBSET Endpoint
    OBVIOUS
  <2> QED BY <2>2, <1>1 DEF Before
<1>4. Before(e, Healthy) \in Nat /\ Before(e, Endpoint \ Healthy) \in Nat
  BY <1>3 DEF Healthy
<1>5. \A k, n \in Nat : Rotated(k, n) \in Nat
  <2>1. SUFFICES ASSUME NEW k \in Nat, NEW n \in Nat PROVE Rotated(k, n) \in Nat
    OBVIOUS
  <2>2. CASE n > 1 /\ roundRobin < n
    <3>1. k + n - roundRobin \in Nat
      BY <2>2 DEF TypeOK
    <3>2. Rotated(k, n) = (k + n - roundRobin) % n
      BY <2>2 DEF Rotated
    <3> QED BY <3>1, <3>2, <2>2, RemainderIsNumber
  <2>3. CASE ~ (n > 1 /\ roundRobin < n)
    BY <2>3 DEF Rotated
  <2> QED BY <2>2, <2>3
<1>6. Rotated(Before(e, Healthy), Cardinality(Healthy)) \in Nat
  BY <1>2, <1>4, <1>5
<1> QED BY <1>2, <1>4, <1>6 DEF PlaceOf

(* What the loop leaves behind, whether it sends to another endpoint or    *)
(* ends: c holds the circuits as the loop finds them, r is on its way.     *)
LEMMA LoopKeepsInvariant ==
  ASSUME TypeOK,
         NEW r \in Request, NEW list \in SUBSET Endpoint,
         NEW order \in [Endpoint -> Nat], NEW c \in [Endpoint -> Circuit],
         NEW otherwise \in Outcome,
         \A e \in Endpoint : c[e].openedAt <= now,
         \A s \in Request \ {r} : url[s] # NoEndpoint => Tracked(s, c[url[s]]),
         \A e \in Endpoint : c[e].probing => \E s \in Request \ {r} : Probing(s, e),
         TryNext(r, list, order, c, otherwise),
         now' = now, endpoints' \in [Endpoint -> EndpointState], roundRobin' \in Nat
  PROVE  IInv'
<1>1. CASE EndRequest(r, otherwise) /\ circuits' = c
  <2>1. TypeOK'
    BY <1>1 DEF EndRequest, TypeOK, NoPlaces
  <2>2. PermitComesBack'
    BY <1>1 DEF EndRequest, TypeOK, PermitComesBack, Probing
  <2>3. RequestsTracked'
    BY <1>1 DEF EndRequest, TypeOK, RequestsTracked, Tracked
  <2> QED BY <2>1, <2>2, <2>3 DEF IInv
<1>2. ASSUME NEW e \in Endpoint, CanRequest(c[e]), SendTo(r, e, list, order, c)
      PROVE  IInv'
  <2>1. Admitted(c[e]) \in Circuit /\ Admitted(c[e]).openedAt = c[e].openedAt
    BY DEF Admitted, Circuit
  <2>2. circuits' \in [Endpoint -> Circuit]
    BY <1>2, <2>1 DEF SendTo
  <2>3. \A f \in Endpoint : circuits'[f].openedAt = c[f].openedAt
    BY <1>2, <2>1 DEF SendTo
  <2>4. \A f \in Endpoint : c[f].probing => circuits'[f].probing
    BY <1>2 DEF SendTo, Admitted, Circuit
  <2>5. TypeOK'
    <3>1. /\ url' \in [Request -> Endpoint \cup {NoEndpoint}]
          /\ untried' \in [Request -> SUBSET Endpoint]
          /\ place' \in [Request -> [Endpoint -> Nat]]
      BY <1>2 DEF SendTo, TypeOK
    <3>2. /\ sentAt' \in [Request -> Nat] /\ \A s \in Request : sentAt'[s] <= now'
          /\ probe' \in [Request -> BOOLEAN]
      BY <1>2 DEF SendTo, TypeOK
    <3>3. outcome' \in [Request -> Outcome]
      BY <1>2 DEF SendTo, TypeOK, Outcome
    <3>4. \A f \in Endpoint : circuits'[f].openedAt <= now'
      BY <2>3
    <3> QED BY <2>2, <3>1, <3>2, <3>3, <3>4 DEF TypeOK
  <2>6. PermitComesBack'
    <3>1. SUFFICES ASSUME NEW f \in Endpoint, circuits'[f].probing
                   PROVE  \E s \in Request : Probing(s, f)'
      BY DEF PermitComesBack
    <3>2. CASE c[f].probing
      BY <3>2, <1>2 DEF SendTo, Probing, TypeOK
    <3>3. CASE ~ c[f].probing
      <4>1. f = e /\ State(c[e]) = "half-open"
        BY <3>1, <3>3, <1>2 DEF SendTo, Admitted
      <4> QED BY <4>1, <1>2 DEF SendTo, Probing, TypeOK
    <3> QED BY <3>2, <3>3
  <2>7. RequestsTracked'
    <3>1. SUFFICES ASSUME NEW s \in Request, url'[s] # NoEndpoint
                   PROVE  Tracked(s, circuits[url[s]])'
      BY DEF RequestsTracked
    <3>2. CASE s # r
      <4>1. /\ url'[s] = url[s] /\ sentAt'[s] = sentAt[s] /\ probe'[s] = probe[s]
            /\ url[s] \in Endpoint
        BY <3>1, <3>2, <1>2 DEF SendTo, TypeOK
      <4> QED BY <4>1, <3>1, <3>2, <2>3, <2>4 DEF Tracked
    <3>3. CASE s = r
      <4>1. /\ url'[r] = e /\ sentAt'[r] = now
            /\ probe'[r] = (State(c[e]) = "half-open")
        BY <1>2 DEF SendTo, TypeOK
      <4>2. now <= now + Timeout[r]
        BY FailoverAssumption DEF TypeOK
      <4>3. c[e].openedAt # Never => now >= c[e].openedAt + CircuitCooldown
        BY <1>2, FailoverAssumption DEF CanRequest, State, TypeOK, Circuit, Never
      <4>4. State(c[e]) = "half-open" => circuits'[e].probing
        BY <1>2 DEF SendTo, Admitted, Circuit
      <4> QED BY <4>1, <4>2, <4>3, <4>4, <3>3, <2>3 DEF Tracked
    <3> QED BY <3>2, <3>3
  <2> QED BY <2>5, <2>6, <2>7 DEF IInv
<1> QED BY <1>1, <1>2 DEF TryNext

LEMMA InitInv == Init => IInv
BY FailoverAssumption DEF Init, IInv, TypeOK, PermitComesBack, RequestsTracked,
   ClosedCircuit, Circuit, HealthyState, EndpointState, NoPlaces, Never, Outcome

(* Turning the list keeps the failover table and the rotation well-typed. *)
LEMMA TurningKeepsTypes ==
  ASSUME TypeOK, ListTurned
  PROVE  endpoints' \in [Endpoint -> EndpointState] /\ roundRobin' \in Nat
<1>1. endpoints' \in [Endpoint -> EndpointState]
  BY DEF ListTurned, Recovered, TypeOK, HealthyState, EndpointState
<1>2. roundRobin' \in Nat
  <2>1. Cardinality(Healthy) \in Nat
    BY FailoverAssumption, FS_Subset, FS_CardinalityType DEF Healthy
  <2> DEFINE n == Cardinality(Healthy)
  <2>2. roundRobin' = IF n > 1 THEN (roundRobin + 1) % n ELSE roundRobin
    BY DEF ListTurned
  <2>3. roundRobin \in Nat
    BY DEF TypeOK
  <2> HIDE DEF n
  <2>4. n \in Nat
    BY <2>1 DEF n
  <2> QED BY <2>2, <2>3, <2>4, RemainderIsNumber
<1> QED BY <1>1, <1>2

LEMMA BeginKeepsInv ==
  ASSUME IInv, NEW r \in Request, Begin(r)
  PROVE  IInv'
<1>1. TypeOK
  BY DEF IInv
<1>2. endpoints' \in [Endpoint -> EndpointState]
  BY <1>1, TurningKeepsTypes DEF Begin
<1>3. roundRobin' \in Nat
  BY <1>1, TurningKeepsTypes DEF Begin
<1>4. [e \in Endpoint |-> PlaceOf(e)] \in [Endpoint -> Nat]
  BY <1>1, PlacesAreNumbers
<1>5. \A e \in Endpoint : circuits[e].probing => \E s \in Request \ {r} : Probing(s, e)
  <2>1. \A e \in Endpoint : ~ Probing(r, e)
    BY FailoverAssumption DEF Begin, Probing
  <2> QED BY <2>1 DEF IInv, PermitComesBack
<1>6. \A s \in Request \ {r} : url[s] # NoEndpoint => Tracked(s, circuits[url[s]])
  BY DEF IInv, RequestsTracked
<1>7. /\ TryNext(r, Endpoint, [e \in Endpoint |-> PlaceOf(e)], circuits, "circuit open")
      /\ now' = now
  BY DEF Begin
<1>8. /\ circuits \in [Endpoint -> Circuit] /\ "circuit open" \in Outcome
      /\ Endpoint \in SUBSET Endpoint
      /\ \A e \in Endpoint : circuits[e].openedAt <= now
  BY <1>1 DEF TypeOK, Outcome
<1> HIDE DEF Outcome
<1> QED BY <1>1, <1>2, <1>3, <1>4, <1>5, <1>6, <1>7, <1>8, LoopKeepsInvariant

LEMMA AnswerKeepsInv ==
  ASSUME IInv, NEW r \in Request, NEW status \in {"ok", "server error"}, Answer(r, status)
  PROVE  IInv'
<1>1. TypeOK
  BY DEF IInv
<1>2. TypeOK'
  <2>1. /\ circuits' \in [Endpoint -> Circuit] /\ \A e \in Endpoint : circuits'[e].openedAt <= now'
        /\ endpoints' \in [Endpoint -> EndpointState]
    <3>1. /\ ClosedCircuit \in Circuit /\ ClosedCircuit.openedAt <= now
          /\ HealthyState \in EndpointState
      <4>1. ClosedCircuit.openedAt <= now
        BY <1>1, StampsInThePast
      <4>2. ClosedCircuit \in Circuit /\ HealthyState \in EndpointState
        BY DEF ClosedCircuit, Circuit, HealthyState, EndpointState
      <4> QED BY <4>1, <4>2
    <3>2. /\ circuits' = [circuits EXCEPT ![url[r]] = ClosedCircuit]
          /\ endpoints' = [endpoints EXCEPT ![url[r]] = HealthyState]
          /\ now' = now
      BY DEF Answer
    <3> QED BY <3>1, <3>2, <1>1 DEF TypeOK
  <2>2. /\ url' \in [Request -> Endpoint \cup {NoEndpoint}]
        /\ untried' \in [Request -> SUBSET Endpoint]
        /\ place' \in [Request -> [Endpoint -> Nat]]
    BY <1>1 DEF Answer, EndRequest, TypeOK, NoPlaces
  <2>3. /\ sentAt' \in [Request -> Nat] /\ \A s \in Request : sentAt'[s] <= now'
        /\ probe' \in [Request -> BOOLEAN] /\ outcome' \in [Request -> Outcome]
    <3>1. status \in Outcome
      BY DEF Outcome
    <3>2. EndRequest(r, status) /\ now' = now
      BY DEF Answer
    <3>3. outcome' \in [Request -> Outcome]
      BY <1>1, <3>1, <3>2 DEF EndRequest, TypeOK
    <3>4. sentAt' \in [Request -> Nat] /\ \A s \in Request : sentAt'[s] <= now'
      <4>1. now \in Nat /\ sentAt \in [Request -> Nat] /\ \A s \in Request : sentAt[s] <= now
        BY <1>1 DEF TypeOK
      <4>2. sentAt' = [sentAt EXCEPT ![r] = 0]
        BY <3>2 DEF EndRequest
      <4>3. 0 <= now
        BY <1>1, StampsInThePast
      <4> QED BY <4>1, <4>2, <4>3, <3>2
    <3>5. probe' \in [Request -> BOOLEAN]
      BY <1>1, <3>2 DEF EndRequest, TypeOK
    <3> QED BY <3>3, <3>4, <3>5
  <2>4. now' \in Nat /\ roundRobin' \in Nat
    BY <1>1 DEF Answer, TypeOK
  <2> QED BY <2>1, <2>2, <2>3, <2>4 DEF TypeOK
<1>3. PermitComesBack'
  BY <1>1 DEF IInv, PermitComesBack, Answer, EndRequest, Probing, TypeOK, ClosedCircuit
<1>4. RequestsTracked'
  BY <1>1 DEF IInv, RequestsTracked, Tracked, Answer, EndRequest, TypeOK, ClosedCircuit
<1> QED BY <1>2, <1>3, <1>4 DEF IInv

LEMMA FailKeepsInv ==
  ASSUME IInv, NEW r \in Request, Fail(r)
  PROVE  IInv'
<1> DEFINE e == url[r]
           c == [circuits EXCEPT ![e] = CircuitFailed(circuits[e])]
<1>1. TypeOK /\ e \in Endpoint
  BY DEF IInv, TypeOK, Fail
<1>2. /\ CircuitFailed(circuits[e]) \in Circuit
      /\ CircuitFailed(circuits[e]).openedAt \in {now, Never}
      /\ ~ CircuitFailed(circuits[e]).probing
  BY <1>1 DEF CircuitFailed, Circuit, TypeOK, Never
<1>3. /\ c \in [Endpoint -> Circuit]
      /\ \A f \in Endpoint : c[f].openedAt <= now
  BY <1>1, <1>2 DEF TypeOK, Never
<1>4. endpoints' \in [Endpoint -> EndpointState]
  BY <1>1, FailoverAssumption DEF Fail, EndpointFailed, EndpointState, TypeOK
<1>5. \A s \in Request \ {r} : url[s] # NoEndpoint => Tracked(s, c[url[s]])
  <2>1. SUFFICES ASSUME NEW s \in Request \ {r}, url[s] # NoEndpoint
                 PROVE  Tracked(s, c[url[s]])
    OBVIOUS
  <2>2. Tracked(s, circuits[url[s]]) /\ url[s] \in Endpoint /\ sentAt[s] <= now /\ sentAt[s] \in Nat
    BY <2>1, <1>1 DEF IInv, RequestsTracked, TypeOK
  <2>3. CASE url[s] # e
    BY <2>2, <2>3, <1>1 DEF TypeOK
  <2>4. CASE url[s] = e
    BY <2>2, <2>4, <1>1, <1>2 DEF TypeOK, Tracked
  <2> QED BY <2>3, <2>4
<1>6. \A f \in Endpoint : c[f].probing => \E s \in Request \ {r} : Probing(s, f)
  <2>1. SUFFICES ASSUME NEW f \in Endpoint, c[f].probing
                 PROVE  \E s \in Request \ {r} : Probing(s, f)
    OBVIOUS
  <2>2. f # e /\ circuits[f].probing
    BY <2>1, <1>1, <1>2 DEF TypeOK
  <2> QED BY <2>2 DEF IInv, PermitComesBack, Probing
<1>7. /\ TryNext(r, untried[r], place[r], c, "failed")
      /\ now' = now /\ roundRobin' \in Nat
  BY <1>1 DEF Fail, TypeOK
<1>8. untried[r] \in SUBSET Endpoint /\ place[r] \in [Endpoint -> Nat] /\ "failed" \in Outcome
  BY <1>1 DEF TypeOK, Outcome
<1> HIDE DEF e, c
<1> QED BY <1>1, <1>3, <1>4, <1>5, <1>6, <1>7, <1>8, LoopKeepsInvariant

LEMMA CachedKeepsInv ==
  ASSUME IInv, AnsweredFromCache
  PROVE  IInv'
<1>1. TypeOK
  BY DEF IInv
<1>2. endpoints' \in [Endpoint -> EndpointState] /\ roundRobin' \in Nat
  BY <1>1, TurningKeepsTypes DEF AnsweredFromCache
<1>3. UNCHANGED <<now, circuits, url, untried, place, sentAt, probe, outcome>>
  BY DEF AnsweredFromCache, requestVars
<1>4. TypeOK'
  BY <1>1, <1>2, <1>3 DEF TypeOK
<1>5. PermitComesBack' /\ RequestsTracked'
  BY <1>3 DEF IInv, PermitComesBack, RequestsTracked, Tracked, Probing
<1> QED BY <1>4, <1>5 DEF IInv

LEMMA TickKeepsInv ==
  ASSUME IInv, Tick
  PROVE  IInv'
<1>1. TypeOK
  BY DEF IInv
<1>2. TypeOK'
  BY <1>1, SMTT(30) DEF Tick, TypeOK, requestVars, tables, Circuit, Never
<1>3. PermitComesBack'
  BY DEF IInv, PermitComesBack, Tick, Probing, requestVars, tables
<1>4. RequestsTracked'
  BY <1>1, FailoverAssumption DEF IInv, RequestsTracked, Tracked, Tick, TypeOK, requestVars, tables
<1> QED BY <1>2, <1>3, <1>4 DEF IInv

LEMMA StepKeepsInv == IInv /\ [Next]_vars => IInv'
<1>1. SUFFICES ASSUME IInv, [Next]_vars
               PROVE  IInv'
  OBVIOUS
<1>2. CASE UNCHANGED vars
  BY <1>1, <1>2 DEF IInv, TypeOK, PermitComesBack, RequestsTracked, Tracked, Probing,
     vars, requestVars, tables
<1>3. CASE Next
  BY <1>1, <1>3, BeginKeepsInv, AnswerKeepsInv, FailKeepsInv, CachedKeepsInv,
     TickKeepsInv DEF Next
<1> QED BY <1>1, <1>2, <1>3

(* The invariant of the failover loop. *)
THEOREM InvariantHolds == Spec => []IInv
BY InitInv, StepKeepsInv, PTL DEF Spec

(* Both tables and all requests keep their types, and no stamp lies ahead. *)
THEOREM TypeCorrect == Spec => []TypeOK
<1>1. IInv => TypeOK
  BY DEF IInv
<1> QED BY <1>1, InvariantHolds, PTL

(* The permit of a half-open circuit is always given back by the test      *)
(* request that holds it, so an endpoint is never refused for ever.        *)
THEOREM PermitsComeBack == Spec => []PermitComesBack
<1>1. IInv => PermitComesBack
  BY DEF IInv
<1> QED BY <1>1, InvariantHolds, PTL

(* What is in flight to an endpoint whose circuit is open was sent before  *)
(* the circuit opened.                                                     *)
THEOREM OpenCircuitsDrain == Spec => []OpenCircuitDrains
<1>1. IInv => OpenCircuitDrains
  <2>1. SUFFICES ASSUME IInv, NEW e \in Endpoint, NEW r \in Request,
                        IsOpen(e), InFlight(r, e)
                 PROVE  sentAt[r] <= circuits[e].openedAt
    BY DEF OpenCircuitDrains
  <2>2. Tracked(r, circuits[e]) /\ sentAt[r] \in Nat /\ sentAt[r] <= now /\ now \in Nat
    BY <2>1, FailoverAssumption DEF IInv, RequestsTracked, InFlight, TypeOK
  <2>3. circuits[e].openedAt # Never /\ circuits[e].openedAt \in Nat
        /\ now - circuits[e].openedAt < CircuitCooldown
    BY <2>1, FailoverAssumption DEF IsOpen, State, IInv, TypeOK, Circuit, Never
  <2> QED BY <2>2, <2>3, FailoverAssumption DEF Tracked
<1> QED BY <1>1, InvariantHolds, PTL

(* A new test request finds another one in flight only if the circuit has  *)
(* opened again since that one was sent, and been open for a cooldown.     *)
LEMMA StepKeepsProbesApart ==
  ASSUME IInv, IInv', ProbesApart, [Next]_vars
  PROVE  ProbesApart'
<1>1. TypeOK /\ now \in Nat
  BY DEF IInv, TypeOK
<1>2. ASSUME NEW r \in Request, NEW list, NEW order, NEW otherwise, NEW c \in [Endpoint -> Circuit],
             TryNext(r, list, order, c, otherwise), list \subseteq Endpoint,
             \A s \in Request \ {r} : url[s] # NoEndpoint => Tracked(s, c[url[s]])
      PROVE  ProbesApart'
  <2>1. CASE EndRequest(r, otherwise)
    BY <2>1, <1>1, FailoverAssumption DEF ProbesApart, Probing, EndRequest, TypeOK
  <2>2. ASSUME NEW e \in Endpoint, CanRequest(c[e]), SendTo(r, e, list, order, c)
        PROVE  ProbesApart'
    <3>1. /\ url' = [url EXCEPT ![r] = e]
          /\ probe' = [probe EXCEPT ![r] = State(c[e]) = "half-open"]
          /\ sentAt' = [sentAt EXCEPT ![r] = now]
      BY <2>2 DEF SendTo
    <3>2. \A s \in Request \ {r} :
            url'[s] = url[s] /\ probe'[s] = probe[s] /\ sentAt'[s] = sentAt[s]
      BY <3>1, <1>1 DEF TypeOK
    <3>3. ASSUME NEW s \in Request \ {r}, Probing(s, e), State(c[e]) = "half-open"
          PROVE  now >= sentAt[s] + CircuitCooldown
      <4>1. Tracked(s, c[e]) /\ probe[s] /\ sentAt[s] \in Nat
        BY <3>3, <1>2, <1>1, FailoverAssumption DEF Probing, TypeOK
      <4>2. /\ ~ c[e].probing /\ c[e].openedAt # Never /\ c[e].openedAt \in Nat
            /\ now - c[e].openedAt >= CircuitCooldown
        BY <3>3, <2>2, <1>1, FailoverAssumption DEF CanRequest, State, Circuit
      <4>3. sentAt[s] <= c[e].openedAt
        BY <4>1, <4>2 DEF Tracked
      <4> QED BY <4>1, <4>2, <4>3, <1>1, FailoverAssumption
    <3>4. url'[r] = e /\ probe'[r] = (State(c[e]) = "half-open") /\ sentAt'[r] = now
      BY <3>1, <1>1 DEF TypeOK
    <3>5. ASSUME NEW f \in Endpoint, NEW s \in Request, NEW t \in Request, s # t,
                 Probing(s, f)', Probing(t, f)'
          PROVE  \/ sentAt'[s] >= sentAt'[t] + CircuitCooldown
                 \/ sentAt'[t] >= sentAt'[s] + CircuitCooldown
      <4>1. CASE s # r /\ t # r
        BY <3>2, <3>5, <4>1 DEF ProbesApart, Probing
      <4>2. CASE s = r
        <5>1. f = e /\ State(c[e]) = "half-open" /\ Probing(t, e) /\ t \in Request \ {r}
          BY <3>2, <3>4, <3>5, <4>2 DEF Probing
        <5>2. now >= sentAt[t] + CircuitCooldown
          BY <3>3, <5>1
        <5> QED BY <3>2, <3>4, <4>2, <5>1, <5>2
      <4>3. CASE t = r
        <5>1. f = e /\ State(c[e]) = "half-open" /\ Probing(s, e) /\ s \in Request \ {r}
          BY <3>2, <3>4, <3>5, <4>3 DEF Probing
        <5>2. now >= sentAt[s] + CircuitCooldown
          BY <3>3, <5>1
        <5> QED BY <3>2, <3>4, <4>3, <5>1, <5>2
      <4> QED BY <4>1, <4>2, <4>3
    <3> QED BY <3>5 DEF ProbesApart
  <2> QED BY <1>2, <2>1, <2>2 DEF TryNext
<1>3. ASSUME NEW r \in Request, Begin(r)
      PROVE  ProbesApart'
  <2>1. circuits \in [Endpoint -> Circuit]
    BY <1>1 DEF TypeOK
  <2>2. \A s \in Request \ {r} : url[s] # NoEndpoint => Tracked(s, circuits[url[s]])
    BY DEF IInv, RequestsTracked
  <2> QED BY <1>3, <2>1, <2>2, <1>2 DEF Begin
<1>4. ASSUME NEW r \in Request, Fail(r)
      PROVE  ProbesApart'
  <2> DEFINE c == [circuits EXCEPT ![url[r]] = CircuitFailed(circuits[url[r]])]
  <2>1. url[r] \in Endpoint
    BY <1>4, <1>1 DEF TypeOK, Fail
  <2>2. /\ CircuitFailed(circuits[url[r]]) \in Circuit
        /\ CircuitFailed(circuits[url[r]]).openedAt \in {now, Never}
    BY <1>1, <2>1 DEF CircuitFailed, Circuit, TypeOK, Never
  <2>3. c \in [Endpoint -> Circuit]
    BY <1>1, <2>1, <2>2 DEF TypeOK
  <2>4. \A s \in Request \ {r} : url[s] # NoEndpoint => Tracked(s, c[url[s]])
    <3>1. SUFFICES ASSUME NEW s \in Request \ {r}, url[s] # NoEndpoint
                   PROVE  Tracked(s, c[url[s]])
      OBVIOUS
    <3>2. Tracked(s, circuits[url[s]]) /\ url[s] \in Endpoint /\ sentAt[s] <= now
      BY <3>1, <1>1 DEF IInv, RequestsTracked, TypeOK
    <3>3. CASE url[s] # url[r]
      BY <3>2, <3>3, <1>1 DEF TypeOK
    <3>4. CASE url[s] = url[r]
      BY <3>2, <3>4, <1>1, <2>1, <2>2 DEF TypeOK, Tracked
    <3> QED BY <3>3, <3>4
  <2>5. TryNext(r, untried[r], place[r], c, "failed") /\ untried[r] \subseteq Endpoint
    BY <1>4, <1>1 DEF Fail, TypeOK
  <2> HIDE DEF c
  <2> QED BY <2>3, <2>4, <2>5, <1>2
<1>5. ASSUME NEW r \in Request, NEW status, Answer(r, status)
      PROVE  ProbesApart'
  BY <1>5, <1>1, FailoverAssumption DEF Answer, EndRequest, ProbesApart, Probing, TypeOK
<1>6. CASE AnsweredFromCache \/ Tick \/ UNCHANGED vars
  BY <1>6 DEF ProbesApart, Probing, AnsweredFromCache, Tick, vars, requestVars, tables
<1> QED BY <1>3, <1>4, <1>5, <1>6 DEF Next

(* Two test requests of one endpoint are a cooldown apart, however long    *)
(* the timeouts are and whichever reports about other requests clear the   *)
(* flag that keeps a second one out.                                       *)
THEOREM ProbesAreApart == Spec => []ProbesApart
<1>1. Init => ProbesApart
  BY FailoverAssumption DEF Init, ProbesApart, Probing
<1>2. IInv /\ IInv' /\ ProbesApart /\ [Next]_vars => ProbesApart'
  BY StepKeepsProbesApart
<1> QED BY <1>1, <1>2, InvariantHolds, PTL DEF Spec

-----------------------------------------------------------------------------
(* The failover list.  Counting the elements of S before one of them gives *)
(* each a number below the size of S, and the order of Index.              *)
LEMMA FiniteParts ==
  ASSUME NEW S \in SUBSET Endpoint
  PROVE  IsFiniteSet(S) /\ Cardinality(S) \in Nat
BY FailoverAssumption, FS_Subset, FS_CardinalityType

LEMMA BeforeIsBelow ==
  ASSUME NEW S \in SUBSET Endpoint, NEW e \in S
  PROVE  Before(e, S) \in Nat /\ Before(e, S) < Cardinality(S)
<1> DEFINE T == {f \in S : Index[f] < Index[e]}
<1>1. T \subseteq S \ {e}
  BY FailoverAssumption
<1>2. /\ IsFiniteSet(S) /\ IsFiniteSet(S \ {e}) /\ Cardinality(S) \in Nat
      /\ Cardinality(S \ {e}) = Cardinality(S) - 1
  BY FiniteParts, FS_RemoveElement
<1>3. Cardinality(T) <= Cardinality(S \ {e}) /\ Cardinality(T) \in Nat
  BY <1>1, <1>2, FiniteParts, FS_Subset
<1> QED BY <1>2, <1>3 DEF Before

LEMMA BeforeIsOrdered ==
  ASSUME NEW S \in SUBSET Endpoint, NEW e \in S, NEW f \in S, Index[e] < Index[f]
  PROVE  Before(e, S) < Before(f, S)
<1> DEFINE T == {g \in S : Index[g] < Index[f]}
<1>1. T \in SUBSET Endpoint /\ e \in T
  OBVIOUS
<1>2. {g \in S : Index[g] < Index[e]} = {g \in T : Index[g] < Index[e]}
  BY FailoverAssumption
<1>3. Before(e, S) = Before(e, T) /\ Before(f, S) = Cardinality(T)
  BY <1>2 DEF Before
<1> HIDE DEF T
<1> QED BY <1>1, <1>3, BeforeIsBelow

LEMMA BeforeTellsApart ==
  ASSUME NEW S \in SUBSET Endpoint, NEW e \in S, NEW f \in S, Before(e, S) = Before(f, S)
  PROVE  e = f
<1>1. Before(e, S) \in Nat
  BY BeforeIsBelow
<1>2. ~ Index[e] < Index[f] /\ ~ Index[f] < Index[e]
  BY <1>1, BeforeIsOrdered
<1> QED BY <1>2, FailoverAssumption

(* The rotation permutes the places of the healthy endpoints, whatever the *)
(* index.                                                                  *)
LEMMA RotatedPermutes ==
  ASSUME roundRobin \in Nat, NEW n \in Nat, NEW k \in 0 .. n - 1
  PROVE  /\ Rotated(k, n) \in 0 .. n - 1
         /\ n > 1 /\ roundRobin < n =>
              Rotated(k, n) = IF k < roundRobin THEN k + n - roundRobin ELSE k - roundRobin
<1>1. CASE n > 1 /\ roundRobin < n
  <2>1. Rotated(k, n) = (k + n - roundRobin) % n
    BY <1>1 DEF Rotated
  <2>2. CASE k < roundRobin
    <3>1. (k + n - roundRobin) % n = k + n - roundRobin
      BY <1>1, <2>2
    <3> QED BY <2>1, <2>2, <3>1
  <2>3. CASE k >= roundRobin
    <3>1. (k + n - roundRobin) % n = k - roundRobin
      BY <1>1, <2>3
    <3> QED BY <1>1, <2>1, <2>3, <3>1
  <2> QED BY <2>2, <2>3
<1>2. CASE ~ (n > 1 /\ roundRobin < n)
  BY <1>2 DEF Rotated
<1> QED BY <1>1, <1>2

LEMMA RotatedTellsApart ==
  ASSUME roundRobin \in Nat, NEW n \in Nat, NEW k \in 0 .. n - 1, NEW l \in 0 .. n - 1,
         Rotated(k, n) = Rotated(l, n)
  PROVE  k = l
<1>1. CASE n > 1 /\ roundRobin < n
  BY <1>1, RotatedPermutes, SMTT(30)
<1>2. CASE ~ (n > 1 /\ roundRobin < n)
  BY <1>2 DEF Rotated
<1> QED BY <1>1, <1>2

LEMMA TypedListIsComplete == TypeOK => ListIsComplete
<1> SUFFICES ASSUME TypeOK PROVE ListIsComplete
  OBVIOUS
<1> DEFINE h == Cardinality(Healthy)
           Rest == Endpoint \ Healthy
<1>1. Healthy \in SUBSET Endpoint /\ Rest \in SUBSET Endpoint /\ roundRobin \in Nat
  BY DEF Healthy, TypeOK
<1>2. h \in Nat /\ Cardinality(Rest) \in Nat /\ h + Cardinality(Rest) = Cardinality(Endpoint)
  <2>1. IsFiniteSet(Healthy) /\ IsFiniteSet(Rest) /\ h \in Nat /\ Cardinality(Rest) \in Nat
    BY <1>1, FiniteParts
  <2>2. Healthy \cup Rest = Endpoint /\ Healthy \cap Rest = {}
    BY <1>1
  <2>3. Cardinality(Endpoint) = h + Cardinality(Rest) - Cardinality({})
    BY <2>1, <2>2, FS_Union
  <2> QED BY <2>1, <2>3, FS_EmptySet
<1>3. ASSUME NEW e \in Healthy
      PROVE  /\ Before(e, Healthy) \in 0 .. h - 1
             /\ PlaceOf(e) = Rotated(Before(e, Healthy), h) /\ PlaceOf(e) \in 0 .. h - 1
  <2>1. Before(e, Healthy) \in 0 .. h - 1
    BY <1>1, <1>2, BeforeIsBelow
  <2>2. Rotated(Before(e, Healthy), h) \in 0 .. h - 1
    BY <1>1, <1>2, <2>1, RotatedPermutes
  <2> QED BY <2>1, <2>2 DEF PlaceOf
<1>4. ASSUME NEW e \in Rest
      PROVE  /\ Before(e, Rest) \in 0 .. Cardinality(Rest) - 1
             /\ PlaceOf(e) = h + Before(e, Rest)
  <2>1. Before(e, Rest) \in 0 .. Cardinality(Rest) - 1
    BY <1>1, <1>2, BeforeIsBelow
  <2> QED BY <2>1 DEF PlaceOf
<1> HIDE DEF h, Rest
<1>5. ASSUME NEW e \in Healthy, NEW f \in Healthy, PlaceOf(e) = PlaceOf(f) PROVE e = f
  <2>1. Before(e, Healthy) = Before(f, Healthy)
    BY <1>1, <1>2, <1>3, <1>5, RotatedTellsApart
  <2> QED BY <1>1, <2>1, BeforeTellsApart
<1>6. ASSUME NEW e \in Rest, NEW f \in Rest, PlaceOf(e) = PlaceOf(f) PROVE e = f
  <2>1. Before(e, Rest) = Before(f, Rest)
    BY <1>2, <1>4, <1>6
  <2> QED BY <1>1, <2>1, BeforeTellsApart
<1>7. \A e \in Healthy : PlaceOf(e) < h
  BY <1>2, <1>3
<1>8. \A e \in Endpoint : e \in Healthy \/ e \in Rest
  BY DEF Rest
<1> DEFINE n == Cardinality(Endpoint)
           placing == [e \in Endpoint |-> PlaceOf(e)]
<1>9. n \in Nat /\ \A e \in Endpoint : PlaceOf(e) \in 0 .. n - 1
  BY <1>2, <1>3, <1>4, <1>8
<1>10. \A e, f \in Endpoint : PlaceOf(e) = PlaceOf(f) => e = f
  <2>1. ASSUME NEW e \in Healthy, NEW f \in Rest PROVE PlaceOf(e) # PlaceOf(f)
    BY <1>2, <1>3, <1>4
  <2> QED BY <1>5, <1>6, <1>8, <2>1
<1>11. {PlaceOf(e) : e \in Endpoint} = 0 .. n - 1
  <2>1. placing \in Injection(Endpoint, 0 .. n - 1)
    BY <1>9, <1>10 DEF Injection, IsInjective
  <2>2. IsFiniteSet(0 .. n - 1) /\ Cardinality(0 .. n - 1) = n
    BY <1>9, FS_Interval
  <2> HIDE DEF placing
  <2>3. placing \in Surjection(Endpoint, 0 .. n - 1)
    BY <2>1, <2>2, FS_Injection
  <2>4. \A k \in 0 .. n - 1 : \E e \in Endpoint : placing[e] = k
    BY <2>3 DEF Surjection
  <2> QED BY <1>9, <2>4 DEF placing
<1> QED BY <1>7, <1>11 DEF ListIsComplete, h

(* The list of getEndpoints names every endpoint once and the healthy ones *)
(* first, for any rotation index, however old.                             *)
THEOREM ListsAreComplete == Spec => []ListIsComplete
<1>1. IInv => ListIsComplete
  BY TypedListIsComplete DEF IInv
<1> QED BY <1>1, InvariantHolds, PTL
=============================================================================
