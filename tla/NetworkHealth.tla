---------------------------- MODULE NetworkHealth ----------------------------
(***************************************************************************)
(* The health of the networks as the API tells it                          *)
(* (modules/health/network-health.service.ts): probes of the networks'     *)
(* endpoints, shared by whoever asks while one is under way, and their     *)
(* payloads, offline ones included, cached for a while.  A payload is      *)
(* identified by the moment its probe began.                               *)
(***************************************************************************)
EXTENDS Naturals

CONSTANTS
  HealthNetwork,
  Visitor,      \* concurrent requests for the health of some networks
  HealthTtl,    \* CACHE_TTL_MS
  ProbeTimeout, \* PROBE_TIMEOUT_MS
  MaxHealthTime \* bound on the clock

ASSUME HealthAssumption ==
  /\ HealthTtl \in Nat \ {0} /\ ProbeTimeout \in Nat \ {0} /\ MaxHealthTime \in Nat

VARIABLES
  time,    \* Date.now()
  payload, \* payload[n]: the cached payload's stamp and expiry, if any
  probes,  \* the probes under way: of which network, and since when
  shared,  \* the networks whose probe the inflight map holds
  waits    \* waits[v]: the networks whose payloads request v still waits for

healthVars == <<time, payload, probes, shared, waits>>

Probe == [of : HealthNetwork, since : Nat]

HealthInit ==
  /\ time = 1
  /\ payload = [n \in HealthNetwork |-> [asOf |-> 0, expiresAt |-> 0]]
  /\ probes = {} /\ shared = {}
  /\ waits = [v \in Visitor |-> {}]

(* Mutant: a cached payload is good until it is replaced. *)
CachedForEver(n) == payload[n].expiresAt > 0

Cached(n) == time < payload[n].expiresAt

(* getHealth of one network, or of all (getAllHealth): what is cached is   *)
(* answered at once, what is being probed is awaited, the rest is probed.  *)
Ask(v, N) ==
  LET missing == {n \in N : ~ Cached(n)} IN
  /\ waits[v] = {} /\ waits' = [waits EXCEPT ![v] = missing]
  /\ probes' = probes \cup [of : missing \ shared, since : {time}]
  /\ shared' = shared \cup missing
  /\ UNCHANGED <<time, payload>>

(* Mutant: the entry of a probe is never deleted. *)
ForgetsNever(n) == UNCHANGED shared

Forgets(n) == shared' = shared \ {n}

(* Mutant: the payload is stamped with its expiry. *)
StampedAhead(p) == [asOf |-> time + HealthTtl, expiresAt |-> time + HealthTtl]

Stamped(p) == [asOf |-> p.since, expiresAt |-> time + HealthTtl]

(* A probe ends, whether or not the endpoint answered: an exception is an  *)
(* offline payload, so that whoever waits has an answer and never an error.*)
ProbeEnds(p) ==
  /\ payload' = [payload EXCEPT ![p.of] = Stamped(p)]
  /\ probes' = probes \ {p}
  /\ Forgets(p.of)
  /\ waits' = [v \in Visitor |-> waits[v] \ {p.of}]
  /\ UNCHANGED time

(* The AbortController ends a probe in time. *)
HealthTick ==
  /\ time < MaxHealthTime /\ time' = time + 1
  /\ \A p \in probes : time < p.since + ProbeTimeout
  /\ UNCHANGED <<payload, probes, shared, waits>>

HealthNext ==
  \/ \E v \in Visitor, n \in HealthNetwork : Ask(v, {n})
  \/ \E v \in Visitor : Ask(v, HealthNetwork)
  \/ \E p \in probes : ProbeEnds(p)
  \/ HealthTick

HealthSpec == HealthInit /\ [][HealthNext]_healthVars

-----------------------------------------------------------------------------
(* The payloads, the probes and the requests have their types.             *)
HealthTypeOK ==
  /\ time \in Nat
  /\ payload \in [HealthNetwork -> [asOf : 0 .. time, expiresAt : Nat]]
  /\ probes \subseteq [of : HealthNetwork, since : 1 .. time]
  /\ shared \subseteq HealthNetwork /\ waits \in [Visitor -> SUBSET HealthNetwork]

(* A network is probed once at a time, by whomever it is asked for, and    *)
(* everyone who waits for it waits for a probe that is under way.          *)
OneProbeForAll ==
  /\ \A p, q \in probes : p.of = q.of => p = q
  /\ \A v \in Visitor : waits[v] \subseteq {p.of : p \in probes}

(* What is told of a network is no older than a probe and the time it is   *)
(* cached for: an outage shows within both.                                *)
HealthIsRecent ==
  \A n \in HealthNetwork : Cached(n) => time <= payload[n].asOf + ProbeTimeout + HealthTtl

(* Together: one probe serves all who wait, and what they are told is      *)
(* recent.                                                                 *)
HealthInv ==
  /\ HealthTypeOK /\ OneProbeForAll /\ HealthIsRecent
=============================================================================
