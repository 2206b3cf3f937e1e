------------------------------ MODULE MCServices ------------------------------
(***************************************************************************)
(* The services of the API that keep their state in memory, the dead-      *)
(* letter jobs and the audit trail, in one run; beside them the pages that *)
(* look one thing up, the readers of WASM files and the token the console  *)
(* is tried with.  They share no state, so a behaviour is one of a single  *)
(* part, and the others stay where they begin.                             *)
(***************************************************************************)
EXTENDS MCRpcFailover, RpcCache, RateLimits, NetworkHealth, DeadLetters,
        AuditLog, LookupPages, WasmReader, TokenFixture

CONSTANTS ledger, simulation

VARIABLE service

serviceVars == <<vars, cacheVars, limitVars, healthVars, letterVars, auditVars,
                 lookVars, readerVars, tokenVars, service>>

(* The bytes 0, 1 and 2, and two that say that another follows. *)
ByteOf(more, low) == [more |-> more, low |-> low]
Zero == ByteOf(FALSE, {})
One == ByteOf(FALSE, {0})
Two == ByteOf(FALSE, {1})
Alphabet == {Zero, One, Two, ByteOf(TRUE, {}), ByteOf(TRUE, {0})}

Amounts == {-1, 1, 2}

ServicesInit ==
  /\ service \in {"failover", "cache", "limits", "health", "letters", "audit",
                  "lookup", "reader", "token"}
  /\ Init /\ CacheInit /\ LimitInit /\ HealthInit /\ LettersInit /\ AuditInit
  /\ LookInit /\ ReaderInit /\ TokenInit
  /\ lookNetwork = CHOOSE n \in LookNetwork : TRUE
  /\ \A k \in Key : service # "cache" \/ k \notin Cacheable => ttl[k] = CHOOSE t \in Ttl : TRUE
  /\ service # "limits" => limiter = [c \in Caller |-> "owner"]

ServicesNext ==
  /\ UNCHANGED service
  /\ IF service = "failover" THEN Next ELSE UNCHANGED vars
  /\ IF service = "cache" THEN CacheNext ELSE UNCHANGED cacheVars
  /\ IF service = "limits" THEN LimitNext ELSE UNCHANGED limitVars
  /\ IF service = "health" THEN HealthNext ELSE UNCHANGED healthVars
  /\ IF service = "letters" THEN LettersNext ELSE UNCHANGED letterVars
  /\ IF service = "audit" THEN AuditNext ELSE UNCHANGED auditVars
  /\ IF service = "lookup" THEN LookNext ELSE UNCHANGED lookVars
  /\ IF service = "reader" THEN ReaderNext ELSE UNCHANGED readerVars
  /\ IF service = "token" THEN TokenNext ELSE UNCHANGED tokenVars

ServicesSpec == ServicesInit /\ [][ServicesNext]_serviceVars

(* The requests of a kind are alike; one group for all kinds is enough,    *)
(* since only one kind is ever at work.                                    *)
Swaps(S) == {p \in Permutations(S) : Cardinality({x \in S : p[x] # x}) = 2}
Symmetric ==
  {p @@ q @@ r : p \in Swaps(CacheRequest), q \in Swaps(Request), r \in Swaps(Query)}
=============================================================================
