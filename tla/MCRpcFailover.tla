---------------------------- MODULE MCRpcFailover ----------------------------
(* Instances of RpcFailover for TLC. *)
EXTENDS RpcFailover, TLC

CONSTANTS e1, e2, e3

ConfiguredOrder == (e1 :> 1 @@ e2 :> 2 @@ e3 :> 3)
FirstEndpoints == [e \in Endpoint |-> ConfiguredOrder[e]]

\* As long as a cooldown: any of them may be answered or fail sooner.
SlowMethods == [r \in Request |-> CircuitCooldown]

SymmetricRequests == Permutations(Request)
=============================================================================
