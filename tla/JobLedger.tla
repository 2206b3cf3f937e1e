------------------------------ MODULE JobLedger ------------------------------
(***************************************************************************)
(* What the durable job table promises its users, with every multi-step    *)
(* protocol of BackgroundJobs taken as one step: a job waits, is started   *)
(* at most limit times before it is buried, is finished at most once, and  *)
(* comes back from the dead only by a deliberate revival.  Nothing more is *)
(* promised of a job that two revive at once: it goes astray.              *)
(***************************************************************************)
EXTENDS Naturals

CONSTANT JobId

VARIABLES
  phase,   \* phase[j]: where job j is in its life
  starts,  \* starts[j]: executions begun since j was enqueued or revived
  limit    \* limit[j]: executions allowed before j is buried

ledgerVars == <<phase, starts, limit>>

Phase == {"none", "waiting", "running", "done", "dead", "purged", "stray"}

LedgerInit ==
  /\ phase = [j \in JobId |-> "none"]
  /\ starts = [j \in JobId |-> 0]
  /\ limit \in [JobId -> Nat]

Submit(j) ==
  /\ phase[j] = "none"
  /\ phase' = [phase EXCEPT ![j] = "waiting"]
  /\ limit' \in [JobId -> Nat]
  /\ \A i \in JobId \ {j} : limit'[i] = limit[i]
  /\ UNCHANGED starts

Start(j) ==
  /\ phase[j] = "waiting"
  /\ starts[j] < limit[j]
  /\ phase' = [phase EXCEPT ![j] = "running"]
  /\ starts' = [starts EXCEPT ![j] = @ + 1]
  /\ UNCHANGED limit

Finish(j) ==
  /\ phase[j] = "running"
  /\ phase' = [phase EXCEPT ![j] = "done"]
  /\ UNCHANGED <<starts, limit>>

Requeue(j) ==
  /\ phase[j] = "running"
  /\ starts[j] < limit[j]
  /\ phase' = [phase EXCEPT ![j] = "waiting"]
  /\ UNCHANGED <<starts, limit>>

Bury(j) ==
  /\ phase[j] = "running"
  /\ starts[j] = limit[j]
  /\ phase' = [phase EXCEPT ![j] = "dead"]
  /\ UNCHANGED <<starts, limit>>

Revive(j) ==
  /\ phase[j] = "dead"
  /\ phase' = [phase EXCEPT ![j] = "waiting"]
  /\ starts' = [starts EXCEPT ![j] = 0]
  /\ UNCHANGED limit

(* A second revival comes late: the job has gone on since the first.       *)
GoAstray(j) ==
  /\ phase[j] \in {"waiting", "running", "done"}
  /\ phase' = [phase EXCEPT ![j] = "stray"]
  /\ starts' = [starts EXCEPT ![j] = 0]
  /\ limit' = [limit EXCEPT ![j] = 0]

Purge(S) ==
  /\ S # {}
  /\ \A j \in S : phase[j] = "dead"
  /\ phase' = [j \in JobId |-> IF j \in S THEN "purged" ELSE phase[j]]
  /\ starts' = [j \in JobId |-> IF j \in S THEN 0 ELSE starts[j]]
  /\ limit' = [j \in JobId |-> IF j \in S THEN 0 ELSE limit[j]]

LedgerNext ==
  \/ \E j \in JobId :
       \/ Submit(j) \/ Start(j) \/ Finish(j) \/ Requeue(j) \/ Bury(j)
       \/ Revive(j) \/ GoAstray(j)
  \/ \E S \in SUBSET JobId : Purge(S)

LedgerSpec == LedgerInit /\ [][LedgerNext]_ledgerVars
=============================================================================
