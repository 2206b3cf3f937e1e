------------------------ MODULE BackgroundJobsProofs ------------------------
(***************************************************************************)
(* Theorems about BackgroundJobs, for any number of jobs, workers and      *)
(* replay requests and any bounds.  Replay requests may overlap: what they *)
(* spoil is confined to the rows that are `reopened`.                      *)
(***************************************************************************)
EXTENDS BackgroundJobs, TLAPS

-----------------------------------------------------------------------------
(* What each write leaves in a row. *)
LEMMA ClaimedRowFacts ==
  ASSUME NEW row \in Job, NEW t \in Nat
  PROVE  /\ ClaimedRow(row, t) \in Job
         /\ ClaimedRow(row, t).status = "running"
         /\ ClaimedRow(row, t).attempts = row.attempts + 1
         /\ ClaimedRow(row, t).maxAttempts = row.maxAttempts
         /\ ClaimedRow(row, t).queue = row.queue
         /\ ClaimedRow(row, t).lockedUntil \in Nat
<1> DEFINE r1 == [row EXCEPT !.status = "running"]
           r2 == [r1 EXCEPT !.attempts = row.attempts + 1]
           r3 == [r2 EXCEPT !.lockedUntil = t + LockDuration]
<1>1. ClaimedRow(row, t) = r3
  BY DEF ClaimedRow
<1>2. r1 \in Job /\ r1.status = "running" /\ r1.attempts = row.attempts
      /\ r1.maxAttempts = row.maxAttempts /\ r1.queue = row.queue
  BY DEF Job, Status
<1>3. row.attempts + 1 \in Nat /\ t + LockDuration \in Nat
  BY JobsAssumption DEF Job
<1> HIDE DEF r1
<1>4. r2 \in Job /\ r2.status = "running" /\ r2.attempts = row.attempts + 1
      /\ r2.maxAttempts = row.maxAttempts /\ r2.queue = row.queue
  BY <1>2, <1>3 DEF Job
<1> HIDE DEF r2
<1>5. r3 \in Job /\ r3.status = "running" /\ r3.attempts = row.attempts + 1
      /\ r3.maxAttempts = row.maxAttempts /\ r3.queue = row.queue
      /\ r3.lockedUntil = t + LockDuration
  BY <1>3, <1>4 DEF Job
<1> QED BY <1>1, <1>3, <1>5

LEMMA CompletedRowFacts ==
  ASSUME NEW row \in Job
  PROVE  /\ CompletedRow(row) \in Job
         /\ CompletedRow(row).status = "completed"
         /\ CompletedRow(row).attempts = row.attempts
         /\ CompletedRow(row).maxAttempts = row.maxAttempts
         /\ CompletedRow(row).queue = row.queue
         /\ CompletedRow(row).lockedUntil = NoLock
<1> DEFINE r1 == [row EXCEPT !.status = "completed"]
           r2 == [r1 EXCEPT !.lockedUntil = NoLock]
<1>1. CompletedRow(row) = r2
  BY DEF CompletedRow
<1>2. r1 \in Job /\ r1.status = "completed" /\ r1.attempts = row.attempts
      /\ r1.maxAttempts = row.maxAttempts /\ r1.queue = row.queue
  BY DEF Job, Status
<1> HIDE DEF r1
<1>3. r2 \in Job /\ r2.status = "completed" /\ r2.attempts = row.attempts
      /\ r2.maxAttempts = row.maxAttempts /\ r2.queue = row.queue
      /\ r2.lockedUntil = NoLock
  BY <1>2 DEF Job
<1> QED BY <1>1, <1>3

LEMMA FailedRowFacts ==
  ASSUME NEW row \in Job, NEW seen \in Nat
  PROVE  /\ FailedRow(row, seen) \in Job
         /\ FailedRow(row, seen).status = IF seen >= row.maxAttempts THEN "dead" ELSE "failed"
         /\ FailedRow(row, seen).attempts = row.attempts
         /\ FailedRow(row, seen).maxAttempts = row.maxAttempts
         /\ seen >= row.maxAttempts => FailedRow(row, seen).queue = "dead_letter"
         /\ seen < row.maxAttempts => FailedRow(row, seen).queue \in {"retry", row.queue}
         /\ FailedRow(row, seen).lockedUntil = NoLock
<1> DEFINE st == IF seen >= row.maxAttempts THEN "dead" ELSE "failed"
           q == IF seen >= row.maxAttempts THEN "dead_letter"
                ELSE IF seen >= row.maxAttempts - 1 THEN "retry" ELSE row.queue
           r1 == [row EXCEPT !.status = st]
           r2 == [r1 EXCEPT !.lockedUntil = NoLock]
           r3 == [r2 EXCEPT !.queue = q]
<1>1. FailedRow(row, seen) = r3
  BY DEF FailedRow
<1>2. st \in Status /\ q \in Queue /\ row.maxAttempts \in Nat
  BY DEF Status, Queue, Job
<1>3. /\ seen >= row.maxAttempts => q = "dead_letter"
      /\ seen < row.maxAttempts => q \in {"retry", row.queue}
  BY <1>2
<1> HIDE DEF st, q
<1>4. r1 \in Job /\ r1.status = st /\ r1.attempts = row.attempts
      /\ r1.maxAttempts = row.maxAttempts
  BY <1>2 DEF Job
<1> HIDE DEF r1
<1>5. r2 \in Job /\ r2.status = st /\ r2.attempts = row.attempts
      /\ r2.maxAttempts = row.maxAttempts /\ r2.lockedUntil = NoLock
  BY <1>4 DEF Job
<1> HIDE DEF r2
<1>6. r3 \in Job /\ r3.status = st /\ r3.attempts = row.attempts
      /\ r3.maxAttempts = row.maxAttempts /\ r3.lockedUntil = NoLock /\ r3.queue = q
  BY <1>2, <1>5 DEF Job
<1> QED BY <1>1, <1>3, <1>6 DEF st

LEMMA RevivedRowFacts ==
  ASSUME NEW row \in Job, now \in Nat
  PROVE  /\ RevivedRow(row) \in Job
         /\ RevivedRow(row).status = "pending"
         /\ RevivedRow(row).attempts = 0
         /\ RevivedRow(row).maxAttempts = row.maxAttempts
         /\ RevivedRow(row).queue = "retry"
         /\ RevivedRow(row).lockedUntil = NoLock
<1> DEFINE r1 == [row EXCEPT !.status = "pending"]
           r2 == [r1 EXCEPT !.attempts = 0]
           r3 == [r2 EXCEPT !.lockedUntil = NoLock]
           r4 == [r3 EXCEPT !.scheduledAt = now]
           r5 == [r4 EXCEPT !.queue = "retry"]
<1>1. RevivedRow(row) = r5
  BY DEF RevivedRow
<1>2. r1 \in Job /\ r1.status = "pending" /\ r1.maxAttempts = row.maxAttempts
  BY DEF Job, Status
<1> HIDE DEF r1
<1>3. r2 \in Job /\ r2.status = "pending" /\ r2.maxAttempts = row.maxAttempts
      /\ r2.attempts = 0
  BY <1>2 DEF Job
<1> HIDE DEF r2
<1>4. r3 \in Job /\ r3.status = "pending" /\ r3.maxAttempts = row.maxAttempts
      /\ r3.attempts = 0 /\ r3.lockedUntil = NoLock
  BY <1>3 DEF Job
<1> HIDE DEF r3
<1>5. r4 \in Job /\ r4.status = "pending" /\ r4.maxAttempts = row.maxAttempts
      /\ r4.attempts = 0 /\ r4.lockedUntil = NoLock
  BY <1>4 DEF Job
<1> HIDE DEF r4
<1>6. r5 \in Job /\ r5.status = "pending" /\ r5.maxAttempts = row.maxAttempts
      /\ r5.attempts = 0 /\ r5.lockedUntil = NoLock /\ r5.queue = "retry"
  BY <1>5 DEF Job, Queue
<1> QED BY <1>1, <1>6

LEMMA NewRowFacts ==
  /\ NewRow \in Job
  /\ NewRow.status = "unused" /\ NewRow.attempts = 0 /\ NewRow.maxAttempts = 0
  /\ NewRow.queue = "default" /\ NewRow.lockedUntil = NoLock
BY DEF NewRow, Job, Status, Queue, CallerQueue

LEMMA PurgedRowFacts ==
  /\ PurgedRow \in Job
  /\ PurgedRow.status = "purged" /\ PurgedRow.attempts = 0 /\ PurgedRow.maxAttempts = 0
  /\ PurgedRow.queue = "default" /\ PurgedRow.lockedUntil = NoLock
BY NewRowFacts DEF PurgedRow, NewRow, Job, Status, Queue, CallerQueue

LEMMA PendingRowFacts ==
  ASSUME NEW q \in CallerQueue, NEW p \in Nat, NEW m \in Nat, NEW t \in Nat
  PROVE  /\ PendingRow(q, p, m, t) \in Job
         /\ PendingRow(q, p, m, t).status = "pending"
         /\ PendingRow(q, p, m, t).attempts = 0
         /\ PendingRow(q, p, m, t).maxAttempts = m
         /\ PendingRow(q, p, m, t).queue = q
         /\ PendingRow(q, p, m, t).lockedUntil = NoLock
BY DEF PendingRow, Job, Status, Queue, CallerQueue

(* A replay's write leaves its own request idle and makes the others that  *)
(* have read the same row late; it moves no request to another row.        *)
LEMMA WriteLocals ==
  ASSUME TypeOK, NEW o \in Operator, ReplayWrite(o) \/ RetryDeadLetterWrite(o),
         NEW a \in Operator
  PROVE  /\ operator'[a] \in OperatorState
         /\ operator'[a].pc # "idle" =>
              /\ a # o /\ operator[a].pc # "idle"
              /\ operator'[a].job = operator[a].job /\ operator'[a].job \in JobId
              /\ operator[a].job # operator[o].job => operator'[a] = operator[a]
              /\ operator[a].job = operator[o].job => operator'[a].late
<1> DEFINE marked == [operator[a] EXCEPT !.late = TRUE]
<1>1. operator[a] \in OperatorState
  BY DEF TypeOK
<1>2. /\ marked \in OperatorState /\ marked.pc = operator[a].pc
      /\ marked.job = operator[a].job /\ marked.late
  BY <1>1 DEF OperatorState
<1> HIDE DEF marked
<1>3. operator'[a] = IF a = o THEN IdleOperator
                     ELSE IF operator[a].pc # "idle" /\ operator[a].job = operator[o].job
                     THEN marked ELSE operator[a]
  BY DEF ReplayWrite, RetryDeadLetterWrite, BackToPending, marked
<1>4. IdleOperator \in OperatorState /\ IdleOperator.pc = "idle"
  BY DEF IdleOperator, OperatorState
<1>5. operator[a].pc # "idle" => operator[a].job \in JobId
  BY DEF TypeOK
<1>6. CASE a = o
  BY <1>3, <1>4, <1>6
<1>7. CASE a # o /\ operator[a].pc # "idle" /\ operator[a].job = operator[o].job
  BY <1>2, <1>3, <1>5, <1>7
<1>8. CASE a # o /\ ~ (operator[a].pc # "idle" /\ operator[a].job = operator[o].job)
  BY <1>1, <1>3, <1>5, <1>8
<1> QED BY <1>6, <1>7, <1>8

-----------------------------------------------------------------------------
(* Every reachable state is well typed: rows, locals and counters keep the *)
(* shapes that the service's code relies on.                               *)
THEOREM TypeCorrect == Spec => []TypeOK
<1>1. Init => TypeOK
  BY NewRowFacts DEF Init, TypeOK, IdleWorker, WorkerState, IdleOperator, OperatorState
<1>2. TypeOK /\ [Next]_vars => TypeOK'
  <2> SUFFICES ASSUME TypeOK, [Next]_vars PROVE TypeOK'
    OBVIOUS
  <2> USE DEF TypeOK
  <2>1. ASSUME NEW j \in JobId, NEW q \in CallerQueue, NEW p \in Priority,
               NEW m \in AttemptLimit, NEW d \in Delay, Enqueue(j, q, p, m, d)
        PROVE TypeOK'
    <3>1. now + d \in Nat /\ p \in Nat /\ m \in Nat
      BY JobsAssumption
    <3>2. jobs' \in [JobId -> Job]
      BY <2>1, <3>1, PendingRowFacts DEF Enqueue
    <3> QED BY <2>1, <3>2 DEF Enqueue
  <2>2. ASSUME NEW w \in Worker, FindCandidate(w) PROVE TypeOK'
    <3> PICK j \in Due(w) : worker' = [worker EXCEPT ![w] =
                               [IdleWorker EXCEPT !.pc = "found", !.job = j, !.at = now]]
      BY <2>2 DEF FindCandidate
    <3>1. j \in JobId
      BY DEF Due
    <3>2. worker'[w] \in WorkerState /\ worker'[w].job \in JobId
      BY <3>1 DEF IdleWorker, WorkerState
    <3>3. worker' \in [Worker -> WorkerState]
      BY <3>2
    <3>4. \A v \in Worker : worker'[v].pc # "idle" => worker'[v].job \in JobId
      BY <3>2
    <3> QED BY <2>2, <3>3, <3>4 DEF FindCandidate
  <2>3. ASSUME NEW w \in Worker, ClaimWon(w) PROVE TypeOK'
    <3>1. worker[w].job \in JobId /\ worker[w].at \in Nat
      BY <2>3 DEF ClaimWon, WorkerState
    <3>2. jobs' \in [JobId -> Job]
      BY <2>3, <3>1, ClaimedRowFacts DEF ClaimWon
    <3>3. worker'[w] \in WorkerState /\ worker'[w].job \in JobId
      BY <2>3, <3>1 DEF ClaimWon, IdleWorker, WorkerState
    <3>4. worker' \in [Worker -> WorkerState]
      BY <2>3, <3>3 DEF ClaimWon
    <3>5. \A v \in Worker : worker'[v].pc # "idle" => worker'[v].job \in JobId
      BY <2>3, <3>3 DEF ClaimWon
    <3> QED BY <2>3, <3>2, <3>4, <3>5 DEF ClaimWon
  <2>4. ASSUME NEW w \in Worker, ClaimLost(w) PROVE TypeOK'
    BY <2>4 DEF ClaimLost, IdleWorker, WorkerState
  <2>5. ASSUME NEW w \in Worker, Complete(w) PROVE TypeOK'
    <3>1. jobs' \in [JobId -> Job]
      BY <2>5, CompletedRowFacts DEF Complete
    <3> QED BY <2>5, <3>1 DEF Complete, IdleWorker, WorkerState
  <2>6. ASSUME NEW w \in Worker, FailRead(w) PROVE TypeOK'
    <3>1. worker[w].job \in JobId /\ jobs[worker[w].job].attempts \in Nat
      BY <2>6 DEF FailRead, Job
    <3>2. worker'[w] \in WorkerState /\ (worker'[w].pc # "idle" => worker'[w].job \in JobId)
      BY <2>6, <3>1 DEF FailRead, IdleWorker, WorkerState
    <3>3. worker' \in [Worker -> WorkerState]
      BY <2>6, <3>2 DEF FailRead
    <3>4. \A v \in Worker : worker'[v].pc # "idle" => worker'[v].job \in JobId
      BY <2>6, <3>2 DEF FailRead
    <3> QED BY <2>6, <3>3, <3>4 DEF FailRead
  <2>7. ASSUME NEW w \in Worker, FailWrite(w) PROVE TypeOK'
    <3>1. worker[w].job \in JobId /\ worker[w].seen \in Nat
      BY <2>7 DEF FailWrite, WorkerState
    <3>2. jobs' \in [JobId -> Job]
      BY <2>7, <3>1, FailedRowFacts DEF FailWrite
    <3> QED BY <2>7, <3>2 DEF FailWrite, IdleWorker, WorkerState
  <2>8. ASSUME NEW w \in Worker, Crash(w) PROVE TypeOK'
    BY <2>8 DEF Crash, IdleWorker, WorkerState
  <2>9. ASSUME NEW o \in Operator, NEW j \in JobId, ReplayRead(o, j) \/ RetryDeadLetterRead(o, j)
        PROVE TypeOK'
    <3> USE <2>9 DEF ReplayRead, RetryDeadLetterRead, DeadRead
    <3>1. operator'[o] \in OperatorState /\ operator'[o].job \in JobId
      BY ZenonT(30) DEF OperatorState, IdleOperator
    <3>2. operator' \in [Operator -> OperatorState]
      BY <3>1
    <3>3. \A a \in Operator : operator'[a].pc # "idle" => operator'[a].job \in JobId
      BY <3>1
    <3>4. UNCHANGED <<jobs, worker, now, crashes, reopened>> /\ replays' \in Nat
      OBVIOUS
    <3> QED BY <3>2, <3>3, <3>4
  <2>10. ASSUME NEW o \in Operator, ReplayWrite(o) \/ RetryDeadLetterWrite(o) PROVE TypeOK'
    <3>1. jobs' \in [JobId -> Job]
      BY <2>10, RevivedRowFacts DEF ReplayWrite, RetryDeadLetterWrite, BackToPending
    <3>2. \A a \in Operator : operator'[a] \in OperatorState
                           /\ (operator'[a].pc # "idle" => operator'[a].job \in JobId)
      BY <2>10, WriteLocals
    <3>3. operator' \in [Operator -> OperatorState]
      BY <2>10, <3>2 DEF ReplayWrite, RetryDeadLetterWrite, BackToPending
    <3>4. operator[o].job \in JobId
      BY <2>10 DEF ReplayWrite, RetryDeadLetterWrite, BackToPending
    <3>5. reopened' \subseteq JobId
      BY <2>10, <3>4 DEF ReplayWrite, RetryDeadLetterWrite, BackToPending
    <3> QED BY <2>10, <3>1, <3>2, <3>3, <3>5
      DEF ReplayWrite, RetryDeadLetterWrite, BackToPending
  <2>11. ASSUME NEW S \in SUBSET JobId, PurgeDeadLetterJobs(S) PROVE TypeOK'
    <3>1. jobs' \in [JobId -> Job]
      BY <2>11, PurgedRowFacts DEF PurgeDeadLetterJobs
    <3> QED BY <2>11, <3>1 DEF PurgeDeadLetterJobs
  <2>12. CASE Tick
    BY <2>12 DEF Tick
  <2>13. CASE UNCHANGED vars
    BY <2>13 DEF vars
  <2> QED
    BY <2>1, <2>2, <2>3, <2>4, <2>5, <2>6, <2>7, <2>8, <2>9, <2>10, <2>11, <2>12, <2>13 DEF Next
<1> QED BY <1>1, <1>2, PTL DEF Spec

-----------------------------------------------------------------------------
(* The inductive invariant, step by step. *)
LEMMA InvInit == Init => IInv
BY JobsAssumption, NewRowFacts
DEF Init, IInv, TypeOK, MutualExclusion, AttemptsRespected, DeadLetterComplete, LockIffRunning,
    HeldRowsRun, FailureIsFresh, ReplaySeesDead, ReplaysSeeRows, LimitsPositive, UnusedIsNew,
    Holds, Present, Claimable, IdleWorker, IdleOperator, WorkerState, OperatorState

(* A step that leaves the table alone and lets no worker or operator hold  *)
(* more than before keeps the invariant.                                   *)
LEMMA InvLocals ==
  ASSUME IInv, TypeOK', UNCHANGED <<jobs, operator, reopened>>,
         \A w \in Worker : worker'[w] = worker[w] \/ worker'[w].pc \in {"idle", "found"}
  PROVE  IInv'
<1> USE DEF IInv
<1>1. MutualExclusion' /\ HeldRowsRun' /\ FailureIsFresh'
  BY DEF MutualExclusion, HeldRowsRun, FailureIsFresh, Holds
<1>2. AttemptsRespected' /\ DeadLetterComplete' /\ LockIffRunning' /\ LimitsPositive' /\ UnusedIsNew'
  BY DEF AttemptsRespected, DeadLetterComplete, LockIffRunning, LimitsPositive, UnusedIsNew, Present
<1>3. ReplaySeesDead' /\ ReplaysSeeRows'
  BY DEF ReplaySeesDead, ReplaysSeeRows
<1> QED BY <1>1, <1>2, <1>3

LEMMA InvEnqueue ==
  ASSUME IInv, TypeOK', NEW j \in JobId, NEW q \in CallerQueue, NEW p \in Priority,
         NEW m \in AttemptLimit, NEW d \in Delay, Enqueue(j, q, p, m, d)
  PROVE  IInv'
<1> USE DEF IInv
<1>1. now + d \in Nat /\ p \in Nat /\ m \in Nat /\ m > 0 /\ jobs \in [JobId -> Job]
  BY JobsAssumption DEF TypeOK
<1>2. /\ jobs'[j] = PendingRow(q, p, m, now + d)
      /\ \A i \in JobId \ {j} : jobs'[i] = jobs[i]
      /\ UNCHANGED <<worker, operator, reopened>>
      /\ jobs[j].status = "unused"
  BY <1>1 DEF Enqueue
<1>3. /\ jobs'[j].status = "pending" /\ jobs'[j].attempts = 0 /\ jobs'[j].maxAttempts = m
      /\ jobs'[j].queue # "dead_letter" /\ jobs'[j].lockedUntil = NoLock
  <2>1. /\ jobs'[j].status = "pending" /\ jobs'[j].attempts = 0 /\ jobs'[j].maxAttempts = m
        /\ jobs'[j].queue = q /\ jobs'[j].lockedUntil = NoLock
    BY <1>1, <1>2, PendingRowFacts
  <2> QED BY <2>1 DEF CallerQueue
<1>4. AttemptsRespected' /\ DeadLetterComplete' /\ LockIffRunning' /\ LimitsPositive' /\ UnusedIsNew'
  BY <1>1, <1>2, <1>3
  DEF AttemptsRespected, DeadLetterComplete, LockIffRunning, LimitsPositive, UnusedIsNew, Present, Claimable
<1>5. MutualExclusion'
  BY <1>2 DEF MutualExclusion, Holds
<1>6. j \notin reopened
  BY <1>2 DEF UnusedIsNew
<1>7. HeldRowsRun' /\ FailureIsFresh'
  BY <1>2, <1>3, <1>6 DEF HeldRowsRun, FailureIsFresh, Holds, TypeOK
<1>8. ReplaySeesDead' /\ ReplaysSeeRows'
  BY <1>2, <1>3, <1>6 DEF ReplaySeesDead, ReplaysSeeRows, TypeOK
<1> QED BY <1>4, <1>5, <1>7, <1>8

LEMMA InvClaimWon ==
  ASSUME IInv, TypeOK', NEW w \in Worker, ClaimWon(w)
  PROVE  IInv'
<1> USE DEF IInv
<1> DEFINE j == worker[w].job
<1>1. j \in JobId /\ worker[w].at \in Nat /\ jobs[j] \in Job /\ jobs[j].status \in Claimable
  BY DEF ClaimWon, TypeOK, WorkerState, StillClaimable
<1>2. /\ jobs'[j] = ClaimedRow(jobs[j], worker[w].at)
      /\ \A i \in JobId \ {j} : jobs'[i] = jobs[i]
      /\ worker'[w].pc = "running" /\ worker'[w].job = j
      /\ \A v \in Worker \ {w} : worker'[v] = worker[v]
      /\ UNCHANGED <<operator, reopened>>
  BY <1>1 DEF ClaimWon, TypeOK, IdleWorker
<1>3. /\ jobs'[j].status = "running" /\ jobs'[j].attempts = jobs[j].attempts + 1
      /\ jobs'[j].maxAttempts = jobs[j].maxAttempts /\ jobs'[j].queue = jobs[j].queue
      /\ jobs'[j].lockedUntil # NoLock
  <2>1. /\ jobs'[j].status = "running" /\ jobs'[j].attempts = jobs[j].attempts + 1
        /\ jobs'[j].maxAttempts = jobs[j].maxAttempts /\ jobs'[j].queue = jobs[j].queue
        /\ jobs'[j].lockedUntil \in Nat
    <3>1. ASSUME NEW row \in Job, NEW t \in Nat, NEW new, new = ClaimedRow(row, t)
          PROVE  /\ new.status = "running" /\ new.attempts = row.attempts + 1
                 /\ new.maxAttempts = row.maxAttempts /\ new.queue = row.queue
                 /\ new.lockedUntil \in Nat
      BY <3>1, ClaimedRowFacts
    <3> QED BY <1>1, <1>2, <3>1
  <2> QED BY <2>1 DEF NoLock
<1>4. /\ jobs[j].attempts \in Nat /\ jobs[j].maxAttempts \in Nat
      /\ j \notin reopened
           => jobs[j].attempts < jobs[j].maxAttempts /\ jobs[j].queue # "dead_letter"
  BY <1>1 DEF Job, DeadLetterComplete, Claimable
<1>5. j \notin reopened => \A v \in Worker : ~ Holds(v, j)
  BY <1>1 DEF HeldRowsRun, Claimable
<1>6. AttemptsRespected' /\ DeadLetterComplete' /\ LockIffRunning' /\ LimitsPositive' /\ UnusedIsNew'
  BY <1>1, <1>2, <1>3, <1>4
  DEF AttemptsRespected, DeadLetterComplete, LockIffRunning, LimitsPositive, UnusedIsNew, Present, Claimable
<1>7. MutualExclusion' /\ HeldRowsRun'
  BY <1>2, <1>3, <1>5 DEF MutualExclusion, HeldRowsRun, Holds
<1>8. FailureIsFresh'
  BY <1>2, <1>3, <1>5 DEF FailureIsFresh, Holds, TypeOK
<1>9. ReplaySeesDead' /\ ReplaysSeeRows'
  BY <1>1, <1>2, <1>3 DEF ReplaySeesDead, ReplaysSeeRows, Claimable, TypeOK
<1> QED BY <1>6, <1>7, <1>8, <1>9

(* Once a worker lets go of its job, the rest of the system cannot tell    *)
(* the row's new content apart, provided the row itself is in order.       *)
LEMMA InvRelease ==
  ASSUME IInv, TypeOK', NEW w \in Worker, NEW j \in JobId, Holds(w, j), Present(j),
         worker' = [worker EXCEPT ![w] = IdleWorker],
         UNCHANGED <<operator, reopened>>,
         \A i \in JobId \ {j} : jobs'[i] = jobs[i],
         jobs'[j].status \in {"completed", "failed", "dead"},
         jobs'[j].attempts = jobs[j].attempts,
         jobs'[j].maxAttempts = jobs[j].maxAttempts,
         jobs'[j].lockedUntil = NoLock,
         j \notin reopened /\ jobs'[j].status = "failed"
           => jobs'[j].attempts < jobs'[j].maxAttempts,
         j \notin reopened => (jobs'[j].status = "dead" <=> jobs'[j].queue = "dead_letter")
  PROVE  IInv'
<1> USE DEF IInv
<1>1. /\ worker'[w].pc = "idle"
      /\ \A v \in Worker \ {w} : worker'[v] = worker[v] /\ (j \notin reopened => ~ Holds(v, j))
      /\ j \notin reopened => jobs[j].status = "running"
  BY DEF TypeOK, IdleWorker, MutualExclusion, HeldRowsRun
<1>2. AttemptsRespected' /\ DeadLetterComplete' /\ LockIffRunning' /\ LimitsPositive' /\ UnusedIsNew'
  BY <1>1
  DEF AttemptsRespected, DeadLetterComplete, LockIffRunning, LimitsPositive, UnusedIsNew, Present, Claimable
<1>3. MutualExclusion' /\ HeldRowsRun'
  BY <1>1 DEF MutualExclusion, HeldRowsRun, Holds
<1>4. FailureIsFresh'
  BY <1>1 DEF FailureIsFresh, Holds, TypeOK
<1>5. ReplaySeesDead' /\ ReplaysSeeRows'
  BY <1>1 DEF ReplaySeesDead, ReplaysSeeRows, TypeOK
<1> QED BY <1>2, <1>3, <1>4, <1>5

(* A report about a row that has been purged changes nothing but locals.   *)
LEMMA InvPurgedReport ==
  ASSUME IInv, TypeOK', NEW w \in Worker, Complete(w) \/ FailRead(w) \/ FailWrite(w),
         ~ Present(worker[w].job)
  PROVE  IInv'
BY InvLocals DEF IInv, Complete, FailRead, FailWrite, TypeOK, IdleWorker

LEMMA InvComplete ==
  ASSUME IInv, TypeOK', NEW w \in Worker, Complete(w)
  PROVE  IInv'
<1> DEFINE j == worker[w].job
<1>1. j \in JobId /\ Holds(w, j) /\ jobs \in [JobId -> Job]
  BY DEF IInv, Complete, TypeOK, Holds
<1>2. CASE Present(j)
  <2>1. jobs' = [jobs EXCEPT ![j] = CompletedRow(jobs[j])]
    BY <1>2 DEF Complete
  <2>2. j \notin reopened => jobs[j].queue # "dead_letter"
    BY <1>1 DEF IInv, DeadLetterComplete, HeldRowsRun
  <2>3. /\ jobs'[j].status = "completed" /\ jobs'[j].attempts = jobs[j].attempts
        /\ jobs'[j].maxAttempts = jobs[j].maxAttempts /\ jobs'[j].lockedUntil = NoLock
        /\ jobs'[j].queue = jobs[j].queue
    BY <1>1, <2>1, CompletedRowFacts
  <2> QED BY <1>1, <1>2, <2>1, <2>2, <2>3, InvRelease DEF Complete
<1> QED BY <1>2, InvPurgedReport

LEMMA InvFailWrite ==
  ASSUME IInv, TypeOK', NEW w \in Worker, FailWrite(w)
  PROVE  IInv'
<1> DEFINE j == worker[w].job
           seen == worker[w].seen
<1>1. /\ j \in JobId /\ seen \in Nat /\ Holds(w, j) /\ jobs \in [JobId -> Job]
      /\ jobs[j].maxAttempts \in Nat
      /\ j \notin reopened => seen = jobs[j].attempts /\ jobs[j].status = "running"
  BY DEF IInv, FailWrite, TypeOK, WorkerState, Holds, HeldRowsRun, FailureIsFresh, Job
<1>2. CASE Present(j)
  <2>1. jobs' = [jobs EXCEPT ![j] = FailedRow(jobs[j], seen)]
    BY <1>2 DEF FailWrite
  <2>2. j \notin reopened => jobs[j].queue # "dead_letter"
    BY <1>1 DEF IInv, DeadLetterComplete
  <2>3. /\ jobs'[j].status = (IF seen >= jobs[j].maxAttempts THEN "dead" ELSE "failed")
        /\ jobs'[j].attempts = jobs[j].attempts
        /\ jobs'[j].maxAttempts = jobs[j].maxAttempts /\ jobs'[j].lockedUntil = NoLock
        /\ seen >= jobs[j].maxAttempts => jobs'[j].queue = "dead_letter"
        /\ seen < jobs[j].maxAttempts => jobs'[j].queue \in {"retry", jobs[j].queue}
    BY <1>1, <2>1, FailedRowFacts
  <2>4. /\ jobs'[j].status \in {"completed", "failed", "dead"}
        /\ j \notin reopened /\ jobs'[j].status = "failed"
             => jobs'[j].attempts < jobs'[j].maxAttempts
        /\ j \notin reopened => (jobs'[j].status = "dead" <=> jobs'[j].queue = "dead_letter")
    BY <1>1, <2>2, <2>3
  <2>5. /\ worker' = [worker EXCEPT ![w] = IdleWorker] /\ UNCHANGED <<operator, reopened>>
        /\ \A i \in JobId \ {j} : jobs'[i] = jobs[i]
    BY <1>1, <2>1 DEF FailWrite
  <2> QED BY <1>1, <1>2, <2>3, <2>4, <2>5, InvRelease
<1> QED BY <1>2, InvPurgedReport

LEMMA InvFailRead ==
  ASSUME IInv, TypeOK', NEW w \in Worker, FailRead(w)
  PROVE  IInv'
<1> USE DEF IInv
<1> DEFINE j == worker[w].job
<1>1. CASE Present(j)
  <2>1. j \in JobId /\ Holds(w, j)
    BY DEF FailRead, TypeOK, Holds
  <2>2. /\ worker'[w].pc = "failing" /\ worker'[w].job = j /\ worker'[w].seen = jobs[j].attempts
        /\ \A v \in Worker \ {w} : worker'[v] = worker[v]
        /\ UNCHANGED <<jobs, operator, reopened>>
    BY <1>1, <2>1 DEF FailRead, TypeOK, IdleWorker
  <2>3. MutualExclusion' /\ HeldRowsRun' /\ FailureIsFresh'
    BY <2>1, <2>2 DEF MutualExclusion, HeldRowsRun, FailureIsFresh, Holds
  <2>4. AttemptsRespected' /\ DeadLetterComplete' /\ LockIffRunning' /\ LimitsPositive'
        /\ UnusedIsNew' /\ ReplaySeesDead' /\ ReplaysSeeRows'
    BY <2>2 DEF AttemptsRespected, DeadLetterComplete, LockIffRunning, ReplaySeesDead,
       ReplaysSeeRows, LimitsPositive, UnusedIsNew, Present
  <2> QED BY <2>3, <2>4
<1> QED BY <1>1, InvPurgedReport

LEMMA InvReplayRead ==
  ASSUME IInv, TypeOK', NEW o \in Operator, NEW j \in JobId,
         ReplayRead(o, j) \/ RetryDeadLetterRead(o, j)
  PROVE  IInv'
<1> USE DEF IInv
<1>1. /\ UNCHANGED <<jobs, worker, reopened>> /\ jobs[j].status = "dead"
      /\ operator'[o].job = j /\ \A a \in Operator \ {o} : operator'[a] = operator[a]
  BY DEF ReplayRead, RetryDeadLetterRead, DeadRead, TypeOK, IdleOperator
<1>2. ReplaySeesDead' /\ ReplaysSeeRows'
  BY <1>1 DEF ReplaySeesDead, ReplaysSeeRows
<1>3. MutualExclusion' /\ AttemptsRespected' /\ DeadLetterComplete' /\ LockIffRunning'
      /\ HeldRowsRun' /\ FailureIsFresh' /\ LimitsPositive' /\ UnusedIsNew'
  BY <1>1 DEF MutualExclusion, AttemptsRespected, DeadLetterComplete, LockIffRunning,
     HeldRowsRun, FailureIsFresh, LimitsPositive, UnusedIsNew, Holds, Present
<1> QED BY <1>2, <1>3

(* What a replay's write leaves: the row it read is back in the queue, or  *)
(* still purged; if it was neither dead nor purged it is reopened now.     *)
LEMMA ReplayWriteFacts ==
  ASSUME IInv, NEW o \in Operator, ReplayWrite(o) \/ RetryDeadLetterWrite(o),
         NEW j, j = operator[o].job
  PROVE  /\ j \in JobId /\ jobs[j].status # "unused"
         /\ UNCHANGED worker
         /\ \A i \in JobId \ {j} : jobs'[i] = jobs[i]
         /\ reopened \subseteq reopened' /\ reopened' \subseteq reopened \cup {j}
         /\ j \in reopened' \ reopened =>
              operator[o].late /\ jobs[j].status \notin {"dead", "purged"}
         /\ j \notin reopened' => jobs[j].status \in {"dead", "purged"}
         /\ ~ Present(j) => UNCHANGED <<jobs, reopened>>
         /\ Present(j) => /\ jobs'[j].status = "pending" /\ jobs'[j].attempts = 0
                          /\ jobs'[j].maxAttempts = jobs[j].maxAttempts
                          /\ jobs'[j].queue = "retry" /\ jobs'[j].lockedUntil = NoLock
<1>1. /\ j \in JobId /\ now \in Nat /\ jobs \in [JobId -> Job]
      /\ jobs[j].status # "unused"
      /\ ~ operator[o].late => jobs[j].status \in {"dead", "purged"} \/ j \in reopened
  BY DEF IInv, ReplayWrite, RetryDeadLetterWrite, BackToPending, TypeOK, ReplaySeesDead,
     ReplaysSeeRows
<1>2. /\ jobs' = IF Present(j) THEN [jobs EXCEPT ![j] = RevivedRow(jobs[j])] ELSE jobs
      /\ reopened' = IF operator[o].late /\ jobs[j].status \notin {"dead", "purged"}
                     THEN reopened \cup {j} ELSE reopened
      /\ UNCHANGED worker
  BY DEF ReplayWrite, RetryDeadLetterWrite, BackToPending
<1>3. \A i \in JobId \ {j} : jobs'[i] = jobs[i]
  BY <1>1, <1>2
<1>4. /\ reopened \subseteq reopened' /\ reopened' \subseteq reopened \cup {j}
      /\ j \in reopened' \ reopened =>
           operator[o].late /\ jobs[j].status \notin {"dead", "purged"}
      /\ j \notin reopened' => jobs[j].status \in {"dead", "purged"}
  BY <1>1, <1>2
<1>5. ~ Present(j) => UNCHANGED <<jobs, reopened>>
  BY <1>1, <1>2 DEF Present
<1>6. Present(j) => jobs'[j] = RevivedRow(jobs[j])
  BY <1>1, <1>2
<1>7. Present(j) => /\ jobs'[j].status = "pending" /\ jobs'[j].attempts = 0
                    /\ jobs'[j].maxAttempts = jobs[j].maxAttempts
                    /\ jobs'[j].queue = "retry" /\ jobs'[j].lockedUntil = NoLock
  BY <1>1, <1>6, RevivedRowFacts
<1> QED BY <1>1, <1>2, <1>3, <1>4, <1>5, <1>7

LEMMA InvReplayWrite ==
  ASSUME IInv, TypeOK', NEW o \in Operator,
         ReplayWrite(o) \/ RetryDeadLetterWrite(o)
  PROVE  IInv'
<1> USE DEF IInv
<1> DEFINE j == operator[o].job
<1>1. /\ j \in JobId /\ jobs[j].status # "unused"
      /\ UNCHANGED worker
      /\ \A i \in JobId \ {j} : jobs'[i] = jobs[i]
      /\ reopened \subseteq reopened' /\ reopened' \subseteq reopened \cup {j}
      /\ j \notin reopened' => jobs[j].status \in {"dead", "purged"}
      /\ ~ Present(j) => UNCHANGED <<jobs, reopened>>
      /\ Present(j) => /\ jobs'[j].status = "pending" /\ jobs'[j].attempts = 0
                       /\ jobs'[j].maxAttempts = jobs[j].maxAttempts
                       /\ jobs'[j].queue = "retry" /\ jobs'[j].lockedUntil = NoLock
  BY ReplayWriteFacts
<1>2. \A a \in Operator : operator'[a].pc # "idle" =>
        /\ operator[a].pc # "idle" /\ operator'[a].job = operator[a].job
        /\ operator'[a].job \in JobId
        /\ operator[a].job # j => operator'[a] = operator[a]
        /\ operator[a].job = j => operator'[a].late
  BY WriteLocals
<1>3. ReplaySeesDead'
  BY <1>1, <1>2 DEF ReplaySeesDead
<1>4. ReplaysSeeRows'
  <2>1. \A i \in JobId : jobs[i].status # "unused" => jobs'[i].status # "unused"
    BY <1>1
  <2> QED BY <1>2, <2>1 DEF ReplaysSeeRows
<1>5. CASE ~ Present(j)
  BY <1>1, <1>3, <1>4, <1>5 DEF MutualExclusion, AttemptsRespected, DeadLetterComplete,
     LockIffRunning, HeldRowsRun, FailureIsFresh, LimitsPositive, UnusedIsNew, Holds, Present
<1>6. CASE Present(j)
  <2>1. jobs[j].maxAttempts \in Nat /\ jobs[j].maxAttempts > 0
        /\ (j \notin reopened' => jobs[j].status = "dead" /\ j \notin reopened)
    BY <1>1, <1>6 DEF Present, LimitsPositive, Job, TypeOK
  <2>2. /\ jobs'[j].status = "pending" /\ jobs'[j].attempts = 0
        /\ jobs'[j].maxAttempts = jobs[j].maxAttempts /\ jobs'[j].queue = "retry"
        /\ jobs'[j].lockedUntil = NoLock
    BY <1>1, <1>6
  <2>3. j \notin reopened' => \A v \in Worker : ~ Holds(v, j)
    BY <1>1, <2>1 DEF HeldRowsRun
  <2>4. AttemptsRespected' /\ DeadLetterComplete' /\ LockIffRunning'
    BY <1>1, <2>1, <2>2 DEF AttemptsRespected, DeadLetterComplete, LockIffRunning, Claimable
  <2>5. LimitsPositive' /\ UnusedIsNew'
    BY <1>1, <2>1, <2>2 DEF LimitsPositive, UnusedIsNew, Present
  <2>6. MutualExclusion' /\ HeldRowsRun'
    BY <1>1, <2>3 DEF MutualExclusion, HeldRowsRun, Holds
  <2>7. FailureIsFresh'
    BY <1>1, <2>3 DEF FailureIsFresh, Holds, TypeOK
  <2> QED BY <1>3, <1>4, <2>4, <2>5, <2>6, <2>7
<1> QED BY <1>5, <1>6

LEMMA InvPurge ==
  ASSUME IInv, TypeOK', NEW S \in SUBSET JobId, PurgeDeadLetterJobs(S)
  PROVE  IInv'
<1> USE DEF IInv
<1>1. /\ \A j \in S : jobs[j].status = "dead" /\ jobs'[j] = PurgedRow
      /\ \A j \in JobId \ S : jobs'[j] = jobs[j]
      /\ UNCHANGED <<worker, operator, reopened>>
  BY DEF PurgeDeadLetterJobs
<1>2. \A j \in S : /\ jobs'[j].status = "purged" /\ jobs'[j].attempts = 0
                   /\ jobs'[j].maxAttempts = 0 /\ jobs'[j].queue # "dead_letter"
                   /\ jobs'[j].lockedUntil = NoLock
  BY <1>1, PurgedRowFacts
<1>3. AttemptsRespected' /\ DeadLetterComplete' /\ LockIffRunning' /\ LimitsPositive' /\ UnusedIsNew'
  BY <1>1, <1>2
  DEF AttemptsRespected, DeadLetterComplete, LockIffRunning, LimitsPositive, UnusedIsNew, Present, Claimable
<1>4. \A j \in S \ reopened : \A v \in Worker : ~ Holds(v, j)
  BY <1>1 DEF HeldRowsRun
<1>5. MutualExclusion' /\ HeldRowsRun'
  BY <1>1, <1>4 DEF MutualExclusion, HeldRowsRun, Holds
<1>6. FailureIsFresh'
  BY <1>1, <1>4 DEF FailureIsFresh, Holds, TypeOK
<1>7. ReplaySeesDead' /\ ReplaysSeeRows'
  BY <1>1, <1>2 DEF ReplaySeesDead, ReplaysSeeRows, TypeOK
<1> QED BY <1>3, <1>5, <1>6, <1>7

LEMMA InvNext ==
  ASSUME IInv, TypeOK', [Next]_vars
  PROVE  IInv'
<1> USE DEF IInv
<1>1. ASSUME NEW w \in Worker, FindCandidate(w) \/ ClaimLost(w) \/ Crash(w) PROVE IInv'
  <2>1. /\ UNCHANGED <<jobs, operator, reopened>>
        /\ \A v \in Worker : worker'[v] = worker[v] \/ worker'[v].pc \in {"idle", "found"}
    <3>1. CASE FindCandidate(w)
      BY <3>1 DEF FindCandidate, TypeOK, IdleWorker
    <3>2. CASE ClaimLost(w) \/ Crash(w)
      BY <3>2 DEF ClaimLost, Crash, TypeOK, IdleWorker
    <3> QED BY <1>1, <3>1, <3>2
  <2> QED BY <2>1, InvLocals
<1>2. CASE Tick \/ UNCHANGED vars
  BY <1>2, InvLocals DEF Tick, vars
<1> QED
  BY <1>1, <1>2, InvEnqueue, InvClaimWon, InvComplete, InvFailRead, InvFailWrite,
     InvReplayRead, InvReplayWrite, InvPurge DEF Next

(* The inductive invariant holds however many workers, replays, purges and *)
(* crashes overlap: it owes nothing to a row a late replay has reopened,   *)
(* and what it says of the other rows does not depend on those.            *)
THEOREM InvariantHolds == Spec => []IInv
<1>1. IInv /\ TypeOK' /\ [Next]_vars => IInv'
  BY InvNext
<1> QED BY InvInit, <1>1, TypeCorrect, PTL DEF Spec

(* Two workers never process one job at the same time, whatever they, the  *)
(* replays and a purge do between the find and the update of a claim,      *)
(* unless a replay that another had outrun has reopened the row.           *)
THEOREM ProcessingIsExclusive == Spec => []MutualExclusion
<1>1. IInv => MutualExclusion
  BY DEF IInv
<1> QED BY <1>1, InvariantHolds, PTL

(* maxAttempts bounds the executions between two replays, of every row     *)
(* that no late replay has reopened.                                       *)
THEOREM AttemptsStayInBounds == Spec => []AttemptsRespected
<1>1. IInv => AttemptsRespected
  BY DEF IInv
<1> QED BY <1>1, InvariantHolds, PTL

(* An exhausted job is dead and queued as such; no claimable job is        *)
(* exhausted, so none is left where claimNext skips it for good, unless a  *)
(* late replay has reopened it.                                            *)
THEOREM ExhaustedJobsAreDead == Spec => []DeadLetterComplete
<1>1. IInv => DeadLetterComplete
  BY DEF IInv
<1> QED BY <1>1, InvariantHolds, PTL

(* The lock column says nothing the status column does not say, overlaps   *)
(* or not: the expiry test in claimNext can never make a job claimable.    *)
THEOREM LockIsRedundant == Spec => []LockIffRunning
<1>1. IInv => LockIffRunning
  BY DEF IInv
<1> QED BY <1>1, InvariantHolds, PTL

-----------------------------------------------------------------------------
(* A row that is complete can only be rewritten by a worker that holds it, *)
(* which the invariant rules out, or by a late replay, which reopens it.   *)
LEMMA CompletedStep ==
  ASSUME IInv, [Next]_vars, NEW j \in JobId, jobs[j].status = "completed", j \notin reopened'
  PROVE  jobs'[j] = jobs[j]
<1> USE DEF IInv
<1>1. jobs \in [JobId -> Job]
  BY DEF TypeOK
<1>2. ASSUME NEW i \in JobId, NEW q, NEW p, NEW m, NEW d, Enqueue(i, q, p, m, d)
      PROVE jobs'[j] = jobs[j]
  BY <1>1, <1>2 DEF Enqueue
<1>3. ASSUME NEW w \in Worker, ClaimWon(w) PROVE jobs'[j] = jobs[j]
  BY <1>1, <1>3 DEF ClaimWon, StillClaimable, Claimable
<1>4. ASSUME NEW w \in Worker, Complete(w) \/ FailWrite(w) PROVE jobs'[j] = jobs[j]
  <2>1. j \notin reopened
    BY <1>4 DEF Complete, FailWrite
  <2>2. worker[w].job \in JobId /\ worker[w].job # j
    BY <1>4, <2>1 DEF Complete, FailWrite, TypeOK, HeldRowsRun, Holds
  <2> QED BY <1>1, <1>4, <2>2 DEF Complete, FailWrite
<1>5. ASSUME NEW w \in Worker, FindCandidate(w) \/ ClaimLost(w) \/ FailRead(w) \/ Crash(w)
      PROVE jobs'[j] = jobs[j]
  BY <1>5 DEF FindCandidate, ClaimLost, FailRead, Crash
<1>6. ASSUME NEW o \in Operator, NEW i \in JobId, ReplayRead(o, i) \/ RetryDeadLetterRead(o, i)
      PROVE jobs'[j] = jobs[j]
  BY <1>6 DEF ReplayRead, RetryDeadLetterRead, DeadRead
<1>7. ASSUME NEW o \in Operator, ReplayWrite(o) \/ RetryDeadLetterWrite(o)
      PROVE jobs'[j] = jobs[j]
  BY <1>7, ReplayWriteFacts
<1>8. ASSUME NEW S \in SUBSET JobId, PurgeDeadLetterJobs(S) PROVE jobs'[j] = jobs[j]
  BY <1>8 DEF PurgeDeadLetterJobs
<1>9. CASE Tick \/ UNCHANGED vars
  BY <1>9 DEF Tick, vars
<1> QED BY <1>2, <1>3, <1>4, <1>5, <1>6, <1>7, <1>8, <1>9 DEF Next

(* A completed job is never put back into the queue, but by a replay that  *)
(* another replay of the same row has outrun.                              *)
THEOREM CompletedJobsStay == Spec => CompletedIsFinal
<1>1. IInv /\ [Next]_vars
      => [\A j \in JobId :
            jobs[j].status = "completed" /\ j \notin reopened' => jobs'[j] = jobs[j]]_vars
  BY CompletedStep
<1> QED BY <1>1, InvariantHolds, PTL DEF CompletedIsFinal, Spec

-----------------------------------------------------------------------------
(* The refinement: each step of the table is one of the ledger or none.    *)
Starts == [j \in JobId |-> IF j \in reopened THEN 0 ELSE jobs[j].attempts]
Limit == [j \in JobId |-> IF j \in reopened THEN 0 ELSE jobs[j].maxAttempts]

(* A step that rewrites row j alone: what the ledger sees of it. *)
LEMMA LedgerFrame ==
  ASSUME TypeOK, TypeOK', NEW j \in JobId, \A i \in JobId \ {j} : jobs'[i] = jobs[i],
         reopened \subseteq reopened', reopened' \subseteq reopened \cup {j}
  PROVE  /\ LedgerPhase' = [LedgerPhase EXCEPT ![j] = LedgerPhase'[j]]
         /\ Starts' = [Starts EXCEPT ![j] = Starts'[j]]
         /\ Limit' = [Limit EXCEPT ![j] = Limit'[j]]
<1>1. \A i \in JobId \ {j} : i \in reopened' <=> i \in reopened
  OBVIOUS
<1>2. LedgerPhase' = [LedgerPhase EXCEPT ![j] = LedgerPhase'[j]]
  BY <1>1 DEF LedgerPhase
<1>3. Starts' = [Starts EXCEPT ![j] = Starts'[j]]
  BY <1>1 DEF Starts
<1>4. Limit' = [Limit EXCEPT ![j] = Limit'[j]]
  BY <1>1 DEF Limit
<1> QED BY <1>2, <1>3, <1>4

LEMMA LedgerStutter ==
  ASSUME UNCHANGED <<jobs, reopened>>
  PROVE  UNCHANGED <<LedgerPhase, Starts, Limit>>
BY DEF LedgerPhase, Starts, Limit

(* The ledger does not see what becomes of a row that has gone astray. *)
LEMMA LedgerAstray ==
  ASSUME TypeOK, TypeOK', NEW j \in reopened, \A i \in JobId \ {j} : jobs'[i] = jobs[i],
         UNCHANGED reopened
  PROVE  UNCHANGED <<LedgerPhase, Starts, Limit>>
<1>1. \A i \in JobId \ reopened : jobs'[i] = jobs[i]
  OBVIOUS
<1>2. UNCHANGED LedgerPhase
  BY <1>1 DEF LedgerPhase
<1>3. UNCHANGED Starts
  BY <1>1 DEF Starts
<1>4. UNCHANGED Limit
  BY <1>1 DEF Limit
<1> QED BY <1>2, <1>3, <1>4

(* A step that rewrites row j and keeps its attempts and limit. *)
LEMMA LedgerMove ==
  ASSUME TypeOK, TypeOK', NEW j \in JobId, \A i \in JobId \ {j} : jobs'[i] = jobs[i],
         UNCHANGED reopened,
         jobs'[j].attempts = jobs[j].attempts, jobs'[j].maxAttempts = jobs[j].maxAttempts
  PROVE  /\ LedgerPhase' = [LedgerPhase EXCEPT ![j] = LedgerPhase'[j]]
         /\ UNCHANGED <<Starts, Limit>>
<1>1. UNCHANGED Starts
  BY DEF Starts
<1>2. UNCHANGED Limit
  BY DEF Limit
<1> QED BY <1>1, <1>2, LedgerFrame

LEMMA LedgerEnqueue ==
  ASSUME IInv, TypeOK', NEW j \in JobId, NEW q \in CallerQueue, NEW p \in Priority,
         NEW m \in AttemptLimit, NEW d \in Delay, Enqueue(j, q, p, m, d)
  PROVE  Ledger!Submit(j)
<1>1. /\ now + d \in Nat /\ p \in Nat /\ m \in Nat
      /\ jobs \in [JobId -> Job] /\ jobs' \in [JobId -> Job]
  BY JobsAssumption DEF IInv, TypeOK
<1>2. /\ jobs'[j] = PendingRow(q, p, m, now + d) /\ jobs[j].status = "unused"
      /\ \A i \in JobId \ {j} : jobs'[i] = jobs[i]
      /\ UNCHANGED reopened
  BY <1>1 DEF Enqueue
<1>3. jobs'[j].status = "pending" /\ jobs'[j].attempts = 0
  BY <1>1, <1>2, PendingRowFacts
<1>4. jobs[j].attempts = 0 /\ j \notin reopened
  BY <1>2 DEF IInv, UnusedIsNew
<1>5. LedgerPhase[j] = "none" /\ LedgerPhase'[j] = "waiting"
  BY <1>2, <1>3, <1>4 DEF LedgerPhase, Claimable
<1>6. LedgerPhase' = [LedgerPhase EXCEPT ![j] = "waiting"]
  BY <1>2, <1>5, LedgerFrame DEF IInv
<1>7. UNCHANGED Starts
  BY <1>2, <1>3, <1>4 DEF Starts
<1>8. Limit' \in [JobId -> Nat] /\ \A i \in JobId \ {j} : Limit'[i] = Limit[i]
  BY <1>1, <1>2 DEF Limit, Job
<1> QED BY <1>5, <1>6, <1>7, <1>8 DEF Ledger!Submit, Starts, Limit

LEMMA LedgerClaimWon ==
  ASSUME IInv, TypeOK', NEW w \in Worker, ClaimWon(w), NEW j \in JobId, j = worker[w].job
  PROVE  Ledger!Start(j) \/ UNCHANGED <<LedgerPhase, Starts, Limit>>
<1>1. /\ worker[w].at \in Nat /\ jobs[j] \in Job /\ jobs \in [JobId -> Job]
      /\ jobs[j].status \in Claimable
  BY DEF IInv, ClaimWon, TypeOK, WorkerState, StillClaimable
<1>2. /\ jobs'[j] = ClaimedRow(jobs[j], worker[w].at)
      /\ \A i \in JobId \ {j} : jobs'[i] = jobs[i]
      /\ UNCHANGED reopened
  BY <1>1 DEF ClaimWon
<1>3. CASE j \in reopened
  BY <1>2, <1>3, LedgerAstray DEF IInv
<1>4. CASE j \notin reopened
  <2>1. jobs'[j].status = "running" /\ jobs'[j].attempts = jobs[j].attempts + 1
        /\ jobs'[j].maxAttempts = jobs[j].maxAttempts
    <3>1. ASSUME NEW row \in Job, NEW t \in Nat, NEW new, new = ClaimedRow(row, t)
          PROVE  new.status = "running" /\ new.attempts = row.attempts + 1
                 /\ new.maxAttempts = row.maxAttempts
      BY <3>1, ClaimedRowFacts
    <3> QED BY <1>1, <1>2, <3>1
  <2>2. LedgerPhase[j] = "waiting" /\ LedgerPhase'[j] = "running"
    BY <1>1, <1>2, <1>4, <2>1 DEF LedgerPhase, Claimable
  <2>3. jobs[j].attempts < jobs[j].maxAttempts
    BY <1>1, <1>4 DEF IInv, DeadLetterComplete
  <2>4. /\ LedgerPhase' = [LedgerPhase EXCEPT ![j] = "running"]
        /\ Starts' = [Starts EXCEPT ![j] = Starts'[j]]
    BY <1>1, <1>2, <2>2, LedgerFrame DEF IInv
  <2>5. /\ Starts[j] = jobs[j].attempts /\ Limit[j] = jobs[j].maxAttempts
        /\ Starts'[j] = jobs[j].attempts + 1
    BY <1>1, <1>2, <1>4, <2>1 DEF Starts, Limit
  <2>6. Starts' = [Starts EXCEPT ![j] = Starts[j] + 1]
    BY <2>4, <2>5
  <2>7. UNCHANGED Limit
    BY <1>2, <2>1 DEF Limit
  <2>8. Ledger!Start(j)
    BY <2>2, <2>3, <2>4, <2>5, <2>6, <2>7 DEF Ledger!Start, Starts, Limit
  <2> QED BY <2>8
<1> QED BY <1>3, <1>4

LEMMA LedgerComplete ==
  ASSUME IInv, TypeOK', NEW w \in Worker, Complete(w), NEW j \in JobId, j = worker[w].job
  PROVE  Ledger!Finish(j) \/ UNCHANGED <<LedgerPhase, Starts, Limit>>
<1>1. /\ Holds(w, j) /\ jobs \in [JobId -> Job] /\ UNCHANGED reopened
      /\ j \notin reopened => jobs[j].status = "running"
  BY DEF IInv, Complete, TypeOK, Holds, HeldRowsRun
<1>2. CASE j \in reopened
  <2>1. \A i \in JobId \ {j} : jobs'[i] = jobs[i]
    BY <1>1 DEF Complete
  <2> QED BY <1>1, <1>2, <2>1, LedgerAstray DEF IInv
<1>3. CASE j \notin reopened
  <2>1. jobs' = [jobs EXCEPT ![j] = CompletedRow(jobs[j])]
    BY <1>1, <1>3 DEF Complete, Present
  <2>2. /\ jobs'[j].status = "completed" /\ jobs'[j].attempts = jobs[j].attempts
        /\ jobs'[j].maxAttempts = jobs[j].maxAttempts
        /\ \A i \in JobId \ {j} : jobs'[i] = jobs[i]
    BY <1>1, <2>1, CompletedRowFacts
  <2>3. LedgerPhase[j] = "running" /\ LedgerPhase'[j] = "done"
    BY <1>1, <1>3, <2>2 DEF LedgerPhase, Claimable
  <2>4. LedgerPhase' = [LedgerPhase EXCEPT ![j] = "done"] /\ UNCHANGED <<Starts, Limit>>
    BY <1>1, <2>2, <2>3, LedgerMove DEF IInv
  <2>5. Ledger!Finish(j)
    BY <2>3, <2>4 DEF Ledger!Finish, Starts, Limit
  <2> QED BY <2>5
<1> QED BY <1>2, <1>3

LEMMA LedgerFailWrite ==
  ASSUME IInv, TypeOK', NEW w \in Worker, FailWrite(w), NEW j \in JobId, j = worker[w].job
  PROVE  Ledger!Bury(j) \/ Ledger!Requeue(j) \/ UNCHANGED <<LedgerPhase, Starts, Limit>>
<1> DEFINE seen == worker[w].seen
<1>1. /\ seen \in Nat /\ Holds(w, j) /\ jobs \in [JobId -> Job] /\ jobs[j].maxAttempts \in Nat
      /\ UNCHANGED reopened
      /\ j \notin reopened => /\ jobs[j].status = "running" /\ seen = jobs[j].attempts
                              /\ jobs[j].attempts <= jobs[j].maxAttempts
  BY DEF IInv, FailWrite, TypeOK, WorkerState, Holds, HeldRowsRun, FailureIsFresh, Job,
     AttemptsRespected
<1>2. CASE j \in reopened
  <2>1. \A i \in JobId \ {j} : jobs'[i] = jobs[i]
    BY <1>1 DEF FailWrite
  <2> QED BY <1>1, <1>2, <2>1, LedgerAstray DEF IInv
<1>3. CASE j \notin reopened
  <2>1. jobs' = [jobs EXCEPT ![j] = FailedRow(jobs[j], seen)]
    BY <1>1, <1>3 DEF FailWrite, Present
  <2>2. /\ jobs'[j].status = (IF seen >= jobs[j].maxAttempts THEN "dead" ELSE "failed")
        /\ jobs'[j].attempts = jobs[j].attempts
        /\ jobs'[j].maxAttempts = jobs[j].maxAttempts
        /\ \A i \in JobId \ {j} : jobs'[i] = jobs[i]
    BY <1>1, <2>1, FailedRowFacts
  <2>3. /\ LedgerPhase[j] = "running"
        /\ seen >= jobs[j].maxAttempts => LedgerPhase'[j] = "dead"
        /\ seen < jobs[j].maxAttempts => LedgerPhase'[j] = "waiting"
    BY <1>1, <1>3, <2>2 DEF LedgerPhase, Claimable
  <2>4. LedgerPhase' = [LedgerPhase EXCEPT ![j] = LedgerPhase'[j]] /\ UNCHANGED <<Starts, Limit>>
    BY <1>1, <2>2, LedgerMove DEF IInv
  <2>5. Starts[j] = seen /\ Limit[j] = jobs[j].maxAttempts
    BY <1>1, <1>3 DEF Starts, Limit
  <2>6. CASE seen >= jobs[j].maxAttempts
    <3>1. Starts[j] = Limit[j]
      BY <1>1, <1>3, <2>5, <2>6
    <3>2. Ledger!Bury(j)
      BY <2>3, <2>4, <2>6, <3>1 DEF Ledger!Bury, Starts, Limit
    <3> QED BY <3>2
  <2>7. CASE seen < jobs[j].maxAttempts
    <3>1. Starts[j] < Limit[j]
      BY <2>5, <2>7
    <3>2. Ledger!Requeue(j)
      BY <2>3, <2>4, <2>7, <3>1 DEF Ledger!Requeue, Starts, Limit
    <3> QED BY <3>2
  <2> QED BY <1>1, <2>6, <2>7
<1> QED BY <1>2, <1>3

LEMMA LedgerReplayWrite ==
  ASSUME IInv, TypeOK', NEW o \in Operator, ReplayWrite(o) \/ RetryDeadLetterWrite(o),
         NEW j \in JobId, j = operator[o].job
  PROVE  \/ Ledger!Revive(j) \/ Ledger!GoAstray(j)
         \/ UNCHANGED <<LedgerPhase, Starts, Limit>>
<1>1. /\ jobs[j].status # "unused" /\ jobs[j].status \in Status
      /\ \A i \in JobId \ {j} : jobs'[i] = jobs[i]
      /\ reopened \subseteq reopened' /\ reopened' \subseteq reopened \cup {j}
      /\ j \in reopened' \ reopened => jobs[j].status \notin {"dead", "purged"}
      /\ j \notin reopened' => jobs[j].status \in {"dead", "purged"}
      /\ ~ Present(j) => UNCHANGED <<jobs, reopened>>
      /\ Present(j) => /\ jobs'[j].status = "pending" /\ jobs'[j].attempts = 0
                       /\ jobs'[j].maxAttempts = jobs[j].maxAttempts
  <2>1. jobs[j].status \in Status
    BY DEF IInv, TypeOK, Job
  <2> QED BY <2>1, ReplayWriteFacts
<1>2. /\ LedgerPhase' = [LedgerPhase EXCEPT ![j] = LedgerPhase'[j]]
      /\ Starts' = [Starts EXCEPT ![j] = Starts'[j]]
      /\ Limit' = [Limit EXCEPT ![j] = Limit'[j]]
  BY <1>1, LedgerFrame DEF IInv
<1>3. CASE ~ Present(j)
  BY <1>1, <1>3, LedgerStutter
<1>4. CASE j \in reopened
  <2>1. UNCHANGED reopened
    BY <1>1, <1>4
  <2> QED BY <1>1, <1>4, <2>1, LedgerAstray DEF IInv
<1>5. CASE Present(j) /\ j \notin reopened /\ j \in reopened'
  <2>1. LedgerPhase[j] \in {"waiting", "running", "done"}
    BY <1>1, <1>5 DEF LedgerPhase, Claimable, Status, Present
  <2>2. LedgerPhase'[j] = "stray" /\ Starts'[j] = 0 /\ Limit'[j] = 0
    BY <1>5 DEF LedgerPhase, Starts, Limit
  <2>3. Ledger!GoAstray(j)
    BY <1>2, <2>1, <2>2 DEF Ledger!GoAstray, Starts, Limit
  <2> QED BY <2>3
<1>6. CASE Present(j) /\ j \notin reopened'
  <2>1. j \notin reopened /\ jobs[j].status = "dead"
    BY <1>1, <1>6 DEF Present
  <2>2. LedgerPhase[j] = "dead" /\ LedgerPhase'[j] = "waiting" /\ Starts'[j] = 0
    BY <1>1, <1>6, <2>1 DEF LedgerPhase, Claimable, Starts
  <2>3. UNCHANGED Limit
    BY <1>1, <1>6, <2>1 DEF Limit
  <2>4. Ledger!Revive(j)
    BY <1>2, <2>2, <2>3 DEF Ledger!Revive, Starts, Limit
  <2> QED BY <2>4
<1> QED BY <1>3, <1>4, <1>5, <1>6

LEMMA LedgerPurge ==
  ASSUME TypeOK, NEW S \in SUBSET JobId, PurgeDeadLetterJobs(S),
         NEW T \in SUBSET JobId, T = S \ reopened
  PROVE  Ledger!Purge(T) \/ UNCHANGED <<LedgerPhase, Starts, Limit>>
<1>1. /\ \A j \in S : jobs[j].status = "dead"
      /\ jobs' = [j \in JobId |-> IF j \in S THEN PurgedRow ELSE jobs[j]]
      /\ UNCHANGED reopened
  BY DEF PurgeDeadLetterJobs
<1>2. \A j \in T : LedgerPhase[j] = "dead"
  BY <1>1 DEF LedgerPhase, Claimable
<1>3. LedgerPhase' = [j \in JobId |-> IF j \in T THEN "purged" ELSE LedgerPhase[j]]
  BY <1>1, PurgedRowFacts DEF LedgerPhase, Claimable
<1>4. Starts' = [j \in JobId |-> IF j \in T THEN 0 ELSE Starts[j]]
  BY <1>1, PurgedRowFacts DEF Starts
<1>5. Limit' = [j \in JobId |-> IF j \in T THEN 0 ELSE Limit[j]]
  BY <1>1, PurgedRowFacts DEF Limit
<1>6. CASE T # {}
  BY <1>2, <1>3, <1>4, <1>5, <1>6 DEF Ledger!Purge, Starts, Limit
<1>7. CASE T = {}
  BY <1>3, <1>4, <1>5, <1>7 DEF LedgerPhase, Starts, Limit
<1> QED BY <1>6, <1>7

LEMMA LedgerStep ==
  ASSUME IInv, TypeOK', [Next]_vars
  PROVE  [Ledger!LedgerNext]_(Ledger!ledgerVars)
<1>1. ASSUME NEW w \in Worker,
             FindCandidate(w) \/ ClaimLost(w) \/ FailRead(w) \/ Crash(w)
      PROVE  UNCHANGED <<jobs, reopened>>
  BY <1>1 DEF FindCandidate, ClaimLost, FailRead, Crash
<1>2. ASSUME NEW o \in Operator, NEW j \in JobId, ReplayRead(o, j) \/ RetryDeadLetterRead(o, j)
      PROVE  UNCHANGED <<jobs, reopened>>
  BY <1>2 DEF ReplayRead, RetryDeadLetterRead, DeadRead
<1>3. CASE Tick \/ UNCHANGED vars
  <2>1. UNCHANGED <<jobs, reopened>>
    BY <1>3 DEF Tick, vars
  <2> QED BY <2>1, LedgerStutter DEF Ledger!ledgerVars, Starts, Limit
<1>4. CASE UNCHANGED <<jobs, reopened>>
  BY <1>4, LedgerStutter DEF Ledger!ledgerVars, Starts, Limit
<1>5. CASE UNCHANGED <<LedgerPhase, Starts, Limit>>
  BY <1>5 DEF Ledger!ledgerVars, Starts, Limit
<1>6. ASSUME NEW w \in Worker, ClaimWon(w) \/ Complete(w) \/ FailWrite(w)
      PROVE  [Ledger!LedgerNext]_(Ledger!ledgerVars)
  <2>1. worker[w].job \in JobId
    BY <1>6 DEF IInv, TypeOK, ClaimWon, Complete, FailWrite
  <2>2. PICK j \in JobId : j = worker[w].job
    BY <2>1
  <2>3. \/ Ledger!Start(j) \/ Ledger!Finish(j) \/ Ledger!Bury(j) \/ Ledger!Requeue(j)
        \/ UNCHANGED <<LedgerPhase, Starts, Limit>>
    BY <1>6, <2>2, LedgerClaimWon, LedgerComplete, LedgerFailWrite
  <2> QED BY <1>5, <2>3 DEF Ledger!LedgerNext
<1>7. ASSUME NEW o \in Operator, ReplayWrite(o) \/ RetryDeadLetterWrite(o)
      PROVE  [Ledger!LedgerNext]_(Ledger!ledgerVars)
  <2>1. operator[o].job \in JobId
    BY <1>7 DEF IInv, TypeOK, ReplayWrite, RetryDeadLetterWrite, BackToPending
  <2>2. PICK j \in JobId : j = operator[o].job
    BY <2>1
  <2>3. Ledger!Revive(j) \/ Ledger!GoAstray(j) \/ UNCHANGED <<LedgerPhase, Starts, Limit>>
    BY <1>7, <2>2, LedgerReplayWrite
  <2> QED BY <1>5, <2>3 DEF Ledger!LedgerNext
<1>8. ASSUME NEW j \in JobId, NEW q \in CallerQueue, NEW p \in Priority,
             NEW m \in AttemptLimit, NEW d \in Delay, Enqueue(j, q, p, m, d)
      PROVE  Ledger!LedgerNext
  BY <1>8, LedgerEnqueue DEF Ledger!LedgerNext
<1>9. ASSUME NEW S \in SUBSET JobId, PurgeDeadLetterJobs(S)
      PROVE  [Ledger!LedgerNext]_(Ledger!ledgerVars)
  <2>1. PICK T \in SUBSET JobId : T = S \ reopened
    OBVIOUS
  <2>2. Ledger!Purge(T) \/ UNCHANGED <<LedgerPhase, Starts, Limit>>
    BY <1>9, <2>1, LedgerPurge DEF IInv
  <2> QED BY <1>5, <2>2 DEF Ledger!LedgerNext
<1> QED BY <1>1, <1>2, <1>3, <1>4, <1>6, <1>7, <1>8, <1>9 DEF Next

(* Whatever the interleaving, the table's find, claim, fail and replay     *)
(* statements look to its users like the one-step operations of the        *)
(* ledger; a row that a late replay reopens is, from then on, astray.      *)
THEOREM TableImplementsLedger == Spec => ImplementsLedger
<1>1. Init => Ledger!LedgerInit
  BY NewRowFacts DEF Init, Ledger!LedgerInit, LedgerPhase, Claimable
<1>2. IInv /\ TypeOK' /\ [Next]_vars => [Ledger!LedgerNext]_(Ledger!ledgerVars)
  BY LedgerStep
<1> QED BY <1>1, <1>2, InvariantHolds, TypeCorrect, PTL
  DEF Spec, ImplementsLedger, Ledger!LedgerSpec
=============================================================================
