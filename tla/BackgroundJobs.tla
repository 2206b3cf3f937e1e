--------------------------- MODULE BackgroundJobs ---------------------------
(***************************************************************************)
(* The durable job table of apps/api (lib/background-job.service.ts).      *)
(*                                                                         *)
(* Every public method of BackgroundJobService that writes is modelled one *)
(* database statement per action, because each await between two           *)
(* statements lets other workers and other requests in.  The job processor *)
(* that polls claimNext and then calls complete or fail is not in the      *)
(* repository; it is the worker of this module: it claims, runs the        *)
(* handler, reports the outcome, and may crash at any point.               *)
(*                                                                         *)
(* The job's payload, type and error text are left out: claimNext filters  *)
(* on one type, and the table here holds the jobs of that type.            *)
(***************************************************************************)
EXTENDS Integers

CONSTANTS
  JobId,         \* row identifiers (cuid: never reused)
  NoJob,         \* the null job identifier
  Worker,        \* concurrent callers of claimNext/complete/fail
  Operator,      \* concurrent callers of replay and retryDeadLetter
  PollQueue,     \* PollQueue[w]: the queue argument worker w passes, or AnyQueue
  Priority,      \* priorities callers enqueue with
  AttemptLimit,  \* values of maxAttempts callers enqueue with
  Delay,         \* how far in the future callers schedule a job
  LockDuration,  \* LOCK_DURATION_MS
  MaxTime,       \* bound on the clock
  MaxCrashes,    \* bound on worker crashes
  MaxReplays     \* bound on replay requests

AnyQueue == "any"
CallerQueue == {"default", "webhooks"}
Queue == CallerQueue \cup {"retry", "dead_letter"}
NoLock == -1

ASSUME JobsAssumption ==
  /\ NoJob \notin JobId
  /\ PollQueue \in [Worker -> Queue \cup {AnyQueue}]
  /\ Priority \subseteq Nat
  /\ AttemptLimit \subseteq Nat \ {0}
  /\ Delay \subseteq Nat
  /\ LockDuration \in Nat
  /\ MaxTime \in Nat /\ MaxCrashes \in Nat /\ MaxReplays \in Nat

VARIABLES
  jobs,      \* the background_jobs table; "unused" and "purged" rows are absent
  worker,    \* each worker's program counter and local variables
  operator,  \* each replay request's program counter and local variables
  now,       \* the clock new Date() reads
  crashes,   \* worker crashes so far
  replays,   \* replay requests started so far
  reopened   \* history: rows a late replay has put back although they had moved on

vars == <<jobs, worker, operator, now, crashes, replays, reopened>>

Status == {"unused", "pending", "running", "completed", "failed", "dead", "purged"}
Claimable == {"pending", "failed"}

Job == [status : Status, queue : Queue, priority : Nat, attempts : Nat,
        maxAttempts : Nat, scheduledAt : Nat, lockedUntil : Nat \cup {NoLock}]

NewRow == [status |-> "unused", queue |-> "default", priority |-> 0, attempts |-> 0,
           maxAttempts |-> 0, scheduledAt |-> 0, lockedUntil |-> NoLock]

\* at is the `now` a claim captured; seen is the attempts value fail read.
WorkerState == [pc : {"idle", "found", "running", "failing"},
                job : JobId \cup {NoJob}, at : Nat, seen : Nat]

IdleWorker == [pc |-> "idle", job |-> NoJob, at |-> 0, seen |-> 0]

\* late is history: another replay has put the row back since this one read it.
OperatorState ==
  [pc : {"idle", "replay", "retry"}, job : JobId \cup {NoJob}, late : BOOLEAN]

IdleOperator == [pc |-> "idle", job |-> NoJob, late |-> FALSE]

Present(j) == jobs[j].status \notin {"unused", "purged"}

LockFree(j, t) == jobs[j].lockedUntil = NoLock \/ jobs[j].lockedUntil <= t

Init ==
  /\ jobs = [j \in JobId |-> NewRow]
  /\ worker = [w \in Worker |-> IdleWorker]
  /\ operator = [o \in Operator |-> IdleOperator]
  /\ now = 0 /\ crashes = 0 /\ replays = 0 /\ reopened = {}

-----------------------------------------------------------------------------
(* enqueue: a caller inserts a pending row. *)
PendingRow(q, p, m, t) ==
  [status |-> "pending", queue |-> q, priority |-> p, attempts |-> 0,
   maxAttempts |-> m, scheduledAt |-> t, lockedUntil |-> NoLock]

Enqueue(j, q, p, m, d) ==
  /\ jobs[j].status = "unused"
  /\ now + d <= MaxTime
  /\ jobs' = [jobs EXCEPT ![j] = PendingRow(q, p, m, now + d)]
  /\ UNCHANGED <<worker, operator, now, crashes, replays, reopened>>

(* Mutant: the attempts filter is off by one, and forbids the last attempt. *)
DueOffByOne(w) ==
  {j \in JobId :
     /\ jobs[j].status \in Claimable
     /\ jobs[j].scheduledAt <= now
     /\ jobs[j].attempts + 1 < jobs[j].maxAttempts
     /\ LockFree(j, now)
     /\ PollQueue[w] \in {AnyQueue, jobs[j].queue}}

(* claimNext, first statement: the rows its findFirst may return. *)
Due(w) ==
  {j \in JobId :
     /\ jobs[j].status \in Claimable
     /\ jobs[j].scheduledAt <= now
     /\ jobs[j].attempts < jobs[j].maxAttempts
     /\ LockFree(j, now)
     /\ PollQueue[w] \in {AnyQueue, jobs[j].queue}}

(* orderBy priority desc, scheduledAt asc. *)
Precedes(i, j) ==
  \/ jobs[i].priority > jobs[j].priority
  \/ jobs[i].priority = jobs[j].priority /\ jobs[i].scheduledAt < jobs[j].scheduledAt

FindCandidate(w) ==
  /\ worker[w].pc = "idle"
  /\ \E j \in Due(w) :
       /\ ~ \E i \in Due(w) : Precedes(i, j)
       /\ worker' = [worker EXCEPT ![w] =
            [IdleWorker EXCEPT !.pc = "found", !.job = j, !.at = now]]
  /\ UNCHANGED <<jobs, operator, now, crashes, replays, reopened>>

(* Mutant: the conditional update lost its conditions. *)
ClaimUnchecked(j, t) == Present(j)

(* claimNext, second statement: the WHERE clause of updateMany.  It checks *)
(* status and lock against the captured clock, and nothing else.           *)
StillClaimable(j, t) == jobs[j].status \in Claimable /\ LockFree(j, t)

ClaimedRow(row, t) ==
  [row EXCEPT !.status = "running", !.attempts = row.attempts + 1,
              !.lockedUntil = t + LockDuration]

ClaimWon(w) ==
  LET j == worker[w].job IN
  /\ worker[w].pc = "found"
  /\ StillClaimable(j, worker[w].at)
  /\ jobs' = [jobs EXCEPT ![j] = ClaimedRow(jobs[j], worker[w].at)]
  /\ worker' = [worker EXCEPT ![w] = [IdleWorker EXCEPT !.pc = "running", !.job = j]]
  /\ UNCHANGED <<operator, now, crashes, replays, reopened>>

(* updated.count === 0: claimNext returns null. *)
ClaimLost(w) ==
  /\ worker[w].pc = "found"
  /\ ~ StillClaimable(worker[w].job, worker[w].at)
  /\ worker' = [worker EXCEPT ![w] = IdleWorker]
  /\ UNCHANGED <<jobs, operator, now, crashes, replays, reopened>>

-----------------------------------------------------------------------------
(* Mutant: completion forgets to clear the lock. *)
CompletedKeepsLock(row) == [row EXCEPT !.status = "completed"]

(* complete: one update by id; a purged row makes it throw, and nothing is *)
(* written.  Neither the row's status nor its holder is checked.           *)
CompletedRow(row) == [row EXCEPT !.status = "completed", !.lockedUntil = NoLock]

Complete(w) ==
  LET j == worker[w].job IN
  /\ worker[w].pc = "running"
  /\ jobs' = IF Present(j)
             THEN [jobs EXCEPT ![j] = CompletedRow(jobs[j])]
             ELSE jobs
  /\ worker' = [worker EXCEPT ![w] = IdleWorker]
  /\ UNCHANGED <<operator, now, crashes, replays, reopened>>

(* fail, first statement: reads the row, and returns when it is gone. *)
FailRead(w) ==
  LET j == worker[w].job IN
  /\ worker[w].pc = "running"
  /\ worker' = [worker EXCEPT ![w] =
       IF Present(j)
       THEN [IdleWorker EXCEPT !.pc = "failing", !.job = j, !.seen = jobs[j].attempts]
       ELSE IdleWorker]
  /\ UNCHANGED <<jobs, operator, now, crashes, replays, reopened>>

(* Mutants: exhaustion tested with > instead of >=; a misspelt queue. *)
FailedOneTooLate(row, seen) ==
  [row EXCEPT !.status = IF seen > row.maxAttempts THEN "dead" ELSE "failed",
              !.lockedUntil = NoLock,
              !.queue = IF seen > row.maxAttempts THEN "dead_letter" ELSE row.queue]
FailedMisrouted(row, seen) ==
  [row EXCEPT !.status = "failed", !.lockedUntil = NoLock, !.queue = "retries"]

(* fail, second statement: the row as fail leaves it, decided from the     *)
(* attempts it read.  The last retry before exhaustion changes queue.      *)
FailedRow(row, seen) ==
  LET isDead == seen >= row.maxAttempts
      q == IF isDead THEN "dead_letter"
           ELSE IF seen >= row.maxAttempts - 1 THEN "retry" ELSE row.queue
  IN [row EXCEPT !.status = IF isDead THEN "dead" ELSE "failed",
                 !.lockedUntil = NoLock, !.queue = q]

FailWrite(w) ==
  LET j == worker[w].job IN
  /\ worker[w].pc = "failing"
  /\ jobs' = IF Present(j) THEN [jobs EXCEPT ![j] = FailedRow(jobs[j], worker[w].seen)]
             ELSE jobs
  /\ worker' = [worker EXCEPT ![w] = IdleWorker]
  /\ UNCHANGED <<operator, now, crashes, replays, reopened>>

(* The worker process dies and restarts: its local state is gone. *)
Crash(w) ==
  /\ worker[w].pc # "idle"
  /\ crashes < MaxCrashes
  /\ crashes' = crashes + 1
  /\ worker' = [worker EXCEPT ![w] = IdleWorker]
  /\ UNCHANGED <<jobs, operator, now, replays, reopened>>

-----------------------------------------------------------------------------
(* Mutant: the replay does not look at the status. *)
AnyRead(o, j, pc) ==
  /\ operator[o].pc = "idle"
  /\ Present(j)
  /\ replays < MaxReplays
  /\ replays' = replays + 1
  /\ operator' = [operator EXCEPT ![o] = [IdleOperator EXCEPT !.pc = pc, !.job = j]]
  /\ UNCHANGED <<jobs, worker, now, crashes, reopened>>

(* replay and retryDeadLetter read the row and go on only when it is dead. *)
DeadRead(o, j, pc) ==
  /\ operator[o].pc = "idle"
  /\ jobs[j].status = "dead"
  /\ replays < MaxReplays
  /\ replays' = replays + 1
  /\ operator' = [operator EXCEPT ![o] = [IdleOperator EXCEPT !.pc = pc, !.job = j]]
  /\ UNCHANGED <<jobs, worker, now, crashes, reopened>>

(* Mutant: the revived job keeps its attempts. *)
RevivedSpent(row) ==
  [row EXCEPT !.status = "pending", !.lockedUntil = NoLock,
              !.scheduledAt = now, !.queue = "retry"]

(* Both then write by id, without checking the status again: of two        *)
(* replays that have read the row dead, the later one may find it claimed, *)
(* running or completed, and reopens it.  The queue they compute from the  *)
(* row they read is "retry" for a dead row.                                *)
RevivedRow(row) ==
  [row EXCEPT !.status = "pending", !.attempts = 0, !.lockedUntil = NoLock,
              !.scheduledAt = now, !.queue = "retry"]

BackToPending(o, pc) ==
  LET j == operator[o].job IN
  /\ operator[o].pc = pc
  /\ jobs' = IF Present(j)
             THEN [jobs EXCEPT ![j] = RevivedRow(jobs[j])]
             ELSE jobs
  /\ operator' = [a \in Operator |->
       IF a = o THEN IdleOperator
       ELSE IF operator[a].pc # "idle" /\ operator[a].job = j
       THEN [operator[a] EXCEPT !.late = TRUE] ELSE operator[a]]
  /\ reopened' = IF operator[o].late /\ jobs[j].status \notin {"dead", "purged"}
                 THEN reopened \cup {j} ELSE reopened
  /\ UNCHANGED <<worker, now, crashes, replays>>

ReplayRead(o, j) == DeadRead(o, j, "replay")
ReplayWrite(o) == BackToPending(o, "replay")
RetryDeadLetterRead(o, j) == DeadRead(o, j, "retry")
RetryDeadLetterWrite(o) == BackToPending(o, "retry")

(* purgeDeadLetterJobs: retentionDays is an argument, so any dead rows may *)
(* be the ones older than the cutoff.                                      *)
PurgedRow == [NewRow EXCEPT !.status = "purged"]

PurgeDeadLetterJobs(S) ==
  /\ S # {}
  /\ \A j \in S : jobs[j].status = "dead"
  /\ jobs' = [j \in JobId |-> IF j \in S THEN PurgedRow ELSE jobs[j]]
  /\ UNCHANGED <<worker, operator, now, crashes, replays, reopened>>

Tick ==
  /\ now < MaxTime
  /\ now' = now + 1
  /\ UNCHANGED <<jobs, worker, operator, crashes, replays, reopened>>

-----------------------------------------------------------------------------
Next ==
  \/ \E j \in JobId, q \in CallerQueue, p \in Priority, m \in AttemptLimit, d \in Delay :
       Enqueue(j, q, p, m, d)
  \/ \E w \in Worker :
       \/ FindCandidate(w) \/ ClaimWon(w) \/ ClaimLost(w)
       \/ Complete(w) \/ FailRead(w) \/ FailWrite(w) \/ Crash(w)
  \/ \E o \in Operator, j \in JobId : ReplayRead(o, j) \/ RetryDeadLetterRead(o, j)
  \/ \E o \in Operator : ReplayWrite(o) \/ RetryDeadLetterWrite(o)
  \/ \E S \in SUBSET JobId : PurgeDeadLetterJobs(S)
  \/ Tick

Spec == Init /\ [][Next]_vars

(* The processor keeps polling and a handler always ends (the only handler *)
(* in the repository, retryDelivery, aborts its request after ten seconds) *)
(* but nothing says how it ends; time passes; a request that has begun     *)
(* runs on.  No fairness is owed to callers, to operators' first step, to  *)
(* the purge or to crashes.                                                *)
Fairness ==
  /\ \A w \in Worker :
       /\ WF_vars(FindCandidate(w))
       /\ WF_vars(ClaimWon(w) \/ ClaimLost(w))
       /\ WF_vars(Complete(w) \/ FailRead(w))
       /\ WF_vars(FailWrite(w))
  /\ \A o \in Operator : WF_vars(ReplayWrite(o) \/ RetryDeadLetterWrite(o))
  /\ WF_vars(Tick)

FairSpec == Spec /\ Fairness
-----------------------------------------------------------------------------
(* The types of the table, of the workers' and of the operators' locals. *)
TypeOK ==
  /\ jobs \in [JobId -> Job]
  /\ worker \in [Worker -> WorkerState]
  /\ operator \in [Operator -> OperatorState]
  /\ now \in Nat /\ crashes \in Nat /\ replays \in Nat /\ reopened \subseteq JobId
  /\ \A w \in Worker : worker[w].pc # "idle" => worker[w].job \in JobId
  /\ \A o \in Operator : operator[o].pc # "idle" => operator[o].job \in JobId

Holds(w, j) == worker[w].pc \in {"running", "failing"} /\ worker[w].job = j

(* The claim keeps two workers from processing one job at the same time    *)
(* (the lock comment at line 54), although find and update are separate,   *)
(* unless a late replay reopened the row.                                  *)
MutualExclusion ==
  \A v, w \in Worker : \A j \in JobId \ reopened : Holds(v, j) /\ Holds(w, j) => v = w

(* No job is started more often than maxAttempts allows, although the      *)
(* claim does not recheck attempts when it increments it (line 8), unless  *)
(* a late replay reopened it.                                              *)
AttemptsRespected ==
  \A j \in JobId \ reopened : jobs[j].attempts <= jobs[j].maxAttempts

(* A job that failed its last attempt is in the dead-letter queue and not  *)
(* left "failed", where claimNext would skip it for good; and nothing else *)
(* is ever in that queue; unless a late replay reopened the row.           *)
DeadLetterComplete ==
  \A j \in JobId \ reopened :
    /\ jobs[j].status \in Claimable => jobs[j].attempts < jobs[j].maxAttempts
    /\ jobs[j].status = "dead" <=> jobs[j].queue = "dead_letter"

(* lockedUntil is set exactly while the row is running, whatever overlaps, *)
(* so the test for an expired lock in claimNext never frees a job: only    *)
(* its worker does, or a late replay.                                      *)
LockIffRunning ==
  \A j \in JobId : jobs[j].lockedUntil # NoLock <=> jobs[j].status = "running"

(* A completed job stays completed: no late report, no purge and no replay *)
(* ever brings its row back to the queue, but a replay that another one    *)
(* of the same row has outrun.                                             *)
CompletedIsFinal ==
  [][\A j \in JobId :
       jobs[j].status = "completed" /\ j \notin reopened' => jobs'[j] = jobs[j]]_vars

(* What the protocol keeps true between its statements, of rows that no    *)
(* late replay reopened: a job being processed is running, the attempts a  *)
(* failure report has read are still the row's, and a row a replay has     *)
(* read as dead is still dead, or purged, unless another replay was faster.*)
HeldRowsRun ==
  \A w \in Worker : \A j \in JobId \ reopened : Holds(w, j) => jobs[j].status = "running"
FailureIsFresh ==
  \A w \in Worker : worker[w].pc = "failing" /\ worker[w].job \notin reopened
    => worker[w].seen = jobs[worker[w].job].attempts
ReplaySeesDead ==
  \A o \in Operator : operator[o].pc # "idle" /\ ~ operator[o].late =>
    \/ jobs[operator[o].job].status \in {"dead", "purged"}
    \/ operator[o].job \in reopened
ReplaysSeeRows ==
  \A o \in Operator : operator[o].pc # "idle" => jobs[operator[o].job].status # "unused"
LimitsPositive ==
  \A j \in JobId : Present(j) => jobs[j].maxAttempts > 0
UnusedIsNew ==
  \A j \in JobId : jobs[j].status = "unused" => jobs[j].attempts = 0 /\ j \notin reopened

IInv ==
  /\ TypeOK /\ MutualExclusion /\ AttemptsRespected /\ DeadLetterComplete /\ LockIffRunning
  /\ HeldRowsRun /\ FailureIsFresh /\ ReplaySeesDead /\ ReplaysSeeRows
  /\ LimitsPositive /\ UnusedIsNew

(* Every job a caller enqueues ends completed, dead or purged, unless a    *)
(* worker crashes or a late replay reopens the job.                        *)
Settled(j) == jobs[j].status \in {"completed", "dead", "purged"}
EveryJobSettles ==
  \A j \in JobId :
    jobs[j].status \in Claimable ~> Settled(j) \/ crashes > 0 \/ j \in reopened

(* A running job always leaves that status again: the record is durable    *)
(* and its execution retry-safe (schema.prisma:330).                       *)
NoJobStranded == \A j \in JobId : jobs[j].status = "running" ~> jobs[j].status # "running"

-----------------------------------------------------------------------------
(* The job table implements the ledger: what find, claim, fail and replay  *)
(* do in several statements is, for the row, one step of JobLedger; a row  *)
(* that a late replay reopens goes astray there, once and for all.         *)
LedgerPhase ==
  [j \in JobId |->
     IF j \in reopened THEN "stray"
     ELSE IF jobs[j].status \in Claimable THEN "waiting"
     ELSE IF jobs[j].status = "unused" THEN "none"
     ELSE IF jobs[j].status = "completed" THEN "done"
     ELSE jobs[j].status]

Ledger == INSTANCE JobLedger WITH
  phase <- LedgerPhase,
  starts <- [j \in JobId |-> IF j \in reopened THEN 0 ELSE jobs[j].attempts],
  limit <- [j \in JobId |-> IF j \in reopened THEN 0 ELSE jobs[j].maxAttempts]

ImplementsLedger == Ledger!LedgerSpec
=============================================================================
