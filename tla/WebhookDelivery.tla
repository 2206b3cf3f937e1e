--------------------------- MODULE WebhookDelivery ---------------------------
(***************************************************************************)
(* Webhook deliveries and their retries (lib/webhook-delivery.service.ts), *)
(* on top of the job table.                                                *)
(*                                                                         *)
(* The table is the ledger of JobLedger, which BackgroundJobs implements.  *)
(* deliver posts an event once and, when that fails, enqueues a            *)
(* `webhook.retry` job; the job processor runs retryDelivery for it, and   *)
(* tells the table complete or fail by whether retryDelivery threw.  Each  *)
(* await is a point where other deliveries and other jobs run.             *)
(*                                                                         *)
(* Delays are left out: the table may start a waiting job at any time.     *)
(***************************************************************************)
EXTENDS Naturals, Sequences, FiniteSets

CONSTANTS
  Delivery,      \* deliveryId: one per call of deliver
  JobId,         \* rows of the job table
  MaxAttempts,   \* MAX_ATTEMPTS, the length of RETRY_DELAYS_MS
  LogSize,       \* MAX_LOG_SIZE
  MaxReplays,    \* bound on dead jobs an operator replays
  MaxCrashes     \* bound on restarts of the API process

ASSUME WebhookAssumption ==
  /\ MaxAttempts \in Nat \ {0} /\ LogSize \in Nat \ {0}
  /\ MaxReplays \in Nat /\ MaxCrashes \in Nat

VARIABLES
  phase, starts, limit,  \* the job table (JobLedger)
  task,       \* task[j]: the delivery and attempt in the payload of job j
  caller,     \* caller[d]: where the call of deliver is
  handler,    \* handler[j]: where the execution of job j is
  log,        \* deliveryLog, newest first
  sends,      \* sends[d][a]: POSTs made for attempt a of d (0 is deliver's own)
  acked,      \* deliveries some POST of which was answered with 2xx
  exhausted,  \* exhausted[d]: webhook.delivery.exhausted audit entries
  replays, crashes

tableVars == <<phase, starts, limit>>
bounds == <<replays, crashes>>
vars == <<tableVars, task, caller, handler, log, sends, acked, exhausted, bounds>>

Table == INSTANCE JobLedger

Attempt == 0 .. MaxAttempts
LogRecord == [id : Delivery, attempts : Attempt, delivered : BOOLEAN, error : BOOLEAN]

\* The payload of a row, and of one nobody has written yet.
Task == [delivery : Delivery, attempt : 1 .. MaxAttempts]
NoTask == [delivery |-> "none", attempt |-> 0]

Init ==
  /\ limit = [j \in JobId |-> 0] /\ Table!LedgerInit
  /\ task = [j \in JobId |-> NoTask]
  /\ caller = [d \in Delivery |-> "none"]
  /\ handler = [j \in JobId |-> "idle"]
  /\ log = <<>>
  /\ sends = [d \in Delivery |-> [a \in Attempt |-> 0]]
  /\ acked = {}
  /\ exhausted = [d \in Delivery |-> 0]
  /\ replays = 0 /\ crashes = 0

-----------------------------------------------------------------------------
(* The log is a bounded stack of records, updated in place by id. *)

(* Mutant: the log is never cut. *)
AddToLogUncut(r) == log' = <<r>> \o log

AddToLog(r) ==
  LET grown == <<r>> \o log
  IN log' = SubSeq(grown, 1, IF Len(grown) > LogSize THEN LogSize ELSE Len(grown))

\* The record of d, if it is still there, is changed.
UpdateLog(d, change) ==
  log' = [i \in DOMAIN log |-> IF log[i].id = d THEN change[log[i]] ELSE log[i]]

CountSend(d, a) == sends' = [sends EXCEPT ![d][a] = @ + 1]

(* jobs.enqueue of a `webhook.retry` job, in a new row; which one it is    *)
(* makes no difference.                                                    *)
FreeRow == CHOOSE j \in JobId : phase[j] = "none"

EnqueueRetry(j, d, a) ==
  /\ phase[j] = "none" /\ j = FreeRow
  /\ limit' = [limit EXCEPT ![j] = MaxAttempts]
  /\ Table!Submit(j)
  /\ task' = [task EXCEPT ![j] = [delivery |-> d, attempt |-> a]]

-----------------------------------------------------------------------------
(* deliver: post once, log the outcome, and enqueue the first retry when   *)
(* the post failed.                                                        *)
Deliver(d) ==
  /\ caller[d] = "none"
  /\ caller' = [caller EXCEPT ![d] = "sending"]
  /\ CountSend(d, 0)
  /\ UNCHANGED <<tableVars, task, handler, log, acked, exhausted, bounds>>

DeliverSucceeds(d) ==
  /\ caller[d] = "sending"
  /\ caller' = [caller EXCEPT ![d] = "done"]
  /\ acked' = acked \cup {d}
  /\ AddToLog([id |-> d, attempts |-> 1, delivered |-> TRUE, error |-> FALSE])
  /\ UNCHANGED <<tableVars, task, handler, sends, exhausted, bounds>>

(* A non-2xx answer, a network error or the ten-second timeout. *)
DeliverFails(d) ==
  /\ caller[d] = "sending"
  /\ caller' = [caller EXCEPT ![d] = "failed"]
  /\ AddToLog([id |-> d, attempts |-> 1, delivered |-> FALSE, error |-> TRUE])
  /\ UNCHANGED <<tableVars, task, handler, sends, acked, exhausted, bounds>>

DeliverEnqueues(d, j) ==
  /\ caller[d] = "failed"
  /\ EnqueueRetry(j, d, 1)
  /\ caller' = [caller EXCEPT ![d] = "done"]
  /\ UNCHANGED <<starts, handler, log, sends, acked, exhausted, bounds>>

-----------------------------------------------------------------------------
(* retryDelivery, run by the job processor for a claimed job: the log      *)
(* record takes the attempt number of the payload, and the post goes out.  *)
StartRetry(j) ==
  LET d == task[j].delivery
      a == task[j].attempt
  IN
  /\ handler[j] = "idle"
  /\ Table!Start(j)
  /\ handler' = [handler EXCEPT ![j] = "sending"]
  /\ UpdateLog(d, [r \in LogRecord |-> [r EXCEPT !.attempts = a]])
  /\ CountSend(d, a)
  /\ UNCHANGED <<task, caller, acked, exhausted, bounds>>

RetrySucceeds(j) ==
  LET d == task[j].delivery IN
  /\ handler[j] = "sending"
  /\ handler' = [handler EXCEPT ![j] = "sent"]
  /\ acked' = acked \cup {d}
  /\ UpdateLog(d, [r \in LogRecord |-> [r EXCEPT !.delivered = TRUE, !.error = FALSE]])
  /\ UNCHANGED <<tableVars, task, caller, sends, exhausted, bounds>>

RetryFails(j) ==
  LET d == task[j].delivery IN
  /\ handler[j] = "sending"
  /\ handler' = [handler EXCEPT ![j] = "failed"]
  /\ UpdateLog(d, [r \in LogRecord |-> [r EXCEPT !.error = TRUE]])
  /\ UNCHANGED <<tableVars, task, caller, sends, acked, exhausted, bounds>>

(* Mutant: the last attempt is not recognised as exhausted any more. *)
ExhaustSilently(j) ==
  /\ handler[j] = "failed"
  /\ task[j].attempt >= MaxAttempts
  /\ handler' = [handler EXCEPT ![j] = "threw"]
  /\ UNCHANGED <<tableVars, task, caller, log, sends, acked, exhausted, bounds>>

(* The last attempt failed: an audit entry, then the error is rethrown. *)
Exhaust(j) ==
  LET d == task[j].delivery IN
  /\ handler[j] = "failed"
  /\ task[j].attempt >= MaxAttempts
  /\ exhausted' = [exhausted EXCEPT ![d] = @ + 1]
  /\ handler' = [handler EXCEPT ![j] = "threw"]
  /\ UNCHANGED <<tableVars, task, caller, log, sends, acked, bounds>>

(* Mutant: the new payload carries the same attempt number. *)
RescheduleSameAttempt(j, k) ==
  /\ handler[j] = "failed"
  /\ task[j].attempt < MaxAttempts
  /\ EnqueueRetry(k, task[j].delivery, task[j].attempt)
  /\ handler' = [handler EXCEPT ![j] = "threw"]
  /\ UNCHANGED <<starts, caller, log, sends, acked, exhausted, bounds>>

(* Mutant: the handler enqueues, and enqueues again. *)
RescheduleAgain(j, k) ==
  /\ handler[j] = "failed"
  /\ task[j].attempt < MaxAttempts
  /\ EnqueueRetry(k, task[j].delivery, task[j].attempt + 1)
  /\ UNCHANGED <<starts, caller, handler, log, sends, acked, exhausted, bounds>>

(* An earlier attempt failed: a new job for the next one, and the error is *)
(* rethrown all the same, so the table also retries this job.              *)
Reschedule(j, k) ==
  /\ handler[j] = "failed"
  /\ task[j].attempt < MaxAttempts
  /\ EnqueueRetry(k, task[j].delivery, task[j].attempt + 1)
  /\ handler' = [handler EXCEPT ![j] = "threw"]
  /\ UNCHANGED <<starts, caller, log, sends, acked, exhausted, bounds>>

(* The processor reports the outcome to the job table. *)
ReportDone(j) ==
  /\ handler[j] = "sent"
  /\ Table!Finish(j)
  /\ handler' = [handler EXCEPT ![j] = "idle"]
  /\ UNCHANGED <<task, caller, log, sends, acked, exhausted, bounds>>

ReportFailed(j) ==
  /\ handler[j] = "threw"
  /\ Table!Requeue(j) \/ Table!Bury(j)
  /\ handler' = [handler EXCEPT ![j] = "idle"]
  /\ UNCHANGED <<task, caller, log, sends, acked, exhausted, bounds>>

-----------------------------------------------------------------------------
(* Operators replay and purge dead jobs of the table. *)
Replay(j) ==
  /\ replays < MaxReplays
  /\ replays' = replays + 1
  /\ Table!Revive(j)
  /\ UNCHANGED <<task, caller, handler, log, sends, acked, exhausted, crashes>>

Purge(j) ==
  /\ Table!Purge({j})
  /\ UNCHANGED <<task, caller, handler, log, sends, acked, exhausted, bounds>>

(* The API process restarts.  The log is in memory; the jobs whose         *)
(* handlers were running keep the status running.                          *)
Crash ==
  /\ crashes < MaxCrashes
  /\ crashes' = crashes + 1
  /\ caller' = [d \in Delivery |->
                  IF caller[d] \in {"sending", "failed"} THEN "lost" ELSE caller[d]]
  /\ handler' = [j \in JobId |-> "idle"]
  /\ log' = <<>>
  /\ UNCHANGED <<tableVars, task, sends, acked, exhausted, replays>>

-----------------------------------------------------------------------------
RunJob(j) ==
  \/ StartRetry(j) \/ RetrySucceeds(j) \/ RetryFails(j) \/ Exhaust(j)
  \/ ReportDone(j) \/ ReportFailed(j)
  \/ \E k \in JobId : Reschedule(j, k)

ContinueDeliver(d) ==
  \/ DeliverSucceeds(d) \/ DeliverFails(d)
  \/ \E j \in JobId : DeliverEnqueues(d, j)

Next ==
  \/ \E d \in Delivery : Deliver(d) \/ ContinueDeliver(d)
  \/ \E j \in JobId : RunJob(j) \/ Replay(j) \/ Purge(j)
  \/ Crash

Spec == Init /\ [][Next]_vars

(* BackgroundJobs shows that every job settles; here that is the processor *)
(* running every claimed job on.  A begun call of deliver runs on too: the *)
(* post is aborted after ten seconds.  Nobody has to replay, to purge, to  *)
(* deliver or to crash.                                                    *)
Fairness ==
  /\ \A d \in Delivery : WF_vars(ContinueDeliver(d))
  /\ \A j \in JobId : WF_vars(RunJob(j))

FairSpec == Spec /\ Fairness

-----------------------------------------------------------------------------
JobsOf(d) == {j \in JobId : task[j].delivery = d}

(* The table, the payloads, the calls in progress and the log have their   *)
(* types, and the log never grows beyond its bound.                        *)
TypeOK ==
  /\ phase \in [JobId -> Table!Phase]
  /\ starts \in [JobId -> Nat] /\ limit \in [JobId -> {0, MaxAttempts}]
  /\ task \in [JobId -> Task \cup {NoTask}]
  /\ caller \in [Delivery -> {"none", "sending", "failed", "done", "lost"}]
  /\ handler \in [JobId -> {"idle", "sending", "sent", "failed", "threw"}]
  /\ log \in Seq(LogRecord) /\ Len(log) <= LogSize
  /\ sends \in [Delivery -> [Attempt -> Nat]]
  /\ acked \subseteq Delivery
  /\ exhausted \in [Delivery -> Nat]

(* No failed delivery is lost in silence: once deliver has returned, the   *)
(* event was acknowledged, or a retry is waiting or running, or the audit  *)
(* trail says that all attempts are used up.                               *)
NoSilentLoss ==
  \A d \in Delivery : caller[d] = "done" =>
    \/ d \in acked
    \/ \E j \in JobsOf(d) : phase[j] \in {"waiting", "running"}
    \/ exhausted[d] > 0

(* Every retry job beyond the first is paid for by one failed post of the  *)
(* attempt before it.                                                      *)
LadderPaid ==
  \A d \in Delivery : \A a \in 1 .. MaxAttempts - 1 :
    Cardinality({j \in JobsOf(d) : task[j].attempt = a + 1}) <= sends[d][a]

(* Rescheduling and the table's own retries multiply, but no further than  *)
(* MaxAttempts posts for every post of the attempt before, as long as      *)
(* nobody replays a job; deliver posts once.                               *)
FanOutBounded ==
  replays = 0 => \A d \in Delivery :
    /\ sends[d][0] <= 1
    /\ \A a \in 1 .. MaxAttempts : sends[d][a] <= MaxAttempts * sends[d][a - 1]

(* Together: a delivery is never lost in silence, and its posts, which two *)
(* ladders of retries multiply, stay within what the failures pay for.     *)
WebhookInv ==
  /\ TypeOK /\ NoSilentLoss /\ LadderPaid /\ FanOutBounded

(* The retry ladder of the header: attempt 1 after a minute, up to attempt *)
(* 5 after four hours, each one post.                                      *)
RetryLadder ==
  replays = 0 => \A d \in Delivery : \A a \in Attempt : sends[d][a] <= 1

(* Every delivery ends: after finitely many retries each of its jobs is    *)
(* done or dead, whatever the receiver answers, unless the API restarts or *)
(* an operator replays a job.  The bound on rows is kept out of it: this   *)
(* is about a delivery that does not share them with the retries of others.*)
Ended(d) ==
  /\ caller[d] = "done"
  /\ \A j \in JobsOf(d) : phase[j] \in {"done", "dead", "purged"}
RowsShared(d) == \E j \in JobId \ JobsOf(d) : task[j] # NoTask
Disturbed(d) == crashes > 0 \/ replays > 0 \/ RowsShared(d)
EveryDeliveryEnds == \A d \in Delivery : caller[d] = "sending" ~> Ended(d) \/ Disturbed(d)
=============================================================================
