------------------------ MODULE WebhookDeliveryProofs ------------------------
(***************************************************************************)
(* Theorems about WebhookDelivery, for any number of deliveries and jobs   *)
(* and any limits: no failed delivery is lost in silence, and the posts    *)
(* stay within what the failures pay for.                                  *)
(*                                                                         *)
(* NoSilentLoss is not inductive: a job whose handler threw is buried, and *)
(* then what it left behind must still be there.  The job it enqueued may  *)
(* have ended meanwhile, but only after enqueueing the next one in its     *)
(* turn, so some job of a higher attempt lives on, or one was acknowledged *)
(* or exhausted (ThrewIsFollowed).  LadderPaid counts the jobs of the next *)
(* attempt together with the handlers that may still enqueue one           *)
(* (RungsPaid), and FanOutBounded counts the executions of the jobs of an  *)
(* attempt, purged ones at their limit (SendsAreExecutions).               *)
(***************************************************************************)
EXTENDS WebhookDelivery, FiniteSetTheorems, TLAPS

Rung(d, a) == {j \in JobId : task[j].delivery = d /\ task[j].attempt = a}
Busy == {"sending", "sent", "failed"}
Owing(d, a) == {j \in Rung(d, a) : handler[j] \in Busy}
Executions(d, a) ==
  {e \in Rung(d, a) \X (1 .. MaxAttempts) : phase[e[1]] = "purged" \/ e[2] <= starts[e[1]]}

Live(j) == phase[j] \in {"waiting", "running"}
Settled(d) == d \in acked \/ exhausted[d] > 0

(* After attempt a of d something is still to come, or all is told. *)
Followed(d, a) ==
  \/ Settled(d)
  \/ \E k \in JobId : Live(k) /\ task[k].delivery = d /\ task[k].attempt > a

(* A row that was never written has no payload, and every other has one.   *)
RowsAreJobs ==
  \A j \in JobId : IF phase[j] = "none" THEN task[j] = NoTask /\ starts[j] = 0
                   ELSE task[j] \in Task
RowsAreLimited ==
  \A j \in JobId : /\ starts[j] <= MaxAttempts
                   /\ phase[j] \notin {"none", "purged"} => limit[j] = MaxAttempts
HandlersRun == \A j \in JobId : handler[j] # "idle" => phase[j] = "running"
SentIsAcked == \A j \in JobId : handler[j] = "sent" => task[j].delivery \in acked

(* deliver posts once, and enqueues the one job of the first attempt last. *)
CallersPostOnce ==
  \A d \in Delivery :
    /\ sends[d][0] = IF caller[d] = "none" THEN 0 ELSE 1
    /\ caller[d] # "done" => Rung(d, 1) = {}
    /\ \A j, k \in Rung(d, 1) : j = k

ThrewIsFollowed ==
  \A j \in JobId : handler[j] = "threw" => Followed(task[j].delivery, task[j].attempt)
DoneIsFollowed == \A d \in Delivery : caller[d] = "done" => Followed(d, 0)

RungsPaid ==
  \A d \in Delivery : \A a \in 1 .. MaxAttempts :
    /\ IsFiniteSet(Rung(d, a))
    /\ a < MaxAttempts => Cardinality(Rung(d, a + 1) \cup Owing(d, a)) <= sends[d][a]

ReplaysCount == replays \in Nat
SendsAreExecutions ==
  replays = 0 => \A d \in Delivery : \A a \in 1 .. MaxAttempts :
    sends[d][a] <= Cardinality(Executions(d, a))

RowsInv == /\ TypeOK /\ RowsAreJobs /\ RowsAreLimited /\ HandlersRun /\ SentIsAcked
           /\ CallersPostOnce
LossInv == ThrewIsFollowed /\ DoneIsFollowed
IInv == RowsInv /\ LossInv /\ RungsPaid /\ ReplaysCount /\ SendsAreExecutions

-----------------------------------------------------------------------------
(* The log keeps its type and its bound, whatever is changed in a record.  *)
LEMMA LogsOfRecords ==
  ASSUME NEW l \in Seq(LogRecord), NEW m,
         m = [i \in DOMAIN l |-> m[i]], \A i \in DOMAIN l : m[i] \in LogRecord
  PROVE  m \in Seq(LogRecord) /\ Len(m) = Len(l)
<1>1. DOMAIN l = 1 .. Len(l) /\ Len(l) \in Nat
  OBVIOUS
<1>2. m \in [1 .. Len(l) -> LogRecord]
  BY <1>1
<1> QED BY <1>1, <1>2

LogTyped == log \in Seq(LogRecord) /\ Len(log) <= LogSize

LEMMA AddTyped ==
  ASSUME LogTyped, NEW r \in LogRecord, AddToLog(r) PROVE LogTyped'
<1> DEFINE grown == <<r>> \o log
<1>1. grown \in Seq(LogRecord) /\ Len(grown) \in Nat /\ Len(grown) > 0
  BY DEF LogTyped
<1>2. LogSize \in Nat \ {0}
  BY WebhookAssumption
<1>3. log' = SubSeq(grown, 1, IF Len(grown) > LogSize THEN LogSize ELSE Len(grown))
  BY DEF AddToLog
<1> HIDE DEF grown
<1> QED BY <1>1, <1>2, <1>3 DEF LogTyped

LEMMA UpdateTyped ==
  ASSUME LogTyped, NEW d, NEW change, \A r \in LogRecord : change[r] \in LogRecord,
         UpdateLog(d, change)
  PROVE  LogTyped'
<1>1. \A i \in DOMAIN log : log[i] \in LogRecord
  BY DEF LogTyped
<1>2. log' = [i \in DOMAIN log |-> log'[i]] /\ \A i \in DOMAIN log : log'[i] \in LogRecord
  BY <1>1 DEF UpdateLog
<1> QED BY <1>2, LogsOfRecords DEF LogTyped

(* What retryDelivery makes of a record is a record. *)
LEMMA RecordsStayRecords ==
  ASSUME NEW q \in LogRecord, NEW a \in Attempt
  PROVE  /\ [r \in LogRecord |-> [r EXCEPT !.attempts = a]][q] \in LogRecord
         /\ [r \in LogRecord |-> [r EXCEPT !.delivered = TRUE, !.error = FALSE]][q] \in LogRecord
         /\ [r \in LogRecord |-> [r EXCEPT !.error = TRUE]][q] \in LogRecord
<1>1. /\ [q EXCEPT !.attempts = a] \in LogRecord
      /\ [q EXCEPT !.delivered = TRUE, !.error = FALSE] \in LogRecord
      /\ [q EXCEPT !.error = TRUE] \in LogRecord
  BY DEF LogRecord
<1> HIDE DEF LogRecord
<1> QED BY <1>1

-----------------------------------------------------------------------------
(* Rows, handlers and callers. *)
LEMMA InitRows == Init => RowsInv
<1> SUFFICES ASSUME Init PROVE RowsInv
  OBVIOUS
<1>1. TypeOK
  BY WebhookAssumption DEF Init, Table!LedgerInit, TypeOK, Table!Phase, Attempt
<1>2. RowsAreJobs /\ RowsAreLimited /\ HandlersRun /\ SentIsAcked
  BY WebhookAssumption
  DEF Init, Table!LedgerInit, RowsAreJobs, RowsAreLimited, HandlersRun, SentIsAcked
<1>3. CallersPostOnce
  <2>1. \A d \in Delivery : Rung(d, 1) = {}
    BY DEF Init, Rung, NoTask
  <2> QED BY <2>1, WebhookAssumption DEF Init, CallersPostOnce, Attempt
<1> QED BY <1>1, <1>2, <1>3 DEF RowsInv

(* A new retry job takes a row that was never written. *)
LEMMA EnqueueFacts ==
  ASSUME RowsInv, NEW j \in JobId, NEW d \in Delivery, NEW a \in 1 .. MaxAttempts,
         EnqueueRetry(j, d, a)
  PROVE  /\ phase[j] = "none" /\ phase' = [phase EXCEPT ![j] = "waiting"]
         /\ limit' = [limit EXCEPT ![j] = MaxAttempts]
         /\ task[j] = NoTask /\ task' = [task EXCEPT ![j] = [delivery |-> d, attempt |-> a]]
         /\ starts[j] = 0 /\ handler[j] = "idle"
BY DEF EnqueueRetry, RowsInv, RowsAreJobs, HandlersRun, Table!Submit, TypeOK

LEMMA EnqueueRows ==
  ASSUME RowsInv, NEW j \in JobId, NEW d \in Delivery, NEW a \in 1 .. MaxAttempts,
         EnqueueRetry(j, d, a), UNCHANGED <<starts, log, sends, acked, exhausted, bounds>>,
         \/ UNCHANGED handler
         \/ \E k \in JobId : /\ handler[k] = "failed" /\ phase[k] = "running"
                             /\ handler' = [handler EXCEPT ![k] = "threw"]
  PROVE  /\ RowsAreJobs' /\ RowsAreLimited' /\ HandlersRun' /\ SentIsAcked'
         /\ caller' \in [Delivery -> {"none", "sending", "failed", "done", "lost"}] => TypeOK'
<1>1. [delivery |-> d, attempt |-> a] \in Task
  BY DEF Task
<1>2. /\ phase[j] = "none" /\ phase' = [phase EXCEPT ![j] = "waiting"]
      /\ limit' = [limit EXCEPT ![j] = MaxAttempts]
      /\ task[j] = NoTask /\ task' = [task EXCEPT ![j] = [delivery |-> d, attempt |-> a]]
      /\ starts[j] = 0 /\ handler[j] = "idle"
  BY EnqueueFacts
<1>3. RowsAreJobs' /\ RowsAreLimited'
  BY <1>1, <1>2, WebhookAssumption DEF RowsInv, RowsAreJobs, RowsAreLimited, TypeOK
<1>4. HandlersRun' /\ SentIsAcked'
  BY <1>2 DEF RowsInv, HandlersRun, SentIsAcked, TypeOK
<1>5. caller' \in [Delivery -> {"none", "sending", "failed", "done", "lost"}] => TypeOK'
  BY <1>1, <1>2 DEF RowsInv, TypeOK, Table!Phase
<1> QED BY <1>3, <1>4, <1>5

(* A job that a handler runs, or an operator revives, has a payload. *)
LEMMA RunningHaveTasks ==
  ASSUME RowsInv, NEW j \in JobId, handler[j] # "idle" \/ phase[j] # "none"
  PROVE  /\ task[j].delivery \in Delivery /\ task[j].attempt \in 1 .. MaxAttempts
         /\ task[j].attempt \in Attempt /\ phase[j] # "none"
<1>1. phase[j] # "none"
  BY DEF RowsInv, HandlersRun
<1>2. task[j] \in Task
  BY <1>1 DEF RowsInv, RowsAreJobs
<1> QED BY <1>1, <1>2, WebhookAssumption DEF Task, Attempt

(* Where the payloads are as they were, so are the jobs of each attempt. *)
LEMMA SameRungs ==
  ASSUME UNCHANGED task PROVE \A d, a : Rung(d, a)' = Rung(d, a)
BY DEF Rung

(* One more post of one attempt. *)
LEMMA SendCounts ==
  ASSUME TypeOK, NEW d \in Delivery, NEW a \in Attempt, CountSend(d, a)
  PROVE  /\ sends' \in [Delivery -> [Attempt -> Nat]]
         /\ \A e \in Delivery : \A b \in Attempt :
              sends'[e][b] = IF e = d /\ b = a THEN sends[e][b] + 1 ELSE sends[e][b]
<1> DEFINE f == [sends[d] EXCEPT ![a] = @ + 1]
<1>1. sends[d] \in [Attempt -> Nat] /\ sends[d][a] \in Nat
  BY DEF TypeOK
<1>2. f \in [Attempt -> Nat] /\ \A b \in Attempt : f[b] = IF b = a THEN sends[d][b] + 1 ELSE sends[d][b]
  BY <1>1
<1>3. sends' = [sends EXCEPT ![d] = f]
  BY DEF CountSend
<1> HIDE DEF f
<1> QED BY <1>2, <1>3 DEF TypeOK

LEMMA ZeroIsAnAttempt == 0 \in Attempt /\ 1 .. MaxAttempts \subseteq Attempt
BY WebhookAssumption DEF Attempt

(* A step of deliver. *)
LEMMA DeliverRows ==
  ASSUME RowsInv, NEW d \in Delivery,
         Deliver(d) \/ DeliverSucceeds(d) \/ DeliverFails(d)
  PROVE  RowsInv'
<1>0. /\ UNCHANGED <<phase, starts, limit, task, handler>> /\ acked \subseteq acked'
      /\ caller' \in [Delivery -> {"none", "sending", "failed", "done", "lost"}]
      /\ acked' \subseteq Delivery /\ exhausted' = exhausted
  BY DEF RowsInv, TypeOK, Deliver, DeliverSucceeds, DeliverFails, tableVars
<1>1. RowsAreJobs' /\ RowsAreLimited' /\ HandlersRun' /\ SentIsAcked'
  BY <1>0 DEF RowsInv, RowsAreJobs, RowsAreLimited, HandlersRun, SentIsAcked
<1>2. LogTyped'
  <2>1. CASE Deliver(d)
    BY <2>1 DEF Deliver, LogTyped, RowsInv, TypeOK
  <2>2. CASE DeliverSucceeds(d) \/ DeliverFails(d)
    <3>1. \A b, e \in BOOLEAN :
            [id |-> d, attempts |-> 1, delivered |-> b, error |-> e] \in LogRecord
      BY WebhookAssumption DEF LogRecord, Attempt
    <3> QED BY <2>2, <3>1, AddTyped DEF DeliverSucceeds, DeliverFails, LogTyped, RowsInv, TypeOK
  <2> QED BY <2>1, <2>2
<1>3. /\ sends' \in [Delivery -> [Attempt -> Nat]]
      /\ \A e \in Delivery :
           sends'[e][0] = IF Deliver(d) /\ e = d THEN sends[e][0] + 1 ELSE sends[e][0]
  <2>1. CASE Deliver(d)
    BY <2>1, SendCounts, ZeroIsAnAttempt DEF Deliver, RowsInv
  <2>2. CASE ~ Deliver(d)
    BY <2>2 DEF DeliverSucceeds, DeliverFails, RowsInv, TypeOK
  <2> QED BY <2>1, <2>2
<1>4. TypeOK'
  BY <1>0, <1>2, <1>3 DEF RowsInv, TypeOK, LogTyped
<1>5. CallersPostOnce'
  <2>1. ASSUME NEW e \in Delivery
        PROVE  /\ sends'[e][0] = IF caller'[e] = "none" THEN 0 ELSE 1
               /\ caller'[e] # "done" => caller[e] # "done"
    BY <1>3 DEF Deliver, DeliverSucceeds, DeliverFails, RowsInv, TypeOK, CallersPostOnce
  <2> QED BY <1>0, <2>1, SameRungs DEF RowsInv, CallersPostOnce
<1> QED BY <1>1, <1>4, <1>5 DEF RowsInv

(* deliver enqueues the first retry: no job of that attempt was there. *)
LEMMA DeliverEnqueuesRows ==
  ASSUME RowsInv, NEW d \in Delivery, NEW j \in JobId, DeliverEnqueues(d, j)
  PROVE  RowsInv'
<1>0. /\ EnqueueRetry(j, d, 1) /\ 1 \in 1 .. MaxAttempts
      /\ caller[d] = "failed" /\ caller' = [caller EXCEPT ![d] = "done"]
      /\ UNCHANGED <<starts, handler, log, sends, acked, exhausted, bounds>>
  BY WebhookAssumption DEF DeliverEnqueues
<1>1. RowsAreJobs' /\ RowsAreLimited' /\ HandlersRun' /\ SentIsAcked' /\ TypeOK'
  BY <1>0, EnqueueRows DEF RowsInv, TypeOK
<1>2. task' = [task EXCEPT ![j] = [delivery |-> d, attempt |-> 1]]
  BY <1>0, EnqueueFacts
<1>3. \A e \in Delivery : Rung(e, 1)' = IF e = d THEN {j} ELSE Rung(e, 1)
  <2>1. Rung(d, 1) = {}
    BY <1>0 DEF RowsInv, CallersPostOnce
  <2>2. task[j] = NoTask
    BY <1>0, EnqueueFacts
  <2> QED BY <1>2, <2>1, <2>2 DEF Rung, RowsInv, TypeOK, NoTask
<1>4. CallersPostOnce'
  BY <1>0, <1>3 DEF RowsInv, CallersPostOnce, TypeOK
<1> QED BY <1>1, <1>4 DEF RowsInv

(* A step of a handler that enqueues nothing. *)
LEMMA HandlerRows ==
  ASSUME RowsInv, NEW j \in JobId,
         \/ StartRetry(j) \/ RetrySucceeds(j) \/ RetryFails(j) \/ Exhaust(j)
         \/ ReportDone(j) \/ ReportFailed(j)
  PROVE  RowsInv'
<1>0. /\ task[j].delivery \in Delivery /\ task[j].attempt \in 1 .. MaxAttempts
      /\ task[j].attempt \in Attempt /\ phase[j] # "none"
  BY RunningHaveTasks DEF StartRetry, RetrySucceeds, RetryFails, Exhaust, ReportDone,
     ReportFailed, Table!Start
<1>1. LogTyped'
  <2>0. LogTyped
    BY DEF RowsInv, TypeOK, LogTyped
  <2>1. CASE StartRetry(j)
    BY <1>0, <2>0, <2>1, UpdateTyped, RecordsStayRecords DEF StartRetry
  <2>2. CASE RetrySucceeds(j)
    BY <1>0, <2>0, <2>2, UpdateTyped, RecordsStayRecords DEF RetrySucceeds
  <2>3. CASE RetryFails(j)
    BY <1>0, <2>0, <2>3, UpdateTyped, RecordsStayRecords DEF RetryFails
  <2>4. CASE UNCHANGED log
    BY <2>0, <2>4 DEF LogTyped
  <2> QED BY <2>1, <2>2, <2>3, <2>4 DEF Exhaust, ReportDone, ReportFailed
<1>2. UNCHANGED <<task, caller>>
  BY DEF StartRetry, RetrySucceeds, RetryFails, Exhaust, ReportDone, ReportFailed
<1>3. /\ sends' \in [Delivery -> [Attempt -> Nat]]
      /\ \A d \in Delivery : sends'[d][0] = sends[d][0]
  <2>1. CASE StartRetry(j)
    BY <2>1, <1>0, SendCounts, ZeroIsAnAttempt DEF StartRetry, RowsInv
  <2>2. CASE ~ StartRetry(j)
    BY <2>2 DEF RetrySucceeds, RetryFails, Exhaust, ReportDone, ReportFailed, RowsInv, TypeOK
  <2> QED BY <2>1, <2>2
<1>6. CallersPostOnce'
  BY <1>2, <1>3, SameRungs DEF RowsInv, CallersPostOnce
<1>4. TypeOK'
  <2>1. exhausted' \in [Delivery -> Nat]
    <3>1. CASE Exhaust(j)
      BY <3>1, <1>0 DEF Exhaust, RowsInv, TypeOK
    <3>2. CASE ~ Exhaust(j)
      BY <3>2 DEF StartRetry, RetrySucceeds, RetryFails, ReportDone, ReportFailed, RowsInv,
         TypeOK
    <3> QED BY <3>1, <3>2
  <2>2. phase' \in [JobId -> Table!Phase] /\ starts' \in [JobId -> Nat] /\ UNCHANGED limit
    <3>1. starts[j] + 1 \in Nat
      BY DEF RowsInv, TypeOK
    <3>2. CASE StartRetry(j)
      BY <3>1, <3>2 DEF StartRetry, Table!Start, Table!Phase, RowsInv, TypeOK
    <3>3. CASE RetrySucceeds(j) \/ RetryFails(j) \/ Exhaust(j)
      BY <3>3 DEF RetrySucceeds, RetryFails, Exhaust, RowsInv, TypeOK, tableVars
    <3>4. CASE ReportDone(j) \/ ReportFailed(j)
      BY <3>4 DEF ReportDone, ReportFailed, Table!Finish, Table!Requeue, Table!Bury,
         Table!Phase, RowsInv, TypeOK
    <3> QED BY <3>2, <3>3, <3>4
  <2>3. /\ handler' \in [JobId -> {"idle", "sending", "sent", "failed", "threw"}]
        /\ acked' \subseteq Delivery
    BY <1>0 DEF StartRetry, RetrySucceeds, RetryFails, Exhaust, ReportDone, ReportFailed,
       RowsInv, TypeOK
  <2> QED BY <1>1, <1>2, <1>3, <2>1, <2>2, <2>3 DEF TypeOK, RowsInv, LogTyped
<1>5. RowsAreJobs' /\ RowsAreLimited' /\ HandlersRun' /\ SentIsAcked'
  <2>1. CASE StartRetry(j)
    <3>1. /\ phase[j] = "waiting" /\ phase' = [phase EXCEPT ![j] = "running"]
          /\ starts[j] < limit[j] /\ starts' = [starts EXCEPT ![j] = starts[j] + 1]
          /\ handler' = [handler EXCEPT ![j] = "sending"] /\ UNCHANGED <<limit, task, acked>>
      BY <2>1 DEF StartRetry, Table!Start
    <3>2. limit[j] = MaxAttempts /\ starts[j] \in Nat /\ starts[j] + 1 <= MaxAttempts
      BY <3>1, WebhookAssumption DEF RowsInv, RowsAreLimited, TypeOK
    <3>3. RowsAreJobs'
      BY <3>1, <1>0 DEF RowsInv, TypeOK, RowsAreJobs
    <3>4. RowsAreLimited'
      BY <3>1, <3>2 DEF RowsInv, TypeOK, RowsAreLimited
    <3>5. HandlersRun' /\ SentIsAcked'
      BY <3>1 DEF RowsInv, TypeOK, HandlersRun, SentIsAcked
    <3> QED BY <3>3, <3>4, <3>5
  <2>2. CASE RetrySucceeds(j) \/ RetryFails(j) \/ Exhaust(j)
    BY <2>2, <1>0 DEF RetrySucceeds, RetryFails, Exhaust, tableVars, RowsInv, TypeOK,
       RowsAreJobs, RowsAreLimited, HandlersRun, SentIsAcked
  <2>3. CASE ReportDone(j) \/ ReportFailed(j)
    BY <2>3, <1>0, ZenonT(30) DEF ReportDone, ReportFailed, Table!Finish, Table!Requeue, Table!Bury,
       RowsInv, TypeOK, RowsAreJobs, RowsAreLimited, HandlersRun, SentIsAcked
  <2> QED BY <2>1, <2>2, <2>3
<1> QED BY <1>4, <1>5, <1>6 DEF RowsInv

(* The handler of a job that failed enqueues the next attempt. *)
LEMMA RescheduleRows ==
  ASSUME RowsInv, NEW j \in JobId, NEW k \in JobId, Reschedule(j, k)
  PROVE  RowsInv'
<1> DEFINE d == task[j].delivery  a == task[j].attempt + 1
<1>0. /\ d \in Delivery /\ a \in 1 .. MaxAttempts /\ a # 1 /\ phase[j] = "running"
      /\ EnqueueRetry(k, d, a) /\ handler[j] = "failed"
      /\ handler' = [handler EXCEPT ![j] = "threw"]
      /\ UNCHANGED <<starts, caller, log, sends, acked, exhausted, bounds>>
  BY RunningHaveTasks, WebhookAssumption DEF Reschedule, RowsInv, HandlersRun
<1> HIDE DEF d, a
<1>1. RowsAreJobs' /\ RowsAreLimited' /\ HandlersRun' /\ SentIsAcked' /\ TypeOK'
  BY <1>0, EnqueueRows DEF RowsInv, TypeOK
<1>2. \A e \in Delivery : Rung(e, 1)' = Rung(e, 1)
  <2>1. task[k] = NoTask /\ task' = [task EXCEPT ![k] = [delivery |-> d, attempt |-> a]]
    BY <1>0, EnqueueFacts
  <2> QED BY <1>0, <2>1 DEF Rung, RowsInv, TypeOK, NoTask
<1>3. CallersPostOnce'
  BY <1>0, <1>2 DEF RowsInv, CallersPostOnce
<1> QED BY <1>1, <1>3 DEF RowsInv

(* An operator, or a restart. *)
LEMMA OutsideRows ==
  ASSUME RowsInv, Crash \/ \E j \in JobId : Replay(j) \/ Purge(j)
  PROVE  RowsInv'
<1>1. CASE Crash
  <2>1. RowsAreJobs' /\ RowsAreLimited' /\ HandlersRun' /\ SentIsAcked'
    BY <1>1 DEF Crash, tableVars, RowsInv, RowsAreJobs, RowsAreLimited, HandlersRun, SentIsAcked
  <2>2. caller' \in [Delivery -> {"none", "sending", "failed", "done", "lost"}]
        /\ \A d \in Delivery : /\ caller'[d] = "none" <=> caller[d] = "none"
                               /\ caller'[d] = "done" <=> caller[d] = "done"
    BY <1>1 DEF Crash, RowsInv, TypeOK
  <2>3. TypeOK'
    <3>1. <<>> \in Seq(LogRecord) /\ Len(<<>>) <= LogSize
      BY WebhookAssumption
    <3> QED BY <1>1, <2>2, <3>1 DEF Crash, tableVars, RowsInv, TypeOK
  <2>4. CallersPostOnce'
    BY <1>1, <2>2, SameRungs DEF Crash, RowsInv, CallersPostOnce
  <2> QED BY <2>1, <2>3, <2>4 DEF RowsInv
<1>2. ASSUME NEW j \in JobId, Replay(j) \/ Purge(j) PROVE RowsInv'
  <2>0. UNCHANGED <<task, caller, handler, log, sends, acked, exhausted>>
    BY <1>2 DEF Replay, Purge
  <2>1. RowsAreJobs' /\ RowsAreLimited' /\ HandlersRun' /\ SentIsAcked'
    <3>0. phase[j] = "dead"
      BY <1>2 DEF Replay, Purge, Table!Revive, Table!Purge
    <3>1. /\ \A i \in JobId : /\ i # j => phase'[i] = phase[i] /\ limit'[i] = limit[i]
                              /\ starts'[i] \in {0, starts[i]}
          /\ phase'[j] \in {"waiting", "purged"}
          /\ phase'[j] = "waiting" => limit'[j] = limit[j]
      BY <1>2, <3>0 DEF Replay, Purge, Table!Revive, Table!Purge, RowsInv, TypeOK
    <3>2. RowsAreJobs'
      BY <2>0, <3>0, <3>1 DEF RowsInv, RowsAreJobs
    <3>3. RowsAreLimited'
      BY <3>0, <3>1, WebhookAssumption DEF RowsInv, RowsAreLimited
    <3>4. HandlersRun' /\ SentIsAcked'
      BY <2>0, <3>0, <3>1 DEF RowsInv, HandlersRun, SentIsAcked
    <3> QED BY <3>2, <3>3, <3>4
  <2>2. TypeOK'
    <3>1. CASE Replay(j)
      <4>1. /\ limit' \in [JobId -> {0, MaxAttempts}] /\ starts' \in [JobId -> Nat]
            /\ phase' \in [JobId -> Table!Phase]
        BY <3>1 DEF Replay, Table!Revive, Table!Phase, RowsInv, TypeOK
      <4> QED BY <2>0, <4>1 DEF RowsInv, TypeOK
    <3>2. CASE Purge(j)
      <4>1. limit' \in [JobId -> {0, MaxAttempts}] /\ starts' \in [JobId -> Nat]
        BY <3>2 DEF Purge, Table!Purge, RowsInv, TypeOK
      <4>2. phase' \in [JobId -> Table!Phase]
        BY <3>2 DEF Purge, Table!Purge, Table!Phase, RowsInv, TypeOK
      <4> QED BY <2>0, <4>1, <4>2 DEF RowsInv, TypeOK
    <3> QED BY <1>2, <3>1, <3>2
  <2>3. CallersPostOnce'
    BY <2>0, SameRungs DEF RowsInv, CallersPostOnce
  <2> QED BY <2>1, <2>2, <2>3 DEF RowsInv
<1> QED BY <1>1, <1>2

LEMMA StepRows == ASSUME RowsInv, [Next]_vars PROVE RowsInv'
<1>1. CASE UNCHANGED vars
  <2>1. UNCHANGED <<phase, starts, limit, task, caller, handler, log, sends, acked, exhausted>>
    BY <1>1 DEF vars, tableVars
  <2> QED
    BY <2>1, SameRungs DEF RowsInv, TypeOK, RowsAreJobs, RowsAreLimited, HandlersRun,
       SentIsAcked, CallersPostOnce
<1> QED
  BY <1>1, DeliverRows, DeliverEnqueuesRows, HandlerRows, RescheduleRows, OutsideRows
  DEF Next, RunJob, ContinueDeliver

-----------------------------------------------------------------------------
(* Nothing is lost. *)
LEMMA SettledLasts ==
  ASSUME RowsInv, [Next]_vars, NEW d \in Delivery, Settled(d) PROVE Settled(d)'
<1>1. acked \subseteq acked'
  BY DEF Next, RunJob, ContinueDeliver, Deliver, DeliverSucceeds, DeliverFails,
     DeliverEnqueues, StartRetry, RetrySucceeds, RetryFails, Exhaust, ReportDone, ReportFailed,
     Reschedule, Replay, Purge, Crash, vars
<1>2. exhausted' = exhausted \/ \E j \in JobId : Exhaust(j)
  BY DEF Next, RunJob, ContinueDeliver, Deliver, DeliverSucceeds, DeliverFails,
     DeliverEnqueues, StartRetry, RetrySucceeds, RetryFails, ReportDone, ReportFailed,
     Reschedule, Replay, Purge, Crash, vars
<1>3. exhausted'[d] >= exhausted[d] /\ exhausted[d] \in Nat /\ exhausted'[d] \in Nat
  BY <1>2, RunningHaveTasks DEF Exhaust, RowsInv, TypeOK
<1> QED BY <1>1, <1>3 DEF Settled

(* A live job stays what it is, or its handler reports. *)
LEMMA LiveLasts ==
  ASSUME RowsInv, [Next]_vars, NEW k \in JobId, Live(k)
  PROVE  \/ Live(k)' /\ task'[k] = task[k]
         \/ ReportDone(k) \/ ReportFailed(k)
<1> SUFFICES ASSUME ~ ReportDone(k), ~ ReportFailed(k) PROVE Live(k)' /\ task'[k] = task[k]
  OBVIOUS
<1> USE DEF RowsInv, TypeOK, Live
<1>1. CASE UNCHANGED <<phase, task>>
  BY <1>1
<1>2. ASSUME NEW j \in JobId, NEW d \in Delivery, NEW a \in 1 .. MaxAttempts,
             EnqueueRetry(j, d, a)
      PROVE  Live(k)' /\ task'[k] = task[k]
  <2>1. /\ phase[j] = "none" /\ phase' = [phase EXCEPT ![j] = "waiting"]
        /\ task' = [task EXCEPT ![j] = [delivery |-> d, attempt |-> a]]
    BY <1>2, EnqueueFacts
  <2> QED BY <2>1
<1>3. ASSUME NEW j \in JobId, StartRetry(j) \/ Replay(j) PROVE Live(k)' /\ task'[k] = task[k]
  BY <1>3 DEF StartRetry, Replay, Table!Start, Table!Revive
<1>4. ASSUME NEW j \in JobId, ReportDone(j) \/ ReportFailed(j)
      PROVE  Live(k)' /\ task'[k] = task[k]
  BY <1>4 DEF ReportDone, ReportFailed, Table!Finish, Table!Requeue, Table!Bury
<1>5. ASSUME NEW j \in JobId, Purge(j) PROVE Live(k)' /\ task'[k] = task[k]
  BY <1>5 DEF Purge, Table!Purge
<1>6. ASSUME NEW d \in Delivery, NEW j \in JobId, DeliverEnqueues(d, j)
      PROVE  Live(k)' /\ task'[k] = task[k]
  BY <1>2, <1>6, WebhookAssumption DEF DeliverEnqueues
<1>7. ASSUME NEW i \in JobId, NEW j \in JobId, Reschedule(i, j)
      PROVE  Live(k)' /\ task'[k] = task[k]
  <2>1. /\ task[i].delivery \in Delivery /\ task[i].attempt + 1 \in 1 .. MaxAttempts
        /\ EnqueueRetry(j, task[i].delivery, task[i].attempt + 1)
    BY <1>7, RunningHaveTasks, WebhookAssumption DEF Reschedule
  <2> QED BY <1>2, <2>1
<1> QED
  BY <1>1, <1>3, <1>4, <1>5, <1>6, <1>7
  DEF Next, RunJob, ContinueDeliver, Deliver, DeliverSucceeds, DeliverFails, RetrySucceeds,
      RetryFails, Exhaust, Crash, vars, tableVars

LEMMA FollowedLasts ==
  ASSUME RowsInv, ThrewIsFollowed, [Next]_vars, NEW d \in Delivery, NEW a \in Nat,
         Followed(d, a)
  PROVE  Followed(d, a)'
<1>1. CASE Settled(d)
  BY <1>1, SettledLasts DEF Followed
<1>2. ASSUME NEW k \in JobId, Live(k), task[k].delivery = d, task[k].attempt > a
      PROVE  Followed(d, a)'
  <2>1. CASE Live(k)' /\ task'[k] = task[k]
    BY <1>2, <2>1 DEF Followed
  <2>2. CASE ReportDone(k)
    BY <1>2, <2>2, SettledLasts DEF ReportDone, RowsInv, SentIsAcked, Settled, Followed
  <2>3. CASE ReportFailed(k)
    <3>0. /\ task[k].attempt \in Nat /\ handler[k] = "threw" /\ UNCHANGED task
          /\ \A i \in JobId \ {k} : phase'[i] = phase[i]
      BY <1>2, <2>3, RunningHaveTasks
      DEF ReportFailed, Table!Requeue, Table!Bury, RowsInv, TypeOK
    <3>1. CASE Settled(d)
      BY <3>1, SettledLasts DEF Followed
    <3>2. ASSUME NEW i \in JobId, Live(i), task[i].delivery = d,
                 task[i].attempt > task[k].attempt
          PROVE  Followed(d, a)'
      <4>1. i # k /\ task[i].attempt \in Nat
        BY <3>0, <3>2, RunningHaveTasks DEF Live
      <4>2. task[i].attempt > a
        BY <1>2, <3>0, <3>2, <4>1
      <4> QED BY <3>0, <3>2, <4>1, <4>2 DEF Live, Followed
    <3> QED BY <1>2, <3>0, <3>1, <3>2 DEF ThrewIsFollowed, Followed
  <2> QED BY <1>2, <2>1, <2>2, <2>3, LiveLasts
<1> QED BY <1>1, <1>2 DEF Followed

(* A handler throws after it has told of the end, or enqueued a job. *)
LEMMA StepThrew ==
  ASSUME RowsInv, ThrewIsFollowed, [Next]_vars PROVE ThrewIsFollowed'
<1> SUFFICES ASSUME NEW j \in JobId, handler'[j] = "threw"
             PROVE  Followed(task[j].delivery, task[j].attempt)'
  BY DEF ThrewIsFollowed
<1>1. CASE handler[j] = "threw"
  <2>1. /\ task[j].delivery \in Delivery /\ task[j].attempt \in Nat /\ Live(j)
        /\ ~ ReportDone(j) /\ ~ ReportFailed(j)
    BY <1>1, RunningHaveTasks DEF RowsInv, HandlersRun, Live, ReportDone, ReportFailed, TypeOK
  <2>2. task'[j] = task[j]
    BY <2>1, LiveLasts
  <2>3. Followed(task[j].delivery, task[j].attempt)
    BY <1>1 DEF ThrewIsFollowed
  <2>4. ASSUME NEW d \in Delivery, NEW a \in Nat, Followed(d, a) PROVE Followed(d, a)'
    BY <2>4, FollowedLasts
  <2> QED BY <2>1, <2>2, <2>3, <2>4 DEF Followed, Settled
<1>2. CASE handler[j] # "threw"
  <2>1. Exhaust(j) \/ \E k \in JobId : Reschedule(j, k)
    BY <1>2, ZenonT(30) DEF Next, RunJob, ContinueDeliver, Deliver, DeliverSucceeds, DeliverFails,
       DeliverEnqueues, StartRetry, RetrySucceeds, RetryFails, Exhaust, ReportDone,
       ReportFailed, Reschedule, Replay, Purge, Crash, vars, RowsInv, TypeOK
  <2>2. /\ task[j].delivery \in Delivery /\ task[j].attempt \in 1 .. MaxAttempts
        /\ phase[j] # "none"
    BY <2>1, RunningHaveTasks DEF Exhaust, Reschedule
  <2>3. CASE Exhaust(j)
    BY <2>2, <2>3 DEF Exhaust, Followed, Settled, RowsInv, TypeOK
  <2>4. ASSUME NEW k \in JobId, Reschedule(j, k)
        PROVE  Followed(task[j].delivery, task[j].attempt)'
    <3>1. /\ task[j].attempt + 1 \in 1 .. MaxAttempts
          /\ EnqueueRetry(k, task[j].delivery, task[j].attempt + 1)
      BY <2>2, <2>4, WebhookAssumption DEF Reschedule
    <3>2. /\ phase[k] = "none" /\ phase' = [phase EXCEPT ![k] = "waiting"]
          /\ task' = [task EXCEPT ![k] = [delivery |-> task[j].delivery,
                                        attempt |-> task[j].attempt + 1]]
      BY <2>2, <3>1, EnqueueFacts
    <3>3. /\ phase'[k] = "waiting" /\ task'[k].delivery = task'[j].delivery
          /\ task'[k].attempt > task'[j].attempt
      BY <2>2, <3>2 DEF RowsInv, TypeOK
    <3> QED BY <3>3 DEF Followed, Live
  <2> QED BY <2>1, <2>3, <2>4
<1> QED BY <1>1, <1>2

(* deliver returns after a good answer, or with a job of its first retry.  *)
LEMMA StepDone ==
  ASSUME RowsInv, LossInv, [Next]_vars PROVE DoneIsFollowed'
<1> SUFFICES ASSUME NEW d \in Delivery, caller'[d] = "done" PROVE Followed(d, 0)'
  BY DEF DoneIsFollowed
<1>1. CASE caller[d] = "done"
  BY <1>1, FollowedLasts DEF LossInv, DoneIsFollowed
<1>2. CASE caller[d] # "done"
  <2>1. DeliverSucceeds(d) \/ \E j \in JobId : DeliverEnqueues(d, j)
    BY <1>2 DEF Next, RunJob, ContinueDeliver, Deliver, DeliverSucceeds, DeliverFails,
       DeliverEnqueues, StartRetry, RetrySucceeds, RetryFails, Exhaust, ReportDone,
       ReportFailed, Reschedule, Replay, Purge, Crash, vars, RowsInv, TypeOK
  <2>2. CASE DeliverSucceeds(d)
    BY <2>2 DEF DeliverSucceeds, Followed, Settled
  <2>3. ASSUME NEW j \in JobId, DeliverEnqueues(d, j) PROVE Followed(d, 0)'
    <3>1. /\ phase' = [phase EXCEPT ![j] = "waiting"]
          /\ task' = [task EXCEPT ![j] = [delivery |-> d, attempt |-> 1]]
      BY <2>3, EnqueueFacts, WebhookAssumption DEF DeliverEnqueues
    <3>2. phase'[j] = "waiting" /\ task'[j].delivery = d /\ task'[j].attempt > 0
      BY <3>1 DEF RowsInv, TypeOK
    <3> QED BY <3>2 DEF Followed, Live
  <2> QED BY <2>1, <2>2, <2>3
<1> QED BY <1>1, <1>2

LEMMA InitLoss == Init => LossInv
BY DEF Init, LossInv, ThrewIsFollowed, DoneIsFollowed

-----------------------------------------------------------------------------
(* The jobs of an attempt are paid for by posts of the one before. *)
LEMMA InitRungs == Init => RungsPaid
<1> SUFFICES ASSUME Init, NEW d \in Delivery, NEW a \in 1 .. MaxAttempts
             PROVE  /\ IsFiniteSet(Rung(d, a))
                    /\ Cardinality(Rung(d, a + 1) \cup Owing(d, a)) <= sends[d][a]
  BY DEF RungsPaid
<1>1. \A j \in JobId : task[j].attempt = 0
  BY DEF Init, NoTask
<1>2. Rung(d, a) = {} /\ Rung(d, a + 1) = {}
  BY <1>1 DEF Rung
<1>3. Owing(d, a) = {}
  BY <1>2 DEF Owing
<1>4. Cardinality({}) = 0 /\ sends[d][a] = 0 /\ {} \cup {} = {}
  BY FS_EmptySet, ZeroIsAnAttempt DEF Init
<1> QED BY <1>2, <1>3, <1>4, FS_EmptySet

(* A step that posts nothing and enqueues nothing. *)
LEMMA QuietKeepsRungs ==
  ASSUME RungsPaid, RowsInv, UNCHANGED task,
         \A d \in Delivery : \A a \in 1 .. MaxAttempts : sends'[d][a] = sends[d][a],
         \A j \in JobId : handler'[j] \in Busy => handler[j] \in Busy
  PROVE  RungsPaid'
<1> SUFFICES ASSUME NEW d \in Delivery, NEW a \in 1 .. MaxAttempts, a < MaxAttempts
             PROVE  Cardinality(Rung(d, a + 1)' \cup Owing(d, a)') <= sends'[d][a]
  BY SameRungs DEF RungsPaid
<1> DEFINE U == Rung(d, a + 1) \cup Owing(d, a)
           V == Rung(d, a + 1)' \cup Owing(d, a)'
<1>1. a + 1 \in 1 .. MaxAttempts
  BY WebhookAssumption
<1>2. IsFiniteSet(U)
  <2>1. IsFiniteSet(Rung(d, a + 1)) /\ IsFiniteSet(Rung(d, a))
    BY <1>1 DEF RungsPaid
  <2>2. IsFiniteSet(Rung(d, a + 1) \cup Rung(d, a))
    BY <2>1, FS_Union
  <2> QED BY <2>2, FS_Subset DEF Owing
<1>3. V \subseteq U
  <2>1. Rung(d, a + 1)' = Rung(d, a + 1) /\ Rung(d, a)' = Rung(d, a)
    BY SameRungs
  <2>2. Owing(d, a)' \subseteq Owing(d, a)
    BY <2>1 DEF Owing, Rung
  <2> QED BY <2>1, <2>2
<1>4. Cardinality(V) <= Cardinality(U) /\ IsFiniteSet(V)
  BY <1>2, <1>3, FS_Subset
<1>5. Cardinality(U) <= sends[d][a] /\ sends'[d][a] = sends[d][a] /\ sends[d][a] \in Nat
  BY ZeroIsAnAttempt DEF RungsPaid, RowsInv, TypeOK
<1>6. Cardinality(U) \in Nat /\ Cardinality(V) \in Nat
  BY <1>2, <1>4, FS_CardinalityType
<1> QED BY <1>4, <1>5, <1>6

(* What an attempt owes is a finite set, which pays for one job less than  *)
(* it counts where a handler still has to enqueue one.                     *)
Paid(d, a) == Rung(d, a + 1) \cup Owing(d, a)

LEMMA PaidIsCounted ==
  ASSUME RungsPaid, RowsInv, NEW d \in Delivery, NEW a \in 1 .. MaxAttempts, a < MaxAttempts
  PROVE  /\ a + 1 \in 1 .. MaxAttempts /\ sends[d][a] \in Nat
         /\ IsFiniteSet(Paid(d, a)) /\ Cardinality(Paid(d, a)) \in Nat
         /\ Cardinality(Paid(d, a)) <= sends[d][a]
<1>1. a + 1 \in 1 .. MaxAttempts
  BY WebhookAssumption
<1>2. IsFiniteSet(Rung(d, a + 1)) /\ IsFiniteSet(Rung(d, a))
  BY <1>1 DEF RungsPaid
<1>3. IsFiniteSet(Rung(d, a + 1) \cup Rung(d, a))
  BY <1>2, FS_Union
<1>4. IsFiniteSet(Paid(d, a))
  BY <1>3, FS_Subset DEF Owing, Paid
<1> QED BY <1>1, <1>4, FS_CardinalityType, ZeroIsAnAttempt DEF RungsPaid, RowsInv, TypeOK, Paid

(* A post of attempt a lets its handler owe one job. *)
LEMMA StartKeepsRungs ==
  ASSUME RungsPaid, RowsInv, NEW j \in JobId, StartRetry(j) PROVE RungsPaid'
<1> DEFINE e == task[j].delivery  b == task[j].attempt
<1>0. /\ e \in Delivery /\ b \in 1 .. MaxAttempts /\ b \in Attempt
      /\ handler' = [handler EXCEPT ![j] = "sending"] /\ UNCHANGED task
      /\ \A d \in Delivery : \A a \in Attempt :
           sends'[d][a] = IF d = e /\ a = b THEN sends[d][a] + 1 ELSE sends[d][a]
  BY RunningHaveTasks, SendCounts DEF StartRetry, Table!Start, RowsInv
<1> HIDE DEF e, b
<1> SUFFICES ASSUME NEW d \in Delivery, NEW a \in 1 .. MaxAttempts, a < MaxAttempts
             PROVE  Cardinality(Paid(d, a)') <= sends'[d][a]
  BY <1>0, SameRungs DEF RungsPaid, Paid
<1>1. Rung(d, a + 1)' = Rung(d, a + 1) /\ Rung(d, a)' = Rung(d, a)
  BY <1>0, SameRungs
<1>2. j \in Rung(d, a) <=> d = e /\ a = b
  BY DEF Rung, e, b
<1>3. CASE d = e /\ a = b
  <2>1. Paid(d, a)' \subseteq Paid(d, a) \cup {j}
    BY <1>0, <1>1 DEF Paid, Owing, RowsInv, TypeOK, Rung
  <2>2. /\ IsFiniteSet(Paid(d, a) \cup {j})
        /\ Cardinality(Paid(d, a) \cup {j}) <= Cardinality(Paid(d, a)) + 1
        /\ Cardinality(Paid(d, a) \cup {j}) \in Nat
    BY PaidIsCounted, FS_AddElement, FS_CardinalityType
  <2>3. IsFiniteSet(Paid(d, a)') /\ Cardinality(Paid(d, a)') <= Cardinality(Paid(d, a) \cup {j})
    BY <2>1, <2>2, FS_Subset
  <2> QED BY <1>0, <1>3, <2>2, <2>3, PaidIsCounted, FS_CardinalityType, ZeroIsAnAttempt
<1>4. CASE ~ (d = e /\ a = b)
  <2>1. Paid(d, a)' = Paid(d, a)
    BY <1>0, <1>1, <1>2, <1>4 DEF Paid, Owing, RowsInv, TypeOK, Rung
  <2> QED BY <1>0, <1>4, <2>1, PaidIsCounted, ZeroIsAnAttempt
<1> QED BY <1>3, <1>4

(* deliver enqueues a job of the first attempt, which no attempt pays for. *)
LEMMA DeliverEnqueuesKeepsRungs ==
  ASSUME RungsPaid, RowsInv, NEW e \in Delivery, NEW j \in JobId, DeliverEnqueues(e, j)
  PROVE  RungsPaid'
<1>0. /\ task[j] = NoTask /\ task' = [task EXCEPT ![j] = [delivery |-> e, attempt |-> 1]]
      /\ handler[j] = "idle" /\ UNCHANGED <<handler, sends>>
  BY EnqueueFacts, WebhookAssumption DEF DeliverEnqueues
<1> SUFFICES ASSUME NEW d \in Delivery, NEW a \in 1 .. MaxAttempts
             PROVE  /\ IsFiniteSet(Rung(d, a)')
                    /\ a < MaxAttempts => Cardinality(Paid(d, a)') <= sends'[d][a]
  BY DEF RungsPaid, Paid
<1>1. Rung(d, a)' \subseteq Rung(d, a) \cup {j}
  BY <1>0 DEF Rung, RowsInv, TypeOK
<1>2. IsFiniteSet(Rung(d, a) \cup {j})
  BY FS_AddElement DEF RungsPaid
<1>3. Paid(d, a)' = Paid(d, a)
  <2>1. \A i \in JobId : \/ i # j /\ task'[i] = task[i]
                         \/ i = j /\ task'[i].attempt = 1 /\ task[i].attempt = 0
    BY <1>0 DEF RowsInv, TypeOK, NoTask
  <2>2. Rung(d, a + 1)' = Rung(d, a + 1)
    BY <2>1 DEF Rung
  <2>3. Owing(d, a)' = Owing(d, a)
    BY <1>0, <2>1 DEF Rung, Owing, Busy
  <2> QED BY <2>2, <2>3 DEF Paid
<1> QED BY <1>0, <1>1, <1>2, <1>3, FS_Subset, PaidIsCounted

(* A handler that enqueues the next attempt owes none any more. *)
LEMMA RescheduleKeepsRungs ==
  ASSUME RungsPaid, RowsInv, NEW i \in JobId, NEW j \in JobId, Reschedule(i, j)
  PROVE  RungsPaid'
<1> DEFINE e == task[i].delivery  b == task[i].attempt
<1>0. /\ e \in Delivery /\ b \in 1 .. MaxAttempts /\ b + 1 \in 1 .. MaxAttempts
      /\ EnqueueRetry(j, e, b + 1) /\ handler[i] = "failed"
      /\ handler' = [handler EXCEPT ![i] = "threw"] /\ UNCHANGED sends
  BY RunningHaveTasks, WebhookAssumption DEF Reschedule
<1>a. /\ task[j] = NoTask /\ task' = [task EXCEPT ![j] = [delivery |-> e, attempt |-> b + 1]]
      /\ handler[j] = "idle"
  BY <1>0, EnqueueFacts
<1>b. /\ i # j /\ handler'[i] = "threw"
      /\ \A k \in JobId \ {j} : task'[k] = task[k]
      /\ task'[j].delivery = e /\ task'[j].attempt = b + 1 /\ task[j].attempt = 0
      /\ \A k \in JobId \ {i} : handler'[k] = handler[k]
  BY <1>0, <1>a DEF RowsInv, TypeOK, NoTask
<1>c. task[i].delivery = e /\ task[i].attempt = b
  OBVIOUS
<1> HIDE DEF e, b
<1> SUFFICES ASSUME NEW d \in Delivery, NEW a \in 1 .. MaxAttempts
             PROVE  /\ IsFiniteSet(Rung(d, a)')
                    /\ a < MaxAttempts => Cardinality(Paid(d, a)') <= sends'[d][a]
  BY DEF RungsPaid, Paid
<1>1. Rung(d, a)' \subseteq Rung(d, a) \cup {j}
  BY <1>b DEF Rung
<1>2. IsFiniteSet(Rung(d, a) \cup {j})
  BY FS_AddElement DEF RungsPaid
<1>3. CASE d = e /\ a = b
  <2>1. Paid(d, a)' \subseteq (Paid(d, a) \ {i}) \cup {j}
    BY <1>0, <1>b, <1>c, <1>3 DEF Paid, Owing, Rung, Busy
  <2>2. i \in Paid(d, a)
    BY <1>0, <1>c, <1>3 DEF Paid, Owing, Rung, Busy
  <2>3. ASSUME a < MaxAttempts PROVE Cardinality(Paid(d, a)') <= sends'[d][a]
    <3>1. /\ IsFiniteSet(Paid(d, a) \ {i})
          /\ Cardinality(Paid(d, a) \ {i}) = Cardinality(Paid(d, a)) - 1
      BY <2>2, <2>3, PaidIsCounted, FS_RemoveElement
    <3>2. /\ IsFiniteSet((Paid(d, a) \ {i}) \cup {j})
          /\ Cardinality((Paid(d, a) \ {i}) \cup {j}) <= Cardinality(Paid(d, a))
      <4> DEFINE X == Paid(d, a) \ {i}
      <4>1. /\ IsFiniteSet(X \cup {j})
            /\ Cardinality(X \cup {j}) \in {Cardinality(X), Cardinality(X) + 1}
        BY <3>1, FS_AddElement
      <4> QED BY <2>3, <3>1, <4>1, PaidIsCounted
    <3>3. /\ IsFiniteSet(Paid(d, a)')
          /\ Cardinality(Paid(d, a)') <= Cardinality((Paid(d, a) \ {i}) \cup {j})
      BY <2>1, <3>2, FS_Subset
    <3> QED BY <1>0, <2>3, <3>2, <3>3, PaidIsCounted, FS_CardinalityType
  <2> QED BY <1>1, <1>2, <2>3, FS_Subset
<1>4. CASE ~ (d = e /\ a = b)
  <2>1. Rung(d, a + 1)' \subseteq Rung(d, a + 1)
    BY <1>0, <1>b, <1>4 DEF Rung
  <2>2. Owing(d, a)' \subseteq Owing(d, a)
    BY <1>a, <1>b DEF Rung, Owing, Busy
  <2>3. Paid(d, a)' \subseteq Paid(d, a)
    BY <2>1, <2>2 DEF Paid
  <2>4. ASSUME a < MaxAttempts PROVE Cardinality(Paid(d, a)') <= sends'[d][a]
    <3>1. IsFiniteSet(Paid(d, a)') /\ Cardinality(Paid(d, a)') <= Cardinality(Paid(d, a))
      BY <2>3, <2>4, PaidIsCounted, FS_Subset
    <3> QED BY <1>0, <2>4, <3>1, PaidIsCounted, FS_CardinalityType
  <2> QED BY <1>1, <1>2, <2>4, FS_Subset
<1> QED BY <1>3, <1>4

LEMMA StepRungs == ASSUME RungsPaid, RowsInv, [Next]_vars PROVE RungsPaid'
<1>1. \A a \in 1 .. MaxAttempts : a # 0 /\ a \in Attempt /\ 0 \in Attempt
  BY ZeroIsAnAttempt
<1>2. ASSUME NEW d \in Delivery, Deliver(d) PROVE RungsPaid'
  BY <1>1, <1>2, SendCounts, QuietKeepsRungs DEF Deliver, RowsInv
<1>3. CASE UNCHANGED <<task, sends, handler>>
  BY <1>3, QuietKeepsRungs
<1>4. ASSUME NEW j \in JobId,
             \/ RetrySucceeds(j) \/ RetryFails(j) \/ Exhaust(j)
             \/ ReportDone(j) \/ ReportFailed(j)
      PROVE  RungsPaid'
  BY <1>4, QuietKeepsRungs
  DEF RetrySucceeds, RetryFails, Exhaust, ReportDone, ReportFailed, Busy, RowsInv, TypeOK
<1>5. CASE Crash
  BY <1>5, QuietKeepsRungs DEF Crash, Busy
<1> QED
  BY <1>2, <1>3, <1>4, <1>5, StartKeepsRungs, DeliverEnqueuesKeepsRungs, RescheduleKeepsRungs
  DEF Next, RunJob, ContinueDeliver, DeliverSucceeds, DeliverFails, Replay, Purge, vars

-----------------------------------------------------------------------------
(* The posts of an attempt are executions of its jobs. *)
LEMMA ExecutionsFinite ==
  ASSUME NEW R, IsFiniteSet(R), NEW E \in SUBSET (R \X (1 .. MaxAttempts))
  PROVE  /\ IsFiniteSet(E) /\ Cardinality(E) \in Nat /\ Cardinality(R) \in Nat
         /\ Cardinality(E) <= MaxAttempts * Cardinality(R)
<1> DEFINE N == 1 .. MaxAttempts
<1>1. IsFiniteSet(N) /\ Cardinality(N) = MaxAttempts
  BY FS_Interval, WebhookAssumption
<1>2. Cardinality(R) \in Nat
  BY FS_CardinalityType
<1> HIDE DEF N
<1>3. IsFiniteSet(R \X N) /\ Cardinality(R \X N) = Cardinality(R) * Cardinality(N)
  BY <1>1, FS_Product
<1>4. IsFiniteSet(E) /\ Cardinality(E) <= Cardinality(R \X N)
  BY <1>3, FS_Subset DEF N
<1>5. Cardinality(E) \in Nat
  BY <1>4, FS_CardinalityType
<1>6. Cardinality(R) * MaxAttempts = MaxAttempts * Cardinality(R)
  BY <1>2, WebhookAssumption
<1> QED BY <1>1, <1>2, <1>3, <1>4, <1>5, <1>6

LEMMA ExecutionsAreOfRungs ==
  \A d, a : Executions(d, a) \in SUBSET (Rung(d, a) \X (1 .. MaxAttempts))
BY DEF Executions

LEMMA InitSends == Init => SendsAreExecutions
<1> SUFFICES ASSUME Init, NEW d \in Delivery, NEW a \in 1 .. MaxAttempts
             PROVE  sends[d][a] <= Cardinality(Executions(d, a))
  BY DEF SendsAreExecutions
<1>1. sends[d][a] = 0
  BY ZeroIsAnAttempt DEF Init
<1>2. IsFiniteSet(Rung(d, a))
  BY InitRungs DEF RungsPaid
<1> QED BY <1>1, <1>2, ExecutionsFinite, ExecutionsAreOfRungs

(* Where no execution is forgotten, and there is one more for a new post.  *)
LEMMA ExecutionsKept ==
  ASSUME RungsPaid', SendsAreExecutions, RungsPaid, RowsInv, replays' = replays,
         NEW d \in Delivery, NEW a \in 1 .. MaxAttempts, replays = 0,
         Executions(d, a) \subseteq Executions(d, a)',
         \/ sends'[d][a] = sends[d][a]
         \/ /\ sends'[d][a] = sends[d][a] + 1
            /\ \E x : x \in Executions(d, a)' \ Executions(d, a)
  PROVE  sends'[d][a] <= Cardinality(Executions(d, a)')
<1> DEFINE E == Executions(d, a)  F == Executions(d, a)'
<1>1. IsFiniteSet(Rung(d, a)) /\ IsFiniteSet(Rung(d, a)')
  BY DEF RungsPaid
<1>2. F \in SUBSET (Rung(d, a)' \X (1 .. MaxAttempts))
  BY DEF Executions
<1>3. IsFiniteSet(E) /\ IsFiniteSet(F) /\ Cardinality(E) \in Nat /\ Cardinality(F) \in Nat
  BY <1>1, <1>2, ExecutionsFinite, ExecutionsAreOfRungs
<1>4. sends[d][a] <= Cardinality(E) /\ sends[d][a] \in Nat
  BY ZeroIsAnAttempt DEF SendsAreExecutions, RowsInv, TypeOK
<1>5. Cardinality(E) <= Cardinality(F)
  BY <1>3, FS_Subset
<1>6. ASSUME NEW x, x \in F \ E PROVE Cardinality(E) + 1 <= Cardinality(F)
  <2>1. IsFiniteSet(E \cup {x}) /\ Cardinality(E \cup {x}) = Cardinality(E) + 1
    BY <1>3, <1>6, FS_AddElement
  <2>2. E \cup {x} \in SUBSET F
    BY <1>6
  <2> QED BY <1>3, <2>1, <2>2, FS_Subset
<1> HIDE DEF E, F
<1> QED BY <1>3, <1>4, <1>5, <1>6 DEF E, F

LEMMA StepSends ==
  ASSUME SendsAreExecutions, ReplaysCount, RungsPaid, RungsPaid', RowsInv, [Next]_vars
  PROVE  SendsAreExecutions'
<1>1. ASSUME NEW j \in JobId, StartRetry(j) PROVE SendsAreExecutions'
  <2> DEFINE e == task[j].delivery  b == task[j].attempt
  <2>0. /\ e \in Delivery /\ b \in 1 .. MaxAttempts /\ UNCHANGED <<task, replays>>
        /\ phase[j] = "waiting" /\ phase' = [phase EXCEPT ![j] = "running"]
        /\ starts[j] < limit[j] /\ starts' = [starts EXCEPT ![j] = starts[j] + 1]
        /\ \A d \in Delivery : \A a \in Attempt :
             sends'[d][a] = IF d = e /\ a = b THEN sends[d][a] + 1 ELSE sends[d][a]
    BY <1>1, RunningHaveTasks, SendCounts DEF StartRetry, Table!Start, RowsInv, bounds
  <2> SUFFICES ASSUME replays = 0, NEW d \in Delivery, NEW a \in 1 .. MaxAttempts
               PROVE  sends'[d][a] <= Cardinality(Executions(d, a)')
    BY <2>0 DEF SendsAreExecutions
  <2>1. starts[j] + 1 \in 1 .. MaxAttempts /\ starts'[j] = starts[j] + 1
    <3>1. limit[j] = MaxAttempts /\ starts[j] \in Nat /\ MaxAttempts \in Nat
      BY <2>0, WebhookAssumption DEF RowsInv, TypeOK, RowsAreLimited
    <3> QED BY <2>0, <3>1 DEF RowsInv, TypeOK
  <2>2. Rung(d, a)' = Rung(d, a)
    BY <2>0, SameRungs
  <2>3. \A i \in JobId : /\ phase[i] = "purged" <=> phase'[i] = "purged"
                         /\ starts[i] \in Nat /\ starts'[i] \in Nat /\ starts[i] <= starts'[i]
    BY <2>0, <2>1 DEF RowsInv, TypeOK
  <2>4. Executions(d, a) \subseteq Executions(d, a)'
    BY <2>2, <2>3 DEF Executions, Rung
  <2>5. ASSUME d = e, a = b
        PROVE  <<j, starts[j] + 1>> \in Executions(d, a)' \ Executions(d, a)
    BY <2>0, <2>1, <2>2, <2>3, <2>5 DEF Executions, Rung, RowsInv, TypeOK
  <2>6. \/ sends'[d][a] = sends[d][a]
        \/ /\ sends'[d][a] = sends[d][a] + 1
           /\ \E x : x \in Executions(d, a)' \ Executions(d, a)
    BY <2>0, <2>5, ZeroIsAnAttempt
  <2> QED BY <2>0, <2>4, <2>6, ExecutionsKept
<1>2. ASSUME replays' = replays,
             \A d \in Delivery : \A a \in 1 .. MaxAttempts :
               sends'[d][a] = sends[d][a] /\ Executions(d, a) \subseteq Executions(d, a)'
      PROVE  SendsAreExecutions'
  BY <1>2, ExecutionsKept DEF SendsAreExecutions
<1>3. ASSUME NEW j \in JobId, NEW d \in Delivery, NEW a \in 1 .. MaxAttempts,
             EnqueueRetry(j, d, a), UNCHANGED <<starts, sends, replays>>
      PROVE  SendsAreExecutions'
  <2>1. /\ phase[j] = "none" /\ phase' = [phase EXCEPT ![j] = "waiting"]
        /\ task[j] = NoTask /\ task' = [task EXCEPT ![j] = [delivery |-> d, attempt |-> a]]
    BY <1>3, EnqueueFacts
  <2>2. \A i \in JobId \ {j} : phase'[i] = phase[i] /\ task'[i] = task[i]
    BY <2>1 DEF RowsInv, TypeOK
  <2>3. \A e \in Delivery : \A b \in 1 .. MaxAttempts :
          Executions(e, b) \subseteq Executions(e, b)'
    BY <1>3, <2>1, <2>2 DEF Executions, Rung, NoTask
  <2> QED BY <1>2, <1>3, <2>3
<1>4. CASE UNCHANGED <<phase, starts, task, replays>> /\
           \A d \in Delivery : \A a \in 1 .. MaxAttempts : sends'[d][a] = sends[d][a]
  BY <1>2, <1>4 DEF Executions, Rung
<1>5. ASSUME NEW d \in Delivery, NEW j \in JobId, DeliverEnqueues(d, j)
      PROVE  SendsAreExecutions'
  BY <1>3, <1>5, WebhookAssumption DEF DeliverEnqueues, bounds
<1>6. ASSUME NEW i \in JobId, NEW j \in JobId, Reschedule(i, j) PROVE SendsAreExecutions'
  <2>1. /\ task[i].delivery \in Delivery /\ task[i].attempt + 1 \in 1 .. MaxAttempts
        /\ EnqueueRetry(j, task[i].delivery, task[i].attempt + 1)
    BY <1>6, RunningHaveTasks, WebhookAssumption DEF Reschedule
  <2> QED BY <1>3, <1>6, <2>1 DEF Reschedule, bounds
<1>7. ASSUME NEW d \in Delivery, Deliver(d) PROVE SendsAreExecutions'
  <2>1. \A c \in Delivery : \A a \in 1 .. MaxAttempts : sends'[c][a] = sends[c][a]
    BY <1>7, SendCounts, ZeroIsAnAttempt DEF Deliver, RowsInv
  <2> QED BY <1>4, <1>7, <2>1 DEF Deliver, tableVars, bounds
<1>8. ASSUME NEW j \in JobId, ReportDone(j) \/ ReportFailed(j) PROVE SendsAreExecutions'
  <2>1. /\ UNCHANGED <<starts, sends, replays, task>> /\ phase[j] = "running"
        /\ \A i \in JobId \ {j} : phase'[i] = phase[i]
    BY <1>8 DEF ReportDone, ReportFailed, Table!Finish, Table!Requeue, Table!Bury, bounds,
       RowsInv, TypeOK
  <2>2. \A e, b : Executions(e, b) \subseteq Executions(e, b)'
    BY <2>1 DEF Executions, Rung
  <2> QED BY <1>2, <2>1, <2>2
<1>9. ASSUME NEW j \in JobId, Purge(j) PROVE SendsAreExecutions'
  <2>1. /\ UNCHANGED <<sends, replays, task>>
        /\ \A i \in JobId : \/ phase'[i] = "purged"
                            \/ phase'[i] = phase[i] /\ starts'[i] = starts[i]
    BY <1>9 DEF Purge, Table!Purge, bounds, RowsInv, TypeOK
  <2>2. \A e, b : Executions(e, b) \subseteq Executions(e, b)'
    BY <2>1 DEF Executions, Rung
  <2> QED BY <1>2, <2>1, <2>2
<1>10. ASSUME NEW j \in JobId, Replay(j) PROVE SendsAreExecutions'
  BY <1>10 DEF Replay, SendsAreExecutions, ReplaysCount
<1> QED
  BY <1>1, <1>4, <1>5, <1>6, <1>7, <1>8, <1>9, <1>10
  DEF Next, RunJob, ContinueDeliver, DeliverSucceeds, DeliverFails, RetrySucceeds,
      RetryFails, Exhaust, Crash, vars, tableVars, bounds

-----------------------------------------------------------------------------
LEMMA StepHolds == IInv /\ [Next]_vars => IInv'
<1> SUFFICES ASSUME IInv, [Next]_vars PROVE IInv'
  OBVIOUS
<1>1. RowsInv' /\ RungsPaid'
  BY StepRows, StepRungs DEF IInv
<1>2. LossInv'
  BY StepThrew, StepDone DEF IInv, LossInv
<1>3. ReplaysCount'
  <2>1. replays' = replays \/ replays' = replays + 1
    BY DEF Next, RunJob, ContinueDeliver, Deliver, DeliverSucceeds, DeliverFails,
       DeliverEnqueues, StartRetry, RetrySucceeds, RetryFails, Exhaust, ReportDone,
       ReportFailed, Reschedule, Replay, Purge, Crash, vars, bounds
  <2> QED BY <2>1 DEF IInv, ReplaysCount
<1>4. SendsAreExecutions'
  BY <1>1, StepSends DEF IInv
<1> QED BY <1>1, <1>2, <1>3, <1>4 DEF IInv

LEMMA InitHolds == Init => IInv
<1>1. Init => ReplaysCount
  BY DEF Init, ReplaysCount
<1> QED BY <1>1, InitRows, InitLoss, InitRungs, InitSends DEF IInv

(* What IInv says of a delivery that was failed: it is not lost in silence. *)
LEMMA FollowedAreNotLost == IInv => NoSilentLoss
<1> SUFFICES ASSUME IInv, NEW d \in Delivery, caller[d] = "done", ~ Settled(d)
             PROVE  \E j \in JobsOf(d) : phase[j] \in {"waiting", "running"}
  BY DEF NoSilentLoss, Settled
<1>1. Followed(d, 0)
  BY DEF IInv, LossInv, DoneIsFollowed
<1> QED BY <1>1 DEF Followed, Live, JobsOf

LEMMA PaidIsALadder == IInv => LadderPaid
<1> SUFFICES ASSUME IInv, NEW d \in Delivery, NEW a \in 1 .. MaxAttempts - 1
             PROVE  Cardinality({j \in JobsOf(d) : task[j].attempt = a + 1}) <= sends[d][a]
  BY DEF LadderPaid
<1>1. a \in 1 .. MaxAttempts /\ a + 1 \in 1 .. MaxAttempts /\ a < MaxAttempts
  BY WebhookAssumption
<1> DEFINE S == {j \in JobsOf(d) : task[j].attempt = a + 1}
<1>2. S = Rung(d, a + 1)
  BY DEF JobsOf, Rung
<1>3. Rung(d, a + 1) \in SUBSET Paid(d, a)
  BY DEF Paid
<1>4. /\ IsFiniteSet(Paid(d, a)) /\ Cardinality(Paid(d, a)) \in Nat /\ sends[d][a] \in Nat
      /\ Cardinality(Paid(d, a)) <= sends[d][a]
  BY <1>1, PaidIsCounted DEF IInv
<1>5. /\ IsFiniteSet(Rung(d, a + 1))
      /\ Cardinality(Rung(d, a + 1)) <= Cardinality(Paid(d, a))
  BY <1>3, <1>4, FS_Subset
<1>6. Cardinality(Rung(d, a + 1)) \in Nat
  BY <1>5, FS_CardinalityType
<1>7. Cardinality(S) <= sends[d][a]
  <2> HIDE DEF S
  <2> QED BY <1>2, <1>4, <1>5, <1>6
<1> QED BY <1>7

LEMMA ExecutionsBoundFanOut == IInv => FanOutBounded
<1> SUFFICES ASSUME IInv, replays = 0, NEW d \in Delivery
             PROVE  /\ sends[d][0] <= 1
                    /\ \A a \in 1 .. MaxAttempts : sends[d][a] <= MaxAttempts * sends[d][a - 1]
  BY DEF FanOutBounded
<1>1. sends[d][0] = IF caller[d] = "none" THEN 0 ELSE 1
  BY DEF IInv, RowsInv, CallersPostOnce
<1>2. ASSUME NEW a \in 1 .. MaxAttempts PROVE sends[d][a] <= MaxAttempts * sends[d][a - 1]
  <2> DEFINE R == Rung(d, a)  E == Executions(d, a)
  <2>1. /\ IsFiniteSet(R) /\ Cardinality(R) \in Nat /\ Cardinality(E) \in Nat
        /\ Cardinality(E) <= MaxAttempts * Cardinality(R)
    BY ExecutionsFinite, ExecutionsAreOfRungs DEF IInv, RungsPaid
  <2>2. sends[d][a] <= Cardinality(E)
    BY DEF IInv, SendsAreExecutions
  <2>3. a - 1 \in Attempt /\ sends[d][a] \in Nat /\ sends[d][a - 1] \in Nat
    BY WebhookAssumption, ZeroIsAnAttempt DEF Attempt, IInv, RowsInv, TypeOK
  <2> HIDE DEF R, E
  <2>4. Cardinality(R) <= sends[d][a - 1]
    <3>1. CASE a = 1
      <4>1. CASE R = {}
        BY <2>1, <2>3, <4>1, FS_EmptySet
      <4>2. CASE R # {}
        <5>1. caller[d] = "done" /\ \A j, k \in R : j = k
          BY <3>1, <4>2 DEF R, IInv, RowsInv, CallersPostOnce
        <5>2. PICK j \in R : R = {j}
          BY <4>2, <5>1
        <5>3. Cardinality(R) = 1
          BY <5>2, FS_Singleton
        <5>4. sends[d][a - 1] = sends[d][0] /\ sends[d][0] = 1
          BY <1>1, <3>1, <5>1
        <5> QED BY <5>3, <5>4
      <4> QED BY <4>1, <4>2
    <3>2. CASE a # 1
      <4>1. a - 1 \in 1 .. MaxAttempts - 1 /\ (a - 1) + 1 = a
        BY <3>2, WebhookAssumption
      <4>2. R = {j \in JobsOf(d) : task[j].attempt = a}
        BY DEF R, JobsOf, Rung
      <4> QED BY <4>1, <4>2, PaidIsALadder DEF LadderPaid
    <3> QED BY <3>1, <3>2
  <2>5. MaxAttempts * Cardinality(R) <= MaxAttempts * sends[d][a - 1]
    BY <2>1, <2>3, <2>4, WebhookAssumption
  <2>6. MaxAttempts * Cardinality(R) \in Nat /\ MaxAttempts * sends[d][a - 1] \in Nat
    BY <2>1, <2>3, WebhookAssumption
  <2> QED BY <2>1, <2>2, <2>3, <2>5, <2>6
<1> QED BY <1>1, <1>2

(* webhook-delivery.service.ts: the variables keep their types, and the    *)
(* delivery log its bound.                                                 *)
THEOREM TypeCorrect == Spec => []TypeOK
<1>1. IInv => TypeOK
  BY DEF IInv, RowsInv
<1> QED BY InitHolds, StepHolds, <1>1, PTL DEF Spec

(* No failed delivery is lost in silence, whatever fails, restarts, is     *)
(* replayed or purged.                                                     *)
THEOREM NothingIsLostInSilence == Spec => []NoSilentLoss
BY InitHolds, StepHolds, FollowedAreNotLost, PTL DEF Spec

(* Each retry job is paid for by a failed post of the attempt before.      *)
THEOREM LaddersArePaid == Spec => []LadderPaid
BY InitHolds, StepHolds, PaidIsALadder, PTL DEF Spec

(* All that the deliveries promise together, with the bound of the posts   *)
(* that the two ladders of retries multiply.                               *)
THEOREM DeliveriesHold == Spec => []WebhookInv
<1>1. IInv => WebhookInv
  BY FollowedAreNotLost, PaidIsALadder, ExecutionsBoundFanOut
  DEF IInv, RowsInv, WebhookInv
<1> QED BY InitHolds, StepHolds, <1>1, PTL DEF Spec
=============================================================================
