------------------------------- MODULE TxWatch -------------------------------
(***************************************************************************)
(* Watching a submitted transaction: watchTxStatus of apps/web             *)
(* (lib/tx-orchestrator.ts) and the event stream it opens on the API       *)
(* (streamTxStatus of modules/rpc/rpc.controller.ts).                      *)
(*                                                                         *)
(* The browser opens an EventSource, and falls back to polling when that   *)
(* does not connect.  Every callback is one action: the events of the      *)
(* EventSource, the timer, the answers of the polls, and the cleanup the   *)
(* caller may call at any time.  The network may fail anywhere.            *)
(***************************************************************************)
EXTENDS Naturals, Sequences

CONSTANTS
  MaxPolls,  \* maxPollAttempts
  MaxTicks   \* bound on the stream's ticks: TIMEOUT_MS / POLL_INTERVAL_MS

ASSUME WatchAssumption == MaxPolls \in Nat \ {0} /\ MaxTicks \in Nat

VARIABLES
  final,     \* the transaction has reached a terminal state
  es,        \* readyState of the EventSource
  resolved,  \* the EventSource has opened or has been given up
  timer,     \* connectTimeout is armed
  stream,    \* the API's stream for this EventSource
  ticks,     \* ticks of the stream that were answered
  wire,      \* events sent and not yet dispatched by the EventSource
  poll,      \* where the polling loop is
  attempts,  \* polls begun
  stopped,   \* the polling loop is to stop
  cleaned,   \* the caller has called the cleanup function
  reported,  \* the last status onUpdate was called with
  updates    \* calls of onUpdate

sseVars == <<es, resolved, timer, stream, ticks, wire>>
pollVars == <<poll, attempts, stopped>>
reportVars == <<reported, updates>>
vars == <<final, sseVars, pollVars, cleaned, reportVars>>

Connected == es \in {"connecting", "open"}
Polling == poll \in {"asking", "waiting"}

Init ==
  /\ final = FALSE
  /\ es = "none" /\ resolved = FALSE /\ timer = FALSE
  /\ stream = "none" /\ ticks = 0 /\ wire = <<>>
  /\ poll = "off" /\ attempts = 0 /\ stopped = FALSE
  /\ cleaned = FALSE
  /\ reported = "none" /\ updates = 0

OnUpdate(status) == reported' = status /\ updates' = updates + 1

(* startPollingFallback: the first poll goes out at once. *)
StartPolling == poll' = "asking" /\ attempts' = 1 /\ stopped' = FALSE

CloseStream == es' = "closed" /\ stream' = "ended" /\ wire' = <<>>

(* The transaction is included in a ledger, or fails. *)
Finalize ==
  /\ ~ final /\ final' = TRUE
  /\ UNCHANGED <<sseVars, pollVars, cleaned, reportVars>>

-----------------------------------------------------------------------------
(* watchTxStatus. *)
NotStarted == es = "none" /\ poll = "off" /\ ~ cleaned

WatchStream ==
  /\ NotStarted
  /\ es' = "connecting" /\ timer' = TRUE
  /\ UNCHANGED <<final, resolved, stream, ticks, wire, pollVars, cleaned, reportVars>>

(* EventSource is missing, or its constructor threw. *)
WatchByPolling ==
  /\ NotStarted
  /\ StartPolling
  /\ UNCHANGED <<final, sseVars, cleaned, reportVars>>

(* Mutants: the timer does not close the EventSource; the timer acts only  *)
(* on a connection that did open.                                          *)
TimerFiresKeepsStream ==
  /\ timer /\ ~ resolved
  /\ resolved' = TRUE /\ timer' = FALSE
  /\ StartPolling
  /\ UNCHANGED <<final, es, stream, wire, ticks, cleaned, reportVars>>
TimerFiresLate ==
  /\ timer /\ resolved
  /\ timer' = FALSE
  /\ CloseStream /\ StartPolling
  /\ UNCHANGED <<final, resolved, ticks, cleaned, reportVars>>

TimerFires ==
  /\ timer /\ ~ resolved
  /\ resolved' = TRUE /\ timer' = FALSE
  /\ CloseStream /\ StartPolling
  /\ UNCHANGED <<final, ticks, cleaned, reportVars>>

(* onopen *)
Opened ==
  /\ es = "connecting"
  /\ es' = "open" /\ timer' = FALSE /\ resolved' = TRUE
  /\ stream' = "live"
  /\ UNCHANGED <<final, ticks, wire, pollVars, cleaned, reportVars>>

(* onerror before onopen *)
ConnectFails ==
  /\ es = "connecting" /\ ~ resolved
  /\ resolved' = TRUE /\ timer' = FALSE
  /\ CloseStream /\ StartPolling
  /\ UNCHANGED <<final, ticks, cleaned, reportVars>>

(* onerror after onopen *)
ErrorAfterOpen ==
  /\ CloseStream
  /\ UNCHANGED <<final, resolved, timer, ticks, pollVars, cleaned, reportVars>>

(* The connection breaks, or the API has ended the stream. *)
ConnectionEnds ==
  /\ es = "open"
  /\ ErrorAfterOpen

(* An event of type "error" reaches onerror, as a failed connection does. *)
ErrorEvent ==
  /\ es = "open" /\ wire # <<>> /\ Head(wire) = "error"
  /\ ErrorAfterOpen

(* onmessage *)
PendingMessage ==
  /\ es = "open" /\ wire # <<>> /\ Head(wire) = "pending"
  /\ OnUpdate("pending")
  /\ wire' = Tail(wire)
  /\ UNCHANGED <<final, es, resolved, timer, stream, ticks, pollVars, cleaned>>

FinalMessage ==
  /\ es = "open" /\ wire # <<>> /\ Head(wire) = "final"
  /\ OnUpdate("final")
  /\ CloseStream
  /\ UNCHANGED <<final, resolved, timer, ticks, pollVars, cleaned>>

-----------------------------------------------------------------------------
(* streamTxStatus: a tick asks the RPC and sends the status, or an event   *)
(* of type "error"; a terminal status or the timeout ends the stream.      *)
Answers == {"pending", "error"} \cup (IF final THEN {"final"} ELSE {})

StreamTick ==
  /\ stream = "live" /\ ticks < MaxTicks
  /\ \E event \in Answers :
       /\ wire' = Append(wire, event)
       /\ stream' = IF event = "final" THEN "ended" ELSE "live"
  /\ ticks' = ticks + 1
  /\ UNCHANGED <<final, es, resolved, timer, pollVars, cleaned, reportVars>>

StreamTimesOut ==
  /\ stream = "live"
  /\ stream' = "ended"
  /\ UNCHANGED <<final, es, resolved, timer, ticks, wire, pollVars, cleaned, reportVars>>

-----------------------------------------------------------------------------
(* The polling loop. *)

(* Mutant: the loop goes on after a cleanup that came during the poll. *)
PollPendingGoesOn ==
  /\ poll = "asking"
  /\ OnUpdate("pending")
  /\ poll' = "waiting"
  /\ UNCHANGED <<final, sseVars, attempts, stopped, cleaned>>

PollPending ==
  /\ poll = "asking"
  /\ OnUpdate("pending")
  /\ poll' = IF stopped THEN "ended" ELSE "waiting"
  /\ UNCHANGED <<final, sseVars, attempts, stopped, cleaned>>

(* Mutant: a terminal status does not stop the loop. *)
PollFinalGoesOn ==
  /\ poll = "asking" /\ final
  /\ OnUpdate("final")
  /\ poll' = IF stopped THEN "ended" ELSE "waiting"
  /\ UNCHANGED <<final, sseVars, attempts, stopped, cleaned>>

PollFinal ==
  /\ poll = "asking" /\ final
  /\ OnUpdate("final")
  /\ stopped' = TRUE /\ poll' = "ended"
  /\ UNCHANGED <<final, sseVars, attempts, cleaned>>

(* Not ok: the loop returns without setting its timer again. *)
PollNotOk ==
  /\ poll = "asking"
  /\ poll' = "ended"
  /\ UNCHANGED <<final, sseVars, attempts, stopped, cleaned, reportVars>>

(* A network error, or an answer without data: try again. *)
PollFails ==
  /\ poll = "asking"
  /\ poll' = IF stopped THEN "ended" ELSE "waiting"
  /\ UNCHANGED <<final, sseVars, attempts, stopped, cleaned, reportVars>>

(* Mutant: the attempt limit is off by one. *)
PollAgainOnceMore ==
  /\ poll = "waiting"
  /\ IF stopped \/ attempts > MaxPolls
     THEN poll' = "ended" /\ UNCHANGED attempts
     ELSE poll' = "asking" /\ attempts' = attempts + 1
  /\ UNCHANGED <<final, sseVars, stopped, cleaned, reportVars>>

PollAgain ==
  /\ poll = "waiting"
  /\ IF stopped \/ attempts >= MaxPolls
     THEN poll' = "ended" /\ UNCHANGED attempts
     ELSE poll' = "asking" /\ attempts' = attempts + 1
  /\ UNCHANGED <<final, sseVars, stopped, cleaned, reportVars>>

(* The cleanup function; the one startPollingFallback returns is called    *)
(* only when polling has begun.                                            *)
Cleanup ==
  /\ ~ NotStarted /\ ~ cleaned
  /\ cleaned' = TRUE
  /\ timer' = FALSE
  /\ IF Connected THEN CloseStream ELSE UNCHANGED <<es, stream, wire>>
  /\ stopped' = (stopped \/ poll # "off")
  /\ UNCHANGED <<final, resolved, ticks, poll, attempts, reportVars>>

Dispatch == ErrorEvent \/ PendingMessage \/ FinalMessage
PollAnswered == PollPending \/ PollFinal \/ PollNotOk \/ PollFails

Next ==
  \/ Finalize \/ WatchStream \/ WatchByPolling \/ TimerFires \/ Opened \/ ConnectFails
  \/ ConnectionEnds \/ Dispatch \/ StreamTick \/ StreamTimesOut
  \/ PollAnswered \/ PollAgain \/ Cleanup

Spec == Init /\ [][Next]_vars

(* Timers fire; the stream ticks until its timeout, which closes the       *)
(* connection; the browser dispatches what has arrived and ends every      *)
(* request.  Whether a connection opens or fails before the timer does,    *)
(* and whether the transaction is ever final, is left open.                *)
Fairness ==
  /\ WF_vars(TimerFires)
  /\ WF_vars(Dispatch) /\ WF_vars(ConnectionEnds /\ stream = "ended")
  /\ WF_vars(StreamTick) /\ WF_vars(StreamTimesOut)
  /\ WF_vars(PollAnswered) /\ WF_vars(PollAgain)

FairSpec == Spec /\ Fairness

-----------------------------------------------------------------------------
Status == {"none", "pending", "final"}

(* The variables have their types, and the loop polls at most MaxPolls     *)
(* times.                                                                  *)
TypeOK ==
  /\ final \in BOOLEAN /\ resolved \in BOOLEAN /\ timer \in BOOLEAN
  /\ es \in {"none", "connecting", "open", "closed"}
  /\ stream \in {"none", "live", "ended"} /\ ticks \in 0 .. MaxTicks
  /\ wire \in Seq({"pending", "final", "error"})
  /\ poll \in {"off", "asking", "waiting", "ended"}
  /\ attempts \in 0 .. MaxPolls /\ stopped \in BOOLEAN /\ cleaned \in BOOLEAN
  /\ reported \in Status /\ updates \in Nat

(* The two channels are never used together, whatever the order in which   *)
(* the timer, onopen and onerror come: the fallback begins only when the   *)
(* EventSource is closed, and a timer still armed has nothing to do.       *)
OneChannel ==
  /\ ~ (Connected /\ poll # "off")
  /\ timer => es = "connecting"

(* A terminal status is the last thing onUpdate hears, and it is true.     *)
FinalIsLast ==
  [][/\ reported = "final" => UNCHANGED reportVars
     /\ reported' = "final" => final]_vars

(* What keeps this so: a terminal status or the cleanup shuts the          *)
(* EventSource and stops the loop.                                         *)
Inv ==
  /\ OneChannel
  /\ reported = "final" => ~ Connected /\ ~ Polling /\ final
  /\ es = "none" => stream = "none" /\ wire = <<>> /\ ~ resolved
  /\ es = "none" /\ poll = "off" => reported = "none"
  /\ cleaned => ~ Connected /\ ~ timer /\ (poll # "off" => stopped)
  /\ es = "connecting" => stream = "none" /\ wire = <<>> /\ ~ resolved
  /\ \A i \in DOMAIN wire : wire[i] = "final" => final

(* Together with the types: at most one channel is in use, and a terminal  *)
(* status or the cleanup has shut both.                                    *)
WatchInv ==
  /\ TypeOK /\ Inv

(* A watch ends by itself, without the cleanup: no timer, no connection    *)
(* and no polling loop is left behind.                                     *)
Quiet == ~ Connected /\ ~ Polling /\ ~ timer
EveryWatchEnds == Connected \/ Polling ~> Quiet

(* Once the caller has stopped watching, onUpdate is called at most once   *)
(* more: by a poll that was in flight, and is the last one.                *)
CleanupLeavesOnePoll ==
  [][cleaned =>
       /\ ~ UNCHANGED reportVars => poll = "asking" /\ poll' = "ended"
       /\ poll \in {"off", "ended"} => UNCHANGED poll]_vars

(* startPollingFallback polls "until the transaction reaches a terminal    *)
(* state or the attempt limit is reached" (line 215).                      *)
PollsToTheEnd ==
  poll = "ended" => reported = "final" \/ attempts = MaxPolls \/ cleaned
=============================================================================
