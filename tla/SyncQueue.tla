------------------------------ MODULE SyncQueue ------------------------------
(***************************************************************************)
(* The offline sync queue of apps/web (store/useSyncQueueStore.ts).        *)
(*                                                                         *)
(* Mutations that could not reach the server wait in a persisted queue.    *)
(* flush takes a snapshot of the queue and sends its mutations one by one, *)
(* awaiting each answer.  Nothing keeps two flushes apart: every `online`  *)
(* event starts one, and so does the Retry Sync button.  What runs between *)
(* two awaits is atomic, and each such stretch is one action.  One tab has *)
(* the page open: a second one would write the same persisted queue.       *)
(*                                                                         *)
(* Mutations are numbered in the order they were queued; the store appends *)
(* and never reorders, so the queue is the set of the numbers in it.       *)
(***************************************************************************)
EXTENDS Naturals, Sequences, FiniteSets

CONSTANTS
  Flusher,         \* calls of flush that may overlap
  MaxMutations,    \* bound on mutations queued
  MaxAttempts,     \* MAX_ATTEMPTS
  MaxLostReplies,  \* bound on replies lost after the server did its work
  MaxLateRequests, \* bound on requests given up that still reach the server
  MaxReloads       \* bound on page reloads

ASSUME SyncAssumption ==
  /\ MaxMutations \in Nat /\ MaxAttempts \in Nat \ {0}
  /\ MaxLostReplies \in Nat /\ MaxLateRequests \in Nat /\ MaxReloads \in Nat
  /\ IsFiniteSet(Flusher)

Id == 1 .. MaxMutations
Kind == {"create", "change"}
MutationState == {"optimistic", "failed"}

(* A change is an update or a delete: flush treats them alike.  linked:    *)
(* the mutation names the cloudId of its workspace.                        *)
Mutation == [kind : Kind, linked : BOOLEAN, attempts : Nat, mutationState : MutationState]

NewMutation(k, l) ==
  [kind |-> k, linked |-> l, attempts |-> 0, mutationState |-> "optimistic"]

VARIABLES
  issued,       \* mutations queued so far
  queue,        \* the ids in the persisted queue
  mutation,     \* mutation[m]: the queue entry of m
  flushStatus,  \* "idle", "flushing" or "error"
  todo,         \* todo[f]: what flush f still has to send; its least is in flight
  request,      \* request[f]: where the request in flight of flush f is
  late,         \* late[m]: requests of m nobody waits for, which may still arrive
  applied,      \* what the server did, in order
  lost, delayed, reloads,
  shared,       \* history: mutations two flushes have had in hand at once
  loose         \* history: mutations a request of which may have come late

marks == <<shared, loose>>

bounds == <<lost, delayed, reloads>>
vars == <<issued, queue, mutation, flushStatus, todo, request, late, applied, bounds, marks>>

First(S) == CHOOSE m \in S : \A n \in S : m <= n

(* A confirmed mutation leaves the queue in the same stretch of code, so   *)
(* no flush finds one.  An update or delete without a cloudId falls        *)
(* through every branch of the loop and stays where it is.                 *)

(* Mutant: the attempts limit is off by one. *)
SendableOnceMore(m) ==
  /\ mutation[m].attempts <= MaxAttempts
  /\ mutation[m].kind = "create" \/ mutation[m].linked

Sendable(m) ==
  /\ mutation[m].attempts < MaxAttempts
  /\ mutation[m].kind = "create" \/ mutation[m].linked

Init ==
  /\ issued = 0 /\ queue = {}
  /\ mutation = [m \in Id |-> NewMutation("create", FALSE)]
  /\ flushStatus = "idle"
  /\ todo = [f \in Flusher |-> {}]
  /\ request = [f \in Flusher |-> "none"]
  /\ late = [m \in Id |-> 0] /\ applied = <<>>
  /\ lost = 0 /\ delayed = 0 /\ reloads = 0 /\ shared = {} /\ loose = {}

-----------------------------------------------------------------------------
(* enqueue and applyOptimistic append an optimistic mutation. *)
Enqueue(k, l) ==
  /\ issued < MaxMutations
  /\ k = "create" => ~ l
  /\ issued' = issued + 1
  /\ queue' = queue \cup {issued + 1}
  /\ mutation' = [mutation EXCEPT ![issued + 1] = NewMutation(k, l)]
  /\ UNCHANGED <<flushStatus, todo, request, late, applied, bounds, marks>>

(* flush, up to the first await: snapshot the queue, and send. *)
StartFlush(f) ==
  LET snapshot == {m \in queue : Sendable(m)} IN
  /\ todo[f] = {}
  /\ queue # {}
  /\ todo' = [todo EXCEPT ![f] = snapshot]
  /\ request' = [request EXCEPT ![f] = IF snapshot = {} THEN "none" ELSE "sent"]
  /\ flushStatus' = IF snapshot = {} THEN "idle" ELSE "flushing"
  /\ shared' = shared \cup {m \in snapshot : \E g \in Flusher : m \in todo[g]}
  /\ UNCHANGED <<issued, queue, mutation, late, applied, bounds, loose>>

(* The server: it applies a request, or refuses it with a message in which *)
(* flush finds "revision", "conflict" or "409".  A stale update is refused *)
(* so; and as the message ends in a random correlation id, which may hold  *)
(* the digits 409, any refused request may be.                             *)
Apply(f) ==
  /\ request[f] = "sent"
  /\ request' = [request EXCEPT ![f] = "applied"]
  /\ applied' = Append(applied, First(todo[f]))
  /\ UNCHANGED <<issued, queue, mutation, flushStatus, todo, late, bounds, marks>>

Refuse(f) ==
  /\ request[f] = "sent"
  /\ request' = [request EXCEPT ![f] = "refused"]
  /\ UNCHANGED <<issued, queue, mutation, flushStatus, todo, late, applied, bounds, marks>>

ApplyLate(m) ==
  /\ late[m] > 0
  /\ late' = [late EXCEPT ![m] = late[m] - 1]
  /\ applied' = Append(applied, m)
  /\ UNCHANGED <<issued, queue, mutation, flushStatus, todo, request, bounds, marks>>

(* Mutant: the mutation leaves the queue before its answer is known. *)
EndsFlushDroppingHead(f) ==
  /\ queue' = queue \ {First(todo[f])}
  /\ todo' = [todo EXCEPT ![f] = {}]
  /\ request' = [request EXCEPT ![f] = "none"]
  /\ flushStatus' = "error"

(* Mutant: the loop goes on after an error instead of stopping. *)
EndsFlushNot(f) ==
  LET rest == todo[f] \ {First(todo[f])} IN
  /\ todo' = [todo EXCEPT ![f] = rest]
  /\ request' = [request EXCEPT ![f] = IF rest = {} THEN "none" ELSE "sent"]
  /\ flushStatus' = "error"
  /\ UNCHANGED queue

(* Mutant: the flush ends, but not its loop. *)
StopFlushHalfway(f) ==
  /\ request' = [request EXCEPT ![f] = "none"]
  /\ flushStatus' = "error"
  /\ UNCHANGED <<queue, todo>>

(* Either error stops this flush and leaves its mutation in the queue. *)
StopFlush(f) ==
  /\ todo' = [todo EXCEPT ![f] = {}]
  /\ request' = [request EXCEPT ![f] = "none"]
  /\ flushStatus' = "error"
  /\ UNCHANGED queue

(* flush after a good answer: confirm and dequeue, then send the next      *)
(* mutation of the snapshot, or end.                                       *)
Answered(f) ==
  LET rest == todo[f] \ {First(todo[f])} IN
  /\ request[f] = "applied"
  /\ queue' = queue \ {First(todo[f])}
  /\ todo' = [todo EXCEPT ![f] = rest]
  /\ request' = [request EXCEPT ![f] = IF rest = {} THEN "none" ELSE "sent"]
  /\ flushStatus' = IF rest = {} THEN "idle" ELSE flushStatus
  /\ UNCHANGED <<issued, mutation, late, applied, bounds, marks>>

(* flush after a 409: roll back and stop. *)
Conflicted(f) ==
  LET m == First(todo[f]) IN
  /\ request[f] = "refused"
  /\ mutation' = IF m \in queue
                 THEN [mutation EXCEPT ![m].mutationState = "failed"]
                 ELSE mutation
  /\ StopFlush(f)
  /\ UNCHANGED <<issued, late, applied, bounds, marks>>

(* flush after any other error: count the attempt and stop. *)
Retried(row) == [row EXCEPT !.attempts = row.attempts + 1]

CountAttempt(m) ==
  mutation' = IF m \in queue
              THEN [mutation EXCEPT ![m] = Retried(mutation[m])]
              ELSE mutation

(* The request never reached the server, or the server failed. *)
Errored(f) ==
  /\ request[f] = "sent"
  /\ CountAttempt(First(todo[f])) /\ StopFlush(f)
  /\ UNCHANGED <<issued, late, applied, bounds, marks>>

(* The server did its work, and the answer was lost. *)
LostReply(f) ==
  /\ request[f] = "applied"
  /\ lost < MaxLostReplies /\ lost' = lost + 1
  /\ CountAttempt(First(todo[f])) /\ StopFlush(f)
  /\ UNCHANGED <<issued, late, applied, delayed, reloads, marks>>

(* The connection broke with the request on its way to the server. *)
GivenUp(f) ==
  /\ request[f] = "sent"
  /\ delayed < MaxLateRequests /\ delayed' = delayed + 1
  /\ late' = [late EXCEPT ![First(todo[f])] = late[First(todo[f])] + 1]
  /\ loose' = loose \cup {First(todo[f])}
  /\ CountAttempt(First(todo[f])) /\ StopFlush(f)
  /\ UNCHANGED <<issued, applied, lost, reloads, shared>>

(* The page reloads: queue entries persist, flushes and flushStatus do not. *)
CutOff(m) == {f \in Flusher : request[f] = "sent" /\ First(todo[f]) = m}

Reload ==
  /\ reloads < MaxReloads /\ reloads' = reloads + 1
  /\ late' = [m \in Id |-> late[m] + Cardinality(CutOff(m))]
  /\ loose' = loose \cup {m \in Id : CutOff(m) # {}}
  /\ todo' = [f \in Flusher |-> {}]
  /\ request' = [f \in Flusher |-> "none"]
  /\ flushStatus' = "idle"
  /\ UNCHANGED <<issued, queue, mutation, applied, lost, delayed, shared>>

Next ==
  \/ \E k \in Kind, l \in BOOLEAN : Enqueue(k, l)
  \/ \E f \in Flusher :
       \/ StartFlush(f) \/ Apply(f) \/ Refuse(f) \/ Answered(f) \/ Conflicted(f)
       \/ Errored(f) \/ LostReply(f) \/ GivenUp(f)
  \/ \E m \in Id : ApplyLate(m)
  \/ Reload

Spec == Init /\ [][Next]_vars

-----------------------------------------------------------------------------
Done == {applied[i] : i \in DOMAIN applied}
Stuck(m) == m \in queue /\ ~ Sendable(m)
Times(m) == {i \in DOMAIN applied : applied[i] = m}

(* The queue, the flushes and the requests have their types; a flush that  *)
(* waits for an answer has a mutation in hand.                             *)
TypeOK ==
  /\ issued \in 0 .. MaxMutations /\ queue \subseteq 1 .. issued
  /\ mutation \in [Id -> Mutation]
  /\ flushStatus \in {"idle", "flushing", "error"}
  /\ todo \in [Flusher -> SUBSET (1 .. issued)]
  /\ request \in [Flusher -> {"none", "sent", "applied", "refused"}]
  /\ \A f \in Flusher : request[f] = "none" <=> todo[f] = {}
  /\ late \in [Id -> Nat] /\ \A m \in Id : late[m] > 0 => m \in loose
  /\ applied \in Seq(Id) /\ Done \subseteq 1 .. issued
  /\ lost \in Nat /\ delayed \in Nat /\ reloads \in Nat
  /\ shared \subseteq 1 .. issued /\ loose \subseteq 1 .. issued

(* A queued mutation is never lost: whatever overlaps, fails, arrives late *)
(* or is interrupted by a reload, it is in the queue until the server has  *)
(* applied it.                                                             *)
NothingLost == \A m \in 1 .. issued : m \in queue \/ m \in Done

(* Order is preserved in this sense (the comment at line 165): when the    *)
(* server has applied a mutation, it has applied all that were queued      *)
(* before it, except those the queue has given up on.                      *)
Covered(n) == \A m \in 1 .. n - 1 : m \in Done \/ Stuck(m)
NoGaps == \A n \in Done : Covered(n)

(* What keeps both true between two awaits: a good answer is about work    *)
(* the server has done, a snapshot skips nothing but what is done or       *)
(* stuck, and neither does a request that was given up.                    *)
AnswersAreTrue == \A f \in Flusher : request[f] = "applied" => First(todo[f]) \in Done
SnapshotsSkipNothing ==
  \A f \in Flusher : \A n \in todo[f] : \A m \in 1 .. n - 1 :
    m \in Done \/ Stuck(m) \/ m \in todo[f]
LateOnesSkipNothing == \A m \in Id : late[m] > 0 => Covered(m)

IInv ==
  /\ TypeOK /\ NothingLost /\ NoGaps
  /\ AnswersAreTrue /\ SnapshotsSkipNothing /\ LateOnesSkipNothing

(* The server never sees an older mutation after a newer one (line 5,      *)
(* "Retries preserve ordering and avoid duplicate mutations").             *)
AppliedInOrder ==
  \A i, j \in DOMAIN applied : i < j => applied[i] <= applied[j]

(* It sees one out of order only when two flushes had it in hand at once,  *)
(* or when a request that was given up or cut off came late.               *)
OrderedUnlessShared ==
  \A i, j \in DOMAIN applied :
    i < j => applied[i] <= applied[j] \/ applied[j] \in shared \cup loose

(* What keeps it true: the queue will send nothing older than what the     *)
(* server has done or what may still come late, each snapshot takes the    *)
(* oldest of it, and what one flush alone has in hand is in the queue.     *)
NothingOlderWaits ==
  \A m \in queue : Sendable(m) =>
    /\ \A i \in DOMAIN applied : applied[i] <= m
    /\ \A n \in Id : late[n] > 0 => n <= m
SnapshotsAreOldest ==
  \A f \in Flusher : \A n \in todo[f] : \A m \in queue :
    Sendable(m) => m \in todo[f] \/ n < m
InHandIsQueued ==
  \A f \in Flusher : \A m \in todo[f] \ shared :
    /\ m \in queue /\ Sendable(m)
    /\ \A g \in Flusher : m \in todo[g] => g = f
OInv == OrderedUnlessShared /\ NothingOlderWaits /\ SnapshotsAreOldest /\ InHandIsQueued

(* Lost answers and late requests make a mutation run again, but no more   *)
(* often than MAX_ATTEMPTS and the reloads that cut a flush off: every     *)
(* other run is counted, unless two flushes had the mutation in hand.      *)
RunsBounded ==
  \A m \in Id \ shared : Cardinality(Times(m)) <= MaxAttempts + reloads

(* A mutation the server refused is rolled back and not sent again (lines  *)
(* 120 and 147).                                                           *)
RefusedNotResent ==
  \A f \in Flusher :
    request[f] = "sent" => mutation[First(todo[f])].mutationState # "failed"
=============================================================================
