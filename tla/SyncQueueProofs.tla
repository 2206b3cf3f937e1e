--------------------------- MODULE SyncQueueProofs ---------------------------
(***************************************************************************)
(* Proofs about SyncQueue, for any number of mutations and of flushes, and *)
(* about CloudSync, which feeds it, for any number of workspaces and syncs.*)
(***************************************************************************)
EXTENDS CloudSync, FiniteSetTheorems, TLAPS, WellFoundedInduction

(* A set of natural numbers that is not empty has a least element, and     *)
(* First is it.                                                            *)
LEMMA FirstIsLeast ==
  ASSUME NEW S \in SUBSET Nat, S # {}
  PROVE  First(S) \in S /\ \A n \in S : First(S) <= n
<1>1. S \subseteq Nat
  OBVIOUS
<1>2. PICK x \in S : \A y \in S : <<y, x>> \notin OpToRel(<, Nat)
  BY <1>1, NatLessThanWellFounded, WFMin, Zenon
<1>3. \A y \in S : ~ (y < x)
  BY <1>1, <1>2, Zenon DEF OpToRel
<1>4. \A y \in S : x <= y
  BY <1>1, <1>3
<1> QED
  BY <1>4 DEF First

(* What the server has done grows by what is appended, and by nothing else. *)
LEMMA DoneGrows ==
  ASSUME applied \in Seq(Id), NEW m \in Id, applied' = Append(applied, m)
  PROVE  applied' \in Seq(Id) /\ Done' = Done \cup {m}
BY DEF Done

(* The mutation a flush has in hand. *)
LEMMA InHand ==
  ASSUME TypeOK, NEW f \in Flusher, request[f] # "none"
  PROVE  /\ todo[f] # {} /\ todo[f] \subseteq 1 .. issued
         /\ First(todo[f]) \in todo[f]
         /\ First(todo[f]) \in Id
         /\ \A n \in todo[f] : First(todo[f]) <= n
<1>1. todo[f] # {} /\ todo[f] \subseteq 1 .. issued /\ issued \in 0 .. MaxMutations
  BY DEF TypeOK
<1>2. todo[f] \in SUBSET Nat
  BY <1>1, SyncAssumption
<1> QED
  BY <1>1, <1>2, FirstIsLeast, SyncAssumption DEF Id

-----------------------------------------------------------------------------
(* Types. *)

LEMMA InitType == Init => TypeOK
BY SyncAssumption DEF Init, TypeOK, Id, Mutation, NewMutation, Kind, MutationState, Done

LEMMA CountKeepsType ==
  ASSUME TypeOK, NEW m \in Id, CountAttempt(m)
  PROVE  mutation' \in [Id -> Mutation]
<1>1. ASSUME NEW row \in Mutation PROVE Retried(row) \in Mutation
  BY DEF Retried, Mutation
<1> QED
  BY <1>1 DEF TypeOK, CountAttempt

LEMMA StopKeepsType ==
  ASSUME TypeOK, NEW f \in Flusher, StopFlush(f)
  PROVE  /\ queue' = queue /\ flushStatus' = "error"
         /\ todo' \in [Flusher -> SUBSET (1 .. issued)]
         /\ request' \in [Flusher -> {"none", "sent", "applied", "refused"}]
         /\ \A g \in Flusher : request'[g] = "none" <=> todo'[g] = {}
BY DEF TypeOK, StopFlush

(* Finitely many flushes have a request of a mutation under way. *)
LEMMA CutOffIsFinite == \A m : IsFiniteSet(CutOff(m))
<1>1. \A m : CutOff(m) \in SUBSET Flusher
  BY DEF CutOff
<1> QED BY <1>1, SyncAssumption, FS_Subset

LEMMA NextType == TypeOK /\ [Next]_vars => TypeOK'
<1> SUFFICES ASSUME TypeOK, [Next]_vars PROVE TypeOK'
  OBVIOUS
<1> USE SyncAssumption
<1>1. ASSUME NEW k \in Kind, NEW l \in BOOLEAN, Enqueue(k, l) PROVE TypeOK'
  <2>1. issued + 1 \in Id /\ issued' \in 0 .. MaxMutations
    BY <1>1 DEF TypeOK, Enqueue, Id
  <2>2. mutation' \in [Id -> Mutation]
    BY <1>1, <2>1 DEF TypeOK, Enqueue, Mutation, NewMutation, MutationState
  <2>3. Done' = Done
    BY <1>1 DEF Enqueue, Done
  <2>4. 1 .. issued \subseteq 1 .. issued'
    BY <1>1 DEF TypeOK, Enqueue
  <2>5. queue' \subseteq 1 .. issued'
    BY <1>1, <2>4 DEF TypeOK, Enqueue
  <2>6. todo' \in [Flusher -> SUBSET (1 .. issued')] /\ shared' \subseteq 1 .. issued' /\ loose' \subseteq 1 .. issued'
    BY <1>1, <2>4 DEF TypeOK, Enqueue, marks
  <2> QED
    BY <1>1, <2>1, <2>2, <2>3, <2>4, <2>5, <2>6 DEF TypeOK, Enqueue, bounds, marks
<1>2. ASSUME NEW f \in Flusher, StartFlush(f) PROVE TypeOK'
  <2>1. Done' = Done
    BY <1>2 DEF StartFlush, Done
  <2> QED
    BY <1>2, <2>1 DEF TypeOK, StartFlush, bounds, marks
<1>3. ASSUME NEW f \in Flusher, Apply(f) PROVE TypeOK'
  <2>1. First(todo[f]) \in Id /\ First(todo[f]) \in todo[f] /\ todo[f] \subseteq 1 .. issued
    BY <1>3, InHand DEF Apply
  <2>2. applied' \in Seq(Id) /\ Done' = Done \cup {First(todo[f])}
    BY <1>3, <2>1, DoneGrows DEF Apply, TypeOK
  <2> QED
    BY <1>3, <2>1, <2>2 DEF TypeOK, Apply, bounds, marks
<1>4. ASSUME NEW f \in Flusher, Refuse(f) PROVE TypeOK'
  <2>1. Done' = Done
    BY <1>4 DEF Refuse, Done
  <2> QED
    BY <1>4, <2>1 DEF TypeOK, Refuse, bounds, marks
<1>5. ASSUME NEW f \in Flusher, Answered(f) PROVE TypeOK'
  <2>1. Done' = Done
    BY <1>5 DEF Answered, Done
  <2> QED
    BY <1>5, <2>1 DEF TypeOK, Answered, bounds, marks
<1>6. ASSUME NEW f \in Flusher, Conflicted(f) PROVE TypeOK'
  <2>1. Done' = Done
    BY <1>6 DEF Conflicted, Done
  <2>2. mutation' \in [Id -> Mutation]
    BY <1>6 DEF TypeOK, Conflicted, Mutation, MutationState
  <2>3. StopFlush(f)
    BY <1>6 DEF Conflicted
  <2> QED
    BY <1>6, <2>1, <2>2, <2>3, StopKeepsType DEF TypeOK, Conflicted, bounds, marks
<1>7. ASSUME NEW f \in Flusher, Errored(f) PROVE TypeOK'
  <2>1. Done' = Done
    BY <1>7 DEF Errored, Done
  <2>2. First(todo[f]) \in Id
    BY <1>7, InHand DEF Errored
  <2>3. StopFlush(f) /\ CountAttempt(First(todo[f]))
    BY <1>7 DEF Errored
  <2> QED
    BY <1>7, <2>1, <2>2, <2>3, StopKeepsType, CountKeepsType DEF TypeOK, Errored, bounds, marks
<1>8. ASSUME NEW f \in Flusher, LostReply(f) PROVE TypeOK'
  <2>1. Done' = Done
    BY <1>8 DEF LostReply, Done
  <2>2. First(todo[f]) \in Id
    BY <1>8, InHand DEF LostReply
  <2>3. StopFlush(f) /\ CountAttempt(First(todo[f]))
    BY <1>8 DEF LostReply
  <2>4. mutation' \in [Id -> Mutation]
    BY <2>2, <2>3, CountKeepsType
  <2>5. lost' \in Nat /\ delayed' \in Nat /\ reloads' \in Nat
    BY <1>8 DEF TypeOK, LostReply
  <2> QED
    BY <1>8, <2>1, <2>2, <2>3, <2>4, <2>5, StopKeepsType DEF TypeOK, LostReply, marks
<1>9. ASSUME NEW f \in Flusher, GivenUp(f) PROVE TypeOK'
  <2>1. Done' = Done
    BY <1>9 DEF GivenUp, Done
  <2>2. First(todo[f]) \in Id /\ First(todo[f]) \in 1 .. issued
    BY <1>9, InHand DEF GivenUp
  <2>3. StopFlush(f) /\ CountAttempt(First(todo[f]))
    BY <1>9 DEF GivenUp
  <2>4. mutation' \in [Id -> Mutation]
    BY <2>2, <2>3, CountKeepsType
  <2>5. lost' \in Nat /\ delayed' \in Nat /\ reloads' \in Nat
    BY <1>9 DEF TypeOK, GivenUp
  <2>6. late' \in [Id -> Nat] /\ loose' = loose \cup {First(todo[f])}
        /\ \A m \in Id : late'[m] > 0 => m \in loose'
    BY <1>9, <2>2 DEF TypeOK, GivenUp
  <2> QED
    BY <1>9, <2>1, <2>2, <2>3, <2>4, <2>5, <2>6, StopKeepsType DEF TypeOK, GivenUp
<1>10. ASSUME NEW m \in Id, ApplyLate(m) PROVE TypeOK'
  <2>1. m \in 1 .. issued /\ loose' = loose
    BY <1>10 DEF TypeOK, ApplyLate, marks
  <2>2. applied' \in Seq(Id) /\ Done' = Done \cup {m}
    BY <1>10, DoneGrows DEF ApplyLate, TypeOK
  <2>3. late' \in [Id -> Nat] /\ \A n \in Id : late'[n] > 0 => late[n] > 0
    BY <1>10 DEF TypeOK, ApplyLate
  <2> QED
    BY <1>10, <2>1, <2>2, <2>3 DEF TypeOK, ApplyLate, bounds, marks
<1>11. ASSUME Reload PROVE TypeOK'
  <2>1. Done' = Done
    BY <1>11 DEF Reload, Done
  <2>2. \A f \in Flusher : request[f] = "sent" => First(todo[f]) \in 1 .. issued
    BY InHand
  <2>3. loose' \subseteq 1 .. issued /\ loose' = loose \cup {m \in Id : CutOff(m) # {}}
    BY <1>11, <2>2 DEF Reload, TypeOK, CutOff
  <2>4. \A m \in Id : Cardinality(CutOff(m)) \in Nat /\ (CutOff(m) = {} => Cardinality(CutOff(m)) = 0)
    BY CutOffIsFinite, FS_CardinalityType, FS_EmptySet
  <2>5. late' \in [Id -> Nat] /\ \A m \in Id : late'[m] = late[m] + Cardinality(CutOff(m))
    BY <1>11, <2>4 DEF Reload, TypeOK
  <2>6. ASSUME NEW m \in Id, late'[m] > 0 PROVE m \in loose'
    <3>1. CASE CutOff(m) = {}
      <4>1. late'[m] = late[m] + Cardinality(CutOff(m)) /\ Cardinality(CutOff(m)) = 0
        BY <2>4, <2>5, <3>1
      <4>2. late[m] \in Nat
        BY DEF TypeOK
      <4>3. late[m] > 0
        BY <2>6, <4>1, <4>2
      <4> QED BY <2>3, <4>3 DEF TypeOK
    <3>2. CASE CutOff(m) # {}
      BY <2>3, <3>2
    <3> QED BY <3>1, <3>2
  <2> QED
    BY <1>11, <2>1, <2>3, <2>5, <2>6 DEF TypeOK, Reload
<1>12. CASE UNCHANGED vars
  BY <1>12 DEF vars, bounds, marks, TypeOK, Done
<1> QED
  BY <1>1, <1>2, <1>3, <1>4, <1>5, <1>6, <1>7, <1>8, <1>9, <1>10, <1>11, <1>12 DEF Next

(* Everything has its type, whatever the bounds. *)
THEOREM TypeCorrect == Spec => []TypeOK
<1> QED
  BY InitType, NextType, PTL DEF Spec

-----------------------------------------------------------------------------
(* Nothing is lost and nothing is skipped.                                 *)
(*                                                                         *)
(* Every action but Enqueue leaves stuck mutations stuck, and only a good  *)
(* answer removes one from the queue, which the server has then applied.   *)
(* So whoever has been covered stays covered.                              *)

Kept ==
  \A m \in 1 .. issued :
    /\ m \in Done => m \in Done'
    /\ Stuck(m) => Stuck(m)' \/ (m \in Done' /\ m \notin queue')
    /\ m \in queue => m \in queue' \/ m \in Done'

(* A failed mutation, and one that has had another attempt, stay stuck.    *)
LEMMA StoppingKeeps ==
  ASSUME TypeOK, NEW m \in Id, queue' = queue, applied' = applied,
         CountAttempt(m) \/ mutation' = [mutation EXCEPT ![m].mutationState = "failed"]
                         \/ mutation' = mutation
  PROVE  Kept
<1>1. Done' = Done
  BY DEF Done
<1>2. ASSUME NEW n \in Id, ~ Sendable(n) PROVE ~ Sendable(n)'
  <2>1. CASE CountAttempt(m)
    <3>1. mutation[n] \in Mutation
      BY DEF TypeOK
    <3>2. mutation'[n] = mutation[n] \/ mutation'[n] = Retried(mutation[n])
      BY <2>1 DEF CountAttempt, TypeOK
    <3>3. mutation'[n].kind = mutation[n].kind /\ mutation'[n].linked = mutation[n].linked
          /\ mutation'[n].attempts >= mutation[n].attempts /\ mutation'[n].attempts \in Nat
      BY <3>1, <3>2 DEF Retried, Mutation
    <3> QED
      BY <1>2, <3>1, <3>3, SyncAssumption DEF Sendable, Mutation
  <2>2. CASE mutation' = [mutation EXCEPT ![m].mutationState = "failed"]
    BY <1>2, <2>2 DEF Sendable, TypeOK, Mutation
  <2>3. CASE mutation' = mutation
    BY <1>2, <2>3 DEF Sendable
  <2> QED
    BY <2>1, <2>2, <2>3
<1>3. 1 .. issued \subseteq Id
  BY SyncAssumption DEF TypeOK, Id
<1> QED
  BY <1>1, <1>2, <1>3 DEF Kept, Stuck

LEMMA StepKeeps == IInv /\ [Next]_vars => Kept
<1> SUFFICES ASSUME IInv, [Next]_vars PROVE Kept
  OBVIOUS
<1>t. TypeOK
  BY DEF IInv
<1>1. ASSUME NEW k \in Kind, NEW l \in BOOLEAN, Enqueue(k, l) PROVE Kept
  <2>1. \A m \in 1 .. issued : mutation'[m] = mutation[m] /\ (m \in queue => m \in queue')
    BY <1>1, <1>t, SyncAssumption DEF Enqueue, TypeOK, Id
  <2>2. Done' = Done
    BY <1>1 DEF Enqueue, Done
  <2> QED
    BY <2>1, <2>2 DEF Kept, Stuck, Sendable
<1>2. ASSUME NEW m \in Id, applied' = Append(applied, m), UNCHANGED <<queue, mutation>>
      PROVE  Kept
  <2>1. Done' = Done \cup {m}
    BY <1>2, <1>t, DoneGrows DEF TypeOK
  <2> QED
    BY <1>2, <2>1 DEF Kept, Stuck, Sendable
<1>3. ASSUME NEW f \in Flusher, Apply(f) PROVE Kept
  BY <1>2, <1>3, <1>t, InHand DEF Apply
<1>4. ASSUME NEW m \in Id, ApplyLate(m) PROVE Kept
  BY <1>2, <1>4 DEF ApplyLate
<1>5. ASSUME NEW f \in Flusher, Answered(f) PROVE Kept
  <2>1. Done' = Done /\ mutation' = mutation
    BY <1>5 DEF Answered, Done
  <2>2. First(todo[f]) \in Done
    BY <1>5 DEF IInv, AnswersAreTrue, Answered
  <2> QED
    BY <1>5, <2>1, <2>2 DEF Answered, Kept, Stuck, Sendable
<1>6. ASSUME UNCHANGED <<queue, mutation, applied>> PROVE Kept
  BY <1>6 DEF Kept, Stuck, Sendable, Done
<1>7. ASSUME NEW f \in Flusher, Conflicted(f) PROVE Kept
  <2>1. First(todo[f]) \in Id
    BY <1>7, <1>t, InHand DEF Conflicted
  <2> QED
    BY <1>7, <1>t, <2>1, StoppingKeeps DEF Conflicted, StopFlush
<1>8. ASSUME NEW f \in Flusher, Errored(f) \/ LostReply(f) \/ GivenUp(f) PROVE Kept
  <2>1. First(todo[f]) \in Id
    BY <1>8, <1>t, InHand DEF Errored, LostReply, GivenUp
  <2> QED
    BY <1>8, <1>t, <2>1, StoppingKeeps DEF Errored, LostReply, GivenUp, StopFlush
<1>9. CASE \E f \in Flusher : StartFlush(f) \/ Refuse(f)
  BY <1>6, <1>9 DEF StartFlush, Refuse
<1>10. CASE Reload \/ UNCHANGED vars
  BY <1>6, <1>10 DEF Reload, vars
<1> QED
  BY <1>1, <1>3, <1>4, <1>5, <1>7, <1>8, <1>9, <1>10 DEF Next

(* Coverage survives every step that keeps. *)
LEMMA CoveredStays ==
  ASSUME Kept, NEW n \in 1 .. issued, Covered(n), issued \in Nat
  PROVE  Covered(n)'
BY DEF Kept, Covered

-----------------------------------------------------------------------------
(* The inductive invariant, one conjunct at a time. *)

LEMMA InitInv == Init => IInv
<1> SUFFICES ASSUME Init PROVE IInv
  OBVIOUS
<1>1. Done = {}
  BY DEF Init, Done
<1> QED
  BY <1>1, InitType DEF Init, IInv, NothingLost, NoGaps, AnswersAreTrue,
     SnapshotsSkipNothing, LateOnesSkipNothing

LEMMA StepNothingLost == IInv /\ [Next]_vars => NothingLost'
<1> SUFFICES ASSUME IInv, [Next]_vars PROVE NothingLost'
  OBVIOUS
<1>1. Kept /\ TypeOK /\ NothingLost
  BY StepKeeps DEF IInv
<1>2. CASE issued' = issued
  BY <1>1, <1>2 DEF Kept, NothingLost
<1>3. CASE \E k \in Kind, l \in BOOLEAN : Enqueue(k, l)
  <2>1. issued' = issued + 1 /\ issued + 1 \in queue' /\ issued \in Nat
    BY <1>1, <1>3, SyncAssumption DEF Enqueue, TypeOK
  <2> QED
    BY <1>1, <2>1 DEF Kept, NothingLost
<1> QED
  BY <1>2, <1>3 DEF Next, vars, StartFlush, Apply, Refuse, Answered, Conflicted, Errored,
     LostReply, GivenUp, ApplyLate, Reload

(* The mutation in flight: all before it is done or stuck. *)
LEMMA HeadIsCovered ==
  ASSUME IInv, NEW f \in Flusher, request[f] # "none"
  PROVE  First(todo[f]) \in 1 .. issued /\ Covered(First(todo[f]))
<1>1. TypeOK
  BY DEF IInv
<1>2. /\ todo[f] \subseteq 1 .. issued /\ First(todo[f]) \in todo[f]
      /\ \A n \in todo[f] : First(todo[f]) <= n
  BY <1>1, InHand
<1>3. issued \in Nat
  BY <1>1, SyncAssumption DEF TypeOK
<1>4. \A m \in 1 .. First(todo[f]) - 1 : m \notin todo[f]
  BY <1>2, <1>3
<1> QED
  BY <1>2, <1>4 DEF IInv, SnapshotsSkipNothing, Covered

LEMMA StepNoGaps == IInv /\ [Next]_vars => NoGaps'
<1> SUFFICES ASSUME IInv, [Next]_vars, NEW n \in Done' PROVE Covered(n)'
  BY DEF NoGaps
<1>1. Kept /\ TypeOK /\ NoGaps /\ issued \in Nat /\ Done \subseteq 1 .. issued
  BY StepKeeps, SyncAssumption DEF IInv, TypeOK
<1>2. CASE n \in Done
  BY <1>1, <1>2, CoveredStays DEF NoGaps
<1>3. ASSUME NEW f \in Flusher, Apply(f), n \notin Done PROVE Covered(n)'
  <2>1. First(todo[f]) \in 1 .. issued /\ Covered(First(todo[f])) /\ First(todo[f]) \in Id
    BY <1>1, <1>3, HeadIsCovered, InHand DEF Apply
  <2>2. n = First(todo[f])
    BY <1>1, <1>3, <2>1, DoneGrows DEF Apply, TypeOK
  <2> QED
    BY <1>1, <2>1, <2>2, CoveredStays
<1>4. ASSUME NEW m \in Id, ApplyLate(m), n \notin Done PROVE Covered(n)'
  <2>1. m \in 1 .. issued /\ Covered(m)
    BY <1>1, <1>4 DEF TypeOK, ApplyLate, IInv, LateOnesSkipNothing
  <2>2. n = m
    BY <1>1, <1>4, <2>1, DoneGrows DEF ApplyLate, TypeOK
  <2> QED
    BY <1>1, <2>1, <2>2, CoveredStays
<1>5. CASE applied' = applied
  BY <1>2, <1>5 DEF Done
<1> QED
  BY <1>2, <1>3, <1>4, <1>5 DEF Next, vars, Enqueue, StartFlush, Refuse, Answered,
     Conflicted, Errored, LostReply, GivenUp, Reload

LEMMA StepAnswers == IInv /\ [Next]_vars => AnswersAreTrue'
<1> SUFFICES ASSUME IInv, [Next]_vars, NEW g \in Flusher, request'[g] = "applied"
             PROVE  First(todo'[g]) \in Done'
  BY DEF AnswersAreTrue, First
<1>1. Kept /\ TypeOK /\ AnswersAreTrue /\ Done \subseteq 1 .. issued
  BY StepKeeps DEF IInv, TypeOK
<1>2. ASSUME request[g] = "applied", todo'[g] = todo[g] PROVE First(todo'[g]) \in Done'
  BY <1>1, <1>2 DEF AnswersAreTrue, Kept
<1>3. ASSUME NEW f \in Flusher, Apply(f) PROVE First(todo'[g]) \in Done'
  <2>1. First(todo[f]) \in Id /\ todo' = todo
    BY <1>1, <1>3, InHand DEF Apply
  <2>2. Done' = Done \cup {First(todo[f])}
    BY <1>1, <1>3, <2>1, DoneGrows DEF Apply, TypeOK
  <2> QED
    BY <1>1, <1>2, <1>3, <2>1, <2>2 DEF Apply, TypeOK
<1>4. ASSUME NEW f \in Flusher, StartFlush(f) \/ Refuse(f) PROVE First(todo'[g]) \in Done'
  BY <1>1, <1>2, <1>4 DEF StartFlush, Refuse, TypeOK
<1>5. ASSUME NEW f \in Flusher, Answered(f) PROVE First(todo'[g]) \in Done'
  BY <1>1, <1>2, <1>5 DEF Answered, TypeOK
<1>6. ASSUME NEW f \in Flusher, StopFlush(f) PROVE First(todo'[g]) \in Done'
  BY <1>1, <1>2, <1>6 DEF StopFlush, TypeOK
<1>7. CASE UNCHANGED <<todo, request>>
  BY <1>2, <1>7
<1>8. CASE Reload
  BY <1>8 DEF Reload
<1> QED
  BY <1>3, <1>4, <1>5, <1>6, <1>7, <1>8 DEF Next, vars, Enqueue, Conflicted, Errored,
     LostReply, GivenUp, ApplyLate

LEMMA StepSnapshots == IInv /\ [Next]_vars => SnapshotsSkipNothing'
<1> SUFFICES ASSUME IInv, [Next]_vars, NEW g \in Flusher, NEW n \in todo'[g],
                    NEW m \in 1 .. n - 1
             PROVE  m \in Done' \/ Stuck(m)' \/ m \in todo'[g]
  BY DEF SnapshotsSkipNothing
<1>1. Kept /\ TypeOK /\ SnapshotsSkipNothing /\ NothingLost /\ issued \in Nat
  BY StepKeeps, SyncAssumption DEF IInv, TypeOK
<1>2. ASSUME todo'[g] \subseteq todo[g], m \in todo[g] => m \in todo'[g] \/ m \in Done'
      PROVE  m \in Done' \/ Stuck(m)' \/ m \in todo'[g]
  <2>1. n \in todo[g] /\ n \in 1 .. issued
    BY <1>1, <1>2 DEF TypeOK
  <2>2. m \in 1 .. issued
    BY <1>1, <2>1
  <2> QED
    BY <1>1, <1>2, <2>1, <2>2 DEF SnapshotsSkipNothing, Kept
<1>3. ASSUME todo'[g] = {} \/ todo'[g] = todo[g]
      PROVE  m \in Done' \/ Stuck(m)' \/ m \in todo'[g]
  BY <1>2, <1>3
<1>4. ASSUME NEW f \in Flusher, StartFlush(f), f = g
      PROVE  m \in Done' \/ Stuck(m)' \/ m \in todo'[g]
  <2>1. todo'[g] = {k \in queue : Sendable(k)} /\ Done' = Done /\ UNCHANGED <<queue, mutation>>
    BY <1>1, <1>4 DEF StartFlush, TypeOK, Done
  <2>2. n \in queue /\ queue \subseteq 1 .. issued
    BY <1>1, <2>1 DEF TypeOK
  <2>3. n \in 1 .. issued
    BY <2>2
  <2>4. m \in 1 .. issued
    BY <1>1, <2>3
  <2> QED
    BY <1>1, <2>1, <2>4 DEF NothingLost, Stuck, Sendable
<1>5. ASSUME NEW f \in Flusher, StartFlush(f), f # g
      PROVE  m \in Done' \/ Stuck(m)' \/ m \in todo'[g]
  BY <1>1, <1>3, <1>5 DEF StartFlush, TypeOK
<1>6. ASSUME NEW f \in Flusher, Answered(f)
      PROVE  m \in Done' \/ Stuck(m)' \/ m \in todo'[g]
  <2>1. First(todo[f]) \in Done /\ Done' = Done
    BY <1>6 DEF IInv, AnswersAreTrue, Answered, Done
  <2>2. todo'[g] = todo[g] \/ todo'[g] = todo[g] \ {First(todo[f])}
    BY <1>1, <1>6 DEF Answered, TypeOK
  <2> QED
    BY <1>2, <2>1, <2>2
<1>7. ASSUME NEW f \in Flusher, StopFlush(f)
      PROVE  m \in Done' \/ Stuck(m)' \/ m \in todo'[g]
  BY <1>1, <1>3, <1>7 DEF StopFlush, TypeOK
<1>8. CASE Reload
  BY <1>8 DEF Reload
<1>9. CASE todo' = todo
  BY <1>3, <1>9
<1> QED
  BY <1>4, <1>5, <1>6, <1>7, <1>8, <1>9 DEF Next, vars, Enqueue, Apply, Refuse,
     Conflicted, Errored, LostReply, GivenUp, ApplyLate

LEMMA StepLate == IInv /\ [Next]_vars => LateOnesSkipNothing'
<1> SUFFICES ASSUME IInv, [Next]_vars, NEW m \in Id, late'[m] > 0 PROVE Covered(m)'
  BY DEF LateOnesSkipNothing
<1>1. Kept /\ TypeOK /\ LateOnesSkipNothing /\ issued \in Nat
  BY StepKeeps, SyncAssumption DEF IInv, TypeOK
<1>2. CASE late[m] > 0
  <2>1. m \in 1 .. issued /\ Covered(m)
    BY <1>1, <1>2 DEF TypeOK, LateOnesSkipNothing
  <2> QED
    BY <1>1, <2>1, CoveredStays
<1>3. ASSUME NEW f \in Flusher, request[f] = "sent", m = First(todo[f])
      PROVE  Covered(m)'
  BY <1>1, <1>3, HeadIsCovered, CoveredStays
<1>4. ASSUME NEW f \in Flusher, GivenUp(f) PROVE Covered(m)'
  <2>1. request[f] = "sent" /\ (m # First(todo[f]) => late'[m] = late[m])
    BY <1>1, <1>4 DEF GivenUp, TypeOK
  <2> QED BY <1>2, <1>3, <2>1
<1>5. CASE Reload
  <2>1. late'[m] = late[m] + Cardinality(CutOff(m))
    BY <1>5 DEF Reload
  <2>2. CASE CutOff(m) = {}
    BY <1>1, <1>2, <2>1, <2>2, FS_EmptySet DEF TypeOK
  <2>3. CASE CutOff(m) # {}
    BY <1>3, <2>3 DEF CutOff
  <2> QED BY <2>2, <2>3
<1>6. ASSUME NEW n \in Id, ApplyLate(n) PROVE Covered(m)'
  <2>1. late'[m] = late[m] \/ (n = m /\ late[m] > 0)
    BY <1>1, <1>6 DEF TypeOK, ApplyLate
  <2> QED BY <1>2, <2>1
<1>7. CASE late' = late
  BY <1>2, <1>7
<1> QED
  BY <1>4, <1>5, <1>6, <1>7 DEF Next, vars, Enqueue, StartFlush, Apply, Refuse, Answered,
     Conflicted, Errored, LostReply

LEMMA StepInv == IInv /\ [Next]_vars => IInv'
BY NextType, StepNothingLost, StepNoGaps, StepAnswers, StepSnapshots, StepLate DEF IInv

(* The invariant of the queue. *)
THEOREM InvariantHolds == Spec => []IInv
BY StepInv, InitInv, PTL DEF Spec

(* A queued mutation stays in the queue until the server has applied it,   *)
(* for any number of mutations, overlapping flushes, reloads and losses.   *)
THEOREM NoMutationIsLost == Spec => []NothingLost
<1>1. IInv => NothingLost
  BY DEF IInv
<1> QED
  BY <1>1, InvariantHolds, PTL

(* The server applies no mutation before those queued earlier, unless the  *)
(* queue has given up on them.                                             *)
THEOREM MutationsLeaveNoGaps == Spec => []NoGaps
<1>1. IInv => NoGaps
  BY DEF IInv
<1> QED
  BY <1>1, InvariantHolds, PTL

-----------------------------------------------------------------------------
(* Order: the queue sends its oldest mutations first, and what one flush   *)
(* alone has in hand stays in the queue until that flush is done with it.  *)
(* So the server sees an older mutation after a newer one only when two    *)
(* flushes had it in hand, or when a request of it came late.              *)

(* What neither kind of exception covers stays so.                         *)
LEMMA MarksGrow ==
  ASSUME TypeOK, [Next]_vars
  PROVE  shared \subseteq shared' /\ loose \subseteq loose'
BY DEF Next, vars, marks, Enqueue, StartFlush, Apply, Refuse, Answered, Conflicted, Errored,
   LostReply, GivenUp, ApplyLate, Reload

(* What can be sent could be sent before.                                  *)
LEMMA SendableBefore ==
  ASSUME IInv, Kept, queue' \subseteq queue, NEW m \in queue', Sendable(m)'
  PROVE  m \in queue /\ Sendable(m)
BY DEF Kept, Stuck, IInv, TypeOK

(* The mutation a flush has in hand is not younger than any that waits.    *)
LEMMA HeadIsOldest ==
  ASSUME TypeOK, SnapshotsAreOldest, NEW f \in Flusher, request[f] # "none",
         NEW m \in queue, Sendable(m)
  PROVE  First(todo[f]) <= m
<1>1. First(todo[f]) \in todo[f] /\ \A n \in todo[f] : First(todo[f]) <= n
  BY InHand
<1>2. m \in todo[f] \/ First(todo[f]) < m
  BY <1>1 DEF SnapshotsAreOldest
<1>3. m \in Nat /\ First(todo[f]) \in Nat
  BY InHand, SyncAssumption DEF TypeOK, Id
<1> QED BY <1>1, <1>2, <1>3

(* What one flush alone has in hand is sent by no other.                   *)
LEMMA HeadIsQueued ==
  ASSUME TypeOK, InHandIsQueued, NEW f \in Flusher, request[f] # "none",
         First(todo[f]) \notin shared
  PROVE  /\ First(todo[f]) \in queue /\ Sendable(First(todo[f]))
         /\ \A g \in Flusher : First(todo[f]) \in todo[g] => g = f
BY InHand DEF InHandIsQueued

(* One more mutation applied, younger than none that waits.                *)
LEMMA OneMoreApplied ==
  ASSUME TypeOK, OInv, NEW m \in Id, applied' = Append(applied, m),
         \A n \in queue : Sendable(n) => m <= n,
         m \in shared \cup loose \/ \A i \in DOMAIN applied : applied[i] <= m,
         UNCHANGED <<queue, mutation, shared, loose>>,
         \A n \in Id : late'[n] > 0 => late[n] > 0
  PROVE  OrderedUnlessShared' /\ NothingOlderWaits'
<1>1. PICK e : e = Len(applied) + 1
  OBVIOUS
<1>2. /\ DOMAIN applied = 1 .. Len(applied) /\ Len(applied) \in Nat
      /\ DOMAIN applied' = DOMAIN applied \cup {e}
      /\ \A i \in DOMAIN applied : applied'[i] = applied[i] /\ i < e
      /\ applied'[e] = m
  BY <1>1 DEF TypeOK
<1>3. \A n \in queue : Sendable(n)' <=> Sendable(n)
  BY DEF Sendable
<1>4. OrderedUnlessShared'
  <2> SUFFICES ASSUME NEW i \in DOMAIN applied', NEW j \in DOMAIN applied', i < j
               PROVE  applied'[i] <= applied'[j] \/ applied'[j] \in shared \cup loose
    BY DEF OrderedUnlessShared
  <2>1. i \in DOMAIN applied
    BY <1>1, <1>2
  <2>2. CASE j \in DOMAIN applied
    BY <1>2, <2>1, <2>2 DEF OInv, OrderedUnlessShared
  <2>3. CASE j = e
    BY <1>2, <2>1, <2>3
  <2> QED BY <1>2, <2>2, <2>3
<1>5. NothingOlderWaits'
  BY <1>2, <1>3 DEF OInv, NothingOlderWaits
<1> QED BY <1>4, <1>5

(* A step in which the server does nothing, and nothing is queued.         *)
LEMMA QuietStepKeepsOrder ==
  ASSUME IInv, OInv, Kept, applied' = applied, queue' \subseteq queue,
         shared \subseteq shared', loose \subseteq loose',
         \A n \in Id : late'[n] > 0 =>
           late[n] > 0 \/ \A m \in queue : Sendable(m) => n <= m
  PROVE  OrderedUnlessShared' /\ NothingOlderWaits'
<1>1. \A m \in queue' : Sendable(m)' => m \in queue /\ Sendable(m)
  BY SendableBefore
<1> QED
  BY <1>1 DEF OInv, OrderedUnlessShared, NothingOlderWaits

(* A step in which flushes only get on with their snapshots.               *)
LEMMA SnapshotsShrink ==
  ASSUME IInv, OInv, Kept, queue' \subseteq queue, shared \subseteq shared',
         \A f \in Flusher : todo'[f] \subseteq todo[f],
         \A f \in Flusher : todo'[f] = {} \/ \A m \in todo[f] : m \in todo'[f] \/ m \notin queue',
         \A f \in Flusher : \A m \in todo'[f] \ shared' : m \in queue' /\ (Sendable(m) => Sendable(m)')
  PROVE  SnapshotsAreOldest' /\ InHandIsQueued'
<1>1. \A m \in queue' : Sendable(m)' => m \in queue /\ Sendable(m)
  BY SendableBefore
<1>2. SnapshotsAreOldest'
  <2> SUFFICES ASSUME NEW f \in Flusher, NEW n \in todo'[f], NEW m \in queue', Sendable(m)'
               PROVE  m \in todo'[f] \/ n < m
    BY DEF SnapshotsAreOldest
  <2>1. m \in queue /\ Sendable(m) /\ n \in todo[f] /\ todo'[f] # {}
    BY <1>1
  <2>2. m \in todo[f] \/ n < m
    BY <2>1 DEF OInv, SnapshotsAreOldest
  <2> QED BY <2>1, <2>2
<1>3. InHandIsQueued'
  <2> SUFFICES ASSUME NEW f \in Flusher, NEW m \in todo'[f] \ shared'
               PROVE  /\ m \in queue' /\ Sendable(m)'
                      /\ \A g \in Flusher : m \in todo'[g] => g = f
    BY DEF InHandIsQueued
  <2>1. m \in todo[f] \ shared
    OBVIOUS
  <2>2. m \in queue /\ Sendable(m) /\ \A g \in Flusher : m \in todo[g] => g = f
    BY <2>1 DEF OInv, InHandIsQueued
  <2> QED BY <2>2
<1> QED BY <1>2, <1>3

LEMMA StepOrder ==
  ASSUME IInv, OInv, [Next]_vars
  PROVE  OInv'
<1>1. Kept /\ TypeOK /\ issued \in Nat /\ shared \subseteq shared' /\ loose \subseteq loose'
  BY StepKeeps, MarksGrow, SyncAssumption DEF IInv, TypeOK
<1>2. ASSUME NEW k \in Kind, NEW l \in BOOLEAN, Enqueue(k, l) PROVE OInv'
  <2>1. \A m \in 1 .. issued : m \in Id /\ (Sendable(m)' <=> Sendable(m))
    BY <1>1, <1>2, SyncAssumption DEF Enqueue, TypeOK, Sendable, Id
  <2>2. \A i \in DOMAIN applied : applied[i] \in 1 .. issued
    BY <1>1 DEF TypeOK, Done
  <2>3. /\ queue \subseteq 1 .. issued
        /\ \A f \in Flusher : \A n \in todo[f] : n \in 1 .. issued
        /\ \A n \in Id : late[n] > 0 => n \in 1 .. issued
    BY <1>1 DEF TypeOK
  <2>4. PICK e : e = issued + 1
    OBVIOUS
  <2>5. queue' = queue \cup {e} /\ UNCHANGED <<applied, todo, late, shared, loose>>
    BY <1>2, <2>4 DEF Enqueue, marks
  <2>6. \A n \in 1 .. issued : n \in Nat /\ n < e /\ n <= e
    BY <1>1, <2>4
  <2>7. OrderedUnlessShared'
    BY <2>5 DEF OInv, OrderedUnlessShared
  <2>8. NothingOlderWaits'
    BY <2>1, <2>2, <2>3, <2>5, <2>6 DEF OInv, NothingOlderWaits
  <2>9. SnapshotsAreOldest'
    BY <2>1, <2>3, <2>5, <2>6 DEF OInv, SnapshotsAreOldest
  <2>10. InHandIsQueued'
    BY <2>1, <2>3, <2>5 DEF OInv, InHandIsQueued
  <2> QED
    BY <2>7, <2>8, <2>9, <2>10 DEF OInv
<1>3. ASSUME NEW f \in Flusher, StartFlush(f) PROVE OInv'
  <2>1. /\ todo'[f] = {m \in queue : Sendable(m)}
        /\ \A g \in Flusher : g # f => todo'[g] = todo[g]
        /\ shared' = shared \cup {m \in todo'[f] : \E g \in Flusher : m \in todo[g]}
        /\ todo[f] = {} /\ UNCHANGED <<applied, queue, mutation, late>>
    BY <1>1, <1>3 DEF StartFlush, TypeOK
  <2>2. \A m \in queue : Sendable(m)' <=> Sendable(m)
    BY <2>1 DEF Sendable
  <2>3. OrderedUnlessShared' /\ NothingOlderWaits'
    BY <1>1, <2>1, QuietStepKeepsOrder
  <2>4. SnapshotsAreOldest'
    BY <2>1, <2>2 DEF OInv, SnapshotsAreOldest
  <2>5. InHandIsQueued'
    BY <2>1, <2>2 DEF OInv, InHandIsQueued
  <2> QED
    BY <2>3, <2>4, <2>5 DEF OInv
<1>4. ASSUME NEW f \in Flusher, Apply(f) PROVE OInv'
  <2>0. PICK h : h = First(todo[f])
    OBVIOUS
  <2>1. h \in Id /\ request[f] = "sent" /\ applied' = Append(applied, h)
        /\ UNCHANGED <<queue, mutation, todo, late, shared, loose>>
    BY <1>1, <1>4, <2>0, InHand DEF Apply, marks
  <2>2. \A n \in queue : Sendable(n) => h <= n
    BY <1>1, <2>0, <2>1, HeadIsOldest DEF OInv
  <2>3. h \in shared \/ \A i \in DOMAIN applied : applied[i] <= h
    BY <1>1, <2>0, <2>1, HeadIsQueued DEF OInv, NothingOlderWaits
  <2>4. OrderedUnlessShared' /\ NothingOlderWaits'
    BY <1>1, <2>1, <2>2, <2>3, OneMoreApplied
  <2>5. SnapshotsAreOldest' /\ InHandIsQueued'
    BY <2>1 DEF OInv, SnapshotsAreOldest, InHandIsQueued, Sendable
  <2> QED
    BY <2>4, <2>5 DEF OInv
<1>5. ASSUME NEW m \in Id, ApplyLate(m) PROVE OInv'
  <2>1. /\ late[m] > 0 /\ applied' = Append(applied, m) /\ m \in loose
        /\ UNCHANGED <<queue, mutation, todo, shared, loose>>
        /\ \A n \in Id : late'[n] > 0 => late[n] > 0
    BY <1>1, <1>5 DEF ApplyLate, TypeOK, marks
  <2>2. \A n \in queue : Sendable(n) => m <= n
    BY <2>1 DEF OInv, NothingOlderWaits
  <2>3. OrderedUnlessShared' /\ NothingOlderWaits'
    BY <1>1, <2>1, <2>2, OneMoreApplied
  <2>4. SnapshotsAreOldest' /\ InHandIsQueued'
    BY <2>1 DEF OInv, SnapshotsAreOldest, InHandIsQueued, Sendable
  <2> QED
    BY <2>3, <2>4 DEF OInv
<1>6. ASSUME NEW f \in Flusher, Answered(f) PROVE OInv'
  <2>0. PICK h : h = First(todo[f])
    OBVIOUS
  <2>1. /\ UNCHANGED <<applied, mutation, late, shared, loose>> /\ queue' = queue \ {h}
        /\ todo'[f] = todo[f] \ {h} /\ \A g \in Flusher : g # f => todo'[g] = todo[g]
        /\ h \in todo[f]
    BY <1>1, <1>6, <2>0, InHand DEF Answered, TypeOK, marks
  <2>2. \A m : Sendable(m)' <=> Sendable(m)
    BY <2>1 DEF Sendable
  <2>3. \A g \in Flusher : \A m \in todo'[g] \ shared' : m \in queue'
    BY <2>1 DEF OInv, InHandIsQueued
  <2>4. OrderedUnlessShared' /\ NothingOlderWaits'
    BY <1>1, <2>1, QuietStepKeepsOrder
  <2>5. SnapshotsAreOldest' /\ InHandIsQueued'
    BY <1>1, <2>1, <2>2, <2>3, SnapshotsShrink
  <2> QED
    BY <2>4, <2>5 DEF OInv
<1>7. ASSUME NEW f \in Flusher, StopFlush(f), applied' = applied, todo[f] # {},
             \A m \in queue : m # First(todo[f]) => (Sendable(m) => Sendable(m)'),
             \A n \in Id : late'[n] > 0 =>
               late[n] > 0 \/ \A m \in queue : Sendable(m) => n <= m
      PROVE  OInv'
  <2>1. /\ queue' = queue /\ todo'[f] = {}
        /\ \A g \in Flusher : g # f => todo'[g] = todo[g]
    BY <1>1, <1>7 DEF StopFlush, TypeOK
  <2>2. First(todo[f]) \in todo[f]
    BY <1>1, <1>7, InHand DEF TypeOK
  <2>3. \A g \in Flusher : \A m \in todo'[g] \ shared' :
          m \in queue' /\ m # First(todo[f])
    BY <1>1, <2>1, <2>2 DEF OInv, InHandIsQueued
  <2>4. OrderedUnlessShared' /\ NothingOlderWaits'
    BY <1>1, <1>7, <2>1, QuietStepKeepsOrder
  <2>5. SnapshotsAreOldest' /\ InHandIsQueued'
    BY <1>1, <1>7, <2>1, <2>3, SnapshotsShrink
  <2> QED
    BY <2>4, <2>5 DEF OInv
<1>8. ASSUME NEW f \in Flusher, Conflicted(f) PROVE OInv'
  <2>1. /\ StopFlush(f) /\ applied' = applied /\ late' = late /\ todo[f] # {}
        /\ mutation' = mutation \/ mutation' = [mutation EXCEPT ![First(todo[f])].mutationState = "failed"]
    BY <1>1, <1>8 DEF Conflicted, TypeOK
  <2>2. \A m \in queue : m # First(todo[f]) => mutation'[m] = mutation[m]
    BY <1>1, <2>1, SyncAssumption DEF TypeOK, Id
  <2> QED BY <1>7, <2>1, <2>2 DEF Sendable
<1>9. ASSUME NEW f \in Flusher, Errored(f) \/ LostReply(f) \/ GivenUp(f) PROVE OInv'
  <2>1. /\ StopFlush(f) /\ applied' = applied /\ request[f] # "none" /\ todo[f] # {}
        /\ CountAttempt(First(todo[f]))
    BY <1>1, <1>9 DEF Errored, LostReply, GivenUp, TypeOK
  <2>2. \A m \in queue : m # First(todo[f]) => mutation'[m] = mutation[m]
    BY <1>1, <2>1, SyncAssumption DEF TypeOK, CountAttempt, Id
  <2>3. \A n \in Id : late'[n] > 0 => late[n] > 0 \/ n = First(todo[f])
    BY <1>1, <1>9 DEF Errored, LostReply, GivenUp, TypeOK
  <2>4. \A m \in queue : Sendable(m) => First(todo[f]) <= m
    BY <1>1, <2>1, HeadIsOldest DEF OInv
  <2> QED BY <1>7, <2>1, <2>2, <2>3, <2>4 DEF Sendable
<1>10. CASE Reload
  <2>1. UNCHANGED <<queue, mutation, applied>> /\ \A f \in Flusher : todo'[f] = {}
    BY <1>10 DEF Reload
  <2>2. ASSUME NEW n \in Id, late'[n] > 0, NEW m \in queue, Sendable(m), ~ late[n] > 0
        PROVE  n <= m
    <3>1. late'[n] = late[n] + Cardinality(CutOff(n))
      BY <1>10 DEF Reload
    <3>2. late[n] = 0
      BY <1>1, <2>2 DEF TypeOK
    <3>3. CutOff(n) # {}
      BY <2>2, <3>1, <3>2, FS_EmptySet
    <3>4. PICK f \in Flusher : request[f] = "sent" /\ First(todo[f]) = n
      BY <3>3 DEF CutOff
    <3> QED BY <1>1, <2>2, <3>4, HeadIsOldest DEF OInv
  <2>3. OrderedUnlessShared' /\ NothingOlderWaits'
    BY <1>1, <2>1, <2>2, QuietStepKeepsOrder
  <2>4. SnapshotsAreOldest' /\ InHandIsQueued'
    BY <2>1 DEF SnapshotsAreOldest, InHandIsQueued
  <2> QED
    BY <2>3, <2>4 DEF OInv
<1>11. CASE (\E f \in Flusher : Refuse(f)) \/ UNCHANGED vars
  <2>1. UNCHANGED <<queue, mutation, applied, todo, late, shared, loose>>
    BY <1>11 DEF Refuse, vars, marks
  <2> QED BY <2>1 DEF OInv, OrderedUnlessShared, NothingOlderWaits, SnapshotsAreOldest,
                      InHandIsQueued, Sendable
<1> QED
  BY <1>2, <1>3, <1>4, <1>5, <1>6, <1>8, <1>9, <1>10, <1>11 DEF Next

LEMMA OrderBegins == Init => OInv
BY DEF Init, OInv, OrderedUnlessShared, NothingOlderWaits, SnapshotsAreOldest, InHandIsQueued

(* Nothing that will still be sent is older than anything applied, a       *)
(* snapshot holds the oldest of what waits, and what one flush alone has   *)
(* in hand is in the queue, however many flushes overlap.                  *)
THEOREM OrderInvariantHolds == Spec => []OInv
<1>1. IInv /\ OInv /\ [Next]_vars => OInv'
  BY StepOrder
<1> QED
  BY <1>1, OrderBegins, InvariantHolds, PTL DEF Spec

(* The server sees the mutations in the order they were queued, but for    *)
(* those that two flushes had in hand at once and those of which a request *)
(* was given up or cut off.                                                *)
THEOREM MutationsApplyInOrder == Spec => []OrderedUnlessShared
<1>1. OInv => OrderedUnlessShared
  BY DEF OInv
<1> QED BY <1>1, OrderInvariantHolds, PTL

-----------------------------------------------------------------------------
(* How often the server runs a mutation that no two flushes have in hand:  *)
(* as long as it is queued, each run and each request that may still come  *)
(* is paid for by an attempt or by a reload, but for the run whose answer  *)
(* is on its way; and the queue is given an attempt only below the limit.  *)
InFlight(m) == \E f \in Flusher : request[f] = "applied" /\ First(todo[f]) = m
Extra(m) == IF InFlight(m) THEN 1 ELSE 0
Runs(m) == Cardinality(Times(m))
Spent(m) == Runs(m) + late[m]

RunsArePaid(m) ==
  /\ mutation[m].attempts <= MaxAttempts
  /\ Spent(m) <= mutation[m].attempts + Extra(m) + reloads
RunsWerePaid(m) == Spent(m) <= MaxAttempts + reloads
RInv ==
  \A m \in Id \ shared : IF m \in queue THEN RunsArePaid(m) ELSE RunsWerePaid(m)

LEMMA RunsAreNumbers ==
  ASSUME TypeOK, NEW m
  PROVE  IsFiniteSet(Times(m)) /\ Runs(m) \in Nat
<1>1. Times(m) \in SUBSET (1 .. Len(applied)) /\ Len(applied) \in Nat
  BY DEF Times, TypeOK
<1>2. IsFiniteSet(1 .. Len(applied))
  BY <1>1, FS_Interval
<1> QED BY <1>1, <1>2, FS_Subset, FS_CardinalityType DEF Runs

LEMMA PaidNumbers ==
  ASSUME TypeOK, NEW m \in Id
  PROVE  /\ Runs(m) \in Nat /\ late[m] \in Nat /\ Spent(m) \in Nat /\ Extra(m) \in {0, 1}
         /\ mutation[m].attempts \in Nat /\ reloads \in Nat /\ MaxAttempts \in Nat
BY RunsAreNumbers, SyncAssumption DEF TypeOK, Mutation, Spent, Extra

(* The server does nothing, no request is late, no page reloads, and the   *)
(* attempts of what stays in the queue pay for the answer that was lost.   *)
LEMMA QuietStepKeepsRuns ==
  ASSUME TypeOK, TypeOK', RInv, shared \subseteq shared', queue' \subseteq queue,
         UNCHANGED <<applied, late, reloads>>,
         \A m \in queue' \ shared' :
           /\ mutation'[m].attempts <= MaxAttempts
           /\ mutation'[m].attempts + Extra(m)' >= mutation[m].attempts + Extra(m),
         \A m \in (queue \ queue') \ shared' : mutation[m].attempts < MaxAttempts
  PROVE  RInv'
<1> SUFFICES ASSUME NEW m \in Id \ shared'
             PROVE  IF m \in queue' THEN RunsArePaid(m)' ELSE RunsWerePaid(m)'
  BY DEF RInv
<1>1. Spent(m)' = Spent(m) /\ m \in Id \ shared
  BY DEF Spent, Runs, Times
<1>2. /\ Spent(m) \in Nat /\ Extra(m) \in {0, 1} /\ mutation[m].attempts \in Nat
      /\ reloads \in Nat /\ reloads' = reloads /\ MaxAttempts \in Nat
  BY PaidNumbers
<1>3. Extra(m)' \in {0, 1} /\ mutation'[m].attempts \in Nat
  BY DEF Extra, TypeOK, Mutation
<1>4. CASE m \in queue'
  <2>1. RunsArePaid(m)
    BY <1>1, <1>4 DEF RInv
  <2> QED BY <1>1, <1>2, <1>3, <1>4, <2>1 DEF RunsArePaid
<1>5. CASE m \in queue \ queue'
  <2>1. RunsArePaid(m)
    BY <1>1, <1>5 DEF RInv
  <2>2. mutation[m].attempts < MaxAttempts
    BY <1>5
  <2> QED BY <1>1, <1>2, <1>5, <2>1, <2>2 DEF RunsArePaid, RunsWerePaid
<1>6. CASE m \notin queue
  <2>1. RunsWerePaid(m)
    BY <1>1, <1>6 DEF RInv
  <2> QED BY <1>1, <1>2, <1>6, <2>1 DEF RunsWerePaid
<1> QED BY <1>4, <1>5, <1>6

(* What one flush alone has in hand is in flight there or nowhere.         *)
LEMMA OnlyThere ==
  ASSUME TypeOK, InHandIsQueued, NEW f \in Flusher, request[f] # "none",
         First(todo[f]) \notin shared
  PROVE  /\ First(todo[f]) \in queue /\ Sendable(First(todo[f]))
         /\ InFlight(First(todo[f])) => request[f] = "applied"
         /\ CutOff(First(todo[f])) \subseteq {f}
         /\ CutOff(First(todo[f])) # {} => request[f] = "sent"
<1>1. ASSUME NEW g \in Flusher, request[g] # "none", First(todo[g]) = First(todo[f])
      PROVE  g = f
  BY <1>1, InHand, HeadIsQueued
<1> QED BY <1>1, HeadIsQueued DEF InFlight, CutOff

(* A flush ends with an attempt counted, or with none and no run to pay.   *)
LEMMA EndingKeepsRuns ==
  ASSUME TypeOK, TypeOK', InHandIsQueued, RInv, NEW f \in Flusher, request[f] # "none",
         StopFlush(f), applied' = applied, reloads' = reloads, shared' = shared,
         \/ late' = late /\ CountAttempt(First(todo[f]))
         \/ /\ request[f] = "sent" /\ CountAttempt(First(todo[f]))
            /\ late' = [late EXCEPT ![First(todo[f])] = late[First(todo[f])] + 1]
         \/ /\ late' = late /\ request[f] = "refused"
            /\ \A m \in queue : mutation'[m].attempts = mutation[m].attempts
  PROVE  RInv'
<1> DEFINE h == First(todo[f])
<1>1. /\ queue' = queue /\ todo'[f] = {} /\ request'[f] = "none" /\ h \in Id
      /\ \A g \in Flusher : g # f => todo'[g] = todo[g] /\ request'[g] = request[g]
  BY InHand DEF StopFlush, TypeOK
<1>2. \A m : Runs(m)' = Runs(m)
  BY DEF Runs, Times
<1>3. ASSUME NEW m \in Id, m # h
      PROVE  /\ Extra(m)' = Extra(m) /\ late'[m] = late[m]
             /\ m \in queue => mutation'[m].attempts = mutation[m].attempts
  <2>1. InFlight(m)' <=> InFlight(m)
    BY <1>1, <1>3 DEF InFlight
  <2>2. late'[m] = late[m]
    BY <1>1, <1>3 DEF TypeOK
  <2>3. m \in queue => mutation'[m].attempts = mutation[m].attempts
    BY <1>1, <1>3 DEF CountAttempt, TypeOK
  <2> QED BY <2>1, <2>2, <2>3 DEF Extra
<1> SUFFICES ASSUME NEW m \in Id \ shared
             PROVE  IF m \in queue THEN RunsArePaid(m)' ELSE RunsWerePaid(m)'
  BY <1>1 DEF RInv
<1>4. CASE m # h
  BY <1>2, <1>3, <1>4 DEF RInv, RunsArePaid, RunsWerePaid, Spent
<1>5. CASE m = h
  <2>1. /\ m \in queue /\ Sendable(m) /\ (InFlight(m) => request[f] = "applied")
    BY <1>5, OnlyThere
  <2>2. /\ Spent(m) <= mutation[m].attempts + Extra(m) + reloads
        /\ mutation[m].attempts < MaxAttempts
    BY <2>1 DEF RInv, RunsArePaid, Sendable
  <2>3. /\ Runs(m) \in Nat /\ late[m] \in Nat /\ mutation[m].attempts \in Nat
        /\ reloads \in Nat /\ MaxAttempts \in Nat /\ Extra(m) \in {0, 1}
    BY PaidNumbers
  <2>4. Extra(m)' \in {0, 1} /\ mutation'[m].attempts \in Nat
    BY DEF Extra, TypeOK, Mutation
  <2>5. request[f] # "applied" => Extra(m) = 0
    BY <2>1 DEF Extra
  <2>6. CountAttempt(h) => mutation'[m].attempts = mutation[m].attempts + 1
    BY <1>5, <2>1 DEF CountAttempt, Retried, TypeOK, Mutation
  <2>7. CASE late' = late /\ CountAttempt(h)
    BY <1>2, <2>1, <2>2, <2>3, <2>4, <2>6, <2>7 DEF RunsArePaid, Spent
  <2>8. CASE /\ request[f] = "sent" /\ CountAttempt(h)
             /\ late' = [late EXCEPT ![h] = late[h] + 1]
    <3>1. late'[m] = late[m] + 1 /\ Extra(m) = 0
      BY <1>5, <2>5, <2>8 DEF TypeOK
    <3> QED BY <1>2, <2>1, <2>2, <2>3, <2>4, <2>6, <2>8, <3>1 DEF RunsArePaid, Spent
  <2>9. CASE /\ late' = late /\ request[f] = "refused"
             /\ \A n \in queue : mutation'[n].attempts = mutation[n].attempts
    <3>1. mutation'[m].attempts = mutation[m].attempts /\ Extra(m) = 0
      BY <2>1, <2>5, <2>9
    <3> QED BY <1>2, <2>1, <2>2, <2>3, <2>4, <2>9, <3>1 DEF RunsArePaid, Spent
  <2> QED BY <2>7, <2>8, <2>9
<1> QED BY <1>4, <1>5

(* The server runs one more mutation.                                      *)
LEMMA OneMoreRun ==
  ASSUME TypeOK, NEW h \in Id, applied' = Append(applied, h)
  PROVE  Runs(h)' = Runs(h) + 1 /\ \A m : m # h => Runs(m)' = Runs(m)
<1>1. PICK n : n = Len(applied) + 1
  OBVIOUS
<1>2. /\ DOMAIN applied = 1 .. Len(applied) /\ Len(applied) \in Nat
      /\ DOMAIN applied' = DOMAIN applied \cup {n} /\ n \notin DOMAIN applied
      /\ \A i \in DOMAIN applied : applied'[i] = applied[i]
      /\ applied'[n] = h
  BY <1>1 DEF TypeOK
<1>3. Times(h)' = Times(h) \cup {n} /\ n \notin Times(h)
  BY <1>2 DEF Times
<1>4. \A m : m # h => Times(m)' = Times(m)
  BY <1>2 DEF Times
<1> QED BY <1>3, <1>4, RunsAreNumbers, FS_AddElement DEF Runs

LEMMA StepRuns ==
  ASSUME IInv, IInv', OInv, RInv, [Next]_vars
  PROVE  RInv'
<1>1. /\ TypeOK /\ TypeOK' /\ issued \in Nat /\ shared \subseteq shared'
      /\ InHandIsQueued
  BY SyncAssumption, MarksGrow DEF IInv, TypeOK, OInv
<1>2. ASSUME NEW k \in Kind, NEW l \in BOOLEAN, Enqueue(k, l) PROVE RInv'
  <2>0. PICK e : e = issued + 1
    OBVIOUS
  <2>1. /\ queue' = queue \cup {e} /\ UNCHANGED <<applied, todo, request, late, shared, reloads>>
        /\ mutation' = [mutation EXCEPT ![e] = NewMutation(k, l)]
        /\ e \in Id /\ e \notin 1 .. issued
    BY <1>1, <1>2, <2>0, SyncAssumption DEF Enqueue, TypeOK, Id, bounds, marks
  <2>2. \A m \in Id : m # e => mutation'[m] = mutation[m]
    BY <1>1, <2>1 DEF TypeOK
  <2>3. \A m : Spent(m)' = Spent(m) /\ (InFlight(m)' <=> InFlight(m))
    BY <2>1 DEF Spent, Runs, Times, InFlight
  <2>4. Runs(e) = 0
    <3>1. \A i \in DOMAIN applied : applied[i] \in Done
      BY DEF Done
    <3>2. Done \subseteq 1 .. issued
      BY <1>1 DEF TypeOK
    <3>3. \A i \in DOMAIN applied : applied[i] # e
      BY <2>1, <3>1, <3>2
    <3>4. Times(e) = {}
      BY <3>3 DEF Times
    <3> QED BY <3>4, FS_EmptySet DEF Runs
  <2>5. late[e] = 0
    <3>1. late \in [Id -> Nat] /\ loose \subseteq 1 .. issued
          /\ \A m \in Id : late[m] > 0 => m \in loose
      BY <1>1 DEF TypeOK
    <3>2. late[e] \in Nat /\ ~ late[e] > 0
      BY <2>1, <3>1
    <3> QED BY <3>2
  <2>6. mutation'[e].attempts = 0
    BY <1>1, <2>1 DEF TypeOK, NewMutation
  <2> SUFFICES ASSUME NEW m \in Id \ shared
               PROVE  IF m \in queue' THEN RunsArePaid(m)' ELSE RunsWerePaid(m)'
    BY <2>1 DEF RInv
  <2>7. CASE m = e
    <3>1. Spent(e)' = 0
      BY <2>3, <2>4, <2>5 DEF Spent
    <3>2. Extra(e)' \in {0, 1} /\ reloads' \in Nat /\ MaxAttempts \in Nat
      BY <1>1, <2>1, PaidNumbers DEF Extra
    <3> QED BY <2>1, <2>6, <2>7, <3>1, <3>2 DEF RunsArePaid
  <2>8. CASE m # e
    <3>1. m \in queue' <=> m \in queue
      BY <2>1, <2>8
    <3>2. mutation'[m] = mutation[m] /\ Extra(m)' = Extra(m) /\ Spent(m)' = Spent(m)
          /\ reloads' = reloads
      BY <2>1, <2>2, <2>3, <2>8 DEF Extra
    <3> QED BY <3>1, <3>2 DEF RInv, RunsArePaid, RunsWerePaid
  <2> QED BY <2>7, <2>8
<1>3. ASSUME NEW f \in Flusher, Apply(f) PROVE RInv'
  <2>0. PICK h : h = First(todo[f])
    OBVIOUS
  <2>1. /\ h \in Id /\ applied' = Append(applied, h)
        /\ request[f] = "sent" /\ request'[f] = "applied"
        /\ \A g \in Flusher : g # f => request'[g] = request[g]
        /\ UNCHANGED <<queue, mutation, todo, late, reloads, shared>>
    BY <1>1, <1>3, <2>0, InHand DEF Apply, TypeOK, bounds, marks
  <2>2. Runs(h)' = Runs(h) + 1 /\ \A m : m # h => Runs(m)' = Runs(m)
    BY <1>1, <2>1, OneMoreRun
  <2>3. InFlight(h)' /\ \A m : m # h => (InFlight(m)' <=> InFlight(m))
    BY <2>0, <2>1 DEF InFlight
  <2> SUFFICES ASSUME NEW m \in Id \ shared
               PROVE  IF m \in queue THEN RunsArePaid(m)' ELSE RunsWerePaid(m)'
    BY <2>1 DEF RInv
  <2>4. CASE m = h
    <3>1. m \in queue /\ ~ InFlight(m)
      BY <1>1, <2>0, <2>1, <2>4, OnlyThere
    <3>2. Extra(m) = 0 /\ Extra(m)' = 1
      BY <2>3, <2>4, <3>1 DEF Extra
    <3>3. RunsArePaid(m) /\ Spent(m)' = Runs(m) + 1 + late[m]
      BY <2>1, <2>2, <2>4, <3>1 DEF RInv, Spent
    <3>4. /\ Runs(m) \in Nat /\ late[m] \in Nat /\ mutation[m].attempts \in Nat
          /\ reloads \in Nat
      BY <1>1, PaidNumbers
    <3> QED BY <2>1, <3>1, <3>2, <3>3, <3>4 DEF RunsArePaid, Spent
  <2>5. CASE m # h
    <3>1. Extra(m)' = Extra(m) /\ Spent(m)' = Spent(m)
      BY <2>1, <2>2, <2>3, <2>5 DEF Extra, Spent
    <3> QED BY <2>1, <3>1 DEF RInv, RunsArePaid, RunsWerePaid
  <2> QED BY <2>4, <2>5
<1>4. ASSUME NEW h \in Id, ApplyLate(h) PROVE RInv'
  <2>1. /\ late[h] > 0 /\ applied' = Append(applied, h)
        /\ late' = [late EXCEPT ![h] = late[h] - 1]
        /\ UNCHANGED <<queue, mutation, todo, request, reloads, shared>>
    BY <1>4 DEF ApplyLate, bounds, marks
  <2>2. Runs(h)' = Runs(h) + 1 /\ \A m : m # h => Runs(m)' = Runs(m)
    BY <1>1, <2>1, OneMoreRun
  <2>3. ASSUME NEW m \in Id PROVE Spent(m)' = Spent(m)
    <3>1. Runs(m) \in Nat /\ late[m] \in Nat
      BY <1>1, PaidNumbers
    <3>2. CASE m = h
      <4>1. late'[m] = late[m] - 1
        BY <1>1, <2>1, <3>2 DEF TypeOK
      <4> QED BY <2>2, <3>1, <3>2, <4>1 DEF Spent
    <3>3. CASE m # h
      <4>1. late'[m] = late[m]
        BY <1>1, <2>1, <3>3 DEF TypeOK
      <4> QED BY <2>2, <3>3, <4>1 DEF Spent
    <3> QED BY <3>2, <3>3
  <2>4. \A m : Extra(m)' = Extra(m)
    BY <2>1 DEF Extra, InFlight
  <2> QED BY <2>1, <2>3, <2>4 DEF RInv, RunsArePaid, RunsWerePaid
<1>5. ASSUME NEW f \in Flusher, StartFlush(f) PROVE RInv'
  <2>1. /\ todo[f] = {} /\ UNCHANGED <<applied, queue, mutation, late, reloads>>
        /\ request'[f] \in {"none", "sent"}
        /\ \A g \in Flusher : g # f => request'[g] = request[g] /\ todo'[g] = todo[g]
    BY <1>1, <1>5 DEF StartFlush, TypeOK, bounds
  <2>2. request[f] = "none"
    BY <1>1, <2>1 DEF TypeOK
  <2>3. \A m : Extra(m)' = Extra(m)
    BY <2>1, <2>2 DEF Extra, InFlight
  <2> QED BY <1>1, <2>1, <2>3 DEF RInv, RunsArePaid, RunsWerePaid, Spent, Runs, Times
<1>6. ASSUME NEW f \in Flusher, Answered(f) PROVE RInv'
  <2>0. PICK h : h = First(todo[f])
    OBVIOUS
  <2>1. /\ UNCHANGED <<applied, mutation, late, reloads, shared>> /\ queue' = queue \ {h}
        /\ request[f] = "applied" /\ h \in Id /\ request'[f] # "applied"
        /\ \A g \in Flusher : g # f => request'[g] = request[g] /\ todo'[g] = todo[g]
    BY <1>1, <1>6, <2>0, InHand DEF Answered, TypeOK, bounds, marks
  <2>2. \A m : m # h => (InFlight(m)' <=> InFlight(m))
    BY <2>0, <2>1 DEF InFlight
  <2>3. \A m \in queue' \ shared' : /\ Extra(m)' = Extra(m) /\ m \in Id
                                    /\ mutation[m].attempts <= MaxAttempts
    <3>1. queue \subseteq Id
      BY <1>1, SyncAssumption DEF TypeOK, Id
    <3> QED BY <2>1, <2>2, <3>1 DEF Extra, RInv, RunsArePaid
  <2>4. \A m \in queue' \ shared' : mutation[m].attempts + Extra(m) \in Nat
    BY <1>1, <2>3, PaidNumbers
  <2>5. \A m \in (queue \ queue') \ shared' : mutation[m].attempts < MaxAttempts
    BY <1>1, <2>0, <2>1, OnlyThere DEF Sendable
  <2> QED BY <1>1, <2>1, <2>3, <2>4, <2>5, QuietStepKeepsRuns
<1>7. ASSUME NEW f \in Flusher, Conflicted(f) PROVE RInv'
  <2>1. /\ StopFlush(f) /\ request[f] = "refused"
        /\ UNCHANGED <<applied, late, reloads, shared>>
    BY <1>7 DEF Conflicted, bounds, marks
  <2>2. \A m \in queue : mutation'[m].attempts = mutation[m].attempts
    BY <1>1, <1>7, SyncAssumption, SMTT(30) DEF Conflicted, TypeOK, Mutation, Id
  <2> QED BY <1>1, <2>1, <2>2, EndingKeepsRuns
<1>8. ASSUME NEW f \in Flusher, Errored(f) \/ LostReply(f) PROVE RInv'
  <2>1. /\ StopFlush(f) /\ request[f] # "none" /\ CountAttempt(First(todo[f]))
        /\ UNCHANGED <<applied, late, reloads, shared>>
    BY <1>8 DEF Errored, LostReply, bounds, marks
  <2> QED BY <1>1, <2>1, EndingKeepsRuns
<1>9. ASSUME NEW f \in Flusher, GivenUp(f) PROVE RInv'
  <2>1. /\ StopFlush(f) /\ request[f] = "sent" /\ CountAttempt(First(todo[f]))
        /\ late' = [late EXCEPT ![First(todo[f])] = late[First(todo[f])] + 1]
        /\ UNCHANGED <<applied, reloads, shared>>
    BY <1>9 DEF GivenUp
  <2> QED BY <1>1, <2>1, EndingKeepsRuns
<1>10. CASE Reload
  <2>1. /\ UNCHANGED <<applied, queue, mutation, shared>> /\ reloads' = reloads + 1
        /\ \A f \in Flusher : request'[f] = "none"
    BY <1>10 DEF Reload
  <2> SUFFICES ASSUME NEW m \in Id \ shared
               PROVE  IF m \in queue THEN RunsArePaid(m)' ELSE RunsWerePaid(m)'
    BY <2>1 DEF RInv
  <2>2. Extra(m)' = 0 /\ Runs(m)' = Runs(m)
    BY <2>1 DEF Extra, InFlight, Runs, Times
  <2>3. /\ Runs(m) \in Nat /\ late[m] \in Nat /\ mutation[m].attempts \in Nat
        /\ reloads \in Nat /\ MaxAttempts \in Nat /\ Extra(m) \in {0, 1}
    BY <1>1, PaidNumbers
  <2>4. late'[m] = late[m] + Cardinality(CutOff(m))
    BY <1>10 DEF Reload
  <2>5. CASE CutOff(m) = {} /\ ~ InFlight(m)
    <3>1. Cardinality(CutOff(m)) = 0 /\ Extra(m) = 0
      BY <2>5, FS_EmptySet DEF Extra
    <3> QED BY <2>1, <2>2, <2>3, <2>4, <3>1 DEF RInv, RunsArePaid, RunsWerePaid, Spent
  <2>6. CASE CutOff(m) # {} \/ InFlight(m)
    <3>1. PICK f \in Flusher : request[f] # "none" /\ First(todo[f]) = m
      BY <2>6 DEF CutOff, InFlight
    <3>2. /\ m \in queue /\ CutOff(m) \subseteq {f}
          /\ CutOff(m) # {} => ~ InFlight(m)
      BY <1>1, <3>1, OnlyThere
    <3>3. Cardinality(CutOff(m)) + Extra(m) \in {0, 1}
      <4>1. CutOff(m) = {} \/ CutOff(m) = {f}
        BY <3>2
      <4>2. Cardinality(CutOff(m)) = IF CutOff(m) = {} THEN 0 ELSE 1
        BY <4>1, FS_EmptySet, FS_Singleton
      <4> QED BY <3>2, <4>2 DEF Extra
    <3>4. Cardinality(CutOff(m)) \in Nat
      BY CutOffIsFinite, FS_CardinalityType
    <3> QED BY <2>1, <2>2, <2>3, <2>4, <3>2, <3>3, <3>4 DEF RInv, RunsArePaid, Spent
  <2> QED BY <2>5, <2>6
<1>11. CASE \E f \in Flusher : Refuse(f)
  <2>1. PICK f \in Flusher : Refuse(f)
    BY <1>11
  <2>2. UNCHANGED <<applied, queue, mutation, todo, late, reloads, shared>>
        /\ request[f] = "sent" /\ request'[f] = "refused"
        /\ \A g \in Flusher : g # f => request'[g] = request[g]
    BY <1>1, <2>1 DEF Refuse, TypeOK, bounds, marks
  <2>3. \A m : Extra(m)' = Extra(m)
    BY <2>2 DEF Extra, InFlight
  <2> QED BY <2>2, <2>3 DEF RInv, RunsArePaid, RunsWerePaid, Spent, Runs, Times
<1>12. CASE UNCHANGED vars
  BY <1>12 DEF vars, bounds, marks, RInv, RunsArePaid, RunsWerePaid, Spent, Runs, Times, Extra,
     InFlight
<1> QED BY <1>2, <1>3, <1>4, <1>5, <1>6, <1>7, <1>8, <1>9, <1>10, <1>11, <1>12 DEF Next

LEMMA RunsBegin == Init => RInv
<1> SUFFICES ASSUME Init PROVE RInv
  OBVIOUS
<1>1. \A m : Times(m) = {}
  BY DEF Init, Times
<1>2. \A m : Runs(m) = 0
  BY <1>1, FS_EmptySet DEF Runs
<1>3. queue = {} /\ reloads = 0 /\ \A m \in Id : late[m] = 0
  BY DEF Init
<1> QED BY <1>2, <1>3, SyncAssumption DEF RInv, RunsWerePaid, Spent

LEMMA RunsAreLimited == IInv /\ OInv /\ RInv => RunsBounded
<1> SUFFICES ASSUME IInv, OInv, RInv, NEW m \in Id \ shared
             PROVE  Runs(m) <= MaxAttempts + reloads
  BY DEF RunsBounded, Runs
<1>1. TypeOK /\ InHandIsQueued
  BY DEF IInv, OInv
<1>2. /\ Runs(m) \in Nat /\ late[m] \in Nat /\ mutation[m].attempts \in Nat
      /\ reloads \in Nat /\ MaxAttempts \in Nat /\ Extra(m) \in {0, 1}
  BY <1>1, PaidNumbers
<1>3. CASE m \notin queue
  BY <1>2, <1>3 DEF RInv, RunsWerePaid, Spent
<1>4. CASE m \in queue /\ ~ InFlight(m)
  <2>1. Extra(m) = 0
    BY <1>4 DEF Extra
  <2> QED BY <1>2, <1>4, <2>1 DEF RInv, RunsArePaid, Spent
<1>5. CASE m \in queue /\ InFlight(m)
  <2>1. PICK f \in Flusher : request[f] = "applied" /\ First(todo[f]) = m
    BY <1>5 DEF InFlight
  <2>2. mutation[m].attempts < MaxAttempts
    BY <1>1, <2>1, OnlyThere DEF Sendable
  <2> QED BY <1>2, <1>5, <2>2 DEF RInv, RunsArePaid, Spent
<1> QED BY <1>3, <1>4, <1>5

(* The server runs a mutation at most MAX_ATTEMPTS times and once more for *)
(* each reload, however many answers are lost and requests come late, as   *)
(* long as no two flushes have that mutation in hand at once.              *)
THEOREM RunsAreBounded == Spec => []RunsBounded
<1>1. IInv /\ IInv' /\ OInv /\ RInv /\ [Next]_vars => RInv'
  BY StepRuns
<1>2. IInv /\ OInv /\ RInv => RunsBounded
  BY RunsAreLimited
<1> QED BY <1>1, <1>2, RunsBegin, InvariantHolds, OrderInvariantHolds, PTL DEF Spec

-----------------------------------------------------------------------------
(* CloudSync: the calls of syncToCloud beside the queue.  A call names the *)
(* workspace that was active when it began, and is marked when another     *)
(* becomes active (CallsAreOfActive); the cloudId is that of a call that   *)
(* was answered, which changes no more; and what was queued for a call     *)
(* stays what it was (CallsProgress).                                      *)
Call == [phase : SyncPhase, of : Workspace, moved : BOOLEAN, stored : BOOLEAN, mutation : Nat]

CallsHaveTypes ==
  /\ sync \in [1 .. MaxSyncs -> Call] /\ local \in [Id -> Nat] /\ switched \in BOOLEAN
CloudIdWasAnswered == cloudId # 0 => sync[cloudId].phase = "ok"
CallsAreOfActive ==
  \A s \in 1 .. MaxSyncs : UnderWay(s) /\ ~ sync[s].moved => sync[s].of = active
CallsProgress ==
  \A s \in 1 .. MaxSyncs :
    /\ sync[s].phase \in {"applied", "ok"} => sync[s].stored
    /\ sync[s].phase # "queued" => sync[s].mutation = 0
    /\ sync[s].phase = "queued" =>
         /\ sync[s].mutation \in 1 .. issued
         /\ local[sync[s].mutation] = sync[s].of \/ sync[s].moved

CloudCore ==
  /\ CallsHaveTypes /\ CloudTypeOK /\ CloudIdWasAnswered /\ CloudIdIsOfActive
  /\ CallsAreOfActive /\ CallsProgress /\ CallsNameTheirRecord /\ SyncingIsTrue

LEMMA CallFacts ==
  ASSUME CloudCore
  PROVE  /\ sync \in [1 .. MaxSyncs -> Call] /\ local \in [Id -> Nat] /\ switched \in BOOLEAN
         /\ made \in Workspace /\ made \in Nat /\ archived \subseteq 1 .. made
         /\ active \in 1 .. made /\ 1 .. made \subseteq Workspace
         /\ cloudId \in 0 .. MaxSyncs /\ syncState \in {"idle", "syncing", "error"}
         /\ \A s \in 1 .. MaxSyncs : sync[s] \in Call /\ sync[s].of \in 1 .. made
         /\ strayed = {}
BY CloudAssumption
   DEF CloudCore, CallsHaveTypes, CloudTypeOK, CallsNameTheirRecord, Workspace

(* A step that leaves the calls as they are.                               *)
LEMMA CallsRest ==
  ASSUME CloudCore, UNCHANGED <<issued, active, cloudId, switched, sync, local, strayed>>,
         made' \in Workspace, made' >= made, archived' \subseteq 1 .. made',
         syncState' \in {syncState, "idle"}
  PROVE  CloudCore'
<1>1. 1 .. made \subseteq 1 .. made'
  BY CallFacts, CloudAssumption DEF Workspace
<1>2. CallsHaveTypes' /\ CloudTypeOK'
  BY <1>1, CallFacts DEF CloudCore, CallsHaveTypes, CloudTypeOK
<1>3. CloudIdWasAnswered' /\ CloudIdIsOfActive' /\ CallsNameTheirRecord'
  BY DEF CloudCore, CloudIdWasAnswered, CloudIdIsOfActive, CallsNameTheirRecord
<1>4. CallsAreOfActive' /\ CallsProgress'
  BY DEF CloudCore, CallsAreOfActive, CallsProgress, UnderWay
<1>5. SyncingIsTrue'
  BY DEF CloudCore, SyncingIsTrue, UnderWay
<1> QED BY <1>2, <1>3, <1>4, <1>5 DEF CloudCore

(* Another workspace becomes active, or the same again.                    *)
LEMMA ActivatingHolds ==
  ASSUME CloudCore, NEW w \in 1 .. made, Activate(w), strayed' = {},
         UNCHANGED <<issued, made, cloudId, syncState, local>>, archived' \subseteq 1 .. made
  PROVE  CloudCore'
<1>1. /\ active' = w /\ switched' = (switched \/ w # active)
      /\ \A s \in 1 .. MaxSyncs :
           sync'[s] = [sync[s] EXCEPT !.moved = @ \/ (UnderWay(s) /\ w # active)]
      /\ sync' = [s \in 1 .. MaxSyncs |-> sync'[s]]
  BY DEF Activate
<1>2. \A s \in 1 .. MaxSyncs : sync[s] \in Call
  BY CallFacts
<1>3. \A s \in 1 .. MaxSyncs :
        /\ sync'[s] \in Call /\ sync'[s].phase = sync[s].phase /\ sync'[s].of = sync[s].of
        /\ sync'[s].stored = sync[s].stored /\ sync'[s].mutation = sync[s].mutation
        /\ sync[s].moved => sync'[s].moved
        /\ UnderWay(s) /\ w # active => sync'[s].moved
  <2> SUFFICES ASSUME NEW s \in 1 .. MaxSyncs
               PROVE  /\ sync'[s] \in Call
                      /\ sync'[s].phase = sync[s].phase /\ sync'[s].of = sync[s].of
                      /\ sync'[s].stored = sync[s].stored
                      /\ sync'[s].mutation = sync[s].mutation
                      /\ sync[s].moved => sync'[s].moved
                      /\ UnderWay(s) /\ w # active => sync'[s].moved
    OBVIOUS
  <2> DEFINE moves == sync[s].moved \/ (UnderWay(s) /\ w # active)
  <2>1. sync'[s] = [sync[s] EXCEPT !.moved = moves] /\ moves \in BOOLEAN
    BY <1>1, <1>2 DEF Call, UnderWay
  <2>2. sync[s].moved => moves
    OBVIOUS
  <2>3. UnderWay(s) /\ w # active => moves
    OBVIOUS
  <2> HIDE DEF moves
  <2> QED BY <1>2, <2>1, <2>2, <2>3 DEF Call
<1>4. sync' \in [1 .. MaxSyncs -> Call]
  BY <1>1, <1>3
<1>5. CallsHaveTypes'
  BY <1>1, <1>4, CallFacts DEF CallsHaveTypes
<1>6. CloudTypeOK'
  BY <1>1, <1>3, CallFacts DEF CloudCore, CloudTypeOK
<1>7. CloudIdWasAnswered' /\ CloudIdIsOfActive'
  <2>1. cloudId # 0 => cloudId \in 1 .. MaxSyncs
    BY CallFacts, CloudAssumption
  <2> QED BY <1>1, <1>3, <2>1, CallFacts
          DEF CloudCore, CloudIdWasAnswered, CloudIdIsOfActive
<1>8. CallsAreOfActive'
  BY <1>1, <1>3 DEF CloudCore, CallsAreOfActive, UnderWay
<1>9. CallsProgress'
  BY <1>3 DEF CloudCore, CallsProgress
<1>10. SyncingIsTrue'
  BY <1>3 DEF CloudCore, SyncingIsTrue, UnderWay
<1> QED BY <1>5, <1>6, <1>7, <1>8, <1>9, <1>10 DEF CloudCore, CallsNameTheirRecord

(* One call goes on.                                                       *)
LEMMA CallMoves ==
  ASSUME CloudCore, issued \in Nat, NEW s \in 1 .. MaxSyncs, NEW q \in Call,
         sync' = [sync EXCEPT ![s] = q], sync[s].phase # "ok", q.of \in 1 .. made,
         UNCHANGED <<made, archived, active, strayed>>,
         issued' \in Nat, issued' >= issued, local' \in [Id -> Nat],
         \A m \in 1 .. issued : local'[m] = local[m],
         \/ cloudId' = cloudId /\ switched' = switched
         \/ cloudId' = s /\ q.phase = "ok" /\ switched' = q.moved /\ (q.moved \/ q.of = active),
         q.phase \in {"sent", "applied"} /\ ~ q.moved => q.of = active,
         q.phase \in {"applied", "ok"} => q.stored,
         q.phase # "queued" => q.mutation = 0,
         q.phase = "queued" => /\ q.mutation \in 1 .. issued'
                               /\ local'[q.mutation] = q.of \/ q.moved,
         syncState' \in {"idle", "syncing", "error"},
         syncState' = "syncing" => q.phase \in {"sent", "applied"}
  PROVE  CloudCore'
<1>1. /\ sync' \in [1 .. MaxSyncs -> Call]
      /\ sync'[s] = q /\ \A c \in 1 .. MaxSyncs : c # s => sync'[c] = sync[c]
  BY CallFacts
<1>2. cloudId # s /\ (cloudId # 0 => cloudId \in 1 .. MaxSyncs)
  BY CallFacts, CloudAssumption DEF CloudCore, CloudIdWasAnswered
<1>3. CallsHaveTypes'
  BY <1>1, CallFacts DEF CallsHaveTypes, Call
<1>4. CloudTypeOK'
  <2>1. cloudId' \in 0 .. MaxSyncs
    BY CallFacts, CloudAssumption
  <2>2. \A c \in 1 .. MaxSyncs : sync'[c].phase \in SyncPhase /\ sync'[c].of \in 1 .. made
    BY <1>1, CallFacts DEF Call
  <2> QED BY <2>1, <2>2, CallFacts DEF CloudTypeOK
<1>5. CloudIdWasAnswered' /\ CloudIdIsOfActive'
  BY <1>1, <1>2 DEF CloudCore, CloudIdWasAnswered, CloudIdIsOfActive
<1>6. CallsAreOfActive'
  BY <1>1 DEF CloudCore, CallsAreOfActive, UnderWay
<1>7. CallsProgress'
  <2>1. 1 .. issued \subseteq 1 .. issued'
    OBVIOUS
  <2> SUFFICES ASSUME NEW c \in 1 .. MaxSyncs, c # s
               PROVE  /\ sync[c].phase \in {"applied", "ok"} => sync[c].stored
                      /\ sync[c].phase # "queued" => sync[c].mutation = 0
                      /\ sync[c].phase = "queued" =>
                           /\ sync[c].mutation \in 1 .. issued'
                           /\ local'[sync[c].mutation] = sync[c].of \/ sync[c].moved
    BY <1>1 DEF CallsProgress
  <2> QED BY <2>1 DEF CloudCore, CallsProgress
<1>8. SyncingIsTrue'
  BY <1>1 DEF SyncingIsTrue, UnderWay
<1>9. CallsNameTheirRecord'
  BY DEF CloudCore, CallsNameTheirRecord
<1> QED BY <1>3, <1>4, <1>5, <1>6, <1>7, <1>8, <1>9 DEF CloudCore

-----------------------------------------------------------------------------
LEMMA SelectHolds ==
  ASSUME CloudCore, NEW w \in Workspace, SelectWorkspace(w)
  PROVE  CloudCore'
<1>1. /\ w \in 1 .. made /\ Activate(w) /\ UNCHANGED archived
      /\ UNCHANGED <<issued, made, cloudId, syncState, local, strayed>>
  BY DEF SelectWorkspace, queueVars, vars
<1>2. strayed' = {} /\ archived' \subseteq 1 .. made
  BY <1>1, CallFacts
<1> QED BY <1>1, <1>2, ActivatingHolds

(* What a call about the active workspace names is its record.             *)
LEMMA NamesItsRecord ==
  ASSUME CloudCore, NEW call, NEW w, NEW excused, cloudId # 0, excused \/ (w = active /\ ~ switched),
         Names(call, w, excused)
  PROVE  strayed' = {}
BY CallFacts DEF Names, CloudCore, CloudIdIsOfActive

LEMMA ArchiveHolds ==
  ASSUME CloudCore, NEW w \in Workspace, Archive(w)
  PROVE  CloudCore'
<1> DEFINE left == (1 .. made) \ (archived \cup {w})
           next == IF active # w THEN active ELSE IF left = {} THEN 1 ELSE First(left)
<1>1. /\ w \in 1 .. made /\ archived' = archived \cup {w} /\ Activate(next)
      /\ UNCHANGED <<issued, made, cloudId, syncState, local>>
      /\ IF Told(w) THEN Names("archive", w, switched) ELSE UNCHANGED strayed
  BY DEF Archive, queueVars, vars
<1>2. strayed' = {}
  BY <1>1, NamesItsRecord, CallFacts DEF Told
<1>3. next \in 1 .. made
  <2>1. left # {} => First(left) \in left
    <3>1. left \in SUBSET Nat
      BY CallFacts
    <3> HIDE DEF left
    <3> QED BY <3>1, FirstIsLeast
  <2>2. active \in 1 .. made /\ 1 \in 1 .. made
    BY CallFacts, CloudAssumption
  <2> QED BY <2>1, <2>2
<1>4. archived' \subseteq 1 .. made
  BY <1>1, CallFacts
<1> HIDE DEF next
<1> QED BY <1>1, <1>2, <1>3, <1>4, ActivatingHolds

LEMMA UnarchiveHolds ==
  ASSUME CloudCore, NEW w \in Workspace, Unarchive(w)
  PROVE  CloudCore'
<1>1. /\ archived' = archived \ {w}
      /\ UNCHANGED <<issued, made, active, cloudId, syncState, switched, sync, local>>
      /\ IF cloudId # 0 THEN Names("unarchive", w, switched \/ w # active) ELSE UNCHANGED strayed
  BY DEF Unarchive, queueVars, vars
<1>2. strayed' = {}
  BY <1>1, NamesItsRecord, CallFacts
<1>3. UNCHANGED strayed /\ archived' \subseteq 1 .. made /\ made >= made
  BY <1>1, <1>2, CallFacts
<1> QED BY <1>1, <1>3, CallFacts, CallsRest

LEMMA ShareHolds ==
  ASSUME CloudCore, ShareActive
  PROVE  CloudCore'
<1>1. UNCHANGED <<issued, made, archived, active, cloudId, syncState, switched, sync, local>>
  BY DEF ShareActive, queueVars, vars, storeVars
<1>2. strayed' = {}
  BY NamesItsRecord, CallFacts DEF ShareActive
<1>3. UNCHANGED strayed /\ archived' \subseteq 1 .. made /\ made >= made
  BY <1>1, <1>2, CallFacts
<1> QED BY <1>1, <1>3, CallFacts, CallsRest

LEMMA MakingHolds ==
  ASSUME CloudCore, CreateWorkspace \/ ClearSyncState
  PROVE  CloudCore'
<1>1. /\ UNCHANGED <<issued, archived, active, cloudId, switched, sync, local, strayed>>
      /\ made' = made \/ (made' = made + 1 /\ made < MaxWorkspaces)
      /\ syncState' \in {syncState, "idle"}
  BY DEF CreateWorkspace, ClearSyncState, queueVars, vars
<1>2. made' \in Workspace /\ made' >= made /\ 1 .. made \subseteq 1 .. made'
  BY <1>1, CallFacts, CloudAssumption DEF Workspace
<1>3. archived' \subseteq 1 .. made'
  BY <1>1, <1>2, CallFacts
<1> QED BY <1>1, <1>2, <1>3, CallsRest

LEMMA QueueStepHolds ==
  ASSUME CloudCore, NEW f \in Flusher, QueueStep(f)
  PROVE  CloudCore'
<1>1. UNCHANGED <<made, archived, active, cloudId, syncState, switched, sync, local, strayed>>
  BY DEF QueueStep, cloudVars, storeVars
<1>2. UNCHANGED issued
  BY DEF QueueStep, StartFlush, Apply, Refuse, Answered, Conflicted, Errored, LostReply, GivenUp
<1>3. archived' \subseteq 1 .. made /\ made >= made
  BY <1>1, CallFacts
<1> QED BY <1>1, <1>2, <1>3, CallFacts, CallsRest

LEMMA QueueArrivalHolds ==
  ASSUME CloudCore, NEW m \in Id, QueueArrival(m)
  PROVE  CloudCore'
<1>1. UNCHANGED <<issued, made, archived, active, cloudId, syncState, switched, sync, local, strayed>>
  BY DEF QueueArrival, ApplyLate, cloudVars, storeVars
<1>2. archived' \subseteq 1 .. made /\ made >= made
  BY <1>1, CallFacts
<1> QED BY <1>1, <1>2, CallFacts, CallsRest

LEMMA ReloadPageHolds ==
  ASSUME CloudCore, ReloadPage
  PROVE  CloudCore'
<1>1. /\ UNCHANGED <<issued, made, archived, active, cloudId, syncState, switched, local, strayed>>
      /\ sync' = [s \in 1 .. MaxSyncs |->
                    IF UnderWay(s) THEN [sync[s] EXCEPT !.phase = "cut"] ELSE sync[s]]
  BY DEF ReloadPage, Reload, storeVars
<1>2. \A s \in 1 .. MaxSyncs :
        /\ sync'[s] \in Call /\ sync'[s].of = sync[s].of /\ sync'[s].stored = sync[s].stored
        /\ sync'[s].mutation = sync[s].mutation /\ sync'[s].moved = sync[s].moved
        /\ sync'[s].phase = IF UnderWay(s) THEN "cut" ELSE sync[s].phase
  BY <1>1, CallFacts DEF Call, SyncPhase
<1>3. sync' \in [1 .. MaxSyncs -> Call]
  BY <1>1, <1>2
<1>4. CallsHaveTypes' /\ CloudTypeOK'
  BY <1>1, <1>2, <1>3, CallFacts DEF CloudCore, CallsHaveTypes, CloudTypeOK, Call
<1>5. CloudIdWasAnswered' /\ CloudIdIsOfActive' /\ CallsNameTheirRecord'
  <2>1. cloudId # 0 => cloudId \in 1 .. MaxSyncs
    BY CallFacts, CloudAssumption
  <2> QED BY <1>1, <1>2, <2>1
          DEF CloudCore, CloudIdWasAnswered, CloudIdIsOfActive, CallsNameTheirRecord, UnderWay
<1>6. CallsAreOfActive'
  BY <1>1, <1>2 DEF CallsAreOfActive, UnderWay
<1>7. CallsProgress'
  BY <1>1, <1>2 DEF CloudCore, CallsProgress, UnderWay
<1>8. SyncingIsTrue'
  BY <1>1, <1>2 DEF CloudCore, SyncingIsTrue, UnderWay
<1> QED BY <1>4, <1>5, <1>6, <1>7, <1>8 DEF CloudCore

LEMMA BeginSyncHolds ==
  ASSUME CloudCore, issued \in Nat, NEW s \in 1 .. MaxSyncs, BeginSync(s)
  PROVE  CloudCore'
<1> DEFINE q == [Unused EXCEPT !.phase = "sent", !.of = active]
<1>1. /\ sync[s].phase = "unused" /\ sync' = [sync EXCEPT ![s] = q] /\ syncState' = "syncing"
      /\ UNCHANGED <<issued, made, archived, active, cloudId, switched, local, strayed>>
  BY DEF BeginSync, queueVars, vars
<1>2. /\ q \in Call /\ q.phase = "sent" /\ q.of = active /\ q.mutation = 0
  BY CallFacts DEF Unused, Call, SyncPhase
<1> HIDE DEF q
<1>3. q.of \in 1 .. made /\ local' \in [Id -> Nat] /\ issued' >= issued
  BY <1>1, <1>2, CallFacts
<1> QED BY <1>1, <1>2, <1>3, CallMoves

LEMMA SyncAppliedHolds ==
  ASSUME CloudCore, issued \in Nat, NEW s \in 1 .. MaxSyncs, SyncApplied(s)
  PROVE  CloudCore'
<1> DEFINE q == [sync[s] EXCEPT !.phase = "applied", !.stored = TRUE]
<1>1. /\ sync[s].phase = "sent" /\ sync' = [sync EXCEPT ![s] = q]
      /\ UNCHANGED <<issued, made, archived, active, cloudId, syncState, switched, local, strayed>>
  BY CallFacts DEF SyncApplied, queueVars, vars, storeVars
<1>2. /\ q \in Call /\ q.phase = "applied" /\ q.of = sync[s].of /\ q.mutation = sync[s].mutation
      /\ q.moved = sync[s].moved /\ q.stored
  BY CallFacts DEF Call, SyncPhase
<1> HIDE DEF q
<1>3. q.of \in 1 .. made /\ local' \in [Id -> Nat] /\ issued' >= issued
  BY <1>1, <1>2, CallFacts
<1>4. q.mutation = 0 /\ (~ q.moved => q.of = active)
  BY <1>1, <1>2 DEF CloudCore, CallsProgress, CallsAreOfActive, UnderWay
<1>5. syncState' \in {"idle", "syncing", "error"}
  BY <1>1, CallFacts
<1> QED BY <1>1, <1>2, <1>3, <1>4, <1>5, CallMoves

LEMMA SyncAnsweredHolds ==
  ASSUME CloudCore, issued \in Nat, NEW s \in 1 .. MaxSyncs, SyncAnswered(s)
  PROVE  CloudCore'
<1> DEFINE q == [sync[s] EXCEPT !.phase = "ok"]
<1>1. /\ sync[s].phase = "applied" /\ sync' = [sync EXCEPT ![s] = q] /\ syncState' = "idle"
      /\ cloudId' = s /\ switched' = sync[s].moved
      /\ UNCHANGED <<issued, made, archived, active, local, strayed>>
  BY CallFacts DEF SyncAnswered, queueVars, vars
<1>2. /\ q \in Call /\ q.phase = "ok" /\ q.of = sync[s].of /\ q.mutation = sync[s].mutation
      /\ q.moved = sync[s].moved /\ q.stored = sync[s].stored
  BY CallFacts DEF Call, SyncPhase
<1> HIDE DEF q
<1>3. q.of \in 1 .. made /\ local' \in [Id -> Nat] /\ issued' >= issued
  BY <1>1, <1>2, CallFacts
<1>4. q.mutation = 0 /\ q.stored /\ (q.moved \/ q.of = active)
  BY <1>1, <1>2 DEF CloudCore, CallsProgress, CallsAreOfActive, UnderWay
<1> QED BY <1>1, <1>2, <1>3, <1>4, CallMoves

LEMMA SyncFailsHolds ==
  ASSUME CloudCore, IInv, NEW s \in 1 .. MaxSyncs, SyncFailed(s) \/ SyncReplyLost(s)
  PROVE  CloudCore'
<1>0. PICK e : e = issued + 1
  OBVIOUS
<1> DEFINE q == [sync[s] EXCEPT !.phase = "queued", !.mutation = e]
<1>1. /\ UnderWay(s) /\ sync' = [sync EXCEPT ![s] = q] /\ syncState' = "error"
      /\ issued' = e /\ local' = [local EXCEPT ![e] = active] /\ issued < MaxMutations
      /\ UNCHANGED <<made, archived, active, cloudId, switched, strayed>>
  BY <1>0, CallFacts DEF SyncFailed, SyncReplyLost, QueueSync, Enqueue, UnderWay
<1>2. issued \in Nat /\ e \in Id /\ e \in Nat /\ e >= issued /\ e \notin 1 .. issued /\ e \in 1 .. e
  BY <1>0, <1>1, SyncAssumption DEF IInv, TypeOK, Id
<1>3. /\ q \in Call /\ q.phase = "queued" /\ q.of = sync[s].of /\ q.mutation = e
      /\ q.moved = sync[s].moved
  BY <1>2, CallFacts DEF Call, SyncPhase
<1> HIDE DEF q
<1>4. local' \in [Id -> Nat] /\ local'[e] = active /\ \A m \in 1 .. issued : local'[m] = local[m]
  <2>1. active \in Nat /\ 1 .. issued \subseteq Id
    BY <1>2, CallFacts, SyncAssumption DEF IInv, TypeOK, Id
  <2> QED BY <1>1, <1>2, <2>1, CallFacts
<1>5. q.of \in 1 .. made /\ (local'[q.mutation] = q.of \/ q.moved) /\ sync[s].phase # "ok"
  BY <1>1, <1>3, <1>4, CallFacts DEF CloudCore, CallsAreOfActive, UnderWay
<1> QED BY <1>1, <1>2, <1>3, <1>4, <1>5, CallMoves

-----------------------------------------------------------------------------
(* What the cloud actions do to the queue: a step of its own, or nothing.  *)
LEMMA CloudStepsQueue ==
  [CloudNext]_<<queueVars, cloudVars>> => [Next]_vars
<1>1. ASSUME NEW s \in 1 .. MaxSyncs, SyncFailed(s) \/ SyncReplyLost(s)
      PROVE  Next
  <2>1. Enqueue("create", FALSE)
    BY <1>1 DEF SyncFailed, SyncReplyLost, QueueSync
  <2> QED BY <2>1 DEF Next, Kind
<1>2. ASSUME NEW f \in Flusher, QueueStep(f) PROVE Next
  BY <1>2 DEF QueueStep, Next
<1>3. CASE ReloadPage \/ \E m \in Id : QueueArrival(m)
  BY <1>3 DEF ReloadPage, QueueArrival, Next
<1>4. CASE UNCHANGED vars
  BY <1>4
<1>5. CASE UNCHANGED <<queueVars, cloudVars>>
  BY <1>5 DEF queueVars
<1>6. ASSUME NEW w \in Workspace, SelectWorkspace(w) \/ Archive(w) \/ Unarchive(w)
      PROVE  UNCHANGED vars
  BY <1>6 DEF SelectWorkspace, Archive, Unarchive, queueVars
<1>7. ASSUME NEW s \in 1 .. MaxSyncs, BeginSync(s) \/ SyncApplied(s) \/ SyncAnswered(s)
      PROVE  UNCHANGED vars
  BY <1>7 DEF BeginSync, SyncApplied, SyncAnswered, queueVars
<1>8. ASSUME CreateWorkspace \/ ShareActive \/ ClearSyncState PROVE UNCHANGED vars
  BY <1>8 DEF CreateWorkspace, ShareActive, ClearSyncState, queueVars
<1> QED BY <1>1, <1>2, <1>3, <1>4, <1>5, <1>6, <1>7, <1>8 DEF CloudNext

LEMMA CloudBegins == CloudInit => CloudCore /\ IInv
<1> SUFFICES ASSUME CloudInit PROVE CloudCore /\ IInv
  OBVIOUS
<1>1. IInv /\ issued = 0
  BY InitInv DEF CloudInit, Init
<1>2. /\ made = 1 /\ archived = {} /\ active = 1 /\ cloudId = 0 /\ syncState = "idle"
      /\ switched = FALSE /\ strayed = {} /\ local = [m \in Id |-> 0]
      /\ sync = [s \in 1 .. MaxSyncs |-> Unused]
  BY DEF CloudInit
<1>3. 1 \in Workspace /\ 0 \in 0 .. MaxSyncs /\ 1 \in 1 .. 1
  BY CloudAssumption DEF Workspace
<1>4. /\ Unused \in Call /\ Unused.phase = "unused" /\ Unused.of = 1 /\ Unused.mutation = 0
  BY <1>3 DEF Unused, Call, SyncPhase
<1>5. CallsHaveTypes
  BY <1>2, <1>4 DEF CallsHaveTypes
<1>6. CloudTypeOK
  BY <1>2, <1>3, <1>4 DEF CloudTypeOK, SyncPhase
<1>7. CallsAreOfActive /\ CallsProgress
  BY <1>2, <1>4 DEF CallsAreOfActive, CallsProgress, UnderWay
<1>8. CloudIdWasAnswered /\ CloudIdIsOfActive /\ CallsNameTheirRecord /\ SyncingIsTrue
  BY <1>2 DEF CloudIdWasAnswered, CloudIdIsOfActive, CallsNameTheirRecord, SyncingIsTrue
<1> QED BY <1>1, <1>5, <1>6, <1>7, <1>8 DEF CloudCore

LEMMA CloudSteps ==
  ASSUME CloudCore, IInv, [CloudNext]_<<queueVars, cloudVars>>
  PROVE  CloudCore' /\ IInv'
<1>1. IInv'
  BY CloudStepsQueue, StepInv
<1>2. issued \in Nat
  BY SyncAssumption DEF IInv, TypeOK
<1>3. CASE UNCHANGED <<queueVars, cloudVars>>
  <2>1. UNCHANGED <<issued, made, archived, active, cloudId, syncState, switched,
                    sync, local, strayed>>
    BY <1>3 DEF queueVars, vars, cloudVars, storeVars
  <2>2. made' \in Workspace /\ made' >= made /\ archived' \subseteq 1 .. made'
    BY <2>1, CallFacts
  <2>3. CloudCore'
    BY <2>1, <2>2, CallsRest
  <2> QED BY <1>1, <2>3
<1>4. ASSUME NEW w \in Workspace, SelectWorkspace(w) \/ Archive(w) \/ Unarchive(w)
      PROVE  CloudCore'
  BY <1>4, SelectHolds, ArchiveHolds, UnarchiveHolds
<1>5. ASSUME NEW s \in 1 .. MaxSyncs,
             \/ BeginSync(s) \/ SyncApplied(s) \/ SyncAnswered(s)
             \/ SyncFailed(s) \/ SyncReplyLost(s)
      PROVE  CloudCore'
  BY <1>2, <1>5, BeginSyncHolds, SyncAppliedHolds, SyncAnsweredHolds, SyncFailsHolds
<1>6. ASSUME NEW f \in Flusher, QueueStep(f) PROVE CloudCore'
  BY <1>6, QueueStepHolds
<1>9. ASSUME NEW m \in Id, QueueArrival(m) PROVE CloudCore'
  BY <1>9, QueueArrivalHolds
<1>7. ASSUME CreateWorkspace \/ ClearSyncState \/ ShareActive \/ ReloadPage PROVE CloudCore'
  BY <1>7, MakingHolds, ShareHolds, ReloadPageHolds
<1>8. CASE CloudNext
  BY <1>1, <1>4, <1>5, <1>6, <1>7, <1>9, <1>8 DEF CloudNext
<1> QED BY <1>3, <1>8

LEMMA NothingIsForgotten == CloudCore /\ IInv => NoSyncForgotten
<1> SUFFICES ASSUME CloudCore, IInv, NEW s \in 1 .. MaxSyncs
             PROVE  /\ sync[s].phase = "ok" => sync[s].stored
                    /\ sync[s].phase = "queued" =>
                         /\ sync[s].mutation \in queue \/ sync[s].mutation \in Done
                         /\ local[sync[s].mutation] = sync[s].of \/ sync[s].moved
  BY DEF NoSyncForgotten
<1> QED BY DEF CloudCore, CallsProgress, IInv, NothingLost

(* For any number of flushes, calls and workspaces: the remembered cloud   *)
(* record, and the calls that name it, are those of the active workspace   *)
(* unless another one became active; a sync that ended has its record or   *)
(* waits in the queue; and the spinner is true.                            *)
THEOREM SyncsAreKept ==
  CloudSpec => [](/\ CloudTypeOK /\ CloudIdIsOfActive /\ CallsNameTheirRecord
                  /\ NoSyncForgotten /\ SyncingIsTrue)
<1>1. CloudCore /\ IInv =>
        /\ CloudTypeOK /\ CloudIdIsOfActive /\ CallsNameTheirRecord
        /\ NoSyncForgotten /\ SyncingIsTrue
  BY NothingIsForgotten DEF CloudCore
<1>2. CloudCore /\ IInv /\ [CloudNext]_<<queueVars, cloudVars>> => (CloudCore /\ IInv)'
  BY CloudSteps
<1> QED BY <1>1, <1>2, CloudBegins, PTL DEF CloudSpec

(* Besides, a sync leaves at most one record more than the attempts and    *)
(* the reloads, unless two flushes had what it queued in hand at once.     *)
THEOREM CloudHolds == CloudSpec => []CloudInv
<1> DEFINE All == CloudCore /\ IInv /\ OInv /\ RInv
<1>1. CloudInit => All
  BY CloudBegins, OrderBegins, RunsBegin DEF CloudInit
<1>2. All /\ [CloudNext]_<<queueVars, cloudVars>> => All'
  BY CloudSteps, CloudStepsQueue, StepOrder, StepRuns
<1>3. ASSUME CloudCore, IInv, OInv, RInv PROVE CopiesBounded
  <2> SUFFICES ASSUME NEW s \in 1 .. MaxSyncs
               PROVE  /\ sync[s].phase = "ok" => sync[s].mutation = 0
                      /\ sync[s].phase = "queued" =>
                           \/ Copies(s) <= 1 + MaxAttempts + reloads
                           \/ sync[s].mutation \in shared
    BY DEF CopiesBounded
  <2>1. sync[s].phase = "ok" => sync[s].mutation = 0
    BY <1>3 DEF CloudCore, CallsProgress
  <2>2. ASSUME sync[s].phase = "queued", sync[s].mutation \notin shared
        PROVE  Copies(s) <= 1 + MaxAttempts + reloads
    <3>1. sync[s].mutation \in Id
      BY <1>3, <2>2, SyncAssumption DEF CloudCore, CallsProgress, IInv, TypeOK, Id
    <3>2. Runs(sync[s].mutation) <= MaxAttempts + reloads
      BY <1>3, <2>2, <3>1, RunsAreLimited DEF RunsBounded, Runs
    <3>3. Runs(sync[s].mutation) \in Nat /\ reloads \in Nat
      BY <1>3, RunsAreNumbers DEF IInv, TypeOK
    <3>4. Copies(s) = Runs(sync[s].mutation) + (IF sync[s].stored THEN 1 ELSE 0)
      BY DEF Copies, Runs
    <3> QED BY <3>2, <3>3, <3>4, SyncAssumption
  <2> QED BY <2>1, <2>2
<1>4. All => CloudInv
  BY <1>3, NothingIsForgotten DEF CloudCore, CloudInv
<1> HIDE DEF All
<1> QED BY <1>1, <1>2, <1>4, PTL DEF CloudSpec
=============================================================================
