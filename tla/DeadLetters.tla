------------------------------ MODULE DeadLetters ------------------------------
(***************************************************************************)
(* The dead-letter jobs of the API (modules/dead-letter/                   *)
(* dead-letter.service.ts): rows of a table, and the retries an operator   *)
(* asks for.  A retry reads its row and then writes what it made of it, so *)
(* another may come between.  Nothing in the repository takes a row up     *)
(* again or marks one processed.                                           *)
(***************************************************************************)
EXTENDS Naturals, FiniteSets

CONSTANTS
  DeadJob,
  Retry,      \* concurrent calls of retry
  MaxRetries, \* the largest maxRetries a row is given; 3 unless the caller says
  MaxCalls    \* bound on retries that write, to each row

ASSUME DeadLetterAssumption == MaxRetries \in Nat /\ MaxCalls \in Nat

VARIABLES
  letters, \* letters[j]: the row of j; status "none" stands for no row
  retrying, \* retrying[r]: the row retry r has read, and of which job
  emitted, \* emitted[j]: "dead-letter.retried" events so far
  overtaken \* history: overtaken[j]: for every retry that wrote, those that wrote
            \* between what it read and what it wrote

letterVars == <<letters, retrying, emitted, overtaken>>

Letter == [status : {"none", "pending", "failed"}, retryCount : 0 .. MaxRetries + 1,
           maxRetries : 0 .. MaxRetries]
NoLetter == [status |-> "none", retryCount |-> 0, maxRetries |-> 0]
NoRetry == [of |-> {}, read |-> NoLetter, missed |-> 0]

LettersInit ==
  /\ letters = [j \in DeadJob |-> NoLetter]
  /\ retrying = [r \in Retry |-> NoRetry]
  /\ emitted = [j \in DeadJob |-> 0] /\ overtaken = [j \in DeadJob |-> 0]

EnqueueLetter(j, max) ==
  /\ letters[j].status = "none"
  /\ letters' = [letters EXCEPT ![j] = [status |-> "pending", retryCount |-> 0,
                                        maxRetries |-> max]]
  /\ UNCHANGED <<retrying, emitted, overtaken>>

(* findUnique. *)
ReadForRetry(r, j) ==
  /\ letters[j].status # "none" /\ retrying[r].of = {}
  /\ retrying' = [retrying EXCEPT ![r] = [of |-> {j}, read |-> letters[j], missed |-> 0]]
  /\ UNCHANGED <<letters, emitted, overtaken>>

(* Mutant: one retry more than the row allows.                             *)
SpentLate(row) == row.retryCount > row.maxRetries

Spent(row) == row.retryCount >= row.maxRetries

Overtakes(r, j) ==
  retrying' = [s \in Retry |->
    IF s = r THEN NoRetry
    ELSE [retrying[s] EXCEPT !.missed = IF retrying[s].of = {j} THEN @ + 1 ELSE @]]

(* Mutant: the count the row was given at first, not the one read.         *)
CountedFromZero(read) == 1

CountedOnce(read) == read.retryCount + 1

(* update: the retry count that was read, plus one, over whatever is there *)
(* now; or the end of the row.                                             *)
WriteRetry(r, j) ==
  LET read == retrying[r].read IN
  /\ retrying[r].of = {j} /\ ~ Spent(read)
  /\ emitted[j] < MaxCalls
  /\ letters' = [letters EXCEPT ![j].retryCount = CountedOnce(read),
                                ![j].status = "pending"]
  /\ emitted' = [emitted EXCEPT ![j] = @ + 1]
  /\ overtaken' = [overtaken EXCEPT ![j] = @ + retrying[r].missed]
  /\ Overtakes(r, j)

WriteFailed(r, j) ==
  /\ retrying[r].of = {j} /\ Spent(retrying[r].read)
  /\ letters' = [letters EXCEPT ![j].status = "failed"]
  /\ retrying' = [retrying EXCEPT ![r] = NoRetry]
  /\ UNCHANGED <<emitted, overtaken>>

LettersNext ==
  \/ \E j \in DeadJob, max \in 0 .. MaxRetries : EnqueueLetter(j, max)
  \/ \E r \in Retry, j \in DeadJob :
       ReadForRetry(r, j) \/ WriteRetry(r, j) \/ WriteFailed(r, j)

LettersSpec == LettersInit /\ [][LettersNext]_letterVars

-----------------------------------------------------------------------------
(* The rows and the calls have their types; a row counts no more retries   *)
(* than it allows.                                                         *)
LettersTypeOK ==
  /\ letters \in [DeadJob -> Letter]
  /\ \A j \in DeadJob : letters[j].retryCount <= letters[j].maxRetries
  /\ retrying \in [Retry -> [of : {{}} \cup {{j} : j \in DeadJob}, read : Letter, missed : Nat]]
  /\ emitted \in [DeadJob -> 0 .. MaxCalls] /\ overtaken \in [DeadJob -> Nat]

(* A job is not retried more often than it allows, but once more for every *)
(* retry whose count is overwritten by another that had read the row       *)
(* before; a job that has failed has used up its retries, unless one was.  *)
RetriesBoundedUnlessOvertaken ==
  \A j \in DeadJob :
    /\ emitted[j] <= letters[j].maxRetries + overtaken[j]
    /\ letters[j].status = "failed" /\ overtaken[j] = 0 =>
         letters[j].retryCount = letters[j].maxRetries

(* Together with the types: retries stay within what a job allows, but for *)
(* the ones whose count was overwritten.                                   *)
LettersInv ==
  /\ LettersTypeOK /\ RetriesBoundedUnlessOvertaken
=============================================================================
