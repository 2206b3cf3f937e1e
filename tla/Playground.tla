------------------------------ MODULE Playground ------------------------------
(***************************************************************************)
(* The live playground of a contract (components/contract-playground.tsx,  *)
(* createDebounced of lib/playground.ts): an edit of a parameter runs a    *)
(* simulation after a pause, and an answer counts only if no edit has come *)
(* since its request.                                                      *)
(*                                                                         *)
(* The parameters of a function are one input, valid or not; a function    *)
(* without parameters has one valid input, which is where it begins.       *)
(***************************************************************************)
EXTENDS Naturals

CONSTANTS
  Function, \* functions of the contract
  Constant, \* those without parameters
  NoFunction,
  MaxEdits  \* bound on request ids

ASSUME PlaygroundAssumption ==
  Constant \subseteq Function /\ NoFunction \notin Function /\ MaxEdits \in Nat

VARIABLES
  fnName, values, previewStatus, preview,
  playTimer,     \* what the debounced call will be made with
  requestId,
  flights,   \* the requests under way: what they ask, under which id
  chosen     \* history: the function was chosen after the newest edit

playVars == <<fnName, values, previewStatus, preview, playTimer, requestId, flights, chosen>>

Inputs == {"empty", "wrong", "good", "better"}
PlayCall == [fn : Function, vals : Inputs]
NoInput == [fn |-> NoFunction, vals |-> "empty"]
InputOf(f, v) == [fn |-> f, vals |-> v]

(* buildPlaygroundArgs. *)
InputBuilds(c) == c.fn \in Constant \/ c.vals \in {"good", "better"}

PlayInit ==
  /\ fnName = NoFunction /\ values = "empty" /\ previewStatus = "idle" /\ preview = NoInput
  /\ playTimer = NoInput /\ requestId = 0 /\ flights = {} /\ chosen = FALSE

(* Mutant: an edit sets no timer for an input that will not build.         *)
SchedulesIfValid(f, v) ==
  /\ requestId < MaxEdits /\ requestId' = requestId + 1
  /\ playTimer' = IF InputBuilds(InputOf(f, v)) THEN InputOf(f, v) ELSE NoInput
Schedules(f, v) ==
  requestId < MaxEdits /\ requestId' = requestId + 1 /\ playTimer' = InputOf(f, v)

(* Mutant: the preview stays on the screen. *)
SelectKeepsResult(f) ==
  /\ fnName' = f /\ values' = "empty" /\ previewStatus' = "idle"
  /\ IF f \in Constant THEN Schedules(f, "empty") /\ chosen' = FALSE
     ELSE UNCHANGED <<playTimer, requestId>> /\ chosen' = TRUE
  /\ UNCHANGED <<preview, flights>>

(* onSelect: the preview is cleared, but neither the timer nor a request   *)
(* under way, unless the function has no parameters and runs at once.      *)
SelectFunction(f) ==
  /\ fnName' = f /\ values' = "empty" /\ previewStatus' = "idle" /\ preview' = NoInput
  /\ IF f \in Constant THEN Schedules(f, "empty") /\ chosen' = FALSE
     ELSE UNCHANGED <<playTimer, requestId>> /\ chosen' = TRUE
  /\ UNCHANGED flights

(* onValue. *)
EditValue(v) ==
  /\ fnName \in Function \ Constant /\ v # values
  /\ values' = v /\ chosen' = FALSE
  /\ Schedules(fnName, v)
  /\ UNCHANGED <<fnName, previewStatus, preview, flights>>

(* The timer: the parameters as they were at the edit. *)
TimerRunsOut ==
  /\ playTimer # NoInput /\ playTimer' = NoInput
  /\ IF InputBuilds(playTimer)
     THEN /\ requestId < MaxEdits
          /\ requestId' = requestId + 1 /\ previewStatus' = "running"
          /\ flights' = flights \cup {[call |-> playTimer, id |-> requestId + 1]}
     ELSE previewStatus' = "invalid" /\ UNCHANGED <<requestId, flights>>
  /\ UNCHANGED <<fnName, values, preview, chosen>>

(* Mutant: every answer counts. *)
AnyAnswer(r) == TRUE
IsNewest(r) == r.id = requestId

PreviewAnswered(r) ==
  /\ r \in flights /\ flights' = flights \ {r}
  /\ IF IsNewest(r) THEN preview' = r.call /\ previewStatus' = "done"
     ELSE UNCHANGED <<preview, previewStatus>>
  /\ UNCHANGED <<fnName, values, playTimer, requestId, chosen>>

PlayNext ==
  \/ \E f \in Function \cup {NoFunction} : SelectFunction(f)
  \/ \E v \in Inputs \ {"empty"} : EditValue(v)
  \/ TimerRunsOut
  \/ \E r \in flights : PreviewAnswered(r)

PlaySpec == PlayInit /\ [][PlayNext]_playVars

-----------------------------------------------------------------------------
(* The playground has its types, and shows no result before it has begun.  *)
PlayTypeOK ==
  /\ fnName \in Function \cup {NoFunction} /\ values \in Inputs
  /\ previewStatus \in {"idle", "invalid", "running", "done"}
  /\ preview \in PlayCall \cup {NoInput} /\ playTimer \in PlayCall \cup {NoInput}
  /\ requestId \in 0 .. MaxEdits
  /\ flights \subseteq [call : PlayCall, id : 1 .. requestId] /\ chosen \in BOOLEAN
  /\ \A r, s \in flights : r.id = s.id => r = s
  /\ previewStatus = "idle" => preview = NoInput

(* A preview that is done, and that no timer is about to replace, shows    *)
(* what the parameters now on the screen return, unless the function was   *)
(* chosen anew since the newest edit: the choice of a function with        *)
(* parameters stops neither the timer nor the request of the one before.   *)
PreviewIsOfTheInput ==
  previewStatus = "done" /\ playTimer = NoInput /\ ~ chosen => preview = InputOf(fnName, values)

(* A preview that is running has an answer to wait for, or a timer.        *)
RunningIsWaitedFor ==
  previewStatus = "running" => playTimer # NoInput \/ \E r \in flights : r.id = requestId

(* Together: a preview is of what is typed, and one that is announced is   *)
(* under way.                                                              *)
PlayInv ==
  /\ PlayTypeOK /\ PreviewIsOfTheInput /\ RunningIsWaitedFor
=============================================================================
