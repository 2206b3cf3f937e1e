--------------------------- MODULE ContractHistory ---------------------------
(***************************************************************************)
(* The contract list of apps/web with its undo and redo stacks             *)
(* (store/useContractStore.ts).                                            *)
(*                                                                         *)
(* Every entry of a stack holds two whole lists, the one before its action *)
(* and the one after, and undo and redo write the one they hold over the   *)
(* list of the moment.  A finished deployment adds its contract whenever   *)
(* it ends, between any two steps of the user.                             *)
(***************************************************************************)
EXTENDS Naturals, Sequences

CONSTANTS
  Contract,   \* contract ids
  UndoLimit   \* CONTRACT_UNDO_LIMIT

ASSUME HistoryAssumption == UndoLimit \in Nat \ {0}

VARIABLES
  contracts,  \* the list, a sequence of ids
  undoStack,  \* newest action last
  redoStack   \* the action to redo next last

historyVars == <<contracts, undoStack, redoStack>>

Lists == Seq(Contract)
Listed(c) == \E i \in 1 .. Len(contracts) : contracts[i] = c
Step == [restore : Lists, contracts : Lists]

HistoryInit == contracts = <<>> /\ undoStack = <<>> /\ redoStack = <<>>

(* Mutant: the cap keeps one entry too many. *)
CappedLoosely(stack) == IF Len(stack) > UndoLimit + 1 THEN Tail(stack) ELSE stack
(* slice(-CONTRACT_UNDO_LIMIT) of a stack that has just grown by one. *)
Capped(stack) == IF Len(stack) > UndoLimit THEN Tail(stack) ELSE stack

(* Mutant: a new action leaves what could be redone. *)
WithHistoryKeepsRedo(list) ==
  /\ contracts' = list
  /\ undoStack' = Capped(Append(undoStack, [restore |-> contracts, contracts |-> list]))
  /\ UNCHANGED redoStack

(* withHistory: an action is recorded, and nothing is left to redo.        *)
WithHistory(list) ==
  /\ contracts' = list
  /\ undoStack' = Capped(Append(undoStack, [restore |-> contracts, contracts |-> list]))
  /\ redoStack' = <<>>

(* Mutant: a contract that is listed is added again. *)
AddContractAlways(c) == WithHistory(<<c>> \o contracts)

(* Adding a contract that is listed changes nothing and records nothing,   *)
(* nor does removing one that is not, nor moving past an end of the list.  *)
AddContract(c) == ~ Listed(c) /\ WithHistory(<<c>> \o contracts)

(* The filter of removeContract, on a list that holds c once. *)
Without(c) ==
  LET at == CHOOSE i \in 1 .. Len(contracts) : contracts[i] = c
  IN [i \in 1 .. Len(contracts) - 1 |-> contracts[IF i < at THEN i ELSE i + 1]]
RemoveContract(c) == Listed(c) /\ WithHistory(Without(c))

Swapped(i, j) == [contracts EXCEPT ![i] = contracts[j], ![j] = contracts[i]]
MoveContract(i, j) ==
  /\ i \in 1 .. Len(contracts) /\ j \in 1 .. Len(contracts) /\ (j = i + 1 \/ i = j + 1)
  /\ WithHistory(Swapped(i, j))

Last(stack) == stack[Len(stack)]
Front(stack) == SubSeq(stack, 1, Len(stack) - 1)

Undo ==
  /\ undoStack # <<>>
  /\ contracts' = Last(undoStack).restore
  /\ undoStack' = Front(undoStack)
  /\ redoStack' = Append(redoStack, Last(undoStack))

Redo ==
  /\ redoStack # <<>>
  /\ contracts' = Last(redoStack).contracts
  /\ redoStack' = Front(redoStack)
  /\ undoStack' = Capped(Append(undoStack, Last(redoStack)))

(* clearHistory, and a reload: only the list is persisted. *)
ClearHistory ==
  /\ undoStack' = <<>> /\ redoStack' = <<>>
  /\ UNCHANGED contracts

HistoryNext ==
  \/ \E c \in Contract : AddContract(c) \/ RemoveContract(c)
  \/ \E i, j \in 1 .. Len(contracts) : MoveContract(i, j)
  \/ Undo \/ Redo \/ ClearHistory

HistorySpec == HistoryInit /\ [][HistoryNext]_historyVars

-----------------------------------------------------------------------------
(* The stacks hold lists of contracts, and together no more actions than   *)
(* the limit allows.                                                       *)
HistoryTypeOK ==
  /\ contracts \in Lists
  /\ undoStack \in Seq(Step) /\ redoStack \in Seq(Step)
  /\ Len(undoStack) + Len(redoStack) <= UndoLimit

(* The stacks are one line of history with the list at its middle: every   *)
(* action starts from the list the one before it left, so that undo and    *)
(* redo write over the list exactly what the user saw there, and never     *)
(* lose a contract that arrived in between.                                *)
HistoryIsOneLine ==
  /\ \A i \in 1 .. Len(undoStack) - 1 : undoStack[i].contracts = undoStack[i + 1].restore
  /\ undoStack # <<>> => Last(undoStack).contracts = contracts
  /\ redoStack # <<>> => Last(redoStack).restore = contracts
  /\ \A i \in 1 .. Len(redoStack) - 1 : redoStack[i + 1].contracts = redoStack[i].restore

(* No contract is listed twice, although undo and redo write whole lists   *)
(* that were recorded before others came.                                  *)
NoDuplicates ==
  \A i, j \in 1 .. Len(contracts) : contracts[i] = contracts[j] => i = j

(* Together: undo and redo never lose a contract, duplicate one, or grow   *)
(* without bound.                                                          *)
HistoryInv ==
  /\ HistoryTypeOK /\ HistoryIsOneLine /\ NoDuplicates
=============================================================================
