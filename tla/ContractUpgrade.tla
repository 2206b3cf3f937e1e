--------------------------- MODULE ContractUpgrade ---------------------------
(***************************************************************************)
(* The upgrade dialog of apps/web (components/contract-upgrade-modal.tsx): *)
(* simulate an upgrade, then confirm it.                                   *)
(*                                                                         *)
(* Every edit of the form and every close of the dialog resets its status, *)
(* but ends no call: a simulation or an upgrade that was under way sets    *)
(* the status when it is answered, whatever the form holds by then.  A     *)
(* target is a wasm hash with a function name.                             *)
(*                                                                         *)
(* As it stands the component throws when it is rendered: it uses two      *)
(* stores (lines 70, 71) and VersionHistoryPanel (289) without importing   *)
(* them.  What is modelled is its state and handlers with these imports.   *)
(***************************************************************************)
CONSTANTS
  Target,
  UpgradeNetwork,
  UpgradeCall   \* calls that may be under way at once

VARIABLES
  target,        \* wasmHash and funcName
  upgradeStatus,
  upgradeCalls,
  chosenNetwork, \* the active network
  simulated,     \* history: what the last successful simulation was of
  stray,         \* history: status was set by a call begun before the last reset
  moved          \* history: the network was switched since the last reset

upgradeVars ==
  <<target, upgradeStatus, upgradeCalls, chosenNetwork, simulated, stray, moved>>

Subjects == [target : Target, network : UpgradeNetwork]
Subject == [target |-> target, network |-> chosenNetwork]

(* of: what the call sends; stray: the form was reset since it began. *)
NoUpgradeCall == [op |-> "none"]
UpgradeCalls == {NoUpgradeCall} \cup
  [op : {"simulate", "upgrade"}, of : Subjects, stray : BOOLEAN]

UpgradeInit ==
  /\ target \in Target /\ chosenNetwork \in UpgradeNetwork
  /\ upgradeStatus = "idle" /\ simulated = {}
  /\ upgradeCalls = [c \in UpgradeCall |-> NoUpgradeCall]
  /\ stray = FALSE /\ moved = FALSE

Sends(c, op) ==
  /\ upgradeCalls[c] = NoUpgradeCall
  /\ upgradeCalls' = [upgradeCalls EXCEPT ![c] = [op |-> op, of |-> Subject, stray |-> FALSE]]
Returns(c) == upgradeCalls' = [upgradeCalls EXCEPT ![c] = NoUpgradeCall]
UpgradeUnderWay(c, op) == upgradeCalls[c].op = op

(* Mutants: the calls are not told apart; the status survives an edit. *)
ResetStateBlind(remaining) ==
  /\ upgradeStatus' = "idle" /\ upgradeCalls' = remaining
  /\ stray' = FALSE /\ moved' = FALSE
ResetStateLate(remaining) ==
  /\ UNCHANGED upgradeStatus
  /\ upgradeCalls' = [c \in UpgradeCall |->
       IF remaining[c] = NoUpgradeCall THEN NoUpgradeCall
       ELSE [remaining[c] EXCEPT !.stray = TRUE]]
  /\ stray' = FALSE /\ moved' = FALSE

(* resetState, with the calls that remain under way. *)
ResetState(remaining) ==
  /\ upgradeStatus' = "idle"
  /\ upgradeCalls' = [c \in UpgradeCall |->
       IF remaining[c] = NoUpgradeCall THEN NoUpgradeCall
       ELSE [remaining[c] EXCEPT !.stray = TRUE]]
  /\ stray' = FALSE /\ moved' = FALSE

(* setStatus by a call that has been answered. *)
SetStatus(c, status) ==
  /\ upgradeStatus' = status
  /\ stray' = (stray \/ upgradeCalls[c].stray)
  /\ UNCHANGED moved

-----------------------------------------------------------------------------
(* The hash or the function is edited, a rollback target is taken, or the  *)
(* dialog is closed: the same reset.                                       *)
EditOrClose(t) ==
  /\ target' = t
  /\ ResetState(upgradeCalls)
  /\ UNCHANGED <<chosenNetwork, simulated>>

Simulate(c) ==
  /\ upgradeStatus = "idle"
  /\ Sends(c, "simulate") /\ upgradeStatus' = "simulating"
  /\ UNCHANGED <<target, chosenNetwork, simulated, stray, moved>>

SimulationSucceeds(c) ==
  /\ UpgradeUnderWay(c, "simulate")
  /\ simulated' = {upgradeCalls[c].of}
  /\ SetStatus(c, "ready") /\ Returns(c)
  /\ UNCHANGED <<target, chosenNetwork>>

SimulationFails(c) ==
  /\ UpgradeUnderWay(c, "simulate")
  /\ SetStatus(c, "idle") /\ Returns(c)
  /\ UNCHANGED <<target, chosenNetwork, simulated>>

(* Mutant: the button is not disabled during the submission. *)
UpgradeAgain(c) ==
  /\ upgradeStatus \in {"ready", "submitting"}
  /\ Sends(c, "upgrade") /\ upgradeStatus' = "submitting"
  /\ UNCHANGED <<target, chosenNetwork, simulated, stray, moved>>

(* handleUpgrade, with the network of now.  The confirmation of breaking   *)
(* changes is never asked for, as the proposed functions are a copy of the *)
(* present ones.                                                           *)
Upgrade(c) ==
  /\ upgradeStatus = "ready"
  /\ Sends(c, "upgrade") /\ upgradeStatus' = "submitting"
  /\ UNCHANGED <<target, chosenNetwork, simulated, stray, moved>>

(* Accepted: the dialog closes.  Nothing waits for the transaction.        *)
UpgradeSucceeds(c) ==
  /\ UpgradeUnderWay(c, "upgrade")
  /\ ResetState([upgradeCalls EXCEPT ![c] = NoUpgradeCall])
  /\ UNCHANGED <<target, chosenNetwork, simulated>>

UpgradeFails(c) ==
  /\ UpgradeUnderWay(c, "upgrade")
  /\ SetStatus(c, "ready") /\ Returns(c)
  /\ UNCHANGED <<target, chosenNetwork, simulated>>

ChooseNetwork(n) ==
  /\ n # chosenNetwork /\ chosenNetwork' = n /\ moved' = TRUE
  /\ UNCHANGED <<target, upgradeStatus, upgradeCalls, simulated, stray>>

UpgradeNext ==
  \/ \E t \in Target : EditOrClose(t)
  \/ \E n \in UpgradeNetwork : ChooseNetwork(n)
  \/ \E c \in UpgradeCall :
       \/ Simulate(c) \/ SimulationSucceeds(c) \/ SimulationFails(c)
       \/ Upgrade(c) \/ UpgradeSucceeds(c) \/ UpgradeFails(c)

UpgradeSpec == UpgradeInit /\ [][UpgradeNext]_upgradeVars

-----------------------------------------------------------------------------
(* The dialog and its calls have their types; a call that is not stray     *)
(* sends what the form holds.                                              *)
UpgradeTypeOK ==
  /\ target \in Target /\ chosenNetwork \in UpgradeNetwork
  /\ upgradeStatus \in {"idle", "simulating", "ready", "submitting"}
  /\ upgradeCalls \in [UpgradeCall -> UpgradeCalls]
  /\ \A c \in UpgradeCall :
       upgradeCalls[c] # NoUpgradeCall /\ ~ upgradeCalls[c].stray =>
         upgradeCalls[c].of.target = target
  /\ simulated \subseteq Subjects
  /\ stray \in BOOLEAN /\ moved \in BOOLEAN

(* What may be confirmed, or is being submitted, was simulated with        *)
(* success: this hash and function, on this network.  The exceptions: a    *)
(* call that had begun before the form was reset has set the status, or    *)
(* the network was switched in between.                                    *)
ReadyWasSimulated ==
  upgradeStatus \in {"ready", "submitting"} /\ ~ stray /\ ~ moved => Subject \in simulated

(* There is one call of the present form at a time, and the status says    *)
(* which: an upgrade is not submitted twice, unless a stray call has set   *)
(* the status.                                                             *)
OneCallUnlessStray ==
  ~ stray =>
    /\ \A c, d \in UpgradeCall :
         upgradeCalls[c] # NoUpgradeCall /\ upgradeCalls[d] # NoUpgradeCall
           /\ ~ upgradeCalls[c].stray /\ ~ upgradeCalls[d].stray => c = d
    /\ \A c \in UpgradeCall :
         upgradeCalls[c] # NoUpgradeCall /\ ~ upgradeCalls[c].stray =>
           upgradeStatus = IF UpgradeUnderWay(c, "upgrade") THEN "submitting" ELSE "simulating"

(* Together: the dialog is ready only for the upgrade it has simulated,    *)
(* and runs one call at a time, but for the strays of a dialog closed      *)
(* before.                                                                 *)
UpgradeInv ==
  /\ UpgradeTypeOK /\ ReadyWasSimulated /\ OneCallUnlessStray
=============================================================================
