----------------------------- MODULE AccountPage -----------------------------
(***************************************************************************)
(* The account dashboard (app/account/page.tsx) and its funding button     *)
(* (components/fund-account-button.tsx).                                   *)
(*                                                                         *)
(* The dashboard fetches the account of the wallet whenever the wallet or  *)
(* the network changes; nothing tells a late answer from a new one.  The   *)
(* button asks a faucet and then polls the balance at an interval that     *)
(* does not wait for answers; each mount of it is an instance.  Its dialog *)
(* stays open when it is confirmed, so it can be confirmed again, and the  *)
(* fundings of a mount share one reference to an interval, pollRef.        *)
(***************************************************************************)
EXTENDS Naturals, FiniteSets

CONSTANTS
  Wallet,     \* addresses
  AccNetwork,
  NoAccountYet,
  AccFetch,   \* fetches of the accountData
  Button,     \* mounts of the funding button
  Funding,    \* confirmations of its dialog
  NoFunding,  \* no interval is referred to
  Nobody,     \* the mount of a funding that has not been confirmed
  PollMax,    \* POLL_MAX_ATTEMPTS
  MaxFlying   \* bound on the unanswered polls of a funding

ASSUME AccountAssumption ==
  /\ NoAccountYet \notin Wallet /\ NoFunding \notin Funding /\ Nobody \notin Button
  /\ PollMax \in Nat \ {0} /\ MaxFlying \in Nat \ {0}

VARIABLES
  accWallet, accNetwork,
  accountData, accLoading,
  accFetches, \* the fetches under way: whose accountData, on which network
  fetchesOverlapped, \* history: one of them began while another was under way
  buttons, fundings

fetchVars == <<accWallet, accNetwork, accountData, accLoading, accFetches, fetchesOverlapped>>
fundVars == <<buttons, fundings>>
accountVars == <<fetchVars, fundVars>>

NoAccountData == [address |-> NoAccountYet]
AccountOf(a, n) == [address |-> a, network |-> n]

(* A mount of the button, and the interval that pollRef refers to. *)
NewButton == [at |-> "unused", dialog |-> FALSE, isLoading |-> FALSE, isPolling |-> FALSE,
              pollRef |-> NoFunding]

(* A funding: the mount it was confirmed at, what it is at, the polls it   *)
(* has made and those unanswered, and what it has told the user.  History: *)
(* its mount was left while the faucet was asked; pollRef was overwritten  *)
(* while it polled; a poll of another funding ended its polling.           *)
NoRequest == [of |-> Nobody, phase |-> "unused", attempts |-> 0, flying |-> 0, said |-> {},
              leftEarly |-> FALSE, lost |-> FALSE, cutOff |-> FALSE]
Confirmed(b) == [NoRequest EXCEPT !.of = b, !.phase = "requesting"]

AccountInit ==
  /\ accWallet = NoAccountYet /\ accNetwork \in AccNetwork
  /\ accountData = NoAccountData /\ accLoading = FALSE
  /\ accFetches = [f \in AccFetch |-> NoAccountData] /\ fetchesOverlapped = FALSE
  /\ buttons = [b \in Button |-> NewButton] /\ fundings = [f \in Funding |-> NoRequest]

-----------------------------------------------------------------------------
NoFetch(f) == accFetches[f] = NoAccountData

(* Mutant: the page does not say that it is loading. *)
ShowsNoLoading == UNCHANGED accLoading
ShowsLoading == accLoading' = TRUE

(* fetchAccountData up to its await. *)
BeginsFetch(f, a, n) ==
  /\ NoFetch(f) /\ accFetches' = [accFetches EXCEPT ![f] = AccountOf(a, n)]
  /\ fetchesOverlapped' = \E g \in AccFetch : ~ NoFetch(g)
  /\ ShowsLoading

(* The effect of the page runs when the wallet or the network changes; a   *)
(* page without a wallet shows only that.                                  *)
SwitchWallet(f, a) ==
  /\ a # accWallet /\ accWallet' = a
  /\ IF a = NoAccountYet THEN UNCHANGED <<accFetches, fetchesOverlapped, accLoading>>
     ELSE BeginsFetch(f, a, accNetwork)
  /\ UNCHANGED <<accNetwork, accountData, fundVars>>
SwitchAccNetwork(f, n) ==
  /\ n # accNetwork /\ accNetwork' = n
  /\ IF accWallet = NoAccountYet THEN UNCHANGED <<accFetches, fetchesOverlapped, accLoading>>
     ELSE BeginsFetch(f, accWallet, n)
  /\ UNCHANGED <<accWallet, accountData, fundVars>>

(* The button is disabled while the page is loading. *)
RefreshAccount(f) ==
  /\ accWallet # NoAccountYet /\ ~ accLoading
  /\ BeginsFetch(f, accWallet, accNetwork)
  /\ UNCHANGED <<accWallet, accNetwork, accountData, fundVars>>

(* Mutant: only an account that is found ends the loading.                 *)
AnsweredIfFound(f, found) ==
  /\ ~ NoFetch(f) /\ accFetches' = [accFetches EXCEPT ![f] = NoAccountData]
  /\ accountData' = IF found THEN accFetches[f] ELSE NoAccountData
  /\ accLoading' = (accLoading /\ ~ found)
  /\ UNCHANGED <<accWallet, accNetwork, fetchesOverlapped, fundVars>>

(* What follows the await, an error included.                              *)
AccountAnswered(f, found) ==
  /\ ~ NoFetch(f) /\ accFetches' = [accFetches EXCEPT ![f] = NoAccountData]
  /\ accountData' = IF found THEN accFetches[f] ELSE NoAccountData
  /\ accLoading' = FALSE
  /\ UNCHANGED <<accWallet, accNetwork, fetchesOverlapped, fundVars>>

-----------------------------------------------------------------------------
(* Mutants: the count is tested one poll early, or not at all.             *)
ExhaustedEarly(n) == n + 1 >= PollMax
NeverExhausted(n) == FALSE
Exhausted(n) == n >= PollMax

Mounted(b) == buttons[b].at = "mounted"
IntervalRuns(f) == fundings[f].phase = "polling"
Watched(b, f) == buttons[b].pollRef = f /\ IntervalRuns(f)

MountButton(b) ==
  /\ buttons[b].at = "unused" /\ \A c \in Button : ~ Mounted(c)
  /\ buttons' = [buttons EXCEPT ![b].at = "mounted"]
  /\ UNCHANGED <<fetchVars, fundings>>

AskedAtLeaving(b, f) == fundings[f].of = b /\ fundings[f].phase = "requesting"

(* Mutant: no cleanup. *)
StillRuns(b, f) == [fundings[f] EXCEPT !.leftEarly = @ \/ AskedAtLeaving(b, f)]

(* The cleanup clears the interval that pollRef refers to. *)
AfterLeaving(b, f) ==
  LET r == fundings[f] IN
  [r EXCEPT !.leftEarly = r.leftEarly \/ AskedAtLeaving(b, f),
            !.phase = IF Watched(b, f) THEN "over" ELSE r.phase]

UnmountButton(b) ==
  /\ Mounted(b) /\ buttons' = [buttons EXCEPT ![b] = [NewButton EXCEPT !.at = "left",
                                                                    !.pollRef = buttons[b].pollRef]]
  /\ fundings' = [f \in Funding |-> AfterLeaving(b, f)]
  /\ UNCHANGED fetchVars

(* Only the button that opens the dialog is ever disabled. *)
OpenDialog(b) ==
  /\ Mounted(b) /\ ~ buttons[b].isLoading /\ ~ buttons[b].isPolling
  /\ buttons' = [buttons EXCEPT ![b].dialog = TRUE]
  /\ UNCHANGED <<fetchVars, fundings>>
CloseDialog(b) ==
  /\ buttons[b].dialog /\ buttons' = [buttons EXCEPT ![b].dialog = FALSE]
  /\ UNCHANGED <<fetchVars, fundings>>

(* handleFund, at a confirmation. *)
FundAccount(b, f) ==
  /\ buttons[b].dialog /\ fundings[f] = NoRequest
  /\ buttons' = [buttons EXCEPT ![b].isLoading = TRUE]
  /\ fundings' = [fundings EXCEPT ![f] = Confirmed(b)]
  /\ UNCHANGED fetchVars

(* Mutant: the reference is set only where there is none. *)
RefersToFirst(b, f) == IF buttons[b].pollRef = NoFunding THEN f ELSE buttons[b].pollRef
RefersTo(b, f) == f

(* pollBalance begins an interval; a state set after the unmount is lost.  *)
FundAccepted(b, f) ==
  /\ fundings[f].of = b /\ fundings[f].phase = "requesting"
  /\ buttons' = [buttons EXCEPT ![b].isLoading = FALSE, ![b].isPolling = Mounted(b),
                                ![b].pollRef = RefersTo(b, f)]
  /\ fundings' = [g \in Funding |->
       IF g = f THEN [fundings[g] EXCEPT !.phase = "polling"]
       ELSE [fundings[g] EXCEPT !.lost = @ \/ Watched(b, g)]]
  /\ UNCHANGED fetchVars
FundRejected(b, f) ==
  /\ fundings[f].of = b /\ fundings[f].phase = "requesting"
  /\ buttons' = [buttons EXCEPT ![b].isLoading = FALSE]
  /\ fundings' = [fundings EXCEPT ![f].phase = "over", ![f].said = {"refused"}]
  /\ UNCHANGED fetchVars

(* The interval fires, whether the poll before is answered or not. *)
PollBalance(f) ==
  /\ IntervalRuns(f) /\ fundings[f].flying < MaxFlying
  /\ fundings' = [fundings EXCEPT ![f].flying = @ + 1,
                                  ![f].attempts = IF @ < PollMax THEN @ + 1 ELSE @]
  /\ UNCHANGED <<fetchVars, buttons>>

(* What follows the await of a poll: the balance is there or not; then,    *)
(* either way, the polls of its funding are counted.  Both clear the       *)
(* interval that pollRef refers to, be it that of the poll or not.         *)
TellsOf(f, funded) ==
  (IF funded THEN {"funded"} ELSE {}) \cup
  (IF Exhausted(fundings[f].attempts) THEN {"timedOut"} ELSE {})

FundingTold(b, f, tells, g) ==
  LET r == fundings[g]
      ends == tells # {} /\ Watched(b, g) IN
  [r EXCEPT !.phase = IF ends THEN "over" ELSE r.phase,
            !.flying = IF g = f THEN r.flying - 1 ELSE r.flying,
            !.said = IF g = f THEN r.said \cup tells ELSE r.said,
            !.cutOff = r.cutOff \/ (ends /\ g # f)]

BalanceTold(b, f, funded) ==
  /\ fundings[f].of = b /\ fundings[f].flying > 0
  /\ fundings' = [g \in Funding |-> FundingTold(b, f, TellsOf(f, funded), g)]
  /\ buttons' = [buttons EXCEPT ![b].isPolling = @ /\ TellsOf(f, funded) = {}]
  /\ UNCHANGED fetchVars

(* Two seconds after a success: the page is loaded anew. *)
FundedReload ==
  /\ \E f \in Funding : "funded" \in fundings[f].said
  /\ buttons' = [b \in Button |-> NewButton] /\ fundings' = [f \in Funding |-> NoRequest]
  /\ accountData' = NoAccountData /\ accLoading' = FALSE
  /\ accWallet' = NoAccountYet
  /\ accFetches' = [f \in AccFetch |-> NoAccountData] /\ fetchesOverlapped' = FALSE
  /\ UNCHANGED accNetwork

FetchNext ==
  \E f \in AccFetch :
    \/ \E a \in Wallet \cup {NoAccountYet} : SwitchWallet(f, a)
    \/ \E n \in AccNetwork : SwitchAccNetwork(f, n)
    \/ RefreshAccount(f)
    \/ \E found \in BOOLEAN : AccountAnswered(f, found)
FundNext ==
  \/ \E b \in Button :
       \/ MountButton(b) \/ UnmountButton(b) \/ OpenDialog(b) \/ CloseDialog(b)
       \/ \E f \in Funding :
            \/ FundAccount(b, f) \/ FundAccepted(b, f) \/ FundRejected(b, f)
            \/ \E funded \in BOOLEAN : BalanceTold(b, f, funded)
  \/ \E f \in Funding : PollBalance(f)
  \/ FundedReload
AccountNext == FetchNext \/ FundNext

AccountSpec == AccountInit /\ [][AccountNext]_accountVars

(* The browser fires the interval and ends every request.                  *)
FundFairness ==
  \A f \in Funding :
    /\ WF_accountVars(PollBalance(f))
    /\ WF_accountVars(\E b \in Button, funded \in BOOLEAN : BalanceTold(b, f, funded))

AccountFairSpec == AccountSpec /\ FundFairness

-----------------------------------------------------------------------------
(* The page and the buttons have their types; at most one is mounted, and  *)
(* a page that is loading has an answer to wait for.                       *)
AccountTypeOK ==
  /\ accWallet \in Wallet \cup {NoAccountYet} /\ accNetwork \in AccNetwork
  /\ accLoading \in BOOLEAN /\ fetchesOverlapped \in BOOLEAN
  /\ accountData \in {NoAccountData} \cup [address : Wallet, network : AccNetwork]
  /\ accFetches \in [AccFetch -> {NoAccountData} \cup [address : Wallet, network : AccNetwork]]
  /\ buttons \in [Button ->
       [at : {"unused", "mounted", "left"}, dialog : BOOLEAN, isLoading : BOOLEAN,
        isPolling : BOOLEAN, pollRef : Funding \cup {NoFunding}]]
  /\ fundings \in [Funding ->
       [of : Button \cup {Nobody}, phase : {"unused", "requesting", "polling", "over"},
        attempts : 0 .. PollMax, flying : 0 .. MaxFlying,
        said : SUBSET {"refused", "funded", "timedOut"},
        leftEarly : BOOLEAN, lost : BOOLEAN, cutOff : BOOLEAN]]
  /\ Cardinality({b \in Button : Mounted(b)}) <= 1
  /\ accLoading => \E f \in AccFetch : ~ NoFetch(f)

(* A page that is not loading shows the account of the wallet on the       *)
(* network, or none, unless the newest fetch began while an older one was  *)
(* under way.                                                              *)
AccountIsCurrentUnlessRaced ==
  accWallet # NoAccountYet /\ ~ accLoading /\ ~ fetchesOverlapped /\ accountData # NoAccountData =>
    accountData = AccountOf(accWallet, accNetwork)

(* Nobody polls for a mount that has been left, unless it was left while   *)
(* the faucet was being asked, so that the interval began after the        *)
(* cleanup, or another funding was accepted while it polled, so that its   *)
(* interval can no longer be cleared.                                      *)
NoPollAfterLeaving ==
  \A f \in Funding, b \in Button : IntervalRuns(f) /\ fundings[f].of = b =>
    Mounted(b) \/ fundings[f].leftEarly \/ fundings[f].lost

(* A funding is over at a mount that is still there only when it has told  *)
(* the user why, unless a poll of another one ended its polling; and it    *)
(* tells of a time-out only after its last poll.                           *)
EndsWithAVerdict ==
  \A f \in Funding :
    /\ \A b \in Button : fundings[f].phase = "over" /\ fundings[f].of = b /\ Mounted(b) =>
         fundings[f].said # {} \/ fundings[f].cutOff
    /\ "timedOut" \in fundings[f].said => fundings[f].attempts = PollMax

(* Together: the account shown is the current one, nobody polls for a page *)
(* that was left, and the user hears of the end, but for the cases named.  *)
AccountInv ==
  /\ AccountTypeOK /\ AccountIsCurrentUnlessRaced /\ NoPollAfterLeaving
  /\ EndsWithAVerdict

(* Every polling ends, also one that nobody watches, unless another        *)
(* funding was accepted while it went on: that one goes on for ever.       *)
EveryPollingEnds ==
  \A f \in Funding : IntervalRuns(f) ~> (~ IntervalRuns(f) \/ fundings[f].lost)
=============================================================================
