----------------------------- MODULE ContractPage -----------------------------
(***************************************************************************)
(* The page of a contract (app/contracts/[contractId]/page.tsx) with its   *)
(* token dashboard (components/token-dashboard.tsx), for one contract.     *)
(*                                                                         *)
(* The overview is loaded for the workspace that is active, and loaded     *)
(* anew when that changes, but not when the network does.  The dashboard   *)
(* asks what the token is when it is mounted, and a balance at a click.    *)
(* Anything may be answered late; what an answer shows is what it was      *)
(* asked of: a network, and for a balance an address.                      *)
(*                                                                         *)
(* The page renders components that are no programs as they stand          *)
(* (contract-call-form.tsx, contract-events.tsx, and the upgrade dialog);  *)
(* its own handlers are modelled as they would run beside working ones.    *)
(***************************************************************************)
EXTENDS Naturals

CONSTANTS
  PageNetwork,
  PageWorkspace,
  Load,     \* loads of the overview
  Address,  \* what may stand in the address field
  Decimals, \* the decimals of the token on each network
  Nowhere

ASSUME PageAssumption ==
  Nowhere \notin PageNetwork \cup PageWorkspace \cup Address /\ Decimals \in [PageNetwork -> Nat]

VARIABLES
  pageNetwork, activeWorkspace,
  overview, contractLoading,
  loads,      \* the loads under way
  holders,    \* the workspaces the contract has been added to
  checkAddress,
  metadata,   \* the network whose token the dashboard describes
  balance, detecting, checking,
  switchedPage,   \* history: the network was switched since the dashboard was mounted
  typed       \* history: the address was edited since the newest check began

overviewVars == <<overview, contractLoading, loads, holders>>
tokenVars == <<checkAddress, metadata, balance, detecting, checking, switchedPage, typed>>
contractVars == <<pageNetwork, activeWorkspace, overviewVars, tokenVars>>

NoLoad == [of |-> Nowhere, workspace |-> Nowhere, cancelled |-> FALSE]
Begun(n, w) == [of |-> n, workspace |-> w, cancelled |-> FALSE]
NoOverview == [of |-> Nowhere, exists |-> FALSE]
NoBalance == [of |-> Nowhere, address |-> Nowhere, scale |-> Nowhere]

ContractInit ==
  /\ pageNetwork \in PageNetwork /\ activeWorkspace \in PageWorkspace
  /\ overview = NoOverview /\ contractLoading = TRUE
  /\ \E l \in Load : loads = [k \in Load |-> IF k = l THEN Begun(pageNetwork, activeWorkspace)
                                             ELSE NoLoad]
  /\ holders = {}
  /\ checkAddress = Nowhere /\ metadata = Nowhere /\ balance = NoBalance
  /\ detecting = pageNetwork /\ checking = NoBalance
  /\ switchedPage = FALSE /\ typed = FALSE

-----------------------------------------------------------------------------
SwitchPageNetwork(n) ==
  /\ n # pageNetwork /\ pageNetwork' = n /\ switchedPage' = TRUE
  /\ UNCHANGED <<activeWorkspace, overviewVars, checkAddress, metadata, balance,
                 detecting, checking, typed>>

(* Mutant: the effect has no cleanup. *)
GoesOn(x) == x
Cancelled(x) == IF x = NoLoad THEN x ELSE [x EXCEPT !.cancelled = TRUE]

(* The effect of the page, run again, with the cleanup of the former one.  *)
SwitchWorkspace(w, l) ==
  /\ w # activeWorkspace /\ activeWorkspace' = w
  /\ loads[l] = NoLoad
  /\ loads' = [k \in Load |-> IF k = l THEN Begun(pageNetwork, w) ELSE Cancelled(loads[k])]
  /\ contractLoading' = TRUE
  /\ UNCHANGED <<pageNetwork, overview, holders, tokenVars>>

(* loadOverview after its await: the contract is on the network or not.    *)
OverviewAnswered(l, exists) ==
  /\ loads[l] # NoLoad /\ loads' = [loads EXCEPT ![l] = NoLoad]
  /\ IF loads[l].cancelled THEN UNCHANGED <<overview, contractLoading, holders>>
     ELSE /\ overview' = [of |-> loads[l].of, exists |-> exists]
          /\ contractLoading' = FALSE
          /\ holders' = IF exists THEN holders \cup {loads[l].workspace} ELSE holders
  /\ UNCHANGED <<pageNetwork, activeWorkspace, tokenVars>>

-----------------------------------------------------------------------------
(* detectToken; without an answer the dashboard stays away. *)
Detected ==
  /\ detecting # Nowhere /\ detecting' = Nowhere /\ metadata' = detecting
  /\ UNCHANGED <<pageNetwork, activeWorkspace, overviewVars, checkAddress, balance,
                 checking, switchedPage, typed>>
NotDetected ==
  /\ detecting # Nowhere /\ detecting' = Nowhere
  /\ UNCHANGED <<pageNetwork, activeWorkspace, overviewVars, checkAddress, metadata,
                 balance, checking, switchedPage, typed>>

(* Mutant: the answer of a check comes to the new dashboard. *)
RemountKeepsCheck ==
  /\ detecting' = pageNetwork /\ metadata' = Nowhere
  /\ checkAddress' = Nowhere /\ balance' = NoBalance
  /\ switchedPage' = FALSE /\ typed' = FALSE
  /\ UNCHANGED <<pageNetwork, activeWorkspace, overviewVars, checking>>

(* Another tab of the page and back: the dashboard is mounted anew, and    *)
(* what its former self still waits for is lost.                           *)
RemountDashboard ==
  /\ detecting' = pageNetwork /\ metadata' = Nowhere
  /\ checkAddress' = Nowhere /\ balance' = NoBalance /\ checking' = NoBalance
  /\ switchedPage' = FALSE /\ typed' = FALSE
  /\ UNCHANGED <<pageNetwork, activeWorkspace, overviewVars>>

TypeAddress(a) ==
  /\ metadata # Nowhere /\ a # checkAddress
  /\ checkAddress' = a /\ typed' = TRUE
  /\ UNCHANGED <<pageNetwork, activeWorkspace, overviewVars, metadata, balance,
                 detecting, checking, switchedPage>>

(* Mutant: the balance shown stays until another comes. *)
KeptBalance == balance
ClearedBalance == NoBalance

(* Mutant: the scale of the native token is taken for every other. *)
ScaledByDefault(n) == 7

(* metadata?.decimals || 7: a token without decimals is scaled by seven.   *)
ScaleOf(n) == IF Decimals[n] = 0 THEN 7 ELSE Decimals[n]

(* handleCheckBalance, and what follows its await; the button is disabled  *)
(* meanwhile.  The metadata are those the dashboard has at the click.      *)
CheckBalance ==
  /\ metadata # Nowhere /\ checking = NoBalance /\ checkAddress # Nowhere
  /\ checking' = [of |-> pageNetwork, address |-> checkAddress, scale |-> ScaleOf(metadata)]
  /\ balance' = ClearedBalance /\ typed' = FALSE
  /\ UNCHANGED <<pageNetwork, activeWorkspace, overviewVars, checkAddress, metadata,
                 detecting, switchedPage>>
BalanceAnswered ==
  /\ checking # NoBalance /\ balance' = checking /\ checking' = NoBalance
  /\ UNCHANGED <<pageNetwork, activeWorkspace, overviewVars, checkAddress, metadata,
                 detecting, switchedPage, typed>>
BalanceFails ==
  /\ checking # NoBalance /\ checking' = NoBalance
  /\ UNCHANGED <<pageNetwork, activeWorkspace, overviewVars, checkAddress, metadata,
                 balance, detecting, switchedPage, typed>>

OverviewNext ==
  \/ \E w \in PageWorkspace, l \in Load : SwitchWorkspace(w, l)
  \/ \E l \in Load, exists \in BOOLEAN : OverviewAnswered(l, exists)
TokenNext ==
  \/ Detected \/ NotDetected \/ RemountDashboard
  \/ \E a \in Address : TypeAddress(a)
  \/ CheckBalance \/ BalanceAnswered \/ BalanceFails
PageSwitches == \E n \in PageNetwork : SwitchPageNetwork(n)
ContractNext == PageSwitches \/ OverviewNext \/ TokenNext

ContractSpec == ContractInit /\ [][ContractNext]_contractVars

-----------------------------------------------------------------------------
(* The page has its types; there is a balance only of a token it knows.    *)
PageTypeOK ==
  /\ pageNetwork \in PageNetwork /\ activeWorkspace \in PageWorkspace
  /\ overview \in [of : PageNetwork \cup {Nowhere}, exists : BOOLEAN]
  /\ contractLoading \in BOOLEAN /\ holders \subseteq PageWorkspace
  /\ loads \in [Load -> [of : PageNetwork, workspace : PageWorkspace,
                         cancelled : BOOLEAN] \cup {NoLoad}]
  /\ checkAddress \in Address \cup {Nowhere}
  /\ metadata \in PageNetwork \cup {Nowhere} /\ detecting \in PageNetwork \cup {Nowhere}
  /\ {balance, checking} \subseteq
       [of : PageNetwork, address : Address, scale : Nat] \cup {NoBalance}
  /\ metadata = Nowhere => balance = NoBalance /\ checking = NoBalance
  /\ switchedPage \in BOOLEAN /\ typed \in BOOLEAN

(* The page shows that it is loading exactly while a load that has not     *)
(* been cancelled is under way, and that is one for the active workspace.  *)
LoadingIsTrue ==
  /\ contractLoading <=> \E l \in Load : loads[l] # NoLoad /\ ~ loads[l].cancelled
  /\ \A l \in Load : loads[l] # NoLoad /\ ~ loads[l].cancelled =>
       loads[l].workspace = activeWorkspace

(* An answer never adds the contract to a workspace the user has left.     *)
JoinsOnlyTheActive == [][holders' \subseteq holders \cup {activeWorkspace}]_contractVars

(* A balance is that of the address in the field, on the network of the    *)
(* page, and is scaled by the decimals of the token there, unless the      *)
(* address was edited or the network was switched since, or that token     *)
(* has no decimals.                                                        *)
BalanceIsTrueUnlessMoved ==
  balance # NoBalance =>
    /\ ~ typed => balance.address = checkAddress
    /\ ~ switchedPage =>
         /\ balance.of = pageNetwork
         /\ Decimals[pageNetwork] = 0 \/ balance.scale = Decimals[pageNetwork]

(* Together: the page says truly that it loads, and shows the balance of   *)
(* the address and network it names, but for the cases named.              *)
PageInv ==
  /\ PageTypeOK /\ LoadingIsTrue /\ BalanceIsTrueUnlessMoved
=============================================================================
