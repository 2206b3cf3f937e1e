------------------------------- MODULE MCBrowser -------------------------------
(***************************************************************************)
(* The smaller components of apps/web in one run.  They share no state, so *)
(* a behaviour is one of a single part, and the others stay where they     *)
(* begin.  Networks are alike, so that one may begin for all.              *)
(* The two halves of a contract's page, and those of the account's, change *)
(* nothing of each other's, and are parts of their own.                    *)
(***************************************************************************)
EXTENDS TxWatch, WalletSession, ContractHistory, DeployWizard, ContractUpgrade,
        UploadForm, TransactionFeed, Playground, StorageKeys, ContractPage,
        AccountPage

CONSTANTS b1, b3, n1
VARIABLE part

parts == <<vars, walletVars, historyVars, wizardVars, upgradeVars, uploadVars,
           feedVars, playVars, storageVars, contractVars, accountVars>>

(* The first network allows less than the default limit and the other.     *)
Small == [l \in UploadNetwork \cup {DefaultLimit} |-> IF l = n1 THEN {b1, b3} ELSE Binary]

BrowserInit ==
  /\ part \in {"watch", "wallet", "history", "wizard", "upgrade", "upload",
               "feed", "playground", "storage", "contract", "token", "account",
               "funding"}
  /\ Init /\ WalletInit /\ HistoryInit /\ WizardInit /\ UpgradeInit /\ UploadInit
  /\ FeedInit /\ PlayInit /\ StorageInit /\ ContractInit /\ AccountInit
  /\ network = CHOOSE n \in Network : TRUE
  /\ wizardNetwork = CHOOSE n \in WizardNetwork : TRUE
  /\ target = CHOOSE t \in Target : TRUE
  /\ chosenNetwork = CHOOSE n \in UpgradeNetwork : TRUE
  /\ uploadNetwork = CHOOSE n \in UploadNetwork : TRUE
  /\ keyNetwork = CHOOSE n \in StorageNetwork : TRUE
  /\ pageNetwork = CHOOSE n \in PageNetwork : TRUE
  /\ activeWorkspace = CHOOSE w \in PageWorkspace : TRUE
  /\ loads[CHOOSE l \in Load : TRUE] # NoLoad
  /\ accNetwork = CHOOSE n \in AccNetwork : TRUE
  /\ part # "feed" => feedNetwork = CHOOSE n \in FeedNetwork : TRUE

BrowserNext ==
  /\ UNCHANGED part
  /\ IF part = "watch" THEN Next ELSE UNCHANGED vars
  /\ IF part = "wallet" THEN WalletNext ELSE UNCHANGED walletVars
  /\ IF part = "history" THEN HistoryNext ELSE UNCHANGED historyVars
  /\ IF part = "wizard" THEN WizardNext ELSE UNCHANGED wizardVars
  /\ IF part = "upgrade" THEN UpgradeNext ELSE UNCHANGED upgradeVars
  /\ IF part = "upload" THEN UploadNext ELSE UNCHANGED uploadVars
  /\ IF part = "feed" THEN FeedNext ELSE UNCHANGED feedVars
  /\ IF part = "playground" THEN PlayNext ELSE UNCHANGED playVars
  /\ IF part = "storage" THEN StorageNext ELSE UNCHANGED storageVars
  /\ CASE part = "contract" -> PageSwitches \/ OverviewNext
       [] part = "token" -> PageSwitches \/ TokenNext
       [] OTHER -> UNCHANGED contractVars
  /\ CASE part = "account" -> FetchNext
       [] part = "funding" -> FundNext
       [] OTHER -> UNCHANGED accountVars

(* Where a part is not the one that runs, it stays at its beginning, where *)
(* nothing that must be fair is enabled.                                   *)
BrowserSpec ==
  BrowserInit /\ [][BrowserNext]_<<parts, part>>
    /\ Fairness /\ WalletFairness /\ FundFairness

(* On the first network the token has no decimals. *)
TokenDecimals == [n \in PageNetwork |-> IF n = n1 THEN 0 ELSE 2]

(* The list of contracts, a contract's page and its tabs: what they show   *)
(* is of the contracts, the workspace, the network and the input that are  *)
(* theirs.                                                                 *)
ContractsInv == HistoryInv /\ PageInv /\ PlayInv /\ StorageInv

(* The forms of the deployment pages: what they show, check and send is of *)
(* the file, the network and the step they are at.                         *)
FormsInv == WizardInv /\ UpgradeInv /\ UploadInv
=============================================================================
