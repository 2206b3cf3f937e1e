----------------------------- MODULE Deployments -----------------------------
(***************************************************************************)
(* Installing a binary and deploying contracts from it in apps/web: the    *)
(* handlers of app/deploy/wasm/page.tsx and of the instantiate wizard, the *)
(* transaction they wait for (orchestrateTx and the wizard's own loop),    *)
(* and what they write of it into the stores of binaries, contracts and    *)
(* deployment log.                                                         *)
(*                                                                         *)
(* A run is one call of handleInstall, handleDeploy or handleInstantiate;  *)
(* it goes on when its page is left, and a page that is mounted again      *)
(* knows nothing of it.  There is one binary; a contract is named by the   *)
(* run that deploys it.  Everything before the submission, where a failure *)
(* only ends the run, is the one step "preparing".                         *)
(***************************************************************************)
EXTENDS Naturals, Sequences

CONSTANTS
  Run,
  DeployNetwork,
  NoDeployNetwork,
  MaxDeployPolls  \* maxPollAttempts, and the wizard's 10

ASSUME DeployAssumption ==
  NoDeployNetwork \notin DeployNetwork /\ MaxDeployPolls \in Nat \ {0}

VARIABLES
  runs,      \* runs[r]: the call r and its transaction
  wasms,     \* the entries of the binary, newest first: one for each network
  listed,    \* listed[r]: the network the contract of r is listed with
  verified,  \* contracts whose source was registered
  verifying, \* contracts whose source is being registered
  phase,     \* pipeline.phase
  reloaded,  \* history: the page was reloaded since phase was set
  lastLog,   \* history: the newest log entry, if it names another network than its run's
  activeNetwork

sources == <<verified, verifying>>
deployVars == <<runs, wasms, listed, sources, phase, reloaded, lastLog, activeNetwork>>

DeployNetworks == DeployNetwork \cup {NoDeployNetwork}
Runs == [kind : {"none", "install", "deploy", "wizard"},
         at : {"none", "preparing", "api", "direct", "publishing", "ended"},
         network : DeployNetworks, tx : {"unsent", "pending", "success", "failed"},
         polls : 0 .. MaxDeployPolls,
         mine : BOOLEAN,     \* begun by the page that is mounted
         switched : BOOLEAN] \* history: the network was switched since it began
NotBegun == [kind |-> "none", at |-> "none", network |-> NoDeployNetwork, tx |-> "unsent",
             polls |-> 0, mine |-> FALSE, switched |-> FALSE]
Entry == [network : DeployNetwork, pinned : BOOLEAN,
          provenance : [Run -> {"none", "inferred", "confirmed"}],
          on : [Run -> DeployNetworks],  \* network of the provenance node, if any
          deployed : SUBSET Run]  \* deployedContractId, if any

NewEntry(n) ==
  [network |-> n, pinned |-> FALSE, provenance |-> [r \in Run |-> "none"],
   on |-> [r \in Run |-> NoDeployNetwork], deployed |-> {}]
NotMisnamed == [status |-> "none", switched |-> FALSE]

(* The binary may have been installed in an earlier session. *)
DeployInit ==
  /\ runs = [r \in Run |-> NotBegun]
  /\ activeNetwork \in DeployNetwork
  /\ wasms \in {<<>>} \cup {<<NewEntry(n)>> : n \in DeployNetwork}
  /\ listed = [r \in Run |-> NoDeployNetwork] /\ verified = {} /\ verifying = {}
  /\ phase = "idle" /\ reloaded = FALSE
  /\ lastLog = NotMisnamed

AwaitsTx(r) == runs[r].at \in {"preparing", "api", "direct"}
Busy(kind) == \E r \in Run : runs[r].kind = kind /\ runs[r].mine /\ AwaitsTx(r)
Advance(p) == phase' = p /\ reloaded' = FALSE

Goes(r, at, tx, polls) ==
  runs' = [runs EXCEPT ![r].at = at, ![r].tx = tx, ![r].polls = polls]
(* A run ends; it is forgotten when no contract was recorded of it. *)
Forgotten == [NotBegun EXCEPT !.at = "ended"]
Kept(run) == [run EXCEPT !.at = "ended", !.polls = 0, !.mine = FALSE]
Stops(r, run) == runs' = [runs EXCEPT ![r] = run]

-----------------------------------------------------------------------------
(* The handlers begin: the network is read once, before the first await.   *)
(* The buttons are disabled while the page's own run is under way.         *)
Begin(r, kind) ==
  /\ runs[r].at = "none" /\ ~ Busy(kind)
  /\ runs' = [runs EXCEPT ![r] = [NotBegun EXCEPT
       !.kind = kind, !.at = "preparing", !.network = activeNetwork, !.mine = TRUE]]
  /\ UNCHANGED <<wasms, listed, sources, lastLog, activeNetwork>>

BeginInstall(r) == Begin(r, "install") /\ Advance("install")
BeginDeploy(r) ==
  \E kind \in {"deploy", "wizard"} :
    wasms # <<>> /\ Begin(r, kind) /\ UNCHANGED <<phase, reloaded>>

(* The transaction is signed and accepted. *)
Submit(r) ==
  /\ runs[r].at = "preparing"
  /\ Goes(r, IF runs[r].kind = "wizard" THEN "direct" ELSE "api", "pending", 0)
  /\ UNCHANGED <<wasms, listed, sources, phase, reloaded, lastLog, activeNetwork>>

(* The network decides; once nobody waits it is read by nobody. *)
Included(r) ==
  /\ runs[r].tx = "pending" /\ AwaitsTx(r)
  /\ \E tx \in {"success", "failed"} : runs' = [runs EXCEPT ![r].tx = tx]
  /\ UNCHANGED <<wasms, listed, sources, phase, reloaded, lastLog, activeNetwork>>

-----------------------------------------------------------------------------
(* What a run writes when it ends. *)

(* Mutant: another entry for the same network. *)
AddWasmAgain(n) == wasms' = <<NewEntry(n)>> \o wasms

(* addWasm: a binary that is installed on the network already keeps its    *)
(* entry.                                                                  *)
AddWasm(n) ==
  wasms' = IF \E i \in DOMAIN wasms : wasms[i].network = n THEN wasms
           ELSE <<NewEntry(n)>> \o wasms

(* Mutant: every node has the network of the entry getProvenance finds.    *)
AssociateFirst(r, relationship, pins) ==
  wasms' = [i \in DOMAIN wasms |->
              [wasms[i] EXCEPT !.provenance[r] = relationship, !.on[r] = Head(wasms).network,
                               !.deployed = {r}, !.pinned = @ \/ pins]]

(* associateContract and pinArtifact write to every entry of the binary,   *)
(* on whatever network: the node has the network of its entry.             *)
Associate(r, relationship, pins) ==
  wasms' = [i \in DOMAIN wasms |->
              [wasms[i] EXCEPT !.provenance[r] = relationship, !.on[r] = wasms[i].network,
                               !.deployed = {r}, !.pinned = @ \/ pins]]

ListContract(r) == listed' = [listed EXCEPT ![r] = runs[r].network]

(* Mutant: the log takes the network from the store in both branches. *)
LogOfNow(r, status, n) ==
  lastLog' = IF activeNetwork = runs[r].network THEN NotMisnamed
             ELSE [status |-> status, switched |-> runs[r].switched]
Log(r, status, n) ==
  lastLog' = IF n = runs[r].network THEN NotMisnamed
             ELSE [status |-> status, switched |-> runs[r].switched]

InstallSucceeds(r) ==
  /\ runs[r].kind = "install"
  /\ AddWasm(runs[r].network) /\ Advance("instantiate")
  /\ Stops(r, Forgotten)
  /\ UNCHANGED <<listed, sources, lastLog, activeNetwork>>

(* The contract id is read from the result, or else predicted. *)
DeploySucceeds(r) ==
  /\ runs[r].kind = "deploy"
  /\ \E relationship \in {"confirmed", "inferred"} : Associate(r, relationship, FALSE)
  /\ ListContract(r)
  /\ Advance("publish") /\ Log(r, "success", runs[r].network)
  /\ runs' = [runs EXCEPT ![r].at = "publishing", ![r].polls = 0, ![r].mine = FALSE]
  /\ UNCHANGED <<sources, activeNetwork>>

WizardRecords(r, relationship) ==
  /\ runs[r].kind = "wizard"
  /\ Associate(r, relationship, TRUE) /\ ListContract(r)
  /\ Stops(r, Kept(runs[r]))
  /\ UNCHANGED <<sources, phase, reloaded, lastLog, activeNetwork>>

Succeeds(r) ==
  \/ InstallSucceeds(r) \/ DeploySucceeds(r)
  \/ \E relationship \in {"confirmed", "inferred"} : WizardRecords(r, relationship)

(* Mutant: a failed install leaves the pipeline where it was. *)
FailsQuietly(r) ==
  /\ UNCHANGED <<phase, reloaded>>
  /\ IF runs[r].kind = "deploy" THEN Log(r, "failed", activeNetwork) ELSE UNCHANGED lastLog
  /\ Stops(r, Forgotten)
  /\ UNCHANGED <<wasms, listed, sources, activeNetwork>>

(* The failure is logged with the network of now. *)
Fails(r) ==
  /\ IF runs[r].kind = "wizard" THEN UNCHANGED <<phase, reloaded>> ELSE Advance("error")
  /\ IF runs[r].kind = "deploy" THEN Log(r, "failed", activeNetwork) ELSE UNCHANGED lastLog
  /\ Stops(r, Forgotten)
  /\ UNCHANGED <<wasms, listed, sources, activeNetwork>>

(* Any step before the submission fails, or the submission itself, though  *)
(* its transaction may have been sent.                                     *)
SubmitFails(r) == runs[r].at = "preparing" /\ Fails(r)

-----------------------------------------------------------------------------
(* Waiting for the transaction, first through the API and then directly.   *)
(* A node that lags has not found it yet.                                  *)
NotFound(r) ==
  /\ runs[r].at \in {"api", "direct"} /\ runs[r].polls < MaxDeployPolls
  /\ Goes(r, runs[r].at, runs[r].tx, runs[r].polls + 1)
  /\ UNCHANGED <<wasms, listed, sources, phase, reloaded, lastLog, activeNetwork>>

Found(r) ==
  /\ runs[r].at \in {"api", "direct"} /\ runs[r].polls < MaxDeployPolls
  /\ \/ runs[r].tx = "success" /\ Succeeds(r)
     \/ runs[r].tx = "failed" /\ Fails(r)

(* The API's polling throws: at its limit, or on any error. *)
FallBack(r) ==
  /\ runs[r].at = "api"
  /\ Goes(r, "direct", runs[r].tx, 0)
  /\ UNCHANGED <<wasms, listed, sources, phase, reloaded, lastLog, activeNetwork>>

DirectPollFails(r) ==
  /\ runs[r].at = "direct" /\ runs[r].polls < MaxDeployPolls
  /\ Fails(r)

(* Mutant: orchestrateTx takes the end of its loop for a success.          *)
TimesOutInSuccess(r) ==
  /\ runs[r].at = "direct" /\ runs[r].polls = MaxDeployPolls
  /\ \/ runs[r].kind # "wizard" /\ Succeeds(r)
     \/ WizardRecords(r, "inferred")

(* At the end of the loop orchestrateTx reports an error; the wizard       *)
(* records the contract it expects.                                        *)
TimesOut(r) ==
  /\ runs[r].at = "direct" /\ runs[r].polls = MaxDeployPolls
  /\ \/ runs[r].kind # "wizard" /\ Fails(r)
     \/ WizardRecords(r, "inferred")

(* The timer of 800 ms: the pipeline is done, whatever its phase is now.   *)
Published(r) ==
  /\ runs[r].at = "publishing"
  /\ Advance("done") /\ Stops(r, Kept(runs[r]))
  /\ UNCHANGED <<wasms, listed, sources, lastLog, activeNetwork>>

-----------------------------------------------------------------------------
(* handleVerify of an entry with a contract and nothing confirmed yet, and *)
(* handleSourceVerified when the registry has answered: its node has the   *)
(* network that is active then, in every entry of the binary.              *)
(* the network that is active then, in every entry of the binary.          *)
BeginVerify(i) ==
  /\ wasms[i].deployed # {} /\ \A r \in Run : wasms[i].provenance[r] # "confirmed"
  /\ verifying' = verifying \cup wasms[i].deployed
  /\ UNCHANGED <<runs, wasms, listed, verified, phase, reloaded, lastLog, activeNetwork>>

EndVerify(r) ==
  /\ r \in verifying /\ verifying' = verifying \ {r}
  /\ \/ /\ verified' = verified \cup {r}
        /\ wasms' = [i \in DOMAIN wasms |->
                       [wasms[i] EXCEPT !.provenance[r] = "confirmed", !.on[r] = activeNetwork]]
     \/ UNCHANGED <<verified, wasms>>
  /\ UNCHANGED <<runs, listed, phase, reloaded, lastLog, activeNetwork>>

(* removeWasm looks at one entry of the binary and removes them all. *)
RemoveWasm ==
  /\ wasms # <<>> /\ ~ Head(wasms).pinned
  /\ wasms' = <<>>
  /\ UNCHANGED <<runs, listed, sources, phase, reloaded, lastLog, activeNetwork>>

ResetPipeline ==
  /\ phase # "idle" /\ Advance("idle")
  /\ UNCHANGED <<runs, wasms, listed, sources, lastLog, activeNetwork>>

SwitchNetwork(n) ==
  /\ n # activeNetwork /\ activeNetwork' = n
  /\ runs' = [r \in Run |-> [runs[r] EXCEPT !.switched = runs[r].kind # "none"]]
  /\ UNCHANGED <<wasms, listed, sources, phase, reloaded, lastLog>>

(* The page is left and mounted again: its flags are down, its runs go on. *)
Remount ==
  /\ \E r \in Run : runs[r].mine
  /\ runs' = [r \in Run |-> [runs[r] EXCEPT !.mine = FALSE]]
  /\ UNCHANGED <<wasms, listed, sources, phase, reloaded, lastLog, activeNetwork>>

(* A reload ends every run and every timer; the stores are persisted.      *)
ReloadStudio ==
  /\ verifying # {} \/ \E r \in Run : AwaitsTx(r) \/ runs[r].at = "publishing"
  /\ reloaded' = TRUE /\ verifying' = {}
  /\ runs' = [r \in Run |-> IF AwaitsTx(r) THEN Forgotten
                            ELSE IF runs[r].at = "publishing" THEN Kept(runs[r]) ELSE runs[r]]
  /\ UNCHANGED <<wasms, listed, verified, phase, lastLog, activeNetwork>>

DeployNext ==
  \/ \E r \in Run :
       \/ BeginInstall(r) \/ BeginDeploy(r) \/ Submit(r) \/ SubmitFails(r) \/ Included(r)
       \/ NotFound(r) \/ Found(r) \/ FallBack(r) \/ DirectPollFails(r) \/ TimesOut(r)
       \/ Published(r) \/ EndVerify(r)
  \/ \E i \in DOMAIN wasms : BeginVerify(i)
  \/ \E n \in DeployNetwork : SwitchNetwork(n)
  \/ RemoveWasm \/ ResetPipeline \/ Remount \/ ReloadStudio

DeploySpec == DeployInit /\ [][DeployNext]_deployVars

-----------------------------------------------------------------------------
(* The records have their types; a binary has one entry for each network.  *)
DeployTypeOK ==
  /\ runs \in [Run -> Runs]
  /\ wasms \in Seq(Entry)
  /\ \A i, j \in DOMAIN wasms : wasms[i].network = wasms[j].network => i = j
  /\ \A i \in DOMAIN wasms : \A r \in wasms[i].deployed : wasms[i].provenance[r] # "none"
  /\ listed \in [Run -> DeployNetworks] /\ verified \subseteq Run /\ verifying \subseteq Run
  /\ phase \in {"idle", "install", "instantiate", "publish", "done", "error"}
  /\ reloaded \in BOOLEAN /\ activeNetwork \in DeployNetwork
  /\ lastLog \in [status : {"none", "success", "failed"}, switched : BOOLEAN]

(* The pipeline waits only for something that will come: an install that   *)
(* is under way, or the timer of a deployment.  A reload ends both and     *)
(* leaves the persisted phase.                                             *)
PipelineWaitsForRuns ==
  ~ reloaded =>
    /\ phase = "install" => \E r \in Run : runs[r].kind = "install" /\ AwaitsTx(r)
    /\ phase = "publish" => \E r \in Run : runs[r].at = "publishing"

(* The network of a provenance node, as the lineage of a binary shows it. *)
NodeIsTrue(i, r) ==
  \/ wasms[i].on[r] = runs[r].network \/ runs[r].switched
  \/ wasms[i].network # runs[r].network /\ wasms[i].on[r] = wasms[i].network

(* What the stores say of a contract is true of its transaction: it was    *)
(* sent on the network the contract is listed with, and it succeeded,      *)
(* unless the wizard gave up waiting for it; and a confirmed contract has  *)
(* a successful transaction or a registered source.  Its provenance names  *)
(* the network of that transaction, unless the binary is listed on another *)
(* network, which the node then names, or the user has switched networks   *)
(* since the deployment began (the registration of a source is recorded    *)
(* with the network of its answer).                                        *)
RecordsAreTrue ==
  \A r \in Run :
    /\ listed[r] # NoDeployNetwork =>
         /\ listed[r] = runs[r].network
         /\ runs[r].tx = "success" \/ runs[r].kind = "wizard"
    /\ \A i \in DOMAIN wasms :
         wasms[i].provenance[r] = "confirmed" => runs[r].tx = "success" \/ r \in verified
    /\ \A i \in DOMAIN wasms : wasms[i].provenance[r] # "none" => NodeIsTrue(i, r)

(* A log entry names the network of its run, unless the user switched      *)
(* networks while a run was under way that failed then.                    *)
LogNamesItsNetwork ==
  lastLog # NotMisnamed => lastLog.status = "failed" /\ lastLog.switched

(* Together: the pipeline waits for nothing that cannot come, and what the *)
(* stores record of a deployment is what happened, where it happened.      *)
DeployInv ==
  /\ DeployTypeOK /\ PipelineWaitsForRuns /\ RecordsAreTrue
  /\ LogNamesItsNetwork
=============================================================================
