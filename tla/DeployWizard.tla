---------------------------- MODULE DeployWizard ----------------------------
(***************************************************************************)
(* The deploy page of apps/web (app/deploy/page.tsx with                   *)
(* lib/deploy-wizard.ts and store/useDeployWizardStore.ts): upload a file, *)
(* choose a salt, simulate, deploy.                                        *)
(*                                                                         *)
(* The step and the salt survive leaving the page, the file, its buffer    *)
(* and the preview do not, while a simulation or a deployment under way    *)
(* goes on.  A simulation reads the file and asks the network, and the     *)
(* file may be changed before either is done.                              *)
(***************************************************************************)
EXTENDS Naturals

CONSTANTS
  WasmFile,
  NoFile,
  WizardNetwork,
  Deployment,      \* deployments that are ever begun
  MaxWizardPolls   \* 10

ASSUME WizardAssumption == NoFile \notin WasmFile /\ MaxWizardPolls \in Nat \ {0}

VARIABLES
  step,        \* the step of the store
  saltChosen,  \* validateStep("configure")
  file, wasmBuffer,
  previewOk,   \* simulationPreview?.ok === true
  simulating,  \* the simulation of this page under way: its file and its stage
  deploys,     \* deploys[d]: the deployment d
  deployedId,  \* the page shows a deployed contract
  wizardNetwork,
  contractsOf, \* networks of the contracts that were listed
  createdOn,   \* history: networks on which contracts were created
  provenFiles, \* history: files whose simulation succeeded
  fileChanged  \* history: the file was changed during the last simulation

pageVars == <<file, wasmBuffer, previewOk, simulating, deployedId, fileChanged>>
wizardOutcome == <<contractsOf, createdOn, provenFiles>>
wizardVars == <<step, saltChosen, pageVars, deploys, wizardNetwork, wizardOutcome>>

Steps == <<"upload", "configure", "simulate", "deploy">>
StepIndex(s) == CHOOSE i \in 1 .. 4 : Steps[i] = s

NotSimulating == [at |-> "none", of |-> NoFile]
NotDeployed == [at |-> "none", buffer |-> NoFile, network |-> {}, mine |-> FALSE,
                created |-> FALSE, polls |-> 0]

(* A deployment that has ended is forgotten. *)
DeployEnded == [NotDeployed EXCEPT !.at = "ended"]

WizardInit ==
  /\ step = "upload" /\ saltChosen = TRUE
  /\ file = NoFile /\ wasmBuffer = NoFile /\ previewOk = FALSE
  /\ simulating = NotSimulating /\ deployedId = FALSE
  /\ deploys = [d \in Deployment |-> NotDeployed]
  /\ wizardNetwork \in WizardNetwork
  /\ contractsOf = {} /\ createdOn = {} /\ provenFiles = {} /\ fileChanged = FALSE

IsDeploying == \E d \in Deployment : deploys[d].mine

(* validateStep *)
Valid(s, hasFile, salt, ok) ==
  CASE s = "upload" -> hasFile
    [] s = "configure" -> salt
    [] s = "simulate" -> ok
    [] s = "deploy" -> TRUE

(* Mutant: a restored step is taken as it is. *)
ClampedNever(s, hasFile, salt, ok) == s

(* clampRestoredStep: the first step up to s that is not complete. *)
Clamped(s, hasFile, salt, ok) ==
  LET Stops(i) == i = StepIndex(s) \/ ~ Valid(Steps[i], hasFile, salt, ok) IN
  Steps[CHOOSE i \in 1 .. StepIndex(s) : Stops(i) /\ \A j \in 1 .. i - 1 : ~ Stops(j)]

(* The effect on a change of the step, the file or the preview. *)
ClampStep(s) ==
  step' = IF IsDeploying' \/ deployedId' THEN s
          ELSE Clamped(s, file' # NoFile, saltChosen', previewOk')

-----------------------------------------------------------------------------
(* The form. *)

(* handleFileChange, on the upload step. *)
FileChange(f) ==
  /\ step = "upload" /\ file' = f
  /\ previewOk' = FALSE /\ wasmBuffer' = NoFile
  /\ fileChanged' = (fileChanged \/ simulating # NotSimulating)
  /\ UNCHANGED <<saltChosen, simulating, deploys, deployedId, wizardNetwork, wizardOutcome>>
  /\ ClampStep(step)

SaltChange ==
  /\ step = "configure" /\ saltChosen' = ~ saltChosen
  /\ UNCHANGED <<step, pageVars, deploys, wizardNetwork, wizardOutcome>>

(* nextStep; on the simulate step the button is there after a success. *)
NextStep ==
  /\ step # "deploy" /\ Valid(step, file # NoFile, saltChosen, previewOk)
  /\ UNCHANGED <<saltChosen, pageVars, deploys, wizardNetwork, wizardOutcome>>
  /\ ClampStep(Steps[StepIndex(step) + 1])

PreviousStep ==
  /\ step # "upload" /\ ~ IsDeploying /\ ~ deployedId
  /\ UNCHANGED <<saltChosen, pageVars, deploys, wizardNetwork, wizardOutcome>>
  /\ ClampStep(Steps[StepIndex(step) - 1])

ChangeNetwork(n) ==
  /\ n # wizardNetwork /\ wizardNetwork' = n
  /\ UNCHANGED <<step, saltChosen, pageVars, deploys, wizardOutcome>>

-----------------------------------------------------------------------------
(* handleRunSimulation. *)
RunSimulation ==
  /\ step = "simulate" /\ simulating = NotSimulating /\ file # NoFile
  /\ simulating' = [at |-> "reading", of |-> file]
  /\ previewOk' = FALSE /\ fileChanged' = FALSE
  /\ UNCHANGED <<saltChosen, file, wasmBuffer, deploys, deployedId, wizardNetwork, wizardOutcome>>
  /\ ClampStep(step)

FileRead ==
  /\ simulating.at = "reading"
  /\ wasmBuffer' = simulating.of /\ simulating' = [simulating EXCEPT !.at = "asking"]
  /\ UNCHANGED <<step, saltChosen, file, previewOk, deploys, deployedId, fileChanged,
                 wizardNetwork, wizardOutcome>>

(* Mutant: the preview says that it is ok whatever the simulation says. *)
SimulatedAnyhow(ok) ==
  /\ simulating # NotSimulating /\ (ok => simulating.at = "asking")
  /\ previewOk' = TRUE /\ simulating' = NotSimulating
  /\ provenFiles' = IF ok THEN provenFiles \cup {simulating.of} ELSE provenFiles
  /\ UNCHANGED <<saltChosen, file, wasmBuffer, deploys, deployedId, fileChanged, wizardNetwork,
                 contractsOf, createdOn>>
  /\ ClampStep(step)

(* The simulation succeeds, or anything fails. *)
Simulated(ok) ==
  /\ simulating # NotSimulating /\ (ok => simulating.at = "asking")
  /\ previewOk' = ok /\ simulating' = NotSimulating
  /\ provenFiles' = IF ok THEN provenFiles \cup {simulating.of} ELSE provenFiles
  /\ UNCHANGED <<saltChosen, file, wasmBuffer, deploys, deployedId, fileChanged, wizardNetwork,
                 contractsOf, createdOn>>
  /\ ClampStep(step)

-----------------------------------------------------------------------------
(* deployContract: with the buffer, the salt and the network of the click. *)
Deploy(d) ==
  /\ step = "deploy" /\ ~ IsDeploying /\ ~ deployedId
  /\ wasmBuffer # NoFile
  /\ deploys[d] = NotDeployed
  /\ deploys' = [deploys EXCEPT ![d] =
       [at |-> "installing", buffer |-> wasmBuffer, network |-> {wizardNetwork}, mine |-> TRUE,
        created |-> FALSE, polls |-> 0]]
  /\ UNCHANGED <<step, saltChosen, pageVars, wizardNetwork, wizardOutcome>>

Proceeds(d, at, polls) ==
  /\ deploys' = [deploys EXCEPT ![d].at = at, ![d].polls = polls]
  /\ UNCHANGED <<step, saltChosen, pageVars, wizardNetwork, wizardOutcome>>

(* The upload was submitted; it is found, or 10 polls have not found it:   *)
(* the deployment goes on in either case.                                  *)
UploadSubmitted(d) == deploys[d].at = "installing" /\ Proceeds(d, "uploaded", 0)
UploadPolled(d) ==
  /\ deploys[d].at = "uploaded"
  /\ IF deploys[d].polls < MaxWizardPolls
     THEN Proceeds(d, "uploaded", deploys[d].polls + 1) \/ Proceeds(d, "creating", 0)
     ELSE Proceeds(d, "creating", 0)
CreateSubmitted(d) == deploys[d].at = "creating" /\ Proceeds(d, "created", 0)

(* The network creates the contract, whoever is still waiting. *)
CreateIncluded(d) ==
  /\ deploys[d].at = "created" /\ deploys' = [deploys EXCEPT ![d].created = TRUE]
  /\ createdOn' = createdOn \cup deploys[d].network
  /\ UNCHANGED <<step, saltChosen, pageVars, wizardNetwork, contractsOf, provenFiles>>

(* Mutant: the page is not told. *)
EndsDeployBusy(d) ==
  deploys' = [deploys EXCEPT ![d] = [DeployEnded EXCEPT !.mine = deploys[d].mine]]
EndsDeploy(d) == deploys' = [deploys EXCEPT ![d] = DeployEnded]

(* Mutant: after the last poll the contract is listed all the same. *)
CreatePolledOut(d) ==
  /\ deploys[d].at = "created"
  /\ IF deploys[d].polls < MaxWizardPolls /\ ~ deploys[d].created
     THEN Proceeds(d, "created", deploys[d].polls + 1)
     ELSE /\ contractsOf' = contractsOf \cup deploys[d].network
          /\ deployedId' = (deployedId \/ deploys[d].mine)
          /\ EndsDeploy(d)
          /\ UNCHANGED <<step, saltChosen, file, wasmBuffer, previewOk, simulating, fileChanged,
                         wizardNetwork, createdOn, provenFiles>>

(* The contract is found and listed; or it is not found yet, and after     *)
(* the last poll the loop ends without a word.                             *)
CreatePolled(d) ==
  /\ deploys[d].at = "created"
  /\ \/ deploys[d].polls < MaxWizardPolls /\ Proceeds(d, "created", deploys[d].polls + 1)
     \/ /\ deploys[d].polls = MaxWizardPolls
        /\ EndsDeploy(d)
        /\ UNCHANGED <<step, saltChosen, pageVars, wizardNetwork, wizardOutcome>>
     \/ /\ deploys[d].polls < MaxWizardPolls /\ deploys[d].created
        /\ contractsOf' = contractsOf \cup deploys[d].network
        /\ deployedId' = (deployedId \/ deploys[d].mine)
        /\ EndsDeploy(d)
        /\ UNCHANGED <<step, saltChosen, file, wasmBuffer, previewOk, simulating, fileChanged,
                       wizardNetwork, createdOn, provenFiles>>

DeployFails(d) ==
  /\ deploys[d].at \in {"installing", "uploaded", "creating", "created"}
  /\ EndsDeploy(d)
  /\ UNCHANGED <<step, saltChosen, pageVars, wizardNetwork, wizardOutcome>>

-----------------------------------------------------------------------------
(* The page is left and mounted again, or reloaded: the store keeps the    *)
(* step and the salt; calls under way go on, or end with the reload.       *)
MountPage(reload) ==
  /\ file' = NoFile /\ wasmBuffer' = NoFile /\ previewOk' = FALSE
  /\ simulating' = NotSimulating /\ deployedId' = FALSE /\ fileChanged' = FALSE
  /\ deploys' = [d \in Deployment |->
       IF reload /\ deploys[d].at # "none"
       THEN DeployEnded
       ELSE [deploys[d] EXCEPT !.mine = FALSE]]
  /\ UNCHANGED <<saltChosen, wizardNetwork, wizardOutcome>>
  /\ ClampStep(step)

WizardNext ==
  \/ \E f \in WasmFile : FileChange(f)
  \/ SaltChange \/ NextStep \/ PreviousStep
  \/ \E n \in WizardNetwork : ChangeNetwork(n)
  \/ RunSimulation \/ FileRead \/ \E ok \in BOOLEAN : Simulated(ok) \/ MountPage(ok)
  \/ \E d \in Deployment :
       \/ Deploy(d) \/ UploadSubmitted(d) \/ UploadPolled(d) \/ CreateSubmitted(d)
       \/ CreateIncluded(d) \/ CreatePolled(d) \/ DeployFails(d)

WizardSpec == WizardInit /\ [][WizardNext]_wizardVars

-----------------------------------------------------------------------------
(* The page and its calls have their types; the page is busy with a        *)
(* deployment only as long as that is under way.                           *)
WizardTypeOK ==
  /\ step \in {"upload", "configure", "simulate", "deploy"}
  /\ {saltChosen, previewOk, deployedId, fileChanged} \subseteq BOOLEAN
  /\ {file, wasmBuffer} \subseteq WasmFile \cup {NoFile}
  /\ simulating \in {NotSimulating} \cup [at : {"reading", "asking"}, of : WasmFile]
  /\ deploys \in [Deployment ->
       [at : {"none", "installing", "uploaded", "creating", "created", "ended"},
        buffer : WasmFile \cup {NoFile}, network : SUBSET WizardNetwork, mine : BOOLEAN,
        created : BOOLEAN, polls : 0 .. MaxWizardPolls]]
  /\ \A d \in Deployment : deploys[d].mine => deploys[d].at \notin {"none", "ended"}
  /\ wizardNetwork \in WizardNetwork
  /\ contractsOf \cup createdOn \subseteq WizardNetwork /\ provenFiles \subseteq WasmFile

(* The step is one whose steps before it are complete, however the page    *)
(* was left and mounted again, unless a deployment holds it: the last step *)
(* has a file, a salt and a successful simulation.                         *)
StepIsReached ==
  step = "deploy" /\ ~ IsDeploying /\ ~ deployedId => file # NoFile /\ saltChosen /\ previewOk

(* What is deployed was simulated with success.                            *)
DeployedWasSimulated ==
  \A d \in Deployment : deploys[d].buffer # NoFile => deploys[d].buffer \in provenFiles

(* A successful preview is of the selected file, and that is what will be  *)
(* deployed, unless the file was changed while it was being simulated.     *)
PreviewIsOfTheFile == previewOk /\ ~ fileChanged => wasmBuffer = file

(* A contract is listed only on a network that has created one: the page   *)
(* claims nothing when its polls run out.                                  *)
ListedWereCreated == contractsOf \subseteq createdOn

(* Together: the wizard deploys only what it has simulated, and lists only *)
(* what was created.                                                       *)
WizardInv ==
  /\ WizardTypeOK /\ StepIsReached /\ DeployedWasSimulated
  /\ PreviewIsOfTheFile /\ ListedWereCreated
=============================================================================
