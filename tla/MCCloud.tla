-------------------------------- MODULE MCCloud --------------------------------
(***************************************************************************)
(* What the browser records of its work, in one run: the sync queue, the   *)
(* cloud copies of workspaces, the list of workspaces, the deployments,    *)
(* and the saved calls with the workspaces they are in.  But for the first *)
(* two they share no state, so a behaviour is one of a single part, and    *)
(* the others stay where they begin.  Networks are alike, so that one is   *)
(* active at first.                                                        *)
(*                                                                         *)
(* The queue and its callers meet in three parts, each with the bounds     *)
(* that keep the others out: in "queue" two flushes overlap over two       *)
(* mutations; in "copies" they make up for failed syncs of one workspace;  *)
(* in "cloud" workspaces change beside the syncs, one flush at a time.     *)
(***************************************************************************)
EXTENDS CloudSync, WorkspaceStore, Deployments, LocalData, TLC

VARIABLE cloudPart

MCVars == <<queueVars, cloudVars, listVars, deployVars, dataVars, cloudPart>>

(* The runs of one part are alike, and so are the tabs and the flushes of  *)
(* others; one swap for all is enough, since only one part is at work.     *)
Symmetric ==
  {p \in Permutations(Run \cup Tab \cup Flusher) :
     \/ \A x \in DOMAIN p : p[x] = x
     \/ \A S \in {Run, Tab, Flusher} : \A x \in S : p[x] \in S \ {x}}

AtMostTwoFaults == lost' + delayed' + reloads' <= 2

OneWorkspace == UNCHANGED <<made, archived, active>> /\ issued' <= 1

OneFlushAtATime ==
  /\ issued' <= 1 /\ lost' = 0 /\ delayed' = 0
  /\ Cardinality({f \in Flusher : todo'[f] # {}}) <= 1

OneImportAtATime == Cardinality({t \in Tab : incoming'[t] # NoPlace}) <= 1

MCInit ==
  /\ cloudPart \in {"queue", "copies", "cloud", "list", "deployments", "local"}
  /\ CloudInit /\ StoreInit /\ DeployInit /\ DataInit
  /\ activeNetwork = CHOOSE n \in DeployNetwork : TRUE
  /\ cloudPart # "deployments" => wasms = <<>>

MCNext ==
  /\ UNCHANGED cloudPart
  /\ CASE cloudPart = "queue"  -> Next /\ UNCHANGED cloudVars /\ AtMostTwoFaults
       [] cloudPart = "copies" -> CloudNext /\ OneWorkspace
       [] cloudPart = "cloud"  -> CloudNext /\ OneFlushAtATime
       [] OTHER                -> UNCHANGED <<queueVars, cloudVars>>
  /\ IF cloudPart = "list" THEN StoreNext ELSE UNCHANGED listVars
  /\ IF cloudPart = "deployments" THEN DeployNext ELSE UNCHANGED deployVars
  /\ IF cloudPart = "local" THEN DataNext /\ OneImportAtATime ELSE UNCHANGED dataVars

MCSpec == MCInit /\ [][MCNext]_MCVars
=============================================================================
