------------------------------ MODULE CloudSync ------------------------------
(***************************************************************************)
(* The cloud copies of workspaces, as the browser makes them: the cloud    *)
(* actions of store/useWorkspaceStore.ts, the sync button of the workspace *)
(* switcher, the share panel, and the sync queue they fall back on.        *)
(*                                                                         *)
(* The store remembers one cloudId, "for the active workspace", but other  *)
(* workspaces become active while it is remembered, and while the call     *)
(* that sets it is under way.  A creation that fails is queued, and when a *)
(* flush makes up for it nobody is told the id.                            *)
(*                                                                         *)
(* Nothing in the application calls loadFromCloud, pushToCloud and         *)
(* removeFromCloud, which would write or clear cloudId as well; they are   *)
(* left out.                                                               *)
(*                                                                         *)
(* Workspaces are numbered as they are made; 1 is the default one.  A      *)
(* record of the cloud whose id somebody is told is named by the call of   *)
(* syncToCloud that made it; nobody is told those of the others.           *)
(***************************************************************************)
EXTENDS SyncQueue

CONSTANTS
  MaxWorkspaces, \* bound on local workspaces
  MaxSyncs       \* bound on calls of syncToCloud

ASSUME CloudAssumption == MaxWorkspaces \in Nat \ {0} /\ MaxSyncs \in Nat

VARIABLES
  made,      \* local workspaces made so far
  archived,  \* those that are archived
  active,    \* activeWorkspaceId
  cloudId,   \* the sync that made the record; 0 stands for null
  syncState, \* "idle", "syncing" or "error"; persisted with the rest
  sync,      \* sync[s]: call s of syncToCloud
  local,     \* local[m]: the localId of queued mutation m
  switched,  \* history: another workspace became active since cloudId was asked for
  strayed    \* history: calls that named the record of another workspace, though
             \* the active workspace had not changed

queueVars == vars
storeVars == <<made, archived, active, cloudId, syncState, switched>>
cloudVars == <<storeVars, sync, local, strayed>>

Workspace == 1 .. MaxWorkspaces
SyncPhase == {"unused", "sent", "applied", "ok", "queued", "cut"}

(* moved: another workspace became active while the call was under way.    *)
Unused == [phase |-> "unused", of |-> 1, moved |-> FALSE, stored |-> FALSE, mutation |-> 0]
UnderWay(s) == sync[s].phase \in {"sent", "applied"}

CloudInit ==
  /\ Init
  /\ made = 1 /\ archived = {} /\ active = 1
  /\ cloudId = 0 /\ syncState = "idle" /\ switched = FALSE
  /\ sync = [s \in 1 .. MaxSyncs |-> Unused]
  /\ strayed = {}
  /\ local = [m \in Id |-> 0]

(* The active workspace becomes w: nothing else is told.                   *)
Activate(w) ==
  /\ active' = w
  /\ switched' = (switched \/ w # active)
  /\ sync' = [s \in 1 .. MaxSyncs |->
                [sync[s] EXCEPT !.moved = @ \/ (UnderWay(s) /\ w # active)]]

-----------------------------------------------------------------------------
(* createWorkspace, createWorkspaceFromTemplate and duplicateWorkspace.    *)
(* The last also asks the server for a record, ignores the answer and      *)
(* queues nothing if it fails.                                             *)
CreateWorkspace ==
  /\ made < MaxWorkspaces /\ made' = made + 1
  /\ UNCHANGED <<queueVars, archived, active, cloudId, syncState, switched,
                 sync, local, strayed>>

(* Mutant: recent workspaces are offered whether or not they are there. *)
SelectRecent(w) ==
  /\ Activate(w)
  /\ UNCHANGED <<queueVars, made, archived, cloudId, syncState, local, strayed>>

(* setActiveWorkspace, from the switcher's list of workspaces that are not *)
(* archived, or from the command palette, which lists the archived ones    *)
(* with the others.                                                        *)
SelectWorkspace(w) ==
  /\ w \in 1 .. made
  /\ Activate(w)
  /\ UNCHANGED <<queueVars, made, archived, cloudId, syncState, local, strayed>>

(* A call about workspace w names the record of cloudId.                   *)
Names(call, w, excused) ==
  strayed' = IF sync[cloudId].of = w \/ excused THEN strayed ELSE strayed \cup {call}

(* Mutant: archiving any workspace is told to the record. *)
ToldAlways(w) == cloudId # 0
Told(w) == cloudId # 0 /\ w = active

(* archiveWorkspace tells the record only if it is the active workspace,   *)
(* and makes the first that is left the active one.                        *)
Archive(w) ==
  LET left == (1 .. made) \ (archived \cup {w}) IN
  /\ w \in (1 .. made) \ archived
  /\ archived' = archived \cup {w}
  /\ IF Told(w) THEN Names("archive", w, switched) ELSE UNCHANGED strayed
  /\ Activate(IF active # w THEN active ELSE IF left = {} THEN 1 ELSE First(left))
  /\ UNCHANGED <<queueVars, made, cloudId, syncState, local>>

(* unarchiveWorkspace tells whichever record cloudId names.                *)
Unarchive(w) ==
  /\ w \in archived
  /\ archived' = archived \ {w}
  /\ IF cloudId # 0 THEN Names("unarchive", w, switched \/ w # active) ELSE UNCHANGED strayed
  /\ UNCHANGED <<queueVars, made, active, cloudId, syncState, switched,
                 sync, local>>

(* handleCreate of the share panel: the snapshot is of the active          *)
(* workspace, the link hangs on the record of cloudId.  Without a cloudId  *)
(* it begins a sync first, and takes the id that returns.                  *)
ShareActive ==
  /\ cloudId # 0
  /\ Names("share", active, switched)
  /\ UNCHANGED <<queueVars, storeVars, sync, local>>

-----------------------------------------------------------------------------
(* Mutant: the sync button takes the first workspace. *)
BeginSyncOfFirst(s) ==
  /\ sync[s].phase = "unused" /\ \A q \in 1 .. s - 1 : sync[q].phase # "unused"
  /\ sync' = [sync EXCEPT ![s] = [Unused EXCEPT !.phase = "sent"]]
  /\ syncState' = "syncing"
  /\ UNCHANGED <<queueVars, made, archived, active, cloudId, switched,
                 local, strayed>>

(* syncToCloud always creates a record, for the workspace that is active.  *)
BeginSync(s) ==
  /\ sync[s].phase = "unused" /\ \A q \in 1 .. s - 1 : sync[q].phase # "unused"
  /\ sync' = [sync EXCEPT ![s] = [Unused EXCEPT !.phase = "sent", !.of = active]]
  /\ syncState' = "syncing"
  /\ UNCHANGED <<queueVars, made, archived, active, cloudId, switched,
                 local, strayed>>

SyncApplied(s) ==
  /\ sync[s].phase = "sent"
  /\ sync' = [sync EXCEPT ![s].phase = "applied", ![s].stored = TRUE]
  /\ UNCHANGED <<queueVars, storeVars, local, strayed>>

SyncAnswered(s) ==
  /\ sync[s].phase = "applied"
  /\ cloudId' = s /\ syncState' = "idle" /\ switched' = sync[s].moved
  /\ sync' = [sync EXCEPT ![s].phase = "ok"]
  /\ UNCHANGED <<queueVars, made, archived, active, local, strayed>>

(* Mutant: a failed creation is reported, but not queued. *)
QueueNothing(s) ==
  /\ sync' = [sync EXCEPT ![s].phase = "queued"]
  /\ UNCHANGED <<queueVars, local>>
(* A failed creation is queued under the workspace that is active now.     *)
QueueSync(s) ==
  /\ Enqueue("create", FALSE)
  /\ local' = [local EXCEPT ![issued + 1] = active]
  /\ sync' = [sync EXCEPT ![s].phase = "queued", ![s].mutation = issued + 1]

(* Mutant: the failure of a sync leaves the store syncing. *)
SyncFailedSilently(s) ==
  /\ sync[s].phase = "sent"
  /\ QueueSync(s)
  /\ UNCHANGED <<made, archived, active, cloudId, syncState, switched, strayed>>

(* The server was not reached, or failed.                                  *)
SyncFailed(s) ==
  /\ sync[s].phase = "sent"
  /\ QueueSync(s) /\ syncState' = "error"
  /\ UNCHANGED <<made, archived, active, cloudId, switched, strayed>>

(* Its answer was lost: the record is there, and is queued to be created.  *)
SyncReplyLost(s) ==
  /\ sync[s].phase = "applied"
  /\ QueueSync(s) /\ syncState' = "error"
  /\ UNCHANGED <<made, archived, active, cloudId, switched, strayed>>

(* clearSyncError and, when the wallet disconnects, resetSyncState.        *)
ClearSyncState ==
  /\ syncState' = "idle"
  /\ UNCHANGED <<queueVars, made, archived, active, cloudId, switched,
                 sync, local, strayed>>

-----------------------------------------------------------------------------
(* The queue beside it; neither caller of flush asks for the cloud ids.    *)
QueueStep(f) ==
  /\ \/ StartFlush(f) \/ Apply(f) \/ Refuse(f) \/ Answered(f) \/ Conflicted(f)
     \/ Errored(f) \/ LostReply(f) \/ GivenUp(f)
  /\ UNCHANGED cloudVars

QueueArrival(m) == ApplyLate(m) /\ UNCHANGED cloudVars

(* The page reloads: the store persists, calls under way do not.           *)
ReloadPage ==
  /\ Reload
  /\ sync' = [s \in 1 .. MaxSyncs |->
                IF UnderWay(s) THEN [sync[s] EXCEPT !.phase = "cut"] ELSE sync[s]]
  /\ UNCHANGED <<storeVars, local, strayed>>

CloudNext ==
  \/ CreateWorkspace
  \/ \E w \in Workspace : SelectWorkspace(w) \/ Archive(w) \/ Unarchive(w)
  \/ \E s \in 1 .. MaxSyncs :
       \/ BeginSync(s) \/ SyncApplied(s) \/ SyncAnswered(s) \/ SyncFailed(s) \/ SyncReplyLost(s)
  \/ ShareActive \/ ClearSyncState
  \/ \E f \in Flusher : QueueStep(f)
  \/ \E m \in Id : QueueArrival(m)
  \/ ReloadPage

CloudSpec == CloudInit /\ [][CloudNext]_<<queueVars, cloudVars>>

-----------------------------------------------------------------------------
(* The store, the calls and the records have their types.                  *)
CloudTypeOK ==
  /\ made \in Workspace /\ archived \subseteq 1 .. made /\ active \in 1 .. made
  /\ cloudId \in 0 .. MaxSyncs /\ syncState \in {"idle", "syncing", "error"}
  /\ \A s \in 1 .. MaxSyncs : sync[s].phase \in SyncPhase /\ sync[s].of \in 1 .. made

(* The store's cloudId names the cloud record of the active workspace, as  *)
(* its comment says, unless another workspace has become active since the  *)
(* sync that set it began.                                                 *)
CloudIdIsOfActive ==
  cloudId # 0 /\ ~ switched => sync[cloudId].of = active

(* So a share link hangs on the record of the workspace it is a snapshot   *)
(* of, and an archived flag goes to the record of the workspace it is      *)
(* about, with the same exception, and that of a workspace unarchived      *)
(* while another is active.                                                *)
CallsNameTheirRecord == strayed = {}

(* No sync is forgotten: one that ended has its record, or waits in the    *)
(* queue until a flush has created it; only a reload cuts one off.         *)
NoSyncForgotten ==
  \A s \in 1 .. MaxSyncs :
    /\ sync[s].phase = "ok" => sync[s].stored
    /\ sync[s].phase = "queued" =>
         LET m == sync[s].mutation IN
         /\ m \in queue \/ m \in Done
         /\ local[m] = sync[s].of \/ sync[s].moved

(* The store says it is syncing only while a sync is under way, or after   *)
(* a reload, which persists the word but not the call.                     *)
SyncingIsTrue ==
  syncState = "syncing" => \E s \in 1 .. MaxSyncs : UnderWay(s) \/ sync[s].phase = "cut"

(* A sync leaves at most one record more than its runs from the queue,     *)
(* which the attempts and the reloads bound unless two flushes had it in   *)
(* hand; one that was answered leaves exactly one.                         *)
Copies(s) == Cardinality(Times(sync[s].mutation)) + (IF sync[s].stored THEN 1 ELSE 0)
CopiesBounded ==
  \A s \in 1 .. MaxSyncs :
    /\ sync[s].phase = "ok" => sync[s].mutation = 0
    /\ sync[s].phase = "queued" =>
         Copies(s) <= 1 + MaxAttempts + reloads \/ sync[s].mutation \in shared

(* Together: the record of the cloud that the store names is that of the   *)
(* workspace it stands for, no sync is forgotten, and none leaves more     *)
(* records than its retries.                                               *)
CloudInv ==
  /\ CloudTypeOK /\ CloudIdIsOfActive /\ CallsNameTheirRecord
  /\ NoSyncForgotten /\ SyncingIsTrue /\ CopiesBounded
=============================================================================
