---------------------------- MODULE WorkspaceStore ----------------------------
(***************************************************************************)
(* The list of workspaces (store/useWorkspaceStore.ts): the operations     *)
(* that add, replace and remove workspaces, the toast that offers to undo  *)
(* a deletion, the checkpoints, and a conflict that waits for the user.    *)
(* The calls to the cloud, and what fails in them, are in CloudSync.       *)
(*                                                                         *)
(* A toast, a checkpoint and a conflict hold a whole workspace, and write  *)
(* it back at some later time.  The list is abstracted to the set of its   *)
(* workspaces, and a workspace to its id and its archived mark: what it    *)
(* holds is edited by operations that touch nothing else.                  *)
(***************************************************************************)
EXTENDS Naturals, Sequences, FiniteSets, Functions

CONSTANTS
  WorkspaceId,
  DefaultId,   \* "default"
  NoWorkspace,
  MaxHeld      \* bound on the workspaces held by toasts, checkpoints and a conflict

ASSUME StoreAssumption ==
  /\ DefaultId \in WorkspaceId /\ NoWorkspace \notin WorkspaceId
  /\ MaxHeld \in Nat

VARIABLES
  workspaces,
  activeId,
  deletions,     \* the deletions that can be undone, oldest first
  checkpoints,   \* checkpoints[w]: snapshots, oldest first
  conflict,      \* pendingConflict
  kept,          \* history: the workspaces added and not deleted since
  mishaps        \* history: what has happened that the store does not expect

listVars == <<workspaces, activeId, deletions, checkpoints, conflict, kept, mishaps>>

Snapshot == [id : WorkspaceId, archived : BOOLEAN]
New(w) == [id |-> w, archived |-> FALSE]
NoConflict == [of |-> NoWorkspace]
Ids == {s.id : s \in workspaces}
WorkspaceOf(w) == CHOOSE s \in workspaces : s.id = w

(* How many workspaces are held, to be written back. *)
Held == Len(deletions) + SumFunction([w \in WorkspaceId |-> Len(checkpoints[w])])
          + (IF conflict = NoConflict THEN 0 ELSE 1)

StoreInit ==
  /\ workspaces = {New(DefaultId)} /\ activeId = DefaultId
  /\ deletions = <<>> /\ checkpoints = [w \in WorkspaceId |-> <<>>] /\ conflict = NoConflict
  /\ kept = {DefaultId} /\ mishaps = {}

(* Every workspace with the id becomes what f makes of it. *)
Replaced(w, f) == {IF s.id = w THEN f[s] ELSE s : s \in workspaces}

-----------------------------------------------------------------------------
(* createWorkspace and createWorkspaceFromTemplate: a new id, which does   *)
(* not become the active one.                                              *)
Create(w) ==
  /\ w \notin Ids \cup kept
  /\ \A i \in DOMAIN deletions : deletions[i].target.id # w
  /\ workspaces' = workspaces \cup {New(w)}
  /\ kept' = kept \cup {w}
  /\ UNCHANGED <<activeId, deletions, checkpoints, conflict, mishaps>>

(* setActiveWorkspace, of one that the switcher lists. *)
SetActive(w) ==
  /\ w \in Ids /\ activeId' = w
  /\ UNCHANGED <<workspaces, deletions, checkpoints, conflict, kept, mishaps>>

(* Mutant: the workspace that is deleted stays active. *)
ActiveStays(w) == activeId

ActiveAfter(w) == IF activeId = w THEN DefaultId ELSE activeId

(* deleteWorkspace.  Nothing keeps the default workspace from being        *)
(* deleted, nor are the checkpoints and bookmarks.                         *)
Delete(w) ==
  /\ w \in Ids /\ Held < MaxHeld
  /\ workspaces' = {s \in workspaces : s.id # w}
  /\ activeId' = ActiveAfter(w)
  /\ deletions' = Append([i \in DOMAIN deletions |-> [deletions[i] EXCEPT !.later = TRUE]],
                      [target |-> WorkspaceOf(w), active |-> activeId, later |-> FALSE])
  /\ kept' = kept \ {w}
  /\ mishaps' = mishaps \cup {m \in {"default deleted"} : w = DefaultId}
  /\ UNCHANGED <<checkpoints, conflict>>

Without1(seq, i) == SubSeq(seq, 1, i - 1) \o SubSeq(seq, i + 1, Len(seq))

(* The workspace is added as it was, and the one that was active then is   *)
(* active again, whatever has happened since.                              *)
Undone(t) == workspaces' = workspaces \cup {t.target} /\ activeId' = t.active

UndoDelete(i) ==
  LET t == deletions[i] IN
  /\ Undone(t) /\ deletions' = Without1(deletions, i)
  /\ kept' = kept \cup {t.target.id}
  /\ mishaps' = mishaps \cup {m \in {"undone twice over"} : t.target.id \in Ids}
                        \cup {m \in {"undone after another"} : t.later}
  /\ UNCHANGED <<checkpoints, conflict>>

StoreToastExpires(i) ==
  /\ deletions' = Without1(deletions, i)
  /\ UNCHANGED <<workspaces, activeId, checkpoints, conflict, kept, mishaps>>

(* duplicateWorkspace: a copy under a new id, never archived. *)
DuplicateWorkspace(w, v) == w \in Ids /\ Create(v)

(* archiveWorkspace: one that is not archived (the first in the list)      *)
(* takes the place of the active one, or else the default one.             *)
ArchiveOne(w) ==
  LET Marks == [s \in Snapshot |-> [s EXCEPT !.archived = TRUE]]
      left == {s.id : s \in {t \in workspaces : ~ t.archived /\ t.id # w}}
  IN
  /\ w \in Ids /\ workspaces' = Replaced(w, Marks)
  /\ activeId' \in IF activeId # w THEN {activeId} ELSE IF left = {} THEN {DefaultId} ELSE left
  /\ UNCHANGED <<deletions, checkpoints, conflict, kept, mishaps>>

UnarchiveOne(w) ==
  LET Unmarks == [s \in Snapshot |-> [s EXCEPT !.archived = FALSE]] IN
  /\ w \in Ids /\ workspaces' = Replaced(w, Unmarks)
  /\ UNCHANGED <<activeId, deletions, checkpoints, conflict, kept, mishaps>>

-----------------------------------------------------------------------------
SaveCheckpoint(w) ==
  /\ w \in Ids /\ Held < MaxHeld
  /\ checkpoints' = [checkpoints EXCEPT ![w] = Append(@, WorkspaceOf(w))]
  /\ UNCHANGED <<workspaces, activeId, deletions, conflict, kept, mishaps>>

(* Mutant: a workspace that is gone is put back. *)
RestoredAnyway(w, snapshot) ==
  {s \in workspaces : s.id # w} \cup {snapshot}

Restored(w, snapshot) == LET Goes == [s \in Snapshot |-> snapshot] IN Replaced(w, Goes)

(* restoreCheckpoint: of a workspace that is deleted it changes nothing,   *)
(* and says that it has.                                                   *)
RestoreCheckpoint(w, i) ==
  /\ workspaces' = Restored(w, checkpoints[w][i])
  /\ UNCHANGED <<activeId, deletions, checkpoints, conflict, kept, mishaps>>

DeleteCheckpoint(w, i) ==
  /\ checkpoints' = [checkpoints EXCEPT ![w] = Without1(@, i)]
  /\ UNCHANGED <<workspaces, activeId, deletions, conflict, kept, mishaps>>

-----------------------------------------------------------------------------
(* loadFromCloud: what the cloud holds takes the place of the workspace of *)
(* its id, or is added.  It does not know of the archived mark.            *)
LoadWorkspace(w) ==
  LET Takes == [s \in Snapshot |-> New(w)] IN
  /\ workspaces' = IF w \in Ids THEN Replaced(w, Takes) ELSE workspaces \cup {New(w)}
  /\ kept' = kept \cup {w}
  /\ UNCHANGED <<activeId, deletions, checkpoints, conflict, mishaps>>

(* detectConflict, of a workspace and its remote copy: they may differ,    *)
(* and be of other revisions.                                              *)
DetectConflict(w) ==
  /\ w \in Ids
  /\ conflict = NoConflict => Held < MaxHeld
  /\ conflict' = [of |-> w, remote |-> New(w)]
  /\ UNCHANGED <<workspaces, activeId, deletions, checkpoints, kept, mishaps>>

(* resolveConflict writes the resolution over the workspace that is active *)
(* now, and over none if that is not there.  A merge, too, keeps the id    *)
(* and the mark of the remote copy.                                        *)
ResolveConflict(strategy) ==
  LET r == conflict.remote
      Resolves == [s \in Snapshot |-> IF strategy = "keep-local" THEN s ELSE r]
  IN
  /\ conflict # NoConflict /\ conflict' = NoConflict
  /\ workspaces' = Replaced(activeId, Resolves)
  /\ mishaps' = mishaps \cup
       {m \in {"resolved elsewhere"} :
         strategy # "keep-local" /\ activeId \in Ids /\ activeId # r.id}
  /\ UNCHANGED <<activeId, deletions, checkpoints, kept>>

DismissConflict ==
  /\ conflict # NoConflict /\ conflict' = NoConflict
  /\ UNCHANGED <<workspaces, activeId, deletions, checkpoints, kept, mishaps>>

(* A list that holds a workspace twice is not followed any further.        *)
Followed == mishaps \cap {"undone twice over", "resolved elsewhere"} = {}

StoreActions ==
  \/ \E w \in WorkspaceId :
       \/ SetActive(w) \/ Delete(w) \/ ArchiveOne(w) \/ UnarchiveOne(w) \/ SaveCheckpoint(w)
       \/ Create(w) \/ LoadWorkspace(w) \/ DetectConflict(w)
       \/ \E v \in WorkspaceId : DuplicateWorkspace(w, v)
       \/ \E i \in DOMAIN checkpoints[w] : RestoreCheckpoint(w, i) \/ DeleteCheckpoint(w, i)
  \/ \E i \in DOMAIN deletions : UndoDelete(i) \/ StoreToastExpires(i)
  \/ \E s \in {"keep-local", "keep-remote", "merge-additive"} : ResolveConflict(s)
  \/ DismissConflict

StoreNext == Followed /\ StoreActions

StoreSpec == StoreInit /\ [][StoreNext]_listVars

-----------------------------------------------------------------------------
Mishaps == {"default deleted", "undone twice over", "undone after another",
            "resolved elsewhere"}
Happened(m) == m \in mishaps

StoreTypeOK ==
  /\ workspaces \subseteq Snapshot
  /\ activeId \in WorkspaceId /\ kept \subseteq WorkspaceId /\ mishaps \subseteq Mishaps
  /\ deletions \in Seq([target : Snapshot, active : WorkspaceId, later : BOOLEAN])
  /\ checkpoints \in [WorkspaceId -> Seq(Snapshot)]
  /\ conflict \in {NoConflict} \cup [of : WorkspaceId, remote : Snapshot]

(* No workspace is lost or doubled but by being deleted: the list holds    *)
(* every one that was added and not deleted, once.                         *)
WorkspacesAreKept ==
  /\ ~ Happened("resolved elsewhere") => Ids = kept
  /\ ~ Happened("resolved elsewhere") /\ ~ Happened("undone twice over") =>
       Cardinality(Ids) = Cardinality(workspaces)

(* The active workspace is one of the list, unless the default one was     *)
(* deleted, deletions were undone out of their order, or a conflict was    *)
(* resolved over another workspace.                                        *)
ActiveIsListed ==
  mishaps \cap {"default deleted", "undone after another", "resolved elsewhere"} = {} =>
    activeId \in Ids

(* What a checkpoint, a conflict and a toast will write back is of the     *)
(* workspace they are kept for; and an undone deletion brings back the one *)
(* that was active when it is the last there was.                          *)
WritesBackItsOwn ==
  /\ \A w \in WorkspaceId : \A i \in DOMAIN checkpoints[w] : checkpoints[w][i].id = w
  /\ conflict # NoConflict => conflict.remote.id = conflict.of
  /\ \A i \in DOMAIN deletions :
       ~ deletions[i].later /\ mishaps = {} =>
         deletions[i].active \in Ids \cup {deletions[i].target.id}

(* Together: the list of workspaces survives what is written back late.    *)
StoreInv == StoreTypeOK /\ WorkspacesAreKept /\ ActiveIsListed /\ WritesBackItsOwn
=============================================================================
