------------------------------ MODULE LocalData ------------------------------
(***************************************************************************)
(* The saved calls and the workspaces that link them, as the pages of the  *)
(* browser keep them: in memory, and in localStorage, where every change   *)
(* of a store writes that store whole.  A page reads the storage only when *)
(* it is loaded, so that two pages, or a page that has just written an     *)
(* import to the storage and not yet reloaded, may overwrite each other    *)
(* (store/useSavedCallsStore.ts, store/useWorkspaceStore.ts,               *)
(* app/share/[token]/fork/page.tsx, components/data-management.tsx).       *)
(*                                                                         *)
(* A saved call is its id, and only the number of its copies in the list   *)
(* matters; its cart and presets are left out.                             *)
(***************************************************************************)
EXTENDS Naturals, FiniteSets

CONSTANTS
  Tab,       \* pages of the application
  SavedCall, \* ids of saved calls
  Place,     \* ids of workspaces
  NoPlace,
  Backup,    \* in the place of a workspace: a page has imported a full backup
  MaxCopies  \* bound on the copies of a call and on its toasts in a page

ASSUME LocalAssumption ==
  NoPlace \notin Place /\ Backup \notin Place \cup {NoPlace} /\ MaxCopies \in Nat \ {0}

VARIABLES
  page,     \* what each page has in memory
  disk,     \* what is in localStorage
  toasts,   \* the toasts of a page that offer to undo a removal
  incoming, \* the workspace, or the backup, whose import a page is about to reload for
  given,    \* the ids given out
  removed,  \* history: the calls that were removed, or left out by a backup
  forked,   \* history: those that a fork brought back under such a toast
  stale     \* history: the stores written over what the writer had not seen

dataVars == <<page, disk, toasts, incoming, given, removed, forked, stale>>

Data == [calls : [SavedCall -> 0 .. MaxCopies], places : SUBSET Place,
         links : [Place -> SUBSET SavedCall]]
Empty == [calls |-> [c \in SavedCall |-> 0], places |-> {}, links |-> [w \in Place |-> {}]]

DataInit ==
  /\ page = [t \in Tab |-> Empty] /\ disk = Empty
  /\ toasts = [t \in Tab |-> [c \in SavedCall |-> 0]]
  /\ incoming = [t \in Tab |-> NoPlace]
  /\ given = {} /\ removed = {} /\ forked = {} /\ stale = {}

-----------------------------------------------------------------------------
(* The persist middleware: the list of calls, or the workspaces with their *)
(* links, in memory and on disk.                                           *)
SetCalls(t, calls) == [page[t] EXCEPT !.calls = calls]
SetPlaces(d, w, S) == [d EXCEPT !.places = @ \cup {w}, !.links[w] = S]

Saves(t, new, stores) ==
  /\ page' = [page EXCEPT ![t] = new]
  /\ disk' = [calls |-> IF "calls" \in stores THEN new.calls ELSE disk.calls,
              places |-> IF "places" \in stores THEN new.places ELSE disk.places,
              links |-> IF "places" \in stores THEN new.links ELSE disk.links]
  /\ stale' = stale \cup
       {s \in stores : \/ s = "calls" /\ disk.calls # page[t].calls
                       \/ s = "places" /\ <<disk.places, disk.links>>
                                            # <<page[t].places, page[t].links>>}

(* saveCall, applyPresetToCart and importSavedCalls: calls with new ids.   *)
AddCalls(t, S) ==
  /\ S # {} /\ S \cap given = {} /\ given' = given \cup S
  /\ Saves(t, SetCalls(t, [c \in SavedCall |-> IF c \in S THEN 1 ELSE page[t].calls[c]]),
           {"calls"})
  /\ UNCHANGED <<toasts, incoming, removed, forked>>

(* removeCall: every copy goes, no link does, and a toast offers an Undo.  *)
RemoveCall(t, c) ==
  /\ page[t].calls[c] > 0 /\ toasts[t][c] < MaxCopies
  /\ Saves(t, SetCalls(t, [page[t].calls EXCEPT ![c] = 0]), {"calls"})
  /\ toasts' = [toasts EXCEPT ![t][c] = @ + 1]
  /\ removed' = removed \cup {c}
  /\ UNCHANGED <<incoming, given, forked>>

(* Mutants: the toast stays after its Undo, or ends twice. *)
ToastStays(t, c) == toasts
ToastEndsTwice(t, c) == [toasts EXCEPT ![t][c] = @ - 2]
ToastGone(t, c) == [toasts EXCEPT ![t][c] = @ - 1]

Undo(t, c) ==
  /\ toasts[t][c] > 0 /\ page[t].calls[c] < MaxCopies
  /\ Saves(t, SetCalls(t, [page[t].calls EXCEPT ![c] = @ + 1]), {"calls"})
  /\ toasts' = ToastGone(t, c)
  /\ UNCHANGED <<incoming, given, removed, forked>>

(* Five seconds later. *)
ToastExpires(t, c) ==
  /\ toasts[t][c] > 0
  /\ toasts' = [toasts EXCEPT ![t][c] = @ - 1]
  /\ UNCHANGED <<page, disk, incoming, given, removed, forked, stale>>

(* handleFork: a new workspace, and of the calls S of the share those that *)
(* are not there.                                                          *)
Fork(t, w, S) ==
  LET missing == {c \in S : page[t].calls[c] = 0}
      calls == [c \in SavedCall |-> IF c \in missing THEN 1 ELSE page[t].calls[c]] IN
  /\ w \notin given /\ given' = given \cup {w} \cup S
  /\ Saves(t, SetPlaces(SetCalls(t, calls), w, S),
           {"places"} \cup (IF missing = {} THEN {} ELSE {"calls"}))
  /\ forked' = forked \cup {c \in missing : toasts[t][c] > 0}
  /\ UNCHANGED <<toasts, incoming, removed>>

(* duplicateWorkspace. *)
Duplicate(t, w, v) ==
  /\ w \in page[t].places
  /\ v \notin given /\ given' = given \cup {v}
  /\ Saves(t, SetPlaces(page[t], v, page[t].links[w]), {"places"})
  /\ UNCHANGED <<toasts, incoming, removed, forked>>

-----------------------------------------------------------------------------
(* Mutants: the workspaces are written first; two writes pass for three.   *)
WrittenPlacesFirst(n, w, S, links) ==
  [calls |-> [c \in SavedCall |-> IF n >= 3 /\ c \in S THEN 1 ELSE disk.calls[c]],
   places |-> disk.places \cup (IF n >= 1 THEN {w} ELSE {}),
   links |-> IF n >= 1 THEN [disk.links EXCEPT ![w] = links] ELSE disk.links]
AnyWritten(n) == n >= 2

(* handlePreImportConfirm writes the contracts, the calls, the workspaces  *)
(* and the notes to the storage, beside what is there; a full storage      *)
(* refuses one of the writes and so the rest: the first n remain (those of *)
(* no write at all, or of the contracts only, change nothing here).        *)
Written(n, w, S, links) ==
  [calls |-> [c \in SavedCall |-> IF n >= 2 /\ c \in S THEN 1 ELSE disk.calls[c]],
   places |-> disk.places \cup (IF n >= 3 THEN {w} ELSE {}),
   links |-> IF n >= 3 THEN [disk.links EXCEPT ![w] = links] ELSE disk.links]
AllWritten(n) == n = 4

(* The file names a workspace and the calls S the user has picked; without *)
(* the restoration of the workspace it comes all the same, with no links.  *)
ImportFile(t, w, S, links, n) ==
  /\ incoming[t] = NoPlace
  /\ disk' = Written(n, w, S, links)
  /\ incoming' = IF AllWritten(n) THEN [incoming EXCEPT ![t] = w] ELSE incoming
  /\ given' = given \cup {w} \cup S
  /\ UNCHANGED <<page, toasts, removed, forked, stale>>

(* The other branch, for a full backup: its list of calls replaces the one *)
(* in the storage; again, a write may be refused.  The list is one that    *)
(* handleExport once saved, copies of forked calls included (a file that   *)
(* has none changes as little as one with the list that is there); the     *)
(* workspaces and their links are not in the file.                         *)
ImportBackup(t, calls, finished) ==
  /\ incoming[t] = NoPlace
  /\ \A c \in SavedCall : calls[c] > 1 => c \in forked
  /\ disk' = [disk EXCEPT !.calls = calls]
  /\ given' = given \cup {c \in SavedCall : calls[c] > 0}
  /\ removed' = removed \cup {c \in SavedCall : calls[c] = 0 /\ disk.calls[c] > 0}
  /\ incoming' = IF finished THEN [incoming EXCEPT ![t] = Backup] ELSE incoming
  /\ UNCHANGED <<page, toasts, forked, stale>>

(* The reload an import asks for after 1.5 seconds, or one of the user. *)
ReloadTab(t) ==
  /\ page' = [page EXCEPT ![t] = disk]
  /\ toasts' = [toasts EXCEPT ![t] = [c \in SavedCall |-> 0]]
  /\ incoming' = [incoming EXCEPT ![t] = NoPlace]
  /\ UNCHANGED <<disk, given, removed, forked, stale>>

DataNext ==
  \E t \in Tab :
    \/ \E S \in SUBSET SavedCall : AddCalls(t, S)
    \/ \E c \in SavedCall : RemoveCall(t, c) \/ Undo(t, c) \/ ToastExpires(t, c)
    \/ \E w \in Place, S \in SUBSET SavedCall :
         \/ Fork(t, w, S)
         \/ \E links \in {S, {}}, n \in 1 .. 4 : ImportFile(t, w, S, links, n)
    \/ \E calls \in [SavedCall -> 0 .. MaxCopies], finished \in BOOLEAN :
         ImportBackup(t, calls, finished)
    \/ \E w, v \in Place : Duplicate(t, w, v)
    \/ ReloadTab(t)

DataSpec == DataInit /\ [][DataNext]_dataVars

-----------------------------------------------------------------------------
(* What the pages and the storage hold has its type.                       *)
DataTypeOK ==
  /\ page \in [Tab -> Data] /\ disk \in Data
  /\ toasts \in [Tab -> [SavedCall -> 0 .. MaxCopies]]
  /\ incoming \in [Tab -> Place \cup {NoPlace, Backup}]
  /\ given \subseteq SavedCall \cup Place
  /\ removed \subseteq SavedCall /\ forked \subseteq removed
  /\ stale \subseteq {"calls", "places"}

DataCopies == {disk} \cup {page[t] : t \in Tab}

(* An id is in the list once, unless its removal was undone after a fork   *)
(* of a shared workspace had already brought the call back.                *)
OneCopyUnlessForked ==
  \A d \in DataCopies, c \in SavedCall : d.calls[c] > 1 => c \in forked

(* A workspace links a call that is not in the list only if the call was   *)
(* removed (removeCall drops no link), or missing in a backup that         *)
(* replaced the list, or the list was written by a page that had not seen  *)
(* the call; an import of a workspace that is cut short breaks no link.    *)
LinksResolveUnlessRemoved ==
  \A d \in DataCopies, w \in Place : \A c \in d.links[w] :
    d.calls[c] > 0 \/ c \in removed \/ "calls" \in stale

(* What a page has imported and is about to reload for is in the storage,  *)
(* unless a page that had not seen it wrote its workspaces over it.        *)
ImportSurvives ==
  \A t \in Tab : incoming[t] \in Place =>
    incoming[t] \in disk.places \/ "places" \in stale

(* Together: saved calls are listed once, links resolve and an import      *)
(* survives, but for the causes named.                                     *)
DataInv ==
  /\ DataTypeOK /\ OneCopyUnlessForked /\ LinksResolveUnlessRemoved
  /\ ImportSurvives
=============================================================================
