---------------------------- MODULE WorkspaceApi ----------------------------
(***************************************************************************)
(* The database side of apps/api: workspaces (workspaces.service.ts),      *)
(* their share links (shares.service.ts) and the rotation of owner keys    *)
(* (owner-key-rotation.service.ts), over the tables they have in common.   *)
(*                                                                         *)
(* A handler reads, checks what it read, and writes in a later statement   *)
(* that tests nothing but the id; requests interleave between the two.  A  *)
(* request is refused where it reads, without a trace in the tables, so    *)
(* only requests that pass their checks take a slot here.                  *)
(***************************************************************************)
EXTENDS Naturals, FiniteSets

CONSTANTS
  Id,           \* workspace ids
  Owner,        \* owner keys
  NoOwner,
  FirstId,      \* one of them, where the id means nothing
  Token,        \* share tokens
  FirstToken,   \* one of them, where the token means nothing
  Request,      \* requests that may be under way at once
  MaxRevision   \* bound on the revision of a row

ASSUME ApiAssumption ==
  /\ NoOwner \notin Owner /\ FirstId \in Id /\ FirstToken \in Token
  /\ MaxRevision \in Nat

VARIABLES
  row,        \* the table of workspaces
  share,      \* the table of share links
  call,       \* call[r]: request r, between its read and its write
  recent,     \* keys whose rotationTimestamps entry is younger than an hour
  owners      \* history: the keys that have owned each id

tables == <<row, share>>
vars == <<tables, call, recent, owners>>

Missing == [owner |-> NoOwner, revision |-> 0]
Row == [owner : Owner \cup {NoOwner}, revision : 0 .. MaxRevision]
Share == [state : {"unused", "live", "revoked", "deleted"}, workspace : Id, expired : BOOLEAN]

(* What a request does next, named by the write it is about to make.  Only *)
(* those in Checked hold something they have read in the row of call[r].id.*)
Checked == {"update", "tags", "remove", "import", "share"}
Visit == {"resolve", "fork"}
Rotation == {"count", "move", "record"}
Op == {"none", "revoke", "mark"} \cup Checked \cup Visit \cup Rotation

(* raced: what the request has read has changed since.                     *)
Call == [op : Op, key : Owner \cup {NoOwner}, id : Id, token : Token, to : Owner \cup {NoOwner},
         base : 0 .. MaxRevision, guarded : BOOLEAN, raced : BOOLEAN]
Idle == [op |-> "none", key |-> NoOwner, id |-> FirstId, token |-> FirstToken,
         to |-> NoOwner, base |-> 0, guarded |-> FALSE, raced |-> FALSE]

Exists(i) == row[i].owner # NoOwner
Served(t) == share[t].state = "live" /\ ~ share[t].expired
Importing(i) == \E r \in Request : call[r].op = "import" /\ call[r].id = i

Init ==
  /\ row = [i \in Id |-> Missing]
  /\ share = [t \in Token |-> [state |-> "unused", workspace |-> FirstId, expired |-> FALSE]]
  /\ call = [r \in Request |-> Idle]
  /\ recent = {}
  /\ owners = [i \in Id |-> {}]

(* A request that has passed its checks, one that goes on, and one that    *)
(* ends; the requests in R find that what they have read has changed.      *)
Accept(r, c) == call[r].op = "none" /\ call' = [call EXCEPT ![r] = c]
GoOn(r, o, R) ==
  call' = [q \in Request |-> IF q = r THEN [call[q] EXCEPT !.op = o]
                             ELSE [call[q] EXCEPT !.raced = @ \/ q \in R]]
End(r, R) ==
  call' = [q \in Request |-> IF q = r THEN Idle ELSE [call[q] EXCEPT !.raced = @ \/ q \in R]]

Readers(S) == {r \in Request : call[r].op \in Checked /\ call[r].id \in S}
Visitors(L) == {r \in Request : call[r].op \in Visit /\ call[r].token \in L}
Rotating(k) == {r \in Request : call[r].op \in Rotation /\ call[r].key = k}

-----------------------------------------------------------------------------
(* Workspaces.  A new row gets a fresh id and revision 0.                  *)
Insert(i, k) ==
  /\ row' = [row EXCEPT ![i] = [owner |-> k, revision |-> 0]]
  /\ owners' = [owners EXCEPT ![i] = @ \cup {k}]
Fresh(i) == owners[i] = {} /\ ~ Importing(i)

(* create: one statement, and nothing to check. *)
Create(i, k) ==
  /\ Fresh(i) /\ Insert(i, k)
  /\ UNCHANGED <<share, call, recent>>

(* Mutants: the row is read by id alone; a stale revision is let through.  *)
OwnsAny(k, i) == Exists(i)
FitsAny(b, i) == TRUE
OwnsRow(k, i) == row[i].owner = k
Fits(b, i) == b = row[i].revision

(* update: get the row of this owner, compare the revision if one is given.*)
ReadForUpdate(r, k, i, g, b) ==
  /\ OwnsRow(k, i)
  /\ IF g THEN Fits(b, i) ELSE b = 0
  /\ Accept(r, [Idle EXCEPT !.op = "update", !.key = k, !.id = i, !.guarded = g, !.base = b])
  /\ UNCHANGED <<tables, recent, owners>>

(* updateTags and remove read the row in the same way. *)
ReadForWrite(r, k, i, o) ==
  /\ OwnsRow(k, i)
  /\ Accept(r, [Idle EXCEPT !.op = o, !.key = k, !.id = i])
  /\ UNCHANGED <<tables, recent, owners>>

(* Mutant: a row that is gone is written all the same. *)
ChangesAnyway(r, revised) ==
  row' = [row EXCEPT ![call[r].id] = revised] /\ End(r, Readers({call[r].id}))

(* The second statement names the row by its id; P2025 if it is gone.      *)
Changes(r, revised) ==
  LET i == call[r].id IN
  IF Exists(i)
  THEN row' = [row EXCEPT ![i] = revised] /\ End(r, Readers({i}))
  ELSE UNCHANGED row /\ End(r, {})

WriteUpdate(r) ==
  LET old == row[call[r].id] IN
  /\ call[r].op = "update" /\ old.revision < MaxRevision
  /\ Changes(r, [owner |-> old.owner, revision |-> old.revision + 1])
  /\ UNCHANGED <<share, recent, owners>>

WriteTags(r) ==
  /\ call[r].op = "tags"
  /\ Changes(r, row[call[r].id])
  /\ UNCHANGED <<share, recent, owners>>

(* Mutant: the links of a deleted workspace stay. *)
KeepLinks(i) == share
(* onDelete: Cascade. *)
DropLinks(i) ==
  [t \in Token |-> IF share[t].workspace = i /\ share[t].state # "unused"
                   THEN [share[t] EXCEPT !.state = "deleted"] ELSE share[t]]

WriteRemove(r) ==
  LET i == call[r].id IN
  /\ call[r].op = "remove"
  /\ IF Exists(i)
     THEN /\ row' = [row EXCEPT ![i] = Missing] /\ share' = DropLinks(i)
          /\ End(r, Readers({i}) \cup Visitors({t \in Token : share[t].workspace = i}))
     ELSE UNCHANGED tables /\ End(r, {})
  /\ UNCHANGED <<recent, owners>>

(* import: the id must be unused when it is looked up, and P2002 says so   *)
(* if it is used when the row is created.                                  *)
ReadForImport(r, k, i) ==
  /\ ~ Exists(i)
  /\ Accept(r, [Idle EXCEPT !.op = "import", !.key = k, !.id = i])
  /\ UNCHANGED <<tables, recent, owners>>

(* Mutant: import as an upsert. *)
WriteImportOver(r) ==
  /\ call[r].op = "import"
  /\ Insert(call[r].id, call[r].key) /\ End(r, Readers({call[r].id}))
  /\ UNCHANGED <<share, recent>>

WriteImport(r) ==
  /\ call[r].op = "import"
  /\ IF Exists(call[r].id)
     THEN UNCHANGED <<row, owners>> /\ End(r, {})
     ELSE Insert(call[r].id, call[r].key) /\ End(r, Readers({call[r].id}))
  /\ UNCHANGED <<share, recent>>

-----------------------------------------------------------------------------
(* Share links. *)
ReadForShare(r, k, i, t) ==
  /\ OwnsRow(k, i) /\ share[t].state = "unused"
  /\ \A q \in Request : call[q].op = "share" => call[q].token # t
  /\ Accept(r, [Idle EXCEPT !.op = "share", !.key = k, !.id = i, !.token = t])
  /\ UNCHANGED <<tables, recent, owners>>

(* connect: the link is created only with its workspace.                   *)
Connects(i) == Exists(i)

WriteShare(r) ==
  /\ call[r].op = "share"
  /\ share' = IF Connects(call[r].id)
              THEN [share EXCEPT ![call[r].token] =
                      [state |-> "live", workspace |-> call[r].id, expired |-> FALSE]]
              ELSE share
  /\ End(r, {})
  /\ UNCHANGED <<row, recent, owners>>

(* No request is told of the time. *)
Expire(t) ==
  /\ share[t].state \in {"live", "revoked"} /\ ~ share[t].expired
  /\ share' = [share EXCEPT ![t].expired = TRUE]
  /\ call' = [q \in Request |-> [call[q] EXCEPT !.raced = @ \/ q \in Visitors({t})]]
  /\ UNCHANGED <<row, recent, owners>>

(* Mutant: resolve looks at the expiry but not at revokedAt. *)
ResolvableIfFresh(t) == share[t].state \in {"live", "revoked"} /\ ~ share[t].expired
Resolvable(t) == Served(t)

(* resolve and fork look at both, and read neither again. *)
ReadForResolve(r, t) ==
  /\ Resolvable(t)
  /\ Accept(r, [Idle EXCEPT !.op = "resolve", !.token = t])
  /\ UNCHANGED <<tables, recent, owners>>

(* The view is counted if the link is there, revoked or not. *)
CountView(r) ==
  /\ call[r].op = "resolve"
  /\ End(r, {})
  /\ UNCHANGED <<tables, recent, owners>>

ReadForFork(r, k, t) ==
  /\ Served(t)
  /\ Accept(r, [Idle EXCEPT !.op = "fork", !.key = k, !.token = t])
  /\ UNCHANGED <<tables, recent, owners>>

WriteFork(r, i) ==
  /\ call[r].op = "fork"
  /\ Fresh(i) /\ Insert(i, call[r].key) /\ End(r, {})
  /\ UNCHANGED <<share, recent>>

(* revoke reads the link, then the owner of its workspace, then marks the  *)
(* link; one that was revoked when it was read is left as it is.           *)
ReadForRevoke(r, k, t) ==
  /\ share[t].state = "live"
  /\ Accept(r, [Idle EXCEPT !.op = "revoke", !.key = k, !.token = t])
  /\ UNCHANGED <<tables, recent, owners>>

ReadOwnerForRevoke(r) ==
  /\ call[r].op = "revoke"
  /\ IF OwnsRow(call[r].key, share[call[r].token].workspace)
     THEN GoOn(r, "mark", {}) ELSE End(r, {})
  /\ UNCHANGED <<tables, recent, owners>>

WriteRevoke(r) ==
  LET t == call[r].token IN
  /\ call[r].op = "mark"
  /\ share' = IF share[t].state = "live" THEN [share EXCEPT ![t].state = "revoked"] ELSE share
  /\ End(r, Visitors({t}))
  /\ UNCHANGED <<row, recent, owners>>

(* cleanup deletes revoked and expired links in one statement. *)
Cleanup ==
  /\ share' = [t \in Token |->
                 IF share[t].state = "revoked" \/ (share[t].state = "live" /\ share[t].expired)
                 THEN [share[t] EXCEPT !.state = "deleted"] ELSE share[t]]
  /\ UNCHANGED <<row, call, recent, owners>>

-----------------------------------------------------------------------------
(* Rotation of owner keys: look at the hourly limit, count the rows of the *)
(* old key, move them all in one statement, and remember the rotation.     *)
(* The grace period it also remembers is asked for by nobody.              *)

(* Mutant: the limit is not looked at. *)
AllowedAlways(k) == TRUE
Allowed(k) == k \notin recent

StartRotation(r, k, n) ==
  /\ k # n /\ Allowed(k)
  /\ Accept(r, [Idle EXCEPT !.op = "count", !.key = k, !.to = n])
  /\ UNCHANGED <<tables, recent, owners>>

CountRows(r) ==
  /\ call[r].op = "count"
  /\ IF \E i \in Id : row[i].owner = call[r].key THEN GoOn(r, "move", {}) ELSE End(r, {})
  /\ UNCHANGED <<tables, recent, owners>>

MoveRows(r) ==
  LET S == {i \in Id : row[i].owner = call[r].key} IN
  /\ call[r].op = "move"
  /\ row' = [i \in Id |-> IF i \in S THEN [row[i] EXCEPT !.owner = call[r].to] ELSE row[i]]
  /\ owners' = [i \in Id |-> IF i \in S THEN owners[i] \cup {call[r].to} ELSE owners[i]]
  /\ GoOn(r, "record", Readers(S))
  /\ UNCHANGED <<share, recent>>

Recorded(r) ==
  /\ call[r].op = "record"
  /\ recent' = recent \cup {call[r].key}
  /\ End(r, Rotating(call[r].key))
  /\ UNCHANGED <<tables, owners>>

HourPasses(k) ==
  /\ k \in recent /\ recent' = recent \ {k}
  /\ UNCHANGED <<tables, call, owners>>

(* A statement fails and the request with it, or the process restarts:     *)
(* requests under way are dropped, and the hourly limit is forgotten.      *)
Fails(r) ==
  /\ call[r].op # "none" /\ End(r, {})
  /\ UNCHANGED <<tables, recent, owners>>

Restart ==
  /\ call' = [r \in Request |-> Idle]
  /\ recent' = {}
  /\ UNCHANGED <<tables, owners>>

Workspaces(r) ==
  \/ \E k \in Owner, i \in Id :
       \/ \E g \in BOOLEAN, b \in 0 .. MaxRevision : ReadForUpdate(r, k, i, g, b)
       \/ \E o \in {"tags", "remove"} : ReadForWrite(r, k, i, o)
       \/ ReadForImport(r, k, i)
  \/ WriteUpdate(r) \/ WriteTags(r) \/ WriteRemove(r) \/ WriteImport(r)

Links(r) ==
  \/ \E k \in Owner, t \in Token :
       \/ \E i \in Id : ReadForShare(r, k, i, t)
       \/ ReadForFork(r, k, t) \/ ReadForRevoke(r, k, t)
  \/ \E t \in Token : ReadForResolve(r, t)
  \/ WriteShare(r) \/ CountView(r) \/ ReadOwnerForRevoke(r) \/ WriteRevoke(r)
  \/ \E i \in Id : WriteFork(r, i)

Rotations(r) ==
  \/ \E k, n \in Owner : StartRotation(r, k, n)
  \/ CountRows(r) \/ MoveRows(r) \/ Recorded(r)

Next ==
  \/ \E i \in Id, k \in Owner : Create(i, k)
  \/ \E r \in Request : Workspaces(r) \/ Links(r) \/ Rotations(r) \/ Fails(r)
  \/ \E t \in Token : Expire(t)
  \/ Cleanup \/ Restart
  \/ \E k \in Owner : HourPasses(k)

Spec == Init /\ [][Next]_vars

-----------------------------------------------------------------------------
(* The tables, the requests and the histories have their types; an id      *)
(* without an owner has no row.                                            *)
TypeOK ==
  /\ row \in [Id -> Row] /\ share \in [Token -> Share] /\ call \in [Request -> Call]
  /\ \A i \in Id : ~ Exists(i) => row[i] = Missing
  /\ recent \subseteq Owner /\ owners \in [Id -> SUBSET Owner]

(* Only a key that has owned a workspace is ever about to change, delete   *)
(* or share it, though the statement that does names the row by its id,    *)
(* and the row may have passed to another key or been deleted and imported *)
(* by another since.                                                       *)
WritersHaveOwned ==
  \A r \in Request : call[r].op \in Checked \ {"import"} => call[r].key \in owners[call[r].id]

(* What a request has checked (the owner of the row, its revision, that    *)
(* there is no such row) still holds when it writes, unless another        *)
(* request has changed that row since: an update that overwrites one it    *)
(* has not seen overlapped it.                                             *)
ChecksHoldUnlessRaced ==
  \A r \in Request : call[r].op \in Checked /\ ~ call[r].raced =>
    IF call[r].op = "import" THEN ~ Exists(call[r].id)
    ELSE /\ OwnsRow(call[r].key, call[r].id)
         /\ call[r].guarded => call[r].base = row[call[r].id].revision

(* A link is there only with the workspace it shares, however create and   *)
(* delete interleave.                                                      *)
LinksHaveWorkspaces ==
  \A t \in Token : share[t].state \in {"live", "revoked"} => Exists(share[t].workspace)

(* A link that was revoked, has expired or is gone serves nobody but those *)
(* who were under way at the time, though resolve and fork read it once.   *)
ServedUnlessRaced ==
  \A r \in Request : call[r].op \in Visit /\ ~ call[r].raced => Served(call[r].token)

(* Once a rotation of a key is recorded, no other that begins within the   *)
(* hour passes the limit: only those that were under way at that moment    *)
(* do.  The record is kept in memory and made last, so that a restart or a *)
(* rotation that fails before it leave nothing to hold against the next.   *)
HourlyLimitUnlessRaced ==
  \A r \in Request : call[r].op \in Rotation /\ ~ call[r].raced => call[r].key \notin recent

(* What these rest on: the owner of a row is remembered, and a request     *)
(* that writes a key has one.                                              *)
OwnersRemembered == \A i \in Id : Exists(i) => row[i].owner \in owners[i]
CallsHaveKeys ==
  \A r \in Request :
    /\ call[r].op \in Checked \cup Rotation \cup {"fork"} => call[r].key \in Owner
    /\ call[r].op \in Rotation => call[r].to \in Owner

IInv ==
  /\ TypeOK /\ OwnersRemembered /\ CallsHaveKeys /\ WritersHaveOwned
  /\ ChecksHoldUnlessRaced /\ LinksHaveWorkspaces
  /\ ServedUnlessRaced /\ HourlyLimitUnlessRaced

(* Whatever overlaps, rows appear with revision 0, count their updates one *)
(* by one, and change hands only all together and by a rotation.           *)
Table == INSTANCE WorkspaceTable
ImplementsTable == Table!Spec
=============================================================================
