------------------------------- MODULE AuditLog -------------------------------
(***************************************************************************)
(* The audit trail of the API (lib/audit.service.ts): rows are added by    *)
(* every mutation, old ones are pruned, and a reader walks through them    *)
(* from the newest to the oldest, page by page, either with a cursor or    *)
(* with the offsets kept for older clients.                                *)
(*                                                                         *)
(* A row is stamped before it is visible, so that one may appear below     *)
(* others; ids are random, so that any unused one may come next.  A page   *)
(* with an offset takes two queries, of its rows and of their number,      *)
(* which run side by side.  The filters of a walk are the same on every    *)
(* page: the rows are those that match.                                    *)
(***************************************************************************)
EXTENDS Naturals, FiniteSets, FiniteSetsExt

CONSTANTS
  MaxRows,  \* bound on rows, by id
  MaxStamp, \* bound on the clock, in days
  MaxLag,   \* the longest a row takes from its stamp to its commit
  Take      \* the limits a reader may ask for

ASSUME AuditAssumption ==
  /\ MaxRows \in Nat /\ MaxStamp \in Nat \ {0} /\ MaxLag \in 0 .. MaxStamp
  /\ Take \subseteq Nat \ {0}

VARIABLES
  today,
  rows,   \* the visible rows: createdAt and id
  used,   \* the ids given out
  walk,   \* the reader
  owed,   \* history: the rows the walk must still show
  shown,  \* history: the rows it has shown
  twice,  \* history: it has shown some row twice
  torn    \* history: rows came between the two queries of a page

walkVars == <<walk, owed, shown, twice, torn>>
auditVars == <<today, rows, used, walkVars>>

Row == [at : 0 .. MaxStamp, id : 1 .. MaxRows]

(* orderBy createdAt and then id, both descending. *)
Above(a, b) == a.at > b.at \/ (a.at = b.at /\ a.id > b.id)

(* Where a walk stands: the last row of its newest page if it has a        *)
(* cursor, its offset otherwise; and what the queries of a page found.     *)
Walk == [kind : {"cursor", "offset"}, over : BOOLEAN, take : Take \cup {0},
         after : SUBSET Row, skip : Nat, total : Nat, got : Nat, counted : BOOLEAN,
         read : BOOLEAN]
NoWalk == [kind |-> "cursor", over |-> TRUE, take |-> 0, after |-> {}, skip |-> 0,
           total |-> 0, got |-> 0, counted |-> FALSE, read |-> FALSE]

AuditInit ==
  /\ today = MaxLag
  /\ rows = {} /\ used = {}
  /\ walk = NoWalk /\ owed = {} /\ shown = {} /\ twice = FALSE /\ torn = FALSE

-----------------------------------------------------------------------------
(* Mutant: the caller stamps its row. *)
StampedByCaller(at) == today - MaxLag <= at

StampedNow(at) == today - MaxLag <= at /\ at <= today

(* log. *)
LogEntry(id, at) ==
  /\ id \notin used /\ used' = used \cup {id}
  /\ StampedNow(at)
  /\ rows' = rows \cup {[at |-> at, id |-> id]}
  /\ torn' = (torn \/ walk.counted \/ walk.read)
  /\ UNCHANGED <<today, walk, owed, shown, twice>>

(* prune and handleScheduledPrune: the rows older than some days go. *)
Prune(cutoff) ==
  /\ cutoff <= today /\ \E r \in rows : r.at < cutoff
  /\ rows' = {r \in rows : r.at >= cutoff}
  /\ owed' = owed \cap rows'
  /\ UNCHANGED <<today, used, walk, shown, twice, torn>>

NextDay ==
  /\ today < MaxStamp /\ today' = today + 1
  /\ UNCHANGED <<rows, used, walkVars>>

-----------------------------------------------------------------------------
BeginWalk(kind, take) ==
  /\ walk.over
  /\ walk' = [NoWalk EXCEPT !.kind = kind, !.over = FALSE, !.take = take]
  /\ owed' = rows /\ shown' = {} /\ twice' = FALSE /\ torn' = FALSE
  /\ UNCHANGED <<today, rows, used>>

(* Mutant: the cursor compares stamps only. *)
BelowByStamp(r, c) == r.at < c.at

Below(r, c) == Above(c, r)

Shows(page) ==
  /\ owed' = owed \ page /\ shown' = shown \cup page
  /\ twice' = (twice \/ page \cap shown # {})

Ended == [NoWalk EXCEPT !.kind = walk.kind]

(* The newest of some rows, n of them or all there are. *)
Newest(n, R) == {r \in R : Cardinality({s \in R : Above(s, r)}) < n}
Last(page) == CHOOSE r \in page : \A s \in page : s = r \/ Above(s, r)

(* One query finds the page and, by one row more than asked for, whether   *)
(* there is another.                                                       *)
CursorPage ==
  LET left == {r \in rows : \A c \in walk.after : Below(r, c)}
      page == Newest(walk.take, left) IN
  /\ walk.kind = "cursor" /\ ~ walk.over
  /\ walk' = IF Cardinality(left) > walk.take THEN [walk EXCEPT !.after = {Last(page)}]
             ELSE Ended
  /\ Shows(page)
  /\ UNCHANGED <<today, rows, used, torn>>

(* Mutant: the offset of the next page is one too far.                     *)
SkipsMore == walk.skip + walk.got + 1
SkipsPage == walk.skip + walk.got

(* Equal stamps come in any order, and not the same one in every query.    *)
OffsetPages(R) ==
  IF walk.skip >= Cardinality(R) THEN {{}}
  ELSE {page \in SUBSET R :
          /\ Cardinality(page) = Min({walk.take, Cardinality(R) - walk.skip})
          /\ \E before \in kSubset(walk.skip, R \ page) :
               /\ \A r \in before, s \in R \ before : r.at >= s.at
               /\ \A r \in page, s \in R \ (before \cup page) : r.at >= s.at}

OffsetRead ==
  /\ walk.kind = "offset" /\ ~ walk.over /\ ~ walk.read
  /\ \E page \in OffsetPages(rows) :
       walk' = [walk EXCEPT !.read = TRUE, !.got = Cardinality(page)] /\ Shows(page)
  /\ UNCHANGED <<today, rows, used, torn>>

OffsetCount ==
  /\ walk.kind = "offset" /\ ~ walk.over /\ ~ walk.counted
  /\ walk' = [walk EXCEPT !.counted = TRUE, !.total = Cardinality(rows)]
  /\ UNCHANGED <<today, rows, used, owed, shown, twice, torn>>

(* hasMore; the reader goes on from the end of the page. *)
OffsetPage ==
  /\ walk.kind = "offset" /\ walk.read /\ walk.counted
  /\ walk' = IF SkipsPage < walk.total
             THEN [walk EXCEPT !.skip = SkipsPage, !.counted = FALSE, !.read = FALSE,
                               !.total = 0, !.got = 0]
             ELSE Ended
  /\ UNCHANGED <<today, rows, used, owed, shown, twice, torn>>

AuditNext ==
  \/ \E id \in 1 .. MaxRows, at \in 0 .. MaxStamp : LogEntry(id, at)
  \/ \E cutoff \in 0 .. MaxStamp : Prune(cutoff)
  \/ NextDay
  \/ \E kind \in {"cursor", "offset"}, take \in Take : BeginWalk(kind, take)
  \/ CursorPage \/ OffsetRead \/ OffsetCount \/ OffsetPage

AuditSpec == AuditInit /\ [][AuditNext]_auditVars

-----------------------------------------------------------------------------
(* The rows and the walk have their types.                                 *)
AuditTypeOK ==
  /\ today \in 0 .. MaxStamp /\ rows \subseteq Row /\ used \subseteq 1 .. MaxRows
  /\ \A r, s \in rows : r.id = s.id => r = s
  /\ \A r \in rows : r.at <= today /\ r.id \in used
  /\ walk \in Walk /\ Cardinality(walk.after) <= 1
  /\ owed \subseteq rows /\ shown \subseteq Row
  /\ twice \in BOOLEAN /\ torn \in BOOLEAN

(* A walk with a cursor is stable: whatever is added or pruned meanwhile,  *)
(* no row is shown twice, and what it owes lies ahead of it, so that at    *)
(* its end it has shown every row that was there when it began and has not *)
(* been pruned.                                                            *)
CursorWalksAreStable ==
  walk.kind = "cursor" =>
    /\ ~ twice
    /\ \A r \in owed, c \in walk.after : Above(c, r)
    /\ walk.over => owed = {}

(* A walk with offsets skips no row that was there when it began, unless   *)
(* one that shares its stamp was shown in its stead, or rows were added    *)
(* between the two queries of a page; it may show rows twice.              *)
OffsetWalksSkipOnlyTies ==
  walk.kind = "offset" /\ ~ torn =>
    \A r \in owed :
      \/ \E s \in shown : s.at = r.at
      \/ ~ walk.over /\ Cardinality({s \in rows : Above(s, r)}) >= walk.skip

(* Together: what either kind of walk over a trail that grows and is       *)
(* pruned may skip or repeat.                                              *)
AuditInv ==
  /\ AuditTypeOK /\ CursorWalksAreStable /\ OffsetWalksSkipOnlyTies
=============================================================================
