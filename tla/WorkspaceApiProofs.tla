------------------------- MODULE WorkspaceApiProofs -------------------------
(***************************************************************************)
(* Proofs about WorkspaceApi for every set of ids, owners, tokens and      *)
(* requests.  What a request has checked is a matter of that request and   *)
(* the tables alone, so that IInv is proved request by request: the one    *)
(* that moves is known, and the others keep what they have checked or are  *)
(* marked as raced.                                                        *)
(***************************************************************************)
EXTENDS WorkspaceApi, TLAPS

(* The part of IInv that is about request q. *)
Good(q) ==
  /\ call[q].op \in Checked \cup Rotation \cup {"fork"} => call[q].key \in Owner
  /\ call[q].op \in Rotation => call[q].to \in Owner
  /\ call[q].op \in Checked \ {"import"} => call[q].key \in owners[call[q].id]
  /\ call[q].op \in Checked /\ ~ call[q].raced =>
       IF call[q].op = "import" THEN ~ Exists(call[q].id)
       ELSE /\ OwnsRow(call[q].key, call[q].id)
            /\ call[q].guarded => call[q].base = row[call[q].id].revision
  /\ call[q].op \in Visit /\ ~ call[q].raced => Served(call[q].token)
  /\ call[q].op \in Rotation /\ ~ call[q].raced => call[q].key \notin recent

Base == TypeOK /\ OwnersRemembered /\ LinksHaveWorkspaces

LEMMA InvariantByRequest ==
  IInv <=> Base /\ \A q \in Request : Good(q)
<1>1. (\A q \in Request : Good(q)) <=>
        CallsHaveKeys /\ WritersHaveOwned /\ ChecksHoldUnlessRaced
          /\ ServedUnlessRaced /\ HourlyLimitUnlessRaced
  BY DEF Good, CallsHaveKeys, WritersHaveOwned, ChecksHoldUnlessRaced,
     ServedUnlessRaced, HourlyLimitUnlessRaced
<1> QED BY <1>1 DEF IInv, Base

-----------------------------------------------------------------------------
(* What the helpers do to the requests: one outside S keeps what it holds, *)
(* and is raced if it is in R or was before.                               *)
Holds(c, d) ==
  /\ c.op = d.op /\ c.key = d.key /\ c.id = d.id /\ c.token = d.token
  /\ c.to = d.to /\ c.base = d.base /\ c.guarded = d.guarded

Others(S, R) ==
  \A q \in Request \ S :
    /\ Holds(call'[q], call[q])
    /\ ~ call'[q].raced => ~ call[q].raced /\ q \notin R

LEMMA IdleIsCall ==
  Idle \in Call
<1>1. 0 \in 0 .. MaxRevision
  BY ApiAssumption
<1> QED BY <1>1, ApiAssumption DEF Idle, Call, Op

LEMMA AcceptDoes ==
  ASSUME TypeOK, NEW r \in Request, NEW c \in Call, Accept(r, c)
  PROVE  call' \in [Request -> Call] /\ call'[r] = c /\ Others({r}, {})
BY DEF TypeOK, Accept, Others, Holds

LEMMA RacedIsCall ==
  ASSUME NEW c \in Call, NEW b \in BOOLEAN
  PROVE  [c EXCEPT !.raced = b] \in Call /\ Holds([c EXCEPT !.raced = b], c)
         /\ ([c EXCEPT !.raced = b].raced <=> b)
BY DEF Call, Holds

LEMMA EndDoes ==
  ASSUME Base, NEW r \in Request, NEW R, End(r, R)
  PROVE  call' \in [Request -> Call] /\ call'[r] = Idle /\ Others({r}, R)
<1>1. /\ call' = [q \in Request |-> IF q = r THEN Idle
                    ELSE [call[q] EXCEPT !.raced = call[q].raced \/ q \in R]]
      /\ \A q \in Request : call[q] \in Call
      /\ Idle \in Call
  BY IdleIsCall DEF End, Base, TypeOK
<1>2. \A q \in Request : (call[q].raced \/ q \in R) \in BOOLEAN
  OBVIOUS
<1>3. call' \in [Request -> Call]
  BY <1>1, <1>2, RacedIsCall
<1>4. call'[r] = Idle
  BY <1>1
<1>5. ASSUME NEW q \in Request \ {r}
      PROVE  Holds(call'[q], call[q]) /\ (call'[q].raced <=> call[q].raced \/ q \in R)
  <2>1. call'[q] = [call[q] EXCEPT !.raced = call[q].raced \/ q \in R]
    BY <1>1
  <2> QED BY <2>1, <1>1, <1>2, RacedIsCall
<1> QED BY <1>3, <1>4, <1>5 DEF Others

LEMMA GoOnDoes ==
  ASSUME Base, NEW r \in Request, NEW R, NEW o \in Op, GoOn(r, o, R)
  PROVE  /\ call' \in [Request -> Call] /\ call'[r] = [call[r] EXCEPT !.op = o]
         /\ Others({r}, R)
<1>1. /\ call' = [q \in Request |-> IF q = r THEN [call[q] EXCEPT !.op = o]
                    ELSE [call[q] EXCEPT !.raced = call[q].raced \/ q \in R]]
      /\ \A q \in Request : call[q] \in Call
  BY DEF GoOn, Base, TypeOK
<1>2. \A q \in Request : (call[q].raced \/ q \in R) \in BOOLEAN
  OBVIOUS
<1>3. [call[r] EXCEPT !.op = o] \in Call
  BY <1>1 DEF Call
<1>4. call' \in [Request -> Call]
  BY <1>1, <1>2, <1>3, RacedIsCall
<1>5. call'[r] = [call[r] EXCEPT !.op = o]
  BY <1>1
<1>6. ASSUME NEW q \in Request \ {r}
      PROVE  Holds(call'[q], call[q]) /\ (call'[q].raced <=> call[q].raced \/ q \in R)
  <2>1. call'[q] = [call[q] EXCEPT !.raced = call[q].raced \/ q \in R]
    BY <1>1
  <2> QED BY <2>1, <1>1, <1>2, RacedIsCall
<1> QED BY <1>4, <1>5, <1>6 DEF Others

(* A request keeps what it has checked if it is marked whenever the rows   *)
(* or links it has read change, or its key is rotated.                     *)
LEMMA GoodIsKept ==
  ASSUME TypeOK, NEW q \in Request, Good(q), Holds(call'[q], call[q]),
         ~ call'[q].raced => ~ call[q].raced,
         \A i \in Id : owners[i] \subseteq owners'[i],
         call[q].op \in Checked /\ ~ call'[q].raced => row'[call[q].id] = row[call[q].id],
         call[q].op \in Visit /\ ~ call'[q].raced /\ Served(call[q].token)
           => Served(call[q].token)',
         call[q].op \in Rotation /\ ~ call'[q].raced /\ call[q].key \in recent'
           => call[q].key \in recent
  PROVE  Good(q)'
<1>1. call[q].id \in Id
  BY DEF TypeOK, Call
<1> QED BY <1>1 DEF Good, Holds, Exists, OwnsRow, Served

(* The requests R that a step marks are all that have read what it writes. *)
RowsMark(R) == \A i \in Id : row'[i] # row[i] => Readers({i}) \subseteq R
LinksMark(R) == \A t \in Token : Served(t) /\ ~ Served(t)' => Visitors({t}) \subseteq R
RotationsMark(R) == \A k \in recent' : k \in recent \/ Rotating(k) \subseteq R
OwnersGrow == \A i \in Id : owners[i] \subseteq owners'[i]

LEMMA OthersStayGood ==
  ASSUME IInv, NEW S, NEW R, Others(S, R),
         OwnersGrow, RowsMark(R), LinksMark(R), RotationsMark(R)
  PROVE  \A q \in Request \ S : Good(q)'
<1>1. SUFFICES ASSUME NEW q \in Request \ S PROVE Good(q)'
  OBVIOUS
<1>2. TypeOK /\ Good(q)
  BY InvariantByRequest DEF Base
<1>3. call[q].id \in Id /\ call[q].token \in Token
  BY <1>2 DEF TypeOK, Call
<1>4. /\ Holds(call'[q], call[q])
      /\ ~ call'[q].raced => ~ call[q].raced /\ q \notin R
  BY DEF Others
<1>5. call[q].op \in Checked /\ ~ call'[q].raced => row'[call[q].id] = row[call[q].id]
  BY <1>3, <1>4 DEF RowsMark, Readers
<1>6. call[q].op \in Visit /\ ~ call'[q].raced /\ Served(call[q].token)
        => Served(call[q].token)'
  BY <1>3, <1>4 DEF LinksMark, Visitors, Holds
<1>7. call[q].op \in Rotation /\ ~ call'[q].raced /\ call[q].key \in recent'
        => call[q].key \in recent
  BY <1>4 DEF RotationsMark, Rotating
<1> QED BY <1>2, <1>4, <1>5, <1>6, <1>7, GoodIsKept DEF OwnersGrow

(* A step of request r, and one of no request, that leave the tables well. *)
LEMMA StepKeepsInvariant ==
  ASSUME IInv, NEW r \in Request, NEW R, Others({r}, R), call' \in [Request -> Call],
         Base', Good(r)', OwnersGrow, RowsMark(R), LinksMark(R), RotationsMark(R)
  PROVE  IInv'
<1>1. \A q \in Request \ {r} : Good(q)'
  BY OthersStayGood
<1>2. (IInv <=> Base /\ \A q \in Request : Good(q))'
  BY InvariantByRequest, PTL
<1> QED BY <1>1, <1>2

LEMMA TableStepKeepsInvariant ==
  ASSUME IInv, NEW R, Others({}, R), call' \in [Request -> Call],
         Base', OwnersGrow, RowsMark(R), LinksMark(R), RotationsMark(R)
  PROVE  IInv'
<1>1. \A q \in Request : Good(q)'
  BY OthersStayGood
<1>2. (IInv <=> Base /\ \A q \in Request : Good(q))'
  BY InvariantByRequest, PTL
<1> QED BY <1>1, <1>2

LEMMA IdleIsGood ==
  ASSUME NEW r \in Request, call'[r] = Idle
  PROVE  Good(r)'
BY DEF Good, Idle, Checked, Visit, Rotation

LEMMA InitInv == Init => IInv
<1>1. SUFFICES ASSUME Init PROVE IInv
  OBVIOUS
<1>2. Missing \in Row /\ [state |-> "unused", workspace |-> FirstId, expired |-> FALSE] \in Share
  BY ApiAssumption DEF Missing, Row, Share
<1>3. Idle \in Call
  BY IdleIsCall
<1>4. TypeOK
  BY <1>1, <1>2, <1>3 DEF Init, TypeOK, Missing, Exists
<1>5. OwnersRemembered /\ LinksHaveWorkspaces
  BY <1>1 DEF Init, OwnersRemembered, LinksHaveWorkspaces, Exists, Missing
<1>6. \A q \in Request : Good(q)
  BY <1>1 DEF Init, Good, Idle, Checked, Visit, Rotation
<1> QED BY <1>4, <1>5, <1>6, InvariantByRequest DEF Base

-----------------------------------------------------------------------------
(* Steps that only read: the tables stay, and r holds what it has read.    *)
LEMMA ReadingKeepsInvariant ==
  ASSUME IInv, NEW r \in Request, NEW R, Others({r}, R), call' \in [Request -> Call],
         Good(r)', UNCHANGED <<tables, recent, owners>>
  PROVE  IInv'
<1>1. Base
  BY InvariantByRequest
<1>2. Base'
  BY <1>1 DEF Base, TypeOK, OwnersRemembered, LinksHaveWorkspaces, Exists, tables
<1>3. OwnersGrow /\ RowsMark(R) /\ LinksMark(R) /\ RotationsMark(R)
  BY DEF OwnersGrow, RowsMark, LinksMark, RotationsMark, tables, Served
<1> QED BY <1>2, <1>3, StepKeepsInvariant

LEMMA AcceptKeepsInvariant ==
  ASSUME IInv, NEW r \in Request, NEW c \in Call, Accept(r, c),
         call'[r] = c => Good(r)',
         UNCHANGED <<tables, recent, owners>>
  PROVE  IInv'
<1>1. TypeOK
  BY DEF IInv
<1>2. call' \in [Request -> Call] /\ call'[r] = c /\ Others({r}, {})
  BY <1>1, AcceptDoes
<1> QED BY <1>2, ReadingKeepsInvariant

LEMMA EndKeepsInvariant ==
  ASSUME IInv, NEW r \in Request, End(r, {}), UNCHANGED <<tables, recent, owners>>
  PROVE  IInv'
<1>1. Base
  BY InvariantByRequest
<1>2. call' \in [Request -> Call] /\ call'[r] = Idle /\ Others({r}, {})
  BY <1>1, EndDoes
<1> QED BY <1>2, IdleIsGood, ReadingKeepsInvariant

LEMMA ReadForUpdateStep ==
  ASSUME IInv, NEW r \in Request, NEW k \in Owner, NEW i \in Id, NEW g \in BOOLEAN,
         NEW b \in 0 .. MaxRevision, ReadForUpdate(r, k, i, g, b)
  PROVE  IInv'
<1> DEFINE c == [Idle EXCEPT !.op = "update", !.key = k, !.id = i, !.guarded = g, !.base = b]
<1>1. c \in Call
  BY IdleIsCall DEF Call, Op, Checked
<1>2. Accept(r, c) /\ UNCHANGED <<tables, recent, owners>>
  BY DEF ReadForUpdate
<1>3. k \in owners[i]
  BY ApiAssumption DEF ReadForUpdate, OwnsRow, IInv, OwnersRemembered, Exists
<1>4. /\ c.op = "update" /\ c.key = k /\ c.id = i /\ c.base = b /\ (c.guarded <=> g)
  BY DEF Idle
<1>5. call'[r] = c => Good(r)'
  BY <1>2, <1>3, <1>4 DEF Good, ReadForUpdate, OwnsRow, Fits, Checked, Visit, Rotation, tables
<1> QED BY <1>1, <1>2, <1>5, AcceptKeepsInvariant

LEMMA ReadForWriteStep ==
  ASSUME IInv, NEW r \in Request, NEW k \in Owner, NEW i \in Id, NEW o \in {"tags", "remove"},
         ReadForWrite(r, k, i, o)
  PROVE  IInv'
<1> DEFINE c == [Idle EXCEPT !.op = o, !.key = k, !.id = i]
<1>1. c \in Call
  BY IdleIsCall DEF Call, Op, Checked
<1>2. Accept(r, c) /\ UNCHANGED <<tables, recent, owners>>
  BY DEF ReadForWrite
<1>3. k \in owners[i]
  BY ApiAssumption DEF ReadForWrite, OwnsRow, IInv, OwnersRemembered, Exists
<1>4. c.op = o /\ c.key = k /\ c.id = i /\ c.guarded = FALSE
  BY DEF Idle
<1>5. call'[r] = c => Good(r)'
  BY <1>2, <1>3, <1>4 DEF Good, ReadForWrite, OwnsRow, Checked, Visit, Rotation, tables
<1> QED BY <1>1, <1>2, <1>5, AcceptKeepsInvariant

LEMMA ReadForImportStep ==
  ASSUME IInv, NEW r \in Request, NEW k \in Owner, NEW i \in Id, ReadForImport(r, k, i)
  PROVE  IInv'
<1> DEFINE c == [Idle EXCEPT !.op = "import", !.key = k, !.id = i]
<1>1. c \in Call
  BY IdleIsCall DEF Call, Op, Checked
<1>2. Accept(r, c) /\ UNCHANGED <<tables, recent, owners>>
  BY DEF ReadForImport
<1>3. c.op = "import" /\ c.key = k /\ c.id = i
  BY DEF Idle
<1>4. call'[r] = c => Good(r)'
  BY <1>2, <1>3 DEF Good, ReadForImport, Exists, Checked, Visit, Rotation, tables
<1> QED BY <1>1, <1>2, <1>4, AcceptKeepsInvariant

LEMMA ReadForShareStep ==
  ASSUME IInv, NEW r \in Request, NEW k \in Owner, NEW i \in Id, NEW t \in Token,
         ReadForShare(r, k, i, t)
  PROVE  IInv'
<1> DEFINE c == [Idle EXCEPT !.op = "share", !.key = k, !.id = i, !.token = t]
<1>1. c \in Call
  BY IdleIsCall DEF Call, Op, Checked
<1>2. Accept(r, c) /\ UNCHANGED <<tables, recent, owners>>
  BY DEF ReadForShare
<1>3. k \in owners[i]
  BY ApiAssumption DEF ReadForShare, OwnsRow, IInv, OwnersRemembered, Exists
<1>4. c.op = "share" /\ c.key = k /\ c.id = i /\ c.guarded = FALSE
  BY DEF Idle
<1>5. call'[r] = c => Good(r)'
  BY <1>2, <1>3, <1>4 DEF Good, ReadForShare, OwnsRow, Checked, Visit, Rotation, tables
<1> QED BY <1>1, <1>2, <1>5, AcceptKeepsInvariant

LEMMA ReadForResolveStep ==
  ASSUME IInv, NEW r \in Request, NEW t \in Token, ReadForResolve(r, t)
  PROVE  IInv'
<1> DEFINE c == [Idle EXCEPT !.op = "resolve", !.token = t]
<1>1. c \in Call
  BY IdleIsCall DEF Call, Op, Visit
<1>2. Accept(r, c) /\ UNCHANGED <<tables, recent, owners>>
  BY DEF ReadForResolve
<1>3. c.op = "resolve" /\ c.token = t
  BY DEF Idle
<1>4. call'[r] = c => Good(r)'
  BY <1>2, <1>3 DEF Good, ReadForResolve, Resolvable, Served, Checked, Visit, Rotation, tables
<1> QED BY <1>1, <1>2, <1>4, AcceptKeepsInvariant

LEMMA ReadForForkStep ==
  ASSUME IInv, NEW r \in Request, NEW k \in Owner, NEW t \in Token, ReadForFork(r, k, t)
  PROVE  IInv'
<1> DEFINE c == [Idle EXCEPT !.op = "fork", !.key = k, !.token = t]
<1>1. c \in Call
  BY IdleIsCall DEF Call, Op, Visit
<1>2. Accept(r, c) /\ UNCHANGED <<tables, recent, owners>>
  BY DEF ReadForFork
<1>3. c.op = "fork" /\ c.key = k /\ c.token = t
  BY DEF Idle
<1>4. call'[r] = c => Good(r)'
  BY <1>2, <1>3 DEF Good, ReadForFork, Served, Checked, Visit, Rotation, tables
<1> QED BY <1>1, <1>2, <1>4, AcceptKeepsInvariant

LEMMA ReadForRevokeStep ==
  ASSUME IInv, NEW r \in Request, NEW k \in Owner, NEW t \in Token, ReadForRevoke(r, k, t)
  PROVE  IInv'
<1> DEFINE c == [Idle EXCEPT !.op = "revoke", !.key = k, !.token = t]
<1>1. c \in Call
  BY IdleIsCall DEF Call, Op
<1>2. Accept(r, c) /\ UNCHANGED <<tables, recent, owners>>
  BY DEF ReadForRevoke
<1>3. c.op = "revoke"
  BY DEF Idle
<1>4. call'[r] = c => Good(r)'
  BY <1>3 DEF Good, Checked, Visit, Rotation
<1> QED BY <1>1, <1>2, <1>4, AcceptKeepsInvariant

LEMMA StartRotationStep ==
  ASSUME IInv, NEW r \in Request, NEW k \in Owner, NEW n \in Owner, StartRotation(r, k, n)
  PROVE  IInv'
<1> DEFINE c == [Idle EXCEPT !.op = "count", !.key = k, !.to = n]
<1>1. c \in Call
  BY IdleIsCall DEF Call, Op, Rotation
<1>2. Accept(r, c) /\ UNCHANGED <<tables, recent, owners>>
  BY DEF StartRotation
<1>3. c.op = "count" /\ c.key = k /\ c.to = n
  BY DEF Idle
<1>4. call'[r] = c => Good(r)'
  BY <1>2, <1>3 DEF Good, StartRotation, Allowed, Checked, Visit, Rotation
<1> QED BY <1>1, <1>2, <1>4, AcceptKeepsInvariant

(* A request that goes on to a step of the same kind keeps what it holds.  *)
LEMMA GoOnIsGood ==
  ASSUME IInv, NEW r \in Request, NEW R, NEW o \in {"move", "record", "mark"}, GoOn(r, o, R),
         o \in Rotation => call[r].op \in Rotation,
         recent' = recent
  PROVE  call' \in [Request -> Call] /\ Others({r}, R) /\ Good(r)'
<1>1. Base /\ Good(r) /\ call[r] \in Call
  BY InvariantByRequest DEF Base, TypeOK
<1>2. /\ call' \in [Request -> Call] /\ call'[r] = [call[r] EXCEPT !.op = o]
      /\ Others({r}, R)
  BY <1>1, GoOnDoes DEF Op, Rotation
<1>3. /\ call'[r].op = o /\ call'[r].key = call[r].key /\ call'[r].to = call[r].to
      /\ call'[r].raced <=> call[r].raced
  BY <1>1, <1>2 DEF Call
<1>4. Good(r)'
  BY <1>1, <1>3 DEF Good, Checked, Visit, Rotation
<1> QED BY <1>2, <1>4

LEMMA CountRowsStep ==
  ASSUME IInv, NEW r \in Request, CountRows(r)
  PROVE  IInv'
<1>1. CASE GoOn(r, "move", {})
  <2>1. call' \in [Request -> Call] /\ Others({r}, {}) /\ Good(r)'
    BY <1>1, GoOnIsGood DEF CountRows, Rotation
  <2> QED BY <2>1, ReadingKeepsInvariant DEF CountRows
<1>2. CASE End(r, {})
  BY <1>2, EndKeepsInvariant DEF CountRows
<1> QED BY <1>1, <1>2 DEF CountRows

LEMMA ReadOwnerForRevokeStep ==
  ASSUME IInv, NEW r \in Request, ReadOwnerForRevoke(r)
  PROVE  IInv'
<1>1. CASE GoOn(r, "mark", {})
  <2>1. call' \in [Request -> Call] /\ Others({r}, {}) /\ Good(r)'
    BY <1>1, GoOnIsGood DEF ReadOwnerForRevoke, Rotation
  <2> QED BY <2>1, ReadingKeepsInvariant DEF ReadOwnerForRevoke
<1>2. CASE End(r, {})
  BY <1>2, EndKeepsInvariant DEF ReadOwnerForRevoke
<1> QED BY <1>1, <1>2 DEF ReadOwnerForRevoke

-----------------------------------------------------------------------------
(* Steps that write the table of workspaces.                               *)

(* One row changes hands or content; the links stay.                       *)
LEMMA RowWritten ==
  ASSUME Base, NEW i \in Id, NEW w \in Row,
         row' = [row EXCEPT ![i] = w], UNCHANGED <<share, recent>>,
         w.owner # NoOwner, owners' \in [Id -> SUBSET Owner], OwnersGrow,
         w.owner \in owners'[i], call' \in [Request -> Call]
  PROVE  Base' /\ RowsMark(Readers({i})) /\ (\A R : LinksMark(R) /\ RotationsMark(R))
<1>1. row' \in [Id -> Row] /\ row'[i] = w /\ \A j \in Id \ {i} : row'[j] = row[j]
  BY DEF Base, TypeOK
<1>2. TypeOK'
  BY <1>1 DEF Base, TypeOK, Exists, Missing
<1>3. OwnersRemembered'
  BY <1>1 DEF Base, OwnersRemembered, OwnersGrow, Exists
<1>4. LinksHaveWorkspaces'
  BY <1>1 DEF Base, LinksHaveWorkspaces, Exists, TypeOK, Share
<1>5. RowsMark(Readers({i}))
  BY <1>1 DEF RowsMark
<1>6. ASSUME NEW R PROVE LinksMark(R) /\ RotationsMark(R)
  BY DEF LinksMark, RotationsMark, Served
<1> QED BY <1>2, <1>3, <1>4, <1>5, <1>6 DEF Base

LEMMA InsertWrites ==
  ASSUME Base, NEW i \in Id, NEW k \in Owner, Insert(i, k), UNCHANGED <<share, recent>>,
         call' \in [Request -> Call]
  PROVE  /\ Base' /\ OwnersGrow /\ RowsMark(Readers({i}))
         /\ \A R : LinksMark(R) /\ RotationsMark(R)
<1> DEFINE w == [owner |-> k, revision |-> 0]
<1>1. w \in Row /\ w.owner = k /\ k # NoOwner
  BY ApiAssumption DEF Row
<1>2. row' = [row EXCEPT ![i] = w]
  BY DEF Insert
<1>3. owners' \in [Id -> SUBSET Owner] /\ OwnersGrow /\ k \in owners'[i]
  BY DEF Insert, Base, TypeOK, OwnersGrow
<1> HIDE DEF w
<1> QED BY <1>1, <1>2, <1>3, RowWritten

(* Nobody has read the row of an id that nobody has used.                  *)
LEMMA FreshIsUnread ==
  ASSUME IInv, NEW i \in Id, Fresh(i)
  PROVE  Readers({i}) = {}
BY DEF IInv, WritersHaveOwned, Fresh, Importing, Readers

LEMMA CreateStep ==
  ASSUME IInv, NEW i \in Id, NEW k \in Owner, Create(i, k)
  PROVE  IInv'
<1>1. Base
  BY InvariantByRequest
<1>2. call' \in [Request -> Call] /\ Others({}, {})
  BY <1>1 DEF Create, Base, TypeOK, Others, Holds
<1>3. Base' /\ OwnersGrow /\ RowsMark({}) /\ LinksMark({}) /\ RotationsMark({})
  BY <1>1, <1>2, InsertWrites, FreshIsUnread DEF Create
<1> QED BY <1>2, <1>3, TableStepKeepsInvariant

LEMMA WriteForkStep ==
  ASSUME IInv, NEW r \in Request, NEW i \in Id, WriteFork(r, i)
  PROVE  IInv'
<1>1. Base /\ call[r].key \in Owner
  BY InvariantByRequest DEF WriteFork, Good
<1>2. call' \in [Request -> Call] /\ call'[r] = Idle /\ Others({r}, {})
  BY <1>1, EndDoes DEF WriteFork
<1>3. Base' /\ OwnersGrow /\ RowsMark({}) /\ LinksMark({}) /\ RotationsMark({})
  BY <1>1, <1>2, InsertWrites, FreshIsUnread DEF WriteFork
<1> QED BY <1>2, <1>3, IdleIsGood, StepKeepsInvariant

LEMMA WriteImportStep ==
  ASSUME IInv, NEW r \in Request, WriteImport(r)
  PROVE  IInv'
<1>1. Base /\ call[r].key \in Owner /\ call[r].id \in Id
  BY InvariantByRequest DEF WriteImport, Good, Base, TypeOK, Call, Checked
<1>2. CASE Exists(call[r].id)
  BY <1>2, EndKeepsInvariant DEF WriteImport, tables
<1>3. CASE ~ Exists(call[r].id)
  <2> DEFINE R == Readers({call[r].id})
  <2>1. Insert(call[r].id, call[r].key) /\ End(r, R) /\ UNCHANGED <<share, recent>>
    BY <1>3 DEF WriteImport
  <2> HIDE DEF R
  <2>2. call' \in [Request -> Call] /\ call'[r] = Idle /\ Others({r}, R)
    BY <1>1, <2>1, EndDoes
  <2>3. Base' /\ OwnersGrow /\ RowsMark(R) /\ LinksMark(R) /\ RotationsMark(R)
    BY <1>1, <2>1, <2>2, InsertWrites DEF R
  <2> QED BY <2>2, <2>3, IdleIsGood, StepKeepsInvariant
<1> QED BY <1>2, <1>3

(* The owner of a row that is written by its id stays.                     *)
LEMMA ChangesStep ==
  ASSUME IInv, NEW r \in Request, NEW w \in Row, w.owner = row[call[r].id].owner,
         Changes(r, w), UNCHANGED <<share, recent, owners>>
  PROVE  IInv'
<1>1. Base /\ call[r].id \in Id
  BY InvariantByRequest DEF Base, TypeOK, Call
<1>2. CASE ~ Exists(call[r].id)
  BY <1>2, EndKeepsInvariant DEF Changes, tables
<1>3. CASE Exists(call[r].id)
  <2> DEFINE i == call[r].id
             R == Readers({i})
  <2>1. row' = [row EXCEPT ![i] = w] /\ End(r, R)
    BY <1>3 DEF Changes
  <2>2. call' \in [Request -> Call] /\ call'[r] = Idle /\ Others({r}, R)
    BY <1>1, <2>1, EndDoes
  <2>3. owners' \in [Id -> SUBSET Owner] /\ OwnersGrow
    BY <1>1 DEF Base, TypeOK, OwnersGrow
  <2>4. w.owner # NoOwner /\ w.owner \in owners'[i]
    BY <1>1, <1>3 DEF Base, OwnersRemembered, Exists
  <2>5. i \in Id
    BY <1>1
  <2> HIDE DEF i
  <2>6. Base' /\ RowsMark(R) /\ LinksMark(R) /\ RotationsMark(R)
    BY <1>1, <2>1, <2>2, <2>3, <2>4, <2>5, RowWritten
  <2> QED BY <2>2, <2>3, <2>6, IdleIsGood, StepKeepsInvariant
<1> QED BY <1>2, <1>3

LEMMA WriteUpdateStep ==
  ASSUME IInv, NEW r \in Request, WriteUpdate(r)
  PROVE  IInv'
<1> DEFINE old == row[call[r].id]
           w == [owner |-> old.owner, revision |-> old.revision + 1]
<1>1. old \in Row /\ old.revision < MaxRevision
  BY InvariantByRequest DEF WriteUpdate, Base, TypeOK, Call
<1>2. w \in Row /\ w.owner = old.owner
  BY <1>1, ApiAssumption DEF Row
<1>3. Changes(r, w) /\ UNCHANGED <<share, recent, owners>>
  BY DEF WriteUpdate
<1> HIDE DEF w
<1> QED BY <1>2, <1>3, ChangesStep

LEMMA WriteTagsStep ==
  ASSUME IInv, NEW r \in Request, WriteTags(r)
  PROVE  IInv'
<1>1. row[call[r].id] \in Row
  BY InvariantByRequest DEF Base, TypeOK, Call
<1> QED BY <1>1, ChangesStep DEF WriteTags

LEMMA WriteRemoveStep ==
  ASSUME IInv, NEW r \in Request, WriteRemove(r)
  PROVE  IInv'
<1>1. Base /\ call[r].id \in Id
  BY InvariantByRequest DEF Base, TypeOK, Call
<1>2. CASE ~ Exists(call[r].id)
  BY <1>2, EndKeepsInvariant DEF WriteRemove
<1>3. CASE Exists(call[r].id)
  <2> DEFINE i == call[r].id
             R == Readers({i}) \cup Visitors({t \in Token : share[t].workspace = i})
  <2>1. /\ row' = [row EXCEPT ![i] = Missing] /\ share' = DropLinks(i) /\ End(r, R)
        /\ UNCHANGED <<recent, owners>>
    BY <1>3 DEF WriteRemove
  <2>2. call' \in [Request -> Call] /\ call'[r] = Idle /\ Others({r}, R)
    BY <1>1, <2>1, EndDoes
  <2>3. i \in Id
    BY <1>1
  <2> HIDE DEF i
  <2>4. /\ row' \in [Id -> Row] /\ row'[i] = Missing /\ \A j \in Id \ {i} : row'[j] = row[j]
    BY <1>1, <2>1, <2>3, ApiAssumption DEF Base, TypeOK, Missing, Row
  <2>5. /\ share' \in [Token -> Share]
        /\ \A t \in Token :
             /\ share'[t].workspace = share[t].workspace
             /\ share[t].workspace = i => share'[t].state \in {"unused", "deleted"}
             /\ share[t].workspace # i => share'[t] = share[t]
    BY <1>1, <2>1 DEF Base, TypeOK, DropLinks, Share
  <2>6. TypeOK'
    BY <1>1, <2>1, <2>2, <2>4, <2>5 DEF Base, TypeOK, Exists
  <2>7. OwnersRemembered' /\ LinksHaveWorkspaces'
    <3>1. OwnersRemembered'
      BY <1>1, <2>1, <2>4 DEF Base, OwnersRemembered, Exists, Missing
    <3>2. LinksHaveWorkspaces'
      BY <1>1, <2>4, <2>5 DEF Base, TypeOK, LinksHaveWorkspaces, Exists, Share
    <3> QED BY <3>1, <3>2
  <2>8. OwnersGrow /\ RowsMark(R) /\ RotationsMark(R)
    BY <2>1, <2>4 DEF OwnersGrow, RowsMark, RotationsMark
  <2>9. LinksMark(R)
    BY <2>5 DEF LinksMark, Served, Visitors
  <2> QED BY <2>2, <2>6, <2>7, <2>8, <2>9, IdleIsGood, StepKeepsInvariant DEF Base
<1> QED BY <1>2, <1>3

LEMMA MoveRowsStep ==
  ASSUME IInv, NEW r \in Request, MoveRows(r)
  PROVE  IInv'
<1>1. Base /\ call[r].key \in Owner /\ call[r].to \in Owner
  BY InvariantByRequest DEF MoveRows, Good, Rotation
<1> DEFINE k == call[r].key
           n == call[r].to
           S == {i \in Id : row[i].owner = k}
<1>2. /\ row' = [i \in Id |-> IF i \in S THEN [row[i] EXCEPT !.owner = n] ELSE row[i]]
      /\ owners' = [i \in Id |-> IF i \in S THEN owners[i] \cup {n} ELSE owners[i]]
      /\ GoOn(r, "record", Readers(S)) /\ UNCHANGED <<share, recent>>
  BY DEF MoveRows
<1>3. call' \in [Request -> Call] /\ Others({r}, Readers(S)) /\ Good(r)'
  BY <1>2, GoOnIsGood DEF MoveRows, Rotation
<1>4. k \in Owner /\ n \in Owner /\ n # NoOwner /\ k # NoOwner
  BY <1>1, ApiAssumption
<1> HIDE DEF k, n
<1>5. /\ row' \in [Id -> Row]
      /\ \A i \in S : row'[i].owner = n
      /\ \A i \in Id \ S : row'[i] = row[i]
  BY <1>1, <1>2, <1>4 DEF Base, TypeOK, Row
<1>6. owners' \in [Id -> SUBSET Owner] /\ OwnersGrow /\ \A i \in S : n \in owners'[i]
  BY <1>1, <1>2, <1>4 DEF Base, TypeOK, OwnersGrow
<1>7. \A i \in Id : row'[i].owner # NoOwner <=> row[i].owner # NoOwner
  BY <1>4, <1>5
<1>8. TypeOK'
  BY <1>1, <1>2, <1>3, <1>5, <1>6, <1>7, <1>4 DEF Base, TypeOK, Exists
<1>9. OwnersRemembered'
  BY <1>1, <1>5, <1>6 DEF Base, OwnersRemembered, Exists, OwnersGrow
<1>10. LinksHaveWorkspaces'
  BY <1>1, <1>2, <1>7 DEF Base, TypeOK, Share, LinksHaveWorkspaces, Exists
<1>11. RowsMark(Readers(S)) /\ LinksMark(Readers(S)) /\ RotationsMark(Readers(S))
  BY <1>2, <1>5 DEF RowsMark, LinksMark, RotationsMark, Served, Readers
<1> QED BY <1>3, <1>6, <1>8, <1>9, <1>10, <1>11, StepKeepsInvariant DEF Base

-----------------------------------------------------------------------------
(* Steps that write the links or the hourly limit.                         *)

LEMMA LinksWritten ==
  ASSUME Base, share' \in [Token -> Share], UNCHANGED <<row, owners>>,
         recent' \subseteq Owner, call' \in [Request -> Call],
         \A t \in Token : share'[t].state \in {"live", "revoked"} => Exists(share'[t].workspace)
  PROVE  Base' /\ OwnersGrow /\ \A R : RowsMark(R)
<1>1. TypeOK'
  BY DEF Base, TypeOK, Exists
<1>2. OwnersRemembered' /\ LinksHaveWorkspaces'
  BY DEF Base, OwnersRemembered, LinksHaveWorkspaces, Exists
<1> QED BY <1>1, <1>2 DEF Base, OwnersGrow, RowsMark

LEMMA WriteShareStep ==
  ASSUME IInv, NEW r \in Request, WriteShare(r)
  PROVE  IInv'
<1> DEFINE t == call[r].token
           i == call[r].id
           l == [state |-> "live", workspace |-> i, expired |-> FALSE]
<1>1. Base /\ t \in Token /\ i \in Id
  BY InvariantByRequest DEF Base, TypeOK, Call
<1>2. End(r, {}) /\ UNCHANGED <<row, recent, owners>>
  BY DEF WriteShare
<1>3. call' \in [Request -> Call] /\ call'[r] = Idle /\ Others({r}, {})
  BY <1>1, <1>2, EndDoes
<1>4. CASE ~ Exists(i)
  BY <1>2, <1>4, EndKeepsInvariant DEF WriteShare, Connects, tables
<1>5. CASE Exists(i)
  <2>1. share' = [share EXCEPT ![t] = l]
    BY <1>5 DEF WriteShare, Connects
  <2>2. l \in Share /\ l.workspace = i /\ l.state = "live" /\ l.expired = FALSE
    BY <1>1 DEF Share
  <2>3. t \in Token
    BY <1>1
  <2> HIDE DEF l, t
  <2>4. share' \in [Token -> Share] /\ share'[t] = l /\ \A u \in Token \ {t} : share'[u] = share[u]
    BY <1>1, <2>1, <2>2, <2>3 DEF Base, TypeOK
  <2>5. \A u \in Token : share'[u].state \in {"live", "revoked"} => Exists(share'[u].workspace)
    BY <1>1, <1>5, <2>2, <2>4 DEF Base, LinksHaveWorkspaces
  <2>6. Base' /\ OwnersGrow /\ RowsMark({})
    BY <1>1, <1>2, <1>3, <2>4, <2>5, LinksWritten DEF Base, TypeOK
  <2>7. LinksMark({}) /\ RotationsMark({})
    BY <1>2, <2>2, <2>4 DEF LinksMark, RotationsMark, Served
  <2> QED BY <1>3, <2>6, <2>7, IdleIsGood, StepKeepsInvariant
<1> QED BY <1>4, <1>5

(* Links that only lose, and the requests that have read them are marked.  *)
LEMMA LinkLosesStep ==
  ASSUME Base, NEW t \in Token, NEW l \in Share, share' = [share EXCEPT ![t] = l],
         l.workspace = share[t].workspace,
         l.state \in {"live", "revoked"} => share[t].state \in {"live", "revoked"},
         UNCHANGED <<row, recent, owners>>, call' \in [Request -> Call],
         NEW R, Visitors({t}) \subseteq R
  PROVE  Base' /\ OwnersGrow /\ RowsMark(R) /\ LinksMark(R) /\ RotationsMark(R)
<1>1. share' \in [Token -> Share] /\ share'[t] = l /\ \A u \in Token \ {t} : share'[u] = share[u]
  BY DEF Base, TypeOK
<1>2. \A u \in Token : share'[u].state \in {"live", "revoked"} => Exists(share'[u].workspace)
  BY <1>1 DEF Base, LinksHaveWorkspaces
<1>3. Base' /\ OwnersGrow /\ RowsMark(R)
  BY <1>1, <1>2, LinksWritten DEF Base, TypeOK
<1>4. LinksMark(R) /\ RotationsMark(R)
  BY <1>1 DEF LinksMark, RotationsMark, Served
<1> QED BY <1>3, <1>4

LEMMA WriteRevokeStep ==
  ASSUME IInv, NEW r \in Request, WriteRevoke(r)
  PROVE  IInv'
<1> DEFINE t == call[r].token
           l == IF share[t].state = "live" THEN [share[t] EXCEPT !.state = "revoked"] ELSE share[t]
<1>1. Base /\ t \in Token /\ share[t] \in Share
  BY InvariantByRequest DEF Base, TypeOK, Call
<1>2. End(r, Visitors({t})) /\ UNCHANGED <<row, recent, owners>>
  BY DEF WriteRevoke
<1>3. call' \in [Request -> Call] /\ call'[r] = Idle /\ Others({r}, Visitors({t}))
  BY <1>1, <1>2, EndDoes
<1>4. share' = [share EXCEPT ![t] = l]
  BY <1>1 DEF WriteRevoke, Base, TypeOK
<1>5. /\ l \in Share /\ l.workspace = share[t].workspace
      /\ l.state \in {"live", "revoked"} => share[t].state \in {"live", "revoked"}
  BY <1>1 DEF Share
<1> HIDE DEF l, t
<1> QED BY <1>1, <1>2, <1>3, <1>4, <1>5, LinkLosesStep, IdleIsGood, StepKeepsInvariant

LEMMA ExpireStep ==
  ASSUME IInv, NEW t \in Token, Expire(t)
  PROVE  IInv'
<1> DEFINE l == [share[t] EXCEPT !.expired = TRUE]
           R == Visitors({t})
<1>1. Base /\ share[t] \in Share /\ \A q \in Request : call[q] \in Call
  BY InvariantByRequest DEF Base, TypeOK
<1>2. /\ share' = [share EXCEPT ![t] = l] /\ UNCHANGED <<row, recent, owners>>
      /\ call' = [q \in Request |-> [call[q] EXCEPT !.raced = call[q].raced \/ q \in R]]
  BY DEF Expire
<1>3. l \in Share /\ l.workspace = share[t].workspace /\ l.state = share[t].state
  BY <1>1 DEF Share
<1>4. \A q \in Request : (call[q].raced \/ q \in R) \in BOOLEAN
  OBVIOUS
<1> HIDE DEF l, R
<1>5. call' \in [Request -> Call]
  BY <1>1, <1>2, <1>4, RacedIsCall
<1>6. ASSUME NEW q \in Request
      PROVE  Holds(call'[q], call[q]) /\ (call'[q].raced <=> call[q].raced \/ q \in R)
  <2>1. call'[q] = [call[q] EXCEPT !.raced = call[q].raced \/ q \in R]
    BY <1>2
  <2> QED BY <2>1, <1>1, <1>4, RacedIsCall
<1>7. Others({}, R)
  BY <1>6 DEF Others
<1>8. Base' /\ OwnersGrow /\ RowsMark(R) /\ LinksMark(R) /\ RotationsMark(R)
  BY <1>1, <1>2, <1>3, <1>5, LinkLosesStep DEF R
<1> QED BY <1>5, <1>7, <1>8, TableStepKeepsInvariant

LEMMA CallsStay ==
  ASSUME Base, UNCHANGED call
  PROVE  call' \in [Request -> Call] /\ Others({}, {})
BY DEF Base, TypeOK, Others, Holds

LEMMA CleanupStep ==
  ASSUME IInv, Cleanup
  PROVE  IInv'
<1>1. Base
  BY InvariantByRequest
<1>2. call' \in [Request -> Call] /\ Others({}, {})
  BY <1>1, CallsStay DEF Cleanup
<1>3. /\ share' \in [Token -> Share]
      /\ \A t \in Token :
           /\ share'[t].workspace = share[t].workspace
           /\ share'[t] = share[t] \/ (share'[t].state = "deleted" /\ ~ Served(t))
  BY <1>1 DEF Cleanup, Base, TypeOK, Share, Served
<1>4. \A t \in Token : share'[t].state \in {"live", "revoked"} => Exists(share'[t].workspace)
  BY <1>1, <1>3 DEF Base, LinksHaveWorkspaces
<1>5. Base' /\ OwnersGrow /\ RowsMark({})
  BY <1>1, <1>2, <1>3, <1>4, LinksWritten DEF Cleanup, Base, TypeOK
<1>6. LinksMark({}) /\ RotationsMark({})
  BY <1>3 DEF Cleanup, LinksMark, RotationsMark, Served
<1> QED BY <1>2, <1>5, <1>6, TableStepKeepsInvariant

(* Nothing but the hourly limit changes, for keys whose rotations are in R.*)
LEMMA LimitWritten ==
  ASSUME Base, UNCHANGED <<tables, owners>>, recent' \subseteq Owner,
         call' \in [Request -> Call], NEW R
  PROVE  Base' /\ OwnersGrow /\ RowsMark(R) /\ LinksMark(R)
<1>1. TypeOK' /\ OwnersRemembered' /\ LinksHaveWorkspaces'
  BY DEF Base, TypeOK, OwnersRemembered, LinksHaveWorkspaces, Exists, tables
<1> QED BY <1>1 DEF Base, OwnersGrow, RowsMark, LinksMark, Served, tables

LEMMA RecordedStep ==
  ASSUME IInv, NEW r \in Request, Recorded(r)
  PROVE  IInv'
<1> DEFINE R == Rotating(call[r].key)
<1>1. Base /\ call[r].key \in Owner
  BY InvariantByRequest DEF Recorded, Good, Rotation
<1>2. recent' = recent \cup {call[r].key} /\ End(r, R) /\ UNCHANGED <<tables, owners>>
  BY DEF Recorded
<1>3. call' \in [Request -> Call] /\ call'[r] = Idle /\ Others({r}, R)
  BY <1>1, <1>2, EndDoes
<1>4. Base' /\ OwnersGrow /\ RowsMark(R) /\ LinksMark(R)
  BY <1>1, <1>2, <1>3, LimitWritten DEF Base, TypeOK
<1>5. RotationsMark(R)
  BY <1>2 DEF RotationsMark
<1> QED BY <1>3, <1>4, <1>5, IdleIsGood, StepKeepsInvariant

LEMMA HourPassesStep ==
  ASSUME IInv, NEW k \in Owner, HourPasses(k)
  PROVE  IInv'
<1>1. Base
  BY InvariantByRequest
<1>2. call' \in [Request -> Call] /\ Others({}, {})
  BY <1>1, CallsStay DEF HourPasses
<1>3. Base' /\ OwnersGrow /\ RowsMark({}) /\ LinksMark({})
  BY <1>1, <1>2, LimitWritten DEF HourPasses, Base, TypeOK
<1>4. RotationsMark({})
  BY DEF HourPasses, RotationsMark
<1> QED BY <1>2, <1>3, <1>4, TableStepKeepsInvariant

LEMMA RestartStep ==
  ASSUME IInv, Restart
  PROVE  IInv'
<1>1. Base
  BY InvariantByRequest
<1>2. call' \in [Request -> Call] /\ \A q \in Request : Good(q)'
  BY IdleIsCall, IdleIsGood DEF Restart
<1>3. Base'
  BY <1>1, <1>2, LimitWritten DEF Restart
<1>4. (IInv <=> Base /\ \A q \in Request : Good(q))'
  BY InvariantByRequest, PTL
<1> QED BY <1>2, <1>3, <1>4

-----------------------------------------------------------------------------
LEMMA StepInv ==
  ASSUME IInv, [Next]_vars
  PROVE  IInv'
<1>1. CASE UNCHANGED vars
  BY <1>1 DEF vars, tables, IInv, TypeOK, OwnersRemembered, CallsHaveKeys, WritersHaveOwned,
     ChecksHoldUnlessRaced, LinksHaveWorkspaces, ServedUnlessRaced, HourlyLimitUnlessRaced,
     Exists, OwnsRow, Served
<1>2. ASSUME NEW i \in Id, NEW k \in Owner, Create(i, k) PROVE IInv'
  BY <1>2, CreateStep
<1>3. ASSUME NEW r \in Request, Workspaces(r) PROVE IInv'
  <2>1. ASSUME NEW k \in Owner, NEW i \in Id, NEW g \in BOOLEAN, NEW b \in 0 .. MaxRevision,
               ReadForUpdate(r, k, i, g, b)
        PROVE  IInv'
    BY <2>1, ReadForUpdateStep
  <2>2. ASSUME NEW k \in Owner, NEW i \in Id, NEW o \in {"tags", "remove"},
               ReadForWrite(r, k, i, o)
        PROVE  IInv'
    BY <2>2, ReadForWriteStep
  <2>3. ASSUME NEW k \in Owner, NEW i \in Id, ReadForImport(r, k, i) PROVE IInv'
    BY <2>3, ReadForImportStep
  <2>4. CASE WriteUpdate(r) \/ WriteTags(r) \/ WriteRemove(r) \/ WriteImport(r)
    BY <2>4, WriteUpdateStep, WriteTagsStep, WriteRemoveStep, WriteImportStep
  <2> QED BY <1>3, <2>1, <2>2, <2>3, <2>4 DEF Workspaces
<1>4. ASSUME NEW r \in Request, Links(r) PROVE IInv'
  <2>1. ASSUME NEW k \in Owner, NEW t \in Token, NEW i \in Id, ReadForShare(r, k, i, t)
        PROVE  IInv'
    BY <2>1, ReadForShareStep
  <2>2. ASSUME NEW k \in Owner, NEW t \in Token, ReadForFork(r, k, t) \/ ReadForRevoke(r, k, t)
        PROVE  IInv'
    BY <2>2, ReadForForkStep, ReadForRevokeStep
  <2>3. ASSUME NEW t \in Token, ReadForResolve(r, t) PROVE IInv'
    BY <2>3, ReadForResolveStep
  <2>4. ASSUME NEW i \in Id, WriteFork(r, i) PROVE IInv'
    BY <2>4, WriteForkStep
  <2>5. CASE CountView(r)
    BY <2>5, EndKeepsInvariant DEF CountView
  <2>6. CASE WriteShare(r) \/ ReadOwnerForRevoke(r) \/ WriteRevoke(r)
    BY <2>6, WriteShareStep, ReadOwnerForRevokeStep, WriteRevokeStep
  <2> QED BY <1>4, <2>1, <2>2, <2>3, <2>4, <2>5, <2>6 DEF Links
<1>5. ASSUME NEW r \in Request, Rotations(r) PROVE IInv'
  BY <1>5, StartRotationStep, CountRowsStep, MoveRowsStep, RecordedStep DEF Rotations
<1>6. ASSUME NEW r \in Request, Fails(r) PROVE IInv'
  BY <1>6, EndKeepsInvariant DEF Fails
<1>7. ASSUME NEW t \in Token, Expire(t) PROVE IInv'
  BY <1>7, ExpireStep
<1>8. CASE Cleanup \/ Restart
  BY <1>8, CleanupStep, RestartStep
<1>9. ASSUME NEW k \in Owner, HourPasses(k) PROVE IInv'
  BY <1>9, HourPassesStep
<1> QED BY <1>1, <1>2, <1>3, <1>4, <1>5, <1>6, <1>7, <1>8, <1>9 DEF Next

(* The inductive invariant: whatever overlaps, a request that writes has   *)
(* checked what it relies on, or was marked when that changed.             *)
THEOREM InvariantHolds == Spec => []IInv
BY InitInv, StepInv, PTL DEF Spec

(* The tables, the requests under way and the histories keep their types.  *)
THEOREM TypeCorrect == Spec => []TypeOK
<1>1. IInv => TypeOK
  BY DEF IInv
<1> QED BY <1>1, InvariantHolds, PTL

(* Only a key that has owned a workspace changes, deletes or shares it,    *)
(* though the statement that does so names no owner.                       *)
THEOREM WritersAreOwners == Spec => []WritersHaveOwned
<1>1. IInv => WritersHaveOwned
  BY DEF IInv
<1> QED BY <1>1, InvariantHolds, PTL

(* An update that loses another one, or follows a rotation, overlapped it. *)
THEOREM LostUpdatesOverlap == Spec => []ChecksHoldUnlessRaced
<1>1. IInv => ChecksHoldUnlessRaced
  BY DEF IInv
<1> QED BY <1>1, InvariantHolds, PTL

(* No link outlives its workspace, and none is served but to requests that *)
(* were under way when it ceased.                                          *)
THEOREM LinksAreServedTruly == Spec => [](LinksHaveWorkspaces /\ ServedUnlessRaced)
<1>1. IInv => LinksHaveWorkspaces /\ ServedUnlessRaced
  BY DEF IInv
<1> QED BY <1>1, InvariantHolds, PTL

(* While the record of a rotation stands, which a restart clears and a     *)
(* rotation that fails never makes, only rotations that were under way     *)
(* when it was made pass the hourly limit of that key.                     *)
THEOREM RotationsAreLimited == Spec => []HourlyLimitUnlessRaced
<1>1. IInv => HourlyLimitUnlessRaced
  BY DEF IInv
<1> QED BY <1>1, InvariantHolds, PTL

-----------------------------------------------------------------------------
(* The table of workspaces implements its abstract specification.          *)

LEMMA TableInit == Init => Table!Init
BY DEF Init, Table!Init, Missing, Table!Missing

LEMMA InsertAppears ==
  ASSUME IInv, NEW i \in Id, NEW k \in Owner, ~ Exists(i), Insert(i, k)
  PROVE  Table!Next
<1>1. Table!Appear(i, k)
  BY DEF IInv, TypeOK, Insert, Missing, Table!Appear, Table!Missing
<1> QED BY <1>1 DEF Table!Next

LEMMA FreshIsMissing ==
  ASSUME IInv, NEW i \in Id, Fresh(i)
  PROVE  ~ Exists(i)
BY DEF IInv, OwnersRemembered, Fresh

LEMMA ChangesAdvance ==
  ASSUME IInv, NEW r \in Request, WriteUpdate(r)
  PROVE  Table!Next \/ UNCHANGED row
<1>1. CASE ~ Exists(call[r].id)
  BY <1>1 DEF WriteUpdate, Changes
<1>2. CASE Exists(call[r].id)
  <2>1. call[r].id \in Id
    BY DEF IInv, TypeOK, Call
  <2>2. Table!Advance(call[r].id)
    BY <1>2 DEF WriteUpdate, Changes, Exists, Table!Advance
  <2> QED BY <2>1, <2>2 DEF Table!Next
<1> QED BY <1>1, <1>2

LEMMA TagsStutter ==
  ASSUME IInv, NEW r \in Request, WriteTags(r)
  PROVE  UNCHANGED row
BY DEF WriteTags, Changes, IInv, TypeOK

LEMMA RemoveDisappears ==
  ASSUME IInv, NEW r \in Request, WriteRemove(r)
  PROVE  Table!Next \/ UNCHANGED row
<1>1. CASE ~ Exists(call[r].id)
  BY <1>1 DEF WriteRemove, tables
<1>2. CASE Exists(call[r].id)
  <2>1. call[r].id \in Id
    BY DEF IInv, TypeOK, Call
  <2>2. Table!Disappear(call[r].id)
    BY <1>2 DEF WriteRemove, Exists, Table!Disappear, Missing, Table!Missing
  <2> QED BY <2>1, <2>2 DEF Table!Next
<1> QED BY <1>1, <1>2

LEMMA MovePassesOn ==
  ASSUME IInv, NEW r \in Request, MoveRows(r)
  PROVE  Table!Next
<1>1. call[r].key \in Owner /\ call[r].to \in Owner /\ \A i \in Id : row[i] \in Row
  BY DEF IInv, CallsHaveKeys, MoveRows, Rotation, TypeOK
<1>2. \A i \in Id : [row[i] EXCEPT !.owner = call[r].to]
                      = [owner |-> call[r].to, revision |-> row[i].revision]
  BY <1>1 DEF Row
<1>3. Table!PassOn(call[r].key, call[r].to)
  BY <1>2 DEF MoveRows, Table!PassOn
<1> QED BY <1>1, <1>3 DEF Table!Next

LEMMA TableStep ==
  ASSUME IInv, [Next]_vars
  PROVE  [Table!Next]_row
<1>1. CASE UNCHANGED vars
  BY <1>1 DEF vars, tables
<1>2. ASSUME NEW i \in Id, NEW k \in Owner, Create(i, k) PROVE Table!Next
  BY <1>2, FreshIsMissing, InsertAppears DEF Create
<1>3. ASSUME NEW r \in Request, Workspaces(r) PROVE Table!Next \/ UNCHANGED row
  <2>1. ASSUME WriteImport(r) PROVE Table!Next \/ UNCHANGED row
    <3>1. call[r].key \in Owner /\ call[r].id \in Id
      BY <2>1 DEF IInv, TypeOK, Call, CallsHaveKeys, WriteImport, Checked
    <3> QED BY <2>1, <3>1, InsertAppears DEF WriteImport
  <2>2. CASE WriteUpdate(r) \/ WriteTags(r) \/ WriteRemove(r)
    BY <2>2, ChangesAdvance, TagsStutter, RemoveDisappears
  <2>3. ASSUME NEW k \in Owner, NEW i \in Id,
               \/ \E g \in BOOLEAN, b \in 0 .. MaxRevision : ReadForUpdate(r, k, i, g, b)
               \/ \E o \in {"tags", "remove"} : ReadForWrite(r, k, i, o)
               \/ ReadForImport(r, k, i)
        PROVE  UNCHANGED row
    BY <2>3 DEF ReadForUpdate, ReadForWrite, ReadForImport, tables
  <2> QED BY <1>3, <2>1, <2>2, <2>3 DEF Workspaces
<1>4. ASSUME NEW r \in Request, Links(r) PROVE Table!Next \/ UNCHANGED row
  <2>1. ASSUME NEW i \in Id, WriteFork(r, i) PROVE Table!Next
    <3>1. call[r].key \in Owner
      BY <2>1 DEF IInv, CallsHaveKeys, WriteFork
    <3> QED BY <2>1, <3>1, FreshIsMissing, InsertAppears DEF WriteFork
  <2>2. ASSUME NEW k \in Owner, NEW t \in Token,
               \/ \E i \in Id : ReadForShare(r, k, i, t)
               \/ ReadForFork(r, k, t) \/ ReadForRevoke(r, k, t)
        PROVE  UNCHANGED row
    BY <2>2 DEF ReadForShare, ReadForFork, ReadForRevoke, tables
  <2>3. ASSUME NEW t \in Token, ReadForResolve(r, t) PROVE UNCHANGED row
    BY <2>3 DEF ReadForResolve, tables
  <2>4. CASE WriteShare(r) \/ CountView(r) \/ ReadOwnerForRevoke(r) \/ WriteRevoke(r)
    BY <2>4 DEF WriteShare, CountView, ReadOwnerForRevoke, WriteRevoke, tables
  <2> QED BY <1>4, <2>1, <2>2, <2>3, <2>4 DEF Links
<1>5. ASSUME NEW r \in Request, Rotations(r) PROVE Table!Next \/ UNCHANGED row
  <2>1. CASE MoveRows(r)
    BY <2>1, MovePassesOn
  <2>2. CASE CountRows(r) \/ Recorded(r) \/ \E k, n \in Owner : StartRotation(r, k, n)
    BY <2>2 DEF CountRows, Recorded, StartRotation, tables
  <2> QED BY <1>5, <2>1, <2>2 DEF Rotations
<1>6. CASE \/ \E r \in Request : Fails(r)
           \/ \E t \in Token : Expire(t)
           \/ Cleanup \/ Restart
           \/ \E k \in Owner : HourPasses(k)
  BY <1>6 DEF Fails, Expire, Cleanup, Restart, HourPasses, tables
<1> QED BY <1>1, <1>2, <1>3, <1>4, <1>5, <1>6 DEF Next

(* Whatever requests overlap, rows appear with revision 0, count their     *)
(* updates one by one, disappear, and change hands all together.           *)
THEOREM TableIsImplemented == Spec => ImplementsTable
BY InvariantHolds, TableInit, TableStep, PTL DEF Spec, ImplementsTable, Table!Spec
=============================================================================
