--------------------------- MODULE WorkspaceTable ---------------------------
(***************************************************************************)
(* What the API promises of the table of workspaces, whoever calls it and  *)
(* in whatever order: a row appears with revision 0, counts its updates    *)
(* one by one, passes to another owner only together with everything its   *)
(* owner has, and disappears.                                              *)
(***************************************************************************)
EXTENDS Naturals

CONSTANTS Id, Owner, NoOwner

VARIABLE row  \* row[i]: the owner of workspace i, or NoOwner, and its revision

Missing == [owner |-> NoOwner, revision |-> 0]

Init == row = [i \in Id |-> Missing]

Appear(i, k) ==
  /\ row[i] = Missing
  /\ row' = [row EXCEPT ![i] = [owner |-> k, revision |-> 0]]

Advance(i) ==
  /\ row[i].owner # NoOwner
  /\ row' = [row EXCEPT ![i] = [owner |-> row[i].owner, revision |-> row[i].revision + 1]]

Disappear(i) ==
  /\ row[i].owner # NoOwner
  /\ row' = [row EXCEPT ![i] = Missing]

PassOn(k, n) ==
  row' = [i \in Id |-> IF row[i].owner = k
                       THEN [owner |-> n, revision |-> row[i].revision]
                       ELSE row[i]]

Next ==
  \/ \E i \in Id : Advance(i) \/ Disappear(i) \/ \E k \in Owner : Appear(i, k)
  \/ \E k, n \in Owner : PassOn(k, n)

Spec == Init /\ [][Next]_row
=============================================================================
