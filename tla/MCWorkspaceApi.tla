--------------------------- MODULE MCWorkspaceApi ---------------------------
(* Instances of WorkspaceApi for TLC. *)
EXTENDS WorkspaceApi, TLC

Symmetry == Permutations(Request) \cup Permutations(Owner)
=============================================================================
