----------------------------- MODULE MCSyncQueue -----------------------------
(* Instances of SyncQueue for TLC. *)
EXTENDS SyncQueue, TLC

SymmetricFlushes == Permutations(Flusher)
=============================================================================
