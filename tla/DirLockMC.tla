----------------------------- MODULE DirLockMC -----------------------------
(* DirLock on three processes: the full window, the quick window, the agent. *)
EXTENDS DirLock
=============================================================================
