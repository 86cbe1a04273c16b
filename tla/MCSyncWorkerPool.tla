-------------------------- MODULE MCSyncWorkerPool --------------------------
(* Instances of SyncWorkerPool for TLC, with smaller thresholds. *)
EXTENDS SyncWorkerPool
=============================================================================
