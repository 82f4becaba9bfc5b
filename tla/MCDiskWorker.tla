----------------------------- MODULE MCDiskWorker -----------------------------
(* DiskWorker for TLC.                                                     *)
EXTENDS DiskWorker
=============================================================================
