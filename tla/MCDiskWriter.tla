----------------------------- MODULE MCDiskWriter -----------------------------
(* Small instances of DiskWriter for TLC.                                  *)
EXTENDS DiskWriter
=============================================================================
