------------------------------ MODULE MCMemWorker ------------------------------
(* TLC instance of MemWorker.                                               *)
EXTENDS MemWorker
=============================================================================
