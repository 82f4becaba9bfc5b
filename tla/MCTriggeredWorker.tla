--------------------------- MODULE MCTriggeredWorker ---------------------------
(* Instances of TriggeredWorker for TLC: the windows requests ask for.     *)
EXTENDS TriggeredWorker

(* The trigger's instant, and a window open on both sides of it.           *)
BothWays == {<<0, 0>>, <<1, 1>>}

(* Look-forward only, short and long.                                      *)
Forward == {<<0, 1>>, <<0, 2>>}

(* A window that stays open for one second.                                *)
OneForward == {<<1, 1>>}

(* dump_current_data: all that the ring retains.                           *)
AllRetained == {<<9, 0>>}
=============================================================================
