--------------------------- MODULE MCKeyframeTasks ---------------------------
(* Instances of KeyframeTasks: clients that poll, workers beside the        *)
(* service, and how many processes may be stopped.                          *)
EXTENDS KeyframeTasks

CONSTANTS c1, w1, w2
=============================================================================
