--------------------------- MODULE MCSessionTasks ---------------------------
(* Queues of two: both fill up, and order within a queue shows. *)
EXTENDS SessionTasks
=============================================================================
