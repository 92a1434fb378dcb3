--------------------------- MODULE MCTaskScheduler ---------------------------
(* Instances of TaskScheduler for TLC. *)
EXTENDS TaskScheduler, TLC
CONSTANTS root, c1, c2, a, b, c, o1, f1
=============================================================================
