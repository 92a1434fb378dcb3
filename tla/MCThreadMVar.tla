----------------------------- MODULE MCThreadMVar -----------------------------
(* Instances of ThreadMVar for TLC. *)
EXTENDS ThreadMVar, TLC

CONSTANTS t1, t2, t3
=============================================================================
