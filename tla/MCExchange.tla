------------------------------- MODULE MCExchange -------------------------------
(* Instances of Exchange for TLC. *)
EXTENDS Exchange, TLC
CONSTANTS t1, t2, t3, n1, n2, n3, v1, v2
=================================================================================
