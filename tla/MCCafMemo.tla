------------------------------ MODULE MCCafMemo ------------------------------
(* An instance of CafMemo for TLC: two values that need nothing.            *)
EXTENDS CafMemo, TLC

CONSTANTS t1, t2, caf1, caf2

Pair == caf1 :> <<>> @@ caf2 :> <<>>
=============================================================================
