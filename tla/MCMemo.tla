--------------------------------- MODULE MCMemo ---------------------------------
(* Instances of Memo for TLC. *)
EXTENDS Memo, TLC

CONSTANTS t1, t2, caf1, caf2, caf3, caf4, c1, c2, c3, c4

(* Two values that need nothing, and two that use each other, one of them  *)
(* the second of those first.                                               *)
Knot == caf1 :> <<>> @@ caf2 :> <<caf3, caf4>> @@ caf3 :> <<>> @@ caf4 :> <<caf2>>
(* A cell that needs another one twice, and two that need each other.       *)
ChainAndKnot == c1 :> <<c2, c2>> @@ c2 :> <<>> @@ c3 :> <<c4>> @@ c4 :> <<c2, c3>>
=============================================================================
