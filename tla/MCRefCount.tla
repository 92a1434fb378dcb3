----------------------------- MODULE MCRefCount -----------------------------
(* Instances of RefCount for TLC. *)
EXTENDS RefCount, TLC

CONSTANTS t1, t2, a, b, s, r1, r2, r3, r4, r5

(* The objects of Obj and the tokens of Ref are interchangeable; the        *)
(* threads are not, one of them starts first.                               *)
Symmetry == Permutations(Obj \ Static) \cup Permutations(Ref)
=============================================================================
