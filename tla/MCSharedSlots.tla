---------------------------- MODULE MCSharedSlots ----------------------------
(* Instances of SharedSlots for TLC. *)
EXTENDS SharedSlots, TLC
CONSTANTS t1, t2, a, b, c, s1, s2, s3
Symmetry == Permutations(Thread) \cup Permutations(Val)
=============================================================================
