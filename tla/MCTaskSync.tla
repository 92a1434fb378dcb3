------------------------------ MODULE MCTaskSync ------------------------------
(* Instances of TaskSync for TLC: programs of four calls on one primitive. *)
EXTENDS TaskSync, TLC
CONSTANTS a, b, c, d, s1, s2, root

ScopeOfOp == (a :> s1) @@ (b :> s1) @@ (c :> s2) @@ (d :> root)
Amount    == (a :> 2) @@ (b :> 1) @@ (c :> 1) @@ (d :> 0)

MVarCalls == {"takeMVar", "modifyMVar", "putMVar", "tryTakeMVar", "tryPutMVar"}
ChanCalls == {"recv", "send", "tryRecv", "trySend", "close"}
SemCalls  == {"acquireN", "withPermits", "releaseN", "tryAcquireN"}

OnePrimitive == [Op -> MVarCalls] \cup [Op -> ChanCalls] \cup [Op -> SemCalls]
===============================================================================
