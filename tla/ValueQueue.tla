----------------------------- MODULE ValueQueue -----------------------------
(***************************************************************************)
(* What a channel promises: a first-in first-out queue of values shared by *)
(* several threads.  A value put is got by exactly one thread.             *)
(***************************************************************************)
EXTENDS Sequences

CONSTANTS Value

VARIABLES queue,  (* the values put and not got                             *)
          got     (* the value got last, for a reader to see the order      *)

Init == queue = <<>> /\ got = <<>>

Put(v) == queue' = Append(queue, v) /\ UNCHANGED got
Get    == queue # <<>> /\ queue' = Tail(queue) /\ got' = <<Head(queue)>>

Next == Get \/ \E v \in Value : Put(v)

Spec == Init /\ [][Next]_<<queue, got>>
=============================================================================
