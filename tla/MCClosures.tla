------------------------------ MODULE MCClosures ------------------------------
(***************************************************************************)
(* A small instance of Closures: functions of one, two and three           *)
(* arguments, of which the last is above the largest arity with a C        *)
(* prototype; one partial closure, shared by one or two threads.           *)
(***************************************************************************)
EXTENDS Closures

CONSTANTS t1, t2

MCArity == [f1 |-> 1, f2 |-> 2, f3 |-> 3]
MCStatics == [s1 |-> [fn |-> "f2", args |-> <<>>], s2 |-> [fn |-> "f1", args |-> <<Unit>>]]
MCStart == {[fn |-> "f2", args |-> <<>>], [fn |-> "f2", args |-> <<"a">>],
            [fn |-> "f3", args |-> <<"a">>]}
MCHands == {[t \in {t1, t2} |-> IF t = t1 THEN [c1 |-> 1, b |-> 2] ELSE s] :
              s \in {<<>>, [c1 |-> 1, b |-> 1]}}
===============================================================================
