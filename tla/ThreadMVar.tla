----------------------------- MODULE ThreadMVar -----------------------------
(***************************************************************************)
(* Control.Concurrent.MVar of rc2base: a box that is full or empty, shared *)
(* by OS threads, built on a mutex and two condition variables.  Each      *)
(* critical section is one step: it runs to the end, or up to the          *)
(* conditionWait that releases the mutex.  A thread that has been woken    *)
(* must get the mutex again, in competition with everybody else.           *)
(***************************************************************************)
EXTENDS Naturals, FiniteSets

CONSTANTS Thread,
          Ops,       (* the operations the program uses                     *)
          Initial,   (* newMVar's value, or None for newEmptyMVar           *)
          MaxUpdate, (* bound: updates by modifyMVar in the values around   *)
          None

Takers  == {"take", "tryTake", "modify", "with"}
Getters == Takers \cup {"read", "swap"}
Putters == {"put", "tryPut"}

BoxConstants ==
  /\ Ops \subseteq Getters \cup Putters
  /\ MaxUpdate \in Nat /\ Initial \in 0..MaxUpdate \cup {None}
  /\ None \notin 0..MaxUpdate /\ None \notin Getters \cup Putters

VARIABLES
  contents, (* the value, None when empty                                   *)
  notEmpty, (* threads waiting on the condition notEmpty                    *)
  notFull,  (* threads waiting on the condition notFull                     *)
  stage,    (* "out", "getting" a value, "calling" the function given to    *)
            (* modifyMVar or withMVar, or "putting" a value                 *)
  op,       (* the operation a thread is in                                 *)
  held,     (* the value a thread is to put                                 *)
  live,     (* history: values put in and not given to a taker              *)
  updates,  (* history: the updates by modifyMVar in those values           *)
  bypassed  (* history: readMVar or swapMVar left the box full beside a     *)
            (* thread that waits for it                                     *)

history == <<live, updates, bypassed>>
vars    == <<contents, notEmpty, notFull, stage, op, held, history>>

Waiting       == notEmpty \cup notFull
At(t, where)  == stage[t] = where /\ t \notin Waiting
Updating      == {t \in Thread : op[t] = "modify" /\ stage[t] # "putting"}
(* Threads that have taken the value to put it back.                        *)
Lending       == {t \in Thread : op[t] \in {"modify", "with"} /\ stage[t] # "getting"}

Init ==
  /\ contents = Initial
  /\ notEmpty = {}
  /\ notFull  = {}
  /\ stage    = [t \in Thread |-> "out"]
  /\ op       = [t \in Thread |-> None]
  /\ held     = [t \in Thread |-> None]
  /\ live     = IF Initial = None THEN 0 ELSE 1
  /\ updates  = IF Initial = None THEN 0 ELSE Initial
  /\ bypassed = FALSE

Call(t, o) ==
  /\ At(t, "out")
  /\ o = "modify" => updates + Cardinality(Updating) < MaxUpdate
  /\ stage' = [stage EXCEPT ![t] = IF o \in Putters THEN "putting" ELSE "getting"]
  /\ op'    = [op    EXCEPT ![t] = o]
  /\ held'  = [held  EXCEPT ![t] = IF o \in Putters \cup {"swap"} THEN 0 ELSE None]
  /\ UNCHANGED <<contents, notEmpty, notFull, history>>

Return(t) ==
  /\ stage' = [stage EXCEPT ![t] = "out"]
  /\ op'    = [op    EXCEPT ![t] = None]
  /\ held'  = [held  EXCEPT ![t] = None]

(* pthread_cond_signal: one of the waiters, if there is one, goes on.       *)
Signalled(waiters) ==
  IF waiters = {} THEN {{}} ELSE {waiters \ {w} : w \in waiters}

(* waitForFullLocked finds Nothing.                                         *)
WaitForFull(t) ==
  /\ At(t, "getting") /\ op[t] # "tryTake"
  /\ contents = None
  /\ notEmpty' = notEmpty \cup {t}
  /\ UNCHANGED <<contents, notFull, stage, op, held, history>>

(* Mutant: modifyMVar runs its function on a value it leaves in the box.    *)
TakeNothing(t) ==
  /\ At(t, "getting") /\ op[t] \in Takers
  /\ contents # None
  /\ contents' = IF op[t] = "modify" THEN contents ELSE None
  /\ notFull' \in Signalled(notFull)
  /\ IF op[t] \in {"modify", "with"}
     THEN /\ stage' = [stage EXCEPT ![t] = "calling"]
          /\ held'  = [held  EXCEPT ![t] = contents]
          /\ UNCHANGED <<op, live, updates>>
     ELSE /\ Return(t)
          /\ live' = live - 1
          /\ updates' = updates - contents
  /\ bypassed' = FALSE
  /\ UNCHANGED notEmpty

(* takeMVar and tryTakeMVar; modifyMVar and withMVar go on with the value.  *)
Take(t) ==
  /\ At(t, "getting") /\ op[t] \in Takers
  /\ contents # None
  /\ contents' = None
  /\ notFull' \in Signalled(notFull)
  /\ IF op[t] \in {"modify", "with"}
     THEN /\ stage' = [stage EXCEPT ![t] = "calling"]
          /\ held'  = [held  EXCEPT ![t] = contents]
          /\ UNCHANGED <<op, live, updates>>
     ELSE /\ Return(t)
          /\ live' = live - 1
          /\ updates' = updates - contents
  /\ bypassed' = FALSE
  /\ UNCHANGED notEmpty

(* readMVar and swapMVar: the box stays full, nothing is signalled.         *)
ReadOrSwap(t) ==
  /\ At(t, "getting") /\ op[t] \in {"read", "swap"}
  /\ contents # None
  /\ contents' = IF op[t] = "swap" THEN held[t] ELSE contents
  /\ Return(t)
  /\ updates'  = updates - contents + contents'
  /\ bypassed' = (bypassed \/ notEmpty # {})
  /\ UNCHANGED <<notEmpty, notFull, live>>

(* tryTakeMVar on an empty box, tryPutMVar on a full one.                   *)
TryFails(t) ==
  /\ \/ At(t, "getting") /\ op[t] = "tryTake" /\ contents = None
     \/ At(t, "putting") /\ op[t] = "tryPut"  /\ contents # None
  /\ Return(t)
  /\ UNCHANGED <<contents, notEmpty, notFull, history>>

(* The function given to modifyMVar or withMVar returns.                    *)
FunctionReturns(t) ==
  /\ At(t, "calling")
  /\ LET n == IF op[t] = "modify" THEN 1 ELSE 0 IN
     /\ held'    = [held EXCEPT ![t] = @ + n]
     /\ updates' = updates + n
  /\ stage' = [stage EXCEPT ![t] = "putting"]
  /\ UNCHANGED <<contents, notEmpty, notFull, op, live, bypassed>>

(* waitForEmptyLocked finds Just.                                           *)
WaitForEmpty(t) ==
  /\ At(t, "putting") /\ op[t] # "tryPut"
  /\ contents # None
  /\ notFull' = notFull \cup {t}
  /\ UNCHANGED <<contents, notEmpty, stage, op, held, history>>

(* Mutant: a put that signals the putters.                                  *)
PutWrongSignal(t) ==
  /\ At(t, "putting")
  /\ contents = None
  /\ contents' = held[t]
  /\ notFull' \in Signalled(notFull)
  /\ live' = live + Cardinality({t} \ Lending)
  /\ Return(t)
  /\ UNCHANGED <<notEmpty, updates, bypassed>>

(* putMVar and tryPutMVar, and the put that ends modifyMVar and withMVar.   *)
Put(t) ==
  /\ At(t, "putting")
  /\ contents = None
  /\ contents' = held[t]
  /\ notEmpty' \in Signalled(notEmpty)
  /\ live' = live + Cardinality({t} \ Lending)
  /\ Return(t)
  /\ UNCHANGED <<notFull, updates, bypassed>>

(* pthread_cond_wait may also return without a signal.                      *)
Spurious(t) ==
  /\ t \in Waiting
  /\ notEmpty' = notEmpty \ {t}
  /\ notFull'  = notFull \ {t}
  /\ UNCHANGED <<contents, stage, op, held, history>>

Step(t) ==
  \/ WaitForFull(t) \/ Take(t) \/ ReadOrSwap(t) \/ TryFails(t)
  \/ FunctionReturns(t) \/ WaitForEmpty(t) \/ Put(t)

Calls(t) == Spurious(t) \/ \E o \in Ops : Call(t, o)
Next == \E t \in Thread : Step(t) \/ Calls(t)

(* A thread inside an operation keeps running; which thread gets the mutex  *)
(* next is up to the system, so fairness is weak.                           *)
Spec     == Init /\ [][Next]_vars
FairSpec == Spec /\ \A t \in Thread : WF_vars(Step(t))
-----------------------------------------------------------------------------
Amount == 0..MaxUpdate

(* Type invariant; each condition has waiters of one kind only.             *)
TypeOK ==
  /\ contents \in Amount \cup {None}
  /\ notEmpty \subseteq {t \in Thread : stage[t] = "getting"}
  /\ notFull  \subseteq {t \in Thread : stage[t] = "putting"}
  /\ stage \in [Thread -> {"out", "getting", "calling", "putting"}]
  /\ op    \in [Thread -> Ops \cup {None}]
  /\ held  \in [Thread -> Amount \cup {None}]
  /\ live  \in 0..(Cardinality(Thread) + 1)
  /\ updates \in Amount /\ bypassed \in BOOLEAN

Quiet == \A t \in Thread : stage[t] # "out" => t \in Waiting

(* No lost wakeup: when no thread is on its way, nobody waits for a value   *)
(* that is there, or for room that is there: the conditions "are signalled  *)
(* on every transition out of the state a blocked waiter is stuck on"       *)
(* (MVar.idr).                                                              *)
NobodyForgotten ==
  Quiet => /\ contents # None => notEmpty = {}
           /\ contents = None => notFull = {}

(* One signal for each change is enough for takers and putters, however     *)
(* wakers and waiters race for the mutex: a thread waits beside the value   *)
(* it needs only when readMVar or swapMVar has gone past it since the box   *)
(* was last emptied.                                                        *)
ForgottenOnlyByReaders ==
  Quiet => /\ contents # None => notEmpty = {} \/ bypassed
           /\ contents = None => notFull = {}

(* Atomic updates without a mutex held (modifyMVar_, withMVar): a value is  *)
(* in the box or with one function, never both and never lost, and the      *)
(* values around carry every update that was made to them; and a function   *)
(* that has the value always gets to put it back, whatever takes and reads  *)
(* overlap, in a program that only puts back what it took.                  *)
InPlace == (IF contents = None THEN 0 ELSE 1) + Cardinality(Lending)
Carried == UNION {{t} \X (1..held[t]) : t \in Lending}
UpdatesKept ==
  /\ TypeOK
  /\ InPlace = live
  /\ (IF contents = None THEN 0 ELSE contents) + Cardinality(Carried) = updates
FunctionPutsBack ==
  \/ <>(\E t \in Thread : op[t] \in Putters)
  \/ \A t \in Thread : stage[t] = "calling" ~> stage[t] = "out"
=============================================================================
