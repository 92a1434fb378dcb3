------------------------------ MODULE LazyCell ------------------------------
(***************************************************************************)
(* Memoized lazy values: idris2rc2_mkLazy and idris2rc2_force              *)
(* (idris2rc2_rt.c).  Threads force shared cells; evaluating a cell's      *)
(* thunk forces other cells, given by Needs.  Two threads may evaluate one *)
(* cell at the same time; the first to store decides its value.            *)
(***************************************************************************)
EXTENDS Integers, Sequences, FiniteSets

CONSTANTS Thread,
          Cell,
          Needs,   (* the cells each thunk forces, in order                 *)
          None

(* Heap objects: the thunk of a cell, and what a thread evaluated it to.    *)
Thunk(c) == <<c, None>>
Obj      == Cell \X (Thread \cup {None})

LazyConstants == Needs \in [Cell -> Seq(Cell)] /\ None \notin Thread \cup Cell \cup Obj

VARIABLES
  av,       (* the object the cell holds                                    *)
  reserved, (* header.reserved: evaluated                                   *)
  lock,     (* the spinlock of each cell                                    *)
  count,    (* reference counts                                             *)
  stack,    (* the calls of force a thread is in, innermost last            *)
  got,      (* the value each thread was returned for each cell, and keeps  *)
  crashed   (* "a lazy value forces itself": the process has exited         *)

vars == <<av, reserved, lock, count, stack, got, crashed>>

Frame(c)     == [cell |-> c, at |-> "check", x |-> None, r |-> None, todo |-> <<>>]
Top(t)       == stack[t][Len(stack[t])]
In(t, where) == ~crashed /\ stack[t] # <<>> /\ Top(t).at = where
Become(t, f) == stack' = [stack EXCEPT ![t][Len(stack[t])] = f]

(* Mutant: one stack of cells for all threads.                              *)
ForcingAnywhere(t, c) ==
  \E u \in Thread : \E i \in 1..Len(stack[u]) - 1 : stack[u][i].cell = c

(* The cells thread t is evaluating (tl_forcing).                           *)
ForcingHere(t, c) ==
  \E i \in 1..Len(stack[t]) - 1 : stack[t][i].cell = c

Init ==
  /\ av       = [c \in Cell |-> Thunk(c)]
  /\ reserved = [c \in Cell |-> FALSE]
  /\ lock     = [c \in Cell |-> None]
  /\ count    = [o \in Obj |-> IF o[2] = None THEN 1 ELSE 0]
  /\ stack    = [t \in Thread |-> <<>>]
  /\ got      = [t \in Thread |-> [c \in Cell |-> None]]
  /\ crashed  = FALSE

Force(t, c) ==
  /\ ~crashed
  /\ stack[t] = <<>>
  /\ got[t][c] = None
  /\ stack' = [stack EXCEPT ![t] = <<Frame(c)>>]
  /\ UNCHANGED <<av, reserved, lock, count, got, crashed>>

Returning(f, r) == [f EXCEPT !.at = "return", !.r = r]

(* Without the lock: an evaluated cell's value stays while the cell lives.  *)
Check(t) ==
  /\ In(t, "check")
  /\ LET f == Top(t) IN
     \/ /\ reserved[f.cell]
        /\ count' = [count EXCEPT ![av[f.cell]] = @ + 1]
        /\ Become(t, Returning(f, av[f.cell]))
        /\ UNCHANGED crashed
     \/ /\ ~reserved[f.cell] /\ ForcingHere(t, f.cell)
        /\ crashed' = TRUE
        /\ UNCHANGED <<count, stack>>
     \/ /\ ~reserved[f.cell] /\ ~ForcingHere(t, f.cell)
        /\ Become(t, [f EXCEPT !.at = "lock"])
        /\ UNCHANGED <<count, crashed>>
  /\ UNCHANGED <<av, reserved, lock, got>>

(* idris2rc2_spin_lock(&c->lock), before and after the evaluation.          *)
Lock(t) ==
  /\ In(t, "lock") \/ In(t, "relock")
  /\ lock[Top(t).cell] = None
  /\ lock' = [lock EXCEPT ![Top(t).cell] = t]
  /\ Become(t, [Top(t) EXCEPT !.at = IF @ = "lock" THEN "take" ELSE "store"])
  /\ UNCHANGED <<av, reserved, count, got, crashed>>

(* Mutant: the evaluation runs on the cell's own reference to the closure.  *)
TakeBorrowed(t) ==
  /\ In(t, "take")
  /\ LET f == Top(t)
         x == av[f.cell]
     IN /\ count' = IF reserved[f.cell] THEN [count EXCEPT ![x] = @ + 1] ELSE count
        /\ Become(t, IF reserved[f.cell] THEN Returning(f, x)
                     ELSE [f EXCEPT !.at = "run", !.x = x, !.todo = Needs[f.cell]])
        /\ lock' = [lock EXCEPT ![f.cell] = None]
  /\ UNCHANGED <<av, reserved, got, crashed>>

(* Mutant: the cell stays locked while its thunk is evaluated.              *)
TakeLocked(t) ==
  /\ In(t, "take")
  /\ LET f == Top(t)
         x == av[f.cell]
     IN /\ count' = [count EXCEPT ![x] = @ + 1]
        /\ Become(t, IF reserved[f.cell] THEN Returning(f, x)
                     ELSE [f EXCEPT !.at = "run", !.x = x, !.todo = Needs[f.cell]])
        /\ IF reserved[f.cell] THEN lock' = [lock EXCEPT ![f.cell] = None]
                               ELSE UNCHANGED lock
  /\ UNCHANGED <<av, reserved, got, crashed>>

(* Our own reference to what the cell holds, under the lock: the value if   *)
(* somebody stored it meanwhile, or else the closure to evaluate.           *)
Take(t) ==
  /\ In(t, "take")
  /\ LET f == Top(t)
         x == av[f.cell]
     IN /\ count' = [count EXCEPT ![x] = @ + 1]
        /\ Become(t, IF reserved[f.cell] THEN Returning(f, x)
                     ELSE [f EXCEPT !.at = "run", !.x = x, !.todo = Needs[f.cell]])
        /\ lock' = [lock EXCEPT ![f.cell] = None]
  /\ UNCHANGED <<av, reserved, got, crashed>>

(* The thunk's body forces the next cell it needs.                          *)
RunForce(t) ==
  /\ In(t, "run")
  /\ Top(t).todo # <<>>
  /\ stack' = [stack EXCEPT ![t] =
       Append([stack[t] EXCEPT ![Len(stack[t])].todo = Tail(@)], Frame(Head(Top(t).todo)))]
  /\ UNCHANGED <<av, reserved, lock, count, got, crashed>>

(* The thunk's body returns a value of its own.                             *)
RunReturn(t) ==
  /\ In(t, "run")
  /\ Top(t).todo = <<>>
  /\ LET f == Top(t) IN
     /\ count' = [count EXCEPT ![<<f.cell, t>>] = 1]
     /\ Become(t, [f EXCEPT !.at = "relock", !.r = <<f.cell, t>>])
  /\ UNCHANGED <<av, reserved, lock, got, crashed>>

(* Mutant: the second test of the flag forgotten.                           *)
StoreAnyway(t) ==
  /\ In(t, "store")
  /\ LET f == Top(t) IN
     /\ av'       = [av EXCEPT ![f.cell] = f.r]
     /\ reserved' = [reserved EXCEPT ![f.cell] = TRUE]
     /\ count'    = [count EXCEPT ![f.r] = @ + 1]
     /\ Become(t, [f EXCEPT !.at = "drop_cell"])
     /\ lock' = [lock EXCEPT ![f.cell] = None]
  /\ UNCHANGED <<got, crashed>>

(* Mutant: the loser returns its own value.                                 *)
StoreOrKeep(t) ==
  /\ In(t, "store")
  /\ LET f == Top(t) IN
     /\ IF ~reserved[f.cell]
        THEN /\ av'       = [av EXCEPT ![f.cell] = f.r]
             /\ reserved' = [reserved EXCEPT ![f.cell] = TRUE]
             /\ count'    = [count EXCEPT ![f.r] = @ + 1]
             /\ Become(t, [f EXCEPT !.at = "drop_cell"])
        ELSE /\ Become(t, [f EXCEPT !.at = "drop_ours"])
             /\ UNCHANGED <<av, reserved, count>>
     /\ lock' = [lock EXCEPT ![f.cell] = None]
  /\ UNCHANGED <<got, crashed>>

(* Store the result, or, when another thread stored first, take its.        *)
Store(t) ==
  /\ In(t, "store")
  /\ LET f == Top(t) IN
     /\ IF ~reserved[f.cell]
        THEN /\ av'       = [av EXCEPT ![f.cell] = f.r]
             /\ reserved' = [reserved EXCEPT ![f.cell] = TRUE]
             /\ count'    = [count EXCEPT ![f.r] = @ + 1]
             /\ Become(t, [f EXCEPT !.at = "drop_cell"])
        ELSE /\ count' = [count EXCEPT ![av[f.cell]] = @ + 1, ![f.r] = @ - 1]
             /\ Become(t, [f EXCEPT !.at = "drop_ours", !.r = av[f.cell]])
             /\ UNCHANGED <<av, reserved>>
     /\ lock' = [lock EXCEPT ![f.cell] = None]
  /\ UNCHANGED <<got, crashed>>

(* Drop the closure: the cell's reference when we replaced it, then ours.   *)
DropThunk(t) ==
  /\ In(t, "drop_cell") \/ In(t, "drop_ours")
  /\ LET f == Top(t) IN
     /\ count' = [count EXCEPT ![f.x] = @ - 1]
     /\ Become(t, [f EXCEPT !.at = IF @ = "drop_cell" THEN "drop_ours" ELSE "return"])
  /\ UNCHANGED <<av, reserved, lock, got, crashed>>

(* Return an owned value: the caller keeps it; a thunk that forced the cell *)
(* only for its own evaluation drops it again.                              *)
Return(t) ==
  /\ In(t, "return")
  /\ LET f == Top(t) IN
     /\ IF Len(stack[t]) = 1
        THEN /\ got' = [got EXCEPT ![t][f.cell] = f.r]
             /\ UNCHANGED count
        ELSE /\ count' = [count EXCEPT ![f.r] = @ - 1]
             /\ UNCHANGED got
     /\ stack' = [stack EXCEPT ![t] = SubSeq(@, 1, Len(@) - 1)]
  /\ UNCHANGED <<av, reserved, lock, crashed>>

Step(t) ==
  \/ Check(t) \/ Lock(t) \/ Take(t)
  \/ RunForce(t) \/ RunReturn(t)
  \/ Store(t) \/ DropThunk(t) \/ Return(t)

Next == \E t \in Thread : Step(t) \/ \E c \in Cell : Force(t, c)

(* A thread inside force keeps running.  A spinlock is granted to anyone,   *)
(* but each is taken finitely often: weak fairness is enough.               *)
Spec     == Init /\ [][Next]_vars
FairSpec == Spec /\ \A t \in Thread : WF_vars(Step(t))
-----------------------------------------------------------------------------
(* The cells that forcing a cell forces in turn.                            *)
Uses(c)   == {Needs[c][i] : i \in 1..Len(Needs[c])}
Closed(S) == \A c \in S : Uses(c) \subseteq S
Needed    ==
  [c \in Cell |-> {d \in Cell : \A S \in SUBSET Cell : Uses(c) \subseteq S /\ Closed(S) => d \in S}]

(* Every force of a cell, on any thread, returns the value the cell keeps,  *)
(* also when several threads evaluated it at once; and the process stops    *)
(* with "a lazy value forces itself" only on a cell whose value really      *)
(* needs itself: two threads forcing each other's cells are not mistaken    *)
(* for that (idris2rc2_force; the stack of cells is per thread).            *)
ForcesAgree ==
  /\ \A t \in Thread, c \in Cell :
       got[t][c] # None => reserved[c] /\ got[t][c] = av[c]
  /\ crashed => \E t \in Thread :
       /\ stack[t] # <<>>
       /\ Top(t).at = "check"
       /\ Top(t).cell \in Needed[Top(t).cell]

(* No evaluation runs a closure, and no force returns a value, that another *)
(* thread's drop has already freed (the reference taken under the lock), no *)
(* object is dropped more often than it was counted, and when no force is   *)
(* in progress the only references left are the cells' own and those        *)
(* returned: the closure of an evaluated cell and the results of the        *)
(* evaluations that lost are freed, exactly once.                           *)
NothingLeaks ==
  /\ count \in [Obj -> Nat]
  /\ \A t \in Thread : \A i \in 1..Len(stack[t]) :
    LET f == stack[t][i] IN
    /\ f.at \in {"run", "drop_cell", "drop_ours"} => count[f.x] > 0
    /\ f.at \in {"relock", "store", "drop_cell", "drop_ours", "return"} =>
         count[f.r] > 0
  /\ (\A t \in Thread : stack[t] = <<>>) =>
    \A o \in Obj :
      count[o] = Cardinality({c \in Cell : av[c] = o})
               + Cardinality({p \in Thread \X Cell : got[p[1]][p[2]] = o})

(* Every force returns or stops the process: threads evaluating the same    *)
(* cells, even cells that need each other, never wait for one another       *)
(* (lazy-memoization.md: waiting "would deadlock").                         *)
ForceReturns == \A t \in Thread : stack[t] # <<>> ~> (stack[t] = <<>> \/ crashed)
=============================================================================
