-------------------------------- MODULE Memo --------------------------------
(***************************************************************************)
(* The two kinds of value the runtime computes once: memoized top-level    *)
(* values and lazy cells.  They share no state, so the threads of a        *)
(* behaviour use the one or the other, chosen at the start.                *)
(***************************************************************************)
EXTENDS CafMemo

CONSTANTS Cell,
          CellNeeds   (* the cells each cell's thunk forces, in order       *)

VARIABLES av, reserved, lock, refs, forces, got, crashed,
          has    \* "cafs" or "cells"

Lazy == INSTANCE LazyCell WITH Needs <- CellNeeds, count <- refs, stack <- forces
lazyVars == <<av, reserved, lock, refs, forces, got, crashed>>

ASSUME CellAssumption == Lazy!LazyConstants

MemoInit     == Init /\ Lazy!Init /\ has \in {"cafs", "cells"}
CafStep(t)   == has = "cafs" /\ Step(t) /\ UNCHANGED <<lazyVars, has>>
CafCalls     == has = "cafs" /\ Calls /\ UNCHANGED <<lazyVars, has>>
LazyStep(t)  == has = "cells" /\ Lazy!Step(t) /\ UNCHANGED <<vars, has>>
LazyForce(t) == has = "cells" /\ (\E c \in Cell : Lazy!Force(t, c)) /\ UNCHANGED <<vars, has>>
MemoNext     == CafCalls \/ \E t \in Thread : CafStep(t) \/ LazyStep(t) \/ LazyForce(t)

allVars == <<vars, lazyVars, has>>
MemoSpec ==
  /\ MemoInit /\ [][MemoNext]_allVars
  /\ \A t \in Thread : WF_allVars(CafStep(t)) /\ WF_allVars(LazyStep(t))

-----------------------------------------------------------------------------
(* Top-level values are computed at most once, found complete by whoever    *)
(* waited, kept while they are used and freed at exit.                      *)
MemoSound == ComputedOnce /\ ValueReady

(* Every force of a lazy cell returns the one value the cell keeps, and the *)
(* process stops only on a cell whose value really needs itself.            *)
ForcesAgree == Lazy!ForcesAgree

(* Closures and results of evaluations that lost are freed, exactly once,   *)
(* and never under a thread that uses them.                                 *)
NothingLeaks == Lazy!NothingLeaks

(* Every use of a top-level value whose computation needs no cycle ends, and *)
(* every force of a lazy cell returns or stops the process.                 *)
CallsEnd == UseEnds /\ Lazy!ForceReturns
=============================================================================
