------------------------------- MODULE CafMemo -------------------------------
(***************************************************************************)
(* Memoized top-level values (idris2rc2_caf_memoize.h, .c, and the use     *)
(* Emit.idr generates).  A value is computed by the first thread to claim  *)
(* it, the others spin until it is done; every memo is pushed onto one     *)
(* lock-free list, from which idris2rc2_rtFinish drops the values when     *)
(* main returns.                                                           *)
(***************************************************************************)
EXTENDS Integers, Sequences, FiniteSets

CONSTANTS Thread,
          Main,
          Caf,
          Needs,     (* the memoized values each one uses, in order          *)
          Joined,    (* TRUE: main returns after every other thread ended    *)
          None

ASSUME MainAssumption  == Main \in Thread
ASSUME NeedsAssumption == Needs \in [Caf -> Seq(Caf)]
ASSUME NoneAssumption  == None \notin Thread \cup Caf
ASSUME CafAssumption   == IsFiniteSet(Caf)
ASSUME JoinAssumption  == Joined \in BOOLEAN

VARIABLES
  claimed,  (* memo->claimed                                                *)
  owner,    (* memo->owner                                                  *)
  done,     (* memo->done                                                   *)
  next,     (* memo->cleanup_next                                           *)
  head,     (* idris2rc2_memo_boxed_cleanupHead                             *)
  count,    (* the reference count of each value, 0 when freed              *)
  stack,    (* the uses of memoized values a thread is in, innermost last   *)
  keeps,    (* the values a thread was returned and has not dropped yet     *)
  ended,    (* the threads that have ended                                  *)
  node,     (* the cursor of dropAll                                        *)
  process   (* "up", "finishing" (in dropAll), "exited", or "cycle"         *)

memoVars == <<claimed, owner, done>>
listVars == <<next, head>>
endVars  == <<ended, node, process>>
vars     == <<memoVars, listVars, count, stack, keeps, endVars>>

Frame(c)     == [caf |-> c, at |-> "claim", old |-> None, todo |-> Needs[c]]
Top(t)       == stack[t][Len(stack[t])]
Runs(t)      == process \in {"up", "finishing"} /\ t \notin ended
In(t, where) == Runs(t) /\ stack[t] # <<>> /\ Top(t).at = where
Goto(t, where) == stack' = [stack EXCEPT ![t][Len(stack[t])].at = where]

Init ==
  /\ claimed = [c \in Caf |-> FALSE]
  /\ owner   = [c \in Caf |-> None]
  /\ done    = [c \in Caf |-> FALSE]
  /\ next    = [c \in Caf |-> None]
  /\ head    = None
  /\ count   = [c \in Caf |-> 0]
  /\ stack   = [t \in Thread |-> <<>>]
  /\ keeps   = [t \in Thread |-> {}]
  /\ ended   = {}
  /\ node    = None
  /\ process = "up"

(* The program uses a top-level value.                                      *)
Use(t, c) ==
  /\ Runs(t) /\ stack[t] = <<>> /\ c \notin keeps[t]
  /\ t = Main => process = "up"
  /\ stack' = [stack EXCEPT ![t] = <<Frame(c)>>]
  /\ UNCHANGED <<memoVars, listVars, count, keeps, endVars>>

(* The program drops one it was returned.                                   *)
Drop(t, c) ==
  /\ Runs(t) /\ stack[t] = <<>> /\ c \in keeps[t]
  /\ t = Main => process = "up"
  /\ keeps' = [keeps EXCEPT ![t] = @ \ {c}]
  /\ count' = [count EXCEPT ![c] = @ - 1]
  /\ UNCHANGED <<memoVars, listVars, stack, endVars>>

(* Mutant: the flag tested without being set.                               *)
ClaimTestOnly(t) ==
  /\ In(t, "claim")
  /\ Goto(t, IF claimed[Top(t).caf] THEN "wait" ELSE "own")
  /\ UNCHANGED <<memoVars, listVars, count, keeps, endVars>>

(* idris2rc2_memo_boxed_claim: test and set.                                *)
Claim(t) ==
  /\ In(t, "claim")
  /\ claimed' = [claimed EXCEPT ![Top(t).caf] = TRUE]
  /\ Goto(t, IF claimed[Top(t).caf] THEN "wait" ELSE "own")
  /\ UNCHANGED <<owner, done, listVars, count, keeps, endVars>>

(* Mutant: the owner is not recorded.                                       *)
OwnAnonymous(t) ==
  /\ In(t, "own")
  /\ Goto(t, "eval")
  /\ UNCHANGED <<memoVars, listVars, count, keeps, endVars>>

(* idris2rc2_memo_boxed_claim: the winner becomes the owner.                *)
Own(t) ==
  /\ In(t, "own")
  /\ owner' = [owner EXCEPT ![Top(t).caf] = t]
  /\ Goto(t, "eval")
  /\ UNCHANGED <<claimed, done, listVars, count, keeps, endVars>>

(* The body uses the next value it needs.                                   *)
EvalUse(t) ==
  /\ In(t, "eval") /\ Top(t).todo # <<>>
  /\ stack' = [stack EXCEPT ![t] =
       Append([stack[t] EXCEPT ![Len(stack[t])].todo = Tail(@)], Frame(Head(Top(t).todo)))]
  /\ UNCHANGED <<memoVars, listVars, count, keeps, endVars>>

(* The body returns; idris2rc2_memo_boxed_store: the memo's dup, and the    *)
(* first load of the list's head.                                           *)
EvalStore(t) ==
  /\ In(t, "eval") /\ Top(t).todo = <<>>
  /\ count' = [count EXCEPT ![Top(t).caf] = 2]
  /\ stack' = [stack EXCEPT ![t][Len(stack[t])].at  = "push",
                            ![t][Len(stack[t])].old = head]
  /\ UNCHANGED <<memoVars, listVars, keeps, endVars>>

(* Mutant: a store of the head where the exchange is needed.                *)
PushStore(t) ==
  /\ In(t, "push")
  /\ next' = [next EXCEPT ![Top(t).caf] = Top(t).old]
  /\ head' = Top(t).caf
  /\ Goto(t, "publish")
  /\ UNCHANGED <<memoVars, count, keeps, endVars>>

(* idris2rc2_memo_boxed_store: one round of the push; a failed exchange     *)
(* reloads the head.                                                        *)
Push(t) ==
  /\ In(t, "push")
  /\ next' = [next EXCEPT ![Top(t).caf] = Top(t).old]
  /\ IF head = Top(t).old
     THEN head' = Top(t).caf /\ Goto(t, "publish")
     ELSE /\ stack' = [stack EXCEPT ![t][Len(stack[t])].old = head]
          /\ UNCHANGED head
  /\ UNCHANGED <<memoVars, count, keeps, endVars>>

(* Mutant: done is never set.                                               *)
PublishNothing(t) ==
  /\ In(t, "publish")
  /\ Goto(t, "return")
  /\ UNCHANGED <<memoVars, listVars, count, keeps, endVars>>

(* idris2rc2_memo_boxed_store: done, with release.                          *)
Publish(t) ==
  /\ In(t, "publish")
  /\ done' = [done EXCEPT ![Top(t).caf] = TRUE]
  /\ Goto(t, "return")
  /\ UNCHANGED <<claimed, owner, listVars, count, keeps, endVars>>

(* Mutant: the value is taken as soon as it has an owner.                   *)
WaitOwner(t) ==
  /\ In(t, "wait")
  /\ owner[Top(t).caf] \notin {None, t}
  /\ Goto(t, "dup")
  /\ UNCHANGED <<memoVars, listVars, count, keeps, endVars>>

(* Mutant: anyone's claim is taken for a cycle.                             *)
WaitClaimed(t) ==
  /\ In(t, "wait")
  /\ IF done[Top(t).caf] THEN Goto(t, "dup") /\ UNCHANGED process
     ELSE owner[Top(t).caf] # None /\ process' = "cycle" /\ UNCHANGED stack
  /\ UNCHANGED <<memoVars, listVars, count, keeps, ended, node>>

(* idris2rc2_memo_boxed_wait: spin until done; the owner itself would spin  *)
(* forever, and exits instead (idris2rc2_memo_cycle).                       *)
Wait(t) ==
  /\ In(t, "wait")
  /\ IF done[Top(t).caf] THEN Goto(t, "dup") /\ UNCHANGED process
     ELSE owner[Top(t).caf] = t /\ process' = "cycle" /\ UNCHANGED stack
  /\ UNCHANGED <<memoVars, listVars, count, keeps, ended, node>>

(* idris2rc2_memo_boxed_wait: the waiter's own reference.                   *)
DupValue(t) ==
  /\ In(t, "dup")
  /\ count' = [count EXCEPT ![Top(t).caf] = @ + 1]
  /\ Goto(t, "return")
  /\ UNCHANGED <<memoVars, listVars, keeps, endVars>>

(* The value is returned owned; a body that used it drops it.               *)
Return(t) ==
  /\ In(t, "return")
  /\ LET c == Top(t).caf IN
     IF Len(stack[t]) = 1
     THEN keeps' = [keeps EXCEPT ![t] = @ \cup {c}] /\ UNCHANGED count
     ELSE count' = [count EXCEPT ![c] = @ - 1]      /\ UNCHANGED keeps
  /\ stack' = [stack EXCEPT ![t] = SubSeq(@, 1, Len(@) - 1)]
  /\ UNCHANGED <<memoVars, listVars, endVars>>

(* A thread other than main ends (its closure has returned).                *)
End(t) ==
  /\ Runs(t) /\ t # Main /\ stack[t] = <<>> /\ keeps[t] = {}
  /\ ended' = ended \cup {t}
  /\ UNCHANGED <<memoVars, listVars, count, stack, keeps, node, process>>

(* main has returned: idris2rc2_memo_boxed_dropAll loads the head.          *)
StartFinish ==
  /\ process = "up" /\ stack[Main] = <<>> /\ keeps[Main] = {}
  /\ Joined => Thread \ {Main} \subseteq ended
  /\ process' = "finishing"
  /\ node' = head
  /\ UNCHANGED <<memoVars, listVars, count, stack, keeps, ended>>

(* idris2rc2_memo_boxed_dropAll: drop one memo's value.                     *)
DropNode ==
  /\ process = "finishing" /\ node # None
  /\ count' = [count EXCEPT ![node] = @ - 1]
  /\ node'  = next[node]
  /\ UNCHANGED <<memoVars, listVars, stack, keeps, ended, process>>

Exit ==
  /\ process = "finishing" /\ node = None
  /\ process' = "exited"
  /\ UNCHANGED <<memoVars, listVars, count, stack, keeps, ended, node>>

Step(t) ==
  \/ Claim(t) \/ Own(t) \/ EvalUse(t) \/ EvalStore(t) \/ Push(t)
  \/ Publish(t) \/ Wait(t) \/ DupValue(t) \/ Return(t)

Calls ==
  \/ \E t \in Thread : End(t) \/ \E c \in Caf : Use(t, c) \/ Drop(t, c)
  \/ StartFinish \/ DropNode \/ Exit

Next == Calls \/ \E t \in Thread : Step(t)

Spec     == Init /\ [][Next]_vars
FairSpec == Spec /\ \A t \in Thread : WF_vars(Step(t))
-----------------------------------------------------------------------------
Frames(c, places) ==
  {p \in Thread \X (1..Cardinality(Caf) + 1) :
     p[2] <= Len(stack[p[1]]) /\ stack[p[1]][p[2]].caf = c /\ stack[p[1]][p[2]].at \in places}

(* Type invariant.                                                          *)
TypeOK ==
  /\ claimed \in [Caf -> BOOLEAN]
  /\ owner   \in [Caf -> Thread \cup {None}]
  /\ done    \in [Caf -> BOOLEAN]
  /\ next    \in [Caf -> Caf \cup {None}]
  /\ head    \in Caf \cup {None}
  /\ count   \in [Caf -> Int]
  /\ keeps   \in [Thread -> SUBSET Caf]
  /\ ended   \in SUBSET Thread
  /\ node    \in Caf \cup {None}
  /\ process \in {"up", "finishing", "exited", "cycle"}

(* A top-level value is computed at most once in the life of the process,   *)
(* however many threads use it first at the same time                       *)
(* (idris2rc2_memo_boxed_claim).                                            *)
ComputedOnce ==
  /\ TypeOK
  /\ \A c \in Caf :
       Cardinality(Frames(c, {"own", "eval", "push", "publish"}))
         + (IF done[c] THEN 1 ELSE 0) <= 1

(* Every use that gets past the wait finds the value stored, and nobody     *)
(* frees it while it is used, not even dropAll (idris2rc2_memo_boxed_wait   *)
(* returns "a fresh dup of the now-ready value").                           *)
AliveInUse ==
  \A c \in Caf :
    /\ Frames(c, {"dup", "return"}) # {} => count[c] > 0
    /\ \A t \in Thread : c \in keeps[t] => count[c] > 0
    /\ count[c] >= 0

(* And when the process exits every value computed has been freed: the      *)
(* memo's one reference is dropped, whatever the threads did before.        *)
ValueReady ==
  /\ AliveInUse
  /\ process = "exited" => \A c \in Caf : count[c] = 0

(* What computing a value uses, directly or through the values it uses.     *)
Uses(c)   == {Needs[c][i] : i \in 1..Len(Needs[c])}
Closed(S) == \A c \in S : Uses(c) \subseteq S
Needed    ==
  [c \in Caf |-> {d \in Caf : \A S \in SUBSET Caf : Uses(c) \subseteq S /\ Closed(S) => d \in S}]

(* "depends on itself" is reported only for a value that does.              *)
CycleIsReal ==
  process = "cycle" =>
    \E t \in Thread : /\ stack[t] # <<>>
                      /\ Top(t).at = "wait"
                      /\ Top(t).caf \in Needed[Top(t).caf]

(* Every use of a top-level value that does not depend on a cycle ends,     *)
(* however many threads meet on it, also beside threads that spin on a      *)
(* cycle: whoever is waited for gets on.  And a thread that comes back to a *)
(* value it is computing stops the process instead of spinning for ever,    *)
(* also when others spin on it (idris2rc2_memo_cycle; a cycle through two   *)
(* threads is not caught).                                                  *)
Sane(c) == \A d \in {c} \cup Needed[c] : d \notin Needed[d]
Recursive(t) == /\ stack[t] # <<>> /\ Top(t).at = "wait"
                /\ \E i \in 1..Len(stack[t]) - 1 : stack[t][i].caf = Top(t).caf
UseEnds ==
  \A t \in Thread :
    /\ stack[t] # <<>> /\ Sane(stack[t][1].caf) ~> stack[t] = <<>> \/ process = "cycle"
    /\ Recursive(t) ~> process = "cycle"
=============================================================================
