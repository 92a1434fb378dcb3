----------------------------- MODULE SharedSlots -----------------------------
(***************************************************************************)
(* The mutable cells of the rc2 runtime: IORefs (one slot each) and an     *)
(* Array (several), each object guarded by one spinlock                    *)
(* (idris2rc2_ioprims.c, idris2rc2_util.h).  The lock is what keeps a      *)
(* reader that has loaded a pointer, and has not counted it yet, from a    *)
(* writer that drops it.  Count updates are single steps here: RefCount    *)
(* shows why they may be.                                                  *)
(***************************************************************************)
EXTENDS Integers, FiniteSets

CONSTANTS Thread,   (* threads sharing the cells                            *)
          Slot,     (* the slots of an Array, and IORefs                    *)
          Items,    (* those of the Array                                   *)
          Val,      (* addresses of values; a freed one may be used again   *)
          MaxHeld,  (* bound: references a thread keeps to one value        *)
          MaxBirth, (* bound: how often an address is allocated             *)
          None      (* no thread, no value                                  *)

ASSUME ValAssumption  == None \notin Thread \cup Val
ASSUME SlotAssumption == Items \subseteq Slot /\ Slot # {}
ASSUME FiniteAssumption == IsFiniteSet(Thread) /\ IsFiniteSet(Slot)
ASSUME BoundAssumption  == MaxBirth \in Nat \ {0}

VARIABLES
  slot,    (* the value in each slot                                        *)
  lock,    (* the thread that holds the spinlock of each object, or None    *)
  count,   (* reference count of each value, 0 when it is freed             *)
  birth,   (* how many times each address has been allocated                *)
  held,    (* references each thread keeps in its variables                 *)
  pc,      (* where a thread is in a primitive                              *)
  at,      (* the slot the primitive works on                               *)
  reg,     (* the pointer it has loaded                                     *)
  mine,    (* the reference it owns: the value to store, then the old one   *)
  expected (* cas: the value expected, and its birth when it was obtained   *)

vars == <<slot, lock, count, birth, held, pc, at, reg, mine, expected>>

(* The object a slot belongs to, by its first slot: it has the lock.        *)
Object(s) == IF s \in Items THEN CHOOSE i \in Items : TRUE ELSE s

NoValue == [val |-> None, birth |-> 0]
-----------------------------------------------------------------------------
(* prim__newIORef and prim__newArray, of one value.                         *)
Init ==
  /\ \E v \in Val :
       /\ slot  = [s \in Slot |-> v]
       /\ count = [w \in Val |-> IF w = v THEN Cardinality(Slot) ELSE 0]
       /\ birth = [w \in Val |-> IF w = v THEN 1 ELSE 0]
  /\ lock     = [s \in Slot |-> None]
  /\ held     = [t \in Thread |-> [v \in Val |-> 0]]
  /\ pc       = [t \in Thread |-> "idle"]
  /\ at       \in [Thread -> {CHOOSE s \in Slot : TRUE}]
  /\ reg      = [t \in Thread |-> None]
  /\ mine     = [t \in Thread |-> None]
  /\ expected = [t \in Thread |-> NoValue]

(* The program allocates a value, or drops one it holds.                    *)
New(t, v) ==
  /\ pc[t] = "idle"
  /\ count[v] = 0 /\ birth[v] < MaxBirth
  /\ count' = [count EXCEPT ![v] = 1]
  /\ birth' = [birth EXCEPT ![v] = @ + 1]
  /\ held'  = [held  EXCEPT ![t][v] = 1]
  /\ UNCHANGED <<slot, lock, pc, at, reg, mine, expected>>

Drop(t, v) ==
  /\ pc[t] = "idle"
  /\ held[t][v] > 0
  /\ count' = [count EXCEPT ![v] = @ - 1]
  /\ held'  = [held  EXCEPT ![t][v] = @ - 1]
  /\ UNCHANGED <<slot, lock, birth, pc, at, reg, mine, expected>>

(* prim__readIORef, prim__arrayGet.                                         *)
StartRead(t, s) ==
  /\ pc[t] = "idle"
  /\ pc' = [pc EXCEPT ![t] = "read lock"]
  /\ at' = [at EXCEPT ![t] = s]
  /\ UNCHANGED <<slot, lock, count, birth, held, reg, mine, expected>>

(* Mutant: the value is stored without a dup.                               *)
StartWriteUncounted(t, s, v) ==
  /\ pc[t] = "idle"
  /\ held[t][v] > 0
  /\ mine' = [mine EXCEPT ![t] = v]
  /\ pc' = [pc EXCEPT ![t] = "write lock"]
  /\ at' = [at EXCEPT ![t] = s]
  /\ UNCHANGED <<slot, lock, count, birth, held, reg, expected>>

(* prim__writeIORef, prim__arraySet: dup the new value, then lock.          *)
StartWrite(t, s, v) ==
  /\ pc[t] = "idle"
  /\ held[t][v] > 0
  /\ count' = [count EXCEPT ![v] = @ + 1]
  /\ mine'  = [mine  EXCEPT ![t] = v]
  /\ pc' = [pc EXCEPT ![t] = "write lock"]
  /\ at' = [at EXCEPT ![t] = s]
  /\ UNCHANGED <<slot, lock, birth, held, reg, expected>>

(* idris2rc2_ioref_cas: both operands are borrowed from the caller.         *)
StartCas(t, s, e, d) ==
  /\ s \notin Items
  /\ pc[t] = "idle"
  /\ held[t][e] > 0 /\ held[t][d] > 0
  /\ expected' = [expected EXCEPT ![t] = [val |-> e, birth |-> birth[e]]]
  /\ reg' = [reg EXCEPT ![t] = d]
  /\ pc'  = [pc  EXCEPT ![t] = "cas lock"]
  /\ at'  = [at  EXCEPT ![t] = s]
  /\ UNCHANGED <<slot, lock, count, birth, held, mine>>

Locked == [op \in {"read lock", "write lock", "cas lock"} |->
             CASE op = "read lock"  -> "read load"
               [] op = "write lock" -> "write load"
               [] OTHER             -> "cas test"]

(* Mutant: a lock that does not keep anyone out.                            *)
AcquireAnyway(t) ==
  /\ pc[t] \in DOMAIN Locked
  /\ lock' = [lock EXCEPT ![Object(at[t])] = t]
  /\ pc'   = [pc EXCEPT ![t] = Locked[@]]
  /\ UNCHANGED <<slot, count, birth, held, at, reg, mine, expected>>

(* idris2rc2_spin_lock: the test-and-set that succeeds.                     *)
Acquire(t) ==
  /\ pc[t] \in DOMAIN Locked
  /\ lock[Object(at[t])] = None
  /\ lock' = [lock EXCEPT ![Object(at[t])] = t]
  /\ pc'   = [pc EXCEPT ![t] = Locked[@]]
  /\ UNCHANGED <<slot, count, birth, held, at, reg, mine, expected>>

(* Load the pointer, then count it: the window the lock closes.             *)
ReadLoad(t) ==
  /\ pc[t] = "read load"
  /\ reg' = [reg EXCEPT ![t] = slot[at[t]]]
  /\ pc'  = [pc  EXCEPT ![t] = "read dup"]
  /\ UNCHANGED <<slot, lock, count, birth, held, at, mine, expected>>

ReadDup(t) ==
  /\ pc[t] = "read dup"
  /\ count' = [count EXCEPT ![reg[t]] = @ + 1]
  /\ mine'  = [mine  EXCEPT ![t] = reg[t]]
  /\ pc'    = [pc    EXCEPT ![t] = "unlock keep"]
  /\ UNCHANGED <<slot, lock, birth, held, at, reg, expected>>

WriteLoad(t) ==
  /\ pc[t] = "write load"
  /\ reg' = [reg EXCEPT ![t] = slot[at[t]]]
  /\ pc'  = [pc  EXCEPT ![t] = "write store"]
  /\ UNCHANGED <<slot, lock, count, birth, held, at, mine, expected>>

(* The new value's reference goes into the slot, the old one's comes out.   *)
WriteStore(t) ==
  /\ pc[t] = "write store"
  /\ slot' = [slot EXCEPT ![at[t]] = mine[t]]
  /\ mine' = [mine EXCEPT ![t] = reg[t]]
  /\ pc'   = [pc   EXCEPT ![t] = "unlock drop"]
  /\ UNCHANGED <<lock, count, birth, held, at, reg, expected>>

(* The comparison is of pointers: dup the desired value if they are equal,  *)
(* the current one to answer with if they differ.                           *)
CasTest(t) ==
  /\ pc[t] = "cas test"
  /\ LET equal == slot[at[t]] = expected[t].val
         taken == IF equal THEN reg[t] ELSE slot[at[t]]
     IN /\ count' = [count EXCEPT ![taken] = @ + 1]
        /\ mine'  = [mine  EXCEPT ![t] = taken]
        /\ pc'    = [pc EXCEPT ![t] = IF equal THEN "cas store" ELSE "unlock keep"]
  /\ UNCHANGED <<slot, lock, birth, held, at, reg, expected>>

CasStore(t) ==
  /\ pc[t] = "cas store"
  /\ slot' = [slot EXCEPT ![at[t]] = mine[t]]
  /\ mine' = [mine EXCEPT ![t] = slot[at[t]]]
  /\ pc'   = [pc   EXCEPT ![t] = "unlock drop"]
  /\ UNCHANGED <<lock, count, birth, held, at, reg, expected>>

Finish(t) ==
  /\ pc'       = [pc       EXCEPT ![t] = "idle"]
  /\ reg'      = [reg      EXCEPT ![t] = None]
  /\ mine'     = [mine     EXCEPT ![t] = None]
  /\ expected' = [expected EXCEPT ![t] = NoValue]

(* Unlock and return the reference made under the lock.                     *)
UnlockKeep(t) ==
  /\ pc[t] = "unlock keep"
  /\ lock' = [lock EXCEPT ![Object(at[t])] = None]
  /\ held' = [held EXCEPT ![t][mine[t]] = @ + 1]
  /\ Finish(t)
  /\ UNCHANGED <<slot, count, birth, at>>

UnlockDrop(t) ==
  /\ pc[t] = "unlock drop"
  /\ lock' = [lock EXCEPT ![Object(at[t])] = None]
  /\ pc'   = [pc EXCEPT ![t] = "drop old"]
  /\ UNCHANGED <<slot, count, birth, held, at, reg, mine, expected>>

DropOld(t) ==
  /\ pc[t] = "drop old"
  /\ count' = [count EXCEPT ![mine[t]] = @ - 1]
  /\ Finish(t)
  /\ UNCHANGED <<slot, lock, birth, held, at>>
-----------------------------------------------------------------------------
Call(t) ==
  \/ \E v \in Val : New(t, v) \/ Drop(t, v)
  \/ \E s \in Slot : StartRead(t, s)
  \/ \E s \in Slot, v \in Val : StartWrite(t, s, v)
  \/ \E s \in Slot, e, d \in Val : StartCas(t, s, e, d)

Step(t) ==
  \/ Acquire(t)
  \/ ReadLoad(t) \/ ReadDup(t)
  \/ WriteLoad(t) \/ WriteStore(t)
  \/ CasTest(t) \/ CasStore(t)
  \/ UnlockKeep(t) \/ UnlockDrop(t) \/ DropOld(t)

Next == \E t \in Thread : Call(t) \/ Step(t)
Spec == Init /\ [][Next]_vars

(* State constraint of the runs: what a thread keeps is bounded.            *)
Bounded == \A t \in Thread, v \in Val : held[t][v] <= MaxHeld
-----------------------------------------------------------------------------
TypeOK ==
  /\ slot  \in [Slot -> Val]
  /\ lock  \in [Slot -> Thread \cup {None}]
  /\ count \in [Val -> Nat]
  /\ birth \in [Val -> 0..MaxBirth]
  /\ held  \in [Thread -> [Val -> Nat]]
  /\ at    \in [Thread -> Slot]
  /\ reg   \in [Thread -> Val \cup {None}]
  /\ mine  \in [Thread -> Val \cup {None}]

(* No primitive counts, stores or compares a pointer to a value that has    *)
(* been freed: between a reader's load and its dup no writer's drop can     *)
(* take the last reference (idris2rc2_util.h's reason for the spinlock);    *)
(* and when the exchange stores, the slot still holds the very object the   *)
(* caller expected, not another value written since the comparison and not  *)
(* a new object at the address of a freed one (idris2rc2_ioref_cas compares *)
(* tagged pointers, never Eq).                                              *)
NoStaleValue ==
  /\ TypeOK
  /\ \A s \in Slot : count[slot[s]] > 0
  /\ \A t \in Thread : pc[t] = "read dup" => count[reg[t]] > 0
  /\ \A t \in Thread : mine[t] # None => count[mine[t]] > 0
  /\ \A t \in Thread : pc[t] = "cas store" =>
       slot[at[t]] = expected[t].val /\ birth[slot[at[t]]] = expected[t].birth

(* The references to a value: slots that hold it, primitives in progress    *)
(* that own one, and the first, second, ... reference of each thread's own. *)
Stored(v) == {s \in Slot : slot[s] = v}
Owning(v) == {t \in Thread : mine[t] = v}
Kept(v)   == UNION {{t} \X (1..held[t][v]) : t \in Thread}

(* Every reference is counted once: a value's count is the number of slots  *)
(* that hold it, of variables that hold it and of primitives in progress    *)
(* that own one, so that no swap loses or doubles the old value's           *)
(* reference (writeIORef, arraySet, idris2rc2_ioref_cas).                   *)
Balance ==
  \A v \in Val :
    count[v] = Cardinality(Stored(v)) + Cardinality(Owning(v)) + Cardinality(Kept(v))
=============================================================================
