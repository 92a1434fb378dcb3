------------------------------ MODULE RefCount ------------------------------
(***************************************************************************)
(* The hybrid reference counts of the rc2 runtime (idris2rc2_memory.h,     *)
(* idris2rc2_memory.c, idris2rc2_rt.h, idris2rc2_ioprims.c).               *)
(*                                                                         *)
(* A counted pointer, wherever it is stored, is a token of Ref: `target`   *)
(* says which object it points to and `holder` who owns it, a thread (a    *)
(* local variable of generated code) or another object (a field).  The     *)
(* header's 16-bit count is `rc`, MaxCount is IDRIS2RC2_REFCOUNT_MAX.      *)
(* Every count update reads the count, then changes it: the two are        *)
(* separate steps, and whether the change is a plain store of the value    *)
(* read or an atomic read-modify-write is decided by `threaded` at the     *)
(* first of them, as the generated code decides it.                        *)
(***************************************************************************)
EXTENDS Integers, FiniteSets

CONSTANTS Thread,     (* the threads a program may start                    *)
          Main,       (* the thread that runs first                         *)
          Obj,        (* heap cells: addresses malloc may return, reusable  *)
          Static,     (* those that are IDRIS2RC2_STOCKVAL statics          *)
          Ref,        (* tokens: bounds how many pointers exist at once     *)
          Collected,  (* GCPointers with an onCollect closure: user code    *)
                      (* that runs in the teardown of the cell              *)
          MaxCount,   (* IDRIS2RC2_REFCOUNT_MAX                             *)
          None        (* no object, no holder, no token                     *)

ASSUME ThreadAssumption == Main \in Thread
ASSUME ObjAssumption    == Static \subseteq Obj /\ Collected \subseteq Obj
ASSUME RefAssumption    == IsFiniteSet(Ref)
ASSUME CountAssumption  == MaxCount \in Nat /\ MaxCount > 1
ASSUME NoneAssumption   == None \notin Thread \cup Obj \cup Ref
ASSUME KindAssumption   == Thread \cap Obj = {}

VARIABLES
  rc,        (* header.rc / header.refCount of each object                  *)
  life,      (* "free" (not allocated), "live", "dying" (in teardown)       *)
  reaper,    (* the thread inside idris2rc2_teardown(o), or None            *)
  depth,     (* how many onCollect closures a thread is inside of           *)
  level,     (* what depth[reaper[o]] was when o died                       *)
  collecting,(* the cells whose onCollect closure runs now                  *)
  target,    (* the object a token points to, None when the token is unused *)
  holder,    (* the thread or object that owns a token                      *)
  threaded,  (* idris2rc2_threaded                                          *)
  running,   (* threads that have been started                              *)
  pc,        (* where a thread is between two count steps                   *)
  arg,       (* the token the step in progress is about                     *)
  seen,      (* the count the step in progress has read                     *)
  plain      (* TRUE when the step in progress took the unthreaded branch   *)

heapVars   == <<life, reaper, target, holder>>
callVars   == <<depth, level, collecting>>
opVars     == <<pc, arg, seen, plain>>
threadVars == <<threaded, running>>
vars       == <<rc, heapVars, callVars, opVars, threadVars>>
-----------------------------------------------------------------------------
Refs(o)     == {r \in Ref : target[r] = o}
Fields(o)   == {r \in Ref : target[r] # None /\ holder[r] = o}
Held(t)     == {r \in Ref : target[r] # None /\ holder[r] = t}
Reserved(t) == {r \in Ref : target[r] = None /\ holder[r] = t}
Spare       == {r \in Ref : target[r] = None /\ holder[r] = None}

(* What thread t may read: its own variables, and the fields of the objects *)
(* they point to (a match on a constructor, the arguments of a closure).    *)
Readable(t) == Held(t) \cup UNION {Fields(target[h]) : h \in Held(t)}

(* A thread inside a teardown only tears down, until it is done or calls an *)
(* onCollect closure: that is a program again, and the cells that were      *)
(* dying before wait for it to return.                                      *)
Tearing(t, o) == reaper[o] = t /\ level[o] = depth[t]
Reaping(t) == \E o \in Obj : Tearing(t, o)
Idle(t)    == t \in running /\ pc[t] = "idle" /\ ~Reaping(t)

Forking    == {t \in Thread : pc[t] = "fork"}

(* Start a count update on token r: read the count, choose the branch.      *)
Begin(t, step, r, mt) ==
  /\ pc'    = [pc    EXCEPT ![t] = step]
  /\ arg'   = [arg   EXCEPT ![t] = r]
  /\ seen'  = [seen  EXCEPT ![t] = rc[target[r]]]
  /\ plain' = [plain EXCEPT ![t] = ~mt]

Finish(t) ==
  /\ pc'    = [pc    EXCEPT ![t] = "idle"]
  /\ arg'   = [arg   EXCEPT ![t] = None]
  /\ seen'  = [seen  EXCEPT ![t] = 0]
  /\ plain' = [plain EXCEPT ![t] = FALSE]

(* The tokens t has reserved become pointers to the object of arg[t].       *)
Deliver(t) ==
  target' = [r \in Ref |-> IF r \in Reserved(t) THEN target[arg[t]]
                                                ELSE target[r]]
-----------------------------------------------------------------------------
Init ==
  /\ rc       = [o \in Obj |-> IF o \in Static THEN MaxCount ELSE 0]
  /\ life     = [o \in Obj |-> IF o \in Static THEN "live" ELSE "free"]
  /\ reaper   = [o \in Obj |-> None]
  /\ depth    = [t \in Thread |-> 0]
  /\ level    = [o \in Obj |-> 0]
  /\ collecting = {}
  /\ target   = [r \in Ref |-> None]
  /\ holder   = [r \in Ref |-> None]
  /\ threaded = FALSE
  /\ running  = {Main}
  /\ pc       = [t \in Thread |-> "idle"]
  /\ arg      = [t \in Thread |-> None]
  /\ seen     = [t \in Thread |-> 0]
  /\ plain    = [t \in Thread |-> FALSE]

(* idris2rc2_alloc by newConstructor or mkClosure: the tokens S move into   *)
(* the new object's fields and r is the one pointer to it.                  *)
Alloc(t, o, r, S) ==
  /\ Idle(t)
  /\ life[o] = "free"
  /\ r \in Spare
  /\ S \subseteq Held(t)
  /\ rc'     = [rc     EXCEPT ![o] = 1]
  /\ life'   = [life   EXCEPT ![o] = "live"]
  /\ target' = [target EXCEPT ![r] = o]
  /\ holder' = [q \in Ref |-> IF q = r THEN t ELSE IF q \in S THEN o
                                                   ELSE holder[q]]
  /\ UNCHANGED <<reaper, callVars, opVars, threadVars>>

(* A static is named by the generated code: its pointer needs no dup.       *)
LoadStatic(t, o, r) ==
  /\ Idle(t)
  /\ o \in Static
  /\ r \in Spare
  /\ target' = [target EXCEPT ![r] = o]
  /\ holder' = [holder EXCEPT ![r] = t]
  /\ UNCHANGED <<rc, life, reaper, callVars, opVars, threadVars>>

(* idris2rc2_dup: read the count.                                           *)
DupLoad(t, r, q) ==
  /\ Idle(t)
  /\ r \in Readable(t)
  /\ q \in Spare
  /\ Begin(t, "dup", r, threaded)
  /\ holder' = [holder EXCEPT ![q] = t]
  /\ UNCHANGED <<rc, life, reaper, target, callVars, threadVars>>

(* Mutant: the REFCOUNT_MAX test forgotten.                                 *)
IncrementAlways(t) ==
  LET o == target[arg[t]] IN
  rc' = [rc EXCEPT ![o] = IF plain[t] THEN seen[t] + 1
                          ELSE (rc[o] + 1) % (MaxCount + 1)]

(* idris2rc2_dup: add one, unless the count read was REFCOUNT_MAX.          *)
Increment(t) ==
  LET o == target[arg[t]] IN
  IF seen[t] = MaxCount THEN UNCHANGED rc
  ELSE rc' = [rc EXCEPT ![o] = IF plain[t] THEN seen[t] + 1
                               ELSE (rc[o] + 1) % (MaxCount + 1)]

DupAdd(t) ==
  /\ pc[t] = "dup"
  /\ Increment(t)
  /\ Deliver(t)
  /\ Finish(t)
  /\ UNCHANGED <<life, reaper, holder, callVars, threadVars>>

(* idris2rc2_dup_n: read the count, for the n tokens of S.                  *)
DupNLoad(t, r, S) ==
  /\ Idle(t)
  /\ r \in Readable(t)
  /\ S \subseteq Spare /\ S # {}
  /\ Begin(t, "dup_n", r, threaded)
  /\ holder' = [q \in Ref |-> IF q \in S THEN t ELSE holder[q]]
  /\ UNCHANGED <<rc, life, reaper, target, callVars, threadVars>>

Clamped(c, n) == IF c > MaxCount - n THEN MaxCount ELSE c + n

(* idris2rc2_dup_n: the plain store, or the exchange that succeeds.         *)
DupNStore(t) ==
  LET o == target[arg[t]] IN
  /\ pc[t] = "dup_n"
  /\ seen[t] # MaxCount /\ ~plain[t] => rc[o] = seen[t]
  /\ IF seen[t] = MaxCount THEN UNCHANGED rc
     ELSE rc' = [rc EXCEPT ![o] = Clamped(seen[t], Cardinality(Reserved(t)))]
  /\ Deliver(t)
  /\ Finish(t)
  /\ UNCHANGED <<life, reaper, holder, callVars, threadVars>>

(* idris2rc2_dup_n: the exchange that fails reloads the count.              *)
DupNRetry(t) ==
  LET o == target[arg[t]] IN
  /\ pc[t] = "dup_n"
  /\ ~plain[t]
  /\ seen[t] # MaxCount
  /\ rc[o] # seen[t]
  /\ seen' = [seen EXCEPT ![t] = rc[o]]
  /\ UNCHANGED <<rc, heapVars, callVars, pc, arg, plain, threadVars>>

(* idris2rc2_rc_release, from a drop of a variable or from the teardown of  *)
(* the object the token is a field of.                                      *)
ReleaseLoad(t, r) ==
  /\ pc[t] = "idle"
  /\ \/ Idle(t) /\ r \in Held(t)
     \/ \E o \in Obj \ Collected : Tearing(t, o) /\ r \in Fields(o)
  /\ Begin(t, "release", r, threaded)
  /\ UNCHANGED <<rc, heapVars, callVars, threadVars>>

(* Mutant: a second child that dies in one teardown is left off the list.   *)
DecrementForget(t, old, frozen) ==
  LET o == target[arg[t]] IN
  /\ pc[t] = "release"
  /\ target' = [target EXCEPT ![arg[t]] = None]
  /\ holder' = [holder EXCEPT ![arg[t]] = None]
  /\ IF frozen THEN UNCHANGED <<rc, life, reaper, level>>
     ELSE /\ rc' = [rc EXCEPT ![o] = (old - 1) % (MaxCount + 1)]
          /\ IF old = 1
             THEN /\ life'   = [life   EXCEPT ![o] = "dying"]
                  /\ reaper' = [reaper EXCEPT ![o] = IF Reaping(t) THEN @ ELSE t]
                  /\ level'  = [level  EXCEPT ![o] = depth[t]]
             ELSE UNCHANGED <<life, reaper, level>>
  /\ Finish(t)
  /\ UNCHANGED <<depth, collecting, threadVars>>

(* The count is taken from old to old - 1; whoever takes it from 1 tears    *)
(* the object down.  `frozen` is the REFCOUNT_MAX test.                     *)
Decrement(t, old, frozen) ==
  LET o == target[arg[t]] IN
  /\ pc[t] = "release"
  /\ target' = [target EXCEPT ![arg[t]] = None]
  /\ holder' = [holder EXCEPT ![arg[t]] = None]
  /\ IF frozen THEN UNCHANGED <<rc, life, reaper, level>>
     ELSE /\ rc' = [rc EXCEPT ![o] = (old - 1) % (MaxCount + 1)]
          /\ IF old = 1
             THEN /\ life'   = [life   EXCEPT ![o] = "dying"]
                  /\ reaper' = [reaper EXCEPT ![o] = t]
                  /\ level'  = [level  EXCEPT ![o] = depth[t]]
             ELSE UNCHANGED <<life, reaper, level>>
  /\ Finish(t)
  /\ UNCHANGED <<depth, collecting, threadVars>>

(* Mutant: a store of the value read, also when other threads run.          *)
ReleaseStore(t) == Decrement(t, seen[t], seen[t] = MaxCount)

(* Mutant: counts next to REFCOUNT_MAX are taken for frozen too.            *)
ReleaseNearlyFrozen(t) ==
  Decrement(t, IF plain[t] THEN seen[t] ELSE rc[target[arg[t]]],
            seen[t] >= MaxCount - 1)

ReleaseSub(t) ==
  Decrement(t, IF plain[t] THEN seen[t] ELSE rc[target[arg[t]]],
            seen[t] = MaxCount)

(* idris2rc2_teardown: every field released, free the cell.                 *)
TeardownFree(t, o) ==
  /\ Tearing(t, o)
  /\ o \notin Collected
  /\ pc[t] = "idle"
  /\ Fields(o) = {}
  /\ life'   = [life   EXCEPT ![o] = "free"]
  /\ reaper' = [reaper EXCEPT ![o] = None]
  /\ UNCHANGED <<rc, target, holder, callVars, opVars, threadVars>>

(* idris2rc2_teardown of a GCPointer: onCollect is applied to the pointer.  *)
(* Both were fields of the cell and are now the closure's to dispose of.    *)
Collect(t, o) ==
  /\ Tearing(t, o)
  /\ o \in Collected
  /\ pc[t] = "idle"
  /\ holder' = [q \in Ref |-> IF q \in Fields(o) THEN t ELSE holder[q]]
  /\ depth'  = [depth EXCEPT ![t] = @ + 1]
  /\ collecting' = collecting \cup {o}
  /\ UNCHANGED <<rc, life, reaper, target, level, opVars, threadVars>>

(* The closure returns, if it ever does, and the cell is freed.             *)
CollectReturn(t, o) ==
  /\ reaper[o] = t
  /\ o \in collecting
  /\ level[o] + 1 = depth[t]
  /\ pc[t] = "idle"
  /\ ~Reaping(t)
  /\ life'   = [life   EXCEPT ![o] = "free"]
  /\ reaper' = [reaper EXCEPT ![o] = None]
  /\ depth'  = [depth  EXCEPT ![t] = level[o]]
  /\ collecting' = collecting \ {o}
  /\ UNCHANGED <<rc, target, holder, level, opVars, threadVars>>

(* Mutant: one other pointer is overlooked.                                 *)
TestNearlyUnique(t, r) ==
  /\ Idle(t)
  /\ r \in Held(t)
  /\ target[r] \notin Collected
  /\ rc[target[r]] <= 2
  /\ Begin(t, "owner", r, threaded)
  /\ UNCHANGED <<rc, heapVars, callVars, threadVars>>

(* idris2rc2_isUnique answers true, asked of a closure or a constructor: t  *)
(* may now change the object in place.                                      *)
TestUnique(t, r) ==
  /\ Idle(t)
  /\ r \in Held(t)
  /\ target[r] \notin Collected
  /\ rc[target[r]] = 1
  /\ Begin(t, "owner", r, threaded)
  /\ UNCHANGED <<rc, heapVars, callVars, threadVars>>

(* tailcallApplyClosure on a unique closure: one more argument, in place.   *)
GrowInPlace(t, q) ==
  /\ pc[t] = "owner"
  /\ q \in Held(t) \ {arg[t]}
  /\ holder' = [holder EXCEPT ![q] = target[arg[t]]]
  /\ Finish(t)
  /\ UNCHANGED <<rc, life, reaper, target, callVars, threadVars>>

(* A reuse offer: the fields of a unique constructor move out to variables. *)
OfferShell(t) ==
  /\ pc[t] = "owner"
  /\ holder' = [q \in Ref |-> IF q \in Fields(target[arg[t]]) THEN t
                                                              ELSE holder[q]]
  /\ pc' = [pc EXCEPT ![t] = "shell"]
  /\ UNCHANGED <<rc, life, reaper, target, arg, seen, plain, callVars, threadVars>>

(* The shell is claimed: the tokens S become the fields of the new value.   *)
ClaimShell(t, S) ==
  /\ pc[t] = "shell"
  /\ S \subseteq Held(t) \ {arg[t]}
  /\ holder' = [q \in Ref |-> IF q \in S THEN target[arg[t]] ELSE holder[q]]
  /\ Finish(t)
  /\ UNCHANGED <<rc, life, reaper, target, callVars, threadVars>>

(* idris2rc2_releaseReuse: nobody claimed the shell, free it with no count  *)
(* step and no teardown.                                                    *)
ReleaseReuse(t) ==
  /\ pc[t] = "shell"
  /\ life'   = [life   EXCEPT ![target[arg[t]]] = "free"]
  /\ target' = [target EXCEPT ![arg[t]] = None]
  /\ holder' = [holder EXCEPT ![arg[t]] = None]
  /\ Finish(t)
  /\ UNCHANGED <<rc, reaper, callVars, threadVars>>

(* Mutant: the thread is started without the flag being raised.             *)
ForkUnflagged(t, r, q) ==
  /\ Idle(t)
  /\ r \in Held(t)
  /\ q \in Spare
  /\ Cardinality(Forking) < Cardinality(Thread \ running)
  /\ Begin(t, "fork", r, threaded)
  /\ holder' = [holder EXCEPT ![q] = t]
  /\ UNCHANGED <<rc, life, reaper, target, callVars, threadVars>>

(* idris2rc2_fork: raise the flag, then start the dup of the closure that   *)
(* the new thread will run.                                                 *)
ForkRetain(t, r, q) ==
  /\ Idle(t)
  /\ r \in Held(t)
  /\ q \in Spare
  /\ Cardinality(Forking) < Cardinality(Thread \ running)
  /\ threaded' = TRUE
  /\ Begin(t, "fork", r, TRUE)
  /\ holder' = [holder EXCEPT ![q] = t]
  /\ UNCHANGED <<rc, life, reaper, target, callVars, running>>

(* Mutant: the new thread gets the pointer without the dup.                 *)
SpawnUncounted(t, u) ==
  /\ pc[t] = "fork"
  /\ u \in Thread \ running
  /\ Deliver(t)
  /\ holder'  = [q \in Ref |-> IF q \in Reserved(t) THEN u ELSE holder[q]]
  /\ running' = running \cup {u}
  /\ Finish(t)
  /\ UNCHANGED <<rc, life, reaper, callVars, threaded>>

(* idris2rc2_fork: finish the dup; pthread_create hands the new pointer to  *)
(* thread u.                                                                *)
Spawn(t, u) ==
  /\ pc[t] = "fork"
  /\ u \in Thread \ running
  /\ Increment(t)
  /\ Deliver(t)
  /\ holder'  = [q \in Ref |-> IF q \in Reserved(t) THEN u ELSE holder[q]]
  /\ running' = running \cup {u}
  /\ Finish(t)
  /\ UNCHANGED <<life, reaper, callVars, threaded>>
-----------------------------------------------------------------------------
(* What a thread does inside a runtime call: it never waits.                *)
Continue(t) ==
  \/ DupAdd(t)
  \/ DupNStore(t)
  \/ DupNRetry(t)
  \/ ReleaseSub(t)
  \/ \E o \in Obj : TeardownFree(t, o)
  \/ \E o \in Obj : Collect(t, o)
  \/ \E r \in Ref : (Reaping(t) /\ ReleaseLoad(t, r))

Program(t) ==
  \/ \E o \in Obj, r \in Spare, S \in SUBSET Held(t) : Alloc(t, o, r, S)
  \/ \E o \in Static, r \in Spare : LoadStatic(t, o, r)
  \/ \E r \in Readable(t), q \in Spare : DupLoad(t, r, q)
  \/ \E r \in Readable(t), S \in SUBSET Spare : DupNLoad(t, r, S)
  \/ \E r \in Held(t) : ReleaseLoad(t, r)
  \/ \E r \in Held(t) : TestUnique(t, r)
  \/ \E q \in Held(t) : GrowInPlace(t, q)
  \/ OfferShell(t)
  \/ \E S \in SUBSET Held(t) : ClaimShell(t, S)
  \/ ReleaseReuse(t)
  \/ \E r \in Held(t), q \in Spare : ForkRetain(t, r, q)
  \/ \E u \in Thread : Spawn(t, u)
  \/ \E o \in Obj : CollectReturn(t, o)

Next == \E t \in Thread : Continue(t) \/ Program(t)

Spec     == Init /\ [][Next]_vars
FairSpec == Spec /\ \A t \in Thread : WF_vars(Continue(t))
-----------------------------------------------------------------------------
Steps == {"idle", "dup", "dup_n", "release", "owner", "shell", "fork"}

HeapTyped ==
  /\ rc       \in [Obj -> 0..MaxCount]
  /\ life     \in [Obj -> {"free", "live", "dying"}]
  /\ reaper   \in [Obj -> Thread \cup {None}]
  /\ target   \in [Ref -> Obj \cup {None}]
  /\ holder   \in [Ref -> Thread \cup Obj \cup {None}]
  /\ threaded \in BOOLEAN
  /\ running  \in SUBSET Thread
  /\ pc       \in [Thread -> Steps]
  /\ arg      \in [Thread -> Ref \cup {None}]
  /\ seen     \in [Thread -> 0..MaxCount]
  /\ plain    \in [Thread -> BOOLEAN]

CallsTyped ==
  /\ depth      \in [Thread -> Nat]
  /\ level      \in [Obj -> Nat]
  /\ collecting \in SUBSET Collected

(* Type invariant: every variable of the model in its range; the count is   *)
(* a 16-bit header field.                                                   *)
TypeOK == HeapTyped /\ CallsTyped

(* Fewer pointers than REFCOUNT_MAX can exist, so no count ever saturates.  *)
(* The runtime is safe under this for any number of threads; a program that *)
(* never starts a thread is safe without it.                                *)
FewRefs == Cardinality(Ref) < MaxCount
Sound   == threaded => FewRefs

(* No use after free: a pointer, wherever it is kept, points to an object   *)
(* whose cell is allocated and is not being torn down, although the cell is *)
(* freed by whichever thread's decrement happens to read 1                  *)
(* (idris2rc2_rc_release, idris2rc2_teardown, idris2rc2_releaseReuse).      *)
NoDangling == Sound => \A r \in Ref : target[r] # None => life[target[r]] = "live"

(* The count of a live object is the number of pointers to it, unless it    *)
(* has been frozen at REFCOUNT_MAX: no update by dup, dup_n or drop of two  *)
(* threads is lost, and the switch from plain to atomic updates loses none. *)
(* In particular a live object that is not frozen has a pointer: nothing    *)
(* leaks (idris2rc2_dup, idris2rc2_dup_n, idris2rc2_rc_release).            *)
CountExact ==
  Sound => \A o \in Obj :
    life[o] = "live" => \/ rc[o] = MaxCount
                        \/ rc[o] = Cardinality(Refs(o)) /\ rc[o] > 0

(* Between a true idris2rc2_isUnique and the in-place change it allows, no  *)
(* other pointer to the object exists or can be made: the answer cannot go  *)
(* stale (tailcallApplyClosure, the reuse offers, releaseReuse).            *)
ExclusiveOwner ==
  Sound => \A t \in Thread :
    pc[t] \in {"owner", "shell"} => Refs(target[arg[t]]) = {arg[t]}

(* A plain, non-atomic count update is never in progress while a second     *)
(* thread exists: the flag is raised before the first pthread_create        *)
(* (idris2rc2_fork, idris2rc2_enableMultiThreading).                        *)
PlainUpdatesAlone == \A t \in Thread : plain[t] => running = {t}

(* A count that has reached REFCOUNT_MAX is never written again, "treated   *)
(* as immortal (never freed)" (idris2rc2_datatypes.h).                      *)
ImmortalFrozen == [][\A o \in Obj : rc[o] = MaxCount => rc'[o] = MaxCount]_vars

(* The teardown of o waits for an onCollect closure that its thread runs,   *)
(* its own or that of a cell which died after it.                           *)
Suspended(o) == reaper[o] # None /\ level[o] < depth[reaper[o]]

(* Every teardown finishes: whatever dies is freed, none is left off the    *)
(* list, however the releases of the fields interleave with other threads   *)
(* and with the closures that run in between (idris2rc2_teardown).  Only an *)
(* onCollect closure that does not return can hold up what died before it   *)
(* was called; each time one returns, the promise is due again.             *)
TeardownFinishes ==
  \A o \in Obj : life[o] = "dying" ~> (life[o] = "free" \/ Suspended(o))

(* The counted heap behaves as the heap of Ownership: an object dies        *)
(* exactly when its last pointer is discarded, never before it and never    *)
(* without it, but for the statics.                                         *)
Abstract == INSTANCE Ownership
ImplementsOwnership == Abstract!Spec
=============================================================================
