--------------------------- MODULE RuntimeProofs ---------------------------
(***************************************************************************)
(* Proofs about the runtime's counts, words, numbers, buffers and strings. *)
(*                                                                         *)
(* RefCount, for every set of threads, objects and pointers and every      *)
(* REFCOUNT_MAX: ThreadOK is inductive by itself and gives                 *)
(* PlainUpdatesAlone; with SafeInv it gives the type invariant and the     *)
(* safety of the counts.  Words, for every width: the operators, the       *)
(* immediates and the casts.  Numbers, for every width, any cells and any  *)
(* finite set of variables: programs compute exact numbers with exact      *)
(* counts.  Buffers, for every width of a byte and of int: what is written *)
(* is read back.  Text, for every sequence of bytes: a String is its       *)
(* characters.                                                             *)
(***************************************************************************)
EXTENDS RefCount, InputClaims, Numbers, FiniteSetTheorems, SequenceTheorems, WellFoundedInduction,
        TLAPS

(* The thread's view: an unthreaded program runs Main only, and a plain     *)
(* count step is in progress only in an unthreaded program.                 *)
ThreadOK ==
  /\ running \in SUBSET Thread
  /\ threaded \in BOOLEAN
  /\ reaper \in [Obj -> running \cup {None}]
  /\ pc    \in [Thread -> Steps]
  /\ plain \in [Thread -> BOOLEAN]
  /\ ~threaded => running = {Main}
  /\ \A t \in Thread : /\ pc[t] # "idle" => t \in running
                       /\ plain[t] => pc[t] # "idle" /\ ~threaded
                       /\ pc[t] # "idle" => plain[t] \/ threaded
                       /\ pc[t] = "fork" => threaded

LEMMA InitThreadOK == Init => ThreadOK
  BY ThreadAssumption DEF Init, ThreadOK, Steps

(* What starting and finishing a count step does to the thread's view.      *)
LEMMA BeginThreadOK ==
  ASSUME ThreadOK, NEW t \in running, pc[t] = "idle",
         NEW step \in Steps, step \notin {"idle", "fork"}, NEW r,
         Begin(t, step, r, threaded), UNCHANGED <<threaded, running, reaper>>
  PROVE  ThreadOK'
  BY DEF ThreadOK, Begin

LEMMA FinishThreadOK ==
  ASSUME ThreadOK, NEW t \in Thread, Finish(t),
         threaded' = threaded, running' = running,
         reaper' \in [Obj -> running \cup {None}]
  PROVE  ThreadOK'
  BY DEF ThreadOK, Finish, Steps

LEMMA ContinueThreadOK ==
  ASSUME ThreadOK, NEW t \in Thread, Continue(t)
  PROVE  ThreadOK'
  <1>1. CASE DupAdd(t) BY <1>1, FinishThreadOK DEF DupAdd, threadVars, ThreadOK
  <1>2. CASE DupNStore(t) BY <1>2, FinishThreadOK DEF DupNStore, threadVars, ThreadOK
  <1>3. CASE DupNRetry(t) BY <1>3 DEF DupNRetry, threadVars, heapVars, ThreadOK
  <1>4. CASE ReleaseSub(t) BY <1>4, FinishThreadOK DEF ReleaseSub, Decrement, ThreadOK, threadVars
  <1>5. ASSUME NEW o \in Obj, TeardownFree(t, o) PROVE ThreadOK'
    BY <1>5 DEF TeardownFree, opVars, threadVars, ThreadOK
  <1>6. ASSUME NEW r \in Ref, Reaping(t), ReleaseLoad(t, r) PROVE ThreadOK'
    BY <1>6, NoneAssumption, BeginThreadOK DEF Reaping, Tearing, ReleaseLoad, ThreadOK, heapVars,
       threadVars, Steps
  <1>7. ASSUME NEW o \in Obj, Collect(t, o) PROVE ThreadOK'
    BY <1>7 DEF Collect, opVars, threadVars, ThreadOK
  <1> QED BY <1>1, <1>2, <1>3, <1>4, <1>5, <1>6, <1>7 DEF Continue

LEMMA ProgramThreadOK ==
  ASSUME ThreadOK, NEW t \in Thread, Program(t)
  PROVE  ThreadOK'
  <1>1. ASSUME NEW o, NEW r, NEW S, Alloc(t, o, r, S) PROVE ThreadOK'
    BY <1>1 DEF Alloc, opVars, threadVars, ThreadOK
  <1>2. ASSUME NEW o, NEW r, LoadStatic(t, o, r) PROVE ThreadOK'
    BY <1>2 DEF LoadStatic, opVars, threadVars, ThreadOK
  <1>3. ASSUME NEW r, NEW q, DupLoad(t, r, q) PROVE ThreadOK'
    BY <1>3, BeginThreadOK DEF DupLoad, threadVars, Idle, Steps
  <1>4. ASSUME NEW r, NEW S, DupNLoad(t, r, S) PROVE ThreadOK'
    BY <1>4, BeginThreadOK DEF DupNLoad, threadVars, Idle, Steps
  <1>5. ASSUME NEW r \in Held(t), ReleaseLoad(t, r) PROVE ThreadOK'
    BY <1>5, NoneAssumption, BeginThreadOK DEF ReleaseLoad, Tearing, Idle, ThreadOK, heapVars, threadVars,
       Steps
  <1>6. ASSUME NEW r, TestUnique(t, r) PROVE ThreadOK'
    BY <1>6, BeginThreadOK DEF TestUnique, heapVars, threadVars, Idle, Steps
  <1>7. ASSUME NEW q, GrowInPlace(t, q) PROVE ThreadOK'
    BY <1>7, FinishThreadOK DEF GrowInPlace, threadVars, ThreadOK
  <1>8. CASE OfferShell(t) BY <1>8 DEF OfferShell, threadVars, ThreadOK, Steps
  <1>9. ASSUME NEW S, ClaimShell(t, S) PROVE ThreadOK'
    BY <1>9, FinishThreadOK DEF ClaimShell, threadVars, ThreadOK
  <1>10. CASE ReleaseReuse(t) BY <1>10, FinishThreadOK DEF ReleaseReuse, threadVars, ThreadOK
  <1>11. ASSUME NEW r, NEW q, ForkRetain(t, r, q) PROVE ThreadOK'
    BY <1>11 DEF ForkRetain, Begin, Idle, ThreadOK, Steps
  <1>12. ASSUME NEW u \in Thread, Spawn(t, u) PROVE ThreadOK'
    BY <1>12 DEF Spawn, Finish, ThreadOK, Steps
  <1>13. ASSUME NEW o \in Obj, CollectReturn(t, o) PROVE ThreadOK'
    BY <1>13 DEF CollectReturn, opVars, threadVars, ThreadOK
  <1> QED
    BY <1>1, <1>2, <1>3, <1>4, <1>5, <1>6, <1>7, <1>8, <1>9, <1>10, <1>11,
       <1>12, <1>13 DEF Program

LEMMA NextThreadOK == ThreadOK /\ [Next]_vars => ThreadOK'
  <1> SUFFICES ASSUME ThreadOK, [Next]_vars PROVE ThreadOK' OBVIOUS
  <1>1. CASE UNCHANGED vars BY <1>1 DEF vars, heapVars, opVars, threadVars, ThreadOK
  <1>2. CASE Next BY <1>2, ContinueThreadOK, ProgramThreadOK DEF Next
  <1> QED BY <1>1, <1>2

THEOREM ThreadsCorrect == Spec => []ThreadOK
  BY InitThreadOK, NextThreadOK, PTL DEF Spec

(* For every program: a plain, non-atomic update of a count is in progress  *)
(* only while the thread that does it is the only one                       *)
(* (idris2rc2_fork raises the flag before pthread_create).                  *)
THEOREM PlainAlone == Spec => []PlainUpdatesAlone
  <1>1. ThreadOK => PlainUpdatesAlone BY DEF ThreadOK, PlainUpdatesAlone
  <1> QED BY <1>1, ThreadsCorrect, PTL
-----------------------------------------------------------------------------
(***************************************************************************)
(* The safety of the counts of RefCount, for every set of threads, objects *)
(* and pointers.  TypeOK and the safety invariants are not inductive: that *)
(* a pointer does not dangle needs the counts to be exact, that a count    *)
(* stays exact needs to know what each step in progress has read and whose *)
(* token it is about.  SafeInv says so.                                    *)
(***************************************************************************)

OnlyPointer(r) == \A q \in Ref : target[q] = target[r] => q = r

(* Where each step in progress stands: what its token is, who may change    *)
(* it, and the pointers it has reserved.                                    *)
StepOK(t) ==
  /\ pc[t] # "idle" => arg[t] \in Ref /\ target[arg[t]] \in Obj
  /\ Reserved(t) # {} => pc[t] \in {"dup", "dup_n", "fork"}
  /\ pc[t] \in {"dup", "fork"} => \E q \in Ref : Reserved(t) = {q}
  /\ pc[t] \in {"dup", "dup_n", "fork"} => arg[t] \in Readable(t)
  /\ pc[t] = "release" =>
       holder[arg[t]] = t \/ (holder[arg[t]] \in Obj /\ reaper[holder[arg[t]]] = t)
  /\ pc[t] \in {"owner", "shell"} =>
       holder[arg[t]] = t /\ rc[target[arg[t]]] = 1 /\ OnlyPointer(arg[t])
  /\ pc[t] = "shell" => \A q \in Ref : holder[q] # target[arg[t]]

(* What a step has read: a plain one the count itself, an atomic one        *)
(* REFCOUNT_MAX exactly if the object is a static.                          *)
SeenOK(t) ==
  pc[t] # "idle" => IF plain[t] THEN seen[t] = rc[target[arg[t]]]
                    ELSE (seen[t] = MaxCount) <=> (target[arg[t]] \in Static)

HeapOK ==
  /\ \A r \in Ref : target[r] # None => holder[r] # None /\ life[target[r]] = "live"
  /\ \A r \in Ref : holder[r] \in Obj => target[r] # None /\ life[holder[r]] # "free"
  /\ \A o \in Obj : life[o] = "dying" <=> reaper[o] # None
  /\ \A o \in Static : life[o] = "live" /\ rc[o] = MaxCount

CountOK ==
  /\ \A o \in Obj : life[o] = "live" =>
       rc[o] = MaxCount \/ (rc[o] = Cardinality(Refs(o)) /\ rc[o] > 0)
  /\ FewRefs => \A o \in Obj : life[o] = "live" /\ rc[o] = MaxCount => o \in Static

SafeInv == /\ HeapTyped /\ HeapOK /\ CountOK
           /\ \A t \in Thread : StepOK(t) /\ SeenOK(t)

(* The onCollect closures that run: the cell is dying and has given its     *)
(* fields away.                                                             *)
CallOK ==
  /\ CallsTyped
  /\ \A o \in collecting : life[o] = "dying" /\ \A r \in Ref : holder[r] # o

-----------------------------------------------------------------------------
LEMMA RefsFinite ==
  ASSUME NEW o
  PROVE  IsFiniteSet(Refs(o)) /\ Cardinality(Refs(o)) \in Nat
                              /\ Cardinality(Refs(o)) <= Cardinality(Ref)
  <1>1. Refs(o) \subseteq Ref BY DEF Refs
  <1> QED BY <1>1, RefAssumption, FS_Subset, FS_CardinalityType

LEMMA ReservedFinite ==
  ASSUME NEW t
  PROVE  IsFiniteSet(Reserved(t)) /\ Cardinality(Reserved(t)) \in Nat
  <1>1. Reserved(t) \subseteq Ref BY DEF Reserved
  <1> QED BY <1>1, RefAssumption, FS_Subset, FS_CardinalityType

(* n new pointers leave a count in its range (idris2rc2_dup_n).             *)
LEMMA ClampedInRange ==
  ASSUME NEW c \in 0..MaxCount, NEW n \in Nat
  PROVE  Clamped(c, n) \in 0..MaxCount
  BY CountAssumption DEF Clamped

(* The token a thread releases, or owns alone, is no other thread's.        *)
LEMMA LoneRelease ==
  ASSUME SafeInv, NEW t \in Thread, NEW u \in Thread, t # u,
         pc[t] # "idle", pc[u] \in {"release", "owner", "shell"}
  PROVE  arg[t] # arg[u]
  <1>1. StepOK(t) /\ StepOK(u) BY DEF SafeInv
  <1>2. pc[t] \in {"dup", "dup_n", "release", "owner", "shell", "fork"}
    BY DEF SafeInv, HeapTyped, Steps
  <1>3. holder[arg[u]] = u \/ (holder[arg[u]] \in Obj /\ reaper[holder[arg[u]]] = u)
    BY <1>1 DEF StepOK
  <1>4. ASSUME pc[t] \in {"dup", "dup_n", "fork"}, arg[t] = arg[u]
        PROVE  FALSE
    <2>1. arg[t] \in Ref /\ arg[t] \in Readable(t) BY <1>1, <1>4 DEF StepOK
    <2>2. holder[arg[t]] = t \/ \E h \in Ref : target[h] # None /\ holder[arg[t]] = target[h]
      BY <2>1 DEF Readable, Held, Fields
    <2>3. PICK h \in Ref : target[h] # None /\ holder[arg[t]] = target[h]
      BY <1>3, <1>4, <2>2, KindAssumption
    <2>4. target[h] \in Obj /\ life[target[h]] = "live" /\ reaper[target[h]] = None
      BY <2>3 DEF SafeInv, HeapTyped, HeapOK
    <2> QED BY <1>3, <1>4, <2>3, <2>4, KindAssumption, NoneAssumption
  <1>5. ASSUME pc[t] \in {"release", "owner", "shell"}, arg[t] = arg[u]
        PROVE  FALSE
    BY <1>1, <1>3, <1>5, KindAssumption DEF StepOK
  <1> QED BY <1>2, <1>4, <1>5

(* The object a thread owns alone is in no other step.                      *)
LEMMA LoneOwner ==
  ASSUME SafeInv, NEW t \in Thread, NEW u \in Thread, t # u,
         pc[t] \in {"owner", "shell"}, pc[u] # "idle"
  PROVE  target[arg[u]] # target[arg[t]]
  <1>1. arg[u] # arg[t] BY LoneRelease
  <1> QED BY <1>1 DEF SafeInv, StepOK, OnlyPointer

(* The count a step is about to change.                                     *)
LEMMA CountAtStep ==
  ASSUME ThreadOK, SafeInv, Sound, NEW t \in Thread, pc[t] # "idle"
  PROVE  LET o == target[arg[t]] IN
         /\ arg[t] \in Ref /\ o \in Obj /\ life[o] = "live"
         /\ seen[t] = MaxCount <=> rc[o] = MaxCount
         /\ plain[t] => seen[t] = rc[o]
         /\ rc[o] # MaxCount => /\ rc[o] = Cardinality(Refs(o)) /\ rc[o] > 0
                                /\ o \notin Static
  <1> DEFINE o == target[arg[t]]
  <1>1. arg[t] \in Ref /\ o \in Obj /\ life[o] = "live"
    BY NoneAssumption DEF SafeInv, StepOK, HeapOK
  <1>2. plain[t] => seen[t] = rc[o] BY DEF SafeInv, SeenOK
  <1>3. ~plain[t] => (seen[t] = MaxCount <=> rc[o] = MaxCount)
    BY <1>1 DEF ThreadOK, Sound, SafeInv, SeenOK, CountOK, HeapOK
  <1> QED BY <1>1, <1>2, <1>3 DEF SafeInv, CountOK, HeapOK
-----------------------------------------------------------------------------
(* Steps that start: the heap stays, spare tokens may be reserved.          *)
Reserving(t) ==
  /\ UNCHANGED <<rc, life, reaper, target, running>>
  /\ holder' \in [Ref -> Thread \cup Obj \cup {None}]
  /\ \A q \in Ref : holder'[q] = holder[q] \/ (q \in Spare /\ holder'[q] = t)

LEMMA BeginSafe ==
  ASSUME ThreadOK, SafeInv, Sound, NEW t \in Thread, pc[t] = "idle",
         NEW r \in Ref, target[r] \in Obj, NEW step \in Steps, NEW mt \in BOOLEAN,
         Begin(t, step, r, mt), Reserving(t), threaded' \in BOOLEAN,
         ~mt => ~threaded', mt => FewRefs, StepOK(t)'
  PROVE  SafeInv'
  <1> USE DEF Reserving
  <1>1. HeapTyped' BY DEF Begin, SafeInv, HeapTyped
  <1>2. HeapOK' BY KindAssumption DEF SafeInv, HeapTyped, HeapOK, Spare
  <1>3. CountOK' BY DEF SafeInv, HeapTyped, CountOK, Refs, FewRefs
  <1>4. SeenOK(t)'
    <2>1. life[target[r]] = "live" BY NoneAssumption DEF SafeInv, HeapOK
    <2>2. mt => (rc[target[r]] = MaxCount <=> target[r] \in Static)
      BY <2>1 DEF SafeInv, CountOK, HeapOK
    <2> QED BY <2>2 DEF SeenOK, Begin, SafeInv, HeapTyped
  <1>5. ASSUME NEW u \in Thread, u # t
        PROVE  StepOK(u)' /\ SeenOK(u)'
    <2>1. StepOK(u) /\ SeenOK(u) BY DEF SafeInv
    <2>2. /\ pc'[u] = pc[u] /\ arg'[u] = arg[u] /\ seen'[u] = seen[u]
          /\ plain'[u] = plain[u]
      BY <1>5 DEF Begin, SafeInv, HeapTyped
    <2>3. SeenOK(u)' BY <2>1, <2>2 DEF SeenOK
    <2>4. Reserved(u)' = Reserved(u) BY <1>5, NoneAssumption DEF Reserved, Spare
    <2>5. Readable(u) \subseteq Readable(u)' BY DEF Readable, Held, Fields, Spare
    <2>6. \A q \in Ref : target[q] # None => holder'[q] = holder[q] BY DEF Spare
    <2>7. pc[u] = "shell" => \A q \in Ref : holder'[q] # target[arg[u]]
      BY <2>1, KindAssumption DEF StepOK
    <2>8. OnlyPointer(arg[u])' <=> OnlyPointer(arg[u]) BY <2>2 DEF OnlyPointer
    <2> QED BY <2>1, <2>2, <2>3, <2>4, <2>5, <2>6, <2>7, <2>8, NoneAssumption DEF StepOK
  <1> QED BY <1>1, <1>2, <1>3, <1>4, <1>5 DEF SafeInv

(* A step that reserves the spare tokens S and reads through r.             *)
LEMMA ReserveSafe ==
  ASSUME ThreadOK, SafeInv, Sound, NEW t \in Thread, Idle(t),
         NEW r \in Readable(t), NEW S \in SUBSET Spare, S # {},
         NEW step \in {"dup", "dup_n", "fork"}, NEW mt \in BOOLEAN,
         Begin(t, step, r, mt),
         holder' = [q \in Ref |-> IF q \in S THEN t ELSE holder[q]],
         UNCHANGED <<rc, life, reaper, target, running>>,
         step # "dup_n" => \E q \in Ref : S = {q},
         threaded' \in BOOLEAN, ~mt => ~threaded', mt => FewRefs
  PROVE  SafeInv'
  <1>1. r \in Ref /\ target[r] \in Obj /\ pc[t] = "idle"
    BY DEF SafeInv, HeapTyped, Idle, Readable, Held, Fields
  <1>2. Reserving(t) BY DEF Reserving, SafeInv, HeapTyped
  <1>3. Reserved(t)' = S BY <1>1, NoneAssumption DEF SafeInv, StepOK, Reserved, Spare
  <1>4. Readable(t) \subseteq Readable(t)' BY DEF Readable, Held, Fields, Spare
  <1>5. StepOK(t)' BY <1>1, <1>3, <1>4 DEF Begin, SafeInv, HeapTyped, StepOK
  <1>6. step \in Steps BY DEF Steps
  <1> QED BY <1>1, <1>2, <1>5, <1>6, BeginSafe

LEMMA DupLoadSafe ==
  ASSUME ThreadOK, SafeInv, Sound, NEW t \in Thread,
         NEW r \in Readable(t), NEW q \in Spare, DupLoad(t, r, q)
  PROVE  SafeInv'
  <1>1. holder' = [p \in Ref |-> IF p \in {q} THEN t ELSE holder[p]]
    BY DEF DupLoad, SafeInv, HeapTyped, Spare
  <1>2. {q} \in SUBSET Spare /\ {q} # {} /\ \E p \in Ref : {q} = {p} BY DEF Spare
  <1>3. threaded => FewRefs BY DEF Sound
  <1> QED
    <2>1. /\ Idle(t) /\ Begin(t, "dup", r, threaded) /\ threaded \in BOOLEAN
          /\ UNCHANGED <<rc, life, reaper, target, running, threaded>>
      BY DEF DupLoad, threadVars, ThreadOK
    <2> QED BY <1>1, <1>2, <1>3, <2>1, ReserveSafe

LEMMA DupNLoadSafe ==
  ASSUME ThreadOK, SafeInv, Sound, NEW t \in Thread,
         NEW r \in Readable(t), NEW S \in SUBSET Spare, DupNLoad(t, r, S)
  PROVE  SafeInv'
  <1>1. threaded => FewRefs BY DEF Sound
  <1> QED BY <1>1, ReserveSafe DEF DupNLoad, threadVars, ThreadOK

LEMMA ForkRetainSafe ==
  ASSUME ThreadOK, SafeInv, Sound, Sound', NEW t \in Thread,
         NEW r \in Held(t), NEW q \in Spare, ForkRetain(t, r, q)
  PROVE  SafeInv'
  <1>1. holder' = [p \in Ref |-> IF p \in {q} THEN t ELSE holder[p]]
    BY DEF ForkRetain, SafeInv, HeapTyped, Spare
  <1>2. {q} \in SUBSET Spare /\ \E p \in Ref : {q} = {p} BY DEF Spare
  <1>3. FewRefs BY DEF ForkRetain, Sound, FewRefs
  <1>4. r \in Readable(t) BY DEF Readable
  <1> QED BY <1>1, <1>2, <1>3, <1>4, ReserveSafe DEF ForkRetain

(* A step that is about a token of the thread itself.                       *)
LEMMA ReleaseLoadSafe ==
  ASSUME ThreadOK, SafeInv, Sound, NEW t \in Thread, NEW r \in Ref, ReleaseLoad(t, r)
  PROVE  SafeInv'
  <1>1. pc[t] = "idle" /\ Begin(t, "release", r, threaded) /\ UNCHANGED <<rc, heapVars, threadVars>>
    BY DEF ReleaseLoad
  <1>2. /\ target[r] \in Obj
        /\ holder[r] = t \/ (holder[r] \in Obj /\ reaper[holder[r]] = t)
    BY DEF ReleaseLoad, Tearing, Held, Fields, SafeInv, HeapTyped
  <1>3. Reserving(t) BY <1>1 DEF Reserving, SafeInv, HeapTyped, heapVars, threadVars
  <1>4. StepOK(t)' BY <1>1, <1>2 DEF Begin, SafeInv, HeapTyped, StepOK, Reserved, heapVars
  <1> QED BY <1>1, <1>2, <1>3, <1>4, BeginSafe DEF Steps, Sound, threadVars, ThreadOK

LEMMA TestUniqueSafe ==
  ASSUME ThreadOK, SafeInv, Sound, NEW t \in Thread, NEW r \in Held(t), TestUnique(t, r)
  PROVE  SafeInv'
  <1>1. /\ pc[t] = "idle" /\ rc[target[r]] = 1
        /\ Begin(t, "owner", r, threaded) /\ UNCHANGED <<rc, heapVars, threadVars>>
    BY DEF TestUnique, Idle
  <1>2. r \in Ref /\ target[r] \in Obj /\ holder[r] = t BY DEF Held, SafeInv, HeapTyped
  <1>3. OnlyPointer(r)
    <2>1. life[target[r]] = "live" /\ Cardinality(Refs(target[r])) = 1
      BY <1>1, <1>2, CountAssumption, NoneAssumption DEF SafeInv, HeapOK, CountOK
    <2>2. PICK q : Refs(target[r]) = {q} BY <2>1, RefsFinite, FS_Singleton
    <2> QED BY <1>2, <2>2 DEF OnlyPointer, Refs
  <1>4. Reserving(t) BY <1>1 DEF Reserving, SafeInv, HeapTyped, heapVars, threadVars
  <1>5. StepOK(t)'
    BY <1>1, <1>2, <1>3 DEF Begin, SafeInv, HeapTyped, StepOK, Reserved, heapVars, OnlyPointer
  <1> QED BY <1>1, <1>2, <1>4, <1>5, BeginSafe DEF Steps, Sound, threadVars, ThreadOK
-----------------------------------------------------------------------------
(* The pointers a dup has reserved are delivered to u, and the count grows  *)
(* by their number.                                                         *)
LEMMA DeliverSafe ==
  ASSUME ThreadOK, SafeInv, Sound, NEW t \in Thread, NEW u \in Thread,
         NEW o, o = target[arg[t]],
         u = t \/ pc[u] = "idle",
         pc[t] \in {"dup", "dup_n", "fork"},
         rc' = [rc EXCEPT ![o] = Clamped(rc[o], Cardinality(Reserved(t)))],
         Deliver(t), Finish(t),
         holder' = [q \in Ref |-> IF q \in Reserved(t) THEN u ELSE holder[q]],
         UNCHANGED <<life, reaper, threaded>>, running' \in SUBSET Thread
  PROVE  SafeInv'
  <1> DEFINE n == Cardinality(Reserved(t))
  <1>1. /\ arg[t] \in Ref /\ o \in Obj /\ life[o] = "live" /\ o # None
        /\ rc[o] # MaxCount => rc[o] = Cardinality(Refs(o)) /\ rc[o] > 0
    BY CountAtStep, NoneAssumption
  <1>2. n \in Nat /\ IsFiniteSet(Reserved(t)) BY ReservedFinite
  <1>3. /\ \A q \in Ref : q \in Reserved(t) => target[q] = None /\ target'[q] = o
        /\ \A q \in Ref : q \notin Reserved(t) => target'[q] = target[q]
    BY DEF Deliver, Reserved
  <1>4. /\ Refs(o)' = Refs(o) \cup Reserved(t)
        /\ \A p \in Obj : p # o => Refs(p)' = Refs(p)
    BY <1>1, <1>3, NoneAssumption DEF Refs, Reserved
  <1>5. Cardinality(Refs(o)') = Cardinality(Refs(o)) + n
    <2>1. Refs(o) \cap Reserved(t) = {} BY <1>1 DEF Refs, Reserved
    <2> QED BY <1>2, <1>4, <2>1, RefsFinite, FS_Union, FS_EmptySet
  <1>6. rc[o] \in 0..MaxCount /\ Clamped(rc[o], n) \in 0..MaxCount
    BY <1>1, <1>2, ClampedInRange DEF SafeInv, HeapTyped
  <1>7. /\ rc' \in [Obj -> 0..MaxCount]
        /\ rc'[o] = Clamped(rc[o], n)
        /\ \A p \in Obj : p # o => rc'[p] = rc[p]
    BY <1>1, <1>6 DEF SafeInv, HeapTyped
  <1>8. HeapTyped'
    BY <1>1, <1>3, <1>7, CountAssumption DEF Deliver, SafeInv, HeapTyped, Finish, Steps
  <1>9. HeapOK'
    <2>1. \A q \in Ref : q \in Reserved(t) => holder'[q] = u /\ holder[q] = t BY DEF Reserved
    <2>2. \A p \in Static : rc'[p] = MaxCount
      BY <1>2, <1>6, <1>7, CountAssumption, ObjAssumption DEF SafeInv, HeapOK, Clamped
    <2> QED
      BY <1>1, <1>3, <2>1, <2>2, KindAssumption, NoneAssumption
      DEF SafeInv, HeapTyped, HeapOK
  <1>10. CountOK'
    <2>1. ASSUME NEW p \in Obj, life[p] = "live"
          PROVE  /\ rc'[p] = MaxCount \/ (rc'[p] = Cardinality(Refs(p)') /\ rc'[p] > 0)
                 /\ FewRefs => (rc'[p] = MaxCount => p \in Static)
      <3>1. CASE p # o BY <1>4, <1>7, <2>1, <3>1 DEF SafeInv, CountOK
      <3>2. CASE p = o /\ rc[o] = MaxCount
        BY <1>2, <1>7, <2>1, <3>2, CountAssumption DEF Clamped, SafeInv, CountOK
      <3>3. CASE p = o /\ rc[o] # MaxCount
        <4>1. rc[o] + n = Cardinality(Refs(o)') /\ rc[o] > 0 BY <1>1, <1>5, <3>3
        <4>2. Cardinality(Refs(o)') <= Cardinality(Ref) /\ Cardinality(Ref) \in Nat
          BY RefAssumption, FS_Subset, FS_CardinalityType DEF Refs
        <4>3. FewRefs => rc[o] + n < MaxCount BY <1>2, <1>6, <4>1, <4>2, CountAssumption DEF FewRefs
        <4>4. \/ rc'[o] = MaxCount /\ rc[o] + n > MaxCount
              \/ rc'[o] = rc[o] + n
          BY <1>2, <1>6, <1>7, CountAssumption DEF Clamped
        <4> QED BY <1>2, <1>6, <3>3, <4>1, <4>3, <4>4, CountAssumption
      <3> QED BY <3>1, <3>2, <3>3
    <2> QED BY <2>1 DEF CountOK, FewRefs
  <1>11. StepOK(t)' /\ SeenOK(t)'
    BY <1>1, <1>3 DEF Finish, SafeInv, HeapTyped, Reserved, StepOK, SeenOK
  <1>12. ASSUME NEW v \in Thread, v # t
         PROVE  StepOK(v)' /\ SeenOK(v)'
    <2>1. /\ pc'[v] = pc[v] /\ arg'[v] = arg[v] /\ seen'[v] = seen[v]
          /\ plain'[v] = plain[v]
      BY <1>12 DEF Finish, SafeInv, HeapTyped
    <2>2. StepOK(v) /\ SeenOK(v) BY DEF SafeInv
    <2>3. Reserved(v)' = Reserved(v) BY <1>12, <2>2, <1>1, <1>3 DEF StepOK, Reserved
    <2>4. pc[v] # "idle" => arg[v] \in Ref /\ target'[arg[v]] = target[arg[v]] /\ holder'[arg[v]] = holder[arg[v]]
      BY <1>3, <2>2, NoneAssumption DEF StepOK, Reserved
    <2>5. Readable(v) \subseteq Readable(v)'
      <3>1. \A q \in Ref : target[q] # None => target'[q] = target[q] /\ holder'[q] = holder[q]
        BY <1>3 DEF Reserved
      <3>2. Held(v) \subseteq Held(v)' /\ \A h \in Held(v) : target'[h] = target[h] BY <3>1 DEF Held
      <3>3. \A p : Fields(p) \subseteq {q \in Ref : target'[q] # None /\ holder'[q] = p}
        BY <3>1 DEF Fields
      <3> QED BY <3>2, <3>3 DEF Readable, Fields
    <2>6. pc[v] \in {"owner", "shell"} => target[arg[v]] # o BY <1>12, LoneOwner
    <2>7. pc[v] \in {"owner", "shell"} => rc'[target[arg[v]]] = 1 /\ OnlyPointer(arg[v])'
      BY <1>3, <1>7, <2>1, <2>2, <2>4, <2>6 DEF StepOK, OnlyPointer
    <2>8. pc[v] = "shell" => \A q \in Ref : holder'[q] # target[arg[v]]
      BY <2>2, KindAssumption DEF StepOK, Reserved
    <2>9. ~plain[v] BY <1>12 DEF ThreadOK
    <2>10. SeenOK(v)' BY <2>1, <2>2, <2>4, <2>9 DEF SeenOK
    <2> QED BY <2>1, <2>2, <2>3, <2>4, <2>5, <2>7, <2>8, <2>10 DEF StepOK
  <1> QED BY <1>8, <1>9, <1>10, <1>11, <1>12 DEF SafeInv

LEMMA IncrementCounts ==
  ASSUME ThreadOK, SafeInv, Sound, NEW t \in Thread, pc[t] \in {"dup", "fork"},
         Increment(t), NEW o, o = target[arg[t]]
  PROVE  rc' = [rc EXCEPT ![o] = Clamped(rc[o], Cardinality(Reserved(t)))]
  <1>1. Cardinality(Reserved(t)) = 1
    <2>1. PICK q \in Ref : Reserved(t) = {q} BY DEF SafeInv, StepOK
    <2> QED BY <2>1, FS_Singleton
  <1>2. /\ o \in Obj /\ rc[o] \in 0..MaxCount /\ (seen[t] = MaxCount <=> rc[o] = MaxCount)
        /\ plain[t] => seen[t] = rc[o]
    BY CountAtStep DEF SafeInv, HeapTyped
  <1>3. CASE seen[t] = MaxCount
    BY <1>2, <1>3, CountAssumption, <1>1 DEF Increment, Clamped, SafeInv, HeapTyped
  <1>4. CASE seen[t] # MaxCount BY <1>4, <1>2, CountAssumption, <1>1 DEF Increment, Clamped
  <1> QED BY <1>3, <1>4

LEMMA DupAddSafe ==
  ASSUME ThreadOK, SafeInv, Sound, NEW t \in Thread, DupAdd(t)
  PROVE  SafeInv'
  <1>1. holder' = [q \in Ref |-> IF q \in Reserved(t) THEN t ELSE holder[q]]
    BY DEF DupAdd, SafeInv, HeapTyped, Reserved
  <1>2. PICK o : o = target[arg[t]] OBVIOUS
  <1>3. rc' = [rc EXCEPT ![o] = Clamped(rc[o], Cardinality(Reserved(t)))]
    BY <1>2, IncrementCounts DEF DupAdd
  <1>4. /\ pc[t] \in {"dup", "dup_n", "fork"} /\ Deliver(t) /\ Finish(t)
        /\ UNCHANGED <<life, reaper, threaded>> /\ running' \in SUBSET Thread
    BY DEF DupAdd, threadVars, SafeInv, HeapTyped
  <1> QED BY <1>1, <1>2, <1>3, <1>4, DeliverSafe

LEMMA DupNStoreSafe ==
  ASSUME ThreadOK, SafeInv, Sound, NEW t \in Thread, DupNStore(t)
  PROVE  SafeInv'
  <1>1. holder' = [q \in Ref |-> IF q \in Reserved(t) THEN t ELSE holder[q]]
    BY DEF DupNStore, SafeInv, HeapTyped, Reserved
  <1>2. PICK o : o = target[arg[t]] OBVIOUS
  <1>3. /\ pc[t] = "dup_n" /\ Deliver(t) /\ Finish(t)
        /\ UNCHANGED <<life, reaper, threaded>> /\ running' \in SUBSET Thread
    BY DEF DupNStore, threadVars, SafeInv, HeapTyped
  <1>4. /\ o \in Obj /\ rc[o] \in 0..MaxCount /\ (seen[t] = MaxCount <=> rc[o] = MaxCount)
        /\ plain[t] => seen[t] = rc[o]
    BY <1>2, <1>3, CountAtStep DEF SafeInv, HeapTyped
  <1>5. rc' = [rc EXCEPT ![o] = Clamped(rc[o], Cardinality(Reserved(t)))]
    <2>1. CASE seen[t] = MaxCount
      BY <1>4, <2>1, ReservedFinite, CountAssumption DEF DupNStore, Clamped, SafeInv, HeapTyped
    <2>2. CASE seen[t] # MaxCount BY <1>2, <1>4, <2>2 DEF DupNStore
    <2> QED BY <2>1, <2>2
  <1> QED BY <1>1, <1>2, <1>3, <1>5, DeliverSafe

LEMMA SpawnSafe ==
  ASSUME ThreadOK, SafeInv, Sound, NEW t \in Thread, NEW u \in Thread, Spawn(t, u)
  PROVE  SafeInv'
  <1>1. /\ pc[t] = "fork" /\ Deliver(t) /\ Finish(t)
        /\ holder' = [q \in Ref |-> IF q \in Reserved(t) THEN u ELSE holder[q]]
        /\ UNCHANGED <<life, reaper, threaded>> /\ running' \in SUBSET Thread
    BY DEF Spawn, SafeInv, HeapTyped
  <1>2. pc[u] = "idle" BY DEF Spawn, ThreadOK
  <1>3. PICK o : o = target[arg[t]] OBVIOUS
  <1>4. rc' = [rc EXCEPT ![o] = Clamped(rc[o], Cardinality(Reserved(t)))]
    BY <1>1, <1>3, IncrementCounts DEF Spawn
  <1> QED BY <1>1, <1>2, <1>3, <1>4, DeliverSafe

LEMMA DupNRetrySafe ==
  ASSUME ThreadOK, SafeInv, Sound, NEW t \in Thread, DupNRetry(t)
  PROVE  SafeInv'
  <1>1. /\ pc[t] = "dup_n" /\ ~plain[t]
        /\ seen' = [seen EXCEPT ![t] = rc[target[arg[t]]]]
        /\ UNCHANGED <<rc, life, reaper, target, holder, pc, arg, plain, threaded, running>>
    BY DEF DupNRetry, heapVars, threadVars
  <1>2. /\ arg[t] \in Ref /\ target[arg[t]] \in Obj /\ life[target[arg[t]]] = "live"
        /\ rc[target[arg[t]]] \in 0..MaxCount
    BY <1>1, CountAtStep DEF SafeInv, HeapTyped
  <1>3. FewRefs BY <1>1 DEF ThreadOK, Sound
  <1>4. HeapTyped' BY <1>1, <1>2 DEF SafeInv, HeapTyped
  <1>5. HeapOK' /\ CountOK' BY <1>1 DEF SafeInv, HeapOK, CountOK, FewRefs, Refs
  <1>6. ASSUME NEW v \in Thread PROVE StepOK(v)'
    BY <1>1 DEF SafeInv, StepOK, Reserved, Readable, Held, Fields, OnlyPointer
  <1>7. ASSUME NEW v \in Thread PROVE SeenOK(v)'
    <2>1. CASE v = t BY <1>1, <1>2, <1>3, <2>1 DEF SafeInv, HeapTyped, SeenOK, CountOK, HeapOK
    <2>2. CASE v # t BY <1>1, <2>2 DEF SafeInv, HeapTyped, SeenOK
    <2> QED BY <2>1, <2>2
  <1> QED BY <1>4, <1>5, <1>6, <1>7 DEF SafeInv
-----------------------------------------------------------------------------
(* A pointer that is discarded: what the other threads are about stays.     *)
LEMMA DiscardOthers ==
  ASSUME ThreadOK, SafeInv, NEW t \in Thread, NEW q, q = arg[t],
         pc[t] \in {"release", "owner", "shell"},
         target' = [target EXCEPT ![q] = None],
         holder' = [holder EXCEPT ![q] = None],
         Finish(t), NEW v \in Thread, v # t,
         pc[v] \in {"owner", "shell"} => rc'[target[arg[v]]] = rc[target[arg[v]]],
         pc[v] = "release" =>
           \A o \in Obj : reaper[o] = v => reaper'[o] = v
  PROVE  StepOK(v)' /\ SeenOK(v)'
  <1>1. /\ pc'[v] = pc[v] /\ arg'[v] = arg[v] /\ seen'[v] = seen[v]
        /\ plain'[v] = plain[v]
    BY DEF Finish, SafeInv, HeapTyped
  <1>2. StepOK(v) /\ SeenOK(v) /\ StepOK(t) BY DEF SafeInv
  <1>3. \A r \in Ref : r # q => target'[r] = target[r] /\ holder'[r] = holder[r]
    BY DEF SafeInv, HeapTyped
  <1>4. q \in Ref => target'[q] = None /\ holder'[q] = None BY DEF SafeInv, HeapTyped
  <1>5. pc[v] # "idle" => arg[v] # q BY LoneRelease
  <1>6. q \in Ref /\ holder[q] # v BY <1>2, KindAssumption DEF StepOK
  <1>7. Reserved(v)' = Reserved(v) BY <1>3, <1>4, <1>6, NoneAssumption DEF Reserved
  <1>8. pc[v] # "idle" /\ arg[v] \in Readable(v) => arg[v] \in Readable(v)'
    <2>1. Held(v)' = Held(v) /\ \A h \in Held(v) : target'[h] = target[h]
      BY <1>3, <1>4, <1>6, NoneAssumption DEF Held
    <2>2. \A p : \A r \in Fields(p) : r # q => target'[r] # None /\ holder'[r] = p
      BY <1>3 DEF Fields
    <2> QED BY <1>1, <1>5, <2>1, <2>2 DEF Readable, Fields
  <1>9. pc[v] \in {"owner", "shell"} => OnlyPointer(arg[v])'
    BY <1>1, <1>2, <1>3, <1>4, <1>5, NoneAssumption DEF StepOK, OnlyPointer
  <1>10. pc[v] = "shell" => \A r \in Ref : holder'[r] # target'[arg'[v]]
    BY <1>1, <1>2, <1>3, <1>4, <1>5, NoneAssumption DEF StepOK
  <1>11. StepOK(v)' BY <1>1, <1>2, <1>3, <1>5, <1>7, <1>8, <1>9, <1>10 DEF StepOK
  <1>12. SeenOK(v)' BY <1>2, <1>1, <1>3, <1>5 DEF ThreadOK, SeenOK, StepOK
  <1> QED BY <1>11, <1>12

LEMMA ReleaseSubSafe ==
  ASSUME ThreadOK, SafeInv, Sound, NEW t \in Thread, ReleaseSub(t)
  PROVE  SafeInv'
  <1>1. PICK q : q = arg[t] OBVIOUS
  <1>2. PICK o : o = target[q] OBVIOUS
  <1>3. /\ pc[t] = "release" /\ Finish(t) /\ UNCHANGED <<threaded, running>>
        /\ target' = [target EXCEPT ![q] = None]
        /\ holder' = [holder EXCEPT ![q] = None]
    BY <1>1 DEF ReleaseSub, Decrement, threadVars
  <1>4. /\ q \in Ref /\ o \in Obj /\ o # None /\ life[o] = "live"
        /\ seen[t] = MaxCount <=> rc[o] = MaxCount
        /\ plain[t] => seen[t] = rc[o]
        /\ rc[o] # MaxCount => /\ rc[o] = Cardinality(Refs(o)) /\ rc[o] > 0
                               /\ o \notin Static
        /\ rc[o] \in 0..MaxCount
    BY <1>1, <1>2, <1>3, CountAtStep, NoneAssumption DEF SafeInv, HeapTyped
  <1>5. /\ \A r \in Ref : r # q => target'[r] = target[r] /\ holder'[r] = holder[r]
        /\ target'[q] = None /\ holder'[q] = None
    BY <1>3, <1>4 DEF SafeInv, HeapTyped
  <1>6. /\ Refs(o)' = Refs(o) \ {q}
        /\ \A p \in Obj : p # o => Refs(p)' = Refs(p)
    BY <1>2, <1>4, <1>5, NoneAssumption DEF Refs
  <1>7. rc[o] # MaxCount => Cardinality(Refs(o)') = rc[o] - 1
    <2>1. q \in Refs(o) BY <1>2, <1>4 DEF Refs
    <2> QED BY <1>4, <1>6, <2>1, RefsFinite, FS_RemoveElement
  <1>8. IF rc[o] = MaxCount THEN UNCHANGED <<rc, life, reaper>>
        ELSE /\ rc' = [rc EXCEPT ![o] = rc[o] - 1]
             /\ IF rc[o] = 1
                THEN /\ life'   = [life   EXCEPT ![o] = "dying"]
                     /\ reaper' = [reaper EXCEPT ![o] = t]
                ELSE UNCHANGED <<life, reaper>>
    BY <1>4, CountAssumption, <1>1, <1>2 DEF ReleaseSub, Decrement
  <1>9. HeapTyped' BY <1>4, <1>8, CountAssumption, <1>3 DEF SafeInv, HeapTyped, Finish, Steps
  <1>10. rc[o] = 1 => \A r \in Ref : r # q => target[r] # o
    <2>1. rc[o] = 1 => Refs(o)' = {}
      <3>1. IsFiniteSet(Refs(o)') BY <1>6, RefsFinite, FS_RemoveElement
      <3> QED BY <1>4, <1>7, <3>1, CountAssumption, FS_EmptySet
    <2> QED BY <1>6, <2>1 DEF Refs
  <1>11. HeapOK'
    <2>1. ASSUME NEW r \in Ref, target'[r] # None
          PROVE  holder'[r] # None /\ life'[target'[r]] = "live"
      BY <1>5, <2>1, <1>10, <1>8 DEF SafeInv, HeapTyped, HeapOK
    <2>2. \A r \in Ref : holder'[r] \in Obj => target'[r] # None /\ life'[holder'[r]] # "free"
      BY <1>4, <1>5, <1>8, NoneAssumption DEF SafeInv, HeapTyped, HeapOK
    <2>3. \A p \in Obj : life'[p] = "dying" <=> reaper'[p] # None
      BY <1>4, <1>8, NoneAssumption DEF SafeInv, HeapTyped, HeapOK
    <2>4. \A p \in Static : life'[p] = "live" /\ rc'[p] = MaxCount
      BY <1>4, <1>8, ObjAssumption DEF SafeInv, HeapTyped, HeapOK
    <2> QED BY <2>1, <2>2, <2>3, <2>4 DEF HeapOK
  <1>12. CountOK'
    <2>1. ASSUME NEW p \in Obj, life'[p] = "live"
          PROVE  /\ rc'[p] = MaxCount \/ (rc'[p] = Cardinality(Refs(p)') /\ rc'[p] > 0)
                 /\ FewRefs => (rc'[p] = MaxCount => p \in Static)
      <3>1. CASE p # o BY <1>4, <1>6, <1>8, <2>1, <3>1 DEF SafeInv, HeapTyped, CountOK
      <3>2. CASE p = o
        BY <1>4, <1>7, <1>8, <2>1, <3>2, CountAssumption DEF SafeInv, HeapTyped, CountOK
      <3> QED BY <3>1, <3>2
    <2> QED BY <2>1 DEF CountOK, FewRefs
  <1>13. StepOK(t)' /\ SeenOK(t)'
    <2>1. pc'[t] = "idle" BY <1>3 DEF Finish, SafeInv, HeapTyped
    <2>2. Reserved(t)' = {} BY <1>3, <1>5, NoneAssumption DEF SafeInv, StepOK, Reserved
    <2> QED BY <2>1, <2>2 DEF StepOK, SeenOK
  <1>14. ASSUME NEW v \in Thread, v # t
         PROVE  StepOK(v)' /\ SeenOK(v)'
    <2>1. pc[v] \in {"owner", "shell"} => rc'[target[arg[v]]] = rc[target[arg[v]]]
      BY <1>1, <1>2, <1>3, <1>14, LoneOwner, <1>8 DEF SafeInv, StepOK, HeapTyped
    <2>2. \A p \in Obj : reaper[p] = v => reaper'[p] = v
      BY <1>4, <1>8, NoneAssumption DEF SafeInv, HeapOK, HeapTyped
    <2> QED BY <1>1, <1>3, <1>14, <2>1, <2>2, DiscardOthers
  <1> QED BY <1>9, <1>11, <1>12, <1>13, <1>14 DEF SafeInv

(* idris2rc2_releaseReuse: the shell had one pointer and has no field.      *)
LEMMA ReleaseReuseSafe ==
  ASSUME ThreadOK, SafeInv, Sound, NEW t \in Thread, ReleaseReuse(t)
  PROVE  SafeInv'
  <1>1. PICK q : q = arg[t] OBVIOUS
  <1>2. PICK o : o = target[q] OBVIOUS
  <1>3. /\ pc[t] = "shell" /\ Finish(t) /\ UNCHANGED <<rc, reaper, threaded, running>>
        /\ life'   = [life   EXCEPT ![o] = "free"]
        /\ target' = [target EXCEPT ![q] = None]
        /\ holder' = [holder EXCEPT ![q] = None]
    BY <1>1, <1>2 DEF ReleaseReuse, threadVars
  <1>4. /\ q \in Ref /\ o \in Obj /\ o # None /\ life[o] = "live" /\ rc[o] = 1
        /\ \A r \in Ref : r # q => target[r] # o
        /\ \A r \in Ref : holder[r] # o
    BY <1>1, <1>2, <1>3, CountAtStep, NoneAssumption DEF SafeInv, StepOK, OnlyPointer
  <1>5. /\ \A r \in Ref : r # q => target'[r] = target[r] /\ holder'[r] = holder[r]
        /\ target'[q] = None /\ holder'[q] = None
    BY <1>3, <1>4 DEF SafeInv, HeapTyped
  <1>6. HeapTyped'
    <2>1. /\ target' \in [Ref -> Obj \cup {None}]
          /\ holder' \in [Ref -> Thread \cup Obj \cup {None}]
          /\ life' \in [Obj -> {"free", "live", "dying"}]
      BY <1>3 DEF SafeInv, HeapTyped
    <2>2. /\ pc' \in [Thread -> Steps] /\ arg' \in [Thread -> Ref \cup {None}]
          /\ seen' \in [Thread -> 0..MaxCount] /\ plain' \in [Thread -> BOOLEAN]
      BY <1>3, CountAssumption DEF Finish, SafeInv, HeapTyped, Steps
    <2> QED BY <1>3, <2>1, <2>2 DEF SafeInv, HeapTyped
  <1>7. HeapOK'
    <2>1. ASSUME NEW r \in Ref, target'[r] # None
          PROVE  holder'[r] # None /\ life'[target'[r]] = "live"
      BY <1>3, <1>4, <1>5, <2>1 DEF SafeInv, HeapTyped, HeapOK
    <2>2. \A r \in Ref : holder'[r] \in Obj => target'[r] # None /\ life'[holder'[r]] # "free"
      BY <1>3, <1>4, <1>5, NoneAssumption DEF SafeInv, HeapTyped, HeapOK
    <2>3. \A p \in Obj : life'[p] = "dying" <=> reaper'[p] # None
      BY <1>3, <1>4 DEF SafeInv, HeapTyped, HeapOK
    <2>4. \A p \in Static : life'[p] = "live" /\ rc'[p] = MaxCount
      BY <1>3, <1>4, ObjAssumption, CountAssumption DEF SafeInv, HeapTyped, HeapOK
    <2> QED BY <2>1, <2>2, <2>3, <2>4 DEF HeapOK
  <1>8. CountOK'
    <2>1. ASSUME NEW p \in Obj, life'[p] = "live"
          PROVE  p # o /\ life[p] = "live" /\ Refs(p)' = Refs(p)
      BY <1>3, <2>1, <1>2, <1>4, <1>5, NoneAssumption DEF SafeInv, HeapTyped, Refs
    <2> QED BY <1>3, <2>1 DEF SafeInv, CountOK, FewRefs
  <1>9. StepOK(t)' /\ SeenOK(t)'
    <2>1. pc'[t] = "idle" BY <1>3 DEF Finish, SafeInv, HeapTyped
    <2>2. Reserved(t)' = {} BY <1>3, <1>5, NoneAssumption DEF SafeInv, StepOK, Reserved
    <2> QED BY <2>1, <2>2 DEF StepOK, SeenOK
  <1>10. ASSUME NEW v \in Thread, v # t
         PROVE  StepOK(v)' /\ SeenOK(v)'
    BY <1>1, <1>3, <1>10, DiscardOthers
  <1> QED BY <1>6, <1>7, <1>8, <1>9, <1>10 DEF SafeInv

(* A cell that was dying and has no field left is freed.                    *)
LEMMA FreeSafe ==
  ASSUME ThreadOK, SafeInv, Sound, NEW t \in Thread, NEW o \in Obj,
         reaper[o] = t, Fields(o) = {},
         life'   = [life   EXCEPT ![o] = "free"],
         reaper' = [reaper EXCEPT ![o] = None],
         UNCHANGED <<rc, target, holder, pc, arg, seen, plain, threaded, running>>
  PROVE  SafeInv'
  <1>1. /\ reaper[o] = t /\ Fields(o) = {}
        /\ life'   = [life   EXCEPT ![o] = "free"]
        /\ reaper' = [reaper EXCEPT ![o] = None]
        /\ UNCHANGED <<rc, target, holder, pc, arg, seen, plain, threaded, running>>
    OBVIOUS
  <1>2. life[o] = "dying" /\ o \notin Static BY <1>1, NoneAssumption DEF SafeInv, HeapOK
  <1>3. \A r \in Ref : holder[r] # o /\ target[r] # o
    BY <1>1, <1>2, NoneAssumption DEF SafeInv, HeapOK, Fields
  <1>4. HeapTyped' BY <1>1 DEF SafeInv, HeapTyped
  <1>5. HeapOK' BY <1>1, <1>3, <1>2, ObjAssumption DEF SafeInv, HeapTyped, HeapOK
  <1>6. CountOK'
    <2>1. \A p \in Obj : life'[p] = "live" => life[p] = "live" /\ Refs(p)' = Refs(p)
      BY <1>1 DEF SafeInv, HeapTyped, Refs
    <2> QED BY <1>1, <2>1 DEF SafeInv, CountOK, FewRefs
  <1>7. ASSUME NEW v \in Thread PROVE StepOK(v)'
    BY <1>1, <1>3 DEF SafeInv, Reserved, Readable, Held, Fields, StepOK, OnlyPointer, HeapTyped
  <1>8. ASSUME NEW v \in Thread PROVE SeenOK(v)' BY <1>1 DEF SafeInv, SeenOK
  <1> QED BY <1>4, <1>5, <1>6, <1>7, <1>8 DEF SafeInv

LEMMA TeardownFreeSafe ==
  ASSUME ThreadOK, SafeInv, Sound, NEW t \in Thread, NEW o \in Obj, TeardownFree(t, o)
  PROVE  SafeInv'
  BY FreeSafe DEF TeardownFree, Tearing, opVars, threadVars

LEMMA CollectReturnSafe ==
  ASSUME ThreadOK, SafeInv, CallOK, Sound, NEW t \in Thread, NEW o \in Obj,
         CollectReturn(t, o)
  PROVE  SafeInv'
  <1>1. Fields(o) = {} BY DEF CollectReturn, CallOK, Fields
  <1> QED BY <1>1, FreeSafe DEF CollectReturn, opVars, threadVars
-----------------------------------------------------------------------------
(* Pointers that move: between the variables of t and the fields of an      *)
(* object that t alone points to, or from the spare tokens to t.            *)
Moves(t, v) ==
  /\ \A r \in Ref : target[r] # None => target'[r] = target[r]
  /\ \A r \in Ref : target[r] = None =>
       \/ target'[r] = None /\ holder'[r] = holder[r]
       \/ /\ r \in Spare /\ holder'[r] = t /\ target'[r] # None
          /\ pc[v] \in {"owner", "shell"} => target'[r] # target[arg[v]]
  /\ \A r \in Ref : target[r] # None =>
       \/ holder'[r] = holder[r]
       \/ /\ holder[r] = t /\ holder'[r] \in Obj
          /\ pc[v] = "shell" => holder'[r] # target[arg[v]]
       \/ /\ holder[r] \in Obj /\ reaper[holder[r]] # v /\ holder'[r] = t
          /\ \A h \in Held(v) : target[h] # holder[r]
  /\ pc[v] \in {"owner", "shell"} => rc'[target[arg[v]]] = rc[target[arg[v]]]
  /\ pc[v] # "idle" /\ plain[v] => rc' = rc
  /\ UNCHANGED reaper
  /\ pc'[v] = pc[v] /\ arg'[v] = arg[v] /\ seen'[v] = seen[v] /\ plain'[v] = plain[v]

LEMMA MoveOthers ==
  ASSUME ThreadOK, SafeInv, NEW t \in Thread, NEW v \in Thread, v # t, Moves(t, v)
  PROVE  StepOK(v)' /\ SeenOK(v)'
  <1>1. StepOK(v) /\ SeenOK(v) BY DEF SafeInv
  <1>2. /\ pc'[v] = pc[v] /\ arg'[v] = arg[v] /\ seen'[v] = seen[v]
        /\ plain'[v] = plain[v]
    BY DEF Moves
  <1>3. pc[v] # "idle" => /\ arg[v] \in Ref /\ target[arg[v]] # None
                         /\ target'[arg[v]] = target[arg[v]]
    BY <1>1, NoneAssumption DEF Moves, StepOK
  <1>4. Reserved(v)' = Reserved(v) BY NoneAssumption DEF Moves, Spare, Reserved
  <1>5. Held(v)' = Held(v) /\ \A h \in Held(v) : target'[h] = target[h]
    BY KindAssumption, NoneAssumption DEF Moves, Spare, Held
  <1>6. arg[v] \in Readable(v) => arg[v] \in Readable(v)'
    <2>1. ASSUME NEW h \in Held(v), arg[v] \in Fields(target[h])
          PROVE  arg[v] \in Ref /\ target'[arg[v]] # None /\ holder'[arg[v]] = target'[h]
      BY <2>1, <1>5, KindAssumption DEF Fields, Held, SafeInv, HeapTyped, Moves
    <2> QED BY <1>2, <1>5, <2>1 DEF Readable, Fields
  <1>7. pc[v] = "release" => holder'[arg[v]] = holder[arg[v]]
    BY <1>1, <1>3, KindAssumption, NoneAssumption DEF Moves, StepOK, SafeInv, HeapOK
  <1>8. pc[v] \in {"owner", "shell"} =>
          /\ holder'[arg[v]] = v /\ rc'[target[arg[v]]] = 1 /\ OnlyPointer(arg[v])'
    BY <1>1, <1>2, <1>3, KindAssumption DEF Moves, StepOK, OnlyPointer
  <1>9. pc[v] = "shell" => \A r \in Ref : holder'[r] # target[arg[v]]
    BY <1>1, KindAssumption DEF Moves, StepOK
  <1>10. StepOK(v)' BY <1>1, <1>2, <1>3, <1>4, <1>6, <1>7, <1>8, <1>9 DEF StepOK, Moves
  <1>11. SeenOK(v)' BY <1>1, <1>2, <1>3 DEF SeenOK, Moves
  <1> QED BY <1>10, <1>11

(* A move inside the object that t owns alone.                              *)
LEMMA InPlaceSafe ==
  ASSUME ThreadOK, SafeInv, Sound, NEW t \in Thread, pc[t] \in {"owner", "shell"},
         NEW o, o = target[arg[t]],
         holder' \in [Ref -> Thread \cup Obj \cup {None}],
         \A r \in Ref : \/ holder'[r] = holder[r]
                        \/ r \in Held(t) /\ holder'[r] = o
                        \/ r \in Fields(o) /\ holder'[r] = t,
         UNCHANGED <<rc, life, reaper, target, threaded, running>>,
         pc' \in [Thread -> Steps], arg' \in [Thread -> Ref \cup {None}],
         seen' \in [Thread -> 0..MaxCount], plain' \in [Thread -> BOOLEAN],
         \A v \in Thread : v # t =>
           /\ pc'[v] = pc[v] /\ arg'[v] = arg[v] /\ seen'[v] = seen[v]
           /\ plain'[v] = plain[v],
         StepOK(t)', SeenOK(t)'
  PROVE  SafeInv'
  <1>1. o \in Obj /\ life[o] = "live" BY CountAtStep
  <1>2. HeapTyped' BY DEF SafeInv, HeapTyped
  <1>3. HeapOK' BY <1>1, NoneAssumption, KindAssumption DEF SafeInv, HeapOK, Held
  <1>4. CountOK' BY DEF SafeInv, CountOK, FewRefs, Refs
  <1>5. ASSUME NEW v \in Thread, v # t PROVE Moves(t, v)
    <2> reaper[o] # v BY <1>1, NoneAssumption DEF SafeInv, HeapOK
    <2>1. pc[v] = "shell" => target[arg[v]] # o BY <1>5, LoneOwner
    <2>2. \A h \in Held(v) : target[h] # o BY <1>5 DEF SafeInv, StepOK, Held, OnlyPointer
    <2>3. \A r \in Ref : target[r] = None => holder'[r] = holder[r] BY DEF Held, Fields
    <2>4. \A r \in Ref : r \in Held(t) => holder[r] = t BY DEF Held
    <2>5. \A r \in Ref : r \in Fields(o) => holder[r] = o BY DEF Fields
    <2> QED BY <1>1, <1>5, <2>1, <2>2, <2>3, <2>4, <2>5 DEF Moves
  <1>6. ASSUME NEW v \in Thread PROVE StepOK(v)' /\ SeenOK(v)' BY <1>5, MoveOthers
  <1> QED BY <1>2, <1>3, <1>4, <1>6 DEF SafeInv

(* The same, when the step of t ends with it.                               *)
LEMMA InPlaceEndSafe ==
  ASSUME ThreadOK, SafeInv, Sound, NEW t \in Thread, pc[t] \in {"owner", "shell"},
         NEW o, o = target[arg[t]], NEW S \in SUBSET Held(t),
         holder' = [r \in Ref |-> IF r \in S THEN o ELSE holder[r]],
         UNCHANGED <<rc, life, reaper, target, threaded, running>>, Finish(t)
  PROVE  SafeInv'
  <1>1. o \in Obj BY CountAtStep
  <1>2. /\ holder' \in [Ref -> Thread \cup Obj \cup {None}]
        /\ \A r \in Ref : holder'[r] = holder[r] \/ (r \in Held(t) /\ holder'[r] = o)
    BY <1>1 DEF SafeInv, HeapTyped
  <1>3. /\ pc' \in [Thread -> Steps] /\ arg' \in [Thread -> Ref \cup {None}]
        /\ seen' \in [Thread -> 0..MaxCount] /\ plain' \in [Thread -> BOOLEAN]
        /\ pc'[t] = "idle"
        /\ \A v \in Thread : v # t =>
             /\ pc'[v] = pc[v] /\ arg'[v] = arg[v] /\ seen'[v] = seen[v]
             /\ plain'[v] = plain[v]
    BY CountAssumption DEF Finish, SafeInv, HeapTyped, Steps
  <1>4. StepOK(t)' /\ SeenOK(t)'
    BY <1>1, <1>2, KindAssumption, <1>3 DEF SafeInv, StepOK, Reserved, SeenOK
  <1> QED BY <1>2, <1>3, <1>4, InPlaceSafe

LEMMA GrowInPlaceSafe ==
  ASSUME ThreadOK, SafeInv, Sound, NEW t \in Thread, NEW q, GrowInPlace(t, q)
  PROVE  SafeInv'
  <1>1. PICK o : o = target[arg[t]] OBVIOUS
  <1>2. /\ pc[t] = "owner" /\ {q} \in SUBSET Held(t)
        /\ holder' = [r \in Ref |-> IF r \in {q} THEN o ELSE holder[r]]
        /\ UNCHANGED <<rc, life, reaper, target, threaded, running>> /\ Finish(t)
    BY <1>1 DEF GrowInPlace, Held, SafeInv, HeapTyped, threadVars
  <1> QED BY <1>1, <1>2, InPlaceEndSafe

LEMMA ClaimShellSafe ==
  ASSUME ThreadOK, SafeInv, Sound, NEW t \in Thread, NEW S, ClaimShell(t, S)
  PROVE  SafeInv'
  <1>1. PICK o : o = target[arg[t]] OBVIOUS
  <1>2. /\ pc[t] = "shell" /\ S \in SUBSET Held(t)
        /\ holder' = [r \in Ref |-> IF r \in S THEN o ELSE holder[r]]
        /\ UNCHANGED <<rc, life, reaper, target, threaded, running>> /\ Finish(t)
    BY <1>1 DEF ClaimShell, threadVars
  <1> QED BY <1>1, <1>2, InPlaceEndSafe

LEMMA OfferShellSafe ==
  ASSUME ThreadOK, SafeInv, Sound, NEW t \in Thread, OfferShell(t)
  PROVE  SafeInv'
  <1>1. PICK o : o = target[arg[t]] OBVIOUS
  <1>2. /\ pc[t] = "owner"
        /\ holder' = [r \in Ref |-> IF r \in Fields(o) THEN t ELSE holder[r]]
        /\ pc' = [pc EXCEPT ![t] = "shell"]
        /\ UNCHANGED <<rc, life, reaper, target, arg, seen, plain, threaded, running>>
    BY <1>1 DEF OfferShell, threadVars
  <1>3. o \in Obj BY <1>1, <1>2, CountAtStep
  <1>4. /\ holder' \in [Ref -> Thread \cup Obj \cup {None}]
        /\ \A r \in Ref : holder'[r] = holder[r] \/ (r \in Fields(o) /\ holder'[r] = t)
    BY <1>2 DEF SafeInv, HeapTyped
  <1>5. /\ pc' \in [Thread -> Steps] /\ arg' \in [Thread -> Ref \cup {None}]
        /\ seen' \in [Thread -> 0..MaxCount] /\ plain' \in [Thread -> BOOLEAN]
        /\ pc'[t] = "shell" /\ arg'[t] = arg[t]
        /\ \A v \in Thread : v # t => pc'[v] = pc[v]
    BY <1>2 DEF SafeInv, HeapTyped, Steps
  <1>6. StepOK(t)'
    BY <1>2, <1>3, KindAssumption, <1>1, <1>5 DEF SafeInv, StepOK, Reserved, Fields, OnlyPointer, HeapOK
  <1>7. SeenOK(t)' BY <1>2, <1>5 DEF SeenOK, SafeInv
  <1> QED BY <1>1, <1>2, <1>4, <1>5, <1>6, <1>7, InPlaceSafe

(* The fields of a dying cell become the variables of its collector.        *)
LEMMA CollectSafe ==
  ASSUME ThreadOK, SafeInv, Sound, NEW t \in Thread, NEW o \in Obj, Collect(t, o)
  PROVE  SafeInv'
  <1>1. /\ reaper[o] = t /\ pc[t] = "idle"
        /\ holder' = [r \in Ref |-> IF r \in Fields(o) THEN t ELSE holder[r]]
        /\ UNCHANGED <<rc, life, reaper, target, pc, arg, seen, plain, threaded, running>>
    BY DEF Collect, Tearing, opVars, threadVars
  <1>2. \A r \in Ref : r \in Fields(o) => target[r] # None /\ holder[r] = o BY DEF Fields
  <1>3. life[o] = "dying" /\ \A r \in Ref : target[r] # o
    BY <1>1, NoneAssumption DEF SafeInv, HeapOK
  <1>4. HeapTyped' BY <1>1 DEF SafeInv, HeapTyped
  <1>5. HeapOK' BY <1>1, <1>2, KindAssumption, NoneAssumption DEF SafeInv, HeapOK
  <1>6. CountOK' BY <1>1 DEF SafeInv, CountOK, FewRefs, Refs
  <1>7. StepOK(t)' /\ SeenOK(t)' BY <1>1, <1>2 DEF SafeInv, StepOK, Reserved, SeenOK
  <1>8. ASSUME NEW v \in Thread, v # t PROVE Moves(t, v) BY <1>1, <1>2, <1>3, <1>8 DEF Held, Moves
  <1>9. ASSUME NEW v \in Thread, v # t PROVE StepOK(v)' /\ SeenOK(v)' BY <1>8, <1>9, MoveOthers
  <1> QED BY <1>4, <1>5, <1>6, <1>7, <1>9 DEF SafeInv

(* A new pointer r to an object nothing else points to, or to a static.     *)
LEMMA AllocSafe ==
  ASSUME ThreadOK, SafeInv, Sound, NEW t \in Thread, NEW o \in Obj, NEW r \in Spare,
         NEW S \in SUBSET Held(t), Alloc(t, o, r, S)
  PROVE  SafeInv'
  <1>1. /\ Idle(t) /\ pc[t] = "idle" /\ life[o] = "free" /\ r \in Ref
        /\ target[r] = None /\ holder[r] = None
        /\ rc'     = [rc     EXCEPT ![o] = 1]
        /\ life'   = [life   EXCEPT ![o] = "live"]
        /\ target' = [target EXCEPT ![r] = o]
        /\ holder' = [q \in Ref |-> IF q = r THEN t ELSE IF q \in S THEN o ELSE holder[q]]
        /\ UNCHANGED <<reaper, pc, arg, seen, plain, threaded, running>>
    BY DEF Alloc, Idle, Spare, opVars, threadVars
  <1>2. o \notin Static /\ o # None /\ \A q \in Ref : target[q] # o /\ holder[q] # o
    BY <1>1, NoneAssumption DEF SafeInv, HeapOK
  <1>3. \A q \in S : q \in Ref /\ target[q] # None /\ holder[q] = t /\ q # r BY <1>1 DEF Held
  <1>4. HeapTyped' BY <1>1, CountAssumption DEF SafeInv, HeapTyped
  <1>5. \A q \in Ref : /\ q # r => target'[q] = target[q]
                       /\ target'[r] = o
    BY <1>1 DEF SafeInv, HeapTyped
  <1>6. HeapOK'
    <2>1. ASSUME NEW q \in Ref, target'[q] # None
          PROVE  holder'[q] # None /\ life'[target'[q]] = "live"
      BY <1>1, <1>2, <1>5, <2>1, NoneAssumption DEF SafeInv, HeapTyped, HeapOK
    <2>2. ASSUME NEW q \in Ref, holder'[q] \in Obj
          PROVE  target'[q] # None /\ life'[holder'[q]] # "free"
      BY <1>1, <1>2, <1>3, <1>5, <2>2, KindAssumption DEF SafeInv, HeapTyped, HeapOK
    <2>3. \A p \in Obj : life'[p] = "dying" <=> reaper'[p] # None
      BY <1>1 DEF SafeInv, HeapTyped, HeapOK
    <2>4. \A p \in Static : life'[p] = "live" /\ rc'[p] = MaxCount
      BY <1>1, <1>2, ObjAssumption DEF SafeInv, HeapTyped, HeapOK
    <2> QED BY <2>1, <2>2, <2>3, <2>4 DEF HeapOK
  <1>7. CountOK'
    <2>1. Refs(o)' = {r} /\ \A p \in Obj : p # o => Refs(p)' = Refs(p)
      BY <1>1, <1>2, <1>5, NoneAssumption DEF Refs
    <2>2. Cardinality(Refs(o)') = 1 BY <2>1, FS_Singleton
    <2>3. rc'[o] = 1 /\ \A p \in Obj : p # o => rc'[p] = rc[p] /\ life'[p] = life[p]
      BY <1>1 DEF SafeInv, HeapTyped
    <2> QED BY <2>1, <2>2, <2>3, CountAssumption DEF SafeInv, CountOK, FewRefs
  <1>8. StepOK(t)' /\ SeenOK(t)'
    BY <1>1, <1>2, <1>3, <1>5, KindAssumption DEF SafeInv, StepOK, Reserved, SeenOK
  <1>9. ASSUME NEW v \in Thread, v # t PROVE Moves(t, v)
    <2>1. pc[v] # "idle" => target[arg[v]] \in Obj /\ life[target[arg[v]]] = "live" BY CountAtStep
    <2>2. ~(pc[v] # "idle" /\ plain[v]) BY <1>1, <1>9 DEF ThreadOK, Idle
    <2>3. pc[v] # "idle" => target[arg[v]] # o /\ rc'[target[arg[v]]] = rc[target[arg[v]]]
      BY <1>1, <2>1 DEF SafeInv, HeapTyped
    <2>4. \A q \in Ref : target[q] = None => q = r \/ (target'[q] = None /\ holder'[q] = holder[q])
      BY <1>1, <1>3, <1>5
    <2>5. \A q \in Ref : target[q] # None =>
            /\ target'[q] = target[q]
            /\ holder'[q] = holder[q] \/ (holder[q] = t /\ holder'[q] = o)
      BY <1>1, <1>3, <1>5
    <2>6. r \in Spare /\ holder'[r] = t /\ target'[r] = o BY <1>1, <1>5
    <2> QED BY <1>1, <1>2, <2>2, <2>3, <2>4, <2>5, <2>6 DEF Moves
  <1>10. ASSUME NEW v \in Thread, v # t PROVE StepOK(v)' /\ SeenOK(v)' BY <1>9, <1>10, MoveOthers
  <1> QED BY <1>4, <1>6, <1>7, <1>8, <1>10 DEF SafeInv

LEMMA LoadStaticSafe ==
  ASSUME ThreadOK, SafeInv, Sound, NEW t \in Thread, NEW o \in Static, NEW r \in Spare,
         LoadStatic(t, o, r)
  PROVE  SafeInv'
  <1>1. /\ pc[t] = "idle" /\ r \in Ref /\ o \in Obj /\ o # None
        /\ target[r] = None /\ holder[r] = None
        /\ target' = [target EXCEPT ![r] = o]
        /\ holder' = [holder EXCEPT ![r] = t]
        /\ UNCHANGED <<rc, life, reaper, pc, arg, seen, plain, threaded, running>>
    BY ObjAssumption, NoneAssumption DEF LoadStatic, Idle, Spare, opVars, threadVars
  <1>2. life[o] = "live" /\ rc[o] = MaxCount BY DEF SafeInv, HeapOK
  <1>3. /\ \A q \in Ref : q # r => target'[q] = target[q] /\ holder'[q] = holder[q]
        /\ target'[r] = o /\ holder'[r] = t
    BY <1>1 DEF SafeInv, HeapTyped
  <1>4. HeapTyped' BY <1>1 DEF SafeInv, HeapTyped
  <1>5. HeapOK' BY <1>1, <1>2, <1>3, KindAssumption, NoneAssumption DEF SafeInv, HeapTyped, HeapOK
  <1>6. CountOK' BY <1>1, <1>3, NoneAssumption, <1>2 DEF Refs, SafeInv, CountOK, FewRefs
  <1>7. StepOK(t)' /\ SeenOK(t)' BY <1>1, <1>3 DEF SafeInv, StepOK, Reserved, SeenOK
  <1>8. ASSUME NEW v \in Thread, v # t PROVE Moves(t, v)
    BY <1>2, CountAssumption, <1>1, <1>3 DEF SafeInv, StepOK, Moves
  <1>9. ASSUME NEW v \in Thread, v # t PROVE StepOK(v)' /\ SeenOK(v)' BY <1>8, <1>9, MoveOthers
  <1> QED BY <1>4, <1>5, <1>6, <1>7, <1>9 DEF SafeInv
-----------------------------------------------------------------------------
(* Steps that neither call a collector nor return from one: no cell of one  *)
(* that runs comes to life or is given a field.                             *)
LEMMA CallsStay ==
  ASSUME CallOK, UNCHANGED <<depth, collecting>>, level' \in [Obj -> Nat],
         \A o \in collecting : life[o] = "dying" => life'[o] = "dying",
         \A r \in Ref : \A o \in collecting :
           life[o] = "dying" /\ holder'[r] = o => holder[r] = o
  PROVE  CallOK'
  BY DEF CallOK, CallsTyped

LEMMA CallReturnsOK ==
  ASSUME SafeInv, CallOK, NEW t \in Thread, NEW o \in Obj, CollectReturn(t, o)
  PROVE  CallOK'
  <1>1. CallsTyped' BY DEF CollectReturn, CallOK, CallsTyped
  <1>2. ASSUME NEW p \in collecting' PROVE life'[p] = "dying" /\ \A r \in Ref : holder'[r] # p
    BY DEF CollectReturn, CallOK, CallsTyped, SafeInv, HeapTyped
  <1> QED BY <1>1, <1>2 DEF CallOK

LEMMA CollectCallOK ==
  ASSUME SafeInv, CallOK, NEW t \in Thread, NEW o \in Obj, Collect(t, o)
  PROVE  CallOK'
  <1>1. CallsTyped' BY DEF Collect, CallOK, CallsTyped
  <1>2. life[o] = "dying" /\ t # o
    BY KindAssumption, NoneAssumption DEF Collect, Tearing, SafeInv, HeapOK
  <1>3. \A r \in Ref : holder'[r] # o BY <1>2, NoneAssumption DEF Collect, Fields, SafeInv, HeapOK
  <1>4. ASSUME NEW p \in collecting PROVE life'[p] = "dying" /\ \A r \in Ref : holder'[r] # p
    BY ObjAssumption, KindAssumption DEF CallOK, CallsTyped, Collect
  <1> QED BY <1>1, <1>2, <1>3, <1>4 DEF Collect, CallOK

(* The steps that move pointers give none to a dying cell.                  *)
LEMMA MovesCallOK ==
  ASSUME SafeInv, CallOK, UNCHANGED callVars,
         \A o \in Obj : life[o] = "dying" => life'[o] = "dying",
         \A r \in Ref : \/ holder'[r] = holder[r]
                        \/ holder'[r] \notin Obj
                        \/ life[holder'[r]] # "dying"
  PROVE  CallOK'
  <1>1. collecting \subseteq Obj BY ObjAssumption DEF CallOK, CallsTyped
  <1> QED BY <1>1, CallsStay DEF callVars, CallOK, CallsTyped

LEMMA ContinueCallOK ==
  ASSUME ThreadOK, SafeInv, CallOK, Sound, NEW t \in Thread, Continue(t)
  PROVE  CallOK'
  <1>1. ASSUME UNCHANGED <<callVars, life, holder>> PROVE CallOK' BY <1>1, MovesCallOK
  <1>2. CASE DupAdd(t) \/ DupNStore(t) \/ DupNRetry(t)
    BY <1>1, <1>2 DEF DupAdd, DupNStore, DupNRetry, heapVars
  <1>3. ASSUME NEW r \in Ref, ReleaseLoad(t, r) PROVE CallOK'
    BY <1>1, <1>3 DEF ReleaseLoad, heapVars
  <1>4. CASE ReleaseSub(t)
    <2>1. target[arg[t]] \in Obj BY <1>4, CountAtStep DEF ReleaseSub, Decrement
    <2>2. \A r \in Ref : holder'[r] = holder[r] \/ holder'[r] = None
      BY <1>4 DEF ReleaseSub, Decrement, SafeInv, HeapTyped
    <2>3. UNCHANGED <<depth, collecting>> /\ level' \in [Obj -> Nat]
      BY <1>4 DEF ReleaseSub, Decrement, CallOK, CallsTyped
    <2>4. \A o \in Obj : life[o] = "dying" => life'[o] = "dying"
      BY <1>4 DEF ReleaseSub, Decrement, SafeInv, HeapTyped
    <2>5. collecting \subseteq Obj /\ None \notin collecting
      BY ObjAssumption, NoneAssumption DEF CallOK, CallsTyped
    <2> QED BY <2>2, <2>3, <2>4, <2>5, CallsStay
  <1>5. ASSUME NEW o \in Obj, TeardownFree(t, o) PROVE CallOK'
    BY <1>5, CallsStay DEF TeardownFree, CallOK, CallsTyped, SafeInv, HeapTyped, callVars
  <1>6. ASSUME NEW o \in Obj, Collect(t, o) PROVE CallOK' BY <1>6, CollectCallOK
  <1> QED BY <1>2, <1>3, <1>4, <1>5, <1>6 DEF Continue

LEMMA ProgramCallOK ==
  ASSUME ThreadOK, SafeInv, CallOK, Sound, NEW t \in Thread, Program(t)
  PROVE  CallOK'
  <1>1. t \notin Obj BY KindAssumption
  <1>2. ASSUME NEW o \in Obj, NEW r \in Spare, NEW S \in SUBSET Held(t), Alloc(t, o, r, S)
        PROVE  CallOK'
    BY <1>2, <1>1, MovesCallOK DEF Alloc, SafeInv, HeapTyped
  <1>3. ASSUME UNCHANGED <<callVars, life>>,
               \A q \in Ref : holder'[q] = holder[q] \/ holder'[q] \in Thread \cup {None}
        PROVE  CallOK'
    BY <1>3, KindAssumption, NoneAssumption, MovesCallOK
  <1>4. ASSUME NEW o \in Static, NEW r \in Spare, LoadStatic(t, o, r) PROVE CallOK'
    BY <1>3, <1>4 DEF LoadStatic, SafeInv, HeapTyped
  <1>5. ASSUME NEW r, NEW q, DupLoad(t, r, q) PROVE CallOK'
    BY <1>3, <1>5 DEF DupLoad, SafeInv, HeapTyped
  <1>6. ASSUME NEW r, NEW S, DupNLoad(t, r, S) PROVE CallOK' BY <1>3, <1>6 DEF DupNLoad
  <1>7. ASSUME NEW r, ReleaseLoad(t, r) \/ TestUnique(t, r) PROVE CallOK'
    BY <1>3, <1>7 DEF ReleaseLoad, TestUnique, heapVars
  <1>8. ASSUME pc[t] \in {"owner", "shell"}, UNCHANGED <<callVars, life>>,
               \A q \in Ref : holder'[q] = holder[q] \/ holder'[q] = target[arg[t]]
        PROVE  CallOK'
    BY <1>8, CountAtStep, MovesCallOK
  <1>9. ASSUME NEW q, GrowInPlace(t, q) PROVE CallOK'
    BY <1>8, <1>9 DEF GrowInPlace, SafeInv, HeapTyped
  <1>10. ASSUME NEW S, ClaimShell(t, S) PROVE CallOK' BY <1>8, <1>10 DEF ClaimShell
  <1>11. CASE OfferShell(t) BY <1>3, <1>11 DEF OfferShell
  <1>12. CASE ReleaseReuse(t)
    BY <1>12, CountAtStep, NoneAssumption, MovesCallOK DEF ReleaseReuse, SafeInv, HeapTyped
  <1>13. ASSUME NEW r, NEW q, ForkRetain(t, r, q) PROVE CallOK'
    BY <1>3, <1>13 DEF ForkRetain, SafeInv, HeapTyped
  <1>14. ASSUME NEW u \in Thread, Spawn(t, u) PROVE CallOK' BY <1>3, <1>14 DEF Spawn
  <1>15. ASSUME NEW o \in Obj, CollectReturn(t, o) PROVE CallOK' BY <1>15, CallReturnsOK
  <1> QED
    BY <1>2, <1>4, <1>5, <1>6, <1>7, <1>9, <1>10, <1>11, <1>12, <1>13, <1>14, <1>15
    DEF Program

(* The whole invariant.  Sound is about the present only: a program that    *)
(* has not started a thread yet may saturate counts.                        *)
IInv == ThreadOK /\ (Sound => SafeInv /\ CallOK)

LEMMA InitIInv == Init => IInv
  <1> SUFFICES ASSUME Init PROVE SafeInv /\ CallOK BY InitThreadOK DEF IInv
  <1>1. HeapTyped
    <2>1. /\ rc \in [Obj -> 0..MaxCount]
          /\ seen \in [Thread -> 0..MaxCount]
          /\ running \in SUBSET Thread
      BY ThreadAssumption, CountAssumption DEF Init
    <2> QED BY <2>1 DEF Init, HeapTyped, Steps
  <1>2. HeapOK BY ObjAssumption, NoneAssumption DEF Init, HeapOK
  <1>3. CountOK BY DEF Init, CountOK
  <1>4. ASSUME NEW t \in Thread PROVE StepOK(t) /\ SeenOK(t)
    BY NoneAssumption DEF Init, StepOK, SeenOK, Reserved
  <1>5. CallOK BY DEF Init, CallOK, CallsTyped
  <1> QED BY <1>1, <1>2, <1>3, <1>4, <1>5 DEF SafeInv

(* The flag is never lowered, so a state that is sound was so before.       *)
LEMMA FlagStays ==
  ASSUME NEW t \in Thread, Continue(t) \/ Program(t), Sound'
  PROVE  Sound
  <1>1. threaded' = threaded \/ threaded'
    BY DEF Continue, Program, DupAdd, DupNStore, DupNRetry, ReleaseSub, Decrement,
           TeardownFree, Collect, CollectReturn, ReleaseLoad, Alloc, LoadStatic, DupLoad, DupNLoad,
           TestUnique, GrowInPlace, OfferShell, ClaimShell, ReleaseReuse,
           ForkRetain, Spawn, threadVars
  <1> QED BY <1>1 DEF Sound, FewRefs

LEMMA ContinueSafe ==
  ASSUME ThreadOK, SafeInv, Sound, NEW t \in Thread, Continue(t)
  PROVE  SafeInv'
  BY DupAddSafe, DupNStoreSafe, DupNRetrySafe, ReleaseSubSafe, TeardownFreeSafe,
     CollectSafe, ReleaseLoadSafe DEF Continue

LEMMA ProgramSafe ==
  ASSUME ThreadOK, SafeInv, CallOK, Sound, Sound', NEW t \in Thread, Program(t)
  PROVE  SafeInv'
  <1>1. ASSUME NEW o \in Obj, NEW r \in Spare, NEW S \in SUBSET Held(t), Alloc(t, o, r, S)
        PROVE  SafeInv'
    BY <1>1, AllocSafe
  <1>2. ASSUME NEW o \in Static, NEW r \in Spare, LoadStatic(t, o, r) PROVE SafeInv'
    BY <1>2, LoadStaticSafe
  <1>3. ASSUME NEW r \in Readable(t), NEW q \in Spare, DupLoad(t, r, q) PROVE SafeInv'
    BY <1>3, DupLoadSafe
  <1>4. ASSUME NEW r \in Readable(t), NEW S \in SUBSET Spare, DupNLoad(t, r, S) PROVE SafeInv'
    BY <1>4, DupNLoadSafe
  <1>5. ASSUME NEW r \in Held(t), ReleaseLoad(t, r) PROVE SafeInv' BY <1>5, ReleaseLoadSafe DEF Held
  <1>6. ASSUME NEW r \in Held(t), TestUnique(t, r) PROVE SafeInv' BY <1>6, TestUniqueSafe
  <1>7. ASSUME NEW q, GrowInPlace(t, q) PROVE SafeInv' BY <1>7, GrowInPlaceSafe
  <1>8. CASE OfferShell(t) BY <1>8, OfferShellSafe
  <1>9. ASSUME NEW S, ClaimShell(t, S) PROVE SafeInv' BY <1>9, ClaimShellSafe
  <1>10. CASE ReleaseReuse(t) BY <1>10, ReleaseReuseSafe
  <1>11. ASSUME NEW r \in Held(t), NEW q \in Spare, ForkRetain(t, r, q) PROVE SafeInv'
    BY <1>11, ForkRetainSafe
  <1>12. ASSUME NEW u \in Thread, Spawn(t, u) PROVE SafeInv' BY <1>12, SpawnSafe
  <1>13. ASSUME NEW o \in Obj, CollectReturn(t, o) PROVE SafeInv' BY <1>13, CollectReturnSafe
  <1> QED
    BY <1>1, <1>2, <1>3, <1>4, <1>5, <1>6, <1>7, <1>8, <1>9, <1>10, <1>11,
       <1>12, <1>13 DEF Program

LEMMA NextIInv == IInv /\ [Next]_vars => IInv'
  <1> SUFFICES ASSUME IInv, [Next]_vars PROVE IInv' OBVIOUS
  <1>1. ThreadOK' BY NextThreadOK DEF IInv
  <1>2. ASSUME Sound' PROVE SafeInv' /\ CallOK'
    <2>1. CASE UNCHANGED vars
      <3>1. Sound BY <1>2, <2>1 DEF Sound, FewRefs, vars, threadVars
      <3>2. HeapTyped' /\ HeapOK' /\ CountOK'
        BY <2>1, <3>1 DEF IInv, SafeInv, HeapTyped, HeapOK, CountOK, Refs, FewRefs,
                          vars, heapVars, opVars, threadVars
      <3>3. ASSUME NEW t \in Thread PROVE StepOK(t)' /\ SeenOK(t)'
        BY <2>1, <3>1 DEF IInv, SafeInv, StepOK, SeenOK, Reserved, Readable, Held,
                          Fields, OnlyPointer, vars, heapVars, opVars, threadVars
      <3>4. CallOK' BY <2>1, <3>1 DEF IInv, CallOK, CallsTyped, vars, heapVars, callVars
      <3> QED BY <3>2, <3>3, <3>4 DEF SafeInv
    <2>2. ASSUME NEW t \in Thread, Continue(t) \/ Program(t)
          PROVE  SafeInv' /\ CallOK'
      BY <1>2, <2>2, FlagStays, ContinueSafe, ProgramSafe, ContinueCallOK, ProgramCallOK
      DEF IInv
    <2> QED BY <2>1, <2>2 DEF Next
  <1> QED BY <1>1, <1>2 DEF IInv

THEOREM Inductive == Spec => []IInv
  BY InitIInv, NextIInv, PTL DEF Spec

(* Every variable stays in its range; the count is a 16-bit field.          *)
THEOREM TypeCorrect == Spec => [](Sound => TypeOK)
  <1>1. IInv => (Sound => TypeOK) BY ObjAssumption DEF IInv, SafeInv, CallOK, TypeOK
  <1> QED BY <1>1, Inductive, PTL

(* No pointer dangles, whatever the threads do, as long as fewer pointers   *)
(* than REFCOUNT_MAX exist once there are threads.                          *)
THEOREM NeverDangling == Spec => []NoDangling
  <1>1. IInv => NoDangling BY DEF IInv, SafeInv, HeapOK, NoDangling
  <1> QED BY <1>1, Inductive, PTL

(* The count of a live object is the number of its pointers, or frozen: no  *)
(* update is lost, and what is not frozen does not leak.                    *)
THEOREM CountsExact == Spec => []CountExact
  <1>1. IInv => CountExact BY DEF IInv, SafeInv, CountOK, CountExact
  <1> QED BY <1>1, Inductive, PTL

(* A true idris2rc2_isUnique stays true until the in-place change is done.  *)
THEOREM OwnersExclusive == Spec => []ExclusiveOwner
  <1>1. ASSUME IInv, Sound, NEW t \in Thread, pc[t] \in {"owner", "shell"}
        PROVE  Refs(target[arg[t]]) = {arg[t]}
    BY <1>1 DEF IInv, SafeInv, StepOK, OnlyPointer, Refs
  <1>2. IInv => ExclusiveOwner BY <1>1 DEF ExclusiveOwner
  <1> QED BY <1>2, Inductive, PTL

-----------------------------------------------------------------------------
(***************************************************************************)
(* The counted heap implements the heap of Ownership: every step of        *)
(* RefCount is, on `life` and `target`, a step of Ownership or none.  This *)
(* is where the safety of the counts is used: an object dies in the very   *)
(* step that discards its last pointer, and in no other, and nothing but a *)
(* static is left alive by that step.                                      *)
(***************************************************************************)

LEMMA InitRefines == Init => Abstract!Init
  BY DEF Init, Abstract!Init

(* The reserved pointers of a dup are copies of the one it reads through.   *)
LEMMA CopyRefines ==
  ASSUME IInv, Sound, NEW t \in Thread, pc[t] \in {"dup", "dup_n", "fork"},
         Deliver(t), UNCHANGED life
  PROVE  Abstract!Next
  <1>1. PICK o : o = target[arg[t]] OBVIOUS
  <1>2. arg[t] \in Ref /\ o \in Obj /\ life[o] = "live" BY <1>1, CountAtStep DEF IInv
  <1>3. arg[t] \in Abstract!Refs(o) BY <1>1, <1>2 DEF Abstract!Refs
  <1>4. Reserved(t) \in SUBSET Ref /\ \A r \in Reserved(t) : target[r] = None BY DEF Reserved
  <1>5. target' = [r \in Ref |-> IF r \in Reserved(t) THEN o ELSE target[r]] BY <1>1 DEF Deliver
  <1>6. Abstract!Copy(o, Reserved(t)) BY <1>2, <1>3, <1>4, <1>5 DEF Abstract!Copy
  <1> QED BY <1>2, <1>4, <1>6 DEF Abstract!Next

LEMMA ReleaseRefines ==
  ASSUME IInv, Sound, FewRefs, NEW t \in Thread, ReleaseSub(t)
  PROVE  Abstract!Next
  <1>1. PICK q : q = arg[t] OBVIOUS
  <1>2. PICK o : o = target[q] OBVIOUS
  <1>3. /\ q \in Ref /\ o \in Obj /\ o # None /\ life[o] = "live"
        /\ seen[t] = MaxCount <=> rc[o] = MaxCount
        /\ plain[t] => seen[t] = rc[o]
        /\ rc[o] # MaxCount => /\ rc[o] = Cardinality(Refs(o)) /\ rc[o] > 0
                               /\ o \notin Static
    BY <1>1, <1>2, CountAtStep, NoneAssumption DEF IInv, ReleaseSub, Decrement
  <1>4. target' = [target EXCEPT ![q] = None] BY <1>1 DEF ReleaseSub, Decrement
  <1>5. \/ UNCHANGED life /\ (rc[o] = MaxCount \/ rc[o] # 1)
        \/ /\ rc[o] = 1 /\ rc[o] # MaxCount
           /\ life' = [life EXCEPT ![o] = "dying"]
    BY <1>1, <1>2, <1>3, CountAssumption DEF ReleaseSub, Decrement
  <1>6. CASE UNCHANGED life /\ (rc[o] = MaxCount \/ rc[o] # 1)
    <2>1. rc[o] = MaxCount => o \in Static BY <1>3 DEF IInv, SafeInv, CountOK
    <2>2. ASSUME rc[o] # MaxCount PROVE Abstract!Refs(o) # {q}
      BY <1>3, <1>6, <2>2, FS_Singleton DEF Refs, Abstract!Refs
    <2>3. o \in Static \/ Abstract!Refs(o) # {q} BY <2>1, <2>2
    <2>4. Abstract!Discard(q) BY <1>2, <1>3, <1>4, <1>6, <2>3 DEF Abstract!Discard
    <2> QED BY <1>3, <2>4 DEF Abstract!Next
  <1>7. CASE rc[o] = 1 /\ rc[o] # MaxCount /\ life' = [life EXCEPT ![o] = "dying"]
    <2>1. PICK r : Refs(o) = {r} BY <1>3, <1>7, RefsFinite, FS_Singleton
    <2>2. Abstract!Refs(o) = {q} BY <1>2, <1>3, <2>1 DEF Refs, Abstract!Refs
    <2>3. Abstract!DiscardLast(q) BY <1>2, <1>3, <1>4, <1>7, <2>2 DEF Abstract!DiscardLast
    <2> QED BY <1>3, <2>3 DEF Abstract!Next
  <1> QED BY <1>5, <1>6, <1>7

LEMMA ReleaseReuseRefines ==
  ASSUME IInv, Sound, NEW t \in Thread, ReleaseReuse(t)
  PROVE  Abstract!Next
  <1>1. PICK q : q = arg[t] OBVIOUS
  <1>2. PICK o : o = target[q] OBVIOUS
  <1>3. /\ q \in Ref /\ o \in Obj /\ o # None /\ life[o] = "live" /\ rc[o] = 1
        /\ o \notin Static
    BY <1>1, <1>2, CountAtStep, CountAssumption, NoneAssumption
    DEF IInv, SafeInv, StepOK, ReleaseReuse
  <1>4. Abstract!Refs(o) = {q}
    BY <1>1, <1>2, <1>3 DEF IInv, SafeInv, StepOK, OnlyPointer, ReleaseReuse, Abstract!Refs
  <1>5. life' = [life EXCEPT ![o] = "free"] /\ target' = [target EXCEPT ![q] = None]
    BY <1>1, <1>2 DEF ReleaseReuse
  <1>6. Abstract!DiscardLast(q) BY <1>2, <1>3, <1>4, <1>5 DEF Abstract!DiscardLast
  <1> QED BY <1>3, <1>6 DEF Abstract!Next

LEMMA FreeRefines ==
  ASSUME IInv, Sound, NEW t \in Thread, NEW o \in Obj, reaper[o] = t,
         life' = [life EXCEPT ![o] = "free"], UNCHANGED target
  PROVE  Abstract!Next
  <1>1. life[o] = "dying" BY NoneAssumption DEF IInv, SafeInv, HeapOK
  <1>2. Abstract!Refs(o) = {} BY <1>1, NoneAssumption DEF IInv, SafeInv, HeapOK, Abstract!Refs
  <1>3. Abstract!Free(o) BY <1>1, <1>2 DEF Abstract!Free
  <1> QED BY <1>3 DEF Abstract!Next

LEMMA StaticRefines ==
  ASSUME IInv, Sound, NEW t \in Thread, NEW o \in Static, NEW r \in Spare,
         LoadStatic(t, o, r)
  PROVE  Abstract!Next
  <1>1. life[o] = "live" /\ {r} \in SUBSET Ref /\ target[r] = None /\ o \in Obj
    BY ObjAssumption DEF IInv, SafeInv, HeapOK, Spare
  <1>2. target' = [q \in Ref |-> IF q \in {r} THEN o ELSE target[q]]
    BY DEF LoadStatic, IInv, SafeInv, HeapTyped
  <1>3. Abstract!Copy(o, {r}) BY <1>1, <1>2 DEF LoadStatic, Abstract!Copy
  <1> QED BY <1>1, <1>3 DEF Abstract!Next

LEMMA AllocRefines ==
  ASSUME NEW t \in Thread, NEW o \in Obj, NEW r \in Spare, NEW S, Alloc(t, o, r, S)
  PROVE  Abstract!Next
  <1>1. r \in Ref /\ Abstract!Allocate(o, r) BY DEF Alloc, Spare, Abstract!Allocate
  <1> QED BY <1>1 DEF Abstract!Next

LEMMA StepRefines ==
  ASSUME IInv, FewRefs, [Next]_vars
  PROVE  [Abstract!Next]_(Abstract!vars)
  <1> USE DEF Abstract!vars
  <1>1. Sound BY DEF Sound
  <1>2. CASE UNCHANGED vars BY <1>2 DEF vars, heapVars
  <1>3. ASSUME NEW t \in Thread, Continue(t)
        PROVE  [Abstract!Next]_(Abstract!vars)
    <2>1. CASE DupAdd(t) BY <1>1, <2>1, CopyRefines DEF DupAdd
    <2>2. CASE DupNStore(t) BY <1>1, <2>2, CopyRefines DEF DupNStore
    <2>3. CASE DupNRetry(t) BY <2>3 DEF DupNRetry, heapVars
    <2>4. CASE ReleaseSub(t) BY <1>1, <2>4, ReleaseRefines
    <2>5. ASSUME NEW o \in Obj, TeardownFree(t, o) PROVE [Abstract!Next]_(Abstract!vars)
      BY <1>1, <2>5, FreeRefines DEF TeardownFree, Tearing
    <2>6. ASSUME NEW r \in Ref, ReleaseLoad(t, r) PROVE [Abstract!Next]_(Abstract!vars)
      BY <2>6 DEF ReleaseLoad, heapVars
    <2>7. ASSUME NEW o \in Obj, Collect(t, o) PROVE [Abstract!Next]_(Abstract!vars)
      BY <2>7 DEF Collect
    <2> QED BY <1>3, <2>1, <2>2, <2>3, <2>4, <2>5, <2>6, <2>7 DEF Continue
  <1>4. ASSUME NEW t \in Thread, Program(t)
        PROVE  [Abstract!Next]_(Abstract!vars)
    <2>1. ASSUME NEW o \in Obj, NEW r \in Spare, NEW S, Alloc(t, o, r, S)
          PROVE  Abstract!Next
      BY <2>1, AllocRefines
    <2>2. ASSUME NEW o \in Static, NEW r \in Spare, LoadStatic(t, o, r)
          PROVE  Abstract!Next
      BY <1>1, <2>2, StaticRefines
    <2>3. ASSUME \/ \E r \in Readable(t), q \in Spare : DupLoad(t, r, q)
                 \/ \E r \in Readable(t), S \in SUBSET Spare : DupNLoad(t, r, S)
                 \/ \E r \in Held(t) : ReleaseLoad(t, r)
                 \/ \E r \in Held(t) : TestUnique(t, r)
                 \/ \E q \in Held(t) : GrowInPlace(t, q)
                 \/ OfferShell(t)
                 \/ \E S \in SUBSET Held(t) : ClaimShell(t, S)
                 \/ \E r \in Held(t), q \in Spare : ForkRetain(t, r, q)
          PROVE  UNCHANGED Abstract!vars
      BY <2>3 DEF DupLoad, DupNLoad, ReleaseLoad, TestUnique, GrowInPlace,
                  OfferShell, ClaimShell, ForkRetain, heapVars
    <2>4. CASE ReleaseReuse(t) BY <1>1, <2>4, ReleaseReuseRefines
    <2>5. ASSUME NEW u \in Thread, Spawn(t, u) PROVE Abstract!Next
      BY <1>1, <2>5, CopyRefines DEF Spawn
    <2>6. ASSUME NEW o \in Obj, CollectReturn(t, o) PROVE Abstract!Next
      BY <1>1, <2>6, FreeRefines DEF CollectReturn
    <2> QED BY <1>4, <2>1, <2>2, <2>3, <2>4, <2>5, <2>6 DEF Program
  <1> QED BY <1>2, <1>3, <1>4 DEF Next

(* While fewer pointers than REFCOUNT_MAX exist, the counts implement plain *)
(* ownership: an object that is no static dies in the step that discards    *)
(* its last pointer, never before, and no such step leaves it alive.        *)
THEOREM Refinement == ASSUME FewRefs PROVE Spec => ImplementsOwnership
  <1>1. FewRefs => (IInv /\ [Next]_vars => [Abstract!Next]_(Abstract!vars)) BY StepRefines
  <1> QED BY <1>1, InitRefines, Inductive, PTL DEF Spec, ImplementsOwnership, Abstract!Spec

(***************************************************************************)
(* Words: the arithmetic of the runtime, its immediates and its casts, for *)
(* every width.  The model check compares them on small types only.        *)
(***************************************************************************)

\* The library's quotient and rest by a positive divisor.
LEMMA Divided ==
  ASSUME NEW x \in Int, NEW m \in Nat \ {0}
  PROVE  x \div m \in Int /\ x % m \in 0..m - 1 /\ x = m * (x \div m) + (x % m)
BY SMTT(30)

\* They are the only ones.
LEMMA DividedOnly ==
  ASSUME NEW x \in Int, NEW m \in Nat \ {0}, NEW q \in Int, NEW r \in 0..m - 1, x = m * q + r
  PROVE  q = x \div m /\ r = x % m
<1>1. x \div m \in Int /\ x % m \in 0..m - 1 /\ x = m * (x \div m) + (x % m) BY Divided
<1> DEFINE p == x \div m  s == x % m
<1>2. p \in Int /\ s \in 0..m - 1 /\ m * p + s = m * q + r BY <1>1
<1> HIDE DEF p, s
<1>3. m * (p - q) = r - s BY <1>2
<1>4. ~ p - q >= 1
  <2> SUFFICES ASSUME p - q >= 1 PROVE FALSE OBVIOUS
  <2>1. m * (p - q) >= m BY <1>2
  <2> QED BY <1>2, <1>3, <2>1
<1>5. ~ p - q <= -1
  <2> SUFFICES ASSUME p - q <= -1 PROVE FALSE OBVIOUS
  <2>1. m * (p - q) <= -m BY <1>2
  <2> QED BY <1>2, <1>3, <2>1
<1>6. p = q BY <1>2, <1>4, <1>5
<1>7. r = s BY <1>2, <1>6
<1> QED BY <1>6, <1>7 DEF p, s

\* What the library's division promises of a positive divisor.
LEMMA DivisionOfNaturals ==
  ASSUME NEW a \in Nat, NEW b \in Nat, b > 0
  PROVE /\ a \div b \in Nat /\ a % b \in 0..b - 1
        /\ a = b * (a \div b) + (a % b)
BY SMTT(30)

\* C's division truncates: the remainder has the sign of the dividend and is
\* smaller than the divisor (the / and % of idris2rc2_ediv_* and emod_*).
LEMMA Truncates ==
  ASSUME NEW n \in Int, NEW d \in Int, d # 0
  PROVE /\ CDiv(n, d) \in Int /\ CRem(n, d) \in Int
        /\ n = d * CDiv(n, d) + CRem(n, d)
        /\ Abs(CRem(n, d)) < Abs(d)
        /\ CRem(n, d) < 0 => n < 0
        /\ CRem(n, d) > 0 => n > 0
<1> DEFINE a == Abs(n)  b == Abs(d)  q == a \div b  r == a % b
<1>1. a \in Nat /\ b \in Nat /\ b > 0 BY DEF Abs
<1>2. q \in Nat /\ r \in 0..b - 1 /\ a = b * q + r BY <1>1, DivisionOfNaturals
<1>3. CDiv(n, d) = Sgn(n) * Sgn(d) * q BY DEF CDiv
<1>4. CDiv(n, d) \in Int BY <1>2, <1>3 DEF Sgn
<1>5. d * CDiv(n, d) = Sgn(n) * (b * q)
  <2>1. CASE d > 0 BY <1>2, <1>3, <2>1 DEF Sgn, Abs
  <2>2. CASE d < 0 BY <1>2, <1>3, <2>2 DEF Sgn, Abs
  <2> QED BY <2>1, <2>2
<1>6. CRem(n, d) = Sgn(n) * r
  <2>1. CRem(n, d) = n - d * CDiv(n, d) BY DEF CRem
  <2>2. b * q = a - r BY <1>1, <1>2
  <2>3. CRem(n, d) = n - Sgn(n) * (a - r) BY <2>1, <2>2, <1>5
  <2>4. CASE n < 0 BY <2>3, <2>4, <1>2 DEF Sgn, Abs
  <2>5. CASE n >= 0 BY <2>3, <2>5, <1>2 DEF Sgn, Abs
  <2> QED BY <2>4, <2>5
<1>7. CRem(n, d) \in Int /\ n = d * CDiv(n, d) + CRem(n, d) BY <1>4 DEF CRem
<1>8. Abs(CRem(n, d)) = r BY <1>6, <1>2 DEF Sgn, Abs
<1>9. Abs(CRem(n, d)) < Abs(d)
  <2>1. b = Abs(d) OBVIOUS
  <2> HIDE DEF a, b, q, r
  <2>2. r < b BY <1>1, <1>2
  <2> QED BY <1>8, <2>1, <2>2
<1>10. CRem(n, d) < 0 => n < 0 BY <1>2, <1>6 DEF Sgn
<1>11. CRem(n, d) > 0 => n > 0
  <2>1. n = 0 => a = 0 BY DEF Abs
  <2>2. a = 0 => q = 0 /\ r = 0 BY <1>1
  <2> HIDE DEF a, r
  <2> QED BY <1>2, <1>6, <2>1, <2>2 DEF Sgn
<1> HIDE DEF a, b, q, r
<1> QED BY <1>4, <1>7, <1>9, <1>10, <1>11

\* Idris's division: the dividend is the divisor times the quotient plus a
\* remainder that is never negative and smaller than the divisor, for every
\* sign of either (idris2rc2_ediv_i8 .. i64, idris2rc2_emod_i8 .. i64).
THEOREM DivisionIsEuclidean ==
  ASSUME NEW n \in Int, NEW d \in Int, d # 0
  PROVE /\ EuclidQuotient(n, d) \in Int
        /\ EuclidRemainder(n, d) \in 0..Abs(d) - 1
        /\ n = d * EuclidQuotient(n, d) + EuclidRemainder(n, d)
<1> DEFINE q == CDiv(n, d)  r == CRem(n, d)
<1>1. /\ q \in Int /\ r \in Int /\ n = d * q + r
      /\ Abs(r) < Abs(d)
  BY Truncates
<1>2. Abs(d) \in Nat /\ Abs(d) > 0 BY DEF Abs
<1>3. CASE r >= 0 BY <1>1, <1>3, <1>2 DEF EuclidQuotient, EuclidRemainder, Abs
<1>4. CASE r < 0
  <2>1. EuclidRemainder(n, d) = r + Abs(d) BY <1>4 DEF EuclidRemainder
  <2>2. EuclidRemainder(n, d) \in 0..Abs(d) - 1 BY <1>1, <1>2, <1>4, <2>1 DEF Abs
  <2>3. EuclidQuotient(n, d) = q + (IF d < 0 THEN 1 ELSE -1) BY <1>4 DEF EuclidQuotient
  <2>4. d * EuclidQuotient(n, d) = d * q - Abs(d)
    <3>1. CASE d < 0 BY <2>3, <3>1, <1>1 DEF Abs
    <3>2. CASE d > 0 BY <2>3, <3>2, <1>1 DEF Abs
    <3> QED BY <3>1, <3>2
  <2>5. d * q \in Int /\ EuclidQuotient(n, d) \in Int BY <1>1, <2>3
  <2> QED BY <1>1, <1>2, <2>1, <2>2, <2>4, <2>5
<1> QED BY <1>1, <1>3, <1>4

(***************************************************************************)
(* Powers of two.  No induction: 2^n is the number of subsets of 1..n.     *)
(***************************************************************************)

\* 2^n counts the subsets of a set of n elements.
LEMMA PowerIs ==
  ASSUME NEW n \in Nat
  PROVE  IsFiniteSet(SUBSET (1..n)) /\ Cardinality(SUBSET (1..n)) = 2^n /\ 2^n \in Nat
<1>1. IsFiniteSet(1..n) /\ Cardinality(1..n) = n BY FS_Interval
<1>2. IsFiniteSet(SUBSET (1..n)) /\ Cardinality(SUBSET (1..n)) = 2^n BY <1>1, FS_SUBSET
<1> QED BY <1>2, FS_CardinalityType

\* The subsets of two disjoint intervals, taken together, are those of their union.
LEMMA PowerSum ==
  ASSUME NEW m \in Nat, NEW n \in Nat
  PROVE  2^(m + n) = 2^m * 2^n
<1> DEFINE A == 1..m  B == m + 1..m + n  C == 1..m + n
           f == [p \in (SUBSET A) \X (SUBSET B) |-> p[1] \cup p[2]]
<1>1. A \cap B = {} /\ A \cup B = C OBVIOUS
<1>2. IsFiniteSet(B) /\ Cardinality(B) = n BY FS_Interval
<1>3. IsFiniteSet(SUBSET B) /\ Cardinality(SUBSET B) = 2^n BY <1>2, FS_SUBSET
<1>4. IsFiniteSet(SUBSET A) /\ Cardinality(SUBSET A) = 2^m BY PowerIs
<1>5. IsFiniteSet((SUBSET A) \X (SUBSET B)) /\ Cardinality((SUBSET A) \X (SUBSET B)) = 2^m * 2^n
  <2> DEFINE X == SUBSET A  Y == SUBSET B
  <2>1. IsFiniteSet(X) /\ IsFiniteSet(Y) /\ Cardinality(X) = 2^m /\ Cardinality(Y) = 2^n
    BY <1>3, <1>4
  <2> HIDE DEF X, Y
  <2>2. IsFiniteSet(X \X Y) /\ Cardinality(X \X Y) = Cardinality(X) * Cardinality(Y)
    BY <2>1, FS_Product
  <2> QED BY <2>1, <2>2 DEF X, Y
<1>6. IsFiniteSet(SUBSET C) /\ Cardinality(SUBSET C) = 2^(m + n) BY PowerIs
<1> HIDE DEF A, B, C
<1>7. f \in [(SUBSET A) \X (SUBSET B) -> SUBSET C] BY <1>1
<1>8. ASSUME NEW p \in (SUBSET A) \X (SUBSET B), NEW q \in (SUBSET A) \X (SUBSET B), f[p] = f[q]
      PROVE  p = q
  BY <1>8, <1>1
<1>9. ASSUME NEW S \in SUBSET C PROVE \E p \in (SUBSET A) \X (SUBSET B) : f[p] = S
  <2> DEFINE p == <<S \cap A, S \cap B>>
  <2>1. p \in (SUBSET A) \X (SUBSET B) OBVIOUS
  <2>2. f[p] = (S \cap A) \cup (S \cap B) BY <2>1
  <2>3. (S \cap A) \cup (S \cap B) = S BY <1>1
  <2> QED BY <2>1, <2>2, <2>3
<1>10. ExistsBijection((SUBSET A) \X (SUBSET B), SUBSET C)
  <2> HIDE DEF f
  <2> DEFINE P == (SUBSET A) \X (SUBSET B)  Q == SUBSET C
  <2>0. /\ f \in [P -> Q] /\ \A p, q \in P : f[p] = f[q] => p = q
        /\ \A S \in Q : \E p \in P : f[p] = S
    BY <1>7, <1>8, <1>9
  <2> HIDE DEF P, Q
  <2>4. f \in Injection(P, Q) /\ f \in Surjection(P, Q)
    BY <2>0 DEF Injection, IsInjective, Surjection
  <2>5. f \in Bijection(P, Q) BY <2>4 DEF Bijection
  <2>1. f \in Bijection((SUBSET A) \X (SUBSET B), SUBSET C) BY <2>5 DEF P, Q
  <2> QED BY <2>1 DEF ExistsBijection
<1> QED BY <1>5, <1>6, <1>10, FS_Bijection

\* A set has more subsets than elements: those of one element, and the empty one.
LEMMA PowerMore ==
  ASSUME NEW n \in Nat
  PROVE  n < 2^n
<1> DEFINE A == 1..n  f == [i \in A |-> {i}]
<1>1. Cardinality(A) = n /\ IsFiniteSet(A) BY FS_Interval
<1>2. IsFiniteSet(SUBSET A) /\ Cardinality(SUBSET A) = 2^n /\ 2^n \in Nat BY PowerIs
<1>3. f \in Injection(A, SUBSET A) BY DEF Injection, IsInjective
<1>4. Cardinality(A) <= Cardinality(SUBSET A) /\ (Cardinality(A) = Cardinality(SUBSET A) <=> f \in Surjection(A, SUBSET A))
  BY <1>2, <1>3, FS_Injection
<1>5. f \notin Surjection(A, SUBSET A)
  <2>1. \A i \in A : f[i] # {} OBVIOUS
  <2>2. {} \in SUBSET A OBVIOUS
  <2> HIDE DEF f, A
  <2> QED BY <2>1, <2>2 DEF Surjection
<1> QED BY <1>1, <1>2, <1>4, <1>5

\* The powers of two, from the lemmas above.
LEMMA Powers ==
  ASSUME NEW n \in Nat
  PROVE  /\ 2^n \in Nat \ {0} /\ n < 2^n
         /\ 2^(n + 1) = 2 * 2^n
         /\ n # 0 => 2^n = 2 * 2^(n - 1) /\ 2^(n - 1) \in Nat \ {0}
         /\ \A m \in Nat : m <= n => 2^n = 2^m * 2^(n - m) /\ 2^m \in Nat \ {0} /\ 2^(n - m) \in Nat \ {0}
         /\ \A m \in Nat : m <= n => 2^m <= 2^n
<1>1. \A k \in Nat : 2^k \in Nat \ {0} /\ k < 2^k BY PowerIs, PowerMore
<1>2. 2^(n + 1) = 2 * 2^n
  <2>1. 2^(n + 1) = 2^n * 2^1 BY PowerSum
  <2>2. 2^1 = 2 OBVIOUS
  <2> QED BY <1>1, <2>1, <2>2
<1>3. n # 0 => 2^n = 2 * 2^(n - 1) /\ 2^(n - 1) \in Nat \ {0}
  <2> SUFFICES ASSUME n # 0 PROVE 2^n = 2 * 2^(n - 1) /\ 2^(n - 1) \in Nat \ {0} OBVIOUS
  <2>1. n - 1 \in Nat /\ n = (n - 1) + 1 OBVIOUS
  <2>2. 2^n = 2^(n - 1) * 2^1 BY <2>1, PowerSum
  <2>3. 2^1 = 2 OBVIOUS
  <2> QED BY <1>1, <2>1, <2>2, <2>3
<1>4. ASSUME NEW m \in Nat, m <= n
      PROVE  2^n = 2^m * 2^(n - m) /\ 2^m \in Nat \ {0} /\ 2^(n - m) \in Nat \ {0} /\ 2^m <= 2^n
  <2>1. n - m \in Nat /\ n = m + (n - m) BY <1>4
  <2>2. 2^n = 2^m * 2^(n - m) BY <2>1, PowerSum
  <2>3. 2^m \in Nat \ {0} /\ 2^(n - m) \in Nat \ {0} BY <1>1, <2>1
  <2> DEFINE a == 2^m  b == 2^(n - m)
  <2>4. a \in Nat \ {0} /\ b \in Nat \ {0} BY <2>3
  <2> HIDE DEF a, b
  <2>5. a <= a * b BY <2>4
  <2> QED BY <2>2, <2>3, <2>5 DEF a, b
<1> QED BY <1>1, <1>2, <1>3, <1>4

(***************************************************************************)
(* Numbers equal modulo a width.                                           *)
(***************************************************************************)

\* Equal modulo m.
Cong(x, y, m) == \E k \in Int : x - y = m * k

\* Congruence is symmetric.
LEMMA CongSelf ==
  ASSUME NEW x \in Int, NEW y \in Int, NEW m \in Int, Cong(x, y, m)
  PROVE  Cong(y, x, m)
<1>1. PICK k \in Int : x - y = m * k BY DEF Cong
<1>2. -k \in Int /\ m * (-k) = -(m * k) OBVIOUS
<1>3. y - x = m * (-k) BY <1>1, <1>2
<1> QED BY <1>2, <1>3 DEF Cong

\* It is transitive.
LEMMA CongThen ==
  ASSUME NEW x \in Int, NEW y \in Int, NEW z \in Int, NEW m \in Int, Cong(x, y, m), Cong(y, z, m)
  PROVE  Cong(x, z, m)
<1>1. PICK k \in Int : x - y = m * k BY DEF Cong
<1>2. PICK l \in Int : y - z = m * l BY DEF Cong
<1>3. m * (k + l) = m * k + m * l OBVIOUS
<1>4. x - z = m * (k + l) /\ k + l \in Int BY <1>1, <1>2, <1>3
<1> QED BY <1>4 DEF Cong

\* Sums and differences of congruent numbers are congruent.
LEMMA CongSum ==
  ASSUME NEW x \in Int, NEW y \in Int, NEW a \in Int, NEW b \in Int, NEW m \in Int, Cong(x, y, m), Cong(a, b, m)
  PROVE  Cong(x + a, y + b, m) /\ Cong(x - a, y - b, m)
<1>1. PICK k \in Int : x - y = m * k BY DEF Cong
<1>2. PICK l \in Int : a - b = m * l BY DEF Cong
<1>3. m * (k + l) = m * k + m * l /\ m * (k - l) = m * k - m * l OBVIOUS
<1>4. (x + a) - (y + b) = m * (k + l) /\ (x - a) - (y - b) = m * (k - l) /\ k + l \in Int /\ k - l \in Int
  BY <1>1, <1>2, <1>3
<1> QED BY <1>4 DEF Cong

\* With a common factor.
LEMMA CongTimes ==
  ASSUME NEW x \in Int, NEW y \in Int, NEW a \in Int, NEW m \in Int, Cong(x, y, m)
  PROVE  Cong(x * a, y * a, m)
<1>1. PICK k \in Int : x - y = m * k BY DEF Cong
<1>2. (x - y) * a = x * a - y * a OBVIOUS
<1>3. (m * k) * a = m * (k * a) /\ k * a \in Int OBVIOUS
<1>4. x * a - y * a = m * (k * a) BY <1>1, <1>2, <1>3
<1> QED BY <1>3, <1>4 DEF Cong

\* Products of congruent numbers are congruent.
LEMMA CongProduct ==
  ASSUME NEW x \in Int, NEW y \in Int, NEW a \in Int, NEW b \in Int, NEW m \in Int, Cong(x, y, m), Cong(a, b, m)
  PROVE  Cong(x * a, y * b, m)
<1>1. Cong(x * a, y * a, m) /\ Cong(a * y, b * y, m) BY CongTimes
<1>2. a * y = y * a /\ b * y = y * b /\ x * a \in Int /\ y * a \in Int /\ y * b \in Int OBVIOUS
<1>3. Cong(y * a, y * b, m) BY <1>1, <1>2
<1> QED BY <1>1, <1>2, <1>3, CongThen

\* It holds for a divisor of the modulus.
LEMMA CongCoarse ==
  ASSUME NEW x \in Int, NEW y \in Int, NEW m \in Int, NEW p \in Int, Cong(x, y, m * p)
  PROVE  Cong(x, y, m)
<1>1. PICK k \in Int : x - y = (m * p) * k BY DEF Cong
<1>2. (m * p) * k = m * (p * k) /\ p * k \in Int OBVIOUS
<1>3. x - y = m * (p * k) BY <1>1, <1>2
<1> QED BY <1>2, <1>3 DEF Cong

\* A number is congruent to its rest.
LEMMA CongRest ==
  ASSUME NEW x \in Int, NEW m \in Nat \ {0}
  PROVE  Cong(x, x % m, m) /\ Cong(x, x, m)
<1>1. x \div m \in Int /\ x % m \in 0..m - 1 /\ x = m * (x \div m) + (x % m) BY Divided
<1>2. x - (x % m) = m * (x \div m) BY <1>1
<1>3. x - x = m * 0 OBVIOUS
<1> QED BY <1>1, <1>2, <1>3 DEF Cong

\* A multiple of the modulus may be added or taken away.
LEMMA CongMany ==
  ASSUME NEW x \in Int, NEW k \in Int, NEW m \in Int
  PROVE  Cong(m * k, 0, m) /\ Cong(x + m * k, x, m) /\ Cong(x - m * k, x, m)
<1>1. m * k - 0 = m * k /\ (x + m * k) - x = m * k /\ -k \in Int OBVIOUS
<1>2. (x - m * k) - x = m * (-k) OBVIOUS
<1> QED BY <1>1, <1>2 DEF Cong

\* Congruence is what a rest of zero says.
LEMMA CongIs ==
  ASSUME NEW x \in Int, NEW y \in Int, NEW m \in Nat \ {0}
  PROVE  Cong(x, y, m) <=> (x - y) % m = 0
<1>1. ASSUME Cong(x, y, m) PROVE (x - y) % m = 0
  <2>1. PICK k \in Int : x - y = m * k BY <1>1 DEF Cong
  <2>2. x - y = m * k + 0 /\ 0 \in 0..m - 1 /\ x - y \in Int BY <2>1
  <2> QED BY <2>2, DividedOnly
<1>2. ASSUME (x - y) % m = 0 PROVE Cong(x, y, m) BY Divided, <1>2 DEF Cong
<1> QED BY <1>1, <1>2

\* Two numbers closer than m that are equal modulo m.
LEMMA CongNear ==
  ASSUME NEW x \in Int, NEW y \in Int, NEW m \in Nat \ {0}, Cong(x, y, m), x - y < m, y - x < m
  PROVE  x = y
<1>1. PICK k \in Int : x - y = m * k BY DEF Cong
<1>2. ~ k >= 1
  <2> SUFFICES ASSUME k >= 1 PROVE FALSE OBVIOUS
  <2>1. m * k >= m OBVIOUS
  <2> QED BY <1>1, <2>1
<1>3. ~ k <= -1
  <2> SUFFICES ASSUME k <= -1 PROVE FALSE OBVIOUS
  <2>1. m * k <= -m OBVIOUS
  <2> QED BY <1>1, <2>1
<1>4. k = 0 BY <1>2, <1>3
<1> QED BY <1>1, <1>4

(***************************************************************************)
(* Cutting a number to a type.                                             *)
(***************************************************************************)
\* The runtime has 8, 16, 32 and 64 bits of these; a Char is a cast of a word.
NumberTypes == [signed : BOOLEAN, bits : Nat \ {0}]

\* The powers of a type are positive.
LEMMA TypePowers ==
  ASSUME NEW ty \in NumberTypes
  PROVE  /\ ty.signed \in BOOLEAN /\ ty.bits \in Nat \ {0}
         /\ 2^ty.bits \in Nat \ {0} /\ 2^(ty.bits - 1) \in Nat \ {0} /\ 2^ty.bits = 2 * 2^(ty.bits - 1)
         /\ Members(ty) \subseteq Int
         /\ \A x, y \in Members(ty) : x - y < 2^ty.bits
<1>1. ty.signed \in BOOLEAN /\ ty.bits \in Nat \ {0} BY DEF NumberTypes
<1>2. 2^ty.bits \in Nat \ {0} /\ 2^(ty.bits - 1) \in Nat \ {0} /\ 2^ty.bits = 2 * 2^(ty.bits - 1)
  BY <1>1, Powers
<1> DEFINE M == 2^ty.bits  H == 2^(ty.bits - 1)
<1>3. M \in Nat \ {0} /\ H \in Nat \ {0} /\ M = 2 * H BY <1>2
<1>4. Members(ty) = IF ty.signed THEN -H .. H - 1 ELSE 0 .. M - 1 BY DEF Members
<1> HIDE DEF M, H
<1>5. Members(ty) \subseteq Int /\ \A x, y \in Members(ty) : x - y < M BY <1>3, <1>4
<1> QED BY <1>1, <1>2, <1>5 DEF M

\* What Convert returns is of the type and congruent to its argument.
LEMMA CutTo ==
  ASSUME NEW ty \in NumberTypes, NEW n \in Int
  PROVE  Convert(ty, n) \in Members(ty) /\ Convert(ty, n) \in Int /\ Cong(n, Convert(ty, n), 2^ty.bits)
<1> DEFINE M == 2^ty.bits  H == 2^(ty.bits - 1)  u == n % M
<1>1. ty.signed \in BOOLEAN /\ M \in Nat \ {0} /\ H \in Nat \ {0} /\ M = 2 * H BY TypePowers
<1>2. Members(ty) = IF ty.signed THEN -H .. H - 1 ELSE 0 .. M - 1 BY DEF Members
<1>3. Convert(ty, n) = IF ty.signed /\ ~ u < H THEN u - M ELSE u
  BY <1>1 DEF Convert, Signed, Unsigned
<1> HIDE DEF M, H
<1>4. u \in 0..M - 1 /\ Cong(n, u, M) BY <1>1, Divided, CongRest
<1> HIDE DEF u
<1>5. Convert(ty, n) \in Members(ty) /\ Convert(ty, n) \in Int BY <1>1, <1>2, <1>3, <1>4
<1>6. Cong(u, u - M, M) BY <1>1, <1>4 DEF Cong
<1>7. Cong(n, Convert(ty, n), M)
  <2>1. CASE Convert(ty, n) = u BY <1>4, <2>1
  <2>2. CASE Convert(ty, n) = u - M BY <1>1, <1>4, <1>6, <2>2, CongThen
  <2> QED BY <1>3, <2>1, <2>2
<1> QED BY <1>5, <1>7 DEF M

\* There is one number of the type equal to n modulo its width.
LEMMA CutOnly ==
  ASSUME NEW ty \in NumberTypes, NEW n \in Int
  PROVE  /\ Congruent(ty, n) = Convert(ty, n)
         /\ \A r \in Members(ty) : Cong(n, r, 2^ty.bits) => r = Convert(ty, n)
         /\ n \in Members(ty) => Convert(ty, n) = n
<1> DEFINE M == 2^ty.bits  c == Convert(ty, n)
<1>1. c \in Members(ty) /\ c \in Int /\ Cong(n, c, M) BY CutTo
<1>2. M \in Nat \ {0} /\ Members(ty) \subseteq Int /\ \A x, y \in Members(ty) : x - y < M
  BY TypePowers
<1> HIDE DEF M, c
<1>3. ASSUME NEW r \in Members(ty), Cong(n, r, M) PROVE r = c
  BY <1>1, <1>2, <1>3, CongSelf, CongThen, CongNear
<1>4. \A r \in Members(ty) : (n - r) % M = 0 <=> Cong(n, r, M) BY <1>2, CongIs
<1>5. Congruent(ty, n) = CHOOSE r \in Members(ty) : (n - r) % M = 0 BY DEF Congruent, M
<1>6. Congruent(ty, n) = c BY <1>1, <1>3, <1>4, <1>5
<1>7. Cong(n, n, M) BY <1>2, CongRest
<1> QED BY <1>3, <1>6, <1>7 DEF M, c

\* Congruent numbers are cut to the same one.
LEMMA CutSame ==
  ASSUME NEW ty \in NumberTypes, NEW x \in Int, NEW y \in Int, Cong(x, y, 2^ty.bits)
  PROVE  Convert(ty, x) = Convert(ty, y)
<1>1. Convert(ty, y) \in Members(ty) /\ Convert(ty, y) \in Int /\ Cong(y, Convert(ty, y), 2^ty.bits) /\ 2^ty.bits \in Int
  BY CutTo, TypePowers
<1>2. Cong(x, Convert(ty, y), 2^ty.bits) BY <1>1, CongThen
<1> QED BY <1>1, <1>2, CutOnly

\* A word of at least the type's width keeps what the type keeps.
LEMMA CutWord ==
  ASSUME NEW ty \in NumberTypes, NEW W \in Nat, ty.bits <= W, NEW x \in Int
  PROVE  /\ Unsigned(x, W) \in Int /\ Unsigned(x, W) \in 0..2^W - 1 /\ 2^W \in Nat \ {0}
         /\ Cong(Unsigned(x, W), x, 2^W) /\ Cong(Unsigned(x, W), x, 2^ty.bits)
         /\ Cong(x, Unsigned(x, W), 2^ty.bits)
         /\ Convert(ty, Unsigned(x, W)) = Convert(ty, x)
<1>1. ty.bits \in Nat /\ 2^ty.bits \in Nat \ {0} BY TypePowers
<1>2. 2^W = 2^ty.bits * 2^(W - ty.bits) /\ 2^(W - ty.bits) \in Nat \ {0} /\ 2^W \in Nat \ {0}
  BY <1>1, Powers
<1> DEFINE M == 2^ty.bits  p == 2^(W - ty.bits)  V == 2^W  u == Unsigned(x, W)
<1>3. M \in Nat \ {0} /\ p \in Nat \ {0} /\ V \in Nat \ {0} /\ V = M * p BY <1>1, <1>2
<1>4. u = x % V BY DEF Unsigned
<1> HIDE DEF M, p, V, u
<1>5. u \in 0..V - 1 /\ Cong(x, u, V) BY <1>3, <1>4, Divided, CongRest
<1>6. u \in Int /\ Cong(x, u, M)
  <2>1. u \in Int /\ M \in Int /\ p \in Int BY <1>3, <1>5
  <2>2. Cong(x, u, M * p) BY <1>3, <1>5
  <2> QED BY <2>1, <2>2, CongCoarse
<1>7. Cong(u, x, V) /\ Cong(u, x, M) BY <1>3, <1>5, <1>6, CongSelf
<1>8. Convert(ty, u) = Convert(ty, x) BY <1>6, <1>7, CutSame DEF M
<1> QED BY <1>3, <1>5, <1>6, <1>7, <1>8 DEF M, V, u

(***************************************************************************)
(* The operators.                                                          *)
(***************************************************************************)

\* Sums, products and negations in unsigned words.
LEMMA ExactSums ==
  ASSUME NEW ty \in NumberTypes, NEW W \in Nat, ty.bits <= W, NEW a \in Int, NEW b \in Int, NEW i
  PROVE  /\ Arith("add", ty, a, b, W, i) = Convert(ty, a + b)
         /\ Arith("sub", ty, a, b, W, i) = Convert(ty, a - b)
         /\ Arith("mul", ty, a, b, W, i) = Convert(ty, a * b)
         /\ Arith("negate", ty, a, b, W, i) = Convert(ty, -a)
<1> DEFINE u == Unsigned(a, W)  v == Unsigned(b, W)  M == 2^ty.bits
<1>1. u \in Int /\ v \in Int /\ Cong(u, a, M) /\ Cong(v, b, M) BY CutWord
<1>2. M \in Nat \ {0} BY TypePowers
<1>3. /\ Arith("add", ty, a, b, W, i) = Convert(ty, Unsigned(u + v, W))
      /\ Arith("sub", ty, a, b, W, i) = Convert(ty, Unsigned(u - v, W))
      /\ Arith("mul", ty, a, b, W, i) = Convert(ty, Unsigned(u * v, W))
      /\ Arith("negate", ty, a, b, W, i) = Convert(ty, Unsigned(0 - u, W))
  BY DEF Arith
<1> HIDE DEF u, v, M
<1>4. u + v \in Int /\ u - v \in Int /\ u * v \in Int /\ 0 - u \in Int /\ a + b \in Int /\ a - b \in Int /\ a * b \in Int /\ -a \in Int
  BY <1>1
<1>5. /\ Convert(ty, Unsigned(u + v, W)) = Convert(ty, u + v)
      /\ Convert(ty, Unsigned(u - v, W)) = Convert(ty, u - v)
      /\ Convert(ty, Unsigned(u * v, W)) = Convert(ty, u * v)
      /\ Convert(ty, Unsigned(0 - u, W)) = Convert(ty, 0 - u)
  BY <1>4, CutWord
<1>6. Cong(u + v, a + b, M) /\ Cong(u - v, a - b, M) BY <1>1, <1>2, CongSum
<1>7. Cong(u * v, a * b, M) BY <1>1, <1>2, CongProduct
<1>8. Cong(0 - u, -a, M) BY <1>2, CongRest, <1>1, CongSum
<1>9. /\ Convert(ty, u + v) = Convert(ty, a + b) /\ Convert(ty, u - v) = Convert(ty, a - b)
      /\ Convert(ty, u * v) = Convert(ty, a * b) /\ Convert(ty, 0 - u) = Convert(ty, -a)
  BY <1>4, <1>6, <1>7, <1>8, CutSame DEF M
<1> QED BY <1>3, <1>5, <1>9

\* The runtime's quotient and remainder are those Meant chooses.
LEMMA EuclidIsMeant ==
  ASSUME NEW a \in Int, NEW b \in Int, b # 0
  PROVE  /\ EuclidQuotient(a, b) = CHOOSE q \in -Abs(a) - 1 .. Abs(a) + 1 : a - q * b \in 0 .. Abs(b) - 1
         /\ EuclidRemainder(a, b) = CHOOSE r \in 0 .. Abs(b) - 1 : (a - r) % Abs(b) = 0
         /\ EuclidQuotient(a, b) \in -Abs(a) - 1 .. Abs(a) + 1
         /\ \A p \in Int : a - p * b \in 0 .. Abs(b) - 1 => p = EuclidQuotient(a, b)
<1> DEFINE q == EuclidQuotient(a, b)  r == EuclidRemainder(a, b)  d == Abs(b)  s == Abs(a)
<1>1. q \in Int /\ r \in 0..d - 1 /\ a = b * q + r BY DivisionIsEuclidean
<1>2. d \in Nat \ {0} /\ s \in Nat /\ (d = b \/ d = -b) /\ (s = a \/ s = -a) BY DEF Abs
<1> HIDE DEF q, r, d, s
<1>3. a - q * b = r BY <1>1
<1>4. q \in -s - 1 .. s + 1
  <2>1. ~ q > s + 1
    <3> SUFFICES ASSUME q > s + 1 PROVE FALSE OBVIOUS
    <3>1. q - 1 >= 1 /\ q - 1 > s BY <1>1, <1>2
    <3>2. d * (q - 1) >= q - 1 BY <1>1, <1>2, <3>1
    <3>3. d * (q - 1) = d * q - d BY <1>1, <1>2
    <3>4. b * q = d * q \/ b * q = -(d * q) BY <1>1, <1>2
    <3>5. d * q >= s + d + 1 BY <1>1, <1>2, <3>1, <3>2, <3>3
    <3> QED BY <1>1, <1>2, <3>4, <3>5
  <2>2. ~ q < -s - 1
    <3> SUFFICES ASSUME q < -s - 1 PROVE FALSE OBVIOUS
    <3>1. -q - 1 >= 1 /\ -q - 1 > s BY <1>1, <1>2
    <3>2. d * (-q - 1) >= -q - 1 BY <1>1, <1>2, <3>1
    <3>3. d * (-q - 1) = -(d * q) - d BY <1>1, <1>2
    <3>4. b * q = d * q \/ b * q = -(d * q) BY <1>1, <1>2
    <3>5. -(d * q) >= s + d + 1 BY <1>1, <1>2, <3>1, <3>2, <3>3
    <3> QED BY <1>1, <1>2, <3>4, <3>5
  <2> QED BY <1>1, <1>2, <2>1, <2>2
<1>5. ASSUME NEW p \in Int, a - p * b \in 0 .. d - 1 PROVE p = q
  <2> DEFINE z == a - p * b
  <2>1. z \in 0..d - 1 /\ z \in Int BY <1>2, <1>5
  <2>2. b * (p - q) = r - z BY <1>1
  <2> HIDE DEF z
  <2>3. d * (p - q) = r - z \/ d * (p - q) = z - r BY <1>1, <1>2, <2>1, <2>2
  <2>4. ~ p - q >= 1
    <3> SUFFICES ASSUME p - q >= 1 PROVE FALSE OBVIOUS
    <3>1. d * (p - q) >= d BY <1>1, <1>2
    <3> QED BY <1>1, <1>2, <2>1, <2>3, <3>1
  <2>5. ~ p - q <= -1
    <3> SUFFICES ASSUME p - q <= -1 PROVE FALSE OBVIOUS
    <3>1. d * (p - q) <= -d BY <1>1, <1>2
    <3> QED BY <1>1, <1>2, <2>1, <2>3, <3>1
  <2> QED BY <1>1, <2>4, <2>5
<1>6. q = CHOOSE p \in -s - 1 .. s + 1 : a - p * b \in 0 .. d - 1 BY <1>2, <1>1, <1>3, <1>4, <1>5
<1>7. (a - r) % d = 0
  <2>1. a - r = d * q \/ a - r = d * (-q) BY <1>1, <1>2
  <2>2. a - r = d * q + 0 \/ a - r = d * (-q) + 0 BY <1>1, <1>2, <2>1
  <2>3. a - r \in Int /\ -q \in Int /\ 0 \in 0..d - 1 BY <1>1, <1>2
  <2> QED BY <1>1, <1>2, <2>2, <2>3, DividedOnly
<1>8. ASSUME NEW z \in 0..d - 1, (a - z) % d = 0 PROVE z = r
  <2>1. z \in Int /\ r \in Int BY <1>1, <1>2
  <2>2. Cong(a, z, d) /\ Cong(a, r, d) BY <1>2, <1>7, <1>8, <2>1, CongIs
  <2>3. Cong(z, a, d) BY <1>2, <2>1, <2>2, CongSelf
  <2>4. Cong(z, r, d) BY <1>2, <2>1, <2>2, <2>3, CongThen
  <2>5. z - r < d /\ r - z < d BY <1>1, <1>2
  <2> QED BY <1>2, <2>1, <2>4, <2>5, CongNear
<1>9. r = CHOOSE z \in 0..d - 1 : (a - z) % d = 0 BY <1>1, <1>7, <1>8
<1> QED BY <1>4, <1>5, <1>6, <1>9 DEF q, r, d, s

\* The divisor -1.
LEMMA MinusOne ==
  ASSUME NEW a \in Int
  PROVE  EuclidQuotient(a, -1) = -a /\ EuclidRemainder(a, -1) = 0
<1> DEFINE q == EuclidQuotient(a, -1)  r == EuclidRemainder(a, -1)
<1>1. q \in Int /\ r \in 0..Abs(-1) - 1 /\ a = (-1) * q + r BY DivisionIsEuclidean
<1>2. Abs(-1) = 1
  <2>1. \A x \in Int : x + 1 = 0 => Abs(x) = 1 BY DEF Abs
  <2>2. -1 \in Int /\ -1 + 1 = 0 OBVIOUS
  <2> QED BY <2>1, <2>2
<1> HIDE DEF q, r
<1>3. r = 0 BY <1>1, <1>2
<1>4. q = -a BY <1>1, <1>3
<1> QED BY <1>3, <1>4 DEF q, r

\* The members of a type; every one is an integer.
LEMMA MembersAre ==
  ASSUME NEW ty \in NumberTypes
  PROVE  /\ ty.signed => Members(ty) = -(2^(ty.bits - 1)) .. 2^(ty.bits - 1) - 1
         /\ ~ty.signed => Members(ty) = 0 .. 2^ty.bits - 1
         /\ 0 \in Members(ty)
         /\ \A x \in Members(ty) : x \in Int /\ Abs(x) \in Nat /\ (x < 0 => ty.signed /\ -1 \in Members(ty))
                                   /\ x < 2^ty.bits /\ -x <= 2^(ty.bits - 1)
                                   /\ \A y \in 0..Abs(x) - 1 : y \in Members(ty)
<1> DEFINE M == 2^ty.bits  H == 2^(ty.bits - 1)
<1>1. ty.signed \in BOOLEAN /\ M \in Nat \ {0} /\ H \in Nat \ {0} /\ M = 2 * H BY TypePowers
<1>2. (ty.signed => Members(ty) = -H .. H - 1) /\ (~ty.signed => Members(ty) = 0 .. M - 1)
  BY DEF Members
<1>3. \A x : (x < 0 => Abs(x) = -x) /\ (~ x < 0 => Abs(x) = x) BY DEF Abs
<1> HIDE DEF M, H
<1>4. 0 \in Members(ty) BY <1>1, <1>2
<1>5. ASSUME NEW x \in Members(ty)
      PROVE  /\ x \in Int /\ Abs(x) \in Nat /\ (x < 0 => ty.signed /\ -1 \in Members(ty))
             /\ x < M /\ -x <= H /\ \A y \in 0..Abs(x) - 1 : y \in Members(ty)
  <2>1. CASE ty.signed BY <1>2, <2>1, <1>1, <1>3
  <2>2. CASE ~ty.signed BY <1>2, <2>2, <1>1, <1>3
  <2> QED BY <1>1, <2>1, <2>2
<1> QED BY <1>2, <1>4, <1>5 DEF M, H

\* Division, with its cases for the least number and for the divisor -1.
LEMMA ExactDivision ==
  ASSUME NEW ty \in NumberTypes, NEW W \in Nat, ty.bits <= W,
         NEW a \in Members(ty), NEW b \in Members(ty), b # 0, NEW i
  PROVE  /\ Arith("div", ty, a, b, W, i) = Convert(ty, EuclidQuotient(a, b))
         /\ Arith("mod", ty, a, b, W, i) = Convert(ty, EuclidRemainder(a, b))
<1>1. a \in Int /\ b \in Int /\ Abs(b) \in Nat /\ \A y \in 0..Abs(b) - 1 : y \in Members(ty)
  BY MembersAre
<1>2. EuclidQuotient(a, b) \in Int /\ EuclidRemainder(a, b) \in 0..Abs(b) - 1
      /\ a = b * EuclidQuotient(a, b) + EuclidRemainder(a, b)
  BY <1>1, DivisionIsEuclidean
<1>3. Convert(ty, EuclidRemainder(a, b)) = EuclidRemainder(a, b) BY <1>1, <1>2, CutOnly
<1>4. CASE ty.signed
  <2>1. \A x : Convert(ty, x) = Signed(x, ty.bits) BY <1>4 DEF Convert
  <2>2. Arith("div", ty, a, b, W, i) = EDiv(a, b, ty.bits, i) /\ Arith("mod", ty, a, b, W, i) = EMod(a, b, ty.bits, W)
    BY <1>4 DEF Arith
  <2>3. EDiv(a, b, ty.bits, i) = Convert(ty, EuclidQuotient(a, b))
    <3>1. CASE b = -1 BY <1>1, <3>1, MinusOne, <2>1 DEF EDiv
    <3>2. CASE b # -1 BY <2>1, <3>2 DEF EDiv
    <3> QED BY <3>1, <3>2
  <2>4. EMod(a, b, ty.bits, W) = Convert(ty, EuclidRemainder(a, b))
    <3>1. CASE ty.bits < W BY <2>1, <3>1 DEF EMod
    <3>2. CASE ~ ty.bits < W /\ b = -1 BY <1>1, <1>3, <3>2, MinusOne DEF EMod
    <3>3. CASE ~ ty.bits < W /\ b # -1
      <4> DEFINE r == CRem(a, b)  d == Abs(b)
      <4>1. r \in Int BY <1>1, Truncates
      <4>2. EMod(a, b, ty.bits, W) = IF r >= 0 THEN r ELSE Signed(Unsigned(r, W) + Unsigned(d, W), W)
        BY <3>3 DEF EMod
      <4>3. EuclidRemainder(a, b) = IF r < 0 THEN r + d ELSE r BY DEF EuclidRemainder
      <4>4. ty.bits = W BY <3>3, TypePowers
      <4>5. Signed(Unsigned(r, W) + Unsigned(d, W), W) = Convert(ty, Unsigned(r, W) + Unsigned(d, W))
        BY <2>1, <4>4
      <4>6. d \in Int BY <1>1
      <4> HIDE DEF r, d
      <4>7. /\ Unsigned(r, W) \in Int /\ Unsigned(d, W) \in Int
            /\ Cong(Unsigned(r, W), r, 2^ty.bits) /\ Cong(Unsigned(d, W), d, 2^ty.bits) /\ 2^ty.bits \in Int
        <5>1. Unsigned(r, W) \in Int /\ Cong(Unsigned(r, W), r, 2^ty.bits) BY <4>1, CutWord
        <5>2. Unsigned(d, W) \in Int /\ Cong(Unsigned(d, W), d, 2^ty.bits) BY <4>6, CutWord
        <5>3. 2^ty.bits \in Int BY TypePowers
        <5> QED BY <5>1, <5>2, <5>3
      <4>8. Cong(Unsigned(r, W) + Unsigned(d, W), r + d, 2^ty.bits) BY <4>1, <4>6, <4>7, CongSum
      <4>9. Unsigned(r, W) + Unsigned(d, W) \in Int /\ r + d \in Int BY <4>1, <4>6, <4>7
      <4>10. Convert(ty, Unsigned(r, W) + Unsigned(d, W)) = Convert(ty, r + d)
        BY <4>8, <4>9, CutSame
      <4>11. CASE r >= 0 BY <4>1, <4>2, <4>3, <4>11, <1>3
      <4>12. CASE ~ r >= 0 BY <4>1, <4>2, <4>3, <4>12, <4>5, <4>10
      <4> QED BY <4>11, <4>12
    <3> QED BY <3>1, <3>2, <3>3
  <2> QED BY <2>2, <2>3, <2>4
<1>5. CASE ~ty.signed
  <2> DEFINE q == EuclidQuotient(a, b)  r == EuclidRemainder(a, b)
  <2>1. Arith("div", ty, a, b, W, i) = a \div b /\ Arith("mod", ty, a, b, W, i) = a % b
    BY <1>5 DEF Arith
  <2>2. a >= 0 /\ b > 0 /\ Abs(b) = b BY <1>1, <1>5, MembersAre DEF Abs
  <2>3. q \in Int /\ r \in 0..b - 1 /\ a = b * q + r /\ b \in Nat \ {0} BY <1>1, <1>2, <2>2
  <2> HIDE DEF q, r
  <2>4. q = a \div b /\ r = a % b BY <1>1, <2>3, DividedOnly
  <2>5. q >= 0 /\ q <= a
    <3>1. ~ q < 0
      <4> SUFFICES ASSUME q < 0 PROVE FALSE OBVIOUS
      <4>1. b * q <= -b BY <2>3
      <4> QED BY <1>1, <2>2, <2>3, <4>1
    <3>2. b * q >= q BY <2>3, <3>1
    <3> QED BY <1>1, <2>3, <3>1, <3>2
  <2>6. q \in Members(ty)
    <3>1. Members(ty) = 0 .. 2^ty.bits - 1 /\ 2^ty.bits \in Nat BY <1>5, MembersAre, TypePowers
    <3> DEFINE M == 2^ty.bits
    <3>2. Members(ty) = 0..M - 1 /\ M \in Nat /\ a \in Members(ty) BY <3>1
    <3> HIDE DEF M
    <3> QED BY <2>3, <2>5, <3>2
  <2>7. Convert(ty, q) = q BY <2>3, <2>6, CutOnly
  <2>8. Convert(ty, r) = r BY <1>3 DEF r
  <2> QED BY <2>1, <2>4, <2>7, <2>8 DEF q, r
<1> QED BY <1>4, <1>5

\* A count below the type's width is seen as itself; any other is past it.
LEMMA ShiftCount ==
  ASSUME NEW ty \in NumberTypes, NEW W \in Nat, ty.bits <= W, NEW b \in Members(ty), NEW count,
         count = IF b < 0 \/ b > 2 * W THEN 2 * W ELSE b
  PROVE  /\ count \in Nat /\ Unsigned(b, W) \in Nat
         /\ \/ Unsigned(b, W) < ty.bits /\ count = Unsigned(b, W)
            \/ ~ Unsigned(b, W) < ty.bits /\ count >= ty.bits
<1> DEFINE n == ty.bits  M == 2^n  H == 2^(n - 1)  V == 2^W  y == Unsigned(b, W)
<1>1. n \in Nat \ {0} /\ M \in Nat \ {0} /\ H \in Nat \ {0} /\ M = 2 * H BY TypePowers
<1>2. b \in Int /\ b < M /\ -b <= H BY MembersAre
<1>3. M <= V /\ V \in Nat \ {0} BY <1>1, Powers
<1>4. n - 1 < H BY <1>1, PowerMore
<1>5. y = b % V BY DEF Unsigned
<1> HIDE DEF n, M, H, V, y
<1>6. n <= W BY DEF n
<1>7. CASE b >= 0
  <2>1. b = V * 0 + b /\ b \in 0..V - 1 BY <1>1, <1>2, <1>3, <1>7
  <2>2. y = b BY <1>2, <1>3, <1>5, <2>1, DividedOnly
  <2>3. count \in Nat /\ y \in Nat /\ ((y < n /\ count = y) \/ (~ y < n /\ count >= n))
    BY <1>1, <1>2, <1>6, <1>7, <2>2
  <2> QED BY <2>3 DEF y, n
<1>8. CASE b < 0
  <2>1. b = V * (-1) + (b + V) /\ b + V \in 0..V - 1 BY <1>1, <1>2, <1>3, <1>8
  <2>2. y = b + V
    <3> DEFINE z == b + V
    <3>1. z \in 0..V - 1 /\ b = V * (-1) + z /\ -1 \in Int BY <2>1
    <3> HIDE DEF z
    <3>2. z = b % V BY <1>2, <1>3, <3>1, DividedOnly
    <3> QED BY <1>5, <3>2 DEF z
  <2>3. y \in Nat /\ y >= n BY <1>1, <1>2, <1>3, <1>4, <2>1, <2>2
  <2>4. count \in Nat /\ count >= n BY <1>1, <1>6, <1>8
  <2>5. count \in Nat /\ y \in Nat /\ ~ y < n /\ count >= n BY <1>1, <2>3, <2>4
  <2> QED BY <2>5 DEF y, n
<1> QED BY <1>2, <1>7, <1>8

\* A shift by a count below the width, or by any past it.
LEMMA ShiftsByCount ==
  ASSUME NEW ty \in NumberTypes, NEW W \in Nat, ty.bits <= W,
         NEW a \in Members(ty), NEW b, NEW i, NEW count \in Nat, Unsigned(b, W) \in Nat,
         \/ Unsigned(b, W) < ty.bits /\ count = Unsigned(b, W)
         \/ ~ Unsigned(b, W) < ty.bits /\ count >= ty.bits
  PROVE  /\ a * 2^count \in Int /\ a \div 2^count \in Int
         /\ Arith("shiftl", ty, a, b, W, i) = Convert(ty, a * 2^count)
         /\ Arith("shiftr", ty, a, b, W, i) = Convert(ty, a \div 2^count)
<1> DEFINE y == Unsigned(b, W)  n == ty.bits  M == 2^n  P == 2^count  u == Unsigned(a, W)
<1>1. count \in Nat /\ y \in Nat /\ ((y < n /\ count = y) \/ (~ y < n /\ count >= n)) OBVIOUS
<1>2. n \in Nat \ {0} /\ M \in Nat \ {0} /\ P \in Nat \ {0} BY <1>1, TypePowers, Powers
<1>3. a \in Int /\ (a < 0 => -1 \in Members(ty)) /\ 0 \in Members(ty) /\ a < M /\ -a <= M
  <2> DEFINE H == 2^(n - 1)
  <2>1. a \in Int /\ (a < 0 => -1 \in Members(ty)) /\ 0 \in Members(ty) /\ a < M /\ -a <= H /\ H \in Nat /\ M = 2 * H
    BY MembersAre, TypePowers
  <2> HIDE DEF H
  <2> QED BY <2>1
<1>4. a * P \in Int /\ a \div P \in Int
  <2> HIDE DEF P
  <2> QED BY <1>2, <1>3, Divided
<1>5. /\ Arith("shiftl", ty, a, b, W, i) = IF ~ y < n THEN 0 ELSE Convert(ty, Unsigned(u * 2^y, W))
      /\ Arith("shiftr", ty, a, b, W, i) = IF ~ y < n THEN (IF a < 0 THEN -1 ELSE 0) ELSE Convert(ty, a \div 2^y)
  BY <1>1, <1>2 DEF Arith, Shl, Shr
<1>6. u \in Int /\ Cong(u, a, M) BY <1>3, CutWord
<1>7. CASE y < n
  <2>1. count = y BY <1>1, <1>7
  <2>2. u * P \in Int BY <1>2, <1>6
  <2>3. Convert(ty, Unsigned(u * P, W)) = Convert(ty, u * P) BY <2>2, CutWord
  <2>4. Cong(u * P, a * P, M)
    <3> HIDE DEF u, P, M
    <3>1. u \in Int /\ a \in Int /\ P \in Int /\ M \in Int BY <1>2, <1>3, <1>6
    <3> QED BY <1>6, <3>1, CongTimes
  <2>5. Convert(ty, u * P) = Convert(ty, a * P) BY <1>4, <2>2, <2>4, CutSame
  <2> QED BY <1>1, <1>4, <1>5, <1>7, <2>1, <2>3, <2>5
<1>8. CASE ~ y < n
  <2>1. count >= n BY <1>1, <1>8
  <2>2. P = M * 2^(count - n) /\ 2^(count - n) \in Nat \ {0} /\ M <= P BY <1>1, <1>2, <2>1, Powers
  <2>3. Convert(ty, a * P) = 0
    <3> DEFINE c == 2^(count - n)
    <3>1. P = M * c /\ c \in Nat BY <2>2
    <3> HIDE DEF P, M, c
    <3>2. a * P = M * (a * c) /\ a * c \in Int BY <1>2, <1>3, <3>1
    <3>3. Cong(a * P, 0, M) BY <1>2, <3>2, CongMany
    <3>4. Convert(ty, a * P) = Convert(ty, 0) BY <1>4, <3>3, CutSame DEF M
    <3> QED BY <1>3, <3>4, CutOnly
  <2>4. a \div P = IF a < 0 THEN -1 ELSE 0
    <3> HIDE DEF P, M
    <3>1. CASE a < 0 BY <1>2, <1>3, <2>2, <3>1, DividedOnly
    <3>2. CASE ~ a < 0 BY <1>2, <1>3, <2>2, <3>2, DividedOnly
    <3> QED BY <3>1, <3>2
  <2>5. Convert(ty, a \div P) = a \div P BY <1>3, <2>4, <1>4, CutOnly
  <2> QED BY <1>1, <1>4, <1>5, <1>8, <2>3, <2>4, <2>5
<1> QED BY <1>1, <1>7, <1>8

\* Shifts, also past the width.
LEMMA ExactShifts ==
  ASSUME NEW ty \in NumberTypes, NEW W \in Nat, ty.bits <= W,
         NEW a \in Members(ty), NEW b \in Members(ty), NEW i, NEW count,
         count = IF b < 0 \/ b > 2 * W THEN 2 * W ELSE b
  PROVE  /\ count \in Nat /\ a * 2^count \in Int /\ a \div 2^count \in Int
         /\ Arith("shiftl", ty, a, b, W, i) = Convert(ty, a * 2^count)
         /\ Arith("shiftr", ty, a, b, W, i) = Convert(ty, a \div 2^count)
<1>1. /\ count \in Nat /\ Unsigned(b, W) \in Nat
      /\ \/ Unsigned(b, W) < ty.bits /\ count = Unsigned(b, W)
         \/ ~ Unsigned(b, W) < ty.bits /\ count >= ty.bits
  BY ShiftCount
<1> QED BY <1>1, ShiftsByCount

\* The boxed operators of every type that fits in a word are the arithmetic of
\* the integers cut to the type: at every width, at the least number, for the
\* divisor -1 and for counts past the width (idris2rc2_numeric.h).
THEOREM ArithmeticIsExact ==
  ASSUME NEW ty \in NumberTypes, NEW W \in Nat, ty.bits <= W, NEW intBits,
         NEW a \in Members(ty), NEW b \in Members(ty)
  PROVE  ArithmeticExact(ty, a, b, W, intBits)
<1>1. a \in Int /\ b \in Int BY MembersAre
<1>2. a + b \in Int /\ a - b \in Int /\ a * b \in Int /\ -a \in Int BY <1>1
<1> DEFINE count == IF b < 0 \/ b > 2 * W THEN 2 * W ELSE b
           q == CHOOSE q \in -Abs(a) - 1 .. Abs(a) + 1 : a - q * b \in 0 .. Abs(b) - 1
           r == CHOOSE r \in 0 .. Abs(b) - 1 : (a - r) % Abs(b) = 0
<1>3. /\ Meant("add", ty, a, b, W) = Congruent(ty, a + b)
      /\ Meant("sub", ty, a, b, W) = Congruent(ty, a - b)
      /\ Meant("mul", ty, a, b, W) = Congruent(ty, a * b)
      /\ Meant("negate", ty, a, b, W) = Congruent(ty, -a)
  BY DEF Meant
<1>4. Meant("div", ty, a, b, W) = Congruent(ty, q) BY DEF Meant
<1>5. Meant("mod", ty, a, b, W) = Congruent(ty, r) BY DEF Meant
<1>6. Meant("shiftl", ty, a, b, W) = Congruent(ty, a * 2^count) BY DEF Meant
<1>7. Meant("shiftr", ty, a, b, W) = Congruent(ty, a \div 2^count) BY DEF Meant
<1>8. \A op \in {"add", "sub", "mul", "negate"} : Arith(op, ty, a, b, W, intBits) = Meant(op, ty, a, b, W)
  BY <1>1, <1>2, <1>3, ExactSums, CutOnly
<1>9. ASSUME b # 0 PROVE \A op \in {"div", "mod"} : Arith(op, ty, a, b, W, intBits) = Meant(op, ty, a, b, W)
  <2>1. EuclidQuotient(a, b) = q /\ EuclidRemainder(a, b) = r BY <1>1, <1>9, EuclidIsMeant
  <2>2. EuclidQuotient(a, b) \in Int /\ EuclidRemainder(a, b) \in 0..Abs(b) - 1 /\ Abs(b) \in Int
    BY <1>1, <1>9, DivisionIsEuclidean, MembersAre
  <2>3. EuclidRemainder(a, b) \in Int BY <2>2
  <2>4. Arith("div", ty, a, b, W, intBits) = Convert(ty, EuclidQuotient(a, b))
        /\ Arith("mod", ty, a, b, W, intBits) = Convert(ty, EuclidRemainder(a, b))
    BY <1>9, ExactDivision
  <2>5. Convert(ty, EuclidQuotient(a, b)) = Congruent(ty, EuclidQuotient(a, b))
        /\ Convert(ty, EuclidRemainder(a, b)) = Congruent(ty, EuclidRemainder(a, b))
    BY <2>2, <2>3, CutOnly
  <2> HIDE DEF q, r
  <2> QED BY <1>4, <1>5, <2>1, <2>4, <2>5
<1>10. \A op \in {"shiftl", "shiftr"} : Arith(op, ty, a, b, W, intBits) = Meant(op, ty, a, b, W)
  <2> HIDE DEF q, r
  <2>1. count = IF b < 0 \/ b > 2 * W THEN 2 * W ELSE b OBVIOUS
  <2> HIDE DEF count
  <2>2. /\ a * 2^count \in Int /\ a \div 2^count \in Int
        /\ Arith("shiftl", ty, a, b, W, intBits) = Convert(ty, a * 2^count)
        /\ Arith("shiftr", ty, a, b, W, intBits) = Convert(ty, a \div 2^count)
    BY <2>1, ExactShifts
  <2> QED BY <1>6, <1>7, <2>2, CutOnly
<1> HIDE DEF q, r, count
<1> QED BY <1>8, <1>9, <1>10 DEF ArithmeticExact, ArithOps

(***************************************************************************)
(* Immediates and casts.                                                   *)
(***************************************************************************)

\* A type of at most half a word, in the upper half.
LEMMA SmallImmediate ==
  ASSUME NEW ty \in NumberTypes, NEW W \in Nat, 2 * ty.bits <= W, NEW a \in Members(ty)
  PROVE  /\ IsUnboxed(Pack(ty, a, W)) /\ Pack(ty, a, W) < 2^W
         /\ Unpack(ty, Pack(ty, a, W), W) = a
<1> DEFINE n == ty.bits  h == W \div 2  M == 2^n  K == 2^h  J == 2^(h - 1)  V == 2^W  u == Unsigned(a, n)
<1>1. n \in Nat \ {0} /\ h \in Nat \ {0} /\ n <= h /\ 2 * h <= W
  <2>1. n \in Nat \ {0} BY TypePowers
  <2>2. h \in Int /\ W % 2 \in 0..1 /\ W = 2 * h + (W % 2) BY Divided
  <2> HIDE DEF h, n
  <2>3. 2 * n <= W BY DEF n
  <2> QED BY <2>1, <2>2, <2>3
<1>2. M \in Nat \ {0} /\ K \in Nat \ {0} /\ J \in Nat \ {0} /\ K = 2 * J /\ M <= K BY <1>1, Powers
<1>3. K * K <= V /\ V \in Nat BY <1>1, PowerSum, Powers
<1>4. a \in Int BY MembersAre
<1>5. u \in 0..M - 1 /\ Cong(u, a, M)
  <2>1. u = a % M BY DEF Unsigned
  <2> HIDE DEF u, M
  <2>2. a % M \in 0..M - 1 /\ Cong(a, a % M, M) BY <1>2, <1>4, Divided, CongRest
  <2>3. a % M \in Int BY <1>2, <2>2
  <2> QED BY <1>2, <1>4, <2>1, <2>2, <2>3, CongSelf
<1>6. Pack(ty, a, W) = u * K + 1 BY DEF Pack
<1>7. IsUnboxed(Pack(ty, a, W)) <=> (u * K + 1) % 2 = 1 BY <1>6 DEF IsUnboxed
<1>8. Unpack(ty, Pack(ty, a, W), W) = Convert(ty, (u * K + 1) \div K) BY <1>6 DEF Unpack
<1>9. Convert(ty, u) = a BY <1>2, <1>5, <1>4, CutSame, CutOnly
<1> HIDE DEF n, h, M, K, J, V, u
<1>10. (u * K + 1) % 2 = 1 BY <1>2, <1>5, DividedOnly
<1>11. (u * K + 1) \div K = u BY <1>2, <1>5, DividedOnly
<1>12. u * K + 1 < V BY <1>2, <1>5, <1>3
<1> QED BY <1>6, <1>7, <1>8, <1>9, <1>10, <1>11, <1>12 DEF V

\* A type as wide as the word, shifted by one.
LEMMA WideImmediate ==
  ASSUME NEW ty \in NumberTypes, NEW W \in Nat, W >= 2, ty.bits = W, NEW a \in Members(ty), FitsImm(ty, a, W)
  PROVE  /\ IsUnboxed(ImmWord(a, W)) /\ ImmWord(a, W) < 2^W
         /\ ty.signed => Signed(ImmWord(a, W), W) = 2 * a + 1 /\ ImmSigned(ImmWord(a, W), W) = a
         /\ ~ty.signed => ImmUnsigned(ImmWord(a, W)) = a
<1> DEFINE V == 2^W  H == 2^(W - 1)  Q == 2^(W - 2)  e == a % H  w == ImmWord(a, W)  u == Unsigned(a, W)
<1>1. V \in Nat \ {0} /\ H \in Nat \ {0} /\ Q \in Nat \ {0} /\ V = 2 * H /\ H = 2 * Q BY Powers
<1>2. a \in Int BY MembersAre
<1>3. u \in Int /\ Cong(u, a, V) BY <1>2, CutWord
<1>4. w = ((u * 2) % V) + 1 BY DEF ImmWord, Unsigned
<1>5. /\ ty.signed => -Q <= a /\ a < Q
      /\ ~ty.signed => 0 <= a /\ a < H
  <2>1. CASE ty.signed BY <2>1 DEF FitsImm
  <2>2. CASE ~ty.signed BY <1>2, <2>2, MembersAre DEF FitsImm
  <2> QED BY <2>1, <2>2
<1>6. /\ Signed(w, W) = IF w % V < H THEN w % V ELSE (w % V) - V
      /\ ImmSigned(w, W) = Signed(w, W) \div 2 /\ ImmUnsigned(w) = w \div 2
      /\ IsUnboxed(w) <=> w % 2 = 1
  BY DEF Signed, ImmSigned, ImmUnsigned, IsUnboxed
<1> HIDE DEF V, H, Q, w, u
<1>7. e \in 0..H - 1 /\ a = H * (a \div H) + e /\ a \div H \in Int BY <1>1, <1>2, Divided
<1> HIDE DEF e
<1>8. (u * 2) % V = 2 * e
  <2>1. Cong(u * 2, a * 2, V) BY <1>1, <1>2, <1>3, CongTimes
  <2> DEFINE k == a \div H
  <2>2. k \in Int /\ a = H * k + e BY <1>7
  <2> HIDE DEF k
  <2>3. a * 2 = V * k + 2 * e BY <1>1, <2>2, <1>2, <1>7
  <2>4. 2 * e \in 0..V - 1 /\ 2 * e \in Int /\ u * 2 \in Int /\ a * 2 \in Int
    BY <1>1, <1>2, <1>3, <1>7
  <2>5. PICK l \in Int : u * 2 - a * 2 = V * l BY <2>1 DEF Cong
  <2>6. V * (k + l) = V * k + V * l /\ V * k \in Int /\ V * l \in Int /\ k + l \in Int BY <1>1, <2>2
  <2>7. u * 2 = V * (k + l) + 2 * e BY <2>3, <2>4, <2>5, <2>6
  <2> DEFINE x == u * 2  r == 2 * e  j == k + l
  <2>8. x \in Int /\ r \in 0..V - 1 /\ j \in Int /\ x = V * j + r BY <2>4, <2>6, <2>7
  <2> HIDE DEF x, r, j
  <2>9. r = x % V BY <1>1, <2>8, DividedOnly
  <2> QED BY <2>9 DEF x, r
<1>9. w = 2 * e + 1 /\ w \in 0..V - 1 BY <1>1, <1>4, <1>7, <1>8
<1>10. w % 2 = 1 /\ w \div 2 = e BY <1>1, <1>7, <1>9, DividedOnly
<1>11. w % V = w BY <1>1, <1>9, DividedOnly
<1>12. a \in 0..H - 1 => e = a
  <2> SUFFICES ASSUME a \in 0..H - 1 PROVE e = a OBVIOUS
  <2>1. a = H * 0 + a /\ 0 \in Int BY <1>1, <1>2
  <2> QED BY <1>1, <1>2, <2>1, DividedOnly DEF e
<1>13. a \in -H..-1 => e = a + H
  <2> SUFFICES ASSUME a \in -H..-1 PROVE e = a + H OBVIOUS
  <2> DEFINE z == a + H
  <2>1. a = H * (-1) + z /\ -1 \in Int /\ z \in 0..H - 1 BY <1>1, <1>2
  <2> HIDE DEF z
  <2>2. z = a % H BY <1>1, <1>2, <2>1, DividedOnly
  <2> QED BY <2>2 DEF e, z
<1>14. ASSUME ty.signed PROVE Signed(w, W) = 2 * a + 1
  <2>1. -Q <= a /\ a < Q BY <1>5, <1>14
  <2>2. CASE a >= 0 BY <1>1, <1>2, <1>12, <2>1, <2>2, <1>9, <1>6, <1>11
  <2>3. CASE a < 0
    <3>1. e = a + H BY <1>1, <1>2, <1>13, <2>1, <2>3
    <3>2. ~ w < H BY <1>1, <1>2, <1>9, <2>1, <3>1
    <3>3. w - V = 2 * a + 1 BY <1>1, <1>2, <1>9, <3>1
    <3> QED BY <1>6, <1>11, <3>2, <3>3
  <2> QED BY <1>2, <2>2, <2>3
<1>15. (2 * a + 1) \div 2 = a BY <1>2, DividedOnly
<1>16. ASSUME ~ty.signed PROVE e = a BY <1>1, <1>2, <1>5, <1>12, <1>16
<1>17. w < V BY <1>1, <1>9
<1> QED BY <1>6, <1>10, <1>14, <1>15, <1>16, <1>17 DEF w, V

\* An immediate holds the number packed into it, of a type of at most half a
\* word or of one as wide as the word, where it fits; its tag bit is set; and
\* words compare as their numbers do (idris2rc2_memory.h, idris2rc2_numeric.h).
THEOREM ImmediatesHoldNumbers ==
  ASSUME NEW ty \in NumberTypes, NEW W \in Nat, W >= 2, NEW a \in Members(ty), NEW b \in Members(ty)
  PROVE  ImmediatesFaithful(ty, a, b, W)
<1>1. ASSUME 2 * ty.bits <= W
      PROVE  /\ IsUnboxed(Pack(ty, a, W)) /\ Pack(ty, a, W) < 2^W
             /\ Unpack(ty, Pack(ty, a, W), W) = a
             /\ (Pack(ty, a, W) = Pack(ty, b, W)) <=> (a = b)
  BY <1>1, SmallImmediate
<1>2. ASSUME ty.bits = W, FitsImm(ty, a, W)
      PROVE  /\ IsUnboxed(ImmWord(a, W)) /\ ImmWord(a, W) < 2^W
             /\ (IF ty.signed THEN ImmSigned(ImmWord(a, W), W) ELSE ImmUnsigned(ImmWord(a, W))) = a
             /\ ty.signed /\ FitsImm(ty, b, W) =>
                  ((Signed(ImmWord(a, W), W) < Signed(ImmWord(b, W), W)) <=> (a < b))
  <2>1. /\ IsUnboxed(ImmWord(a, W)) /\ ImmWord(a, W) < 2^W
        /\ ty.signed => Signed(ImmWord(a, W), W) = 2 * a + 1 /\ ImmSigned(ImmWord(a, W), W) = a
        /\ ~ty.signed => ImmUnsigned(ImmWord(a, W)) = a
    BY <1>2, WideImmediate
  <2>2. ASSUME ty.signed, FitsImm(ty, b, W)
        PROVE  (Signed(ImmWord(a, W), W) < Signed(ImmWord(b, W), W)) <=> (a < b)
    BY <1>2, <2>2, WideImmediate, MembersAre, <2>1
  <2> QED BY <2>1, <2>2
<1> QED BY <1>1, <1>2 DEF ImmediatesFaithful

\* A Double's integer part, reduced modulo the word (idris2rc2_double_to_wrapped).
LEMMA WrappedIs ==
  ASSUME NEW to \in NumberTypes, NEW W \in Nat, to.bits <= W, NEW halves \in Int
  PROVE  /\ Trunc(halves) = Sgn(halves) * (Abs(halves) \div 2) /\ Trunc(halves) \in Int
         /\ CastDouble(to, TRUE, halves, W) = Convert(to, Trunc(halves))
<1> DEFINE d == Trunc(halves)  V == 2^W  m == CRem(d, V)  x == DoubleToWrapped(TRUE, halves, W)  c == CDiv(d, V)
           u == Unsigned(d, W)
<1>1. d \in Int BY Truncates DEF Trunc
<1>2. d = Sgn(halves) * (Abs(halves) \div 2) BY DEF Sgn, Abs, Trunc, CDiv
<1>3. V \in Nat \ {0} BY Powers
<1>4. c \in Int /\ m = d - V * c
  <2> HIDE DEF d, V
  <2>1. V # 0 /\ V \in Int BY <1>3
  <2> QED BY <1>1, <2>1, Truncates DEF CRem
<1>5. x = (IF d > -(2^(W - 1)) /\ d < 2^(W - 1) THEN u ELSE IF m < 0 THEN m + V ELSE m)
  BY DEF DoubleToWrapped
<1>6. x = u \/ x = m + V \/ x = m BY <1>5
<1>7. u \in Int /\ Cong(u, d, V) /\ Cong(u, d, 2^to.bits)
  <2> HIDE DEF d
  <2> QED BY <1>1, CutWord
<1> HIDE DEF d, V, m, x, c, u
<1>8. V = 2^to.bits * 2^(W - to.bits) /\ 2^to.bits \in Int /\ 2^(W - to.bits) \in Int
  <2>1. to.bits \in Nat BY TypePowers
  <2> QED BY <2>1, Powers DEF V
<1>9. x \in Int /\ Cong(x, d, V)
  <2>1. m \in Int /\ m + V \in Int BY <1>1, <1>3, <1>4
  <2>2. Cong(m, d, V)
    <3>1. V \in Int /\ c \in Int /\ d \in Int BY <1>1, <1>3, <1>4
    <3>2. Cong(d - V * c, d, V) BY <3>1, CongMany
    <3> QED BY <1>4, <3>2
  <2>3. Cong(m + V, d, V)
    <3>1. m + V = d - V * (c - 1) /\ c - 1 \in Int /\ V \in Int /\ d \in Int BY <1>1, <1>3, <1>4
    <3>2. Cong(d - V * (c - 1), d, V) BY <3>1, CongMany
    <3> QED BY <3>1, <3>2
  <2> QED BY <1>6, <1>7, <2>1, <2>2, <2>3
<1>10. Cong(x, d, 2^to.bits) BY <1>8, <1>9, <1>1, CongCoarse
<1>11. Convert(to, x) = Convert(to, d) BY <1>1, <1>9, <1>10, CutSame
<1>12. CastDouble(to, TRUE, halves, W) = Convert(to, x) BY DEF CastDouble, x
<1> QED BY <1>1, <1>2, <1>11, <1>12 DEF d

\* A cast keeps the number modulo the width of the target, and of a Double its
\* integer part; what is not finite becomes 0 (idris2rc2_numeric.h).
THEOREM CastsKeepNumbers ==
  ASSUME NEW from \in NumberTypes, NEW to \in NumberTypes, NEW W \in Nat, to.bits <= W,
         NEW n \in Members(from), NEW halves \in Int
  PROVE  CastsAgree(from, to, n, halves, W)
<1>1. n \in Int /\ Convert(from, n) = n BY MembersAre, CutOnly
<1>2. CastNum(from, to, n) = Congruent(to, n) BY <1>1, CutOnly DEF CastNum
<1>3. CastDouble(to, TRUE, halves, W) = Congruent(to, Sgn(halves) * (Abs(halves) \div 2))
  <2>1. Congruent(to, Trunc(halves)) = Convert(to, Trunc(halves)) BY WrappedIs, CutOnly
  <2> QED BY <2>1, WrappedIs
<1>4. CastDouble(to, FALSE, halves, W) = 0 BY MembersAre, CutOnly DEF CastDouble, DoubleToWrapped
<1> QED BY <1>2, <1>3, <1>4 DEF CastsAgree

\* A cast of a word makes a Char of scalar values only, and keeps those
\* (idris2rc2_charFromCodepoint).
THEOREM CastsMakeScalars ==
  ASSUME NEW W \in Nat, W >= 22, NEW n \in Int
  PROVE  MakesScalars(n, W)
<1>1. 2^21 = 2097152 BY SMT
<1>2. 2^21 <= 2^(W - 1) /\ 2^(W - 1) \in Nat BY Powers
<1> DEFINE H == 2^(W - 1)  s == Type(TRUE, W)
<1>3. 2097152 <= H /\ H \in Nat BY <1>1, <1>2, SMT
<1>4. s \in NumberTypes /\ s.bits = W /\ s.signed = TRUE BY DEF Type, NumberTypes
<1>5. \A x \in Int : 0 <= x /\ x <= 1114111 => x \in Members(s)
  <2>1. Members(s) = -H .. H - 1 BY <1>4 DEF Members
  <2> HIDE DEF H, s
  <2> QED BY <1>3, <2>1, SMT
<1>6. \A x : Signed(x, W) = Convert(s, x) BY <1>4 DEF Convert
<1> SUFFICES ASSUME NEW ty \in {Type(TRUE, W), Type(FALSE, W)}
             PROVE  IsScalar(CastToChar(ty, n, W)) /\ (IsScalar(n) => CastToChar(ty, n, W) = n)
  BY DEF MakesScalars
<1>7. ty \in NumberTypes /\ ty.bits = W
  <2>1. \A g \in BOOLEAN : Type(g, W) \in NumberTypes /\ Type(g, W).bits = W
    BY DEF Type, NumberTypes
  <2> QED BY <2>1
<1> DEFINE c == Convert(ty, n)  z == Signed(c, W)
<1>8. c \in Int /\ Cong(n, c, 2^W) BY <1>7, CutTo
<1>9. z = Convert(s, c) /\ z \in Int
  <2> HIDE DEF c, s
  <2> QED BY <1>4, <1>6, <1>8, CutTo
<1>10. z = Convert(s, n)
  <2> HIDE DEF c, s
  <2>1. 2^W \in Int BY <1>4, TypePowers
  <2>2. Cong(c, n, 2^s.bits) BY <1>4, <1>8, <2>1, CongSelf
  <2> QED BY <1>4, <1>8, <1>9, <2>2, CutSame
<1>11. CastToChar(ty, n, W) = CharFromCodepoint(z) BY DEF CastToChar
<1>12. IsScalar(n) => z = n
  <2> HIDE DEF z, s
  <2> SUFFICES ASSUME IsScalar(n) PROVE z = n OBVIOUS
  <2>1. 0 <= n /\ n <= 1114111 BY SMT DEF IsScalar
  <2>2. n \in Members(s) BY <1>5, <2>1, SMT
  <2> QED BY <1>4, <1>10, <2>2, CutOnly
<1> HIDE DEF z, c, s, H
<1>13. IsScalar(CharFromCodepoint(z)) /\ (IsScalar(z) => CharFromCodepoint(z) = z)
  BY <1>9, SMT DEF IsScalar, CharFromCodepoint
<1> QED BY <1>11, <1>12, <1>13

\* WordsExact holds of whatever numbers of whatever types that fit in a word a
\* behaviour looks at, on a machine of any width.
THEOREM WordsAlwaysExact ==
  ASSUME IsNumberInput(input), IsCharInput(input)
  PROVE  WordsExact
<1>1. \A ty \in MachineTypes : ty \in NumberTypes /\ ty.bits <= MachineBits
  BY WidthAssumption DEF MachineTypes, NumberTypes, Type
<1>2. ASSUME input.about = "word"
      PROVE  /\ ArithmeticExact(input.type, input.a, input.b, MachineBits, MachineInt)
             /\ ImmediatesFaithful(input.type, input.a, input.b, MachineBits)
             /\ \A to \in MachineTypes :
                  CastsAgree(input.type, to, input.a, 5 * input.a + input.b, MachineBits)
  <2> DEFINE ty == input.type  a == input.a  b == input.b
  <2>1. ty \in MachineTypes /\ a \in Members(ty) /\ b \in Members(ty) BY <1>2 DEF IsNumberInput
  <2> HIDE DEF ty, a, b
  <2>2. ty \in NumberTypes /\ ty.bits <= MachineBits /\ MachineBits \in Nat /\ MachineBits >= 2
    BY <1>1, <2>1, WidthAssumption
  <2>3. ArithmeticExact(ty, a, b, MachineBits, MachineInt) BY <2>1, <2>2, ArithmeticIsExact
  <2>4. ImmediatesFaithful(ty, a, b, MachineBits) BY <2>1, <2>2, ImmediatesHoldNumbers
  <2>5. 5 * a + b \in Int BY <2>1, <2>2, MembersAre
  <2>6. ASSUME NEW to \in MachineTypes PROVE CastsAgree(ty, to, a, 5 * a + b, MachineBits)
    BY <1>1, <2>1, <2>2, <2>5, CastsKeepNumbers
  <2> QED BY <2>3, <2>4, <2>6 DEF ty, a, b
<1>3. ASSUME input.about = "codepoint" PROVE MakesScalars(input.n, CharBits)
  BY <1>3, WidthAssumption, CastsMakeScalars DEF IsCharInput
<1> QED BY <1>2, <1>3 DEF WordsExact

(***************************************************************************)
(* Numbers: boxed arithmetic.  First the bitwise operators, which work     *)
(* from the upper bit down: f[i] is right of the upper bits.               *)
(***************************************************************************)

\* Induction on the natural numbers, for a set of them.
LEMMA AllNaturals ==
  ASSUME NEW S, 0 \in S, \A n \in Nat : n \in S => n + 1 \in S
  PROVE  Nat \subseteq S
<1> DEFINE R == OpToRel(<, Nat)  T == Nat \ S
<1>1. IsWellFoundedOn(R, Nat) BY NatLessThanWellFounded
<1>2. \A x, y \in Nat : x < y => <<x, y>> \in R BY DEF OpToRel
<1> SUFFICES ASSUME T # {} PROVE FALSE OBVIOUS
<1> HIDE DEF R
<1>3. PICK x \in T : \A y \in T : <<y, x>> \notin R
  <2>1. T \subseteq Nat OBVIOUS
  <2> HIDE DEF T
  <2> QED BY <1>1, <2>1, WFMin
<1>4. x # 0 /\ x - 1 \in Nat /\ x - 1 < x /\ x - 1 + 1 = x OBVIOUS
<1>5. x - 1 \in S BY <1>2, <1>3, <1>4
<1> QED BY <1>3, <1>4, <1>5

\* A function that multiplies what it had by e and adds a digit exists.
Scaled(f, n, z, e, d) ==
  f \in [0..n -> Int] /\ \A i \in 0..n : f[i] = IF i = 0 THEN z ELSE d[i] + e * f[i - 1]

LEMMA Scaling ==
  ASSUME NEW n \in Nat, NEW z \in Int, NEW e \in Int, NEW d \in [1..n -> Int]
  PROVE  \E f : Scaled(f, n, z, e, d)
<1> DEFINE Is(f, m) == /\ f \in [0..m -> Int]
                       /\ \A i \in 0..m : f[i] = IF i = 0 THEN z ELSE d[i] + e * f[i - 1]
           S == {m \in Nat : m > n \/ \E f : Is(f, m)}
<1>1. 0 \in S
  <2> DEFINE f == [i \in 0..0 |-> z]
  <2>1. Is(f, 0) OBVIOUS
  <2> QED BY <2>1
<1>2. ASSUME NEW m \in Nat, m \in S PROVE m + 1 \in S
  <2>1. CASE m + 1 > n BY <2>1
  <2>2. CASE m + 1 <= n
    <3>1. PICK f : Is(f, m)
      <4> HIDE DEF Is
      <4>1. m > n \/ \E f : Is(f, m) BY <1>2
      <4> QED BY <2>2, <4>1
    <3> DEFINE g == [i \in 0..m + 1 |-> IF i = m + 1 THEN d[m + 1] + e * f[m] ELSE f[i]]
    <3>2. d[m + 1] \in Int /\ f[m] \in Int BY <2>2, <3>1
    <3>3. g \in [0..m + 1 -> Int] BY <3>1, <3>2
    <3>4. ASSUME NEW i \in 0..m + 1 PROVE g[i] = IF i = 0 THEN z ELSE d[i] + e * g[i - 1]
      <4>1. CASE i = m + 1 BY <4>1
      <4>2. CASE i # m + 1 BY <4>2, <3>1
      <4> QED BY <4>1, <4>2
    <3>5. Is(g, m + 1) BY <3>3, <3>4
    <3> HIDE DEF g, Is
    <3>6. \E h : Is(h, m + 1) BY <3>5
    <3> QED BY <3>6
  <2>3. m + 1 > n \/ m + 1 <= n OBVIOUS
  <2> HIDE DEF S
  <2> QED BY <2>1, <2>2, <2>3
<1>3. n \in S
  <2> HIDE DEF S
  <2> QED BY <1>1, <1>2, AllNaturals
<1>4. \E f : Is(f, n)
  <2> HIDE DEF Is
  <2>1. n > n \/ \E f : Is(f, n) BY <1>3
  <2> QED BY <2>1
<1>5. PICK f : Is(f, n) BY <1>4
<1>6. Scaled(f, n, z, e, d) BY <1>5 DEF Scaled
<1> QED BY <1>6

\* Bits of a number: the last one, and those of its half.
LEMMA BitsAre ==
  ASSUME NEW x \in Int
  PROVE  /\ x \div 2 \in Int /\ x % 2 \in {0, 1} /\ x = 2 * (x \div 2) + (x % 2)
         /\ Bit(x, 0) = x % 2
         /\ \A k \in Nat : /\ x \div 2^k \in Int /\ Bit(x, k) \in {0, 1}
                           /\ x \div 2^(k + 1) = (x \div 2^k) \div 2
                           /\ x \div 2^(k + 1) = (x \div 2) \div 2^k
                           /\ Bit(x, k + 1) = Bit(x \div 2, k)
<1>1. 2^0 = 1 /\ x \div 1 = x
  <2>1. 2^0 = 1 BY SMT
  <2>2. x = 1 * x + 0 /\ 0 \in 0..1 - 1 /\ 1 \in Nat \ {0} OBVIOUS
  <2> QED BY <2>1, <2>2, DividedOnly
<1>2. x \div 2 \in Int /\ x % 2 \in 0..1 /\ x = 2 * (x \div 2) + (x % 2) BY SMT
<1>3. ASSUME NEW k \in Nat
      PROVE  /\ x \div 2^k \in Int /\ Bit(x, k) \in {0, 1}
             /\ x \div 2^(k + 1) = (x \div 2^k) \div 2
             /\ x \div 2^(k + 1) = (x \div 2) \div 2^k
             /\ Bit(x, k + 1) = Bit(x \div 2, k)
  <2> DEFINE P == 2^k  q == x \div P  r == x % P  h == x \div 2
  <2>1. P \in Nat \ {0} /\ 2^(k + 1) = 2 * P BY Powers
  <2> HIDE DEF P
  <2>2. q \in Int /\ r \in 0..P - 1 /\ x = P * q + r BY <2>1, Divided
  <2> DEFINE qq == q \div 2  qr == q % 2  hq == h \div P  hr == h % P
  <2>3. qq \in Int /\ qr \in 0..1 /\ q = 2 * qq + qr
    <3> HIDE DEF q
    <3> QED BY <2>2, SMT
  <2>4. hq \in Int /\ hr \in 0..P - 1 /\ h = P * hq + hr
    <3> HIDE DEF h
    <3> QED BY <1>2, <2>1, Divided DEF h
  <2> HIDE DEF q, r, qq, qr, hq, hr
  <2>5. x = (2 * P) * qq + (P * qr + r) /\ P * qr + r \in 0..2 * P - 1 BY <2>1, <2>2, <2>3
  <2>6. x = (2 * P) * hq + (2 * hr + (x % 2)) /\ 2 * hr + (x % 2) \in 0..2 * P - 1
    BY <1>2, <2>1, <2>4
  <2>7. 2 * P \in Nat \ {0} BY <2>1
  <2>8. qq = x \div (2 * P) BY <2>2, <2>3, <2>1, <2>5, <2>7, DividedOnly
  <2>9. hq = x \div (2 * P) BY <1>2, <2>1, <2>4, <2>6, <2>7, DividedOnly
  <2>10. Bit(x, k) = qr /\ Bit(x, k + 1) = (x \div (2 * P)) % 2 /\ Bit(h, k) = hq % 2
    BY <2>1 DEF Bit, P, q, qr, hq
  <2>11. x \div P = q /\ q \div 2 = qq /\ h \div P = hq BY DEF q, qq, hq
  <2>12. Bit(x, k) \in {0, 1} /\ Bit(x, k + 1) = Bit(h, k) BY <2>3, <2>8, <2>9, <2>10
  <2>13. x \div P \in Int /\ x \div (2 * P) = (x \div P) \div 2 /\ x \div (2 * P) = h \div P
    BY <2>2, <2>8, <2>9, <2>11
  <2> QED BY <2>1, <2>12, <2>13 DEF P
<1> QED BY <1>1, <1>2, <1>3 DEF Bit

BitOps == {"and", "or", "xor"}
\* The sign of a number as a bit, and how far it is from 0 or -1.
SignBit(x) == IF x < 0 THEN 1 ELSE 0
Size(x) == IF x < 0 THEN -x - 1 ELSE x

\* An operator on bits gives a bit, and is zero of zeros.
LEMMA BitOpIs ==
  ASSUME NEW op \in BitOps, NEW i \in {0, 1}, NEW j \in {0, 1}
  PROVE  BitOp(op, i, j) \in {0, 1} /\ BitOp(op, 0, 0) = 0
<1>1. /\ BitOp("and", i, j) \in {0, 1} /\ BitOp("or", i, j) \in {0, 1} /\ BitOp("xor", i, j) \in {0, 1}
      /\ BitOp("and", 0, 0) = 0 /\ BitOp("or", 0, 0) = 0 /\ BitOp("xor", 0, 0) = 0
  <2>1. \A m, n \in {0, 1} : (m + n) % 2 \in {0, 1} /\ m * n \in {0, 1} /\ m + n - m * n \in {0, 1} /\ (0 + 0) % 2 = 0
    BY SMT
  <2> QED BY <2>1 DEF BitOp
<1> QED BY <1>1 DEF BitOps

\* One bit more.
LEMMA OneMoreBit ==
  ASSUME NEW r \in Int, NEW e \in {0, 1}
  PROVE  /\ (e + 2 * r) \div 2 = r /\ (e + 2 * r) % 2 = e
         /\ SignBit(e + 2 * r) = SignBit(r)
         /\ Size(e + 2 * r) = 2 * Size(r) + (IF r < 0 THEN 1 - e ELSE e)
         /\ Size(r) \in Nat
<1>1. e + 2 * r = 2 * r + e /\ e \in 0..2 - 1 /\ 2 \in Nat \ {0} OBVIOUS
<1>2. (e + 2 * r) \div 2 = r /\ (e + 2 * r) % 2 = e BY <1>1, DividedOnly
<1>3. SignBit(e + 2 * r) = SignBit(r) BY DEF SignBit
<1>4. Size(e + 2 * r) = 2 * Size(r) + (IF r < 0 THEN 1 - e ELSE e) /\ Size(r) \in Nat BY DEF Size
<1> QED BY <1>2, <1>3, <1>4

\* What an operator does to the bits of two numbers, it does to their sizes.
LEMMA BitOpSize ==
  ASSUME NEW op \in BitOps, NEW i \in {0, 1}, NEW j \in {0, 1}, NEW x \in Int, NEW y \in Int, NEW r \in Int,
         SignBit(r) = BitOp(op, SignBit(x), SignBit(y))
  PROVE  (IF r < 0 THEN 1 - BitOp(op, i, j) ELSE BitOp(op, i, j))
           <= (IF x < 0 THEN 1 - i ELSE i) + (IF y < 0 THEN 1 - j ELSE j)
<1>1. (0 + 0) % 2 = 0 /\ (0 + 1) % 2 = 1 /\ (1 + 0) % 2 = 1 /\ (1 + 1) % 2 = 0 BY SMT
<1>2. CASE op = "and" BY <1>2 DEF BitOp, SignBit
<1>3. CASE op = "or" BY <1>3 DEF BitOp, SignBit
<1>4. CASE op = "xor" BY <1>1, <1>4 DEF BitOp, SignBit
<1> QED BY <1>2, <1>3, <1>4 DEF BitOps

Fits(x, n) == -(2^n) <= x /\ x < 2^n

\* A number of n bits: what is past them is its sign.
LEMMA UpperBits ==
  ASSUME NEW n \in Nat, NEW x \in Int, Fits(x, n)
  PROVE  x \div 2^n = IF x < 0 THEN -1 ELSE 0
<1> DEFINE P == 2^n
<1>1. P \in Nat \ {0} BY Powers
<1>2. -P <= x /\ x < P BY DEF Fits
<1> HIDE DEF P
<1>3. CASE x < 0 BY <1>1, <1>2, <1>3, DividedOnly DEF P
<1>4. CASE ~ x < 0 BY <1>1, <1>2, <1>4, DividedOnly DEF P
<1> QED BY <1>3, <1>4

\* All bits of 0 and of -1 are alike.
LEMMA SignBits ==
  ASSUME NEW x \in {0, -1}, NEW k \in Nat
  PROVE  Bit(x, k) = SignBit(x) /\ Size(x) = 0
<1> DEFINE S == {m \in Nat : Bit(x, m) = SignBit(x)}
<1>1. x = 2 * x + SignBit(x) /\ SignBit(x) \in 0..2 - 1 /\ 2 \in Nat \ {0} /\ x \in Int
  BY DEF SignBit
<1>2. x \div 2 = x /\ x % 2 = SignBit(x) BY <1>1, DividedOnly
<1>3. 0 \in S BY <1>1, <1>2, BitsAre
<1>4. ASSUME NEW m \in Nat, m \in S PROVE m + 1 \in S
  <2>1. Bit(x, m + 1) = Bit(x \div 2, m) BY <1>1, BitsAre
  <2> QED BY <1>2, <1>4, <2>1
<1>5. k \in S
  <2> HIDE DEF S
  <2> QED BY <1>3, <1>4, AllNaturals
<1> QED BY <1>5 DEF SignBit, Size

\* What Bitwise computes, from the upper bits down.
LEMMA BitwiseSteps ==
  ASSUME NEW op \in BitOps, NEW a \in Int, NEW b \in Int, NEW bits \in Nat
  PROVE  \E f \in [0..bits -> Int] :
           /\ Bitwise(op, a, b, bits) = f[bits]
           /\ f[0] = -BitOp(op, Bit(a, bits), Bit(b, bits))
           /\ \A i \in 1..bits : f[i] = BitOp(op, Bit(a, bits - i), Bit(b, bits - i)) + 2 * f[i - 1]
<1> DEFINE z == -BitOp(op, Bit(a, bits), Bit(b, bits))
           d == [i \in 1..bits |-> BitOp(op, Bit(a, bits - i), Bit(b, bits - i))]
           Right(g) == g = [i \in 0..bits |->
                              IF i = 0 THEN -BitOp(op, Bit(a, bits), Bit(b, bits))
                              ELSE BitOp(op, Bit(a, bits - i), Bit(b, bits - i)) + 2 * g[i - 1]]
<1>1. z \in Int
  <2>1. Bit(a, bits) \in {0, 1} /\ Bit(b, bits) \in {0, 1} BY BitsAre
  <2>2. BitOp(op, Bit(a, bits), Bit(b, bits)) \in {0, 1} BY <2>1, BitOpIs
  <2> QED BY <2>2
<1>2. d \in [1..bits -> Int]
  <2> SUFFICES ASSUME NEW i \in 1..bits PROVE BitOp(op, Bit(a, bits - i), Bit(b, bits - i)) \in Int
    OBVIOUS
  <2>1. bits - i \in Nat OBVIOUS
  <2>2. Bit(a, bits - i) \in {0, 1} /\ Bit(b, bits - i) \in {0, 1} BY <2>1, BitsAre
  <2>3. BitOp(op, Bit(a, bits - i), Bit(b, bits - i)) \in {0, 1} BY <2>2, BitOpIs
  <2> QED BY <2>3
<1>3. \E g \in [0..bits -> Int] : \A i \in 0..bits : g[i] = IF i = 0 THEN z ELSE d[i] + 2 * g[i - 1]
  <2> DEFINE base == 2
  <2>1. base \in Int OBVIOUS
  <2> HIDE DEF z, d, base
  <2>2. \E g : Scaled(g, bits, z, base, d) BY <1>1, <1>2, <2>1, Scaling, Zenon
  <2> QED BY <2>2 DEF base, Scaled
<1>4. PICK g \in [0..bits -> Int] : \A i \in 0..bits : g[i] = IF i = 0 THEN z ELSE d[i] + 2 * g[i - 1]
  BY <1>3
<1>5. Right(g)
  <2>1. \A i \in 0..bits : i # 0 => d[i] = BitOp(op, Bit(a, bits - i), Bit(b, bits - i)) OBVIOUS
  <2> HIDE DEF d
  <2> QED BY <1>4, <2>1
<1>6. Bitwise(op, a, b, bits) = (CHOOSE h : Right(h))[bits] BY DEF Bitwise
<1> DEFINE f == CHOOSE h : Right(h)
<1>7. Right(f)
  <2> HIDE DEF Right
  <2> QED BY <1>5
<1> HIDE DEF f
<1>8. ASSUME NEW h, Right(h), NEW i \in 0..bits PROVE h[i] = g[i]
  <2> DEFINE S == {m \in Nat : m <= bits => h[m] = g[m]}
  <2>1. 0 \in S BY <1>5, <1>8
  <2>2. ASSUME NEW m \in Nat, m \in S PROVE m + 1 \in S
    <3> SUFFICES ASSUME m + 1 <= bits PROVE h[m + 1] = g[m + 1] OBVIOUS
    <3>1. h[m] = g[m] /\ m + 1 \in 0..bits /\ m + 1 # 0 /\ m + 1 - 1 = m BY <2>2
    <3>2. h[m + 1] = BitOp(op, Bit(a, bits - (m + 1)), Bit(b, bits - (m + 1))) + 2 * h[m + 1 - 1]
      BY <1>8, <3>1
    <3>3. g[m + 1] = BitOp(op, Bit(a, bits - (m + 1)), Bit(b, bits - (m + 1))) + 2 * g[m + 1 - 1]
      BY <1>5, <3>1
    <3> QED BY <3>1, <3>2, <3>3
  <2>3. Nat \subseteq S
    <3> HIDE DEF S
    <3> QED BY <2>1, <2>2, AllNaturals
  <2>4. i \in Nat /\ i <= bits OBVIOUS
  <2> QED BY <2>3, <2>4
<1>9. f \in [0..bits -> Int] BY <1>7, <1>4, <1>8
<1>10. /\ f[0] = -BitOp(op, Bit(a, bits), Bit(b, bits))
       /\ \A i \in 1..bits : f[i] = BitOp(op, Bit(a, bits - i), Bit(b, bits - i)) + 2 * f[i - 1]
  BY <1>7
<1> QED BY <1>6, <1>9, <1>10 DEF f

\* r is what op makes of the bits of x and y, and no larger than they are.
IsBitwise(op, r, x, y) ==
  /\ \A k \in Nat : Bit(r, k) = BitOp(op, Bit(x, k), Bit(y, k))
  /\ SignBit(r) = BitOp(op, SignBit(x), SignBit(y))
  /\ Size(r) <= Size(x) + Size(y)

\* If r is right of the halves, one more digit makes it right of the numbers.
LEMMA BitwiseUp ==
  ASSUME NEW op \in BitOps, NEW x \in Int, NEW y \in Int, NEW r \in Int,
         IsBitwise(op, r, x \div 2, y \div 2)
  PROVE  IsBitwise(op, BitOp(op, x % 2, y % 2) + 2 * r, x, y)
<1> DEFINE hx == x \div 2  hy == y \div 2  i == x % 2  j == y % 2  e == BitOp(op, i, j)  s == e + 2 * r
<1>1. hx \in Int /\ i \in {0, 1} /\ x = i + 2 * hx /\ Bit(x, 0) = i
  <2>1. x = 2 * hx + i BY BitsAre
  <2>2. hx \in Int /\ i \in {0, 1} /\ Bit(x, 0) = i BY BitsAre
  <2> HIDE DEF hx, i
  <2> QED BY <2>1, <2>2
<1>2. hy \in Int /\ j \in {0, 1} /\ y = j + 2 * hy /\ Bit(y, 0) = j
  <2>1. y = 2 * hy + j BY BitsAre
  <2>2. hy \in Int /\ j \in {0, 1} /\ Bit(y, 0) = j BY BitsAre
  <2> HIDE DEF hy, j
  <2> QED BY <2>1, <2>2
<1>3. \A k \in Nat : Bit(x, k + 1) = Bit(hx, k) /\ Bit(y, k + 1) = Bit(hy, k) BY BitsAre
<1>4. IsBitwise(op, r, hx, hy) OBVIOUS
<1>5. e \in {0, 1}
  <2> HIDE DEF i, j
  <2> QED BY <1>1, <1>2, BitOpIs
<1> HIDE DEF hx, hy, i, j, e
<1>6. /\ s \div 2 = r /\ s % 2 = e /\ s \in Int /\ SignBit(s) = SignBit(r)
      /\ Size(s) = 2 * Size(r) + (IF r < 0 THEN 1 - e ELSE e) /\ Size(r) \in Nat
  <2>1. s \in Int BY <1>5
  <2>2. /\ s \div 2 = r /\ s % 2 = e /\ SignBit(s) = SignBit(r)
        /\ Size(s) = 2 * Size(r) + (IF r < 0 THEN 1 - e ELSE e) /\ Size(r) \in Nat
    BY <1>5, OneMoreBit
  <2> QED BY <2>1, <2>2
<1>7. SignBit(x) = SignBit(hx) /\ Size(x) = 2 * Size(hx) + (IF hx < 0 THEN 1 - i ELSE i) /\ Size(hx) \in Nat
  BY <1>1, OneMoreBit
<1>8. SignBit(y) = SignBit(hy) /\ Size(y) = 2 * Size(hy) + (IF hy < 0 THEN 1 - j ELSE j) /\ Size(hy) \in Nat
  BY <1>2, OneMoreBit
<1> HIDE DEF s
<1>9. SignBit(s) = BitOp(op, SignBit(x), SignBit(y)) BY <1>4, <1>6, <1>7, <1>8 DEF IsBitwise
<1>10. Size(s) <= Size(x) + Size(y)
  BY <1>1, <1>2, <1>4, BitOpSize, <1>5, <1>6, <1>7, <1>8 DEF IsBitwise, e
<1>11. ASSUME NEW k \in Nat PROVE Bit(s, k) = BitOp(op, Bit(x, k), Bit(y, k))
  <2>1. CASE k = 0 BY <1>6, BitsAre, <1>1, <1>2, <2>1 DEF e
  <2>2. CASE k # 0
    <3>1. k - 1 \in Nat /\ k - 1 + 1 = k BY <2>2
    <3>2. Bit(s, k - 1 + 1) = Bit(r, k - 1) BY <1>6, <3>1, BitsAre
    <3>3. Bit(r, k - 1) = BitOp(op, Bit(hx, k - 1), Bit(hy, k - 1)) BY <1>4, <3>1 DEF IsBitwise
    <3>4. Bit(x, k - 1 + 1) = Bit(hx, k - 1) /\ Bit(y, k - 1 + 1) = Bit(hy, k - 1) BY <1>3, <3>1
    <3> QED BY <3>1, <3>2, <3>3, <3>4
  <2> QED BY <2>1, <2>2
<1> QED BY <1>9, <1>10, <1>11 DEF IsBitwise, s, e, i, j

\* Bitwise is right of every two numbers that fit its bits.
LEMMA BitwiseBits ==
  ASSUME NEW op \in BitOps, NEW a \in Int, NEW b \in Int, NEW bits \in Nat, Fits(a, bits), Fits(b, bits)
  PROVE  Bitwise(op, a, b, bits) \in Int /\ IsBitwise(op, Bitwise(op, a, b, bits), a, b)
<1>1. PICK f \in [0..bits -> Int] :
           /\ Bitwise(op, a, b, bits) = f[bits]
           /\ f[0] = -BitOp(op, Bit(a, bits), Bit(b, bits))
           /\ \A i \in 1..bits : f[i] = BitOp(op, Bit(a, bits - i), Bit(b, bits - i)) + 2 * f[i - 1]
  BY BitwiseSteps
<1> DEFINE S == {i \in Nat : i <= bits => IsBitwise(op, f[i], a \div 2^(bits - i), b \div 2^(bits - i))}
<1>2. 0 \in S
  <2> DEFINE x == a \div 2^bits  y == b \div 2^bits  e == BitOp(op, Bit(a, bits), Bit(b, bits))
  <2>1. x \in {0, -1} /\ y \in {0, -1} BY UpperBits
  <2>2. Bit(a, bits) = x % 2 /\ Bit(b, bits) = y % 2 BY DEF Bit
  <2> HIDE DEF x, y
  <2>3. \A k \in Nat : Bit(x, k) = SignBit(x) /\ Size(x) = 0 /\ Bit(y, k) = SignBit(y) /\ Size(y) = 0
    BY <2>1, SignBits
  <2>4. Bit(x, 0) = x % 2 /\ Bit(y, 0) = y % 2
    <3>1. x \in Int /\ y \in Int BY <2>1
    <3> QED BY <3>1, BitsAre
  <2>5. e = BitOp(op, SignBit(x), SignBit(y)) /\ SignBit(x) \in {0, 1} /\ SignBit(y) \in {0, 1}
    BY <2>2, <2>3, <2>4 DEF SignBit
  <2>6. e \in {0, 1} BY <2>5, BitOpIs
  <2> HIDE DEF e
  <2>7. -e \in {0, -1} /\ SignBit(-e) = e BY <2>6 DEF SignBit
  <2>8. f[0] = -e BY <1>1 DEF e
  <2>9. \A k \in Nat : Bit(f[0], k) = e /\ Size(f[0]) = 0 /\ SignBit(f[0]) = e
    BY <2>7, <2>8, SignBits
  <2>10. IsBitwise(op, f[0], x, y) BY <2>3, <2>5, <2>9 DEF IsBitwise
  <2>11. bits - 0 = bits OBVIOUS
  <2> QED BY <2>10, <2>11 DEF x, y
<1>3. ASSUME NEW i \in Nat, i \in S PROVE i + 1 \in S
  <2> SUFFICES ASSUME i + 1 <= bits
               PROVE  IsBitwise(op, f[i + 1], a \div 2^(bits - (i + 1)), b \div 2^(bits - (i + 1)))
    OBVIOUS
  <2> DEFINE k == bits - (i + 1)  x == a \div 2^k  y == b \div 2^k
  <2>1. k \in Nat /\ k + 1 = bits - i /\ i + 1 \in 1..bits /\ i + 1 - 1 = i /\ i \in 0..bits OBVIOUS
  <2>2. x \in Int /\ y \in Int /\ a \div 2^(k + 1) = x \div 2 /\ b \div 2^(k + 1) = y \div 2
    BY <2>1, BitsAre
  <2>3. Bit(a, k) = x % 2 /\ Bit(b, k) = y % 2 BY DEF Bit
  <2>4. f[i + 1] = BitOp(op, Bit(a, k), Bit(b, k)) + 2 * f[i] BY <1>1, <2>1
  <2> HIDE DEF x, y
  <2>5. IsBitwise(op, f[i], x \div 2, y \div 2) BY <1>3, <2>1, <2>2
  <2>6. f[i] \in Int BY <1>1, <2>1
  <2>7. IsBitwise(op, BitOp(op, x % 2, y % 2) + 2 * f[i], x, y) BY <2>2, <2>5, <2>6, BitwiseUp
  <2> QED BY <2>3, <2>4, <2>7 DEF x, y
<1>4. Nat \subseteq S
  <2> HIDE DEF S
  <2> QED BY <1>2, <1>3, AllNaturals
<1>5. IsBitwise(op, f[bits], a \div 2^(bits - bits), b \div 2^(bits - bits))
  <2>1. bits \in S
    <3> HIDE DEF S
    <3> QED BY <1>4
  <2>2. bits <= bits OBVIOUS
  <2> QED BY <2>1, <2>2
<1>6. a \div 2^(bits - bits) = a /\ b \div 2^(bits - bits) = b BY DividedOnly
<1>7. f[bits] \in Int BY <1>1
<1> QED BY <1>1, <1>5, <1>6, <1>7

\* Numbers of n bits with the same bits are the same.
LEMMA SameBits ==
  ASSUME NEW m \in Nat, NEW v \in Int, NEW w \in Int, Fits(v, m), Fits(w, m),
         \A i \in 0..m : Bit(v, i) = Bit(w, i)
  PROVE  v = w
<1> DEFINE S == {n \in Nat : \A x, y \in Int : Fits(x, n) /\ Fits(y, n) /\ (\A i \in 0..n : Bit(x, i) = Bit(y, i)) => x = y}
<1>1. 0 \in S
  <2> SUFFICES ASSUME NEW x \in Int, NEW y \in Int, Fits(x, 0), Fits(y, 0), Bit(x, 0) = Bit(y, 0)
               PROVE  x = y
    OBVIOUS
  <2>1. 2^0 = 1 OBVIOUS
  <2>2. x \in {0, -1} /\ y \in {0, -1} BY <2>1 DEF Fits
  <2>3. SignBit(x) = SignBit(y) BY <2>2, SignBits
  <2> QED BY <2>2, <2>3 DEF SignBit
<1>2. ASSUME NEW n \in Nat, n \in S PROVE n + 1 \in S
  <2> SUFFICES ASSUME NEW x \in Int, NEW y \in Int, Fits(x, n + 1), Fits(y, n + 1),
                      \A i \in 0..n + 1 : Bit(x, i) = Bit(y, i)
               PROVE  x = y
    OBVIOUS
  <2> DEFINE hx == x \div 2  hy == y \div 2
  <2>1. hx \in Int /\ x % 2 \in {0, 1} /\ x = 2 * hx + (x % 2) /\ Bit(x, 0) = x % 2 BY BitsAre
  <2>2. hy \in Int /\ y % 2 \in {0, 1} /\ y = 2 * hy + (y % 2) /\ Bit(y, 0) = y % 2 BY BitsAre
  <2>3. \A i \in Nat : Bit(x, i + 1) = Bit(hx, i) /\ Bit(y, i + 1) = Bit(hy, i) BY BitsAre
  <2>4. 2^(n + 1) = 2 * 2^n /\ 2^n \in Nat BY Powers
  <2> HIDE DEF hx, hy
  <2>5. Fits(hx, n) /\ Fits(hy, n) BY <2>1, <2>2, <2>4 DEF Fits
  <2>6. ASSUME NEW i \in 0..n PROVE Bit(hx, i) = Bit(hy, i) BY <2>3
  <2>7. hx = hy BY <1>2, <2>1, <2>2, <2>5, <2>6
  <2>8. x % 2 = y % 2 BY <2>1, <2>2
  <2> QED BY <2>1, <2>2, <2>7, <2>8
<1>3. Nat \subseteq S
  <2> HIDE DEF S
  <2> QED BY <1>1, <1>2, AllNaturals
<1> QED BY <1>3

\* The bitwise operators at any width that holds both numbers.
LEMMA ByBitsIs ==
  ASSUME NEW op \in BitOps, NEW a \in Int, NEW b \in Int, NEW bits \in Nat, Fits(a, bits), Fits(b, bits)
  PROVE  Bitwise(op, a, b, bits) = ByBits(op, a, b) /\ Bitwise(op, a, b, bits) \in Int
<1> DEFINE r == Bitwise(op, a, b, bits)  n == Wide(a, b)  s == Abs(a) + Abs(b)
           Right(x) == \A i \in 0..n + 1 : Bit(x, i) = BitOp(op, Bit(a, i), Bit(b, i))
<1>1. r \in Int /\ IsBitwise(op, r, a, b) BY BitwiseBits
<1>2. n \in Nat /\ s \in Nat /\ s <= 2 * n BY DEF Wide, Abs
<1>3. s < 2^(n + 1)
  <2>1. n < 2^n /\ 2^(n + 1) = 2 * 2^n /\ 2^n \in Nat BY <1>2, Powers
  <2> HIDE DEF n, s
  <2> QED BY <1>2, <2>1
<1>4. r \in -s .. s
  <2> HIDE DEF r
  <2>1. Size(r) <= Size(a) + Size(b) BY <1>1 DEF IsBitwise
  <2>2. r < 0 => a < 0 \/ b < 0 BY <1>1, BitOpIs DEF IsBitwise, SignBit
  <2> QED BY <1>1, <2>1, <2>2 DEF Size, Abs
<1>5. Right(r) BY <1>1, <1>2 DEF IsBitwise
<1>6. ASSUME NEW x \in -s .. s, Right(x) PROVE x = r
  <2> HIDE DEF s, n, r
  <2>1. n + 1 \in Nat /\ x \in Int BY <1>2
  <2>2. Fits(x, n + 1) /\ Fits(r, n + 1) BY <2>1, Powers, <1>1, <1>2, <1>3, <1>4 DEF Fits
  <2>3. \A i \in 0..n + 1 : Bit(x, i) = Bit(r, i) BY <1>5, <1>6
  <2> QED BY <1>1, <2>1, <2>2, <2>3, SameBits
<1>7. ByBits(op, a, b) = CHOOSE x \in -s .. s : Right(x) BY DEF ByBits
<1> HIDE DEF r, s, n, Right
<1>8. (CHOOSE x \in -s .. s : Right(x)) = r BY <1>4, <1>5, <1>6
<1> QED BY <1>1, <1>7, <1>8 DEF r

(***************************************************************************)
(* What the operators compute on numbers, without memory.                  *)
(***************************************************************************)

\* The sizes of a word and of an immediate.
LEMMA NumberSizes ==
  /\ Limit \in Nat \ {0} /\ LimitBits < Limit /\ LimitBits \in Nat \ {0}
  /\ WordBits \in Nat /\ WordBits = LimitBits + 2
  /\ Word \in Nat /\ Word = 4 * Limit /\ Word = 2^WordBits /\ 2^(WordBits - 1) = 2 * Limit
<1>1. LimitBits \in Nat /\ LimitBits + 1 \in Nat /\ LimitBits # 0 BY NumberConstants
<1>2. 2^LimitBits \in Nat \ {0} /\ LimitBits < 2^LimitBits /\ 2^(LimitBits + 1) = 2 * 2^LimitBits
  BY <1>1, Powers
<1>3. 2^(LimitBits + 1 + 1) = 2 * 2^(LimitBits + 1) BY <1>1, Powers
<1>4. LimitBits + 2 = LimitBits + 1 + 1 /\ LimitBits + 2 - 1 = LimitBits + 1 BY <1>1
<1> DEFINE L == 2^LimitBits
<1>5. WordBits = LimitBits + 1 + 1 /\ WordBits - 1 = LimitBits + 1 /\ Limit = L /\ Word = 4 * L
  BY <1>1 DEF WordBits, Limit, Word
<1>6. 2^WordBits = 2 * (2 * L) /\ 2^(WordBits - 1) = 2 * L BY <1>2, <1>3, <1>5
<1>7. L \in Nat \ {0} /\ LimitBits < L BY <1>2
<1> HIDE DEF L
<1> QED BY <1>1, <1>4, <1>5, <1>6, <1>7

\* Quotient and remainder, however they are written.
LEMMA QuotientIs ==
  ASSUME NEW a \in Int, NEW b \in Int, b # 0
  PROVE  /\ EuclidQuotient(a, b) = Quotient(a, b) /\ Quotient(a, b) \in Int
         /\ EuclidRemainder(a, b) = Remainder(a, b) /\ Remainder(a, b) \in Int
         /\ a % Abs(b) = Remainder(a, b) /\ CDiv(a - (a % Abs(b)), b) = Quotient(a, b)
<1> DEFINE q == EuclidQuotient(a, b)  r == EuclidRemainder(a, b)  d == Abs(b)
<1>1. q \in Int /\ r \in 0..d - 1 /\ a = b * q + r BY DivisionIsEuclidean
<1>2. d \in Nat \ {0} /\ (d = b \/ d = -b) BY DEF Abs
<1>3. r = Remainder(a, b) BY EuclidIsMeant DEF Remainder
<1>4. q \in -Abs(a) - 1 .. Abs(a) + 1 /\ \A p \in Int : a - p * b \in 0 .. Abs(b) - 1 => p = q
  BY EuclidIsMeant
<1>5. Abs(a) \in Nat BY DEF Abs
<1> HIDE DEF q, r, d
<1>6. q = Quotient(a, b)
  <2>1. a = q * b + r BY <1>1
  <2>2. ASSUME NEW p \in -Abs(a) - 1 .. Abs(a) + 1, a = p * b + r PROVE p = q
    BY <1>5, <1>1, <2>2, <1>4 DEF d
  <2>3. q = CHOOSE p \in -Abs(a) - 1 .. Abs(a) + 1 : a = p * b + r BY <1>4, <2>1, <2>2
  <2> QED BY <1>3, <2>3 DEF Quotient
<1>7. a % d = r BY <1>1, <1>2, DividedOnly
<1>8. CDiv(a - r, b) = q
  <2> DEFINE n == a - r  c == CDiv(n, b)  e == CRem(n, b)
  <2>1. n \in Int BY <1>1, <1>2
  <2>2. c \in Int /\ e \in Int /\ n = b * c + e /\ Abs(e) < Abs(b)
    <3> HIDE DEF n
    <3> QED BY <2>1, Truncates
  <2>3. n = b * q BY <1>1, <1>2
  <2>4. e < d /\ -e < d BY <2>2, <1>2 DEF Abs, d
  <2> HIDE DEF n, c, e
  <2>5. b * (q - c) = e BY <1>1, <2>2, <2>3
  <2>6. d * (q - c) = e \/ d * (q - c) = -e BY <1>1, <1>2, <2>2, <2>5
  <2>7. ~ q - c >= 1
    <3> SUFFICES ASSUME q - c >= 1 PROVE FALSE OBVIOUS
    <3>1. d * (q - c) >= d BY <1>1, <1>2, <2>2
    <3> QED BY <1>2, <2>2, <2>4, <2>6, <3>1
  <2>8. ~ q - c <= -1
    <3> SUFFICES ASSUME q - c <= -1 PROVE FALSE OBVIOUS
    <3>1. d * (q - c) <= -d BY <1>1, <1>2, <2>2
    <3> QED BY <1>2, <2>2, <2>4, <2>6, <3>1
  <2>9. c = q BY <1>1, <2>2, <2>7, <2>8
  <2> QED BY <2>9 DEF c, n
<1>9. r \in Int BY <1>1, <1>2
<1> QED BY <1>1, <1>3, <1>6, <1>7, <1>8, <1>9 DEF q, r, d

\* The meaning of an operator on Integers, one operator at a time.
LEMMA IntegerMeaning ==
  ASSUME NEW k, k = "Integer", NEW a, NEW b
  PROVE  /\ Meaning(k, "add", a, b) = a + b
         /\ Meaning(k, "sub", a, b) = a - b
         /\ Meaning(k, "mul", a, b) = a * b
         /\ Meaning(k, "div", a, b) = Quotient(a, b)
         /\ Meaning(k, "mod", a, b) = Remainder(a, b)
         /\ k = "Integer" => /\ Meaning(k, "shiftl", a, b) = a * 2^(Abs(b) % Word)
                             /\ Meaning(k, "shiftr", a, b) = a \div 2^(Abs(b) % Word)
         /\ Meaning(k, "and", a, b) = ByBits("and", a, b)
         /\ Meaning(k, "or", a, b) = ByBits("or", a, b)
         /\ Meaning(k, "xor", a, b) = ByBits("xor", a, b)
<1>1. ~ IsWord(k) BY DEF IsWord
<1>2. k = "Integer" => Amount(k, b) = Abs(b) % Word BY DEF Amount
<1>3. \A n : Cut(k, n) = n BY <1>1 DEF Cut
<1> QED BY <1>2, <1>3 DEF Meaning

\* GMP's results.
LEMMA MpzExact ==
  ASSUME NEW op \in IntegerOps, NEW a \in Int, NEW b \in Int, op = "mod" => b # 0
  PROVE  Mpz(op, a, b) = Meaning("Integer", op, a, b) /\ Mpz(op, a, b) \in Int
<1>1. CASE op \in {"add", "sub", "mul"} BY <1>1, IntegerMeaning DEF Mpz
<1>2. CASE op = "mod" BY <1>2, QuotientIs, IntegerMeaning DEF Mpz
<1>3. CASE op \in {"shiftl", "shiftr"}
  <2> DEFINE y == Abs(b) % Word
  <2>1. Mpz("shiftl", a, b) = a * 2^y /\ Mpz("shiftr", a, b) = a \div 2^y BY DEF Mpz, Count
  <2>2. y \in Nat BY NumberSizes, Divided DEF Abs
  <2> HIDE DEF y
  <2>3. 2^y \in Nat \ {0} BY <2>2, Powers
  <2>4. a * 2^y \in Int /\ a \div 2^y \in Int
    <3> DEFINE P == 2^y
    <3>1. P \in Nat \ {0} BY <2>3
    <3> HIDE DEF P
    <3>2. a * P \in Int /\ a \div P \in Int BY <3>1, Divided
    <3> QED BY <3>2 DEF P
  <2> QED BY <1>3, <2>1, <2>4, IntegerMeaning DEF y
<1>4. CASE op \in BitOps
  <2> DEFINE n == Wide(a, b)
  <2>1. n \in Nat /\ a <= n /\ b <= n /\ -a <= n /\ -b <= n BY DEF Wide, Abs
  <2> HIDE DEF n
  <2>2. n < 2^n /\ 2^n \in Nat BY <2>1, Powers
  <2>3. Fits(a, n) /\ Fits(b, n) BY <2>1, <2>2 DEF Fits
  <2>4. Bitwise(op, a, b, n) = ByBits(op, a, b) /\ Bitwise(op, a, b, n) \in Int
    BY <1>4, <2>1, <2>3, ByBitsIs
  <2>5. Mpz(op, a, b) = Bitwise(op, a, b, n) BY <1>4 DEF Mpz, BitOps, n
  <2> QED BY <1>4, <2>4, <2>5, IntegerMeaning DEF BitOps
<1> QED BY <1>1, <1>2, <1>3, <1>4 DEF IntegerOps, BitOps

\* The fast path on two immediates.
LEMMA FastExact ==
  ASSUME NEW op \in IntegerOps, NEW a \in Int, NEW b \in Int, InImmediate(a), InImmediate(b),
         FastPath(op, a, b), op = "mod" => b # 0
  PROVE  Fast(op, a, b) = Meaning("Integer", op, a, b) /\ Fast(op, a, b) \in Int
<1> DEFINE L == Limit  n == Abs(b)
<1>1. /\ L \in Nat \ {0} /\ LimitBits < L /\ LimitBits \in Nat \ {0} /\ WordBits = LimitBits + 2 /\ WordBits \in Nat
      /\ Word = 4 * L /\ Word = 2^WordBits /\ 2^(WordBits - 1) = 2 * L
  BY NumberSizes
<1>2. -L <= a /\ a < L /\ -L <= b /\ b < L BY DEF InImmediate
<1>3. n \in Nat /\ n <= L BY <1>1, <1>2 DEF Abs
<1> HIDE DEF L, n
<1>4. n % Word = n BY <1>1, <1>3, DividedOnly
<1>5. CASE op \in {"add", "sub", "mul"} BY <1>5, IntegerMeaning DEF Fast
<1>6. CASE op = "mod" BY <1>6, QuotientIs, IntegerMeaning DEF Fast, EuclidRemainder
<1>7. CASE op = "shiftl"
  <2> DEFINE P == 2^n  z == a * P  v == Signed(z, WordBits)  ty == Type(TRUE, WordBits)
  <2>1. n < LimitBits /\ v \div P = a /\ Fast(op, a, b) = v BY <1>7 DEF FastPath, Fast, n
  <2>2. P \in Nat \ {0} /\ 2^WordBits = P * 2^(WordBits - n) /\ 2^(WordBits - n) \in Nat \ {0}
    BY <1>1, <1>3, <2>1, Powers
  <2>3. ty \in NumberTypes /\ ty.bits = WordBits /\ \A x : Signed(x, WordBits) = Convert(ty, x)
    BY <1>1 DEF ty, Type, NumberTypes, Convert
  <2>4. z \in Int
    <3> HIDE DEF P
    <3> QED BY <2>2
  <2> HIDE DEF z, ty
  <2>5. v \in Int /\ Cong(z, v, 2^WordBits) BY <2>3, <2>4, CutTo
  <2>6. PICK j \in Int : z - v = 2^WordBits * j BY <2>5 DEF Cong
  <2> DEFINE Q == 2^(WordBits - n)
  <2> HIDE DEF v
  <2>7. v = P * (a - Q * j) + 0 /\ a - Q * j \in Int /\ 0 \in 0..P - 1
    <3>1. Q \in Nat /\ P \in Nat \ {0} BY <2>2
    <3>2. 2^WordBits * j = P * (Q * j)
      <4>1. 2^WordBits = P * Q BY <2>2
      <4> HIDE DEF P, Q
      <4> QED BY <3>1, <4>1
    <3> HIDE DEF P, Q
    <3>3. z = P * a BY <3>1 DEF z
    <3>4. v = P * a - P * (Q * j) BY <2>4, <2>5, <2>6, <3>1, <3>2, <3>3
    <3> QED BY <3>1, <3>4
  <2>8. a - Q * j = v \div P
    <3> HIDE DEF P, Q
    <3> QED BY <2>2, <2>7, DividedOnly DEF P
  <2>9. Q * j = 0
    <3>1. a - Q * j = a /\ Q * j \in Int
      <4>1. Q \in Nat BY <2>2
      <4> HIDE DEF P, Q
      <4> QED BY <2>1, <2>8, <4>1
    <3> HIDE DEF Q
    <3> QED BY <3>1
  <2>10. v = z
    <3>1. Q \in Nat /\ P \in Nat \ {0} BY <2>2
    <3> HIDE DEF P, Q
    <3>2. v = P * a BY <2>7, <2>9, <3>1
    <3> QED BY <3>1, <3>2 DEF z
  <2> QED BY <1>4, <1>7, <2>1, <2>4, <2>10, IntegerMeaning DEF z, n
<1>8. CASE op = "shiftr"
  <2> DEFINE m == IF n > WordBits - 1 THEN WordBits - 1 ELSE n
  <2>1. Fast(op, a, b) = a \div 2^m BY <1>8 DEF Fast, n
  <2>2. m \in Nat /\ m <= n /\ (m # n => m = WordBits - 1) BY <1>1, <1>3
  <2>3. 2^m \in Nat \ {0} /\ 2^n \in Nat \ {0} /\ 2^m <= 2^n BY <1>3, <2>2, Powers
  <2>4. m # n => a \div 2^m = a \div 2^n
    <3> SUFFICES ASSUME m # n PROVE a \div 2^m = a \div 2^n OBVIOUS
    <3>1. 2^m = 2 * L BY <1>1, <2>2
    <3>2. Fits(a, m) /\ Fits(a, n)
      <4>1. L < 2 * L /\ -(2 * L) < -L /\ 2 * L <= 2^n BY <1>1, <2>3, <3>1
      <4> HIDE DEF m
      <4> QED BY <1>1, <1>2, <2>3, <3>1, <4>1 DEF Fits
    <3> QED BY <1>3, <2>2, <3>2, UpperBits
  <2>5. a \div 2^n \in Int
    <3> DEFINE P == 2^n
    <3>1. P \in Nat \ {0} BY <2>3
    <3> HIDE DEF P
    <3>2. a \div P \in Int BY <3>1, Divided
    <3> QED BY <3>2 DEF P
  <2>6. a \div 2^m = a \div 2^n
    <3> HIDE DEF m
    <3> QED BY <2>4
  <2> QED BY <1>4, <1>8, <2>1, <2>5, <2>6, IntegerMeaning DEF n
<1>9. CASE op \in BitOps
  <2> DEFINE m == WordBits - 1
  <2>1. m \in Nat /\ 2^m = 2 * L BY <1>1
  <2> HIDE DEF m
  <2>2. Fits(a, m) /\ Fits(b, m) BY <1>1, <1>2, <2>1 DEF Fits
  <2>3. Bitwise(op, a, b, m) = ByBits(op, a, b) /\ Bitwise(op, a, b, m) \in Int
    BY <1>9, <2>1, <2>2, ByBitsIs
  <2>4. Fast(op, a, b) = Bitwise(op, a, b, m) BY <1>9 DEF Fast, BitOps, m
  <2> QED BY <1>9, <2>3, <2>4, IntegerMeaning DEF BitOps
<1> QED BY <1>5, <1>6, <1>7, <1>8, <1>9 DEF IntegerOps, BitOps

WordKinds == {"Int64", "Bits64"}

\* The two types that are as wide as the word.
LEMMA WordTypes ==
  ASSUME NEW k \in WordKinds
  PROVE  /\ WordType(k) \in NumberTypes /\ WordType(k).bits = WordBits
         /\ WordType(k).signed <=> k = "Int64"
         /\ k = "Int64" => Members(WordType(k)) = -(2 * Limit) .. 2 * Limit - 1
         /\ k = "Bits64" => Members(WordType(k)) = 0 .. 4 * Limit - 1
         /\ IsWord(k)
<1>1. WordBits \in Nat \ {0} /\ Word = 4 * Limit /\ Word = 2^WordBits /\ 2^(WordBits - 1) = 2 * Limit
  BY NumberSizes
<1>2. /\ WordType(k) = [signed |-> k = "Int64", bits |-> WordBits]
      /\ WordType(k) \in NumberTypes /\ WordType(k).bits = WordBits
      /\ WordType(k).signed <=> k = "Int64"
  BY <1>1 DEF WordType, Type, NumberTypes
<1>3. k = "Int64" => Members(WordType(k)) = -(2 * Limit) .. 2 * Limit - 1 BY <1>1, <1>2, MembersAre
<1>4. k = "Bits64" => Members(WordType(k)) = 0 .. 4 * Limit - 1
  <2> SUFFICES ASSUME k = "Bits64" PROVE Members(WordType(k)) = 0 .. 4 * Limit - 1 OBVIOUS
  <2>1. ~ WordType(k).signed BY <1>2
  <2> QED BY <1>1, <1>2, <2>1, MembersAre
<1> QED BY <1>2, <1>3, <1>4 DEF IsWord, WordKinds

\* The meaning of an operator on words, one operator at a time.
LEMMA WordMeaning ==
  ASSUME NEW k \in WordKinds, NEW a, NEW b
  PROVE  /\ Meaning(k, "add", a, b) = Cut(k, a + b)
         /\ Meaning(k, "sub", a, b) = Cut(k, a - b)
         /\ Meaning(k, "mul", a, b) = Cut(k, a * b)
         /\ Meaning(k, "div", a, b) = Cut(k, Quotient(a, b))
         /\ Meaning(k, "mod", a, b) = Cut(k, Remainder(a, b))
         /\ Meaning(k, "shiftl", a, b) = Cut(k, a * 2^(b % Word))
         /\ Meaning(k, "shiftr", a, b) = Cut(k, a \div 2^(b % Word))
         /\ Meaning(k, "and", a, b) = Cut(k, ByBits("and", a, b))
         /\ Meaning(k, "or", a, b) = Cut(k, ByBits("or", a, b))
         /\ Meaning(k, "xor", a, b) = Cut(k, ByBits("xor", a, b))
<1>1. k # "Integer" /\ Amount(k, b) = b % Word BY DEF Amount, WordKinds
<1> QED BY <1>1 DEF Meaning

\* Cut keeps a number modulo the word.
LEMMA CutIs ==
  ASSUME NEW k \in WordKinds, NEW n \in Int
  PROVE  /\ Cut(k, n) = Convert(WordType(k), n)
         /\ Cut(k, n) \in Members(WordType(k)) /\ Cut(k, n) \in Int
<1>1. WordType(k) \in NumberTypes /\ IsWord(k) BY WordTypes
<1>2. Cut(k, n) = Congruent(WordType(k), n) BY <1>1 DEF Cut
<1> QED BY <1>1, <1>2, CutOnly, CutTo

\* A shift by a count of the word type, with the count named.
LEMMA WordShifts == ASSUME NEW ty \in NumberTypes, ty.bits <= WordBits, WordBits \in Nat,  NEW a \in Members(ty), NEW b \in Int, NEW y \in Nat,
    Unsigned(b, WordBits) \in Nat,
    \/ Unsigned(b, WordBits) < ty.bits /\ y = Unsigned(b, WordBits)
    \/ ~ Unsigned(b, WordBits) < ty.bits /\ y >= ty.bits
  PROVE /\ a * 2^y \in Int /\ a \div 2^y \in Int
        /\ Arith("shiftl", ty, a, b, WordBits, LimitBits) = Convert(ty, a * 2^y)
        /\ Arith("shiftr", ty, a, b, WordBits, LimitBits) = Convert(ty, a \div 2^y)
<1>1. a * 2^y \in Int  BY ShiftsByCount
<1>2. a \div 2^y \in Int  BY ShiftsByCount
<1>3. Arith("shiftl", ty, a, b, WordBits, LimitBits) = Convert(ty, a * 2^y) BY ShiftsByCount, SMT
<1>4. Arith("shiftr", ty, a, b, WordBits, LimitBits) = Convert(ty, a \div 2^y) BY ShiftsByCount, SMT
<1> QED BY <1>1, <1>2, <1>3, <1>4

\* A word operator is the operator on integers, cut to the word.
LEMMA WordExact ==
  ASSUME NEW k \in WordKinds, NEW op \in WordOps,
         NEW a \in Members(WordType(k)), NEW b \in Members(WordType(k)),
         op \in {"div", "mod"} => b # 0
  PROVE  /\ WordOp(k, op, a, b) = Meaning(k, op, a, b)
         /\ WordOp(k, op, a, b) \in Members(WordType(k))
<1> DEFINE ty == WordType(k)
<1>1. ty \in NumberTypes /\ ty.bits = WordBits /\ WordBits \in Nat /\ Word = 2^WordBits /\ Word \in Nat \ {0}
  BY WordTypes, NumberSizes
<1>2. a \in Int /\ b \in Int BY <1>1, MembersAre
<1>3. k # "Integer" BY DEF WordKinds
<1>4. op \notin BitOps => WordOp(k, op, a, b) = Arith(op, ty, a, b, WordBits, LimitBits)
  BY <1>3 DEF WordOp, BitOps
<1> HIDE DEF ty
<1>5. op \in {"add", "sub", "mul", "div", "mod", "shiftl", "shiftr"} \cup BitOps
  BY <1>3 DEF WordOps, IntegerOps, BitOps
<1>6. \A n \in Int : Cut(k, n) = Convert(ty, n) /\ Cut(k, n) \in Members(ty) BY CutIs DEF ty
<1>7. CASE op \in {"add", "sub", "mul"}
  BY <1>2, <1>4, <1>7, <1>1, ExactSums, <1>6, WordMeaning DEF BitOps, ty
<1>8. CASE op \in {"div", "mod"}
  <2>1. /\ EuclidQuotient(a, b) = Quotient(a, b) /\ Quotient(a, b) \in Int
        /\ EuclidRemainder(a, b) = Remainder(a, b) /\ Remainder(a, b) \in Int
    BY <1>2, <1>8, QuotientIs
  <2>2. WordOp(k, op, a, b) = Arith(op, ty, a, b, WordBits, LimitBits) BY <1>4, <1>8 DEF BitOps
  <2>3. /\ Arith("div", ty, a, b, WordBits, LimitBits) = Convert(ty, EuclidQuotient(a, b))
        /\ Arith("mod", ty, a, b, WordBits, LimitBits) = Convert(ty, EuclidRemainder(a, b))
    BY <1>1, <1>8, ExactDivision DEF ty
  <2> QED BY <1>6, <1>8, <2>1, <2>2, <2>3, WordMeaning DEF ty
<1>9. CASE op \in {"shiftl", "shiftr"}
  <2> DEFINE y == b % Word
  <2>1. y \in Nat /\ Unsigned(b, WordBits) = y BY <1>1, <1>2, Divided DEF Unsigned
  <2>2. \/ Unsigned(b, WordBits) < ty.bits /\ y = Unsigned(b, WordBits)
        \/ ~ Unsigned(b, WordBits) < ty.bits /\ y >= ty.bits
    BY <1>1, <2>1
  <2> HIDE DEF y
  <2>3. /\ a * 2^y \in Int /\ a \div 2^y \in Int
        /\ Arith("shiftl", ty, a, b, WordBits, LimitBits) = Convert(ty, a * 2^y)
        /\ Arith("shiftr", ty, a, b, WordBits, LimitBits) = Convert(ty, a \div 2^y)
    BY <1>1, <2>1, <1>2, <2>2, WordShifts DEF ty
  <2>4. WordOp(k, op, a, b) = Arith(op, ty, a, b, WordBits, LimitBits) BY <1>4, <1>9 DEF BitOps
  <2> QED BY <1>6, <1>9, <2>3, <2>4, WordMeaning DEF ty, y
<1>10. CASE op \in BitOps
  <2>1. Fits(a, WordBits) /\ Fits(b, WordBits)
    <3>1. 2^(WordBits - 1) \in Nat /\ 2^WordBits = 2 * 2^(WordBits - 1) BY <1>1, TypePowers
    <3>2. a < 2^WordBits /\ -a <= 2^(WordBits - 1) /\ b < 2^WordBits /\ -b <= 2^(WordBits - 1)
      BY <1>1, MembersAre DEF ty
    <3> QED BY <1>2, <3>1, <3>2 DEF Fits
  <2>2. Bitwise(op, a, b, WordBits) = ByBits(op, a, b) /\ Bitwise(op, a, b, WordBits) \in Int
    BY <1>1, <1>2, <1>10, <2>1, ByBitsIs
  <2>3. WordOp(k, op, a, b) = Convert(ty, Bitwise(op, a, b, WordBits))
    BY <1>3, <1>10 DEF WordOp, BitOps, ty
  <2> QED BY <1>6, <1>10, <2>2, <2>3, WordMeaning DEF ty, BitOps
<1> QED BY <1>5, <1>7, <1>8, <1>9, <1>10

\* Negation of a word.
LEMMA WordNegateExact ==
  ASSUME NEW k \in WordKinds, NEW a \in Members(WordType(k))
  PROVE  /\ Arith("negate", WordType(k), a, 0, WordBits, LimitBits) = Cut(k, -a)
         /\ Cut(k, -a) \in Members(WordType(k))
<1>1. WordType(k) \in NumberTypes /\ WordType(k).bits = WordBits /\ WordBits \in Nat /\ WordBits <= WordBits
  BY WordTypes, NumberSizes
<1>2. a \in Int /\ -a \in Int /\ 0 \in Int BY <1>1, MembersAre
<1>3. Arith("negate", WordType(k), a, 0, WordBits, LimitBits) = Convert(WordType(k), -a)
  BY <1>1, <1>2, ExactSums
<1> QED BY <1>2, <1>3, CutIs

(***************************************************************************)
(* The memory of numbers: what each operator does with the cells and their *)
(* counts, one reference at a time.                                        *)
(***************************************************************************)

\* Words: an immediate, or a pointer to a cell or to none.
AnyWord == {Imm(n) : n \in Int} \cup {Ptr(c) : c \in Cells \cup {NoCell}}

\* Immediates and pointers are told apart.
LEMMA WordForms ==
  /\ \A n : Imm(n).imm /\ Imm(n).n = n
  /\ \A c : ~Ptr(c).imm /\ Ptr(c).n = c
  /\ \A n, k : Imm(n) = Imm(k) => n = k
  /\ \A c, d : Ptr(c) = Ptr(d) => c = d
  /\ \A n, c : Imm(n) # Ptr(c)
  /\ \A n : Imm(n) # NoWord
  /\ \A c \in Cells : Ptr(c) # NoWord
  /\ ~NoWord.imm
<1>1. /\ \A n : Imm(n).imm /\ Imm(n).n = n
      /\ \A c : ~Ptr(c).imm /\ Ptr(c).n = c
  BY DEF Imm, Ptr
<1>2. \A n, k : Imm(n) = Imm(k) => n = k BY <1>1
<1>3. \A c, d : Ptr(c) = Ptr(d) => c = d BY <1>1
<1>4. \A n, c : Imm(n) # Ptr(c) BY <1>1, Zenon
<1>5. \A c \in Cells : Ptr(c) # NoWord BY <1>3, NumberConstants DEF NoWord
<1> QED BY <1>1, <1>2, <1>3, <1>4, <1>5 DEF NoWord

\* The words a variable in use may hold.
LiveWord == {Imm(n) : n \in Int} \cup {Ptr(c) : c \in Cells}

\* A word that is in use is one or the other.
LEMMA LiveWords ==
  ASSUME NEW x \in AnyWord, x # NoWord
  PROVE  /\ x.imm => x.n \in Int /\ x = Imm(x.n)
         /\ ~x.imm => x.n \in Cells /\ x = Ptr(x.n)
<1>1. CASE \E n \in Int : x = Imm(n)
  <2> PICK n \in Int : x = Imm(n) BY <1>1
  <2> QED BY WordForms
<1>2. CASE \E c \in Cells : x = Ptr(c)
  <2> PICK c \in Cells : x = Ptr(c) BY <1>2
  <2> QED BY WordForms
<1> QED BY <1>1, <1>2 DEF AnyWord, NoWord

Holders(w, c) == {p \in Names : w[p] = Ptr(c)}
InHand(e, c) == IF e = Ptr(c) THEN 1 ELSE 0

(***************************************************************************)
(* In the middle of an operator: the variables of w stand for the numbers  *)
(* of m, one more reference e, if any, is in the operator's hand and       *)
(* stands for v, and every count is exact.                                 *)
(***************************************************************************)
Accounted(h, w, m, e, v) ==
  /\ h \in [Cells -> [rc : Nat, val : Int]]
  /\ w \in [Names -> AnyWord]
  /\ m \in [Names -> Int]
  /\ e \in AnyWord
  /\ v \in Int
  /\ \A c \in Cells : h[c].rc = Cardinality(Holders(w, c)) + InHand(e, c)
  /\ \A p \in Names : w[p] # NoWord => ValueIn(h, w[p]) = m[p]
  /\ e # NoWord => ValueIn(h, e) = v

\* Finitely many variables hold a cell.
LEMMA HoldersFinite ==
  ASSUME NEW w, NEW c
  PROVE  IsFiniteSet(Holders(w, c)) /\ Cardinality(Holders(w, c)) \in Nat
<1>1. Holders(w, c) \subseteq Names /\ IsFiniteSet(Names) BY NumberConstants DEF Holders
<1> QED BY <1>1, FS_Subset, FS_CardinalityType

\* A reference that is counted keeps its cell.
LEMMA HeldCounts ==
  ASSUME NEW h, NEW w, NEW m, NEW e, NEW v, Accounted(h, w, m, e, v), NEW c \in Cells
  PROVE  /\ h[c].rc \in Nat
         /\ e = Ptr(c) => h[c].rc >= 1
         /\ \A p \in Names : w[p] = Ptr(c) => h[c].rc >= 1
         /\ \A p, q \in Names : p # q /\ w[p] = Ptr(c) /\ w[q] = Ptr(c) => h[c].rc >= 2
         /\ \A p \in Names : e = Ptr(c) /\ w[p] = Ptr(c) => h[c].rc >= 2
<1> DEFINE H == Holders(w, c)  n == Cardinality(H)
<1>1. IsFiniteSet(H) /\ n \in Nat BY HoldersFinite
<1>2. h[c].rc = n + InHand(e, c) BY DEF Accounted
<1>3. ASSUME NEW p \in Names, w[p] = Ptr(c) PROVE n >= 1 BY <1>3, <1>1, FS_EmptySet DEF Holders
<1>4. ASSUME NEW p \in Names, NEW q \in Names, p # q, w[p] = Ptr(c), w[q] = Ptr(c) PROVE n >= 2
  <2>1. {p, q} \subseteq H BY <1>4 DEF Holders
  <2>2. Cardinality({p, q}) = 2
    <3>1. {p, q} = {p} \cup {q} /\ IsFiniteSet({p}) /\ Cardinality({p}) = 1 /\ q \notin {p}
      BY <1>4, FS_Singleton
    <3> HIDE <1>4
    <3> QED BY <3>1, FS_AddElement
  <2> QED BY <1>1, <2>1, <2>2, FS_Subset
<1>5. InHand(e, c) \in Nat /\ (e = Ptr(c) => InHand(e, c) = 1) BY DEF InHand
<1> HIDE DEF H, n
<1> QED BY <1>1, <1>2, <1>3, <1>4, <1>5

\* One variable lets go of its word, or takes one.
LEMMA HoldersOfDead ==
  ASSUME NEW w \in [Names -> AnyWord], NEW q \in Names, NEW c \in Cells
  PROVE  /\ w[q] = Ptr(c) => Cardinality(Holders([w EXCEPT ![q] = NoWord], c)) = Cardinality(Holders(w, c)) - 1
         /\ w[q] # Ptr(c) => Cardinality(Holders([w EXCEPT ![q] = NoWord], c)) = Cardinality(Holders(w, c))
<1>1. Holders([w EXCEPT ![q] = NoWord], c) = Holders(w, c) \ {q} BY WordForms DEF Holders
<1>2. w[q] = Ptr(c) <=> q \in Holders(w, c) BY DEF Holders
<1> QED BY <1>1, <1>2, HoldersFinite, FS_RemoveElement

\* A variable that is not in use takes a word.
LEMMA HoldersOfTaken ==
  ASSUME NEW w \in [Names -> AnyWord], NEW q \in Names, w[q] = NoWord, NEW x \in AnyWord, NEW c \in Cells
  PROVE  Cardinality(Holders([w EXCEPT ![q] = x], c)) = Cardinality(Holders(w, c)) + InHand(x, c)
<1>1. q \notin Holders(w, c) BY WordForms DEF Holders
<1>2. CASE x = Ptr(c)
  <2>1. Holders([w EXCEPT ![q] = x], c) = Holders(w, c) \cup {q} BY <1>2 DEF Holders
  <2> QED BY <1>1, <1>2, <2>1, HoldersFinite, FS_AddElement DEF InHand
<1>3. CASE x # Ptr(c)
  <2>1. Holders([w EXCEPT ![q] = x], c) = Holders(w, c) BY <1>1, <1>3 DEF Holders
  <2> QED BY <1>3, <2>1, HoldersFinite DEF InHand
<1> QED BY <1>2, <1>3

(***************************************************************************)
(* What an operator does with references, one step at a time.              *)
(***************************************************************************)
\* A fresh cell, in hand.
LEMMA NewIsAccounted ==
  ASSUME NEW h, NEW w, NEW m, NEW u, Accounted(h, w, m, NoWord, u), Free(h) # {}, NEW v \in Int
  PROVE  /\ Accounted(New(h, v).heap, w, m, New(h, v).word, v)
         /\ \E c \in Cells : h[c].rc = 0 /\ New(h, v).word = Ptr(c) /\ New(h, v).heap[c].rc = 1
<1> DEFINE c == CHOOSE d \in Free(h) : TRUE
           g == [h EXCEPT ![c] = [rc |-> 1, val |-> v]]
<1>1. c \in Cells /\ h[c].rc = 0 BY DEF Free
<1>2. New(h, v).heap = g /\ New(h, v).word = Ptr(c) BY DEF New, Result
<1> HIDE DEF c
<1>3. /\ h \in [Cells -> [rc : Nat, val : Int]] /\ w \in [Names -> AnyWord] /\ m \in [Names -> Int]
      /\ \A d \in Cells : h[d].rc = Cardinality(Holders(w, d)) + InHand(NoWord, d)
      /\ \A p \in Names : w[p] # NoWord => ValueIn(h, w[p]) = m[p]
  BY DEF Accounted
<1>4. g \in [Cells -> [rc : Nat, val : Int]] /\ g[c].rc = 1 /\ g[c].val = v /\ \A d \in Cells \ {c} : g[d] = h[d]
  BY <1>1, <1>3
<1>5. Ptr(c) \in AnyWord /\ Ptr(c) # NoWord BY <1>1, WordForms DEF AnyWord
<1>6. ASSUME NEW d \in Cells PROVE g[d].rc = Cardinality(Holders(w, d)) + InHand(Ptr(c), d)
  BY WordForms, HoldersFinite, <1>1, <1>3, <1>4 DEF InHand
<1>7. ASSUME NEW p \in Names, w[p] # NoWord PROVE ValueIn(g, w[p]) = m[p]
  BY <1>1, HeldCounts, <1>3, <1>7, LiveWords, <1>4 DEF ValueIn
<1>8. ValueIn(g, Ptr(c)) = v BY <1>4, WordForms DEF ValueIn
<1> HIDE DEF g
<1>9. Accounted(g, w, m, Ptr(c), v) BY <1>3, <1>4, <1>5, <1>6, <1>7, <1>8 DEF Accounted
<1> QED BY <1>1, <1>2, <1>4, <1>9

\* A word that is no reference costs nothing to hold.
LEMMA HoldImmediate ==
  ASSUME NEW h, NEW w, NEW m, NEW u, Accounted(h, w, m, NoWord, u), NEW v \in Int
  PROVE  Accounted(h, w, m, Imm(v), v)
<1>1. \A c \in Cells : InHand(NoWord, c) = 0 /\ InHand(Imm(v), c) = 0 BY WordForms DEF InHand
<1>2. Imm(v) \in AnyWord /\ ValueIn(h, Imm(v)) = v BY WordForms DEF AnyWord, ValueIn
<1> QED BY <1>1, <1>2 DEF Accounted

\* A variable's reference is taken in hand.
LEMMA TakeInHand ==
  ASSUME NEW h, NEW w, NEW m, NEW u, Accounted(h, w, m, NoWord, u), NEW q \in Names, w[q] # NoWord
  PROVE  Accounted(h, [w EXCEPT ![q] = NoWord], m, w[q], m[q])
<1>1. /\ h \in [Cells -> [rc : Nat, val : Int]] /\ w \in [Names -> AnyWord] /\ m \in [Names -> Int]
      /\ \A d \in Cells : h[d].rc = Cardinality(Holders(w, d)) + InHand(NoWord, d)
      /\ \A p \in Names : w[p] # NoWord => ValueIn(h, w[p]) = m[p]
  BY DEF Accounted
<1>2. NoWord \in AnyWord BY DEF AnyWord, NoWord
<1>3. [w EXCEPT ![q] = NoWord] \in [Names -> AnyWord] BY <1>1, <1>2
<1>4. ASSUME NEW d \in Cells
      PROVE  h[d].rc = Cardinality(Holders([w EXCEPT ![q] = NoWord], d)) + InHand(w[q], d)
  <2>1. InHand(NoWord, d) = 0 /\ (InHand(w[q], d) = IF w[q] = Ptr(d) THEN 1 ELSE 0)
    BY WordForms DEF InHand
  <2>2. Cardinality(Holders(w, d)) \in Nat BY HoldersFinite
  <2>3. CASE w[q] = Ptr(d)
    <3>1. Cardinality(Holders([w EXCEPT ![q] = NoWord], d)) = Cardinality(Holders(w, d)) - 1
      BY <1>1, <2>3, HoldersOfDead
    <3> QED BY <1>1, <2>1, <2>2, <2>3, <3>1
  <2>4. CASE w[q] # Ptr(d) BY <1>1, <2>4, HoldersOfDead, <2>1, <2>2
  <2> QED BY <2>3, <2>4
<1>5. \A p \in Names : [w EXCEPT ![q] = NoWord][p] # NoWord => ValueIn(h, [w EXCEPT ![q] = NoWord][p]) = m[p]
  BY <1>1
<1>6. w[q] \in AnyWord /\ m[q] \in Int /\ ValueIn(h, w[q]) = m[q] BY <1>1
<1> QED BY <1>1, <1>3, <1>4, <1>5, <1>6 DEF Accounted

\* The hand lets go.
LEMMA DropHand ==
  ASSUME NEW h, NEW w, NEW m, NEW e, NEW v, Accounted(h, w, m, e, v), e # NoWord
  PROVE  /\ Accounted(Drop(h, e), w, m, NoWord, v)
         /\ Free(h) \subseteq Free(Drop(h, e))
         /\ ~e.imm /\ h[e.n].rc = 1 => Free(Drop(h, e)) # {}
<1> DEFINE g == Drop(h, e)
<1>1. /\ h \in [Cells -> [rc : Nat, val : Int]] /\ w \in [Names -> AnyWord] /\ m \in [Names -> Int]
      /\ e \in AnyWord /\ v \in Int
      /\ \A d \in Cells : h[d].rc = Cardinality(Holders(w, d)) + InHand(e, d)
      /\ \A p \in Names : w[p] # NoWord => ValueIn(h, w[p]) = m[p]
  BY DEF Accounted
<1>2. NoWord \in AnyWord /\ \A d \in Cells : InHand(NoWord, d) = 0
  BY WordForms DEF AnyWord, NoWord, InHand
<1>3. CASE e.imm
  <2>1. g = h BY <1>3 DEF Drop
  <2>2. \A d \in Cells : InHand(e, d) = 0 BY <1>3, WordForms DEF InHand
  <2> HIDE DEF g
  <2> QED BY <1>1, <1>2, <1>3, <2>1, <2>2 DEF Accounted, g
<1>4. CASE ~e.imm
  <2> DEFINE c == e.n
  <2>1. c \in Cells /\ e = Ptr(c) BY <1>1, <1>4, LiveWords
  <2> HIDE DEF c
  <2>2. h[c].rc \in Nat /\ h[c].rc >= 1 /\ h[c].val \in Int BY <1>1, <2>1, HeldCounts
  <2>3. g = IF h[c].rc = 1 THEN [h EXCEPT ![c] = [rc |-> 0, val |-> 0]] ELSE [h EXCEPT ![c].rc = @ - 1]
    BY <1>4 DEF Drop, c
  <2> HIDE DEF g
  <2>4. /\ g \in [Cells -> [rc : Nat, val : Int]] /\ g[c].rc = h[c].rc - 1
        /\ h[c].rc # 1 => g[c].val = h[c].val
        /\ \A d \in Cells \ {c} : g[d] = h[d]
    <3>1. CASE h[c].rc = 1 BY <1>1, <2>1, <2>2, <2>3, <3>1
    <3>2. CASE h[c].rc # 1
      <4>1. g = [h EXCEPT ![c] = [rc |-> h[c].rc - 1, val |-> h[c].val]]
        <5>1. h[c] \in [rc : Nat, val : Int] /\ h[c] = [rc |-> h[c].rc, val |-> h[c].val]
          BY <1>1, <2>1
        <5>2. [h[c] EXCEPT !.rc = h[c].rc - 1] = [rc |-> h[c].rc - 1, val |-> h[c].val] BY <5>1
        <5> QED BY <2>3, <3>2, <5>2
      <4> QED BY <1>1, <2>1, <2>2, <3>2, <4>1
    <3> QED BY <3>1, <3>2
  <2>5. ASSUME NEW d \in Cells PROVE g[d].rc = Cardinality(Holders(w, d)) + InHand(NoWord, d)
    BY <2>1, WordForms, <1>1, HoldersFinite, <1>2, <2>2, <2>4 DEF InHand
  <2>6. ASSUME NEW p \in Names, w[p] # NoWord PROVE ValueIn(g, w[p]) = m[p]
    BY <2>1, HeldCounts, <1>1, <2>6, LiveWords, <2>2, <2>4 DEF ValueIn
  <2>7. Free(h) \subseteq Free(g) /\ (h[c].rc = 1 => c \in Free(g))
    BY <1>1, <2>1, <2>2, <2>4 DEF Free
  <2> QED BY <1>1, <1>2, <2>1, <2>4, <2>5, <2>6, <2>7 DEF Accounted, g, c
<1> QED BY <1>3, <1>4

\* A variable lets go.
LEMMA DropVariable ==
  ASSUME NEW h, NEW w, NEW m, NEW e, NEW v, Accounted(h, w, m, e, v), NEW q \in Names, w[q] # NoWord
  PROVE  /\ Accounted(Drop(h, w[q]), [w EXCEPT ![q] = NoWord], m, e, v)
         /\ Free(h) \subseteq Free(Drop(h, w[q]))
<1> DEFINE x == w[q]  g == Drop(h, x)  w2 == [w EXCEPT ![q] = NoWord]
<1>1. /\ h \in [Cells -> [rc : Nat, val : Int]] /\ w \in [Names -> AnyWord] /\ m \in [Names -> Int]
      /\ e \in AnyWord /\ v \in Int
      /\ \A d \in Cells : h[d].rc = Cardinality(Holders(w, d)) + InHand(e, d)
      /\ \A p \in Names : w[p] # NoWord => ValueIn(h, w[p]) = m[p]
      /\ e # NoWord => ValueIn(h, e) = v
  BY DEF Accounted
<1>2. NoWord \in AnyWord /\ x \in AnyWord /\ x # NoWord BY <1>1 DEF AnyWord, NoWord
<1>3. /\ w2 \in [Names -> AnyWord] /\ w2[q] = NoWord
      /\ \A p \in Names : w2[p] # NoWord => p # q /\ w2[p] = w[p]
  BY <1>1, <1>2
<1>4. CASE x.imm
  <2>1. g = h BY <1>4 DEF Drop
  <2>2. \A d \in Cells : x # Ptr(d) BY <1>4, WordForms
  <2>3. \A d \in Cells : Cardinality(Holders(w2, d)) = Cardinality(Holders(w, d))
    BY <1>1, <2>2, HoldersOfDead
  <2> HIDE DEF w2, g
  <2> QED BY <1>1, <1>3, <2>1, <2>3 DEF Accounted, g, w2, x
<1>5. CASE ~x.imm
  <2> DEFINE c == x.n
  <2>1. c \in Cells /\ x = Ptr(c) BY <1>2, <1>5, LiveWords
  <2> HIDE DEF c
  <2>2. h[c].rc \in Nat /\ h[c].rc >= 1 /\ h[c].val \in Int BY <1>1, <2>1, HeldCounts
  <2>3. g = IF h[c].rc = 1 THEN [h EXCEPT ![c] = [rc |-> 0, val |-> 0]] ELSE [h EXCEPT ![c].rc = @ - 1]
    BY <1>5 DEF Drop, c
  <2> HIDE DEF g
  <2>4. /\ g \in [Cells -> [rc : Nat, val : Int]] /\ g[c].rc = h[c].rc - 1
        /\ h[c].rc # 1 => g[c].val = h[c].val
        /\ \A d \in Cells \ {c} : g[d] = h[d]
    <3>1. CASE h[c].rc = 1 BY <1>1, <2>1, <2>2, <2>3, <3>1
    <3>2. CASE h[c].rc # 1
      <4>1. g = [h EXCEPT ![c] = [rc |-> h[c].rc - 1, val |-> h[c].val]]
        <5>1. h[c] \in [rc : Nat, val : Int] /\ h[c] = [rc |-> h[c].rc, val |-> h[c].val]
          BY <1>1, <2>1
        <5>2. [h[c] EXCEPT !.rc = h[c].rc - 1] = [rc |-> h[c].rc - 1, val |-> h[c].val] BY <5>1
        <5> QED BY <2>3, <3>2, <5>2
      <4> QED BY <1>1, <2>1, <2>2, <3>2, <4>1
    <3> QED BY <3>1, <3>2
  <2>5. ASSUME NEW d \in Cells PROVE g[d].rc = Cardinality(Holders(w2, d)) + InHand(e, d)
    <3>1. Cardinality(Holders(w, d)) \in Nat /\ h[d].rc \in Nat /\ InHand(e, d) \in Nat
      BY <1>1, HoldersFinite DEF InHand
    <3>2. CASE d = c
      <4>1. Cardinality(Holders(w2, d)) = Cardinality(Holders(w, d)) - 1
        BY <1>1, <2>1, <3>2, HoldersOfDead
      <4> HIDE DEF w2
      <4> QED BY <1>1, <2>2, <2>4, <3>1, <3>2, <4>1
    <3>3. CASE d # c
      <4>1. x # Ptr(d) BY <2>1, <3>3, WordForms
      <4>2. Cardinality(Holders(w2, d)) = Cardinality(Holders(w, d)) BY <1>1, <4>1, HoldersOfDead
      <4> HIDE DEF w2
      <4> QED BY <1>1, <2>4, <3>1, <3>3, <4>2
    <3> QED BY <3>2, <3>3
  <2>6. ASSUME NEW p \in Names, w2[p] # NoWord PROVE ValueIn(g, w2[p]) = m[p]
    BY <1>3, <2>6, <2>1, HeldCounts, <1>1, LiveWords, <2>2, <2>4 DEF ValueIn
  <2>7. e # NoWord => ValueIn(g, e) = v
    <3> SUFFICES ASSUME e # NoWord PROVE ValueIn(g, e) = v OBVIOUS
    <3>2. e = Ptr(c) => h[c].rc >= 2 BY <2>1, HeldCounts
    <3>3. e.imm \/ (e.n \in Cells /\ e = Ptr(e.n)) BY <1>1, LiveWords
    <3>4. e.imm \/ (e.n \in Cells /\ g[e.n].val = h[e.n].val) BY <2>2, <2>4, <3>2, <3>3
    <3> QED BY <1>1, <3>4 DEF ValueIn
  <2>8. Free(h) \subseteq Free(g) BY <1>1, <2>1, <2>2, <2>4 DEF Free
  <2> HIDE DEF w2, x
  <2>9. Accounted(g, w2, m, e, v) BY <1>1, <1>3, <2>4, <2>5, <2>6, <2>7 DEF Accounted
  <2> QED BY <2>8, <2>9 DEF g, w2, x
<1> QED BY <1>4, <1>5

\* A cell that only the hand holds is written.
LEMMA StoreInHand ==
  ASSUME NEW h, NEW w, NEW m, NEW e, NEW v, Accounted(h, w, m, e, v), e # NoWord, Unique(h, e), NEW u \in Int
  PROVE  Accounted(Store(h, e, u), w, m, e, u)
<1> DEFINE c == e.n  g == Store(h, e, u)
<1>1. /\ h \in [Cells -> [rc : Nat, val : Int]] /\ w \in [Names -> AnyWord] /\ m \in [Names -> Int]
      /\ e \in AnyWord
      /\ \A d \in Cells : h[d].rc = Cardinality(Holders(w, d)) + InHand(e, d)
      /\ \A p \in Names : w[p] # NoWord => ValueIn(h, w[p]) = m[p]
  BY DEF Accounted
<1>2. c \in Cells /\ e = Ptr(c) /\ h[c].rc = 1 BY <1>1, LiveWords DEF Unique
<1>3. g = [h EXCEPT ![c] = [rc |-> h[c].rc, val |-> u]]
  <2>1. h[c] \in [rc : Nat, val : Int] /\ h[c] = [rc |-> h[c].rc, val |-> h[c].val] BY <1>1, <1>2
  <2>2. [h[c] EXCEPT !.val = u] = [rc |-> h[c].rc, val |-> u] BY <2>1
  <2> QED BY <2>2 DEF Store
<1> HIDE DEF c, g
<1>4. /\ g \in [Cells -> [rc : Nat, val : Int]] /\ g[c].rc = h[c].rc /\ g[c].val = u
      /\ \A d \in Cells \ {c} : g[d] = h[d]
  BY <1>1, <1>2, <1>3
<1>5. ASSUME NEW p \in Names, w[p] # NoWord PROVE ValueIn(g, w[p]) = m[p]
  <2>1. w[p] # Ptr(c) BY <1>2, HeldCounts
  <2>2. w[p].imm \/ (w[p].n \in Cells /\ w[p].n # c) BY <1>1, <1>5, <2>1, LiveWords
  <2> QED BY <1>1, <1>4, <1>5, <2>2 DEF ValueIn
<1>6. ValueIn(g, e) = u BY <1>2, <1>4, WordForms DEF ValueIn
<1>7. \A d \in Cells : g[d].rc = h[d].rc BY <1>4
<1> QED BY <1>1, <1>4, <1>5, <1>6, <1>7 DEF Accounted, g

\* The hand's reference becomes a variable's.
LEMMA PutDown ==
  ASSUME NEW h, NEW w, NEW m, NEW e, NEW v, Accounted(h, w, m, e, v), NEW q \in Names, w[q] = NoWord, e # NoWord
  PROVE  Accounted(h, [w EXCEPT ![q] = e], [m EXCEPT ![q] = v], NoWord, 0)
<1>1. /\ h \in [Cells -> [rc : Nat, val : Int]] /\ w \in [Names -> AnyWord] /\ m \in [Names -> Int]
      /\ e \in AnyWord /\ v \in Int
      /\ \A d \in Cells : h[d].rc = Cardinality(Holders(w, d)) + InHand(e, d)
      /\ \A p \in Names : w[p] # NoWord => ValueIn(h, w[p]) = m[p]
      /\ ValueIn(h, e) = v
  BY DEF Accounted
<1>2. NoWord \in AnyWord /\ \A d \in Cells : InHand(NoWord, d) = 0
  BY WordForms DEF AnyWord, NoWord, InHand
<1>3. ASSUME NEW d \in Cells
      PROVE  h[d].rc = Cardinality(Holders([w EXCEPT ![q] = e], d)) + InHand(NoWord, d)
  <2>1. Cardinality(Holders([w EXCEPT ![q] = e], d)) = Cardinality(Holders(w, d)) + InHand(e, d)
    BY <1>1, HoldersOfTaken
  <2>2. Cardinality(Holders(w, d)) \in Nat /\ InHand(e, d) \in Nat BY HoldersFinite DEF InHand
  <2> QED BY <1>1, <1>2, <2>1, <2>2
<1>4. /\ [w EXCEPT ![q] = e] \in [Names -> AnyWord] /\ [m EXCEPT ![q] = v] \in [Names -> Int]
      /\ \A p \in Names : [w EXCEPT ![q] = e][p] # NoWord =>
           ValueIn(h, [w EXCEPT ![q] = e][p]) = [m EXCEPT ![q] = v][p]
  BY <1>1
<1> DEFINE w2 == [w EXCEPT ![q] = e]  m2 == [m EXCEPT ![q] = v]
<1>5. /\ w2 \in [Names -> AnyWord] /\ m2 \in [Names -> Int]
      /\ \A d \in Cells : h[d].rc = Cardinality(Holders(w2, d)) + InHand(NoWord, d)
      /\ \A p \in Names : w2[p] # NoWord => ValueIn(h, w2[p]) = m2[p]
  BY <1>3, <1>4
<1> HIDE DEF w2, m2
<1>6. Accounted(h, w2, m2, NoWord, 0) BY <1>1, <1>2, <1>5 DEF Accounted
<1> QED BY <1>6 DEF w2, m2

\* What a variable that is not in use stands for does not matter.
LEMMA DeadMeansNothing ==
  ASSUME NEW h, NEW w, NEW m, NEW e, NEW v, Accounted(h, w, m, e, v), NEW q \in Names, w[q] = NoWord, NEW u \in Int
  PROVE  Accounted(h, w, [m EXCEPT ![q] = u], e, v)
BY DEF Accounted

\* An empty hand stands for nothing.
LEMMA EmptyHand ==
  ASSUME NEW h, NEW w, NEW m, NEW v, Accounted(h, w, m, NoWord, v), NEW u \in Int
  PROVE  Accounted(h, w, m, NoWord, u)
BY DEF Accounted

\* A second reference to what a variable holds.
LEMMA DupIsAccounted ==
  ASSUME NEW h, NEW w, NEW m, NEW u, Accounted(h, w, m, NoWord, u), NEW p \in Names, w[p] # NoWord
  PROVE  Accounted(Dup(h, w[p]), w, m, w[p], m[p])
<1> DEFINE x == w[p]  g == Dup(h, x)
<1>1. /\ h \in [Cells -> [rc : Nat, val : Int]] /\ w \in [Names -> AnyWord] /\ m \in [Names -> Int]
      /\ \A d \in Cells : h[d].rc = Cardinality(Holders(w, d)) + InHand(NoWord, d)
      /\ \A q \in Names : w[q] # NoWord => ValueIn(h, w[q]) = m[q]
  BY DEF Accounted
<1>2. x \in AnyWord /\ m[p] \in Int /\ ValueIn(h, x) = m[p] BY <1>1
<1>3. \A d \in Cells : InHand(NoWord, d) = 0 BY WordForms DEF InHand
<1>4. CASE x.imm
  <2>1. \A d \in Cells : InHand(x, d) = 0 BY <1>4, WordForms DEF InHand
  <2>2. g = h BY <1>4 DEF Dup
  <2> HIDE DEF g, x
  <2> QED BY <1>1, <1>2, <1>3, <2>1, <2>2 DEF Accounted, g, x
<1>5. CASE ~x.imm
  <2> DEFINE c == x.n
  <2>1. c \in Cells /\ x = Ptr(c) BY <1>2, <1>5, LiveWords
  <2>2. g = [h EXCEPT ![c] = [rc |-> h[c].rc + 1, val |-> h[c].val]]
    <3>1. h[c] \in [rc : Nat, val : Int] /\ h[c] = [rc |-> h[c].rc, val |-> h[c].val] BY <1>1, <2>1
    <3>2. [h[c] EXCEPT !.rc = h[c].rc + 1] = [rc |-> h[c].rc + 1, val |-> h[c].val] BY <3>1
    <3> QED BY <1>5, <3>2 DEF Dup
  <2> HIDE DEF c, g
  <2>3. /\ g \in [Cells -> [rc : Nat, val : Int]] /\ g[c].rc = h[c].rc + 1
        /\ \A d \in Cells : g[d].val = h[d].val
        /\ \A d \in Cells \ {c} : g[d] = h[d]
    BY <1>1, <2>1, <2>2
  <2>4. ASSUME NEW d \in Cells PROVE g[d].rc = Cardinality(Holders(w, d)) + InHand(x, d)
    BY <2>1, WordForms, <1>1, HoldersFinite, <1>3, <2>3 DEF InHand
  <2>5. ASSUME NEW y \in AnyWord, y # NoWord PROVE ValueIn(g, y) = ValueIn(h, y)
    BY <2>3, <2>5, LiveWords DEF ValueIn
  <2> HIDE DEF x
  <2>6. ValueIn(g, x) = m[p] BY <1>2, <2>5 DEF x
  <2>7. \A q \in Names : w[q] # NoWord => ValueIn(g, w[q]) = m[q] BY <1>1, <2>5
  <2> QED BY <1>1, <1>2, <2>3, <2>4, <2>6, <2>7 DEF Accounted, g, x
<1> QED BY <1>4, <1>5

\* An operator that gives number n in a word, the variables of w left.
Gives(r, w, m, n) == Accounted(r.heap, w, m, r.word, n) /\ r.word # NoWord
\* An Integer has one form: it is an immediate when it fits.
OneForm(x, n) == x.imm <=> InImmediate(n)

\* A result is a heap and a word.
LEMMA ResultParts == \A h, x : Result(h, x).heap = h /\ Result(h, x).word = x
BY DEF Result

\* The constructors: an immediate or a fresh cell (idris2rc2_mkIntegerI64 and others).
LEMMA MakeGives ==
  ASSUME NEW k, NEW h, NEW w, NEW m, NEW u, Accounted(h, w, m, NoWord, u), Free(h) # {}, NEW n \in Int
  PROVE  /\ Gives(Make(k, h, n), w, m, n)
         /\ k = "Integer" => OneForm(Make(k, h, n).word, n)
<1>1. /\ Gives(Result(h, Imm(n)), w, m, n)
      /\ InImmediate(n) => OneForm(Result(h, Imm(n)).word, n)
  BY HoldImmediate, WordForms, ResultParts DEF Gives, OneForm
<1>2. /\ Gives(New(h, n), w, m, n)
      /\ ~InImmediate(n) => OneForm(New(h, n).word, n)
  <2>1. PICK c \in Cells : New(h, n).word = Ptr(c) BY NewIsAccounted
  <2> QED BY <2>1, NewIsAccounted, WordForms DEF Gives, OneForm
<1> DEFINE small == \/ k \in {"Integer", "Int64"} /\ InImmediate(n)
                    \/ k = "Bits64" /\ n < 2 * Limit
<1>3. Make(k, h, n) = IF small THEN Result(h, Imm(n)) ELSE New(h, n) BY DEF Make
<1>4. k = "Integer" => (small <=> InImmediate(n)) OBVIOUS
<1> HIDE DEF small
<1>5. CASE small BY <1>1, <1>3, <1>4, <1>5
<1>6. CASE ~small BY <1>2, <1>3, <1>4, <1>6
<1> QED BY <1>5, <1>6

\* idris2rc2_integerNormalize keeps the number and leaves a cell to what needs one.
LEMMA NormalizeGives ==
  ASSUME NEW h, NEW w, NEW m, NEW e, NEW n, Accounted(h, w, m, e, n), e # NoWord, ~e.imm
  PROVE  /\ Gives(Normalize(h, e), w, m, n)
         /\ OneForm(Normalize(h, e).word, n)
<1>1. n \in Int /\ h[e.n].val = n /\ Limit \in Nat \ {0} /\ Word = 4 * Limit
  BY NumberSizes DEF Accounted, ValueIn
<1>2. Gives(Result(h, e), w, m, n) /\ (~InImmediate(n) => OneForm(e, n))
  BY ResultParts DEF Gives, OneForm
<1>3. Accounted(Drop(h, e), w, m, NoWord, n) BY DropHand
<1>4. Gives(Result(Drop(h, e), Imm(n)), w, m, n) /\ (InImmediate(n) => OneForm(Imm(n), n))
  BY <1>1, <1>3, HoldImmediate, ResultParts, WordForms DEF Gives, OneForm
<1> DEFINE size == Limbs(n)  mag == Abs(n)
<1>5. Normalize(h, e) =
        CASE size = 0 -> Result(Drop(h, e), Imm(0))
          [] size \notin {-1, 0, 1} -> Result(h, e)
          [] size = 1 /\ mag >= Limit -> Result(h, e)
          [] size = -1 /\ mag > Limit -> Result(h, e)
          [] OTHER -> Result(Drop(h, e), Imm(size * mag))
  BY <1>1 DEF Normalize
<1>6. \/ n = 0 /\ size = 0
      \/ n > 0 /\ mag = n /\ n < 4 * Limit /\ size = 1
      \/ n < 0 /\ mag = -n /\ -n < 4 * Limit /\ size = -1
      \/ n >= 4 * Limit /\ mag = n /\ size = 2
      \/ -n >= 4 * Limit /\ mag = -n /\ size = -2
  BY <1>1 DEF Limbs, Abs, Sgn
<1> HIDE DEF size, mag
<1>7. InImmediate(n) <=> (-Limit <= n /\ n < Limit) BY DEF InImmediate
<1>8. \/ Normalize(h, e) = Result(h, e) /\ ~InImmediate(n)
      \/ Normalize(h, e) = Result(Drop(h, e), Imm(n)) /\ InImmediate(n)
  <2>1. CASE n = 0 /\ size = 0 BY <1>1, <1>7, <2>1, <1>5
  <2>2. CASE n > 0 /\ mag = n /\ n < 4 * Limit /\ size = 1 BY <1>1, <1>7, <2>2, <1>5
  <2>3. CASE n < 0 /\ mag = -n /\ -n < 4 * Limit /\ size = -1 BY <1>1, <1>7, <2>3, <1>5
  <2>4. CASE size \in {-2, 2} /\ (n >= 4 * Limit \/ -n >= 4 * Limit) BY <1>1, <1>7, <2>4, <1>5
  <2> QED BY <1>6, <2>1, <2>2, <2>3, <2>4
<1> QED BY <1>2, <1>4, <1>8, ResultParts

\* A fresh cell is nobody's.
LEMMA NewGives ==
  ASSUME NEW h, NEW w, NEW m, NEW u, Accounted(h, w, m, NoWord, u), Free(h) # {}, NEW n \in Int
  PROVE  /\ Accounted(New(h, n).heap, w, m, New(h, n).word, n)
         /\ New(h, n).word # NoWord /\ ~New(h, n).word.imm
         /\ \A p \in Names : New(h, n).word # w[p]
<1>1. PICK c \in Cells : h[c].rc = 0 /\ New(h, n).word = Ptr(c) BY NewIsAccounted
<1>2. ASSUME NEW p \in Names, w[p] = Ptr(c) PROVE FALSE BY <1>1, <1>2, HeldCounts
<1> QED BY <1>1, <1>2, NewIsAccounted, WordForms

Dead(w, p) == [w EXCEPT ![p] = NoWord]

\* Variables that go out of use.
LEMMA Deaths ==
  ASSUME NEW w \in [Names -> AnyWord], NEW p \in Names, NEW q \in Names
  PROVE  /\ Dead(w, p) \in [Names -> AnyWord] /\ Dead(w, p)[p] = NoWord
         /\ p # q => Dead(w, p)[q] = w[q]
         /\ Dead(Dead(w, p), q) = Dead(Dead(w, q), p)
<1>1. NoWord \in AnyWord BY DEF AnyWord, NoWord
<1> QED BY <1>1 DEF Dead

\* Two different variables with one cell: it is not the only reference.
LEMMA UniqueHolder ==
  ASSUME NEW h, NEW w, NEW m, NEW u, Accounted(h, w, m, NoWord, u), NEW p \in Names, NEW q \in Names,
         p # q, w[p] # NoWord, Unique(h, w[p])
  PROVE  w[q] # w[p] /\ ~w[p].imm
<1>1. w[p] \in AnyWord BY DEF Accounted
<1>2. w[p].n \in Cells /\ w[p] = Ptr(w[p].n) /\ h[w[p].n].rc = 1 /\ ~w[p].imm
  BY <1>1, LiveWords DEF Unique
<1> DEFINE c == w[p].n
<1>3. c \in Cells /\ w[p] = Ptr(c) /\ h[c].rc = 1 BY <1>2
<1> HIDE DEF c
<1>4. w[q] = Ptr(c) => h[c].rc >= 2 BY <1>3, HeldCounts
<1> QED BY <1>2, <1>3, <1>4

(***************************************************************************)
(* The three ways to a result of two operands: the cell of the left one,   *)
(* of the right one, or a new word; both operands are given up.            *)
(***************************************************************************)
LEMMA LeftIsWritten ==
  ASSUME NEW h, NEW w, NEW m, NEW u, Accounted(h, w, m, NoWord, u), NEW p \in Names, NEW q \in Names,
         p # q, w[p] # NoWord, w[q] # NoWord, Unique(h, w[p]), NEW n \in Int
  PROVE  Accounted(Drop(Store(h, w[p], n), w[q]), Dead(Dead(w, p), q), m, w[p], n)
<1>1. w \in [Names -> AnyWord] BY DEF Accounted
<1>2. Accounted(h, Dead(w, p), m, w[p], m[p]) BY TakeInHand DEF Dead
<1>3. Accounted(Store(h, w[p], n), Dead(w, p), m, w[p], n) BY <1>2, StoreInHand
<1>4. Dead(w, p)[q] = w[q] BY <1>1, Deaths
<1> DEFINE w1 == Dead(w, p)
<1> HIDE DEF w1
<1>5. Accounted(Drop(Store(h, w[p], n), w1[q]), [w1 EXCEPT ![q] = NoWord], m, w[p], n)
  BY <1>3, <1>4, DropVariable DEF w1
<1> QED BY <1>4, <1>5 DEF w1, Dead

\* A result that is in hand: both operands are let go.
LEMMA NewIsWritten ==
  ASSUME NEW h, NEW w, NEW m, NEW e, NEW n, Accounted(h, w, m, e, n), NEW p \in Names, NEW q \in Names,
         p # q, w[p] # NoWord, w[q] # NoWord
  PROVE  Accounted(Drop(Drop(h, w[p]), w[q]), Dead(Dead(w, p), q), m, e, n)
<1>1. w \in [Names -> AnyWord] BY DEF Accounted
<1>2. Accounted(Drop(h, w[p]), Dead(w, p), m, e, n) BY DropVariable DEF Dead
<1>3. Dead(w, p)[q] = w[q] BY <1>1, Deaths
<1> DEFINE w1 == Dead(w, p)
<1> HIDE DEF w1
<1>4. Accounted(Drop(Drop(h, w[p]), w1[q]), [w1 EXCEPT ![q] = NoWord], m, e, n)
  BY <1>2, <1>3, DropVariable DEF w1
<1> QED BY <1>3, <1>4 DEF w1, Dead

\* The slow path of a binary operator (integerBinopSlow).
LEMMA BinopSlowGives ==
  ASSUME NEW h, NEW w, NEW m, NEW u, Accounted(h, w, m, NoWord, u), Free(h) # {},
         NEW p \in Names, NEW q \in Names, p # q, w[p] # NoWord, w[q] # NoWord, NEW n \in Int
  PROVE  /\ Gives(BinopSlow(h, w[p], w[q], n), Dead(Dead(w, p), q), m, n)
         /\ OneForm(BinopSlow(h, w[p], w[q], n).word, n)
<1> DEFINE x == w[p]  y == w[q]  w2 == Dead(Dead(w, p), q)
           dst == IF Unique(h, x) THEN Result(Store(h, x, n), x)
                  ELSE IF Unique(h, y) THEN Result(Store(h, y, n), y)
                  ELSE New(h, n)
           h1 == IF dst.word = x THEN dst.heap ELSE Drop(dst.heap, x)
           h2 == IF dst.word = y THEN h1 ELSE Drop(h1, y)
<1>1. BinopSlow(h, x, y, n) = Normalize(h2, dst.word) BY DEF BinopSlow
<1>2. Accounted(h2, w2, m, dst.word, n) /\ dst.word # NoWord /\ ~dst.word.imm
  <2>1. CASE Unique(h, x)
    <3>1. y # x /\ ~x.imm BY <2>1, UniqueHolder
    <3>2. dst.heap = Store(h, x, n) /\ dst.word = x BY <2>1, ResultParts
    <3>3. h2 = Drop(Store(h, x, n), y) BY <3>1, <3>2
    <3>4. Accounted(Drop(Store(h, x, n), y), w2, m, x, n) BY <2>1, LeftIsWritten
    <3> HIDE DEF dst, h1, h2, w2
    <3> QED BY <3>1, <3>2, <3>3, <3>4
  <2>2. CASE ~Unique(h, x) /\ Unique(h, y)
    <3>1. x # y /\ ~y.imm BY <2>2, UniqueHolder
    <3>2. dst.heap = Store(h, y, n) /\ dst.word = y BY <2>2, ResultParts
    <3>3. h2 = Drop(Store(h, y, n), x) BY <3>1, <3>2
    <3>4. Accounted(Drop(Store(h, y, n), x), Dead(Dead(w, q), p), m, y, n) BY <2>2, LeftIsWritten
    <3>5. Dead(Dead(w, q), p) = w2 BY Deaths DEF Accounted
    <3> HIDE DEF dst, h1, h2, w2
    <3> QED BY <3>1, <3>2, <3>3, <3>4, <3>5
  <2>3. CASE ~Unique(h, x) /\ ~Unique(h, y)
    <3>1. dst = New(h, n) BY <2>3
    <3> HIDE DEF dst
    <3>2. Accounted(dst.heap, w, m, dst.word, n) /\ dst.word # NoWord /\ ~dst.word.imm /\ dst.word # x /\ dst.word # y
      BY <3>1, NewGives
    <3>3. h2 = Drop(Drop(dst.heap, x), y) BY <3>2
    <3>4. Accounted(Drop(Drop(dst.heap, x), y), w2, m, dst.word, n) BY <3>2, NewIsWritten
    <3> HIDE DEF h1, h2, w2
    <3> QED BY <3>2, <3>3, <3>4
  <2> QED BY <2>1, <2>2, <2>3
<1> HIDE DEF dst, h1, h2, w2
<1>3. Gives(Normalize(h2, dst.word), w2, m, n) /\ OneForm(Normalize(h2, dst.word).word, n)
  BY <1>2, NormalizeGives
<1> QED BY <1>1, <1>3 DEF w2

\* The wrapping types (IDRIS2RC2_DEFOP_REUSE_RESULT).
LEMMA ReuseResultGives ==
  ASSUME NEW k, NEW h, NEW w, NEW m, NEW u, Accounted(h, w, m, NoWord, u), Free(h) # {},
         NEW p \in Names, NEW q \in Names, p # q, w[p] # NoWord, w[q] # NoWord, NEW n \in Int
  PROVE  Gives(ReuseResult(k, h, w[p], w[q], n), Dead(Dead(w, p), q), m, n)
<1> DEFINE x == w[p]  y == w[q]  w2 == Dead(Dead(w, p), q)
<1>1. CASE Unique(h, x)
  <2>1. ReuseResult(k, h, x, y, n) = Result(Drop(Store(h, x, n), y), x) BY <1>1 DEF ReuseResult
  <2>2. Accounted(Drop(Store(h, x, n), y), w2, m, x, n) BY <1>1, LeftIsWritten
  <2> HIDE DEF w2
  <2> QED BY <2>1, <2>2, ResultParts DEF Gives, w2
<1>2. CASE ~Unique(h, x) /\ Unique(h, y)
  <2>1. ReuseResult(k, h, x, y, n) = Result(Drop(Store(h, y, n), x), y) BY <1>2 DEF ReuseResult
  <2>2. Accounted(Drop(Store(h, y, n), x), Dead(Dead(w, q), p), m, y, n) BY <1>2, LeftIsWritten
  <2>3. Dead(Dead(w, q), p) = w2 BY Deaths DEF Accounted
  <2> HIDE DEF w2
  <2> QED BY <2>1, <2>2, <2>3, ResultParts DEF Gives, w2
<1>3. CASE ~Unique(h, x) /\ ~Unique(h, y)
  <2> DEFINE dst == Make(k, h, n)
  <2>1. ReuseResult(k, h, x, y, n) = Result(Drop(Drop(dst.heap, x), y), dst.word)
    BY <1>3 DEF ReuseResult
  <2>2. Accounted(dst.heap, w, m, dst.word, n) /\ dst.word # NoWord BY MakeGives DEF Gives
  <2> HIDE DEF dst
  <2>3. Accounted(Drop(Drop(dst.heap, x), y), w2, m, dst.word, n) BY <2>2, NewIsWritten
  <2> HIDE DEF w2
  <2> QED BY <2>1, <2>2, <2>3, ResultParts DEF Gives, w2
<1> QED BY <1>1, <1>2, <1>3

\* The slow path of a unary operator.
LEMMA UnarySlowGives ==
  ASSUME NEW h, NEW w, NEW m, NEW u, Accounted(h, w, m, NoWord, u), Free(h) # {},
         NEW p \in Names, w[p] # NoWord, NEW n \in Int
  PROVE  /\ Gives(UnarySlow(h, w[p], n), Dead(w, p), m, n)
         /\ OneForm(UnarySlow(h, w[p], n).word, n)
<1> DEFINE x == w[p]  w1 == Dead(w, p)
           dst == IF Unique(h, x) THEN Result(Store(h, x, n), x) ELSE New(h, n)
           h1 == IF dst.word = x THEN dst.heap ELSE Drop(dst.heap, x)
<1>1. UnarySlow(h, x, n) = Normalize(h1, dst.word) BY DEF UnarySlow
<1>2. Accounted(h1, w1, m, dst.word, n) /\ dst.word # NoWord /\ ~dst.word.imm
  <2>1. CASE Unique(h, x)
    <3>1. dst.heap = Store(h, x, n) /\ dst.word = x BY <2>1, ResultParts
    <3>2. h1 = Store(h, x, n) /\ ~x.imm BY <2>1, <3>1 DEF Unique
    <3>3. Accounted(h, w1, m, x, m[p]) BY TakeInHand DEF Dead
    <3> HIDE DEF w1
    <3>4. Accounted(Store(h, x, n), w1, m, x, n) BY <2>1, <3>3, StoreInHand
    <3> HIDE DEF dst, h1
    <3> QED BY <3>1, <3>2, <3>4
  <2>2. CASE ~Unique(h, x)
    <3>1. dst = New(h, n) BY <2>2
    <3> HIDE DEF dst
    <3>2. Accounted(dst.heap, w, m, dst.word, n) /\ dst.word # NoWord /\ ~dst.word.imm /\ dst.word # x
      BY <3>1, NewGives
    <3>3. h1 = Drop(dst.heap, x) BY <3>2
    <3>4. Accounted(Drop(dst.heap, x), w1, m, dst.word, n) BY <3>2, DropVariable DEF Dead
    <3> HIDE DEF h1, w1
    <3> QED BY <3>2, <3>3, <3>4
  <2> QED BY <2>1, <2>2
<1> HIDE DEF dst, h1, w1
<1>3. Gives(Normalize(h1, dst.word), w1, m, n) /\ OneForm(Normalize(h1, dst.word).word, n)
  BY <1>2, NormalizeGives
<1> QED BY <1>1, <1>3 DEF w1

\* A unary operator of the wrapping types.
LEMMA ReuseUnaryGives ==
  ASSUME NEW k, NEW h, NEW w, NEW m, NEW u, Accounted(h, w, m, NoWord, u), Free(h) # {},
         NEW p \in Names, w[p] # NoWord, NEW n \in Int
  PROVE  Gives(ReuseUnary(k, h, w[p], n), Dead(w, p), m, n)
<1> DEFINE x == w[p]  w1 == Dead(w, p)
<1>1. CASE Unique(h, x)
  <2>1. ReuseUnary(k, h, x, n) = Result(Store(h, x, n), x) BY <1>1 DEF ReuseUnary
  <2>2. Accounted(h, w1, m, x, m[p]) BY TakeInHand DEF Dead
  <2> HIDE DEF w1
  <2>3. Accounted(Store(h, x, n), w1, m, x, n) BY <1>1, <2>2, StoreInHand
  <2> QED BY <2>1, <2>3, ResultParts DEF Gives, w1
<1>2. CASE ~Unique(h, x)
  <2>1. ReuseUnary(k, h, x, n) = Make(k, Drop(h, x), n) BY <1>2 DEF ReuseUnary
  <2>2. Accounted(Drop(h, x), w1, m, NoWord, u) /\ Free(Drop(h, x)) # {} BY DropVariable DEF Dead
  <2> HIDE DEF w1
  <2> QED BY <2>1, <2>2, MakeGives DEF w1
<1> QED BY <1>1, <1>2

\* The slow path of a shift: only the number shifted is written in place
\* (integerShiftSlow).
LEMMA ShiftSlowGives ==
  ASSUME NEW h, NEW w, NEW m, NEW u, Accounted(h, w, m, NoWord, u), Free(h) # {},
         NEW p \in Names, NEW q \in Names, p # q, w[p] # NoWord, w[q] # NoWord, NEW n \in Int
  PROVE  /\ Gives(ShiftSlow(h, w[p], w[q], n), Dead(Dead(w, p), q), m, n)
         /\ OneForm(ShiftSlow(h, w[p], w[q], n).word, n)
<1> DEFINE x == w[p]  y == w[q]  w2 == Dead(Dead(w, p), q)
           dst == IF Unique(h, x) THEN Result(Store(h, x, n), x) ELSE New(h, n)
           h1 == IF dst.word = x THEN dst.heap ELSE Drop(dst.heap, x)
           h2 == Drop(h1, y)
<1>1. ShiftSlow(h, x, y, n) = Normalize(h2, dst.word) BY DEF ShiftSlow
<1>2. Accounted(h2, w2, m, dst.word, n) /\ dst.word # NoWord /\ ~dst.word.imm
  <2>1. CASE Unique(h, x)
    <3>1. ~x.imm BY <2>1, UniqueHolder
    <3>2. dst.heap = Store(h, x, n) /\ dst.word = x BY <2>1, ResultParts
    <3>3. h2 = Drop(Store(h, x, n), y) BY <3>2
    <3>4. Accounted(Drop(Store(h, x, n), y), w2, m, x, n) BY <2>1, LeftIsWritten
    <3> HIDE DEF dst, h1, h2, w2
    <3> QED BY <3>1, <3>2, <3>3, <3>4
  <2>2. CASE ~Unique(h, x)
    <3>1. dst = New(h, n) BY <2>2
    <3> HIDE DEF dst
    <3>2. Accounted(dst.heap, w, m, dst.word, n) /\ dst.word # NoWord /\ ~dst.word.imm /\ dst.word # x /\ dst.word # y
      BY <3>1, NewGives
    <3>3. h2 = Drop(Drop(dst.heap, x), y) BY <3>2
    <3>4. Accounted(Drop(Drop(dst.heap, x), y), w2, m, dst.word, n) BY <3>2, NewIsWritten
    <3> HIDE DEF h1, h2, w2
    <3> QED BY <3>2, <3>3, <3>4
  <2> QED BY <2>1, <2>2
<1> HIDE DEF dst, h1, h2, w2
<1>3. Gives(Normalize(h2, dst.word), w2, m, n) /\ OneForm(Normalize(h2, dst.word).word, n)
  BY <1>2, NormalizeGives
<1> QED BY <1>1, <1>3 DEF w2

(***************************************************************************)
(* The invariant of a program: the counts are exact, each variable has its *)
(* number, a number of a word type is in its range, and an Integer has its *)
(* one form, without which the fast path on immediates and equality by     *)
(* words would be wrong.                                                   *)
(***************************************************************************)

\* A number of type k in a word: in the range of a word type, and an Integer
\* in its one form.
RightForm(k, x, n) ==
  /\ IsWord(k) => n \in Members(WordType(k))
  /\ k = "Integer" => OneForm(x, n)

RightForms(k, w, m) == \A p \in Names : w[p] # NoWord => RightForm(k, w[p], m[p])

Settled(k, h, w, m) == Accounted(h, w, m, NoWord, 0) /\ RightForms(k, w, m)

NumbersInv == kind \in Kinds /\ Settled(kind, heap, word, means)

\* A variable in use has its number.
LEMMA ValuesMeant ==
  ASSUME NEW h, NEW w, NEW m, NEW u, Accounted(h, w, m, NoWord, u), NEW p \in Names, w[p] # NoWord
  PROVE  ValueIn(h, w[p]) = m[p] /\ m[p] \in Int /\ w[p] \in AnyWord
BY DEF Accounted

\* The result of an operator goes to a variable that is not in use.
LEMMA GivesSettles ==
  ASSUME NEW k, NEW r, NEW w, NEW m, NEW n, Gives(r, w, m, n), RightForms(k, w, m),
         NEW q \in Names, w[q] = NoWord, RightForm(k, r.word, n)
  PROVE  Settled(k, r.heap, [w EXCEPT ![q] = r.word], [m EXCEPT ![q] = n])
<1>1. Accounted(r.heap, [w EXCEPT ![q] = r.word], [m EXCEPT ![q] = n], NoWord, 0)
  BY PutDown DEF Gives
<1>2. w \in [Names -> AnyWord] /\ m \in [Names -> Int] BY DEF Gives, Accounted
<1>3. RightForms(k, [w EXCEPT ![q] = r.word], [m EXCEPT ![q] = n]) BY <1>2 DEF RightForms
<1> QED BY <1>1, <1>3 DEF Settled

\* A variable less.
LEMMA DeadRightForms ==
  ASSUME NEW k, NEW w \in [Names -> AnyWord], NEW m, RightForms(k, w, m), NEW q \in Names
  PROVE  RightForms(k, Dead(w, q), m)
BY DEF RightForms, Dead

(***************************************************************************)
(* Each operator gives the number it means.                                *)
(***************************************************************************)
LEMMA IntegerOpGives ==
  ASSUME NEW h, NEW w, NEW m, NEW u, Accounted(h, w, m, NoWord, u), Free(h) # {},
         NEW p \in Names, NEW q \in Names, p # q, w[p] # NoWord, w[q] # NoWord,
         OneForm(w[p], m[p]), OneForm(w[q], m[q]),
         NEW op \in IntegerOps, op = "mod" => m[q] # 0
  PROVE  LET r == IntegerOp(h, op, w[p], w[q])
             n == Meaning("Integer", op, m[p], m[q])
         IN Gives(r, Dead(Dead(w, p), q), m, n) /\ OneForm(r.word, n)
<1> DEFINE x == w[p]  y == w[q]  a == m[p]  b == m[q]
           n == Meaning("Integer", op, a, b)  w2 == Dead(Dead(w, p), q)
<1>1. ValueIn(h, x) = a /\ ValueIn(h, y) = b /\ a \in Int /\ b \in Int BY ValuesMeant
<1>2. IntegerOp(h, op, x, y) =
        IF BothImm(x, y) /\ FastPath(op, a, b)
        THEN Make("Integer", h, Fast(op, a, b))
        ELSE IF op \in {"shiftl", "shiftr"}
        THEN ShiftSlow(h, x, y, Mpz(op, a, b))
        ELSE BinopSlow(h, x, y, Mpz(op, a, b))
  BY <1>1 DEF IntegerOp
<1>3. CASE BothImm(x, y) /\ FastPath(op, a, b)
  <2>1. x.imm /\ y.imm /\ InImmediate(a) /\ InImmediate(b) BY <1>3 DEF BothImm, OneForm
  <2>2. Fast(op, a, b) = n /\ n \in Int BY <1>1, <1>3, <2>1, FastExact
  <2>3. Drop(Drop(h, x), y) = h BY <2>1 DEF Drop
  <2>4. Accounted(h, w2, m, NoWord, u) BY <2>3, NewIsWritten
  <2> HIDE DEF n, w2
  <2>5. Gives(Make("Integer", h, n), w2, m, n) /\ OneForm(Make("Integer", h, n).word, n)
    BY <2>2, <2>4, MakeGives
  <2> QED BY <1>2, <1>3, <2>2, <2>5 DEF n, w2
<1>4. CASE ~(BothImm(x, y) /\ FastPath(op, a, b))
  <2>1. Mpz(op, a, b) = n /\ n \in Int BY <1>1, MpzExact
  <2> HIDE DEF n
  <2>2. CASE op \in {"shiftl", "shiftr"} BY <1>2, <1>4, <2>1, <2>2, ShiftSlowGives DEF n
  <2>3. CASE op \notin {"shiftl", "shiftr"} BY <1>2, <1>4, <2>1, <2>3, BinopSlowGives DEF n
  <2> QED BY <2>2, <2>3
<1> QED BY <1>3, <1>4

\* Integer division keeps its operands; both its ways give the quotient.
LEMMA IntegerDivGives ==
  ASSUME NEW h, NEW w, NEW m, NEW u, Accounted(h, w, m, NoWord, u), Free(h) # {},
         NEW p \in Names, NEW q \in Names, w[p] # NoWord, w[q] # NoWord, m[q] # 0
  PROVE  LET r == IntegerDiv(h, w[p], w[q])
             n == Quotient(m[p], m[q])
         IN n \in Int /\ Gives(r, w, m, n) /\ OneForm(r.word, n)
<1> DEFINE x == w[p]  y == w[q]  a == m[p]  b == m[q]  n == Quotient(a, b)
           c == CDiv(a, b)
           fast == IF CRem(a, b) < 0 THEN c + (IF b > 0 THEN -1 ELSE 1) ELSE c
           exact == New(h, CDiv(a - (a % Abs(b)), b))
<1>1. ValueIn(h, x) = a /\ ValueIn(h, y) = b /\ a \in Int /\ b \in Int /\ b # 0 BY ValuesMeant
<1>2. n \in Int /\ CDiv(a - (a % Abs(b)), b) = n /\ EuclidQuotient(a, b) = n BY <1>1, QuotientIs
<1>3. IntegerDiv(h, x, y) = IF BothImm(x, y) THEN Make("Integer", h, fast) ELSE Normalize(exact.heap, exact.word)
  BY <1>1 DEF IntegerDiv
<1>4. fast = n
  <2>1. c \in Int BY <1>1, Truncates
  <2>2. EuclidQuotient(a, b) = c + (IF CRem(a, b) < 0 THEN (IF b < 0 THEN 1 ELSE -1) ELSE 0)
    BY DEF EuclidQuotient
  <2> HIDE DEF c, n
  <2> QED BY <1>1, <1>2, <2>1, <2>2
<1> HIDE DEF n, fast
<1>5. CASE BothImm(x, y) BY <1>2, MakeGives, <1>3, <1>4, <1>5 DEF n
<1>6. CASE ~BothImm(x, y)
  <2>1. exact = New(h, n) BY <1>2
  <2> HIDE DEF exact
  <2>2. Accounted(exact.heap, w, m, exact.word, n) /\ exact.word # NoWord /\ ~exact.word.imm
    BY <1>2, <2>1, NewGives
  <2>3. Gives(Normalize(exact.heap, exact.word), w, m, n) /\ OneForm(Normalize(exact.heap, exact.word).word, n)
    BY <2>2, NormalizeGives
  <2> QED BY <1>2, <1>3, <1>6, <2>3 DEF n
<1> QED BY <1>5, <1>6

\* Negation, of each type that has it.
LEMMA NegateGives ==
  ASSUME NEW k \in Kinds, k # "Bits64",
         NEW h, NEW w, NEW m, NEW u, Accounted(h, w, m, NoWord, u), Free(h) # {},
         NEW p \in Names, w[p] # NoWord, RightForm(k, w[p], m[p])
  PROVE  LET r == Negate(k, h, w[p])
             n == Cut(k, -m[p])
         IN Gives(r, Dead(w, p), m, n) /\ RightForm(k, r.word, n)
<1> DEFINE x == w[p]  a == m[p]  n == Cut(k, -a)
<1>1. ValueIn(h, x) = a /\ a \in Int /\ -a \in Int BY ValuesMeant
<1>2. CASE k = "Integer"
  <2>1. n = -a /\ ~IsWord(k) BY <1>2 DEF Cut, IsWord
  <2>2. Negate(k, h, x) = IF x.imm THEN Make("Integer", h, -a) ELSE UnarySlow(h, x, -a)
    BY <1>1, <1>2 DEF Negate, IntegerNegate, ValueIn
  <2>3. CASE x.imm BY <2>3, DropVariable, <1>1, MakeGives, <2>1, <2>2 DEF Drop, Dead, RightForm
  <2>4. CASE ~x.imm BY <1>1, UnarySlowGives, <2>1, <2>2, <2>4 DEF RightForm
  <2> QED BY <2>3, <2>4
<1>3. CASE k # "Integer"
  <2>1. Negate(k, h, x) = ReuseUnary(k, h, x, Arith("negate", WordType(k), a, 0, WordBits, LimitBits))
    BY <1>1, <1>3 DEF Negate
  <2>2. /\ n \in Int /\ (IsWord(k) => n \in Members(WordType(k)))
        /\ Arith("negate", WordType(k), a, 0, WordBits, LimitBits) = n
    BY <1>3, <1>1, CutIs, WordNegateExact DEF Kinds, WordKinds, IsWord, RightForm
  <2> HIDE DEF n
  <2>3. Gives(ReuseUnary(k, h, x, n), Dead(w, p), m, n) BY <2>2, ReuseUnaryGives
  <2> QED BY <1>3, <2>1, <2>2, <2>3 DEF RightForm, n
<1> QED BY <1>2, <1>3

\* Every binary operator, of each type.
LEMMA OperateGives ==
  ASSUME NEW k \in Kinds, NEW h, NEW w, NEW m, NEW u, Accounted(h, w, m, NoWord, u), Free(h) # {},
         NEW p \in Names, NEW q \in Names, p # q, w[p] # NoWord, w[q] # NoWord,
         RightForm(k, w[p], m[p]), RightForm(k, w[q], m[q]),
         NEW op \in (IF k = "Integer" THEN IntegerOps ELSE WordOps), op \in {"div", "mod"} => m[q] # 0
  PROVE  LET r == Operate(k, h, op, w[p], w[q])
             n == Meaning(k, op, m[p], m[q])
         IN Gives(r, Dead(Dead(w, p), q), m, n) /\ RightForm(k, r.word, n)
<1> DEFINE x == w[p]  y == w[q]  a == m[p]  b == m[q]  n == Meaning(k, op, a, b)
           w2 == Dead(Dead(w, p), q)
<1>1. ValueIn(h, x) = a /\ ValueIn(h, y) = b /\ a \in Int /\ b \in Int BY ValuesMeant
<1>2. CASE k = "Integer"
  <2>1. Operate(k, h, op, x, y) = IntegerOp(h, op, x, y) /\ ~IsWord(k) BY <1>2 DEF Operate, IsWord
  <2>2. OneForm(x, a) /\ OneForm(y, b) /\ op \in IntegerOps /\ (op = "mod" => b # 0)
    BY <1>2 DEF RightForm
  <2>3. Gives(IntegerOp(h, op, x, y), w2, m, n) /\ OneForm(IntegerOp(h, op, x, y).word, n)
    BY <1>2, <2>2, IntegerOpGives
  <2> HIDE DEF w2, n
  <2> QED BY <2>1, <2>3 DEF RightForm, w2, n
<1>3. CASE k # "Integer"
  <2>1. Operate(k, h, op, x, y) = ReuseResult(k, h, x, y, WordOp(k, op, a, b))
    BY <1>1, <1>3 DEF Operate
  <2>2. WordOp(k, op, a, b) = n /\ n \in Int /\ (IsWord(k) => n \in Members(WordType(k)))
    <3>1. k \in WordKinds /\ IsWord(k) BY <1>3 DEF Kinds, WordKinds, IsWord
    <3>2. a \in Members(WordType(k)) /\ b \in Members(WordType(k)) /\ op \in WordOps
      BY <1>3, <3>1 DEF RightForm
    <3>3. WordOp(k, op, a, b) = n /\ WordOp(k, op, a, b) \in Members(WordType(k))
      BY <3>1, <3>2, WordExact
    <3>4. Members(WordType(k)) \subseteq Int BY <3>1, WordTypes, MembersAre
    <3> HIDE DEF n
    <3> QED BY <3>3, <3>4
  <2> HIDE DEF n
  <2>3. Gives(ReuseResult(k, h, x, y, n), w2, m, n) BY <2>2, ReuseResultGives
  <2> HIDE DEF w2
  <2> QED BY <1>3, <2>1, <2>2, <2>3 DEF RightForm, w2, n
<1> QED BY <1>2, <1>3

\* Each action keeps the invariant.
LEMMA LiteralStep ==
  ASSUME NumbersInv, NEW p \in Names, NEW n \in Literals, Literal(p, n)
  PROVE  NumbersInv'
<1>1. kind \in Kinds /\ Accounted(heap, word, means, NoWord, 0) /\ RightForms(kind, word, means)
  BY DEF NumbersInv, Settled
<1>2. word[p] = NoWord /\ n \in Carried(kind) /\ Free(heap) # {} /\ kind' = kind
  BY DEF Literal, Live
<1>3. n \in Int /\ (IsWord(kind) => n \in Members(WordType(kind)))
  BY <1>2, NumberConstants DEF Carried
<1>4. \E r : /\ heap' = r.heap /\ word' = [word EXCEPT ![p] = r.word] /\ means' = [means EXCEPT ![p] = n]
             /\ Gives(r, word, means, n) /\ RightForm(kind, r.word, n)
  <2>1. CASE kind = "Integer"
    <3> DEFINE r == New(heap, n)  s == Normalize(r.heap, r.word)
    <3>1. Put(p, s, n) BY <2>1 DEF Literal
    <3>2. Accounted(r.heap, word, means, r.word, n) /\ r.word # NoWord /\ ~r.word.imm
      BY <1>1, <1>2, <1>3, NewGives
    <3> HIDE DEF r
    <3>3. Gives(s, word, means, n) /\ OneForm(s.word, n) BY <3>2, NormalizeGives
    <3>4. ~IsWord(kind) BY <2>1 DEF IsWord
    <3> HIDE DEF s
    <3> QED BY <3>1, <3>3, <3>4 DEF Put, RightForm
  <2>2. CASE kind # "Integer"
    <3> DEFINE s == Make(kind, heap, n)
    <3>1. Put(p, s, n) BY <2>2 DEF Literal
    <3>2. Gives(s, word, means, n) BY <1>1, <1>2, <1>3, MakeGives
    <3> HIDE DEF s
    <3> QED BY <1>3, <2>2, <3>1, <3>2 DEF Put, RightForm
  <2> QED BY <2>1, <2>2
<1>5. Settled(kind, heap', word', means')
  <2>1. PICK r :
          /\ heap' = r.heap /\ word' = [word EXCEPT ![p] = r.word] /\ means' = [means EXCEPT ![p] = n]
          /\ Gives(r, word, means, n) /\ RightForm(kind, r.word, n)
    BY <1>4
  <2>2. Settled(kind, r.heap, [word EXCEPT ![p] = r.word], [means EXCEPT ![p] = n])
    BY <1>1, <1>2, <2>1, GivesSettles
  <2> QED BY <2>1, <2>2
<1> QED BY <1>1, <1>2, <1>5 DEF NumbersInv, Settled

LEMMA CopyStep ==
  ASSUME NumbersInv, NEW p \in Names, NEW q \in Names, Copy(p, q)
  PROVE  NumbersInv'
<1>1. kind \in Kinds /\ Accounted(heap, word, means, NoWord, 0) /\ RightForms(kind, word, means)
  BY DEF NumbersInv, Settled
<1> DEFINE r == Result(Dup(heap, word[p]), word[p])
<1>2. word[p] # NoWord /\ word[q] = NoWord /\ kind' = kind /\ Put(q, r, means[p]) BY DEF Copy, Live
<1>3. Gives(r, word, means, means[p]) BY <1>1, <1>2, DupIsAccounted, ResultParts DEF Gives
<1>4. RightForm(kind, r.word, means[p]) BY <1>1, <1>2, ResultParts DEF RightForms
<1> HIDE DEF r
<1>5. Settled(kind, heap', word', means') BY <1>1, <1>2, <1>3, <1>4, GivesSettles DEF Put
<1> QED BY <1>1, <1>2, <1>5 DEF NumbersInv, Settled

LEMMA ForgetStep ==
  ASSUME NumbersInv, NEW p \in Names, Forget(p)
  PROVE  NumbersInv'
<1>1. kind \in Kinds /\ Accounted(heap, word, means, NoWord, 0) /\ RightForms(kind, word, means)
  BY DEF NumbersInv, Settled
<1>2. word[p] # NoWord /\ kind' = kind /\ heap' = Drop(heap, word[p])
      /\ word' = Dead(word, p) /\ means' = [means EXCEPT ![p] = 0]
  BY ResultParts DEF Forget, Live, Put, Dead
<1>3. word \in [Names -> AnyWord] /\ means \in [Names -> Int] BY <1>1 DEF Accounted
<1>4. word'[p] = NoWord BY <1>2, <1>3, Deaths
<1>5. Accounted(heap', word', means, NoWord, 0) BY <1>1, <1>2, DropVariable DEF Dead
<1>6. Accounted(heap', word', means', NoWord, 0)
  <2>1. Accounted(heap', word', [means EXCEPT ![p] = 0], NoWord, 0) BY <1>4, <1>5, DeadMeansNothing
  <2> QED BY <1>2, <2>1
<1>7. RightForms(kind, word', means') BY <1>1, <1>2, <1>3 DEF RightForms, Dead
<1> QED BY <1>1, <1>2, <1>6, <1>7 DEF NumbersInv, Settled

LEMMA BinaryStep ==
  ASSUME NumbersInv, NEW p \in Names, NEW q \in Names, NEW op, Binary(op, p, q)
  PROVE  NumbersInv'
<1>1. kind \in Kinds /\ Accounted(heap, word, means, NoWord, 0) /\ RightForms(kind, word, means)
  BY DEF NumbersInv, Settled
<1> DEFINE r == Operate(kind, heap, op, word[p], word[q])
           n == Meaning(kind, op, means[p], means[q])
           w2 == Dead(Dead(word, p), q)  m2 == [means EXCEPT ![q] = 0]
<1>2. /\ word[p] # NoWord /\ word[q] # NoWord /\ p # q /\ Free(heap) # {} /\ kind' = kind
      /\ op \in (IF kind = "Integer" THEN IntegerOps ELSE WordOps)
      /\ op \in {"div", "mod"} => means[q] # 0
      /\ heap' = r.heap
      /\ word' = [word EXCEPT ![p] = r.word, ![q] = NoWord]
      /\ means' = [means EXCEPT ![p] = n, ![q] = 0]
  BY DEF Binary, Live, Followed
<1>3. word \in [Names -> AnyWord] /\ means \in [Names -> Int] /\ NoWord \in AnyWord
  BY <1>1 DEF Accounted
<1>4. Gives(r, w2, means, n) /\ RightForm(kind, r.word, n)
  BY <1>1, <1>2, OperateGives DEF RightForms
<1> HIDE DEF r, n
<1>5. w2 \in [Names -> AnyWord] /\ w2[p] = NoWord /\ w2[q] = NoWord BY <1>3 DEF Dead
<1>6. Gives(r, w2, m2, n)
  <2> HIDE DEF w2
  <2>1. Accounted(r.heap, w2, m2, r.word, n) BY <1>4, <1>5, DeadMeansNothing DEF Gives
  <2> QED BY <1>4, <2>1 DEF Gives
<1>7. RightForms(kind, w2, m2) BY <1>1, <1>3 DEF RightForms, Dead
<1>8. word' = [w2 EXCEPT ![p] = r.word] /\ means' = [m2 EXCEPT ![p] = n]
  <2>1. word' = [w2 EXCEPT ![p] = r.word] BY <1>2, <1>3 DEF Dead
  <2>2. means' = [m2 EXCEPT ![p] = n] BY <1>2, <1>3
  <2> QED BY <2>1, <2>2
<1> HIDE DEF w2, m2
<1>9. Settled(kind, heap', word', means')
  <2>1. Settled(kind, r.heap, [w2 EXCEPT ![p] = r.word], [m2 EXCEPT ![p] = n])
    BY <1>4, <1>5, <1>6, <1>7, GivesSettles
  <2> QED BY <1>2, <1>8, <2>1
<1> QED BY <1>1, <1>2, <1>9 DEF NumbersInv, Settled

LEMMA DivideStep ==
  ASSUME NumbersInv, NEW p \in Names, NEW q \in Names, NEW s \in Names, Divide(p, q, s)
  PROVE  NumbersInv'
<1>1. kind \in Kinds /\ Accounted(heap, word, means, NoWord, 0) /\ RightForms(kind, word, means)
  BY DEF NumbersInv, Settled
<1> DEFINE r == IntegerDiv(heap, word[p], word[q])  n == Quotient(means[p], means[q])
<1>2. /\ kind = "Integer" /\ kind' = kind
      /\ word[p] # NoWord /\ word[q] # NoWord /\ word[s] = NoWord /\ Free(heap) # {} /\ means[q] # 0
      /\ heap' = r.heap /\ word' = [word EXCEPT ![s] = r.word] /\ means' = [means EXCEPT ![s] = n]
  BY DEF Divide, Live, Followed, Put
<1>3. Gives(r, word, means, n) /\ OneForm(r.word, n) BY <1>1, <1>2, IntegerDivGives
<1>4. RightForm(kind, r.word, n) BY <1>2, <1>3 DEF RightForm, IsWord
<1> HIDE DEF r, n
<1>5. Settled(kind, heap', word', means') BY <1>1, <1>2, <1>3, <1>4, GivesSettles
<1> QED BY <1>1, <1>2, <1>5 DEF NumbersInv, Settled

LEMMA UnaryStep ==
  ASSUME NumbersInv, NEW p \in Names, Unary(p)
  PROVE  NumbersInv'
<1>1. kind \in Kinds /\ Accounted(heap, word, means, NoWord, 0) /\ RightForms(kind, word, means)
  BY DEF NumbersInv, Settled
<1> DEFINE r == Negate(kind, heap, word[p])  n == Cut(kind, -means[p])  w1 == Dead(word, p)
<1>2. /\ word[p] # NoWord /\ Free(heap) # {} /\ kind # "Bits64" /\ kind' = kind
      /\ heap' = r.heap /\ word' = [word EXCEPT ![p] = r.word] /\ means' = [means EXCEPT ![p] = n]
  BY DEF Unary, Live, Put
<1>3. word \in [Names -> AnyWord] BY <1>1 DEF Accounted
<1>4. Gives(r, w1, means, n) /\ RightForm(kind, r.word, n) BY <1>1, <1>2, NegateGives DEF RightForms
<1> HIDE DEF r, n
<1>5. w1[p] = NoWord /\ RightForms(kind, w1, means) /\ word' = [w1 EXCEPT ![p] = r.word]
  BY <1>2, <1>3, <1>1, DeadRightForms DEF Dead
<1> HIDE DEF w1
<1>6. Settled(kind, heap', word', means')
  <2>1. Settled(kind, r.heap, [w1 EXCEPT ![p] = r.word], [means EXCEPT ![p] = n])
    BY <1>4, <1>5, GivesSettles
  <2> QED BY <1>2, <1>5, <2>1
<1> QED BY <1>1, <1>2, <1>6 DEF NumbersInv, Settled

\* The invariant holds at the start,
LEMMA NumbersStart == NumbersInit => NumbersInv
<1> SUFFICES ASSUME NumbersInit PROVE NumbersInv OBVIOUS
<1>1. /\ kind \in Kinds
      /\ heap = [c \in Cells |-> [rc |-> 0, val |-> 0]]
      /\ word = [p \in Names |-> NoWord]
      /\ means = [p \in Names |-> 0]
  BY DEF NumbersInit, Empty
<1>2. NoWord \in AnyWord BY DEF AnyWord, NoWord
<1>3. ASSUME NEW c \in Cells PROVE heap[c].rc = Cardinality(Holders(word, c)) + InHand(NoWord, c)
  <2>1. Holders(word, c) = {} /\ InHand(NoWord, c) = 0 BY <1>1, WordForms DEF Holders, InHand
  <2>2. Cardinality({}) = 0 BY FS_EmptySet
  <2> QED BY <1>1, <2>1, <2>2
<1>4. Accounted(heap, word, means, NoWord, 0) BY <1>1, <1>2, <1>3 DEF Accounted
<1>5. RightForms(kind, word, means) BY <1>1 DEF RightForms
<1> QED BY <1>1, <1>4, <1>5 DEF NumbersInv, Settled

\* every step keeps it,
LEMMA NumbersStep == NumbersInv /\ [NumbersNext]_nvars => NumbersInv'
<1> SUFFICES ASSUME NumbersInv, [NumbersNext]_nvars PROVE NumbersInv' OBVIOUS
<1>1. CASE UNCHANGED nvars BY <1>1 DEF nvars, NumbersInv
<1>2. CASE NumbersNext
  BY <1>2, LiteralStep, CopyStep, ForgetStep, BinaryStep, DivideStep, UnaryStep DEF NumbersNext
<1> QED BY <1>1, <1>2

\* and it gives the exactness of programs,
LEMMA NumbersInvIsExact == NumbersInv => ProgramsExact
<1> SUFFICES ASSUME NumbersInv PROVE ProgramsExact OBVIOUS
<1>1. Accounted(heap, word, means, NoWord, 0) BY DEF NumbersInv, Settled
<1>2. NumbersExact BY <1>1 DEF NumbersExact, Live, Accounted
<1>3. ASSUME NEW c \in Cells PROVE heap[c].rc = Cardinality({p \in Names : word[p] = Ptr(c)})
  <2>1. InHand(NoWord, c) = 0 /\ Cardinality(Holders(word, c)) \in Nat
    BY WordForms, HoldersFinite DEF InHand
  <2>2. heap[c].rc = Cardinality(Holders(word, c)) + InHand(NoWord, c) BY <1>1 DEF Accounted
  <2> QED BY <2>1, <2>2 DEF Holders
<1> QED BY <1>2, <1>3 DEF ProgramsExact, CellsCounted

(* ProgramsExact holds in every behaviour of a program of any length, over  *)
(* any finite set of variables, any cells and every width of the word:      *)
(* whichever cells the operators reuse, each variable has its number and    *)
(* each count is the number of the variables that hold the cell.            *)
THEOREM ProgramsAlwaysExact == NumbersSpec => []ProgramsExact
<1>1. NumbersSpec => []NumbersInv BY NumbersStart, NumbersStep, PTL DEF NumbersSpec
<1> QED BY <1>1, NumbersInvIsExact, PTL

\* The casts of a boxed Integer go by its low bits at the width of the target,
\* those of an immediate by the whole word.
LEMMA LowBitsKeep ==
  ASSUME NEW bits \in 1..WordBits, NEW x, NEW n \in Int, ValueIn(heap, x) = n
  PROVE  /\ (ToUnsigned(x, bits) - n) % 2^bits = 0
         /\ (ToSigned(x, bits) - n) % 2^bits = 0
         /\ ToSigned(x, bits) \in -(2^(bits - 1)) .. 2^(bits - 1) - 1
<1> DEFINE s == Type(TRUE, bits)  t == Type(FALSE, bits)  l == LowBits(x, bits)
<1>1. WordBits \in Nat /\ bits \in Nat \ {0} /\ bits <= WordBits /\ bits <= bits BY NumberSizes
<1>2. /\ s \in NumberTypes /\ s.bits = bits /\ s.signed
      /\ t \in NumberTypes /\ t.bits = bits /\ ~t.signed
      /\ \A y : Signed(y, bits) = Convert(s, y) /\ Unsigned(y, bits) = Convert(t, y)
  BY <1>1 DEF Type, NumberTypes, Convert
<1>3. l = Unsigned(n, WordBits) \/ l = Unsigned(n, bits) BY DEF LowBits, ValueIn
<1> HIDE DEF s, t, l
<1>4. l \in Int /\ Convert(s, l) = Convert(s, n) /\ Convert(t, l) = Convert(t, n)
  BY <1>1, <1>2, CutWord, <1>3
<1>5. ToSigned(x, bits) = Convert(s, n) /\ ToUnsigned(x, bits) = Convert(t, n)
  BY <1>2, <1>4 DEF ToSigned, ToUnsigned, l
<1>6. 2^bits \in Nat \ {0} BY <1>1, Powers
<1>7. ASSUME NEW ty \in {s, t} PROVE (Convert(ty, n) - n) % 2^bits = 0
  <2>1. ty \in NumberTypes /\ ty.bits = bits BY <1>2
  <2>2. Convert(ty, n) \in Int /\ Cong(n, Convert(ty, n), 2^bits) BY <2>1, CutTo
  <2>3. Cong(Convert(ty, n), n, 2^bits) BY <1>6, <2>2, CongSelf
  <2> QED BY <1>6, <2>2, <2>3, CongIs
<1>8. Convert(s, n) \in -(2^(bits - 1)) .. 2^(bits - 1) - 1 BY <1>2, CutTo, MembersAre
<1> QED BY <1>5, <1>7, <1>8

\* and what the readers need.
LEMMA NumbersInvReads == NumbersInv => ProgramsRead
<1> SUFFICES ASSUME NumbersInv, kind = "Integer", NEW p \in Names, NEW q \in Names, Live(p), Live(q)
             PROVE  /\ Equal(word[p], word[q]) <=> means[p] = means[q]
                    /\ Compare(word[p], word[q]) =
                         (IF means[p] < means[q] THEN -1 ELSE IF means[p] > means[q] THEN 1 ELSE 0)
                    /\ \A lit \in Literals :
                         ~InImmediate(lit) => (EqualsLiteral(word[p], lit) <=> means[p] = lit)
                    /\ \A bits \in 1..WordBits :
                         /\ (ToUnsigned(word[p], bits) - means[p]) % 2^bits = 0
                         /\ (ToSigned(word[p], bits) - means[p]) % 2^bits = 0
                         /\ ToSigned(word[p], bits) \in -(2^(bits - 1)) .. 2^(bits - 1) - 1
  BY DEF ProgramsRead
<1> DEFINE x == word[p]  y == word[q]  a == means[p]  b == means[q]
<1>1. Accounted(heap, word, means, NoWord, 0) /\ RightForms(kind, word, means) /\ x # NoWord /\ y # NoWord
  BY DEF NumbersInv, Settled, Live
<1>2. /\ ValueIn(heap, x) = a /\ a \in Int /\ x \in AnyWord
      /\ ValueIn(heap, y) = b /\ b \in Int /\ y \in AnyWord
  BY <1>1, ValuesMeant
<1>3. (x.imm <=> InImmediate(a)) /\ (y.imm <=> InImmediate(b))
  BY <1>1 DEF RightForms, RightForm, OneForm
<1>4. /\ x.imm => x.n = a /\ x = Imm(a)
      /\ y.imm => y.n = b /\ y = Imm(b)
      /\ ~x.imm => x.n \in Cells /\ x = Ptr(x.n) /\ heap[x.n].val = a
      /\ ~y.imm => y.n \in Cells /\ y = Ptr(y.n) /\ heap[y.n].val = b
  BY <1>1, <1>2, LiveWords DEF ValueIn
<1> HIDE DEF x, y, a, b
<1> DEFINE order == IF a < b THEN -1 ELSE IF a > b THEN 1 ELSE 0
<1>5. Compare(x, y) = order
  <2>1. CASE BothImm(x, y) BY <1>4, <2>1, <1>2 DEF Compare, BothImm
  <2>2. CASE ~BothImm(x, y) BY <1>2, <2>2 DEF Compare
  <2> QED BY <2>1, <2>2
<1>6. Equal(x, y) <=> a = b
  <2>1. CASE x.imm /\ y.imm BY <2>1, <1>4, WordForms DEF Equal
  <2>2. CASE ~(x.imm <=> y.imm) BY <2>2, <1>3 DEF Equal
  <2>3. CASE ~x.imm /\ ~y.imm BY <1>5, <2>3, <1>2 DEF Equal
  <2> QED BY <2>1, <2>2, <2>3
<1>7. ASSUME NEW lit \in Literals, ~InImmediate(lit) PROVE EqualsLiteral(x, lit) <=> a = lit
  <2>1. CASE x.imm BY <1>3, <1>7, <2>1 DEF EqualsLiteral
  <2>2. CASE ~x.imm BY <1>4, <2>2 DEF EqualsLiteral
  <2> QED BY <2>1, <2>2
<1>8. ASSUME NEW bits \in 1..WordBits
      PROVE  /\ (ToUnsigned(x, bits) - a) % 2^bits = 0
             /\ (ToSigned(x, bits) - a) % 2^bits = 0
             /\ ToSigned(x, bits) \in -(2^(bits - 1)) .. 2^(bits - 1) - 1
  BY <1>2, LowBitsKeep
<1> QED BY <1>5, <1>6, <1>7, <1>8 DEF x, y, a, b

(* ProgramsRead holds in every behaviour: the one form of each Integer is   *)
(* restored by every operator, so equality, order, the test for a literal   *)
(* and the casts answer as the numbers do.                                  *)
THEOREM ProgramsAlwaysRead == NumbersSpec => []ProgramsRead
<1>1. NumbersSpec => []NumbersInv BY NumbersStart, NumbersStep, PTL DEF NumbersSpec
<1> QED BY <1>1, NumbersInvReads, PTL

(***************************************************************************)
(* Buffers.                                                                *)
(***************************************************************************)

\* The bytes of a range.
LEMMA WithinIs ==
  ASSUME NEW S, NEW b \in Seq(S), NEW o \in Nat, NEW n \in Nat, o + n <= Len(b)
  PROVE  /\ Within(b, o, n) \in Seq(S)
         /\ Len(Within(b, o, n)) = n
         /\ \A i \in 1..n : Within(b, o, n)[i] = b[o + i]
<1>1. \A i \in o + 1..o + n : b[i] \in S BY ElementOfSeq
<1>2. /\ SubSeq(b, o + 1, o + n) \in Seq(S)
      /\ Len(SubSeq(b, o + 1, o + n)) = IF o + 1 <= o + n THEN o + n - (o + 1) + 1 ELSE 0
      /\ \A i \in 1..o + n - (o + 1) + 1 : SubSeq(b, o + 1, o + n)[i] = b[o + 1 + i - 1]
  BY <1>1, SubSeqProperties
<1> QED BY <1>2 DEF Within

\* What a write does inside the buffer, and where it stops the process.
LEMMA WriteIs ==
  ASSUME NEW S, NEW b \in Seq(S), NEW bytes \in Seq(S), NEW o \in Int
  PROVE  LET r == Write(b, o, bytes)
         IN /\ r.ok = (0 <= o /\ o + Len(bytes) <= Len(b))
            /\ r.ok => /\ r = Ok(r.data)
                       /\ r.data \in Seq(S) /\ Len(r.data) = Len(b)
                       /\ \A i \in 1..Len(b) :
                            r.data[i] = IF i \in o + 1..o + Len(bytes) THEN bytes[i - o] ELSE b[i]
                       /\ Within(r.data, o, Len(bytes)) = bytes
<1> DEFINE n == Len(bytes)  m == Len(b)  r == Write(b, o, bytes)
           u == SubSeq(b, 1, o)  v == SubSeq(b, o + n + 1, m)  w == u \o bytes  d == w \o v
<1>1. n \in Nat /\ m \in Nat BY LenProperties
<1>2. ValidRange(b, o, n) = (0 <= o /\ o + n <= m) BY <1>1 DEF ValidRange
<1>3. r.ok = (0 <= o /\ o + n <= m) BY <1>2 DEF Write, Ok, Stop
<1>4. ASSUME 0 <= o, o + n <= m
      PROVE  /\ r = Ok(r.data)
             /\ r.data \in Seq(S) /\ Len(r.data) = m
             /\ \A i \in 1..m : r.data[i] = IF i \in o + 1..o + n THEN bytes[i - o] ELSE b[i]
             /\ Within(r.data, o, n) = bytes
  <2>1. r = Ok(d) /\ r.data = d BY <1>2, <1>4 DEF Write, Ok
  <2>2. u \in Seq(S) /\ Len(u) = o /\ \A i \in 1..o : u[i] = b[i]
    BY <1>1, <1>4, ElementOfSeq, SubSeqProperties
  <2>3. v \in Seq(S) /\ Len(v) = m - o - n /\ \A i \in 1..m - o - n : v[i] = b[o + n + i]
    BY <1>1, <1>4, ElementOfSeq, SubSeqProperties
  <2> HIDE DEF u, v
  <2>4. w \in Seq(S) /\ Len(w) = o + n
        /\ \A i \in 1..o + n : (i <= o => w[i] = u[i]) /\ (~ i <= o => w[i] = bytes[i - o])
    BY <2>2, ConcatProperties
  <2> HIDE DEF w
  <2>5. d \in Seq(S) /\ Len(d) = o + n + (m - o - n)
        /\ \A i \in 1..o + n + (m - o - n) : (i <= o + n => d[i] = w[i]) /\ (~ i <= o + n => d[i] = v[i - (o + n)])
    <3>1. d \in Seq(S) /\ Len(d) = Len(w) + Len(v)
          /\ \A i \in 1..Len(w) + Len(v) : d[i] = IF i <= Len(w) THEN w[i] ELSE v[i - Len(w)]
      BY <2>3, <2>4, ConcatProperties
    <3> HIDE DEF d, n, m
    <3> QED BY <2>3, <2>4, <3>1
  <2> HIDE DEF d
  <2>6. \A i \in 1..m : d[i] = IF i \in o + 1..o + n THEN bytes[i - o] ELSE b[i]
    <3>1. o + n + (m - o - n) = m BY <1>1
    <3>2. \A i \in 1..m : (i <= o + n => d[i] = w[i]) /\ (~ i <= o + n => d[i] = v[i - (o + n)])
      BY <2>5, <3>1
    <3> HIDE DEF n, m
    <3> SUFFICES ASSUME NEW i \in 1..m
                 PROVE  /\ i \in o + 1..o + n => d[i] = bytes[i - o]
                        /\ i \notin o + 1..o + n => d[i] = b[i]
      OBVIOUS
    <3>3. CASE i <= o BY <1>1, <1>4, <3>3, <2>2, <2>4, <3>2
    <3>4. CASE i \in o + 1..o + n BY <1>1, <1>4, <3>4, <2>4, <3>2
    <3>5. CASE i > o + n
      <4>1. i - (o + n) \in 1..m - o - n /\ o + n + (i - (o + n)) = i /\ ~ i <= o + n /\ i \notin o + 1..o + n
        BY <1>1, <1>4, <3>5
      <4>2. v[i - (o + n)] = b[o + n + (i - (o + n))] BY <2>3, <4>1
      <4> QED BY <3>2, <4>1, <4>2
    <3> QED BY <1>1, <1>4, <3>3, <3>4, <3>5
  <2>7. d \in Seq(S) /\ Len(d) = m BY <1>1, <1>4, <2>5
  <2>8. Within(d, o, n) = bytes
    <3>1. Within(d, o, n) \in Seq(S) /\ Len(Within(d, o, n)) = n /\ \A i \in 1..n : Within(d, o, n)[i] = d[o + i]
      BY <1>1, <1>4, <2>7, WithinIs
    <3>2. \A i \in 1..n : d[o + i] = bytes[i] BY <1>1, <1>4, <2>6
    <3> QED BY <3>1, <3>2, SeqEqual
  <2> QED BY <2>1, <2>6, <2>7, <2>8
<1> QED BY <1>3, <1>4

\* The bytes of a range that was checked.
LEMMA ReadIs ==
  ASSUME NEW S, NEW b \in Seq(S), NEW o \in Int, NEW n \in Int
  PROVE  ValidRange(b, o, n) <=> 0 <= o /\ 0 <= n /\ o + n <= Len(b)
BY LenProperties DEF ValidRange

\* Dividing by m and then by p is dividing by their product.
LEMMA DivTwice ==
  ASSUME NEW x \in Int, NEW m \in Nat \ {0}, NEW p \in Nat \ {0}
  PROVE  /\ x \div (m * p) = (x \div m) \div p
         /\ x % (m * p) = m * ((x \div m) % p) + (x % m)
         /\ m * p \in Nat \ {0}
<1> DEFINE q == x \div m  r == x % m  u == q \div p  v == q % p
<1>1. q \in Int /\ r \in 0..m - 1 /\ x = m * q + r BY Divided
<1> HIDE DEF q, r
<1>2. u \in Int /\ v \in 0..p - 1 /\ q = p * u + v BY <1>1, Divided
<1> HIDE DEF u, v
<1>3. m * q = (m * p) * u + m * v BY <1>1, <1>2
<1>4. m * p \in Nat \ {0} OBVIOUS
<1>5. m * v >= 0 /\ m * v <= m * (p - 1) /\ m * (p - 1) = m * p - m /\ m * v \in Int BY <1>2
<1>6. m * v + r \in 0..m * p - 1 BY <1>1, <1>4, <1>5
<1>7. x = (m * p) * u + (m * v + r) BY <1>1, <1>2, <1>3, <1>5
<1>8. x \div (m * p) = u /\ x % (m * p) = m * v + r
  <2> DEFINE k == m * p  l == m * v + r
  <2>1. k \in Nat \ {0} /\ l \in 0..k - 1 /\ x = k * u + l BY <1>4, <1>6, <1>7
  <2> HIDE DEF k, l
  <2>2. u = x \div k /\ l = x % k BY <1>2, <2>1, DividedOnly
  <2> QED BY <2>2 DEF k, l
<1> QED BY <1>4, <1>8 DEF q, r, u, v

\* Digits of w bits, the last one first, make the low bits of the number they
\* were shifted out of: k of them those above the n - k that are left.
LEMMA DigitsMake ==
  ASSUME NEW w \in Nat \ {0}, NEW x \in Int, NEW n \in Nat, NEW f,
         f[0] = 0,
         \A k \in 1..n : f[k] = ((x \div 2^(w * (n - k))) % 2^w) + 2^w * f[k - 1]
  PROVE  f[n] = x % 2^(w * n)
<1> DEFINE P(k) == f[k] = (x \div 2^(w * (n - k))) % 2^(w * k)
           S == {k \in Nat : k <= n => P(k)}
<1>1. \A k \in Nat : w * k \in Nat /\ 2^(w * k) \in Nat \ {0}
  <2> TAKE k \in Nat
  <2>1. w * k \in Nat OBVIOUS
  <2> QED BY <2>1, Powers
<1>2. 2^w \in Nat \ {0} /\ 2^0 = 1
  <2>1. 2^w \in Nat \ {0} BY Powers
  <2>2. 2^0 = 1 BY SMT
  <2> QED BY <2>1, <2>2
<1>3. \A y \in Int : y % 1 = 0 /\ y \div 1 = y BY SMT
<1>4. 0 \in S
  <2>1. w * 0 = 0 /\ w * (n - 0) \in Nat /\ 2^(w * (n - 0)) \in Nat \ {0}
    <3>1. n - 0 = n /\ w * 0 = 0 OBVIOUS
    <3> QED BY <1>1, <3>1
  <2>2. x \div 2^(w * (n - 0)) \in Int BY <2>1, Divided
  <2>3. P(0) BY <1>2, <1>3, <2>1, <2>2
  <2> QED BY <2>3
<1>5. ASSUME NEW k \in Nat, k \in S PROVE k + 1 \in S
  <2> SUFFICES ASSUME k + 1 <= n PROVE P(k + 1) OBVIOUS
  <2> DEFINE l == n - (k + 1)  M == 2^(w * l)  B == 2^w  K == 2^(w * k)  q == x \div M
  <2>1. l \in Nat /\ k \in Nat /\ n - k = l + 1 /\ k + 1 \in 1..n /\ (k + 1) - 1 = k OBVIOUS
  <2>2. M \in Nat \ {0} /\ B \in Nat \ {0} /\ K \in Nat \ {0} BY <1>1, <1>2, <2>1
  <2>3. P(k) BY <1>5
  <2>4. 2^(w * (n - k)) = M * B
    <3>1. w * (n - k) = w * l + w /\ w * l \in Nat BY <2>1
    <3>2. 2^(w * l + w) = 2^(w * l) * 2^w BY <3>1, PowerSum
    <3> QED BY <3>1, <3>2
  <2>5. 2^(w * (k + 1)) = B * K BY PowerSum
  <2>6. f[k + 1] = (q % B) + B * f[k] BY <2>1
  <2>7. f[k] = (x \div (M * B)) % K BY <2>3, <2>4
  <2> HIDE DEF M, B, K, l
  <2>8. q \in Int BY <2>2, Divided
  <2>9. x \div (M * B) = q \div B BY <2>2, DivTwice
  <2> HIDE DEF q
  <2>10. q % (B * K) = B * ((q \div B) % K) + (q % B) BY <2>2, <2>8, DivTwice
  <2>11. q % B \in Int /\ (q \div B) % K \in Int BY <2>2, <2>8, Divided
  <2>12. f[k + 1] = q % (B * K) BY <2>2, <2>6, <2>7, <2>9, <2>10, <2>11
  <2> QED BY <2>5, <2>12 DEF q, M, l
<1>6. n \in S
  <2> HIDE DEF S
  <2> QED BY <1>4, <1>5, AllNaturals
<1>7. w * (n - n) = 0 /\ x \div 1 = x BY <1>3
<1>8. P(n) BY <1>6
<1>9. (x \div 2^(w * (n - n))) % 2^(w * n) = x % 2^(w * n) BY <1>2, <1>7
<1> QED BY <1>8, <1>9

\* An offset or a size that fits in an int is not cut.
LEMMA FitsInt ==
  /\ \A n \in Int : CInt(n) \in Int /\ CInt(n) < 2^(IntBits - 1)
  /\ \A n \in Nat : n < 2^(IntBits - 1) => CInt(n) = n
<1> DEFINE ty == Type(TRUE, IntBits)
<1>1. ty \in NumberTypes /\ ty.signed /\ ty.bits = IntBits BY WidthAssumption DEF Type, NumberTypes
<1>2. \A n : CInt(n) = Convert(ty, n) BY <1>1 DEF CInt, Convert
<1> HIDE DEF ty
<1>3. Members(ty) = -(2^(IntBits - 1)) .. 2^(IntBits - 1) - 1 /\ 2^(IntBits - 1) \in Nat
  BY <1>1, MembersAre, TypePowers
<1>4. ASSUME NEW n \in Int PROVE CInt(n) \in Int /\ CInt(n) < 2^(IntBits - 1)
  <2>1. Convert(ty, n) \in Members(ty) /\ Convert(ty, n) \in Int BY <1>1, CutTo
  <2> QED BY <1>2, <1>3, <2>1
<1>5. ASSUME NEW n \in Nat, n < 2^(IntBits - 1) PROVE CInt(n) = n BY <1>3, <1>5, <1>1, CutOnly, <1>2
<1> QED BY <1>4, <1>5

\* strlen: the bytes before the first NUL.
LEMMA UpToNulIs ==
  ASSUME NEW str \in Seq(Byte)
  PROVE  /\ UpToNulOf(str) \in Seq(Byte) /\ Len(UpToNulOf(str)) \in 0..Len(str)
         /\ UpToNulOf(UpToNulOf(str)) = UpToNulOf(str)
<1> DEFINE L(s) == {n \in 0..Len(s) : /\ \A i \in 1..n : s[i] # 0
                                      /\ n < Len(s) => s[n + 1] = 0}
<1>1. ASSUME NEW s \in Seq(Byte) PROVE L(s) # {}
  <2> DEFINE T == {n \in 0..Len(s) : \A i \in 1..n : s[i] # 0}
  <2>1. Len(s) \in Nat BY LenProperties
  <2>2. 0 \in T BY <2>1
  <2> SUFFICES ASSUME L(s) = {} PROVE FALSE OBVIOUS
  <2>3. \A n \in Nat : n \in T => n + 1 \in T
    <3> SUFFICES ASSUME NEW n \in Nat, n \in T PROVE n + 1 \in T OBVIOUS
    <3>1. n < Len(s) /\ s[n + 1] # 0 OBVIOUS
    <3> QED BY <2>1, <3>1
  <2>4. Len(s) + 1 \in T
    <3> HIDE DEF T, L
    <3>1. Nat \subseteq T BY <2>2, <2>3, AllNaturals
    <3> QED BY <2>1, <3>1
  <2> QED BY <2>1, <2>4
<1>2. ASSUME NEW s \in Seq(Byte) PROVE StrLen(s) \in L(s) BY <1>1, <1>2 DEF StrLen
<1> DEFINE n == StrLen(str)  u == UpToNulOf(str)
<1>3. n \in 0..Len(str) /\ Len(str) \in Nat /\ \A i \in 1..n : str[i] # 0 BY <1>2, LenProperties
<1>4. \A i \in 1..n : str[i] \in Byte BY <1>3, ElementOfSeq
<1>5. u \in Seq(Byte) /\ Len(u) = n /\ \A i \in 1..n : u[i] = str[i]
  BY <1>3, <1>4, SubSeqProperties DEF UpToNulOf
<1> HIDE DEF n
<1>6. StrLen(u) \in L(u) BY <1>2, <1>5
<1>7. StrLen(u) = n
  <2> HIDE DEF u
  <2>1. StrLen(u) < n => u[StrLen(u) + 1] = 0 BY <1>5, <1>6
  <2>2. StrLen(u) \in 0..n BY <1>5, <1>6
  <2>3. ASSUME StrLen(u) < n PROVE FALSE BY <1>3, <2>2, <2>3, <1>5, <2>1
  <2> QED BY <1>3, <2>2, <2>3
<1>8. UpToNulOf(u) = u
  <2> HIDE DEF u
  <2>1. SubSeq(u, 1, Len(u)) = u BY <1>5, SubSeqFull
  <2> QED BY <1>5, <1>7, <2>1 DEF UpToNulOf
<1> QED BY <1>3, <1>5, <1>8

\* What SetUIntLE writes is read back as the number cut to its width.
LEMMA ReadsBack ==
  ASSUME NEW b \in Seq(Byte), NEW loc \in Int, CInt(loc) = loc, NEW n \in Nat \ {0}, NEW val \in Int,
         0 <= loc, loc + n <= Len(b),
         Within(b, loc, n) = [i \in 1..n |-> Unsigned(val \div 2^(ByteBits * (i - 1)), ByteBits)]
  PROVE  /\ GetUIntLE(b, loc, n) = Ok(Unsigned(val, ByteBits * n))
         /\ GetIntLE(b, loc, n) = Ok(Signed(val, ByteBits * n))
<1> DEFINE w == ByteBits
           d == [k \in 1..n |-> Within(b, loc, n)[n - k + 1]]
           Right(g) == g = [k \in 0..n |-> IF k = 0 THEN 0
                                           ELSE Within(b, loc, n)[n - k + 1] + 2^ByteBits * g[k - 1]]
           f == CHOOSE g : Right(g)
<1>1. w \in Nat \ {0} /\ 2^w \in Nat \ {0} BY WidthAssumption, Powers
<1>2. \A k \in 1..n : /\ Within(b, loc, n)[n - k + 1] = (val \div 2^(w * (n - k))) % 2^w
                      /\ Within(b, loc, n)[n - k + 1] \in Int
  <2> SUFFICES ASSUME NEW k \in 1..n
               PROVE  /\ Within(b, loc, n)[n - k + 1] = (val \div 2^(w * (n - k))) % 2^w
                      /\ Within(b, loc, n)[n - k + 1] \in Int
    OBVIOUS
  <2>1. n - k + 1 \in 1..n /\ n - k + 1 - 1 = n - k /\ n - k \in Nat OBVIOUS
  <2>2. Within(b, loc, n)[n - k + 1] = Unsigned(val \div 2^(ByteBits * (n - k + 1 - 1)), ByteBits)
    BY <2>1
  <2>3. w * (n - k) \in Nat BY <1>1, <2>1
  <2>4. 2^(w * (n - k)) \in Nat \ {0} BY <2>3, Powers
  <2>5. val \div 2^(w * (n - k)) \in Int BY <2>4, Divided
  <2>6. (val \div 2^(w * (n - k))) % 2^w \in Int BY <1>1, <2>5, Divided
  <2> QED BY <2>1, <2>2, <2>6 DEF Unsigned
<1>3. d \in [1..n -> Int] BY <1>2
<1>4. \E g \in [0..n -> Int] : \A k \in 0..n : g[k] = IF k = 0 THEN 0 ELSE d[k] + 2^w * g[k - 1]
  <2> DEFINE z == 0  e == 2^w
  <2>1. z \in Int /\ e \in Int /\ n \in Nat BY <1>1
  <2> HIDE DEF d, z, e
  <2>2. \E g : Scaled(g, n, z, e, d) BY <1>3, <2>1, Scaling, Zenon
  <2> QED BY <2>2 DEF z, e, Scaled
<1>5. PICK g \in [0..n -> Int] : \A k \in 0..n : g[k] = IF k = 0 THEN 0 ELSE d[k] + 2^w * g[k - 1]
  BY <1>4
<1>6. Right(g)
  <2>1. \A k \in 1..n : d[k] = Within(b, loc, n)[n - k + 1] OBVIOUS
  <2> HIDE DEF d
  <2> QED BY <1>5, <2>1
<1>7. Right(f)
  <2> HIDE DEF Right
  <2> QED BY <1>6
<1>8. GetUIntLE(b, loc, n) = Ok(f[n])
  <2>1. ValidRange(b, CInt(loc), n) BY ReadIs
  <2> QED BY <2>1 DEF GetUIntLE
<1> HIDE DEF f
<1>9. f[0] = 0 /\ \A k \in 1..n : f[k] = ((val \div 2^(w * (n - k))) % 2^w) + 2^w * f[k - 1]
  <2> DEFINE h == Within(b, loc, n)  e == 2^ByteBits
  <2>1. f[0] = 0 BY <1>7
  <2>2. \A k \in 1..n : f[k] = h[n - k + 1] + e * f[k - 1]
    <3>1. f = [k \in 0..n |-> IF k = 0 THEN 0 ELSE h[n - k + 1] + e * f[k - 1]] BY <1>7
    <3> HIDE DEF h, e
    <3>2. \A k \in 1..n : k \in 0..n /\ k # 0 OBVIOUS
    <3> QED BY <3>1, <3>2
  <2> QED BY <1>2, <2>1, <2>2
<1>10. f[n] = Unsigned(val, w * n)
  <2>1. f[n] = val % 2^(w * n)
    <3> HIDE DEF w
    <3> QED BY <1>1, <1>9, DigitsMake
  <2> QED BY <2>1 DEF Unsigned
<1>11. GetUIntLE(b, loc, n) = Ok(Unsigned(val, w * n)) BY <1>8, <1>10
<1>12. Signed(Unsigned(val, w * n), w * n) = Signed(val, w * n)
  <2>1. w * n \in Nat BY <1>1
  <2>2. 2^(w * n) \in Nat \ {0} BY <2>1, Powers
  <2> DEFINE m == 2^(w * n)  r == val % m
  <2>3. val % m \in 0..m - 1 BY <2>2, Divided
  <2>4. m \in Nat \ {0} /\ r \in Int /\ r \in 0..m - 1 /\ r = m * 0 + r /\ 0 \in Int BY <2>2, <2>3
  <2> HIDE DEF m, r
  <2>5. r % m = r BY <2>4, DividedOnly
  <2> QED BY <2>5 DEF m, r, Signed, Unsigned
<1>13. GetIntLE(b, loc, n) = Ok(Signed(val, w * n))
  <2> DEFINE r == GetUIntLE(b, loc, n)
  <2>1. r = Ok(Unsigned(val, w * n)) BY <1>11
  <2> HIDE DEF r
  <2>2. r.ok /\ r.data = Unsigned(val, w * n) BY <2>1 DEF Ok
  <2> QED BY <1>12, <2>2 DEF GetIntLE, r
<1> QED BY <1>11, <1>13

\* What Write promises, in the words of KeepsBytes.
LEMMA WriteKeeps ==
  ASSUME NEW buf \in Seq(Byte), NEW bytes \in Seq(Byte), NEW loc \in Int
  PROVE  LET r == Write(buf, loc, bytes)
         IN /\ r.ok <=> loc >= 0 /\ loc + Len(bytes) <= Len(buf)
            /\ r.ok => /\ WroteOnly(buf, r, loc, Len(bytes))
                       /\ r.data \in Seq(Byte) /\ Len(r.data) = Len(buf)
                       /\ Within(r.data, loc, Len(bytes)) = bytes
<1> DEFINE r == Write(buf, loc, bytes)
<1>1. r.ok = (0 <= loc /\ loc + Len(bytes) <= Len(buf)) BY WriteIs
<1>2. ASSUME r.ok
      PROVE  /\ r.data \in Seq(Byte) /\ Len(r.data) = Len(buf)
             /\ \A i \in 1..Len(buf) :
                  r.data[i] = IF i \in loc + 1..loc + Len(bytes) THEN bytes[i - loc] ELSE buf[i]
             /\ Within(r.data, loc, Len(bytes)) = bytes
  BY <1>2, WriteIs
<1>3. DOMAIN buf = 1..Len(buf) /\ Len(bytes) \in Nat /\ Len(buf) \in Nat BY LenProperties
<1> HIDE DEF r
<1>4. r.ok <=> loc >= 0 /\ loc + Len(bytes) <= Len(buf) BY <1>1, <1>3
<1>5. ASSUME r.ok PROVE WroteOnly(buf, r, loc, Len(bytes)) BY <1>2, <1>5, <1>3 DEF WroteOnly
<1> QED BY <1>2, <1>4, <1>5 DEF r

LEMMA NumbersKept ==
  ASSUME NEW buf \in Seq(Byte), NEW loc \in Int, CInt(loc) = loc, NEW n \in Nat \ {0}, NEW val \in Int
  PROVE  LET r == SetUIntLE(buf, loc, val, n)
         IN /\ r.ok <=> loc >= 0 /\ loc + n <= Len(buf)
            /\ r.ok => /\ WroteOnly(buf, r, loc, n)
                       /\ GetUIntLE(r.data, loc, n) = Ok(Unsigned(val, ByteBits * n))
                       /\ GetIntLE(r.data, loc, n) = Ok(Signed(val, ByteBits * n))
<1> DEFINE bytes == [i \in 1..n |-> Unsigned(val \div 2^(ByteBits * (i - 1)), ByteBits)]
           r == SetUIntLE(buf, loc, val, n)
<1>1. bytes \in Seq(Byte) /\ Len(bytes) = n
  <2>1. \A i \in 1..n : Unsigned(val \div 2^(ByteBits * (i - 1)), ByteBits) \in Byte
    <3> SUFFICES ASSUME NEW i \in 1..n
                 PROVE  Unsigned(val \div 2^(ByteBits * (i - 1)), ByteBits) \in Byte
      OBVIOUS
    <3>1. ByteBits * (i - 1) \in Nat /\ ByteBits \in Nat BY WidthAssumption
    <3>2. 2^(ByteBits * (i - 1)) \in Nat \ {0} /\ 2^ByteBits \in Nat \ {0} BY <3>1, Powers
    <3>3. val \div 2^(ByteBits * (i - 1)) \in Int BY <3>2, Divided
    <3>4. (val \div 2^(ByteBits * (i - 1))) % 2^ByteBits \in 0..2^ByteBits - 1
      BY <3>2, <3>3, Divided
    <3> QED BY <3>4 DEF Unsigned, Byte
  <2>2. bytes \in [1..n -> Byte] BY <2>1
  <2> HIDE DEF bytes
  <2> QED BY <2>2
<1>2. r = Write(buf, loc, bytes) BY DEF SetUIntLE
<1> HIDE DEF r
<1>3. bytes = [i \in 1..n |-> Unsigned(val \div 2^(ByteBits * (i - 1)), ByteBits)] OBVIOUS
<1> HIDE DEF bytes
<1>4. /\ r.ok <=> loc >= 0 /\ loc + n <= Len(buf)
      /\ r.ok => /\ WroteOnly(buf, r, loc, n)
                 /\ r.data \in Seq(Byte) /\ Len(r.data) = Len(buf)
                 /\ Within(r.data, loc, n) = bytes
  BY <1>1, <1>2, WriteKeeps
<1>5. ASSUME r.ok PROVE /\ GetUIntLE(r.data, loc, n) = Ok(Unsigned(val, ByteBits * n))
                        /\ GetIntLE(r.data, loc, n) = Ok(Signed(val, ByteBits * n))
  BY <1>4, <1>5, <1>3, ReadsBack
<1> QED BY <1>4, <1>5 DEF r

LEMMA StringsKept ==
  ASSUME NEW buf \in Seq(Byte), NEW loc \in Int, NEW str \in Seq(Byte)
  PROVE  LET r == SetStringFixed(buf, loc, str)
         IN /\ r.ok <=> loc >= 0 /\ loc + Len(str) <= Len(buf)
            /\ r.ok => /\ WroteOnly(buf, r, loc, Len(str))
                       /\ GetStringFixed(r.data, loc, Len(str)) = Ok(str)
<1> DEFINE r == SetStringFixed(buf, loc, str)
<1>1. r = Write(buf, loc, str) BY DEF SetStringFixed
<1> HIDE DEF r
<1>2. /\ r.ok <=> loc >= 0 /\ loc + Len(str) <= Len(buf)
      /\ r.ok => /\ WroteOnly(buf, r, loc, Len(str))
                 /\ r.data \in Seq(Byte) /\ Len(r.data) = Len(buf)
                 /\ Within(r.data, loc, Len(str)) = str
  BY <1>1, WriteKeeps
<1>3. ASSUME r.ok PROVE GetStringFixed(r.data, loc, Len(str)) = Ok(str)
  BY LenProperties, <1>2, <1>3, ReadIs DEF GetStringFixed
<1> QED BY <1>2, <1>3 DEF r

LEMMA CStringsKept ==
  ASSUME NEW buf \in Seq(Byte), Len(buf) < 2^(IntBits - 1),
         NEW loc \in Int, CInt(loc) = loc, NEW str \in Seq(Byte)
  PROVE  LET r == SetString(buf, loc, str)
             n == Len(UpToNulOf(str))
         IN /\ r.ok <=> loc >= 0 /\ loc + n <= Len(buf)
            /\ r.ok => /\ WroteOnly(buf, r, loc, n)
                       /\ GetString(r.data, loc, n) = Ok(UpToNulOf(str))
<1> DEFINE r == SetString(buf, loc, str)  u == UpToNulOf(str)  n == Len(u)
<1>1. u \in Seq(Byte) /\ n \in Nat /\ UpToNulOf(u) = u BY UpToNulIs, LenProperties
<1>2. r = Write(buf, loc, u) BY DEF SetString
<1> HIDE DEF r, u
<1>3. /\ r.ok <=> loc >= 0 /\ loc + n <= Len(buf)
      /\ r.ok => /\ WroteOnly(buf, r, loc, n)
                 /\ r.data \in Seq(Byte) /\ Len(r.data) = Len(buf)
                 /\ Within(r.data, loc, n) = u
  BY <1>1, <1>2, WriteKeeps
<1>4. ASSUME r.ok PROVE GetString(r.data, loc, n) = Ok(u)
  <2> HIDE DEF n
  <2>1. CInt(n) = n BY LenProperties, <1>1, <1>3, <1>4, WidthAssumption, Powers, FitsInt
  <2>2. ValidRange(r.data, loc, n) <=> 0 <= loc /\ 0 <= n /\ loc + n <= Len(r.data)
    BY <1>1, <1>3, <1>4, ReadIs
  <2>3. ValidRange(r.data, loc, n) BY <1>1, <1>3, <1>4, <2>2
  <2> QED BY <1>1, <1>3, <1>4, <2>1, <2>3 DEF GetString
<1> QED BY <1>3, <1>4 DEF r, u

LEMMA CopiesKept ==
  ASSUME NEW buf \in Seq(Byte), NEW other \in Seq(Byte), Len(other) < 2^(IntBits - 1),
         NEW loc \in Int, CInt(loc) = loc, NEW n \in 0..Len(other), NEW at \in 0..Len(other)
  PROVE  LET r == CopyBuffer(other, at, n, buf, loc)
         IN /\ r.ok <=> (loc >= 0 /\ loc + n <= Len(buf)) /\ at + n <= Len(other)
            /\ r.ok => /\ WroteOnly(buf, r, loc, n)
                       /\ Within(r.data, loc, n) = Within(other, at, n)
<1> DEFINE r == CopyBuffer(other, at, n, buf, loc)  w == Within(other, at, n)
<1>1. Len(other) \in Nat /\ Len(buf) \in Nat /\ n \in Nat /\ at \in Nat BY LenProperties
<1>2. CInt(n) = n /\ CInt(at) = at
  <2>1. 2^(IntBits - 1) \in Nat BY WidthAssumption, Powers
  <2>2. n < 2^(IntBits - 1) /\ at < 2^(IntBits - 1) BY <1>1, <2>1
  <2> QED BY <1>1, <2>2, FitsInt
<1>3. /\ ValidRange(other, at, n) <=> 0 <= at /\ 0 <= n /\ at + n <= Len(other)
      /\ ValidRange(buf, loc, n) <=> 0 <= loc /\ 0 <= n /\ loc + n <= Len(buf)
  BY <1>1, ReadIs
<1>4. CASE at + n <= Len(other) /\ loc >= 0 /\ loc + n <= Len(buf)
  <2>1. ValidRange(other, at, n) /\ ValidRange(buf, loc, n) BY <1>1, <1>3, <1>4
  <2>2. r = Write(buf, loc, w) BY <1>2, <2>1 DEF CopyBuffer
  <2>3. w \in Seq(Byte) /\ Len(w) = n BY <1>1, <1>4, WithinIs
  <2> HIDE DEF r, w
  <2>4. /\ r.ok <=> loc >= 0 /\ loc + n <= Len(buf)
        /\ r.ok => WroteOnly(buf, r, loc, n) /\ Within(r.data, loc, n) = w
    BY <2>2, <2>3, WriteKeeps
  <2> QED BY <1>4, <2>4 DEF r, w
<1>5. CASE ~ (at + n <= Len(other) /\ loc >= 0 /\ loc + n <= Len(buf))
  <2>1. ~ (ValidRange(other, at, n) /\ ValidRange(buf, loc, n)) BY <1>1, <1>3, <1>5
  <2>2. r = Stop BY <1>2, <2>1 DEF CopyBuffer
  <2>3. ~ r.ok BY <2>2 DEF Stop
  <2> HIDE DEF r
  <2> QED BY <1>5, <2>3 DEF r
<1> QED BY <1>4, <1>5

\* BuffersKeepBytes holds of whatever buffers whose sizes fit an int, offsets,
\* numbers and strings a behaviour looks at, whatever the widths of a byte and
\* of an int.
THEOREM BuffersAlwaysKeep ==
  ASSUME IsBufferInput(input)
  PROVE  BuffersKeepBytes
<1> SUFFICES ASSUME input.about = "buffer"
             PROVE  KeepsBytes(input.buf, input.other, input.loc, input.val, input.str)
  BY DEF BuffersKeepBytes
<1> DEFINE buf == input.buf  other == input.other  loc == input.loc  val == input.val  str == input.str
<1>1. /\ buf \in Seq(Byte) /\ Len(buf) < 2^(IntBits - 1)
      /\ other \in Seq(Byte) /\ Len(other) < 2^(IntBits - 1)
      /\ loc \in Int /\ val \in Int /\ str \in Seq(Byte)
  BY DEF IsBufferInput
<1> HIDE DEF buf, other, loc, val, str
<1>2. ASSUME CInt(loc) = loc, NEW n \in Widths
      PROVE  LET r == SetUIntLE(buf, loc, val, n)
             IN /\ r.ok <=> loc >= 0 /\ loc + n <= Len(buf)
                /\ r.ok => /\ WroteOnly(buf, r, loc, n)
                           /\ GetUIntLE(r.data, loc, n) = Ok(Unsigned(val, ByteBits * n))
                           /\ GetIntLE(r.data, loc, n) = Ok(Signed(val, ByteBits * n))
  BY <1>1, <1>2, NumbersKept DEF Widths
<1>3. LET r == SetStringFixed(buf, loc, str)
      IN /\ r.ok <=> loc >= 0 /\ loc + Len(str) <= Len(buf)
         /\ r.ok => /\ WroteOnly(buf, r, loc, Len(str))
                    /\ GetStringFixed(r.data, loc, Len(str)) = Ok(str)
  BY <1>1, StringsKept
<1>4. ASSUME CInt(loc) = loc
      PROVE  LET r == SetString(buf, loc, str)
                 n == Len(UpToNulOf(str))
             IN /\ r.ok <=> loc >= 0 /\ loc + n <= Len(buf)
                /\ r.ok => /\ WroteOnly(buf, r, loc, n)
                           /\ GetString(r.data, loc, n) = Ok(UpToNulOf(str))
  BY <1>1, <1>4, CStringsKept
<1>5. ASSUME CInt(loc) = loc, NEW n \in 0..Len(other), NEW at \in 0..Len(other)
      PROVE  LET r == CopyBuffer(other, at, n, buf, loc)
             IN /\ r.ok <=> (loc >= 0 /\ loc + n <= Len(buf)) /\ at + n <= Len(other)
                /\ r.ok => /\ WroteOnly(buf, r, loc, n)
                           /\ Within(r.data, loc, n) = Within(other, at, n)
  BY <1>1, <1>5, CopiesKept
<1>6. KeepsBytes(buf, other, loc, val, str) BY <1>2, <1>3, <1>4, <1>5 DEF KeepsBytes
<1> QED BY <1>6 DEF buf, other, loc, val, str

(***************************************************************************)
(* Text: a String is the sequence of its characters, whatever the bytes.   *)
(* First sequences that are made step by step.                             *)
(***************************************************************************)

\* A sequence of values, each made from the one before.
Follows(f, S, z, N) ==
  f \in [Nat -> S] /\ f[0] = z /\ \A i \in Nat : f[i + 1] = N[<<i, f[i]>>]

LEMMA Following ==
  ASSUME NEW S, NEW z \in S, NEW N \in [Nat \X S -> S]
  PROVE  \E f : Follows(f, S, z, N)
<1> DEFINE Is(f, m) == /\ f \in [0..m -> S] /\ f[0] = z
                       /\ \A i \in Nat : i < m => f[i + 1] = N[<<i, f[i]>>]
           All == {m \in Nat : \E f : Is(f, m)}
           F(m) == CHOOSE f : Is(f, m)
<1>1. 0 \in All
  <2> DEFINE f == [i \in 0..0 |-> z]
  <2>1. Is(f, 0) OBVIOUS
  <2> QED BY <2>1
<1>2. ASSUME NEW m \in Nat, m \in All PROVE m + 1 \in All
  <2>1. \E f : Is(f, m)
    <3> HIDE DEF Is
    <3> QED BY <1>2
  <2>2. PICK f : Is(f, m)
    <3> HIDE DEF Is
    <3> QED BY <2>1
  <2> DEFINE g == [i \in 0..m + 1 |-> IF i = m + 1 THEN N[<<m, f[m]>>] ELSE f[i]]
  <2>3. f[m] \in S /\ <<m, f[m]>> \in Nat \X S BY <2>2
  <2>4. N[<<m, f[m]>>] \in S BY <2>3
  <2>5. g \in [0..m + 1 -> S] /\ g[0] = z BY <2>2, <2>4
  <2>6. ASSUME NEW i \in Nat, i < m + 1 PROVE g[i + 1] = N[<<i, g[i]>>]
    <3>1. g[i] = f[i] BY <2>6
    <3>2. CASE i = m
      <4>1. g[m + 1] = N[<<m, f[m]>>] /\ g[m] = f[m] OBVIOUS
      <4> HIDE DEF g
      <4> QED BY <3>2, <4>1
    <3>3. CASE i < m BY <3>3, <2>2, <3>1
    <3> QED BY <2>6, <3>2, <3>3
  <2>7. Is(g, m + 1) BY <2>5, <2>6
  <2> HIDE DEF g, Is
  <2>8. \E h : Is(h, m + 1) BY <2>7
  <2> QED BY <2>8
<1>3. ASSUME NEW m \in Nat PROVE Is(F(m), m)
  <2> HIDE DEF Is
  <2>1. Nat \subseteq All
    <3> HIDE DEF All
    <3> QED BY <1>1, <1>2, AllNaturals
  <2>2. \E f : Is(f, m) BY <2>1
  <2> QED BY <2>2
<1>4. ASSUME NEW m \in Nat, NEW i \in Nat PROVE i <= m => F(m)[i] = F(m + 1)[i]
  <2> DEFINE g == F(m)  h == F(m + 1)  T == {j \in Nat : j <= m => g[j] = h[j]}
  <2>1. Is(g, m) /\ Is(h, m + 1)
    <3> HIDE DEF F, Is
    <3> QED BY <1>3 DEF g, h
  <2> HIDE DEF F, g, h
  <2>2. 0 \in T BY <2>1
  <2>3. ASSUME NEW j \in Nat, j \in T PROVE j + 1 \in T
    <3>1. CASE j + 1 <= m
      <4>1. g[j] = h[j] /\ j < m /\ j < m + 1 BY <2>3, <3>1
      <4>2. g[j + 1] = N[<<j, g[j]>>] /\ h[j + 1] = N[<<j, h[j]>>] BY <2>1, <4>1
      <4> QED BY <4>1, <4>2
    <3> QED BY <3>1
  <2>4. Nat \subseteq T
    <3> HIDE DEF T
    <3> QED BY <2>2, <2>3, AllNaturals
  <2> QED BY <2>4 DEF g, h
<1> DEFINE f == [n \in Nat |-> F(n)[n]]
<1>5. Follows(f, S, z, N)
  <2>1. f \in [Nat -> S] /\ f[0] = z
    <3>1. ASSUME NEW n \in Nat PROVE F(n)[n] \in S
      <4> HIDE DEF F
      <4>1. F(n) \in [0..n -> S] /\ n \in 0..n BY <1>3
      <4> QED BY <4>1
    <3>2. F(0)[0] = z
      <4> HIDE DEF F
      <4> QED BY <1>3
    <3> HIDE DEF F
    <3> QED BY <3>1, <3>2
  <2>2. ASSUME NEW i \in Nat PROVE f[i + 1] = N[<<i, f[i]>>]
    <3> HIDE DEF F
    <3>1. F(i + 1)[i + 1] = N[<<i, F(i + 1)[i]>>] BY <1>3
    <3>2. F(i)[i] = F(i + 1)[i] BY <1>4
    <3> QED BY <3>1, <3>2
  <2> HIDE DEF f
  <2> QED BY <2>1, <2>2 DEF Follows
<1> QED BY <1>5

\* The sequences that FlattenSeq has put together so far.
Flat(f, ss, S) ==
  /\ f \in [Nat -> Seq(S)] /\ f[0] = <<>>
  /\ \A i \in Nat : f[i + 1] = IF i < Len(ss) THEN f[i] \o ss[i + 1] ELSE f[i]

LEMMA Flattens ==
  ASSUME NEW S, NEW ss \in Seq(Seq(S))
  PROVE  \E f : Flat(f, ss, S) /\ FlattenSeq(ss) = f[Len(ss)]
<1> DEFINE L == Len(ss)
           N == [x \in Nat \X Seq(S) |-> IF x[1] < L THEN x[2] \o ss[x[1] + 1] ELSE x[2]]
           Q == Seq(S)
<1>1. L \in Nat /\ \A i \in 1..L : ss[i] \in Seq(S) BY LenProperties, ElementOfSeq
<1>2. N \in [Nat \X Q -> Q] /\ <<>> \in Q
  <2> SUFFICES ASSUME NEW i \in Nat, NEW q \in Seq(S)
               PROVE  (IF i < L THEN q \o ss[i + 1] ELSE q) \in Seq(S)
    OBVIOUS
  <2>1. i < L => i + 1 \in 1..L BY <1>1
  <2> HIDE DEF L
  <2>2. i < L => q \o ss[i + 1] \in Seq(S) BY <1>1, <2>1, ConcatProperties
  <2> QED BY <2>2
<1>3. PICK f : Follows(f, Q, <<>>, N)
  <2> HIDE DEF N, Q
  <2> QED BY <1>2, Following, Zenon
<1>4. Flat(f, ss, S)
  <2>1. ASSUME NEW i \in Nat PROVE f[i + 1] = IF i < L THEN f[i] \o ss[i + 1] ELSE f[i]
    BY <1>3 DEF Follows
  <2> QED BY <1>3, <2>1 DEF Follows, Flat
<1>5. FlattenSeq(ss) = f[L]
  <2>1. CASE L = 0 BY <2>1, EmptySeq, <1>4 DEF Flat, FlattenSeq
  <2>2. CASE L # 0
    <3> DEFINE Right(g) == g = [i \in 1..L |-> IF i = 1 THEN ss[i] ELSE g[i - 1] \o ss[i]]
               g0 == CHOOSE g : Right(g)
    <3>1. \E g : Right(g)
      <4> DEFINE h == [i \in 1..L |-> f[i]]
      <4>1. ASSUME NEW i \in 1..L PROVE h[i] = IF i = 1 THEN ss[i] ELSE h[i - 1] \o ss[i]
        <5>1. i - 1 \in Nat /\ i - 1 < L /\ i - 1 + 1 = i BY <1>1
        <5>2. f[i] = f[i - 1] \o ss[i]
          <6> HIDE DEF L
          <6>1. f[i - 1 + 1] = f[i - 1] \o ss[i - 1 + 1] BY <1>4, <5>1 DEF Flat, L
          <6> QED BY <5>1, <6>1
        <5>3. CASE i = 1
          <6>1. f[0] = <<>> /\ ss[1] \in Seq(S) BY <1>1, <1>4, <5>3 DEF Flat
          <6>2. <<>> \o ss[1] = ss[1] BY <6>1, ConcatEmptySeq
          <6>3. f[1] = f[0] \o ss[1] BY <5>3, <5>2
          <6>4. f[1] = ss[1] /\ h[1] = f[1] BY <5>3, <6>1, <6>2, <6>3
          <6> HIDE DEF h
          <6> QED BY <5>3, <6>4
        <5>4. CASE i # 1
          <6>1. i - 1 \in 1..L BY <5>1, <5>4
          <6> QED BY <5>2, <5>4, <6>1
        <5> QED BY <5>3, <5>4
      <4>2. Right(h)
        <5> HIDE DEF L
        <5> QED BY <4>1
      <4> HIDE DEF h, Right
      <4> QED BY <4>2
    <3>2. Right(g0)
      <4> HIDE DEF Right
      <4> QED BY <3>1
    <3>3. FlattenSeq(ss) = g0[L] BY <2>2 DEF FlattenSeq
    <3> DEFINE T == {i \in Nat : i < L => g0[i + 1] = f[i + 1]}
    <3> HIDE DEF g0
    <3>4. \A i \in 1..L : g0[i] = IF i = 1 THEN ss[i] ELSE g0[i - 1] \o ss[i]
      <4> HIDE DEF L
      <4> QED BY <3>2
    <3> HIDE DEF Right
    <3>5. 0 \in T
      <4>1. f[1] = f[0] \o ss[1] /\ f[0] = <<>> /\ 1 \in 1..L
        <5>1. 0 \in Nat /\ 0 < L /\ 0 + 1 = 1 BY <1>1, <2>2
        <5>2. f[0 + 1] = f[0] \o ss[0 + 1] /\ f[0] = <<>>
          <6> HIDE DEF L
          <6> QED BY <1>4, <5>1 DEF Flat, L
        <5> QED BY <5>1, <5>2
      <4>2. ss[1] \in Seq(S) BY <1>1, <4>1
      <4>3. <<>> \o ss[1] = ss[1] BY <4>2, ConcatEmptySeq
      <4> HIDE DEF L
      <4>4. g0[1] = ss[1] BY <3>4, <4>1
      <4> QED BY <4>1, <4>3, <4>4
    <3>6. ASSUME NEW i \in Nat, i \in T PROVE i + 1 \in T
      <4> DEFINE j == i + 1
      <4>1. ASSUME j < L PROVE g0[j + 1] = f[j + 1]
        <5>1. j \in Nat /\ j + 1 \in 1..L /\ j + 1 # 1 /\ j + 1 - 1 = j BY <1>1, <4>1
        <5>2. g0[j] = f[j] BY <1>1, <3>6, <4>1
        <5> HIDE DEF j, L
        <5>3. f[j + 1] = f[j] \o ss[j + 1] BY <1>4, <4>1, <5>1 DEF Flat, L
        <5>4. \A k \in 1..L, l \in Int : k # 1 /\ l = k - 1 => g0[k] = g0[l] \o ss[k] BY <3>4
        <5>5. g0[j + 1] = g0[j] \o ss[j + 1]
          <6> DEFINE m == j + 1
          <6>1. m \in 1..L /\ m # 1 /\ j = m - 1 /\ j \in Int BY <5>1
          <6> HIDE DEF m
          <6>2. g0[m] = g0[j] \o ss[m] BY <5>4, <6>1
          <6> QED BY <6>2 DEF m
        <5> QED BY <5>2, <5>3, <5>5
      <4> QED BY <4>1
    <3>7. Nat \subseteq T
      <4> HIDE DEF T
      <4> QED BY <3>5, <3>6, AllNaturals
    <3>8. L - 1 \in Nat /\ L - 1 < L /\ L - 1 + 1 = L BY <1>1, <2>2
    <3>9. L - 1 \in T BY <3>7, <3>8
    <3> HIDE DEF L
    <3>10. g0[L] = f[L] BY <3>8, <3>9
    <3> QED BY <3>3, <3>10
  <2> QED BY <2>1, <2>2
<1> QED BY <1>4, <1>5

(***************************************************************************)
(* Text: decoding and encoding of one character.                           *)
(***************************************************************************)

\* The number that n bytes encode.
CodeOf(s, o, n) ==
  IF n = 1 THEN At(s, o)
  ELSE IF n = 2 THEN (At(s, o + 1) % 64) + 64 * (At(s, o) % 32)
  ELSE IF n = 3 THEN (At(s, o + 2) % 64) + 64 * ((At(s, o + 1) % 64) + 64 * (At(s, o) % 16))
  ELSE (At(s, o + 3) % 64) + 64 * ((At(s, o + 2) % 64)
         + 64 * ((At(s, o + 1) % 64) + 64 * (At(s, o) % 8)))

\* How many bytes belong to a character of n bytes, of m that may be looked at.
TakesBytes(s, o, m, k) ==
  /\ k \in 1..m
  /\ \A i \in 1..k - 1 : IsContinuation(At(s, o + i))
  /\ k < m => ~IsContinuation(At(s, o + k))

Smaller(n, a) == IF n < a THEN n ELSE a
CharacterOf(s, o, n, k) ==
  [cp |-> IF k < n \/ ~IsScalarOfLen(CodeOf(s, o, n), n) THEN Replacement ELSE CodeOf(s, o, n),
   used |-> k]

LEMMA LeadBytes ==
  ASSUME NEW b \in Octet
  PROVE  /\ LeadByteLen(b) \in 0..4
         /\ IsContinuation(b) => LeadByteLen(b) = 0
         /\ LeadByteLen(b) = 1 <=> b < 128
         /\ LeadByteLen(b) = 2 <=> 192 <= b /\ b < 224
         /\ LeadByteLen(b) = 3 <=> 224 <= b /\ b < 240
         /\ LeadByteLen(b) = 4 <=> 240 <= b /\ b <= 244
BY DEF Octet, LeadByteLen, IsContinuation

LEMMA BytesAt ==
  ASSUME NEW s \in Seq(Octet), NEW o \in Nat, o < Len(s)
  PROVE  At(s, o) \in Octet /\ At(s, o) \in 0..255 /\ At(s, o) \in Int
<1>1. Len(s) \in Nat /\ o + 1 \in 1..Len(s) BY LenProperties
<1>2. s[o + 1] \in Octet BY <1>1, ElementOfSeq
<1>3. \A x \in Octet : x \in 0..255 /\ x \in Int BY DEF Octet
<1>4. s[o + 1] \in 0..255 /\ s[o + 1] \in Int BY <1>2, <1>3
<1> QED BY <1>2, <1>4, Zenon DEF At

\* There is one such number of bytes.
LEMMA TakesSome ==
  ASSUME NEW s, NEW o \in Nat, NEW m \in 1..4
  PROVE  /\ \E k : TakesBytes(s, o, m, k)
         /\ \A k, l : TakesBytes(s, o, m, k) /\ TakesBytes(s, o, m, l) => k = l
<1>1. \E k : TakesBytes(s, o, m, k)
  <2>1. CASE m = 1 \/ ~IsContinuation(At(s, o + 1))
    <3>1. TakesBytes(s, o, m, 1) BY <2>1 DEF TakesBytes
    <3> QED BY <3>1
  <2>2. CASE m # 1 /\ IsContinuation(At(s, o + 1)) /\ (m = 2 \/ ~IsContinuation(At(s, o + 2)))
    <3>1. TakesBytes(s, o, m, 2) BY <2>2 DEF TakesBytes
    <3> QED BY <3>1
  <2>3. CASE /\ m \notin {1, 2} /\ IsContinuation(At(s, o + 1)) /\ IsContinuation(At(s, o + 2))
             /\ m = 3 \/ ~IsContinuation(At(s, o + 3))
    <3>1. TakesBytes(s, o, m, 3) BY <2>3 DEF TakesBytes
    <3> QED BY <3>1
  <2>4. CASE /\ m \notin {1, 2, 3} /\ IsContinuation(At(s, o + 1)) /\ IsContinuation(At(s, o + 2))
             /\ IsContinuation(At(s, o + 3))
    <3>1. TakesBytes(s, o, m, 4) BY <2>4 DEF TakesBytes
    <3> QED BY <3>1
  <2> QED BY <2>1, <2>2, <2>3, <2>4
<1>2. ASSUME NEW k, NEW l, TakesBytes(s, o, m, k), TakesBytes(s, o, m, l), k < l PROVE FALSE
  BY <1>2 DEF TakesBytes
<1>3. ASSUME NEW k, NEW l, TakesBytes(s, o, m, k), TakesBytes(s, o, m, l) PROVE k = l
  BY <1>3, <1>2 DEF TakesBytes
<1> QED BY <1>1, <1>3

\* The loop of decodeBounded makes the number that the bytes encode.
Loops(f, s, o, k, z) == f = [i \in 0..k - 1 |-> IF i = 0 THEN z ELSE (At(s, o + i) % 64) + 64 * f[i - 1]]

LEMMA LoopRuns ==
  ASSUME NEW s \in Seq(Octet), NEW o \in Nat, NEW k \in 1..4, o + k <= Len(s), NEW z \in Int
  PROVE  \E f : Loops(f, s, o, k, z)
<1> DEFINE d == [i \in 1..k - 1 |-> At(s, o + i) % 64]
           base == 64
           j == k - 1
<1>1. d \in [1..j -> Int] /\ base \in Int /\ j \in Nat
  <2>1. ASSUME NEW i \in 1..k - 1 PROVE At(s, o + i) % 64 \in Int
    <3> DEFINE p == o + i  x == At(s, p)
    <3>1. p \in Nat /\ p < Len(s) BY LenProperties
    <3>2. x \in Int
      <4> HIDE DEF p
      <4> QED BY <3>1, BytesAt
    <3> HIDE DEF x
    <3>3. x % 64 \in Int BY <3>2
    <3> QED BY <3>3 DEF x
  <2>2. d \in [1..k - 1 -> Int] BY <2>1
  <2> HIDE DEF d
  <2> QED BY <2>2
<1>2. \E g : Scaled(g, j, z, base, d)
  <2> HIDE DEF d, base, j
  <2> QED BY <1>1, Scaling, Zenon
<1>3. PICK g : Scaled(g, j, z, base, d) BY <1>2
<1>4. Loops(g, s, o, k, z)
  <2>1. \A i \in 1..k - 1 : d[i] = At(s, o + i) % 64 OBVIOUS
  <2>2. /\ g \in [0..k - 1 -> Int]
        /\ \A i \in 0..k - 1 : g[i] = IF i = 0 THEN z ELSE d[i] + 64 * g[i - 1]
    BY <1>3 DEF Scaled
  <2> HIDE DEF d
  <2> QED BY <2>1, <2>2 DEF Loops
<1> QED BY <1>4

Looped(x, s, o, n, z) ==
  x = IF n = 1 THEN z
      ELSE IF n = 2 THEN (At(s, o + 1) % 64) + 64 * z
      ELSE IF n = 3 THEN (At(s, o + 2) % 64) + 64 * ((At(s, o + 1) % 64) + 64 * z)
      ELSE (At(s, o + 3) % 64) + 64 * ((At(s, o + 2) % 64)
             + 64 * ((At(s, o + 1) % 64) + 64 * z))

LEMMA LoopDecodes ==
  ASSUME NEW s, NEW o, NEW n \in 1..4, NEW z, NEW f, Loops(f, s, o, n, z)
  PROVE  Looped(f[n - 1], s, o, n, z)
<1>1. f[0] = z /\ \A i \in 1..n - 1 : f[i] = (At(s, o + i) % 64) + 64 * f[i - 1] BY DEF Loops
<1>2. n \in {1, 2, 3, 4} OBVIOUS
<1>3. /\ n >= 2 => f[1] = (At(s, o + 1) % 64) + 64 * f[0]
      /\ n >= 3 => f[2] = (At(s, o + 2) % 64) + 64 * f[1]
      /\ n >= 4 => f[3] = (At(s, o + 3) % 64) + 64 * f[2]
  BY <1>1
<1> QED BY <1>1, <1>2, <1>3 DEF Looped

\* What DecodeBounded returns.
LEMMA DecodeIs ==
  ASSUME NEW s \in Seq(Octet), NEW o \in Nat, NEW a \in Nat \ {0}, o + a <= Len(s)
  PROVE  LET d == DecodeBounded(s, o, a)
             n == LeadByteLen(At(s, o))
         IN /\ n = 0 => d = [cp |-> Replacement, used |-> 1]
            /\ n # 0 => \A k : TakesBytes(s, o, Smaller(n, a), k) => d = CharacterOf(s, o, n, k)
<1> DEFINE n == LeadByteLen(At(s, o))  m == Smaller(n, a)  d == DecodeBounded(s, o, a)
<1>1. Len(s) \in Nat /\ At(s, o) \in Octet /\ n \in 0..4 BY LenProperties, BytesAt, LeadBytes
<1>2. ASSUME n = 0 PROVE d = [cp |-> Replacement, used |-> 1] BY <1>2 DEF DecodeBounded
<1>3. ASSUME n # 0, NEW k, TakesBytes(s, o, m, k) PROVE d = CharacterOf(s, o, n, k)
  <2> DEFINE r == CHOOSE r \in 1..m : /\ \A i \in 1..r - 1 : IsContinuation(At(s, o + i))
                                      /\ r < m => ~IsContinuation(At(s, o + r))
             z == PayloadOf(At(s, o), n)
             Right(g) == g = [i \in 0..r - 1 |-> IF i = 0 THEN z ELSE (At(s, o + i) % 64) + 64 * g[i - 1]]
             f == CHOOSE g : Right(g)
  <2>1. m \in 1..4 /\ m <= n /\ m <= a /\ n \in 1..4 BY <1>1, <1>3 DEF Smaller
  <2>2. r = k
    <3> HIDE DEF n, m
    <3>1. \E j \in 1..m : /\ \A i \in 1..j - 1 : IsContinuation(At(s, o + i))
                          /\ j < m => ~IsContinuation(At(s, o + j))
      BY <1>3 DEF TakesBytes
    <3>2. TakesBytes(s, o, m, r) BY <3>1 DEF TakesBytes
    <3> QED BY <1>3, <2>1, <3>2, TakesSome
  <2>3. d = [cp |-> IF r < n \/ ~IsScalarOfLen(f[n - 1], n) THEN Replacement ELSE f[n - 1], used |-> r]
    BY <1>3 DEF DecodeBounded, Smaller
  <2>4. k \in 1..4 /\ k <= n BY <1>3, <2>1 DEF TakesBytes
  <2>5. CASE k < n
    <3> HIDE DEF f, n, m, r, d
    <3> QED BY <2>2, <2>3, <2>5 DEF CharacterOf
  <2>6. CASE k = n
    <3>1. r = k /\ r = n /\ o + n <= Len(s) /\ r \in 1..4 /\ n \in 1..4
      <4>1. k <= m BY <1>3, <2>1 DEF TakesBytes
      <4> HIDE DEF n, m, r
      <4> QED BY <1>1, <2>1, <2>2, <2>4, <2>6, <4>1
    <3>2. z \in Int
      <4> DEFINE b == At(s, o)
      <4>1. b \in 0..255 BY <1>1 DEF Octet
      <4> HIDE DEF b, n
      <4>2. b % 32 \in Int /\ b % 16 \in Int /\ b % 8 \in Int /\ b \in Int BY <4>1
      <4> QED BY <4>2 DEF PayloadOf, b
    <3> HIDE DEF z, n, m, r
    <3>3. Looped(f[n - 1], s, o, n, z)
      <4>1. \E g : Right(g)
        <5>1. o + r <= Len(s) /\ r \in 1..4 BY <3>1
        <5>2. \E g : Loops(g, s, o, r, z) BY <3>2, <5>1, LoopRuns
        <5> QED BY <5>2 DEF Loops
      <4>2. Right(f)
        <5> HIDE DEF Right
        <5> QED BY <4>1
      <4>3. Loops(f, s, o, n, z) BY <3>1, <4>2 DEF Loops
      <4> HIDE DEF f, Right
      <4> QED BY <3>1, <4>3, LoopDecodes
    <3>4. f[n - 1] = CodeOf(s, o, n)
      <4>1. n = 1 \/ n = 2 \/ n = 3 \/ n = 4 BY <3>1
      <4>2. z = PayloadOf(At(s, o), n) BY DEF z
      <4>3. /\ n = 1 => z = At(s, o)
            /\ n = 2 => z = At(s, o) % 32
            /\ n = 3 => z = At(s, o) % 16
            /\ n = 4 => z = At(s, o) % 8
        BY <4>2 DEF PayloadOf
      <4> HIDE DEF f
      <4> QED BY <3>3, <4>1, <4>3 DEF CodeOf, Looped
    <3> HIDE DEF f, d
    <3> QED BY <2>2, <2>3, <2>6, <3>4 DEF CharacterOf
  <2> HIDE DEF n, d, f, r
  <2> QED BY <2>1, <2>4, <2>5, <2>6
<1> QED BY <1>2, <1>3

\* A part of a String.
LEMMA BytesIs ==
  ASSUME NEW s \in Seq(Octet), NEW o \in Nat, NEW q \in Nat, o <= q, q <= Len(s)
  PROVE  /\ Bytes(s, o, q) \in Seq(Octet) /\ Len(Bytes(s, o, q)) = q - o
         /\ \A i \in 1..q - o : Bytes(s, o, q)[i] = s[o + i]
<1>1. Len(s) \in Nat /\ o + 1 \in Int /\ q \in Int BY LenProperties
<1>2. \A i \in o + 1 .. q : s[i] \in Octet BY <1>1, ElementOfSeq
<1> DEFINE m == o + 1
<1>3. m \in Int /\ \A i \in m .. q : s[i] \in Octet BY <1>1, <1>2
<1>4. /\ SubSeq(s, m, q) \in Seq(Octet)
      /\ Len(SubSeq(s, m, q)) = IF m <= q THEN q - m + 1 ELSE 0
      /\ \A i \in 1..q - m + 1 : SubSeq(s, m, q)[i] = s[m + i - 1]
  <2> HIDE DEF m
  <2> QED BY <1>1, <1>3, SubSeqProperties
<1>5. q - m + 1 = q - o /\ \A i \in Int : m + i - 1 = o + i BY <1>1
<1> DEFINE t == SubSeq(s, m, q)
<1>6. t \in Seq(Octet) /\ Len(t) = q - o /\ \A i \in 1..q - o : t[i] = s[o + i]
  <2>1. Len(t) = q - o BY <1>4, <1>5
  <2>2. ASSUME NEW i \in 1..q - o PROVE t[i] = s[o + i]
    <3> HIDE DEF m
    <3>1. t[i] = s[m + i - 1] BY <1>4, <1>5
    <3> QED BY <1>5, <3>1
  <2> HIDE DEF t
  <2> QED BY <1>4, <2>1, <2>2 DEF t
<1> QED BY <1>6 DEF Bytes

LEMMA BytesEqual ==
  ASSUME NEW s \in Seq(Octet), NEW o \in Nat, NEW e \in Seq(Octet), NEW q, q = o + Len(e), q <= Len(s),
         \A i \in 1..Len(e) : e[i] = s[o + i]
  PROVE  Bytes(s, o, q) = e
<1> DEFINE t == Bytes(s, o, q)
<1>1. Len(e) \in Nat /\ Len(s) \in Nat BY LenProperties
<1>2. q \in Nat /\ o <= q /\ q <= Len(s) /\ q - o = Len(e) BY <1>1
<1>3. t \in Seq(Octet) /\ Len(t) = q - o /\ \A i \in 1..q - o : t[i] = s[o + i] BY <1>2, BytesIs
<1> HIDE DEF t
<1>4. t = e BY <1>1, <1>2, <1>3, SeqEqual
<1> QED BY <1>4 DEF t

\* Decoding looks at the character's bytes, and at the one after them.
SameBytes(s, o, a, t, p, b) == \A i \in Nat : i < a /\ i < b => At(s, o + i) = At(t, p + i)

LEMMA DecodesAlike ==
  ASSUME NEW s \in Seq(Octet), NEW o \in Nat, NEW a \in Nat \ {0}, o + a <= Len(s),
         NEW t \in Seq(Octet), NEW p \in Nat, NEW b \in Nat \ {0}, p + b <= Len(t),
         DecodeBounded(s, o, a).used <= b,
         b <= a \/ Smaller(LeadByteLen(At(s, o)), b) = Smaller(LeadByteLen(At(s, o)), a),
         SameBytes(s, o, a, t, p, b)
  PROVE  DecodeBounded(t, p, b) = DecodeBounded(s, o, a)
<1> DEFINE n == LeadByteLen(At(s, o))  m == Smaller(n, a)  j == Smaller(n, b)
           d == DecodeBounded(s, o, a)
<1>0. \A i \in Nat : i < a /\ i < b => At(s, o + i) = At(t, p + i) BY DEF SameBytes
<1>1. At(s, o) = At(t, p)
  <2>1. At(s, o + 0) = At(t, p + 0)
    <3>1. 0 \in Nat /\ 0 < a /\ 0 < b OBVIOUS
    <3> QED BY <1>0, <3>1, Zenon
  <2>2. o + 0 = o /\ p + 0 = p OBVIOUS
  <2> QED BY <2>1, <2>2
<1>2. n \in 0..4 /\ o < Len(s) BY LenProperties, BytesAt, LeadBytes
<1>3. CASE n = 0 BY <1>1, <1>3, DecodeIs
<1>4. CASE n # 0
  <2>1. n \in 1..4 /\ m \in 1..4 /\ j \in 1..4 /\ m <= a /\ j <= b /\ m <= n /\ j <= n
    <3> HIDE DEF n
    <3> QED BY <1>2, <1>4 DEF Smaller
  <2> HIDE DEF n
  <2>2. \E k : TakesBytes(s, o, m, k)
    <3> HIDE DEF m
    <3> QED BY <2>1, TakesSome
  <2>3. PICK k : TakesBytes(s, o, m, k) BY <2>2
  <2>4. d = CharacterOf(s, o, n, k)
    <3> HIDE DEF d
    <3> QED BY <1>4, <2>3, DecodeIs DEF d, n
  <2>5. k \in 1..m /\ k <= b /\ k \in Nat BY <2>4, <2>3 DEF CharacterOf, TakesBytes
  <2>6. TakesBytes(t, p, j, k)
    <3>1. k \in 1..j BY <2>1, <2>5 DEF Smaller
    <3>2. ASSUME NEW i \in 1..k - 1 PROVE IsContinuation(At(t, p + i))
      <4>1. i \in Nat /\ i < a /\ i < b BY <2>1, <2>5
      <4>2. IsContinuation(At(s, o + i)) BY <2>3 DEF TakesBytes
      <4> QED BY <1>0, <4>1, <4>2
    <3>3. ASSUME k < j PROVE ~IsContinuation(At(t, p + k))
      <4>1. k < m
        <5>1. CASE j = m BY <3>3, <5>1
        <5>2. CASE b <= a BY <1>2, <2>1, <2>5, <3>3, <5>2 DEF Smaller
        <5> QED BY <5>1, <5>2 DEF n
      <4>2. k < a /\ k < b BY <2>1, <2>5, <3>3, <4>1
      <4>3. ~IsContinuation(At(s, o + k)) BY <2>3, <4>1 DEF TakesBytes
      <4> QED BY <1>0, <2>5, <4>2, <4>3
    <3> QED BY <3>1, <3>2, <3>3 DEF TakesBytes
  <2>7. DecodeBounded(t, p, b) = CharacterOf(t, p, n, k)
    <3>1. LeadByteLen(At(t, p)) = n BY <1>1 DEF n
    <3> DEFINE e == DecodeBounded(t, p, b)
    <3>2. n # 0 => \A l : TakesBytes(t, p, j, l) => e = CharacterOf(t, p, n, l)
      <4> HIDE DEF e
      <4> QED BY <3>1, DecodeIs DEF e
    <3> HIDE DEF e, j
    <3>3. e = CharacterOf(t, p, n, k) BY <1>4, <2>6, <3>2
    <3> QED BY <3>3 DEF e
  <2>8. CharacterOf(t, p, n, k) = CharacterOf(s, o, n, k)
    <3>1. CASE k < n BY <3>1 DEF CharacterOf
    <3>2. CASE k = n
      <4>1. \A i \in Nat : i < n => At(s, o + i) = At(t, p + i) BY <1>0, <2>1, <2>5, <3>2
      <4>2. /\ n >= 2 => At(s, o + 1) = At(t, p + 1)
            /\ n >= 3 => At(s, o + 2) = At(t, p + 2)
            /\ n >= 4 => At(s, o + 3) = At(t, p + 3)
        BY <4>1, <2>1
      <4>3. CodeOf(s, o, n) = CodeOf(t, p, n)
        <5>1. n = 1 \/ n = 2 \/ n = 3 \/ n = 4 BY <2>1
        <5>2. CASE n = 1 BY <1>1, <5>2 DEF CodeOf
        <5>3. CASE n = 2 BY <1>1, <4>2, <5>3 DEF CodeOf
        <5>4. CASE n = 3 BY <1>1, <4>2, <5>4 DEF CodeOf
        <5>5. CASE n = 4 BY <1>1, <4>2, <5>5 DEF CodeOf
        <5> QED BY <5>1, <5>2, <5>3, <5>4, <5>5
      <4> QED BY <4>3 DEF CharacterOf
    <3> QED BY <2>1, <2>5, <3>1, <3>2
  <2> QED BY <2>4, <2>7, <2>8
<1> QED BY <1>3, <1>4

LEMMA CodesAre == \A c \in Codes : c \in Nat /\ c <= 1114111
<1>1. LastCode = 1114111 BY SMT DEF LastCode
<1>2. \A c \in Codes : c \in Nat /\ c <= LastCode
  <2>1. LastCode \in Int BY <1>1, SMT
  <2> QED BY <2>1, SMT DEF Codes
<1> QED BY <1>1, <1>2, SMT

\* A code by its digits of six bits.
Digits64(c, x0, x1, x2, x3) ==
  /\ x0 \in 0..63 /\ x1 \in 0..63 /\ x2 \in 0..63 /\ x3 \in 0..4
  /\ c = x0 + 64 * x1 + 4096 * x2 + 262144 * x3

LEMMA DigitsAre ==
  ASSUME NEW x0, NEW x1, NEW x2, NEW x3, NEW c, Digits64(c, x0, x1, x2, x3)
  PROVE  /\ c \in Nat
         /\ (c \div 1) % 64 = x0 /\ (c \div 64) % 64 = x1 /\ (c \div 4096) % 64 = x2
         /\ c \div 64 = x1 + 64 * x2 + 4096 * x3
         /\ c \div 4096 = x2 + 64 * x3 /\ c \div 262144 = x3
<1>1. c \in Nat BY SMT DEF Digits64
<1>2. c \div 1 = c /\ c % 64 = x0 /\ c \div 64 = x1 + 64 * x2 + 4096 * x3 BY <1>1, SMT DEF Digits64
<1>3. c \div 4096 = x2 + 64 * x3 /\ c \div 262144 = x3 BY <1>1, SMT DEF Digits64
<1>4. (x1 + 64 * x2 + 4096 * x3) % 64 = x1 /\ (x2 + 64 * x3) % 64 = x2 BY SMT DEF Digits64
<1> QED BY <1>1, <1>2, <1>3, <1>4, SMT

LEMMA DigitsOf ==
  ASSUME NEW c \in Codes
  PROVE  \E x0, x1, x2, x3 : Digits64(c, x0, x1, x2, x3)
<1>1. c \in Nat /\ c < 1310720 BY CodesAre, SMT
<1> DEFINE x0 == c % 64  x1 == (c \div 64) % 64  x2 == (c \div 4096) % 64  x3 == c \div 262144
<1>2. x0 \in 0..63 /\ x1 \in 0..63 /\ x2 \in 0..63 BY <1>1, SMT
<1>3. x3 \in 0..4 BY <1>1, SMT
<1>4. c = x0 + 64 * x1 + 4096 * x2 + 262144 * x3 BY <1>1, SMT
<1> HIDE DEF x0, x1, x2, x3
<1>5. Digits64(c, x0, x1, x2, x3) BY <1>2, <1>3, <1>4, SMT DEF Digits64
<1> QED BY <1>5

\* The bytes of a character, by the digits of its number.
LEMMA EncodeIs ==
  ASSUME NEW x0, NEW x1, NEW x2, NEW x3, NEW c, Digits64(c, x0, x1, x2, x3)
  PROVE  /\ c < 128 => EncodeInto(c) = <<c>>
         /\ 128 <= c /\ c < 2048 => EncodeInto(c) = <<192 + x1, 128 + x0>> /\ x2 = 0 /\ x3 = 0
         /\ 2048 <= c /\ c < 65536 => EncodeInto(c) = <<224 + x2, 128 + x1, 128 + x0>> /\ x3 = 0
         /\ 65536 <= c => EncodeInto(c) = <<240 + x3, 128 + x2, 128 + x1, 128 + x0>>
<1>1. /\ c \in Nat
      /\ (c \div 1) % 64 = x0 /\ (c \div 64) % 64 = x1 /\ (c \div 4096) % 64 = x2
      /\ c \div 64 = x1 + 64 * x2 + 4096 * x3
      /\ c \div 4096 = x2 + 64 * x3 /\ c \div 262144 = x3
  BY DigitsAre
<1>3. ASSUME c < 128 PROVE EncodeInto(c) = <<c>> BY <1>1, <1>3, SMT DEF EncodeInto
<1>4. ASSUME 128 <= c, c < 2048 PROVE EncodeInto(c) = <<192 + x1, 128 + x0>> /\ x2 = 0 /\ x3 = 0
  <2>1. x2 = 0 /\ x3 = 0 BY <1>4, SMT DEF Digits64
  <2>2. EncodeInto(c) = <<192 + (c \div 64), 128 + ((c \div 1) % 64)>>
    BY <1>1, <1>4, SMT DEF EncodeInto
  <2>3. c \div 64 = x1 BY <1>1, <2>1, SMT DEF Digits64
  <2> QED BY <1>1, <2>1, <2>2, <2>3
<1>5. ASSUME 2048 <= c, c < 65536
      PROVE EncodeInto(c) = <<224 + x2, 128 + x1, 128 + x0>> /\ x3 = 0
  <2>1. x3 = 0 BY <1>5, SMT DEF Digits64
  <2>2. EncodeInto(c) = <<224 + (c \div 4096), 128 + ((c \div 64) % 64), 128 + ((c \div 1) % 64)>>
    BY <1>1, <1>5, SMT DEF EncodeInto
  <2>3. c \div 4096 = x2 BY <1>1, <2>1, SMT DEF Digits64
  <2> DEFINE p == c \div 4096  q == (c \div 64) % 64  r == (c \div 1) % 64
  <2>4. EncodeInto(c) = <<224 + p, 128 + q, 128 + r>> /\ p = x2 /\ q = x1 /\ r = x0
    BY <1>1, <2>2, <2>3, SMT
  <2> HIDE DEF p, q, r
  <2> QED BY <2>1, <2>4, SMT
<1>6. ASSUME 65536 <= c PROVE EncodeInto(c) = <<240 + x3, 128 + x2, 128 + x1, 128 + x0>>
  <2>1. EncodeInto(c) = <<240 + (c \div 262144), 128 + ((c \div 4096) % 64),
                          128 + ((c \div 64) % 64), 128 + ((c \div 1) % 64)>>
    BY <1>1, <1>6, SMT DEF EncodeInto
  <2> QED BY <1>1, <2>1, SMT
<1> QED BY <1>3, <1>4, <1>5, <1>6

LEMMA TailBytes ==
  ASSUME NEW b \in Octet, IsContinuation(b)
  PROVE  b % 64 = b - 128 /\ b % 64 \in 0..63 /\ b = 128 + (b % 64)
<1>1. b \in 128..191 BY DEF Octet, IsContinuation
<1>2. b \in Int /\ b = 64 * 2 + (b - 128) /\ b - 128 \in 0..64 - 1 BY <1>1
<1> DEFINE m == 64
<1>3. m \in Nat \ {0} /\ 2 \in Int /\ b - 128 \in 0..m - 1 /\ b = m * 2 + (b - 128) BY <1>2
<1> HIDE DEF m
<1>4. b - 128 = b % m BY <1>2, <1>3, DividedOnly
<1> QED BY <1>2, <1>4 DEF m

LEMMA HeadBytes ==
  ASSUME NEW b \in Octet
  PROVE  /\ LeadByteLen(b) = 2 => b % 32 = b - 192 /\ b - 192 \in 0..31
         /\ LeadByteLen(b) = 3 => b % 16 = b - 224 /\ b - 224 \in 0..15
         /\ LeadByteLen(b) = 4 => b % 8 = b - 240 /\ b - 240 \in 0..4
<1>1. b \in Int BY DEF Octet
<1>2. ASSUME LeadByteLen(b) = 2 PROVE b % 32 = b - 192 /\ b - 192 \in 0..31 BY <1>1, <1>2, LeadBytes
<1>3. ASSUME LeadByteLen(b) = 3 PROVE b % 16 = b - 224 /\ b - 224 \in 0..15 BY <1>1, <1>3, LeadBytes
<1>4. ASSUME LeadByteLen(b) = 4 PROVE b % 8 = b - 240 /\ b - 240 \in 0..4 BY <1>1, <1>4, LeadBytes
<1> QED BY <1>2, <1>3, <1>4

LEMMA ScalarIs ==
  ASSUME NEW c, NEW n \in 1..4
  PROVE  IsScalarOfLen(c, n) <=> /\ c \in Scalars
                                 /\ n = 2 => c >= 128
                                 /\ n = 3 => c >= 2048
                                 /\ n = 4 => c >= 65536
<1> DEFINE least == <<0, 128, 2048, 65536>>
<1>1. least[1] = 0 /\ least[2] = 128 /\ least[3] = 2048 /\ least[4] = 65536 BY SMT
<1>2. IsScalarOfLen(c, n) <=> c >= least[n] /\ c \in Scalars BY SMT DEF IsScalarOfLen, Scalars
<1>3. n = 1 \/ n = 2 \/ n = 3 \/ n = 4 OBVIOUS
<1>4. c \in Scalars => c \in Nat BY CodesAre, SMT DEF Scalars
<1> HIDE DEF least
<1> QED BY <1>1, <1>2, <1>3, <1>4, SMT

LEMMA ReplacementIs == Replacement \in Scalars
<1>1. LastCode \in Int /\ 65533 <= LastCode BY SMT DEF LastCode
<1> QED BY <1>1, SMT DEF Replacement, Scalars, Codes, Surrogate

\* The bytes of a character.
LEMMA Encodes ==
  ASSUME NEW c \in Codes
  PROVE  /\ EncodeInto(c) \in Seq(Octet) /\ Len(EncodeInto(c)) \in 1..4
         /\ \A i \in 2..Len(EncodeInto(c)) : IsContinuation(EncodeInto(c)[i])
         /\ LeadByteLen(EncodeInto(c)[1]) = Len(EncodeInto(c))
<1>1. PICK x0, x1, x2, x3 : Digits64(c, x0, x1, x2, x3) BY DigitsOf
<1> DEFINE e == EncodeInto(c)
<1>2. /\ c < 128 => e = <<c>>
      /\ 128 <= c /\ c < 2048 => e = <<192 + x1, 128 + x0>> /\ x2 = 0 /\ x3 = 0
      /\ 2048 <= c /\ c < 65536 => e = <<224 + x2, 128 + x1, 128 + x0>> /\ x3 = 0
      /\ 65536 <= c => e = <<240 + x3, 128 + x2, 128 + x1, 128 + x0>>
  BY <1>1, EncodeIs
<1>3. c \in Nat /\ x0 \in 0..63 /\ x1 \in 0..63 /\ x2 \in 0..63 /\ x3 \in 0..4
  BY <1>1, CodesAre, SMT DEF Digits64
<1>4. \A i \in 0..63 : IsContinuation(128 + i) /\ 128 + i \in Octet BY DEF IsContinuation, Octet
<1> DEFINE Good(t) == /\ t \in Seq(Octet) /\ Len(t) \in 1..4
                      /\ \A i \in 2..Len(t) : IsContinuation(t[i])
                      /\ LeadByteLen(t[1]) = Len(t)
<1> HIDE DEF e
<1>5. CASE c < 128
  <2>1. c \in Octet /\ LeadByteLen(c) = 1 BY <1>3, <1>5, SMT DEF Octet, LeadByteLen
  <2>2. Good(<<c>>) BY <2>1
  <2>3. e = <<c>> BY <1>2, <1>5
  <2> HIDE DEF Good
  <2>4. Good(e) BY <2>2, <2>3
  <2> QED BY <2>4 DEF e, Good
<1>6. CASE 128 <= c /\ c < 2048
  <2> DEFINE b == 192 + x1  t0 == 128 + x0
  <2>1. b \in Octet /\ LeadByteLen(b) = 2
    <3>1. x1 \in 0..31 BY <1>1, <1>2, <1>6, SMT DEF Digits64
    <3>2. b \in 192..223 BY <3>1
    <3> HIDE DEF b
    <3> QED BY <3>2, SMT DEF Octet, LeadByteLen
  <2>2. t0 \in Octet /\ IsContinuation(t0) BY <1>3, <1>4
  <2>3. e = <<b, t0>> BY <1>2, <1>6
  <2> HIDE DEF b, t0
  <2>4. Good(<<b, t0>>) BY <2>1, <2>2
  <2> QED BY <2>3, <2>4 DEF e
<1>7. CASE 2048 <= c /\ c < 65536
  <2> DEFINE b == 224 + x2  t0 == 128 + x0  t1 == 128 + x1
  <2>1. b \in Octet /\ LeadByteLen(b) = 3
    <3>1. x2 \in 0..15 BY <1>1, <1>2, <1>7, SMT DEF Digits64
    <3>2. b \in 224..239 BY <3>1
    <3> HIDE DEF b
    <3> QED BY <3>2, SMT DEF Octet, LeadByteLen
  <2>2. t0 \in Octet /\ IsContinuation(t0) /\ t1 \in Octet /\ IsContinuation(t1) BY <1>3, <1>4
  <2>3. e = <<b, t1, t0>> BY <1>2, <1>7
  <2> HIDE DEF b, t0, t1
  <2>4. Good(<<b, t1, t0>>) BY <2>1, <2>2
  <2> QED BY <2>3, <2>4 DEF e
<1>8. CASE 65536 <= c
  <2> DEFINE b == 240 + x3  t0 == 128 + x0  t1 == 128 + x1  t2 == 128 + x2
  <2>1. b \in Octet /\ LeadByteLen(b) = 4
    <3>2. b \in 240..244 BY <1>3
    <3> HIDE DEF b
    <3> QED BY <3>2, SMT DEF Octet, LeadByteLen
  <2>2. /\ t0 \in Octet /\ IsContinuation(t0) /\ t1 \in Octet /\ IsContinuation(t1)
        /\ t2 \in Octet /\ IsContinuation(t2)
    BY <1>3, <1>4
  <2>3. e = <<b, t2, t1, t0>> BY <1>2, <1>8, SMT
  <2> HIDE DEF b, t0, t1, t2
  <2>4. Good(<<b, t2, t1, t0>>) BY <2>1, <2>2
  <2> QED BY <2>3, <2>4 DEF e
<1> QED BY <1>3, <1>5, <1>6, <1>7, <1>8, SMT

LEMMA OneByte ==
  ASSUME NEW c \in Nat, c < 128
  PROVE  EncodeInto(c) = <<c>>
BY SMT DEF EncodeInto

\* The bytes that decode to a character are the character's, and the other way around.
LEMMA DecodedIsEncoded ==
  ASSUME NEW s \in Seq(Octet), NEW o \in Nat, NEW n \in 1..4, o + n <= Len(s),
         LeadByteLen(At(s, o)) = n, \A i \in 1..n - 1 : IsContinuation(At(s, o + i)),
         IsScalarOfLen(CodeOf(s, o, n), n)
  PROVE  LET e == EncodeInto(CodeOf(s, o, n))
         IN Len(e) = n /\ \A i \in 1..n : e[i] = s[o + i]
<1> DEFINE c == CodeOf(s, o, n)  b == At(s, o)  e == EncodeInto(c)
           b1 == At(s, o + 1)  b2 == At(s, o + 2)  b3 == At(s, o + 3)
<1>1. /\ b \in Octet
      /\ n >= 2 => b1 \in Octet /\ IsContinuation(b1)
      /\ n >= 3 => b2 \in Octet /\ IsContinuation(b2)
      /\ n >= 4 => b3 \in Octet /\ IsContinuation(b3)
  <2>1. ASSUME NEW i \in 0..n - 1 PROVE At(s, o + i) \in Octet BY LenProperties, BytesAt
  <2>4. b \in Octet BY LenProperties, BytesAt
  <2>5. /\ n >= 2 => 1 \in 0..n - 1 /\ 1 \in 1..n - 1
        /\ n >= 3 => 2 \in 0..n - 1 /\ 2 \in 1..n - 1
        /\ n >= 4 => 3 \in 0..n - 1 /\ 3 \in 1..n - 1
    OBVIOUS
  <2> QED BY <2>1, <2>4, <2>5
<1>2. /\ s[o + 1] = b /\ s[o + 2] = b1 /\ s[o + 3] = b2 /\ s[o + 4] = b3 BY DEF At
<1>3. c \in Scalars /\ (n = 2 => c >= 128) /\ (n = 3 => c >= 2048) /\ (n = 4 => c >= 65536)
  <2> HIDE DEF c
  <2> QED BY ScalarIs DEF c
<1>4. /\ n = 2 => b % 32 = b - 192 /\ b - 192 \in 0..31
      /\ n = 3 => b % 16 = b - 224 /\ b - 224 \in 0..15
      /\ n = 4 => b % 8 = b - 240 /\ b - 240 \in 0..4
      /\ n = 1 => b < 128
      /\ b \in Nat
  <2>1. n = LeadByteLen(b) OBVIOUS
  <2> HIDE DEF b
  <2>2. b \in Nat BY <1>1 DEF Octet
  <2> QED BY <1>1, <2>1, <2>2, HeadBytes, LeadBytes
<1>5. /\ n >= 2 => b1 % 64 = b1 - 128 /\ b1 - 128 \in 0..63 /\ b1 \in Int
      /\ n >= 3 => b2 % 64 = b2 - 128 /\ b2 - 128 \in 0..63 /\ b2 \in Int
      /\ n >= 4 => b3 % 64 = b3 - 128 /\ b3 - 128 \in 0..63 /\ b3 \in Int
  <2> HIDE DEF b1, b2, b3
  <2>1. ASSUME NEW x \in Octet, IsContinuation(x)
        PROVE  x % 64 = x - 128 /\ x - 128 \in 0..63 /\ x \in Int
    <3>1. x % 64 = x - 128 /\ x % 64 \in 0..63 BY <2>1, TailBytes, Zenon
    <3>2. x \in Int BY DEF Octet
    <3> QED BY <3>1, <3>2
  <2> QED BY <1>1, <2>1
<1>6. CASE n = 1
  <2>1. c = b BY <1>6 DEF CodeOf
  <2>2. e = <<b>>
    <3> HIDE DEF b, c
    <3>1. c < 128 /\ c \in Nat BY <1>4, <1>6, <2>1
    <3>2. EncodeInto(c) = <<c>> BY <3>1, OneByte
    <3> QED BY <2>1, <3>2
  <2>3. Len(e) = 1 /\ e[1] = b
    <3> HIDE DEF e, b
    <3> QED BY <2>2
  <2> HIDE DEF e, b
  <2>4. \A i \in 1..n : i = 1 BY <1>6
  <2> QED BY <1>2, <1>6, <2>3, <2>4 DEF e, c
<1>7. CASE n = 2
  <2> DEFINE x0 == b1 - 128  x1 == b - 192
  <2>1. c = (b1 % 64) + 64 * (b % 32) BY <1>7 DEF CodeOf
  <2> HIDE DEF b, b1, c
  <2>2. Digits64(c, x0, x1, 0, 0)
    <3>1. x0 \in 0..63 /\ x1 \in 0..63 /\ c = x0 + 64 * x1 BY <1>4, <1>5, <1>7, <2>1, SMT
    <3> HIDE DEF x0, x1
    <3> QED BY <3>1, SMT DEF Digits64
  <2>3. 128 <= c /\ c < 2048 BY <1>3, <1>4, <1>5, <1>7, <2>1, SMT
  <2>4. e = <<192 + x1, 128 + x0>>
    <3> HIDE DEF x0, x1, e
    <3> QED BY <2>2, <2>3, EncodeIs DEF e
  <2>5. 192 + x1 = b /\ 128 + x0 = b1 BY <1>4, <1>5, <1>7, SMT
  <2>6. e = <<b, b1>>
    <3> HIDE DEF x0, x1, e
    <3> QED BY <2>4, <2>5
  <2> HIDE DEF e
  <2>7. Len(e) = 2 /\ e[1] = b /\ e[2] = b1 /\ \A i \in 1..n : i = 1 \/ i = 2 BY <1>7, <2>6
  <2> QED BY <1>2, <1>7, <2>7 DEF e, c
<1>8. CASE n = 3
  <2> DEFINE x0 == b2 - 128  x1 == b1 - 128  x2 == b - 224
  <2>1. c = (b2 % 64) + 64 * ((b1 % 64) + 64 * (b % 16)) BY <1>8 DEF CodeOf
  <2> HIDE DEF b, b1, b2, c
  <2>2. Digits64(c, x0, x1, x2, 0)
    <3> DEFINE y0 == b2 % 64  y1 == b1 % 64  y2 == b % 16
    <3>0. /\ y0 = x0 /\ y1 = x1 /\ y2 = x2 /\ c = y0 + 64 * (y1 + 64 * y2)
          /\ x0 \in 0..63 /\ x1 \in 0..63 /\ x2 \in 0..15
      BY <1>4, <1>5, <1>8, <2>1, SMT
    <3> HIDE DEF y0, y1, y2, x0, x1, x2
    <3>1. x0 \in 0..63 /\ x1 \in 0..63 /\ x2 \in 0..15 /\ c = x0 + 64 * (x1 + 64 * x2) BY <3>0, SMT
    <3> HIDE DEF x0, x1, x2
    <3> QED BY <3>1, SMT DEF Digits64
  <2>3. 2048 <= c /\ c < 65536
    <3>1. x0 \in 0..63 /\ x1 \in 0..63 /\ x2 \in 0..15 BY <1>4, <1>5, <1>8, SMT
    <3> HIDE DEF x0, x1, x2
    <3> QED BY <1>3, <1>8, <2>2, <3>1, SMT DEF Digits64
  <2>4. e = <<224 + x2, 128 + x1, 128 + x0>>
    <3> HIDE DEF x0, x1, x2, e
    <3> QED BY <2>2, <2>3, EncodeIs DEF e
  <2>5. 224 + x2 = b /\ 128 + x1 = b1 /\ 128 + x0 = b2 BY <1>4, <1>5, <1>8, SMT
  <2>6. e = <<b, b1, b2>>
    <3> HIDE DEF x0, x1, x2, e
    <3> QED BY <2>4, <2>5
  <2> HIDE DEF e
  <2>7. /\ Len(e) = 3 /\ e[1] = b /\ e[2] = b1 /\ e[3] = b2
        /\ \A i \in 1..n : i = 1 \/ i = 2 \/ i = 3
    BY <1>8, <2>6
  <2> QED BY <1>2, <1>8, <2>7 DEF e, c
<1>9. CASE n = 4
  <2> DEFINE x0 == b3 - 128  x1 == b2 - 128  x2 == b1 - 128  x3 == b - 240
  <2>1. c = (b3 % 64) + 64 * ((b2 % 64) + 64 * ((b1 % 64) + 64 * (b % 8))) BY <1>9 DEF CodeOf
  <2> HIDE DEF b, b1, b2, b3, c
  <2>2. Digits64(c, x0, x1, x2, x3)
    <3> DEFINE y0 == b3 % 64  y1 == b2 % 64  y2 == b1 % 64  y3 == b % 8
    <3>0. /\ y0 = x0 /\ y1 = x1 /\ y2 = x2 /\ y3 = x3 /\ c = y0 + 64 * (y1 + 64 * (y2 + 64 * y3))
          /\ x0 \in 0..63 /\ x1 \in 0..63 /\ x2 \in 0..63 /\ x3 \in 0..4
      BY <1>4, <1>5, <1>9, <2>1, SMT
    <3> HIDE DEF y0, y1, y2, y3, x0, x1, x2, x3
    <3>1. /\ x0 \in 0..63 /\ x1 \in 0..63 /\ x2 \in 0..63 /\ x3 \in 0..4
          /\ c = x0 + 64 * (x1 + 64 * (x2 + 64 * x3))
      BY <3>0, SMT
    <3> HIDE DEF x0, x1, x2, x3
    <3> QED BY <3>1, SMT DEF Digits64
  <2>3. 65536 <= c BY <1>3, <1>9, CodesAre, SMT DEF Scalars
  <2>4. e = <<240 + x3, 128 + x2, 128 + x1, 128 + x0>>
    <3> HIDE DEF x0, x1, x2, x3, e
    <3> QED BY <2>2, <2>3, EncodeIs DEF e
  <2>5. 240 + x3 = b /\ 128 + x2 = b1 /\ 128 + x1 = b2 /\ 128 + x0 = b3
    <3>1. b \in Int /\ b1 \in Int /\ b2 \in Int /\ b3 \in Int BY <1>4, <1>5, <1>9
    <3> QED BY <3>1, SMT
  <2>6. e = <<b, b1, b2, b3>>
    <3> HIDE DEF x0, x1, x2, x3, e
    <3> QED BY <2>4, <2>5
  <2> HIDE DEF e
  <2>7. /\ Len(e) = 4 /\ e[1] = b /\ e[2] = b1 /\ e[3] = b2 /\ e[4] = b3
        /\ \A i \in 1..n : i = 1 \/ i = 2 \/ i = 3 \/ i = 4
    BY <1>9, <2>6
  <2> QED BY <1>2, <1>9, <2>7 DEF e, c
<1> QED BY <1>6, <1>7, <1>8, <1>9

LEMMA EncodedIsDecoded ==
  ASSUME NEW s \in Seq(Octet), NEW o \in Nat, NEW c \in Scalars, o + Len(EncodeInto(c)) <= Len(s),
         \A i \in 1..Len(EncodeInto(c)) : s[o + i] = EncodeInto(c)[i]
  PROVE  LET n == Len(EncodeInto(c)) IN CodeOf(s, o, n) = c /\ IsScalarOfLen(c, n)
<1> DEFINE e == EncodeInto(c)  n == Len(e)
           b == At(s, o)  b1 == At(s, o + 1)  b2 == At(s, o + 2)  b3 == At(s, o + 3)
<1>1. c \in Codes /\ c \in Nat BY CodesAre DEF Scalars
<1>2. n \in 1..4 BY <1>1, Encodes
<1>3. PICK x0, x1, x2, x3 : Digits64(c, x0, x1, x2, x3) BY <1>1, DigitsOf
<1>4. /\ c < 128 => e = <<c>>
      /\ 128 <= c /\ c < 2048 => e = <<192 + x1, 128 + x0>> /\ x2 = 0 /\ x3 = 0
      /\ 2048 <= c /\ c < 65536 => e = <<224 + x2, 128 + x1, 128 + x0>> /\ x3 = 0
      /\ 65536 <= c => e = <<240 + x3, 128 + x2, 128 + x1, 128 + x0>>
  BY <1>3, EncodeIs
<1>5. /\ b = e[1]
      /\ n >= 2 => b1 = e[2]
      /\ n >= 3 => b2 = e[3]
      /\ n >= 4 => b3 = e[4]
  <2>1. /\ s[o + 1] = e[1]
        /\ n >= 2 => s[o + 2] = e[2]
        /\ n >= 3 => s[o + 3] = e[3]
        /\ n >= 4 => s[o + 4] = e[4]
    BY <1>2
  <2> HIDE DEF e, n
  <2> QED BY <2>1 DEF At
<1>6. n = 2 \/ n = 3 \/ n = 4 \/ n = 1 BY <1>2
<1>7. x0 \in 0..63 /\ x1 \in 0..63 /\ x2 \in 0..63 /\ x3 \in 0..4 BY <1>3, SMT DEF Digits64
<1> HIDE DEF b, b1, b2, b3
<1>8. CASE c < 128
  <2>1. n = 1 /\ b = c
    <3> HIDE DEF e
    <3> QED BY <1>4, <1>5, <1>8 DEF n
  <2>2. CodeOf(s, o, n) = b BY <2>1 DEF CodeOf, b
  <2> HIDE DEF e, n
  <2>3. IsScalarOfLen(c, n) BY <1>2, <2>1, ScalarIs
  <2> QED BY <2>1, <2>2, <2>3 DEF n, e
<1>9. CASE 128 <= c /\ c < 2048
  <2>1. n = 2 /\ b = 192 + x1 /\ b1 = 128 + x0 /\ x2 = 0 /\ x3 = 0
    <3> HIDE DEF e
    <3>1. e = <<192 + x1, 128 + x0>> /\ x2 = 0 /\ x3 = 0 BY <1>4, <1>9, SMT
    <3> QED BY <1>5, <3>1, SMT DEF n
  <2>2. CodeOf(s, o, n) = (b1 % 64) + 64 * (b % 32) BY <2>1 DEF CodeOf, b, b1
  <2> HIDE DEF e, n
  <2>3. IsScalarOfLen(c, n) BY <1>2, <1>9, <2>1, ScalarIs
  <2>4. x1 < 32 BY <1>3, <1>9, <2>1, SMT DEF Digits64
  <2>5. b1 % 64 = x0 /\ b % 32 = x1 BY <1>7, <2>1, <2>4, SMT
  <2>6. x0 + 64 * x1 = c BY <1>3, <1>7, <2>1, SMT DEF Digits64
  <2> QED BY <2>2, <2>3, <2>5, <2>6 DEF n, e
<1>10. CASE 2048 <= c /\ c < 65536
  <2>1. n = 3 /\ b = 224 + x2 /\ b1 = 128 + x1 /\ b2 = 128 + x0 /\ x3 = 0
    <3> HIDE DEF e
    <3>1. e = <<224 + x2, 128 + x1, 128 + x0>> /\ x3 = 0 BY <1>4, <1>10, SMT
    <3> QED BY <1>5, <3>1, SMT DEF n
  <2>2. CodeOf(s, o, n) = (b2 % 64) + 64 * ((b1 % 64) + 64 * (b % 16)) BY <2>1 DEF CodeOf, b, b1, b2
  <2> HIDE DEF e, n
  <2>3. IsScalarOfLen(c, n) BY <1>2, <1>10, <2>1, ScalarIs
  <2>4. x2 < 16 BY <1>3, <1>10, <2>1, SMT DEF Digits64
  <2>5. b2 % 64 = x0 /\ b1 % 64 = x1 /\ b % 16 = x2 BY <1>7, <2>1, <2>4, SMT
  <2>6. x0 + 64 * (x1 + 64 * x2) = c BY <1>3, <1>7, <2>1, SMT DEF Digits64
  <2> QED BY <2>2, <2>3, <2>5, <2>6 DEF n, e
<1>11. CASE 65536 <= c
  <2>1. n = 4 /\ b = 240 + x3 /\ b1 = 128 + x2 /\ b2 = 128 + x1 /\ b3 = 128 + x0
    <3> HIDE DEF e
    <3>1. e = <<240 + x3, 128 + x2, 128 + x1, 128 + x0>> BY <1>4, <1>11, SMT
    <3> QED BY <1>5, <3>1, SMT DEF n
  <2>2. CodeOf(s, o, n) = (b3 % 64) + 64 * ((b2 % 64) + 64 * ((b1 % 64) + 64 * (b % 8)))
    BY <2>1 DEF CodeOf, b, b1, b2, b3
  <2> HIDE DEF e, n
  <2>3. IsScalarOfLen(c, n) BY <1>2, <1>11, <2>1, ScalarIs, SMT
  <2>5. b3 % 64 = x0 /\ b2 % 64 = x1 /\ b1 % 64 = x2 /\ b % 8 = x3 BY <1>7, <2>1, SMT
  <2>6. x0 + 64 * (x1 + 64 * (x2 + 64 * x3)) = c BY <1>3, <1>7, SMT DEF Digits64
  <2> QED BY <2>2, <2>3, <2>5, <2>6, SMT DEF n, e
<1> QED BY <1>1, <1>8, <1>9, <1>10, <1>11, SMT

\* A character is decoded where its bytes are, whatever follows them.
LEMMA Survives ==
  ASSUME NEW s \in Seq(Octet), NEW o \in Nat, NEW c \in Scalars,
         NEW a \in Nat \ {0}, o + a <= Len(s), Len(EncodeInto(c)) <= a,
         \A i \in 1..Len(EncodeInto(c)) : s[o + i] = EncodeInto(c)[i]
  PROVE  DecodeBounded(s, o, a) = [cp |-> c, used |-> Len(EncodeInto(c))]
<1> DEFINE e == EncodeInto(c)  n == Len(e)  d == DecodeBounded(s, o, a)
<1>1. c \in Codes BY DEF Scalars
<1>2. n \in 1..4 /\ e \in Seq(Octet) /\ LeadByteLen(e[1]) = n /\ \A i \in 2..n : IsContinuation(e[i])
  BY <1>1, Encodes
<1>3. o + n <= Len(s) /\ n <= a /\ Len(s) \in Nat
  <2>1. Len(s) \in Nat BY LenProperties
  <2> HIDE DEF e
  <2> QED BY <1>2, <2>1 DEF e
<1>4. CodeOf(s, o, n) = c /\ IsScalarOfLen(c, n) BY <1>3, EncodedIsDecoded
<1>5. LeadByteLen(At(s, o)) = n BY <1>2 DEF At
<1>6. Smaller(n, a) = n BY <1>2, <1>3 DEF Smaller
<1>7. TakesBytes(s, o, n, n)
  <2>1. ASSUME NEW i \in 1..n - 1 PROVE IsContinuation(At(s, o + i))
    <3>1. i + 1 \in 2..n /\ i + 1 \in 1..n /\ o + i + 1 = o + (i + 1) BY <1>2
    <3>2. s[o + (i + 1)] = e[i + 1] BY <3>1
    <3> HIDE DEF e, n
    <3>3. IsContinuation(s[o + i + 1]) BY <1>2, <3>1, <3>2
    <3> QED BY <3>3 DEF At
  <2> QED BY <1>2, <2>1 DEF TakesBytes
<1>8. d = CharacterOf(s, o, n, n)
  <2>1. n # 0 BY <1>2
  <2>2. LeadByteLen(At(s, o)) # 0 =>
          \A k : TakesBytes(s, o, Smaller(LeadByteLen(At(s, o)), a), k) =>
            d = CharacterOf(s, o, LeadByteLen(At(s, o)), k)
    <3> HIDE DEF e, n, d
    <3> QED BY <1>2, <1>3, DecodeIs DEF d
  <2> HIDE DEF n, d
  <2> QED BY <1>5, <1>6, <1>7, <2>1, <2>2
<1> HIDE DEF e, n, d
<1>9. d = [cp |-> c, used |-> n] BY <1>2, <1>4, <1>8 DEF CharacterOf
<1> QED BY <1>9 DEF d, n, e

\* What decoding gives, whatever the bytes.
LEMMA Decodes ==
  ASSUME NEW s \in Seq(Octet), NEW o \in Nat, NEW a \in Nat \ {0}, o + a <= Len(s)
  PROVE  LET d == DecodeBounded(s, o, a)
         IN /\ d.used \in 1..4 /\ d.used <= a /\ d.cp \in Scalars
            /\ \A i \in 1..d.used - 1 : IsContinuation(At(s, o + i))
            /\ IsContinuation(At(s, o)) => d.used = 1
            /\ d.cp # Replacement => Bytes(s, o, o + d.used) = EncodeInto(d.cp)
<1> DEFINE d == DecodeBounded(s, o, a)  n == LeadByteLen(At(s, o))  m == Smaller(n, a)
<1>1. n \in 0..4 /\ o < Len(s) /\ (IsContinuation(At(s, o)) => n = 0)
  BY LenProperties, BytesAt, LeadBytes
<1>2. CASE n = 0
  <2>1. d = [cp |-> Replacement, used |-> 1] BY <1>2, DecodeIs
  <2> HIDE DEF d
  <2> QED BY <2>1, ReplacementIs DEF d
<1>3. CASE n # 0
  <2>1. n \in 1..4 /\ m \in 1..4 /\ m <= a /\ m <= n
    <3> HIDE DEF n
    <3> QED BY <1>1, <1>3 DEF Smaller
  <2>2. \E k : TakesBytes(s, o, m, k)
    <3> HIDE DEF n, m
    <3> QED BY <2>1, TakesSome
  <2>3. PICK k : TakesBytes(s, o, m, k) BY <2>2
  <2>4. d = CharacterOf(s, o, n, k)
    <3> HIDE DEF d
    <3> QED BY <1>3, <2>3, DecodeIs DEF d, n
  <2>5. k \in 1..m /\ \A i \in 1..k - 1 : IsContinuation(At(s, o + i)) BY <2>3 DEF TakesBytes
  <2>6. d.used = k /\ k \in 1..4 /\ k <= a /\ k <= n
    <3> HIDE DEF n, m, d
    <3> QED BY <2>1, <2>4, <2>5 DEF CharacterOf
  <2>7. ~IsContinuation(At(s, o)) BY <1>1, <1>3
  <2> DEFINE c == CodeOf(s, o, n)
  <2>8. CASE k < n \/ ~IsScalarOfLen(c, n)
    <3>1. d.cp = Replacement
      <4> HIDE DEF n, m, d, c
      <4> QED BY <2>4, <2>8 DEF CharacterOf, c
    <3> HIDE DEF n, m, d, c
    <3> QED BY <2>5, <2>6, <2>7, <3>1, ReplacementIs DEF d
  <2>9. CASE k = n /\ IsScalarOfLen(c, n)
    <3>1. d.cp = c
      <4> HIDE DEF n, m, d, c
      <4> QED BY <2>1, <2>4, <2>9 DEF CharacterOf, c
    <3>2. c \in Scalars
      <4> HIDE DEF n, c
      <4> QED BY <2>1, <2>9, ScalarIs
    <3>3. o + n <= Len(s) /\ Len(s) \in Nat
      <4>1. Len(s) \in Nat BY LenProperties
      <4> HIDE DEF n
      <4> QED BY <2>1, <2>6, <2>9, <4>1
    <3> DEFINE e == EncodeInto(c)
    <3>4. Len(e) = n /\ \A i \in 1..n : e[i] = s[o + i] BY <2>1, <2>5, <2>9, <3>3, DecodedIsEncoded
    <3>5. e \in Seq(Octet) BY <3>2, Encodes DEF Scalars
    <3>6. Bytes(s, o, o + n) = e
      <4> DEFINE q == o + n
      <4>1. q = o + Len(e) /\ q <= Len(s) BY <3>3, <3>4
      <4> HIDE DEF e, n, q
      <4>2. Bytes(s, o, q) = e BY <3>4, <3>5, <4>1, BytesEqual
      <4> QED BY <4>2 DEF q
    <3> HIDE DEF n, m, d, c
    <3> QED BY <2>5, <2>6, <2>7, <2>9, <3>1, <3>2, <3>6 DEF d, e
  <2> HIDE DEF d, n, c
  <2> QED BY <2>1, <2>6, <2>8, <2>9 DEF d
<1> QED BY <1>2, <1>3

(***************************************************************************)
(* Text: the characters of a String, by the offsets where they start.      *)
(***************************************************************************)
Advance(s, p) == IF p < Len(s) THEN p + DecodeAt(s, p).used ELSE p
Chain(q, s, from) ==
  q \in [Nat -> 0..Len(s)] /\ q[0] = from /\ \A i \in Nat : q[i + 1] = Advance(s, q[i])
Chars(s, n, q) ==
  Chain(q, s, 0) /\ n \in 0..Len(s) /\ q[n] = Len(s) /\ \A i \in 0..n - 1 : q[i] < Len(s)

LEMMA DecodesAt ==
  ASSUME NEW s \in Seq(Octet), NEW o \in 0..Len(s)
  PROVE  LET d == DecodeAt(s, o)
         IN /\ Advance(s, o) \in 0..Len(s)
            /\ o = Len(s) => d = [cp |-> Replacement, used |-> 1] /\ Advance(s, o) = o
            /\ o < Len(s) =>
                 /\ d = DecodeBounded(s, o, Len(s) - o)
                 /\ d.used \in 1..4 /\ o + d.used <= Len(s) /\ Advance(s, o) = o + d.used
                 /\ d.cp \in Scalars
                 /\ \A i \in 1..d.used - 1 : IsContinuation(At(s, o + i))
                 /\ IsContinuation(At(s, o)) => d.used = 1
                 /\ d.cp # Replacement => Bytes(s, o, o + d.used) = EncodeInto(d.cp)
<1> DEFINE d == DecodeAt(s, o)
<1>1. Len(s) \in Nat /\ o \in Nat BY LenProperties
<1>2. CASE o = Len(s)
  <2>1. d = [cp |-> Replacement, used |-> 1] BY <1>1, <1>2 DEF DecodeAt
  <2>2. Advance(s, o) = o BY <1>1, <1>2 DEF Advance
  <2> HIDE DEF d
  <2> QED BY <1>1, <1>2, <2>1, <2>2 DEF d
<1>3. CASE o < Len(s)
  <2> DEFINE a == Len(s) - o
  <2>1. a \in Nat \ {0} /\ o + a <= Len(s) BY <1>1, <1>3
  <2>2. d = DecodeBounded(s, o, a) BY <1>1, <1>3 DEF DecodeAt
  <2> HIDE DEF d, a
  <2>3. /\ d.used \in 1..4 /\ d.used <= a /\ d.cp \in Scalars
        /\ \A i \in 1..d.used - 1 : IsContinuation(At(s, o + i))
        /\ IsContinuation(At(s, o)) => d.used = 1
        /\ d.cp # Replacement => Bytes(s, o, o + d.used) = EncodeInto(d.cp)
    BY <1>1, <2>1, <2>2, Decodes
  <2>4. o + d.used <= Len(s) BY <1>1, <2>3 DEF a
  <2>5. Advance(s, o) = o + d.used BY <1>3 DEF Advance, d
  <2>6. Advance(s, o) \in 0..Len(s) BY <1>1, <2>3, <2>4, <2>5
  <2> QED BY <1>1, <1>3, <2>2, <2>3, <2>4, <2>5, <2>6 DEF d, a
<1> QED BY <1>1, <1>2, <1>3

LEMMA ChainExists ==
  ASSUME NEW s \in Seq(Octet), NEW from \in 0..Len(s)
  PROVE  \E q : Chain(q, s, from)
<1> DEFINE S == 0..Len(s)  N == [x \in Nat \X S |-> Advance(s, x[2])]
<1>1. N \in [Nat \X S -> S]
  <2>1. \A i \in Nat, o \in S : Advance(s, o) \in S BY DecodesAt
  <2> HIDE DEF S
  <2> QED BY <2>1
<1>2. \E q : Follows(q, S, from, N)
  <2>1. from \in S OBVIOUS
  <2> HIDE DEF S, N
  <2> QED BY <1>1, <2>1, Following, Zenon
<1>3. PICK q : Follows(q, S, from, N) BY <1>2
<1>4. Chain(q, s, from)
  <2>1. q \in [Nat -> S] /\ q[0] = from BY <1>3 DEF Follows
  <2>2. ASSUME NEW i \in Nat PROVE q[i + 1] = Advance(s, q[i])
    <3>1. q[i + 1] = N[<<i, q[i]>>] /\ q[i] \in S BY <1>3, <2>1 DEF Follows
    <3> HIDE DEF S
    <3> QED BY <3>1
  <2> QED BY <2>1, <2>2 DEF Chain
<1> QED BY <1>4

LEMMA OffsetIs ==
  ASSUME NEW s \in Seq(Octet), NEW from \in 0..Len(s), NEW q, Chain(q, s, from), NEW n \in Nat
  PROVE  OffsetAfter(s, from, n) = q[n]
<1> DEFINE Right(f) == f = [i \in 0..n |-> IF i = 0 THEN from
                                           ELSE LET p == f[i - 1]
                                                IN IF p < Len(s) THEN p + DecodeAt(s, p).used ELSE p]
           g == CHOOSE f : Right(f)
<1>1. OffsetAfter(s, from, n) = g[n] BY DEF OffsetAfter
<1>2. q[0] = from /\ \A i \in Nat : q[i + 1] = Advance(s, q[i]) BY DEF Chain
<1>3. \E f : Right(f)
  <2> DEFINE f == [i \in 0..n |-> q[i]]
  <2>1. ASSUME NEW i \in 0..n
        PROVE f[i] = IF i = 0 THEN from
                     ELSE LET p == f[i - 1] IN IF p < Len(s) THEN p + DecodeAt(s, p).used ELSE p
    <3>1. CASE i = 0 BY <1>2, <3>1
    <3>2. CASE i # 0
      <4> DEFINE j == i - 1
      <4>1. j \in Nat /\ j + 1 = i /\ j \in 0..n BY <3>2
      <4> HIDE DEF j
      <4>2. q[i] = Advance(s, q[j]) BY <1>2, <4>1
      <4>3. f[i] = q[i] /\ f[j] = q[j] BY <4>1
      <4> HIDE DEF f
      <4> QED BY <3>2, <4>2, <4>3 DEF Advance, j
    <3> QED BY <3>1, <3>2
  <2>2. Right(f) BY <2>1
  <2> HIDE DEF f, Right
  <2> QED BY <2>2
<1>4. Right(g)
  <2> HIDE DEF Right
  <2> QED BY <1>3
<1> HIDE DEF g
<1>5. g[0] = from /\ \A i \in 1..n, j \in Nat : j = i - 1 => g[i] = Advance(s, g[j])
  <2>1. \A i \in 0..n : g[i] = IF i = 0 THEN from
                     ELSE LET p == g[i - 1] IN IF p < Len(s) THEN p + DecodeAt(s, p).used ELSE p
    BY <1>4
  <2>2. g[0] = from BY <2>1
  <2>3. ASSUME NEW i \in 1..n, NEW j \in Nat, j = i - 1 PROVE g[i] = Advance(s, g[j])
    BY <2>1, <2>3 DEF Advance
  <2> QED BY <2>2, <2>3
<1> HIDE DEF Right
<1> DEFINE T == {i \in Nat : i <= n => g[i] = q[i]}
<1>6. 0 \in T BY <1>2, <1>5
<1>7. ASSUME NEW i \in Nat, i \in T PROVE i + 1 \in T
  <2>1. ASSUME i + 1 <= n PROVE g[i + 1] = q[i + 1]
    <3> DEFINE k == i + 1
    <3>1. k \in 1..n /\ i = k - 1 /\ g[i] = q[i] BY <1>7, <2>1
    <3> HIDE DEF k
    <3>2. g[k] = Advance(s, g[i]) BY <1>5, <3>1
    <3>3. q[k] = Advance(s, q[i]) BY <1>2 DEF k
    <3> QED BY <3>1, <3>2, <3>3 DEF k
  <2> QED BY <2>1
<1>8. Nat \subseteq T
  <2> HIDE DEF T
  <2> QED BY <1>6, <1>7, AllNaturals
<1> QED BY <1>1, <1>8

\* Where the characters after the first few start.
LEMMA ChainFrom ==
  ASSUME NEW s \in Seq(Octet), NEW from \in 0..Len(s), NEW q, Chain(q, s, from), NEW i \in Nat, NEW n \in Nat
  PROVE  OffsetAfter(s, q[i], n) = q[i + n]
<1> DEFINE r == [j \in Nat |-> q[i + j]]
<1>1. q \in [Nat -> 0..Len(s)] /\ \A j \in Nat : q[j + 1] = Advance(s, q[j]) BY DEF Chain
<1>2. q[i] \in 0..Len(s) BY <1>1
<1>3. Chain(r, s, q[i])
  <2>1. r \in [Nat -> 0..Len(s)] /\ r[0] = q[i]
    <3>1. \A j \in Nat : i + j \in Nat OBVIOUS
    <3>2. \A j \in Nat : q[i + j] \in 0..Len(s) BY <1>1, <3>1
    <3>3. r[0] = q[i + 0] /\ i + 0 = i OBVIOUS
    <3> QED BY <3>2, <3>3
  <2>2. ASSUME NEW j \in Nat PROVE r[j + 1] = Advance(s, r[j])
    <3> DEFINE k == i + j
    <3>1. k \in Nat /\ k + 1 = i + (j + 1) /\ j + 1 \in Nat OBVIOUS
    <3> HIDE DEF k
    <3>2. q[k + 1] = Advance(s, q[k]) BY <1>1, <3>1
    <3>3. r[j + 1] = q[k + 1] /\ r[j] = q[k] BY <3>1 DEF k
    <3> QED BY <3>2, <3>3
  <2> HIDE DEF r
  <2> QED BY <2>1, <2>2 DEF Chain
<1>4. OffsetAfter(s, q[i], n) = r[n]
  <2> HIDE DEF r
  <2> QED BY <1>2, <1>3, OffsetIs
<1> QED BY <1>4

\* The offsets go up until they are at the end.
LEMMA ChainGrows ==
  ASSUME NEW s \in Seq(Octet), NEW q, Chain(q, s, 0)
  PROVE  /\ \A i \in Nat : /\ q[i] \in 0..Len(s)
                           /\ q[i] < Len(s) => q[i] < q[i + 1]
                           /\ q[i] = Len(s) => q[i + 1] = Len(s)
         /\ \A i \in Nat : q[i] = Len(s) \/ q[i] >= i
<1>1. Len(s) \in Nat BY LenProperties
<1>2. ASSUME NEW i \in Nat
      PROVE  /\ q[i] \in 0..Len(s)
             /\ q[i] < Len(s) => q[i] < q[i + 1]
             /\ q[i] = Len(s) => q[i + 1] = Len(s)
             /\ q[i + 1] \in 0..Len(s)
  <2>1. q[i] \in 0..Len(s) /\ q[i + 1] = Advance(s, q[i]) /\ q[i + 1] \in 0..Len(s)
    <3>1. q \in [Nat -> 0..Len(s)] BY DEF Chain
    <3>2. q[i] \in 0..Len(s) /\ q[i + 1] \in 0..Len(s) BY <3>1
    <3> QED BY <3>2 DEF Chain
  <2> DEFINE o == q[i]  d == DecodeAt(s, o)
  <2>2. o < Len(s) => d.used \in 1..4 /\ Advance(s, o) = o + d.used BY <2>1, DecodesAt
  <2>3. o = Len(s) => Advance(s, o) = o BY <2>1, DecodesAt
  <2> HIDE DEF o, d
  <2> QED BY <1>1, <2>1, <2>2, <2>3 DEF o
<1> DEFINE T == {i \in Nat : q[i] = Len(s) \/ q[i] >= i}
<1>3. 0 \in T BY <1>1, <1>2
<1>4. ASSUME NEW i \in Nat, i \in T PROVE i + 1 \in T
  <2> DEFINE x == q[i]  y == q[i + 1]
  <2>1. /\ x \in 0..Len(s) /\ y \in 0..Len(s) /\ (x < Len(s) => x < y) /\ (x = Len(s) => y = Len(s))
        /\ x = Len(s) \/ x >= i
    BY <1>2, <1>4
  <2>2. y = Len(s) \/ y >= i + 1
    <3> HIDE DEF x, y
    <3> QED BY <1>1, <2>1
  <2> QED BY <2>2
<1>5. Nat \subseteq T
  <2> HIDE DEF T
  <2> QED BY <1>3, <1>4, AllNaturals
<1> QED BY <1>2, <1>5

\* What a String has, when the offsets of its characters are known.
LEMMA CharsAre ==
  ASSUME NEW s \in Seq(Octet), NEW n, NEW q, Chars(s, n, q)
  PROVE  /\ \A i \in Nat : q[i] \in 0..Len(s) /\ (i >= n => q[i] = Len(s)) /\ (i < n => q[i] < q[i + 1])
         /\ \A i, j \in 0..n : i <= j => q[i] <= q[j]
         /\ \A i \in Nat : ByteOffsetOfChar(s, i) = q[i]
         /\ Utf8Length(s) = n
         /\ FastUnpack(s) = [i \in 1..n |-> DecodeAt(s, q[i - 1]).cp]
<1>1. /\ Len(s) \in Nat /\ n \in 0..Len(s) /\ q[n] = Len(s) /\ \A i \in 0..n - 1 : q[i] < Len(s)
      /\ 0 \in 0..Len(s) /\ Chain(q, s, 0)
  BY LenProperties DEF Chars
<1>2. \A i \in Nat : /\ q[i] \in 0..Len(s)
                     /\ q[i] < Len(s) => q[i] < q[i + 1]
                     /\ q[i] = Len(s) => q[i + 1] = Len(s)
  BY <1>1, ChainGrows
<1>3. \A i \in Nat : i >= n => q[i] = Len(s)
  <2> DEFINE T == {i \in Nat : i >= n => q[i] = Len(s)}
  <2>1. 0 \in T BY <1>1
  <2>2. ASSUME NEW i \in Nat, i \in T PROVE i + 1 \in T BY <1>1, <1>2, <2>2
  <2>3. Nat \subseteq T
    <3> HIDE DEF T
    <3> QED BY <2>1, <2>2, AllNaturals
  <2> QED BY <2>3
<1>4. \A i \in Nat : i < n => q[i] < q[i + 1] BY <1>1, <1>2
<1>5. \A i \in Nat : ByteOffsetOfChar(s, i) = q[i] BY <1>1, OffsetIs DEF ByteOffsetOfChar
<1>6. Utf8Length(s) = n
  <2> DEFINE u == Utf8Length(s)
  <2>1. \E k \in 0..Len(s) : ByteOffsetOfChar(s, k) = Len(s) /\ \A i \in 0..k - 1 : ByteOffsetOfChar(s, i) < Len(s)
    BY <1>1, <1>5
  <2>2. u \in 0..Len(s) /\ ByteOffsetOfChar(s, u) = Len(s) /\ \A i \in 0..u - 1 : ByteOffsetOfChar(s, i) < Len(s)
    BY <2>1 DEF Utf8Length
  <2> HIDE DEF u
  <2>3. q[u] = Len(s) /\ \A i \in 0..u - 1 : q[i] < Len(s) BY <1>5, <2>2
  <2>4. ~ u < n BY <1>1, <2>2, <2>3
  <2>5. ~ n < u BY <1>1, <2>2, <2>3
  <2>6. u = n BY <1>1, <2>2, <2>4, <2>5
  <2> QED BY <2>6 DEF u
<1>7. FastUnpack(s) = [i \in 1..n |-> DecodeAt(s, q[i - 1]).cp] BY <1>1, <1>5, <1>6 DEF FastUnpack
<1>8. ASSUME NEW i \in 0..n, NEW j \in 0..n, i <= j PROVE q[i] <= q[j]
  <2> DEFINE T == {k \in Nat : i + k <= n => q[i] <= q[i + k]}
  <2>1. 0 \in T BY <1>2
  <2>2. ASSUME NEW k \in Nat, k \in T PROVE k + 1 \in T
    <3>1. ASSUME i + (k + 1) <= n PROVE q[i] <= q[i + (k + 1)]
      <4> DEFINE m == i + k
      <4>1. m \in Nat /\ m < n /\ i + (k + 1) = m + 1 /\ q[i] <= q[m] BY <1>1, <2>2, <3>1
      <4> HIDE DEF m
      <4>2. q[m] < q[m + 1] /\ q[m] \in Int /\ q[m + 1] \in Int /\ q[i] \in Int
        BY <1>1, <1>2, <1>4, <4>1
      <4> QED BY <4>1, <4>2
    <3> QED BY <3>1
  <2>3. Nat \subseteq T
    <3> HIDE DEF T
    <3> QED BY <2>1, <2>2, AllNaturals
  <2>4. j - i \in Nat /\ i + (j - i) = j /\ j <= n BY <1>1, <1>8
  <2> QED BY <2>3, <2>4
<1> QED BY <1>2, <1>3, <1>4, <1>5, <1>6, <1>7, <1>8

LEMMA CharsExist ==
  ASSUME NEW s \in Seq(Octet)
  PROVE  \E n, q : Chars(s, n, q)
<1>1. Len(s) \in Nat /\ 0 \in 0..Len(s) BY LenProperties
<1>2. PICK q : Chain(q, s, 0) BY <1>1, ChainExists
<1>3. /\ \A i \in Nat : q[i] \in 0..Len(s)
      /\ \A i \in Nat : q[i] = Len(s) \/ q[i] >= i
  BY <1>2, ChainGrows
<1> DEFINE T == {i \in Nat : i <= Len(s) /\ \A j \in 0..i : q[j] < Len(s)}
<1>4. q[Len(s)] = Len(s) BY <1>1, <1>3
<1>5. \E n \in 0..Len(s) : q[n] = Len(s) /\ \A i \in 0..n - 1 : q[i] < Len(s)
  <2> SUFFICES ASSUME \A n \in 0..Len(s) : ~(q[n] = Len(s) /\ \A i \in 0..n - 1 : q[i] < Len(s)) PROVE FALSE
    OBVIOUS
  <2> DEFINE U == {n \in Nat : n <= Len(s) => \A i \in 0..n : q[i] < Len(s)}
  <2>1. 0 \in U BY <1>1, <1>3
  <2>2. ASSUME NEW n \in Nat, n \in U PROVE n + 1 \in U
    <3>1. ASSUME n + 1 <= Len(s) PROVE \A i \in 0..n + 1 : q[i] < Len(s)
      <4> DEFINE m == n + 1
      <4>1. m \in 0..Len(s) /\ m - 1 = n /\ m \in Nat BY <1>1, <3>1
      <4>2. \A i \in 0..n : q[i] < Len(s) BY <1>1, <2>2, <3>1
      <4>3. \A i \in 0..m : i = m \/ i \in 0..n OBVIOUS
      <4> HIDE DEF m
      <4>4. ~(q[m] = Len(s) /\ \A i \in 0..m - 1 : q[i] < Len(s)) BY <4>1
      <4>5. q[m] < Len(s) BY <1>1, <1>3, <4>1, <4>2, <4>4
      <4> QED BY <4>2, <4>3, <4>5 DEF m
    <3> QED BY <3>1
  <2>3. Nat \subseteq U
    <3> HIDE DEF U
    <3> QED BY <2>1, <2>2, AllNaturals
  <2>4. q[Len(s)] < Len(s) BY <1>1, <2>3
  <2> QED BY <1>1, <1>4, <2>4
<1>6. PICK n \in 0..Len(s) : q[n] = Len(s) /\ \A i \in 0..n - 1 : q[i] < Len(s) BY <1>5
<1>7. Chars(s, n, q) BY <1>2, <1>6 DEF Chars
<1> QED BY <1>7

\* Offsets at which one character after the other is decoded, up to the end.
LEMMA CharsFrom ==
  ASSUME NEW t \in Seq(Octet), NEW n \in Nat, NEW r, r[0] = 0, r[n] = Len(t),
         \A i \in 0..n : r[i] \in Nat,
         \A i \in 0..n - 1 : r[i] < Len(t) /\ r[i + 1] = r[i] + DecodeAt(t, r[i]).used
  PROVE  \E q : Chars(t, n, q) /\ \A i \in 0..n : q[i] = r[i]
<1>1. Len(t) \in Nat /\ 0 \in 0..Len(t) BY LenProperties
<1>2. PICK q : Chain(q, t, 0) BY <1>1, ChainExists
<1>3. \A i \in Nat : q[i] = Len(t) \/ q[i] >= i BY <1>2, ChainGrows
<1> DEFINE T == {i \in Nat : i <= n => q[i] = r[i]}
<1>4. 0 \in T BY <1>2 DEF Chain
<1>5. ASSUME NEW i \in Nat, i \in T PROVE i + 1 \in T
  <2>1. ASSUME i + 1 <= n PROVE q[i + 1] = r[i + 1]
    <3>1. i \in 0..n - 1 /\ q[i] = r[i] BY <1>5, <2>1
    <3>2. q[i + 1] = Advance(t, q[i]) BY <1>2 DEF Chain
    <3>3. r[i] < Len(t) /\ r[i + 1] = r[i] + DecodeAt(t, r[i]).used BY <3>1
    <3> QED BY <3>1, <3>2, <3>3 DEF Advance
  <2> QED BY <2>1
<1>6. Nat \subseteq T
  <2> HIDE DEF T
  <2> QED BY <1>4, <1>5, AllNaturals
<1>7. \A i \in 0..n : q[i] = r[i] BY <1>6
<1>8. n \in 0..Len(t)
  <2>1. ASSUME n # 0 PROVE n <= Len(t)
    <3> DEFINE k == n - 1
    <3>1. k \in Nat /\ k \in 0..n - 1 /\ k + 1 = n /\ k \in 0..n /\ n \in 0..n BY <2>1
    <3> HIDE DEF k
    <3>2. q[k] < Len(t) /\ q[k] >= k BY <1>1, <1>3, <1>7, <3>1
    <3> QED BY <1>1, <1>2, <3>1, <3>2 DEF Chain
  <2> QED BY <1>1, <2>1
<1>9. Chars(t, n, q) BY <1>7, <1>2, <1>8 DEF Chars
<1> QED BY <1>7, <1>9

\* The pieces put together so far stay where they are.
LEMMA FlatPrefix ==
  ASSUME NEW S, NEW ss \in Seq(Seq(S)), NEW f, Flat(f, ss, S), NEW i \in Nat, NEW j \in Nat, i <= j
  PROVE  Len(f[i]) <= Len(f[j]) /\ \A m \in 1..Len(f[i]) : f[j][m] = f[i][m]
<1> DEFINE T == {k \in Nat : /\ Len(f[i]) <= Len(f[i + k])
                             /\ \A m \in 1..Len(f[i]) : f[i + k][m] = f[i][m]}
<1>1. \A k \in Nat : f[k] \in Seq(S) /\ Len(f[k]) \in Nat BY LenProperties DEF Flat
<1>2. 0 \in T BY <1>1
<1>3. ASSUME NEW k \in Nat, k \in T PROVE k + 1 \in T
  <2> DEFINE a == i + k  u == f[a]  v == f[a + 1]
  <2>1. a \in Nat /\ i + (k + 1) = a + 1 OBVIOUS
  <2>2. Len(f[i]) <= Len(u) /\ \A m \in 1..Len(f[i]) : u[m] = f[i][m] BY <1>3
  <2> HIDE DEF a
  <2>3. v = IF a < Len(ss) THEN u \o ss[a + 1] ELSE u BY <2>1 DEF Flat
  <2>4. Len(u) <= Len(v) /\ \A m \in 1..Len(u) : v[m] = u[m]
    <3>1. CASE a < Len(ss)
      <4>1. a + 1 \in 1..Len(ss) BY LenProperties, <2>1, <3>1
      <4>2. ss[a + 1] \in Seq(S) /\ u \in Seq(S) BY <1>1, <2>1, <4>1, ElementOfSeq
      <4> DEFINE w == ss[a + 1]
      <4>3. v = u \o w /\ Len(u) \in Nat /\ Len(w) \in Nat BY <2>3, <3>1, <4>2, LenProperties
      <4> HIDE DEF u, v, w
      <4>4. /\ Len(u \o w) = Len(u) + Len(w)
            /\ \A m \in 1..Len(u) + Len(w) : (u \o w)[m] = IF m <= Len(u) THEN u[m] ELSE w[m - Len(u)]
        BY <4>2, ConcatProperties DEF w
      <4> QED BY <4>3, <4>4
    <3>2. CASE ~ a < Len(ss)
      <4>1. v = u /\ Len(u) \in Nat BY <1>1, <2>1, <2>3, <3>2
      <4> HIDE DEF u, v
      <4> QED BY <4>1
    <3> QED BY <3>1, <3>2
  <2>5. Len(u) \in Nat /\ Len(v) \in Nat /\ Len(f[i]) \in Nat BY <1>1, <2>1
  <2> HIDE DEF u, v
  <2>6. Len(f[i]) <= Len(v) /\ \A m \in 1..Len(f[i]) : v[m] = f[i][m] BY <2>2, <2>4, <2>5
  <2> QED BY <2>1, <2>6 DEF v
<1>4. Nat \subseteq T
  <2> HIDE DEF T
  <2> QED BY <1>2, <1>3, AllNaturals
<1> DEFINE k == j - i
<1>5. k \in Nat /\ i + k = j OBVIOUS
<1> HIDE DEF k
<1>6. Len(f[i]) <= Len(f[i + k]) /\ \A m \in 1..Len(f[i]) : f[i + k][m] = f[i][m] BY <1>4, <1>5
<1> QED BY <1>5, <1>6

LEMMA FlatConcat ==
  ASSUME NEW S, NEW xs \in Seq(Seq(S)), NEW ys \in Seq(Seq(S))
  PROVE  FlattenSeq(xs \o ys) = FlattenSeq(xs) \o FlattenSeq(ys)
<1> DEFINE zs == xs \o ys  a == Len(xs)  b == Len(ys)
<1>1. /\ zs \in Seq(Seq(S)) /\ Len(zs) = a + b /\ a \in Nat /\ b \in Nat
      /\ \A i \in 1..a + b : zs[i] = IF i <= a THEN xs[i] ELSE ys[i - a]
  BY ConcatProperties, LenProperties
<1>2. PICK f : Flat(f, xs, S) /\ FlattenSeq(xs) = f[a] BY Flattens
<1>3. PICK g : Flat(g, ys, S) /\ FlattenSeq(ys) = g[b] BY Flattens
<1>4. PICK h : Flat(h, zs, S) /\ FlattenSeq(zs) = h[Len(zs)]
  <2> HIDE DEF zs
  <2> QED BY <1>1, Flattens
<1>5. \A k \in Nat : f[k] \in Seq(S) /\ g[k] \in Seq(S) /\ h[k] \in Seq(S)
  BY <1>2, <1>3, <1>4 DEF Flat
<1>12. \A u, v, w \in Seq(S) : (u \o v) \o w = u \o (v \o w) BY ConcatAssociative
<1> HIDE DEF zs, a, b
<1> DEFINE T == {i \in Nat : i <= a => h[i] = f[i]}
           V(j) == \A m \in Nat : m = a + j => h[m] = f[a] \o g[j]
           U == {j \in Nat : j <= b => V(j)}
<1>6. 0 \in T BY <1>2, <1>4 DEF Flat
<1>7. ASSUME NEW i \in Nat, i \in T PROVE i + 1 \in T
  <2>1. ASSUME i + 1 <= a PROVE h[i + 1] = f[i + 1]
    <3>1. h[i] = f[i] /\ i < a /\ i < a + b /\ i + 1 \in 1..a + b /\ i + 1 <= a BY <1>1, <1>7, <2>1
    <3>2. h[i + 1] = h[i] \o zs[i + 1] BY <1>1, <1>4, <3>1 DEF Flat
    <3>3. f[i + 1] = f[i] \o xs[i + 1] BY <1>2, <3>1 DEF Flat, a
    <3>4. zs[i + 1] = xs[i + 1] BY <1>1, <3>1
    <3> QED BY <3>1, <3>2, <3>3, <3>4
  <2> QED BY <2>1
<1>8. h[a] = f[a]
  <2>1. Nat \subseteq T
    <3> HIDE DEF T
    <3> QED BY <1>6, <1>7, AllNaturals
  <2> QED BY <1>1, <2>1
<1>9. 0 \in U
  <2>1. f[a] \o <<>> = f[a] /\ a + 0 = a BY <1>1, <1>5, ConcatEmptySeq
  <2>2. g[0] = <<>> BY <1>3 DEF Flat
  <2> QED BY <1>8, <2>1, <2>2
<1>10. ASSUME NEW j \in Nat, j \in U PROVE j + 1 \in U
  <2>1. ASSUME j + 1 <= b, NEW k \in Nat, k = a + (j + 1) PROVE h[k] = f[a] \o g[j + 1]
    <3> DEFINE m == a + j
    <3>1. /\ m \in Nat /\ m + 1 = k /\ m = a + j /\ j <= b /\ m < a + b /\ m + 1 \in 1..a + b /\ ~ m + 1 <= a
          /\ m + 1 - a = j + 1 /\ j < b /\ j + 1 \in 1..b
      BY <1>1, <2>1
    <3> HIDE DEF m
    <3>2. h[m] = f[a] \o g[j] BY <1>10, <3>1
    <3>3. h[m + 1] = h[m] \o zs[m + 1] BY <1>1, <1>4, <3>1 DEF Flat
    <3>4. zs[m + 1] = ys[j + 1]
      <4>1. \A i \in 1..a + b : zs[i] = IF i <= a THEN xs[i] ELSE ys[i - a] BY <1>1
      <4> DEFINE l == m + 1
      <4>2. l \in 1..a + b /\ ~ l <= a /\ l - a = j + 1
        <5>1. a \in Nat /\ b \in Nat /\ j \in Nat /\ l = a + j + 1 /\ j < b BY <1>1, <1>10, <3>1
        <5> HIDE DEF l
        <5> QED BY <5>1
      <4> HIDE DEF l
      <4>3. zs[l] = ys[l - a] BY <4>1, <4>2
      <4> QED BY <4>2, <4>3 DEF l
    <3>5. g[j + 1] = g[j] \o ys[j + 1] BY <1>3, <3>1 DEF Flat, b
    <3>6. ys[j + 1] \in Seq(S)
      <4> DEFINE l == j + 1
      <4>1. l \in 1..Len(ys) BY <3>1 DEF b
      <4> HIDE DEF l
      <4>2. ys[l] \in Seq(S) BY <4>1, ElementOfSeq
      <4> QED BY <4>2 DEF l
    <3>7. (f[a] \o g[j]) \o ys[j + 1] = f[a] \o (g[j] \o ys[j + 1])
      <4> HIDE DEF T, U
      <4>1. f[a] \in Seq(S) /\ g[j] \in Seq(S) BY <1>1, <1>5
      <4> QED BY <1>12, <3>6, <4>1
    <3> QED BY <3>1, <3>2, <3>3, <3>4, <3>5, <3>7
  <2>2. ASSUME j + 1 <= b PROVE V(j + 1) BY <2>1, <2>2
  <2> HIDE DEF V
  <2> QED BY <2>2
<1>11. h[a + b] = f[a] \o g[b]
  <2>1. Nat \subseteq U
    <3> HIDE DEF U
    <3> QED BY <1>9, <1>10, AllNaturals
  <2> DEFINE m == a + b
  <2>2. m \in Nat /\ m = a + b /\ b \in Nat /\ b <= b BY <1>1
  <2> HIDE DEF m
  <2>3. h[m] = f[a] \o g[b] BY <2>1, <2>2
  <2> QED BY <2>3 DEF m
<1> QED BY <1>1, <1>2, <1>3, <1>4, <1>11 DEF zs, a, b

\* What a String of characters is made of.
Encoded(c) == [i \in DOMAIN c |-> EncodeInto(c[i])]

LEMMA EncodedIs ==
  ASSUME NEW c \in Seq(Scalars)
  PROVE  /\ Encoded(c) \in Seq(Seq(Octet)) /\ Len(Encoded(c)) = Len(c) /\ Len(c) \in Nat
         /\ \A i \in 1..Len(c) : /\ Encoded(c)[i] = EncodeInto(c[i]) /\ c[i] \in Scalars
                                 /\ Encoded(c)[i] \in Seq(Octet) /\ Len(EncodeInto(c[i])) \in 1..4
         /\ FastPack(c) = FlattenSeq(Encoded(c))
<1>1. Len(c) \in Nat /\ DOMAIN c = 1..Len(c) /\ \A i \in 1..Len(c) : c[i] \in Scalars
  BY LenProperties, ElementOfSeq
<1>2. \A x \in Scalars : EncodeInto(x) \in Seq(Octet) /\ Len(EncodeInto(x)) \in 1..4
  BY Encodes DEF Scalars
<1>3. Encoded(c) = [i \in 1..Len(c) |-> EncodeInto(c[i])] BY <1>1 DEF Encoded
<1> DEFINE P == Seq(Octet)
<1>4. \A i \in 1..Len(c) : EncodeInto(c[i]) \in P BY <1>1, <1>2
<1>5. Encoded(c) \in Seq(P) /\ Len(Encoded(c)) = Len(c)
  <2> HIDE DEF P
  <2> QED BY <1>1, <1>3, <1>4
<1> QED BY <1>1, <1>2, <1>3, <1>5 DEF FastPack, Encoded

LEMMA PackConcat ==
  ASSUME NEW x \in Seq(Scalars), NEW y \in Seq(Scalars)
  PROVE  /\ x \o y \in Seq(Scalars) /\ FastPack(x \o y) = FastPack(x) \o FastPack(y)
<1>1. /\ x \o y \in Seq(Scalars) /\ Len(x \o y) = Len(x) + Len(y)
      /\ \A i \in 1..Len(x) + Len(y) : (x \o y)[i] = IF i <= Len(x) THEN x[i] ELSE y[i - Len(x)]
  BY ConcatProperties
<1> DEFINE xs == Encoded(x)  ys == Encoded(y)  zs == Encoded(x \o y)  P == Seq(Octet)  n == Len(x)
<1>2. /\ xs \in Seq(P) /\ ys \in Seq(P) /\ zs \in Seq(P)
      /\ Len(xs) = n /\ Len(ys) = Len(y) /\ Len(zs) = n + Len(y) /\ n \in Nat /\ Len(y) \in Nat
      /\ FastPack(x) = FlattenSeq(xs) /\ FastPack(y) = FlattenSeq(ys)
      /\ FastPack(x \o y) = FlattenSeq(zs)
      /\ \A i \in 1..n : xs[i] = EncodeInto(x[i])
      /\ \A i \in 1..Len(y) : ys[i] = EncodeInto(y[i])
      /\ \A i \in 1..n + Len(y) : zs[i] = EncodeInto((x \o y)[i])
  BY <1>1, EncodedIs
<1> HIDE DEF xs, ys, zs, P
<1>3. zs = xs \o ys
  <2>1. /\ xs \o ys \in Seq(P) /\ Len(xs \o ys) = n + Len(y)
        /\ \A i \in 1..n + Len(y) : (xs \o ys)[i] = IF i <= n THEN xs[i] ELSE ys[i - n]
    <3>1. /\ xs \o ys \in Seq(P) /\ Len(xs \o ys) = Len(xs) + Len(ys)
          /\ \A i \in 1..Len(xs) + Len(ys) :
               (xs \o ys)[i] = IF i <= Len(xs) THEN xs[i] ELSE ys[i - Len(xs)]
      <4>1. xs \in Seq(P) /\ ys \in Seq(P) BY <1>2
      <4> HIDE DEF n
      <4> QED BY <4>1, ConcatProperties
    <3> HIDE DEF n
    <3> QED BY <1>2, <3>1
  <2>2. ASSUME NEW i \in 1..n + Len(y) PROVE zs[i] = (xs \o ys)[i]
    <3>1. CASE i <= n
      <4>1. i \in 1..n BY <1>2, <3>1
      <4>2. (x \o y)[i] = x[i] /\ (xs \o ys)[i] = xs[i] BY <1>1, <2>1, <3>1
      <4> HIDE DEF n
      <4> QED BY <1>2, <4>1, <4>2
    <3>2. CASE ~ i <= n
      <4> DEFINE j == i - n
      <4>1. j \in 1..Len(y) BY <1>2, <3>2
      <4>2. (x \o y)[i] = y[j] /\ (xs \o ys)[i] = ys[j] BY <1>1, <2>1, <3>2
      <4> HIDE DEF n, j
      <4> QED BY <1>2, <4>1, <4>2
    <3> QED BY <3>1, <3>2
  <2> QED BY <1>2, <2>1, <2>2, SeqEqual
<1>4. FlattenSeq(xs \o ys) = FlattenSeq(xs) \o FlattenSeq(ys) BY <1>2, FlatConcat DEF P
<1> QED BY <1>1, <1>2, <1>3, <1>4

\* Packed characters start where the ones before them end, and are unpacked.
LEMMA PackChars ==
  ASSUME NEW c \in Seq(Scalars)
  PROVE  LET s == FastPack(c)
         IN /\ s \in Seq(Octet) /\ FastUnpack(s) = c
            /\ \E q : /\ Chars(s, Len(c), q)
                      /\ \A i \in 1..Len(c) : Bytes(s, q[i - 1], q[i]) = EncodeInto(c[i])
<1> DEFINE s == FastPack(c)  ss == Encoded(c)  n == Len(c)
<1>1. /\ ss \in Seq(Seq(Octet)) /\ Len(ss) = n /\ n \in Nat
      /\ \A i \in 1..n : /\ ss[i] = EncodeInto(c[i]) /\ c[i] \in Scalars
                         /\ ss[i] \in Seq(Octet) /\ Len(EncodeInto(c[i])) \in 1..4
      /\ s = FlattenSeq(ss)
  BY EncodedIs
<1> HIDE DEF s, ss
<1>2. PICK f : Flat(f, ss, Octet) /\ FlattenSeq(ss) = f[Len(ss)] BY <1>1, Flattens
<1>3. /\ \A k \in Nat : f[k] \in Seq(Octet) /\ Len(f[k]) \in Nat
      /\ f[0] = <<>> /\ s = f[n] /\ s \in Seq(Octet)
  <2>1. \A k \in Nat : f[k] \in Seq(Octet) BY <1>2 DEF Flat
  <2>2. f[0] = <<>> /\ s = f[n] BY <1>1, <1>2 DEF Flat
  <2> HIDE DEF n
  <2> QED BY <1>1, <2>1, <2>2, LenProperties
<1> DEFINE r == [i \in 0..n |-> Len(f[i])]
<1>4. ASSUME NEW i \in 0..n - 1
      PROVE  LET e == EncodeInto(c[i + 1])
             IN /\ Len(f[i + 1]) = Len(f[i]) + Len(e) /\ Len(f[i]) + Len(e) <= Len(s)
                /\ Len(e) \in 1..4 /\ c[i + 1] \in Scalars
                /\ \A m \in 1..Len(e) : s[Len(f[i]) + m] = e[m]
  <2> DEFINE j == i + 1  e == EncodeInto(c[j])
  <2>1. i \in Nat /\ i < n /\ j \in 1..n /\ j \in Nat /\ j <= n BY <1>1
  <2> HIDE DEF n, j
  <2>2. e = ss[j] /\ e \in Seq(Octet) /\ Len(e) \in 1..4 /\ c[j] \in Scalars BY <1>1, <2>1
  <2>3. f[j] = f[i] \o e BY <1>1, <1>2, <2>1, <2>2 DEF Flat, j
  <2> HIDE DEF e
  <2> DEFINE u == f[i]
  <2>4. u \in Seq(Octet) /\ Len(u) \in Nat BY <1>3, <2>1
  <2> HIDE DEF u
  <2>5. /\ Len(u \o e) = Len(u) + Len(e)
        /\ \A m \in 1..Len(u) + Len(e) : (u \o e)[m] = IF m <= Len(u) THEN u[m] ELSE e[m - Len(u)]
    BY <2>2, <2>4, ConcatProperties
  <2>6. Len(f[j]) <= Len(s) /\ \A m \in 1..Len(f[j]) : s[m] = f[j][m]
    BY <1>1, <1>2, <1>3, <2>1, FlatPrefix
  <2>7. f[j] = u \o e BY <2>3 DEF u
  <2>8. ASSUME NEW m \in 1..Len(e) PROVE s[Len(u) + m] = e[m]
    <3> DEFINE k == Len(u) + m
    <3>1. k \in 1..Len(u) + Len(e) /\ ~ k <= Len(u) /\ k - Len(u) = m BY <2>2, <2>4
    <3> HIDE DEF k
    <3>2. (u \o e)[k] = e[m] BY <2>5, <3>1
    <3>3. s[k] = (u \o e)[k] BY <2>5, <2>6, <2>7, <3>1
    <3> QED BY <3>2, <3>3 DEF k
  <2>9. Len(f[j]) = Len(u) + Len(e) /\ Len(u) + Len(e) <= Len(s) BY <2>5, <2>6, <2>7
  <2> QED BY <2>2, <2>8, <2>9 DEF u, e, j
<1>5. /\ r[0] = 0 /\ r[n] = Len(s) /\ \A i \in 0..n : r[i] \in Nat BY <1>1, <1>3
<1>6. ASSUME NEW i \in 0..n - 1, NEW j, j = i + 1
      PROVE  /\ r[i] < Len(s) /\ DecodeAt(s, r[i]).cp = c[j]
             /\ r[j] = r[i] + DecodeAt(s, r[i]).used
             /\ Bytes(s, r[i], r[j]) = EncodeInto(c[j])
  <2> DEFINE x == c[j]  e == EncodeInto(x)  o == r[i]  y == r[j]  l == Len(e)  a == Len(s) - o
  <2>1. o = Len(f[i]) /\ y = Len(f[j]) /\ o \in Nat /\ Len(s) \in Nat
    <3>1. i \in 0..n /\ i + 1 \in 0..n BY <1>1
    <3> QED BY <1>1, <1>3, <1>6, <3>1
  <2> HIDE DEF r, n, o, y
  <2>2. /\ y = o + l /\ o + l <= Len(s) /\ l \in 1..4 /\ x \in Scalars
        /\ \A m \in 1..l : s[o + m] = e[m]
    BY <1>4, <1>6, <2>1
  <2>3. e \in Seq(Octet) BY <2>2, Encodes DEF Scalars
  <2> HIDE DEF x, e, l
  <2>4. a \in Nat \ {0} /\ o + a <= Len(s) /\ l <= a /\ o < Len(s) BY <2>1, <2>2
  <2> HIDE DEF a
  <2>5. DecodeBounded(s, o, a) = [cp |-> x, used |-> l] BY <1>3, <2>1, <2>2, <2>4, Survives DEF e, l
  <2>6. DecodeAt(s, o) = [cp |-> x, used |-> l] BY <2>1, <2>4, <2>5 DEF DecodeAt, a
  <2>8. Bytes(s, o, y) = e
    <3>1. y = o + Len(e) /\ y <= Len(s) /\ \A m \in 1..Len(e) : e[m] = s[o + m] BY <2>2 DEF l
    <3>2. s \in Seq(Octet) /\ o \in Nat BY <1>3, <2>1
    <3> QED BY <2>3, <3>1, <3>2, BytesEqual, Zenon
  <2>9. DecodeAt(s, o).cp = x /\ DecodeAt(s, o).used = l BY <2>6
  <2> QED BY <2>2, <2>4, <2>8, <2>9 DEF x, o, e, y
<1> HIDE DEF r, n
<1>7. PICK q : Chars(s, n, q) /\ \A i \in 0..n : q[i] = r[i]
  <2>1. \A i \in 0..n - 1 : r[i] < Len(s) /\ r[i + 1] = r[i] + DecodeAt(s, r[i]).used
    <3> SUFFICES ASSUME NEW i \in 0..n - 1
                 PROVE  r[i] < Len(s) /\ r[i + 1] = r[i] + DecodeAt(s, r[i]).used
      OBVIOUS
    <3> QED BY <1>6
  <2>2. n \in Nat /\ s \in Seq(Octet) BY <1>1, <1>3 DEF n
  <2> QED BY <1>5, <2>1, <2>2, CharsFrom, Zenon
<1>8. ASSUME NEW i \in 1..n
      PROVE  Bytes(s, q[i - 1], q[i]) = EncodeInto(c[i]) /\ DecodeAt(s, q[i - 1]).cp = c[i]
  <2> DEFINE j == i - 1
  <2>1. j \in 0..n - 1 /\ j + 1 = i /\ j \in 0..n /\ i \in 0..n BY <1>1
  <2> HIDE DEF j
  <2>2. q[j] = r[j] /\ q[i] = r[i] BY <1>7, <2>1
  <2>3. Bytes(s, r[j], r[i]) = EncodeInto(c[i]) /\ DecodeAt(s, r[j]).cp = c[i] BY <1>6, <2>1
  <2> QED BY <2>2, <2>3 DEF j
<1>9. FastUnpack(s) = c
  <2>1. FastUnpack(s) = [i \in 1..n |-> DecodeAt(s, q[i - 1]).cp]
    <3>1. s \in Seq(Octet) /\ Chars(s, n, q) BY <1>3, <1>7
    <3> QED BY <3>1, CharsAre
  <2>2. c \in [1..n -> Scalars] BY LenProperties DEF n
  <2>3. FastUnpack(s) = [i \in 1..n |-> c[i]] BY <1>8, <2>1
  <2> QED BY <2>2, <2>3
<1> QED BY <1>3, <1>7, <1>8, <1>9 DEF s, n

\* The characters of any String, and its bytes when it is well formed.
LEMMA UnpackChars ==
  ASSUME NEW s \in Seq(Octet), NEW n, NEW q, Chars(s, n, q)
  PROVE  /\ n \in Nat /\ FastUnpack(s) \in Seq(Scalars) /\ Len(FastUnpack(s)) = n
         /\ \A i \in 1..n : FastUnpack(s)[i] = DecodeAt(s, q[i - 1]).cp
         /\ WellFormed(s) => \A i \in 1..n : Bytes(s, q[i - 1], q[i]) = EncodeInto(FastUnpack(s)[i])
<1> DEFINE c == FastUnpack(s)
<1>1. Len(s) \in Nat /\ n \in Nat /\ \A i \in 0..n - 1 : q[i] < Len(s) BY LenProperties DEF Chars
<1>2. c = [i \in 1..n |-> DecodeAt(s, q[i - 1]).cp] /\ \A i \in Nat : q[i] \in 0..Len(s) BY CharsAre
<1>3. ASSUME NEW i \in 1..n PROVE DecodeAt(s, q[i - 1]).cp \in Scalars
  <2> DEFINE o == q[i - 1]
  <2>1. i - 1 \in 0..n - 1 /\ i - 1 \in Nat BY <1>1
  <2>2. o \in 0..Len(s) /\ o < Len(s) BY <1>1, <1>2, <2>1
  <2> HIDE DEF o
  <2> QED BY <2>2, DecodesAt DEF o
<1>4. c \in Seq(Scalars) /\ Len(c) = n /\ \A i \in 1..n : c[i] = DecodeAt(s, q[i - 1]).cp
  BY <1>1, <1>2, <1>3
<1>5. ASSUME WellFormed(s), NEW i \in 1..n PROVE Bytes(s, q[i - 1], q[i]) = EncodeInto(c[i])
  <2> HIDE DEF c
  <2>1. FastPack(c) = s BY <1>5 DEF WellFormed, c
  <2>2. PICK p : /\ Chars(s, n, p)
                 /\ \A j \in 1..n : Bytes(s, p[j - 1], p[j]) = EncodeInto(c[j])
    BY <1>4, <2>1, PackChars
  <2>3. \A j \in Nat : q[j] = p[j] BY <2>2, CharsAre
  <2>4. q[i - 1] = p[i - 1] /\ q[i] = p[i] BY <1>1, <2>3
  <2> QED BY <2>2, <2>4
<1> QED BY <1>1, <1>4, <1>5

LEMMA CharsHave ==
  ASSUME NEW s \in Seq(Octet), NEW n, NEW q, Chars(s, n, q)
  PROVE  /\ n \in Nat /\ Len(s) \in Nat /\ n <= Len(s) /\ q[n] = Len(s) /\ q[0] = 0
         /\ \A i \in Nat : q[i] \in 0..Len(s) /\ q[i] \in Nat /\ q[i + 1] = Advance(s, q[i])
<1>1. Len(s) \in Nat BY LenProperties
<1>2. n \in Nat /\ n <= Len(s) /\ q[n] = Len(s) /\ Chain(q, s, 0) BY <1>1 DEF Chars
<1>3. \A i \in Nat : q[i] \in 0..Len(s) BY CharsAre
<1>4. \A i \in Nat : q[i] \in Nat BY <1>1, <1>3
<1> QED BY <1>1, <1>2, <1>3, <1>4 DEF Chain

\* One character after the other, all of the bytes.
LEMMA AllDecoded ==
  ASSUME NEW s \in Seq(Octet)
  PROVE  DecodesAll(s)
<1>1. PICK n, q : Chars(s, n, q) BY CharsExist
<1>2. /\ \A i \in Nat : q[i] \in 0..Len(s) /\ (i >= n => q[i] = Len(s)) /\ (i < n => q[i] < q[i + 1])
      /\ \A i \in Nat : ByteOffsetOfChar(s, i) = q[i]
      /\ Utf8Length(s) = n
  BY <1>1, CharsAre
<1>3. /\ n \in Nat /\ Len(s) \in Nat
      /\ \A i \in 1..n : FastUnpack(s)[i] = DecodeAt(s, q[i - 1]).cp
      /\ \A i \in Nat : q[i + 1] = Advance(s, q[i])
  <2>1. n \in Nat /\ Len(s) \in Nat /\ \A i \in Nat : q[i + 1] = Advance(s, q[i]) BY <1>1, CharsHave
  <2>2. \A i \in 1..n : FastUnpack(s)[i] = DecodeAt(s, q[i - 1]).cp BY <1>1, UnpackChars
  <2> QED BY <2>1, <2>2
<1>4. ByteOffsetOfChar(s, n) = Len(s)
  <2>1. q[n] = Len(s) BY <1>1, CharsHave
  <2> QED BY <1>2, <1>3, <2>1
<1>5. ASSUME NEW i \in 1..n
      PROVE  LET piece == Piece(s, i)
                 cp == FastUnpack(s)[i]
             IN /\ Len(piece) \in 1..4
                /\ cp # Replacement => piece = EncodeInto(cp)
                /\ \A j \in 2..Len(piece) : IsContinuation(piece[j])
                /\ IsContinuation(piece[1]) => Len(piece) = 1
  <2> DEFINE k == i - 1  o == q[k]  u == q[i]  d == DecodeAt(s, o)  piece == Bytes(s, o, u)
  <2>1. k \in Nat /\ i \in Nat /\ k + 1 = i /\ k < n BY <1>3
  <2> HIDE DEF k
  <2>2. /\ o \in 0..Len(s) /\ u \in 0..Len(s) /\ o < u /\ u = Advance(s, o)
        /\ Piece(s, i) = piece /\ FastUnpack(s)[i] = d.cp
    BY <1>3, <1>2, <2>1 DEF Piece, k
  <2> HIDE DEF o, u
  <2>3. o < Len(s) BY <1>3, <2>2
  <2>4. /\ d.used \in 1..4 /\ u = o + d.used
        /\ \A j \in 1..d.used - 1 : IsContinuation(At(s, o + j))
        /\ IsContinuation(At(s, o)) => d.used = 1
        /\ d.cp # Replacement => Bytes(s, o, o + d.used) = EncodeInto(d.cp)
    BY <2>2, <2>3, DecodesAt
  <2> DEFINE l == d.used
  <2>0. l \in 1..4 /\ u = o + l BY <2>4
  <2> HIDE DEF l, d, piece
  <2>5. /\ piece \in Seq(Octet) /\ Len(piece) = l /\ l \in 1..4
        /\ \A j \in 1..l : piece[j] = s[o + j]
    <3>1. o \in Nat /\ u \in Nat /\ o <= u /\ u <= Len(s) /\ u - o = l /\ l \in 1..4
      <4>1. Len(s) \in Nat BY <1>3
      <4>2. o \in 0..Len(s) /\ u \in 0..Len(s) /\ o < u BY <2>2
      <4> QED BY <2>0, <4>1, <4>2
    <3>2. /\ piece \in Seq(Octet) /\ Len(piece) = u - o
          /\ \A j \in 1..u - o : piece[j] = s[o + j]
      BY <3>1, BytesIs DEF piece
    <3> QED BY <3>1, <3>2
  <2>6. d.cp # Replacement => piece = EncodeInto(d.cp) BY <2>4, <2>0 DEF piece, l
  <2>7. ASSUME NEW j \in 2..l PROVE IsContinuation(piece[j])
    <3> DEFINE h == j - 1
    <3>1. h \in 1..l - 1 /\ o + h + 1 = o + j /\ j \in 1..l BY <1>3, <2>0, <2>2
    <3> HIDE DEF h
    <3>2. IsContinuation(At(s, o + h)) BY <2>4, <3>1 DEF l
    <3>3. piece[j] = s[o + j] BY <2>5, <3>1
    <3> QED BY <3>1, <3>2, <3>3 DEF At
  <2>8. IsContinuation(piece[1]) => l = 1
    <3>1. piece[1] = s[o + 1] BY <2>5
    <3> QED BY <2>4, <3>1 DEF At, l
  <2> QED BY <2>2, <2>5, <2>6, <2>7, <2>8 DEF d
<1> QED BY <1>2, <1>4, <1>5 DEF DecodesAll

\* Between two offsets, the same bytes; and the same character, when it ends there.
LEMMA CutBytes ==
  ASSUME NEW s \in Seq(Octet), NEW x \in Nat, NEW y \in Nat, x <= y, y <= Len(s),
         NEW o \in Nat, x <= o, o < y, NEW a \in Nat, NEW b \in Nat, b <= y - o, NEW p \in Nat, p = o - x
  PROVE  SameBytes(s, o, a, Bytes(s, x, y), p, b)
<1> DEFINE t == Bytes(s, x, y)
<1>1. \A k \in 1..y - x : t[k] = s[x + k] BY BytesIs
<1> HIDE DEF t
<1>2. ASSUME NEW e \in Nat, e < a, e < b PROVE At(s, o + e) = At(t, p + e)
  <2> DEFINE g == p + e + 1
  <2>1. g \in 1..y - x /\ x + g = o + e + 1 BY <1>2
  <2> HIDE DEF g
  <2>2. t[g] = s[x + g] BY <1>1, <2>1
  <2> QED BY <2>1, <2>2 DEF At, g
<1> QED BY <1>2 DEF SameBytes, t

LEMMA CutDecodes ==
  ASSUME NEW s \in Seq(Octet), NEW x \in Nat, NEW y \in Nat, x <= y, y <= Len(s),
         NEW o \in Nat, x <= o, o < y, Advance(s, o) <= y, NEW p \in Nat, p = o - x
  PROVE  p < Len(Bytes(s, x, y)) /\ DecodeAt(Bytes(s, x, y), p) = DecodeAt(s, o)
<1> DEFINE t == Bytes(s, x, y)  a == Len(s) - o  b == y - o  d == DecodeAt(s, o)  l == Len(t)  w == d.used
<1>1. t \in Seq(Octet) /\ l = y - x /\ Len(s) \in Nat /\ l \in Nat
  <2>1. t \in Seq(Octet) /\ l = y - x BY BytesIs
  <2> HIDE DEF l, t
  <2> QED BY <2>1, LenProperties
<1> HIDE DEF t, l
<1>2. a \in Nat \ {0} /\ o + a = Len(s) /\ b \in Nat \ {0} /\ p + b = l /\ b <= a /\ p < l /\ o \in 0..Len(s) /\ o < Len(s)
  BY <1>1
<1>3. d = DecodeBounded(s, o, a) /\ w \in 1..4 /\ Advance(s, o) = o + w BY <1>2, DecodesAt
<1> HIDE DEF d, w
<1>4. w <= b BY <1>3
<1> HIDE DEF a, b
<1>5. SameBytes(s, o, a, t, p, b) BY <1>2, CutBytes DEF b, t
<1>6. DecodeBounded(t, p, b) = DecodeBounded(s, o, a)
  <2>1. DecodeBounded(s, o, a).used <= b BY <1>3, <1>4 DEF w
  <2>2. o + a <= Len(s) /\ p + b <= Len(t) BY <1>1, <1>2 DEF l
  <2>4. a \in Nat \ {0} /\ b \in Nat \ {0} /\ b <= a /\ t \in Seq(Octet) BY <1>1, <1>2
  <2> QED BY <1>5, <2>1, <2>2, <2>4, DecodesAlike
<1>7. DecodeAt(t, p) = DecodeBounded(t, p, b)
  <2>1. l - p = b /\ ~ p >= l BY <1>1, <1>2
  <2> QED BY <2>1 DEF DecodeAt, l
<1> QED BY <1>2, <1>3, <1>6, <1>7 DEF t, l, d

Starts(r, t, n) ==
  /\ r[0] = 0 /\ r[n] = Len(t) /\ \A i \in 0..n : r[i] \in Nat
  /\ \A i \in 0..n - 1 : r[i] < Len(t) /\ r[i + 1] = r[i] + DecodeAt(t, r[i]).used
Starting(q, r, n) == \A i \in 0..n : q[i] = r[i]

LEMMA CharsStart ==
  ASSUME NEW t \in Seq(Octet), NEW n \in Nat, NEW r, Starts(r, t, n)
  PROVE  \E q : Chars(t, n, q) /\ Starting(q, r, n)
BY CharsFrom, Zenon DEF Starts, Starting

\* From one character to another, a String has the characters between them.
LEMMA CutChars ==
  ASSUME NEW s \in Seq(Octet), NEW n, NEW q, Chars(s, n, q), NEW i \in 0..n, NEW j \in 0..n, i <= j
  PROVE  LET t == Bytes(s, q[i], q[j])
         IN /\ t \in Seq(Octet) /\ FastUnpack(t) = SubSeq(FastUnpack(s), i + 1, j)
            /\ \E p : Chars(t, j - i, p)
<1> DEFINE x == q[i]  y == q[j]  t == Bytes(s, x, y)  m == j - i  r == [k \in 0..m |-> q[i + k] - x]
           c == FastUnpack(s)
<1>1. /\ \A k \in Nat : q[k] \in 0..Len(s) /\ (k < n => q[k] < q[k + 1])
      /\ \A k, h \in 0..n : k <= h => q[k] <= q[h]
      /\ \A k \in Nat : q[k + 1] = Advance(s, q[k])
      /\ n \in Nat /\ Len(s) \in Nat
      /\ c \in Seq(Scalars) /\ Len(c) = n
      /\ \A k \in 1..n : c[k] = DecodeAt(s, q[k - 1]).cp
  <2>1. /\ \A k \in Nat : q[k] \in 0..Len(s) /\ (k < n => q[k] < q[k + 1])
        /\ \A k, h \in 0..n : k <= h => q[k] <= q[h]
    BY CharsAre
  <2>2. n \in Nat /\ Len(s) \in Nat /\ \A k \in Nat : q[k + 1] = Advance(s, q[k]) BY CharsHave
  <2>3. c \in Seq(Scalars) /\ Len(c) = n /\ \A k \in 1..n : c[k] = DecodeAt(s, q[k - 1]).cp
    BY UnpackChars
  <2> QED BY <2>1, <2>2, <2>3
<1>2. /\ x \in 0..Len(s) /\ y \in 0..Len(s) /\ x <= y /\ m \in Nat
      /\ x \in Nat /\ y \in Nat /\ y <= Len(s) /\ i \in Nat /\ j \in Nat /\ i + m = j
  <2>1. i \in Nat /\ j \in Nat /\ m \in Nat /\ i + m = j BY <1>1
  <2>2. q[i] \in 0..Len(s) /\ q[j] \in 0..Len(s) /\ q[i] <= q[j] BY <1>1, <2>1
  <2> HIDE DEF m, x, y
  <2>3. x \in 0..Len(s) /\ y \in 0..Len(s) /\ x <= y BY <2>2 DEF x, y
  <2> QED BY <1>1, <2>1, <2>3
<1> HIDE DEF x, y, m
<1>3. t \in Seq(Octet) /\ Len(t) = y - x /\ \A k \in 1..y - x : t[k] = s[x + k] BY <1>2, BytesIs
<1> HIDE DEF c, t
<1>0. \A k \in 0..m : \A h \in Nat : h = i + k => r[k] = q[h] - x OBVIOUS
<1> HIDE DEF r
<1>4. r[0] = 0 /\ r[m] = Len(t) /\ \A k \in 0..m : r[k] \in Nat
  <2>1. i = i + 0 /\ j = i + m /\ 0 \in 0..m /\ m \in 0..m BY <1>2
  <2>2. ASSUME NEW k \in 0..m PROVE r[k] \in Nat
    <3> DEFINE h == i + k
    <3>1. h \in 0..n /\ i <= h /\ h \in Nat /\ h = i + k BY <1>1, <1>2, <2>2
    <3> HIDE DEF h
    <3>2. r[k] = q[h] - x BY <1>0, <2>2, <3>1
    <3>3. q[i] <= q[h] BY <1>1, <3>1
    <3>4. q[h] \in 0..Len(s) BY <1>1, <3>1
    <3>5. x <= q[h] BY <3>3 DEF x
    <3> DEFINE v == q[h]
    <3>6. v \in Nat /\ x <= v /\ r[k] = v - x
      <4>1. Len(s) \in Nat BY <1>1
      <4> QED BY <3>2, <3>4, <3>5, <4>1
    <3> HIDE DEF v
    <3> QED BY <1>2, <3>6
  <2>3. r[0] = q[i] - x /\ r[m] = q[j] - x BY <1>0, <1>2, <2>1
  <2>4. r[0] = x - x /\ r[m] = y - x BY <2>3 DEF x, y
  <2> QED BY <1>2, <1>3, <2>2, <2>4
<1>5. ASSUME NEW k \in 0..m - 1
      PROVE  r[k] < Len(t) /\ r[k + 1] = r[k] + DecodeAt(t, r[k]).used /\ DecodeAt(t, r[k]).cp = c[i + k + 1]
  <2> DEFINE h == i + k  g == h + 1  o == q[h]  u == q[g]  p == r[k]  d == DecodeAt(s, o)  w == d.used
  <2>1. h \in Nat /\ h < n /\ g \in Nat /\ g <= j /\ g \in 0..n /\ g \in 1..n /\ g - 1 = h /\ h \in 0..n /\ i <= h
    <3>1. n \in Nat /\ i \in Nat /\ j \in Nat /\ j <= n /\ i + m = j /\ m \in Nat BY <1>1, <1>2
    <3> QED BY <3>1
  <2>2. p = o - x /\ r[k + 1] = u - x
    <3> DEFINE f == k + 1
    <3>1. k \in 0..m /\ f \in 0..m /\ g = i + f /\ h = i + k BY <1>2, <2>1
    <3> HIDE DEF f, g, h
    <3>2. r[k] = q[h] - x /\ r[f] = q[g] - x BY <1>0, <2>1, <3>1
    <3> QED BY <3>2 DEF f
  <2>3. /\ o \in 0..Len(s) /\ u \in 0..Len(s) /\ o < u /\ u = Advance(s, o) /\ u <= y /\ x <= o
        /\ c[g] = d.cp
    <3>1. q[h] \in 0..Len(s) /\ q[h] < q[h + 1] /\ q[h + 1] = Advance(s, q[h]) BY <1>1, <2>1
    <3>2. u \in 0..Len(s)
      <4> HIDE DEF g
      <4> QED BY <1>1, <2>1
    <3>3. q[i] <= q[h] /\ q[g] <= q[j]
      <4> HIDE DEF g, h
      <4> QED BY <1>1, <2>1
    <3>4. c[g] = DecodeAt(s, q[g - 1]).cp
      <4> HIDE DEF g, h
      <4> QED BY <1>1, <2>1
    <3> QED BY <2>1, <3>1, <3>2, <3>3, <3>4 DEF x, y
  <2> HIDE DEF o, u, p
  <2>4. o \in Nat /\ u \in Nat /\ o < Len(s) /\ o < y /\ p \in Nat
    <3>1. Len(s) \in Nat /\ y \in Nat /\ x \in Nat BY <1>1, <1>2
    <3>2. o \in 0..Len(s) /\ u \in 0..Len(s) /\ o < u /\ u <= y /\ x <= o BY <2>3
    <3> HIDE DEF d, g, h, w
    <3>3. o \in Nat /\ u \in Nat /\ o < Len(s) /\ o < y BY <3>1, <3>2
    <3> QED BY <2>2, <3>1, <3>2, <3>3
  <2>5. w \in 1..4 /\ u = o + w BY <2>3, <2>4, DecodesAt
  <2>6. p < Len(t) /\ DecodeAt(t, p) = d BY <1>2, <2>2, <2>3, <2>4, CutDecodes DEF t
  <2> HIDE DEF d, w
  <2>7. r[k + 1] = p + w BY <1>2, <2>2, <2>4, <2>5
  <2> QED BY <2>3, <2>6, <2>7 DEF p, w
<1>6. PICK p : Chars(t, m, p) /\ \A k \in 0..m : p[k] = r[k]
  <2>1. \A k \in 0..m - 1 : r[k] < Len(t) /\ r[k + 1] = r[k] + DecodeAt(t, r[k]).used BY <1>5
  <2>2. m \in Nat /\ t \in Seq(Octet) BY <1>2, <1>3
  <2> QED
    <3>1. Starts(r, t, m) BY <1>4, <2>1 DEF Starts
    <3>2. \E p : Chars(t, m, p) /\ Starting(p, r, m) BY <2>2, <3>1, CharsStart
    <3> QED BY <3>2 DEF Starting
<1>7. FastUnpack(t) = SubSeq(c, i + 1, j)
  <2> DEFINE g == FastUnpack(t)  f == SubSeq(c, i + 1, j)
  <2>1. g \in Seq(Scalars) /\ Len(g) = m /\ \A k \in 1..m : g[k] = DecodeAt(t, p[k - 1]).cp
    BY <1>3, <1>6, UnpackChars
  <2>2. f \in Seq(Scalars) /\ Len(f) = m /\ \A k \in 1..m : f[k] = c[i + k]
    <3> DEFINE w == i + 1
    <3>1. w \in Int /\ j \in Int /\ j - w + 1 = m /\ (w <= j <=> m >= 1) /\ \A k \in Int : w + k - 1 = i + k
      BY <1>1, <1>2 DEF m
    <3>2. \A k \in w..j : c[k] \in Scalars
      <4>1. \A k \in w..j : k \in 1..Len(c) BY <1>1
      <4> HIDE DEF w
      <4> QED BY <1>1, <4>1, ElementOfSeq
    <3> HIDE DEF w
    <3>3. /\ SubSeq(c, w, j) \in Seq(Scalars)
          /\ Len(SubSeq(c, w, j)) = IF w <= j THEN j - w + 1 ELSE 0
          /\ \A k \in 1..j - w + 1 : SubSeq(c, w, j)[k] = c[w + k - 1]
      BY <3>1, <3>2, SubSeqProperties
    <3>4. f = SubSeq(c, w, j) BY DEF w
    <3> HIDE DEF f
    <3>5. Len(f) = m BY <1>2, <3>1, <3>3, <3>4
    <3>6. ASSUME NEW k \in 1..m PROVE f[k] = c[i + k] BY <3>1, <3>6, <3>3, <3>4
    <3> QED BY <3>3, <3>4, <3>5, <3>6
  <2> HIDE DEF g, f
  <2>3. ASSUME NEW k \in 1..m PROVE g[k] = f[k]
    <3> DEFINE h == k - 1
    <3>1. h \in 0..m - 1 /\ h \in 0..m /\ i + h + 1 = i + k BY <1>2
    <3>2. g[k] = DecodeAt(t, p[h]).cp BY <2>1
    <3> HIDE DEF h
    <3>3. DecodeAt(t, r[h]).cp = c[i + h + 1] /\ p[h] = r[h] BY <1>5, <1>6, <3>1
    <3> QED BY <2>2, <3>1, <3>2, <3>3
  <2>4. g = f BY <2>1, <2>2, <2>3, SeqEqual
  <2> QED BY <2>4 DEF g, f
<1> QED BY <1>3, <1>6, <1>7 DEF t, c, m, x, y

\* The offsets of a String and its characters, all in one place.
Spans(s, n, q, c) ==
  /\ n \in Nat /\ Len(s) \in Nat /\ n <= Len(s) /\ q[0] = 0 /\ q[n] = Len(s)
  /\ \A i \in Nat : q[i] \in 0..Len(s) /\ q[i] \in Nat /\ q[i + 1] = Advance(s, q[i])
  /\ \A i \in Nat : i >= n => q[i] = Len(s)
  /\ \A i \in Nat : ByteOffsetOfChar(s, i) = q[i]
  /\ \A i \in Nat, k \in Nat : OffsetAfter(s, q[i], k) = q[i + k]
  /\ Utf8Length(s) = n
  /\ c \in Seq(Scalars) /\ Len(c) = n
  /\ \A i \in 1..n : c[i] = DecodeAt(s, q[i - 1]).cp

LEMMA CharsSpan ==
  ASSUME NEW s \in Seq(Octet), NEW n, NEW q, Chars(s, n, q)
  PROVE  Spans(s, n, q, FastUnpack(s))
<1>1. /\ n \in Nat /\ Len(s) \in Nat /\ n <= Len(s) /\ q[0] = 0 /\ q[n] = Len(s)
      /\ \A i \in Nat : q[i] \in 0..Len(s) /\ q[i] \in Nat /\ q[i + 1] = Advance(s, q[i])
  BY CharsHave
<1>2. /\ \A i \in Nat : i >= n => q[i] = Len(s)
      /\ \A i \in Nat : ByteOffsetOfChar(s, i) = q[i]
      /\ Utf8Length(s) = n
  BY CharsAre
<1>3. \A i \in Nat, k \in Nat : OffsetAfter(s, q[i], k) = q[i + k]
  <2>1. Chain(q, s, 0) /\ 0 \in 0..Len(s) BY <1>1 DEF Chars
  <2> QED BY <2>1, ChainFrom
<1>4. FastUnpack(s) \in Seq(Scalars) /\ Len(FastUnpack(s)) = n /\ \A i \in 1..n : FastUnpack(s)[i] = DecodeAt(s, q[i - 1]).cp
  BY UnpackChars
<1> QED BY <1>1, <1>2, <1>3, <1>4 DEF Spans

LEMMA NoChars == /\ <<>> \in Seq(Octet) /\ FastUnpack(<<>>) = <<>>
                 /\ \A s \in Seq(Octet) : Bytes(s, Len(s), Len(s)) = <<>>
<1>1. <<>> \in Seq(Octet) /\ Len(<<>>) = 0 BY EmptySeq
<1>2. PICK n, q : Chars(<<>>, n, q) BY <1>1, CharsExist
<1>3. FastUnpack(<<>>) \in Seq(Scalars) /\ Len(FastUnpack(<<>>)) = n /\ n \in Nat /\ n <= Len(<<>>)
  BY <1>1, <1>2, CharsSpan DEF Spans
<1>4. Len(FastUnpack(<<>>)) = 0 BY <1>1, <1>3
<1>5. FastUnpack(<<>>) = <<>> BY <1>3, <1>4, EmptySeq
<1>6. ASSUME NEW s \in Seq(Octet) PROVE Bytes(s, Len(s), Len(s)) = <<>>
  BY LenProperties, SubSeqEmpty DEF Bytes
<1> QED BY <1>1, <1>5, <1>6

\* All but the first character.
LEMMA TailCuts ==
  ASSUME NEW s \in Seq(Octet)
  PROVE  FastUnpack(StrTail(s)) = (IF FastUnpack(s) = <<>> THEN <<>> ELSE Tail(FastUnpack(s)))
<1> DEFINE c == FastUnpack(s)
<1>1. PICK n, q : Chars(s, n, q) BY CharsExist
<1>2. /\ n \in Nat /\ q[n] = Len(s) /\ c \in Seq(Scalars) /\ Len(c) = n
      /\ \A i \in Nat : i >= n => q[i] = Len(s)
      /\ \A i \in Nat : ByteOffsetOfChar(s, i) = q[i]
  <2>1. Spans(s, n, q, c) BY <1>1, CharsSpan
  <2> QED BY <2>1 DEF Spans
<1>3. StrTail(s) = Bytes(s, q[1], q[n]) BY <1>2 DEF StrTail
<1>4. CASE n = 0
  <2>1. q[1] = Len(s) BY <1>2, <1>4
  <2>2. StrTail(s) = <<>> BY <1>2, <1>3, <2>1, NoChars
  <2>3. c = <<>>
    <3> HIDE DEF c
    <3> QED BY <1>2, <1>4, EmptySeq
  <2> QED BY <2>2, <2>3, NoChars
<1>5. CASE n # 0
  <2> HIDE DEF c
  <2> DEFINE one == 1
  <2>1. one \in 0..n /\ n \in 0..n /\ one <= n BY <1>2, <1>5
  <2> HIDE DEF one
  <2>2. FastUnpack(Bytes(s, q[one], q[n])) = SubSeq(FastUnpack(s), one + 1, n)
    BY <1>1, <2>1, CutChars
  <2>3. c # <<>> BY <1>2, <1>5, EmptySeq
  <2>4. Tail(c) = SubSeq(c, 2, Len(c)) BY <1>2, <2>3, TailIsSubSeq
  <2> QED BY <1>2, <1>3, <2>2, <2>3, <2>4 DEF one, c
<1> QED BY <1>4, <1>5

LEMMA IndexReads ==
  ASSUME NEW s \in Seq(Octet), NEW i \in -1..Len(FastUnpack(s))
  PROVE  StrIndex(s, i) = IF i \in 0..Len(FastUnpack(s)) - 1 THEN FastUnpack(s)[i + 1] ELSE Replacement
<1> DEFINE c == FastUnpack(s)
<1>1. PICK n, q : Chars(s, n, q) BY CharsExist
<1>2. /\ n \in Nat /\ Len(s) \in Nat /\ q[n] = Len(s) /\ c \in Seq(Scalars) /\ Len(c) = n
      /\ \A j \in Nat : j >= n => q[j] = Len(s)
      /\ \A j \in Nat : ByteOffsetOfChar(s, j) = q[j]
      /\ \A j \in 1..n : c[j] = DecodeAt(s, q[j - 1]).cp
  <2>1. Spans(s, n, q, c) BY <1>1, CharsSpan
  <2> QED BY <2>1 DEF Spans
<1>3. DecodeAt(s, Len(s)).cp = Replacement BY <1>2 DEF DecodeAt
<1>4. CASE i < 0 BY <1>2, <1>3, <1>4 DEF StrIndex
<1>5. CASE i >= 0
  <2>1. StrIndex(s, i) = DecodeAt(s, q[i]).cp BY <1>2, <1>5 DEF StrIndex
  <2>2. CASE i = n BY <1>2, <1>3, <2>1, <2>2
  <2>3. CASE i < n
    <3> DEFINE j == i + 1
    <3>0. i \in -1..n /\ n \in Nat BY <1>2
    <3> HIDE DEF c
    <3>1. j \in 1..n /\ j - 1 = i /\ i \in 0..n - 1 BY <1>5, <2>3, <3>0
    <3> HIDE DEF j
    <3>2. c[j] = DecodeAt(s, q[i]).cp BY <1>2, <3>1
    <3> QED BY <1>2, <2>1, <3>1, <3>2 DEF c, j
  <2> QED BY <1>2, <2>2, <2>3
<1> QED BY <1>2, <1>4, <1>5

LEMMA SubstrCuts ==
  ASSUME NEW s \in Seq(Octet), NEW i \in -1..Len(FastUnpack(s)) + 1, NEW k \in -1..Len(FastUnpack(s)) + 1
  PROVE  FastUnpack(StrSubstr(i, k, s)) =
           IF i < 0 \/ k < 0 THEN <<>>
           ELSE SubSeq(FastUnpack(s), i + 1, IF i + k < Len(FastUnpack(s)) THEN i + k ELSE Len(FastUnpack(s)))
<1> DEFINE c == FastUnpack(s)
<1>1. PICK n, q : Chars(s, n, q) BY CharsExist
<1>2. /\ n \in Nat /\ Len(s) \in Nat /\ q[n] = Len(s) /\ c \in Seq(Scalars) /\ Len(c) = n
      /\ \A j \in Nat : j >= n => q[j] = Len(s)
      /\ \A j \in Nat : ByteOffsetOfChar(s, j) = q[j]
      /\ \A j \in Nat, m \in Nat : OffsetAfter(s, q[j], m) = q[j + m]
  <2>1. Spans(s, n, q, c) BY <1>1, CharsSpan
  <2> QED BY <2>1 DEF Spans
<1>3. CASE i < 0 \/ k < 0 BY <1>3, NoChars DEF StrSubstr
<1>4. CASE i \in Nat /\ k \in Nat
  <2> DEFINE m == i + k  d == IF m < Len(c) THEN m ELSE Len(c)
  <2>0. m \in Nat /\ i \in Nat /\ (m < n => d = m) /\ (~ m < n => d = n) BY <1>2, <1>4
  <2>1. ~(i < 0 \/ k < 0) BY <1>4
  <2> HIDE DEF c, d
  <2>2. \E h \in 0..n, j \in 0..n :
          /\ h <= j /\ (m >= n => j = n) /\ (m < n => j = m) /\ (i >= n => h = n) /\ (i < n => h = i)
    <3>1. CASE i >= n
      <4>1. n \in 0..n /\ m >= n BY <1>2, <1>4, <3>1
      <4> QED BY <1>2, <2>0, <3>1, <4>1
    <3>2. CASE i < n /\ m >= n BY <1>2, <1>4, <3>2, <2>0
    <3>3. CASE m < n
      <4>1. m \in 0..n /\ i \in 0..n /\ i <= m /\ i < n BY <1>2, <1>4, <3>3
      <4> HIDE DEF m
      <4> QED BY <1>2, <2>0, <3>3, <4>1
    <3> QED BY <1>2, <2>0, <3>1, <3>2, <3>3
  <2> HIDE DEF m
  <2>9. PICK h \in 0..n, j \in 0..n :
          h <= j /\ (m >= n => j = n) /\ (m < n => j = m) /\ (i >= n => h = n) /\ (i < n => h = i)
    BY <2>2
  <2>10. n \in Int /\ h \in Int /\ j \in Int /\ i \in Int /\ m \in Int BY <1>2, <2>0
  <2>8. d = j /\ (i > n => j = n /\ h = n)
    <3>1. i > n => m > n BY <1>2, <1>4 DEF m
    <3>2. d = j BY <2>0, <2>9, <2>10
    <3> QED BY <2>9, <2>10, <3>1, <3>2
  <2>3. q[i] = q[h] /\ q[m] = q[j]
    <3>1. (i >= n => q[i] = Len(s)) /\ (m >= n => q[m] = Len(s)) /\ q[n] = Len(s) BY <1>2, <2>0
    <3>2. (i >= n => h = n) /\ (i < n => h = i) /\ (i >= n \/ i < n) BY <2>9, <2>10
    <3>3. (m >= n => j = n) /\ (m < n => j = m) /\ (m >= n \/ m < n) BY <2>9, <2>10
    <3>4. q[i] = q[h] BY <3>1, <3>2, Zenon
    <3>5. q[m] = q[j] BY <3>1, <3>3, Zenon
    <3> QED BY <3>4, <3>5
  <2>4. StrSubstr(i, k, s) = Bytes(s, q[h], q[j]) BY <1>2, <1>4, <2>1, <2>3 DEF m, StrSubstr
  <2>5. FastUnpack(Bytes(s, q[h], q[j])) = SubSeq(FastUnpack(s), h + 1, j) BY <1>1, <2>9, CutChars
  <2>6. SubSeq(c, h + 1, j) = SubSeq(c, i + 1, j)
    <3>1. CASE i <= n BY <2>8, <2>9, <2>10, <3>1
    <3>2. CASE i > n BY <2>8, <2>10, <3>2, SubSeqEmpty
    <3> QED BY <2>10, <3>1, <3>2
  <2>7. FastUnpack(StrSubstr(i, k, s)) = SubSeq(c, i + 1, d) BY <2>8, <2>4, <2>5, <2>6 DEF c
  <2> QED BY <2>1, <2>7 DEF c, m, d
<1>5. i \in Int /\ k \in Int BY <1>2
<1> QED BY <1>3, <1>4, <1>5

\* The characters the other way around.
LEMMA ReversedIs ==
  ASSUME NEW c \in Seq(Scalars)
  PROVE  /\ Reverse(c) \in Seq(Scalars) /\ Len(Reverse(c)) = Len(c)
         /\ \A i \in 1..Len(c), j \in 1..Len(c) : j = Len(c) - i + 1 => Reverse(c)[i] = c[j]
<1> DEFINE n == Len(c)
<1>1. n \in Nat /\ \A i \in 1..n : c[i] \in Scalars BY LenProperties, ElementOfSeq
<1>2. Reverse(c) = [i \in 1..n |-> c[(n - i) + 1]] BY DEF Reverse
<1> HIDE DEF n
<1>3. ASSUME NEW i \in 1..n PROVE c[(n - i) + 1] \in Scalars
  <2> DEFINE j == (n - i) + 1
  <2>1. j \in 1..n BY <1>1
  <2> HIDE DEF j
  <2> QED BY <1>1, <2>1 DEF j
<1>4. Reverse(c) \in Seq(Scalars) /\ Len(Reverse(c)) = n BY <1>1, <1>2, <1>3
<1>5. ASSUME NEW i \in 1..n, NEW j \in 1..n, j = n - i + 1 PROVE Reverse(c)[i] = c[j] BY <1>2, <1>5
<1> QED BY <1>4, <1>5 DEF n

LEMMA ReversedTwice ==
  ASSUME NEW c \in Seq(Scalars)
  PROVE  Reverse(Reverse(c)) = c
<1> DEFINE n == Len(c)  r == Reverse(c)  t == Reverse(r)
<1>1. n \in Nat /\ r \in Seq(Scalars) /\ Len(r) = n BY ReversedIs, LenProperties
<1>2. t \in Seq(Scalars) /\ Len(t) = n /\ \A i \in 1..n, j \in 1..n : j = n - i + 1 => t[i] = r[j]
  <2> HIDE DEF r
  <2> QED BY <1>1, ReversedIs
<1>3. \A i \in 1..n, j \in 1..n : j = n - i + 1 => r[i] = c[j] BY ReversedIs
<1> HIDE DEF r, t, n
<1>4. ASSUME NEW i \in 1..n PROVE t[i] = c[i]
  <2> DEFINE j == n - i + 1
  <2>1. j \in 1..n /\ i = n - j + 1 /\ j = n - i + 1 BY <1>1
  <2> HIDE DEF j
  <2>2. t[i] = r[j] /\ r[j] = c[i] BY <1>2, <1>3, <2>1
  <2> QED BY <2>2
<1>5. t = c BY <1>2, <1>4, SeqEqual DEF n
<1> QED BY <1>5 DEF t, r

LEMMA ReversePacks ==
  ASSUME NEW c \in Seq(Scalars)
  PROVE  StrReverse(FastPack(c)) = FastPack(Reverse(c))
<1> DEFINE s == FastPack(c)  n == Len(c)  r == Reverse(c)
<1>1. s \in Seq(Octet) /\ \E q : Chars(s, n, q) /\ \A i \in 1..n : Bytes(s, q[i - 1], q[i]) = EncodeInto(c[i])
  BY PackChars
<1>2. PICK q : Chars(s, n, q) /\ \A i \in 1..n : Bytes(s, q[i - 1], q[i]) = EncodeInto(c[i]) BY <1>1
<1> HIDE DEF s
<1>3. n \in Nat /\ Utf8Length(s) = n /\ \A i \in Nat : ByteOffsetOfChar(s, i) = q[i]
  <2>1. Spans(s, n, q, FastUnpack(s)) BY <1>1, <1>2, CharsSpan
  <2> HIDE DEF n
  <2> QED BY <2>1 DEF Spans
<1>4. r \in Seq(Scalars) /\ Len(r) = n /\ \A i \in 1..n, j \in 1..n : j = n - i + 1 => r[i] = c[j]
  BY ReversedIs
<1> HIDE DEF n, r
<1>5. ASSUME NEW i \in 1..n PROVE Piece(s, n - i + 1) = EncodeInto(r[i])
  <2> DEFINE j == n - i + 1
  <2>1. j \in 1..n /\ j = n - i + 1 /\ j - 1 \in Nat /\ j \in Nat BY <1>3
  <2> HIDE DEF j
  <2>2. Piece(s, j) = Bytes(s, q[j - 1], q[j]) BY <1>3, <2>1 DEF Piece
  <2>3. r[i] = c[j] BY <1>4, <2>1
  <2> QED BY <1>2, <2>1, <2>2, <2>3 DEF j
<1>6. StrReverse(s) = FlattenSeq([i \in 1..n |-> Piece(s, n - i + 1)]) BY <1>3 DEF StrReverse
<1>7. [i \in 1..n |-> Piece(s, n - i + 1)] = [i \in 1..n |-> EncodeInto(r[i])] BY <1>5
<1>8. DOMAIN r = 1..n BY <1>4, LenProperties
<1> QED BY <1>6, <1>7, <1>8 DEF FastPack, s, r

\* The reversal of any String has all of its bytes.
LEMMA ReverseKeepsLen ==
  ASSUME NEW s \in Seq(Octet)
  PROVE  StrReverse(s) \in Seq(Octet) /\ Len(StrReverse(s)) = Len(s)
<1>1. PICK n, q : Chars(s, n, q) BY CharsExist
<1>2. /\ n \in Nat /\ Len(s) \in Nat /\ q[0] = 0 /\ q[n] = Len(s) /\ Utf8Length(s) = n
      /\ \A i \in Nat : ByteOffsetOfChar(s, i) = q[i]
      /\ \A i \in Nat : q[i] \in 0..Len(s) /\ q[i] \in Nat
  <2>1. Spans(s, n, q, FastUnpack(s)) BY <1>1, CharsSpan
  <2> QED BY <2>1 DEF Spans
<1>3. \A i, j \in 0..n : i <= j => q[i] <= q[j] BY <1>1, CharsAre
<1> DEFINE ss == [i \in 1..n |-> Piece(s, n - i + 1)]  P == Seq(Octet)
<1>4. ASSUME NEW h \in Nat, NEW k \in Nat, k = h + 1, k <= n
      PROVE  Piece(s, k) \in P /\ Len(Piece(s, k)) = q[k] - q[h]
  <2>1. q[h] \in Nat /\ q[k] \in Nat /\ q[h] <= q[k] /\ q[k] <= Len(s) BY <1>2, <1>4, <1>3
  <2>2. Piece(s, k) = Bytes(s, q[h], q[k]) BY <1>4, <1>2 DEF Piece
  <2> DEFINE x == q[h]  y == q[k]
  <2> HIDE DEF x, y
  <2>3. Bytes(s, x, y) \in Seq(Octet) /\ Len(Bytes(s, x, y)) = y - x BY <2>1, BytesIs DEF x, y
  <2> QED BY <2>2, <2>3 DEF x, y
<1>5. ss \in Seq(P) /\ Len(ss) = n /\ \A i \in 1..n, k \in Nat : k = n - i + 1 => ss[i] = Piece(s, k)
  <2>1. ASSUME NEW i \in 1..n PROVE Piece(s, n - i + 1) \in P
    <3> DEFINE h == n - i  k == n - i + 1
    <3>1. h \in Nat /\ k \in Nat /\ k = h + 1 /\ k <= n BY <1>2
    <3> HIDE DEF h, k, P
    <3> QED BY <1>4, <3>1 DEF k
  <2> HIDE DEF P
  <2> QED BY <1>2, <2>1
<1> HIDE DEF ss
<1>6. PICK f : Flat(f, ss, Octet) /\ FlattenSeq(ss) = f[Len(ss)] BY <1>5, Flattens
<1>7. StrReverse(s) = f[n] /\ \A i \in Nat : f[i] \in Seq(Octet) /\ Len(f[i]) \in Nat
  BY <1>2, <1>6, <1>5, LenProperties DEF StrReverse, ss, Flat
<1> DEFINE V(i) == \A h \in Nat : h = n - i => Len(f[i]) = Len(s) - q[h]
           T == {i \in Nat : i <= n => V(i)}
<1>8. 0 \in T
  <2>1. f[0] = <<>> /\ Len(f[0]) = 0 BY <1>6, EmptySeq DEF Flat
  <2>2. V(0) BY <1>2, <2>1
  <2> HIDE DEF V
  <2> QED BY <2>2
<1>9. ASSUME NEW i \in Nat, i \in T PROVE i + 1 \in T
  <2>1. ASSUME i + 1 <= n, NEW h \in Nat, h = n - (i + 1) PROVE Len(f[i + 1]) = Len(s) - q[h]
    <3> DEFINE k == h + 1  j == i + 1
    <3>1. k \in Nat /\ k = h + 1 /\ k <= n /\ k = n - i /\ k = n - j + 1 /\ j \in 1..n /\ i < n /\ i <= n
      BY <1>2, <2>1
    <3>2. Len(f[i]) = Len(s) - q[k] BY <1>9, <3>1
    <3> HIDE DEF k, j, T, V
    <3>3. ss[j] = Piece(s, k) BY <1>5, <3>1
    <3>4. f[i + 1] = f[i] \o Piece(s, k) BY <1>5, <1>6, <3>1, <3>3 DEF Flat, j
    <3>5. Piece(s, k) \in Seq(Octet) /\ Len(Piece(s, k)) = q[k] - q[h] BY <1>4, <3>1
    <3> DEFINE u == f[i]  v == Piece(s, k)  x == Len(s)  y == q[k]  z == q[h]
    <3>6. u \in Seq(Octet) /\ v \in Seq(Octet) /\ Len(u) = x - y /\ Len(v) = y - z /\ f[i + 1] = u \o v
      BY <1>7, <3>2, <3>4, <3>5
    <3>7. x \in Int /\ y \in Int /\ z \in Int BY <1>2, <2>1, <3>1
    <3> HIDE DEF u, v, x, y, z
    <3>8. Len(u \o v) = Len(u) + Len(v) BY <3>6, ConcatProperties
    <3>9. Len(f[i + 1]) = x - z BY <3>6, <3>7, <3>8
    <3> QED BY <3>9 DEF x, z
  <2>2. i + 1 <= n => V(i + 1) BY <2>1
  <2> HIDE DEF V
  <2> QED BY <2>2
<1>10. Nat \subseteq T
  <2> HIDE DEF T
  <2> QED BY <1>8, <1>9, AllNaturals
<1>11. Len(f[n]) = Len(s) BY <1>2, <1>10
<1> QED BY <1>2, <1>7, <1>11

LEMMA ReverseReads ==
  ASSUME NEW s \in Seq(Octet), WellFormed(s)
  PROVE  /\ FastUnpack(StrReverse(s)) = Reverse(FastUnpack(s))
         /\ StrReverse(StrReverse(s)) = s
<1> DEFINE c == FastUnpack(s)
<1>1. c \in Seq(Scalars) /\ FastPack(c) = s
  <2>1. PICK n, q : Chars(s, n, q) BY CharsExist
  <2> QED BY <2>1, UnpackChars DEF WellFormed
<1> HIDE DEF c
<1>2. StrReverse(s) = FastPack(Reverse(c)) /\ Reverse(c) \in Seq(Scalars)
  BY <1>1, ReversePacks, ReversedIs
<1>3. FastUnpack(FastPack(Reverse(c))) = Reverse(c) BY <1>2, PackChars
<1>4. StrReverse(FastPack(Reverse(c))) = FastPack(Reverse(Reverse(c))) BY <1>2, ReversePacks
<1>5. FastPack(Reverse(Reverse(c))) = s BY <1>1, ReversedTwice
<1> QED BY <1>2, <1>3, <1>4, <1>5 DEF c

LEMMA StrLenIs ==
  ASSUME NEW S, NEW s \in Seq(S)
  PROVE  /\ StrLen(s) \in Nat /\ StrLen(s) <= Len(s)
         /\ \A i \in 1..StrLen(s) : s[i] # 0
         /\ StrLen(s) < Len(s) => s[StrLen(s) + 1] = 0
<1> DEFINE Is(n) == (\A i \in 1..n : s[i] # 0) /\ (n < Len(s) => s[n + 1] = 0)
           T == {n \in Nat : n <= Len(s) /\ \A i \in 1..n : s[i] # 0}
<1>1. Len(s) \in Nat BY LenProperties
<1>2. \E n \in 0..Len(s) : Is(n)
  <2> SUFFICES ASSUME \A n \in 0..Len(s) : ~Is(n) PROVE FALSE OBVIOUS
  <2>1. 0 \in T BY <1>1
  <2>2. ASSUME NEW n \in Nat, n \in T PROVE n + 1 \in T
    <3>1. n \in 0..Len(s) /\ \A i \in 1..n : s[i] # 0 BY <1>1, <2>2
    <3>2. ~Is(n) BY <3>1
    <3>3. n < Len(s) /\ s[n + 1] # 0 BY <3>1, <3>2
    <3> DEFINE m == n + 1
    <3>4. m \in Nat /\ m <= Len(s) /\ \A i \in 1..m : i \in 1..n \/ i = m BY <1>1, <3>1, <3>3
    <3> HIDE DEF m
    <3>5. \A i \in 1..m : s[i] # 0 BY <3>1, <3>3, <3>4 DEF m
    <3>6. m \in T BY <3>4, <3>5
    <3> QED BY <3>6 DEF m
  <2>3. Nat \subseteq T
    <3> HIDE DEF T
    <3> QED BY <2>1, <2>2, AllNaturals
  <2> DEFINE m == Len(s) + 1
  <2>4. m \in Nat /\ ~ m <= Len(s) BY <1>1
  <2> HIDE DEF m
  <2> QED BY <2>3, <2>4
<1>3. StrLen(s) = CHOOSE n \in 0..Len(s) : Is(n) BY DEF StrLen
<1>4. StrLen(s) \in 0..Len(s) /\ Is(StrLen(s))
  <2> HIDE DEF Is
  <2> QED BY <1>2, <1>3
<1> QED BY <1>1, <1>4

\* A loop over an iterator that goes from character to character sees them all.
Leads(next, q, n, c) ==
  /\ next[q[n]] = <<>>
  /\ \A i \in Nat, j \in Nat : i < n /\ j = i + 1 => next[q[i]] = <<[cp |-> c[j], pos |-> q[j]]>>

Listed(c, n) == [i \in 1..n |-> c[i]]

LEMMA Iterates ==
  ASSUME NEW s \in Seq(Octet), NEW n \in Nat, n <= Len(s), NEW q, q[0] = 0, NEW next, NEW c, Leads(next, q, n, c)
  PROVE  Iterate(s, next) = Listed(c, n)
<1> DEFINE L == Len(s)
           Right(f) == f = [i \in 0..L |-> IF i = 0 THEN 0
                                           ELSE IF next[f[i - 1]] = <<>> THEN f[i - 1] ELSE next[f[i - 1]][1].pos]
           g == CHOOSE f : Right(f)
           Stops(k) == next[g[k]] = <<>> /\ \A i \in 0..k - 1 : next[g[i]] # <<>>
           u == CHOOSE k \in 0..L : Stops(k)
<1>1. Iterate(s, next) = [i \in 1..u |-> next[g[i - 1]][1].cp] BY DEF Iterate
<1>2. L \in Nat /\ n <= L BY LenProperties
<1>3. /\ next[q[n]] = <<>>
      /\ \A i \in Nat, j \in Nat : i < n /\ j = i + 1 => next[q[i]] = <<[cp |-> c[j], pos |-> q[j]]>>
  BY DEF Leads
<1>4. \A i \in Nat, j \in Nat : i < n /\ j = i + 1 =>
        next[q[i]] # <<>> /\ next[q[i]][1].pos = q[j] /\ next[q[i]][1].cp = c[j]
  <2> SUFFICES ASSUME NEW i \in Nat, NEW j \in Nat, i < n /\ j = i + 1
               PROVE  next[q[i]] # <<>> /\ next[q[i]][1].pos = q[j] /\ next[q[i]][1].cp = c[j]
    OBVIOUS
  <2> DEFINE r == [cp |-> c[j], pos |-> q[j]]
  <2>1. next[q[i]] = <<r>> BY <1>3
  <2>2. r.pos = q[j] /\ r.cp = c[j] OBVIOUS
  <2> HIDE DEF r
  <2>3. <<r>> # <<>> /\ <<r>>[1] = r OBVIOUS
  <2> QED BY <2>1, <2>2, <2>3
<1> HIDE DEF L
<1>5. \E f : Right(f)
  <2> DEFINE p == [i \in Nat |-> IF i <= n THEN q[i] ELSE q[n]]
             f == [i \in 0..L |-> p[i]]
  <2>1. ASSUME NEW i \in 1..L, NEW j \in Nat, i = j + 1
        PROVE  p[i] = IF next[p[j]] = <<>> THEN p[j] ELSE next[p[j]][1].pos
    <3>1. CASE j < n
      <4>1. p[i] = q[i] /\ p[j] = q[j] /\ i \in Nat BY <1>2, <2>1, <3>1
      <4> HIDE DEF p
      <4>2. next[q[j]] # <<>> /\ next[q[j]][1].pos = q[i] BY <1>4, <2>1, <3>1, <4>1
      <4> QED BY <4>1, <4>2
    <3>2. CASE ~ j < n
      <4>1. p[i] = q[n] /\ p[j] = q[n] BY <1>2, <2>1, <3>2
      <4> HIDE DEF p
      <4> QED BY <1>3, <4>1
    <3> QED BY <3>1, <3>2
  <2>2. p[0] = 0 BY <1>2
  <2> HIDE DEF p
  <2>3. ASSUME NEW i \in 0..L
        PROVE f[i] = IF i = 0 THEN 0
                     ELSE IF next[f[i - 1]] = <<>> THEN f[i - 1] ELSE next[f[i - 1]][1].pos
    <3>1. CASE i = 0 BY <1>2, <2>2, <3>1
    <3>2. CASE i # 0
      <4> DEFINE j == i - 1
      <4>1. j \in Nat /\ i = j + 1 /\ j \in 0..L /\ i \in 1..L BY <1>2, <3>2
      <4> HIDE DEF j
      <4>2. f[i] = p[i] /\ f[j] = p[j] BY <4>1
      <4> HIDE DEF f
      <4>3. p[i] = IF next[p[j]] = <<>> THEN p[j] ELSE next[p[j]][1].pos BY <2>1, <4>1
      <4> QED BY <3>2, <4>2, <4>3 DEF j
    <3> QED BY <3>1, <3>2
  <2>4. Right(f) BY <2>3
  <2> HIDE DEF f, Right
  <2> QED BY <2>4
<1>6. Right(g)
  <2> HIDE DEF Right
  <2> QED BY <1>5
<1> HIDE DEF g
<1>7. g[0] = 0 /\ \A i \in 1..L, j \in Nat : i = j + 1 =>
                    g[i] = IF next[g[j]] = <<>> THEN g[j] ELSE next[g[j]][1].pos
  <2>1. \A i \in 0..L : g[i] = IF i = 0 THEN 0
                     ELSE IF next[g[i - 1]] = <<>> THEN g[i - 1] ELSE next[g[i - 1]][1].pos
    BY <1>6
  <2>2. g[0] = 0 BY <1>2, <2>1
  <2>3. ASSUME NEW i \in 1..L, NEW j \in Nat, i = j + 1
        PROVE g[i] = IF next[g[j]] = <<>> THEN g[j] ELSE next[g[j]][1].pos
    BY <1>2, <2>3, <2>1
  <2> QED BY <2>2, <2>3
<1> HIDE DEF Right
<1> DEFINE T == {i \in Nat : i <= n => g[i] = q[i]}
<1>8. 0 \in T BY <1>7
<1>9. ASSUME NEW i \in Nat, i \in T PROVE i + 1 \in T
  <2>1. ASSUME i + 1 <= n PROVE g[i + 1] = q[i + 1]
    <3> DEFINE k == i + 1
    <3>1. k \in 1..L /\ k \in Nat /\ k = i + 1 /\ i < n /\ g[i] = q[i] BY <1>2, <1>9, <2>1
    <3> HIDE DEF k
    <3>2. g[k] = IF next[g[i]] = <<>> THEN g[i] ELSE next[g[i]][1].pos BY <1>7, <3>1
    <3>3. next[q[i]] # <<>> /\ next[q[i]][1].pos = q[k] BY <1>4, <3>1
    <3> QED BY <3>1, <3>2, <3>3 DEF k
  <2> QED BY <2>1
<1>10. \A i \in Nat : i <= n => g[i] = q[i]
  <2>1. Nat \subseteq T
    <3> HIDE DEF T
    <3> QED BY <1>8, <1>9, AllNaturals
  <2> QED BY <2>1
<1>11. \A i \in Nat : i < n => next[g[i]] # <<>>
  <2> SUFFICES ASSUME NEW i \in Nat, i < n PROVE next[g[i]] # <<>> OBVIOUS
  <2> DEFINE j == i + 1
  <2>1. j \in Nat /\ j = i + 1 /\ i <= n OBVIOUS
  <2> HIDE DEF j
  <2> QED BY <1>4, <1>10, <2>1
<1>12. next[g[n]] = <<>> BY <1>3, <1>10
<1>13. u = n
  <2>1. n \in 0..L /\ Stops(n) BY <1>2, <1>11, <1>12
  <2>2. u \in 0..L /\ Stops(u)
    <3> HIDE DEF Stops
    <3> QED BY <2>1
  <2> HIDE DEF u
  <2>3. ~ u < n BY <1>2, <1>11, <2>2
  <2>4. ~ n < u BY <1>2, <1>12, <2>2
  <2> QED BY <1>2, <2>2, <2>3, <2>4
<1> HIDE DEF u
<1>14. ASSUME NEW i \in 1..n PROVE next[g[i - 1]][1].cp = c[i]
  <2> DEFINE j == i - 1
  <2>1. j \in Nat /\ j < n /\ i = j + 1 /\ j <= n /\ i \in Nat OBVIOUS
  <2> HIDE DEF j
  <2>2. next[g[j]][1].cp = c[i] BY <1>4, <1>10, <2>1
  <2> QED BY <2>2 DEF j
<1> QED BY <1>1, <1>13, <1>14 DEF Listed

LEMMA FixedIterates ==
  ASSUME NEW s \in Seq(Octet)
  PROVE  Iterate(s, [p \in 0..Len(s) |-> IteratorNextFixed(s, p)]) = FastUnpack(s)
<1> DEFINE c == FastUnpack(s)  next == [p \in 0..Len(s) |-> IteratorNextFixed(s, p)]
<1>1. PICK n, q : Chars(s, n, q) BY CharsExist
<1>2. /\ n \in Nat /\ Len(s) \in Nat /\ n <= Len(s) /\ q[0] = 0 /\ q[n] = Len(s)
      /\ \A i \in Nat : q[i] \in 0..Len(s) /\ q[i] \in Nat /\ q[i + 1] = Advance(s, q[i])
      /\ c \in Seq(Scalars) /\ Len(c) = n
      /\ \A i \in 1..n : c[i] = DecodeAt(s, q[i - 1]).cp
  <2>1. Spans(s, n, q, c) BY <1>1, CharsSpan
  <2> QED BY <2>1 DEF Spans
<1>3. \A i \in 0..n - 1 : q[i] < Len(s) BY <1>1 DEF Chars
<1> HIDE DEF c
<1>4. next[q[n]] = <<>> BY <1>2 DEF IteratorNextFixed
<1>5. ASSUME NEW i \in Nat, NEW j \in Nat, i < n /\ j = i + 1
      PROVE  next[q[i]] = <<[cp |-> c[j], pos |-> q[j]]>>
  <2> DEFINE o == q[i]
  <2>1. o < Len(s) /\ o \in 0..Len(s) /\ ~ o >= Len(s)
    <3>1. i \in 0..n - 1 BY <1>2, <1>5
    <3>2. q[i] < Len(s) /\ q[i] \in 0..Len(s) /\ q[i] \in Nat BY <1>2, <1>3, <3>1
    <3> HIDE DEF o
    <3>3. o < Len(s) /\ o \in 0..Len(s) /\ o \in Nat BY <3>2 DEF o
    <3> QED BY <1>2, <3>3
  <2>2. q[j] = Advance(s, o) BY <1>2, <1>5
  <2>3. c[j] = DecodeAt(s, o).cp
    <3>1. j \in 1..n /\ j - 1 = i BY <1>2, <1>5
    <3> QED BY <1>2, <3>1
  <2> HIDE DEF o
  <2>4. next[o] = IteratorNextFixed(s, o) BY <2>1
  <2>5. next[o] = <<[cp |-> DecodeAt(s, o).cp, pos |-> o + DecodeAt(s, o).used]>>
    BY <2>1, <2>4 DEF IteratorNextFixed
  <2>6. q[j] = o + DecodeAt(s, o).used BY <2>1, <2>2 DEF Advance
  <2> QED BY <2>3, <2>5, <2>6 DEF o
<1> HIDE DEF next
<1>6. Leads(next, q, n, c) BY <1>4, <1>5 DEF Leads
<1>7. Iterate(s, next) = Listed(c, n)
  <2>1. n \in Nat /\ n <= Len(s) /\ q[0] = 0 BY <1>2
  <2> QED BY <1>6, <2>1, Iterates
<1>8. c = Listed(c, n) BY <1>2, LenProperties DEF Listed
<1> QED BY <1>7, <1>8 DEF c, next

\* The iterator that ends at a NUL sees the characters before it.
LEMMA NulDecodes ==
  ASSUME NEW s \in Seq(Octet), NEW z, z = StrLen(s), NEW o \in Nat, o < z
  PROVE  DecodeAtNul(s, o) = DecodeAt(Bytes(s, 0, z), o)
<1> DEFINE t == Bytes(s, 0, z)  a == z - o  b == IF a < 4 THEN a ELSE 4  l == Len(t)
           d == DecodeBounded(t, o, a)  w == d.used
<1>1. z \in Nat /\ z <= Len(s) /\ Len(s) \in Nat BY StrLenIs, LenProperties
<1>2. t \in Seq(Octet) /\ l = z /\ l \in Nat
  <2>1. 0 <= z /\ 0 \in Nat /\ z - 0 = z BY <1>1
  <2>2. t \in Seq(Octet) /\ Len(t) = z - 0 BY <1>1, <2>1, BytesIs
  <2> HIDE DEF t
  <2> QED BY <1>1, <2>1, <2>2
<1>3. a \in Nat \ {0} /\ b \in Nat \ {0} /\ b <= a /\ o + a = z /\ o + b <= z /\ (b = a \/ b = 4)
  BY <1>1
<1>4. SameBytes(t, o, a, s, o, b)
  <2>1. SameBytes(s, o, a, t, o, b)
    <3>1. 0 <= o /\ 0 <= z /\ o = o - 0 /\ b <= z - o /\ a \in Nat /\ b \in Nat BY <1>1, <1>3
    <3> HIDE DEF a, b
    <3> QED BY <1>1, <3>1, CutBytes
  <2> HIDE DEF a, b, t
  <2> QED BY <2>1 DEF SameBytes
<1> HIDE DEF t, l
<1>5. w \in 1..4 /\ w <= a
  <2>1. o + a <= Len(t) BY <1>2, <1>3 DEF l
  <2> HIDE DEF a
  <2>2. a \in Nat \ {0} BY <1>3
  <2> QED BY <1>2, <2>1, <2>2, Decodes
<1> HIDE DEF d, w
<1>6. w <= b BY <1>3, <1>5
<1> HIDE DEF a, b
<1>7. DecodeBounded(s, o, b) = DecodeBounded(t, o, a)
  <2>1. DecodeBounded(t, o, a).used <= b BY <1>6 DEF w, d
  <2>2. o + a <= Len(t) /\ o + b <= Len(s) BY <1>1, <1>2, <1>3 DEF l
  <2> QED BY <1>2, <1>3, <1>4, <2>1, <2>2, DecodesAlike
<1>8. DecodeAt(t, o) = DecodeBounded(t, o, a)
  <2>1. l - o = a /\ ~ o >= l BY <1>1, <1>2 DEF a
  <2> QED BY <2>1 DEF DecodeAt, l
<1> QED BY <1>7, <1>8 DEF DecodeAtNul, a, b, t

LEMMA NulIterates ==
  ASSUME NEW s \in Seq(Octet)
  PROVE  Iterate(s, [p \in 0..Len(s) |-> IteratorNext(s, p)]) = FastUnpack(Bytes(s, 0, StrLen(s)))
<1> DEFINE z == StrLen(s)  t == Bytes(s, 0, z)  c == FastUnpack(t)
           next == [p \in 0..Len(s) |-> IteratorNext(s, p)]
<1>1. /\ z \in Nat /\ z <= Len(s) /\ Len(s) \in Nat
      /\ \A i \in 1..z : s[i] # 0
      /\ z < Len(s) => s[z + 1] = 0
  BY StrLenIs, LenProperties
<1> HIDE DEF z
<1>2. t \in Seq(Octet) /\ Len(t) = z BY <1>1, BytesIs
<1> HIDE DEF t
<1>3. PICK n, q : Chars(t, n, q) BY <1>2, CharsExist
<1>4. /\ n \in Nat /\ n <= z /\ q[0] = 0 /\ q[n] = z
      /\ \A i \in Nat : q[i] \in 0..z /\ q[i] \in Nat /\ q[i + 1] = Advance(t, q[i])
      /\ c \in Seq(Scalars) /\ Len(c) = n
      /\ \A i \in 1..n : c[i] = DecodeAt(t, q[i - 1]).cp
  <2>1. Spans(t, n, q, c) BY <1>2, <1>3, CharsSpan
  <2> QED BY <1>2, <2>1 DEF Spans
<1>5. \A i \in 0..n - 1 : q[i] < z BY <1>2, <1>3 DEF Chars
<1> HIDE DEF c
<1>6. next[q[n]] = <<>> BY <1>1, <1>4 DEF At, IteratorNext
<1>7. ASSUME NEW i \in Nat, NEW j \in Nat, i < n /\ j = i + 1
      PROVE  next[q[i]] = <<[cp |-> c[j], pos |-> q[j]]>>
  <2> DEFINE o == q[i]
  <2>1. o < z /\ o \in Nat
    <3>1. i \in 0..n - 1 BY <1>4, <1>7
    <3> QED BY <1>4, <1>5, <3>1
  <2>2. q[j] = Advance(t, o) BY <1>4, <1>7
  <2>3. c[j] = DecodeAt(t, o).cp
    <3>1. j \in 1..n /\ j - 1 = i BY <1>4, <1>7
    <3> QED BY <1>4, <3>1
  <2> HIDE DEF o
  <2>4. o \in 0..Len(s) /\ ~ o >= Len(s) /\ o + 1 \in 1..z BY <1>1, <2>1
  <2>5. next[o] = IteratorNext(s, o) /\ At(s, o) # 0 BY <1>1, <2>4 DEF At
  <2>6. DecodeAtNul(s, o) = DecodeAt(t, o) BY <2>1, NulDecodes DEF z, t
  <2>7. next[o] = <<[cp |-> DecodeAt(t, o).cp, pos |-> o + DecodeAt(t, o).used]>>
    BY <2>4, <2>5, <2>6 DEF IteratorNext
  <2>8. q[j] = o + DecodeAt(t, o).used BY <1>2, <2>1, <2>2 DEF Advance
  <2> QED BY <2>3, <2>7, <2>8 DEF o
<1> HIDE DEF next
<1>8. Leads(next, q, n, c) BY <1>6, <1>7 DEF Leads
<1>9. Iterate(s, next) = Listed(c, n)
  <2>1. n \in Nat /\ n <= Len(s) /\ q[0] = 0 BY <1>1, <1>4
  <2> QED BY <1>8, <2>1, Iterates
<1>10. c = Listed(c, n) BY <1>4, LenProperties DEF Listed
<1> QED BY <1>9, <1>10 DEF c, next, t, z

LEMMA PrefixCut ==
  ASSUME NEW s \in Seq(Octet), NEW x \in Nat, NEW y \in Nat, x <= y, y <= Len(s)
  PROVE  Len(Bytes(s, x, y)) <= Len(s) /\ IsPrefix(Bytes(s, x, y), Bytes(s, x, Len(s)))
<1> DEFINE l == Len(s)  t == Bytes(s, x, y)  w == Bytes(s, x, l)  k == y - x
<1>1. l \in Nat /\ x <= l /\ y <= l /\ k \in Nat /\ k <= l - x BY LenProperties
<1> HIDE DEF l
<1>2. /\ t \in Seq(Octet) /\ Len(t) = y - x /\ \A i \in 1..y - x : t[i] = s[x + i]
      /\ w \in Seq(Octet) /\ Len(w) = l - x /\ \A i \in 1..l - x : w[i] = s[x + i]
  <2>1. l = Len(s) BY DEF l
  <2>2. t \in Seq(Octet) /\ Len(t) = y - x /\ \A i \in 1..y - x : t[i] = s[x + i] BY BytesIs
  <2> HIDE DEF t
  <2>3. w \in Seq(Octet) /\ Len(w) = l - x /\ \A i \in 1..l - x : w[i] = s[x + i]
    <3>1. l <= Len(s) BY <1>1, <2>1
    <3> QED BY <1>1, <3>1, BytesIs
  <2> HIDE DEF w
  <2> QED BY <2>2, <2>3
<1> HIDE DEF t, w
<1>3. SubSeq(t, 1, k) = t BY <1>2, SubSeqFull
<1>4. /\ SubSeq(w, 1, k) \in Seq(Octet)
      /\ Len(SubSeq(w, 1, k)) = k
      /\ \A i \in 1..k : SubSeq(w, 1, k)[i] = w[i]
  <2>1. \A i \in 1..k : w[i] \in Octet BY <1>1, <1>2, ElementOfSeq
  <2> HIDE DEF k
  <2>2. /\ SubSeq(w, 1, k) \in Seq(Octet)
        /\ Len(SubSeq(w, 1, k)) = IF 1 <= k THEN k - 1 + 1 ELSE 0
        /\ \A i \in 1..k - 1 + 1 : SubSeq(w, 1, k)[i] = w[1 + i - 1]
    BY <1>1, <2>1, SubSeqProperties
  <2> QED BY <1>1, <2>2
<1>5. t = SubSeq(w, 1, k)
  <2> DEFINE v == SubSeq(w, 1, k)
  <2>1. v \in Seq(Octet) /\ Len(v) = Len(t) BY <1>2, <1>4
  <2>2. \A i \in 1..Len(t) : t[i] = v[i]
    <3> SUFFICES ASSUME NEW i \in 1..Len(t) PROVE t[i] = v[i] OBVIOUS
    <3>1. i \in 1..y - x /\ i \in 1..k /\ i \in 1..l - x BY <1>1, <1>2
    <3>2. t[i] = s[x + i] /\ w[i] = s[x + i] BY <1>2, <3>1
    <3>3. v[i] = w[i] BY <1>4, <3>1
    <3> QED BY <3>2, <3>3
  <2> HIDE DEF v
  <2> QED BY <1>2, <2>1, <2>2, SeqEqual DEF v
<1>6. Len(t) = k /\ k <= Len(w) /\ k <= l BY <1>1, <1>2
<1> HIDE DEF k
<1>7. IsPrefix(t, w) BY <1>3, <1>5, <1>6 DEF IsPrefix
<1> QED BY <1>6, <1>7 DEF t, w, l

LEMMA SliceIs ==
  ASSUME NEW s \in Seq(Octet), NEW i \in Int, NEW k \in Int
  PROVE  LET t == ByteSlice(s, i, k)
         IN Len(t) <= Len(s) /\ (k >= 0 => IsPrefix(t, SubSeq(s, (IF i < 0 THEN 0 ELSE i) + 1, Len(s))))
<1> DEFINE l == Len(s)
           x == IF i < 0 THEN 0 ELSE IF i > l THEN l ELSE i
           d == IF k < 0 THEN 0 ELSE IF k > l - x THEN l - x ELSE k
           a == IF i < 0 THEN 0 ELSE i
           y == x + d
<1>1. l \in Nat BY LenProperties
<1> HIDE DEF l
<1>2. x \in Nat /\ x <= l /\ a \in Nat /\ (a <= l => x = a) /\ (a > l => x = l) BY <1>1
<1>3. ByteSlice(s, i, k) = Bytes(s, x, y) BY DEF ByteSlice, l
<1> HIDE DEF x, a
<1>4. y \in Nat /\ x <= y /\ y <= l BY <1>1, <1>2
<1> HIDE DEF y
<1>5. Len(Bytes(s, x, y)) <= Len(s) /\ IsPrefix(Bytes(s, x, y), Bytes(s, x, Len(s)))
  BY <1>2, <1>4, PrefixCut DEF l
<1>6. Bytes(s, x, l) = SubSeq(s, a + 1, l)
  <2>1. CASE a <= l BY <1>2, <2>1 DEF Bytes
  <2>2. CASE a > l BY <1>1, <1>2, <2>2, SubSeqEmpty DEF Bytes
  <2> QED BY <1>1, <1>2, <2>1, <2>2
<1> QED BY <1>3, <1>5, <1>6 DEF l, a

LEMMA ActsSo ==
  ASSUME NEW s \in Seq(Octet)
  PROVE  ActsOnCharacters(s)
<1>1. Len(s) \in Nat /\ Len(FastUnpack(s)) \in Nat
  <2>1. PICK n, q : Chars(s, n, q) BY CharsExist
  <2>2. Len(FastUnpack(s)) = n /\ n \in Nat BY <2>1, UnpackChars
  <2> QED BY <2>2, LenProperties
<1>2. \A i \in -1..Len(FastUnpack(s)) :
         StrIndex(s, i) = IF i \in 0..Len(FastUnpack(s)) - 1 THEN FastUnpack(s)[i + 1] ELSE Replacement
  BY IndexReads
<1>3. \A i, n \in -1..Len(FastUnpack(s)) + 1 :
          FastUnpack(StrSubstr(i, n, s)) =
            IF i < 0 \/ n < 0 THEN <<>>
            ELSE SubSeq(FastUnpack(s), i + 1, IF i + n < Len(FastUnpack(s)) THEN i + n ELSE Len(FastUnpack(s)))
  BY SubstrCuts
<1>4. WellFormed(s) => /\ FastUnpack(StrReverse(s)) = Reverse(FastUnpack(s))
                       /\ StrReverse(StrReverse(s)) = s
  BY ReverseReads
<1>5. \A i, n \in -1..Len(s) + 1 :
         LET t == ByteSlice(s, i, n)
         IN Len(t) <= Len(s) /\ (n >= 0 => IsPrefix(t, SubSeq(s, (IF i < 0 THEN 0 ELSE i) + 1, Len(s))))
  BY <1>1, SliceIs
<1> QED
  BY <1>2, <1>3, <1>4, <1>5, TailCuts, ReverseKeepsLen, FixedIterates, NulIterates DEF ActsOnCharacters

LEMMA CharactersSo ==
  ASSUME NEW s \in Seq(Octet)
  PROVE  CharactersOf(s)
<1> DEFINE c == FastUnpack(s)
<1>1. PICK n, q : Chars(s, n, q) BY CharsExist
<1>2. /\ n \in Nat /\ Len(s) \in Nat /\ q[0] = 0 /\ q[n] = Len(s)
      /\ \A i \in Nat : q[i] \in 0..Len(s) /\ q[i] \in Nat
      /\ \A i \in Nat : ByteOffsetOfChar(s, i) = q[i]
      /\ c \in Seq(Scalars) /\ Len(c) = n
      /\ \A i \in 1..n : c[i] = DecodeAt(s, q[i - 1]).cp
  <2>1. Spans(s, n, q, c) BY <1>1, CharsSpan
  <2> QED BY <2>1 DEF Spans
<1>3. WellFormed(s) => \A i \in 1..n : Bytes(s, q[i - 1], q[i]) = EncodeInto(c[i])
  BY <1>1, UnpackChars
<1> HIDE DEF c
<1>4. FastUnpack(FastPack(c)) = c BY <1>2, PackChars
<1>5. ASSUME WellFormed(s), s # <<>> PROVE StrCons(StrHead(s), StrTail(s)) = s
  <2> DEFINE u == q[1]  l == Len(s)
  <2>1. l # 0 /\ n # 0 BY <1>5, EmptySeq, <1>2
  <2>2. 1 \in 1..n /\ 1 - 1 = 0 BY <1>2, <2>1
  <2>3. Bytes(s, 0, u) = EncodeInto(c[1]) /\ c[1] = DecodeAt(s, 0).cp BY <1>2, <1>3, <1>5, <2>2
  <2>4. StrHead(s) = c[1] BY <2>1, <2>3 DEF StrHead
  <2>5. StrTail(s) = Bytes(s, u, l) BY <1>2 DEF StrTail
  <2>6. u \in 0..l /\ l \in Nat BY <1>2
  <2> HIDE DEF u
  <2>7. Bytes(s, 0, u) \o Bytes(s, u, l) = s
    <3> DEFINE m == 1
    <3>1. m \in 1..Len(s) + 1 /\ u \in m - 1..Len(s) /\ Len(s) \in u..Len(s) BY <2>6
    <3> HIDE DEF m
    <3>2. SubSeq(s, m, u) \o SubSeq(s, u + 1, Len(s)) = SubSeq(s, m, Len(s))
      BY <3>1, ConcatAdjacentSubSeq
    <3>3. SubSeq(s, 1, Len(s)) = s /\ 0 + 1 = 1 BY SubSeqFull
    <3> QED BY <3>2, <3>3 DEF m, Bytes
  <2> QED BY <2>3, <2>4, <2>5, <2>7 DEF StrCons
<1> QED BY <1>4, <1>5 DEF CharactersOf, c

LEMMA SurvivesSo ==
  ASSUME NEW cp \in Scalars, NEW rest \in Seq(Octet)
  PROVE  ScalarSurvives(cp, rest)
<1> DEFINE e == EncodeInto(cp)  s == e \o rest  l == Len(s)  m == Len(e)
<1>1. e \in Seq(Octet) /\ m \in 1..4 BY Encodes DEF Scalars
<1>2. Len(rest) \in Nat BY LenProperties
<1>3. /\ s \in Seq(Octet) /\ l = m + Len(rest)
      /\ \A i \in 1..m + Len(rest) : s[i] = IF i <= m THEN e[i] ELSE rest[i - m]
  <2> HIDE DEF e
  <2> QED BY <1>1, ConcatProperties
<1> HIDE DEF e, s, l, m
<1>4. l \in Nat \ {0} /\ m <= l BY <1>1, <1>2, <1>3
<1>5. DecodeBounded(s, 0, l) = [cp |-> cp, used |-> m]
  <2>1. \A i \in 1..Len(EncodeInto(cp)) : s[0 + i] = EncodeInto(cp)[i] BY <1>1, <1>2, <1>3 DEF e, m
  <2>2. 0 + l <= Len(s) /\ Len(EncodeInto(cp)) <= l /\ 0 \in Nat BY <1>4 DEF l, m, e
  <2>3. DecodeBounded(s, 0, l) = [cp |-> cp, used |-> Len(EncodeInto(cp))]
    BY <1>3, <1>4, <2>1, <2>2, Survives
  <2> QED BY <2>3 DEF m, e
<1>6. DecodeAt(s, 0) = DecodeBounded(s, 0, l)
  <2>1. ~ 0 >= l /\ l - 0 = l BY <1>4
  <2> QED BY <2>1 DEF DecodeAt, l
<1> QED BY <1>5, <1>6 DEF ScalarSurvives, s, e, m

\* One sequence sorts before another at a place, said place by place.
Below(x, y, i) ==
  /\ i \in Nat \ {0} /\ i <= Len(y) /\ i <= Len(x) + 1
  /\ \A j \in 1..i - 1 : x[j] = y[j]
  /\ i <= Len(x) => x[i] < y[i]

LEMMA LessIs ==
  ASSUME NEW x \in Seq(Int), NEW y \in Seq(Int)
  PROVE  LessThan(x, y) <=> \E i : Below(x, y, i)
<1>1. Len(x) \in Nat /\ Len(y) \in Nat BY LenProperties
<1>2. ASSUME NEW k \in Nat, k <= Len(x), k <= Len(y)
      PROVE  SubSeq(x, 1, k) = SubSeq(y, 1, k) <=> \A j \in 1..k : x[j] = y[j]
  <2>1. \A z \in Seq(Int) : k <= Len(z) => /\ SubSeq(z, 1, k) \in Seq(Int) /\ Len(SubSeq(z, 1, k)) = k
                                           /\ \A j \in 1..k : SubSeq(z, 1, k)[j] = z[j]
    <3> SUFFICES ASSUME NEW z \in Seq(Int), k <= Len(z)
                 PROVE  /\ SubSeq(z, 1, k) \in Seq(Int) /\ Len(SubSeq(z, 1, k)) = k
                        /\ \A j \in 1..k : SubSeq(z, 1, k)[j] = z[j]
      OBVIOUS
    <3>1. \A j \in 1..k : z[j] \in Int BY LenProperties, ElementOfSeq
    <3>2. /\ SubSeq(z, 1, k) \in Seq(Int)
          /\ Len(SubSeq(z, 1, k)) = IF 1 <= k THEN k - 1 + 1 ELSE 0
          /\ \A j \in 1..k - 1 + 1 : SubSeq(z, 1, k)[j] = z[1 + j - 1]
      BY <3>1, SubSeqProperties
    <3> QED BY <3>2
  <2> DEFINE u == SubSeq(x, 1, k)  v == SubSeq(y, 1, k)
  <2>2. /\ u \in Seq(Int) /\ Len(u) = k /\ \A j \in 1..k : u[j] = x[j]
        /\ v \in Seq(Int) /\ Len(v) = k /\ \A j \in 1..k : v[j] = y[j]
    BY <1>2, <2>1
  <2> HIDE DEF u, v
  <2>3. ASSUME u = v, NEW j \in 1..k PROVE x[j] = y[j] BY <2>2, <2>3
  <2>4. ASSUME \A j \in 1..k : x[j] = y[j] PROVE u = v BY <2>2, <2>4, SeqEqual
  <2> QED BY <2>3, <2>4 DEF u, v
<1>3. ASSUME NEW i \in 1..Len(y), SubSeq(x, 1, i - 1) = SubSeq(y, 1, i - 1),
             Len(x) = i - 1 \/ (Len(x) >= i /\ x[i] < y[i])
      PROVE  Below(x, y, i)
  <2> DEFINE k == i - 1
  <2>1. k \in Nat /\ k <= Len(x) /\ k <= Len(y) /\ i \in Nat \ {0} /\ i <= Len(y) /\ i <= Len(x) + 1
        /\ (i <= Len(x) => x[i] < y[i])
    BY <1>1, <1>3
  <2>2. \A j \in 1..k : x[j] = y[j] BY <1>2, <1>3, <2>1
  <2> QED BY <2>1, <2>2 DEF Below
<1>4. ASSUME NEW i, Below(x, y, i)
      PROVE  /\ i \in 1..Len(y) /\ SubSeq(x, 1, i - 1) = SubSeq(y, 1, i - 1)
             /\ Len(x) = i - 1 \/ (Len(x) >= i /\ x[i] < y[i])
  <2>1. /\ i \in Nat \ {0} /\ i <= Len(y) /\ i <= Len(x) + 1
        /\ \A j \in 1..i - 1 : x[j] = y[j]
        /\ i <= Len(x) => x[i] < y[i]
    BY <1>4 DEF Below
  <2> DEFINE k == i - 1
  <2>2. k \in Nat /\ k <= Len(x) /\ k <= Len(y) /\ i \in 1..Len(y) /\ (Len(x) = k \/ Len(x) >= i)
    BY <1>1, <2>1
  <2>3. SubSeq(x, 1, k) = SubSeq(y, 1, k) BY <1>2, <2>1, <2>2
  <2> HIDE DEF k
  <2>4. Len(x) >= i => x[i] < y[i] BY <1>1, <2>1
  <2> QED BY <2>2, <2>3, <2>4 DEF k
<1>5. ASSUME LessThan(x, y) PROVE \E i : Below(x, y, i)
  <2>1. PICK i \in 1..Len(y) : /\ SubSeq(x, 1, i - 1) = SubSeq(y, 1, i - 1)
                               /\ Len(x) = i - 1 \/ (Len(x) >= i /\ x[i] < y[i])
    BY <1>5 DEF LessThan
  <2> QED BY <1>3, <2>1
<1>6. ASSUME \E i : Below(x, y, i) PROVE LessThan(x, y)
  <2>1. PICK i : Below(x, y, i) BY <1>6
  <2> QED BY <1>4, <2>1 DEF LessThan
<1> QED BY <1>5, <1>6

\* Two sequences are the same, or sort one before the other, and not both ways.
LEMMA FirstDifference ==
  ASSUME NEW x \in Seq(Int), NEW y \in Seq(Int)
  PROVE  \E i \in Nat \ {0} : /\ i <= Len(x) + 1 /\ i <= Len(y) + 1
                              /\ \A j \in 1..i - 1 : x[j] = y[j]
                              /\ i <= Len(x) /\ i <= Len(y) => x[i] # y[i]
<1> DEFINE First(i) == /\ i <= Len(x) + 1 /\ i <= Len(y) + 1
                       /\ \A j \in 1..i - 1 : x[j] = y[j]
                       /\ i <= Len(x) /\ i <= Len(y) => x[i] # y[i]
           T == {m \in Nat : m <= Len(x) /\ m <= Len(y) /\ \A j \in 1..m : x[j] = y[j]}
<1>1. Len(x) \in Nat /\ Len(y) \in Nat BY LenProperties
<1> SUFFICES ASSUME \A i \in Nat \ {0} : ~First(i) PROVE FALSE OBVIOUS
<1>2. 0 \in T BY <1>1
<1>3. ASSUME NEW m \in Nat, m \in T PROVE m + 1 \in T
  <2> DEFINE i == m + 1
  <2>1. i \in Nat \ {0} /\ i <= Len(x) + 1 /\ i <= Len(y) + 1 /\ i - 1 = m /\ \A j \in 1..m : x[j] = y[j]
    BY <1>1, <1>3
  <2>2. \A j \in 1..i : j \in 1..m \/ j = i OBVIOUS
  <2> HIDE DEF i
  <2>3. ~First(i) BY <2>1
  <2>4. i <= Len(x) /\ i <= Len(y) /\ x[i] = y[i] BY <2>1, <2>3
  <2>5. \A j \in 1..i : x[j] = y[j] BY <2>1, <2>2, <2>4
  <2>6. i \in T BY <2>1, <2>4, <2>5
  <2> QED BY <2>6 DEF i
<1>4. Nat \subseteq T
  <2> HIDE DEF T
  <2> QED BY <1>2, <1>3, AllNaturals
<1> DEFINE m == Len(x) + 1
<1>5. m \in Nat /\ ~ m <= Len(x) BY <1>1
<1> HIDE DEF m
<1> QED BY <1>4, <1>5

LEMMA OneWay ==
  ASSUME NEW x \in Seq(Int), NEW y \in Seq(Int), NEW i, Below(x, y, i), NEW k, Below(y, x, k)
  PROVE  FALSE
<1>1. Len(x) \in Nat /\ Len(y) \in Nat BY LenProperties
<1>2. /\ i \in Nat \ {0} /\ i <= Len(y) /\ i <= Len(x) + 1
      /\ \A j \in 1..i - 1 : x[j] = y[j]
      /\ i <= Len(x) => x[i] < y[i]
  BY DEF Below
<1>3. /\ k \in Nat \ {0} /\ k <= Len(x) /\ k <= Len(y) + 1
      /\ \A j \in 1..k - 1 : y[j] = x[j]
      /\ k <= Len(y) => y[k] < x[k]
  BY DEF Below
<1>4. (\A j \in 1..Len(x) : x[j] \in Int) /\ (\A j \in 1..Len(y) : y[j] \in Int) BY ElementOfSeq
<1>5. CASE i < k BY <1>1, <1>2, <1>3, <1>5, <1>4
<1>6. CASE k < i BY <1>1, <1>2, <1>3, <1>6, <1>4
<1>7. CASE i = k BY <1>1, <1>2, <1>3, <1>7, <1>4
<1> QED BY <1>2, <1>3, <1>5, <1>6, <1>7

\* Where two sequences differ first decides: a code of who comes first.
LEMMA DifferenceDecides ==
  ASSUME NEW x \in Seq(Int), NEW y \in Seq(Int), NEW i \in Nat \ {0}, i <= Len(x) + 1, i <= Len(y) + 1,
         \A j \in 1..i - 1 : x[j] = y[j], i <= Len(x) /\ i <= Len(y) => x[i] # y[i]
  PROVE  /\ i > Len(x) /\ i > Len(y) => x = y
         /\ i > Len(x) /\ i <= Len(y) => Below(x, y, i)
         /\ i <= Len(x) /\ i > Len(y) => Below(y, x, i)
         /\ i <= Len(x) /\ i <= Len(y) => /\ x[i] < y[i] => Below(x, y, i)
                                          /\ ~ x[i] < y[i] => Below(y, x, i)
<1>1. Len(x) \in Nat /\ Len(y) \in Nat BY LenProperties
<1>2. ASSUME i > Len(x), i > Len(y) PROVE x = y BY <1>1, <1>2, SeqEqual
<1>3. ASSUME i > Len(x), i <= Len(y) PROVE Below(x, y, i) BY <1>1, <1>3 DEF Below
<1>4. ASSUME i <= Len(x), i > Len(y) PROVE Below(y, x, i) BY <1>1, <1>4 DEF Below
<1>5. ASSUME i <= Len(x), i <= Len(y), x[i] < y[i] PROVE Below(x, y, i) BY <1>1, <1>5 DEF Below
<1>6. ASSUME i <= Len(x), i <= Len(y), ~ x[i] < y[i] PROVE Below(y, x, i)
  BY <1>1, <1>6, ElementOfSeq DEF Below
<1> QED BY <1>2, <1>3, <1>4, <1>5, <1>6

LEMMA Sorted ==
  ASSUME NEW x \in Seq(Int), NEW y \in Seq(Int)
  PROVE  /\ LessThan(x, y) \/ x = y \/ LessThan(y, x)
         /\ ~(LessThan(x, y) /\ LessThan(y, x))
         /\ ~ LessThan(x, x)
<1>1. PICK i \in Nat \ {0} : /\ i <= Len(x) + 1 /\ i <= Len(y) + 1
                             /\ \A j \in 1..i - 1 : x[j] = y[j]
                             /\ i <= Len(x) /\ i <= Len(y) => x[i] # y[i]
  BY FirstDifference
<1>2. x = y \/ Below(x, y, i) \/ Below(y, x, i) BY LenProperties, <1>1, DifferenceDecides
<1>3. LessThan(x, y) \/ x = y \/ LessThan(y, x) BY <1>2, LessIs
<1>4. ASSUME LessThan(x, y), LessThan(y, x) PROVE FALSE BY <1>4, LessIs, OneWay
<1>5. ASSUME LessThan(x, x) PROVE FALSE BY <1>5, LessIs, OneWay
<1> QED BY <1>3, <1>4, <1>5

\* The comparison is that of the bytes.
LEMMA ComparesBytes ==
  ASSUME NEW a \in Seq(Octet), NEW b \in Seq(Octet)
  PROVE  /\ StrCmp3(a, b) \in Int /\ (StrCmp3(a, b) < 0 <=> LessThan(a, b))
         /\ StrCmp3(a, b) = 0 <=> a = b
<1> DEFINE n == IF Len(a) < Len(b) THEN Len(a) ELSE Len(b)
           differ == {i \in 1..n : a[i] # b[i]}
           Least(i) == \A j \in differ : i <= j
           f == CHOOSE i \in differ : Least(i)
           z == StrCmp3(a, b)
<1>1. a \in Seq(Int) /\ b \in Seq(Int) /\ Len(a) \in Nat /\ Len(b) \in Nat
  <2>1. Octet \subseteq Int BY DEF Octet
  <2> QED BY <2>1, SeqMonotonic, LenProperties
<1>2. z = IF differ # {} THEN (IF a[f] < b[f] THEN -1 ELSE 1)
          ELSE IF Len(a) < Len(b) THEN -1 ELSE IF Len(a) > Len(b) THEN 1 ELSE 0
  BY DEF StrCmp3
<1> HIDE DEF z
<1>3. PICK i \in Nat \ {0} : /\ i <= Len(a) + 1 /\ i <= Len(b) + 1
                             /\ \A j \in 1..i - 1 : a[j] = b[j]
                             /\ i <= Len(a) /\ i <= Len(b) => a[i] # b[i]
  BY <1>1, FirstDifference
<1>4. /\ i > Len(a) /\ i > Len(b) => a = b
      /\ i > Len(a) /\ i <= Len(b) => Below(a, b, i)
      /\ i <= Len(a) /\ i > Len(b) => Below(b, a, i)
      /\ i <= Len(a) /\ i <= Len(b) => /\ a[i] < b[i] => Below(a, b, i)
                                       /\ ~ a[i] < b[i] => Below(b, a, i)
  BY <1>1, <1>3, DifferenceDecides
<1>5. \/ a = b /\ z = 0
      \/ LessThan(a, b) /\ z = -1
      \/ LessThan(b, a) /\ z = 1
  <2>1. CASE i <= Len(a) /\ i <= Len(b)
    <3>1. i \in differ /\ \A j \in differ : i <= j
      <4>1. i \in 1..n BY <1>1, <2>1
      <4>2. \A j \in 1..n : ~ i <= j => j \in 1..i - 1 BY <1>1, <1>3
      <4> HIDE DEF n
      <4>3. \A j \in 1..n : ~ i <= j => a[j] = b[j] BY <1>3, <4>2
      <4> QED BY <1>3, <2>1, <4>1, <4>3
    <3>2. f = i
      <4>1. f \in differ /\ Least(f)
        <5> HIDE DEF differ
        <5> QED BY <3>1
      <4>2. \A j \in differ : j \in Nat OBVIOUS
      <4> HIDE DEF f, differ
      <4>3. f <= i /\ i <= f /\ f \in Nat BY <3>1, <4>1, <4>2
      <4> QED BY <4>3
    <3>3. differ # {} BY <3>1
    <3> HIDE DEF f, differ
    <3>4. z = IF a[i] < b[i] THEN -1 ELSE 1 BY <1>2, <3>2, <3>3
    <3>5. CASE a[i] < b[i] BY <1>1, <1>4, <2>1, <3>5, LessIs, <3>4
    <3>6. CASE ~ a[i] < b[i] BY <1>1, <1>4, <2>1, <3>6, LessIs, <3>4
    <3> QED BY <3>5, <3>6
  <2>2. CASE ~(i <= Len(a) /\ i <= Len(b))
    <3>1. differ = {}
      <4>1. \A j \in 1..n : j \in 1..i - 1 BY <1>1, <1>3, <2>2
      <4> HIDE DEF n
      <4> QED BY <1>3, <4>1
    <3> HIDE DEF differ, f
    <3>2. z = IF Len(a) < Len(b) THEN -1 ELSE IF Len(a) > Len(b) THEN 1 ELSE 0 BY <1>2, <3>1
    <3>3. CASE Len(a) < Len(b) BY <1>1, <1>3, <2>2, <3>3, <1>4, LessIs, <3>2
    <3>4. CASE Len(b) < Len(a) BY <1>1, <1>3, <2>2, <3>4, <1>4, LessIs, <3>2
    <3>5. CASE Len(a) = Len(b) BY <1>1, <1>3, <2>2, <3>5, <1>4, <3>2
    <3> QED BY <1>1, <3>3, <3>4, <3>5
  <2> QED BY <2>1, <2>2
<1>6. ~(LessThan(a, b) /\ LessThan(b, a)) /\ ~LessThan(a, a) /\ ~LessThan(b, b) BY <1>1, Sorted
<1>7. CASE a = b /\ z = 0 BY <1>6, <1>7 DEF z
<1>8. CASE LessThan(a, b) /\ z = -1 BY <1>6, <1>8 DEF z
<1>9. CASE LessThan(b, a) /\ z = 1 BY <1>6, <1>9 DEF z
<1> QED BY <1>5, <1>7, <1>8, <1>9

LEMMA DigitsSort ==
  ASSUME NEW x0, NEW x1, NEW x2, NEW x3, NEW c, Digits64(c, x0, x1, x2, x3),
         NEW y0, NEW y1, NEW y2, NEW y3, NEW d, Digits64(d, y0, y1, y2, y3), c < d
  PROVE  \/ x3 < y3
         \/ x3 = y3 /\ x2 < y2
         \/ x3 = y3 /\ x2 = y2 /\ x1 < y1
         \/ x3 = y3 /\ x2 = y2 /\ x1 = y1 /\ x0 < y0
BY SMT DEF Digits64

\* The first byte of a character says how large the character is.
LEMMA HeadSorts ==
  ASSUME NEW c \in Scalars
  PROVE  /\ c \in Nat /\ EncodeInto(c) \in Seq(Octet) /\ Len(EncodeInto(c)) \in 1..4 /\ EncodeInto(c)[1] \in Int
         /\ c < 128 => EncodeInto(c)[1] < 128
         /\ 128 <= c /\ c < 2048 => EncodeInto(c)[1] \in 192..223
         /\ 2048 <= c /\ c < 65536 => EncodeInto(c)[1] \in 224..239
         /\ 65536 <= c => EncodeInto(c)[1] >= 240
<1>1. c \in Codes /\ c \in Nat BY CodesAre DEF Scalars
<1>2. PICK x0, x1, x2, x3 : Digits64(c, x0, x1, x2, x3) BY <1>1, DigitsOf
<1> DEFINE e == EncodeInto(c)
<1>3. /\ c < 128 => e = <<c>>
      /\ 128 <= c /\ c < 2048 => e = <<192 + x1, 128 + x0>> /\ x2 = 0 /\ x3 = 0
      /\ 2048 <= c /\ c < 65536 => e = <<224 + x2, 128 + x1, 128 + x0>> /\ x3 = 0
      /\ 65536 <= c => e = <<240 + x3, 128 + x2, 128 + x1, 128 + x0>>
  BY <1>2, EncodeIs
<1>4. e \in Seq(Octet) /\ Len(e) \in 1..4 BY <1>1, Encodes
<1> HIDE DEF e
<1>5. e[1] \in Int
  <2>1. e[1] \in Octet BY <1>4, ElementOfSeq
  <2> QED BY <2>1 DEF Octet
<1>6. ASSUME c < 128 PROVE e[1] < 128 BY <1>3, <1>6
<1>7. ASSUME 128 <= c, c < 2048 PROVE e[1] \in 192..223
  <2>1. x1 \in 0..31 BY <1>2, <1>7, SMT DEF Digits64
  <2>2. e[1] = 192 + x1 BY <1>3, <1>7, SMT
  <2> QED BY <2>1, <2>2
<1>8. ASSUME 2048 <= c, c < 65536 PROVE e[1] \in 224..239
  <2>1. e = <<224 + x2, 128 + x1, 128 + x0>> /\ x3 = 0 BY <1>3, <1>8, SMT
  <2>2. x2 \in 0..15 BY <1>2, <1>8, <2>1, SMT DEF Digits64
  <2>3. e[1] = 224 + x2 BY <2>1, SMT
  <2> QED BY <2>2, <2>3
<1>9. ASSUME 65536 <= c PROVE e[1] >= 240
  <2>1. e = <<240 + x3, 128 + x2, 128 + x1, 128 + x0>> BY <1>3, <1>9, SMT
  <2>2. x3 \in 0..4 BY <1>2, SMT DEF Digits64
  <2>3. e[1] = 240 + x3 BY <2>1, SMT
  <2> QED BY <2>2, <2>3
<1> QED BY <1>1, <1>4, <1>5, <1>6, <1>7, <1>8, <1>9, SMT DEF e

\* Characters sort as their bytes do.
LEMMA EncodeSorts ==
  ASSUME NEW c \in Scalars, NEW d \in Scalars, c < d
  PROVE  \E k : Below(EncodeInto(c), EncodeInto(d), k) /\ k <= Len(EncodeInto(c))
<1> DEFINE e == EncodeInto(c)  g == EncodeInto(d)
<1>1. /\ c \in Nat /\ e \in Seq(Octet) /\ Len(e) \in 1..4 /\ e[1] \in Int
      /\ d \in Nat /\ g \in Seq(Octet) /\ Len(g) \in 1..4 /\ g[1] \in Int
      /\ c \in Codes /\ d \in Codes
  BY HeadSorts DEF Scalars
<1>2. PICK x0, x1, x2, x3 : Digits64(c, x0, x1, x2, x3) BY <1>1, DigitsOf
<1>3. PICK y0, y1, y2, y3 : Digits64(d, y0, y1, y2, y3) BY <1>1, DigitsOf
<1>4. \/ x3 < y3
      \/ x3 = y3 /\ x2 < y2
      \/ x3 = y3 /\ x2 = y2 /\ x1 < y1
      \/ x3 = y3 /\ x2 = y2 /\ x1 = y1 /\ x0 < y0
  BY <1>2, <1>3, DigitsSort
<1>5. /\ x0 \in Int /\ x1 \in Int /\ x2 \in Int /\ x3 \in Int
      /\ y0 \in Int /\ y1 \in Int /\ y2 \in Int /\ y3 \in Int
  BY <1>2, <1>3, SMT DEF Digits64
<1>6. /\ c < 128 => e = <<c>>
      /\ 128 <= c /\ c < 2048 => e = <<192 + x1, 128 + x0>> /\ x2 = 0 /\ x3 = 0
      /\ 2048 <= c /\ c < 65536 => e = <<224 + x2, 128 + x1, 128 + x0>> /\ x3 = 0
      /\ 65536 <= c => e = <<240 + x3, 128 + x2, 128 + x1, 128 + x0>>
  BY <1>2, EncodeIs
<1>7. /\ d < 128 => g = <<d>>
      /\ 128 <= d /\ d < 2048 => g = <<192 + y1, 128 + y0>> /\ y2 = 0 /\ y3 = 0
      /\ 2048 <= d /\ d < 65536 => g = <<224 + y2, 128 + y1, 128 + y0>> /\ y3 = 0
      /\ 65536 <= d => g = <<240 + y3, 128 + y2, 128 + y1, 128 + y0>>
  BY <1>3, EncodeIs
<1>8. ASSUME e[1] < g[1] PROVE Below(e, g, 1) /\ 1 <= Len(e)
  <2>1. \A j \in 1..1 - 1 : e[j] = g[j] OBVIOUS
  <2> HIDE DEF e, g
  <2> QED BY <1>1, <1>8, <2>1 DEF Below
<1>9. ASSUME e[1] = g[1], Len(e) >= 2, Len(g) >= 2, e[2] < g[2] PROVE Below(e, g, 2) /\ 2 <= Len(e)
  <2> HIDE DEF e, g
  <2>1. \A j \in 1..2 - 1 : e[j] = g[j] BY <1>9
  <2> QED BY <1>1, <1>9, <2>1 DEF Below
<1>10. ASSUME e[1] = g[1], e[2] = g[2], Len(e) >= 3, Len(g) >= 3, e[3] < g[3]
       PROVE  Below(e, g, 3) /\ 3 <= Len(e)
  <2> HIDE DEF e, g
  <2>1. \A j \in 1..3 - 1 : e[j] = g[j] BY <1>10
  <2> QED BY <1>1, <1>10, <2>1 DEF Below
<1>11. ASSUME e[1] = g[1], e[2] = g[2], e[3] = g[3], Len(e) >= 4, Len(g) >= 4, e[4] < g[4]
       PROVE  Below(e, g, 4) /\ 4 <= Len(e)
  <2> HIDE DEF e, g
  <2>1. \A j \in 1..4 - 1 : e[j] = g[j] BY <1>11
  <2> QED BY <1>1, <1>11, <2>1 DEF Below
<1>12. CASE d < 128
  <2>1. c < 128 BY <1>1, <1>12
  <2>2. e = <<c>> /\ g = <<d>> BY <1>6, <1>7, <1>12, <2>1
  <2> HIDE DEF e, g
  <2>3. e[1] < g[1] BY <2>2
  <2> QED BY <1>8, <2>3 DEF e, g
<1>13. CASE \/ c < 128 /\ 128 <= d
            \/ c < 2048 /\ 2048 <= d
            \/ c < 65536 /\ 65536 <= d
  <2>1. /\ c < 128 => e[1] < 128
        /\ 128 <= c /\ c < 2048 => e[1] \in 192..223
        /\ 2048 <= c /\ c < 65536 => e[1] \in 224..239
        /\ 65536 <= c => e[1] >= 240
    BY HeadSorts
  <2>2. /\ d < 128 => g[1] < 128
        /\ 128 <= d /\ d < 2048 => g[1] \in 192..223
        /\ 2048 <= d /\ d < 65536 => g[1] \in 224..239
        /\ 65536 <= d => g[1] >= 240
    BY HeadSorts
  <2> DEFINE u == e[1]  v == g[1]
  <2>3. u \in Int /\ v \in Int BY <1>1
  <2> HIDE DEF u, v
  <2>4. /\ c < 128 => u < 128
        /\ 128 <= c /\ c < 2048 => u \in 192..223
        /\ 2048 <= c /\ c < 65536 => u \in 224..239
        /\ 128 <= d /\ d < 2048 => v \in 192..223
        /\ 2048 <= d /\ d < 65536 => v \in 224..239
        /\ 65536 <= d => v >= 240
    BY <2>1, <2>2 DEF u, v
  <2> HIDE DEF e, g
  <2>5. u < v BY <1>1, <1>13, <2>3, <2>4, SMT
  <2> QED BY <1>8, <2>5 DEF u, v, e, g
<1>14. CASE 128 <= c /\ d < 2048
  <2>1. e = <<192 + x1, 128 + x0>> /\ g = <<192 + y1, 128 + y0>> /\ x2 = 0 /\ x3 = 0 /\ y2 = 0 /\ y3 = 0
    BY <1>1, <1>6, <1>7, <1>14, SMT
  <2> HIDE DEF e, g
  <2>2. Len(e) = 2 /\ Len(g) = 2 /\ e[1] = 192 + x1 /\ e[2] = 128 + x0 /\ g[1] = 192 + y1 /\ g[2] = 128 + y0
    BY <2>1
  <2>3. CASE x1 < y1 BY <1>5, <1>8, <2>2, <2>3 DEF e, g
  <2>4. CASE x1 = y1 /\ x0 < y0 BY <1>5, <1>9, <2>2, <2>4 DEF e, g
  <2> QED BY <1>4, <1>5, <2>1, <2>3, <2>4
<1>15. CASE 2048 <= c /\ d < 65536
  <2>1. e = <<224 + x2, 128 + x1, 128 + x0>> /\ g = <<224 + y2, 128 + y1, 128 + y0>> /\ x3 = 0 /\ y3 = 0
    BY <1>1, <1>6, <1>7, <1>15, SMT
  <2> HIDE DEF e, g
  <2>2. /\ Len(e) = 3 /\ e[1] = 224 + x2 /\ e[2] = 128 + x1 /\ e[3] = 128 + x0
        /\ Len(g) = 3 /\ g[1] = 224 + y2 /\ g[2] = 128 + y1 /\ g[3] = 128 + y0
    BY <2>1
  <2>3. CASE x2 < y2 BY <1>5, <1>8, <2>2, <2>3 DEF e, g
  <2>4. CASE x2 = y2 /\ x1 < y1 BY <1>5, <1>9, <2>2, <2>4 DEF e, g
  <2>5. CASE x2 = y2 /\ x1 = y1 /\ x0 < y0 BY <1>5, <1>10, <2>2, <2>5 DEF e, g
  <2> QED BY <1>4, <1>5, <2>1, <2>3, <2>4, <2>5
<1>16. CASE 65536 <= c
  <2>1. e = <<240 + x3, 128 + x2, 128 + x1, 128 + x0>> /\ g = <<240 + y3, 128 + y2, 128 + y1, 128 + y0>>
    BY <1>1, <1>6, <1>7, <1>16, SMT
  <2> HIDE DEF e, g
  <2>2. /\ Len(e) = 4 /\ e[1] = 240 + x3 /\ e[2] = 128 + x2 /\ e[3] = 128 + x1 /\ e[4] = 128 + x0
        /\ Len(g) = 4 /\ g[1] = 240 + y3 /\ g[2] = 128 + y2 /\ g[3] = 128 + y1 /\ g[4] = 128 + y0
    BY <2>1
  <2>3. CASE x3 < y3 BY <1>5, <1>8, <2>2, <2>3 DEF e, g
  <2>4. CASE x3 = y3 /\ x2 < y2 BY <1>5, <1>9, <2>2, <2>4 DEF e, g
  <2>5. CASE x3 = y3 /\ x2 = y2 /\ x1 < y1 BY <1>5, <1>10, <2>2, <2>5 DEF e, g
  <2>6. CASE x3 = y3 /\ x2 = y2 /\ x1 = y1 /\ x0 < y0 BY <1>5, <1>11, <2>2, <2>6 DEF e, g
  <2> QED BY <1>4, <1>5, <2>1, <2>3, <2>4, <2>5, <2>6
<1>17. \/ d < 128
       \/ c < 128 /\ 128 <= d
       \/ c < 2048 /\ 2048 <= d
       \/ c < 65536 /\ 65536 <= d
       \/ 128 <= c /\ d < 2048
       \/ 2048 <= c /\ d < 65536
       \/ 65536 <= c
  BY <1>1, SMT
<1> QED BY <1>12, <1>13, <1>14, <1>15, <1>16, <1>17

\* A sequence, cut before one of its elements.
LEMMA CutBefore ==
  ASSUME NEW S, NEW x \in Seq(S), NEW i \in 1..Len(x)
  PROVE  \E u \in Seq(S) : x = SubSeq(x, 1, i - 1) \o (<<x[i]>> \o u)
<1>1. Len(x) \in Nat /\ i - 1 \in 0..Len(x) /\ i \in Nat BY LenProperties
<1> DEFINE u == SubSeq(x, i + 1, Len(x))
<1>2. u \in Seq(S)
  <2>1. \A j \in i + 1..Len(x) : x[j] \in S BY <1>1, ElementOfSeq
  <2> QED BY <1>1, <2>1, SubSeqProperties
<1>3. SubSeq(x, i, Len(x)) = <<x[i]>> \o u BY <1>1, SubSeqRecursiveFirst
<1>4. SubSeq(x, 1, i - 1) \o SubSeq(x, i, Len(x)) = SubSeq(x, 1, Len(x))
  <2> DEFINE k == i - 1
  <2>1. 1 \in 1..Len(x) + 1 /\ k \in 1 - 1..Len(x) /\ Len(x) \in k..Len(x) /\ k + 1 = i BY <1>1
  <2> HIDE DEF k
  <2>2. SubSeq(x, 1, k) \o SubSeq(x, k + 1, Len(x)) = SubSeq(x, 1, Len(x))
    BY <2>1, ConcatAdjacentSubSeq
  <2> QED BY <2>1, <2>2 DEF k
<1>5. SubSeq(x, 1, Len(x)) = x BY SubSeqFull
<1> HIDE DEF u
<1>6. x = SubSeq(x, 1, i - 1) \o (<<x[i]>> \o u) BY <1>3, <1>4, <1>5, Zenon
<1> QED BY <1>2, <1>6

\* What comes before two sequences leaves their order as it is.
LEMMA BelowAfter ==
  ASSUME NEW w \in Seq(Int), NEW u \in Seq(Int), NEW v \in Seq(Int), NEW k, Below(u, v, k)
  PROVE  Below(w \o u, w \o v, Len(w) + k)
<1>1. Len(w) \in Nat /\ Len(u) \in Nat /\ Len(v) \in Nat BY LenProperties
<1>2. /\ k \in Nat \ {0} /\ k <= Len(v) /\ k <= Len(u) + 1
      /\ \A j \in 1..k - 1 : u[j] = v[j]
      /\ k <= Len(u) => u[k] < v[k]
  BY DEF Below
<1> DEFINE a == w \o u  b == w \o v  n == Len(w)
<1>3. /\ Len(a) = n + Len(u)
      /\ \A j \in 1..n + Len(u) : a[j] = IF j <= n THEN w[j] ELSE u[j - n]
  BY ConcatProperties
<1>4. /\ Len(b) = n + Len(v)
      /\ \A j \in 1..n + Len(v) : b[j] = IF j <= n THEN w[j] ELSE v[j - n]
  BY ConcatProperties
<1> HIDE DEF a, b
<1> DEFINE i == n + k
<1>5. i \in Nat \ {0} /\ i <= Len(b) /\ i <= Len(a) + 1 /\ ~ i <= n /\ i - n = k
  BY <1>1, <1>2, <1>3, <1>4
<1>6. ASSUME NEW j \in 1..i - 1 PROVE a[j] = b[j]
  <2>1. j \in 1..n + Len(u) /\ j \in 1..n + Len(v) /\ (j <= n \/ j - n \in 1..k - 1)
    BY <1>1, <1>2, <1>6
  <2> QED BY <1>2, <1>3, <1>4, <2>1
<1>7. ASSUME i <= Len(a) PROVE a[i] < b[i]
  <2>1. k <= Len(u) /\ i \in 1..n + Len(u) /\ i \in 1..n + Len(v) BY <1>1, <1>2, <1>3, <1>5, <1>7
  <2>2. a[i] = u[k] /\ b[i] = v[k] BY <1>3, <1>4, <1>5, <2>1
  <2> QED BY <1>2, <2>1, <2>2
<1> HIDE DEF i
<1>8. Below(a, b, i) BY <1>5, <1>6, <1>7 DEF Below
<1> QED BY <1>8 DEF a, b, i

\* And so does what comes after the place where they differ.
LEMMA BelowBefore ==
  ASSUME NEW x \in Seq(Int), NEW y \in Seq(Int), NEW u \in Seq(Int), NEW v \in Seq(Int),
         NEW k, Below(x, y, k), k <= Len(x)
  PROVE  Below(x \o u, y \o v, k)
<1>1. Len(x) \in Nat /\ Len(y) \in Nat /\ Len(u) \in Nat /\ Len(v) \in Nat BY LenProperties
<1>2. /\ k \in Nat \ {0} /\ k <= Len(y) /\ k <= Len(x) + 1
      /\ \A j \in 1..k - 1 : x[j] = y[j]
      /\ x[k] < y[k]
  BY DEF Below
<1> DEFINE a == x \o u  b == y \o v
<1>3. Len(a) = Len(x) + Len(u) /\ \A j \in 1..Len(x) : a[j] = x[j] BY ConcatProperties, <1>1
<1>4. Len(b) = Len(y) + Len(v) /\ \A j \in 1..Len(y) : b[j] = y[j] BY ConcatProperties, <1>1
<1> HIDE DEF a, b
<1>5. k \in 1..Len(x) /\ k \in 1..Len(y) /\ k <= Len(b) /\ k <= Len(a) + 1 BY <1>1, <1>2, <1>3, <1>4
<1>6. \A j \in 1..k - 1 : a[j] = b[j]
  <2>1. \A j \in 1..k - 1 : j \in 1..Len(x) /\ j \in 1..Len(y) BY <1>1, <1>2
  <2> QED BY <1>2, <1>3, <1>4, <2>1
<1>7. a[k] < b[k] BY <1>2, <1>3, <1>4, <1>5
<1>8. Below(a, b, k) BY <1>2, <1>5, <1>6, <1>7 DEF Below
<1> QED BY <1>8 DEF a, b

\* One piece, and three, put together.
LEMMA FlatOne ==
  ASSUME NEW S, NEW t \in Seq(S)
  PROVE  FlattenSeq(<<t>>) = t
<1> DEFINE ss == <<t>>
<1>1. ss \in Seq(Seq(S)) /\ Len(ss) = 1 /\ ss[1] = t OBVIOUS
<1> HIDE DEF ss
<1>2. PICK f : Flat(f, ss, S) /\ FlattenSeq(ss) = f[1] BY <1>1, Flattens
<1>3. f[0] = <<>> /\ f[0 + 1] = f[0] \o ss[0 + 1]
  <2>1. f[0] = <<>> /\ \A i \in Nat : f[i + 1] = IF i < Len(ss) THEN f[i] \o ss[i + 1] ELSE f[i]
    BY <1>2 DEF Flat
  <2>2. 0 \in Nat /\ 0 < Len(ss) BY <1>1
  <2> QED BY <2>1, <2>2
<1>4. f[1] = <<>> \o t BY <1>1, <1>3
<1>5. <<>> \o t = t OBVIOUS
<1> QED BY <1>2, <1>4, <1>5 DEF ss

LEMMA FlatNone == FlattenSeq(<<>>) = <<>>
<1> DEFINE ss == <<>>
<1>1. ss \in Seq(Seq(Int)) /\ Len(ss) = 0 OBVIOUS
<1> HIDE DEF ss
<1>2. PICK f : Flat(f, ss, Int) /\ FlattenSeq(ss) = f[0] BY <1>1, Flattens
<1> QED BY <1>2 DEF Flat, ss

LEMMA FlatThree ==
  ASSUME NEW S, NEW a \in Seq(S), NEW b \in Seq(S)
  PROVE  FlattenSeq(<<a, b, a>>) = (a \o b) \o a
<1> DEFINE P == Seq(S)
<1>1. <<a>> \in Seq(P) /\ <<b>> \in Seq(P) /\ <<a>> \o <<b>> \in Seq(P) OBVIOUS
<1>2. <<a, b, a>> = (<<a>> \o <<b>>) \o <<a>> OBVIOUS
<1>3. FlattenSeq(<<a>> \o <<b>>) = FlattenSeq(<<a>>) \o FlattenSeq(<<b>>) BY <1>1, FlatConcat
<1>4. FlattenSeq((<<a>> \o <<b>>) \o <<a>>) = FlattenSeq(<<a>> \o <<b>>) \o FlattenSeq(<<a>>)
  BY <1>1, FlatConcat
<1>5. FlattenSeq(<<a>>) = a /\ FlattenSeq(<<b>>) = b BY FlatOne
<1> HIDE DEF P
<1> QED BY <1>2, <1>3, <1>4, <1>5

\* What no character, and one character, are packed into.
LEMMA PackFew ==
  /\ FastPack(<<>>) = <<>>
  /\ \A c \in Scalars : FastPack(<<c>>) = EncodeInto(c) /\ EncodeInto(c) \in Seq(Octet)
<1>1. FastPack(<<>>) = <<>>
  <2> DEFINE e == <<>>
  <2>1. e \in Seq(Scalars) /\ Len(e) = 0 OBVIOUS
  <2> HIDE DEF e
  <2>2. Encoded(e) \in Seq(Seq(Octet)) /\ Len(Encoded(e)) = 0 /\ FastPack(e) = FlattenSeq(Encoded(e))
    BY <2>1, EncodedIs
  <2>3. Encoded(e) = <<>> BY <2>2, EmptySeq
  <2> QED BY <2>2, <2>3, FlatNone DEF e
<1>2. ASSUME NEW c \in Scalars PROVE FastPack(<<c>>) = EncodeInto(c) /\ EncodeInto(c) \in Seq(Octet)
  <2> DEFINE x == <<c>>  P == Seq(Octet)
  <2>1. x \in Seq(Scalars) /\ Len(x) = 1 /\ x[1] = c /\ 1 \in 1..1 OBVIOUS
  <2> HIDE DEF x
  <2>2. /\ Encoded(x) \in Seq(P) /\ Len(Encoded(x)) = 1 /\ Encoded(x)[1] = EncodeInto(c)
        /\ EncodeInto(c) \in P /\ FastPack(x) = FlattenSeq(Encoded(x))
    BY <2>1, EncodedIs
  <2> HIDE DEF P
  <2>3. Encoded(x) = <<EncodeInto(c)>> BY <2>2
  <2>4. FlattenSeq(<<EncodeInto(c)>>) = EncodeInto(c) BY <2>2, FlatOne DEF P
  <2> QED BY <2>2, <2>3, <2>4 DEF x, P
<1> QED BY <1>1, <1>2

\* A sequence in three parts: what comes before an element, the element, the rest.
Parts(x, w, c, u) == x = w \o (<<c>> \o u)

\* A String that begins with other characters begins with their bytes.
LEMMA PackCut ==
  ASSUME NEW w \in Seq(Scalars), NEW c \in Scalars, NEW u \in Seq(Scalars), NEW x, Parts(x, w, c, u)
  PROVE  /\ FastPack(x) = FastPack(w) \o (EncodeInto(c) \o FastPack(u))
         /\ FastPack(w) \in Seq(Octet) /\ EncodeInto(c) \in Seq(Octet) /\ FastPack(u) \in Seq(Octet)
<1>1. <<c>> \in Seq(Scalars) OBVIOUS
<1>2. <<c>> \o u \in Seq(Scalars) /\ FastPack(<<c>> \o u) = FastPack(<<c>>) \o FastPack(u)
  BY <1>1, PackConcat
<1>3. FastPack(w \o (<<c>> \o u)) = FastPack(w) \o FastPack(<<c>> \o u) BY <1>2, PackConcat
<1>4. FastPack(w) \in Seq(Octet) /\ FastPack(u) \in Seq(Octet) BY PackChars
<1>5. FastPack(<<c>>) = EncodeInto(c) /\ EncodeInto(c) \in Seq(Octet) BY PackFew
<1> QED BY <1>2, <1>3, <1>4, <1>5 DEF Parts

\* Strings of characters sort as their bytes do.
LEMMA PackSorts ==
  ASSUME NEW x \in Seq(Scalars), NEW y \in Seq(Scalars), LessThan(x, y)
  PROVE  LessThan(FastPack(x), FastPack(y))
<1>1. /\ x \in Seq(Int) /\ y \in Seq(Int) /\ Len(x) \in Nat /\ Len(y) \in Nat
      /\ Octet \subseteq Int
  <2>1. Scalars \subseteq Int BY CodesAre DEF Scalars
  <2>2. Octet \subseteq Int BY DEF Octet
  <2> QED BY <2>1, <2>2, SeqMonotonic, LenProperties
<1>2. PICK i \in 1..Len(y) : /\ SubSeq(x, 1, i - 1) = SubSeq(y, 1, i - 1)
                             /\ Len(x) = i - 1 \/ (Len(x) >= i /\ x[i] < y[i])
  BY DEF LessThan
<1> DEFINE w == SubSeq(y, 1, i - 1)  d == y[i]  p == FastPack(w)  g == EncodeInto(d)
<1>3. d \in Scalars BY ElementOfSeq
<1>4. w \in Seq(Scalars) BY <1>1, ElementOfSeq, SubSeqProperties
<1>5. PICK v \in Seq(Scalars) : Parts(y, w, d, v) BY CutBefore DEF Parts
<1> DEFINE r == FastPack(v)
<1>6. FastPack(y) = p \o (g \o r) /\ p \in Seq(Octet) /\ g \in Seq(Octet) /\ r \in Seq(Octet)
  <2> HIDE DEF w, d
  <2> QED BY <1>3, <1>4, <1>5, PackCut
<1> HIDE DEF d, w, p, g, r
<1>7. p \in Seq(Int) /\ g \in Seq(Int) /\ r \in Seq(Int) /\ g \o r \in Seq(Int)
  BY <1>1, <1>6, SeqMonotonic, ConcatProperties
<1>8. FastPack(x) \in Seq(Int) /\ FastPack(y) \in Seq(Int) BY PackChars, <1>1, SeqMonotonic
<1>9. CASE Len(x) = i - 1
  <2>1. x = w BY SubSeqFull, <1>2, <1>9 DEF w
  <2>2. Len(g \o r) \in Nat \ {0}
    <3>1. Len(g) \in 1..4 BY <1>3, HeadSorts DEF g
    <3>2. Len(g \o r) = Len(g) + Len(r) /\ Len(r) \in Nat BY <1>6, ConcatProperties, LenProperties
    <3> DEFINE l == Len(g)  m == Len(r)
    <3> HIDE DEF l, m
    <3>3. Len(g \o r) = l + m /\ m \in Nat /\ l \in 1..4 BY <3>1, <3>2 DEF l, m
    <3> QED BY <3>3
  <2> DEFINE e == <<>>
  <2>3. e \in Seq(Int) /\ Len(e) = 0 /\ p \o e = p BY <1>7, ConcatEmptySeq
  <2> HIDE DEF e
  <2>4. Below(e, g \o r, 1) BY <2>2, <2>3 DEF Below
  <2>5. Below(p \o e, p \o (g \o r), Len(p) + 1) BY <1>7, <2>3, <2>4, BelowAfter
  <2>6. Below(FastPack(x), FastPack(y), Len(p) + 1) BY <1>6, <2>1, <2>3, <2>5 DEF p
  <2> QED BY <1>8, <2>6, LessIs
<1>10. CASE Len(x) >= i /\ x[i] < y[i]
  <2> DEFINE c == x[i]  e == EncodeInto(c)
  <2>1. i \in 1..Len(x) BY <1>1, <1>10
  <2>2. c \in Scalars /\ c < d BY <1>10, <2>1, ElementOfSeq DEF d
  <2>3. PICK u \in Seq(Scalars) : Parts(x, w, c, u)
    <3>1. \E u \in Seq(Scalars) : x = SubSeq(x, 1, i - 1) \o (<<c>> \o u) BY <2>1, CutBefore
    <3> QED BY <1>2, <3>1 DEF w, Parts
  <2> DEFINE q == FastPack(u)
  <2>4. FastPack(x) = p \o (e \o q) /\ e \in Seq(Octet) /\ q \in Seq(Octet)
    <3> HIDE DEF c
    <3> QED BY <1>4, <2>2, <2>3, PackCut DEF p
  <2>5. PICK k : Below(e, g, k) /\ k <= Len(e)
    <3> HIDE DEF c
    <3> QED BY <1>3, <2>2, EncodeSorts DEF g
  <2> HIDE DEF c, e, q
  <2>6. e \in Seq(Int) /\ q \in Seq(Int) /\ e \o q \in Seq(Int)
    BY <1>1, <2>4, SeqMonotonic, ConcatProperties
  <2>7. Below(e \o q, g \o r, k) BY <1>7, <2>5, <2>6, BelowBefore
  <2>8. Below(p \o (e \o q), p \o (g \o r), Len(p) + k) BY <1>7, <2>6, <2>7, BelowAfter
  <2>9. Below(FastPack(x), FastPack(y), Len(p) + k) BY <1>6, <2>4, <2>8
  <2> QED BY <1>8, <2>9, LessIs
<1> QED BY <1>2, <1>9, <1>10

\* A pair of Strings: appended, concatenated and compared as their characters are.
LEMMA PairsSo ==
  ASSUME NEW a \in Seq(Octet), NEW b \in Seq(Octet)
  PROVE  PairsAgree(a, b)
<1> SUFFICES ASSUME WellFormed(a), WellFormed(b)
             PROVE  /\ FastUnpack(StrAppend(a, b)) = FastUnpack(a) \o FastUnpack(b)
                    /\ FastConcat(<<a, b, a>>) = FastPack(FastUnpack(a) \o FastUnpack(b) \o FastUnpack(a))
                    /\ (StrCmp3(a, b) < 0) <=> LessThan(FastUnpack(a), FastUnpack(b))
                    /\ (StrCmp3(a, b) = 0) <=> (a = b)
  BY DEF PairsAgree
<1> DEFINE x == FastUnpack(a)  y == FastUnpack(b)
<1>1. x \in Seq(Scalars) /\ y \in Seq(Scalars)
  <2>1. \A s \in Seq(Octet) : FastUnpack(s) \in Seq(Scalars)
    <3> SUFFICES ASSUME NEW s \in Seq(Octet) PROVE FastUnpack(s) \in Seq(Scalars) OBVIOUS
    <3>1. PICK n, q : Chars(s, n, q) BY CharsExist
    <3> QED BY <3>1, UnpackChars
  <2> QED BY <2>1
<1>2. a = FastPack(x) /\ b = FastPack(y) BY DEF WellFormed
<1> HIDE DEF x, y
<1>3. x \o y \in Seq(Scalars) /\ FastPack(x \o y) = a \o b BY <1>1, <1>2, PackConcat
<1>4. FastUnpack(a \o b) = x \o y
  <2> DEFINE z == x \o y
  <2>1. z \in Seq(Scalars) /\ FastPack(z) = a \o b BY <1>3
  <2> HIDE DEF z
  <2>2. FastUnpack(FastPack(z)) = z BY <2>1, PackChars
  <2> QED BY <2>1, <2>2 DEF z
<1>5. FastPack((x \o y) \o x) = (a \o b) \o a BY <1>1, <1>3, PackConcat, <1>2
<1>6. FlattenSeq(<<a, b, a>>) = (a \o b) \o a BY FlatThree
<1>7. x \in Seq(Int) /\ y \in Seq(Int) /\ a \in Seq(Int) /\ b \in Seq(Int)
  <2>1. Scalars \subseteq Int BY CodesAre DEF Scalars
  <2>2. Octet \subseteq Int BY DEF Octet
  <2> QED BY <1>1, <2>1, <2>2, SeqMonotonic
<1>8. /\ StrCmp3(a, b) < 0 <=> LessThan(a, b)
      /\ StrCmp3(a, b) = 0 <=> a = b
  BY ComparesBytes
<1>9. LessThan(x, y) <=> LessThan(a, b)
  <2>1. LessThan(x, y) => LessThan(a, b) BY <1>1, <1>2, PackSorts
  <2>2. LessThan(y, x) => LessThan(b, a) BY <1>1, <1>2, PackSorts
  <2>3. x = y => a = b BY <1>2
  <2>4. LessThan(x, y) \/ x = y \/ LessThan(y, x) BY <1>7, Sorted
  <2>5. ~(LessThan(a, b) /\ LessThan(b, a)) /\ ~LessThan(a, a) BY <1>7, Sorted
  <2> QED BY <2>1, <2>2, <2>3, <2>4, <2>5
<1>10. FastUnpack(StrAppend(a, b)) = x \o y BY <1>4 DEF StrAppend
<1>11. FastConcat(<<a, b, a>>) = FastPack((x \o y) \o x) BY <1>5, <1>6 DEF FastConcat
<1> QED BY <1>8, <1>9, <1>10, <1>11 DEF x, y

\* StringsAreCharacters holds of whatever Strings, well formed or not, and of
\* whatever character and bytes after it a behaviour looks at.
THEOREM StringsAlwaysCharacters ==
  ASSUME IsTextInput(input)
  PROVE  StringsAreCharacters
<1>1. ASSUME NEW s \in Seq(Octet)
      PROVE  DecodesAll(s) /\ ActsOnCharacters(s) /\ CharactersOf(s)
  BY AllDecoded, ActsSo, CharactersSo
<1>2. ASSUME input.about = "string"
      PROVE  DecodesAll(input.s) /\ ActsOnCharacters(input.s) /\ CharactersOf(input.s)
  BY <1>1, <1>2 DEF IsTextInput
<1>3. ASSUME input.about = "pair"
      PROVE  /\ DecodesAll(input.s) /\ ActsOnCharacters(input.s) /\ CharactersOf(input.s)
             /\ PairsAgree(input.s, input.t)
  BY <1>3, <1>1, PairsSo DEF IsTextInput
<1>4. ASSUME input.about = "scalar"
      PROVE  ScalarSurvives(input.cp, input.rest)
  BY <1>4, SurvivesSo DEF IsTextInput
<1> QED BY <1>2, <1>3, <1>4 DEF StringsAreCharacters
=============================================================================
