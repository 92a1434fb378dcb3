-------------------------- MODULE SharedSlotsProofs --------------------------
(***************************************************************************)
(* Proofs about SharedSlots, for every set of threads, slots and values.   *)
(* That no primitive meets a freed value needs the counts to be exact      *)
(* (Balance); that they stay exact needs to know which stages own a        *)
(* reference, that a loaded pointer is still the one in the slot, which is *)
(* what the spinlock is for, and that the caller of a compare-and-swap     *)
(* still holds both operands.  IInv says so.                               *)
(***************************************************************************)
EXTENDS SharedSlots, FiniteSetTheorems, TLAPS

Owns     == {"write lock", "write load", "write store", "cas store",
             "unlock keep", "unlock drop", "drop old"}
Critical == {"read load", "read dup", "write load", "write store",
             "cas test", "cas store", "unlock keep", "unlock drop"}
Cas      == {"cas lock", "cas test", "cas store"}
Stages   == {"idle", "read lock"} \cup Owns \cup Critical \cup Cas

TypeInv ==
  /\ TypeOK
  /\ pc \in [Thread -> Stages]
  /\ expected \in [Thread -> [val : Val \cup {None}, birth : 0..MaxBirth]]

(* A thread between its lock and its unlock has the lock.                   *)
LockOK(t) == pc[t] \in Critical => lock[Object(at[t])] = t

StageOK(t) ==
  /\ mine[t] # None <=> pc[t] \in Owns
  /\ pc[t] \in {"read dup", "write store"} => reg[t] = slot[at[t]]
  /\ pc[t] \in Cas =>
       /\ reg[t] \in Val /\ held[t][reg[t]] > 0
       /\ expected[t].val \in Val /\ held[t][expected[t].val] > 0
       /\ birth[expected[t].val] = expected[t].birth
  /\ pc[t] = "cas store" => slot[at[t]] = expected[t].val

StagesOK == \A t \in Thread : LockOK(t) /\ StageOK(t)

IInv == TypeInv /\ StagesOK /\ Balance

LEMMA ObjectIsSlot == \A s \in Slot : Object(s) \in Slot
  BY SlotAssumption DEF Object
-----------------------------------------------------------------------------
(* The sets whose sizes Balance adds up, and how one step changes them.     *)
LEMMA Sizes ==
  ASSUME TypeOK, NEW v \in Val
  PROVE  /\ IsFiniteSet(Stored(v)) /\ Cardinality(Stored(v)) \in Nat
         /\ IsFiniteSet(Owning(v)) /\ Cardinality(Owning(v)) \in Nat
         /\ IsFiniteSet(Kept(v))   /\ Cardinality(Kept(v)) \in Nat
  <1>1. IsFiniteSet(Stored(v)) /\ IsFiniteSet(Owning(v))
    BY FiniteAssumption, FS_Subset DEF Stored, Owning
  <1> DEFINE f   == [t \in Thread |-> {t} \X (1..held[t][v])]
             All == {f[t] : t \in Thread}
  <1>2. f \in Surjection(Thread, All)
    BY DEF Surjection
  <1>3. IsFiniteSet(All)
    BY <1>2, FiniteAssumption, FS_Surjection
  <1>4. ASSUME NEW t \in Thread
        PROVE  IsFiniteSet(f[t])
    <2>1. held[t][v] \in Nat
      BY DEF TypeOK
    <2>2. IsFiniteSet({t}) /\ IsFiniteSet(1..held[t][v])
      <3>1. IsFiniteSet({t})
        BY FS_Singleton
      <3>2. IsFiniteSet(1..held[t][v])
        BY <2>1, FS_Interval
      <3> QED
        BY <3>1, <3>2
    <2> QED
      BY <2>2, FS_Product
  <1>5. IsFiniteSet(UNION All)
    BY <1>3, <1>4, FS_UNION
  <1>6. Kept(v) = UNION All
    BY DEF Kept
  <1> QED
    BY <1>1, <1>5, <1>6, FS_CardinalityType

Is(x, y) == IF x = y THEN 1 ELSE 0

LEMMA StoredChange ==
  ASSUME TypeOK, NEW s \in Slot, NEW n \in Val, slot' = [slot EXCEPT ![s] = n],
         NEW v \in Val
  PROVE  Cardinality(Stored(v))' =
           Cardinality(Stored(v)) + Is(n, v) - Is(slot[s], v)
  <1>1. IsFiniteSet(Stored(v)) /\ Cardinality(Stored(v)) \in Nat
    BY Sizes
  <1>2. CASE n = v
    <2>1. Stored(v)' = Stored(v) \cup {s}
      BY <1>2 DEF Stored, TypeOK
    <2>2. s \in Stored(v) <=> slot[s] = v
      BY DEF Stored
    <2>3. Cardinality(Stored(v) \cup {s}) =
            IF s \in Stored(v) THEN Cardinality(Stored(v)) ELSE Cardinality(Stored(v)) + 1
      BY <1>1, FS_AddElement
    <2> QED
      BY <1>1, <1>2, <2>1, <2>2, <2>3 DEF Is
  <1>3. CASE n # v
    <2>1. Stored(v)' = Stored(v) \ {s}
      BY <1>3 DEF Stored, TypeOK
    <2>2. s \in Stored(v) <=> slot[s] = v
      BY DEF Stored
    <2>3. Cardinality(Stored(v) \ {s}) =
            IF s \in Stored(v) THEN Cardinality(Stored(v)) - 1 ELSE Cardinality(Stored(v))
      BY <1>1, FS_RemoveElement
    <2> QED
      BY <1>1, <1>3, <2>1, <2>2, <2>3 DEF Is
  <1> QED
    BY <1>2, <1>3

LEMMA OwningChange ==
  ASSUME TypeOK, NEW t \in Thread, NEW n, mine' = [mine EXCEPT ![t] = n],
         NEW v \in Val
  PROVE  Cardinality(Owning(v))' =
           Cardinality(Owning(v)) + Is(n, v) - Is(mine[t], v)
  <1>1. IsFiniteSet(Owning(v)) /\ Cardinality(Owning(v)) \in Nat
    BY Sizes
  <1>2. CASE n = v
    <2>1. Owning(v)' = Owning(v) \cup {t}
      BY <1>2 DEF Owning, TypeOK
    <2>2. t \in Owning(v) <=> mine[t] = v
      BY DEF Owning
    <2>3. Cardinality(Owning(v) \cup {t}) =
            IF t \in Owning(v) THEN Cardinality(Owning(v)) ELSE Cardinality(Owning(v)) + 1
      BY <1>1, FS_AddElement
    <2> QED
      BY <1>1, <1>2, <2>1, <2>2, <2>3 DEF Is
  <1>3. CASE n # v
    <2>1. Owning(v)' = Owning(v) \ {t}
      BY <1>3 DEF Owning, TypeOK
    <2>2. t \in Owning(v) <=> mine[t] = v
      BY DEF Owning
    <2>3. Cardinality(Owning(v) \ {t}) =
            IF t \in Owning(v) THEN Cardinality(Owning(v)) - 1 ELSE Cardinality(Owning(v))
      BY <1>1, FS_RemoveElement
    <2> QED
      BY <1>1, <1>3, <2>1, <2>2, <2>3 DEF Is
  <1> QED
    BY <1>2, <1>3

(* A thread keeps one reference more, or one less, to value w.              *)
LEMMA KeptGrows ==
  ASSUME TypeOK, NEW t \in Thread, NEW w \in Val,
         held' = [held EXCEPT ![t][w] = @ + 1], NEW v \in Val
  PROVE  Cardinality(Kept(v))' = Cardinality(Kept(v)) + Is(w, v)
  <1>1. IsFiniteSet(Kept(v)) /\ Cardinality(Kept(v)) \in Nat
    BY Sizes
  <1>2. CASE w = v
    <2> DEFINE n == held[t][v]
    <2>1. n \in Nat
      BY DEF TypeOK
    <2>2. \A u \in Thread : held'[u][v] = IF u = t THEN n + 1 ELSE held[u][v]
      BY <1>2 DEF TypeOK
    <2>3. 1..(n + 1) = (1..n) \cup {n + 1}
      BY <2>1
    <2>4. <<t, n + 1>> \notin Kept(v)
      BY <2>1 DEF Kept
    <2>5. Kept(v)' = Kept(v) \cup {<<t, n + 1>>}
      <3>1. ASSUME NEW x PROVE x \in Kept(v)' <=> \E u \in Thread : x \in {u} \X (1..held'[u][v])
        BY DEF Kept
      <3>2. ASSUME NEW x PROVE x \in Kept(v) <=> \E u \in Thread : x \in {u} \X (1..held[u][v])
        BY DEF Kept
      <3>3. ASSUME NEW x
            PROVE  (\E u \in Thread : x \in {u} \X (1..held'[u][v]))
                     <=> (\E u \in Thread : x \in {u} \X (1..held[u][v])) \/ x = <<t, n + 1>>
        BY <2>1, <2>2, <2>3
      <3> QED
        BY <3>1, <3>2, <3>3
    <2> QED
      BY <1>1, <1>2, <2>4, <2>5, FS_AddElement DEF Is
  <1>3. CASE w # v
    <2>1. \A u \in Thread : held'[u][v] = held[u][v]
      BY <1>3 DEF TypeOK
    <2>2. Kept(v)' = Kept(v)
      BY <2>1 DEF Kept
    <2> QED
      BY <1>1, <1>3, <2>2 DEF Is
  <1> QED
    BY <1>2, <1>3

LEMMA KeptShrinks ==
  ASSUME TypeOK, NEW t \in Thread, NEW w \in Val, held[t][w] > 0,
         held' = [held EXCEPT ![t][w] = @ - 1], NEW v \in Val
  PROVE  Cardinality(Kept(v))' = Cardinality(Kept(v)) - Is(w, v)
  <1>1. IsFiniteSet(Kept(v)) /\ Cardinality(Kept(v)) \in Nat
    BY Sizes
  <1>2. CASE w = v
    <2> DEFINE n == held[t][v]
    <2>1. n \in Nat /\ n > 0
      BY <1>2 DEF TypeOK
    <2>2. \A u \in Thread : held'[u][v] = IF u = t THEN n - 1 ELSE held[u][v]
      BY <1>2 DEF TypeOK
    <2>3. 1..(n - 1) = (1..n) \ {n}
      BY <2>1
    <2>4. <<t, n>> \in Kept(v)
      BY <2>1 DEF Kept
    <2>5. Kept(v)' = Kept(v) \ {<<t, n>>}
      <3>1. ASSUME NEW x PROVE x \in Kept(v)' <=> \E u \in Thread : x \in {u} \X (1..held'[u][v])
        BY DEF Kept
      <3>2. ASSUME NEW x PROVE x \in Kept(v) <=> \E u \in Thread : x \in {u} \X (1..held[u][v])
        BY DEF Kept
      <3>3. ASSUME NEW x
            PROVE  (\E u \in Thread : x \in {u} \X (1..held'[u][v]))
                     <=> (\E u \in Thread : x \in {u} \X (1..held[u][v])) /\ x # <<t, n>>
        BY <2>1, <2>2, <2>3
      <3> QED
        BY <3>1, <3>2, <3>3
    <2> QED
      BY ZenonT(30), <1>1, <1>2, <2>4, <2>5, FS_RemoveElement DEF Is
  <1>3. CASE w # v
    <2>1. \A u \in Thread : held'[u][v] = held[u][v]
      BY <1>3 DEF TypeOK
    <2>2. Kept(v)' = Kept(v)
      BY <2>1 DEF Kept
    <2> QED
      BY <1>1, <1>3, <2>2 DEF Is
  <1> QED
    BY <1>2, <1>3

LEMMA Unmoved ==
  ASSUME NEW v
  PROVE  /\ UNCHANGED slot => UNCHANGED Cardinality(Stored(v))
         /\ UNCHANGED mine => UNCHANGED Cardinality(Owning(v))
         /\ UNCHANGED held => UNCHANGED Cardinality(Kept(v))
  BY DEF Stored, Owning, Kept

(* What is referred to is counted, so it has not been freed.                *)
LEMMA Positive ==
  ASSUME TypeOK, Balance, NEW v \in Val
  PROVE  /\ \A s \in Slot : slot[s] = v => count[v] > 0
         /\ \A t \in Thread : mine[t] = v => count[v] > 0
         /\ \A t \in Thread : held[t][v] > 0 => count[v] > 0
  <1>1. \A x : /\ x \in Stored(v) => Cardinality(Stored(v)) > 0
               /\ x \in Owning(v) => Cardinality(Owning(v)) > 0
               /\ x \in Kept(v) => Cardinality(Kept(v)) > 0
    BY Sizes, FS_EmptySet
  <1>2. ASSUME NEW t \in Thread, held[t][v] > 0
        PROVE  <<t, 1>> \in Kept(v)
    <2>1. 1 \in 1..held[t][v]
      BY <1>2 DEF TypeOK
    <2> QED
      BY <2>1 DEF Kept
  <1>3. /\ \A s \in Slot : slot[s] = v => s \in Stored(v)
        /\ \A t \in Thread : mine[t] = v => t \in Owning(v)
    BY DEF Stored, Owning
  <1>4. count[v] = Cardinality(Stored(v)) + Cardinality(Owning(v)) + Cardinality(Kept(v))
    BY DEF Balance
  <1>5. /\ Cardinality(Stored(v)) \in Nat
        /\ Cardinality(Owning(v)) \in Nat
        /\ Cardinality(Kept(v)) \in Nat
    BY Sizes
  <1>6. ASSUME \/ Cardinality(Stored(v)) > 0
               \/ Cardinality(Owning(v)) > 0
               \/ Cardinality(Kept(v)) > 0
        PROVE  count[v] > 0
    BY <1>4, <1>5, <1>6
  <1>7. ASSUME NEW s \in Slot, slot[s] = v PROVE count[v] > 0
    BY <1>1, <1>3, <1>6, <1>7
  <1>8. ASSUME NEW t \in Thread, mine[t] = v \/ held[t][v] > 0 PROVE count[v] > 0
    BY <1>1, <1>2, <1>3, <1>6, <1>8
  <1> QED
    BY <1>7, <1>8
-----------------------------------------------------------------------------
LEMMA InitInv == Init => IInv
  <1> SUFFICES ASSUME Init PROVE IInv
    OBVIOUS
  <1>1. PICK v \in Val :
          /\ slot  = [s \in Slot |-> v]
          /\ count = [w \in Val |-> IF w = v THEN Cardinality(Slot) ELSE 0]
          /\ birth = [w \in Val |-> IF w = v THEN 1 ELSE 0]
    BY DEF Init
  <1>2. Cardinality(Slot) \in Nat
    BY FiniteAssumption, FS_CardinalityType
  <1>3. (CHOOSE s \in Slot : TRUE) \in Slot
    BY SlotAssumption
  <1>4. TypeInv
    <2>1. birth \in [Val -> 0..MaxBirth]
      BY <1>1, BoundAssumption
    <2>2. count \in [Val -> Nat] /\ slot \in [Slot -> Val]
      BY <1>1, <1>2
    <2>3. at \in [Thread -> Slot]
      BY <1>3 DEF Init
    <2>4. expected \in [Thread -> [val : Val \cup {None}, birth : 0..MaxBirth]]
      BY BoundAssumption DEF Init, NoValue
    <2> QED
      BY <2>1, <2>2, <2>3, <2>4 DEF Init, TypeInv, TypeOK, Stages
  <1>5. StagesOK
    BY DEF Init, StagesOK, LockOK, StageOK, Owns, Critical, Cas
  <1>6. ASSUME NEW w \in Val
        PROVE  count[w] = Cardinality(Stored(w)) + Cardinality(Owning(w)) + Cardinality(Kept(w))
    <2>1. Stored(w) = IF w = v THEN Slot ELSE {}
      BY <1>1 DEF Stored
    <2>2. Owning(w) = {} /\ Kept(w) = {}
      BY <1>6, ValAssumption DEF Init, Owning, Kept
    <2>3. Cardinality({}) = 0
      BY FS_EmptySet
    <2> QED
      BY <1>1, <1>2, <2>1, <2>2, <2>3
  <1> QED
    BY <1>4, <1>5, <1>6 DEF IInv, Balance

LEMMA CountTypes ==
  ASSUME TypeOK, NEW v \in Val
  PROVE  /\ count' = [count EXCEPT ![v] = @ + 1] => count' \in [Val -> Nat]
         /\ count' = [count EXCEPT ![v] = @ - 1] /\ count[v] > 0 => count' \in [Val -> Nat]
         /\ count' = [count EXCEPT ![v] = 1] => count' \in [Val -> Nat]
  BY DEF TypeOK

LEMMA HeldTypes ==
  ASSUME TypeOK, NEW t \in Thread, NEW v \in Val
  PROVE  /\ held' = [held EXCEPT ![t][v] = @ + 1] => held' \in [Thread -> [Val -> Nat]]
         /\ held' = [held EXCEPT ![t][v] = @ - 1] /\ held[t][v] > 0 =>
              held' \in [Thread -> [Val -> Nat]]
         /\ held' = [held EXCEPT ![t][v] = 1] => held' \in [Thread -> [Val -> Nat]]
  <1>1. held \in [Thread -> [Val -> Nat]] /\ held[t] \in [Val -> Nat] /\ held[t][v] \in Nat
    BY DEF TypeOK
  <1>2. ASSUME NEW n \in Nat, held' = [held EXCEPT ![t][v] = n]
        PROVE  held' \in [Thread -> [Val -> Nat]]
    <2>1. [held[t] EXCEPT ![v] = n] \in [Val -> Nat]
      BY <1>1
    <2>2. held' = [held EXCEPT ![t] = [held[t] EXCEPT ![v] = n]]
      BY <1>2
    <2> QED
      BY <1>1, <2>1, <2>2
  <1> QED
    BY <1>1, <1>2

LEMMA FinishTypes ==
  ASSUME TypeInv, NEW t \in Thread, Finish(t)
  PROVE  /\ pc' \in [Thread -> Stages]
         /\ reg'  \in [Thread -> Val \cup {None}]
         /\ mine' \in [Thread -> Val \cup {None}]
         /\ expected' \in [Thread -> [val : Val \cup {None}, birth : 0..MaxBirth]]
  <1>1. NoValue \in [val : Val \cup {None}, birth : 0..MaxBirth]
    BY BoundAssumption DEF NoValue
  <1>2. "idle" \in Stages
    BY DEF Stages
  <1> QED
    BY <1>1, <1>2 DEF Finish, TypeInv, TypeOK

LEMMA TypeStep ==
  ASSUME IInv, NEW t \in Thread, Call(t) \/ Step(t)
  PROVE  TypeInv'
  <1>0. StageOK(t) /\ TypeInv /\ TypeOK /\ Balance
    BY DEF StagesOK, IInv, TypeInv
  <1>1. ASSUME NEW v \in Val, New(t, v) PROVE TypeInv'
    <2>1. birth' \in [Val -> 0..MaxBirth]
      <3>1. birth[v] + 1 \in 0..MaxBirth
        BY <1>0, <1>1, BoundAssumption DEF New, TypeOK
      <3> QED
        BY <1>0, <1>1, <3>1 DEF New, TypeOK
    <2>2. count' \in [Val -> Nat] /\ held' \in [Thread -> [Val -> Nat]]
      BY <1>0, <1>1, CountTypes, HeldTypes DEF New
    <2> QED
      BY <1>0, <1>1, <2>1, <2>2 DEF New, TypeInv, TypeOK
  <1>2. ASSUME NEW v \in Val, Drop(t, v) PROVE TypeInv'
    <2>1. count' \in [Val -> Nat] /\ held' \in [Thread -> [Val -> Nat]]
      BY <1>0, <1>2, Positive, CountTypes, HeldTypes DEF Drop
    <2> QED
      BY <1>0, <1>2, <2>1 DEF Drop, TypeInv, TypeOK
  <1>3. ASSUME NEW s \in Slot, StartRead(t, s) PROVE TypeInv'
    BY <1>0, <1>3 DEF StartRead, TypeInv, TypeOK, Stages
  <1>4. ASSUME NEW s \in Slot, NEW v \in Val, StartWrite(t, s, v) PROVE TypeInv'
    <2>1. count' \in [Val -> Nat]
      BY <1>0, <1>4, CountTypes DEF StartWrite
    <2> QED
      BY <1>0, <1>4, <2>1 DEF StartWrite, TypeInv, TypeOK, Stages, Owns
  <1>5. ASSUME NEW s \in Slot, NEW e \in Val, NEW d \in Val, StartCas(t, s, e, d) PROVE TypeInv'
    BY <1>0, <1>5 DEF StartCas, TypeInv, TypeOK, Stages, Cas
  <1>6. CASE Acquire(t)
    <2>1. Object(at[t]) \in Slot
      BY <1>0, ObjectIsSlot DEF TypeOK
    <2>2. pc' \in [Thread -> Stages]
      BY <1>0, <1>6 DEF Acquire, Locked, TypeInv, Stages, Critical
    <2> QED
      BY <1>0, <1>6, <2>1, <2>2 DEF Acquire, TypeInv, TypeOK
  <1>7. CASE ReadLoad(t)
    BY <1>0, <1>7 DEF ReadLoad, TypeInv, TypeOK, Stages, Critical
  <1>8. CASE ReadDup(t)
    <2>1. reg[t] \in Val
      BY <1>0, <1>8 DEF ReadDup, StageOK, TypeOK
    <2>2. count' \in [Val -> Nat]
      BY <1>0, <1>8, <2>1, CountTypes DEF ReadDup
    <2> QED
      BY <1>0, <1>8, <2>1, <2>2 DEF ReadDup, TypeInv, TypeOK, Stages, Critical
  <1>9. CASE WriteLoad(t)
    BY <1>0, <1>9 DEF WriteLoad, TypeInv, TypeOK, Stages, Critical
  <1>10. CASE WriteStore(t)
    <2>1. mine[t] \in Val
      BY <1>0, <1>10 DEF WriteStore, StageOK, TypeOK, Owns
    <2> QED
      BY <1>0, <1>10, <2>1 DEF WriteStore, TypeInv, TypeOK, Stages, Critical
  <1>11. CASE CasTest(t)
    <2> DEFINE taken == IF slot[at[t]] = expected[t].val THEN reg[t] ELSE slot[at[t]]
    <2>1. taken \in Val
      BY <1>0, <1>11 DEF CasTest, StageOK, TypeOK, Cas
    <2>2. count' = [count EXCEPT ![taken] = @ + 1] /\ mine' = [mine EXCEPT ![t] = taken]
      BY <1>11 DEF CasTest
    <2>3. count' \in [Val -> Nat] /\ mine' \in [Thread -> Val \cup {None}]
      BY <1>0, <2>1, <2>2, CountTypes DEF TypeOK
    <2>4. pc' \in [Thread -> Stages]
      BY <1>0, <1>11 DEF CasTest, TypeInv, Stages, Critical
    <2> QED
      BY <1>0, <1>11, <2>3, <2>4 DEF CasTest, TypeInv, TypeOK
  <1>12. CASE CasStore(t)
    <2>1. mine[t] \in Val
      BY <1>0, <1>12 DEF CasStore, StageOK, TypeOK, Owns
    <2> QED
      BY <1>0, <1>12, <2>1 DEF CasStore, TypeInv, TypeOK, Stages, Critical
  <1>13. CASE UnlockKeep(t)
    <2>1. mine[t] \in Val /\ Object(at[t]) \in Slot
      BY <1>0, <1>13, ObjectIsSlot DEF UnlockKeep, StageOK, TypeOK, Owns
    <2>2. held' \in [Thread -> [Val -> Nat]]
      BY <1>0, <1>13, <2>1, HeldTypes DEF UnlockKeep
    <2> QED
      BY <1>0, <1>13, <2>1, <2>2, FinishTypes DEF UnlockKeep, TypeInv, TypeOK
  <1>14. CASE UnlockDrop(t)
    BY <1>0, <1>14, ObjectIsSlot DEF UnlockDrop, TypeInv, TypeOK, Stages, Owns
  <1>15. CASE DropOld(t)
    <2>1. mine[t] \in Val
      BY <1>0, <1>15 DEF DropOld, StageOK, TypeOK, Owns
    <2>2. count' \in [Val -> Nat]
      BY <1>0, <1>15, <2>1, Positive, CountTypes DEF DropOld
    <2> QED
      BY <1>0, <1>15, <2>2, FinishTypes DEF DropOld, TypeInv, TypeOK
  <1> QED
    BY <1>1, <1>2, <1>3, <1>4, <1>5, <1>6, <1>7, <1>8, <1>9, <1>10, <1>11, <1>12,
       <1>13, <1>14, <1>15 DEF Call, Step
-----------------------------------------------------------------------------
(* What keeps another thread's stage sound while t steps: what it has       *)
(* locked, loaded and been given stays as it is.                            *)
LEMMA OthersOK ==
  ASSUME StagesOK, NEW u \in Thread,
         pc'[u] = pc[u], at'[u] = at[u], reg'[u] = reg[u], mine'[u] = mine[u],
         expected'[u] = expected[u], held'[u] = held[u],
         pc[u] \in Critical => /\ lock'[Object(at[u])] = lock[Object(at[u])]
                               /\ slot'[at[u]] = slot[at[u]],
         \A v \in Val : held[u][v] > 0 => birth'[v] = birth[v]
  PROVE  LockOK(u)' /\ StageOK(u)'
  <1>1. LockOK(u) /\ StageOK(u)
    BY DEF StagesOK
  <1>2. (Object(at[u]))' = Object(at[u])
    BY DEF Object
  <1>3. LockOK(u)'
    BY <1>1, <1>2 DEF LockOK
  <1> QED
    BY <1>1, <1>3 DEF StageOK, Cas, Critical

LEMMA DifferentSlots ==
  ASSUME StagesOK, NEW t \in Thread, NEW u \in Thread, t # u,
         pc[t] \in Critical, pc[u] \in Critical
  PROVE  Object(at[t]) # Object(at[u]) /\ at[t] # at[u]
  BY DEF StagesOK, LockOK

LEMMA StagesStep ==
  ASSUME IInv, NEW t \in Thread, Call(t) \/ Step(t)
  PROVE  StagesOK'
  <1>0. StageOK(t) /\ LockOK(t) /\ TypeInv /\ TypeOK /\ Balance /\ StagesOK
    BY DEF StagesOK, IInv, TypeInv
  <1>a. Object(at[t]) \in Slot /\ None \notin Thread \cup Val /\ at[t] \in Slot
    BY <1>0, ObjectIsSlot, ValAssumption DEF TypeOK
  <1>b. ASSUME NEW u \in Thread, u # t
        PROVE  LockOK(u)' /\ StageOK(u)'
    <2>1. /\ pc'[u] = pc[u] /\ at'[u] = at[u] /\ reg'[u] = reg[u] /\ mine'[u] = mine[u]
          /\ expected'[u] = expected[u] /\ held'[u] = held[u]
      BY <1>0, <1>b DEF TypeInv, TypeOK, Call, Step, New, Drop, StartRead, StartWrite, StartCas,
         Acquire, ReadLoad, ReadDup, WriteLoad, WriteStore, CasTest, CasStore, UnlockKeep,
         UnlockDrop, DropOld, Finish
    <2>2. ASSUME pc[u] \in Critical
          PROVE  lock'[Object(at[u])] = lock[Object(at[u])] /\ slot'[at[u]] = slot[at[u]]
      <3>1. lock[Object(at[u])] = u /\ Object(at[u]) \in Slot /\ at[u] \in Slot
        BY <1>0, <2>2, ObjectIsSlot DEF StagesOK, LockOK, TypeOK
      <3>2. ASSUME pc[t] \in Critical
            PROVE  Object(at[t]) # Object(at[u]) /\ at[t] # at[u]
        BY <1>0, <1>b, <2>2, <3>2, DifferentSlots
      <3>3. CASE Acquire(t)
        BY <1>0, <1>a, <3>1, <3>3 DEF Acquire, TypeOK
      <3>4. CASE WriteStore(t) \/ CasStore(t) \/ UnlockKeep(t) \/ UnlockDrop(t)
        <4>1. pc[t] \in Critical
          BY <3>4 DEF WriteStore, CasStore, UnlockKeep, UnlockDrop, Critical
        <4> QED
          BY <1>0, <1>a, <3>1, <3>2, <3>4, <4>1
             DEF WriteStore, CasStore, UnlockKeep, UnlockDrop, TypeOK
      <3>5. CASE UNCHANGED <<lock, slot>>
        BY <3>5
      <3> QED
        BY <3>3, <3>4, <3>5 DEF Call, Step, New, Drop, StartRead, StartWrite, StartCas,
           ReadLoad, ReadDup, WriteLoad, CasTest, DropOld
    <2>3. ASSUME NEW v \in Val, held[u][v] > 0
          PROVE  birth'[v] = birth[v]
      <3>1. count[v] > 0
        BY <1>0, <2>3, Positive
      <3>2. \A w \in Val : New(t, w) => birth'[v] = birth[v]
        BY <1>0, <3>1 DEF New, TypeOK
      <3> QED
        BY <3>2 DEF Call, Step, Drop, StartRead, StartWrite, StartCas, Acquire,
           ReadLoad, ReadDup, WriteLoad, WriteStore, CasTest, CasStore, UnlockKeep,
           UnlockDrop, DropOld
    <2> QED
      BY <1>0, <2>1, <2>2, <2>3, OthersOK
  <1>c. SUFFICES LockOK(t)' /\ StageOK(t)'
    BY <1>b DEF StagesOK
  <1>e. ASSUME UNCHANGED at PROVE (Object(at[t]))' = Object(at[t])
    BY <1>e DEF Object
  <1>1. ASSUME NEW v \in Val, New(t, v) \/ Drop(t, v) PROVE LockOK(t)' /\ StageOK(t)'
    BY <1>0, <1>1 DEF New, Drop, LockOK, StageOK, Critical, Cas, Owns
  <1>3. ASSUME NEW s \in Slot, StartRead(t, s) PROVE LockOK(t)' /\ StageOK(t)'
    BY <1>0, <1>3 DEF StartRead, LockOK, StageOK, Critical, Cas, Owns, TypeInv, TypeOK
  <1>4. ASSUME NEW s \in Slot, NEW v \in Val, StartWrite(t, s, v) PROVE LockOK(t)' /\ StageOK(t)'
    BY <1>0, <1>a, <1>4 DEF StartWrite, LockOK, StageOK, Critical, Cas, Owns, TypeInv, TypeOK
  <1>5. ASSUME NEW s \in Slot, NEW e \in Val, NEW d \in Val, StartCas(t, s, e, d)
        PROVE  LockOK(t)' /\ StageOK(t)'
    BY <1>0, <1>5 DEF StartCas, LockOK, StageOK, Critical, Cas, Owns, TypeInv, TypeOK
  <1>6. CASE Acquire(t)
    <2>1. LockOK(t)'
      BY <1>0, <1>a, <1>e, <1>6 DEF Acquire, LockOK, TypeOK
    <2>2. \/ pc[t] = "read lock"  /\ pc'[t] = "read load"
          \/ pc[t] = "write lock" /\ pc'[t] = "write load"
          \/ pc[t] = "cas lock"   /\ pc'[t] = "cas test"
      BY <1>0, <1>6 DEF Acquire, TypeInv, Locked
    <2> QED
      BY <1>0, <1>6, <2>1, <2>2 DEF Acquire, StageOK, Cas, Owns
  <1>7. CASE ReadLoad(t)
    BY <1>0, <1>e, <1>7 DEF ReadLoad, LockOK, StageOK, Critical, Cas, Owns, TypeInv, TypeOK
  <1>8. CASE ReadDup(t)
    <2>1. reg[t] # None /\ mine'[t] = reg[t] /\ pc'[t] = "unlock keep"
      BY ZenonT(30), <1>0, <1>a, <1>8 DEF ReadDup, StageOK, TypeInv, TypeOK
    <2> QED
      BY <1>0, <1>e, <1>8, <2>1 DEF ReadDup, LockOK, StageOK, Critical, Cas, Owns
  <1>9. CASE WriteLoad(t)
    BY <1>0, <1>e, <1>9 DEF WriteLoad, LockOK, StageOK, Critical, Cas, Owns, TypeInv, TypeOK
  <1>10. CASE WriteStore(t)
    <2>1. reg[t] # None /\ mine'[t] = reg[t] /\ pc'[t] = "unlock drop"
      BY ZenonT(30), <1>0, <1>a, <1>10 DEF WriteStore, StageOK, TypeInv, TypeOK
    <2> QED
      BY <1>0, <1>e, <1>10, <2>1 DEF WriteStore, LockOK, StageOK, Critical, Cas, Owns
  <1>11. CASE CasTest(t)
    <2>1. slot[at[t]] \in Val /\ reg[t] \in Val
      BY <1>0, <1>a, <1>11 DEF CasTest, StageOK, TypeOK, Cas
    <2>2. mine'[t] # None
      BY <1>0, <1>a, <1>11, <2>1 DEF CasTest, TypeOK
    <2>3. \/ pc'[t] = "cas store" /\ slot[at[t]] = expected[t].val
          \/ pc'[t] = "unlock keep"
      BY <1>0, <1>11 DEF CasTest, TypeInv
    <2>4. LockOK(t)'
      BY <1>0, <1>e, <1>11 DEF CasTest, LockOK, Critical
    <2> QED
      BY <1>0, <1>11, <2>2, <2>3, <2>4 DEF CasTest, StageOK, Cas, Owns
  <1>12. CASE CasStore(t)
    BY <1>0, <1>a, <1>e, <1>12 DEF CasStore, LockOK, StageOK, Critical, Cas, Owns, TypeInv, TypeOK
  <1>13. CASE UnlockKeep(t)
    BY <1>0, <1>13 DEF UnlockKeep, Finish, LockOK, StageOK, Critical, Cas, Owns, TypeInv, TypeOK
  <1>14. CASE UnlockDrop(t)
    BY <1>0, <1>14 DEF UnlockDrop, LockOK, StageOK, Critical, Cas, Owns, TypeInv, TypeOK
  <1>15. CASE DropOld(t)
    BY <1>0, <1>15 DEF DropOld, Finish, LockOK, StageOK, Critical, Cas, Owns, TypeInv, TypeOK
  <1> QED
    BY <1>1, <1>3, <1>4, <1>5, <1>6, <1>7, <1>8, <1>9, <1>10, <1>11, <1>12,
       <1>13, <1>14, <1>15 DEF Call, Step
-----------------------------------------------------------------------------
(* The four ways a step moves references of a value: it makes one, gives    *)
(* one up, exchanges a slot's with its own, or takes over the one it owns.  *)
LEMMA BalanceStep ==
  ASSUME IInv, NEW t \in Thread, Call(t) \/ Step(t)
  PROVE  Balance'
  <1> DEFINE S(v) == Cardinality(Stored(v))
             O(v) == Cardinality(Owning(v))
             K(v) == Cardinality(Kept(v))
             Moves(ds, do, dk, v) == /\ (Cardinality(Stored(v)))' = S(v) + ds
                                     /\ (Cardinality(Owning(v)))' = O(v) + do
                                     /\ (Cardinality(Kept(v)))' = K(v) + dk
                                     /\ count'[v] = count[v] + ds + do + dk
  <1>0. StageOK(t) /\ TypeInv /\ TypeOK /\ Balance /\ None \notin Thread \cup Val
    BY ValAssumption DEF StagesOK, IInv, TypeInv
  <1> SUFFICES ASSUME NEW v \in Val
               PROVE  \E ds, do, dk \in Int : Moves(ds, do, dk, v)
    BY <1>0, Sizes DEF Balance
  <1>a. \A x : Is(x, v) \in {0, 1}
    BY DEF Is
  <1>b. S(v) \in Nat /\ O(v) \in Nat /\ K(v) \in Nat /\ count[v] \in Nat
    BY <1>0, Sizes DEF TypeOK
  <1> HIDE DEF S, O, K
  <1>1. ASSUME NEW w \in Val, New(t, w)
        PROVE  Moves(0, 0, Is(w, v), v)
    <2>1. held[t][w] = 0
      <3>1. held[t][w] \in Nat /\ ~(held[t][w] > 0)
        BY <1>0, <1>1, Positive DEF New, TypeOK
      <3> QED
        BY <3>1
    <2>2. held' = [held EXCEPT ![t][w] = @ + 1]
      BY <1>1, <2>1 DEF New
    <2>3. (Cardinality(Kept(v)))' = K(v) + Is(w, v)
      BY <1>0, <2>2, KeptGrows DEF K
    <2>4. count'[v] = count[v] + Is(w, v)
      BY <1>0, <1>1 DEF New, Is, TypeOK
    <2> QED
      BY <1>1, <1>a, <1>b, <2>3, <2>4, Unmoved DEF New, S, O
  <1>2. ASSUME NEW w \in Val, Drop(t, w)
        PROVE  Moves(0, 0, - Is(w, v), v)
    <2>1. (Cardinality(Kept(v)))' = K(v) - Is(w, v)
      BY <1>0, <1>2, KeptShrinks DEF Drop, K
    <2>2. count'[v] = count[v] - Is(w, v)
      BY <1>0, <1>2 DEF Drop, Is, TypeOK
    <2> QED
      BY <1>2, <1>a, <1>b, <2>1, <2>2, Unmoved DEF Drop, S, O
  <1>3. ASSUME UNCHANGED <<slot, count, held, mine>>
        PROVE  Moves(0, 0, 0, v)
    BY <1>3, <1>b, Unmoved DEF S, O, K
  (* A primitive without a reference of its own makes one, to w.            *)
  <1>4. ASSUME NEW w \in Val, mine[t] = None, mine' = [mine EXCEPT ![t] = w],
               count' = [count EXCEPT ![w] = @ + 1], UNCHANGED <<slot, held>>
        PROVE  Moves(0, Is(w, v), 0, v)
    <2>1. (Cardinality(Owning(v)))' = O(v) + Is(w, v) - Is(mine[t], v)
      BY <1>0, <1>4, OwningChange DEF O
    <2>2. Is(mine[t], v) = 0
      BY <1>0, <1>4 DEF Is
    <2>3. count'[v] = count[v] + Is(w, v)
      BY <1>0, <1>4 DEF Is, TypeOK
    <2> QED
      BY <1>4, <1>a, <1>b, <2>1, <2>2, <2>3, Unmoved DEF S, K
  <1>5. ASSUME NEW s \in Slot, NEW w \in Val, StartWrite(t, s, w)
        PROVE  Moves(0, Is(w, v), 0, v)
    <2>1. mine[t] = None
      BY <1>0, <1>5 DEF StartWrite, StageOK, Owns
    <2> QED
      BY <1>4, <1>5, <2>1 DEF StartWrite
  <1>6. CASE ReadDup(t)
    <2>1. mine[t] = None /\ reg[t] \in Val
      BY <1>0, <1>6 DEF ReadDup, StageOK, Owns, TypeOK
    <2>2. Moves(0, Is(reg[t], v), 0, v)
      BY <1>4, <1>6, <2>1 DEF ReadDup
    <2> QED
      BY <1>a, <2>2
  <1>7. CASE CasTest(t)
    <2> DEFINE taken == IF slot[at[t]] = expected[t].val THEN reg[t] ELSE slot[at[t]]
    <2>1. mine[t] = None /\ taken \in Val
      BY <1>0, <1>7 DEF CasTest, StageOK, Owns, Cas, TypeOK
    <2>2. count' = [count EXCEPT ![taken] = @ + 1] /\ mine' = [mine EXCEPT ![t] = taken]
          /\ UNCHANGED <<slot, held>>
      BY <1>7 DEF CasTest
    <2> HIDE DEF taken
    <2>3. Moves(0, Is(taken, v), 0, v)
      BY <1>4, <2>1, <2>2
    <2> QED
      BY <1>a, <2>3
  (* A slot's reference and the primitive's are exchanged.                  *)
  <1>8. ASSUME slot' = [slot EXCEPT ![at[t]] = mine[t]], mine' = [mine EXCEPT ![t] = slot[at[t]]],
               mine[t] \in Val, UNCHANGED <<count, held>>
        PROVE  Moves(Is(mine[t], v) - Is(slot[at[t]], v),
                     Is(slot[at[t]], v) - Is(mine[t], v), 0, v)
    <2>1. at[t] \in Slot
      BY <1>0 DEF TypeOK
    <2>2. (Cardinality(Stored(v)))' = S(v) + Is(mine[t], v) - Is(slot[at[t]], v)
      BY <1>0, <1>8, <2>1, StoredChange DEF S
    <2>3. (Cardinality(Owning(v)))' = O(v) + Is(slot[at[t]], v) - Is(mine[t], v)
      BY <1>0, <1>8, OwningChange DEF O
    <2> QED
      BY <1>8, <1>a, <1>b, <2>2, <2>3, Unmoved DEF K
  <1>9. CASE WriteStore(t) \/ CasStore(t)
    <2>1. mine[t] \in Val
      BY <1>0, <1>9 DEF WriteStore, CasStore, StageOK, Owns, TypeOK
    <2>2. mine' = [mine EXCEPT ![t] = slot[at[t]]]
      BY <1>0, <1>9 DEF WriteStore, CasStore, StageOK
    <2>3. Moves(Is(mine[t], v) - Is(slot[at[t]], v),
                Is(slot[at[t]], v) - Is(mine[t], v), 0, v)
      BY <1>8, <1>9, <2>1, <2>2 DEF WriteStore, CasStore
    <2>4. /\ Is(mine[t], v) - Is(slot[at[t]], v) \in Int
          /\ Is(slot[at[t]], v) - Is(mine[t], v) \in Int
      BY <1>a
    <2> QED
      BY <2>3, <2>4
  <1>10. CASE UnlockKeep(t)
    <2>1. mine[t] \in Val /\ mine' = [mine EXCEPT ![t] = None]
      BY <1>0, <1>10 DEF UnlockKeep, Finish, StageOK, Owns, TypeOK
    <2>2. (Cardinality(Owning(v)))' = O(v) + Is(None, v) - Is(mine[t], v)
      BY <1>0, <2>1, OwningChange DEF O
    <2>3. Is(None, v) = 0
      BY <1>0 DEF Is
    <2>4. (Cardinality(Kept(v)))' = K(v) + Is(mine[t], v)
      BY <1>0, <1>10, <2>1, KeptGrows DEF UnlockKeep, K
    <2>5. Is(mine[t], v) \in {0, 1}
      BY DEF Is
    <2>6. UNCHANGED <<slot, count>>
      BY <1>10 DEF UnlockKeep
    <2>7. Moves(0, - Is(mine[t], v), Is(mine[t], v), v)
      BY <1>b, <2>2, <2>3, <2>4, <2>5, <2>6, Unmoved DEF S
    <2> QED
      BY <2>5, <2>7
  <1>11. CASE DropOld(t)
    <2>1. mine[t] \in Val /\ mine' = [mine EXCEPT ![t] = None]
      BY <1>0, <1>11 DEF DropOld, Finish, StageOK, Owns, TypeOK
    <2>2. (Cardinality(Owning(v)))' = O(v) + Is(None, v) - Is(mine[t], v)
      BY <1>0, <2>1, OwningChange DEF O
    <2>3. Is(None, v) = 0 /\ Is(mine[t], v) \in {0, 1}
      BY <1>0 DEF Is
    <2>4. count'[v] = count[v] - Is(mine[t], v)
      <3>1. count \in [Val -> Nat] /\ count' = [count EXCEPT ![mine[t]] = @ - 1]
        BY <1>0, <1>11 DEF DropOld, TypeOK
      <3> QED
        BY <3>1, <2>1 DEF Is
    <2>5. UNCHANGED <<slot, held>>
      BY <1>11 DEF DropOld
    <2>6. Moves(0, - Is(mine[t], v), 0, v)
      BY <1>b, <2>2, <2>3, <2>4, <2>5, Unmoved DEF S, K
    <2> QED
      BY <2>3, <2>6
  <1>12. CASE \/ UNCHANGED <<slot, count, held, mine>>
              \/ \E w \in Val : New(t, w) \/ Drop(t, w)
              \/ \E s \in Slot, w \in Val : StartWrite(t, s, w)
    <2>1. \A w : Is(w, v) \in Int /\ - Is(w, v) \in Int
      BY <1>a
    <2> HIDE DEF Moves
    <2> QED
      BY <1>1, <1>2, <1>3, <1>5, <1>12, <2>1
  <1> HIDE DEF Moves
  <1> QED
    BY <1>6, <1>7, <1>9, <1>10, <1>11, <1>12
       DEF Call, Step, StartRead, StartCas, Acquire, ReadLoad, WriteLoad, UnlockDrop

THEOREM Invariance == Spec => []IInv
  <1>1. IInv /\ [Next]_vars => IInv'
    <2> SUFFICES ASSUME IInv, [Next]_vars PROVE IInv'
      OBVIOUS
    <2>1. CASE Next
      BY <2>1, TypeStep, StagesStep, BalanceStep DEF Next, IInv
    <2>2. CASE UNCHANGED vars
      <3>1. TypeInv' /\ StagesOK'
        BY <2>2 DEF vars, IInv, TypeInv, TypeOK, StagesOK, LockOK, StageOK, Object
      <3>2. Balance'
        BY <2>2, Unmoved DEF vars, IInv, Balance
      <3> QED
        BY <3>1, <3>2 DEF IInv
    <2> QED
      BY <2>1, <2>2
  <1> QED
    BY InitInv, <1>1, PTL DEF Spec

(* Every reference to a value is counted once: however reads, writes and    *)
(* exchanges of shared slots overlap, a value's count is the number of the  *)
(* slots, variables and primitives that refer to it (idris2rc2_ioprims.c).  *)
THEOREM CountsBalance == Spec => []Balance
  BY Invariance, PTL DEF IInv

(* No primitive counts, stores or compares a pointer to a freed value, and  *)
(* an exchange stores only over the object its caller expected.             *)
THEOREM NothingStale == Spec => []NoStaleValue
  <1>1. IInv => NoStaleValue
    <2> SUFFICES ASSUME IInv PROVE NoStaleValue
      OBVIOUS
    <2>1. TypeOK /\ Balance /\ StagesOK
      BY DEF IInv, TypeInv
    <2>2. \A s \in Slot : count[slot[s]] > 0
      BY <2>1, Positive DEF TypeOK
    <2>3. \A t \in Thread : mine[t] # None => count[mine[t]] > 0
      BY <2>1, Positive DEF TypeOK
    <2>4. ASSUME NEW t \in Thread
          PROVE  /\ pc[t] = "read dup" => count[reg[t]] > 0
                 /\ pc[t] = "cas store" =>
                      slot[at[t]] = expected[t].val /\ birth[slot[at[t]]] = expected[t].birth
      BY <2>1, <2>2 DEF StagesOK, StageOK, Cas, TypeOK
    <2> QED
      BY <2>1, <2>2, <2>3, <2>4 DEF NoStaleValue
  <1> QED
    BY Invariance, <1>1, PTL
=============================================================================
