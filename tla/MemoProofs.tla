----------------------------- MODULE MemoProofs -----------------------------
(***************************************************************************)
(* What the runtime computes once, for any number of threads, values and   *)
(* cells and whatever they need of each other.                             *)
(*                                                                         *)
(* The first part is about stacks: which positions an update of one stack  *)
(* changes, and how many frames of a kind there are after it.  The second  *)
(* part proves the memoized top-level values, the third the lazy cells,    *)
(* the last the composition.                                               *)
(***************************************************************************)
EXTENDS Memo, SequenceTheorems, FiniteSetTheorems, TLAPS

-----------------------------------------------------------------------------
(* Stacks.  A slot is a position of a thread's stack; Slots(st, H) are the  *)
(* ones whose frame is in H.                                                *)

Slots(st, H) == {p \in Thread \X Nat : p[2] \in 1..Len(st[p[1]]) /\ st[p[1]][p[2]] \in H}
One(yes)     == IF yes THEN 1 ELSE 0

LEMMA TopOfStack ==
  ASSUME NEW F, NEW st \in [Thread -> Seq(F)], NEW t \in Thread, st[t] # <<>>
  PROVE  /\ Len(st[t]) \in Nat /\ Len(st[t]) >= 1 /\ Len(st[t]) \in 1..Len(st[t])
         /\ st[t] \in Seq(F) /\ st[t][Len(st[t])] \in F
<1>1. st[t] \in Seq(F)
  OBVIOUS
<1>2. Len(st[t]) \in Nat /\ Len(st[t]) >= 1
  BY <1>1, EmptySeq
<1>3. Len(st[t]) \in 1..Len(st[t])
  BY <1>2
<1> QED
  BY <1>1, <1>2, <1>3, ElementOfSeq

LEMMA InStack ==
  ASSUME NEW F, NEW st \in [Thread -> Seq(F)], NEW t \in Thread
  PROVE  /\ Len(st[t]) \in Nat
         /\ \A i \in 1..Len(st[t]) : i \in Nat /\ st[t][i] \in F
<1>1. st[t] \in Seq(F)
  OBVIOUS
<1> QED
  BY <1>1, ElementOfSeq, LenProperties

(* A frame replaces the innermost one.                                      *)
LEMMA Replaced ==
  ASSUME NEW F, NEW st \in [Thread -> Seq(F)], NEW t \in Thread, st[t] # <<>>, NEW f \in F,
         NEW new, new = [st EXCEPT ![t] = [@ EXCEPT ![Len(@)] = f]]
  PROVE  /\ new \in [Thread -> Seq(F)]
         /\ \A u \in Thread : Len(new[u]) = Len(st[u])
         /\ \A u \in Thread : \A i \in 1..Len(st[u]) :
              new[u][i] = IF u = t /\ i = Len(st[t]) THEN f ELSE st[u][i]
<1> DEFINE s == [st[t] EXCEPT ![Len(st[t])] = f]
<1>1. st[t] \in Seq(F) /\ Len(st[t]) \in 1..Len(st[t])
  BY TopOfStack
<1>2. /\ s \in Seq(F) /\ Len(s) = Len(st[t])
      /\ \A i \in 1..Len(st[t]) : s[i] = IF i = Len(st[t]) THEN f ELSE st[t][i]
  BY <1>1, ExceptSeq
<1>3. new = [st EXCEPT ![t] = s]
  OBVIOUS
<1> HIDE DEF s
<1>4. new[t] = s /\ \A u \in Thread \ {t} : new[u] = st[u]
  BY <1>3
<1>5. new \in [Thread -> Seq(F)]
  BY <1>2, <1>3
<1> QED
  BY <1>2, <1>4, <1>5

(* The innermost frame is replaced and another one put on it.               *)
LEMMA Nested ==
  ASSUME NEW F, NEW st \in [Thread -> Seq(F)], NEW t \in Thread, st[t] # <<>>,
         NEW g \in F, NEW f \in F,
         NEW new, new = [st EXCEPT ![t] = Append([@ EXCEPT ![Len(@)] = g], f)]
  PROVE  /\ new \in [Thread -> Seq(F)]
         /\ Len(new[t]) = Len(st[t]) + 1
         /\ \A u \in Thread \ {t} : new[u] = st[u]
         /\ \A i \in 1..Len(st[t]) : new[t][i] = IF i = Len(st[t]) THEN g ELSE st[t][i]
         /\ new[t][Len(st[t]) + 1] = f
<1> DEFINE r == [st[t] EXCEPT ![Len(st[t])] = g]
<1>1. st[t] \in Seq(F) /\ Len(st[t]) \in 1..Len(st[t]) /\ Len(st[t]) \in Nat
  BY TopOfStack
<1>2. /\ r \in Seq(F) /\ Len(r) = Len(st[t])
      /\ \A i \in 1..Len(st[t]) : r[i] = IF i = Len(st[t]) THEN g ELSE st[t][i]
  BY <1>1, ExceptSeq
<1>3. new = [st EXCEPT ![t] = Append(r, f)]
  OBVIOUS
<1> HIDE DEF r
<1>4. /\ Append(r, f) \in Seq(F) /\ Len(Append(r, f)) = Len(st[t]) + 1
      /\ \A i \in 1..Len(st[t]) : Append(r, f)[i] = r[i]
      /\ Append(r, f)[Len(st[t]) + 1] = f
  BY <1>2, AppendProperties
<1>5. new[t] = Append(r, f) /\ \A u \in Thread \ {t} : new[u] = st[u]
  BY <1>3
<1>6. new \in [Thread -> Seq(F)]
  BY <1>3, <1>4
<1> QED
  BY <1>2, <1>4, <1>5, <1>6

(* The innermost frame goes.                                                *)
LEMMA Popped ==
  ASSUME NEW F, NEW st \in [Thread -> Seq(F)], NEW t \in Thread, st[t] # <<>>,
         NEW r, r = SubSeq(st[t], 1, Len(st[t]) - 1),
         NEW new, new = [st EXCEPT ![t] = r]
  PROVE  /\ new \in [Thread -> Seq(F)]
         /\ \A i : i \in 1..Len(new[t]) <=> i \in 1..Len(st[t]) /\ i # Len(st[t])
         /\ \A u \in Thread \ {t} : new[u] = st[u]
         /\ \A i \in 1..Len(new[t]) : new[t][i] = st[t][i]
<1> DEFINE s == st[t]  n == Len(s) - 1
<1>1. s \in Seq(F) /\ Len(s) \in Nat /\ Len(s) >= 1
  BY TopOfStack
<1>2. \A i \in 1..n : s[i] \in F
  BY <1>1, ElementOfSeq
<1>3. 1 \in Int /\ n \in Int
  BY <1>1
<1> HIDE DEF s
<1>4. /\ SubSeq(s, 1, n) \in Seq(F)
      /\ Len(SubSeq(s, 1, n)) = IF 1 <= n THEN n - 1 + 1 ELSE 0
      /\ \A i \in 1..n - 1 + 1 : SubSeq(s, 1, n)[i] = s[1 + i - 1]
  <2> HIDE DEF n
  <2> QED
    BY <1>2, <1>3, SubSeqProperties
<1>5. r = SubSeq(s, 1, n)
  BY DEF s
<1>6. r \in Seq(F) /\ Len(r) = n /\ \A i \in 1..Len(r) : r[i] = s[i]
  <2>0. n \in Nat
    BY <1>1
  <2>1. Len(r) = n /\ n - 1 + 1 = n
    <3> HIDE DEF n
    <3> QED
      BY <2>0, <1>4, <1>5
  <2>2. \A i \in 1..n : 1 + i - 1 = i
    OBVIOUS
  <2> HIDE DEF n
  <2> QED
    BY <1>4, <1>5, <2>1, <2>2
<1>7. new[t] = r /\ \A u \in Thread \ {t} : new[u] = st[u]
  OBVIOUS
<1>8. new \in [Thread -> Seq(F)]
  BY <1>6
<1>9. \A i : i \in 1..Len(new[t]) <=> i \in 1..Len(st[t]) /\ i # Len(st[t])
  BY <1>1, <1>6, <1>7 DEF s
<1> QED
  BY <1>6, <1>7, <1>8, <1>9 DEF s

(* A first frame on an empty stack.                                         *)
LEMMA Began ==
  ASSUME NEW F, NEW st \in [Thread -> Seq(F)], NEW t \in Thread, NEW f \in F,
         NEW new, new = [st EXCEPT ![t] = <<f>>]
  PROVE  /\ new \in [Thread -> Seq(F)]
         /\ Len(new[t]) = 1 /\ new[t][1] = f
         /\ \A u \in Thread \ {t} : new[u] = st[u]
<1> DEFINE r == <<f>>
<1>1. r \in Seq(F) /\ Len(r) = 1 /\ r[1] = f
  OBVIOUS
<1>2. new = [st EXCEPT ![t] = r]
  OBVIOUS
<1> HIDE DEF r
<1>3. new[t] = r /\ \A u \in Thread \ {t} : new[u] = st[u]
  BY <1>2
<1>4. new \in [Thread -> Seq(F)]
  BY <1>1, <1>2
<1> QED
  BY <1>1, <1>3, <1>4

(* Two sets that differ in at most one element.                             *)
LEMMA OneElement ==
  ASSUME NEW S, IsFiniteSet(S), NEW T, NEW p, T \ {p} = S \ {p}
  PROVE  /\ IsFiniteSet(T) /\ Cardinality(S) \in Nat /\ Cardinality(T) \in Nat
         /\ Cardinality(T) = Cardinality(S) + One(p \in T) - One(p \in S)
<1>1. IsFiniteSet(S \ {p}) /\ Cardinality(S \ {p}) \in Nat /\ Cardinality(S) \in Nat
  BY FS_RemoveElement, FS_CardinalityType
<1>2. Cardinality(S) = Cardinality(S \ {p}) + One(p \in S)
  <2>1. CASE p \in S
    BY <1>1, <2>1, FS_RemoveElement DEF One
  <2>2. CASE p \notin S
    <3>1. S \ {p} = S
      BY <2>2
    <3>2. One(p \in S) = 0
      BY <2>2 DEF One
    <3>3. Cardinality(S) = Cardinality(S \ {p}) /\ Cardinality(S) \in Nat
      BY <1>1, <3>1
    <3> QED
      BY <3>2, <3>3
  <2> QED
    BY <2>1, <2>2
<1>3. IsFiniteSet(T) /\ Cardinality(T) = Cardinality(S \ {p}) + One(p \in T)
  <2>1. CASE p \in T
    <3>1. T = (S \ {p}) \cup {p}
      BY <2>1
    <3>2. p \notin S \ {p}
      OBVIOUS
    <3>3. IsFiniteSet((S \ {p}) \cup {p}) /\ Cardinality((S \ {p}) \cup {p}) = Cardinality(S \ {p}) + 1
      BY <1>1, <3>2, FS_AddElement
    <3> QED
      BY <2>1, <3>1, <3>3 DEF One
  <2>2. CASE p \notin T
    <3>1. T = S \ {p}
      BY <2>2
    <3>2. One(p \in T) = 0
      BY <2>2 DEF One
    <3>3. IsFiniteSet(T) /\ Cardinality(T) = Cardinality(S \ {p}) /\ Cardinality(T) \in Nat
      BY <1>1, <3>1
    <3> HIDE DEF One
    <3> QED
      BY <3>2, <3>3
  <2> QED
    BY <2>1, <2>2
<1>4. One(p \in S) \in {0, 1} /\ One(p \in T) \in {0, 1}
  BY DEF One
<1>5. Cardinality(T) \in Nat
  BY <1>3, FS_CardinalityType
<1> QED
  BY <1>1, <1>2, <1>3, <1>4, <1>5

LEMMA SlotsReplaced ==
  ASSUME NEW F, NEW st \in [Thread -> Seq(F)], NEW t \in Thread, st[t] # <<>>, NEW f \in F,
         NEW new, new = [st EXCEPT ![t] = [@ EXCEPT ![Len(@)] = f]], NEW H
  PROVE  /\ Slots(new, H) \ {<<t, Len(st[t])>>} = Slots(st, H) \ {<<t, Len(st[t])>>}
         /\ <<t, Len(st[t])>> \in Slots(new, H) <=> f \in H
         /\ <<t, Len(st[t])>> \in Slots(st, H) <=> st[t][Len(st[t])] \in H
<1>1. /\ \A u \in Thread : Len(new[u]) = Len(st[u])
      /\ \A u \in Thread : \A i \in 1..Len(st[u]) :
           new[u][i] = IF u = t /\ i = Len(st[t]) THEN f ELSE st[u][i]
  BY Replaced
<1>2. Len(st[t]) \in Nat /\ Len(st[t]) \in 1..Len(st[t])
  BY TopOfStack
<1> QED
  BY <1>1, <1>2 DEF Slots

LEMMA SlotsNested ==
  ASSUME NEW F, NEW st \in [Thread -> Seq(F)], NEW t \in Thread, st[t] # <<>>,
         NEW g \in F, NEW f \in F,
         NEW new, new = [st EXCEPT ![t] = Append([@ EXCEPT ![Len(@)] = g], f)],
         NEW H, g \in H <=> st[t][Len(st[t])] \in H, f \notin H
  PROVE  Slots(new, H) = Slots(st, H)
<1>1. /\ Len(new[t]) = Len(st[t]) + 1
      /\ \A u \in Thread \ {t} : new[u] = st[u]
      /\ \A i \in 1..Len(st[t]) : new[t][i] = IF i = Len(st[t]) THEN g ELSE st[t][i]
      /\ new[t][Len(st[t]) + 1] = f
  BY Nested
<1>2. Len(st[t]) \in Nat /\ Len(st[t]) \in 1..Len(st[t])
  BY TopOfStack
<1>3. \A i : i \in 1..Len(st[t]) + 1 <=> i \in 1..Len(st[t]) \/ i = Len(st[t]) + 1
  BY <1>2
<1>4. \A i : i \in 1..Len(new[t]) /\ new[t][i] \in H <=> i \in 1..Len(st[t]) /\ st[t][i] \in H
  BY <1>1, <1>2, <1>3
<1>5. \A u \in Thread, i \in Nat :
        i \in 1..Len(new[u]) /\ new[u][i] \in H <=> i \in 1..Len(st[u]) /\ st[u][i] \in H
  BY <1>1, <1>4
<1> QED
  BY <1>5 DEF Slots

LEMMA SlotsPopped ==
  ASSUME NEW F, NEW st \in [Thread -> Seq(F)], NEW t \in Thread, st[t] # <<>>,
         NEW r, r = SubSeq(st[t], 1, Len(st[t]) - 1),
         NEW new, new = [st EXCEPT ![t] = r], NEW H
  PROVE  /\ Slots(new, H) = Slots(st, H) \ {<<t, Len(st[t])>>}
         /\ <<t, Len(st[t])>> \in Slots(st, H) <=> st[t][Len(st[t])] \in H
<1>1. /\ \A i : i \in 1..Len(new[t]) <=> i \in 1..Len(st[t]) /\ i # Len(st[t])
      /\ \A u \in Thread \ {t} : new[u] = st[u]
      /\ \A i \in 1..Len(new[t]) : new[t][i] = st[t][i]
  BY Popped
<1>2. Len(st[t]) \in Nat /\ Len(st[t]) \in 1..Len(st[t])
  BY TopOfStack
<1> QED
  BY <1>1, <1>2 DEF Slots

LEMMA SlotsBegan ==
  ASSUME NEW F, NEW st \in [Thread -> Seq(F)], NEW t \in Thread, st[t] = <<>>, NEW f \in F,
         NEW new, new = [st EXCEPT ![t] = <<f>>], NEW H, f \notin H
  PROVE  Slots(new, H) = Slots(st, H)
<1>1. /\ Len(new[t]) = 1 /\ new[t][1] = f
      /\ \A u \in Thread \ {t} : new[u] = st[u]
  BY Began
<1>2. \A i \in 1..Len(new[t]) : new[t][i] \notin H
  BY <1>1
<1>3. 1..Len(st[t]) = {}
  BY EmptySeq
<1> QED
  BY <1>1, <1>2, <1>3 DEF Slots

LEMMA NoSlots ==
  ASSUME NEW st, \A t \in Thread : st[t] = <<>>, NEW H
  PROVE  Slots(st, H) = {}
<1>1. \A t \in Thread : 1..Len(st[t]) = {}
  BY EmptySeq
<1> QED
  BY <1>1 DEF Slots

-----------------------------------------------------------------------------
(* Memoized top-level values: who computes.                                 *)

Places == {"claim", "own", "eval", "push", "publish", "wait", "dup", "return"}
FrameSet == [caf : Caf, at : Places, old : Caf \cup {None}, todo : Seq(Caf)]
StackOK == stack \in [Thread -> Seq(FrameSet)]

(* The frames of claims that were won and are not published yet.            *)
Computes(f) == f.at \in {"own", "eval", "push", "publish"}
Computing(t, i) == t \in Thread /\ i \in 1..Len(stack[t]) /\ Computes(stack[t][i])

(* Whoever computes has claimed, alone, and nothing is published before.    *)
Exclusive ==
  /\ \A c \in Caf : done[c] => claimed[c]
  /\ \A t \in Thread : \A i \in 1..Len(stack[t]) : Computes(stack[t][i]) =>
       claimed[stack[t][i].caf] /\ ~done[stack[t][i].caf]
  /\ \A t, u \in Thread : \A i \in 1..Len(stack[t]), j \in 1..Len(stack[u]) :
       Computes(stack[t][i]) /\ Computes(stack[u][j]) /\ stack[t][i].caf = stack[u][j].caf
         => t = u /\ i = j

IInv == TypeOK /\ StackOK /\ Exclusive

-----------------------------------------------------------------------------
(* What the updates of a stack do, position by position.                    *)

LEMMA TopIsFrame ==
  ASSUME StackOK, NEW t \in Thread, stack[t] # <<>>
  PROVE  /\ Len(stack[t]) \in Nat /\ Len(stack[t]) >= 1
         /\ Len(stack[t]) \in 1..Len(stack[t])
         /\ Top(t) = stack[t][Len(stack[t])]
         /\ Top(t) \in FrameSet
<1>1. stack[t] \in Seq(FrameSet)
  BY DEF StackOK
<1>2. Len(stack[t]) \in Nat /\ Len(stack[t]) >= 1
  BY <1>1, EmptySeq
<1>3. Len(stack[t]) \in 1..Len(stack[t])
  BY <1>2
<1> QED
  BY <1>1, <1>2, <1>3, ElementOfSeq DEF Top

(* A frame replaces the innermost one.                                      *)
LEMMA ReplaceTop ==
  ASSUME StackOK, NEW t \in Thread, stack[t] # <<>>, NEW f \in FrameSet,
         stack' = [stack EXCEPT ![t] = [@ EXCEPT ![Len(@)] = f]]
  PROVE  /\ StackOK'
         /\ \A u \in Thread : Len(stack'[u]) = Len(stack[u])
         /\ \A u \in Thread : \A i \in 1..Len(stack[u]) :
              stack'[u][i] = IF u = t /\ i = Len(stack[t]) THEN f ELSE stack[u][i]
<1>1. stack \in [Thread -> Seq(FrameSet)]
  BY DEF StackOK
<1> QED
  BY <1>1, Replaced DEF StackOK

(* A step that lets nobody compute who did not, and publishes nothing.      *)
LEMMA NobodyNew ==
  ASSUME StackOK, StackOK', Exclusive,
         claimed \in [Caf -> BOOLEAN], claimed' = claimed, done' = done,
         \A u \in Thread : \A i \in 1..Len(stack'[u]) : Computes(stack'[u][i]) =>
            /\ i \in 1..Len(stack[u]) /\ Computes(stack[u][i])
            /\ stack'[u][i].caf = stack[u][i].caf
  PROVE  Exclusive'
  BY DEF Exclusive

(* One that moves the innermost frame on, in particular.                    *)
LEMMA Moved ==
  ASSUME IInv, NEW t \in Thread, stack[t] # <<>>, NEW f \in FrameSet,
         claimed' = claimed, done' = done,
         stack' = [stack EXCEPT ![t] = [@ EXCEPT ![Len(@)] = f]],
         f.caf = Top(t).caf, Computes(f) => Computes(Top(t))
  PROVE  StackOK' /\ Exclusive'
<1>1. StackOK' /\ \A u \in Thread : Len(stack'[u]) = Len(stack[u])
  BY ReplaceTop DEF IInv
<1>2. \A u \in Thread : \A i \in 1..Len(stack[u]) :
        stack'[u][i] = IF u = t /\ i = Len(stack[t]) THEN f ELSE stack[u][i]
  BY ReplaceTop DEF IInv
<1>3. \A u \in Thread : \A i \in 1..Len(stack'[u]) : Computes(stack'[u][i]) =>
        /\ i \in 1..Len(stack[u]) /\ Computes(stack[u][i])
        /\ stack'[u][i].caf = stack[u][i].caf
  BY <1>1, <1>2, TopIsFrame DEF IInv
<1> QED
  BY <1>1, <1>3, NobodyNew DEF IInv, TypeOK

LEMMA GotoReplaces ==
  ASSUME StackOK, NEW t \in Thread, stack[t] # <<>>, NEW where \in Places, Goto(t, where)
  PROVE  LET f == [Top(t) EXCEPT !.at = where]
         IN /\ f \in FrameSet /\ f.caf = Top(t).caf /\ f.at = where
            /\ stack' = [stack EXCEPT ![t] = [@ EXCEPT ![Len(@)] = f]]
<1>1. Top(t) \in FrameSet
  BY TopIsFrame
<1> QED
  BY <1>1 DEF Goto, Top, FrameSet
-----------------------------------------------------------------------------
(* The actions.                                                             *)

LEMMA InitSafe == Init => IInv
<1> SUFFICES ASSUME Init PROVE IInv
  OBVIOUS
<1>1. TypeOK
  BY MainAssumption DEF Init, TypeOK
<1>2. stack = [t \in Thread |-> <<>>]
  BY DEF Init
<1>3. StackOK
  BY <1>2, EmptySeq DEF StackOK
<1>4. \A t \in Thread : 1..Len(stack[t]) = {}
  BY <1>2, EmptySeq
<1>5. Exclusive
  BY <1>4 DEF Init, Exclusive
<1> QED
  BY <1>1, <1>3, <1>5 DEF IInv

LEMMA ClaimSafe ==
  ASSUME IInv, NEW t \in Thread, Claim(t)
  PROVE  IInv'
<1> DEFINE c == Top(t).caf
           where == IF claimed[c] THEN "wait" ELSE "own"
           f == [Top(t) EXCEPT !.at = where]
<1>1. stack[t] # <<>> /\ Top(t) \in FrameSet /\ Top(t).at = "claim" /\ c \in Caf
  BY TopIsFrame DEF Claim, In, IInv, FrameSet
<1>2. /\ f \in FrameSet /\ f.caf = c /\ f.at = where
      /\ stack' = [stack EXCEPT ![t] = [@ EXCEPT ![Len(@)] = f]]
  <2>1. where \in Places /\ Goto(t, where)
    BY DEF Claim, Places
  <2> HIDE DEF where
  <2> QED
    BY <1>1, <2>1, GotoReplaces DEF IInv
<1>3. TypeOK'
  BY <1>1 DEF Claim, IInv, TypeOK, listVars, endVars
<1>4. CASE claimed[c]
  <2>1. claimed' = claimed /\ done' = done
    BY <1>1, <1>4 DEF Claim, IInv, TypeOK
  <2>2. f.at = "wait"
    BY <1>2, <1>4
  <2> HIDE DEF f
  <2> QED
    BY <1>1, <1>2, <1>3, <2>1, <2>2, Moved DEF IInv, Computes
<1>5. CASE ~claimed[c]
  <2>1. /\ done' = done /\ claimed' = [claimed EXCEPT ![c] = TRUE]
    BY DEF Claim
  <2>2. ~done[c] /\ \A u \in Thread : \A i \in 1..Len(stack[u]) :
           Computes(stack[u][i]) => stack[u][i].caf # c
    BY <1>1, <1>5 DEF IInv, Exclusive
  <2> HIDE DEF f
  <2>3. /\ StackOK'
        /\ \A u \in Thread : Len(stack'[u]) = Len(stack[u])
        /\ \A u \in Thread : \A i \in 1..Len(stack[u]) :
             stack'[u][i] = IF u = t /\ i = Len(stack[t]) THEN f ELSE stack[u][i]
    BY <1>1, <1>2, ReplaceTop DEF IInv
  <2>4. Exclusive'
    BY <1>1, <1>2, <2>1, <2>2, <2>3 DEF IInv, Exclusive, TypeOK
  <2> QED
    BY <1>3, <2>3, <2>4 DEF IInv
<1> QED
  BY <1>4, <1>5

LEMMA OwnSafe ==
  ASSUME IInv, NEW t \in Thread, Own(t)
  PROVE  IInv'
<1> DEFINE f == [Top(t) EXCEPT !.at = "eval"]
<1>1. stack[t] # <<>> /\ Top(t) \in FrameSet /\ Top(t).at = "own"
  BY TopIsFrame DEF Own, In, IInv
<1>2. f \in FrameSet /\ f.caf = Top(t).caf /\ stack' = [stack EXCEPT ![t] = [@ EXCEPT ![Len(@)] = f]]
  BY <1>1, GotoReplaces DEF Own, IInv, Places
<1>3. TypeOK'
  BY <1>1 DEF Own, IInv, TypeOK, listVars, endVars, FrameSet
<1> HIDE DEF f
<1> QED
  BY <1>1, <1>2, <1>3, Moved DEF IInv, Computes, Own

(* A nested use: the frame below goes on computing, the new one does not.   *)
LEMMA EvalUseSafe ==
  ASSUME IInv, NEW t \in Thread, EvalUse(t)
  PROVE  IInv'
<1> DEFINE s == stack[t]
           g == [Top(t) EXCEPT !.todo = Tail(@)]
           r == [s EXCEPT ![Len(s)] = g]
           d == Head(Top(t).todo)
           f == Frame(d)
<1>1. /\ s \in Seq(FrameSet) /\ s # <<>> /\ Len(s) \in 1..Len(s)
      /\ Top(t) \in FrameSet /\ Top(t).at = "eval" /\ Top(t) = s[Len(s)]
  BY TopIsFrame DEF EvalUse, In, IInv, StackOK
<1>2. Top(t).todo \in Seq(Caf) /\ Top(t).todo # <<>>
  BY <1>1 DEF EvalUse, FrameSet
<1>3. d \in Caf /\ Tail(Top(t).todo) \in Seq(Caf)
  BY <1>2, HeadTailProperties
<1>4. g \in FrameSet /\ g.caf = Top(t).caf /\ g.at = "eval"
  BY <1>1, <1>3 DEF FrameSet
<1>5. f \in FrameSet /\ ~Computes(f)
  BY <1>3, NeedsAssumption, NoneAssumption DEF Frame, FrameSet, Places, Computes
<1> HIDE DEF g, f
<1>6. /\ r \in Seq(FrameSet) /\ Len(r) = Len(s)
      /\ \A i \in 1..Len(s) : r[i] = IF i = Len(s) THEN g ELSE s[i]
  BY <1>1, <1>4, ExceptSeq
<1>7. stack' = [stack EXCEPT ![t] = Append(r, f)]
  <2>1. r = [s EXCEPT ![Len(s)].todo = Tail(@)]
    BY DEF g, Top
  <2> HIDE DEF r
  <2>2. stack' = [stack EXCEPT ![t] = Append([s EXCEPT ![Len(s)].todo = Tail(@)], f)]
    BY DEF EvalUse, f
  <2> QED
    BY <2>1, <2>2
<1> HIDE DEF r
<1>8. /\ Append(r, f) \in Seq(FrameSet) /\ Len(Append(r, f)) = Len(s) + 1
      /\ \A i \in 1..Len(s) : Append(r, f)[i] = r[i]
      /\ Append(r, f)[Len(s) + 1] = f
  BY <1>5, <1>6, AppendProperties
<1>9. StackOK' /\ stack'[t] = Append(r, f) /\ \A u \in Thread \ {t} : stack'[u] = stack[u]
  BY <1>7, <1>8 DEF IInv, StackOK
<1>10. \A i \in 1..Len(stack'[t]) : Computes(stack'[t][i]) =>
         /\ i \in 1..Len(s) /\ Computes(s[i]) /\ stack'[t][i].caf = s[i].caf
  <2> SUFFICES ASSUME NEW i \in 1..Len(s) + 1, Computes(stack'[t][i])
               PROVE  /\ i \in 1..Len(s) /\ Computes(s[i]) /\ stack'[t][i].caf = s[i].caf
    BY <1>8, <1>9
  <2>1. i \in 1..Len(s)
    BY <1>1, <1>5, <1>8, <1>9
  <2>2. stack'[t][i] = IF i = Len(s) THEN g ELSE s[i]
    BY <2>1, <1>6, <1>8, <1>9
  <2> QED
    BY <2>1, <2>2, <1>1, <1>4 DEF Computes
<1>11. claimed' = claimed /\ done' = done
  BY DEF EvalUse, memoVars
<1>12. Exclusive'
  BY <1>9, <1>10, <1>11, NobodyNew DEF IInv, TypeOK
<1>13. TypeOK'
  BY DEF EvalUse, IInv, TypeOK, memoVars, listVars, endVars
<1> QED
  BY <1>9, <1>12, <1>13 DEF IInv

LEMMA EvalStoreSafe ==
  ASSUME IInv, NEW t \in Thread, EvalStore(t)
  PROVE  IInv'
<1> DEFINE f == [Top(t) EXCEPT !.at = "push", !.old = head]
<1>1. stack[t] # <<>> /\ Top(t) \in FrameSet /\ Top(t).at = "eval"
  BY TopIsFrame DEF EvalStore, In, IInv
<1>2. f \in FrameSet /\ f.caf = Top(t).caf
  BY <1>1 DEF FrameSet, Places, IInv, TypeOK
<1>3. stack' = [stack EXCEPT ![t] = [@ EXCEPT ![Len(@)] = f]]
  BY <1>1 DEF EvalStore, Top, FrameSet
<1>4. TypeOK'
  BY <1>1 DEF EvalStore, IInv, TypeOK, memoVars, listVars, endVars, FrameSet
<1> HIDE DEF f
<1> QED
  BY <1>1, <1>2, <1>3, <1>4, Moved DEF IInv, Computes, EvalStore, memoVars

LEMMA PushSafe ==
  ASSUME IInv, NEW t \in Thread, Push(t)
  PROVE  IInv'
<1>1. stack[t] # <<>> /\ Top(t) \in FrameSet /\ Top(t).at = "push"
  BY TopIsFrame DEF Push, In, IInv
<1>2. TypeOK'
  BY <1>1 DEF Push, IInv, TypeOK, memoVars, endVars, FrameSet
<1>3. claimed' = claimed /\ done' = done
  BY DEF Push, memoVars
<1>4. CASE head = Top(t).old
  <2> DEFINE f == [Top(t) EXCEPT !.at = "publish"]
  <2>1. f \in FrameSet /\ f.caf = Top(t).caf /\ stack' = [stack EXCEPT ![t] = [@ EXCEPT ![Len(@)] = f]]
    BY <1>1, <1>4, GotoReplaces DEF Push, IInv, Places
  <2> HIDE DEF f
  <2> QED
    BY <1>1, <1>2, <1>3, <2>1, Moved DEF IInv, Computes
<1>5. CASE head # Top(t).old
  <2> DEFINE f == [Top(t) EXCEPT !.old = head]
  <2>1. f \in FrameSet /\ f.caf = Top(t).caf
    BY <1>1 DEF FrameSet, IInv, TypeOK
  <2>2. stack' = [stack EXCEPT ![t] = [@ EXCEPT ![Len(@)] = f]]
    BY <1>1, <1>5 DEF Push, Top, FrameSet
  <2> HIDE DEF f
  <2> QED
    BY <1>1, <1>2, <1>3, <2>1, <2>2, Moved DEF IInv, Computes
<1> QED
  BY <1>4, <1>5

(* The one who publishes is the only one who computes the value.            *)
LEMMA PublishSafe ==
  ASSUME IInv, NEW t \in Thread, Publish(t)
  PROVE  IInv'
<1> DEFINE c == Top(t).caf
           f == [Top(t) EXCEPT !.at = "return"]
           n == Len(stack[t])
<1>1. /\ stack[t] # <<>> /\ Top(t) \in FrameSet /\ Top(t).at = "publish" /\ c \in Caf
      /\ n \in 1..n /\ Top(t) = stack[t][n]
  BY TopIsFrame DEF Publish, In, IInv, FrameSet
<1>2. /\ f \in FrameSet /\ f.caf = c /\ f.at = "return"
      /\ stack' = [stack EXCEPT ![t] = [@ EXCEPT ![Len(@)] = f]]
  BY <1>1, GotoReplaces DEF Publish, IInv, Places
<1>3. TypeOK'
  BY <1>1 DEF Publish, IInv, TypeOK, listVars, endVars
<1>4. ~Computes(f) /\ Computes(stack[t][n])
  BY <1>1, <1>2 DEF Computes
<1> HIDE DEF f
<1>5. /\ StackOK'
      /\ \A u \in Thread : Len(stack'[u]) = Len(stack[u])
      /\ \A u \in Thread : \A i \in 1..Len(stack[u]) :
           stack'[u][i] = IF u = t /\ i = n THEN f ELSE stack[u][i]
  BY <1>1, <1>2, ReplaceTop DEF IInv
<1>6. claimed' = claimed /\ done' = [done EXCEPT ![c] = TRUE] /\ claimed[c]
  BY <1>1, <1>4 DEF Publish, IInv, Exclusive
<1>7. \A u \in Thread : \A i \in 1..Len(stack'[u]) : Computes(stack'[u][i]) =>
        /\ Computes(stack[u][i]) /\ stack'[u][i].caf = stack[u][i].caf /\ stack[u][i].caf # c
  BY <1>1, <1>4, <1>5 DEF IInv, Exclusive
<1>8. /\ \A d \in Caf : claimed'[d] = claimed[d]
      /\ \A d \in Caf : done'[d] = (d = c \/ done[d])
  BY <1>1, <1>6 DEF IInv, TypeOK
<1>9. \A u \in Thread : \A i \in 1..Len(stack'[u]) : stack'[u][i].caf \in Caf
  <2> SUFFICES ASSUME NEW u \in Thread, NEW i \in 1..Len(stack'[u])
               PROVE  stack'[u][i].caf \in Caf
    OBVIOUS
  <2>1. stack'[u] \in Seq(FrameSet)
    BY <1>5 DEF StackOK
  <2>2. stack'[u][i] \in FrameSet
    BY <2>1, ElementOfSeq
  <2> QED
    BY <2>2 DEF FrameSet
<1>10. \A d \in Caf : done'[d] => claimed'[d]
  BY <1>6, <1>8 DEF IInv, Exclusive
<1>11. \A u \in Thread : \A i \in 1..Len(stack'[u]) : Computes(stack'[u][i]) =>
         claimed'[stack'[u][i].caf] /\ ~done'[stack'[u][i].caf]
  <2> SUFFICES ASSUME NEW u \in Thread, NEW i \in 1..Len(stack'[u]), Computes(stack'[u][i])
               PROVE  claimed'[stack'[u][i].caf] /\ ~done'[stack'[u][i].caf]
    OBVIOUS
  <2>1. i \in 1..Len(stack[u]) /\ Computes(stack[u][i]) /\ stack[u][i].caf # c
    BY <1>5, <1>7
  <2>2. claimed[stack[u][i].caf] /\ ~done[stack[u][i].caf]
    BY <2>1 DEF IInv, Exclusive
  <2> QED
    BY <1>7, <1>8, <1>9, <2>1, <2>2
<1>12. \A u, v \in Thread : \A i \in 1..Len(stack'[u]), j \in 1..Len(stack'[v]) :
         Computes(stack'[u][i]) /\ Computes(stack'[v][j]) /\ stack'[u][i].caf = stack'[v][j].caf
           => u = v /\ i = j
  <2> SUFFICES ASSUME NEW u \in Thread, NEW v \in Thread,
                      NEW i \in 1..Len(stack'[u]), NEW j \in 1..Len(stack'[v]),
                      Computes(stack'[u][i]), Computes(stack'[v][j]),
                      stack'[u][i].caf = stack'[v][j].caf
               PROVE  u = v /\ i = j
    OBVIOUS
  <2>1. i \in 1..Len(stack[u]) /\ Computes(stack[u][i]) /\ stack'[u][i].caf = stack[u][i].caf
    BY <1>5, <1>7
  <2>2. j \in 1..Len(stack[v]) /\ Computes(stack[v][j]) /\ stack'[v][j].caf = stack[v][j].caf
    BY <1>5, <1>7
  <2>3. stack[u][i].caf = stack[v][j].caf
    BY <2>1, <2>2
  <2>4. \A p, q \in Thread : \A k \in 1..Len(stack[p]), m \in 1..Len(stack[q]) :
          Computes(stack[p][k]) /\ Computes(stack[q][m]) /\ stack[p][k].caf = stack[q][m].caf
            => p = q /\ k = m
    BY Zenon DEF IInv, Exclusive
  <2> QED
    BY <2>1, <2>2, <2>3, <2>4
<1>13. Exclusive'
  BY <1>10, <1>11, <1>12 DEF Exclusive
<1> QED
  BY <1>3, <1>5, <1>13 DEF IInv

LEMMA WaitSafe ==
  ASSUME IInv, NEW t \in Thread, Wait(t)
  PROVE  IInv'
<1>1. stack[t] # <<>> /\ Top(t) \in FrameSet /\ Top(t).at = "wait"
  BY TopIsFrame DEF Wait, In, IInv
<1>2. TypeOK'
  BY <1>1 DEF Wait, IInv, TypeOK, memoVars, listVars
<1>3. CASE done[Top(t).caf]
  <2> DEFINE f == [Top(t) EXCEPT !.at = "dup"]
  <2>1. /\ f \in FrameSet /\ f.caf = Top(t).caf /\ f.at = "dup"
        /\ stack' = [stack EXCEPT ![t] = [@ EXCEPT ![Len(@)] = f]]
    BY <1>1, <1>3, GotoReplaces DEF Wait, IInv, Places
  <2> HIDE DEF f
  <2> QED
    BY <1>1, <1>2, <2>1, Moved DEF IInv, Computes, Wait, memoVars
<1>4. CASE ~done[Top(t).caf]
  BY <1>2, <1>4 DEF Wait, IInv, StackOK, Exclusive, memoVars
<1> QED
  BY <1>3, <1>4

LEMMA DupValueSafe ==
  ASSUME IInv, NEW t \in Thread, DupValue(t)
  PROVE  IInv'
<1> DEFINE f == [Top(t) EXCEPT !.at = "return"]
<1>1. stack[t] # <<>> /\ Top(t) \in FrameSet /\ Top(t).at = "dup"
  BY TopIsFrame DEF DupValue, In, IInv
<1>2. /\ f \in FrameSet /\ f.caf = Top(t).caf /\ f.at = "return"
      /\ stack' = [stack EXCEPT ![t] = [@ EXCEPT ![Len(@)] = f]]
  BY <1>1, GotoReplaces DEF DupValue, IInv, Places
<1>3. TypeOK'
  BY <1>1 DEF DupValue, IInv, TypeOK, memoVars, listVars, endVars, FrameSet
<1> HIDE DEF f
<1> QED
  BY <1>1, <1>2, <1>3, Moved DEF IInv, Computes, DupValue, memoVars

LEMMA ReturnSafe ==
  ASSUME IInv, NEW t \in Thread, Return(t)
  PROVE  IInv'
<1> DEFINE s == stack[t]  r == SubSeq(s, 1, Len(s) - 1)
<1>1. /\ s \in Seq(FrameSet) /\ Len(s) \in Nat /\ Len(s) >= 1
      /\ Top(t) \in FrameSet
  BY TopIsFrame DEF Return, In, IInv, StackOK
<1>2. \A i \in 1..Len(s) - 1 : s[i] \in FrameSet
  BY <1>1, ElementOfSeq
<1>3. /\ r \in Seq(FrameSet) /\ Len(r) = Len(s) - 1
      /\ \A i \in 1..Len(r) : r[i] = s[i]
  BY <1>1, <1>2, SubSeqProperties
<1>4. stack' = [stack EXCEPT ![t] = r]
  BY DEF Return
<1> HIDE DEF r
<1>5. StackOK' /\ stack'[t] = r /\ \A u \in Thread \ {t} : stack'[u] = stack[u]
  BY <1>3, <1>4 DEF IInv, StackOK
<1>6. \A u \in Thread : \A i \in 1..Len(stack'[u]) : Computes(stack'[u][i]) =>
        /\ i \in 1..Len(stack[u]) /\ Computes(stack[u][i])
        /\ stack'[u][i].caf = stack[u][i].caf
  BY <1>1, <1>3, <1>5
<1>7. claimed' = claimed /\ done' = done
  BY DEF Return, memoVars
<1>8. TypeOK'
  <2>1. Top(t).caf \in Caf
    BY <1>1 DEF FrameSet
  <2>2. count' \in [Caf -> Int]
    BY <2>1 DEF Return, IInv, TypeOK
  <2>3. \/ keeps' = keeps
        \/ keeps' = [keeps EXCEPT ![t] = @ \cup {Top(t).caf}]
    BY DEF Return
  <2>4. keeps' \in [Thread -> SUBSET Caf]
    BY <2>1, <2>3 DEF IInv, TypeOK
  <2> QED
    BY <2>2, <2>4 DEF Return, IInv, TypeOK, memoVars, listVars, endVars
<1> QED
  BY <1>5, <1>6, <1>7, <1>8, NobodyNew DEF IInv, TypeOK

LEMMA UseSafe ==
  ASSUME IInv, NEW t \in Thread, NEW c \in Caf, Use(t, c)
  PROVE  IInv'
<1> DEFINE r == <<Frame(c)>>
<1>1. Frame(c) \in FrameSet /\ ~Computes(Frame(c))
  BY NeedsAssumption, NoneAssumption DEF Frame, FrameSet, Places, Computes
<1>2. r \in Seq(FrameSet) /\ Len(r) = 1 /\ r[1] = Frame(c)
  BY <1>1
<1>3. stack' = [stack EXCEPT ![t] = r]
  BY DEF Use
<1> HIDE DEF r
<1>4. StackOK' /\ stack'[t] = r /\ \A u \in Thread \ {t} : stack'[u] = stack[u]
  BY <1>2, <1>3 DEF IInv, StackOK
<1>5. \A u \in Thread : \A i \in 1..Len(stack'[u]) : Computes(stack'[u][i]) =>
        /\ i \in 1..Len(stack[u]) /\ Computes(stack[u][i])
        /\ stack'[u][i].caf = stack[u][i].caf
  BY <1>1, <1>2, <1>4
<1>6. claimed' = claimed /\ done' = done
  BY DEF Use, memoVars
<1>7. TypeOK'
  BY DEF Use, IInv, TypeOK, memoVars, listVars, endVars
<1> QED
  BY <1>4, <1>5, <1>6, <1>7, NobodyNew DEF IInv, TypeOK

(* The rest touches neither a stack nor a claim.                            *)
LEMMA CallsSafe ==
  ASSUME IInv, Calls
  PROVE  IInv'
<1>1. ASSUME NEW t \in Thread, End(t) PROVE IInv'
  BY <1>1 DEF End, IInv, TypeOK, StackOK, Exclusive, memoVars, listVars
<1>2. ASSUME NEW t \in Thread, NEW c \in Caf, Drop(t, c) PROVE IInv'
  BY <1>2 DEF Drop, IInv, TypeOK, StackOK, Exclusive, memoVars, listVars, endVars
<1>3. CASE StartFinish
  BY <1>3 DEF StartFinish, IInv, TypeOK, StackOK, Exclusive, memoVars, listVars
<1>4. CASE DropNode
  BY <1>4, NoneAssumption DEF DropNode, IInv, TypeOK, StackOK, Exclusive, memoVars, listVars
<1>5. CASE Exit
  BY <1>5 DEF Exit, IInv, TypeOK, StackOK, Exclusive, memoVars, listVars
<1> QED
  BY <1>1, <1>2, <1>3, <1>4, <1>5, UseSafe DEF Calls

LEMMA StepSafe == IInv /\ [Next]_vars => IInv'
<1> SUFFICES ASSUME IInv, [Next]_vars PROVE IInv'
  OBVIOUS
<1>1. CASE UNCHANGED vars
  BY <1>1 DEF vars, IInv, TypeOK, StackOK, Exclusive, memoVars, listVars, endVars
<1>2. CASE Calls
  BY <1>2, CallsSafe
<1>3. ASSUME NEW t \in Thread, Step(t) PROVE IInv'
  BY <1>3, ClaimSafe, OwnSafe, EvalUseSafe, EvalStoreSafe, PushSafe, PublishSafe,
     WaitSafe, DupValueSafe, ReturnSafe DEF Step
<1> QED
  BY <1>1, <1>2, <1>3 DEF Next
-----------------------------------------------------------------------------
(* A set without two elements has a cardinality of 0 or 1.                  *)
LEMMA AtMostOne ==
  ASSUME NEW S, \A x, y \in S : x = y
  PROVE  /\ Cardinality(S) \in {0, 1}
         /\ S = {} => Cardinality(S) = 0
<1>1. CASE S = {}
  BY <1>1, FS_EmptySet
<1>2. ASSUME NEW x \in S PROVE Cardinality(S) = 1
  <2>1. S = {x}
    BY <1>2
  <2> QED
    BY <2>1, FS_Singleton
<1> QED
  BY <1>1, <1>2

LEMMA ExclusiveIsOnce == IInv => ComputedOnce
<1> SUFFICES ASSUME IInv, NEW c \in Caf
             PROVE  Cardinality(Frames(c, {"own", "eval", "push", "publish"}))
                      + (IF done[c] THEN 1 ELSE 0) <= 1
  BY DEF IInv, ComputedOnce
<1> DEFINE S == Frames(c, {"own", "eval", "push", "publish"})
<1>1. Cardinality(Caf) \in Nat
  BY CafAssumption, FS_CardinalityType
<1>2. ASSUME NEW p \in S
      PROVE  /\ p[1] \in Thread /\ p = <<p[1], p[2]>>
             /\ p[2] \in 1..Len(stack[p[1]])
             /\ Computes(stack[p[1]][p[2]]) /\ stack[p[1]][p[2]].caf = c
  <2>1. /\ p[1] \in Thread /\ p = <<p[1], p[2]>> /\ p[2] \in 1..Cardinality(Caf) + 1
        /\ p[2] <= Len(stack[p[1]])
    BY DEF Frames
  <2>2. Len(stack[p[1]]) \in Nat
    BY <2>1, LenProperties DEF IInv, StackOK
  <2> QED
    BY <1>1, <2>1, <2>2 DEF Frames, Computes
<1>3. \A p, q \in S : p = q
  <2> SUFFICES ASSUME NEW p \in S, NEW q \in S PROVE p = q
    OBVIOUS
  <2>1. p[1] = q[1] /\ p[2] = q[2]
    BY <1>2 DEF IInv, Exclusive
  <2> QED
    BY <1>2, <2>1
<1>4. done[c] => S = {}
  BY <1>2 DEF IInv, Exclusive
<1> HIDE DEF S
<1>5. Cardinality(S) \in {0, 1} /\ (S = {} => Cardinality(S) = 0)
  BY <1>3, AtMostOne
<1> QED
  BY <1>4, <1>5 DEF S

-----------------------------------------------------------------------------
(* Memoized top-level values: what is published, and who waits for what.    *)

(* A value is handed on only when it is published; a thread does not use    *)
(* again what it keeps.                                                     *)
Later ==
  /\ \A t \in Thread : \A i \in 1..Len(stack[t]) :
       stack[t][i].at \in {"dup", "return"} => done[stack[t][i].caf]
  /\ \A t \in Thread : \A c \in keeps[t] : done[c]
  /\ \A t \in Thread : stack[t] # <<>> => stack[t][1].caf \notin keeps[t]

(* The owner of a value that is not published is in its computation.        *)
Owned(f)  == f.at \in {"eval", "push", "publish"}
OwnerOK ==
  \A c \in Caf : owner[c] # None /\ ~done[c] =>
    \E i \in 1..Len(stack[owner[c]]) :
      stack[owner[c]][i].caf = c /\ Owned(stack[owner[c]][i])

(* Each frame is there because the ones below need it.                      *)
ChainOK ==
  /\ \A t \in Thread : \A i, j \in 1..Len(stack[t]) :
       i < j => stack[t][j].caf \in Needed[stack[t][i].caf]
  /\ \A t \in Thread : \A i \in 1..Len(stack[t]) :
       \A k \in 1..Len(stack[t][i].todo) : stack[t][i].todo[k] \in Uses(stack[t][i].caf)

Waits == Later /\ OwnerOK /\ ChainOK /\ CycleIsReal

LEMMA UsesAreCafs == \A c \in Caf : Uses(c) \subseteq Caf
<1> SUFFICES ASSUME NEW c \in Caf, NEW i \in 1..Len(Needs[c]) PROVE Needs[c][i] \in Caf
  BY DEF Uses
<1>1. Needs[c] \in Seq(Caf)
  BY NeedsAssumption
<1> QED
  BY <1>1, ElementOfSeq

LEMMA NeededStep ==
  ASSUME NEW c \in Caf
  PROVE  /\ Uses(c) \subseteq Needed[c]
         /\ \A e \in Needed[c] : e \in Caf /\ Uses(e) \subseteq Needed[c]
<1>1. Needed[c] = {d \in Caf : \A S \in SUBSET Caf : Uses(c) \subseteq S /\ Closed(S) => d \in S}
  BY DEF Needed
<1> QED
  BY <1>1, UsesAreCafs DEF Closed

LEMMA CafOf == ASSUME StackOK, NEW t \in Thread, NEW i \in 1..Len(stack[t])
               PROVE  stack[t][i] \in FrameSet /\ stack[t][i].caf \in Caf /\ i \in Nat
<1>1. stack[t][i] \in FrameSet /\ i \in Nat
  BY InStack DEF StackOK
<1> QED
  BY <1>1 DEF FrameSet

(* A frame moves on: what it is handed is published, and it stays the       *)
(* owner's frame until then.                                                *)
LEMMA WaitsMoved ==
  ASSUME IInv, Waits, NEW t \in Thread, stack[t] # <<>>, NEW f \in FrameSet,
         stack' = [stack EXCEPT ![t] = [@ EXCEPT ![Len(@)] = f]],
         f.caf = Top(t).caf, f.todo = Top(t).todo,
         f.at \in {"dup", "return"} => done'[f.caf],
         \A c \in Caf : done[c] => done'[c],
         Owned(Top(t)) => Owned(f) \/ done'[f.caf],
         \A c \in Caf : owner'[c] = owner[c] \/ (c = f.caf /\ owner'[c] = t /\ Owned(f)),
         owner \in [Caf -> Thread \cup {None}],
         keeps' = keeps, process' # "cycle"
  PROVE  Waits'
<1> DEFINE n == Len(stack[t])
<1>1. n \in Nat /\ n \in 1..n /\ Top(t) = stack[t][n] /\ Top(t) \in FrameSet /\ f.caf \in Caf
  BY TopIsFrame DEF IInv, FrameSet
<1>2. /\ StackOK'
      /\ \A u \in Thread : Len(stack'[u]) = Len(stack[u])
      /\ \A u \in Thread : \A i \in 1..Len(stack[u]) :
           stack'[u][i] = IF u = t /\ i = n THEN f ELSE stack[u][i]
  BY ReplaceTop DEF IInv
<1>3. \A u \in Thread : \A i \in 1..Len(stack[u]) :
        /\ stack'[u][i].caf = stack[u][i].caf
        /\ stack'[u][i].todo = stack[u][i].todo
  BY <1>1, <1>2
<1>4. Later'
  <2>1. ASSUME NEW u \in Thread, NEW i \in 1..Len(stack'[u]), stack'[u][i].at \in {"dup", "return"}
        PROVE  done'[stack'[u][i].caf]
    <3>1. i \in 1..Len(stack[u])
      BY <1>2
    <3>2. stack[u][i].caf \in Caf
      BY <3>1, CafOf DEF IInv
    <3>3. CASE u = t /\ i = n
      BY <1>2, <2>1, <3>1, <3>3
    <3>4. CASE ~(u = t /\ i = n)
      BY <1>2, <2>1, <3>1, <3>2, <3>4 DEF Waits, Later
    <3> QED
      BY <3>3, <3>4
  <2>2. \A u \in Thread : \A c \in keeps'[u] : done'[c]
    BY DEF Waits, Later, IInv, TypeOK
  <2>3. ASSUME NEW u \in Thread, stack'[u] # <<>>
        PROVE  stack'[u][1].caf \notin keeps'[u]
    <3>1. stack'[u] \in Seq(FrameSet) /\ stack[u] \in Seq(FrameSet)
      BY <1>2 DEF IInv, StackOK
    <3>2. Len(stack'[u]) \in Nat /\ Len(stack'[u]) >= 1
      BY <2>3, <3>1, EmptySeq
    <3>3. 1 \in 1..Len(stack[u]) /\ stack[u] # <<>>
      BY <1>2, <3>2, EmptySeq
    <3> QED
      BY <1>3, <3>3 DEF Waits, Later
  <2> QED
    BY <2>1, <2>2, <2>3 DEF Later
<1>5. OwnerOK'
  <2> SUFFICES ASSUME NEW c \in Caf, owner'[c] # None, ~done'[c]
               PROVE  \E i \in 1..Len(stack'[owner'[c]]) :
                        stack'[owner'[c]][i].caf = c /\ Owned(stack'[owner'[c]][i])
    BY DEF OwnerOK, Owned
  <2>1. CASE owner'[c] = owner[c]
    <3>1. owner[c] \in Thread /\ ~done[c]
      BY <2>1
    <3>2. PICK i \in 1..Len(stack[owner[c]]) :
            stack[owner[c]][i].caf = c /\ Owned(stack[owner[c]][i])
      BY <2>1, <3>1 DEF Waits, OwnerOK
    <3>3. Owned(stack'[owner[c]][i])
      <4>1. CASE owner[c] = t /\ i = n
        <5>1. Owned(Top(t)) /\ f.caf = c
          BY <1>1, <3>2, <4>1
        <5>2. stack'[owner[c]][i] = f
          BY <1>1, <1>2, <4>1
        <5> QED
          BY <5>1, <5>2
      <4>2. CASE ~(owner[c] = t /\ i = n)
        BY <1>2, <3>1, <3>2, <4>2
      <4> QED
        BY <4>1, <4>2
    <3>4. i \in 1..Len(stack'[owner[c]]) /\ stack'[owner[c]][i].caf = c
      BY <1>2, <1>3, <3>1, <3>2
    <3> QED
      BY <2>1, <3>3, <3>4
  <2>2. CASE c = f.caf /\ owner'[c] = t /\ Owned(f)
    <3>1. n \in 1..Len(stack'[t]) /\ stack'[t][n] = f
      BY <1>1, <1>2
    <3> QED
      BY <2>2, <3>1
  <2> QED
    BY <2>1, <2>2
<1>6. ChainOK'
  <2>1. \A u \in Thread : \A i, j \in 1..Len(stack'[u]) :
          i < j => stack'[u][j].caf \in Needed[stack'[u][i].caf]
    BY <1>2, <1>3 DEF Waits, ChainOK
  <2>2. \A u \in Thread : \A i \in 1..Len(stack'[u]) :
          \A k \in 1..Len(stack'[u][i].todo) : stack'[u][i].todo[k] \in Uses(stack'[u][i].caf)
    BY <1>2, <1>3 DEF Waits, ChainOK
  <2> QED
    BY <2>1, <2>2 DEF ChainOK
<1>7. CycleIsReal'
  BY DEF CycleIsReal
<1> QED
  BY <1>4, <1>5, <1>6, <1>7 DEF Waits

LEMMA TopFields ==
  ASSUME IInv, NEW t \in Thread, stack[t] # <<>>, NEW where \in Places, Goto(t, where)
  PROVE  LET f == [Top(t) EXCEPT !.at = where]
         IN /\ f \in FrameSet /\ f.caf = Top(t).caf /\ f.at = where /\ f.todo = Top(t).todo
            /\ f.caf \in Caf /\ f.old = Top(t).old
            /\ stack' = [stack EXCEPT ![t] = [@ EXCEPT ![Len(@)] = f]]
<1>1. Top(t) \in FrameSet
  BY TopIsFrame DEF IInv
<1> QED
  BY <1>1, GotoReplaces DEF FrameSet, IInv

(* The moves, one by one.                                                   *)
LEMMA WaitsGoto ==
  ASSUME IInv, Waits, NEW t \in Thread,
         \/ Claim(t) \/ Own(t) \/ EvalStore(t) \/ Push(t) \/ Publish(t) \/ DupValue(t)
         \/ Wait(t) /\ done[Top(t).caf]
  PROVE  Waits'
<1>1. stack[t] # <<>> /\ Top(t) \in FrameSet /\ Top(t).caf \in Caf /\ process # "cycle"
  <2>1. stack[t] # <<>> /\ process # "cycle"
    BY DEF Claim, Own, EvalStore, Push, Publish, DupValue, Wait, In, Runs
  <2> QED
    BY <2>1, TopIsFrame DEF IInv, FrameSet
<1>2. /\ done \in [Caf -> BOOLEAN] /\ owner \in [Caf -> Thread \cup {None}]
      /\ t # None /\ head \in Caf \cup {None}
  BY NoneAssumption DEF IInv, TypeOK
<1>3. CASE Claim(t)
  <2> DEFINE where == IF claimed[Top(t).caf] THEN "wait" ELSE "own"
             f == [Top(t) EXCEPT !.at = where]
  <2>1. where \in {"wait", "own"} /\ Goto(t, where) /\ where \in Places
    BY <1>3 DEF Claim, Places
  <2>2. /\ f \in FrameSet /\ f.caf = Top(t).caf /\ f.at = where /\ f.todo = Top(t).todo
        /\ stack' = [stack EXCEPT ![t] = [@ EXCEPT ![Len(@)] = f]]
    <3> HIDE DEF where
    <3> QED
      BY <1>1, <2>1, TopFields
  <2>3. owner' = owner /\ done' = done /\ keeps' = keeps /\ process' = process /\ Top(t).at = "claim"
    BY <1>3 DEF Claim, endVars, In
  <2> HIDE DEF where, f
  <2>4. f.at \notin {"dup", "return"} /\ ~Owned(Top(t))
    BY <2>1, <2>2, <2>3 DEF Owned
  <2> QED
    BY <1>1, <1>2, <2>2, <2>3, <2>4, WaitsMoved
<1>4. CASE Own(t)
  <2> DEFINE f == [Top(t) EXCEPT !.at = "eval"]
  <2>1. Goto(t, "eval") /\ "eval" \in Places
    BY <1>4 DEF Own, Places
  <2>2. /\ f \in FrameSet /\ f.caf = Top(t).caf /\ f.at = "eval" /\ f.todo = Top(t).todo
        /\ stack' = [stack EXCEPT ![t] = [@ EXCEPT ![Len(@)] = f]]
    BY <1>1, <2>1, TopFields
  <2>3. /\ owner' = [owner EXCEPT ![Top(t).caf] = t] /\ done' = done /\ keeps' = keeps
        /\ process' = process
    BY <1>4 DEF Own, endVars
  <2> HIDE DEF f
  <2>4. Owned(f) /\ f.at \notin {"dup", "return"}
    BY <2>2 DEF Owned
  <2>5. \A c \in Caf : owner'[c] = owner[c] \/ (c = f.caf /\ owner'[c] = t /\ Owned(f))
    BY <1>1, <1>2, <2>2, <2>3, <2>4
  <2> QED
    BY <1>1, <1>2, <2>2, <2>3, <2>4, <2>5, WaitsMoved
<1>5. CASE EvalStore(t)
  <2> DEFINE f == [Top(t) EXCEPT !.at = "push", !.old = head]
  <2>1. /\ f \in FrameSet /\ f.caf = Top(t).caf /\ f.at = "push" /\ f.todo = Top(t).todo
    BY <1>1, <1>2 DEF FrameSet, Places
  <2>2. stack' = [stack EXCEPT ![t] = [@ EXCEPT ![Len(@)] = f]]
    BY <1>1, <1>5 DEF EvalStore, Top, FrameSet
  <2>3. owner' = owner /\ done' = done /\ keeps' = keeps /\ process' = process
    BY <1>5 DEF EvalStore, endVars, memoVars
  <2> HIDE DEF f
  <2>4. f.at \notin {"dup", "return"} /\ Owned(f)
    BY <2>1 DEF Owned
  <2> QED
    BY <1>1, <1>2, <2>1, <2>2, <2>3, <2>4, WaitsMoved
<1>6. CASE Push(t)
  <2>1. owner' = owner /\ done' = done /\ keeps' = keeps /\ process' = process
    BY <1>6 DEF Push, endVars, memoVars
  <2>2. CASE head = Top(t).old
    <3> DEFINE f == [Top(t) EXCEPT !.at = "publish"]
    <3>1. Goto(t, "publish") /\ "publish" \in Places
      BY <1>6, <2>2 DEF Push, Places
    <3>2. /\ f \in FrameSet /\ f.caf = Top(t).caf /\ f.at = "publish" /\ f.todo = Top(t).todo
          /\ stack' = [stack EXCEPT ![t] = [@ EXCEPT ![Len(@)] = f]]
      BY <1>1, <3>1, TopFields
    <3> HIDE DEF f
    <3>3. f.at \notin {"dup", "return"} /\ Owned(f)
      BY <3>2 DEF Owned
    <3> QED
      BY <1>1, <1>2, <2>1, <3>2, <3>3, WaitsMoved
  <2>3. CASE head # Top(t).old
    <3> DEFINE f == [Top(t) EXCEPT !.old = head]
    <3>1. f \in FrameSet /\ f.caf = Top(t).caf /\ f.at = Top(t).at /\ f.todo = Top(t).todo
      BY <1>1, <1>2 DEF FrameSet
    <3>2. stack' = [stack EXCEPT ![t] = [@ EXCEPT ![Len(@)] = f]]
      BY <1>1, <1>6, <2>3 DEF Push, Top, FrameSet
    <3>3. Top(t).at = "push"
      BY <1>6 DEF Push, In
    <3> HIDE DEF f
    <3>4. f.at \notin {"dup", "return"} /\ Owned(f)
      BY <3>1, <3>3 DEF Owned
    <3> QED
      BY <1>1, <1>2, <2>1, <3>1, <3>2, <3>4, WaitsMoved
  <2> QED
    BY <2>2, <2>3
<1>7. CASE Publish(t)
  <2> DEFINE f == [Top(t) EXCEPT !.at = "return"]
  <2>1. Goto(t, "return") /\ "return" \in Places
    BY <1>7 DEF Publish, Places
  <2>2. /\ f \in FrameSet /\ f.caf = Top(t).caf /\ f.at = "return" /\ f.todo = Top(t).todo
        /\ stack' = [stack EXCEPT ![t] = [@ EXCEPT ![Len(@)] = f]]
    BY <1>1, <2>1, TopFields
  <2>3. /\ done' = [done EXCEPT ![Top(t).caf] = TRUE] /\ owner' = owner /\ keeps' = keeps
        /\ process' = process
    BY <1>7 DEF Publish, endVars
  <2> HIDE DEF f
  <2>4. done'[f.caf] /\ \A c \in Caf : done[c] => done'[c]
    BY <1>1, <1>2, <2>2, <2>3
  <2> QED
    BY <1>1, <1>2, <2>2, <2>3, <2>4, WaitsMoved
<1>8. CASE DupValue(t)
  <2> DEFINE f == [Top(t) EXCEPT !.at = "return"]
  <2>1. Goto(t, "return") /\ "return" \in Places /\ Top(t).at = "dup"
    BY <1>8 DEF DupValue, Places, In
  <2>2. /\ f \in FrameSet /\ f.caf = Top(t).caf /\ f.at = "return" /\ f.todo = Top(t).todo
        /\ stack' = [stack EXCEPT ![t] = [@ EXCEPT ![Len(@)] = f]]
    BY <1>1, <2>1, TopFields
  <2>3. owner' = owner /\ done' = done /\ keeps' = keeps /\ process' = process
    BY <1>8 DEF DupValue, endVars, memoVars
  <2> HIDE DEF f
  <2>4. done'[f.caf]
    BY <1>1, <2>1, <2>2, <2>3, TopIsFrame DEF IInv, Waits, Later
  <2> QED
    BY <1>1, <1>2, <2>1, <2>2, <2>3, <2>4, WaitsMoved
<1>9. CASE Wait(t) /\ done[Top(t).caf]
  <2> DEFINE f == [Top(t) EXCEPT !.at = "dup"]
  <2>1. Goto(t, "dup") /\ "dup" \in Places /\ Top(t).at = "wait" /\ process' = process
    BY <1>9 DEF Wait, Places, In
  <2>2. /\ f \in FrameSet /\ f.caf = Top(t).caf /\ f.at = "dup" /\ f.todo = Top(t).todo
        /\ stack' = [stack EXCEPT ![t] = [@ EXCEPT ![Len(@)] = f]]
    BY <1>1, <2>1, TopFields
  <2>3. owner' = owner /\ done' = done /\ keeps' = keeps
    BY <1>9 DEF Wait, memoVars
  <2> HIDE DEF f
  <2>4. done'[f.caf] /\ ~Owned(Top(t))
    BY <1>9, <2>1, <2>2, <2>3 DEF Owned
  <2> QED
    BY <1>1, <1>2, <2>1, <2>2, <2>3, <2>4, WaitsMoved
<1> QED
  BY <1>3, <1>4, <1>5, <1>6, <1>7, <1>8, <1>9

(* The owner of a value that comes back to it waits for itself.             *)
LEMMA WaitsCycle ==
  ASSUME IInv, Waits, NEW t \in Thread, Wait(t), ~done[Top(t).caf]
  PROVE  Waits'
<1> DEFINE c == Top(t).caf  n == Len(stack[t])
<1>1. /\ stack[t] # <<>> /\ n \in Nat /\ n \in 1..n /\ Top(t) = stack[t][n]
      /\ Top(t) \in FrameSet /\ Top(t).at = "wait" /\ c \in Caf
  BY TopIsFrame DEF Wait, In, IInv, FrameSet
<1>2. /\ owner[c] = t /\ stack' = stack /\ done' = done /\ owner' = owner /\ keeps' = keeps
      /\ process' = "cycle"
  BY DEF Wait, memoVars
<1>3. PICK i \in 1..Len(stack[t]) : stack[t][i].caf = c /\ Owned(stack[t][i])
  BY <1>1, <1>2, NoneAssumption DEF Waits, OwnerOK
<1>4. i # n /\ i < n
  <2>1. i # n
    BY <1>1, <1>3 DEF Owned
  <2> QED
    BY <1>1, <2>1
<1>5. stack[t][n].caf \in Needed[stack[t][i].caf]
  BY <1>1, <1>4 DEF Waits, ChainOK
<1>6. CycleIsReal'
  <2>1. Top(t)' = Top(t)
    BY <1>2 DEF Top
  <2>2. c \in Needed[c]
    BY <1>1, <1>3, <1>5
  <2> QED
    BY <1>1, <1>2, <2>1, <2>2 DEF CycleIsReal
<1>7. Later' /\ OwnerOK' /\ ChainOK'
  BY <1>2 DEF Waits, Later, OwnerOK, ChainOK
<1> QED
  BY <1>6, <1>7 DEF Waits

LEMMA WaitsNested ==
  ASSUME IInv, Waits, NEW t \in Thread, EvalUse(t)
  PROVE  Waits'
<1> DEFINE s == stack[t]
           n == Len(s)
           g == [Top(t) EXCEPT !.todo = Tail(@)]
           d == Head(Top(t).todo)
           f == Frame(d)
<1>1. /\ s \in Seq(FrameSet) /\ s # <<>> /\ n \in Nat /\ n \in 1..n /\ n >= 1
      /\ Top(t) \in FrameSet /\ Top(t).at = "eval" /\ Top(t) = s[n] /\ Top(t).caf \in Caf
  BY TopIsFrame DEF EvalUse, In, IInv, StackOK, FrameSet
<1>2. Top(t).todo \in Seq(Caf) /\ Top(t).todo # <<>>
  BY <1>1 DEF EvalUse, FrameSet
<1>3. /\ d \in Caf /\ Tail(Top(t).todo) \in Seq(Caf)
      /\ d = Top(t).todo[1] /\ 1 \in 1..Len(Top(t).todo)
      /\ \A k \in 1..Len(Tail(Top(t).todo)) :
           k + 1 \in 1..Len(Top(t).todo) /\ Tail(Top(t).todo)[k] = Top(t).todo[k + 1]
  <2> DEFINE todo == Top(t).todo
  <2>1. todo \in Seq(Caf) /\ todo # <<>>
    BY <1>2
  <2> HIDE DEF todo
  <2>2. /\ Head(todo) \in Caf /\ Tail(todo) \in Seq(Caf) /\ Len(Tail(todo)) = Len(todo) - 1
        /\ \A k \in 1..Len(Tail(todo)) : Tail(todo)[k] = todo[k + 1]
    BY <2>1, HeadTailProperties
  <2>3. Len(todo) \in Nat /\ Len(todo) >= 1 /\ Head(todo) = todo[1]
    BY <2>1, EmptySeq
  <2>4. \A k \in 1..Len(Tail(todo)) : k + 1 \in 1..Len(todo)
    BY <2>2, <2>3
  <2> QED
    BY <2>2, <2>3, <2>4 DEF todo
<1>4. d \in Uses(Top(t).caf)
  BY ZenonT(30), <1>1, <1>3 DEF Waits, ChainOK
<1>5. g \in FrameSet /\ g.caf = Top(t).caf /\ g.at = "eval" /\ g.todo = Tail(Top(t).todo)
  BY <1>1, <1>3 DEF FrameSet
<1>6. f \in FrameSet /\ f.caf = d /\ f.at = "claim" /\ f.todo = Needs[d]
  BY <1>3, NeedsAssumption, NoneAssumption DEF Frame, FrameSet, Places
<1> HIDE DEF g, f
<1>7. stack' = [stack EXCEPT ![t] = Append([@ EXCEPT ![Len(@)] = g], f)]
  BY DEF EvalUse, g, f, Top
<1>8. /\ stack' \in [Thread -> Seq(FrameSet)]
      /\ Len(stack'[t]) = n + 1
      /\ \A u \in Thread \ {t} : stack'[u] = stack[u]
      /\ \A i \in 1..n : stack'[t][i] = IF i = n THEN g ELSE s[i]
      /\ stack'[t][n + 1] = f
  BY <1>1, <1>5, <1>6, <1>7, Nested DEF IInv, StackOK
<1>9. /\ \A i \in 1..n : stack'[t][i].caf = s[i].caf /\ stack'[t][i].at = s[i].at
      /\ \A i : i \in 1..n + 1 <=> i \in 1..n \/ i = n + 1
  BY <1>1, <1>5, <1>8
<1>10. done' = done /\ owner' = owner /\ keeps' = keeps /\ process' = process
  BY DEF EvalUse, memoVars, endVars
<1>11. Later'
  <2>1. ASSUME NEW u \in Thread, NEW i \in 1..Len(stack'[u]), stack'[u][i].at \in {"dup", "return"}
        PROVE  done'[stack'[u][i].caf]
    <3>1. CASE u # t
      BY <1>8, <1>10, <2>1, <3>1 DEF Waits, Later
    <3>2. CASE u = t
      <4>1. i \in 1..n
        BY <1>6, <1>8, <1>9, <2>1, <3>2
      <4> QED
        BY <1>9, <1>10, <2>1, <3>2, <4>1 DEF Waits, Later
    <3> QED
      BY <3>1, <3>2
  <2>2. \A u \in Thread : \A c \in keeps'[u] : done'[c]
    BY <1>10 DEF Waits, Later
  <2>3. \A u \in Thread : stack'[u] # <<>> => stack'[u][1].caf \notin keeps'[u]
    <3>1. 1 \in 1..n
      BY <1>1
    <3> QED
      BY <1>1, <1>8, <1>9, <1>10, <3>1 DEF Waits, Later
  <2> QED
    BY <2>1, <2>2, <2>3 DEF Later
<1>12. OwnerOK'
  <2> SUFFICES ASSUME NEW c \in Caf, owner[c] # None, ~done[c]
               PROVE  \E i \in 1..Len(stack'[owner[c]]) :
                        stack'[owner[c]][i].caf = c /\ Owned(stack'[owner[c]][i])
    BY <1>10 DEF OwnerOK, Owned
  <2>1. PICK i \in 1..Len(stack[owner[c]]) :
          stack[owner[c]][i].caf = c /\ Owned(stack[owner[c]][i])
    BY DEF Waits, OwnerOK
  <2>2. owner[c] \in Thread
    BY DEF IInv, TypeOK
  <2>3. CASE owner[c] # t
    BY <1>8, <2>1, <2>2, <2>3
  <2>4. CASE owner[c] = t
    <3>1. i \in 1..Len(stack'[t])
      BY <1>1, <1>8, <2>1, <2>4
    <3> QED
      BY <1>9, <2>1, <2>4, <3>1 DEF Owned
  <2> QED
    BY <2>3, <2>4
<1>13. ChainOK'
  <2>1. ASSUME NEW u \in Thread, NEW i \in 1..Len(stack'[u]), NEW j \in 1..Len(stack'[u]), i < j
        PROVE  stack'[u][j].caf \in Needed[stack'[u][i].caf]
    <3>1. CASE u # t
      BY <1>8, <2>1, <3>1 DEF Waits, ChainOK
    <3>2. CASE u = t /\ j \in 1..n
      <4>1. i \in 1..n /\ i < j
        BY <1>1, <2>1, <3>2
      <4>2. s[j].caf \in Needed[s[i].caf]
        BY <3>2, <4>1 DEF Waits, ChainOK
      <4> QED
        BY <1>9, <3>2, <4>1, <4>2
    <3>3. CASE u = t /\ j = n + 1
      <4>1. i \in 1..n /\ i \in Nat
        BY <1>1, <1>8, <2>1, <3>3
      <4>2. s[i].caf \in Caf
        BY <4>1, CafOf DEF IInv
      <4>3. Uses(Top(t).caf) \subseteq Needed[s[i].caf]
        <5>1. CASE i = n
          BY <1>1, <4>2, <5>1, NeededStep
        <5>2. CASE i # n
          <6>1. i < n
            BY <1>1, <4>1, <5>2
          <6>2. s[n].caf \in Needed[s[i].caf]
            BY <1>1, <4>1, <6>1 DEF Waits, ChainOK
          <6> QED
            BY <1>1, <4>2, <6>2, NeededStep
        <5> QED
          BY <5>1, <5>2
      <4> QED
        BY <1>4, <1>6, <1>8, <1>9, <3>3, <4>1, <4>3
    <3> QED
      BY <1>8, <1>9, <3>1, <3>2, <3>3
  <2>2. ASSUME NEW u \in Thread, NEW i \in 1..Len(stack'[u]), NEW k \in 1..Len(stack'[u][i].todo)
        PROVE  stack'[u][i].todo[k] \in Uses(stack'[u][i].caf)
    <3>1. CASE u # t
      BY <1>8, <3>1 DEF Waits, ChainOK
    <3>2. CASE u = t /\ i \in 1..n /\ i # n
      <4>1. stack'[t][i] = s[i]
        BY <1>8, <3>2
      <4> QED
        BY <3>2, <4>1 DEF Waits, ChainOK
    <3>3. CASE u = t /\ i = n
      <4>1. stack'[t][i] = g
        BY <1>1, <1>8, <3>3
      <4>2. k \in 1..Len(Tail(Top(t).todo))
        BY <1>5, <3>3, <4>1
      <4>3. stack'[u][i].todo[k] = Top(t).todo[k + 1] /\ k + 1 \in 1..Len(Top(t).todo)
        BY <1>3, <1>5, <3>3, <4>1, <4>2
      <4>4. Top(t).todo[k + 1] \in Uses(Top(t).caf)
        BY <1>1, <4>3 DEF Waits, ChainOK
      <4> QED
        BY <1>5, <3>3, <4>1, <4>3, <4>4
    <3>4. CASE u = t /\ i = n + 1
      BY <1>6, <1>8, <3>4 DEF Uses
    <3> QED
      BY <1>8, <1>9, <3>1, <3>2, <3>3, <3>4
  <2> QED
    BY <2>1, <2>2 DEF ChainOK
<1>14. CycleIsReal'
  BY <1>10 DEF CycleIsReal, EvalUse, In, Runs
<1> QED
  BY <1>11, <1>12, <1>13, <1>14 DEF Waits

LEMMA WaitsReturn ==
  ASSUME IInv, Waits, NEW t \in Thread, Return(t)
  PROVE  Waits'
<1> DEFINE s == stack[t]
           n == Len(s)
           c == Top(t).caf
<1>1. /\ s \in Seq(FrameSet) /\ s # <<>> /\ n \in Nat /\ n \in 1..n /\ n >= 1
      /\ Top(t) \in FrameSet /\ Top(t).at = "return" /\ Top(t) = s[n] /\ c \in Caf
  BY TopIsFrame DEF Return, In, IInv, StackOK, FrameSet
<1>2. done[c]
  BY <1>1 DEF Waits, Later
<1>3. stack' = [stack EXCEPT ![t] = SubSeq(stack[t], 1, Len(stack[t]) - 1)]
  BY DEF Return
<1>4. /\ stack' \in [Thread -> Seq(FrameSet)]
      /\ \A i : i \in 1..Len(stack'[t]) <=> i \in 1..n /\ i # n
      /\ \A u \in Thread \ {t} : stack'[u] = stack[u]
      /\ \A i \in 1..Len(stack'[t]) : stack'[t][i] = s[i]
  BY <1>1, <1>3, Popped DEF IInv, StackOK
<1>5. /\ done' = done /\ owner' = owner /\ process' = process /\ process # "cycle"
      /\ keeps' = IF n = 1 THEN [keeps EXCEPT ![t] = @ \cup {c}] ELSE keeps
  BY DEF Return, memoVars, endVars, In, Runs
<1>6. \A u \in Thread : \A i \in 1..Len(stack'[u]) :
        i \in 1..Len(stack[u]) /\ stack'[u][i] = stack[u][i]
  BY <1>4
<1>7. Later'
  <2>1. \A u \in Thread : \A i \in 1..Len(stack'[u]) :
          stack'[u][i].at \in {"dup", "return"} => done'[stack'[u][i].caf]
    BY <1>5, <1>6 DEF Waits, Later
  <2>2. \A u \in Thread : \A d \in keeps'[u] : done'[d]
    BY <1>2, <1>5 DEF Waits, Later, IInv, TypeOK
  <2>3. ASSUME NEW u \in Thread, stack'[u] # <<>>
        PROVE  stack'[u][1].caf \notin keeps'[u]
    <3>1. stack'[u] \in Seq(FrameSet)
      BY <1>4
    <3>2. 1 \in 1..Len(stack'[u])
      BY <2>3, <3>1, EmptySeq
    <3>3. 1 \in 1..Len(stack[u]) /\ stack'[u][1] = stack[u][1]
      BY <1>6, <3>2
    <3>4. stack[u] # <<>> /\ keeps'[u] = keeps[u]
      <4>1. stack[u] # <<>>
        BY <3>3, EmptySeq
      <4>2. u = t => n # 1
        BY <1>4, <3>2
      <4> QED
        BY <1>5, <4>1, <4>2 DEF IInv, TypeOK
    <3> QED
      BY <3>3, <3>4 DEF Waits, Later
  <2> QED
    BY <2>1, <2>2, <2>3 DEF Later
<1>8. OwnerOK'
  <2> SUFFICES ASSUME NEW d \in Caf, owner[d] # None, ~done[d]
               PROVE  \E i \in 1..Len(stack'[owner[d]]) :
                        stack'[owner[d]][i].caf = d /\ Owned(stack'[owner[d]][i])
    BY <1>5 DEF OwnerOK, Owned
  <2>1. PICK i \in 1..Len(stack[owner[d]]) :
          stack[owner[d]][i].caf = d /\ Owned(stack[owner[d]][i])
    BY DEF Waits, OwnerOK
  <2>2. owner[d] \in Thread
    BY DEF IInv, TypeOK
  <2>3. owner[d] = t => i # n
    BY <1>1, <2>1 DEF Owned
  <2>4. i \in 1..Len(stack'[owner[d]])
    BY <1>4, <2>1, <2>2, <2>3
  <2> QED
    BY <1>6, <2>1, <2>2, <2>4
<1>9. ChainOK'
  <2>1. \A u \in Thread : \A i, j \in 1..Len(stack'[u]) :
          i < j => stack'[u][j].caf \in Needed[stack'[u][i].caf]
    BY SMTT(30), <1>6 DEF Waits, ChainOK
  <2>2. \A u \in Thread : \A i \in 1..Len(stack'[u]) :
          \A k \in 1..Len(stack'[u][i].todo) : stack'[u][i].todo[k] \in Uses(stack'[u][i].caf)
    BY <1>6 DEF Waits, ChainOK
  <2> QED
    BY <2>1, <2>2 DEF ChainOK
<1>10. CycleIsReal'
  BY <1>5 DEF CycleIsReal
<1> QED
  BY <1>7, <1>8, <1>9, <1>10 DEF Waits

LEMMA WaitsUse ==
  ASSUME IInv, Waits, NEW t \in Thread, NEW c \in Caf, Use(t, c)
  PROVE  Waits'
<1> DEFINE f == Frame(c)
<1>1. f \in FrameSet /\ f.caf = c /\ f.at = "claim" /\ f.todo = Needs[c]
  BY NeedsAssumption, NoneAssumption DEF Frame, FrameSet, Places
<1>2. /\ stack' = [stack EXCEPT ![t] = <<f>>] /\ stack[t] = <<>> /\ c \notin keeps[t]
      /\ done' = done /\ owner' = owner /\ keeps' = keeps
      /\ process' = process /\ process # "cycle"
  BY DEF Use, memoVars, endVars, Runs
<1> HIDE DEF f
<1>3. /\ stack' \in [Thread -> Seq(FrameSet)]
      /\ Len(stack'[t]) = 1 /\ stack'[t][1] = f
      /\ \A u \in Thread \ {t} : stack'[u] = stack[u]
  BY <1>1, <1>2, Began DEF IInv, StackOK
<1>4. /\ \A i : i \in 1..Len(stack'[t]) <=> i = 1
      /\ 1..Len(stack[t]) = {}
  BY <1>2, <1>3, EmptySeq
<1>5. Later'
  BY <1>1, <1>2, <1>3, <1>4 DEF Waits, Later
<1>6. OwnerOK'
  BY <1>2, <1>3, <1>4 DEF Waits, OwnerOK, IInv, TypeOK
<1>7. ChainOK'
  <2>1. \A u \in Thread : \A i, j \in 1..Len(stack'[u]) :
          i < j => stack'[u][j].caf \in Needed[stack'[u][i].caf]
    BY <1>3, <1>4 DEF Waits, ChainOK
  <2>2. \A u \in Thread : \A i \in 1..Len(stack'[u]) :
          \A k \in 1..Len(stack'[u][i].todo) : stack'[u][i].todo[k] \in Uses(stack'[u][i].caf)
    <3>1. \A k \in 1..Len(f.todo) : f.todo[k] \in Uses(f.caf)
      BY <1>1 DEF Uses
    <3> QED
      BY <1>3, <1>4, <3>1 DEF Waits, ChainOK
  <2> QED
    BY <2>1, <2>2 DEF ChainOK
<1>8. CycleIsReal'
  BY <1>2 DEF CycleIsReal
<1> QED
  BY <1>5, <1>6, <1>7, <1>8 DEF Waits

LEMMA WaitsStep == IInv /\ Waits /\ [Next]_vars => Waits'
<1> SUFFICES ASSUME IInv, Waits, [Next]_vars PROVE Waits'
  OBVIOUS
<1>1. CASE UNCHANGED vars
  BY <1>1 DEF vars, Waits, Later, OwnerOK, ChainOK, CycleIsReal, memoVars, listVars, endVars, Top
<1>2. CASE Calls
  <2>1. ASSUME NEW t \in Thread, NEW c \in Caf, Drop(t, c) PROVE Waits'
    <3>1. /\ stack' = stack /\ done' = done /\ owner' = owner /\ process' = process
          /\ process # "cycle" /\ \A u \in Thread : keeps'[u] \subseteq keeps[u]
      BY <2>1 DEF Drop, memoVars, endVars, Runs, IInv, TypeOK
    <3> QED
      BY <3>1 DEF Waits, Later, OwnerOK, ChainOK, CycleIsReal
  <2>2. CASE (\E t \in Thread : End(t)) \/ StartFinish \/ DropNode \/ Exit
    <3>1. /\ stack' = stack /\ done' = done /\ owner' = owner /\ keeps' = keeps
          /\ process' # "cycle"
      BY <2>2 DEF End, StartFinish, DropNode, Exit, memoVars, Runs
    <3> QED
      BY <3>1 DEF Waits, Later, OwnerOK, ChainOK, CycleIsReal
  <2> QED
    BY <1>2, <2>1, <2>2, WaitsUse DEF Calls
<1>3. ASSUME NEW t \in Thread, Step(t) PROVE Waits'
  BY <1>3, WaitsGoto, WaitsCycle, WaitsNested, WaitsReturn DEF Step
<1> QED
  BY <1>1, <1>2, <1>3 DEF Next

LEMMA WaitsInit == Init => Waits
<1> SUFFICES ASSUME Init PROVE Waits
  OBVIOUS
<1>1. \A t \in Thread : stack[t] = <<>> /\ 1..Len(stack[t]) = {} /\ keeps[t] = {}
  BY EmptySeq DEF Init
<1>2. (\A c \in Caf : owner[c] = None) /\ process # "cycle"
  BY DEF Init
<1> QED
  BY <1>1, <1>2 DEF Waits, Later, OwnerOK, ChainOK, CycleIsReal
-----------------------------------------------------------------------------
(* Memoized top-level values: the references, and the cleanup list.         *)

(* When main returns last, nobody is inside a use any more.                 *)
Finishing == process \in {"finishing", "exited"}
Quiet ==
  /\ \A t \in ended : t # Main /\ stack[t] = <<>> /\ keeps[t] = {}
  /\ Finishing => /\ Thread \ {Main} \subseteq ended
                  /\ \A t \in Thread : stack[t] = <<>> /\ keeps[t] = {}
  /\ process = "exited" => node = None

LEMMA QuietInit == Init => Quiet
  BY DEF Init, Quiet, Finishing

LEMMA QuietStep == ASSUME Joined, IInv, Quiet, [Next]_vars PROVE Quiet'
<1>1. CASE UNCHANGED vars
  BY <1>1 DEF vars, Quiet, Finishing, endVars
<1>2. ASSUME NEW t \in Thread, NEW c \in Caf, Use(t, c) \/ Drop(t, c) PROVE Quiet'
  <2>1. process = "up"
    BY <1>2 DEF Use, Drop, Runs, Quiet, Finishing
  <2>2. /\ process' = process /\ ended' = ended /\ t \notin ended
        /\ \A u \in Thread \ {t} : stack'[u] = stack[u] /\ keeps'[u] = keeps[u]
    BY <1>2 DEF Use, Drop, Runs, endVars, IInv, StackOK, TypeOK
  <2> QED
    BY <2>1, <2>2 DEF Quiet, Finishing, IInv, TypeOK
<1>3. ASSUME NEW t \in Thread, Step(t) PROVE Quiet'
  <2>1. stack[t] # <<>> /\ t \notin ended
    BY <1>3 DEF Step, Claim, Own, EvalUse, EvalStore, Push, Publish, Wait, DupValue, Return, In, Runs
  <2>2. process = "up"
    BY <1>3, <2>1 DEF Step, Claim, Own, EvalUse, EvalStore, Push, Publish, Wait, DupValue, Return,
                      In, Runs, Quiet, Finishing
  <2>3. /\ process' \in {"up", "cycle"} /\ ended' = ended
    BY <1>3, <2>2 DEF Step, Claim, Own, EvalUse, EvalStore, Push, Publish, Wait, DupValue, Return, endVars
  <2>4. \A u \in Thread \ {t} : stack'[u] = stack[u]
    BY <1>3 DEF Step, Claim, Own, EvalUse, EvalStore, Push, Publish, Wait, DupValue, Return,
                Goto, IInv, StackOK
  <2>5. \A u \in Thread \ {t} : keeps'[u] = keeps[u]
    BY <1>3 DEF Step, Claim, Own, EvalUse, EvalStore, Push, Publish, Wait, DupValue, Return,
                IInv, TypeOK
  <2> QED
    BY <2>1, <2>3, <2>4, <2>5 DEF Quiet, Finishing, IInv, TypeOK
<1>4. ASSUME NEW t \in Thread, End(t) PROVE Quiet'
  BY <1>4 DEF End, Quiet, Finishing
<1>5. CASE StartFinish
  BY <1>5 DEF StartFinish, Quiet, Finishing
<1>6. CASE DropNode \/ Exit
  BY <1>6 DEF DropNode, Exit, Quiet, Finishing
<1> QED
  BY <1>1, <1>2, <1>3, <1>4, <1>5, <1>6 DEF Next, Calls

(* The frames that hold a reference to the value, those whose computation   *)
(* has stored it, and those that have pushed it but not published it.       *)
Holding(c) == {f \in FrameSet : f.caf = c /\ f.at \in {"push", "publish", "return"}}
Storing(c) == {f \in FrameSet : f.caf = c /\ f.at \in {"push", "publish"}}
Listing(c) == {f \in FrameSet : f.caf = c /\ f.at = "publish"}
Stored(c)  == done[c] \/ Slots(stack, Storing(c)) # {}
Listed(c)  == done[c] \/ Slots(stack, Listing(c)) # {}
Kept(c)    == {t \in Thread : c \in keeps[t]}

(* The cleanup list: each memo on it has a rank, one above the next one's;  *)
(* the head has the highest.  dropAll has dropped those above its cursor.   *)
At(rank, x) == IF x = None THEN 0 ELSE rank[x]
RankOK(rank) ==
  /\ \A c \in Caf : rank[c] > 0 <=> Listed(c)
  /\ \A c, d \in Caf : rank[c] > 0 /\ rank[c] = rank[d] => c = d
  /\ \A c \in Caf : rank[c] <= At(rank, head)
  /\ head # None => rank[head] > 0
  /\ \A c \in Caf : rank[c] > 0 => rank[c] = At(rank, next[c]) + 1
  /\ \A c \in Caf : rank[c] > 0 /\ next[c] # None => rank[next[c]] > 0
  /\ node # None => rank[node] > 0
Dropped(rank, c) == Finishing /\ rank[c] > At(rank, node)

(* A value's count: the memo's reference, one for each frame that holds it  *)
(* and one for each thread that keeps it.                                   *)
CountOK(rank) ==
  \A c \in Caf :
    /\ IsFiniteSet(Slots(stack, Holding(c))) /\ IsFiniteSet(Kept(c))
    /\ count[c] = One(Stored(c) /\ ~Dropped(rank, c))
                  + Cardinality(Slots(stack, Holding(c))) + Cardinality(Kept(c))

Held == \E rank \in [Caf -> Nat] : RankOK(rank) /\ CountOK(rank)

LEMMA Sizes ==
  ASSUME NEW rank, CountOK(rank), NEW c \in Caf
  PROVE  Cardinality(Slots(stack, Holding(c))) \in Nat /\ Cardinality(Kept(c)) \in Nat
  BY FS_CardinalityType DEF CountOK

LEMMA HeldInit == Init => Held
<1> SUFFICES ASSUME Init PROVE Held
  OBVIOUS
<1> DEFINE rank == [c \in Caf |-> 0]
<1>1. \A t \in Thread : stack[t] = <<>> /\ keeps[t] = {}
  BY DEF Init
<1>2. \A H : Slots(stack, H) = {}
  BY <1>1, NoSlots
<1>3. \A c \in Caf : Kept(c) = {} /\ ~Listed(c) /\ ~Stored(c)
  BY <1>1, <1>2 DEF Kept, Listed, Stored, Init
<1>4. rank \in [Caf -> Nat] /\ \A c \in Caf : rank[c] = 0
  OBVIOUS
<1> HIDE DEF rank
<1>5. RankOK(rank)
  BY <1>3, <1>4 DEF RankOK, At, Init
<1>6. CountOK(rank)
  <2>1. \A c \in Caf : count[c] = 0
    BY DEF Init
  <2>2. IsFiniteSet({}) /\ Cardinality({}) = 0
    BY FS_EmptySet
  <2> QED
    BY <1>2, <1>3, <2>1, <2>2 DEF CountOK, One
<1> QED
  BY <1>4, <1>5, <1>6 DEF Held

(* A frame moves on, and the list is where it was.                          *)
LEMMA HoldMoved ==
  ASSUME StackOK, NEW t \in Thread, stack[t] # <<>>, NEW f \in FrameSet,
         stack' = [stack EXCEPT ![t] = [@ EXCEPT ![Len(@)] = f]],
         NEW H, f \in H <=> Top(t) \in H
  PROVE  Slots(stack', H) = Slots(stack, H)
<1> DEFINE st == stack  new == stack'
           p == <<t, Len(st[t])>>  S == Slots(st, H)  T == Slots(new, H)
<1>1. /\ st \in [Thread -> Seq(FrameSet)] /\ st[t] # <<>> /\ Top(t) = st[t][Len(st[t])]
      /\ new = [st EXCEPT ![t] = [@ EXCEPT ![Len(@)] = f]]
  BY DEF StackOK, Top
<1> HIDE DEF st, new
<1>2. T \ {p} = S \ {p}
  BY <1>1, SlotsReplaced DEF Slots
<1>3. p \in T <=> f \in H
  BY <1>1, SlotsReplaced DEF Slots
<1>4. p \in S <=> Top(t) \in H
  BY <1>1, SlotsReplaced DEF Slots
<1> HIDE DEF p, S, T
<1>5. \A x : x \in T <=> x \in S
  BY <1>2, <1>3, <1>4
<1> QED
  BY <1>5 DEF S, T, st, new

(* Steps that change neither who holds a value nor the list.                *)
LEMMA HeldSame ==
  ASSUME Held, head' = head, next' = next, node' = node, Finishing' = Finishing,
         count' = count, keeps' = keeps,
         \A c \in Caf : Listed(c)' <=> Listed(c),
         \A c \in Caf : Stored(c)' <=> Stored(c),
         \A c \in Caf : Slots(stack', Holding(c)) = Slots(stack, Holding(c))
  PROVE  Held'
<1>1. PICK rank \in [Caf -> Nat] : RankOK(rank) /\ CountOK(rank)
  BY DEF Held
<1>2. RankOK(rank)'
  BY <1>1 DEF RankOK, At
<1>3. \A c \in Caf : Kept(c)' = Kept(c)
  BY DEF Kept
<1>4. \A c \in Caf : Dropped(rank, c)' <=> Dropped(rank, c)
  BY DEF Dropped, At
<1>5. CountOK(rank)'
  BY <1>1, <1>3, <1>4 DEF CountOK, One
<1> QED
  BY <1>1, <1>2, <1>5 DEF Held

LEMMA HeldClaimOwn ==
  ASSUME IInv, Held, NEW t \in Thread, Claim(t) \/ Own(t) \/ (Wait(t) /\ done[Top(t).caf])
  PROVE  Held'
<1>1. /\ stack[t] # <<>> /\ Top(t).at \in {"claim", "own", "wait"}
      /\ head' = head /\ next' = next /\ node' = node /\ Finishing' = Finishing
      /\ count' = count /\ keeps' = keeps /\ done' = done
  BY DEF Claim, Own, Wait, In, listVars, endVars, Finishing, memoVars
<1>2. PICK where \in {"wait", "own", "eval", "dup"} : Goto(t, where)
  BY DEF Claim, Own, Wait
<1> DEFINE f == [Top(t) EXCEPT !.at = where]
<1>3. /\ f \in FrameSet /\ f.at = where
      /\ stack' = [stack EXCEPT ![t] = [@ EXCEPT ![Len(@)] = f]]
  <2>1. where \in Places
    BY DEF Places
  <2> QED
    BY <1>1, <1>2, <2>1, TopFields
<1> HIDE DEF f
<1>4. \A c \in Caf :
        /\ f \notin Holding(c) /\ Top(t) \notin Holding(c)
        /\ f \notin Storing(c) /\ Top(t) \notin Storing(c)
        /\ f \notin Listing(c) /\ Top(t) \notin Listing(c)
  BY <1>1, <1>3 DEF Holding, Storing, Listing
<1>5. \A c \in Caf :
        /\ Slots(stack', Holding(c)) = Slots(stack, Holding(c))
        /\ Slots(stack', Storing(c)) = Slots(stack, Storing(c))
        /\ Slots(stack', Listing(c)) = Slots(stack, Listing(c))
  BY <1>1, <1>3, <1>4, HoldMoved DEF IInv
<1>6. \A c \in Caf : (Listed(c)' <=> Listed(c)) /\ (Stored(c)' <=> Stored(c))
  BY <1>1, <1>5 DEF Listed, Stored, Listing, Storing
<1> QED
  BY <1>1, <1>5, <1>6, HeldSame

LEMMA HoldCount ==
  ASSUME StackOK, NEW t \in Thread, stack[t] # <<>>, NEW f \in FrameSet,
         stack' = [stack EXCEPT ![t] = [@ EXCEPT ![Len(@)] = f]],
         NEW H, IsFiniteSet(Slots(stack, H))
  PROVE  /\ IsFiniteSet(Slots(stack', H)) /\ Cardinality(Slots(stack', H)) \in Nat
         /\ Cardinality(Slots(stack', H))
              = Cardinality(Slots(stack, H)) + One(f \in H) - One(Top(t) \in H)
<1> DEFINE st == stack  new == stack'
           p == <<t, Len(st[t])>>  S == Slots(st, H)  T == Slots(new, H)
<1>1. /\ st \in [Thread -> Seq(FrameSet)] /\ st[t] # <<>> /\ Top(t) = st[t][Len(st[t])]
      /\ new = [st EXCEPT ![t] = [@ EXCEPT ![Len(@)] = f]]
  BY DEF StackOK, Top
<1> HIDE DEF st, new
<1>2. T \ {p} = S \ {p}
  BY <1>1, SlotsReplaced DEF Slots
<1>3. p \in T <=> f \in H
  BY <1>1, SlotsReplaced DEF Slots
<1>4. p \in S <=> Top(t) \in H
  BY <1>1, SlotsReplaced DEF Slots
<1>5. IsFiniteSet(S)
  BY DEF st
<1> HIDE DEF p, S, T
<1>6. /\ IsFiniteSet(T) /\ Cardinality(T) \in Nat
      /\ Cardinality(T) = Cardinality(S) + One(p \in T) - One(p \in S)
  BY <1>2, <1>5, OneElement
<1>7. One(p \in T) = One(f \in H) /\ One(p \in S) = One(Top(t) \in H)
  BY <1>3, <1>4 DEF One
<1> QED
  BY <1>6, <1>7 DEF S, T, st, new

(* Nobody else stores what a thread computes.                               *)
LEMMA NobodyElse ==
  ASSUME IInv, NEW t \in Thread, stack[t] # <<>>, Computes(Top(t))
  PROVE  LET c == Top(t).caf
         IN  /\ c \in Caf /\ ~done[c]
             /\ \A p \in Slots(stack, Storing(c)) : p = <<t, Len(stack[t])>>
             /\ \A p \in Slots(stack, Listing(c)) : p = <<t, Len(stack[t])>>
             /\ Top(t) \notin Storing(c) => Slots(stack, Storing(c)) = {}
             /\ Top(t) \notin Listing(c) => Slots(stack, Listing(c)) = {}
<1> DEFINE c == Top(t).caf  n == Len(stack[t])
<1>1. n \in 1..n /\ Top(t) = stack[t][n] /\ c \in Caf /\ ~done[c]
  BY TopIsFrame DEF IInv, FrameSet, Exclusive
<1>2. ASSUME NEW p \in Thread \X Nat, p[2] \in 1..Len(stack[p[1]]),
             stack[p[1]][p[2]] \in Storing(c) \cup Listing(c)
      PROVE  p = <<t, n>>
  <2>1. p[1] \in Thread /\ p = <<p[1], p[2]>> /\ Computes(stack[p[1]][p[2]])
        /\ stack[p[1]][p[2]].caf = stack[t][n].caf
    BY <1>1, <1>2 DEF Computes, Storing, Listing
  <2>2. p[1] = t /\ p[2] = n
    BY <1>1, <1>2, <2>1 DEF IInv, Exclusive
  <2> QED
    BY <2>1, <2>2
<1>3. /\ \A p \in Slots(stack, Storing(c)) : p = <<t, n>> /\ Top(t) \in Storing(c)
      /\ \A p \in Slots(stack, Listing(c)) : p = <<t, n>> /\ Top(t) \in Listing(c)
  BY <1>1, <1>2 DEF Slots
<1> QED
  BY <1>1, <1>3

LEMMA HeldEvalStore ==
  ASSUME IInv, Waits, Held, NEW t \in Thread, EvalStore(t)
  PROVE  Held'
<1> DEFINE c == Top(t).caf
           f == [Top(t) EXCEPT !.at = "push", !.old = head]
<1>1. /\ stack[t] # <<>> /\ Top(t) \in FrameSet /\ Top(t).at = "eval" /\ c \in Caf
      /\ Computes(Top(t))
  BY TopIsFrame DEF EvalStore, In, IInv, FrameSet, Computes
<1>2. /\ f \in FrameSet /\ f.caf = c /\ f.at = "push"
      /\ stack' = [stack EXCEPT ![t] = [@ EXCEPT ![Len(@)] = f]]
  <2>1. f \in FrameSet /\ f.caf = c /\ f.at = "push"
    BY <1>1 DEF FrameSet, Places, IInv, TypeOK
  <2>2. stack' = [stack EXCEPT ![t] = [@ EXCEPT ![Len(@)] = f]]
    BY <1>1 DEF EvalStore, Top, FrameSet
  <2> QED
    BY <2>1, <2>2
<1>3. /\ head' = head /\ next' = next /\ node' = node /\ Finishing' = Finishing
      /\ count' = [count EXCEPT ![c] = 2] /\ keeps' = keeps /\ done' = done
  BY DEF EvalStore, listVars, endVars, Finishing, memoVars
<1> HIDE DEF f
<1>4. PICK rank \in [Caf -> Nat] : RankOK(rank) /\ CountOK(rank)
  BY DEF Held
<1>5. \A d \in Caf :
        /\ f \notin Listing(d) /\ Top(t) \notin Listing(d)
        /\ Top(t) \notin Holding(d) /\ Top(t) \notin Storing(d)
        /\ f \in Holding(d) <=> d = c
        /\ f \in Storing(d) <=> d = c
  BY <1>1, <1>2 DEF Listing, Holding, Storing
<1>6. ~done[c] /\ Slots(stack, Storing(c)) = {} /\ Slots(stack, Listing(c)) = {}
  BY <1>1, <1>5, NobodyElse
<1>7. Slots(stack, Holding(c)) = {} /\ Kept(c) = {}
  <2>1. ASSUME NEW p \in Slots(stack, Holding(c)) PROVE FALSE
    <3>1. /\ p[1] \in Thread /\ p[2] \in 1..Len(stack[p[1]]) /\ p \in Thread \X Nat
          /\ stack[p[1]][p[2]] \in Holding(c)
      BY DEF Slots
    <3>2. stack[p[1]][p[2]].at # "return"
      BY <1>6, <3>1 DEF Holding, Waits, Later
    <3>3. p \in Slots(stack, Storing(c))
      BY <3>1, <3>2 DEF Slots, Holding, Storing
    <3> QED
      BY <1>6, <3>3
  <2>2. Kept(c) = {}
    BY <1>6 DEF Kept, Waits, Later
  <2> QED
    BY <2>1, <2>2
<1>8. \A d \in Caf : Listed(d)' <=> Listed(d)
  <2>1. \A d \in Caf : Slots(stack', Listing(d)) = Slots(stack, Listing(d))
    BY <1>1, <1>2, <1>5, HoldMoved DEF IInv
  <2> QED
    BY <1>3, <2>1 DEF Listed, Listing
<1>9. RankOK(rank)'
  BY <1>3, <1>4, <1>8 DEF RankOK, At
<1>10. \A d \in Caf : Dropped(rank, d)' <=> Dropped(rank, d)
  BY <1>3 DEF Dropped, At
<1>11. CountOK(rank)'
  <2> SUFFICES ASSUME NEW d \in Caf
               PROVE  /\ IsFiniteSet(Slots(stack', Holding(d))) /\ IsFiniteSet(Kept(d)')
                      /\ count'[d] = One(Stored(d)' /\ ~Dropped(rank, d)')
                           + Cardinality(Slots(stack', Holding(d))) + Cardinality(Kept(d)')
    BY DEF CountOK, Holding
  <2>1. Kept(d)' = Kept(d) /\ IsFiniteSet(Kept(d)) /\ IsFiniteSet(Slots(stack, Holding(d)))
    BY <1>3, <1>4 DEF Kept, CountOK
  <2>2. CASE d # c
    <3>1. /\ Slots(stack', Holding(d)) = Slots(stack, Holding(d))
          /\ Slots(stack', Storing(d)) = Slots(stack, Storing(d))
      BY <1>1, <1>2, <1>5, <2>2, HoldMoved DEF IInv
    <3>2. Stored(d)' <=> Stored(d)
      BY <1>3, <3>1 DEF Stored, Storing
    <3>3. count'[d] = count[d]
      BY <1>3, <2>2 DEF IInv, TypeOK
    <3> QED
      BY <1>4, <1>10, <2>1, <3>1, <3>2, <3>3 DEF CountOK, One
  <2>3. CASE d = c
    <3>1. Cardinality(Slots(stack, Holding(d))) = 0 /\ Cardinality(Kept(d)) = 0
      BY <1>7, <2>3, FS_EmptySet
    <3>2. /\ IsFiniteSet(Slots(stack', Holding(d))) /\ Cardinality(Slots(stack', Holding(d))) \in Nat
          /\ Cardinality(Slots(stack', Holding(d)))
               = Cardinality(Slots(stack, Holding(d))) + One(f \in Holding(d)) - One(Top(t) \in Holding(d))
      BY <1>1, <1>2, <2>1, HoldCount DEF IInv
    <3>3. One(f \in Holding(d)) = 1 /\ One(Top(t) \in Holding(d)) = 0
      BY <1>5, <2>3 DEF One
    <3>4. Cardinality(Slots(stack', Holding(d))) = 1
      BY <3>1, <3>2, <3>3
    <3>5. Stored(d)'
      <4>1. Slots(stack', Storing(d)) # {}
        <5>1. Len(stack[t]) \in 1..Len(stack[t]) /\ Len(stack[t]) \in Nat
          BY <1>1, TopIsFrame DEF IInv
        <5>2. stack'[t][Len(stack[t])] = f /\ Len(stack'[t]) = Len(stack[t])
          <6>1. /\ \A u \in Thread : Len(stack'[u]) = Len(stack[u])
                /\ \A u \in Thread : \A i \in 1..Len(stack[u]) :
                     stack'[u][i] = IF u = t /\ i = Len(stack[t]) THEN f ELSE stack[u][i]
            BY <1>1, <1>2, ReplaceTop DEF IInv
          <6> QED
            BY <5>1, <6>1
        <5>3. <<t, Len(stack[t])>> \in Slots(stack', Storing(d))
          BY <1>5, <2>3, <5>1, <5>2 DEF Slots
        <5> QED
          BY <5>3
      <4> QED
        BY <4>1 DEF Stored, Storing
    <3>6. ~Dropped(rank, d)'
      <4>1. rank[d] = 0
        BY <1>4, <1>6, <2>3 DEF RankOK, Listed
      <4>2. At(rank, node) \in Nat
        BY <1>4 DEF At, IInv, TypeOK
      <4> QED
        BY <1>10, <4>1, <4>2 DEF Dropped
    <3>7. count'[d] = 2
      BY <1>1, <1>3, <2>3 DEF IInv, TypeOK
    <3> QED
      BY <2>1, <3>1, <3>2, <3>4, <3>5, <3>6, <3>7 DEF One
  <2> QED
    BY <2>2, <2>3
<1> QED
  BY <1>4, <1>9, <1>11 DEF Held

(* One round of the push.  A round that loses the race writes the link of a *)
(* memo that is not on the list; one that wins puts it on top.              *)
LEMMA HeldPush ==
  ASSUME IInv, Quiet, Held, NEW t \in Thread, Push(t)
  PROVE  Held'
<1> DEFINE c == Top(t).caf
<1>1. /\ stack[t] # <<>> /\ Top(t) \in FrameSet /\ Top(t).at = "push" /\ c \in Caf
      /\ Computes(Top(t)) /\ Top(t).old \in Caf \cup {None}
  BY TopIsFrame DEF Push, In, IInv, FrameSet, Computes
<1>2. /\ node' = node /\ Finishing' = Finishing /\ count' = count /\ keeps' = keeps
      /\ done' = done /\ next' = [next EXCEPT ![c] = Top(t).old]
  BY DEF Push, endVars, Finishing, memoVars
<1>3. PICK rank \in [Caf -> Nat] : RankOK(rank) /\ CountOK(rank)
  BY DEF Held
<1>4. /\ claimed \in [Caf -> BOOLEAN] /\ next \in [Caf -> Caf \cup {None}] /\ head \in Caf \cup {None}
      /\ node \in Caf \cup {None} /\ count \in [Caf -> Int]
  BY DEF IInv, TypeOK
<1>5. ~Listed(c) /\ rank[c] = 0
  <2>1. Top(t) \notin Listing(c)
    BY <1>1 DEF Listing
  <2>2. ~Listed(c)
    BY <1>1, <2>1, NobodyElse DEF Listed
  <2> QED
    BY <1>1, <1>3, <2>2 DEF RankOK
<1>6. CASE head # Top(t).old
  <2> DEFINE f == [Top(t) EXCEPT !.old = head]
  <2>1. f \in FrameSet /\ f.caf = c /\ f.at = "push"
    BY <1>1, <1>4 DEF FrameSet
  <2>2. stack' = [stack EXCEPT ![t] = [@ EXCEPT ![Len(@)] = f]]
    BY <1>1, <1>6 DEF Push, Top, FrameSet
  <2>3. head' = head
    BY <1>6 DEF Push
  <2> HIDE DEF f
  <2>4. \A d \in Caf :
          /\ f \in Listing(d) <=> Top(t) \in Listing(d)
          /\ f \in Holding(d) <=> Top(t) \in Holding(d)
          /\ f \in Storing(d) <=> Top(t) \in Storing(d)
    BY <1>1, <2>1 DEF Listing, Holding, Storing
  <2>5. \A d \in Caf :
          /\ Slots(stack', Holding(d)) = Slots(stack, Holding(d))
          /\ Slots(stack', Storing(d)) = Slots(stack, Storing(d))
          /\ Slots(stack', Listing(d)) = Slots(stack, Listing(d))
    BY <1>1, <2>1, <2>2, <2>4, HoldMoved DEF IInv
  <2>6. \A d \in Caf : (Listed(d)' <=> Listed(d)) /\ (Stored(d)' <=> Stored(d))
    BY <1>2, <2>5 DEF Listed, Stored, Listing, Storing
  <2>7. \A d \in Caf : rank[d] > 0 => next'[d] = next[d]
    BY <1>2, <1>3, <1>4, <1>5
  <2>8. RankOK(rank)'
    BY <1>2, <1>3, <2>3, <2>6, <2>7 DEF RankOK, At
  <2>9. \A d \in Caf : (Kept(d)' = Kept(d)) /\ (Dropped(rank, d)' <=> Dropped(rank, d))
    BY <1>2 DEF Kept, Dropped, At
  <2>10. CountOK(rank)'
    BY <1>2, <1>3, <2>5, <2>6, <2>9 DEF CountOK, One, Holding
  <2> QED
    BY <1>3, <2>8, <2>10 DEF Held
<1>7. CASE head = Top(t).old
  <2> DEFINE f == [Top(t) EXCEPT !.at = "publish"]
             top == At(rank, head) + 1
  <2>1. Goto(t, "publish") /\ "publish" \in Places /\ head' = c
    BY <1>7 DEF Push, Places
  <2>2. /\ f \in FrameSet /\ f.caf = c /\ f.at = "publish"
        /\ stack' = [stack EXCEPT ![t] = [@ EXCEPT ![Len(@)] = f]]
    BY <1>1, <2>1, TopFields
  <2> HIDE DEF f
  <2>3. \A d \in Caf :
          /\ f \in Listing(d) <=> d = c
          /\ Top(t) \notin Listing(d)
          /\ f \in Holding(d) <=> Top(t) \in Holding(d)
          /\ f \in Storing(d) <=> Top(t) \in Storing(d)
    BY <1>1, <2>2 DEF Listing, Holding, Storing
  <2>4. \A d \in Caf :
          /\ Slots(stack', Holding(d)) = Slots(stack, Holding(d))
          /\ Slots(stack', Storing(d)) = Slots(stack, Storing(d))
          /\ d # c => Slots(stack', Listing(d)) = Slots(stack, Listing(d))
    BY <1>1, <2>2, <2>3, HoldMoved DEF IInv
  <2>5. Slots(stack', Listing(c)) # {}
    <3>1. Len(stack[t]) \in 1..Len(stack[t]) /\ Len(stack[t]) \in Nat
      BY <1>1, TopIsFrame DEF IInv
    <3>2. /\ \A u \in Thread : Len(stack'[u]) = Len(stack[u])
          /\ \A u \in Thread : \A i \in 1..Len(stack[u]) :
               stack'[u][i] = IF u = t /\ i = Len(stack[t]) THEN f ELSE stack[u][i]
      BY <1>1, <2>2, ReplaceTop DEF IInv
    <3>3. stack'[t][Len(stack[t])] = f /\ Len(stack'[t]) = Len(stack[t])
      BY <3>1, <3>2
    <3>4. <<t, Len(stack[t])>> \in Slots(stack', Listing(c))
      BY <1>1, <2>3, <3>1, <3>3 DEF Slots
    <3> QED
      BY <3>4
  <2>6. \A d \in Caf : (Listed(d)' <=> Listed(d) \/ d = c) /\ (Stored(d)' <=> Stored(d))
    BY <1>2, <2>4, <2>5 DEF Listed, Stored, Listing, Storing
  <2>7. top \in Nat /\ top > 0 /\ \A d \in Caf : rank[d] < top
    BY <1>3, <1>4 DEF RankOK, At
  <2> HIDE DEF top
  <2>8. PICK new \in [Caf -> Nat] : \A d \in Caf : new[d] = IF d = c THEN top ELSE rank[d]
    <3>1. [rank EXCEPT ![c] = top] \in [Caf -> Nat]
      BY <1>1, <1>3, <2>7
    <3>2. \A d \in Caf : [rank EXCEPT ![c] = top][d] = IF d = c THEN top ELSE rank[d]
      BY <1>1, <1>3
    <3> QED
      BY <3>1, <3>2
  <2>9. \A x \in Caf \cup {None} : x # c => At(new, x) = At(rank, x)
    BY <2>8 DEF At
  <2>10. next'[c] = head /\ \A d \in Caf \ {c} : next'[d] = next[d]
    BY <1>1, <1>2, <1>4, <1>7
  <2>11. head # c /\ node # c /\ \A d \in Caf : rank[d] > 0 => next[d] # c
    <3>1. ~(rank[c] > 0)
      BY <1>5
    <3> QED
      BY <1>1, <1>3, <3>1, NoneAssumption DEF RankOK
  <2>12. RankOK(new)'
    <3>1. \A d \in Caf : new[d] > 0 <=> Listed(d)'
      BY <1>3, <2>6, <2>7, <2>8 DEF RankOK
    <3>2. \A d, e \in Caf : new[d] > 0 /\ new[d] = new[e] => d = e
      <4> SUFFICES ASSUME NEW d \in Caf, NEW e \in Caf, new[d] > 0, new[d] = new[e] PROVE d = e
        OBVIOUS
      <4>1. CASE d = c /\ e # c
        BY <1>1, <1>3, <2>7, <2>8, <4>1
      <4>2. CASE d # c /\ e = c
        BY <1>1, <1>3, <2>7, <2>8, <4>2
      <4>3. CASE d # c /\ e # c
        BY <1>3, <2>8, <4>3 DEF RankOK
      <4> QED
        BY <4>1, <4>2, <4>3
    <3>3. \A d \in Caf : new[d] <= At(new, head')
      <4>1. At(new, head') = top
        BY <1>1, <2>1, <2>8, NoneAssumption DEF At
      <4> QED
        BY <1>3, <2>7, <2>8, <4>1
    <3>4. new[head'] > 0
      BY <1>1, <2>1, <2>7, <2>8
    <3>5. \A d \in Caf : new[d] > 0 => new[d] = At(new, next'[d]) + 1
      <4> SUFFICES ASSUME NEW d \in Caf, new[d] > 0 PROVE new[d] = At(new, next'[d]) + 1
        OBVIOUS
      <4>1. CASE d = c
        BY <1>4, <2>8, <2>9, <2>10, <2>11, <4>1 DEF top
      <4>2. CASE d # c
        <5>1. rank[d] > 0 /\ next'[d] = next[d] /\ next[d] # c /\ next[d] \in Caf \cup {None}
          BY <1>4, <2>8, <2>10, <2>11, <4>2
        <5>2. rank[d] = At(rank, next[d]) + 1
          BY <1>3, <5>1 DEF RankOK
        <5> QED
          BY <2>8, <2>9, <4>2, <5>1, <5>2
      <4> QED
        BY <4>1, <4>2
    <3>6. \A d \in Caf : new[d] > 0 /\ next'[d] # None => new[next'[d]] > 0
      <4> SUFFICES ASSUME NEW d \in Caf, new[d] > 0, next'[d] # None PROVE new[next'[d]] > 0
        OBVIOUS
      <4>1. CASE d = c
        BY <1>3, <1>4, <2>8, <2>10, <2>11, <4>1 DEF RankOK
      <4>2. CASE d # c
        <5>1. rank[d] > 0 /\ next'[d] = next[d] /\ next[d] # c /\ next[d] \in Caf
          BY <1>4, <2>8, <2>10, <2>11, <4>2
        <5> QED
          BY <1>3, <2>8, <5>1 DEF RankOK
      <4> QED
        BY <4>1, <4>2
    <3>7. node' # None => new[node'] > 0
      BY <1>2, <1>3, <1>4, <2>8, <2>11 DEF RankOK
    <3> QED
      BY <3>1, <3>2, <3>3, <3>4, <3>5, <3>6, <3>7 DEF RankOK, At
  <2>13. \A d \in Caf :
           Kept(d)' = Kept(d) /\ ~Dropped(new, d)' /\ ~Dropped(rank, d)
    <3>1. ~Finishing
      BY <1>1 DEF Quiet
    <3> QED
      BY <1>2, <3>1 DEF Kept, Dropped
  <2>14. CountOK(new)'
    BY <1>2, <1>3, <2>4, <2>6, <2>13 DEF CountOK, One, Holding
  <2> QED
    BY <2>8, <2>12, <2>14 DEF Held
<1> QED
  BY <1>6, <1>7

(* Publishing takes the frame off the ones that store, and sets done.       *)
LEMMA HeldPublish ==
  ASSUME IInv, Held, NEW t \in Thread, Publish(t)
  PROVE  Held'
<1> DEFINE c == Top(t).caf
           f == [Top(t) EXCEPT !.at = "return"]
<1>1. /\ stack[t] # <<>> /\ Top(t) \in FrameSet /\ Top(t).at = "publish" /\ c \in Caf
  BY TopIsFrame DEF Publish, In, IInv, FrameSet
<1>2. /\ f \in FrameSet /\ f.caf = c /\ f.at = "return"
      /\ stack' = [stack EXCEPT ![t] = [@ EXCEPT ![Len(@)] = f]]
  <2>1. Goto(t, "return") /\ "return" \in Places
    BY DEF Publish, Places
  <2> QED
    BY <1>1, <2>1, TopFields
<1>3. /\ head' = head /\ next' = next /\ node' = node /\ Finishing' = Finishing
      /\ count' = count /\ keeps' = keeps /\ done' = [done EXCEPT ![c] = TRUE]
  BY DEF Publish, listVars, endVars, Finishing
<1>4. done \in [Caf -> BOOLEAN]
  BY DEF IInv, TypeOK
<1> HIDE DEF f
<1>5. \A d \in Caf :
        /\ f \in Holding(d) <=> Top(t) \in Holding(d)
        /\ f \notin Storing(d) /\ f \notin Listing(d)
        /\ Top(t) \in Storing(d) <=> d = c
        /\ Top(t) \in Listing(d) <=> d = c
  BY <1>1, <1>2 DEF Listing, Holding, Storing
<1>6. \A d \in Caf :
        /\ Slots(stack', Holding(d)) = Slots(stack, Holding(d))
        /\ d # c => Slots(stack', Storing(d)) = Slots(stack, Storing(d))
        /\ d # c => Slots(stack', Listing(d)) = Slots(stack, Listing(d))
  BY <1>1, <1>2, <1>5, HoldMoved DEF IInv
<1>7. Listed(c) /\ Stored(c)
  <2>1. Len(stack[t]) \in 1..Len(stack[t]) /\ Len(stack[t]) \in Nat /\ stack[t][Len(stack[t])] = Top(t)
    BY <1>1, TopIsFrame DEF IInv
  <2>2. /\ <<t, Len(stack[t])>> \in Slots(stack, Listing(c))
        /\ <<t, Len(stack[t])>> \in Slots(stack, Storing(c))
    BY <1>1, <1>5, <2>1 DEF Slots
  <2> QED
    BY <2>2 DEF Listed, Stored
<1>8. \A d \in Caf : (Listed(d)' <=> Listed(d)) /\ (Stored(d)' <=> Stored(d))
  <2>1. done'[c] /\ \A d \in Caf : d # c => done'[d] = done[d]
    BY <1>1, <1>3, <1>4
  <2> QED
    BY <1>6, <1>7, <2>1 DEF Listed, Stored, Listing, Storing
<1> QED
  BY <1>3, <1>6, <1>8, HeldSame

(* The waiter's own reference: one more frame holds the value.              *)
LEMMA HeldDupValue ==
  ASSUME IInv, Held, NEW t \in Thread, DupValue(t)
  PROVE  Held'
<1> DEFINE c == Top(t).caf
           f == [Top(t) EXCEPT !.at = "return"]
<1>1. /\ stack[t] # <<>> /\ Top(t) \in FrameSet /\ Top(t).at = "dup" /\ c \in Caf
  BY TopIsFrame DEF DupValue, In, IInv, FrameSet
<1>2. /\ f \in FrameSet /\ f.caf = c /\ f.at = "return"
      /\ stack' = [stack EXCEPT ![t] = [@ EXCEPT ![Len(@)] = f]]
  <2>1. Goto(t, "return") /\ "return" \in Places
    BY DEF DupValue, Places
  <2> QED
    BY <1>1, <2>1, TopFields
<1>3. /\ head' = head /\ next' = next /\ node' = node /\ Finishing' = Finishing
      /\ count' = [count EXCEPT ![c] = @ + 1] /\ keeps' = keeps /\ done' = done
  BY DEF DupValue, listVars, endVars, Finishing, memoVars
<1>4. count \in [Caf -> Int]
  BY DEF IInv, TypeOK
<1> HIDE DEF f
<1>5. \A d \in Caf :
        /\ f \in Holding(d) <=> d = c
        /\ Top(t) \notin Holding(d)
        /\ f \notin Storing(d) /\ f \notin Listing(d)
        /\ Top(t) \notin Storing(d) /\ Top(t) \notin Listing(d)
  BY <1>1, <1>2 DEF Listing, Holding, Storing
<1>6. \A d \in Caf :
        /\ Slots(stack', Storing(d)) = Slots(stack, Storing(d))
        /\ Slots(stack', Listing(d)) = Slots(stack, Listing(d))
  BY <1>1, <1>2, <1>5, HoldMoved DEF IInv
<1>7. \A d \in Caf : (Listed(d)' <=> Listed(d)) /\ (Stored(d)' <=> Stored(d))
  BY <1>3, <1>6 DEF Listed, Stored, Listing, Storing
<1>8. PICK rank \in [Caf -> Nat] : RankOK(rank) /\ CountOK(rank)
  BY DEF Held
<1>9. RankOK(rank)'
  BY <1>3, <1>7, <1>8 DEF RankOK, At
<1>10. \A d \in Caf : (Kept(d)' = Kept(d)) /\ (Dropped(rank, d)' <=> Dropped(rank, d))
  BY <1>3 DEF Kept, Dropped, At
<1>11. CountOK(rank)'
  <2> SUFFICES ASSUME NEW d \in Caf
               PROVE  /\ IsFiniteSet(Slots(stack', Holding(d))) /\ IsFiniteSet(Kept(d))
                      /\ count'[d] = One(Stored(d) /\ ~Dropped(rank, d))
                           + Cardinality(Slots(stack', Holding(d))) + Cardinality(Kept(d))
    BY <1>7, <1>10 DEF CountOK, Holding, One
  <2>1. /\ IsFiniteSet(Slots(stack, Holding(d))) /\ IsFiniteSet(Kept(d))
        /\ count[d] = One(Stored(d) /\ ~Dropped(rank, d))
             + Cardinality(Slots(stack, Holding(d))) + Cardinality(Kept(d))
        /\ Cardinality(Slots(stack, Holding(d))) \in Nat /\ Cardinality(Kept(d)) \in Nat
        /\ One(Stored(d) /\ ~Dropped(rank, d)) \in Nat
    BY <1>8, Sizes DEF CountOK, One
  <2>2. /\ IsFiniteSet(Slots(stack', Holding(d))) /\ Cardinality(Slots(stack', Holding(d))) \in Nat
        /\ Cardinality(Slots(stack', Holding(d)))
             = Cardinality(Slots(stack, Holding(d))) + One(f \in Holding(d)) - One(Top(t) \in Holding(d))
    BY <1>1, <1>2, <2>1, HoldCount DEF IInv
  <2>3. One(f \in Holding(d)) = One(d = c) /\ One(Top(t) \in Holding(d)) = 0 /\ One(d = c) \in Nat
    BY <1>5 DEF One
  <2>4. count'[d] = count[d] + One(d = c)
    BY <1>1, <1>3, <1>4 DEF One
  <2> QED
    BY <2>1, <2>2, <2>3, <2>4
<1> QED
  BY <1>8, <1>9, <1>11 DEF Held

(* The frame's reference goes to the thread, or is dropped by the body      *)
(* that asked for the value.                                                *)
LEMMA HeldReturn ==
  ASSUME IInv, Waits, Held, NEW t \in Thread, Return(t)
  PROVE  Held'
<1> DEFINE c == Top(t).caf  n == Len(stack[t])
<1>1. /\ stack[t] # <<>> /\ Top(t) \in FrameSet /\ Top(t).at = "return" /\ c \in Caf
      /\ Top(t) = stack[t][n] /\ n \in Nat /\ n >= 1
  BY TopIsFrame DEF Return, In, IInv, FrameSet
<1>2. /\ head' = head /\ next' = next /\ node' = node /\ Finishing' = Finishing /\ done' = done
      /\ stack' = [stack EXCEPT ![t] = SubSeq(stack[t], 1, Len(stack[t]) - 1)]
  BY DEF Return, listVars, endVars, Finishing, memoVars
<1>3. count \in [Caf -> Int] /\ keeps \in [Thread -> SUBSET Caf]
  BY DEF IInv, TypeOK
<1>4. \A H : Top(t) \notin H => Slots(stack', H) = Slots(stack, H)
  <2> SUFFICES ASSUME NEW H, Top(t) \notin H PROVE Slots(stack', H) = Slots(stack, H)
    OBVIOUS
  <2> DEFINE st == stack  new == stack'  p == <<t, Len(st[t])>>
  <2>1. /\ st \in [Thread -> Seq(FrameSet)] /\ st[t] # <<>> /\ st[t][Len(st[t])] = Top(t)
        /\ new = [st EXCEPT ![t] = SubSeq(st[t], 1, Len(st[t]) - 1)]
    BY <1>1, <1>2 DEF IInv, StackOK
  <2> HIDE DEF st, new
  <2>2. Slots(new, H) = Slots(st, H) \ {p}
    BY <2>1, SlotsPopped DEF Slots
  <2>3. p \in Slots(st, H) <=> Top(t) \in H
    BY <2>1, SlotsPopped DEF Slots
  <2>4. Slots(new, H) = Slots(st, H)
    BY <2>2, <2>3
  <2> QED
    BY <2>4 DEF st, new
<1>5. /\ Slots(stack', Holding(c)) = Slots(stack, Holding(c)) \ {<<t, n>>}
      /\ <<t, n>> \in Slots(stack, Holding(c))
  <2> DEFINE st == stack  new == stack'  H == Holding(c)
  <2>1. /\ st \in [Thread -> Seq(FrameSet)] /\ st[t] # <<>> /\ st[t][Len(st[t])] = Top(t)
        /\ new = [st EXCEPT ![t] = SubSeq(st[t], 1, Len(st[t]) - 1)]
    BY <1>1, <1>2 DEF IInv, StackOK
  <2>2. Top(t) \in H
    BY <1>1 DEF Holding
  <2> HIDE DEF st, new, H
  <2>3. Slots(new, H) = Slots(st, H) \ {<<t, Len(st[t])>>}
    BY <2>1, SlotsPopped DEF Slots
  <2>4. <<t, Len(st[t])>> \in Slots(st, H) <=> Top(t) \in H
    BY <2>1, SlotsPopped DEF Slots
  <2> QED
    BY <2>2, <2>3, <2>4 DEF st, new, H
<1>6. \A d \in Caf :
        /\ d # c => Slots(stack', Holding(d)) = Slots(stack, Holding(d))
        /\ Slots(stack', Storing(d)) = Slots(stack, Storing(d))
        /\ Slots(stack', Listing(d)) = Slots(stack, Listing(d))
  <2>1. \A d \in Caf :
          /\ d # c => Top(t) \notin Holding(d)
          /\ Top(t) \notin Storing(d) /\ Top(t) \notin Listing(d)
    BY <1>1 DEF Holding, Storing, Listing
  <2> QED
    BY <1>4, <2>1
<1>7. \A d \in Caf : (Listed(d)' <=> Listed(d)) /\ (Stored(d)' <=> Stored(d))
  BY <1>2, <1>6 DEF Listed, Stored, Listing, Storing
<1>8. PICK rank \in [Caf -> Nat] : RankOK(rank) /\ CountOK(rank)
  BY DEF Held
<1>9. RankOK(rank)'
  BY <1>2, <1>7, <1>8 DEF RankOK, At
<1>10. \A d \in Caf : Dropped(rank, d)' <=> Dropped(rank, d)
  BY <1>2 DEF Dropped, At
<1>11. \A d \in Caf :
         /\ IsFiniteSet(Slots(stack', Holding(d)))
         /\ Cardinality(Slots(stack', Holding(d))) \in Nat
         /\ Cardinality(Slots(stack, Holding(d))) \in Nat
         /\ Cardinality(Slots(stack', Holding(d))) = Cardinality(Slots(stack, Holding(d))) - One(d = c)
  <2> SUFFICES ASSUME NEW d \in Caf
               PROVE  /\ IsFiniteSet(Slots(stack', Holding(d)))
                      /\ Cardinality(Slots(stack', Holding(d))) \in Nat
                      /\ Cardinality(Slots(stack, Holding(d))) \in Nat
                      /\ Cardinality(Slots(stack', Holding(d)))
                           = Cardinality(Slots(stack, Holding(d))) - One(d = c)
    OBVIOUS
  <2>1. IsFiniteSet(Slots(stack, Holding(d))) /\ Cardinality(Slots(stack, Holding(d))) \in Nat
    BY <1>8, Sizes DEF CountOK
  <2>2. CASE d # c
    BY <1>6, <2>1, <2>2 DEF One
  <2>3. CASE d = c
    <3> DEFINE S == Slots(stack, Holding(c))  T == Slots(stack', Holding(c))  p == <<t, n>>
    <3>1. T = S \ {p} /\ p \in S /\ IsFiniteSet(S)
      BY <1>5, <2>1, <2>3
    <3> HIDE DEF S, T, p
    <3>4. T \ {p} = S \ {p} /\ IsFiniteSet(S)
      BY <3>1
    <3>2. /\ IsFiniteSet(T) /\ Cardinality(S) \in Nat /\ Cardinality(T) \in Nat
          /\ Cardinality(T) = Cardinality(S) + One(p \in T) - One(p \in S)
      BY <3>4, OneElement
    <3>3. One(p \in T) = 0 /\ One(p \in S) = 1 /\ One(d = c) = 1
      BY <2>3, <3>1 DEF One
    <3>5. IsFiniteSet(T) /\ Cardinality(T) \in Nat /\ Cardinality(S) \in Nat
          /\ Cardinality(T) = Cardinality(S) - One(d = c)
      BY <3>2, <3>3
    <3> QED
      BY <2>3, <3>5 DEF S, T
  <2> QED
    BY <2>2, <2>3
<1>12. \A d \in Caf :
         /\ IsFiniteSet(Kept(d)') /\ Cardinality(Kept(d)') \in Nat
         /\ count'[d] + Cardinality(Kept(d)) + One(d = c) = count[d] + Cardinality(Kept(d)')
  <2> SUFFICES ASSUME NEW d \in Caf
               PROVE  /\ IsFiniteSet(Kept(d)') /\ Cardinality(Kept(d)') \in Nat
                      /\ count'[d] + Cardinality(Kept(d)) + One(d = c)
                           = count[d] + Cardinality(Kept(d)')
    OBVIOUS
  <2>1. IsFiniteSet(Kept(d)) /\ Cardinality(Kept(d)) \in Nat
    BY <1>8, Sizes DEF CountOK
  <2>2. CASE n # 1
    <3>1. keeps' = keeps /\ count' = [count EXCEPT ![c] = @ - 1]
      BY <2>2 DEF Return
    <3>2. Kept(d)' = Kept(d) /\ count'[d] + One(d = c) = count[d]
      BY <1>1, <1>3, <3>1 DEF Kept, One
    <3>3. One(d = c) \in Nat /\ count[d] \in Int /\ count'[d] \in Int
      BY <1>1, <1>3, <3>1 DEF One
    <3> QED
      BY <2>1, <3>2, <3>3
  <2>3. CASE n = 1
    <3>1. keeps' = [keeps EXCEPT ![t] = @ \cup {c}] /\ count' = count
      BY <2>3 DEF Return
    <3>2. c \notin keeps[t]
      BY <1>1, <2>3 DEF Waits, Later
    <3>3. \A u \in Thread : c \in keeps'[u] <=> c \in keeps[u] \/ u = t
      BY <1>3, <3>1
    <3>4. \A e \in Caf : e # c => \A u \in Thread : e \in keeps'[u] <=> e \in keeps[u]
      BY <1>3, <3>1
    <3>5. CASE d # c
      <4>1. Kept(d)' = Kept(d)
        BY <3>4, <3>5 DEF Kept
      <4>2. One(d = c) = 0 /\ count[d] \in Int
        BY <1>3, <3>5 DEF One
      <4> QED
        BY <2>1, <3>1, <4>1, <4>2
    <3>6. CASE d = c
      <4> DEFINE S == Kept(d)  T == Kept(d)'
      <4>1. T \ {t} = S \ {t} /\ t \in T /\ t \notin S
        BY <3>2, <3>3, <3>6 DEF Kept
      <4>2. IsFiniteSet(S)
        BY <2>1
      <4> HIDE DEF S, T
      <4>3. /\ IsFiniteSet(T) /\ Cardinality(S) \in Nat /\ Cardinality(T) \in Nat
            /\ Cardinality(T) = Cardinality(S) + One(t \in T) - One(t \in S)
        BY <4>1, <4>2, OneElement
      <4>4. One(t \in T) = 1 /\ One(t \in S) = 0 /\ One(d = c) = 1
        BY <3>6, <4>1 DEF One
      <4>5. Cardinality(T) = Cardinality(S) + 1
        BY <4>3, <4>4
      <4>6. count'[d] = count[d] /\ count[d] \in Int
        BY <1>3, <3>1
      <4> QED
        BY <4>3, <4>4, <4>5, <4>6 DEF S, T
    <3> QED
      BY <3>5, <3>6
  <2> QED
    BY <2>2, <2>3
<1>13. CountOK(rank)'
  <2> SUFFICES ASSUME NEW d \in Caf
               PROVE  count'[d] = One(Stored(d) /\ ~Dropped(rank, d))
                        + Cardinality(Slots(stack', Holding(d))) + Cardinality(Kept(d)')
    BY <1>7, <1>10, <1>11, <1>12 DEF CountOK, Holding, One
  <2>1. /\ count[d] = One(Stored(d) /\ ~Dropped(rank, d))
             + Cardinality(Slots(stack, Holding(d))) + Cardinality(Kept(d))
        /\ Cardinality(Kept(d)) \in Nat
        /\ One(Stored(d) /\ ~Dropped(rank, d)) \in Nat /\ One(d = c) \in Nat
    BY <1>8, Sizes DEF CountOK, One
  <2>2. count'[d] \in Int /\ count[d] \in Int
    BY <1>1, <1>3 DEF Return
  <2> DEFINE now  == Cardinality(Slots(stack', Holding(d)))   kept == Cardinality(Kept(d)')
             then == Cardinality(Slots(stack, Holding(d)))    had  == Cardinality(Kept(d))
             memo == One(Stored(d) /\ ~Dropped(rank, d))       one  == One(d = c)
  <2>3. /\ now \in Nat /\ then \in Nat /\ now = then - one
        /\ kept \in Nat /\ count'[d] + had + one = count[d] + kept
        /\ had \in Nat /\ memo \in Nat /\ one \in Nat /\ count[d] = memo + then + had
    BY <1>11, <1>12, <2>1
  <2> HIDE DEF now, then, kept, had, memo, one
  <2>4. count'[d] = memo + now + kept
    BY <2>2, <2>3
  <2> QED
    BY <2>4 DEF now, kept, memo
<1> QED
  BY <1>8, <1>9, <1>13 DEF Held

(* A new use holds nothing yet.                                             *)
LEMMA HeldUses ==
  ASSUME IInv, Held, NEW t \in Thread, EvalUse(t) \/ \E c \in Caf : Use(t, c)
  PROVE  Held'
<1>1. /\ head' = head /\ next' = next /\ node' = node /\ Finishing' = Finishing /\ done' = done
      /\ count' = count /\ keeps' = keeps
  BY DEF EvalUse, Use, memoVars, listVars, endVars, Finishing
<1>2. ASSUME NEW d \in Caf, NEW H, H \in {Holding(d), Storing(d), Listing(d)}
      PROVE  Slots(stack', H) = Slots(stack, H)
  <2>1. CASE EvalUse(t)
    <3> DEFINE st == stack  new == stack'
               g == [Top(t) EXCEPT !.todo = Tail(@)]
               f == Frame(Head(Top(t).todo))
    <3>1. /\ st \in [Thread -> Seq(FrameSet)] /\ st[t] # <<>> /\ st[t][Len(st[t])] = Top(t)
          /\ Top(t) \in FrameSet /\ Top(t).at = "eval" /\ Top(t).todo # <<>>
      BY <2>1, TopIsFrame DEF EvalUse, In, IInv, StackOK
    <3>2. Top(t).todo \in Seq(Caf)
      BY <3>1 DEF FrameSet
    <3>3. Head(Top(t).todo) \in Caf /\ Tail(Top(t).todo) \in Seq(Caf)
      BY <3>1, <3>2, HeadTailProperties
    <3>4. g \in FrameSet /\ g.at = "eval"
      BY <3>1, <3>3 DEF FrameSet
    <3>5. f \in FrameSet /\ f.at = "claim"
      BY <3>3, NeedsAssumption, NoneAssumption DEF Frame, FrameSet, Places
    <3> HIDE DEF g, f
    <3>6. new = [st EXCEPT ![t] = Append([@ EXCEPT ![Len(@)] = g], f)]
      BY <2>1 DEF EvalUse, g, f, Top
    <3>7. g \notin H /\ f \notin H /\ Top(t) \notin H
      BY <1>2, <3>1, <3>4, <3>5 DEF Holding, Storing, Listing
    <3> HIDE DEF st, new
    <3>8. g \in H <=> st[t][Len(st[t])] \in H
      BY <3>1, <3>7
    <3>9. Slots(new, H) = Slots(st, H)
      BY <3>1, <3>4, <3>5, <3>6, <3>7, <3>8, SlotsNested DEF Slots
    <3> QED
      BY <3>9 DEF st, new
  <2>2. ASSUME NEW c \in Caf, Use(t, c) PROVE Slots(stack', H) = Slots(stack, H)
    <3> DEFINE st == stack  new == stack'  f == Frame(c)
    <3>1. f \in FrameSet /\ f.at = "claim"
      BY NeedsAssumption, NoneAssumption DEF Frame, FrameSet, Places
    <3>2. st \in [Thread -> Seq(FrameSet)] /\ st[t] = <<>> /\ new = [st EXCEPT ![t] = <<f>>]
      BY <2>2 DEF Use, IInv, StackOK
    <3> HIDE DEF st, new, f
    <3>3. f \notin H
      BY <1>2, <3>1 DEF Holding, Storing, Listing
    <3>4. Slots(new, H) = Slots(st, H)
      BY <3>1, <3>2, <3>3, SlotsBegan DEF Slots
    <3> QED
      BY <3>4 DEF st, new
  <2> QED
    BY <2>1, <2>2
<1>3. \A d \in Caf :
        /\ Slots(stack', Holding(d)) = Slots(stack, Holding(d))
        /\ Slots(stack', Storing(d)) = Slots(stack, Storing(d))
        /\ Slots(stack', Listing(d)) = Slots(stack, Listing(d))
  BY <1>2
<1>4. \A d \in Caf : (Listed(d)' <=> Listed(d)) /\ (Stored(d)' <=> Stored(d))
  BY <1>1, <1>3 DEF Listed, Stored, Listing, Storing
<1> QED
  BY <1>1, <1>3, <1>4, HeldSame

(* Steps that leave the stacks alone: what is listed and stored stays.      *)
LEMMA SameStacks ==
  ASSUME stack' = stack, done' = done
  PROVE  \A d \in Caf : /\ Listed(d)' <=> Listed(d)
                        /\ Stored(d)' <=> Stored(d)
                        /\ Slots(stack', Holding(d)) = Slots(stack, Holding(d))
  BY DEF Listed, Stored, Listing, Storing, Slots

LEMMA HeldDrop ==
  ASSUME IInv, Held, NEW t \in Thread, NEW c \in Caf, Drop(t, c)
  PROVE  Held'
<1>1. /\ head' = head /\ next' = next /\ node' = node /\ Finishing' = Finishing
      /\ stack' = stack /\ done' = done /\ c \in keeps[t]
      /\ count' = [count EXCEPT ![c] = @ - 1] /\ keeps' = [keeps EXCEPT ![t] = @ \ {c}]
  BY DEF Drop, memoVars, listVars, endVars, Finishing
<1>2. count \in [Caf -> Int] /\ keeps \in [Thread -> SUBSET Caf]
  BY DEF IInv, TypeOK
<1>3. PICK rank \in [Caf -> Nat] : RankOK(rank) /\ CountOK(rank)
  BY DEF Held
<1>4. RankOK(rank)'
  BY <1>1, <1>3, SameStacks DEF RankOK, At
<1>5. \A d \in Caf : Dropped(rank, d)' <=> Dropped(rank, d)
  BY <1>1 DEF Dropped, At
<1>6. \A d \in Caf :
        /\ d # c => Kept(d)' = Kept(d)
        /\ Kept(c)' \ {t} = Kept(c) \ {t} /\ t \in Kept(c) /\ t \notin Kept(c)'
  BY <1>1, <1>2 DEF Kept
<1>7. CountOK(rank)'
  <2> SUFFICES ASSUME NEW d \in Caf
               PROVE  /\ IsFiniteSet(Kept(d)')
                      /\ count'[d] = One(Stored(d) /\ ~Dropped(rank, d))
                           + Cardinality(Slots(stack, Holding(d))) + Cardinality(Kept(d)')
    BY <1>1, <1>3, <1>5, SameStacks DEF CountOK, Holding, One, Slots
  <2>1. /\ IsFiniteSet(Kept(d)) /\ Cardinality(Kept(d)) \in Nat
        /\ Cardinality(Slots(stack, Holding(d))) \in Nat
        /\ One(Stored(d) /\ ~Dropped(rank, d)) \in Nat
        /\ count[d] = One(Stored(d) /\ ~Dropped(rank, d))
             + Cardinality(Slots(stack, Holding(d))) + Cardinality(Kept(d))
    BY <1>3, Sizes DEF CountOK, One
  <2>2. CASE d # c
    BY <1>1, <1>2, <1>6, <2>1, <2>2
  <2>3. CASE d = c
    <3> DEFINE S == Kept(d)  T == Kept(d)'
    <3>1. T \ {t} = S \ {t} /\ IsFiniteSet(S)
      BY <1>6, <2>1, <2>3
    <3>2. t \in S /\ t \notin T
      BY <1>6, <2>3
    <3>3. count'[d] = count[d] - 1 /\ count[d] \in Int
      BY <1>1, <1>2, <2>3
    <3> HIDE DEF S, T
    <3>4. /\ IsFiniteSet(T) /\ Cardinality(S) \in Nat /\ Cardinality(T) \in Nat
          /\ Cardinality(T) = Cardinality(S) + One(t \in T) - One(t \in S)
      BY <3>1, OneElement
    <3>5. One(t \in T) = 0 /\ One(t \in S) = 1
      BY <3>2 DEF One
    <3>6. IsFiniteSet(T) /\ Cardinality(T) = Cardinality(S) - 1 /\ Cardinality(S) \in Nat
      BY <3>4, <3>5
    <3> DEFINE memo == One(Stored(d) /\ ~Dropped(rank, d))
               held == Cardinality(Slots(stack, Holding(d)))
    <3>7. memo \in Nat /\ held \in Nat /\ count[d] = memo + held + Cardinality(S)
      BY <2>1 DEF S
    <3> HIDE DEF memo, held
    <3>8. count'[d] = memo + held + Cardinality(T)
      BY <3>3, <3>6, <3>7
    <3> QED
      BY <3>6, <3>8 DEF T, memo, held
  <2> QED
    BY <2>2, <2>3
<1> QED
  BY <1>3, <1>4, <1>7 DEF Held

(* dropAll starts at the head: nothing is dropped yet.                      *)
LEMMA HeldStart ==
  ASSUME IInv, Held, StartFinish
  PROVE  Held'
<1>1. /\ head' = head /\ next' = next /\ node' = head /\ ~Finishing /\ Finishing'
      /\ stack' = stack /\ done' = done /\ count' = count /\ keeps' = keeps
  BY DEF StartFinish, memoVars, listVars, Finishing
<1>2. PICK rank \in [Caf -> Nat] : RankOK(rank) /\ CountOK(rank)
  BY DEF Held
<1>3. head \in Caf \cup {None}
  BY DEF IInv, TypeOK
<1>4. RankOK(rank)'
  BY <1>1, <1>2, SameStacks DEF RankOK, At
<1>5. \A d \in Caf : ~Dropped(rank, d)' /\ ~Dropped(rank, d)
  <2>1. \A d \in Caf : rank[d] <= At(rank, head) /\ rank[d] \in Nat /\ At(rank, head) \in Nat
    BY <1>2, <1>3 DEF RankOK, At
  <2>2. At(rank, node') = At(rank, head)
    BY <1>1
  <2>3. \A d \in Caf : ~(rank[d] > At(rank, node'))
    BY <2>1, <2>2
  <2> QED
    BY <1>1, <2>3 DEF Dropped, At
<1>6. \A d \in Caf : Kept(d)' = Kept(d)
  BY <1>1 DEF Kept
<1>7. CountOK(rank)'
  BY <1>1, <1>2, <1>5, <1>6, SameStacks DEF CountOK, Holding, One, Slots
<1> QED
  BY <1>2, <1>4, <1>7 DEF Held

(* dropAll drops the memo's reference of the one at the cursor.             *)
LEMMA HeldDropNode ==
  ASSUME IInv, Quiet, Held, DropNode
  PROVE  Held'
<1>1. /\ head' = head /\ next' = next /\ node' = next[node] /\ Finishing /\ Finishing'
      /\ stack' = stack /\ done' = done /\ keeps' = keeps /\ node # None
      /\ count' = [count EXCEPT ![node] = @ - 1]
  BY DEF DropNode, memoVars, listVars, Finishing
<1>2. PICK rank \in [Caf -> Nat] : RankOK(rank) /\ CountOK(rank)
  BY DEF Held
<1>3. /\ node \in Caf /\ next[node] \in Caf \cup {None} /\ count \in [Caf -> Int]
  BY <1>1 DEF IInv, TypeOK
<1>4. RankOK(rank)'
  BY <1>1, <1>2, <1>3, SameStacks DEF RankOK, At
<1>5. rank[node] = At(rank, node') + 1 /\ At(rank, node') \in Nat /\ rank[node] > 0
  BY <1>1, <1>2, <1>3 DEF RankOK, At
<1>6. \A d \in Caf : Dropped(rank, d)' <=> Dropped(rank, d) \/ d = node
  <2>1. \A d \in Caf : Dropped(rank, d)' <=> rank[d] > At(rank, node')
    BY <1>1 DEF Dropped, At
  <2>2. \A d \in Caf : Dropped(rank, d) <=> rank[d] > rank[node]
    BY <1>1, <1>3 DEF Dropped, At
  <2>3. \A d \in Caf : rank[d] = rank[node] => d = node
    BY <1>2, <1>3, <1>5 DEF RankOK
  <2>4. \A d \in Caf : rank[d] \in Nat
    BY <1>2
  <2>5. ASSUME NEW d \in Caf PROVE rank[d] > At(rank, node') <=> rank[d] > rank[node] \/ d = node
    BY <1>3, <1>5, <2>3, <2>4
  <2> QED
    BY <2>1, <2>2, <2>5
<1>7. Stored(node) /\ ~Dropped(rank, node)
  <2>1. Listed(node)
    BY <1>2, <1>3, <1>5 DEF RankOK
  <2>2. Slots(stack, Listing(node)) = {}
    BY <1>1, NoSlots DEF Quiet
  <2>3. ~Dropped(rank, node)
    BY <1>1, <1>2, <1>3 DEF Dropped, At
  <2> QED
    BY <2>1, <2>2, <2>3 DEF Listed, Stored
<1>8. \A d \in Caf : Kept(d)' = Kept(d)
  BY <1>1 DEF Kept
<1>9. CountOK(rank)'
  <2> SUFFICES ASSUME NEW d \in Caf
               PROVE  count'[d] = One(Stored(d) /\ ~Dropped(rank, d)')
                        + Cardinality(Slots(stack, Holding(d))) + Cardinality(Kept(d))
    BY <1>1, <1>2, <1>8, SameStacks DEF CountOK, Holding, One, Slots
  <2>1. /\ Cardinality(Kept(d)) \in Nat /\ Cardinality(Slots(stack, Holding(d))) \in Nat
        /\ count[d] = One(Stored(d) /\ ~Dropped(rank, d))
             + Cardinality(Slots(stack, Holding(d))) + Cardinality(Kept(d))
    BY <1>2, Sizes DEF CountOK
  <2>2. CASE d # node
    <3>1. count'[d] = count[d] /\ (Dropped(rank, d)' <=> Dropped(rank, d))
      BY <1>1, <1>3, <1>6, <2>2
    <3> QED
      BY <2>1, <3>1 DEF One
  <2>3. CASE d = node
    <3>1. count'[d] = count[d] - 1
      BY <1>1, <1>3, <2>3
    <3>2. One(Stored(d) /\ ~Dropped(rank, d)) = 1 /\ One(Stored(d) /\ ~Dropped(rank, d)') = 0
      BY <1>6, <1>7, <2>3 DEF One
    <3> QED
      BY <2>1, <3>1, <3>2
  <2> QED
    BY <2>2, <2>3
<1> QED
  BY <1>2, <1>4, <1>9 DEF Held

LEMMA HeldStep == ASSUME IInv, Waits, Quiet, Held, [Next]_vars PROVE Held'
<1>1. ASSUME head' = head, next' = next, node' = node, Finishing' = Finishing,
             count' = count, keeps' = keeps, stack' = stack, done' = done
      PROVE  Held'
  BY <1>1, SameStacks, HeldSame
<1>2. CASE UNCHANGED vars
  BY <1>1, <1>2 DEF vars, memoVars, listVars, endVars, Finishing
<1>3. ASSUME NEW t \in Thread, End(t) PROVE Held'
  BY <1>1, <1>3 DEF End, memoVars, listVars, endVars, Finishing
<1>4. CASE Exit
  BY <1>1, <1>4 DEF Exit, memoVars, listVars, endVars, Finishing
<1>5. ASSUME NEW t \in Thread, Wait(t), ~done[Top(t).caf] PROVE Held'
  <2>1. ~Finishing /\ ~Finishing'
    BY <1>5 DEF Wait, In, Quiet, Finishing
  <2>2. /\ head' = head /\ next' = next /\ node' = node
        /\ count' = count /\ keeps' = keeps /\ stack' = stack /\ done' = done
    BY <1>5 DEF Wait, memoVars, listVars
  <2>3. Finishing' = Finishing
    BY <2>1 DEF Finishing
  <2> QED
    BY <1>1, <2>2, <2>3
<1>6. ASSUME NEW t \in Thread, Step(t) PROVE Held'
  BY <1>5, <1>6, HeldClaimOwn, HeldUses, HeldEvalStore, HeldPush, HeldPublish, HeldDupValue,
     HeldReturn DEF Step
<1>7. CASE Calls
  BY <1>3, <1>4, <1>7, HeldUses, HeldDrop, HeldStart, HeldDropNode DEF Calls
<1> QED
  BY <1>2, <1>6, <1>7 DEF Next

(* What the counts mean.                                                    *)
LEMMA HeldIsReady == ASSUME IInv, Waits, Quiet, Held PROVE ValueReady
<1>1. PICK rank \in [Caf -> Nat] : RankOK(rank) /\ CountOK(rank)
  BY DEF Held
<1>2. ASSUME NEW c \in Caf
      PROVE  /\ Cardinality(Slots(stack, Holding(c))) \in Nat /\ Cardinality(Kept(c)) \in Nat
             /\ IsFiniteSet(Slots(stack, Holding(c))) /\ IsFiniteSet(Kept(c))
             /\ One(Stored(c) /\ ~Dropped(rank, c)) \in Nat
             /\ count[c] = One(Stored(c) /\ ~Dropped(rank, c))
                           + Cardinality(Slots(stack, Holding(c))) + Cardinality(Kept(c))
  BY <1>1, Sizes DEF CountOK, One
<1>3. ASSUME NEW S, IsFiniteSet(S), Cardinality(S) \in Nat, NEW x \in S PROVE Cardinality(S) > 0
  <2>1. Cardinality(S) # 0
    BY <1>3, FS_EmptySet
  <2> QED
    BY <1>3, <2>1
<1>4. ASSUME NEW c \in Caf PROVE count[c] >= 0
  BY <1>2
<1>5. ASSUME NEW c \in Caf, NEW p \in Frames(c, {"dup", "return"}) PROVE count[c] > 0
  <2>1. /\ p \in Thread \X Nat /\ p[1] \in Thread /\ p[2] \in Nat /\ p[2] >= 1
        /\ p[2] <= Len(stack[p[1]]) /\ stack[p[1]][p[2]].caf = c
        /\ stack[p[1]][p[2]].at \in {"dup", "return"}
    <3>1. Cardinality(Caf) \in Nat
      BY CafAssumption, FS_CardinalityType
    <3> QED
      BY <1>5, <3>1 DEF Frames
  <2>2. p[2] \in 1..Len(stack[p[1]]) /\ stack[p[1]][p[2]] \in FrameSet
    BY <2>1, InStack DEF IInv, StackOK
  <2>3. CASE stack[p[1]][p[2]].at = "return"
    <3>1. p \in Slots(stack, Holding(c))
      BY <2>1, <2>2, <2>3 DEF Slots, Holding
    <3>2. Cardinality(Slots(stack, Holding(c))) > 0
      BY <1>2, <1>3, <3>1
    <3> QED
      BY <1>2, <3>2
  <2>4. CASE stack[p[1]][p[2]].at = "dup"
    <3>1. done[c]
      BY <2>1, <2>2, <2>4 DEF Waits, Later
    <3>2. stack[p[1]] # <<>>
      BY <2>2, EmptySeq
    <3>3. ~Finishing
      BY <2>1, <3>2 DEF Quiet
    <3>4. One(Stored(c) /\ ~Dropped(rank, c)) = 1
      BY <3>1, <3>3 DEF One, Stored, Dropped
    <3> QED
      BY <1>2, <3>4
  <2> QED
    BY <2>1, <2>3, <2>4
<1>6. ASSUME NEW c \in Caf, NEW t \in Thread, c \in keeps[t] PROVE count[c] > 0
  <2>1. t \in Kept(c)
    BY <1>6 DEF Kept
  <2>2. Cardinality(Kept(c)) > 0
    BY <1>2, <1>3, <2>1
  <2> QED
    BY <1>2, <2>2
<1>7. ASSUME process = "exited", NEW c \in Caf PROVE count[c] = 0
  <2>1. Finishing /\ \A t \in Thread : stack[t] = <<>> /\ keeps[t] = {}
    BY <1>7 DEF Finishing, Quiet
  <2>2. \A H : Slots(stack, H) = {}
    BY <2>1, NoSlots
  <2>3. Cardinality(Slots(stack, Holding(c))) = 0 /\ Cardinality(Kept(c)) = 0
    <3>1. Kept(c) = {}
      BY <2>1 DEF Kept
    <3> QED
      BY <2>2, <3>1, FS_EmptySet
  <2>4. node = None
    BY <1>7 DEF Quiet
  <2>5. Stored(c) => Dropped(rank, c)
    BY <1>1, <2>1, <2>2, <2>4 DEF Stored, Listed, Dropped, RankOK, At
  <2>6. One(Stored(c) /\ ~Dropped(rank, c)) = 0
    BY <2>5 DEF One
  <2> QED
    BY <1>2, <2>3, <2>6
<1> QED
  BY <1>4, <1>5, <1>6, <1>7 DEF ValueReady, AliveInUse
-----------------------------------------------------------------------------
(* Lazy cells: whose value a thread has.                                    *)

Maybe        == Lazy!Obj \cup {None}
CellPlaces   == {"check", "lock", "take", "run", "relock", "store", "drop_cell", "drop_ours",
                 "return"}
CellFrameSet == [cell : Cell, at : CellPlaces, x : Maybe, r : Maybe, todo : Seq(Cell)]

CellTypesOK ==
  /\ av       \in [Cell -> Lazy!Obj]
  /\ reserved \in [Cell -> BOOLEAN]
  /\ refs     \in [Lazy!Obj -> Int]
  /\ forces   \in [Thread -> Seq(CellFrameSet)]
  /\ got      \in [Thread -> [Cell -> Maybe]]
  /\ crashed  \in BOOLEAN

MineAt == {"run", "relock", "store", "drop_cell", "drop_ours"}
DoneAt == {"drop_cell", "drop_ours", "return"}
WorkAt == {"lock", "take", "run", "relock", "store"}

(* What a frame of thread t has and knows: the thunk while it evaluates it, *)
(* its own result until it has compared, the cell's value after that.       *)
FrameOK(t, f, held, forced) ==
  /\ f.at \in MineAt => f.x = Lazy!Thunk(f.cell)
  /\ f.at \in {"relock", "store"} => f.r = <<f.cell, t>>
  /\ f.at \in DoneAt => forced[f.cell] /\ f.r = held[f.cell]
  /\ f.at \in WorkAt => held[f.cell] # <<f.cell, t>>
  /\ \A k \in 1..Len(f.todo) : f.todo[k] \in Lazy!Uses(f.cell)

(* The calls below the innermost one are in their evaluation; a cell that   *)
(* is forced inside its own evaluation is looked at, or returned, only.     *)
Below(st) ==
  \A i, j \in 1..Len(st) : i < j =>
    /\ st[i].at = "run"
    /\ st[j].cell \in Lazy!Needed[st[i].cell]
    /\ st[j].cell = st[i].cell => st[j].at \in {"check", "return"}

CellsOK ==
  /\ \A c \in Cell : av[c][1] = c /\ (~reserved[c] => av[c] = Lazy!Thunk(c))
  /\ \A t \in Thread : \A i \in 1..Len(forces[t]) : FrameOK(t, forces[t][i], av, reserved)
  /\ \A t \in Thread : Below(forces[t])
  /\ \A t \in Thread : forces[t] # <<>> => got[t][forces[t][1].cell] = None
  /\ \A t \in Thread, c \in Cell : got[t][c] # None => reserved[c] /\ got[t][c] = av[c]

CrashOK ==
  crashed => \E t \in Thread :
    /\ forces[t] # <<>>
    /\ Lazy!Top(t).at = "check"
    /\ Lazy!Top(t).cell \in Lazy!Needed[Lazy!Top(t).cell]

LInv == CellTypesOK /\ CellsOK /\ CrashOK

LEMMA CellConstants ==
  /\ CellNeeds \in [Cell -> Seq(Cell)]
  /\ None \notin Thread /\ None \notin Cell /\ None \notin Lazy!Obj
  /\ \A c \in Cell : Lazy!Thunk(c) \in Lazy!Obj
  /\ \A c \in Cell, t \in Thread : <<c, t>> \in Lazy!Obj /\ <<c, t>> # Lazy!Thunk(c)
  BY CellAssumption DEF Lazy!LazyConstants, Lazy!Thunk, Lazy!Obj

LEMMA CellUses == \A c \in Cell : Lazy!Uses(c) \subseteq Cell
<1> SUFFICES ASSUME NEW c \in Cell, NEW i \in 1..Len(CellNeeds[c]) PROVE CellNeeds[c][i] \in Cell
  BY DEF Lazy!Uses
<1>1. CellNeeds[c] \in Seq(Cell)
  BY CellConstants
<1> QED
  BY <1>1, ElementOfSeq

LEMMA CellNeededStep ==
  ASSUME NEW c \in Cell
  PROVE  /\ Lazy!Uses(c) \subseteq Lazy!Needed[c]
         /\ \A e \in Lazy!Needed[c] : e \in Cell /\ Lazy!Uses(e) \subseteq Lazy!Needed[c]
<1>1. Lazy!Needed[c] =
        {d \in Cell : \A S \in SUBSET Cell : Lazy!Uses(c) \subseteq S /\ Lazy!Closed(S) => d \in S}
  BY DEF Lazy!Needed
<1> QED
  BY <1>1, CellUses DEF Lazy!Closed

LEMMA CellTop ==
  ASSUME CellTypesOK, NEW t \in Thread, forces[t] # <<>>
  PROVE  /\ Lazy!Top(t) = forces[t][Len(forces[t])] /\ Lazy!Top(t) \in CellFrameSet
         /\ Lazy!Top(t).cell \in Cell /\ Lazy!Top(t).todo \in Seq(Cell)
         /\ Lazy!Top(t).x \in Maybe /\ Lazy!Top(t).r \in Maybe
         /\ Len(forces[t]) \in Nat /\ Len(forces[t]) >= 1 /\ Len(forces[t]) \in 1..Len(forces[t])
         /\ forces \in [Thread -> Seq(CellFrameSet)]
<1>1. forces \in [Thread -> Seq(CellFrameSet)]
  BY DEF CellTypesOK
<1>2. /\ Len(forces[t]) \in Nat /\ Len(forces[t]) >= 1 /\ Len(forces[t]) \in 1..Len(forces[t])
      /\ forces[t][Len(forces[t])] \in CellFrameSet
  BY <1>1, TopOfStack
<1> QED
  BY <1>1, <1>2 DEF Lazy!Top, CellFrameSet

LEMMA CellOf ==
  ASSUME CellTypesOK, NEW t \in Thread, NEW i \in 1..Len(forces[t])
  PROVE  forces[t][i] \in CellFrameSet /\ forces[t][i].cell \in Cell /\ i \in Nat
<1>1. forces[t][i] \in CellFrameSet /\ i \in Nat
  BY InStack DEF CellTypesOK
<1> QED
  BY <1>1 DEF CellFrameSet

(* The innermost call moves on.  A cell gets a value only from the thread   *)
(* that stores, in a cell that had none.                                    *)
LEMMA CellsMoved ==
  ASSUME LInv, NEW t \in Thread, forces[t] # <<>>, NEW f \in CellFrameSet,
         forces' = [forces EXCEPT ![t] = [@ EXCEPT ![Len(@)] = f]],
         f.cell = Lazy!Top(t).cell, got' = got,
         \A c \in Cell :
           \/ av'[c] = av[c] /\ reserved'[c] = reserved[c]
           \/ /\ c = f.cell /\ Lazy!Top(t).at = "store"
              /\ ~reserved[c] /\ reserved'[c] /\ av'[c] = <<c, t>>,
         FrameOK(t, f, av', reserved'),
         \/ f.at \in {"check", "return"}
         \/ Lazy!Top(t).at \notin {"check", "return"}
         \/ ~Lazy!ForcingHere(t, f.cell)
  PROVE  CellsOK'
<1> DEFINE n == Len(forces[t])
<1>1. /\ n \in Nat /\ n \in 1..n /\ Lazy!Top(t) = forces[t][n] /\ f.cell \in Cell
      /\ forces \in [Thread -> Seq(CellFrameSet)]
  BY CellTop DEF LInv
<1>2. /\ forces' \in [Thread -> Seq(CellFrameSet)]
      /\ \A u \in Thread : Len(forces'[u]) = Len(forces[u])
      /\ \A u \in Thread : \A i \in 1..Len(forces[u]) :
           forces'[u][i] = IF u = t /\ i = n THEN f ELSE forces[u][i]
  BY <1>1, Replaced
<1>3. \A c \in Cell : av'[c][1] = c /\ (~reserved'[c] => av'[c] = Lazy!Thunk(c))
  BY DEF LInv, CellsOK, Lazy!Thunk
<1>4. ASSUME NEW u \in Thread, NEW i \in 1..Len(forces'[u]) PROVE FrameOK(u, forces'[u][i], av', reserved')
  <2>1. CASE u = t /\ i = n
    BY <1>1, <1>2, <2>1
  <2>2. CASE ~(u = t /\ i = n)
    <3> DEFINE g == forces[u][i]
    <3>1. i \in 1..Len(forces[u]) /\ forces'[u][i] = g
      BY <1>2, <2>2
    <3>2. FrameOK(u, g, av, reserved) /\ g.cell \in Cell
      BY <3>1, CellOf DEF LInv, CellsOK
    <3>3. CASE av'[g.cell] = av[g.cell] /\ reserved'[g.cell] = reserved[g.cell]
      BY <3>1, <3>2, <3>3 DEF FrameOK
    <3>4. CASE /\ g.cell = f.cell /\ Lazy!Top(t).at = "store"
               /\ ~reserved[g.cell] /\ reserved'[g.cell] /\ av'[g.cell] = <<g.cell, t>>
      <4>1. g.at \notin DoneAt
        BY <3>2, <3>4 DEF FrameOK
      <4>2. u # t
        <5> SUFFICES ASSUME u = t PROVE FALSE
          OBVIOUS
        <5>1. i < n
          BY <1>1, <2>2, <3>1
        <5>2. forces[t][n].cell = forces[t][i].cell
          BY <1>1, <3>4
        <5>3. forces[t][n].at \in {"check", "return"}
          BY <1>1, <3>1, <5>1, <5>2 DEF LInv, CellsOK, Below
        <5> QED
          BY <1>1, <3>4, <5>3
      <4>3. av'[g.cell] # <<g.cell, u>>
        BY <3>4, <4>2
      <4> QED
        BY <3>1, <3>2, <4>1, <4>3 DEF FrameOK
    <3> QED
      BY <3>2, <3>3, <3>4
  <2> QED
    BY <2>1, <2>2
<1>5. ASSUME NEW u \in Thread PROVE Below(forces'[u])
  <2> SUFFICES ASSUME NEW i \in 1..Len(forces'[u]), NEW j \in 1..Len(forces'[u]), i < j
               PROVE  /\ forces'[u][i].at = "run"
                      /\ forces'[u][j].cell \in Lazy!Needed[forces'[u][i].cell]
                      /\ forces'[u][j].cell = forces'[u][i].cell
                           => forces'[u][j].at \in {"check", "return"}
    BY DEF Below
  <2>1. /\ i \in 1..Len(forces[u]) /\ j \in 1..Len(forces[u]) /\ i \in Nat /\ j \in Nat
        /\ Len(forces[u]) \in Nat
    BY <1>1, <1>2, InStack
  <2>2. /\ forces[u][i].at = "run"
        /\ forces[u][j].cell \in Lazy!Needed[forces[u][i].cell]
        /\ forces[u][j].cell = forces[u][i].cell => forces[u][j].at \in {"check", "return"}
    BY <2>1 DEF LInv, CellsOK, Below
  <2>3. forces'[u][i] = forces[u][i] /\ forces'[u][j].cell = forces[u][j].cell
    BY <1>1, <1>2, <2>1
  <2>4. ASSUME forces'[u][j].cell = forces'[u][i].cell PROVE forces'[u][j].at \in {"check", "return"}
    <3>1. CASE ~(u = t /\ j = n)
      BY <1>2, <2>1, <2>2, <2>3, <2>4, <3>1
    <3>2. CASE u = t /\ j = n
      <4>1. Lazy!ForcingHere(t, f.cell) /\ Lazy!Top(t).at \in {"check", "return"}
        <5>1. i \in 1..Len(forces[t]) - 1 /\ forces[t][i].cell = f.cell
          BY <1>1, <2>1, <2>3, <2>4, <3>2
        <5>2. Lazy!Top(t).at \in {"check", "return"}
          BY <1>1, <2>2, <2>3, <2>4, <3>2
        <5> QED
          BY <5>1, <5>2 DEF Lazy!ForcingHere
      <4>2. forces'[u][j] = f
        BY <1>2, <2>1, <3>2
      <4> QED
        BY <4>1, <4>2
    <3> QED
      BY <3>1, <3>2
  <2> QED
    BY <2>2, <2>3, <2>4
<1>6. ASSUME NEW u \in Thread, forces'[u] # <<>> PROVE got'[u][forces'[u][1].cell] = None
  <2>1. Len(forces'[u]) >= 1 /\ Len(forces'[u]) \in Nat
    BY <1>2, <1>6, EmptySeq
  <2>2. 1 \in 1..Len(forces[u]) /\ forces[u] # <<>>
    BY <1>2, <2>1, EmptySeq
  <2>3. forces'[u][1].cell = forces[u][1].cell
    BY <1>1, <1>2, <2>2
  <2> QED
    BY <2>2, <2>3 DEF LInv, CellsOK
<1>7. \A u \in Thread, c \in Cell : got'[u][c] # None => reserved'[c] /\ got'[u][c] = av'[c]
  BY DEF LInv, CellsOK
<1> QED
  BY <1>3, <1>4, <1>5, <1>6, <1>7 DEF CellsOK

LEMMA CellsSame ==
  ASSUME CellsOK, av' = av, reserved' = reserved, forces' = forces, got' = got
  PROVE  CellsOK'
  BY DEF CellsOK

(* The innermost call forces a cell that its thunk needs.                   *)
LEMMA CellsNested ==
  ASSUME LInv, NEW t \in Thread, Lazy!RunForce(t)
  PROVE  CellTypesOK' /\ CellsOK'
<1> DEFINE n == Len(forces[t])
           g == [Lazy!Top(t) EXCEPT !.todo = Tail(@)]
           f == Lazy!Frame(Head(Lazy!Top(t).todo))
<1>1. /\ forces[t] # <<>> /\ Lazy!Top(t).at = "run" /\ Lazy!Top(t).todo # <<>> /\ Lazy!Top(t).todo \in Seq(Cell)
      /\ n \in Nat /\ n \in 1..n /\ Lazy!Top(t) = forces[t][n] /\ Lazy!Top(t) \in CellFrameSet
      /\ forces \in [Thread -> Seq(CellFrameSet)] /\ Lazy!Top(t).cell \in Cell
  BY CellTop DEF LInv, Lazy!RunForce, Lazy!In
<1>2. /\ av' = av /\ reserved' = reserved /\ got' = got /\ refs' = refs /\ crashed' = crashed
      /\ forces' = [forces EXCEPT ![t] = Append([@ EXCEPT ![Len(@)] = g], f)]
  BY DEF Lazy!RunForce, Lazy!Top
<1>3. /\ Len(Lazy!Top(t).todo) \in Nat /\ 1 \in 1..Len(Lazy!Top(t).todo)
      /\ Head(Lazy!Top(t).todo) = Lazy!Top(t).todo[1] /\ Lazy!Top(t).todo[1] \in Cell
      /\ Tail(Lazy!Top(t).todo) \in Seq(Cell)
      /\ Len(Tail(Lazy!Top(t).todo)) = Len(Lazy!Top(t).todo) - 1
      /\ \A k \in 1..Len(Tail(Lazy!Top(t).todo)) :
           /\ k + 1 \in 1..Len(Lazy!Top(t).todo)
           /\ Tail(Lazy!Top(t).todo)[k] = Lazy!Top(t).todo[k + 1]
  <2> DEFINE s == Lazy!Top(t).todo
  <2>1. s \in Seq(Cell) /\ s # <<>>
    BY <1>1
  <2> HIDE DEF s
  <2>2. Len(s) \in Nat /\ Len(s) # 0
    BY <2>1, EmptySeq
  <2>3. 1 \in 1..Len(s) /\ Head(s) = s[1] /\ s[1] \in Cell
    BY <2>1, <2>2, ElementOfSeq, HeadTailProperties
  <2>4. Tail(s) \in Seq(Cell) /\ Len(Tail(s)) = Len(s) - 1 /\ \A k \in 1..Len(Tail(s)) : Tail(s)[k] = s[k+1]
    BY <2>1, HeadTailProperties
  <2>5. \A k \in 1..Len(Tail(s)) : k + 1 \in 1..Len(s)
    BY <2>2, <2>4
  <2> QED
    BY <2>2, <2>3, <2>4, <2>5 DEF s
<1>4. /\ g \in CellFrameSet /\ g.cell = Lazy!Top(t).cell /\ g.at = "run" /\ g.x = Lazy!Top(t).x
      /\ g.todo = Tail(Lazy!Top(t).todo) /\ g.r = Lazy!Top(t).r
  BY <1>1, <1>3 DEF CellFrameSet
<1>5. /\ f \in CellFrameSet /\ f.cell = Lazy!Top(t).todo[1] /\ f.at = "check" /\ f.todo = <<>>
  BY <1>3, CellConstants DEF CellFrameSet, Lazy!Frame, CellPlaces, Maybe
<1> HIDE DEF g, f
<1>6. /\ forces' \in [Thread -> Seq(CellFrameSet)]
      /\ Len(forces'[t]) = n + 1
      /\ \A u \in Thread \ {t} : forces'[u] = forces[u]
      /\ \A i \in 1..n : forces'[t][i] = IF i = n THEN g ELSE forces[t][i]
      /\ forces'[t][n + 1] = f
  BY <1>1, <1>2, <1>4, <1>5, Nested
<1>7. /\ \A i : i \in 1..Len(forces'[t]) <=> i \in 1..n \/ i = n + 1
      /\ \A i \in 1..n : i \in Nat /\ i < n + 1 /\ (i # n => i < n)
  BY <1>1, <1>6
<1>8. \A i \in 1..n : /\ forces'[t][i].cell = forces[t][i].cell /\ forces'[t][i].at = forces[t][i].at
  BY <1>1, <1>4, <1>6
<1>9. f.cell \in Lazy!Uses(Lazy!Top(t).cell)
  <2>1. FrameOK(t, Lazy!Top(t), av, reserved)
    BY <1>1 DEF LInv, CellsOK
  <2> QED
    BY <2>1, <1>3, <1>5 DEF FrameOK
<1>10. CellTypesOK'
  BY <1>2, <1>6 DEF LInv, CellTypesOK
<1>11. ASSUME NEW u \in Thread, NEW i \in 1..Len(forces'[u]) PROVE FrameOK(u, forces'[u][i], av, reserved)
  <2>1. CASE u # t
    BY <1>6, <2>1 DEF LInv, CellsOK
  <2>2. CASE u = t /\ i = n
    <3>1. FrameOK(t, Lazy!Top(t), av, reserved)
      BY <1>1 DEF LInv, CellsOK
    <3>2. \A k \in 1..Len(g.todo) : g.todo[k] \in Lazy!Uses(g.cell)
      BY <1>3, <1>4, <3>1 DEF FrameOK
    <3>3. FrameOK(t, g, av, reserved)
      BY <1>1, <1>4, <3>1, <3>2 DEF FrameOK
    <3> QED
      BY <1>1, <1>6, <2>2, <3>3
  <2>3. CASE u = t /\ i = n + 1
    <3>1. 1..Len(f.todo) = {}
      BY <1>5, EmptySeq
    <3>2. FrameOK(t, f, av, reserved)
      BY <1>5, <3>1 DEF FrameOK, MineAt, DoneAt, WorkAt
    <3> QED
      BY <1>6, <2>3, <3>2
  <2>4. CASE u = t /\ i \in 1..n /\ i # n
    BY <1>6, <2>4 DEF LInv, CellsOK
  <2> QED
    BY <1>7, <2>1, <2>2, <2>3, <2>4
<1>12. ASSUME NEW u \in Thread PROVE Below(forces'[u])
  <2>1. CASE u # t
    BY <1>6, <2>1 DEF LInv, CellsOK
  <2>2. CASE u = t
    <3> SUFFICES ASSUME NEW i \in 1..Len(forces'[t]), NEW j \in 1..Len(forces'[t]), i < j
                 PROVE  /\ forces'[t][i].at = "run"
                        /\ forces'[t][j].cell \in Lazy!Needed[forces'[t][i].cell]
                        /\ forces'[t][j].cell = forces'[t][i].cell
                             => forces'[t][j].at \in {"check", "return"}
      BY <2>2 DEF Below
    <3>0. i \in 1..n
      BY SMTT(30), <1>1, <1>7
    <3>1. CASE j \in 1..n
      BY <1>8, <3>0, <3>1 DEF LInv, CellsOK, Below
    <3>2. CASE j = n + 1
      <4>1. forces[t][i].at = "run" /\ forces[t][i].cell \in Cell
        <5>1. i # n => i < n
          BY <1>7, <3>0
        <5> QED
          BY <1>1, <3>0, <5>1, CellOf DEF LInv, CellsOK, Below
      <4>2. f.cell \in Lazy!Needed[forces[t][i].cell]
        <5>1. CASE i = n
          BY <1>1, <1>9, <5>1, CellNeededStep
        <5>2. CASE i # n
          <6>1. Lazy!Top(t).cell \in Lazy!Needed[forces[t][i].cell]
            BY <1>1, <1>7, <3>0, <5>2 DEF LInv, CellsOK, Below
          <6> QED
            BY <1>9, <4>1, <6>1, CellNeededStep
        <5> QED
          BY <5>1, <5>2
      <4> QED
        BY <1>5, <1>6, <1>8, <3>0, <3>2, <4>1, <4>2
    <3> QED
      BY <1>7, <3>1, <3>2
  <2> QED
    BY <2>1, <2>2
<1>13. ASSUME NEW u \in Thread, forces'[u] # <<>> PROVE got[u][forces'[u][1].cell] = None
  <2>1. CASE u # t
    BY <1>6, <1>13, <2>1 DEF LInv, CellsOK
  <2>2. CASE u = t
    <3>1. 1 \in 1..n
      BY <1>1
    <3> QED
      BY <1>1, <1>8, <2>2, <3>1 DEF LInv, CellsOK
  <2> QED
    BY <2>1, <2>2
<1>14. CellsOK'
  BY <1>2, <1>11, <1>12, <1>13 DEF LInv, CellsOK
<1> QED
  BY <1>10, <1>14

(* The innermost call returns: to the body that forced the cell, or to the  *)
(* thread, which has the cell's value from now on.                          *)
LEMMA CellsPopped ==
  ASSUME LInv, NEW t \in Thread, Lazy!Return(t)
  PROVE  CellTypesOK' /\ CellsOK'
<1> DEFINE n == Len(forces[t])  c == Lazy!Top(t).cell  v == Lazy!Top(t).r
           r == SubSeq(forces[t], 1, Len(forces[t]) - 1)
<1>1. /\ forces[t] # <<>> /\ Lazy!Top(t).at = "return" /\ c \in Cell /\ v \in Maybe
      /\ n \in Nat /\ n \in 1..n /\ Lazy!Top(t) = forces[t][n]
      /\ forces \in [Thread -> Seq(CellFrameSet)]
  BY CellTop DEF LInv, Lazy!Return, Lazy!In
<1>2. /\ av' = av /\ reserved' = reserved /\ crashed' = crashed
      /\ forces' = [forces EXCEPT ![t] = r]
  BY DEF Lazy!Return
<1>3. reserved[c] /\ v = av[c]
  <2>1. FrameOK(t, Lazy!Top(t), av, reserved)
    BY <1>1 DEF LInv, CellsOK
  <2> QED
    BY <1>1, <2>1 DEF FrameOK, DoneAt
<1>4. /\ forces' \in [Thread -> Seq(CellFrameSet)]
      /\ \A i : i \in 1..Len(forces'[t]) <=> i \in 1..n /\ i # n
      /\ \A u \in Thread \ {t} : forces'[u] = forces[u]
      /\ \A i \in 1..Len(forces'[t]) : forces'[t][i] = forces[t][i]
  BY <1>1, <1>2, Popped
<1>5. /\ av \in [Cell -> Lazy!Obj] /\ refs \in [Lazy!Obj -> Int] /\ got \in [Thread -> [Cell -> Maybe]]
      /\ reserved \in [Cell -> BOOLEAN] /\ crashed \in BOOLEAN
  BY DEF LInv, CellTypesOK
<1>6. v \in Lazy!Obj
  BY <1>1, <1>3, <1>5
<1>7. /\ refs' \in [Lazy!Obj -> Int]
      /\ got' \in [Thread -> [Cell -> Maybe]]
      /\ \A u \in Thread, d \in Cell :
           got'[u][d] = IF n = 1 /\ u = t /\ d = c THEN v ELSE got[u][d]
  <2>1. CASE n = 1
    <3>1. got' = [got EXCEPT ![t][c] = v] /\ refs' = refs
      BY <2>1 DEF Lazy!Return
    <3> QED
      BY <1>1, <1>5, <2>1, <3>1
  <2>2. CASE n # 1
    <3>1. got' = got /\ refs' = [refs EXCEPT ![v] = @ - 1]
      BY <2>2 DEF Lazy!Return
    <3> QED
      BY <1>5, <1>6, <2>2, <3>1
  <2> QED
    BY <2>1, <2>2
<1> HIDE DEF r
<1>8. CellTypesOK'
  BY <1>2, <1>4, <1>5, <1>7 DEF CellTypesOK
<1>9. ASSUME NEW u \in Thread, NEW i \in 1..Len(forces'[u]) PROVE FrameOK(u, forces'[u][i], av, reserved)
  BY <1>4 DEF LInv, CellsOK
<1>10. ASSUME NEW u \in Thread PROVE Below(forces'[u])
  <2>1. Below(forces[u])
    BY DEF LInv, CellsOK
  <2>2. CASE u # t
    BY <1>4, <2>1, <2>2
  <2>3. CASE u = t
    BY <1>4, <2>1, <2>3 DEF Below
  <2> QED
    BY <2>2, <2>3
<1>11. ASSUME NEW u \in Thread, forces'[u] # <<>> PROVE got'[u][forces'[u][1].cell] = None
  <2>1. forces'[u] \in Seq(CellFrameSet)
    BY <1>4
  <2>2. Len(forces'[u]) \in Nat /\ Len(forces'[u]) # 0
    BY <1>11, <2>1, EmptySeq
  <2>3. 1 \in 1..Len(forces'[u])
    BY <2>2
  <2>4. CASE u # t
    <3>1. forces'[u] = forces[u] /\ 1 \in 1..Len(forces[u])
      BY <1>4, <2>3, <2>4
    <3>2. forces[u][1].cell \in Cell
      BY <3>1, CellOf DEF LInv
    <3> QED
      BY <1>7, <1>11, <2>4, <3>1, <3>2 DEF LInv, CellsOK
  <2>5. CASE u = t
    <3>1. 1 \in 1..n /\ 1 # n /\ forces'[t][1] = forces[t][1]
      BY <1>4, <2>3, <2>5
    <3>2. forces[t][1].cell \in Cell
      BY <3>1, CellOf DEF LInv
    <3> QED
      BY <1>1, <1>7, <2>5, <3>1, <3>2 DEF LInv, CellsOK
  <2> QED
    BY <2>4, <2>5
<1>12. ASSUME NEW u \in Thread, NEW d \in Cell, got'[u][d] # None PROVE reserved[d] /\ got'[u][d] = av[d]
  BY <1>3, <1>7, <1>12 DEF LInv, CellsOK
<1>13. \A d \in Cell : av[d][1] = d /\ (~reserved[d] => av[d] = Lazy!Thunk(d))
  BY DEF LInv, CellsOK
<1>14. CellsOK'
  BY <1>2, <1>9, <1>10, <1>11, <1>12, <1>13 DEF CellsOK, Lazy!Thunk
<1> QED
  BY <1>8, <1>14

(* A thread forces a cell that it has no value of.                          *)
LEMMA CellsBegan ==
  ASSUME LInv, NEW t \in Thread, NEW c \in Cell, Lazy!Force(t, c)
  PROVE  CellTypesOK' /\ CellsOK'
<1> DEFINE f == Lazy!Frame(c)
<1>1. /\ forces[t] = <<>> /\ got[t][c] = None /\ forces' = [forces EXCEPT ![t] = <<f>>]
      /\ av' = av /\ reserved' = reserved /\ got' = got /\ refs' = refs /\ crashed' = crashed
  BY DEF Lazy!Force
<1>2. f \in CellFrameSet /\ f.cell = c /\ f.at = "check" /\ f.todo = <<>>
  BY CellConstants DEF CellFrameSet, Lazy!Frame, CellPlaces, Maybe
<1>3. forces \in [Thread -> Seq(CellFrameSet)]
  BY DEF LInv, CellTypesOK
<1> HIDE DEF f
<1>4. /\ forces' \in [Thread -> Seq(CellFrameSet)]
      /\ Len(forces'[t]) = 1 /\ forces'[t][1] = f
      /\ \A u \in Thread \ {t} : forces'[u] = forces[u]
  BY <1>1, <1>2, <1>3, Began
<1>5. CellTypesOK'
  BY <1>1, <1>4 DEF LInv, CellTypesOK
<1>6. FrameOK(t, f, av, reserved)
  <2>1. 1..Len(f.todo) = {}
    BY <1>2, EmptySeq
  <2> QED
    BY <1>2, <2>1 DEF FrameOK, MineAt, DoneAt, WorkAt
<1>7. \A i \in 1..Len(forces'[t]) : i = 1
  BY <1>4
<1>8. ASSUME NEW u \in Thread, NEW i \in 1..Len(forces'[u]) PROVE FrameOK(u, forces'[u][i], av, reserved)
  BY <1>4, <1>6, <1>7 DEF LInv, CellsOK
<1>9. ASSUME NEW u \in Thread PROVE Below(forces'[u])
  <2>1. CASE u # t
    BY <1>4, <2>1 DEF LInv, CellsOK
  <2>2. CASE u = t
    BY <1>7, <2>2 DEF Below
  <2> QED
    BY <2>1, <2>2
<1>10. ASSUME NEW u \in Thread, forces'[u] # <<>> PROVE got[u][forces'[u][1].cell] = None
  BY <1>1, <1>2, <1>4, <1>10 DEF LInv, CellsOK
<1>11. CellsOK'
  BY <1>1, <1>8, <1>9, <1>10 DEF LInv, CellsOK
<1> QED
  BY <1>5, <1>11

(* A step of the innermost call, which stays in the force it is in.         *)
CellStep(t, f) ==
  /\ ~crashed /\ crashed' = crashed /\ got' = got
  /\ forces[t] # <<>> /\ f \in CellFrameSet /\ f.cell = Lazy!Top(t).cell
  /\ forces' = [forces EXCEPT ![t] = [@ EXCEPT ![Len(@)] = f]]
  /\ av' \in [Cell -> Lazy!Obj] /\ reserved' \in [Cell -> BOOLEAN] /\ refs' \in [Lazy!Obj -> Int]
  /\ \A c \in Cell :
       \/ av'[c] = av[c] /\ reserved'[c] = reserved[c]
       \/ /\ c = f.cell /\ Lazy!Top(t).at = "store"
          /\ ~reserved[c] /\ reserved'[c] /\ av'[c] = <<c, t>>
  /\ FrameOK(t, f, av', reserved')
  /\ \/ f.at \in {"check", "return"}
     \/ Lazy!Top(t).at \notin {"check", "return"}
     \/ ~Lazy!ForcingHere(t, f.cell)

LEMMA CellStepSound ==
  ASSUME LInv, NEW t \in Thread, NEW f, CellStep(t, f)
  PROVE  LInv'
<1>1. forces' \in [Thread -> Seq(CellFrameSet)]
  <2> DEFINE st == forces  new == forces'
  <2>1. /\ st \in [Thread -> Seq(CellFrameSet)] /\ st[t] # <<>> /\ f \in CellFrameSet
        /\ new = [st EXCEPT ![t] = [@ EXCEPT ![Len(@)] = f]]
    BY DEF LInv, CellTypesOK, CellStep
  <2> HIDE DEF st, new
  <2>2. new \in [Thread -> Seq(CellFrameSet)]
    BY <2>1, Replaced
  <2> QED
    BY <2>2 DEF new
<1>2. CellTypesOK'
  BY <1>1 DEF LInv, CellTypesOK, CellStep
<1>3. CellsOK'
  BY CellsMoved DEF CellStep
<1>4. CrashOK'
  BY DEF CellStep, CrashOK
<1> QED
  BY <1>2, <1>3, <1>4 DEF LInv

LEMMA CellNow ==
  ASSUME LInv, NEW t \in Thread, NEW where, Lazy!In(t, where)
  PROVE  /\ ~crashed /\ forces[t] # <<>> /\ Lazy!Top(t).at = where
         /\ Lazy!Top(t) \in CellFrameSet /\ Lazy!Top(t).cell \in Cell
         /\ Lazy!Top(t).x \in Maybe /\ Lazy!Top(t).r \in Maybe /\ Lazy!Top(t).todo \in Seq(Cell)
         /\ FrameOK(t, Lazy!Top(t), av, reserved)
         /\ av \in [Cell -> Lazy!Obj] /\ reserved \in [Cell -> BOOLEAN] /\ refs \in [Lazy!Obj -> Int]
         /\ \A c \in Cell : av[c][1] = c /\ (~reserved[c] => av[c] = Lazy!Thunk(c))
         /\ \A f : Lazy!Become(t, f) => forces' = [forces EXCEPT ![t] = [@ EXCEPT ![Len(@)] = f]]
<1>1. ~crashed /\ forces[t] # <<>> /\ Lazy!Top(t).at = where
  BY DEF Lazy!In
<1>2. /\ Lazy!Top(t) = forces[t][Len(forces[t])] /\ Lazy!Top(t) \in CellFrameSet
      /\ Lazy!Top(t).cell \in Cell /\ Lazy!Top(t).todo \in Seq(Cell)
      /\ Lazy!Top(t).x \in Maybe /\ Lazy!Top(t).r \in Maybe
      /\ Len(forces[t]) \in 1..Len(forces[t])
  BY <1>1, CellTop DEF LInv
<1>3. FrameOK(t, Lazy!Top(t), av, reserved)
  BY <1>2 DEF LInv, CellsOK
<1>4. /\ av \in [Cell -> Lazy!Obj] /\ reserved \in [Cell -> BOOLEAN] /\ refs \in [Lazy!Obj -> Int]
      /\ \A c \in Cell : av[c][1] = c /\ (~reserved[c] => av[c] = Lazy!Thunk(c))
  BY DEF LInv, CellTypesOK, CellsOK
<1>5. \A f : Lazy!Become(t, f) => forces' = [forces EXCEPT ![t] = [@ EXCEPT ![Len(@)] = f]]
  BY DEF Lazy!Become
<1> QED
  BY <1>1, <1>2, <1>3, <1>4, <1>5

(* The unlocked look at the cell: it has a value, or goes for the lock.     *)
LEMMA CheckStep ==
  ASSUME LInv, NEW t \in Thread, Lazy!Check(t)
  PROVE  LET c == Lazy!Top(t).cell
         IN  /\ Lazy!Top(t).at = "check" /\ c \in Cell
             /\ \/ /\ \E f : /\ CellStep(t, f) /\ f.at = "return" /\ f.r = av[c]
                             /\ av' = av /\ refs' = [refs EXCEPT ![av[c]] = @ + 1]
                \/ /\ \E f : CellStep(t, f) /\ f.at = "lock" /\ av' = av /\ refs' = refs
                \/ /\ crashed' /\ Lazy!ForcingHere(t, c)
                   /\ UNCHANGED <<av, reserved, refs, forces, got>>
<1> DEFINE c == Lazy!Top(t).cell  top == Lazy!Top(t)
<1>1. /\ ~crashed /\ forces[t] # <<>> /\ top.at = "check" /\ top \in CellFrameSet /\ c \in Cell
      /\ FrameOK(t, top, av, reserved)
      /\ av \in [Cell -> Lazy!Obj] /\ reserved \in [Cell -> BOOLEAN] /\ refs \in [Lazy!Obj -> Int]
      /\ \A d \in Cell : av[d][1] = d /\ (~reserved[d] => av[d] = Lazy!Thunk(d))
      /\ \A f : Lazy!Become(t, f) => forces' = [forces EXCEPT ![t] = [@ EXCEPT ![Len(@)] = f]]
  BY CellNow DEF Lazy!Check
<1>2. av' = av /\ reserved' = reserved /\ got' = got
  BY DEF Lazy!Check
<1>3. CASE reserved[c] /\ refs' = [refs EXCEPT ![av[c]] = @ + 1] /\ UNCHANGED crashed
           /\ Lazy!Become(t, Lazy!Returning(top, av[c]))
  <2> DEFINE f == Lazy!Returning(top, av[c])
  <2>1. /\ f \in CellFrameSet /\ f.cell = c /\ f.at = "return" /\ f.r = av[c] /\ f.todo = top.todo
    BY <1>1 DEF CellFrameSet, CellPlaces, Maybe, Lazy!Returning
  <2>2. forces' = [forces EXCEPT ![t] = [@ EXCEPT ![Len(@)] = f]]
    BY <1>1, <1>3
  <2> HIDE DEF f
  <2>3. FrameOK(t, f, av, reserved)
    BY <1>1, <1>3, <2>1 DEF FrameOK, MineAt, DoneAt, WorkAt
  <2>4. refs' \in [Lazy!Obj -> Int]
    BY <1>1, <1>3
  <2>5. CellStep(t, f)
    BY <1>1, <1>2, <1>3, <2>1, <2>2, <2>3, <2>4 DEF CellStep
  <2> QED
    BY <1>1, <1>2, <1>3, <2>1, <2>5
<1>4. CASE ~reserved[c] /\ ~Lazy!ForcingHere(t, c) /\ UNCHANGED <<refs, crashed>>
           /\ Lazy!Become(t, [top EXCEPT !.at = "lock"])
  <2> DEFINE f == [top EXCEPT !.at = "lock"]
  <2>1. /\ f \in CellFrameSet /\ f.cell = c /\ f.at = "lock" /\ f.todo = top.todo
    BY <1>1 DEF CellFrameSet, CellPlaces
  <2>2. forces' = [forces EXCEPT ![t] = [@ EXCEPT ![Len(@)] = f]]
    BY <1>1, <1>4
  <2> HIDE DEF f
  <2>3. FrameOK(t, f, av, reserved)
    <3>1. av[c] # <<c, t>>
      BY <1>1, <1>4, CellConstants
    <3> QED
      BY <1>1, <1>4, <2>1, <3>1 DEF FrameOK, MineAt, DoneAt, WorkAt
  <2>5. CellStep(t, f)
    BY <1>1, <1>2, <1>4, <2>1, <2>2, <2>3 DEF CellStep
  <2> QED
    BY <1>1, <1>2, <1>4, <2>1, <2>5
<1>5. CASE Lazy!ForcingHere(t, c) /\ crashed' = TRUE /\ UNCHANGED <<refs, forces>>
  BY <1>1, <1>2, <1>5
<1> QED
  BY <1>3, <1>4, <1>5 DEF Lazy!Check

LEMMA LockStep ==
  ASSUME LInv, NEW t \in Thread, Lazy!Lock(t)
  PROVE  LET top == Lazy!Top(t)
         IN  /\ top.cell \in Cell /\ av' = av /\ refs' = refs
             /\ \E f : /\ CellStep(t, f) /\ f.x = top.x /\ f.r = top.r
                       /\ \/ top.at = "lock" /\ f.at = "take"
                          \/ top.at = "relock" /\ f.at = "store"
<1> DEFINE top == Lazy!Top(t)  c == top.cell
           f == [top EXCEPT !.at = IF @ = "lock" THEN "take" ELSE "store"]
<1>1. /\ ~crashed /\ forces[t] # <<>> /\ top.at \in {"lock", "relock"} /\ top \in CellFrameSet /\ c \in Cell
      /\ FrameOK(t, top, av, reserved)
      /\ av \in [Cell -> Lazy!Obj] /\ reserved \in [Cell -> BOOLEAN] /\ refs \in [Lazy!Obj -> Int]
      /\ \A g : Lazy!Become(t, g) => forces' = [forces EXCEPT ![t] = [@ EXCEPT ![Len(@)] = g]]
  BY CellNow DEF Lazy!Lock
<1>2. av' = av /\ reserved' = reserved /\ got' = got /\ refs' = refs /\ crashed' = crashed
      /\ Lazy!Become(t, f)
  BY DEF Lazy!Lock
<1>3. /\ f \in CellFrameSet /\ f.cell = c /\ f.todo = top.todo /\ f.x = top.x /\ f.r = top.r
      /\ top.at = "lock" => f.at = "take"
      /\ top.at = "relock" => f.at = "store"
  BY <1>1 DEF CellFrameSet, CellPlaces
<1>4. forces' = [forces EXCEPT ![t] = [@ EXCEPT ![Len(@)] = f]]
  BY <1>1, <1>2
<1> HIDE DEF f
<1>5. FrameOK(t, f, av, reserved)
  BY <1>1, <1>3 DEF FrameOK, MineAt, DoneAt, WorkAt
<1>6. CellStep(t, f)
  BY <1>1, <1>2, <1>3, <1>4, <1>5 DEF CellStep
<1> QED
  BY <1>1, <1>2, <1>3, <1>6

(* The thread's own reference to what the cell holds.                       *)
LEMMA TakeStep ==
  ASSUME LInv, NEW t \in Thread, Lazy!Take(t)
  PROVE  LET c == Lazy!Top(t).cell
         IN  /\ Lazy!Top(t).at = "take" /\ c \in Cell
             /\ av' = av /\ refs' = [refs EXCEPT ![av[c]] = @ + 1]
             /\ \E f : /\ CellStep(t, f)
                       /\ \/ f.at = "return" /\ f.r = av[c]
                          \/ f.at = "run" /\ f.x = av[c]
<1> DEFINE top == Lazy!Top(t)  c == top.cell
<1>1. /\ ~crashed /\ forces[t] # <<>> /\ top.at = "take" /\ top \in CellFrameSet /\ c \in Cell
      /\ FrameOK(t, top, av, reserved)
      /\ av \in [Cell -> Lazy!Obj] /\ reserved \in [Cell -> BOOLEAN] /\ refs \in [Lazy!Obj -> Int]
      /\ \A d \in Cell : av[d][1] = d /\ (~reserved[d] => av[d] = Lazy!Thunk(d))
      /\ \A f : Lazy!Become(t, f) => forces' = [forces EXCEPT ![t] = [@ EXCEPT ![Len(@)] = f]]
  BY CellNow DEF Lazy!Take
<1>2. /\ av' = av /\ reserved' = reserved /\ got' = got /\ crashed' = crashed
      /\ refs' = [refs EXCEPT ![av[c]] = @ + 1]
      /\ Lazy!Become(t, IF reserved[c] THEN Lazy!Returning(top, av[c])
                        ELSE [top EXCEPT !.at = "run", !.x = av[c], !.todo = CellNeeds[c]])
  BY DEF Lazy!Take
<1>3. refs' \in [Lazy!Obj -> Int]
  BY <1>1, <1>2
<1>4. CASE reserved[c]
  <2> DEFINE f == Lazy!Returning(top, av[c])
  <2>1. /\ f \in CellFrameSet /\ f.cell = c /\ f.at = "return" /\ f.r = av[c] /\ f.todo = top.todo
    BY <1>1 DEF CellFrameSet, CellPlaces, Maybe, Lazy!Returning
  <2>2. forces' = [forces EXCEPT ![t] = [@ EXCEPT ![Len(@)] = f]]
    BY <1>1, <1>2, <1>4
  <2> HIDE DEF f
  <2>3. FrameOK(t, f, av, reserved)
    BY <1>1, <1>4, <2>1 DEF FrameOK, MineAt, DoneAt, WorkAt
  <2>4. CellStep(t, f)
    BY <1>1, <1>2, <1>3, <2>1, <2>2, <2>3 DEF CellStep
  <2> QED
    BY <1>1, <1>2, <2>1, <2>4
<1>5. CASE ~reserved[c]
  <2> DEFINE f == [top EXCEPT !.at = "run", !.x = av[c], !.todo = CellNeeds[c]]
  <2>1. /\ f \in CellFrameSet /\ f.cell = c /\ f.at = "run" /\ f.x = av[c] /\ f.todo = CellNeeds[c]
    BY <1>1, CellConstants DEF CellFrameSet, CellPlaces, Maybe
  <2>2. forces' = [forces EXCEPT ![t] = [@ EXCEPT ![Len(@)] = f]]
    BY <1>1, <1>2, <1>5
  <2> HIDE DEF f
  <2>3. FrameOK(t, f, av, reserved)
    <3>1. \A k \in 1..Len(f.todo) : f.todo[k] \in Lazy!Uses(c)
      BY <2>1 DEF Lazy!Uses
    <3> QED
      BY <1>1, <1>5, <2>1, <3>1 DEF FrameOK, MineAt, DoneAt, WorkAt
  <2>4. CellStep(t, f)
    BY <1>1, <1>2, <1>3, <2>1, <2>2, <2>3 DEF CellStep
  <2> QED
    BY <1>1, <1>2, <2>1, <2>4
<1> QED
  BY <1>4, <1>5

(* The thunk's own value, with one reference.                               *)
LEMMA ReturnStep ==
  ASSUME LInv, NEW t \in Thread, Lazy!RunReturn(t)
  PROVE  LET c == Lazy!Top(t).cell
         IN  /\ Lazy!Top(t).at = "run" /\ c \in Cell
             /\ av' = av /\ refs' = [refs EXCEPT ![<<c, t>>] = 1]
             /\ \E f : CellStep(t, f) /\ f.at = "relock" /\ f.x = Lazy!Top(t).x /\ f.r = <<c, t>>
<1> DEFINE top == Lazy!Top(t)  c == top.cell
           f == [top EXCEPT !.at = "relock", !.r = <<c, t>>]
<1>1. /\ ~crashed /\ forces[t] # <<>> /\ top.at = "run" /\ top \in CellFrameSet /\ c \in Cell
      /\ FrameOK(t, top, av, reserved)
      /\ av \in [Cell -> Lazy!Obj] /\ reserved \in [Cell -> BOOLEAN] /\ refs \in [Lazy!Obj -> Int]
      /\ \A g : Lazy!Become(t, g) => forces' = [forces EXCEPT ![t] = [@ EXCEPT ![Len(@)] = g]]
  BY CellNow DEF Lazy!RunReturn
<1>2. /\ av' = av /\ reserved' = reserved /\ got' = got /\ crashed' = crashed
      /\ refs' = [refs EXCEPT ![<<c, t>>] = 1]
      /\ Lazy!Become(t, f)
  BY DEF Lazy!RunReturn
<1>3. <<c, t>> \in Lazy!Obj
  BY <1>1, CellConstants
<1>4. refs' \in [Lazy!Obj -> Int]
  BY <1>1, <1>2, <1>3
<1>5. /\ f \in CellFrameSet /\ f.cell = c /\ f.at = "relock" /\ f.x = top.x /\ f.r = <<c, t>>
      /\ f.todo = top.todo
  BY <1>1, <1>3 DEF CellFrameSet, CellPlaces, Maybe
<1>6. forces' = [forces EXCEPT ![t] = [@ EXCEPT ![Len(@)] = f]]
  BY <1>1, <1>2
<1> HIDE DEF f
<1>7. FrameOK(t, f, av, reserved)
  BY <1>1, <1>5 DEF FrameOK, MineAt, DoneAt, WorkAt
<1>8. CellStep(t, f)
  BY <1>1, <1>2, <1>4, <1>5, <1>6, <1>7 DEF CellStep
<1> QED
  BY <1>1, <1>2, <1>5, <1>8

(* The first to store decides the cell's value; another one takes it and    *)
(* drops its own.                                                           *)
LEMMA StoreStep ==
  ASSUME LInv, NEW t \in Thread, Lazy!Store(t)
  PROVE  LET c == Lazy!Top(t).cell  v == <<c, t>>
         IN  /\ Lazy!Top(t).at = "store" /\ c \in Cell /\ v \in Lazy!Obj
             /\ Lazy!Top(t).r = v /\ av[c] # v /\ av[c] \in Lazy!Obj
             /\ \/ /\ ~reserved[c] /\ av' = [av EXCEPT ![c] = v]
                   /\ refs' = [refs EXCEPT ![v] = @ + 1]
                   /\ Lazy!Top(t).x = av[c]
                   /\ \E f : /\ CellStep(t, f) /\ f.at = "drop_cell"
                             /\ f.x = Lazy!Top(t).x /\ f.r = v
                \/ /\ av' = av /\ refs' = [refs EXCEPT ![av[c]] = @ + 1, ![v] = @ - 1]
                   /\ \E f : /\ CellStep(t, f) /\ f.at = "drop_ours"
                             /\ f.x = Lazy!Top(t).x /\ f.r = av[c]
<1> DEFINE top == Lazy!Top(t)  c == top.cell  v == <<c, t>>
<1>1. /\ ~crashed /\ forces[t] # <<>> /\ top.at = "store" /\ top \in CellFrameSet /\ c \in Cell
      /\ FrameOK(t, top, av, reserved)
      /\ av \in [Cell -> Lazy!Obj] /\ reserved \in [Cell -> BOOLEAN] /\ refs \in [Lazy!Obj -> Int]
      /\ \A d \in Cell : av[d][1] = d /\ (~reserved[d] => av[d] = Lazy!Thunk(d))
      /\ \A f : Lazy!Become(t, f) => forces' = [forces EXCEPT ![t] = [@ EXCEPT ![Len(@)] = f]]
  BY CellNow DEF Lazy!Store
<1>2. got' = got /\ crashed' = crashed
  BY DEF Lazy!Store
<1>3. /\ top.r = v /\ v \in Lazy!Obj /\ av[c] # v /\ av[c] \in Lazy!Obj
      /\ top.x = Lazy!Thunk(c)
  BY <1>1, CellConstants DEF FrameOK, MineAt, WorkAt
<1>4. CASE ~reserved[c]
  <2> DEFINE f == [top EXCEPT !.at = "drop_cell"]
  <2>1. /\ av' = [av EXCEPT ![c] = v] /\ reserved' = [reserved EXCEPT ![c] = TRUE]
        /\ refs' = [refs EXCEPT ![v] = @ + 1] /\ Lazy!Become(t, f)
    BY <1>3, <1>4 DEF Lazy!Store
  <2>2. /\ f \in CellFrameSet /\ f.cell = c /\ f.at = "drop_cell" /\ f.x = top.x /\ f.r = v
        /\ f.todo = top.todo
    BY <1>1, <1>3 DEF CellFrameSet, CellPlaces, Maybe
  <2>3. forces' = [forces EXCEPT ![t] = [@ EXCEPT ![Len(@)] = f]]
    BY <1>1, <2>1
  <2> HIDE DEF f
  <2>4. /\ av'[c] = v /\ reserved'[c]
        /\ av' \in [Cell -> Lazy!Obj] /\ reserved' \in [Cell -> BOOLEAN] /\ refs' \in [Lazy!Obj -> Int]
        /\ \A d \in Cell : d # c => av'[d] = av[d] /\ reserved'[d] = reserved[d]
    BY <1>1, <1>3, <2>1
  <2>5. FrameOK(t, f, av', reserved')
    BY <1>1, <1>3, <2>2, <2>4 DEF FrameOK, MineAt, DoneAt, WorkAt
  <2>6. CellStep(t, f)
    BY <1>1, <1>2, <1>4, <2>2, <2>3, <2>4, <2>5 DEF CellStep
  <2>7. top.x = av[c]
    BY <1>1, <1>3, <1>4
  <2> QED
    BY <1>1, <1>3, <1>4, <2>1, <2>2, <2>6, <2>7
<1>5. CASE reserved[c]
  <2> DEFINE f == [top EXCEPT !.at = "drop_ours", !.r = av[c]]
  <2>1. /\ av' = av /\ reserved' = reserved
        /\ refs' = [refs EXCEPT ![av[c]] = @ + 1, ![v] = @ - 1] /\ Lazy!Become(t, f)
    BY <1>3, <1>5 DEF Lazy!Store
  <2>2. /\ f \in CellFrameSet /\ f.cell = c /\ f.at = "drop_ours" /\ f.x = top.x /\ f.r = av[c]
        /\ f.todo = top.todo
    BY <1>1, <1>3 DEF CellFrameSet, CellPlaces, Maybe
  <2>3. forces' = [forces EXCEPT ![t] = [@ EXCEPT ![Len(@)] = f]]
    BY <1>1, <2>1
  <2> HIDE DEF f
  <2>4. refs' \in [Lazy!Obj -> Int]
    BY <1>1, <1>3, <2>1
  <2>5. FrameOK(t, f, av, reserved)
    BY <1>1, <1>3, <1>5, <2>2 DEF FrameOK, MineAt, DoneAt, WorkAt
  <2>6. CellStep(t, f)
    BY <1>1, <1>2, <2>1, <2>2, <2>3, <2>4, <2>5 DEF CellStep
  <2> QED
    BY <1>1, <1>3, <2>1, <2>2, <2>6
<1> QED
  BY <1>4, <1>5

LEMMA DropStep ==
  ASSUME LInv, NEW t \in Thread, Lazy!DropThunk(t)
  PROVE  LET top == Lazy!Top(t)
         IN  /\ top.x \in Lazy!Obj /\ av' = av /\ refs' = [refs EXCEPT ![top.x] = @ - 1]
             /\ \E f : /\ CellStep(t, f) /\ f.x = top.x /\ f.r = top.r
                       /\ \/ top.at = "drop_cell" /\ f.at = "drop_ours"
                          \/ top.at = "drop_ours" /\ f.at = "return"
<1> DEFINE top == Lazy!Top(t)  c == top.cell
           f == [top EXCEPT !.at = IF @ = "drop_cell" THEN "drop_ours" ELSE "return"]
<1>1. /\ ~crashed /\ forces[t] # <<>> /\ top.at \in {"drop_cell", "drop_ours"}
      /\ top \in CellFrameSet /\ c \in Cell
      /\ FrameOK(t, top, av, reserved)
      /\ av \in [Cell -> Lazy!Obj] /\ reserved \in [Cell -> BOOLEAN] /\ refs \in [Lazy!Obj -> Int]
      /\ \A g : Lazy!Become(t, g) => forces' = [forces EXCEPT ![t] = [@ EXCEPT ![Len(@)] = g]]
  BY CellNow DEF Lazy!DropThunk
<1>2. /\ av' = av /\ reserved' = reserved /\ got' = got /\ crashed' = crashed
      /\ refs' = [refs EXCEPT ![top.x] = @ - 1] /\ Lazy!Become(t, f)
  BY DEF Lazy!DropThunk
<1>3. /\ f \in CellFrameSet /\ f.cell = c /\ f.todo = top.todo /\ f.x = top.x /\ f.r = top.r
      /\ top.at = "drop_cell" => f.at = "drop_ours"
      /\ top.at = "drop_ours" => f.at = "return"
  BY <1>1 DEF CellFrameSet, CellPlaces
<1>4. forces' = [forces EXCEPT ![t] = [@ EXCEPT ![Len(@)] = f]]
  BY <1>1, <1>2
<1> HIDE DEF f
<1>5. top.x \in Lazy!Obj
  BY <1>1, CellConstants DEF FrameOK, MineAt
<1>6. refs' \in [Lazy!Obj -> Int]
  <2>1. refs \in [Lazy!Obj -> Int] /\ refs' = [refs EXCEPT ![top.x] = @ - 1]
    BY <1>1, <1>2
  <2> HIDE DEF top
  <2> QED
    BY <1>5, <2>1
<1>7. FrameOK(t, f, av, reserved)
  BY <1>1, <1>3 DEF FrameOK, MineAt, DoneAt, WorkAt
<1>8. CellStep(t, f)
  BY <1>1, <1>2, <1>3, <1>4, <1>6, <1>7 DEF CellStep
<1> QED
  BY <1>1, <1>2, <1>3, <1>5, <1>8

LEMMA LInvInit == Lazy!Init => LInv
<1> SUFFICES ASSUME Lazy!Init PROVE LInv
  OBVIOUS
<1>1. \A t \in Thread : forces[t] = <<>> /\ 1..Len(forces[t]) = {}
  BY EmptySeq DEF Lazy!Init
<1>2. CellTypesOK
  <2>1. av \in [Cell -> Lazy!Obj] /\ reserved \in [Cell -> BOOLEAN] /\ crashed \in BOOLEAN
    BY CellConstants DEF Lazy!Init
  <2>2. refs \in [Lazy!Obj -> Int] /\ got \in [Thread -> [Cell -> Maybe]]
    BY DEF Lazy!Init, Maybe
  <2>3. forces \in [Thread -> Seq(CellFrameSet)]
    <3>1. <<>> \in Seq(CellFrameSet)
      OBVIOUS
    <3> QED
      BY <3>1 DEF Lazy!Init
  <2> QED
    BY <2>1, <2>2, <2>3 DEF CellTypesOK
<1>3. CellsOK
  <2>1. \A c \in Cell : av[c][1] = c /\ (~reserved[c] => av[c] = Lazy!Thunk(c))
    BY DEF Lazy!Init, Lazy!Thunk
  <2>2. \A t \in Thread, c \in Cell : got[t][c] = None
    BY DEF Lazy!Init
  <2> QED
    BY <1>1, <2>1, <2>2 DEF CellsOK, Below
<1>4. CrashOK
  BY DEF CrashOK, Lazy!Init
<1> QED
  BY <1>2, <1>3, <1>4 DEF LInv

LEMMA LInvStep == LInv /\ [Lazy!Next]_lazyVars => LInv'
<1> SUFFICES ASSUME LInv, [Lazy!Next]_lazyVars PROVE LInv'
  OBVIOUS
<1>1. CASE UNCHANGED lazyVars
  <2>1. av' = av /\ reserved' = reserved /\ refs' = refs /\ forces' = forces /\ got' = got /\ crashed' = crashed
    BY <1>1 DEF lazyVars
  <2>2. CellTypesOK' /\ CellsOK'
    BY <2>1, CellsSame DEF LInv, CellTypesOK
  <2>3. CrashOK'
    BY <2>1 DEF LInv, CrashOK, Lazy!Top
  <2> QED
    BY <2>2, <2>3 DEF LInv
<1>2. ASSUME NEW t \in Thread, NEW c \in Cell, Lazy!Force(t, c) PROVE LInv'
  <2>1. CellTypesOK' /\ CellsOK'
    BY <1>2, CellsBegan
  <2>2. CrashOK'
    BY <1>2 DEF CrashOK, Lazy!Force
  <2> QED
    BY <2>1, <2>2 DEF LInv
<1>3. ASSUME NEW t \in Thread, Lazy!Check(t) PROVE LInv'
  <2> DEFINE c == Lazy!Top(t).cell
  <2>1. CASE \E f : CellStep(t, f)
    BY <2>1, CellStepSound
  <2>2. CASE /\ crashed' /\ Lazy!ForcingHere(t, c)
             /\ UNCHANGED <<av, reserved, refs, forces, got>>
    <3>1. av' = av /\ reserved' = reserved /\ refs' = refs /\ forces' = forces /\ got' = got
      BY <2>2
    <3>2. CellsOK'
      BY <3>1, CellsSame DEF LInv
    <3>3. CellTypesOK'
      <4>1. crashed' \in BOOLEAN
        BY <1>3 DEF Lazy!Check, LInv, CellTypesOK
      <4> QED
        BY <3>1, <4>1 DEF LInv, CellTypesOK
    <3>4. /\ forces[t] # <<>> /\ Lazy!Top(t).at = "check" /\ c \in Cell
          /\ Lazy!Top(t) = forces[t][Len(forces[t])]
          /\ Len(forces[t]) \in Nat /\ Len(forces[t]) \in 1..Len(forces[t])
      BY <1>3, CellTop DEF LInv, Lazy!Check, Lazy!In
    <3>5. c \in Lazy!Needed[c]
      <4>1. PICK i \in 1..Len(forces[t]) - 1 : forces[t][i].cell = c
        BY <2>2 DEF Lazy!ForcingHere
      <4>2. i \in 1..Len(forces[t]) /\ i < Len(forces[t])
        BY <3>4, <4>1
      <4> QED
        BY <3>4, <4>1, <4>2 DEF LInv, CellsOK, Below
    <3>6. forces'[t] # <<>> /\ Lazy!Top(t)' = Lazy!Top(t)
      BY <3>1, <3>4 DEF Lazy!Top
    <3>7. CrashOK'
      BY <3>4, <3>5, <3>6 DEF CrashOK
    <3> QED
      BY <3>2, <3>3, <3>7 DEF LInv
  <2> QED
    BY <1>3, <2>1, <2>2, CheckStep
<1>4. ASSUME NEW t \in Thread, Lazy!Lock(t) PROVE LInv'
  BY <1>4, LockStep, CellStepSound
<1>5. ASSUME NEW t \in Thread, Lazy!Take(t) PROVE LInv'
  BY <1>5, TakeStep, CellStepSound
<1>6. ASSUME NEW t \in Thread, Lazy!RunForce(t) PROVE LInv'
  <2>1. CrashOK'
    BY <1>6 DEF CrashOK, Lazy!RunForce, Lazy!In
  <2> QED
    BY <1>6, <2>1, CellsNested DEF LInv
<1>7. ASSUME NEW t \in Thread, Lazy!RunReturn(t) PROVE LInv'
  BY <1>7, ReturnStep, CellStepSound
<1>8. ASSUME NEW t \in Thread, Lazy!Store(t) PROVE LInv'
  BY <1>8, StoreStep, CellStepSound
<1>9. ASSUME NEW t \in Thread, Lazy!DropThunk(t) PROVE LInv'
  BY <1>9, DropStep, CellStepSound
<1>10. ASSUME NEW t \in Thread, Lazy!Return(t) PROVE LInv'
  <2>1. CrashOK'
    BY <1>10 DEF CrashOK, Lazy!Return, Lazy!In
  <2> QED
    BY <1>10, <2>1, CellsPopped DEF LInv
<1> QED
  BY <1>1, <1>2, <1>3, <1>4, <1>5, <1>6, <1>7, <1>8, <1>9, <1>10 DEF Lazy!Next, Lazy!Step

LEMMA LInvAgrees == LInv => ForcesAgree
  BY DEF LInv, CellsOK, CrashOK, ForcesAgree, Lazy!ForcesAgree

-----------------------------------------------------------------------------
(* Lazy cells: who holds a reference.  The cells and the threads hold one   *)
(* each; a frame holds the closure it evaluates, the cell's old reference   *)
(* to it from the moment it has replaced it, and the result it has.         *)

CellHolds(o) == {c \in Cell : av[c] = o}
Returned(o)  == {p \in Thread \X Cell : got[p[1]][p[2]] = o}
MineOf(o)    == {f \in CellFrameSet : f.at \in MineAt /\ f.x = o}
OldOf(o)     == {f \in CellFrameSet : f.at = "drop_cell" /\ f.x = o}
ResultOf(o)  == {f \in CellFrameSet : f.at \in {"relock", "store"} \cup DoneAt /\ f.r = o}
Weight(f, o) == One(f \in MineOf(o)) + One(f \in OldOf(o)) + One(f \in ResultOf(o))

FramesFinite(st, o) ==
  /\ IsFiniteSet(Slots(st, MineOf(o))) /\ IsFiniteSet(Slots(st, OldOf(o)))
  /\ IsFiniteSet(Slots(st, ResultOf(o)))
InFrames(st, o) ==
  Cardinality(Slots(st, MineOf(o))) + Cardinality(Slots(st, OldOf(o)))
    + Cardinality(Slots(st, ResultOf(o)))

CellCounts ==
  \A o \in Lazy!Obj :
    /\ IsFiniteSet(CellHolds(o)) /\ IsFiniteSet(Returned(o)) /\ FramesFinite(forces, o)
    /\ refs[o] = Cardinality(CellHolds(o)) + Cardinality(Returned(o)) + InFrames(forces, o)

LEMMA Weights ==
  ASSUME NEW f \in CellFrameSet, NEW o
  PROVE  /\ Weight(f, o) \in Nat
         /\ f.at \in {"check", "lock", "take"} => Weight(f, o) = 0
         /\ f.at = "run" => Weight(f, o) = One(f.x = o)
         /\ f.at \in {"relock", "store", "drop_ours"} => Weight(f, o) = One(f.x = o) + One(f.r = o)
         /\ f.at = "drop_cell" => Weight(f, o) = One(f.x = o) + One(f.x = o) + One(f.r = o)
         /\ f.at = "return" => Weight(f, o) = One(f.r = o)
         /\ One(f.x = o) \in {0, 1} /\ One(f.r = o) \in {0, 1}
<1>1. /\ f \in MineOf(o) <=> f.at \in MineAt /\ f.x = o
      /\ f \in OldOf(o) <=> f.at = "drop_cell" /\ f.x = o
      /\ f \in ResultOf(o) <=> f.at \in {"relock", "store"} \cup DoneAt /\ f.r = o
  BY DEF MineOf, OldOf, ResultOf
<1>2. One(f.x = o) \in {0, 1} /\ One(f.r = o) \in {0, 1}
  BY DEF One
<1>3. /\ f.at \in MineAt => One(f \in MineOf(o)) = One(f.x = o)
      /\ f.at \notin MineAt => One(f \in MineOf(o)) = 0
      /\ f.at = "drop_cell" => One(f \in OldOf(o)) = One(f.x = o)
      /\ f.at # "drop_cell" => One(f \in OldOf(o)) = 0
      /\ f.at \in {"relock", "store"} \cup DoneAt => One(f \in ResultOf(o)) = One(f.r = o)
      /\ f.at \notin {"relock", "store"} \cup DoneAt => One(f \in ResultOf(o)) = 0
  BY <1>1 DEF One
<1>4. Weight(f, o) = One(f \in MineOf(o)) + One(f \in OldOf(o)) + One(f \in ResultOf(o))
  BY DEF Weight
<1> DEFINE x == One(f.x = o)  r == One(f.r = o)
           m == One(f \in MineOf(o))  d == One(f \in OldOf(o))  s == One(f \in ResultOf(o))
<1>5. /\ x \in {0, 1} /\ r \in {0, 1} /\ Weight(f, o) = m + d + s
      /\ f.at \in MineAt => m = x
      /\ f.at \notin MineAt => m = 0
      /\ f.at = "drop_cell" => d = x
      /\ f.at # "drop_cell" => d = 0
      /\ f.at \in {"relock", "store"} \cup DoneAt => s = r
      /\ f.at \notin {"relock", "store"} \cup DoneAt => s = 0
  BY <1>2, <1>3, <1>4
<1> HIDE DEF x, r, m, d, s
<1>6. /\ Weight(f, o) \in Nat
      /\ f.at \in {"check", "lock", "take"} => Weight(f, o) = 0
      /\ f.at = "run" => Weight(f, o) = x
      /\ f.at \in {"relock", "store", "drop_ours"} => Weight(f, o) = x + r
      /\ f.at = "drop_cell" => Weight(f, o) = x + x + r
      /\ f.at = "return" => Weight(f, o) = r
  BY <1>5 DEF MineAt, DoneAt
<1> QED
  BY <1>5, <1>6 DEF x, r

LEMMA FrameCount ==
  ASSUME LInv, NEW t \in Thread, NEW f, CellStep(t, f), NEW H, IsFiniteSet(Slots(forces, H))
  PROVE  /\ IsFiniteSet(Slots(forces', H)) /\ Cardinality(Slots(forces', H)) \in Nat
         /\ Cardinality(Slots(forces, H)) \in Nat
         /\ Cardinality(Slots(forces', H))
              = Cardinality(Slots(forces, H)) + One(f \in H) - One(Lazy!Top(t) \in H)
<1> DEFINE st == forces  new == forces'
           p == <<t, Len(st[t])>>  S == Slots(st, H)  T == Slots(new, H)
<1>1. /\ st \in [Thread -> Seq(CellFrameSet)] /\ st[t] # <<>> /\ Lazy!Top(t) = st[t][Len(st[t])]
      /\ f \in CellFrameSet /\ new = [st EXCEPT ![t] = [@ EXCEPT ![Len(@)] = f]]
  BY DEF LInv, CellTypesOK, CellStep, Lazy!Top
<1> HIDE DEF st, new
<1>2. T \ {p} = S \ {p}
  BY <1>1, SlotsReplaced DEF Slots
<1>3. p \in T <=> f \in H
  BY <1>1, SlotsReplaced DEF Slots
<1>4. p \in S <=> Lazy!Top(t) \in H
  BY <1>1, SlotsReplaced DEF Slots
<1>5. IsFiniteSet(S)
  BY DEF st
<1> HIDE DEF p, S, T
<1>6. /\ IsFiniteSet(T) /\ Cardinality(T) \in Nat /\ Cardinality(S) \in Nat
      /\ Cardinality(T) = Cardinality(S) + One(p \in T) - One(p \in S)
  BY <1>2, <1>5, OneElement
<1>7. One(p \in T) = One(f \in H) /\ One(p \in S) = One(Lazy!Top(t) \in H)
  BY <1>3, <1>4 DEF One
<1> QED
  BY <1>6, <1>7 DEF S, T, st, new

LEMMA FramesMoved ==
  ASSUME LInv, NEW t \in Thread, NEW f, CellStep(t, f), NEW o, FramesFinite(forces, o)
  PROVE  /\ FramesFinite(forces', o)
         /\ InFrames(forces', o) \in Nat /\ InFrames(forces, o) \in Nat
         /\ InFrames(forces', o) = InFrames(forces, o) + Weight(f, o) - Weight(Lazy!Top(t), o)
<1> DEFINE a(H) == Cardinality(Slots(forces, H))
           b(H) == Cardinality(Slots(forces', H))
           p(H) == One(f \in H)
           q(H) == One(Lazy!Top(t) \in H)
<1>1. \A H : p(H) \in Nat /\ q(H) \in Nat
  BY DEF One
<1>2. /\ IsFiniteSet(Slots(forces', MineOf(o))) /\ b(MineOf(o)) \in Nat /\ a(MineOf(o)) \in Nat
      /\ b(MineOf(o)) = a(MineOf(o)) + p(MineOf(o)) - q(MineOf(o))
  BY FrameCount DEF FramesFinite
<1>3. /\ IsFiniteSet(Slots(forces', OldOf(o))) /\ b(OldOf(o)) \in Nat /\ a(OldOf(o)) \in Nat
      /\ b(OldOf(o)) = a(OldOf(o)) + p(OldOf(o)) - q(OldOf(o))
  BY FrameCount DEF FramesFinite
<1>4. /\ IsFiniteSet(Slots(forces', ResultOf(o))) /\ b(ResultOf(o)) \in Nat /\ a(ResultOf(o)) \in Nat
      /\ b(ResultOf(o)) = a(ResultOf(o)) + p(ResultOf(o)) - q(ResultOf(o))
  BY FrameCount DEF FramesFinite
<1>5. /\ InFrames(forces', o) = b(MineOf(o)) + b(OldOf(o)) + b(ResultOf(o))
      /\ InFrames(forces, o) = a(MineOf(o)) + a(OldOf(o)) + a(ResultOf(o))
      /\ Weight(f, o) = p(MineOf(o)) + p(OldOf(o)) + p(ResultOf(o))
      /\ Weight(Lazy!Top(t), o) = q(MineOf(o)) + q(OldOf(o)) + q(ResultOf(o))
  BY DEF InFrames, Weight
<1>6. FramesFinite(forces', o)
  BY <1>2, <1>3, <1>4 DEF FramesFinite
<1> HIDE DEF a, b, p, q
<1>7. InFrames(forces', o) \in Nat /\ InFrames(forces, o) \in Nat
  BY <1>2, <1>3, <1>4, <1>5
<1>8. InFrames(forces', o) = InFrames(forces, o) + Weight(f, o) - Weight(Lazy!Top(t), o)
  BY <1>1, <1>2, <1>3, <1>4, <1>5
<1> QED
  BY <1>6, <1>7, <1>8

LEMMA CellSizes ==
  ASSUME LInv, CellCounts, NEW o \in Lazy!Obj
  PROVE  /\ Cardinality(CellHolds(o)) \in Nat /\ Cardinality(Returned(o)) \in Nat
         /\ InFrames(forces, o) \in Nat /\ refs[o] \in Int
         /\ refs[o] = Cardinality(CellHolds(o)) + Cardinality(Returned(o)) + InFrames(forces, o)
<1>1. /\ IsFiniteSet(CellHolds(o)) /\ IsFiniteSet(Returned(o)) /\ FramesFinite(forces, o)
      /\ refs[o] = Cardinality(CellHolds(o)) + Cardinality(Returned(o)) + InFrames(forces, o)
  BY DEF CellCounts
<1>2. Cardinality(CellHolds(o)) \in Nat /\ Cardinality(Returned(o)) \in Nat
  BY <1>1, FS_CardinalityType
<1>3. InFrames(forces, o) \in Nat
  <2> DEFINE a == Cardinality(Slots(forces, MineOf(o)))
             b == Cardinality(Slots(forces, OldOf(o)))
             c == Cardinality(Slots(forces, ResultOf(o)))
  <2>1. a \in Nat /\ b \in Nat /\ c \in Nat
    BY <1>1, FS_CardinalityType DEF FramesFinite
  <2>2. InFrames(forces, o) = a + b + c
    BY DEF InFrames
  <2> HIDE DEF a, b, c
  <2> QED
    BY <2>1, <2>2
<1>4. refs[o] \in Int
  BY DEF LInv, CellTypesOK
<1> QED
  BY <1>1, <1>2, <1>3, <1>4

(* A step of a frame that leaves the cells' values alone: the count moves   *)
(* by what the frame holds more or less.                                    *)
LEMMA CountsMoved ==
  ASSUME LInv, CellCounts, NEW t \in Thread, NEW f, CellStep(t, f), av' = av,
         \A o \in Lazy!Obj : refs'[o] + Weight(Lazy!Top(t), o) = refs[o] + Weight(f, o)
  PROVE  CellCounts'
<1> SUFFICES ASSUME NEW o \in Lazy!Obj
             PROVE  /\ IsFiniteSet(CellHolds(o)) /\ IsFiniteSet(Returned(o)) /\ FramesFinite(forces', o)
                    /\ refs'[o] = Cardinality(CellHolds(o)) + Cardinality(Returned(o)) + InFrames(forces', o)
  <2>1. /\ \A o \in Lazy!Obj : CellHolds(o)' = CellHolds(o) /\ Returned(o)' = Returned(o)
        /\ \A o : FramesFinite(forces, o)' <=> FramesFinite(forces', o)
        /\ \A o : InFrames(forces, o)' = InFrames(forces', o)
    BY DEF CellStep, CellHolds, Returned, FramesFinite, InFrames, Slots, MineOf, OldOf, ResultOf
  <2> QED
    BY <2>1 DEF CellCounts
<1>1. /\ IsFiniteSet(CellHolds(o)) /\ IsFiniteSet(Returned(o)) /\ FramesFinite(forces, o)
  BY DEF CellCounts
<1>2. /\ FramesFinite(forces', o)
      /\ InFrames(forces', o) \in Nat /\ InFrames(forces, o) \in Nat
      /\ InFrames(forces', o) = InFrames(forces, o) + Weight(f, o) - Weight(Lazy!Top(t), o)
  BY <1>1, FramesMoved
<1>3. Weight(f, o) \in Nat /\ Weight(Lazy!Top(t), o) \in Nat
  <2>1. f \in CellFrameSet /\ Lazy!Top(t) \in CellFrameSet
    BY CellTop DEF CellStep, LInv
  <2> QED
    BY <2>1, Weights
<1>4. /\ Cardinality(CellHolds(o)) \in Nat /\ Cardinality(Returned(o)) \in Nat
      /\ refs[o] = Cardinality(CellHolds(o)) + Cardinality(Returned(o)) + InFrames(forces, o)
      /\ refs[o] \in Int
  BY CellSizes
<1>5. refs'[o] + Weight(Lazy!Top(t), o) = refs[o] + Weight(f, o) /\ refs'[o] \in Int
  BY DEF CellStep
<1> DEFINE h == Cardinality(CellHolds(o))  k == Cardinality(Returned(o))
           a == InFrames(forces, o)        b == InFrames(forces', o)
           v == Weight(f, o)               w == Weight(Lazy!Top(t), o)
<1>6. /\ h \in Nat /\ k \in Nat /\ a \in Nat /\ b \in Nat /\ v \in Nat /\ w \in Nat
      /\ refs[o] = h + k + a /\ b = a + v - w /\ refs'[o] + w = refs[o] + v
      /\ refs[o] \in Int /\ refs'[o] \in Int
  BY <1>2, <1>3, <1>4, <1>5
<1> HIDE DEF h, k, a, b, v, w
<1>7. refs'[o] = h + k + b
  BY <1>6
<1> QED
  BY <1>1, <1>2, <1>7 DEF h, k, b

LEMMA CountsInit == Lazy!Init => CellCounts
<1> SUFFICES ASSUME Lazy!Init, NEW o \in Lazy!Obj
             PROVE  /\ IsFiniteSet(CellHolds(o)) /\ IsFiniteSet(Returned(o)) /\ FramesFinite(forces, o)
                    /\ refs[o] = Cardinality(CellHolds(o)) + Cardinality(Returned(o)) + InFrames(forces, o)
  BY DEF CellCounts
<1>1. IsFiniteSet({}) /\ Cardinality({}) = 0
  BY FS_EmptySet
<1>2. \A H : Slots(forces, H) = {}
  BY NoSlots DEF Lazy!Init
<1>3. FramesFinite(forces, o) /\ InFrames(forces, o) = 0
  BY <1>1, <1>2 DEF FramesFinite, InFrames
<1>4. Returned(o) = {}
  BY CellConstants DEF Returned, Lazy!Init
<1>5. o \in Cell \X (Thread \cup {None})
  BY DEF Lazy!Obj
<1>6. \A c \in Cell : av[c] = <<c, None>>
  BY DEF Lazy!Init, Lazy!Thunk
<1>7. refs[o] = IF o[2] = None THEN 1 ELSE 0
  BY DEF Lazy!Init
<1>8. CASE o[2] = None
  <2>1. CellHolds(o) = {o[1]}
    BY <1>5, <1>6, <1>8 DEF CellHolds
  <2>2. IsFiniteSet({o[1]}) /\ Cardinality({o[1]}) = 1
    BY FS_Singleton
  <2> QED
    BY <1>1, <1>3, <1>4, <1>7, <1>8, <2>1, <2>2
<1>9. CASE o[2] # None
  <2>1. CellHolds(o) = {}
    BY <1>6, <1>9 DEF CellHolds
  <2> QED
    BY <1>1, <1>3, <1>4, <1>7, <1>9, <2>1
<1> QED
  BY <1>8, <1>9

(* A value that a thread computes has not been seen before.                 *)
LEMMA FreshResult ==
  ASSUME LInv, CellCounts, NEW t \in Thread, forces[t] # <<>>, Lazy!Top(t).at = "run"
  PROVE  refs[<<Lazy!Top(t).cell, t>>] = 0
<1> DEFINE c == Lazy!Top(t).cell  v == <<c, t>>  n == Len(forces[t])
<1>1. /\ Lazy!Top(t) = forces[t][n] /\ n \in 1..n /\ n \in Nat /\ c \in Cell /\ v \in Lazy!Obj
  BY CellTop, CellConstants DEF LInv
<1>2. \A d \in Cell : av[d] # v
  <2>1. FrameOK(t, Lazy!Top(t), av, reserved)
    BY <1>1 DEF LInv, CellsOK
  <2>2. av[c] # v
    BY <2>1 DEF FrameOK, WorkAt
  <2> QED
    BY <2>2 DEF LInv, CellsOK
<1>3. \A d \in Cell : Lazy!Thunk(d) # v
  BY CellConstants DEF Lazy!Thunk
<1>4. CellHolds(v) = {}
  BY <1>2 DEF CellHolds
<1>5. Returned(v) = {}
  <2>1. v # None
    BY <1>1, CellConstants
  <2> QED
    BY <1>2, <2>1 DEF Returned, LInv, CellsOK
<1>6. Slots(forces, MineOf(v)) = {} /\ Slots(forces, OldOf(v)) = {}
  <2> SUFFICES ASSUME NEW u \in Thread, NEW i \in 1..Len(forces[u])
               PROVE  forces[u][i] \notin MineOf(v) /\ forces[u][i] \notin OldOf(v)
    BY DEF Slots
  <2>1. FrameOK(u, forces[u][i], av, reserved) /\ forces[u][i].cell \in Cell
    BY CellOf DEF LInv, CellsOK
  <2> QED
    BY <1>3, <2>1 DEF FrameOK, MineOf, OldOf, MineAt
<1>7. Slots(forces, ResultOf(v)) = {}
  <2> SUFFICES ASSUME NEW u \in Thread, NEW i \in 1..Len(forces[u])
               PROVE  forces[u][i] \notin ResultOf(v)
    BY DEF Slots
  <2>1. FrameOK(u, forces[u][i], av, reserved) /\ forces[u][i].cell \in Cell /\ i \in Nat
    BY CellOf DEF LInv, CellsOK
  <2>2. CASE forces[u][i].at \in DoneAt
    BY <1>2, <2>1, <2>2 DEF FrameOK, ResultOf, DoneAt
  <2>3. CASE forces[u][i].at \in {"relock", "store"} /\ forces[u][i].r = v
    <3>1. u = t
      BY <2>1, <2>3 DEF FrameOK
    <3>2. i # n
      BY <1>1, <2>3, <3>1
    <3>3. i < n
      BY <1>1, <2>1, <3>1, <3>2
    <3> QED
      BY <1>1, <2>3, <3>1, <3>3 DEF LInv, CellsOK, Below
  <2> QED
    BY <2>2, <2>3 DEF ResultOf
<1> HIDE DEF v
<1>8. InFrames(forces, v) = 0
  <2>1. /\ Cardinality(Slots(forces, MineOf(v))) = 0
        /\ Cardinality(Slots(forces, OldOf(v))) = 0
        /\ Cardinality(Slots(forces, ResultOf(v))) = 0
    BY <1>6, <1>7, FS_EmptySet
  <2> QED
    BY <2>1 DEF InFrames
<1>0. Cardinality(CellHolds(v)) = 0 /\ Cardinality(Returned(v)) = 0
  BY <1>4, <1>5, FS_EmptySet
<1>9. refs[v] = Cardinality(CellHolds(v)) + Cardinality(Returned(v)) + InFrames(forces, v)
  BY <1>1, CellSizes
<1>10. refs[v] = 0
  BY <1>0, <1>8, <1>9
<1> QED
  BY <1>10 DEF v

(* Steps that no frame, cell or thread holds more or less after.            *)
LEMMA CountsSame ==
  ASSUME CellCounts, av' = av, got' = got, refs' = refs,
         \A o \in Lazy!Obj : /\ Slots(forces', MineOf(o)) = Slots(forces, MineOf(o))
                             /\ Slots(forces', OldOf(o)) = Slots(forces, OldOf(o))
                             /\ Slots(forces', ResultOf(o)) = Slots(forces, ResultOf(o))
  PROVE  CellCounts'
<1>1. \A o \in Lazy!Obj : CellHolds(o)' = CellHolds(o) /\ Returned(o)' = Returned(o)
  BY DEF CellHolds, Returned
<1>2. \A o \in Lazy!Obj : (FramesFinite(forces, o)' <=> FramesFinite(forces, o))
                          /\ InFrames(forces, o)' = InFrames(forces, o)
  BY DEF FramesFinite, InFrames, MineOf, OldOf, ResultOf
<1> QED
  BY <1>1, <1>2 DEF CellCounts

LEMMA CountsForce ==
  ASSUME LInv, CellCounts, NEW t \in Thread, NEW c \in Cell, Lazy!Force(t, c)
  PROVE  CellCounts'
<1> DEFINE st == forces  new == forces'  f == Lazy!Frame(c)
<1>1. /\ st \in [Thread -> Seq(CellFrameSet)] /\ st[t] = <<>> /\ new = [st EXCEPT ![t] = <<f>>]
      /\ av' = av /\ got' = got /\ refs' = refs
  BY DEF LInv, CellTypesOK, Lazy!Force
<1>2. f \in CellFrameSet /\ f.at = "check"
  BY CellConstants DEF CellFrameSet, Lazy!Frame, CellPlaces, Maybe
<1> HIDE DEF st, new, f
<1>3. ASSUME NEW H, f \notin H PROVE Slots(new, H) = Slots(st, H)
  BY <1>1, <1>2, <1>3, SlotsBegan DEF Slots
<1>4. \A o : f \notin MineOf(o) /\ f \notin OldOf(o) /\ f \notin ResultOf(o)
  BY <1>2 DEF MineOf, OldOf, ResultOf, MineAt, DoneAt
<1>5. \A o \in Lazy!Obj : /\ Slots(new, MineOf(o)) = Slots(st, MineOf(o))
                          /\ Slots(new, OldOf(o)) = Slots(st, OldOf(o))
                          /\ Slots(new, ResultOf(o)) = Slots(st, ResultOf(o))
  BY <1>3, <1>4
<1> QED
  BY <1>1, <1>5, CountsSame DEF st, new

LEMMA CountsRunForce ==
  ASSUME LInv, CellCounts, NEW t \in Thread, Lazy!RunForce(t)
  PROVE  CellCounts'
<1> DEFINE st == forces  new == forces'  top == Lazy!Top(t)
           g == [Lazy!Top(t) EXCEPT !.todo = Tail(@)]
           f == Lazy!Frame(Head(Lazy!Top(t).todo))
<1>1. /\ st \in [Thread -> Seq(CellFrameSet)] /\ st[t] # <<>> /\ top = st[t][Len(st[t])]
      /\ top \in CellFrameSet /\ top.todo \in Seq(Cell) /\ top.todo # <<>>
      /\ av' = av /\ got' = got /\ refs' = refs
  BY CellTop DEF LInv, CellTypesOK, Lazy!RunForce, Lazy!In
<1>2. new = [st EXCEPT ![t] = Append([@ EXCEPT ![Len(@)] = g], f)]
  BY DEF Lazy!RunForce, Lazy!Top
<1>3. Head(top.todo) \in Cell /\ Tail(top.todo) \in Seq(Cell)
  <2> DEFINE s == top.todo
  <2>1. s \in Seq(Cell) /\ s # <<>>
    BY <1>1
  <2> HIDE DEF s
  <2>2. Head(s) \in Cell /\ Tail(s) \in Seq(Cell)
    BY <2>1, HeadTailProperties
  <2> QED
    BY <2>2 DEF s
<1>4. g \in CellFrameSet /\ g.at = top.at /\ g.x = top.x /\ g.r = top.r
  BY <1>1, <1>3 DEF CellFrameSet
<1>5. f \in CellFrameSet /\ f.at = "check"
  BY <1>3, CellConstants DEF CellFrameSet, Lazy!Frame, CellPlaces, Maybe
<1> HIDE DEF st, new, f, g, top
<1>6. ASSUME NEW H, f \notin H, g \in H <=> top \in H PROVE Slots(new, H) = Slots(st, H)
  BY <1>1, <1>2, <1>4, <1>5, <1>6, SlotsNested DEF Slots
<1>7. \A o : /\ f \notin MineOf(o) /\ f \notin OldOf(o) /\ f \notin ResultOf(o)
             /\ g \in MineOf(o) <=> top \in MineOf(o)
             /\ g \in OldOf(o) <=> top \in OldOf(o)
             /\ g \in ResultOf(o) <=> top \in ResultOf(o)
  BY <1>1, <1>4, <1>5 DEF MineOf, OldOf, ResultOf, MineAt, DoneAt
<1>8. \A o \in Lazy!Obj : /\ Slots(new, MineOf(o)) = Slots(st, MineOf(o))
                          /\ Slots(new, OldOf(o)) = Slots(st, OldOf(o))
                          /\ Slots(new, ResultOf(o)) = Slots(st, ResultOf(o))
  BY <1>6, <1>7
<1> QED
  BY <1>1, <1>8, CountsSame DEF st, new

(* The value goes into the cell, and the frame takes over the cell's        *)
(* reference to the closure.                                                *)
LEMMA CountsStored ==
  ASSUME LInv, CellCounts, NEW t \in Thread, NEW f, CellStep(t, f),
         NEW c \in Cell, NEW v \in Lazy!Obj, av[c] # v, av' = [av EXCEPT ![c] = v],
         refs' = [refs EXCEPT ![v] = @ + 1],
         Lazy!Top(t).at = "store", Lazy!Top(t).x = av[c], Lazy!Top(t).r = v,
         f.at = "drop_cell", f.x = av[c], f.r = v
  PROVE  CellCounts'
<1> SUFFICES ASSUME NEW o \in Lazy!Obj
             PROVE  /\ IsFiniteSet(CellHolds(o)') /\ IsFiniteSet(Returned(o)) /\ FramesFinite(forces', o)
                    /\ refs'[o] = Cardinality(CellHolds(o)') + Cardinality(Returned(o)) + InFrames(forces', o)
  <2>1. /\ \A o \in Lazy!Obj : Returned(o)' = Returned(o)
        /\ \A o : FramesFinite(forces, o)' <=> FramesFinite(forces', o)
        /\ \A o : InFrames(forces, o)' = InFrames(forces', o)
    BY DEF CellStep, Returned, FramesFinite, InFrames, Slots, MineOf, OldOf, ResultOf
  <2> QED
    BY <2>1 DEF CellCounts
<1> DEFINE S == CellHolds(o)  T == CellHolds(o)'  x == av[c]
<1>1. /\ IsFiniteSet(CellHolds(o)) /\ IsFiniteSet(Returned(o)) /\ FramesFinite(forces, o)
  BY DEF CellCounts
<1>2. /\ FramesFinite(forces', o)
      /\ InFrames(forces', o) \in Nat /\ InFrames(forces, o) \in Nat
      /\ InFrames(forces', o) = InFrames(forces, o) + Weight(f, o) - Weight(Lazy!Top(t), o)
  BY <1>1, FramesMoved
<1>3. /\ Weight(f, o) = One(x = o) + One(x = o) + One(v = o)
      /\ Weight(Lazy!Top(t), o) = One(x = o) + One(v = o)
      /\ One(x = o) \in {0, 1} /\ One(v = o) \in {0, 1}
  <2>1. f \in CellFrameSet /\ Lazy!Top(t) \in CellFrameSet
    BY CellTop DEF CellStep, LInv
  <2>2. Weight(f, o) = One(f.x = o) + One(f.x = o) + One(f.r = o)
    BY <2>1, Weights
  <2>3. /\ Weight(Lazy!Top(t), o) = One(Lazy!Top(t).x = o) + One(Lazy!Top(t).r = o)
        /\ One(Lazy!Top(t).x = o) \in {0, 1} /\ One(Lazy!Top(t).r = o) \in {0, 1}
    BY <2>1, Weights
  <2> QED
    BY <2>2, <2>3
<1>4. T \ {c} = S \ {c} /\ (c \in T <=> v = o) /\ (c \in S <=> x = o)
  <2>1. av \in [Cell -> Lazy!Obj]
    BY DEF LInv, CellTypesOK
  <2>2. av'[c] = v /\ \A d \in Cell : d # c => av'[d] = av[d]
    BY <2>1
  <2> QED
    BY <2>2 DEF CellHolds
<1>5. /\ IsFiniteSet(T) /\ Cardinality(T) \in Nat
      /\ Cardinality(T) = Cardinality(S) + One(v = o) - One(x = o)
  <2>1. IsFiniteSet(S)
    BY <1>1
  <2> HIDE DEF S, T
  <2>2. /\ IsFiniteSet(T) /\ Cardinality(T) \in Nat
        /\ Cardinality(T) = Cardinality(S) + One(c \in T) - One(c \in S)
    BY <1>4, <2>1, OneElement
  <2>3. One(c \in T) = One(v = o) /\ One(c \in S) = One(x = o)
    BY <1>4 DEF One
  <2> QED
    BY <2>2, <2>3
<1>6. /\ Cardinality(S) \in Nat /\ Cardinality(Returned(o)) \in Nat
      /\ refs[o] = Cardinality(S) + Cardinality(Returned(o)) + InFrames(forces, o)
      /\ refs[o] \in Int
  BY CellSizes
<1>7. refs'[o] = refs[o] + One(v = o) /\ refs'[o] \in Int
  <2>1. refs \in [Lazy!Obj -> Int] /\ refs'[o] \in Int
    BY DEF LInv, CellTypesOK, CellStep
  <2>2. CASE v = o
    BY <2>1, <2>2 DEF One
  <2>3. CASE v # o
    BY <2>1, <2>3 DEF One
  <2> QED
    BY <2>2, <2>3
<1> DEFINE h == Cardinality(S)  hh == Cardinality(T)  k == Cardinality(Returned(o))
           a == InFrames(forces, o)  b == InFrames(forces', o)
           vo == One(v = o)  xo == One(x = o)
<1>8. /\ h \in Nat /\ hh \in Nat /\ k \in Nat /\ a \in Nat /\ b \in Nat /\ vo \in {0, 1} /\ xo \in {0, 1}
      /\ hh = h + vo - xo /\ b = a + (xo + xo + vo) - (xo + vo)
      /\ refs[o] = h + k + a /\ refs'[o] = refs[o] + vo
      /\ refs[o] \in Int /\ refs'[o] \in Int
  BY <1>2, <1>3, <1>5, <1>6, <1>7
<1> HIDE DEF h, hh, k, a, b, vo, xo
<1>9. refs'[o] = hh + k + b
  BY <1>8
<1> QED
  BY <1>1, <1>2, <1>5, <1>9 DEF hh, k, b

(* The frame goes.                                                          *)
LEMMA FramesPopped ==
  ASSUME LInv, NEW t \in Thread, Lazy!Return(t), NEW o, FramesFinite(forces, o)
  PROVE  /\ FramesFinite(forces', o)
         /\ InFrames(forces', o) \in Nat /\ InFrames(forces, o) \in Nat
         /\ InFrames(forces', o) = InFrames(forces, o) - Weight(Lazy!Top(t), o)
<1>1. ASSUME NEW H, IsFiniteSet(Slots(forces, H))
      PROVE  /\ IsFiniteSet(Slots(forces', H)) /\ Cardinality(Slots(forces', H)) \in Nat
             /\ Cardinality(Slots(forces, H)) \in Nat
             /\ Cardinality(Slots(forces', H)) = Cardinality(Slots(forces, H)) - One(Lazy!Top(t) \in H)
  <2> DEFINE st == forces  new == forces'
             p == <<t, Len(st[t])>>  S == Slots(st, H)  T == Slots(new, H)
  <2>1. /\ st \in [Thread -> Seq(CellFrameSet)] /\ st[t] # <<>> /\ Lazy!Top(t) = st[t][Len(st[t])]
        /\ new = [st EXCEPT ![t] = SubSeq(st[t], 1, Len(st[t]) - 1)]
    BY DEF LInv, CellTypesOK, Lazy!Return, Lazy!In, Lazy!Top
  <2> HIDE DEF st, new
  <2>2. T = S \ {p}
    BY <2>1, SlotsPopped DEF Slots
  <2>3. p \in S <=> Lazy!Top(t) \in H
    BY <2>1, SlotsPopped DEF Slots
  <2>4. IsFiniteSet(S)
    BY <1>1 DEF st
  <2> HIDE DEF p, S, T
  <2>5. T \ {p} = S \ {p}
    BY <2>2
  <2>6. /\ IsFiniteSet(T) /\ Cardinality(T) \in Nat /\ Cardinality(S) \in Nat
        /\ Cardinality(T) = Cardinality(S) + One(p \in T) - One(p \in S)
    BY <2>4, <2>5, OneElement
  <2>7. One(p \in T) = 0 /\ One(p \in S) = One(Lazy!Top(t) \in H) /\ One(p \in S) \in Nat
    BY <2>2, <2>3 DEF One
  <2>8. Cardinality(T) = Cardinality(S) - One(Lazy!Top(t) \in H)
    BY <2>6, <2>7
  <2> QED
    BY <2>6, <2>8 DEF S, T, st, new
<1> DEFINE a(H) == Cardinality(Slots(forces, H))
           b(H) == Cardinality(Slots(forces', H))
           q(H) == One(Lazy!Top(t) \in H)
<1>2. \A H : q(H) \in Nat
  BY DEF One
<1>3. /\ IsFiniteSet(Slots(forces', MineOf(o))) /\ b(MineOf(o)) \in Nat /\ a(MineOf(o)) \in Nat
      /\ b(MineOf(o)) = a(MineOf(o)) - q(MineOf(o))
  BY <1>1 DEF FramesFinite
<1>4. /\ IsFiniteSet(Slots(forces', OldOf(o))) /\ b(OldOf(o)) \in Nat /\ a(OldOf(o)) \in Nat
      /\ b(OldOf(o)) = a(OldOf(o)) - q(OldOf(o))
  BY <1>1 DEF FramesFinite
<1>5. /\ IsFiniteSet(Slots(forces', ResultOf(o))) /\ b(ResultOf(o)) \in Nat /\ a(ResultOf(o)) \in Nat
      /\ b(ResultOf(o)) = a(ResultOf(o)) - q(ResultOf(o))
  BY <1>1 DEF FramesFinite
<1>6. /\ InFrames(forces', o) = b(MineOf(o)) + b(OldOf(o)) + b(ResultOf(o))
      /\ InFrames(forces, o) = a(MineOf(o)) + a(OldOf(o)) + a(ResultOf(o))
      /\ Weight(Lazy!Top(t), o) = q(MineOf(o)) + q(OldOf(o)) + q(ResultOf(o))
  BY DEF InFrames, Weight
<1>7. FramesFinite(forces', o)
  BY <1>3, <1>4, <1>5 DEF FramesFinite
<1> HIDE DEF a, b, q
<1>8. InFrames(forces', o) \in Nat /\ InFrames(forces, o) \in Nat
  BY <1>3, <1>4, <1>5, <1>6
<1>9. InFrames(forces', o) = InFrames(forces, o) - Weight(Lazy!Top(t), o)
  BY <1>2, <1>3, <1>4, <1>5, <1>6
<1> QED
  BY <1>7, <1>8, <1>9

(* The frame's reference goes to the thread, or is dropped by the body      *)
(* that forced the cell.                                                    *)
LEMMA CountsReturn ==
  ASSUME LInv, CellCounts, NEW t \in Thread, Lazy!Return(t)
  PROVE  CellCounts'
<1> DEFINE c == Lazy!Top(t).cell  v == Lazy!Top(t).r  n == Len(forces[t])
<1>1. /\ Lazy!Top(t).at = "return" /\ Lazy!Top(t) \in CellFrameSet /\ c \in Cell
      /\ Lazy!Top(t) = forces[t][n] /\ forces[t] # <<>> /\ av' = av
      /\ v = av[c] /\ v \in Lazy!Obj
  <2>1. /\ Lazy!Top(t).at = "return" /\ Lazy!Top(t) \in CellFrameSet /\ c \in Cell
        /\ FrameOK(t, Lazy!Top(t), av, reserved) /\ av \in [Cell -> Lazy!Obj] /\ forces[t] # <<>>
    BY CellNow DEF Lazy!Return
  <2>2. v = av[c]
    BY <2>1 DEF FrameOK, DoneAt
  <2> QED
    BY <2>1, <2>2 DEF Lazy!Return, Lazy!Top
<1> SUFFICES ASSUME NEW o \in Lazy!Obj
             PROVE  /\ IsFiniteSet(CellHolds(o)) /\ IsFiniteSet(Returned(o)') /\ FramesFinite(forces', o)
                    /\ refs'[o] = Cardinality(CellHolds(o)) + Cardinality(Returned(o)') + InFrames(forces', o)
  <2>1. /\ \A o \in Lazy!Obj : CellHolds(o)' = CellHolds(o)
        /\ \A o : FramesFinite(forces, o)' <=> FramesFinite(forces', o)
        /\ \A o : InFrames(forces, o)' = InFrames(forces', o)
    BY <1>1 DEF CellHolds, FramesFinite, InFrames, Slots, MineOf, OldOf, ResultOf
  <2> QED
    BY <2>1 DEF CellCounts
<1>2. /\ IsFiniteSet(CellHolds(o)) /\ IsFiniteSet(Returned(o)) /\ FramesFinite(forces, o)
  BY DEF CellCounts
<1>3. /\ FramesFinite(forces', o)
      /\ InFrames(forces', o) \in Nat /\ InFrames(forces, o) \in Nat
      /\ InFrames(forces', o) = InFrames(forces, o) - Weight(Lazy!Top(t), o)
  BY <1>2, FramesPopped
<1>4. Weight(Lazy!Top(t), o) = One(v = o) /\ One(v = o) \in {0, 1}
  BY <1>1, Weights
<1>5. /\ Cardinality(CellHolds(o)) \in Nat /\ Cardinality(Returned(o)) \in Nat
      /\ refs[o] = Cardinality(CellHolds(o)) + Cardinality(Returned(o)) + InFrames(forces, o)
      /\ refs[o] \in Int
  BY CellSizes
<1>6. /\ IsFiniteSet(Returned(o)') /\ Cardinality(Returned(o)') \in Nat /\ refs'[o] \in Int
      /\ refs'[o] + Cardinality(Returned(o)) + One(v = o) = refs[o] + Cardinality(Returned(o)')
  <2>1. refs \in [Lazy!Obj -> Int] /\ got \in [Thread -> [Cell -> Maybe]]
    BY DEF LInv, CellTypesOK
  <2>2. CASE n # 1
    <3>1. got' = got /\ refs' = [refs EXCEPT ![v] = @ - 1]
      BY <2>2 DEF Lazy!Return
    <3>2. Returned(o)' = Returned(o)
      BY <3>1 DEF Returned
    <3>3. refs'[o] + One(v = o) = refs[o] /\ refs'[o] \in Int
      <4>1. CASE v = o
        BY <1>1, <2>1, <3>1, <4>1 DEF One
      <4>2. CASE v # o
        BY <1>1, <2>1, <3>1, <4>2 DEF One
      <4> QED
        BY <4>1, <4>2
    <3> QED
      BY <1>2, <1>4, <1>5, <3>2, <3>3
  <2>3. CASE n = 1
    <3>1. got' = [got EXCEPT ![t][c] = v] /\ refs' = refs
      BY <2>3 DEF Lazy!Return
    <3>2. got[t][c] = None /\ o # None
      BY <1>1, <2>3, CellConstants DEF LInv, CellsOK
    <3>3. \A u \in Thread, d \in Cell :
            got'[u][d] = IF u = t /\ d = c THEN v ELSE got[u][d]
      BY <1>1, <2>1, <3>1
    <3> DEFINE S == Returned(o)  T == Returned(o)'  p == <<t, c>>
    <3>4. T \ {p} = S \ {p} /\ (p \in T <=> v = o) /\ p \notin S
      BY <1>1, <3>2, <3>3 DEF Returned
    <3>5. IsFiniteSet(S) /\ refs'[o] = refs[o] /\ refs[o] \in Int
      BY <1>2, <1>5, <3>1
    <3> HIDE DEF S, T, p
    <3>6. /\ IsFiniteSet(T) /\ Cardinality(T) \in Nat /\ Cardinality(S) \in Nat
          /\ Cardinality(T) = Cardinality(S) + One(p \in T) - One(p \in S)
      BY <3>4, <3>5, OneElement
    <3>7. One(p \in T) = One(v = o) /\ One(p \in S) = 0
      BY <3>4 DEF One
    <3>8. /\ IsFiniteSet(T) /\ Cardinality(T) \in Nat /\ refs'[o] \in Int
          /\ refs'[o] + Cardinality(S) + One(v = o) = refs[o] + Cardinality(T)
      BY <1>4, <3>5, <3>6, <3>7
    <3> QED
      BY <3>8 DEF S, T
  <2> QED
    BY <2>2, <2>3
<1> DEFINE h == Cardinality(CellHolds(o))  k == Cardinality(Returned(o))  kk == Cardinality(Returned(o)')
           a == InFrames(forces, o)  b == InFrames(forces', o)  vo == One(v = o)
           m == refs[o]  mm == refs'[o]
<1>7. /\ h \in Nat /\ k \in Nat /\ kk \in Nat /\ a \in Nat /\ b \in Nat /\ vo \in {0, 1}
      /\ b = a - vo /\ m = h + k + a /\ mm + k + vo = m + kk
      /\ m \in Int /\ mm \in Int
  BY <1>3, <1>4, <1>5, <1>6
<1> HIDE DEF h, k, kk, a, b, vo, m, mm
<1>8. mm = h + kk + b
  BY <1>7
<1> QED
  BY <1>2, <1>3, <1>6, <1>8 DEF h, kk, b, mm

(* Every step keeps the balance.                                            *)
LEMMA CountsStep == ASSUME LInv, CellCounts, [Lazy!Next]_lazyVars PROVE CellCounts'
<1>1. CASE UNCHANGED lazyVars
  <2>1. av' = av /\ got' = got /\ refs' = refs /\ forces' = forces
    BY <1>1 DEF lazyVars
  <2> QED
    BY <2>1, CountsSame
<1>2. ASSUME NEW t \in Thread, NEW c \in Cell, Lazy!Force(t, c) PROVE CellCounts'
  BY <1>2, CountsForce
<1>3. ASSUME NEW t \in Thread, NEW f, CellStep(t, f)
      PROVE  f \in CellFrameSet /\ Lazy!Top(t) \in CellFrameSet
  BY <1>3, CellTop DEF CellStep, LInv
<1>4. refs \in [Lazy!Obj -> Int] /\ av \in [Cell -> Lazy!Obj]
  BY DEF LInv, CellTypesOK
<1>5. ASSUME NEW t \in Thread, Lazy!Check(t) PROVE CellCounts'
  <2> DEFINE c == Lazy!Top(t).cell
  <2>1. Lazy!Top(t).at = "check" /\ c \in Cell
    BY <1>5, CheckStep
  <2>2. ASSUME NEW f, CellStep(t, f), f.at = "return", f.r = av[c],
               av' = av, refs' = [refs EXCEPT ![av[c]] = @ + 1]
        PROVE  CellCounts'
    <3>1. ASSUME NEW o \in Lazy!Obj
          PROVE  refs'[o] + Weight(Lazy!Top(t), o) = refs[o] + Weight(f, o)
      <4>1. Weight(Lazy!Top(t), o) = 0 /\ Weight(f, o) = One(av[c] = o) /\ refs[o] \in Int
        BY <1>3, <1>4, <2>1, <2>2, Weights
      <4>2. refs'[o] = refs[o] + One(av[c] = o) /\ One(av[c] = o) \in Int
        BY <1>4, <2>1, <2>2 DEF One
      <4> QED
        BY <4>1, <4>2
    <3> QED
      BY <2>2, <3>1, CountsMoved
  <2>3. ASSUME NEW f, CellStep(t, f), f.at = "lock", av' = av, refs' = refs PROVE CellCounts'
    <3>1. ASSUME NEW o \in Lazy!Obj
          PROVE  refs'[o] + Weight(Lazy!Top(t), o) = refs[o] + Weight(f, o)
      <4>1. Weight(Lazy!Top(t), o) = 0 /\ Weight(f, o) = 0
        BY <1>3, <2>1, <2>3, Weights
      <4> QED
        BY <2>3, <4>1
    <3> QED
      BY <2>3, <3>1, CountsMoved
  <2>4. CASE UNCHANGED <<av, reserved, refs, forces, got>>
    <3>1. av' = av /\ got' = got /\ refs' = refs /\ forces' = forces
      BY <2>4
    <3> QED
      BY <3>1, CountsSame
  <2> QED
    BY <1>5, <2>2, <2>3, <2>4, CheckStep
<1>6. ASSUME NEW t \in Thread, Lazy!Lock(t) PROVE CellCounts'
  <2> DEFINE top == Lazy!Top(t)
  <2>1. PICK f : /\ CellStep(t, f) /\ f.x = top.x /\ f.r = top.r
                 /\ \/ top.at = "lock" /\ f.at = "take"
                    \/ top.at = "relock" /\ f.at = "store"
    BY <1>6, LockStep
  <2>2. av' = av /\ refs' = refs
    BY <1>6, LockStep
  <2>3. ASSUME NEW o \in Lazy!Obj PROVE Weight(top, o) = Weight(f, o)
    <3>1. f \in CellFrameSet /\ top \in CellFrameSet
      BY <1>3, <2>1
    <3>2. CASE top.at = "lock" /\ f.at = "take"
      <4>1. Weight(top, o) = 0 /\ Weight(f, o) = 0
        BY <3>1, <3>2, Weights
      <4> QED
        BY <4>1
    <3>3. CASE top.at = "relock" /\ f.at = "store"
      <4>1. Weight(top, o) = One(top.x = o) + One(top.r = o)
        BY <3>1, <3>3, Weights
      <4>2. Weight(f, o) = One(f.x = o) + One(f.r = o)
        BY <3>1, <3>3, Weights
      <4> QED
        BY <2>1, <4>1, <4>2
    <3> QED
      BY <2>1, <3>2, <3>3
  <2>4. \A o \in Lazy!Obj : refs'[o] + Weight(top, o) = refs[o] + Weight(f, o)
    BY <2>2, <2>3
  <2> QED
    BY <2>1, <2>2, <2>4, CountsMoved
<1>7. ASSUME NEW t \in Thread, Lazy!Take(t) PROVE CellCounts'
  <2> DEFINE c == Lazy!Top(t).cell
  <2>1. /\ Lazy!Top(t).at = "take" /\ c \in Cell
        /\ av' = av /\ refs' = [refs EXCEPT ![av[c]] = @ + 1]
    BY <1>7, TakeStep
  <2>2. PICK f : /\ CellStep(t, f)
                 /\ \/ f.at = "return" /\ f.r = av[c]
                    \/ f.at = "run" /\ f.x = av[c]
    BY <1>7, TakeStep
  <2>3. ASSUME NEW o \in Lazy!Obj
        PROVE  refs'[o] + Weight(Lazy!Top(t), o) = refs[o] + Weight(f, o)
    <3>1. Weight(Lazy!Top(t), o) = 0
      BY <1>3, <2>1, <2>2, Weights
    <3>2. Weight(f, o) = One(av[c] = o)
      <4>1. CASE f.at = "return" /\ f.r = av[c]
        BY <1>3, <2>2, <4>1, Weights
      <4>2. CASE f.at = "run" /\ f.x = av[c]
        BY <1>3, <2>2, <4>2, Weights
      <4> QED
        BY <2>2, <4>1, <4>2
    <3>3. refs'[o] = refs[o] + One(av[c] = o) /\ One(av[c] = o) \in Int /\ refs[o] \in Int
      BY <1>4, <2>1 DEF One
    <3> QED
      BY <3>1, <3>2, <3>3
  <2> QED
    BY <2>1, <2>2, <2>3, CountsMoved
<1>8. ASSUME NEW t \in Thread, Lazy!RunReturn(t) PROVE CellCounts'
  <2> DEFINE c == Lazy!Top(t).cell  v == <<c, t>>  x == Lazy!Top(t).x
  <2>1. /\ Lazy!Top(t).at = "run" /\ c \in Cell
        /\ av' = av /\ refs' = [refs EXCEPT ![v] = 1]
    BY <1>8, ReturnStep
  <2>2. PICK f : CellStep(t, f) /\ f.at = "relock" /\ f.x = x /\ f.r = v
    BY <1>8, ReturnStep
  <2>3. refs[v] = 0
    BY <2>1, <2>2, FreshResult DEF CellStep
  <2>4. ASSUME NEW o \in Lazy!Obj
        PROVE  refs'[o] + Weight(Lazy!Top(t), o) = refs[o] + Weight(f, o)
    <3>1. Weight(Lazy!Top(t), o) = One(x = o) /\ One(x = o) \in {0, 1}
      <4>1. Lazy!Top(t) \in CellFrameSet
        BY <1>3, <2>2
      <4>2. Weight(Lazy!Top(t), o) = One(x = o)
        BY <2>1, <4>1, Weights
      <4>3. One(x = o) \in {0, 1}
        BY DEF One
      <4> QED
        BY <4>2, <4>3
    <3>2. Weight(f, o) = One(x = o) + One(v = o)
      <4>1. f \in CellFrameSet
        BY <1>3, <2>2
      <4>2. Weight(f, o) = One(f.x = o) + One(f.r = o)
        BY SMTT(30), <2>2, <4>1, Weights
      <4> QED
        BY <2>2, <4>2
    <3>3. refs'[o] = refs[o] + One(v = o) /\ One(v = o) \in Int /\ refs[o] \in Int
      <4> HIDE DEF v
      <4>1. CASE v = o
        BY <1>4, <2>1, <2>3, <4>1 DEF One
      <4>2. CASE v # o
        BY <1>4, <2>1, <4>2 DEF One
      <4> QED
        BY <4>1, <4>2
    <3> QED
      BY <3>1, <3>2, <3>3
  <2> QED
    BY <2>1, <2>2, <2>4, CountsMoved
<1>9. ASSUME NEW t \in Thread, Lazy!Store(t) PROVE CellCounts'
  <2> DEFINE top == Lazy!Top(t)  c == top.cell  v == <<c, t>>  x == top.x
  <2>1. /\ top.at = "store" /\ c \in Cell /\ v \in Lazy!Obj
        /\ top.r = v /\ av[c] # v /\ av[c] \in Lazy!Obj
    BY <1>9, StoreStep
  <2>2. ASSUME NEW f, CellStep(t, f), f.at = "drop_cell", f.x = x, f.r = v, x = av[c],
               av' = [av EXCEPT ![c] = v], refs' = [refs EXCEPT ![v] = @ + 1]
        PROVE  CellCounts'
    <3> HIDE DEF v
    <3> QED
      BY <2>1, <2>2, CountsStored
  <2>3. ASSUME NEW f, CellStep(t, f), f.at = "drop_ours", f.x = x, f.r = av[c],
               av' = av, refs' = [refs EXCEPT ![av[c]] = @ + 1, ![v] = @ - 1]
        PROVE  CellCounts'
    <3>1. ASSUME NEW o \in Lazy!Obj
          PROVE  refs'[o] + Weight(top, o) = refs[o] + Weight(f, o)
      <4>1. Weight(top, o) = One(x = o) + One(v = o) /\ One(x = o) \in {0, 1} /\ One(v = o) \in {0, 1}
        BY <1>3, <2>1, <2>3, Weights
      <4>2. Weight(f, o) = One(x = o) + One(av[c] = o) /\ One(av[c] = o) \in {0, 1}
        <5>1. f \in CellFrameSet
          BY <1>3, <2>3
        <5>2. Weight(f, o) = One(f.x = o) + One(f.r = o) /\ One(f.r = o) \in {0, 1}
          BY <2>3, <5>1, Weights
        <5> QED
          BY <2>3, <5>2
      <4>3. refs'[o] + One(v = o) = refs[o] + One(av[c] = o) /\ refs[o] \in Int /\ refs'[o] \in Int
        <5> HIDE DEF v
        <5>1. CASE v = o
          BY <1>4, <2>1, <2>3, <5>1 DEF One
        <5>2. CASE av[c] = o
          BY <1>4, <2>1, <2>3, <5>2 DEF One
        <5>3. CASE v # o /\ av[c] # o
          BY <1>4, <2>1, <2>3, <5>3 DEF One
        <5> QED
          BY <5>1, <5>2, <5>3
      <4> QED
        BY <4>1, <4>2, <4>3
    <3> QED
      BY <2>3, <3>1, CountsMoved
  <2> QED
    BY <1>9, <2>2, <2>3, StoreStep
<1>10. ASSUME NEW t \in Thread, Lazy!DropThunk(t) PROVE CellCounts'
  <2> DEFINE top == Lazy!Top(t)
  <2>1. top.x \in Lazy!Obj /\ av' = av /\ refs' = [refs EXCEPT ![top.x] = @ - 1]
    BY <1>10, DropStep
  <2>2. PICK f : /\ CellStep(t, f) /\ f.x = top.x /\ f.r = top.r
                 /\ \/ top.at = "drop_cell" /\ f.at = "drop_ours"
                    \/ top.at = "drop_ours" /\ f.at = "return"
    BY <1>10, DropStep
  <2>3. ASSUME NEW o \in Lazy!Obj
        PROVE  refs'[o] + Weight(top, o) = refs[o] + Weight(f, o)
    <3> DEFINE x == One(top.x = o)  r == One(top.r = o)  m == refs[o]  mm == refs'[o]
               w == Weight(top, o)  ww == Weight(f, o)
    <3>1. x \in {0, 1} /\ r \in {0, 1}
      BY <1>3, <2>2, Weights
    <3>2. mm + x = m /\ m \in Int /\ mm \in Int
      BY <1>4, <2>1 DEF One
    <3>3. CASE top.at = "drop_cell" /\ f.at = "drop_ours"
      <4>1. w = x + x + r /\ ww = x + r
        BY <1>3, <2>2, <3>3, Weights
      <4> HIDE DEF x, r, m, mm, w, ww
      <4>2. mm + w = m + ww
        BY <3>1, <3>2, <4>1
      <4> QED
        BY <4>2 DEF m, mm, w, ww
    <3>4. CASE top.at = "drop_ours" /\ f.at = "return"
      <4>1. w = x + r /\ ww = r
        BY <1>3, <2>2, <3>4, Weights
      <4> HIDE DEF x, r, m, mm, w, ww
      <4>2. mm + w = m + ww
        BY <3>1, <3>2, <4>1
      <4> QED
        BY <4>2 DEF m, mm, w, ww
    <3> QED
      BY <2>2, <3>3, <3>4
  <2> QED
    BY <2>1, <2>2, <2>3, CountsMoved
<1> QED
  BY <1>1, <1>2, <1>5, <1>6, <1>7, <1>8, <1>9, <1>10, CountsRunForce, CountsReturn
  DEF Lazy!Next, Lazy!Step

LEMMA SameSizes == \A S : Lazy!Cardinality(S) = Cardinality(S)
  BY DEF Lazy!Cardinality, Cardinality

LEMMA CountsLeakNothing == LInv /\ CellCounts => NothingLeaks
<1> SUFFICES ASSUME LInv, CellCounts PROVE NothingLeaks
  OBVIOUS
<1>1. ASSUME NEW o \in Lazy!Obj PROVE refs[o] \in Nat
  <2> DEFINE h == Cardinality(CellHolds(o))  k == Cardinality(Returned(o))  a == InFrames(forces, o)
  <2>1. h \in Nat /\ k \in Nat /\ a \in Nat /\ refs[o] = h + k + a
    BY CellSizes
  <2> HIDE DEF h, k, a
  <2> QED
    BY <2>1
<1>2. refs \in [Lazy!Obj -> Nat]
  BY <1>1 DEF LInv, CellTypesOK
<1>3. ASSUME NEW o \in Lazy!Obj, NEW H \in {MineOf(o), OldOf(o), ResultOf(o)},
             NEW t \in Thread, NEW i \in 1..Len(forces[t]), forces[t][i] \in H
      PROVE  refs[o] > 0
  <2> DEFINE h == Cardinality(CellHolds(o))  k == Cardinality(Returned(o))
             a == Cardinality(Slots(forces, MineOf(o)))  b == Cardinality(Slots(forces, OldOf(o)))
             d == Cardinality(Slots(forces, ResultOf(o)))
  <2>1. /\ h \in Nat /\ k \in Nat /\ refs[o] = h + k + (a + b + d)
        /\ FramesFinite(forces, o)
    BY CellSizes DEF InFrames, CellCounts
  <2>2. <<t, i>> \in Slots(forces, H)
    <3>1. i \in Nat
      BY CellOf DEF LInv
    <3> QED
      BY <1>3, <3>1 DEF Slots
  <2>3. a \in Nat /\ b \in Nat /\ d \in Nat
    BY <2>1, FS_CardinalityType DEF FramesFinite
  <2>4. \A S : IsFiniteSet(S) /\ S # {} => Cardinality(S) # 0
    BY FS_EmptySet
  <2>5. a # 0 \/ b # 0 \/ d # 0
    BY <2>1, <2>2, <2>4 DEF FramesFinite
  <2> HIDE DEF h, k, a, b, d
  <2> QED
    BY <2>1, <2>3, <2>5
<1>4. ASSUME NEW t \in Thread, NEW i \in 1..Len(forces[t])
      PROVE  LET f == forces[t][i]
             IN  /\ f.at \in {"run", "drop_cell", "drop_ours"} => refs[f.x] > 0
                 /\ f.at \in {"relock", "store", "drop_cell", "drop_ours", "return"} => refs[f.r] > 0
  <2> DEFINE f == forces[t][i]
  <2>1. f \in CellFrameSet /\ f.cell \in Cell /\ FrameOK(t, f, av, reserved)
    BY CellOf DEF LInv, CellsOK
  <2>2. ASSUME f.at \in {"run", "drop_cell", "drop_ours"} PROVE refs[f.x] > 0
    <3>1. f.x \in Lazy!Obj
      BY <2>1, <2>2, CellConstants DEF FrameOK, MineAt
    <3>2. f \in MineOf(f.x)
      BY <2>1, <2>2 DEF MineOf, MineAt
    <3> QED
      BY <1>3, <3>1, <3>2
  <2>3. ASSUME f.at \in {"relock", "store", "drop_cell", "drop_ours", "return"} PROVE refs[f.r] > 0
    <3>1. f.r \in Lazy!Obj
      <4>1. CASE f.at \in {"relock", "store"}
        BY <2>1, <4>1, CellConstants DEF FrameOK
      <4>2. CASE f.at \in DoneAt
        BY <2>1, <4>2 DEF FrameOK, LInv, CellTypesOK
      <4> QED
        BY <2>3, <4>1, <4>2 DEF DoneAt
    <3>2. f \in ResultOf(f.r)
      BY <2>1, <2>3 DEF ResultOf, DoneAt
    <3> QED
      BY <1>3, <3>1, <3>2
  <2> QED
    BY <2>2, <2>3
<1>5. ASSUME \A t \in Thread : forces[t] = <<>>, NEW o \in Lazy!Obj
      PROVE  refs[o] = Cardinality(CellHolds(o)) + Cardinality(Returned(o))
  <2>1. \A H : Slots(forces, H) = {}
    BY <1>5, NoSlots
  <2>2. Cardinality({}) = 0
    BY FS_EmptySet
  <2>3. InFrames(forces, o) = 0
    BY <2>1, <2>2 DEF InFrames
  <2> DEFINE h == Cardinality(CellHolds(o))  k == Cardinality(Returned(o))
  <2>4. h \in Nat /\ k \in Nat /\ refs[o] = h + k + 0
    BY <2>3, CellSizes
  <2> HIDE DEF h, k
  <2>5. refs[o] = h + k
    BY <2>4
  <2> QED
    BY <2>5 DEF h, k
<1>6. \A o : /\ {c \in Cell : av[c] = o} = CellHolds(o)
             /\ {p \in Thread \X Cell : got[p[1]][p[2]] = o} = Returned(o)
  BY DEF CellHolds, Returned
<1> QED
  BY <1>2, <1>4, <1>5, <1>6, SameSizes DEF NothingLeaks, Lazy!NothingLeaks

-----------------------------------------------------------------------------
(* What is proved.                                                          *)

(* A top-level value is computed at most once in the life of the process,   *)
(* for every number of threads and values, every need among them, cycles    *)
(* included, and whenever main ends (idris2rc2_memo_boxed_claim).           *)
THEOREM OncePerProcess == Spec => []ComputedOnce
<1>1. Init => IInv
  BY InitSafe
<1>2. IInv /\ [Next]_vars => IInv'
  BY StepSafe
<1>3. IInv => ComputedOnce
  BY ExclusiveIsOnce
<1> QED
  BY <1>1, <1>2, <1>3, PTL DEF Spec

(* Both parts run their own specification.                                  *)
LEMMA BothMemosRun == MemoSpec => Spec /\ Lazy!Spec
<1>1. MemoInit => Init /\ Lazy!Init
  BY DEF MemoInit
<1>2. [MemoNext]_allVars => [Next]_vars /\ [Lazy!Next]_Lazy!vars
  <2> SUFFICES ASSUME [MemoNext]_allVars PROVE [Next]_vars /\ [Lazy!Next]_Lazy!vars
    OBVIOUS
  <2>1. CASE CafCalls
    BY <2>1 DEF CafCalls, Next, lazyVars, Lazy!vars
  <2>2. ASSUME NEW t \in Thread, CafStep(t) PROVE [Next]_vars /\ [Lazy!Next]_Lazy!vars
    BY <2>2 DEF CafStep, Next, lazyVars, Lazy!vars
  <2>3. ASSUME NEW t \in Thread, LazyStep(t) PROVE [Next]_vars /\ [Lazy!Next]_Lazy!vars
    BY <2>3 DEF LazyStep, Lazy!Next
  <2>4. ASSUME NEW t \in Thread, LazyForce(t) PROVE [Next]_vars /\ [Lazy!Next]_Lazy!vars
    BY <2>4 DEF LazyForce, Lazy!Next
  <2>5. CASE UNCHANGED allVars
    BY <2>5 DEF allVars, lazyVars, Lazy!vars
  <2> QED
    BY <2>1, <2>2, <2>3, <2>4, <2>5 DEF MemoNext
<1> QED
  BY <1>1, <1>2, PTL DEF MemoSpec, Spec, Lazy!Spec

LEMMA CafsHold == Spec => [](IInv /\ Waits)
<1>1. Init => IInv /\ Waits
  BY InitSafe, WaitsInit
<1>2. (IInv /\ Waits) /\ [Next]_vars => (IInv /\ Waits)'
  BY StepSafe, WaitsStep
<1> QED
  BY <1>1, <1>2, PTL DEF Spec

LEMMA CellsHold == Lazy!Spec => [](LInv /\ CellCounts)
<1>1. Lazy!Init => LInv /\ CellCounts
  BY LInvInit, CountsInit
<1>2. (LInv /\ CellCounts) /\ [Lazy!Next]_Lazy!vars => (LInv /\ CellCounts)'
  <2>1. Lazy!vars = lazyVars
    BY DEF Lazy!vars, lazyVars
  <2> QED
    BY <2>1, LInvStep, CountsStep DEF Lazy!vars, lazyVars
<1> QED
  BY <1>1, <1>2, PTL DEF Lazy!Spec

(* When main joins its threads before it returns: a top-level value is      *)
(* computed once, whoever waited finds it complete, nothing frees it while  *)
(* it is used, and the walk over the cleanup list at exit drops every value *)
(* once (idris2rc2_memo_boxed_wait, idris2rc2_memo_boxed_dropAll).          *)
THEOREM MemoAlwaysSound == ASSUME Joined PROVE MemoSpec => []MemoSound
<1> DEFINE Sound == IInv /\ Waits /\ Quiet /\ Held
<1>1. Init => Sound
  BY InitSafe, WaitsInit, QuietInit, HeldInit
<1>2. Sound /\ [Next]_vars => Sound'
  BY StepSafe, WaitsStep, QuietStep, HeldStep
<1>3. Sound => MemoSound
  BY ExclusiveIsOnce, HeldIsReady DEF MemoSound
<1> HIDE DEF Sound
<1>4. Spec => []MemoSound
  BY <1>1, <1>2, <1>3, PTL DEF Spec
<1> QED
  BY <1>4, BothMemosRun, PTL

(* The process reports a value that depends on itself only for one that     *)
(* does, whatever the other threads compute (idris2rc2_memo_cycle).         *)
THEOREM CyclesAreReal == MemoSpec => []CycleIsReal
<1>1. Waits => CycleIsReal
  BY DEF Waits
<1> QED
  BY <1>1, CafsHold, BothMemosRun, PTL

(* However many threads evaluate a lazy cell at once, they all return the   *)
(* value that was stored first, and the process stops only for a cell that  *)
(* needs itself (idris2rc2_force).                                          *)
THEOREM ForcesAlwaysAgree == MemoSpec => []ForcesAgree
  BY LInvAgrees, CellsHold, BothMemosRun, PTL

(* Whoever loses the race to store drops its result, the closure goes with  *)
(* its last user, and nobody runs a closure or returns a value that was     *)
(* freed (idris2rc2_force).                                                 *)
THEOREM NothingEverLeaks == MemoSpec => []NothingLeaks
  BY CountsLeakNothing, CellsHold, BothMemosRun, PTL
=============================================================================
