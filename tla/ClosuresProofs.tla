------------------------------ MODULE ClosuresProofs ------------------------------
(***************************************************************************)
(* Proofs about Closures, for every set of threads, functions, arities,    *)
(* atoms and cells, and every start that StartConstants admits.            *)
(*                                                                         *)
(* The invariant WorldInv relates four things: the value each reference    *)
(* carries and what its object holds (HandMeans, StackMeans, ListMeans),   *)
(* the shape of each stack and of the result over it (Sound, Fit), what    *)
(* the heap may hold (HeapOK), and the counts, each the number of the      *)
(* references in hands, frames, results and closures.  The first and the   *)
(* last need each other: a reference agrees with its object after a step   *)
(* only because the step frees or grows nothing that another reference     *)
(* counts, and a count stays exact only because each frame still owns the  *)
(* references it was given.                                                *)
(*                                                                         *)
(* A result about the state in general takes the hands h, the stacks st,   *)
(* the results rt and the heap as arguments, so that it says the same of   *)
(* the state before and after a step.                                      *)
(***************************************************************************)
EXTENDS Closures, FiniteSetTheorems, SequenceTheorems, NaturalsInduction, WellFoundedInduction, TLAPS

(***************************************************************************)
(* Sequences of any elements.                                              *)
(***************************************************************************)
IsSeq(s) == \E S : s \in Seq(S)

LEMMA SeqIs ==
  ASSUME NEW s, IsSeq(s)
  PROVE  Len(s) \in Nat /\ DOMAIN s = 1..Len(s)
BY DEF IsSeq

LEMMA TwoSeqs ==
  ASSUME NEW s, NEW t, IsSeq(s), IsSeq(t)
  PROVE  \E S : s \in Seq(S) /\ t \in Seq(S)
<1>1. PICK A, B : s \in Seq(A) /\ t \in Seq(B)
  BY DEF IsSeq
<1>2. s \in Seq(A \cup B) /\ t \in Seq(A \cup B)
  BY <1>1
<1> QED
  BY <1>2

LEMMA Joined ==
  ASSUME NEW s, NEW t, IsSeq(s), IsSeq(t)
  PROVE  /\ IsSeq(s \o t) /\ Len(s \o t) = Len(s) + Len(t)
         /\ DOMAIN (s \o t) = 1..(Len(s) + Len(t))
         /\ \A i \in 1..Len(s) : (s \o t)[i] = s[i]
         /\ \A i \in 1..Len(t) : (s \o t)[Len(s) + i] = t[i]
         /\ \A i \in 1..(Len(s) + Len(t)) : i > Len(s) => (s \o t)[i] = t[i - Len(s)]
<1>1. PICK S : s \in Seq(S) /\ t \in Seq(S)
  BY TwoSeqs
<1>2. s \o t \in Seq(S) /\ Len(s \o t) = Len(s) + Len(t)
  BY <1>1
<1> QED
  BY <1>1, <1>2 DEF IsSeq

LEMMA JoinedParts ==
  ASSUME NEW s, NEW t, IsSeq(s), IsSeq(t), NEW i \in DOMAIN (s \o t)
  PROVE  \/ i \in DOMAIN s /\ (s \o t)[i] = s[i]
         \/ \E j \in DOMAIN t : i = Len(s) + j /\ (s \o t)[i] = t[j]
<1>1. i \in 1..(Len(s) + Len(t)) /\ Len(s) \in Nat /\ Len(t) \in Nat
      /\ DOMAIN s = 1..Len(s) /\ DOMAIN t = 1..Len(t)
  BY Joined, SeqIs
<1>2. CASE i <= Len(s)
  BY <1>1, <1>2, Joined
<1>3. CASE i > Len(s)
  <2>1. i - Len(s) \in DOMAIN t /\ i = Len(s) + (i - Len(s))
    BY <1>1, <1>3
  <2>2. (s \o t)[i] = t[i - Len(s)]
    BY <1>1, <1>3, Joined
  <2> QED
    BY <2>1, <2>2
<1> QED
  BY <1>1, <1>2, <1>3

LEMMA SingleSeq ==
  ASSUME NEW x
  PROVE  IsSeq(<<x>>) /\ Len(<<x>>) = 1 /\ DOMAIN <<x>> = {1} /\ <<x>>[1] = x
<1>1. <<x>> \in Seq({x})
  OBVIOUS
<1>2. IsSeq(<<x>>)
  BY <1>1 DEF IsSeq
<1>3. Len(<<x>>) = 1 /\ <<x>>[1] = x
  OBVIOUS
<1>4. DOMAIN <<x>> = 1..1 /\ 1..1 = {1}
  BY <1>1, <1>3
<1> QED
  BY <1>2, <1>3, <1>4

LEMMA PairSeq ==
  ASSUME NEW x, NEW y
  PROVE  IsSeq(<<x, y>>) /\ Len(<<x, y>>) = 2 /\ DOMAIN <<x, y>> = {1, 2}
         /\ <<x, y>>[1] = x /\ <<x, y>>[2] = y /\ <<x, y>> = <<x>> \o <<y>>
<1>1. <<x, y>> \in Seq({x, y})
  OBVIOUS
<1>2. <<x>> \in Seq({x, y}) /\ <<y>> \in Seq({x, y})
  OBVIOUS
<1>3. Len(<<x, y>>) = 2 /\ <<x, y>>[1] = x /\ <<x, y>>[2] = y /\ 1..2 = {1, 2}
  OBVIOUS
<1>4. DOMAIN <<x, y>> = 1..2
  BY <1>1, <1>3
<1>5. <<x, y>> = <<x>> \o <<y>>
  <2> DEFINE s == <<x>> \o <<y>>
  <2>1. s \in Seq({x, y}) /\ Len(s) = 2
    BY <1>2
  <2>2. s[1] = x /\ s[2] = y
    BY <1>2
  <2> HIDE DEF s
  <2>3. \A i \in 1..2 : s[i] = <<x, y>>[i]
    BY <2>2, <1>3
  <2>4. s = <<x, y>>
    BY <1>1, <1>3, <2>1, <2>3, SeqEqual
  <2> QED
    BY <2>4 DEF s
<1>6. IsSeq(<<x, y>>)
  BY <1>1 DEF IsSeq
<1> QED
  BY <1>3, <1>4, <1>5, <1>6

LEMMA NoSeq == IsSeq(<<>>) /\ Len(<<>>) = 0 /\ DOMAIN <<>> = {}
<1>1. <<>> \in Seq({})
  OBVIOUS
<1> QED
  BY <1>1 DEF IsSeq

LEMMA EmptyOr ==
  ASSUME NEW s, IsSeq(s)
  PROVE  (s = <<>> <=> Len(s) = 0) /\ (s # <<>> => Len(s) > 0 /\ 1 \in DOMAIN s)
BY DEF IsSeq

LEMMA HeadTail ==
  ASSUME NEW s, IsSeq(s), s # <<>>
  PROVE  /\ IsSeq(Tail(s)) /\ Len(Tail(s)) = Len(s) - 1 /\ Head(s) = s[1] /\ Len(s) > 0
         /\ DOMAIN Tail(s) = 1..(Len(s) - 1)
         /\ \A i \in 1..(Len(s) - 1) : Tail(s)[i] = s[i + 1]
         /\ s = <<Head(s)>> \o Tail(s)
<1>1. PICK S : s \in Seq(S)
  BY DEF IsSeq
<1>2. Tail(s) \in Seq(S) /\ Len(Tail(s)) = Len(s) - 1 /\ Len(s) > 0 /\ Head(s) = s[1]
      /\ \A i \in 1..(Len(s) - 1) : Tail(s)[i] = s[i + 1]
  BY <1>1
<1>3. s = <<Head(s)>> \o Tail(s)
  BY <1>1
<1> QED
  BY <1>1, <1>2, <1>3 DEF IsSeq

LEMMA JoinNone ==
  ASSUME NEW s, IsSeq(s)
  PROVE  s \o <<>> = s /\ <<>> \o s = s
BY DEF IsSeq

LEMMA JoinThree ==
  ASSUME NEW s, NEW t, NEW u, IsSeq(s), IsSeq(t), IsSeq(u)
  PROVE  (s \o t) \o u = s \o (t \o u)
<1>1. PICK A, B, C : s \in Seq(A) /\ t \in Seq(B) /\ u \in Seq(C)
  BY DEF IsSeq
<1>2. s \in Seq(A \cup B \cup C) /\ t \in Seq(A \cup B \cup C) /\ u \in Seq(A \cup B \cup C)
  BY <1>1
<1> QED
  BY <1>2

(***************************************************************************)
(* Where an object is held in a list of references.                        *)
(***************************************************************************)
LEMMA SameSize ==
  ASSUME NEW S, NEW T, IsFiniteSet(S), NEW f \in [S -> T],
         \A x, y \in S : f[x] = f[y] => x = y, \A z \in T : \E x \in S : f[x] = z
  PROVE  IsFiniteSet(T) /\ Cardinality(T) = Cardinality(S)
<1>1. f \in Injection(S, T)
  BY DEF Injection, IsInjective
<1>2. f \in Surjection(S, T)
  BY DEF Surjection
<1>3. ExistsBijection(S, T)
  BY <1>1, <1>2 DEF Bijection, ExistsBijection
<1> QED
  BY <1>3, FS_Bijection

LEMMA DisjointSum ==
  ASSUME NEW S, NEW T, IsFiniteSet(S), IsFiniteSet(T), S \cap T = {}
  PROVE  IsFiniteSet(S \cup T) /\ Cardinality(S \cup T) = Cardinality(S) + Cardinality(T)
<1>1. Cardinality(S) \in Nat /\ Cardinality(T) \in Nat /\ Cardinality(S \cap T) = 0
  BY FS_CardinalityType, FS_EmptySet
<1>2. IsFiniteSet(S \cup T)
      /\ Cardinality(S \cup T) = Cardinality(S) + Cardinality(T) - Cardinality(S \cap T)
  BY FS_Union
<1> QED
  BY <1>1, <1>2

Count(refs, o) == Cardinality(Slots(refs, o))
One(r, o) == IF r.o = o THEN 1 ELSE 0

LEMMA CountIs ==
  ASSUME NEW s, NEW o, IsSeq(s)
  PROVE  IsFiniteSet(Slots(s, o)) /\ Count(s, o) \in Nat
<1>1. Slots(s, o) \subseteq 1..Len(s) /\ Len(s) \in Nat
  BY SeqIs DEF Slots
<1>2. IsFiniteSet(1..Len(s))
  BY <1>1, FS_Interval
<1> QED
  BY <1>1, <1>2, FS_Subset, FS_CardinalityType DEF Count

LEMMA CountOne ==
  ASSUME NEW r, NEW o
  PROVE  Count(<<r>>, o) = One(r, o)
<1>1. DOMAIN <<r>> = {1} /\ <<r>>[1] = r
  BY SingleSeq
<1>2. CASE r.o = o
  <2>1. Slots(<<r>>, o) = {1}
    BY <1>1, <1>2 DEF Slots
  <2> QED
    BY <1>2, <2>1, FS_Singleton DEF Count, One
<1>3. CASE r.o # o
  <2>1. Slots(<<r>>, o) = {}
    BY <1>1, <1>3 DEF Slots
  <2> QED
    BY <1>3, <2>1, FS_EmptySet DEF Count, One
<1> QED
  BY <1>2, <1>3

LEMMA CountNone == \A o : Count(<<>>, o) = 0
BY NoSeq, FS_EmptySet DEF Count, Slots

LEMMA CountJoin ==
  ASSUME NEW s, NEW t, NEW o, IsSeq(s), IsSeq(t)
  PROVE  Count(s \o t, o) = Count(s, o) + Count(t, o)
<1> DEFINE T == {i \in 1..(Len(s) + Len(t)) : i > Len(s) /\ t[i - Len(s)].o = o}
           f == [k \in Slots(t, o) |-> Len(s) + k]
<1>1. Len(s) \in Nat /\ Len(t) \in Nat /\ DOMAIN s = 1..Len(s) /\ DOMAIN t = 1..Len(t)
      /\ DOMAIN (s \o t) = 1..(Len(s) + Len(t))
      /\ (\A i \in 1..Len(s) : (s \o t)[i] = s[i])
      /\ (\A i \in 1..(Len(s) + Len(t)) : i > Len(s) => (s \o t)[i] = t[i - Len(s)])
  BY Joined, SeqIs
<1>2. Slots(s \o t, o) = Slots(s, o) \cup T
  BY <1>1 DEF Slots
<1>3. Slots(s, o) \cap T = {}
  BY <1>1 DEF Slots
<1>4. IsFiniteSet(T) /\ Cardinality(T) = Count(t, o)
  <2>1. f \in [Slots(t, o) -> T]
    BY <1>1 DEF Slots
  <2>2. \A x, y \in Slots(t, o) : f[x] = f[y] => x = y
    BY <1>1 DEF Slots
  <2>3. ASSUME NEW z \in T PROVE \E x \in Slots(t, o) : f[x] = z
    <3>1. z - Len(s) \in Slots(t, o) /\ Len(s) + (z - Len(s)) = z
      BY <1>1 DEF Slots
    <3> QED
      BY <3>1
  <2> HIDE DEF f, T
  <2>4. IsFiniteSet(Slots(t, o))
    BY CountIs
  <2> QED
    BY <2>1, <2>2, <2>3, <2>4, SameSize DEF Count
<1> HIDE DEF T
<1>5. IsFiniteSet(Slots(s, o))
  BY CountIs
<1> QED
  BY <1>2, <1>3, <1>4, <1>5, DisjointSum DEF Count

LEMMA CountTail ==
  ASSUME NEW s, NEW o, IsSeq(s), s # <<>>
  PROVE  Count(s, o) = One(Head(s), o) + Count(Tail(s), o)
<1>1. IsSeq(Tail(s)) /\ s = <<Head(s)>> \o Tail(s)
  BY HeadTail
<1> DEFINE h == <<Head(s)>>  u == Tail(s)
<1>2. IsSeq(h) /\ IsSeq(u) /\ Count(h, o) = One(Head(s), o)
  BY <1>1, SingleSeq, CountOne
<1> HIDE DEF h, u
<1>3. Count(h \o u, o) = Count(h, o) + Count(u, o)
  BY <1>2, CountJoin
<1> QED
  BY <1>1, <1>2, <1>3 DEF h, u

LEMMA WithoutIs ==
  ASSUME NEW s, IsSeq(s), NEW i \in DOMAIN s
  PROVE  /\ IsSeq(Without(s, i)) /\ Len(Without(s, i)) = Len(s) - 1
         /\ DOMAIN Without(s, i) = 1..(Len(s) - 1)
         /\ \A k \in 1..(Len(s) - 1) : Without(s, i)[k] = s[IF k < i THEN k ELSE k + 1]
         /\ \A k \in DOMAIN Without(s, i) : \E j \in DOMAIN s : Without(s, i)[k] = s[j]
<1>1. PICK S : s \in Seq(S)
  BY DEF IsSeq
<1>0. DOMAIN s # {} /\ Len(s) # 0
  BY <1>1
<1>2. Len(s) - 1 \in Nat /\ DOMAIN s = 1..Len(s) /\ i \in 1..Len(s) /\ Len(s) \in Nat
  BY <1>0, <1>1
<1>3. \A k \in 1..(Len(s) - 1) : (IF k < i THEN k ELSE k + 1) \in 1..Len(s)
  BY <1>2
<1>4. Without(s, i) = [k \in 1..(Len(s) - 1) |-> s[IF k < i THEN k ELSE k + 1]]
  BY DEF Without
<1>5. \A k \in 1..(Len(s) - 1) : s[IF k < i THEN k ELSE k + 1] \in S
  BY <1>1, <1>2, <1>3
<1>6. Without(s, i) \in [1..(Len(s) - 1) -> S]
  BY <1>4, <1>5
<1>7. Without(s, i) \in Seq(S) /\ Len(Without(s, i)) = Len(s) - 1
  <2> DEFINE m == Len(s) - 1  u == Without(s, i)
  <2>1. m \in Nat /\ u \in [1..m -> S]
    BY <1>2, <1>6
  <2> HIDE DEF m, u
  <2>2. u \in Seq(S)
    BY <2>1, SeqDef
  <2>3. Len(u) = m
    BY <2>1, <2>2
  <2> QED
    BY <2>2, <2>3 DEF m, u
<1>8. \A k \in 1..(Len(s) - 1) : Without(s, i)[k] = s[IF k < i THEN k ELSE k + 1]
  BY <1>4
<1>9. DOMAIN Without(s, i) = 1..(Len(s) - 1)
  BY <1>6
<1> QED
  BY <1>2, <1>3, <1>7, <1>8, <1>9 DEF IsSeq

LEMMA CountWithout ==
  ASSUME NEW s, NEW o, IsSeq(s), NEW i \in DOMAIN s
  PROVE  Count(s, o) = Count(Without(s, i), o) + One(s[i], o)
<1> DEFINE w == Without(s, i)
           A == Slots(s, o) \ {i}
           f == [k \in Slots(w, o) |-> IF k < i THEN k ELSE k + 1]
<1>1. /\ IsSeq(w) /\ DOMAIN w = 1..(Len(s) - 1) /\ Len(s) \in Nat /\ DOMAIN s = 1..Len(s)
      /\ \A k \in 1..(Len(s) - 1) : w[k] = s[IF k < i THEN k ELSE k + 1]
  BY WithoutIs, SeqIs
<1> HIDE DEF w
<1>2. IsFiniteSet(Slots(w, o)) /\ IsFiniteSet(Slots(s, o))
  BY <1>1, CountIs
<1>3. Cardinality(A) = Cardinality(Slots(w, o))
  <2>1. ASSUME NEW k \in Slots(w, o) PROVE f[k] \in A
    BY <1>1 DEF Slots
  <2>2. f \in [Slots(w, o) -> A]
    BY <2>1
  <2>3. \A x, y \in Slots(w, o) : f[x] = f[y] => x = y
    BY <1>1 DEF Slots
  <2>4. ASSUME NEW z \in A PROVE \E x \in Slots(w, o) : f[x] = z
    <3>1. CASE z < i
      <4>1. z \in Slots(w, o)
        BY <1>1, <3>1 DEF Slots
      <4> QED
        BY <3>1, <4>1
    <3>2. CASE z > i
      <4>1. z - 1 \in 1..(Len(s) - 1) /\ ~(z - 1 < i) /\ (z - 1) + 1 = z
        BY <1>1, <3>2 DEF Slots
      <4>2. w[z - 1] = s[z]
        BY <1>1, <4>1
      <4>3. z - 1 \in Slots(w, o)
        BY <1>1, <4>1, <4>2 DEF Slots
      <4> QED
        BY <4>1, <4>3
    <3> QED
      BY <1>1, <3>1, <3>2 DEF Slots
  <2> HIDE DEF f, A
  <2> QED
    BY <1>2, <2>2, <2>3, <2>4, SameSize
<1>4. Cardinality(A) = Count(s, o) - One(s[i], o)
  <2>1. i \in Slots(s, o) <=> s[i].o = o
    BY DEF Slots
  <2>2. Cardinality(A) = IF i \in Slots(s, o) THEN Cardinality(Slots(s, o)) - 1 ELSE Cardinality(Slots(s, o))
    BY <1>2, FS_RemoveElement
  <2>3. Cardinality(Slots(s, o)) \in Nat
    BY <1>2, FS_CardinalityType
  <2> QED
    BY <2>1, <2>2, <2>3 DEF Count, One
<1>5. Count(s, o) \in Nat /\ Count(w, o) \in Nat
  BY <1>1, CountIs
<1>6. Count(s, o) = Count(w, o) + One(s[i], o)
  BY <1>3, <1>4, <1>5 DEF Count, One
<1> QED
  BY <1>6 DEF w

LEMMA CountWithout2 ==
  ASSUME NEW s, NEW o, IsSeq(s), NEW i \in DOMAIN s, NEW j \in DOMAIN s, i # j
  PROVE  /\ IsSeq(Without2(s, i, j))
         /\ Count(s, o) = Count(Without2(s, i, j), o) + One(s[i], o) + One(s[j], o)
         /\ \A k \in DOMAIN Without2(s, i, j) : \E n \in DOMAIN s : Without2(s, i, j)[k] = s[n]
<1>1. ASSUME NEW a \in DOMAIN s, NEW b \in DOMAIN s, a < b
      PROVE  LET u == Without(Without(s, b), a)
             IN /\ IsSeq(u) /\ Count(s, o) = Count(u, o) + One(s[a], o) + One(s[b], o)
                /\ \A k \in DOMAIN u : \E n \in DOMAIN s : u[k] = s[n]
  <2> DEFINE w == Without(s, b)  u == Without(w, a)
  <2>1. /\ IsSeq(w) /\ DOMAIN w = 1..(Len(s) - 1) /\ DOMAIN s = 1..Len(s) /\ Len(s) \in Nat
        /\ \A k \in 1..(Len(s) - 1) : w[k] = s[IF k < b THEN k ELSE k + 1]
    BY WithoutIs, SeqIs
  <2>6. \A k \in DOMAIN w : \E n \in DOMAIN s : w[k] = s[n]
    BY WithoutIs
  <2>0. Count(s, o) = Count(w, o) + One(s[b], o)
    BY CountWithout
  <2> HIDE DEF w
  <2>2. a \in DOMAIN w /\ w[a] = s[a]
    BY <1>1, <2>1
  <2>3. /\ IsSeq(u) /\ \A k \in DOMAIN u : \E n \in DOMAIN w : u[k] = w[n]
        /\ Count(w, o) = Count(u, o) + One(w[a], o)
    BY <2>1, <2>2, WithoutIs, CountWithout
  <2>4. Count(w, o) \in Nat /\ Count(u, o) \in Nat /\ One(s[a], o) \in Nat /\ One(s[b], o) \in Nat
    BY <2>1, <2>3, CountIs DEF One
  <2> HIDE DEF u
  <2>5. /\ IsSeq(u) /\ Count(s, o) = Count(u, o) + One(s[a], o) + One(s[b], o)
        /\ \A k \in DOMAIN u : \E n \in DOMAIN s : u[k] = s[n]
    BY <2>0, <2>1, <2>2, <2>3, <2>4, <2>6
  <2> QED
    BY <2>5 DEF u, w
<1>2. DOMAIN s = 1..Len(s) /\ Len(s) \in Nat
  BY SeqIs
<1>3. CASE i < j
  BY <1>1, <1>3 DEF Without2
<1>4. CASE j < i
  <2>1. Without2(s, i, j) = Without(Without(s, i), j)
    BY <1>2, <1>4 DEF Without2
  <2>2. One(s[i], o) \in Nat /\ One(s[j], o) \in Nat
    BY DEF One
  <2>3. IsSeq(Without2(s, i, j))
    BY <1>1, <1>4, <2>1
  <2>4. Count(Without2(s, i, j), o) \in Nat
    BY <2>3, CountIs
  <2>5. Count(s, o) = Count(Without2(s, i, j), o) + One(s[j], o) + One(s[i], o)
    BY <1>1, <1>4, <2>1
  <2> QED
    BY <1>1, <1>4, <2>1, <2>2, <2>3, <2>4, <2>5
<1> QED
  BY <1>2, <1>3, <1>4

(***************************************************************************)
(* Families of finite sets, each element tagged with its index.            *)
(***************************************************************************)
Finites(f) == IsFiniteSet(DOMAIN f) /\ \A x \in DOMAIN f : IsFiniteSet(f[x])
Total(f)   == Cardinality(Tagged(f))

LEMMA TaggedFinite ==
  ASSUME NEW f, Finites(f)
  PROVE  IsFiniteSet(Tagged(f)) /\ Total(f) \in Nat
<1> DEFINE I == DOMAIN f
           T == {{x} \X f[x] : x \in I}
           g == [x \in I |-> {x} \X f[x]]
<1>1. IsFiniteSet(I) /\ \A x \in I : IsFiniteSet(f[x])
  BY DEF Finites
<1>2. \A x \in I : IsFiniteSet({x} \X f[x])
  BY <1>1, FS_Product, FS_Singleton
<1>3. g \in Surjection(I, T)
  BY DEF Surjection
<1> HIDE DEF g
<1>4. IsFiniteSet(T)
  BY <1>1, <1>3, FS_Surjection
<1>5. IsFiniteSet(UNION T)
  BY <1>2, <1>4, FS_UNION
<1> QED
  BY <1>5, FS_CardinalityType DEF Tagged, Total

LEMMA TagOne ==
  ASSUME NEW x, NEW S, IsFiniteSet(S)
  PROVE  IsFiniteSet({x} \X S) /\ Cardinality({x} \X S) = Cardinality(S)
<1>1. IsFiniteSet({x}) /\ Cardinality({x}) = 1
  BY FS_Singleton
<1>2. Cardinality({x} \X S) = 1 * Cardinality(S) /\ IsFiniteSet({x} \X S)
  BY <1>1, FS_Product
<1>3. Cardinality(S) \in Nat
  BY FS_CardinalityType
<1> QED
  BY <1>2, <1>3

\* A family is one of its sets and the family of the others.
LEMMA TaggedSplit ==
  ASSUME NEW f, Finites(f), NEW i \in DOMAIN f,
         NEW g, g = [x \in DOMAIN f \ {i} |-> f[x]]
  PROVE  /\ Finites(g) /\ Total(g) \in Nat /\ Total(f) = Total(g) + Cardinality(f[i])
         /\ Cardinality(f[i]) \in Nat
<1>1. DOMAIN g = DOMAIN f \ {i} /\ \A x \in DOMAIN g : g[x] = f[x]
  OBVIOUS
<1>2. Finites(g)
  BY <1>1, FS_RemoveElement DEF Finites
<1>3. IsFiniteSet(f[i]) /\ Cardinality(f[i]) \in Nat
  BY FS_CardinalityType DEF Finites
<1>4. Tagged(f) = Tagged(g) \cup ({i} \X f[i])
  BY <1>1 DEF Tagged
<1>5. Tagged(g) \cap ({i} \X f[i]) = {}
  BY <1>1 DEF Tagged
<1>6. IsFiniteSet(Tagged(g)) /\ Total(g) \in Nat
  BY <1>2, TaggedFinite
<1>7. Cardinality({i} \X f[i]) = Cardinality(f[i]) /\ IsFiniteSet({i} \X f[i])
  BY <1>3, TagOne
<1>8. Cardinality(Tagged(f)) = Cardinality(Tagged(g)) + Cardinality({i} \X f[i])
  BY <1>4, <1>5, <1>6, <1>7, DisjointSum
<1> QED
  BY <1>2, <1>3, <1>6, <1>7, <1>8 DEF Total

\* Two families that differ in one set only.
LEMMA TaggedChange ==
  ASSUME NEW f, NEW g, Finites(f), Finites(g), DOMAIN f = DOMAIN g, NEW i \in DOMAIN f,
         \A x \in DOMAIN f \ {i} : f[x] = g[x]
  PROVE  /\ Total(g) = Total(f) - Cardinality(f[i]) + Cardinality(g[i])
         /\ Total(f) \in Nat /\ Total(g) \in Nat
         /\ Cardinality(f[i]) \in Nat /\ Cardinality(g[i]) \in Nat
<1> DEFINE r == [x \in DOMAIN f \ {i} |-> f[x]]
           s == [x \in DOMAIN g \ {i} |-> g[x]]
<1>1. r = s
  OBVIOUS
<1> HIDE DEF r, s
<1>2. Total(f) = Total(r) + Cardinality(f[i]) /\ Total(r) \in Nat /\ Cardinality(f[i]) \in Nat
  BY TaggedSplit DEF r
<1>3. Total(g) = Total(s) + Cardinality(g[i]) /\ Cardinality(g[i]) \in Nat
  BY TaggedSplit DEF s
<1> QED
  BY <1>1, <1>2, <1>3, TaggedFinite

LEMMA TaggedNone ==
  ASSUME NEW f, DOMAIN f = {}
  PROVE  Finites(f) /\ Total(f) = 0
<1>1. Tagged(f) = {}
  BY DEF Tagged
<1> QED
  BY <1>1, FS_EmptySet DEF Finites, Total

LEMMA TaggedSingle ==
  ASSUME NEW f, NEW i, DOMAIN f = {i}, IsFiniteSet(f[i])
  PROVE  Finites(f) /\ Total(f) = Cardinality(f[i])
<1>1. Tagged(f) = {i} \X f[i]
  BY DEF Tagged
<1>2. Cardinality({i} \X f[i]) = Cardinality(f[i])
  BY TagOne
<1> QED
  BY <1>1, <1>2, FS_Singleton DEF Finites, Total

LEMMA TaggedThree ==
  ASSUME NEW A, NEW B, NEW C, IsFiniteSet(A), IsFiniteSet(B), IsFiniteSet(C)
  PROVE  /\ IsFiniteSet(Tagged(<<A, B, C>>))
         /\ Total(<<A, B, C>>) = Cardinality(A) + Cardinality(B) + Cardinality(C)
<1> DEFINE f == <<A, B, C>>
<1>1. DOMAIN f = {1, 2, 3} /\ f[1] = A /\ f[2] = B /\ f[3] = C
  OBVIOUS
<1>2. IsFiniteSet({1, 2, 3})
  <2>1. 1..3 = {1, 2, 3} /\ 1 \in Int /\ 3 \in Int
    OBVIOUS
  <2>2. IsFiniteSet(1..3)
    BY <2>1, FS_Interval
  <2> QED
    BY <2>1, <2>2
<1> HIDE DEF f
<1>3. Finites(f)
  BY <1>1, <1>2 DEF Finites
<1> DEFINE g == [x \in DOMAIN f \ {1} |-> f[x]]
           h == [x \in DOMAIN g \ {2} |-> g[x]]
<1>4. DOMAIN g = {2, 3} /\ g[2] = B /\ g[3] = C
  BY <1>1
<1>5. Finites(g) /\ Total(f) = Total(g) + Cardinality(A) /\ Total(g) \in Nat
  BY <1>1, <1>3, TaggedSplit
<1> HIDE DEF g
<1>6. DOMAIN h = {3} /\ h[3] = C
  BY <1>4
<1>7. Total(g) = Total(h) + Cardinality(B)
  BY <1>4, <1>5, TaggedSplit
<1> HIDE DEF h
<1>8. Total(h) = Cardinality(C)
  BY <1>6, TaggedSingle
<1>9. Cardinality(A) \in Nat /\ Cardinality(B) \in Nat /\ Cardinality(C) \in Nat
  BY FS_CardinalityType
<1>10. Total(f) = Cardinality(A) + Cardinality(B) + Cardinality(C)
  BY <1>5, <1>7, <1>8, <1>9
<1>11. IsFiniteSet(Tagged(f))
  BY <1>3, TaggedFinite
<1> QED
  BY <1>10, <1>11 DEF f

(***************************************************************************)
(* The references a thread has to an object: those of its hand, its frames *)
(* and its result.                                                         *)
(***************************************************************************)
IsHand(b) == IsFiniteSet(DOMAIN b) /\ b = [r \in DOMAIN b |-> b[r]] /\ \A r \in DOMAIN b : b[r] \in Nat \ {0}
IsStack(fs) == IsSeq(fs) /\ \A i \in DOMAIN fs : IsSeq(FrameRefs(fs[i]))

HandFamily(b, o) == [r \in {r \in DOMAIN b : r.o = o} |-> 1..b[r]]
StackFamily(fs, o) == [i \in DOMAIN fs |-> Slots(FrameRefs(fs[i]), o)]
HandCount(b, o) == Total(HandFamily(b, o))
StackCount(fs, o) == Total(StackFamily(fs, o))
FrameCount(f, o) == Count(FrameRefs(f), o)

LEMMA HandFinite ==
  ASSUME NEW b, IsHand(b), NEW o
  PROVE  Finites(HandFamily(b, o)) /\ HandCount(b, o) \in Nat
<1>1. DOMAIN HandFamily(b, o) = {r \in DOMAIN b : r.o = o}
  BY DEF HandFamily
<1>2. IsFiniteSet(DOMAIN HandFamily(b, o))
  BY <1>1, FS_Subset DEF IsHand
<1>3. \A r \in DOMAIN HandFamily(b, o) : IsFiniteSet(HandFamily(b, o)[r])
  BY <1>1, FS_Interval DEF HandFamily, IsHand
<1> QED
  BY <1>2, <1>3, TaggedFinite DEF Finites, HandCount

LEMMA StackFinite ==
  ASSUME NEW fs, IsStack(fs), NEW o
  PROVE  Finites(StackFamily(fs, o)) /\ StackCount(fs, o) \in Nat
<1>1. DOMAIN StackFamily(fs, o) = 1..Len(fs) /\ Len(fs) \in Nat
  BY SeqIs DEF StackFamily, IsStack
<1>2. IsFiniteSet(DOMAIN StackFamily(fs, o))
  BY <1>1, FS_Interval
<1>3. \A i \in DOMAIN fs : IsFiniteSet(StackFamily(fs, o)[i])
  BY CountIs DEF StackFamily, IsStack
<1> QED
  BY <1>2, <1>3, TaggedFinite DEF Finites, StackCount, StackFamily

LEMMA UsesCount ==
  ASSUME NEW b, NEW fs, NEW r, NEW o, IsHand(b), IsStack(fs),
         NEW u, u = Tagged(<<HandUses(b, o), FrameUses(fs, o), Slots(<<r>>, o)>>)
  PROVE  /\ IsFiniteSet(u)
         /\ Cardinality(u) = HandCount(b, o) + StackCount(fs, o) + One(r, o)
<1>1. HandUses(b, o) = Tagged(HandFamily(b, o)) /\ FrameUses(fs, o) = Tagged(StackFamily(fs, o))
  BY DEF HandUses, FrameUses, HandFamily, StackFamily
<1>2. IsFiniteSet(HandUses(b, o)) /\ Cardinality(HandUses(b, o)) = HandCount(b, o)
  BY <1>1, HandFinite, TaggedFinite DEF HandCount, Total
<1>3. IsFiniteSet(FrameUses(fs, o)) /\ Cardinality(FrameUses(fs, o)) = StackCount(fs, o)
  BY <1>1, StackFinite, TaggedFinite DEF StackCount, Total
<1>4. IsFiniteSet(Slots(<<r>>, o)) /\ Cardinality(Slots(<<r>>, o)) = One(r, o)
  <2>1. IsSeq(<<r>>)
    BY SingleSeq
  <2> QED
    BY <2>1, CountIs, CountOne DEF Count
<1> QED
  BY <1>2, <1>3, <1>4, TaggedThree DEF Total

\* One more of a reference, one less.
LEMMA HandAddIs ==
  ASSUME NEW b, IsHand(b), NEW r
  PROVE  IsHand(Bag!BagAdd(b, r))
<1> DEFINE c == Bag!BagAdd(b, r)
<1>1. /\ DOMAIN c = DOMAIN b \cup {r} /\ c = [x \in DOMAIN c |-> c[x]]
      /\ c[r] = (IF r \in DOMAIN b THEN b[r] + 1 ELSE 1) /\ \A x \in DOMAIN b \ {r} : c[x] = b[x]
  BY DEF Bag!BagAdd
<1> QED
  BY <1>1, FS_AddElement DEF IsHand

LEMMA HandAdd ==
  ASSUME NEW b, IsHand(b), NEW r, NEW o, NEW c, c = Bag!BagAdd(b, r)
  PROVE  HandCount(c, o) = HandCount(b, o) + One(r, o)
<1>1. /\ DOMAIN c = DOMAIN b \cup {r}
      /\ c[r] = (IF r \in DOMAIN b THEN b[r] + 1 ELSE 1) /\ \A x \in DOMAIN b \ {r} : c[x] = b[x]
  BY DEF Bag!BagAdd
<1>2. IsHand(c)
  BY HandAddIs
<1> DEFINE f == HandFamily(b, o)  g == HandFamily(c, o)
<1>3. Finites(f) /\ Finites(g) /\ Total(f) \in Nat /\ Total(g) \in Nat
  BY <1>2, HandFinite DEF HandCount
<1>4. /\ DOMAIN f = {x \in DOMAIN b : x.o = o} /\ \A x \in DOMAIN f : f[x] = 1..b[x]
      /\ DOMAIN g = {x \in DOMAIN c : x.o = o} /\ \A x \in DOMAIN g : g[x] = 1..c[x]
      /\ f = [x \in DOMAIN f |-> f[x]] /\ g = [x \in DOMAIN g |-> g[x]]
  BY DEF HandFamily
<1>5. \A n \in Nat : Cardinality(1..n) = n
  BY FS_Interval
<1> HIDE DEF f, g
<1>6. CASE r.o # o
  <2>1. DOMAIN f = DOMAIN g /\ \A x \in DOMAIN f : f[x] = g[x]
    BY <1>1, <1>4, <1>6
  <2>2. f = g
    BY <1>4, <2>1
  <2> QED
    BY <1>1, <1>2, <1>3, <1>6, <2>2 DEF f, g, HandCount, One
<1>7. CASE r.o = o /\ r \in DOMAIN b
  <2>1. DOMAIN f = DOMAIN g /\ r \in DOMAIN f /\ \A x \in DOMAIN f \ {r} : f[x] = g[x]
    BY <1>1, <1>4, <1>7
  <2>2. b[r] \in Nat /\ f[r] = 1..b[r] /\ g[r] = 1..(b[r] + 1) /\ b[r] + 1 \in Nat
    BY <1>1, <1>4, <1>7, <2>1 DEF IsHand
  <2>3. Cardinality(f[r]) = b[r] /\ Cardinality(g[r]) = b[r] + 1
    BY <1>5, <2>2
  <2>4. Total(g) = Total(f) - Cardinality(f[r]) + Cardinality(g[r])
    BY <1>3, <2>1, TaggedChange
  <2> QED
    BY <1>1, <1>2, <1>3, <1>7, <2>2, <2>3, <2>4 DEF f, g, HandCount, One
<1>8. CASE r.o = o /\ r \notin DOMAIN b
  <2>0. DOMAIN f = DOMAIN g \ {r} /\ \A x \in DOMAIN f : f[x] = g[x]
    BY <1>1, <1>4, <1>8
  <2>1. r \in DOMAIN g /\ g[r] = 1..1 /\ f = [x \in DOMAIN g \ {r} |-> g[x]]
    BY <1>1, <1>4, <1>8, <2>0
  <2>2. Total(g) = Total(f) + Cardinality(g[r])
    BY <1>3, <2>1, TaggedSplit
  <2>3. Cardinality(g[r]) = 1
    BY <1>5, <2>1
  <2> QED
    BY <1>1, <1>2, <1>3, <1>8, <2>2, <2>3 DEF f, g, HandCount, One
<1> QED
  BY <1>6, <1>7, <1>8

LEMMA HandRemoveIs ==
  ASSUME NEW b, IsHand(b), NEW r \in DOMAIN b, NEW c, c = Bag!BagRemove(b, r)
  PROVE  /\ IsHand(c) /\ DOMAIN c \subseteq DOMAIN b /\ (b[r] # 1 => r \in DOMAIN c)
         /\ b = Bag!BagAdd(c, r)
<1> DEFINE back == Bag!BagAdd(c, r)
<1>0. b[r] \in Nat \ {0}
  BY DEF IsHand
<1>1. /\ DOMAIN c = (IF b[r] = 1 THEN DOMAIN b \ {r} ELSE DOMAIN b) /\ c = [x \in DOMAIN c |-> c[x]]
      /\ (b[r] # 1 => c[r] = b[r] - 1) /\ \A x \in DOMAIN b \ {r} : c[x] = b[x]
  BY DEF Bag!BagRemove
<1>2. IsHand(c)
  <2>1. IsFiniteSet(DOMAIN c)
    BY <1>1, FS_RemoveElement DEF IsHand
  <2>2. \A x \in DOMAIN c : c[x] \in Nat \ {0}
    BY <1>0, <1>1 DEF IsHand
  <2> QED
    BY <1>1, <2>1, <2>2 DEF IsHand
<1>3. back = b
  <2>1. DOMAIN back = DOMAIN b /\ back = [x \in DOMAIN back |-> back[x]]
    BY <1>1 DEF Bag!BagAdd
  <2>2. \A x \in DOMAIN b : back[x] = b[x]
    BY <1>0, <1>1 DEF Bag!BagAdd
  <2>3. b = [x \in DOMAIN b |-> b[x]]
    BY DEF IsHand
  <2> HIDE DEF back
  <2> QED
    BY <2>1, <2>2, <2>3
<1> QED
  BY <1>1, <1>2, <1>3

LEMMA HandRemove ==
  ASSUME NEW b, IsHand(b), NEW r \in DOMAIN b, NEW o, NEW c, c = Bag!BagRemove(b, r)
  PROVE  HandCount(b, o) = HandCount(c, o) + One(r, o)
<1>1. IsHand(c) /\ b = Bag!BagAdd(c, r)
  BY HandRemoveIs
<1> QED
  BY <1>1, HandAdd

LEMMA StackJoin ==
  ASSUME NEW s, NEW t, NEW o, IsStack(s), IsStack(t)
  PROVE  IsStack(s \o t) /\ StackCount(s \o t, o) = StackCount(s, o) + StackCount(t, o)
<1> DEFINE u == s \o t
           f == StackFamily(s, o)  g == StackFamily(t, o)  h == StackFamily(u, o)
           n == Len(s)
           G == UNION {{i} \X Slots(FrameRefs(u[i]), o) : i \in {i \in DOMAIN u : i > n}}
           shift == [p \in Tagged(g) |-> <<n + p[1], p[2]>>]
<1>1. /\ IsSeq(u) /\ n \in Nat /\ Len(t) \in Nat /\ DOMAIN s = 1..n /\ DOMAIN t = 1..Len(t)
      /\ DOMAIN u = 1..(n + Len(t)) /\ (\A i \in 1..n : u[i] = s[i])
      /\ \A i \in 1..(n + Len(t)) : i > n => u[i] = t[i - n]
  BY Joined, SeqIs DEF IsStack
<1>2. IsStack(u)
  <2>1. ASSUME NEW i \in DOMAIN u PROVE IsSeq(FrameRefs(u[i]))
    <3>1. CASE i <= n
      BY <1>1, <3>1 DEF IsStack
    <3>2. CASE i > n
      <4>1. i - n \in DOMAIN t /\ u[i] = t[i - n]
        BY <1>1, <3>2
      <4> QED
        BY <4>1 DEF IsStack
    <3> QED
      BY <1>1, <3>1, <3>2
  <2> QED
    BY <1>1, <2>1 DEF IsStack
<1> HIDE DEF u, n
<1>3. Tagged(h) = Tagged(f) \cup G
  <2>1. Tagged(h) = UNION {{i} \X Slots(FrameRefs(u[i]), o) : i \in DOMAIN u}
    BY DEF Tagged, StackFamily
  <2>2. Tagged(f) = UNION {{i} \X Slots(FrameRefs(s[i]), o) : i \in DOMAIN s}
    BY DEF Tagged, StackFamily
  <2>3. Tagged(f) = UNION {{i} \X Slots(FrameRefs(u[i]), o) : i \in 1..n}
    BY <1>1, <2>2
  <2>4. DOMAIN u = (1..n) \cup {i \in DOMAIN u : i > n}
    BY <1>1
  <2> HIDE DEF f, h
  <2> QED
    BY <2>1, <2>3, <2>4
<1>4. Tagged(f) \cap G = {}
  BY <1>1 DEF Tagged, StackFamily
<1>5. Finites(f) /\ Finites(g) /\ IsFiniteSet(Tagged(f)) /\ IsFiniteSet(Tagged(g))
  BY StackFinite, TaggedFinite
<1>6. IsFiniteSet(G) /\ Cardinality(G) = Cardinality(Tagged(g))
  <2>1. Tagged(g) = UNION {{i} \X Slots(FrameRefs(t[i]), o) : i \in 1..Len(t)}
    BY <1>1 DEF Tagged, StackFamily
  <2> DEFINE X == Tagged(g)
  <2>2. ASSUME NEW p \in X
        PROVE  /\ p = <<p[1], p[2]>> /\ p[1] \in 1..Len(t) /\ p[2] \in Slots(FrameRefs(t[p[1]]), o)
    BY <2>1
  <2>3. ASSUME NEW p \in X PROVE <<n + p[1], p[2]>> \in G
    <3>1. n + p[1] \in DOMAIN u /\ n + p[1] > n /\ u[n + p[1]] = t[p[1]]
      <4>1. n + p[1] \in 1..(n + Len(t)) /\ n + p[1] > n /\ (n + p[1]) - n = p[1]
        BY <1>1, <2>2
      <4> QED
        BY <1>1, <4>1
    <3> QED
      BY <2>2, <3>1
  <2>4. ASSUME NEW q \in G PROVE \E p \in X : <<n + p[1], p[2]>> = q
    <3>1. PICK i \in DOMAIN u : i > n /\ q \in {i} \X Slots(FrameRefs(u[i]), o)
      OBVIOUS
    <3>2. i - n \in 1..Len(t) /\ u[i] = t[i - n] /\ n + (i - n) = i
      BY <1>1, <3>1
    <3>3. q = <<i, q[2]>> /\ q[2] \in Slots(FrameRefs(t[i - n]), o)
      BY <3>1, <3>2
    <3>4. <<i - n, q[2]>> \in X
      BY <2>1, <3>2, <3>3
    <3>5. <<i - n, q[2]>>[1] = i - n /\ <<i - n, q[2]>>[2] = q[2]
      OBVIOUS
    <3> QED
      BY <3>2, <3>3, <3>4, <3>5
  <2>5. \A p, q \in X : <<n + p[1], p[2]>> = <<n + q[1], q[2]>> => p = q
    <3> SUFFICES ASSUME NEW p \in X, NEW q \in X, <<n + p[1], p[2]>> = <<n + q[1], q[2]>> PROVE p = q
      OBVIOUS
    <3>1. n + p[1] = n + q[1] /\ p[2] = q[2]
      OBVIOUS
    <3>2. p[1] = q[1]
      BY <1>1, <2>2, <3>1
    <3> QED
      BY <2>2, <3>1, <3>2
  <2> HIDE DEF G, X
  <2> DEFINE k == [p \in X |-> <<n + p[1], p[2]>>]
  <2>6. k \in [X -> G] /\ (\A p, q \in X : k[p] = k[q] => p = q) /\ (\A q \in G : \E p \in X : k[p] = q)
    BY <2>3, <2>4, <2>5
  <2> HIDE DEF k
  <2> QED
    BY <1>5, <2>6, SameSize DEF X
<1> HIDE DEF f, g, h, G
<1>7. Cardinality(Tagged(h)) = Cardinality(Tagged(f)) + Cardinality(G)
  BY <1>3, <1>4, <1>5, <1>6, DisjointSum
<1> QED
  BY <1>2, <1>6, <1>7 DEF StackCount, Total, f, g, h, u

LEMMA StackSingle ==
  ASSUME NEW f, NEW o, IsSeq(FrameRefs(f))
  PROVE  IsStack(<<f>>) /\ StackCount(<<f>>, o) = FrameCount(f, o) /\ FrameCount(f, o) \in Nat
<1>1. IsSeq(<<f>>) /\ DOMAIN <<f>> = {1} /\ <<f>>[1] = f
  BY SingleSeq
<1>2. IsStack(<<f>>)
  BY <1>1 DEF IsStack
<1>3. DOMAIN StackFamily(<<f>>, o) = {1} /\ StackFamily(<<f>>, o)[1] = Slots(FrameRefs(f), o)
  BY <1>1 DEF StackFamily
<1>4. IsFiniteSet(Slots(FrameRefs(f), o)) /\ FrameCount(f, o) \in Nat
  BY CountIs DEF FrameCount
<1> QED
  BY <1>2, <1>3, <1>4, TaggedSingle DEF StackCount, FrameCount, Count

LEMMA StackNone == IsStack(<<>>) /\ \A o : StackCount(<<>>, o) = 0
<1>1. IsSeq(<<>>) /\ DOMAIN <<>> = {}
  BY NoSeq
<1>2. \A o : DOMAIN StackFamily(<<>>, o) = {}
  BY <1>1 DEF StackFamily
<1> QED
  BY <1>1, <1>2, TaggedNone DEF IsStack, StackCount

LEMMA StackTop ==
  ASSUME NEW s, NEW o, IsStack(s), s # <<>>
  PROVE  /\ IsStack(Tail(s)) /\ IsSeq(FrameRefs(Head(s)))
         /\ StackCount(s, o) = FrameCount(Head(s), o) + StackCount(Tail(s), o)
         /\ FrameCount(Head(s), o) \in Nat /\ StackCount(Tail(s), o) \in Nat
<1>1. /\ IsSeq(s) /\ IsSeq(Tail(s)) /\ Head(s) = s[1] /\ DOMAIN Tail(s) = 1..(Len(s) - 1)
      /\ (\A i \in 1..(Len(s) - 1) : Tail(s)[i] = s[i + 1]) /\ s = <<Head(s)>> \o Tail(s)
      /\ Len(s) \in Nat /\ Len(s) > 0 /\ DOMAIN s = 1..Len(s)
  BY HeadTail, SeqIs DEF IsStack
<1>2. IsStack(Tail(s))
  <2>1. ASSUME NEW i \in DOMAIN Tail(s) PROVE IsSeq(FrameRefs(Tail(s)[i]))
    <3>1. i + 1 \in DOMAIN s /\ Tail(s)[i] = s[i + 1]
      BY <1>1
    <3> QED
      BY <3>1 DEF IsStack
  <2> QED
    BY <1>1, <2>1 DEF IsStack
<1>3. IsSeq(FrameRefs(Head(s)))
  <2>1. 1 \in DOMAIN s
    BY <1>1
  <2> QED
    BY <1>1, <2>1 DEF IsStack
<1> DEFINE h == <<Head(s)>>  u == Tail(s)
<1>4. IsStack(h) /\ StackCount(h, o) = FrameCount(Head(s), o) /\ FrameCount(Head(s), o) \in Nat
  BY <1>3, StackSingle
<1>5. StackCount(u, o) \in Nat
  BY <1>2, StackFinite
<1>6. s = h \o u
  BY <1>1
<1> HIDE DEF h, u
<1>7. StackCount(s, o) = StackCount(h, o) + StackCount(u, o)
  BY ZenonT(30), <1>2, <1>4, <1>6, StackJoin DEF u
<1> QED
  BY <1>2, <1>3, <1>4, <1>5, <1>7 DEF u

(***************************************************************************)
(* Values and references.                                                  *)
(***************************************************************************)
Sat(v)  == v.fn \in Fns /\ Len(v.args) = Arity[v.fn]
Part(v) == v.fn \in Fns /\ Len(v.args) < Arity[v.fn]

IsRef(r)  == r = [o |-> r.o, v |-> r.v] /\ r.o \in Objects \cup {Null}
Good(r)   == IsRef(r) /\ ~Sat(r.v)
IsList(s) == IsSeq(s) /\ \A i \in DOMAIN s : Good(s[i])

LEMMA ConsIs ==
  ASSUME NEW u, IsSeq(u), NEW x
  PROVE  /\ IsSeq(<<x>> \o u) /\ Len(u) \in Nat
         /\ DOMAIN (<<x>> \o u) = 1..(Len(u) + 1) /\ DOMAIN u = 1..Len(u) /\ (<<x>> \o u)[1] = x
         /\ \A i \in 1..Len(u) : (<<x>> \o u)[i + 1] = u[i]
         /\ \A i \in 1..(Len(u) + 1) : i # 1 => i - 1 \in 1..Len(u) /\ (<<x>> \o u)[i] = u[i - 1]
<1> DEFINE s == <<x>> \o u
<1>1. IsSeq(<<x>>) /\ Len(<<x>>) = 1 /\ <<x>>[1] = x
  BY SingleSeq
<1>2. Len(u) \in Nat /\ DOMAIN u = 1..Len(u)
  BY SeqIs
<1>3. /\ IsSeq(s) /\ Len(s) = 1 + Len(u) /\ DOMAIN s = 1..(1 + Len(u)) /\ s[1] = <<x>>[1]
      /\ \A i \in 1..Len(u) : s[1 + i] = u[i]
      /\ \A i \in 1..(1 + Len(u)) : i > 1 => s[i] = u[i - 1]
  BY <1>1, <1>2, Joined
<1> QED
  BY <1>1, <1>2, <1>3

LEMMA ListNone == IsList(<<>>)
  BY NoSeq DEF IsList

LEMMA ListOne ==
  ASSUME NEW r, Good(r)
  PROVE  IsList(<<r>>)
  BY SingleSeq DEF IsList

LEMMA ListJoin ==
  ASSUME NEW s, NEW t, IsList(s), IsList(t)
  PROVE  IsList(s \o t)
<1>1. IsSeq(s) /\ IsSeq(t) /\ IsSeq(s \o t)
  BY Joined DEF IsList
<1>2. ASSUME NEW i \in DOMAIN (s \o t) PROVE Good((s \o t)[i])
  BY <1>1, JoinedParts DEF IsList
<1> QED
  BY <1>1, <1>2 DEF IsList

LEMMA ListTail ==
  ASSUME NEW s, IsList(s), s # <<>>
  PROVE  Good(Head(s)) /\ IsList(Tail(s))
<1>1. /\ IsSeq(s) /\ IsSeq(Tail(s)) /\ Head(s) = s[1] /\ DOMAIN Tail(s) = 1..(Len(s) - 1)
      /\ (\A i \in 1..(Len(s) - 1) : Tail(s)[i] = s[i + 1])
      /\ Len(s) \in Nat /\ Len(s) > 0 /\ DOMAIN s = 1..Len(s)
  BY HeadTail, SeqIs DEF IsList
<1>2. ASSUME NEW i \in DOMAIN Tail(s) PROVE Good(Tail(s)[i])
  <2>1. i + 1 \in DOMAIN s /\ Tail(s)[i] = s[i + 1]
    BY <1>1
  <2> QED
    BY <2>1 DEF IsList
<1>3. 1 \in DOMAIN s
  BY <1>1
<1> QED
  BY <1>1, <1>2, <1>3 DEF IsList

LEMMA ListWithout ==
  ASSUME NEW s, IsList(s), NEW i \in DOMAIN s
  PROVE  IsList(Without(s, i))
<1>1. IsSeq(s)
  BY DEF IsList
<1> DEFINE w == Without(s, i)
<1>2. IsSeq(w) /\ \A k \in DOMAIN w : \E j \in DOMAIN s : w[k] = s[j]
  BY <1>1, WithoutIs
<1> HIDE DEF w
<1>3. IsList(w)
  BY <1>2 DEF IsList
<1> QED
  BY <1>3 DEF w

LEMMA ListWithout2 ==
  ASSUME NEW s, IsList(s), NEW i \in DOMAIN s, NEW j \in DOMAIN s, i # j
  PROVE  IsList(Without2(s, i, j))
<1>1. IsSeq(s)
  BY DEF IsList
<1> DEFINE w == Without2(s, i, j)
<1>2. IsSeq(w) /\ \A k \in DOMAIN w : \E n \in DOMAIN s : w[k] = s[n]
  BY <1>1, CountWithout2
<1> HIDE DEF w
<1>3. IsList(w)
  BY <1>2 DEF IsList
<1> QED
  BY <1>3 DEF w

LEMMA ValuesAre ==
  ASSUME NEW s, IsSeq(s)
  PROVE  IsSeq(Values(s)) /\ Len(Values(s)) = Len(s)
<1>1. Len(s) \in Nat /\ DOMAIN s = 1..Len(s)
  BY SeqIs
<1> DEFINE S == {s[i].v : i \in 1..Len(s)}
<1>2. Values(s) = [i \in 1..Len(s) |-> s[i].v]
  BY <1>1 DEF Values
<1>3. Values(s) \in Seq(S) /\ Len(Values(s)) = Len(s)
  BY <1>1, <1>2
<1> QED
  BY <1>3 DEF IsSeq

LEMMA ValuesJoin ==
  ASSUME NEW s, NEW t, IsSeq(s), IsSeq(t)
  PROVE  Values(s \o t) = Values(s) \o Values(t)
<1> DEFINE u == s \o t  a == Values(u)  b == Values(s) \o Values(t)
<1>1. /\ IsSeq(u) /\ Len(u) = Len(s) + Len(t) /\ DOMAIN u = 1..(Len(s) + Len(t))
      /\ (\A i \in 1..Len(s) : u[i] = s[i])
      /\ (\A i \in 1..(Len(s) + Len(t)) : i > Len(s) => u[i] = t[i - Len(s)])
      /\ Len(s) \in Nat /\ Len(t) \in Nat /\ DOMAIN s = 1..Len(s) /\ DOMAIN t = 1..Len(t)
  BY Joined, SeqIs
<1>2. IsSeq(Values(s)) /\ IsSeq(Values(t)) /\ Len(Values(s)) = Len(s) /\ Len(Values(t)) = Len(t)
  BY ValuesAre
<1>3. /\ IsSeq(b) /\ Len(b) = Len(s) + Len(t) /\ DOMAIN b = 1..(Len(s) + Len(t))
      /\ (\A i \in 1..Len(s) : b[i] = Values(s)[i])
      /\ (\A i \in 1..(Len(s) + Len(t)) : i > Len(s) => b[i] = Values(t)[i - Len(s)])
  BY <1>2, Joined
<1> HIDE DEF u, b
<1>4. DOMAIN a = 1..(Len(s) + Len(t)) /\ (\A i \in 1..(Len(s) + Len(t)) : a[i] = u[i].v)
      /\ (\A i \in 1..Len(s) : Values(s)[i] = s[i].v) /\ (\A i \in 1..Len(t) : Values(t)[i] = t[i].v)
  BY <1>1 DEF Values
<1>5. IsSeq(a) /\ Len(a) = Len(s) + Len(t)
  BY <1>1, ValuesAre
<1> HIDE DEF a
<1>6. ASSUME NEW i \in 1..(Len(s) + Len(t)) PROVE a[i] = b[i]
  <2>1. CASE i <= Len(s)
    BY <1>1, <1>3, <1>4, <2>1
  <2>2. CASE i > Len(s)
    <3>1. i - Len(s) \in 1..Len(t)
      BY <1>1, <2>2
    <3> QED
      BY <1>1, <1>3, <1>4, <2>2, <3>1
  <2> QED
    BY <1>1, <2>1, <2>2
<1>7. a = b
  <2>1. PICK S : a \in Seq(S)
    BY <1>5 DEF IsSeq
  <2>2. PICK T : b \in Seq(T)
    BY <1>3 DEF IsSeq
  <2> QED
    BY <1>3, <1>5, <1>6, <2>1, <2>2
<1> QED
  BY <1>7 DEF a, b, u

LEMMA ValuesOne == \A r : Values(<<r>>) = <<r.v>>
  BY DEF Values
LEMMA ValuesNone == Values(<<>>) = <<>>
  BY DEF Values

(***************************************************************************)
(* The shape of a stack.                                                   *)
(***************************************************************************)
Active == {"apply", "applyN", "grow", "body"}
Opener == {"apply", "applyN", "trampoline"}
Pass   == {"drop", "shell", "trampoline", "nested"}
Kinds  == Active \cup Pass \cup {"more"}

IsFrame(f) ==
  /\ f = Frame(f.k, f.c, f.xs) /\ f.k \in Kinds /\ IsRef(f.c) /\ IsList(f.xs)
  /\ f.k \in {"apply", "applyN", "grow"} => Part(f.c.v) /\ f.xs # <<>>
  /\ f.k = "apply" => Len(f.xs) = 1
  /\ f.k = "grow" => Len(f.c.v.args) + Len(f.xs) <= Arity[f.c.v.fn]
  /\ f.k = "more" => f.xs # <<>>
  /\ f.k = "body" => f.c.o = Null /\ Values(f.xs) = f.c.v.args /\ Len(f.xs) = Arity[f.c.v.fn]
  /\ f.k = "shell" => f.c.o \in Cells \cup Statics
  /\ f.k \in {"trampoline", "nested", "drop", "more"} => f.c = Unit
  /\ f.k = "drop" => f.xs # <<>>
  /\ f.k \in {"trampoline", "nested", "shell"} => f.xs = <<>>

\* A frame that may leave a saturated closure to the trampoline below it.
Fills(f) == f.k = "body" \/ (f.k = "grow" /\ Len(f.c.v.args) + Len(f.xs) = Arity[f.c.v.fn])

\* A trampoline gets the result of the frame above position i + 1.
Reach(s, i) == \E n \in DOMAIN s :
  i < n /\ s[n].k = "trampoline" /\ \A j \in i + 1..n - 1 : s[j].k \in {"drop", "shell"}

\* An over-application waits for the result.
Awaiting(s) == \E i \in DOMAIN s : s[i].k = "more" /\ \A j \in 1..i - 1 : s[j].k \in Pass

\* No frame is about to run anything.
Calm(s)   == \A i \in DOMAIN s : s[i].k \notin Active
\* No trampoline runs in this nested call.
Closed(s) == \A j \in DOMAIN s : s[j].k \in Opener => \E n \in 1..j - 1 : s[n].k = "nested"

Order(s)  == \A i \in DOMAIN s : s[i].k \in Active => \A j \in 1..i - 1 : s[j].k = "drop"
Bounce(s) == \A i \in DOMAIN s : Fills(s[i]) => Reach(s, i)
Flat(s)   == \A i, j \in DOMAIN s : i < j /\ s[i].k \in Opener \cup {"more"} /\ s[j].k \in Opener
               => \E n \in i + 1..j - 1 : s[n].k = "nested"
Framed(s) == IsSeq(s) /\ \A i \in DOMAIN s : IsFrame(s[i])
Sound(s)  == Framed(s) /\ Order(s) /\ Bounce(s) /\ Flat(s)

\* The result a stack may be left with: none while a frame is about to run.
Mode(s, r) == \A i \in DOMAIN s : s[i].k # "drop" /\ (\A j \in 1..i - 1 : s[j].k = "drop")
                => (s[i].k \in Active <=> r = Nothing)
Usable(s, r) ==
  /\ IsRef(r)
  /\ Sat(r.v) => Reach(s, 0)
  /\ Awaiting(s) => r.v.fn \in Fns
Fit(s, r) == Mode(s, r) /\ (r # Nothing => Usable(s, r))

LEMMA FramedCons ==
  ASSUME NEW u, IsSeq(u), NEW x
  PROVE  Framed(<<x>> \o u) <=> Framed(u) /\ IsFrame(x)
<1> DEFINE s == <<x>> \o u
<1>0. IsSeq(s)
  BY ConsIs
<1>1. /\ Len(u) \in Nat /\ DOMAIN s = 1..(Len(u) + 1) /\ DOMAIN u = 1..Len(u) /\ s[1] = x
      /\ \A i \in 1..Len(u) : s[i + 1] = u[i]
      /\ \A i \in 1..(Len(u) + 1) : i # 1 => i - 1 \in 1..Len(u) /\ s[i] = u[i - 1]
  BY ConsIs
<1> HIDE DEF s
<1>2. ASSUME Framed(s) PROVE Framed(u) /\ IsFrame(x)
  <2>1. ASSUME NEW i \in DOMAIN u PROVE IsFrame(u[i])
    <3>1. i + 1 \in DOMAIN s /\ s[i + 1] = u[i]
      BY <1>1
    <3> QED
      BY <1>2, <3>1 DEF Framed
  <2>2. 1 \in DOMAIN s
    BY <1>1
  <2> QED
    BY <1>1, <1>2, <2>1, <2>2 DEF Framed
<1>3. ASSUME Framed(u), IsFrame(x) PROVE Framed(s)
  <2>1. ASSUME NEW i \in DOMAIN s PROVE IsFrame(s[i])
    <3>1. CASE i = 1
      BY <1>1, <1>3, <3>1
    <3>2. CASE i # 1
      <4>1. i - 1 \in DOMAIN u /\ s[i] = u[i - 1]
        BY <1>1, <3>2
      <4> QED
        BY <1>3, <4>1 DEF Framed
    <3> QED
      BY <3>1, <3>2
  <2> QED
    BY <1>0, <2>1 DEF Framed
<1> QED
  BY <1>2, <1>3 DEF s

LEMMA CalmCons ==
  ASSUME NEW u, IsSeq(u), NEW x
  PROVE  Calm(<<x>> \o u) <=> Calm(u) /\ x.k \notin Active
<1> DEFINE s == <<x>> \o u
<1>1. /\ Len(u) \in Nat /\ DOMAIN s = 1..(Len(u) + 1) /\ DOMAIN u = 1..Len(u) /\ s[1] = x
      /\ \A i \in 1..Len(u) : s[i + 1] = u[i]
      /\ \A i \in 1..(Len(u) + 1) : i # 1 => i - 1 \in 1..Len(u) /\ s[i] = u[i - 1]
  BY ConsIs
<1> HIDE DEF s
<1>2. ASSUME Calm(s) PROVE Calm(u) /\ x.k \notin Active
  <2>1. ASSUME NEW i \in DOMAIN u PROVE u[i].k \notin Active
    <3>1. i + 1 \in DOMAIN s /\ s[i + 1] = u[i]
      BY <1>1
    <3> QED
      BY <1>2, <3>1 DEF Calm
  <2>2. 1 \in DOMAIN s
    BY <1>1
  <2> QED
    BY <1>1, <1>2, <2>1, <2>2 DEF Calm
<1>3. ASSUME Calm(u), x.k \notin Active PROVE Calm(s)
  <2>1. ASSUME NEW i \in DOMAIN s PROVE s[i].k \notin Active
    <3>1. CASE i = 1
      BY <1>1, <1>3, <3>1
    <3>2. CASE i # 1
      <4>1. i - 1 \in DOMAIN u /\ s[i] = u[i - 1]
        BY <1>1, <3>2
      <4> QED
        BY <1>3, <4>1 DEF Calm
    <3> QED
      BY <3>1, <3>2
  <2> QED
    BY <2>1 DEF Calm
<1> QED
  BY <1>2, <1>3 DEF s

LEMMA ClosedCons ==
  ASSUME NEW u, IsSeq(u), NEW x
  PROVE  Closed(<<x>> \o u) <=> x.k = "nested" \/ (Closed(u) /\ x.k \notin Opener)
<1> DEFINE s == <<x>> \o u
<1>1. /\ Len(u) \in Nat /\ DOMAIN s = 1..(Len(u) + 1) /\ DOMAIN u = 1..Len(u) /\ s[1] = x
      /\ \A i \in 1..Len(u) : s[i + 1] = u[i]
      /\ \A i \in 1..(Len(u) + 1) : i # 1 => i - 1 \in 1..Len(u) /\ s[i] = u[i - 1]
  BY ConsIs
<1> HIDE DEF s
<1>2. ASSUME Closed(s), x.k # "nested" PROVE Closed(u) /\ x.k \notin Opener
  <2>1. ASSUME NEW j \in DOMAIN u, u[j].k \in Opener PROVE \E n \in 1..j - 1 : u[n].k = "nested"
    <3>1. j + 1 \in DOMAIN s /\ s[j + 1] = u[j]
      BY <1>1
    <3>2. PICK n \in 1..(j + 1) - 1 : s[n].k = "nested"
      BY <1>2, <2>1, <3>1 DEF Closed
    <3>3. n # 1 /\ n \in 1..(Len(u) + 1)
      BY <1>1, <1>2, <3>2
    <3>4. n - 1 \in 1..j - 1 /\ s[n] = u[n - 1]
      BY <1>1, <3>2, <3>3
    <3> QED
      BY <3>2, <3>4
  <2>2. 1 \in DOMAIN s /\ 1..1 - 1 = {}
    BY <1>1
  <2> QED
    BY <1>1, <1>2, <2>1, <2>2 DEF Closed
<1>3. ASSUME x.k = "nested" \/ (Closed(u) /\ x.k \notin Opener) PROVE Closed(s)
  <2>1. ASSUME NEW j \in DOMAIN s, s[j].k \in Opener PROVE \E n \in 1..j - 1 : s[n].k = "nested"
    <3>1. j # 1 /\ j - 1 \in DOMAIN u /\ s[j] = u[j - 1]
      BY <1>1, <1>3, <2>1 DEF Opener
    <3>2. CASE x.k = "nested"
      <4>1. 1 \in 1..j - 1
        BY <1>1, <3>1
      <4> QED
        BY <1>1, <3>2, <4>1
    <3>3. CASE Closed(u)
      <4>1. PICK n \in 1..(j - 1) - 1 : u[n].k = "nested"
        BY <2>1, <3>1, <3>3 DEF Closed
      <4>2. n \in 1..Len(u) /\ n + 1 \in 1..j - 1
        BY <1>1, <3>1, <4>1
      <4> QED
        BY <1>1, <4>1, <4>2
    <3> QED
      BY <1>3, <3>2, <3>3
  <2> QED
    BY <2>1 DEF Closed
<1> QED
  BY <1>2, <1>3 DEF s

LEMMA ReachCons ==
  ASSUME NEW u, IsSeq(u), NEW x
  PROVE  Reach(<<x>> \o u, 0) <=> x.k = "trampoline" \/ (x.k \in {"drop", "shell"} /\ Reach(u, 0))
<1> DEFINE s == <<x>> \o u
<1>1. /\ Len(u) \in Nat /\ DOMAIN s = 1..(Len(u) + 1) /\ DOMAIN u = 1..Len(u) /\ s[1] = x
      /\ \A i \in 1..Len(u) : s[i + 1] = u[i]
      /\ \A i \in 1..(Len(u) + 1) : i # 1 => i - 1 \in 1..Len(u) /\ s[i] = u[i - 1]
  BY ConsIs
<1> HIDE DEF s
<1>2. ASSUME Reach(s, 0), x.k # "trampoline" PROVE x.k \in {"drop", "shell"} /\ Reach(u, 0)
  <2>1. PICK n \in DOMAIN s : 0 < n /\ s[n].k = "trampoline" /\ \A j \in 0 + 1..n - 1 : s[j].k \in {"drop", "shell"}
    BY <1>2 DEF Reach
  <2>2. n # 1 /\ n - 1 \in DOMAIN u /\ s[n] = u[n - 1]
    BY <1>1, <1>2, <2>1
  <2>3. 1 \in 0 + 1..n - 1 /\ 0 < n - 1
    BY <1>1, <2>1, <2>2
  <2>4. ASSUME NEW j \in 0 + 1..(n - 1) - 1 PROVE u[j].k \in {"drop", "shell"}
    <3>1. j + 1 \in 0 + 1..n - 1 /\ j \in 1..Len(u)
      BY <1>1, <2>1, <2>2
    <3> QED
      BY <1>1, <2>1, <3>1
  <2>5. Reach(u, 0)
    BY <2>1, <2>2, <2>3, <2>4 DEF Reach
  <2> QED
    BY <1>1, <2>1, <2>3, <2>5
<1>3. ASSUME x.k = "trampoline" PROVE Reach(s, 0)
  <2>1. 1 \in DOMAIN s /\ 0 < 1 /\ 0 + 1..1 - 1 = {}
    BY <1>1
  <2> QED
    BY <1>1, <1>3, <2>1 DEF Reach
<1>4. ASSUME x.k \in {"drop", "shell"}, Reach(u, 0) PROVE Reach(s, 0)
  <2>1. PICK n \in DOMAIN u : 0 < n /\ u[n].k = "trampoline" /\ \A j \in 0 + 1..n - 1 : u[j].k \in {"drop", "shell"}
    BY <1>4 DEF Reach
  <2>2. n + 1 \in DOMAIN s /\ s[n + 1] = u[n] /\ 0 < n + 1
    BY <1>1, <2>1
  <2>3. ASSUME NEW j \in 0 + 1..(n + 1) - 1 PROVE s[j].k \in {"drop", "shell"}
    <3>1. CASE j = 1
      BY <1>1, <1>4, <3>1
    <3>2. CASE j # 1
      <4>1. j \in 1..(Len(u) + 1) /\ j - 1 \in 0 + 1..n - 1
        BY <1>1, <3>2
      <4> QED
        BY <1>1, <2>1, <3>2, <4>1
    <3> QED
      BY <3>1, <3>2
  <2> QED
    BY <2>1, <2>2, <2>3 DEF Reach
<1> QED
  BY <1>2, <1>3, <1>4 DEF s

LEMMA ReachShift ==
  ASSUME NEW u, IsSeq(u), NEW x, NEW i \in DOMAIN u
  PROVE  Reach(<<x>> \o u, i + 1) <=> Reach(u, i)
<1> DEFINE s == <<x>> \o u
<1>1. /\ Len(u) \in Nat /\ DOMAIN s = 1..(Len(u) + 1) /\ DOMAIN u = 1..Len(u) /\ s[1] = x
      /\ \A k \in 1..Len(u) : s[k + 1] = u[k]
      /\ \A k \in 1..(Len(u) + 1) : k # 1 => k - 1 \in 1..Len(u) /\ s[k] = u[k - 1]
  BY ConsIs
<1> HIDE DEF s
<1>2. ASSUME Reach(s, i + 1) PROVE Reach(u, i)
  <2>1. PICK n \in DOMAIN s : i + 1 < n /\ s[n].k = "trampoline" /\ \A j \in (i + 1) + 1..n - 1 : s[j].k \in {"drop", "shell"}
    BY <1>2 DEF Reach
  <2>2. n - 1 \in DOMAIN u /\ s[n] = u[n - 1] /\ i < n - 1
    BY <1>1, <2>1
  <2>3. ASSUME NEW j \in i + 1..(n - 1) - 1 PROVE u[j].k \in {"drop", "shell"}
    <3>1. j + 1 \in (i + 1) + 1..n - 1 /\ j \in 1..Len(u)
      BY <1>1, <2>1, <2>2
    <3> QED
      BY <1>1, <2>1, <3>1
  <2> QED
    BY <2>1, <2>2, <2>3 DEF Reach
<1>3. ASSUME Reach(u, i) PROVE Reach(s, i + 1)
  <2>1. PICK n \in DOMAIN u : i < n /\ u[n].k = "trampoline" /\ \A j \in i + 1..n - 1 : u[j].k \in {"drop", "shell"}
    BY <1>3 DEF Reach
  <2>2. n + 1 \in DOMAIN s /\ s[n + 1] = u[n] /\ i + 1 < n + 1
    BY <1>1, <2>1
  <2>3. ASSUME NEW j \in (i + 1) + 1..(n + 1) - 1 PROVE s[j].k \in {"drop", "shell"}
    <3>1. j \in 1..(Len(u) + 1) /\ j # 1 /\ j - 1 \in i + 1..n - 1
      BY <1>1, <2>1
    <3> QED
      BY <1>1, <2>1, <3>1
  <2> QED
    BY <2>1, <2>2, <2>3 DEF Reach
<1> QED
  BY <1>2, <1>3 DEF s

LEMMA AwaitingCons ==
  ASSUME NEW u, IsSeq(u), NEW x
  PROVE  Awaiting(<<x>> \o u) <=> x.k = "more" \/ (x.k \in Pass /\ Awaiting(u))
<1> DEFINE s == <<x>> \o u
<1>1. /\ Len(u) \in Nat /\ DOMAIN s = 1..(Len(u) + 1) /\ DOMAIN u = 1..Len(u) /\ s[1] = x
      /\ \A i \in 1..Len(u) : s[i + 1] = u[i]
      /\ \A i \in 1..(Len(u) + 1) : i # 1 => i - 1 \in 1..Len(u) /\ s[i] = u[i - 1]
  BY ConsIs
<1> HIDE DEF s
<1>2. ASSUME Awaiting(s), x.k # "more" PROVE x.k \in Pass /\ Awaiting(u)
  <2>1. PICK n \in DOMAIN s : s[n].k = "more" /\ \A j \in 1..n - 1 : s[j].k \in Pass
    BY <1>2 DEF Awaiting
  <2>2. n # 1 /\ n - 1 \in DOMAIN u /\ s[n] = u[n - 1]
    BY <1>1, <1>2, <2>1
  <2>3. 1 \in 1..n - 1
    BY <1>1, <2>1, <2>2
  <2>4. ASSUME NEW j \in 1..(n - 1) - 1 PROVE u[j].k \in Pass
    <3>1. j + 1 \in 1..n - 1 /\ j \in 1..Len(u)
      BY <1>1, <2>1, <2>2
    <3> QED
      BY <1>1, <2>1, <3>1
  <2>5. Awaiting(u)
    BY <2>1, <2>2, <2>3, <2>4 DEF Awaiting
  <2> QED
    BY <1>1, <2>1, <2>3, <2>5
<1>3. ASSUME x.k = "more" PROVE Awaiting(s)
  <2>1. 1 \in DOMAIN s /\ 1..1 - 1 = {}
    BY <1>1
  <2> QED
    BY <1>1, <1>3, <2>1 DEF Awaiting
<1>4. ASSUME x.k \in Pass, Awaiting(u) PROVE Awaiting(s)
  <2>1. PICK n \in DOMAIN u : u[n].k = "more" /\ \A j \in 1..n - 1 : u[j].k \in Pass
    BY <1>4 DEF Awaiting
  <2>2. n + 1 \in DOMAIN s /\ s[n + 1] = u[n]
    BY <1>1, <2>1
  <2>3. ASSUME NEW j \in 1..(n + 1) - 1 PROVE s[j].k \in Pass
    <3>1. CASE j = 1
      BY <1>1, <1>4, <3>1
    <3>2. CASE j # 1
      <4>1. j \in 1..(Len(u) + 1) /\ j - 1 \in 1..n - 1
        BY <1>1, <3>2
      <4> QED
        BY <1>1, <2>1, <3>2, <4>1
    <3> QED
      BY <3>1, <3>2
  <2> QED
    BY <2>1, <2>2, <2>3 DEF Awaiting
<1> QED
  BY <1>2, <1>3, <1>4 DEF s

LEMMA OrderCons ==
  ASSUME NEW u, IsSeq(u), NEW x
  PROVE  Order(<<x>> \o u) <=> Order(u) /\ (x.k # "drop" => Calm(u))
<1> DEFINE s == <<x>> \o u
<1>1. /\ Len(u) \in Nat /\ DOMAIN s = 1..(Len(u) + 1) /\ DOMAIN u = 1..Len(u) /\ s[1] = x
      /\ \A i \in 1..Len(u) : s[i + 1] = u[i]
      /\ \A i \in 1..(Len(u) + 1) : i # 1 => i - 1 \in 1..Len(u) /\ s[i] = u[i - 1]
  BY ConsIs
<1> HIDE DEF s
<1>2. ASSUME Order(s) PROVE Order(u) /\ (x.k # "drop" => Calm(u))
  <2>1. ASSUME NEW i \in DOMAIN u, u[i].k \in Active
        PROVE  x.k = "drop" /\ \A j \in 1..i - 1 : u[j].k = "drop"
    <3>1. i + 1 \in DOMAIN s /\ s[i + 1].k \in Active /\ 1 \in 1..(i + 1) - 1
      BY <1>1, <2>1
    <3>2. \A j \in 1..(i + 1) - 1 : s[j].k = "drop"
      BY <1>2, <3>1 DEF Order
    <3>3. ASSUME NEW j \in 1..i - 1 PROVE u[j].k = "drop"
      <4>1. j + 1 \in 1..(i + 1) - 1 /\ j \in 1..Len(u)
        BY <1>1
      <4> QED
        BY <1>1, <3>2, <4>1
    <3> QED
      BY <1>1, <3>1, <3>2, <3>3
  <2> QED
    BY <2>1 DEF Order, Calm
<1>3. ASSUME Order(u), x.k # "drop" => Calm(u) PROVE Order(s)
  <2>1. ASSUME NEW i \in DOMAIN s, s[i].k \in Active, NEW j \in 1..i - 1 PROVE s[j].k = "drop"
    <3>1. i # 1 /\ i - 1 \in DOMAIN u /\ s[i] = u[i - 1] /\ j \in 1..(Len(u) + 1)
      BY <1>1, <2>1
    <3>2. CASE j = 1
      BY <1>1, <1>3, <2>1, <3>1, <3>2 DEF Calm
    <3>3. CASE j # 1
      <4>1. j - 1 \in 1..(i - 1) - 1 /\ s[j] = u[j - 1]
        BY <1>1, <3>1, <3>3
      <4> QED
        BY <1>3, <2>1, <3>1, <4>1 DEF Order
    <3> QED
      BY <3>2, <3>3
  <2> QED
    BY <2>1 DEF Order
<1> QED
  BY <1>2, <1>3 DEF s

LEMMA BounceCons ==
  ASSUME NEW u, IsSeq(u), NEW x
  PROVE  Bounce(<<x>> \o u) <=> Bounce(u) /\ (Fills(x) => Reach(u, 0))
<1> DEFINE s == <<x>> \o u
<1>1. /\ Len(u) \in Nat /\ DOMAIN s = 1..(Len(u) + 1) /\ DOMAIN u = 1..Len(u) /\ s[1] = x
      /\ \A i \in 1..Len(u) : s[i + 1] = u[i]
      /\ \A i \in 1..(Len(u) + 1) : i # 1 => i - 1 \in 1..Len(u) /\ s[i] = u[i - 1]
  BY ConsIs
<1>2. \A i \in DOMAIN u : Reach(s, i + 1) <=> Reach(u, i)
  BY ReachShift
<1> HIDE DEF s
<1>3. Reach(s, 1) <=> Reach(u, 0)
  <2>1. ASSUME Reach(s, 1) PROVE Reach(u, 0)
    <3>1. PICK n \in DOMAIN s : 1 < n /\ s[n].k = "trampoline" /\ \A j \in 1 + 1..n - 1 : s[j].k \in {"drop", "shell"}
      BY <2>1 DEF Reach
    <3>2. n - 1 \in DOMAIN u /\ s[n] = u[n - 1] /\ 0 < n - 1
      BY <1>1, <3>1
    <3>3. ASSUME NEW j \in 0 + 1..(n - 1) - 1 PROVE u[j].k \in {"drop", "shell"}
      <4>1. j + 1 \in 1 + 1..n - 1 /\ j \in 1..Len(u)
        BY <1>1, <3>1, <3>2
      <4> QED
        BY <1>1, <3>1, <4>1
    <3> QED
      BY <3>1, <3>2, <3>3 DEF Reach
  <2>2. ASSUME Reach(u, 0) PROVE Reach(s, 1)
    <3>1. PICK n \in DOMAIN u : 0 < n /\ u[n].k = "trampoline" /\ \A j \in 0 + 1..n - 1 : u[j].k \in {"drop", "shell"}
      BY <2>2 DEF Reach
    <3>2. n + 1 \in DOMAIN s /\ s[n + 1] = u[n] /\ 1 < n + 1
      BY <1>1, <3>1
    <3>3. ASSUME NEW j \in 1 + 1..(n + 1) - 1 PROVE s[j].k \in {"drop", "shell"}
      <4>1. j \in 1..(Len(u) + 1) /\ j # 1 /\ j - 1 \in 0 + 1..n - 1
        BY <1>1, <3>1
      <4> QED
        BY <1>1, <3>1, <4>1
    <3> QED
      BY <3>1, <3>2, <3>3 DEF Reach
  <2> QED
    BY <2>1, <2>2
<1>4. ASSUME Bounce(s) PROVE Bounce(u) /\ (Fills(x) => Reach(u, 0))
  <2>1. ASSUME NEW i \in DOMAIN u, Fills(u[i]) PROVE Reach(u, i)
    <3>1. i + 1 \in DOMAIN s /\ s[i + 1] = u[i]
      BY <1>1
    <3> QED
      BY <1>2, <1>4, <2>1, <3>1 DEF Bounce
  <2>2. 1 \in DOMAIN s
    BY <1>1
  <2> QED
    BY <1>1, <1>3, <1>4, <2>1, <2>2 DEF Bounce
<1>5. ASSUME Bounce(u), Fills(x) => Reach(u, 0) PROVE Bounce(s)
  <2>1. ASSUME NEW i \in DOMAIN s, Fills(s[i]) PROVE Reach(s, i)
    <3>1. CASE i = 1
      BY <1>1, <1>3, <1>5, <2>1, <3>1
    <3>2. CASE i # 1
      <4>1. i - 1 \in DOMAIN u /\ s[i] = u[i - 1] /\ (i - 1) + 1 = i
        BY <1>1, <3>2
      <4> QED
        BY <1>2, <1>5, <2>1, <4>1 DEF Bounce
    <3> QED
      BY <3>1, <3>2
  <2> QED
    BY <2>1 DEF Bounce
<1> QED
  BY <1>4, <1>5 DEF s

LEMMA FlatCons ==
  ASSUME NEW u, IsSeq(u), NEW x
  PROVE  Flat(<<x>> \o u) <=> Flat(u) /\ (x.k \in Opener \cup {"more"} => Closed(u))
<1> DEFINE s == <<x>> \o u
<1>1. /\ Len(u) \in Nat /\ DOMAIN s = 1..(Len(u) + 1) /\ DOMAIN u = 1..Len(u) /\ s[1] = x
      /\ \A i \in 1..Len(u) : s[i + 1] = u[i]
      /\ \A i \in 1..(Len(u) + 1) : i # 1 => i - 1 \in 1..Len(u) /\ s[i] = u[i - 1]
  BY ConsIs
<1> HIDE DEF s
<1>2. ASSUME Flat(s) PROVE Flat(u) /\ (x.k \in Opener \cup {"more"} => Closed(u))
  <2>1. ASSUME NEW i \in DOMAIN u, NEW j \in DOMAIN u, i < j, u[i].k \in Opener \cup {"more"}, u[j].k \in Opener
        PROVE  \E n \in i + 1..j - 1 : u[n].k = "nested"
    <3>1. i + 1 \in DOMAIN s /\ j + 1 \in DOMAIN s /\ i + 1 < j + 1 /\ s[i + 1] = u[i] /\ s[j + 1] = u[j]
      BY <1>1, <2>1
    <3>2. PICK n \in (i + 1) + 1..(j + 1) - 1 : s[n].k = "nested"
      BY <1>2, <2>1, <3>1 DEF Flat
    <3>3. n \in 1..(Len(u) + 1) /\ n # 1 /\ n - 1 \in i + 1..j - 1
      BY <1>1, <3>2
    <3> QED
      BY <1>1, <3>2, <3>3
  <2>2. ASSUME x.k \in Opener \cup {"more"}, NEW j \in DOMAIN u, u[j].k \in Opener
        PROVE  \E n \in 1..j - 1 : u[n].k = "nested"
    <3>1. 1 \in DOMAIN s /\ j + 1 \in DOMAIN s /\ 1 < j + 1 /\ s[1] = x /\ s[j + 1] = u[j]
      BY <1>1
    <3>2. PICK n \in 1 + 1..(j + 1) - 1 : s[n].k = "nested"
      BY <1>2, <2>2, <3>1 DEF Flat
    <3>3. n \in 1..(Len(u) + 1) /\ n # 1 /\ n - 1 \in 1..j - 1
      BY <1>1, <3>2
    <3> QED
      BY <1>1, <3>2, <3>3
  <2> QED
    BY <2>1, <2>2 DEF Flat, Closed
<1>3. ASSUME Flat(u), x.k \in Opener \cup {"more"} => Closed(u) PROVE Flat(s)
  <2>1. ASSUME NEW i \in DOMAIN s, NEW j \in DOMAIN s, i < j, s[i].k \in Opener \cup {"more"}, s[j].k \in Opener
        PROVE  \E n \in i + 1..j - 1 : s[n].k = "nested"
    <3>1. j # 1 /\ j - 1 \in DOMAIN u /\ s[j] = u[j - 1]
      BY <1>1, <2>1
    <3>2. CASE i = 1
      <4>1. PICK n \in 1..(j - 1) - 1 : u[n].k = "nested"
        BY <1>1, <1>3, <2>1, <3>1, <3>2 DEF Closed
      <4>2. n \in 1..Len(u) /\ n + 1 \in i + 1..j - 1
        BY <1>1, <3>1, <3>2, <4>1
      <4> QED
        BY <1>1, <4>1, <4>2
    <3>3. CASE i # 1
      <4>1. i - 1 \in DOMAIN u /\ s[i] = u[i - 1] /\ i - 1 < j - 1
        BY <1>1, <2>1, <3>3
      <4>2. PICK n \in (i - 1) + 1..(j - 1) - 1 : u[n].k = "nested"
        BY <1>3, <2>1, <3>1, <4>1 DEF Flat
      <4>3. n \in 1..Len(u) /\ n + 1 \in i + 1..j - 1
        BY <1>1, <3>1, <4>1, <4>2
      <4> QED
        BY <1>1, <4>2, <4>3
    <3> QED
      BY <3>2, <3>3
  <2> QED
    BY <2>1 DEF Flat
<1> QED
  BY <1>2, <1>3 DEF s

LEMMA SoundCons ==
  ASSUME NEW u, IsSeq(u), NEW x
  PROVE  Sound(<<x>> \o u) <=>
           /\ Sound(u) /\ IsFrame(x) /\ (x.k # "drop" => Calm(u)) /\ (Fills(x) => Reach(u, 0))
           /\ (x.k \in Opener \cup {"more"} => Closed(u))
BY FramedCons, OrderCons, BounceCons, FlatCons DEF Sound

LEMMA ModeCons ==
  ASSUME NEW u, IsSeq(u), NEW x, NEW r
  PROVE  Mode(<<x>> \o u, r) <=> IF x.k = "drop" THEN Mode(u, r) ELSE (x.k \in Active <=> r = Nothing)
<1> DEFINE s == <<x>> \o u
<1>1. /\ Len(u) \in Nat /\ DOMAIN s = 1..(Len(u) + 1) /\ DOMAIN u = 1..Len(u) /\ s[1] = x
      /\ \A i \in 1..Len(u) : s[i + 1] = u[i]
      /\ \A i \in 1..(Len(u) + 1) : i # 1 => i - 1 \in 1..Len(u) /\ s[i] = u[i - 1]
  BY ConsIs
<1> HIDE DEF s
<1>2. ASSUME Mode(s, r), x.k = "drop" PROVE Mode(u, r)
  <2>1. ASSUME NEW i \in DOMAIN u, u[i].k # "drop", \A j \in 1..i - 1 : u[j].k = "drop"
        PROVE  u[i].k \in Active <=> r = Nothing
    <3>1. i + 1 \in DOMAIN s /\ s[i + 1] = u[i]
      BY <1>1
    <3>2. ASSUME NEW j \in 1..(i + 1) - 1 PROVE s[j].k = "drop"
      <4>1. CASE j = 1
        BY <1>1, <1>2, <4>1
      <4>2. CASE j # 1
        <5>1. j \in 1..(Len(u) + 1) /\ j - 1 \in 1..i - 1
          BY <1>1, <4>2
        <5> QED
          BY <1>1, <2>1, <4>2, <5>1
      <4> QED
        BY <4>1, <4>2
    <3> QED
      BY <1>2, <2>1, <3>1, <3>2 DEF Mode
  <2> QED
    BY <2>1 DEF Mode
<1>3. ASSUME Mode(s, r), x.k # "drop" PROVE x.k \in Active <=> r = Nothing
  <2>1. 1 \in DOMAIN s /\ 1..1 - 1 = {}
    BY <1>1
  <2> QED
    BY <1>1, <1>3, <2>1 DEF Mode
<1>4. ASSUME IF x.k = "drop" THEN Mode(u, r) ELSE (x.k \in Active <=> r = Nothing) PROVE Mode(s, r)
  <2>1. ASSUME NEW i \in DOMAIN s, s[i].k # "drop", \A j \in 1..i - 1 : s[j].k = "drop"
        PROVE  s[i].k \in Active <=> r = Nothing
    <3>1. CASE i = 1
      BY <1>1, <1>4, <2>1, <3>1
    <3>2. CASE i # 1
      <4>1. 1 \in 1..i - 1 /\ i - 1 \in DOMAIN u /\ s[i] = u[i - 1]
        BY <1>1, <3>2
      <4>2. x.k = "drop"
        BY <1>1, <2>1, <4>1
      <4>3. ASSUME NEW j \in 1..(i - 1) - 1 PROVE u[j].k = "drop"
        <5>1. j + 1 \in 1..i - 1 /\ j \in 1..Len(u)
          BY <1>1, <4>1
        <5> QED
          BY <1>1, <2>1, <5>1
      <4> QED
        BY <1>4, <2>1, <4>1, <4>2, <4>3 DEF Mode
    <3> QED
      BY <3>1, <3>2
  <2> QED
    BY <2>1 DEF Mode
<1> QED
  BY <1>2, <1>3, <1>4 DEF s

LEMMA FitActive ==
  ASSUME NEW u, IsSeq(u), NEW x, x.k \in Active, NEW r
  PROVE  Fit(<<x>> \o u, r) <=> r = Nothing
<1>1. x.k # "drop"
  BY DEF Active
<1> QED
  BY <1>1, ModeCons DEF Fit

LEMMA FitDrop ==
  ASSUME NEW u, IsSeq(u), NEW x, x.k = "drop", NEW r
  PROVE  Fit(<<x>> \o u, r) <=> Fit(u, r)
<1>1. Reach(<<x>> \o u, 0) <=> Reach(u, 0)
  BY ReachCons
<1>2. Awaiting(<<x>> \o u) <=> Awaiting(u)
  BY AwaitingCons DEF Pass
<1>3. Mode(<<x>> \o u, r) <=> Mode(u, r)
  BY ModeCons
<1> QED
  BY <1>1, <1>2, <1>3 DEF Fit, Usable

LEMMA FitPassive ==
  ASSUME NEW u, IsSeq(u), NEW x, x.k \notin Active \cup {"drop"}, NEW r, Fit(<<x>> \o u, r)
  PROVE  r # Nothing /\ Usable(<<x>> \o u, r)
BY ModeCons DEF Fit

LEMMA FitCalm ==
  ASSUME NEW u, Calm(u), NEW r, r # Nothing, Usable(u, r)
  PROVE  Fit(u, r)
BY DEF Calm, Fit, Mode

LEMMA LeastOf ==
  ASSUME NEW S \in SUBSET Nat, S # {}
  PROVE  \E m \in S : \A n \in S : m <= n
<1>1. \E m \in S : \A n \in S : ~(<<n, m>> \in OpToRel(<, Nat))
  BY NatLessThanWellFounded, WFMin
<1>2. \E m \in S : \A n \in S : ~(n < m)
  BY <1>1 DEF OpToRel
<1> QED
  BY <1>2

KindAt(s, k) == {i \in DOMAIN s : s[i].k = k}

\* Each opener but the last one has a nested call of its own after it.
LEMMA FlatBound ==
  ASSUME NEW s, IsSeq(s), Flat(s)
  PROVE  Cardinality(KindAt(s, "trampoline") \cup KindAt(s, "apply")) <= 1 + Cardinality(KindAt(s, "nested"))
<1> DEFINE O == KindAt(s, "trampoline") \cup KindAt(s, "apply")
           N == KindAt(s, "nested")
           A == {i \in O : \E j \in O : i < j}
           Own(i, n) == i < n /\ \A j \in O : i < j => n < j
           f == [i \in A |-> CHOOSE n \in N : Own(i, n)]
<1>1. Len(s) \in Nat /\ DOMAIN s = 1..Len(s) /\ O \subseteq 1..Len(s) /\ N \subseteq 1..Len(s)
  BY SeqIs DEF KindAt
<1>2. IsFiniteSet(O) /\ IsFiniteSet(N)
  <2>1. IsFiniteSet(1..Len(s))
    BY <1>1, FS_Interval
  <2> QED
    BY <1>1, <2>1, FS_Subset
<1>3. \A i, j \in O : i < j => \E n \in N : i < n /\ n < j
  <2> SUFFICES ASSUME NEW i \in O, NEW j \in O, i < j PROVE \E n \in N : i < n /\ n < j
    OBVIOUS
  <2>1. i \in DOMAIN s /\ j \in DOMAIN s /\ s[i].k \in Opener \cup {"more"} /\ s[j].k \in Opener
    BY DEF KindAt, Opener
  <2>2. PICK n \in i + 1..j - 1 : s[n].k = "nested"
    BY <2>1 DEF Flat
  <2>3. n \in 1..Len(s) /\ i < n /\ n < j
    BY <1>1, <2>2
  <2> QED
    BY <1>1, <2>2, <2>3 DEF KindAt
<1> HIDE DEF O, N
<1>4. ASSUME NEW i \in A PROVE \E n \in N : Own(i, n)
  <2> DEFINE L == {j \in O : i < j}
  <2>0. i \in O /\ O \subseteq Nat /\ \E j \in O : i < j
    BY <1>1
  <2>1. L \subseteq Nat /\ L # {} /\ i \in O
    BY <2>0
  <2>2. PICK m \in L : \A j \in L : m <= j
    BY <2>1, LeastOf
  <2>3. PICK n \in N : i < n /\ n < m
    BY <1>3, <2>1, <2>2
  <2>4. ASSUME NEW j \in O, i < j PROVE n < j
    BY <1>1, <2>2, <2>3, <2>4
  <2> QED
    BY <2>3, <2>4
<1>5. \A i \in A : f[i] \in N /\ Own(i, f[i])
  BY <1>4
<1> HIDE DEF f
<1>6. ASSUME NEW i \in A, NEW j \in A, f[i] = f[j] PROVE i = j
  <2>1. i \in O /\ j \in O /\ f[i] \in N
    BY <1>5
  <2>3. i < f[i] /\ (i < j => f[i] < j) /\ j < f[j] /\ (j < i => f[j] < i)
    BY <1>5, <2>1
  <2>0. O \subseteq Nat /\ N \subseteq Nat
    BY <1>1
  <2>4. i \in Nat /\ j \in Nat /\ f[i] \in Nat
    BY <2>0, <2>1
  <2>2. ~(i < j) /\ ~(j < i)
    BY <1>6, <2>3, <2>4
  <2> QED
    BY <1>1, <2>1, <2>2
<1>7. f \in Injection(A, N)
  <2>1. f = [i \in A |-> f[i]]
    BY DEF f
  <2> QED
    BY <1>5, <1>6, <2>1 DEF Injection, IsInjective
<1>8. IsFiniteSet(A) /\ Cardinality(A) <= Cardinality(N)
  BY <1>2, <1>7, FS_Injection
<1>9. IsFiniteSet(O \ A) /\ Cardinality(O \ A) <= 1
  <2>1. IsFiniteSet(O \ A)
    BY <1>2, FS_Subset
  <2>2. CASE O \ A = {}
    BY <2>1, <2>2, FS_EmptySet
  <2>3. CASE O \ A # {}
    <3>1. PICK z \in O \ A : TRUE
      BY <2>3
    <3>2. ASSUME NEW y \in O \ A PROVE y = z
      <4>1. ~(y < z) /\ ~(z < y)
        BY <3>1
      <4>2. y \in Nat /\ z \in Nat
        BY <1>1, <3>1
      <4> QED
        BY <4>1, <4>2
    <3>3. O \ A = {z}
      BY <3>1, <3>2
    <3> HIDE DEF A
    <3> QED
      BY <2>1, <3>3, FS_Singleton
  <2> QED
    BY <2>2, <2>3
<1>10. Cardinality(O) = Cardinality(A) + Cardinality(O \ A)
  <2>1. O = A \cup (O \ A) /\ A \cap (O \ A) = {}
    OBVIOUS
  <2> HIDE DEF A
  <2> QED
    BY <1>8, <1>9, <2>1, DisjointSum
<1>11. Cardinality(A) \in Nat /\ Cardinality(O \ A) \in Nat /\ Cardinality(N) \in Nat
  BY <1>2, <1>8, <1>9, FS_CardinalityType
<1> HIDE DEF A
<1>12. Cardinality(O) <= 1 + Cardinality(N)
  BY <1>8, <1>9, <1>10, <1>11
<1> QED
  BY <1>12 DEF O, N

(***************************************************************************)
(* A frame that drops a list, or none when the list is empty.              *)
(***************************************************************************)
Dropped(x) == Frame("drop", Unit, x)

LEMMA UnitIs == IsRef(Unit) /\ Good(Unit) /\ Nothing.o \notin Objects \cup {Null} /\ ~IsRef(Nothing) /\ Unit # Nothing
<1>1. Unit.o = Null /\ Unit.v.fn = Null /\ Unit = [o |-> Unit.o, v |-> Unit.v]
  BY DEF Unit
<1>2. Null \notin Fns
  BY ClosureConstants
<1>3. Nothing.o = "-" /\ "-" \notin Objects /\ Null # "-"
  BY ClosureConstants DEF Nothing, Null
<1> QED
  BY <1>1, <1>2, <1>3 DEF IsRef, Good, Sat

LEMMA DropIs ==
  ASSUME NEW l
  PROVE  \/ l = <<>> /\ Drop(l) = <<>>
         \/ l # <<>> /\ Drop(l) = <<Dropped(l)>>
BY DEF Drop, Dropped

LEMMA DropSeq ==
  ASSUME NEW l
  PROVE  IsSeq(Drop(l))
BY DropIs, NoSeq, SingleSeq

LEMMA DropFrame ==
  ASSUME NEW l, IsList(l), l # <<>>
  PROVE  IsFrame(Dropped(l)) /\ Dropped(l).k = "drop" /\ Dropped(l).xs = l /\ Dropped(l).c = Unit
<1>1. Dropped(l).k = "drop" /\ Dropped(l).xs = l /\ Dropped(l).c = Unit /\ Dropped(l) = Frame("drop", Unit, l)
  BY DEF Dropped, Frame
<1> QED
  BY <1>1, UnitIs DEF IsFrame, Kinds, Pass

LEMMA DropOn ==
  ASSUME NEW l, IsList(l), NEW u, IsSeq(u), NEW r
  PROVE  /\ Sound(Drop(l) \o u) <=> Sound(u)
         /\ Fit(Drop(l) \o u, r) <=> Fit(u, r)
         /\ Reach(Drop(l) \o u, 0) <=> Reach(u, 0)
         /\ Calm(Drop(l) \o u) <=> Calm(u)
         /\ Closed(Drop(l) \o u) <=> Closed(u)
         /\ IsSeq(Drop(l) \o u)
<1>1. CASE l = <<>>
  <2>1. Drop(l) \o u = u
    BY <1>1, JoinNone DEF Drop
  <2> QED
    BY <2>1
<1>2. CASE l # <<>>
  <2> DEFINE x == Dropped(l)
  <2>1. Drop(l) \o u = <<x>> \o u
    BY <1>2, DropIs
  <2>2. x.k = "drop" /\ IsFrame(x) /\ ~Fills(x) /\ x.k \notin Active /\ x.k \notin Opener \cup {"more"}
    BY <1>2, DropFrame DEF Fills, Active, Opener
  <2> HIDE DEF x
  <2>3. Sound(<<x>> \o u) <=> Sound(u)
    BY <2>2, SoundCons
  <2>4. Fit(<<x>> \o u, r) <=> Fit(u, r)
    BY <2>2, FitDrop
  <2>5. Reach(<<x>> \o u, 0) <=> Reach(u, 0)
    BY <2>2, ReachCons
  <2>6. Calm(<<x>> \o u) <=> Calm(u)
    BY <2>2, CalmCons
  <2>7. Closed(<<x>> \o u) <=> Closed(u)
    BY <2>2, ClosedCons
  <2>8. IsSeq(<<x>> \o u)
    BY ConsIs
  <2> QED
    BY <2>1, <2>3, <2>4, <2>5, <2>6, <2>7, <2>8
<1> QED
  BY <1>1, <1>2

(***************************************************************************)
(* The references there are: to the state's variables, as arguments.       *)
(***************************************************************************)
ShellsOf(s) == {s[i].c.o : i \in {i \in DOMAIN s : s[i].k = "shell"}}
TakenIn(st) == Cells \cap UNION {ShellsOf(st[t]) : t \in Threads}

UsesIn(b, s, r, o)     == Tagged(<<HandUses(b, o), FrameUses(s, o), Slots(<<r>>, o)>>)
CellRefs(tk, h, c, o)  == IF c \in tk THEN {} ELSE Slots(h[c].args, o)
ThreadRefs(hd, st, rt, o) == [t \in Threads |-> UsesIn(hd[t], st[t], rt[t], o)]
HeapRefs(tk, h, o)     == [c \in Cells |-> CellRefs(tk, h, c, o)]
RefsIn(hd, st, rt, h, o) == Total(ThreadRefs(hd, st, rt, o)) + Total(HeapRefs(TakenIn(st), h, o))

Hold(b, s, r, o)         == HandCount(b, o) + StackCount(s, o) + One(r, o)
CellCount(tk, h, c, o)   == Cardinality(CellRefs(tk, h, c, o))

Shape(hd, st, h) ==
  /\ \A t \in Threads : IsHand(hd[t]) /\ IsStack(st[t])
  /\ \A c \in Cells : IsSeq(h[c].args)

LEMMA TaggedZero ==
  ASSUME NEW f, Finites(f), Total(f) = 0, NEW x \in DOMAIN f
  PROVE  f[x] = {} /\ Cardinality(f[x]) = 0
<1>1. Tagged(f) = {}
  BY TaggedFinite, FS_EmptySet DEF Total
<1>2. f[x] = {}
  <2> SUFFICES ASSUME NEW y \in f[x] PROVE FALSE
    OBVIOUS
  <2>1. <<x, y>> \in {x} \X f[x]
    OBVIOUS
  <2>2. <<x, y>> \in Tagged(f)
    BY <2>1 DEF Tagged
  <2> QED
    BY <1>1, <2>2
<1> QED
  BY <1>2, FS_EmptySet

LEMMA CountZero ==
  ASSUME NEW s, IsSeq(s), NEW o, Count(s, o) = 0, NEW i \in DOMAIN s
  PROVE  s[i].o # o
<1>1. Slots(s, o) = {}
  BY CountIs, FS_EmptySet DEF Count
<1> QED
  BY <1>1 DEF Slots

LEMMA HandZero ==
  ASSUME NEW b, IsHand(b), NEW o, HandCount(b, o) = 0, NEW q \in DOMAIN b
  PROVE  q.o # o
<1> SUFFICES ASSUME q.o = o PROVE FALSE
  OBVIOUS
<1> DEFINE f == HandFamily(b, o)
<1>1. q \in DOMAIN f /\ f[q] = 1..b[q] /\ b[q] \in Nat \ {0}
  BY DEF HandFamily, IsHand
<1>2. Finites(f) /\ Total(f) = 0
  BY HandFinite DEF HandCount
<1> HIDE DEF f
<1>3. f[q] = {}
  BY <1>1, <1>2, TaggedZero
<1>4. 1 \in f[q]
  BY <1>1
<1> QED
  BY <1>3, <1>4

LEMMA StackZero ==
  ASSUME NEW s, IsStack(s), NEW o, StackCount(s, o) = 0, NEW i \in DOMAIN s
  PROVE  FrameCount(s[i], o) = 0 /\ \A j \in DOMAIN FrameRefs(s[i]) : FrameRefs(s[i])[j].o # o
<1> DEFINE f == StackFamily(s, o)
<1>1. i \in DOMAIN f /\ f[i] = Slots(FrameRefs(s[i]), o) /\ IsSeq(FrameRefs(s[i]))
  BY DEF StackFamily, IsStack
<1>2. Finites(f) /\ Total(f) = 0
  BY StackFinite DEF StackCount
<1> HIDE DEF f
<1>3. Count(FrameRefs(s[i]), o) = 0
  BY <1>1, <1>2, TaggedZero DEF Count
<1>4. \A j \in DOMAIN FrameRefs(s[i]) : FrameRefs(s[i])[j].o # o
  BY <1>1, <1>3, CountZero
<1> QED
  BY <1>3, <1>4 DEF FrameCount

LEMMA HoldIs ==
  ASSUME NEW b, NEW s, NEW r, NEW o, IsHand(b), IsStack(s)
  PROVE  /\ IsFiniteSet(UsesIn(b, s, r, o)) /\ Cardinality(UsesIn(b, s, r, o)) = Hold(b, s, r, o)
         /\ HandCount(b, o) \in Nat /\ StackCount(s, o) \in Nat /\ One(r, o) \in Nat /\ Hold(b, s, r, o) \in Nat
<1>1. HandCount(b, o) \in Nat /\ StackCount(s, o) \in Nat /\ One(r, o) \in Nat
  BY HandFinite, StackFinite DEF One
<1> DEFINE x == UsesIn(b, s, r, o)
<1>2. IsFiniteSet(x) /\ Cardinality(x) = HandCount(b, o) + StackCount(s, o) + One(r, o)
  <2>1. x = Tagged(<<HandUses(b, o), FrameUses(s, o), Slots(<<r>>, o)>>)
    BY DEF UsesIn
  <2> HIDE DEF x
  <2> QED
    BY <2>1, UsesCount
<1> HIDE DEF x
<1> QED
  BY <1>1, <1>2 DEF Hold, x

LEMMA CellIs ==
  ASSUME NEW tk, NEW h, NEW c, NEW o, IsSeq(h[c].args)
  PROVE  /\ IsFiniteSet(CellRefs(tk, h, c, o)) /\ CellCount(tk, h, c, o) \in Nat
         /\ CellCount(tk, h, c, o) = IF c \in tk THEN 0 ELSE Count(h[c].args, o)
<1>1. CASE c \in tk
  BY <1>1, FS_EmptySet DEF CellRefs, CellCount
<1>2. CASE c \notin tk
  <2>1. CellRefs(tk, h, c, o) = Slots(h[c].args, o)
    BY <1>2 DEF CellRefs
  <2>2. IsFiniteSet(Slots(h[c].args, o)) /\ Count(h[c].args, o) \in Nat
    BY CountIs
  <2> QED
    BY <1>2, <2>1, <2>2 DEF CellCount, Count
<1> QED
  BY <1>1, <1>2

LEMMA FamiliesAre ==
  ASSUME NEW hd, NEW st, NEW rt, NEW h, NEW o, Shape(hd, st, h)
  PROVE  /\ Finites(ThreadRefs(hd, st, rt, o)) /\ DOMAIN ThreadRefs(hd, st, rt, o) = Threads
         /\ Finites(HeapRefs(TakenIn(st), h, o)) /\ DOMAIN HeapRefs(TakenIn(st), h, o) = Cells
         /\ Total(ThreadRefs(hd, st, rt, o)) \in Nat /\ Total(HeapRefs(TakenIn(st), h, o)) \in Nat
         /\ \A t \in Threads : Cardinality(ThreadRefs(hd, st, rt, o)[t]) = Hold(hd[t], st[t], rt[t], o)
         /\ \A c \in Cells : HeapRefs(TakenIn(st), h, o)[c] = CellRefs(TakenIn(st), h, c, o)
<1> DEFINE f == ThreadRefs(hd, st, rt, o)  g == HeapRefs(TakenIn(st), h, o)
<1>1. DOMAIN f = Threads /\ (\A t \in Threads : f[t] = UsesIn(hd[t], st[t], rt[t], o))
  BY DEF ThreadRefs
<1>2. DOMAIN g = Cells /\ (\A c \in Cells : g[c] = CellRefs(TakenIn(st), h, c, o))
  BY DEF HeapRefs
<1> HIDE DEF f, g
<1>3. \A t \in Threads : IsFiniteSet(f[t]) /\ Cardinality(f[t]) = Hold(hd[t], st[t], rt[t], o)
  BY <1>1, HoldIs DEF Shape
<1>4. \A c \in Cells : IsFiniteSet(g[c])
  BY <1>2, CellIs DEF Shape
<1>5. Finites(f) /\ Finites(g)
  BY <1>1, <1>2, <1>3, <1>4, ClosureConstants DEF Finites
<1>6. Total(f) \in Nat /\ Total(g) \in Nat
  BY <1>5, TaggedFinite
<1> QED
  BY <1>1, <1>2, <1>3, <1>5, <1>6 DEF f, g

\* No more references than a thread has: nobody else has any.
LEMMA RefsApart ==
  ASSUME NEW hd, NEW st, NEW rt, NEW h, NEW o, Shape(hd, st, h), NEW t \in Threads
  PROVE  /\ RefsIn(hd, st, rt, h, o) \in Nat /\ Hold(hd[t], st[t], rt[t], o) <= RefsIn(hd, st, rt, h, o)
         /\ RefsIn(hd, st, rt, h, o) <= Hold(hd[t], st[t], rt[t], o) =>
              /\ \A u \in Threads \ {t} : Hold(hd[u], st[u], rt[u], o) = 0
              /\ \A c \in Cells : CellRefs(TakenIn(st), h, c, o) = {}
<1> DEFINE f == ThreadRefs(hd, st, rt, o)  g == HeapRefs(TakenIn(st), h, o)
           e == [x \in DOMAIN f \ {t} |-> f[x]]
<1>1. /\ Finites(f) /\ DOMAIN f = Threads /\ Finites(g) /\ DOMAIN g = Cells /\ Total(f) \in Nat /\ Total(g) \in Nat
      /\ \A u \in Threads : Cardinality(f[u]) = Hold(hd[u], st[u], rt[u], o)
      /\ \A c \in Cells : g[c] = CellRefs(TakenIn(st), h, c, o)
  BY FamiliesAre
<1>2. RefsIn(hd, st, rt, h, o) = Total(f) + Total(g)
  BY DEF RefsIn
<1> HIDE DEF f, g
<1>3. Finites(e) /\ Total(e) \in Nat /\ Total(f) = Total(e) + Cardinality(f[t]) /\ Cardinality(f[t]) \in Nat
  BY <1>1, TaggedSplit
<1>4. RefsIn(hd, st, rt, h, o) = Total(e) + Hold(hd[t], st[t], rt[t], o) + Total(g) /\ Hold(hd[t], st[t], rt[t], o) \in Nat
  BY <1>1, <1>2, <1>3
<1>5. ASSUME RefsIn(hd, st, rt, h, o) <= Hold(hd[t], st[t], rt[t], o)
      PROVE  /\ \A u \in Threads \ {t} : Hold(hd[u], st[u], rt[u], o) = 0
             /\ \A c \in Cells : CellRefs(TakenIn(st), h, c, o) = {}
  <2>1. Total(e) = 0 /\ Total(g) = 0
    BY <1>1, <1>3, <1>4, <1>5
  <2>2. \A u \in Threads \ {t} : Cardinality(f[u]) = 0
    <3>1. DOMAIN e = Threads \ {t} /\ \A u \in Threads \ {t} : e[u] = f[u]
      BY <1>1
    <3> HIDE DEF e
    <3> QED
      BY <1>3, <2>1, <3>1, TaggedZero
  <2>3. \A c \in Cells : g[c] = {}
    BY <1>1, <2>1, TaggedZero
  <2> QED
    BY <1>1, <2>2, <2>3
<1> QED
  BY <1>1, <1>3, <1>4, <1>5

\* A closure's argument is a reference.
LEMMA CellRefsFit ==
  ASSUME NEW hd, NEW st, NEW rt, NEW h, NEW o, Shape(hd, st, h), NEW c \in Cells, RefsIn(hd, st, rt, h, o) = 0
  PROVE  CellRefs(TakenIn(st), h, c, o) = {}
<1> DEFINE f == ThreadRefs(hd, st, rt, o)  g == HeapRefs(TakenIn(st), h, o)
<1>1. /\ Finites(f) /\ DOMAIN f = Threads /\ Finites(g) /\ DOMAIN g = Cells /\ Total(f) \in Nat /\ Total(g) \in Nat
      /\ \A u \in Threads : Cardinality(f[u]) = Hold(hd[u], st[u], rt[u], o)
      /\ \A d \in Cells : g[d] = CellRefs(TakenIn(st), h, d, o)
  BY FamiliesAre
<1>2. RefsIn(hd, st, rt, h, o) = Total(f) + Total(g)
  BY DEF RefsIn
<1> HIDE DEF f, g
<1>3. Total(g) = 0
  BY <1>1, <1>2
<1> QED
  BY <1>1, <1>3, TaggedZero

\* A step of one thread that changes the arguments of one closure.
LEMMA RefsStep ==
  ASSUME NEW hd, NEW st, NEW rt, NEW h, NEW hd2, NEW st2, NEW rt2, NEW h2, NEW o,
         Shape(hd, st, h), Shape(hd2, st2, h2), NEW t \in Threads, NEW z \in Cells,
         \A u \in Threads \ {t} : hd2[u] = hd[u] /\ st2[u] = st[u] /\ rt2[u] = rt[u],
         \A c \in Cells \ {z} : h2[c].args = h[c].args /\ (c \in TakenIn(st2) <=> c \in TakenIn(st))
  PROVE  RefsIn(hd2, st2, rt2, h2, o) + Hold(hd[t], st[t], rt[t], o) + CellCount(TakenIn(st), h, z, o)
           = RefsIn(hd, st, rt, h, o) + Hold(hd2[t], st2[t], rt2[t], o) + CellCount(TakenIn(st2), h2, z, o)
<1> DEFINE f == ThreadRefs(hd, st, rt, o)  g == HeapRefs(TakenIn(st), h, o)
           f2 == ThreadRefs(hd2, st2, rt2, o)  g2 == HeapRefs(TakenIn(st2), h2, o)
<1>1. /\ Finites(f) /\ DOMAIN f = Threads /\ Finites(g) /\ DOMAIN g = Cells /\ Total(f) \in Nat /\ Total(g) \in Nat
      /\ \A u \in Threads : Cardinality(f[u]) = Hold(hd[u], st[u], rt[u], o)
      /\ \A c \in Cells : g[c] = CellRefs(TakenIn(st), h, c, o)
  BY FamiliesAre
<1>2. /\ Finites(f2) /\ DOMAIN f2 = Threads /\ Finites(g2) /\ DOMAIN g2 = Cells /\ Total(f2) \in Nat /\ Total(g2) \in Nat
      /\ \A u \in Threads : Cardinality(f2[u]) = Hold(hd2[u], st2[u], rt2[u], o)
      /\ \A c \in Cells : g2[c] = CellRefs(TakenIn(st2), h2, c, o)
  BY FamiliesAre
<1>3. RefsIn(hd, st, rt, h, o) = Total(f) + Total(g) /\ RefsIn(hd2, st2, rt2, h2, o) = Total(f2) + Total(g2)
  BY DEF RefsIn
<1>4. \A u \in Threads \ {t} : f[u] = f2[u]
  BY DEF ThreadRefs
<1>5. \A c \in Cells \ {z} : g[c] = g2[c]
  BY <1>1, <1>2 DEF CellRefs
<1> HIDE DEF f, g, f2, g2
<1>6. /\ Total(f2) = Total(f) - Cardinality(f[t]) + Cardinality(f2[t])
      /\ Cardinality(f[t]) \in Nat /\ Cardinality(f2[t]) \in Nat
  BY <1>1, <1>2, <1>4, TaggedChange
<1>7. /\ Total(g2) = Total(g) - Cardinality(g[z]) + Cardinality(g2[z])
      /\ Cardinality(g[z]) \in Nat /\ Cardinality(g2[z]) \in Nat
  BY <1>1, <1>2, <1>5, TaggedChange
<1>8. /\ Cardinality(f[t]) = Hold(hd[t], st[t], rt[t], o) /\ Cardinality(f2[t]) = Hold(hd2[t], st2[t], rt2[t], o)
      /\ Cardinality(g[z]) = CellCount(TakenIn(st), h, z, o) /\ Cardinality(g2[z]) = CellCount(TakenIn(st2), h2, z, o)
  BY <1>1, <1>2 DEF CellCount
<1> QED
  BY <1>1, <1>2, <1>3, <1>6, <1>7, <1>8

(***************************************************************************)
(* The invariant, of the state's variables as arguments.                   *)
(***************************************************************************)
\* A reference means what its object holds, and the object owns its arguments.
Means(h, tk, q) ==
  IF q.o = Null THEN q = Unit
  ELSE q.o \in Objects \ tk /\ q.v = [fn |-> h[q.o].fn, args |-> Values(h[q.o].args)]
ListMeans(h, tk, l)  == \A i \in DOMAIN l : Means(h, tk, l[i])
StackMeans(h, tk, s) == \A i \in DOMAIN s : s[i].k # "shell" => ListMeans(h, tk, FrameRefs(s[i]))
HandMeans(h, tk, b)  == \A q \in DOMAIN b : Means(h, tk, q)
HandOK(b)            == IsHand(b) /\ \A q \in DOMAIN b : Good(q)

ObjectOK(o, x) ==
  /\ x = [fn |-> x.fn, args |-> x.args, rc |-> x.rc] /\ IsList(x.args)
  /\ o \in Statics => /\ x.fn \in Fns /\ x.rc = Immortal /\ Len(x.args) <= Arity[x.fn]
                      /\ \A i \in DOMAIN x.args : x.args[i] = Unit
  /\ o \in Atoms => x.fn \notin Fns /\ x.args = <<>> /\ x.rc \in Nat
  /\ o \in Cells => /\ x.rc \in Nat
                    /\ x.rc = 0 => x = Unused
                    /\ x.rc # 0 => x.fn \in Fns /\ Len(x.args) <= Arity[x.fn]
                    /\ x.rc # 0 /\ Len(x.args) = Arity[x.fn] => x.rc = 1
HeapOK(h) == DOMAIN h = Objects /\ \A o \in Objects : ObjectOK(o, h[o])

ThreadOK(h, tk, b, s, r) ==
  /\ HandOK(b) /\ HandMeans(h, tk, b)
  /\ Sound(s) /\ Fit(s, r) /\ StackMeans(h, tk, s)
  /\ r # Nothing => Means(h, tk, r)

World(hd, st, rt, h) ==
  /\ DOMAIN hd = Threads /\ DOMAIN st = Threads /\ DOMAIN rt = Threads
  /\ HeapOK(h)
  /\ \A t \in Threads : ThreadOK(h, TakenIn(st), hd[t], st[t], rt[t])
  /\ \A c \in Cells \ TakenIn(st) : ListMeans(h, TakenIn(st), h[c].args)
  /\ \A c \in TakenIn(st) : h[c].rc = 1
  /\ \A o \in Atoms \cup Cells : h[o].rc = RefsIn(hd, st, rt, h, o)

\* A step of thread t that changes at most what closure z holds.
Local(hd, st, rt, h, hd2, st2, rt2, h2, t, z) ==
  /\ DOMAIN hd2 = Threads /\ DOMAIN st2 = Threads /\ DOMAIN rt2 = Threads
  /\ \A u \in Threads \ {t} : hd2[u] = hd[u] /\ st2[u] = st[u] /\ rt2[u] = rt[u]
  /\ HeapOK(h2) /\ HandOK(hd2[t]) /\ Sound(st2[t]) /\ Fit(st2[t], rt2[t])
  /\ \A o \in Objects \ {z} : h2[o].fn = h[o].fn /\ h2[o].args = h[o].args
  /\ \A c \in Cells \ {z} : c \in ShellsOf(st2[t]) <=> c \in ShellsOf(st[t])
  /\ \A c \in TakenIn(st) \ {z} : h2[c].rc = h[c].rc

\* Its counts change as its references do.
Balanced(hd, st, rt, h, hd2, st2, rt2, h2, t, z) ==
  \A o \in Atoms \cup Cells :
    h2[o].rc + Hold(hd[t], st[t], rt[t], o) + CellCount(TakenIn(st), h, z, o)
      = h[o].rc + Hold(hd2[t], st2[t], rt2[t], o) + CellCount(TakenIn(st2), h2, z, o)

\* What becomes of z: nothing, freed, held by the result alone, or by a shell alone.
Kept(tk, tk2, h, h2, z)  == /\ h2[z].fn = h[z].fn /\ h2[z].args = h[z].args
                            /\ (z \in tk2 <=> z \in tk) /\ (z \in tk => h2[z].rc = h[z].rc)
Freed(h2, z)             == h2[z].rc = 0
Made(h, tk, tk2, h2, r, z) == /\ h2[z].rc = 1 /\ r.o = z /\ z \notin tk2
                              /\ ListMeans(h, tk, h2[z].args) /\ Means(h2, tk2, r)
Emptied(h2, s, z)        == h2[z].rc = 1 /\ z \in ShellsOf(s)

\* It has only references that it could already name, but for a result it made.
Named(h, tk, h2, tk2, b, s, r, z) ==
  /\ HandMeans(h, tk, b) /\ StackMeans(h, tk, s)
  /\ r # Nothing => Means(h, tk, r) \/ Made(h, tk, tk2, h2, r, z)

LEMMA ObjectsApart ==
  /\ Atoms \subseteq Objects /\ Cells \subseteq Objects /\ Statics \subseteq Objects
  /\ Atoms \cap Cells = {} /\ Atoms \cap Statics = {} /\ Cells \cap Statics = {}
  /\ Null \notin Objects /\ Null \notin Fns /\ Objects = Atoms \cup Cells \cup Statics
BY ClosureConstants DEF Objects

LEMMA FramesStack ==
  ASSUME NEW s, Framed(s)
  PROVE  IsStack(s)
<1>1. ASSUME NEW f, IsFrame(f) PROVE IsSeq(FrameRefs(f))
  <2>1. IsSeq(f.xs) /\ IsSeq(<<f.c>>)
    BY <1>1, SingleSeq DEF IsFrame, IsList
  <2>2. IsSeq(<<f.c>> \o f.xs)
    BY <2>1, Joined
  <2> QED
    BY <2>1, <2>2 DEF FrameRefs
<1> QED
  BY <1>1 DEF Framed, IsStack

LEMMA WorldShape ==
  ASSUME NEW hd, NEW st, NEW h, HeapOK(h), \A t \in Threads : HandOK(hd[t]) /\ Sound(st[t])
  PROVE  Shape(hd, st, h)
<1>1. \A c \in Cells : IsSeq(h[c].args)
  BY ObjectsApart DEF HeapOK, ObjectOK, IsList
<1> QED
  BY <1>1, FramesStack DEF Shape, HandOK, Sound

LEMMA TakenStep ==
  ASSUME NEW hd, NEW st, NEW rt, NEW h, NEW hd2, NEW st2, NEW rt2, NEW h2, NEW t \in Threads, NEW z,
         Local(hd, st, rt, h, hd2, st2, rt2, h2, t, z), NEW c \in Cells \ {z}
  PROVE  c \in TakenIn(st2) <=> c \in TakenIn(st)
<1>1. \A u \in Threads : c \in ShellsOf(st2[u]) <=> c \in ShellsOf(st[u])
  <2> SUFFICES ASSUME NEW u \in Threads PROVE c \in ShellsOf(st2[u]) <=> c \in ShellsOf(st[u])
    OBVIOUS
  <2>1. CASE u = t
    BY <2>1 DEF Local
  <2>2. CASE u # t
    BY <2>2 DEF Local
  <2> QED
    BY <2>1, <2>2
<1> QED
  BY <1>1 DEF TakenIn

LEMMA LocalShape ==
  ASSUME NEW hd, NEW st, NEW rt, NEW h, NEW hd2, NEW st2, NEW rt2, NEW h2, NEW t \in Threads, NEW z,
         World(hd, st, rt, h), Local(hd, st, rt, h, hd2, st2, rt2, h2, t, z)
  PROVE  Shape(hd, st, h) /\ Shape(hd2, st2, h2)
<1>1. \A u \in Threads : HandOK(hd[u]) /\ Sound(st[u])
  BY DEF World, ThreadOK
<1>2. HandOK(hd2[t]) /\ Sound(st2[t])
  BY DEF Local
<1>3. \A u \in Threads \ {t} : hd2[u] = hd[u] /\ st2[u] = st[u]
  BY DEF Local
<1>4. \A u \in Threads : HandOK(hd2[u]) /\ Sound(st2[u])
  BY <1>1, <1>2, <1>3
<1>5. HeapOK(h) /\ HeapOK(h2)
  BY DEF World, Local
<1> QED
  BY <1>1, <1>4, <1>5, WorldShape

LEMMA CountsStep ==
  ASSUME NEW hd, NEW st, NEW rt, NEW h, NEW hd2, NEW st2, NEW rt2, NEW h2, NEW t \in Threads, NEW z \in Atoms \cup Cells,
         World(hd, st, rt, h), Local(hd, st, rt, h, hd2, st2, rt2, h2, t, z),
         Balanced(hd, st, rt, h, hd2, st2, rt2, h2, t, z), NEW o \in Atoms \cup Cells
  PROVE  h2[o].rc = RefsIn(hd2, st2, rt2, h2, o)
<1>1. Shape(hd, st, h) /\ Shape(hd2, st2, h2)
  BY LocalShape
<1>2. \A u \in Threads \ {t} : hd2[u] = hd[u] /\ st2[u] = st[u] /\ rt2[u] = rt[u]
  BY DEF Local
<1>3. \A c \in Cells \ {z} : h2[c].args = h[c].args /\ (c \in TakenIn(st2) <=> c \in TakenIn(st))
  <2>1. \A c \in Cells \ {z} : h2[c].args = h[c].args
    BY ObjectsApart DEF Local
  <2>2. \A c \in Cells \ {z} : c \in TakenIn(st2) <=> c \in TakenIn(st)
    BY TakenStep
  <2> QED
    BY <2>1, <2>2
<1> DEFINE R == RefsIn(hd, st, rt, h, o)  R2 == RefsIn(hd2, st2, rt2, h2, o)
           H == Hold(hd[t], st[t], rt[t], o)  H2 == Hold(hd2[t], st2[t], rt2[t], o)
           C == CellCount(TakenIn(st), h, z, o)  C2 == CellCount(TakenIn(st2), h2, z, o)
<1>7. C \in Nat /\ C2 \in Nat
  <2>1. IsSeq(h[z].args) /\ IsSeq(h2[z].args)
    BY ObjectsApart DEF World, Local, HeapOK, ObjectOK, IsList
  <2> QED
    BY <2>1, CellIs
<1>4. R2 + H + C = R + H2 + C2
  <2>1. CASE z \in Cells
    BY <1>1, <1>2, <1>3, <2>1, RefsStep
  <2>2. CASE z \in Atoms
    <3>1. First \in Cells \ {z} /\ z \in Objects
      BY <2>2, StartConstants, ObjectsApart
    <3>2. h[z].args = <<>> /\ h2[z].args = <<>>
      BY <2>2, <3>1 DEF World, Local, HeapOK, ObjectOK
    <3>3. C = 0 /\ C2 = 0
      BY <3>2, NoSeq, CellIs, CountNone
    <3>4. \A c \in Cells : h2[c].args = h[c].args /\ (c \in TakenIn(st2) <=> c \in TakenIn(st))
      BY <1>3, <2>2, ObjectsApart
    <3>5. CellCount(TakenIn(st), h, First, o) = CellCount(TakenIn(st2), h2, First, o)
      BY <3>1, <3>4 DEF CellCount, CellRefs
    <3>6. CellCount(TakenIn(st), h, First, o) \in Nat
      BY <1>1, <3>1, CellIs DEF Shape
    <3>7. RefsIn(hd2, st2, rt2, h2, o) + Hold(hd[t], st[t], rt[t], o) + CellCount(TakenIn(st), h, First, o)
            = RefsIn(hd, st, rt, h, o) + Hold(hd2[t], st2[t], rt2[t], o) + CellCount(TakenIn(st2), h2, First, o)
      BY <1>1, <1>2, <3>1, <3>4, RefsStep
    <3>8. R \in Nat /\ R2 \in Nat /\ H \in Nat /\ H2 \in Nat
      BY <1>1, RefsApart, HoldIs DEF Shape
    <3> HIDE DEF R, R2, H, H2, C, C2
    <3>9. R2 + H + CellCount(TakenIn(st), h, First, o) = R + H2 + CellCount(TakenIn(st), h, First, o)
      BY <3>5, <3>7 DEF R, R2, H, H2
    <3> QED
      BY <3>3, <3>6, <3>8, <3>9
  <2> QED
    BY <2>1, <2>2
<1>5. R \in Nat /\ R2 \in Nat
  BY <1>1, RefsApart
<1>6. H \in Nat /\ H2 \in Nat
  BY <1>1, HoldIs DEF Shape
<1>8. h[o].rc = R
  BY DEF World
<1>9. h2[o].rc + H + C = h[o].rc + H2 + C2
  BY DEF Balanced
<1>10. h2[o].rc \in Nat
  BY ObjectsApart DEF Local, HeapOK, ObjectOK
<1> HIDE DEF R, R2, H, H2, C, C2
<1>11. h2[o].rc = R2
  BY <1>4, <1>5, <1>6, <1>7, <1>8, <1>9, <1>10
<1> QED
  BY <1>11 DEF R2

LEMMA StackLone ==
  ASSUME NEW s, IsStack(s), NEW o, NEW i \in DOMAIN s
  PROVE  /\ FrameCount(s[i], o) \in Nat /\ FrameCount(s[i], o) <= StackCount(s, o)
         /\ StackCount(s, o) <= FrameCount(s[i], o) =>
              \A j \in DOMAIN s \ {i} : \A k \in DOMAIN FrameRefs(s[j]) : FrameRefs(s[j])[k].o # o
<1> DEFINE f == StackFamily(s, o)  g == [x \in DOMAIN f \ {i} |-> f[x]]
<1>1. DOMAIN f = DOMAIN s /\ \A j \in DOMAIN s : f[j] = Slots(FrameRefs(s[j]), o) /\ Cardinality(f[j]) = FrameCount(s[j], o)
  BY DEF StackFamily, FrameCount, Count
<1>2. Finites(f) /\ Total(f) = StackCount(s, o)
  BY StackFinite DEF StackCount
<1> HIDE DEF f
<1>3. Finites(g) /\ Total(g) \in Nat /\ Total(f) = Total(g) + Cardinality(f[i]) /\ Cardinality(f[i]) \in Nat
  BY <1>1, <1>2, TaggedSplit
<1>4. ASSUME StackCount(s, o) <= FrameCount(s[i], o), NEW j \in DOMAIN s \ {i}
      PROVE  \A k \in DOMAIN FrameRefs(s[j]) : FrameRefs(s[j])[k].o # o
  <2>1. Total(g) = 0
    BY <1>1, <1>2, <1>3, <1>4
  <2>2. j \in DOMAIN g /\ g[j] = f[j]
    BY <1>1
  <2> HIDE DEF g
  <2>3. f[j] = {}
    BY <1>3, <2>1, <2>2, TaggedZero
  <2> QED
    BY <1>1, <2>3 DEF Slots
<1>5. FrameCount(s[i], o) \in Nat /\ FrameCount(s[i], o) <= StackCount(s, o)
  BY <1>1, <1>2, <1>3
<1> QED
  BY <1>4, <1>5

\* A shell is a reference to its closure.
LEMMA ShellCount ==
  ASSUME NEW s, Framed(s), NEW o, o \in ShellsOf(s), o \in Objects
  PROVE  \E i \in DOMAIN s : s[i].k = "shell" /\ FrameCount(s[i], o) = 1
<1>1. PICK i \in DOMAIN s : s[i].k = "shell" /\ s[i].c.o = o
  BY DEF ShellsOf
<1>2. s[i].xs = <<>> /\ IsSeq(<<s[i].c>>)
  BY <1>1, SingleSeq DEF Framed, IsFrame
<1>3. FrameRefs(s[i]) = <<s[i].c>>
  BY <1>1, <1>2, JoinNone DEF FrameRefs
<1>4. FrameCount(s[i], o) = 1
  BY <1>1, <1>3, CountOne DEF FrameCount, One
<1> QED
  BY <1>1, <1>4

\* A frame's references are not to an object it has no reference to.
LEMMA StackMeansStep ==
  ASSUME NEW s, NEW h, NEW tk, NEW h2, NEW tk2, NEW z, StackMeans(h, tk, s),
         \A i \in DOMAIN s : s[i].k # "shell" => \A k \in DOMAIN FrameRefs(s[i]) : FrameRefs(s[i])[k].o # z,
         \A q : q.o # z /\ Means(h, tk, q) => Means(h2, tk2, q)
  PROVE  StackMeans(h2, tk2, s)
<1> SUFFICES ASSUME NEW i \in DOMAIN s, s[i].k # "shell", NEW k \in DOMAIN FrameRefs(s[i])
             PROVE  Means(h2, tk2, FrameRefs(s[i])[k])
  BY DEF StackMeans, ListMeans
<1>1. FrameRefs(s[i])[k].o # z /\ Means(h, tk, FrameRefs(s[i])[k])
  BY DEF StackMeans, ListMeans
<1> QED
  BY <1>1

NoRefs(b, s, r, z) ==
  /\ \A q \in DOMAIN b : q.o # z
  /\ \A i \in DOMAIN s : \A k \in DOMAIN FrameRefs(s[i]) : FrameRefs(s[i])[k].o # z
  /\ r.o # z

LEMMA HoldZero ==
  ASSUME NEW b, NEW s, NEW r, NEW o, IsHand(b), IsStack(s), Hold(b, s, r, o) = 0
  PROVE  NoRefs(b, s, r, o)
<1>1. HandCount(b, o) = 0 /\ StackCount(s, o) = 0 /\ One(r, o) = 0
  BY HoldIs DEF Hold
<1>2. \A q \in DOMAIN b : q.o # o
  BY <1>1, HandZero
<1>3. \A i \in DOMAIN s : \A k \in DOMAIN FrameRefs(s[i]) : FrameRefs(s[i])[k].o # o
  BY <1>1, StackZero
<1>4. r.o # o
  BY <1>1 DEF One
<1> QED
  BY <1>2, <1>3, <1>4 DEF NoRefs

\* The only references to a closure that was freed, made or emptied.
LEMMA Lonely ==
  ASSUME NEW hd, NEW st, NEW rt, NEW h, NEW h0, NEW tk0, NEW t \in Threads, NEW z \in Atoms \cup Cells, Shape(hd, st, h),
         Framed(st[t]), h[z].rc = RefsIn(hd, st, rt, h, z),
         \/ Freed(h, z) \/ Made(h0, tk0, TakenIn(st), h, rt[t], z) \/ Emptied(h, st[t], z)
  PROVE  /\ \A u \in Threads \ {t} : NoRefs(hd[u], st[u], rt[u], z)
         /\ \A c \in Cells \ TakenIn(st) : \A i \in DOMAIN h[c].args : h[c].args[i].o # z
         /\ \A q \in DOMAIN hd[t] : q.o # z
         /\ \A i \in DOMAIN st[t] : st[t][i].k # "shell" =>
              \A k \in DOMAIN FrameRefs(st[t][i]) : FrameRefs(st[t][i])[k].o # z
         /\ rt[t].o = z => Made(h0, tk0, TakenIn(st), h, rt[t], z)
<1> DEFINE R == RefsIn(hd, st, rt, h, z)  B == HandCount(hd[t], z)  S == StackCount(st[t], z)  O == One(rt[t], z)
<1>1. IsHand(hd[t]) /\ IsStack(st[t]) /\ z \in Objects
  BY ObjectsApart DEF Shape
<1>2. B \in Nat /\ S \in Nat /\ O \in Nat /\ Hold(hd[t], st[t], rt[t], z) = B + S + O
  BY <1>1, HoldIs DEF Hold
<1>3. R \in Nat /\ B + S + O <= R
  BY <1>2, RefsApart
<1>4. h[z].rc = R
  OBVIOUS
<1> HIDE DEF R, B, S, O
<1> DEFINE Apart == \A i \in DOMAIN st[t] : st[t][i].k # "shell" =>
                      \A k \in DOMAIN FrameRefs(st[t][i]) : FrameRefs(st[t][i])[k].o # z
           Result == rt[t].o = z => Made(h0, tk0, TakenIn(st), h, rt[t], z)
<1>5. ASSUME Freed(h, z)
      PROVE  R = B + S + O /\ B = 0 /\ Apart /\ Result
  <2>1. R = 0 /\ B = 0 /\ S = 0 /\ O = 0
    BY <1>2, <1>3, <1>4, <1>5 DEF Freed
  <2>2. Apart
    BY <1>1, <2>1, StackZero DEF S
  <2>3. Result
    BY <2>1 DEF O, One
  <2> QED
    BY <2>1, <2>2, <2>3
<1>6. ASSUME Made(h0, tk0, TakenIn(st), h, rt[t], z)
      PROVE  R = B + S + O /\ B = 0 /\ Apart /\ Result
  <2>1. R = 1 /\ O = 1
    BY <1>4, <1>6 DEF Made, O, One
  <2>2. B = 0 /\ S = 0
    BY <1>2, <1>3, <2>1
  <2>3. Apart
    BY <1>1, <2>2, StackZero DEF S
  <2> QED
    BY <1>6, <2>1, <2>2, <2>3
<1>7. ASSUME Emptied(h, st[t], z)
      PROVE  R = B + S + O /\ B = 0 /\ Apart /\ Result
  <2>1. PICK i \in DOMAIN st[t] : st[t][i].k = "shell" /\ FrameCount(st[t][i], z) = 1
    BY <1>1, <1>7, ShellCount DEF Emptied
  <2>2. R = 1 /\ 1 <= S
    BY <1>1, <1>4, <1>7, <2>1, StackLone DEF Emptied, S
  <2>3. B = 0 /\ S = 1 /\ O = 0
    BY <1>2, <1>3, <2>2
  <2>4. \A j \in DOMAIN st[t] \ {i} : \A k \in DOMAIN FrameRefs(st[t][j]) : FrameRefs(st[t][j])[k].o # z
    BY <1>1, <2>1, <2>3, StackLone DEF S
  <2>5. Apart
    BY <2>1, <2>4
  <2>6. Result
    BY <2>3 DEF O, One
  <2> QED
    BY <2>2, <2>3, <2>5, <2>6
<1>8. R <= B + S + O /\ B = 0 /\ Apart /\ Result
  <2> HIDE DEF Apart, Result
  <2>1. R = B + S + O /\ B = 0 /\ Apart /\ Result
    BY <1>5, <1>6, <1>7
  <2> QED
    BY <1>2, <2>1
<1>9. \A q \in DOMAIN hd[t] : q.o # z
  BY <1>1, <1>8, HandZero DEF B
<1>10. /\ \A u \in Threads \ {t} : Hold(hd[u], st[u], rt[u], z) = 0
       /\ \A c \in Cells : CellRefs(TakenIn(st), h, c, z) = {}
  BY <1>2, <1>8, RefsApart DEF R
<1>11. \A u \in Threads \ {t} : NoRefs(hd[u], st[u], rt[u], z)
  BY <1>10, HoldZero DEF Shape
<1>12. \A c \in Cells \ TakenIn(st) : \A i \in DOMAIN h[c].args : h[c].args[i].o # z
  BY <1>10 DEF CellRefs, Slots
<1> QED
  BY <1>8, <1>9, <1>11, <1>12

LEMMA ThreadMeansStep ==
  ASSUME NEW b, NEW s, NEW r, NEW h, NEW tk, NEW h2, NEW tk2, NEW z,
         ThreadOK(h, tk, b, s, r), NoRefs(b, s, r, z),
         \A q : q.o # z /\ Means(h, tk, q) => Means(h2, tk2, q)
  PROVE  ThreadOK(h2, tk2, b, s, r)
<1>1. StackMeans(h2, tk2, s)
  BY StackMeansStep DEF ThreadOK, NoRefs
<1>2. HandMeans(h2, tk2, b) /\ (r # Nothing => Means(h2, tk2, r))
  BY DEF ThreadOK, NoRefs, HandMeans
<1> QED
  BY <1>1, <1>2 DEF ThreadOK

LEMMA FreedNotTaken ==
  ASSUME NEW hd, NEW st, NEW rt, NEW h, Shape(hd, st, h), \A u \in Threads : Framed(st[u]),
         NEW z \in Atoms \cup Cells, RefsIn(hd, st, rt, h, z) = 0
  PROVE  z \notin TakenIn(st)
<1> SUFFICES ASSUME NEW u \in Threads, z \in ShellsOf(st[u]) PROVE FALSE
  BY DEF TakenIn
<1>1. IsHand(hd[u]) /\ IsStack(st[u]) /\ z \in Objects
  BY ObjectsApart DEF Shape
<1>2. Hold(hd[u], st[u], rt[u], z) <= 0
  BY RefsApart
<1>3. StackCount(st[u], z) = 0
  BY <1>1, <1>2, HoldIs DEF Hold
<1>4. PICK i \in DOMAIN st[u] : FrameCount(st[u][i], z) = 1
  BY <1>1, ShellCount
<1> QED
  BY <1>1, <1>3, <1>4, StackLone

LEMMA WorldStep ==
  ASSUME NEW hd, NEW st, NEW rt, NEW h, NEW hd2, NEW st2, NEW rt2, NEW h2, NEW t \in Threads, NEW z \in Atoms \cup Cells,
         World(hd, st, rt, h), Local(hd, st, rt, h, hd2, st2, rt2, h2, t, z),
         Balanced(hd, st, rt, h, hd2, st2, rt2, h2, t, z),
         Named(h, TakenIn(st), h2, TakenIn(st2), hd2[t], st2[t], rt2[t], z),
         \/ Kept(TakenIn(st), TakenIn(st2), h, h2, z) \/ Freed(h2, z)
         \/ Made(h, TakenIn(st), TakenIn(st2), h2, rt2[t], z) \/ Emptied(h2, st2[t], z)
  PROVE  World(hd2, st2, rt2, h2)
<1> DEFINE tk == TakenIn(st)  tk2 == TakenIn(st2)
<1>1. \A o \in Atoms \cup Cells : h2[o].rc = RefsIn(hd2, st2, rt2, h2, o)
  BY CountsStep
<1>2. Shape(hd2, st2, h2) /\ HeapOK(h2) /\ Framed(st2[t])
  BY LocalShape DEF Local, Sound
<1>3. (\A c \in Cells \ {z} : c \in tk2 <=> c \in tk) /\ tk \subseteq Cells /\ tk2 \subseteq Cells
  <2>1. \A c \in Cells \ {z} : c \in tk2 <=> c \in tk
    BY TakenStep
  <2> QED
    BY <2>1 DEF TakenIn
<1>4. \A o \in Objects \ {z} : h2[o].fn = h[o].fn /\ h2[o].args = h[o].args
  BY DEF Local
<1>5. \A c \in tk \ {z} : h2[c].rc = h[c].rc
  BY DEF Local
<1>6. /\ \A u \in Threads : ThreadOK(h, tk, hd[u], st[u], rt[u])
      /\ \A c \in Cells \ tk : ListMeans(h, tk, h[c].args)
      /\ \A c \in tk : h[c].rc = 1
  BY DEF World
<1>7. \A u \in Threads \ {t} : hd2[u] = hd[u] /\ st2[u] = st[u] /\ rt2[u] = rt[u]
  BY DEF Local
<1>8. HandOK(hd2[t]) /\ Sound(st2[t]) /\ Fit(st2[t], rt2[t])
  BY DEF Local
<1>9. /\ HandMeans(h, tk, hd2[t]) /\ StackMeans(h, tk, st2[t])
      /\ rt2[t] # Nothing => Means(h, tk, rt2[t]) \/ Made(h, tk, tk2, h2, rt2[t], z)
  BY DEF Named
<1> HIDE DEF tk, tk2
<1>10. \A q : q.o # z /\ Means(h, tk, q) => Means(h2, tk2, q)
  <2> SUFFICES ASSUME NEW q, q.o # z, Means(h, tk, q) PROVE Means(h2, tk2, q)
    OBVIOUS
  <2>1. CASE q.o = Null
    BY <2>1 DEF Means
  <2>2. CASE q.o # Null
    <3>1. q.o \in Objects /\ q.o \notin tk /\ q.v = [fn |-> h[q.o].fn, args |-> Values(h[q.o].args)]
      BY <2>2 DEF Means
    <3>2. q.o \notin tk2
      BY <1>3, <3>1
    <3>3. h2[q.o].fn = h[q.o].fn /\ h2[q.o].args = h[q.o].args
      BY <1>4, <3>1
    <3> QED
      BY <2>2, <3>1, <3>2, <3>3 DEF Means
  <2> QED
    BY <2>1, <2>2
<1>11. \A o : \A l : ListMeans(h, tk, l) /\ (\A i \in DOMAIN l : l[i].o # z) => ListMeans(h2, tk2, l)
  BY <1>10 DEF ListMeans
<1>12. ASSUME Kept(tk, tk2, h, h2, z) PROVE World(hd2, st2, rt2, h2)
  <2>1. /\ h2[z].fn = h[z].fn /\ h2[z].args = h[z].args /\ (z \in tk2 <=> z \in tk) /\ (z \in tk => h2[z].rc = h[z].rc)
    BY <1>12 DEF Kept
  <2>2. ASSUME NEW q, Means(h, tk, q) PROVE Means(h2, tk2, q)
    <3>1. CASE q.o # z
      BY <1>10, <2>2, <3>1
    <3>2. CASE q.o = z
      <4>1. z # Null
        BY ObjectsApart
      <4>2. z \in Objects /\ z \notin tk /\ q.v = [fn |-> h[z].fn, args |-> Values(h[z].args)]
        BY <2>2, <3>2, <4>1 DEF Means
      <4> QED
        BY <2>1, <3>2, <4>1, <4>2 DEF Means
    <3> QED
      BY <3>1, <3>2
  <2>3. ASSUME NEW u \in Threads PROVE ThreadOK(h2, tk2, hd2[u], st2[u], rt2[u])
    <3>1. HandOK(hd2[u]) /\ Sound(st2[u]) /\ Fit(st2[u], rt2[u])
      BY <1>6, <1>7, <1>8 DEF ThreadOK
    <3>2. HandMeans(h, tk, hd2[u]) /\ StackMeans(h, tk, st2[u])
      BY <1>6, <1>7, <1>9 DEF ThreadOK
    <3>3. rt2[u] # Nothing => Means(h, tk, rt2[u]) \/ Means(h2, tk2, rt2[u])
      BY <1>6, <1>7, <1>9 DEF ThreadOK, Made
    <3>4. HandMeans(h2, tk2, hd2[u])
      BY <2>2, <3>2 DEF HandMeans
    <3>5. StackMeans(h2, tk2, st2[u])
      BY <2>2, <3>2 DEF StackMeans, ListMeans
    <3>6. rt2[u] # Nothing => Means(h2, tk2, rt2[u])
      BY <2>2, <3>3
    <3> QED
      BY <3>1, <3>4, <3>5, <3>6 DEF ThreadOK
  <2>4. ASSUME NEW c \in Cells \ tk2 PROVE ListMeans(h2, tk2, h2[c].args)
    <3>1. c \notin tk /\ h2[c].args = h[c].args
      BY <1>3, <1>4, <2>1, ObjectsApart
    <3> QED
      BY <1>6, <2>2, <3>1 DEF ListMeans
  <2>5. ASSUME NEW c \in tk2 PROVE h2[c].rc = 1
    <3>1. c \in tk
      BY <1>3, <2>1
    <3> QED
      BY <1>5, <1>6, <2>1, <3>1
  <2> QED
    BY <1>1, <1>2, <2>3, <2>4, <2>5 DEF World, Local, tk2
<1>13. ASSUME Freed(h2, z) \/ Made(h, tk, tk2, h2, rt2[t], z) \/ Emptied(h2, st2[t], z) PROVE World(hd2, st2, rt2, h2)
  <2>1. /\ \A u \in Threads \ {t} : NoRefs(hd2[u], st2[u], rt2[u], z)
        /\ \A c \in Cells \ tk2 : \A i \in DOMAIN h2[c].args : h2[c].args[i].o # z
        /\ \A q \in DOMAIN hd2[t] : q.o # z
        /\ \A i \in DOMAIN st2[t] : st2[t][i].k # "shell" =>
             \A k \in DOMAIN FrameRefs(st2[t][i]) : FrameRefs(st2[t][i])[k].o # z
        /\ rt2[t].o = z => Made(h, tk, tk2, h2, rt2[t], z)
    <3>1. h2[z].rc = RefsIn(hd2, st2, rt2, h2, z)
      BY <1>1
    <3> QED
      BY <1>2, <1>13, <3>1, Lonely DEF tk2
  <2>2. ASSUME NEW u \in Threads \ {t} PROVE ThreadOK(h2, tk2, hd2[u], st2[u], rt2[u])
    <3>1. ThreadOK(h, tk, hd2[u], st2[u], rt2[u]) /\ NoRefs(hd2[u], st2[u], rt2[u], z)
      BY <1>6, <1>7, <2>1
    <3> QED
      BY <1>10, <3>1, ThreadMeansStep
  <2>3. ThreadOK(h2, tk2, hd2[t], st2[t], rt2[t])
    <3>1. HandMeans(h2, tk2, hd2[t])
      BY <1>9, <1>10, <2>1 DEF HandMeans
    <3>2. StackMeans(h2, tk2, st2[t])
      BY <1>9, <1>10, <2>1, StackMeansStep
    <3>3. rt2[t] # Nothing => Means(h2, tk2, rt2[t])
      BY <1>9, <1>10, <2>1 DEF Made
    <3> QED
      BY <1>8, <3>1, <3>2, <3>3 DEF ThreadOK
  <2>4. ASSUME NEW c \in Cells \ tk2 PROVE ListMeans(h2, tk2, h2[c].args)
    <3>1. CASE c # z
      <4>1. c \notin tk /\ h2[c].args = h[c].args
        BY <1>3, <1>4, <3>1, ObjectsApart
      <4> QED
        BY <1>6, <1>11, <2>1, <4>1
    <3>2. CASE c = z
      <4>1. CASE Freed(h2, z)
        <5>0. ObjectOK(z, h2[z])
          BY <1>2, ObjectsApart DEF HeapOK
        <5>1. h2[z].args = <<>>
          BY <4>1, <5>0 DEF Freed, ObjectOK, Unused
        <5> QED
          BY <3>2, <5>1, NoSeq DEF ListMeans
      <4>2. CASE Made(h, tk, tk2, h2, rt2[t], z)
        BY <1>11, <2>1, <3>2, <4>2 DEF Made
      <4>3. CASE Emptied(h2, st2[t], z)
        BY <3>2, <4>3 DEF Emptied, TakenIn, tk2
      <4> QED
        BY <1>13, <4>1, <4>2, <4>3
    <3> QED
      BY <3>1, <3>2
  <2>5. ASSUME NEW c \in tk2 PROVE h2[c].rc = 1
    <3>1. CASE c # z
      BY <1>3, <1>5, <1>6, <3>1
    <3>2. CASE c = z
      <4>1. CASE Freed(h2, z)
        <5>1. RefsIn(hd2, st2, rt2, h2, z) = 0 /\ \A u \in Threads : Framed(st2[u])
          BY <1>1, <1>6, <1>7, <1>8, <4>1 DEF Freed, ThreadOK, Sound
        <5>2. z \notin tk2
          BY <1>2, <5>1, FreedNotTaken DEF tk2
        <5> QED
          BY <3>2, <5>2
      <4> QED
        BY <1>13, <3>2, <4>1 DEF Made, Emptied
    <3> QED
      BY <3>1, <3>2
  <2> QED
    BY <1>1, <1>2, <2>2, <2>3, <2>4, <2>5 DEF World, Local, tk2
<1> QED
  BY <1>12, <1>13 DEF tk, tk2

(***************************************************************************)
(* What is held is alive.                                                  *)
(***************************************************************************)
Live(h, q) == q.o # Null => h[q.o].rc # 0

LEMMA WorldLive ==
  ASSUME NEW hd, NEW st, NEW rt, NEW h, World(hd, st, rt, h)
  PROVE  /\ \A t \in Threads : \A q \in DOMAIN hd[t] : Live(h, q)
         /\ \A t \in Threads : \A i \in DOMAIN st[t] : \A k \in DOMAIN FrameRefs(st[t][i]) : Live(h, FrameRefs(st[t][i])[k])
         /\ \A t \in Threads : rt[t] # Nothing => Live(h, rt[t])
         /\ \A c \in Cells \ TakenIn(st) : \A i \in DOMAIN h[c].args : Live(h, h[c].args[i])
<1>1. Shape(hd, st, h)
  <2>1. \A t \in Threads : HandOK(hd[t]) /\ Sound(st[t])
    BY DEF World, ThreadOK
  <2> QED
    BY <2>1, WorldShape DEF World
<1>2. ASSUME NEW o \in Objects, h[o].rc = 0 PROVE o \in Atoms \cup Cells /\ RefsIn(hd, st, rt, h, o) = 0
  <2>1. ObjectOK(o, h[o])
    BY DEF World, HeapOK
  <2>2. o \notin Statics
    BY <1>2, <2>1 DEF ObjectOK, Immortal
  <2> QED
    BY <1>2, <2>2, ObjectsApart DEF World
<1>3. ASSUME NEW o \in Objects, h[o].rc = 0, NEW t \in Threads PROVE NoRefs(hd[t], st[t], rt[t], o)
  <2>1. IsHand(hd[t]) /\ IsStack(st[t])
    BY <1>1 DEF Shape
  <2>2. RefsIn(hd, st, rt, h, o) = 0
    BY <1>2, <1>3
  <2>3. Hold(hd[t], st[t], rt[t], o) <= 0
    BY <1>1, <2>2, RefsApart
  <2>4. Hold(hd[t], st[t], rt[t], o) = 0
    BY <2>1, <2>3, HoldIs
  <2> QED
    BY <2>1, <2>4, HoldZero
<1>4. ASSUME NEW o \in Objects, h[o].rc = 0, NEW c \in Cells \ TakenIn(st) PROVE \A i \in DOMAIN h[c].args : h[c].args[i].o # o
  <2>1. CellRefs(TakenIn(st), h, c, o) = {}
    BY <1>1, <1>2, <1>4, CellRefsFit
  <2> QED
    BY <2>1 DEF CellRefs, Slots
<1>5. ASSUME NEW q, Means(h, TakenIn(st), q), q.o # Null PROVE q.o \in Objects
  BY <1>5 DEF Means
<1>6. \A t \in Threads : ThreadOK(h, TakenIn(st), hd[t], st[t], rt[t])
  BY DEF World
<1>7. ASSUME NEW t \in Threads, NEW q \in DOMAIN hd[t] PROVE Live(h, q)
  <2>1. Means(h, TakenIn(st), q)
    BY <1>6 DEF ThreadOK, HandMeans
  <2> QED
    BY <1>3, <1>5, <2>1 DEF Live, NoRefs
<1>8. ASSUME NEW t \in Threads, NEW i \in DOMAIN st[t], NEW k \in DOMAIN FrameRefs(st[t][i]) PROVE Live(h, FrameRefs(st[t][i])[k])
  <2> DEFINE f == st[t][i]  q == FrameRefs(f)[k]
  <2>1. IsFrame(f)
    BY <1>6 DEF ThreadOK, Sound, Framed
  <2>2. q.o # Null => q.o \in Objects
    <3>1. IsSeq(<<f.c>>) /\ IsSeq(f.xs) /\ DOMAIN <<f.c>> = {1} /\ <<f.c>>[1] = f.c
      BY <2>1, SingleSeq DEF IsFrame, IsList
    <3>2. \A j \in DOMAIN f.xs : IsRef(f.xs[j])
      BY <2>1 DEF IsFrame, IsList, Good
    <3>3. IsRef(f.c)
      BY <2>1 DEF IsFrame
    <3>4. CASE f.k = "body"
      BY <3>2, <3>4 DEF FrameRefs, IsRef
    <3>5. CASE f.k # "body"
      <4>1. FrameRefs(f) = <<f.c>> \o f.xs
        BY <3>5 DEF FrameRefs
      <4>2. q = f.c \/ \E j \in DOMAIN f.xs : q = f.xs[j]
        BY <3>1, <4>1, JoinedParts
      <4> QED
        BY <3>2, <3>3, <4>2 DEF IsRef
    <3> QED
      BY <3>4, <3>5
  <2>3. \A o \in Objects : h[o].rc = 0 => q.o # o
    BY <1>3 DEF NoRefs
  <2> HIDE DEF q
  <2>4. Live(h, q)
    BY <2>2, <2>3 DEF Live
  <2> QED
    BY <2>4 DEF q
<1>9. ASSUME NEW t \in Threads, rt[t] # Nothing PROVE Live(h, rt[t])
  <2>1. Means(h, TakenIn(st), rt[t])
    BY <1>6, <1>9 DEF ThreadOK
  <2> QED
    BY <1>3, <1>5, <2>1 DEF Live, NoRefs
<1>10. ASSUME NEW c \in Cells \ TakenIn(st), NEW i \in DOMAIN h[c].args PROVE Live(h, h[c].args[i])
  <2>1. Means(h, TakenIn(st), h[c].args[i])
    BY DEF World, ListMeans
  <2> QED
    BY <1>4, <1>5, <2>1 DEF Live
<1> QED
  BY <1>7, <1>8, <1>9, <1>10

(***************************************************************************)
(* The steps on the heap.                                                  *)
(***************************************************************************)
LEMMA DupIs ==
  ASSUME NEW h, HeapOK(h), NEW refs, NEW h2, h2 = Dup(h, refs)
  PROVE  /\ DOMAIN h2 = Objects /\ \A o \in Objects : h2[o].fn = h[o].fn /\ h2[o].args = h[o].args
         /\ \A o \in Statics : h2[o] = h[o]
         /\ \A o \in Atoms \cup Cells : h2[o].rc = h[o].rc + Count(refs, o)
<1>1. \A o \in Objects : ObjectOK(o, h[o])
  BY DEF HeapOK
<1>2. ASSUME NEW o \in Objects PROVE h2[o].fn = h[o].fn /\ h2[o].args = h[o].args
  <2>1. h[o] = [fn |-> h[o].fn, args |-> h[o].args, rc |-> h[o].rc]
    BY <1>1 DEF ObjectOK
  <2> QED
    BY <2>1 DEF Dup
<1>3. ASSUME NEW o \in Statics PROVE h2[o] = h[o]
  <2>1. h[o].rc = Immortal /\ o \in Objects
    BY <1>1, ObjectsApart DEF ObjectOK
  <2> QED
    BY <2>1 DEF Dup, Counted
<1>4. ASSUME NEW o \in Atoms \cup Cells PROVE h2[o].rc = h[o].rc + Count(refs, o)
  <2>1. o \in Objects /\ o # Null /\ h[o].rc \in Nat /\ h[o] = [fn |-> h[o].fn, args |-> h[o].args, rc |-> h[o].rc]
    BY <1>1, ObjectsApart DEF ObjectOK
  <2>2. Counted(h, o)
    BY <2>1 DEF Counted, Immortal
  <2> QED
    BY <2>1, <2>2 DEF Dup, Count
<1>5. DOMAIN h2 = Objects
  BY DEF Dup
<1> QED
  BY <1>2, <1>3, <1>4, <1>5

LEMMA DupOK ==
  ASSUME NEW h, HeapOK(h), NEW refs, IsList(refs), NEW tk, ListMeans(h, tk, refs), \A i \in DOMAIN refs : Live(h, refs[i])
  PROVE  HeapOK(Dup(h, refs)) /\ \A o \in Cells : (\A i \in DOMAIN refs : refs[i].o # o) => Dup(h, refs)[o].rc = h[o].rc
<1> DEFINE h2 == Dup(h, refs)
<1>1. /\ DOMAIN h2 = Objects /\ \A o \in Objects : h2[o].fn = h[o].fn /\ h2[o].args = h[o].args
      /\ \A o \in Statics : h2[o] = h[o]
      /\ \A o \in Atoms \cup Cells : h2[o].rc = h[o].rc + Count(refs, o)
  BY DupIs
<1>2. \A o \in Objects : h2[o] = [fn |-> h2[o].fn, args |-> h2[o].args, rc |-> h2[o].rc]
  <2>1. ASSUME NEW o \in Objects PROVE h2[o] = [fn |-> h2[o].fn, args |-> h2[o].args, rc |-> h2[o].rc]
    <3>1. h[o] = [fn |-> h[o].fn, args |-> h[o].args, rc |-> h[o].rc]
      BY DEF HeapOK, ObjectOK
    <3> QED
      BY <3>1 DEF Dup
  <2> QED
    BY <2>1
<1> HIDE DEF h2
<1>3. \A o \in Objects : ObjectOK(o, h[o])
  BY DEF HeapOK
<1>4. IsSeq(refs)
  BY DEF IsList
<1>5. ASSUME NEW o, \A i \in DOMAIN refs : refs[i].o # o PROVE Count(refs, o) = 0
  BY <1>4, <1>5, FS_EmptySet DEF Count, Slots
<1>6. ASSUME NEW o \in Objects PROVE ObjectOK(o, h2[o])
  <2>0. ObjectOK(o, h[o])
    BY <1>3
  <2>1. CASE o \in Statics
    BY <1>1, <2>0, <2>1
  <2>2. CASE o \in Atoms
    <3>1. o \notin Statics /\ o \notin Cells /\ Count(refs, o) \in Nat
      BY <1>4, <2>2, CountIs, ObjectsApart
    <3>3. h[o].rc \in Nat
      BY <2>0, <2>2 DEF ObjectOK
    <3>2. h[o].rc \in Nat /\ h2[o].rc \in Nat
      BY <1>1, <2>2, <3>1, <3>3
    <3> QED
      BY <1>1, <1>2, <2>0, <2>2, <3>1, <3>2 DEF ObjectOK
  <2>3. CASE o \in Cells
    <3>1. o \notin Statics /\ o \notin Atoms /\ Count(refs, o) \in Nat /\ h[o].rc \in Nat
      BY <2>0, <1>4, <2>3, CountIs, ObjectsApart DEF ObjectOK
    <3>2. CASE \A i \in DOMAIN refs : refs[i].o # o
      <4>1. h2[o] = h[o]
        <5>1. h2[o].rc = h[o].rc /\ h[o] = [fn |-> h[o].fn, args |-> h[o].args, rc |-> h[o].rc]
          BY <1>1, <2>0, <1>5, <2>3, <3>1, <3>2 DEF ObjectOK
        <5> QED
          BY <1>1, <1>2, <5>1
      <4> QED
        BY <2>0, <4>1
    <3>3. CASE ~(\A i \in DOMAIN refs : refs[i].o # o)
      <4>1. PICK i \in DOMAIN refs : refs[i].o = o
        BY <3>3
      <4>2. o # Null
        BY ObjectsApart
      <4>3. h[o].rc # 0 /\ ~Sat(refs[i].v) /\ refs[i].v = [fn |-> h[o].fn, args |-> Values(h[o].args)]
        BY <4>1, <4>2 DEF Live, IsList, Good, ListMeans, Means
      <4>4. Len(Values(h[o].args)) = Len(h[o].args)
        BY <2>0, ValuesAre DEF ObjectOK, IsList
      <4>5. h[o].fn \in Fns /\ Len(h[o].args) # Arity[h[o].fn]
        <5>1. h[o].fn \in Fns
          BY <2>0, <2>3, <4>3 DEF ObjectOK
        <5>2. refs[i].v.fn = h[o].fn /\ refs[i].v.args = Values(h[o].args)
          BY <4>3
        <5> QED
          BY <4>3, <4>4, <5>1, <5>2 DEF Sat
      <4>6. h2[o].rc \in Nat /\ h2[o].rc # 0
        BY <1>1, <2>3, <3>1, <4>3
      <4> QED
        BY <1>1, <1>2, <2>0, <2>3, <3>1, <4>3, <4>5, <4>6 DEF ObjectOK
    <3> QED
      BY <3>2, <3>3
  <2> QED
    BY <2>1, <2>2, <2>3, ObjectsApart
<1>7. ASSUME NEW o \in Cells, \A i \in DOMAIN refs : refs[i].o # o PROVE h2[o].rc = h[o].rc
  <2>1. h[o].rc \in Nat /\ Count(refs, o) = 0
    BY <1>3, <1>5, <1>7, ObjectsApart DEF ObjectOK
  <2> QED
    BY <1>1, <2>1
<1>8. HeapOK(h2)
  BY <1>1, <1>6 DEF HeapOK
<1> QED
  BY <1>7, <1>8 DEF h2

LEMMA UnusedOK ==
  ASSUME NEW o, o \in Atoms \cup Cells
  PROVE  ObjectOK(o, Unused)
<1>1. Unused = [fn |-> Unused.fn, args |-> Unused.args, rc |-> Unused.rc] /\ Unused.fn = "-" /\ Unused.args = <<>> /\ Unused.rc = 0
  BY DEF Unused
<1>2. "-" \notin Fns
  BY ClosureConstants
<1>3. o \notin Statics
  BY ObjectsApart
<1> QED
  BY <1>1, <1>2, <1>3, ListNone DEF ObjectOK

LEMMA ReleaseIs ==
  ASSUME NEW h, HeapOK(h), NEW o \in Objects \cup {Null}, o \in Atoms \cup Cells => h[o].rc # 0
  PROVE  /\ \A p \in Objects \ {o} : Release(h, o)[p] = h[p]
         /\ o \in Statics => Release(h, o) = h
         /\ o \in Atoms \cup Cells => Release(h, o)[o].rc = h[o].rc - 1
         /\ o \in Atoms \cup Cells /\ h[o].rc = 1 => Release(h, o)[o] = Unused
         /\ o \in Objects /\ h[o].rc # 1 => Release(h, o)[o].fn = h[o].fn /\ Release(h, o)[o].args = h[o].args
         /\ HeapOK(Release(h, o))
<1> DEFINE h2 == Release(h, o)
<1>1. DOMAIN h = Objects /\ \A p \in Objects : ObjectOK(p, h[p])
  BY DEF HeapOK
<1>2. CASE o = Null
  <2>1. h2 = h
    BY <1>2 DEF Release, Counted
  <2>2. Null \notin Objects
    BY ObjectsApart
  <2> QED
    BY <1>2, <2>1, <2>2, ObjectsApart
<1>3. CASE o \in Statics
  <2>1. h[o].rc = Immortal
    BY <1>1, <1>3, ObjectsApart DEF ObjectOK
  <2>2. h2 = h
    BY <2>1 DEF Release, Counted
  <2> QED
    BY <1>3, <2>1, <2>2, ObjectsApart
<1>4. CASE o \in Atoms \cup Cells
  <2>0. ObjectOK(o, h[o]) /\ o \in Objects /\ o # Null /\ o \notin Statics
    BY <1>1, <1>4, ObjectsApart
  <2>1. h[o].rc \in Nat /\ h[o].rc # 0
    BY <1>4, <2>0 DEF ObjectOK
  <2>2. Counted(h, o)
    BY <2>0, <2>1 DEF Counted, Immortal
  <2>3. CASE h[o].rc = 1
    <3>1. h2 = [h EXCEPT ![o] = Unused]
      BY <2>2, <2>3 DEF Release
    <3>2. DOMAIN h2 = Objects /\ h2[o] = Unused /\ \A p \in Objects \ {o} : h2[p] = h[p]
      BY <1>1, <2>0, <3>1
    <3>3. ObjectOK(o, h2[o])
      BY <1>4, <3>2, UnusedOK
    <3>4. Unused.rc = 0
      BY DEF Unused
    <3> HIDE DEF h2
    <3>5. HeapOK(h2)
      BY <1>1, <3>2, <3>3 DEF HeapOK
    <3> QED
      BY <2>0, <2>3, <3>2, <3>4, <3>5 DEF h2
  <2>4. CASE h[o].rc # 1
    <3>1. h2 = [h EXCEPT ![o].rc = @ - 1]
      BY <2>2, <2>4 DEF Release
    <3>0. h[o] = [fn |-> h[o].fn, args |-> h[o].args, rc |-> h[o].rc]
      BY <2>0 DEF ObjectOK
    <3>2. DOMAIN h2 = Objects /\ h2[o] = [fn |-> h[o].fn, args |-> h[o].args, rc |-> h[o].rc - 1] /\ \A p \in Objects \ {o} : h2[p] = h[p]
      BY <1>1, <2>0, <3>0, <3>1
    <3> HIDE DEF h2
    <3>3. h2[o].fn = h[o].fn /\ h2[o].args = h[o].args /\ h2[o].rc = h[o].rc - 1 /\ h2[o].rc \in Nat /\ h2[o].rc # 0
      BY <2>1, <2>4, <3>2
    <3>4. ObjectOK(o, h2[o])
      BY <1>4, <2>0, <2>1, <2>4, <3>2, <3>3 DEF ObjectOK
    <3>5. HeapOK(h2)
      BY <1>1, <3>2, <3>4 DEF HeapOK
    <3> QED
      BY <2>0, <2>4, <3>2, <3>3, <3>5 DEF h2
  <2> QED
    BY <2>3, <2>4
<1> QED
  BY <1>2, <1>3, <1>4, ObjectsApart

\* A cell given a function, arguments and a count of one.
MadeAt(h, h2, z, f, args) ==
  /\ DOMAIN h2 = Objects /\ h2[z] = [fn |-> f, args |-> args, rc |-> 1] /\ \A o \in Objects \ {z} : h2[o] = h[o]

LEMMA CellMade ==
  ASSUME NEW h, HeapOK(h), NEW z \in Cells, NEW f \in Fns, NEW args, IsList(args), Len(args) <= Arity[f],
         NEW h2, MadeAt(h, h2, z, f, args)
  PROVE  HeapOK(h2)
<1>1. ObjectOK(z, h2[z])
  <2>1. h2[z].fn = f /\ h2[z].args = args /\ h2[z].rc = 1 /\ z \notin Atoms /\ z \notin Statics
        /\ h2[z] = [fn |-> h2[z].fn, args |-> h2[z].args, rc |-> h2[z].rc]
    BY ObjectsApart DEF MadeAt
  <2> QED
    BY <2>1 DEF ObjectOK
<1> QED
  BY <1>1, ObjectsApart DEF HeapOK, MadeAt

(***************************************************************************)
(* What the frames of a stack hold.                                        *)
(***************************************************************************)
LEMMA MeansOne ==
  ASSUME NEW h, NEW tk, NEW r
  PROVE  ListMeans(h, tk, <<r>>) <=> Means(h, tk, r)
BY SingleSeq DEF ListMeans

LEMMA MeansNone ==
  ASSUME NEW h, NEW tk
  PROVE  ListMeans(h, tk, <<>>) /\ Means(h, tk, Unit) /\ StackMeans(h, tk, <<>>)
BY NoSeq DEF ListMeans, StackMeans, Means, Unit

LEMMA MeansJoin ==
  ASSUME NEW h, NEW tk, NEW s, NEW u, IsSeq(s), IsSeq(u)
  PROVE  ListMeans(h, tk, s \o u) <=> ListMeans(h, tk, s) /\ ListMeans(h, tk, u)
<1>1. /\ DOMAIN s = 1..Len(s) /\ DOMAIN u = 1..Len(u) /\ Len(s) \in Nat /\ Len(u) \in Nat
      /\ DOMAIN (s \o u) = 1..(Len(s) + Len(u))
      /\ \A i \in 1..Len(s) : (s \o u)[i] = s[i]
      /\ \A i \in 1..Len(u) : (s \o u)[Len(s) + i] = u[i]
  BY SeqIs, Joined
<1>2. ASSUME ListMeans(h, tk, s), ListMeans(h, tk, u) PROVE ListMeans(h, tk, s \o u)
  BY <1>2, JoinedParts DEF ListMeans
<1>3. ASSUME ListMeans(h, tk, s \o u) PROVE ListMeans(h, tk, s) /\ ListMeans(h, tk, u)
  <2>1. \A i \in DOMAIN s : i \in DOMAIN (s \o u) /\ (s \o u)[i] = s[i]
    BY <1>1
  <2>2. \A i \in DOMAIN u : Len(s) + i \in DOMAIN (s \o u) /\ (s \o u)[Len(s) + i] = u[i]
    BY <1>1
  <2> QED
    BY <1>3, <2>1, <2>2 DEF ListMeans
<1> QED
  BY <1>2, <1>3

LEMMA MeansTail ==
  ASSUME NEW h, NEW tk, NEW s, IsSeq(s), s # <<>>, ListMeans(h, tk, s)
  PROVE  Means(h, tk, Head(s)) /\ ListMeans(h, tk, Tail(s))
<1>1. s = <<Head(s)>> \o Tail(s) /\ IsSeq(Tail(s)) /\ IsSeq(<<Head(s)>>)
  BY HeadTail, SingleSeq
<1>2. ListMeans(h, tk, <<Head(s)>> \o Tail(s))
  BY <1>1
<1> QED
  BY <1>1, <1>2, MeansJoin, MeansOne

LEMMA MeansWithout ==
  ASSUME NEW h, NEW tk, NEW s, IsSeq(s), ListMeans(h, tk, s), NEW i \in DOMAIN s
  PROVE  ListMeans(h, tk, Without(s, i)) /\ Means(h, tk, s[i])
<1>1. \A k \in DOMAIN Without(s, i) : \E j \in DOMAIN s : Without(s, i)[k] = s[j]
  BY WithoutIs
<1> QED
  BY <1>1 DEF ListMeans

LEMMA MeansWithout2 ==
  ASSUME NEW h, NEW tk, NEW s, IsSeq(s), ListMeans(h, tk, s), NEW i \in DOMAIN s, NEW j \in DOMAIN s, i # j
  PROVE  ListMeans(h, tk, Without2(s, i, j))
<1>1. \A k \in DOMAIN Without2(s, i, j) : \E n \in DOMAIN s : Without2(s, i, j)[k] = s[n]
  BY CountWithout2
<1> QED
  BY <1>1 DEF ListMeans

LEMMA FrameHolds ==
  ASSUME NEW x, IsFrame(x)
  PROVE  /\ IsSeq(FrameRefs(x)) /\ IsSeq(x.xs)
         /\ \A o \in Objects : /\ FrameCount(x, o) = One(x.c, o) + Count(x.xs, o)
                               /\ One(x.c, o) \in {0, 1} /\ Count(x.xs, o) \in Nat
         /\ \A h, tk : ListMeans(h, tk, FrameRefs(x)) <=> (x.k # "body" => Means(h, tk, x.c)) /\ ListMeans(h, tk, x.xs)
<1>1. IsSeq(x.xs) /\ IsSeq(<<x.c>>)
  BY SingleSeq DEF IsFrame, IsList
<1>2. IsSeq(<<x.c>> \o x.xs)
  BY <1>1, Joined
<1>3. \A o : One(x.c, o) \in {0, 1}
  BY DEF One
<1>4. \A o : Count(x.xs, o) \in Nat
  BY <1>1, CountIs
<1>5. CASE x.k = "body"
  <2>1. x.c.o = Null /\ Null \notin Objects
    BY <1>5, ObjectsApart DEF IsFrame
  <2>2. FrameRefs(x) = x.xs
    BY <1>5 DEF FrameRefs
  <2>3. \A o \in Objects : One(x.c, o) = 0
    BY <2>1 DEF One
  <2>4. \A o \in Objects : FrameCount(x, o) = One(x.c, o) + Count(x.xs, o)
    BY <1>4, <2>2, <2>3 DEF FrameCount
  <2> QED
    BY <1>1, <1>3, <1>4, <1>5, <2>2, <2>4
<1>6. CASE x.k # "body"
  <2>1. FrameRefs(x) = <<x.c>> \o x.xs
    BY <1>6 DEF FrameRefs
  <2>2. \A o \in Objects : FrameCount(x, o) = One(x.c, o) + Count(x.xs, o)
    BY <1>1, <2>1, CountJoin, CountOne DEF FrameCount
  <2>3. ASSUME NEW h, NEW tk PROVE ListMeans(h, tk, FrameRefs(x)) <=> Means(h, tk, x.c) /\ ListMeans(h, tk, x.xs)
    BY <1>1, <2>1, MeansJoin, MeansOne
  <2> QED
    BY <1>1, <1>2, <1>3, <1>4, <1>6, <2>1, <2>2, <2>3
<1> QED
  BY <1>5, <1>6

LEMMA CountCons ==
  ASSUME NEW u, Framed(u), NEW x, IsFrame(x), NEW o \in Objects
  PROVE  /\ StackCount(<<x>> \o u, o) = One(x.c, o) + Count(x.xs, o) + StackCount(u, o)
         /\ StackCount(u, o) \in Nat /\ One(x.c, o) \in Nat /\ Count(x.xs, o) \in Nat
<1>1. IsStack(u) /\ IsSeq(FrameRefs(x))
  BY FramesStack, FrameHolds
<1>2. IsStack(<<x>>) /\ StackCount(<<x>>, o) = FrameCount(x, o)
  BY <1>1, StackSingle
<1>3. StackCount(<<x>> \o u, o) = StackCount(<<x>>, o) + StackCount(u, o)
  BY <1>1, <1>2, StackJoin
<1>4. StackCount(u, o) \in Nat
  BY <1>1, StackFinite
<1>5. FrameCount(x, o) = One(x.c, o) + Count(x.xs, o) /\ One(x.c, o) \in {0, 1} /\ Count(x.xs, o) \in Nat
  BY FrameHolds
<1> QED
  BY <1>2, <1>3, <1>4, <1>5

LEMMA MeansCons ==
  ASSUME NEW u, IsSeq(u), NEW x, IsFrame(x), NEW h, NEW tk
  PROVE  StackMeans(h, tk, <<x>> \o u) <=>
           /\ StackMeans(h, tk, u)
           /\ x.k # "shell" => (x.k # "body" => Means(h, tk, x.c)) /\ ListMeans(h, tk, x.xs)
<1> DEFINE P(f) == f.k # "shell" => ListMeans(h, tk, FrameRefs(f))
<1>1. P(x) <=> (x.k # "shell" => (x.k # "body" => Means(h, tk, x.c)) /\ ListMeans(h, tk, x.xs))
  BY FrameHolds
<1> HIDE DEF P
<1>2. (\A i \in DOMAIN (<<x>> \o u) : P((<<x>> \o u)[i])) <=> P(x) /\ \A i \in DOMAIN u : P(u[i])
  <2> DEFINE s == <<x>> \o u
  <2>1. /\ Len(u) \in Nat /\ DOMAIN s = 1..(Len(u) + 1) /\ DOMAIN u = 1..Len(u) /\ s[1] = x
        /\ \A i \in 1..Len(u) : s[i + 1] = u[i]
        /\ \A i \in 1..(Len(u) + 1) : i # 1 => i - 1 \in 1..Len(u) /\ s[i] = u[i - 1]
    BY SMTT(30), ConsIs
  <2> HIDE DEF s
  <2>2. ASSUME \A i \in DOMAIN s : P(s[i]) PROVE P(x) /\ \A i \in DOMAIN u : P(u[i])
    <3>1. P(x)
      BY <2>1, <2>2
    <3>2. \A i \in DOMAIN u : i + 1 \in DOMAIN s /\ s[i + 1] = u[i]
      BY <2>1
    <3> QED
      BY <2>2, <3>1, <3>2
  <2>3. ASSUME P(x), \A i \in DOMAIN u : P(u[i]) PROVE \A i \in DOMAIN s : P(s[i])
    BY <2>1, <2>3
  <2> QED
    BY <2>2, <2>3 DEF s
<1>3. StackMeans(h, tk, <<x>> \o u) <=> \A i \in DOMAIN (<<x>> \o u) : P((<<x>> \o u)[i])
  BY DEF StackMeans, P
<1>4. StackMeans(h, tk, u) <=> \A i \in DOMAIN u : P(u[i])
  BY DEF StackMeans, P
<1> QED
  BY <1>1, <1>2, <1>3, <1>4

LEMMA ShellsCons ==
  ASSUME NEW u, IsSeq(u), NEW x
  PROVE  ShellsOf(<<x>> \o u) = ShellsOf(u) \cup (IF x.k = "shell" THEN {x.c.o} ELSE {})
<1> DEFINE s == <<x>> \o u
<1>1. /\ Len(u) \in Nat /\ DOMAIN s = 1..(Len(u) + 1) /\ DOMAIN u = 1..Len(u) /\ s[1] = x
      /\ \A i \in 1..Len(u) : s[i + 1] = u[i]
      /\ \A i \in 1..(Len(u) + 1) : i # 1 => i - 1 \in 1..Len(u) /\ s[i] = u[i - 1]
  BY ConsIs
<1> HIDE DEF s
<1>2. ASSUME NEW c, c \in ShellsOf(u) PROVE c \in ShellsOf(s)
  <2>1. PICK i \in DOMAIN u : u[i].k = "shell" /\ c = u[i].c.o
    BY <1>2 DEF ShellsOf
  <2>2. i + 1 \in DOMAIN s /\ s[i + 1] = u[i]
    BY <1>1
  <2> QED
    BY <2>1, <2>2 DEF ShellsOf
<1>3. x.k = "shell" => x.c.o \in ShellsOf(s)
  <2>1. 1 \in DOMAIN s /\ s[1] = x
    BY <1>1
  <2> QED
    BY <2>1 DEF ShellsOf
<1>4. ASSUME NEW c, c \in ShellsOf(s) PROVE c \in ShellsOf(u) \/ (x.k = "shell" /\ c = x.c.o)
  <2>1. PICK i \in DOMAIN s : s[i].k = "shell" /\ c = s[i].c.o
    BY <1>4 DEF ShellsOf
  <2>2. CASE i = 1
    BY <1>1, <2>1, <2>2
  <2>3. CASE i # 1
    <3>1. i - 1 \in DOMAIN u /\ s[i] = u[i - 1]
      BY <1>1, <2>3
    <3> QED
      BY <2>1, <3>1 DEF ShellsOf
  <2> QED
    BY <2>2, <2>3
<1>5. ASSUME NEW c PROVE c \in ShellsOf(s) <=> c \in ShellsOf(u) \cup (IF x.k = "shell" THEN {x.c.o} ELSE {})
  BY <1>2, <1>3, <1>4
<1> QED
  BY <1>5 DEF s

LEMMA DropHolds ==
  ASSUME NEW l, IsList(l), NEW u, Framed(u)
  PROVE  /\ \A o \in Objects : /\ StackCount(Drop(l) \o u, o) = Count(l, o) + StackCount(u, o)
                               /\ Count(l, o) \in Nat /\ StackCount(u, o) \in Nat
         /\ \A h, tk : StackMeans(h, tk, Drop(l) \o u) <=> ListMeans(h, tk, l) /\ StackMeans(h, tk, u)
         /\ ShellsOf(Drop(l) \o u) = ShellsOf(u)
         /\ Framed(Drop(l) \o u)
<1>1. IsSeq(u) /\ IsStack(u) /\ IsSeq(l)
  BY FramesStack DEF Framed, IsList
<1>2. \A o \in Objects : Count(l, o) \in Nat /\ StackCount(u, o) \in Nat
  BY <1>1, CountIs, StackFinite
<1>3. CASE l = <<>>
  <2>1. Drop(l) \o u = u
    BY <1>1, <1>3, JoinNone DEF Drop
  <2>2. \A o : Count(l, o) = 0
    BY <1>3, CountNone
  <2>3. \A h, tk : ListMeans(h, tk, l)
    BY <1>3, MeansNone
  <2> QED
    BY <1>2, <2>1, <2>2, <2>3
<1>4. CASE l # <<>>
  <2>1. Drop(l) = <<Dropped(l)>> /\ IsFrame(Dropped(l)) /\ Dropped(l).k = "drop" /\ Dropped(l).xs = l /\ Dropped(l).c = Unit
    BY <1>4, DropFrame DEF Drop, Dropped
  <2>2. \A o \in Objects : One(Unit, o) = 0
    BY ObjectsApart DEF One, Unit
  <2>3. ASSUME NEW o \in Objects PROVE StackCount(Drop(l) \o u, o) = Count(l, o) + StackCount(u, o)
    <3>1. StackCount(<<Dropped(l)>> \o u, o) = One(Dropped(l).c, o) + Count(Dropped(l).xs, o) + StackCount(u, o)
      BY <2>1, CountCons
    <3>2. One(Dropped(l).c, o) = 0 /\ Count(Dropped(l).xs, o) = Count(l, o)
      BY <2>1, <2>2
    <3> QED
      BY <1>2, <2>1, <3>1, <3>2
  <2>4. ASSUME NEW h, NEW tk PROVE StackMeans(h, tk, Drop(l) \o u) <=> ListMeans(h, tk, l) /\ StackMeans(h, tk, u)
    <3>1. StackMeans(h, tk, <<Dropped(l)>> \o u) <=>
            /\ StackMeans(h, tk, u)
            /\ Dropped(l).k # "shell" => (Dropped(l).k # "body" => Means(h, tk, Dropped(l).c)) /\ ListMeans(h, tk, Dropped(l).xs)
      BY <1>1, <2>1, MeansCons
    <3>2. Means(h, tk, Dropped(l).c)
      BY <2>1, MeansNone
    <3> QED
      BY <2>1, <3>1, <3>2
  <2>5. ShellsOf(Drop(l) \o u) = ShellsOf(u)
    <3>1. ShellsOf(<<Dropped(l)>> \o u) = ShellsOf(u) \cup (IF Dropped(l).k = "shell" THEN {Dropped(l).c.o} ELSE {})
      BY <1>1, ShellsCons
    <3> QED
      BY <2>1, <3>1
  <2>6. Framed(Drop(l) \o u)
    BY <1>1, <2>1, FramedCons
  <2> QED
    BY <1>2, <2>3, <2>4, <2>5, <2>6
<1> QED
  BY <1>3, <1>4

\* Frames written one after the other.
LEMMA TwoOn ==
  ASSUME NEW x, NEW y, NEW u, IsSeq(u)
  PROVE  <<x, y>> \o u = <<x>> \o (<<y>> \o u)
BY PairSeq, SingleSeq, JoinThree

LEMMA ThreeOn ==
  ASSUME NEW x, NEW y, NEW w, NEW u, IsSeq(u)
  PROVE  <<x, y, w>> \o u = <<x>> \o (<<y>> \o (<<w>> \o u))
<1>1. <<x, y, w>> = <<x, y>> \o <<w>>
  OBVIOUS
<1>2. IsSeq(<<x, y>>) /\ IsSeq(<<w>>) /\ IsSeq(<<w>> \o u)
  BY PairSeq, SingleSeq, Joined
<1>3. (<<x, y>> \o <<w>>) \o u = <<x, y>> \o (<<w>> \o u)
  BY <1>2, JoinThree
<1>4. <<x, y>> \o (<<w>> \o u) = <<x>> \o (<<y>> \o (<<w>> \o u))
  <2> DEFINE v == <<w>> \o u
  <2>1. IsSeq(v)
    BY <1>2
  <2> HIDE DEF v
  <2>2. <<x, y>> \o v = <<x>> \o (<<y>> \o v)
    BY <2>1, TwoOn
  <2> QED
    BY <2>2 DEF v
<1> QED
  BY <1>1, <1>3, <1>4

(***************************************************************************)
(* A step that leaves every closure's arguments alone.                     *)
(***************************************************************************)
Moved(hd, st, rt, h, hd2, st2, rt2, h2, t) ==
  /\ DOMAIN hd2 = Threads /\ DOMAIN st2 = Threads /\ DOMAIN rt2 = Threads
  /\ \A u \in Threads \ {t} : hd2[u] = hd[u] /\ st2[u] = st[u] /\ rt2[u] = rt[u]
  /\ HeapOK(h2) /\ \A o \in Objects : h2[o].fn = h[o].fn /\ h2[o].args = h[o].args
  /\ \A c \in TakenIn(st) : h2[c].rc = h[c].rc
  /\ \A c \in Cells : c \in ShellsOf(st2[t]) <=> c \in ShellsOf(st[t])
  /\ HandOK(hd2[t]) /\ HandMeans(h, TakenIn(st), hd2[t])
  /\ Sound(st2[t]) /\ Fit(st2[t], rt2[t]) /\ StackMeans(h, TakenIn(st), st2[t])
  /\ (rt2[t] # Nothing => Means(h, TakenIn(st), rt2[t]))
  /\ \A o \in Atoms \cup Cells :
       h2[o].rc + Hold(hd[t], st[t], rt[t], o) = h[o].rc + Hold(hd2[t], st2[t], rt2[t], o)

LEMMA MoveStep ==
  ASSUME NEW hd, NEW st, NEW rt, NEW h, NEW hd2, NEW st2, NEW rt2, NEW h2, NEW t \in Threads,
         World(hd, st, rt, h), Moved(hd, st, rt, h, hd2, st2, rt2, h2, t)
  PROVE  World(hd2, st2, rt2, h2)
<1> DEFINE z == First
<1>1. z \in Cells /\ z \in Objects
  BY StartConstants, ObjectsApart
<1> HIDE DEF z
<1>0. /\ DOMAIN hd2 = Threads /\ DOMAIN st2 = Threads /\ DOMAIN rt2 = Threads
      /\ \A u \in Threads \ {t} : hd2[u] = hd[u] /\ st2[u] = st[u] /\ rt2[u] = rt[u]
      /\ HeapOK(h2) /\ (\A o \in Objects : h2[o].fn = h[o].fn /\ h2[o].args = h[o].args)
      /\ (\A c \in TakenIn(st) : h2[c].rc = h[c].rc)
      /\ (\A c \in Cells : c \in ShellsOf(st2[t]) <=> c \in ShellsOf(st[t]))
      /\ HandOK(hd2[t]) /\ HandMeans(h, TakenIn(st), hd2[t])
      /\ Sound(st2[t]) /\ Fit(st2[t], rt2[t]) /\ StackMeans(h, TakenIn(st), st2[t])
      /\ (rt2[t] # Nothing => Means(h, TakenIn(st), rt2[t]))
  BY DEF Moved
<1>2. Local(hd, st, rt, h, hd2, st2, rt2, h2, t, z)
  <2>1. \A o \in Objects \ {z} : h2[o].fn = h[o].fn /\ h2[o].args = h[o].args
    BY <1>0
  <2>2. \A c \in Cells \ {z} : c \in ShellsOf(st2[t]) <=> c \in ShellsOf(st[t])
    BY <1>0
  <2>3. \A c \in TakenIn(st) \ {z} : h2[c].rc = h[c].rc
    BY <1>0
  <2> QED
    BY <1>0, <2>1, <2>2, <2>3 DEF Local
<1>3. z \in TakenIn(st2) <=> z \in TakenIn(st)
  <2>1. \A u \in Threads : z \in ShellsOf(st2[u]) <=> z \in ShellsOf(st[u])
    <3> SUFFICES ASSUME NEW u \in Threads PROVE z \in ShellsOf(st2[u]) <=> z \in ShellsOf(st[u])
      OBVIOUS
    <3>1. CASE u = t
      BY <1>0, <1>1, <3>1
    <3>2. CASE u # t
      BY <1>0, <3>2
    <3> QED
      BY <3>1, <3>2
  <2> QED
    BY <2>1 DEF TakenIn
<1>4. h2[z].args = h[z].args /\ h2[z].fn = h[z].fn
  BY <1>0, <1>1
<1>5. Balanced(hd, st, rt, h, hd2, st2, rt2, h2, t, z)
  <2>1. ASSUME NEW o \in Atoms \cup Cells
        PROVE  h2[o].rc + Hold(hd[t], st[t], rt[t], o) + CellCount(TakenIn(st), h, z, o)
                 = h[o].rc + Hold(hd2[t], st2[t], rt2[t], o) + CellCount(TakenIn(st2), h2, z, o)
    <3>1. CellCount(TakenIn(st), h, z, o) = CellCount(TakenIn(st2), h2, z, o)
      BY <1>3, <1>4 DEF CellCount, CellRefs
    <3>2. h2[o].rc + Hold(hd[t], st[t], rt[t], o) = h[o].rc + Hold(hd2[t], st2[t], rt2[t], o)
      BY DEF Moved
    <3> QED
      BY <3>1, <3>2
  <2> QED
    BY <2>1 DEF Balanced
<1>6. Kept(TakenIn(st), TakenIn(st2), h, h2, z)
  BY <1>0, <1>3, <1>4 DEF Kept
<1>7. Named(h, TakenIn(st), h2, TakenIn(st2), hd2[t], st2[t], rt2[t], z)
  BY <1>0 DEF Named
<1> QED
  BY <1>1, <1>2, <1>5, <1>6, <1>7, WorldStep

\* What a thread's top frame is and holds.
TopOf(h, tk, s, x, u) ==
  /\ s = <<x>> \o u /\ IsSeq(u) /\ Framed(u) /\ Sound(u) /\ IsFrame(x)
  /\ (x.k # "drop" => Calm(u)) /\ (Fills(x) => Reach(u, 0)) /\ (x.k \in Opener \cup {"more"} => Closed(u))
  /\ StackMeans(h, tk, u)
  /\ x.k # "shell" => (x.k # "body" => Means(h, tk, x.c)) /\ ListMeans(h, tk, x.xs)
  /\ (x.k # "body" => Live(h, x.c)) /\ \A i \in DOMAIN x.xs : Live(h, x.xs[i])

LEMMA TopIs ==
  ASSUME NEW hd, NEW st, NEW rt, NEW h, World(hd, st, rt, h), NEW t \in Threads, st[t] # <<>>
  PROVE  TopOf(h, TakenIn(st), st[t], Head(st[t]), Tail(st[t]))
<1> DEFINE x == Head(st[t])  u == Tail(st[t])
<1>1. Sound(st[t]) /\ StackMeans(h, TakenIn(st), st[t])
  BY DEF World, ThreadOK
<1>2. IsSeq(st[t])
  BY <1>1 DEF Sound, Framed
<1>3. st[t] = <<x>> \o u /\ IsSeq(u) /\ st[t][1] = x /\ 1 \in DOMAIN st[t]
  BY <1>2, HeadTail, EmptyOr
<1> HIDE DEF x, u
<1>4. Sound(<<x>> \o u) /\ StackMeans(h, TakenIn(st), <<x>> \o u)
  BY <1>1, <1>3
<1>5. /\ Sound(u) /\ IsFrame(x) /\ (x.k # "drop" => Calm(u)) /\ (Fills(x) => Reach(u, 0))
      /\ (x.k \in Opener \cup {"more"} => Closed(u))
  BY <1>3, <1>4, SoundCons
<1>6. /\ StackMeans(h, TakenIn(st), u)
      /\ x.k # "shell" => (x.k # "body" => Means(h, TakenIn(st), x.c)) /\ ListMeans(h, TakenIn(st), x.xs)
  BY <1>3, <1>4, <1>5, MeansCons
<1>7. \A k \in DOMAIN FrameRefs(x) : Live(h, FrameRefs(x)[k])
  BY <1>3, WorldLive
<1>8. IsSeq(x.xs) /\ Len(x.xs) \in Nat /\ DOMAIN x.xs = 1..Len(x.xs)
  BY <1>5, SeqIs DEF IsFrame, IsList
<1>9. (x.k # "body" => Live(h, x.c)) /\ \A i \in DOMAIN x.xs : Live(h, x.xs[i])
  <2>1. CASE x.k = "body"
    BY <1>7, <2>1 DEF FrameRefs
  <2>2. CASE x.k # "body"
    <3>1. FrameRefs(x) = <<x.c>> \o x.xs
      BY <2>2 DEF FrameRefs
    <3>2. /\ DOMAIN (<<x.c>> \o x.xs) = 1..(Len(x.xs) + 1) /\ (<<x.c>> \o x.xs)[1] = x.c
          /\ \A i \in 1..Len(x.xs) : (<<x.c>> \o x.xs)[i + 1] = x.xs[i]
      BY <1>8, ConsIs
    <3> DEFINE fr == <<x.c>> \o x.xs
    <3> HIDE DEF fr
    <3>3. Live(h, x.c)
      <4>1. 1 \in DOMAIN FrameRefs(x) /\ FrameRefs(x)[1] = x.c
        <5>1. FrameRefs(x) = fr /\ DOMAIN fr = 1..(Len(x.xs) + 1) /\ fr[1] = x.c
          BY <3>1, <3>2 DEF fr
        <5> QED
          BY <1>8, <5>1
      <4> QED
        BY <1>7, <4>1
    <3>4. ASSUME NEW i \in DOMAIN x.xs PROVE Live(h, x.xs[i])
      <4>1. i + 1 \in DOMAIN FrameRefs(x) /\ FrameRefs(x)[i + 1] = x.xs[i]
        <5>1. FrameRefs(x) = fr /\ DOMAIN fr = 1..(Len(x.xs) + 1) /\ fr[i + 1] = x.xs[i]
          BY <1>8, <3>1, <3>2 DEF fr
        <5> QED
          BY <1>8, <5>1
      <4> QED
        BY <1>7, <4>1
    <3> QED
      BY <3>3, <3>4
  <2> QED
    BY <2>1, <2>2
<1>10. Framed(u)
  BY <1>5 DEF Sound
<1> QED
  BY <1>3, <1>5, <1>6, <1>9, <1>10 DEF TopOf, x, u

\* What an object that is named by a reference holds.
Holds(h, tk, q) ==
  /\ q.o \in Objects /\ q.o \notin tk /\ q.v = [fn |-> h[q.o].fn, args |-> Values(h[q.o].args)]
  /\ q.v.fn = h[q.o].fn /\ q.v.args = Values(h[q.o].args) /\ Len(q.v.args) = Len(h[q.o].args)
  /\ IsList(h[q.o].args) /\ ListMeans(h, tk, h[q.o].args)
  /\ \A i \in DOMAIN h[q.o].args : Live(h, h[q.o].args[i])

LEMMA HeldIs ==
  ASSUME NEW hd, NEW st, NEW rt, NEW h, World(hd, st, rt, h), NEW q, Means(h, TakenIn(st), q), q.o # Null
  PROVE  Holds(h, TakenIn(st), q)
<1>0. ASSUME q.o \in Objects \ TakenIn(st), q.v = [fn |-> h[q.o].fn, args |-> Values(h[q.o].args)],
             Len(q.v.args) = Len(h[q.o].args), IsList(h[q.o].args), ListMeans(h, TakenIn(st), h[q.o].args),
             \A i \in DOMAIN h[q.o].args : Live(h, h[q.o].args[i])
      PROVE  Holds(h, TakenIn(st), q)
  BY <1>0 DEF Holds
<1>1. q.o \in Objects \ TakenIn(st) /\ q.v = [fn |-> h[q.o].fn, args |-> Values(h[q.o].args)]
  BY DEF Means
<1>2. ObjectOK(q.o, h[q.o])
  BY <1>1 DEF World, HeapOK
<1>3. IsList(h[q.o].args) /\ IsSeq(h[q.o].args)
  BY <1>2 DEF ObjectOK, IsList
<1>4. Len(q.v.args) = Len(h[q.o].args)
  BY <1>1, <1>3, ValuesAre
<1>5. CASE q.o \in Cells
  <2>1. q.o \in Cells \ TakenIn(st)
    BY <1>1, <1>5
  <2>2. ListMeans(h, TakenIn(st), h[q.o].args)
    BY <2>1 DEF World
  <2>3. \A i \in DOMAIN h[q.o].args : Live(h, h[q.o].args[i])
    BY <2>1, WorldLive
  <2> QED
    BY <1>0, <1>1, <1>3, <1>4, <2>2, <2>3
<1>6. CASE q.o \in Statics
  <2>1. \A i \in DOMAIN h[q.o].args : h[q.o].args[i] = Unit
    BY <1>2, <1>6 DEF ObjectOK
  <2>2. Unit.o = Null
    BY DEF Unit
  <2>3. ListMeans(h, TakenIn(st), h[q.o].args)
    BY <2>1, MeansNone DEF ListMeans
  <2>4. \A i \in DOMAIN h[q.o].args : Live(h, h[q.o].args[i])
    BY <2>1, <2>2 DEF Live
  <2> QED
    BY <1>0, <1>1, <1>3, <1>4, <2>3, <2>4
<1>7. CASE q.o \in Atoms
  <2>1. h[q.o].args = <<>>
    BY <1>2, <1>7 DEF ObjectOK
  <2>2. ListMeans(h, TakenIn(st), h[q.o].args)
    BY <2>1, MeansNone
  <2>3. \A i \in DOMAIN h[q.o].args : Live(h, h[q.o].args[i])
    BY <2>1, NoSeq
  <2> QED
    BY <1>0, <1>1, <1>3, <1>4, <2>2, <2>3
<1> QED
  BY <1>1, <1>5, <1>6, <1>7, ObjectsApart

(***************************************************************************)
(* What is put on a stack.                                                 *)
(***************************************************************************)
LEMMA KindsApart ==
  /\ \A k \in Active : k \notin Pass /\ k # "more" /\ k # "drop" /\ k # "shell" /\ k # "nested" /\ k # "trampoline"
  /\ "trampoline" \in Opener /\ "trampoline" \notin Active
  /\ "shell" \notin Active \cup Opener /\ "nested" \notin Active \cup Opener /\ "more" \notin Active \cup Opener
  /\ "drop" \notin Active \cup Opener
BY DEF Active, Pass, Opener

LEMMA ActiveOn ==
  ASSUME NEW u, Sound(u), Calm(u), NEW x, IsFrame(x), x.k \in Active, Fills(x) => Reach(u, 0), x.k \in Opener => Closed(u)
  PROVE  /\ Sound(<<x>> \o u) /\ Fit(<<x>> \o u, Nothing) /\ ShellsOf(<<x>> \o u) = ShellsOf(u) /\ Framed(<<x>> \o u)
         /\ \A o \in Objects : /\ StackCount(<<x>> \o u, o) = One(x.c, o) + Count(x.xs, o) + StackCount(u, o)
                               /\ StackCount(u, o) \in Nat /\ One(x.c, o) \in Nat /\ Count(x.xs, o) \in Nat
         /\ \A h, tk : StackMeans(h, tk, <<x>> \o u) <=>
              StackMeans(h, tk, u) /\ (x.k # "body" => Means(h, tk, x.c)) /\ ListMeans(h, tk, x.xs)
<1>1. IsSeq(u) /\ Framed(u)
  BY DEF Sound, Framed
<1>2. Sound(<<x>> \o u)
  BY <1>1, SoundCons, KindsApart
<1>3. Fit(<<x>> \o u, Nothing)
  BY <1>1, FitActive
<1>4. ShellsOf(<<x>> \o u) = ShellsOf(u)
  BY <1>1, ShellsCons, KindsApart
<1>5. \A h, tk : StackMeans(h, tk, <<x>> \o u) <=>
              StackMeans(h, tk, u) /\ (x.k # "body" => Means(h, tk, x.c)) /\ ListMeans(h, tk, x.xs)
  BY <1>1, MeansCons, KindsApart
<1>6. \A o \in Objects : /\ StackCount(<<x>> \o u, o) = One(x.c, o) + Count(x.xs, o) + StackCount(u, o)
                         /\ StackCount(u, o) \in Nat /\ One(x.c, o) \in Nat /\ Count(x.xs, o) \in Nat
  BY <1>1, CountCons
<1>7. Framed(<<x>> \o u)
  BY <1>2 DEF Sound
<1> QED
  BY <1>2, <1>3, <1>4, <1>5, <1>6, <1>7

\* A frame without references.
LEMMA BareOn ==
  ASSUME NEW u, Sound(u), Calm(u), NEW k \in {"trampoline", "nested"}, k = "trampoline" => Closed(u),
         NEW x, x = Frame(k, Unit, <<>>)
  PROVE  /\ Sound(<<x>> \o u) /\ Calm(<<x>> \o u) /\ ShellsOf(<<x>> \o u) = ShellsOf(u) /\ Framed(<<x>> \o u)
         /\ k = "trampoline" => Reach(<<x>> \o u, 0)
         /\ k = "nested" => Closed(<<x>> \o u)
         /\ \A o \in Objects : StackCount(<<x>> \o u, o) = StackCount(u, o) /\ StackCount(u, o) \in Nat
         /\ \A h, tk : StackMeans(h, tk, <<x>> \o u) <=> StackMeans(h, tk, u)
<1>1. IsSeq(u) /\ Framed(u)
  BY DEF Sound, Framed
<1>2. IsFrame(x) /\ x.k = k /\ x.c = Unit /\ x.xs = <<>>
  <2>1. x.k = k /\ x.c = Unit /\ x.xs = <<>> /\ x = Frame(x.k, x.c, x.xs)
    BY DEF Frame
  <2>2. k \in Kinds
    BY DEF Kinds, Pass
  <2> QED
    BY <2>1, <2>2, UnitIs, ListNone DEF IsFrame
<1>3. ~Fills(x)
  BY <1>2 DEF Fills
<1>4. Sound(<<x>> \o u)
  BY <1>1, <1>2, <1>3, SoundCons DEF Opener
<1>5. Calm(<<x>> \o u)
  BY <1>1, <1>2, CalmCons, KindsApart
<1>6. ShellsOf(<<x>> \o u) = ShellsOf(u)
  BY <1>1, <1>2, ShellsCons
<1>7. k = "trampoline" => Reach(<<x>> \o u, 0)
  BY <1>1, <1>2, ReachCons
<1>8. k = "nested" => Closed(<<x>> \o u)
  BY <1>1, <1>2, ClosedCons
<1>9. ASSUME NEW o \in Objects PROVE StackCount(<<x>> \o u, o) = StackCount(u, o) /\ StackCount(u, o) \in Nat
  <2>1. One(x.c, o) = 0
    BY <1>2, ObjectsApart DEF One, Unit
  <2>2. Count(x.xs, o) = 0
    BY <1>2, CountNone
  <2>3. StackCount(<<x>> \o u, o) = One(x.c, o) + Count(x.xs, o) + StackCount(u, o) /\ StackCount(u, o) \in Nat
    BY <1>1, <1>2, CountCons
  <2> QED
    BY <2>1, <2>2, <2>3
<1>10. ASSUME NEW h, NEW tk PROVE StackMeans(h, tk, <<x>> \o u) <=> StackMeans(h, tk, u)
  <2>1. Means(h, tk, x.c) /\ ListMeans(h, tk, x.xs)
    BY <1>2, MeansNone
  <2> QED
    BY <1>1, <1>2, <2>1, MeansCons
<1>11. Framed(<<x>> \o u)
  BY <1>4 DEF Sound
<1> QED
  BY <1>4, <1>5, <1>6, <1>7, <1>8, <1>9, <1>10, <1>11

LEMMA ShellOn ==
  ASSUME NEW u, Sound(u), Calm(u), NEW c, IsRef(c), c.o \in Cells \cup Statics, NEW x, x = Frame("shell", c, <<>>)
  PROVE  /\ Sound(<<x>> \o u) /\ Calm(<<x>> \o u) /\ ShellsOf(<<x>> \o u) = ShellsOf(u) \cup {c.o} /\ Framed(<<x>> \o u)
         /\ Reach(u, 0) => Reach(<<x>> \o u, 0)
         /\ \A o \in Objects : StackCount(<<x>> \o u, o) = One(c, o) + StackCount(u, o) /\ StackCount(u, o) \in Nat
         /\ \A h, tk : StackMeans(h, tk, <<x>> \o u) <=> StackMeans(h, tk, u)
<1>1. IsSeq(u) /\ Framed(u)
  BY DEF Sound, Framed
<1>2. IsFrame(x) /\ x.k = "shell" /\ x.c = c /\ x.xs = <<>>
  <2>1. x.k = "shell" /\ x.c = c /\ x.xs = <<>> /\ x = Frame(x.k, x.c, x.xs)
    BY DEF Frame
  <2>2. "shell" \in Kinds
    BY DEF Kinds, Pass
  <2> QED
    BY <2>1, <2>2, ListNone DEF IsFrame
<1>3. ~Fills(x)
  BY <1>2 DEF Fills
<1>4. Sound(<<x>> \o u)
  BY <1>1, <1>2, <1>3, SoundCons, KindsApart
<1>5. Calm(<<x>> \o u)
  BY <1>1, <1>2, CalmCons, KindsApart
<1>6. ShellsOf(<<x>> \o u) = ShellsOf(u) \cup {c.o}
  BY <1>1, <1>2, ShellsCons
<1>7. Reach(u, 0) => Reach(<<x>> \o u, 0)
  BY <1>1, <1>2, ReachCons
<1>9. ASSUME NEW o \in Objects PROVE StackCount(<<x>> \o u, o) = One(c, o) + StackCount(u, o) /\ StackCount(u, o) \in Nat
  <2>1. One(x.c, o) = One(c, o) /\ One(c, o) \in {0, 1}
    BY <1>2 DEF One
  <2>2. Count(x.xs, o) = 0
    BY <1>2, CountNone
  <2>3. StackCount(<<x>> \o u, o) = One(x.c, o) + Count(x.xs, o) + StackCount(u, o) /\ StackCount(u, o) \in Nat
    BY <1>1, <1>2, CountCons
  <2> QED
    BY <2>1, <2>2, <2>3
<1>10. \A h, tk : StackMeans(h, tk, <<x>> \o u) <=> StackMeans(h, tk, u)
  BY <1>1, <1>2, MeansCons
<1>11. Framed(<<x>> \o u)
  BY <1>4 DEF Sound
<1> QED
  BY <1>4, <1>5, <1>6, <1>7, <1>9, <1>10, <1>11

LEMMA MoreOn ==
  ASSUME NEW u, Sound(u), Calm(u), Closed(u), NEW l, IsList(l)
  PROVE  /\ Sound(More(l) \o u) /\ Calm(More(l) \o u) /\ Closed(More(l) \o u)
         /\ ShellsOf(More(l) \o u) = ShellsOf(u) /\ Framed(More(l) \o u) /\ IsSeq(More(l))
         /\ \A o \in Objects : /\ StackCount(More(l) \o u, o) = Count(l, o) + StackCount(u, o)
                               /\ StackCount(u, o) \in Nat /\ Count(l, o) \in Nat
         /\ \A h, tk : StackMeans(h, tk, More(l) \o u) <=> ListMeans(h, tk, l) /\ StackMeans(h, tk, u)
<1>1. IsSeq(u) /\ Framed(u) /\ IsSeq(l)
  BY DEF Sound, Framed, IsList
<1>2. \A o \in Objects : Count(l, o) \in Nat /\ StackCount(u, o) \in Nat
  BY <1>1, CountIs, FramesStack, StackFinite
<1>3. CASE l = <<>>
  <2>1. More(l) \o u = u /\ IsSeq(More(l))
    BY <1>1, <1>3, JoinNone, NoSeq DEF More
  <2>2. \A o : Count(l, o) = 0
    BY <1>3, CountNone
  <2>3. \A h, tk : ListMeans(h, tk, l)
    BY <1>3, MeansNone
  <2> QED
    BY <1>1, <1>2, <2>1, <2>2, <2>3
<1>4. CASE l # <<>>
  <2> DEFINE x == Frame("more", Unit, l)
  <2>1. x.k = "more" /\ x.c = Unit /\ x.xs = l /\ x = Frame(x.k, x.c, x.xs)
    BY DEF Frame
  <2>2. More(l) = <<x>> /\ IsSeq(More(l))
    BY <1>4, SingleSeq DEF More
  <2> HIDE DEF x
  <2>3. IsFrame(x)
    <3>1. "more" \in Kinds
      BY DEF Kinds
    <3> QED
      BY <1>4, <2>1, <3>1, UnitIs DEF IsFrame
  <2>4. ~Fills(x)
    BY <2>1 DEF Fills
  <2>5. Sound(<<x>> \o u)
    BY <1>1, <2>1, <2>3, <2>4, SoundCons
  <2>6. Calm(<<x>> \o u)
    BY <1>1, <2>1, CalmCons, KindsApart
  <2>7. Closed(<<x>> \o u)
    BY <1>1, <2>1, ClosedCons, KindsApart
  <2>8. ShellsOf(<<x>> \o u) = ShellsOf(u)
    BY <1>1, <2>1, ShellsCons
  <2>9. ASSUME NEW o \in Objects PROVE StackCount(<<x>> \o u, o) = Count(l, o) + StackCount(u, o)
    <3>1. One(x.c, o) = 0
      BY <2>1, ObjectsApart DEF One, Unit
    <3>2. StackCount(<<x>> \o u, o) = One(x.c, o) + Count(x.xs, o) + StackCount(u, o)
      BY <1>1, <2>3, CountCons
    <3> QED
      BY <1>2, <2>1, <3>1, <3>2
  <2>10. ASSUME NEW h, NEW tk PROVE StackMeans(h, tk, <<x>> \o u) <=> ListMeans(h, tk, l) /\ StackMeans(h, tk, u)
    <3>1. Means(h, tk, x.c)
      BY <2>1, MeansNone
    <3> QED
      BY <1>1, <2>1, <2>3, <3>1, MeansCons
  <2>11. Framed(<<x>> \o u)
    BY <2>5 DEF Sound
  <2> QED
    BY <1>2, <2>2, <2>5, <2>6, <2>7, <2>8, <2>9, <2>10, <2>11
<1> QED
  BY <1>3, <1>4

(***************************************************************************)
(* The frames that run something.                                          *)
(***************************************************************************)
LEMMA BodyFrame ==
  ASSUME NEW v, NEW xs, IsList(xs), Values(xs) = v.args, Len(xs) = Arity[v.fn]
  PROVE  /\ IsFrame(Body(v, xs)) /\ Body(v, xs).k = "body" /\ Body(v, xs).xs = xs /\ Body(v, xs).c = [o |-> Null, v |-> v]
         /\ Body(v, xs).k \in Active /\ Body(v, xs).k \notin Opener
         /\ \A o \in Objects : One(Body(v, xs).c, o) = 0
<1> DEFINE x == Body(v, xs)
<1>1. x.k = "body" /\ x.c = [o |-> Null, v |-> v] /\ x.xs = xs /\ x = Frame(x.k, x.c, x.xs)
  BY DEF Frame, Body
<1> HIDE DEF x
<1>2. x.c.o = Null /\ x.c.v = v /\ x.c = [o |-> x.c.o, v |-> x.c.v]
  BY <1>1
<1>3. "body" \in Kinds /\ "body" \in Active /\ "body" \notin Opener
  BY DEF Kinds, Active, Opener
<1>4. IsFrame(x)
  BY <1>1, <1>2, <1>3 DEF IsFrame, IsRef
<1>5. \A o \in Objects : One(x.c, o) = 0
  BY <1>2, ObjectsApart DEF One
<1> QED
  BY <1>1, <1>3, <1>4, <1>5 DEF x

LEMMA CallFrame ==
  ASSUME NEW k \in {"apply", "applyN", "grow"}, NEW c, IsRef(c), Part(c.v), NEW xs, IsList(xs), xs # <<>>,
         k = "apply" => Len(xs) = 1, k = "grow" => Len(c.v.args) + Len(xs) <= Arity[c.v.fn], NEW x, x = Frame(k, c, xs)
  PROVE  /\ IsFrame(x) /\ x.k = k /\ x.c = c /\ x.xs = xs /\ x.k \in Active /\ (k = "grow" => x.k \notin Opener)
         /\ Fills(x) <=> k = "grow" /\ Len(c.v.args) + Len(xs) = Arity[c.v.fn]
<1>1. x.k = k /\ x.c = c /\ x.xs = xs /\ x = Frame(x.k, x.c, x.xs)
  BY DEF Frame
<1>2. k \in Kinds /\ k \in Active /\ (k = "grow" => k \notin Opener)
  BY DEF Kinds, Active, Opener
<1>3. IsFrame(x)
  BY <1>1, <1>2 DEF IsFrame
<1>4. Fills(x) <=> k = "grow" /\ Len(c.v.args) + Len(xs) = Arity[c.v.fn]
  BY <1>1 DEF Fills
<1> QED
  BY <1>1, <1>2, <1>3, <1>4

LEMMA ApplyFrame ==
  ASSUME NEW c, IsRef(c), Part(c.v), NEW a, Good(a)
  PROVE  LET x == Frame("apply", c, <<a>>)
         IN IsFrame(x) /\ x.k = "apply" /\ x.c = c /\ x.xs = <<a>> /\ x.k \in Active /\ ~Fills(x)
<1> DEFINE x == Frame("apply", c, <<a>>)  xs == <<a>>
<1>1. IsList(xs) /\ xs # <<>> /\ Len(xs) = 1
  BY ListOne, SingleSeq
<1>2. "apply" \in {"apply", "applyN", "grow"} /\ x = Frame("apply", c, xs)
  OBVIOUS
<1> HIDE DEF x, xs
<1>3. IsFrame(x) /\ x.k = "apply" /\ x.c = c /\ x.xs = xs /\ x.k \in Active /\ ~Fills(x)
  BY <1>1, <1>2, CallFrame
<1> QED
  BY <1>3 DEF x, xs

LEMMA ApplyNFrame ==
  ASSUME NEW c, IsRef(c), Part(c.v), NEW xs, IsList(xs), xs # <<>>
  PROVE  LET x == Frame("applyN", c, xs)
         IN IsFrame(x) /\ x.k = "applyN" /\ x.c = c /\ x.xs = xs /\ x.k \in Active /\ ~Fills(x)
<1> DEFINE x == Frame("applyN", c, xs)
<1>2. "applyN" \in {"apply", "applyN", "grow"} /\ x = Frame("applyN", c, xs)
  OBVIOUS
<1> HIDE DEF x
<1>3. IsFrame(x) /\ x.k = "applyN" /\ x.c = c /\ x.xs = xs /\ x.k \in Active /\ ~Fills(x)
  BY <1>2, CallFrame
<1> QED
  BY <1>3 DEF x

LEMMA GrowFrame ==
  ASSUME NEW c, IsRef(c), Part(c.v), NEW xs, IsList(xs), xs # <<>>, Len(c.v.args) + Len(xs) <= Arity[c.v.fn]
  PROVE  LET x == Frame("grow", c, xs)
         IN IsFrame(x) /\ x.k = "grow" /\ x.c = c /\ x.xs = xs /\ x.k \in Active /\ x.k \notin Opener
<1> DEFINE x == Frame("grow", c, xs)
<1>2. "grow" \in {"apply", "applyN", "grow"} /\ x = Frame("grow", c, xs)
  OBVIOUS
<1> HIDE DEF x
<1>3. IsFrame(x) /\ x.k = "grow" /\ x.c = c /\ x.xs = xs /\ x.k \in Active /\ x.k \notin Opener
  BY <1>2, CallFrame
<1> QED
  BY <1>3 DEF x

LEMMA TrampOn ==
  ASSUME NEW u, Sound(u), Calm(u), Closed(u)
  PROVE  /\ Sound(<<Tramp>> \o u) /\ Calm(<<Tramp>> \o u) /\ ShellsOf(<<Tramp>> \o u) = ShellsOf(u) /\ Framed(<<Tramp>> \o u)
         /\ Reach(<<Tramp>> \o u, 0)
         /\ \A o \in Objects : StackCount(<<Tramp>> \o u, o) = StackCount(u, o) /\ StackCount(u, o) \in Nat
         /\ \A h, tk : StackMeans(h, tk, <<Tramp>> \o u) <=> StackMeans(h, tk, u)
<1>1. "trampoline" \in {"trampoline", "nested"} /\ Tramp = Frame("trampoline", Unit, <<>>)
  BY DEF Tramp
<1> QED
  BY <1>1, BareOn

LEMMA NestedOn ==
  ASSUME NEW u, Sound(u), Calm(u), NEW x, x = Frame("nested", Unit, <<>>)
  PROVE  /\ Sound(<<x>> \o u) /\ Calm(<<x>> \o u) /\ ShellsOf(<<x>> \o u) = ShellsOf(u) /\ Framed(<<x>> \o u)
         /\ Closed(<<x>> \o u)
         /\ \A o \in Objects : StackCount(<<x>> \o u, o) = StackCount(u, o) /\ StackCount(u, o) \in Nat
         /\ \A h, tk : StackMeans(h, tk, <<x>> \o u) <=> StackMeans(h, tk, u)
<1>1. "nested" \in {"trampoline", "nested"}
  OBVIOUS
<1> QED
  BY <1>1, BareOn

\* A step that leaves the hand and every closure's arguments alone.
Moves(st, rt, h, t, s2, r2, h2) ==
  /\ HeapOK(h2) /\ \A o \in Objects : h2[o].fn = h[o].fn /\ h2[o].args = h[o].args
  /\ \A c \in TakenIn(st) : h2[c].rc = h[c].rc
  /\ \A c \in Cells : c \in ShellsOf(s2) <=> c \in ShellsOf(st[t])
  /\ Sound(s2) /\ Fit(s2, r2) /\ StackMeans(h, TakenIn(st), s2) /\ (r2 # Nothing => Means(h, TakenIn(st), r2))
  /\ \A o \in Atoms \cup Cells :
       h2[o].rc + StackCount(st[t], o) + One(rt[t], o) = h[o].rc + StackCount(s2, o) + One(r2, o)

LEMMA StackStep ==
  ASSUME NEW hd, NEW st, NEW rt, NEW h, World(hd, st, rt, h), NEW t \in Threads,
         NEW s2, NEW r2, NEW h2, Moves(st, rt, h, t, s2, r2, h2),
         NEW st2, st2 = [st EXCEPT ![t] = s2], NEW rt2, rt2 = [rt EXCEPT ![t] = r2] \/ (rt2 = rt /\ r2 = rt[t])
  PROVE  World(hd, st2, rt2, h2)
<1>2. DOMAIN hd = Threads /\ DOMAIN st = Threads /\ DOMAIN rt = Threads /\ HeapOK(h)
  BY DEF World
<1>3. /\ DOMAIN st2 = Threads /\ DOMAIN rt2 = Threads /\ st2[t] = s2 /\ rt2[t] = r2
      /\ \A v \in Threads \ {t} : hd[v] = hd[v] /\ st2[v] = st[v] /\ rt2[v] = rt[v]
  BY <1>2
<1>4. HandOK(hd[t]) /\ HandMeans(h, TakenIn(st), hd[t]) /\ IsHand(hd[t]) /\ Framed(st[t])
  BY DEF World, ThreadOK, HandOK, Sound
<1>5. ASSUME NEW o \in Atoms \cup Cells
      PROVE  h2[o].rc + Hold(hd[t], st[t], rt[t], o) = h[o].rc + Hold(hd[t], st2[t], rt2[t], o)
  <2>1. StackCount(st[t], o) \in Nat
    BY <1>4, FramesStack, StackFinite
  <2>2. HandCount(hd[t], o) \in Nat
    BY <1>4, HandFinite
  <2>3. StackCount(s2, o) \in Nat
    BY FramesStack, StackFinite DEF Sound, Moves
  <2>4. One(rt[t], o) \in Nat /\ One(r2, o) \in Nat
    BY DEF One
  <2>5. h[o].rc \in Nat /\ h2[o].rc \in Nat
    BY <1>2, ObjectsApart DEF HeapOK, ObjectOK, Moves
  <2>6. h2[o].rc + StackCount(st[t], o) + One(rt[t], o) = h[o].rc + StackCount(s2, o) + One(r2, o)
    BY DEF Moves
  <2>7. h2[o].rc + (HandCount(hd[t], o) + StackCount(st[t], o) + One(rt[t], o))
             = h[o].rc + (HandCount(hd[t], o) + StackCount(s2, o) + One(r2, o))
    BY <2>1, <2>2, <2>3, <2>4, <2>5, <2>6
  <2> QED
    BY <1>3, <2>7 DEF Hold
<1>6. /\ HeapOK(h2) /\ \A o \in Objects : h2[o].fn = h[o].fn /\ h2[o].args = h[o].args
      /\ \A c \in TakenIn(st) : h2[c].rc = h[c].rc
      /\ \A c \in Cells : c \in ShellsOf(st2[t]) <=> c \in ShellsOf(st[t])
      /\ Sound(st2[t]) /\ Fit(st2[t], rt2[t]) /\ StackMeans(h, TakenIn(st), st2[t])
      /\ rt2[t] # Nothing => Means(h, TakenIn(st), rt2[t])
  BY <1>3 DEF Moves
<1>7. Moved(hd, st, rt, h, hd, st2, rt2, h2, t)
  BY <1>2, <1>3, <1>4, <1>5, <1>6 DEF Moved
<1> QED
  BY <1>7, MoveStep

\* A reference to a function is to a closure that can be applied or run.
Applicable(h, q) ==
  /\ q.o # Null /\ q.o \in Cells \cup Statics /\ h[q.o].fn \in Fns /\ h[q.o].rc # 0
  /\ Len(h[q.o].args) <= Arity[h[q.o].fn] /\ Len(q.v.args) = Len(h[q.o].args) /\ q.v.fn = h[q.o].fn
  /\ Len(q.v.args) \in Nat /\ Arity[q.v.fn] \in Nat \ {0} /\ (~Sat(q.v) <=> Part(q.v))

LEMMA FnIs ==
  ASSUME NEW hd, NEW st, NEW rt, NEW h, World(hd, st, rt, h), NEW q, Means(h, TakenIn(st), q), q.v.fn \in Fns
  PROVE  Applicable(h, q)
<1>1. q.o # Null
  <2>1. Unit.v.fn = Null /\ Null \notin Fns
    BY ClosureConstants DEF Unit
  <2> QED
    BY <2>1 DEF Means
<1>2. q.o \in Objects /\ q.v.fn = h[q.o].fn /\ Len(q.v.args) = Len(h[q.o].args) /\ IsList(h[q.o].args)
  <2>1. Holds(h, TakenIn(st), q)
    BY <1>1, HeldIs
  <2> QED
    BY <2>1 DEF Holds
<1>3. ObjectOK(q.o, h[q.o])
  BY <1>2 DEF World, HeapOK
<1>4. q.o \notin Atoms
  BY <1>2, <1>3 DEF ObjectOK
<1>5. h[q.o].rc # 0
  <2>1. Unused.fn \notin Fns
    BY ClosureConstants DEF Unused
  <2>2. CASE q.o \in Statics
    BY <1>3, <2>2 DEF ObjectOK, Immortal
  <2>3. CASE q.o \in Cells
    BY <1>2, <1>3, <2>1, <2>3 DEF ObjectOK
  <2> QED
    BY <1>2, <1>4, <2>2, <2>3, ObjectsApart
<1>6. Len(h[q.o].args) <= Arity[h[q.o].fn] /\ q.o \in Cells \cup Statics
  BY <1>2, <1>3, <1>4, <1>5, ObjectsApart DEF ObjectOK
<1>7. Len(h[q.o].args) \in Nat /\ Arity[q.v.fn] \in Nat \ {0}
  BY <1>2, SeqIs, ClosureConstants DEF IsList
<1>8. ~Sat(q.v) <=> Part(q.v)
  BY <1>2, <1>6, <1>7 DEF Sat, Part
<1> QED
  BY <1>1, <1>2, <1>5, <1>6, <1>7, <1>8 DEF Applicable

\* No result is no reference to anything.
LEMMA NothingIs == \A o \in Objects : One(Nothing, o) = 0
BY UnitIs DEF One

\* The value of the last frame, and what the frame below it may rely on.
LEMMA ThreadIs ==
  ASSUME NEW hd, NEW st, NEW rt, NEW h, World(hd, st, rt, h), NEW t \in Threads
  PROVE  /\ HeapOK(h) /\ HandOK(hd[t]) /\ HandMeans(h, TakenIn(st), hd[t])
         /\ Sound(st[t]) /\ Fit(st[t], rt[t]) /\ StackMeans(h, TakenIn(st), st[t])
         /\ (rt[t] # Nothing => Means(h, TakenIn(st), rt[t]))
         /\ DOMAIN hd = Threads /\ DOMAIN st = Threads /\ DOMAIN rt = Threads
BY DEF World, ThreadOK

WorldInv == World(hand, stack, ret, heap)

LEMMA ApplyMoreKeeps ==
  ASSUME WorldInv, NEW t \in Threads, ApplyMore(t)
  PROVE  World(hand', stack', ret', heap')
<1> DEFINE x == Head(stack[t])  u == Tail(stack[t])  tk == TakenIn(stack)  r == ret[t]
           a == Head(x.xs)  y == Frame("apply", r, <<a>>)  w == More(Tail(x.xs)) \o u  s2 == <<y>> \o w
<1>1. /\ stack[t] # <<>> /\ x.k = "more" /\ stack' = [stack EXCEPT ![t] = (<<y>> \o More(Tail(x.xs))) \o u]
      /\ ret' = [ret EXCEPT ![t] = Nothing] /\ heap' = heap /\ hand' = hand
  BY DEF ApplyMore, At, Top, Goto, Under, Return
<1>2. World(hand, stack, ret, heap)
  BY DEF WorldInv
<1>0. TopOf(heap, tk, stack[t], x, u)
  BY <1>1, <1>2, TopIs
<1> HIDE DEF x, u, tk
<1>3. /\ stack[t] = <<x>> \o u /\ IsSeq(u) /\ Framed(u) /\ Sound(u) /\ IsFrame(x)
      /\ (x.k # "drop" => Calm(u)) /\ (x.k \in Opener \cup {"more"} => Closed(u))
      /\ StackMeans(heap, tk, u)
      /\ x.k # "shell" => (x.k # "body" => Means(heap, tk, x.c)) /\ ListMeans(heap, tk, x.xs)
  BY <1>0 DEF TopOf
<1>4. Calm(u) /\ Closed(u) /\ ListMeans(heap, tk, x.xs) /\ IsList(x.xs) /\ x.xs # <<>> /\ x.c = Unit
  BY <1>1, <1>3 DEF IsFrame
<1>5. HeapOK(heap) /\ Fit(stack[t], r) /\ (r # Nothing => Means(heap, tk, r))
  BY <1>2, ThreadIs DEF tk
<1>6. x.k \notin Active \cup {"drop"}
  BY <1>1, KindsApart
<1> HIDE DEF r
<1>7. r # Nothing /\ Usable(<<x>> \o u, r)
  BY <1>3, <1>5, <1>6, FitPassive
<1>8. Awaiting(<<x>> \o u) /\ ~Reach(<<x>> \o u, 0)
  BY <1>1, <1>3, AwaitingCons, ReachCons
<1>9. IsRef(r) /\ ~Sat(r.v) /\ r.v.fn \in Fns
  BY <1>7, <1>8 DEF Usable
<1>10. Part(r.v) /\ Means(heap, tk, r)
  <2>1. Means(heap, tk, r)
    BY <1>5, <1>7
  <2>2. Applicable(heap, r)
    BY <1>2, <1>9, <2>1, FnIs DEF tk
  <2> QED
    BY <1>9, <2>1, <2>2 DEF Applicable
<1>11. Good(a) /\ IsList(Tail(x.xs)) /\ Means(heap, tk, a) /\ ListMeans(heap, tk, Tail(x.xs)) /\ IsSeq(x.xs)
  BY <1>4, ListTail, MeansTail DEF IsList
<1>12. /\ IsList(<<a>>) /\ <<a>> # <<>> /\ Len(<<a>>) = 1 /\ ListMeans(heap, tk, <<a>>) /\ IsSeq(<<y>>)
  BY <1>11, ListOne, MeansOne, SingleSeq
<1>13. IsFrame(y) /\ y.k = "apply" /\ y.c = r /\ y.xs = <<a>> /\ y.k \in Active /\ ~Fills(y)
  BY <1>9, <1>10, <1>11, ApplyFrame
<1>14. /\ Sound(w) /\ Calm(w) /\ Closed(w) /\ ShellsOf(w) = ShellsOf(u) /\ IsSeq(More(Tail(x.xs)))
       /\ \A o \in Objects : /\ StackCount(w, o) = Count(Tail(x.xs), o) + StackCount(u, o)
                             /\ StackCount(u, o) \in Nat /\ Count(Tail(x.xs), o) \in Nat
       /\ StackMeans(heap, tk, w)
  BY <1>3, <1>4, <1>11, MoreOn
<1> HIDE DEF y, w, a
<1>15. /\ Sound(s2) /\ Fit(s2, Nothing) /\ ShellsOf(s2) = ShellsOf(w)
       /\ \A o \in Objects : StackCount(s2, o) = One(y.c, o) + Count(y.xs, o) + StackCount(w, o)
                             /\ One(y.c, o) \in Nat /\ Count(y.xs, o) \in Nat
       /\ StackMeans(heap, tk, s2)
  BY <1>10, <1>12, <1>13, <1>14, ActiveOn
<1>16. (<<y>> \o More(Tail(x.xs))) \o u = s2
  BY <1>3, <1>12, <1>14, JoinThree DEF w
<1>17. ShellsOf(<<x>> \o u) = ShellsOf(u)
  BY <1>1, <1>3, ShellsCons
<1>18. ASSUME NEW o \in Atoms \cup Cells
       PROVE  heap[o].rc + StackCount(stack[t], o) + One(ret[t], o)
                = heap[o].rc + StackCount(s2, o) + One(Nothing, o)
  <2>1. o \in Objects /\ heap[o].rc \in Nat
    BY <1>5, ObjectsApart DEF HeapOK, ObjectOK
  <2>2. One(x.c, o) = 0
    BY <1>4, <2>1, ObjectsApart DEF One, Unit
  <2>3. Count(x.xs, o) = One(a, o) + Count(Tail(x.xs), o)
    BY <1>4, <1>11, CountTail DEF a
  <2>4. Count(y.xs, o) = One(a, o) /\ One(y.c, o) = One(ret[t], o)
    BY <1>13, CountOne DEF r
  <2>5. One(Nothing, o) = 0
    BY <2>1, NothingIs
  <2>6. One(a, o) \in Nat /\ One(ret[t], o) \in Nat
    BY DEF One
  <2>7. StackCount(s2, o) = One(y.c, o) + Count(y.xs, o) + StackCount(w, o)
        /\ StackCount(w, o) = Count(Tail(x.xs), o) + StackCount(u, o)
        /\ StackCount(u, o) \in Nat /\ Count(Tail(x.xs), o) \in Nat
    BY <1>14, <1>15, <2>1
  <2>8. StackCount(stack[t], o) = One(x.c, o) + Count(x.xs, o) + StackCount(u, o)
    BY <1>3, <2>1, CountCons
  <2> HIDE DEF s2
  <2> QED
    BY <2>1, <2>2, <2>3, <2>4, <2>5, <2>6, <2>7, <2>8
<1> HIDE DEF s2
<1>20. Moves(stack, ret, heap, t, s2, Nothing, heap)
  BY <1>3, <1>5, <1>14, <1>15, <1>17, <1>18 DEF Moves, tk
<1>19. World(hand, stack', ret', heap)
  BY <1>1, <1>2, <1>16, <1>20, StackStep
<1> QED
  BY <1>1, <1>19

(***************************************************************************)
(* What a thread does between calls.                                       *)
(***************************************************************************)
LEMMA HandAdded ==
  ASSUME NEW b, HandOK(b), NEW h, NEW tk, HandMeans(h, tk, b), NEW r, Good(r), Means(h, tk, r), NEW c, c = Bag!BagAdd(b, r)
  PROVE  HandOK(c) /\ HandMeans(h, tk, c) /\ \A o : HandCount(c, o) = HandCount(b, o) + One(r, o)
<1>1. IsHand(b)
  BY DEF HandOK
<1>2. IsHand(c)
  BY <1>1, HandAddIs
<1>3. \A q \in DOMAIN c : q \in DOMAIN b \/ q = r
  BY DEF Bag!BagAdd
<1>4. \A q \in DOMAIN c : Good(q) /\ Means(h, tk, q)
  BY <1>3 DEF HandOK, HandMeans
<1>5. \A o : HandCount(c, o) = HandCount(b, o) + One(r, o)
  BY <1>1, HandAdd
<1> QED
  BY <1>2, <1>4, <1>5 DEF HandOK, HandMeans

LEMMA HandTaken ==
  ASSUME NEW b, HandOK(b), NEW h, NEW tk, HandMeans(h, tk, b), NEW r \in DOMAIN b, NEW c, c = Bag!BagRemove(b, r)
  PROVE  /\ HandOK(c) /\ HandMeans(h, tk, c) /\ Good(r) /\ Means(h, tk, r)
         /\ \A o : HandCount(b, o) = HandCount(c, o) + One(r, o) /\ HandCount(c, o) \in Nat
<1>1. IsHand(b) /\ Good(r) /\ Means(h, tk, r)
  BY DEF HandOK, HandMeans
<1>2. IsHand(c) /\ DOMAIN c \subseteq DOMAIN b
  BY <1>1, HandRemoveIs
<1>3. \A o : HandCount(b, o) = HandCount(c, o) + One(r, o)
  BY <1>1, HandRemove
<1>4. \A o : HandCount(c, o) \in Nat
  BY <1>2, HandFinite
<1> QED
  BY <1>1, <1>2, <1>3, <1>4 DEF HandOK, HandMeans

LEMMA EmptyStack ==
  /\ Framed(<<>>) /\ Sound(<<>>) /\ Calm(<<>>) /\ Closed(<<>>) /\ Fit(<<>>, Nothing) /\ ShellsOf(<<>>) = {} /\ ~Reach(<<>>, 0)
  /\ \A o : StackCount(<<>>, o) = 0
  /\ \A h, tk : StackMeans(h, tk, <<>>)
<1>1. DOMAIN <<>> = {} /\ IsSeq(<<>>)
  BY NoSeq
<1>2. Framed(<<>>) /\ Calm(<<>>) /\ Closed(<<>>) /\ ~Reach(<<>>, 0)
  BY <1>1 DEF Framed, Calm, Closed, Reach
<1>3. Order(<<>>) /\ Bounce(<<>>) /\ Flat(<<>>)
  BY <1>1 DEF Order, Bounce, Flat
<1>4. Fit(<<>>, Nothing)
  BY <1>1 DEF Fit, Mode
<1>5. ShellsOf(<<>>) = {}
  BY <1>1 DEF ShellsOf
<1>6. \A o : StackCount(<<>>, o) = 0
  BY StackNone
<1> QED
  BY <1>2, <1>3, <1>4, <1>5, <1>6, MeansNone DEF Sound

\* A step of a thread with no frame.
Acts(hd, st, rt, h, t, b2, s2, r2, h2) ==
  /\ HeapOK(h2) /\ \A o \in Objects : h2[o].fn = h[o].fn /\ h2[o].args = h[o].args
  /\ \A c \in TakenIn(st) : h2[c].rc = h[c].rc
  /\ ShellsOf(s2) = {}
  /\ HandOK(b2) /\ HandMeans(h, TakenIn(st), b2)
  /\ Sound(s2) /\ Fit(s2, r2) /\ StackMeans(h, TakenIn(st), s2) /\ (r2 # Nothing => Means(h, TakenIn(st), r2))
  /\ \A o \in Atoms \cup Cells :
       h2[o].rc + HandCount(hd[t], o) + One(rt[t], o) = h[o].rc + HandCount(b2, o) + StackCount(s2, o) + One(r2, o)

LEMMA ActsCount ==
  ASSUME NEW hd, NEW st, NEW rt, NEW h, World(hd, st, rt, h), NEW t \in Threads, st[t] = <<>>,
         NEW b2, NEW s2, NEW r2, NEW h2, Acts(hd, st, rt, h, t, b2, s2, r2, h2), NEW o \in Atoms \cup Cells
  PROVE  h2[o].rc + Hold(hd[t], st[t], rt[t], o) = h[o].rc + Hold(b2, s2, r2, o)
<1>1. StackCount(st[t], o) = 0
  BY EmptyStack
<1>2. IsHand(hd[t]) /\ IsHand(b2) /\ HeapOK(h)
  BY DEF World, ThreadOK, HandOK, Acts
<1>3. HandCount(hd[t], o) \in Nat /\ HandCount(b2, o) \in Nat
  BY <1>2, HandFinite
<1>4. StackCount(s2, o) \in Nat
  BY FramesStack, StackFinite DEF Sound, Acts
<1>5. One(rt[t], o) \in Nat /\ One(r2, o) \in Nat
  BY DEF One
<1>6. h[o].rc \in Nat /\ h2[o].rc \in Nat
  BY <1>2, ObjectsApart DEF HeapOK, ObjectOK, Acts
<1>7. h2[o].rc + HandCount(hd[t], o) + One(rt[t], o) = h[o].rc + HandCount(b2, o) + StackCount(s2, o) + One(r2, o)
  BY DEF Acts
<1>8. h2[o].rc + (HandCount(hd[t], o) + StackCount(st[t], o) + One(rt[t], o))
           = h[o].rc + (HandCount(b2, o) + StackCount(s2, o) + One(r2, o))
  BY <1>1, <1>3, <1>4, <1>5, <1>6, <1>7
<1> QED
  BY <1>8 DEF Hold

\* One thread's part of a variable.
Changed(f, f2, t, v) == DOMAIN f2 = Threads /\ f2[t] = v /\ \A u \in Threads \ {t} : f2[u] = f[u]

LEMMA ChangedTo ==
  ASSUME NEW f, DOMAIN f = Threads, NEW t \in Threads, NEW v
  PROVE  Changed(f, [f EXCEPT ![t] = v], t, v) /\ Changed(f, f, t, f[t])
BY DEF Changed

LEMMA IdleStep ==
  ASSUME NEW hd, NEW st, NEW rt, NEW h, World(hd, st, rt, h), NEW t \in Threads, st[t] = <<>>,
         NEW b2, NEW s2, NEW r2, NEW h2, Acts(hd, st, rt, h, t, b2, s2, r2, h2),
         NEW hd2, Changed(hd, hd2, t, b2), NEW st2, Changed(st, st2, t, s2), NEW rt2, Changed(rt, rt2, t, r2)
  PROVE  World(hd2, st2, rt2, h2)
<1>1. /\ DOMAIN hd2 = Threads /\ DOMAIN st2 = Threads /\ DOMAIN rt2 = Threads
      /\ hd2[t] = b2 /\ st2[t] = s2 /\ rt2[t] = r2
      /\ \A v \in Threads \ {t} : hd2[v] = hd[v] /\ st2[v] = st[v] /\ rt2[v] = rt[v]
  BY DEF Changed
<1>2. \A o \in Atoms \cup Cells : h2[o].rc + Hold(hd[t], st[t], rt[t], o) = h[o].rc + Hold(hd2[t], st2[t], rt2[t], o)
  BY <1>1, ActsCount
<1>3. \A c \in Cells : c \in ShellsOf(st2[t]) <=> c \in ShellsOf(st[t])
  BY <1>1, EmptyStack DEF Acts
<1>4. Moved(hd, st, rt, h, hd2, st2, rt2, h2, t)
  BY <1>1, <1>2, <1>3 DEF Moved, Acts
<1> QED
  BY <1>4, MoveStep

LEMMA CopyKeeps ==
  ASSUME WorldInv, NEW t \in Threads, Copy(t)
  PROVE  World(hand', stack', ret', heap')
<1>1. PICK r \in DOMAIN hand[t] : heap' = Dup(heap, <<r>>) /\ hand' = [hand EXCEPT ![t] = Bag!BagAdd(@, r)]
  BY DEF Copy
<1>2. stack[t] = <<>> /\ ret[t] = Nothing /\ stack' = stack /\ ret' = ret /\ hand' = [hand EXCEPT ![t] = Bag!BagAdd(hand[t], r)]
  BY <1>1 DEF Copy, Idle
<1> DEFINE tk == TakenIn(stack)  b2 == Bag!BagAdd(hand[t], r)  h2 == Dup(heap, <<r>>)
<1>3. World(hand, stack, ret, heap)
  BY DEF WorldInv
<1>4. HeapOK(heap) /\ HandOK(hand[t]) /\ HandMeans(heap, tk, hand[t])
  BY <1>3, ThreadIs
<1>5. Good(r) /\ Means(heap, tk, r) /\ Live(heap, r)
  BY <1>3, <1>4, WorldLive DEF HandOK, HandMeans
<1>6. HandOK(b2) /\ HandMeans(heap, tk, b2) /\ \A o : HandCount(b2, o) = HandCount(hand[t], o) + One(r, o)
  BY <1>4, <1>5, HandAdded
<1>7. IsList(<<r>>) /\ ListMeans(heap, tk, <<r>>) /\ (\A i \in DOMAIN <<r>> : Live(heap, <<r>>[i]))
  BY <1>5, ListOne, MeansOne, SingleSeq
<1>8. HeapOK(h2) /\ \A o \in Cells : (\A i \in DOMAIN <<r>> : <<r>>[i].o # o) => h2[o].rc = heap[o].rc
  BY <1>4, <1>7, DupOK
<1>9. /\ \A o \in Objects : h2[o].fn = heap[o].fn /\ h2[o].args = heap[o].args
      /\ \A o \in Atoms \cup Cells : h2[o].rc = heap[o].rc + One(r, o)
  BY <1>4, DupIs, CountOne
<1>10. \A c \in tk : h2[c].rc = heap[c].rc
  <2> SUFFICES ASSUME NEW c \in tk PROVE h2[c].rc = heap[c].rc
    OBVIOUS
  <2>1. c \in Cells /\ r.o # c
    <3>1. c \in Cells /\ c # Null
      BY ObjectsApart DEF TakenIn
    <3> QED
      BY <1>5, <3>1 DEF Means
  <2> QED
    BY <1>8, <2>1, SingleSeq
<1> HIDE DEF tk, b2, h2
<1>11. \A o \in Atoms \cup Cells :
         h2[o].rc + HandCount(hand[t], o) + One(ret[t], o) = heap[o].rc + HandCount(b2, o) + StackCount(<<>>, o) + One(Nothing, o)
  <2> SUFFICES ASSUME NEW o \in Atoms \cup Cells
               PROVE h2[o].rc + HandCount(hand[t], o) + One(ret[t], o) = heap[o].rc + HandCount(b2, o) + StackCount(<<>>, o) + One(Nothing, o)
    OBVIOUS
  <2>1. heap[o].rc \in Nat /\ HandCount(hand[t], o) \in Nat /\ One(r, o) \in Nat /\ One(Nothing, o) = 0 /\ StackCount(<<>>, o) = 0
    BY <1>4, ObjectsApart, HandFinite, NothingIs, EmptyStack DEF HeapOK, ObjectOK, HandOK, One
  <2>2. h2[o].rc = heap[o].rc + One(r, o) /\ HandCount(b2, o) = HandCount(hand[t], o) + One(r, o) /\ ret[t] = Nothing
    BY <1>2, <1>6, <1>9
  <2> QED
    BY <2>1, <2>2
<1>12. Acts(hand, stack, ret, heap, t, b2, <<>>, Nothing, h2)
  BY <1>6, <1>8, <1>9, <1>10, <1>11, EmptyStack DEF Acts, tk
<1>13. Changed(hand, hand', t, b2) /\ Changed(stack, stack', t, <<>>) /\ Changed(ret, ret', t, Nothing)
  BY <1>2, <1>3, ThreadIs, ChangedTo DEF b2
<1> QED
  BY <1>1, <1>2, <1>3, <1>12, <1>13, IdleStep DEF h2

\* A list that is dropped by a thread with no other frame.
LEMMA DropAlone ==
  ASSUME NEW r, Good(r), NEW s, s = Drop(<<r>>)
  PROVE  /\ Sound(s) /\ Fit(s, Nothing) /\ ShellsOf(s) = {}
         /\ \A o \in Objects : StackCount(s, o) = One(r, o)
         /\ \A h, tk : StackMeans(h, tk, s) <=> Means(h, tk, r)
<1>1. IsList(<<r>>) /\ IsSeq(s) /\ s \o <<>> = s
  BY ListOne, DropSeq, JoinNone
<1>2. Sound(s \o <<>>) /\ Fit(s \o <<>>, Nothing)
  BY <1>1, EmptyStack, DropOn, NoSeq
<1>3. /\ \A o \in Objects : StackCount(s \o <<>>, o) = Count(<<r>>, o) + StackCount(<<>>, o) /\ Count(<<r>>, o) \in Nat
      /\ \A h, tk : StackMeans(h, tk, s \o <<>>) <=> ListMeans(h, tk, <<r>>) /\ StackMeans(h, tk, <<>>)
      /\ ShellsOf(s \o <<>>) = ShellsOf(<<>>)
  BY <1>1, EmptyStack, DropHolds
<1>4. \A o \in Objects : StackCount(s, o) = One(r, o)
  BY <1>1, <1>3, EmptyStack, CountOne
<1>5. \A h, tk : StackMeans(h, tk, s) <=> Means(h, tk, r)
  BY <1>1, <1>3, EmptyStack, MeansOne
<1> QED
  BY <1>1, <1>2, <1>3, <1>4, <1>5, EmptyStack

LEMMA ForgetKeeps ==
  ASSUME WorldInv, NEW t \in Threads, Forget(t)
  PROVE  World(hand', stack', ret', heap')
<1>1. PICK r \in DOMAIN hand[t] : stack' = [stack EXCEPT ![t] = Drop(<<r>>)] /\ hand' = [hand EXCEPT ![t] = Bag!BagRemove(@, r)]
  BY DEF Forget
<1>2. stack[t] = <<>> /\ ret[t] = Nothing /\ ret' = ret /\ heap' = heap /\ hand' = [hand EXCEPT ![t] = Bag!BagRemove(hand[t], r)]
  BY <1>1 DEF Forget, Idle
<1> DEFINE tk == TakenIn(stack)  b2 == Bag!BagRemove(hand[t], r)  s2 == Drop(<<r>>)
<1>3. World(hand, stack, ret, heap)
  BY DEF WorldInv
<1>4. HeapOK(heap) /\ HandOK(hand[t]) /\ HandMeans(heap, tk, hand[t])
  BY <1>3, ThreadIs
<1>5. /\ HandOK(b2) /\ HandMeans(heap, tk, b2) /\ Good(r) /\ Means(heap, tk, r)
      /\ \A o : HandCount(hand[t], o) = HandCount(b2, o) + One(r, o) /\ HandCount(b2, o) \in Nat
  BY <1>4, HandTaken
<1>6. /\ Sound(s2) /\ Fit(s2, Nothing) /\ ShellsOf(s2) = {}
      /\ \A o \in Objects : StackCount(s2, o) = One(r, o)
      /\ StackMeans(heap, tk, s2)
  BY <1>5, DropAlone
<1> HIDE DEF tk, b2, s2
<1>7. \A o \in Atoms \cup Cells :
         heap[o].rc + HandCount(hand[t], o) + One(ret[t], o) = heap[o].rc + HandCount(b2, o) + StackCount(s2, o) + One(Nothing, o)
  <2> SUFFICES ASSUME NEW o \in Atoms \cup Cells
               PROVE heap[o].rc + HandCount(hand[t], o) + One(ret[t], o) = heap[o].rc + HandCount(b2, o) + StackCount(s2, o) + One(Nothing, o)
    OBVIOUS
  <2>1. heap[o].rc \in Nat /\ One(r, o) \in Nat /\ One(Nothing, o) = 0 /\ StackCount(s2, o) = One(r, o)
    BY <1>4, <1>6, ObjectsApart, NothingIs DEF HeapOK, ObjectOK, One
  <2>2. HandCount(hand[t], o) = HandCount(b2, o) + One(r, o) /\ HandCount(b2, o) \in Nat /\ ret[t] = Nothing
    BY <1>2, <1>5
  <2> QED
    BY <2>1, <2>2
<1>8. Acts(hand, stack, ret, heap, t, b2, s2, Nothing, heap)
  BY <1>4, <1>5, <1>6, <1>7 DEF Acts, tk
<1>10. DOMAIN hand = Threads /\ DOMAIN stack = Threads /\ DOMAIN ret = Threads
  BY DEF WorldInv, World
<1>11. hand' = [hand EXCEPT ![t] = b2] /\ stack' = [stack EXCEPT ![t] = s2]
  BY <1>1, <1>2 DEF b2, s2
<1>9. Changed(hand, hand', t, b2) /\ Changed(stack, stack', t, s2) /\ Changed(ret, ret', t, Nothing)
  <2>1. Changed(hand, hand', t, b2)
    BY <1>10, <1>11, ChangedTo
  <2>2. Changed(stack, stack', t, s2)
    BY <1>10, <1>11, ChangedTo
  <2>3. Changed(ret, ret', t, Nothing)
    BY <1>2, <1>10, ChangedTo
  <2> QED
    BY <2>1, <2>2, <2>3
<1> QED
  BY <1>2, <1>3, <1>8, <1>9, IdleStep

LEMMA FinishKeeps ==
  ASSUME WorldInv, NEW t \in Threads, Finish(t)
  PROVE  World(hand', stack', ret', heap')
<1> DEFINE tk == TakenIn(stack)  r == ret[t]
<1>0. DOMAIN hand = Threads /\ DOMAIN stack = Threads /\ DOMAIN ret = Threads
  BY DEF WorldInv, World
<1>1. stack[t] = <<>> /\ r # Nothing /\ ret' = [ret EXCEPT ![t] = Nothing] /\ heap' = heap
  BY DEF Finish, Return
<1>2. World(hand, stack, ret, heap)
  BY DEF WorldInv
<1>3. /\ HeapOK(heap) /\ HandOK(hand[t]) /\ HandMeans(heap, tk, hand[t]) /\ Fit(stack[t], r)
      /\ (r # Nothing => Means(heap, tk, r))
  BY <1>2, ThreadIs
<1>4. Good(r) /\ Means(heap, tk, r)
  BY <1>1, <1>3, EmptyStack DEF Fit, Usable, Good
<1> HIDE DEF tk
<1>5. CASE hand' = [hand EXCEPT ![t] = Bag!BagAdd(@, ret[t])] /\ stack' = stack
  <2> DEFINE b2 == Bag!BagAdd(hand[t], r)
  <2>1. HandOK(b2) /\ HandMeans(heap, tk, b2) /\ \A o : HandCount(b2, o) = HandCount(hand[t], o) + One(r, o)
    BY <1>3, <1>4, HandAdded
  <2>2. hand' = [hand EXCEPT ![t] = b2]
    BY <1>5
  <2> HIDE DEF b2
  <2>3. \A o \in Atoms \cup Cells :
         heap[o].rc + HandCount(hand[t], o) + One(ret[t], o) = heap[o].rc + HandCount(b2, o) + StackCount(<<>>, o) + One(Nothing, o)
    <3> SUFFICES ASSUME NEW o \in Atoms \cup Cells
               PROVE heap[o].rc + HandCount(hand[t], o) + One(r, o) = heap[o].rc + HandCount(b2, o) + StackCount(<<>>, o) + One(Nothing, o)
      OBVIOUS
    <3>1. heap[o].rc \in Nat /\ HandCount(hand[t], o) \in Nat /\ One(r, o) \in Nat /\ One(Nothing, o) = 0 /\ StackCount(<<>>, o) = 0
      BY <1>3, ObjectsApart, HandFinite, NothingIs, EmptyStack DEF HeapOK, ObjectOK, HandOK, One
    <3>2. HandCount(b2, o) = HandCount(hand[t], o) + One(r, o)
      BY <2>1
    <3> QED
      BY <3>1, <3>2
  <2>4. Acts(hand, stack, ret, heap, t, b2, <<>>, Nothing, heap)
    BY <1>3, <2>1, <2>3, EmptyStack DEF Acts, tk
  <2>5. Changed(hand, hand', t, b2) /\ Changed(stack, stack', t, <<>>) /\ Changed(ret, ret', t, Nothing)
    BY ZenonT(30), <1>0, <1>1, <1>5, <2>2, ChangedTo
  <2> QED
    BY <1>1, <1>2, <2>4, <2>5, IdleStep
<1>6. CASE stack' = [stack EXCEPT ![t] = Drop(<<ret[t]>>)] /\ hand' = hand
  <2> DEFINE s2 == Drop(<<r>>)
  <2>1. /\ Sound(s2) /\ Fit(s2, Nothing) /\ ShellsOf(s2) = {}
        /\ \A o \in Objects : StackCount(s2, o) = One(r, o)
        /\ StackMeans(heap, tk, s2)
    BY <1>4, DropAlone
  <2>2. stack' = [stack EXCEPT ![t] = s2]
    BY <1>6
  <2> HIDE DEF s2
  <2>3. \A o \in Atoms \cup Cells :
         heap[o].rc + HandCount(hand[t], o) + One(ret[t], o) = heap[o].rc + HandCount(hand[t], o) + StackCount(s2, o) + One(Nothing, o)
    <3> SUFFICES ASSUME NEW o \in Atoms \cup Cells
               PROVE heap[o].rc + HandCount(hand[t], o) + One(r, o) = heap[o].rc + HandCount(hand[t], o) + StackCount(s2, o) + One(Nothing, o)
      OBVIOUS
    <3>1. heap[o].rc \in Nat /\ HandCount(hand[t], o) \in Nat /\ One(r, o) \in Nat /\ One(Nothing, o) = 0 /\ StackCount(s2, o) = One(r, o)
      BY <1>3, <2>1, ObjectsApart, HandFinite, NothingIs DEF HeapOK, ObjectOK, HandOK, One
    <3> QED
      BY <3>1
  <2>4. Acts(hand, stack, ret, heap, t, hand[t], s2, Nothing, heap)
    BY <1>3, <2>1, <2>3 DEF Acts, tk
  <2>5. Changed(hand, hand', t, hand[t]) /\ Changed(stack, stack', t, s2) /\ Changed(ret, ret', t, Nothing)
    BY <1>0, <1>1, <1>6, <2>2, ChangedTo
  <2> QED
    BY <1>1, <1>2, <2>4, <2>5, IdleStep
<1> QED
  BY <1>5, <1>6 DEF Finish

LEMMA CallKeeps ==
  ASSUME WorldInv, NEW t \in Threads, Call(t)
  PROVE  World(hand', stack', ret', heap')
<1> DEFINE tk == TakenIn(stack)  b == hand[t]
<1>0. DOMAIN hand = Threads /\ DOMAIN stack = Threads /\ DOMAIN ret = Threads
  BY DEF WorldInv, World
<1>1. stack[t] = <<>> /\ ret[t] = Nothing /\ ret' = ret /\ heap' = heap
  BY DEF Call, Idle
<1>2. World(hand, stack, ret, heap)
  BY DEF WorldInv
<1>3. HeapOK(heap) /\ HandOK(b) /\ HandMeans(heap, tk, b)
  BY <1>2, ThreadIs
<1> HIDE DEF tk, b
<1>4. PICK c \in DOMAIN b : \E a \in DOMAIN Bag!BagRemove(b, c) :
        LET rest == Bag!BagRemove(Bag!BagRemove(b, c), a)
        IN /\ Partial(c.o)
           /\ \/ /\ stack' = [stack EXCEPT ![t] = <<Frame("apply", c, <<a>>)>>]
                 /\ hand' = [hand EXCEPT ![t] = rest]
              \/ \E d \in DOMAIN rest :
                 /\ stack' = [stack EXCEPT ![t] = <<Frame("applyN", c, <<a, d>>)>>]
                 /\ hand' = [hand EXCEPT ![t] = Bag!BagRemove(rest, d)]
  BY DEF Call, b
<1> DEFINE b1 == Bag!BagRemove(b, c)
<1>5. /\ HandOK(b1) /\ HandMeans(heap, tk, b1) /\ Good(c) /\ Means(heap, tk, c)
      /\ \A o : HandCount(b, o) = HandCount(b1, o) + One(c, o) /\ HandCount(b1, o) \in Nat
  BY <1>3, HandTaken
<1>6. PICK a \in DOMAIN b1 :
        LET rest == Bag!BagRemove(b1, a)
        IN /\ Partial(c.o)
           /\ \/ /\ stack' = [stack EXCEPT ![t] = <<Frame("apply", c, <<a>>)>>]
                 /\ hand' = [hand EXCEPT ![t] = rest]
              \/ \E d \in DOMAIN rest :
                 /\ stack' = [stack EXCEPT ![t] = <<Frame("applyN", c, <<a, d>>)>>]
                 /\ hand' = [hand EXCEPT ![t] = Bag!BagRemove(rest, d)]
  BY <1>4
<1> HIDE DEF b1
<1> DEFINE rest == Bag!BagRemove(b1, a)
<1>7. /\ HandOK(rest) /\ HandMeans(heap, tk, rest) /\ Good(a) /\ Means(heap, tk, a)
      /\ \A o : HandCount(b1, o) = HandCount(rest, o) + One(a, o) /\ HandCount(rest, o) \in Nat
  BY <1>5, HandTaken
<1>8. /\ Partial(c.o)
      /\ \/ /\ stack' = [stack EXCEPT ![t] = <<Frame("apply", c, <<a>>)>>]
            /\ hand' = [hand EXCEPT ![t] = rest]
         \/ \E d \in DOMAIN rest :
            /\ stack' = [stack EXCEPT ![t] = <<Frame("applyN", c, <<a, d>>)>>]
            /\ hand' = [hand EXCEPT ![t] = Bag!BagRemove(rest, d)]
  BY <1>6
<1> HIDE DEF rest
<1>9. IsRef(c) /\ Part(c.v)
  <2>1. c.o # Null /\ heap[c.o].fn \in Fns /\ Len(heap[c.o].args) < Arity[heap[c.o].fn]
    BY <1>8 DEF Partial, IsClosure, Filled, ArityOf
  <2>2. Holds(heap, tk, c)
    BY <1>2, <1>5, <2>1, HeldIs DEF tk
  <2> QED
    BY <1>5, <2>1, <2>2 DEF Holds, Part, Good
<1>10. ASSUME NEW x, IsFrame(x), x.k \in Active, ~Fills(x), x.c = c, NEW xs, x.xs = xs, ListMeans(heap, tk, xs),
              NEW b2, HandOK(b2), HandMeans(heap, tk, b2),
              \A o \in Objects : HandCount(b, o) = HandCount(b2, o) + One(c, o) + Count(xs, o) /\ HandCount(b2, o) \in Nat,
              stack' = [stack EXCEPT ![t] = <<x>>], hand' = [hand EXCEPT ![t] = b2]
       PROVE  World(hand', stack', ret', heap')
  <2> DEFINE s2 == <<x>>
  <2>1. <<x>> \o <<>> = <<x>>
    BY SingleSeq, JoinNone
  <2>2. /\ Sound(<<x>> \o <<>>) /\ Fit(<<x>> \o <<>>, Nothing) /\ ShellsOf(<<x>> \o <<>>) = ShellsOf(<<>>)
        /\ \A o \in Objects : /\ StackCount(<<x>> \o <<>>, o) = One(x.c, o) + Count(x.xs, o) + StackCount(<<>>, o)
                              /\ StackCount(<<>>, o) \in Nat /\ One(x.c, o) \in Nat /\ Count(x.xs, o) \in Nat
        /\ StackMeans(heap, tk, <<x>> \o <<>>) <=>
             StackMeans(heap, tk, <<>>) /\ (x.k # "body" => Means(heap, tk, x.c)) /\ ListMeans(heap, tk, x.xs)
    BY <1>10, EmptyStack, ActiveOn
  <2>3. /\ Sound(s2) /\ Fit(s2, Nothing) /\ ShellsOf(s2) = {} /\ StackMeans(heap, tk, s2)
        /\ \A o \in Objects : StackCount(s2, o) = One(c, o) + Count(xs, o) /\ One(c, o) \in Nat /\ Count(xs, o) \in Nat
    <3>1. Sound(s2) /\ Fit(s2, Nothing) /\ ShellsOf(s2) = {}
      BY <2>1, <2>2, EmptyStack
    <3>2. StackMeans(heap, tk, <<>>)
      BY EmptyStack
    <3>3. StackMeans(heap, tk, s2)
      BY <1>5, <1>10, <2>1, <2>2, <3>2
    <3>4. ASSUME NEW o \in Objects PROVE StackCount(s2, o) = One(c, o) + Count(xs, o) /\ One(c, o) \in Nat /\ Count(xs, o) \in Nat
      <4>1. StackCount(<<>>, o) = 0
        BY EmptyStack
      <4>2. /\ StackCount(<<x>> \o <<>>, o) = One(x.c, o) + Count(x.xs, o) + StackCount(<<>>, o)
            /\ One(x.c, o) \in Nat /\ Count(x.xs, o) \in Nat
        BY <2>2
      <4>3. One(x.c, o) = One(c, o) /\ Count(x.xs, o) = Count(xs, o)
        BY <1>10
      <4>4. StackCount(s2, o) = StackCount(<<x>> \o <<>>, o)
        BY <2>1
      <4> HIDE DEF s2
      <4> QED
        BY <4>1, <4>2, <4>3, <4>4
    <3> QED
      BY <3>1, <3>3, <3>4
  <2> HIDE DEF s2
  <2>4. \A o \in Atoms \cup Cells :
         heap[o].rc + HandCount(hand[t], o) + One(ret[t], o) = heap[o].rc + HandCount(b2, o) + StackCount(s2, o) + One(Nothing, o)
    <3> SUFFICES ASSUME NEW o \in Atoms \cup Cells
               PROVE heap[o].rc + HandCount(b, o) + One(Nothing, o) = heap[o].rc + HandCount(b2, o) + StackCount(s2, o) + One(Nothing, o)
      BY <1>1 DEF b
    <3>1. o \in Objects /\ heap[o].rc \in Nat /\ One(Nothing, o) = 0
      BY <1>3, ObjectsApart, NothingIs DEF HeapOK, ObjectOK
    <3> QED
      BY <1>10, <2>3, <3>1
  <2>5. Acts(hand, stack, ret, heap, t, b2, s2, Nothing, heap)
    BY <1>3, <1>10, <2>3, <2>4 DEF Acts, tk
  <2>6. Changed(hand, hand', t, b2)
    BY <1>0, <1>10, ChangedTo
  <2>7. Changed(stack, stack', t, s2)
    BY <1>0, <1>10, ChangedTo DEF s2
  <2>8. Changed(ret, ret', t, Nothing)
    BY <1>0, <1>1, ChangedTo
  <2> QED
    BY <1>1, <1>2, <2>5, <2>6, <2>7, <2>8, IdleStep
<1>11. CASE stack' = [stack EXCEPT ![t] = <<Frame("apply", c, <<a>>)>>] /\ hand' = [hand EXCEPT ![t] = rest]
  <2> DEFINE x == Frame("apply", c, <<a>>)
  <2>1. IsFrame(x) /\ x.k = "apply" /\ x.c = c /\ x.xs = <<a>> /\ x.k \in Active /\ ~Fills(x)
    BY <1>7, <1>9, ApplyFrame
  <2>2. ListMeans(heap, tk, <<a>>)
    BY <1>7, MeansOne
  <2>3. \A o \in Objects : HandCount(b, o) = HandCount(rest, o) + One(c, o) + Count(<<a>>, o) /\ HandCount(rest, o) \in Nat
    <3> SUFFICES ASSUME NEW o \in Objects PROVE HandCount(b, o) = HandCount(rest, o) + One(c, o) + One(a, o) /\ HandCount(rest, o) \in Nat
      BY CountOne
    <3>1. One(a, o) \in Nat /\ One(c, o) \in Nat
      BY DEF One
    <3> QED
      BY <1>5, <1>7, <3>1
  <2>4. stack' = [stack EXCEPT ![t] = <<x>>]
    BY <1>11
  <2> HIDE DEF x
  <2> QED
    BY <1>7, <1>10, <1>11, <2>1, <2>2, <2>3, <2>4
<1>12. CASE \E d \in DOMAIN rest : /\ stack' = [stack EXCEPT ![t] = <<Frame("applyN", c, <<a, d>>)>>]
                                   /\ hand' = [hand EXCEPT ![t] = Bag!BagRemove(rest, d)]
  <2>1. PICK d \in DOMAIN rest : /\ stack' = [stack EXCEPT ![t] = <<Frame("applyN", c, <<a, d>>)>>]
                                 /\ hand' = [hand EXCEPT ![t] = Bag!BagRemove(rest, d)]
    BY <1>12
  <2> DEFINE b2 == Bag!BagRemove(rest, d)  xs == <<a, d>>  x == Frame("applyN", c, xs)
  <2>2. /\ HandOK(b2) /\ HandMeans(heap, tk, b2) /\ Good(d) /\ Means(heap, tk, d)
        /\ \A o : HandCount(rest, o) = HandCount(b2, o) + One(d, o) /\ HandCount(b2, o) \in Nat
    BY <1>7, HandTaken
  <2>3. stack' = [stack EXCEPT ![t] = <<x>>] /\ hand' = [hand EXCEPT ![t] = b2]
    BY <2>1
  <2>4. xs = <<a>> \o <<d>> /\ xs # <<>> /\ IsSeq(<<a>>) /\ IsSeq(<<d>>)
    BY PairSeq, SingleSeq
  <2> HIDE DEF b2, xs, x
  <2>5. IsList(<<a>>) /\ IsList(<<d>>)
    BY <1>7, <2>2, ListOne
  <2>6. IsList(xs) /\ ListMeans(heap, tk, xs)
    BY <1>7, <2>2, <2>4, <2>5, ListJoin, MeansJoin, MeansOne
  <2>7. IsFrame(x) /\ x.k = "applyN" /\ x.c = c /\ x.xs = xs /\ x.k \in Active /\ ~Fills(x)
    BY ZenonT(30), <1>9, <2>4, <2>6, ApplyNFrame DEF x
  <2>8. \A o \in Objects : HandCount(b, o) = HandCount(b2, o) + One(c, o) + Count(xs, o) /\ HandCount(b2, o) \in Nat
    <3> SUFFICES ASSUME NEW o \in Objects PROVE HandCount(b, o) = HandCount(b2, o) + One(c, o) + Count(xs, o) /\ HandCount(b2, o) \in Nat
      OBVIOUS
    <3>1. One(a, o) \in Nat /\ One(c, o) \in Nat /\ One(d, o) \in Nat
      BY DEF One
    <3>2. Count(xs, o) = One(a, o) + One(d, o)
      BY <2>4, CountJoin, CountOne
    <3> QED
      BY <1>5, <1>7, <2>2, <3>1, <3>2
  <2> QED
    BY <1>10, <2>2, <2>3, <2>6, <2>7, <2>8
<1> QED
  BY <1>8, <1>11, <1>12

(***************************************************************************)
(* Applying a closure.                                                     *)
(***************************************************************************)
Duped(h, h2, tk, refs) ==
  /\ HeapOK(h2) /\ \A o \in Objects : h2[o].fn = h[o].fn /\ h2[o].args = h[o].args
  /\ \A c \in tk : h2[c].rc = h[c].rc
  /\ \A o \in Atoms \cup Cells : h2[o].rc = h[o].rc + Count(refs, o)

LEMMA DupMoves ==
  ASSUME NEW h, HeapOK(h), NEW refs, IsList(refs), NEW tk, tk \subseteq Cells, ListMeans(h, tk, refs),
         \A i \in DOMAIN refs : Live(h, refs[i])
  PROVE  Duped(h, Dup(h, refs), tk, refs)
<1> DEFINE h2 == Dup(h, refs)
<1>1. HeapOK(h2) /\ \A o \in Cells : (\A i \in DOMAIN refs : refs[i].o # o) => h2[o].rc = h[o].rc
  BY DupOK
<1>2. /\ \A o \in Objects : h2[o].fn = h[o].fn /\ h2[o].args = h[o].args
      /\ \A o \in Atoms \cup Cells : h2[o].rc = h[o].rc + Count(refs, o)
  BY DupIs
<1>3. ASSUME NEW c \in tk PROVE h2[c].rc = h[c].rc
  <2>1. c \in Cells /\ c # Null
    BY ObjectsApart
  <2>2. \A i \in DOMAIN refs : refs[i].o # c
    BY <1>3, <2>1 DEF ListMeans, Means
  <2> QED
    BY <1>1, <2>1, <2>2
<1> HIDE DEF h2
<1>4. Duped(h, h2, tk, refs)
  BY <1>1, <1>2, <1>3 DEF Duped
<1> QED
  BY <1>4 DEF h2

\* A frame that applies a closure, and the stack under it.
Applies(h, tk, s, r, x, u) ==
  /\ s = <<x>> \o u /\ Sound(u) /\ Framed(u) /\ Calm(u) /\ IsSeq(u) /\ StackMeans(h, tk, u)
  /\ IsFrame(x) /\ IsRef(x.c) /\ Part(x.c.v) /\ IsList(x.xs) /\ x.xs # <<>> /\ IsSeq(x.xs)
  /\ ListMeans(h, tk, x.xs) /\ (\A i \in DOMAIN x.xs : Live(h, x.xs[i]))
  /\ Means(h, tk, x.c) /\ Holds(h, tk, x.c) /\ Live(h, x.c) /\ x.c.o # Null /\ x.c.o \in Cells \cup Statics
  /\ h[x.c.o].rc # 0 /\ Good(x.c)
  /\ r = Nothing
  /\ (x.k \in {"apply", "applyN"} => Closed(u)) /\ (Fills(x) => Reach(u, 0))
  /\ ShellsOf(s) = ShellsOf(u)
  /\ \A o \in Objects : /\ StackCount(s, o) = One(x.c, o) + Count(x.xs, o) + StackCount(u, o)
                        /\ One(x.c, o) \in Nat /\ Count(x.xs, o) \in Nat /\ StackCount(u, o) \in Nat

LEMMA AppliesIs ==
  ASSUME NEW hd, NEW st, NEW rt, NEW h, World(hd, st, rt, h), NEW t \in Threads, st[t] # <<>>,
         Head(st[t]).k \in {"apply", "applyN", "grow"}
  PROVE  Applies(h, TakenIn(st), st[t], rt[t], Head(st[t]), Tail(st[t]))
<1> DEFINE x == Head(st[t])  u == Tail(st[t])  tk == TakenIn(st)
<1>1. TopOf(h, tk, st[t], x, u)
  BY TopIs
<1>2. x.k \in {"apply", "applyN", "grow"}
  OBVIOUS
<1>3. Fit(st[t], rt[t])
  BY ThreadIs
<1> HIDE DEF x, u, tk
<1>4. /\ st[t] = <<x>> \o u /\ IsSeq(u) /\ Framed(u) /\ Sound(u) /\ IsFrame(x)
      /\ (x.k # "drop" => Calm(u)) /\ (x.k \in Opener \cup {"more"} => Closed(u)) /\ (Fills(x) => Reach(u, 0))
      /\ StackMeans(h, tk, u)
      /\ x.k # "shell" => (x.k # "body" => Means(h, tk, x.c)) /\ ListMeans(h, tk, x.xs)
      /\ (x.k # "body" => Live(h, x.c)) /\ \A i \in DOMAIN x.xs : Live(h, x.xs[i])
  BY <1>1 DEF TopOf
<1>5. x.k \in Active /\ x.k # "drop" /\ x.k # "shell" /\ x.k # "body" /\ (x.k \in {"apply", "applyN"} => x.k \in Opener)
  BY <1>2 DEF Active, Opener
<1>6. Calm(u) /\ (x.k \in {"apply", "applyN"} => Closed(u)) /\ Means(h, tk, x.c) /\ ListMeans(h, tk, x.xs) /\ Live(h, x.c)
  BY <1>4, <1>5
<1>7. IsRef(x.c) /\ Part(x.c.v) /\ IsList(x.xs) /\ x.xs # <<>> /\ IsSeq(x.xs)
  BY <1>2, <1>4 DEF IsFrame, IsList
<1>8. Applicable(h, x.c)
  <2>1. x.c.v.fn \in Fns
    BY <1>7 DEF Part
  <2> QED
    BY <1>6, <2>1, FnIs DEF tk
<1>9. x.c.o # Null /\ x.c.o \in Cells \cup Statics /\ h[x.c.o].rc # 0 /\ Good(x.c)
  BY <1>7, <1>8 DEF Applicable, Good
<1>10. Holds(h, tk, x.c)
  BY <1>6, <1>9, HeldIs DEF tk
<1>11. rt[t] = Nothing
  BY <1>3, <1>4, <1>5, FitActive
<1>12. ShellsOf(<<x>> \o u) = ShellsOf(u)
  BY <1>4, <1>5, ShellsCons
<1>13. \A o \in Objects : /\ StackCount(<<x>> \o u, o) = One(x.c, o) + Count(x.xs, o) + StackCount(u, o)
                          /\ One(x.c, o) \in Nat /\ Count(x.xs, o) \in Nat /\ StackCount(u, o) \in Nat
  BY <1>4, CountCons
<1>14. Applies(h, tk, st[t], rt[t], x, u)
  BY <1>4, <1>6, <1>7, <1>9, <1>10, <1>11, <1>12, <1>13 DEF Applies
<1> QED
  BY <1>14 DEF x, u, tk

\* The body of a function runs on the arguments held and the new ones.
RunOf(h, tk, c, xs, x) ==
  /\ IsFrame(x) /\ x.k = "body" /\ x.k \in Active /\ x.k \notin Opener /\ x.xs = h[c.o].args \o xs
  /\ ListMeans(h, tk, x.xs)
  /\ \A o \in Objects : /\ One(x.c, o) = 0 /\ Count(x.xs, o) = Count(h[c.o].args, o) + Count(xs, o)
                        /\ Count(h[c.o].args, o) \in Nat /\ Count(xs, o) \in Nat

LEMMA RunFrame ==
  ASSUME NEW h, NEW tk, NEW c, Holds(h, tk, c), NEW xs, IsList(xs), ListMeans(h, tk, xs),
         Len(h[c.o].args) + Len(xs) = Arity[h[c.o].fn]
  PROVE  RunOf(h, tk, c, xs, Body(Apply(c.v, Values(xs)), h[c.o].args \o xs))
<1> DEFINE args == h[c.o].args  all == args \o xs  v == Apply(c.v, Values(xs))  x == Body(v, all)
<1>1. /\ IsList(args) /\ IsSeq(args) /\ ListMeans(h, tk, args) /\ c.v = [fn |-> h[c.o].fn, args |-> Values(args)]
  BY DEF Holds, IsList
<1>2. IsSeq(xs)
  BY DEF IsList
<1>3. IsList(all) /\ ListMeans(h, tk, all) /\ Len(all) = Len(args) + Len(xs) /\ Values(all) = Values(args) \o Values(xs)
  BY <1>1, <1>2, ListJoin, MeansJoin, Joined, ValuesJoin
<1>4. v.args = Values(args) \o Values(xs) /\ v.fn = h[c.o].fn
  BY <1>1 DEF Apply
<1>5. \A o \in Objects : /\ Count(all, o) = Count(args, o) + Count(xs, o)
                         /\ Count(args, o) \in Nat /\ Count(xs, o) \in Nat
  BY <1>1, <1>2, CountJoin, CountIs
<1>6. x = Body(v, all)
  OBVIOUS
<1> HIDE DEF args, all, v, x
<1>7. /\ IsFrame(x) /\ x.k = "body" /\ x.xs = all /\ x.k \in Active /\ x.k \notin Opener
      /\ \A o \in Objects : One(x.c, o) = 0
  <2>1. Values(all) = v.args /\ Len(all) = Arity[v.fn]
    BY <1>3, <1>4 DEF args
  <2>2. /\ IsFrame(Body(v, all)) /\ Body(v, all).k = "body" /\ Body(v, all).xs = all /\ Body(v, all).c = [o |-> Null, v |-> v]
        /\ Body(v, all).k \in Active /\ Body(v, all).k \notin Opener
        /\ \A o \in Objects : One(Body(v, all).c, o) = 0
    BY <1>3, <2>1, BodyFrame
  <2> QED
    BY <1>6, <2>2
<1> QED
  BY <1>3, <1>5, <1>7 DEF args, all, v, x, RunOf

LEMMA DispatchKeeps ==
  ASSUME WorldInv, NEW t \in Threads, stack[t] # <<>>, NEW x, x = Head(stack[t]), x.k \in {"apply", "applyN"},
         Len(heap[x.c.o].args) + Len(x.xs) = Arity[heap[x.c.o].fn]
  PROVE  World(hand, [stack EXCEPT ![t] = <<Body(Apply(x.c.v, Values(x.xs)), heap[x.c.o].args \o x.xs),
                                            Frame("drop", Unit, <<x.c>>), Tramp>> \o Tail(stack[t])],
               ret, Dup(heap, heap[x.c.o].args))
<1> DEFINE u == Tail(stack[t])  tk == TakenIn(stack)  refs == heap[x.c.o].args  c == x.c
           y == Body(Apply(x.c.v, Values(x.xs)), heap[x.c.o].args \o x.xs)  w == Frame("drop", Unit, <<x.c>>)
           h2 == Dup(heap, heap[x.c.o].args)  s2 == <<y, w, Tramp>> \o Tail(stack[t])
           st2 == [stack EXCEPT ![t] = s2]
           u1 == <<Tramp>> \o u  u2 == Drop(<<c>>) \o u1  u3 == <<y>> \o u2
<1>1. World(hand, stack, ret, heap) /\ HeapOK(heap)
  BY DEF WorldInv, World
<1>2. Applies(heap, tk, stack[t], ret[t], x, u)
  <2>1. Head(stack[t]).k \in {"apply", "applyN", "grow"}
    OBVIOUS
  <2> QED
    BY <1>1, <2>1, AppliesIs
<1> HIDE DEF u, tk
<1>3. /\ Sound(u) /\ Framed(u) /\ Calm(u) /\ IsSeq(u) /\ StackMeans(heap, tk, u) /\ Closed(u)
      /\ IsList(x.xs) /\ IsSeq(x.xs) /\ ListMeans(heap, tk, x.xs) /\ Holds(heap, tk, c) /\ Means(heap, tk, c) /\ Good(c)
      /\ ret[t] = Nothing /\ ShellsOf(stack[t]) = ShellsOf(u)
      /\ \A o \in Objects : /\ StackCount(stack[t], o) = One(c, o) + Count(x.xs, o) + StackCount(u, o)
                            /\ One(c, o) \in Nat /\ Count(x.xs, o) \in Nat /\ StackCount(u, o) \in Nat
  BY <1>2 DEF Applies
<1>4. IsList(refs) /\ IsSeq(refs) /\ ListMeans(heap, tk, refs) /\ \A i \in DOMAIN refs : Live(heap, refs[i])
  BY <1>3 DEF Holds, IsList
<1>5. Duped(heap, h2, tk, refs)
  <2>1. tk \subseteq Cells
    BY DEF tk, TakenIn
  <2> HIDE DEF refs
  <2> QED
    BY <1>1, <1>4, <2>1, DupMoves DEF refs
<1> HIDE DEF h2
<1>6. /\ IsFrame(y) /\ y.k = "body" /\ y.k \in Active /\ y.k \notin Opener /\ y.xs = refs \o x.xs /\ ListMeans(heap, tk, y.xs)
      /\ \A o \in Objects : /\ One(y.c, o) = 0 /\ Count(y.xs, o) = Count(refs, o) + Count(x.xs, o)
                            /\ Count(refs, o) \in Nat /\ Count(x.xs, o) \in Nat
  <2>1. RunOf(heap, tk, c, x.xs, y)
    BY <1>3, RunFrame
  <2> HIDE DEF y
  <2> QED
    BY <2>1 DEF RunOf
<1> HIDE DEF y
<1>7. IsList(<<c>>) /\ ListMeans(heap, tk, <<c>>) /\ Drop(<<c>>) = <<w>> /\ \A o : Count(<<c>>, o) = One(c, o)
  <2>1. <<c>> # <<>>
    BY SingleSeq, NoSeq
  <2> QED
    BY <1>3, <2>1, ListOne, MeansOne, CountOne DEF Drop
<1> HIDE DEF refs, c, w
<1>8. /\ Sound(u1) /\ Calm(u1) /\ ShellsOf(u1) = ShellsOf(u) /\ Framed(u1) /\ Reach(u1, 0)
      /\ \A o \in Objects : StackCount(u1, o) = StackCount(u, o)
      /\ StackMeans(heap, tk, u1) /\ IsSeq(u1)
  BY <1>3, TrampOn DEF Framed
<1> HIDE DEF u1
<1>9. /\ Sound(u2) /\ Calm(u2) /\ Reach(u2, 0) /\ IsSeq(u2)
  BY <1>7, <1>8, DropOn
<1>10. /\ ShellsOf(u2) = ShellsOf(u) /\ StackMeans(heap, tk, u2)
       /\ \A o \in Objects : StackCount(u2, o) = One(c, o) + StackCount(u, o)
  BY <1>7, <1>8, DropHolds
<1> HIDE DEF u2
<1>11. /\ Sound(u3) /\ Fit(u3, Nothing) /\ ShellsOf(u3) = ShellsOf(u2)
       /\ \A o \in Objects : StackCount(u3, o) = One(y.c, o) + Count(y.xs, o) + StackCount(u2, o)
       /\ StackMeans(heap, tk, u3)
  BY <1>6, <1>9, <1>10, ActiveOn
<1>12. s2 = u3
  <2>1. <<y, w, Tramp>> \o u = <<y>> \o (<<w>> \o (<<Tramp>> \o u))
    BY <1>3, ThreeOn
  <2> QED
    BY <1>7, <2>1 DEF u, u1, u2
<1> HIDE DEF u3, s2
<1>13. ASSUME NEW o \in Atoms \cup Cells
       PROVE  h2[o].rc + StackCount(stack[t], o) + One(ret[t], o) = heap[o].rc + StackCount(u3, o) + One(Nothing, o)
  <2>1. o \in Objects /\ heap[o].rc \in Nat
    BY <1>1, ObjectsApart DEF HeapOK, ObjectOK
  <2>2. h2[o].rc = heap[o].rc + Count(refs, o)
    BY <1>5 DEF Duped
  <2>3. One(ret[t], o) = 0 /\ One(Nothing, o) = 0
    BY <1>3, <2>1, NothingIs
  <2>4. StackCount(u3, o) = 0 + (Count(refs, o) + Count(x.xs, o)) + (One(c, o) + StackCount(u, o))
    BY <1>6, <1>10, <1>11, <2>1
  <2>5. StackCount(stack[t], o) = One(c, o) + Count(x.xs, o) + StackCount(u, o)
        /\ One(c, o) \in Nat /\ Count(x.xs, o) \in Nat /\ StackCount(u, o) \in Nat /\ Count(refs, o) \in Nat
    BY <1>3, <1>6, <2>1
  <2> QED
    BY <2>1, <2>2, <2>3, <2>4, <2>5
<1>14. Moves(stack, ret, heap, t, u3, Nothing, h2)
  BY <1>3, <1>5, <1>10, <1>11, <1>13 DEF Moves, Duped, tk
<1>15. st2 = [stack EXCEPT ![t] = u3]
  BY <1>12
<1> HIDE DEF st2
<1>16. World(hand, st2, ret, h2)
  BY <1>1, <1>3, <1>14, <1>15, StackStep
<1> QED
  BY <1>16 DEF st2, s2, h2, y, w

LEMMA OnlyOne ==
  ASSUME NEW s, IsSeq(s), Len(s) = 1
  PROVE  s = <<s[1]>> /\ Head(s) = s[1]
<1>1. PICK S : s \in Seq(S)
  BY DEF IsSeq
<1> QED
  BY <1>1

\* The arguments of a closure pass to a frame, and its shell is left.
Empties(st, rt, h, t, z, s2, r2) ==
  /\ z \in Cells \ TakenIn(st) /\ h[z].rc = 1 /\ ShellsOf(s2) = ShellsOf(st[t]) \cup {z}
  /\ Sound(s2) /\ Fit(s2, r2) /\ StackMeans(h, TakenIn(st), s2) /\ r2 = Nothing
  /\ \A o \in Atoms \cup Cells : StackCount(st[t], o) + One(rt[t], o) + Count(h[z].args, o) = StackCount(s2, o) + One(r2, o)

LEMMA EmptyStep ==
  ASSUME NEW hd, NEW st, NEW rt, NEW h, World(hd, st, rt, h), NEW t \in Threads, NEW z,
         NEW s2, NEW r2, Empties(st, rt, h, t, z, s2, r2),
         NEW st2, Changed(st, st2, t, s2), NEW rt2, Changed(rt, rt2, t, r2)
  PROVE  World(hd, st2, rt2, h)
<1>1. /\ DOMAIN st2 = Threads /\ st2[t] = s2 /\ \A u \in Threads \ {t} : st2[u] = st[u]
  BY DEF Changed
<1>2. /\ DOMAIN rt2 = Threads /\ rt2[t] = r2 /\ \A u \in Threads \ {t} : rt2[u] = rt[u]
  BY DEF Changed
<1>3. /\ z \in Cells /\ z \notin TakenIn(st) /\ h[z].rc = 1 /\ ShellsOf(s2) = ShellsOf(st[t]) \cup {z}
      /\ Sound(s2) /\ Fit(s2, r2) /\ StackMeans(h, TakenIn(st), s2) /\ r2 = Nothing
  BY DEF Empties
<1>4. HeapOK(h) /\ HandOK(hd[t]) /\ HandMeans(h, TakenIn(st), hd[t]) /\ DOMAIN hd = Threads /\ Framed(st[t])
  BY DEF World, ThreadOK, Sound
<1>5. z \in TakenIn(st2)
  BY <1>1, <1>3 DEF TakenIn
<1>6. Local(hd, st, rt, h, hd, st2, rt2, h, t, z)
  <2>1. \A c \in Cells \ {z} : c \in ShellsOf(st2[t]) <=> c \in ShellsOf(st[t])
    BY <1>1, <1>3
  <2> QED
    BY <1>1, <1>2, <1>3, <1>4, <2>1 DEF Local
<1>7. ASSUME NEW o \in Atoms \cup Cells
      PROVE  h[o].rc + Hold(hd[t], st[t], rt[t], o) + CellCount(TakenIn(st), h, z, o)
               = h[o].rc + Hold(hd[t], st2[t], rt2[t], o) + CellCount(TakenIn(st2), h, z, o)
  <2>1. IsSeq(h[z].args)
    BY <1>3, <1>4, ObjectsApart DEF HeapOK, ObjectOK, IsList
  <2>2. CellCount(TakenIn(st), h, z, o) = Count(h[z].args, o) /\ CellCount(TakenIn(st2), h, z, o) = 0
    BY <1>3, <1>5, <2>1, CellIs
  <2>3. HandCount(hd[t], o) \in Nat /\ StackCount(st[t], o) \in Nat /\ StackCount(s2, o) \in Nat /\ Count(h[z].args, o) \in Nat
    BY <1>3, <1>4, <2>1, CountIs, HandFinite, StackFinite, FramesStack DEF Sound, HandOK
  <2>4. One(rt[t], o) \in Nat /\ One(r2, o) \in Nat
    BY DEF One
  <2>5. h[o].rc \in Nat
    BY <1>4, ObjectsApart DEF HeapOK, ObjectOK
  <2>6. StackCount(st[t], o) + One(rt[t], o) + Count(h[z].args, o) = StackCount(s2, o) + One(r2, o)
    BY DEF Empties
  <2>7. h[o].rc + (HandCount(hd[t], o) + StackCount(st[t], o) + One(rt[t], o)) + Count(h[z].args, o)
          = h[o].rc + (HandCount(hd[t], o) + StackCount(s2, o) + One(r2, o)) + 0
    BY <2>3, <2>4, <2>5, <2>6
  <2> QED
    BY <1>1, <1>2, <2>2, <2>7 DEF Hold
<1>8. Balanced(hd, st, rt, h, hd, st2, rt2, h, t, z)
  BY <1>7 DEF Balanced
<1>9. Named(h, TakenIn(st), h, TakenIn(st2), hd[t], st2[t], rt2[t], z)
  BY <1>1, <1>2, <1>3, <1>4 DEF Named
<1>10. Emptied(h, st2[t], z)
  BY <1>1, <1>3 DEF Emptied
<1> QED
  BY <1>3, <1>6, <1>8, <1>9, <1>10, WorldStep

\* The last argument comes and the closure is the only reference: it is run, and leaves a shell.
LEMMA RunUniqueKeeps ==
  ASSUME WorldInv, NEW t \in Threads, stack[t] # <<>>, NEW x, x = Head(stack[t]), x.k \in {"apply", "applyN"},
         Len(heap[x.c.o].args) + Len(x.xs) = Arity[heap[x.c.o].fn], heap[x.c.o].rc = 1
  PROVE  World(hand, [stack EXCEPT ![t] = <<Body(Apply(x.c.v, Values(x.xs)), heap[x.c.o].args \o x.xs),
                                            Frame("shell", x.c, <<>>), Tramp>> \o Tail(stack[t])], ret, heap)
<1> DEFINE u == Tail(stack[t])  tk == TakenIn(stack)  refs == heap[x.c.o].args  c == x.c
           y == Body(Apply(x.c.v, Values(x.xs)), heap[x.c.o].args \o x.xs)  w == Frame("shell", x.c, <<>>)
           s2 == <<y, w, Tramp>> \o Tail(stack[t])
           st2 == [stack EXCEPT ![t] = s2]
           u1 == <<Tramp>> \o u  u2 == <<w>> \o u1  u3 == <<y>> \o u2
<1>1. World(hand, stack, ret, heap) /\ HeapOK(heap) /\ DOMAIN stack = Threads /\ DOMAIN ret = Threads
  BY DEF WorldInv, World
<1>2. Applies(heap, tk, stack[t], ret[t], x, u)
  <2>1. Head(stack[t]).k \in {"apply", "applyN", "grow"}
    OBVIOUS
  <2> QED
    BY <1>1, <2>1, AppliesIs
<1> HIDE DEF u, tk
<1>3. /\ Sound(u) /\ Framed(u) /\ Calm(u) /\ IsSeq(u) /\ StackMeans(heap, tk, u) /\ Closed(u)
      /\ IsList(x.xs) /\ IsSeq(x.xs) /\ ListMeans(heap, tk, x.xs) /\ Holds(heap, tk, c) /\ IsRef(c) /\ c.o \in Cells \cup Statics
      /\ ret[t] = Nothing /\ ShellsOf(stack[t]) = ShellsOf(u)
      /\ \A o \in Objects : /\ StackCount(stack[t], o) = One(c, o) + Count(x.xs, o) + StackCount(u, o)
                            /\ One(c, o) \in Nat /\ Count(x.xs, o) \in Nat /\ StackCount(u, o) \in Nat
  BY <1>2 DEF Applies
<1>4. c.o \in Cells /\ c.o \notin tk
  <2>0. ASSUME c.o \in Statics PROVE FALSE
    <3>1. ObjectOK(c.o, heap[c.o])
      BY <1>1, <2>0, ObjectsApart DEF HeapOK
    <3>2. heap[c.o].rc = Immortal /\ heap[c.o].rc = 1
      BY <2>0, <3>1 DEF ObjectOK
    <3> QED
      BY <3>2 DEF Immortal
  <2>1. c.o \notin Statics
    BY <2>0
  <2> QED
    BY <1>3, <2>1 DEF Holds
<1>6. /\ IsFrame(y) /\ y.k = "body" /\ y.k \in Active /\ y.k \notin Opener /\ y.xs = refs \o x.xs /\ ListMeans(heap, tk, y.xs)
      /\ \A o \in Objects : /\ One(y.c, o) = 0 /\ Count(y.xs, o) = Count(refs, o) + Count(x.xs, o)
                            /\ Count(refs, o) \in Nat /\ Count(x.xs, o) \in Nat
  <2>1. RunOf(heap, tk, c, x.xs, y)
    BY <1>3, RunFrame
  <2> HIDE DEF y
  <2> QED
    BY <2>1 DEF RunOf
<1> HIDE DEF y
<1>7. heap[c.o].rc = 1 /\ refs = heap[c.o].args /\ w = Frame("shell", c, <<>>)
  OBVIOUS
<1> HIDE DEF refs, c, w
<1>8. /\ Sound(u1) /\ Calm(u1) /\ ShellsOf(u1) = ShellsOf(u) /\ Framed(u1) /\ Reach(u1, 0)
      /\ \A o \in Objects : StackCount(u1, o) = StackCount(u, o)
      /\ StackMeans(heap, tk, u1) /\ IsSeq(u1)
  BY <1>3, TrampOn DEF Framed
<1> HIDE DEF u1
<1>9. /\ Sound(u2) /\ Calm(u2) /\ Reach(u2, 0) /\ ShellsOf(u2) = ShellsOf(u1) \cup {c.o} /\ StackMeans(heap, tk, u2)
      /\ \A o \in Objects : StackCount(u2, o) = One(c, o) + StackCount(u1, o)
  BY <1>3, <1>7, <1>8, ShellOn
<1> HIDE DEF u2
<1>11. /\ Sound(u3) /\ Fit(u3, Nothing) /\ ShellsOf(u3) = ShellsOf(u2)
       /\ \A o \in Objects : StackCount(u3, o) = One(y.c, o) + Count(y.xs, o) + StackCount(u2, o)
       /\ StackMeans(heap, tk, u3)
  BY <1>6, <1>9, ActiveOn
<1>12. s2 = u3
  <2>1. <<y, w, Tramp>> \o u = <<y>> \o (<<w>> \o (<<Tramp>> \o u))
    BY <1>3, ThreeOn
  <2> QED
    BY <2>1 DEF u, u1, u2
<1> HIDE DEF u3, s2
<1>13. ASSUME NEW o \in Atoms \cup Cells
       PROVE  StackCount(stack[t], o) + One(ret[t], o) + Count(heap[c.o].args, o) = StackCount(u3, o) + One(Nothing, o)
  <2>1. o \in Objects
    BY ObjectsApart
  <2>3. One(ret[t], o) = 0 /\ One(Nothing, o) = 0
    BY <1>3, <2>1, NothingIs
  <2>4. StackCount(u3, o) = 0 + (Count(refs, o) + Count(x.xs, o)) + (One(c, o) + StackCount(u, o))
    BY <1>6, <1>8, <1>9, <1>11, <2>1
  <2>5. StackCount(stack[t], o) = One(c, o) + Count(x.xs, o) + StackCount(u, o)
        /\ One(c, o) \in Nat /\ Count(x.xs, o) \in Nat /\ StackCount(u, o) \in Nat /\ Count(refs, o) \in Nat
    BY <1>3, <1>6, <2>1
  <2>6. Count(heap[c.o].args, o) = Count(refs, o)
    BY <1>7
  <2> QED
    BY <2>3, <2>4, <2>5, <2>6
<1>14. Empties(stack, ret, heap, t, c.o, u3, Nothing)
  <2>1. ShellsOf(u3) = ShellsOf(stack[t]) \cup {c.o}
    BY <1>3, <1>8, <1>9, <1>11
  <2> QED
    BY <1>4, <1>7, <1>11, <1>13, <2>1 DEF Empties, tk
<1>15. Changed(stack, st2, t, u3)
  BY <1>1, <1>12, ChangedTo
<1>16. Changed(ret, ret, t, Nothing)
  BY <1>1, <1>3, ChangedTo
<1> HIDE DEF st2
<1>17. World(hand, st2, ret, heap)
  BY <1>1, <1>14, <1>15, <1>16, EmptyStep
<1> QED
  BY <1>17 DEF st2, s2, y, w

\* A frame that grows the closure, over frames that wait for its result.
LEMMA PushKeeps ==
  ASSUME WorldInv, NEW t \in Threads, stack[t] # <<>>, NEW x, x = Head(stack[t]), x.k \in {"apply", "applyN"},
         NEW y, IsFrame(y), y.k \in Active, y.c = x.c, NEW v, Sound(v), Calm(v), Fills(y) => Reach(v, 0),
         y.k \in Opener => Closed(v), ShellsOf(v) = ShellsOf(Tail(stack[t])),
         ListMeans(heap, TakenIn(stack), x.xs) => ListMeans(heap, TakenIn(stack), y.xs),
         StackMeans(heap, TakenIn(stack), Tail(stack[t])) /\ ListMeans(heap, TakenIn(stack), x.xs) => StackMeans(heap, TakenIn(stack), v),
         \A o \in Objects : Count(y.xs, o) + StackCount(v, o) = Count(x.xs, o) + StackCount(Tail(stack[t]), o)
  PROVE  World(hand, [stack EXCEPT ![t] = <<y>> \o v], ret, heap)
<1> DEFINE u == Tail(stack[t])  tk == TakenIn(stack)  s2 == <<y>> \o v  st2 == [stack EXCEPT ![t] = s2]
<1>1. World(hand, stack, ret, heap) /\ HeapOK(heap)
  BY DEF WorldInv, World
<1>2. Applies(heap, tk, stack[t], ret[t], x, u)
  <2>1. Head(stack[t]).k \in {"apply", "applyN", "grow"}
    OBVIOUS
  <2> QED
    BY <1>1, <2>1, AppliesIs
<1>3. /\ StackMeans(heap, tk, u) /\ ListMeans(heap, tk, x.xs) /\ Means(heap, tk, x.c)
      /\ ret[t] = Nothing /\ ShellsOf(stack[t]) = ShellsOf(u)
      /\ \A o \in Objects : /\ StackCount(stack[t], o) = One(x.c, o) + Count(x.xs, o) + StackCount(u, o)
                            /\ One(x.c, o) \in Nat /\ Count(x.xs, o) \in Nat /\ StackCount(u, o) \in Nat
  BY <1>2 DEF Applies
<1>4. ListMeans(heap, tk, y.xs) /\ StackMeans(heap, tk, v)
  BY <1>3
<1>5. /\ Sound(s2) /\ Fit(s2, Nothing) /\ ShellsOf(s2) = ShellsOf(v)
      /\ \A o \in Objects : /\ StackCount(s2, o) = One(y.c, o) + Count(y.xs, o) + StackCount(v, o)
                            /\ One(y.c, o) \in Nat /\ Count(y.xs, o) \in Nat /\ StackCount(v, o) \in Nat
      /\ StackMeans(heap, tk, s2)
  <2>1. \A h, k : StackMeans(h, k, <<y>> \o v) <=>
              StackMeans(h, k, v) /\ (y.k # "body" => Means(h, k, y.c)) /\ ListMeans(h, k, y.xs)
    BY ActiveOn
  <2>2. StackMeans(heap, tk, s2)
    BY <1>3, <1>4, <2>1
  <2>3. /\ Sound(s2) /\ Fit(s2, Nothing) /\ ShellsOf(s2) = ShellsOf(v)
        /\ \A o \in Objects : /\ StackCount(s2, o) = One(y.c, o) + Count(y.xs, o) + StackCount(v, o)
                              /\ StackCount(v, o) \in Nat /\ One(y.c, o) \in Nat /\ Count(y.xs, o) \in Nat
    BY ActiveOn
  <2> QED
    BY <2>2, <2>3
<1>6. ShellsOf(s2) = ShellsOf(stack[t])
  BY <1>3, <1>5
<1> HIDE DEF s2
<1>7. ASSUME NEW o \in Atoms \cup Cells
      PROVE  heap[o].rc + StackCount(stack[t], o) + One(ret[t], o) = heap[o].rc + StackCount(s2, o) + One(Nothing, o)
  <2>1. o \in Objects /\ heap[o].rc \in Nat
    BY <1>1, ObjectsApart DEF HeapOK, ObjectOK
  <2>2. One(ret[t], o) = 0 /\ One(Nothing, o) = 0
    BY <1>3, <2>1, NothingIs
  <2>3. StackCount(stack[t], o) = One(x.c, o) + (Count(x.xs, o) + StackCount(u, o))
    BY <1>3, <2>1
  <2>4. StackCount(s2, o) = One(x.c, o) + (Count(y.xs, o) + StackCount(v, o))
    BY <1>5, <2>1
  <2>5. Count(y.xs, o) + StackCount(v, o) = Count(x.xs, o) + StackCount(u, o)
    BY <2>1
  <2>6. StackCount(stack[t], o) = StackCount(s2, o)
    BY <2>3, <2>4, <2>5
  <2> QED
    BY <2>2, <2>6
<1>8. Moves(stack, ret, heap, t, s2, Nothing, heap)
  BY <1>1, <1>5, <1>6, <1>7 DEF Moves, tk
<1>9. st2 = [stack EXCEPT ![t] = s2]
  OBVIOUS
<1> HIDE DEF st2
<1>10. World(hand, st2, ret, heap)
  BY <1>1, <1>3, <1>8, <1>9, StackStep
<1> QED
  BY <1>10 DEF st2, s2

\* The numbers of a closure that can be applied.
LEMMA AppliesCounts ==
  ASSUME NEW h, NEW tk, NEW s, NEW r, NEW x, NEW u, Applies(h, tk, s, r, x, u)
  PROVE  /\ Len(x.c.v.args) = Len(h[x.c.o].args) /\ x.c.v.fn = h[x.c.o].fn
         /\ Len(h[x.c.o].args) \in Nat /\ Arity[h[x.c.o].fn] \in Nat \ {0} /\ Len(x.xs) \in Nat \ {0}
         /\ Len(h[x.c.o].args) < Arity[h[x.c.o].fn]
<1>1. Holds(h, tk, x.c) /\ Part(x.c.v) /\ IsSeq(x.xs) /\ x.xs # <<>>
  BY DEF Applies
<1>2. Len(x.c.v.args) = Len(h[x.c.o].args) /\ x.c.v.fn = h[x.c.o].fn /\ IsSeq(h[x.c.o].args)
  BY <1>1 DEF Holds, IsList
<1>3. Len(h[x.c.o].args) \in Nat /\ Len(x.xs) \in Nat /\ Len(x.xs) > 0
  BY <1>1, <1>2, SeqIs, EmptyOr
<1> QED
  BY <1>1, <1>2, <1>3, ClosureConstants DEF Part

LEMMA ApplyClosureKeeps ==
  ASSUME WorldInv, NEW t \in Threads, ApplyClosure(t)
  PROVE  World(hand', stack', ret', heap')
<1> DEFINE x == Head(stack[t])  u == Tail(stack[t])  tk == TakenIn(stack)  c == x.c  a == x.xs[1]
<1>1. stack[t] # <<>> /\ x.k = "apply" /\ hand' = hand /\ ret' = ret
  BY DEF ApplyClosure, At, Top
<1>2. World(hand, stack, ret, heap)
  BY DEF WorldInv
<1>3. Applies(heap, tk, stack[t], ret[t], x, u)
  BY <1>1, <1>2, AppliesIs
<1>4. /\ Len(c.v.args) = Len(heap[c.o].args) /\ c.v.fn = heap[c.o].fn
      /\ Len(heap[c.o].args) \in Nat /\ Arity[heap[c.o].fn] \in Nat \ {0} /\ Len(heap[c.o].args) < Arity[heap[c.o].fn]
  BY <1>3, AppliesCounts
<1>5. \/ /\ Arity[heap[c.o].fn] - Len(heap[c.o].args) = 1
         /\ heap' = Dup(heap, heap[c.o].args)
         /\ stack' = [stack EXCEPT ![t] = <<Body(Apply(c.v, <<a.v>>), heap[c.o].args \o <<a>>), Frame("drop", Unit, <<c>>), Tramp>> \o u]
      \/ /\ heap' = heap
         /\ stack' = [stack EXCEPT ![t] = <<Frame("grow", c, <<a>>), Tramp>> \o u]
  BY DEF ApplyClosure, Top, Goto, Under, DispatchWithExtra, Held, ArityOf, Filled
<1> HIDE DEF x, u, tk
<1>6. /\ Sound(u) /\ Framed(u) /\ Calm(u) /\ IsSeq(u) /\ StackMeans(heap, tk, u) /\ Closed(u)
      /\ IsFrame(x) /\ IsRef(c) /\ Part(c.v) /\ IsList(x.xs) /\ x.xs # <<>> /\ IsSeq(x.xs)
  BY <1>1, <1>3 DEF Applies
<1>7. x.xs = <<a>> /\ Len(x.xs) = 1 /\ Values(x.xs) = <<a.v>>
  <2>1. Len(x.xs) = 1
    BY <1>1, <1>6 DEF IsFrame
  <2>2. x.xs = <<a>>
    BY <1>6, <2>1, OnlyOne
  <2>3. Values(<<a>>) = <<a.v>>
    BY ValuesOne
  <2> QED
    BY <2>1, <2>2, <2>3
<1> HIDE DEF a
<1>8. CASE /\ Arity[heap[c.o].fn] - Len(heap[c.o].args) = 1
           /\ heap' = Dup(heap, heap[c.o].args)
           /\ stack' = [stack EXCEPT ![t] = <<Body(Apply(c.v, <<a.v>>), heap[c.o].args \o <<a>>), Frame("drop", Unit, <<c>>), Tramp>> \o u]
  <2>1. Len(heap[c.o].args) + Len(x.xs) = Arity[heap[c.o].fn]
    BY <1>4, <1>7, <1>8
  <2>2. World(hand, [stack EXCEPT ![t] = <<Body(Apply(x.c.v, Values(x.xs)), heap[x.c.o].args \o x.xs),
                                            Frame("drop", Unit, <<x.c>>), Tramp>> \o Tail(stack[t])],
               ret, Dup(heap, heap[x.c.o].args))
    <3>1. x = Head(stack[t]) /\ x.k \in {"apply", "applyN"}
      BY <1>1 DEF x
    <3>2. stack[t] # <<>>
      BY <1>1
    <3> QED
      BY <2>1, <3>1, <3>2, DispatchKeeps
  <2>3. stack' = [stack EXCEPT ![t] = <<Body(Apply(x.c.v, Values(x.xs)), heap[x.c.o].args \o x.xs),
                                            Frame("drop", Unit, <<x.c>>), Tramp>> \o Tail(stack[t])]
    BY <1>7, <1>8 DEF u
  <2> QED
    BY <1>1, <1>8, <2>2, <2>3
<1>9. CASE /\ heap' = heap
           /\ stack' = [stack EXCEPT ![t] = <<Frame("grow", c, <<a>>), Tramp>> \o u]
  <2> DEFINE y == Frame("grow", c, x.xs)  v == <<Tramp>> \o u
  <2>1. IsFrame(y) /\ y.k = "grow" /\ y.c = c /\ y.xs = x.xs /\ y.k \in Active /\ y.k \notin Opener
    <3>1. Len(c.v.args) + Len(x.xs) <= Arity[c.v.fn]
      BY <1>4, <1>7
    <3> QED
      BY <1>6, <3>1, GrowFrame
  <2>2. <<y, Tramp>> \o u = <<y>> \o v
    BY <1>6, TwoOn
  <2>3. stack' = [stack EXCEPT ![t] = <<y>> \o v]
    BY <1>7, <1>9, <2>2
  <2>4. /\ Sound(v) /\ Calm(v) /\ ShellsOf(v) = ShellsOf(u) /\ Reach(v, 0)
        /\ \A o \in Objects : StackCount(v, o) = StackCount(u, o)
        /\ StackMeans(heap, tk, v)
    BY <1>6, TrampOn
  <2> HIDE DEF y, v
  <2>5. World(hand, [stack EXCEPT ![t] = <<y>> \o v], ret, heap)
    <3>1. x = Head(stack[t]) /\ x.k \in {"apply", "applyN"} /\ stack[t] # <<>>
      BY <1>1 DEF x
    <3>2. /\ ShellsOf(v) = ShellsOf(Tail(stack[t]))
          /\ \A o \in Objects : Count(y.xs, o) + StackCount(v, o) = Count(x.xs, o) + StackCount(Tail(stack[t]), o)
      BY <2>1, <2>4 DEF u
    <3>3. ListMeans(heap, TakenIn(stack), x.xs) => ListMeans(heap, TakenIn(stack), y.xs)
      BY <2>1
    <3>4. StackMeans(heap, TakenIn(stack), v)
      BY <2>4 DEF tk
    <3> QED
      BY <2>1, <2>4, <3>1, <3>2, <3>3, <3>4, PushKeeps
  <2> QED
    BY <1>1, <1>9, <2>3, <2>5
<1> QED
  BY <1>5, <1>8, <1>9

LEMMA ApplyClosureNKeeps ==
  ASSUME WorldInv, NEW t \in Threads, ApplyClosureN(t)
  PROVE  World(hand', stack', ret', heap')
<1> DEFINE x == Head(stack[t])  u == Tail(stack[t])  tk == TakenIn(stack)  c == x.c  xs == x.xs
           n == Arity[heap[c.o].fn] - Len(heap[c.o].args)
           y == Body(Apply(c.v, Values(xs)), heap[c.o].args \o xs)
<1>1. stack[t] # <<>> /\ x.k = "applyN" /\ hand' = hand /\ ret' = ret
  BY DEF ApplyClosureN, At, Top
<1>2. World(hand, stack, ret, heap)
  BY DEF WorldInv
<1>3. Applies(heap, tk, stack[t], ret[t], x, u)
  BY <1>1, <1>2, AppliesIs
<1>4. /\ Len(c.v.args) = Len(heap[c.o].args) /\ c.v.fn = heap[c.o].fn
      /\ Len(heap[c.o].args) \in Nat /\ Arity[heap[c.o].fn] \in Nat \ {0} /\ Len(heap[c.o].args) < Arity[heap[c.o].fn]
      /\ Len(xs) \in Nat \ {0}
  BY <1>3, AppliesCounts
<1>5. \/ /\ Len(xs) = n /\ heap[c.o].rc = 1 /\ heap' = heap
         /\ stack' = [stack EXCEPT ![t] = <<y, Frame("shell", c, <<>>), Tramp>> \o u]
      \/ /\ Len(xs) = n /\ heap' = Dup(heap, heap[c.o].args)
         /\ stack' = [stack EXCEPT ![t] = <<y, Frame("drop", Unit, <<c>>), Tramp>> \o u]
      \/ /\ Len(xs) < n /\ heap' = heap
         /\ stack' = [stack EXCEPT ![t] = <<Frame("grow", c, xs)>> \o u]
      \/ /\ heap' = heap
         /\ stack' = [stack EXCEPT ![t] = (<<Frame("apply", c, <<Head(xs)>>)>> \o More(Tail(xs))) \o u]
  BY DEF ApplyClosureN, Top, Goto, Under, Held, ArityOf, Filled, Unique
<1> HIDE DEF x, u, tk
<1>6. /\ Sound(u) /\ Framed(u) /\ Calm(u) /\ IsSeq(u) /\ StackMeans(heap, tk, u) /\ Closed(u)
      /\ IsFrame(x) /\ IsRef(c) /\ Part(c.v) /\ IsList(xs) /\ xs # <<>> /\ IsSeq(xs) /\ ListMeans(heap, tk, xs)
  BY <1>1, <1>3 DEF Applies
<1>7. x = Head(stack[t]) /\ x.k \in {"apply", "applyN"} /\ stack[t] # <<>>
  BY <1>1 DEF x
<1>8. CASE /\ Len(xs) = n /\ heap[c.o].rc = 1 /\ heap' = heap
           /\ stack' = [stack EXCEPT ![t] = <<y, Frame("shell", c, <<>>), Tramp>> \o u]
  <2>1. Len(heap[c.o].args) + Len(x.xs) = Arity[heap[c.o].fn]
    BY <1>4, <1>8
  <2>2. World(hand, [stack EXCEPT ![t] = <<Body(Apply(x.c.v, Values(x.xs)), heap[x.c.o].args \o x.xs),
                                            Frame("shell", x.c, <<>>), Tramp>> \o Tail(stack[t])], ret, heap)
    BY <1>7, <1>8, <2>1, RunUniqueKeeps
  <2> QED
    BY <1>1, <1>8, <2>2 DEF u
<1>9. CASE /\ Len(xs) = n /\ heap' = Dup(heap, heap[c.o].args)
           /\ stack' = [stack EXCEPT ![t] = <<y, Frame("drop", Unit, <<c>>), Tramp>> \o u]
  <2>1. Len(heap[c.o].args) + Len(x.xs) = Arity[heap[c.o].fn]
    BY <1>4, <1>9
  <2>2. World(hand, [stack EXCEPT ![t] = <<Body(Apply(x.c.v, Values(x.xs)), heap[x.c.o].args \o x.xs),
                                            Frame("drop", Unit, <<x.c>>), Tramp>> \o Tail(stack[t])],
               ret, Dup(heap, heap[x.c.o].args))
    BY <1>7, <2>1, DispatchKeeps
  <2> QED
    BY <1>1, <1>9, <2>2 DEF u
<1>10. CASE /\ Len(xs) < n /\ heap' = heap
            /\ stack' = [stack EXCEPT ![t] = <<Frame("grow", c, xs)>> \o u]
  <2> DEFINE g == Frame("grow", c, xs)  held == Len(heap[c.o].args)  full == Arity[heap[c.o].fn]
  <2>0. Len(c.v.args) + Len(xs) <= Arity[c.v.fn] /\ Len(c.v.args) + Len(xs) # Arity[c.v.fn]
    <3>1. Len(xs) < full - held /\ held \in Nat /\ full \in Nat /\ Len(xs) \in Nat
      BY <1>4, <1>10
    <3>2. Len(c.v.args) = held /\ Arity[c.v.fn] = full
      BY <1>4
    <3> HIDE DEF held, full
    <3>3. held + Len(xs) <= full /\ held + Len(xs) # full
      BY <3>1
    <3> QED
      BY <3>2, <3>3
  <2>1. IsFrame(g) /\ g.k = "grow" /\ g.c = c /\ g.xs = xs /\ g.k \in Active /\ g.k \notin Opener
    <3>1. Len(c.v.args) + Len(xs) <= Arity[c.v.fn]
      BY <2>0
    <3> QED
      BY <1>6, <3>1, GrowFrame
  <2>2. stack' = [stack EXCEPT ![t] = <<g>> \o u]
    BY <1>10
  <2> HIDE DEF g
  <2>3. ~Fills(g)
    BY <2>0, <2>1 DEF Fills
  <2>4. World(hand, [stack EXCEPT ![t] = <<g>> \o u], ret, heap)
    <3>1. ShellsOf(u) = ShellsOf(Tail(stack[t])) /\ StackMeans(heap, TakenIn(stack), u)
      BY <1>6 DEF u, tk
    <3>2. \A o \in Objects : Count(g.xs, o) + StackCount(u, o) = Count(x.xs, o) + StackCount(Tail(stack[t]), o)
      BY <2>1 DEF u
    <3>3. ListMeans(heap, TakenIn(stack), x.xs) => ListMeans(heap, TakenIn(stack), g.xs)
      BY <2>1
    <3> QED
      BY <1>6, <1>7, <2>1, <2>3, <3>1, <3>2, <3>3, PushKeeps
  <2> QED
    BY <1>1, <1>10, <2>2, <2>4
<1>11. CASE /\ heap' = heap
            /\ stack' = [stack EXCEPT ![t] = (<<Frame("apply", c, <<Head(xs)>>)>> \o More(Tail(xs))) \o u]
  <2> DEFINE a == Head(xs)  g == Frame("apply", c, <<a>>)  v == More(Tail(xs)) \o u
  <2>1. Good(a) /\ IsList(Tail(xs)) /\ Means(heap, tk, a) /\ ListMeans(heap, tk, Tail(xs))
    BY <1>6, ListTail, MeansTail
  <2>2. IsFrame(g) /\ g.k = "apply" /\ g.c = c /\ g.xs = <<a>> /\ g.k \in Active /\ ~Fills(g)
    BY <1>6, <2>1, ApplyFrame
  <2>3. /\ Sound(v) /\ Calm(v) /\ Closed(v) /\ ShellsOf(v) = ShellsOf(u) /\ IsSeq(More(Tail(xs)))
        /\ \A o \in Objects : /\ StackCount(v, o) = Count(Tail(xs), o) + StackCount(u, o)
                              /\ StackCount(u, o) \in Nat /\ Count(Tail(xs), o) \in Nat
        /\ \A h, k : StackMeans(h, k, More(Tail(xs)) \o u) <=> ListMeans(h, k, Tail(xs)) /\ StackMeans(h, k, u)
    BY <1>6, <2>1, MoreOn
  <2>4. StackMeans(heap, TakenIn(stack), v)
    BY <1>6, <2>1, <2>3 DEF tk
  <2>5. (<<g>> \o More(Tail(xs))) \o u = <<g>> \o v
    BY <1>6, <2>3, SingleSeq, JoinThree
  <2>6. stack' = [stack EXCEPT ![t] = <<g>> \o v]
    BY <1>11, <2>5
  <2> HIDE DEF g, v
  <2>7. ASSUME NEW o \in Objects PROVE Count(g.xs, o) + StackCount(v, o) = Count(x.xs, o) + StackCount(Tail(stack[t]), o)
    <3>1. Count(x.xs, o) = One(a, o) + Count(Tail(xs), o)
      BY <1>6, CountTail
    <3>2. Count(g.xs, o) = One(a, o)
      BY <2>2, CountOne
    <3>3. One(a, o) \in Nat
      BY DEF One
    <3>4. StackCount(v, o) = Count(Tail(xs), o) + StackCount(Tail(stack[t]), o)
          /\ StackCount(Tail(stack[t]), o) \in Nat /\ Count(Tail(xs), o) \in Nat
      BY <2>3 DEF u
    <3> QED
      BY <3>1, <3>2, <3>3, <3>4
  <2>8. World(hand, [stack EXCEPT ![t] = <<g>> \o v], ret, heap)
    <3>1. ShellsOf(v) = ShellsOf(Tail(stack[t]))
      BY <2>3 DEF u
    <3>3. ListMeans(heap, TakenIn(stack), g.xs)
      BY <2>1, <2>2, MeansOne DEF tk
    <3> QED
      BY <1>7, <2>2, <2>3, <2>4, <2>7, <3>1, <3>3, PushKeeps
  <2> QED
    BY <1>1, <1>11, <2>6, <2>8
<1> QED
  BY <1>5, <1>8, <1>9, <1>10, <1>11

(***************************************************************************)
(* Making a closure, or giving one its next arguments.                     *)
(***************************************************************************)
Makes(st, rt, h, t, z, s2, r2, h2) ==
  /\ z \in Cells \ TakenIn(st) /\ HeapOK(h2) /\ h2[z].rc = 1
  /\ \A o \in Objects \ {z} : h2[o].fn = h[o].fn /\ h2[o].args = h[o].args
  /\ \A c \in TakenIn(st) : h2[c].rc = h[c].rc
  /\ ListMeans(h, TakenIn(st), h2[z].args)
  /\ r2.o = z /\ r2.v = [fn |-> h2[z].fn, args |-> Values(h2[z].args)]
  /\ Sound(s2) /\ Fit(s2, r2) /\ StackMeans(h, TakenIn(st), s2) /\ ShellsOf(s2) = ShellsOf(st[t])
  /\ \A o \in Atoms \cup Cells :
       h2[o].rc + StackCount(st[t], o) + One(rt[t], o) + Count(h[z].args, o)
         = h[o].rc + StackCount(s2, o) + One(r2, o) + Count(h2[z].args, o)

LEMMA MakeStep ==
  ASSUME NEW hd, NEW st, NEW rt, NEW h, World(hd, st, rt, h), NEW t \in Threads, NEW z,
         NEW s2, NEW r2, NEW h2, Makes(st, rt, h, t, z, s2, r2, h2),
         NEW st2, Changed(st, st2, t, s2), NEW rt2, Changed(rt, rt2, t, r2)
  PROVE  World(hd, st2, rt2, h2)
<1>1. /\ DOMAIN st2 = Threads /\ st2[t] = s2 /\ \A u \in Threads \ {t} : st2[u] = st[u]
  BY DEF Changed
<1>2. /\ DOMAIN rt2 = Threads /\ rt2[t] = r2 /\ \A u \in Threads \ {t} : rt2[u] = rt[u]
  BY DEF Changed
<1>3. /\ z \in Cells /\ z \notin TakenIn(st) /\ HeapOK(h2) /\ h2[z].rc = 1
      /\ \A o \in Objects \ {z} : h2[o].fn = h[o].fn /\ h2[o].args = h[o].args
      /\ \A c \in TakenIn(st) : h2[c].rc = h[c].rc
      /\ ListMeans(h, TakenIn(st), h2[z].args)
      /\ r2.o = z /\ r2.v = [fn |-> h2[z].fn, args |-> Values(h2[z].args)]
      /\ Sound(s2) /\ Fit(s2, r2) /\ StackMeans(h, TakenIn(st), s2) /\ ShellsOf(s2) = ShellsOf(st[t])
  BY DEF Makes
<1>4. HeapOK(h) /\ HandOK(hd[t]) /\ HandMeans(h, TakenIn(st), hd[t]) /\ DOMAIN hd = Threads /\ Framed(st[t])
  BY DEF World, ThreadOK, Sound
<1>5. z \notin TakenIn(st2)
  <2>1. \A u \in Threads : z \notin ShellsOf(st[u])
    BY <1>3 DEF TakenIn
  <2>2. ASSUME NEW u \in Threads PROVE z \notin ShellsOf(st2[u])
    <3>1. CASE u = t
      BY <1>1, <1>3, <2>1, <3>1
    <3>2. CASE u # t
      BY <1>1, <2>1, <3>2
    <3> QED
      BY <3>1, <3>2
  <2> QED
    BY <2>2 DEF TakenIn
<1>6. Local(hd, st, rt, h, hd, st2, rt2, h2, t, z)
  <2>1. \A c \in Cells \ {z} : c \in ShellsOf(st2[t]) <=> c \in ShellsOf(st[t])
    BY <1>1, <1>3
  <2>2. \A c \in TakenIn(st) \ {z} : h2[c].rc = h[c].rc
    BY <1>3
  <2> QED
    BY <1>1, <1>2, <1>3, <1>4, <2>1, <2>2 DEF Local
<1>7. ASSUME NEW o \in Atoms \cup Cells
      PROVE  h2[o].rc + Hold(hd[t], st[t], rt[t], o) + CellCount(TakenIn(st), h, z, o)
               = h[o].rc + Hold(hd[t], st2[t], rt2[t], o) + CellCount(TakenIn(st2), h2, z, o)
  <2>1. IsSeq(h[z].args) /\ IsSeq(h2[z].args)
    BY <1>3, <1>4, ObjectsApart DEF HeapOK, ObjectOK, IsList
  <2>2. CellCount(TakenIn(st), h, z, o) = Count(h[z].args, o) /\ CellCount(TakenIn(st2), h2, z, o) = Count(h2[z].args, o)
    BY <1>3, <1>5, <2>1, CellIs
  <2>3. HandCount(hd[t], o) \in Nat /\ StackCount(st[t], o) \in Nat /\ StackCount(s2, o) \in Nat
        /\ Count(h[z].args, o) \in Nat /\ Count(h2[z].args, o) \in Nat
    BY <1>3, <1>4, <2>1, CountIs, HandFinite, StackFinite, FramesStack DEF Sound, HandOK
  <2>4. One(rt[t], o) \in Nat /\ One(r2, o) \in Nat
    BY DEF One
  <2>5. h[o].rc \in Nat /\ h2[o].rc \in Nat
    BY <1>3, <1>4, ObjectsApart DEF HeapOK, ObjectOK
  <2>6. h2[o].rc + StackCount(st[t], o) + One(rt[t], o) + Count(h[z].args, o)
         = h[o].rc + StackCount(s2, o) + One(r2, o) + Count(h2[z].args, o)
    BY DEF Makes
  <2>7. h2[o].rc + (HandCount(hd[t], o) + StackCount(st[t], o) + One(rt[t], o)) + Count(h[z].args, o)
          = h[o].rc + (HandCount(hd[t], o) + StackCount(s2, o) + One(r2, o)) + Count(h2[z].args, o)
    BY <2>3, <2>4, <2>5, <2>6
  <2> QED
    BY <1>1, <1>2, <2>2, <2>7 DEF Hold
<1>8. Balanced(hd, st, rt, h, hd, st2, rt2, h2, t, z)
  BY <1>7 DEF Balanced
<1>9. Means(h2, TakenIn(st2), r2)
  <2>1. z \in Objects /\ z # Null
    BY <1>3, ObjectsApart
  <2> QED
    BY <1>3, <1>5, <2>1 DEF Means
<1>10. Made(h, TakenIn(st), TakenIn(st2), h2, rt2[t], z)
  BY <1>2, <1>3, <1>5, <1>9 DEF Made
<1>11. Named(h, TakenIn(st), h2, TakenIn(st2), hd[t], st2[t], rt2[t], z)
  BY <1>1, <1>3, <1>4, <1>10 DEF Named
<1> QED
  BY <1>3, <1>6, <1>8, <1>10, <1>11, WorldStep

LEMMA CountAbsent ==
  ASSUME NEW refs, NEW o, \A i \in DOMAIN refs : refs[i].o # o
  PROVE  Count(refs, o) = 0
<1>1. Slots(refs, o) = {}
  BY DEF Slots
<1> QED
  BY <1>1, FS_EmptySet DEF Count

\* The cell an allocation gets.
LEMMA FreshIs ==
  ASSUME NEW hd, NEW st, NEW rt, NEW h, World(hd, st, rt, h), NEW n \in Cells, h[n].rc = 0
  PROVE  n \notin TakenIn(st) /\ h[n].args = <<>> /\ n \in Objects /\ n # Null
<1>1. ObjectOK(n, h[n]) /\ n \in Objects /\ n # Null
  BY ObjectsApart DEF World, HeapOK
<1>2. h[n] = Unused
  BY <1>1 DEF ObjectOK
<1>3. n \notin TakenIn(st)
  BY DEF World
<1> QED
  BY <1>1, <1>2, <1>3 DEF Unused

LEMMA LiveAbsent ==
  ASSUME NEW h, NEW n, n # Null, h[n].rc = 0, NEW refs, \A i \in DOMAIN refs : Live(h, refs[i])
  PROVE  Count(refs, n) = 0
<1>1. \A i \in DOMAIN refs : refs[i].o # n
  BY DEF Live
<1> QED
  BY <1>1, CountAbsent

LEMMA GrowInPlaceKeeps ==
  ASSUME WorldInv, NEW t \in Threads, GrowInPlace(t)
  PROVE  World(hand', stack', ret', heap')
<1> DEFINE x == Head(stack[t])  u == Tail(stack[t])  tk == TakenIn(stack)  c == x.c  xs == x.xs  z == c.o
           r2 == [c EXCEPT !.v = Apply(@, Values(xs))]  h2 == [heap EXCEPT ![z].args = @ \o xs]
           args == heap[z].args
<1>0. <<>> \o u = Tail(stack[t]) => stack' = [stack EXCEPT ![t] = u]
  BY DEF GrowInPlace, Goto, Under
<1>1. stack[t] # <<>> /\ x.k = "grow" /\ hand' = hand /\ heap[z].rc = 1 /\ heap' = h2 /\ ret' = [ret EXCEPT ![t] = r2]
  BY DEF GrowInPlace, At, Top, Unique, Return
<1>2. World(hand, stack, ret, heap) /\ HeapOK(heap) /\ DOMAIN stack = Threads /\ DOMAIN ret = Threads
  BY DEF WorldInv, World
<1>3. Applies(heap, tk, stack[t], ret[t], x, u)
  BY <1>1, <1>2, AppliesIs
<1>4. /\ Len(c.v.args) = Len(args) /\ c.v.fn = heap[z].fn
      /\ Len(args) \in Nat /\ Arity[heap[z].fn] \in Nat \ {0} /\ Len(xs) \in Nat \ {0}
  BY <1>3, AppliesCounts
<1> HIDE DEF x, u, tk
<1>5. /\ Sound(u) /\ Framed(u) /\ Calm(u) /\ IsSeq(u) /\ StackMeans(heap, tk, u)
      /\ IsFrame(x) /\ IsRef(c) /\ Part(c.v) /\ IsList(xs) /\ IsSeq(xs) /\ ListMeans(heap, tk, xs)
      /\ Holds(heap, tk, c) /\ z \in Cells \cup Statics /\ ret[t] = Nothing /\ (Fills(x) => Reach(u, 0))
      /\ ShellsOf(stack[t]) = ShellsOf(u)
      /\ \A o \in Objects : /\ StackCount(stack[t], o) = One(c, o) + Count(xs, o) + StackCount(u, o)
                            /\ One(c, o) \in Nat /\ Count(xs, o) \in Nat /\ StackCount(u, o) \in Nat
  BY <1>3 DEF Applies
<1>6. /\ z \in Objects /\ z \notin tk /\ c.v = [fn |-> heap[z].fn, args |-> Values(args)]
      /\ IsList(args) /\ IsSeq(args) /\ ListMeans(heap, tk, args)
  BY <1>5 DEF Holds, IsList
<1>7. z \in Cells
  <2>1. ASSUME z \in Statics PROVE FALSE
    <3>1. ObjectOK(z, heap[z])
      BY <1>2, <1>6 DEF HeapOK
    <3>2. heap[z].rc = Immortal /\ heap[z].rc = 1
      BY <1>1, <2>1, <3>1 DEF ObjectOK
    <3> QED
      BY <3>2 DEF Immortal
  <2> QED
    BY <1>5, <2>1
<1>8. stack' = [stack EXCEPT ![t] = u]
  BY <1>0, <1>5, JoinNone DEF u
<1> DEFINE all == args \o xs
<1>9. /\ IsList(all) /\ ListMeans(heap, tk, all) /\ Len(all) = Len(args) + Len(xs) /\ Values(all) = Values(args) \o Values(xs)
      /\ \A o : Count(all, o) = Count(args, o) + Count(xs, o) /\ Count(args, o) \in Nat
  <2>1. IsList(all)
    BY <1>5, <1>6, ListJoin
  <2>2. ListMeans(heap, tk, all)
    BY <1>5, <1>6, MeansJoin
  <2>3. Len(all) = Len(args) + Len(xs) /\ Values(all) = Values(args) \o Values(xs)
    BY <1>5, <1>6, Joined, ValuesJoin
  <2>4. \A o : Count(all, o) = Count(args, o) + Count(xs, o) /\ Count(args, o) \in Nat
    BY <1>5, <1>6, CountJoin, CountIs
  <2> QED
    BY <2>1, <2>2, <2>3, <2>4
<1>10. /\ DOMAIN h2 = Objects /\ \A o \in Objects \ {z} : h2[o] = heap[o]
       /\ h2[z] = [fn |-> heap[z].fn, args |-> all, rc |-> 1]
  <2>1. DOMAIN heap = Objects /\ ObjectOK(z, heap[z])
    BY <1>2, <1>6 DEF HeapOK
  <2>2. heap[z] = [fn |-> heap[z].fn, args |-> heap[z].args, rc |-> heap[z].rc]
    BY <2>1 DEF ObjectOK
  <2> QED
    BY <1>1, <1>6, <2>1, <2>2
<1>11. r2 = [o |-> z, v |-> [fn |-> heap[z].fn, args |-> Values(all)]]
  <2>1. c = [o |-> c.o, v |-> c.v]
    BY <1>5 DEF IsRef
  <2>2. r2 = [o |-> z, v |-> Apply(c.v, Values(xs))]
    BY <2>1
  <2>3. Apply(c.v, Values(xs)) = [fn |-> heap[z].fn, args |-> Values(args) \o Values(xs)]
    BY SMTT(30), <1>6 DEF Apply
  <2> QED
    BY <1>9, <2>2, <2>3
<1> HIDE DEF h2, r2, all
<1>12. Len(all) <= Arity[heap[z].fn]
  <2>1. Len(c.v.args) + Len(xs) <= Arity[c.v.fn]
    BY <1>1, <1>5 DEF IsFrame
  <2> QED
    BY <1>4, <1>9, <2>1
<1>13. HeapOK(h2)
  <2> DEFINE f == heap[z].fn
  <2>1. f \in Fns /\ Len(all) <= Arity[f] /\ MadeAt(heap, h2, z, f, all)
    BY <1>4, <1>5, <1>10, <1>12 DEF Part, MadeAt
  <2> HIDE DEF f
  <2> QED
    BY <1>2, <1>7, <1>9, <2>1, CellMade
<1>14. /\ r2.o = z /\ r2.v = [fn |-> h2[z].fn, args |-> Values(h2[z].args)] /\ h2[z].rc = 1 /\ h2[z].args = all /\ h2[z].fn = heap[z].fn
  BY <1>10, <1>11
<1>15. Fit(u, r2)
  <2>1. IsRef(r2)
    BY <1>6, <1>11 DEF IsRef
  <2>2. r2 # Nothing
    BY <2>1, UnitIs
  <2>3. r2.v.fn \in Fns /\ Len(r2.v.args) = Len(args) + Len(xs) /\ r2.v.fn = heap[z].fn
    <3>1. Len(Values(all)) = Len(all)
      BY <1>9, ValuesAre DEF IsList
    <3>2. r2.v.args = Values(all) /\ r2.v.fn = heap[z].fn
      BY <1>11
    <3> QED
      BY <1>4, <1>5, <1>9, <3>1, <3>2 DEF Part
  <2>4. Sat(r2.v) => Reach(u, 0)
    <3>1. Sat(r2.v) => Len(c.v.args) + Len(xs) = Arity[c.v.fn]
      BY <1>4, <2>3 DEF Sat
    <3>2. Sat(r2.v) => Fills(x)
      BY <1>1, <3>1 DEF Fills
    <3> QED
      BY <1>5, <3>2
  <2> QED
    BY <1>5, <2>1, <2>2, <2>3, <2>4, FitCalm DEF Usable
<1>16. ASSUME NEW o \in Atoms \cup Cells
       PROVE  h2[o].rc + StackCount(stack[t], o) + One(ret[t], o) + Count(args, o)
                = heap[o].rc + StackCount(u, o) + One(r2, o) + Count(h2[z].args, o)
  <2>1. o \in Objects /\ heap[o].rc \in Nat
    BY <1>2, ObjectsApart DEF HeapOK, ObjectOK
  <2>2. h2[o].rc = heap[o].rc
    BY <1>1, <1>10, <1>14, <2>1
  <2>3. One(ret[t], o) = 0 /\ One(r2, o) = One(c, o)
    BY <1>5, <1>14, <2>1, NothingIs DEF One
  <2>4. Count(h2[z].args, o) = Count(args, o) + Count(xs, o) /\ Count(args, o) \in Nat
    BY <1>9, <1>14
  <2>5. StackCount(stack[t], o) = One(c, o) + Count(xs, o) + StackCount(u, o)
        /\ One(c, o) \in Nat /\ Count(xs, o) \in Nat /\ StackCount(u, o) \in Nat
    BY <1>5, <2>1
  <2> HIDE DEF args, xs, c, z
  <2> QED
    BY <2>1, <2>2, <2>3, <2>4, <2>5
<1>17. Makes(stack, ret, heap, t, z, u, r2, h2)
  <2>1. \A p \in tk : h2[p].rc = heap[p].rc
    <3> SUFFICES ASSUME NEW p \in tk PROVE h2[p].rc = heap[p].rc
      OBVIOUS
    <3>1. p \in Cells /\ p # z
      BY <1>6 DEF tk, TakenIn
    <3>2. p \in Objects \ {z}
      BY <3>1, ObjectsApart
    <3> QED
      BY <1>10, <3>2
  <2>2. \A o \in Objects \ {z} : h2[o].fn = heap[o].fn /\ h2[o].args = heap[o].args
    BY <1>10
  <2>3. ListMeans(heap, tk, h2[z].args)
    BY <1>9, <1>14
  <2> QED
    BY <1>5, <1>6, <1>7, <1>13, <1>14, <1>15, <1>16, <2>1, <2>2, <2>3 DEF Makes, tk
<1>18. Changed(stack, stack', t, u) /\ Changed(ret, ret', t, r2)
  <2>1. Changed(stack, stack', t, u)
    BY <1>2, <1>8, ChangedTo
  <2>2. Changed(ret, ret', t, r2)
    BY <1>1, <1>2, ChangedTo
  <2> QED
    BY <2>1, <2>2
<1> QED
  BY <1>1, <1>2, <1>17, <1>18, MakeStep

LEMMA AppliedIs ==
  ASSUME NEW f, NEW a, NEW b
  PROVE  Apply([fn |-> f, args |-> a], b) = [fn |-> f, args |-> a \o b]
<1> DEFINE v == [fn |-> f, args |-> a]
<1>1. v.args = a
  OBVIOUS
<1>2. [v EXCEPT !.args = a \o b] = [fn |-> f, args |-> a \o b]
  <2> DEFINE c == a \o b
  <2> HIDE DEF c, v
  <2>1. [[fn |-> f, args |-> a] EXCEPT !.args = c] = [fn |-> f, args |-> c]
    OBVIOUS
  <2> QED
    BY <2>1 DEF c, v
<1>3. Apply(v, b) = [v EXCEPT !.args = a \o b]
  BY <1>1 DEF Apply
<1> QED
  BY <1>2, <1>3

LEMMA GrowCopyKeeps ==
  ASSUME WorldInv, NEW t \in Threads, GrowCopy(t)
  PROVE  World(hand', stack', ret', heap')
<1> DEFINE x == Head(stack[t])  u == Tail(stack[t])  tk == TakenIn(stack)  c == x.c  xs == x.xs  f == heap[c.o].fn
           args == heap[c.o].args  z == CHOOSE n \in FreeCells : TRUE  all == args \o xs
           r2 == [o |-> z, v |-> Apply(c.v, Values(xs))]  h1 == Dup(heap, args)  h2 == MkClosure(h1, z, f, all)
           s2 == Drop(<<c>>) \o u
<1>1. /\ stack[t] # <<>> /\ x.k = "grow" /\ hand' = hand /\ heap' = h2 /\ ret' = [ret EXCEPT ![t] = r2]
      /\ stack' = [stack EXCEPT ![t] = s2] /\ FreeCells # {}
  BY DEF GrowCopy, At, Top, Return, Goto, Under, Held
<1>2. World(hand, stack, ret, heap) /\ HeapOK(heap) /\ DOMAIN stack = Threads /\ DOMAIN ret = Threads
  BY DEF WorldInv, World
<1>3. Applies(heap, tk, stack[t], ret[t], x, u)
  BY <1>1, <1>2, AppliesIs
<1>4. /\ Len(c.v.args) = Len(args) /\ c.v.fn = f
      /\ Len(args) \in Nat /\ Arity[f] \in Nat \ {0} /\ Len(xs) \in Nat \ {0}
  BY <1>3, AppliesCounts
<1>20. z \in Cells /\ heap[z].rc = 0
  <2>1. z \in FreeCells
    BY <1>1
  <2> QED
    BY <2>1 DEF FreeCells
<1> HIDE DEF x, u, tk, z
<1>21. z \notin tk /\ heap[z].args = <<>> /\ z \in Objects /\ z # Null
  BY <1>2, <1>20, FreshIs DEF tk
<1>5. /\ Sound(u) /\ Framed(u) /\ Calm(u) /\ IsSeq(u) /\ StackMeans(heap, tk, u)
      /\ IsFrame(x) /\ Part(c.v) /\ IsList(xs) /\ IsSeq(xs) /\ ListMeans(heap, tk, xs) /\ Means(heap, tk, c) /\ Good(c)
      /\ Holds(heap, tk, c) /\ ret[t] = Nothing /\ (Fills(x) => Reach(u, 0))
      /\ ShellsOf(stack[t]) = ShellsOf(u)
      /\ \A o \in Objects : /\ StackCount(stack[t], o) = One(c, o) + Count(xs, o) + StackCount(u, o)
                            /\ One(c, o) \in Nat /\ Count(xs, o) \in Nat /\ StackCount(u, o) \in Nat
  BY <1>3 DEF Applies
<1>6. /\ c.v = [fn |-> f, args |-> Values(args)] /\ IsList(args) /\ IsSeq(args) /\ ListMeans(heap, tk, args)
      /\ \A i \in DOMAIN args : Live(heap, args[i])
  BY <1>5 DEF Holds, IsList
<1>7. Duped(heap, h1, tk, args)
  <2>1. tk \subseteq Cells
    BY DEF tk, TakenIn
  <2> HIDE DEF args
  <2> QED
    BY <1>2, <1>6, <2>1, DupMoves
<1>8. Count(args, z) = 0
  <2> HIDE DEF args
  <2> QED
    BY <1>6, <1>20, <1>21, LiveAbsent
<1>9. /\ IsList(all) /\ ListMeans(heap, tk, all) /\ Len(all) = Len(args) + Len(xs) /\ Values(all) = Values(args) \o Values(xs)
      /\ \A o : Count(all, o) = Count(args, o) + Count(xs, o) /\ Count(args, o) \in Nat
  <2>1. IsList(all)
    BY <1>5, <1>6, ListJoin
  <2>2. ListMeans(heap, tk, all)
    BY <1>5, <1>6, MeansJoin
  <2>3. Len(all) = Len(args) + Len(xs) /\ Values(all) = Values(args) \o Values(xs)
    BY <1>5, <1>6, Joined, ValuesJoin
  <2>4. \A o : Count(all, o) = Count(args, o) + Count(xs, o) /\ Count(args, o) \in Nat
    BY <1>5, <1>6, CountJoin, CountIs
  <2> QED
    BY <2>1, <2>2, <2>3, <2>4
<1>11. r2 = [o |-> z, v |-> [fn |-> f, args |-> Values(all)]]
  <2>1. Apply(c.v, Values(xs)) = [fn |-> f, args |-> Values(args) \o Values(xs)]
    BY <1>6, AppliedIs
  <2>2. r2 = [o |-> z, v |-> [fn |-> f, args |-> Values(args) \o Values(xs)]]
    BY <2>1
  <2> HIDE DEF f, args, r2, all
  <2> QED
    BY <1>9, <2>2
<1> HIDE DEF all, r2
<1>10. MadeAt(h1, h2, z, f, all)
  <2>1. DOMAIN h1 = Objects
    BY <1>7 DEF Duped, HeapOK
  <2> HIDE DEF h1, f
  <2> QED
    BY <1>21, <2>1 DEF MadeAt, MkClosure
<1>12. f \in Fns /\ Len(all) <= Arity[f]
  <2>1. Len(c.v.args) + Len(xs) <= Arity[c.v.fn]
    BY <1>1, <1>5 DEF IsFrame
  <2> QED
    BY <1>4, <1>5, <1>9, <2>1 DEF Part
<1> HIDE DEF h1, h2, args, f
<1>13. HeapOK(h2)
  BY <1>7, <1>9, <1>10, <1>12, <1>20, CellMade DEF Duped
<1>14. /\ r2.o = z /\ r2.v = [fn |-> h2[z].fn, args |-> Values(h2[z].args)] /\ h2[z].rc = 1 /\ h2[z].args = all /\ h2[z].fn = f
       /\ r2.v.fn = f /\ r2.v.args = Values(all)
  BY <1>10, <1>11 DEF MadeAt
<1>15. Fit(u, r2)
  <2>1. IsRef(r2)
    BY <1>11, <1>21 DEF IsRef
  <2>2. r2 # Nothing
    BY <2>1, UnitIs
  <2>3. r2.v.fn \in Fns /\ Len(r2.v.args) = Len(args) + Len(xs) /\ r2.v.fn = f
    <3>1. Len(Values(all)) = Len(all)
      BY <1>9, ValuesAre DEF IsList
    <3> QED
      BY <1>9, <1>12, <1>14, <3>1
  <2>4. Sat(r2.v) => Reach(u, 0)
    <3>1. Sat(r2.v) => Len(c.v.args) + Len(xs) = Arity[c.v.fn]
      BY <1>4, <2>3 DEF Sat
    <3>2. Sat(r2.v) => Fills(x)
      BY <1>1, <3>1 DEF Fills
    <3> QED
      BY <1>5, <3>2
  <2> QED
    BY <1>5, <2>1, <2>2, <2>3, <2>4, FitCalm DEF Usable
<1>22. IsList(<<c>>) /\ ListMeans(heap, tk, <<c>>) /\ \A o : Count(<<c>>, o) = One(c, o)
  BY <1>5, ListOne, MeansOne, CountOne
<1>23. Sound(s2) /\ Fit(s2, r2)
  BY <1>5, <1>15, <1>22, DropOn
<1>24. /\ ShellsOf(s2) = ShellsOf(u) /\ StackMeans(heap, tk, s2)
       /\ \A o \in Objects : StackCount(s2, o) = One(c, o) + StackCount(u, o)
  BY <1>5, <1>22, DropHolds
<1> HIDE DEF s2, c, xs
<1>16. ASSUME NEW o \in Atoms \cup Cells
       PROVE  h2[o].rc + StackCount(stack[t], o) + One(ret[t], o) + Count(heap[z].args, o)
                = heap[o].rc + StackCount(s2, o) + One(r2, o) + Count(h2[z].args, o)
  <2>1. o \in Objects /\ heap[o].rc \in Nat
    BY <1>2, ObjectsApart DEF HeapOK, ObjectOK
  <2>2. h1[o].rc = heap[o].rc + Count(args, o)
    BY <1>7 DEF Duped
  <2>3. One(ret[t], o) = 0 /\ Count(heap[z].args, o) = 0
    BY <1>5, <1>21, <2>1, NothingIs, CountNone
  <2>4. Count(h2[z].args, o) = Count(args, o) + Count(xs, o) /\ Count(args, o) \in Nat
    BY <1>9, <1>14
  <2>5. StackCount(stack[t], o) = One(c, o) + Count(xs, o) + StackCount(u, o)
        /\ One(c, o) \in Nat /\ Count(xs, o) \in Nat /\ StackCount(u, o) \in Nat
    BY <1>5, <2>1
  <2>6. StackCount(s2, o) = One(c, o) + StackCount(u, o)
    BY <1>24, <2>1
  <2>7. CASE o = z
    <3>1. h2[o].rc = 1 /\ heap[o].rc = 0 /\ One(r2, o) = 1 /\ Count(args, o) = 0
      BY <1>8, <1>14, <1>20, <2>7 DEF One
    <3> QED
      BY <2>3, <2>4, <2>5, <2>6, <3>1
  <2>8. CASE o # z
    <3>1. h2[o].rc = h1[o].rc /\ One(r2, o) = 0
      BY <1>10, <1>14, <2>1, <2>8 DEF MadeAt, One
    <3> QED
      BY <2>1, <2>2, <2>3, <2>4, <2>5, <2>6, <3>1
  <2> QED
    BY <2>7, <2>8
<1>17. Makes(stack, ret, heap, t, z, s2, r2, h2)
  <2>1. \A p \in tk : h2[p].rc = heap[p].rc
    <3> SUFFICES ASSUME NEW p \in tk PROVE h2[p].rc = heap[p].rc
      OBVIOUS
    <3>1. p \in Cells /\ p # z
      BY <1>21 DEF tk, TakenIn
    <3>2. p \in Objects \ {z}
      BY <3>1, ObjectsApart
    <3> QED
      BY <1>7, <1>10, <3>2 DEF MadeAt, Duped
  <2>2. \A o \in Objects \ {z} : h2[o].fn = heap[o].fn /\ h2[o].args = heap[o].args
    BY <1>7, <1>10 DEF MadeAt, Duped
  <2>3. ListMeans(heap, tk, h2[z].args)
    BY <1>9, <1>14
  <2>4. z \in Cells \ TakenIn(stack) /\ ShellsOf(s2) = ShellsOf(stack[t])
    BY <1>5, <1>20, <1>21, <1>24 DEF tk
  <2> QED
    BY <1>13, <1>14, <1>16, <1>23, <1>24, <2>1, <2>2, <2>3, <2>4 DEF Makes, tk
<1>18. Changed(stack, stack', t, s2) /\ Changed(ret, ret', t, r2)
  <2>1. Changed(stack, stack', t, s2)
    BY <1>1, <1>2, ChangedTo
  <2>2. Changed(ret, ret', t, r2)
    BY <1>1, <1>2, ChangedTo
  <2> QED
    BY <2>1, <2>2
<1> QED
  BY <1>1, <1>2, <1>17, <1>18, MakeStep

(***************************************************************************)
(* What a body does with its arguments.                                    *)
(***************************************************************************)
Runs(h, tk, s, r, x, u) ==
  /\ s = <<x>> \o u /\ Sound(u) /\ Framed(u) /\ Calm(u) /\ IsSeq(u) /\ StackMeans(h, tk, u) /\ Reach(u, 0)
  /\ IsList(x.xs) /\ IsSeq(x.xs) /\ ListMeans(h, tk, x.xs) /\ (\A i \in DOMAIN x.xs : Live(h, x.xs[i]))
  /\ r = Nothing
  /\ ShellsOf(s) = ShellsOf(u)
  /\ \A o \in Objects : /\ StackCount(s, o) = Count(x.xs, o) + StackCount(u, o)
                        /\ Count(x.xs, o) \in Nat /\ StackCount(u, o) \in Nat

LEMMA RunsIs ==
  ASSUME NEW hd, NEW st, NEW rt, NEW h, World(hd, st, rt, h), NEW t \in Threads, st[t] # <<>>, Head(st[t]).k = "body"
  PROVE  Runs(h, TakenIn(st), st[t], rt[t], Head(st[t]), Tail(st[t]))
<1> DEFINE x == Head(st[t])  u == Tail(st[t])  tk == TakenIn(st)
<1>1. TopOf(h, tk, st[t], x, u)
  BY TopIs
<1>2. x.k = "body"
  OBVIOUS
<1>3. Fit(st[t], rt[t])
  BY ThreadIs
<1> HIDE DEF x, u, tk
<1>4. /\ st[t] = <<x>> \o u /\ IsSeq(u) /\ Framed(u) /\ Sound(u) /\ IsFrame(x)
      /\ (x.k # "drop" => Calm(u)) /\ (Fills(x) => Reach(u, 0))
      /\ StackMeans(h, tk, u)
      /\ x.k # "shell" => (x.k # "body" => Means(h, tk, x.c)) /\ ListMeans(h, tk, x.xs)
      /\ \A i \in DOMAIN x.xs : Live(h, x.xs[i])
  BY <1>1 DEF TopOf
<1>5. x.k \in Active /\ x.k # "drop" /\ x.k # "shell" /\ Fills(x)
  BY <1>2 DEF Active, Fills
<1>6. Calm(u) /\ ListMeans(h, tk, x.xs) /\ Reach(u, 0)
  BY <1>4, <1>5
<1>7. IsList(x.xs) /\ IsSeq(x.xs) /\ x.c.o = Null
  BY <1>2, <1>4 DEF IsFrame, IsList
<1>8. rt[t] = Nothing
  BY <1>3, <1>4, <1>5, FitActive
<1>9. ShellsOf(<<x>> \o u) = ShellsOf(u)
  BY <1>4, <1>5, ShellsCons
<1>10. ASSUME NEW o \in Objects
       PROVE  /\ StackCount(<<x>> \o u, o) = Count(x.xs, o) + StackCount(u, o)
              /\ Count(x.xs, o) \in Nat /\ StackCount(u, o) \in Nat
  <2>1. One(x.c, o) = 0
    BY <1>7, ObjectsApart DEF One
  <2>2. /\ StackCount(<<x>> \o u, o) = One(x.c, o) + Count(x.xs, o) + StackCount(u, o)
        /\ Count(x.xs, o) \in Nat /\ StackCount(u, o) \in Nat
    BY <1>4, CountCons
  <2> QED
    BY <2>1, <2>2
<1>11. Runs(h, tk, st[t], rt[t], x, u)
  BY <1>4, <1>6, <1>7, <1>8, <1>9, <1>10 DEF Runs
<1> QED
  BY <1>11 DEF x, u, tk

LEMMA BodyBuildsKeeps ==
  ASSUME WorldInv, NEW t \in Threads, BodyBuilds(t)
  PROVE  World(hand', stack', ret', heap')
<1> DEFINE x == Head(stack[t])  u == Tail(stack[t])  tk == TakenIn(stack)  xs == x.xs
           z == CHOOSE n \in FreeCells : TRUE
<1>1. PICK f \in Fns : /\ Arity[f] >= Len(xs) /\ heap' = MkClosure(heap, z, f, xs)
                       /\ ret' = [ret EXCEPT ![t] = [o |-> z, v |-> [fn |-> f, args |-> Values(xs)]]]
  BY DEF BodyBuilds, Top, Return
<1> DEFINE r2 == [o |-> z, v |-> [fn |-> f, args |-> Values(xs)]]  h2 == MkClosure(heap, z, f, xs)
<1>2. /\ stack[t] # <<>> /\ x.k = "body" /\ hand' = hand
      /\ stack' = [stack EXCEPT ![t] = <<>> \o u] /\ FreeCells # {}
  BY DEF BodyBuilds, Ran, At, Top, Goto, Under
<1>3. World(hand, stack, ret, heap) /\ HeapOK(heap) /\ DOMAIN stack = Threads /\ DOMAIN ret = Threads /\ DOMAIN heap = Objects
  BY DEF WorldInv, World, HeapOK
<1>4. Runs(heap, tk, stack[t], ret[t], x, u)
  BY <1>2, <1>3, RunsIs
<1>5. z \in Cells /\ heap[z].rc = 0
  <2>1. z \in FreeCells
    BY <1>2
  <2> QED
    BY <2>1 DEF FreeCells
<1> HIDE DEF z
<1>6. z \notin tk /\ heap[z].args = <<>> /\ z \in Objects /\ z # Null
  BY <1>3, <1>5, FreshIs
<1> HIDE DEF x, u, tk
<1>7. /\ Sound(u) /\ Framed(u) /\ Calm(u) /\ IsSeq(u) /\ StackMeans(heap, tk, u) /\ Reach(u, 0)
      /\ IsList(xs) /\ IsSeq(xs) /\ ListMeans(heap, tk, xs) /\ (\A i \in DOMAIN xs : Live(heap, xs[i]))
      /\ ret[t] = Nothing /\ ShellsOf(stack[t]) = ShellsOf(u)
      /\ \A o \in Objects : /\ StackCount(stack[t], o) = Count(xs, o) + StackCount(u, o)
                            /\ Count(xs, o) \in Nat /\ StackCount(u, o) \in Nat
  BY <1>4 DEF Runs
<1>8. stack' = [stack EXCEPT ![t] = u]
  BY <1>2, <1>7, JoinNone
<1> HIDE DEF xs
<1>9. MadeAt(heap, h2, z, f, xs)
  BY <1>3, <1>6 DEF MadeAt, MkClosure
<1>10. Len(xs) <= Arity[f] /\ Len(xs) \in Nat
  <2>1. Len(xs) \in Nat /\ Arity[f] \in Nat
    BY <1>7, SeqIs, ClosureConstants
  <2> QED
    BY <1>1, <2>1
<1>11. r2.o = z /\ r2.v = [fn |-> f, args |-> Values(xs)]
  OBVIOUS
<1>12. IsRef(r2)
  BY <1>6 DEF IsRef
<1> HIDE DEF h2, r2
<1>13. HeapOK(h2)
  BY <1>3, <1>5, <1>7, <1>9, <1>10, CellMade
<1>14. /\ r2.v = [fn |-> h2[z].fn, args |-> Values(h2[z].args)] /\ h2[z].rc = 1 /\ h2[z].args = xs /\ r2.v.fn \in Fns
  BY <1>9, <1>11 DEF MadeAt
<1>15. r2 # Nothing /\ Fit(u, r2)
  <2>1. r2 # Nothing
    BY <1>12, UnitIs
  <2> QED
    BY <1>7, <1>12, <1>14, <2>1, FitCalm DEF Usable
<1>16. ASSUME NEW o \in Atoms \cup Cells
       PROVE  h2[o].rc + StackCount(stack[t], o) + One(ret[t], o) + Count(heap[z].args, o)
                = heap[o].rc + StackCount(u, o) + One(r2, o) + Count(h2[z].args, o)
  <2>1. o \in Objects /\ heap[o].rc \in Nat
    BY <1>3, ObjectsApart DEF HeapOK, ObjectOK
  <2>2. One(ret[t], o) = 0 /\ Count(heap[z].args, o) = 0
    BY <1>6, <1>7, <2>1, NothingIs, CountNone
  <2>3. Count(h2[z].args, o) = Count(xs, o)
    BY <1>14
  <2>4. StackCount(stack[t], o) = Count(xs, o) + StackCount(u, o) /\ Count(xs, o) \in Nat /\ StackCount(u, o) \in Nat
    BY <1>7, <2>1
  <2>5. h2[o].rc = heap[o].rc + One(r2, o) /\ One(r2, o) \in Nat
    <3>1. CASE o = z
      BY <1>5, <1>11, <1>14, <3>1 DEF One
    <3>2. CASE o # z
      BY <1>9, <1>11, <2>1, <3>2 DEF One, MadeAt
    <3> QED
      BY <3>1, <3>2
  <2> QED
    BY <2>1, <2>2, <2>3, <2>4, <2>5
<1>17. Makes(stack, ret, heap, t, z, u, r2, h2)
  <2>1. \A p \in tk : h2[p].rc = heap[p].rc
    <3> SUFFICES ASSUME NEW p \in tk PROVE h2[p].rc = heap[p].rc
      OBVIOUS
    <3>1. p \in Cells /\ p # z
      BY <1>6 DEF tk, TakenIn
    <3>2. p \in Objects \ {z}
      BY <3>1, ObjectsApart
    <3> QED
      BY <1>9, <3>2 DEF MadeAt
  <2>2. \A o \in Objects \ {z} : h2[o].fn = heap[o].fn /\ h2[o].args = heap[o].args
    BY <1>9 DEF MadeAt
  <2>3. ListMeans(heap, tk, h2[z].args)
    BY <1>7, <1>14
  <2>4. z \in Cells \ TakenIn(stack)
    BY <1>5, <1>6 DEF tk
  <2> QED
    BY <1>7, <1>11, <1>13, <1>14, <1>15, <1>16, <2>1, <2>2, <2>3, <2>4 DEF Makes, tk
<1>18. Changed(stack, stack', t, u) /\ Changed(ret, ret', t, r2)
  <2>1. Changed(stack, stack', t, u)
    BY <1>3, <1>8, ChangedTo
  <2>2. Changed(ret, ret', t, r2)
    <3>1. ret' = [ret EXCEPT ![t] = r2]
      BY <1>1 DEF r2
    <3> QED
      BY <1>3, <3>1, ChangedTo
  <2> QED
    BY <2>1, <2>2
<1>19. heap' = h2
  BY <1>1 DEF h2
<1> QED
  BY <1>2, <1>3, <1>17, <1>18, <1>19, MakeStep

\* The body returns a value and drops some of its arguments.
LEMMA ReturnKeeps ==
  ASSUME WorldInv, NEW t \in Threads, stack[t] # <<>>, Head(stack[t]).k = "body",
         NEW l, IsList(l), ListMeans(heap, TakenIn(stack), l),
         NEW q, q # Nothing, Usable(Tail(stack[t]), q), Means(heap, TakenIn(stack), q),
         \A o \in Atoms \cup Cells : Count(Head(stack[t]).xs, o) = Count(l, o) + One(q, o)
  PROVE  World(hand, [stack EXCEPT ![t] = Drop(l) \o Tail(stack[t])], [ret EXCEPT ![t] = q], heap)
<1> DEFINE x == Head(stack[t])  u == Tail(stack[t])  tk == TakenIn(stack)  s2 == Drop(l) \o u
<1>1. World(hand, stack, ret, heap) /\ HeapOK(heap) /\ DOMAIN stack = Threads /\ DOMAIN ret = Threads
  BY DEF WorldInv, World
<1>2. Runs(heap, tk, stack[t], ret[t], x, u)
  BY <1>1, RunsIs
<1>3. /\ Usable(u, q) /\ Means(heap, tk, q) /\ ListMeans(heap, tk, l)
      /\ \A o \in Atoms \cup Cells : Count(x.xs, o) = Count(l, o) + One(q, o)
  OBVIOUS
<1> HIDE DEF x, tk
<1>4. /\ Sound(u) /\ Framed(u) /\ Calm(u) /\ IsSeq(u) /\ StackMeans(heap, tk, u)
      /\ ret[t] = Nothing /\ ShellsOf(stack[t]) = ShellsOf(u)
      /\ \A o \in Objects : /\ StackCount(stack[t], o) = Count(x.xs, o) + StackCount(u, o)
                            /\ Count(x.xs, o) \in Nat /\ StackCount(u, o) \in Nat
  BY <1>2 DEF Runs
<1> HIDE DEF u
<1>5. Fit(u, q)
  BY <1>3, <1>4, FitCalm
<1>6. Sound(s2) /\ Fit(s2, q)
  BY <1>4, <1>5, DropOn
<1>7. /\ StackMeans(heap, tk, s2) /\ ShellsOf(s2) = ShellsOf(u)
      /\ \A o \in Objects : StackCount(s2, o) = Count(l, o) + StackCount(u, o) /\ Count(l, o) \in Nat
  BY <1>3, <1>4, DropHolds
<1> HIDE DEF s2
<1>8. ASSUME NEW o \in Atoms \cup Cells
      PROVE  heap[o].rc + StackCount(stack[t], o) + One(ret[t], o) = heap[o].rc + StackCount(s2, o) + One(q, o)
  <2>1. o \in Objects /\ heap[o].rc \in Nat /\ One(q, o) \in Nat
    BY <1>1, ObjectsApart DEF HeapOK, ObjectOK, One
  <2>2. One(ret[t], o) = 0
    BY <1>4, <2>1, NothingIs
  <2>3. StackCount(stack[t], o) = Count(x.xs, o) + StackCount(u, o) /\ StackCount(u, o) \in Nat
    BY <1>4, <2>1
  <2>4. Count(x.xs, o) = Count(l, o) + One(q, o) /\ StackCount(s2, o) = Count(l, o) + StackCount(u, o) /\ Count(l, o) \in Nat
    BY <1>3, <1>7, <2>1
  <2> QED
    BY <2>1, <2>2, <2>3, <2>4
<1>9. Moves(stack, ret, heap, t, s2, q, heap)
  BY <1>1, <1>3, <1>4, <1>6, <1>7, <1>8 DEF Moves, tk
<1> DEFINE st2 == [stack EXCEPT ![t] = s2]  rt2 == [ret EXCEPT ![t] = q]
<1>10. World(hand, st2, rt2, heap)
  BY <1>1, <1>9, StackStep
<1> QED
  BY <1>10 DEF s2, u

\* What a result awaited by an over-application is.
LEMMA AwaitedIs ==
  ASSUME NEW t \in Threads
  PROVE  Awaited(t) <=> Awaiting(Tail(stack[t]))
BY DEF Awaited, Awaiting, Under, Pass

\* A reference to a constant closure.
LEMMA StaticIs ==
  ASSUME NEW hd, NEW st, NEW rt, NEW h, World(hd, st, rt, h), NEW s \in Statics
  PROVE  LET q == [o |-> s, v |-> [fn |-> h[s].fn, args |-> Values(h[s].args)]]
         IN /\ IsRef(q) /\ q # Nothing /\ Means(h, TakenIn(st), q) /\ q.v.fn \in Fns
            /\ \A o \in Atoms \cup Cells : One(q, o) = 0
            /\ \A o \in Atoms \cup Cells : Count(h[s].args, o) = 0
<1> DEFINE q == [o |-> s, v |-> [fn |-> h[s].fn, args |-> Values(h[s].args)]]
<1>1. s \in Objects /\ s # Null /\ s \notin Atoms /\ s \notin Cells /\ Null \notin Atoms \cup Cells
  BY ObjectsApart
<1>2. ObjectOK(s, h[s])
  BY <1>1 DEF World, HeapOK
<1>3. h[s].fn \in Fns /\ \A i \in DOMAIN h[s].args : h[s].args[i] = Unit
  BY <1>2 DEF ObjectOK
<1>4. q.o = s /\ q.v = [fn |-> h[s].fn, args |-> Values(h[s].args)] /\ q.v.fn = h[s].fn
  OBVIOUS
<1>5. IsRef(q)
  BY <1>1 DEF IsRef
<1> HIDE DEF q
<1>6. q # Nothing
  BY <1>5, UnitIs
<1>7. Means(h, TakenIn(st), q)
  BY <1>1, <1>4 DEF Means, TakenIn
<1>8. \A o \in Atoms \cup Cells : One(q, o) = 0
  BY <1>1, <1>4 DEF One
<1>9. ASSUME NEW o \in Atoms \cup Cells PROVE Count(h[s].args, o) = 0
  <2>1. Unit.o # o
    BY <1>1 DEF Unit
  <2>2. \A i \in DOMAIN h[s].args : h[s].args[i].o # o
    BY <1>3, <2>1
  <2> QED
    BY <2>2, CountAbsent
<1>10. /\ IsRef(q) /\ q # Nothing /\ Means(h, TakenIn(st), q) /\ q.v.fn \in Fns
       /\ \A o \in Atoms \cup Cells : One(q, o) = 0
       /\ \A o \in Atoms \cup Cells : Count(h[s].args, o) = 0
  BY <1>3, <1>4, <1>5, <1>6, <1>7, <1>8, <1>9
<1> QED
  BY <1>10 DEF q

LEMMA BodyReturnsKeeps ==
  ASSUME WorldInv, NEW t \in Threads, BodyReturns(t)
  PROVE  World(hand', stack', ret', heap')
<1> DEFINE x == Head(stack[t])  u == Tail(stack[t])  tk == TakenIn(stack)  xs == x.xs
           st2(l) == [stack EXCEPT ![t] = Drop(l) \o u]  rt2(q) == [ret EXCEPT ![t] = q]
           cnst(s) == [o |-> s, v |-> [fn |-> heap[s].fn, args |-> Values(heap[s].args)]]
<1>1. stack[t] # <<>> /\ x.k = "body" /\ hand' = hand /\ heap' = heap
  BY DEF BodyReturns, Ran, At, Top
<1>2. \/ \E i \in DOMAIN xs : /\ Awaited(t) => Partial(xs[i].o)
                              /\ stack' = st2(Without(xs, i)) /\ ret' = rt2(xs[i])
      \/ \E s \in Statics : stack' = st2(xs) /\ ret' = rt2(cnst(s))
      \/ ~Awaited(t) /\ stack' = st2(xs) /\ ret' = rt2(Unit)
  BY DEF BodyReturns, Top, Goto, Under, Return
<1>3. World(hand, stack, ret, heap)
  BY DEF WorldInv
<1>4. Runs(heap, tk, stack[t], ret[t], x, u)
  BY <1>1, <1>3, RunsIs
<1>5. Awaited(t) <=> Awaiting(u)
  BY AwaitedIs
<1>6. IsList(xs) /\ IsSeq(xs) /\ ListMeans(heap, tk, xs) /\ Reach(u, 0)
      /\ \A o \in Objects : Count(xs, o) \in Nat
  BY <1>4 DEF Runs
<1>7. ASSUME NEW i \in DOMAIN xs, Awaited(t) => Partial(xs[i].o), stack' = st2(Without(xs, i)), ret' = rt2(xs[i])
      PROVE  World(hand, stack', ret', heap)
  <2> DEFINE l == Without(xs, i)  q == xs[i]
  <2>1. IsList(l) /\ ListMeans(heap, tk, l) /\ Means(heap, tk, q) /\ Good(q)
    BY <1>6, ListWithout, MeansWithout DEF IsList
  <2>2. \A o \in Atoms \cup Cells : Count(xs, o) = Count(l, o) + One(q, o)
    BY <1>6, CountWithout
  <2>3. Partial(q.o) => q.v.fn \in Fns
    BY <2>1 DEF Partial, IsClosure, Means
  <2>4. Awaiting(u) => q.v.fn \in Fns
    BY <1>5, <1>7, <2>3
  <2> HIDE DEF u
  <2>5. q # Nothing /\ Usable(u, q)
    BY <2>1, <2>4, UnitIs DEF Usable, Good
  <2> HIDE DEF l, q
  <2>6. World(hand, st2(l), rt2(q), heap)
    BY <1>1, <2>1, <2>2, <2>5, ReturnKeeps DEF u
  <2> QED
    BY <1>7, <2>6 DEF l, q
<1>8. ASSUME NEW s \in Statics, stack' = st2(xs), ret' = rt2(cnst(s))
      PROVE  World(hand, stack', ret', heap)
  <2> DEFINE q == cnst(s)
  <2>1. IsRef(q) /\ q # Nothing /\ Means(heap, tk, q) /\ q.v.fn \in Fns /\ \A o \in Atoms \cup Cells : One(q, o) = 0
    BY <1>3, StaticIs
  <2>2. rt2(cnst(s)) = rt2(q)
    OBVIOUS
  <2> HIDE DEF q, u
  <2>3. Usable(u, q)
    BY <1>6, <2>1 DEF Usable
  <2>4. \A o \in Atoms \cup Cells : Count(xs, o) = Count(xs, o) + One(q, o)
    BY <1>6, <2>1, ObjectsApart
  <2> HIDE DEF xs
  <2>5. World(hand, st2(xs), rt2(q), heap)
    BY <1>1, <1>6, <2>1, <2>3, <2>4, ReturnKeeps DEF u, xs
  <2> QED
    BY <1>8, <2>2, <2>5
<1>9. ASSUME ~Awaited(t), stack' = st2(xs), ret' = rt2(Unit)
      PROVE  World(hand, stack', ret', heap)
  <2>1. IsRef(Unit) /\ Good(Unit) /\ Unit # Nothing /\ Means(heap, tk, Unit)
    BY UnitIs, MeansNone
  <2>2. \A o \in Atoms \cup Cells : One(Unit, o) = 0
    BY ObjectsApart DEF Unit, One
  <2>3. \A o \in Atoms \cup Cells : Count(xs, o) = Count(xs, o) + One(Unit, o)
    BY <1>6, <2>2, ObjectsApart
  <2> HIDE DEF u
  <2>4. Usable(u, Unit)
    BY <1>5, <1>9, <2>1 DEF Usable, Good
  <2> HIDE DEF xs
  <2>5. World(hand, st2(xs), rt2(Unit), heap)
    BY <1>1, <1>6, <2>1, <2>3, <2>4, ReturnKeeps DEF u, xs
  <2> QED
    BY <1>9, <2>5
<1> HIDE DEF st2, rt2, cnst, xs
<1>10. World(hand, stack', ret', heap)
  BY <1>2, <1>7, <1>8, <1>9
<1> QED
  BY <1>1, <1>10

\* The body applies one of its arguments to another, over frames that wait.
LEMMA ApplyKeeps ==
  ASSUME WorldInv, NEW t \in Threads, stack[t] # <<>>, Head(stack[t]).k = "body",
         NEW l, IsList(l), ListMeans(heap, TakenIn(stack), l),
         NEW y, IsFrame(y), y.k \in Active, Means(heap, TakenIn(stack), y.c), ListMeans(heap, TakenIn(stack), y.xs),
         NEW v, Sound(v), Calm(v), Fills(y) => Reach(v, 0), y.k \in Opener => Closed(v),
         ShellsOf(v) = ShellsOf(Tail(stack[t])), StackMeans(heap, TakenIn(stack), v),
         \A o \in Objects : StackCount(v, o) = StackCount(Tail(stack[t]), o),
         \A o \in Objects : Count(Head(stack[t]).xs, o) = Count(l, o) + (One(y.c, o) + Count(y.xs, o))
  PROVE  World(hand, [stack EXCEPT ![t] = Drop(l) \o (<<y>> \o v)], ret, heap)
<1> DEFINE x == Head(stack[t])  u == Tail(stack[t])  tk == TakenIn(stack)  w == <<y>> \o v  s2 == Drop(l) \o w
<1>1. World(hand, stack, ret, heap) /\ HeapOK(heap) /\ DOMAIN stack = Threads /\ DOMAIN ret = Threads
  BY DEF WorldInv, World
<1>2. Runs(heap, tk, stack[t], ret[t], x, u)
  BY <1>1, RunsIs
<1>3. /\ Means(heap, tk, y.c) /\ ListMeans(heap, tk, y.xs) /\ ListMeans(heap, tk, l)
      /\ ShellsOf(v) = ShellsOf(u) /\ StackMeans(heap, tk, v)
      /\ \A o \in Objects : StackCount(v, o) = StackCount(u, o)
      /\ \A o \in Objects : Count(x.xs, o) = Count(l, o) + (One(y.c, o) + Count(y.xs, o))
  OBVIOUS
<1> HIDE DEF x, tk, u
<1>4. /\ ret[t] = Nothing /\ ShellsOf(stack[t]) = ShellsOf(u)
      /\ \A o \in Objects : /\ StackCount(stack[t], o) = Count(x.xs, o) + StackCount(u, o)
                            /\ Count(x.xs, o) \in Nat /\ StackCount(u, o) \in Nat
  BY <1>2 DEF Runs
<1>5. /\ Sound(w) /\ Fit(w, Nothing) /\ ShellsOf(w) = ShellsOf(v) /\ Framed(w)
      /\ \A o \in Objects : /\ StackCount(w, o) = One(y.c, o) + Count(y.xs, o) + StackCount(v, o)
                            /\ One(y.c, o) \in Nat /\ Count(y.xs, o) \in Nat
      /\ StackMeans(heap, tk, w)
  BY <1>3, ActiveOn
<1> HIDE DEF w
<1>6. Sound(s2) /\ Fit(s2, Nothing)
  BY <1>5, DropOn DEF Framed
<1>7. /\ StackMeans(heap, tk, s2) /\ ShellsOf(s2) = ShellsOf(w)
      /\ \A o \in Objects : StackCount(s2, o) = Count(l, o) + StackCount(w, o) /\ Count(l, o) \in Nat
  BY <1>3, <1>5, DropHolds
<1> HIDE DEF s2
<1>8. ASSUME NEW o \in Atoms \cup Cells
      PROVE  heap[o].rc + StackCount(stack[t], o) + One(ret[t], o) = heap[o].rc + StackCount(s2, o) + One(Nothing, o)
  <2>1. o \in Objects /\ heap[o].rc \in Nat
    BY <1>1, ObjectsApart DEF HeapOK, ObjectOK
  <2>2. One(ret[t], o) = 0 /\ One(Nothing, o) = 0
    BY <1>4, <2>1, NothingIs
  <2>3. StackCount(stack[t], o) = Count(x.xs, o) + StackCount(u, o) /\ StackCount(u, o) \in Nat
    BY <1>4, <2>1
  <2>4. Count(x.xs, o) = Count(l, o) + (One(y.c, o) + Count(y.xs, o)) /\ StackCount(v, o) = StackCount(u, o)
    BY <1>3, <2>1
  <2>5. StackCount(w, o) = One(y.c, o) + Count(y.xs, o) + StackCount(v, o) /\ One(y.c, o) \in Nat /\ Count(y.xs, o) \in Nat
    BY <1>5, <2>1
  <2>6. StackCount(s2, o) = Count(l, o) + StackCount(w, o) /\ Count(l, o) \in Nat
    BY <1>7, <2>1
  <2> QED
    BY <2>1, <2>2, <2>3, <2>4, <2>5, <2>6
<1>9. Moves(stack, ret, heap, t, s2, Nothing, heap)
  <2>1. ShellsOf(s2) = ShellsOf(stack[t])
    BY <1>3, <1>4, <1>5, <1>7
  <2> QED
    BY <1>1, <1>6, <1>7, <1>8, <2>1 DEF Moves, tk
<1> DEFINE st2 == [stack EXCEPT ![t] = s2]
<1>10. World(hand, st2, ret, heap)
  BY <1>1, <1>4, <1>9, StackStep
<1> QED
  BY <1>10 DEF s2, w

LEMMA BodyAppliesKeeps ==
  ASSUME WorldInv, NEW t \in Threads, BodyApplies(t)
  PROVE  World(hand', stack', ret', heap')
<1> DEFINE x == Head(stack[t])  u == Tail(stack[t])  tk == TakenIn(stack)  xs == x.xs
           n == Frame("nested", Unit, <<>>)
           st2(s) == [stack EXCEPT ![t] = s]
<1>1. stack[t] # <<>> /\ x.k = "body" /\ hand' = hand /\ heap' = heap /\ ret' = ret
  BY DEF BodyApplies, Ran, At, Top
<1>2. PICK i \in DOMAIN xs, j \in DOMAIN xs :
        /\ i # j /\ Partial(xs[i].o)
        /\ \/ stack' = st2((Drop(Without2(xs, i, j)) \o <<Frame("grow", xs[i], <<xs[j]>>)>>) \o u)
           \/ stack' = st2((Drop(Without2(xs, i, j)) \o <<Frame("apply", xs[i], <<xs[j]>>), n>>) \o u)
  BY DEF BodyApplies, Top, Goto, Under, TailApply
<1> DEFINE c == xs[i]  a == xs[j]  l == Without2(xs, i, j)  g == Frame("grow", c, <<a>>)  y == Frame("apply", c, <<a>>)
           v == <<n>> \o u
<1>3. World(hand, stack, ret, heap)
  BY DEF WorldInv
<1>4. Runs(heap, tk, stack[t], ret[t], x, u)
  BY <1>1, <1>3, RunsIs
<1>5. /\ Sound(u) /\ Framed(u) /\ Calm(u) /\ IsSeq(u) /\ StackMeans(heap, tk, u) /\ Reach(u, 0)
      /\ IsList(xs) /\ IsSeq(xs) /\ ListMeans(heap, tk, xs)
  BY <1>4 DEF Runs
<1>6. /\ IsList(l) /\ ListMeans(heap, tk, l)
      /\ \A o : Count(xs, o) = Count(l, o) + One(c, o) + One(a, o)
  BY SMTT(30), <1>2, <1>5, ListWithout2, MeansWithout2, CountWithout2
<1>7. Good(c) /\ Good(a) /\ Means(heap, tk, c) /\ Means(heap, tk, a)
  BY <1>2, <1>5 DEF IsList, ListMeans
<1>8. IsRef(c) /\ Part(c.v)
  <2>1. c.v.fn \in Fns
    <3>1. Partial(c.o)
      BY <1>2
    <3>2. c.o # Null /\ heap[c.o].fn \in Fns
      BY <3>1 DEF Partial, IsClosure
    <3>3. c.v = [fn |-> heap[c.o].fn, args |-> Values(heap[c.o].args)]
      BY <1>7, <3>2 DEF Means
    <3> HIDE DEF c
    <3> QED
      BY <3>2, <3>3
  <2>2. Applicable(heap, c)
    BY <1>3, <1>7, <2>1, FnIs
  <2> QED
    BY <1>7, <2>2 DEF Applicable, Good
<1>9. /\ IsList(<<a>>) /\ <<a>> # <<>> /\ Len(<<a>>) = 1 /\ ListMeans(heap, tk, <<a>>) /\ \A o : Count(<<a>>, o) = One(a, o)
  BY <1>7, ListOne, MeansOne, SingleSeq, CountOne
<1>10. Len(c.v.args) + Len(<<a>>) <= Arity[c.v.fn]
  <2>1. Applicable(heap, c)
    BY <1>3, <1>7, <1>8, FnIs DEF Part
  <2> QED
    <3>1. Len(c.v.args) \in Nat /\ Arity[c.v.fn] \in Nat
      BY <2>1 DEF Applicable
    <3>2. Len(c.v.args) < Arity[c.v.fn]
      BY <1>8 DEF Part
    <3> HIDE DEF c, a
    <3> QED
      BY <1>9, <3>1, <3>2
<1> HIDE DEF xs, c, a, l
<1>11. IsFrame(g) /\ g.k = "grow" /\ g.c = c /\ g.xs = <<a>> /\ g.k \in Active /\ g.k \notin Opener
  BY <1>8, <1>9, <1>10, GrowFrame
<1>12. IsFrame(y) /\ y.k = "apply" /\ y.c = c /\ y.xs = <<a>> /\ y.k \in Active /\ ~Fills(y)
  BY <1>7, <1>8, ApplyFrame
<1> HIDE DEF g, y, tk
<1>13. \A o \in Objects : Count(xs, o) = Count(l, o) + (One(c, o) + Count(<<a>>, o))
  <2> SUFFICES ASSUME NEW o \in Objects PROVE Count(xs, o) = Count(l, o) + (One(c, o) + Count(<<a>>, o))
    OBVIOUS
  <2>1. Count(xs, o) = Count(l, o) + One(c, o) + One(a, o) /\ Count(<<a>>, o) = One(a, o)
    BY <1>6, <1>9
  <2>2. Count(l, o) \in Nat /\ One(c, o) \in Nat /\ One(a, o) \in Nat
    BY <1>6, CountIs DEF IsList, One
  <2> QED
    BY <2>1, <2>2
<1>14. World(hand, st2(Drop(l) \o (<<g>> \o u)), ret, heap)
  <2>1. \A o \in Objects : Count(xs, o) = Count(l, o) + (One(g.c, o) + Count(g.xs, o))
    BY <1>11, <1>13
  <2>2. Means(heap, tk, g.c) /\ ListMeans(heap, tk, g.xs)
    BY <1>7, <1>9, <1>11
  <2> QED
    BY <1>1, <1>5, <1>6, <1>11, <2>1, <2>2, ApplyKeeps DEF xs, tk
<1>15. /\ Sound(v) /\ Calm(v) /\ ShellsOf(v) = ShellsOf(u) /\ Closed(v)
       /\ \A o \in Objects : StackCount(v, o) = StackCount(u, o)
       /\ StackMeans(heap, tk, v)
  BY <1>5, NestedOn
<1>16. World(hand, st2(Drop(l) \o (<<y>> \o v)), ret, heap)
  <2>1. \A o \in Objects : Count(xs, o) = Count(l, o) + (One(y.c, o) + Count(y.xs, o))
    BY <1>12, <1>13
  <2>2. Means(heap, tk, y.c) /\ ListMeans(heap, tk, y.xs)
    BY <1>7, <1>9, <1>12
  <2> HIDE DEF v
  <2> QED
    BY <1>1, <1>6, <1>12, <1>15, <2>1, <2>2, ApplyKeeps DEF xs, tk
<1>17. (Drop(l) \o <<g>>) \o u = Drop(l) \o (<<g>> \o u)
  <2>1. IsSeq(Drop(l)) /\ IsSeq(<<g>>)
    BY DropSeq, SingleSeq
  <2> DEFINE p == Drop(l)  q == <<g>>
  <2>2. IsSeq(p) /\ IsSeq(q) /\ IsSeq(u)
    BY <1>5, <2>1
  <2> HIDE DEF u, p, q
  <2>3. (p \o q) \o u = p \o (q \o u)
    BY <2>2, JoinThree
  <2> QED
    BY <2>3 DEF p, q
<1>18. (Drop(l) \o <<y, n>>) \o u = Drop(l) \o (<<y>> \o v)
  <2>1. (Drop(l) \o <<y, n>>) \o u = Drop(l) \o (<<y, n>> \o u)
    <3>1. IsSeq(Drop(l)) /\ IsSeq(<<y, n>>)
      BY DropSeq, PairSeq
    <3> DEFINE p == Drop(l)  q == <<y, n>>
    <3>2. IsSeq(p) /\ IsSeq(q) /\ IsSeq(u)
      BY <1>5, <3>1
    <3> HIDE DEF u, p, q
    <3>3. (p \o q) \o u = p \o (q \o u)
      BY <3>2, JoinThree
    <3> QED
      BY <3>3 DEF p, q
  <2>2. <<y, n>> \o u = <<y>> \o v
    BY <1>5, TwoOn
  <2> QED
    BY <2>1, <2>2
<1>19. \/ stack' = st2((Drop(l) \o <<g>>) \o u)
       \/ stack' = st2((Drop(l) \o <<y, n>>) \o u)
  BY <1>2 DEF l, g, y, c, a
<1> HIDE DEF v, n, u, st2
<1>20. stack' = st2(Drop(l) \o (<<g>> \o u)) \/ stack' = st2(Drop(l) \o (<<y>> \o v))
  BY <1>17, <1>18, <1>19
<1> QED
  BY <1>1, <1>14, <1>16, <1>20

(***************************************************************************)
(* Frames that only pass a result on.                                      *)
(***************************************************************************)
LEMMA PopKeeps ==
  ASSUME WorldInv, NEW t \in Threads, stack[t] # <<>>, Head(stack[t]).k \in {"nested", "trampoline", "shell"},
         Head(stack[t]).k = "trampoline" => ~Sat(ret[t].v), Head(stack[t]).k = "shell" => Head(stack[t]).c.o \in Statics
  PROVE  World(hand, [stack EXCEPT ![t] = Tail(stack[t])], ret, heap)
<1> DEFINE x == Head(stack[t])  u == Tail(stack[t])  tk == TakenIn(stack)  r == ret[t]
<1>1. World(hand, stack, ret, heap) /\ HeapOK(heap) /\ DOMAIN stack = Threads /\ DOMAIN ret = Threads
  BY DEF WorldInv, World
<1>2. TopOf(heap, tk, stack[t], x, u)
  BY <1>1, TopIs
<1>3. x.k \in {"nested", "trampoline", "shell"} /\ (x.k = "trampoline" => ~Sat(r.v)) /\ (x.k = "shell" => x.c.o \in Statics)
  OBVIOUS
<1>4. Fit(stack[t], r) /\ (r # Nothing => Means(heap, tk, r))
  BY <1>1, ThreadIs
<1> HIDE DEF x, u, tk, r
<1>5. /\ stack[t] = <<x>> \o u /\ IsSeq(u) /\ Framed(u) /\ Sound(u) /\ IsFrame(x)
      /\ (x.k # "drop" => Calm(u)) /\ StackMeans(heap, tk, u)
  BY <1>2 DEF TopOf
<1>6. x.k \notin Active \cup {"drop"} /\ Calm(u) /\ x.k \in Pass
  BY <1>3, <1>5 DEF Active, Pass
<1>7. r # Nothing /\ Usable(<<x>> \o u, r)
  BY <1>4, <1>5, <1>6, FitPassive
<1>8. Usable(u, r)
  <2>1. Awaiting(u) => Awaiting(<<x>> \o u)
    BY <1>5, <1>6, AwaitingCons
  <2>2. Reach(<<x>> \o u, 0) <=> x.k = "trampoline" \/ (x.k \in {"drop", "shell"} /\ Reach(u, 0))
    BY <1>5, ReachCons
  <2>3. Sat(r.v) => Reach(u, 0)
    BY <1>3, <1>7, <2>2 DEF Usable
  <2> QED
    BY <1>7, <2>1, <2>3 DEF Usable
<1>9. Fit(u, r)
  BY <1>6, <1>7, <1>8, FitCalm
<1>10. x.xs = <<>> /\ (x.k # "shell" => x.c = Unit)
  BY <1>3, <1>5 DEF IsFrame
<1>11. ShellsOf(<<x>> \o u) = ShellsOf(u) \cup (IF x.k = "shell" THEN {x.c.o} ELSE {})
  BY <1>5, ShellsCons
<1>12. \A c \in Cells : c \in ShellsOf(u) <=> c \in ShellsOf(stack[t])
  BY <1>3, <1>5, <1>11, ObjectsApart
<1>13. ASSUME NEW o \in Atoms \cup Cells
       PROVE  heap[o].rc + StackCount(stack[t], o) + One(ret[t], o) = heap[o].rc + StackCount(u, o) + One(r, o)
  <2>1. o \in Objects /\ o \notin Statics /\ o # Null
    BY ObjectsApart
  <2>2. One(x.c, o) = 0
    BY <1>3, <1>10, <2>1 DEF One, Unit
  <2>3. Count(x.xs, o) = 0
    BY <1>10, CountNone
  <2>4. StackCount(stack[t], o) = One(x.c, o) + Count(x.xs, o) + StackCount(u, o) /\ StackCount(u, o) \in Nat
    BY <1>5, <2>1, CountCons
  <2>5. StackCount(stack[t], o) = StackCount(u, o)
    BY <2>2, <2>3, <2>4
  <2> QED
    BY <2>5 DEF r
<1>14. Moves(stack, ret, heap, t, u, r, heap)
  BY <1>1, <1>4, <1>5, <1>9, <1>12, <1>13 DEF Moves, tk
<1> DEFINE st2 == [stack EXCEPT ![t] = u]
<1>15. World(hand, st2, ret, heap)
  BY <1>1, <1>14, StackStep DEF r
<1> QED
  BY <1>15 DEF u

LEMMA BodyResumesKeeps ==
  ASSUME WorldInv, NEW t \in Threads, BodyResumes(t)
  PROVE  World(hand', stack', ret', heap')
<1> DEFINE u == Tail(stack[t])
<1>1. /\ stack[t] # <<>> /\ Head(stack[t]).k = "nested" /\ stack' = [stack EXCEPT ![t] = <<>> \o u]
      /\ hand' = hand /\ heap' = heap /\ ret' = ret
  BY DEF BodyResumes, At, Top, Goto, Under
<1>2. World(hand, stack, ret, heap)
  BY DEF WorldInv
<1>3. IsSeq(u)
  BY <1>1, <1>2, TopIs DEF TopOf
<1>4. <<>> \o u = u
  BY <1>3, JoinNone
<1>5. World(hand, [stack EXCEPT ![t] = u], ret, heap)
  BY <1>1, PopKeeps
<1> QED
  BY <1>1, <1>4, <1>5

LEMMA SaturatedIs ==
  ASSUME NEW hd, NEW st, NEW rt, World(hd, st, rt, heap), NEW q, Means(heap, TakenIn(st), q)
  PROVE  Saturated(q.o) <=> Sat(q.v)
<1>1. ASSUME Sat(q.v) PROVE Saturated(q.o)
  <2>1. Applicable(heap, q)
    BY <1>1, FnIs DEF Sat
  <2>2. /\ q.o # Null /\ heap[q.o].fn \in Fns /\ Len(q.v.args) = Len(heap[q.o].args) /\ q.v.fn = heap[q.o].fn
        /\ Len(q.v.args) \in Nat /\ Arity[q.v.fn] \in Nat
    BY <2>1 DEF Applicable
  <2>3. Len(q.v.args) = Arity[q.v.fn]
    BY <1>1 DEF Sat
  <2>4. Len(heap[q.o].args) >= Arity[heap[q.o].fn]
    BY <2>2, <2>3
  <2> QED
    BY <2>2, <2>4 DEF Saturated, IsClosure, Filled, ArityOf
<1>2. ASSUME Saturated(q.o) PROVE Sat(q.v)
  <2>1. q.o # Null /\ heap[q.o].fn \in Fns /\ Len(heap[q.o].args) >= Arity[heap[q.o].fn]
    BY <1>2 DEF Saturated, IsClosure, Filled, ArityOf
  <2>2. q.v.fn = heap[q.o].fn
    BY <2>1 DEF Means
  <2>3. Applicable(heap, q)
    BY <2>1, <2>2, FnIs
  <2>4. /\ Len(heap[q.o].args) <= Arity[heap[q.o].fn] /\ Len(q.v.args) = Len(heap[q.o].args)
        /\ Len(q.v.args) \in Nat /\ Arity[q.v.fn] \in Nat
    BY <2>3 DEF Applicable
  <2>5. Len(q.v.args) = Arity[q.v.fn]
    BY <2>1, <2>2, <2>4
  <2> QED
    BY <2>1, <2>2, <2>5 DEF Sat
<1> QED
  BY <1>1, <1>2

\* A saturated closure is run where it is: its arguments pass to the body, its shell is left.
LEMMA BounceKeeps ==
  ASSUME WorldInv, NEW t \in Threads, stack[t] # <<>>, Head(stack[t]).k = "trampoline", Sat(ret[t].v)
  PROVE  World(hand, [stack EXCEPT ![t] = <<Body(ret[t].v, heap[ret[t].o].args), Frame("shell", ret[t], <<>>)>> \o stack[t]],
               [ret EXCEPT ![t] = Nothing], heap)
<1> DEFINE x == Head(stack[t])  u == Tail(stack[t])  tk == TakenIn(stack)  r == ret[t]  s == stack[t]  args == heap[r.o].args
           y == Body(r.v, args)  w == Frame("shell", r, <<>>)
           v == <<w>> \o s  s2 == <<y>> \o v
           st2 == [stack EXCEPT ![t] = s2]  rt2 == [ret EXCEPT ![t] = Nothing]
<1>1. World(hand, stack, ret, heap) /\ HeapOK(heap) /\ DOMAIN stack = Threads /\ DOMAIN ret = Threads
  BY DEF WorldInv, World
<1>2. TopOf(heap, tk, s, x, u)
  BY <1>1, TopIs
<1>3. x.k = "trampoline" /\ Sat(r.v)
  OBVIOUS
<1>4. Sound(s) /\ Framed(s) /\ IsSeq(s) /\ Fit(s, r) /\ StackMeans(heap, tk, s) /\ (r # Nothing => Means(heap, tk, r))
  BY <1>1, ThreadIs DEF Sound, Framed
<1> HIDE DEF x, u, tk, r, s
<1>5. s = <<x>> \o u /\ IsSeq(u) /\ Calm(u)
  BY <1>2, <1>3 DEF TopOf
<1>6. Calm(s) /\ Reach(s, 0)
  BY <1>3, <1>5, CalmCons, ReachCons, KindsApart
<1>7. r # Nothing /\ Usable(s, r)
  <2>1. x.k \notin Active \cup {"drop"}
    BY <1>3, KindsApart
  <2> QED
    BY <1>4, <1>5, <2>1, FitPassive
<1>8. IsRef(r) /\ Means(heap, tk, r) /\ r.v.fn \in Fns
  BY <1>3, <1>4, <1>7 DEF Usable, Sat
<1>9. Applicable(heap, r)
  BY <1>1, <1>8, FnIs DEF tk
<1>10. r.o \in Cells \cup Statics /\ Len(args) = Arity[r.v.fn] /\ heap[r.o].rc # 0 /\ r.o # Null /\ r.v.fn = heap[r.o].fn
  BY <1>3, <1>9 DEF Applicable, Sat
<1>11. Holds(heap, tk, r)
  BY <1>1, <1>8, <1>10, HeldIs DEF tk
<1>12. /\ IsList(args) /\ IsSeq(args) /\ Values(args) = r.v.args /\ ListMeans(heap, tk, args) /\ r.o \notin tk /\ r.o \in Objects
  BY <1>11 DEF Holds, IsList
<1> HIDE DEF args
<1>13. /\ IsFrame(y) /\ y.k = "body" /\ y.xs = args /\ y.k \in Active /\ y.k \notin Opener
       /\ \A o \in Objects : One(y.c, o) = 0
  <2> DEFINE q == r.v
  <2>1. IsList(args) /\ Values(args) = q.args /\ Len(args) = Arity[q.fn]
    BY <1>10, <1>12
  <2> HIDE DEF q
  <2>2. /\ IsFrame(Body(q, args)) /\ Body(q, args).k = "body" /\ Body(q, args).xs = args /\ Body(q, args).c = [o |-> Null, v |-> q]
        /\ Body(q, args).k \in Active /\ Body(q, args).k \notin Opener
        /\ \A o \in Objects : One(Body(q, args).c, o) = 0
    BY <2>1, BodyFrame
  <2> QED
    BY <2>2 DEF q
<1> HIDE DEF y
<1>14. /\ Sound(v) /\ Calm(v) /\ ShellsOf(v) = ShellsOf(s) \cup {r.o} /\ Framed(v) /\ Reach(v, 0)
       /\ \A o \in Objects : StackCount(v, o) = One(r, o) + StackCount(s, o) /\ StackCount(s, o) \in Nat
       /\ StackMeans(heap, tk, v)
  BY <1>4, <1>6, <1>8, <1>10, ShellOn
<1> HIDE DEF v
<1>15. /\ Sound(s2) /\ Fit(s2, Nothing) /\ ShellsOf(s2) = ShellsOf(v)
       /\ \A o \in Objects : StackCount(s2, o) = One(y.c, o) + Count(y.xs, o) + StackCount(v, o) /\ Count(y.xs, o) \in Nat
       /\ StackMeans(heap, tk, s2)
  BY <1>12, <1>13, <1>14, ActiveOn
<1> HIDE DEF s2
<1>16. ASSUME NEW o \in Atoms \cup Cells
       PROVE  StackCount(s, o) + One(r, o) + Count(args, o) = StackCount(s2, o) + One(Nothing, o)
  <2>1. o \in Objects
    BY ObjectsApart
  <2>2. One(Nothing, o) = 0 /\ One(y.c, o) = 0 /\ y.xs = args /\ One(r, o) \in Nat
    BY <1>13, <2>1, NothingIs DEF One
  <2>3. StackCount(s2, o) = One(y.c, o) + Count(y.xs, o) + StackCount(v, o) /\ Count(y.xs, o) \in Nat
    BY <1>15, <2>1
  <2>4. StackCount(v, o) = One(r, o) + StackCount(s, o) /\ StackCount(s, o) \in Nat
    BY <1>14, <2>1
  <2> QED
    BY <2>2, <2>3, <2>4
<1>17. World(hand, st2, rt2, heap)
  <2>1. CASE r.o \in Statics
    <3>1. ObjectOK(r.o, heap[r.o])
      BY <1>1, <1>12 DEF HeapOK
    <3>2. \A i \in DOMAIN args : args[i] = Unit
      BY <2>1, <3>1 DEF ObjectOK, args
    <3>3. ASSUME NEW o \in Atoms \cup Cells PROVE Count(args, o) = 0 /\ One(r, o) = 0
      <4>1. Unit.o # o /\ r.o # o
        BY <2>1, ObjectsApart DEF Unit
      <4> QED
        BY <3>2, <4>1, CountAbsent DEF One
    <3>4. ASSUME NEW o \in Atoms \cup Cells
          PROVE  heap[o].rc + StackCount(s, o) + One(r, o) = heap[o].rc + StackCount(s2, o) + One(Nothing, o)
      <4>1. StackCount(s, o) + One(r, o) + 0 = StackCount(s2, o) + One(Nothing, o)
        BY <1>16, <3>3
      <4>2. StackCount(s, o) \in Nat /\ One(r, o) \in Nat /\ heap[o].rc \in Nat /\ StackCount(s2, o) \in Nat /\ One(Nothing, o) \in Nat
        BY <1>1, <1>4, <1>15, ObjectsApart, FramesStack, StackFinite DEF One, HeapOK, ObjectOK, Sound
      <4> QED
        BY <4>1, <4>2
    <3>5. \A c \in Cells : c \in ShellsOf(s2) <=> c \in ShellsOf(s)
      BY <1>14, <1>15, <2>1, ObjectsApart
    <3>6. Moves(stack, ret, heap, t, s2, Nothing, heap)
      BY <1>1, <1>15, <3>4, <3>5 DEF Moves, tk, s, r
    <3> QED
      BY <1>1, <3>6, StackStep
  <2>2. CASE r.o \in Cells
    <3>1. ObjectOK(r.o, heap[r.o])
      BY <1>1, <1>12 DEF HeapOK
    <3>2. heap[r.o].rc = 1
      BY <1>10, <2>2, <3>1 DEF ObjectOK, args
    <3>3. Empties(stack, ret, heap, t, r.o, s2, Nothing)
      BY <1>12, <1>14, <1>15, <1>16, <2>2, <3>2 DEF Empties, tk, s, r, args
    <3>4. Changed(stack, st2, t, s2) /\ Changed(ret, rt2, t, Nothing)
      BY <1>1, ChangedTo
    <3> HIDE DEF st2, rt2
    <3> QED
      BY <1>1, <3>3, <3>4, EmptyStep
  <2> QED
    BY <1>10, <2>1, <2>2
<1>18. <<y, w>> \o s = s2
  BY <1>4, TwoOn DEF s2, v
<1> QED
  BY <1>17, <1>18 DEF s, r, y, args

LEMMA TrampolineKeeps ==
  ASSUME WorldInv, NEW t \in Threads, Trampoline(t)
  PROVE  World(hand', stack', ret', heap')
<1> DEFINE u == Tail(stack[t])  r == ret[t]
<1>1. /\ stack[t] # <<>> /\ Head(stack[t]).k = "trampoline" /\ hand' = hand /\ heap' = heap
  BY DEF Trampoline, At, Top
<1>2. \/ /\ Saturated(r.o)
         /\ stack' = [stack EXCEPT ![t] = <<Body(r.v, heap[r.o].args), Frame("shell", r, <<>>)>> \o stack[t]]
         /\ ret' = [ret EXCEPT ![t] = Nothing]
      \/ ~Saturated(r.o) /\ stack' = [stack EXCEPT ![t] = <<>> \o u] /\ ret' = ret
  BY DEF Trampoline, Goto, Under, Return, Held
<1>3. World(hand, stack, ret, heap)
  BY DEF WorldInv
<1>4. IsSeq(u) /\ <<>> \o u = u
  BY <1>1, <1>3, TopIs, JoinNone DEF TopOf
<1>5. Means(heap, TakenIn(stack), r)
  <2>1. Fit(stack[t], r) /\ (r # Nothing => Means(heap, TakenIn(stack), r))
    BY <1>3, ThreadIs
  <2>2. stack[t] = <<Head(stack[t])>> \o u /\ IsSeq(u)
    BY <1>1, <1>3, TopIs DEF TopOf
  <2>3. Head(stack[t]).k \notin Active \cup {"drop"}
    BY <1>1, KindsApart
  <2> HIDE DEF u, r
  <2>4. r # Nothing
    BY <2>1, <2>2, <2>3, FitPassive
  <2> QED
    BY <2>1, <2>4
<1>6. Saturated(r.o) <=> Sat(r.v)
  BY <1>3, <1>5, SaturatedIs
<1>7. ASSUME Saturated(r.o) PROVE World(hand', stack', ret', heap')
  BY <1>1, <1>2, <1>6, <1>7, BounceKeeps
<1>8. ASSUME ~Saturated(r.o) PROVE World(hand', stack', ret', heap')
  <2>1. World(hand, [stack EXCEPT ![t] = u], ret, heap)
    BY <1>1, <1>6, <1>8, PopKeeps
  <2> QED
    BY <1>1, <1>2, <1>4, <1>8, <2>1
<1> QED
  BY <1>7, <1>8

(***************************************************************************)
(* Freeing an object.                                                      *)
(***************************************************************************)
Frees(st, rt, h, t, z, s2, h2) ==
  /\ z \in Atoms \cup Cells /\ h2[z] = Unused /\ HeapOK(h2) /\ \A o \in Objects \ {z} : h2[o] = h[o]
  /\ Sound(s2) /\ Fit(s2, rt[t]) /\ StackMeans(h, TakenIn(st), s2)
  /\ \A c \in Cells \ {z} : c \in ShellsOf(s2) <=> c \in ShellsOf(st[t])
  /\ \A o \in Atoms \cup Cells :
       h2[o].rc + StackCount(st[t], o) + CellCount(TakenIn(st), h, z, o) = h[o].rc + StackCount(s2, o)

LEMMA FreeStep ==
  ASSUME NEW hd, NEW st, NEW rt, NEW h, World(hd, st, rt, h), NEW t \in Threads, NEW z,
         NEW s2, NEW h2, Frees(st, rt, h, t, z, s2, h2),
         NEW st2, Changed(st, st2, t, s2)
  PROVE  World(hd, st2, rt, h2)
<1>1. /\ DOMAIN st2 = Threads /\ st2[t] = s2 /\ \A u \in Threads \ {t} : st2[u] = st[u]
  BY DEF Changed
<1>2. /\ z \in Atoms \cup Cells /\ h2[z] = Unused /\ HeapOK(h2) /\ \A o \in Objects \ {z} : h2[o] = h[o]
      /\ Sound(s2) /\ Fit(s2, rt[t]) /\ StackMeans(h, TakenIn(st), s2)
      /\ \A c \in Cells \ {z} : c \in ShellsOf(s2) <=> c \in ShellsOf(st[t])
  BY DEF Frees
<1>3. /\ HeapOK(h) /\ HandOK(hd[t]) /\ HandMeans(h, TakenIn(st), hd[t]) /\ Framed(st[t])
      /\ (rt[t] # Nothing => Means(h, TakenIn(st), rt[t])) /\ DOMAIN hd = Threads /\ DOMAIN rt = Threads
  BY ThreadIs DEF Sound
<1>4. Local(hd, st, rt, h, hd, st2, rt, h2, t, z)
  <2>1. \A c \in TakenIn(st) \ {z} : h2[c].rc = h[c].rc
    BY <1>2, ObjectsApart DEF TakenIn
  <2> QED
    BY <1>1, <1>2, <1>3, <2>1 DEF Local
<1>5. ASSUME NEW o \in Atoms \cup Cells
      PROVE  h2[o].rc + Hold(hd[t], st[t], rt[t], o) + CellCount(TakenIn(st), h, z, o)
               = h[o].rc + Hold(hd[t], st2[t], rt[t], o) + CellCount(TakenIn(st2), h2, z, o)
  <2>1. IsSeq(h[z].args) /\ IsSeq(h2[z].args) /\ h2[z].args = <<>>
    <3>1. ObjectOK(z, h[z])
      BY <1>2, <1>3, ObjectsApart DEF HeapOK
    <3>2. IsSeq(h[z].args)
      BY <3>1 DEF ObjectOK, IsList
    <3>3. h2[z].args = <<>>
      BY <1>2 DEF Unused
    <3> QED
      BY <3>2, <3>3, NoSeq
  <2>2. CellCount(TakenIn(st2), h2, z, o) = 0 /\ CellCount(TakenIn(st), h, z, o) \in Nat
    BY <2>1, CellIs, CountNone
  <2>3. HandCount(hd[t], o) \in Nat /\ StackCount(st[t], o) \in Nat /\ StackCount(s2, o) \in Nat
    BY <1>2, <1>3, HandFinite, StackFinite, FramesStack DEF Sound, HandOK
  <2>4. One(rt[t], o) \in Nat
    BY DEF One
  <2>5. h[o].rc \in Nat /\ h2[o].rc \in Nat
    BY <1>2, <1>3, ObjectsApart DEF HeapOK, ObjectOK
  <2>6. h2[o].rc + StackCount(st[t], o) + CellCount(TakenIn(st), h, z, o) = h[o].rc + StackCount(s2, o)
    BY DEF Frees
  <2>7. h2[o].rc + (HandCount(hd[t], o) + StackCount(st[t], o) + One(rt[t], o)) + CellCount(TakenIn(st), h, z, o)
          = h[o].rc + (HandCount(hd[t], o) + StackCount(s2, o) + One(rt[t], o)) + 0
    BY <2>2, <2>3, <2>4, <2>5, <2>6
  <2> QED
    BY <1>1, <2>2, <2>7 DEF Hold
<1>6. Balanced(hd, st, rt, h, hd, st2, rt, h2, t, z)
  BY <1>5 DEF Balanced
<1>7. Named(h, TakenIn(st), h2, TakenIn(st2), hd[t], st2[t], rt[t], z)
  BY <1>1, <1>2, <1>3 DEF Named
<1>8. Freed(h2, z)
  BY <1>2 DEF Freed, Unused
<1> QED
  BY <1>2, <1>4, <1>6, <1>7, <1>8, WorldStep

LEMMA DropShellKeeps ==
  ASSUME WorldInv, NEW t \in Threads, DropShell(t)
  PROVE  World(hand', stack', ret', heap')
<1> DEFINE x == Head(stack[t])  u == Tail(stack[t])  tk == TakenIn(stack)  r == ret[t]  z == x.c.o  h2 == Release(heap, z)
<1>1. /\ stack[t] # <<>> /\ x.k = "shell" /\ hand' = hand /\ heap' = h2 /\ ret' = ret
      /\ stack' = [stack EXCEPT ![t] = <<>> \o u]
  BY DEF DropShell, At, Top, Goto, Under
<1>2. World(hand, stack, ret, heap) /\ HeapOK(heap) /\ DOMAIN stack = Threads /\ DOMAIN ret = Threads
  BY DEF WorldInv, World
<1>3. TopOf(heap, tk, stack[t], x, u)
  BY <1>1, <1>2, TopIs
<1>4. Fit(stack[t], r)
  BY <1>2, ThreadIs
<1>5. stack' = [stack EXCEPT ![t] = u]
  <2>1. <<>> \o u = u
    BY <1>3, JoinNone DEF TopOf
  <2> QED
    BY <1>1, <2>1
<1>6. CASE z \in Statics
  <2>1. World(hand, [stack EXCEPT ![t] = u], ret, heap)
    BY <1>1, <1>6, PopKeeps
  <2>2. h2 = heap
    BY <1>2, <1>6, ReleaseIs, ObjectsApart
  <2> HIDE DEF h2
  <2> QED
    BY <1>1, <1>5, <2>1, <2>2
<1>7. CASE z \in Cells
  <2> HIDE DEF x, u, tk, r
  <2>1. /\ stack[t] = <<x>> \o u /\ IsSeq(u) /\ Framed(u) /\ Sound(u) /\ IsFrame(x) /\ Calm(u) /\ StackMeans(heap, tk, u)
    BY <1>1, <1>3 DEF TopOf
  <2>2. x.k \notin Active \cup {"drop"} /\ x.k \in Pass /\ x.k # "trampoline"
    BY <1>1 DEF Active, Pass
  <2>3. r # Nothing /\ Usable(<<x>> \o u, r)
    BY <1>4, <2>1, <2>2, FitPassive
  <2>4. Usable(u, r)
    <3>1. Awaiting(u) => Awaiting(<<x>> \o u)
      BY <2>1, <2>2, AwaitingCons
    <3>2. Reach(<<x>> \o u, 0) => Reach(u, 0)
      BY <2>1, <2>2, ReachCons
    <3> QED
      BY <2>3, <3>1, <3>2 DEF Usable
  <2>5. Fit(u, r)
    BY <2>1, <2>3, <2>4, FitCalm
  <2>6. ShellsOf(stack[t]) = ShellsOf(u) \cup {z} /\ x.xs = <<>>
    BY <1>1, <2>1, ShellsCons DEF IsFrame
  <2>7. z \in tk /\ z \in Objects
    BY <1>7, <2>6, ObjectsApart DEF tk, TakenIn
  <2>8. heap[z].rc = 1 /\ IsSeq(heap[z].args)
    BY <1>2, <2>7 DEF tk, World, HeapOK, ObjectOK, IsList
  <2>9. h2[z] = Unused /\ HeapOK(h2) /\ \A o \in Objects \ {z} : h2[o] = heap[o]
    BY <1>2, <1>7, <2>7, <2>8, ReleaseIs
  <2> DEFINE c == x.c
  <2>10. c.o = z
    OBVIOUS
  <2> HIDE DEF z, h2, c
  <2>11. ASSUME NEW o \in Atoms \cup Cells
         PROVE  h2[o].rc + StackCount(stack[t], o) + CellCount(TakenIn(stack), heap, z, o) = heap[o].rc + StackCount(u, o)
    <3>1. o \in Objects /\ heap[o].rc \in Nat
      BY <1>2, ObjectsApart DEF HeapOK, ObjectOK
    <3>2. CellCount(TakenIn(stack), heap, z, o) = 0
      BY <2>7, <2>8, CellIs DEF tk
    <3>3. StackCount(stack[t], o) = One(c, o) + Count(x.xs, o) + StackCount(u, o) /\ StackCount(u, o) \in Nat
      BY <2>1, <3>1, CountCons DEF c
    <3>4. Count(x.xs, o) = 0
      BY <2>6, CountNone
    <3>5. h2[o].rc + One(c, o) = heap[o].rc
      <4>1. CASE o = z
        BY <2>8, <2>9, <2>10, <4>1 DEF One, Unused
      <4>2. CASE o # z
        BY <2>9, <2>10, <3>1, <4>2 DEF One
      <4> QED
        BY <4>1, <4>2
    <3>6. One(c, o) \in Nat /\ h2[o].rc \in Nat
      BY <2>9, ObjectsApart DEF One, HeapOK, ObjectOK
    <3> QED
      BY <3>1, <3>2, <3>3, <3>4, <3>5, <3>6
  <2>12. Frees(stack, ret, heap, t, z, u, h2)
    BY <1>7, <2>1, <2>5, <2>6, <2>9, <2>11 DEF Frees, tk, r
  <2>13. Changed(stack, stack', t, u)
    BY <1>2, <1>5, ChangedTo
  <2>14. World(hand, stack', ret, h2)
    BY <1>2, <2>12, <2>13, FreeStep
  <2> QED
    BY <1>1, <2>14
<1> QED
  <2>1. x.c.o \in Cells \cup Statics
    BY <1>1, <1>3 DEF TopOf, IsFrame
  <2> QED
    BY <1>6, <1>7, <2>1

LEMMA DropOneKeeps ==
  ASSUME WorldInv, NEW t \in Threads, DropOne(t)
  PROVE  World(hand', stack', ret', heap')
<1> DEFINE x == Head(stack[t])  u == Tail(stack[t])  tk == TakenIn(stack)  r == ret[t]  q == Head(x.xs)  l == Tail(x.xs)
           z == q.o  h2 == Release(heap, z)  args == heap[z].args
<1>1. /\ stack[t] # <<>> /\ x.k = "drop" /\ hand' = hand /\ heap' = h2 /\ ret' = ret
  BY DEF DropOne, At, Top
<1>2. stack' = [stack EXCEPT ![t] = Drop((IF z # Null /\ heap[z].rc = 1 THEN args ELSE <<>>) \o l) \o u]
  BY DEF DropOne, Top, Goto, Under, Unique, Held
<1>3. World(hand, stack, ret, heap) /\ HeapOK(heap) /\ DOMAIN stack = Threads /\ DOMAIN ret = Threads
  BY DEF WorldInv, World
<1>4. TopOf(heap, tk, stack[t], x, u)
  BY <1>1, <1>3, TopIs
<1>5. Fit(stack[t], r) /\ (r # Nothing => Means(heap, tk, r))
  BY <1>3, ThreadIs
<1> HIDE DEF x, u, tk, r
<1>6. /\ stack[t] = <<x>> \o u /\ IsSeq(u) /\ Framed(u) /\ Sound(u) /\ IsFrame(x) /\ StackMeans(heap, tk, u)
      /\ ListMeans(heap, tk, x.xs) /\ \A i \in DOMAIN x.xs : Live(heap, x.xs[i])
  BY <1>1, <1>4 DEF TopOf
<1>7. Fit(u, r)
  BY <1>1, <1>5, <1>6, FitDrop
<1>8. IsList(x.xs) /\ IsSeq(x.xs) /\ x.xs # <<>> /\ x.c = Unit
  BY <1>1, <1>6 DEF IsFrame, IsList
<1>9. /\ Good(q) /\ IsList(l) /\ IsSeq(l) /\ Means(heap, tk, q) /\ ListMeans(heap, tk, l)
      /\ \A o : Count(x.xs, o) = One(q, o) + Count(l, o) /\ Count(l, o) \in Nat
  BY <1>6, <1>8, ListTail, MeansTail, CountTail, CountIs DEF IsList
<1>10. Live(heap, q)
  <2>1. Head(x.xs) = x.xs[1] /\ 1 \in DOMAIN x.xs
    BY <1>8, HeadTail, EmptyOr
  <2> QED
    BY <1>6, <2>1
<1>11. ShellsOf(stack[t]) = ShellsOf(u)
  BY <1>1, <1>6, ShellsCons
<1>12. \A o \in Atoms \cup Cells : /\ StackCount(stack[t], o) = One(q, o) + Count(l, o) + StackCount(u, o)
                                   /\ StackCount(u, o) \in Nat
  <2> SUFFICES ASSUME NEW o \in Atoms \cup Cells
               PROVE  StackCount(stack[t], o) = One(q, o) + Count(l, o) + StackCount(u, o) /\ StackCount(u, o) \in Nat
    OBVIOUS
  <2>1. One(x.c, o) = 0 /\ o \in Objects
    BY <1>8, ObjectsApart DEF One, Unit
  <2>2. StackCount(stack[t], o) = One(x.c, o) + Count(x.xs, o) + StackCount(u, o) /\ StackCount(u, o) \in Nat
    BY <1>6, <2>1, CountCons
  <2>3. Count(x.xs, o) = One(q, o) + Count(l, o) /\ Count(l, o) \in Nat /\ One(q, o) \in Nat
    BY <1>9 DEF One
  <2> HIDE DEF q, l
  <2> QED
    BY <2>1, <2>2, <2>3
<1>13. /\ z \in Objects \cup {Null} /\ (z \in Objects => z \notin tk) /\ (z # Null => heap[z].rc # 0)
  <2>1. z # Null => z \notin tk
    BY <1>9 DEF Means
  <2> QED
    BY <1>9, <1>10, <2>1, ObjectsApart DEF Good, IsRef, Live
<1> HIDE DEF q, l
<1>14. /\ \A p \in Objects \ {z} : h2[p] = heap[p]
       /\ z \in Statics => h2 = heap
       /\ z \in Atoms \cup Cells => h2[z].rc = heap[z].rc - 1
       /\ z \in Atoms \cup Cells /\ heap[z].rc = 1 => h2[z] = Unused
       /\ z \in Objects /\ heap[z].rc # 1 => h2[z].fn = heap[z].fn /\ h2[z].args = heap[z].args
       /\ HeapOK(h2)
  <2>1. z \in Atoms \cup Cells => heap[z].rc # 0
    BY <1>13, ObjectsApart
  <2> HIDE DEF z
  <2> QED
    BY <1>3, <1>13, <2>1, ReleaseIs
<1> HIDE DEF h2
<1>15. ASSUME ~(z # Null /\ heap[z].rc = 1)
       PROVE  World(hand, stack', ret, h2)
  <2> DEFINE s2 == Drop(l) \o u
  <2>1. stack' = [stack EXCEPT ![t] = s2]
    <3>1. <<>> \o l = l
      BY <1>9, JoinNone
    <3> QED
      BY <1>2, <1>15, <3>1
  <2>2. Sound(s2) /\ Fit(s2, r)
    BY <1>6, <1>7, <1>9, DropOn
  <2>3. /\ StackMeans(heap, tk, s2) /\ ShellsOf(s2) = ShellsOf(u)
        /\ \A o \in Objects : StackCount(s2, o) = Count(l, o) + StackCount(u, o)
    BY <1>6, <1>9, DropHolds
  <2> HIDE DEF s2
  <2>4. \A o \in Objects : h2[o].fn = heap[o].fn /\ h2[o].args = heap[o].args
    BY <1>13, <1>14, <1>15, ObjectsApart
  <2>5. \A c \in TakenIn(stack) : h2[c].rc = heap[c].rc
    BY <1>13, <1>14, ObjectsApart DEF tk, TakenIn
  <2>6. ASSUME NEW o \in Atoms \cup Cells
        PROVE  h2[o].rc + StackCount(stack[t], o) + One(ret[t], o) = heap[o].rc + StackCount(s2, o) + One(r, o)
    <3>1. o \in Objects /\ heap[o].rc \in Nat /\ One(r, o) \in Nat /\ h2[o].rc \in Nat
      BY <1>3, <1>14, ObjectsApart DEF HeapOK, ObjectOK, One
    <3>2. h2[o].rc = heap[o].rc - One(q, o) /\ One(q, o) \in Nat
      <4>1. CASE o = z
        BY <1>14, <4>1 DEF One, z
      <4>2. CASE o # z
        BY <1>14, <3>1, <4>2 DEF One, z
      <4> QED
        BY <4>1, <4>2
    <3>3. StackCount(stack[t], o) = One(q, o) + Count(l, o) + StackCount(u, o) /\ StackCount(u, o) \in Nat /\ Count(l, o) \in Nat
      BY <1>9, <1>12
    <3>4. StackCount(s2, o) = Count(l, o) + StackCount(u, o)
      BY <2>3, <3>1
    <3> QED
      BY <3>1, <3>2, <3>3, <3>4 DEF r
  <2>7. Moves(stack, ret, heap, t, s2, r, h2)
    BY <1>5, <1>11, <1>14, <2>2, <2>3, <2>4, <2>5, <2>6 DEF Moves, tk
  <2> QED
    BY <1>3, <2>1, <2>7, StackStep DEF r
<1>16. ASSUME z # Null, heap[z].rc = 1
       PROVE  World(hand, stack', ret, h2)
  <2> DEFINE w == args \o l  s2 == Drop(w) \o u
  <2>1. stack' = [stack EXCEPT ![t] = s2]
    BY <1>2, <1>16
  <2>2. z \in Objects /\ z \in Atoms \cup Cells
    <3>1. z \in Objects
      BY <1>13, <1>16
    <3>2. ObjectOK(z, heap[z])
      BY <1>3, <3>1 DEF HeapOK
    <3>3. z \notin Statics
      BY <1>16, <3>2 DEF ObjectOK, Immortal
    <3> QED
      BY <3>1, <3>3, ObjectsApart
  <2>3. Holds(heap, tk, q)
    BY <1>3, <1>9, <1>16, HeldIs DEF tk
  <2>4. IsList(args) /\ IsSeq(args) /\ ListMeans(heap, tk, args)
    BY <2>3 DEF Holds, IsList
  <2> HIDE DEF args
  <2>5. IsList(w) /\ ListMeans(heap, tk, w) /\ \A o : Count(w, o) = Count(args, o) + Count(l, o) /\ Count(args, o) \in Nat
    BY <1>9, <2>4, ListJoin, MeansJoin, CountJoin, CountIs
  <2> HIDE DEF w
  <2>6. Sound(s2) /\ Fit(s2, r)
    BY <1>6, <1>7, <2>5, DropOn
  <2>7. /\ StackMeans(heap, tk, s2) /\ ShellsOf(s2) = ShellsOf(u)
        /\ \A o \in Objects : StackCount(s2, o) = Count(w, o) + StackCount(u, o)
    BY <1>6, <2>5, DropHolds
  <2> HIDE DEF s2
  <2>8. ASSUME NEW o \in Atoms \cup Cells
        PROVE  h2[o].rc + StackCount(stack[t], o) + CellCount(TakenIn(stack), heap, z, o) = heap[o].rc + StackCount(s2, o)
    <3>1. o \in Objects /\ heap[o].rc \in Nat /\ h2[o].rc \in Nat
      BY <1>3, <1>14, ObjectsApart DEF HeapOK, ObjectOK
    <3>2. h2[o].rc = heap[o].rc - One(q, o) /\ One(q, o) \in Nat
      <4>1. CASE o = z
        BY <1>14, <4>1 DEF One, z
      <4>2. CASE o # z
        BY <1>14, <3>1, <4>2 DEF One, z
      <4> QED
        BY <4>1, <4>2
    <3>3. StackCount(stack[t], o) = One(q, o) + Count(l, o) + StackCount(u, o) /\ StackCount(u, o) \in Nat /\ Count(l, o) \in Nat
      BY <1>9, <1>12
    <3>4. StackCount(s2, o) = Count(w, o) + StackCount(u, o)
      BY <2>7, <3>1
    <3>5. CellCount(TakenIn(stack), heap, z, o) = Count(args, o)
      BY <1>13, <2>2, <2>4, CellIs DEF tk, args
    <3>6. Count(w, o) = Count(args, o) + Count(l, o) /\ Count(args, o) \in Nat
      BY <2>5
    <3> QED
      BY <3>1, <3>2, <3>3, <3>4, <3>5, <3>6
  <2>9. Frees(stack, ret, heap, t, z, s2, h2)
    BY <1>11, <1>14, <1>16, <2>2, <2>6, <2>7, <2>8 DEF Frees, tk, r
  <2>10. Changed(stack, stack', t, s2)
    BY <1>3, <2>1, ChangedTo
  <2> QED
    BY <1>3, <2>9, <2>10, FreeStep
<1>17. World(hand, stack', ret, h2)
  BY <1>15, <1>16
<1> QED
  BY <1>1, <1>17

(***************************************************************************)
(* The initial states.                                                     *)
(***************************************************************************)
LEMMA TakenIs == Taken = TakenIn(stack)
BY DEF Taken, TakenIn, Shells, ShellsOf

LEMMA ReferencesAre ==
  ASSUME NEW h, NEW o
  PROVE  References(h, o) = RefsIn(hand, stack, ret, h, o)
<1>1. [t \in Threads |-> Uses(t, o)] = ThreadRefs(hand, stack, ret, o)
  BY DEF Uses, ThreadRefs, UsesIn
<1>2. [c \in Cells |-> CellUses(h, c, o)] = HeapRefs(TakenIn(stack), h, o)
  BY TakenIs DEF CellUses, HeapRefs, CellRefs
<1> QED
  BY <1>1, <1>2 DEF References, RefsIn, Total

LEMMA AllEmpty ==
  ASSUME NEW f, \A x \in DOMAIN f : f[x] = {}
  PROVE  Total(f) = 0
<1>1. Tagged(f) = {}
  BY DEF Tagged
<1> QED
  BY <1>1, FS_EmptySet DEF Total

\* The heap that compiled code starts with, and who holds what of it.
Atom(a) == [o |-> a, v |-> [fn |-> a, args |-> <<>>]]
Starts(f, args, refs, made, hd, h) ==
  /\ f \in Fns /\ args \in Seq(Atoms) /\ Len(args) < Arity[f]
  /\ refs = [i \in DOMAIN args |-> Atom(args[i])]
  /\ made = [o \in Objects |-> IF o = First THEN [fn |-> f, args |-> refs, rc |-> 0] ELSE [fn |-> o, args |-> <<>>, rc |-> 0]]
  /\ DOMAIN hd = Threads
  /\ \A t \in Threads : /\ IsHand(hd[t])
                        /\ \A q \in DOMAIN hd[t] :
                             \/ \E a \in Atoms : q = Atom(a)
                             \/ q = [o |-> First, v |-> [fn |-> f, args |-> Values(refs)]]
  /\ References(made, First) # 0
  /\ DOMAIN h = Objects
  /\ \A o \in Objects : h[o] =
       IF o \in Statics THEN [fn |-> StaticClosures[o].fn, args |-> StaticClosures[o].args, rc |-> Immortal]
       ELSE IF References(made, o) = 0 THEN Unused
       ELSE [fn |-> made[o].fn, args |-> made[o].args, rc |-> References(made, o)]

LEMMA StartIs ==
  ASSUME Init
  PROVE  \E f, args, refs, made : Starts(f, args, refs, made, hand, heap)
<1>1. PICK c \in StartClosures, owned \in StartHands : Start(c.fn, c.args, owned)
  BY DEF Init
<1> DEFINE f == c.fn  args == c.args
           refs == [i \in DOMAIN args |-> Atom(args[i])]
           ref(o) == IF o = First THEN [o |-> o, v |-> [fn |-> f, args |-> Values(refs)]] ELSE Atom(o)
           made == [o \in Objects |-> IF o = First THEN [fn |-> f, args |-> refs, rc |-> 0]
                                      ELSE [fn |-> o, args |-> <<>>, rc |-> 0]]
<1>2. /\ hand = [t \in Threads |-> [r \in {ref(o) : o \in DOMAIN owned[t]} |-> owned[t][r.o]]]
      /\ References(made, First) > 0
      /\ heap = [o \in Objects |->
           IF o \in Statics THEN [fn |-> StaticClosures[o].fn, args |-> StaticClosures[o].args, rc |-> Immortal]
           ELSE IF References(made, o) = 0 THEN Unused
           ELSE [made[o] EXCEPT !.rc = References(made, o)]]
  BY <1>1 DEF Start, Atom
<1>3. f \in Fns /\ args \in Seq(Atoms) /\ Len(args) < Arity[f]
  BY StartConstants
<1>4. \A t \in Threads : /\ DOMAIN owned[t] \subseteq Atoms \cup {First} /\ IsFiniteSet(DOMAIN owned[t])
                         /\ \A o \in DOMAIN owned[t] : owned[t][o] \in Nat \ {0}
  BY StartConstants
<1>5. \A o : ref(o).o = o
  BY DEF Atom
<1> HIDE DEF f, args
<1>6. ASSUME NEW t \in Threads
      PROVE  /\ IsHand(hand[t])
             /\ \A q \in DOMAIN hand[t] : (\E a \in Atoms : q = Atom(a)) \/ q = [o |-> First, v |-> [fn |-> f, args |-> Values(refs)]]
  <2> DEFINE D == DOMAIN owned[t]  R == {ref(o) : o \in D}  b == hand[t]
  <2>1. b = [r \in R |-> owned[t][r.o]]
    BY <1>2
  <2>2. IsFiniteSet(R)
    <3>1. IsFiniteSet(D)
      BY <1>4
    <3> DEFINE g == [o \in D |-> ref(o)]
    <3>2. \A o \in D : g[o] = ref(o) /\ g[o].o = o
      BY <1>5
    <3>3. g \in [D -> R] /\ \A r \in R : \E o \in D : g[o] = r
      OBVIOUS
    <3> HIDE DEF g, D, R
    <3>4. \A x, y \in D : g[x] = g[y] => x = y
      BY ZenonT(30), <3>2
    <3> QED
      BY <3>1, <3>3, <3>4, SameSize
  <2>3. \A r \in R : r.o \in D /\ r = ref(r.o)
    BY <1>5
  <2> HIDE DEF R, b
  <2>4. DOMAIN b = R /\ b = [r \in DOMAIN b |-> b[r]] /\ \A r \in R : b[r] = owned[t][r.o]
    BY <2>1
  <2>5. \A r \in R : b[r] \in Nat \ {0}
    BY <1>4, <2>3, <2>4
  <2>6. \A r \in R : (\E a \in Atoms : r = Atom(a)) \/ r = [o |-> First, v |-> [fn |-> f, args |-> Values(refs)]]
    BY <1>4, <2>3
  <2>7. IsHand(b) /\ \A q \in DOMAIN b : (\E a \in Atoms : q = Atom(a)) \/ q = [o |-> First, v |-> [fn |-> f, args |-> Values(refs)]]
    BY <2>2, <2>4, <2>5, <2>6 DEF IsHand
  <2> QED
    BY <2>7 DEF b
<1>7. DOMAIN hand = Threads /\ DOMAIN heap = Objects /\ References(made, First) # 0
  BY <1>2
<1>8. ASSUME NEW o \in Objects
      PROVE  heap[o] = IF o \in Statics THEN [fn |-> StaticClosures[o].fn, args |-> StaticClosures[o].args, rc |-> Immortal]
                       ELSE IF References(made, o) = 0 THEN Unused
                       ELSE [fn |-> made[o].fn, args |-> made[o].args, rc |-> References(made, o)]
  <2> DEFINE n == References(made, o)  m == made[o]
  <2>1. heap[o] = IF o \in Statics THEN [fn |-> StaticClosures[o].fn, args |-> StaticClosures[o].args, rc |-> Immortal]
                  ELSE IF n = 0 THEN Unused ELSE [m EXCEPT !.rc = n]
    BY <1>2
  <2>2. m = IF o = First THEN [fn |-> f, args |-> refs, rc |-> 0] ELSE [fn |-> o, args |-> <<>>, rc |-> 0]
    OBVIOUS
  <2> HIDE DEF n
  <2>3. [m EXCEPT !.rc = n] = [fn |-> m.fn, args |-> m.args, rc |-> n]
    <3>1. CASE o = First
      BY <2>2, <3>1
    <3>2. CASE o # First
      BY <2>2, <3>2
    <3> QED
      BY <3>1, <3>2
  <2> QED
    BY <2>1, <2>3 DEF n
<1>9. Starts(f, args, refs, made, hand, heap)
  <2> DEFINE rf == refs  md == made
  <2>1. rf = [i \in DOMAIN args |-> Atom(args[i])]
        /\ md = [o \in Objects |-> IF o = First THEN [fn |-> f, args |-> rf, rc |-> 0] ELSE [fn |-> o, args |-> <<>>, rc |-> 0]]
    OBVIOUS
  <2>2. \A t \in Threads : /\ IsHand(hand[t])
                           /\ \A q \in DOMAIN hand[t] :
                                (\E a \in Atoms : q = Atom(a)) \/ q = [o |-> First, v |-> [fn |-> f, args |-> Values(rf)]]
    BY <1>6
  <2>3. \A o \in Objects : heap[o] =
                       IF o \in Statics THEN [fn |-> StaticClosures[o].fn, args |-> StaticClosures[o].args, rc |-> Immortal]
                       ELSE IF References(md, o) = 0 THEN Unused
                       ELSE [fn |-> md[o].fn, args |-> md[o].args, rc |-> References(md, o)]
    BY <1>8
  <2>4. References(md, First) # 0
    BY <1>7
  <2> HIDE DEF rf, md
  <2>5. Starts(f, args, rf, md, hand, heap)
    BY <1>3, <1>7, <2>1, <2>2, <2>3, <2>4 DEF Starts
  <2> QED
    BY <2>5 DEF rf, md
<1> QED
  BY <1>9

LEMMA StartWorld ==
  ASSUME Init
  PROVE  World(hand, stack, ret, heap)
<1>1. PICK f, args, refs, made : Starts(f, args, refs, made, hand, heap)
  BY StartIs
<1> DEFINE v1 == [fn |-> f, args |-> Values(refs)]  first == [o |-> First, v |-> v1]
<1>2. /\ f \in Fns /\ args \in Seq(Atoms) /\ Len(args) < Arity[f]
      /\ refs = [i \in DOMAIN args |-> Atom(args[i])]
      /\ made = [o \in Objects |-> IF o = First THEN [fn |-> f, args |-> refs, rc |-> 0] ELSE [fn |-> o, args |-> <<>>, rc |-> 0]]
      /\ DOMAIN hand = Threads
      /\ \A t \in Threads : IsHand(hand[t]) /\ \A q \in DOMAIN hand[t] : (\E a \in Atoms : q = Atom(a)) \/ q = first
      /\ References(made, First) # 0
      /\ DOMAIN heap = Objects
  BY <1>1 DEF Starts
<1>3. \A o \in Objects : heap[o] =
                       IF o \in Statics THEN [fn |-> StaticClosures[o].fn, args |-> StaticClosures[o].args, rc |-> Immortal]
                       ELSE IF References(made, o) = 0 THEN Unused
                       ELSE [fn |-> made[o].fn, args |-> made[o].args, rc |-> References(made, o)]
  BY <1>1 DEF Starts
<1>4. /\ DOMAIN stack = Threads /\ DOMAIN ret = Threads /\ \A t \in Threads : stack[t] = <<>> /\ ret[t] = Nothing
  BY DEF Init
<1>5. TakenIn(stack) = {}
  BY <1>4, EmptyStack DEF TakenIn
<1>6. First \in Cells /\ First \in Objects /\ First \notin Atoms /\ First \notin Statics /\ First # Null
  BY StartConstants, ObjectsApart
<1>7. /\ \A o \in Objects : made[o].fn = (IF o = First THEN f ELSE o) /\ made[o].args = (IF o = First THEN refs ELSE <<>>)
  BY <1>2
<1>8. IsSeq(args) /\ DOMAIN args = 1..Len(args) /\ Len(args) \in Nat /\ \A i \in DOMAIN args : args[i] \in Atoms
  BY <1>2, SeqIs DEF IsSeq
<1>9. ASSUME NEW a \in Atoms
      PROVE  Good(Atom(a)) /\ Atom(a).o = a /\ Atom(a).v = [fn |-> a, args |-> <<>>] /\ a \in Objects /\ a # Null /\ a # First
  <2>1. a \in Objects /\ a # Null /\ a \notin Fns /\ a # First
    BY <1>6, ClosureConstants, ObjectsApart
  <2>2. Atom(a).o = a /\ Atom(a).v = [fn |-> a, args |-> <<>>] /\ Atom(a) = [o |-> Atom(a).o, v |-> Atom(a).v]
    BY DEF Atom
  <2> QED
    BY <2>1, <2>2 DEF Good, IsRef, Sat
<1>10. IsSeq(refs) /\ Len(refs) = Len(args) /\ IsList(refs) /\ DOMAIN refs = DOMAIN args
  <2>1. refs = [i \in 1..Len(args) |-> Atom(args[i])]
    BY <1>2, <1>8
  <2>2. refs \in Seq({Atom(a) : a \in Atoms})
    BY <1>8, <2>1
  <2>3. IsSeq(refs) /\ Len(refs) = Len(args) /\ DOMAIN refs = DOMAIN args
    <3> DEFINE S == {Atom(a) : a \in Atoms}
    <3>1. refs \in Seq(S)
      BY <2>2
    <3> HIDE DEF S
    <3>2. IsSeq(refs)
      BY <3>1 DEF IsSeq
    <3>3. DOMAIN refs = 1..Len(args) /\ DOMAIN refs = 1..Len(refs) /\ Len(refs) \in Nat
      BY <2>1, <3>2, SeqIs
    <3>4. Len(refs) = Len(args)
      BY <1>8, <2>1
    <3> QED
      BY <1>8, <3>2, <3>3, <3>4
  <2>4. \A i \in DOMAIN refs : Good(refs[i])
    BY <1>2, <1>8, <1>9, <2>3
  <2> QED
    BY <2>3, <2>4 DEF IsList
<1>11. Good(first) /\ first.o = First /\ first.v = v1
  <2>1. Len(Values(refs)) = Len(args)
    BY <1>10, ValuesAre
  <2>2. Len(v1.args) = Len(args) /\ v1.fn = f /\ Len(args) # Arity[f]
    <3>1. Arity[f] \in Nat
      BY <1>2, ClosureConstants
    <3>2. Len(args) # Arity[f]
      BY <1>2, <1>8, <3>1
    <3> QED
      BY <2>1, <3>2
  <2> HIDE DEF v1
  <2>3. first.o = First /\ first.v = v1 /\ first = [o |-> first.o, v |-> first.v]
    OBVIOUS
  <2> HIDE DEF first
  <2> QED
    BY <1>6, <2>2, <2>3 DEF Good, IsRef, Sat
<1> HIDE DEF first, v1
<1>12. Shape(hand, stack, made)
  <2>1. \A c \in Cells : IsSeq(made[c].args)
    BY <1>7, <1>10, ObjectsApart, NoSeq
  <2>2. \A t \in Threads : IsStack(stack[t])
    BY <1>4, StackNone
  <2> QED
    BY <1>2, <2>1, <2>2 DEF Shape
<1>13. \A o : References(made, o) = RefsIn(hand, stack, ret, made, o)
  BY ReferencesAre
<1>14. ASSUME NEW t \in Threads, NEW q \in DOMAIN hand[t] PROVE References(made, q.o) # 0
  <2> SUFFICES ASSUME References(made, q.o) = 0 PROVE FALSE
    OBVIOUS
  <2> DEFINE o == q.o  n == Hold(hand[t], stack[t], ret[t], o)
  <2>1. RefsIn(hand, stack, ret, made, o) = 0
    BY <1>13
  <2>2. n <= RefsIn(hand, stack, ret, made, o)
    BY <1>12, RefsApart
  <2>3. IsHand(hand[t]) /\ IsStack(stack[t])
    BY <1>12 DEF Shape
  <2>4. n \in Nat
    BY <2>3, HoldIs
  <2> HIDE DEF n, o
  <2>5. n = 0
    BY <2>1, <2>2, <2>4
  <2>6. NoRefs(hand[t], stack[t], ret[t], o)
    BY <2>3, <2>5, HoldZero DEF n
  <2> QED
    BY <2>6 DEF NoRefs, o
<1>15. ASSUME NEW i \in DOMAIN refs PROVE References(made, refs[i].o) # 0
  <2> SUFFICES ASSUME References(made, refs[i].o) = 0 PROVE FALSE
    OBVIOUS
  <2> DEFINE o == refs[i].o
  <2>1. RefsIn(hand, stack, ret, made, o) = 0
    BY <1>13
  <2> HIDE DEF o
  <2>2. CellRefs(TakenIn(stack), made, First, o) = {}
    BY <1>6, <1>12, <2>1, CellRefsFit
  <2>3. Slots(refs, o) = {}
    BY <1>5, <1>6, <1>7, <2>2 DEF CellRefs
  <2> QED
    BY <2>3 DEF Slots, o
<1>16. ASSUME NEW c \in Cells \ {First} PROVE References(made, c) = 0
  <2>1. c \in Objects /\ c \notin Atoms /\ c # First
    BY ObjectsApart
  <2>2. \A t \in Threads : \A q \in DOMAIN hand[t] : q.o # c
    <3> SUFFICES ASSUME NEW t \in Threads, NEW q \in DOMAIN hand[t] PROVE q.o # c
      OBVIOUS
    <3>1. (\E a \in Atoms : q = Atom(a)) \/ q = first
      BY <1>2
    <3>2. ASSUME NEW a \in Atoms, q = Atom(a) PROVE q.o # c
      BY <1>9, <2>1, <3>2
    <3>3. ASSUME q = first PROVE q.o # c
      BY <1>11, <2>1, <3>3
    <3> QED
      BY <3>1, <3>2, <3>3
  <2>3. ASSUME NEW t \in Threads PROVE Hold(hand[t], stack[t], ret[t], c) = 0
    <3>1. HandCount(hand[t], c) = 0
      BY <2>2, AllEmpty DEF HandCount, HandFamily
    <3>2. StackCount(stack[t], c) = 0 /\ One(ret[t], c) = 0
      BY <1>4, <2>1, EmptyStack, NothingIs
    <3> QED
      BY <3>1, <3>2 DEF Hold
  <2>4. Total(ThreadRefs(hand, stack, ret, c)) = 0
    <3>1. ASSUME NEW t \in Threads PROVE UsesIn(hand[t], stack[t], ret[t], c) = {}
      <4>1. IsHand(hand[t]) /\ IsStack(stack[t])
        BY <1>12 DEF Shape
      <4>2. IsFiniteSet(UsesIn(hand[t], stack[t], ret[t], c)) /\ Cardinality(UsesIn(hand[t], stack[t], ret[t], c)) = 0
        BY <2>3, <4>1, HoldIs
      <4> QED
        BY <4>2, FS_EmptySet
    <3> QED
      BY <3>1, AllEmpty DEF ThreadRefs
  <2>5. Total(HeapRefs(TakenIn(stack), made, c)) = 0
    <3>1. ASSUME NEW d \in Cells PROVE CellRefs(TakenIn(stack), made, d, c) = {}
      <4>1. \A i \in DOMAIN refs : refs[i].o # c
        BY ZenonT(30), <1>2, <1>8, <1>9, <1>10, <2>1
      <4>2. made[d].args = refs \/ made[d].args = <<>>
        BY <1>7, ObjectsApart
      <4>3. Slots(made[d].args, c) = {}
        BY <4>1, <4>2, NoSeq DEF Slots
      <4> QED
        BY <4>3 DEF CellRefs
    <3> QED
      BY <3>1, AllEmpty DEF HeapRefs
  <2> QED
    BY <1>13, <2>4, <2>5 DEF RefsIn
<1>17. \A o : References(made, o) \in Nat
  BY <1>12, <1>13, FamiliesAre DEF RefsIn
<1>18. ASSUME NEW o \in Objects PROVE ObjectOK(o, heap[o])
  <2>1. CASE o \in Statics
    <3> DEFINE g == StaticClosures[o].fn  as == StaticClosures[o].args
    <3>1. heap[o] = [fn |-> g, args |-> as, rc |-> Immortal]
      BY <1>3, <2>1
    <3>2. g \in Fns /\ as \in Seq({Unit}) /\ Len(as) <= Arity[g]
      BY <2>1, StartConstants
    <3> HIDE DEF g, as
    <3>3. \A i \in DOMAIN as : as[i] = Unit
      <4> DEFINE S == {Unit}
      <4>1. as \in Seq(S) /\ \A y \in S : y = Unit
        BY <3>2
      <4> HIDE DEF S
      <4>2. \A i \in DOMAIN as : as[i] \in S
        <5>1. Len(as) \in Nat /\ DOMAIN as = 1..Len(as)
          BY <4>1, LenProperties
        <5> QED
          BY <4>1, <5>1, ElementOfSeq
      <4> QED
        BY <4>1, <4>2
    <3>4. IsList(as)
      BY <3>2, <3>3, UnitIs DEF IsList, IsSeq
    <3> DEFINE x == heap[o]
    <3>5. x = [fn |-> x.fn, args |-> x.args, rc |-> x.rc] /\ x.fn = g /\ x.args = as /\ x.rc = Immortal
      BY <3>1
    <3>6. o \notin Atoms /\ o \notin Cells
      BY <2>1, ObjectsApart
    <3> HIDE DEF x
    <3>7. ObjectOK(o, x)
      BY <3>2, <3>3, <3>4, <3>5, <3>6 DEF ObjectOK
    <3> QED
      BY <3>7 DEF x
  <2>2. CASE o \notin Statics /\ References(made, o) = 0
    <3>1. heap[o] = Unused
      BY <1>3, <2>2
    <3> QED
      BY <2>2, <3>1, UnusedOK, ObjectsApart
  <2>3. CASE o \notin Statics /\ References(made, o) # 0
    <3> DEFINE n == References(made, o)
    <3>1. heap[o] = [fn |-> made[o].fn, args |-> made[o].args, rc |-> n] /\ n \in Nat \ {0}
      BY <1>3, <1>17, <2>3
    <3> HIDE DEF n
    <3>2. CASE o = First
      <4>1. heap[o] = [fn |-> f, args |-> refs, rc |-> n]
        BY <1>7, <3>1, <3>2
      <4>2. Len(refs) <= Arity[f] /\ Len(refs) # Arity[f]
        BY <1>2, <1>8, <1>10, ClosureConstants
      <4> DEFINE x == heap[o]
      <4>3. x = [fn |-> x.fn, args |-> x.args, rc |-> x.rc] /\ x.fn = f /\ x.args = refs /\ x.rc = n /\ n \in Nat /\ n # 0
        BY <3>1, <4>1
      <4>4. f \in Fns /\ IsList(refs) /\ o \notin Atoms /\ o \notin Statics
        BY <1>2, <1>6, <1>10, <3>2
      <4> HIDE DEF x
      <4>5. ObjectOK(o, x)
        BY <4>2, <4>3, <4>4 DEF ObjectOK
      <4> QED
        BY <4>5 DEF x
    <3>3. CASE o # First
      <4>1. o \in Atoms
        BY <1>16, <2>3, <3>3, ObjectsApart
      <4>2. heap[o] = [fn |-> o, args |-> <<>>, rc |-> n] /\ o \notin Fns /\ o \notin Cells
        BY <1>7, <3>1, <3>3, <4>1, ClosureConstants, ObjectsApart
      <4> QED
        BY <2>3, <3>1, <4>1, <4>2, ListNone DEF ObjectOK
    <3> QED
      BY <3>2, <3>3
  <2> QED
    BY <2>1, <2>2, <2>3
<1>19. HeapOK(heap)
  BY <1>2, <1>18 DEF HeapOK
<1>20. ASSUME NEW c \in Cells PROVE heap[c].args = made[c].args
  <2>1. c \in Objects /\ c \notin Statics
    BY ObjectsApart
  <2>2. CASE c = First
    BY <1>2, <1>3, <2>1, <2>2
  <2>3. CASE c # First
    <3>1. heap[c] = Unused
      BY <1>3, <1>16, <2>1, <2>3
    <3> QED
      BY <1>7, <2>1, <2>3, <3>1 DEF Unused
  <2> QED
    BY <2>2, <2>3
<1>21. ASSUME NEW o PROVE RefsIn(hand, stack, ret, heap, o) = References(made, o)
  <2>1. \A c \in Cells : CellRefs(TakenIn(stack), heap, c, o) = CellRefs(TakenIn(stack), made, c, o)
    BY <1>20 DEF CellRefs
  <2>2. HeapRefs(TakenIn(stack), heap, o) = HeapRefs(TakenIn(stack), made, o)
    BY <2>1 DEF HeapRefs
  <2> QED
    BY <1>13, <2>2 DEF RefsIn
<1>22. ASSUME NEW o \in Atoms \cup Cells PROVE heap[o].rc = RefsIn(hand, stack, ret, heap, o)
  <2>1. o \in Objects /\ o \notin Statics
    BY ObjectsApart
  <2>2. heap[o].rc = References(made, o)
    <3>1. CASE References(made, o) = 0
      <4>1. heap[o] = Unused
        BY <1>3, <2>1, <3>1
      <4> QED
        BY <3>1, <4>1 DEF Unused
    <3>2. CASE References(made, o) # 0
      <4> DEFINE n == References(made, o)
      <4>1. heap[o] = [fn |-> made[o].fn, args |-> made[o].args, rc |-> n]
        BY <1>3, <2>1, <3>2
      <4> HIDE DEF n
      <4>2. heap[o].rc = n
        BY <4>1
      <4> QED
        BY <4>2 DEF n
    <3> QED
      BY <3>1, <3>2
  <2> QED
    BY <1>21, <2>2
<1>23. ASSUME NEW a \in Atoms, References(made, Atom(a).o) # 0 PROVE Means(heap, {}, Atom(a))
  <2>1. a \in Objects /\ a \notin Statics /\ a # Null /\ a # First /\ Atom(a).o = a /\ Atom(a).v = [fn |-> a, args |-> <<>>]
    BY <1>9, ObjectsApart
  <2>2. heap[a].fn = a /\ heap[a].args = <<>>
    <3> DEFINE n == References(made, a)
    <3>1. heap[a] = [fn |-> made[a].fn, args |-> made[a].args, rc |-> n]
      BY <1>3, <1>23, <2>1
    <3>2. made[a].fn = a /\ made[a].args = <<>>
      BY <1>7, <2>1
    <3> HIDE DEF n
    <3> QED
      BY <3>1, <3>2
  <2>3. Atom(a).v = [fn |-> heap[a].fn, args |-> Values(heap[a].args)]
    BY <2>1, <2>2, ValuesNone
  <2> QED
    BY <2>1, <2>3 DEF Means
<1>24. Means(heap, {}, first)
  <2>1. heap[First].fn = f /\ heap[First].args = refs
    BY <1>2, <1>3, <1>6, <1>7
  <2>2. first.v = [fn |-> heap[First].fn, args |-> Values(heap[First].args)]
    BY <1>11, <2>1 DEF v1
  <2> QED
    BY <1>6, <1>11, <2>2 DEF Means
<1>25. ASSUME NEW t \in Threads PROVE HandOK(hand[t]) /\ HandMeans(heap, {}, hand[t])
  <2>1. ASSUME NEW q \in DOMAIN hand[t] PROVE Good(q) /\ Means(heap, {}, q)
    <3>1. (\E a \in Atoms : q = Atom(a)) \/ q = first
      BY <1>2
    <3>2. ASSUME NEW a \in Atoms, q = Atom(a) PROVE Good(q) /\ Means(heap, {}, q)
      BY <1>9, <1>14, <1>23, <3>2
    <3>3. ASSUME q = first PROVE Good(q) /\ Means(heap, {}, q)
      BY <1>11, <1>24, <3>3
    <3> QED
      BY <3>1, <3>2, <3>3
  <2> QED
    BY <1>2, <2>1 DEF HandOK, HandMeans
<1>26. ASSUME NEW c \in Cells PROVE ListMeans(heap, {}, heap[c].args)
  <2>1. ListMeans(heap, {}, refs)
    <3> SUFFICES ASSUME NEW i \in DOMAIN refs PROVE Means(heap, {}, refs[i])
      BY DEF ListMeans
    <3>1. refs[i] = Atom(args[i]) /\ args[i] \in Atoms
      BY <1>2, <1>8, <1>10
    <3> QED
      BY <1>15, <1>23, <3>1
  <2>2. heap[c].args = refs \/ heap[c].args = <<>>
    BY <1>7, <1>20, ObjectsApart
  <2> QED
    BY <2>1, <2>2, MeansNone
<1>27. ASSUME NEW t \in Threads PROVE ThreadOK(heap, {}, hand[t], stack[t], ret[t])
  BY <1>4, <1>25, EmptyStack DEF ThreadOK
<1> QED
  BY <1>2, <1>4, <1>5, <1>19, <1>22, <1>26, <1>27 DEF World

(***************************************************************************)
(* The theorems.                                                           *)
(***************************************************************************)
LEMMA StepKeeps ==
  ASSUME WorldInv, NEW t \in Threads, Step(t)
  PROVE  WorldInv'
<1>1. CASE Copy(t)
  BY <1>1, CopyKeeps DEF WorldInv
<1>2. CASE Forget(t)
  BY <1>2, ForgetKeeps DEF WorldInv
<1>3. CASE Call(t)
  BY <1>3, CallKeeps DEF WorldInv
<1>4. CASE Finish(t)
  BY <1>4, FinishKeeps DEF WorldInv
<1>5. CASE ApplyClosure(t)
  BY <1>5, ApplyClosureKeeps DEF WorldInv
<1>6. CASE ApplyClosureN(t)
  BY <1>6, ApplyClosureNKeeps DEF WorldInv
<1>7. CASE ApplyMore(t)
  BY <1>7, ApplyMoreKeeps DEF WorldInv
<1>8. CASE GrowInPlace(t)
  BY <1>8, GrowInPlaceKeeps DEF WorldInv
<1>9. CASE GrowCopy(t)
  BY <1>9, GrowCopyKeeps DEF WorldInv
<1>10. CASE DropOne(t)
  BY <1>10, DropOneKeeps DEF WorldInv
<1>11. CASE Trampoline(t)
  BY <1>11, TrampolineKeeps DEF WorldInv
<1>12. CASE DropShell(t)
  BY <1>12, DropShellKeeps DEF WorldInv
<1>13. CASE BodyReturns(t)
  BY <1>13, BodyReturnsKeeps DEF WorldInv
<1>14. CASE BodyBuilds(t)
  BY <1>14, BodyBuildsKeeps DEF WorldInv
<1>15. CASE BodyApplies(t)
  BY <1>15, BodyAppliesKeeps DEF WorldInv
<1>16. CASE BodyResumes(t)
  BY <1>16, BodyResumesKeeps DEF WorldInv
<1> QED
  BY <1>1, <1>2, <1>3, <1>4, <1>5, <1>6, <1>7, <1>8, <1>9, <1>10, <1>11, <1>12, <1>13, <1>14, <1>15, <1>16 DEF Step

\* The inductive invariant: every reference means what its object holds and the
\* object owns its arguments; every count is the number of references; and each
\* stack has the shape that the calls and the tail calls give it.
THEOREM WorldHolds == Spec => []WorldInv
<1>1. Init => WorldInv
  BY StartWorld DEF WorldInv
<1>2. WorldInv /\ [Next]_vars => WorldInv'
  <2> SUFFICES ASSUME WorldInv, [Next]_vars PROVE WorldInv'
    OBVIOUS
  <2>1. CASE UNCHANGED vars
    BY <2>1 DEF WorldInv, vars
  <2>2. CASE \E t \in Threads : Step(t)
    BY <2>2, StepKeeps
  <2>3. CASE Stopped
    BY <2>1, <2>3 DEF Stopped
  <2> QED
    BY <2>1, <2>2, <2>3 DEF Next
<1> QED
  BY <1>1, <1>2, PTL DEF Spec

LEMMA AgreesIs ==
  ASSUME NEW r, Means(heap, TakenIn(stack), r), Live(heap, r)
  PROVE  Agrees(r)
BY TakenIs DEF Means, Live, Agrees

LEMMA WorldAgrees ==
  ASSUME WorldInv
  PROVE  ValuesPersist
<1>1. World(hand, stack, ret, heap)
  BY DEF WorldInv
<1>2. /\ \A t \in Threads : \A q \in DOMAIN hand[t] : Live(heap, q)
      /\ \A t \in Threads : \A i \in DOMAIN stack[t] : \A k \in DOMAIN FrameRefs(stack[t][i]) : Live(heap, FrameRefs(stack[t][i])[k])
      /\ \A t \in Threads : ret[t] # Nothing => Live(heap, ret[t])
      /\ \A c \in Cells \ TakenIn(stack) : \A i \in DOMAIN heap[c].args : Live(heap, heap[c].args[i])
  BY <1>1, WorldLive
<1>3. ASSUME NEW t \in Threads
      PROVE  /\ \A r \in DOMAIN hand[t] : Agrees(r)
             /\ ret[t] # Nothing => Agrees(ret[t])
             /\ \A i \in DOMAIN stack[t] \ Frames(t, "shell") :
                  \A j \in DOMAIN FrameRefs(stack[t][i]) : Agrees(FrameRefs(stack[t][i])[j])
             /\ \A i \in Frames(t, "body") :
                  Values(stack[t][i].xs) = stack[t][i].c.v.args /\ Len(stack[t][i].xs) = Arity[stack[t][i].c.v.fn]
  <2>1. /\ HandMeans(heap, TakenIn(stack), hand[t]) /\ StackMeans(heap, TakenIn(stack), stack[t])
        /\ (ret[t] # Nothing => Means(heap, TakenIn(stack), ret[t])) /\ Sound(stack[t])
    BY <1>1, ThreadIs
  <2>2. \A r \in DOMAIN hand[t] : Agrees(r)
    BY <1>2, <2>1, AgreesIs DEF HandMeans
  <2>3. ret[t] # Nothing => Agrees(ret[t])
    BY <1>2, <2>1, AgreesIs
  <2>4. ASSUME NEW i \in DOMAIN stack[t] \ Frames(t, "shell"), NEW j \in DOMAIN FrameRefs(stack[t][i])
        PROVE  Agrees(FrameRefs(stack[t][i])[j])
    <3>1. i \in DOMAIN stack[t] /\ stack[t][i].k # "shell"
      BY DEF Frames
    <3>2. Means(heap, TakenIn(stack), FrameRefs(stack[t][i])[j])
      BY <2>1, <3>1 DEF StackMeans, ListMeans
    <3> QED
      BY <1>2, <3>1, <3>2, AgreesIs
  <2>5. \A i \in Frames(t, "body") :
                  Values(stack[t][i].xs) = stack[t][i].c.v.args /\ Len(stack[t][i].xs) = Arity[stack[t][i].c.v.fn]
    <3>1. \A i \in Frames(t, "body") : i \in DOMAIN stack[t] /\ stack[t][i].k = "body"
      BY DEF Frames
    <3> QED
      BY <2>1, <3>1 DEF Sound, Framed, IsFrame
  <2> QED
    BY <2>2, <2>3, <2>4, <2>5
<1>4. ASSUME NEW c \in Cells \ Taken, NEW i \in DOMAIN heap[c].args
      PROVE  Agrees(heap[c].args[i])
  <2>1. c \in Cells \ TakenIn(stack)
    BY TakenIs
  <2>2. Means(heap, TakenIn(stack), heap[c].args[i])
    BY <1>1, <2>1 DEF World, ListMeans
  <2> QED
    BY <1>2, <2>1, <2>2, AgreesIs
<1> QED
  BY <1>3, <1>4 DEF ValuesPersist

\* A closure is a value: each reference that a thread, a frame or a closure has
\* denotes the function and the arguments that the program applied, whatever the
\* other holders of the same memory apply, copy, drop or run, and a function
\* runs on exactly the arguments applied.
THEOREM ValuesAlwaysPersist == Spec => []ValuesPersist
<1>1. WorldInv => ValuesPersist
  BY WorldAgrees
<1> QED
  BY <1>1, WorldHolds, PTL

\* Every count is the number of references there are, at every step of every
\* thread: nothing leaks, and nothing is freed while it is held or twice.
THEOREM CountsAlwaysExact == Spec => []CountsExact
<1>1. WorldInv => CountsExact
  <2> SUFFICES ASSUME WorldInv, NEW o \in Atoms \cup Cells PROVE heap[o].rc = References(heap, o)
    BY DEF CountsExact
  <2> QED
    BY ReferencesAre DEF WorldInv, World
<1> QED
  BY <1>1, WorldHolds, PTL

\* However many functions tail-call each other, a thread has one trampoline for
\* its call and one for each nested call that is not a tail call.
THEOREM StackAlwaysFlat == Spec => []StackFlat
<1>1. WorldInv => StackFlat
  <2> SUFFICES ASSUME WorldInv, NEW t \in Threads
               PROVE  Cardinality(Frames(t, "trampoline") \cup Frames(t, "apply")) <= 1 + Cardinality(Frames(t, "nested"))
    BY DEF StackFlat
  <2>1. IsSeq(stack[t]) /\ Flat(stack[t])
    BY ThreadIs DEF WorldInv, Sound, Framed
  <2>2. \A k : Frames(t, k) = KindAt(stack[t], k)
    BY DEF Frames, KindAt
  <2> QED
    BY <2>1, <2>2, FlatBound
<1> QED
  BY <1>1, WorldHolds, PTL
===============================================================================
