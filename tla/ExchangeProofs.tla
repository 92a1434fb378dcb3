---------------------------- MODULE ExchangeProofs ----------------------------
(***************************************************************************)
(* Proofs about the channel and the MVar of Exchange, for any number of    *)
(* threads, nodes and values: first the list of the channel, its wake-ups  *)
(* and the queue of values it makes; then the wake-ups of the MVar and the *)
(* values and updates in it; last, both in one program.                    *)
(***************************************************************************)
EXTENDS Exchange, SequenceTheorems, FiniteSetTheorems, WellFoundedInduction, TLAPS

TypesOK ==
  /\ head \in Node \cup {None} /\ tail \in Node \cup {None}
  /\ next \in [Node -> Node \cup {None}]
  /\ node \in [Thread -> Node \cup {None}]
  /\ pc \in [Thread -> {"out", "put", "get", "try", "timed", "expired", "free"}]
  /\ allocated \subseteq Node
  /\ value \in [Node -> Value \cup {None}]
  /\ got \in {<<>>} \cup {<<v>> : v \in Value}
  /\ waiters \subseteq {t \in Thread : pc[t] \in {"get", "timed"}}

(* A node outside the list belongs to the one thread that links or frees it.*)
OwnersOK ==
  /\ \A t \in Thread : node[t] # None <=> pc[t] \in {"put", "free"}
  /\ \A t \in Thread : node[t] # None => node[t] \in allocated
  /\ \A t \in Thread : pc[t] = "put" => next[node[t]] = None /\ value[node[t]] \in Value
  /\ \A t, u \in Thread : node[t] # None /\ node[t] = node[u] => t = u

(* The nodes of the channel, from head to tail.                             *)
List(l) ==
  /\ l \in Seq(Node) /\ Chain(l)
  /\ tail = IF l = <<>> THEN None ELSE l[Len(l)]
  /\ \A i, j \in 1..Len(l) : l[i] = l[j] => i = j
  /\ \A i \in 1..Len(l) : l[i] \in allocated /\ value[l[i]] \in Value
  /\ \A i \in 1..Len(l) : \A t \in Thread : node[t] # l[i]

(* As long as a thread waits, every node has a getter on its way.           *)
Coming    == {t \in Thread : Getting(t)}
Served(l) == waiters # {} => Len(l) <= Cardinality(Coming)

(* No node is lost.                                                         *)
Covered(l) ==
  \A n \in allocated : (\E i \in 1..Len(l) : n = l[i]) \/ \E t \in Thread : n = node[t]

ListOK(l) == List(l) /\ Served(l) /\ Covered(l)
IInv == TypesOK /\ OwnersOK /\ \E l : ListOK(l)

-----------------------------------------------------------------------------
LEMMA ComingFinite ==
  ASSUME NEW A \in SUBSET Thread
  PROVE  IsFiniteSet(A) /\ Cardinality(A) \in Nat
  BY FiniteAssumption, FS_Subset, FS_CardinalityType

LEMMA Larger ==
  ASSUME NEW A \in SUBSET Thread, NEW B \in SUBSET A
  PROVE  Cardinality(B) <= Cardinality(A)
  BY ComingFinite, FS_Subset

LEMMA OneMore ==
  ASSUME NEW A \in SUBSET Thread, NEW B \in SUBSET A, NEW t \in A, t \notin B
  PROVE  Cardinality(B) + 1 <= Cardinality(A)
<1>1. Cardinality(B \cup {t}) = Cardinality(B) + 1
  BY ComingFinite, FS_AddElement
<1>2. Cardinality(B \cup {t}) <= Cardinality(A)
  BY Larger
<1> QED
  BY <1>1, <1>2

LEMMA ListEmpty ==
  ASSUME NEW l, List(l)
  PROVE  /\ Len(l) \in Nat
         /\ head = None <=> l = <<>>
         /\ l = <<>> <=> Len(l) = 0
  BY NoneAssumption, ElementOfSeq DEF List, Chain

(* A step that neither touches the list nor sends a getter off it.          *)
LEMMA ListSame ==
  ASSUME NEW l, List(l), Served(l), UNCHANGED <<head, tail>>,
         \A i \in 1..Len(l) : next'[l[i]] = next[l[i]] /\ value'[l[i]] = value[l[i]] /\ l[i] \in allocated',
         \A i \in 1..Len(l) : \A t \in Thread : node'[t] # l[i],
         waiters' # {} => waiters # {} \/ Len(l) = 0,
         Len(l) = 0 \/ Coming \subseteq Coming'
  PROVE  List(l)' /\ Served(l)'
<1>1. Len(l) \in Nat
  BY ListEmpty
<1>2. List(l)'
  BY <1>1 DEF List, Chain
<1>3. Coming \subseteq Thread /\ Coming' \subseteq Thread
  BY DEF Coming
<1>4. Cardinality(Coming) \in Nat /\ Cardinality(Coming') \in Nat
  BY <1>3, ComingFinite
<1>5. CASE Len(l) = 0
  BY <1>2, <1>4, <1>5 DEF Served
<1>6. CASE Len(l) # 0
  <2>1. Cardinality(Coming) <= Cardinality(Coming')
    BY <1>3, <1>6, Larger
  <2> QED
    BY <1>1, <1>2, <1>4, <1>6, <2>1 DEF Served
<1> QED
  BY <1>5, <1>6

-----------------------------------------------------------------------------
LEMMA StartPutStep ==
  ASSUME IInv, NEW l, ListOK(l), NEW t \in Thread, NEW n \in Node, NEW v \in Value, StartPut(t, n, v)
  PROVE  TypesOK' /\ OwnersOK' /\ ListOK(l)' /\ \A i \in 1..Len(l) : value'[l[i]] = value[l[i]]
<1>1. /\ pc[t] = "out" /\ n \notin allocated /\ allocated' = allocated \cup {n}
      /\ next' = [next EXCEPT ![n] = None] /\ node' = [node EXCEPT ![t] = n]
      /\ pc' = [pc EXCEPT ![t] = "put"] /\ value' = [value EXCEPT ![n] = v]
      /\ UNCHANGED <<head, tail, waiters, got>>
  BY DEF StartPut
<1>2. TypesOK'
  BY <1>1 DEF IInv, TypesOK
<1>3. OwnersOK'
  BY <1>1, NoneAssumption DEF IInv, TypesOK, OwnersOK
<1>4. List(l) /\ Served(l) /\ Covered(l)
  BY DEF ListOK
<1>5. \A i \in 1..Len(l) : l[i] \in Node /\ l[i] \in allocated /\ l[i] # n
  BY <1>1, <1>4, ElementOfSeq DEF List, Chain
<1>6. Coming \subseteq Coming'
  BY <1>1 DEF Coming, Getting, IInv, TypesOK
<1>7. \A i \in 1..Len(l) : \A u \in Thread : node'[u] # l[i]
  BY <1>1, <1>4, <1>5 DEF List, Chain, IInv, TypesOK
<1>8. \A i \in 1..Len(l) : next'[l[i]] = next[l[i]] /\ value'[l[i]] = value[l[i]] /\ l[i] \in allocated'
  BY <1>1, <1>5 DEF IInv, TypesOK
<1>9. List(l)' /\ Served(l)'
  BY <1>1, <1>4, <1>6, <1>7, <1>8, ListSame
<1>10. Covered(l)'
  <2>1. node[t] = None /\ \A m \in allocated : m # None
    BY <1>1, NoneAssumption DEF IInv, OwnersOK, TypesOK
  <2>2. node'[t] = n /\ \A u \in Thread : node[u] # None => node'[u] = node[u]
    BY <1>1, <2>1 DEF IInv, TypesOK
  <2> QED
    BY <1>1, <1>4, <2>1, <2>2 DEF Covered
<1> QED
  BY <1>2, <1>3, <1>8, <1>9, <1>10 DEF ListOK

(* Linking a node: the list grows by it, and a waiter, if any, is woken.    *)
LEMMA PutStep ==
  ASSUME IInv, NEW l, ListOK(l), NEW t \in Thread, Put(t), NEW n, n = node[t]
  PROVE  /\ TypesOK' /\ OwnersOK' /\ ListOK(Append(l, n))'
         /\ n \in Node /\ value[n] \in Value /\ value' = value /\ got' = got
<1>1. /\ pc[t] = "put" /\ tail' = n /\ Signal
      /\ node' = [node EXCEPT ![t] = None] /\ pc' = [pc EXCEPT ![t] = "out"]
      /\ IF tail # None THEN next' = [next EXCEPT ![tail] = n] /\ head' = head
                        ELSE head' = n /\ next' = next
      /\ UNCHANGED <<allocated, value, got>>
  BY DEF Put
<1>2. n \in Node /\ n \in allocated /\ next[n] = None /\ n # None /\ value[n] \in Value
      /\ \A u \in Thread : node[u] = n => u = t
  BY <1>1, NoneAssumption DEF IInv, OwnersOK, TypesOK
<1>3. List(l) /\ Served(l) /\ Covered(l)
  BY DEF ListOK
<1>4. /\ l \in Seq(Node) /\ Len(l) \in Nat /\ \A i \in 1..Len(l) : l[i] \in Node /\ l[i] # n
      /\ l = <<>> <=> Len(l) = 0
      /\ tail # None <=> l # <<>>
      /\ l # <<>> => tail = l[Len(l)] /\ Len(l) \in 1..Len(l)
  BY <1>3, NoneAssumption, ElementOfSeq, EmptySeq DEF List, Chain
<1> DEFINE m == Append(l, n)
<1>5. /\ m \in Seq(Node) /\ Len(m) = Len(l) + 1 /\ m[Len(l) + 1] = n
      /\ \A i \in 1..Len(l) : m[i] = l[i]
  BY <1>2, <1>4, AppendProperties
<1> HIDE DEF m
<1>6. \A i \in 1..Len(m) : i \in 1..Len(l) \/ i = Len(l) + 1
  BY <1>4, <1>5
<1>7. /\ \A i \in 1..Len(l) : next'[l[i]] = IF i = Len(l) THEN n ELSE l[i + 1]
      /\ next'[n] = None
  <2>1. CASE l = <<>>
    BY <1>1, <1>2, <1>4, <2>1
  <2>2. CASE l # <<>>
    <3>1. next' = [next EXCEPT ![l[Len(l)]] = n] /\ next \in [Node -> Node \cup {None}]
      BY <1>1, <1>4, <2>2 DEF IInv, TypesOK
    <3>2. \A i \in 1..Len(l) : i # Len(l) => l[i] # l[Len(l)] /\ next[l[i]] = l[i + 1]
      BY <1>3, <1>4, <2>2 DEF List, Chain
    <3>3. n # l[Len(l)] /\ l[Len(l)] \in Node /\ n \in Node
      BY <1>2, <1>4, <2>2
    <3>4. next'[n] = None
      BY <1>2, <3>1, <3>3
    <3>5. ASSUME NEW i \in 1..Len(l) PROVE next'[l[i]] = IF i = Len(l) THEN n ELSE l[i + 1]
      <4>1. CASE i = Len(l)
        BY <3>1, <3>3, <4>1
      <4>2. CASE i # Len(l)
        BY <1>4, <3>1, <3>2, <4>2
      <4> QED
        BY <4>1, <4>2
    <3> QED
      BY <3>4, <3>5
  <2> QED
    BY <2>1, <2>2
<1>8. head' = m[1] /\ tail' = m[Len(m)]
  BY <1>1, <1>3, <1>4, <1>5 DEF List, Chain
<1>9. List(m)'
  <2>1. \A i \in 1..Len(m) : i < Len(m) => next'[m[i]] = m[i + 1]
    BY <1>4, <1>5, <1>6, <1>7
  <2>2. \A i, j \in 1..Len(m) : m[i] = m[j] => i = j
    BY <1>3, <1>4, <1>5, <1>6 DEF List, Chain
  <2>3. \A i \in 1..Len(m) : m[i] \in allocated' /\ value'[m[i]] \in Value
    BY <1>1, <1>2, <1>3, <1>5, <1>6 DEF List, Chain
  <2>4. \A i \in 1..Len(m) : \A u \in Thread : node'[u] # m[i]
    <3>1. \A u \in Thread : node'[u] = IF u = t THEN None ELSE node[u]
      BY <1>1 DEF IInv, TypesOK
    <3>2. \A u \in Thread : node'[u] # n
      BY <1>2, <3>1
    <3>3. \A i \in 1..Len(l) : \A u \in Thread : node'[u] # l[i]
      BY <1>3, <1>4, <3>1, NoneAssumption DEF List, Chain
    <3> QED
      BY <1>5, <1>6, <3>2, <3>3
  <2>5. next'[m[Len(m)]] = None /\ m # <<>>
    BY <1>4, <1>5, <1>7
  <2> QED
    BY <1>5, <1>8, <2>1, <2>2, <2>3, <2>4, <2>5 DEF List, Chain
<1>10. waiters = {} => waiters' = {}
  BY <1>1 DEF Signal
<1>11. ASSUME waiters # {} PROVE \E w \in waiters : waiters' = waiters \ {w}
  BY <1>1, <1>11 DEF Signal
<1>12. Served(m)'
  <2> SUFFICES ASSUME waiters' # {} PROVE Len(m) <= Cardinality(Coming')
    BY DEF Served
  <2>1. PICK w \in waiters : waiters' = waiters \ {w}
    BY <1>10, <1>11
  <2>2. /\ w \in Coming' /\ w \notin Coming /\ Coming \subseteq Coming'
        /\ Coming \subseteq Thread /\ Coming' \subseteq Thread
    BY <1>1, <2>1 DEF Coming, Getting, IInv, TypesOK
  <2>3. Cardinality(Coming) + 1 <= Cardinality(Coming')
    BY <2>2, OneMore
  <2>4. Len(l) <= Cardinality(Coming)
    BY <1>3, <2>1 DEF Served
  <2>5. Cardinality(Coming) \in Nat /\ Cardinality(Coming') \in Nat
    BY <2>2, ComingFinite
  <2> QED
    BY <1>4, <1>5, <2>3, <2>4, <2>5
<1>13. TypesOK'
  <2>1. waiters' \subseteq waiters
    BY <1>10, <1>11
  <2>2. head' \in Node \cup {None} /\ tail' \in Node \cup {None} /\ next' \in [Node -> Node \cup {None}]
    BY <1>1, <1>2 DEF IInv, TypesOK
  <2> QED
    BY <1>1, <2>1, <2>2 DEF IInv, TypesOK
<1>15. Covered(m)'
  <2>1. \A u \in Thread : node'[u] = IF u = t THEN None ELSE node[u]
    BY <1>1 DEF IInv, TypesOK
  <2>2. ASSUME NEW x \in allocated'
        PROVE  (\E i \in 1..Len(m) : x = m[i]) \/ \E u \in Thread : x = node'[u]
    <3>1. CASE x = n
      BY <1>4, <1>5, <3>1
    <3>2. CASE x # n /\ \E i \in 1..Len(l) : x = l[i]
      BY <1>4, <1>5, <3>2
    <3>3. CASE x # n /\ \E u \in Thread : x = node[u]
      BY <2>1, <3>3
    <3> QED
      BY <1>1, <1>3, <2>2, <3>1, <3>2, <3>3 DEF Covered
  <2> QED
    BY <2>2 DEF Covered
<1>14. OwnersOK'
  <2>1. \A u \in Thread : node'[u] = (IF u = t THEN None ELSE node[u])
                          /\ pc'[u] = (IF u = t THEN "out" ELSE pc[u])
    BY <1>1 DEF IInv, TypesOK
  <2>2. \A u \in Thread : pc'[u] = "put" => next'[node'[u]] = None /\ value'[node'[u]] \in Value
    <3> SUFFICES ASSUME NEW u \in Thread, pc'[u] = "put"
                 PROVE  next'[node'[u]] = None /\ value'[node'[u]] \in Value
      OBVIOUS
    <3>1. /\ u # t /\ node'[u] = node[u] /\ pc[u] = "put" /\ next[node[u]] = None /\ node[u] \in Node
          /\ value[node[u]] \in Value
      BY <2>1 DEF IInv, OwnersOK, TypesOK
    <3>2. \A i \in 1..Len(l) : l[i] # node[u]
      BY <1>3 DEF List, Chain
    <3>3. tail # node[u]
      BY <1>4, <3>1, <3>2, NoneAssumption
    <3> QED
      BY <1>1, <3>1, <3>3 DEF IInv, TypesOK
  <2> QED
    BY <1>1, <2>1, <2>2 DEF IInv, OwnersOK
<1> QED
  BY <1>1, <1>2, <1>9, <1>12, <1>13, <1>14, <1>15 DEF ListOK, m

(* Unlinking one: the list loses it, and a getter has got on.               *)
LEMMA UnlinkStep ==
  ASSUME IInv, NEW l, ListOK(l), NEW t \in Thread, Unlink(t)
  PROVE  /\ TypesOK' /\ OwnersOK' /\ l # <<>> /\ ListOK(Tail(l))'
         /\ value' = value /\ got' = <<value[l[1]]>>
<1>1. PICK h : h = head
  OBVIOUS
<1>2. /\ Getting(t) /\ h # None /\ head' = next[h]
      /\ tail' = IF next[h] = None THEN None ELSE tail
      /\ node' = [node EXCEPT ![t] = h] /\ pc' = [pc EXCEPT ![t] = "free"]
      /\ got' = <<value[h]>> /\ UNCHANGED <<next, value, allocated, waiters>>
  BY <1>1 DEF Unlink
<1>3. List(l) /\ Served(l) /\ Covered(l)
  BY DEF ListOK
<1>4. /\ l \in Seq(Node) /\ Len(l) \in Nat /\ l # <<>> /\ Len(l) >= 1 /\ h = l[1]
      /\ \A i \in 1..Len(l) : l[i] \in Node
      /\ 1 \in 1..Len(l)
  BY <1>1, <1>2, <1>3, ElementOfSeq, EmptySeq DEF List, Chain
<1>5. h \in Node /\ h \in allocated /\ value[h] \in Value /\ (\A u \in Thread : node[u] # h)
  BY <1>3, <1>4 DEF List, Chain
<1> DEFINE m == Tail(l)
<1>6. m \in Seq(Node) /\ Len(m) = Len(l) - 1 /\ \A i \in 1..Len(m) : m[i] = l[i + 1] /\ i + 1 \in 1..Len(l)
  BY <1>4
<1> HIDE DEF m
<1>7. \A i \in 1..Len(m) : m[i] # h /\ m[i] \in Node
  <2> SUFFICES ASSUME NEW i \in 1..Len(m) PROVE m[i] # h /\ m[i] \in Node
    OBVIOUS
  <2>1. m[i] = l[i + 1] /\ i + 1 \in 1..Len(l) /\ i + 1 # 1
    BY <1>4, <1>6
  <2> QED
    BY <1>3, <1>4, <2>1 DEF List, Chain
<1>8. \A u \in Thread : node'[u] = (IF u = t THEN h ELSE node[u])
                        /\ pc'[u] = (IF u = t THEN "free" ELSE pc[u])
  BY <1>2 DEF IInv, TypesOK
<1>9. /\ m = <<>> => next[h] = None
      /\ m # <<>> => Len(m) \in 1..Len(m) /\ next[h] = m[1] /\ m[1] # None /\ tail = m[Len(m)]
                     /\ next[m[Len(m)]] = None
  <2>1. CASE m = <<>>
    <3>1. Len(l) = 1
      BY <1>4, <1>6, <2>1
    <3> QED
      BY <1>3, <1>4, <2>1, <3>1 DEF List, Chain
  <2>2. CASE m # <<>>
    <3>1. Len(m) >= 1 /\ Len(m) \in 1..Len(m) /\ 1 \in 1..Len(m) /\ Len(l) >= 2
      BY <1>4, <1>6, <2>2, EmptySeq
    <3>2. m[1] = l[2] /\ m[Len(m)] = l[Len(l)]
      BY <1>4, <1>6, <3>1
    <3>3. next[h] = l[2]
      BY <1>3, <1>4, <3>1 DEF List, Chain
    <3> QED
      BY <1>3, <1>4, <1>7, <2>2, <3>1, <3>2, <3>3, NoneAssumption DEF List, Chain
  <2> QED
    BY <2>1, <2>2
<1>10. List(m)'
  <2>1. \A i \in 1..Len(m) : i < Len(m) => next'[m[i]] = m[i + 1]
    <3> SUFFICES ASSUME NEW i \in 1..Len(m), i < Len(m) PROVE next[m[i]] = m[i + 1]
      BY <1>2
    <3>1. i + 1 \in 1..Len(m) /\ i + 1 < Len(l) /\ i + 1 \in 1..Len(l)
      BY <1>4, <1>6
    <3>2. m[i] = l[i + 1] /\ m[i + 1] = l[i + 1 + 1]
      BY <1>6, <3>1
    <3> QED
      BY <1>3, <3>1, <3>2 DEF List, Chain
  <2>2. \A i, j \in 1..Len(m) : m[i] = m[j] => i = j
    <3> SUFFICES ASSUME NEW i \in 1..Len(m), NEW j \in 1..Len(m), m[i] = m[j] PROVE i = j
      OBVIOUS
    <3>1. i + 1 \in 1..Len(l) /\ j + 1 \in 1..Len(l) /\ l[i + 1] = l[j + 1]
      BY <1>6
    <3>2. i + 1 = j + 1
      BY <1>3, <3>1 DEF List, Chain
    <3> QED
      BY <3>2
  <2>3. \A i \in 1..Len(m) : m[i] \in allocated' /\ value'[m[i]] \in Value
    BY <1>2, <1>3, <1>6 DEF List, Chain
  <2>4. \A i \in 1..Len(m) : \A u \in Thread : node'[u] # m[i]
    BY <1>3, <1>6, <1>7, <1>8 DEF List, Chain
  <2>5. /\ m = <<>> => head' = None /\ tail' = None
        /\ m # <<>> => head' = m[1] /\ tail' = m[Len(m)] /\ next'[m[Len(m)]] = None
    BY <1>2, <1>9
  <2> QED
    BY <1>6, <2>1, <2>2, <2>3, <2>4, <2>5 DEF List, Chain
<1>11. Served(m)'
  <2> SUFFICES ASSUME waiters # {} PROVE Len(m) <= Cardinality(Coming')
    BY <1>2 DEF Served
  <2>1. Coming' = Coming \ {t} /\ t \in Coming /\ Coming \subseteq Thread
    BY <1>2, <1>8 DEF Coming, Getting
  <2>2. Cardinality(Coming') = Cardinality(Coming) - 1 /\ Cardinality(Coming) \in Nat
    BY <2>1, ComingFinite, FS_RemoveElement
  <2>3. Len(l) <= Cardinality(Coming)
    BY <1>3 DEF Served
  <2> QED
    BY <1>4, <1>6, <2>2, <2>3
<1>12. TypesOK'
  <2>1. waiters' \subseteq {u \in Thread : pc'[u] \in {"get", "timed"}}
    BY <1>2, <1>8 DEF IInv, TypesOK, Getting
  <2> QED
    BY <1>2, <1>5, <2>1 DEF IInv, TypesOK
<1>13. OwnersOK'
  BY <1>2, <1>5, <1>8 DEF IInv, OwnersOK, Getting
<1>14. Covered(m)'
  <2>1. ASSUME NEW x \in allocated'
        PROVE  (\E i \in 1..Len(m) : x = m[i]) \/ \E u \in Thread : x = node'[u]
    <3>1. CASE x = h
      BY <1>8, <3>1
    <3>2. ASSUME x # h, NEW i \in 1..Len(l), x = l[i]
          PROVE  \E j \in 1..Len(m) : x = m[j]
      <4>1. i # 1 /\ i - 1 \in 1..Len(m) /\ m[i - 1] = l[i]
        BY <1>4, <1>6, <3>2
      <4> QED
        BY <3>2, <4>1
    <3>3. ASSUME x # h, NEW u \in Thread, x = node[u]
          PROVE  x = node'[u]
      <4>1. node[t] = None /\ x # None
        BY <1>2, <2>1, NoneAssumption DEF IInv, OwnersOK, TypesOK, Getting
      <4> QED
        BY <1>8, <3>3, <4>1
    <3> QED
      BY <1>2, <1>3, <2>1, <3>1, <3>2, <3>3 DEF Covered
  <2> QED
    BY <2>1 DEF Covered
<1> QED
  BY <1>2, <1>4, <1>10, <1>11, <1>12, <1>13, <1>14 DEF ListOK, m

(* The freed node was nobody else's.                                        *)
LEMMA FreeStep ==
  ASSUME IInv, NEW l, ListOK(l), NEW t \in Thread, Free(t)
  PROVE  TypesOK' /\ OwnersOK' /\ ListOK(l)' /\ \A i \in 1..Len(l) : value'[l[i]] = value[l[i]]
<1>1. PICK n : n = node[t]
  OBVIOUS
<1>2. /\ pc[t] = "free" /\ allocated' = allocated \ {n}
      /\ node' = [node EXCEPT ![t] = None] /\ pc' = [pc EXCEPT ![t] = "out"]
      /\ value' = [value EXCEPT ![n] = None] /\ UNCHANGED <<head, tail, next, waiters, got>>
  BY <1>1 DEF Free
<1>3. n # None /\ \A u \in Thread : node[u] = n => u = t
  BY <1>1, <1>2 DEF IInv, OwnersOK
<1>4. \A u \in Thread : node'[u] = (IF u = t THEN None ELSE node[u])
                        /\ pc'[u] = (IF u = t THEN "out" ELSE pc[u])
  BY <1>2 DEF IInv, TypesOK
<1>5. TypesOK' /\ OwnersOK'
  <2>1. TypesOK'
    BY <1>2, <1>4 DEF IInv, TypesOK
  <2>2. OwnersOK'
    BY <1>2, <1>3, <1>4 DEF IInv, OwnersOK
  <2> QED
    BY <2>1, <2>2
<1>6. List(l) /\ Served(l) /\ Covered(l)
  BY DEF ListOK
<1>7. \A i \in 1..Len(l) : l[i] \in allocated' /\ value'[l[i]] = value[l[i]] /\ \A u \in Thread : node'[u] # l[i]
  <2>1. \A i \in 1..Len(l) : l[i] # None /\ l[i] # n /\ l[i] \in Node
    BY <1>1, <1>6, NoneAssumption, ElementOfSeq DEF List
  <2> QED
    BY <1>1, <1>2, <1>4, <1>6, <2>1 DEF List, IInv, TypesOK
<1>8. Coming \subseteq Coming'
  BY <1>2, <1>4 DEF Coming, Getting
<1>9. List(l)' /\ Served(l)'
  BY <1>2, <1>6, <1>7, <1>8, ListSame
<1>10. Covered(l)'
  BY <1>1, <1>2, <1>4, <1>6 DEF Covered
<1> QED
  BY <1>5, <1>7, <1>9, <1>10 DEF ListOK

(* The steps that touch neither nodes nor list.                             *)
LEMMA OtherSteps ==
  ASSUME IInv, NEW l, ListOK(l), NEW t \in Thread,
         \/ Wait(t) \/ GiveUp(t) \/ Expire(t) \/ Spurious(t)
         \/ \E kind \in {"get", "try", "timed"} : StartGet(t, kind)
  PROVE  TypesOK' /\ OwnersOK' /\ ListOK(l)' /\ value' = value /\ got' = got
<1>1. UNCHANGED <<head, tail, next, node, value, allocated, got>>
  BY DEF Wait, GiveUp, Expire, Spurious, StartGet
<1>2. List(l) /\ Served(l) /\ Covered(l)
  BY DEF ListOK
<1>3. \A i \in 1..Len(l) : l[i] \in allocated' /\ \A u \in Thread : node'[u] # l[i]
  BY <1>1, <1>2 DEF List, Chain
<1>10. Covered(l)'
  BY <1>1, <1>2 DEF Covered
<1>4. Len(l) = 0 <=> head = None
  BY <1>2, ListEmpty
<1>5. CASE Wait(t)
  <2>1. TypesOK' /\ OwnersOK'
    BY <1>5 DEF Wait, Getting, IInv, TypesOK, OwnersOK
  <2>2. Len(l) = 0
    BY <1>4, <1>5 DEF Wait
  <2>3. List(l)' /\ Served(l)'
    BY <1>1, <1>2, <1>3, <2>2, ListSame
  <2> QED
    BY <1>1, <1>10, <2>1, <2>3 DEF ListOK
<1>6. CASE GiveUp(t)
  <2>1. TypesOK' /\ OwnersOK'
    BY <1>6 DEF GiveUp, Getting, IInv, TypesOK, OwnersOK
  <2>2. Len(l) = 0
    BY <1>4, <1>6 DEF GiveUp
  <2>3. List(l)' /\ Served(l)'
    BY <1>1, <1>2, <1>3, <2>2, ListSame
  <2> QED
    BY <1>1, <1>10, <2>1, <2>3 DEF ListOK
<1>7. CASE Expire(t)
  <2>1. TypesOK' /\ OwnersOK'
    BY <1>7 DEF Expire, IInv, TypesOK, OwnersOK
  <2>2. Coming \subseteq Coming' /\ waiters' \subseteq waiters
    BY <1>7 DEF Expire, Coming, Getting, IInv, TypesOK
  <2>3. List(l)' /\ Served(l)'
    BY <1>1, <1>2, <1>3, <2>2, ListSame
  <2> QED
    BY <1>1, <1>10, <2>1, <2>3 DEF ListOK
<1>8. CASE Spurious(t)
  <2>1. TypesOK' /\ OwnersOK'
    BY <1>8 DEF Spurious, IInv, TypesOK, OwnersOK
  <2>2. Coming \subseteq Coming' /\ waiters' \subseteq waiters
    BY <1>8 DEF Spurious, Coming, Getting, IInv, TypesOK
  <2>3. List(l)' /\ Served(l)'
    BY <1>1, <1>2, <1>3, <2>2, ListSame
  <2> QED
    BY <1>1, <1>10, <2>1, <2>3 DEF ListOK
<1>9. ASSUME NEW kind \in {"get", "try", "timed"}, StartGet(t, kind)
      PROVE  TypesOK' /\ OwnersOK' /\ ListOK(l)'
  <2>1. TypesOK' /\ OwnersOK'
    BY <1>9 DEF StartGet, IInv, TypesOK, OwnersOK
  <2>2. Coming \subseteq Coming' /\ waiters' \subseteq waiters
    BY <1>9 DEF StartGet, Coming, Getting, IInv, TypesOK
  <2>3. List(l)' /\ Served(l)'
    BY <1>1, <1>2, <1>3, <2>2, ListSame
  <2> QED
    BY <1>1, <1>10, <2>1, <2>3 DEF ListOK
<1> QED
  BY <1>1, <1>5, <1>6, <1>7, <1>8, <1>9

-----------------------------------------------------------------------------
LEMMA InitIInv == Init => IInv
<1> SUFFICES ASSUME Init PROVE IInv
  OBVIOUS
<1>1. TypesOK /\ OwnersOK
  BY DEF Init, TypesOK, OwnersOK
<1>2. List(<<>>)
  BY DEF Init, List, Chain
<1>3. Served(<<>>) /\ Covered(<<>>)
  BY DEF Init, Served, Covered
<1> QED
  BY <1>1, <1>2, <1>3 DEF IInv, ListOK

(* What a step does to the list: it grows at its end, loses its first node, *)
(* or stays, with its values.                                               *)
LEMMA ListStep ==
  ASSUME IInv, NEW l, ListOK(l), [Next]_vars
  PROVE  /\ TypesOK' /\ OwnersOK'
         /\ \/ \E n \in Node : /\ ListOK(Append(l, n))' /\ value[n] \in Value
                               /\ value' = value /\ got' = got
            \/ l # <<>> /\ ListOK(Tail(l))' /\ value' = value /\ got' = <<value[l[1]]>>
            \/ ListOK(l)' /\ got' = got /\ \A i \in 1..Len(l) : value'[l[i]] = value[l[i]]
<1>1. CASE UNCHANGED vars
  <2>1. TypesOK' /\ OwnersOK'
    BY <1>1 DEF vars, IInv, TypesOK, OwnersOK
  <2>2. ListOK(l)'
    BY <1>1 DEF vars, ListOK, List, Chain, Served, Covered, Coming, Getting
  <2> QED
    BY <1>1, <2>1, <2>2 DEF vars
<1>2. ASSUME NEW t \in Thread, Put(t)
      PROVE  TypesOK' /\ OwnersOK' /\ \E n \in Node : /\ ListOK(Append(l, n))' /\ value[n] \in Value
                                                      /\ value' = value /\ got' = got
  <2>1. PICK n : n = node[t]
    OBVIOUS
  <2> QED
    BY <1>2, <2>1, PutStep
<1>3. ASSUME NEW t \in Thread, Unlink(t)
      PROVE  /\ TypesOK' /\ OwnersOK'
             /\ l # <<>> /\ ListOK(Tail(l))' /\ value' = value /\ got' = <<value[l[1]]>>
  BY <1>3, UnlinkStep
<1>4. ASSUME NEW t \in Thread,
             \/ Wait(t) \/ GiveUp(t) \/ Expire(t) \/ Spurious(t)
             \/ \E kind \in {"get", "try", "timed"} : StartGet(t, kind)
      PROVE  TypesOK' /\ OwnersOK' /\ ListOK(l)' /\ value' = value /\ got' = got
  BY <1>4, OtherSteps
<1>5. ASSUME NEW t \in Thread, Free(t) \/ \E n \in Node, v \in Value : StartPut(t, n, v)
      PROVE  /\ TypesOK' /\ OwnersOK' /\ ListOK(l)' /\ got' = got
             /\ \A i \in 1..Len(l) : value'[l[i]] = value[l[i]]
  BY <1>5, FreeStep, StartPutStep DEF Free, StartPut
<1> QED
  BY <1>1, <1>2, <1>3, <1>4, <1>5 DEF Next, Step

LEMMA NextIInv == IInv /\ [Next]_vars => IInv'
<1> SUFFICES ASSUME IInv, [Next]_vars PROVE IInv'
  OBVIOUS
<1>1. PICK l : ListOK(l)
  BY DEF IInv
<1> QED
  BY <1>1, ListStep DEF IInv

LEMMA IInvAlways == Spec => []IInv
BY InitIInv, NextIInv, PTL DEF Spec

-----------------------------------------------------------------------------
(* No thread is left waiting in get or timed get beside a value, whatever   *)
(* other gets compete for it and whoever spends a signal                    *)
(* (idris2rc2_channel_put, _get, _get_non_blocking, _get_with_timeout).     *)
THEOREM NoWakeUpLost == Spec => []NobodyForgotten
<1>1. ASSUME IInv PROVE NobodyForgotten
  <2> SUFFICES ASSUME \A t \in Thread : pc[t] # "out" => t \in waiters, waiters # {}
               PROVE  head = None
    BY DEF NobodyForgotten
  <2>1. Coming = {}
    BY DEF Coming, Getting
  <2>2. PICK l : List(l) /\ Served(l)
    BY <1>1 DEF IInv, ListOK
  <2>3. Len(l) <= 0
    BY <2>1, <2>2, FS_EmptySet DEF Served
  <2> QED
    BY <2>2, <2>3, ListEmpty
<1> QED
  BY <1>1, IInvAlways, PTL

-----------------------------------------------------------------------------
(* The chain from head is one sequence: the first place where two differ    *)
(* would follow one where they agree.                                       *)
LEMMA ChainPrefix ==
  ASSUME TypesOK, NEW l \in Seq(Node), NEW m \in Seq(Node), Chain(l), Chain(m)
  PROVE  Len(l) <= Len(m) /\ \A i \in 1..Len(l) : l[i] = m[i]
<1> DEFINE T == {i \in 1..Len(l) : i > Len(m) \/ l[i] # m[i]}
<1>1. Len(l) \in Nat /\ Len(m) \in Nat
  OBVIOUS
<1>2. SUFFICES ASSUME T # {} PROVE FALSE
  BY <1>1
<1>3. PICK x \in T : \A y \in T : ~(y < x)
  <2>1. T \subseteq Nat
    OBVIOUS
  <2>2. \E x \in T : \A y \in T : ~(<<y, x>> \in OpToRel(<, Nat))
    BY <1>2, <2>1, NatLessThanWellFounded, WFMin
  <2> QED
    BY <2>1, <2>2 DEF OpToRel
<1>4. x \in 1..Len(l) /\ l # <<>> /\ head = l[1] /\ l[x] \in Node /\ l[1] \in Node
  BY <1>1, ElementOfSeq DEF Chain
<1>5. m # <<>> /\ m[1] = l[1] /\ Len(m) >= 1
  BY <1>1, <1>4, NoneAssumption DEF Chain
<1>6. x # 1
  BY <1>1, <1>4, <1>5
<1>7. x - 1 \in 1..Len(l) /\ x - 1 \notin T
  BY <1>1, <1>3, <1>4, <1>6
<1>8. x - 1 \in 1..Len(m) /\ l[x - 1] = m[x - 1]
  BY <1>1, <1>7
<1>9. next[l[x - 1]] = l[x]
  BY <1>1, <1>4, <1>7 DEF Chain
<1>10. x - 1 # Len(m)
  BY <1>4, <1>5, <1>8, <1>9, NoneAssumption DEF Chain
<1>11. next[m[x - 1]] = m[x] /\ x \in 1..Len(m)
  BY SMTT(30), <1>1, <1>4, <1>8, <1>10 DEF Chain
<1> QED
  BY <1>1, <1>8, <1>9, <1>11

LEMMA LinkedIsList == ASSUME TypesOK, NEW l, List(l) PROVE Linked = l
<1>1. l \in Seq(Node) /\ Len(l) \in Nat /\ l \in [1..Len(l) -> Node] /\ Chain(l)
  BY DEF List
<1>2. Len(l) <= Cardinality(Node) /\ Cardinality(Node) \in Nat
  <2>1. l \in Injection(1..Len(l), Node)
    BY <1>1 DEF List, Injection, IsInjective
  <2>2. Cardinality(1..Len(l)) = Len(l)
    BY <1>1, FS_Interval
  <2> QED
    BY <2>1, <2>2, FiniteAssumption, FS_Injection, FS_CardinalityType
<1> DEFINE All == UNION {[1..k -> Node] : k \in 0..Cardinality(Node)}
<1>3. l \in All
  BY <1>1, <1>2
<1>4. ASSUME NEW m \in All, Chain(m) PROVE m = l
  <2>1. m \in Seq(Node) /\ Len(m) \in Nat
    BY <1>2
  <2>2. Len(m) = Len(l) /\ \A i \in 1..Len(m) : m[i] = l[i]
    BY <1>1, <1>4, <2>1, ChainPrefix
  <2> QED
    BY <1>1, <2>1, <2>2, SeqEqual
<1> HIDE DEF All
<1> QED
  BY <1>1, <1>3, <1>4 DEF Linked, All

LinkedIsIt == \A l : ListOK(l) => Linked = l
LEMMA LinkedAlwaysIs == TypesOK => LinkedIsIt
BY LinkedIsList DEF ListOK, LinkedIsIt

(* An allocated node is in the list or with one thread.                     *)
LEMMA NodesCounted ==
  ASSUME IInv, NEW l, ListOK(l)
  PROVE  Cardinality(allocated) = Len(l) + Cardinality({t \in Thread : node[t] # None})
<1> DEFINE Owners == {t \in Thread : node[t] # None}
           A      == {l[i] : i \in 1..Len(l)}
           B      == {node[t] : t \in Owners}
<1>1. /\ l \in Seq(Node) /\ Len(l) \in Nat /\ l \in [1..Len(l) -> Node]
      /\ node \in [Thread -> Node \cup {None}] /\ IsFiniteSet(Owners)
  BY ComingFinite DEF ListOK, List, IInv, TypesOK
<1>2. IsFiniteSet(A) /\ Cardinality(A) = Len(l)
  <2>1. l \in Bijection(1..Len(l), A)
    BY <1>1 DEF Bijection, Injection, Surjection, IsInjective, ListOK, List
  <2>2. ExistsBijection(1..Len(l), A)
    BY <2>1 DEF ExistsBijection
  <2>3. IsFiniteSet(1..Len(l)) /\ Cardinality(1..Len(l)) = Len(l)
    BY <1>1, FS_Interval
  <2> HIDE DEF A
  <2> QED
    BY <2>2, <2>3, FS_Bijection
<1>3. IsFiniteSet(B) /\ Cardinality(B) = Cardinality(Owners)
  <2> DEFINE f == [t \in Owners |-> node[t]]
  <2>1. f \in Bijection(Owners, B)
    <3>1. f \in [Owners -> B]
      OBVIOUS
    <3>2. IsInjective(f)
      BY DEF IsInjective, IInv, OwnersOK
    <3>3. \A n \in B : \E t \in Owners : f[t] = n
      OBVIOUS
    <3> QED
      BY <3>1, <3>2, <3>3 DEF Bijection, Injection, Surjection
  <2>2. ExistsBijection(Owners, B)
    BY <2>1 DEF ExistsBijection
  <2> HIDE DEF B, Owners
  <2> QED
    BY <1>1, <2>2, FS_Bijection
<1>4. allocated = A \cup B
  <2>1. A \subseteq allocated
    BY DEF ListOK, List
  <2>2. B \subseteq allocated
    BY DEF IInv, OwnersOK
  <2>3. ASSUME NEW n \in allocated PROVE n \in A \cup B
    <3>1. n # None
      BY NoneAssumption DEF IInv, TypesOK
    <3> QED
      BY <3>1 DEF ListOK, Covered
  <2> QED
    BY <2>1, <2>2, <2>3
<1>5. A \cap B = {}
  BY DEF ListOK, List
<1>6. Cardinality(Owners) \in Nat
  BY <1>1, FS_CardinalityType
<1> HIDE DEF A, B, Owners
<1>7. Cardinality(allocated) = Len(l) + Cardinality(Owners)
  <2>1. Cardinality(A \cup B) = Cardinality(A) + Cardinality(B) - Cardinality(A \cap B)
    BY <1>2, <1>3, FS_Union
  <2>2. Cardinality(A \cap B) = 0
    BY <1>5, FS_EmptySet
  <2>3. Cardinality(allocated) = Cardinality(A \cup B)
    BY <1>4, Zenon
  <2> QED
    BY <1>1, <1>2, <1>3, <1>6, <2>1, <2>2, <2>3
<1> QED
  BY <1>7 DEF Owners

(* The list keeps its shape, and no node is lost, freed twice or reused     *)
(* while it is linked (idris2rc2_channel_put, idris2rc2_channel_get).       *)
THEOREM ListStaysSound == Spec => []ListSound
<1>1. ASSUME IInv PROVE ListSound
  <2>1. PICK l : ListOK(l) /\ List(l)
    BY <1>1 DEF IInv, ListOK
  <2>2. Linked = l
    BY <1>1, <2>1, LinkedIsList DEF IInv
  <2>3. Cardinality(allocated) = Len(l) + Cardinality({t \in Thread : node[t] # None})
    BY <1>1, <2>1, NodesCounted
  <2>4. tail = (IF head = None THEN None ELSE l[Len(l)]) /\ (tail # None => next[tail] = None)
    BY <2>1, ListEmpty DEF List, Chain
  <2>5. \A i \in 1..Len(l) : l[i] \in allocated /\ \A t \in Thread : node[t] # l[i]
    BY <2>1 DEF List
  <2> QED
    BY <1>1, <2>2, <2>3, <2>4, <2>5 DEF ListSound, IInv, TypesOK
<1> QED
  BY <1>1, IInvAlways, PTL

-----------------------------------------------------------------------------
(* A channel is a first-in first-out queue of values, each got by one       *)
(* thread: a step of Put appends a value, one of Unlink takes the first,    *)
(* and no other step changes the queue.                                     *)
THEOREM IsQueue == Spec => ImplementsQueue
<1>1. Init => Queue!Init
  <2> SUFFICES ASSUME Init PROVE Queue!Init
    OBVIOUS
  <2>1. TypesOK /\ List(<<>>)
    BY DEF Init, TypesOK, List, Chain
  <2>2. Linked = <<>>
    BY <2>1, LinkedIsList
  <2>3. Contents = <<>>
    BY <2>2 DEF Contents
  <2> QED
    BY <2>3 DEF Init, Queue!Init
<1>2. IInv /\ [Next]_vars => [Queue!Next]_<<Contents, got>>
  <2> SUFFICES ASSUME IInv, [Next]_vars PROVE [Queue!Next]_<<Contents, got>>
    OBVIOUS
  <2>1. PICK l : ListOK(l)
    BY DEF IInv
  <2>2. \A m : TypesOK' /\ ListOK(m)' => Linked' = m
    <3>1. (TypesOK => LinkedIsIt)'
      BY LinkedAlwaysIs, PTL
    <3> QED
      BY <3>1 DEF LinkedIsIt
  <2>3. Contents = [i \in 1..Len(l) |-> value[l[i]]]
    BY <2>1, LinkedIsList DEF ListOK, IInv, Contents
  <2>4. l \in Seq(Node) /\ Len(l) \in Nat /\ (\A i \in 1..Len(l) : value[l[i]] \in Value)
    BY <2>1 DEF ListOK, List
  <2>5. Contents \in Seq(Value) /\ Len(Contents) = Len(l)
    BY <2>3, <2>4
  <2>6. ASSUME NEW n \in Node, ListOK(Append(l, n))', value[n] \in Value, value' = value, got' = got, TypesOK'
        PROVE  Queue!Next
    <3>1. Contents' = [i \in 1..Len(Append(l, n)) |-> value[Append(l, n)[i]]]
      BY <2>2, <2>6 DEF Contents
    <3>2. Contents' = Append(Contents, value[n])
      BY <2>3, <2>4, <2>5, <2>6, <3>1
    <3> QED
      BY <2>6, <3>2 DEF Queue!Next, Queue!Put
  <2>7. ASSUME l # <<>>, ListOK(Tail(l))', value' = value, got' = <<value[l[1]]>>, TypesOK'
        PROVE  Queue!Next
    <3>1. Contents' = [i \in 1..Len(Tail(l)) |-> value[Tail(l)[i]]]
      BY <2>2, <2>7 DEF Contents
    <3>2. Contents' = Tail(Contents) /\ Contents # <<>> /\ Head(Contents) = value[l[1]]
      BY <2>3, <2>4, <2>5, <2>7, <3>1
    <3> QED
      BY <2>7, <3>2 DEF Queue!Next, Queue!Get
  <2>8. ASSUME ListOK(l)', got' = got, \A i \in 1..Len(l) : value'[l[i]] = value[l[i]], TypesOK'
        PROVE  UNCHANGED <<Contents, got>>
    BY <2>2, <2>3, <2>8 DEF Contents
  <2> QED
    BY <2>1, <2>6, <2>7, <2>8, ListStep
<1> QED
  BY <1>1, <1>2, IInvAlways, PTL DEF Spec, ImplementsQueue, Queue!Spec
-----------------------------------------------------------------------------
(* The MVar.  A lost wake-up would be a waiter without anybody on the way   *)
(* (SomebodyComes); that the values and updates around stay what they were  *)
(* rests on what each operation holds in each of its stages (HoldsOK).      *)
LEMMA BoxFin == IsFiniteSet(Thread) /\ Box!BoxConstants
  BY FiniteAssumption, BoxAssumption

(* The instance's size of a set is the size of that set.                    *)
LEMMA SameSize == \A S : Box!Cardinality(S) = Cardinality(S)
  BY DEF Box!Cardinality, Cardinality

(* What a thread holds is what its operation needs.                         *)
HoldsOK(t) ==
  /\ stage[t] = "out" <=> op[t] = None
  /\ op[t] \in Box!Putters => stage[t] = "putting" /\ held[t] = 0
  /\ op[t] \in {"take", "tryTake", "read", "swap"} => stage[t] = "getting"
  /\ op[t] = "swap" => held[t] = 0
  /\ t \in Box!Lending => held[t] \in Box!Amount

(* A value or room that somebody waits for has somebody on the way to it.   *)
SomebodyComes ==
  /\ contents # None /\ notEmpty # {} /\ ~bypassed => \E t \in Thread : Box!At(t, "getting")
  /\ contents = None /\ notFull # {} => \E t \in Thread : Box!At(t, "putting")

BInv ==
  /\ Box!UpdatesKept
  /\ \A t \in Thread : HoldsOK(t)
  /\ SomebodyComes
  /\ updates + Cardinality(Box!Updating) <= MaxUpdate

(* The numbers h[u] of the members u of L, added up.                        *)
Sum(L, h) == Cardinality(UNION {{u} \X (1..h[u]) : u \in L})

LEMMA SumFinite ==
  ASSUME NEW L, NEW h, IsFiniteSet(L), \A u \in L : h[u] \in Nat
  PROVE  IsFiniteSet(UNION {{u} \X (1..h[u]) : u \in L}) /\ Sum(L, h) \in Nat
  <1> DEFINE f   == [u \in L |-> {u} \X (1..h[u])]
             All == {f[u] : u \in L}
  <1>1. f \in Surjection(L, All)
    BY DEF Surjection
  <1>2. IsFiniteSet(All)
    BY <1>1, FS_Surjection
  <1>3. ASSUME NEW u \in L
        PROVE  IsFiniteSet(f[u])
    <2>1. IsFiniteSet({u})
      BY FS_Singleton
    <2>2. IsFiniteSet(1..h[u])
      BY FS_Interval
    <2> QED
      BY <2>1, <2>2, FS_Product
  <1>4. IsFiniteSet(UNION All)
    BY <1>2, <1>3, FS_UNION
  <1>5. UNION All = UNION {{u} \X (1..h[u]) : u \in L}
    OBVIOUS
  <1> QED
    BY <1>4, <1>5, FS_CardinalityType DEF Sum

LEMMA SumSame ==
  ASSUME NEW L, NEW h, NEW g, \A u \in L : g[u] = h[u]
  PROVE  Sum(L, g) = Sum(L, h)
  BY DEF Sum

LEMMA SumSplit ==
  ASSUME NEW L, NEW h, IsFiniteSet(L), \A u \in L : h[u] \in Nat, NEW t \in L
  PROVE  Sum(L, h) = Sum(L \ {t}, h) + h[t]
  <1> DEFINE A == UNION {{u} \X (1..h[u]) : u \in L}
             B == UNION {{u} \X (1..h[u]) : u \in L \ {t}}
             C == {t} \X (1..h[t])
  <1>1. A = B \cup C
    <2>1. ASSUME NEW x PROVE x \in A <=> \E u \in L : x \in {u} \X (1..h[u])
      OBVIOUS
    <2>2. ASSUME NEW x PROVE x \in B <=> \E u \in L \ {t} : x \in {u} \X (1..h[u])
      OBVIOUS
    <2> QED
      BY <2>1, <2>2
  <1>2. B \cap C = {}
    OBVIOUS
  <1>3. IsFiniteSet(L \ {t})
    BY FS_Subset
  <1>4. IsFiniteSet(B) /\ Cardinality(B) \in Nat
    BY <1>3, SumFinite DEF Sum
  <1>5. IsFiniteSet(C) /\ Cardinality(C) = h[t]
    <2>1. IsFiniteSet({t}) /\ Cardinality({t}) = 1
      BY FS_Singleton
    <2>2. IsFiniteSet(1..h[t]) /\ Cardinality(1..h[t]) = h[t]
      BY FS_Interval
    <2> QED
      BY <2>1, <2>2, FS_Product
  <1>6. Cardinality(B \cup C) = Cardinality(B) + Cardinality(C) - Cardinality(B \cap C)
    BY <1>4, <1>5, FS_Union
  <1>7. Cardinality({}) = 0
    BY FS_EmptySet
  <1>8. Cardinality(A) = Cardinality(B) + h[t]
    <2>1. Cardinality(B \cap C) = 0
      BY <1>2, <1>7
    <2>2. Cardinality(A) = Cardinality(B \cup C)
      BY <1>1
    <2>3. h[t] \in Nat
      OBVIOUS
    <2> HIDE DEF A, B, C
    <2> QED
      BY <1>4, <1>5, <1>6, <2>1, <2>2, <2>3
  <1> QED
    BY <1>8 DEF Sum, A, B

LEMMA Amounts == Box!Amount \subseteq Nat /\ None \notin Box!Amount /\ 0 \in Box!Amount /\ MaxUpdate \in Nat
  BY BoxFin DEF Box!Amount, Box!BoxConstants

LEMMA SumState ==
  ASSUME BInv
  PROVE  /\ IsFiniteSet(Box!Lending) /\ Cardinality(Box!Lending) \in Nat
         /\ IsFiniteSet(Box!Updating) /\ Cardinality(Box!Updating) \in Nat
         /\ \A u \in Box!Lending : held[u] \in Nat
         /\ Cardinality(Box!Carried) = Sum(Box!Lending, held) /\ Sum(Box!Lending, held) \in Nat
  <1>1. IsFiniteSet(Box!Lending) /\ IsFiniteSet(Box!Updating)
    BY BoxFin, FS_Subset DEF Box!Lending, Box!Updating
  <1>2. \A u \in Box!Lending : held[u] \in Nat
    BY Amounts DEF BInv, HoldsOK, Box!Lending
  <1> QED
    BY <1>1, <1>2, FS_CardinalityType, SumFinite DEF Box!Carried, Sum

(* What the numbers of a step must add up to.                               *)
Filled(c)  == IF c = None THEN 0 ELSE 1
Content(c) == IF c = None THEN 0 ELSE c

LEMMA Sums ==
  ASSUME BInv
  PROVE  /\ live = Filled(contents) + Cardinality(Box!Lending)
         /\ updates = Content(contents) + Sum(Box!Lending, held)
         /\ Filled(contents) \in {0, 1} /\ Content(contents) \in Nat
  BY SameSize, SumState, Amounts DEF BInv, Box!UpdatesKept, Box!InPlace, Filled, Content, Box!TypeOK, Box!Amount

LEMMA Assemble ==
  ASSUME /\ contents' \in Box!Amount \cup {None}
         /\ stage' \in [Thread -> {"out", "getting", "calling", "putting"}]
         /\ op'    \in [Thread -> Ops \cup {None}]
         /\ held'  \in [Thread -> Box!Amount \cup {None}]
         /\ bypassed' \in BOOLEAN,
         notEmpty' \subseteq {t \in Thread : stage'[t] = "getting"},
         notFull'  \subseteq {t \in Thread : stage'[t] = "putting"},
         \A t \in Thread : HoldsOK(t)',
         SomebodyComes',
         live' = Filled(contents') + Cardinality(Box!Lending'),
         updates' = Content(contents') + Sum(Box!Lending', held'),
         updates' + Cardinality(Box!Updating') <= MaxUpdate
  PROVE  BInv'
  <1>1. IsFiniteSet(Box!Lending') /\ IsFiniteSet(Box!Updating')
    BY BoxFin, FS_Subset DEF Box!Lending, Box!Updating
  <1>2. /\ Cardinality(Box!Lending') \in Nat /\ Cardinality(Box!Updating') \in Nat
        /\ Cardinality(Box!Lending') <= Cardinality(Thread) /\ Cardinality(Thread) \in Nat
    <2>1. Box!Lending' \subseteq Thread
      BY DEF Box!Lending
    <2> QED
      BY <1>1, <2>1, BoxFin, FS_CardinalityType, FS_Subset
  <1>3. \A u \in Box!Lending' : held'[u] \in Nat
    BY Amounts DEF HoldsOK, Box!Lending
  <1>4. Sum(Box!Lending', held') \in Nat
    BY <1>1, <1>3, SumFinite
  <1>5. Cardinality(Box!Carried') = Sum(Box!Lending', held')
    BY DEF Box!Carried, Sum
  <1>6. Filled(contents') \in {0, 1} /\ Content(contents') \in Nat
    BY Amounts DEF Filled, Content
  <1>7. live' \in 0..(Cardinality(Thread) + 1) /\ updates' \in Box!Amount
    BY <1>2, <1>4, <1>6, Amounts DEF Box!Amount
  <1>8. Box!TypeOK'
    BY SameSize, <1>7 DEF Box!TypeOK, Box!Amount
  <1>9. Box!UpdatesKept'
    BY SameSize, <1>5, <1>8 DEF Box!UpdatesKept, Box!InPlace, Filled, Content
  <1> QED
    BY <1>9 DEF BInv

LEMMA InitBox == Box!Init => BInv
  <1> SUFFICES ASSUME Box!Init PROVE BInv
    OBVIOUS
  <1>1. Box!Lending = {} /\ Box!Updating = {} /\ Box!Carried = {}
    BY BoxFin DEF Box!Init, Box!Lending, Box!Updating, Box!Carried, Box!BoxConstants, Box!Getters, Box!Takers, Box!Putters
  <1>2. Cardinality({}) = 0
    BY FS_EmptySet
  <1>3. Cardinality(Thread) \in Nat
    BY BoxFin, FS_CardinalityType
  <1>4. Box!TypeOK
    <2>1. live \in 0..(Cardinality(Thread) + 1)
      BY <1>3 DEF Box!Init
    <2>2. updates \in Box!Amount /\ contents \in Box!Amount \cup {None}
      BY BoxFin DEF Box!Init, Box!Amount, Box!BoxConstants
    <2> QED
      BY SameSize, <2>1, <2>2 DEF Box!Init, Box!TypeOK
  <1>5. Box!UpdatesKept
    BY SameSize, <1>1, <1>2, <1>4, BoxFin DEF Box!UpdatesKept, Box!InPlace, Box!Init, Box!BoxConstants, Box!TypeOK, Box!Amount
  <1>6. \A t \in Thread : HoldsOK(t)
    BY <1>1, BoxFin DEF Box!Init, HoldsOK, Box!BoxConstants, Box!Getters, Box!Takers, Box!Putters
  <1>7. SomebodyComes
    BY DEF Box!Init, SomebodyComes
  <1> QED
    BY <1>1, <1>2, <1>4, <1>5, <1>6, <1>7, BoxFin DEF BInv, Box!TypeOK, Box!Amount, Box!BoxConstants

LEMMA CallStep ==
  ASSUME BInv, NEW t \in Thread, NEW o \in Ops, Box!Call(t, o)
  PROVE  BInv'
  <1> USE Amounts DEF BInv, Box!UpdatesKept
  <1>0. HoldsOK(t) /\ Box!TypeOK /\ None \notin Box!Putters \cup Box!Getters /\ Ops \subseteq Box!Getters \cup Box!Putters
    BY BoxFin DEF Box!BoxConstants
  <1>1. op[t] = None /\ stage[t] = "out" /\ t \notin Box!Waiting
    BY <1>0 DEF Box!Call, Box!At, HoldsOK
  <1>2. Box!Lending' = Box!Lending
    BY <1>0, <1>1 DEF Box!Call, Box!Lending, Box!TypeOK, Box!Putters, Box!Getters, Box!Takers
  <1>3. Sum(Box!Lending', held') = Sum(Box!Lending, held)
    <2>1. \A u \in Box!Lending : held'[u] = held[u]
      BY <1>0, <1>1 DEF Box!Call, Box!Lending, Box!TypeOK, Box!Putters, Box!Getters, Box!Takers
    <2> QED
      BY <1>2, <2>1, SumSame
  <1>4. updates' + Cardinality(Box!Updating') <= MaxUpdate
    <2>1. CASE o = "modify"
      <3>1. Box!Updating' = Box!Updating \cup {t} /\ t \notin Box!Updating
        BY <1>0, <1>1, <2>1 DEF Box!Call, Box!Updating, Box!TypeOK, Box!Putters, Box!Getters, Box!Takers
      <3>2. Cardinality(Box!Updating \cup {t}) = Cardinality(Box!Updating) + 1
        BY <3>1, SumState, FS_AddElement
      <3> QED
        BY SameSize, <2>1, <3>1, <3>2, SumState, <1>0 DEF Box!Call, Box!history, Box!TypeOK, Box!Amount
    <2>2. CASE o # "modify"
      <3>1. Box!Updating' = Box!Updating
        BY <1>0, <1>1, <2>2 DEF Box!Call, Box!Updating, Box!TypeOK, Box!Putters, Box!Getters, Box!Takers
      <3> QED
        BY <3>1 DEF Box!Call, Box!history
    <2> QED
      BY <2>1, <2>2
  <1>5. \A u \in Thread : HoldsOK(u)'
    <2>1. ASSUME NEW u \in Thread, u # t PROVE HoldsOK(u)'
      BY <1>0, <2>1 DEF Box!Call, HoldsOK, Box!TypeOK, Box!Lending
    <2>2. HoldsOK(t)'
      BY <1>0, <1>1 DEF Box!Call, HoldsOK, Box!TypeOK, Box!Lending, Box!Putters, Box!Getters, Box!Takers
    <2> QED
      BY <2>1, <2>2
  <1>6. SomebodyComes'
    BY <1>0, <1>1 DEF Box!Call, SomebodyComes, Box!At, Box!Waiting, Box!TypeOK, Box!history
  <1> QED
    BY <1>0, <1>1, <1>2, <1>3, <1>4, <1>5, <1>6, Sums, Assemble
       DEF Box!Call, Box!TypeOK, Box!Amount, Box!history, Box!Waiting

LEMMA WaitStep ==
  ASSUME BInv, NEW t \in Thread, Box!WaitForFull(t) \/ Box!WaitForEmpty(t) \/ Box!Spurious(t)
  PROVE  BInv'
  <1>0. Box!TypeOK /\ (\A u \in Thread : HoldsOK(u)) /\ SomebodyComes
        /\ updates + Cardinality(Box!Updating) <= MaxUpdate
    BY DEF BInv, Box!UpdatesKept
  <1>1. UNCHANGED <<contents, stage, op, held, live, updates, bypassed>>
    BY DEF Box!WaitForFull, Box!WaitForEmpty, Box!Spurious, Box!history
  <1>2. Box!Lending' = Box!Lending /\ Box!Updating' = Box!Updating
    BY <1>1 DEF Box!Lending, Box!Updating
  <1>3. \A u \in Thread : HoldsOK(u)'
    BY <1>0, <1>1 DEF HoldsOK, Box!Lending
  <1>4. SomebodyComes'
    <2>1. CASE Box!WaitForFull(t)
      BY <1>0, <2>1 DEF Box!WaitForFull, SomebodyComes, Box!At, Box!Waiting, Box!TypeOK, Box!history
    <2>2. CASE Box!WaitForEmpty(t)
      BY <1>0, <2>2 DEF Box!WaitForEmpty, SomebodyComes, Box!At, Box!Waiting, Box!TypeOK, Box!history
    <2>3. CASE Box!Spurious(t)
      BY <1>0, <1>1, <2>3 DEF Box!Spurious, SomebodyComes, Box!At, Box!Waiting, Box!TypeOK, Box!history
    <2> QED
      BY <2>1, <2>2, <2>3
  <1>5. /\ notEmpty' \subseteq {u \in Thread : stage'[u] = "getting"}
        /\ notFull'  \subseteq {u \in Thread : stage'[u] = "putting"}
    BY <1>0, <1>1 DEF Box!WaitForFull, Box!WaitForEmpty, Box!Spurious, Box!At, Box!TypeOK
  <1>6. live' = Filled(contents') + Cardinality(Box!Lending')
        /\ updates' = Content(contents') + Sum(Box!Lending', held')
    BY <1>1, <1>2, Sums
  <1> QED
    BY <1>0, <1>1, <1>2, <1>3, <1>4, <1>5, <1>6, Assemble DEF Box!TypeOK, Box!Amount

(* A step of t that is not over leaves what it says about the others.       *)
LEMMA OthersKeep ==
  ASSUME BInv, NEW t \in Thread, NEW u \in Thread, u # t,
         stage'[u] = stage[u], op'[u] = op[u], held'[u] = held[u]
  PROVE  HoldsOK(u)'
  BY DEF BInv, HoldsOK, Box!Lending

(* What a signal leaves of the waiters, and whom it wakes.                  *)
LEMMA SignalWakes ==
  ASSUME NEW W, NEW V \in Box!Signalled(W)
  PROVE  V \subseteq W /\ (V # {} => \E w \in W : w \notin V)
  BY DEF Box!Signalled

LEMMA TakeStep ==
  ASSUME BInv, NEW t \in Thread, Box!Take(t)
  PROVE  BInv'
  <1> USE DEF Box!Getters, Box!Takers, Box!Putters
  <1>0. Box!TypeOK /\ HoldsOK(t) /\ SomebodyComes /\ updates + Cardinality(Box!Updating) <= MaxUpdate
        /\ None \notin Box!Putters \cup Box!Getters
    BY BoxFin DEF BInv, Box!UpdatesKept, Box!BoxConstants
  <1>1. t \in Thread /\ stage[t] = "getting" /\ op[t] \in Box!Takers /\ t \notin notEmpty \cup notFull
        /\ contents \in Box!Amount /\ contents # None /\ contents' = None /\ contents \in Nat
    BY <1>0, Amounts DEF Box!Take, Box!At, Box!Waiting, Box!TypeOK, Box!Amount
  <1>2. PICK V \in Box!Signalled(notFull) : notFull' = V
    BY DEF Box!Take
  <1>3. notFull' \subseteq notFull /\ (notFull' # {} => \E w \in notFull : w \notin notFull')
    BY <1>2, SignalWakes
  <1>4. t \notin Box!Lending
    BY <1>1 DEF Box!Lending
  <1>5. SomebodyComes'
    <2>1. ASSUME NEW w \in notFull, w \notin notFull'
          PROVE  Box!At(w, "putting")' /\ w \in Thread
      BY <1>0, <1>1, <2>1 DEF Box!Take, Box!At, Box!Waiting, Box!TypeOK, Box!Return
    <2> QED
      BY <1>1, <1>3, <2>1 DEF SomebodyComes
  <1>6. /\ notEmpty' \subseteq {u \in Thread : stage'[u] = "getting"}
        /\ notFull'  \subseteq {u \in Thread : stage'[u] = "putting"}
    BY <1>0, <1>1, <1>3 DEF Box!Take, Box!TypeOK, Box!Return
  <1>7. \A u \in Thread : u # t => HoldsOK(u)'
    BY <1>0, OthersKeep DEF Box!Take, Box!TypeOK, Box!Return
  <1>8. Filled(contents) = 1 /\ Filled(contents') = 0 /\ Content(contents') = 0
        /\ Content(contents) = contents
    BY <1>1 DEF Filled, Content
  <1>9. CASE op[t] \in {"modify", "with"}
    <2>1. stage' = [stage EXCEPT ![t] = "calling"] /\ held' = [held EXCEPT ![t] = contents]
          /\ UNCHANGED <<op, live, updates>>
      BY <1>9 DEF Box!Take
    <2>2. Box!Lending' = Box!Lending \cup {t} /\ Box!Updating' = Box!Updating
      BY <1>0, <1>1, <1>9, <2>1 DEF Box!Lending, Box!Updating, Box!TypeOK
    <2>3. Cardinality(Box!Lending \cup {t}) = Cardinality(Box!Lending) + 1
          /\ IsFiniteSet(Box!Lending \cup {t})
      BY <1>4, SumState, FS_AddElement
    <2>4. held'[t] = contents /\ \A u \in Box!Lending : held'[u] = held[u] /\ held'[u] \in Nat
      BY <1>0, <1>1, <1>4, <2>1, SumState DEF Box!TypeOK
    <2>5. Sum(Box!Lending \cup {t}, held') = Sum((Box!Lending \cup {t}) \ {t}, held') + contents
      BY <1>1, <2>3, <2>4, SumSplit
    <2>6. (Box!Lending \cup {t}) \ {t} = Box!Lending /\ Sum(Box!Lending, held') = Sum(Box!Lending, held)
      BY <1>4, <2>4, SumSame
    <2>7. live' = Filled(contents') + Cardinality(Box!Lending')
      BY <1>8, <2>1, <2>2, <2>3, Sums, SumState
    <2>8. updates' = Content(contents') + Sum(Box!Lending', held')
      <3>1. Sum(Box!Lending', held') = Sum(Box!Lending, held) + contents
        BY <2>2, <2>5, <2>6
      <3>2. updates = contents + Sum(Box!Lending, held)
        BY <1>8, Sums
      <3> QED
        BY <1>1, <1>8, <2>1, <3>1, <3>2, SumState
    <2>9. HoldsOK(t)'
      BY <1>0, <1>1, <1>9, <2>1, <2>4 DEF HoldsOK, Box!TypeOK
    <2>10. /\ held' \in [Thread -> Box!Amount \cup {None}]
           /\ stage' \in [Thread -> {"out", "getting", "calling", "putting"}]
           /\ op' \in [Thread -> Ops \cup {None}]
      BY <1>0, <1>1, <2>1 DEF Box!TypeOK, Box!Amount
    <2> QED
      BY <1>0, <1>1, <1>5, <1>6, <1>7, <2>1, <2>2, <2>7, <2>8, <2>9, <2>10, Assemble
         DEF Box!Take
  <1>10. CASE op[t] \notin {"modify", "with"}
    <2>1. Box!Return(t) /\ live' = live - 1 /\ updates' = updates - contents
      BY <1>10 DEF Box!Take
    <2>2. Box!Lending' = Box!Lending /\ Box!Updating' = Box!Updating
      BY <1>0, <1>1, <1>10, <2>1 DEF Box!Lending, Box!Updating, Box!TypeOK, Box!Return
    <2>3. Sum(Box!Lending', held') = Sum(Box!Lending, held)
      <3>1. \A u \in Box!Lending : held'[u] = held[u]
        BY <1>0, <1>4, <2>1 DEF Box!Return, Box!TypeOK, Box!Lending
      <3> QED
        BY <2>2, <3>1, SumSame
    <2>4. live' = Filled(contents') + Cardinality(Box!Lending')
      BY <1>8, <2>1, <2>2, Sums, SumState
    <2>5. updates' = Content(contents') + Sum(Box!Lending', held')
      BY <1>1, <1>8, <2>1, <2>3, Sums, SumState
    <2>6. HoldsOK(t)'
      BY <1>0, <1>1, <1>4, <2>1, <2>2 DEF HoldsOK, Box!TypeOK, Box!Return
    <2>7. updates' + Cardinality(Box!Updating') <= MaxUpdate
      BY <1>0, <1>1, <2>1, <2>2, Sums, SumState, Amounts
    <2>8. /\ held' \in [Thread -> Box!Amount \cup {None}]
          /\ stage' \in [Thread -> {"out", "getting", "calling", "putting"}]
          /\ op' \in [Thread -> Ops \cup {None}]
      BY <1>0, <2>1 DEF Box!TypeOK, Box!Amount, Box!Return
    <2> QED
      BY <1>0, <1>1, <1>5, <1>6, <1>7, <2>4, <2>5, <2>6, <2>7, <2>8, Assemble DEF Box!Take
  <1> QED
    BY <1>9, <1>10

(* A return by a thread that is not lending.                                *)
LEMMA ReturnKeeps ==
  ASSUME BInv, NEW t \in Thread, Box!Return(t), t \notin Box!Lending, op[t] # "modify"
  PROVE  /\ Box!Lending' = Box!Lending /\ Box!Updating' = Box!Updating
         /\ Sum(Box!Lending', held') = Sum(Box!Lending, held)
         /\ \A u \in Thread : HoldsOK(u)'
         /\ held' \in [Thread -> Box!Amount \cup {None}]
         /\ stage' \in [Thread -> {"out", "getting", "calling", "putting"}]
         /\ op' \in [Thread -> Ops \cup {None}]
  <1> USE DEF Box!Getters, Box!Takers, Box!Putters
  <1>0. Box!TypeOK /\ HoldsOK(t) /\ None \notin Box!Putters \cup Box!Getters
    BY BoxFin DEF BInv, Box!UpdatesKept, Box!BoxConstants
  <1>1. Box!Lending' = Box!Lending /\ Box!Updating' = Box!Updating
    BY <1>0 DEF Box!Lending, Box!Updating, Box!TypeOK, Box!Return
  <1>2. \A u \in Box!Lending : held'[u] = held[u]
    BY <1>0 DEF Box!Return, Box!TypeOK, Box!Lending
  <1>3. Sum(Box!Lending', held') = Sum(Box!Lending, held)
    BY <1>1, <1>2, SumSame
  <1>4. \A u \in Thread : u # t => HoldsOK(u)'
    BY <1>0, OthersKeep DEF Box!TypeOK, Box!Return
  <1>5. HoldsOK(t)'
    BY <1>0, <1>1 DEF HoldsOK, Box!TypeOK, Box!Return
  <1> QED
    BY <1>0, <1>1, <1>3, <1>4, <1>5 DEF Box!TypeOK, Box!Amount, Box!Return

LEMMA ReadStep ==
  ASSUME BInv, NEW t \in Thread, Box!ReadOrSwap(t)
  PROVE  BInv'
  <1> USE DEF Box!Getters, Box!Takers, Box!Putters
  <1>0. Box!TypeOK /\ HoldsOK(t) /\ SomebodyComes /\ updates + Cardinality(Box!Updating) <= MaxUpdate
        /\ None \notin Box!Putters \cup Box!Getters
    BY BoxFin DEF BInv, Box!UpdatesKept, Box!BoxConstants
  <1>1. /\ stage[t] = "getting" /\ op[t] \in {"read", "swap"} /\ t \notin notEmpty \cup notFull
        /\ Box!Return(t) /\ contents \in Nat /\ contents # None
        /\ contents' = IF op[t] = "swap" THEN 0 ELSE contents
        /\ UNCHANGED <<notEmpty, notFull, live>>
        /\ updates'  = updates - contents + contents'
        /\ bypassed' = (bypassed \/ notEmpty # {})
    BY <1>0, Amounts DEF Box!ReadOrSwap, Box!At, Box!Waiting, Box!TypeOK, HoldsOK, Box!Amount
  <1>2. contents' \in Box!Amount /\ contents' # None /\ contents' \in Nat /\ contents' <= contents
    BY <1>0, <1>1, Amounts DEF Box!TypeOK, Box!Amount
  <1>3. t \notin Box!Lending
    BY <1>1 DEF Box!Lending
  <1>4. SomebodyComes'
    BY <1>0, <1>1, <1>2 DEF SomebodyComes, Box!TypeOK
  <1>5. /\ notEmpty' \subseteq {u \in Thread : stage'[u] = "getting"}
        /\ notFull'  \subseteq {u \in Thread : stage'[u] = "putting"}
    BY <1>0, <1>1 DEF Box!TypeOK, Box!Return
  <1>6. /\ Filled(contents') = Filled(contents) /\ Content(contents') = contents'
        /\ Content(contents) = contents
    BY <1>1, <1>2 DEF Filled, Content
  <1>7. /\ Box!Lending' = Box!Lending /\ Box!Updating' = Box!Updating
        /\ Sum(Box!Lending', held') = Sum(Box!Lending, held)
        /\ \A u \in Thread : HoldsOK(u)'
        /\ held' \in [Thread -> Box!Amount \cup {None}]
        /\ stage' \in [Thread -> {"out", "getting", "calling", "putting"}]
        /\ op' \in [Thread -> Ops \cup {None}]
    BY <1>1, <1>3, ReturnKeeps
  <1>8. live' = Filled(contents') + Cardinality(Box!Lending')
    BY <1>1, <1>6, <1>7, Sums
  <1>9. updates' = Content(contents') + Sum(Box!Lending', held')
    BY <1>1, <1>2, <1>6, <1>7, Sums, SumState
  <1>10. updates' + Cardinality(Box!Updating') <= MaxUpdate
    BY <1>0, <1>1, <1>2, <1>6, <1>7, Sums, SumState, Amounts
  <1> QED
    BY <1>0, <1>1, <1>2, <1>4, <1>5, <1>7, <1>8, <1>9, <1>10, Assemble DEF Box!TypeOK

LEMMA TryStep ==
  ASSUME BInv, NEW t \in Thread, Box!TryFails(t)
  PROVE  BInv'
  <1> USE DEF Box!Getters, Box!Takers, Box!Putters
  <1>0. Box!TypeOK /\ HoldsOK(t) /\ SomebodyComes /\ updates + Cardinality(Box!Updating) <= MaxUpdate
    BY DEF BInv, Box!UpdatesKept
  <1>1. /\ Box!Return(t) /\ op[t] \in {"tryTake", "tryPut"}
        /\ UNCHANGED <<contents, notEmpty, notFull, live, updates, bypassed>>
        /\ t \notin notEmpty \cup notFull
    BY DEF Box!TryFails, Box!history, Box!At, Box!Waiting
  <1>2. t \notin Box!Lending
    BY <1>1 DEF Box!Lending
  <1>3. SomebodyComes'
    BY <1>0, <1>1 DEF Box!TryFails, SomebodyComes, Box!At, Box!Waiting, Box!TypeOK, Box!Return
  <1>4. /\ notEmpty' \subseteq {u \in Thread : stage'[u] = "getting"}
        /\ notFull'  \subseteq {u \in Thread : stage'[u] = "putting"}
    BY <1>0, <1>1 DEF Box!TypeOK, Box!Return
  <1>5. /\ Box!Lending' = Box!Lending /\ Box!Updating' = Box!Updating
        /\ Sum(Box!Lending', held') = Sum(Box!Lending, held)
        /\ \A u \in Thread : HoldsOK(u)'
        /\ held' \in [Thread -> Box!Amount \cup {None}]
        /\ stage' \in [Thread -> {"out", "getting", "calling", "putting"}]
        /\ op' \in [Thread -> Ops \cup {None}]
    BY <1>1, <1>2, ReturnKeeps
  <1> QED
    BY <1>0, <1>1, <1>3, <1>4, <1>5, Sums, Assemble DEF Box!TypeOK, Box!Amount

LEMMA FunctionStep ==
  ASSUME BInv, NEW t \in Thread, Box!FunctionReturns(t)
  PROVE  BInv'
  <1> USE DEF Box!Getters, Box!Takers, Box!Putters
  <1> DEFINE n == IF op[t] = "modify" THEN 1 ELSE 0
  <1>0. Box!TypeOK /\ HoldsOK(t) /\ SomebodyComes /\ updates + Cardinality(Box!Updating) <= MaxUpdate
        /\ None \notin Box!Putters \cup Box!Getters
    BY BoxFin DEF BInv, Box!UpdatesKept, Box!BoxConstants
  <1>1. /\ stage[t] = "calling" /\ held' = [held EXCEPT ![t] = @ + n] /\ updates' = updates + n
        /\ stage' = [stage EXCEPT ![t] = "putting"]
        /\ UNCHANGED <<contents, notEmpty, notFull, op, live, bypassed>>
        /\ t \notin notEmpty \cup notFull
    BY DEF Box!FunctionReturns, Box!At, Box!Waiting
  <1>2. op[t] \in {"modify", "with"} /\ t \in Box!Lending /\ held[t] \in Box!Amount
    BY <1>0, <1>1, BoxFin DEF HoldsOK, Box!TypeOK, Box!Lending, Box!BoxConstants
  <1>3. Box!Lending' = Box!Lending
    BY <1>0, <1>1 DEF Box!Lending, Box!TypeOK
  <1>4. updates' + Cardinality(Box!Updating') <= MaxUpdate /\ updates' \in Nat
    <2>1. CASE op[t] = "modify"
      <3>1. Box!Updating' = Box!Updating \ {t} /\ t \in Box!Updating
        BY <1>0, <1>1, <2>1 DEF Box!Updating, Box!TypeOK
      <3>2. Cardinality(Box!Updating \ {t}) = Cardinality(Box!Updating) - 1
        BY <3>1, SumState, FS_RemoveElement
      <3> QED
        BY <1>0, <1>1, <2>1, <3>1, <3>2, SumState DEF Box!TypeOK, Box!Amount
    <2>2. CASE op[t] # "modify"
      <3>1. Box!Updating' = Box!Updating
        BY <1>0, <1>1, <2>2 DEF Box!Updating, Box!TypeOK
      <3> QED
        BY <1>0, <1>1, <2>2, <3>1 DEF Box!TypeOK, Box!Amount
    <2> QED
      BY <2>1, <2>2
  <1>5. \A u \in Box!Lending : held'[u] \in Nat /\ (u # t => held'[u] = held[u])
    BY <1>0, <1>1, <1>2, SumState, Amounts DEF Box!TypeOK
  <1>6. held'[t] = held[t] + n /\ held[t] \in Nat /\ n \in {0, 1}
    BY <1>0, <1>1, <1>2, Amounts DEF Box!TypeOK
  <1> HIDE DEF n
  <1>7. Sum(Box!Lending, held') = Sum(Box!Lending, held) + n
    <2>1. Sum(Box!Lending, held') = Sum(Box!Lending \ {t}, held') + held'[t]
      BY <1>2, <1>5, SumState, SumSplit
    <2>2. Sum(Box!Lending, held) = Sum(Box!Lending \ {t}, held) + held[t]
      BY <1>2, SumState, SumSplit
    <2>3. Sum(Box!Lending \ {t}, held') = Sum(Box!Lending \ {t}, held)
      BY <1>5, SumSame
    <2>4. Sum(Box!Lending \ {t}, held) \in Nat
      <3>1. IsFiniteSet(Box!Lending \ {t})
        BY SumState, FS_Subset
      <3> QED
        BY <3>1, SumState, SumFinite
    <2> QED
      BY <1>6, <2>1, <2>2, <2>3, <2>4
  <1>8. updates' = Content(contents') + Sum(Box!Lending', held')
    BY <1>1, <1>3, <1>6, <1>7, Sums, SumState
  <1>9. live' = Filled(contents') + Cardinality(Box!Lending')
    BY <1>1, <1>3, Sums
  <1>10. held'[t] \in Box!Amount
    <2>1. held'[t] <= Sum(Box!Lending, held')
      <3>1. Sum(Box!Lending, held') = Sum(Box!Lending \ {t}, held') + held'[t]
        BY <1>2, <1>5, SumState, SumSplit
      <3>2. Sum(Box!Lending \ {t}, held') \in Nat
        <4>1. IsFiniteSet(Box!Lending \ {t})
          BY SumState, FS_Subset
        <4> QED
          BY <1>5, <4>1, SumFinite
      <3> QED
        BY <1>6, <3>1, <3>2
    <2>2. Sum(Box!Lending, held') <= updates' /\ updates' <= MaxUpdate
      <3>1. IsFiniteSet(Box!Updating') /\ Cardinality(Box!Updating') \in Nat
        BY BoxFin, FS_Subset, FS_CardinalityType DEF Box!Updating
      <3>2. Content(contents') \in Nat
        BY <1>1, Sums
      <3>3. Sum(Box!Lending, held') \in Nat
        BY <1>6, <1>7, SumState
      <3> QED
        BY <1>3, <1>4, <1>8, <3>1, <3>2, <3>3, Amounts
    <2>3. Sum(Box!Lending, held') \in Nat
      BY <1>6, <1>7, SumState
    <2> QED
      BY <1>4, <1>6, <2>1, <2>2, <2>3, Amounts DEF Box!Amount
  <1>11. held' \in [Thread -> Box!Amount \cup {None}]
         /\ stage' \in [Thread -> {"out", "getting", "calling", "putting"}]
    BY <1>0, <1>1, <1>10 DEF Box!TypeOK, Box!Amount
  <1>12. HoldsOK(t)'
    BY <1>0, <1>1, <1>2, <1>10 DEF HoldsOK, Box!TypeOK
  <1>13. \A u \in Thread : u # t => HoldsOK(u)'
    BY <1>0, <1>1, OthersKeep DEF Box!TypeOK
  <1>14. SomebodyComes'
    BY <1>0, <1>1 DEF SomebodyComes, Box!At, Box!Waiting, Box!TypeOK
  <1>15. /\ notEmpty' \subseteq {u \in Thread : stage'[u] = "getting"}
         /\ notFull'  \subseteq {u \in Thread : stage'[u] = "putting"}
    BY <1>0, <1>1 DEF Box!TypeOK
  <1> QED
    BY <1>0, <1>1, <1>4, <1>8, <1>9, <1>11, <1>12, <1>13, <1>14, <1>15, Assemble
       DEF Box!TypeOK, Box!Amount

LEMMA BoxPutStep ==
  ASSUME BInv, NEW t \in Thread, Box!Put(t)
  PROVE  BInv'
  <1> USE DEF Box!Getters, Box!Takers, Box!Putters
  <1>0. Box!TypeOK /\ HoldsOK(t) /\ SomebodyComes /\ updates + Cardinality(Box!Updating) <= MaxUpdate
        /\ None \notin Box!Putters \cup Box!Getters
    BY BoxFin DEF BInv, Box!UpdatesKept, Box!BoxConstants
  <1>1. /\ stage[t] = "putting" /\ t \notin notEmpty \cup notFull /\ contents = None
        /\ contents' = held[t] /\ Box!Return(t) /\ UNCHANGED <<notFull, updates, bypassed>>
        /\ live' = live + Cardinality({t} \ Box!Lending)
    BY SameSize DEF Box!Put, Box!At, Box!Waiting
  <1>2. held[t] \in Box!Amount /\ held[t] # None /\ held[t] \in Nat
    BY <1>0, <1>1, BoxFin, Amounts DEF HoldsOK, Box!TypeOK, Box!Lending, Box!BoxConstants
  <1>3. PICK V \in Box!Signalled(notEmpty) : notEmpty' = V
    BY DEF Box!Put
  <1>4. notEmpty' \subseteq notEmpty /\ (notEmpty' # {} => \E w \in notEmpty : w \notin notEmpty')
    BY <1>3, SignalWakes
  <1>5. SomebodyComes'
    <2>1. ASSUME NEW w \in notEmpty, w \notin notEmpty'
          PROVE  Box!At(w, "getting")' /\ w \in Thread
      BY <1>0, <1>1, <2>1 DEF Box!At, Box!Waiting, Box!TypeOK, Box!Return
    <2> QED
      BY <1>1, <1>2, <1>4, <2>1 DEF SomebodyComes
  <1>6. /\ notEmpty' \subseteq {u \in Thread : stage'[u] = "getting"}
        /\ notFull'  \subseteq {u \in Thread : stage'[u] = "putting"}
    BY <1>0, <1>1, <1>4 DEF Box!TypeOK, Box!Return
  <1>7. /\ Filled(contents) = 0 /\ Filled(contents') = 1 /\ Content(contents) = 0
        /\ Content(contents') = held[t]
    BY <1>1, <1>2 DEF Filled, Content
  <1>8. Box!Updating' = Box!Updating
    BY <1>0, <1>1 DEF Box!Updating, Box!TypeOK, Box!Return
  <1>9. CASE t \in Box!Lending
    <2>1. Box!Lending' = Box!Lending \ {t} /\ {t} \ Box!Lending = {}
      BY <1>0, <1>1, <1>9 DEF Box!Lending, Box!TypeOK, Box!Return
    <2>2. Cardinality(Box!Lending \ {t}) = Cardinality(Box!Lending) - 1 /\ Cardinality({}) = 0
      BY <1>9, SumState, FS_RemoveElement, FS_EmptySet
    <2>3. Sum(Box!Lending, held) = Sum(Box!Lending \ {t}, held) + held[t]
      BY <1>9, SumState, SumSplit
    <2>4. \A u \in Box!Lending \ {t} : held'[u] = held[u]
      BY <1>0, <1>1 DEF Box!Return, Box!TypeOK, Box!Lending
    <2>5. Sum(Box!Lending \ {t}, held') = Sum(Box!Lending \ {t}, held)
      BY <2>4, SumSame
    <2>6. IsFiniteSet(Box!Lending \ {t})
      BY SumState, FS_Subset
    <2>7. Sum(Box!Lending \ {t}, held) \in Nat
      BY <2>6, SumState, SumFinite
    <2>8. live' = Filled(contents') + Cardinality(Box!Lending')
      <3>1. live' = live + 0
        BY <1>1, <2>1, <2>2
      <3>2. live = Cardinality(Box!Lending) /\ Cardinality(Box!Lending) \in Nat
        BY <1>7, Sums, SumState
      <3> QED
        BY <1>7, <2>1, <2>2, <3>1, <3>2
    <2>9. updates' = Content(contents') + Sum(Box!Lending', held')
      BY <1>1, <1>2, <1>7, <2>1, <2>3, <2>5, <2>7, Sums
    <2>10. HoldsOK(t)'
      BY <1>0, <1>1, <2>1 DEF HoldsOK, Box!TypeOK, Box!Return
    <2>11. \A u \in Thread : u # t => HoldsOK(u)'
      BY <1>0, <1>1, OthersKeep DEF Box!TypeOK, Box!Return
    <2> QED
      BY <1>0, <1>1, <1>2, <1>5, <1>6, <1>8, <2>8, <2>9, <2>10, <2>11, Assemble
         DEF Box!TypeOK, Box!Amount, Box!Return
  <1>10. CASE t \notin Box!Lending
    <2>1. op[t] \in {"put", "tryPut"} /\ held[t] = 0
      BY <1>0, <1>1, <1>10, BoxFin DEF HoldsOK, Box!TypeOK, Box!Lending, Box!BoxConstants
    <2>2. {t} \ Box!Lending = {t} /\ Cardinality({t}) = 1
      BY <1>10, FS_Singleton
    <2>3. /\ Box!Lending' = Box!Lending
          /\ Sum(Box!Lending', held') = Sum(Box!Lending, held)
          /\ \A u \in Thread : HoldsOK(u)'
          /\ held' \in [Thread -> Box!Amount \cup {None}]
          /\ stage' \in [Thread -> {"out", "getting", "calling", "putting"}]
          /\ op' \in [Thread -> Ops \cup {None}]
      BY <1>1, <1>10, <2>1, ReturnKeeps
    <2>4. live' = Filled(contents') + Cardinality(Box!Lending')
      <3>1. live' = live + 1
        BY <1>1, <2>2
      <3>2. live = Cardinality(Box!Lending) /\ Cardinality(Box!Lending) \in Nat
        BY <1>7, Sums, SumState
      <3> QED
        BY <1>7, <2>3, <3>1, <3>2
    <2>5. updates' = Content(contents') + Sum(Box!Lending', held')
      BY <1>1, <1>7, <2>1, <2>3, Sums, SumState
    <2> QED
      BY <1>0, <1>1, <1>2, <1>5, <1>6, <1>8, <2>3, <2>4, <2>5, Assemble DEF Box!TypeOK
  <1> QED
    BY <1>9, <1>10

LEMMA BoxInvariant == Box!Spec => []BInv
  <1>1. BInv /\ [Box!Next]_Box!vars => BInv'
    <2>1. BInv /\ Box!Next => BInv'
      BY CallStep, WaitStep, TakeStep, ReadStep, TryStep, FunctionStep, BoxPutStep
         DEF Box!Next, Box!Step, Box!Calls
    <2>2. BInv /\ UNCHANGED Box!vars => BInv'
      BY DEF Box!vars, Box!history, BInv, Box!UpdatesKept, Box!TypeOK, Box!InPlace, Box!Carried, Box!Lending, Box!Updating,
         HoldsOK, SomebodyComes, Box!At, Box!Waiting
    <2> QED
      BY <2>1, <2>2
  <1> QED
    BY InitBox, <1>1, PTL DEF Box!Spec

LEMMA BoxHolds == Box!Spec => []MVarSound
  <1>1. BInv => MVarSound
    <2> SUFFICES ASSUME BInv PROVE MVarSound
      OBVIOUS
    <2>1. SomebodyComes /\ Box!UpdatesKept
      BY DEF BInv
    <2>2. Box!Quiet => \A u \in Thread : ~Box!At(u, "getting") /\ ~Box!At(u, "putting")
      BY DEF Box!Quiet, Box!At
    <2> QED
      BY <2>1, <2>2 DEF SomebodyComes, Box!ForgottenOnlyByReaders, MVarSound
  <1> QED
    BY BoxInvariant, <1>1, PTL
-----------------------------------------------------------------------------
(* A program that uses the one or the other does with each what it may do.  *)
LEMMA BothRun == ExchangeSpec => Spec /\ Box!Spec
  <1>1. ExchangeInit => Init /\ Box!Init
    BY DEF ExchangeInit
  <1>2. [ExchangeNext]_exchangeVars => [Next]_vars /\ [Box!Next]_Box!vars
    <2> SUFFICES ASSUME [ExchangeNext]_exchangeVars PROVE [Next]_vars /\ [Box!Next]_Box!vars
      OBVIOUS
    <2>1. CASE ChannelNext
      BY <2>1 DEF ChannelNext, boxVars, Box!vars, Box!history
    <2>2. ASSUME NEW t \in Thread, BoxStep(t) \/ BoxCall(t)
          PROVE  [Next]_vars /\ [Box!Next]_Box!vars
      BY <2>2 DEF BoxStep, BoxCall, Box!Next
    <2>3. CASE UNCHANGED exchangeVars
      BY <2>3 DEF exchangeVars, boxVars, Box!vars, Box!history
    <2> QED
      BY <2>1, <2>2, <2>3 DEF ExchangeNext
  <1> QED
    BY <1>1, <1>2, PTL DEF ExchangeSpec, Spec, Box!Spec

(* In every program: the channel's list keeps its shape and its nodes, and  *)
(* no getter is left waiting beside a value                                 *)
(* (idris2rc2_rc2base_concurrency_util.c).                                  *)
THEOREM ChannelAlwaysSound == ExchangeSpec => []ChannelSound
  BY BothRun, NoWakeUpLost, ListStaysSound, PTL DEF ChannelSound

(* In every program: one signal for each change is enough for the takers    *)
(* and putters of an MVar, and no value and no update of modifyMVar is lost *)
(* (MVar.idr).                                                              *)
THEOREM MVarAlwaysSound == ExchangeSpec => []MVarSound
  BY BothRun, BoxHolds, PTL
=============================================================================
