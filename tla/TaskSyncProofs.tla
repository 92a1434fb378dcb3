---------------------------- MODULE TaskSyncProofs ----------------------------
(***************************************************************************)
(* Proofs about TaskSync, for any program, any scopes and any sizes.       *)
(*                                                                         *)
(* A handler is a composition of others, each of which leaves a World in   *)
(* which some operations are in transit (out of their line, not yet in the *)
(* queue of ready steps) and some values in hand (out of one place, not    *)
(* yet in the next).  So the invariant Sound is about a World and has both *)
(* as parameters, there is one lemma for each handler, and every action    *)
(* ends with nothing in transit and nothing in hand.                       *)
(***************************************************************************)
EXTENDS TaskSync, FiniteSetTheorems, WellFoundedInduction, TLAPS

Calls   == Handoffs \cup Asyncs \cup Pinneds
Maybe   == Op \cup {None}
Entry   == [num : Nat, op : Maybe, value : Maybe]
Line    == [next : Nat, line : SUBSET Entry]
StepSet == [op : Op, value : Maybe, pinned : BOOLEAN]
Stages  == {"idle", "ready", "waiting", "inside", "over"}
Ident   == [num : Nat, op : Op]
Worlds  ==
  [mvar     : [value : Maybe, line : Line],
   chan     : [items : Seq(Op), count : Nat, closed : BOOLEAN, takers : Line, senders : Line],
   sem      : [permits : Nat, line : Line],
   runQ     : Seq(StepSet),
   status   : [Op -> Stages],
   number   : [Op -> Nat],
   cleanups : SUBSET Ident,
   taken    : [Op -> Maybe],
   live     : SUBSET Op]

PutOps(p) == {v \in Op : p[v] \in Puts}

(* A line is a SortedMap whose keys are below the next one.                 *)
LineOK(l) ==
  /\ IsFiniteSet(l.line)
  /\ \A e \in l.line : e.num < l.next
  /\ \A e, f \in l.line : e.num = f.num => e = f

(* Who is in which line.  The operations X are in transit.                  *)
Behind(w, X, e) == e.op \in Op \ X /\ w.status[e.op] = "waiting" /\ w.number[e.op] = e.num
Taker(p, w, X, e)  == Behind(w, X, e) /\ p[e.op] \in Takes /\ e.value = None
Putter(p, w, X, e) ==
  /\ e.value \in PutOps(p)
  /\ e.op # None => Behind(w, X, e) /\ p[e.op] = "putMVar" /\ e.value = e.op
MVarLine(p, w, X) ==
  /\ LineOK(w.mvar.line)
  /\ w.mvar.value = None => \A e \in w.mvar.line.line : Taker(p, w, X, e)
  /\ w.mvar.value # None => /\ w.mvar.value \in PutOps(p)
                            /\ \A e \in w.mvar.line.line : Putter(p, w, X, e)
ChanLines(p, w, X) ==
  /\ LineOK(w.chan.takers) /\ LineOK(w.chan.senders)
  /\ \A e \in w.chan.takers.line  : Behind(w, X, e) /\ p[e.op] = "recv" /\ e.value = None
  /\ \A e \in w.chan.senders.line : Behind(w, X, e) /\ p[e.op] = "send" /\ e.value = e.op
SemLine(p, w, X) ==
  /\ LineOK(w.sem.line)
  /\ \A e \in w.sem.line.line : Behind(w, X, e) /\ p[e.op] \in Acquires /\ e.value = None

IsIn(l, o)       == \E e \in l.line : e.op = o
HasLine(p, w, o) ==
  /\ p[o] \in Handoffs \cup Asyncs
  /\ p[o] \in Takes \cup {"putMVar"} => IsIn(w.mvar.line, o)
  /\ p[o] = "recv"     => IsIn(w.chan.takers, o)
  /\ p[o] = "send"     => IsIn(w.chan.senders, o)
  /\ p[o] \in Acquires => IsIn(w.sem.line, o)
WaitersOK(p, w, X) ==
  \A o \in Op \ X : w.status[o] = "waiting" => HasLine(p, w, o)

(* The ready steps: one for each operation that is ready.                   *)
StepOK(p, s) ==
  /\ s.pinned <=> p[s.op] \in Pinneds
  /\ p[s.op] \in Takes => s.value \in PutOps(p)
  /\ p[s.op] = "recv" => s.value \in PutOps(p) \cup {None}
  /\ p[s.op] \in Acquires => s.value = s.op
  /\ p[s.op] \in Asyncs \cup Pinneds => s.value = None
InQ(q, o)  == \E i \in 1..Len(q) : q[i].op = o
ValQ(q, v) == \E i \in 1..Len(q) : q[i].value = v
OnceQ(q)   == \A i, j \in 1..Len(q) : q[i].op = q[j].op => i = j
OnceV(p, q) == \A i, j \in 1..Len(q) : q[i].value = q[j].value /\ q[i].value \in PutOps(p) => i = j
QueueOK(p, w, X) ==
  /\ OnceQ(w.runQ)
  /\ \A i \in 1..Len(w.runQ) : StepOK(p, w.runQ[i])
  /\ \A o \in Op \ X : InQ(w.runQ, o) <=> w.status[o] = "ready"
  /\ \A o \in X : ~InQ(w.runQ, o)

(* What operations went on with.                                            *)
TakenOK(p, w, X) ==
  /\ \A o \in Op : w.taken[o] # None =>
       /\ o \notin X /\ w.status[o] \in {"inside", "over"}
       /\ \/ p[o] \in Takes \cup {"recv", "tryTakeMVar", "tryRecv"} /\ w.taken[o] \in PutOps(p)
          \/ p[o] \in Acquires \cup {"tryAcquireN"} /\ w.taken[o] = o
  /\ \A o \in Op \ X : w.status[o] = "inside" =>
       w.taken[o] # None /\ p[o] \in {"modifyMVar", "withPermits"}

(* What was put in, or released.                                            *)
LiveOK(p, w, X) ==
  \A o \in w.live : /\ p[o] \in Puts \cup {"releaseN"}
                    /\ o \notin X => w.status[o] # "idle"
                    /\ p[o] \in Pinneds => w.status[o] = "over"

(* Where a value is.  The values H are in hand.                             *)
InItems(s, v)   == \E i \in 1..Len(s) : s[i] = v
OnceI(s)        == \A i, j \in 1..Len(s) : s[i] = s[j] => i = j
InEntries(l, v) == \E e \in l : e.value = v
OnceE(p, l)     == \A e, f \in l : e.value = f.value /\ e.value \in PutOps(p) => e = f
TakenBy(w, v)   == \E o \in Op : w.taken[o] = v
OnceT(p, w)     == \A o, q \in Op : w.taken[o] = w.taken[q] /\ w.taken[o] \in PutOps(p) => o = q

One(a, b, c, d, e, f, g) ==
  /\ a => ~b /\ ~c /\ ~d /\ ~e /\ ~f /\ ~g
  /\ b => ~c /\ ~d /\ ~e /\ ~f /\ ~g
  /\ c => ~d /\ ~e /\ ~f /\ ~g
  /\ d => ~e /\ ~f /\ ~g
  /\ e => ~f /\ ~g
  /\ f => ~g
Placed(in, a, b, c, d, e, f, g) ==
  /\ One(a, b, c, d, e, f, g)
  /\ in <=> a \/ b \/ c \/ d \/ e \/ f \/ g
PlaceOf(w, H, v) ==
  Placed(v \in w.live, w.mvar.value = v, InItems(w.chan.items, v), InEntries(w.mvar.line.line, v),
         InEntries(w.chan.senders.line, v), ValQ(w.runQ, v), TakenBy(w, v), v \in H)
PlacesOK(p, w, H) ==
  /\ OnceI(w.chan.items) /\ \A i \in 1..Len(w.chan.items) : w.chan.items[i] \in PutOps(p)
  /\ OnceE(p, w.mvar.line.line) /\ OnceE(p, w.chan.senders.line)
  /\ OnceV(p, w.runQ) /\ OnceT(p, w)
  /\ H \subseteq PutOps(p)
  /\ \A v \in PutOps(p) : PlaceOf(w, H, v)

(* Who waits must wait.                                                     *)
ChanHeld(w) ==
  /\ w.chan.count = Len(w.chan.items)
  /\ Waits(w.chan.takers)  => w.chan.items = <<>> /\ ~w.chan.closed
  /\ Waits(w.chan.senders) => w.chan.count >= Capacity /\ ~w.chan.closed
SemHeld(w) ==
  Waits(w.sem.line) => Need[First(w.sem.line).op] > w.sem.permits

(* The cleanups, but for those D that are about to be run, none of them of  *)
(* an operation in G, those whose scopes are cancelled.                     *)
IdentsOK(cs) == IsFiniteSet(cs) /\ \A c, d \in cs : c.num = d.num => c = d
CleanupsOK(w, X, D, G) ==
  /\ IdentsOK(w.cleanups)
  /\ \A c \in w.cleanups :
       /\ c.op \notin G
       /\ c.op \notin X => w.status[c.op] \in {"waiting", "inside"} /\ c.op \notin D
  /\ \A o \in Op \ X : w.status[o] \in {"waiting", "inside"} /\ o \notin D =>
       \E c \in w.cleanups : c.op = o

(* n permits are free.                                                      *)
GrantedIn(p, w) == {o \in Op : p[o] \in Acquires \cup {"tryAcquireN"} /\
                                 (w.taken[o] = o \/ ValQ(w.runQ, o))}
AddedIn(p, w)   == {o \in w.live : p[o] = "releaseN"}
PermitsOK(p, w, n) ==
  n + Needed(GrantedIn(p, w)) = Permits + Needed(AddedIn(p, w))
SameSem(p, w, u) ==
  w.sem = u.sem /\ GrantedIn(p, w) = GrantedIn(p, u) /\ AddedIn(p, w) = AddedIn(p, u)

Sound(p, w, X, H, D, G) ==
  /\ w \in Worlds
  /\ MVarLine(p, w, X) /\ ChanLines(p, w, X) /\ SemLine(p, w, X)
  /\ WaitersOK(p, w, X) /\ QueueOK(p, w, X)
  /\ TakenOK(p, w, X) /\ LiveOK(p, w, X) /\ PlacesOK(p, w, H)
  /\ ChanHeld(w) /\ CleanupsOK(w, X, D, G)

-----------------------------------------------------------------------------
(* SortedMaps.                                                              *)
LEMMA LeastOf ==
  ASSUME NEW S \in SUBSET Nat, S # {}
  PROVE  \E m \in S : \A n \in S : m <= n
<1>1. \E m \in S : \A n \in S : ~(<<n, m>> \in OpToRel(<, Nat))
  BY NatLessThanWellFounded, WFMin
<1>2. \E m \in S : \A n \in S : ~(n < m)
  BY <1>1 DEF OpToRel
<1> QED
  BY <1>2

LEMMA FirstOf ==
  ASSUME NEW l \in Line, Waits(l)
  PROVE  First(l) \in l.line /\ \A f \in l.line : First(l).num <= f.num
<1> DEFINE nums == {e.num : e \in l.line}
<1>1. nums \subseteq Nat /\ nums # {}
  BY DEF Line, Entry, Waits
<1>2. PICK m \in nums : \A n \in nums : m <= n
  BY <1>1, LeastOf
<1>3. \E e \in l.line : \A f \in l.line : e.num <= f.num
  BY <1>2
<1> QED
  BY <1>3 DEF First

LEMMA RestOf ==
  ASSUME NEW l \in Line, LineOK(l), Waits(l)
  PROVE  Rest(l) \in Line /\ LineOK(Rest(l)) /\ Rest(l).line = l.line \ {First(l)} /\ Rest(l).next = l.next
<1>1. Rest(l) = [next |-> l.next, line |-> l.line \ {First(l)}]
  BY DEF Rest, Line
<1>2. IsFiniteSet(l.line \ {First(l)})
  BY FS_RemoveElement DEF LineOK
<1> QED
  BY <1>1, <1>2 DEF Line, LineOK

LEMMA EnterOf ==
  ASSUME NEW l \in Line, LineOK(l), NEW o \in Maybe, NEW v \in Maybe
  PROVE  /\ Enter(l, o, v) \in Line /\ LineOK(Enter(l, o, v))
         /\ Enter(l, o, v).line = l.line \cup {[num |-> l.next, op |-> o, value |-> v]}
         /\ [num |-> l.next, op |-> o, value |-> v] \in Entry
<1> DEFINE e == [num |-> l.next, op |-> o, value |-> v]
           x == Enter(l, o, v)
<1>1. l.next \in Nat /\ l.line \subseteq Entry
  BY DEF Line
<1>2. e \in Entry /\ e.num = l.next
  BY <1>1 DEF Entry
<1>3. x.next = l.next + 1 /\ x.line = l.line \cup {e} /\ x = [next |-> x.next, line |-> x.line]
  BY DEF Enter
<1> HIDE DEF e, x
<1>4. IsFiniteSet(l.line \cup {e})
  BY FS_AddElement DEF LineOK
<1>5. x \in Line
  BY <1>1, <1>2, <1>3 DEF Line
<1>6. \A f \in l.line : f.num < l.next /\ f.num \in Nat
  BY <1>1 DEF LineOK, Entry
<1>7. LineOK(x)
  BY <1>1, <1>2, <1>3, <1>4, <1>6 DEF LineOK
<1> QED
  BY <1>2, <1>3, <1>5, <1>7 DEF e, x

LEMMA LeaveOf ==
  ASSUME NEW l \in Line, LineOK(l), NEW k
  PROVE  /\ Leave(k, l) \in Line /\ LineOK(Leave(k, l))
         /\ Leave(k, l).line = {e \in l.line : e.num # k}
<1>1. Leave(k, l) = [next |-> l.next, line |-> {e \in l.line : e.num # k}]
  BY DEF Leave, Line
<1>2. IsFiniteSet({e \in l.line : e.num # k})
  BY FS_Subset DEF LineOK
<1> QED
  BY <1>1, <1>2 DEF Line, LineOK

LEMMA EmptyLine == Nobody \in Line /\ LineOK(Nobody) /\ Nobody.line = {}
  BY FS_EmptySet DEF Nobody, Line, LineOK

(* A finite set of natural numbers has a last one: the least of its upper   *)
(* bounds.                                                                  *)
LEMMA BoundOf ==
  ASSUME NEW cs \in SUBSET Ident, IsFiniteSet(cs)
  PROVE  \E n \in Nat : \A c \in cs : c.num <= n
<1>1. PICK n \in Nat : ExistsBijection(1..n, cs)
  BY FS_NatBijection
<1>2. PICK f \in Bijection(1..n, cs) : TRUE
  BY <1>1 DEF ExistsBijection
<1>3. f \in [1..n -> cs] /\ \A c \in cs : \E i \in 1..n : f[i] = c
  BY <1>2 DEF Bijection, Surjection
<1> DEFINE Bounded(k) == \E m \in Nat : \A i \in 1..k : f[i].num <= m
           Bad        == {k \in 0..n : ~Bounded(k)}
<1>4. Bounded(0)
  OBVIOUS
<1>5. ASSUME NEW k \in 1..n, Bounded(k - 1) PROVE Bounded(k)
  <2>1. PICK m \in Nat : \A i \in 1..(k - 1) : f[i].num <= m
    BY <1>5
  <2>2. \A i \in 1..n : f[i].num \in Nat
    BY <1>3 DEF Ident
  <2>3. PICK x \in Nat : x = f[k].num
    BY <2>2
  <2>4. ASSUME NEW i \in 1..k PROVE f[i].num <= m + x
    <3>1. CASE i = k
      BY <2>3, <3>1
    <3>2. CASE i # k
      <4>1. i \in 1..(k - 1) /\ i \in 1..n
        BY <3>2
      <4>2. f[i].num <= m /\ f[i].num \in Nat
        BY <2>1, <2>2, <4>1
      <4> QED
        BY <4>2
    <3> QED
      BY <3>1, <3>2
  <2>5. m + x \in Nat
    OBVIOUS
  <2> QED
    BY <2>4, <2>5
<1> HIDE DEF Bounded
<1>6. Bad = {}
  <2> SUFFICES ASSUME Bad # {} PROVE FALSE
    OBVIOUS
  <2> Bad \in SUBSET Nat
    OBVIOUS
  <2>1. PICK k \in Bad : \A j \in Bad : k <= j
    BY LeastOf
  <2>2. k \in 0..n /\ ~Bounded(k) /\ k # 0
    BY <1>4, <2>1
  <2>3. k \in 1..n /\ k - 1 \in 0..n /\ ~(k <= k - 1)
    BY <2>2
  <2>4. Bounded(k - 1)
    BY <2>1, <2>3
  <2> QED
    BY <1>5, <2>2, <2>3, <2>4
<1>7. Bounded(n)
  BY <1>6
<1>8. PICK m \in Nat : \A i \in 1..n : f[i].num <= m
  BY <1>7 DEF Bounded
<1> QED
  BY <1>3, <1>8

LEMMA FreshIdent ==
  ASSUME NEW cs \in SUBSET Ident, IsFiniteSet(cs)
  PROVE  Fresh(cs) \in Nat /\ \A c \in cs : c.num < Fresh(cs)
<1>1. CASE cs = {}
  BY <1>1 DEF Fresh
<1>2. CASE cs # {}
  <2> DEFINE ubs == {n \in Nat : \A c \in cs : c.num <= n}
  <2>1. ubs \subseteq Nat /\ ubs # {}
    BY BoundOf
  <2>2. PICK m \in ubs : \A n \in ubs : m <= n
    BY <2>1, LeastOf
  <2>3. \A c \in cs : c.num \in Nat /\ c.num <= m
    BY <2>2 DEF Ident
  <2>4. \E c \in cs : c.num = m
    <3> SUFFICES ASSUME \A c \in cs : c.num # m PROVE FALSE
      OBVIOUS
    <3>1. m # 0 /\ m \in Nat
      BY <1>2, <2>2, <2>3
    <3>2. \A c \in cs : c.num <= m - 1
      BY <2>3, <3>1
    <3>3. m - 1 \in ubs
      BY <3>1, <3>2
    <3> QED
      BY <2>2, <3>1, <3>3
  <2>5. \E c \in cs : \A d \in cs : d.num <= c.num
    BY <2>3, <2>4
  <2>6. Last(cs) \in cs /\ \A d \in cs : d.num <= Last(cs).num
    BY <2>5 DEF Last
  <2> QED
    BY <1>2, <2>3, <2>6 DEF Fresh
<1> QED
  BY <1>1, <1>2

(* The values in order: each entry is at its rank.                          *)
LEMMA InOrderOf ==
  ASSUME NEW S, IsFiniteSet(S), \A e \in S : e.num \in Nat, \A e, f \in S : e.num = f.num => e = f
  PROVE  /\ InOrder(S) \in Seq(S) /\ Len(InOrder(S)) \in Nat
         /\ \A i, j \in 1..Len(InOrder(S)) : InOrder(S)[i] = InOrder(S)[j] => i = j
         /\ \A i \in 1..Len(InOrder(S)) : InOrder(S)[i] \in S
         /\ \A e \in S : \E i \in 1..Len(InOrder(S)) : InOrder(S)[i] = e
<1> DEFINE Up(e) == {f \in S : f.num <= e.num}
           n     == Cardinality(S)
           r     == [e \in S |-> Cardinality(Up(e))]
<1>1. n \in Nat
  BY FS_CardinalityType
<1>2. ASSUME NEW e \in S PROVE IsFiniteSet(Up(e)) /\ r[e] \in 1..n
  <2>1. IsFiniteSet(Up(e)) /\ Cardinality(Up(e)) <= n
    BY FS_Subset
  <2>2. Cardinality(Up(e)) \in Nat
    BY <2>1, FS_CardinalityType
  <2>3. e \in Up(e)
    OBVIOUS
  <2>4. Cardinality(Up(e)) # 0
    BY <2>1, <2>3, FS_EmptySet
  <2> QED
    BY <1>1, <2>1, <2>2, <2>4
<1>3. ASSUME NEW e \in S, NEW f \in S, e.num < f.num PROVE r[e] # r[f]
  <2>1. Up(e) \in SUBSET Up(f)
    <3> SUFFICES ASSUME NEW x \in Up(e) PROVE x.num <= f.num
      OBVIOUS
    <3>1. x.num \in Nat /\ e.num \in Nat /\ f.num \in Nat /\ x.num <= e.num
      OBVIOUS
    <3> QED
      BY <1>3, <3>1
  <2>2. f \in Up(f) /\ f \notin Up(e)
    <3>1. e.num \in Nat /\ f.num \in Nat
      OBVIOUS
    <3> QED
      BY <1>3, <3>1
  <2>3. Up(e) # Up(f)
    BY <2>2
  <2> HIDE DEF Up
  <2> QED
    BY <1>2, <2>1, <2>3, FS_Subset
<1>4. ASSUME NEW e \in S, NEW f \in S, r[e] = r[f] PROVE e = f
  <2>1. e.num \in Nat /\ f.num \in Nat
    OBVIOUS
  <2>2. ~(e.num < f.num) /\ ~(f.num < e.num)
    BY <1>3, <1>4
  <2> QED
    BY <2>1, <2>2
<1>5. r \in Injection(S, 1..n)
  <2>1. r \in [S -> 1..n]
    BY <1>2
  <2> HIDE DEF r
  <2> QED
    BY <1>4, <2>1 DEF Injection, IsInjective
<1>6. IsFiniteSet(1..n) /\ Cardinality(1..n) = n
  BY <1>1, FS_Interval
<1>7. r \in Surjection(S, 1..n)
  BY <1>5, <1>6, FS_Injection
<1>8. \A i \in 1..n : \E e \in S : r[e] = i
  BY <1>7 DEF Surjection
<1>9. \A e \in S : Rank(S, e) = r[e]
  BY DEF Rank
<1> HIDE DEF r, Up
<1>10. \A i \in 1..n : InOrder(S)[i] \in S /\ r[InOrder(S)[i]] = i
  <2> SUFFICES ASSUME NEW i \in 1..n PROVE InOrder(S)[i] \in S /\ r[InOrder(S)[i]] = i
    OBVIOUS
  <2>1. \E e \in S : Rank(S, e) = i
    BY <1>8, <1>9
  <2>2. InOrder(S)[i] = CHOOSE e \in S : Rank(S, e) = i
    BY DEF InOrder
  <2>3. InOrder(S)[i] \in S /\ Rank(S, InOrder(S)[i]) = i
    BY <2>1, <2>2
  <2> QED
    BY <1>9, <2>3
<1>14. InOrder(S) = [i \in 1..n |-> InOrder(S)[i]]
  BY DEF InOrder
<1> HIDE DEF n
<1>11. InOrder(S) \in Seq(S) /\ Len(InOrder(S)) = n
  BY <1>1, <1>10, <1>14
<1>12. \A e \in S : r[e] \in 1..n /\ InOrder(S)[r[e]] = e
  BY <1>2, <1>4, <1>10
<1>13. ASSUME NEW i \in 1..n, NEW j \in 1..n, InOrder(S)[i] = InOrder(S)[j] PROVE i = j
  BY <1>10, <1>13
<1> QED
  BY <1>1, <1>10, <1>11, <1>12, <1>13

-----------------------------------------------------------------------------
(* Permits.                                                                 *)
LEMMA NeedIs == Need \in [Op -> Nat] /\ Permits \in Nat /\ IsFiniteSet(Op) /\ None \notin Op
  BY SizeAssumption, OpAssumption

LEMMA FiniteOps == \A S : S \in SUBSET Op => IsFiniteSet(S)
  BY NeedIs, FS_Subset

LEMMA NeededFinite ==
  ASSUME NEW S \in SUBSET Op
  PROVE  IsFiniteSet(UNION {{o} \X (1..Need[o]) : o \in S}) /\ Needed(S) \in Nat
<1> DEFINE f   == [o \in S |-> {o} \X (1..Need[o])]
           All == {f[o] : o \in S}
<1>1. f \in Surjection(S, All)
  BY DEF Surjection
<1>2. IsFiniteSet(All)
  BY <1>1, FiniteOps, FS_Surjection
<1>3. ASSUME NEW o \in S PROVE IsFiniteSet(f[o])
  <2>1. IsFiniteSet({o})
    BY FS_Singleton
  <2>2. IsFiniteSet(1..Need[o])
    BY NeedIs, FS_Interval
  <2> QED
    BY <2>1, <2>2, FS_Product
<1>4. IsFiniteSet(UNION All)
  BY <1>2, <1>3, FS_UNION
<1>5. UNION All = UNION {{o} \X (1..Need[o]) : o \in S}
  OBVIOUS
<1> QED
  BY <1>4, <1>5, FS_CardinalityType DEF Needed

LEMMA NeededUnion ==
  ASSUME NEW S \in SUBSET Op, NEW T \in SUBSET Op, S \cap T = {}
  PROVE  Needed(S \cup T) = Needed(S) + Needed(T)
<1> DEFINE A == UNION {{o} \X (1..Need[o]) : o \in S}
           B == UNION {{o} \X (1..Need[o]) : o \in T}
           C == UNION {{o} \X (1..Need[o]) : o \in S \cup T}
<1>1. C = A \cup B
  OBVIOUS
<1>2. A \cap B = {}
  OBVIOUS
<1>3. IsFiniteSet(A) /\ IsFiniteSet(B) /\ Needed(S) \in Nat /\ Needed(T) \in Nat
  BY NeededFinite
<1> HIDE DEF A, B, C
<1>4. Cardinality(A \cap B) = 0
  BY <1>2, FS_EmptySet
<1>5. Cardinality(C) = Cardinality(A) + Cardinality(B) - 0
  BY <1>1, <1>3, <1>4, FS_Union
<1> QED
  BY <1>3, <1>5 DEF Needed, A, B, C

LEMMA NeededOne == \A o \in Op : Needed({o}) = Need[o]
<1> SUFFICES ASSUME NEW o \in Op PROVE Needed({o}) = Need[o]
  OBVIOUS
<1>1. UNION {{u} \X (1..Need[u]) : u \in {o}} = {o} \X (1..Need[o])
  OBVIOUS
<1>2. IsFiniteSet({o}) /\ Cardinality({o}) = 1
  BY FS_Singleton
<1>3. IsFiniteSet(1..Need[o]) /\ Cardinality(1..Need[o]) = Need[o] /\ Need[o] \in Nat
  BY NeedIs, FS_Interval
<1>4. Cardinality({o} \X (1..Need[o])) = 1 * Need[o]
  BY SMTT(30), <1>2, <1>3, FS_Product
<1>5. Needed({o}) = Cardinality(UNION {{u} \X (1..Need[u]) : u \in {o}})
  BY DEF Needed
<1>6. Needed({o}) = Cardinality({o} \X (1..Need[o]))
  BY <1>1, <1>5, Zenon
<1>7. PICK n \in Nat : n = Need[o]
  BY <1>3
<1>8. 1 * n = n
  OBVIOUS
<1> QED
  BY <1>4, <1>6, <1>7, <1>8

LEMMA NeededNone == Needed({}) = 0
<1>1. UNION {{u} \X (1..Need[u]) : u \in {}} = {}
  OBVIOUS
<1> QED
  BY <1>1, FS_EmptySet DEF Needed

LEMMA NeededLess ==
  ASSUME NEW S \in SUBSET Op, NEW T \in SUBSET S
  PROVE  Needed(T) <= Needed(S) /\ Needed(S \ T) = Needed(S) - Needed(T)
<1>1. S = T \cup (S \ T) /\ T \cap (S \ T) = {} /\ T \subseteq Op /\ S \ T \subseteq Op
  OBVIOUS
<1>2. Needed(S) = Needed(T) + Needed(S \ T)
  BY <1>1, NeededUnion
<1>3. Needed(T) \in Nat /\ Needed(S \ T) \in Nat
  BY <1>1, NeededFinite
<1> QED
  BY <1>2, <1>3

-----------------------------------------------------------------------------
(* The queue of ready steps, and the items of the channel.                  *)
LEMMA Joined ==
  ASSUME NEW S, NEW s \in Seq(S), NEW t \in Seq(S)
  PROVE  /\ s \o t \in Seq(S) /\ Len(s) \in Nat /\ Len(t) \in Nat
         /\ \A i \in 1..Len(s) : i \in 1..Len(s \o t) /\ (s \o t)[i] = s[i]
         /\ \A j \in 1..Len(t) : Len(s) + j \in 1..Len(s \o t) /\ (s \o t)[Len(s) + j] = t[j]
         /\ \A k \in 1..Len(s \o t) :
              k \in 1..Len(s) \/ \E j \in 1..Len(t) : k = Len(s) + j
<1>1. s \o t \in Seq(S) /\ Len(s) \in Nat /\ Len(t) \in Nat /\ Len(s \o t) = Len(s) + Len(t)
  OBVIOUS
<1>2. \A i \in 1..Len(s) : i \in 1..Len(s \o t) /\ (s \o t)[i] = s[i]
  BY <1>1
<1>3. \A j \in 1..Len(t) : Len(s) + j \in 1..Len(s \o t) /\ (s \o t)[Len(s) + j] = t[j]
  BY <1>1
<1>4. ASSUME NEW k \in 1..Len(s \o t), k \notin 1..Len(s)
      PROVE  \E j \in 1..Len(t) : k = Len(s) + j
  <2>1. k - Len(s) \in 1..Len(t) /\ k = Len(s) + (k - Len(s))
    BY <1>1, <1>4
  <2> QED
    BY <2>1
<1> QED
  BY <1>1, <1>2, <1>3, <1>4

LEMMA QueueGrows ==
  ASSUME NEW p, NEW q \in Seq(StepSet), NEW s \in Seq(StepSet), OnceQ(q), OnceQ(s),
         OnceV(p, q), OnceV(p, s), \A o : InQ(s, o) => ~InQ(q, o),
         \A v \in PutOps(p) : ValQ(s, v) => ~ValQ(q, v)
  PROVE  /\ q \o s \in Seq(StepSet) /\ OnceQ(q \o s) /\ OnceV(p, q \o s)
         /\ \A o : InQ(q \o s, o) <=> InQ(q, o) \/ InQ(s, o)
         /\ \A v : ValQ(q \o s, v) <=> ValQ(q, v) \/ ValQ(s, v)
         /\ \A i \in 1..Len(q \o s) : \/ \E k \in 1..Len(q) : (q \o s)[i] = q[k]
                                      \/ \E k \in 1..Len(s) : (q \o s)[i] = s[k]
<1> DEFINE u == q \o s
<1>1. /\ u \in Seq(StepSet) /\ Len(q) \in Nat /\ Len(s) \in Nat
      /\ \A i \in 1..Len(q) : i \in 1..Len(u) /\ u[i] = q[i]
      /\ \A j \in 1..Len(s) : Len(q) + j \in 1..Len(u) /\ u[Len(q) + j] = s[j]
      /\ \A k \in 1..Len(u) : k \in 1..Len(q) \/ \E j \in 1..Len(s) : k = Len(q) + j
  BY Joined
<1> HIDE DEF u
<1>2. \A o : InQ(u, o) <=> InQ(q, o) \/ InQ(s, o)
  <2> TAKE o
  <2>1. ASSUME InQ(u, o) PROVE InQ(q, o) \/ InQ(s, o)
    <3>1. PICK k \in 1..Len(u) : u[k].op = o
      BY <2>1 DEF InQ
    <3>2. CASE k \in 1..Len(q)
      BY <1>1, <3>1, <3>2 DEF InQ
    <3>3. CASE k \notin 1..Len(q)
      <4>1. PICK j \in 1..Len(s) : k = Len(q) + j
        BY <1>1, <3>3
      <4>2. s[j] = u[k]
        BY <1>1, <4>1
      <4> QED
        BY <3>1, <4>2 DEF InQ
    <3> QED
      BY <3>2, <3>3
  <2>2. InQ(q, o) => InQ(u, o)
    BY <1>1 DEF InQ
  <2>3. ASSUME InQ(s, o) PROVE InQ(u, o)
    <3>1. PICK j \in 1..Len(s) : s[j].op = o
      BY <2>3 DEF InQ
    <3>2. PICK k \in 1..Len(u) : k = Len(q) + j /\ u[k] = s[j]
      BY <1>1
    <3> QED
      BY <3>1, <3>2 DEF InQ
  <2> QED
    BY <2>1, <2>2, <2>3
<1>3. \A v : ValQ(u, v) <=> ValQ(q, v) \/ ValQ(s, v)
  <2> TAKE v
  <2>1. ASSUME ValQ(u, v) PROVE ValQ(q, v) \/ ValQ(s, v)
    <3>1. PICK k \in 1..Len(u) : u[k].value = v
      BY <2>1 DEF ValQ
    <3>2. CASE k \in 1..Len(q)
      BY <1>1, <3>1, <3>2 DEF ValQ
    <3>3. CASE k \notin 1..Len(q)
      <4>1. PICK j \in 1..Len(s) : k = Len(q) + j
        BY <1>1, <3>3
      <4>2. s[j] = u[k]
        BY <1>1, <4>1
      <4> QED
        BY <3>1, <4>2 DEF ValQ
    <3> QED
      BY <3>2, <3>3
  <2>2. ValQ(q, v) => ValQ(u, v)
    BY <1>1 DEF ValQ
  <2>3. ASSUME ValQ(s, v) PROVE ValQ(u, v)
    <3>1. PICK j \in 1..Len(s) : s[j].value = v
      BY <2>3 DEF ValQ
    <3>2. PICK k \in 1..Len(u) : k = Len(q) + j /\ u[k] = s[j]
      BY <1>1
    <3> QED
      BY <3>1, <3>2 DEF ValQ
  <2> QED
    BY <2>1, <2>2, <2>3
<1>4. OnceQ(u)
  <2> SUFFICES ASSUME NEW i \in 1..Len(u), NEW j \in 1..Len(u), u[i].op = u[j].op PROVE i = j
    BY DEF OnceQ
  <2>1. CASE i \in 1..Len(q) /\ j \in 1..Len(q)
    BY <1>1, <2>1 DEF OnceQ
  <2>2. CASE i \in 1..Len(q) /\ \E k \in 1..Len(s) : j = Len(q) + k
    BY <1>1, <2>2 DEF InQ
  <2>3. CASE j \in 1..Len(q) /\ \E k \in 1..Len(s) : i = Len(q) + k
    BY ZenonT(30), <1>1, <2>3 DEF InQ
  <2>4. CASE (\E k \in 1..Len(s) : i = Len(q) + k) /\ (\E k \in 1..Len(s) : j = Len(q) + k)
    BY ZenonT(30), <1>1, <2>4 DEF OnceQ
  <2> QED
    BY <1>1, <2>1, <2>2, <2>3, <2>4
<1>5. OnceV(p, u)
  <2> SUFFICES ASSUME NEW i \in 1..Len(u), NEW j \in 1..Len(u), u[i].value = u[j].value,
                      u[i].value \in PutOps(p)
               PROVE  i = j
    BY DEF OnceV
  <2>1. CASE i \in 1..Len(q) /\ j \in 1..Len(q)
    BY <1>1, <2>1 DEF OnceV
  <2>2. CASE i \in 1..Len(q) /\ \E k \in 1..Len(s) : j = Len(q) + k
    BY <1>1, <2>2 DEF ValQ
  <2>3. CASE j \in 1..Len(q) /\ \E k \in 1..Len(s) : i = Len(q) + k
    BY ZenonT(30), <1>1, <2>3 DEF ValQ
  <2>4. CASE (\E k \in 1..Len(s) : i = Len(q) + k) /\ (\E k \in 1..Len(s) : j = Len(q) + k)
    BY <1>1, <2>4 DEF OnceV
  <2> QED
    BY <1>1, <2>1, <2>2, <2>3, <2>4
<1>6. \A i \in 1..Len(u) : (\E k \in 1..Len(q) : u[i] = q[k]) \/ (\E k \in 1..Len(s) : u[i] = s[k])
  BY <1>1
<1> QED
  BY <1>1, <1>2, <1>3, <1>4, <1>5, <1>6 DEF u

LEMMA QueueTaken ==
  ASSUME NEW p, NEW q \in Seq(StepSet), q # <<>>, OnceQ(q), OnceV(p, q)
  PROVE  /\ Head(q) \in StepSet /\ Tail(q) \in Seq(StepSet) /\ Len(q) > 0 /\ Len(Tail(q)) = Len(q) - 1
         /\ OnceQ(Tail(q)) /\ OnceV(p, Tail(q))
         /\ \A o : InQ(Tail(q), o) <=> InQ(q, o) /\ o # Head(q).op
         /\ \A v \in PutOps(p) : ValQ(Tail(q), v) <=> ValQ(q, v) /\ v # Head(q).value
         /\ \A v : ValQ(q, v) <=> ValQ(Tail(q), v) \/ v = Head(q).value
         /\ InQ(q, Head(q).op) /\ Head(q) = q[1] /\ 1 \in 1..Len(q)
         /\ \A i \in 1..Len(Tail(q)) : \E k \in 1..Len(q) : Tail(q)[i] = q[k] /\ k # 1
<1> DEFINE u == Tail(q)  h == Head(q)
<1>1. /\ u \in Seq(StepSet) /\ Len(q) \in Nat /\ Len(q) > 0 /\ Len(u) = Len(q) - 1
      /\ h = q[1] /\ h \in StepSet /\ \A i \in 1..Len(u) : u[i] = q[i + 1]
  OBVIOUS
<1> HIDE DEF u, h
<1>2. \A i \in 1..Len(u) : i + 1 \in 1..Len(q) /\ i + 1 # 1 /\ i \in Int /\ u[i] = q[i + 1]
  BY <1>1
<1>3. \A k \in 1..Len(q) : k = 1 \/ (k - 1 \in 1..Len(u) /\ u[k - 1] = q[k])
  <2> SUFFICES ASSUME NEW k \in 1..Len(q), k # 1 PROVE k - 1 \in 1..Len(u) /\ u[k - 1] = q[k]
    OBVIOUS
  <2>1. k - 1 \in 1..Len(u) /\ (k - 1) + 1 = k
    BY <1>1
  <2> QED
    BY <1>1, <2>1
<1>4. 1 \in 1..Len(q)
  BY <1>1
<1>5. OnceQ(u)
  <2> SUFFICES ASSUME NEW i \in 1..Len(u), NEW j \in 1..Len(u), u[i].op = u[j].op PROVE i = j
    BY DEF OnceQ
  <2>1. i + 1 = j + 1
    BY <1>2 DEF OnceQ
  <2> QED
    BY <2>1
<1>6. OnceV(p, u)
  <2> SUFFICES ASSUME NEW i \in 1..Len(u), NEW j \in 1..Len(u), u[i].value = u[j].value,
                      u[i].value \in PutOps(p)
               PROVE  i = j
    BY DEF OnceV
  <2>1. i + 1 = j + 1
    BY <1>2 DEF OnceV
  <2> QED
    BY <2>1
<1>7. ASSUME NEW o PROVE InQ(u, o) <=> InQ(q, o) /\ o # h.op
  <2>1. InQ(u, o) => InQ(q, o) /\ o # h.op
    BY <1>1, <1>2, <1>4 DEF InQ, OnceQ
  <2>2. InQ(q, o) /\ o # h.op => InQ(u, o)
    BY <1>1, <1>3 DEF InQ
  <2> QED
    BY <2>1, <2>2
<1>8. ASSUME NEW v PROVE ValQ(q, v) <=> ValQ(u, v) \/ v = h.value
  <2>1. ValQ(q, v) => ValQ(u, v) \/ v = h.value
    BY <1>1, <1>3 DEF ValQ
  <2>2. ValQ(u, v) \/ v = h.value => ValQ(q, v)
    BY <1>1, <1>2, <1>4 DEF ValQ
  <2> QED
    BY <2>1, <2>2
<1>9. ASSUME NEW v \in PutOps(p) PROVE ValQ(u, v) => v # h.value
  BY <1>1, <1>2, <1>4 DEF ValQ, OnceV
<1>10. \A i \in 1..Len(u) : \E k \in 1..Len(q) : u[i] = q[k] /\ k # 1
  BY <1>2
<1>11. InQ(q, h.op)
  BY <1>1, <1>4 DEF InQ
<1> QED
  BY <1>1, <1>4, <1>5, <1>6, <1>7, <1>8, <1>9, <1>10, <1>11 DEF u, h

LEMMA OneStep ==
  ASSUME NEW p, NEW s \in StepSet
  PROVE  /\ <<s>> \in Seq(StepSet) /\ OnceQ(<<s>>) /\ OnceV(p, <<s>>)
         /\ \A o : InQ(<<s>>, o) <=> o = s.op
         /\ \A v : ValQ(<<s>>, v) <=> v = s.value
         /\ \A i \in 1..Len(<<s>>) : <<s>>[i] = s
<1>1. <<s>> \in Seq(StepSet) /\ Len(<<s>>) = 1 /\ <<s>>[1] = s /\ \A i \in 1..1 : i = 1
  OBVIOUS
<1> QED
  BY <1>1 DEF OnceQ, OnceV, InQ, ValQ

LEMMA ItemsJoin ==
  ASSUME NEW s \in Seq(Op), NEW t \in Seq(Op), OnceI(s), OnceI(t), \A v : InItems(t, v) => ~InItems(s, v)
  PROVE  /\ s \o t \in Seq(Op) /\ OnceI(s \o t) /\ Len(s \o t) = Len(s) + Len(t)
         /\ \A v : InItems(s \o t, v) <=> InItems(s, v) \/ InItems(t, v)
         /\ \A i \in 1..Len(s \o t) : InItems(s, (s \o t)[i]) \/ InItems(t, (s \o t)[i])
<1> DEFINE u == s \o t
<1>1. /\ u \in Seq(Op) /\ Len(s) \in Nat /\ Len(t) \in Nat
      /\ \A i \in 1..Len(s) : i \in 1..Len(u) /\ u[i] = s[i]
      /\ \A j \in 1..Len(t) : Len(s) + j \in 1..Len(u) /\ u[Len(s) + j] = t[j]
      /\ \A k \in 1..Len(u) : k \in 1..Len(s) \/ \E j \in 1..Len(t) : k = Len(s) + j
  BY Joined
<1>2. Len(u) = Len(s) + Len(t)
  OBVIOUS
<1> HIDE DEF u
<1>3. \A v : InItems(u, v) <=> InItems(s, v) \/ InItems(t, v)
  <2> TAKE v
  <2>1. ASSUME InItems(u, v) PROVE InItems(s, v) \/ InItems(t, v)
    <3>1. PICK k \in 1..Len(u) : u[k] = v
      BY <2>1 DEF InItems
    <3>2. CASE k \in 1..Len(s)
      BY <1>1, <3>1, <3>2 DEF InItems
    <3>3. CASE k \notin 1..Len(s)
      <4>1. PICK j \in 1..Len(t) : k = Len(s) + j
        BY <1>1, <3>3
      <4>2. t[j] = u[k]
        BY <1>1, <4>1
      <4> QED
        BY <3>1, <4>2 DEF InItems
    <3> QED
      BY <3>2, <3>3
  <2>2. InItems(s, v) => InItems(u, v)
    BY <1>1 DEF InItems
  <2>3. ASSUME InItems(t, v) PROVE InItems(u, v)
    <3>1. PICK j \in 1..Len(t) : t[j] = v
      BY <2>3 DEF InItems
    <3>2. PICK k \in 1..Len(u) : k = Len(s) + j /\ u[k] = t[j]
      BY <1>1
    <3> QED
      BY <3>1, <3>2 DEF InItems
  <2> QED
    BY <2>1, <2>2, <2>3
<1>4. OnceI(u)
  <2> SUFFICES ASSUME NEW i \in 1..Len(u), NEW j \in 1..Len(u), u[i] = u[j] PROVE i = j
    BY DEF OnceI
  <2>1. CASE i \in 1..Len(s) /\ j \in 1..Len(s)
    BY <1>1, <2>1 DEF OnceI
  <2>2. CASE i \in 1..Len(s) /\ \E k \in 1..Len(t) : j = Len(s) + k
    BY ZenonT(30), <1>1, <2>2 DEF InItems
  <2>3. CASE j \in 1..Len(s) /\ \E k \in 1..Len(t) : i = Len(s) + k
    BY <1>1, <2>3 DEF InItems
  <2>4. CASE (\E k \in 1..Len(t) : i = Len(s) + k) /\ (\E k \in 1..Len(t) : j = Len(s) + k)
    BY <1>1, <2>4 DEF OnceI
  <2> QED
    BY <1>1, <2>1, <2>2, <2>3, <2>4
<1>5. \A i \in 1..Len(u) : InItems(u, u[i])
  BY DEF InItems
<1> QED
  BY <1>1, <1>2, <1>3, <1>4, <1>5 DEF u

LEMMA OneItem ==
  ASSUME NEW o \in Op
  PROVE  /\ <<o>> \in Seq(Op) /\ OnceI(<<o>>) /\ \A v : InItems(<<o>>, v) <=> v = o
         /\ Len(<<o>>) = 1 /\ \A s \in Seq(Op) : Append(s, o) = s \o <<o>>
<1>1. <<o>> \in Seq(Op) /\ Len(<<o>>) = 1 /\ <<o>>[1] = o /\ \A i \in 1..1 : i = 1
  OBVIOUS
<1>2. \A s \in Seq(Op) : Append(s, o) = s \o <<o>>
  OBVIOUS
<1> QED
  BY <1>1, <1>2 DEF OnceI, InItems

LEMMA ItemTaken ==
  ASSUME NEW s \in Seq(Op), s # <<>>, OnceI(s)
  PROVE  /\ Head(s) \in Op /\ Tail(s) \in Seq(Op) /\ OnceI(Tail(s)) /\ Len(s) = Len(Tail(s)) + 1
         /\ Len(Tail(s)) \in Nat /\ InItems(s, Head(s))
         /\ \A v : InItems(Tail(s), v) <=> InItems(s, v) /\ v # Head(s)
<1> DEFINE u == Tail(s)  h == Head(s)
<1>1. /\ u \in Seq(Op) /\ Len(s) \in Nat /\ Len(s) > 0 /\ Len(u) = Len(s) - 1
      /\ h = s[1] /\ h \in Op /\ \A i \in 1..Len(u) : u[i] = s[i + 1]
  OBVIOUS
<1> HIDE DEF u, h
<1>2. \A i \in 1..Len(u) : i + 1 \in 1..Len(s) /\ i + 1 # 1 /\ i \in Int /\ u[i] = s[i + 1]
  BY <1>1
<1>3. \A k \in 1..Len(s) : k = 1 \/ (k - 1 \in 1..Len(u) /\ u[k - 1] = s[k])
  <2> SUFFICES ASSUME NEW k \in 1..Len(s), k # 1 PROVE k - 1 \in 1..Len(u) /\ u[k - 1] = s[k]
    OBVIOUS
  <2>1. k - 1 \in 1..Len(u) /\ (k - 1) + 1 = k
    BY <1>1
  <2> QED
    BY <1>1, <2>1
<1>4. 1 \in 1..Len(s)
  BY <1>1
<1>5. OnceI(u)
  <2> SUFFICES ASSUME NEW i \in 1..Len(u), NEW j \in 1..Len(u), u[i] = u[j] PROVE i = j
    BY DEF OnceI
  <2>1. i + 1 = j + 1
    BY <1>2 DEF OnceI
  <2> QED
    BY <2>1
<1>6. ASSUME NEW v PROVE InItems(u, v) <=> InItems(s, v) /\ v # h
  <2>1. InItems(u, v) => InItems(s, v) /\ v # h
    BY <1>1, <1>2, <1>4 DEF InItems, OnceI
  <2>2. InItems(s, v) /\ v # h => InItems(u, v)
    BY <1>1, <1>3 DEF InItems
  <2> QED
    BY <2>1, <2>2
<1>7. InItems(s, h)
  BY <1>1, <1>4 DEF InItems
<1> QED
  BY <1>1, <1>5, <1>6, <1>7 DEF u, h

-----------------------------------------------------------------------------
(* The parts of a World.                                                    *)
LEMMA WorldIs ==
  ASSUME NEW w \in Worlds
  PROVE  /\ w.mvar.value \in Maybe /\ w.mvar.line \in Line
         /\ w.chan.items \in Seq(Op) /\ w.chan.count \in Nat /\ w.chan.closed \in BOOLEAN
         /\ w.chan.takers \in Line /\ w.chan.senders \in Line
         /\ w.sem.permits \in Nat /\ w.sem.line \in Line
         /\ w.runQ \in Seq(StepSet) /\ w.status \in [Op -> Stages] /\ w.number \in [Op -> Nat]
         /\ w.cleanups \in SUBSET Ident /\ w.taken \in [Op -> Maybe] /\ w.live \in SUBSET Op
  BY DEF Worlds

LEMMA LineIs ==
  ASSUME NEW l \in Line
  PROVE  /\ l.next \in Nat
         /\ \A e \in l.line : e \in Entry /\ e.num \in Nat /\ e.op \in Maybe /\ e.value \in Maybe
  BY DEF Line, Entry

(* An operation that waits, by a call of K, may go in and out of transit,   *)
(* and the rest of the World does not notice.                               *)
Shift(p, w, X, Y, D, K) ==
  /\ \A o \in Y : o \in X \/ (o \in Op /\ w.status[o] = "waiting" /\ p[o] \in K)
  /\ \A o \in X \ Y : /\ w.status[o] = "waiting" /\ p[o] \in K
                     /\ o \notin D /\ \E c \in w.cleanups : c.op = o

LEMMA Shifted ==
  ASSUME NEW p \in [Op -> Calls], NEW w \in Worlds, NEW u \in Worlds, NEW X, NEW Y, NEW D, NEW G,
         QueueOK(p, w, X), TakenOK(p, w, X), LiveOK(p, w, X), CleanupsOK(w, X, D, G),
         u.runQ = w.runQ, u.status = w.status, u.cleanups = w.cleanups,
         u.taken = w.taken, u.live = w.live,
         NEW K, Shift(p, w, X, Y, D, K)
  PROVE  QueueOK(p, u, Y) /\ TakenOK(p, u, Y) /\ LiveOK(p, u, Y) /\ CleanupsOK(u, Y, D, G)
<1>1. QueueOK(p, u, Y)
  BY DEF QueueOK, Shift
<1>2. TakenOK(p, u, Y)
  BY DEF TakenOK, Shift
<1>3. LiveOK(p, u, Y)
  BY DEF LiveOK, Shift
<1>4. CleanupsOK(u, Y, D, G)
  BY DEF CleanupsOK, Shift
<1> QED
  BY <1>1, <1>2, <1>3, <1>4

(* Who waits by a call of K is in the line l, but for the operations Y.     *)
AllIn(p, w, Y, K, l) == \A o \in Op \ Y : w.status[o] = "waiting" /\ p[o] \in K => IsIn(l, o)

OnlyMVar(w, u) ==
  /\ u \in Worlds
  /\ u.chan = w.chan /\ u.sem = w.sem /\ u.runQ = w.runQ /\ u.status = w.status /\ u.number = w.number
  /\ u.cleanups = w.cleanups /\ u.taken = w.taken /\ u.live = w.live
OnlyChan(w, u) ==
  /\ u \in Worlds
  /\ u.mvar = w.mvar /\ u.sem = w.sem /\ u.runQ = w.runQ /\ u.status = w.status /\ u.number = w.number
  /\ u.cleanups = w.cleanups /\ u.taken = w.taken /\ u.live = w.live
OnlySem(w, u) ==
  /\ u \in Worlds
  /\ u.mvar = w.mvar /\ u.chan = w.chan /\ u.runQ = w.runQ /\ u.status = w.status /\ u.number = w.number
  /\ u.cleanups = w.cleanups /\ u.taken = w.taken /\ u.live = w.live

LEMMA MVarChange ==
  ASSUME NEW p \in [Op -> Calls], NEW w, NEW u, NEW X, NEW Y, NEW H, NEW J, NEW D, NEW G,
         Sound(p, w, X, H, D, G), OnlyMVar(w, u),
         Shift(p, w, X, Y, D, Takes \cup {"putMVar"}),
         MVarLine(p, u, Y), PlacesOK(p, u, J),
         AllIn(p, w, Y, Takes \cup {"putMVar"}, u.mvar.line)
  PROVE  Sound(p, u, Y, J, D, G) /\ SameSem(p, w, u)
<1> USE DEF OnlyMVar
<1>1. w \in Worlds /\ QueueOK(p, w, X) /\ TakenOK(p, w, X) /\ LiveOK(p, w, X) /\ CleanupsOK(w, X, D, G)
  BY DEF Sound
<1>2. QueueOK(p, u, Y) /\ TakenOK(p, u, Y) /\ LiveOK(p, u, Y) /\ CleanupsOK(u, Y, D, G)
  BY <1>1, Shifted
<1>3. ChanLines(p, u, Y)
  BY DEF Shift, Sound, ChanLines, Behind, Takes
<1>4. SemLine(p, u, Y)
  BY DEF Shift, Sound, SemLine, Behind, Takes, Acquires
<1>5. WaitersOK(p, u, Y)
  <2> SUFFICES ASSUME NEW o \in Op \ Y, u.status[o] = "waiting" PROVE HasLine(p, u, o)
    BY DEF WaitersOK
  <2>1. CASE p[o] \in Takes \cup {"putMVar"}
    BY <2>1 DEF AllIn, HasLine, Takes, Acquires, Handoffs, Asyncs
  <2>2. CASE p[o] \notin Takes \cup {"putMVar"}
    <3>1. o \notin X
      BY <2>2 DEF Shift
    <3>2. HasLine(p, w, o)
      BY <3>1 DEF Sound, WaitersOK
    <3> QED
      BY <2>2, <3>2 DEF HasLine
  <2> QED
    BY <2>1, <2>2
<1>6. ChanHeld(u)
  BY DEF Sound, ChanHeld
<1>7. SameSem(p, w, u)
  BY DEF SameSem, GrantedIn, AddedIn
<1> QED
  BY <1>2, <1>3, <1>4, <1>5, <1>6, <1>7 DEF Sound

LEMMA ChanChange ==
  ASSUME NEW p \in [Op -> Calls], NEW w, NEW u, NEW X, NEW Y, NEW H, NEW J, NEW D, NEW G,
         Sound(p, w, X, H, D, G), OnlyChan(w, u),
         Shift(p, w, X, Y, D, {"recv", "send"}),
         ChanLines(p, u, Y), PlacesOK(p, u, J), ChanHeld(u),
         AllIn(p, w, Y, {"recv"}, u.chan.takers), AllIn(p, w, Y, {"send"}, u.chan.senders)
  PROVE  Sound(p, u, Y, J, D, G) /\ SameSem(p, w, u)
<1> USE DEF OnlyChan
<1>1. w \in Worlds /\ QueueOK(p, w, X) /\ TakenOK(p, w, X) /\ LiveOK(p, w, X) /\ CleanupsOK(w, X, D, G)
  BY DEF Sound
<1>2. QueueOK(p, u, Y) /\ TakenOK(p, u, Y) /\ LiveOK(p, u, Y) /\ CleanupsOK(u, Y, D, G)
  BY <1>1, Shifted
<1>3. MVarLine(p, u, Y)
  BY DEF Shift, Sound, MVarLine, Behind, Takes, Taker, Putter
<1>4. SemLine(p, u, Y)
  BY DEF Shift, Sound, SemLine, Behind, Acquires
<1>5. WaitersOK(p, u, Y)
  <2> SUFFICES ASSUME NEW o \in Op \ Y, u.status[o] = "waiting" PROVE HasLine(p, u, o)
    BY DEF WaitersOK
  <2>1. CASE p[o] \in {"recv", "send"}
    BY <2>1 DEF AllIn, HasLine, Takes, Acquires, Handoffs, Asyncs
  <2>2. CASE p[o] \notin {"recv", "send"}
    <3>1. o \notin X
      BY <2>2 DEF Shift
    <3>2. HasLine(p, w, o)
      BY <3>1 DEF Sound, WaitersOK
    <3> QED
      BY <2>2, <3>2 DEF HasLine
  <2> QED
    BY <2>1, <2>2
<1>7. SameSem(p, w, u)
  BY DEF SameSem, GrantedIn, AddedIn
<1> QED
  BY <1>2, <1>3, <1>4, <1>5, <1>7 DEF Sound

LEMMA SemChange ==
  ASSUME NEW p \in [Op -> Calls], NEW w, NEW u, NEW X, NEW Y, NEW H, NEW D, NEW G,
         Sound(p, w, X, H, D, G), OnlySem(w, u),
         Shift(p, w, X, Y, D, Acquires),
         SemLine(p, u, Y),
         AllIn(p, w, Y, Acquires, u.sem.line)
  PROVE  Sound(p, u, Y, H, D, G) /\ GrantedIn(p, u) = GrantedIn(p, w) /\ AddedIn(p, u) = AddedIn(p, w)
<1> USE DEF OnlySem
<1>1. w \in Worlds /\ QueueOK(p, w, X) /\ TakenOK(p, w, X) /\ LiveOK(p, w, X) /\ CleanupsOK(w, X, D, G)
  BY DEF Sound
<1>2. QueueOK(p, u, Y) /\ TakenOK(p, u, Y) /\ LiveOK(p, u, Y) /\ CleanupsOK(u, Y, D, G)
  BY <1>1, Shifted
<1>3. MVarLine(p, u, Y)
  BY DEF Shift, Sound, MVarLine, Behind, Takes, Acquires, Taker, Putter
<1>4. ChanLines(p, u, Y)
  BY DEF Shift, Sound, ChanLines, Behind, Acquires
<1>5. WaitersOK(p, u, Y)
  <2> SUFFICES ASSUME NEW o \in Op \ Y, u.status[o] = "waiting" PROVE HasLine(p, u, o)
    BY DEF WaitersOK
  <2>1. CASE p[o] \in Acquires
    BY <2>1 DEF AllIn, HasLine, Takes, Acquires, Handoffs, Asyncs
  <2>2. CASE p[o] \notin Acquires
    <3>1. o \notin X
      BY <2>2 DEF Shift
    <3>2. HasLine(p, w, o)
      BY <3>1 DEF Sound, WaitersOK
    <3> QED
      BY <2>2, <3>2 DEF HasLine
  <2> QED
    BY <2>1, <2>2
<1>6. ChanHeld(u)
  BY DEF Sound, ChanHeld
<1>7. PlacesOK(p, u, H)
  <2>1. PlacesOK(p, w, H)
    BY DEF Sound
  <2>2. \A v : PlaceOf(w, H, v) => PlaceOf(u, H, v)
    BY DEF PlaceOf, TakenBy
  <2> QED
    BY <2>1, <2>2 DEF PlacesOK, OnceT
<1>8. GrantedIn(p, u) = GrantedIn(p, w) /\ AddedIn(p, u) = AddedIn(p, w)
  BY DEF GrantedIn, AddedIn
<1> QED
  BY <1>2, <1>3, <1>4, <1>5, <1>6, <1>7, <1>8 DEF Sound

-----------------------------------------------------------------------------
(* Completing operations.                                                   *)

(* A value in the queue that is not a put one is the permits of its step.   *)
LEMMA OwnValue ==
  ASSUME NEW p \in [Op -> Calls], NEW q \in Seq(StepSet), \A i \in 1..Len(q) : StepOK(p, q[i]),
         NEW o \in Op, p[o] \in Acquires \cup {"tryAcquireN"}
  PROVE  ValQ(q, o) <=> InQ(q, o) /\ p[o] \in Acquires
<1>0. o \notin PutOps(p) /\ o # None
  BY NeedIs DEF PutOps, Puts, Acquires
<1>1. ASSUME NEW i \in 1..Len(q), q[i].value = o PROVE q[i].op = o /\ p[o] \in Acquires
  <2>1. q[i] \in StepSet /\ StepOK(p, q[i])
    OBVIOUS
  <2>2. q[i].op \in Op /\ p[q[i].op] \in Calls
    BY <2>1 DEF StepSet
  <2>3. p[q[i].op] \notin Takes /\ p[q[i].op] # "recv" /\ p[q[i].op] \notin Asyncs \cup Pinneds
    BY <1>0, <1>1, <2>1 DEF StepOK
  <2>4. p[q[i].op] \in Acquires
    BY <2>2, <2>3 DEF Calls, Handoffs
  <2> QED
    BY <1>1, <2>1, <2>4 DEF StepOK
<1>2. ASSUME NEW i \in 1..Len(q), q[i].op = o, p[o] \in Acquires PROVE q[i].value = o
  BY <1>2 DEF StepOK
<1> QED
  BY <1>1, <1>2 DEF ValQ, InQ

AcquiresOf(p, ops) == {o \in ops : p[o] \in Acquires}

(* Steps for the operations ops, with the values vals.                      *)
StepsOf(p, steps, ops, vals) ==
  /\ steps \in Seq(StepSet) /\ OnceQ(steps) /\ OnceV(p, steps)
  /\ \A i \in 1..Len(steps) : StepOK(p, steps[i])
  /\ \A o : o \in ops <=> InQ(steps, o)
  /\ \A v \in PutOps(p) : v \in vals <=> ValQ(steps, v)
StepsFor(p, steps, ops, vals) ==
  StepsOf(p, steps, ops, vals) /\ \A o \in ops : p[o] \notin Pinneds
NotDone(p, w, ops) == \A o \in ops : p[o] \in Pinneds => o \notin w.live

(* The queue is not shorter than it was.                                    *)
Longer(w, u) == \A n \in Nat : n <= Len(w.runQ) => n <= Len(u.runQ)

(* What changes when the operations ops are made ready, and what does not.  *)
Readied(p, w, u, ops) ==
  /\ Longer(w, u)
  /\ u.mvar = w.mvar /\ u.chan = w.chan /\ u.sem = w.sem /\ u.number = w.number
  /\ u.taken = w.taken /\ u.live = w.live
  /\ \A o \in Op \ ops : u.status[o] = w.status[o]
  /\ AddedIn(p, u) = AddedIn(p, w)
  /\ GrantedIn(p, u) = GrantedIn(p, w) \cup AcquiresOf(p, ops)
  /\ GrantedIn(p, w) \cap AcquiresOf(p, ops) = {}

LEMMA Wakened ==
  ASSUME NEW p \in [Op -> Calls], NEW w, NEW X \in SUBSET Op, NEW H, NEW D, NEW G, Sound(p, w, X, H, D, G),
         NEW steps, NEW ops \in SUBSET X, NEW vals \in SUBSET H, StepsOf(p, steps, ops, vals),
         NotDone(p, w, ops), NEW u, u = Wake(w, steps)
  PROVE  Sound(p, u, X \ ops, H \ vals, D, G) /\ Readied(p, w, u, ops)
<1> DEFINE st == [o \in Op |-> IF o \in ops THEN "ready" ELSE w.status[o]]
           cs == Without(w.cleanups, ops)
           q  == w.runQ \o steps
<1>0. /\ steps \in Seq(StepSet) /\ OnceQ(steps) /\ OnceV(p, steps)
      /\ \A i \in 1..Len(steps) : StepOK(p, steps[i])
      /\ \A o : o \in ops <=> InQ(steps, o)
      /\ \A o \in ops : p[o] \in Pinneds => o \notin w.live
      /\ \A v \in PutOps(p) : v \in vals <=> ValQ(steps, v)
  BY DEF StepsOf, NotDone
<1>1. w \in Worlds /\ QueueOK(p, w, X) /\ TakenOK(p, w, X) /\ LiveOK(p, w, X) /\ CleanupsOK(w, X, D, G)
      /\ MVarLine(p, w, X) /\ ChanLines(p, w, X) /\ SemLine(p, w, X) /\ WaitersOK(p, w, X)
      /\ PlacesOK(p, w, H) /\ ChanHeld(w)
  BY DEF Sound
<1>2. {steps[i].op : i \in DOMAIN steps} = ops
  BY <1>0 DEF InQ
<1>3. u = [w EXCEPT !.status = st, !.cleanups = cs, !.runQ = q]
  <2>1. u = [w EXCEPT !.status   = [o \in Op |-> IF o \in {steps[i].op : i \in DOMAIN steps} THEN "ready" ELSE @[o]],
                      !.cleanups = Without(@, {steps[i].op : i \in DOMAIN steps}),
                      !.runQ     = @ \o steps]
    BY DEF Wake
  <2> QED
    BY <1>2, <2>1
<1>4. w.runQ \in Seq(StepSet) /\ w.status \in [Op -> Stages] /\ w.cleanups \in SUBSET Ident /\ w.live \in SUBSET Op
      /\ w.taken \in [Op -> Maybe]
  BY <1>1, WorldIs
<1>5. st \in [Op -> Stages] /\ cs \in SUBSET Ident
  BY <1>4 DEF Stages, Without
<1>6. /\ \A o : InQ(steps, o) => ~InQ(w.runQ, o)
      /\ \A v \in PutOps(p) : ValQ(steps, v) => ~ValQ(w.runQ, v)
  <2>1. \A o : InQ(steps, o) => ~InQ(w.runQ, o)
    BY <1>0, <1>1 DEF QueueOK
  <2>2. \A v \in PutOps(p) : ValQ(steps, v) => ~ValQ(w.runQ, v)
    BY <1>0, <1>1 DEF PlacesOK, PlaceOf, Placed, One
  <2> QED
    BY <2>1, <2>2
<1>7. /\ q \in Seq(StepSet) /\ OnceQ(q) /\ OnceV(p, q)
      /\ \A o : InQ(q, o) <=> InQ(w.runQ, o) \/ InQ(steps, o)
      /\ \A v : ValQ(q, v) <=> ValQ(w.runQ, v) \/ ValQ(steps, v)
      /\ \A i \in 1..Len(q) : \/ \E k \in 1..Len(w.runQ) : q[i] = w.runQ[k]
                              \/ \E k \in 1..Len(steps) : q[i] = steps[k]
  <2>1. OnceQ(w.runQ) /\ OnceV(p, w.runQ)
    BY <1>1 DEF QueueOK, PlacesOK
  <2> QED
    BY <1>0, <1>4, <1>6, <2>1, QueueGrows
<1> HIDE DEF q
<1>8. u \in Worlds
  <2> HIDE DEF st, cs
  <2> QED
    BY <1>1, <1>3, <1>5, <1>7 DEF Worlds
<1>9. u.status = st /\ u.cleanups = cs /\ u.runQ = q /\ u.mvar = w.mvar /\ u.chan = w.chan /\ u.sem = w.sem
      /\ u.number = w.number /\ u.taken = w.taken /\ u.live = w.live
  <2> HIDE DEF st, cs
  <2> QED
    BY <1>1, <1>3 DEF Worlds
<1>10. \A o \in Op : u.status[o] = IF o \in ops THEN "ready" ELSE w.status[o]
  BY <1>9
<1>11. \A c : c \in u.cleanups <=> c \in w.cleanups /\ c.op \notin ops
  BY <1>9 DEF Without
<1> HIDE DEF st, cs
<1>12. MVarLine(p, u, X \ ops)
  BY <1>0, <1>1, <1>9, <1>10 DEF MVarLine, Behind, Taker, Putter
<1>13. ChanLines(p, u, X \ ops)
  BY <1>1, <1>9, <1>10 DEF ChanLines, Behind
<1>14. SemLine(p, u, X \ ops)
  BY <1>1, <1>9, <1>10 DEF SemLine, Behind
<1>15. WaitersOK(p, u, X \ ops)
  <2> SUFFICES ASSUME NEW o \in Op \ (X \ ops), u.status[o] = "waiting" PROVE HasLine(p, u, o)
    BY DEF WaitersOK
  <2>1. o \notin X /\ w.status[o] = "waiting"
    BY <1>10
  <2>2. HasLine(p, w, o)
    BY <1>1, <2>1 DEF WaitersOK
  <2> QED
    BY <1>9, <2>2 DEF HasLine
<1>16. QueueOK(p, u, X \ ops)
  <2>1. \A i \in 1..Len(q) : StepOK(p, q[i])
    BY <1>0, <1>1, <1>7 DEF QueueOK
  <2>2. \A o \in Op \ (X \ ops) : InQ(q, o) <=> u.status[o] = "ready"
    BY <1>0, <1>1, <1>7, <1>10 DEF QueueOK
  <2>3. \A o \in X \ ops : ~InQ(q, o)
    BY <1>0, <1>1, <1>7 DEF QueueOK
  <2> QED
    BY <1>7, <1>9, <2>1, <2>2, <2>3 DEF QueueOK
<1>17. TakenOK(p, u, X \ ops)
  BY <1>1, <1>9, <1>10 DEF TakenOK
<1>18. LiveOK(p, u, X \ ops)
  <2> SUFFICES ASSUME NEW o \in w.live
               PROVE  /\ p[o] \in Puts \cup {"releaseN"}
                      /\ o \notin X \ ops => u.status[o] # "idle"
                      /\ p[o] \in Pinneds => u.status[o] = "over"
    BY <1>9 DEF LiveOK
  <2>1. o \in Op
    BY <1>4
  <2> QED
    BY <1>0, <1>1, <1>10, <2>1 DEF LiveOK
<1>19. PlacesOK(p, u, H \ vals)
  <2>1. \A v \in PutOps(p) : PlaceOf(w, H, v) => PlaceOf(u, H \ vals, v)
    <3> SUFFICES ASSUME NEW v \in PutOps(p), PlaceOf(w, H, v) PROVE PlaceOf(u, H \ vals, v)
      OBVIOUS
    <3>1. ValQ(u.runQ, v) <=> ValQ(w.runQ, v) \/ v \in vals
      BY <1>0, <1>7, <1>9
    <3>2. TakenBy(u, v) <=> TakenBy(w, v)
      BY <1>9 DEF TakenBy
    <3> QED
      BY <1>9, <3>1, <3>2 DEF PlaceOf, Placed, One
  <2>2. OnceV(p, u.runQ) /\ OnceT(p, u)
    BY <1>1, <1>7, <1>9 DEF PlacesOK, OnceT
  <2> QED
    BY <1>1, <1>9, <2>1, <2>2 DEF PlacesOK
<1>20. ChanHeld(u)
  BY <1>1, <1>9 DEF ChanHeld
<1>21. CleanupsOK(u, X \ ops, D, G)
  <2>1. IdentsOK(u.cleanups)
    <3>1. u.cleanups \subseteq w.cleanups
      BY <1>11
    <3> QED
      BY <1>1, <3>1, FS_Subset DEF CleanupsOK, IdentsOK
  <2>2. ASSUME NEW c \in u.cleanups
        PROVE  c.op \notin G /\ (c.op \notin X \ ops => u.status[c.op] \in {"waiting", "inside"} /\ c.op \notin D)
    <3>1. c \in w.cleanups /\ c.op \notin ops /\ c.op \in Op
      BY <1>4, <1>11 DEF Ident
    <3> QED
      BY <1>1, <1>10, <3>1 DEF CleanupsOK
  <2>3. ASSUME NEW o \in Op \ (X \ ops), u.status[o] \in {"waiting", "inside"}, o \notin D
        PROVE  \E c \in u.cleanups : c.op = o
    <3>1. o \notin ops /\ o \notin X /\ w.status[o] \in {"waiting", "inside"}
      BY <1>10, <2>3
    <3>2. PICK c \in w.cleanups : c.op = o
      BY <1>1, <2>3, <3>1 DEF CleanupsOK
    <3> QED
      BY <1>11, <3>1, <3>2
  <2> QED
    BY <2>1, <2>2, <2>3 DEF CleanupsOK
<1>22. AddedIn(p, u) = AddedIn(p, w)
  BY <1>9 DEF AddedIn
<1>23. \A o \in Op : p[o] \in Acquires \cup {"tryAcquireN"} =>
         (ValQ(q, o) <=> ValQ(w.runQ, o) \/ (o \in ops /\ p[o] \in Acquires))
  BY <1>0, <1>7, OwnValue
<1>24. GrantedIn(p, u) = GrantedIn(p, w) \cup {o \in ops : p[o] \in Acquires}
  <2>1. \A o : o \in GrantedIn(p, u) <=> o \in GrantedIn(p, w) \/ (o \in ops /\ p[o] \in Acquires)
    BY <1>9, <1>23 DEF GrantedIn
  <2> QED
    BY <2>1
<1>25. ASSUME NEW o \in GrantedIn(p, w), o \in ops, p[o] \in Acquires PROVE FALSE
  <2>1. w.taken[o] # o
    BY <1>1, <1>25, NeedIs DEF TakenOK
  <2>2. ~InQ(w.runQ, o)
    BY <1>0, <1>6, <1>25
  <2>3. ~ValQ(w.runQ, o)
    BY <1>1, <1>4, <1>25, <2>2, OwnValue DEF QueueOK
  <2> QED
    BY <1>25, <2>1, <2>3 DEF GrantedIn
<1>26. Longer(w, u)
  <2>1. Len(w.runQ \o steps) = Len(w.runQ) + Len(steps) /\ Len(w.runQ) \in Nat /\ Len(steps) \in Nat
    BY <1>0, <1>4
  <2> QED
    BY <1>9, <2>1 DEF Longer, q
<1> QED
  BY <1>8, <1>9, <1>10, <1>12, <1>13, <1>14, <1>15, <1>16, <1>17, <1>18, <1>19, <1>20, <1>21,
     <1>22, <1>24, <1>25, <1>26 DEF Sound, Readied, AcquiresOf

LEMMA Woken ==
  ASSUME NEW p \in [Op -> Calls], NEW w, NEW X \in SUBSET Op, NEW H, NEW D, NEW G, Sound(p, w, X, H, D, G),
         NEW steps, NEW ops \in SUBSET X, NEW vals \in SUBSET H, StepsFor(p, steps, ops, vals),
         NEW u, u = Wake(w, steps)
  PROVE  Sound(p, u, X \ ops, H \ vals, D, G) /\ Readied(p, w, u, ops)
<1>1. StepsOf(p, steps, ops, vals) /\ NotDone(p, w, ops)
  BY DEF StepsFor, NotDone
<1> QED
  BY <1>1, Wakened

LEMMA DoneOf ==
  ASSUME NEW p \in [Op -> Calls], NEW w, NEW X \in SUBSET Op, NEW H, NEW D, NEW G, Sound(p, w, X, H, D, G),
         NEW o \in X, NEW v \in Maybe, StepOK(p, Step(o, v, FALSE)), v \in PutOps(p) => v \in H,
         NEW u, u = Done(w, o, v)
  PROVE  Sound(p, u, X \ {o}, H \ {v}, D, G) /\ Readied(p, w, u, {o})
<1> DEFINE s == Step(o, v, FALSE)
           vals == {v} \cap PutOps(p)
<1>1. s \in StepSet /\ s.op = o /\ s.value = v /\ s.pinned = FALSE
  BY DEF Step, StepSet
<1>2. u = Wake(w, <<s>>)
  BY NeedIs DEF Done
<1>3. p[o] \notin Pinneds
  BY <1>1 DEF StepOK
<1> HIDE DEF s
<1>4. /\ <<s>> \in Seq(StepSet) /\ OnceQ(<<s>>) /\ OnceV(p, <<s>>)
      /\ \A q : InQ(<<s>>, q) <=> q = o
      /\ \A x : ValQ(<<s>>, x) <=> x = v
      /\ \A i \in 1..Len(<<s>>) : <<s>>[i] = s
  BY <1>1, OneStep
<1>5. \A i \in 1..Len(<<s>>) : StepOK(p, <<s>>[i])
  BY <1>4 DEF s
<1>6. {o} \in SUBSET X /\ (\A q : q \in {o} <=> InQ(<<s>>, q)) /\ \A q \in {o} : p[q] \notin Pinneds
  BY <1>3, <1>4
<1>7. vals \in SUBSET H /\ \A x \in PutOps(p) : x \in vals <=> ValQ(<<s>>, x)
  BY <1>4
<1>8. H \subseteq PutOps(p)
  BY DEF Sound, PlacesOK
<1>9. H \ vals = H \ {v}
  BY <1>8
<1> DEFINE ss == <<s>>  ops == {o}
<1>12. StepsFor(p, ss, ops, vals)
  BY <1>4, <1>5, <1>6, <1>7 DEF StepsFor, StepsOf
<1>13. ops \in SUBSET X /\ vals \in SUBSET H /\ u = Wake(w, ss)
  BY <1>2, <1>7
<1> HIDE DEF vals, ss, ops
<1>10. Sound(p, u, X \ ops, H \ vals, D, G) /\ Readied(p, w, u, ops)
  BY <1>12, <1>13, Woken
<1>14. Sound(p, u, X \ {o}, H \ {v}, D, G) /\ Readied(p, w, u, {o})
  BY <1>9, <1>10 DEF ops
<1> QED
  BY <1>14

LEMMA ReadiedOne ==
  ASSUME NEW p, NEW w, NEW u, NEW o, Readied(p, w, u, {o})
  PROVE  /\ p[o] \notin Acquires => SameSem(p, w, u)
         /\ p[o] \in Acquires => GrantedIn(p, u) = GrantedIn(p, w) \cup {o} /\ o \notin GrantedIn(p, w)
<1>1. AcquiresOf(p, {o}) = IF p[o] \in Acquires THEN {o} ELSE {}
  BY DEF AcquiresOf
<1> QED
  BY <1>1 DEF SameSem, Readied

(* What changes when o starts to wait with the number k, and what does not. *)
Waiting(w, u, o, k) ==
  /\ u \in Worlds
  /\ u.mvar = w.mvar /\ u.chan = w.chan /\ u.sem = w.sem /\ u.runQ = w.runQ
  /\ u.taken = w.taken /\ u.live = w.live
  /\ u.status = [w.status EXCEPT ![o] = "waiting"] /\ u.number = [w.number EXCEPT ![o] = k]
  /\ u.cleanups = w.cleanups \cup {[num |-> Fresh(w.cleanups), op |-> o]}

LEMMA WaitFields ==
  ASSUME NEW w \in Worlds, IsFiniteSet(w.cleanups), NEW o \in Op, NEW k \in Nat, NEW u, u = Wait(w, o, k)
  PROVE  Waiting(w, u, o, k)
<1>1. w.cleanups \in SUBSET Ident /\ w.status \in [Op -> Stages] /\ w.number \in [Op -> Nat]
  BY WorldIs
<1>2. Fresh(w.cleanups) \in Nat
  BY <1>1, FreshIdent
<1> DEFINE st == [w.status EXCEPT ![o] = "waiting"]
           nu == [w.number EXCEPT ![o] = k]
           cs == w.cleanups \cup {[num |-> Fresh(w.cleanups), op |-> o]}
<1>3. cs \in SUBSET Ident /\ st \in [Op -> Stages] /\ nu \in [Op -> Nat]
  BY <1>1, <1>2 DEF Ident, Stages
<1>4. u = [w EXCEPT !.status = st, !.number = nu, !.cleanups = cs]
  BY DEF Wait, Register, Worlds
<1> HIDE DEF st, nu, cs
<1>5. /\ u \in Worlds
      /\ u.mvar = w.mvar /\ u.chan = w.chan /\ u.sem = w.sem /\ u.runQ = w.runQ
      /\ u.taken = w.taken /\ u.live = w.live /\ u.status = st /\ u.number = nu /\ u.cleanups = cs
  BY <1>3, <1>4 DEF Worlds
<1> QED
  BY <1>5 DEF Waiting, st, nu, cs

LEMMA WaitOf ==
  ASSUME NEW p \in [Op -> Calls], NEW w, NEW X \in SUBSET Op, NEW H, NEW D, NEW G, Sound(p, w, X, H, D, G),
         NEW o \in X, p[o] \notin Pinneds, o \notin D, o \notin G, NEW k \in Nat, NEW u, u = Wait(w, o, k)
  PROVE  Sound(p, u, X, H, D, G) /\ Waiting(w, u, o, k)
<1>1. w \in Worlds /\ QueueOK(p, w, X) /\ TakenOK(p, w, X) /\ LiveOK(p, w, X) /\ CleanupsOK(w, X, D, G)
      /\ MVarLine(p, w, X) /\ ChanLines(p, w, X) /\ SemLine(p, w, X) /\ WaitersOK(p, w, X)
      /\ PlacesOK(p, w, H) /\ ChanHeld(w)
  BY DEF Sound
<1>2. IsFiniteSet(w.cleanups) /\ w.cleanups \in SUBSET Ident
  BY <1>1, WorldIs DEF CleanupsOK, IdentsOK
<1>17. Waiting(w, u, o, k)
  BY <1>1, <1>2, WaitFields
<1> DEFINE c0 == [num |-> Fresh(w.cleanups), op |-> o]
<1>3. /\ u \in Worlds
      /\ u.mvar = w.mvar /\ u.chan = w.chan /\ u.sem = w.sem /\ u.runQ = w.runQ
      /\ u.taken = w.taken /\ u.live = w.live
      /\ u.status = [w.status EXCEPT ![o] = "waiting"] /\ u.number = [w.number EXCEPT ![o] = k]
      /\ u.cleanups = w.cleanups \cup {c0}
  BY <1>17 DEF Waiting
<1>4. Fresh(w.cleanups) \in Nat /\ \A c \in w.cleanups : c.num < Fresh(w.cleanups)
  BY <1>2, FreshIdent
<1>5. c0.num = Fresh(w.cleanups) /\ c0.op = o
  OBVIOUS
<1> HIDE DEF c0
<1>6. /\ \A q \in Op \ X : u.status[q] = w.status[q] /\ u.number[q] = w.number[q]
      /\ \A q \in Op : q # o => u.status[q] = w.status[q] /\ u.number[q] = w.number[q]
  BY <1>3
<1>7. MVarLine(p, u, X)
  BY <1>1, <1>3, <1>6 DEF MVarLine, Behind, Taker, Putter
<1>8. ChanLines(p, u, X)
  BY <1>1, <1>3, <1>6 DEF ChanLines, Behind
<1>9. SemLine(p, u, X)
  BY <1>1, <1>3, <1>6 DEF SemLine, Behind
<1>10. WaitersOK(p, u, X)
  BY <1>1, <1>3, <1>6 DEF WaitersOK, HasLine
<1>11. QueueOK(p, u, X)
  BY <1>1, <1>3, <1>6 DEF QueueOK
<1>12. TakenOK(p, u, X)
  BY <1>1, <1>3, <1>6 DEF TakenOK
<1>13. LiveOK(p, u, X)
  <2>1. w.live \subseteq Op
    BY <1>1, WorldIs
  <2> QED
    BY <1>1, <1>3, <1>6, <2>1 DEF LiveOK
<1>14. PlacesOK(p, u, H)
  <2>1. \A v : PlaceOf(w, H, v) => PlaceOf(u, H, v)
    BY <1>3 DEF PlaceOf, TakenBy
  <2> QED
    BY <1>1, <1>3, <2>1 DEF PlacesOK, OnceT
<1>15. ChanHeld(u)
  BY <1>1, <1>3 DEF ChanHeld
<1>16. CleanupsOK(u, X, D, G)
  <2>1. IsFiniteSet(u.cleanups)
    BY <1>2, <1>3, FS_AddElement
  <2>2. ASSUME NEW c \in u.cleanups, NEW d \in u.cleanups, c.num = d.num PROVE c = d
    <3>1. \A e \in w.cleanups : e.num # c0.num
      BY <1>2, <1>4, <1>5 DEF Ident
    <3> QED
      BY <1>1, <1>3, <2>2, <3>1 DEF CleanupsOK, IdentsOK
  <2>3. \A c \in u.cleanups :
          /\ c.op \notin G
          /\ c.op \notin X => u.status[c.op] \in {"waiting", "inside"} /\ c.op \notin D
    BY <1>1, <1>2, <1>3, <1>5, <1>6 DEF CleanupsOK, Ident
  <2>4. \A q \in Op \ X : u.status[q] \in {"waiting", "inside"} /\ q \notin D => \E c \in u.cleanups : c.op = q
    BY <1>1, <1>3, <1>6 DEF CleanupsOK
  <2> QED
    BY <2>1, <2>2, <2>3, <2>4 DEF CleanupsOK, IdentsOK
<1> QED
  BY <1>1, <1>2, <1>3, <1>7, <1>8, <1>9, <1>10, <1>11, <1>12, <1>13, <1>14, <1>15, <1>16, <1>17 DEF Sound

-----------------------------------------------------------------------------
(* MVar.                                                                    *)
LEMMA EntryGained ==
  ASSUME NEW p \in [Op -> Calls], NEW S, NEW T, NEW e, T = S \cup {e}, OnceE(p, S),
         e.value \in PutOps(p) => ~InEntries(S, e.value)
  PROVE  OnceE(p, T) /\ \A v : InEntries(T, v) <=> InEntries(S, v) \/ v = e.value
  BY DEF OnceE, InEntries

LEMMA MVarField ==
  ASSUME NEW w \in Worlds, NEW m, m \in [value : Maybe, line : Line], NEW u, u = [w EXCEPT !.mvar = m]
  PROVE  OnlyMVar(w, u) /\ u.mvar = m
  BY DEF Worlds, OnlyMVar

(* A handler that has to do with other operations than those that wait.     *)
Aside(p, w, u) ==
  /\ SameSem(p, w, u) /\ u.taken = w.taken /\ u.live = w.live /\ Longer(w, u)
  /\ \A o \in Op : w.status[o] # "waiting" => u.status[o] = w.status[o]

LEMMA AsideOnly ==
  ASSUME NEW p, NEW w, NEW u, SameSem(p, w, u), OnlyMVar(w, u) \/ OnlyChan(w, u)
  PROVE  Aside(p, w, u)
  BY DEF Aside, OnlyMVar, OnlyChan, Longer

LEMMA AsideDone ==
  ASSUME NEW p, NEW w, NEW x, NEW u, NEW o, Aside(p, w, x), Readied(p, x, u, {o}),
         p[o] \notin Acquires, w.status[o] = "waiting"
  PROVE  Aside(p, w, u)
<1>1. SameSem(p, x, u)
  BY ReadiedOne
<1>2. SameSem(p, w, u)
  BY <1>1 DEF Aside, SameSem
<1> QED
  BY <1>2 DEF Aside, Readied, Longer

LEMMA AsideTwice ==
  ASSUME NEW p, NEW w, NEW x, NEW u, Aside(p, w, x), Aside(p, x, u)
  PROVE  Aside(p, w, u)
<1>1. SameSem(p, w, u)
  BY DEF Aside, SameSem
<1> QED
  BY <1>1 DEF Aside, Longer

LEMMA RefillOf ==
  ASSUME NEW p \in [Op -> Calls], NEW w, NEW X \in SUBSET Op, NEW H, NEW D, NEW G, Sound(p, w, X, H, D, G),
         NEW v, v = w.mvar.value, v # None, NEW u, u = Refill(w)
  PROVE  Sound(p, u, X, H \cup {v}, D, G) /\ Aside(p, w, u)
<1> DEFINE l == w.mvar.line
           K == Takes \cup {"putMVar"}
<1>1. w \in Worlds /\ MVarLine(p, w, X) /\ PlacesOK(p, w, H) /\ WaitersOK(p, w, X)
  BY DEF Sound
<1>2. l \in Line /\ LineOK(l) /\ v \in PutOps(p) /\ \A e \in l.line : Putter(p, w, X, e)
  BY <1>1, WorldIs DEF MVarLine
<1>3. AllIn(p, w, X, K, l)
  BY <1>1 DEF WaitersOK, HasLine, AllIn
<1>4. H \cup {v} \subseteq PutOps(p) /\ None \notin PutOps(p)
  BY <1>1, <1>2, NeedIs DEF PlacesOK, PutOps
<1>5. CASE ~Waits(l)
  <2> DEFINE m == [value |-> None, line |-> Nobody]
  <2>1. m \in [value : Maybe, line : Line] /\ Nobody.line = {} /\ LineOK(Nobody)
    BY EmptyLine DEF Maybe
  <2>2. u = [w EXCEPT !.mvar = m]
    BY <1>5 DEF Refill
  <2>3. OnlyMVar(w, u) /\ u.mvar = m
    <3> HIDE DEF m
    <3> QED
      BY <1>1, <2>1, <2>2, MVarField
  <2>4. u.mvar.value = None /\ u.mvar.line = Nobody
    BY <2>3
  <2> HIDE DEF m
  <2>5. MVarLine(p, u, X)
    BY <2>1, <2>4 DEF MVarLine
  <2>6. Shift(p, w, X, X, D, K)
    BY DEF Shift
  <2>7. AllIn(p, w, X, K, u.mvar.line)
    BY <1>3, <1>5, <2>1, <2>4 DEF AllIn, IsIn, Waits
  <2>8. PlacesOK(p, u, H \cup {v})
    <3>1. ASSUME NEW x \in PutOps(p), PlaceOf(w, H, x) PROVE PlaceOf(u, H \cup {v}, x)
      <4>1. ~InEntries(u.mvar.line.line, x) /\ ~InEntries(w.mvar.line.line, x)
        BY <1>5, <2>1, <2>4 DEF InEntries, Waits
      <4>2. TakenBy(u, x) <=> TakenBy(w, x)
        BY <2>3 DEF OnlyMVar, TakenBy
      <4>3. u.mvar.value # x
        BY <1>4, <2>4
      <4> QED
        BY <2>3, <3>1, <4>1, <4>2, <4>3 DEF OnlyMVar, PlaceOf, Placed, One
    <3>2. OnceE(p, u.mvar.line.line)
      BY <2>1, <2>4 DEF OnceE
    <3> QED
      BY <1>1, <1>4, <2>3, <3>1, <3>2 DEF OnlyMVar, PlacesOK, OnceT
  <2>9. Sound(p, u, X, H \cup {v}, D, G) /\ SameSem(p, w, u)
    BY <2>3, <2>5, <2>6, <2>7, <2>8, MVarChange
  <2> QED
    BY <2>3, <2>9, AsideOnly
<1>6. CASE Waits(l)
  <2> DEFINE e  == First(l)
             Y  == X \cup ({e.op} \ {None})
             m  == [value |-> e.value, line |-> Rest(l)]
             w1 == [w EXCEPT !.mvar = m]
  <2>1. e \in l.line /\ Rest(l) \in Line /\ LineOK(Rest(l)) /\ Rest(l).line = l.line \ {e}
    BY <1>2, <1>6, FirstOf, RestOf
  <2>2. Putter(p, w, X, e) /\ e.value \in PutOps(p) /\ e.value # None /\ e.value \in Maybe /\ e.op \in Maybe
    BY <1>2, <1>4, <2>1, LineIs DEF Putter
  <2>3. e.op = None \/ (e.op \in Op \ X /\ w.status[e.op] = "waiting" /\ p[e.op] = "putMVar")
    BY <2>2 DEF Putter, Behind
  <2>4. m \in [value : Maybe, line : Line]
    BY <2>1, <2>2
  <2>5. OnlyMVar(w, w1) /\ w1.mvar = m
    BY ZenonT(30), <1>1, <2>4, MVarField
  <2>6. w1.mvar.value = e.value /\ w1.mvar.line = Rest(l)
    BY <2>5
  <2>7. u = Done(w1, e.op, None)
    BY <1>6 DEF Refill
  <2>8. Y \in SUBSET Op
    BY <2>3
  <2> HIDE DEF m, w1, e, Y
  <2>9. MVarLine(p, w1, Y)
    <3> SUFFICES ASSUME NEW f \in Rest(l).line PROVE Putter(p, w1, Y, f)
      BY <2>1, <2>2, <2>6 DEF MVarLine
    <3>1. f \in l.line /\ f # e /\ Putter(p, w, X, f)
      BY <1>2, <2>1
    <3>2. f.op # None => f.op # e.op
      BY <1>2, <2>1, <2>2, <3>1 DEF Putter, Behind, LineOK
    <3> QED
      BY <2>5, <3>1, <3>2 DEF Putter, Behind, OnlyMVar, Y
  <2>10. Shift(p, w, X, Y, D, K)
    BY <2>3 DEF Shift, Y
  <2>11. AllIn(p, w, Y, K, w1.mvar.line)
    <3> SUFFICES ASSUME NEW o \in Op \ Y, w.status[o] = "waiting", p[o] \in K PROVE IsIn(w1.mvar.line, o)
      BY DEF AllIn
    <3>1. o \notin X /\ o # e.op
      BY NeedIs DEF Y
    <3>2. PICK f \in l.line : f.op = o
      BY <1>3, <3>1 DEF AllIn, IsIn
    <3> QED
      BY <2>1, <2>6, <3>1, <3>2 DEF IsIn
  <2>12. PlacesOK(p, w1, H \cup {v})
    <3>0. OnceE(p, l.line)
      BY <1>1 DEF PlacesOK
    <3>1. /\ OnceE(p, Rest(l).line)
          /\ \A x \in PutOps(p) : InEntries(Rest(l).line, x) <=> InEntries(l.line, x) /\ x # e.value
      BY <2>1, <3>0 DEF OnceE, InEntries
    <3>2. InEntries(l.line, e.value)
      BY <2>1 DEF InEntries
    <3>3. ASSUME NEW x \in PutOps(p), PlaceOf(w, H, x) PROVE PlaceOf(w1, H \cup {v}, x)
      <4>1. TakenBy(w1, x) <=> TakenBy(w, x)
        BY <2>5 DEF OnlyMVar, TakenBy
      <4>2. InEntries(w1.mvar.line.line, x) <=> InEntries(l.line, x) /\ x # e.value
        BY <2>6, <3>1
      <4> QED
        BY <2>2, <2>5, <2>6, <3>2, <3>3, <4>1, <4>2 DEF OnlyMVar, PlaceOf, Placed, One
    <3> QED
      BY <1>1, <1>4, <2>5, <2>6, <3>1, <3>3 DEF OnlyMVar, PlacesOK, OnceT
  <2>13. Sound(p, w1, Y, H \cup {v}, D, G) /\ SameSem(p, w, w1)
    BY <2>5, <2>9, <2>10, <2>11, <2>12, MVarChange
  <2>14. CASE e.op = None
    BY <2>5, <2>7, <2>13, <2>14, AsideOnly DEF Done, Y
  <2>15. CASE e.op # None
    <3>1. e.op \in Y /\ Y \ {e.op} = X /\ None \in Maybe /\ (H \cup {v}) \ {None} = H \cup {v}
      BY <1>4, <2>3, <2>15 DEF Y, Maybe
    <3>2. StepOK(p, Step(e.op, None, FALSE))
      BY <2>3, <2>15 DEF StepOK, Step, Takes, Acquires, Asyncs, Pinneds
    <3>3. Sound(p, u, Y \ {e.op}, (H \cup {v}) \ {None}, D, G) /\ Readied(p, w1, u, {e.op})
      BY <1>4, <2>7, <2>8, <2>13, <3>1, <3>2, DoneOf
    <3>4. p[e.op] \notin Acquires /\ w.status[e.op] = "waiting"
      BY <2>3, <2>15 DEF Acquires
    <3>5. Aside(p, w, u)
      BY <2>5, <2>13, <3>3, <3>4, AsideOnly, AsideDone
    <3> QED
      BY <3>1, <3>3, <3>5
  <2> QED
    BY <2>14, <2>15
<1> QED
  BY <1>5, <1>6

(* A change of the cell, of the channel or of a line moves values between   *)
(* them and the hand.                                                       *)
Moves(p, w, u, H, J) ==
  \A v \in PutOps(p) :
    Placed(v \in w.live, w.mvar.value = v, InItems(w.chan.items, v), InEntries(w.mvar.line.line, v),
           InEntries(w.chan.senders.line, v), ValQ(w.runQ, v), TakenBy(w, v), v \in H)
    => Placed(v \in w.live, u.mvar.value = v, InItems(u.chan.items, v), InEntries(u.mvar.line.line, v),
              InEntries(u.chan.senders.line, v), ValQ(w.runQ, v), TakenBy(w, v), v \in J)

LEMMA MVarPlaces ==
  ASSUME NEW p \in [Op -> Calls], NEW w, NEW u, NEW H, NEW J, OnlyMVar(w, u), PlacesOK(p, w, H),
         J \subseteq PutOps(p), OnceE(p, u.mvar.line.line), Moves(p, w, u, H, J)
  PROVE  PlacesOK(p, u, J)
<1>1. \A v : TakenBy(u, v) <=> TakenBy(w, v)
  BY DEF OnlyMVar, TakenBy
<1>2. ASSUME NEW v \in PutOps(p) PROVE PlaceOf(u, J, v)
  <2>1. PlaceOf(w, H, v)
    BY DEF PlacesOK
  <2>2. Placed(v \in w.live, u.mvar.value = v, InItems(u.chan.items, v), InEntries(u.mvar.line.line, v),
               InEntries(u.chan.senders.line, v), ValQ(w.runQ, v), TakenBy(w, v), v \in J)
    BY <2>1 DEF Moves, PlaceOf
  <2> QED
    BY <1>1, <2>2 DEF PlaceOf, Placed, One, OnlyMVar
<1> QED
  BY <1>2 DEF OnlyMVar, PlacesOK, OnceT

LEMMA DeliverOf ==
  ASSUME NEW p \in [Op -> Calls], NEW w, NEW X \in SUBSET Op, NEW H, NEW D, NEW G, Sound(p, w, X, H, D, G),
         w.mvar.value = None, NEW v \in H, NEW u, u = Deliver(w, v)
  PROVE  Sound(p, u, X, H \ {v}, D, G) /\ Aside(p, w, u)
<1> DEFINE l == w.mvar.line
           K == Takes \cup {"putMVar"}
<1>1. w \in Worlds /\ MVarLine(p, w, X) /\ PlacesOK(p, w, H) /\ WaitersOK(p, w, X)
  BY DEF Sound
<1>2. l \in Line /\ LineOK(l) /\ \A e \in l.line : Taker(p, w, X, e)
  BY <1>1, WorldIs DEF MVarLine
<1>3. AllIn(p, w, X, K, l)
  BY <1>1 DEF WaitersOK, HasLine, AllIn
<1>4. H \subseteq PutOps(p) /\ None \notin PutOps(p) /\ v \in PutOps(p) /\ v # None /\ v \in Maybe
  BY <1>1, NeedIs DEF PlacesOK, PutOps, Maybe
<1>5. CASE ~Waits(l)
  <2> DEFINE m == [value |-> v, line |-> Nobody]
  <2>1. m \in [value : Maybe, line : Line] /\ Nobody.line = {} /\ LineOK(Nobody)
    BY <1>4, EmptyLine
  <2>2. u = [w EXCEPT !.mvar = m]
    BY <1>5 DEF Deliver
  <2>3. OnlyMVar(w, u) /\ u.mvar = m
    <3> HIDE DEF m
    <3> QED
      BY <1>1, <2>1, <2>2, MVarField
  <2>4. u.mvar.value = v /\ u.mvar.line = Nobody
    BY <2>3
  <2> HIDE DEF m
  <2>5. MVarLine(p, u, X)
    BY <1>4, <2>1, <2>4 DEF MVarLine
  <2>6. Shift(p, w, X, X, D, K)
    BY DEF Shift
  <2>7. AllIn(p, w, X, K, u.mvar.line)
    BY <1>3, <1>5, <2>1, <2>4 DEF AllIn, IsIn, Waits
  <2>8. PlacesOK(p, u, H \ {v})
    <3>1. \A x : ~InEntries(u.mvar.line.line, x) /\ ~InEntries(w.mvar.line.line, x)
      BY <1>5, <2>1, <2>4 DEF InEntries, Waits
    <3>2. OnceE(p, u.mvar.line.line) /\ H \ {v} \subseteq PutOps(p)
      BY <1>4, <2>1, <2>4 DEF OnceE
    <3>3. Moves(p, w, u, H, H \ {v})
      BY <1>4, <2>3, <2>4, <3>1 DEF Moves, Placed, One, OnlyMVar
    <3> QED
      BY <1>1, <2>3, <3>2, <3>3, MVarPlaces
  <2>9. Sound(p, u, X, H \ {v}, D, G) /\ SameSem(p, w, u)
    BY <2>3, <2>5, <2>6, <2>7, <2>8, MVarChange
  <2> QED
    BY <2>3, <2>9, AsideOnly
<1>6. CASE Waits(l)
  <2> DEFINE e  == First(l)
             Y  == X \cup {e.op}
             m  == [w.mvar EXCEPT !.line = Rest(l)]
             w1 == [w EXCEPT !.mvar = m]
  <2>1. e \in l.line /\ Rest(l) \in Line /\ LineOK(Rest(l)) /\ Rest(l).line = l.line \ {e}
    BY <1>2, <1>6, FirstOf, RestOf
  <2>2. Taker(p, w, X, e)
    BY <1>2, <2>1
  <2>3. e.op \in Op \ X /\ w.status[e.op] = "waiting" /\ p[e.op] \in Takes
    BY <2>2 DEF Taker, Behind
  <2>4. m \in [value : Maybe, line : Line] /\ m.value = None /\ m.line = Rest(l)
    BY <1>1, <2>1 DEF Worlds, Maybe
  <2>5. OnlyMVar(w, w1) /\ w1.mvar = m
    <3> HIDE DEF m
    <3> QED
      BY <1>1, <2>4, MVarField
  <2>6. w1.mvar.value = None /\ w1.mvar.line = Rest(l)
    BY <2>4, <2>5
  <2>7. u = Done(w1, e.op, v)
    BY <1>1, <1>6 DEF Deliver, Worlds
  <2>8. Y \in SUBSET Op
    BY <2>3
  <2> HIDE DEF m, w1, e, Y
  <2>9. MVarLine(p, w1, Y)
    <3> SUFFICES ASSUME NEW f \in Rest(l).line PROVE Taker(p, w1, Y, f)
      BY <2>1, <2>6 DEF MVarLine
    <3>1. f \in l.line /\ f # e /\ Taker(p, w, X, f)
      BY <1>2, <2>1
    <3>2. f.op # e.op
      BY <1>2, <2>1, <2>2, <3>1 DEF Taker, Behind, LineOK
    <3> QED
      BY <2>5, <3>1, <3>2 DEF Taker, Behind, OnlyMVar, Y
  <2>10. Shift(p, w, X, Y, D, K)
    BY <2>3 DEF Shift, Y
  <2>11. AllIn(p, w, Y, K, w1.mvar.line)
    <3> SUFFICES ASSUME NEW o \in Op \ Y, w.status[o] = "waiting", p[o] \in K PROVE IsIn(w1.mvar.line, o)
      BY DEF AllIn
    <3>1. o \notin X /\ o # e.op
      BY DEF Y
    <3>2. PICK f \in l.line : f.op = o
      BY <1>3, <3>1 DEF AllIn, IsIn
    <3> QED
      BY <2>1, <2>6, <3>1, <3>2 DEF IsIn
  <2>12. PlacesOK(p, w1, H)
    <3>1. \A x \in PutOps(p) : ~InEntries(w1.mvar.line.line, x) /\ ~InEntries(w.mvar.line.line, x)
      BY <1>2, <1>4, <2>1, <2>6 DEF InEntries, Taker
    <3>2. OnceE(p, w1.mvar.line.line)
      BY <1>2, <1>4, <2>1, <2>6 DEF OnceE, Taker
    <3>3. Moves(p, w, w1, H, H)
      BY <1>4, <2>5, <2>6, <3>1 DEF Moves, Placed, One, OnlyMVar
    <3> QED
      BY <1>1, <1>4, <2>5, <3>2, <3>3, MVarPlaces
  <2>13. Sound(p, w1, Y, H, D, G) /\ SameSem(p, w, w1)
    BY <2>5, <2>9, <2>10, <2>11, <2>12, MVarChange
  <2>14. e.op \in Y /\ Y \ {e.op} = X
    BY <2>3 DEF Y
  <2>15. StepOK(p, Step(e.op, v, FALSE))
    BY <1>4, <2>3 DEF StepOK, Step, Takes, Acquires, Asyncs, Pinneds
  <2>16. Sound(p, u, Y \ {e.op}, H \ {v}, D, G) /\ Readied(p, w1, u, {e.op})
    BY <1>4, <2>7, <2>8, <2>13, <2>14, <2>15, DoneOf
  <2>17. p[e.op] \notin Acquires /\ w.status[e.op] = "waiting"
    BY <2>3 DEF Takes, Acquires
  <2>18. Aside(p, w, u)
    BY <2>5, <2>13, <2>16, <2>17, AsideOnly, AsideDone
  <2> QED
    BY <2>14, <2>16, <2>18
<1> QED
  BY <1>5, <1>6

LEMMA PutAnyhowOf ==
  ASSUME NEW p \in [Op -> Calls], NEW w, NEW X \in SUBSET Op, NEW H, NEW D, NEW G, Sound(p, w, X, H, D, G),
         NEW v \in H, NEW u, u = PutAnyhow(w, v)
  PROVE  Sound(p, u, X, H \ {v}, D, G) /\ Aside(p, w, u)
<1>1. CASE w.mvar.value = None
  BY <1>1, DeliverOf DEF PutAnyhow
<1>2. CASE w.mvar.value # None
  <2> DEFINE l == w.mvar.line
             K == Takes \cup {"putMVar"}
             e == [num |-> l.next, op |-> None, value |-> v]
             m == [w.mvar EXCEPT !.line = Enter(l, None, v)]
  <2>1. w \in Worlds /\ MVarLine(p, w, X) /\ PlacesOK(p, w, H) /\ WaitersOK(p, w, X)
    BY DEF Sound
  <2>2. l \in Line /\ LineOK(l) /\ w.mvar.value \in PutOps(p) /\ \A f \in l.line : Putter(p, w, X, f)
    BY <1>2, <2>1, WorldIs DEF MVarLine
  <2>3. H \subseteq PutOps(p) /\ v \in PutOps(p) /\ v \in Maybe /\ None \in Maybe
    BY <2>1 DEF PlacesOK, PutOps, Maybe
  <2>4. /\ Enter(l, None, v) \in Line /\ LineOK(Enter(l, None, v)) /\ Enter(l, None, v).line = l.line \cup {e}
    BY <2>2, <2>3, EnterOf
  <2>5. m \in [value : Maybe, line : Line] /\ m.value = w.mvar.value /\ m.line = Enter(l, None, v)
    BY <2>1, <2>4 DEF Worlds
  <2>6. u = [w EXCEPT !.mvar = m]
    BY <1>2, <2>1 DEF PutAnyhow, Worlds
  <2>7. OnlyMVar(w, u) /\ u.mvar = m
    <3> HIDE DEF m
    <3> QED
      BY <2>1, <2>5, <2>6, MVarField
  <2>8. u.mvar.value = w.mvar.value /\ u.mvar.line = Enter(l, None, v) /\ u.mvar.line.line = l.line \cup {e}
    BY <2>4, <2>5, <2>7
  <2>9. e.op = None /\ e.value = v
    OBVIOUS
  <2> HIDE DEF m, e
  <2>10. MVarLine(p, u, X)
    <3> SUFFICES ASSUME NEW f \in u.mvar.line.line PROVE Putter(p, u, X, f)
      BY <1>2, <2>2, <2>4, <2>8 DEF MVarLine
    <3>1. CASE f = e
      BY <2>3, <2>9, <3>1 DEF Putter
    <3>2. CASE f \in l.line
      BY <2>2, <2>7, <3>2 DEF Putter, Behind, OnlyMVar
    <3> QED
      BY <2>8, <3>1, <3>2
  <2>11. Shift(p, w, X, X, D, K)
    BY DEF Shift
  <2>12. AllIn(p, w, X, K, u.mvar.line)
    BY <2>1, <2>8 DEF WaitersOK, HasLine, AllIn, IsIn
  <2>13. PlacesOK(p, u, H \ {v})
    <3>1. PlaceOf(w, H, v)
      BY <2>1, <2>3 DEF PlacesOK
    <3>2. OnceE(p, l.line) /\ ~InEntries(l.line, v)
      BY <2>1, <3>1 DEF PlacesOK, PlaceOf, Placed, One
    <3>3. OnceE(p, u.mvar.line.line) /\ \A x : InEntries(u.mvar.line.line, x) <=> InEntries(l.line, x) \/ x = v
      BY <2>8, <2>9, <3>2 DEF OnceE, InEntries
    <3>4. H \ {v} \subseteq PutOps(p)
      BY <2>3
    <3>5. Moves(p, w, u, H, H \ {v})
      BY <2>3, <2>7, <2>8, <3>3 DEF Moves, Placed, One, OnlyMVar
    <3> QED
      BY <2>1, <2>7, <3>3, <3>4, <3>5, MVarPlaces
  <2>14. Sound(p, u, X, H \ {v}, D, G) /\ SameSem(p, w, u)
    BY <2>7, <2>10, <2>11, <2>12, <2>13, MVarChange
  <2> QED
    BY <2>7, <2>14, AsideOnly
<1> QED
  BY <1>1, <1>2

JoinMVar(w, o, v) == Wait([w EXCEPT !.mvar.line = Enter(@, o, v)], o, w.mvar.line.next)

LEMMA WaitInMVar ==
  ASSUME NEW p \in [Op -> Calls], NEW w, NEW X \in SUBSET Op, NEW H, NEW D, NEW G, Sound(p, w, X, H, D, G),
         NEW o \in X, o \notin D, o \notin G, NEW v,
         \/ w.mvar.value = None /\ p[o] \in Takes /\ v = None
         \/ w.mvar.value # None /\ p[o] = "putMVar" /\ v = o /\ o \in H,
         NEW u, u = JoinMVar(w, o, v)
  PROVE  Sound(p, u, X \ {o}, H \ {v}, D, G) /\ SameSem(p, w, u)
<1> DEFINE l == w.mvar.line
           k == l.next
           K == Takes \cup {"putMVar"}
           e == [num |-> k, op |-> o, value |-> v]
           m == [w.mvar EXCEPT !.line = Enter(l, o, v)]
           y == [w EXCEPT !.mvar = m]
           x == Wait(w, o, k)
<1>1. w \in Worlds /\ MVarLine(p, w, X) /\ PlacesOK(p, w, H) /\ WaitersOK(p, w, X) /\ CleanupsOK(w, X, D, G)
  BY DEF Sound
<1>2. l \in Line /\ LineOK(l) /\ k \in Nat /\ l.line \subseteq Entry
  BY <1>1, WorldIs, LineIs DEF MVarLine
<1>3. v \in Maybe /\ o \in Maybe /\ p[o] \notin Pinneds /\ None \notin PutOps(p) /\ o \in Op
  BY NeedIs DEF Maybe, Takes, Pinneds, PutOps
<1>4. Enter(l, o, v) \in Line /\ LineOK(Enter(l, o, v)) /\ Enter(l, o, v).line = l.line \cup {e}
  BY <1>2, <1>3, EnterOf
<1>5. m \in [value : Maybe, line : Line] /\ m.value = w.mvar.value /\ m.line = Enter(l, o, v)
  BY <1>1, <1>4 DEF Worlds
<1>6. u = Wait(y, o, k)
  BY <1>1 DEF Worlds, JoinMVar
<1>7. e.num = k /\ e.op = o /\ e.value = v
  OBVIOUS
<1>8. IsFiniteSet(w.cleanups)
  BY <1>1 DEF CleanupsOK, IdentsOK
<1> HIDE DEF m, e, k
<1>9. OnlyMVar(w, y) /\ y.mvar = m
  BY <1>1, <1>5, MVarField
<1> HIDE DEF y, x
<1>10. Sound(p, x, X, H, D, G) /\ Waiting(w, x, o, k)
  BY <1>2, <1>3, WaitOf DEF x
<1>11. /\ x.mvar = w.mvar /\ x.status = [w.status EXCEPT ![o] = "waiting"] /\ x.number = [w.number EXCEPT ![o] = k]
       /\ x.live = w.live /\ SameSem(p, w, x) /\ \E c \in x.cleanups : c.op = o
  <2>1. [num |-> Fresh(w.cleanups), op |-> o] \in x.cleanups
    BY <1>10 DEF Waiting
  <2>2. SameSem(p, w, x)
    BY <1>10 DEF Waiting, SameSem, GrantedIn, AddedIn
  <2> QED
    BY <1>10, <2>1, <2>2 DEF Waiting
<1>22. y \in Worlds /\ IsFiniteSet(y.cleanups)
  BY <1>8, <1>9 DEF OnlyMVar
<1>12. Waiting(y, u, o, k)
  BY <1>2, <1>3, <1>6, <1>22, WaitFields
<1>13. OnlyMVar(x, u) /\ u.mvar = m
  BY <1>9, <1>10, <1>12 DEF OnlyMVar, Waiting
<1>14. x.status[o] = "waiting" /\ x.number[o] = k
  BY <1>1, <1>3, <1>11, WorldIs
<1>15. u.mvar.value = w.mvar.value /\ u.mvar.line = Enter(l, o, v) /\ u.mvar.line.line = l.line \cup {e}
  BY <1>4, <1>5, <1>13
<1>16. MVarLine(p, x, X) /\ PlacesOK(p, x, H)
  BY <1>10 DEF Sound
<1>17. MVarLine(p, u, X \ {o})
  <2>1. CASE w.mvar.value = None
    <3>1. p[o] \in Takes /\ v = None
      BY <2>1
    <3>2. ASSUME NEW f \in u.mvar.line.line PROVE Taker(p, u, X \ {o}, f)
      <4>1. CASE f = e
        BY <1>3, <1>7, <1>13, <1>14, <3>1, <4>1 DEF Taker, Behind, OnlyMVar
      <4>2. CASE f \in l.line
        <5>1. Taker(p, x, X, f)
          BY <1>11, <1>16, <2>1, <4>2 DEF MVarLine
        <5> QED
          BY <1>13, <5>1 DEF Taker, Behind, OnlyMVar
      <4> QED
        BY <1>15, <4>1, <4>2
    <3> QED
      BY <1>4, <1>15, <2>1, <3>2 DEF MVarLine
  <2>2. CASE w.mvar.value # None
    <3>1. p[o] = "putMVar" /\ v = o /\ o \in PutOps(p)
      BY <1>1, <2>2 DEF PlacesOK
    <3>2. ASSUME NEW f \in u.mvar.line.line PROVE Putter(p, u, X \ {o}, f)
      <4>1. CASE f = e
        BY <1>3, <1>7, <1>13, <1>14, <3>1, <4>1 DEF Putter, Behind, OnlyMVar
      <4>2. CASE f \in l.line
        <5>1. Putter(p, x, X, f)
          BY <1>11, <1>16, <2>2, <4>2 DEF MVarLine
        <5> QED
          BY <1>13, <5>1 DEF Putter, Behind, OnlyMVar
      <4> QED
        BY <1>15, <4>1, <4>2
    <3>3. w.mvar.value \in PutOps(p)
      BY <1>1, <2>2 DEF MVarLine
    <3> QED
      BY <1>4, <1>15, <2>2, <3>2, <3>3 DEF MVarLine
  <2> QED
    BY <2>1, <2>2
<1>18. Shift(p, x, X, X \ {o}, D, K)
  BY <1>11, <1>14 DEF Shift
<1>19. AllIn(p, x, X \ {o}, K, u.mvar.line)
  <2> SUFFICES ASSUME NEW q \in Op \ (X \ {o}), x.status[q] = "waiting", p[q] \in K
               PROVE  \E f \in l.line \cup {e} : f.op = q
    BY <1>15 DEF AllIn, IsIn
  <2>1. CASE q = o
    BY <1>7, <2>1
  <2>2. CASE q # o
    <3>1. \E f \in l.line : f.op = q
      BY <1>10, <1>11, <2>2 DEF Sound, WaitersOK, HasLine, IsIn
    <3> QED
      BY <3>1
  <2> QED
    BY <2>1, <2>2
<1>20. PlacesOK(p, u, H \ {v})
  <2>1. v \in PutOps(p) => ~InEntries(l.line, v)
    <3>1. ASSUME v \in PutOps(p) PROVE ~InEntries(l.line, v)
      <4>1. v \in H /\ PlaceOf(w, H, v)
        BY <1>1, <1>3, <3>1 DEF PlacesOK
      <4> QED
        BY <4>1 DEF PlaceOf, Placed, One
    <3> QED
      BY <3>1
  <2>2. OnceE(p, l.line)
    BY <1>1 DEF PlacesOK
  <2>3. OnceE(p, u.mvar.line.line) /\ \A y1 : InEntries(u.mvar.line.line, y1) <=> InEntries(l.line, y1) \/ y1 = v
    BY <1>7, <1>15, <2>1, <2>2 DEF OnceE, InEntries
  <2>4. H \ {v} \subseteq PutOps(p) /\ (v \in PutOps(p) => v \in H)
    BY <1>1, <1>3 DEF PlacesOK
  <2>5. Moves(p, x, u, H, H \ {v})
    BY <1>10, <1>11, <1>13, <1>15, <2>3, <2>4 DEF Moves, Placed, One, OnlyMVar
  <2> QED
    BY <1>13, <1>16, <2>3, <2>4, <2>5, MVarPlaces
<1>21. Sound(p, u, X \ {o}, H \ {v}, D, G) /\ SameSem(p, x, u)
  BY <1>10, <1>13, <1>17, <1>18, <1>19, <1>20, MVarChange
<1> QED
  BY <1>11, <1>21 DEF SameSem

(* A value, or a release, that counts from now on.                          *)
OnlyLive(w, u) ==
  /\ u \in Worlds
  /\ u.mvar = w.mvar /\ u.chan = w.chan /\ u.sem = w.sem /\ u.runQ = w.runQ /\ u.status = w.status
  /\ u.number = w.number /\ u.cleanups = w.cleanups /\ u.taken = w.taken

LEMMA LiveGained ==
  ASSUME NEW p \in [Op -> Calls], NEW w, NEW X \in SUBSET Op, NEW H, NEW D, NEW G, Sound(p, w, X, H, D, G),
         NEW o \in Op, o \notin w.live, p[o] \in Puts \cup {"releaseN"}, o \in X \/ w.status[o] # "idle",
         p[o] \in Pinneds => w.status[o] = "over", NEW u, u = [w EXCEPT !.live = @ \cup {o}]
  PROVE  /\ Sound(p, u, X, H \cup ({o} \cap PutOps(p)), D, G) /\ OnlyLive(w, u) /\ u.live = w.live \cup {o}
<1>1. w \in Worlds /\ MVarLine(p, w, X) /\ ChanLines(p, w, X) /\ SemLine(p, w, X)
      /\ WaitersOK(p, w, X) /\ QueueOK(p, w, X) /\ TakenOK(p, w, X) /\ LiveOK(p, w, X) /\ PlacesOK(p, w, H)
      /\ ChanHeld(w) /\ CleanupsOK(w, X, D, G)
  BY DEF Sound
<1>2. w.live \cup {o} \in SUBSET Op
  BY <1>1, WorldIs
<1>3. OnlyLive(w, u) /\ u.live = w.live \cup {o}
  BY <1>1, <1>2 DEF OnlyLive, Worlds
<1>4. MVarLine(p, u, X) /\ ChanLines(p, u, X) /\ SemLine(p, u, X)
  BY <1>1, <1>3 DEF OnlyLive, MVarLine, ChanLines, SemLine, Taker, Putter, Behind
<1>5. WaitersOK(p, u, X) /\ QueueOK(p, u, X) /\ TakenOK(p, u, X)
  BY <1>1, <1>3 DEF OnlyLive, WaitersOK, HasLine, QueueOK, TakenOK
<1>6. LiveOK(p, u, X)
  BY <1>1, <1>3 DEF OnlyLive, LiveOK
<1>7. PlacesOK(p, u, H \cup ({o} \cap PutOps(p)))
  <2>1. ASSUME NEW v \in PutOps(p) PROVE PlaceOf(u, H \cup ({o} \cap PutOps(p)), v)
    <3>1. PlaceOf(w, H, v)
      BY <1>1 DEF PlacesOK
    <3>2. TakenBy(u, v) <=> TakenBy(w, v)
      BY <1>3 DEF OnlyLive, TakenBy
    <3> QED
      BY <1>3, <3>1, <3>2 DEF OnlyLive, PlaceOf, Placed, One
  <2> QED
    BY <1>1, <1>3, <2>1 DEF OnlyLive, PlacesOK, OnceT
<1>8. ChanHeld(u)
  BY <1>1, <1>3 DEF OnlyLive, ChanHeld
<1>9. CleanupsOK(u, X, D, G)
  BY <1>1, <1>3 DEF OnlyLive, CleanupsOK
<1> QED
  BY <1>3, <1>4, <1>5, <1>6, <1>7, <1>8, <1>9 DEF Sound, OnlyLive

(* The same, of a value: it is in hand.                                     *)
LEMMA PutIn ==
  ASSUME NEW p \in [Op -> Calls], NEW w, NEW X \in SUBSET Op, NEW H, NEW D, NEW G, Sound(p, w, X, H, D, G),
         NEW o \in Op, o \notin w.live, p[o] \in Puts, o \in X \/ w.status[o] # "idle",
         p[o] \in Pinneds => w.status[o] = "over", NEW u, u = [w EXCEPT !.live = @ \cup {o}]
  PROVE  Sound(p, u, X, H \cup {o}, D, G) /\ OnlyLive(w, u) /\ SameSem(p, w, u)
<1>1. {o} \cap PutOps(p) = {o}
  BY DEF PutOps
<1>2. /\ Sound(p, u, X, H \cup ({o} \cap PutOps(p)), D, G) /\ OnlyLive(w, u) /\ u.live = w.live \cup {o}
  BY LiveGained
<1>3. p[o] # "releaseN"
  BY DEF Puts
<1>4. AddedIn(p, u) = AddedIn(p, w)
  BY <1>2, <1>3 DEF AddedIn
<1>5. SameSem(p, w, u)
  BY <1>2, <1>4 DEF SameSem, OnlyLive, GrantedIn
<1> QED
  BY <1>1, <1>2, <1>5

(* A step went on with a value, or with its permits.                        *)
WentOn(p, w, u, o, v) ==
  /\ u.sem = w.sem /\ AddedIn(p, u) = AddedIn(p, w)
  /\ GrantedIn(p, u) = GrantedIn(p, w) \cup (IF v = o THEN {o} ELSE {})

LEMMA TakenGained ==
  ASSUME NEW p \in [Op -> Calls], NEW w, NEW X \in SUBSET Op, NEW H, NEW D, NEW G, Sound(p, w, X, H, D, G),
         NEW o \in Op \ X, w.taken[o] = None, w.status[o] \in {"inside", "over"}, NEW v \in Maybe,
         \/ v \in H /\ p[o] \in Takes \cup {"recv", "tryTakeMVar", "tryRecv"}
         \/ v = o /\ p[o] \in Acquires \cup {"tryAcquireN"},
         NEW u, u = [w EXCEPT !.taken[o] = v]
  PROVE  Sound(p, u, X, H \ {v}, D, G) /\ WentOn(p, w, u, o, v)
<1>1. w \in Worlds /\ MVarLine(p, w, X) /\ ChanLines(p, w, X) /\ SemLine(p, w, X)
      /\ WaitersOK(p, w, X) /\ QueueOK(p, w, X) /\ TakenOK(p, w, X) /\ LiveOK(p, w, X) /\ PlacesOK(p, w, H)
      /\ ChanHeld(w) /\ CleanupsOK(w, X, D, G)
  BY DEF Sound
<1> DEFINE t == [w.taken EXCEPT ![o] = v]
<1>2. w.taken \in [Op -> Maybe] /\ t \in [Op -> Maybe] /\ t[o] = v /\ \A q \in Op \ {o} : t[q] = w.taken[q]
  BY <1>1, WorldIs
<1>3. u = [w EXCEPT !.taken = t]
  BY <1>1 DEF Worlds
<1> HIDE DEF t
<1>4. /\ u \in Worlds
      /\ u.mvar = w.mvar /\ u.chan = w.chan /\ u.sem = w.sem /\ u.runQ = w.runQ /\ u.status = w.status
      /\ u.number = w.number /\ u.cleanups = w.cleanups /\ u.live = w.live /\ u.taken = t
  BY <1>1, <1>2, <1>3 DEF Worlds
<1>5. MVarLine(p, u, X) /\ ChanLines(p, u, X) /\ SemLine(p, u, X)
  BY <1>1, <1>4 DEF MVarLine, ChanLines, SemLine, Taker, Putter, Behind
<1>6. WaitersOK(p, u, X) /\ QueueOK(p, u, X) /\ LiveOK(p, u, X) /\ ChanHeld(u) /\ CleanupsOK(u, X, D, G)
  BY <1>1, <1>4 DEF WaitersOK, HasLine, QueueOK, LiveOK, ChanHeld, CleanupsOK
<1>7. H \subseteq PutOps(p) /\ None \notin PutOps(p) /\ (v \in PutOps(p) => v \in H) /\ v # None
  <2>1. H \subseteq PutOps(p)
    BY <1>1 DEF PlacesOK
  <2>2. p[o] \in Acquires \cup {"tryAcquireN"} => o \notin PutOps(p)
    BY DEF PutOps, Puts, Acquires
  <2>3. None \notin PutOps(p)
    BY NeedIs DEF PutOps
  <2> QED
    BY <2>1, <2>2, <2>3, NeedIs
<1>8. TakenOK(p, u, X)
  <2>0. u.status = w.status /\ u.taken[o] = v /\ \A q \in Op \ {o} : u.taken[q] = w.taken[q]
    BY <1>2, <1>4
  <2>1. ASSUME NEW q \in Op, u.taken[q] # None
        PROVE  /\ q \notin X /\ u.status[q] \in {"inside", "over"}
               /\ \/ p[q] \in Takes \cup {"recv", "tryTakeMVar", "tryRecv"} /\ u.taken[q] \in PutOps(p)
                  \/ p[q] \in Acquires \cup {"tryAcquireN"} /\ u.taken[q] = q
    <3>1. CASE q = o
      BY <1>7, <2>0, <3>1
    <3>2. CASE q # o
      BY <1>1, <2>0, <2>1, <3>2 DEF TakenOK
    <3> QED
      BY <3>1, <3>2
  <2>2. ASSUME NEW q \in Op \ X, u.status[q] = "inside"
        PROVE  u.taken[q] # None /\ p[q] \in {"modifyMVar", "withPermits"}
    BY <1>1, <1>7, <2>0, <2>2 DEF TakenOK
  <2> QED
    BY <2>1, <2>2 DEF TakenOK
<1>9. \A x \in PutOps(p) : TakenBy(u, x) <=> TakenBy(w, x) \/ x = v
  <2> SUFFICES ASSUME NEW x \in PutOps(p) PROVE TakenBy(u, x) <=> TakenBy(w, x) \/ x = v
    OBVIOUS
  <2>1. x # None
    BY <1>7
  <2>2. ASSUME NEW q \in Op, w.taken[q] = x PROVE t[q] = x
    BY <1>2, <2>1, <2>2
  <2>3. ASSUME NEW q \in Op, t[q] = x PROVE w.taken[q] = x \/ x = v
    BY <1>2, <2>3
  <2> QED
    BY <1>2, <1>4, <2>2, <2>3 DEF TakenBy
<1>10. PlacesOK(p, u, H \ {v})
  <2>1. ASSUME NEW x \in PutOps(p) PROVE PlaceOf(u, H \ {v}, x)
    <3>1. PlaceOf(w, H, x)
      BY <1>1 DEF PlacesOK
    <3> QED
      BY <1>4, <1>7, <1>9, <3>1 DEF PlaceOf, Placed, One
  <2>2. OnceT(p, u)
    <3> SUFFICES ASSUME NEW q \in Op, NEW r \in Op, t[q] = t[r], t[q] \in PutOps(p) PROVE q = r
      BY <1>4 DEF OnceT
    <3>1. t[q] = v => ~TakenBy(w, v)
      <4>1. ASSUME t[q] = v PROVE PlaceOf(w, H, v) /\ v \in H
        BY <1>1, <1>7, <4>1 DEF PlacesOK
      <4> QED
        BY <4>1 DEF PlaceOf, Placed, One
    <3>2. t[q] = v => q = o /\ r = o
      BY <1>2, <3>1 DEF TakenBy
    <3>3. t[q] # v => w.taken[q] = t[q] /\ w.taken[r] = t[r]
      BY <1>2
    <3> QED
      BY <1>1, <3>2, <3>3 DEF PlacesOK, OnceT
  <2> QED
    BY <1>1, <1>4, <2>1, <2>2 DEF PlacesOK
<1>11. AddedIn(p, u) = AddedIn(p, w)
  BY <1>4 DEF AddedIn
<1>12. GrantedIn(p, u) = GrantedIn(p, w) \cup (IF v = o THEN {o} ELSE {})
  <2>1. v = o => p[o] \in Acquires \cup {"tryAcquireN"}
    <3> SUFFICES ASSUME o \in H, p[o] \in Takes \cup {"recv", "tryTakeMVar", "tryRecv"} PROVE FALSE
      OBVIOUS
    <3>1. p[o] \in Puts
      BY <1>7 DEF PutOps
    <3> QED
      BY <3>1 DEF Puts, Takes
  <2>2. w.taken[o] # o
    BY NeedIs
  <2>3. \A q : q \in GrantedIn(p, u) <=> q \in GrantedIn(p, w) \/ (v = o /\ q = o)
    <3> SUFFICES ASSUME NEW q \in Op, p[q] \in Acquires \cup {"tryAcquireN"}
                 PROVE  (t[q] = q \/ ValQ(w.runQ, q)) <=> (w.taken[q] = q \/ ValQ(w.runQ, q)) \/ (v = o /\ q = o)
      BY <1>4, <2>1 DEF GrantedIn
    <3> QED
      BY <1>2, <2>2
  <2> QED
    BY <2>3
<1> QED
  BY <1>4, <1>5, <1>6, <1>8, <1>10, <1>11, <1>12 DEF Sound, WentOn

LEMMA TakeOrWaitOf ==
  ASSUME NEW p \in [Op -> Calls], NEW w, NEW D, NEW G, NEW o \in Op, Sound(p, w, {o}, {}, D, G),
         o \notin D, o \notin G, p[o] \in Takes, NEW u, u = TakeOrWait(w, o)
  PROVE  Sound(p, u, {}, {}, D, G) /\ SameSem(p, w, u)
<1>1. CASE w.mvar.value = None
  <2>1. u = JoinMVar(w, o, None)
    BY <1>1 DEF TakeOrWait, JoinMVar
  <2>2. Sound(p, u, {o} \ {o}, {} \ {None}, D, G) /\ SameSem(p, w, u)
    BY <1>1, <2>1, WaitInMVar
  <2>3. {o} \ {o} = {} /\ {} \ {None} = {}
    OBVIOUS
  <2> QED
    BY <2>2, <2>3
<1>2. CASE w.mvar.value # None
  <2> DEFINE v == w.mvar.value
             x == Refill(w)
             X == {o}
             J == {v}
  <2>1. u = Done(x, o, v)
    BY <1>2 DEF TakeOrWait
  <2>2. X \in SUBSET Op /\ o \in X /\ X \ {o} = {} /\ v \in J /\ {} \cup {v} = J /\ J \ {v} = {}
    OBVIOUS
  <2>3. v \in PutOps(p) /\ v \in Maybe
    BY <1>2 DEF Sound, MVarLine, PutOps, Maybe
  <2>4. StepOK(p, Step(o, v, FALSE))
    BY <2>3 DEF StepOK, Step, Takes, Acquires, Asyncs, Pinneds
  <2> HIDE DEF v, x, X, J
  <2>5. Sound(p, x, X, {} \cup {v}, D, G) /\ Aside(p, w, x)
    BY <1>2, <2>2, RefillOf DEF v, x, X
  <2>6. Sound(p, x, X, J, D, G)
    BY <2>2, <2>5
  <2>7. Sound(p, u, X \ {o}, J \ {v}, D, G) /\ Readied(p, x, u, {o})
    BY <2>1, <2>2, <2>3, <2>4, <2>6, DoneOf
  <2>8. p[o] \notin Acquires
    BY DEF Takes, Acquires
  <2>9. SameSem(p, x, u)
    BY <2>7, <2>8, ReadiedOne
  <2> QED
    BY <2>2, <2>5, <2>7, <2>9 DEF Aside, SameSem
<1> QED
  BY <1>1, <1>2

LEMMA PutOrWaitOf ==
  ASSUME NEW p \in [Op -> Calls], NEW w, NEW D, NEW G, NEW o \in Op, Sound(p, w, {o}, {}, D, G),
         o \notin D, o \notin G, p[o] = "putMVar", o \notin w.live, NEW u, u = PutOrWait(w, o)
  PROVE  Sound(p, u, {}, {}, D, G) /\ SameSem(p, w, u)
<1> DEFINE in == [w EXCEPT !.live = @ \cup {o}]
           X  == {o}
<1>1. X \in SUBSET Op /\ o \in X /\ X \ {o} = {} /\ {} \cup {o} = X /\ X \ {None} = X
  BY NeedIs
<1>2. p[o] \in Puts /\ p[o] \notin Pinneds /\ p[o] \notin Acquires
  BY DEF Puts, Pinneds, Acquires
<1> HIDE DEF in, X
<1>3. Sound(p, in, X, {} \cup {o}, D, G) /\ OnlyLive(w, in) /\ SameSem(p, w, in)
  BY <1>1, <1>2, PutIn DEF in, X
<1>4. Sound(p, in, X, X, D, G) /\ in.mvar = w.mvar
  BY <1>1, <1>3 DEF OnlyLive
<1>5. CASE w.mvar.value = None
  <2> DEFINE x == Deliver(in, o)
  <2>1. u = Done(x, o, None)
    BY <1>5 DEF PutOrWait, in
  <2>2. StepOK(p, Step(o, None, FALSE)) /\ None \in Maybe /\ None \notin PutOps(p)
    BY NeedIs DEF StepOK, Step, Takes, Acquires, Asyncs, Pinneds, Maybe, PutOps
  <2> HIDE DEF x
  <2>3. Sound(p, x, X, X \ {o}, D, G) /\ Aside(p, in, x)
    BY <1>1, <1>4, <1>5, DeliverOf DEF x
  <2>4. Sound(p, u, X \ {o}, (X \ {o}) \ {None}, D, G) /\ Readied(p, x, u, {o})
    BY <1>1, <2>1, <2>2, <2>3, DoneOf
  <2>5. SameSem(p, x, u)
    BY <1>2, <2>4, ReadiedOne
  <2>6. (X \ {o}) \ {None} = {}
    BY <1>1
  <2> QED
    BY <1>1, <1>3, <2>3, <2>4, <2>5, <2>6 DEF Aside, SameSem
<1>6. CASE w.mvar.value # None
  <2> DEFINE v == o
             J == X
  <2>1. u = JoinMVar(in, o, v)
    BY <1>4, <1>6 DEF PutOrWait, JoinMVar, in
  <2>2. /\ \/ in.mvar.value = None /\ p[o] \in Takes /\ v = None
           \/ in.mvar.value # None /\ p[o] = "putMVar" /\ v = o /\ o \in J
        /\ Sound(p, in, X, J, D, G) /\ J \ {v} = {}
    BY <1>1, <1>4, <1>6
  <2> HIDE DEF v, J
  <2>3. Sound(p, u, X \ {o}, J \ {v}, D, G) /\ SameSem(p, in, u)
    BY <1>1, <2>1, <2>2, WaitInMVar
  <2> QED
    BY <1>1, <1>3, <2>2, <2>3 DEF SameSem
<1> QED
  BY <1>5, <1>6

LEMMA TryTakeOf ==
  ASSUME NEW p \in [Op -> Calls], NEW w, NEW D, NEW G, NEW o \in Op, Sound(p, w, {}, {}, D, G),
         p[o] = "tryTakeMVar", w.status[o] = "over", w.taken[o] = None, NEW u, u = TryTake(w, o)
  PROVE  Sound(p, u, {}, {}, D, G) /\ SameSem(p, w, u)
<1>1. CASE w.mvar.value = None
  BY <1>1 DEF TryTake, SameSem
<1>2. CASE w.mvar.value # None
  <2> DEFINE v == w.mvar.value
             x == Refill(w)
             X == {}
             J == {v}
  <2>1. u = [x EXCEPT !.taken[o] = v]
    BY <1>2 DEF TryTake
  <2>2. v \in PutOps(p) /\ v \in Maybe
    BY <1>2 DEF Sound, MVarLine, PutOps, Maybe
  <2>3. X \in SUBSET Op /\ o \in Op \ X /\ v \in J /\ X \cup {v} = J /\ J \ {v} = X
    OBVIOUS
  <2>4. v # o
    BY <2>2 DEF PutOps, Puts
  <2>5. Sound(p, w, X, X, D, G)
    OBVIOUS
  <2> HIDE DEF v, x, X, J
  <2>6. Sound(p, x, X, X \cup {v}, D, G) /\ Aside(p, w, x)
    BY <1>2, <2>3, <2>5, RefillOf DEF v, x
  <2>7. x.taken[o] = None /\ x.status[o] \in {"inside", "over"}
    BY <2>6 DEF Aside
  <2>8. Sound(p, u, X, J \ {v}, D, G) /\ WentOn(p, x, u, o, v)
    BY <2>1, <2>2, <2>3, <2>6, <2>7, TakenGained
  <2>9. GrantedIn(p, u) = GrantedIn(p, x)
    BY <2>4, <2>8 DEF WentOn
  <2> QED
    BY <2>3, <2>6, <2>8, <2>9 DEF Aside, SameSem, WentOn, X
<1> QED
  BY <1>1, <1>2

LEMMA TryPutOf ==
  ASSUME NEW p \in [Op -> Calls], NEW w, NEW D, NEW G, NEW o \in Op, Sound(p, w, {}, {}, D, G),
         p[o] = "tryPutMVar", w.status[o] = "over", o \notin w.live, NEW u, u = TryPut(w, o)
  PROVE  Sound(p, u, {}, {}, D, G) /\ SameSem(p, w, u)
<1>1. CASE w.mvar.value # None
  BY <1>1 DEF TryPut, SameSem
<1>2. CASE w.mvar.value = None
  <2> DEFINE in == [w EXCEPT !.live = @ \cup {o}]
             X  == {}
             J  == {o}
  <2>1. u = Deliver(in, o)
    BY <1>2 DEF TryPut
  <2>2. X \in SUBSET Op /\ o \in J /\ X \cup {o} = J /\ J \ {o} = X
    OBVIOUS
  <2>3. Sound(p, w, X, X, D, G) /\ p[o] \in Puts
    BY DEF Puts
  <2> HIDE DEF in, X, J
  <2>4. Sound(p, in, X, X \cup {o}, D, G) /\ OnlyLive(w, in) /\ SameSem(p, w, in)
    BY <2>2, <2>3, PutIn DEF in
  <2>5. Sound(p, in, X, J, D, G) /\ in.mvar.value = None
    BY <1>2, <2>2, <2>4 DEF OnlyLive
  <2>6. Sound(p, u, X, J \ {o}, D, G) /\ Aside(p, in, u)
    BY <2>1, <2>2, <2>5, DeliverOf
  <2> QED
    BY <2>2, <2>4, <2>6 DEF Aside, SameSem, X
<1> QED
  BY <1>1, <1>2

-----------------------------------------------------------------------------
(* Chan.                                                                    *)
Chans == [items : Seq(Op), count : Nat, closed : BOOLEAN, takers : Line, senders : Line]

LEMMA ChanField ==
  ASSUME NEW w \in Worlds, NEW c, c \in Chans, NEW u, u = [w EXCEPT !.chan = c]
  PROVE  OnlyChan(w, u) /\ u.chan = c
  BY DEF Worlds, OnlyChan, Chans

LEMMA ChanPlaces ==
  ASSUME NEW p \in [Op -> Calls], NEW w, NEW u, NEW H, NEW J, OnlyChan(w, u), PlacesOK(p, w, H),
         J \subseteq PutOps(p), OnceE(p, u.chan.senders.line), OnceI(u.chan.items),
         \A i \in 1..Len(u.chan.items) : u.chan.items[i] \in PutOps(p), Moves(p, w, u, H, J)
  PROVE  PlacesOK(p, u, J)
<1>1. \A v : TakenBy(u, v) <=> TakenBy(w, v)
  BY DEF OnlyChan, TakenBy
<1>2. ASSUME NEW v \in PutOps(p) PROVE PlaceOf(u, J, v)
  <2>1. PlaceOf(w, H, v)
    BY DEF PlacesOK
  <2>2. Placed(v \in w.live, u.mvar.value = v, InItems(u.chan.items, v), InEntries(u.mvar.line.line, v),
               InEntries(u.chan.senders.line, v), ValQ(w.runQ, v), TakenBy(w, v), v \in J)
    BY <2>1 DEF Moves, PlaceOf
  <2> QED
    BY <1>1, <2>2 DEF PlaceOf, Placed, One, OnlyChan
<1> QED
  BY <1>2 DEF OnlyChan, PlacesOK, OnceT

(* The first of the takers is handed v.                                     *)
HandOver(w, v) == Done([w EXCEPT !.chan.takers = Rest(@)], First(w.chan.takers).op, v)

LEMMA HandOverOf ==
  ASSUME NEW p \in [Op -> Calls], NEW w, NEW X \in SUBSET Op, NEW H, NEW D, NEW G, Sound(p, w, X, H, D, G),
         Waits(w.chan.takers), NEW v \in H, NEW u, u = HandOver(w, v)
  PROVE  Sound(p, u, X, H \ {v}, D, G) /\ Aside(p, w, u)
<1> DEFINE l  == w.chan.takers
           e  == First(l)
           Y  == X \cup {e.op}
           c  == [w.chan EXCEPT !.takers = Rest(l)]
           w1 == [w EXCEPT !.chan = c]
<1>1. w \in Worlds /\ ChanLines(p, w, X) /\ PlacesOK(p, w, H) /\ WaitersOK(p, w, X) /\ ChanHeld(w)
  BY DEF Sound
<1>2. l \in Line /\ LineOK(l) /\ \A f \in l.line : Behind(w, X, f) /\ p[f.op] = "recv" /\ f.value = None
  BY <1>1, WorldIs DEF ChanLines
<1>3. e \in l.line /\ Rest(l) \in Line /\ LineOK(Rest(l)) /\ Rest(l).line = l.line \ {e}
  BY <1>2, FirstOf, RestOf
<1>4. Behind(w, X, e) /\ e.op \in Op \ X /\ w.status[e.op] = "waiting" /\ p[e.op] = "recv"
  BY <1>2, <1>3 DEF Behind
<1>5. c \in Chans /\ c.items = w.chan.items /\ c.count = w.chan.count /\ c.closed = w.chan.closed
      /\ c.takers = Rest(l) /\ c.senders = w.chan.senders
  BY <1>1, <1>3 DEF Worlds, Chans
<1>6. u = Done(w1, e.op, v)
  BY <1>1 DEF HandOver, Worlds
<1>7. Y \in SUBSET Op
  BY <1>4
<1>8. OnlyChan(w, w1) /\ w1.chan = c
  <2> HIDE DEF c
  <2> QED
    BY <1>1, <1>5, ChanField
<1> HIDE DEF c, w1, e, Y
<1>9. ChanLines(p, w1, Y)
  <2>1. ASSUME NEW f \in Rest(l).line PROVE Behind(w1, Y, f) /\ p[f.op] = "recv" /\ f.value = None
    <3>1. f \in l.line /\ f # e /\ Behind(w, X, f) /\ p[f.op] = "recv" /\ f.value = None
      BY <1>2, <1>3
    <3>2. f.op # e.op
      BY <1>2, <1>3, <1>4, <3>1 DEF Behind, LineOK
    <3> QED
      BY <1>8, <3>1, <3>2 DEF Behind, OnlyChan, Y
  <2>2. ASSUME NEW f \in w.chan.senders.line PROVE Behind(w1, Y, f) /\ p[f.op] = "send" /\ f.value = f.op
    <3>1. Behind(w, X, f) /\ p[f.op] = "send" /\ f.value = f.op
      BY <1>1 DEF ChanLines
    <3>2. f.op # e.op
      BY <1>4, <3>1
    <3> QED
      BY <1>8, <3>1, <3>2 DEF Behind, OnlyChan, Y
  <2> QED
    BY <1>1, <1>3, <1>5, <1>8, <2>1, <2>2 DEF ChanLines
<1>10. Shift(p, w, X, Y, D, {"recv", "send"})
  BY <1>4 DEF Shift, Y
<1>11. AllIn(p, w, Y, {"recv"}, w1.chan.takers)
  <2> SUFFICES ASSUME NEW o \in Op \ Y, w.status[o] = "waiting", p[o] = "recv" PROVE IsIn(w1.chan.takers, o)
    BY DEF AllIn
  <2>1. o \notin X /\ o # e.op
    BY DEF Y
  <2>2. PICK f \in l.line : f.op = o
    BY <1>1, <2>1 DEF WaitersOK, HasLine, IsIn
  <2> QED
    BY <1>3, <1>5, <1>8, <2>1, <2>2 DEF IsIn
<1>12. AllIn(p, w, Y, {"send"}, w1.chan.senders)
  BY <1>1, <1>5, <1>8 DEF WaitersOK, HasLine, AllIn, Y
<1>13. PlacesOK(p, w1, H)
  <2>1. Moves(p, w, w1, H, H)
    BY <1>5, <1>8 DEF Moves, Placed, One, OnlyChan
  <2>2. /\ OnceE(p, w1.chan.senders.line) /\ OnceI(w1.chan.items) /\ H \subseteq PutOps(p)
        /\ \A i \in 1..Len(w1.chan.items) : w1.chan.items[i] \in PutOps(p)
    BY <1>1, <1>5, <1>8 DEF PlacesOK
  <2> QED
    BY <1>1, <1>8, <2>1, <2>2, ChanPlaces
<1>14. ChanHeld(w1)
  BY <1>1, <1>3, <1>5, <1>8 DEF ChanHeld, Waits
<1>15. Sound(p, w1, Y, H, D, G) /\ SameSem(p, w, w1)
  BY <1>8, <1>9, <1>10, <1>11, <1>12, <1>13, <1>14, ChanChange
<1>16. e.op \in Y /\ Y \ {e.op} = X
  BY <1>4 DEF Y
<1>17. v \in PutOps(p) /\ v \in Maybe
  BY <1>1 DEF PlacesOK, PutOps, Maybe
<1>18. StepOK(p, Step(e.op, v, FALSE))
  BY <1>4, <1>17 DEF StepOK, Step, Takes, Acquires, Asyncs, Pinneds
<1>19. Sound(p, u, Y \ {e.op}, H \ {v}, D, G) /\ Readied(p, w1, u, {e.op})
  BY <1>6, <1>7, <1>15, <1>16, <1>17, <1>18, DoneOf
<1>20. p[e.op] \notin Acquires
  BY <1>4 DEF Acquires
<1>21. Aside(p, w, u)
  BY <1>4, <1>8, <1>15, <1>19, <1>20, AsideOnly, AsideDone
<1> QED
  BY <1>16, <1>19, <1>21

LEMMA GiveBackOf ==
  ASSUME NEW p \in [Op -> Calls], NEW w, NEW X \in SUBSET Op, NEW H, NEW D, NEW G, Sound(p, w, X, H, D, G),
         NEW v \in H, NEW u, u = GiveBack(w, v)
  PROVE  Sound(p, u, X, H \ {v}, D, G) /\ Aside(p, w, u)
<1>1. CASE Waits(w.chan.takers)
  <2>1. u = HandOver(w, v)
    BY <1>1 DEF GiveBack, HandOver
  <2> QED
    BY <1>1, <2>1, HandOverOf
<1>2. CASE ~Waits(w.chan.takers)
  <2> DEFINE q == w.chan.items
             i == <<v>> \o q
             c == [w.chan EXCEPT !.items = i, !.count = @ + 1]
  <2>1. w \in Worlds /\ ChanLines(p, w, X) /\ PlacesOK(p, w, H) /\ WaitersOK(p, w, X) /\ ChanHeld(w)
    BY DEF Sound
  <2>2. q \in Seq(Op) /\ OnceI(q) /\ v \in PutOps(p) /\ v \in Op /\ PlaceOf(w, H, v)
        /\ \A k \in 1..Len(q) : q[k] \in PutOps(p)
    BY <2>1, WorldIs DEF PlacesOK, PutOps
  <2>3. <<v>> \in Seq(Op) /\ OnceI(<<v>>) /\ Len(<<v>>) = 1 /\ \A x : InItems(<<v>>, x) <=> x = v
    BY <2>2, OneItem
  <2>4. ~InItems(q, v)
    BY <2>2 DEF PlaceOf, Placed, One
  <2>5. \A x : InItems(q, x) => ~InItems(<<v>>, x)
    BY <2>3, <2>4
  <2>6. /\ i \in Seq(Op) /\ OnceI(i) /\ Len(i) = Len(<<v>>) + Len(q)
        /\ \A x : InItems(i, x) <=> InItems(<<v>>, x) \/ InItems(q, x)
        /\ \A k \in 1..Len(i) : InItems(<<v>>, i[k]) \/ InItems(q, i[k])
    BY <2>2, <2>3, <2>5, ItemsJoin
  <2> HIDE DEF i
  <2>7. c \in Chans /\ c.items = i /\ c.count = w.chan.count + 1 /\ c.closed = w.chan.closed
        /\ c.takers = w.chan.takers /\ c.senders = w.chan.senders
    <3>1. w.chan \in Chans
      BY <2>1 DEF Worlds, Chans
    <3>2. w.chan.count + 1 \in Nat
      BY <3>1 DEF Chans
    <3> QED
      BY <2>6, <3>1, <3>2 DEF Chans
  <2>8. u = [w EXCEPT !.chan = c]
    BY <1>2, <2>1 DEF GiveBack, Worlds, i
  <2> HIDE DEF c
  <2>9. OnlyChan(w, u) /\ u.chan = c
    BY <2>1, <2>7, <2>8, ChanField
  <2>10. ChanLines(p, u, X)
    BY <2>1, <2>7, <2>9 DEF ChanLines, Behind, OnlyChan
  <2>11. Shift(p, w, X, X, D, {"recv", "send"})
    BY DEF Shift
  <2>12. AllIn(p, w, X, {"recv"}, u.chan.takers) /\ AllIn(p, w, X, {"send"}, u.chan.senders)
    BY <2>1, <2>7, <2>9 DEF WaitersOK, HasLine, AllIn
  <2>13. PlacesOK(p, u, H \ {v})
    <3>1. Moves(p, w, u, H, H \ {v})
      BY <2>3, <2>6, <2>7, <2>9 DEF Moves, Placed, One, OnlyChan
    <3>2. ASSUME NEW k \in 1..Len(i) PROVE i[k] \in PutOps(p)
      BY <2>2, <2>3, <2>6 DEF InItems
    <3>3. /\ OnceE(p, u.chan.senders.line) /\ OnceI(u.chan.items) /\ H \ {v} \subseteq PutOps(p)
          /\ \A k \in 1..Len(u.chan.items) : u.chan.items[k] \in PutOps(p)
      BY <2>1, <2>6, <2>7, <2>9, <3>2 DEF PlacesOK
    <3> QED
      BY <2>1, <2>9, <3>1, <3>3, ChanPlaces
  <2>14. ChanHeld(u)
    <3>1. w.chan.count \in Nat /\ Capacity \in Nat /\ Len(q) \in Nat
      BY <2>1, <2>2, WorldIs, SizeAssumption
    <3> QED
      BY <1>2, <2>1, <2>3, <2>6, <2>7, <2>9, <3>1 DEF ChanHeld
  <2>15. Sound(p, u, X, H \ {v}, D, G) /\ SameSem(p, w, u)
    BY <2>9, <2>10, <2>11, <2>12, <2>13, <2>14, ChanChange
  <2> QED
    BY <2>9, <2>15, AsideOnly
<1> QED
  BY <1>1, <1>2

LEMMA TryRecvNowOf ==
  ASSUME NEW p \in [Op -> Calls], NEW w, NEW X \in SUBSET Op, NEW H, NEW D, NEW G, Sound(p, w, X, H, D, G),
         w.chan.items # <<>>, NEW h, h = Head(w.chan.items), NEW u, u = TryRecvNow(w)
  PROVE  Sound(p, u, X, H \cup {h}, D, G) /\ Aside(p, w, u)
<1> DEFINE q == w.chan.items
           l == w.chan.senders
           t == Tail(q)
           K == {"recv", "send"}
<1>1. w \in Worlds /\ ChanLines(p, w, X) /\ PlacesOK(p, w, H) /\ WaitersOK(p, w, X) /\ ChanHeld(w)
  BY DEF Sound
<1>2. q \in Seq(Op) /\ OnceI(q) /\ H \subseteq PutOps(p) /\ \A k \in 1..Len(q) : q[k] \in PutOps(p)
  BY <1>1, WorldIs DEF PlacesOK
<1>3. /\ h \in Op /\ t \in Seq(Op) /\ OnceI(t) /\ Len(q) = Len(t) + 1 /\ Len(t) \in Nat /\ InItems(q, h)
      /\ \A x : InItems(t, x) <=> InItems(q, x) /\ x # h
  BY <1>2, ItemTaken
<1>4. h \in PutOps(p) /\ H \cup {h} \subseteq PutOps(p)
  BY <1>2, <1>3 DEF InItems
<1>5. ~Waits(w.chan.takers) /\ w.chan.takers.line = {}
  BY <1>1 DEF ChanHeld, Waits
<1>6. w.chan \in Chans /\ w.chan.count = Len(t) + 1 /\ w.chan.count - 1 = Len(t)
  BY <1>1, <1>3 DEF Worlds, Chans, ChanHeld
<1>7. \A k \in 1..Len(t) : t[k] \in PutOps(p)
  <2> SUFFICES ASSUME NEW k \in 1..Len(t) PROVE t[k] \in PutOps(p)
    OBVIOUS
  <2>1. InItems(t, t[k])
    BY DEF InItems
  <2> QED
    BY <1>2, <1>3, <2>1 DEF InItems
<1> HIDE DEF t
<1>8. CASE ~Waits(l)
  <2> DEFINE c == [w.chan EXCEPT !.items = t, !.count = Len(t)]
  <2>1. c \in Chans /\ c.items = t /\ c.count = Len(t) /\ c.closed = w.chan.closed
        /\ c.takers = w.chan.takers /\ c.senders = l
    BY <1>3, <1>6 DEF Chans
  <2>2. u = [w EXCEPT !.chan = c]
    BY <1>1, <1>6, <1>8 DEF TryRecvNow, Worlds, Chans, t
  <2> HIDE DEF c
  <2>3. OnlyChan(w, u) /\ u.chan = c
    BY <1>1, <2>1, <2>2, ChanField
  <2>4. ChanLines(p, u, X)
    BY <1>1, <2>1, <2>3 DEF ChanLines, Behind, OnlyChan
  <2>5. Shift(p, w, X, X, D, K)
    BY DEF Shift
  <2>6. AllIn(p, w, X, {"recv"}, u.chan.takers) /\ AllIn(p, w, X, {"send"}, u.chan.senders)
    BY <1>1, <2>1, <2>3 DEF WaitersOK, HasLine, AllIn
  <2>7. PlacesOK(p, u, H \cup {h})
    <3>1. Moves(p, w, u, H, H \cup {h})
      BY <1>3, <2>1, <2>3 DEF Moves, Placed, One, OnlyChan
    <3>2. /\ OnceE(p, u.chan.senders.line) /\ OnceI(u.chan.items)
          /\ \A k \in 1..Len(u.chan.items) : u.chan.items[k] \in PutOps(p)
      BY <1>1, <1>3, <1>7, <2>1, <2>3 DEF PlacesOK
    <3> QED
      BY <1>1, <1>4, <2>3, <3>1, <3>2, ChanPlaces
  <2>8. ChanHeld(u)
    BY <1>5, <1>8, <2>1, <2>3 DEF ChanHeld, Waits
  <2>9. Sound(p, u, X, H \cup {h}, D, G) /\ SameSem(p, w, u)
    BY <2>3, <2>4, <2>5, <2>6, <2>7, <2>8, ChanChange
  <2> QED
    BY <2>3, <2>9, AsideOnly
<1>9. CASE Waits(l)
  <2> DEFINE s  == First(l)
             v  == s.value
             Y  == X \cup {s.op}
             i  == Append(t, v)
             c  == [w.chan EXCEPT !.items = i, !.senders = Rest(l)]
             w1 == [w EXCEPT !.chan = c]
  <2>1. l \in Line /\ LineOK(l) /\ \A f \in l.line : Behind(w, X, f) /\ p[f.op] = "send" /\ f.value = f.op
    BY <1>1, WorldIs DEF ChanLines
  <2>2. s \in l.line /\ Rest(l) \in Line /\ LineOK(Rest(l)) /\ Rest(l).line = l.line \ {s}
    BY <1>9, <2>1, FirstOf, RestOf
  <2>3. Behind(w, X, s) /\ s.op \in Op \ X /\ w.status[s.op] = "waiting" /\ p[s.op] = "send" /\ v = s.op
    BY <2>1, <2>2 DEF Behind
  <2>4. v \in PutOps(p) /\ v \in Op
    BY <2>3 DEF PutOps, Puts
  <2>5. InEntries(l.line, v) /\ OnceE(p, l.line) /\ PlaceOf(w, H, v)
    BY <1>1, <2>2, <2>4 DEF InEntries, PlacesOK
  <2>6. <<v>> \in Seq(Op) /\ OnceI(<<v>>) /\ Len(<<v>>) = 1 /\ (\A x : InItems(<<v>>, x) <=> x = v) /\ i = t \o <<v>>
    BY <1>3, <2>4, OneItem
  <2>7. \A x : InItems(<<v>>, x) => ~InItems(t, x)
    BY <1>3, <2>5, <2>6 DEF PlaceOf, Placed, One
  <2>8. /\ t \o <<v>> \in Seq(Op) /\ OnceI(t \o <<v>>) /\ Len(t \o <<v>>) = Len(t) + Len(<<v>>)
        /\ \A x : InItems(t \o <<v>>, x) <=> InItems(t, x) \/ InItems(<<v>>, x)
        /\ \A k \in 1..Len(t \o <<v>>) : InItems(t, (t \o <<v>>)[k]) \/ InItems(<<v>>, (t \o <<v>>)[k])
    BY ZenonT(30), <1>3, <2>6, <2>7, ItemsJoin
  <2>9. /\ i \in Seq(Op) /\ OnceI(i) /\ Len(i) = Len(t) + 1
        /\ \A x : InItems(i, x) <=> (InItems(q, x) /\ x # h) \/ x = v
        /\ \A k \in 1..Len(i) : InItems(t, i[k]) \/ i[k] = v
    BY <1>3, <2>6, <2>8
  <2> HIDE DEF i
  <2>11. c \in Chans /\ c.items = i /\ c.count = w.chan.count /\ c.closed = w.chan.closed
         /\ c.takers = w.chan.takers /\ c.senders = Rest(l)
    BY <1>6, <2>2, <2>9 DEF Chans
  <2>12. u = Done(w1, s.op, None)
    BY <1>1, <1>9 DEF TryRecvNow, Worlds, i, t
  <2>13. Y \in SUBSET Op
    BY <2>3
  <2> HIDE DEF c
  <2>14. OnlyChan(w, w1) /\ w1.chan = c
    BY <1>1, <2>11, ChanField
  <2> HIDE DEF w1, s, Y, v
  <2>15. ChanLines(p, w1, Y)
    <3>1. ASSUME NEW f \in Rest(l).line PROVE Behind(w1, Y, f) /\ p[f.op] = "send" /\ f.value = f.op
      <4>1. f \in l.line /\ f # s /\ Behind(w, X, f) /\ p[f.op] = "send" /\ f.value = f.op
        BY <2>1, <2>2
      <4>2. f.op # s.op
        BY <2>1, <2>2, <2>3, <4>1 DEF Behind, LineOK
      <4> QED
        BY <2>14, <4>1, <4>2 DEF Behind, OnlyChan, Y
    <3>2. w1.chan.takers.line = {} /\ LineOK(w1.chan.takers)
      BY <1>1, <1>5, <2>11, <2>14 DEF ChanLines
    <3> QED
      BY <2>2, <2>11, <2>14, <3>1, <3>2 DEF ChanLines
  <2>16. Shift(p, w, X, Y, D, K)
    BY <2>3 DEF Shift, Y
  <2>17. AllIn(p, w, Y, {"send"}, w1.chan.senders)
    <3> SUFFICES ASSUME NEW o \in Op \ Y, w.status[o] = "waiting", p[o] = "send" PROVE IsIn(w1.chan.senders, o)
      BY DEF AllIn
    <3>1. o \notin X /\ o # s.op
      BY DEF Y
    <3>2. PICK f \in l.line : f.op = o
      BY <1>1, <3>1 DEF WaitersOK, HasLine, IsIn
    <3> QED
      BY <2>2, <2>11, <2>14, <3>1, <3>2 DEF IsIn
  <2>18. AllIn(p, w, Y, {"recv"}, w1.chan.takers)
    BY <1>1, <2>11, <2>14 DEF WaitersOK, HasLine, AllIn, Y
  <2>19. PlacesOK(p, w1, H \cup {h})
    <3>1. \A x \in PutOps(p) : InEntries(Rest(l).line, x) <=> InEntries(l.line, x) /\ x # v
      BY <2>2, <2>5 DEF OnceE, InEntries, v
    <3>2. Moves(p, w, w1, H, H \cup {h})
      <4> SUFFICES ASSUME NEW x \in PutOps(p)
                   PROVE  Placed(x \in w.live, w.mvar.value = x, InItems(q, x), InEntries(w.mvar.line.line, x),
                                 InEntries(l.line, x), ValQ(w.runQ, x), TakenBy(w, x), x \in H)
                          => Placed(x \in w.live, w.mvar.value = x, InItems(i, x), InEntries(w.mvar.line.line, x),
                                    InEntries(Rest(l).line, x), ValQ(w.runQ, x), TakenBy(w, x), x \in H \cup {h})
        BY <2>11, <2>14 DEF Moves, OnlyChan
      <4> QED
        BY <1>3, <2>5, <2>9, <3>1 DEF Placed, One
    <3>3. OnceE(p, Rest(l).line)
      BY <2>2, <2>5 DEF OnceE
    <3>4. \A k \in 1..Len(i) : i[k] \in PutOps(p)
      <4> SUFFICES ASSUME NEW k \in 1..Len(i) PROVE i[k] \in PutOps(p)
        OBVIOUS
      <4>1. CASE InItems(t, i[k])
        BY <1>7, <4>1 DEF InItems
      <4>2. CASE i[k] = v
        BY <2>4, <4>2
      <4> QED
        BY <2>9, <4>1, <4>2
    <3>5. OnceE(p, w1.chan.senders.line) /\ OnceI(w1.chan.items)
          /\ \A k \in 1..Len(w1.chan.items) : w1.chan.items[k] \in PutOps(p)
      BY <2>9, <2>11, <2>14, <3>3, <3>4
    <3> QED
      BY <1>1, <1>4, <2>14, <3>2, <3>5, ChanPlaces
  <2>20. ChanHeld(w1)
    BY <1>1, <1>3, <1>5, <1>6, <1>9, <2>9, <2>11, <2>14 DEF ChanHeld, Waits
  <2>21. Sound(p, w1, Y, H \cup {h}, D, G) /\ SameSem(p, w, w1)
    BY <2>14, <2>15, <2>16, <2>17, <2>18, <2>19, <2>20, ChanChange
  <2>22. s.op \in Y /\ Y \ {s.op} = X /\ None \in Maybe /\ None \notin PutOps(p) /\ (H \cup {h}) \ {None} = H \cup {h}
    BY <1>4, <2>3, NeedIs DEF Y, Maybe, PutOps
  <2>23. StepOK(p, Step(s.op, None, FALSE))
    BY <2>3 DEF StepOK, Step, Takes, Acquires, Asyncs, Pinneds
  <2>24. Sound(p, u, Y \ {s.op}, (H \cup {h}) \ {None}, D, G) /\ Readied(p, w1, u, {s.op})
    BY <2>12, <2>13, <2>21, <2>22, <2>23, DoneOf
  <2>25. p[s.op] \notin Acquires
    BY <2>3 DEF Acquires
  <2>26. Aside(p, w, u)
    BY <2>3, <2>14, <2>21, <2>24, <2>25, AsideOnly, AsideDone
  <2> QED
    BY <2>22, <2>24, <2>26
<1> QED
  BY <1>8, <1>9

(* The start of a wait in one of the lines of the channel.                  *)
WaitsOnChan(p, w, x, u, X, H, D, G, o, k, c) ==
  /\ Sound(p, x, X, H, D, G) /\ SameSem(p, w, x)
  /\ OnlyChan(x, u) /\ u.chan = c /\ x.chan = w.chan /\ x.live = w.live
  /\ x.status[o] = "waiting" /\ x.number[o] = k
  /\ Shift(p, x, X, X \ {o}, D, {"recv", "send"})

LEMMA WaitOnChan ==
  ASSUME NEW p \in [Op -> Calls], NEW w, NEW X \in SUBSET Op, NEW H, NEW D, NEW G, Sound(p, w, X, H, D, G),
         NEW o \in X, o \notin D, o \notin G, p[o] \in {"recv", "send"}, NEW k \in Nat, NEW c, c \in Chans,
         NEW x, x = Wait(w, o, k), NEW u, u = Wait([w EXCEPT !.chan = c], o, k)
  PROVE  WaitsOnChan(p, w, x, u, X, H, D, G, o, k, c)
<1> DEFINE y == [w EXCEPT !.chan = c]
<1>1. w \in Worlds /\ IsFiniteSet(w.cleanups) /\ o \in Op /\ p[o] \notin Pinneds
  BY DEF Sound, CleanupsOK, IdentsOK, Pinneds
<1>2. OnlyChan(w, y) /\ y.chan = c /\ u = Wait(y, o, k)
  BY <1>1, ChanField
<1> HIDE DEF y
<1>3. Sound(p, x, X, H, D, G) /\ Waiting(w, x, o, k)
  BY <1>1, WaitOf
<1>4. y \in Worlds /\ IsFiniteSet(y.cleanups)
  BY <1>1, <1>2 DEF OnlyChan
<1>5. Waiting(y, u, o, k)
  BY <1>1, <1>2, <1>4, WaitFields
<1>6. OnlyChan(x, u) /\ u.chan = c
  BY <1>2, <1>3, <1>5 DEF OnlyChan, Waiting
<1>7. x.status[o] = "waiting" /\ x.number[o] = k
  BY <1>1, <1>3, WorldIs DEF Waiting
<1>8. SameSem(p, w, x)
  BY <1>3 DEF Waiting, SameSem, GrantedIn, AddedIn
<1>9. \E d \in x.cleanups : d.op = o
  <2>1. [num |-> Fresh(w.cleanups), op |-> o] \in x.cleanups
    BY <1>3 DEF Waiting
  <2> QED
    BY <2>1
<1>10. Shift(p, x, X, X \ {o}, D, {"recv", "send"})
  BY <1>7, <1>9 DEF Shift
<1> QED
  BY <1>3, <1>6, <1>7, <1>8, <1>10 DEF WaitsOnChan, Waiting

JoinTakers(w, o)  == Wait([w EXCEPT !.chan.takers = Enter(@, o, None)], o, w.chan.takers.next)
JoinSenders(w, o) == Wait([w EXCEPT !.chan.senders = Enter(@, o, o)], o, w.chan.senders.next)

LEMMA WaitInTakers ==
  ASSUME NEW p \in [Op -> Calls], NEW w, NEW X \in SUBSET Op, NEW H, NEW D, NEW G, Sound(p, w, X, H, D, G),
         NEW o \in X, o \notin D, o \notin G, p[o] = "recv", w.chan.items = <<>>, ~w.chan.closed,
         NEW u, u = JoinTakers(w, o)
  PROVE  Sound(p, u, X \ {o}, H, D, G) /\ SameSem(p, w, u)
<1> DEFINE l == w.chan.takers
           k == l.next
           e == [num |-> k, op |-> o, value |-> None]
           c == [w.chan EXCEPT !.takers = Enter(l, o, None)]
           x == Wait(w, o, k)
<1>1. w \in Worlds /\ ChanLines(p, w, X)
  BY DEF Sound
<1>2. l \in Line /\ LineOK(l) /\ k \in Nat
  BY <1>1, WorldIs, LineIs DEF ChanLines
<1>3. None \in Maybe /\ o \in Maybe /\ o \in Op
  BY DEF Maybe
<1>4. Enter(l, o, None) \in Line /\ LineOK(Enter(l, o, None)) /\ Enter(l, o, None).line = l.line \cup {e}
  BY <1>2, <1>3, EnterOf
<1>5. c \in Chans /\ c.items = w.chan.items /\ c.count = w.chan.count /\ c.closed = w.chan.closed
      /\ c.takers = Enter(l, o, None) /\ c.senders = w.chan.senders
  BY <1>1, <1>4 DEF Worlds, Chans
<1>6. u = Wait([w EXCEPT !.chan = c], o, k)
  BY <1>1 DEF Worlds, JoinTakers
<1>7. e.num = k /\ e.op = o /\ e.value = None
  OBVIOUS
<1> HIDE DEF c, e, k, x
<1>8. WaitsOnChan(p, w, x, u, X, H, D, G, o, k, c)
  BY <1>2, <1>5, <1>6, WaitOnChan DEF x
<1>9. Sound(p, x, X, H, D, G) /\ SameSem(p, w, x) /\ OnlyChan(x, u) /\ u.chan = c /\ x.chan = w.chan
      /\ x.status[o] = "waiting" /\ x.number[o] = k /\ Shift(p, x, X, X \ {o}, D, {"recv", "send"})
  BY <1>8 DEF WaitsOnChan
<1>10. ChanLines(p, x, X) /\ PlacesOK(p, x, H) /\ WaitersOK(p, x, X) /\ ChanHeld(x)
  BY <1>9 DEF Sound
<1>11. ChanLines(p, u, X \ {o})
  <2>1. ASSUME NEW f \in u.chan.takers.line PROVE Behind(u, X \ {o}, f) /\ p[f.op] = "recv" /\ f.value = None
    <3>1. CASE f = e
      BY <1>3, <1>7, <1>9, <3>1 DEF Behind, OnlyChan
    <3>2. CASE f \in l.line
      BY <1>9, <1>10, <3>2 DEF ChanLines, Behind, OnlyChan
    <3> QED
      BY <1>4, <1>5, <1>9, <3>1, <3>2
  <2>2. ASSUME NEW f \in u.chan.senders.line PROVE Behind(u, X \ {o}, f) /\ p[f.op] = "send" /\ f.value = f.op
    BY <1>5, <1>9, <1>10 DEF ChanLines, Behind, OnlyChan
  <2> QED
    BY <1>1, <1>4, <1>5, <1>9, <2>1, <2>2 DEF ChanLines
<1>12. AllIn(p, x, X \ {o}, {"recv"}, u.chan.takers)
  <2> SUFFICES ASSUME NEW q \in Op \ (X \ {o}), x.status[q] = "waiting", p[q] = "recv"
               PROVE  \E f \in l.line \cup {e} : f.op = q
    BY <1>4, <1>5, <1>9 DEF AllIn, IsIn
  <2>1. CASE q = o
    BY <1>7, <2>1
  <2>2. CASE q # o
    <3>1. \E f \in l.line : f.op = q
      BY <1>9, <1>10, <2>2 DEF WaitersOK, HasLine, IsIn
    <3> QED
      BY <3>1
  <2> QED
    BY <2>1, <2>2
<1>13. AllIn(p, x, X \ {o}, {"send"}, u.chan.senders)
  BY <1>5, <1>9, <1>10 DEF AllIn, WaitersOK, HasLine
<1>14. PlacesOK(p, u, H)
  <2>1. Moves(p, x, u, H, H)
    BY <1>5, <1>9 DEF Moves, Placed, One, OnlyChan
  <2>2. /\ OnceE(p, u.chan.senders.line) /\ OnceI(u.chan.items) /\ H \subseteq PutOps(p)
        /\ \A i \in 1..Len(u.chan.items) : u.chan.items[i] \in PutOps(p)
    BY <1>5, <1>9, <1>10 DEF PlacesOK
  <2> QED
    BY <1>9, <1>10, <2>1, <2>2, ChanPlaces
<1>15. ChanHeld(u)
  BY <1>5, <1>9, <1>10 DEF ChanHeld, Waits
<1>16. Sound(p, u, X \ {o}, H, D, G) /\ SameSem(p, x, u)
  BY <1>9, <1>11, <1>12, <1>13, <1>14, <1>15, ChanChange
<1> QED
  BY <1>9, <1>16 DEF SameSem

LEMMA WaitInSenders ==
  ASSUME NEW p \in [Op -> Calls], NEW w, NEW X \in SUBSET Op, NEW H, NEW D, NEW G, Sound(p, w, X, H, D, G),
         NEW o \in X, o \notin D, o \notin G, p[o] = "send", o \in H,
         w.chan.count >= Capacity, ~w.chan.closed, NEW u, u = JoinSenders(w, o)
  PROVE  Sound(p, u, X \ {o}, H \ {o}, D, G) /\ SameSem(p, w, u)
<1> DEFINE l == w.chan.senders
           k == l.next
           e == [num |-> k, op |-> o, value |-> o]
           c == [w.chan EXCEPT !.senders = Enter(l, o, o)]
           x == Wait(w, o, k)
<1>1. w \in Worlds /\ ChanLines(p, w, X) /\ PlacesOK(p, w, H)
  BY DEF Sound
<1>2. l \in Line /\ LineOK(l) /\ k \in Nat
  BY <1>1, WorldIs, LineIs DEF ChanLines
<1>3. o \in Maybe /\ o \in Op
  BY DEF Maybe
<1>4. Enter(l, o, o) \in Line /\ LineOK(Enter(l, o, o)) /\ Enter(l, o, o).line = l.line \cup {e}
  BY <1>2, <1>3, EnterOf
<1>5. c \in Chans /\ c.items = w.chan.items /\ c.count = w.chan.count /\ c.closed = w.chan.closed
      /\ c.senders = Enter(l, o, o) /\ c.takers = w.chan.takers
  BY <1>1, <1>4 DEF Worlds, Chans
<1>6. u = Wait([w EXCEPT !.chan = c], o, k)
  BY <1>1 DEF Worlds, JoinSenders
<1>7. e.num = k /\ e.op = o /\ e.value = o
  OBVIOUS
<1> HIDE DEF c, e, k, x
<1>8. WaitsOnChan(p, w, x, u, X, H, D, G, o, k, c)
  BY <1>2, <1>5, <1>6, WaitOnChan DEF x
<1>9. Sound(p, x, X, H, D, G) /\ SameSem(p, w, x) /\ OnlyChan(x, u) /\ u.chan = c /\ x.chan = w.chan
      /\ x.status[o] = "waiting" /\ x.number[o] = k /\ Shift(p, x, X, X \ {o}, D, {"recv", "send"})
  BY <1>8 DEF WaitsOnChan
<1>10. ChanLines(p, x, X) /\ PlacesOK(p, x, H) /\ WaitersOK(p, x, X) /\ ChanHeld(x)
  BY <1>9 DEF Sound
<1>11. ChanLines(p, u, X \ {o})
  <2>1. ASSUME NEW f \in u.chan.senders.line PROVE Behind(u, X \ {o}, f) /\ p[f.op] = "send" /\ f.value = f.op
    <3>1. CASE f = e
      BY <1>3, <1>7, <1>9, <3>1 DEF Behind, OnlyChan
    <3>2. CASE f \in l.line
      BY <1>9, <1>10, <3>2 DEF ChanLines, Behind, OnlyChan
    <3> QED
      BY <1>4, <1>5, <1>9, <3>1, <3>2
  <2>2. ASSUME NEW f \in u.chan.takers.line PROVE Behind(u, X \ {o}, f) /\ p[f.op] = "recv" /\ f.value = None
    BY <1>5, <1>9, <1>10 DEF ChanLines, Behind, OnlyChan
  <2> QED
    BY <1>1, <1>4, <1>5, <1>9, <2>1, <2>2 DEF ChanLines
<1>12. AllIn(p, x, X \ {o}, {"send"}, u.chan.senders)
  <2> SUFFICES ASSUME NEW q \in Op \ (X \ {o}), x.status[q] = "waiting", p[q] = "send"
               PROVE  \E f \in l.line \cup {e} : f.op = q
    BY <1>4, <1>5, <1>9 DEF AllIn, IsIn
  <2>1. CASE q = o
    BY <1>7, <2>1
  <2>2. CASE q # o
    <3>1. \E f \in l.line : f.op = q
      BY <1>9, <1>10, <2>2 DEF WaitersOK, HasLine, IsIn
    <3> QED
      BY <3>1
  <2> QED
    BY <2>1, <2>2
<1>13. AllIn(p, x, X \ {o}, {"recv"}, u.chan.takers)
  BY <1>5, <1>9, <1>10 DEF AllIn, WaitersOK, HasLine
<1>14. PlacesOK(p, u, H \ {o})
  <2>1. H \subseteq PutOps(p) /\ o \in PutOps(p) /\ OnceE(p, l.line) /\ PlaceOf(w, H, o)
    BY <1>1 DEF PlacesOK
  <2>2. ~InEntries(l.line, o)
    BY <2>1 DEF PlaceOf, Placed, One
  <2>3. OnceE(p, u.chan.senders.line) /\ \A v : InEntries(u.chan.senders.line, v) <=> InEntries(l.line, v) \/ v = o
    BY <1>4, <1>5, <1>7, <1>9, <2>1, <2>2 DEF OnceE, InEntries
  <2>4. Moves(p, x, u, H, H \ {o})
    BY <1>5, <1>9, <2>3 DEF Moves, Placed, One, OnlyChan
  <2>5. /\ OnceI(u.chan.items) /\ H \ {o} \subseteq PutOps(p)
        /\ \A i \in 1..Len(u.chan.items) : u.chan.items[i] \in PutOps(p)
    BY <1>5, <1>9, <1>10, <2>1 DEF PlacesOK
  <2> QED
    BY <1>9, <1>10, <2>3, <2>4, <2>5, ChanPlaces
<1>15. ChanHeld(u)
  BY <1>5, <1>9, <1>10 DEF ChanHeld, Waits
<1>16. Sound(p, u, X \ {o}, H \ {o}, D, G) /\ SameSem(p, x, u)
  BY <1>9, <1>11, <1>12, <1>13, <1>14, <1>15, ChanChange
<1> QED
  BY <1>9, <1>16 DEF SameSem

LEMMA TrySendNowOf ==
  ASSUME NEW p \in [Op -> Calls], NEW w, NEW X \in SUBSET Op, NEW H, NEW D, NEW G, Sound(p, w, X, H, D, G),
         NEW o \in Op, o \notin H, o \notin w.live, p[o] \in {"send", "trySend"}, o \in X \/ w.status[o] # "idle",
         p[o] \in Pinneds => w.status[o] = "over", NEW u, u = TrySendNow(w, o)
  PROVE  Sound(p, u, X, H, D, G) /\ SameSem(p, w, u)
<1> DEFINE in == [w EXCEPT !.live = @ \cup {o}]
           J  == H \cup {o}
<1>1. CASE w.chan.closed \/ ~Room(w.chan)
  BY <1>1 DEF TrySendNow, SameSem
<1>2. ASSUME ~(w.chan.closed \/ ~Room(w.chan))
      PROVE  Sound(p, u, X, H, D, G) /\ SameSem(p, w, u)
  <2>1. p[o] \in Puts
    BY DEF Puts
  <2> HIDE DEF in
  <2>2. Sound(p, in, X, H \cup {o}, D, G) /\ OnlyLive(w, in) /\ SameSem(p, w, in)
    BY <2>1, PutIn DEF in
  <2>3. J \ {o} = H /\ o \in J /\ H \cup {o} = J
    OBVIOUS
  <2> HIDE DEF J
  <2>4. Sound(p, in, X, J, D, G) /\ in.chan = w.chan
    BY <2>2, <2>3 DEF OnlyLive
  <2>5. CASE Waits(w.chan.takers)
    <3>1. u = HandOver(in, o)
      BY <1>2, <2>4, <2>5 DEF TrySendNow, HandOver, in
    <3>2. Sound(p, u, X, J \ {o}, D, G) /\ Aside(p, in, u)
      BY <2>3, <2>4, <2>5, <3>1, HandOverOf
    <3> QED
      BY <2>2, <2>3, <3>2 DEF Aside, SameSem
  <2>6. CASE ~Waits(w.chan.takers)
    <3> DEFINE q == in.chan.items
               i == Append(q, o)
               c == [in.chan EXCEPT !.items = i, !.count = @ + 1]
    <3>1. in \in Worlds /\ ChanLines(p, in, X) /\ PlacesOK(p, in, J) /\ WaitersOK(p, in, X) /\ ChanHeld(in)
      BY <2>4 DEF Sound
    <3>2. q \in Seq(Op) /\ OnceI(q) /\ o \in PutOps(p) /\ PlaceOf(in, J, o) /\ J \subseteq PutOps(p)
          /\ \A k \in 1..Len(q) : q[k] \in PutOps(p)
      BY <2>3, <3>1, WorldIs DEF PlacesOK, PutOps
    <3>3. /\ <<o>> \in Seq(Op) /\ OnceI(<<o>>) /\ Len(<<o>>) = 1 /\ \A x : InItems(<<o>>, x) <=> x = o
          /\ i = q \o <<o>>
      BY <3>2, OneItem
    <3>4. \A x : InItems(<<o>>, x) => ~InItems(q, x)
      BY <2>3, <3>2, <3>3 DEF PlaceOf, Placed, One
    <3>5. /\ q \o <<o>> \in Seq(Op) /\ OnceI(q \o <<o>>) /\ Len(q \o <<o>>) = Len(q) + Len(<<o>>)
          /\ \A x : InItems(q \o <<o>>, x) <=> InItems(q, x) \/ InItems(<<o>>, x)
          /\ \A k \in 1..Len(q \o <<o>>) : InItems(q, (q \o <<o>>)[k]) \/ InItems(<<o>>, (q \o <<o>>)[k])
      BY <3>2, <3>3, <3>4, ItemsJoin
    <3>6. /\ i \in Seq(Op) /\ OnceI(i) /\ Len(i) = Len(q) + 1
          /\ \A x : InItems(i, x) <=> InItems(q, x) \/ x = o
          /\ \A k \in 1..Len(i) : InItems(q, i[k]) \/ i[k] = o
      BY <3>3, <3>5
    <3> HIDE DEF i
    <3>7. c \in Chans /\ c.items = i /\ c.count = in.chan.count + 1 /\ c.closed = in.chan.closed
          /\ c.takers = in.chan.takers /\ c.senders = in.chan.senders
      <4>1. in.chan \in Chans
        BY <3>1 DEF Worlds, Chans
      <4>2. in.chan.count + 1 \in Nat
        BY <4>1 DEF Chans
      <4> QED
        BY <3>6, <4>1, <4>2 DEF Chans
    <3>8. u = [in EXCEPT !.chan = c]
      BY <1>2, <2>4, <2>6, <3>1 DEF TrySendNow, Worlds, i, in
    <3> HIDE DEF c
    <3>9. OnlyChan(in, u) /\ u.chan = c
      BY <3>1, <3>7, <3>8, ChanField
    <3>10. ChanLines(p, u, X)
      BY <3>1, <3>7, <3>9 DEF ChanLines, Behind, OnlyChan
    <3>11. Shift(p, in, X, X, D, {"recv", "send"})
      BY DEF Shift
    <3>12. AllIn(p, in, X, {"recv"}, u.chan.takers) /\ AllIn(p, in, X, {"send"}, u.chan.senders)
      BY <3>1, <3>7, <3>9 DEF WaitersOK, HasLine, AllIn
    <3>13. PlacesOK(p, u, J \ {o})
      <4>1. Moves(p, in, u, J, J \ {o})
        BY <2>3, <3>6, <3>7, <3>9 DEF Moves, Placed, One, OnlyChan
      <4>2. ASSUME NEW k \in 1..Len(i) PROVE i[k] \in PutOps(p)
        BY <3>2, <3>6 DEF InItems
      <4>3. /\ OnceE(p, u.chan.senders.line) /\ OnceI(u.chan.items) /\ J \ {o} \subseteq PutOps(p)
            /\ \A k \in 1..Len(u.chan.items) : u.chan.items[k] \in PutOps(p)
        BY <3>1, <3>2, <3>6, <3>7, <3>9, <4>2 DEF PlacesOK
      <4> QED
        BY <3>1, <3>9, <4>1, <4>3, ChanPlaces
    <3>14. ChanHeld(u)
      <4>1. in.chan.count \in Nat /\ Capacity \in Nat /\ in.chan.count < Capacity
        BY <1>2, <2>4, <2>6, <3>1, WorldIs, SizeAssumption DEF Room
      <4>2. ~(in.chan.count >= Capacity)
        BY <4>1
      <4>3. ~Waits(in.chan.senders) /\ ~Waits(in.chan.takers)
        BY <2>4, <2>6, <3>1, <4>2 DEF ChanHeld
      <4> QED
        BY <3>1, <3>6, <3>7, <3>9, <4>3 DEF ChanHeld
    <3>15. Sound(p, u, X, J \ {o}, D, G) /\ SameSem(p, in, u)
      BY <2>4, <3>9, <3>10, <3>11, <3>12, <3>13, <3>14, ChanChange
    <3> QED
      BY <2>2, <2>3, <3>15 DEF SameSem
  <2> QED
    BY <2>5, <2>6
<1> QED
  BY <1>1, <1>2

LEMMA RecvOf ==
  ASSUME NEW p \in [Op -> Calls], NEW w, NEW D, NEW G, NEW o \in Op, Sound(p, w, {o}, {}, D, G),
         o \notin D, o \notin G, p[o] = "recv", NEW u, u = Recv(w, o)
  PROVE  Sound(p, u, {}, {}, D, G) /\ SameSem(p, w, u)
<1> DEFINE X == {o}
           Z == {}
<1>1. X \in SUBSET Op /\ o \in X /\ X \ {o} = Z /\ Sound(p, w, X, Z, D, G) /\ Z \ {None} = Z /\ Z = {}
  OBVIOUS
<1>2. p[o] \notin Acquires
  BY DEF Acquires
<1> HIDE DEF X, Z
<1>3. CASE w.chan.items # <<>>
  <2> DEFINE h == Head(w.chan.items)
             x == TryRecvNow(w)
             J == {h}
  <2>1. u = Done(x, o, h)
    BY <1>3 DEF Recv
  <2>2. J \ {h} = Z /\ Z \cup {h} = J /\ h \in J
    BY <1>1
  <2> HIDE DEF h, x, J
  <2>3. Sound(p, x, X, Z \cup {h}, D, G) /\ Aside(p, w, x)
    BY <1>1, <1>3, TryRecvNowOf DEF h, x
  <2>4. Sound(p, x, X, J, D, G)
    BY <2>2, <2>3
  <2>5. h \in PutOps(p) /\ h \in Maybe
    BY <2>2, <2>4 DEF Sound, PlacesOK, PutOps, Maybe
  <2>6. StepOK(p, Step(o, h, FALSE))
    BY <2>5 DEF StepOK, Step, Takes, Acquires, Asyncs, Pinneds
  <2>7. Sound(p, u, X \ {o}, J \ {h}, D, G) /\ Readied(p, x, u, {o})
    BY <1>1, <2>1, <2>2, <2>4, <2>5, <2>6, DoneOf
  <2>8. SameSem(p, x, u)
    BY <1>2, <2>7, ReadiedOne
  <2> QED
    BY <1>1, <2>2, <2>3, <2>7, <2>8 DEF Aside, SameSem
<1>4. CASE w.chan.items = <<>> /\ w.chan.closed
  <2>1. u = Done(w, o, None)
    BY <1>4 DEF Recv
  <2>2. StepOK(p, Step(o, None, FALSE)) /\ None \in Maybe /\ None \notin PutOps(p)
    BY NeedIs DEF StepOK, Step, Takes, Acquires, Asyncs, Pinneds, Maybe, PutOps
  <2>3. Sound(p, u, X \ {o}, Z \ {None}, D, G) /\ Readied(p, w, u, {o})
    BY <1>1, <2>1, <2>2, DoneOf
  <2>4. SameSem(p, w, u)
    BY <1>2, <2>3, ReadiedOne
  <2> QED
    BY <1>1, <2>3, <2>4
<1>5. CASE w.chan.items = <<>> /\ ~w.chan.closed
  <2>1. u = JoinTakers(w, o)
    BY <1>5 DEF Recv, JoinTakers
  <2>2. Sound(p, u, X \ {o}, Z, D, G) /\ SameSem(p, w, u)
    BY <1>1, <1>5, <2>1, WaitInTakers
  <2> QED
    BY <1>1, <2>2
<1> QED
  BY <1>3, <1>4, <1>5

LEMMA SendOf ==
  ASSUME NEW p \in [Op -> Calls], NEW w, NEW D, NEW G, NEW o \in Op, Sound(p, w, {o}, {}, D, G),
         o \notin D, o \notin G, p[o] = "send", o \notin w.live, NEW u, u = Send(w, o)
  PROVE  Sound(p, u, {}, {}, D, G) /\ SameSem(p, w, u)
<1> DEFINE X == {o}
           Z == {}
<1>1. X \in SUBSET Op /\ o \in X /\ X \ {o} = Z /\ Sound(p, w, X, Z, D, G) /\ Z \ {None} = Z /\ Z = {} /\ o \notin Z
      /\ Z \cup {o} = X
  OBVIOUS
<1>2. p[o] \notin Acquires /\ p[o] \notin Pinneds /\ p[o] \in {"send", "trySend"} /\ p[o] \in Puts
  BY DEF Acquires, Pinneds, Puts
<1> HIDE DEF X, Z
<1>3. CASE w.chan.closed \/ Room(w.chan)
  <2> DEFINE x == TrySendNow(w, o)
  <2>1. u = Done(x, o, None)
    BY <1>3 DEF Send
  <2> HIDE DEF x
  <2>2. Sound(p, x, X, Z, D, G) /\ SameSem(p, w, x)
    BY <1>1, <1>2, TrySendNowOf DEF x
  <2>3. StepOK(p, Step(o, None, FALSE)) /\ None \in Maybe /\ None \notin PutOps(p)
    BY NeedIs DEF StepOK, Step, Takes, Acquires, Asyncs, Pinneds, Maybe, PutOps
  <2>4. Sound(p, u, X \ {o}, Z \ {None}, D, G) /\ Readied(p, x, u, {o})
    BY <1>1, <2>1, <2>2, <2>3, DoneOf
  <2>5. SameSem(p, x, u)
    BY <1>2, <2>4, ReadiedOne
  <2> QED
    BY <1>1, <2>2, <2>4, <2>5 DEF SameSem
<1>4. CASE ~(w.chan.closed \/ Room(w.chan))
  <2> DEFINE in == [w EXCEPT !.live = @ \cup {o}]
  <2>1. w \in Worlds
    BY DEF Sound
  <2>2. u = Wait([w EXCEPT !.chan.senders = Enter(@, o, o), !.live = @ \cup {o}], o, w.chan.senders.next)
    BY <1>4 DEF Send
  <2> HIDE DEF in
  <2>3. Sound(p, in, X, Z \cup {o}, D, G) /\ OnlyLive(w, in) /\ SameSem(p, w, in)
    BY <1>1, <1>2, PutIn DEF in
  <2>4. Sound(p, in, X, X, D, G) /\ in.chan = w.chan
    BY <1>1, <2>3 DEF OnlyLive
  <2>5. u = JoinSenders(in, o)
    BY <2>1, <2>2, <2>4 DEF JoinSenders, in, Worlds
  <2>6. in.chan.count >= Capacity /\ ~in.chan.closed
    <3>1. w.chan.count \in Nat /\ Capacity \in Nat
      BY <2>1, WorldIs, SizeAssumption
    <3> QED
      BY <1>4, <2>4, <3>1 DEF Room
  <2>7. Sound(p, u, X \ {o}, X \ {o}, D, G) /\ SameSem(p, in, u)
    BY <1>1, <2>4, <2>5, <2>6, WaitInSenders
  <2> QED
    BY <1>1, <2>3, <2>7 DEF SameSem
<1> QED
  BY <1>3, <1>4

LEMMA TryRecvOf ==
  ASSUME NEW p \in [Op -> Calls], NEW w, NEW D, NEW G, NEW o \in Op, Sound(p, w, {}, {}, D, G),
         p[o] = "tryRecv", w.status[o] = "over", w.taken[o] = None,
         NEW u, u = [TryRecvNow(w) EXCEPT !.taken[o] = IF w.chan.items = <<>> THEN None ELSE Head(w.chan.items)]
  PROVE  Sound(p, u, {}, {}, D, G) /\ SameSem(p, w, u)
<1>1. CASE w.chan.items = <<>>
  <2>1. u = [w EXCEPT !.taken[o] = None] /\ w \in Worlds
    BY <1>1 DEF TryRecvNow, Sound
  <2>2. w.taken \in [Op -> Maybe]
    BY <2>1, WorldIs
  <2>3. [w.taken EXCEPT ![o] = None] = w.taken
    BY <2>2
  <2>4. u = [w EXCEPT !.taken = w.taken]
    BY <2>1, <2>3 DEF Worlds
  <2>5. u = w
    BY <2>1, <2>4 DEF Worlds
  <2> QED
    BY <2>5 DEF SameSem
<1>2. CASE w.chan.items # <<>>
  <2> DEFINE v == Head(w.chan.items)
             x == TryRecvNow(w)
             X == {}
             J == {v}
  <2>1. u = [x EXCEPT !.taken[o] = v]
    BY <1>2
  <2>3. X \in SUBSET Op /\ o \in Op \ X /\ v \in J /\ X \cup {v} = J /\ J \ {v} = X
    OBVIOUS
  <2>5. Sound(p, w, X, X, D, G)
    OBVIOUS
  <2> HIDE DEF v, x, X, J
  <2>6. Sound(p, x, X, X \cup {v}, D, G) /\ Aside(p, w, x)
    BY <1>2, <2>3, <2>5, TryRecvNowOf DEF v, x
  <2>2. v \in PutOps(p) /\ v \in Maybe
    BY <2>3, <2>6 DEF Sound, PlacesOK, PutOps, Maybe
  <2>4. v # o
    BY <2>2 DEF PutOps, Puts
  <2>7. x.taken[o] = None /\ x.status[o] \in {"inside", "over"}
    BY <2>6 DEF Aside
  <2>8. Sound(p, u, X, J \ {v}, D, G) /\ WentOn(p, x, u, o, v)
    BY <2>1, <2>2, <2>3, <2>6, <2>7, TakenGained
  <2>9. GrantedIn(p, u) = GrantedIn(p, x)
    BY <2>4, <2>8 DEF WentOn
  <2> QED
    BY <2>3, <2>6, <2>8, <2>9 DEF Aside, SameSem, WentOn, X
<1> QED
  BY <1>1, <1>2

-----------------------------------------------------------------------------
(* Several at once: the close of a channel, and the semaphore.              *)

(* Values in hand are refused or withdrawn.                                 *)
LEMMA LiveLost ==
  ASSUME NEW p \in [Op -> Calls], NEW w, NEW X, NEW H, NEW D, NEW G, Sound(p, w, X, H, D, G),
         NEW V \in SUBSET H, NEW u, u = [w EXCEPT !.live = @ \ V]
  PROVE  Sound(p, u, X, H \ V, D, G) /\ OnlyLive(w, u) /\ SameSem(p, w, u)
<1>1. w \in Worlds /\ QueueOK(p, w, X) /\ TakenOK(p, w, X) /\ LiveOK(p, w, X) /\ CleanupsOK(w, X, D, G)
      /\ MVarLine(p, w, X) /\ ChanLines(p, w, X) /\ SemLine(p, w, X) /\ WaitersOK(p, w, X)
      /\ PlacesOK(p, w, H) /\ ChanHeld(w)
  BY DEF Sound
<1>2. H \subseteq PutOps(p) /\ w.live \in SUBSET Op
  BY <1>1, WorldIs DEF PlacesOK
<1>3. OnlyLive(w, u) /\ u.live = w.live \ V
  <2> DEFINE l == w.live \ V
  <2>1. l \in SUBSET Op /\ u = [w EXCEPT !.live = l]
    BY <1>2
  <2> HIDE DEF l
  <2>2. u.live = l
    BY <1>1, <2>1 DEF Worlds
  <2> QED
    BY <1>1, <2>1, <2>2 DEF OnlyLive, Worlds, l
<1>4. MVarLine(p, u, X)
  BY <1>1, <1>3 DEF OnlyLive, MVarLine, Behind, Taker, Putter
<1>5. ChanLines(p, u, X) /\ SemLine(p, u, X)
  BY <1>1, <1>3 DEF OnlyLive, ChanLines, SemLine, Behind
<1>6. WaitersOK(p, u, X) /\ QueueOK(p, u, X)
  BY <1>1, <1>3 DEF OnlyLive, WaitersOK, HasLine, QueueOK
<1>7. TakenOK(p, u, X) /\ CleanupsOK(u, X, D, G) /\ ChanHeld(u)
  BY <1>1, <1>3 DEF OnlyLive, TakenOK, CleanupsOK, ChanHeld
<1>8. LiveOK(p, u, X)
  BY <1>1, <1>3 DEF OnlyLive, LiveOK
<1>9. PlacesOK(p, u, H \ V)
  <2>1. ASSUME NEW v \in PutOps(p) PROVE PlaceOf(u, H \ V, v)
    <3>1. PlaceOf(w, H, v)
      BY <1>1 DEF PlacesOK
    <3>2. TakenBy(u, v) <=> TakenBy(w, v)
      BY <1>3 DEF OnlyLive, TakenBy
    <3> QED
      BY <1>3, <3>1, <3>2 DEF OnlyLive, PlaceOf, Placed, One
  <2> QED
    BY <1>1, <1>3, <2>1 DEF OnlyLive, PlacesOK, OnceT
<1>10. SameSem(p, w, u)
  <2>1. \A v \in V : p[v] # "releaseN"
    BY <1>2 DEF PutOps, Puts
  <2>2. AddedIn(p, w) = AddedIn(p, u)
    BY <1>3, <2>1 DEF AddedIn
  <2> QED
    BY <1>3, <2>2 DEF OnlyLive, SameSem, GrantedIn
<1> QED
  BY <1>3, <1>4, <1>5, <1>6, <1>7, <1>8, <1>9, <1>10 DEF Sound, OnlyLive

LEMMA SeqIs ==
  ASSUME NEW S, NEW n \in Nat, NEW s \in [1..n -> S]
  PROVE  s \in Seq(S) /\ Len(s) = n
  OBVIOUS

(* Steps for the operations of all, with values f that are not put ones.    *)
Carries(p, all, f, ops) ==
  /\ Len(all) \in Nat /\ DOMAIN all = 1..Len(all)
  /\ \A i \in 1..Len(all) : /\ all[i].op \in Op /\ f[i] \in Maybe \ PutOps(p)
                            /\ StepOK(p, Step(all[i].op, f[i], FALSE))
  /\ \A i, j \in 1..Len(all) : all[i].op = all[j].op => i = j
  /\ \A o : o \in ops <=> \E i \in 1..Len(all) : all[i].op = o

LEMMA StepsAre ==
  ASSUME NEW p \in [Op -> Calls], NEW all, NEW f, NEW ops, Carries(p, all, f, ops),
         NEW steps, steps = [i \in DOMAIN all |-> Step(all[i].op, f[i], FALSE)]
  PROVE  StepsFor(p, steps, ops, {})
<1> DEFINE n    == Len(all)
           g(i) == Step(all[i].op, f[i], FALSE)
<1>0. n \in Nat /\ DOMAIN all = 1..n
  BY DEF Carries
<1>1. \A i \in 1..n : /\ g(i) \in StepSet /\ g(i).op = all[i].op /\ g(i).value = f[i]
                      /\ g(i).pinned = FALSE /\ StepOK(p, g(i))
  BY DEF Carries, Step, StepSet
<1>8. steps = [i \in 1..n |-> g(i)]
  BY <1>0
<1>9. /\ \A i \in 1..n : all[i].op \in Op /\ f[i] \in Maybe \ PutOps(p)
      /\ \A i, j \in 1..n : all[i].op = all[j].op => i = j
      /\ \A o : o \in ops <=> \E i \in 1..n : all[i].op = o
  BY DEF Carries
<1> HIDE DEF n, g
<1>10. steps \in [1..n -> StepSet] /\ \A i \in 1..n : steps[i] = g(i)
  BY <1>1, <1>8
<1>2. steps \in Seq(StepSet) /\ Len(steps) = n /\ \A i \in 1..n : steps[i] = g(i)
  BY <1>0, <1>10, SeqIs
<1>3. \A i \in 1..Len(steps) : /\ steps[i].op = all[i].op /\ steps[i].value = f[i]
                               /\ ~steps[i].pinned /\ StepOK(p, steps[i])
  BY <1>1, <1>2, <1>8
<1>11. \A i \in 1..n : steps[i].op = all[i].op /\ steps[i].value \notin PutOps(p)
  BY <1>2, <1>3, <1>9
<1>12. \A o : o \in ops <=> \E i \in 1..n : steps[i].op = o
  BY ZenonT(30), <1>9, <1>11
<1>13. ASSUME NEW i \in 1..n, NEW j \in 1..n, steps[i].op = steps[j].op PROVE i = j
  <2>1. all[i].op = all[j].op
    BY <1>11, <1>13
  <2> QED
    BY <1>9, <2>1
<1>14. OnceQ(steps)
  BY <1>2, <1>13 DEF OnceQ
<1>15. OnceV(p, steps)
  BY <1>2, <1>11 DEF OnceV
<1>4. OnceQ(steps) /\ OnceV(p, steps)
  BY <1>14, <1>15
<1>5. \A o : o \in ops <=> InQ(steps, o)
  BY <1>2, <1>12 DEF InQ
<1>6. \A o \in ops : p[o] \notin Pinneds
  <2>1. \A i \in 1..n : p[all[i].op] \notin Pinneds
    BY <1>2, <1>3 DEF StepOK
  <2> QED
    BY <1>9, <2>1
<1>7. \A v \in PutOps(p) : v \in {} <=> ValQ(steps, v)
  BY <1>2, <1>11 DEF ValQ
<1> QED
  BY <1>2, <1>3, <1>4, <1>5, <1>6, <1>7 DEF StepsFor, StepsOf

(* Who waits at a channel.                                                  *)
Shut(w) == [w.chan EXCEPT !.closed = TRUE, !.takers.line = {}, !.senders.line = {}]
Woke(w) == {e.op : e \in w.chan.takers.line \cup w.chan.senders.line}
Back(w) == {e.value : e \in w.chan.senders.line}

LEMMA LineEmptied ==
  ASSUME NEW l \in Line
  PROVE  [l EXCEPT !.line = {}] \in Line /\ LineOK([l EXCEPT !.line = {}]) /\ [l EXCEPT !.line = {}].line = {}
<1>1. {} \in SUBSET Entry /\ IsFiniteSet({})
  BY FS_EmptySet
<1> QED
  BY <1>1 DEF Line, LineOK

LEMMA ShutOf ==
  ASSUME NEW p \in [Op -> Calls], NEW w, NEW D, NEW G, Sound(p, w, {}, {}, D, G),
         NEW u, u = [w EXCEPT !.chan = Shut(w)]
  PROVE  Sound(p, u, Woke(w), Back(w), D, G) /\ SameSem(p, w, u) /\ Back(w) \subseteq PutOps(p)
<1> DEFINE X  == {}
           Y  == Woke(w)
           J  == Back(w)
           t  == [w.chan.takers EXCEPT !.line = {}]
           s  == [w.chan.senders EXCEPT !.line = {}]
           c  == Shut(w)
<1>1. w \in Worlds /\ ChanLines(p, w, X) /\ PlacesOK(p, w, X) /\ WaitersOK(p, w, X) /\ ChanHeld(w)
      /\ Sound(p, w, X, X, D, G)
  BY DEF Sound
<1>2. w.chan \in Chans /\ w.chan.takers \in Line /\ w.chan.senders \in Line
  BY <1>1, WorldIs DEF Worlds, Chans
<1>3. t \in Line /\ LineOK(t) /\ t.line = {} /\ s \in Line /\ LineOK(s) /\ s.line = {}
  BY <1>2, LineEmptied
<1>4. c = [w.chan EXCEPT !.closed = TRUE, !.takers = t, !.senders = s]
  BY <1>2 DEF Chans, Shut
<1> HIDE DEF t, s
<1>5. c \in Chans /\ c.items = w.chan.items /\ c.count = w.chan.count /\ c.takers = t /\ c.senders = s
  BY <1>2, <1>3, <1>4 DEF Chans
<1> HIDE DEF c
<1>6. OnlyChan(w, u) /\ u.chan = c
  BY <1>1, <1>5, ChanField DEF c
<1>7. /\ \A o : o \in Y <=> \E e \in w.chan.takers.line \cup w.chan.senders.line : e.op = o
      /\ \A v : v \in J <=> InEntries(w.chan.senders.line, v)
  BY DEF Woke, Back, InEntries
<1>8. J \subseteq PutOps(p)
  BY <1>1, <1>7 DEF ChanLines, Behind, InEntries, PutOps, Puts
<1>9. Shift(p, w, X, Y, D, {"recv", "send"})
  BY <1>1, <1>7 DEF Shift, ChanLines, Behind
<1>10. AllIn(p, w, Y, {"recv"}, u.chan.takers) /\ AllIn(p, w, Y, {"send"}, u.chan.senders)
  BY <1>1, <1>7 DEF AllIn, WaitersOK, HasLine, IsIn
<1>11. X = {}
  OBVIOUS
<1> HIDE DEF X, Y, J
<1>12. ChanLines(p, u, Y)
  BY <1>3, <1>5, <1>6 DEF ChanLines
<1>13. ChanHeld(u)
  BY <1>1, <1>3, <1>5, <1>6 DEF ChanHeld, Waits
<1>14. PlacesOK(p, u, J)
  <2>1. Moves(p, w, u, X, J)
    BY <1>3, <1>5, <1>6, <1>7, <1>11 DEF Moves, Placed, One, OnlyChan, InEntries
  <2>2. /\ OnceE(p, u.chan.senders.line) /\ OnceI(u.chan.items)
        /\ \A k \in 1..Len(u.chan.items) : u.chan.items[k] \in PutOps(p)
    BY <1>1, <1>3, <1>5, <1>6 DEF PlacesOK, OnceE
  <2> QED
    BY <1>1, <1>6, <1>8, <2>1, <2>2, ChanPlaces
<1>15. Sound(p, u, Y, J, D, G) /\ SameSem(p, w, u)
  BY <1>1, <1>6, <1>9, <1>10, <1>12, <1>13, <1>14, ChanChange
<1> QED
  BY <1>8, <1>15 DEF Y, J

Lists(s, S) ==
  /\ s \in Seq(S) /\ Len(s) \in Nat /\ DOMAIN s = 1..Len(s)
  /\ \A i \in 1..Len(s) : s[i] \in S
  /\ \A i, j \in 1..Len(s) : s[i] = s[j] => i = j
  /\ \A e \in S : \E i \in 1..Len(s) : s[i] = e

LEMMA InOrderLists ==
  ASSUME NEW S, IsFiniteSet(S), \A e \in S : e.num \in Nat, \A e, f \in S : e.num = f.num => e = f
  PROVE  Lists(InOrder(S), S)
<1>1. /\ InOrder(S) \in Seq(S) /\ Len(InOrder(S)) \in Nat
      /\ \A i, j \in 1..Len(InOrder(S)) : InOrder(S)[i] = InOrder(S)[j] => i = j
      /\ \A i \in 1..Len(InOrder(S)) : InOrder(S)[i] \in S
      /\ \A e \in S : \E i \in 1..Len(InOrder(S)) : InOrder(S)[i] = e
  BY InOrderOf
<1>2. DOMAIN InOrder(S) = 1..Len(InOrder(S))
  BY <1>1
<1> QED
  BY <1>1, <1>2 DEF Lists

LEMMA JoinedOnce ==
  ASSUME NEW T, NEW S, T \cap S = {}, NEW t, NEW s, Lists(t, T), Lists(s, S), NEW all, all = t \o s
  PROVE  Lists(all, T \cup S)
<1> DEFINE E == T \cup S
           m == Len(t)
           n == Len(s)
<1>1. t \in Seq(E) /\ s \in Seq(E) /\ m \in Nat /\ n \in Nat
  <2>1. t \in Seq(T) /\ s \in Seq(S) /\ m \in Nat /\ n \in Nat
    BY DEF Lists
  <2>2. T \subseteq E /\ S \subseteq E
    OBVIOUS
  <2> HIDE DEF E, m, n
  <2> QED
    BY <2>1, <2>2
<1>2. /\ t \o s \in Seq(E)
      /\ \A i \in 1..Len(t) : i \in 1..Len(t \o s) /\ (t \o s)[i] = t[i]
      /\ \A j \in 1..Len(s) : Len(t) + j \in 1..Len(t \o s) /\ (t \o s)[Len(t) + j] = s[j]
      /\ \A k \in 1..Len(t \o s) : k \in 1..Len(t) \/ \E j \in 1..Len(s) : k = Len(t) + j
  BY <1>1, Joined
<1>3. all \in Seq(E)
  BY <1>2
<1>4. /\ \A i \in 1..m : i \in 1..Len(all) /\ all[i] = t[i]
      /\ \A j \in 1..n : m + j \in 1..Len(all) /\ all[m + j] = s[j]
      /\ \A k \in 1..Len(all) : k \in 1..m \/ \E j \in 1..n : k = m + j
  BY <1>2
<1>5. Len(all) \in Nat /\ DOMAIN all = 1..Len(all) /\ \A i \in 1..Len(all) : all[i] \in E
  BY <1>3
<1>6. /\ \A i \in 1..m : t[i] \in T /\ \A k \in 1..m : t[i] = t[k] => i = k
      /\ \A i \in 1..n : s[i] \in S /\ \A k \in 1..n : s[i] = s[k] => i = k
  BY DEF Lists
<1>7. (\A e \in T : \E i \in 1..m : t[i] = e) /\ \A e \in S : \E i \in 1..n : s[i] = e
  BY DEF Lists
<1> DEFINE l == Len(all)
<1>8. l \in Nat
  BY <1>5
<1> HIDE DEF m, n, l
<1>9. ASSUME NEW i \in 1..l, NEW k \in 1..l, all[i] = all[k] PROVE i = k
  <2>1. CASE i \in 1..m /\ k \in 1..m
    BY <1>4, <1>6, <1>9, <2>1 DEF l
  <2>2. CASE i \in 1..m /\ k \notin 1..m
    <3>1. PICK j \in 1..n : k = m + j
      BY <1>4, <2>2 DEF l
    <3> QED
      BY <1>4, <1>6, <1>9, <2>2, <3>1
  <2>3. CASE i \notin 1..m /\ k \in 1..m
    <3>1. PICK j \in 1..n : i = m + j
      BY <1>4, <2>3 DEF l
    <3> QED
      BY <1>4, <1>6, <1>9, <2>3, <3>1
  <2>4. CASE i \notin 1..m /\ k \notin 1..m
    <3>1. PICK j \in 1..n : i = m + j
      BY <1>4, <2>4 DEF l
    <3>2. PICK h \in 1..n : k = m + h
      BY <1>4, <2>4 DEF l
    <3>3. s[j] = s[h]
      BY <1>4, <1>9, <3>1, <3>2
    <3>4. j = h
      BY <1>6, <3>3
    <3> QED
      BY <3>1, <3>2, <3>4
  <2> QED
    BY <2>1, <2>2, <2>3, <2>4
<1>10. ASSUME NEW e \in E PROVE \E i \in 1..l : all[i] = e
  <2>1. CASE e \in T
    <3>1. PICK i \in 1..m : t[i] = e
      BY <1>7, <2>1
    <3> QED
      BY <1>4, <3>1 DEF l
  <2>2. CASE e \in S
    <3>1. PICK i \in 1..n : s[i] = e
      BY <1>7, <2>2
    <3> QED
      BY <1>4, <3>1 DEF l
  <2> QED
    BY <2>1, <2>2 DEF E
<1> QED
  BY <1>3, <1>5, <1>9, <1>10 DEF E, l, Lists

LEMMA WokeOnce ==
  ASSUME NEW p \in [Op -> Calls], NEW w \in Worlds, ChanLines(p, w, {}),
         NEW all, all = InOrder(w.chan.takers.line) \o InOrder(w.chan.senders.line),
         NEW none, none = [i \in DOMAIN all |-> None]
  PROVE  Carries(p, all, none, Woke(w)) /\ \A o \in Woke(w) : o \in Op /\ p[o] \in {"recv", "send"}
<1> DEFINE T == w.chan.takers.line
           S == w.chan.senders.line
           t == InOrder(T)
           s == InOrder(S)
<1>1. w.chan.takers \in Line /\ w.chan.senders \in Line
  BY WorldIs
<1>2. IsFiniteSet(T) /\ IsFiniteSet(S) /\ T \subseteq Entry /\ S \subseteq Entry
  BY <1>1 DEF ChanLines, LineOK, Line
<1>3. /\ \A e \in T \cup S : e.num \in Nat
      /\ \A e, f \in T : e.num = f.num => e = f
      /\ \A e, f \in S : e.num = f.num => e = f
  BY <1>2 DEF ChanLines, LineOK, Entry
<1>4. /\ \A e \in T : e.op \in Op /\ p[e.op] = "recv" /\ w.number[e.op] = e.num
      /\ \A e \in S : e.op \in Op /\ p[e.op] = "send" /\ w.number[e.op] = e.num
  BY DEF ChanLines, Behind
<1>5. \A e, f \in T \cup S : e.op = f.op => e = f /\ (e \in T <=> f \in T)
  BY <1>3, <1>4
<1>6. T \cap S = {}
  BY <1>4
<1> DEFINE E == T \cup S
<1>7. Lists(t, T) /\ Lists(s, S)
  BY <1>2, <1>3, InOrderLists
<1>10. all = t \o s
  OBVIOUS
<1>8. \A o : o \in Woke(w) <=> \E e \in E : e.op = o
  BY <1>4 DEF Woke
<1>17. \A e \in E : e.op \in {o \in Op : p[o] \in {"recv", "send"}}
  BY <1>4
<1>9. \A e, f \in E : e.op = f.op => e = f
  BY <1>5
<1> HIDE DEF t, s, T, S
<1>11. Lists(all, E)
  BY <1>6, <1>7, <1>10, JoinedOnce
<1>12. /\ Len(all) \in Nat /\ DOMAIN all = 1..Len(all)
       /\ \A i \in 1..Len(all) : all[i] \in E
       /\ \A i, j \in 1..Len(all) : all[i] = all[j] => i = j
       /\ \A e \in E : \E i \in 1..Len(all) : all[i] = e
  BY <1>11 DEF Lists
<1> HIDE DEF E
<1>13. \A o : o \in Woke(w) <=> \E i \in 1..Len(all) : all[i].op = o
  BY <1>8, <1>12
<1>14. \A i, j \in 1..Len(all) : all[i].op = all[j].op => i = j
  BY <1>9, <1>12
<1>15. ASSUME NEW i \in 1..Len(all)
       PROVE  all[i].op \in Op /\ none[i] \in Maybe \ PutOps(p) /\ StepOK(p, Step(all[i].op, none[i], FALSE))
  <2>1. all[i].op \in Op /\ p[all[i].op] \in {"recv", "send"}
    BY <1>12, <1>17
  <2>2. none[i] = None /\ None \in Maybe \ PutOps(p)
    BY <1>12, NeedIs DEF Maybe, PutOps
  <2>3. StepOK(p, Step(all[i].op, None, FALSE))
    BY <2>1 DEF StepOK, Step, Takes, Acquires, Asyncs, Pinneds
  <2> QED
    BY <2>1, <2>2, <2>3
<1>16. \A o \in Woke(w) : o \in Op /\ p[o] \in {"recv", "send"}
  BY <1>8, <1>17
<1> QED
  BY <1>12, <1>13, <1>14, <1>15, <1>16 DEF Carries

LEMMA CloseChanOf ==
  ASSUME NEW p \in [Op -> Calls], NEW w, NEW D, NEW G, Sound(p, w, {}, {}, D, G), NEW u, u = CloseChan(w)
  PROVE  Sound(p, u, {}, {}, D, G) /\ SameSem(p, w, u)
<1> DEFINE all   == InOrder(w.chan.takers.line) \o InOrder(w.chan.senders.line)
           none  == [i \in DOMAIN all |-> None]
           steps == [i \in DOMAIN all |-> Step(all[i].op, none[i], FALSE)]
           X     == Woke(w)
           J     == Back(w)
           Z     == {}
           x     == [w EXCEPT !.chan = Shut(w)]
           y     == [x EXCEPT !.live = @ \ J]
<1>1. w \in Worlds /\ ChanLines(p, w, {})
  BY DEF Sound
<1>2. u = Wake(y, steps)
  <2>1. y = [w EXCEPT !.chan = Shut(w), !.live = @ \ {e.value : e \in w.chan.senders.line}]
    BY <1>1 DEF Worlds, Back
  <2>2. [w EXCEPT !.chan = Shut(w), !.live = @ \ {e.value : e \in w.chan.senders.line}]
        = [w EXCEPT !.chan.closed = TRUE, !.chan.takers.line = {}, !.chan.senders.line = {},
                    !.live = @ \ {e.value : e \in w.chan.senders.line}]
    BY <1>1 DEF Worlds, Shut
  <2>3. [i \in DOMAIN all |-> Step(all[i].op, None, FALSE)] = steps
    OBVIOUS
  <2> HIDE DEF y, steps
  <2> QED
    BY <2>1, <2>2, <2>3 DEF CloseChan
<1>3. Sound(p, x, X, J, D, G) /\ SameSem(p, w, x) /\ J \subseteq PutOps(p)
  BY ShutOf
<1>4. Carries(p, all, none, X) /\ \A o \in X : o \in Op /\ p[o] \in {"recv", "send"}
  BY <1>1, WokeOnce
<1> HIDE DEF all, none, steps, x, y, X, J, Z
<1>6. StepsFor(p, steps, X, {})
  BY <1>4, StepsAre DEF steps
<1>7. Sound(p, y, X, J \ J, D, G) /\ OnlyLive(x, y) /\ SameSem(p, x, y)
  BY <1>3, LiveLost DEF y
<1>8. J \ J = Z /\ X \ X = Z /\ Z \ Z = Z /\ Z = {} /\ Z \in SUBSET Z /\ X \in SUBSET X
  BY DEF Z
<1>9. X \in SUBSET Op
  BY <1>4
<1>10. Sound(p, y, X, Z, D, G) /\ StepsFor(p, steps, X, Z)
  BY <1>6, <1>7, <1>8
<1>11. Sound(p, u, X \ X, Z \ Z, D, G) /\ Readied(p, y, u, X)
  BY <1>2, <1>8, <1>9, <1>10, Woken
<1>12. AcquiresOf(p, X) = {}
  BY <1>4 DEF AcquiresOf, Acquires
<1>13. SameSem(p, y, u)
  BY <1>11, <1>12 DEF Readied, SameSem
<1> QED
  BY <1>3, <1>7, <1>8, <1>11, <1>13 DEF SameSem

-----------------------------------------------------------------------------
(* Semaphore.                                                               *)
Sems == [permits : Nat, line : Line]
SameCounts(p, w, u) == GrantedIn(p, u) = GrantedIn(p, w) /\ AddedIn(p, u) = AddedIn(p, w)
Balanced(p, w)      == SemHeld(w) /\ PermitsOK(p, w, w.sem.permits)

LEMMA SameBalance ==
  ASSUME NEW p, NEW w, NEW u, SameSem(p, w, u), Balanced(p, w)
  PROVE  Balanced(p, u)
  BY DEF SameSem, Balanced, SemHeld, PermitsOK

LEMMA SemField ==
  ASSUME NEW w \in Worlds, NEW m, m \in Sems, NEW u, u = [w EXCEPT !.sem = m]
  PROVE  OnlySem(w, u) /\ u.sem = m
  BY DEF Worlds, OnlySem, Sems

LEMMA CountsIn ==
  ASSUME NEW p, NEW w \in Worlds
  PROVE  GrantedIn(p, w) \in SUBSET Op /\ AddedIn(p, w) \in SUBSET Op
  BY WorldIs DEF GrantedIn, AddedIn

(* One of the entries of a line has the highest number.                     *)
LEMMA GreatestOf ==
  ASSUME NEW l \in Line, LineOK(l), NEW S \in SUBSET l.line, S # {}
  PROVE  \E e \in S : \A f \in S : f.num <= e.num
<1> DEFINE N == {n \in Nat : \A e \in S : e.num <= n}
<1>1. l.next \in Nat /\ \A e \in S : e.num \in Nat /\ e.num < l.next
  BY LineIs DEF LineOK
<1>2. l.next \in N
  BY <1>1
<1>3. N \in SUBSET Nat /\ N # {}
  BY <1>2
<1>4. PICK b \in N : \A n \in N : b <= n
  <2> HIDE DEF N
  <2> QED
    BY <1>3, LeastOf
<1>5. b \in Nat /\ \A e \in S : e.num <= b
  BY <1>4
<1>6. PICK a \in S : TRUE
  OBVIOUS
<1>7. \E e \in S : e.num = b
  <2> SUFFICES ASSUME \A e \in S : e.num # b PROVE FALSE
    OBVIOUS
  <2>1. \A e \in S : e.num <= b - 1 /\ b - 1 \in Nat
    BY <1>1, <1>5
  <2>2. b - 1 \in N
    BY <1>6, <2>1
  <2> QED
    BY <1>4, <1>5, <2>2
<1> QED
  BY <1>5, <1>7

(* Who is served can be served, and the next one cannot.                    *)
Covered(n, l, S, ops) ==
  /\ S \subseteq l.line /\ IsFiniteSet(S)
  /\ ops \in SUBSET Op /\ \A o : o \in ops <=> \E e \in S : e.op = o
  /\ n - Needed(ops) \in Nat /\ Needed(ops) \in Nat
  /\ \A f \in l.line \ S : (\A e \in l.line \ S : f.num <= e.num) => Need[f.op] > n - Needed(ops)

LEMMA ServedOf ==
  ASSUME NEW l \in Line, LineOK(l), \A e \in l.line : e.op \in Op,
         \A e, f \in l.line : e.op = f.op => e = f,
         NEW n \in Nat, NEW S, S = Served(n, l.line), NEW ops, ops = {e.op : e \in S}
  PROVE  Covered(n, l, S, ops)
<1> DEFINE B(e) == {f.op : f \in {g \in l.line : g.num <= e.num}}
<1>1. S \in SUBSET l.line /\ \A e \in l.line : e \in S <=> Needed(B(e)) <= n
  BY DEF Served
<1>2. IsFiniteSet(S)
  BY <1>1, FS_Subset DEF LineOK
<1>3. ops \in SUBSET Op /\ \A e \in l.line : B(e) \in SUBSET Op
  BY <1>1
<1>4. \A e \in l.line : e.num \in Nat
  BY LineIs
<1>5. Needed(ops) \in Nat
  BY <1>3, NeededFinite
<1>6. Needed(ops) <= n
  <2>1. CASE S = {}
    <3>1. ops = {}
      BY <2>1
    <3> QED
      BY <3>1, NeededNone
  <2>2. CASE S # {}
    <3>1. PICK e \in S : \A f \in S : f.num <= e.num
      BY <1>1, <2>2, GreatestOf
    <3>2. ops \in SUBSET B(e)
      BY <1>1, <3>1
    <3>3. Needed(B(e)) <= n /\ B(e) \in SUBSET Op
      BY <1>1, <1>3, <3>1
    <3> HIDE DEF B
    <3>4. Needed(ops) <= Needed(B(e)) /\ Needed(B(e)) \in Nat
      BY <3>2, <3>3, NeededLess, NeededFinite
    <3> QED
      BY <1>5, <3>3, <3>4
  <2> QED
    BY <2>1, <2>2
<1>7. ASSUME NEW f \in l.line \ S, \A e \in l.line \ S : f.num <= e.num
      PROVE  Need[f.op] > n - Needed(ops)
  <2> DEFINE F == {f.op}
  <2>1. \A e \in l.line : e.num <= f.num => e = f \/ e \in S
    BY <1>4, <1>7 DEF LineOK
  <2>2. B(f) \in SUBSET (ops \cup F)
    BY <1>1, <2>1
  <2>3. ~(Needed(B(f)) <= n) /\ B(f) \in SUBSET Op
    BY <1>1, <1>3, <1>7
  <2>4. ops \cap F = {} /\ F \in SUBSET Op
    BY <1>1, <1>7
  <2>5. Needed(F) = Need[f.op] /\ Need[f.op] \in Nat
    BY NeededOne, NeedIs
  <2> HIDE DEF B, F
  <2>6. Needed(B(f)) \in Nat /\ Needed(B(f)) <= Needed(ops \cup F)
    BY <1>3, <2>2, <2>3, <2>4, NeededLess, NeededFinite
  <2>7. Needed(ops \cup F) = Needed(ops) + Needed(F)
    BY <1>3, <2>4, NeededUnion
  <2> QED
    BY <1>5, <2>3, <2>5, <2>6, <2>7
<1>8. n - Needed(ops) \in Nat
  BY <1>5, <1>6
<1> QED
  BY <1>1, <1>2, <1>3, <1>5, <1>7, <1>8 DEF Covered

(* What changes when the front of the line is served, and what does not.    *)
Settled(w, u) ==
  /\ u.taken = w.taken /\ u.live = w.live /\ Longer(w, u)
  /\ \A o \in Op : w.status[o] # "waiting" => u.status[o] = w.status[o]

LEMMA SettleOf ==
  ASSUME NEW p \in [Op -> Calls], NEW w, NEW X \in SUBSET Op, NEW H, NEW D, NEW G, Sound(p, w, X, H, D, G),
         NEW n \in Nat, PermitsOK(p, w, n), NEW u, u = Settle(w, n, w.sem.line)
  PROVE  Sound(p, u, X, H, D, G) /\ Balanced(p, u) /\ Settled(w, u)
<1> DEFINE l     == w.sem.line
           S     == Served(n, l.line)
           ops   == {e.op : e \in S}
           m     == n - Needed(ops)
           r     == [l EXCEPT !.line = @ \ S]
           c     == [permits |-> m, line |-> r]
           x     == [w EXCEPT !.sem = c]
           woken == InOrder(S)
           own   == [i \in DOMAIN woken |-> woken[i].op]
           steps == [i \in DOMAIN woken |-> Step(woken[i].op, own[i], FALSE)]
           Y     == X \cup ops
           Z     == {}
<1>1. w \in Worlds /\ SemLine(p, w, X) /\ WaitersOK(p, w, X)
  BY DEF Sound
<1>2. l \in Line /\ LineOK(l) /\ \A e \in l.line : Behind(w, X, e) /\ p[e.op] \in Acquires /\ e.value = None
  BY <1>1, WorldIs DEF SemLine
<1>3. \A e \in l.line : e.op \in {o \in Op \ X : w.status[o] = "waiting" /\ p[o] \in Acquires}
  BY <1>2 DEF Behind
<1>4. \A e, f \in l.line : e.op = f.op => e = f
  BY <1>2 DEF Behind, LineOK
<1>5. u = Wake(x, steps)
  <2>1. [i \in DOMAIN woken |-> Step(woken[i].op, woken[i].op, FALSE)] = steps
    OBVIOUS
  <2>2. x = [w EXCEPT !.sem = [permits |-> n - Needed({e.op : e \in S}), line |-> [l EXCEPT !.line = @ \ S]]]
    OBVIOUS
  <2> HIDE DEF x, steps
  <2> QED
    BY <2>1, <2>2 DEF Settle
<1>6. Covered(n, l, S, ops)
  <2>1. \A e \in l.line : e.op \in Op
    BY <1>3
  <2> HIDE DEF l
  <2> QED
    BY <1>2, <1>4, <2>1, ServedOf
<1>7. ops = {e.op : e \in S} /\ Z = {} /\ c.permits = m /\ c.line = r
  OBVIOUS
<1>8. r.line = l.line \ S /\ r \in Line /\ LineOK(r)
  <2>1. l.line \ S \in SUBSET l.line
    OBVIOUS
  <2> HIDE DEF S
  <2>2. r.line = l.line \ S /\ r \in Line /\ r.next = l.next
    BY <1>2 DEF Line
  <2>3. IsFiniteSet(r.line)
    BY <1>2, <2>2, FS_Subset DEF LineOK
  <2> QED
    BY <1>2, <2>2, <2>3 DEF LineOK
<1> HIDE DEF S, ops
<1>9. /\ S \subseteq l.line /\ IsFiniteSet(S) /\ ops \in SUBSET Op /\ \A o : o \in ops <=> \E e \in S : e.op = o
      /\ m \in Nat /\ Needed(ops) \in Nat
      /\ \A f \in l.line \ S : (\A e \in l.line \ S : f.num <= e.num) => Need[f.op] > m
  BY <1>6 DEF Covered
<1>10. c \in Sems
  BY <1>8, <1>9 DEF Sems
<1> HIDE DEF m, r, c
<1>11. OnlySem(w, x) /\ x.sem = c
  BY <1>1, <1>10, SemField
<1>12. \A o \in ops : o \in Op \ X /\ w.status[o] = "waiting" /\ p[o] \in Acquires
  BY <1>3, <1>9
<1> HIDE DEF l
<1>13. Shift(p, w, X, Y, D, Acquires)
  BY <1>12 DEF Shift
<1>14. SemLine(p, x, Y)
  <2>1. ASSUME NEW e \in r.line PROVE Behind(x, Y, e) /\ p[e.op] \in Acquires /\ e.value = None
    <3>1. e \in l.line /\ e \notin S
      BY <1>8
    <3>2. e.op \notin ops
      BY <1>4, <1>9, <3>1
    <3> QED
      BY <1>2, <1>11, <3>1, <3>2 DEF Behind, OnlySem
  <2> QED
    BY <1>7, <1>8, <1>11, <2>1 DEF SemLine
<1>15. AllIn(p, w, Y, Acquires, x.sem.line)
  <2> SUFFICES ASSUME NEW o \in Op \ Y, w.status[o] = "waiting", p[o] \in Acquires
               PROVE  \E e \in r.line : e.op = o
    BY <1>7, <1>11 DEF AllIn, IsIn
  <2>1. PICK e \in l.line : e.op = o
    BY <1>1 DEF WaitersOK, HasLine, IsIn, l
  <2>2. e \notin S
    BY <1>9, <2>1
  <2> QED
    BY <1>8, <2>1, <2>2
<1> HIDE DEF x
<1>16. Sound(p, x, Y, H, D, G) /\ SameCounts(p, w, x)
  <2> HIDE DEF Y
  <2> QED
    BY <1>11, <1>13, <1>14, <1>15, SemChange DEF SameCounts
<1>17. Carries(p, woken, own, ops)
  <2>1. (\A e \in S : e.num \in Nat) /\ \A e, f \in S : e.num = f.num => e = f
    BY <1>2, <1>9, LineIs DEF LineOK
  <2>2. Lists(woken, S)
    BY <1>9, <2>1, InOrderLists
  <2>3. /\ Len(woken) \in Nat /\ DOMAIN woken = 1..Len(woken)
        /\ \A i \in 1..Len(woken) : woken[i] \in S
        /\ \A i, j \in 1..Len(woken) : woken[i] = woken[j] => i = j
        /\ \A e \in S : \E i \in 1..Len(woken) : woken[i] = e
    BY <2>2 DEF Lists
  <2>4. \A i \in 1..Len(woken) : own[i] = woken[i].op
    BY <2>3
  <2> HIDE DEF woken, own
  <2>5. ASSUME NEW i \in 1..Len(woken)
        PROVE  woken[i].op \in Op /\ own[i] \in Maybe \ PutOps(p) /\ StepOK(p, Step(woken[i].op, own[i], FALSE))
    <3> DEFINE o == woken[i].op
    <3>1. o \in Op /\ p[o] \in Acquires /\ own[i] = o
      BY <1>9, <1>12, <2>3, <2>4
    <3> HIDE DEF o
    <3>2. o \in Maybe \ PutOps(p)
      BY <3>1 DEF Maybe, PutOps, Puts, Acquires
    <3>3. StepOK(p, Step(o, o, FALSE))
      BY <3>1 DEF StepOK, Step, Takes, Acquires, Asyncs, Pinneds
    <3> QED
      BY <3>1, <3>2, <3>3 DEF o
  <2>6. \A i, j \in 1..Len(woken) : woken[i].op = woken[j].op => i = j
    BY <1>4, <1>9, <2>3
  <2>7. \A o : o \in ops <=> \E i \in 1..Len(woken) : woken[i].op = o
    BY <1>9, <2>3
  <2> QED
    BY <2>3, <2>5, <2>6, <2>7 DEF Carries
<1> HIDE DEF woken, own
<1>18. StepsFor(p, steps, ops, {})
  BY <1>17, StepsAre
<1>19. Y \in SUBSET Op /\ ops \in SUBSET Y /\ Y \ ops = X /\ H \ Z = H /\ Z \in SUBSET H
  BY <1>9, <1>12
<1> HIDE DEF Y, Z, steps
<1>20. Sound(p, u, Y \ ops, H \ Z, D, G) /\ Readied(p, x, u, ops)
  BY <1>5, <1>7, <1>16, <1>18, <1>19, Woken
<1>21. AcquiresOf(p, ops) = ops
  BY <1>12 DEF AcquiresOf
<1>22. /\ u.sem = c /\ AddedIn(p, u) = AddedIn(p, w)
       /\ GrantedIn(p, u) = GrantedIn(p, w) \cup ops /\ GrantedIn(p, w) \cap ops = {}
  BY <1>11, <1>16, <1>20, <1>21 DEF Readied, SameCounts
<1>23. PermitsOK(p, u, u.sem.permits)
  <2>1. GrantedIn(p, w) \in SUBSET Op /\ AddedIn(p, w) \in SUBSET Op
    BY <1>1, CountsIn
  <2>2. Needed(GrantedIn(p, w)) \in Nat /\ Needed(AddedIn(p, w)) \in Nat
    BY <2>1, NeededFinite
  <2>3. Needed(GrantedIn(p, u)) = Needed(GrantedIn(p, w)) + Needed(ops)
    BY <1>9, <1>22, <2>1, NeededUnion
  <2>4. u.sem.permits = n - Needed(ops)
    BY <1>7, <1>22 DEF m
  <2> QED
    BY <1>9, <1>22, <2>2, <2>3, <2>4 DEF PermitsOK
<1>24. SemHeld(u)
  <2> SUFFICES ASSUME Waits(r) PROVE Need[First(r).op] > m
    BY <1>7, <1>22 DEF SemHeld
  <2>1. First(r) \in r.line /\ \A f \in r.line : First(r).num <= f.num
    BY <1>8, FirstOf
  <2> QED
    BY <1>8, <1>9, <2>1
<1>25. Settled(w, u)
  BY <1>11, <1>12, <1>20 DEF Settled, Readied, OnlySem, Longer
<1> QED
  BY <1>19, <1>20, <1>23, <1>24, <1>25 DEF Balanced

LEMMA ReleaseNowOf ==
  ASSUME NEW p \in [Op -> Calls], NEW w, NEW X \in SUBSET Op, NEW H, NEW D, NEW G, Sound(p, w, X, H, D, G),
         NEW o \in Op, PermitsOK(p, w, w.sem.permits + Need[o]), NEW u, u = ReleaseNow(w, o)
  PROVE  Sound(p, u, X, H, D, G) /\ Balanced(p, u) /\ Settled(w, u)
<1> DEFINE n == w.sem.permits + Need[o]
<1>1. w.sem.permits \in Nat /\ Need[o] \in Nat
  BY WorldIs, NeedIs DEF Sound
<1>2. n \in Nat /\ u = Settle(w, n, w.sem.line)
  BY <1>1 DEF ReleaseNow
<1>3. PermitsOK(p, w, n)
  OBVIOUS
<1> HIDE DEF n
<1> QED
  BY <1>2, <1>3, SettleOf

LEMMA ReleaseActOf ==
  ASSUME NEW p \in [Op -> Calls], NEW w, NEW D, NEW G, NEW o \in Op, Sound(p, w, {}, {}, D, G), Balanced(p, w),
         p[o] = "releaseN", w.status[o] = "over", o \notin w.live,
         NEW u, u = ReleaseNow([w EXCEPT !.live = @ \cup {o}], o)
  PROVE  Sound(p, u, {}, {}, D, G) /\ Balanced(p, u)
<1> DEFINE Z == {}
           x == [w EXCEPT !.live = @ \cup {o}]
<1>1. Z \in SUBSET Op /\ Z \cup ({o} \cap PutOps(p)) = Z /\ Z = {}
  BY DEF PutOps, Puts
<1>2. Sound(p, w, Z, Z, D, G) /\ w \in Worlds /\ w.status[o] # "idle"
  BY DEF Sound
<1>3. u = ReleaseNow(x, o)
  OBVIOUS
<1> HIDE DEF Z, x
<1>4. Sound(p, x, Z, Z \cup ({o} \cap PutOps(p)), D, G) /\ OnlyLive(w, x) /\ x.live = w.live \cup {o}
  BY <1>1, <1>2, LiveGained DEF x
<1>5. Sound(p, x, Z, Z, D, G)
  BY <1>1, <1>4
<1>6. GrantedIn(p, x) = GrantedIn(p, w) /\ AddedIn(p, x) = AddedIn(p, w) \cup {o} /\ o \notin AddedIn(p, w)
  BY <1>4 DEF OnlyLive, GrantedIn, AddedIn
<1>7. PermitsOK(p, x, x.sem.permits + Need[o])
  <2>1. GrantedIn(p, w) \in SUBSET Op /\ AddedIn(p, w) \in SUBSET Op
    BY <1>2, CountsIn
  <2>2. Needed(GrantedIn(p, w)) \in Nat /\ Needed(AddedIn(p, w)) \in Nat
    BY <2>1, NeededFinite
  <2> DEFINE O == {o}
  <2>3. O \in SUBSET Op /\ AddedIn(p, w) \cap O = {} /\ Needed(O) = Need[o]
    BY <1>6, NeededOne
  <2>4. AddedIn(p, x) = AddedIn(p, w) \cup O
    BY <1>6
  <2> HIDE DEF O
  <2>5. Needed(AddedIn(p, x)) = Needed(AddedIn(p, w)) + Need[o]
    BY <2>1, <2>3, <2>4, NeededUnion
  <2>6. Need[o] \in Nat /\ w.sem.permits \in Nat /\ x.sem = w.sem /\ Permits \in Nat
    BY <1>2, <1>4, WorldIs, NeedIs DEF OnlyLive
  <2> QED
    BY <1>6, <2>2, <2>5, <2>6 DEF PermitsOK, Balanced
<1>8. Sound(p, u, Z, Z, D, G) /\ Balanced(p, u)
  BY <1>1, <1>3, <1>5, <1>7, ReleaseNowOf
<1> QED
  BY <1>1, <1>8

(* A new one in the line is first only if the line was empty.               *)
LEMMA EnterFirst ==
  ASSUME NEW l \in Line, LineOK(l), NEW o \in Maybe, NEW v \in Maybe
  PROVE  /\ Waits(l) => First(Enter(l, o, v)) = First(l)
         /\ ~Waits(l) => First(Enter(l, o, v)).op = o
<1> DEFINE e == [num |-> l.next, op |-> o, value |-> v]
           m == Enter(l, o, v)
<1>1. m \in Line /\ LineOK(m) /\ m.line = l.line \cup {e} /\ e \in Entry
  BY EnterOf
<1>2. e.num = l.next /\ e.op = o
  OBVIOUS
<1> HIDE DEF e, m
<1>3. First(m) \in m.line /\ \A f \in m.line : First(m).num <= f.num
  BY <1>1, FirstOf DEF Waits
<1>4. ASSUME Waits(l) PROVE First(m) = First(l)
  <2>1. First(l) \in l.line /\ \A f \in l.line : First(l).num <= f.num
    BY <1>4, FirstOf
  <2>2. l.next \in Nat /\ \A f \in l.line : f.num \in Nat /\ f.num < l.next
    BY LineIs DEF LineOK
  <2>3. First(m) # e
    BY <1>1, <1>2, <1>3, <2>1, <2>2
  <2>4. First(m).num = First(l).num
    BY <1>1, <1>3, <2>1, <2>2, <2>3
  <2> QED
    BY <1>1, <1>3, <2>1, <2>4 DEF LineOK
<1>5. ~Waits(l) => First(m).op = o
  BY <1>1, <1>2, <1>3 DEF Waits
<1> QED
  BY <1>4, <1>5 DEF m

JoinSem(w, o) == Wait([w EXCEPT !.sem.line = Enter(@, o, None)], o, w.sem.line.next)

LEMMA WaitInSem ==
  ASSUME NEW p \in [Op -> Calls], NEW w, NEW X \in SUBSET Op, NEW H, NEW D, NEW G, Sound(p, w, X, H, D, G),
         NEW o \in X, o \notin D, o \notin G, p[o] \in Acquires, Balanced(p, w), ~Free(w, o),
         NEW u, u = JoinSem(w, o)
  PROVE  Sound(p, u, X \ {o}, H, D, G) /\ Balanced(p, u)
<1> DEFINE l == w.sem.line
           k == l.next
           e == [num |-> k, op |-> o, value |-> None]
           m == [w.sem EXCEPT !.line = Enter(l, o, None)]
           x == Wait(w, o, k)
           y == [w EXCEPT !.sem = m]
<1>1. w \in Worlds /\ SemLine(p, w, X) /\ IsFiniteSet(w.cleanups) /\ w.sem \in Sems
  BY DEF Sound, CleanupsOK, IdentsOK, Worlds, Sems
<1>2. l \in Line /\ LineOK(l) /\ k \in Nat
  BY <1>1, WorldIs, LineIs DEF SemLine
<1>3. None \in Maybe /\ o \in Maybe /\ o \in Op /\ p[o] \notin Pinneds
  BY DEF Maybe, Pinneds, Acquires
<1>4. Enter(l, o, None) \in Line /\ LineOK(Enter(l, o, None)) /\ Enter(l, o, None).line = l.line \cup {e}
  BY <1>2, <1>3, EnterOf
<1>5. m \in Sems /\ m.permits = w.sem.permits /\ m.line = Enter(l, o, None)
  BY <1>1, <1>4 DEF Sems
<1>6. u = Wait(y, o, k)
  BY <1>1 DEF Worlds, JoinSem, Sems
<1>7. e.num = k /\ e.op = o /\ e.value = None
  OBVIOUS
<1> HIDE DEF m, e, k, x, y
<1>8. OnlySem(w, y) /\ y.sem = m
  BY <1>1, <1>5, SemField DEF y
<1>9. Sound(p, x, X, H, D, G) /\ Waiting(w, x, o, k)
  BY <1>2, <1>3, WaitOf DEF x
<1>10. y \in Worlds /\ IsFiniteSet(y.cleanups)
  BY <1>1, <1>8 DEF OnlySem
<1>11. Waiting(y, u, o, k)
  BY <1>2, <1>3, <1>6, <1>10, WaitFields
<1>12. OnlySem(x, u) /\ u.sem = m /\ x.sem = w.sem
  BY <1>8, <1>9, <1>11 DEF OnlySem, Waiting
<1>13. x.status[o] = "waiting" /\ x.number[o] = k
  BY <1>1, <1>3, <1>9, WorldIs DEF Waiting
<1>14. GrantedIn(p, x) = GrantedIn(p, w) /\ AddedIn(p, x) = AddedIn(p, w)
  BY <1>9 DEF Waiting, GrantedIn, AddedIn
<1>15. \E d \in x.cleanups : d.op = o
  <2>1. [num |-> Fresh(w.cleanups), op |-> o] \in x.cleanups
    BY <1>9 DEF Waiting
  <2> QED
    BY <2>1
<1>16. Shift(p, x, X, X \ {o}, D, Acquires)
  BY <1>13, <1>15 DEF Shift
<1>17. SemLine(p, x, X) /\ WaitersOK(p, x, X)
  BY <1>9 DEF Sound
<1>18. SemLine(p, u, X \ {o})
  <2>1. ASSUME NEW f \in u.sem.line.line PROVE Behind(u, X \ {o}, f) /\ p[f.op] \in Acquires /\ f.value = None
    <3>1. CASE f = e
      BY <1>3, <1>7, <1>12, <1>13, <3>1 DEF Behind, OnlySem
    <3>2. CASE f \in l.line
      BY <1>12, <1>17, <3>2 DEF SemLine, Behind, OnlySem
    <3> QED
      BY <1>4, <1>5, <1>12, <3>1, <3>2
  <2> QED
    BY <1>4, <1>5, <1>12, <2>1 DEF SemLine
<1>19. AllIn(p, x, X \ {o}, Acquires, u.sem.line)
  <2> SUFFICES ASSUME NEW q \in Op \ (X \ {o}), x.status[q] = "waiting", p[q] \in Acquires
               PROVE  \E f \in l.line \cup {e} : f.op = q
    BY <1>4, <1>5, <1>12 DEF AllIn, IsIn
  <2>1. CASE q = o
    BY <1>7, <2>1
  <2>2. CASE q # o
    <3>1. \E f \in l.line : f.op = q
      BY <1>12, <1>17, <2>2 DEF WaitersOK, HasLine, IsIn
    <3> QED
      BY <3>1
  <2> QED
    BY <2>1, <2>2
<1>20. Sound(p, u, X \ {o}, H, D, G) /\ GrantedIn(p, u) = GrantedIn(p, x) /\ AddedIn(p, u) = AddedIn(p, x)
  BY <1>9, <1>12, <1>16, <1>18, <1>19, SemChange
<1>21. PermitsOK(p, u, u.sem.permits)
  BY <1>5, <1>12, <1>14, <1>20 DEF PermitsOK, Balanced
<1>22. SemHeld(u)
  <2>1. u.sem.line = Enter(l, o, None) /\ u.sem.permits = w.sem.permits
    BY <1>5, <1>12
  <2>2. Need[o] \in Nat /\ w.sem.permits \in Nat
    BY <1>1, <1>3, NeedIs DEF Sems
  <2>3. CASE Waits(l)
    BY <1>2, <1>3, <2>1, <2>3, EnterFirst DEF SemHeld, Balanced
  <2>4. CASE ~Waits(l)
    BY <1>2, <1>3, <2>1, <2>2, <2>4, EnterFirst DEF SemHeld, Free
  <2> QED
    BY <2>3, <2>4
<1> QED
  BY <1>20, <1>21, <1>22 DEF Balanced

(* The permits of o are taken.                                              *)
PermitsOut(p, w, u, o) ==
  /\ OnlySem(w, u) /\ SameCounts(p, w, u) /\ ~Waits(u.sem.line)
  /\ u.sem.permits = w.sem.permits - Need[o]

LEMMA TakePermitsOf ==
  ASSUME NEW p \in [Op -> Calls], NEW w, NEW X \in SUBSET Op, NEW H, NEW D, NEW G, Sound(p, w, X, H, D, G),
         NEW o \in Op, Free(w, o), NEW u, u = TakePermits(w, o)
  PROVE  Sound(p, u, X, H, D, G) /\ PermitsOut(p, w, u, o)
<1> DEFINE m == [w.sem EXCEPT !.permits = @ - Need[o]]
<1>1. w \in Worlds /\ SemLine(p, w, X) /\ WaitersOK(p, w, X) /\ w.sem \in Sems
  BY DEF Sound, Worlds, Sems
<1>2. w.sem.permits - Need[o] \in Nat
  BY <1>1, NeedIs DEF Free, Sems
<1>3. m \in Sems /\ m.permits = w.sem.permits - Need[o] /\ m.line = w.sem.line
  BY <1>1, <1>2 DEF Sems
<1>4. u = [w EXCEPT !.sem = m]
  BY <1>1 DEF TakePermits, Worlds, Sems
<1> HIDE DEF m
<1>5. OnlySem(w, u) /\ u.sem = m
  BY <1>1, <1>3, <1>4, SemField
<1>6. Shift(p, w, X, X, D, Acquires)
  BY DEF Shift
<1>7. SemLine(p, u, X)
  BY <1>1, <1>3, <1>5 DEF SemLine, Behind, OnlySem
<1>8. AllIn(p, w, X, Acquires, u.sem.line)
  BY <1>1, <1>3, <1>5 DEF AllIn, WaitersOK, HasLine
<1>9. Sound(p, u, X, H, D, G) /\ SameCounts(p, w, u)
  BY <1>5, <1>6, <1>7, <1>8, SemChange DEF SameCounts
<1> QED
  BY <1>3, <1>5, <1>9 DEF Free, PermitsOut

(* They are then with o.                                                    *)
LEMMA PermitsTaken ==
  ASSUME NEW p, NEW w \in Worlds, NEW u \in Worlds, NEW o \in Op, Balanced(p, w), ~Waits(u.sem.line),
         u.sem.permits = w.sem.permits - Need[o], o \notin GrantedIn(p, w),
         GrantedIn(p, u) = GrantedIn(p, w) \cup {o}, AddedIn(p, u) = AddedIn(p, w)
  PROVE  Balanced(p, u)
<1> DEFINE O == {o}
<1>1. GrantedIn(p, w) \in SUBSET Op /\ AddedIn(p, w) \in SUBSET Op
  BY CountsIn
<1>2. Needed(GrantedIn(p, w)) \in Nat /\ Needed(AddedIn(p, w)) \in Nat
  BY <1>1, NeededFinite
<1>3. O \in SUBSET Op /\ GrantedIn(p, w) \cap O = {} /\ Needed(O) = Need[o] /\ GrantedIn(p, u) = GrantedIn(p, w) \cup O
  BY NeededOne
<1> HIDE DEF O
<1>4. Needed(GrantedIn(p, u)) = Needed(GrantedIn(p, w)) + Need[o]
  BY <1>1, <1>3, NeededUnion
<1>5. Need[o] \in Nat /\ w.sem.permits \in Nat /\ u.sem.permits \in Nat /\ Permits \in Nat
  BY WorldIs, NeedIs
<1>6. PermitsOK(p, u, u.sem.permits)
  BY <1>2, <1>4, <1>5 DEF PermitsOK, Balanced
<1> QED
  BY <1>6 DEF Balanced, SemHeld

LEMMA AcquireOrWaitOf ==
  ASSUME NEW p \in [Op -> Calls], NEW w, NEW D, NEW G, NEW o \in Op, Sound(p, w, {o}, {}, D, G), Balanced(p, w),
         o \notin D, o \notin G, p[o] \in Acquires, NEW u, u = AcquireOrWait(w, o)
  PROVE  Sound(p, u, {}, {}, D, G) /\ Balanced(p, u)
<1> DEFINE X == {o}
           Z == {}
<1>1. X \in SUBSET Op /\ o \in X /\ X \ {o} = Z /\ Sound(p, w, X, Z, D, G) /\ Z \ {o} = Z /\ Z = {}
  OBVIOUS
<1> HIDE DEF X, Z
<1>2. CASE Free(w, o)
  <2> DEFINE x == TakePermits(w, o)
  <2>1. u = Done(x, o, o)
    BY <1>2 DEF AcquireOrWait
  <2> HIDE DEF x
  <2>2. Sound(p, x, X, Z, D, G) /\ PermitsOut(p, w, x, o)
    BY <1>1, <1>2, TakePermitsOf DEF x
  <2>3. o \in Maybe /\ o \notin PutOps(p)
    BY DEF Maybe, PutOps, Puts, Acquires
  <2>4. StepOK(p, Step(o, o, FALSE))
    BY DEF StepOK, Step, Takes, Acquires, Asyncs, Pinneds
  <2>5. Sound(p, u, X \ {o}, Z \ {o}, D, G) /\ Readied(p, x, u, {o})
    BY <1>1, <2>1, <2>2, <2>3, <2>4, DoneOf
  <2>6. GrantedIn(p, u) = GrantedIn(p, x) \cup {o} /\ o \notin GrantedIn(p, x)
    BY <2>5, ReadiedOne
  <2>7. w \in Worlds /\ u \in Worlds
    BY <2>5 DEF Sound
  <2>8. u.sem = x.sem /\ AddedIn(p, u) = AddedIn(p, x)
    BY <2>5 DEF Readied
  <2>9. Balanced(p, u)
    BY <2>2, <2>6, <2>7, <2>8, PermitsTaken DEF SameCounts, PermitsOut
  <2> QED
    BY <1>1, <2>5, <2>9
<1>3. CASE ~Free(w, o)
  <2>1. u = JoinSem(w, o)
    BY <1>3 DEF AcquireOrWait, JoinSem
  <2>2. Sound(p, u, X \ {o}, Z, D, G) /\ Balanced(p, u)
    BY <1>1, <1>3, <2>1, WaitInSem
  <2> QED
    BY <1>1, <2>2
<1> QED
  BY <1>2, <1>3

LEMMA TryAcquireOf ==
  ASSUME NEW p \in [Op -> Calls], NEW w, NEW D, NEW G, NEW o \in Op, Sound(p, w, {}, {}, D, G), Balanced(p, w),
         p[o] = "tryAcquireN", w.status[o] = "over", w.taken[o] = None, NEW u, u = TryAcquire(w, o)
  PROVE  Sound(p, u, {}, {}, D, G) /\ Balanced(p, u)
<1> DEFINE Z == {}
<1>1. Z \in SUBSET Op /\ Sound(p, w, Z, Z, D, G) /\ Z \ {o} = Z /\ Z = {} /\ o \in Op \ Z
  OBVIOUS
<1> HIDE DEF Z
<1>2. CASE Free(w, o)
  <2> DEFINE x == TakePermits(w, o)
  <2>1. u = [x EXCEPT !.taken[o] = o]
    BY <1>2 DEF TryAcquire
  <2> HIDE DEF x
  <2>2. Sound(p, x, Z, Z, D, G) /\ PermitsOut(p, w, x, o)
    BY <1>1, <1>2, TakePermitsOf DEF x
  <2>3. x.taken[o] = None /\ x.status[o] \in {"inside", "over"} /\ o \in Maybe
    BY <2>2 DEF PermitsOut, OnlySem, Maybe
  <2>4. Sound(p, u, Z, Z \ {o}, D, G) /\ WentOn(p, x, u, o, o)
    BY <1>1, <2>1, <2>2, <2>3, TakenGained
  <2>5. u.sem = x.sem /\ AddedIn(p, u) = AddedIn(p, x) /\ GrantedIn(p, u) = GrantedIn(p, x) \cup {o}
    BY <2>4 DEF WentOn
  <2>6. w \in Worlds /\ u \in Worlds
    BY <2>4 DEF Sound
  <2>7. o \notin GrantedIn(p, w)
    <3>1. w.runQ \in Seq(StepSet) /\ \A i \in 1..Len(w.runQ) : StepOK(p, w.runQ[i])
      BY <2>6, WorldIs DEF Sound, QueueOK
    <3>2. ~ValQ(w.runQ, o)
      BY <3>1, OwnValue DEF Acquires
    <3>3. w.taken[o] # o
      BY NeedIs
    <3> QED
      BY <3>2, <3>3 DEF GrantedIn
  <2>8. Balanced(p, u)
    BY <2>2, <2>5, <2>6, <2>7, PermitsTaken DEF SameCounts, PermitsOut
  <2> QED
    BY <1>1, <2>4, <2>8
<1>3. CASE ~Free(w, o)
  BY <1>3 DEF TryAcquire
<1> QED
  BY <1>2, <1>3

-----------------------------------------------------------------------------
(* How far an operation is.                                                 *)
NoCleanup(w, o) == \A c \in w.cleanups : c.op # o

OnlyStatus(w, u, o, s) ==
  /\ u \in Worlds
  /\ u.mvar = w.mvar /\ u.chan = w.chan /\ u.sem = w.sem /\ u.runQ = w.runQ /\ u.number = w.number
  /\ u.cleanups = w.cleanups /\ u.taken = w.taken /\ u.live = w.live
  /\ u.status[o] = s /\ \A q \in Op \ {o} : u.status[q] = w.status[q]

LEMMA StatusField ==
  ASSUME NEW w \in Worlds, NEW o \in Op, NEW s \in Stages, NEW u, u = [w EXCEPT !.status[o] = s]
  PROVE  OnlyStatus(w, u, o, s)
<1> DEFINE st == [w.status EXCEPT ![o] = s]
<1>1. st \in [Op -> Stages] /\ st[o] = s /\ \A q \in Op \ {o} : st[q] = w.status[q]
  BY WorldIs
<1>2. u = [w EXCEPT !.status = st]
  BY DEF Worlds
<1> HIDE DEF st
<1>3. u.status = st
  BY <1>2 DEF Worlds
<1> QED
  BY <1>1, <1>2, <1>3 DEF OnlyStatus, Worlds

LEMMA OverOf ==
  ASSUME NEW p \in [Op -> Calls], NEW w, NEW X \in SUBSET Op, NEW H, NEW D, NEW G, Sound(p, w, X, H, D, G),
         NEW o \in X, NoCleanup(w, o), NEW u, u = [w EXCEPT !.status[o] = "over"]
  PROVE  Sound(p, u, X \ {o}, H, D, G) /\ OnlyStatus(w, u, o, "over") /\ SameSem(p, w, u)
<1>1. w \in Worlds /\ QueueOK(p, w, X) /\ TakenOK(p, w, X) /\ LiveOK(p, w, X) /\ CleanupsOK(w, X, D, G)
      /\ MVarLine(p, w, X) /\ ChanLines(p, w, X) /\ SemLine(p, w, X) /\ WaitersOK(p, w, X)
      /\ PlacesOK(p, w, H) /\ ChanHeld(w)
  BY DEF Sound
<1>2. OnlyStatus(w, u, o, "over")
  BY <1>1, StatusField DEF Stages
<1>3. /\ u \in Worlds
      /\ u.mvar = w.mvar /\ u.chan = w.chan /\ u.sem = w.sem /\ u.runQ = w.runQ /\ u.number = w.number
      /\ u.cleanups = w.cleanups /\ u.taken = w.taken /\ u.live = w.live
      /\ u.status[o] = "over" /\ \A q \in Op \ {o} : u.status[q] = w.status[q]
  BY <1>2 DEF OnlyStatus
<1>4. MVarLine(p, u, X \ {o}) /\ ChanLines(p, u, X \ {o}) /\ SemLine(p, u, X \ {o})
  BY <1>1, <1>3 DEF MVarLine, ChanLines, SemLine, Taker, Putter, Behind
<1>5. WaitersOK(p, u, X \ {o})
  <2> SUFFICES ASSUME NEW q \in Op \ (X \ {o}), u.status[q] = "waiting" PROVE HasLine(p, u, q)
    BY DEF WaitersOK
  <2>1. q \in Op \ X /\ w.status[q] = "waiting"
    BY <1>3
  <2>2. HasLine(p, w, q)
    BY <1>1, <2>1 DEF WaitersOK
  <2> QED
    BY <1>3, <2>2 DEF HasLine
<1>6. QueueOK(p, u, X \ {o})
  BY <1>1, <1>3 DEF QueueOK
<1>7. TakenOK(p, u, X \ {o})
  BY <1>1, <1>3 DEF TakenOK
<1>8. LiveOK(p, u, X \ {o})
  <2>1. w.live \subseteq Op
    BY <1>1, WorldIs
  <2> QED
    BY <1>1, <1>3, <2>1 DEF LiveOK
<1>9. CleanupsOK(u, X \ {o}, D, G)
  <2>1. w.cleanups \subseteq Ident
    BY <1>1, WorldIs
  <2> QED
    BY <1>1, <1>3, <2>1 DEF CleanupsOK, NoCleanup, Ident
<1>10. PlacesOK(p, u, H)
  <2>1. \A v : PlaceOf(w, H, v) => PlaceOf(u, H, v)
    BY <1>3 DEF PlaceOf, TakenBy
  <2> QED
    BY <1>1, <1>3, <2>1 DEF PlacesOK, OnceT
<1>11. ChanHeld(u) /\ SameSem(p, w, u)
  BY <1>1, <1>3 DEF ChanHeld, SameSem, GrantedIn, AddedIn
<1> QED
  BY <1>2, <1>3, <1>4, <1>5, <1>6, <1>7, <1>8, <1>9, <1>10, <1>11 DEF Sound

(* An operation whose call has not been made is in transit as well as not.  *)
LEMMA IdleIn ==
  ASSUME NEW p \in [Op -> Calls], NEW w, NEW D, NEW G, NEW o \in Op, Sound(p, w, {}, {}, D, G), w.status[o] = "idle"
  PROVE  Sound(p, w, {o}, {}, D, G) /\ NoCleanup(w, o) /\ o \notin w.live
<1>1. w \in Worlds /\ QueueOK(p, w, {}) /\ TakenOK(p, w, {}) /\ LiveOK(p, w, {}) /\ CleanupsOK(w, {}, D, G)
      /\ MVarLine(p, w, {}) /\ ChanLines(p, w, {}) /\ SemLine(p, w, {}) /\ WaitersOK(p, w, {})
      /\ PlacesOK(p, w, {}) /\ ChanHeld(w)
  BY DEF Sound
<1>2. MVarLine(p, w, {o}) /\ ChanLines(p, w, {o}) /\ SemLine(p, w, {o})
  BY <1>1 DEF MVarLine, ChanLines, SemLine, Taker, Putter, Behind
<1>3. WaitersOK(p, w, {o}) /\ QueueOK(p, w, {o}) /\ TakenOK(p, w, {o}) /\ LiveOK(p, w, {o})
  BY <1>1 DEF WaitersOK, QueueOK, TakenOK, LiveOK
<1>4. CleanupsOK(w, {o}, D, G) /\ NoCleanup(w, o) /\ o \notin w.live
  BY <1>1 DEF CleanupsOK, NoCleanup, LiveOK
<1> QED
  BY <1>1, <1>2, <1>3, <1>4 DEF Sound

(* The first of the ready steps is taken out of the queue.                  *)
Popped(p, w, u, s) ==
  /\ s \in StepSet /\ StepOK(p, s) /\ NoCleanup(u, s.op)
  /\ u.status = w.status /\ u.sem = w.sem /\ u.taken[s.op] = None /\ u.status[s.op] = "ready"
  /\ u.taken = w.taken /\ u.live = w.live
  /\ p[s.op] \in Pinneds => s.op \notin u.live
  /\ AddedIn(p, u) = AddedIn(p, w)
  /\ p[s.op] \in Acquires => GrantedIn(p, w) = GrantedIn(p, u) \cup {s.op} /\ s.op \notin GrantedIn(p, u)
  /\ p[s.op] \notin Acquires => GrantedIn(p, w) = GrantedIn(p, u)

LEMMA PopOf ==
  ASSUME NEW p \in [Op -> Calls], NEW w, NEW D, NEW G, Sound(p, w, {}, {}, D, G), w.runQ # <<>>,
         NEW s, s = Head(w.runQ), NEW u, u = [w EXCEPT !.runQ = Tail(@)]
  PROVE  Sound(p, u, {s.op}, {s.value} \cap PutOps(p), D, G) /\ Popped(p, w, u, s)
<1> DEFINE q == w.runQ
           t == Tail(w.runQ)
           o == s.op
           v == s.value
           J == {v} \cap PutOps(p)
<1>1. w \in Worlds /\ QueueOK(p, w, {}) /\ TakenOK(p, w, {}) /\ LiveOK(p, w, {}) /\ CleanupsOK(w, {}, D, G)
      /\ MVarLine(p, w, {}) /\ ChanLines(p, w, {}) /\ SemLine(p, w, {}) /\ WaitersOK(p, w, {})
      /\ PlacesOK(p, w, {}) /\ ChanHeld(w)
  BY DEF Sound
<1>2. q \in Seq(StepSet) /\ OnceQ(q) /\ OnceV(p, q)
  BY <1>1, WorldIs DEF QueueOK, PlacesOK
<1>3. /\ s \in StepSet /\ t \in Seq(StepSet) /\ OnceQ(t) /\ OnceV(p, t)
      /\ \A x : InQ(t, x) <=> InQ(q, x) /\ x # o
      /\ \A x \in PutOps(p) : ValQ(t, x) <=> ValQ(q, x) /\ x # v
      /\ \A x : ValQ(q, x) <=> ValQ(t, x) \/ x = v
      /\ InQ(q, o) /\ s = q[1] /\ 1 \in 1..Len(q)
      /\ \A i \in 1..Len(t) : \E k \in 1..Len(q) : t[i] = q[k] /\ k # 1
  BY <1>2, QueueTaken
<1>4. o \in Op /\ v \in Maybe
  BY <1>3 DEF StepSet
<1>5. StepOK(p, s) /\ w.status[o] = "ready"
  BY <1>1, <1>3, <1>4 DEF QueueOK
<1> HIDE DEF t, q, o, v, J
<1>6. /\ u \in Worlds
      /\ u.mvar = w.mvar /\ u.chan = w.chan /\ u.sem = w.sem /\ u.runQ = t /\ u.number = w.number
      /\ u.cleanups = w.cleanups /\ u.taken = w.taken /\ u.live = w.live /\ u.status = w.status
  <2>1. u = [w EXCEPT !.runQ = t]
    BY DEF t
  <2> QED
    BY <1>1, <1>3, <2>1 DEF Worlds
<1>7. MVarLine(p, u, {o}) /\ ChanLines(p, u, {o}) /\ SemLine(p, u, {o})
  BY <1>1, <1>5, <1>6 DEF MVarLine, ChanLines, SemLine, Taker, Putter, Behind
<1>8. WaitersOK(p, u, {o})
  BY <1>1, <1>6 DEF WaitersOK, HasLine
<1>9. QueueOK(p, u, {o})
  <2>1. \A i \in 1..Len(t) : StepOK(p, t[i])
    BY <1>1, <1>3 DEF QueueOK, q
  <2>2. \A x \in Op \ {o} : InQ(t, x) <=> u.status[x] = "ready"
    BY <1>1, <1>3, <1>6 DEF QueueOK, q
  <2>3. \A x \in {o} : ~InQ(t, x)
    BY <1>3
  <2> QED
    BY <1>3, <1>6, <2>1, <2>2, <2>3 DEF QueueOK
<1>10. TakenOK(p, u, {o}) /\ u.taken[o] = None
  BY <1>1, <1>4, <1>5, <1>6 DEF TakenOK
<1>11. LiveOK(p, u, {o}) /\ (p[o] \in Pinneds => o \notin u.live)
  BY <1>1, <1>5, <1>6 DEF LiveOK
<1>12. CleanupsOK(u, {o}, D, G) /\ NoCleanup(u, o)
  BY <1>1, <1>5, <1>6 DEF CleanupsOK, NoCleanup
<1>13. PlacesOK(p, u, J)
  <2>1. ASSUME NEW x \in PutOps(p) PROVE PlaceOf(u, J, x)
    <3>1. PlaceOf(w, {}, x)
      BY <1>1 DEF PlacesOK
    <3>2. x \in J <=> x = v
      BY DEF J
    <3>3. ValQ(w.runQ, x) <=> ValQ(u.runQ, x) \/ x = v
      BY <1>3, <1>6 DEF q
    <3>4. ValQ(u.runQ, x) => x # v
      BY <1>3, <1>6
    <3>5. TakenBy(u, x) <=> TakenBy(w, x)
      BY <1>6 DEF TakenBy
    <3> QED
      BY <1>6, <3>1, <3>2, <3>3, <3>4, <3>5 DEF PlaceOf, Placed, One
  <2>2. J \subseteq PutOps(p)
    BY DEF J
  <2>3. OnceV(p, u.runQ)
    BY <1>3, <1>6
  <2>4. OnceT(p, u)
    BY <1>1, <1>6 DEF PlacesOK, OnceT
  <2> QED
    BY <1>1, <1>6, <2>1, <2>2, <2>3, <2>4 DEF PlacesOK
<1>14. ChanHeld(u)
  BY <1>1, <1>6 DEF ChanHeld
<1>15. AddedIn(p, u) = AddedIn(p, w)
  BY <1>6 DEF AddedIn
<1>16. \A i \in 1..Len(q) : StepOK(p, q[i])
  BY <1>1 DEF QueueOK, q
<1>17. \A i \in 1..Len(t) : StepOK(p, t[i])
  BY <1>3, <1>16
<1>18. ASSUME NEW x \in Op, p[x] \in Acquires \cup {"tryAcquireN"}
       PROVE  /\ ValQ(w.runQ, x) <=> ValQ(u.runQ, x) \/ (x = o /\ p[o] \in Acquires)
              /\ x = o => ~ValQ(u.runQ, x)
  <2>1. ValQ(q, x) <=> InQ(q, x) /\ p[x] \in Acquires
    BY <1>2, <1>16, <1>18, OwnValue
  <2>2. ValQ(t, x) <=> InQ(t, x) /\ p[x] \in Acquires
    BY <1>3, <1>17, <1>18, OwnValue
  <2> QED
    BY <1>3, <1>6, <2>1, <2>2 DEF q
<1>19. ASSUME p[o] \in Acquires
       PROVE  GrantedIn(p, w) = GrantedIn(p, u) \cup {o} /\ o \notin GrantedIn(p, u)
  <2>1. \A x \in Op : x \in GrantedIn(p, w) <=> x \in GrantedIn(p, u) \/ x = o
    BY <1>6, <1>18, <1>19 DEF GrantedIn
  <2>2. o \notin GrantedIn(p, u)
    BY <1>4, <1>10, <1>18, <1>19, NeedIs DEF GrantedIn
  <2>3. GrantedIn(p, w) \in SUBSET Op /\ GrantedIn(p, u) \in SUBSET Op
    BY <1>1, <1>6, CountsIn
  <2> QED
    BY <1>4, <2>1, <2>2, <2>3
<1>20. ASSUME p[o] \notin Acquires PROVE GrantedIn(p, w) = GrantedIn(p, u)
  <2>1. \A x \in Op : x \in GrantedIn(p, w) <=> x \in GrantedIn(p, u)
    BY <1>6, <1>18, <1>20 DEF GrantedIn
  <2>3. GrantedIn(p, w) \in SUBSET Op /\ GrantedIn(p, u) \in SUBSET Op
    BY <1>1, <1>6, CountsIn
  <2> QED
    BY <2>1, <2>3
<1>21. Sound(p, u, {o}, J, D, G)
  BY <1>6, <1>7, <1>8, <1>9, <1>10, <1>11, <1>12, <1>13, <1>14 DEF Sound
<1>22. Popped(p, w, u, s)
  BY <1>3, <1>5, <1>6, <1>10, <1>11, <1>12, <1>15, <1>19, <1>20 DEF Popped, o
<1> QED
  BY <1>21, <1>22 DEF o, J, v

(* An operation that has completed goes on: inside its body, if it has one. *)
LEMMA InsideOf ==
  ASSUME NEW p \in [Op -> Calls], NEW w, NEW D, NEW G, NEW o \in Op, Sound(p, w, {}, {}, D, G),
         w.status[o] = "over", w.taken[o] # None, p[o] \in {"modifyMVar", "withPermits"}, o \notin D, o \notin G,
         NEW u, u = Register([w EXCEPT !.status[o] = "inside"], o)
  PROVE  Sound(p, u, {}, {}, D, G) /\ SameSem(p, w, u)
<1> DEFINE st == [w.status EXCEPT ![o] = "inside"]
           c0 == [num |-> Fresh(w.cleanups), op |-> o]
           cs == w.cleanups \cup {c0}
<1>1. w \in Worlds /\ QueueOK(p, w, {}) /\ TakenOK(p, w, {}) /\ LiveOK(p, w, {}) /\ CleanupsOK(w, {}, D, G)
      /\ MVarLine(p, w, {}) /\ ChanLines(p, w, {}) /\ SemLine(p, w, {}) /\ WaitersOK(p, w, {})
      /\ PlacesOK(p, w, {}) /\ ChanHeld(w)
  BY DEF Sound
<1>2. IsFiniteSet(w.cleanups) /\ w.cleanups \in SUBSET Ident /\ w.status \in [Op -> Stages]
  BY <1>1, WorldIs DEF CleanupsOK, IdentsOK
<1>3. Fresh(w.cleanups) \in Nat /\ \A c \in w.cleanups : c.num < Fresh(w.cleanups)
  BY <1>2, FreshIdent
<1>4. c0.num = Fresh(w.cleanups) /\ c0.op = o /\ cs \in SUBSET Ident /\ st \in [Op -> Stages]
      /\ st[o] = "inside" /\ \A q \in Op \ {o} : st[q] = w.status[q]
  BY <1>2, <1>3 DEF Ident, Stages
<1>5. u = [w EXCEPT !.status = st, !.cleanups = cs]
  BY <1>1 DEF Register, Worlds
<1>6. cs = w.cleanups \cup {c0}
  OBVIOUS
<1> HIDE DEF st, c0, cs
<1>7. /\ u \in Worlds
      /\ u.mvar = w.mvar /\ u.chan = w.chan /\ u.sem = w.sem /\ u.runQ = w.runQ /\ u.number = w.number
      /\ u.taken = w.taken /\ u.live = w.live /\ u.status = st /\ u.cleanups = cs
  BY <1>1, <1>4, <1>5 DEF Worlds
<1>8. MVarLine(p, u, {}) /\ ChanLines(p, u, {}) /\ SemLine(p, u, {})
  BY <1>1, <1>4, <1>7 DEF MVarLine, ChanLines, SemLine, Taker, Putter, Behind
<1>9. WaitersOK(p, u, {})
  BY <1>1, <1>4, <1>7 DEF WaitersOK, HasLine
<1>10. QueueOK(p, u, {})
  BY <1>1, <1>4, <1>7 DEF QueueOK
<1>11. TakenOK(p, u, {})
  BY <1>1, <1>4, <1>7 DEF TakenOK
<1>12. LiveOK(p, u, {})
  <2>1. w.live \subseteq Op /\ p[o] \notin Pinneds
    BY <1>1, WorldIs DEF Pinneds
  <2> QED
    BY <1>1, <1>4, <1>7, <2>1 DEF LiveOK
<1>13. CleanupsOK(u, {}, D, G)
  <2>1. IsFiniteSet(u.cleanups)
    <3>1. IsFiniteSet(w.cleanups \cup {c0})
      BY <1>2, FS_AddElement
    <3> QED
      BY <1>6, <1>7, <3>1
  <2>2. ASSUME NEW c \in u.cleanups, NEW d \in u.cleanups, c.num = d.num PROVE c = d
    <3>1. \A e \in w.cleanups : e.num # c0.num
      BY <1>2, <1>3, <1>4 DEF Ident
    <3> QED
      BY <1>1, <1>6, <1>7, <2>2, <3>1 DEF CleanupsOK, IdentsOK
  <2>3. ASSUME NEW c \in u.cleanups
        PROVE  c.op \notin G /\ u.status[c.op] \in {"waiting", "inside"} /\ c.op \notin D
    <3>1. CASE c = c0
      BY <1>4, <1>7, <3>1
    <3>2. CASE c \in w.cleanups
      BY <1>1, <1>2, <1>4, <1>7, <3>2 DEF CleanupsOK, Ident
    <3> QED
      BY <1>6, <1>7, <3>1, <3>2
  <2>4. ASSUME NEW q \in Op, u.status[q] \in {"waiting", "inside"}, q \notin D PROVE \E c \in u.cleanups : c.op = q
    <3>1. CASE q = o
      BY <1>4, <1>6, <1>7, <3>1
    <3>2. CASE q # o
      BY <1>1, <1>4, <1>6, <1>7, <2>4, <3>2 DEF CleanupsOK
    <3> QED
      BY <3>1, <3>2
  <2> QED
    BY <2>1, <2>2, <2>3, <2>4 DEF CleanupsOK, IdentsOK
<1>14. PlacesOK(p, u, {})
  <2>1. \A v : PlaceOf(w, {}, v) => PlaceOf(u, {}, v)
    BY <1>7 DEF PlaceOf, TakenBy
  <2> QED
    BY <1>1, <1>7, <2>1 DEF PlacesOK, OnceT
<1>15. ChanHeld(u) /\ SameSem(p, w, u)
  BY <1>1, <1>7 DEF ChanHeld, SameSem, GrantedIn, AddedIn
<1> QED
  BY <1>7, <1>8, <1>9, <1>10, <1>11, <1>12, <1>13, <1>14, <1>15 DEF Sound

(* A cleanup is dropped when its body ends.                                 *)
CleanupTaken(w, u, o) == u = [w EXCEPT !.cleanups = Without(@, {o})]

LEMMA DropCleanup ==
  ASSUME NEW p \in [Op -> Calls], NEW w, NEW D, NEW G, NEW o \in Op, Sound(p, w, {}, {}, D, G),
         NEW u, CleanupTaken(w, u, o)
  PROVE  Sound(p, u, {}, {}, D \cup {o}, G) /\ SameSem(p, w, u) /\ u.status = w.status /\ u.taken = w.taken
<1> DEFINE cs == Without(w.cleanups, {o})
<1>1. w \in Worlds /\ QueueOK(p, w, {}) /\ TakenOK(p, w, {}) /\ LiveOK(p, w, {}) /\ CleanupsOK(w, {}, D, G)
      /\ MVarLine(p, w, {}) /\ ChanLines(p, w, {}) /\ SemLine(p, w, {}) /\ WaitersOK(p, w, {})
      /\ PlacesOK(p, w, {}) /\ ChanHeld(w)
  BY DEF Sound
<1>2. IsFiniteSet(w.cleanups) /\ w.cleanups \in SUBSET Ident
  BY <1>1, WorldIs DEF CleanupsOK, IdentsOK
<1>3. cs \in SUBSET w.cleanups /\ \A c : c \in cs <=> c \in w.cleanups /\ c.op # o
  BY DEF Without
<1>4. u = [w EXCEPT !.cleanups = cs]
  BY DEF CleanupTaken
<1> HIDE DEF cs
<1>5. /\ u \in Worlds
      /\ u.mvar = w.mvar /\ u.chan = w.chan /\ u.sem = w.sem /\ u.runQ = w.runQ /\ u.number = w.number
      /\ u.taken = w.taken /\ u.live = w.live /\ u.status = w.status /\ u.cleanups = cs
  BY <1>1, <1>2, <1>3, <1>4 DEF Worlds
<1>6. MVarLine(p, u, {}) /\ ChanLines(p, u, {}) /\ SemLine(p, u, {})
  BY <1>1, <1>5 DEF MVarLine, ChanLines, SemLine, Taker, Putter, Behind
<1>7. WaitersOK(p, u, {}) /\ QueueOK(p, u, {}) /\ TakenOK(p, u, {}) /\ LiveOK(p, u, {})
  BY <1>1, <1>5 DEF WaitersOK, HasLine, QueueOK, TakenOK, LiveOK
<1>8. CleanupsOK(u, {}, D \cup {o}, G)
  <2>1. IdentsOK(u.cleanups)
    BY <1>1, <1>3, <1>5, FS_Subset DEF CleanupsOK, IdentsOK
  <2> QED
    BY <1>1, <1>3, <1>5, <2>1 DEF CleanupsOK
<1>9. PlacesOK(p, u, {})
  <2>1. \A v : PlaceOf(w, {}, v) => PlaceOf(u, {}, v)
    BY <1>5 DEF PlaceOf, TakenBy
  <2> QED
    BY <1>1, <1>5, <2>1 DEF PlacesOK, OnceT
<1>10. ChanHeld(u) /\ SameSem(p, w, u)
  BY <1>1, <1>5 DEF ChanHeld, SameSem, GrantedIn, AddedIn
<1> QED
  BY <1>5, <1>6, <1>7, <1>8, <1>9, <1>10 DEF Sound

(* A cleanup has been run.                                                  *)
LEMMA CleanupRun ==
  ASSUME NEW p \in [Op -> Calls], NEW w, NEW D, NEW G, Sound(p, w, {}, {}, D, G), NEW E \in SUBSET D,
         \A o \in D \ E : w.status[o] \notin {"waiting", "inside"}
  PROVE  Sound(p, w, {}, {}, E, G)
<1>1. CleanupsOK(w, {}, E, G)
  BY DEF Sound, CleanupsOK
<1> QED
  BY <1>1 DEF Sound

(* A body is left, and what was taken is in hand.                           *)
Leaves(w, u, o) == u = [w EXCEPT !.status[o] = "over", !.taken[o] = None]
BodyLeft(p, w, u, o) ==
  /\ p[o] \in {"modifyMVar", "withPermits"}
  /\ p[o] \in Takes => w.taken[o] \in PutOps(p)
  /\ u.status[o] = "over" /\ u.sem = w.sem /\ AddedIn(p, u) = AddedIn(p, w)
  /\ p[o] \in Acquires => GrantedIn(p, w) = GrantedIn(p, u) \cup {o} /\ o \notin GrantedIn(p, u)
  /\ p[o] \notin Acquires => GrantedIn(p, w) = GrantedIn(p, u)

LEMMA LeaveBody ==
  ASSUME NEW p \in [Op -> Calls], NEW w, NEW D, NEW G, NEW o \in D, o \in Op, Sound(p, w, {}, {}, D, G),
         w.status[o] = "inside", NEW v, v = w.taken[o], NEW u, Leaves(w, u, o)
  PROVE  Sound(p, u, {}, {v} \cap PutOps(p), D, G) /\ BodyLeft(p, w, u, o)
<1> DEFINE st == [w.status EXCEPT ![o] = "over"]
           tk == [w.taken EXCEPT ![o] = None]
           J  == {v} \cap PutOps(p)
<1>1. w \in Worlds /\ QueueOK(p, w, {}) /\ TakenOK(p, w, {}) /\ LiveOK(p, w, {}) /\ CleanupsOK(w, {}, D, G)
      /\ MVarLine(p, w, {}) /\ ChanLines(p, w, {}) /\ SemLine(p, w, {}) /\ WaitersOK(p, w, {})
      /\ PlacesOK(p, w, {}) /\ ChanHeld(w)
  BY DEF Sound
<1>2. w.status \in [Op -> Stages] /\ w.taken \in [Op -> Maybe] /\ w.live \in SUBSET Op
      /\ w.cleanups \in SUBSET Ident /\ w.runQ \in Seq(StepSet)
  BY <1>1, WorldIs
<1>3. /\ st \in [Op -> Stages] /\ st[o] = "over" /\ \A q \in Op \ {o} : st[q] = w.status[q]
      /\ tk \in [Op -> Maybe] /\ tk[o] = None /\ \A q \in Op \ {o} : tk[q] = w.taken[q]
  BY <1>2 DEF Stages, Maybe
<1>4. u = [w EXCEPT !.status = st, !.taken = tk]
  BY <1>1 DEF Leaves, Worlds
<1> HIDE DEF st, tk, J
<1>5. /\ u \in Worlds
      /\ u.mvar = w.mvar /\ u.chan = w.chan /\ u.sem = w.sem /\ u.runQ = w.runQ /\ u.number = w.number
      /\ u.cleanups = w.cleanups /\ u.live = w.live /\ u.status = st /\ u.taken = tk
  BY <1>1, <1>3, <1>4 DEF Worlds
<1>6. v # None /\ p[o] \in {"modifyMVar", "withPermits"}
  BY <1>1 DEF TakenOK
<1>7. /\ p[o] \in Takes => v \in PutOps(p)
      /\ p[o] \in Acquires => v = o
  BY <1>1, <1>6 DEF TakenOK, Takes, Acquires
<1>8. MVarLine(p, u, {}) /\ ChanLines(p, u, {}) /\ SemLine(p, u, {})
  BY <1>1, <1>3, <1>5 DEF MVarLine, ChanLines, SemLine, Taker, Putter, Behind
<1>9. WaitersOK(p, u, {}) /\ QueueOK(p, u, {})
  BY <1>1, <1>3, <1>5 DEF WaitersOK, HasLine, QueueOK
<1>10. TakenOK(p, u, {})
  BY <1>1, <1>3, <1>5 DEF TakenOK
<1>11. LiveOK(p, u, {})
  BY <1>1, <1>2, <1>3, <1>5 DEF LiveOK
<1>12. CleanupsOK(u, {}, D, G)
  BY <1>1, <1>2, <1>3, <1>5 DEF CleanupsOK, Ident
<1>13. PlacesOK(p, u, J)
  <2>0. None \notin PutOps(p)
    BY NeedIs DEF PutOps
  <2>1. ASSUME NEW x \in PutOps(p) PROVE PlaceOf(u, J, x)
    <3>1. PlaceOf(w, {}, x)
      BY <1>1 DEF PlacesOK
    <3>2. x \in J <=> x = v
      BY DEF J
    <3>3. TakenBy(w, x) <=> TakenBy(u, x) \/ x = v
      BY <1>3, <1>5, <2>0 DEF TakenBy
    <3>4. TakenBy(u, x) => x # v
      <4> SUFFICES ASSUME NEW q \in Op, tk[q] = v, v \in PutOps(p) PROVE FALSE
        BY <1>5 DEF TakenBy
      <4>1. q # o /\ w.taken[q] = w.taken[o]
        BY <1>3, <1>6
      <4> QED
        BY <1>1, <4>1 DEF PlacesOK, OnceT
    <3> QED
      BY <1>5, <3>1, <3>2, <3>3, <3>4 DEF PlaceOf, Placed, One
  <2>2. J \subseteq PutOps(p)
    BY DEF J
  <2>3. OnceT(p, u)
    <3> SUFFICES ASSUME NEW q \in Op, NEW r \in Op, tk[q] = tk[r], tk[q] \in PutOps(p) PROVE q = r
      BY <1>5 DEF OnceT
    <3>1. q # o /\ r # o
      BY <1>3, <2>0
    <3> QED
      BY <1>1, <1>3, <3>1 DEF PlacesOK, OnceT
  <2> QED
    BY <1>1, <1>5, <2>1, <2>2, <2>3 DEF PlacesOK
<1>14. ChanHeld(u) /\ AddedIn(p, u) = AddedIn(p, w)
  BY <1>1, <1>5 DEF ChanHeld, AddedIn
<1>15. GrantedIn(p, w) \in SUBSET Op /\ GrantedIn(p, u) \in SUBSET Op
  BY <1>1, <1>5, CountsIn
<1>16. ASSUME p[o] \in Acquires PROVE GrantedIn(p, w) = GrantedIn(p, u) \cup {o} /\ o \notin GrantedIn(p, u)
  <2>1. \A x \in Op : x \in GrantedIn(p, w) <=> x \in GrantedIn(p, u) \/ x = o
    BY <1>3, <1>5, <1>7, <1>16 DEF GrantedIn
  <2>2. ~InQ(w.runQ, o)
    BY <1>1 DEF QueueOK
  <2>3. ~ValQ(w.runQ, o)
    BY <1>1, <1>2, <1>16, <2>2, OwnValue DEF QueueOK
  <2>4. o \notin GrantedIn(p, u)
    BY <1>3, <1>5, <2>3, NeedIs DEF GrantedIn
  <2> QED
    BY <1>15, <2>1, <2>4
<1>17. ASSUME p[o] \notin Acquires PROVE GrantedIn(p, w) = GrantedIn(p, u)
  <2>1. p[o] \notin Acquires \cup {"tryAcquireN"}
    BY <1>6, <1>17 DEF Acquires
  <2>2. \A x \in Op : x \in GrantedIn(p, w) <=> x \in GrantedIn(p, u)
    BY <1>3, <1>5, <2>1 DEF GrantedIn
  <2> QED
    BY <1>15, <2>2
<1>18. Sound(p, u, {}, J, D, G)
  BY <1>5, <1>8, <1>9, <1>10, <1>11, <1>12, <1>13, <1>14 DEF Sound
<1>19. BodyLeft(p, w, u, o)
  BY <1>3, <1>5, <1>6, <1>7, <1>14, <1>16, <1>17 DEF BodyLeft
<1> QED
  BY <1>18, <1>19 DEF J

-----------------------------------------------------------------------------
(* Giving up.                                                               *)

(* The entry of o is the one with its number.                               *)
LEMMA LeaveIs ==
  ASSUME NEW l \in Line, LineOK(l), NEW k, NEW o, IsIn(l, o), \A e \in l.line : e.op = o => e.num = k,
         NEW m, m = Leave(k, l)
  PROVE  m \in Line /\ LineOK(m) /\ \A e : e \in m.line <=> e \in l.line /\ e.op # o
<1>1. m \in Line /\ LineOK(m) /\ m.line = {e \in l.line : e.num # k}
  BY LeaveOf
<1>2. PICK f \in l.line : f.op = o
  BY DEF IsIn
<1>3. \A e \in l.line : e.num = k <=> e.op = o
  BY <1>2 DEF LineOK
<1> QED
  BY <1>1, <1>3

(* The operation is out of its line, and its value, if it has one, in hand. *)
GivenUp(w, u, o) ==
  /\ u.status[o] = "over" /\ u.sem = w.sem

LEMMA OutOf ==
  ASSUME NEW p \in [Op -> Calls], NEW w, NEW D, NEW G, NEW o \in Op, NEW J, Sound(p, w, {o}, J, D, G),
         NoCleanup(w, o), J = {o} \/ (J = {} /\ o \notin w.live),
         NEW u, u = [w EXCEPT !.status[o] = "over", !.live = @ \ {o}]
  PROVE  Sound(p, u, {}, {}, D, G) /\ SameSem(p, w, u) /\ GivenUp(w, u, o)
<1> DEFINE X == {o}
           Z == {}
           x == [w EXCEPT !.live = @ \ J]
<1>1. X \in SUBSET Op /\ o \in X /\ X \ {o} = Z /\ Z = {} /\ J \ J = Z /\ J \in SUBSET J
      /\ Sound(p, w, X, J, D, G) /\ w \in Worlds
  BY DEF Sound
<1>2. w.live \ {o} = w.live \ J
  OBVIOUS
<1>3. u = [x EXCEPT !.status[o] = "over"]
  BY <1>1, <1>2 DEF Worlds
<1> HIDE DEF X, Z, x
<1>8. Sound(p, w, X, J, D, G) /\ J \in SUBSET J /\ x = [w EXCEPT !.live = @ \ J]
  BY <1>1 DEF x
<1>4. Sound(p, x, X, J \ J, D, G) /\ OnlyLive(w, x) /\ SameSem(p, w, x)
  BY <1>8, LiveLost
<1>5. Sound(p, x, X, Z, D, G) /\ NoCleanup(x, o)
  BY <1>1, <1>4 DEF OnlyLive, NoCleanup
<1>6. Sound(p, u, X \ {o}, Z, D, G) /\ OnlyStatus(x, u, o, "over") /\ SameSem(p, x, u)
  BY <1>1, <1>3, <1>5, OverOf
<1> QED
  BY <1>1, <1>4, <1>6 DEF OnlyLive, OnlyStatus, SameSem, GivenUp

OutOfMVar(w, u, o, k) ==
  u = [w EXCEPT !.status[o] = "over", !.live = @ \ {o}, !.mvar.line = Leave(k, @)]

LEMMA GiveUpMVar ==
  ASSUME NEW p \in [Op -> Calls], NEW w, NEW D, NEW G, NEW o \in D, o \in Op, Sound(p, w, {}, {}, D, G),
         w.status[o] = "waiting", p[o] \in Takes \cup {"putMVar"},
         NEW k, k = w.number[o], NEW u, OutOfMVar(w, u, o, k)
  PROVE  Sound(p, u, {}, {}, D, G) /\ SameSem(p, w, u) /\ GivenUp(w, u, o)
         /\ (p[o] \in Takes <=> w.mvar.value = None)
<1> DEFINE l == w.mvar.line
           n == Leave(k, l)
           m == [w.mvar EXCEPT !.line = n]
           x == [w EXCEPT !.mvar = m]
           X == {}
           Y == {o}
           J == IF p[o] = "putMVar" THEN {o} ELSE {}
<1>1. w \in Worlds /\ MVarLine(p, w, X) /\ WaitersOK(p, w, X) /\ PlacesOK(p, w, X) /\ CleanupsOK(w, X, D, G)
      /\ LiveOK(p, w, X) /\ Sound(p, w, X, X, D, G) /\ X = {}
  BY DEF Sound
<1>2. l \in Line /\ LineOK(l)
  BY <1>1, WorldIs DEF MVarLine
<1>3. IsIn(l, o)
  BY <1>1 DEF WaitersOK, HasLine
<1>4. \A e \in l.line : e.op # None => w.number[e.op] = e.num
  BY <1>1 DEF MVarLine, Taker, Putter, Behind
<1>5. o # None /\ \A e \in l.line : e.op = o => e.num = k
  BY <1>4, NeedIs
<1>6. n \in Line /\ LineOK(n) /\ \A e : e \in n.line <=> e \in l.line /\ e.op # o
  <2> HIDE DEF l
  <2> QED
    BY <1>2, <1>3, <1>5, LeaveIs
<1>7. p[o] \in Takes <=> w.mvar.value = None
  <2>1. PICK f \in l.line : f.op = o
    BY <1>3 DEF IsIn
  <2>2. CASE w.mvar.value = None
    BY <1>1, <2>1, <2>2 DEF MVarLine, Taker
  <2>3. CASE w.mvar.value # None
    BY <1>1, <1>5, <2>1, <2>3 DEF MVarLine, Putter, Takes
  <2> QED
    BY <2>2, <2>3
<1>8. m \in [value : Maybe, line : Line] /\ m.value = w.mvar.value /\ m.line = n
  BY <1>1, <1>6 DEF Worlds
<1>9. u = [x EXCEPT !.status[o] = "over", !.live = @ \ {o}]
  BY <1>1 DEF OutOfMVar, Worlds
<1> HIDE DEF l, n, m, x, X, Y, J
<1>10. OnlyMVar(w, x) /\ x.mvar = m
  BY <1>1, <1>8, MVarField DEF x
<1>11. Shift(p, w, X, Y, D, Takes \cup {"putMVar"})
  BY <1>1 DEF Shift, Y
<1>12. MVarLine(p, x, Y)
  <2>1. ASSUME NEW e \in n.line, Taker(p, w, X, e) PROVE Taker(p, x, Y, e)
    BY <1>1, <1>6, <1>10, <2>1 DEF Taker, Behind, OnlyMVar, Y
  <2>2. ASSUME NEW e \in n.line, Putter(p, w, X, e) PROVE Putter(p, x, Y, e)
    BY <1>1, <1>6, <1>10, <2>2 DEF Putter, Behind, OnlyMVar, Y
  <2> QED
    BY <1>1, <1>6, <1>8, <1>10, <2>1, <2>2 DEF MVarLine, l
<1>13. AllIn(p, w, Y, Takes \cup {"putMVar"}, x.mvar.line)
  <2> SUFFICES ASSUME NEW q \in Op \ Y, w.status[q] = "waiting", p[q] \in Takes \cup {"putMVar"}
               PROVE  \E e \in n.line : e.op = q
    BY <1>8, <1>10 DEF AllIn, IsIn
  <2>1. PICK e \in l.line : e.op = q
    BY <1>1 DEF WaitersOK, HasLine, IsIn, l
  <2> QED
    BY <1>6, <2>1 DEF Y
<1>14. J \subseteq PutOps(p) /\ \A v : v \in J <=> p[o] = "putMVar" /\ v = o
  BY DEF J, PutOps, Puts
<1>15. \A v \in PutOps(p) : InEntries(l.line, v) <=> InEntries(n.line, v) \/ v \in J
  <2> SUFFICES ASSUME NEW v \in PutOps(p) PROVE InEntries(l.line, v) <=> InEntries(n.line, v) \/ v \in J
    OBVIOUS
  <2>0. v # None
    BY NeedIs DEF PutOps
  <2>1. PICK f \in l.line : f.op = o
    BY <1>3 DEF IsIn
  <2>2. \A e \in l.line : e.op = o => e = f
    BY <1>2, <1>5, <2>1 DEF LineOK
  <2>3. CASE p[o] \in Takes
    <3>1. f.value = None
      BY <1>1, <1>7, <2>1, <2>3 DEF MVarLine, Taker, l
    <3>2. p[o] # "putMVar"
      BY <2>3 DEF Takes
    <3> QED
      BY <1>6, <1>14, <2>0, <2>1, <2>2, <3>1, <3>2 DEF InEntries
  <2>4. CASE p[o] \notin Takes
    <3>1. f.value = o /\ p[o] = "putMVar"
      BY <1>1, <1>5, <1>7, <2>1, <2>4 DEF MVarLine, Putter, l
    <3> QED
      BY <1>6, <1>14, <2>1, <2>2, <3>1 DEF InEntries
  <2> QED
    BY <2>3, <2>4
<1>16. \A v \in PutOps(p) : InEntries(n.line, v) => v \notin J
  <2> SUFFICES ASSUME p[o] = "putMVar", InEntries(n.line, o) PROVE FALSE
    BY <1>14
  <2>1. PICK e \in l.line : e.value = o /\ e.op # o
    BY <1>6 DEF InEntries
  <2>2. PICK f \in l.line : f.op = o
    BY <1>3 DEF IsIn
  <2>3. w.mvar.value # None
    BY <1>7 DEF Takes
  <2>4. f.value = o /\ o \in PutOps(p)
    BY <1>1, <1>5, <2>2, <2>3 DEF MVarLine, Putter, l
  <2>5. e = f
    BY <1>1, <2>1, <2>2, <2>4 DEF PlacesOK, OnceE, l
  <2> QED
    BY <2>1, <2>2, <2>5
<1>17. PlacesOK(p, x, J)
  <2>1. Moves(p, w, x, X, J)
    BY <1>1, <1>8, <1>10, <1>15, <1>16 DEF Moves, Placed, One, OnlyMVar, l
  <2>2. OnceE(p, x.mvar.line.line)
    BY <1>1, <1>6, <1>8, <1>10 DEF PlacesOK, OnceE, l
  <2> QED
    BY <1>1, <1>10, <1>14, <2>1, <2>2, MVarPlaces
<1>18. Sound(p, x, Y, J, D, G) /\ SameSem(p, w, x)
  BY <1>1, <1>10, <1>11, <1>12, <1>13, <1>17, MVarChange
<1>19. NoCleanup(x, o)
  BY <1>1, <1>10 DEF CleanupsOK, NoCleanup, OnlyMVar
<1>20. J = {o} \/ (J = {} /\ o \notin x.live)
  <2>1. CASE p[o] = "putMVar"
    BY <2>1 DEF J
  <2>2. CASE p[o] # "putMVar"
    <3>1. p[o] \notin Puts \cup {"releaseN"}
      BY <2>2 DEF Takes, Puts
    <3>2. o \notin w.live
      BY <1>1, <3>1 DEF LiveOK
    <3> QED
      BY <1>10, <2>2, <3>2 DEF J, OnlyMVar
  <2> QED
    BY <2>1, <2>2
<1>21. Sound(p, x, {o}, J, D, G)
  BY <1>18 DEF Y
<1>22. Sound(p, u, {}, {}, D, G) /\ SameSem(p, x, u) /\ GivenUp(x, u, o)
  BY <1>9, <1>19, <1>20, <1>21, OutOf
<1> QED
  BY <1>7, <1>10, <1>18, <1>22 DEF SameSem, GivenUp, OnlyMVar

LEMMA GiveUpTaker ==
  ASSUME NEW p \in [Op -> Calls], NEW w, NEW D, NEW G, NEW o \in D, o \in Op, Sound(p, w, {}, {}, D, G),
         w.status[o] = "waiting", p[o] = "recv", NEW k, k = w.number[o], NEW u,
         u = [w EXCEPT !.status[o] = "over", !.live = @ \ {o}, !.chan.takers = Leave(k, @)]
  PROVE  Sound(p, u, {}, {}, D, G) /\ SameSem(p, w, u) /\ GivenUp(w, u, o)
<1> DEFINE l == w.chan.takers
           n == Leave(k, l)
           c == [w.chan EXCEPT !.takers = n]
           x == [w EXCEPT !.chan = c]
           X == {}
           Y == {o}
<1>1. w \in Worlds /\ ChanLines(p, w, X) /\ WaitersOK(p, w, X) /\ PlacesOK(p, w, X) /\ CleanupsOK(w, X, D, G)
      /\ LiveOK(p, w, X) /\ ChanHeld(w) /\ Sound(p, w, X, X, D, G) /\ X = {}
  BY DEF Sound
<1>2. l \in Line /\ LineOK(l)
  BY <1>1, WorldIs DEF ChanLines
<1>3. IsIn(l, o)
  BY <1>1 DEF WaitersOK, HasLine
<1>4. \A e \in l.line : e.op = o => e.num = k
  BY <1>1 DEF ChanLines, Behind
<1>5. n \in Line /\ LineOK(n) /\ \A e : e \in n.line <=> e \in l.line /\ e.op # o
  <2> HIDE DEF l
  <2> QED
    BY <1>2, <1>3, <1>4, LeaveIs
<1> HIDE DEF n
<1>6. c \in Chans /\ c.items = w.chan.items /\ c.count = w.chan.count /\ c.closed = w.chan.closed
      /\ c.takers = n /\ c.senders = w.chan.senders
  BY <1>1, <1>5 DEF Worlds, Chans
<1>7. u = [x EXCEPT !.status[o] = "over", !.live = @ \ {o}]
  BY <1>1 DEF Worlds, n
<1> HIDE DEF l, c, x, X, Y
<1>8. OnlyChan(w, x) /\ x.chan = c
  BY <1>1, <1>6, ChanField DEF x
<1>9. Shift(p, w, X, Y, D, {"recv", "send"})
  BY <1>1 DEF Shift, Y
<1>10. ChanLines(p, x, Y)
  <2>1. ASSUME NEW e \in n.line PROVE Behind(x, Y, e) /\ p[e.op] = "recv" /\ e.value = None
    BY <1>1, <1>5, <1>8 DEF ChanLines, Behind, OnlyChan, Y, l
  <2>2. ASSUME NEW e \in x.chan.senders.line PROVE Behind(x, Y, e) /\ p[e.op] = "send" /\ e.value = e.op
    BY <1>1, <1>6, <1>8 DEF ChanLines, Behind, OnlyChan, Y
  <2> QED
    BY <1>1, <1>5, <1>6, <1>8, <2>1, <2>2 DEF ChanLines
<1>11. AllIn(p, w, Y, {"recv"}, x.chan.takers)
  <2> SUFFICES ASSUME NEW q \in Op \ Y, w.status[q] = "waiting", p[q] = "recv"
               PROVE  \E e \in n.line : e.op = q
    BY <1>6, <1>8 DEF AllIn, IsIn
  <2>1. PICK e \in l.line : e.op = q
    BY <1>1 DEF WaitersOK, HasLine, IsIn, l
  <2> QED
    BY <1>5, <2>1 DEF Y
<1>12. AllIn(p, w, Y, {"send"}, x.chan.senders)
  BY <1>1, <1>6, <1>8 DEF AllIn, WaitersOK, HasLine
<1>13. PlacesOK(p, x, X)
  <2>1. Moves(p, w, x, X, X)
    BY <1>6, <1>8 DEF Moves, Placed, One, OnlyChan
  <2>2. /\ OnceE(p, x.chan.senders.line) /\ OnceI(x.chan.items) /\ X \subseteq PutOps(p)
        /\ \A i \in 1..Len(x.chan.items) : x.chan.items[i] \in PutOps(p)
    BY <1>1, <1>6, <1>8 DEF PlacesOK
  <2> QED
    BY <1>1, <1>8, <2>1, <2>2, ChanPlaces
<1>14. ChanHeld(x)
  BY <1>1, <1>5, <1>6, <1>8 DEF ChanHeld, Waits, l
<1>15. Sound(p, x, Y, X, D, G) /\ SameSem(p, w, x)
  BY <1>1, <1>8, <1>9, <1>10, <1>11, <1>12, <1>13, <1>14, ChanChange
<1>16. NoCleanup(x, o)
  BY <1>1, <1>8 DEF CleanupsOK, NoCleanup, OnlyChan
<1>17. X = {} /\ o \notin x.live
  BY <1>1, <1>8 DEF LiveOK, OnlyChan, Puts
<1>18. Sound(p, x, {o}, X, D, G)
  BY <1>15 DEF Y
<1>19. Sound(p, u, {}, {}, D, G) /\ SameSem(p, x, u) /\ GivenUp(x, u, o)
  BY <1>7, <1>16, <1>17, <1>18, OutOf
<1> QED
  BY <1>8, <1>15, <1>19 DEF SameSem, GivenUp, OnlyChan

LEMMA GiveUpSender ==
  ASSUME NEW p \in [Op -> Calls], NEW w, NEW D, NEW G, NEW o \in D, o \in Op, Sound(p, w, {}, {}, D, G),
         w.status[o] = "waiting", p[o] = "send", NEW k, k = w.number[o], NEW u,
         u = [w EXCEPT !.status[o] = "over", !.live = @ \ {o}, !.chan.senders = Leave(k, @)]
  PROVE  Sound(p, u, {}, {}, D, G) /\ SameSem(p, w, u) /\ GivenUp(w, u, o)
<1> DEFINE l == w.chan.senders
           n == Leave(k, l)
           c == [w.chan EXCEPT !.senders = n]
           x == [w EXCEPT !.chan = c]
           X == {}
           Y == {o}
<1>1. w \in Worlds /\ ChanLines(p, w, X) /\ WaitersOK(p, w, X) /\ PlacesOK(p, w, X) /\ CleanupsOK(w, X, D, G)
      /\ LiveOK(p, w, X) /\ ChanHeld(w) /\ Sound(p, w, X, X, D, G) /\ X = {}
  BY DEF Sound
<1>2. l \in Line /\ LineOK(l)
  BY <1>1, WorldIs DEF ChanLines
<1>3. IsIn(l, o)
  BY <1>1 DEF WaitersOK, HasLine
<1>4. \A e \in l.line : e.value = e.op /\ (e.op = o => e.num = k)
  BY <1>1 DEF ChanLines, Behind
<1>5. n \in Line /\ LineOK(n) /\ \A e : e \in n.line <=> e \in l.line /\ e.op # o
  <2> HIDE DEF l
  <2> QED
    BY <1>2, <1>3, <1>4, LeaveIs
<1> HIDE DEF n
<1>6. c \in Chans /\ c.items = w.chan.items /\ c.count = w.chan.count /\ c.closed = w.chan.closed
      /\ c.senders = n /\ c.takers = w.chan.takers
  BY <1>1, <1>5 DEF Worlds, Chans
<1>7. u = [x EXCEPT !.status[o] = "over", !.live = @ \ {o}]
  BY <1>1 DEF Worlds, n
<1> HIDE DEF l, c, x, X, Y
<1>8. OnlyChan(w, x) /\ x.chan = c
  BY <1>1, <1>6, ChanField DEF x
<1>9. Shift(p, w, X, Y, D, {"recv", "send"})
  BY <1>1 DEF Shift, Y
<1>10. ChanLines(p, x, Y)
  <2>1. ASSUME NEW e \in n.line PROVE Behind(x, Y, e) /\ p[e.op] = "send" /\ e.value = e.op
    BY <1>1, <1>5, <1>8 DEF ChanLines, Behind, OnlyChan, Y, l
  <2>2. ASSUME NEW e \in x.chan.takers.line PROVE Behind(x, Y, e) /\ p[e.op] = "recv" /\ e.value = None
    BY <1>1, <1>6, <1>8 DEF ChanLines, Behind, OnlyChan, Y
  <2> QED
    BY <1>1, <1>5, <1>6, <1>8, <2>1, <2>2 DEF ChanLines
<1>11. AllIn(p, w, Y, {"send"}, x.chan.senders)
  <2> SUFFICES ASSUME NEW q \in Op \ Y, w.status[q] = "waiting", p[q] = "send"
               PROVE  \E e \in n.line : e.op = q
    BY <1>6, <1>8 DEF AllIn, IsIn
  <2>1. PICK e \in l.line : e.op = q
    BY <1>1 DEF WaitersOK, HasLine, IsIn, l
  <2> QED
    BY <1>5, <2>1 DEF Y
<1>12. AllIn(p, w, Y, {"recv"}, x.chan.takers)
  BY <1>1, <1>6, <1>8 DEF AllIn, WaitersOK, HasLine
<1>13. PlacesOK(p, x, Y)
  <2>1. Y \subseteq PutOps(p)
    BY DEF PutOps, Puts, Y
  <2>2. \A v : InEntries(l.line, v) <=> InEntries(n.line, v) \/ v = o
    BY <1>3, <1>4, <1>5 DEF InEntries, IsIn
  <2>3. ~InEntries(n.line, o)
    BY <1>4, <1>5 DEF InEntries
  <2>4. Moves(p, w, x, X, Y)
    BY <1>1, <1>6, <1>8, <2>2, <2>3 DEF Moves, Placed, One, OnlyChan, Y, l
  <2>5. OnceE(p, x.chan.senders.line)
    BY <1>1, <1>5, <1>6, <1>8 DEF PlacesOK, OnceE, l
  <2>6. OnceI(x.chan.items) /\ \A i \in 1..Len(x.chan.items) : x.chan.items[i] \in PutOps(p)
    BY <1>1, <1>6, <1>8 DEF PlacesOK
  <2> QED
    BY <1>1, <1>8, <2>1, <2>4, <2>5, <2>6, ChanPlaces
<1>14. ChanHeld(x)
  BY <1>1, <1>5, <1>6, <1>8 DEF ChanHeld, Waits, l
<1>15. Sound(p, x, Y, Y, D, G) /\ SameSem(p, w, x)
  BY <1>1, <1>8, <1>9, <1>10, <1>11, <1>12, <1>13, <1>14, ChanChange
<1>16. NoCleanup(x, o)
  BY <1>1, <1>8 DEF CleanupsOK, NoCleanup, OnlyChan
<1>17. Sound(p, x, {o}, Y, D, G) /\ Y = {o}
  BY <1>15 DEF Y
<1>18. Sound(p, u, {}, {}, D, G) /\ SameSem(p, x, u) /\ GivenUp(x, u, o)
  BY <1>7, <1>16, <1>17, OutOf
<1> QED
  BY <1>8, <1>15, <1>18 DEF SameSem, GivenUp, OnlyChan

OutOfLine(w, u, o, k) == u = LeaveLine([w EXCEPT !.status[o] = "over", !.live = @ \ {o}], k)

LEMMA GiveUpAcquirer ==
  ASSUME NEW p \in [Op -> Calls], NEW w, NEW D, NEW G, NEW o \in D, o \in Op, Sound(p, w, {}, {}, D, G),
         w.status[o] = "waiting", p[o] \in Acquires, Balanced(p, w), NEW k, k = w.number[o],
         NEW u, OutOfLine(w, u, o, k)
  PROVE  Sound(p, u, {}, {}, D, G) /\ Balanced(p, u) /\ u.status[o] = "over"
<1> DEFINE l == w.sem.line
           n == Leave(k, l)
           m == [w.sem EXCEPT !.line = n]
           x == [w EXCEPT !.sem = m]
           y == [x EXCEPT !.status[o] = "over", !.live = @ \ {o}]
           b == w.sem.permits
           X == {}
           Y == {o}
<1>1. w \in Worlds /\ SemLine(p, w, X) /\ WaitersOK(p, w, X) /\ CleanupsOK(w, X, D, G)
      /\ LiveOK(p, w, X) /\ Sound(p, w, X, X, D, G) /\ X = {} /\ X \in SUBSET Op
  BY DEF Sound
<1>2. l \in Line /\ LineOK(l) /\ b \in Nat
  BY <1>1, WorldIs DEF SemLine
<1>3. IsIn(l, o)
  BY <1>1 DEF WaitersOK, HasLine
<1>4. \A e \in l.line : e.op = o => e.num = k
  BY <1>1 DEF SemLine, Behind
<1>5. n \in Line /\ LineOK(n) /\ \A e : e \in n.line <=> e \in l.line /\ e.op # o
  <2> HIDE DEF l
  <2> QED
    BY <1>2, <1>3, <1>4, LeaveIs
<1> HIDE DEF n
<1>6. m \in Sems /\ m.permits = b /\ m.line = n
  BY <1>1, <1>5 DEF Worlds, Sems
<1>7. u = Settle(y, b, n)
  <2> DEFINE v == [w EXCEPT !.status[o] = "over", !.live = @ \ {o}]
  <2>1. v.sem = w.sem
    BY <1>1 DEF Worlds
  <2>2. y = [v EXCEPT !.sem = m]
    BY <1>1 DEF Worlds
  <2>3. \A s : [y EXCEPT !.sem = s] = [v EXCEPT !.sem = s]
    <3> HIDE DEF y, m, v
    <3>1. \A s : [v EXCEPT !.sem = s] = [[v EXCEPT !.sem = m] EXCEPT !.sem = s]
      BY DEF v, Worlds
    <3> QED
      BY <2>2, <3>1
  <2>4. u = Settle(v, b, n)
    BY <2>1 DEF OutOfLine, LeaveLine, n
  <2> HIDE DEF v, y
  <2> QED
    BY <2>3, <2>4 DEF Settle
<1> HIDE DEF l, m, x, y, b, X, Y
<1>8. OnlySem(w, x) /\ x.sem = m
  BY <1>1, <1>6, SemField DEF x
<1>9. Shift(p, w, X, Y, D, Acquires)
  BY <1>1 DEF Shift, Y
<1>10. SemLine(p, x, Y)
  <2>1. ASSUME NEW e \in n.line PROVE Behind(x, Y, e) /\ p[e.op] \in Acquires /\ e.value = None
    BY <1>1, <1>5, <1>8 DEF SemLine, Behind, OnlySem, Y, l
  <2> QED
    BY <1>5, <1>6, <1>8, <2>1 DEF SemLine
<1>11. AllIn(p, w, Y, Acquires, x.sem.line)
  <2> SUFFICES ASSUME NEW q \in Op \ Y, w.status[q] = "waiting", p[q] \in Acquires
               PROVE  \E e \in n.line : e.op = q
    BY <1>6, <1>8 DEF AllIn, IsIn
  <2>1. PICK e \in l.line : e.op = q
    BY <1>1 DEF WaitersOK, HasLine, IsIn, l
  <2> QED
    BY <1>5, <2>1 DEF Y
<1>12. Sound(p, x, Y, X, D, G) /\ SameCounts(p, w, x)
  BY <1>1, <1>8, <1>9, <1>10, <1>11, SemChange DEF SameCounts
<1>13. NoCleanup(x, o)
  BY <1>1, <1>8 DEF CleanupsOK, NoCleanup, OnlySem
<1>14. X = {} /\ o \notin x.live
  BY <1>1, <1>8 DEF LiveOK, OnlySem, Puts, Acquires
<1>15. Sound(p, x, {o}, X, D, G)
  BY <1>12 DEF Y
<1>16. Sound(p, y, {}, {}, D, G) /\ SameSem(p, x, y) /\ GivenUp(x, y, o)
  BY <1>13, <1>14, <1>15, OutOf DEF y
<1>17. Sound(p, y, X, X, D, G) /\ PermitsOK(p, y, b) /\ y.sem.line = n /\ y.status[o] = "over"
  BY <1>1, <1>6, <1>8, <1>12, <1>16 DEF SameSem, SameCounts, PermitsOK, Balanced, GivenUp, b
<1>18. Sound(p, u, X, X, D, G) /\ Balanced(p, u) /\ Settled(y, u)
  BY <1>1, <1>2, <1>7, <1>17, SettleOf
<1> QED
  BY <1>1, <1>17, <1>18 DEF Settled

-----------------------------------------------------------------------------
(* The calls.                                                               *)
Whole(p, w, D, G) == Sound(p, w, {}, {}, D, G) /\ Balanced(p, w)

LEMMA BeginIs ==
  ASSUME NEW w, NEW o
  PROVE  /\ program[o] \in Takes    => Begin(w, o) = TakeOrWait(w, o)
         /\ program[o] = "putMVar"  => Begin(w, o) = PutOrWait(w, o)
         /\ program[o] = "recv"     => Begin(w, o) = Recv(w, o)
         /\ program[o] = "send"     => Begin(w, o) = Send(w, o)
         /\ program[o] \in Acquires => Begin(w, o) = AcquireOrWait(w, o)
<1>1. ASSUME program[o] \in Takes PROVE Begin(w, o) = TakeOrWait(w, o)
  BY <1>1 DEF Begin, Takes, Acquires
<1>2. ASSUME program[o] = "putMVar" PROVE Begin(w, o) = PutOrWait(w, o)
  BY <1>2 DEF Begin, Takes, Acquires
<1>3. ASSUME program[o] = "recv" PROVE Begin(w, o) = Recv(w, o)
  BY <1>3 DEF Begin, Takes, Acquires
<1>4. ASSUME program[o] = "send" PROVE Begin(w, o) = Send(w, o)
  BY <1>4 DEF Begin, Takes, Acquires
<1>5. ASSUME program[o] \in Acquires PROVE Begin(w, o) = AcquireOrWait(w, o)
  BY <1>5 DEF Begin, Takes, Acquires
<1> QED
  BY <1>1, <1>2, <1>3, <1>4, <1>5

LEMMA BeginOf ==
  ASSUME program \in [Op -> Calls], NEW w, NEW D, NEW G, NEW o \in Op, Sound(program, w, {o}, {}, D, G),
         Balanced(program, w), o \notin D, o \notin G, o \notin w.live, program[o] \notin Pinneds,
         NEW u, u = Begin(w, o)
  PROVE  Whole(program, u, D, G)
<1>1. program[o] \in Takes \cup Acquires \cup {"recv", "putMVar", "send"}
  BY DEF Calls, Handoffs, Asyncs
<1>2. CASE program[o] \in Takes
  <2>1. u = TakeOrWait(w, o)
    BY <1>2, BeginIs
  <2>2. Sound(program, u, {}, {}, D, G) /\ SameSem(program, w, u)
    BY <1>2, <2>1, TakeOrWaitOf
  <2> QED
    BY <2>2, SameBalance DEF Whole
<1>3. CASE program[o] = "putMVar"
  <2>1. u = PutOrWait(w, o)
    BY <1>3, BeginIs
  <2>2. Sound(program, u, {}, {}, D, G) /\ SameSem(program, w, u)
    BY <1>3, <2>1, PutOrWaitOf
  <2> QED
    BY <2>2, SameBalance DEF Whole
<1>4. CASE program[o] = "recv"
  <2>1. u = Recv(w, o)
    BY <1>4, BeginIs
  <2>2. Sound(program, u, {}, {}, D, G) /\ SameSem(program, w, u)
    BY <1>4, <2>1, RecvOf
  <2> QED
    BY <2>2, SameBalance DEF Whole
<1>5. CASE program[o] = "send"
  <2>1. u = Send(w, o)
    BY <1>5, BeginIs
  <2>2. Sound(program, u, {}, {}, D, G) /\ SameSem(program, w, u)
    BY <1>5, <2>1, SendOf
  <2> QED
    BY <2>2, SameBalance DEF Whole
<1>6. CASE program[o] \in Acquires
  <2>1. u = AcquireOrWait(w, o)
    BY <1>6, BeginIs
  <2> QED
    BY <1>6, <2>1, AcquireOrWaitOf DEF Whole
<1> QED
  BY <1>1, <1>2, <1>3, <1>4, <1>5, <1>6

LEMMA ActIs ==
  ASSUME NEW w, NEW o
  PROVE  /\ program[o] = "tryTakeMVar" => Act(w, o) = TryTake(w, o)
         /\ program[o] = "tryPutMVar"  => Act(w, o) = TryPut(w, o)
         /\ program[o] = "tryRecv"     =>
              Act(w, o) = [TryRecvNow(w) EXCEPT !.taken[o] = IF w.chan.items = <<>> THEN None ELSE Head(w.chan.items)]
         /\ program[o] = "trySend"     => Act(w, o) = TrySendNow(w, o)
         /\ program[o] = "close"       => Act(w, o) = CloseChan(w)
         /\ program[o] = "releaseN"    => Act(w, o) = ReleaseNow([w EXCEPT !.live = @ \cup {o}], o)
         /\ program[o] = "tryAcquireN" => Act(w, o) = TryAcquire(w, o)
<1>1. ASSUME program[o] = "tryTakeMVar" PROVE Act(w, o) = TryTake(w, o)
  BY <1>1 DEF Act
<1>2. ASSUME program[o] = "tryPutMVar" PROVE Act(w, o) = TryPut(w, o)
  BY <1>2 DEF Act
<1>3. ASSUME program[o] = "tryRecv"
      PROVE  Act(w, o) = [TryRecvNow(w) EXCEPT !.taken[o] = IF w.chan.items = <<>> THEN None ELSE Head(w.chan.items)]
  BY <1>3 DEF Act
<1>4. ASSUME program[o] = "trySend" PROVE Act(w, o) = TrySendNow(w, o)
  BY <1>4 DEF Act
<1>5. ASSUME program[o] = "close" PROVE Act(w, o) = CloseChan(w)
  BY <1>5 DEF Act
<1>6. ASSUME program[o] = "releaseN" PROVE Act(w, o) = ReleaseNow([w EXCEPT !.live = @ \cup {o}], o)
  BY <1>6 DEF Act
<1>7. ASSUME program[o] = "tryAcquireN" PROVE Act(w, o) = TryAcquire(w, o)
  BY <1>7 DEF Act
<1> QED
  BY <1>1, <1>2, <1>3, <1>4, <1>5, <1>6, <1>7

LEMMA ActOf ==
  ASSUME program \in [Op -> Calls], NEW w, NEW D, NEW G, NEW o \in Op, Whole(program, w, D, G),
         program[o] \in Pinneds, w.status[o] = "over", w.taken[o] = None, o \notin w.live,
         NEW u, u = Act(w, o)
  PROVE  Whole(program, u, D, G)
<1>0. Sound(program, w, {}, {}, D, G) /\ Balanced(program, w)
  BY DEF Whole
<1>1. CASE program[o] = "tryTakeMVar"
  <2>1. u = TryTake(w, o)
    BY <1>1, ActIs
  <2>2. Sound(program, u, {}, {}, D, G) /\ SameSem(program, w, u)
    BY <1>0, <1>1, <2>1, TryTakeOf
  <2> QED
    BY <1>0, <2>2, SameBalance DEF Whole
<1>2. CASE program[o] = "tryPutMVar"
  <2>1. u = TryPut(w, o)
    BY <1>2, ActIs
  <2>2. Sound(program, u, {}, {}, D, G) /\ SameSem(program, w, u)
    BY <1>0, <1>2, <2>1, TryPutOf
  <2> QED
    BY <1>0, <2>2, SameBalance DEF Whole
<1>3. CASE program[o] = "tryRecv"
  <2>1. u = [TryRecvNow(w) EXCEPT !.taken[o] = IF w.chan.items = <<>> THEN None ELSE Head(w.chan.items)]
    BY <1>3, ActIs
  <2>2. Sound(program, u, {}, {}, D, G) /\ SameSem(program, w, u)
    BY <1>0, <1>3, <2>1, TryRecvOf
  <2> QED
    BY <1>0, <2>2, SameBalance DEF Whole
<1>4. CASE program[o] = "trySend"
  <2> DEFINE Z == {}
  <2>1. u = TrySendNow(w, o)
    BY <1>4, ActIs
  <2>2. Z \in SUBSET Op /\ Sound(program, w, Z, Z, D, G) /\ o \notin Z /\ w.status[o] # "idle" /\ Z = {}
    BY <1>0
  <2> HIDE DEF Z
  <2>3. Sound(program, u, Z, Z, D, G) /\ SameSem(program, w, u)
    BY <1>4, <2>1, <2>2, TrySendNowOf
  <2> QED
    BY <1>0, <2>2, <2>3, SameBalance DEF Whole
<1>5. CASE program[o] = "close"
  <2>1. u = CloseChan(w)
    BY <1>5, ActIs
  <2>2. Sound(program, u, {}, {}, D, G) /\ SameSem(program, w, u)
    BY <1>0, <2>1, CloseChanOf
  <2> QED
    BY <1>0, <2>2, SameBalance DEF Whole
<1>6. CASE program[o] = "releaseN"
  <2>1. u = ReleaseNow([w EXCEPT !.live = @ \cup {o}], o)
    BY <1>6, ActIs
  <2> QED
    BY <1>0, <1>6, <2>1, ReleaseActOf DEF Whole
<1>7. CASE program[o] = "tryAcquireN"
  <2>1. u = TryAcquire(w, o)
    BY <1>7, ActIs
  <2> QED
    BY <1>0, <1>7, <2>1, TryAcquireOf DEF Whole
<1> QED
  BY <1>1, <1>2, <1>3, <1>4, <1>5, <1>6, <1>7 DEF Pinneds

(* What was on its way to o, or with it, is given back.                     *)
Returns(p, w, o, v) ==
  /\ p[o] \in Takes => v \in PutOps(p)
  /\ p[o] = "recv" => v \in PutOps(p) \cup {None}
  /\ p[o] \notin Takes \cup {"recv"} => v \notin PutOps(p)
  /\ p[o] \in Acquires => PermitsOK(p, w, w.sem.permits + Need[o])
  /\ p[o] \notin Acquires => Balanced(p, w)

LEMMA UndoIs ==
  ASSUME NEW w, NEW o, NEW v
  PROVE  /\ program[o] \in Takes    => Undo(w, o, v) = PutAnyhow(w, v)
         /\ program[o] = "recv"     => Undo(w, o, v) = IF v = None THEN w ELSE GiveBack(w, v)
         /\ program[o] \in Acquires => Undo(w, o, v) = ReleaseNow(w, o)
         /\ program[o] \notin Takes \cup {"recv"} \cup Acquires => Undo(w, o, v) = w
<1>1. ASSUME program[o] \in Takes PROVE Undo(w, o, v) = PutAnyhow(w, v)
  BY <1>1 DEF Undo, Takes, Acquires
<1>2. ASSUME program[o] = "recv" PROVE Undo(w, o, v) = IF v = None THEN w ELSE GiveBack(w, v)
  BY <1>2 DEF Undo, Takes, Acquires
<1>3. ASSUME program[o] \in Acquires PROVE Undo(w, o, v) = ReleaseNow(w, o)
  BY <1>3 DEF Undo, Takes, Acquires
<1>4. ASSUME program[o] \notin Takes \cup {"recv"} \cup Acquires PROVE Undo(w, o, v) = w
  BY <1>4 DEF Undo
<1> QED
  BY <1>1, <1>2, <1>3, <1>4

Undone(w, u, o, D, G) == Whole(program, u, D, G) /\ u.status[o] = "over" /\ Longer(w, u)

LEMMA UndoOf ==
  ASSUME program \in [Op -> Calls], NEW w, NEW D, NEW G, NEW o \in Op, NEW v,
         Sound(program, w, {}, {v} \cap PutOps(program), D, G), w.status[o] = "over",
         Returns(program, w, o, v), NEW u, u = Undo(w, o, v)
  PROVE  Undone(w, u, o, D, G)
<1> DEFINE Z == {}
           J == {v} \cap PutOps(program)
<1>1. Z \in SUBSET Op /\ Sound(program, w, Z, J, D, G) /\ Z = {}
  OBVIOUS
<1>2. /\ v \in PutOps(program) => v \in J /\ J \ {v} = Z
      /\ v \notin PutOps(program) => J = Z
  OBVIOUS
<1>3. None \notin PutOps(program)
  BY NeedIs DEF PutOps
<1> HIDE DEF Z, J
<1>4. CASE program[o] \in Takes
  <2>1. u = PutAnyhow(w, v)
    BY <1>4, UndoIs
  <2>2. v \in J /\ J \ {v} = Z
    BY <1>2, <1>4 DEF Returns
  <2>3. Sound(program, u, Z, J \ {v}, D, G) /\ Aside(program, w, u)
    BY <1>1, <2>1, <2>2, PutAnyhowOf
  <2>4. Balanced(program, w) /\ SameSem(program, w, u) /\ u.status[o] = "over" /\ Longer(w, u)
    BY <1>4, <2>3 DEF Returns, Aside, Takes, Acquires
  <2> QED
    BY <1>1, <2>2, <2>3, <2>4, SameBalance DEF Undone, Whole
<1>5. CASE program[o] = "recv"
  <2>1. Balanced(program, w)
    BY <1>5 DEF Returns, Acquires
  <2>2. CASE v = None
    <3>1. u = w
      BY <1>5, <2>2, UndoIs
    <3> QED
      BY <1>1, <1>2, <1>3, <2>1, <2>2, <3>1 DEF Undone, Whole, Longer
  <2>3. CASE v # None
    <3>1. u = GiveBack(w, v)
      BY <1>5, <2>3, UndoIs
    <3>2. v \in J /\ J \ {v} = Z
      BY <1>2, <1>5, <2>3 DEF Returns
    <3>3. Sound(program, u, Z, J \ {v}, D, G) /\ Aside(program, w, u)
      BY <1>1, <3>1, <3>2, GiveBackOf
    <3>4. SameSem(program, w, u) /\ u.status[o] = "over" /\ Longer(w, u)
      BY <3>3 DEF Aside
    <3> QED
      BY <1>1, <2>1, <3>2, <3>3, <3>4, SameBalance DEF Undone, Whole
  <2> QED
    BY <2>2, <2>3
<1>6. CASE program[o] \in Acquires
  <2>1. u = ReleaseNow(w, o)
    BY <1>6, UndoIs
  <2>2. J = Z
    BY <1>2, <1>6 DEF Returns, Takes, Acquires
  <2>3. PermitsOK(program, w, w.sem.permits + Need[o])
    BY <1>6 DEF Returns
  <2>4. Sound(program, u, Z, Z, D, G) /\ Balanced(program, u) /\ Settled(w, u)
    BY <1>1, <2>1, <2>2, <2>3, ReleaseNowOf
  <2> QED
    BY <1>1, <2>4 DEF Undone, Whole, Settled
<1>7. CASE program[o] \notin Takes \cup {"recv"} \cup Acquires
  <2>1. u = w
    BY <1>7, UndoIs
  <2>2. J = Z /\ Balanced(program, w)
    BY <1>2, <1>7 DEF Returns
  <2> QED
    BY <1>1, <2>1, <2>2 DEF Undone, Whole, Longer
<1> QED
  BY <1>4, <1>5, <1>6, <1>7

(* Permits that are not held any more are to be released.                   *)
LEMMA PermitsGiven ==
  ASSUME NEW p, NEW w \in Worlds, NEW u \in Worlds, NEW o \in Op, Balanced(p, w), u.sem = w.sem,
         o \notin GrantedIn(p, u), GrantedIn(p, w) = GrantedIn(p, u) \cup {o}, AddedIn(p, u) = AddedIn(p, w)
  PROVE  PermitsOK(p, u, u.sem.permits + Need[o])
<1> DEFINE O == {o}
<1>1. GrantedIn(p, u) \in SUBSET Op /\ AddedIn(p, w) \in SUBSET Op
  BY CountsIn
<1>2. Needed(GrantedIn(p, u)) \in Nat /\ Needed(AddedIn(p, w)) \in Nat
  BY <1>1, NeededFinite
<1>3. O \in SUBSET Op /\ GrantedIn(p, u) \cap O = {} /\ Needed(O) = Need[o] /\ GrantedIn(p, w) = GrantedIn(p, u) \cup O
  BY NeededOne
<1> HIDE DEF O
<1>4. Needed(GrantedIn(p, w)) = Needed(GrantedIn(p, u)) + Need[o]
  BY <1>1, <1>3, NeededUnion
<1>5. Need[o] \in Nat /\ w.sem.permits \in Nat /\ Permits \in Nat
  BY WorldIs, NeedIs
<1> QED
  BY <1>2, <1>4, <1>5 DEF PermitsOK, Balanced

LEMMA ReleaseOf ==
  ASSUME program \in [Op -> Calls], NEW w, NEW D, NEW G, NEW o \in D, o \in Op, Whole(program, w, D, G),
         w.status[o] = "inside", NEW u, u = Release(w, o)
  PROVE  Whole(program, u, D, G) /\ u.status[o] = "over"
<1> DEFINE v == w.taken[o]
           x == [w EXCEPT !.status[o] = "over", !.taken[o] = None]
<1>1. Sound(program, w, {}, {}, D, G) /\ Balanced(program, w) /\ w \in Worlds
  BY DEF Whole, Sound
<1>2. u = Undo(x, o, v) /\ v = w.taken[o] /\ Leaves(w, x, o)
  BY DEF Release, Leaves
<1> HIDE DEF v, x
<1>3. /\ Sound(program, x, {}, {v} \cap PutOps(program), D, G) /\ BodyLeft(program, w, x, o)
  BY <1>1, <1>2, LeaveBody
<1>6. program[o] \in {"modifyMVar", "withPermits"} /\ (program[o] \in Takes => v \in PutOps(program))
  BY <1>2, <1>3 DEF BodyLeft
<1>4. x \in Worlds /\ x.status[o] = "over" /\ x.sem = w.sem
  BY <1>3 DEF Sound, BodyLeft
<1>5. Returns(program, x, o, v)
  <2>1. program[o] # "recv" /\ (program[o] \in Takes \/ program[o] \in Acquires)
    BY <1>6 DEF Takes, Acquires
  <2>2. CASE program[o] \in Acquires
    <3>1. program[o] \notin Takes
      BY <2>2 DEF Takes, Acquires
    <3>2. PermitsOK(program, x, x.sem.permits + Need[o])
      BY <1>1, <1>3, <1>4, <2>2, PermitsGiven DEF BodyLeft
    <3>3. v \notin PutOps(program)
      <4>1. TakenOK(program, w, {}) /\ w.taken[o] # None
        BY <1>1 DEF Sound, TakenOK
      <4>2. v = o
        BY <3>1, <2>2, <4>1 DEF TakenOK, v, Acquires
      <4> QED
        BY <2>2, <4>2 DEF PutOps, Puts, Acquires
    <3> QED
      BY <2>1, <2>2, <3>1, <3>2, <3>3 DEF Returns
  <2>3. CASE program[o] \notin Acquires
    <3>1. Balanced(program, x)
      <4>1. SemHeld(x)
        BY <1>1, <1>4 DEF Balanced, SemHeld
      <4>2. PermitsOK(program, x, x.sem.permits)
        BY <1>1, <1>3, <1>4, <2>3 DEF Balanced, PermitsOK, BodyLeft
      <4> QED
        BY <4>1, <4>2 DEF Balanced
    <3> QED
      BY <1>6, <2>1, <2>3, <3>1 DEF Returns
  <2> QED
    BY <2>2, <2>3
<1>7. Undone(x, u, o, D, G)
  BY <1>2, <1>3, <1>4, <1>5, UndoOf
<1> QED
  BY <1>7 DEF Undone

LEMMA GiveUpOf ==
  ASSUME program \in [Op -> Calls], NEW w, NEW D, NEW G, NEW o \in D, o \in Op, Whole(program, w, D, G),
         w.status[o] = "waiting", NEW u, u = GiveUp(w, o)
  PROVE  Whole(program, u, D, G) /\ u.status[o] = "over"
<1> DEFINE out == [w EXCEPT !.status[o] = "over", !.live = @ \ {o}]
           k   == w.number[o]
<1>1. Sound(program, w, {}, {}, D, G) /\ Balanced(program, w) /\ w \in Worlds /\ WaitersOK(program, w, {})
  BY DEF Whole, Sound
<1>2. program[o] \in Takes \cup Acquires \cup {"recv", "putMVar", "send"}
  BY <1>1 DEF WaitersOK, HasLine, Handoffs, Asyncs
<1>3. out.mvar = w.mvar
  BY <1>1 DEF Worlds
<1>4. CASE program[o] \in Takes \cup {"putMVar"}
  <2> DEFINE y == [w EXCEPT !.status[o] = "over", !.live = @ \ {o}, !.mvar.line = Leave(k, @)]
  <2>2. y = [out EXCEPT !.mvar.line = Leave(k, @)]
    BY <1>1 DEF Worlds
  <2>4. OutOfMVar(w, y, o, k) /\ k = w.number[o]
    BY DEF OutOfMVar
  <2> HIDE DEF y, out, k
  <2>1. Sound(program, y, {}, {}, D, G) /\ SameSem(program, w, y) /\ GivenUp(w, y, o)
        /\ (program[o] \in Takes <=> w.mvar.value = None)
    BY <1>1, <1>4, <2>4, GiveUpMVar
  <2>3. u = y
    <3>1. CASE program[o] \in Takes
      <4>1. u = LeaveTakers(out, k)
        BY <3>1 DEF GiveUp, out, k, Takes, Acquires
      <4> QED
        BY <1>3, <2>1, <2>2, <3>1, <4>1 DEF LeaveTakers
    <3>2. CASE program[o] = "putMVar"
      <4>1. u = LeavePutters(out, k) /\ program[o] \notin Takes
        BY <3>2 DEF GiveUp, out, k, Takes, Acquires
      <4> QED
        BY <1>3, <2>1, <2>2, <4>1 DEF LeavePutters
    <3> QED
      BY <1>4, <3>1, <3>2
  <2> QED
    BY <1>1, <2>1, <2>3, SameBalance DEF Whole, GivenUp
<1>5. CASE program[o] = "recv"
  <2> DEFINE y == [w EXCEPT !.status[o] = "over", !.live = @ \ {o}, !.chan.takers = Leave(k, @)]
  <2>1. Sound(program, y, {}, {}, D, G) /\ SameSem(program, w, y) /\ GivenUp(w, y, o)
    BY <1>1, <1>5, GiveUpTaker
  <2>2. y = [out EXCEPT !.chan.takers = Leave(k, @)]
    BY <1>1 DEF Worlds
  <2> HIDE DEF y
  <2>3. u = y
    BY <1>5, <2>2 DEF GiveUp, Takes, Acquires
  <2> QED
    BY <1>1, <2>1, <2>3, SameBalance DEF Whole, GivenUp
<1>6. CASE program[o] = "send"
  <2> DEFINE y == [w EXCEPT !.status[o] = "over", !.live = @ \ {o}, !.chan.senders = Leave(k, @)]
  <2>1. Sound(program, y, {}, {}, D, G) /\ SameSem(program, w, y) /\ GivenUp(w, y, o)
    BY <1>1, <1>6, GiveUpSender
  <2>2. y = [out EXCEPT !.chan.senders = Leave(k, @)]
    BY <1>1 DEF Worlds
  <2> HIDE DEF y
  <2>3. u = y
    BY <1>6, <2>2 DEF GiveUp, Takes, Acquires
  <2> QED
    BY <1>1, <2>1, <2>3, SameBalance DEF Whole, GivenUp
<1>7. CASE program[o] \in Acquires
  <2>1. OutOfLine(w, u, o, k) /\ k = w.number[o]
    BY <1>7 DEF GiveUp, OutOfLine, Takes, Acquires
  <2> HIDE DEF out, k
  <2>2. Sound(program, u, {}, {}, D, G) /\ Balanced(program, u) /\ u.status[o] = "over"
    BY <1>1, <1>7, <2>1, GiveUpAcquirer
  <2> QED
    BY <2>2 DEF Whole
<1> QED
  BY <1>2, <1>4, <1>5, <1>6, <1>7

LEMMA CleanupOf ==
  ASSUME program \in [Op -> Calls], NEW w, NEW D, NEW G, NEW o \in D, o \in Op, Whole(program, w, D, G),
         NEW E \in SUBSET D, D \ {o} \subseteq E, NEW u, u = Cleanup(w, o)
  PROVE  Whole(program, u, E, G)
<1>1. Whole(program, u, D, G) /\ u.status[o] \notin {"waiting", "inside"}
  <2>1. CASE w.status[o] = "waiting"
    <3>1. u = GiveUp(w, o)
      BY <2>1 DEF Cleanup
    <3> QED
      BY <2>1, <3>1, GiveUpOf
  <2>2. CASE w.status[o] = "inside"
    <3>1. u = Release(w, o)
      BY <2>2 DEF Cleanup
    <3> QED
      BY <2>2, <3>1, ReleaseOf
  <2>3. CASE w.status[o] \notin {"waiting", "inside"}
    <3>1. u = w
      BY <2>3 DEF Cleanup
    <3> QED
      BY <2>3, <3>1
  <2> QED
    BY <2>1, <2>2, <2>3
<1>2. \A q \in D \ E : u.status[q] \notin {"waiting", "inside"}
  BY <1>1
<1>3. Sound(program, u, {}, {}, D, G) /\ Balanced(program, u)
  BY <1>1 DEF Whole
<1>4. Sound(program, u, {}, {}, E, G)
  BY <1>2, <1>3, CleanupRun
<1> QED
  BY <1>3, <1>4 DEF Whole

(* The step that was taken out of the queue is dropped.                     *)
LEMMA PoppedOver ==
  ASSUME NEW p \in [Op -> Calls], NEW w, NEW x, NEW s, NEW H, NEW D, NEW G, Sound(p, x, {s.op}, H, D, G),
         Popped(p, w, x, s), NEW u, u = [x EXCEPT !.status[s.op] = "over"]
  PROVE  Sound(p, u, {}, H, D, G) /\ OnlyStatus(x, u, s.op, "over") /\ SameSem(p, x, u)
<1> DEFINE X == {s.op}
<1>1. s.op \in Op /\ NoCleanup(x, s.op)
  BY DEF Popped, StepSet
<1>2. X \in SUBSET Op /\ s.op \in X /\ X \ {s.op} = {} /\ Sound(p, x, X, H, D, G)
  BY <1>1
<1> HIDE DEF X
<1>3. Sound(p, u, X \ {s.op}, H, D, G) /\ OnlyStatus(x, u, s.op, "over") /\ SameSem(p, x, u)
  BY <1>1, <1>2, OverOf
<1> QED
  BY <1>2, <1>3

LessOne(w, u) == \A n \in Nat : n + 1 <= Len(w.runQ) => n <= Len(u.runQ)

LEMMA DropOf ==
  ASSUME program \in [Op -> Calls], NEW w, NEW D, NEW G, Whole(program, w, D, G), w.runQ # <<>>,
         NEW u, u = Drop([w EXCEPT !.runQ = Tail(@)], Head(w.runQ))
  PROVE  Whole(program, u, D, G) /\ LessOne(w, u)
<1> DEFINE s == Head(w.runQ)
           x == [w EXCEPT !.runQ = Tail(@)]
           y == [x EXCEPT !.status[s.op] = "over"]
           J == {s.value} \cap PutOps(program)
<1>1. Sound(program, w, {}, {}, D, G) /\ Balanced(program, w)
  BY DEF Whole
<1>2. u = Drop(x, s)
  OBVIOUS
<1>11. LessOne(w, x)
  <2>1. w.runQ \in Seq(StepSet)
    BY <1>1, WorldIs DEF Sound
  <2>2. Len(Tail(w.runQ)) = Len(w.runQ) - 1 /\ Len(w.runQ) \in Nat
    BY <2>1
  <2>3. x.runQ = Tail(w.runQ)
    BY <1>1 DEF Sound, Worlds
  <2> QED
    BY <2>2, <2>3 DEF LessOne
<1>3. Sound(program, x, {s.op}, J, D, G) /\ Popped(program, w, x, s)
  BY <1>1, PopOf
<1> HIDE DEF x, s, J
<1>4. Sound(program, y, {}, J, D, G) /\ OnlyStatus(x, y, s.op, "over") /\ SameSem(program, x, y)
  BY <1>3, PoppedOver
<1> HIDE DEF y
<1>12. LessOne(w, y)
  BY <1>4, <1>11 DEF LessOne, OnlyStatus
<1>5. /\ s.op \in Op /\ s.value \in Maybe /\ s.pinned \in BOOLEAN /\ StepOK(program, s)
      /\ x.sem = w.sem /\ AddedIn(program, x) = AddedIn(program, w)
      /\ program[s.op] \in Acquires =>
           GrantedIn(program, w) = GrantedIn(program, x) \cup {s.op} /\ s.op \notin GrantedIn(program, x)
      /\ program[s.op] \notin Acquires => GrantedIn(program, w) = GrantedIn(program, x)
  BY <1>3 DEF Popped, StepSet
<1>6. y \in Worlds /\ w \in Worlds /\ y.status[s.op] = "over"
  BY <1>1, <1>4 DEF Sound, OnlyStatus
<1>7. ASSUME program[s.op] \notin Acquires PROVE Balanced(program, y)
  <2>1. SameSem(program, w, y)
    BY <1>4, <1>5, <1>7 DEF SameSem
  <2> QED
    BY <1>1, <2>1, SameBalance
<1>8. Returns(program, y, s.op, s.value)
  <2>1. program[s.op] \in Takes => s.value \in PutOps(program)
    BY <1>5 DEF StepOK
  <2>2. program[s.op] = "recv" => s.value \in PutOps(program) \cup {None}
    BY <1>5 DEF StepOK
  <2>3. program[s.op] \notin Takes \cup {"recv"} => s.value \notin PutOps(program)
    <3>1. CASE program[s.op] \in Acquires
      <4>1. s.value = s.op
        BY <1>5, <3>1 DEF StepOK
      <4> QED
        BY <3>1, <4>1 DEF PutOps, Puts, Acquires
    <3>2. CASE program[s.op] \in Asyncs \cup Pinneds
      <4>1. s.value = None
        BY <1>5, <3>2 DEF StepOK
      <4> QED
        BY <4>1, NeedIs DEF PutOps
    <3>3. program[s.op] \in Calls
      BY <1>5
    <3> QED
      BY <3>1, <3>2, <3>3 DEF Calls, Handoffs
  <2>4. ASSUME program[s.op] \in Acquires PROVE PermitsOK(program, y, y.sem.permits + Need[s.op])
    <3>1. y.sem = w.sem /\ s.op \notin GrantedIn(program, y) /\ AddedIn(program, y) = AddedIn(program, w)
          /\ GrantedIn(program, w) = GrantedIn(program, y) \cup {s.op}
      BY <1>4, <1>5, <2>4 DEF SameSem
    <3> QED
      BY <1>1, <1>5, <1>6, <3>1, PermitsGiven
  <2> QED
    BY <1>7, <2>1, <2>2, <2>3, <2>4 DEF Returns
<1>9. CASE s.pinned
  <2>1. u = y
    BY <1>2, <1>9 DEF Drop, y
  <2>2. program[s.op] \in Pinneds /\ program[s.op] \notin Acquires
    BY <1>5, <1>9 DEF StepOK, Pinneds, Acquires
  <2>3. J = {}
    <3>1. s.value = None
      BY <1>5, <2>2 DEF StepOK
    <3> QED
      BY <3>1, NeedIs DEF J, PutOps
  <2> QED
    BY <1>4, <1>7, <1>12, <2>1, <2>2, <2>3 DEF Whole
<1>10. CASE ~s.pinned
  <2>1. u = Undo(y, s.op, s.value)
    BY <1>2, <1>10 DEF Drop, y
  <2>2. Sound(program, y, {}, {s.value} \cap PutOps(program), D, G)
    BY <1>4 DEF J
  <2>4. s.op \in Op /\ y.status[s.op] = "over"
    BY <1>5, <1>6
  <2>3. Undone(y, u, s.op, D, G)
    BY <1>8, <2>1, <2>2, <2>4, UndoOf
  <2> QED
    BY <1>12, <2>3 DEF Undone, LessOne, Longer
<1> QED
  BY <1>5, <1>9, <1>10

(* It is run.                                                               *)
Acted(w, u, o) == u = Act([[w EXCEPT !.runQ = Tail(@)] EXCEPT !.status[o] = "over"], o)

LEMMA ActStepOf ==
  ASSUME program \in [Op -> Calls], NEW w, NEW D, NEW G, Whole(program, w, D, G), w.runQ # <<>>,
         NEW s, s = Head(w.runQ), s.pinned, NEW u, Acted(w, u, s.op)
  PROVE  Whole(program, u, D, G)
<1> DEFINE x == [w EXCEPT !.runQ = Tail(@)]
           y == [x EXCEPT !.status[s.op] = "over"]
           J == {s.value} \cap PutOps(program)
<1>1. Sound(program, w, {}, {}, D, G) /\ Balanced(program, w)
  BY DEF Whole
<1>2. u = Act(y, s.op)
  BY DEF Acted
<1>3. Sound(program, x, {s.op}, J, D, G) /\ Popped(program, w, x, s)
  BY <1>1, PopOf
<1> HIDE DEF x, J
<1>4. Sound(program, y, {}, J, D, G) /\ OnlyStatus(x, y, s.op, "over") /\ SameSem(program, x, y)
  BY <1>3, PoppedOver
<1> HIDE DEF y
<1>5. s.op \in Op /\ StepOK(program, s)
  BY <1>3 DEF Popped, StepSet
<1>6. program[s.op] \in Pinneds /\ program[s.op] \notin Acquires
  BY <1>5 DEF StepOK, Pinneds, Acquires
<1>7. J = {}
  <2>1. s.value = None
    BY <1>5, <1>6 DEF StepOK
  <2> QED
    BY <2>1, NeedIs DEF J, PutOps
<1>8. SameSem(program, w, y)
  BY <1>3, <1>4, <1>6 DEF Popped, SameSem
<1>9. Whole(program, y, D, G)
  BY <1>1, <1>4, <1>7, <1>8, SameBalance DEF Whole
<1>10. y.status[s.op] = "over" /\ y.taken[s.op] = None /\ s.op \notin y.live
  BY <1>3, <1>4, <1>6 DEF Popped, OnlyStatus
<1> QED
  BY <1>2, <1>5, <1>6, <1>9, <1>10, ActOf

LEMMA PermitsGained ==
  ASSUME NEW p \in [Op -> Calls], NEW w, NEW X \in SUBSET Op, NEW H, NEW D, NEW G, Sound(p, w, X, H, D, G),
         NEW o \in Op \ X, w.taken[o] = None, w.status[o] \in {"inside", "over"}, p[o] \in Acquires,
         NEW u, u = [w EXCEPT !.taken[o] = o]
  PROVE  Sound(p, u, X, H \ {o}, D, G) /\ WentOn(p, w, u, o, o)
<1>1. o \in Maybe
  BY DEF Maybe
<1> QED
  BY <1>1, TakenGained

(* It goes on with what its resumption carries.                             *)
GoesOn(x, u, o, v)   == u = [x EXCEPT !.taken[o] = v, !.status[o] = "over"]
GoesInto(x, u, o, v) == u = Register([x EXCEPT !.taken[o] = v, !.status[o] = "inside"], o)

LEMMA GoneOnOf ==
  ASSUME program \in [Op -> Calls], NEW w, NEW D, NEW G, Whole(program, w, D, G), w.runQ # <<>>,
         NEW s, s = Head(w.runQ), ~s.pinned, NEW u, GoesOn([w EXCEPT !.runQ = Tail(@)], u, s.op, s.value)
  PROVE  Whole(program, u, D, G) /\ u.status[s.op] = "over" /\ u.taken[s.op] = s.value /\ s.op \in Op
         /\ StepOK(program, s)
<1> DEFINE x == [w EXCEPT !.runQ = Tail(@)]
           y == [x EXCEPT !.status[s.op] = "over"]
           o == s.op
           v == s.value
           J == {v} \cap PutOps(program)
           Z == {}
<1>1. Sound(program, w, {}, {}, D, G) /\ Balanced(program, w)
  BY DEF Whole
<1>2. u = [x EXCEPT !.taken[o] = v, !.status[o] = "over"]
  BY DEF GoesOn
<1>3. Sound(program, x, {o}, J, D, G) /\ Popped(program, w, x, s)
  BY <1>1, PopOf
<1> HIDE DEF x, J
<1>4. Sound(program, y, {}, J, D, G) /\ OnlyStatus(x, y, o, "over") /\ SameSem(program, x, y)
  BY <1>3, PoppedOver
<1>5. y = [x EXCEPT !.status[o] = "over"]
  OBVIOUS
<1> HIDE DEF y, Z
<1>6. /\ o \in Op /\ v \in Maybe /\ StepOK(program, s) /\ x.taken[o] = None
      /\ x.sem = w.sem /\ AddedIn(program, x) = AddedIn(program, w)
      /\ program[o] \in Acquires => GrantedIn(program, w) = GrantedIn(program, x) \cup {o}
      /\ program[o] \notin Acquires => GrantedIn(program, w) = GrantedIn(program, x)
  BY <1>3 DEF Popped, StepSet
<1>7. x \in Worlds /\ y \in Worlds /\ y.status[o] = "over" /\ y.taken[o] = None
  BY <1>3, <1>4, <1>6 DEF Sound, OnlyStatus
<1>8. u = [y EXCEPT !.taken[o] = v]
  BY <1>2, <1>5, <1>7 DEF Worlds
<1>9. Sound(program, y, Z, J, D, G) /\ o \in Op \ Z /\ Z \in SUBSET Op /\ Z = {} /\ None \notin PutOps(program)
  BY <1>4, <1>6, NeedIs DEF Z, PutOps
<1>10. /\ y.sem = w.sem /\ AddedIn(program, y) = AddedIn(program, w)
       /\ program[o] \in Acquires => GrantedIn(program, w) = GrantedIn(program, y) \cup {o}
       /\ program[o] \notin Acquires => GrantedIn(program, w) = GrantedIn(program, y)
  BY <1>4, <1>6 DEF SameSem
<1>11. program[o] \notin Pinneds
  BY <1>6 DEF StepOK
<1>15. /\ program[o] \in Takes => v \in PutOps(program)
       /\ program[o] = "recv" => v \in PutOps(program) \cup {None}
       /\ program[o] \in Acquires => v = o
       /\ program[o] \in Asyncs => v = None
  BY <1>6 DEF StepOK
<1>16. s.op = o /\ s.value = v /\ J = {v} \cap PutOps(program)
  BY DEF J
<1> HIDE DEF o, v
<1>12. u.taken[o] = v /\ u.status[o] = "over"
  BY <1>6, <1>7, <1>8 DEF Worlds
<1>13. Sound(program, u, Z, Z, D, G) /\ SameSem(program, w, u)
  <2>1. CASE v = None
    <3>1. u = y
      BY <1>7, <1>8, <2>1 DEF Worlds
    <3>2. J = Z /\ program[o] \notin Acquires
      BY <1>6, <1>9, <1>15, <1>16, <2>1, NeedIs
    <3> QED
      BY <1>9, <1>10, <3>1, <3>2 DEF SameSem
  <2>2. CASE v # None /\ program[o] \in Takes \cup {"recv"}
    <3>1. v \in PutOps(program)
      BY <1>15, <2>2
    <3>2. v \in J /\ J \ {v} = Z
      BY <3>1, <1>16 DEF Z
    <3>5. y.taken[o] = None /\ y.status[o] \in {"inside", "over"} /\ v \in Maybe /\ v \in J
          /\ program[o] \in Takes \cup {"recv", "tryTakeMVar", "tryRecv"}
          /\ Sound(program, y, Z, J, D, G) /\ o \in Op \ Z /\ Z \in SUBSET Op
      BY <1>6, <1>7, <1>9, <2>2, <3>2
    <3>3. Sound(program, u, Z, J \ {v}, D, G) /\ WentOn(program, y, u, o, v)
      BY <1>8, <3>5, TakenGained
    <3>4. v # o /\ program[o] \notin Acquires
      BY <2>2, <3>1 DEF PutOps, Puts, Takes, Acquires
    <3> QED
      BY <1>10, <3>2, <3>3, <3>4 DEF WentOn, SameSem
  <2>3. CASE v # None /\ program[o] \in Acquires
    <3>1. v = o
      BY <1>15, <2>3
    <3>2. J = Z /\ J \ {v} = Z
      BY <1>16, <2>3, <3>1 DEF Z, PutOps, Puts, Acquires
    <3>5. y.taken[o] = None /\ y.status[o] \in {"inside", "over"} /\ o \in Maybe
          /\ program[o] \in Acquires
          /\ Sound(program, y, Z, J, D, G) /\ o \in Op \ Z /\ Z \in SUBSET Op
      BY <1>6, <1>7, <1>9, <2>3, <3>1
    <3>6. u = [y EXCEPT !.taken[o] = o]
      BY <1>8, <3>1
    <3>4. Sound(program, u, Z, J \ {o}, D, G) /\ WentOn(program, y, u, o, o)
      BY <3>5, <3>6, PermitsGained
    <3>3. Sound(program, u, Z, J \ {v}, D, G) /\ WentOn(program, y, u, o, v)
      BY <3>1, <3>4
    <3> QED
      BY <1>10, <2>3, <3>1, <3>2, <3>3 DEF WentOn, SameSem
  <2>4. program[o] \in Asyncs => v = None
    BY <1>15
  <2>5. program[o] \in Takes \cup {"recv"} \cup Acquires \cup Asyncs
    BY <1>6, <1>11 DEF Calls, Handoffs
  <2> QED
    BY <2>1, <2>2, <2>3, <2>4, <2>5
<1>14. Balanced(program, u)
  BY <1>1, <1>13, SameBalance
<1> QED
  BY <1>6, <1>9, <1>12, <1>13, <1>14, <1>16 DEF Whole

LEMMA ContinueOf ==
  ASSUME program \in [Op -> Calls], NEW w, NEW D, NEW G, Whole(program, w, D, G), w.runQ # <<>>,
         NEW s, s = Head(w.runQ), ~s.pinned, s.op \notin D, s.op \notin G,
         NEW u, u = Continue([w EXCEPT !.runQ = Tail(@)], s.op, s.value)
  PROVE  Whole(program, u, D, G)
<1> DEFINE x == [w EXCEPT !.runQ = Tail(@)]
           z == [x EXCEPT !.taken[s.op] = s.value, !.status[s.op] = "over"]
<1>1. GoesOn(x, z, s.op, s.value)
  BY DEF GoesOn
<1>2. x \in Worlds
  BY PopOf DEF Whole, Sound
<1> HIDE DEF z
<1>3. Whole(program, z, D, G) /\ z.status[s.op] = "over" /\ z.taken[s.op] = s.value /\ s.op \in Op
      /\ StepOK(program, s)
  BY ZenonT(30), <1>1, GoneOnOf
<1>4. CASE program[s.op] \notin {"modifyMVar", "withPermits"}
  <2>1. u = z
    BY <1>4 DEF Continue, z
  <2> QED
    BY <1>3, <2>1
<1>5. CASE program[s.op] \in {"modifyMVar", "withPermits"}
  <2>1. u = Register([x EXCEPT !.taken[s.op] = s.value, !.status[s.op] = "inside"], s.op)
    BY <1>5 DEF Continue
  <2>2. [x EXCEPT !.taken[s.op] = s.value, !.status[s.op] = "inside"] = [z EXCEPT !.status[s.op] = "inside"]
    BY ZenonT(30), <1>2, <1>3 DEF z, Worlds
  <2>3. u = Register([z EXCEPT !.status[s.op] = "inside"], s.op)
    BY <2>1, <2>2
  <2>4. s.value # None
    <3>1. program[s.op] \in Takes \/ program[s.op] \in Acquires
      BY <1>5 DEF Takes, Acquires
    <3> QED
      BY <1>3, <3>1, NeedIs DEF StepOK, PutOps
  <2>5. Sound(program, z, {}, {}, D, G) /\ Balanced(program, z)
    BY <1>3 DEF Whole
  <2>6. Sound(program, u, {}, {}, D, G) /\ SameSem(program, z, u)
    BY <1>3, <1>5, <2>3, <2>4, <2>5, InsideOf
  <2> QED
    BY <2>5, <2>6, SameBalance DEF Whole
<1> QED
  BY <1>4, <1>5

(* A call is made.                                                          *)
MadeReady(w, u, o) == u = [w EXCEPT !.status[o] = "ready", !.runQ = Append(@, Step(o, None, TRUE))]

LEMMA MadeReadyOf ==
  ASSUME program \in [Op -> Calls], NEW w, NEW D, NEW G, NEW o \in Op, Whole(program, w, D, G),
         w.status[o] = "idle", program[o] \in Pinneds, NEW u, MadeReady(w, u, o)
  PROVE  Whole(program, u, D, G)
<1> DEFINE s   == Step(o, None, TRUE)
           ss  == <<s>>
           ops == {o}
           Z   == {}
<1>1. Sound(program, w, {}, {}, D, G) /\ Balanced(program, w) /\ w \in Worlds
  BY DEF Whole, Sound
<1>2. Sound(program, w, {o}, {}, D, G) /\ NoCleanup(w, o) /\ o \notin w.live
  BY <1>1, IdleIn
<1>3. s \in StepSet /\ s.op = o /\ s.value = None /\ s.pinned = TRUE
  BY DEF Step, StepSet, Maybe
<1>4. StepOK(program, s)
  BY <1>3 DEF StepOK, Pinneds, Takes, Acquires
<1>5. w.status \in [Op -> Stages] /\ w.runQ \in Seq(StepSet) /\ w.cleanups \in SUBSET Ident
  BY <1>1, WorldIs
<1> HIDE DEF s
<1>6. /\ ss \in Seq(StepSet) /\ OnceQ(ss) /\ OnceV(program, ss)
      /\ \A q : InQ(ss, q) <=> q = o
      /\ \A x : ValQ(ss, x) <=> x = None
      /\ \A i \in 1..Len(ss) : ss[i] = s
  BY <1>3, OneStep
<1>7. {ss[i].op : i \in DOMAIN ss} = {o}
  BY <1>3
<1>8. Without(w.cleanups, {o}) = w.cleanups
  BY <1>2 DEF Without, NoCleanup
<1>9. [q \in Op |-> IF q \in {o} THEN "ready" ELSE w.status[q]] = [w.status EXCEPT ![o] = "ready"]
  BY <1>5
<1>10. Append(w.runQ, s) = w.runQ \o ss
  BY <1>3, <1>5
<1> HIDE DEF ss
<1>11. u = Wake(w, ss)
  <2>1. Wake(w, ss) = [w EXCEPT !.status = [w.status EXCEPT ![o] = "ready"], !.cleanups = w.cleanups,
                                !.runQ = w.runQ \o ss]
    BY <1>7, <1>8, <1>9 DEF Wake
  <2>2. u = [w EXCEPT !.status = [w.status EXCEPT ![o] = "ready"], !.runQ = w.runQ \o ss]
    BY <1>1, <1>10 DEF MadeReady, s, Worlds
  <2> QED
    BY <1>1, <2>1, <2>2 DEF Worlds
<1>12. StepsOf(program, ss, ops, Z) /\ NotDone(program, w, ops)
  <2>1. \A v \in PutOps(program) : v # None
    BY NeedIs DEF PutOps
  <2> QED
    BY <1>2, <1>4, <1>6, <2>1 DEF StepsOf, NotDone
<1>13. ops \in SUBSET ops /\ ops \in SUBSET Op /\ ops \ ops = Z /\ Z \in SUBSET Z /\ Z \ Z = Z /\ Z = {}
       /\ Sound(program, w, ops, Z, D, G)
  BY <1>2
<1>14. AcquiresOf(program, ops) = {}
  BY DEF AcquiresOf, Acquires, Pinneds
<1> HIDE DEF ops, Z
<1>15. Sound(program, u, ops \ ops, Z \ Z, D, G) /\ Readied(program, w, u, ops)
  BY <1>11, <1>12, <1>13, Wakened
<1>16. SameSem(program, w, u)
  BY <1>14, <1>15 DEF Readied, SameSem
<1> QED
  BY <1>1, <1>13, <1>15, <1>16, SameBalance DEF Whole

LEMMA StartOf ==
  ASSUME program \in [Op -> Calls], NEW w, NEW G, NEW o \in Op, Whole(program, w, {}, G), w.status[o] = "idle",
         o \in G <=> ScopeOf[o] \in cancelled,
         NEW u, u = IF program[o] \in Pinneds
                    THEN [w EXCEPT !.status[o] = "ready", !.runQ = Append(@, Step(o, None, TRUE))]
                    ELSE IF ScopeOf[o] \in cancelled THEN [w EXCEPT !.status[o] = "over"]
                    ELSE Begin(w, o)
  PROVE  Whole(program, u, {}, G)
<1> DEFINE X == {o}
           Z == {}
<1>1. Sound(program, w, {}, {}, {}, G) /\ Balanced(program, w)
  BY DEF Whole
<1>2. Sound(program, w, {o}, {}, {}, G) /\ NoCleanup(w, o) /\ o \notin w.live
  BY <1>1, IdleIn
<1>3. CASE program[o] \in Pinneds
  <2>1. MadeReady(w, u, o)
    BY <1>3 DEF MadeReady
  <2> QED
    BY <1>3, <2>1, MadeReadyOf
<1>4. CASE program[o] \notin Pinneds /\ ScopeOf[o] \in cancelled
  <2>1. u = [w EXCEPT !.status[o] = "over"]
    BY <1>4
  <2>2. X \in SUBSET Op /\ o \in X /\ X \ {o} = Z /\ Z = {} /\ Sound(program, w, X, Z, Z, G)
    BY <1>2
  <2> HIDE DEF X, Z
  <2>3. Sound(program, u, X \ {o}, Z, Z, G) /\ SameSem(program, w, u)
    BY <1>2, <2>1, <2>2, OverOf
  <2> QED
    BY <1>1, <2>2, <2>3, SameBalance DEF Whole
<1>5. CASE program[o] \notin Pinneds /\ ScopeOf[o] \notin cancelled
  <2>1. u = Begin(w, o)
    BY <1>5
  <2>2. o \notin Z /\ o \notin G /\ Sound(program, w, {o}, {}, Z, G) /\ Z = {}
    BY <1>2, <1>5
  <2> HIDE DEF Z
  <2>3. Whole(program, u, Z, G)
    BY <1>1, <1>2, <1>5, <2>1, <2>2, BeginOf
  <2> QED
    BY <2>2, <2>3
<1> QED
  BY <1>3, <1>4, <1>5

Ran(w, s, u) ==
  LET x == [w EXCEPT !.runQ = Tail(@)]
  IN u = IF ScopeOf[s.op] \in cancelled THEN Drop(x, s)
         ELSE IF s.pinned THEN Act([x EXCEPT !.status[s.op] = "over"], s.op)
         ELSE Continue(x, s.op, s.value)

LEMMA RunStepOf ==
  ASSUME program \in [Op -> Calls], NEW w, NEW G, Whole(program, w, {}, G), w.runQ # <<>>,
         NEW s, s = Head(w.runQ), s.op \in G <=> ScopeOf[s.op] \in cancelled, NEW u, Ran(w, s, u)
  PROVE  Whole(program, u, {}, G)
<1> DEFINE Z == {}
           x == [w EXCEPT !.runQ = Tail(@)]
<1>5. u = IF ScopeOf[s.op] \in cancelled THEN Drop(x, s)
          ELSE IF s.pinned THEN Act([x EXCEPT !.status[s.op] = "over"], s.op)
          ELSE Continue(x, s.op, s.value)
  BY DEF Ran
<1>1. Whole(program, w, Z, G) /\ s.op \notin Z /\ Z = {}
  OBVIOUS
<1> HIDE DEF Z
<1>2. CASE ScopeOf[s.op] \in cancelled
  <2>1. u = Drop([w EXCEPT !.runQ = Tail(@)], Head(w.runQ))
    BY <1>2, <1>5
  <2>2. Whole(program, u, Z, G)
    BY <1>1, <2>1, DropOf
  <2> QED
    BY <1>1, <2>2
<1>3. CASE ScopeOf[s.op] \notin cancelled /\ s.pinned
  <2>1. Acted(w, u, s.op)
    BY <1>3, <1>5 DEF Acted
  <2>2. Whole(program, u, Z, G)
    BY <1>1, <1>3, <2>1, ActStepOf
  <2> QED
    BY <1>1, <2>2
<1>4. CASE ScopeOf[s.op] \notin cancelled /\ ~s.pinned
  <2>1. u = Continue([w EXCEPT !.runQ = Tail(@)], s.op, s.value)
    BY <1>4, <1>5
  <2>2. Whole(program, u, Z, G)
    BY <1>1, <1>4, <2>1, ContinueOf
  <2> QED
    BY <1>1, <2>2
<1> QED
  BY <1>2, <1>3, <1>4

LEMMA EndBodyOf ==
  ASSUME program \in [Op -> Calls], NEW w, NEW G, NEW o \in Op, Whole(program, w, {}, G), w.status[o] = "inside",
         NEW u, u = Release([w EXCEPT !.cleanups = Without(@, {o})], o)
  PROVE  Whole(program, u, {}, G)
<1> DEFINE x == [w EXCEPT !.cleanups = Without(@, {o})]
           Z == {}
           Y == Z \cup {o}
<1>1. Sound(program, w, {}, {}, {}, G) /\ Balanced(program, w)
  BY DEF Whole
<1>3. u = Release(x, o) /\ CleanupTaken(w, x, o)
  BY DEF CleanupTaken
<1>4. o \in Y /\ Z \in SUBSET Y /\ Z = {} /\ Y = Z \cup {o} /\ \A q \in Y \ Z : q = o
  OBVIOUS
<1> HIDE DEF x, Y, Z
<1>10. Sound(program, x, {}, {}, Z \cup {o}, G) /\ SameSem(program, w, x) /\ x.status = w.status
  <2>1. Sound(program, w, {}, {}, Z, G)
    BY <1>1, <1>4
  <2> QED
    BY <1>3, <2>1, DropCleanup
<1>2. Sound(program, x, {}, {}, Y, G) /\ SameSem(program, w, x) /\ x.status = w.status
  BY <1>4, <1>10
<1>5. Whole(program, x, Y, G) /\ x.status[o] = "inside"
  BY <1>1, <1>2, SameBalance DEF Whole
<1>6. Whole(program, u, Y, G) /\ u.status[o] = "over"
  BY <1>3, <1>4, <1>5, ReleaseOf
<1>7. Sound(program, u, {}, {}, Y, G) /\ Balanced(program, u)
  BY <1>6 DEF Whole
<1>8. \A q \in Y \ Z : u.status[q] \notin {"waiting", "inside"}
  BY <1>4, <1>6
<1>9. Sound(program, u, {}, {}, Z, G)
  BY <1>4, <1>7, <1>8, CleanupRun
<1> QED
  BY <1>4, <1>7, <1>9 DEF Whole

-----------------------------------------------------------------------------
(* The state, between two steps of the scheduler: the World is whole, but   *)
(* for the cleanups that cancelScope has yet to run.                        *)
Doomed == {doomed[i].op : i \in 1..Len(doomed)}
Gone   == {o \in Op : ScopeOf[o] \in cancelled}
IInv ==
  /\ program \in [Op -> Calls]
  /\ Whole(program, World, Doomed, Gone)
  /\ doomed \in Seq(Ident) /\ Doomed \subseteq Gone /\ (closed => doomed = <<>>)
  /\ dropping \in 0..Len(runQ) /\ (dropping > 0 => closed)

LEMMA WorldAfter ==
  ASSUME NEW w \in Worlds, Become(w)
  PROVE  World' = w
<1>1. w = [mvar |-> w.mvar, chan |-> w.chan, sem |-> w.sem, runQ |-> w.runQ, status |-> w.status,
           number |-> w.number, cleanups |-> w.cleanups, taken |-> w.taken, live |-> w.live]
  BY DEF Worlds
<1> QED
  BY <1>1 DEF Become, World

LEMMA WholeAfter ==
  ASSUME program \in [Op -> Calls], UNCHANGED program, NEW w, Become(w), NEW D, Doomed' = D, NEW G, Gone' = G,
         Whole(program, w, D, G)
  PROVE  program' \in [Op -> Calls] /\ Whole(program, World, Doomed, Gone)' /\ World' = w
<1>1. w \in Worlds
  BY DEF Whole, Sound
<1>2. World' = w
  BY <1>1, WorldAfter
<1>3. Whole(program', World', Doomed', Gone')
  BY <1>2
<1> QED
  BY <1>2, <1>3

LEMMA Stays ==
  ASSUME IInv, UNCHANGED <<cancelled, doomed>>
  PROVE  Doomed' = Doomed /\ Gone' = Gone
  BY DEF Doomed, Gone

LEMMA CalmIs ==
  ASSUME IInv, Calm
  PROVE  /\ doomed = <<>> /\ Doomed = {} /\ dropping = 0 /\ ~closed
         /\ program \in [Op -> Calls] /\ Whole(program, World, {}, Gone)
         /\ World.runQ = runQ /\ World.status = status
<1>1. doomed = <<>> /\ ~closed
  BY DEF Calm
<1>2. Doomed = {}
  BY <1>1 DEF Doomed
<1>3. World.runQ = runQ /\ World.status = status
  BY DEF World
<1>4. runQ \in Seq(StepSet)
  BY <1>3, WorldIs DEF IInv, Whole, Sound
<1>5. dropping = 0
  BY <1>1, <1>4 DEF IInv
<1> QED
  BY <1>1, <1>2, <1>3, <1>5 DEF IInv

(* A step of the program itself, which nothing comes between.               *)
LEMMA CalmStep ==
  ASSUME IInv, Calm, UNCHANGED <<program, Apart>>, NEW w, Become(w), Whole(program, w, {}, Gone)
  PROVE  IInv'
<1> DEFINE Z == {}
<1>1. /\ doomed = <<>> /\ Doomed = {} /\ dropping = 0 /\ ~closed /\ program \in [Op -> Calls]
  BY CalmIs
<1>2. UNCHANGED <<program, cancelled, doomed, closed, dropping>>
  BY DEF Apart
<1>3. Doomed' = Z /\ Gone' = Gone /\ Whole(program, w, Z, Gone) /\ Z = {}
  BY <1>1, <1>2, Stays
<1> HIDE DEF Z
<1>4. program' \in [Op -> Calls] /\ Whole(program, World, Doomed, Gone)' /\ World' = w
  BY <1>1, <1>2, <1>3, WholeAfter
<1>5. runQ' \in Seq(StepSet)
  <2>1. w \in Worlds /\ runQ' = w.runQ
    BY DEF Whole, Sound, Become
  <2> QED
    BY <2>1, WorldIs
<1> QED
  BY <1>1, <1>2, <1>3, <1>4, <1>5 DEF IInv

LEMMA StartStep ==
  ASSUME IInv, NEW o \in Op, Start(o)
  PROVE  IInv'
<1> DEFINE u == IF program[o] \in Pinneds
                THEN [World EXCEPT !.status[o] = "ready", !.runQ = Append(@, Step(o, None, TRUE))]
                ELSE IF ScopeOf[o] \in cancelled THEN [World EXCEPT !.status[o] = "over"]
                ELSE Begin(World, o)
<1>1. Calm /\ status[o] = "idle" /\ Become(u) /\ UNCHANGED <<program, Apart>>
  BY DEF Start
<1>2. program \in [Op -> Calls] /\ Whole(program, World, {}, Gone) /\ World.status[o] = "idle"
  BY <1>1, CalmIs
<1>3. o \in Gone <=> ScopeOf[o] \in cancelled
  BY DEF Gone
<1>4. Whole(program, u, {}, Gone)
  BY <1>2, <1>3, StartOf
<1> HIDE DEF u
<1> QED
  BY <1>1, <1>4, CalmStep

LEMMA RunStepStep ==
  ASSUME IInv, RunStep
  PROVE  IInv'
<1> DEFINE s == Head(runQ)
           x == [World EXCEPT !.runQ = Tail(@)]
           u == IF ScopeOf[s.op] \in cancelled THEN Drop(x, s)
                ELSE IF s.pinned THEN Act([x EXCEPT !.status[s.op] = "over"], s.op)
                ELSE Continue(x, s.op, s.value)
<1>1. Calm /\ runQ # <<>> /\ Become(u) /\ UNCHANGED <<program, Apart>>
  BY DEF RunStep
<1>2. program \in [Op -> Calls] /\ Whole(program, World, {}, Gone) /\ World.runQ = runQ
  BY <1>1, CalmIs
<1>3. s.op \in Gone <=> ScopeOf[s.op] \in cancelled
  <2>1. runQ \in Seq(StepSet)
    BY <1>2, WorldIs DEF Whole, Sound
  <2>2. s \in StepSet
    BY <1>1, <2>1
  <2> QED
    BY <2>2 DEF StepSet, Gone
<1>4. s = Head(World.runQ) /\ World.runQ # <<>>
  BY <1>1, <1>2
<1>5. Ran(World, s, u)
  BY DEF Ran
<1> HIDE DEF s, x, u
<1>6. Whole(program, u, {}, Gone)
  BY <1>2, <1>3, <1>4, <1>5, RunStepOf
<1> QED
  BY <1>1, <1>6, CalmStep

LEMMA EndBodyStep ==
  ASSUME IInv, NEW o \in Op, EndBody(o)
  PROVE  IInv'
<1> DEFINE u == Release([World EXCEPT !.cleanups = Without(@, {o})], o)
<1>1. Calm /\ status[o] = "inside" /\ Become(u) /\ UNCHANGED <<program, Apart>>
  BY DEF EndBody
<1>2. program \in [Op -> Calls] /\ Whole(program, World, {}, Gone) /\ World.status[o] = "inside"
  BY <1>1, CalmIs
<1>3. Whole(program, u, {}, Gone)
  BY <1>2, EndBodyOf
<1> HIDE DEF u
<1> QED
  BY <1>1, <1>3, CalmStep

(* The cleanups of a scope are taken out, to be run.                        *)
Parted(w, u, g, S, D, G, E) ==
  /\ S = {c \in w.cleanups : ScopeOf[c.op] = g} /\ D = {c.op : c \in S}
  /\ E = G \cup {o \in Op : ScopeOf[o] = g} /\ u = [w EXCEPT !.cleanups = @ \ S]

LEMMA CancelOf ==
  ASSUME program \in [Op -> Calls], NEW w, NEW G, NEW g, Whole(program, w, {}, G),
         NEW S, NEW D, NEW E, NEW u, Parted(w, u, g, S, D, G, E)
  PROVE  Whole(program, u, D, E)
<1>0. /\ S = {c \in w.cleanups : ScopeOf[c.op] = g} /\ D = {c.op : c \in S}
      /\ E = G \cup {o \in Op : ScopeOf[o] = g} /\ u = [w EXCEPT !.cleanups = @ \ S]
  BY DEF Parted
<1>1. Sound(program, w, {}, {}, {}, G) /\ Balanced(program, w)
  BY DEF Whole
<1>2. w \in Worlds /\ QueueOK(program, w, {}) /\ TakenOK(program, w, {}) /\ LiveOK(program, w, {})
      /\ CleanupsOK(w, {}, {}, G) /\ MVarLine(program, w, {}) /\ ChanLines(program, w, {}) /\ SemLine(program, w, {})
      /\ WaitersOK(program, w, {}) /\ PlacesOK(program, w, {}) /\ ChanHeld(w)
  BY <1>1 DEF Sound
<1> DEFINE cs == w.cleanups \ S
<1>3. IsFiniteSet(w.cleanups) /\ w.cleanups \in SUBSET Ident
  BY <1>2, WorldIs DEF CleanupsOK, IdentsOK
<1>4. cs \in SUBSET w.cleanups /\ \A c : c \in cs <=> c \in w.cleanups /\ ScopeOf[c.op] # g
  BY <1>0
<1>5. u = [w EXCEPT !.cleanups = cs]
  BY <1>0
<1> HIDE DEF cs
<1>6. /\ u \in Worlds
      /\ u.mvar = w.mvar /\ u.chan = w.chan /\ u.sem = w.sem /\ u.runQ = w.runQ /\ u.number = w.number
      /\ u.taken = w.taken /\ u.live = w.live /\ u.status = w.status /\ u.cleanups = cs
  BY <1>2, <1>3, <1>4, <1>5 DEF Worlds
<1>7. MVarLine(program, u, {}) /\ ChanLines(program, u, {}) /\ SemLine(program, u, {})
  BY <1>2, <1>6 DEF MVarLine, ChanLines, SemLine, Taker, Putter, Behind
<1>8. WaitersOK(program, u, {}) /\ QueueOK(program, u, {}) /\ TakenOK(program, u, {}) /\ LiveOK(program, u, {})
  BY <1>2, <1>6 DEF WaitersOK, HasLine, QueueOK, TakenOK, LiveOK
<1>9. CleanupsOK(u, {}, D, E)
  <2>1. IdentsOK(cs)
    BY <1>2, <1>4, FS_Subset DEF CleanupsOK, IdentsOK
  <2>2. \A o : o \in D <=> \E c \in w.cleanups : ScopeOf[c.op] = g /\ c.op = o
    BY <1>0
  <2>3. ASSUME NEW c \in cs PROVE c.op \notin E /\ w.status[c.op] \in {"waiting", "inside"} /\ c.op \notin D
    <3>1. c \in w.cleanups /\ ScopeOf[c.op] # g
      BY <1>4
    <3>2. c.op \notin D
      BY <2>2, <3>1
    <3> QED
      BY <1>0, <1>2, <1>3, <3>1, <3>2 DEF CleanupsOK
  <2>4. ASSUME NEW o \in Op, w.status[o] \in {"waiting", "inside"}, o \notin D PROVE \E c \in cs : c.op = o
    <3>1. PICK c \in w.cleanups : c.op = o
      BY <1>2, <2>4 DEF CleanupsOK
    <3>2. ScopeOf[c.op] # g
      BY <2>2, <2>4, <3>1
    <3> QED
      BY <1>4, <3>1, <3>2
  <2> QED
    BY <1>6, <2>1, <2>3, <2>4 DEF CleanupsOK
<1>10. PlacesOK(program, u, {})
  <2>1. \A v : PlaceOf(w, {}, v) => PlaceOf(u, {}, v)
    BY <1>6 DEF PlaceOf, TakenBy
  <2> QED
    BY <1>2, <1>6, <2>1 DEF PlacesOK, OnceT
<1>11. ChanHeld(u) /\ SameSem(program, w, u)
  BY <1>2, <1>6 DEF ChanHeld, SameSem, GrantedIn, AddedIn
<1>12. Balanced(program, u)
  BY <1>1, <1>11, SameBalance
<1>13. Sound(program, u, {}, {}, D, E)
  BY <1>6, <1>7, <1>8, <1>9, <1>10, <1>11 DEF Sound
<1> QED
  BY <1>12, <1>13 DEF Whole

LEMMA CancelScopeStep ==
  ASSUME IInv, NEW g \in Scope, CancelScope(g)
  PROVE  IInv'
<1> DEFINE S == {c \in cleanups : ScopeOf[c.op] = g}
           w == World
           u == [w EXCEPT !.cleanups = @ \ S]
           D == {c.op : c \in S}
           E == Gone \cup {o \in Op : ScopeOf[o] = g}
<1>1. /\ Calm /\ cancelled' = cancelled \cup {g} /\ doomed' = InOrder(S)
      /\ cleanups' = {c \in cleanups : ScopeOf[c.op] # g}
      /\ UNCHANGED <<program, mvar, chan, sem, runQ, status, number, taken, live, closed, dropping>>
  BY DEF CancelScope
<1>2. /\ dropping = 0 /\ ~closed /\ program \in [Op -> Calls] /\ Whole(program, w, {}, Gone)
  BY <1>1, CalmIs
<1>3. w \in Worlds /\ w.cleanups = cleanups /\ w.runQ = runQ
  BY <1>2 DEF Whole, Sound, World
<1>4. Parted(w, u, g, S, D, Gone, E)
  BY <1>3 DEF Parted
<1>5. Whole(program, u, D, E)
  <2> HIDE DEF w, u, S, D, E
  <2> QED
    BY <1>2, <1>4, CancelOf
<1>6. Become(u)
  BY <1>1 DEF Become, World
<1>7. Gone' = E
  BY <1>1 DEF Gone
<1>8. S \in SUBSET Ident /\ Lists(InOrder(S), S) /\ \A c \in S : c.op \in E
  <2>1. CleanupsOK(w, {}, {}, Gone)
    BY <1>2 DEF Whole, Sound
  <2>2. S \in SUBSET cleanups /\ cleanups \in SUBSET Ident /\ IdentsOK(cleanups)
    BY <1>3, <2>1, WorldIs DEF CleanupsOK
  <2>3. IsFiniteSet(S) /\ (\A c \in S : c.num \in Nat) /\ \A c, d \in S : c.num = d.num => c = d
    BY <2>2, FS_Subset DEF IdentsOK, Ident
  <2>4. S \in SUBSET Ident /\ \A c \in S : c.op \in E
    BY <2>2 DEF Ident
  <2> HIDE DEF S
  <2> QED
    BY <2>3, <2>4, InOrderLists
<1> HIDE DEF S
<1>9. doomed' \in Seq(Ident) /\ Doomed' = D
  <2>1. doomed' \in Seq(S) /\ Len(doomed') \in Nat /\ DOMAIN doomed' = 1..Len(doomed')
        /\ (\A i \in 1..Len(doomed') : doomed'[i] \in S) /\ (\A e \in S : \E i \in 1..Len(doomed') : doomed'[i] = e)
    BY <1>1, <1>8 DEF Lists
  <2>2. doomed' \in Seq(Ident)
    BY <1>8, <2>1
  <2>3. \A o : o \in Doomed' <=> o \in D
    BY <2>1 DEF Doomed
  <2> QED
    BY <2>2, <2>3
<1>10. program' \in [Op -> Calls] /\ Whole(program, World, Doomed, Gone)' /\ World' = u
  <2> HIDE DEF u, D, E
  <2> QED
    BY <1>1, <1>2, <1>5, <1>6, <1>7, <1>9, WholeAfter
<1>11. D \subseteq E
  BY <1>8
<1>12. runQ \in Seq(StepSet)
  BY <1>3, WorldIs
<1> HIDE DEF D, E, u, w
<1> QED
  BY <1>1, <1>2, <1>7, <1>9, <1>10, <1>11, <1>12 DEF IInv

LEMMA RunCleanupStep ==
  ASSUME IInv, RunCleanup
  PROVE  IInv'
<1> DEFINE o == Head(doomed).op
           D == Doomed
           E == {Tail(doomed)[i].op : i \in 1..Len(Tail(doomed))}
           G == Gone
           w == World
           u == Cleanup(w, o)
<1>1. /\ doomed # <<>> /\ Become(u) /\ doomed' = Tail(doomed) /\ UNCHANGED <<program, cancelled, closed, dropping>>
  BY DEF RunCleanup
<1>2. /\ program \in [Op -> Calls] /\ Whole(program, w, D, G) /\ doomed \in Seq(Ident) /\ D \subseteq G
      /\ ~closed /\ dropping = 0
  <2>1. program \in [Op -> Calls] /\ Whole(program, w, D, G) /\ doomed \in Seq(Ident) /\ D \subseteq G /\ ~closed
    BY <1>1 DEF IInv
  <2>2. dropping \in 0..Len(runQ) /\ ~(dropping > 0)
    BY <2>1 DEF IInv
  <2>3. w.runQ = runQ /\ w \in Worlds
    BY <2>1 DEF World, Whole, Sound
  <2>4. Len(runQ) \in Nat
    BY <2>3, WorldIs
  <2> QED
    BY <2>1, <2>2, <2>4
<1>3. o \in Op /\ o \in D /\ E \in SUBSET D /\ D \ {o} \subseteq E /\ Tail(doomed) \in Seq(Ident)
  <2> DEFINE t == Tail(doomed)
  <2>1. /\ Len(doomed) \in Nat /\ 1 \in 1..Len(doomed) /\ Head(doomed) = doomed[1] /\ doomed[1] \in Ident
        /\ t \in Seq(Ident) /\ Len(t) = Len(doomed) - 1 /\ \A i \in 1..Len(t) : t[i] = doomed[i + 1]
    BY <1>1, <1>2
  <2> HIDE DEF t
  <2>2. \A i \in 1..Len(t) : i + 1 \in 1..Len(doomed) /\ t[i] = doomed[i + 1]
    BY <2>1
  <2>3. \A i \in 1..Len(doomed) : i = 1 \/ (i - 1 \in 1..Len(t) /\ t[i - 1] = doomed[i])
    BY <2>1
  <2>4. o \in Op /\ o \in D
    BY <2>1 DEF Ident, Doomed
  <2>5. E = {t[i].op : i \in 1..Len(t)}
    BY DEF t
  <2>6. E \in SUBSET D
    BY <2>2, <2>5 DEF Doomed
  <2>7. D \ {o} \subseteq E
    <3> SUFFICES ASSUME NEW i \in 1..Len(doomed), doomed[i].op # o PROVE doomed[i].op \in E
      BY DEF Doomed
    <3>1. i # 1
      BY <2>1
    <3> QED
      BY <2>3, <2>5, <3>1
  <2> QED
    BY <2>1, <2>4, <2>6, <2>7 DEF t
<1>4. Doomed' = E /\ Gone' = G
  BY <1>1 DEF Doomed, Gone
<1>5. u = Cleanup(w, o)
  OBVIOUS
<1> HIDE DEF o, D, E, G, w, u
<1>6. Whole(program, u, E, G)
  BY <1>2, <1>3, <1>5, CleanupOf
<1>7. program' \in [Op -> Calls] /\ Whole(program, World, Doomed, Gone)' /\ World' = u
  BY <1>1, <1>2, <1>4, <1>6, WholeAfter
<1>8. Len(runQ') \in Nat
  <2>1. u \in Worlds /\ runQ' = u.runQ
    BY <1>1, <1>6 DEF Whole, Sound, Become
  <2> QED
    BY <2>1, WorldIs
<1>9. E \subseteq G
  BY <1>2, <1>3
<1> QED
  BY <1>1, <1>2, <1>3, <1>4, <1>7, <1>8, <1>9 DEF IInv

LEMMA CloseStep ==
  ASSUME IInv, Close
  PROVE  IInv'
<1>1. /\ Calm /\ closed' = TRUE /\ dropping' = Len(runQ)
      /\ UNCHANGED <<program, mvar, chan, sem, runQ, status, number, cleanups, taken, live, cancelled, doomed>>
  BY DEF Close
<1>2. doomed = <<>> /\ Whole(program, World, Doomed, Gone) /\ program \in [Op -> Calls]
      /\ doomed \in Seq(Ident) /\ Doomed \subseteq Gone
  BY <1>1, CalmIs DEF IInv
<1>3. Become(World)
  BY <1>1 DEF Become, World
<1>4. Doomed' = Doomed /\ Gone' = Gone
  BY <1>1, Stays
<1>5. program' \in [Op -> Calls] /\ Whole(program, World, Doomed, Gone)' /\ World' = World
  BY <1>1, <1>2, <1>3, <1>4, WholeAfter
<1>6. Len(runQ) \in Nat
  <2>1. World \in Worlds /\ runQ = World.runQ
    BY <1>2 DEF Whole, Sound, World
  <2> QED
    BY <2>1, WorldIs
<1> QED
  BY <1>1, <1>2, <1>4, <1>5, <1>6 DEF IInv

LEMMA DropStepStep ==
  ASSUME IInv, DropStep
  PROVE  IInv'
<1> DEFINE w == World
           u == Drop([w EXCEPT !.runQ = Tail(@)], Head(w.runQ))
           D == Doomed
           G == Gone
<1>1. w.runQ = runQ
  BY DEF World
<1>2. /\ dropping > 0 /\ Become(u) /\ dropping' = dropping - 1 /\ UNCHANGED <<program, cancelled, doomed, closed>>
  BY <1>1 DEF DropStep
<1>3. program \in [Op -> Calls] /\ Whole(program, w, D, G) /\ doomed \in Seq(Ident) /\ D \subseteq G
      /\ closed /\ doomed = <<>> /\ dropping \in 0..Len(runQ)
  BY <1>2 DEF IInv
<1>4. runQ \in Seq(StepSet) /\ Len(runQ) \in Nat
  BY <1>1, <1>3, WorldIs DEF Whole, Sound
<1>5. w.runQ # <<>>
  BY <1>1, <1>2, <1>3, <1>4
<1>6. Doomed' = D /\ Gone' = G
  BY <1>2, Stays
<1>7. u = Drop([w EXCEPT !.runQ = Tail(@)], Head(w.runQ))
  OBVIOUS
<1> HIDE DEF w, u, D, G
<1>8. Whole(program, u, D, G) /\ LessOne(w, u)
  BY <1>3, <1>5, <1>7, DropOf
<1>9. program' \in [Op -> Calls] /\ Whole(program, World, Doomed, Gone)' /\ World' = u
  BY <1>2, <1>3, <1>6, <1>8, WholeAfter
<1>10. dropping' \in 0..Len(runQ')
  <2>1. u \in Worlds /\ runQ' = u.runQ
    BY <1>2, <1>8 DEF Whole, Sound, Become
  <2>2. Len(runQ') \in Nat
    BY <2>1, WorldIs
  <2>3. dropping' \in Nat /\ dropping' + 1 <= Len(w.runQ)
    BY <1>1, <1>2, <1>3, <1>4
  <2>4. dropping' <= Len(u.runQ)
    BY <1>8, <2>3 DEF LessOne
  <2> QED
    BY <2>1, <2>2, <2>3, <2>4
<1> QED
  BY <1>2, <1>3, <1>6, <1>9, <1>10 DEF IInv

LEMMA InitHolds ==
  ASSUME Init
  PROVE  IInv
<1> DEFINE p == program
           w == World
<1>1. /\ p \in [Op -> Calls] /\ runQ = <<>> /\ doomed = <<>> /\ closed = FALSE /\ dropping = 0 /\ cancelled = {}
  BY ProgramAssumption DEF Init, Calls
<1>2. /\ w.mvar = [value |-> None, line |-> Nobody]
      /\ w.chan = [items |-> <<>>, count |-> 0, closed |-> FALSE, takers |-> Nobody, senders |-> Nobody]
      /\ w.sem = [permits |-> Permits, line |-> Nobody]
      /\ w.runQ = <<>> /\ w.status = [o \in Op |-> "idle"] /\ w.number = [o \in Op |-> 0]
      /\ w.cleanups = {} /\ w.taken = [o \in Op |-> None] /\ w.live = {}
  BY DEF Init, World
<1>3. Nobody \in Line /\ LineOK(Nobody) /\ Nobody.line = {}
  BY EmptyLine
<1>4. w \in Worlds
  <2>1. w.mvar \in [value : Maybe, line : Line]
    BY <1>2, <1>3 DEF Maybe
  <2>2. w.chan \in [items : Seq(Op), count : Nat, closed : BOOLEAN, takers : Line, senders : Line]
    BY <1>2, <1>3
  <2>3. w.sem \in [permits : Nat, line : Line]
    BY <1>2, <1>3, NeedIs
  <2>4. w.runQ \in Seq(StepSet) /\ w.status \in [Op -> Stages] /\ w.number \in [Op -> Nat]
        /\ w.cleanups \in SUBSET Ident /\ w.taken \in [Op -> Maybe] /\ w.live \in SUBSET Op
    BY <1>2 DEF Stages, Maybe
  <2> QED
    BY <2>1, <2>2, <2>3, <2>4 DEF Worlds, World
<1>5. /\ w.mvar.value = None /\ w.mvar.line = Nobody /\ w.chan.items = <<>> /\ w.chan.count = 0
      /\ w.chan.takers = Nobody /\ w.chan.senders = Nobody /\ w.sem.permits = Permits /\ w.sem.line = Nobody
      /\ Len(w.runQ) = 0 /\ Len(w.chan.items) = 0
      /\ \A o \in Op : w.status[o] = "idle" /\ w.taken[o] = None
      /\ w.cleanups = {} /\ w.live = {} /\ 1..0 = {}
  BY <1>2
<1>6. Doomed = {} /\ Gone = {}
  BY <1>1 DEF Doomed, Gone
<1> HIDE DEF w, p
<1>7. MVarLine(p, w, {}) /\ ChanLines(p, w, {}) /\ SemLine(p, w, {})
  BY <1>3, <1>5 DEF MVarLine, ChanLines, SemLine
<1>8. WaitersOK(p, w, {}) /\ QueueOK(p, w, {}) /\ TakenOK(p, w, {}) /\ LiveOK(p, w, {})
  BY <1>5 DEF WaitersOK, QueueOK, TakenOK, LiveOK, OnceQ, InQ
<1>9. PlacesOK(p, w, {})
  <2>1. None \notin PutOps(p)
    BY NeedIs DEF PutOps
  <2>2. ASSUME NEW v \in PutOps(p) PROVE PlaceOf(w, {}, v)
    BY <1>3, <1>5, <2>1, <2>2 DEF PlaceOf, Placed, One, InItems, InEntries, ValQ, TakenBy
  <2>3. OnceI(w.chan.items) /\ OnceE(p, w.mvar.line.line) /\ OnceE(p, w.chan.senders.line)
        /\ OnceV(p, w.runQ)
    BY <1>3, <1>5 DEF OnceI, OnceE, OnceV
  <2>4. OnceT(p, w)
    BY <1>5, <2>1 DEF OnceT
  <2> QED
    BY <1>5, <2>2, <2>3, <2>4 DEF PlacesOK
<1>10. ChanHeld(w) /\ CleanupsOK(w, {}, {}, {}) /\ SemHeld(w)
  BY <1>3, <1>5, FS_EmptySet DEF ChanHeld, CleanupsOK, IdentsOK, SemHeld, Waits
<1>11. PermitsOK(p, w, w.sem.permits)
  <2>1. AddedIn(p, w) = {}
    BY <1>5 DEF AddedIn
  <2>2. GrantedIn(p, w) = {}
    BY <1>5, NeedIs DEF GrantedIn, ValQ
  <2> QED
    BY <1>5, <2>1, <2>2, NeededNone, NeedIs DEF PermitsOK
<1>12. Whole(p, w, {}, {})
  BY <1>4, <1>7, <1>8, <1>9, <1>10, <1>11 DEF Whole, Sound, Balanced
<1>13. doomed \in Seq(Ident) /\ Doomed \subseteq Gone /\ dropping \in 0..Len(runQ)
  BY <1>1, <1>6
<1> QED
  BY <1>1, <1>6, <1>12, <1>13 DEF IInv, p, w

LEMMA NextHolds ==
  ASSUME IInv, [Next]_vars
  PROVE  IInv'
<1>1. CASE RunStep
  BY <1>1, RunStepStep
<1>2. CASE RunCleanup
  BY <1>2, RunCleanupStep
<1>3. CASE Close
  BY <1>3, CloseStep
<1>4. CASE DropStep
  BY <1>4, DropStepStep
<1>5. CASE \E o \in Op : Start(o) \/ EndBody(o)
  BY <1>5, StartStep, EndBodyStep
<1>6. CASE \E g \in Scope : CancelScope(g)
  BY <1>6, CancelScopeStep
<1>7. CASE UNCHANGED vars
  <2>1. World' = World /\ UNCHANGED <<program, doomed, cancelled, closed, dropping, runQ>>
    BY <1>7 DEF vars, World
  <2>2. Doomed' = Doomed /\ Gone' = Gone
    BY <2>1, Stays
  <2>3. Whole(program, World, Doomed, Gone)'
    BY <2>1, <2>2 DEF IInv
  <2> QED
    BY <2>1, <2>2, <2>3 DEF IInv
<1> QED
  BY <1>1, <1>2, <1>3, <1>4, <1>5, <1>6, <1>7 DEF Next

(* The World is whole after every step: what the handlers may rely on.      *)
THEOREM AlwaysWhole == Spec => []IInv
  BY InitHolds, NextHolds, PTL DEF Spec

-----------------------------------------------------------------------------
(* What was to be shown of it.                                              *)
LEMMA AtMostOne ==
  ASSUME NEW S, \A x, y \in S : x = y
  PROVE  Cardinality(S) = IF S = {} THEN 0 ELSE 1
<1>1. CASE S = {}
  BY <1>1, FS_EmptySet
<1>2. CASE S # {}
  <2>1. PICK x \in S : TRUE
    BY <1>2
  <2>2. S = {x}
    BY <2>1
  <2> QED
    BY <1>2, <2>2, FS_Singleton
<1> QED
  BY <1>1, <1>2

LEMMA PlacesCounted ==
  ASSUME IInv, NEW v \in Op, program[v] \in Puts
  PROVE  PlacesOf(v) = IF v \in live THEN 1 ELSE 0
<1> DEFINE A == {x \in {mvar.value} : x = v}
           B == {i \in DOMAIN chan.items : chan.items[i] = v}
           C == {e \in mvar.line.line : e.value = v}
           E == {e \in chan.senders.line : e.value = v}
           F == {i \in DOMAIN runQ : runQ[i].value = v}
           T == {o \in Op : taken[o] = v}
           w == World
<1>1. PlacesOK(program, w, {}) /\ w \in Worlds /\ v \in PutOps(program)
  BY DEF IInv, Whole, Sound, PutOps
<1>2. /\ w.mvar = mvar /\ w.chan = chan /\ w.runQ = runQ /\ w.taken = taken /\ w.live = live
  BY DEF World
<1> HIDE DEF w
<1>3. /\ DOMAIN chan.items = 1..Len(chan.items) /\ DOMAIN runQ = 1..Len(runQ)
  <2>1. chan.items \in Seq(Op) /\ runQ \in Seq(StepSet)
    BY <1>1, <1>2, WorldIs
  <2> QED
    BY <2>1
<1>4. /\ PlaceOf(w, {}, v) /\ OnceI(chan.items) /\ OnceE(program, mvar.line.line)
      /\ OnceE(program, chan.senders.line) /\ OnceV(program, runQ) /\ OnceT(program, w)
  BY <1>1, <1>2 DEF PlacesOK
<1>5. Cardinality(A) = IF mvar.value = v THEN 1 ELSE 0
  <2>1. (\A x, y \in A : x = y) /\ (A = {} <=> mvar.value # v)
    OBVIOUS
  <2> HIDE DEF A
  <2> QED
    BY <2>1, AtMostOne
<1>6. Cardinality(B) = IF InItems(chan.items, v) THEN 1 ELSE 0
  <2>1. (\A x, y \in B : x = y) /\ (B = {} <=> ~InItems(chan.items, v))
    BY <1>3, <1>4 DEF InItems, OnceI
  <2> HIDE DEF B
  <2> QED
    BY <2>1, AtMostOne
<1>7. Cardinality(C) = IF InEntries(mvar.line.line, v) THEN 1 ELSE 0
  <2>1. (\A x, y \in C : x = y) /\ (C = {} <=> ~InEntries(mvar.line.line, v))
    BY <1>1, <1>4 DEF InEntries, OnceE
  <2> HIDE DEF C
  <2> QED
    BY <2>1, AtMostOne
<1>8. Cardinality(E) = IF InEntries(chan.senders.line, v) THEN 1 ELSE 0
  <2>1. (\A x, y \in E : x = y) /\ (E = {} <=> ~InEntries(chan.senders.line, v))
    BY <1>1, <1>4 DEF InEntries, OnceE
  <2> HIDE DEF E
  <2> QED
    BY <2>1, AtMostOne
<1>9. Cardinality(F) = IF ValQ(runQ, v) THEN 1 ELSE 0
  <2>1. (\A x, y \in F : x = y) /\ (F = {} <=> ~ValQ(runQ, v))
    BY <1>1, <1>3, <1>4 DEF ValQ, OnceV
  <2> HIDE DEF F
  <2> QED
    BY <2>1, AtMostOne
<1>10. Cardinality(T) = IF TakenBy(w, v) THEN 1 ELSE 0
  <2>1. (\A x, y \in T : x = y) /\ (T = {} <=> ~TakenBy(w, v))
    BY <1>1, <1>2, <1>4 DEF TakenBy, OnceT
  <2> HIDE DEF T
  <2> QED
    BY <2>1, AtMostOne
<1>11. PlacesOf(v) = Cardinality(A) + Cardinality(B) + Cardinality(C) + Cardinality(E) + Cardinality(F)
                     + Cardinality(T)
  BY DEF PlacesOf
<1> HIDE DEF A, B, C, E, F, T
<1>12. Placed(v \in live, mvar.value = v, InItems(chan.items, v), InEntries(mvar.line.line, v),
              InEntries(chan.senders.line, v), ValQ(runQ, v), TakenBy(w, v), v \in {})
  BY <1>2, <1>4 DEF PlaceOf
<1> QED
  BY <1>5, <1>6, <1>7, <1>8, <1>9, <1>10, <1>11, <1>12 DEF Placed, One

(* A value that was put in is in exactly one place, and every permit is     *)
(* free or granted, whoever is served, withdraws, is cancelled or dropped.  *)
THEOREM NothingEverLost == Spec => []NothingLost
<1>1. IInv => NothingLost
  <2> SUFFICES ASSUME IInv PROVE NothingLost
    OBVIOUS
  <2>1. World \in Worlds /\ PermitsOK(program, World, World.sem.permits)
    BY DEF IInv, Whole, Sound, Balanced
  <2>2. World.sem = sem /\ World.taken = taken /\ World.live = live /\ World.runQ = runQ
    BY DEF World
  <2>3. DOMAIN runQ = 1..Len(runQ)
    <3>1. runQ \in Seq(StepSet)
      BY <2>1, <2>2, WorldIs
    <3> QED
      BY <3>1
  <2>4. Granted = GrantedIn(program, World) /\ Added = AddedIn(program, World)
    BY <2>2, <2>3 DEF Granted, GrantedIn, Added, AddedIn, ValQ
  <2> QED
    BY <2>1, <2>2, <2>4, PlacesCounted DEF NothingLost, PermitsOK
<1> QED
  BY <1>1, AlwaysWhole, PTL

(* Those in a line are there under their number, and nobody else is.        *)
LEMMA LineExact ==
  ASSUME IInv, NEW o \in Op, status[o] = "waiting", NEW l, LineOK(l), IsIn(l, o), LineOf(o) = l.line,
         \A e \in l.line : e.op # None => Behind(World, {}, e)
  PROVE  /\ \E e \in LineOf(o) : e.op = o
         /\ \A e \in LineOf(o) : e.num = number[o] <=> e.op = o
<1>1. o # None /\ World.number = number
  BY NeedIs DEF World
<1>2. PICK f \in l.line : f.op = o
  BY DEF IsIn
<1>3. f.num = number[o]
  BY <1>1, <1>2 DEF Behind
<1>4. ASSUME NEW e \in l.line PROVE e.num = number[o] <=> e.op = o
  <2>1. e.num = number[o] => e = f
    BY <1>2, <1>3 DEF LineOK
  <2>2. e.op = o => e.num = number[o]
    BY <1>1 DEF Behind
  <2> QED
    BY <1>2, <2>1, <2>2
<1> QED
  BY <1>2, <1>4

LEMMA LineIsOf ==
  ASSUME NEW o
  PROVE  /\ program[o] \in Takes \cup {"putMVar"} => LineOf(o) = mvar.line.line
         /\ program[o] = "recv"     => LineOf(o) = chan.takers.line
         /\ program[o] = "send"     => LineOf(o) = chan.senders.line
         /\ program[o] \in Acquires => LineOf(o) = sem.line.line
<1>1. ASSUME program[o] \in Takes \cup {"putMVar"} PROVE LineOf(o) = mvar.line.line
  BY <1>1 DEF LineOf, Takes, Acquires
<1>2. ASSUME program[o] = "recv" PROVE LineOf(o) = chan.takers.line
  BY <1>2 DEF LineOf, Takes, Acquires
<1>3. ASSUME program[o] = "send" PROVE LineOf(o) = chan.senders.line
  BY <1>3 DEF LineOf, Takes, Acquires
<1>4. ASSUME program[o] \in Acquires PROVE LineOf(o) = sem.line.line
  BY <1>4 DEF LineOf, Takes, Acquires
<1> QED
  BY <1>1, <1>2, <1>3, <1>4

LEMMA EverybodyInLine ==
  ASSUME IInv
  PROVE  InLine
<1> DEFINE w == World
<1>1. /\ w \in Worlds /\ MVarLine(program, w, {}) /\ ChanLines(program, w, {}) /\ SemLine(program, w, {})
      /\ WaitersOK(program, w, {}) /\ CleanupsOK(w, {}, Doomed, Gone) /\ program \in [Op -> Calls]
  BY DEF IInv, Whole, Sound
<1>2. /\ w.mvar = mvar /\ w.chan = chan /\ w.sem = sem /\ w.status = status /\ w.cleanups = cleanups
  BY DEF World
<1>3. /\ LineOK(mvar.line) /\ LineOK(chan.takers) /\ LineOK(chan.senders) /\ LineOK(sem.line)
  BY <1>1, <1>2 DEF MVarLine, ChanLines, SemLine
<1>4. \A e \in mvar.line.line : e.op # None => Behind(w, {}, e)
  BY <1>1, <1>2 DEF MVarLine, Taker, Putter
<1>5. \A e \in chan.takers.line : e.op # None => Behind(w, {}, e)
  BY <1>1, <1>2 DEF ChanLines
<1>6. \A e \in chan.senders.line : e.op # None => Behind(w, {}, e)
  BY <1>1, <1>2 DEF ChanLines
<1>7. \A e \in sem.line.line : e.op # None => Behind(w, {}, e)
  BY <1>1, <1>2 DEF SemLine
<1>8. doomed \in Seq(Ident) /\ DOMAIN doomed = 1..Len(doomed)
  <2>1. doomed \in Seq(Ident)
    BY DEF IInv
  <2> QED
    BY <2>1
<1>9. cleanups \in SUBSET Ident
  BY <1>1, <1>2, WorldIs
<1>10. ASSUME NEW o \in Op, status[o] = "waiting"
       PROVE  /\ \E e \in LineOf(o) : e.op = o
              /\ \A e \in LineOf(o) : e.num = number[o] <=> e.op = o
  <2>1. HasLine(program, w, o)
    BY <1>1, <1>2, <1>10 DEF WaitersOK
  <2>2. program[o] \in Takes \cup Acquires \cup {"recv", "putMVar", "send"}
    BY <2>1 DEF HasLine, Handoffs, Asyncs
  <2>3. CASE program[o] \in Takes \cup {"putMVar"}
    <3>1. LineOf(o) = mvar.line.line /\ IsIn(mvar.line, o)
      BY <1>2, <2>1, <2>3, LineIsOf DEF HasLine
    <3> QED
      BY <1>3, <1>4, <1>10, <3>1, LineExact
  <2>4. CASE program[o] = "recv"
    <3>1. LineOf(o) = chan.takers.line /\ IsIn(chan.takers, o)
      BY <1>2, <2>1, <2>4, LineIsOf DEF HasLine
    <3> QED
      BY <1>3, <1>5, <1>10, <3>1, LineExact
  <2>5. CASE program[o] = "send"
    <3>1. LineOf(o) = chan.senders.line /\ IsIn(chan.senders, o)
      BY <1>2, <2>1, <2>5, LineIsOf DEF HasLine
    <3> QED
      BY <1>3, <1>6, <1>10, <3>1, LineExact
  <2>6. CASE program[o] \in Acquires
    <3>1. LineOf(o) = sem.line.line /\ IsIn(sem.line, o)
      BY <1>2, <2>1, <2>6, LineIsOf DEF HasLine
    <3> QED
      BY <1>3, <1>7, <1>10, <3>1, LineExact
  <2> QED
    BY <2>2, <2>3, <2>4, <2>5, <2>6
<1>11. ASSUME NEW l \in Lines, NEW e \in l, e.op # None PROVE status[e.op] = "waiting"
  BY <1>2, <1>4, <1>5, <1>6, <1>7, <1>11 DEF Lines, Behind
<1>12. {c.op : c \in cleanups} =
         {o \in Op : status[o] \in {"waiting", "inside"}} \ {doomed[i].op : i \in DOMAIN doomed}
  <2>1. {doomed[i].op : i \in DOMAIN doomed} = Doomed
    BY <1>8 DEF Doomed
  <2>2. \A c \in cleanups : c.op \in Op /\ status[c.op] \in {"waiting", "inside"} /\ c.op \notin Doomed
    BY <1>1, <1>2, <1>9 DEF CleanupsOK, Ident
  <2>3. \A o \in Op : status[o] \in {"waiting", "inside"} /\ o \notin Doomed => \E c \in cleanups : c.op = o
    BY <1>1, <1>2 DEF CleanupsOK
  <2> QED
    BY <2>1, <2>2, <2>3
<1>13. \A c \in cleanups : ScopeOf[c.op] \notin cancelled
  BY <1>1, <1>2, <1>9 DEF CleanupsOK, Gone, Ident
<1> QED
  BY <1>10, <1>11, <1>12, <1>13 DEF InLine

(* Those who must wait are in their line, with a cleanup, and nobody else;  *)
(* and nobody waits for what is there.                                      *)
THEOREM LinesAlwaysExact == Spec => []LinesExact
<1>1. IInv => LinesExact
  <2> SUFFICES ASSUME IInv PROVE LinesExact
    OBVIOUS
  <2>1. ChanHeld(World) /\ SemHeld(World)
    BY DEF IInv, Whole, Sound, Balanced
  <2>2. NobodyHeldUp
    BY <2>1 DEF NobodyHeldUp, ChanHeld, SemHeld, World
  <2> QED
    BY <2>2, EverybodyInLine DEF LinesExact
<1> QED
  BY <1>1, AlwaysWhole, PTL

-----------------------------------------------------------------------------
(* Whom a handler makes ready, W, and what it leaves alone of the other     *)
(* operations; a is the one that calls it.                                  *)
IsWorld(x) ==
  /\ x = [mvar |-> x.mvar, chan |-> x.chan, sem |-> x.sem, runQ |-> x.runQ, status |-> x.status,
          number |-> x.number, cleanups |-> x.cleanups, taken |-> x.taken, live |-> x.live]
  /\ DOMAIN x.status = Op /\ DOMAIN x.taken = Op
Serves(x, u, a, W) ==
  /\ IsWorld(u)
  /\ \A o \in Op \ {a} :
       /\ u.status[o] = IF o \in W THEN "ready" ELSE x.status[o]
       /\ u.taken[o] = x.taken[o]
       /\ o \in u.live => o \in x.live
AtFront(l) == IF Waits(l) THEN {First(l).op} ELSE {}

LEMMA ServesMore ==
  ASSUME NEW x, NEW u, NEW W, Serves(x, u, None, W), NEW a
  PROVE  Serves(x, u, a, W)
  BY NeedIs DEF Serves

LEMMA ServesTwice ==
  ASSUME NEW x, NEW y, NEW u, NEW a, NEW V, NEW W, Serves(x, y, a, V), Serves(y, u, a, W)
  PROVE  Serves(x, u, a, V \cup W)
  BY DEF Serves

LEMMA WakeServes ==
  ASSUME NEW x, IsWorld(x), NEW steps, NEW u, u = Wake(x, steps),
         NEW W, W = {steps[i].op : i \in DOMAIN steps}
  PROVE  Serves(x, u, None, W) /\ u.taken = x.taken /\ u.live = x.live
<1>1. u = [x EXCEPT !.status = [o \in Op |-> IF o \in W THEN "ready" ELSE @[o]],
                    !.cleanups = Without(@, W), !.runQ = @ \o steps]
  BY DEF Wake
<1>2. /\ u.status = [o \in Op |-> IF o \in W THEN "ready" ELSE x.status[o]]
      /\ u.taken = x.taken /\ u.live = x.live /\ IsWorld(u)
  BY <1>1 DEF IsWorld
<1>3. Serves(x, u, None, W)
  BY <1>2 DEF Serves
<1> QED
  BY <1>2, <1>3

LEMMA DoneServes ==
  ASSUME NEW x, IsWorld(x), NEW o, NEW v, NEW u, u = Done(x, o, v)
  PROVE  Serves(x, u, None, {o}) /\ u.taken = x.taken /\ u.live = x.live
<1>1. CASE o = None
  <2>1. u = x
    BY <1>1 DEF Done
  <2> QED
    BY <1>1, <2>1, NeedIs DEF Serves
<1>2. CASE o # None
  <2> DEFINE s == <<Step(o, v, FALSE)>>
  <2>1. u = Wake(x, s)
    BY <1>2 DEF Done
  <2>2. {o} = {s[i].op : i \in DOMAIN s}
    BY DEF Step
  <2> HIDE DEF s
  <2> QED
    BY ZenonT(30), <2>1, <2>2, WakeServes
<1> QED
  BY <1>1, <1>2

(* An operation waits, or a part of the World changes that is not asked for.*)
LEMMA WaitServes ==
  ASSUME NEW x, IsWorld(x), NEW o \in Op, NEW k, NEW u, u = Wait(x, o, k)
  PROVE  Serves(x, u, o, {}) /\ u.status[o] = "waiting"
  BY DEF Wait, Register, Serves, IsWorld

LEMMA FieldServes ==
  ASSUME NEW x, IsWorld(x), NEW m, NEW u,
         \/ u = [x EXCEPT !.mvar = m] \/ u = [x EXCEPT !.chan = m] \/ u = [x EXCEPT !.sem = m]
         \/ u = [x EXCEPT !.runQ = m] \/ u = [x EXCEPT !.cleanups = m]
  PROVE  Serves(x, u, None, {}) /\ u.status = x.status /\ u.taken = x.taken /\ u.live = x.live
<1>1. u.status = x.status /\ u.taken = x.taken /\ u.live = x.live /\ IsWorld(u)
  BY DEF IsWorld
<1> QED
  BY <1>1 DEF Serves

LEMMA FieldDone ==
  ASSUME NEW x, IsWorld(x), NEW m, NEW y, y = [x EXCEPT !.mvar = m] \/ y = [x EXCEPT !.chan = m],
         NEW o, NEW v, NEW u, u = Done(y, o, v)
  PROVE  Serves(x, u, None, {o}) /\ u.taken = x.taken /\ u.live = x.live
<1>1. Serves(x, y, None, {}) /\ IsWorld(y) /\ y.taken = x.taken /\ y.live = x.live
  BY FieldServes DEF Serves
<1>2. Serves(y, u, None, {o}) /\ u.taken = y.taken /\ u.live = y.live
  BY <1>1, DoneServes
<1>3. Serves(x, u, None, {} \cup {o})
  BY <1>1, <1>2, ServesTwice
<1> QED
  BY <1>1, <1>2, <1>3

LEMMA RefillServes ==
  ASSUME NEW x, IsWorld(x), NEW u, u = Refill(x)
  PROVE  Serves(x, u, None, AtFront(x.mvar.line)) /\ u.taken = x.taken /\ u.live = x.live
<1> DEFINE l == x.mvar.line
           m == [value |-> First(l).value, line |-> Rest(l)]
           n == [value |-> None, line |-> Nobody]
           y == [x EXCEPT !.mvar = m]
<1>1. CASE Waits(l)
  <2>1. u = Done(y, First(l).op, None) /\ AtFront(l) = {First(l).op}
    BY <1>1 DEF Refill, AtFront
  <2>2. y = [x EXCEPT !.mvar = m]
    OBVIOUS
  <2> HIDE DEF l, m, y
  <2>3. Serves(x, u, None, {First(l).op}) /\ u.taken = x.taken /\ u.live = x.live
    BY <2>1, <2>2, FieldDone
  <2> QED
    BY <2>1, <2>3 DEF l
<1>2. CASE ~Waits(l)
  <2>1. u = [x EXCEPT !.mvar = n] /\ AtFront(l) = {}
    BY <1>2 DEF Refill, AtFront
  <2> HIDE DEF n
  <2> QED
    BY <2>1, FieldServes
<1> QED
  BY <1>1, <1>2

LEMMA DeliverServes ==
  ASSUME NEW x, IsWorld(x), NEW v, NEW u, u = Deliver(x, v)
  PROVE  Serves(x, u, None, AtFront(x.mvar.line)) /\ u.taken = x.taken /\ u.live = x.live
<1> DEFINE l == x.mvar.line
           m == [x.mvar EXCEPT !.line = Rest(l)]
           n == [value |-> v, line |-> Nobody]
           y == [x EXCEPT !.mvar = m]
<1>1. CASE Waits(l)
  <2>1. u = Done(y, First(l).op, v) /\ AtFront(l) = {First(l).op}
    BY <1>1 DEF Deliver, AtFront
  <2>2. y = [x EXCEPT !.mvar = m]
    OBVIOUS
  <2> HIDE DEF l, m, y
  <2>3. Serves(x, u, None, {First(l).op}) /\ u.taken = x.taken /\ u.live = x.live
    BY <2>1, <2>2, FieldDone
  <2> QED
    BY <2>1, <2>3 DEF l
<1>2. CASE ~Waits(l)
  <2>1. u = [x EXCEPT !.mvar = n] /\ AtFront(l) = {}
    BY <1>2 DEF Deliver, AtFront
  <2> HIDE DEF n
  <2> QED
    BY <2>1, FieldServes
<1> QED
  BY <1>1, <1>2

LEMMA PutAnyhowServes ==
  ASSUME NEW x, IsWorld(x), NEW v, NEW u, u = PutAnyhow(x, v)
  PROVE  Serves(x, u, None, {}) \/ Serves(x, u, None, AtFront(x.mvar.line))
<1> DEFINE m == [x.mvar EXCEPT !.line = Enter(@, None, v)]
<1>1. CASE x.mvar.value = None
  BY <1>1, DeliverServes DEF PutAnyhow
<1>2. CASE x.mvar.value # None
  <2>1. u = [x EXCEPT !.mvar = m]
    BY <1>2 DEF PutAnyhow
  <2> HIDE DEF m
  <2> QED
    BY <2>1, FieldServes
<1> QED
  BY <1>1, <1>2

LEMMA TryRecvNowServes ==
  ASSUME NEW x, IsWorld(x), NEW u, u = TryRecvNow(x)
  PROVE  /\ Serves(x, u, None, {}) \/ Serves(x, u, None, AtFront(x.chan.senders))
         /\ u.taken = x.taken /\ u.live = x.live
<1> DEFINE s == First(x.chan.senders)
           m == [x.chan EXCEPT !.items = Tail(x.chan.items), !.count = @ - 1]
           n == [x.chan EXCEPT !.items = Append(Tail(x.chan.items), s.value), !.senders = Rest(@)]
           y == [x EXCEPT !.chan = n]
<1>1. CASE x.chan.items = <<>>
  <2>1. u = x
    BY <1>1 DEF TryRecvNow
  <2> QED
    BY <2>1, NeedIs DEF Serves
<1>2. CASE x.chan.items # <<>> /\ ~Waits(x.chan.senders)
  <2>1. u = [x EXCEPT !.chan = m]
    BY <1>2 DEF TryRecvNow
  <2> HIDE DEF m
  <2> QED
    BY <2>1, FieldServes
<1>3. CASE x.chan.items # <<>> /\ Waits(x.chan.senders)
  <2>1. u = Done(y, s.op, None) /\ AtFront(x.chan.senders) = {s.op}
    BY <1>3 DEF TryRecvNow, AtFront
  <2>2. y = [x EXCEPT !.chan = n]
    OBVIOUS
  <2> HIDE DEF s, n, y
  <2>3. Serves(x, u, None, {s.op}) /\ u.taken = x.taken /\ u.live = x.live
    BY <2>1, <2>2, FieldDone
  <2> QED
    BY <2>1, <2>3
<1> QED
  BY <1>1, <1>2, <1>3

LEMMA HandOverServes ==
  ASSUME NEW x, IsWorld(x), Waits(x.chan.takers), NEW v,
         NEW u, u = Done([x EXCEPT !.chan.takers = Rest(@)], First(x.chan.takers).op, v)
  PROVE  Serves(x, u, None, AtFront(x.chan.takers)) /\ u.taken = x.taken /\ u.live = x.live
<1> DEFINE o == First(x.chan.takers).op
           m == [x.chan EXCEPT !.takers = Rest(@)]
           y == [x EXCEPT !.chan = m]
<1>1. u = Done(y, o, v) /\ AtFront(x.chan.takers) = {o}
  BY DEF AtFront
<1>2. y = [x EXCEPT !.chan = m]
  OBVIOUS
<1> HIDE DEF o, m, y
<1>3. Serves(x, u, None, {o}) /\ u.taken = x.taken /\ u.live = x.live
  BY <1>1, <1>2, FieldDone
<1> QED
  BY <1>1, <1>3

LEMMA GiveBackServes ==
  ASSUME NEW x, IsWorld(x), NEW v, NEW u, u = GiveBack(x, v)
  PROVE  Serves(x, u, None, {}) \/ Serves(x, u, None, AtFront(x.chan.takers))
<1> DEFINE m == [x.chan EXCEPT !.items = <<v>> \o @, !.count = @ + 1]
<1>1. CASE Waits(x.chan.takers)
  <2>1. u = Done([x EXCEPT !.chan.takers = Rest(@)], First(x.chan.takers).op, v)
    BY <1>1 DEF GiveBack
  <2> QED
    BY <1>1, <2>1, HandOverServes
<1>2. CASE ~Waits(x.chan.takers)
  <2>1. u = [x EXCEPT !.chan = m]
    BY <1>2 DEF GiveBack
  <2> HIDE DEF m
  <2> QED
    BY <2>1, FieldServes
<1> QED
  BY <1>1, <1>2

LEMMA LiveServes ==
  ASSUME NEW x, IsWorld(x), NEW o \in Op, NEW u, u = [x EXCEPT !.live = @ \cup {o}]
  PROVE  Serves(x, u, o, {}) /\ u.status = x.status /\ u.taken = x.taken /\ u.mvar = x.mvar /\ u.chan = x.chan
         /\ u.sem = x.sem /\ u.live = x.live \cup {o}
<1>1. u.status = x.status /\ u.taken = x.taken /\ u.mvar = x.mvar /\ u.chan = x.chan /\ u.sem = x.sem /\ IsWorld(u)
      /\ u.live = x.live \cup {o}
  BY DEF IsWorld
<1> QED
  BY <1>1 DEF Serves

LEMMA TrySendNowServes ==
  ASSUME NEW x, IsWorld(x), NEW o \in Op, NEW u, u = TrySendNow(x, o)
  PROVE  /\ Serves(x, u, o, {}) \/ Serves(x, u, o, AtFront(x.chan.takers))
         /\ u.taken = x.taken
         /\ x.chan.closed \/ ~Room(x.chan) => u = x
<1> DEFINE in == [x EXCEPT !.live = @ \cup {o}]
           m  == [x.chan EXCEPT !.items = Append(@, o), !.count = @ + 1]
<1>1. CASE x.chan.closed \/ ~Room(x.chan)
  <2>1. u = x
    BY <1>1 DEF TrySendNow
  <2> QED
    BY <2>1 DEF Serves
<1>2. CASE ~x.chan.closed /\ Room(x.chan)
  <2>1. Serves(x, in, o, {}) /\ IsWorld(in) /\ in.taken = x.taken /\ in.chan = x.chan
    BY LiveServes DEF Serves
  <2>2. CASE Waits(x.chan.takers)
    <3>1. u = Done([in EXCEPT !.chan.takers = Rest(@)], First(in.chan.takers).op, o)
      BY <1>2, <2>1, <2>2 DEF TrySendNow
    <3> HIDE DEF in
    <3>2. Serves(in, u, None, AtFront(x.chan.takers)) /\ u.taken = in.taken
      BY <2>1, <2>2, <3>1, HandOverServes
    <3>3. Serves(in, u, o, AtFront(x.chan.takers))
      BY <3>2, ServesMore
    <3>4. Serves(x, u, o, {} \cup AtFront(x.chan.takers))
      BY <2>1, <3>3, ServesTwice
    <3> QED
      BY <1>2, <2>1, <3>2, <3>4
  <2>3. CASE ~Waits(x.chan.takers)
    <3>1. u = [in EXCEPT !.chan = m]
      BY <1>2, <2>1, <2>3 DEF TrySendNow
    <3> HIDE DEF in, m
    <3>2. Serves(in, u, None, {}) /\ u.taken = in.taken
      BY <2>1, <3>1, FieldServes
    <3>3. Serves(in, u, o, {})
      BY <3>2, ServesMore
    <3>4. Serves(x, u, o, {} \cup {})
      BY <2>1, <3>3, ServesTwice
    <3> QED
      BY <1>2, <2>1, <3>2, <3>4
  <2> QED
    BY <2>2, <2>3
<1> QED
  BY <1>1, <1>2

LEMMA SettleServes ==
  ASSUME NEW x, IsWorld(x), NEW n, NEW l \in Line, LineOK(l), NEW u, u = Settle(x, n, l)
  PROVE  Serves(x, u, None, {e.op : e \in Served(n, l.line)}) /\ u.taken = x.taken /\ u.live = x.live
<1> DEFINE S     == Served(n, l.line)
           W     == {e.op : e \in S}
           c     == [permits |-> n - Needed(W), line |-> [l EXCEPT !.line = @ \ S]]
           y     == [x EXCEPT !.sem = c]
           woken == InOrder(S)
           steps == [i \in DOMAIN woken |-> Step(woken[i].op, woken[i].op, FALSE)]
<1>1. u = Wake(y, steps)
  BY DEF Settle
<1>2. Lists(woken, S)
  <2>1. S \subseteq l.line /\ IsFiniteSet(l.line) /\ \A e \in l.line : e.num \in Nat
    BY LineIs DEF Served, LineOK
  <2>2. IsFiniteSet(S)
    BY <2>1, FS_Subset
  <2>3. \A e, f \in S : e.num = f.num => e = f
    BY <2>1 DEF LineOK
  <2> HIDE DEF S
  <2> QED
    BY <2>1, <2>2, <2>3, InOrderLists
<1>3. DOMAIN steps = DOMAIN woken /\ \A i \in DOMAIN woken : steps[i].op = woken[i].op
  BY DEF Step
<1> HIDE DEF woken, steps
<1>4. W = {steps[i].op : i \in DOMAIN steps}
  BY <1>2, <1>3 DEF Lists
<1> HIDE DEF S, W, c
<1>5. Serves(x, y, None, {}) /\ IsWorld(y) /\ y.taken = x.taken /\ y.live = x.live
  BY FieldServes DEF Serves
<1> HIDE DEF y
<1>6. Serves(y, u, None, W) /\ u.taken = y.taken /\ u.live = y.live
  BY <1>1, <1>4, <1>5, WakeServes
<1>7. Serves(x, u, None, {} \cup W)
  BY <1>5, <1>6, ServesTwice
<1> QED
  BY <1>5, <1>6, <1>7 DEF W, S

LEMMA CloseChanServes ==
  ASSUME IInv, NEW x, IsWorld(x), x.chan = chan, NEW u, u = CloseChan(x)
  PROVE  Serves(x, u, None, Woke(World)) /\ u.taken = x.taken
<1>0. chan \in Chans
  <2>1. World \in Worlds /\ World.chan = chan
    BY DEF World, IInv, Whole, Sound
  <2> QED
    BY <2>1 DEF Worlds, Chans
<1> DEFINE all   == InOrder(chan.takers.line) \o InOrder(chan.senders.line)
           none  == [i \in DOMAIN all |-> None]
           steps == [i \in DOMAIN all |-> Step(all[i].op, None, FALSE)]
           back  == {e.value : e \in chan.senders.line}
           m     == [chan EXCEPT !.closed = TRUE, !.takers.line = {}, !.senders.line = {}]
           z     == [x EXCEPT !.chan = m]
           y     == [z EXCEPT !.live = @ \ back]
<1>1. u = Wake(y, steps)
  <2>1. u = Wake([x EXCEPT !.chan.closed = TRUE, !.chan.takers.line = {}, !.chan.senders.line = {},
                           !.live = @ \ back], steps)
    BY DEF CloseChan
  <2>2. [x EXCEPT !.chan.closed = TRUE, !.chan.takers.line = {}, !.chan.senders.line = {},
                  !.live = @ \ back] = y
    <3> HIDE DEF back
    <3> QED
      BY <1>0 DEF IsWorld, Chans, Line
  <2> HIDE DEF y, steps
  <2> QED
    BY <2>1, <2>2
<1>2. Carries(program, all, none, Woke(World))
  <2>1. World.chan = chan /\ World \in Worlds /\ program \in [Op -> Calls] /\ ChanLines(program, World, {})
    BY DEF World, IInv, Whole, Sound
  <2> QED
    BY <2>1, WokeOnce
<1>3. DOMAIN steps = DOMAIN all /\ \A i \in DOMAIN all : steps[i].op = all[i].op
  BY DEF Step
<1> HIDE DEF all, none, steps
<1>4. Woke(World) = {steps[i].op : i \in DOMAIN steps}
  BY <1>2, <1>3 DEF Carries
<1>5. Serves(x, y, None, {}) /\ IsWorld(y) /\ y.taken = x.taken
  <2> HIDE DEF m, back
  <2>1. z.status = x.status /\ z.taken = x.taken /\ IsWorld(z) /\ z.live = x.live
    BY FieldServes DEF Serves
  <2> HIDE DEF z
  <2>2. y.status = x.status /\ y.taken = x.taken /\ IsWorld(y) /\ y.live \subseteq x.live
    BY <2>1 DEF IsWorld
  <2> QED
    BY <2>2 DEF Serves
<1> HIDE DEF y
<1>6. Serves(y, u, None, Woke(World)) /\ u.taken = y.taken
  BY <1>1, <1>4, <1>5, WakeServes
<1>7. Serves(x, u, None, {} \cup Woke(World))
  BY <1>5, <1>6, ServesTwice
<1> QED
  BY <1>5, <1>6, <1>7

-----------------------------------------------------------------------------
(* Who gets what it wants in a step to the World u, and whether somebody    *)
(* who waits is passed over by it.                                          *)
Gets(u, o) ==
  \/ status[o] \in {"idle", "waiting"} /\ u.status[o] = "ready" /\ program[o] \notin Pinneds
  \/ status[o] = "ready" /\ u.taken[o] # taken[o] /\ program[o] \in Pinneds
  \/ o \in u.live \ live /\ program[o] \in Pinneds
Fair(u) ==
  \A o, q \in Op :
    status[o] = "waiting" /\ u.status[o] = "waiting" /\ Wanted(q) = Wanted(o) /\ Gets(u, q) => Ahead(q, o)
Unwanted(a)  == \A o \in Op : status[o] = "waiting" => Wanted(o) # Wanted(a)
InTurn(a, W) ==
  \A q \in Op \cap W, o \in Op \ W :
    o # a /\ status[o] = "waiting" /\ Wanted(q) = Wanted(o) => Ahead(q, o)

LEMMA FairBy ==
  ASSUME NEW a \in Op, NEW W, NEW u, Serves(World, u, a, W), InTurn(a, W),
         ~(status[a] = "waiting" /\ u.status[a] = "waiting"), Gets(u, a) => Unwanted(a)
  PROVE  Fair(u)
<1> SUFFICES ASSUME NEW o \in Op, NEW q \in Op, status[o] = "waiting", u.status[o] = "waiting",
                    Wanted(q) = Wanted(o), Gets(u, q)
             PROVE  Ahead(q, o)
  BY DEF Fair
<1>1. World.status = status /\ World.taken = taken /\ World.live = live
  BY DEF World
<1>2. q # a
  BY DEF Unwanted
<1>3. /\ u.status[q] = IF q \in W THEN "ready" ELSE status[q]
      /\ u.taken[q] = taken[q] /\ (q \in u.live => q \in live)
  BY <1>1, <1>2 DEF Serves
<1>4. q \in W
  BY <1>3 DEF Gets
<1>5. o # a /\ o \notin W
  BY <1>1 DEF Serves
<1> QED
  BY <1>4, <1>5 DEF InTurn

LEMMA WorldHere ==
  ASSUME IInv
  PROVE  /\ World \in Worlds /\ IsWorld(World) /\ program \in [Op -> Calls]
         /\ World.mvar = mvar /\ World.chan = chan /\ World.sem = sem /\ World.status = status
         /\ World.number = number /\ World.taken = taken /\ World.live = live /\ World.runQ = runQ
         /\ World.cleanups = cleanups
<1>1. World \in Worlds /\ program \in [Op -> Calls]
  BY DEF IInv, Whole, Sound
<1>2. /\ World.mvar = mvar /\ World.chan = chan /\ World.sem = sem /\ World.status = status
      /\ World.number = number /\ World.taken = taken /\ World.live = live /\ World.runQ = runQ
      /\ World.cleanups = cleanups
  BY DEF World
<1>3. DOMAIN status = Op /\ DOMAIN taken = Op
  BY <1>1, <1>2, WorldIs
<1> QED
  BY <1>1, <1>2, <1>3 DEF IsWorld, World

(* What the lines hold, in one state.                                       *)
LEMMA LinesHere ==
  ASSUME IInv
  PROVE  /\ mvar.line \in Line /\ chan.takers \in Line /\ chan.senders \in Line /\ sem.line \in Line
         /\ LineOK(mvar.line) /\ LineOK(chan.takers) /\ LineOK(chan.senders) /\ LineOK(sem.line)
         /\ MVarLine(program, World, {}) /\ ChanLines(program, World, {}) /\ SemLine(program, World, {})
         /\ WaitersOK(program, World, {}) /\ ChanHeld(World)
<1>1. /\ MVarLine(program, World, {}) /\ ChanLines(program, World, {}) /\ SemLine(program, World, {})
      /\ WaitersOK(program, World, {}) /\ ChanHeld(World)
  BY DEF IInv, Whole, Sound
<1>2. /\ World \in Worlds /\ World.mvar = mvar /\ World.chan = chan /\ World.sem = sem
  BY WorldHere
<1> QED
  BY <1>1, <1>2, WorldIs DEF MVarLine, ChanLines, SemLine

LEMMA WantedIs ==
  ASSUME NEW o
  PROVE  /\ program[o] \in Takes \cup {"tryTakeMVar"}    <=> Wanted(o) = "value"
         /\ program[o] \in {"putMVar", "tryPutMVar"}     <=> Wanted(o) = "room"
         /\ program[o] \in {"recv", "tryRecv"}           <=> Wanted(o) = "item"
         /\ program[o] \in {"send", "trySend"}           <=> Wanted(o) = "space"
         /\ program[o] \in Acquires \cup {"tryAcquireN"} <=> Wanted(o) = "permits"
         /\ Wanted(o) \in {"value", "room", "item", "space", "permits", "nothing"}
<1>1. ASSUME program[o] \in Takes \cup {"tryTakeMVar"} PROVE Wanted(o) = "value"
  BY <1>1 DEF Wanted, Takes, Acquires
<1>2. ASSUME program[o] \in {"putMVar", "tryPutMVar"} PROVE Wanted(o) = "room"
  BY <1>2 DEF Wanted, Takes, Acquires
<1>3. ASSUME program[o] \in {"recv", "tryRecv"} PROVE Wanted(o) = "item"
  BY <1>3 DEF Wanted, Takes, Acquires
<1>4. ASSUME program[o] \in {"send", "trySend"} PROVE Wanted(o) = "space"
  BY <1>4 DEF Wanted, Takes, Acquires
<1>5. ASSUME program[o] \in Acquires \cup {"tryAcquireN"} PROVE Wanted(o) = "permits"
  BY <1>5 DEF Wanted, Takes, Acquires
<1>6. ASSUME program[o] \notin Takes \cup Acquires \cup {"tryTakeMVar", "putMVar", "tryPutMVar", "recv", "tryRecv", "send",
                                               "trySend", "tryAcquireN"}
      PROVE  Wanted(o) = "nothing"
  BY <1>6 DEF Wanted
<1> QED
  BY <1>1, <1>2, <1>3, <1>4, <1>5, <1>6

(* An operation that waits is in its line, and could not be served.         *)
WaitsFor(o) ==
  /\ Wanted(o) = "value" =>
       program[o] \in Takes /\ mvar.value = None /\ LineOf(o) = mvar.line.line /\ IsIn(mvar.line, o)
  /\ Wanted(o) = "room" =>
       program[o] = "putMVar" /\ mvar.value # None /\ LineOf(o) = mvar.line.line /\ IsIn(mvar.line, o)
  /\ Wanted(o) = "item" =>
       /\ program[o] = "recv" /\ LineOf(o) = chan.takers.line /\ IsIn(chan.takers, o)
       /\ chan.items = <<>> /\ ~chan.closed
  /\ Wanted(o) = "space" =>
       /\ program[o] = "send" /\ LineOf(o) = chan.senders.line /\ IsIn(chan.senders, o)
       /\ chan.count >= Capacity /\ ~chan.closed /\ ~Waits(chan.takers)
  /\ Wanted(o) = "permits" =>
       program[o] \in Acquires /\ LineOf(o) = sem.line.line /\ IsIn(sem.line, o) /\ Waits(sem.line)
  /\ Wanted(o) # "nothing"

LEMMA WaitingFor ==
  ASSUME IInv, NEW o \in Op, status[o] = "waiting"
  PROVE  WaitsFor(o)
<1>1. /\ World.mvar = mvar /\ World.chan = chan /\ World.sem = sem /\ World.status = status
  BY WorldHere
<1>2. HasLine(program, World, o)
  BY <1>1, LinesHere DEF WaitersOK
<1>3. /\ program[o] \in Takes \cup Acquires \cup {"recv", "putMVar", "send"}
      /\ program[o] \in Takes \cup {"putMVar"} => IsIn(mvar.line, o)
      /\ program[o] = "recv"     => IsIn(chan.takers, o)
      /\ program[o] = "send"     => IsIn(chan.senders, o)
      /\ program[o] \in Acquires => IsIn(sem.line, o)
  BY <1>1, <1>2 DEF HasLine, Handoffs, Asyncs
<1>4. o # None
  BY NeedIs
<1>5. CASE program[o] \in Takes
  <2>1. mvar.value = None
    <3>1. PICK e \in mvar.line.line : e.op = o
      BY <1>3, <1>5 DEF IsIn
    <3>2. mvar.value # None => program[o] = "putMVar"
      BY <1>1, <1>4, <3>1, LinesHere DEF MVarLine, Putter
    <3> QED
      BY <1>5, <3>2 DEF Takes
  <2>2. Wanted(o) = "value" /\ LineOf(o) = mvar.line.line
    BY <1>5, WantedIs, LineIsOf
  <2> QED
    BY <1>3, <1>5, <2>1, <2>2 DEF WaitsFor
<1>6. CASE program[o] = "putMVar"
  <2>1. mvar.value # None
    <3>1. PICK e \in mvar.line.line : e.op = o
      BY <1>3, <1>6 DEF IsIn
    <3>2. mvar.value = None => program[o] \in Takes
      BY <1>1, <1>4, <3>1, LinesHere DEF MVarLine, Taker
    <3> QED
      BY <1>6, <3>2 DEF Takes
  <2>2. Wanted(o) = "room" /\ LineOf(o) = mvar.line.line
    BY <1>6, WantedIs, LineIsOf
  <2> QED
    BY <1>3, <1>6, <2>1, <2>2 DEF WaitsFor
<1>7. CASE program[o] = "recv"
  <2>1. Waits(chan.takers)
    BY <1>3, <1>7 DEF IsIn, Waits
  <2>2. Wanted(o) = "item" /\ LineOf(o) = chan.takers.line
    BY <1>7, WantedIs, LineIsOf
  <2>3. chan.items = <<>> /\ ~chan.closed
    BY <1>1, <2>1, LinesHere DEF ChanHeld
  <2> QED
    BY <1>3, <1>7, <2>2, <2>3 DEF WaitsFor
<1>8. CASE program[o] = "send"
  <2>1. Waits(chan.senders)
    BY <1>3, <1>8 DEF IsIn, Waits
  <2>2. Wanted(o) = "space" /\ LineOf(o) = chan.senders.line
    BY <1>8, WantedIs, LineIsOf
  <2>3. chan.count >= Capacity /\ ~chan.closed /\ chan.count = Len(chan.items)
    BY <1>1, <2>1, LinesHere DEF ChanHeld
  <2>4. ~Waits(chan.takers)
    <3>1. Capacity \in Nat \ {0}
      BY SizeAssumption
    <3>2. Waits(chan.takers) => chan.items = <<>>
      BY <1>1, LinesHere DEF ChanHeld
    <3> QED
      BY <2>3, <3>1, <3>2
  <2> QED
    BY <1>3, <1>8, <2>2, <2>3, <2>4 DEF WaitsFor
<1>9. CASE program[o] \in Acquires
  <2>1. Waits(sem.line)
    BY <1>3, <1>9 DEF IsIn, Waits
  <2>2. Wanted(o) = "permits" /\ LineOf(o) = sem.line.line
    BY <1>9, WantedIs, LineIsOf
  <2> QED
    BY <1>3, <1>9, <2>1, <2>2 DEF WaitsFor
<1> QED
  BY <1>3, <1>5, <1>6, <1>7, <1>8, <1>9

(* The front of a line is ahead of all others in it.                        *)
LEMMA FirstAhead ==
  ASSUME NEW l \in Line, LineOK(l), Waits(l), NEW q, q = First(l).op, NEW o, o # q, IsIn(l, o), LineOf(o) = l.line
  PROVE  Ahead(q, o)
<1>1. First(l) \in l.line /\ \A f \in l.line : First(l).num <= f.num /\ f.num \in Nat
  BY FirstOf, LineIs
<1>2. PICK f \in l.line : f.op = o
  BY DEF IsIn
<1>3. First(l).num # f.num
  BY <1>1, <1>2 DEF LineOK
<1>4. First(l).num < f.num
  BY <1>1, <1>3
<1> QED
  BY <1>1, <1>2, <1>4 DEF Ahead

LEMMA TurnFront ==
  ASSUME NEW l \in Line, LineOK(l), NEW a,
         \A q \in Op, o \in Op : q = First(l).op /\ Waits(l) /\ status[o] = "waiting" /\ Wanted(q) = Wanted(o)
                                 => IsIn(l, o) /\ LineOf(o) = l.line
  PROVE  InTurn(a, AtFront(l))
<1> SUFFICES ASSUME NEW q \in Op \cap AtFront(l), NEW o \in Op \ AtFront(l), status[o] = "waiting", Wanted(q) = Wanted(o)
             PROVE  Ahead(q, o)
  BY DEF InTurn
<1>1. Waits(l) /\ q = First(l).op /\ o # q
  BY DEF AtFront
<1> QED
  BY <1>1, FirstAhead

LEMMA TurnMVar ==
  ASSUME IInv, NEW a
  PROVE  InTurn(a, AtFront(mvar.line))
<1>1. mvar.line \in Line /\ LineOK(mvar.line) /\ MVarLine(program, World, {}) /\ World.mvar = mvar
  BY LinesHere, WorldHere
<1>2. ASSUME NEW q \in Op, NEW o \in Op, q = First(mvar.line).op, Waits(mvar.line),
             status[o] = "waiting", Wanted(q) = Wanted(o)
      PROVE  IsIn(mvar.line, o) /\ LineOf(o) = mvar.line.line
  <2>1. First(mvar.line) \in mvar.line.line /\ q # None
    BY <1>1, <1>2, FirstOf, NeedIs
  <2>2. program[q] \in Takes \cup {"putMVar"}
    BY <1>1, <1>2, <2>1 DEF MVarLine, Taker, Putter
  <2>3. Wanted(q) \in {"value", "room"}
    BY <2>2, WantedIs
  <2> QED
    BY <1>2, <2>3, WaitingFor DEF WaitsFor
<1> QED
  BY <1>1, <1>2, TurnFront

LEMMA TurnTakers ==
  ASSUME IInv, NEW a
  PROVE  InTurn(a, AtFront(chan.takers))
<1>1. chan.takers \in Line /\ LineOK(chan.takers) /\ ChanLines(program, World, {}) /\ World.chan = chan
  BY LinesHere, WorldHere
<1>2. ASSUME NEW q \in Op, NEW o \in Op, q = First(chan.takers).op, Waits(chan.takers),
             status[o] = "waiting", Wanted(q) = Wanted(o)
      PROVE  IsIn(chan.takers, o) /\ LineOf(o) = chan.takers.line
  <2>1. First(chan.takers) \in chan.takers.line
    BY <1>1, <1>2, FirstOf
  <2>2. program[q] = "recv"
    BY <1>1, <1>2, <2>1 DEF ChanLines
  <2>3. Wanted(q) = "item"
    BY <2>2, WantedIs
  <2> QED
    BY <1>2, <2>3, WaitingFor DEF WaitsFor
<1> QED
  BY <1>1, <1>2, TurnFront

LEMMA TurnSenders ==
  ASSUME IInv, NEW a
  PROVE  InTurn(a, AtFront(chan.senders))
<1>1. chan.senders \in Line /\ LineOK(chan.senders) /\ ChanLines(program, World, {}) /\ World.chan = chan
  BY LinesHere, WorldHere
<1>2. ASSUME NEW q \in Op, NEW o \in Op, q = First(chan.senders).op, Waits(chan.senders),
             status[o] = "waiting", Wanted(q) = Wanted(o)
      PROVE  IsIn(chan.senders, o) /\ LineOf(o) = chan.senders.line
  <2>1. First(chan.senders) \in chan.senders.line
    BY <1>1, <1>2, FirstOf
  <2>2. program[q] = "send"
    BY <1>1, <1>2, <2>1 DEF ChanLines
  <2>3. Wanted(q) = "space"
    BY <2>2, WantedIs
  <2> QED
    BY <1>2, <2>3, WaitingFor DEF WaitsFor
<1> QED
  BY <1>1, <1>2, TurnFront

LEMMA TurnNobody ==
  ASSUME NEW a
  PROVE  InTurn(a, {})
  BY DEF InTurn

(* A close leaves nobody in the lines of the channel.                       *)
LEMMA TurnWoke ==
  ASSUME IInv, NEW a
  PROVE  InTurn(a, Woke(World))
<1>1. /\ World \in Worlds /\ program \in [Op -> Calls] /\ ChanLines(program, World, {}) /\ World.chan = chan
  BY LinesHere, WorldHere
<1>2. \A e \in chan.takers.line : program[e.op] = "recv"
  BY <1>1 DEF ChanLines
<1>3. \A e \in chan.senders.line : program[e.op] = "send"
  BY <1>1 DEF ChanLines
<1>4. ASSUME NEW q \in Op \cap Woke(World), NEW o \in Op \ Woke(World), status[o] = "waiting", Wanted(q) = Wanted(o)
      PROVE  FALSE
  <2>1. program[q] \in {"recv", "send"}
    BY <1>1, <1>2, <1>3 DEF Woke
  <2>2. Wanted(q) \in {"item", "space"}
    BY <2>1, WantedIs
  <2>3. IsIn(chan.takers, o) \/ IsIn(chan.senders, o)
    BY <1>4, <2>2, WaitingFor DEF WaitsFor
  <2>4. o \in Woke(World)
    BY <1>1, <2>3 DEF Woke, IsIn
  <2> QED
    BY <2>4
<1> QED
  BY <1>4 DEF InTurn

(* Who is served is ahead of who is not: what is needed up to him is no     *)
(* more.  The line may be without a, which is leaving it.                   *)
LEMMA TurnServed ==
  ASSUME IInv, NEW a, NEW n \in Nat, NEW S \in SUBSET sem.line.line, \A e \in sem.line.line \ S : e.op = a
  PROVE  InTurn(a, {e.op : e \in Served(n, S)})
<1> DEFINE B(e) == {f.op : f \in {g \in S : g.num <= e.num}}
           W    == {e.op : e \in Served(n, S)}
<1>1. sem.line \in Line /\ LineOK(sem.line) /\ SemLine(program, World, {}) /\ World.sem = sem
  BY LinesHere, WorldHere
<1>2. \A e \in sem.line.line : e.op \in Op /\ program[e.op] \in Acquires /\ e.num \in Nat
  BY <1>1, LineIs DEF SemLine, Behind
<1>3. Served(n, S) \subseteq S /\ \A e \in S : e \in Served(n, S) <=> Needed(B(e)) <= n
  BY DEF Served
<1>4. \A e \in S : B(e) \in SUBSET Op
  BY <1>2
<1>5. ASSUME NEW q \in Op \cap W, NEW o \in Op \ W, o # a, status[o] = "waiting", Wanted(q) = Wanted(o)
      PROVE  Ahead(q, o)
  <2>1. PICK e \in Served(n, S) : e.op = q
    OBVIOUS
  <2>2. e \in S /\ e \in sem.line.line /\ program[q] \in Acquires
    BY <1>2, <1>3, <2>1
  <2>3. Wanted(q) = "permits"
    BY <2>2, WantedIs
  <2>4. IsIn(sem.line, o) /\ LineOf(o) = sem.line.line
    BY <1>5, <2>3, WaitingFor DEF WaitsFor
  <2>5. PICK f \in sem.line.line : f.op = o
    BY <2>4 DEF IsIn
  <2>6. f \in S /\ f \notin Served(n, S)
    BY <1>5, <2>5
  <2>7. ~(Needed(B(f)) <= n) /\ Needed(B(e)) <= n
    BY <1>3, <2>1, <2>2, <2>6
  <2>8. B(e) \in SUBSET Op /\ B(f) \in SUBSET Op
    BY <1>4, <2>2, <2>6
  <2>9. f.num <= e.num => B(f) \subseteq B(e)
    BY <1>2, <2>2, <2>6
  <2> HIDE DEF B, W
  <2>10. ~(f.num <= e.num)
    <3> SUFFICES ASSUME f.num <= e.num PROVE FALSE
      OBVIOUS
    <3>1. Needed(B(f)) <= Needed(B(e)) /\ Needed(B(f)) \in Nat /\ Needed(B(e)) \in Nat
      BY <2>8, <2>9, NeededLess, NeededFinite
    <3> QED
      BY <2>7, <3>1
  <2>11. e.num < f.num
    BY <1>2, <2>2, <2>5, <2>10
  <2> QED
    BY <2>1, <2>2, <2>4, <2>5, <2>11 DEF Ahead
<1> QED
  BY <1>5 DEF InTurn

-----------------------------------------------------------------------------
(* The calls.                                                               *)
LEMMA WaitFair ==
  ASSUME IInv, NEW a \in Op, status[a] = "idle", program[a] \notin Pinneds, NEW y, Serves(World, y, a, {}),
         NEW k, NEW u, u = Wait(y, a, k)
  PROVE  Fair(u)
<1>1. Serves(y, u, a, {}) /\ u.status[a] = "waiting"
  BY WaitServes DEF Serves
<1>2. Serves(World, u, a, {} \cup {})
  BY <1>1, ServesTwice
<1>3. Serves(World, u, a, {}) /\ InTurn(a, {})
  BY <1>2, TurnNobody
<1>4. ~Gets(u, a)
  BY <1>1 DEF Gets
<1> QED
  BY <1>3, <1>4, FairBy

LEMMA GoFair ==
  ASSUME IInv, NEW a \in Op, status[a] # "waiting", Unwanted(a), NEW W, InTurn(a, W), NEW y, Serves(World, y, a, W),
         NEW v, NEW u, u = Done(y, a, v)
  PROVE  Fair(u)
<1>1. Serves(y, u, None, {a})
  BY DoneServes DEF Serves
<1>2. Serves(y, u, a, {a})
  BY <1>1, ServesMore
<1>3. Serves(y, u, a, {})
  BY <1>2 DEF Serves
<1>4. Serves(World, u, a, W \cup {})
  BY <1>3, ServesTwice
<1>5. Serves(World, u, a, W)
  BY <1>4
<1> QED
  BY <1>5, FairBy

LEMMA TakeFair ==
  ASSUME IInv, NEW a \in Op, status[a] = "idle", program[a] \in Takes, NEW u, u = TakeOrWait(World, a)
  PROVE  Fair(u)
<1>1. IsWorld(World) /\ World.mvar = mvar /\ program[a] \notin Pinneds
  BY WorldHere DEF Takes, Pinneds
<1>2. CASE mvar.value = None
  <2> DEFINE m == [mvar EXCEPT !.line = Enter(@, a, None)]
             y == [World EXCEPT !.mvar = m]
  <2>1. u = Wait(y, a, mvar.line.next)
    BY <1>1, <1>2 DEF TakeOrWait
  <2>2. y = [World EXCEPT !.mvar = m]
    OBVIOUS
  <2> HIDE DEF m, y
  <2>3. Serves(World, y, a, {})
    BY <1>1, <2>2, FieldServes, ServesMore
  <2> QED
    BY <1>1, <2>1, <2>3, WaitFair
<1>3. CASE mvar.value # None
  <2> DEFINE y == Refill(World)
             W == AtFront(mvar.line)
  <2>1. u = Done(y, a, mvar.value)
    BY <1>1, <1>3 DEF TakeOrWait
  <2>2. Serves(World, y, None, W)
    BY <1>1, RefillServes
  <2>3. InTurn(a, W)
    BY TurnMVar
  <2>4. Unwanted(a)
    BY <1>3, WaitingFor, WantedIs DEF Unwanted, WaitsFor
  <2> HIDE DEF y, W
  <2>5. Serves(World, y, a, W)
    BY <2>2, ServesMore
  <2> QED
    BY <2>1, <2>3, <2>4, <2>5, GoFair
<1> QED
  BY <1>2, <1>3

LEMMA PutFair ==
  ASSUME IInv, NEW a \in Op, status[a] = "idle", program[a] = "putMVar", NEW u, u = PutOrWait(World, a)
  PROVE  Fair(u)
<1> DEFINE in == [World EXCEPT !.live = @ \cup {a}]
<1>1. IsWorld(World) /\ World.mvar = mvar /\ program[a] \notin Pinneds
  BY WorldHere DEF Pinneds
<1>2. Serves(World, in, a, {}) /\ in.mvar = mvar /\ IsWorld(in)
  BY <1>1, LiveServes DEF Serves
<1>3. CASE mvar.value = None
  <2> DEFINE y == Deliver(in, a)
             W == AtFront(mvar.line)
  <2>1. u = Done(y, a, None)
    BY <1>1, <1>3 DEF PutOrWait
  <2> HIDE DEF in
  <2>2. Serves(in, y, None, W)
    BY <1>2, DeliverServes
  <2>3. InTurn(a, W)
    BY TurnMVar
  <2>4. Unwanted(a)
    BY <1>3, WaitingFor, WantedIs DEF Unwanted, WaitsFor
  <2> HIDE DEF y, W
  <2>5. Serves(in, y, a, W)
    BY <2>2, ServesMore
  <2>6. Serves(World, y, a, {} \cup W)
    BY <1>2, <2>5, ServesTwice
  <2>7. Serves(World, y, a, W)
    BY <2>6
  <2> QED
    BY <2>1, <2>3, <2>4, <2>7, GoFair
<1>4. CASE mvar.value # None
  <2> DEFINE m == [mvar EXCEPT !.line = Enter(@, a, a)]
             y == [in EXCEPT !.mvar = m]
  <2>1. u = Wait(y, a, mvar.line.next)
    BY <1>1, <1>2, <1>4 DEF PutOrWait
  <2>2. y = [in EXCEPT !.mvar = m]
    OBVIOUS
  <2> HIDE DEF in, m, y
  <2>3. Serves(in, y, a, {})
    BY <1>2, <2>2, FieldServes, ServesMore
  <2>4. Serves(World, y, a, {} \cup {})
    BY <1>2, <2>3, ServesTwice
  <2>5. Serves(World, y, a, {})
    BY <2>4
  <2> QED
    BY <1>1, <2>1, <2>5, WaitFair
<1> QED
  BY <1>3, <1>4

LEMMA RecvFair ==
  ASSUME IInv, NEW a \in Op, status[a] = "idle", program[a] = "recv", NEW u, u = Recv(World, a)
  PROVE  Fair(u)
<1>1. IsWorld(World) /\ World.chan = chan /\ program[a] \notin Pinneds
  BY WorldHere DEF Pinneds
<1>2. CASE chan.items # <<>>
  <2> DEFINE y == TryRecvNow(World)
             Z == {}
  <2>1. u = Done(y, a, Head(chan.items))
    BY <1>1, <1>2 DEF Recv
  <2>2. Serves(World, y, None, Z) \/ Serves(World, y, None, AtFront(chan.senders))
    BY <1>1, TryRecvNowServes
  <2>3. InTurn(a, Z) /\ InTurn(a, AtFront(chan.senders))
    BY TurnSenders, TurnNobody
  <2>4. Unwanted(a)
    BY <1>2, WaitingFor, WantedIs DEF Unwanted, WaitsFor
  <2> HIDE DEF y, Z
  <2>5. PICK W : Serves(World, y, None, W) /\ InTurn(a, W)
    BY <2>2, <2>3
  <2>6. Serves(World, y, a, W)
    BY <2>5, ServesMore
  <2> QED
    BY <2>1, <2>4, <2>5, <2>6, GoFair
<1>3. CASE chan.items = <<>> /\ chan.closed
  <2>1. u = Done(World, a, None)
    BY <1>1, <1>3 DEF Recv
  <2>2. Unwanted(a)
    BY <1>3, WaitingFor, WantedIs DEF Unwanted, WaitsFor
  <2>3. Serves(World, World, a, {}) /\ InTurn(a, {})
    BY <1>1, TurnNobody DEF Serves
  <2> QED
    BY <2>1, <2>2, <2>3, GoFair
<1>4. CASE chan.items = <<>> /\ ~chan.closed
  <2> DEFINE m == [chan EXCEPT !.takers = Enter(@, a, None)]
             y == [World EXCEPT !.chan = m]
  <2>1. u = Wait(y, a, chan.takers.next)
    BY <1>1, <1>4 DEF Recv
  <2>2. y = [World EXCEPT !.chan = m]
    OBVIOUS
  <2> HIDE DEF m, y
  <2>3. Serves(World, y, a, {})
    BY <1>1, <2>2, FieldServes, ServesMore
  <2> QED
    BY <1>1, <2>1, <2>3, WaitFair
<1> QED
  BY <1>2, <1>3, <1>4

LEMMA SendersWait ==
  ASSUME IInv, NEW a \in Op, Wanted(a) = "space", chan.closed \/ Room(chan)
  PROVE  Unwanted(a)
<1>1. chan.count \in Nat /\ Capacity \in Nat
  BY WorldHere, WorldIs, SizeAssumption
<1>2. ASSUME NEW o \in Op, status[o] = "waiting", Wanted(o) = "space" PROVE FALSE
  BY <1>1, <1>2, WaitingFor DEF WaitsFor, Room
<1> QED
  BY <1>2 DEF Unwanted

LEMMA SendFair ==
  ASSUME IInv, NEW a \in Op, status[a] = "idle", program[a] = "send", NEW u, u = Send(World, a)
  PROVE  Fair(u)
<1>1. IsWorld(World) /\ World.chan = chan /\ program[a] \notin Pinneds
  BY WorldHere DEF Pinneds
<1>2. CASE chan.closed \/ Room(chan)
  <2> DEFINE y == TrySendNow(World, a)
             Z == {}
  <2>1. u = Done(y, a, None)
    BY <1>1, <1>2 DEF Send
  <2>2. Serves(World, y, a, Z) \/ Serves(World, y, a, AtFront(chan.takers))
    BY <1>1, TrySendNowServes
  <2>3. InTurn(a, Z) /\ InTurn(a, AtFront(chan.takers))
    BY TurnTakers, TurnNobody
  <2>4. Unwanted(a)
    BY <1>2, SendersWait, WantedIs
  <2> HIDE DEF y, Z
  <2>5. PICK W : Serves(World, y, a, W) /\ InTurn(a, W)
    BY <2>2, <2>3
  <2> QED
    BY <2>1, <2>4, <2>5, GoFair
<1>3. CASE ~(chan.closed \/ Room(chan))
  <2> DEFINE m  == [chan EXCEPT !.senders = Enter(@, a, a)]
             in == [World EXCEPT !.chan = m]
             y  == [in EXCEPT !.live = @ \cup {a}]
  <2>1. u = Wait(y, a, chan.senders.next)
    BY <1>1, <1>3 DEF Send
  <2>2. in = [World EXCEPT !.chan = m]
    OBVIOUS
  <2>3. y = [in EXCEPT !.live = @ \cup {a}]
    OBVIOUS
  <2> HIDE DEF m, in, y
  <2>4. Serves(World, in, a, {}) /\ IsWorld(in)
    BY <1>1, <2>2, FieldServes, ServesMore DEF Serves
  <2>5. Serves(in, y, a, {})
    BY <2>3, <2>4, LiveServes
  <2>6. Serves(World, y, a, {} \cup {})
    BY <2>4, <2>5, ServesTwice
  <2>7. Serves(World, y, a, {})
    BY <2>6
  <2> QED
    BY <1>1, <2>1, <2>7, WaitFair
<1> QED
  BY <1>2, <1>3

LEMMA AcquireFair ==
  ASSUME IInv, NEW a \in Op, status[a] = "idle", program[a] \in Acquires, NEW u, u = AcquireOrWait(World, a)
  PROVE  Fair(u)
<1>1. IsWorld(World) /\ World.sem = sem /\ program[a] \notin Pinneds
  BY WorldHere DEF Acquires, Pinneds
<1>2. CASE Free(World, a)
  <2> DEFINE m == [sem EXCEPT !.permits = @ - Need[a]]
             y == [World EXCEPT !.sem = m]
  <2>1. u = Done(y, a, a)
    BY <1>1, <1>2 DEF AcquireOrWait, TakePermits
  <2>2. y = [World EXCEPT !.sem = m]
    OBVIOUS
  <2> HIDE DEF m, y
  <2>3. Serves(World, y, a, {}) /\ InTurn(a, {})
    BY <1>1, <2>2, FieldServes, ServesMore, TurnNobody
  <2>4. Unwanted(a)
    BY <1>1, <1>2, WaitingFor, WantedIs DEF Unwanted, WaitsFor, Free
  <2> QED
    BY <2>1, <2>3, <2>4, GoFair
<1>3. CASE ~Free(World, a)
  <2> DEFINE m == [sem EXCEPT !.line = Enter(@, a, None)]
             y == [World EXCEPT !.sem = m]
  <2>1. u = Wait(y, a, sem.line.next)
    BY <1>1, <1>3 DEF AcquireOrWait
  <2>2. y = [World EXCEPT !.sem = m]
    OBVIOUS
  <2> HIDE DEF m, y
  <2>3. Serves(World, y, a, {})
    BY <1>1, <2>2, FieldServes, ServesMore
  <2> QED
    BY <1>1, <2>1, <2>3, WaitFair
<1> QED
  BY <1>2, <1>3

(* A step of an operation that has begun, and has been put aside in x.      *)
SetAside(x, a) ==
  /\ IsWorld(x) /\ Serves(World, x, a, {})
  /\ x.mvar = mvar /\ x.chan = chan /\ x.sem = sem /\ x.live = live

LEMMA ThenFair ==
  ASSUME IInv, NEW a \in Op, status[a] # "waiting", NEW x, SetAside(x, a), NEW W, InTurn(a, W), NEW u, Serves(x, u, a, W),
         Gets(u, a) => Unwanted(a)
  PROVE  Fair(u)
<1>1. Serves(World, u, a, {} \cup W)
  BY ServesTwice DEF SetAside
<1>2. Serves(World, u, a, W)
  BY <1>1
<1> QED
  BY <1>2, FairBy

LEMMA NothingGot ==
  ASSUME NEW a \in Op, status[a] \notin {"idle", "waiting"}, NEW u,
         program[a] \notin Pinneds \/ (u.taken[a] = taken[a] /\ u.live = live)
  PROVE  ~Gets(u, a)
  BY DEF Gets

LEMMA StayFair ==
  ASSUME IInv, NEW a \in Op, status[a] = "ready", NEW x, SetAside(x, a), x.taken[a] = taken[a]
  PROVE  Fair(x)
<1>1. x.live = live /\ Serves(x, x, a, {})
  BY DEF SetAside, Serves
<1>2. ~Gets(x, a)
  BY <1>1, NothingGot
<1> QED
  BY <1>1, <1>2, TurnNobody, ThenFair

Obtains(y, u, a, v) == u = [y EXCEPT !.taken[a] = v]

LEMMA TakenServes ==
  ASSUME NEW y, IsWorld(y), NEW a \in Op, NEW v, NEW u, Obtains(y, u, a, v)
  PROVE  Serves(y, u, a, {}) /\ u.taken[a] = v /\ u.live = y.live
  BY DEF Serves, IsWorld, Obtains

(* Taken after a handler has served others.                                 *)
LEMMA TakenFair ==
  ASSUME IInv, NEW a \in Op, status[a] = "ready", NEW x, SetAside(x, a), NEW W, InTurn(a, W), NEW y, Serves(x, y, None, W),
         Unwanted(a), NEW v, NEW u, Obtains(y, u, a, v)
  PROVE  Fair(u)
<1>0. IsWorld(y)
  BY DEF Serves
<1>1. Serves(x, y, a, W) /\ IsWorld(y)
  BY <1>0, ServesMore
<1>2. Serves(y, u, a, {})
  BY <1>1, TakenServes
<1>3. Serves(x, u, a, W \cup {})
  BY <1>1, <1>2, ServesTwice
<1>4. Serves(x, u, a, W)
  BY <1>3
<1> QED
  BY <1>4, ThenFair

LEMMA TryTakeFair ==
  ASSUME IInv, NEW a \in Op, status[a] = "ready", program[a] = "tryTakeMVar", NEW x, SetAside(x, a), x.taken[a] = taken[a],
         NEW u, u = TryTake(x, a)
  PROVE  Fair(u)
<1>1. IsWorld(x) /\ x.mvar = mvar
  BY DEF SetAside
<1>2. CASE mvar.value = None
  <2>1. u = x
    BY <1>1, <1>2 DEF TryTake
  <2> QED
    BY <2>1, StayFair
<1>3. CASE mvar.value # None
  <2> DEFINE y == Refill(x)
  <2>1. Obtains(y, u, a, mvar.value)
    BY <1>1, <1>3 DEF TryTake, Obtains
  <2>2. Serves(x, y, None, AtFront(mvar.line))
    BY <1>1, RefillServes
  <2> HIDE DEF y
  <2>3. Unwanted(a)
    BY <1>3, WaitingFor, WantedIs DEF Unwanted, WaitsFor
  <2> QED
    BY <2>1, <2>2, <2>3, TurnMVar, TakenFair
<1> QED
  BY <1>2, <1>3

LEMMA TryPutFair ==
  ASSUME IInv, NEW a \in Op, status[a] = "ready", program[a] = "tryPutMVar", NEW x, SetAside(x, a), x.taken[a] = taken[a],
         NEW u, u = TryPut(x, a)
  PROVE  Fair(u)
<1>1. IsWorld(x) /\ x.mvar = mvar
  BY DEF SetAside
<1>2. CASE mvar.value # None
  <2>1. u = x
    BY <1>1, <1>2 DEF TryPut
  <2> QED
    BY <2>1, StayFair
<1>3. CASE mvar.value = None
  <2> DEFINE y == [x EXCEPT !.live = @ \cup {a}]
  <2>1. u = Deliver(y, a)
    BY <1>1, <1>3 DEF TryPut
  <2>2. Serves(x, y, a, {}) /\ IsWorld(y) /\ y.mvar = mvar
    BY <1>1, LiveServes DEF Serves
  <2> HIDE DEF y
  <2>3. Serves(y, u, a, AtFront(mvar.line))
    BY <2>1, <2>2, DeliverServes, ServesMore
  <2>4. Serves(x, u, a, {} \cup AtFront(mvar.line))
    BY <2>2, <2>3, ServesTwice
  <2>5. Serves(x, u, a, AtFront(mvar.line))
    BY <2>4
  <2>6. Unwanted(a)
    BY <1>3, WaitingFor, WantedIs DEF Unwanted, WaitsFor
  <2> QED
    BY <2>5, <2>6, TurnMVar, ThenFair
<1> QED
  BY <1>2, <1>3

LEMMA TryRecvFair ==
  ASSUME IInv, NEW a \in Op, status[a] = "ready", program[a] = "tryRecv", NEW x, SetAside(x, a), x.taken[a] = taken[a],
         NEW u, Obtains(TryRecvNow(x), u, a, IF x.chan.items = <<>> THEN None ELSE Head(x.chan.items))
  PROVE  Fair(u)
<1>1. IsWorld(x) /\ x.chan = chan /\ x.live = live
  BY DEF SetAside
<1>2. CASE chan.items = <<>>
  <2>1. Obtains(x, u, a, None)
    BY <1>1, <1>2 DEF TryRecvNow, Obtains
  <2>2. Serves(x, u, a, {}) /\ u.taken[a] = None /\ u.live = live
    BY <1>1, <2>1, TakenServes
  <2>3. taken[a] = None
    <3>1. TakenOK(program, World, {}) /\ World.taken = taken /\ World.status = status
      BY WorldHere DEF IInv, Whole, Sound
    <3> QED
      BY <3>1 DEF TakenOK
  <2>4. ~Gets(u, a)
    BY <2>2, <2>3, NothingGot
  <2> QED
    BY <2>2, <2>4, TurnNobody, ThenFair
<1>3. CASE chan.items # <<>>
  <2> DEFINE y == TryRecvNow(x)
             Z == {}
  <2>1. Obtains(y, u, a, Head(chan.items))
    BY <1>1, <1>3 DEF Obtains
  <2>2. Serves(x, y, None, Z) \/ Serves(x, y, None, AtFront(chan.senders))
    BY <1>1, TryRecvNowServes
  <2>3. InTurn(a, Z) /\ InTurn(a, AtFront(chan.senders))
    BY TurnSenders, TurnNobody
  <2>4. Unwanted(a)
    BY <1>3, WaitingFor, WantedIs DEF Unwanted, WaitsFor
  <2> HIDE DEF y, Z
  <2>5. PICK W : Serves(x, y, None, W) /\ InTurn(a, W)
    BY <2>2, <2>3
  <2> QED
    BY <2>1, <2>4, <2>5, TakenFair
<1> QED
  BY <1>2, <1>3

LEMMA TrySendFair ==
  ASSUME IInv, NEW a \in Op, status[a] = "ready", program[a] = "trySend", NEW x, SetAside(x, a), x.taken[a] = taken[a],
         NEW u, u = TrySendNow(x, a)
  PROVE  Fair(u)
<1> DEFINE Z == {}
<1>1. IsWorld(x) /\ x.chan = chan
  BY DEF SetAside
<1>2. CASE chan.closed \/ ~Room(chan)
  <2>1. u = x
    BY <1>1, <1>2, TrySendNowServes
  <2> QED
    BY <2>1, StayFair
<1>3. CASE ~(chan.closed \/ ~Room(chan))
  <2>1. Serves(x, u, a, Z) \/ Serves(x, u, a, AtFront(chan.takers))
    BY <1>1, TrySendNowServes
  <2>2. InTurn(a, Z) /\ InTurn(a, AtFront(chan.takers))
    BY TurnTakers, TurnNobody
  <2>3. Unwanted(a)
    BY <1>3, SendersWait, WantedIs
  <2> HIDE DEF Z
  <2> QED
    BY <2>1, <2>2, <2>3, ThenFair
<1> QED
  BY <1>2, <1>3

LEMMA NothingWanted ==
  ASSUME IInv, NEW a \in Op, program[a] \in {"close", "releaseN"}
  PROVE  Unwanted(a)
<1>1. program[a] \notin Takes \cup Acquires \cup {"tryTakeMVar", "putMVar", "tryPutMVar", "recv", "tryRecv", "send",
                                                  "trySend", "tryAcquireN"}
  BY DEF Takes, Acquires
<1>2. Wanted(a) = "nothing"
  BY <1>1 DEF Wanted
<1> QED
  BY <1>2, WaitingFor DEF Unwanted, WaitsFor

LEMMA CloseFair ==
  ASSUME IInv, NEW a \in Op, status[a] = "ready", program[a] = "close", NEW x, SetAside(x, a), NEW u, u = CloseChan(x)
  PROVE  Fair(u)
<1>1. Serves(x, u, None, Woke(World))
  BY CloseChanServes DEF SetAside
<1>2. Serves(x, u, a, Woke(World))
  BY <1>1, ServesMore
<1> QED
  BY <1>2, NothingWanted, TurnWoke, ThenFair

(* The permits of a are given back, or released.                            *)
LEMMA ReleaseNowServes ==
  ASSUME IInv, NEW a \in Op, NEW x, IsWorld(x), x.sem = sem, NEW u, u = ReleaseNow(x, a)
  PROVE  \E W : Serves(x, u, a, W) /\ InTurn(a, W)
<1> DEFINE n == sem.permits + Need[a]
           W == {e.op : e \in Served(n, sem.line.line)}
<1>1. n \in Nat /\ sem.line \in Line /\ LineOK(sem.line)
  BY WorldHere, WorldIs, NeedIs, LinesHere
<1>2. u = Settle(x, n, sem.line)
  BY DEF ReleaseNow
<1> HIDE DEF n
<1>3. Serves(x, u, None, W)
  BY <1>1, <1>2, SettleServes
<1>4. InTurn(a, W)
  BY <1>1, TurnServed
<1> HIDE DEF W
<1> QED
  BY <1>3, <1>4, ServesMore

LEMMA ReleaseFair ==
  ASSUME IInv, NEW a \in Op, status[a] = "ready", program[a] = "releaseN", NEW x, SetAside(x, a),
         NEW u, u = ReleaseNow([x EXCEPT !.live = @ \cup {a}], a)
  PROVE  Fair(u)
<1> DEFINE y == [x EXCEPT !.live = @ \cup {a}]
<1>0. u = ReleaseNow(y, a)
  OBVIOUS
<1>1. Serves(x, y, a, {}) /\ IsWorld(y) /\ y.sem = sem
  BY LiveServes DEF SetAside, Serves
<1> HIDE DEF y
<1>2. PICK W : Serves(y, u, a, W) /\ InTurn(a, W)
  BY <1>0, <1>1, ReleaseNowServes
<1>3. Serves(x, u, a, {} \cup W)
  BY <1>1, <1>2, ServesTwice
<1>4. Serves(x, u, a, W)
  BY <1>3
<1> QED
  BY <1>2, <1>4, NothingWanted, ThenFair

LEMMA TryAcquireFair ==
  ASSUME IInv, NEW a \in Op, status[a] = "ready", program[a] = "tryAcquireN", NEW x, SetAside(x, a), x.taken[a] = taken[a],
         NEW u, u = TryAcquire(x, a)
  PROVE  Fair(u)
<1>1. IsWorld(x) /\ x.sem = sem
  BY DEF SetAside
<1>2. CASE ~Free(x, a)
  <2>1. u = x
    BY <1>2 DEF TryAcquire
  <2> QED
    BY <2>1, StayFair
<1>3. CASE Free(x, a)
  <2> DEFINE m == [x.sem EXCEPT !.permits = @ - Need[a]]
             y == [x EXCEPT !.sem = m]
  <2>1. Obtains(y, u, a, a)
    BY <1>3 DEF TryAcquire, TakePermits, Obtains
  <2>2. y = [x EXCEPT !.sem = m]
    OBVIOUS
  <2> HIDE DEF m, y
  <2>3. Serves(x, y, None, {}) /\ InTurn(a, {})
    BY <1>1, <2>2, FieldServes, TurnNobody
  <2>4. Unwanted(a)
    BY <1>1, <1>3, WaitingFor, WantedIs DEF Unwanted, WaitsFor, Free
  <2> QED
    BY <2>1, <2>3, <2>4, TakenFair
<1> QED
  BY <1>2, <1>3

LEMMA ActFair ==
  ASSUME IInv, NEW a \in Op, status[a] = "ready", program[a] \in Pinneds, NEW x, SetAside(x, a), x.taken[a] = taken[a],
         NEW u, u = Act(x, a)
  PROVE  Fair(u)
<1>1. CASE program[a] = "tryTakeMVar"
  <2>1. u = TryTake(x, a)
    BY <1>1, ActIs
  <2> QED
    BY <1>1, <2>1, TryTakeFair
<1>2. CASE program[a] = "tryPutMVar"
  <2>1. u = TryPut(x, a)
    BY <1>2, ActIs
  <2> QED
    BY <1>2, <2>1, TryPutFair
<1>3. CASE program[a] = "tryRecv"
  <2>1. Obtains(TryRecvNow(x), u, a, IF x.chan.items = <<>> THEN None ELSE Head(x.chan.items))
    BY <1>3, ActIs DEF Obtains
  <2> QED
    BY <1>3, <2>1, TryRecvFair
<1>4. CASE program[a] = "trySend"
  <2>1. u = TrySendNow(x, a)
    BY <1>4, ActIs
  <2> QED
    BY <1>4, <2>1, TrySendFair
<1>5. CASE program[a] = "close"
  <2>1. u = CloseChan(x)
    BY <1>5, ActIs
  <2> QED
    BY <1>5, <2>1, CloseFair
<1>6. CASE program[a] = "releaseN"
  <2>1. u = ReleaseNow([x EXCEPT !.live = @ \cup {a}], a)
    BY <1>6, ActIs
  <2> QED
    BY <1>6, <2>1, ReleaseFair
<1>7. CASE program[a] = "tryAcquireN"
  <2>1. u = TryAcquire(x, a)
    BY <1>7, ActIs
  <2> QED
    BY <1>7, <2>1, TryAcquireFair
<1> QED
  BY <1>1, <1>2, <1>3, <1>4, <1>5, <1>6, <1>7 DEF Pinneds

(* What was taken is given back.                                            *)
LEMMA UndoFair ==
  ASSUME IInv, NEW a \in Op, status[a] \notin {"idle", "waiting"}, program[a] \notin Pinneds, NEW x, SetAside(x, a),
         NEW v, NEW u, u = Undo(x, a, v)
  PROVE  Fair(u)
<1> DEFINE Z == {}
<1>1. IsWorld(x) /\ x.mvar = mvar /\ x.chan = chan /\ x.sem = sem
  BY DEF SetAside
<1>2. InTurn(a, Z) /\ Serves(x, x, None, Z)
  BY <1>1, NeedIs, TurnNobody DEF Serves
<1>3. \E W : Serves(x, u, a, W) /\ InTurn(a, W)
  <2>1. CASE program[a] \in Takes
    <3>1. Serves(x, u, None, Z) \/ Serves(x, u, None, AtFront(mvar.line))
      BY <1>1, <2>1, UndoIs, PutAnyhowServes
    <3> HIDE DEF Z
    <3> QED
      BY <1>2, <3>1, TurnMVar, ServesMore
  <2>2. CASE program[a] = "recv"
    <3>1. u = x \/ u = GiveBack(x, v)
      BY <2>2, UndoIs
    <3>2. u = GiveBack(x, v) => Serves(x, u, None, Z) \/ Serves(x, u, None, AtFront(chan.takers))
      BY <1>1, GiveBackServes
    <3> HIDE DEF Z
    <3> QED
      BY <1>2, <3>1, <3>2, TurnTakers, ServesMore
  <2>3. CASE program[a] \in Acquires
    <3>1. u = ReleaseNow(x, a)
      BY <2>3, UndoIs
    <3> QED
      BY <1>1, <3>1, ReleaseNowServes
  <2>4. CASE program[a] \notin Takes \cup {"recv"} \cup Acquires
    <3>1. u = x
      BY <2>4, UndoIs
    <3> HIDE DEF Z
    <3> QED
      BY <1>2, <3>1, ServesMore
  <2> QED
    BY <2>1, <2>2, <2>3, <2>4
<1>4. PICK W : Serves(x, u, a, W) /\ InTurn(a, W)
  BY <1>3
<1>5. ~Gets(u, a)
  BY NothingGot
<1> QED
  BY <1>4, <1>5, ThenFair

(* A World in which only the operation a is elsewhere.                      *)
Same(y) ==
  /\ IsWorld(y) /\ y.mvar = mvar /\ y.chan = chan /\ y.sem = sem
  /\ y.status = status /\ y.taken = taken /\ y.live = live

LEMMA SameIs ==
  ASSUME IInv
  PROVE  /\ Same(World)
         /\ \A m : Same([World EXCEPT !.runQ = m]) /\ Same([World EXCEPT !.cleanups = m])
<1>1. Same(World)
  BY WorldHere DEF Same
<1> DEFINE w == World
<1>2. Same(w)
  BY <1>1
<1> HIDE DEF w
<1>3. ASSUME NEW m PROVE Same([w EXCEPT !.runQ = m]) /\ Same([w EXCEPT !.cleanups = m])
  <2>1. ASSUME NEW x, x = [w EXCEPT !.runQ = m] \/ x = [w EXCEPT !.cleanups = m] PROVE Same(x)
    <3>1. /\ IsWorld(x) /\ x.mvar = w.mvar /\ x.chan = w.chan /\ x.sem = w.sem
          /\ x.status = w.status /\ x.taken = w.taken /\ x.live = w.live
      <4>1. IsWorld(w)
        BY <1>2 DEF Same
      <4> QED
        BY <2>1, <4>1 DEF IsWorld
    <3> QED
      BY <1>2, <3>1 DEF Same
  <2> QED
    BY <2>1
<1> QED
  BY <1>1, <1>3 DEF w

LEMMA SameAside ==
  ASSUME IInv, NEW a \in Op, NEW w, Same(w)
  PROVE  SetAside(w, a)
<1>1. World.status = status /\ World.taken = taken /\ World.live = live
  BY WorldHere
<1> QED
  BY <1>1 DEF SetAside, Same, Serves

StatusSet(w, x, a, s) == x = [w EXCEPT !.status[a] = s]

LEMMA PutAside ==
  ASSUME IInv, NEW a \in Op, NEW w, Same(w), NEW s, NEW x, StatusSet(w, x, a, s)
  PROVE  SetAside(x, a) /\ x.taken = taken /\ x.status[a] = s
<1>1. IsWorld(w)
  BY DEF Same
<1>2. /\ IsWorld(x) /\ x.mvar = w.mvar /\ x.chan = w.chan /\ x.sem = w.sem /\ x.live = w.live /\ x.taken = w.taken
      /\ x.status[a] = s /\ \A o \in Op \ {a} : x.status[o] = w.status[o]
  BY <1>1 DEF IsWorld, StatusSet
<1>3. World.status = status /\ World.taken = taken /\ World.live = live
  BY WorldHere
<1>4. Serves(World, x, a, {})
  BY <1>2, <1>3 DEF Serves, Same
<1> QED
  BY <1>2, <1>4 DEF SetAside, Same

(* The end of a body.                                                       *)
LEMMA ReleaseBodyFair ==
  ASSUME IInv, NEW a \in Op, status[a] = "inside", NEW y, Same(y), NEW u, u = Release(y, a)
  PROVE  Fair(u)
<1> DEFINE x == [y EXCEPT !.status[a] = "over", !.taken[a] = None]
<1>1. u = Undo(x, a, y.taken[a])
  BY DEF Release
<1>2. x = [mvar |-> y.mvar, chan |-> y.chan, sem |-> y.sem, runQ |-> y.runQ, status |-> [y.status EXCEPT ![a] = "over"],
           number |-> y.number, cleanups |-> y.cleanups, taken |-> [y.taken EXCEPT ![a] = None], live |-> y.live]
  <2> DEFINE z == [y EXCEPT !.status[a] = "over"]
  <2>1. IsWorld(y)
    BY DEF Same
  <2>2. x = [z EXCEPT !.taken[a] = None]
    OBVIOUS
  <2>3. z = [mvar |-> y.mvar, chan |-> y.chan, sem |-> y.sem, runQ |-> y.runQ, status |-> [y.status EXCEPT ![a] = "over"],
             number |-> y.number, cleanups |-> y.cleanups, taken |-> y.taken, live |-> y.live]
    BY <2>1 DEF IsWorld
  <2> HIDE DEF x, z
  <2> QED
    BY <2>2, <2>3
<1>3. /\ IsWorld(x) /\ x.mvar = y.mvar /\ x.chan = y.chan /\ x.sem = y.sem /\ x.live = y.live
      /\ x.taken = [y.taken EXCEPT ![a] = None] /\ x.status = [y.status EXCEPT ![a] = "over"]
  <2>1. DOMAIN y.status = Op /\ DOMAIN y.taken = Op
    BY DEF Same, IsWorld
  <2> HIDE DEF x
  <2> QED
    BY <1>2, <2>1 DEF IsWorld
<1> HIDE DEF x
<1>4. \A o \in Op \ {a} : x.status[o] = status[o] /\ x.taken[o] = taken[o]
  BY <1>3 DEF Same, IsWorld
<1>5. World.status = status /\ World.taken = taken /\ World.live = live
  BY WorldHere
<1>6. Serves(World, x, a, {})
  BY <1>3, <1>4, <1>5 DEF Serves, Same
<1>7. SetAside(x, a)
  BY <1>3, <1>6 DEF SetAside, Same
<1>8. program[a] \notin Pinneds
  <2>1. TakenOK(program, World, {})
    BY DEF IInv, Whole, Sound
  <2>2. program[a] \in {"modifyMVar", "withPermits"}
    BY <1>5, <2>1 DEF TakenOK
  <2> QED
    BY <2>2 DEF Pinneds
<1> QED
  BY <1>1, <1>7, <1>8, UndoFair

(* A waiting operation is given up.                                         *)
Withdrawn(u, a) == u = [World EXCEPT !.status[a] = "over", !.live = @ \ {a}]

LEMMA WithdrawnIs ==
  ASSUME IInv, NEW a \in Op, NEW x, Withdrawn(x, a)
  PROVE  /\ IsWorld(x) /\ Serves(World, x, a, {}) /\ x.status[a] = "over"
         /\ x.mvar = mvar /\ x.chan = chan /\ x.sem = sem
<1> DEFINE w == World
           l == w.live \ {a}
<1>1. /\ IsWorld(w) /\ w.mvar = mvar /\ w.chan = chan /\ w.sem = sem
  BY WorldHere
<1>2. x = [w EXCEPT !.status[a] = "over", !.live = l]
  BY DEF Withdrawn
<1> HIDE DEF l
<1>3. w = World
  OBVIOUS
<1> HIDE DEF w
<1>4. x = [mvar |-> w.mvar, chan |-> w.chan, sem |-> w.sem, runQ |-> w.runQ, status |-> [w.status EXCEPT ![a] = "over"],
           number |-> w.number, cleanups |-> w.cleanups, taken |-> w.taken, live |-> l]
  BY <1>1, <1>2 DEF IsWorld
<1>5. /\ IsWorld(x) /\ x.mvar = w.mvar /\ x.chan = w.chan /\ x.sem = w.sem /\ x.live = l /\ x.taken = w.taken
      /\ x.status = [w.status EXCEPT ![a] = "over"]
  BY <1>1, <1>4 DEF IsWorld
<1>6. x.status[a] = "over" /\ \A o \in Op \ {a} : x.status[o] = w.status[o]
  BY <1>1, <1>5 DEF IsWorld
<1>7. Serves(w, x, a, {})
  BY <1>5, <1>6 DEF Serves, l
<1> QED
  BY <1>1, <1>3, <1>5, <1>6, <1>7

LEMMA LeftFair ==
  ASSUME IInv, NEW a \in Op, status[a] = "waiting", program[a] \notin Pinneds,
         NEW x, Withdrawn(x, a), NEW W, a \notin W, InTurn(a, W), NEW u, Serves(x, u, None, W)
  PROVE  Fair(u)
<1>1. Serves(World, x, a, {}) /\ x.status[a] = "over"
  BY WithdrawnIs
<1>2. Serves(x, u, a, W)
  BY ServesMore
<1>3. Serves(World, u, a, {} \cup W)
  BY <1>1, <1>2, ServesTwice
<1>4. Serves(World, u, a, W)
  BY <1>3
<1>5. u.status[a] = "over"
  BY <1>1, NeedIs DEF Serves
<1>6. ~Gets(u, a)
  BY <1>5 DEF Gets
<1> QED
  BY <1>4, <1>5, <1>6, FairBy

LEMMA LineLeftFair ==
  ASSUME IInv, NEW a \in Op, status[a] = "waiting", program[a] \in Acquires,
         NEW x, Withdrawn(x, a), NEW u, u = LeaveLine(x, number[a])
  PROVE  Fair(u)
<1> DEFINE k == number[a]
           l == Leave(k, sem.line)
           W == {e.op : e \in Served(sem.permits, l.line)}
<1>1. /\ sem.line \in Line /\ LineOK(sem.line) /\ SemLine(program, World, {}) /\ World.sem = sem
      /\ World.number = number /\ sem.permits \in Nat
  BY LinesHere, WorldHere, WorldIs
<1>2. IsWorld(x) /\ x.sem = sem
  BY WithdrawnIs
<1>3. u = Settle(x, sem.permits, l)
  BY <1>2 DEF LeaveLine
<1>4. l \in Line /\ LineOK(l) /\ l.line = {e \in sem.line.line : e.num # k}
  <2>1. k \in Nat
    BY <1>1, WorldHere, WorldIs
  <2> HIDE DEF k
  <2> QED
    BY <1>1, <2>1, LeaveOf
<1>5. ASSUME NEW e \in sem.line.line PROVE e.num = k <=> e.op = a
  <2>1. LineOf(a) = sem.line.line
    BY LineIsOf
  <2> QED
    BY <2>1, EverybodyInLine DEF InLine
<1>6. a \notin W
  BY <1>4, <1>5 DEF Served
<1>7. InTurn(a, W)
  <2>1. l.line \in SUBSET sem.line.line /\ \A e \in sem.line.line \ l.line : e.op = a
    BY <1>4, <1>5
  <2> HIDE DEF l
  <2> QED
    BY <1>1, <2>1, TurnServed
<1> HIDE DEF l
<1>8. Serves(x, u, None, W)
  BY <1>2, <1>3, <1>4, SettleServes
<1> HIDE DEF W
<1> QED
  BY <1>6, <1>7, <1>8, LeftFair DEF Acquires, Pinneds

LEMMA GiveUpFair ==
  ASSUME IInv, NEW a \in Op, status[a] = "waiting", NEW u, u = GiveUp(World, a)
  PROVE  Fair(u)
<1> DEFINE x == [World EXCEPT !.status[a] = "over", !.live = @ \ {a}]
           k == number[a]
<1>1. Withdrawn(x, a)
  BY DEF Withdrawn
<1>2. program[a] \in Takes \cup Acquires \cup {"putMVar", "recv", "send"}
  BY WaitingFor, WantedIs DEF WaitsFor
<1>3. program[a] \notin Pinneds
  BY <1>2 DEF Takes, Acquires, Pinneds
<1>4. /\ program[a] \in Takes    => u = LeaveTakers(x, k)
      /\ program[a] = "putMVar"  => u = LeavePutters(x, k)
      /\ program[a] = "recv"     => u = [x EXCEPT !.chan.takers  = Leave(k, @)]
      /\ program[a] = "send"     => u = [x EXCEPT !.chan.senders = Leave(k, @)]
      /\ program[a] \in Acquires => u = LeaveLine(x, k)
  <2>1. World.number = number
    BY WorldHere
  <2>2. u = CASE program[a] \in Takes -> LeaveTakers(x, k)
              [] program[a] = "putMVar" -> LeavePutters(x, k)
              [] program[a] = "recv"  -> [x EXCEPT !.chan.takers  = Leave(k, @)]
              [] program[a] = "send"  -> [x EXCEPT !.chan.senders = Leave(k, @)]
              [] program[a] \in Acquires -> LeaveLine(x, k)
    BY <2>1 DEF GiveUp
  <2> HIDE DEF x, k
  <2> QED
    BY <2>2 DEF Takes, Acquires
<1> HIDE DEF x
<1>5. IsWorld(x)
  BY <1>1, WithdrawnIs
<1>6. CASE program[a] \in Acquires
  BY <1>1, <1>4, <1>6, LineLeftFair
<1>7. CASE program[a] \notin Acquires
  <2> HIDE DEF k
  <2>1. u = x \/ (\E m : u = [x EXCEPT !.mvar = m]) \/ (\E m : u = [x EXCEPT !.chan = m])
    BY <1>2, <1>4, <1>7 DEF LeaveTakers, LeavePutters
  <2>2. Serves(x, u, None, {})
    <3>1. CASE u = x
      BY <1>5, <3>1, NeedIs DEF Serves
    <3>2. CASE \E m : u = [x EXCEPT !.mvar = m]
      BY <1>5, <3>2, FieldServes
    <3>3. CASE \E m : u = [x EXCEPT !.chan = m]
      BY <1>5, <3>3, FieldServes
    <3> QED
      BY <2>1, <3>1, <3>2, <3>3
  <2> QED
    BY <1>1, <1>3, <2>2, TurnNobody, LeftFair
<1> QED
  BY <1>6, <1>7

-----------------------------------------------------------------------------
(* The steps of the program.                                                *)
Kept ==
  \A o, p \in Op :
    status[o] = "waiting" /\ status'[o] = "waiting" /\ Wanted(p) = Wanted(o) /\ Got(p) => Ahead(p, o)

LEMMA FairStep ==
  ASSUME NEW u, Fair(u), Become(u)
  PROVE  Kept
<1> SUFFICES ASSUME NEW o \in Op, NEW p \in Op, status[o] = "waiting", status'[o] = "waiting",
                    Wanted(p) = Wanted(o), Got(p)
             PROVE  Ahead(p, o)
  BY DEF Kept
<1>1. status' = u.status /\ taken' = u.taken /\ live' = u.live
  BY DEF Become
<1>2. Gets(u, p)
  BY <1>1 DEF Gets, Got
<1> QED
  BY <1>1, <1>2 DEF Fair

LEMMA IdleStep ==
  ASSUME UNCHANGED <<status, taken, live>>
  PROVE  Kept
  BY DEF Kept, Got

LEMMA StartFair ==
  ASSUME IInv, NEW a \in Op, Start(a)
  PROVE  Kept
<1> DEFINE u == IF program[a] \in Pinneds
                THEN [World EXCEPT !.status[a] = "ready", !.runQ = Append(@, Step(a, None, TRUE))]
                ELSE IF ScopeOf[a] \in cancelled THEN [World EXCEPT !.status[a] = "over"]
                ELSE Begin(World, a)
           q == Append(World.runQ, Step(a, None, TRUE))
           x == [World EXCEPT !.status[a] = "ready"]
           y == [World EXCEPT !.status[a] = "over"]
           z == [x EXCEPT !.runQ = q]
<1>1. status[a] = "idle" /\ Become(u)
  BY DEF Start
<1>2. Same(World)
  BY SameIs
<1>3. CASE program[a] \in Pinneds
  <2>1. u = z
    BY <1>3
  <2>0. StatusSet(World, x, a, "ready")
    BY DEF StatusSet
  <2>2. SetAside(x, a) /\ x.taken = taken /\ x.live = live
    <3> HIDE DEF x
    <3> QED
      BY <1>2, <2>0, PutAside DEF SetAside
  <2>3. z = [x EXCEPT !.runQ = q]
    OBVIOUS
  <2> HIDE DEF u, q, x, z
  <2>4. Serves(x, z, None, {}) /\ z.taken = x.taken /\ z.live = x.live
    BY <2>2, <2>3, FieldServes DEF SetAside
  <2>5. ~Gets(z, a)
    BY <1>1, <1>3, <2>2, <2>4 DEF Gets
  <2>6. Fair(z)
    BY <1>1, <2>2, <2>4, <2>5, ServesMore, TurnNobody, ThenFair
  <2> QED
    BY <1>1, <2>1, <2>6, FairStep
<1>4. CASE program[a] \notin Pinneds /\ ScopeOf[a] \in cancelled
  <2>1. u = y
    BY <1>4
  <2>0. StatusSet(World, y, a, "over")
    BY DEF StatusSet
  <2>2. SetAside(y, a) /\ y.status[a] = "over"
    <3> HIDE DEF y
    <3> QED
      BY <1>2, <2>0, PutAside
  <2> HIDE DEF u, y
  <2>3. ~Gets(y, a)
    BY <1>4, <2>2 DEF Gets
  <2>4. Serves(y, y, a, {})
    BY <2>2 DEF SetAside, Serves
  <2>5. Fair(y)
    BY <1>1, <2>2, <2>3, <2>4, TurnNobody, ThenFair
  <2> QED
    BY <1>1, <2>1, <2>5, FairStep
<1>5. CASE program[a] \notin Pinneds /\ ScopeOf[a] \notin cancelled
  <2>1. u = Begin(World, a)
    BY <1>5
  <2> HIDE DEF u
  <2>2. program \in [Op -> Calls]
    BY WorldHere
  <2>3. program[a] \in Takes \cup Acquires \cup {"putMVar", "recv", "send"}
    BY <1>5, <2>2 DEF Calls, Handoffs, Asyncs
  <2>4. Fair(u)
    <3>1. CASE program[a] \in Takes
      BY <1>1, <2>1, <3>1, BeginIs, TakeFair
    <3>2. CASE program[a] = "putMVar"
      BY <1>1, <2>1, <3>2, BeginIs, PutFair
    <3>3. CASE program[a] = "recv"
      BY <1>1, <2>1, <3>3, BeginIs, RecvFair
    <3>4. CASE program[a] = "send"
      BY <1>1, <2>1, <3>4, BeginIs, SendFair
    <3>5. CASE program[a] \in Acquires
      BY <1>1, <2>1, <3>5, BeginIs, AcquireFair
    <3> QED
      BY <2>3, <3>1, <3>2, <3>3, <3>4, <3>5
  <2> QED
    BY <1>1, <2>4, FairStep
<1> QED
  BY <1>3, <1>4, <1>5

(* The next ready step.                                                     *)
LEMMA ReadyIs ==
  ASSUME IInv, runQ # <<>>, NEW s, s = Head(runQ)
  PROVE  s.op \in Op /\ status[s.op] = "ready" /\ (s.pinned <=> program[s.op] \in Pinneds)
<1>1. QueueOK(program, World, {}) /\ World.runQ = runQ /\ World.status = status /\ World \in Worlds
  BY WorldHere DEF IInv, Whole, Sound
<1>2. runQ \in Seq(StepSet)
  BY <1>1, WorldIs
<1>3. Len(runQ) \in Nat /\ 1 \in 1..Len(runQ) /\ s = runQ[1] /\ s \in StepSet
  BY <1>2
<1>4. s.op \in Op
  BY <1>3 DEF StepSet
<1>5. InQ(runQ, s.op) /\ StepOK(program, s)
  BY <1>1, <1>3 DEF InQ, QueueOK
<1> QED
  BY <1>1, <1>4, <1>5 DEF QueueOK, StepOK

LEMMA DropFair ==
  ASSUME IInv, NEW w, Same(w), NEW s, s.op \in Op, status[s.op] = "ready", s.pinned <=> program[s.op] \in Pinneds,
         NEW u, u = Drop(w, s)
  PROVE  Fair(u)
<1> DEFINE a == s.op
           x == [w EXCEPT !.status[a] = "over"]
<1>1. u = IF s.pinned THEN x ELSE Undo(x, a, s.value)
  BY DEF Drop
<1>2. StatusSet(w, x, a, "over")
  BY DEF StatusSet
<1> HIDE DEF x
<1>3. SetAside(x, a) /\ x.taken = taken
  BY <1>2, PutAside
<1> QED
  BY <1>1, <1>3, StayFair, UndoFair

LEMMA ContinueServes ==
  ASSUME NEW w, IsWorld(w), NEW a \in Op, NEW v, NEW u, u = Continue(w, a, v)
  PROVE  Serves(w, u, a, {})
<1> DEFINE x == [w EXCEPT !.taken[a] = v]
           Z == {}
<1>1. PICK s, c : u = [[x EXCEPT !.status[a] = s] EXCEPT !.cleanups = c]
  <2>1. IsWorld(x)
    BY TakenServes DEF Obtains, Serves
  <2> DEFINE y == [x EXCEPT !.status[a] = "over"]
  <2>2. y = [y EXCEPT !.cleanups = y.cleanups]
    <3> HIDE DEF x
    <3>1. IsWorld(y)
      BY <2>1 DEF IsWorld
    <3> HIDE DEF y
    <3> QED
      BY <3>1 DEF IsWorld
  <2>3. CASE program[a] \in {"modifyMVar", "withPermits"}
    BY <2>3 DEF Continue, Register
  <2>4. CASE program[a] \notin {"modifyMVar", "withPermits"}
    <3>1. u = y
      BY <2>4 DEF Continue
    <3>2. u = [y EXCEPT !.cleanups = y.cleanups]
      BY <2>2, <3>1
    <3> QED
      BY <3>2
  <2> QED
    BY <2>3, <2>4
<1>2. Serves(w, x, a, Z) /\ IsWorld(x)
  BY TakenServes DEF Obtains, Serves
<1> DEFINE y == [x EXCEPT !.status[a] = s]
<1>3. u = [y EXCEPT !.cleanups = c]
  BY <1>1
<1> HIDE DEF x, Z
<1>4. Serves(x, y, a, Z) /\ IsWorld(y)
  BY <1>2 DEF Serves, IsWorld, Z
<1> HIDE DEF y
<1>5. Serves(y, u, a, Z)
  BY <1>3, <1>4, FieldServes, ServesMore DEF Z
<1>6. Serves(w, u, a, (Z \cup Z) \cup Z)
  BY <1>2, <1>4, <1>5, ServesTwice
<1> QED
  BY <1>6 DEF Z

LEMMA RunStepFair ==
  ASSUME IInv, RunStep
  PROVE  Kept
<1> DEFINE s == Head(runQ)
           q == Tail(runQ)
           a == s.op
           w == [World EXCEPT !.runQ = q]
           x == [w EXCEPT !.status[a] = "over"]
           u == IF ScopeOf[a] \in cancelled THEN Drop(w, s)
                ELSE IF s.pinned THEN Act(x, a) ELSE Continue(w, a, s.value)
<1>1. runQ # <<>> /\ Become(u)
  <2>1. World.runQ = runQ
    BY WorldHere
  <2> QED
    BY <2>1 DEF RunStep
<1>2. Same(w) /\ StatusSet(w, x, a, "over")
  BY SameIs DEF StatusSet
<1>3. a \in Op /\ status[a] = "ready" /\ (s.pinned <=> program[a] \in Pinneds)
  BY <1>1, ReadyIs
<1> HIDE DEF s, q, w, x
<1>4. CASE ScopeOf[a] \in cancelled
  <2>1. u = Drop(w, s)
    BY <1>4
  <2> HIDE DEF u
  <2> QED
    BY <1>1, <1>2, <1>3, <2>1, DropFair, FairStep
<1>5. CASE ScopeOf[a] \notin cancelled /\ s.pinned
  <2>1. u = Act(x, a)
    BY <1>5
  <2>2. SetAside(x, a) /\ x.taken = taken
    BY <1>2, <1>3, PutAside
  <2> HIDE DEF u, a
  <2>3. Fair(u)
    BY <1>3, <1>5, <2>1, <2>2, ActFair
  <2> QED
    BY <1>1, <2>3, FairStep
<1>6. CASE ScopeOf[a] \notin cancelled /\ ~s.pinned
  <2>1. u = Continue(w, a, s.value)
    BY <1>6
  <2>2. SetAside(w, a) /\ IsWorld(w)
    BY <1>2, <1>3, SameAside DEF Same
  <2> HIDE DEF u, a
  <2>3. Serves(w, u, a, {})
    BY <1>3, <2>1, <2>2, ContinueServes
  <2>4. ~Gets(u, a)
    BY <1>3, <1>6, NothingGot
  <2>5. Fair(u)
    BY <1>3, <2>2, <2>3, <2>4, TurnNobody, ThenFair
  <2> QED
    BY <1>1, <2>5, FairStep
<1> QED
  BY <1>4, <1>5, <1>6

LEMMA EndBodyFair ==
  ASSUME IInv, NEW a \in Op, EndBody(a)
  PROVE  Kept
<1> DEFINE c == Without(World.cleanups, {a})
           y == [World EXCEPT !.cleanups = c]
           u == Release(y, a)
<1>1. status[a] = "inside" /\ Become(u)
  BY DEF EndBody
<1>2. Same(y)
  BY SameIs
<1> HIDE DEF c, y
<1>3. Fair(u)
  BY <1>1, <1>2, ReleaseBodyFair
<1> HIDE DEF u
<1> QED
  BY <1>1, <1>3, FairStep

LEMMA RunCleanupFair ==
  ASSUME IInv, RunCleanup
  PROVE  Kept
<1> DEFINE a == Head(doomed).op
           u == Cleanup(World, a)
<1>1. doomed # <<>> /\ Become(u)
  BY DEF RunCleanup
<1>2. a \in Op
  <2>1. doomed \in Seq(Ident)
    BY DEF IInv
  <2>2. Head(doomed) \in Ident
    BY <1>1, <2>1
  <2> QED
    BY <2>2 DEF Ident
<1>3. World.status = status /\ World.taken = taken /\ World.live = live
  BY WorldHere
<1> HIDE DEF a
<1>4. CASE status[a] = "waiting"
  <2>1. u = GiveUp(World, a)
    BY <1>3, <1>4 DEF Cleanup
  <2> HIDE DEF u
  <2> QED
    BY <1>1, <1>2, <1>4, <2>1, GiveUpFair, FairStep
<1>5. CASE status[a] = "inside"
  <2>1. u = Release(World, a)
    BY <1>3, <1>5 DEF Cleanup
  <2> HIDE DEF u
  <2>2. Fair(u)
    BY <1>2, <1>5, <2>1, SameIs, ReleaseBodyFair
  <2> QED
    BY <1>1, <2>2, FairStep
<1>6. CASE status[a] \notin {"waiting", "inside"}
  <2>1. u = World
    BY <1>3, <1>6 DEF Cleanup
  <2>2. Become(World)
    BY <1>1, <2>1
  <2> QED
    BY <1>3, <2>2, IdleStep DEF Become
<1> QED
  BY <1>4, <1>5, <1>6

LEMMA DropStepFair ==
  ASSUME IInv, DropStep
  PROVE  Kept
<1> DEFINE s == Head(runQ)
           q == Tail(runQ)
           w == [World EXCEPT !.runQ = q]
           u == Drop(w, s)
<1>1. Become(u)
  <2>1. World.runQ = runQ
    BY WorldHere
  <2> QED
    BY <2>1 DEF DropStep
<1>2. runQ # <<>>
  <2>1. runQ \in Seq(StepSet) /\ dropping \in 0..Len(runQ) /\ dropping > 0
    BY WorldHere, WorldIs DEF IInv, DropStep
  <2> QED
    BY <2>1
<1>3. Same(w)
  BY SameIs
<1>4. s.op \in Op /\ status[s.op] = "ready" /\ (s.pinned <=> program[s.op] \in Pinneds)
  BY <1>2, ReadyIs
<1> HIDE DEF s, w
<1>5. Fair(u)
  BY <1>3, <1>4, DropFair
<1> HIDE DEF u
<1> QED
  BY <1>1, <1>5, FairStep

(* For any program: who waits is not passed over, by one behind it in its   *)
(* line or one that comes later, whatever is given up, given back or closed *)
(* (Waiters, refill, deliver, giveBack, settle, takeIfFree).                *)
THEOREM FirstComeFirstServed == Spec => ServedInOrder
<1>1. ASSUME IInv, Next PROVE Kept
  <2>1. CASE RunStep
    BY <1>1, <2>1, RunStepFair
  <2>2. CASE RunCleanup
    BY <1>1, <2>2, RunCleanupFair
  <2>3. CASE Close
    BY <2>3, IdleStep DEF Close
  <2>4. CASE DropStep
    BY <1>1, <2>4, DropStepFair
  <2>5. CASE \E o \in Op : Start(o) \/ EndBody(o)
    BY <1>1, <2>5, StartFair, EndBodyFair
  <2>6. CASE \E g \in Scope : CancelScope(g)
    BY <2>6, IdleStep DEF CancelScope
  <2> QED
    BY <1>1, <2>1, <2>2, <2>3, <2>4, <2>5, <2>6 DEF Next
<1>2. IInv /\ [Next]_vars => [Kept]_vars
  BY <1>1
<1>3. Spec => [][Kept]_vars
  BY <1>2, AlwaysWhole, PTL DEF Spec
<1>4. ServedInOrder <=> [][Kept]_vars
  BY DEF ServedInOrder, Kept
<1> QED
  BY <1>3, <1>4
===============================================================================
