------------------------- MODULE TaskSchedulerProofs -------------------------
(***************************************************************************)
(* The task scheduler, for any number of strands, scopes, operations and   *)
(* finalizers: what is handed over, released or pending; that a strand     *)
(* goes on once; and that a scope is given up with all below it.           *)
(***************************************************************************)
EXTENDS TaskScheduler, SequenceTheorems, FiniteSetTheorems, TLAPS

StepSet == [scope : Scope \cup {None}, strand : Strand \cup {None}, own : Op \cup Owned \cup {None}]

(* What the ready steps own, each by one of them.                           *)
OnWay == {runQ[i].own : i \in 1..Len(runQ)} \ {None}
QueueOK ==
  /\ runQ \in Seq(StepSet)
  /\ \A i, j \in 1..Len(runQ) : runQ[i].own = runQ[j].own /\ runQ[i].own # None => i = j

(* Only strands that exist run, wait or own a frame; their scope stays.     *)
StrandOK ==
  /\ begun \subseteq Strand
  /\ cur \in begun \cup {None} /\ (cur = None => starting = None)
  /\ \A i \in 1..Len(runQ) : runQ[i].strand \in begun \cup {None}
  /\ outer  \in [Strand -> begun \cup {None}]
  /\ waiter \in [Op -> begun \cup {None}]
  /\ parent \in [Scope -> Scope \cup {None}]
  /\ scopeOf \in [Strand \cup Op \cup Fin -> Scope \cup {None}]
  /\ \A t \in begun : scopeOf[t] # None

(* Values: an operation that is not over has called nothing yet.            *)
ValueOK ==
  /\ fired \subseteq Op /\ late \subseteq Op /\ starting \in Op \cup {None}
  /\ calls \in [Op -> Nat] /\ consumed \in [Op -> Nat] /\ undone \in [Op -> Nat]
  /\ \A o \in Op : o \notin fired =>
       calls[o] = 0 /\ consumed[o] = 0 /\ undone[o] = 0 /\ o \notin OnWay
  /\ \A o \in Op : scopeOf[o] = None => o \notin fired /\ o # starting
  /\ \A h \in Handoffs :
       /\ consumed[h] + undone[h] + (IF h \in OnWay THEN 1 ELSE 0) = calls[h]
       /\ consumed[h] + (IF h \in OnWay THEN 1 ELSE 0) <= 1

(* Operations and finalizers are cleanups of their own scope while open,    *)
(* operations from the time their callback is back.                         *)
Open == {o \in Op : scopeOf[o] # None /\ o \notin fired}
CleanupOK ==
  /\ cleanups  \in [Scope -> SUBSET (Op \cup Fin)]
  /\ cancelled \in [Scope -> BOOLEAN]
  /\ \A sc \in Scope : \A x \in cleanups[sc] : scopeOf[x] = sc
  /\ \A o \in Open \ {starting} : o \in cleanups[scopeOf[o]] /\ (cancelled[scopeOf[o]] => o \in late)
PendingOK == IsFiniteSet(Open) /\ pending = Cardinality(Open)

(* Releases: of finalizers, and of what a strand is spawned with.           *)
ReleaseOK ==
  /\ over \subseteq Fin
  /\ released \in [Fin \cup Owned -> Nat]
  /\ frames \in [Strand -> Seq(Fin)]
  /\ \A t \in Strand : \A i \in 1..Len(frames[t]) :
       t \in begun /\ scopeOf[frames[t][i]] = scopeOf[t]
  /\ \A f \in Fin :
       \/ scopeOf[f] = None /\ f \notin over /\ released[f] = 0
       \/ scopeOf[f] # None /\ f \in over /\ released[f] = 1
       \/ /\ scopeOf[f] # None /\ f \notin over /\ released[f] = 0
          /\ f \in cleanups[scopeOf[f]] /\ ~cancelled[scopeOf[f]]
  /\ \A u \in Owned :
       /\ u \notin begun => released[u] = 0 /\ u \notin OnWay
       /\ released[u] + (IF u \in OnWay THEN 1 ELSE 0) <= 1

IInv == QueueOK /\ StrandOK /\ ValueOK /\ CleanupOK /\ PendingOK /\ ReleaseOK

-----------------------------------------------------------------------------
(* The queue of ready steps.                                                *)

LEMMA StepIsStep ==
  ASSUME NEW sc \in Scope \cup {None}, NEW t \in Strand \cup {None}, NEW x \in Op \cup Owned \cup {None}
  PROVE  Step(sc, t, x) \in StepSet /\ Step(sc, t, x).own = x /\ Step(sc, t, x).strand = t
  BY DEF Step, StepSet

LEMMA Appended ==
  ASSUME QueueOK, NEW s \in StepSet, s.own \notin OnWay, Enqueue(s)
  PROVE  /\ QueueOK'
         /\ OnWay' = OnWay \cup ({s.own} \ {None})
         /\ \A i \in 1..Len(runQ') : runQ'[i].strand = s.strand \/ \E j \in 1..Len(runQ) : runQ'[i].strand = runQ[j].strand
<1>1. runQ \in Seq(StepSet) /\ Len(runQ) \in Nat
  BY DEF QueueOK
<1>2. /\ runQ' \in Seq(StepSet) /\ Len(runQ') = Len(runQ) + 1
      /\ \A i \in 1..Len(runQ) : runQ'[i] = runQ[i]
      /\ runQ'[Len(runQ) + 1] = s
  BY <1>1, AppendProperties DEF Enqueue
<1>3. \A i \in 1..Len(runQ') : i \in 1..Len(runQ) \/ i = Len(runQ) + 1
  BY <1>1, <1>2
<1>4. Len(runQ) + 1 \in 1..Len(runQ')
  BY <1>1, <1>2
<1>5. OnWay' = OnWay \cup ({s.own} \ {None})
  <2>1. ASSUME NEW x \in OnWay' PROVE x \in OnWay \cup ({s.own} \ {None})
    BY <1>2, <1>3 DEF OnWay
  <2>2. ASSUME NEW x \in OnWay PROVE x \in OnWay'
    <3>1. PICK i \in 1..Len(runQ) : x = runQ[i].own /\ x # None
      BY DEF OnWay
    <3> QED
      BY <3>1, <1>1, <1>2 DEF OnWay
  <2>3. s.own # None => s.own \in OnWay'
    BY <1>2, <1>4 DEF OnWay
  <2> QED
    BY <2>1, <2>2, <2>3
<1>6. \A i \in 1..Len(runQ) : runQ[i].own # None => runQ[i].own # s.own
  BY DEF OnWay
<1>7. QueueOK'
  BY <1>1, <1>2, <1>3, <1>6 DEF QueueOK
<1> QED
  BY <1>2, <1>3, <1>5, <1>7

LEMMA TwoAppended ==
  ASSUME QueueOK, NEW s \in StepSet, NEW r \in StepSet, s.own = None, r.own = None,
         runQ' = runQ \o <<s, r>>
  PROVE  /\ QueueOK'
         /\ OnWay' = OnWay
         /\ \A i \in 1..Len(runQ') :
              runQ'[i].strand \in {s.strand, r.strand} \/ \E j \in 1..Len(runQ) : runQ'[i].strand = runQ[j].strand
<1>1. runQ \in Seq(StepSet) /\ Len(runQ) \in Nat
  BY DEF QueueOK
<1>2. <<s, r>> \in Seq(StepSet) /\ Len(<<s, r>>) = 2 /\ <<s, r>>[1] = s /\ <<s, r>>[2] = r
  OBVIOUS
<1> DEFINE q == <<s, r>>
<1> HIDE DEF q
<1>3. /\ runQ' \in Seq(StepSet) /\ Len(runQ') = Len(runQ) + 2
      /\ \A i \in 1..Len(runQ) : runQ'[i] = runQ[i]
      /\ runQ'[Len(runQ) + 1] = s /\ runQ'[Len(runQ) + 2] = r
  <2>1. q \in Seq(StepSet) /\ Len(q) = 2 /\ q[1] = s /\ q[2] = r /\ runQ' = runQ \o q
    BY <1>2 DEF q
  <2> QED
    BY <1>1, <2>1, ConcatProperties
<1>4. \A i \in 1..Len(runQ') : i \in 1..Len(runQ) \/ i = Len(runQ) + 1 \/ i = Len(runQ) + 2
  BY <1>1, <1>3
<1>5. OnWay' = OnWay
  <2>1. ASSUME NEW x \in OnWay' PROVE x \in OnWay
    BY <1>3, <1>4 DEF OnWay
  <2>2. ASSUME NEW x \in OnWay PROVE x \in OnWay'
    <3>1. PICK i \in 1..Len(runQ) : x = runQ[i].own /\ x # None
      BY DEF OnWay
    <3> QED
      BY <3>1, <1>1, <1>3 DEF OnWay
  <2> QED
    BY <2>1, <2>2
<1>6. QueueOK'
  BY <1>1, <1>3, <1>4 DEF QueueOK
<1> QED
  BY <1>3, <1>4, <1>5, <1>6

LEMMA Taken ==
  ASSUME QueueOK, runQ # <<>>, runQ' = Tail(runQ)
  PROVE  LET s == Head(runQ)
         IN /\ QueueOK' /\ s \in StepSet
            /\ OnWay' = OnWay \ {s.own}
            /\ s.own # None => s.own \in OnWay
            /\ \E j \in 1..Len(runQ) : s = runQ[j]
            /\ \A i \in 1..Len(runQ') : \E j \in 1..Len(runQ) : runQ'[i] = runQ[j]
<1> DEFINE s == Head(runQ)
<1>1. runQ \in Seq(StepSet) /\ Len(runQ) \in Nat /\ Len(runQ) >= 1
  BY EmptySeq DEF QueueOK
<1>2. /\ s \in StepSet /\ runQ' \in Seq(StepSet) /\ Len(runQ') = Len(runQ) - 1
      /\ \A i \in 1..Len(runQ') : runQ'[i] = runQ[i + 1]
  BY <1>1, HeadTailProperties
<1>3. s = runQ[1] /\ 1 \in 1..Len(runQ)
  BY <1>1
<1> HIDE DEF s
<1>4. \A i \in 1..Len(runQ') : i + 1 \in 1..Len(runQ) /\ i + 1 # 1
  BY <1>1, <1>2
<1>5. \A j \in 1..Len(runQ) : j = 1 \/ (j - 1 \in 1..Len(runQ') /\ runQ[j] = runQ'[j - 1])
  BY <1>1, <1>2
<1>6. \A i, j \in 1..Len(runQ) : runQ[i].own = runQ[j].own /\ runQ[i].own # None => i = j
  BY DEF QueueOK
<1>7. OnWay' = OnWay \ {s.own}
  <2>1. ASSUME NEW x \in OnWay' PROVE x \in OnWay \ {s.own}
    <3>1. PICK i \in 1..Len(runQ') : x = runQ'[i].own /\ x # None
      BY DEF OnWay
    <3>2. i + 1 \in 1..Len(runQ) /\ x = runQ[i + 1].own /\ i + 1 # 1
      BY <3>1, <1>2, <1>4
    <3> QED
      BY <3>1, <3>2, <1>3, <1>6 DEF OnWay
  <2>2. ASSUME NEW x \in OnWay, x # s.own PROVE x \in OnWay'
    <3>1. PICK j \in 1..Len(runQ) : x = runQ[j].own /\ x # None
      BY DEF OnWay
    <3>2. j # 1
      BY <3>1, <2>2, <1>3
    <3> QED
      BY <3>1, <3>2, <1>5 DEF OnWay
  <2> QED
    BY <2>1, <2>2
<1>8. QueueOK'
  BY <1>1, <1>2, <1>4, <1>6 DEF QueueOK
<1>9. s.own # None => s.own \in OnWay
  BY <1>3 DEF OnWay
<1> QED
  BY <1>2, <1>3, <1>4, <1>7, <1>8, <1>9 DEF s

(* The steps that own x: one, or none.                                      *)
LEMMA AtMostOne ==
  ASSUME NEW S, \A x, y \in S : x = y
  PROVE  Cardinality(S) = IF S = {} THEN 0 ELSE 1
<1>1. CASE S = {}
  BY <1>1, FS_EmptySet
<1>2. ASSUME NEW x \in S PROVE Cardinality(S) = 1
  <2>1. S = {x}
    BY <1>2
  <2> QED
    BY <2>1, FS_Singleton
<1> QED
  BY <1>1, <1>2

LEMMA OnWayCounts ==
  ASSUME QueueOK, NEW x, x # None
  PROVE  /\ Cardinality({i \in 1..Len(runQ) : runQ[i].own = x}) = IF x \in OnWay THEN 1 ELSE 0
         /\ Cardinality({step \in Ready : step.own = x}) = IF x \in OnWay THEN 1 ELSE 0
<1> DEFINE I == {i \in 1..Len(runQ) : runQ[i].own = x}
           R == {step \in Ready : step.own = x}
<1>1. \A i, j \in I : i = j
  BY DEF QueueOK
<1>2. \A r, s \in R : r = s
  BY DEF QueueOK, Ready
<1>3. (I = {}) = (x \notin OnWay) /\ (R = {}) = (x \notin OnWay)
  BY DEF OnWay, Ready
<1> HIDE DEF I, R
<1>4. /\ Cardinality(I) = IF I = {} THEN 0 ELSE 1
      /\ Cardinality(R) = IF R = {} THEN 0 ELSE 1
  BY <1>1, <1>2, AtMostOne
<1> QED
  BY <1>3, <1>4 DEF I, R
-----------------------------------------------------------------------------
(* The actions.                                                             *)

LEMMA InitSafe == Init => IInv
<1> SUFFICES ASSUME Init PROVE IInv
  OBVIOUS
<1>1. runQ = <<>> /\ Len(runQ) = 0 /\ 1..Len(runQ) = {}
  BY DEF Init
<1>2. QueueOK /\ OnWay = {}
  BY <1>1, EmptySeq DEF QueueOK, OnWay
<1>3. StrandOK
  BY <1>1 DEF Init, StrandOK
<1>4. ValueOK
  BY <1>2, OpAssumption, NoneAssumption DEF Init, ValueOK
<1>5. Open = {}
  BY DEF Init, Open
<1>6. CleanupOK
  BY <1>5 DEF Init, CleanupOK
<1>7. PendingOK
  BY <1>5, FS_EmptySet DEF Init, PendingOK
<1>8. \A t \in Strand : frames[t] = <<>> /\ 1..Len(frames[t]) = {}
  BY EmptySeq DEF Init
<1>9. frames \in [Strand -> Seq(Fin)]
  BY EmptySeq DEF Init
<1>10. ReleaseOK
  BY <1>2, <1>8, <1>9 DEF Init, ReleaseOK
<1> QED
  BY <1>2, <1>3, <1>4, <1>6, <1>7, <1>10 DEF IInv

LEMMA HereIsScope ==
  ASSUME IInv, NEW t \in Strand, Running(t)
  PROVE  t \in begun /\ cur = t /\ scopeOf[t] \in Scope /\ Here = scopeOf[t] /\ starting = None
  BY NoneAssumption DEF IInv, StrandOK, Running, Here

(* An action that starts new strands only changes who exists.               *)
LEMMA Started ==
  ASSUME IInv, NEW T \in SUBSET Strand, T \cap begun = {}, NEW sc \in Scope, NEW what,
         NEW o \in begun \cup {None}, NewStrands(T, sc, what, o),
         QueueOK', OnWay' \ OnWay \subseteq T, OnWay \subseteq OnWay',
         cur' \in begun' \cup {None}, cur' = None => starting = None,
         \A i \in 1..Len(runQ') : runQ'[i].strand \in begun' \cup {None},
         parent' \in [Scope -> Scope \cup {None}],
         UNCHANGED <<cancelled, cleanups, frames, opVars, valueVars, finVars>>
  PROVE  IInv'
<1>1. begun' = begun \cup T /\ begun' \subseteq Strand
  BY DEF NewStrands, IInv, StrandOK
<1>2. DOMAIN scopeOf = Strand \cup Op \cup Fin
  BY DEF IInv, StrandOK
<1>3. /\ scopeOf' \in [Strand \cup Op \cup Fin -> Scope \cup {None}]
      /\ \A x \in Op \cup Fin : scopeOf'[x] = scopeOf[x]
      /\ \A t \in Strand : scopeOf'[t] = IF t \in T THEN sc ELSE scopeOf[t]
  BY <1>2, NameAssumption DEF NewStrands, IInv, StrandOK
<1>4. StrandOK'
  <2>1. outer' \in [Strand -> begun' \cup {None}]
    BY <1>1 DEF NewStrands, IInv, StrandOK
  <2>2. waiter' \in [Op -> begun' \cup {None}]
    BY <1>1 DEF IInv, StrandOK, opVars
  <2>3. \A t \in begun' : scopeOf'[t] # None
    BY <1>1, <1>3, NoneAssumption DEF IInv, StrandOK
  <2> QED
    BY <1>1, <1>3, <2>1, <2>2, <2>3 DEF StrandOK, opVars
<1>5. \A x \in Op \cup Fin : x \in OnWay' <=> x \in OnWay
  BY NameAssumption
<1>6. ValueOK'
  BY <1>3, <1>5, OpAssumption DEF IInv, ValueOK, opVars, valueVars
<1>7. Open' = Open
  BY <1>3 DEF Open, opVars
<1>8. CleanupOK'
  BY <1>3, <1>7 DEF IInv, CleanupOK, Open, opVars
<1>9. PendingOK'
  BY <1>7 DEF IInv, PendingOK, opVars
<1>10. ReleaseOK'
  <2>1. over' = over /\ released' = released /\ frames' = frames
    BY DEF finVars
  <2>2. ASSUME NEW t \in Strand, NEW i \in 1..Len(frames[t])
        PROVE  t \in begun' /\ scopeOf'[frames[t][i]] = scopeOf'[t]
    <3>1. t \in begun /\ scopeOf[frames[t][i]] = scopeOf[t]
      BY DEF IInv, ReleaseOK
    <3>2. frames[t][i] \in Fin
      BY ElementOfSeq DEF IInv, ReleaseOK
    <3> QED
      BY <1>1, <1>3, <3>1, <3>2
  <2>3. ASSUME NEW f \in Fin
        PROVE  \/ scopeOf'[f] = None /\ f \notin over' /\ released'[f] = 0
               \/ scopeOf'[f] # None /\ f \in over' /\ released'[f] = 1
               \/ /\ scopeOf'[f] # None /\ f \notin over' /\ released'[f] = 0
                  /\ f \in cleanups'[scopeOf'[f]] /\ ~cancelled'[scopeOf'[f]]
    BY <1>3, <2>1 DEF IInv, ReleaseOK
  <2>4. ASSUME NEW u \in Owned
        PROVE  /\ u \notin begun' => released'[u] = 0 /\ u \notin OnWay'
               /\ released'[u] + (IF u \in OnWay' THEN 1 ELSE 0) <= 1
    BY <1>1, <2>1 DEF IInv, ReleaseOK
  <2> QED
    BY <2>1, <2>2, <2>3, <2>4 DEF IInv, ReleaseOK
<1> QED
  BY <1>4, <1>6, <1>8, <1>9, <1>10 DEF IInv

(* One that moves nothing but the queue and the running strand.             *)
LEMMA Moved ==
  ASSUME IInv, QueueOK', OnWay' = OnWay,
         cur' \in begun \cup {None}, cur' = None => starting = None,
         \A i \in 1..Len(runQ') : runQ'[i].strand \in begun \cup {None},
         UNCHANGED <<begun, outer, parent, cancelled, cleanups, scopeOf, frames, opVars, valueVars, finVars>>
  PROVE  IInv'
<1>1. Open' = Open
  BY DEF Open, opVars
<1>2. StrandOK'
  BY DEF IInv, StrandOK, opVars
<1>3. ValueOK'
  BY DEF IInv, ValueOK, opVars, valueVars
<1>4. CleanupOK' /\ PendingOK'
  BY <1>1 DEF IInv, CleanupOK, PendingOK, opVars
<1>5. ReleaseOK'
  BY DEF IInv, ReleaseOK, finVars
<1> QED
  BY <1>2, <1>3, <1>4, <1>5 DEF IInv

LEMMA SubmitSafe ==
  ASSUME IInv, NEW t \in Strand, Submit(t)
  PROVE  IInv'
<1>1. QueueOK' /\ OnWay' = OnWay
  BY DEF Submit, IInv, QueueOK, OnWay
<1>2. cur' = t /\ t # None /\ {t} \in SUBSET Strand /\ {t} \cap begun = {} /\ begun' = begun \cup {t}
  BY NoneAssumption DEF Submit, NewStrands
<1>3. \A i \in 1..Len(runQ') : runQ'[i].strand \in begun' \cup {None}
  BY <1>2 DEF Submit, IInv, StrandOK
<1>4. NewStrands({t}, Root, "submitted", None) /\ parent' = parent
      /\ UNCHANGED <<cancelled, cleanups, frames, opVars, valueVars, finVars>>
  BY DEF Submit, scopeVars
<1> QED
  BY <1>1, <1>2, <1>3, <1>4, Started, RootAssumption DEF IInv, StrandOK

LEMMA SubmitHandleSafe ==
  ASSUME IInv, NEW t \in Strand, NEW sc \in Scope, SubmitHandle(t, sc)
  PROVE  IInv'
<1>1. QueueOK' /\ OnWay' = OnWay
  BY DEF SubmitHandle, IInv, QueueOK, OnWay
<1>2. cur' = t /\ t # None /\ {t} \in SUBSET Strand /\ {t} \cap begun = {} /\ begun' = begun \cup {t}
  BY NoneAssumption DEF SubmitHandle, NewStrands
<1>3. \A i \in 1..Len(runQ') : runQ'[i].strand \in begun' \cup {None}
  BY <1>2 DEF SubmitHandle, IInv, StrandOK
<1>4. NewStrands({t}, sc, "handle", None)
      /\ UNCHANGED <<cancelled, cleanups, frames, opVars, valueVars, finVars>>
  BY DEF SubmitHandle
<1>5. parent' \in [Scope -> Scope \cup {None}]
  BY RootAssumption DEF SubmitHandle, NewScope, IInv, StrandOK
<1> QED
  BY <1>1, <1>2, <1>3, <1>4, <1>5, Started

LEMMA PinnedSafe ==
  ASSUME IInv, NEW t \in Strand, Pinned(t)
  PROVE  IInv'
<1>1. t \in begun /\ Here \in Scope /\ starting = None
  BY HereIsScope DEF Pinned
<1> DEFINE s == Step(Here, t, None)
<1>2. s \in StepSet /\ s.own = None /\ s.strand = t
  BY <1>1, StepIsStep
<1>3. Enqueue(s) /\ s.own \notin OnWay
  BY <1>2 DEF Pinned, OnWay
<1> HIDE DEF s
<1>4. /\ QueueOK' /\ OnWay' = OnWay
      /\ \A i \in 1..Len(runQ') : runQ'[i].strand = t \/ \E j \in 1..Len(runQ) : runQ'[i].strand = runQ[j].strand
  BY <1>2, <1>3, Appended DEF IInv
<1>5. \A i \in 1..Len(runQ') : runQ'[i].strand \in begun \cup {None}
  BY <1>1, <1>4 DEF IInv, StrandOK
<1> QED
  BY <1>1, <1>4, <1>5, Moved DEF Pinned, scopeVars, strandVars

LEMMA EmptySafe ==
  ASSUME IInv, NEW t \in Strand, Empty(t)
  PROVE  IInv'
<1>1. QueueOK' /\ OnWay' = OnWay
  BY DEF Empty, IInv, QueueOK, OnWay
<1>2. \A i \in 1..Len(runQ') : runQ'[i].strand \in begun \cup {None}
  BY DEF Empty, IInv, StrandOK
<1>3. starting = None
  BY HereIsScope DEF Empty
<1> QED
  BY <1>1, <1>2, <1>3, Moved DEF Empty, scopeVars, strandVars

LEMMA EndAloneSafe ==
  ASSUME IInv, NEW t \in Strand, EndAlone(t)
  PROVE  IInv'
<1>1. QueueOK' /\ OnWay' = OnWay
  BY DEF EndAlone, IInv, QueueOK, OnWay
<1>2. \A i \in 1..Len(runQ') : runQ'[i].strand \in begun \cup {None}
  BY DEF EndAlone, IInv, StrandOK
<1>3. starting = None
  BY HereIsScope DEF EndAlone, Ending
<1> QED
  BY <1>1, <1>2, <1>3, Moved DEF EndAlone, strandVars

LEMMA EndBothSafe ==
  ASSUME IInv, NEW t \in Strand, EndBoth(t)
  PROVE  IInv'
<1>1. t \in begun /\ Here \in Scope /\ outer[t] \in begun \cup {None} /\ starting = None
  BY HereIsScope DEF EndBoth, Ending, IInv, StrandOK
<1>2. /\ QueueOK' /\ OnWay' = OnWay
      /\ \A i \in 1..Len(runQ') : runQ'[i].strand \in begun \cup {None}
  <2>1. CASE outer[t] \in arrived
    <3> DEFINE s == Step(Here, outer[t], None)
    <3>1. s \in StepSet /\ s.own = None /\ s.strand = outer[t]
      BY <1>1, StepIsStep DEF IInv, StrandOK
    <3>2. Enqueue(s) /\ s.own \notin OnWay
      BY <2>1, <3>1 DEF EndBoth, OnWay
    <3> HIDE DEF s
    <3>3. /\ QueueOK' /\ OnWay' = OnWay
          /\ \A i \in 1..Len(runQ') :
               runQ'[i].strand = outer[t] \/ \E j \in 1..Len(runQ) : runQ'[i].strand = runQ[j].strand
      BY <3>1, <3>2, Appended DEF IInv
    <3> QED
      BY <1>1, <3>3 DEF IInv, StrandOK
  <2>2. CASE outer[t] \notin arrived
    BY <2>2 DEF EndBoth, IInv, StrandOK, QueueOK, OnWay
  <2> QED
    BY <2>1, <2>2
<1> QED
  BY <1>1, <1>2, Moved DEF EndBoth, scopeVars

LEMMA SpawnSafe ==
  ASSUME IInv, NEW t \in Strand, NEW u \in Strand, Spawn(t, u)
  PROVE  IInv'
<1>1. starting = None /\ t \in begun /\ Here \in Scope /\ u \notin begun /\ cur = t
  BY HereIsScope DEF Spawn
<1> DEFINE x == IF u \in Owned THEN u ELSE None
           s == Step(Here, u, x)
<1>2. s \in StepSet /\ s.own = x /\ s.strand = u
  BY <1>1, StepIsStep
<1>3. x \notin OnWay
  BY <1>1 DEF OnWay, IInv, ReleaseOK
<1>4. Enqueue(s)
  BY DEF Spawn
<1> HIDE DEF s
<1>5. /\ QueueOK' /\ OnWay' = OnWay \cup ({x} \ {None})
      /\ \A i \in 1..Len(runQ') : runQ'[i].strand = u \/ \E j \in 1..Len(runQ) : runQ'[i].strand = runQ[j].strand
  BY <1>2, <1>3, <1>4, Appended DEF IInv
<1>6. begun' = begun \cup {u} /\ {u} \in SUBSET Strand /\ {u} \cap begun = {}
  BY <1>1 DEF Spawn, NewStrands
<1>7. \A i \in 1..Len(runQ') : runQ'[i].strand \in begun' \cup {None}
  BY <1>5, <1>6 DEF IInv, StrandOK
<1>8. OnWay' \ OnWay \subseteq {u} /\ OnWay \subseteq OnWay'
  BY <1>5
<1>9. /\ NewStrands({u}, Here, "spawned", None) /\ parent' = parent /\ cur' = cur
      /\ UNCHANGED <<cancelled, cleanups, frames, opVars, valueVars, finVars>>
  BY DEF Spawn, scopeVars
<1>10. parent' \in [Scope -> Scope \cup {None}] /\ cur' \in begun' \cup {None}
  BY <1>1, <1>6, <1>9 DEF IInv, StrandOK
<1> QED
  BY <1>1, <1>5, <1>6, <1>7, <1>8, <1>9, <1>10, Started

LEMMA BothSafe ==
  ASSUME IInv, NEW t \in Strand, NEW u \in Strand, NEW v \in Strand, Both(t, u, v)
  PROVE  IInv'
<1>1. starting = None /\ t \in begun /\ Here \in Scope /\ {u, v} \cap begun = {}
  BY HereIsScope DEF Both
<1> DEFINE s == Step(Here, u, None)  r == Step(Here, v, None)
<1>2. s \in StepSet /\ s.own = None /\ s.strand = u /\ r \in StepSet /\ r.own = None /\ r.strand = v
  BY <1>1, StepIsStep
<1>3. runQ' = runQ \o <<s, r>>
  BY DEF Both
<1> HIDE DEF s, r
<1>4. /\ QueueOK' /\ OnWay' = OnWay
      /\ \A i \in 1..Len(runQ') :
           runQ'[i].strand \in {u, v} \/ \E j \in 1..Len(runQ) : runQ'[i].strand = runQ[j].strand
  BY <1>2, <1>3, TwoAppended DEF IInv
<1>5. begun' = begun \cup {u, v} /\ {u, v} \in SUBSET Strand
  BY DEF Both, NewStrands
<1>6. \A i \in 1..Len(runQ') : runQ'[i].strand \in begun' \cup {None}
  BY <1>4, <1>5 DEF IInv, StrandOK
<1>7. /\ NewStrands({u, v}, Here, "both", t) /\ parent' = parent /\ cur' = None
      /\ UNCHANGED <<cancelled, cleanups, frames, opVars, valueVars, finVars>>
  BY DEF Both, scopeVars
<1>8. parent' \in [Scope -> Scope \cup {None}]
  BY <1>7 DEF IInv, StrandOK
<1> QED
  BY <1>1, <1>4, <1>5, <1>6, <1>7, <1>8, Started

LEMMA RaceSafe ==
  ASSUME IInv, NEW t \in Strand, NEW u \in Strand, NEW v \in Strand, NEW sc \in Scope,
         Race(t, u, v, sc)
  PROVE  IInv'
<1>1. starting = None /\ t \in begun /\ Here \in Scope /\ {u, v} \cap begun = {}
  BY HereIsScope DEF Race
<1> DEFINE s == Step(sc, u, None)  r == Step(sc, v, None)
<1>2. s \in StepSet /\ s.own = None /\ s.strand = u /\ r \in StepSet /\ r.own = None /\ r.strand = v
  BY <1>1, StepIsStep
<1>3. runQ' = runQ \o <<s, r>>
  BY DEF Race
<1> HIDE DEF s, r
<1>4. /\ QueueOK' /\ OnWay' = OnWay
      /\ \A i \in 1..Len(runQ') :
           runQ'[i].strand \in {u, v} \/ \E j \in 1..Len(runQ) : runQ'[i].strand = runQ[j].strand
  BY <1>2, <1>3, TwoAppended DEF IInv
<1>5. begun' = begun \cup {u, v} /\ {u, v} \in SUBSET Strand
  BY DEF Race, NewStrands
<1>6. \A i \in 1..Len(runQ') : runQ'[i].strand \in begun' \cup {None}
  BY <1>4, <1>5 DEF IInv, StrandOK
<1>7. /\ NewStrands({u, v}, sc, "race", t) /\ cur' = None
      /\ UNCHANGED <<cancelled, cleanups, frames, opVars, valueVars, finVars>>
  BY DEF Race
<1>8. parent' \in [Scope -> Scope \cup {None}]
  BY <1>1 DEF Race, NewScope, IInv, StrandOK
<1> QED
  BY <1>1, <1>4, <1>5, <1>6, <1>7, <1>8, Started

(* A step that is dropped hands back what it owns; one that runs keeps it.  *)
LEMMA RunStepSafe ==
  ASSUME IInv, RunStep
  PROVE  IInv'
<1> DEFINE s == Head(runQ)  x == s.own
<1>1. runQ # <<>> /\ runQ' = Tail(runQ)
  BY DEF RunStep
<1>2. /\ QueueOK' /\ s \in StepSet
      /\ OnWay' = OnWay \ {x}
      /\ x # None => x \in OnWay
      /\ \E j \in 1..Len(runQ) : s = runQ[j]
      /\ \A i \in 1..Len(runQ') : \E j \in 1..Len(runQ) : runQ'[i] = runQ[j]
  BY <1>1, Taken DEF IInv
<1>3. /\ x \in Op \cup Owned \cup {None} /\ s.strand \in begun \cup {None}
  BY <1>2 DEF StepSet, IInv, StrandOK
<1>4. \/ /\ undone' = IF x \in Handoffs THEN Add(undone, x) ELSE undone
         /\ released' = IF x \in Owned THEN Add(released, x) ELSE released
         /\ cur' = cur /\ consumed' = consumed
      \/ /\ consumed' = IF x \in Handoffs THEN Add(consumed, x) ELSE consumed
         /\ cur' = s.strand
         /\ undone' = undone /\ released' = released
  BY DEF RunStep, Handed
<1>5. UNCHANGED <<begun, outer, waiter, scopeOf, parent, cancelled, cleanups, frames, fired, pending, starting, late, calls, over>>
  BY DEF RunStep, scopeVars, strandVars, opVars
<1> HIDE DEF s, x
<1>6. StrandOK'
  <2>1. cur' \in begun \cup {None} /\ starting = None
    BY <1>3, <1>4 DEF RunStep, IInv, StrandOK
  <2> QED
    BY <1>2, <1>5, <2>1 DEF IInv, StrandOK
<1>7. ValueOK'
  <2>1. calls' = calls /\ fired' = fired /\ scopeOf' = scopeOf
    BY <1>5
  <2>2. consumed' \in [Op -> Nat] /\ undone' \in [Op -> Nat]
    BY <1>4, OpAssumption DEF IInv, ValueOK, Add
  <2>3. ASSUME NEW h \in Handoffs, h # x
        PROVE  consumed'[h] = consumed[h] /\ undone'[h] = undone[h] /\ (h \in OnWay' <=> h \in OnWay)
    BY <1>2, <1>4, <2>3, OpAssumption DEF IInv, ValueOK, Add
  <2>4. ASSUME x \in Handoffs
        PROVE  /\ x \in OnWay /\ x \notin OnWay'
               /\ \/ consumed'[x] = consumed[x] + 1 /\ undone'[x] = undone[x]
                  \/ consumed'[x] = consumed[x] /\ undone'[x] = undone[x] + 1
    BY <1>2, <1>4, <2>4, OpAssumption, NoneAssumption DEF IInv, ValueOK, Add
  <2>5. \A h \in Handoffs :
          /\ consumed'[h] + undone'[h] + (IF h \in OnWay' THEN 1 ELSE 0) = calls'[h]
          /\ consumed'[h] + (IF h \in OnWay' THEN 1 ELSE 0) <= 1
    <3> SUFFICES ASSUME NEW h \in Handoffs
                 PROVE  /\ consumed'[h] + undone'[h] + (IF h \in OnWay' THEN 1 ELSE 0) = calls'[h]
                        /\ consumed'[h] + (IF h \in OnWay' THEN 1 ELSE 0) <= 1
      OBVIOUS
    <3>1. /\ consumed[h] \in Nat /\ undone[h] \in Nat /\ calls[h] \in Nat
          /\ consumed[h] + undone[h] + (IF h \in OnWay THEN 1 ELSE 0) = calls[h]
          /\ consumed[h] + (IF h \in OnWay THEN 1 ELSE 0) <= 1
      BY OpAssumption DEF IInv, ValueOK
    <3>2. CASE h = x
      BY <2>1, <2>4, <3>1, <3>2
    <3>3. CASE h # x
      BY <2>1, <2>3, <3>1, <3>3
    <3> QED
      BY <3>2, <3>3
  <2>6. \A o \in Op : o \notin fired' =>
          calls'[o] = 0 /\ consumed'[o] = 0 /\ undone'[o] = 0 /\ o \notin OnWay'
    <3> SUFFICES ASSUME NEW o \in Op, o \notin fired
                 PROVE  consumed'[o] = 0 /\ undone'[o] = 0 /\ o \notin OnWay' /\ calls[o] = 0
      BY <2>1
    <3>1. consumed[o] = 0 /\ undone[o] = 0 /\ o \notin OnWay /\ calls[o] = 0
      BY DEF IInv, ValueOK
    <3>2. o # x
      BY <1>2, <3>1, NoneAssumption
    <3> QED
      BY <1>2, <1>4, <3>1, <3>2, OpAssumption DEF IInv, ValueOK, Add
  <2> QED
    BY <1>5, <2>1, <2>2, <2>5, <2>6 DEF IInv, ValueOK
<1>8. Open' = Open
  BY <1>5 DEF Open
<1>9. CleanupOK' /\ PendingOK'
  BY <1>5, <1>8 DEF IInv, CleanupOK, PendingOK
<1>10. ReleaseOK'
  <2>1. over' = over /\ frames' = frames /\ begun' = begun /\ scopeOf' = scopeOf
        /\ cleanups' = cleanups /\ cancelled' = cancelled
    BY <1>5
  <2>2. released' \in [Fin \cup Owned -> Nat]
    <3>1. released' = released \/ (x \in Owned /\ released' = [released EXCEPT ![x] = @ + 1])
      BY <1>4 DEF Add
    <3> QED
      BY <3>1 DEF IInv, ReleaseOK
  <2>3. \A f \in Fin : released'[f] = released[f]
    BY <1>4, OpAssumption, NameAssumption DEF IInv, ReleaseOK, Add
  <2>4. ASSUME NEW u \in Owned
        PROVE  /\ u \notin begun' => released'[u] = 0 /\ u \notin OnWay'
               /\ released'[u] + (IF u \in OnWay' THEN 1 ELSE 0) <= 1
    <3>1. /\ released[u] \in Nat
          /\ u \notin begun => released[u] = 0 /\ u \notin OnWay
          /\ released[u] + (IF u \in OnWay THEN 1 ELSE 0) <= 1
      BY DEF IInv, ReleaseOK
    <3>2. CASE u = x
      <4>1. u \in OnWay /\ u \notin OnWay'
        BY <1>2, <3>2, OpAssumption, NoneAssumption
      <4>2. released'[u] \in {released[u], released[u] + 1}
        BY <1>4, <3>2 DEF IInv, ReleaseOK, Add
      <4> QED
        BY <2>1, <3>1, <4>1, <4>2
    <3>3. CASE u # x
      <4>1. u \in OnWay' <=> u \in OnWay
        BY <1>2, <3>3
      <4>2. released'[u] = released[u]
        BY <1>4, <3>3 DEF IInv, ReleaseOK, Add
      <4> QED
        BY <2>1, <3>1, <4>1, <4>2
    <3> QED
      BY <3>2, <3>3
  <2> QED
    BY <2>1, <2>2, <2>3, <2>4 DEF IInv, ReleaseOK
<1> QED
  BY <1>2, <1>6, <1>7, <1>9, <1>10 DEF IInv

(* An operation that starts is one more that is pending, and it is the one  *)
(* whose callback runs.                                                     *)
LEMMA StartSafe ==
  ASSUME IInv, NEW t \in Strand, NEW o \in Op, Start(t, o)
  PROVE  IInv'
<1>1. t \in begun /\ Here \in Scope /\ Here = scopeOf[t] /\ cur = t /\ starting = None /\ t # None
  BY HereIsScope, NoneAssumption DEF Start
<1>2. /\ QueueOK' /\ OnWay' = OnWay
      /\ UNCHANGED <<begun, outer, parent, cancelled, cleanups, frames, fired, late, calls, consumed, undone,
                     over, released, runQ>>
  BY DEF Start, IInv, QueueOK, OnWay, scopeVars, strandVars, valueVars, finVars
<1>3. CASE cancelled[Here]
  <2>1. UNCHANGED <<begun, outer, parent, cancelled, cleanups, scopeOf, frames, opVars, valueVars, finVars>>
    BY <1>2, <1>3 DEF Start, opVars, valueVars, finVars
  <2>2. \A i \in 1..Len(runQ') : runQ'[i].strand \in begun \cup {None}
    BY <1>2 DEF IInv, StrandOK
  <2>3. cur' = None
    BY <1>3 DEF Start
  <2> QED
    BY <1>1, <1>2, <2>1, <2>2, <2>3, Moved
<1>4. CASE ~cancelled[Here]
  <2> DEFINE sc == Here
  <2>1. /\ scopeOf[o] = None /\ cur' = cur
        /\ scopeOf' = [scopeOf EXCEPT ![o] = sc] /\ waiter' = [waiter EXCEPT ![o] = t]
        /\ pending' = pending + 1 /\ starting' = o
    BY <1>4 DEF Start
  <2> HIDE DEF sc
  <2>2. /\ scopeOf'[o] = sc /\ sc # None /\ sc \in Scope
        /\ \A x \in Strand \cup Op \cup Fin : x # o => scopeOf'[x] = scopeOf[x]
        /\ scopeOf' \in [Strand \cup Op \cup Fin -> Scope \cup {None}]
    BY <1>1, <1>4, <2>1, NoneAssumption DEF IInv, StrandOK, sc
  <2>3. StrandOK'
    BY <1>1, <1>2, <2>1, <2>2, NameAssumption DEF IInv, StrandOK
  <2>4. ValueOK'
    BY <1>2, <2>1, <2>2 DEF IInv, ValueOK
  <2>5. o \notin Open /\ o \notin fired /\ Open' = Open \cup {o}
    BY <1>2, <2>1, <2>2 DEF IInv, ValueOK, Open
  <2>6. PendingOK'
    BY <2>1, <2>5, FS_AddElement DEF IInv, PendingOK
  <2>7. CleanupOK'
    <3>1. \A r \in Scope : \A x \in cleanups[r] : x # o /\ x \in Op \cup Fin /\ scopeOf[x] = r
      BY <2>1, NoneAssumption DEF IInv, CleanupOK
    <3>2. ASSUME NEW p \in Open' \ {starting'}
          PROVE  p \in cleanups'[scopeOf'[p]] /\ (cancelled'[scopeOf'[p]] => p \in late')
      <4>1. p \in Open \ {starting} /\ p \in Op /\ scopeOf'[p] = scopeOf[p]
        BY <1>1, <2>1, <2>2, <2>5, NoneAssumption DEF Open
      <4> QED
        BY <1>2, <4>1 DEF IInv, CleanupOK
    <3> QED
      BY <1>2, <2>2, <3>1, <3>2 DEF IInv, CleanupOK
  <2>8. ReleaseOK'
    <3>1. \A f \in Fin : scopeOf'[f] = scopeOf[f]
      BY <2>2, NameAssumption
    <3>2. ASSUME NEW u \in Strand, NEW i \in 1..Len(frames'[u])
          PROVE  u \in begun' /\ scopeOf'[frames'[u][i]] = scopeOf'[u]
      <4>1. frames[u][i] \in Fin /\ u \in begun /\ scopeOf[frames[u][i]] = scopeOf[u]
        BY <1>2, ElementOfSeq DEF IInv, ReleaseOK
      <4> QED
        BY <1>2, <2>2, <3>1, <4>1, NameAssumption
    <3> QED
      BY <1>2, <3>1, <3>2 DEF IInv, ReleaseOK
  <2> QED
    BY <1>2, <2>3, <2>4, <2>6, <2>7, <2>8 DEF IInv
<1> QED
  BY <1>3, <1>4

(* The callback is back: what is still open can be given up from now on.    *)
LEMMA RegisterSafe ==
  ASSUME IInv, NEW t \in Strand, Register(t)
  PROVE  IInv'
<1> DEFINE o == starting  sc == scopeOf[o]
<1>1. /\ o \in Op /\ o # None /\ sc \in Scope /\ sc # None
  <2>1. o \in Op /\ o # None
    BY DEF Register, IInv, ValueOK
  <2> QED
    BY <2>1 DEF IInv, ValueOK, StrandOK
<1>2. /\ QueueOK' /\ OnWay' = OnWay /\ cur' = None /\ starting' = None
      /\ UNCHANGED <<begun, outer, parent, cancelled, scopeOf, waiter, frames, fired, pending, calls, consumed, undone,
                     over, released, runQ>>
  BY DEF Register, IInv, QueueOK, OnWay, scopeVars, strandVars, valueVars, finVars
<1>3. \/ o \in fired /\ cleanups' = cleanups /\ late' = late
      \/ /\ o \notin fired /\ cleanups' = [cleanups EXCEPT ![sc] = @ \cup {o}]
         /\ late' = late \cup {x \in {o} : cancelled[sc]}
  BY DEF Register
<1> HIDE DEF o, sc
<1>4. StrandOK'
  BY <1>2 DEF IInv, StrandOK
<1>5. ValueOK'
  <2>1. late' \subseteq Op
    BY <1>1, <1>3 DEF IInv, ValueOK
  <2>2. \A p \in Op : p # None
    BY NoneAssumption
  <2> QED
    BY <1>2, <2>1, <2>2 DEF IInv, ValueOK
<1>6. Open' = Open
  BY <1>2 DEF Open
<1>7. PendingOK'
  BY <1>2, <1>6 DEF IInv, PendingOK
<1>8. \A r \in Scope : /\ cleanups[r] \subseteq cleanups'[r]
                       /\ cleanups'[r] \subseteq cleanups[r] \cup (IF r = sc THEN {o} ELSE {})
  BY <1>3 DEF IInv, CleanupOK
<1>9. CleanupOK'
  <2>1. cleanups' \in [Scope -> SUBSET (Op \cup Fin)]
    BY <1>1, <1>3 DEF IInv, CleanupOK
  <2>2. ASSUME NEW r \in Scope, NEW x \in cleanups'[r] PROVE scopeOf'[x] = r
    <3>1. x \in cleanups[r] \/ (r = sc /\ x = o)
      BY <1>8
    <3> QED
      BY <1>2, <3>1 DEF IInv, CleanupOK, sc
  <2>3. ASSUME NEW p \in Open' PROVE p \in cleanups'[scopeOf'[p]] /\ (cancelled'[scopeOf'[p]] => p \in late')
    <3>1. p \in Op /\ p \notin fired /\ p \in Open /\ scopeOf[p] \in Scope
      BY <1>6 DEF Open, IInv, StrandOK
    <3>2. CASE p = o
      <4>1. cleanups' = [cleanups EXCEPT ![sc] = @ \cup {o}] /\ late' = late \cup {x \in {o} : cancelled[sc]}
        BY <1>3, <3>1, <3>2
      <4>2. o \in cleanups'[sc] /\ (cancelled[sc] => o \in late')
        BY <1>1, <4>1 DEF IInv, CleanupOK
      <4> QED
        BY <1>2, <3>2, <4>2 DEF sc
    <3>3. CASE p # o
      <4>1. p \in cleanups[scopeOf[p]] /\ (cancelled[scopeOf[p]] => p \in late)
        BY <3>1, <3>3 DEF IInv, CleanupOK, o
      <4>2. late \subseteq late'
        BY <1>3
      <4> QED
        BY <1>2, <1>8, <3>1, <4>1, <4>2
    <3> QED
      BY <3>2, <3>3
  <2> QED
    BY <1>2, <2>1, <2>2, <2>3 DEF IInv, CleanupOK
<1>10. ReleaseOK'
  <2>1. ASSUME NEW f \in Fin
        PROVE  \/ scopeOf'[f] = None /\ f \notin over' /\ released'[f] = 0
               \/ scopeOf'[f] # None /\ f \in over' /\ released'[f] = 1
               \/ /\ scopeOf'[f] # None /\ f \notin over' /\ released'[f] = 0
                  /\ f \in cleanups'[scopeOf'[f]] /\ ~cancelled'[scopeOf'[f]]
    <3>1. scopeOf[f] # None => scopeOf[f] \in Scope
      BY DEF IInv, StrandOK
    <3>2. scopeOf[f] # None /\ f \in cleanups[scopeOf[f]] => f \in cleanups'[scopeOf[f]]
      BY <1>8, <3>1
    <3> QED
      BY <1>2, <3>2 DEF IInv, ReleaseOK
  <2> QED
    BY <1>2, <2>1 DEF IInv, ReleaseOK
<1> QED
  BY <1>2, <1>4, <1>5, <1>7, <1>9, <1>10 DEF IInv

LEMMA FinallySafe ==
  ASSUME IInv, NEW t \in Strand, NEW f \in Fin, Finally(t, f)
  PROVE  IInv'
<1>1. starting = None /\ t \in begun /\ cur = t /\ Here \in Scope /\ Here = scopeOf[t]
  BY HereIsScope DEF Finally
<1> DEFINE sc == Here
<1>2. /\ QueueOK' /\ OnWay' = OnWay /\ runQ' = runQ
      /\ scopeOf[f] = None /\ scopeOf' = [scopeOf EXCEPT ![f] = sc]
      /\ UNCHANGED <<begun, outer, waiter, parent, cancelled, fired, pending, starting, late, calls, consumed, undone>>
  BY DEF Finally, IInv, QueueOK, OnWay, scopeVars, strandVars, opVars, valueVars
<1>3. /\ cancelled[sc] => /\ released' = [released EXCEPT ![f] = @ + 1] /\ over' = over \cup {f}
                          /\ cur' = None /\ cleanups' = cleanups /\ frames' = frames
      /\ ~cancelled[sc] => /\ cleanups' = [cleanups EXCEPT ![sc] = @ \cup {f}]
                           /\ frames' = [frames EXCEPT ![t] = Append(@, f)]
                           /\ released' = released /\ over' = over /\ cur' = cur
  BY DEF Finally, Add
<1>4. sc \in Scope /\ sc = scopeOf[t] /\ sc # None
  BY <1>1, NoneAssumption
<1> HIDE DEF sc
<1>5. /\ scopeOf'[f] = sc
      /\ \A x \in Strand \cup Op \cup Fin : x # f => scopeOf'[x] = scopeOf[x]
      /\ scopeOf' \in [Strand \cup Op \cup Fin -> Scope \cup {None}]
  BY <1>2, <1>4 DEF IInv, StrandOK
<1>6. StrandOK'
  BY <1>1, <1>2, <1>3, <1>5, NameAssumption DEF IInv, StrandOK
<1>7. \A o \in Op : scopeOf'[o] = scopeOf[o] /\ o # f
  BY <1>5, NameAssumption
<1>8. ValueOK'
  BY <1>2, <1>7 DEF IInv, ValueOK
<1>9. Open' = Open
  BY <1>2, <1>7 DEF Open
<1>10. PendingOK'
  BY <1>2, <1>9 DEF IInv, PendingOK
<1>11. \A r \in Scope : \A x \in cleanups[r] : x # f /\ x \in Op \cup Fin /\ scopeOf[x] = r
  BY <1>2, NoneAssumption DEF IInv, CleanupOK
<1>12. \A r \in Scope : cleanups'[r] = IF r = sc /\ ~cancelled[sc] THEN cleanups[r] \cup {f} ELSE cleanups[r]
  BY <1>3 DEF IInv, CleanupOK
<1>13. CleanupOK'
  <2>1. cleanups' \in [Scope -> SUBSET (Op \cup Fin)]
    BY <1>3, <1>4 DEF IInv, CleanupOK
  <2>2. ASSUME NEW r \in Scope, NEW x \in cleanups'[r] PROVE scopeOf'[x] = r
    <3>1. x \in cleanups[r] \/ (r = sc /\ x = f)
      BY <1>12
    <3>2. CASE x \in cleanups[r]
      BY <1>5, <1>11, <3>2
    <3> QED
      BY <1>5, <3>1, <3>2
  <2>3. ASSUME NEW o \in Open' \ {starting'}
        PROVE  o \in cleanups'[scopeOf'[o]] /\ (cancelled'[scopeOf'[o]] => o \in late')
    <3>1. /\ o \in Op /\ scopeOf[o] \in Scope /\ o \in cleanups[scopeOf[o]]
          /\ cancelled[scopeOf[o]] => o \in late
      BY <1>2, <1>9 DEF Open, IInv, CleanupOK, StrandOK
    <3> QED
      BY <1>2, <1>7, <1>12, <3>1
  <2> QED
    BY <1>2, <2>1, <2>2, <2>3 DEF IInv, CleanupOK
<1>14. f \notin over /\ released[f] = 0
  BY <1>2 DEF IInv, ReleaseOK
<1>15. /\ frames' \in [Strand -> Seq(Fin)]
       /\ \A u \in Strand : \A i \in 1..Len(frames'[u]) :
            u \in begun' /\ scopeOf'[frames'[u][i]] = scopeOf'[u]
  <2>1. ASSUME NEW u \in Strand, NEW i \in 1..Len(frames[u])
        PROVE  u \in begun /\ scopeOf'[frames[u][i]] = scopeOf'[u]
    <3>1. frames[u][i] \in Fin /\ u \in begun /\ scopeOf[frames[u][i]] = scopeOf[u]
      BY ElementOfSeq DEF IInv, ReleaseOK
    <3>2. scopeOf[u] # None
      BY <3>1 DEF IInv, StrandOK
    <3> QED
      BY <1>2, <1>5, <3>1, <3>2, NameAssumption
  <2>2. CASE cancelled[sc]
    BY <1>2, <1>3, <2>1, <2>2 DEF IInv, ReleaseOK
  <2>3. CASE ~cancelled[sc]
    <3> DEFINE q == Append(frames[t], f)
    <3>1. frames[t] \in Seq(Fin) /\ Len(frames[t]) \in Nat
      BY DEF IInv, ReleaseOK
    <3>2. /\ q \in Seq(Fin) /\ Len(q) = Len(frames[t]) + 1
          /\ \A i \in 1..Len(frames[t]) : q[i] = frames[t][i]
          /\ q[Len(frames[t]) + 1] = f
      BY <3>1, AppendProperties
    <3>3. frames' = [frames EXCEPT ![t] = q]
      BY <1>3, <2>3
    <3> HIDE DEF q
    <3>4. frames' \in [Strand -> Seq(Fin)] /\ frames'[t] = q /\ \A u \in Strand : u # t => frames'[u] = frames[u]
      BY <3>2, <3>3 DEF IInv, ReleaseOK
    <3>5. \A i \in 1..Len(q) : i \in 1..Len(frames[t]) \/ i = Len(frames[t]) + 1
      BY <3>1, <3>2
    <3>6. scopeOf'[t] = sc
      BY <1>4, <1>5, NameAssumption
    <3> QED
      BY <1>1, <1>2, <1>5, <2>1, <3>2, <3>4, <3>5, <3>6
  <2> QED
    BY <2>2, <2>3
<1>16. ReleaseOK'
  <2>1. over' \subseteq Fin /\ released' \in [Fin \cup Owned -> Nat]
    BY <1>3 DEF IInv, ReleaseOK
  <2>2. ASSUME NEW g \in Fin
        PROVE  \/ scopeOf'[g] = None /\ g \notin over' /\ released'[g] = 0
               \/ scopeOf'[g] # None /\ g \in over' /\ released'[g] = 1
               \/ /\ scopeOf'[g] # None /\ g \notin over' /\ released'[g] = 0
                  /\ g \in cleanups'[scopeOf'[g]] /\ ~cancelled'[scopeOf'[g]]
    <3>1. CASE g = f
      <4>1. scopeOf'[g] = sc /\ sc # None /\ sc \in Scope /\ cancelled' = cancelled
        BY <1>2, <1>4, <1>5, <3>1
      <4>2. CASE cancelled[sc]
        <5>1. g \in over' /\ released'[g] = 1
          BY <1>3, <1>14, <3>1, <4>2 DEF IInv, ReleaseOK
        <5> QED
          BY <4>1, <5>1
      <4>3. CASE ~cancelled[sc]
        <5>1. g \notin over' /\ released'[g] = 0
          BY <1>3, <1>14, <3>1, <4>3
        <5>2. g \in cleanups'[sc]
          BY <1>12, <3>1, <4>1, <4>3
        <5> QED
          BY <4>1, <4>3, <5>1, <5>2
      <4> QED
        BY <4>2, <4>3
    <3>2. CASE g # f
      <4>1. scopeOf'[g] = scopeOf[g] /\ (g \in over' <=> g \in over) /\ released'[g] = released[g]
        BY <1>3, <1>5, <3>2 DEF IInv, ReleaseOK
      <4>2. scopeOf[g] # None => scopeOf[g] \in Scope
        BY DEF IInv, StrandOK
      <4>3. /\ cancelled' = cancelled
            /\ g \in cleanups[scopeOf[g]] /\ scopeOf[g] # None => g \in cleanups'[scopeOf[g]]
        BY <1>2, <1>12, <4>2
      <4> QED
        BY <4>1, <4>3 DEF IInv, ReleaseOK
    <3> QED
      BY <3>1, <3>2
  <2>3. \A u \in Owned : released'[u] = released[u]
    BY <1>3, OpAssumption, NameAssumption DEF IInv, ReleaseOK
  <2> QED
    BY <1>2, <1>15, <2>1, <2>2, <2>3 DEF IInv, ReleaseOK
<1> QED
  BY <1>2, <1>6, <1>8, <1>10, <1>13, <1>16 DEF IInv

LEMMA BelowAreScopes ==
  ASSUME NEW sc
  PROVE  Below(sc) \in SUBSET Scope
  BY DEF Below

(* Cancelling any set of scopes ends what is open in them, and only that.   *)
LEMMA CancelSafe ==
  ASSUME IInv, NEW S \in SUBSET Scope, NEW d, Cancel(S, d), OnWay' = OnWay,
         UNCHANGED <<begun, scopeOf, starting, late, frames, calls, consumed, undone>>
  PROVE  ValueOK' /\ CleanupOK' /\ PendingOK' /\ ReleaseOK'
<1> DEFINE C == Cleaned(S)
           N == (C \cap Op) \ fired
<1>1. /\ cancelled' = [sc \in Scope |-> cancelled[sc] \/ sc \in S]
      /\ cleanups' = [sc \in Scope |-> IF sc \in S THEN {} ELSE cleanups[sc]]
      /\ fired' = fired \cup (C \cap Op)
      /\ pending' = pending - Cardinality(N)
      /\ over' = over \cup (C \cap Fin)
      /\ released' = [x \in DOMAIN released |->
                        IF x \in (C \cap Fin) \ over THEN released[x] + 1 ELSE released[x]]
  BY DEF Cancel
<1>2. \A x : x \in C <=> \E sc \in S : x \in cleanups[sc]
  BY DEF Cleaned
<1>3. \A x \in Op \cup Fin : x \in C => scopeOf[x] \in S
  BY <1>2 DEF IInv, CleanupOK
<1> HIDE DEF C
<1>4. ValueOK'
  BY <1>1, <1>3, NoneAssumption DEF IInv, ValueOK
<1>5. N \subseteq Open /\ Open' = Open \ N
  BY <1>1, <1>3, NoneAssumption DEF Open
<1>6. ASSUME NEW o \in Open' \ {starting'}
      PROVE  o \in Open \ {starting} /\ scopeOf[o] \in Scope /\ scopeOf[o] \notin S
  <2>1. o \in Open \ {starting} /\ o \notin C /\ o \in Op
    BY <1>5 DEF Open
  <2>2. o \in cleanups[scopeOf[o]] /\ scopeOf[o] \in Scope
    BY <2>1 DEF IInv, CleanupOK, Open, StrandOK
  <2> QED
    BY <1>2, <2>1, <2>2
<1>7. CleanupOK'
  <2>1. cleanups' \in [Scope -> SUBSET (Op \cup Fin)] /\ cancelled' \in [Scope -> BOOLEAN]
    BY <1>1 DEF IInv, CleanupOK
  <2>2. \A sc \in Scope : \A x \in cleanups'[sc] : scopeOf'[x] = sc
    BY <1>1 DEF IInv, CleanupOK
  <2>3. ASSUME NEW o \in Open' \ {starting'}
        PROVE  o \in cleanups'[scopeOf'[o]] /\ (cancelled'[scopeOf'[o]] => o \in late')
    <3>1. o \in cleanups[scopeOf[o]] /\ (cancelled[scopeOf[o]] => o \in late)
      BY <1>6 DEF IInv, CleanupOK
    <3> QED
      BY <1>1, <1>6, <3>1
  <2> QED
    BY <2>1, <2>2, <2>3 DEF CleanupOK
<1>8. PendingOK'
  <2> HIDE DEF N
  <2>1. IsFiniteSet(Open) /\ IsFiniteSet(N) /\ IsFiniteSet(Open \ N)
    BY <1>5, FS_Subset DEF IInv, PendingOK
  <2>2. Open = (Open \ N) \cup N /\ (Open \ N) \cap N = {}
    BY <1>5
  <2>3. Cardinality(Open) = Cardinality(Open \ N) + Cardinality(N) - Cardinality({})
    BY <2>1, <2>2, FS_Union
  <2>4. Cardinality(Open \ N) \in Nat /\ Cardinality(N) \in Nat /\ Cardinality({}) = 0
    BY <2>1, FS_CardinalityType, FS_EmptySet
  <2>5. pending' = Cardinality(Open \ N)
    BY <1>1, <2>3, <2>4 DEF IInv, PendingOK
  <2> QED
    BY <1>5, <2>1, <2>5 DEF PendingOK
<1>9. ReleaseOK'
  <2>1. over' \subseteq Fin /\ released' \in [Fin \cup Owned -> Nat]
    BY <1>1 DEF IInv, ReleaseOK
  <2>2. \A u \in Owned : released'[u] = released[u]
    BY <1>1, OpAssumption, NameAssumption DEF IInv, ReleaseOK
  <2>3. ASSUME NEW f \in Fin
        PROVE  \/ scopeOf'[f] = None /\ f \notin over' /\ released'[f] = 0
               \/ scopeOf'[f] # None /\ f \in over' /\ released'[f] = 1
               \/ /\ scopeOf'[f] # None /\ f \notin over' /\ released'[f] = 0
                  /\ f \in cleanups'[scopeOf'[f]] /\ ~cancelled'[scopeOf'[f]]
    <3>1. released'[f] = IF f \in C /\ f \notin over THEN released[f] + 1 ELSE released[f]
      BY <1>1 DEF IInv, ReleaseOK
    <3>2. CASE f \in C
      BY <1>1, <1>3, <3>1, <3>2, NoneAssumption DEF IInv, ReleaseOK
    <3>3. CASE f \notin C
      <4>1. released'[f] = released[f] /\ (f \in over' <=> f \in over)
        BY <1>1, <3>1, <3>3
      <4>2. f \in cleanups[scopeOf[f]] /\ scopeOf[f] # None =>
               scopeOf[f] \in Scope /\ scopeOf[f] \notin S
        BY <1>2, <3>3 DEF IInv, StrandOK
      <4> QED
        BY <1>1, <4>1, <4>2 DEF IInv, ReleaseOK
    <3> QED
      BY <3>2, <3>3
  <2> QED
    BY <2>1, <2>2, <2>3 DEF IInv, ReleaseOK
<1> QED
  BY <1>4, <1>7, <1>8, <1>9

LEMMA CancelTaskSafe ==
  ASSUME IInv, NEW sc \in Scope, CancelTask(sc)
  PROVE  IInv'
<1>1. QueueOK' /\ OnWay' = OnWay
  BY DEF CancelTask, IInv, QueueOK, OnWay
<1>2. StrandOK'
  BY DEF CancelTask, IInv, StrandOK, strandVars
<1>3. Cancel(Below(sc), sc) /\ UNCHANGED <<begun, scopeOf, starting, late, frames, calls, consumed, undone>>
  BY DEF CancelTask, strandVars, valueVars
<1> QED
  BY <1>1, <1>2, <1>3, CancelSafe, BelowAreScopes DEF IInv

LEMMA EndRaceSafe ==
  ASSUME IInv, NEW t \in Strand, EndRace(t)
  PROVE  IInv'
<1>1. starting = None /\ t \in begun /\ Here \in Scope /\ outer[t] \in begun \cup {None}
  BY HereIsScope DEF EndRace, Ending, IInv, StrandOK
<1>2. CASE Here \in arrived
  <2>1. QueueOK' /\ OnWay' = OnWay
    BY <1>2 DEF EndRace, IInv, QueueOK, OnWay
  <2>2. \A i \in 1..Len(runQ') : runQ'[i].strand \in begun \cup {None}
    BY <1>2 DEF EndRace, IInv, StrandOK
  <2>3. cur' = None /\ UNCHANGED <<begun, outer, parent, cancelled, cleanups, scopeOf, frames, opVars, valueVars, finVars>>
    BY <1>2 DEF EndRace, opVars, finVars
  <2> QED
    BY <1>1, <2>1, <2>2, <2>3, Moved
<1>3. CASE Here \notin arrived
  <2> DEFINE up == parent[Here]  s == Step(up, outer[t], None)
  <2>1. s \in StepSet /\ s.own = None /\ s.strand = outer[t]
    <3>1. up \in Scope \cup {None} /\ outer[t] \in Strand \cup {None}
      BY <1>1 DEF IInv, StrandOK
    <3> HIDE DEF up
    <3> QED
      BY <3>1, StepIsStep
  <2>2. Enqueue(s) /\ s.own \notin OnWay
    BY <1>3, <2>1 DEF EndRace, OnWay
  <2> HIDE DEF s
  <2>3. /\ QueueOK' /\ OnWay' = OnWay
        /\ \A i \in 1..Len(runQ') :
             runQ'[i].strand = outer[t] \/ \E j \in 1..Len(runQ) : runQ'[i].strand = runQ[j].strand
    BY <2>1, <2>2, Appended DEF IInv
  <2>4. /\ Cancel(Below(Here), Here) /\ cur' = None
        /\ UNCHANGED <<begun, outer, parent, waiter, scopeOf, starting, late, frames, calls, consumed, undone>>
    BY <1>3 DEF EndRace, valueVars
  <2>5. StrandOK'
    BY <1>1, <2>3, <2>4 DEF IInv, StrandOK
  <2>6. ValueOK' /\ CleanupOK' /\ PendingOK' /\ ReleaseOK'
    BY <2>3, <2>4, CancelSafe, BelowAreScopes
  <2> QED
    BY <2>3, <2>5, <2>6 DEF IInv
<1> QED
  BY <1>2, <1>3

LEMMA EndFinallySafe ==
  ASSUME IInv, NEW t \in Strand, EndFinally(t)
  PROVE  IInv'
<1> DEFINE n == Len(frames[t])  f == frames[t][n]
<1>1. starting = None /\ t \in begun /\ cur = t /\ Here \in Scope /\ Here = scopeOf[t]
  BY HereIsScope DEF EndFinally
<1>2. /\ frames[t] \in Seq(Fin) /\ n \in Nat /\ n >= 1 /\ n \in 1..n
      /\ f \in Fin /\ scopeOf[f] = Here
  <2>1. frames[t] \in Seq(Fin) /\ frames[t] # <<>>
    BY DEF EndFinally, IInv, ReleaseOK
  <2>2. n \in Nat /\ n >= 1
    BY <2>1, EmptySeq
  <2>3. n \in 1..n
    BY <2>2
  <2>4. f \in Fin
    BY <2>1, <2>3, ElementOfSeq
  <2> QED
    BY <1>1, <2>1, <2>2, <2>3, <2>4 DEF IInv, ReleaseOK
<1>3. /\ QueueOK' /\ OnWay' = OnWay /\ runQ' = runQ
      /\ UNCHANGED <<begun, outer, waiter, parent, scopeOf, cancelled, fired, pending, starting, late, calls, consumed, undone>>
  BY DEF EndFinally, IInv, QueueOK, OnWay, scopeVars, strandVars, opVars, valueVars
<1>4. CASE f \in over
  <2>1. cur' = None /\ UNCHANGED <<cleanups, frames, opVars, valueVars, finVars>>
    BY <1>4 DEF EndFinally, finVars
  <2>2. \A i \in 1..Len(runQ') : runQ'[i].strand \in begun \cup {None}
    BY <1>3 DEF IInv, StrandOK
  <2> QED
    BY <1>1, <1>3, <2>1, <2>2, Moved
<1>5. CASE f \notin over
  <2> DEFINE sc == Here
             q == SubSeq(frames[t], 1, n - 1)
  <2>1. /\ over' = over \cup {f} /\ released' = [released EXCEPT ![f] = @ + 1]
        /\ cleanups' = [cleanups EXCEPT ![sc] = @ \ {f}]
        /\ frames' = [frames EXCEPT ![t] = q] /\ cur' = cur
    BY <1>5 DEF EndFinally, Add
  <2>2. sc \in Scope /\ sc # None /\ scopeOf[f] = sc
    BY <1>1, <1>2, NoneAssumption
  <2>3. /\ q \in Seq(Fin) /\ Len(q) = n - 1 /\ \A i \in 1..Len(q) : q[i] = frames[t][i]
    <3>1. \A i \in 1..n - 1 : frames[t][i] \in Fin
      BY <1>2, ElementOfSeq
    <3> QED
      BY <1>2, <3>1, SubSeqProperties
  <2> HIDE DEF sc, q, f
  <2>4. StrandOK'
    BY <1>3, <2>1 DEF IInv, StrandOK
  <2>5. ValueOK'
    BY <1>3 DEF IInv, ValueOK
  <2>6. Open' = Open
    BY <1>3 DEF Open
  <2>7. PendingOK'
    BY <1>3, <2>6 DEF IInv, PendingOK
  <2>8. \A r \in Scope : cleanups'[r] = IF r = sc THEN cleanups[r] \ {f} ELSE cleanups[r]
    BY <2>1 DEF IInv, CleanupOK
  <2>9. CleanupOK'
    <3>1. cleanups' \in [Scope -> SUBSET (Op \cup Fin)]
      BY <2>1, <2>2 DEF IInv, CleanupOK
    <3>2. \A r \in Scope : \A x \in cleanups'[r] : scopeOf'[x] = r
      BY <1>3, <2>8 DEF IInv, CleanupOK
    <3>3. ASSUME NEW o \in Open' \ {starting'}
          PROVE  o \in cleanups'[scopeOf'[o]] /\ (cancelled'[scopeOf'[o]] => o \in late')
      <4>1. /\ o \in Op /\ scopeOf[o] \in Scope /\ o \in cleanups[scopeOf[o]]
            /\ cancelled[scopeOf[o]] => o \in late
        BY <1>3, <2>6 DEF Open, IInv, CleanupOK, StrandOK
      <4>2. o # f
        BY <1>2, <4>1, NameAssumption DEF f
      <4> QED
        BY <1>3, <2>8, <4>1, <4>2
    <3> QED
      BY <1>3, <3>1, <3>2, <3>3 DEF IInv, CleanupOK
  <2>10. ReleaseOK'
    <3>1. f \in Fin /\ released[f] = 0 /\ released'[f] = 1 /\ f \in over'
          /\ \A g \in Fin \cup Owned : g # f => released'[g] = released[g]
      BY <1>2, <1>5, <2>1, <2>2 DEF IInv, ReleaseOK, f
    <3>2. over' \subseteq Fin /\ released' \in [Fin \cup Owned -> Nat] /\ frames' \in [Strand -> Seq(Fin)]
      BY <2>1, <2>3, <3>1 DEF IInv, ReleaseOK
    <3>3. ASSUME NEW u \in Strand, NEW i \in 1..Len(frames'[u])
          PROVE  u \in begun' /\ scopeOf'[frames'[u][i]] = scopeOf'[u]
      <4>1. CASE u = t
        <5>1. i \in 1..n /\ frames'[u][i] = frames[t][i]
          BY <1>2, <2>1, <2>3, <4>1 DEF IInv, ReleaseOK
        <5> QED
          BY <1>3, <4>1, <5>1 DEF IInv, ReleaseOK
      <4>2. CASE u # t
        BY <1>3, <2>1, <4>2 DEF IInv, ReleaseOK
      <4> QED
        BY <4>1, <4>2
    <3>4. ASSUME NEW g \in Fin
          PROVE  \/ scopeOf'[g] = None /\ g \notin over' /\ released'[g] = 0
                 \/ scopeOf'[g] # None /\ g \in over' /\ released'[g] = 1
                 \/ /\ scopeOf'[g] # None /\ g \notin over' /\ released'[g] = 0
                    /\ g \in cleanups'[scopeOf'[g]] /\ ~cancelled'[scopeOf'[g]]
      <4>1. CASE g = f
        BY <1>3, <2>2, <3>1, <4>1
      <4>2. CASE g # f
        <5>1. scopeOf' = scopeOf /\ cancelled' = cancelled /\ (g \in over' <=> g \in over) /\ released'[g] = released[g]
          BY <1>3, <2>1, <3>1, <4>2
        <5>2. scopeOf[g] # None => scopeOf[g] \in Scope
          BY DEF IInv, StrandOK
        <5>3. g \in cleanups[scopeOf[g]] /\ scopeOf[g] # None => g \in cleanups'[scopeOf[g]]
          BY <2>8, <4>2, <5>2
        <5> QED
          BY <5>1, <5>3 DEF IInv, ReleaseOK
      <4> QED
        BY <4>1, <4>2
    <3>5. \A u \in Owned : released'[u] = released[u]
      BY <3>1, OpAssumption, NameAssumption
    <3> QED
      BY <1>3, <3>2, <3>3, <3>4, <3>5 DEF IInv, ReleaseOK
  <2> QED
    BY <1>3, <2>4, <2>5, <2>7, <2>9, <2>10 DEF IInv
<1> QED
  BY <1>4, <1>5

(* A completion: the first puts its value on its way, a later one undoes it. *)
LEMMA CompleteSafe ==
  ASSUME IInv, NEW o \in Op, Complete(o)
  PROVE  IInv'
<1>1. /\ scopeOf[o] \in Scope /\ scopeOf[o] # None /\ waiter[o] \in begun \cup {None} /\ o # None
      /\ calls' = [calls EXCEPT ![o] = @ + 1]
      /\ UNCHANGED <<begun, outer, parent, scopeOf, waiter, cancelled, starting, late, frames, consumed, over, released, cur>>
  BY NoneAssumption DEF Complete, Add, scopeVars, strandVars, finVars, IInv, StrandOK
<1>2. calls' \in [Op -> Nat] /\ calls'[o] = calls[o] + 1 /\ \A p \in Op : p # o => calls'[p] = calls[p]
  BY <1>1 DEF IInv, ValueOK
<1>3. CASE o \in fired
  <2>1. /\ undone' = IF o \in Handoffs THEN [undone EXCEPT ![o] = @ + 1] ELSE undone
        /\ fired' = fired /\ pending' = pending /\ cleanups' = cleanups /\ runQ' = runQ
    BY <1>3 DEF Complete, Add
  <2>2. QueueOK' /\ OnWay' = OnWay
    BY <2>1 DEF IInv, QueueOK, OnWay
  <2>3. StrandOK'
    BY <1>1, <2>1 DEF IInv, StrandOK
  <2>4. ValueOK'
    <3>1. undone' \in [Op -> Nat] /\ \A p \in Op : p # o => undone'[p] = undone[p]
      BY <2>1 DEF IInv, ValueOK
    <3>2. o \in Handoffs => undone'[o] = undone[o] + 1
      BY <2>1 DEF IInv, ValueOK
    <3>3. \A h \in Handoffs : h \in Op /\ consumed[h] \in Nat /\ undone[h] \in Nat /\ calls[h] \in Nat
      BY OpAssumption DEF IInv, ValueOK
    <3>4. ASSUME NEW h \in Handoffs
          PROVE  /\ consumed'[h] + undone'[h] + (IF h \in OnWay' THEN 1 ELSE 0) = calls'[h]
                 /\ consumed'[h] + (IF h \in OnWay' THEN 1 ELSE 0) <= 1
      BY <1>1, <1>2, <2>2, <3>1, <3>2, <3>3 DEF IInv, ValueOK
    <3>5. \A p \in Op : p \notin fired' =>
            calls'[p] = 0 /\ consumed'[p] = 0 /\ undone'[p] = 0 /\ p \notin OnWay'
      BY <1>1, <1>2, <1>3, <2>1, <2>2, <3>1 DEF IInv, ValueOK
    <3> QED
      BY <1>1, <1>2, <2>1, <3>1, <3>4, <3>5 DEF IInv, ValueOK
  <2>5. Open' = Open
    BY <1>1, <2>1 DEF Open
  <2>6. CleanupOK' /\ PendingOK'
    BY <1>1, <2>1, <2>5 DEF IInv, CleanupOK, PendingOK
  <2>7. ReleaseOK'
    BY <1>1, <2>1, <2>2 DEF IInv, ReleaseOK
  <2> QED
    BY <2>2, <2>3, <2>4, <2>6, <2>7 DEF IInv
<1>4. CASE o \notin fired
  <2> DEFINE sc == scopeOf[o]  s == Step(sc, waiter[o], o)
  <2>1. s \in StepSet /\ s.own = o /\ s.strand = waiter[o]
    <3>1. sc \in Scope \cup {None} /\ waiter[o] \in Strand \cup {None}
      BY <1>1 DEF IInv, StrandOK
    <3> QED
      BY <3>1, StepIsStep
  <2>2. /\ Enqueue(s) /\ fired' = fired \cup {o} /\ pending' = pending - 1
        /\ cleanups' = [cleanups EXCEPT ![sc] = @ \ {o}] /\ undone' = undone
    BY <1>4 DEF Complete
  <2> HIDE DEF sc, s
  <2>3. o \notin OnWay /\ calls[o] = 0 /\ consumed[o] = 0 /\ undone[o] = 0
    BY <1>4 DEF IInv, ValueOK
  <2>4. /\ QueueOK' /\ OnWay' = OnWay \cup {o}
        /\ \A i \in 1..Len(runQ') :
             runQ'[i].strand = waiter[o] \/ \E j \in 1..Len(runQ) : runQ'[i].strand = runQ[j].strand
    BY <1>1, <2>1, <2>2, <2>3, Appended DEF IInv
  <2>5. StrandOK'
    BY <1>1, <2>4 DEF IInv, StrandOK
  <2>6. ValueOK'
    <3>1. ASSUME NEW h \in Handoffs
          PROVE  /\ consumed'[h] + undone'[h] + (IF h \in OnWay' THEN 1 ELSE 0) = calls'[h]
                 /\ consumed'[h] + (IF h \in OnWay' THEN 1 ELSE 0) <= 1
      <4>1. CASE h = o
        BY <1>1, <1>2, <2>2, <2>3, <2>4, <4>1
      <4>2. CASE h # o
        BY <1>1, <1>2, <2>2, <2>4, <4>2, OpAssumption DEF IInv, ValueOK
      <4> QED
        BY <4>1, <4>2
    <3>2. \A p \in Op : p \notin fired' =>
            calls'[p] = 0 /\ consumed'[p] = 0 /\ undone'[p] = 0 /\ p \notin OnWay'
      BY <1>1, <1>2, <2>2, <2>4 DEF IInv, ValueOK
    <3> QED
      BY <1>1, <1>2, <2>2, <3>1, <3>2 DEF IInv, ValueOK
  <2>7. o \in Open /\ Open' = Open \ {o}
    BY <1>1, <1>4, <2>2 DEF Open
  <2>8. PendingOK'
    BY <2>2, <2>7, FS_RemoveElement DEF IInv, PendingOK
  <2>9. \A r \in Scope : cleanups'[r] = IF r = sc THEN cleanups[r] \ {o} ELSE cleanups[r]
    BY <2>2 DEF IInv, CleanupOK
  <2>10. CleanupOK'
    <3>1. cleanups' \in [Scope -> SUBSET (Op \cup Fin)]
      BY <2>2 DEF IInv, CleanupOK
    <3>2. \A r \in Scope : \A x \in cleanups'[r] : scopeOf'[x] = r
      BY <1>1, <2>9 DEF IInv, CleanupOK
    <3>3. ASSUME NEW p \in Open' \ {starting'}
          PROVE  p \in cleanups'[scopeOf'[p]] /\ (cancelled'[scopeOf'[p]] => p \in late')
      <4>1. /\ p # o /\ p \in Op /\ scopeOf[p] \in Scope /\ p \in cleanups[scopeOf[p]]
            /\ cancelled[scopeOf[p]] => p \in late
        BY <1>1, <2>7 DEF Open, IInv, CleanupOK, StrandOK
      <4> QED
        BY <1>1, <2>9, <4>1
    <3> QED
      BY <1>1, <3>1, <3>2, <3>3 DEF IInv, CleanupOK
  <2>11. ReleaseOK'
    <3>1. \A f \in Fin : f # o
      BY NameAssumption
    <3>2. \A f \in Fin : scopeOf[f] # None /\ f \in cleanups[scopeOf[f]] => f \in cleanups'[scopeOf[f]]
      BY <2>9, <3>1 DEF IInv, StrandOK
    <3>3. \A u \in Owned : u \in OnWay' <=> u \in OnWay
      BY <2>4, OpAssumption, NameAssumption
    <3>4. ASSUME NEW f \in Fin
          PROVE  \/ scopeOf'[f] = None /\ f \notin over' /\ released'[f] = 0
                 \/ scopeOf'[f] # None /\ f \in over' /\ released'[f] = 1
                 \/ /\ scopeOf'[f] # None /\ f \notin over' /\ released'[f] = 0
                    /\ f \in cleanups'[scopeOf'[f]] /\ ~cancelled'[scopeOf'[f]]
      BY <1>1, <3>2 DEF IInv, ReleaseOK
    <3> QED
      BY <1>1, <3>3, <3>4 DEF IInv, ReleaseOK
  <2> QED
    BY <2>4, <2>5, <2>6, <2>8, <2>10, <2>11 DEF IInv
<1> QED
  BY <1>3, <1>4

(* What is still on its way when the scheduler is closed is handed back.    *)
LEMMA CloseSafe ==
  ASSUME IInv, Close
  PROVE  IInv'
<1>1. /\ runQ' = <<>> /\ Len(runQ') = 0 /\ 1..Len(runQ') = {}
      /\ UNCHANGED <<begun, outer, parent, scopeOf, waiter, cancelled, cleanups, frames, fired, pending,
                     starting, late, calls, consumed, over, cur>>
  BY DEF Close, scopeVars, strandVars, opVars
<1>2. QueueOK' /\ OnWay' = {}
  BY <1>1, EmptySeq DEF QueueOK, OnWay
<1>3. StrandOK'
  BY <1>1 DEF IInv, StrandOK
<1>4. ASSUME NEW o \in Op
      PROVE  undone'[o] = undone[o] + IF o \in Handoffs /\ o \in OnWay THEN 1 ELSE 0
  <2>1. undone'[o] = undone[o] + Cardinality({step \in Ready : step.own = o /\ o \in Handoffs})
    BY DEF Close
  <2>2. CASE o \in Handoffs
    <3>1. {step \in Ready : step.own = o /\ o \in Handoffs} = {step \in Ready : step.own = o}
      BY <2>2
    <3>2. Cardinality({step \in Ready : step.own = o}) = IF o \in OnWay THEN 1 ELSE 0
      BY OnWayCounts, NoneAssumption DEF IInv
    <3> QED
      BY <2>1, <2>2, <3>1, <3>2
  <2>3. CASE o \notin Handoffs
    <3>1. {step \in Ready : step.own = o /\ o \in Handoffs} = {}
      BY <2>3
    <3> QED
      BY <2>1, <2>3, <3>1, FS_EmptySet
  <2> QED
    BY <2>2, <2>3
<1>5. ASSUME NEW x \in Fin \cup Owned
      PROVE  released'[x] = released[x] + IF x \in OnWay THEN 1 ELSE 0
  <2>1. released'[x] = released[x] + Cardinality({step \in Ready : step.own = x})
    BY DEF Close, IInv, ReleaseOK
  <2>2. x # None
    BY OpAssumption, NoneAssumption
  <2> QED
    BY <2>1, <2>2, OnWayCounts DEF IInv
<1>6. OnWay \subseteq Op \cup Owned
  <2>1. \A i \in 1..Len(runQ) : runQ[i] \in StepSet
    BY ElementOfSeq DEF IInv, QueueOK
  <2> QED
    BY <2>1 DEF OnWay, StepSet
<1>7. ValueOK'
  <2>1. \A o \in Op : undone[o] \in Nat /\ consumed[o] \in Nat /\ calls[o] \in Nat
    BY DEF IInv, ValueOK
  <2>2. undone' \in [Op -> Nat]
    <3>1. undone' = [o \in Op |-> undone'[o]]
      BY DEF Close
    <3>2. \A o \in Op : undone'[o] \in Nat
      BY <1>4, <2>1
    <3> QED
      BY <3>1, <3>2
  <2>3. ASSUME NEW h \in Handoffs
        PROVE  /\ consumed'[h] + undone'[h] + (IF h \in OnWay' THEN 1 ELSE 0) = calls'[h]
               /\ consumed'[h] + (IF h \in OnWay' THEN 1 ELSE 0) <= 1
    BY <1>1, <1>2, <1>4, <2>1, OpAssumption DEF IInv, ValueOK
  <2>4. ASSUME NEW o \in Op, o \notin fired'
        PROVE  calls'[o] = 0 /\ consumed'[o] = 0 /\ undone'[o] = 0 /\ o \notin OnWay'
    <3>1. calls[o] = 0 /\ consumed[o] = 0 /\ undone[o] = 0 /\ o \notin OnWay
      BY <1>1, <2>4 DEF IInv, ValueOK
    <3> QED
      BY <1>1, <1>2, <1>4, <3>1
  <2> QED
    BY <1>1, <2>2, <2>3, <2>4 DEF IInv, ValueOK
<1>8. Open' = Open
  BY <1>1 DEF Open
<1>9. CleanupOK' /\ PendingOK'
  BY <1>1, <1>8 DEF IInv, CleanupOK, PendingOK
<1>10. ReleaseOK'
  <2>1. \A f \in Fin : released'[f] = released[f]
    BY <1>5, <1>6, OpAssumption, NameAssumption DEF IInv, ReleaseOK
  <2>2. released' \in [Fin \cup Owned -> Nat]
    <3>1. released' = [x \in Fin \cup Owned |-> released'[x]]
      BY DEF Close, IInv, ReleaseOK
    <3>2. \A x \in Fin \cup Owned : released'[x] \in Nat
      BY <1>5 DEF IInv, ReleaseOK
    <3> QED
      BY <3>1, <3>2
  <2>3. ASSUME NEW u \in Owned
        PROVE  /\ u \notin begun' => released'[u] = 0 /\ u \notin OnWay'
               /\ released'[u] + (IF u \in OnWay' THEN 1 ELSE 0) <= 1
    BY <1>1, <1>2, <1>5 DEF IInv, ReleaseOK
  <2> QED
    BY <1>1, <2>1, <2>2, <2>3 DEF IInv, ReleaseOK
<1> QED
  BY <1>2, <1>3, <1>7, <1>9, <1>10 DEF IInv

LEMMA InterpretSafe ==
  ASSUME IInv, NEW t \in Strand, Interpret(t)
  PROVE  IInv'
  BY PinnedSafe, EmptySafe, SpawnSafe, BothSafe, RaceSafe, StartSafe, RegisterSafe, FinallySafe,
     EndFinallySafe, EndAloneSafe, EndBothSafe, EndRaceSafe DEF Interpret

LEMMA StepSafe == IInv /\ [Next]_vars => IInv'
<1> SUFFICES ASSUME IInv, [Next]_vars PROVE IInv'
  OBVIOUS
<1>1. CASE UNCHANGED vars
  <2>1. QueueOK' /\ OnWay' = OnWay
    BY <1>1 DEF vars, IInv, QueueOK, OnWay
  <2>2. \A i \in 1..Len(runQ') : runQ'[i].strand \in begun \cup {None}
    BY <1>1 DEF vars, IInv, StrandOK
  <2>3. cur' = cur /\ cur \in begun \cup {None} /\ (cur' = None => starting = None)
    BY <1>1 DEF vars, IInv, StrandOK
  <2> QED
    BY <1>1, <2>1, <2>2, <2>3, Moved DEF vars, scopeVars, strandVars
<1>2. CASE Turn
  BY <1>2, RunStepSafe, InterpretSafe DEF Turn
<1>3. CASE Close
  BY <1>3, CloseSafe
<1>4. CASE \E t \in Strand : Submit(t) \/ \E sc \in Scope : SubmitHandle(t, sc)
  BY <1>4, SubmitSafe, SubmitHandleSafe
<1>5. CASE \E sc \in Scope : CancelTask(sc)
  BY <1>5, CancelTaskSafe
<1>6. CASE \E o \in Op : Complete(o)
  BY <1>6, CompleteSafe
<1> QED
  BY <1>1, <1>2, <1>3, <1>4, <1>5, <1>6 DEF Next
-----------------------------------------------------------------------------
LEMMA Inductive == Spec => []IInv
<1>1. Init => IInv
  BY InitSafe
<1>2. IInv /\ [Next]_vars => IInv'
  BY StepSafe
<1> QED
  BY <1>1, <1>2, PTL DEF Spec

(* Every value a completion was called with is on its way, has been started *)
(* with or has been undone, exactly once, however often completions are     *)
(* called, whatever is cancelled and whenever the scheduler is closed       *)
(* (runHandoff, Control.Task.handoff).                                      *)
THEOREM ExactlyOneOfTheTwo == Spec => []HandoffExactlyOnce
<1>1. IInv => HandoffExactlyOnce
  <2> SUFFICES ASSUME IInv, NEW h \in Handoffs
               PROVE  /\ consumed[h] + undone[h] + Cardinality({i \in 1..Len(runQ) : runQ[i].own = h}) = calls[h]
                      /\ consumed[h] <= 1
    BY DEF HandoffExactlyOnce
  <2>1. h # None /\ consumed[h] \in Nat
    BY OpAssumption, NoneAssumption DEF IInv, ValueOK
  <2>2. Cardinality({i \in 1..Len(runQ) : runQ[i].own = h}) = IF h \in OnWay THEN 1 ELSE 0
    BY <2>1, OnWayCounts DEF IInv
  <2> QED
    BY <2>1, <2>2 DEF IInv, ValueOK
<1> QED
  BY <1>1, Inductive, PTL

(* A release runs at most once; a finalizer that is open can be given up by *)
(* its scope, which is not cancelled; so can an operation whose callback is *)
(* back, and its scope is cancelled only if that happened in its callback;  *)
(* and pending is the number of open operations (runFinally, runAsync,      *)
(* cancelScope, turn).                                                      *)
THEOREM NothingLeftOpen == Spec => []NoOrphans
<1>1. IInv => NoOrphans
  <2> SUFFICES ASSUME IInv PROVE NoOrphans
    OBVIOUS
  <2>1. \A x \in DOMAIN released : released[x] <= 1
    <3>1. \A f \in Fin : released[f] <= 1
      BY DEF IInv, ReleaseOK
    <3>2. \A u \in Owned : released[u] <= 1
      BY DEF IInv, ReleaseOK
    <3> QED
      BY <3>1, <3>2 DEF IInv, ReleaseOK
  <2>2. \A f \in Fin : scopeOf[f] # None =>
          \/ f \in over /\ released[f] = 1
          \/ f \notin over /\ f \in cleanups[scopeOf[f]] /\ ~cancelled[scopeOf[f]]
    BY DEF IInv, ReleaseOK
  <2>3. \A o \in Open \ {starting} : o \in cleanups[scopeOf[o]] /\ (cancelled[scopeOf[o]] => o \in late)
    BY DEF IInv, CleanupOK
  <2>4. pending = Cardinality(Open)
    BY DEF IInv, PendingOK
  <2> QED
    BY <2>1, <2>2, <2>3, <2>4 DEF NoOrphans, Open
<1> QED
  BY <1>1, Inductive, PTL
-----------------------------------------------------------------------------
(* The tree of scopes: a scope stays one of its parent's children until it  *)
(* is cancelled.  Only that of a handle, right below the root, is let go.   *)
TreeOK ==
  /\ made \subseteq Scope /\ Root \in made /\ linked \subseteq made
  /\ parent \in [Scope -> made \cup {None}] /\ parent[Root] = None /\ ~cancelled[Root]
  /\ \A sc \in made : sc # Root => parent[sc] # None
  /\ \A sc \in made : sc # Root /\ parent[sc] # Root => sc \in linked \/ cancelled[sc]

(* What a strand's end leads to is there, and one strand for each race.     *)
LinksOK ==
  /\ \A x \in DOMAIN scopeOf : scopeOf[x] \in made \cup {None}
  /\ role \in [Strand -> Roles]
  /\ \A t \in begun :
       /\ role[t] = "handle" => scopeOf[t] # Root /\ parent[scopeOf[t]] = Root
       /\ role[t] = "race" => scopeOf[t] # Root
       /\ role[t] \in {"both", "race"} => outer[t] # None
  /\ \A t, u \in begun : role[t] = "race" /\ role[u] = "race" /\ scopeOf[t] = scopeOf[u] => outer[t] = outer[u]
  /\ arrived \subseteq made \cup begun
  /\ \A o \in Op : scopeOf[o] = None <=> waiter[o] = None
StepsOK == \A i \in 1..Len(runQ) : runQ[i].scope \in made /\ runQ[i].strand # None

(* The places of a strand that will go on.                                  *)
Queued  == {runQ[i].strand : i \in 1..Len(runQ)}
Going   == {t \in {cur} \ {None} : starting = None}
Waiting == {waiter[o] : o \in Op \ fired} \ {None}
RaceOf(t)   == {sc \in made \ arrived : \E u \in begun : role[u] = "race" /\ outer[u] = t /\ scopeOf[u] = sc}
Racing      == {t \in Strand : RaceOf(t) # {}}
Sides(W, t) == {u \in W : outer[u] = t}
Joining(W)  == {t \in Strand : Sides(W, t) # {}}

(* It is in one place, and there once.  W are the sides of joins that may   *)
(* still end: a side that can go on is one of them.                         *)
QueuedOnce  == \A i, j \in 1..Len(runQ) : runQ[i].strand = runQ[j].strand => i = j
WaitingOnce == \A o, p \in Op \ fired : waiter[o] = waiter[p] /\ waiter[o] # None => o = p
RacingOnce  == \A t \in Strand : \A r, sc \in RaceOf(t) : r = sc
Apart(W) ==
  /\ Queued \cap (Going \cup Waiting \cup Racing \cup Joining(W)) = {}
  /\ Going \cap (Waiting \cup Racing \cup Joining(W)) = {}
  /\ Waiting \cap (Racing \cup Joining(W)) = {}
  /\ Racing \cap Joining(W) = {}
Active(W) == Queued \cup Going \cup Waiting \cup Racing \cup Joining(W)
Half(W, t) == \E u \in W : Sides(W, t) = {u}
Whole(W, t) == \E u, v \in W : u # v /\ Sides(W, t) = {u, v}
JoinsOK(W) ==
  /\ W \subseteq begun /\ \A u \in W : role[u] = "both"
  /\ \A u \in Active(W) : role[u] = "both" => u \in W
  /\ \A t \in Joining(W) : IF t \in arrived THEN Half(W, t) ELSE Whole(W, t)
OnceOK(W) == QueuedOnce /\ WaitingOnce /\ RacingOnce /\ Apart(W) /\ JoinsOK(W)
PlacesOK == \E W \in SUBSET Strand : OnceOK(W)

LInv == IInv /\ TreeOK /\ LinksOK /\ StepsOK
ContInv == LInv /\ PlacesOK
-----------------------------------------------------------------------------
LEMMA QueueFacts ==
  ASSUME IInv
  PROVE  runQ \in Seq(StepSet) /\ Len(runQ) \in Nat /\ Queued \subseteq begun \cup {None}
  BY DEF IInv, QueueOK, StrandOK, Queued

LEMMA EnqueueOne ==
  ASSUME IInv, NEW s \in StepSet, Enqueue(s)
  PROVE  /\ Queued' = Queued \cup {s.strand}
         /\ QueuedOnce /\ s.strand \notin Queued => QueuedOnce'
         /\ StepsOK /\ s.scope \in made /\ made \subseteq made' /\ s.strand # None => StepsOK'
<1>1. runQ \in Seq(StepSet) /\ Len(runQ) \in Nat
  BY QueueFacts
<1>2. /\ runQ' \in Seq(StepSet) /\ Len(runQ') = Len(runQ) + 1
      /\ \A i \in 1..Len(runQ) : runQ'[i] = runQ[i]
      /\ runQ'[Len(runQ) + 1] = s
  BY <1>1, AppendProperties DEF Enqueue
<1>3. \A i \in 1..Len(runQ') : i \in 1..Len(runQ) \/ i = Len(runQ) + 1
  BY <1>1, <1>2
<1>4. Len(runQ) + 1 \in 1..Len(runQ') /\ \A i \in 1..Len(runQ) : i \in 1..Len(runQ')
  BY <1>1, <1>2
<1>5. Queued' = Queued \cup {s.strand}
  <2>1. ASSUME NEW x \in Queued' PROVE x \in Queued \cup {s.strand}
    BY <1>2, <1>3 DEF Queued
  <2>2. ASSUME NEW x \in Queued \cup {s.strand} PROVE x \in Queued'
    BY <1>2, <1>4 DEF Queued
  <2> QED
    BY <2>1, <2>2
<1>6. QueuedOnce /\ s.strand \notin Queued => QueuedOnce'
  BY <1>2, <1>3 DEF QueuedOnce, Queued
<1>7. StepsOK /\ s.scope \in made /\ made \subseteq made' /\ s.strand # None => StepsOK'
  BY <1>2, <1>3 DEF StepsOK
<1> QED
  BY <1>5, <1>6, <1>7

LEMMA EnqueueTwo ==
  ASSUME IInv, NEW s \in StepSet, NEW r \in StepSet, runQ' = runQ \o <<s, r>>
  PROVE  /\ Queued' = Queued \cup {s.strand, r.strand}
         /\ QueuedOnce /\ s.strand # r.strand /\ {s.strand, r.strand} \cap Queued = {} => QueuedOnce'
         /\ StepsOK /\ {s.scope, r.scope} \subseteq made' /\ made \subseteq made' /\ None \notin {s.strand, r.strand} => StepsOK'
<1>1. runQ \in Seq(StepSet) /\ Len(runQ) \in Nat
  BY QueueFacts
<1>2. <<s, r>> \in Seq(StepSet) /\ Len(<<s, r>>) = 2 /\ <<s, r>>[1] = s /\ <<s, r>>[2] = r
  OBVIOUS
<1> DEFINE q == <<s, r>>
<1> HIDE DEF q
<1>3. /\ runQ' \in Seq(StepSet) /\ Len(runQ') = Len(runQ) + 2
      /\ \A i \in 1..Len(runQ) : runQ'[i] = runQ[i]
      /\ runQ'[Len(runQ) + 1] = s /\ runQ'[Len(runQ) + 2] = r
  <2>1. q \in Seq(StepSet) /\ Len(q) = 2 /\ q[1] = s /\ q[2] = r /\ runQ' = runQ \o q
    BY <1>2 DEF q
  <2> QED
    BY <1>1, <2>1, ConcatProperties
<1>4. \A i \in 1..Len(runQ') : i \in 1..Len(runQ) \/ i = Len(runQ) + 1 \/ i = Len(runQ) + 2
  BY <1>1, <1>3
<1>5. /\ Len(runQ) + 1 \in 1..Len(runQ') /\ Len(runQ) + 2 \in 1..Len(runQ')
      /\ \A i \in 1..Len(runQ) : i \in 1..Len(runQ')
  BY <1>1, <1>3
<1>6. Queued' = Queued \cup {s.strand, r.strand}
  <2>1. ASSUME NEW x \in Queued' PROVE x \in Queued \cup {s.strand, r.strand}
    BY <1>3, <1>4 DEF Queued
  <2>2. ASSUME NEW x \in Queued \cup {s.strand, r.strand} PROVE x \in Queued'
    BY <1>3, <1>5 DEF Queued
  <2> QED
    BY <2>1, <2>2
<1>7. QueuedOnce /\ s.strand # r.strand /\ {s.strand, r.strand} \cap Queued = {} => QueuedOnce'
  <2> SUFFICES ASSUME QueuedOnce, s.strand # r.strand, s.strand \notin Queued, r.strand \notin Queued,
                      NEW i \in 1..Len(runQ'), NEW j \in 1..Len(runQ'), runQ'[i].strand = runQ'[j].strand
               PROVE  i = j
    BY DEF QueuedOnce
  <2>1. \A k \in 1..Len(runQ) : runQ[k].strand \in Queued
    BY DEF Queued
  <2>2. CASE i \in 1..Len(runQ)
    <3>1. runQ'[i].strand \in Queued
      BY <1>3, <2>1, <2>2
    <3>2. j \in 1..Len(runQ)
      BY <1>3, <1>4, <3>1
    <3> QED
      BY <1>3, <2>2, <3>2 DEF QueuedOnce
  <2>3. CASE i \notin 1..Len(runQ)
    <3>1. j \notin 1..Len(runQ)
      BY <1>3, <1>4, <2>1, <2>3
    <3> QED
      BY <1>3, <1>4, <2>3, <3>1
  <2> QED
    BY <2>2, <2>3
<1>8. StepsOK /\ {s.scope, r.scope} \subseteq made' /\ made \subseteq made' /\ None \notin {s.strand, r.strand} => StepsOK'
  BY <1>3, <1>4 DEF StepsOK
<1> QED
  BY <1>6, <1>7, <1>8

LEMMA Dequeue ==
  ASSUME IInv, QueuedOnce, runQ # <<>>, runQ' = Tail(runQ)
  PROVE  /\ Queued' = Queued \ {Head(runQ).strand} /\ QueuedOnce'
         /\ Head(runQ).strand \in Queued
         /\ StepsOK /\ made' = made => StepsOK'
         /\ StepsOK => Head(runQ).strand \in begun
<1> DEFINE s == Head(runQ)
<1>1. runQ \in Seq(StepSet) /\ Len(runQ) \in Nat /\ Len(runQ) >= 1
  BY QueueFacts, EmptySeq
<1>2. /\ Len(runQ') = Len(runQ) - 1
      /\ \A i \in 1..Len(runQ') : runQ'[i] = runQ[i + 1]
  BY <1>1, HeadTailProperties
<1>3. s = runQ[1] /\ 1 \in 1..Len(runQ)
  BY <1>1
<1> HIDE DEF s
<1>4. \A i \in 1..Len(runQ') : i + 1 \in 1..Len(runQ) /\ i + 1 # 1
  BY <1>1, <1>2
<1>5. \A j \in 1..Len(runQ) : j = 1 \/ (j - 1 \in 1..Len(runQ') /\ runQ[j] = runQ'[j - 1])
  BY <1>1, <1>2
<1>6. Queued' = Queued \ {s.strand}
  <2>1. ASSUME NEW x \in Queued' PROVE x \in Queued \ {s.strand}
    <3>1. PICK i \in 1..Len(runQ') : x = runQ'[i].strand
      BY DEF Queued
    <3>2. i + 1 \in 1..Len(runQ) /\ x = runQ[i + 1].strand /\ i + 1 # 1
      BY <3>1, <1>2, <1>4
    <3> QED
      BY <3>2, <1>3 DEF Queued, QueuedOnce
  <2>2. ASSUME NEW x \in Queued, x # s.strand PROVE x \in Queued'
    BY <2>2, <1>3, <1>5 DEF Queued
  <2> QED
    BY <2>1, <2>2
<1>7. QueuedOnce'
  <2> SUFFICES ASSUME NEW i \in 1..Len(runQ'), NEW j \in 1..Len(runQ'), runQ'[i].strand = runQ'[j].strand
               PROVE  i = j
    BY DEF QueuedOnce
  <2>1. i + 1 = j + 1
    BY <1>2, <1>4 DEF QueuedOnce
  <2> QED
    BY <1>1, <1>2, <2>1
<1>8. StepsOK /\ made' = made => StepsOK'
  BY <1>2, <1>4 DEF StepsOK
<1>9. s.strand \in Queued /\ (StepsOK => s.strand # None)
  BY <1>3 DEF Queued, StepsOK
<1> QED
  BY <1>6, <1>7, <1>8, <1>9, QueueFacts DEF s

LEMMA SameQueue ==
  ASSUME runQ' = runQ
  PROVE  Queued' = Queued /\ (QueuedOnce => QueuedOnce') /\ (StepsOK /\ made \subseteq made' => StepsOK')
  BY DEF Queued, QueuedOnce, StepsOK

(* Only strands that exist are anywhere.                                    *)
LEMMA ActiveExist ==
  ASSUME LInv, NEW W \in SUBSET Strand, W \subseteq begun
  PROVE  Active(W) \subseteq begun /\ None \notin Active(W)
<1>1. Queued \subseteq begun /\ None \notin Queued
  BY NoneAssumption DEF LInv, IInv, StrandOK, StepsOK, Queued
<1>2. Going \subseteq begun /\ Waiting \subseteq begun /\ None \notin Going \cup Waiting
  BY DEF LInv, IInv, StrandOK, Going, Waiting
<1>3. Racing \subseteq begun /\ None \notin Racing
  BY NoneAssumption DEF LInv, IInv, StrandOK, LinksOK, Racing, RaceOf
<1>4. Joining(W) \subseteq begun /\ None \notin Joining(W)
  BY NoneAssumption DEF LInv, IInv, StrandOK, Joining, Sides
<1> QED
  BY <1>1, <1>2, <1>3, <1>4 DEF Active

(* The races and joins of strands are what they were when strands start     *)
(* that do not race, and scopes are made.                                   *)
LEMMA RacesKept ==
  ASSUME LInv, NEW T \in SUBSET Strand, T \cap begun = {}, begun' = begun \cup T,
         made \subseteq made', arrived' \cap made = arrived \cap made,
         \A u \in T : role'[u] # "race",
         \A u \in begun : role'[u] = role[u] /\ outer'[u] = outer[u] /\ scopeOf'[u] = scopeOf[u]
  PROVE  (\A t \in Strand : RaceOf(t)' = RaceOf(t)) /\ Racing' = Racing /\ (RacingOnce => RacingOnce')
<1>1. \A u \in begun : scopeOf[u] \in made
  BY DEF LInv, IInv, StrandOK, LinksOK
<1>2. ASSUME NEW t \in Strand PROVE RaceOf(t)' = RaceOf(t)
  BY <1>1 DEF RaceOf
<1> QED
  BY <1>2 DEF Racing, RacingOnce

LEMMA SidesKept ==
  ASSUME NEW W \in SUBSET Strand, W \subseteq begun, \A u \in begun : outer'[u] = outer[u]
  PROVE  /\ \A t \in Strand : Sides(W, t)' = Sides(W, t) /\ (Half(W, t)' <=> Half(W, t)) /\ (Whole(W, t)' <=> Whole(W, t))
         /\ Joining(W)' = Joining(W)
<1>1. \A t \in Strand : Sides(W, t)' = Sides(W, t)
  BY DEF Sides
<1> QED
  BY <1>1 DEF Joining, Half, Whole

LEMMA SameWaiting ==
  ASSUME UNCHANGED <<waiter, fired>>
  PROVE  Waiting' = Waiting /\ (WaitingOnce => WaitingOnce')
  BY DEF Waiting, WaitingOnce
-----------------------------------------------------------------------------
LEMMA TreeKept ==
  ASSUME TreeOK, UNCHANGED scopeVars
  PROVE  TreeOK' /\ made' = made /\ parent' = parent
  BY DEF TreeOK, scopeVars

LEMMA TreeGrown ==
  ASSUME TreeOK, NEW sc \in Scope, sc \notin made, NEW under \in made, NewScope(sc, under), cancelled' = cancelled
  PROVE  /\ TreeOK' /\ made' = made \cup {sc} /\ sc # Root /\ parent'[sc] = under
         /\ \A r \in made : parent'[r] = parent[r]
<1>1. /\ made' = made \cup {sc} /\ linked' = linked \cup {sc} /\ parent \in [Scope -> made \cup {None}]
      /\ parent' = [parent EXCEPT ![sc] = under]
  BY DEF TreeOK, NewScope
<1>2. sc # Root /\ parent'[sc] = under /\ \A r \in made : parent'[r] = parent[r]
  BY <1>1 DEF TreeOK
<1>3. parent' \in [Scope -> made' \cup {None}]
  BY <1>1
<1>4. under # None
  BY NoneAssumption DEF TreeOK
<1> QED
  BY <1>1, <1>2, <1>3, <1>4 DEF TreeOK

LEMMA LinksKept ==
  ASSUME LInv, UNCHANGED <<begun, role, outer, parent>>, made' = made,
         \A t \in Strand : scopeOf'[t] = scopeOf[t],
         DOMAIN scopeOf' = Strand \cup Op \cup Fin,
         \A x \in Op \cup Fin : scopeOf'[x] \in made \cup {None},
         arrived' \subseteq made \cup begun,
         \A o \in Op : scopeOf'[o] = None <=> waiter'[o] = None
  PROVE  LinksOK'
<1>1. begun \subseteq Strand /\ \A t \in Strand : scopeOf[t] \in made \cup {None}
  BY DEF LInv, IInv, StrandOK, LinksOK
<1> QED
  BY <1>1 DEF LInv, LinksOK

LEMMA LinksStay ==
  ASSUME LInv, UNCHANGED <<begun, role, outer, parent, made, scopeOf, waiter>>, arrived' \subseteq made \cup begun
  PROVE  LinksOK'
<1>1. DOMAIN scopeOf = Strand \cup Op \cup Fin
  BY DEF LInv, IInv, StrandOK
<1> QED
  BY <1>1, LinksKept DEF LInv, LinksOK

LEMMA LinksStarted ==
  ASSUME LInv, NEW T \in SUBSET Strand, T \cap begun = {}, NEW sc \in Scope, NEW what \in Roles,
         NEW o \in begun \cup {None}, NewStrands(T, sc, what, o),
         made \subseteq made', sc \in made', \A r \in made : parent'[r] = parent[r],
         what = "handle" => sc # Root /\ parent'[sc] = Root,
         what = "race" => sc \notin made,
         what \in {"both", "race"} => o # None,
         arrived' \subseteq arrived, waiter' = waiter
  PROVE  /\ LinksOK' /\ begun' = begun \cup T
         /\ \A u \in begun : role'[u] = role[u] /\ outer'[u] = outer[u] /\ scopeOf'[u] = scopeOf[u]
         /\ \A u \in T : role'[u] = what /\ outer'[u] = o /\ scopeOf'[u] = sc
<1>1. /\ DOMAIN scopeOf = Strand \cup Op \cup Fin /\ begun \subseteq Strand
      /\ \A t \in begun : scopeOf[t] \in made /\ Root \in made
  BY DEF LInv, IInv, StrandOK, LinksOK, TreeOK
<1>2. /\ begun' = begun \cup T
      /\ \A u \in begun : role'[u] = role[u] /\ outer'[u] = outer[u] /\ scopeOf'[u] = scopeOf[u]
      /\ \A u \in T : role'[u] = what /\ outer'[u] = o /\ scopeOf'[u] = sc
      /\ role' = [t \in Strand |-> IF t \in T THEN what ELSE role[t]]
      /\ DOMAIN scopeOf' = DOMAIN scopeOf
      /\ \A x \in DOMAIN scopeOf : scopeOf'[x] = scopeOf[x] \/ scopeOf'[x] = sc
      /\ \A x \in Op : scopeOf'[x] = scopeOf[x]
  BY <1>1, NameAssumption DEF NewStrands
<1>3. \A x \in DOMAIN scopeOf' : scopeOf'[x] \in made' \cup {None}
  BY <1>2 DEF LInv, LinksOK
<1>4. role' \in [Strand -> Roles]
  BY <1>2 DEF LInv, LinksOK
<1>5. ASSUME NEW t \in begun'
      PROVE  /\ role'[t] = "handle" => scopeOf'[t] # Root /\ parent'[scopeOf'[t]] = Root
             /\ role'[t] = "race" => scopeOf'[t] # Root
             /\ role'[t] \in {"both", "race"} => outer'[t] # None
  BY <1>1, <1>2 DEF LInv, LinksOK
<1>6. ASSUME NEW t \in begun', NEW u \in begun', role'[t] = "race", role'[u] = "race", scopeOf'[t] = scopeOf'[u]
      PROVE  outer'[t] = outer'[u]
  BY SMTT(30), <1>1, <1>2, <1>6 DEF LInv, LinksOK
<1>7. arrived' \subseteq made' \cup begun'
  BY <1>2 DEF LInv, LinksOK
<1>8. \A p \in Op : scopeOf'[p] = None <=> waiter'[p] = None
  BY <1>2 DEF LInv, LinksOK
<1> QED
  BY <1>2, <1>3, <1>4, <1>5, <1>6, <1>7, <1>8 DEF LinksOK
-----------------------------------------------------------------------------
(* What cancelScope reaches has with a scope its children, and never the    *)
(* root, which is nobody's child.                                           *)
LEMMA Reached ==
  ASSUME TreeOK, NEW sc \in Scope, sc # Root
  PROVE  /\ Closed(Below(sc)) /\ Root \notin Below(sc)
         /\ cancelled[sc] => Below(sc) = {}
         /\ ~cancelled[sc] => sc \in Below(sc)
<1>1. Root \notin Below(sc)
  <2>1. Closed(Scope \ {Root})
    BY NoneAssumption DEF Closed, Kids, TreeOK
  <2> QED
    BY <2>1 DEF Below
<1>2. ASSUME NEW x \in Kids(Below(sc)) PROVE x \in Below(sc)
  <2>1. x \in Scope /\ parent[x] \in Below(sc)
    BY <1>2 DEF Kids, TreeOK
  <2>2. ASSUME NEW S \in SUBSET Scope, sc \in S, Closed(S) PROVE x \in S
    <3>1. parent[x] \in S
      BY <2>1, <2>2 DEF Below
    <3> QED
      BY <1>2, <2>2, <3>1 DEF Kids, Closed
  <2> QED
    BY <2>1, <2>2 DEF Below
<1> QED
  BY <1>1, <1>2 DEF Closed, Below

LEMMA TreeCancelled ==
  ASSUME TreeOK, NEW sc \in Scope, sc # Root, Cancel(Below(sc), sc), UNCHANGED <<made, parent>>
  PROVE  /\ TreeOK'
         /\ \A r \in made : parent[r] # None /\ cancelled'[parent[r]] /\ ~cancelled[parent[r]] => cancelled'[r]
<1> DEFINE S == Below(sc)
<1>1. /\ cancelled' = [r \in Scope |-> cancelled[r] \/ r \in S]
      /\ linked' = {r \in linked : parent[r] \notin S} \ {sc}
  BY DEF Cancel
<1>2. Root \notin S /\ Closed(S) /\ (cancelled[sc] \/ sc \in S)
  BY Reached
<1> HIDE DEF S
<1>3. ASSUME NEW r \in made, parent[r] \in S PROVE cancelled'[r]
  <2>1. r # Root /\ parent[r] # Root
    BY <1>2, <1>3, NoneAssumption DEF TreeOK, S, Below
  <2>2. CASE cancelled[r]
    BY <1>1, <2>2 DEF TreeOK
  <2>3. CASE ~cancelled[r]
    <3>1. r \in Kids(S)
      BY <1>3, <2>1, <2>3 DEF TreeOK, Kids
    <3> QED
      BY <1>1, <1>2, <3>1 DEF Closed, TreeOK
  <2> QED
    BY <2>2, <2>3
<1>4. ASSUME NEW r \in made, r # Root, parent[r] # Root PROVE r \in linked' \/ cancelled'[r]
  <2>1. CASE r \in linked
    BY <1>1, <1>2, <1>3, <2>1 DEF TreeOK
  <2>2. CASE cancelled[r]
    BY <1>1, <2>2 DEF TreeOK
  <2> QED
    BY <1>4, <2>1, <2>2 DEF TreeOK
<1>5. ~cancelled'[Root]
  BY <1>1, <1>2, RootAssumption DEF TreeOK
<1>6. TreeOK'
  BY <1>1, <1>4, <1>5 DEF TreeOK
<1>7. ASSUME NEW r \in made, parent[r] # None, cancelled'[parent[r]], ~cancelled[parent[r]] PROVE cancelled'[r]
  <2>1. parent[r] \in Scope
    BY <1>7 DEF TreeOK
  <2> QED
    BY <1>1, <1>3, <1>7, <2>1
<1> QED
  BY <1>6, <1>7
-----------------------------------------------------------------------------
LEMMA RunningHere ==
  ASSUME LInv, NEW t \in Strand, Running(t)
  PROVE  /\ t \in begun /\ cur = t /\ t # None /\ Here = scopeOf[t] /\ Here \in made /\ Here \in Scope
         /\ Going = {t}
  BY NoneAssumption DEF Running, Here, LInv, IInv, StrandOK, TreeOK, LinksOK, Going

LEMMA ContInit == Init => ContInv
<1> SUFFICES ASSUME Init PROVE ContInv
  OBVIOUS
<1>1. IInv /\ Len(runQ) = 0 /\ 1..Len(runQ) = {}
  BY InitSafe DEF Init
<1>2. TreeOK
  BY RootAssumption DEF Init, TreeOK
<1>3. LinksOK
  BY DEF Init, LinksOK, Roles
<1>4. StepsOK
  BY <1>1 DEF StepsOK
<1>5. Queued = {} /\ Going = {} /\ Waiting = {} /\ Racing = {} /\ Joining({}) = {}
  BY <1>1 DEF Init, Queued, Going, Waiting, Racing, RaceOf, Joining, Sides
<1>6. QueuedOnce /\ WaitingOnce /\ RacingOnce
  BY <1>1 DEF Init, QueuedOnce, WaitingOnce, RacingOnce, RaceOf
<1>7. OnceOK({})
  BY <1>5, <1>6 DEF OnceOK, Apart, JoinsOK, Active
<1> QED
  BY <1>1, <1>2, <1>3, <1>4, <1>7 DEF ContInv, LInv, PlacesOK

(* A new strand is nowhere yet: it starts to run, or is queued.             *)
LEMMA NewGoes ==
  ASSUME ContInv, LInv', NEW t \in Strand, t \notin begun, NEW sc \in Scope, NEW what \in {"submitted", "handle", "spawned"},
         begun' = begun \cup {t}, made \subseteq made', arrived' = arrived,
         \A u \in begun : role'[u] = role[u] /\ outer'[u] = outer[u] /\ scopeOf'[u] = scopeOf[u],
         role'[t] = what, UNCHANGED <<waiter, fired>>, QueuedOnce => QueuedOnce',
         \/ Queued' = Queued /\ Going = {} /\ Going' = {t}
         \/ Queued' = Queued \cup {t} /\ Going' = Going
  PROVE  PlacesOK'
<1>0. LInv /\ begun \subseteq Strand
  BY DEF ContInv, LInv, IInv, StrandOK
<1>1. PICK W \in SUBSET Strand : OnceOK(W)
  BY DEF ContInv, PlacesOK
<1>2. W \subseteq begun /\ Active(W) \subseteq begun
  BY <1>0, <1>1, ActiveExist DEF OnceOK, JoinsOK
<1>3. Racing' = Racing /\ RacingOnce'
  BY <1>0, <1>1, RacesKept DEF OnceOK
<1>4. /\ \A u \in Strand : (Half(W, u)' <=> Half(W, u)) /\ (Whole(W, u)' <=> Whole(W, u))
      /\ Joining(W)' = Joining(W)
  BY <1>2, SidesKept
<1>5. Waiting' = Waiting /\ WaitingOnce'
  BY <1>1, SameWaiting DEF OnceOK
<1>6. t \notin Active(W)
  BY <1>2
<1>7. Apart(W)'
  BY <1>1, <1>3, <1>4, <1>5, <1>6 DEF OnceOK, Apart, Active
<1>8. Active(W)' = Active(W) \cup {t}
  BY <1>3, <1>4, <1>5 DEF Active
<1>9. \A u \in Joining(W) : u \in Strand
  BY DEF Joining
<1>10. JoinsOK(W)'
  <2>1. W \subseteq begun' /\ \A u \in W : role'[u] = "both"
    BY <1>1, <1>2 DEF OnceOK, JoinsOK
  <2>2. \A u \in Active(W)' : role'[u] = "both" => u \in W
    BY <1>1, <1>2, <1>8 DEF OnceOK, JoinsOK
  <2>3. \A u \in Joining(W)' : IF u \in arrived' THEN Half(W, u)' ELSE Whole(W, u)'
    BY <1>1, <1>4, <1>9 DEF OnceOK, JoinsOK
  <2> QED
    BY <2>1, <2>2, <2>3 DEF JoinsOK
<1> QED
  BY <1>1, <1>3, <1>5, <1>7, <1>10 DEF PlacesOK, OnceOK

LEMMA ContSubmit ==
  ASSUME ContInv, NEW t \in Strand, Submit(t)
  PROVE  ContInv'
<1>0. LInv /\ Root \in made /\ Root \in Scope
  BY DEF ContInv, LInv, TreeOK
<1>1. IInv'
  BY <1>0, SubmitSafe DEF LInv
<1>2. /\ {t} \cap begun = {} /\ NewStrands({t}, Root, "submitted", None) /\ "submitted" \in Roles
      /\ cur = None /\ cur' = t /\ runQ' = runQ
      /\ UNCHANGED <<scopeVars, arrived, waiter, fired>>
  BY DEF Submit, opVars, Roles
<1>3. TreeOK' /\ made' = made /\ parent' = parent
  BY <1>0, <1>2, TreeKept DEF LInv
<1>4. /\ LinksOK' /\ begun' = begun \cup {t}
      /\ \A u \in begun : role'[u] = role[u] /\ outer'[u] = outer[u] /\ scopeOf'[u] = scopeOf[u]
      /\ role'[t] = "submitted"
  BY <1>0, <1>2, <1>3, LinksStarted
<1>5. Queued' = Queued /\ (QueuedOnce => QueuedOnce') /\ StepsOK'
  BY <1>0, <1>2, <1>3, SameQueue DEF LInv
<1>6. Going = {} /\ Going' = {t}
  <2>1. cur = None /\ cur' = t /\ t # None /\ starting' = starting
    BY NoneAssumption DEF Submit, opVars
  <2>2. starting = None
    BY <1>0, <2>1 DEF LInv, IInv, StrandOK
  <2> QED
    BY <2>1, <2>2 DEF Going
<1>7. LInv'
  BY <1>1, <1>3, <1>4, <1>5 DEF LInv
<1>8. PlacesOK'
  BY <1>0, <1>2, <1>3, <1>4, <1>5, <1>6, <1>7, NewGoes
<1> QED
  BY <1>7, <1>8 DEF ContInv

LEMMA ContSubmitHandle ==
  ASSUME ContInv, NEW t \in Strand, NEW sc \in Scope, SubmitHandle(t, sc)
  PROVE  ContInv'
<1>0. LInv /\ Root \in made /\ TreeOK
  BY DEF ContInv, LInv, TreeOK
<1>1. IInv'
  BY <1>0, SubmitHandleSafe DEF LInv
<1>2. /\ {t} \cap begun = {} /\ NewStrands({t}, sc, "handle", None) /\ "handle" \in Roles
      /\ cur = None /\ cur' = t /\ runQ' = runQ /\ sc \notin made /\ NewScope(sc, Root)
      /\ UNCHANGED <<cancelled, arrived, waiter, fired>>
  BY DEF SubmitHandle, opVars, Roles
<1>3. TreeOK' /\ made' = made \cup {sc} /\ sc # Root /\ parent'[sc] = Root /\ \A r \in made : parent'[r] = parent[r]
  BY <1>0, <1>2, TreeGrown
<1>4. /\ LinksOK' /\ begun' = begun \cup {t}
      /\ \A u \in begun : role'[u] = role[u] /\ outer'[u] = outer[u] /\ scopeOf'[u] = scopeOf[u]
      /\ role'[t] = "handle"
  <2> DEFINE T == {t}
  <2>1. T \in SUBSET Strand /\ T \cap begun = {} /\ NewStrands(T, sc, "handle", None)
    BY <1>2
  <2>2. made \subseteq made' /\ sc \in made' /\ \A r \in made : parent'[r] = parent[r]
    BY <1>0, <1>3
  <2>3. arrived' \subseteq arrived /\ waiter' = waiter
    BY <1>2
  <2> HIDE DEF T
  <2>4. /\ LinksOK' /\ begun' = begun \cup T
        /\ \A v \in begun : role'[v] = role[v] /\ outer'[v] = outer[v] /\ scopeOf'[v] = scopeOf[v]
        /\ \A v \in T : role'[v] = "handle"
    BY <1>0, <1>2, <1>3, <2>1, <2>2, <2>3, LinksStarted
  <2> QED
    BY <2>4 DEF T
<1>5. Queued' = Queued /\ (QueuedOnce => QueuedOnce') /\ StepsOK'
  BY <1>0, <1>2, <1>3, SameQueue DEF LInv
<1>6. Going = {} /\ Going' = {t}
  <2>1. cur = None /\ cur' = t /\ t # None /\ starting' = starting
    BY NoneAssumption DEF SubmitHandle, opVars
  <2>2. starting = None
    BY <1>0, <2>1 DEF LInv, IInv, StrandOK
  <2> QED
    BY <2>1, <2>2 DEF Going
<1>7. LInv'
  BY <1>1, <1>3, <1>4, <1>5 DEF LInv
<1>8. PlacesOK'
  BY <1>0, <1>2, <1>3, <1>4, <1>5, <1>6, <1>7, NewGoes
<1> QED
  BY <1>7, <1>8 DEF ContInv

LEMMA ContSpawn ==
  ASSUME ContInv, NEW t \in Strand, NEW u \in Strand, Spawn(t, u)
  PROVE  ContInv'
<1>0. LInv /\ Here \in made /\ Here \in Scope /\ cur = t /\ u # None
  BY RunningHere, NoneAssumption DEF ContInv, Spawn
<1>1. IInv'
  BY <1>0, SpawnSafe DEF LInv
<1> DEFINE s == Step(Here, u, IF u \in Owned THEN u ELSE None)
<1>2. /\ {u} \cap begun = {} /\ NewStrands({u}, Here, "spawned", None) /\ "spawned" \in Roles
      /\ Enqueue(s) /\ cur' = cur
      /\ UNCHANGED <<scopeVars, arrived, waiter, fired>>
  BY DEF Spawn, opVars, Roles
<1>3. TreeOK' /\ made' = made /\ parent' = parent
  BY <1>0, <1>2, TreeKept DEF LInv
<1>4. /\ LinksOK' /\ begun' = begun \cup {u}
      /\ \A v \in begun : role'[v] = role[v] /\ outer'[v] = outer[v] /\ scopeOf'[v] = scopeOf[v]
      /\ role'[u] = "spawned"
  <2> DEFINE T == {u}
  <2>1. T \in SUBSET Strand /\ T \cap begun = {} /\ NewStrands(T, Here, "spawned", None)
    BY <1>2
  <2>2. made \subseteq made' /\ Here \in made' /\ \A r \in made : parent'[r] = parent[r]
    BY <1>0, <1>3
  <2>3. arrived' \subseteq arrived /\ waiter' = waiter
    BY <1>2
  <2> HIDE DEF T
  <2>4. /\ LinksOK' /\ begun' = begun \cup T
        /\ \A v \in begun : role'[v] = role[v] /\ outer'[v] = outer[v] /\ scopeOf'[v] = scopeOf[v]
        /\ \A v \in T : role'[v] = "spawned"
    BY <1>0, <1>2, <1>3, <2>1, <2>2, <2>3, LinksStarted
  <2> QED
    BY <2>4 DEF T
<1>5. s \in StepSet /\ s.strand = u /\ s.scope = Here
  BY <1>0, OpAssumption DEF StepSet, Step
<1> HIDE DEF s
<1>6. u \notin Queued
  BY <1>0, <1>2, QueueFacts DEF LInv
<1>7. Queued' = Queued \cup {u} /\ (QueuedOnce => QueuedOnce') /\ StepsOK'
  BY <1>0, <1>2, <1>3, <1>5, <1>6, EnqueueOne DEF LInv
<1>8. Going' = Going
  BY <1>2 DEF Going, Spawn, opVars
<1>9. LInv'
  BY <1>1, <1>3, <1>4, <1>7 DEF LInv
<1>10. PlacesOK'
  BY <1>0, <1>2, <1>3, <1>4, <1>7, <1>8, <1>9, NewGoes
<1> QED
  BY <1>9, <1>10 DEF ContInv

(* A step after which nobody is where nobody was before.                    *)
LEMMA OnlyMoves ==
  ASSUME LInv, NEW W \in SUBSET Strand, OnceOK(W),
         UNCHANGED <<begun, role, outer, made, arrived>>, \A u \in Strand : scopeOf'[u] = scopeOf[u],
         QueuedOnce', WaitingOnce',
         Queued' \cup Going' \cup Waiting' \subseteq Queued \cup Going \cup Waiting,
         Queued' \cap (Going' \cup Waiting') = {}, Going' \cap Waiting' = {}
  PROVE  PlacesOK'
<1>1. W \subseteq begun /\ begun \subseteq Strand
  BY DEF OnceOK, JoinsOK, LInv, IInv, StrandOK
<1>2. Racing' = Racing /\ RacingOnce'
  <2> DEFINE T == {}
  <2>1. T \in SUBSET Strand /\ T \cap begun = {} /\ begun' = begun \cup T /\ \A u \in T : role'[u] # "race"
    OBVIOUS
  <2> HIDE DEF T
  <2> QED
    BY <1>1, <2>1, RacesKept DEF OnceOK
<1>3. /\ \A u \in Strand : (Half(W, u)' <=> Half(W, u)) /\ (Whole(W, u)' <=> Whole(W, u))
      /\ Joining(W)' = Joining(W)
  BY <1>1, SidesKept
<1>4. Apart(W)'
  BY <1>2, <1>3 DEF OnceOK, Apart
<1>5. Active(W)' \subseteq Active(W)
  BY <1>2, <1>3 DEF Active
<1>6. JoinsOK(W)'
  <2>1. \A u \in Joining(W)' : IF u \in arrived' THEN Half(W, u)' ELSE Whole(W, u)'
    BY <1>3 DEF OnceOK, JoinsOK, Joining
  <2>2. /\ W \subseteq begun' /\ \A u \in W : role'[u] = "both"
        /\ \A u \in Active(W)' : role'[u] = "both" => u \in W
    BY <1>1, <1>5 DEF OnceOK, JoinsOK
  <2> QED
    BY <2>1, <2>2 DEF JoinsOK
<1> QED
  BY <1>2, <1>4, <1>6 DEF PlacesOK, OnceOK

LEMMA Places ==
  ASSUME ContInv
  PROVE  \E W \in SUBSET Strand :
           /\ OnceOK(W) /\ QueuedOnce /\ WaitingOnce /\ RacingOnce
           /\ W \subseteq begun /\ Active(W) \subseteq begun /\ None \notin Active(W)
           /\ Queued \cap (Going \cup Waiting) = {} /\ Going \cap Waiting = {}
<1>1. PICK W \in SUBSET Strand : OnceOK(W)
  BY DEF ContInv, PlacesOK
<1> QED
  BY <1>1, ActiveExist DEF ContInv, OnceOK, JoinsOK, Apart

LEMMA ContRunStep ==
  ASSUME ContInv, RunStep
  PROVE  ContInv'
<1>0. LInv
  BY DEF ContInv
<1>1. IInv'
  BY <1>0, RunStepSafe DEF LInv
<1>2. PICK W \in SUBSET Strand :
        /\ OnceOK(W) /\ QueuedOnce /\ WaitingOnce
        /\ Queued \cap (Going \cup Waiting) = {} /\ Going \cap Waiting = {}
  BY Places
<1>3. /\ runQ # <<>> /\ runQ' = Tail(runQ) /\ cur = None /\ cur' \in {None, Head(runQ).strand}
      /\ UNCHANGED <<scopeVars, begun, role, outer, arrived, scopeOf, waiter, fired>>
  BY DEF RunStep, strandVars, opVars
<1>4. TreeOK' /\ made' = made /\ parent' = parent
  BY <1>0, <1>3, TreeKept DEF LInv
<1>5. LinksOK'
  BY <1>0, <1>3, <1>4, LinksStay DEF LInv, LinksOK
<1>6. /\ Queued' = Queued \ {Head(runQ).strand} /\ QueuedOnce' /\ StepsOK'
      /\ Head(runQ).strand \in Queued
  BY <1>0, <1>2, <1>3, <1>4, Dequeue DEF LInv
<1>7. Waiting' = Waiting /\ WaitingOnce'
  BY <1>2, <1>3, SameWaiting
<1>8. Going = {} /\ Going' \subseteq {Head(runQ).strand}
  BY <1>3 DEF Going
<1>9. PlacesOK'
  BY <1>0, <1>2, <1>3, <1>4, <1>6, <1>7, <1>8, OnlyMoves
<1> QED
  BY <1>1, <1>4, <1>5, <1>6, <1>9 DEF ContInv, LInv

(* A step of the running strand that leaves the queue and the waiting ones. *)
LEMMA ContQuiet ==
  ASSUME ContInv, IInv', Going' \subseteq Going,
         UNCHANGED <<runQ, begun, role, outer, arrived, waiter, fired>>,
         TreeOK', made' = made, parent' = parent,
         \A u \in Strand : scopeOf'[u] = scopeOf[u],
         \A x \in Op : scopeOf'[x] = scopeOf[x],
         \A x \in Fin : scopeOf'[x] \in made \cup {None}
  PROVE  ContInv'
<1>0. LInv
  BY DEF ContInv
<1>1. PICK W \in SUBSET Strand :
        /\ OnceOK(W) /\ QueuedOnce /\ WaitingOnce
        /\ Queued \cap (Going \cup Waiting) = {} /\ Going \cap Waiting = {}
  BY Places
<1>2. LinksOK'
  <2>1. \A x \in Op \cup Fin : scopeOf'[x] \in made \cup {None}
    BY <1>0 DEF LInv, LinksOK, IInv, StrandOK
  <2>2. DOMAIN scopeOf' = Strand \cup Op \cup Fin
    BY DEF IInv, StrandOK
  <2>3. arrived' \subseteq made \cup begun /\ \A o \in Op : scopeOf'[o] = None <=> waiter'[o] = None
    BY <1>0 DEF LInv, LinksOK
  <2> QED
    BY <1>0, <2>1, <2>2, <2>3, LinksKept
<1>3. Queued' = Queued /\ QueuedOnce' /\ StepsOK'
  BY <1>0, <1>1, SameQueue DEF LInv
<1>4. Waiting' = Waiting /\ WaitingOnce'
  BY <1>1, SameWaiting
<1>5. PlacesOK'
  BY <1>0, <1>1, <1>3, <1>4, OnlyMoves
<1> QED
  BY <1>2, <1>3, <1>5 DEF ContInv, LInv

LEMMA ContEmpty ==
  ASSUME ContInv, NEW t \in Strand, Empty(t)
  PROVE  ContInv'
<1>1. IInv' /\ TreeOK' /\ made' = made /\ parent' = parent
  BY EmptySafe, TreeKept DEF ContInv, LInv, Empty
<1>2. Going' \subseteq Going /\ UNCHANGED <<runQ, begun, role, outer, arrived, waiter, fired, scopeOf>>
  BY DEF Empty, Going, strandVars, opVars
<1> QED
  BY <1>1, <1>2, ContQuiet DEF ContInv, LInv, LinksOK, IInv, StrandOK

LEMMA ContFinally ==
  ASSUME ContInv, NEW t \in Strand, NEW f \in Fin, Finally(t, f)
  PROVE  ContInv'
<1>0. Here \in made
  BY RunningHere DEF Finally, ContInv
<1>1. IInv' /\ TreeOK' /\ made' = made /\ parent' = parent
  BY FinallySafe, TreeKept DEF ContInv, LInv, Finally
<1>2. Going' \subseteq Going /\ UNCHANGED <<runQ, begun, role, outer, arrived, waiter, fired>>
  BY DEF Finally, Going, strandVars, opVars
<1>3. scopeOf' = [scopeOf EXCEPT ![f] = Here]
  BY DEF Finally
<1>4. /\ \A u \in Strand : scopeOf'[u] = scopeOf[u]
      /\ \A x \in Op : scopeOf'[x] = scopeOf[x]
  BY <1>3, NameAssumption DEF ContInv, LInv, IInv, StrandOK
<1>5. \A x \in Fin : scopeOf'[x] \in made \cup {None}
  BY <1>0, <1>3 DEF ContInv, LInv, LinksOK, IInv, StrandOK
<1> QED
  BY <1>1, <1>2, <1>4, <1>5, ContQuiet

LEMMA ContEndFinally ==
  ASSUME ContInv, NEW t \in Strand, EndFinally(t)
  PROVE  ContInv'
<1>1. IInv' /\ TreeOK' /\ made' = made /\ parent' = parent
  BY EndFinallySafe, TreeKept DEF ContInv, LInv, EndFinally
<1>2. Going' \subseteq Going /\ UNCHANGED <<runQ, begun, role, outer, arrived, waiter, fired, scopeOf>>
  BY DEF EndFinally, Going, strandVars, opVars
<1> QED
  BY <1>1, <1>2, ContQuiet DEF ContInv, LInv, LinksOK, IInv, StrandOK

LEMMA ContEndAlone ==
  ASSUME ContInv, NEW t \in Strand, EndAlone(t)
  PROVE  ContInv'
<1>0. LInv /\ t \in begun /\ Here = scopeOf[t]
  BY RunningHere DEF EndAlone, Ending, ContInv
<1>1. IInv'
  BY <1>0, EndAloneSafe DEF LInv
<1>2. /\ Going' \subseteq Going
      /\ UNCHANGED <<runQ, begun, role, outer, arrived, waiter, fired, scopeOf, made, parent, cancelled>>
      /\ linked' = IF role[t] = "handle" THEN linked \ {Here} ELSE linked
  BY DEF EndAlone, Going, strandVars, opVars
<1>3. TreeOK'
  <2>1. \A sc \in made : sc # Root /\ parent[sc] # Root => sc \in linked' \/ cancelled[sc]
    BY <1>0, <1>2 DEF LInv, TreeOK, LinksOK
  <2> QED
    BY <1>0, <1>2, <2>1 DEF LInv, TreeOK
<1> QED
  BY <1>0, <1>1, <1>2, <1>3, ContQuiet DEF LInv, LinksOK, IInv, StrandOK

LEMMA ContPinned ==
  ASSUME ContInv, NEW t \in Strand, Pinned(t)
  PROVE  ContInv'
<1>0. LInv /\ Here \in made /\ Here \in Scope /\ t # None /\ Going = {t}
  BY RunningHere DEF ContInv, Pinned
<1>1. IInv'
  BY <1>0, PinnedSafe DEF LInv
<1>2. PICK W \in SUBSET Strand :
        /\ OnceOK(W) /\ QueuedOnce /\ WaitingOnce
        /\ Queued \cap (Going \cup Waiting) = {} /\ Going \cap Waiting = {}
  BY Places
<1> DEFINE s == Step(Here, t, None)
<1>3. /\ Enqueue(s) /\ cur' = None
      /\ UNCHANGED <<scopeVars, begun, role, outer, arrived, scopeOf, waiter, fired>>
  BY DEF Pinned, strandVars, opVars
<1>4. TreeOK' /\ made' = made /\ parent' = parent
  BY <1>0, <1>3, TreeKept DEF LInv
<1>5. LinksOK'
  BY <1>0, <1>3, <1>4, LinksStay DEF LInv, LinksOK
<1>6. s \in StepSet /\ s.strand = t /\ s.scope = Here
  BY <1>0 DEF StepSet, Step
<1> HIDE DEF s
<1>7. Queued' = Queued \cup {t} /\ QueuedOnce' /\ StepsOK'
  BY <1>0, <1>2, <1>3, <1>4, <1>6, EnqueueOne DEF LInv
<1>8. Waiting' = Waiting /\ WaitingOnce' /\ Going' = {}
  BY <1>2, <1>3, SameWaiting DEF Going
<1>9. PlacesOK'
  BY <1>0, <1>2, <1>3, <1>4, <1>7, <1>8, OnlyMoves
<1> QED
  BY <1>1, <1>4, <1>5, <1>7, <1>9 DEF ContInv, LInv

LEMMA ContStart ==
  ASSUME ContInv, NEW t \in Strand, NEW o \in Op, Start(t, o)
  PROVE  ContInv'
<1>0. LInv /\ Here \in made /\ Here \in Scope /\ t # None /\ Going = {t}
  BY RunningHere DEF ContInv, Start
<1>1. IInv'
  BY <1>0, StartSafe DEF LInv
<1>2. PICK W \in SUBSET Strand :
        /\ OnceOK(W) /\ QueuedOnce /\ WaitingOnce
        /\ Queued \cap (Going \cup Waiting) = {} /\ Going \cap Waiting = {}
  BY Places
<1>3. /\ scopeOf[o] = None
      /\ cur' = None \/ starting' = o
      /\ UNCHANGED <<scopeVars, runQ, begun, role, outer, arrived, fired>>
      /\ \/ UNCHANGED <<scopeOf, waiter>>
         \/ scopeOf' = [scopeOf EXCEPT ![o] = Here] /\ waiter' = [waiter EXCEPT ![o] = t]
  BY DEF Start, strandVars
<1>4. TreeOK' /\ made' = made /\ parent' = parent
  BY <1>0, <1>3, TreeKept DEF LInv
<1>5. \A u \in Strand : scopeOf'[u] = scopeOf[u]
  BY <1>0, <1>3, NameAssumption DEF LInv, IInv, StrandOK
<1>6. LinksOK'
  <2>1. /\ DOMAIN scopeOf = Strand \cup Op \cup Fin /\ waiter \in [Op -> begun \cup {None}]
        /\ DOMAIN scopeOf' = Strand \cup Op \cup Fin
    BY <1>0, <1>1 DEF LInv, IInv, StrandOK
  <2>2. \A x \in Op \cup Fin : scopeOf'[x] \in made \cup {None}
    BY <1>0, <1>3, <2>1 DEF LInv, LinksOK
  <2>3. \A p \in Op : scopeOf'[p] = None <=> waiter'[p] = None
    BY <1>0, <1>3, <2>1, NoneAssumption DEF LInv, LinksOK
  <2>4. arrived' \subseteq made \cup begun
    BY <1>0, <1>3 DEF LInv, LinksOK
  <2> QED
    BY <1>0, <1>3, <1>4, <1>5, <2>1, <2>2, <2>3, <2>4, LinksKept
<1>7. Queued' = Queued /\ QueuedOnce' /\ StepsOK'
  BY <1>0, <1>2, <1>3, <1>4, SameQueue DEF LInv
<1>8. Going' = {}
  BY <1>3, NoneAssumption DEF Going
<1>9. Waiting' \subseteq Waiting \cup {t} /\ WaitingOnce'
  <2>1. CASE UNCHANGED waiter
    BY <1>2, <1>3, <2>1, SameWaiting
  <2>2. CASE waiter' = [waiter EXCEPT ![o] = t]
    <3>1. \A p \in Op \ fired : p # o => waiter'[p] = waiter[p]
      BY <1>0, <2>2 DEF LInv, IInv, StrandOK
    <3>2. waiter'[o] = t
      BY <1>0, <2>2 DEF LInv, IInv, StrandOK
    <3>3. Waiting' \subseteq Waiting \cup {t}
      BY <1>3, <3>1, <3>2 DEF Waiting
    <3>4. \A p \in Op \ fired : waiter[p] # t
      BY <1>0, <1>2 DEF Waiting
    <3> QED
      BY <1>2, <1>3, <3>1, <3>2, <3>3, <3>4 DEF WaitingOnce
  <2> QED
    BY <1>3, <2>1, <2>2
<1>10. PlacesOK'
  BY <1>0, <1>2, <1>3, <1>4, <1>5, <1>7, <1>8, <1>9, OnlyMoves
<1> QED
  BY <1>1, <1>4, <1>6, <1>7, <1>10 DEF ContInv, LInv

LEMMA ContRegister ==
  ASSUME ContInv, NEW t \in Strand, Register(t)
  PROVE  ContInv'
<1>1. IInv' /\ TreeOK' /\ made' = made /\ parent' = parent
  BY RegisterSafe, TreeKept DEF ContInv, LInv, Register
<1>2. Going' \subseteq Going /\ UNCHANGED <<runQ, begun, role, outer, arrived, waiter, fired, scopeOf>>
  BY DEF Register, Going, strandVars, opVars
<1> QED
  BY <1>1, <1>2, ContQuiet DEF ContInv, LInv, LinksOK, IInv, StrandOK

LEMMA ContComplete ==
  ASSUME ContInv, NEW o \in Op, Complete(o)
  PROVE  ContInv'
<1>0. LInv
  BY DEF ContInv
<1>1. IInv'
  BY <1>0, CompleteSafe DEF LInv
<1>2. PICK W \in SUBSET Strand :
        /\ OnceOK(W) /\ QueuedOnce /\ WaitingOnce
        /\ Queued \cap (Going \cup Waiting) = {} /\ Going \cap Waiting = {}
  BY Places
<1>3. /\ scopeOf[o] # None
      /\ UNCHANGED <<scopeVars, cur, begun, role, outer, arrived, scopeOf, waiter>>
      /\ \/ UNCHANGED <<fired, runQ>>
         \/ o \notin fired /\ fired' = fired \cup {o} /\ Enqueue(Step(scopeOf[o], waiter[o], o))
  BY DEF Complete, strandVars
<1>4. TreeOK' /\ made' = made /\ parent' = parent
  BY <1>0, <1>3, TreeKept DEF LInv
<1>5. LinksOK'
  BY <1>0, <1>3, <1>4, LinksStay DEF LInv, LinksOK
<1>6. Going' = Going
  BY <1>3 DEF Going, Complete
<1>7. CASE UNCHANGED <<fired, runQ>>
  <2>1. Queued' = Queued /\ QueuedOnce' /\ StepsOK' /\ Waiting' = Waiting /\ WaitingOnce'
    BY <1>0, <1>2, <1>3, <1>4, <1>7, SameQueue, SameWaiting DEF LInv
  <2>2. PlacesOK'
    BY <1>0, <1>2, <1>3, <1>4, <1>6, <2>1, OnlyMoves
  <2> QED
    BY <1>1, <1>4, <1>5, <2>1, <2>2 DEF ContInv, LInv
<1>8. CASE o \notin fired /\ fired' = fired \cup {o} /\ Enqueue(Step(scopeOf[o], waiter[o], o))
  <2> DEFINE sc == scopeOf[o]  w == waiter[o]  s == Step(sc, w, o)
  <2>1. sc \in made /\ sc \in Scope /\ w \in begun /\ w \in Strand /\ w # None
    BY <1>0, <1>3, NoneAssumption DEF LInv, LinksOK, TreeOK, IInv, StrandOK
  <2>2. w \in Waiting
    BY <1>8, <2>1 DEF Waiting
  <2> HIDE DEF sc, w
  <2>3. s \in StepSet /\ s.strand = w /\ s.scope = sc /\ Enqueue(s)
    BY <1>8, <2>1 DEF StepSet, Step, sc, w
  <2> HIDE DEF s
  <2>4. Queued' = Queued \cup {w} /\ QueuedOnce' /\ StepsOK'
    BY <1>0, <1>2, <1>4, <2>1, <2>2, <2>3, EnqueueOne DEF LInv
  <2>5. Waiting' = Waiting \ {w} /\ WaitingOnce'
    BY <1>2, <1>3, <1>8, <2>1 DEF Waiting, WaitingOnce, w
  <2>6. PlacesOK'
    BY <1>0, <1>2, <1>3, <1>4, <1>6, <2>2, <2>4, <2>5, OnlyMoves
  <2> QED
    BY <1>1, <1>4, <1>5, <2>4, <2>6 DEF ContInv, LInv
<1> QED
  BY <1>3, <1>7, <1>8

LEMMA HandleScope ==
  ASSUME LInv, NEW sc \in Scope, CancelTask(sc)
  PROVE  sc # Root /\ sc \in made
  BY DEF CancelTask, LInv, LinksOK

LEMMA ContCancelTask ==
  ASSUME ContInv, NEW sc \in Scope, CancelTask(sc)
  PROVE  ContInv'
<1>0. LInv
  BY DEF ContInv
<1>1. IInv'
  BY <1>0, CancelTaskSafe DEF LInv
<1>2. PICK W \in SUBSET Strand :
        /\ OnceOK(W) /\ QueuedOnce /\ WaitingOnce
        /\ Queued \cap (Going \cup Waiting) = {} /\ Going \cap Waiting = {}
  BY Places
<1>3. /\ Cancel(Below(sc), sc)
      /\ UNCHANGED <<made, parent, runQ, cur, begun, role, outer, arrived, scopeOf, waiter>>
  BY DEF CancelTask, strandVars
<1>4. TreeOK'
  BY <1>0, <1>3, HandleScope, TreeCancelled DEF LInv
<1>5. LinksOK'
  BY <1>0, <1>3, <1>4, LinksStay DEF LInv, LinksOK
<1>6. fired \subseteq fired'
  BY <1>3 DEF Cancel
<1>7. Queued' = Queued /\ QueuedOnce' /\ StepsOK' /\ Going' = Going
  BY <1>0, <1>2, <1>3, SameQueue DEF LInv, Going, CancelTask
<1>8. Waiting' \subseteq Waiting /\ WaitingOnce'
  BY <1>2, <1>3, <1>6 DEF Waiting, WaitingOnce
<1>9. PlacesOK'
  BY <1>0, <1>2, <1>3, <1>7, <1>8, OnlyMoves
<1> QED
  BY <1>1, <1>4, <1>5, <1>7, <1>9 DEF ContInv, LInv

LEMMA ContClose ==
  ASSUME ContInv, Close
  PROVE  ContInv'
<1>0. LInv
  BY DEF ContInv
<1>1. IInv'
  BY <1>0, CloseSafe DEF LInv
<1>2. PICK W \in SUBSET Strand :
        /\ OnceOK(W) /\ QueuedOnce /\ WaitingOnce
        /\ Queued \cap (Going \cup Waiting) = {} /\ Going \cap Waiting = {}
  BY Places
<1>3. /\ 1..Len(runQ') = {}
      /\ UNCHANGED <<scopeVars, cur, begun, role, outer, arrived, scopeOf, waiter, fired>>
  BY DEF Close, strandVars, opVars
<1>4. TreeOK' /\ made' = made /\ parent' = parent
  BY <1>0, <1>3, TreeKept DEF LInv
<1>5. LinksOK'
  BY <1>0, <1>3, <1>4, LinksStay DEF LInv, LinksOK
<1>6. Queued' = {} /\ QueuedOnce' /\ StepsOK' /\ Going' = Going
  BY <1>3 DEF Queued, QueuedOnce, StepsOK, Going, Close, opVars
<1>7. Waiting' = Waiting /\ WaitingOnce'
  BY <1>2, <1>3, SameWaiting
<1>8. PlacesOK'
  BY <1>0, <1>2, <1>3, <1>4, <1>6, <1>7, OnlyMoves
<1> QED
  BY <1>1, <1>4, <1>5, <1>6, <1>8 DEF ContInv, LInv
-----------------------------------------------------------------------------
(* A join: the strand waits for both of its sides, which are queued.        *)
LEMMA ContBoth ==
  ASSUME ContInv, NEW t \in Strand, NEW u \in Strand, NEW v \in Strand, Both(t, u, v)
  PROVE  ContInv'
<1>0. LInv /\ t \in begun /\ Here \in made /\ Here \in Scope /\ t # None /\ Going = {t}
  BY RunningHere DEF ContInv, Both
<1>1. IInv'
  BY <1>0, BothSafe DEF LInv
<1>2. PICK W \in SUBSET Strand :
        /\ OnceOK(W) /\ QueuedOnce /\ WaitingOnce /\ RacingOnce
        /\ W \subseteq begun /\ Active(W) \subseteq begun
  BY Places
<1> DEFINE T == {u, v}  V == W \cup T  s == Step(Here, u, None)  r == Step(Here, v, None)
<1>3. /\ u # v /\ T \cap begun = {} /\ T \in SUBSET Strand /\ NewStrands(T, Here, "both", t)
      /\ arrived' = arrived \ {t} /\ cur' = None /\ runQ' = runQ \o <<s, r>>
      /\ UNCHANGED <<scopeVars, waiter, fired>>
  BY DEF Both, opVars
<1>4. TreeOK' /\ made' = made /\ parent' = parent
  BY <1>0, <1>3, TreeKept DEF LInv
<1>5. u \in T /\ v \in T /\ T \subseteq V /\ W \subseteq V /\ \A w \in V : w \in W \/ w \in T
  OBVIOUS
<1>6. /\ s \in StepSet /\ r \in StepSet /\ s.strand = u /\ r.strand = v /\ s.scope = Here /\ r.scope = Here
      /\ u # None /\ v # None
  BY <1>0, NoneAssumption DEF StepSet, Step
<1>7. T = {u, v} /\ V = W \cup {u, v}
  OBVIOUS
<1> HIDE DEF T, V, s, r
<1>8. /\ LinksOK' /\ begun' = begun \cup T
      /\ \A w \in begun : role'[w] = role[w] /\ outer'[w] = outer[w] /\ scopeOf'[w] = scopeOf[w]
      /\ \A w \in T : role'[w] = "both" /\ outer'[w] = t
  <2>1. "both" \in Roles /\ t \in begun \cup {None} /\ arrived' \subseteq arrived /\ waiter' = waiter
        /\ made \subseteq made' /\ Here \in made' /\ \A q \in made : parent'[q] = parent[q]
    BY <1>0, <1>3, <1>4 DEF Roles
  <2> QED
    BY <1>0, <1>3, <2>1, LinksStarted
<1>9. u \notin Queued /\ v \notin Queued /\ u \notin begun /\ v \notin begun
  BY <1>0, <1>3, <1>5, <1>6, QueueFacts DEF LInv
<1>10. Queued' = Queued \cup {u, v} /\ QueuedOnce' /\ StepsOK'
  BY <1>0, <1>2, <1>3, <1>4, <1>6, <1>9, EnqueueTwo DEF LInv
<1>11. Going' = {} /\ Waiting' = Waiting /\ WaitingOnce'
  BY <1>2, <1>3, SameWaiting DEF Going
<1>12. Racing' = Racing /\ RacingOnce'
  <2>1. arrived' \cap made = arrived \cap made
    BY <1>3, ScopeAssumption DEF LInv, TreeOK, ContInv
  <2>2. \A w \in T : role'[w] # "race"
    BY <1>8
  <2> QED
    BY <1>0, <1>2, <1>3, <1>4, <1>8, <2>1, <2>2, RacesKept
<1>13. /\ \A w \in Strand : (Half(W, w)' <=> Half(W, w)) /\ (Whole(W, w)' <=> Whole(W, w))
       /\ \A w \in Strand : Sides(W, w)' = Sides(W, w)
  BY <1>2, <1>8, SidesKept
<1>14. /\ t \notin Queued /\ t \notin Waiting /\ t \notin Racing /\ t \notin Joining(W)
       /\ Sides(W, t) = {}
  BY <1>0, <1>2 DEF OnceOK, Apart, Joining
<1>15. /\ Sides(V, t)' = {u, v}
       /\ \A w \in Strand : w # t => Sides(V, w)' = Sides(W, w)
  <2>1. \A w \in W : outer'[w] = outer[w] /\ outer[w] # t
    BY <1>2, <1>8, <1>14 DEF Sides
  <2>2. \A w \in T : outer'[w] = t
    BY <1>8
  <2> QED
    BY <1>5, <1>7, <2>1, <2>2 DEF Sides
<1>16. Joining(V)' = Joining(W) \cup {t}
  BY <1>15 DEF Joining
<1>17. Active(V)' = Active(W) \cup {u, v}
  BY <1>0, <1>10, <1>11, <1>12, <1>16 DEF Active
<1>18. Apart(V)'
  <2>1. u \notin Active(W) /\ v \notin Active(W) /\ u # t /\ v # t
    BY <1>0, <1>2, <1>9
  <2> QED
    BY <1>0, <1>2, <1>10, <1>11, <1>12, <1>14, <1>16, <2>1 DEF OnceOK, Apart, Active
<1>19. JoinsOK(V)'
  <2>1. V \subseteq begun' /\ \A w \in V : role'[w] = "both"
    BY <1>2, <1>5, <1>8 DEF OnceOK, JoinsOK
  <2>2. \A w \in Active(V)' : role'[w] = "both" => w \in V
    BY <1>2, <1>5, <1>8, <1>17 DEF OnceOK, JoinsOK
  <2>3. ASSUME NEW w \in Joining(V)' PROVE IF w \in arrived' THEN Half(V, w)' ELSE Whole(V, w)'
    <3>1. CASE w = t
      <4>1. w \notin arrived' /\ u \in V /\ v \in V
        BY <1>3, <1>5, <3>1
      <4> QED
        BY <1>3, <1>15, <3>1, <4>1 DEF Whole
    <3>2. CASE w # t
      <4>1. w \in Joining(W) /\ w \in Strand /\ (w \in arrived' <=> w \in arrived)
        BY <1>3, <1>16, <3>2 DEF Joining
      <4>2. IF w \in arrived THEN Half(W, w) ELSE Whole(W, w)
        BY <1>2, <4>1 DEF OnceOK, JoinsOK
      <4> QED
        BY <1>5, <1>15, <3>2, <4>1, <4>2 DEF Half, Whole
    <3> QED
      BY <3>1, <3>2
  <2> QED
    BY <2>1, <2>2, <2>3 DEF JoinsOK
<1>20. V \in SUBSET Strand
  BY <1>3, <1>7
<1>21. PlacesOK'
  BY <1>10, <1>11, <1>12, <1>18, <1>19, <1>20 DEF PlacesOK, OnceOK
<1> QED
  BY <1>1, <1>4, <1>8, <1>10, <1>21 DEF ContInv, LInv

(* A race: the strand waits for its scope to be won.                        *)
LEMMA ContRace ==
  ASSUME ContInv, NEW t \in Strand, NEW u \in Strand, NEW v \in Strand, NEW sc \in Scope, Race(t, u, v, sc)
  PROVE  ContInv'
<1>0. LInv /\ t \in begun /\ Here \in made /\ Here \in Scope /\ t # None /\ Going = {t} /\ TreeOK
  BY RunningHere DEF ContInv, Race, LInv
<1>1. IInv'
  BY <1>0, RaceSafe DEF LInv
<1>2. PICK W \in SUBSET Strand :
        /\ OnceOK(W) /\ QueuedOnce /\ WaitingOnce /\ RacingOnce
        /\ W \subseteq begun /\ Active(W) \subseteq begun
  BY Places
<1> DEFINE T == {u, v}  s == Step(sc, u, None)  r == Step(sc, v, None)
<1>3. /\ u # v /\ T \cap begun = {} /\ T \in SUBSET Strand /\ NewStrands(T, sc, "race", t)
      /\ sc \notin made /\ NewScope(sc, Here) /\ cur' = None /\ runQ' = runQ \o <<s, r>>
      /\ UNCHANGED <<cancelled, arrived, waiter, fired>>
  BY DEF Race, opVars
<1>4. TreeOK' /\ made' = made \cup {sc} /\ sc # Root /\ \A q \in made : parent'[q] = parent[q]
  BY <1>0, <1>3, TreeGrown
<1>5. u \in T /\ v \in T
  OBVIOUS
<1>6. /\ s \in StepSet /\ r \in StepSet /\ s.strand = u /\ r.strand = v /\ s.scope = sc /\ r.scope = sc
      /\ u # None /\ v # None
  BY <1>0, NoneAssumption DEF StepSet, Step
<1> HIDE DEF T, s, r
<1>7. /\ LinksOK' /\ begun' = begun \cup T
      /\ \A w \in begun : role'[w] = role[w] /\ outer'[w] = outer[w] /\ scopeOf'[w] = scopeOf[w]
      /\ \A w \in T : role'[w] = "race" /\ outer'[w] = t /\ scopeOf'[w] = sc
  <2>1. "race" \in Roles /\ t \in begun \cup {None} /\ arrived' \subseteq arrived /\ waiter' = waiter
        /\ made \subseteq made' /\ sc \in made'
    BY <1>0, <1>3, <1>4 DEF Roles
  <2> QED
    BY <1>0, <1>3, <1>4, <2>1, LinksStarted
<1>8. u \notin Queued /\ v \notin Queued /\ u \notin begun /\ v \notin begun
  BY <1>0, <1>3, <1>5, <1>6, QueueFacts DEF LInv
<1>9. Queued' = Queued \cup {u, v} /\ QueuedOnce' /\ StepsOK'
  <2>1. {s.scope, r.scope} \subseteq made' /\ made \subseteq made' /\ None \notin {s.strand, r.strand}
    BY <1>4, <1>6
  <2>2. s.strand # r.strand /\ {s.strand, r.strand} \cap Queued = {}
    BY <1>3, <1>6, <1>8
  <2>3. {s.strand, r.strand} = {u, v} /\ runQ' = runQ \o <<s, r>> /\ IInv /\ StepsOK
    BY <1>0, <1>3, <1>6 DEF LInv
  <2> QED
    BY <1>2, <1>6, <2>1, <2>2, <2>3, EnqueueTwo
<1>10. Going' = {} /\ Waiting' = Waiting /\ WaitingOnce'
  BY <1>2, <1>3, SameWaiting DEF Going
<1>11. /\ \A w \in Strand : (Half(W, w)' <=> Half(W, w)) /\ (Whole(W, w)' <=> Whole(W, w))
       /\ Joining(W)' = Joining(W)
  BY <1>2, <1>7, SidesKept
<1>12. t \notin Queued /\ t \notin Waiting /\ t \notin Racing /\ t \notin Joining(W) /\ RaceOf(t) = {}
  BY <1>0, <1>2 DEF OnceOK, Apart, Racing
<1>13. ASSUME NEW w \in Strand PROVE RaceOf(w)' = IF w = t THEN {sc} ELSE RaceOf(w)
  <2>1. \A x \in begun : scopeOf[x] \in made
    BY <1>0 DEF LInv, IInv, StrandOK, LinksOK
  <2>2. sc \notin arrived
    BY <1>0, <1>3, ScopeAssumption DEF LInv, LinksOK, IInv, StrandOK
  <2>3. \A q \in RaceOf(w)' : q \in RaceOf(w) \/ (q = sc /\ w = t)
    BY <1>3, <1>4, <1>7, <2>1 DEF RaceOf
  <2>4. RaceOf(w) \subseteq RaceOf(w)'
    BY <1>3, <1>4, <1>7 DEF RaceOf
  <2>5. w = t => sc \in RaceOf(w)'
    BY <1>3, <1>4, <1>5, <1>7, <2>2 DEF RaceOf
  <2> QED
    BY <1>12, <2>3, <2>4, <2>5
<1>14. Racing' = Racing \cup {t} /\ RacingOnce'
  BY <1>2, <1>13 DEF Racing, RacingOnce
<1>15. Active(W)' = Active(W) \cup {u, v}
  BY <1>0, <1>9, <1>10, <1>11, <1>14 DEF Active
<1>16. Apart(W)'
  <2>1. u \notin Active(W) /\ v \notin Active(W) /\ u # t /\ v # t
    BY <1>0, <1>2, <1>8
  <2> QED
    BY <1>0, <1>2, <1>9, <1>10, <1>11, <1>12, <1>14, <2>1 DEF OnceOK, Apart, Active
<1>17. JoinsOK(W)'
  <2>1. W \subseteq begun' /\ \A w \in W : role'[w] = "both"
    BY <1>2, <1>7 DEF OnceOK, JoinsOK
  <2>2. \A w \in Active(W)' : role'[w] = "both" => w \in W
    BY <1>2, <1>5, <1>7, <1>15 DEF OnceOK, JoinsOK
  <2>3. \A w \in Joining(W)' : IF w \in arrived' THEN Half(W, w)' ELSE Whole(W, w)'
    BY <1>2, <1>3, <1>11 DEF OnceOK, JoinsOK, Joining
  <2> QED
    BY <2>1, <2>2, <2>3 DEF JoinsOK
<1>18. PlacesOK'
  BY <1>9, <1>10, <1>14, <1>16, <1>17 DEF PlacesOK, OnceOK
<1> QED
  BY <1>1, <1>4, <1>7, <1>9, <1>18 DEF ContInv, LInv

(* The end of one side of a join: that side is done.                        *)
LEMMA ContEndBoth ==
  ASSUME ContInv, NEW t \in Strand, EndBoth(t)
  PROVE  ContInv'
<1>0. LInv /\ t \in begun /\ Here \in made /\ Here \in Scope /\ t # None /\ Going = {t} /\ role[t] = "both"
  BY RunningHere DEF ContInv, EndBoth, Ending
<1>1. IInv'
  BY <1>0, EndBothSafe DEF LInv
<1>2. PICK W \in SUBSET Strand :
        /\ OnceOK(W) /\ QueuedOnce /\ WaitingOnce /\ RacingOnce
        /\ W \subseteq begun /\ Active(W) \subseteq begun
  BY Places
<1>5. PICK p \in Strand : p = outer[t] /\ p \in begun /\ p # None
  BY <1>0 DEF LInv, LinksOK, IInv, StrandOK
<1> DEFINE V == W \ {t}  s == Step(Here, p, None)
<1>3. /\ cur' = None /\ UNCHANGED <<scopeVars, begun, role, outer, scopeOf, waiter, fired>>
      /\ \/ p \in arrived /\ Enqueue(s) /\ arrived' = arrived
         \/ p \notin arrived /\ arrived' = arrived \cup {p} /\ runQ' = runQ
  BY <1>5 DEF EndBoth, opVars
<1>4. TreeOK' /\ made' = made /\ parent' = parent
  BY <1>0, <1>3, TreeKept DEF LInv
<1>6. LinksOK'
  BY <1>0, <1>3, <1>4, <1>5, LinksStay DEF LInv, LinksOK
<1>7. Going' = {} /\ Waiting' = Waiting /\ WaitingOnce'
  BY <1>2, <1>3, SameWaiting DEF Going
<1>8. Racing' = Racing /\ RacingOnce'
  <2> DEFINE T == {}
  <2>1. T \in SUBSET Strand /\ T \cap begun = {} /\ begun' = begun \cup T /\ \A u \in T : role'[u] # "race"
    BY <1>3
  <2>2. arrived' \cap made = arrived \cap made
    BY <1>3, <1>5, ScopeAssumption DEF LInv, TreeOK, ContInv
  <2> HIDE DEF T
  <2> QED
    BY <1>0, <1>2, <1>3, <1>4, <2>1, <2>2, RacesKept
<1>9. t \in W /\ p \in Joining(W) /\ t \in Sides(W, p)
  BY <1>0, <1>2, <1>5 DEF OnceOK, JoinsOK, Active, Sides, Joining
<1>10. /\ \A w \in Strand : w # p => Sides(V, w)' = Sides(W, w)
       /\ Sides(V, p)' = Sides(W, p) \ {t}
  BY <1>3, <1>5 DEF Sides
<1>11. s \in StepSet /\ s.strand = p /\ s.scope = Here
  BY <1>0, <1>5 DEF StepSet, Step
<1>12. \A w \in Joining(W) : w # p => \A u \in Sides(W, w) : u \in V
  BY <1>5 DEF Sides
<1>13. V \in SUBSET Strand /\ V \subseteq begun /\ \A w \in V : role[w] = "both"
  BY <1>2 DEF OnceOK, JoinsOK
<1>14. p \notin Queued /\ p \notin Waiting /\ p \notin Racing /\ p # t /\ t \notin Queued /\ t \notin Waiting
       /\ t \notin Racing /\ t \notin Joining(W)
  BY <1>0, <1>2, <1>9 DEF OnceOK, Apart
<1> HIDE DEF V, s
<1>15. ASSUME NEW w \in Joining(W), w # p
       PROVE  IF w \in arrived' THEN Half(V, w)' ELSE Whole(V, w)'
  <2>1. w \in Strand /\ (w \in arrived' <=> w \in arrived)
    BY <1>3, <1>15 DEF Joining
  <2>2. IF w \in arrived THEN Half(W, w) ELSE Whole(W, w)
    BY <1>2 DEF OnceOK, JoinsOK
  <2> QED
    BY <1>10, <1>12, <1>15, <2>1, <2>2 DEF Half, Whole
<1>16. p \in arrived => Sides(V, p)' = {}
  <2>1. p \in arrived => Half(W, p)
    BY <1>2, <1>9 DEF OnceOK, JoinsOK
  <2> QED
    BY <1>9, <1>10, <2>1 DEF Half
<1>17. p \notin arrived => Half(V, p)'
  <2> SUFFICES ASSUME p \notin arrived PROVE Half(V, p)'
    OBVIOUS
  <2>1. Whole(W, p)
    BY <1>2, <1>9 DEF OnceOK, JoinsOK
  <2>2. PICK u \in W : u # t /\ Sides(W, p) = {t, u}
    BY <1>9, <2>1 DEF Whole
  <2> QED
    BY <1>10, <2>2 DEF Half, V
<1>18. CASE p \in arrived
  <2>1. Enqueue(s) /\ arrived' = arrived
    BY <1>3, <1>18
  <2>2. Queued' = Queued \cup {p} /\ QueuedOnce' /\ StepsOK'
    BY <1>0, <1>2, <1>4, <1>5, <1>11, <1>14, <2>1, EnqueueOne DEF LInv
  <2>3. Joining(V)' = Joining(W) \ {p}
    BY <1>10, <1>16, <1>18 DEF Joining
  <2>4. Apart(V)'
    BY <1>0, <1>2, <1>7, <1>8, <1>14, <2>2, <2>3 DEF OnceOK, Apart
  <2>5. Active(V)' \subseteq Active(W) \ {t}
    BY <1>0, <1>7, <1>8, <1>9, <1>14, <2>2, <2>3 DEF Active
  <2>6. JoinsOK(V)'
    <3>1. \A w \in Active(V)' : role'[w] = "both" => w \in V
      BY <1>2, <1>3, <2>5 DEF OnceOK, JoinsOK, V
    <3>2. \A w \in Joining(V)' : IF w \in arrived' THEN Half(V, w)' ELSE Whole(V, w)'
      BY <1>15, <2>3
    <3> QED
      BY <1>3, <1>13, <3>1, <3>2 DEF JoinsOK
  <2>7. PlacesOK'
    BY <1>7, <1>8, <1>13, <2>2, <2>4, <2>6 DEF PlacesOK, OnceOK
  <2> QED
    BY <1>1, <1>4, <1>6, <2>2, <2>7 DEF ContInv, LInv
<1>19. CASE p \notin arrived
  <2>1. runQ' = runQ /\ arrived' = arrived \cup {p}
    BY <1>3, <1>19
  <2>2. Queued' = Queued /\ QueuedOnce' /\ StepsOK'
    BY <1>0, <1>2, <1>4, <2>1, SameQueue DEF LInv
  <2>3. Joining(V)' = Joining(W)
    <3>1. Sides(V, p)' # {}
      BY <1>17, <1>19 DEF Half
    <3> QED
      BY <1>5, <1>9, <1>10, <3>1 DEF Joining
  <2>4. Apart(V)'
    BY <1>0, <1>2, <1>7, <1>8, <2>2, <2>3 DEF OnceOK, Apart
  <2>5. Active(V)' \subseteq Active(W) \ {t}
    BY <1>0, <1>7, <1>8, <1>14, <2>2, <2>3 DEF Active
  <2>6. JoinsOK(V)'
    <3>1. \A w \in Active(V)' : role'[w] = "both" => w \in V
      BY <1>2, <1>3, <2>5 DEF OnceOK, JoinsOK, V
    <3>2. \A w \in Joining(V)' : IF w \in arrived' THEN Half(V, w)' ELSE Whole(V, w)'
      BY <1>15, <1>17, <1>19, <2>1, <2>3
    <3> QED
      BY <1>3, <1>13, <3>1, <3>2 DEF JoinsOK
  <2>7. PlacesOK'
    BY <1>7, <1>8, <1>13, <2>2, <2>4, <2>6 DEF PlacesOK, OnceOK
  <2> QED
    BY <1>1, <1>4, <1>6, <2>2, <2>7 DEF ContInv, LInv
<1> QED
  BY <1>18, <1>19

(* The end of one side of a race: the first to end wins it for the strand.  *)
LEMMA ContEndRace ==
  ASSUME ContInv, NEW t \in Strand, EndRace(t)
  PROVE  ContInv'
<1>0. LInv /\ t \in begun /\ Here \in made /\ Here \in Scope /\ Here = scopeOf[t] /\ t # None /\ Going = {t}
      /\ role[t] = "race"
  BY RunningHere DEF ContInv, EndRace, Ending
<1>1. IInv'
  BY <1>0, EndRaceSafe DEF LInv
<1>2. PICK W \in SUBSET Strand :
        /\ OnceOK(W) /\ QueuedOnce /\ WaitingOnce /\ RacingOnce
        /\ W \subseteq begun /\ Active(W) \subseteq begun
        /\ Queued \cap (Going \cup Waiting) = {} /\ Going \cap Waiting = {}
  BY Places
<1>3. PICK p \in Strand : p = outer[t] /\ p \in begun /\ p # None
  BY <1>0 DEF LInv, LinksOK, IInv, StrandOK
<1>4. PICK sc \in made : sc = Here
  BY <1>0
<1>5. cur' = None /\ UNCHANGED <<made, parent, begun, role, outer, scopeOf, waiter>>
  BY DEF EndRace
<1>6. CASE sc \in arrived
  <2>1. TreeOK'
    BY <1>0, <1>4, <1>5, <1>6, TreeKept DEF EndRace, LInv, scopeVars
  <2>2. Going' \subseteq Going /\ UNCHANGED <<runQ, arrived, fired>>
    BY <1>4, <1>5, <1>6 DEF EndRace, Going
  <2> QED
    BY <1>0, <1>1, <1>5, <2>1, <2>2, ContQuiet DEF LInv, LinksOK, IInv, StrandOK
<1>7. CASE sc \notin arrived
  <2> DEFINE s == Step(parent[sc], p, None)
  <2>1. arrived' = arrived \cup {sc} /\ Cancel(Below(sc), sc) /\ Enqueue(s)
    BY <1>3, <1>4, <1>7 DEF EndRace
  <2>2. sc # Root /\ sc \in Scope /\ parent[sc] \in made /\ parent[sc] \in Scope
    BY <1>0, <1>4 DEF LInv, LinksOK, TreeOK
  <2>3. TreeOK'
    BY <1>0, <1>5, <2>1, <2>2, TreeCancelled DEF LInv
  <2>4. arrived' \subseteq made \cup begun
    BY <1>0, <2>1 DEF LInv, LinksOK
  <2>5. LinksOK'
    BY <1>0, <1>5, <2>4, LinksStay
  <2>6. s \in StepSet /\ s.strand = p /\ s.scope = parent[sc]
    BY <1>3, <2>2 DEF StepSet, Step
  <2> HIDE DEF s
  <2>7. sc \in RaceOf(p)
    BY <1>0, <1>3, <1>4, <1>7 DEF RaceOf
  <2>8. p \in Racing
    BY <2>7 DEF Racing
  <2>9. p \notin Queued /\ p \notin Waiting /\ p \notin Joining(W) /\ p \notin Going
    BY <1>2, <2>8 DEF OnceOK, Apart
  <2>10. Queued' = Queued \cup {p} /\ QueuedOnce' /\ StepsOK'
    <3>1. made \subseteq made' /\ s.scope \in made /\ s.strand # None /\ s.strand \notin Queued
      BY <1>3, <1>5, <2>2, <2>6, <2>9
    <3> QED
      BY <1>0, <1>2, <2>1, <2>6, <3>1, EnqueueOne DEF LInv
  <2>11. Going' = {} /\ Waiting' \subseteq Waiting /\ WaitingOnce'
    <3>1. fired \subseteq fired'
      BY <2>1 DEF Cancel
    <3> QED
      BY <1>2, <1>5, <3>1 DEF Going, Waiting, WaitingOnce
  <2>12. \A w \in Strand : RaceOf(w)' = RaceOf(w) \ {sc}
    BY <1>5, <2>1 DEF RaceOf
  <2>13. RacingOnce'
    BY <1>2, <2>12 DEF RacingOnce
  <2>14. Racing' = Racing \ {p}
    <3>1. \A w \in Strand : w # p => sc \notin RaceOf(w)
      BY <1>0, <1>3, <1>4 DEF RaceOf, LInv, LinksOK
    <3>2. RaceOf(p) \ {sc} = {}
      BY <1>2, <2>7 DEF RacingOnce
    <3> QED
      BY <2>12, <3>1, <3>2 DEF Racing
  <2>15. /\ \A w \in Strand : (Half(W, w)' <=> Half(W, w)) /\ (Whole(W, w)' <=> Whole(W, w))
         /\ Joining(W)' = Joining(W)
    BY <1>2, <1>5, SidesKept
  <2>16. Apart(W)'
    BY <1>2, <2>9, <2>10, <2>11, <2>14, <2>15 DEF OnceOK, Apart
  <2>17. Active(W)' \subseteq Active(W)
    BY <2>8, <2>10, <2>11, <2>14, <2>15 DEF Active
  <2>18. JoinsOK(W)'
    <3>1. \A w \in Joining(W) : w \in Strand /\ (w \in arrived' <=> w \in arrived)
      BY <2>1, <2>2, ScopeAssumption DEF Joining
    <3>2. \A w \in Joining(W)' : IF w \in arrived' THEN Half(W, w)' ELSE Whole(W, w)'
      BY <1>2, <2>15, <3>1 DEF OnceOK, JoinsOK
    <3>3. /\ W \subseteq begun' /\ \A w \in W : role'[w] = "both"
          /\ \A w \in Active(W)' : role'[w] = "both" => w \in W
      BY <1>2, <1>5, <2>17 DEF OnceOK, JoinsOK
    <3> QED
      BY <3>2, <3>3 DEF JoinsOK
  <2>19. PlacesOK'
    BY <2>10, <2>11, <2>13, <2>16, <2>18 DEF PlacesOK, OnceOK
  <2> QED
    BY <1>1, <2>3, <2>5, <2>10, <2>19 DEF ContInv, LInv
<1> QED
  BY <1>6, <1>7

LEMMA ContStep == ContInv /\ [Next]_vars => ContInv'
<1> SUFFICES ASSUME ContInv, [Next]_vars PROVE ContInv'
  OBVIOUS
<1>1. CASE UNCHANGED vars
  <2>1. TreeOK' /\ made' = made /\ parent' = parent
    BY <1>1, TreeKept DEF vars, ContInv, LInv
  <2>2. Going' = Going /\ UNCHANGED <<runQ, begun, role, outer, arrived, waiter, fired, scopeOf>>
    BY <1>1 DEF vars, strandVars, opVars, Going
  <2>3. IInv'
    BY <1>1, StepSafe DEF ContInv, LInv
  <2> QED
    BY <2>1, <2>2, <2>3, ContQuiet DEF ContInv, LInv, LinksOK, IInv, StrandOK
<1>2. ASSUME NEW t \in Strand, Interpret(t) PROVE ContInv'
  BY <1>2, ContPinned, ContEmpty, ContSpawn, ContBoth, ContRace, ContStart, ContRegister, ContFinally,
     ContEndFinally, ContEndAlone, ContEndBoth, ContEndRace DEF Interpret
<1>3. CASE Turn
  BY <1>2, <1>3, ContRunStep DEF Turn
<1>4. CASE Close
  BY <1>4, ContClose
<1>5. CASE \E t \in Strand : Submit(t) \/ \E sc \in Scope : SubmitHandle(t, sc)
  BY <1>5, ContSubmit, ContSubmitHandle
<1>6. CASE \E sc \in Scope : CancelTask(sc)
  BY <1>6, ContCancelTask
<1>7. CASE \E o \in Op : Complete(o)
  BY <1>7, ContComplete
<1> QED
  BY <1>1, <1>3, <1>4, <1>5, <1>6, <1>7 DEF Next

LEMMA ContAlways == Spec => []ContInv
<1> QED
  BY ContInit, ContStep, PTL DEF Spec

LEMMA NumberOfPlaces ==
  ASSUME ContInv, NEW t \in begun
  PROVE  Cardinality(StepsOf(t)) + Cardinality(WaitsFor(t)) + Cardinality(RacesOf(t))
           + (IF cur = t /\ starting = None THEN 1 ELSE 0) <= 1
<1>1. PICK W \in SUBSET Strand : OnceOK(W)
  BY DEF ContInv, PlacesOK
<1>2. t \in Strand /\ t # None
  BY NoneAssumption DEF ContInv, LInv, IInv, StrandOK
<1> DEFINE Q == StepsOf(t)  A == WaitsFor(t)  R == RacesOf(t)
<1>3. /\ \A i, j \in Q : i = j
      /\ \A o, p \in A : o = p
      /\ \A r, q \in R : r = q
  BY <1>1, <1>2 DEF OnceOK, StepsOf, QueuedOnce, WaitsFor, WaitingOnce, RacesOf, RacingOnce, RaceOf
<1>4. /\ Q # {} => t \in Queued
      /\ A # {} => t \in Waiting
      /\ R # {} => t \in Racing
      /\ t \in Going <=> (cur = t /\ starting = None)
  BY <1>2 DEF StepsOf, Queued, WaitsFor, Waiting, RacesOf, Racing, RaceOf, Going
<1> HIDE DEF Q, A, R
<1>5. /\ Cardinality(Q) = IF Q = {} THEN 0 ELSE 1
      /\ Cardinality(A) = IF A = {} THEN 0 ELSE 1
      /\ Cardinality(R) = IF R = {} THEN 0 ELSE 1
  BY <1>3, AtMostOne
<1>6. /\ Q # {} => A = {} /\ R = {} /\ t \notin Going
      /\ A # {} => R = {} /\ t \notin Going
      /\ R # {} => t \notin Going
  BY <1>1, <1>4 DEF OnceOK, Apart
<1>7. Cardinality(Q) + Cardinality(A) + Cardinality(R) + (IF cur = t /\ starting = None THEN 1 ELSE 0) <= 1
  BY <1>4, <1>5, <1>6
<1> QED
  BY <1>7 DEF Q, A, R

LEMMA Typed == ContInv => TypeOK
<1> SUFFICES ASSUME ContInv PROVE TypeOK
  OBVIOUS
<1>1. IInv /\ TreeOK /\ LinksOK /\ StepsOK
  BY DEF ContInv, LInv
<1>2. \A step \in Ready : step.scope \in made /\ step.strand \in begun
  BY <1>1 DEF StepsOK, Ready, IInv, StrandOK
<1>3. pending \in 0..Cardinality(Op)
  <2>1. Open \subseteq Op
    BY DEF Open
  <2>2. Cardinality(Open) \in Nat /\ Cardinality(Op) \in Nat /\ Cardinality(Open) <= Cardinality(Op)
    BY <2>1, FiniteAssumption, FS_Subset, FS_CardinalityType
  <2> QED
    BY <1>1, <2>2 DEF IInv, PendingOK
<1> QED
  BY <1>1, <1>2, <1>3 DEF TypeOK, TreeOK, LinksOK, IInv, StrandOK, ValueOK, CleanupOK, ReleaseOK

(* For any number of strands, scopes, operations and finalizers: a strand   *)
(* that goes on does so once (`fired`, `won`, `ra`/`rb` in Scheduler.idr).  *)
THEOREM GoesOnOnce == Spec => []OneContinuation
<1>1. ContInv => OneContinuation
  BY NumberOfPlaces, Typed DEF OneContinuation
<1> QED
  BY <1>1, ContAlways, PTL

(* For any tree of scopes: one that is given up takes all below it along,   *)
(* in the same step (cancelScope).                                          *)
THEOREM GivenUpWhole == Spec => CancelTakesAll
<1> DEFINE A == \A sc \in made : parent[sc] # None /\ cancelled'[parent[sc]] /\ ~cancelled[parent[sc]] => cancelled'[sc]
<1>1. ContInv /\ [Next]_vars => [A]_vars
  <2> SUFFICES ASSUME ContInv, Next PROVE A
    OBVIOUS
  <2>1. LInv /\ TreeOK
    BY DEF ContInv, LInv
  <2>2. ASSUME cancelled' = cancelled PROVE A
    BY <2>2
  <2>3. ASSUME NEW sc \in Scope, CancelTask(sc) PROVE A
    BY <2>1, <2>3, HandleScope, TreeCancelled DEF CancelTask
  <2>4. ASSUME NEW t \in Strand, EndRace(t) PROVE A
    <3>1. Here \in Scope /\ Here # Root
      BY <2>1, <2>4, RunningHere DEF EndRace, Ending, LInv, LinksOK
    <3>2. cancelled' = cancelled \/ (Cancel(Below(Here), Here) /\ UNCHANGED <<made, parent>>)
      BY <2>4 DEF EndRace
    <3> QED
      BY <2>1, <2>2, <3>1, <3>2, TreeCancelled
  <2>5. ASSUME NEW t \in Strand, Interpret(t) PROVE A
    <3>1. EndRace(t) \/ cancelled' = cancelled
      BY <2>5 DEF Interpret, Pinned, Empty, Spawn, Both, Race, Start, Register, Finally, EndFinally, EndAlone,
                  EndBoth, scopeVars
    <3> QED
      BY <2>2, <2>4, <3>1
  <2>6. (RunStep \/ Close \/ \E o \in Op : Complete(o)) => cancelled' = cancelled
    BY DEF RunStep, Close, Complete, scopeVars
  <2>7. (\E t \in Strand : Submit(t) \/ \E sc \in Scope : SubmitHandle(t, sc)) => cancelled' = cancelled
    BY DEF Submit, SubmitHandle, scopeVars
  <2> HIDE DEF A
  <2> QED
    BY <2>2, <2>3, <2>5, <2>6, <2>7 DEF Next, Turn
<1>2. ContInv /\ [Next]_vars => [\A sc \in made :
         /\ parent[sc] # None
         /\ cancelled'[parent[sc]] /\ ~cancelled[parent[sc]]
         => cancelled'[sc]]_vars
  BY <1>1
<1> QED
  BY <1>2, ContAlways, PTL DEF Spec, CancelTakesAll
=============================================================================
