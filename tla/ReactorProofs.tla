---------------------------- MODULE ReactorProofs ----------------------------
(***************************************************************************)
(* What the scheduler and its workers wait for, for any number of workers, *)
(* any tasks, and batches and chains of any length.                        *)
(***************************************************************************)
EXTENDS Reactor, FiniteSetTheorems, WellFoundedInduction, TLAPS

WorkerStates == {"none", "start", "check", "run", "post", "poke", "wait", "woken", "ended"}

(* Workers are started in the order of their numbers.                       *)
WorkersOK ==
  /\ limit \in 0..MaxWorkers /\ started \in 0..limit
  /\ wpc \in [Worker -> WorkerStates]
  /\ \A w \in Worker : w > started => wpc[w] = "none"
  /\ forking # None => forking \in Worker /\ forking <= started /\ wpc[forking] = "none"
QueueOK == \E S : queue \in Seq(S)

(* `idle` counts the workers that wait and those woken and not back yet.    *)
Idle     == {w \in Worker : wpc[w] \in {"wait", "woken"}}
IdlersOK == idlers = Cardinality(Idle)

(* What is posted is on its way to the scheduler at every point of the turn.*)
Poking   == {w \in Worker : wpc[w] = "poke"}
InboxOK  == inbox # <<>> => eventFd \/ pc = "take" \/ Poking # {}

PoolInv == WorkersOK /\ QueueOK /\ IdlersOK /\ JobsWakeWorkers
IInv    == PoolInv /\ InboxOK

pool == <<limit, wpc, forking, queue, idlers, started, stopping>>
-----------------------------------------------------------------------------
(* Sets of workers and their sizes.                                         *)

LEMMA WorkersFinite ==
  ASSUME NEW A \in SUBSET Worker
  PROVE  IsFiniteSet(A) /\ Cardinality(A) \in Nat
<1>1. IsFiniteSet(Worker)
  BY WorkersAssumption, FS_Interval DEF Worker
<1> QED
  BY <1>1, FS_Subset, FS_CardinalityType

LEMMA OneMore ==
  ASSUME NEW A \in SUBSET Worker, NEW w \in Worker \ A
  PROVE  Cardinality(A \cup {w}) = Cardinality(A) + 1
  BY WorkersFinite, FS_AddElement

LEMMA OneLess ==
  ASSUME NEW A \in SUBSET Worker, NEW w \in A
  PROVE  Cardinality(A \ {w}) = Cardinality(A) - 1
  BY WorkersFinite, FS_RemoveElement

LEMMA AtLeast ==
  ASSUME NEW A \in SUBSET Worker, NEW B \in SUBSET A
  PROVE  Cardinality(B) <= Cardinality(A)
  BY WorkersFinite, FS_Subset

LEMMA QueueLength ==
  ASSUME QueueOK
  PROVE  Len(queue) \in Nat /\ (queue = <<>> <=> Len(queue) = 0)
  BY DEF QueueOK

(* Nothing changes in the pool.                                             *)
LEMMA PoolSame ==
  ASSUME PoolInv, UNCHANGED pool
  PROVE  PoolInv'
  BY DEF PoolInv, pool, WorkersOK, QueueOK, IdlersOK, JobsWakeWorkers, Idle, Waiting, Awake, Free,
         Worker

-----------------------------------------------------------------------------
(* The scheduler hands a job to the pool.                                   *)
LEMMA OffloadPool ==
  ASSUME PoolInv, forking = None, NEW j, Offload(j), limit' = limit
  PROVE  PoolInv'
<1>1. CASE limit = 0
  BY <1>1, PoolSame DEF Offload, pool, poolVars
<1>2. CASE limit # 0
  <2>1. /\ queue' = Append(queue, j) /\ SignalOne
        /\ started' = IF Wanted(queue') THEN started + 1 ELSE started
        /\ forking' = IF Wanted(queue') THEN started + 1 ELSE None
        /\ idlers' = idlers /\ stopping' = stopping
    BY <1>2 DEF Offload
  <2>2. /\ limit \in 0..MaxWorkers /\ started \in 0..limit /\ MaxWorkers \in Nat
        /\ wpc \in [Worker -> WorkerStates]
    BY WorkersAssumption DEF PoolInv, WorkersOK
  <2>3. QueueOK' /\ Len(queue') = Len(queue) + 1 /\ Len(queue) \in Nat
    <3>1. PICK S : queue \in Seq(S)
      BY DEF PoolInv, QueueOK
    <3>2. queue \in Seq(S \cup {j}) /\ j \in S \cup {j}
      BY <3>1
    <3>3. Append(queue, j) \in Seq(S \cup {j}) /\ Len(Append(queue, j)) = Len(queue) + 1 /\ Len(queue) \in Nat
      BY <3>2
    <3> QED
      BY <2>1, <3>3 DEF QueueOK
  <2>4. Wanted(queue') => started + 1 \in Worker /\ started < limit /\ wpc[started + 1] = "none"
    BY <2>2 DEF Wanted, PoolInv, WorkersOK, Worker
  <2>5. ASSUME Waiting = {} PROVE wpc' = wpc
    BY <2>1, <2>5 DEF SignalOne
  <2>6. ASSUME Waiting # {}
        PROVE  \E w \in Waiting : wpc' = [wpc EXCEPT ![w] = "woken"]
    BY <2>1, <2>6 DEF SignalOne
  <2>7. /\ wpc' \in [Worker -> WorkerStates]
        /\ \A w \in Worker : wpc[w] = "none" => wpc'[w] = "none"
        /\ Idle' = Idle
    <3>1. CASE Waiting = {}
      BY <2>2, <2>5, <3>1 DEF Idle, Worker
    <3>2. CASE Waiting # {}
      <4>1. PICK w \in Waiting : wpc' = [wpc EXCEPT ![w] = "woken"]
        BY <2>6, <3>2
      <4>2. w \in Worker /\ wpc[w] = "wait" /\ "woken" \in WorkerStates
        BY DEF Waiting, WorkerStates
      <4> QED
        BY <2>2, <4>1, <4>2 DEF Idle, Worker
    <3> QED
      BY <3>1, <3>2
  <2>8. WorkersOK'
    <3>1. limit' \in 0..MaxWorkers /\ started' \in 0..limit'
      BY <2>1, <2>2, <2>4
    <3>2. \A w \in Worker : w > started' => wpc'[w] = "none"
      BY <2>1, <2>2, <2>4, <2>7 DEF PoolInv, WorkersOK, Worker
    <3>3. forking' # None => forking' \in Worker /\ forking' <= started' /\ wpc'[forking'] = "none"
      BY <2>1, <2>2, <2>4, <2>7
    <3> QED
      BY <2>7, <3>1, <3>2, <3>3 DEF WorkersOK, Worker
  <2>9. IdlersOK'
    BY <2>1, <2>7 DEF PoolInv, IdlersOK
  <2>10. /\ Awake \subseteq Worker /\ Waiting \subseteq Worker /\ Free \subseteq Worker
         /\ Awake' \subseteq Worker /\ Free' \subseteq Worker
         /\ Idle \subseteq Free /\ Idle' \subseteq Free'
    BY DEF Awake, Waiting, Free, Idle, Worker
  <2>11. Awake \subseteq Awake'
    <3>1. CASE Waiting = {}
      BY <2>2, <2>5, <3>1, WorkersAssumption DEF Awake, Worker
    <3>2. CASE Waiting # {}
      <4>1. PICK w \in Waiting : wpc' = [wpc EXCEPT ![w] = "woken"]
        BY <2>6, <3>2
      <4> QED
        BY <2>2, <4>1, WorkersAssumption DEF Awake, Worker, Waiting
    <3> QED
      BY <3>1, <3>2
  <2>12. ASSUME ~stopping', Waiting' # {}
         PROVE  Len(queue') <= Cardinality(Awake')
    <3>1. Waiting # {}
      BY <2>5, <2>12 DEF Waiting, Worker
    <3>2. PICK w \in Waiting : wpc' = [wpc EXCEPT ![w] = "woken"]
      BY <2>6, <3>1
    <3>3. w \in Worker \ Awake /\ w \in Awake'
      BY <2>2, <3>2, WorkersAssumption DEF Waiting, Awake, Worker
    <3>4. Awake \cup {w} \subseteq Awake'
      BY <2>11, <3>3
    <3>5. Cardinality(Awake) + 1 <= Cardinality(Awake')
      <4>1. Cardinality(Awake \cup {w}) = Cardinality(Awake) + 1
        BY <2>10, <3>3, OneMore
      <4>2. Cardinality(Awake \cup {w}) <= Cardinality(Awake')
        BY <2>10, <3>4, AtLeast
      <4> QED
        BY <4>1, <4>2
    <3>6. Len(queue) <= Cardinality(Awake)
      BY <2>1, <2>12, <3>1 DEF PoolInv, JobsWakeWorkers
    <3>7. Cardinality(Awake) \in Nat /\ Cardinality(Awake') \in Nat
      BY <2>10, WorkersFinite
    <3> QED
      BY <2>3, <3>5, <3>6, <3>7
  <2>13. ASSUME ~stopping', started' < limit'
         PROVE  Len(queue') <= Cardinality(Free')
    <3>1. Cardinality(Free) \in Nat /\ Cardinality(Free') \in Nat
      BY <2>10, WorkersFinite
    <3>2. CASE Wanted(queue')
      <4>1. started + 1 \in Worker \ Free /\ started + 1 \in Free'
        BY <2>1, <2>2, <2>4, <3>2, WorkersAssumption DEF Free, Awake, Waiting, Worker
      <4>2. Free \subseteq Free'
        BY <2>7, <2>11 DEF Free, Idle, Waiting, Awake
      <4>3. Cardinality(Free) + 1 <= Cardinality(Free')
        <5>1. Cardinality(Free \cup {started + 1}) = Cardinality(Free) + 1
          BY <2>10, <4>1, OneMore
        <5>2. Free \cup {started + 1} \subseteq Free'
          BY <4>1, <4>2
        <5> QED
          BY <2>10, <5>1, <5>2, AtLeast
      <4>4. Len(queue) <= Cardinality(Free)
        BY <2>1, <2>2, <2>4, <2>13, <3>2 DEF PoolInv, JobsWakeWorkers
      <4> QED
        BY <2>3, <3>1, <4>3, <4>4
    <3>3. CASE ~Wanted(queue')
      <4>1. ~(Len(queue') > idlers)
        BY <2>1, <2>13, <3>3 DEF Wanted
      <4>2. idlers = Cardinality(Idle) /\ Cardinality(Idle) <= Cardinality(Free') /\ Cardinality(Idle) \in Nat
        BY <2>7, <2>10, AtLeast, WorkersFinite DEF PoolInv, IdlersOK
      <4> QED
        BY <2>3, <3>1, <4>1, <4>2
    <3> QED
      BY <3>2, <3>3
  <2> QED
    BY <2>3, <2>8, <2>9, <2>12, <2>13 DEF PoolInv, JobsWakeWorkers
<1> QED
  BY <1>1, <1>2

(* A thread that could run starts.                                          *)
LEMMA ForkPool ==
  ASSUME PoolInv, Fork
  PROVE  PoolInv'
<1>1. /\ forking \in Worker /\ forking <= started /\ wpc[forking] = "none" /\ forking # None
      /\ wpc \in [Worker -> WorkerStates] /\ limit \in 0..MaxWorkers /\ started \in 0..limit
  BY DEF PoolInv, WorkersOK, Fork
<1>2. /\ wpc' = [wpc EXCEPT ![forking] = "start"] /\ forking' = None
      /\ UNCHANGED <<limit, queue, idlers, started, stopping>>
  BY DEF Fork, poolVars, config
<1>3. wpc' \in [Worker -> WorkerStates] /\ wpc'[forking] = "start"
      /\ \A w \in Worker \ {forking} : wpc'[w] = wpc[w]
  BY <1>1, <1>2 DEF WorkerStates
<1>4. WorkersOK'
  <2>1. \A w \in Worker : w > started => wpc'[w] = "none"
    BY <1>1, <1>3, WorkersAssumption DEF PoolInv, WorkersOK, Worker
  <2> QED
    BY <1>1, <1>2, <1>3, <2>1 DEF WorkersOK, Worker
<1>5. Idle' = Idle /\ Waiting' = Waiting
  BY <1>1, <1>3 DEF Idle, Waiting, Worker
<1>6. Awake' = Awake
  BY <1>1, <1>2, <1>3, WorkersAssumption DEF Awake, Worker
<1> QED
  BY <1>2, <1>4, <1>5, <1>6 DEF PoolInv, IdlersOK, QueueOK, JobsWakeWorkers, Free

(* A worker moves on without touching what the pool keeps: it may become    *)
(* awake, and if it was idle it still counts as that.                       *)
LEMMA WorkerMoves ==
  ASSUME PoolInv, NEW w \in Worker, NEW v \in WorkerStates,
         wpc' = [wpc EXCEPT ![w] = v], wpc[w] # "none", v # "wait",
         v \in {"start", "woken"} \/ wpc[w] \notin {"start", "woken", "wait"},
         v = "woken" <=> wpc[w] \in {"wait", "woken"},
         UNCHANGED <<limit, forking, queue, idlers, started, stopping>>
  PROVE  PoolInv'
<1>1. /\ wpc \in [Worker -> WorkerStates] /\ limit \in 0..MaxWorkers /\ started \in 0..limit
      /\ forking # w
  BY WorkersAssumption DEF PoolInv, WorkersOK, Worker
<1>2. wpc' \in [Worker -> WorkerStates] /\ wpc'[w] = v /\ \A u \in Worker \ {w} : wpc'[u] = wpc[u]
  BY <1>1
<1>3. WorkersOK'
  <2>1. \A u \in Worker : u > started => wpc'[u] = "none"
    BY <1>1, <1>2 DEF PoolInv, WorkersOK
  <2>2. forking # None => forking \in Worker /\ forking <= started /\ wpc'[forking] = "none"
    BY <1>1, <1>2 DEF PoolInv, WorkersOK
  <2> QED
    BY <1>1, <1>2, <2>1, <2>2 DEF WorkersOK, Worker
<1>4. Idle' = Idle
  BY <1>2 DEF Idle, Worker
<1>5. /\ Awake \subseteq Awake' /\ Waiting' \subseteq Waiting /\ Free \subseteq Free'
      /\ Awake' \subseteq Worker /\ Free' \subseteq Worker
  BY <1>1, <1>2 DEF Awake, Waiting, Free, Worker
<1>6. Cardinality(Awake) <= Cardinality(Awake') /\ Cardinality(Free) <= Cardinality(Free')
  BY <1>5, AtLeast
<1>7. /\ Cardinality(Awake) \in Nat /\ Cardinality(Awake') \in Nat
      /\ Cardinality(Free) \in Nat /\ Cardinality(Free') \in Nat
  BY <1>5, WorkersFinite
<1>8. Len(queue) \in Nat
  BY QueueLength DEF PoolInv
<1>9. JobsWakeWorkers'
  BY <1>5, <1>6, <1>7, <1>8 DEF PoolInv, JobsWakeWorkers
<1> QED
  BY <1>3, <1>4, <1>9 DEF PoolInv, IdlersOK, QueueOK

(* A worker looks for a job.                                                *)
LEMMA TakeJobPool ==
  ASSUME PoolInv, NEW w \in Worker, TakeJob(w)
  PROVE  PoolInv'
<1> DEFINE others == IF wpc[w] = "woken" THEN idlers - 1 ELSE idlers
<1>1. /\ wpc \in [Worker -> WorkerStates] /\ limit \in 0..MaxWorkers /\ started \in 0..limit
      /\ wpc[w] \in {"start", "woken"} /\ forking # w
      /\ UNCHANGED <<limit, forking, started, stopping>>
  BY WorkersAssumption DEF PoolInv, WorkersOK, Worker, TakeJob, config
<1>2. others = Cardinality(Idle \ {w}) /\ Cardinality(Idle \ {w}) \in Nat
  <2>1. idlers = Cardinality(Idle) /\ Idle \subseteq Worker
    BY DEF PoolInv, IdlersOK, Idle
  <2>2. Cardinality(Idle \ {w}) \in Nat
    BY <2>1, WorkersFinite
  <2>3. CASE wpc[w] = "woken"
    <3>1. w \in Idle
      BY <2>3 DEF Idle
    <3>2. Cardinality(Idle \ {w}) = Cardinality(Idle) - 1
      BY <2>1, <3>1, OneLess
    <3> QED
      BY <2>1, <2>2, <2>3, <3>2
  <2>4. CASE wpc[w] # "woken"
    <3>1. Idle \ {w} = Idle
      BY <1>1, <2>4 DEF Idle
    <3>2. Cardinality(Idle \ {w}) = Cardinality(Idle)
      BY <3>1, Zenon
    <3> QED
      BY <2>1, <2>2, <2>4, <3>2
  <2> QED
    BY <2>2, <2>3, <2>4
<1>3. ASSUME NEW v \in WorkerStates, wpc' = [wpc EXCEPT ![w] = v]
      PROVE  /\ WorkersOK' /\ wpc'[w] = v
             /\ \A u \in Worker \ {w} : wpc'[u] = wpc[u]
  <2>1. wpc' \in [Worker -> WorkerStates] /\ wpc'[w] = v /\ \A u \in Worker \ {w} : wpc'[u] = wpc[u]
    BY <1>1, <1>3
  <2>2. \A u \in Worker : u > started => wpc'[u] = "none"
    BY <1>1, <2>1 DEF PoolInv, WorkersOK
  <2>3. forking # None => forking \in Worker /\ forking <= started /\ wpc'[forking] = "none"
    BY <1>1, <2>1 DEF PoolInv, WorkersOK
  <2> QED
    BY <1>1, <2>1, <2>2, <2>3 DEF WorkersOK, Worker
<1>4. CASE stopping /\ idlers' = others /\ wpc' = [wpc EXCEPT ![w] = "ended"] /\ queue' = queue
  <2>1. /\ WorkersOK' /\ wpc'[w] = "ended" /\ \A u \in Worker \ {w} : wpc'[u] = wpc[u]
    BY <1>3, <1>4 DEF WorkerStates
  <2>2. Idle' = Idle \ {w}
    BY <2>1 DEF Idle, Worker
  <2>3. IdlersOK'
    BY <1>2, <1>4, <2>2 DEF IdlersOK
  <2>4. JobsWakeWorkers' /\ QueueOK'
    BY <1>1, <1>4 DEF JobsWakeWorkers, PoolInv, QueueOK
  <2> QED
    BY <2>1, <2>3, <2>4 DEF PoolInv
<1>5. CASE /\ ~stopping /\ queue # <<>> /\ idlers' = others /\ queue' = Tail(queue)
           /\ wpc' = [wpc EXCEPT ![w] = "check"]
  <2>1. /\ WorkersOK' /\ wpc'[w] = "check" /\ \A u \in Worker \ {w} : wpc'[u] = wpc[u]
    BY <1>3, <1>5 DEF WorkerStates
  <2>2. Idle' = Idle \ {w}
    BY <2>1 DEF Idle, Worker
  <2>3. IdlersOK'
    BY <1>2, <1>5, <2>2 DEF IdlersOK
  <2>4. QueueOK' /\ Len(queue') = Len(queue) - 1 /\ Len(queue) \in Nat
    <3>1. PICK S : queue \in Seq(S)
      BY DEF PoolInv, QueueOK
    <3>2. Tail(queue) \in Seq(S) /\ Len(Tail(queue)) = Len(queue) - 1 /\ Len(queue) \in Nat
      BY <1>5, <3>1
    <3> QED
      BY <1>5, <3>2 DEF QueueOK
  <2>5. Awake' = Awake \ {w} /\ Waiting' = Waiting /\ w \in Awake /\ w \notin Waiting
    BY <1>1, <2>1 DEF Awake, Waiting, Worker
  <2>6. Awake \subseteq Worker /\ Free \subseteq Worker /\ Free' = Free \ {w} /\ w \in Free
    BY <2>5 DEF Awake, Waiting, Free
  <2>7. Cardinality(Awake') = Cardinality(Awake) - 1 /\ Cardinality(Free') = Cardinality(Free) - 1
    BY <2>5, <2>6, OneLess
  <2>8. Cardinality(Awake) \in Nat /\ Cardinality(Free) \in Nat
    BY <2>6, WorkersFinite
  <2>9. JobsWakeWorkers'
    BY <1>1, <2>4, <2>5, <2>7, <2>8 DEF PoolInv, JobsWakeWorkers
  <2> QED
    BY <2>1, <2>3, <2>4, <2>9 DEF PoolInv
<1>6. CASE /\ ~stopping /\ queue = <<>> /\ idlers' = others + 1 /\ queue' = queue
           /\ wpc' = [wpc EXCEPT ![w] = "wait"]
  <2>1. /\ WorkersOK' /\ wpc'[w] = "wait" /\ \A u \in Worker \ {w} : wpc'[u] = wpc[u]
    BY <1>3, <1>6 DEF WorkerStates
  <2>2. Idle' = (Idle \ {w}) \cup {w} /\ Idle \ {w} \subseteq Worker
    BY <2>1 DEF Idle, Worker
  <2>3. IdlersOK'
    <3>1. Cardinality((Idle \ {w}) \cup {w}) = Cardinality(Idle \ {w}) + 1
      BY <2>2, OneMore
    <3> QED
      BY <1>2, <1>6, <2>2, <3>1 DEF IdlersOK
  <2>4. Awake' \subseteq Worker /\ Free' \subseteq Worker
    BY DEF Awake, Free, Waiting, Worker
  <2>5. Cardinality(Awake') \in Nat /\ Cardinality(Free') \in Nat
    BY <2>4, WorkersFinite
  <2>6. JobsWakeWorkers' /\ QueueOK'
    BY <1>6, <2>5, QueueLength DEF JobsWakeWorkers, PoolInv, QueueOK
  <2> QED
    BY <2>1, <2>3, <2>6 DEF PoolInv
<1> QED
  BY <1>4, <1>5, <1>6 DEF TakeJob

(* closePool wakes everyone.                                                *)
LEMMA StopPool ==
  ASSUME PoolInv, StopWorkers
  PROVE  PoolInv'
<1>1. /\ wpc \in [Worker -> WorkerStates]
      /\ wpc' = [w \in Worker |-> IF w \in Waiting THEN "woken" ELSE wpc[w]]
      /\ stopping' = TRUE /\ UNCHANGED <<limit, forking, queue, idlers, started>>
  BY DEF PoolInv, WorkersOK, StopWorkers, config
<1>2. wpc' \in [Worker -> WorkerStates] /\ \A w \in Worker : wpc[w] = "none" => wpc'[w] = "none"
  BY <1>1 DEF WorkerStates, Waiting
<1>3. WorkersOK'
  BY <1>1, <1>2 DEF PoolInv, WorkersOK, Worker
<1>4. Idle' = Idle
  BY <1>1 DEF Idle, Waiting, Worker
<1> QED
  BY <1>1, <1>3, <1>4 DEF PoolInv, IdlersOK, QueueOK, JobsWakeWorkers

-----------------------------------------------------------------------------
LEMMA InitIInv == Init => IInv
<1> SUFFICES ASSUME Init PROVE IInv
  OBVIOUS
<1>1. /\ limit \in 0..MaxWorkers /\ started = 0 /\ idlers = 0 /\ queue = <<>> /\ inbox = <<>>
      /\ forking = None /\ wpc = [w \in Worker |-> "none"]
  BY DEF Init
<1>2. WorkersOK
  BY <1>1, WorkersAssumption DEF WorkersOK, WorkerStates, Worker
<1>3. QueueOK
  BY <1>1 DEF QueueOK
<1>4. IdlersOK
  <2>1. Idle = {}
    BY <1>1 DEF Idle
  <2> QED
    BY <1>1, <2>1, FS_EmptySet DEF IdlersOK
<1>5. Cardinality(Awake) \in Nat /\ Cardinality(Free) \in Nat
  <2>1. Awake \subseteq Worker /\ Free \subseteq Worker
    BY DEF Awake, Free, Waiting
  <2> QED
    BY <2>1, WorkersFinite
<1>6. JobsWakeWorkers
  BY <1>1, <1>5 DEF JobsWakeWorkers
<1> QED
  BY <1>1, <1>2, <1>3, <1>4, <1>6 DEF IInv, PoolInv, InboxOK

(* What a step of a task does to the pool and the inbox.                    *)
LEMMA RunStepShares ==
  ASSUME RunStep
  PROVE  /\ pc = "batch" /\ pc' = "batch" /\ forking = None /\ limit' = limit
         /\ \/ UNCHANGED <<poolVars, wpc, forking, inboxVars>>
            \/ \E j : Offload(j)
<1>1. pc = "batch" /\ pc' = "batch" /\ forking = None /\ limit' = limit
  BY DEF RunStep, config
<1>2. CASE Continue(Head(runQ), Tail(runQ))
  <2> DEFINE old   == task[Head(runQ)]
             more  == old.left > 0
             stage == IF more THEN old.stage ELSE old.stage + 1
             what  == program[Head(runQ)][stage]
             op    == <<Head(runQ), fresh + 1>>
             j     == [task |-> Head(runQ), op |-> op, stage |-> stage,
                       left |-> IF more THEN old.left ELSE what.n, fuel |-> ChainLength]
  <2>1. UNCHANGED <<poolVars, wpc, forking, inboxVars>> \/ Offload(j)
    BY <1>2, Zenon DEF Continue
  <2> HIDE DEF j
  <2> QED
    BY <1>1, <2>1
<1> QED
  BY <1>1, <1>2 DEF RunStep

LEMMA NextIInv == IInv /\ [Next]_vars => IInv'
<1> SUFFICES ASSUME IInv, [Next]_vars PROVE IInv'
  OBVIOUS
<1> USE DEF IInv
<1>1. CASE RunStep
  <2>1. /\ pc = "batch" /\ pc' = "batch" /\ forking = None /\ limit' = limit
    BY <1>1, RunStepShares
  <2>2. CASE UNCHANGED <<poolVars, wpc, forking, inboxVars>>
    BY <2>1, <2>2, PoolSame DEF pool, poolVars, inboxVars, InboxOK, Poking
  <2>3. ASSUME NEW j, Offload(j) PROVE IInv'
    <3>1. PoolInv'
      BY <2>1, <2>3, OffloadPool
    <3>2. Poking \subseteq Poking'
      <4>1. wpc' = wpc \/ \E w \in Waiting : wpc' = [wpc EXCEPT ![w] = "woken"]
        BY <2>3 DEF Offload, SignalOne
      <4>2. wpc \in [Worker -> WorkerStates]
        BY DEF PoolInv, WorkersOK
      <4> QED
        BY <4>1, <4>2 DEF Poking, Waiting, Worker
    <3>3. InboxOK'
      BY <2>1, <2>3, <3>2 DEF Offload, inboxVars, InboxOK
    <3> QED
      BY <3>1, <3>3
  <2> QED
    BY <1>1, <2>2, <2>3, RunStepShares
<1>2. CASE Fork
  <2>1. PoolInv'
    BY <1>2, ForkPool
  <2>2. Poking \subseteq Poking'
    BY <1>2 DEF Fork, Poking, PoolInv, WorkersOK, Worker
  <2>3. InboxOK'
    BY <1>2, <2>2 DEF Fork, InboxOK, inboxVars
  <2> QED
    BY <2>1, <2>3
<1>3. CASE EndBatch \/ EpollWait \/ Interrupt
  BY <1>3, PoolSame DEF EndBatch, EpollWait, Interrupt, NextTurn, pool, config, poolVars, workVars,
       inboxVars, turnVars, InboxOK, Poking, Worker
<1>4. CASE FireTimers \/ ArmTimerFd \/ DrainTimer \/ Drained \/ CloseScheduler \/ JoinWorkers \/ Tick
  BY <1>4, PoolSame DEF FireTimers, ArmTimerFd, DrainTimer, Drained, CloseScheduler, JoinWorkers, Tick,
       pool, config, poolVars, workVars, inboxVars, InboxOK, Poking, Worker
<1>5. CASE DrainInbox \/ RunActs
  BY <1>5, PoolSame DEF DrainInbox, RunActs, pool, inboxVars, config, poolVars, workVars, InboxOK, Poking, Worker
<1>6. CASE StopWorkers
  <2>1. PoolInv'
    BY <1>6, StopPool
  <2>2. Poking \subseteq Poking'
    BY <1>6 DEF StopWorkers, Poking, Waiting, Worker
  <2>3. InboxOK'
    BY <1>6, <2>2 DEF StopWorkers, InboxOK, inboxVars
  <2> QED
    BY <2>1, <2>3
<1>7. ASSUME NEW w \in Worker, WorkerStep(w) \/ Spurious(w) PROVE IInv'
  <2>0. wpc \in [Worker -> WorkerStates]
    BY DEF PoolInv, WorkersOK
  <2>1. CASE TakeJob(w)
    <3>1. Poking \subseteq Poking' /\ UNCHANGED <<pc, inbox, eventFd>>
      BY <2>0, <2>1 DEF TakeJob, Poking, Worker, inboxVars
    <3> QED
      BY <2>1, <3>1, TakeJobPool DEF InboxOK
  <2>2. CASE Spurious(w)
    <3>1. Poking \subseteq Poking' /\ UNCHANGED <<pc, inbox, eventFd>>
      BY <2>0, <2>2 DEF Spurious, Poking, Worker, inboxVars
    <3>2. PoolInv'
      BY <2>2, WorkerMoves DEF Spurious, WorkerStates, poolVars, config
    <3> QED
      BY <3>1, <3>2 DEF InboxOK
  <2>3. CASE CheckJob(w)
    <3>1. Poking \subseteq Poking' /\ UNCHANGED <<pc, inbox, eventFd>>
      BY <2>0, <2>3 DEF CheckJob, Poking, Worker, inboxVars
    <3>2. PoolInv'
      BY <2>3, WorkerMoves DEF CheckJob, WorkerStates, poolVars, config
    <3> QED
      BY <3>1, <3>2 DEF InboxOK
  <2>4. CASE RunPoint(w)
    <3>1. Poking \subseteq Poking' /\ UNCHANGED <<pc, inbox, eventFd>>
      BY <2>0, <2>4 DEF RunPoint, Poking, Worker, inboxVars
    <3>2. PoolInv'
      BY <2>4, WorkerMoves DEF RunPoint, WorkerStates, poolVars, config
    <3> QED
      BY <3>1, <3>2 DEF InboxOK
  <2>5. CASE PostTo(w)
    <3>1. InboxOK'
      BY <2>0, <2>5 DEF PostTo, InboxOK, Poking, Worker
    <3>2. PoolInv'
      BY <2>5, WorkerMoves DEF PostTo, WorkerStates, poolVars, config
    <3> QED
      BY <3>1, <3>2
  <2> QED
    BY <1>7, <2>1, <2>2, <2>3, <2>4, <2>5 DEF WorkerStep
<1>8. CASE UNCHANGED vars
  BY <1>8, PoolSame DEF vars, pool, config, poolVars, workVars, inboxVars, InboxOK, Poking, Worker
<1> QED
  BY <1>1, <1>2, <1>3, <1>4, <1>5, <1>6, <1>7, <1>8 DEF Next, Turn

LEMMA IInvAlways == Spec => []IInv
BY InitIInv, NextIInv, PTL DEF Spec

(* While the scheduler waits for its descriptors, a result in its inbox has *)
(* made the event descriptor readable, or a worker is about to (postTo,     *)
(* drainInbox): no wake-up is lost, whatever the order of the two sides.    *)
THEOREM NoWakeUpLost == Spec => []InboxWakes
<1>1. IInv => InboxWakes
  BY DEF IInv, InboxOK, InboxWakes, Sleeps, Poking
<1> QED
  BY <1>1, IInvAlways, PTL

(* While the pool is open, a job in its queue never waits beside a worker   *)
(* that sleeps with nobody woken for the job, nor while one more worker     *)
(* could have been started for it (offload, takeJob).                       *)
THEOREM NoJobOverlooked == Spec => []JobsWakeWorkers
<1>1. IInv => JobsWakeWorkers
  BY DEF IInv, PoolInv
<1> QED
  BY <1>1, IInvAlways, PTL

-----------------------------------------------------------------------------
(* Timers.                                                                  *)

TimerSet == [at : Nat, task : Nat, op : Nat \X Nat]

(* What the timer descriptor is armed for is when it goes off, or sooner;   *)
(* when the scheduler is about to wait that is the earliest deadline.       *)
ClockOK ==
  /\ now \in Nat /\ armed \in Nat \cup {None} /\ timerFd \in Nat \cup {None}
  /\ timers \subseteq TimerSet
  /\ armed # None => timerFd # None /\ (timerFd <= armed \/ timerFd <= now + 1)
  /\ pc = "look" /\ timers # {} => armed = LeftMost(timers).at

LEMMA LeastOf ==
  ASSUME NEW S \in SUBSET Nat, S # {}
  PROVE  \E m \in S : \A n \in S : m <= n
<1>1. \E m \in S : \A n \in S : ~(<<n, m>> \in OpToRel(<, Nat))
  BY NatLessThanWellFounded, WFMin
<1>2. \E m \in S : \A n \in S : ~(n < m)
  BY <1>1 DEF OpToRel
<1> QED
  BY <1>2

LEMMA LeftMostIsFirst ==
  ASSUME NEW ts \in SUBSET TimerSet, ts # {}
  PROVE  LeftMost(ts) \in ts /\ \A y \in ts : Before(LeftMost(ts), y)
<1>1. PICK x0 \in ts : TRUE
  OBVIOUS
<1>2. PICK d \in {x.at : x \in ts} : \A n \in {x.at : x \in ts} : d <= n
  <2>1. {x.at : x \in ts} \subseteq Nat /\ {x.at : x \in ts} # {}
    BY <1>1 DEF TimerSet
  <2> QED
    BY <2>1, LeastOf
<1> DEFINE first == {x \in ts : x.at = d}
<1>3. PICK k \in {x.op[2] : x \in first} : \A n \in {x.op[2] : x \in first} : k <= n
  <2>1. {x.op[2] : x \in first} \subseteq Nat /\ {x.op[2] : x \in first} # {}
    BY <1>2 DEF TimerSet
  <2> QED
    BY <2>1, LeastOf
<1>4. PICK x \in first : x.op[2] = k
  BY <1>3
<1>5. \A y \in ts : Before(x, y)
  <2> SUFFICES ASSUME NEW y \in ts PROVE Before(x, y)
    OBVIOUS
  <2>1. x.at = d /\ d <= y.at /\ y.at \in Nat /\ d \in Nat
    BY <1>2, <1>4 DEF TimerSet
  <2>2. CASE y.at = d
    BY <1>3, <1>4, <2>1, <2>2 DEF Before
  <2>3. CASE y.at # d
    BY <2>1, <2>3 DEF Before
  <2> QED
    BY <2>2, <2>3
<1> QED
  BY <1>4, <1>5 DEF LeftMost

LEMMA LeftMostTime ==
  ASSUME NEW ts \in SUBSET TimerSet, ts # {}
  PROVE  LeftMost(ts).at \in Nat /\ \A y \in ts : LeftMost(ts).at <= y.at
  BY LeftMostIsFirst DEF Before, TimerSet

(* The descriptor is armed again, or is armed for the same time already.    *)
LEMMA ArmedAgain ==
  ASSUME ClockOK, now' = now, timers' \subseteq TimerSet, ArmTimer(timers')
  PROVE  /\ armed' \in Nat \cup {None} /\ timerFd' \in Nat \cup {None}
         /\ armed' # None => timerFd' # None /\ (timerFd' <= armed' \/ timerFd' <= now' + 1)
         /\ timers' # {} => armed' = LeftMost(timers').at
<1> DEFINE next == IF timers' = {} THEN None ELSE LeftMost(timers').at
<1>1. next \in Nat \cup {None} /\ (timers' # {} => next = LeftMost(timers').at)
  BY LeftMostTime
<1>2. (next = armed /\ UNCHANGED <<armed, timerFd>>) \/ ArmFor(next)
  BY DEF ArmTimer
<1> HIDE DEF next
<1>3. CASE next = armed /\ UNCHANGED <<armed, timerFd>>
  BY <1>1, <1>3 DEF ClockOK
<1>4. CASE ArmFor(next)
  BY <1>1, <1>4, WorkersAssumption DEF ArmFor, ClockOK
<1> QED
  BY <1>2, <1>3, <1>4

LEMMA StillSoon ==
  ASSUME NEW x \in Nat, NEW m \in Nat, NEW n \in Nat, m <= n, x <= m + 1
  PROVE  x <= n + 1
  OBVIOUS

(* No step but those of the timers touches them; time only goes on.         *)
LEMMA ClockQuiet ==
  ASSUME ClockOK, UNCHANGED <<timers, armed, timerFd>>, now' \in Nat, now <= now',
         pc' = "look" => pc = "look"
  PROVE  ClockOK'
<1>1. armed' # None => timerFd' # None /\ (timerFd' <= armed' \/ timerFd' <= now' + 1)
  <2>1. CASE armed = None
    BY <2>1
  <2>2. CASE armed # None
    <3>1. armed \in Nat /\ timerFd \in Nat /\ timerFd # None /\ now \in Nat
          /\ (timerFd <= armed \/ timerFd <= now + 1)
      BY <2>2 DEF ClockOK
    <3>2. timerFd <= now + 1 => timerFd <= now' + 1
      BY <3>1, StillSoon
    <3> QED
      BY <3>1, <3>2
  <2> QED
    BY <2>1, <2>2
<1> QED
  BY <1>1 DEF ClockOK

(* Withdrawn timers leave the descriptor as it is.                          *)
LEMMA ClockFewer ==
  ASSUME ClockOK, UNCHANGED <<armed, timerFd, now>>, timers' \subseteq timers, pc' # "look"
  PROVE  ClockOK'
  BY DEF ClockOK

LEMMA AddTimerClock ==
  ASSUME ClockOK, NEW x \in TimerSet, AddTimer(x), now' = now, pc' # "look"
  PROVE  ClockOK'
<1>1. timers' \subseteq TimerSet
  BY DEF AddTimer, ClockOK
<1>2. CASE ArmTimer(timers')
  BY <1>1, <1>2, ArmedAgain DEF ClockOK
<1>3. CASE UNCHANGED <<armed, timerFd>>
  BY <1>1, <1>3 DEF ClockOK
<1> QED
  BY <1>2, <1>3 DEF AddTimer

LEMMA InitClock == Init => ClockOK
  BY WorkersAssumption DEF Init, ClockOK

-----------------------------------------------------------------------------
(* Tasks, and where their operations are.                                   *)

TaskStates == {"ready", "waiting", "pinned", "done", "gone"}
TaskSet    == [st : TaskStates, stage : Nat, left : Nat, op : Nat \X Nat]
Busy       == {"check", "run", "post", "poke"}
Has        == {"check", "run", "post"}     \* the worker's job has not been posted

TypesOK ==
  /\ program \in Programs /\ fresh \in Nat /\ runQ \in Seq(Tasks)
  /\ task \in [Tasks -> TaskSet]
  /\ ran = [t \in Tasks |-> ran[t]]
  /\ \A t \in Tasks : ran[t] \in [1..Len(program[t]) -> Nat]
  /\ timers \subseteq TimerSet
  /\ queue \in Seq(Jobs) /\ inbox \in Seq(Jobs) /\ acts \in Seq(Jobs)
  /\ job \in [Worker -> Jobs \cup {None}]
  /\ \A w \in Worker : job[w] # None <=> wpc[w] \in Busy

(* An operation that is over has left no trace; one that is not is in one   *)
(* place, or, when its task was given up, in one place at most.             *)
Holds(s, t) == \E i \in 1..Len(s) : s[i].task = t
Once(s)     == \A i, j \in 1..Len(s) : s[i].task = s[j].task => i = j
Timed(t)    == \E x \in timers : x.task = t
Worked(t)   == \E w \in Worker : wpc[w] \in Has /\ job[w].task = t

One(a, b, c, d, e) ==
  /\ a => ~b /\ ~c /\ ~d /\ ~e
  /\ b => ~c /\ ~d /\ ~e
  /\ c => ~d /\ ~e
  /\ d => ~e
Place(st, a, b, c, d, e) ==
  /\ One(a, b, c, d, e)
  /\ st = "waiting" => a \/ b \/ c \/ d \/ e
  /\ st \in {"ready", "pinned", "done"} => ~a /\ ~b /\ ~c /\ ~d /\ ~e
PlacesOK ==
  /\ \A x, y \in timers : x.task = y.task => x = y
  /\ \A v, w \in Worker : wpc[v] \in Has /\ wpc[w] \in Has /\ job[v].task = job[w].task => v = w
  /\ Once(queue) /\ Once(inbox) /\ Once(acts)
  /\ \A t \in Tasks :
       Place(task[t].st, Timed(t), Holds(queue, t), Worked(t), Holds(inbox, t), Holds(acts, t))

(* What an operation knows of its task: p is the program of the task, k the *)
(* task, r the Points run of each stage.                                    *)
TimerOK(x, p, k) ==
  x.op = k.op /\ (k.st = "waiting" => p[k.stage].kind = "sleep")
JobOK(x, p, k, r) ==
  /\ x.op = k.op /\ x.stage = k.stage /\ x.stage \in 1..Len(p)
  /\ p[x.stage].kind = "points"
  /\ k.st = "waiting" => r[x.stage] + x.left = p[x.stage].n
Timer(x)  == x.task \in Tasks /\ TimerOK(x, program[x.task], task[x.task])
Job(x)    == x.task \in Tasks /\ JobOK(x, program[x.task], task[x.task], ran[x.task])
ItemsOK ==
  /\ \A x \in timers : Timer(x)
  /\ \A i \in 1..Len(queue) : Job(queue[i]) /\ queue[i].left > 0 /\ queue[i].fuel > 0
  /\ \A i \in 1..Len(inbox) : Job(inbox[i])
  /\ \A i \in 1..Len(acts)  : Job(acts[i])
  /\ \A w \in Worker : wpc[w] \in Has =>
       Job(job[w]) /\ (wpc[w] # "post" => job[w].left > 0 /\ job[w].fuel > 0)

(* How far a task is that was not given up.                                 *)
TaskOK(t, p, k, r) ==
  /\ k.op[1] = t /\ k.stage \in 0..Len(p)
  /\ k.st \in {"waiting", "pinned"} => k.stage > 0
  /\ k.st = "pinned" => p[k.stage].kind = "cancel" /\ k.left = 0
  /\ k.st = "ready" /\ k.left > 0 => k.stage > 0 /\ p[k.stage].kind = "points"
  /\ k.st = "done" => k.left = 0 /\ k.stage = Len(p)
  /\ k.st # "gone" =>
       \A i \in 1..Len(p) : p[i].kind = "points" =>
         /\ i < k.stage => r[i] = p[i].n
         /\ i > k.stage => r[i] = 0
         /\ i = k.stage /\ k.st \in {"ready", "done"} => r[i] + k.left = p[i].n
ProgressOK == \A t \in Tasks : TaskOK(t, program[t], task[t], ran[t])

Waits     == {t \in Tasks : task[t].st = "waiting"}
PendingOK == pending = Cardinality(Waits)
RevokedOK == \A o \in revoked : \E t \in Tasks : task[t].op = o /\ task[t].st = "gone"

TaskInv == TypesOK /\ PlacesOK /\ ItemsOK /\ ProgressOK /\ PendingOK /\ RevokedOK

LEMMA ProgramShape ==
  ASSUME TypesOK
  PROVE  /\ program \in Seq(Seq(Stages)) /\ program # <<>>
         /\ Tasks = 1..Len(program) /\ Len(program) \in Nat /\ Len(program) > 0
         /\ \A t \in Tasks :
              /\ program[t] \in Seq(Stages) /\ Len(program[t]) \in Nat
              /\ \A i \in 1..Len(program[t]) :
                   /\ program[t][i] \in Stages
                   /\ program[t][i].kind = "points" => program[t][i].n > 0
                   /\ program[t][i].kind = "cancel" => program[t][i].n \in Tasks /\ i = Len(program[t])
<1>1. program \in Seq(Seq(Stages)) /\ program # <<>>
  BY ProgramsAssumption DEF TypesOK
<1>2. DOMAIN program = 1..Len(program) /\ Len(program) \in Nat /\ Len(program) > 0
  BY <1>1
<1>3. \A t \in 1..Len(program) : program[t] \in Seq(Stages)
  BY <1>1
<1>4. ASSUME NEW t \in Tasks
      PROVE  /\ program[t] \in Seq(Stages) /\ Len(program[t]) \in Nat
             /\ DOMAIN program[t] = 1..Len(program[t])
             /\ \A i \in 1..Len(program[t]) : program[t][i] \in Stages
  BY <1>2, <1>3, <1>4 DEF Tasks
<1>5. \A t \in DOMAIN program : \A i \in DOMAIN program[t] :
         /\ program[t][i].kind = "points" => program[t][i].n > 0
         /\ program[t][i].kind = "cancel" => program[t][i].n \in DOMAIN program /\ i = Len(program[t])
  BY ProgramsAssumption DEF TypesOK
<1> QED
  BY <1>1, <1>2, <1>4, <1>5 DEF Tasks

LEMMA FewTasks ==
  ASSUME TypesOK, NEW A \in SUBSET Tasks
  PROVE  IsFiniteSet(A) /\ Cardinality(A) \in 0..Len(program)
<1>1. Tasks = 1..Len(program) /\ Len(program) \in Nat
  BY ProgramShape
<1>2. IsFiniteSet(Tasks) /\ Cardinality(Tasks) = Len(program)
  <2> DEFINE n == Len(program)
  <2>1. n \in Nat /\ n > 0 /\ Tasks = 1..n
    BY <1>1, ProgramShape
  <2> HIDE DEF n
  <2>2. IsFiniteSet(1..n) /\ Cardinality(1..n) = (IF 1 > n THEN 0 ELSE n - 1 + 1)
    BY <2>1, FS_Interval
  <2>3. Cardinality(1..n) = n
    BY <2>1, <2>2
  <2> QED
    BY <2>1, <2>2, <2>3 DEF n
<1>3. IsFiniteSet(A) /\ Cardinality(A) <= Cardinality(Tasks) /\ Cardinality(A) \in Nat
  BY <1>2, FS_Subset, FS_CardinalityType
<1> QED
  BY <1>1, <1>2, <1>3

-----------------------------------------------------------------------------
(* Sequences of jobs.                                                       *)

LEMMA AppendedJob ==
  ASSUME NEW s \in Seq(Jobs), NEW j \in Jobs, Once(s), ~Holds(s, j.task)
  PROVE  /\ Append(s, j) \in Seq(Jobs) /\ Once(Append(s, j))
         /\ \A u : Holds(Append(s, j), u) <=> Holds(s, u) \/ u = j.task
         /\ \A i \in 1..Len(Append(s, j)) : Append(s, j)[i] = j \/ \E k \in 1..Len(s) : Append(s, j)[i] = s[k]
<1> DEFINE new == Append(s, j)
<1>1. /\ new \in Seq(Jobs) /\ Len(new) = Len(s) + 1 /\ Len(s) \in Nat
      /\ new[Len(s) + 1] = j /\ \A i \in 1..Len(s) : new[i] = s[i]
  OBVIOUS
<1> HIDE DEF new
<1>2. Once(new)
  <2> SUFFICES ASSUME NEW i \in 1..Len(new), NEW k \in 1..Len(new), new[i].task = new[k].task PROVE i = k
    BY DEF Once
  <2>1. CASE i \in 1..Len(s) /\ k \in 1..Len(s)
    BY <1>1, <2>1 DEF Once
  <2>2. CASE i = Len(s) + 1 /\ k \in 1..Len(s)
    BY <1>1, <2>2 DEF Holds
  <2>3. CASE i \in 1..Len(s) /\ k = Len(s) + 1
    BY <1>1, <2>3 DEF Holds
  <2> QED
    BY <1>1, <2>1, <2>2, <2>3
<1>3. ASSUME NEW u PROVE Holds(new, u) <=> Holds(s, u) \/ u = j.task
  <2>1. ASSUME NEW i \in 1..Len(new), new[i].task = u PROVE Holds(s, u) \/ u = j.task
    <3>1. i \in 1..Len(s) \/ i = Len(s) + 1
      BY <1>1
    <3> QED
      BY <1>1, <2>1, <3>1 DEF Holds
  <2>2. ASSUME NEW i \in 1..Len(s), s[i].task = u PROVE Holds(new, u)
    BY <1>1, <2>2 DEF Holds
  <2>3. u = j.task => Holds(new, u)
    BY <1>1 DEF Holds
  <2> QED
    BY <2>1, <2>2, <2>3 DEF Holds
<1>4. \A i \in 1..Len(new) : new[i] = j \/ \E k \in 1..Len(s) : new[i] = s[k]
  BY <1>1
<1> QED
  BY <1>1, <1>2, <1>3, <1>4 DEF new

LEMMA TakenJob ==
  ASSUME NEW s \in Seq(Jobs), s # <<>>, Once(s)
  PROVE  /\ Head(s) \in Jobs /\ Tail(s) \in Seq(Jobs) /\ Once(Tail(s)) /\ Holds(s, Head(s).task)
         /\ \A u : Holds(Tail(s), u) <=> Holds(s, u) /\ u # Head(s).task
         /\ Head(s) = s[1] /\ 1 \in 1..Len(s)
         /\ \A i \in 1..Len(Tail(s)) : \E k \in 1..Len(s) : Tail(s)[i] = s[k]
<1> DEFINE new == Tail(s)  h == Head(s)
<1>1. /\ new \in Seq(Jobs) /\ Len(s) \in Nat /\ Len(s) > 0 /\ Len(new) = Len(s) - 1
      /\ h = s[1] /\ h \in Jobs /\ \A i \in 1..Len(new) : new[i] = s[i + 1]
  OBVIOUS
<1> HIDE DEF new, h
<1>2. \A i \in 1..Len(new) : i + 1 \in 1..Len(s) /\ i + 1 # 1 /\ i \in Int
  BY <1>1
<1>3. Once(new)
  <2> SUFFICES ASSUME NEW i \in 1..Len(new), NEW k \in 1..Len(new), new[i].task = new[k].task PROVE i = k
    BY DEF Once
  <2>1. s[i + 1].task = s[k + 1].task /\ i + 1 \in 1..Len(s) /\ k + 1 \in 1..Len(s)
    BY <1>1, <1>2
  <2>2. i + 1 = k + 1
    BY <2>1 DEF Once
  <2> QED
    BY <1>2, <2>2
<1>4. ASSUME NEW u PROVE Holds(new, u) <=> Holds(s, u) /\ u # h.task
  <2>1. ASSUME NEW i \in 1..Len(new), new[i].task = u PROVE Holds(s, u) /\ u # h.task
    <3>1. s[i + 1].task = u /\ i + 1 \in 1..Len(s) /\ i + 1 # 1 /\ 1 \in 1..Len(s)
      BY <1>1, <1>2, <2>1
    <3> QED
      BY <1>1, <3>1 DEF Holds, Once
  <2>2. ASSUME NEW i \in 1..Len(s), s[i].task = u, u # h.task PROVE Holds(new, u)
    <3>1. i # 1 /\ i - 1 \in 1..Len(new) /\ (i - 1) + 1 = i
      BY <1>1, <2>2
    <3>2. new[i - 1] = s[(i - 1) + 1]
      BY <1>1, <3>1
    <3> QED
      BY <2>2, <3>1, <3>2 DEF Holds
  <2> QED
    BY <2>1, <2>2 DEF Holds
<1>5. Holds(s, h.task) /\ 1 \in 1..Len(s)
  BY <1>1 DEF Holds
<1>6. \A i \in 1..Len(new) : \E k \in 1..Len(s) : new[i] = s[k]
  BY <1>1, <1>2
<1> QED
  BY <1>1, <1>3, <1>4, <1>5, <1>6 DEF new, h

LEMMA NoJobs == Once(<<>>) /\ <<>> \in Seq(Jobs) /\ \A u : ~Holds(<<>>, u)
  BY DEF Once, Holds

-----------------------------------------------------------------------------
(* Steps that move no operation.                                            *)

tasky == <<program, task, ran, fresh, timers, queue, inbox, acts, job, revoked, pending>>

LEMMA TaskQuiet ==
  ASSUME TaskInv, UNCHANGED tasky, runQ' \in Seq(Tasks),
         \A w \in Worker : \/ wpc'[w] = wpc[w]
                           \/ wpc[w] \notin Busy /\ wpc'[w] \notin Busy
                           \/ wpc[w] = "check" /\ wpc'[w] = "run"
  PROVE  TaskInv'
<1> USE DEF tasky
<1>1. Tasks' = Tasks /\ \A w \in Worker : /\ wpc'[w] \in Has <=> wpc[w] \in Has
                                          /\ wpc'[w] \in Busy <=> wpc[w] \in Busy
                                          /\ wpc'[w] = "post" <=> wpc[w] = "post"
  BY DEF Tasks, Has, Busy
<1>2. TypesOK'
  BY <1>1 DEF TaskInv, TypesOK
<1>3. PlacesOK'
  <2>1. \A t : (Worked(t)' <=> Worked(t)) /\ (Timed(t)' <=> Timed(t))
    BY <1>1 DEF Worked, Timed
  <2>2. \A v, w \in Worker : wpc'[v] \in Has /\ wpc'[w] \in Has /\ job'[v].task = job'[w].task => v = w
    BY <1>1 DEF TaskInv, PlacesOK
  <2>3. ASSUME NEW t \in Tasks
        PROVE  Place(task'[t].st, Timed(t)', Holds(queue', t), Worked(t)', Holds(inbox', t), Holds(acts', t))
    BY <2>1 DEF TaskInv, PlacesOK, Place, One
  <2> QED
    BY <1>1, <2>2, <2>3 DEF TaskInv, PlacesOK
<1>4. ItemsOK'
  <2>1. \A x : (Timer(x)' <=> Timer(x)) /\ (Job(x)' <=> Job(x))
    BY <1>1 DEF Timer, Job
  <2>2. \A w \in Worker : wpc'[w] \in Has =>
       Job(job[w])' /\ (wpc'[w] # "post" => job'[w].left > 0 /\ job'[w].fuel > 0)
    BY <1>1 DEF TaskInv, ItemsOK, Job
  <2> QED
    BY <1>1, <2>1, <2>2 DEF TaskInv, ItemsOK, Job
<1>5. ProgressOK' /\ PendingOK' /\ RevokedOK'
  BY <1>1 DEF TaskInv, ProgressOK, PendingOK, RevokedOK, Waits
<1> QED
  BY <1>2, <1>3, <1>4, <1>5 DEF TaskInv

-----------------------------------------------------------------------------
(* The workers.                                                             *)

(* A worker has one more operation, or one less.                            *)
LEMMA WorkerGets ==
  ASSUME NEW w \in Worker, wpc[w] \notin Has, wpc'[w] \in Has,
         \A v \in Worker \ {w} : wpc'[v] = wpc[v] /\ job'[v] = job[v]
  PROVE  \A u : Worked(u)' <=> Worked(u) \/ u = job'[w].task
  BY DEF Worked

LEMMA WorkerLoses ==
  ASSUME NEW w \in Worker, PlacesOK, wpc[w] \in Has, wpc'[w] \notin Has,
         \A v \in Worker \ {w} : wpc'[v] = wpc[v] /\ job'[v] = job[v]
  PROVE  \A u : Worked(u)' <=> Worked(u) /\ u # job[w].task
  BY DEF Worked, PlacesOK

LEMMA TakeJobTasks ==
  ASSUME TaskInv, wpc \in [Worker -> WorkerStates], NEW w \in Worker, TakeJob(w)
  PROVE  TaskInv'
<1>1. wpc[w] \notin Busy
  BY DEF TakeJob, Busy
<1>2. /\ UNCHANGED <<program, task, ran, fresh, timers, inbox, acts, revoked, pending, runQ>>
      /\ Tasks' = Tasks
  BY DEF TakeJob, config, taskVars, opVars, timeVars, inboxVars, Tasks
<1>3. CASE UNCHANGED <<queue, job>> /\ wpc' \in {[wpc EXCEPT ![w] = "ended"], [wpc EXCEPT ![w] = "wait"]}
  <2>1. \A v \in Worker : wpc'[v] = wpc[v] \/ (wpc[v] \notin Busy /\ wpc'[v] \notin Busy)
    BY <1>1, <1>3 DEF Busy
  <2>2. runQ' \in Seq(Tasks)
    BY <1>2 DEF TaskInv, TypesOK
  <2> QED
    BY <1>2, <1>3, <2>1, <2>2, TaskQuiet DEF tasky
<1>4. CASE /\ queue # <<>> /\ job' = [job EXCEPT ![w] = Head(queue)] /\ queue' = Tail(queue)
           /\ wpc' = [wpc EXCEPT ![w] = "check"]
  <2> DEFINE h == Head(queue)
  <2>1. /\ h \in Jobs /\ Tail(queue) \in Seq(Jobs) /\ Once(Tail(queue)) /\ Holds(queue, h.task)
        /\ \A u : Holds(Tail(queue), u) <=> Holds(queue, u) /\ u # h.task
        /\ h = queue[1] /\ 1 \in 1..Len(queue)
        /\ \A i \in 1..Len(Tail(queue)) : \E k \in 1..Len(queue) : Tail(queue)[i] = queue[k]
    BY <1>4, TakenJob DEF TaskInv, TypesOK, PlacesOK
  <2>2. Job(h) /\ h.left > 0 /\ h.fuel > 0 /\ h.task \in Tasks
    BY <2>1 DEF TaskInv, ItemsOK, Job
  <2>3. h # None
    BY <2>1, ProgramsAssumption
  <2> HIDE DEF h
  <2>4. /\ wpc'[w] = "check" /\ job'[w] = h /\ job' \in [Worker -> Jobs \cup {None}]
        /\ \A v \in Worker \ {w} : wpc'[v] = wpc[v] /\ job'[v] = job[v]
    BY <1>4, <2>1 DEF TaskInv, TypesOK, h
  <2>5. \A u : Worked(u)' <=> Worked(u) \/ u = h.task
    BY <1>1, <2>4, WorkerGets DEF Busy, Has
  <2>6. \A u : Timed(u)' <=> Timed(u)
    BY <1>2 DEF Timed
  <2>7. ~Worked(h.task)
    BY <2>1, <2>2 DEF TaskInv, PlacesOK, Place, One
  <2>8. TypesOK'
    <3>1. \A v \in Worker : job'[v] # None <=> wpc'[v] \in Busy
      BY <2>3, <2>4 DEF TaskInv, TypesOK, Busy
    <3> QED
      BY <1>2, <1>4, <2>1, <2>4, <3>1 DEF TaskInv, TypesOK
  <2>9. PlacesOK'
    <3>1. ASSUME NEW u \in Worker, NEW v \in Worker, wpc'[u] \in Has, wpc'[v] \in Has,
                 job'[u].task = job'[v].task
          PROVE  u = v
      <4>1. CASE u = w
        BY <2>4, <2>7, <3>1, <4>1 DEF Worked
      <4>2. CASE v = w
        BY <2>4, <2>7, <3>1, <4>2 DEF Worked
      <4>3. CASE u # w /\ v # w
        BY <2>4, <3>1, <4>3 DEF TaskInv, PlacesOK
      <4> QED
        BY <4>1, <4>2, <4>3
    <3>2. ASSUME NEW t \in Tasks
          PROVE  Place(task'[t].st, Timed(t)', Holds(queue', t), Worked(t)', Holds(inbox', t), Holds(acts', t))
      <4>1. Place(task[t].st, Timed(t), Holds(queue, t), Worked(t), Holds(inbox, t), Holds(acts, t))
        BY DEF TaskInv, PlacesOK
      <4>2. Holds(queue', t) <=> Holds(queue, t) /\ t # h.task
        BY <1>4, <2>1
      <4>3. t = h.task => Holds(queue, t)
        BY <2>1
      <4> QED
        BY <1>2, <2>5, <2>6, <4>1, <4>2, <4>3 DEF Place, One
    <3> QED
      BY <1>2, <1>4, <2>1, <3>1, <3>2 DEF TaskInv, PlacesOK
  <2>10. ItemsOK'
    <3>1. \A x : (Timer(x)' <=> Timer(x)) /\ (Job(x)' <=> Job(x))
      BY <1>2 DEF Timer, Job
    <3>2. \A i \in 1..Len(queue') : Job(queue'[i]) /\ queue'[i].left > 0 /\ queue'[i].fuel > 0
      BY <1>4, <2>1 DEF TaskInv, ItemsOK
    <3>3. \A v \in Worker : wpc'[v] \in Has =>
            Job(job'[v]) /\ (wpc'[v] # "post" => job'[v].left > 0 /\ job'[v].fuel > 0)
      BY <2>2, <2>4 DEF TaskInv, ItemsOK
    <3> QED
      BY <1>2, <3>1, <3>2, <3>3 DEF TaskInv, ItemsOK, Job, Timer
  <2>11. ProgressOK' /\ PendingOK' /\ RevokedOK'
    BY <1>2 DEF TaskInv, ProgressOK, PendingOK, RevokedOK, Waits
  <2> QED
    BY <2>8, <2>9, <2>10, <2>11 DEF TaskInv
<1> QED
  BY <1>3, <1>4 DEF TakeJob

LEMMA CheckJobTasks ==
  ASSUME TaskInv, wpc \in [Worker -> WorkerStates], NEW w \in Worker, CheckJob(w)
  PROVE  TaskInv'
<1>1. /\ UNCHANGED <<program, task, ran, fresh, timers, queue, inbox, acts, revoked, pending, runQ>>
      /\ Tasks' = Tasks /\ wpc[w] = "check" /\ "check" \in Has /\ runQ' \in Seq(Tasks)
  BY DEF CheckJob, config, taskVars, opVars, timeVars, inboxVars, poolVars, Tasks, Has, TaskInv, TypesOK
<1>2. CASE wpc' = [wpc EXCEPT ![w] = "run"] /\ job' = job
  BY <1>1, <1>2, TaskQuiet DEF tasky
<1>3. CASE job[w].op \in revoked /\ wpc' = [wpc EXCEPT ![w] = "start"] /\ job' = [job EXCEPT ![w] = None]
  <2> DEFINE h == job[w]
  <2>1. Job(h) /\ h.task \in Tasks
    BY <1>1 DEF TaskInv, ItemsOK, Job
  <2>2. /\ wpc'[w] = "start" /\ job'[w] = None /\ job' \in [Worker -> Jobs \cup {None}]
        /\ \A v \in Worker \ {w} : wpc'[v] = wpc[v] /\ job'[v] = job[v]
    BY <1>3 DEF TaskInv, TypesOK
  <2>3. \A u : Worked(u)' <=> Worked(u) /\ u # h.task
    BY <1>1, <2>2, WorkerLoses DEF Has, TaskInv
  <2>4. task[h.task].st = "gone"
    <3>1. PICK t \in Tasks : task[t].op = h.op /\ task[t].st = "gone"
      BY <1>3 DEF TaskInv, RevokedOK
    <3>2. task[h.task].op = h.op
      BY <2>1 DEF Job, JobOK
    <3>3. task[t].op[1] = t /\ task[h.task].op[1] = h.task
      BY <2>1, <3>1 DEF TaskInv, ProgressOK, TaskOK
    <3> QED
      BY <3>1, <3>2, <3>3
  <2> HIDE DEF h
  <2>5. \A u : Timed(u)' <=> Timed(u)
    BY <1>1 DEF Timed
  <2>6. TypesOK'
    <3>1. \A v \in Worker : job'[v] # None <=> wpc'[v] \in Busy
      BY <2>2 DEF TaskInv, TypesOK, Busy
    <3> QED
      BY <1>1, <2>2, <3>1 DEF TaskInv, TypesOK
  <2>7. PlacesOK'
    <3>1. \A u, v \in Worker : wpc'[u] \in Has /\ wpc'[v] \in Has /\ job'[u].task = job'[v].task => u = v
      BY <2>2 DEF TaskInv, PlacesOK, Has
    <3>2. ASSUME NEW t \in Tasks
          PROVE  Place(task'[t].st, Timed(t)', Holds(queue', t), Worked(t)', Holds(inbox', t), Holds(acts', t))
      <4>1. Place(task[t].st, Timed(t), Holds(queue, t), Worked(t), Holds(inbox, t), Holds(acts, t))
        BY DEF TaskInv, PlacesOK
      <4>2. task[t].st = "waiting" => t # h.task
        BY <2>4
      <4> QED
        BY <1>1, <2>3, <2>5, <4>1, <4>2 DEF Place, One
    <3> QED
      BY <1>1, <3>1, <3>2 DEF TaskInv, PlacesOK
  <2>8. ItemsOK'
    <3>1. \A x : (Timer(x)' <=> Timer(x)) /\ (Job(x)' <=> Job(x))
      BY <1>1 DEF Timer, Job
    <3>2. \A v \in Worker : wpc'[v] \in Has =>
            Job(job'[v]) /\ (wpc'[v] # "post" => job'[v].left > 0 /\ job'[v].fuel > 0)
      BY <2>2 DEF TaskInv, ItemsOK, Has
    <3> QED
      BY <1>1, <3>1, <3>2 DEF TaskInv, ItemsOK, Job, Timer
  <2>9. ProgressOK' /\ PendingOK' /\ RevokedOK'
    BY <1>1 DEF TaskInv, ProgressOK, PendingOK, RevokedOK, Waits
  <2> QED
    BY <2>6, <2>7, <2>8, <2>9 DEF TaskInv
<1> QED
  BY <1>2, <1>3 DEF CheckJob

LEMMA RunPointTasks ==
  ASSUME TaskInv, wpc \in [Worker -> WorkerStates], NEW w \in Worker, RunPoint(w)
  PROVE  TaskInv'
<1> DEFINE h == job[w]
           t == h.task
           j == [h EXCEPT !.left = @ - 1, !.fuel = @ - 1]
           over == j.left = 0 \/ j.fuel = 0 \/ task[t].st = "gone"
<1>1. /\ UNCHANGED <<program, task, fresh, timers, queue, inbox, acts, revoked, pending, runQ>>
      /\ Tasks' = Tasks /\ wpc[w] = "run" /\ runQ' \in Seq(Tasks)
  BY DEF RunPoint, config, taskVars, opVars, timeVars, inboxVars, poolVars, Tasks, TaskInv, TypesOK
<1>2. /\ ran' = [ran EXCEPT ![t][h.stage] = @ + 1]
      /\ job' = [job EXCEPT ![w] = j]
      /\ wpc' = [wpc EXCEPT ![w] = IF over THEN "post" ELSE "run"]
  BY DEF RunPoint
<1>3. /\ t \in Tasks /\ JobOK(h, program[t], task[t], ran[t]) /\ h \in Jobs /\ h.left > 0 /\ h.fuel > 0
  BY <1>1, ProgramsAssumption DEF TaskInv, TypesOK, ItemsOK, Job, Has, Busy
<1>4. /\ j \in Jobs /\ j # None /\ j.task = t /\ j.op = h.op /\ j.stage = h.stage
      /\ j.left = h.left - 1 /\ (~over => j.left > 0 /\ j.fuel > 0)
  <2>1. h.left - 1 \in Nat /\ h.fuel - 1 \in Nat
    BY <1>3 DEF Jobs
  <2>2. j \in Jobs
    BY <1>3, <2>1 DEF Jobs
  <2>3. j.left = h.left - 1 /\ j.fuel = h.fuel - 1 /\ j.task = t /\ j.op = h.op /\ j.stage = h.stage
    BY <1>3 DEF Jobs
  <2>4. ~over => j.left # 0 /\ j.fuel # 0
    OBVIOUS
  <2>5. j # None
    BY <2>2, ProgramsAssumption
  <2> HIDE DEF j, over
  <2>6. j.left \in Nat /\ j.fuel \in Nat
    BY <2>2 DEF Jobs
  <2>7. j.left # 0 /\ j.fuel # 0 => j.left > 0 /\ j.fuel > 0
    BY <2>6
  <2> QED
    BY <2>2, <2>3, <2>4, <2>5, <2>7
<1> DEFINE at == IF over THEN "post" ELSE "run"
<1>5. at \in Has /\ at \in Busy /\ (at # "post" => j.left > 0 /\ j.fuel > 0)
  BY <1>4 DEF Has, Busy
<1> HIDE DEF j, over, at
<1>6. /\ wpc'[w] = at /\ job'[w] = j /\ job' \in [Worker -> Jobs \cup {None}]
      /\ \A v \in Worker \ {w} : wpc'[v] = wpc[v] /\ job'[v] = job[v]
  BY <1>2, <1>4 DEF TaskInv, TypesOK, at
<1> HIDE DEF h, t
<1>7. /\ h.stage \in 1..Len(program[t]) /\ ran[t][h.stage] \in Nat
      /\ ran' = [u \in Tasks |-> ran'[u]] /\ \A u \in Tasks \ {t} : ran'[u] = ran[u]
      /\ ran'[t] = [ran[t] EXCEPT ![h.stage] = @ + 1]
      /\ ran'[t] \in [1..Len(program[t]) -> Nat]
      /\ ran'[t][h.stage] = ran[t][h.stage] + 1
      /\ \A i \in 1..Len(program[t]) : i # h.stage => ran'[t][i] = ran[t][i]
  <2>1. h.stage \in 1..Len(program[t])
    BY <1>3 DEF JobOK
  <2>2. ran[t] \in [1..Len(program[t]) -> Nat] /\ ran = [u \in Tasks |-> ran[u]]
    BY <1>3 DEF TaskInv, TypesOK
  <2>3. ran'[t] = [ran[t] EXCEPT ![h.stage] = @ + 1] /\ \A u \in Tasks \ {t} : ran'[u] = ran[u]
    BY <1>2, <1>3, <2>2
  <2>4. ran' = [u \in Tasks |-> ran'[u]]
    BY <1>2, <1>3, <2>2
  <2>5. ran[t][h.stage] \in Nat /\ ran[t][h.stage] + 1 \in Nat
    BY <2>1, <2>2
  <2> QED
    BY <2>1, <2>2, <2>3, <2>4, <2>5
<1>8. \A u : (Worked(u)' <=> Worked(u)) /\ (Timed(u)' <=> Timed(u))
  <2>1. job'[w].task = job[w].task /\ wpc[w] \in Has /\ wpc'[w] \in Has
    BY <1>1, <1>4, <1>5, <1>6 DEF Has, t, h
  <2> QED
    BY <1>1, <1>6, <2>1 DEF Worked, Timed
<1>9. TypesOK'
  <2>1. \A v \in Worker : job'[v] # None <=> wpc'[v] \in Busy
    BY <1>4, <1>5, <1>6 DEF TaskInv, TypesOK
  <2>2. \A u \in Tasks : ran'[u] \in [1..Len(program[u]) -> Nat]
    BY <1>7 DEF TaskInv, TypesOK
  <2> QED
    BY <1>1, <1>6, <1>7, <2>1, <2>2 DEF TaskInv, TypesOK
<1>10. PlacesOK'
  <2>1. ASSUME NEW u \in Worker, NEW v \in Worker, wpc'[u] \in Has, wpc'[v] \in Has,
               job'[u].task = job'[v].task
        PROVE  u = v
    <3>1. wpc[u] \in Has /\ wpc[v] \in Has /\ job[u].task = job[v].task
      BY <1>1, <1>4, <1>6, <2>1 DEF Has, t, h
    <3> QED
      BY <3>1 DEF TaskInv, PlacesOK
  <2>2. ASSUME NEW u \in Tasks
        PROVE  Place(task'[u].st, Timed(u)', Holds(queue', u), Worked(u)', Holds(inbox', u), Holds(acts', u))
    BY <1>1, <1>8 DEF TaskInv, PlacesOK, Place, One
  <2> QED
    BY <1>1, <2>1, <2>2 DEF TaskInv, PlacesOK
<1>11. /\ ~Timed(t) /\ ~Holds(queue, t) /\ ~Holds(inbox, t) /\ ~Holds(acts, t)
       /\ \A v \in Worker \ {w} : wpc[v] \in Has => job[v].task # t
       /\ task[t].st \in {"waiting", "gone"}
  <2>1. Worked(t)
    BY <1>1 DEF Worked, Has, t, h
  <2>2. task[t].st \in TaskStates
    BY <1>3 DEF TaskInv, TypesOK, TaskSet
  <2>3. \A v \in Worker \ {w} : wpc[v] \in Has => job[v].task # t
    BY <1>1 DEF TaskInv, PlacesOK, Has, t, h
  <2> QED
    BY <1>3, <2>1, <2>2, <2>3 DEF TaskInv, PlacesOK, Place, One, TaskStates
<1> DEFINE New(x) == x.task \in Tasks /\ JobOK(x, program[x.task], task[x.task], ran'[x.task])
<1>12. ItemsOK'
  <2>1. \A x : Timer(x)' <=> Timer(x)
    BY <1>1 DEF Timer
  <2>2. \A x : x.task # t => (New(x) <=> Job(x))
    BY <1>7 DEF Job
  <2>3. New(j)
    <3>1. ASSUME task[t].st = "waiting" PROVE ran'[t][j.stage] + j.left = program[t][j.stage].n
      <4>1. ran[t][h.stage] + h.left = program[t][h.stage].n
        BY <1>3, <3>1 DEF JobOK
      <4>2. ran[t][h.stage] \in Nat /\ h.left \in Nat
        BY <1>3, <1>7 DEF Jobs
      <4>3. (ran[t][h.stage] + 1) + (h.left - 1) = ran[t][h.stage] + h.left
        BY <4>2
      <4> QED
        BY <1>4, <1>7, <4>1, <4>3
    <3>2. JobOK(j, program[t], task[t], ran'[t])
      BY <1>3, <1>4, <3>1 DEF JobOK
    <3> QED
      BY <1>3, <1>4, <3>2
  <2> HIDE DEF New
  <2>4. \A i \in 1..Len(queue) : New(queue[i]) /\ queue[i].left > 0 /\ queue[i].fuel > 0
    BY <1>11, <2>2 DEF TaskInv, ItemsOK, Holds
  <2>5. (\A i \in 1..Len(inbox) : New(inbox[i])) /\ (\A i \in 1..Len(acts) : New(acts[i]))
    BY <1>11, <2>2 DEF TaskInv, ItemsOK, Holds
  <2>6. ASSUME NEW v \in Worker, wpc'[v] \in Has
        PROVE  New(job'[v]) /\ (wpc'[v] # "post" => job'[v].left > 0 /\ job'[v].fuel > 0)
    <3>1. CASE v = w
      BY <1>5, <1>6, <2>3, <3>1
    <3>2. CASE v # w
      <4>1. wpc'[v] = wpc[v] /\ job'[v] = job[v] /\ job[v].task # t
        BY <1>6, <1>11, <2>6, <3>2
      <4> QED
        BY <2>2, <2>6, <4>1 DEF TaskInv, ItemsOK
    <3> QED
      BY <3>1, <3>2
  <2> QED
    BY <1>1, <2>1, <2>4, <2>5, <2>6 DEF TaskInv, ItemsOK, Job, Timer, New
<1>13. ProgressOK'
  <2>1. ASSUME NEW u \in Tasks PROVE TaskOK(u, program[u], task[u], ran'[u])
    <3>1. TaskOK(u, program[u], task[u], ran[u])
      BY DEF TaskInv, ProgressOK
    <3>2. CASE u # t
      BY <1>7, <3>1, <3>2
    <3>3. CASE u = t
      <4>1. h.stage = task[t].stage
        BY <1>3 DEF JobOK
      <4> QED
        BY <1>7, <1>11, <3>1, <3>3, <4>1 DEF TaskOK
    <3> QED
      BY <3>2, <3>3
  <2> QED
    BY <1>1, <2>1 DEF ProgressOK
<1>14. PendingOK' /\ RevokedOK'
  BY <1>1 DEF TaskInv, PendingOK, RevokedOK, Waits
<1> QED
  BY <1>9, <1>10, <1>12, <1>13, <1>14 DEF TaskInv

LEMMA PostToTasks ==
  ASSUME TaskInv, wpc \in [Worker -> WorkerStates], NEW w \in Worker, PostTo(w)
  PROVE  TaskInv'
<1>1. /\ UNCHANGED <<program, task, ran, fresh, timers, queue, acts, revoked, pending, runQ>>
      /\ Tasks' = Tasks /\ runQ' \in Seq(Tasks)
  BY DEF PostTo, config, taskVars, opVars, timeVars, poolVars, Tasks, TaskInv, TypesOK
<1>2. \A x : (Timer(x)' <=> Timer(x)) /\ (Job(x)' <=> Job(x))
  BY <1>1 DEF Timer, Job
<1>3. \A u : Timed(u)' <=> Timed(u)
  BY <1>1 DEF Timed
<1>4. ProgressOK' /\ PendingOK' /\ RevokedOK'
  BY <1>1 DEF TaskInv, ProgressOK, PendingOK, RevokedOK, Waits
<1>5. CASE /\ wpc[w] = "post" /\ inbox' = Append(inbox, job[w]) /\ wpc' = [wpc EXCEPT ![w] = "poke"]
           /\ job' = job
  <2> DEFINE h == job[w]
  <2>1. Job(h) /\ h.task \in Tasks /\ h \in Jobs
    BY <1>5, ProgramsAssumption DEF TaskInv, TypesOK, ItemsOK, Job, Has, Busy
  <2>2. Worked(h.task)
    BY <1>5 DEF Worked, Has
  <2>3. ~Holds(inbox, h.task)
    BY <2>1, <2>2 DEF TaskInv, PlacesOK, Place, One
  <2> HIDE DEF h
  <2>4. /\ Append(inbox, h) \in Seq(Jobs) /\ Once(Append(inbox, h))
        /\ \A u : Holds(Append(inbox, h), u) <=> Holds(inbox, u) \/ u = h.task
        /\ \A i \in 1..Len(Append(inbox, h)) :
             Append(inbox, h)[i] = h \/ \E k \in 1..Len(inbox) : Append(inbox, h)[i] = inbox[k]
    BY <2>1, <2>3, AppendedJob DEF TaskInv, TypesOK, PlacesOK
  <2>5. inbox' = Append(inbox, h) /\ wpc'[w] = "poke" /\ \A v \in Worker \ {w} : wpc'[v] = wpc[v]
    BY <1>5 DEF h
  <2>6. \A u : Worked(u)' <=> Worked(u) /\ u # h.task
    BY <1>5, <2>5, WorkerLoses DEF Has, TaskInv, h
  <2>7. TypesOK'
    <3>1. \A v \in Worker : job'[v] # None <=> wpc'[v] \in Busy
      BY <1>5, <2>5 DEF TaskInv, TypesOK, Busy
    <3> QED
      BY <1>1, <1>5, <2>4, <2>5, <3>1 DEF TaskInv, TypesOK
  <2>8. PlacesOK'
    <3>1. \A u, v \in Worker : wpc'[u] \in Has /\ wpc'[v] \in Has /\ job'[u].task = job'[v].task => u = v
      BY <1>5, <2>5 DEF TaskInv, PlacesOK, Has
    <3>2. ASSUME NEW t \in Tasks
          PROVE  Place(task'[t].st, Timed(t)', Holds(queue', t), Worked(t)', Holds(inbox', t), Holds(acts', t))
      <4>1. Place(task[t].st, Timed(t), Holds(queue, t), Worked(t), Holds(inbox, t), Holds(acts, t))
        BY DEF TaskInv, PlacesOK
      <4>2. t = h.task => Worked(t)
        BY <2>2 DEF h
      <4>3. Holds(inbox', t) <=> Holds(inbox, t) \/ t = h.task
        BY <2>4, <2>5
      <4> QED
        BY <1>1, <1>3, <2>6, <4>1, <4>2, <4>3 DEF Place, One
    <3> QED
      BY <1>1, <2>4, <2>5, <3>1, <3>2 DEF TaskInv, PlacesOK
  <2>9. ItemsOK'
    <3>1. \A i \in 1..Len(inbox') : Job(inbox'[i])
      BY <2>1, <2>4, <2>5 DEF TaskInv, ItemsOK
    <3>2. \A v \in Worker : wpc'[v] \in Has =>
            Job(job'[v]) /\ (wpc'[v] # "post" => job'[v].left > 0 /\ job'[v].fuel > 0)
      BY <1>5, <2>5 DEF TaskInv, ItemsOK, Has
    <3> QED
      BY <1>1, <1>2, <3>1, <3>2 DEF TaskInv, ItemsOK, Job, Timer
  <2> QED
    BY <1>4, <2>7, <2>8, <2>9 DEF TaskInv
<1>6. CASE /\ wpc[w] = "poke" /\ wpc' = [wpc EXCEPT ![w] = "start"] /\ job' = [job EXCEPT ![w] = None]
           /\ inbox' = inbox
  <2>1. /\ wpc'[w] = "start" /\ job'[w] = None /\ job' \in [Worker -> Jobs \cup {None}]
        /\ \A v \in Worker \ {w} : wpc'[v] = wpc[v] /\ job'[v] = job[v]
    BY <1>6 DEF TaskInv, TypesOK
  <2>2. \A u : Worked(u)' <=> Worked(u)
    BY <1>6, <2>1 DEF Worked, Has
  <2>3. TypesOK'
    <3>1. \A v \in Worker : job'[v] # None <=> wpc'[v] \in Busy
      BY <2>1 DEF TaskInv, TypesOK, Busy
    <3> QED
      BY <1>1, <1>6, <2>1, <3>1 DEF TaskInv, TypesOK
  <2>4. PlacesOK'
    <3>1. \A u, v \in Worker : wpc'[u] \in Has /\ wpc'[v] \in Has /\ job'[u].task = job'[v].task => u = v
      BY <2>1 DEF TaskInv, PlacesOK, Has
    <3>2. ASSUME NEW t \in Tasks
          PROVE  Place(task'[t].st, Timed(t)', Holds(queue', t), Worked(t)', Holds(inbox', t), Holds(acts', t))
      BY <1>1, <1>3, <1>6, <2>2 DEF TaskInv, PlacesOK, Place, One
    <3> QED
      BY <1>1, <1>6, <3>1, <3>2 DEF TaskInv, PlacesOK
  <2>5. ItemsOK'
    <3>1. \A v \in Worker : wpc'[v] \in Has =>
            Job(job'[v]) /\ (wpc'[v] # "post" => job'[v].left > 0 /\ job'[v].fuel > 0)
      BY <2>1 DEF TaskInv, ItemsOK, Has
    <3> QED
      BY <1>1, <1>2, <1>6, <3>1 DEF TaskInv, ItemsOK, Job, Timer
  <2> QED
    BY <1>4, <2>3, <2>4, <2>5 DEF TaskInv
<1> QED
  BY <1>5, <1>6 DEF PostTo

-----------------------------------------------------------------------------
(* A result has arrived.                                                    *)

LEMMA CompleteTasks ==
  ASSUME TaskInv, NEW t \in Tasks, NEW op, NEW left \in Nat, op = task[t].op,
         task[t].st \in {"waiting", "gone"}, Complete(t, op, left), UNCHANGED <<program, ran, revoked>>,
         task[t].st = "waiting" =>
           /\ left > 0 => program[t][task[t].stage].kind = "points"
           /\ program[t][task[t].stage].kind = "points" =>
                ran[t][task[t].stage] + left = program[t][task[t].stage].n
  PROVE  /\ task' \in [Tasks -> TaskSet] /\ runQ' \in Seq(Tasks) /\ Tasks' = Tasks
         /\ \A u \in Tasks \ {t} : task'[u] = task[u]
         /\ task'[t].op = op /\ task'[t].stage = task[t].stage
         /\ task'[t].st = IF task[t].st = "waiting" THEN "ready" ELSE "gone"
         /\ ProgressOK' /\ PendingOK' /\ RevokedOK'
<1>0. Tasks' = Tasks /\ task[t] \in TaskSet /\ runQ \in Seq(Tasks)
  BY DEF Tasks, TaskInv, TypesOK
<1>1. CASE task[t].st = "gone"
  <2>1. UNCHANGED <<task, runQ, pending>>
    BY <1>1 DEF Complete, taskVars
  <2> QED
    BY <1>0, <1>1, <2>1 DEF TaskInv, TypesOK, ProgressOK, PendingOK, RevokedOK, Waits
<1>2. CASE task[t].st = "waiting"
  <2> DEFINE k == [task[t] EXCEPT !.st = "ready", !.left = left]
  <2>1. /\ task' = [task EXCEPT ![t] = k] /\ runQ' = Append(runQ, t) /\ pending' = pending - 1
    BY <1>2 DEF Complete
  <2>2. /\ k \in TaskSet /\ k.op = op /\ k.stage = task[t].stage /\ k.st = "ready" /\ k.left = left
    BY <1>0 DEF TaskSet, TaskStates
  <2> HIDE DEF k
  <2>3. task' \in [Tasks -> TaskSet] /\ task'[t] = k /\ \A u \in Tasks \ {t} : task'[u] = task[u]
    BY <2>1, <2>2 DEF TaskInv, TypesOK
  <2>4. ProgressOK'
    <3>1. ASSUME NEW u \in Tasks PROVE TaskOK(u, program[u], task'[u], ran[u])
      <4>1. TaskOK(u, program[u], task[u], ran[u])
        BY DEF TaskInv, ProgressOK
      <4>2. CASE u # t
        BY <2>3, <4>1, <4>2
      <4>3. CASE u = t
        <5>1. TaskOK(t, program[t], k, ran[t])
          BY <1>2, <2>2, <4>1, <4>3 DEF TaskOK
        <5> QED
          BY <2>3, <4>3, <5>1
      <4> QED
        BY <4>2, <4>3
    <3> QED
      BY <1>0, <3>1 DEF ProgressOK
  <2>5. PendingOK'
    <3>1. Waits' = Waits \ {t} /\ t \in Waits
      BY <1>0, <1>2, <2>2, <2>3 DEF Waits
    <3>2. IsFiniteSet(Waits)
      BY FewTasks DEF TaskInv, Waits
    <3>3. Cardinality(Waits \ {t}) = Cardinality(Waits) - 1
      BY <3>1, <3>2, FS_RemoveElement
    <3> QED
      BY <2>1, <3>1, <3>3 DEF TaskInv, PendingOK
  <2>6. RevokedOK'
    <3>1. ASSUME NEW o \in revoked PROVE \E u \in Tasks : task'[u].op = o /\ task'[u].st = "gone"
      <4>1. PICK u \in Tasks : task[u].op = o /\ task[u].st = "gone"
        BY <3>1 DEF TaskInv, RevokedOK
      <4> QED
        BY <1>2, <2>3, <4>1
    <3> QED
      BY <1>0, <3>1 DEF RevokedOK
  <2>7. runQ' \in Seq(Tasks)
    BY <1>0, <2>1
  <2> QED
    BY <1>0, <1>2, <2>2, <2>3, <2>4, <2>5, <2>6, <2>7
<1> QED
  BY <1>1, <1>2

(* What the operations know stays true when only the task of one of them,   *)
(* and nothing else of it, is no longer waiting.                            *)
LEMMA KnownStill ==
  ASSUME NEW p, NEW k, NEW m, NEW r, m.op = k.op, m.stage = k.stage, m.st = "waiting" => k.st = "waiting"
  PROVE  /\ \A x : TimerOK(x, p, k) => TimerOK(x, p, m)
         /\ \A x : JobOK(x, p, k, r) => JobOK(x, p, m, r)
  BY DEF TimerOK, JobOK

LEMMA ItemsStill ==
  ASSUME TaskInv, UNCHANGED <<program, ran>>,
         \A u \in Tasks : /\ task'[u].op = task[u].op /\ task'[u].stage = task[u].stage
                          /\ task'[u].st = "waiting" => task[u].st = "waiting"
  PROVE  \A x : (Timer(x) => Timer(x)') /\ (Job(x) => Job(x)')
<1>1. Tasks' = Tasks
  BY DEF Tasks
<1>2. ASSUME NEW x, x.task \in Tasks
      PROVE  /\ TimerOK(x, program[x.task], task[x.task]) => TimerOK(x, program[x.task], task'[x.task])
             /\ JobOK(x, program[x.task], task[x.task], ran[x.task])
                  => JobOK(x, program[x.task], task'[x.task], ran[x.task])
  BY <1>2, KnownStill
<1> QED
  BY <1>1, <1>2 DEF Timer, Job

LEMMA FireTimersTasks ==
  ASSUME TaskInv, FireTimers
  PROVE  TaskInv'
<1>1. /\ UNCHANGED <<program, ran, fresh, queue, inbox, acts, job, wpc, revoked>>
      /\ Tasks' = Tasks
  BY DEF FireTimers, config, opVars, inboxVars, poolVars, workVars, Tasks
<1>2. CASE UNCHANGED <<timers, taskVars>>
  <2>1. runQ' \in Seq(Tasks)
    BY <1>2 DEF taskVars, TaskInv, TypesOK
  <2> QED
    BY <1>1, <1>2, <2>1, TaskQuiet DEF tasky, taskVars
<1>3. ASSUME NEW x \in timers, timers' = timers \ {x}, Complete(x.task, x.op, 0)
      PROVE  TaskInv'
  <2>1. x.task \in Tasks /\ TimerOK(x, program[x.task], task[x.task])
    BY DEF TaskInv, ItemsOK, Timer
  <2>2. PICK t \in Tasks : t = x.task
    BY <2>1
  <2>3. Timed(t) /\ x.op = task[t].op /\ task[t].st \in TaskStates
    BY <2>1, <2>2 DEF Timed, TimerOK, TaskInv, TypesOK, TaskSet
  <2>4. /\ ~Holds(queue, t) /\ ~Worked(t) /\ ~Holds(inbox, t) /\ ~Holds(acts, t)
        /\ task[t].st \in {"waiting", "gone"}
    BY <2>3 DEF TaskInv, PlacesOK, Place, One, TaskStates
  <2>5. task[t].st = "waiting" => program[t][task[t].stage].kind = "sleep"
    BY <2>1, <2>2 DEF TimerOK
  <2>6. /\ task' \in [Tasks -> TaskSet] /\ runQ' \in Seq(Tasks)
        /\ \A u \in Tasks \ {t} : task'[u] = task[u]
        /\ task'[t].op = x.op /\ task'[t].stage = task[t].stage
        /\ task'[t].st = IF task[t].st = "waiting" THEN "ready" ELSE "gone"
        /\ ProgressOK' /\ PendingOK' /\ RevokedOK'
    <3>1. Complete(t, x.op, 0)
      BY <1>3, <2>2
    <3>2. task[t].st = "waiting" =>
           /\ 0 > 0 => program[t][task[t].stage].kind = "points"
           /\ program[t][task[t].stage].kind = "points" =>
                ran[t][task[t].stage] + 0 = program[t][task[t].stage].n
      BY <2>5
    <3> QED
      BY <1>1, <2>3, <2>4, <3>1, <3>2, CompleteTasks
  <2>7. \A u : /\ Worked(u)' <=> Worked(u)
               /\ Timed(u)' <=> Timed(u) /\ u # t
    <3>1. \A y \in timers : y.task = t => y = x
      BY <2>2 DEF TaskInv, PlacesOK
    <3> QED
      BY <1>1, <1>3, <2>2, <3>1 DEF Worked, Timed
  <2>8. TypesOK'
    BY <1>1, <1>3, <2>6 DEF TaskInv, TypesOK
  <2>9. PlacesOK'
    <3>1. ASSUME NEW u \in Tasks
          PROVE  Place(task'[u].st, Timed(u)', Holds(queue, u), Worked(u)', Holds(inbox, u), Holds(acts, u))
      <4>1. Place(task[u].st, Timed(u), Holds(queue, u), Worked(u), Holds(inbox, u), Holds(acts, u))
        BY DEF TaskInv, PlacesOK
      <4>2. CASE u # t
        BY <2>6, <2>7, <4>1, <4>2 DEF Place, One
      <4>3. CASE u = t
        BY <2>4, <2>6, <2>7, <4>1, <4>3 DEF Place, One
      <4> QED
        BY <4>2, <4>3
    <3>2. \A y, z \in timers' : y.task = z.task => y = z
      BY <1>3 DEF TaskInv, PlacesOK
    <3> QED
      BY <1>1, <3>1, <3>2 DEF TaskInv, PlacesOK
  <2>10. ItemsOK'
    <3>1. \A y : (Timer(y) => Timer(y)') /\ (Job(y) => Job(y)')
      BY <1>1, <2>4, <2>6, <2>3, ItemsStill
    <3> QED
      BY <1>1, <1>3, <3>1 DEF TaskInv, ItemsOK, Timer, Job
  <2> QED
    BY <2>6, <2>8, <2>9, <2>10 DEF TaskInv
<1>4. CASE timers # {} /\ LeftMost(timers).at <= now
  <2>1. PICK x : x = LeftMost(timers)
    OBVIOUS
  <2>2. x \in timers
    BY <1>4, <2>1, LeftMostIsFirst DEF TaskInv, TypesOK
  <2>3. timers' = timers \ {x} /\ Complete(x.task, x.op, 0)
    BY <1>4, <2>1 DEF FireTimers
  <2> QED
    BY <1>3, <2>2, <2>3
<1> QED
  BY <1>2, <1>4 DEF FireTimers

LEMMA RunActsTasks ==
  ASSUME TaskInv, RunActs
  PROVE  TaskInv'
<1>1. /\ UNCHANGED <<program, ran, fresh, timers, queue, inbox, job, wpc, revoked>>
      /\ Tasks' = Tasks
  BY DEF RunActs, config, timeVars, inboxVars, poolVars, workVars, Tasks
<1>2. CASE UNCHANGED <<acts, taskVars>>
  <2>1. runQ' \in Seq(Tasks)
    BY <1>2 DEF taskVars, TaskInv, TypesOK
  <2> QED
    BY <1>1, <1>2, <2>1, TaskQuiet DEF tasky, taskVars
<1>3. ASSUME NEW x, acts # <<>>, x = Head(acts), acts' = Tail(acts), Complete(x.task, x.op, x.left)
      PROVE  TaskInv'
  <2>0. /\ x \in Jobs /\ Tail(acts) \in Seq(Jobs) /\ Once(Tail(acts)) /\ Holds(acts, x.task)
        /\ \A u : Holds(Tail(acts), u) <=> Holds(acts, u) /\ u # x.task
        /\ x = acts[1] /\ 1 \in 1..Len(acts)
        /\ \A i \in 1..Len(Tail(acts)) : \E k \in 1..Len(acts) : Tail(acts)[i] = acts[k]
    BY <1>3, TakenJob DEF TaskInv, TypesOK, PlacesOK
  <2>1. x.task \in Tasks /\ JobOK(x, program[x.task], task[x.task], ran[x.task]) /\ x.left \in Nat
    BY <2>0 DEF TaskInv, ItemsOK, Job, Jobs
  <2>2. PICK t \in Tasks : t = x.task
    BY <2>1
  <2>3. Holds(acts, t) /\ x.op = task[t].op /\ x.stage = task[t].stage /\ task[t].st \in TaskStates
    BY <2>0, <2>1, <2>2 DEF JobOK, TaskInv, TypesOK, TaskSet
  <2>4. /\ ~Holds(queue, t) /\ ~Worked(t) /\ ~Holds(inbox, t) /\ ~Timed(t)
        /\ task[t].st \in {"waiting", "gone"}
    BY <2>3 DEF TaskInv, PlacesOK, Place, One, TaskStates
  <2>5. task[t].st = "waiting" =>
          /\ program[t][task[t].stage].kind = "points"
          /\ ran[t][task[t].stage] + x.left = program[t][task[t].stage].n
    BY <2>1, <2>2, <2>3 DEF JobOK
  <2>6. /\ task' \in [Tasks -> TaskSet] /\ runQ' \in Seq(Tasks)
        /\ \A u \in Tasks \ {t} : task'[u] = task[u]
        /\ task'[t].op = x.op /\ task'[t].stage = task[t].stage
        /\ task'[t].st = IF task[t].st = "waiting" THEN "ready" ELSE "gone"
        /\ ProgressOK' /\ PendingOK' /\ RevokedOK'
    <3>1. Complete(t, x.op, x.left)
      BY <1>3, <2>2
    <3> QED
      BY <1>1, <2>1, <2>3, <2>4, <2>5, <3>1, CompleteTasks
  <2>7. \A u : (Worked(u)' <=> Worked(u)) /\ (Timed(u)' <=> Timed(u))
    BY <1>1 DEF Worked, Timed
  <2>8. TypesOK'
    BY <1>1, <1>3, <2>0, <2>6 DEF TaskInv, TypesOK
  <2>9. PlacesOK'
    <3>1. ASSUME NEW u \in Tasks
          PROVE  Place(task'[u].st, Timed(u)', Holds(queue, u), Worked(u)', Holds(inbox, u), Holds(acts', u))
      <4>1. Place(task[u].st, Timed(u), Holds(queue, u), Worked(u), Holds(inbox, u), Holds(acts, u))
        BY DEF TaskInv, PlacesOK
      <4>2. Holds(acts', u) <=> Holds(acts, u) /\ u # t
        BY <1>3, <2>0, <2>2
      <4>3. CASE u # t
        BY <2>6, <2>7, <4>1, <4>2, <4>3 DEF Place, One
      <4>4. CASE u = t
        BY <2>4, <2>6, <2>7, <4>1, <4>2, <4>4 DEF Place, One
      <4> QED
        BY <4>3, <4>4
    <3> QED
      BY <1>1, <1>3, <2>0, <3>1 DEF TaskInv, PlacesOK
  <2>10. ItemsOK'
    <3>1. \A y : (Timer(y) => Timer(y)') /\ (Job(y) => Job(y)')
      BY <1>1, <2>4, <2>6, <2>3, ItemsStill
    <3>2. \A i \in 1..Len(acts') : Job(acts'[i])
      BY <1>3, <2>0 DEF TaskInv, ItemsOK
    <3> DEFINE New(y) == y.task \in Tasks /\ JobOK(y, program[y.task], task'[y.task], ran[y.task])
    <3>3. \A y : Job(y) => New(y)
      BY <1>1, <3>1 DEF Job
    <3>4. \A i \in 1..Len(acts') : New(acts'[i])
      BY <3>2, <3>3
    <3> QED
      BY <1>1, <3>1, <3>4 DEF TaskInv, ItemsOK, Timer, Job
  <2> QED
    BY <2>6, <2>8, <2>9, <2>10 DEF TaskInv
<1>4. CASE acts # <<>> /\ acts' = Tail(acts) /\ Complete(Head(acts).task, Head(acts).op, Head(acts).left)
  <2>1. PICK x : x = Head(acts)
    OBVIOUS
  <2> QED
    BY <1>3, <1>4, <2>1
<1> QED
  BY <1>2, <1>4 DEF RunActs

(* The list is taken out of the inbox.                                      *)
LEMMA DrainInboxTasks ==
  ASSUME TaskInv, DrainInbox, pc # "acts" => acts = <<>>
  PROVE  TaskInv'
<1>1. /\ UNCHANGED <<program, task, ran, fresh, timers, queue, job, wpc, revoked, pending, runQ>>
      /\ Tasks' = Tasks /\ acts = <<>> /\ runQ' \in Seq(Tasks)
  BY DEF DrainInbox, config, timeVars, taskVars, poolVars, workVars, Tasks, TaskInv, TypesOK
<1>2. CASE UNCHANGED <<acts, inbox>>
  BY <1>1, <1>2, TaskQuiet DEF tasky
<1>3. CASE acts' = inbox /\ inbox' = <<>>
  <2>1. \A u : (Worked(u)' <=> Worked(u)) /\ (Timed(u)' <=> Timed(u))
    BY <1>1 DEF Worked, Timed
  <2>2. TypesOK'
    BY <1>1, <1>3, NoJobs DEF TaskInv, TypesOK
  <2>3. PlacesOK'
    <3>1. ASSUME NEW u \in Tasks
          PROVE  Place(task[u].st, Timed(u)', Holds(queue, u), Worked(u)', Holds(inbox', u), Holds(acts', u))
      <4>1. Place(task[u].st, Timed(u), Holds(queue, u), Worked(u), Holds(inbox, u), Holds(acts, u))
        BY DEF TaskInv, PlacesOK
      <4>2. ~Holds(acts, u) /\ ~Holds(inbox', u) /\ (Holds(acts', u) <=> Holds(inbox, u))
        BY <1>1, <1>3, NoJobs
      <4> QED
        BY <2>1, <4>1, <4>2 DEF Place, One
    <3> QED
      BY <1>1, <1>3, <3>1, NoJobs DEF TaskInv, PlacesOK
  <2>4. ItemsOK'
    BY <1>1, <1>3 DEF TaskInv, ItemsOK, Timer, Job
  <2>5. ProgressOK' /\ PendingOK' /\ RevokedOK'
    BY <1>1 DEF TaskInv, ProgressOK, PendingOK, RevokedOK, Waits
  <2> QED
    BY <2>2, <2>3, <2>4, <2>5 DEF TaskInv
<1> QED
  BY <1>2, <1>3 DEF DrainInbox

-----------------------------------------------------------------------------
(* The next stage of a task.                                                *)

Started(t, stage) == [st |-> "waiting", stage |-> stage, left |-> 0, op |-> <<t, fresh + 1>>]

(* What is left of the chain, or the whole of the next stage.               *)
LEMMA NextStage ==
  ASSUME TaskInv, NEW t \in Tasks, task[t].st = "ready",
         NEW stage, stage = IF task[t].left > 0 THEN task[t].stage ELSE task[t].stage + 1
  PROVE  /\ stage > Len(program[t]) => task[t].left = 0 /\ task[t].stage = Len(program[t])
         /\ stage <= Len(program[t]) =>
              /\ stage \in 1..Len(program[t]) /\ program[t][stage] \in Stages
              /\ task[t].left > 0 => program[t][stage].kind = "points"
              /\ \A i \in 1..Len(program[t]) : program[t][i].kind = "points" =>
                   /\ i < stage => ran[t][i] = program[t][i].n
                   /\ i > stage => ran[t][i] = 0
              /\ program[t][stage].kind = "points" =>
                   /\ task[t].left > 0 => ran[t][stage] + task[t].left = program[t][stage].n
                   /\ ~(task[t].left > 0) => ran[t][stage] = 0 /\ program[t][stage].n > 0
<1>1. /\ Len(program[t]) \in Nat /\ \A i \in 1..Len(program[t]) : program[t][i] \in Stages
      /\ \A i \in 1..Len(program[t]) : program[t][i].kind = "points" => program[t][i].n > 0
  BY ProgramShape DEF TaskInv
<1>2. task[t].left \in Nat /\ task[t].stage \in Nat
  BY DEF TaskInv, TypesOK, TaskSet
<1>3. TaskOK(t, program[t], task[t], ran[t]) /\ ran[t] \in [1..Len(program[t]) -> Nat]
  BY DEF TaskInv, ProgressOK, TypesOK
<1>4. /\ task[t].stage <= Len(program[t])
      /\ task[t].left > 0 => task[t].stage > 0 /\ program[t][task[t].stage].kind = "points"
      /\ \A i \in 1..Len(program[t]) : program[t][i].kind = "points" =>
           /\ i < task[t].stage => ran[t][i] = program[t][i].n
           /\ i > task[t].stage => ran[t][i] = 0
           /\ i = task[t].stage => ran[t][i] + task[t].left = program[t][i].n
  BY <1>3 DEF TaskOK
<1>5. CASE task[t].left > 0
  BY <1>1, <1>2, <1>4, <1>5
<1>6. CASE ~(task[t].left > 0)
  <2>1. task[t].left = 0 /\ stage = task[t].stage + 1
    BY <1>2, <1>6
  <2>2. \A i \in 1..Len(program[t]) : ran[t][i] \in Nat /\ ran[t][i] + 0 = ran[t][i]
    BY <1>3
  <2>3. \A i \in 1..Len(program[t]) : program[t][i].kind = "points" =>
           /\ i < stage => ran[t][i] = program[t][i].n
           /\ i > stage => ran[t][i] = 0
           /\ i = stage => ran[t][i] = 0
    <3> SUFFICES ASSUME NEW i \in 1..Len(program[t]), program[t][i].kind = "points"
                 PROVE  /\ i < stage => ran[t][i] = program[t][i].n
                        /\ i > stage => ran[t][i] = 0
                        /\ i = stage => ran[t][i] = 0
      OBVIOUS
    <3>1. i < stage => i < task[t].stage \/ i = task[t].stage
      BY <1>2, <2>1
    <3>2. i > stage \/ i = stage => i > task[t].stage
      BY <1>2, <2>1
    <3> QED
      BY <1>4, <2>1, <2>2, <3>1, <3>2
  <2> QED
    BY <1>1, <1>2, <1>4, <2>1, <2>3
<1> QED
  BY <1>5, <1>6

LEMMA StartTasks ==
  ASSUME TaskInv, NEW t \in Tasks, task[t].st = "ready", NEW stage \in 1..Len(program[t]),
         task' = [task EXCEPT ![t] = Started(t, stage)], pending' = pending + 1, fresh' = fresh + 1,
         UNCHANGED <<program, revoked>>
  PROVE  /\ Tasks' = Tasks /\ task' \in [Tasks -> TaskSet] /\ fresh' \in Nat
         /\ task'[t] = Started(t, stage) /\ \A u \in Tasks \ {t} : task'[u] = task[u]
         /\ PendingOK' /\ RevokedOK'
<1>1. Tasks' = Tasks /\ fresh \in Nat /\ Tasks \subseteq Nat /\ stage \in Nat
  <2>1. Len(program[t]) \in Nat /\ Tasks = 1..Len(program) /\ Len(program) \in Nat
    BY ProgramShape DEF TaskInv
  <2> QED
    BY <2>1 DEF Tasks, TaskInv, TypesOK
<1>2. Started(t, stage) \in TaskSet /\ fresh' \in Nat
  BY <1>1 DEF Started, TaskSet, TaskStates
<1>3. /\ task' \in [Tasks -> TaskSet] /\ task'[t] = Started(t, stage)
      /\ \A u \in Tasks \ {t} : task'[u] = task[u]
  BY <1>2 DEF TaskInv, TypesOK
<1>4. task'[t].st = "waiting"
  BY <1>3 DEF Started
<1>5. PendingOK'
  <2>1. Waits' = Waits \cup {t} /\ t \notin Waits
    BY <1>1, <1>3, <1>4 DEF Waits
  <2>2. IsFiniteSet(Waits)
    BY FewTasks DEF TaskInv, Waits
  <2>3. Cardinality(Waits \cup {t}) = Cardinality(Waits) + 1
    BY <2>1, <2>2, FS_AddElement
  <2> QED
    BY <2>1, <2>3 DEF TaskInv, PendingOK
<1>6. RevokedOK'
  <2>1. ASSUME NEW o \in revoked PROVE \E u \in Tasks : task'[u].op = o /\ task'[u].st = "gone"
    <3>1. PICK u \in Tasks : task[u].op = o /\ task[u].st = "gone"
      BY <2>1 DEF TaskInv, RevokedOK
    <3> QED
      BY <1>3, <3>1
  <2> QED
    BY <1>1, <2>1 DEF RevokedOK
<1> QED
  BY <1>1, <1>2, <1>3, <1>5, <1>6

(* A ready task has no operation anywhere.                                  *)
LEMMA ReadyNowhere ==
  ASSUME TaskInv, NEW t \in Tasks, task[t].st \in {"ready", "pinned"}
  PROVE  /\ ~Timed(t) /\ ~Holds(queue, t) /\ ~Worked(t) /\ ~Holds(inbox, t) /\ ~Holds(acts, t)
         /\ \A x \in timers : x.task # t
         /\ \A i \in 1..Len(queue) : queue[i].task # t
         /\ \A i \in 1..Len(inbox) : inbox[i].task # t
         /\ \A i \in 1..Len(acts) : acts[i].task # t
         /\ \A w \in Worker : wpc[w] \in Has => job[w].task # t
<1>1. ~Timed(t) /\ ~Holds(queue, t) /\ ~Worked(t) /\ ~Holds(inbox, t) /\ ~Holds(acts, t)
  BY DEF TaskInv, PlacesOK, Place
<1> QED
  BY <1>1 DEF Timed, Holds, Worked

(* The workers, when nobody takes or leaves a job.                          *)
LEMMA WorkersStill ==
  ASSUME TaskInv, job' = job,
         \A w \in Worker : wpc'[w] = wpc[w] \/ (wpc[w] \notin Busy /\ wpc'[w] \notin Busy)
  PROVE  /\ \A w \in Worker : job[w] # None <=> wpc'[w] \in Busy
         /\ \A u : Worked(u)' <=> Worked(u)
         /\ \A v, w \in Worker : wpc'[v] \in Has /\ wpc'[w] \in Has /\ job[v].task = job[w].task => v = w
         /\ \A w \in Worker : wpc'[w] \in Has => wpc'[w] = wpc[w]
<1>1. \A w \in Worker : /\ wpc'[w] \in Has <=> wpc[w] \in Has
                        /\ wpc'[w] \in Has => wpc'[w] = wpc[w]
                        /\ wpc'[w] \in Busy <=> wpc[w] \in Busy
  BY DEF Has, Busy
<1> QED
  BY <1>1 DEF TaskInv, TypesOK, PlacesOK, Worked

(* What a start leaves as it is.                                            *)
startVars == <<program, revoked, acts, job>>

LEMMA StartProgress ==
  ASSUME TaskInv, NEW t \in Tasks, task[t].st = "ready",
         NEW stage, stage = IF task[t].left > 0 THEN task[t].stage ELSE task[t].stage + 1,
         stage <= Len(program[t]), UNCHANGED program,
         task'[t] = Started(t, stage), \A u \in Tasks \ {t} : task'[u] = task[u] /\ ran'[u] = ran[u],
         \A i \in 1..Len(program[t]) : i # stage => ran'[t][i] = ran[t][i]
  PROVE  ProgressOK'
<1>1. /\ stage \in 1..Len(program[t])
      /\ \A i \in 1..Len(program[t]) : program[t][i].kind = "points" =>
           /\ i < stage => ran[t][i] = program[t][i].n
           /\ i > stage => ran[t][i] = 0
  BY NextStage
<1>2. Len(program[t]) \in Nat /\ Tasks' = Tasks
  BY ProgramShape DEF TaskInv, Tasks
<1>3. \A i \in 1..Len(program[t]) : i < stage \/ i > stage => i # stage
  BY <1>1, <1>2
<1>4. TaskOK(t, program[t], task'[t], ran'[t])
  BY <1>1, <1>2, <1>3 DEF TaskOK, Started
<1>5. \A u \in Tasks \ {t} : TaskOK(u, program[u], task'[u], ran'[u])
  BY DEF TaskInv, ProgressOK
<1> QED
  BY <1>2, <1>4, <1>5 DEF ProgressOK

(* A job that a worker will run.                                            *)
LEMMA QueueTasks ==
  ASSUME TaskInv, NEW t \in Tasks, task[t].st = "ready",
         NEW stage, stage = IF task[t].left > 0 THEN task[t].stage ELSE task[t].stage + 1,
         stage <= Len(program[t]), program[t][stage].kind = "points", NEW j \in Jobs,
         j.task = t, j.op = <<t, fresh + 1>>, j.stage = stage, j.fuel > 0,
         j.left = IF task[t].left > 0 THEN task[t].left ELSE program[t][stage].n,
         task' = [task EXCEPT ![t] = Started(t, stage)], pending' = pending + 1, fresh' = fresh + 1,
         runQ' \in Seq(Tasks), UNCHANGED startVars,
         queue' = Append(queue, j), UNCHANGED <<timers, inbox, ran>>,
         \A w \in Worker : wpc'[w] = wpc[w] \/ (wpc[w] \notin Busy /\ wpc'[w] \notin Busy)
  PROVE  TaskInv'
<1> USE DEF startVars
<1>1. /\ stage \in 1..Len(program[t])
      /\ task[t].left > 0 => ran[t][stage] + task[t].left = program[t][stage].n
      /\ ~(task[t].left > 0) => ran[t][stage] = 0 /\ program[t][stage].n > 0
      /\ program[t][stage] \in Stages
  BY NextStage
<1>2. /\ Tasks' = Tasks /\ task' \in [Tasks -> TaskSet] /\ fresh' \in Nat
      /\ task'[t] = Started(t, stage) /\ \A u \in Tasks \ {t} : task'[u] = task[u]
      /\ PendingOK' /\ RevokedOK'
  BY <1>1, StartTasks
<1>3. /\ ~Timed(t) /\ ~Holds(queue, t) /\ ~Worked(t) /\ ~Holds(inbox, t) /\ ~Holds(acts, t)
      /\ \A x \in timers : x.task # t
      /\ \A i \in 1..Len(queue) : queue[i].task # t
      /\ \A i \in 1..Len(inbox) : inbox[i].task # t
      /\ \A i \in 1..Len(acts) : acts[i].task # t
      /\ \A w \in Worker : wpc[w] \in Has => job[w].task # t
  BY ReadyNowhere
<1>4. /\ \A w \in Worker : job[w] # None <=> wpc'[w] \in Busy
      /\ \A u : Worked(u)' <=> Worked(u)
      /\ \A v, w \in Worker : wpc'[v] \in Has /\ wpc'[w] \in Has /\ job[v].task = job[w].task => v = w
      /\ \A w \in Worker : wpc'[w] \in Has => wpc'[w] = wpc[w]
  BY WorkersStill
<1>5. /\ Append(queue, j) \in Seq(Jobs) /\ Once(Append(queue, j))
      /\ \A u : Holds(Append(queue, j), u) <=> Holds(queue, u) \/ u = j.task
      /\ \A i \in 1..Len(Append(queue, j)) :
           Append(queue, j)[i] = j \/ \E k \in 1..Len(queue) : Append(queue, j)[i] = queue[k]
  BY <1>3, AppendedJob DEF TaskInv, TypesOK, PlacesOK
<1>6. \A u : Timed(u)' <=> Timed(u)
  BY DEF Timed
<1>7. TypesOK'
  BY <1>2, <1>4, <1>5 DEF TaskInv, TypesOK
<1>8. PlacesOK'
  <2>1. ASSUME NEW u \in Tasks
        PROVE  Place(task'[u].st, Timed(u)', Holds(queue', u), Worked(u)', Holds(inbox, u), Holds(acts, u))
    <3>1. Place(task[u].st, Timed(u), Holds(queue, u), Worked(u), Holds(inbox, u), Holds(acts, u))
      BY DEF TaskInv, PlacesOK
    <3>2. Holds(queue', u) <=> Holds(queue, u) \/ u = t
      BY <1>5
    <3>3. CASE u # t
      BY <1>2, <1>4, <1>6, <3>1, <3>2, <3>3 DEF Place, One
    <3>4. CASE u = t
      <4>1. task'[t].st = "waiting"
        BY <1>2 DEF Started
      <4> QED
        BY <1>3, <1>4, <1>6, <3>2, <3>4, <4>1 DEF Place, One
    <3> QED
      BY <3>3, <3>4
  <2> QED
    BY <1>2, <1>4, <1>5, <2>1 DEF TaskInv, PlacesOK
<1> DEFINE NewJob(x) == x.task \in Tasks /\ JobOK(x, program[x.task], task'[x.task], ran[x.task])
           NewTimer(x) == x.task \in Tasks /\ TimerOK(x, program[x.task], task'[x.task])
<1>9. \A x : x.task # t => (NewJob(x) <=> Job(x)) /\ (NewTimer(x) <=> Timer(x))
  BY <1>2 DEF Job, Timer
<1>10. NewJob(j) /\ j.left > 0
  <2>1. ran[t][stage] + j.left = program[t][stage].n /\ j.left > 0
    <3>1. ran[t][stage] \in Nat /\ program[t][stage].n \in Nat
      BY <1>1 DEF TaskInv, TypesOK, Stages
    <3> QED
      BY SMTT(30), <1>1, <3>1
  <2> QED
    BY <1>1, <1>2, <2>1 DEF JobOK, Started
<1> HIDE DEF NewJob, NewTimer
<1>11. ItemsOK'
  <2>1. \A i \in 1..Len(queue') : NewJob(queue'[i]) /\ queue'[i].left > 0 /\ queue'[i].fuel > 0
    BY <1>3, <1>5, <1>9, <1>10 DEF TaskInv, ItemsOK
  <2>2. /\ \A x \in timers : NewTimer(x)
        /\ \A i \in 1..Len(inbox) : NewJob(inbox[i])
        /\ \A i \in 1..Len(acts) : NewJob(acts[i])
    BY <1>3, <1>9 DEF TaskInv, ItemsOK
  <2>3. \A w \in Worker : wpc'[w] \in Has =>
          NewJob(job[w]) /\ (wpc'[w] # "post" => job[w].left > 0 /\ job[w].fuel > 0)
    BY <1>3, <1>4, <1>9 DEF TaskInv, ItemsOK
  <2> QED
    BY <1>2, <2>1, <2>2, <2>3 DEF ItemsOK, Job, Timer, NewJob, NewTimer
<1>12. ProgressOK'
  BY <1>2, StartProgress
<1> QED
  BY <1>2, <1>7, <1>8, <1>11, <1>12 DEF TaskInv

(* With no worker: the job is done, its result posted.                      *)
LEMMA PostTasks ==
  ASSUME TaskInv, NEW t \in Tasks, task[t].st = "ready",
         NEW stage, stage = IF task[t].left > 0 THEN task[t].stage ELSE task[t].stage + 1,
         stage <= Len(program[t]), program[t][stage].kind = "points", NEW j \in Jobs,
         j.task = t, j.op = <<t, fresh + 1>>, j.stage = stage, j.left = 0, NEW done,
         done = IF task[t].left > 0 THEN task[t].left ELSE program[t][stage].n,
         ran' = [ran EXCEPT ![t][stage] = @ + done],
         task' = [task EXCEPT ![t] = Started(t, stage)], pending' = pending + 1, fresh' = fresh + 1,
         runQ' \in Seq(Tasks), UNCHANGED startVars,
         inbox' = Append(inbox, j), UNCHANGED <<timers, queue>>,
         \A w \in Worker : wpc'[w] = wpc[w] \/ (wpc[w] \notin Busy /\ wpc'[w] \notin Busy)
  PROVE  TaskInv'
<1> USE DEF startVars
<1>1. /\ stage \in 1..Len(program[t])
      /\ task[t].left > 0 => ran[t][stage] + task[t].left = program[t][stage].n
      /\ ~(task[t].left > 0) => ran[t][stage] = 0 /\ program[t][stage].n > 0
      /\ program[t][stage] \in Stages
  BY NextStage
<1>2. /\ Tasks' = Tasks /\ task' \in [Tasks -> TaskSet] /\ fresh' \in Nat
      /\ task'[t] = Started(t, stage) /\ \A u \in Tasks \ {t} : task'[u] = task[u]
      /\ PendingOK' /\ RevokedOK'
  BY <1>1, StartTasks
<1>3. /\ ~Timed(t) /\ ~Holds(queue, t) /\ ~Worked(t) /\ ~Holds(inbox, t) /\ ~Holds(acts, t)
      /\ \A x \in timers : x.task # t
      /\ \A i \in 1..Len(queue) : queue[i].task # t
      /\ \A i \in 1..Len(inbox) : inbox[i].task # t
      /\ \A i \in 1..Len(acts) : acts[i].task # t
      /\ \A w \in Worker : wpc[w] \in Has => job[w].task # t
  BY ReadyNowhere
<1>4. /\ \A w \in Worker : job[w] # None <=> wpc'[w] \in Busy
      /\ \A u : Worked(u)' <=> Worked(u)
      /\ \A v, w \in Worker : wpc'[v] \in Has /\ wpc'[w] \in Has /\ job[v].task = job[w].task => v = w
      /\ \A w \in Worker : wpc'[w] \in Has => wpc'[w] = wpc[w]
  BY WorkersStill
<1>5. /\ Append(inbox, j) \in Seq(Jobs) /\ Once(Append(inbox, j))
      /\ \A u : Holds(Append(inbox, j), u) <=> Holds(inbox, u) \/ u = j.task
      /\ \A i \in 1..Len(Append(inbox, j)) :
           Append(inbox, j)[i] = j \/ \E k \in 1..Len(inbox) : Append(inbox, j)[i] = inbox[k]
  BY <1>3, AppendedJob DEF TaskInv, TypesOK, PlacesOK
<1>6. \A u : Timed(u)' <=> Timed(u)
  BY DEF Timed
<1>7. /\ ran[t][stage] \in Nat /\ done \in Nat /\ ran[t][stage] + done = program[t][stage].n
  <2>1. ran[t][stage] \in Nat /\ program[t][stage].n \in Nat /\ task[t].left \in Nat
    BY <1>1 DEF TaskInv, TypesOK, Stages, TaskSet
  <2> QED
    BY <1>1, <2>1
<1>8. /\ ran'[t] \in [1..Len(program[t]) -> Nat] /\ ran'[t][stage] = program[t][stage].n
      /\ \A i \in 1..Len(program[t]) : i # stage => ran'[t][i] = ran[t][i]
      /\ \A u \in Tasks \ {t} : ran'[u] = ran[u]
  <2>1. ran[t] \in [1..Len(program[t]) -> Nat] /\ ran = [u \in Tasks |-> ran[u]]
    BY DEF TaskInv, TypesOK
  <2>2. ran'[t] = [ran[t] EXCEPT ![stage] = @ + done] /\ \A u \in Tasks \ {t} : ran'[u] = ran[u]
    BY <2>1
  <2>3. ran[t][stage] + done \in Nat
    BY <1>7
  <2> QED
    BY <1>1, <1>7, <2>1, <2>2, <2>3
<1>15. ran' = [u \in Tasks |-> ran'[u]]
  BY DEF TaskInv, TypesOK
<1>9. TypesOK'
  <2>1. ASSUME NEW u \in Tasks PROVE ran'[u] \in [1..Len(program[u]) -> Nat]
    <3>1. CASE u = t
      BY <1>8, <3>1
    <3>2. CASE u # t
      <4>1. ran[u] \in [1..Len(program[u]) -> Nat]
        BY DEF TaskInv, TypesOK
      <4> QED
        BY <1>8, <3>2, <4>1
    <3> QED
      BY <3>1, <3>2
  <2> QED
    BY <1>2, <1>4, <1>5, <1>15, <2>1 DEF TaskInv, TypesOK
<1>10. PlacesOK'
  <2>1. ASSUME NEW u \in Tasks
        PROVE  Place(task'[u].st, Timed(u)', Holds(queue, u), Worked(u)', Holds(inbox', u), Holds(acts, u))
    <3>1. Place(task[u].st, Timed(u), Holds(queue, u), Worked(u), Holds(inbox, u), Holds(acts, u))
      BY DEF TaskInv, PlacesOK
    <3>2. Holds(inbox', u) <=> Holds(inbox, u) \/ u = t
      BY <1>5
    <3>3. CASE u # t
      BY <1>2, <1>4, <1>6, <3>1, <3>2, <3>3 DEF Place, One
    <3>4. CASE u = t
      <4>1. task'[t].st = "waiting"
        BY <1>2 DEF Started
      <4> QED
        BY <1>3, <1>4, <1>6, <3>2, <3>4, <4>1 DEF Place, One
    <3> QED
      BY <3>3, <3>4
  <2> QED
    BY <1>2, <1>4, <1>5, <2>1 DEF TaskInv, PlacesOK
<1> DEFINE NewJob(x) == x.task \in Tasks /\ JobOK(x, program[x.task], task'[x.task], ran'[x.task])
           NewTimer(x) == x.task \in Tasks /\ TimerOK(x, program[x.task], task'[x.task])
<1>11. \A x : x.task # t => (NewJob(x) <=> Job(x)) /\ (NewTimer(x) <=> Timer(x))
  BY <1>2, <1>8 DEF Job, Timer
<1>12. NewJob(j)
  <2>1. ran'[t][stage] + j.left = program[t][stage].n
    <3>1. program[t][stage].n \in Nat
      BY <1>1 DEF Stages
    <3>2. PICK m : m = ran'[t][stage]
      OBVIOUS
    <3>3. m = program[t][stage].n
      BY <1>8, <3>2
    <3>4. m + j.left = program[t][stage].n
      BY <3>1, <3>3
    <3> QED
      BY <3>2, <3>4
  <2> QED
    BY <1>1, <1>2, <2>1 DEF JobOK, Started
<1> HIDE DEF NewJob, NewTimer
<1>13. ItemsOK'
  <2>1. \A i \in 1..Len(inbox') : NewJob(inbox'[i])
    BY SMTT(30), <1>3, <1>5, <1>11, <1>12 DEF TaskInv, ItemsOK
  <2>2. /\ \A x \in timers : NewTimer(x)
        /\ \A i \in 1..Len(queue) : NewJob(queue[i]) /\ queue[i].left > 0 /\ queue[i].fuel > 0
        /\ \A i \in 1..Len(acts) : NewJob(acts[i])
    BY <1>3, <1>11 DEF TaskInv, ItemsOK
  <2>3. \A w \in Worker : wpc'[w] \in Has =>
          NewJob(job[w]) /\ (wpc'[w] # "post" => job[w].left > 0 /\ job[w].fuel > 0)
    BY <1>3, <1>4, <1>11 DEF TaskInv, ItemsOK
  <2> QED
    BY ZenonT(30), <1>2, <2>1, <2>2, <2>3 DEF ItemsOK, Job, Timer, NewJob, NewTimer
<1>14. ProgressOK'
  BY SMTT(30), <1>2, <1>8, StartProgress
<1> QED
  BY <1>2, <1>9, <1>10, <1>13, <1>14 DEF TaskInv

(* A sleep.                                                                 *)
LEMMA SleepTasks ==
  ASSUME TaskInv, NEW t \in Tasks, task[t].st = "ready",
         NEW stage, stage = IF task[t].left > 0 THEN task[t].stage ELSE task[t].stage + 1,
         stage <= Len(program[t]), program[t][stage].kind = "sleep", NEW x \in TimerSet,
         x.task = t, x.op = <<t, fresh + 1>>,
         task' = [task EXCEPT ![t] = Started(t, stage)], pending' = pending + 1, fresh' = fresh + 1,
         runQ' \in Seq(Tasks), UNCHANGED startVars,
         timers' = timers \cup {x}, UNCHANGED <<queue, inbox, ran>>,
         \A w \in Worker : wpc'[w] = wpc[w] \/ (wpc[w] \notin Busy /\ wpc'[w] \notin Busy)
  PROVE  TaskInv'
<1> USE DEF startVars
<1>1. stage \in 1..Len(program[t])
  BY NextStage
<1>2. /\ Tasks' = Tasks /\ task' \in [Tasks -> TaskSet] /\ fresh' \in Nat
      /\ task'[t] = Started(t, stage) /\ \A u \in Tasks \ {t} : task'[u] = task[u]
      /\ PendingOK' /\ RevokedOK'
  BY <1>1, StartTasks
<1>3. /\ ~Timed(t) /\ ~Holds(queue, t) /\ ~Worked(t) /\ ~Holds(inbox, t) /\ ~Holds(acts, t)
      /\ \A y \in timers : y.task # t
      /\ \A i \in 1..Len(queue) : queue[i].task # t
      /\ \A i \in 1..Len(inbox) : inbox[i].task # t
      /\ \A i \in 1..Len(acts) : acts[i].task # t
      /\ \A w \in Worker : wpc[w] \in Has => job[w].task # t
  BY ReadyNowhere
<1>4. /\ \A w \in Worker : job[w] # None <=> wpc'[w] \in Busy
      /\ \A u : Worked(u)' <=> Worked(u)
      /\ \A v, w \in Worker : wpc'[v] \in Has /\ wpc'[w] \in Has /\ job[v].task = job[w].task => v = w
      /\ \A w \in Worker : wpc'[w] \in Has => wpc'[w] = wpc[w]
  BY WorkersStill
<1>5. \A u : Timed(u)' <=> Timed(u) \/ u = t
  BY DEF Timed
<1>6. TypesOK'
  BY <1>2, <1>4 DEF TaskInv, TypesOK
<1>7. PlacesOK'
  <2>1. ASSUME NEW u \in Tasks
        PROVE  Place(task'[u].st, Timed(u)', Holds(queue, u), Worked(u)', Holds(inbox, u), Holds(acts, u))
    <3>1. Place(task[u].st, Timed(u), Holds(queue, u), Worked(u), Holds(inbox, u), Holds(acts, u))
      BY DEF TaskInv, PlacesOK
    <3>2. CASE u # t
      BY <1>2, <1>4, <1>5, <3>1, <3>2 DEF Place, One
    <3>3. CASE u = t
      <4>1. task'[t].st = "waiting"
        BY <1>2 DEF Started
      <4> QED
        BY <1>3, <1>4, <1>5, <3>3, <4>1 DEF Place, One
    <3> QED
      BY <3>2, <3>3
  <2>2. \A y, z \in timers' : y.task = z.task => y = z
    BY <1>3 DEF TaskInv, PlacesOK
  <2> QED
    BY <1>2, <1>4, <2>1, <2>2 DEF TaskInv, PlacesOK
<1> DEFINE NewJob(y) == y.task \in Tasks /\ JobOK(y, program[y.task], task'[y.task], ran[y.task])
           NewTimer(y) == y.task \in Tasks /\ TimerOK(y, program[y.task], task'[y.task])
<1>8. \A y : y.task # t => (NewJob(y) <=> Job(y)) /\ (NewTimer(y) <=> Timer(y))
  BY <1>2 DEF Job, Timer
<1>9. NewTimer(x)
  BY <1>2 DEF TimerOK, Started
<1> HIDE DEF NewJob, NewTimer
<1>10. ItemsOK'
  <2>1. \A y \in timers' : NewTimer(y)
    BY <1>3, <1>8, <1>9 DEF TaskInv, ItemsOK
  <2>2. /\ \A i \in 1..Len(queue) : NewJob(queue[i]) /\ queue[i].left > 0 /\ queue[i].fuel > 0
        /\ \A i \in 1..Len(inbox) : NewJob(inbox[i])
        /\ \A i \in 1..Len(acts) : NewJob(acts[i])
    BY <1>3, <1>8 DEF TaskInv, ItemsOK
  <2>3. \A w \in Worker : wpc'[w] \in Has =>
          NewJob(job[w]) /\ (wpc'[w] # "post" => job[w].left > 0 /\ job[w].fuel > 0)
    BY <1>3, <1>4, <1>8 DEF TaskInv, ItemsOK
  <2> QED
    BY <1>2, <2>1, <2>2, <2>3 DEF ItemsOK, Job, Timer, NewJob, NewTimer
<1>11. ProgressOK'
  BY <1>2, StartProgress
<1> QED
  BY <1>2, <1>6, <1>7, <1>10, <1>11 DEF TaskInv

(* A ready step that starts nothing: the task is over, or goes on with the  *)
(* cancellation of another one.                                             *)
LEMMA ReadyMoves ==
  ASSUME TaskInv, NEW t \in Tasks, task[t].st = "ready", NEW k \in TaskSet,
         k.st \in {"done", "pinned"}, k.op = task[t].op, TaskOK(t, program[t], k, ran[t]),
         task' = [task EXCEPT ![t] = k], runQ' \in Seq(Tasks),
         UNCHANGED <<program, ran, fresh, timers, queue, inbox, acts, job, revoked, pending, wpc>>
  PROVE  TaskInv'
<1>1. /\ Tasks' = Tasks /\ task' \in [Tasks -> TaskSet] /\ task'[t] = k
      /\ \A u \in Tasks \ {t} : task'[u] = task[u]
  BY DEF Tasks, TaskInv, TypesOK
<1>2. /\ ~Timed(t) /\ ~Holds(queue, t) /\ ~Worked(t) /\ ~Holds(inbox, t) /\ ~Holds(acts, t)
      /\ \A x \in timers : x.task # t
      /\ \A i \in 1..Len(queue) : queue[i].task # t
      /\ \A i \in 1..Len(inbox) : inbox[i].task # t
      /\ \A i \in 1..Len(acts) : acts[i].task # t
      /\ \A w \in Worker : wpc[w] \in Has => job[w].task # t
  BY ReadyNowhere
<1>3. \A u : (Worked(u)' <=> Worked(u)) /\ (Timed(u)' <=> Timed(u))
  BY DEF Worked, Timed
<1>4. TypesOK'
  BY <1>1 DEF TaskInv, TypesOK
<1>5. PlacesOK'
  <2>1. ASSUME NEW u \in Tasks
        PROVE  Place(task'[u].st, Timed(u)', Holds(queue, u), Worked(u)', Holds(inbox, u), Holds(acts, u))
    <3>1. Place(task[u].st, Timed(u), Holds(queue, u), Worked(u), Holds(inbox, u), Holds(acts, u))
      BY DEF TaskInv, PlacesOK
    <3>2. CASE u # t
      BY <1>1, <1>3, <3>1, <3>2 DEF Place, One
    <3>3. CASE u = t
      BY <1>1, <1>2, <1>3, <3>3 DEF Place, One
    <3> QED
      BY <3>2, <3>3
  <2> QED
    BY <1>1, <2>1 DEF TaskInv, PlacesOK
<1> DEFINE NewJob(y) == y.task \in Tasks /\ JobOK(y, program[y.task], task'[y.task], ran[y.task])
           NewTimer(y) == y.task \in Tasks /\ TimerOK(y, program[y.task], task'[y.task])
<1>6. \A y : y.task # t => (NewJob(y) <=> Job(y)) /\ (NewTimer(y) <=> Timer(y))
  BY <1>1 DEF Job, Timer
<1> HIDE DEF NewJob, NewTimer
<1>7. ItemsOK'
  <2>1. /\ \A x \in timers : NewTimer(x)
        /\ \A i \in 1..Len(queue) : NewJob(queue[i]) /\ queue[i].left > 0 /\ queue[i].fuel > 0
        /\ \A i \in 1..Len(inbox) : NewJob(inbox[i])
        /\ \A i \in 1..Len(acts) : NewJob(acts[i])
    BY <1>2, <1>6 DEF TaskInv, ItemsOK
  <2>2. \A w \in Worker : wpc[w] \in Has =>
          NewJob(job[w]) /\ (wpc[w] # "post" => job[w].left > 0 /\ job[w].fuel > 0)
    BY <1>2, <1>6 DEF TaskInv, ItemsOK
  <2> QED
    BY <1>1, <2>1, <2>2 DEF ItemsOK, Job, Timer, NewJob, NewTimer
<1>8. ProgressOK'
  <2>1. \A u \in Tasks \ {t} : TaskOK(u, program[u], task'[u], ran[u])
    BY <1>1 DEF TaskInv, ProgressOK
  <2>2. TaskOK(t, program[t], task'[t], ran[t])
    BY <1>1
  <2> QED
    BY <1>1, <2>1, <2>2 DEF ProgressOK
<1>9. PendingOK'
  <2>1. Waits' = Waits
    BY <1>1 DEF Waits
  <2> QED
    BY <2>1 DEF TaskInv, PendingOK
<1>10. RevokedOK'
  <2>1. ASSUME NEW o \in revoked PROVE \E u \in Tasks : task'[u].op = o /\ task'[u].st = "gone"
    <3>1. PICK u \in Tasks : task[u].op = o /\ task[u].st = "gone"
      BY <2>1 DEF TaskInv, RevokedOK
    <3> QED
      BY <1>1, <3>1
  <2> QED
    BY <1>1, <2>1 DEF RevokedOK
<1> QED
  BY <1>4, <1>5, <1>7, <1>8, <1>9, <1>10 DEF TaskInv

(* A cancellation; the task that asks for it has ended by then.             *)
LEMMA CancelInv ==
  ASSUME TaskInv, NEW S \in SUBSET Tasks, NEW tasks \in [Tasks -> TaskSet],
         \A u \in Tasks : \/ tasks[u] = task[u]
                          \/ task[u].st = "pinned" /\ tasks[u] = [task[u] EXCEPT !.st = "done"],
         CancelTasks(S, tasks), runQ' \in Seq(Tasks),
         UNCHANGED <<program, ran, fresh, queue, inbox, acts, job, wpc>>
  PROVE  TaskInv'
<1> DEFINE live  == {u \in S : tasks[u].st \in {"ready", "waiting", "pinned"}}
           waits == {u \in live : tasks[u].st = "waiting"}
<1>1. /\ task' = [u \in Tasks |-> IF u \in live THEN [tasks[u] EXCEPT !.st = "gone"] ELSE tasks[u]]
      /\ pending' = pending - Cardinality(waits)
      /\ timers' = {x \in timers : x.task \notin live}
      /\ revoked' = revoked \cup {tasks[u].op : u \in waits}
  BY DEF CancelTasks
<1>2. Tasks' = Tasks /\ live \subseteq Tasks /\ waits \subseteq live
  BY DEF Tasks
<1>3. \A u \in live : tasks[u].st \in {"ready", "waiting", "pinned"}
  OBVIOUS
<1>4. \A u \in live : u \in waits <=> tasks[u].st = "waiting"
  OBVIOUS
<1>5. \A u \in Waits : tasks[u] = task[u]
  BY DEF Waits
<1> HIDE DEF live, waits
<1>6. ASSUME NEW u \in Tasks
      PROVE  /\ task'[u] \in TaskSet /\ task'[u].op = task[u].op /\ task'[u].stage = task[u].stage
             /\ task'[u].left = task[u].left /\ tasks[u].op = task[u].op
             /\ u \in live => task'[u].st = "gone"
             /\ u \notin live => \/ task'[u].st = task[u].st
                                 \/ task[u].st = "pinned" /\ task'[u].st = "done"
             /\ task[u].st = "gone" => task'[u].st = "gone"
  <2>1. task[u] \in TaskSet /\ tasks[u] \in TaskSet
    BY DEF TaskInv, TypesOK
  <2>2. /\ tasks[u].op = task[u].op /\ tasks[u].stage = task[u].stage /\ tasks[u].left = task[u].left
        /\ tasks[u].st = task[u].st \/ (task[u].st = "pinned" /\ tasks[u].st = "done")
    BY <2>1 DEF TaskSet
  <2>3. CASE u \in live
    <3>1. task'[u] = [tasks[u] EXCEPT !.st = "gone"]
      BY <1>1, <2>3
    <3> QED
      BY <2>1, <2>2, <2>3, <3>1 DEF TaskSet, TaskStates
  <2>4. CASE u \notin live
    <3>1. task'[u] = tasks[u]
      BY <1>1, <2>4
    <3> QED
      BY <2>1, <2>2, <2>4, <3>1
  <2> QED
    BY <2>3, <2>4
<1>7. \A u : /\ Worked(u)' <=> Worked(u)
             /\ Timed(u)' <=> Timed(u) /\ u \notin live
  BY <1>1 DEF Worked, Timed
<1>8. TypesOK'
  <2>1. task' \in [Tasks -> TaskSet]
    BY <1>1, <1>6
  <2>2. timers' \subseteq TimerSet
    BY <1>1 DEF TaskInv, TypesOK
  <2> QED
    BY <1>2, <2>1, <2>2 DEF TaskInv, TypesOK
<1>9. PlacesOK'
  <2>1. ASSUME NEW u \in Tasks
        PROVE  Place(task'[u].st, Timed(u)', Holds(queue, u), Worked(u)', Holds(inbox, u), Holds(acts, u))
    <3>1. Place(task[u].st, Timed(u), Holds(queue, u), Worked(u), Holds(inbox, u), Holds(acts, u))
      BY DEF TaskInv, PlacesOK
    <3>2. CASE u \in live
      BY <1>6, <1>7, <3>1, <3>2 DEF Place, One
    <3>3. CASE u \notin live
      BY <1>6, <1>7, <3>1, <3>3 DEF Place, One
    <3> QED
      BY <3>2, <3>3
  <2>2. \A x, y \in timers' : x.task = y.task => x = y
    BY <1>1 DEF TaskInv, PlacesOK
  <2> QED
    BY <1>2, <2>1, <2>2 DEF TaskInv, PlacesOK
<1>10. ItemsOK'
  <2>1. \A y : (Timer(y) => Timer(y)') /\ (Job(y) => Job(y)')
    <3>1. \A u \in Tasks : /\ task'[u].op = task[u].op /\ task'[u].stage = task[u].stage
                           /\ task'[u].st = "waiting" => task[u].st = "waiting"
      BY <1>6
    <3> QED
      BY <3>1, ItemsStill
  <2> QED
    BY <1>1, <2>1 DEF TaskInv, ItemsOK, Timer, Job
<1>11. ProgressOK'
  <2>1. ASSUME NEW u \in Tasks PROVE TaskOK(u, program[u], task'[u], ran[u])
    <3>1. TaskOK(u, program[u], task[u], ran[u])
      BY DEF TaskInv, ProgressOK
    <3>2. /\ Len(program[u]) \in Nat
          /\ \A i \in 1..Len(program[u]) : program[u][i].kind = "cancel" => i = Len(program[u])
      BY ProgramShape DEF TaskInv
    <3>3. CASE task'[u].st = "gone"
      BY <1>6, <3>1, <3>3 DEF TaskOK
    <3>4. CASE task'[u].st = task[u].st
      BY <1>6, <3>1, <3>4 DEF TaskOK
    <3>5. CASE task[u].st = "pinned" /\ task'[u].st = "done"
      <4>1. /\ task[u].stage \in 1..Len(program[u]) /\ program[u][task[u].stage].kind = "cancel"
            /\ task[u].left = 0
        BY <3>1, <3>2, <3>5 DEF TaskOK
      <4>2. task[u].stage = Len(program[u])
        BY <3>2, <4>1
      <4> QED
        BY <1>6, <3>1, <3>5, <4>1, <4>2 DEF TaskOK
    <3> QED
      BY <1>6, <3>3, <3>4, <3>5
  <2> QED
    BY <1>2, <2>1 DEF ProgressOK
<1>12. PendingOK'
  <2>1. Waits' = Waits \ waits
    <3>1. ASSUME NEW u \in Tasks PROVE u \in Waits' <=> u \in Waits /\ u \notin waits
      <4>1. CASE u \in live
        BY <1>2, <1>4, <1>6, <4>1 DEF Waits
      <4>2. CASE u \notin live
        BY <1>2, <1>6, <4>2 DEF Waits
      <4> QED
        BY <4>1, <4>2
    <3> QED
      BY <1>2, <3>1 DEF Waits
  <2>2. waits \subseteq Waits
    <3>1. ASSUME NEW u \in waits PROVE task[u].st = "waiting"
      <4>1. u \in Tasks /\ tasks[u].st = "waiting"
        BY <1>2, <1>4
      <4>2. task[u] \in TaskSet
        BY <4>1 DEF TaskInv, TypesOK
      <4> QED
        BY <4>1, <4>2 DEF TaskSet
    <3> QED
      BY <1>2, <3>1 DEF Waits
  <2>3. IsFiniteSet(Waits)
    BY FewTasks DEF TaskInv, Waits
  <2>4. Cardinality(Waits \ waits) = Cardinality(Waits) - Cardinality(Waits \cap waits)
    BY <2>3, FS_Difference
  <2>5. Waits \cap waits = waits
    BY <2>2
  <2> QED
    BY <1>1, <2>1, <2>4, <2>5 DEF TaskInv, PendingOK
<1>13. RevokedOK'
  <2>1. ASSUME NEW o \in revoked PROVE \E u \in Tasks : task'[u].op = o /\ task'[u].st = "gone"
    <3>1. PICK u \in Tasks : task[u].op = o /\ task[u].st = "gone"
      BY <2>1 DEF TaskInv, RevokedOK
    <3> QED
      BY <1>6, <3>1
  <2>2. ASSUME NEW u \in waits PROVE \E v \in Tasks : task'[v].op = tasks[u].op /\ task'[v].st = "gone"
    BY <1>2, <1>6
  <2> QED
    BY <1>1, <1>2, <2>1, <2>2 DEF RevokedOK
<1> QED
  BY <1>8, <1>9, <1>10, <1>11, <1>12, <1>13 DEF TaskInv

LEMMA ContinueTasks ==
  ASSUME TaskInv, ClockOK, WorkersOK, NEW t \in Tasks, task[t].st = "ready", NEW rest \in Seq(Tasks),
         Continue(t, rest), UNCHANGED <<program, acts, job, revoked>>
  PROVE  TaskInv'
<1> DEFINE more  == task[t].left > 0
           stage == IF more THEN task[t].stage ELSE task[t].stage + 1
           over  == stage > Len(program[t])
           what  == program[t][stage]
           op    == <<t, fresh + 1>>
           j     == [task |-> t, op |-> op, stage |-> stage,
                     left |-> IF more THEN task[t].left ELSE what.n, fuel |-> ChainLength]
           Starts == /\ task' = [task EXCEPT ![t] = Started(t, stage)]
                     /\ runQ' = rest /\ pending' = pending + 1 /\ fresh' = fresh + 1
           Others == UNCHANGED <<pending, fresh, timeVars, inboxVars, poolVars, wpc, forking, ran>>
<1>1. \/ over /\ task' = [task EXCEPT ![t].st = "done"] /\ runQ' = rest /\ Others
      \/ ~over /\ what.kind = "points" /\ Starts /\ Offload(j) /\ UNCHANGED timeVars
      \/ /\ ~over /\ what.kind = "sleep" /\ Starts
         /\ AddTimer([at |-> now + what.n, task |-> t, op |-> op])
         /\ UNCHANGED <<inboxVars, poolVars, wpc, forking, ran>>
      \/ /\ ~over /\ what.kind = "cancel"
         /\ task' = [task EXCEPT ![t].st = "pinned", ![t].stage = stage]
         /\ runQ' = Append(rest, t) /\ Others
  BY Zenon DEF Continue, Started
<1>2. /\ over => task[t].left = 0 /\ task[t].stage = Len(program[t])
      /\ stage <= Len(program[t]) =>
           /\ stage \in 1..Len(program[t]) /\ program[t][stage] \in Stages
           /\ task[t].left > 0 => program[t][stage].kind = "points"
           /\ \A i \in 1..Len(program[t]) : program[t][i].kind = "points" =>
                /\ i < stage => ran[t][i] = program[t][i].n
                /\ i > stage => ran[t][i] = 0
  BY NextStage
<1>3. stage \in Nat /\ Len(program[t]) \in Nat /\ t \in Nat /\ fresh \in Nat /\ (~over <=> stage <= Len(program[t]))
  <2>1. Len(program[t]) \in Nat /\ Tasks = 1..Len(program) /\ Len(program) \in Nat
    BY ProgramShape DEF TaskInv
  <2>2. task[t].stage \in Nat /\ fresh \in Nat
    BY DEF TaskInv, TypesOK, TaskSet
  <2> QED
    BY <2>1, <2>2
<1>4. rest \in Seq(Tasks) /\ Append(rest, t) \in Seq(Tasks)
  OBVIOUS
<1>5. task[t] \in TaskSet /\ TaskOK(t, program[t], task[t], ran[t])
  BY DEF TaskInv, TypesOK, ProgressOK
<1>6. op \in Nat \X Nat
  BY <1>3
<1> PICK s : s = stage
  OBVIOUS
<1> PICK o : o = op
  OBVIOUS
<1>7. CASE over /\ task' = [task EXCEPT ![t].st = "done"] /\ runQ' = rest /\ Others
  <2> DEFINE k == [task[t] EXCEPT !.st = "done"]
  <2>1. /\ k \in TaskSet /\ k.st = "done" /\ k.op = task[t].op /\ k.stage = task[t].stage
        /\ k.left = task[t].left
    BY <1>5 DEF TaskSet, TaskStates
  <2>2. task' = [task EXCEPT ![t] = k]
    BY <1>7
  <2> HIDE DEF k
  <2>3. TaskOK(t, program[t], k, ran[t])
    BY <1>2, <1>5, <1>7, <2>1 DEF TaskOK
  <2>4. UNCHANGED <<timers, queue, inbox, pending, fresh, wpc, ran>>
    BY <1>7 DEF timeVars, poolVars, inboxVars
  <2> QED
    BY <1>4, <1>7, <2>1, <2>2, <2>3, <2>4, ReadyMoves
<1>8. CASE ~over /\ what.kind = "points" /\ Starts /\ Offload(j) /\ UNCHANGED timeVars
  <2> DEFINE m == [j EXCEPT !.left = 0]
  <2>1. /\ j \in Jobs /\ j.task = t /\ j.op = op /\ j.stage = stage /\ j.fuel > 0
        /\ j.left = IF more THEN task[t].left ELSE what.n
    <3>1. what \in Stages
      BY <1>2, <1>3, <1>8
    <3>2. what.n \in Nat
      <4> HIDE DEF what
      <4> QED
        BY <3>1 DEF Stages
    <3>3. task[t].left \in Nat
      BY <1>5 DEF TaskSet
    <3>4. ChainLength \in Nat /\ ChainLength > 0
      BY ProgramsAssumption
    <3> QED
      BY <1>3, <1>6, <3>2, <3>3, <3>4 DEF Jobs
  <2>2. m \in Jobs /\ m.task = t /\ m.op = op /\ m.stage = stage /\ m.left = 0
    BY <2>1 DEF Jobs
  <2> PICK jj : jj = j
    OBVIOUS
  <2> PICK mm : mm = m
    OBVIOUS
  <2>3. timers' = timers
    BY <1>8 DEF timeVars
  <2>4. CASE limit = 0
    <3>1. /\ inbox' = Append(inbox, mm) /\ ran' = [ran EXCEPT ![t][s] = @ + j.left]
          /\ queue' = queue /\ wpc' = wpc
      BY <1>8, <2>1, <2>4 DEF Offload, poolVars
    <3> HIDE DEF j, m
    <3>2. j.left = IF task[t].left > 0 THEN task[t].left ELSE program[t][s].n
      BY <2>1
    <3> PICK done : done = j.left
      OBVIOUS
    <3>3. /\ s = IF task[t].left > 0 THEN task[t].stage ELSE task[t].stage + 1
          /\ s <= Len(program[t]) /\ program[t][s].kind = "points"
          /\ mm \in Jobs /\ mm.task = t /\ mm.op = <<t, fresh + 1>> /\ mm.stage = s /\ mm.left = 0
          /\ done = IF task[t].left > 0 THEN task[t].left ELSE program[t][s].n
          /\ ran' = [ran EXCEPT ![t][s] = @ + done]
          /\ task' = [task EXCEPT ![t] = Started(t, s)] /\ pending' = pending + 1 /\ fresh' = fresh + 1
          /\ runQ' \in Seq(Tasks)
      BY <1>3, <1>8, <2>2, <3>1, <3>2
    <3>4. /\ \A w \in Worker : wpc'[w] = wpc[w] \/ (wpc[w] \notin Busy /\ wpc'[w] \notin Busy)
          /\ inbox' = Append(inbox, mm) /\ timers' = timers /\ queue' = queue
      BY <2>3, <3>1
    <3> HIDE DEF stage, op, what, more, over, Starts, Others
    <3> QED
      BY <3>3, <3>4, PostTasks DEF startVars
  <2>5. CASE limit # 0
    <3>1. queue' = Append(queue, jj) /\ UNCHANGED <<inbox, ran>> /\ SignalOne
      BY <1>8, <2>5 DEF Offload, inboxVars
    <3>2. \A w \in Worker : wpc'[w] = wpc[w] \/ (wpc[w] \notin Busy /\ wpc'[w] \notin Busy)
      <4>1. wpc' = wpc \/ \E w \in Waiting : wpc' = [wpc EXCEPT ![w] = "woken"]
        BY <3>1 DEF SignalOne
      <4>2. wpc \in [Worker -> WorkerStates]
        BY DEF WorkersOK
      <4> QED
        BY <4>1, <4>2 DEF Waiting, Busy
    <3> HIDE DEF j, m
    <3>3. /\ s = IF task[t].left > 0 THEN task[t].stage ELSE task[t].stage + 1
          /\ s <= Len(program[t]) /\ program[t][s].kind = "points"
          /\ jj \in Jobs /\ jj.task = t /\ jj.op = <<t, fresh + 1>> /\ jj.stage = s /\ jj.fuel > 0
          /\ jj.left = IF task[t].left > 0 THEN task[t].left ELSE program[t][s].n
          /\ task' = [task EXCEPT ![t] = Started(t, s)] /\ pending' = pending + 1 /\ fresh' = fresh + 1
          /\ runQ' \in Seq(Tasks)
      BY <1>3, <1>8, <2>1
    <3> HIDE DEF stage, op, what, more, over, Starts, Others
    <3> QED
      BY <2>3, <3>1, <3>2, <3>3, QueueTasks DEF startVars
  <2> QED
    BY <2>4, <2>5
<1>9. CASE /\ ~over /\ what.kind = "sleep" /\ Starts
           /\ AddTimer([at |-> now + what.n, task |-> t, op |-> op])
           /\ UNCHANGED <<inboxVars, poolVars, wpc, forking, ran>>
  <2> DEFINE x == [at |-> now + what.n, task |-> t, op |-> op]
  <2>1. x \in TimerSet /\ x.task = t /\ x.op = op
    <3>1. what.n \in Nat /\ now \in Nat
      BY <1>2, <1>3, <1>9 DEF Stages, ClockOK
    <3>2. now + what.n \in Nat
      BY <3>1
    <3> HIDE DEF what, op
    <3>3. x.at \in Nat /\ x.task \in Nat /\ x.op \in Nat \X Nat
      BY <1>3, <1>6, <3>2
    <3> QED
      BY <3>3 DEF TimerSet
  <2> PICK xx : xx = x
    OBVIOUS
  <2>2. timers' = timers \cup {xx} /\ UNCHANGED <<queue, inbox, ran, wpc>>
    BY <1>9 DEF AddTimer, inboxVars, poolVars
  <2> HIDE DEF x
  <2>3. /\ s = IF task[t].left > 0 THEN task[t].stage ELSE task[t].stage + 1
        /\ s <= Len(program[t]) /\ program[t][s].kind = "sleep"
        /\ xx \in TimerSet /\ xx.task = t /\ xx.op = <<t, fresh + 1>>
        /\ task' = [task EXCEPT ![t] = Started(t, s)] /\ pending' = pending + 1 /\ fresh' = fresh + 1
        /\ runQ' \in Seq(Tasks)
    BY <1>3, <1>9, <2>1
  <2> HIDE DEF stage, op, what, more, over, Starts, Others, j
  <2> QED
    BY <2>2, <2>3, SleepTasks DEF startVars
<1>10. CASE /\ ~over /\ what.kind = "cancel"
            /\ task' = [task EXCEPT ![t].st = "pinned", ![t].stage = stage]
            /\ runQ' = Append(rest, t) /\ Others
  <2> DEFINE k == [task[t] EXCEPT !.st = "pinned", !.stage = stage]
  <2>1. /\ k \in TaskSet /\ k.st = "pinned" /\ k.op = task[t].op /\ k.stage = s
        /\ k.left = task[t].left
    BY <1>3, <1>5 DEF TaskSet, TaskStates
  <2>2. task' = [task EXCEPT ![t] = k]
    BY <1>5, <1>10 DEF TaskInv, TypesOK, TaskSet
  <2> HIDE DEF k
  <2>3. ~(task[t].left > 0) /\ task[t].left \in Nat
    BY <1>2, <1>3, <1>5, <1>10 DEF TaskSet
  <2>4. TaskOK(t, program[t], k, ran[t])
    <3>1. k.stage \in 1..Len(program[t]) /\ k.left = 0 /\ program[t][k.stage].kind = "cancel"
      BY <1>2, <1>3, <1>10, <2>1, <2>3
    <3>2. \A i \in 1..Len(program[t]) : program[t][i].kind = "points" =>
                /\ i < k.stage => ran[t][i] = program[t][i].n
                /\ i > k.stage => ran[t][i] = 0
      BY <1>2, <1>3, <1>10, <2>1
    <3> HIDE DEF stage
    <3> QED
      BY <1>3, <1>5, <2>1, <3>1, <3>2 DEF TaskOK
  <2>5. UNCHANGED <<timers, queue, inbox, pending, fresh, wpc, ran>>
    BY <1>10 DEF timeVars, poolVars, inboxVars
  <2> QED
    BY <1>4, <1>10, <2>1, <2>2, <2>4, <2>5, ReadyMoves
<1> HIDE DEF more, stage, over, what, op, j, Starts, Others
<1> QED
  BY <1>1, <1>7, <1>8, <1>9, <1>10

LEMMA RunStepTasks ==
  ASSUME TaskInv, ClockOK, WorkersOK, RunStep
  PROVE  TaskInv'
<1> PICK t : t = Head(runQ)
  OBVIOUS
<1> PICK rest : rest = Tail(runQ)
  OBVIOUS
<1>1. t \in Tasks /\ rest \in Seq(Tasks) /\ UNCHANGED <<program, acts, job>>
  BY DEF RunStep, TaskInv, TypesOK, config
<1>2. \/ /\ task[t].st = "gone" /\ runQ' = rest
         /\ UNCHANGED <<task, pending, fresh, timeVars, inboxVars, poolVars, wpc, forking, revoked, ran>>
      \/ task[t].st = "ready" /\ Continue(t, rest) /\ UNCHANGED revoked
      \/ /\ task[t].st = "pinned"
         /\ CancelTasks({program[t][task[t].stage].n}, [task EXCEPT ![t].st = "done"])
         /\ runQ' = rest
         /\ UNCHANGED <<fresh, armed, timerFd, inboxVars, poolVars, wpc, forking, ran>>
  BY DEF RunStep
<1>3. CASE /\ task[t].st = "gone" /\ runQ' = rest
           /\ UNCHANGED <<task, pending, fresh, timeVars, inboxVars, poolVars, wpc, forking, revoked, ran>>
  BY <1>1, <1>3, TaskQuiet DEF tasky, timeVars, inboxVars, poolVars
<1>4. CASE task[t].st = "ready" /\ Continue(t, rest) /\ UNCHANGED revoked
  BY <1>1, <1>4, ContinueTasks
<1>5. CASE /\ task[t].st = "pinned"
           /\ CancelTasks({program[t][task[t].stage].n}, [task EXCEPT ![t].st = "done"])
           /\ runQ' = rest
           /\ UNCHANGED <<fresh, armed, timerFd, inboxVars, poolVars, wpc, forking, ran>>
  <2> PICK target : target = program[t][task[t].stage].n
    OBVIOUS
  <2> PICK tasks : tasks = [task EXCEPT ![t].st = "done"]
    OBVIOUS
  <2>1. task \in [Tasks -> TaskSet] /\ task[t] \in TaskSet
    BY <1>1 DEF TaskInv, TypesOK
  <2>2. task[t].stage \in 1..Len(program[t]) /\ program[t][task[t].stage].kind = "cancel"
    <3>1. TaskOK(t, program[t], task[t], ran[t]) /\ Len(program[t]) \in Nat
      BY <1>1, ProgramShape DEF TaskInv, ProgressOK
    <3> QED
      BY <1>5, <3>1 DEF TaskOK
  <2>3. {target} \subseteq Tasks
    BY <1>1, <2>2, ProgramShape DEF TaskInv
  <2>4. /\ tasks \in [Tasks -> TaskSet]
        /\ \A u \in Tasks : \/ tasks[u] = task[u]
                            \/ task[u].st = "pinned" /\ tasks[u] = [task[u] EXCEPT !.st = "done"]
    <3>1. [task[t] EXCEPT !.st = "done"] \in TaskSet
      BY <2>1 DEF TaskSet, TaskStates
    <3>2. tasks = [task EXCEPT ![t] = [task[t] EXCEPT !.st = "done"]]
      BY <2>1
    <3> QED
      BY <1>1, <1>5, <2>1, <3>1, <3>2
  <2>5. CancelTasks({target}, tasks)
    BY <1>5
  <2> QED
    BY ZenonT(30), <1>1, <1>5, <2>3, <2>4, <2>5, CancelInv DEF inboxVars, poolVars
<1> QED
  BY <1>2, <1>3, <1>4, <1>5

LEMMA CloseTasks ==
  ASSUME TaskInv, CloseScheduler
  PROVE  TaskInv'
<1>1. /\ UNCHANGED <<program, ran, fresh, queue, inbox, acts, job, wpc>>
      /\ runQ' = <<>> /\ <<>> \in Seq(Tasks)
  BY DEF CloseScheduler, config, opVars, inboxVars, poolVars, workVars
<1>2. CASE CancelTasks(Tasks, task)
  <2>1. task \in [Tasks -> TaskSet]
    BY DEF TaskInv, TypesOK
  <2> QED
    BY <1>1, <1>2, <2>1, CancelInv
<1>3. CASE UNCHANGED <<task, pending, timers, revoked>>
  BY <1>1, <1>3, TaskQuiet DEF tasky
<1> QED
  BY <1>2, <1>3 DEF CloseScheduler

-----------------------------------------------------------------------------
(* The scheduler's own place in its turn.                                   *)
Closing == {"close", "stop", "join", "closed"}
Pcs     == {"batch", "fire", "arm", "look", "drain", "take", "acts"} \cup Closing
PcOK ==
  /\ pc \in Pcs /\ evs \subseteq {"inbox", "timer"} /\ budget \in 0..StepBudget
  /\ pc # "acts" => acts = <<>>

LEMMA InitPc == Init => PcOK
  BY ProgramsAssumption DEF Init, PcOK, Pcs

LEMMA NextPc ==
  ASSUME PcOK, [Next]_vars
  PROVE  PcOK'
<1>0. StepBudget \in Nat /\ StepBudget \in 0..StepBudget
  BY ProgramsAssumption
<1> USE DEF PcOK
<1>1. CASE RunStep
  <2>1. budget' = budget - 1 /\ budget > 0 /\ UNCHANGED <<pc, evs, acts>>
    BY <1>1 DEF RunStep
  <2>2. budget' \in 0..StepBudget
    BY <1>0, <2>1
  <2> QED
    BY <2>1, <2>2
<1>2. CASE EndBatch
  <2>1. UNCHANGED acts /\ pc = "batch"
    BY <1>2 DEF EndBatch, opVars
  <2>2. \/ pc' = "fire" /\ UNCHANGED <<evs, budget>>
        \/ pc' \in {"batch", "close"} /\ budget' = StepBudget /\ evs' = {}
    BY <1>2 DEF EndBatch, NextTurn, turnVars
  <2>3. acts' = <<>> /\ pc' \in Pcs
    BY <2>1, <2>2 DEF Pcs, Closing
  <2> QED
    BY <1>0, <2>2, <2>3
<1>3. CASE EpollWait \/ Interrupt
  <2>1. UNCHANGED acts /\ pc = "look"
    BY <1>3 DEF EpollWait, Interrupt, opVars
  <2>2. \/ pc' \in {"batch", "close"} /\ budget' = StepBudget /\ evs' = {}
        \/ pc' = "drain" /\ evs' = Readable /\ budget' = budget
    BY <1>3 DEF EpollWait, Interrupt, NextTurn
  <2>3. Readable \subseteq {"inbox", "timer"}
    BY DEF Readable
  <2>4. acts' = <<>> /\ pc' \in Pcs
    BY <2>1, <2>2 DEF Pcs, Closing
  <2> QED
    BY <1>0, <2>2, <2>3, <2>4
<1>4. CASE FireTimers \/ ArmTimerFd
  <2>1. acts' = acts /\ evs' = evs /\ pc \in {"fire", "arm"} /\ pc' \in {"fire", "arm", "batch", "look"}
    BY <1>4 DEF FireTimers, ArmTimerFd, opVars, turnVars
  <2>2. budget' = budget \/ budget' = StepBudget
    BY <1>4 DEF FireTimers, ArmTimerFd, turnVars
  <2>3. acts' = <<>> /\ pc' \in Pcs
    BY <2>1 DEF Pcs, Closing
  <2> QED
    BY <1>0, <2>1, <2>2, <2>3
<1>5. CASE DrainInbox \/ RunActs \/ DrainTimer \/ Drained
  BY <1>5 DEF DrainInbox, RunActs, DrainTimer, Drained, opVars, turnVars, Pcs, Closing
<1>6. CASE Fork \/ CloseScheduler \/ StopWorkers \/ JoinWorkers \/ Tick
  BY <1>6 DEF Fork, CloseScheduler, StopWorkers, JoinWorkers, Tick, opVars, turnVars, Pcs, Closing
<1>7. ASSUME NEW w \in Worker, WorkerStep(w) \/ Spurious(w) PROVE PcOK'
  BY <1>7 DEF WorkerStep, TakeJob, CheckJob, RunPoint, PostTo, Spurious, opVars, turnVars
<1>8. CASE UNCHANGED vars
  BY <1>8 DEF vars, opVars, turnVars
<1> QED
  BY <1>1, <1>2, <1>3, <1>4, <1>5, <1>6, <1>7, <1>8 DEF Next, Turn

-----------------------------------------------------------------------------
LEMMA InitTasks == Init => TaskInv
<1> SUFFICES ASSUME Init PROVE TaskInv
  OBVIOUS
<1>1. /\ program \in Programs /\ fresh = 0 /\ pending = 0 /\ acts = <<>> /\ timers = {} /\ inbox = <<>>
      /\ queue = <<>> /\ revoked = {}
      /\ runQ = [t \in Tasks |-> t]
      /\ task = [t \in Tasks |-> [st |-> "ready", stage |-> 0, left |-> 0, op |-> <<t, 0>>]]
      /\ wpc = [w \in Worker |-> "none"] /\ job = [w \in Worker |-> None]
      /\ ran = [t \in Tasks |-> [i \in DOMAIN program[t] |-> 0]]
  BY DEF Init, Tasks
<1>2. /\ Tasks = 1..Len(program) /\ Len(program) \in Nat
      /\ \A t \in Tasks : program[t] \in Seq(Stages) /\ DOMAIN program[t] = 1..Len(program[t]) /\ Len(program[t]) \in Nat
      /\ \A t \in Tasks : \A i \in 1..Len(program[t]) : program[t][i] \in Stages
  <2>1. program \in Seq(Seq(Stages))
    BY <1>1, ProgramsAssumption
  <2>2. Tasks = 1..Len(program) /\ Len(program) \in Nat
    BY <2>1 DEF Tasks
  <2>3. \A t \in 1..Len(program) : program[t] \in Seq(Stages)
    BY <2>1
  <2> QED
    BY <2>2, <2>3
<1>3. \A t \in Tasks : task[t] = [st |-> "ready", stage |-> 0, left |-> 0, op |-> <<t, 0>>]
                       /\ task[t].st = "ready" /\ task[t].stage = 0 /\ task[t].left = 0
                       /\ task[t].op = <<t, 0>> /\ task[t].op[1] = t
  BY <1>1
<1>4. TypesOK
  <2>1. \A t \in Tasks : task[t] \in TaskSet
    <3> SUFFICES ASSUME NEW t \in Tasks PROVE [st |-> "ready", stage |-> 0, left |-> 0, op |-> <<t, 0>>] \in TaskSet
      BY <1>3
    <3>1. t \in Nat
      BY <1>2
    <3> QED
      BY <3>1 DEF TaskSet, TaskStates
  <2>2. task \in [Tasks -> TaskSet]
    BY <1>1, <2>1
  <2>3. runQ \in Seq(Tasks)
    <3> DEFINE n == Len(program)
    <3>1. n \in Nat /\ runQ = [t \in 1..n |-> t] /\ Tasks = 1..n
      BY <1>1, <1>2
    <3> HIDE DEF n
    <3>2. [t \in 1..n |-> t] \in [1..n -> 1..n]
      OBVIOUS
    <3> QED
      BY <3>1, <3>2
  <2>4. /\ \A t \in Tasks : ran[t] \in [1..Len(program[t]) -> Nat]
        /\ ran = [t \in Tasks |-> ran[t]]
    BY <1>1, <1>2
  <2>5. job \in [Worker -> Jobs \cup {None}] /\ \A w \in Worker : job[w] # None <=> wpc[w] \in Busy
    BY <1>1 DEF Busy
  <2> QED
    BY <1>1, <2>2, <2>3, <2>4, <2>5, NoJobs DEF TypesOK
<1>5. \A u : ~Timed(u) /\ ~Worked(u)
  BY <1>1 DEF Timed, Worked, Has
<1>6. PlacesOK
  <2>1. ASSUME NEW t \in Tasks
        PROVE  Place(task[t].st, Timed(t), Holds(queue, t), Worked(t), Holds(inbox, t), Holds(acts, t))
    BY <1>1, <1>3, <1>5, NoJobs DEF Place, One
  <2> QED
    BY <1>1, <2>1, NoJobs DEF PlacesOK, Has
<1>7. ItemsOK
  BY <1>1 DEF ItemsOK, Has
<1>8. ProgressOK
  <2>1. ASSUME NEW t \in Tasks PROVE TaskOK(t, program[t], task[t], ran[t])
    <3>1. \A i \in 1..Len(program[t]) : ran[t][i] = 0 /\ i # 0 /\ ~(i < 0)
      BY <1>1, <1>2
    <3> PICK k : k = task[t]
      OBVIOUS
    <3> PICK p : p = program[t]
      OBVIOUS
    <3> PICK r : r = ran[t]
      OBVIOUS
    <3>2. /\ k.st = "ready" /\ k.stage = 0 /\ k.left = 0 /\ k.op[1] = t /\ Len(p) \in Nat
          /\ \A i \in 1..Len(p) : r[i] = 0 /\ i # 0 /\ ~(i < 0)
      BY <1>2, <1>3, <3>1
    <3>3. TaskOK(t, p, k, r)
      BY <3>2 DEF TaskOK
    <3> QED
      BY <3>3
  <2> QED
    BY <2>1 DEF ProgressOK
<1>9. PendingOK /\ RevokedOK
  <2>1. Waits = {}
    BY <1>3 DEF Waits
  <2> QED
    BY <1>1, <2>1, FS_EmptySet DEF PendingOK, RevokedOK
<1> QED
  BY <1>4, <1>6, <1>7, <1>8, <1>9 DEF TaskInv

LEMMA NextTasks ==
  ASSUME TaskInv, ClockOK, PcOK, IInv, [Next]_vars
  PROVE  TaskInv'
<1>1. wpc \in [Worker -> WorkerStates] /\ WorkersOK /\ runQ \in Seq(Tasks) /\ pc \in Pcs
  BY DEF IInv, PoolInv, WorkersOK, TaskInv, TypesOK, PcOK
<1>2. CASE RunStep
  BY <1>1, <1>2, RunStepTasks
<1>3. CASE FireTimers
  BY <1>3, FireTimersTasks
<1>4. CASE DrainInbox
  BY <1>4, DrainInboxTasks DEF PcOK
<1>5. CASE RunActs
  BY <1>5, RunActsTasks
<1>6. CASE CloseScheduler
  BY <1>6, CloseTasks
<1>7. CASE Fork
  <2>1. forking \in Worker /\ wpc[forking] = "none"
    BY <1>7 DEF Fork, IInv, PoolInv, WorkersOK
  <2>2. wpc' = [wpc EXCEPT ![forking] = "start"] /\ UNCHANGED tasky /\ runQ' = runQ
    BY <1>7 DEF Fork, tasky, config, taskVars, opVars, timeVars, inboxVars, poolVars
  <2> QED
    BY <1>1, <2>1, <2>2, TaskQuiet DEF Busy
<1>8. CASE EndBatch \/ ArmTimerFd \/ EpollWait \/ Interrupt \/ DrainTimer \/ Drained \/ JoinWorkers \/ Tick
  <2>1. wpc' = wpc /\ UNCHANGED tasky /\ runQ' = runQ
    BY <1>8 DEF EndBatch, ArmTimerFd, EpollWait, Interrupt, DrainTimer, Drained, JoinWorkers, Tick,
         tasky, config, taskVars, opVars, timeVars, inboxVars, poolVars, workVars
  <2> QED
    BY <1>1, <2>1, TaskQuiet
<1>9. CASE StopWorkers
  <2>1. /\ wpc' = [w \in Worker |-> IF w \in Waiting THEN "woken" ELSE wpc[w]]
        /\ UNCHANGED tasky /\ runQ' = runQ
    BY <1>9 DEF StopWorkers, tasky, config, taskVars, opVars, timeVars, inboxVars
  <2>2. \A w \in Worker : wpc'[w] = wpc[w] \/ (wpc[w] \notin Busy /\ wpc'[w] \notin Busy)
    BY <2>1 DEF Waiting, Busy
  <2> QED
    BY <1>1, <2>1, <2>2, TaskQuiet
<1>10. ASSUME NEW w \in Worker, WorkerStep(w) \/ Spurious(w) PROVE TaskInv'
  <2>1. CASE Spurious(w)
    <3>1. wpc' = [wpc EXCEPT ![w] = "woken"] /\ wpc[w] = "wait" /\ UNCHANGED tasky /\ runQ' = runQ
      BY <2>1 DEF Spurious, tasky, config, taskVars, opVars, timeVars, inboxVars, poolVars
    <3> QED
      BY <1>1, <3>1, TaskQuiet DEF Busy
  <2>2. CASE WorkerStep(w)
    BY <1>1, <2>2, TakeJobTasks, CheckJobTasks, RunPointTasks, PostToTasks DEF WorkerStep
  <2> QED
    BY <1>10, <2>1, <2>2
<1>11. CASE UNCHANGED vars
  <2>1. wpc' = wpc /\ UNCHANGED tasky /\ runQ' = runQ
    BY <1>11 DEF vars, tasky, config, taskVars, opVars, timeVars, inboxVars, poolVars, workVars
  <2> QED
    BY <1>1, <2>1, TaskQuiet
<1> QED
  BY <1>2, <1>3, <1>4, <1>5, <1>6, <1>7, <1>8, <1>9, <1>10, <1>11 DEF Next, Turn

-----------------------------------------------------------------------------
(* The clock.                                                               *)

LEMMA ClockStill ==
  ASSUME ClockOK, UNCHANGED <<timers, armed, timerFd, now>>, pc' = "look" => pc = "look"
  PROVE  ClockOK'
  BY DEF ClockOK

LEMMA RunStepClock ==
  ASSUME TaskInv, ClockOK, RunStep
  PROVE  ClockOK'
<1>0. pc = "batch" /\ pc' = "batch" /\ now' = now
  BY DEF RunStep
<1> PICK t : t = Head(runQ)
  OBVIOUS
<1> PICK rest : rest = Tail(runQ)
  OBVIOUS
<1>1. t \in Tasks /\ rest \in Seq(Tasks)
  BY DEF RunStep, TaskInv, TypesOK
<1>2. \/ UNCHANGED timeVars
      \/ task[t].st = "ready" /\ Continue(t, rest)
      \/ /\ UNCHANGED <<armed, timerFd>>
         /\ CancelTasks({program[t][task[t].stage].n}, [task EXCEPT ![t].st = "done"])
  BY DEF RunStep
<1>3. CASE UNCHANGED timeVars
  BY <1>0, <1>3, ClockStill DEF timeVars
<1>4. CASE task[t].st = "ready" /\ Continue(t, rest)
  <2> DEFINE stage == IF task[t].left > 0 THEN task[t].stage ELSE task[t].stage + 1
             what  == program[t][stage]
             x     == [at |-> now + what.n, task |-> t, op |-> <<t, fresh + 1>>]
  <2>1. UNCHANGED timeVars \/ (stage <= Len(program[t]) /\ AddTimer(x))
    <3>1. UNCHANGED timeVars \/ (~(stage > Len(program[t])) /\ AddTimer(x))
      BY <1>4, Zenon DEF Continue
    <3>2. stage \in Nat /\ Len(program[t]) \in Nat
      <4>1. task[t].stage \in Nat
        BY <1>1 DEF TaskInv, TypesOK, TaskSet
      <4>2. Len(program[t]) \in Nat
        BY <1>1, ProgramShape DEF TaskInv
      <4> QED
        BY <4>1, <4>2
    <3> QED
      BY <3>1, <3>2
  <2>2. ASSUME stage <= Len(program[t]), AddTimer(x) PROVE ClockOK'
    <3>1. what.n \in Nat /\ now \in Nat /\ t \in Nat /\ fresh \in Nat
      <4>1. program[t][stage] \in Stages
        BY <1>1, <1>4, <2>2, NextStage
      <4>2. Tasks = 1..Len(program) /\ Len(program) \in Nat
        BY ProgramShape DEF TaskInv
      <4> QED
        BY <1>1, <4>1, <4>2 DEF Stages, ClockOK, TaskInv, TypesOK
    <3> HIDE DEF what
    <3>2. now + what.n \in Nat /\ fresh + 1 \in Nat
      BY <3>1
    <3>3. x.at \in Nat /\ x.task \in Nat /\ x.op \in Nat \X Nat
      BY <3>1, <3>2
    <3>4. x \in TimerSet
      BY <3>3 DEF TimerSet
    <3> HIDE DEF x
    <3> QED
      BY <1>0, <2>2, <3>4, AddTimerClock
  <2> QED
    BY <1>3, <2>1, <2>2
<1>5. CASE /\ UNCHANGED <<armed, timerFd>>
           /\ CancelTasks({program[t][task[t].stage].n}, [task EXCEPT ![t].st = "done"])
  <2>1. timers' \subseteq timers
    BY <1>5 DEF CancelTasks
  <2> QED
    BY <1>0, <1>5, <2>1, ClockFewer
<1> QED
  BY <1>2, <1>3, <1>4, <1>5

LEMMA NextClock ==
  ASSUME TaskInv, ClockOK, [Next]_vars
  PROVE  ClockOK'
<1>1. CASE RunStep
  BY <1>1, RunStepClock
<1>2. CASE EndBatch \/ EpollWait \/ Interrupt
  <2>1. UNCHANGED <<timers, armed, timerFd, now>> /\ pc' # "look"
    BY <1>2 DEF EndBatch, EpollWait, Interrupt, NextTurn, timeVars
  <2> QED
    BY <2>1, ClockStill
<1>3. CASE FireTimers
  <2>1. UNCHANGED <<armed, timerFd, now>> /\ timers' \subseteq timers /\ pc' # "look"
    BY <1>3 DEF FireTimers
  <2> QED
    BY <2>1, ClockFewer
<1>4. CASE ArmTimerFd
  <2>1. ArmTimer(timers') /\ UNCHANGED <<timers, now>>
    BY <1>4 DEF ArmTimerFd
  <2>2. timers' \subseteq TimerSet
    BY <2>1 DEF ClockOK
  <2>3. /\ armed' \in Nat \cup {None} /\ timerFd' \in Nat \cup {None}
        /\ armed' # None => timerFd' # None /\ (timerFd' <= armed' \/ timerFd' <= now' + 1)
        /\ timers' # {} => armed' = LeftMost(timers').at
    BY <2>1, <2>2, ArmedAgain
  <2> QED
    BY <2>1, <2>2, <2>3 DEF ClockOK
<1>5. CASE DrainTimer
  BY <1>5 DEF DrainTimer, ClockOK
<1>6. CASE CloseScheduler
  <2>1. UNCHANGED <<armed, timerFd, now>> /\ timers' \subseteq timers /\ pc' # "look"
    BY <1>6 DEF CloseScheduler, CancelTasks
  <2> QED
    BY <2>1, ClockFewer
<1>7. CASE DrainInbox \/ RunActs \/ Drained \/ StopWorkers \/ JoinWorkers \/ Fork
  <2>1. UNCHANGED <<timers, armed, timerFd, now>> /\ (pc' = "look" => pc = "look")
    BY <1>7 DEF DrainInbox, RunActs, Drained, StopWorkers, JoinWorkers, Fork, timeVars
  <2> QED
    BY <2>1, ClockStill
<1>8. CASE Tick
  <2>1. UNCHANGED <<timers, armed, timerFd>> /\ now' = now + 1 /\ pc' = pc /\ now \in Nat
    BY <1>8 DEF Tick, timeVars, ClockOK
  <2>2. now' \in Nat /\ now <= now'
    BY <2>1
  <2> QED
    BY <2>1, <2>2, ClockQuiet
<1>9. ASSUME NEW w \in Worker, WorkerStep(w) \/ Spurious(w) PROVE ClockOK'
  <2>1. UNCHANGED <<timers, armed, timerFd, now, pc>>
    BY <1>9 DEF WorkerStep, TakeJob, CheckJob, RunPoint, PostTo, Spurious, timeVars
  <2> QED
    BY <2>1, ClockStill
<1>10. CASE UNCHANGED vars
  BY <1>10, ClockStill DEF vars, timeVars
<1> QED
  BY <1>1, <1>2, <1>3, <1>4, <1>5, <1>6, <1>7, <1>8, <1>9, <1>10 DEF Next, Turn

-----------------------------------------------------------------------------
(* The end: every task that can go on is in the run queue, so that the loop *)
(* ends with none of them left.                                             *)
InQ(q, t) == \E i \in 1..Len(q) : q[i] = t
Shut      == {"stop", "join", "closed"}
EndInv ==
  /\ pc \notin Shut => \A t \in Tasks : task[t].st \in {"ready", "pinned"} => InQ(runQ, t)
  /\ pc \in Closing /\ ~untilRoot => \A t \in Tasks : task[t].st \in {"done", "gone"}

LEMMA InTail ==
  ASSUME NEW q \in Seq(Tasks), NEW u, InQ(q, u), u # Head(q), q # <<>>
  PROVE  InQ(Tail(q), u)
<1>1. PICK i \in 1..Len(q) : q[i] = u
  BY DEF InQ
<1>2. /\ Len(q) \in Nat /\ Len(Tail(q)) = Len(q) - 1 /\ q[1] = Head(q)
      /\ \A k \in 1..Len(Tail(q)) : Tail(q)[k] = q[k + 1]
  OBVIOUS
<1>3. i # 1 /\ i - 1 \in 1..Len(Tail(q)) /\ (i - 1) + 1 = i
  BY <1>1, <1>2
<1>4. Tail(q)[i - 1] = q[(i - 1) + 1]
  BY <1>2, <1>3
<1> QED
  BY <1>1, <1>3, <1>4 DEF InQ

LEMMA InAppended ==
  ASSUME NEW q \in Seq(Tasks), NEW t \in Tasks
  PROVE  InQ(Append(q, t), t) /\ \A u : InQ(q, u) => InQ(Append(q, t), u)
<1>1. /\ Len(q) \in Nat /\ Len(Append(q, t)) = Len(q) + 1 /\ Append(q, t)[Len(q) + 1] = t
      /\ \A i \in 1..Len(q) : Append(q, t)[i] = q[i]
  OBVIOUS
<1>2. Len(q) + 1 \in 1..Len(Append(q, t)) /\ 1..Len(q) \subseteq 1..Len(Append(q, t))
  BY <1>1
<1> QED
  BY <1>1, <1>2 DEF InQ

LEMMA EndQuiet ==
  ASSUME EndInv, UNCHANGED <<program, task, runQ, untilRoot>>,
         pc' \in Shut \/ pc \notin Shut, pc' \in Closing => pc \in Closing
  PROVE  EndInv'
  BY DEF EndInv, Tasks

LEMMA CompleteEnd ==
  ASSUME TaskInv, EndInv, pc \notin Closing, pc' \notin Closing, UNCHANGED <<program, untilRoot>>,
         NEW t \in Tasks, NEW op, NEW left, Complete(t, op, left)
  PROVE  EndInv'
<1>1. pc \notin Shut /\ pc' \notin Shut /\ Tasks' = Tasks
  BY DEF Shut, Closing, Tasks
<1>2. CASE UNCHANGED taskVars
  BY <1>1, <1>2 DEF EndInv, taskVars
<1>3. CASE /\ task' = [task EXCEPT ![t] = [@ EXCEPT !.st = "ready", !.left = left]]
           /\ runQ' = Append(runQ, t)
  <2>1. \A u \in Tasks \ {t} : task'[u] = task[u]
    BY <1>3 DEF TaskInv, TypesOK
  <2>2. InQ(runQ', t) /\ \A u : InQ(runQ, u) => InQ(runQ', u)
    BY <1>3, InAppended DEF TaskInv, TypesOK
  <2> QED
    BY <1>1, <2>1, <2>2 DEF EndInv
<1> QED
  BY <1>2, <1>3 DEF Complete

LEMMA RunStepEnd ==
  ASSUME TaskInv, EndInv, RunStep
  PROVE  EndInv'
<1> PICK t : t = Head(runQ)
  OBVIOUS
<1> PICK rest : rest = Tail(runQ)
  OBVIOUS
<1>1. /\ t \in Tasks /\ rest \in Seq(Tasks) /\ runQ \in Seq(Tasks) /\ runQ # <<>>
      /\ pc = "batch" /\ pc' = "batch" /\ UNCHANGED <<program, untilRoot>> /\ Tasks' = Tasks
  BY DEF RunStep, TaskInv, TypesOK, config, Tasks
<1>2. task \in [Tasks -> TaskSet] /\ task[t] \in TaskSet
  BY <1>1 DEF TaskInv, TypesOK
<1>3. \A u \in Tasks : task[u].st \in {"ready", "pinned"} /\ u # t => InQ(rest, u)
  BY <1>1, InTail DEF EndInv, Shut
<1>4. InQ(Append(rest, t), t) /\ \A u : InQ(rest, u) => InQ(Append(rest, t), u)
  BY <1>1, InAppended
<1>5. ASSUME (runQ' = rest /\ task'[t].st \notin {"ready", "pinned"}) \/ runQ' = Append(rest, t),
             \A u \in Tasks \ {t} : task'[u].st \in {"ready", "pinned"} => task[u].st \in {"ready", "pinned"}
      PROVE  EndInv'
  BY <1>1, <1>3, <1>4, <1>5 DEF EndInv, Shut, Closing
<1>6. CASE task[t].st = "gone" /\ runQ' = rest /\ task' = task
  BY <1>5, <1>6
<1>7. CASE task[t].st = "ready" /\ Continue(t, rest)
  <2>1. \/ \E k : task' = [task EXCEPT ![t] = k] /\ k.st = "waiting" /\ runQ' = rest
        \/ task' = [task EXCEPT ![t].st = "done"] /\ runQ' = rest
        \/ (\E s : task' = [task EXCEPT ![t].st = "pinned", ![t].stage = s]) /\ runQ' = Append(rest, t)
    BY <1>7 DEF Continue
  <2>2. CASE \E k : task' = [task EXCEPT ![t] = k] /\ k.st = "waiting" /\ runQ' = rest
    BY <1>1, <1>2, <1>5, <2>2
  <2>3. CASE task' = [task EXCEPT ![t].st = "done"] /\ runQ' = rest
    BY <1>1, <1>2, <1>5, <2>3 DEF TaskSet
  <2>4. CASE (\E s : task' = [task EXCEPT ![t].st = "pinned", ![t].stage = s]) /\ runQ' = Append(rest, t)
    BY <1>1, <1>2, <1>5, <2>4
  <2> QED
    BY <2>1, <2>2, <2>3, <2>4
<1>8. CASE /\ task[t].st = "pinned" /\ runQ' = rest
           /\ CancelTasks({program[t][task[t].stage].n}, [task EXCEPT ![t].st = "done"])
  <2> DEFINE tasks == [task EXCEPT ![t].st = "done"]
  <2>1. tasks[t].st = "done" /\ \A u \in Tasks \ {t} : tasks[u] = task[u]
    BY <1>1, <1>2 DEF TaskSet
  <2>2. \A u \in Tasks : tasks[u] \in TaskSet
    <3>1. [task[t] EXCEPT !.st = "done"] \in TaskSet
      BY <1>2 DEF TaskSet, TaskStates
    <3> QED
      BY <1>1, <1>2, <3>1
  <2> HIDE DEF tasks
  <2>3. \A u \in Tasks : task'[u] = tasks[u] \/ task'[u] = [tasks[u] EXCEPT !.st = "gone"]
    BY <1>8 DEF CancelTasks, tasks
  <2>4. \A u \in Tasks : task'[u].st = tasks[u].st \/ task'[u].st = "gone"
    BY <2>2, <2>3 DEF TaskSet
  <2> QED
    BY <1>1, <1>5, <1>8, <2>1, <2>4
<1> QED
  BY <1>6, <1>7, <1>8 DEF RunStep

LEMMA InitEnd == Init => EndInv
<1> SUFFICES ASSUME Init PROVE EndInv
  OBVIOUS
<1>1. pc = "batch" /\ program \in Seq(Seq(Stages)) /\ runQ = [t \in Tasks |-> t]
  BY ProgramsAssumption DEF Init, Tasks
<1>2. Tasks = 1..Len(program) /\ Len(program) \in Nat
  BY <1>1 DEF Tasks
<1> DEFINE n == Len(program)
<1>3. n \in Nat /\ runQ = [t \in 1..n |-> t] /\ Tasks = 1..n
  BY <1>1, <1>2
<1> HIDE DEF n
<1>4. Len([t \in 1..n |-> t]) = n
  BY <1>3
<1>5. \A t \in Tasks : InQ(runQ, t)
  BY <1>3, <1>4 DEF InQ
<1> QED
  BY <1>1, <1>5 DEF EndInv, Closing

(* The loop ends with an empty run queue and nothing pending.               *)
LEMMA NothingLeft ==
  ASSUME TaskInv, EndInv, pc \notin Closing, runQ = <<>>, pending = 0
  PROVE  \A t \in Tasks : task[t].st \in {"done", "gone"}
<1>1. Waits = {}
  <2>1. IsFiniteSet(Waits) /\ Cardinality(Waits) = 0
    BY FewTasks DEF TaskInv, PendingOK, Waits
  <2> QED
    BY <2>1, FS_EmptySet
<1>2. \A t : ~InQ(runQ, t)
  BY DEF InQ
<1>3. \A t \in Tasks : task[t].st \in TaskStates
  BY DEF TaskInv, TypesOK, TaskSet
<1> QED
  BY <1>1, <1>2, <1>3 DEF EndInv, Waits, Shut, Closing, TaskStates

LEMMA NextEnd ==
  ASSUME TaskInv, EndInv, PcOK, [Next]_vars
  PROVE  EndInv'
<1>1. CASE RunStep
  BY <1>1, RunStepEnd
<1>2. CASE EndBatch \/ EpollWait \/ Interrupt
  <2>1. /\ UNCHANGED <<program, task, runQ, untilRoot>> /\ pc \notin Closing /\ pc \notin Shut
        /\ pc' \in {"fire", "drain", "batch", "close"} /\ Tasks' = Tasks
    BY <1>2 DEF EndBatch, EpollWait, Interrupt, NextTurn, taskVars, config, Closing, Shut, Tasks
  <2>2. CASE pc' # "close"
    <3>1. pc' \notin Closing
      BY <2>1, <2>2 DEF Closing
    <3> QED
      BY <2>1, <3>1, EndQuiet
  <2>3. CASE pc' = "close" /\ untilRoot
    BY <2>1, <2>3 DEF EndInv
  <2>4. CASE pc' = "close" /\ ~untilRoot
    <3>1. runQ = <<>> /\ pending = 0
      BY <1>2, <2>4 DEF EndBatch, EpollWait, Interrupt, NextTurn, Finished
    <3>2. \A t \in Tasks : task[t].st \in {"done", "gone"}
      BY <2>1, <3>1, NothingLeft
    <3> QED
      BY <2>1, <3>2 DEF EndInv
  <2> QED
    BY <2>2, <2>3, <2>4
<1>3. CASE FireTimers \/ RunActs
  <2>1. /\ pc \notin Closing /\ pc' \notin Closing /\ UNCHANGED <<program, untilRoot>>
    BY <1>3 DEF FireTimers, RunActs, config, Closing
  <2>2. CASE UNCHANGED taskVars
    BY <2>1, <2>2, EndQuiet DEF taskVars, Closing, Shut
  <2>3. CASE \E x \in timers : Complete(x.task, x.op, 0)
    <3>1. PICK x \in timers : Complete(x.task, x.op, 0)
      BY <2>3
    <3>2. x.task \in Tasks
      BY DEF TaskInv, ItemsOK, Timer
    <3> QED
      BY <2>1, <3>1, <3>2, CompleteEnd
  <2>4. CASE acts # <<>> /\ Complete(Head(acts).task, Head(acts).op, Head(acts).left)
    <3> PICK x : x = Head(acts)
      OBVIOUS
    <3>1. x = acts[1] /\ 1 \in 1..Len(acts)
      BY <2>4 DEF TaskInv, TypesOK
    <3>2. x.task \in Tasks
      BY <3>1 DEF TaskInv, ItemsOK, Job
    <3>3. Complete(x.task, x.op, x.left)
      BY <2>4
    <3> QED
      BY <2>1, <3>2, <3>3, CompleteEnd
  <2>5. FireTimers => \/ UNCHANGED taskVars
                      \/ \E x \in timers : Complete(x.task, x.op, 0)
    <3>1. ASSUME timers # {} PROVE LeftMost(timers) \in timers
      BY <3>1, LeftMostIsFirst DEF TaskInv, TypesOK
    <3> QED
      BY <3>1 DEF FireTimers
  <2>6. RunActs => \/ UNCHANGED taskVars
                   \/ acts # <<>> /\ Complete(Head(acts).task, Head(acts).op, Head(acts).left)
    BY DEF RunActs
  <2> QED
    BY <1>3, <2>2, <2>3, <2>4, <2>5, <2>6
<1>4. CASE CloseScheduler
  <2>1. /\ pc = "close" /\ pc' = "stop" /\ UNCHANGED <<program, untilRoot>> /\ Tasks' = Tasks
        /\ ~untilRoot => task' = task
    BY <1>4 DEF CloseScheduler, config, Tasks
  <2> QED
    BY <2>1 DEF EndInv, Shut, Closing
<1>5. CASE StopWorkers \/ JoinWorkers
  <2>1. UNCHANGED <<program, task, runQ, untilRoot>> /\ pc \in Closing /\ pc' \in Shut
    BY <1>5 DEF StopWorkers, JoinWorkers, taskVars, config, Closing, Shut
  <2> QED
    BY <2>1, EndQuiet
<1>6. CASE ArmTimerFd \/ DrainInbox \/ Drained
  <2>1. UNCHANGED <<program, task, runQ, untilRoot>> /\ pc \notin Closing /\ pc' \notin Closing /\ pc \notin Shut
    BY <1>6 DEF ArmTimerFd, DrainInbox, Drained, taskVars, config, Closing, Shut
  <2> QED
    BY <2>1, EndQuiet
<1>7. CASE Fork \/ DrainTimer \/ Tick
  <2>1. UNCHANGED <<program, task, runQ, untilRoot, pc>>
    BY <1>7 DEF Fork, DrainTimer, Tick, taskVars, config
  <2> QED
    BY <2>1, EndQuiet
<1>8. ASSUME NEW w \in Worker, WorkerStep(w) \/ Spurious(w) PROVE EndInv'
  <2>1. UNCHANGED <<program, task, runQ, untilRoot, pc>>
    BY <1>8 DEF WorkerStep, TakeJob, CheckJob, RunPoint, PostTo, Spurious, taskVars, config
  <2> QED
    BY <2>1, EndQuiet
<1>9. CASE UNCHANGED vars
  BY <1>9, EndQuiet DEF vars, taskVars, config
<1> QED
  BY <1>1, <1>2, <1>3, <1>4, <1>5, <1>6, <1>7, <1>8, <1>9 DEF Next, Turn

-----------------------------------------------------------------------------
(* All of it.                                                               *)
AllInv == IInv /\ TaskInv /\ ClockOK /\ PcOK /\ EndInv

LEMMA AllInvAlways == Spec => []AllInv
<1>1. Init => AllInv
  BY InitIInv, InitTasks, InitClock, InitPc, InitEnd DEF AllInv
<1>2. AllInv /\ [Next]_vars => AllInv'
  BY NextIInv, NextTasks, NextClock, NextPc, NextEnd DEF AllInv
<1> QED
  BY <1>1, <1>2, PTL DEF Spec

(* Nobody sleeps on work (drainInbox, armTimerFd, offload): while the       *)
(* scheduler waits, what was posted to it makes its event descriptor        *)
(* readable and its timer descriptor goes off no later than any timer; and  *)
(* no job waits beside a worker that sleeps or could have been started.     *)
THEOREM NobodyOversleeps == Spec => []NobodySleepsOnWork
<1>1. AllInv => TimerWakes
  <2> SUFFICES ASSUME AllInv, Sleeps, NEW x \in timers
               PROVE  timerFd # None /\ (timerFd <= x.at \/ timerFd <= now + 1)
    BY DEF TimerWakes
  <2> DEFINE first == LeftMost(timers).at
  <2>1. armed = first /\ first \in Nat /\ first <= x.at /\ timers \subseteq TimerSet
    BY LeftMostTime DEF AllInv, ClockOK, Sleeps
  <2> HIDE DEF first
  <2>2. /\ armed \in Nat /\ x.at \in Nat /\ armed # None /\ timerFd \in Nat \cup {None} /\ now \in Nat
    BY <2>1, WorkersAssumption DEF AllInv, ClockOK, TimerSet
  <2>3. timerFd # None /\ (timerFd <= armed \/ timerFd <= now + 1)
    BY <2>2 DEF AllInv, ClockOK
  <2> QED
    BY <2>1, <2>2, <2>3
<1>2. AllInv => InboxWakes /\ JobsWakeWorkers
  BY DEF AllInv, IInv, PoolInv, InboxOK, InboxWakes, Sleeps, Poking
<1> QED
  BY <1>1, <1>2, AllInvAlways, PTL DEF NobodySleepsOnWork

-----------------------------------------------------------------------------
(* The one place of an operation that is pending.                           *)

LEMMA OnePlace ==
  ASSUME AllInv, NEW t \in Tasks, task[t].st = "waiting"
  PROVE  Cardinality(Places(t)) = 1
<1> DEFINE Its(x) == x.task = t /\ x.op = task[t].op
           T == {<<"timer", x>> : x \in {y \in timers : Its(y)}}
           Q == {<<"queue", i>> : i \in {k \in DOMAIN queue : Its(queue[k])}}
           W == {<<"worker", w>> : w \in {v \in Worker : wpc[v] \in {"check", "run", "post"} /\ Its(job[v])}}
           I == {<<"inbox", i>> : i \in {k \in DOMAIN inbox : Its(inbox[k])}}
           A == {<<"acts", i>> : i \in {k \in DOMAIN acts : Its(acts[k])}}
<1>1. /\ queue \in Seq(Jobs) /\ inbox \in Seq(Jobs) /\ acts \in Seq(Jobs) /\ timers \subseteq TimerSet
      /\ DOMAIN queue = 1..Len(queue) /\ DOMAIN inbox = 1..Len(inbox) /\ DOMAIN acts = 1..Len(acts)
  BY DEF AllInv, TaskInv, TypesOK
<1>2. /\ \A x \in timers : x.task = t => x.op = task[t].op
      /\ \A i \in 1..Len(queue) : queue[i].task = t => Its(queue[i])
      /\ \A i \in 1..Len(inbox) : inbox[i].task = t => Its(inbox[i])
      /\ \A i \in 1..Len(acts) : acts[i].task = t => Its(acts[i])
  BY <1>1 DEF AllInv, TaskInv, ItemsOK, Timer, TimerOK, Job, JobOK
<1>3. \A w \in Worker : wpc[w] \in {"check", "run", "post"} /\ Its(job[w]) <=> wpc[w] \in Has /\ job[w].task = t
  BY DEF AllInv, TaskInv, ItemsOK, Has, Job, JobOK
<1>4. Place("waiting", Timed(t), Holds(queue, t), Worked(t), Holds(inbox, t), Holds(acts, t))
  BY DEF AllInv, TaskInv, PlacesOK
<1>5. /\ \A x, y \in timers : x.task = t /\ y.task = t => x = y
      /\ \A i, k \in 1..Len(queue) : queue[i].task = t /\ queue[k].task = t => i = k
      /\ \A i, k \in 1..Len(inbox) : inbox[i].task = t /\ inbox[k].task = t => i = k
      /\ \A i, k \in 1..Len(acts) : acts[i].task = t /\ acts[k].task = t => i = k
      /\ \A v, w \in Worker : wpc[v] \in Has /\ job[v].task = t /\ wpc[w] \in Has /\ job[w].task = t => v = w
  BY DEF AllInv, TaskInv, PlacesOK, Once
<1>6. Places(t) = T \cup Q \cup W \cup I \cup A
  BY DEF Places
<1>7. /\ Timed(t) <=> T # {}
      /\ Holds(queue, t) <=> Q # {}
      /\ Worked(t) <=> W # {}
      /\ Holds(inbox, t) <=> I # {}
      /\ Holds(acts, t) <=> A # {}
  <2>1. Timed(t) <=> T # {}
    BY <1>2 DEF Timed
  <2>2. Holds(queue, t) <=> Q # {}
    BY <1>1, <1>2 DEF Holds
  <2>3. Worked(t) <=> W # {}
    BY <1>3 DEF Worked
  <2>4. Holds(inbox, t) <=> I # {}
    BY <1>1, <1>2 DEF Holds
  <2>5. Holds(acts, t) <=> A # {}
    BY <1>1, <1>2 DEF Holds
  <2> QED
    BY <2>1, <2>2, <2>3, <2>4, <2>5
<1>8. /\ \A p, q \in T : p = q
      /\ \A p, q \in Q : p = q
      /\ \A p, q \in W : p = q
      /\ \A p, q \in I : p = q
      /\ \A p, q \in A : p = q
  <2>1. \A p, q \in T : p = q
    BY <1>5
  <2>2. \A p, q \in Q : p = q
    BY <1>1, <1>5
  <2>3. \A p, q \in W : p = q
    BY <1>3, <1>5
  <2>4. \A p, q \in I : p = q
    BY <1>1, <1>5
  <2>5. \A p, q \in A : p = q
    BY <1>1, <1>5
  <2> QED
    BY <2>1, <2>2, <2>3, <2>4, <2>5
<1> HIDE DEF T, Q, W, I, A
<1>9. \E x : Places(t) = {x}
  <2>1. Places(t) # {} /\ \A p, q \in Places(t) : p = q
    BY <1>4, <1>6, <1>7, <1>8 DEF Place, One
  <2>2. PICK x \in Places(t) : TRUE
    BY <2>1
  <2>3. Places(t) = {x}
    BY <2>1
  <2> QED
    BY <2>3
<1> QED
  BY <1>9, FS_Singleton

(* A result arrives: an operation that is pending is in one place, from its *)
(* start to the moment its result is run; the loop ends only when nothing   *)
(* is left to do; and a task that has ended has run each Point of each of   *)
(* its stages once (runAsync, offload, postTo, drainInbox, turn).           *)
THEOREM ResultsAlwaysArrive == Spec => []ResultsArrive
<1>1. AllInv => TypeOK
  <2> SUFFICES ASSUME AllInv PROVE TypeOK
    OBVIOUS
  <2>1. pending \in 0..Len(program)
    BY FewTasks DEF AllInv, TaskInv, PendingOK, Waits
  <2>2. idlers = Cardinality({w \in Worker : wpc[w] \in {"wait", "woken"}})
    BY DEF AllInv, IInv, PoolInv, IdlersOK, Idle
  <2>3. forking \in Worker \cup {None} /\ started \in 0..limit
    BY DEF AllInv, IInv, PoolInv, WorkersOK
  <2>4. ASSUME NEW w \in Worker
        PROVE  /\ wpc[w] \in {"none", "start", "check", "run", "post", "poke", "wait", "woken", "ended"}
               /\ (job[w] # None) = (wpc[w] \in {"check", "run", "post", "poke"})
    <3>1. job[w] # None <=> wpc[w] \in Busy
      BY DEF AllInv, TaskInv, TypesOK
    <3> QED
      BY <3>1 DEF AllInv, IInv, PoolInv, WorkersOK, WorkerStates, Busy
  <2>5. /\ pc \in {"batch", "fire", "arm", "look", "drain", "take", "acts", "close", "stop", "join", "closed"}
        /\ evs \subseteq {"inbox", "timer"} /\ budget \in 0..StepBudget
    BY DEF AllInv, PcOK, Pcs, Closing
  <2> QED
    BY <2>1, <2>2, <2>3, <2>4, <2>5 DEF TypeOK
<1>2. AllInv => pending = Cardinality({t \in Tasks : task[t].st = "waiting"})
  BY DEF AllInv, TaskInv, PendingOK, Waits
<1>3. ASSUME AllInv, NEW t \in Tasks, task[t].st = "done",
             NEW i \in DOMAIN program[t], program[t][i].kind = "points"
      PROVE  ran[t][i] = program[t][i].n
  <2>1. /\ Len(program[t]) \in Nat /\ program[t] \in Seq(Stages) /\ DOMAIN program[t] = 1..Len(program[t])
    BY <1>3, ProgramShape DEF AllInv, TaskInv
  <2>2. TaskOK(t, program[t], task[t], ran[t]) /\ ran[t] \in [1..Len(program[t]) -> Nat]
    BY <1>3 DEF AllInv, TaskInv, TypesOK, ProgressOK
  <2>3. ran[t][i] \in Nat /\ ran[t][i] + 0 = ran[t][i] /\ (i < Len(program[t]) \/ i = Len(program[t]))
    BY <2>1, <2>2
  <2>4. task[t].left = 0 /\ task[t].stage = Len(program[t])
    BY <1>3, <2>2 DEF TaskOK
  <2> QED
    BY <1>3, <2>1, <2>2, <2>3, <2>4 DEF TaskOK
<1>4. AllInv /\ pc \in {"close", "stop", "join", "closed"} /\ ~untilRoot =>
        \A t \in Tasks : task[t].st \in {"done", "gone"}
  BY DEF AllInv, EndInv, Closing
<1>5. AllInv => ResultsArrive
  BY <1>1, <1>2, <1>3, <1>4, OnePlace DEF ResultsArrive
<1> QED
  BY <1>5, AllInvAlways, PTL
=============================================================================
