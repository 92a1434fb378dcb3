---------------------------- MODULE TaskScheduler ----------------------------
(***************************************************************************)
(* The interpreter of Control.Task (control-async,                         *)
(* Control/Task/Scheduler.idr): scopes and their cancellation, the queue   *)
(* of ready steps, operations that complete later, races, joins and        *)
(* finalizers.  Everything here runs on the scheduler's one thread.        *)
(*                                                                         *)
(* A strand is one chain of continuations.  The strand `cur` is running:   *)
(* it interprets constructors of Task, one action each, until it suspends; *)
(* the next ready step then starts.  What a program does next is open, so  *)
(* every constructor may come next; the identities it needs are used once, *)
(* which bounds the program.                                               *)
(***************************************************************************)
EXTENDS Naturals, Sequences, FiniteSets

CONSTANTS Scope, Root,
          Strand,
          Op,          (* operations started by Async and Handoff           *)
          Handoffs,    (* those started by Handoff                          *)
          Fin,         (* finalizers started by Finally                     *)
          Owned,       (* strands that own something when they are spawned  *)
          MaxCalls,    (* how often an operation may call its completion    *)
          None

ASSUME RootAssumption == Root \in Scope
ASSUME OpAssumption   == Handoffs \subseteq Op /\ Owned \subseteq Strand
ASSUME CallAssumption == MaxCalls \in Nat
ASSUME NoneAssumption == None \notin Scope \cup Strand \cup Op \cup Fin
ASSUME NameAssumption == Strand \cap Op = {} /\ Strand \cap Fin = {} /\ Op \cap Fin = {}
ASSUME ScopeAssumption  == Scope \cap Strand = {}
ASSUME FiniteAssumption == IsFiniteSet(Op)

VARIABLES
  made,      (* scopes created                                              *)
  parent,    (* the scope a scope was created under                         *)
  cancelled, (* Scope.cancelled                                             *)
  linked,    (* scopes in the children of their parent                      *)
  cleanups,  (* Scope.cleanups: operations and finalizers                   *)
  runQ,      (* the ready steps                                             *)
  cur,       (* the strand that is running, or None                         *)
  begun,     (* strands created                                             *)
  scopeOf,   (* the scope of a strand, an operation or a finalizer          *)
  role,      (* what a strand's end leads to                                *)
  outer,     (* the strand a race or a join continues                       *)
  arrived,   (* races (their scope) that are won, joins with one result     *)
  frames,    (* the finalizers a strand is inside, innermost last           *)
  waiter,    (* the strand that waits for an operation                      *)
  fired,     (* operations that are over                                    *)
  pending,   (* Scheduler.pending                                           *)
  starting,  (* the operation whose callback is running, or None            *)
  late,      (* history: operations whose scope was cancelled meanwhile     *)
  calls,     (* how often each completion has been called                   *)
  consumed,  (* values of a Handoff its continuation has started with       *)
  undone,    (* values of a Handoff given to its undo                       *)
  over,      (* finalizers that are over                                    *)
  released,  (* how often each release action has run                       *)
  closed     (* closeScheduler has run                                      *)

scopeVars  == <<made, parent, cancelled, linked>>
strandVars == <<begun, role, outer, arrived>>
valueVars  == <<calls, consumed, undone>>
opVars     == <<waiter, fired, pending, starting, late>>
finVars    == <<over, released>>
vars == <<scopeVars, cleanups, runQ, cur, strandVars, scopeOf, frames, opVars,
          valueVars, finVars, closed>>
-----------------------------------------------------------------------------
(* A ready step: resume a strand, with a value that must not be lost, or    *)
(* start one that owns something.  `own` is what `drop` would hand back.    *)
Step(sc, t, own) == [scope |-> sc, strand |-> t, own |-> own]
Ready            == {runQ[i] : i \in 1..Len(runQ)}
Enqueue(step)    == runQ' = Append(runQ, step)

Add(f, x) == [f EXCEPT ![x] = @ + 1]
Running(t) == cur = t /\ ~closed /\ starting = None
Here       == scopeOf[cur]

Init ==
  /\ made      = {Root}
  /\ parent    = [sc \in Scope |-> None]
  /\ cancelled = [sc \in Scope |-> FALSE]
  /\ linked    = {}
  /\ cleanups  = [sc \in Scope |-> {}]
  /\ runQ      = <<>>
  /\ cur       = None
  /\ begun     = {}
  /\ scopeOf   = [x \in Strand \cup Op \cup Fin |-> None]
  /\ role      = [t \in Strand |-> None]
  /\ outer     = [t \in Strand |-> None]
  /\ arrived   = {}
  /\ frames    = [t \in Strand |-> <<>>]
  /\ waiter    = [o \in Op |-> None]
  /\ fired     = {}
  /\ pending   = 0
  /\ starting  = None
  /\ late      = {}
  /\ calls     = [o \in Op |-> 0]
  /\ consumed  = [o \in Op |-> 0]
  /\ undone    = [o \in Op |-> 0]
  /\ over      = {}
  /\ released  = [x \in Fin \cup Owned |-> 0]
  /\ closed    = FALSE

NewStrands(T, sc, what, o) ==
  /\ begun'   = begun \cup T
  /\ role'    = [t \in Strand |-> IF t \in T THEN what ELSE role[t]]
  /\ outer'   = [t \in Strand |-> IF t \in T THEN o ELSE outer[t]]
  /\ scopeOf' = [x \in DOMAIN scopeOf |-> IF x \in T THEN sc ELSE scopeOf[x]]

NewScope(sc, under) ==
  /\ made'   = made \cup {sc}
  /\ parent' = [parent EXCEPT ![sc] = under]
  /\ linked' = linked \cup {sc}

(* submit and submitHandle: the task is run at once, in the root scope or   *)
(* in a child of it that the handle can cancel.                             *)
Submit(t) ==
  /\ cur = None /\ ~closed
  /\ t \notin begun
  /\ NewStrands({t}, Root, "submitted", None)
  /\ cur' = t
  /\ UNCHANGED <<scopeVars, cleanups, runQ, arrived, frames, opVars, valueVars, finVars, closed>>

SubmitHandle(t, sc) ==
  /\ cur = None /\ ~closed
  /\ t \notin begun /\ sc \notin made
  /\ NewScope(sc, Root)
  /\ NewStrands({t}, sc, "handle", None)
  /\ cur' = t
  /\ UNCHANGED <<cancelled, cleanups, runQ, arrived, frames, opVars, valueVars, finVars, closed>>

(* runBatch: the next ready step; one whose scope is cancelled is dropped.  *)
Handed(step) == step.own \in Handoffs

(* Mutant: a dropped step is just gone.                                     *)
RunStepForget ==
  /\ cur = None /\ ~closed /\ runQ # <<>>
  /\ LET step == Head(runQ) IN
     /\ runQ' = Tail(runQ)
     /\ IF cancelled[step.scope]
        THEN UNCHANGED <<cur, consumed>>
        ELSE /\ cur' = step.strand
             /\ consumed' = IF Handed(step) THEN Add(consumed, step.own) ELSE consumed
  /\ UNCHANGED <<scopeVars, cleanups, strandVars, scopeOf, frames, opVars, calls,
                 undone, over, released, closed>>

(* Mutant: a step of a cancelled scope is put off.                          *)
RunStepPutOff ==
  /\ cur = None /\ ~closed /\ runQ # <<>>
  /\ LET step == Head(runQ) IN
     IF cancelled[step.scope]
     THEN runQ' = Append(Tail(runQ), step) /\ UNCHANGED <<cur, consumed>>
     ELSE /\ runQ' = Tail(runQ)
          /\ cur'  = step.strand
          /\ consumed' = IF Handed(step) THEN Add(consumed, step.own) ELSE consumed
  /\ UNCHANGED <<scopeVars, cleanups, strandVars, scopeOf, frames, opVars, calls,
                 undone, over, released, closed>>

RunStep ==
  /\ cur = None /\ ~closed /\ runQ # <<>>
  /\ LET step == Head(runQ) IN
     /\ runQ' = Tail(runQ)
     /\ IF cancelled[step.scope]
        THEN /\ undone'   = IF Handed(step) THEN Add(undone, step.own) ELSE undone
             /\ released' = IF step.own \in Owned THEN Add(released, step.own) ELSE released
             /\ UNCHANGED <<cur, consumed>>
        ELSE /\ cur' = step.strand
             /\ consumed' = IF Handed(step) THEN Add(consumed, step.own) ELSE consumed
             /\ UNCHANGED <<undone, released>>
  /\ UNCHANGED <<scopeVars, cleanups, strandVars, scopeOf, frames, opVars, calls,
                 over, closed>>
-----------------------------------------------------------------------------
(* The constructors of Task, interpreted by the running strand t.           *)

(* Pinned and Point: the action is a step of its own.                       *)
Pinned(t) ==
  /\ Running(t)
  /\ Enqueue(Step(Here, t, None))
  /\ cur' = None
  /\ UNCHANGED <<scopeVars, cleanups, strandVars, scopeOf, frames, opVars, valueVars, finVars, closed>>

(* Spawn and SpawnOwning: the strand goes on.                               *)
Spawn(t, u) ==
  /\ Running(t)
  /\ u \notin begun
  /\ NewStrands({u}, Here, "spawned", None)
  /\ Enqueue(Step(Here, u, IF u \in Owned THEN u ELSE None))
  /\ UNCHANGED <<scopeVars, cleanups, cur, arrived, frames, opVars, valueVars, finVars, closed>>

Both(t, u, v) ==
  /\ Running(t)
  /\ u # v /\ {u, v} \cap begun = {}
  /\ NewStrands({u, v}, Here, "both", t)
  /\ arrived' = arrived \ {t}
  /\ runQ' = runQ \o <<Step(Here, u, None), Step(Here, v, None)>>
  /\ cur' = None
  /\ UNCHANGED <<scopeVars, cleanups, frames, opVars, valueVars, finVars, closed>>

(* runRace: a new scope under this one, whether or not this one has been    *)
(* cancelled, and both sides in it.                                         *)
Race(t, u, v, sc) ==
  /\ Running(t)
  /\ u # v /\ {u, v} \cap begun = {}
  /\ sc \notin made
  /\ NewScope(sc, Here)
  /\ NewStrands({u, v}, sc, "race", t)
  /\ runQ' = runQ \o <<Step(sc, u, None), Step(sc, v, None)>>
  /\ cur' = None
  /\ UNCHANGED <<cancelled, cleanups, arrived, frames, opVars, valueVars, finVars, closed>>

(* runAsync and runHandoff: nothing in a cancelled scope (the strand ends); *)
(* or else the operation is counted and its callback runs: the program's    *)
(* code, which may cancel tasks, the one it is in among them, and complete  *)
(* operations, itself among them.                                           *)
Start(t, o) ==
  /\ Running(t)
  /\ scopeOf[o] = None
  /\ IF cancelled[Here] THEN cur' = None /\ UNCHANGED <<scopeOf, waiter, pending, starting>>
     ELSE /\ scopeOf'  = [scopeOf EXCEPT ![o] = Here]
          /\ waiter'   = [waiter  EXCEPT ![o] = t]
          /\ pending'  = pending + 1
          /\ starting' = o
          /\ UNCHANGED cur
  /\ UNCHANGED <<scopeVars, cleanups, runQ, strandVars, frames, fired, late, valueVars, finVars, closed>>

(* The callback is back: unless the operation is over, a cleanup of its     *)
(* scope gives it up, whether or not the scope is still alive.              *)
Register(t) ==
  /\ cur = t /\ ~closed /\ starting # None
  /\ LET o  == starting
         sc == scopeOf[o]
     IN IF o \in fired THEN UNCHANGED <<cleanups, late>>
        ELSE /\ cleanups' = [cleanups EXCEPT ![sc] = @ \cup {o}]
             /\ late' = late \cup {x \in {o} : cancelled[sc]}
  /\ starting' = None
  /\ cur'      = None
  /\ UNCHANGED <<scopeVars, runQ, strandVars, scopeOf, frames, waiter, fired, pending, valueVars, finVars, closed>>

(* Mutant: the test of the scope forgotten.                                 *)
FinallyAnyway(t, f) ==
  /\ Running(t)
  /\ scopeOf[f] = None
  /\ scopeOf'  = [scopeOf  EXCEPT ![f] = Here]
  /\ cleanups' = [cleanups EXCEPT ![Here] = @ \cup {f}]
  /\ frames'   = [frames   EXCEPT ![t] = Append(@, f)]
  /\ UNCHANGED <<released, over, cur>>
  /\ UNCHANGED <<scopeVars, runQ, strandVars, opVars, valueVars, closed>>

(* runFinally: in a cancelled scope the action runs at once and the task    *)
(* does not; or else it is a cleanup until the task ends.                   *)
Finally(t, f) ==
  /\ Running(t)
  /\ scopeOf[f] = None
  /\ scopeOf' = [scopeOf EXCEPT ![f] = Here]
  /\ IF cancelled[Here]
     THEN /\ released' = Add(released, f)
          /\ over' = over \cup {f}
          /\ cur'  = None
          /\ UNCHANGED <<cleanups, frames>>
     ELSE /\ cleanups' = [cleanups EXCEPT ![Here] = @ \cup {f}]
          /\ frames'   = [frames   EXCEPT ![t] = Append(@, f)]
          /\ UNCHANGED <<released, over, cur>>
  /\ UNCHANGED <<scopeVars, runQ, strandVars, opVars, valueVars, closed>>

(* Empty: never finishes.                                                   *)
Empty(t) ==
  /\ Running(t)
  /\ cur' = None
  /\ UNCHANGED <<scopeVars, cleanups, runQ, strandVars, scopeOf, frames, opVars, valueVars, finVars, closed>>
-----------------------------------------------------------------------------
(* cancelScope: the scope and those below it that are not cancelled yet,    *)
(* the smallest set that has with a scope its children.                     *)
Kids(S)   == {sc \in linked : parent[sc] \in S /\ ~cancelled[sc]}
Closed(S) == Kids(S) \subseteq S
(* Mutant: the scopes below are forgotten.                                  *)
BelowNothing(sc) == IF cancelled[sc] THEN {} ELSE {sc}

Below(sc) ==
  {x \in Scope : ~cancelled[sc] /\ \A S \in SUBSET Scope : sc \in S /\ Closed(S) => x \in S}

(* Mutant: nothing is given up.                                             *)
CleanedNothing(S) == {}

Cleaned(S) == UNION {cleanups[sc] : sc \in S}

(* Cancel the scopes S, and take `detached` out of its parent's children.   *)
Cancel(S, detached) ==
  /\ cancelled' = [sc \in Scope |-> cancelled[sc] \/ sc \in S]
  /\ cleanups'  = [sc \in Scope |-> IF sc \in S THEN {} ELSE cleanups[sc]]
  /\ linked'    = {sc \in linked : parent[sc] \notin S} \ {detached}
  /\ fired'     = fired \cup ((Cleaned(S) \cap Op))
  /\ pending'   = pending - Cardinality((Cleaned(S) \cap Op) \ fired)
  /\ over'      = over \cup (Cleaned(S) \cap Fin)
  /\ released'  = [x \in DOMAIN released |->
                     IF x \in (Cleaned(S) \cap Fin) \ over THEN released[x] + 1 ELSE released[x]]

(* cancelTask, called outside any step, by a running strand, which may be   *)
(* one of those given up, or by the callback of an operation.               *)
CancelTask(sc) ==
  /\ ~closed
  /\ sc \in made /\ \E t \in begun : role[t] = "handle" /\ scopeOf[t] = sc
  /\ ~cancelled[sc]
  /\ Cancel(Below(sc), sc)
  /\ UNCHANGED <<made, parent, runQ, cur, strandVars, scopeOf, frames, waiter, starting, late, valueVars, closed>>

(* runFinally: the task inside the innermost finalizer ends.                *)
EndFinally(t) ==
  /\ Running(t)
  /\ frames[t] # <<>>
  /\ LET f == frames[t][Len(frames[t])] IN
     IF f \in over
     THEN cur' = None /\ UNCHANGED <<over, released, cleanups, frames>>
     ELSE /\ over'     = over \cup {f}
          /\ released' = Add(released, f)
          /\ cleanups' = [cleanups EXCEPT ![Here] = @ \ {f}]
          /\ frames'   = [frames   EXCEPT ![t] = SubSeq(@, 1, Len(@) - 1)]
          /\ UNCHANGED cur
  /\ UNCHANGED <<scopeVars, runQ, strandVars, scopeOf, opVars, valueVars, closed>>

Ending(t, what) == Running(t) /\ frames[t] = <<>> /\ role[t] = what

(* A submitted or spawned task ends; a handle is detached.                  *)
EndAlone(t) ==
  /\ \E what \in {"submitted", "spawned", "handle"} : Ending(t, what)
  /\ linked' = IF role[t] = "handle" THEN linked \ {Here} ELSE linked
  /\ cur' = None
  /\ UNCHANGED <<made, parent, cancelled, cleanups, runQ, strandVars, scopeOf, frames,
                 opVars, valueVars, finVars, closed>>

(* runBoth: the second of the two results goes on.                          *)
EndBoth(t) ==
  /\ Ending(t, "both")
  /\ IF outer[t] \in arrived
     THEN Enqueue(Step(Here, outer[t], None)) /\ UNCHANGED arrived
     ELSE arrived' = arrived \cup {outer[t]} /\ UNCHANGED runQ
  /\ cur' = None
  /\ UNCHANGED <<scopeVars, cleanups, begun, role, outer, scopeOf, frames, opVars,
                 valueVars, finVars, closed>>

(* Mutant: each side that ends goes on.                                     *)
EndRaceEach(t) ==
  /\ Ending(t, "race")
  /\ cur' = None
  /\ Enqueue(Step(parent[Here], outer[t], None))
  /\ UNCHANGED <<scopeVars, cleanups, strandVars, scopeOf, frames, opVars, valueVars, finVars, closed>>

(* runRace, finish: the first to end cancels the scope of the race.         *)
EndRace(t) ==
  /\ Ending(t, "race")
  /\ cur' = None
  /\ IF Here \in arrived
     THEN UNCHANGED <<arrived, runQ, cancelled, cleanups, linked, fired, pending, over, released>>
     ELSE /\ arrived' = arrived \cup {Here}
          /\ Cancel(Below(Here), Here)
          /\ Enqueue(Step(parent[Here], outer[t], None))
  /\ UNCHANGED <<made, parent, begun, role, outer, scopeOf, frames, waiter, starting, late, valueVars, closed>>
-----------------------------------------------------------------------------
(* An operation calls its completion: from a source, from the step that     *)
(* runs or from its own callback; possibly again, or after it was given up. *)
Complete(o) ==
  /\ scopeOf[o] # None /\ ~closed
  /\ calls[o] < MaxCalls
  /\ calls' = Add(calls, o)
  /\ IF o \in fired
     THEN /\ undone' = IF o \in Handoffs THEN Add(undone, o) ELSE undone
          /\ UNCHANGED <<fired, pending, cleanups, runQ>>
     ELSE /\ fired'    = fired \cup {o}
          /\ pending'  = pending - 1
          /\ cleanups' = [cleanups EXCEPT ![scopeOf[o]] = @ \ {o}]
          /\ Enqueue(Step(scopeOf[o], waiter[o], o))
          /\ UNCHANGED undone
  /\ UNCHANGED <<scopeVars, cur, strandVars, scopeOf, frames, waiter, starting, late, consumed, finVars, closed>>

(* closeScheduler: the steps still ready are dropped.                       *)
Close ==
  /\ cur = None /\ ~closed /\ begun # {}
  /\ closed' = TRUE
  /\ runQ'   = <<>>
  /\ undone' = [o \in Op |-> undone[o] + Cardinality({step \in Ready : step.own = o /\ o \in Handoffs})]
  /\ released' = [x \in DOMAIN released |->
                    released[x] + Cardinality({step \in Ready : step.own = x})]
  /\ UNCHANGED <<scopeVars, cleanups, cur, strandVars, scopeOf, frames, opVars, calls, consumed, over>>

Interpret(t) ==
  \/ Pinned(t) \/ Empty(t)
  \/ \E u \in Strand : Spawn(t, u)
  \/ \E u, v \in Strand : Both(t, u, v)
  \/ \E u, v \in Strand, sc \in Scope : Race(t, u, v, sc)
  \/ \E o \in Op : Start(t, o)
  \/ Register(t)
  \/ \E f \in Fin : Finally(t, f)
  \/ EndFinally(t) \/ EndAlone(t) \/ EndBoth(t) \/ EndRace(t)

Turn == RunStep \/ \E t \in Strand : Interpret(t)

Next ==
  \/ Turn
  \/ \E t \in Strand : Submit(t) \/ \E sc \in Scope : SubmitHandle(t, sc)
  \/ \E sc \in Scope : CancelTask(sc)
  \/ \E o \in Op : Complete(o)
  \/ Close

(* The thread of the scheduler runs steps as long as it has some, and the   *)
(* program's code it calls returns.                                         *)
Spec     == Init /\ [][Next]_vars
FairSpec == Spec /\ WF_vars(Turn)
-----------------------------------------------------------------------------
Roles == {"submitted", "handle", "spawned", "both", "race", None}

(* Type invariant.                                                          *)
TypeOK ==
  /\ made \subseteq Scope /\ linked \subseteq made
  /\ parent    \in [Scope -> made \cup {None}]
  /\ cancelled \in [Scope -> BOOLEAN]
  /\ cleanups  \in [Scope -> SUBSET (Op \cup Fin)]
  /\ cur \in begun \cup {None} /\ begun \subseteq Strand
  /\ \A x \in DOMAIN scopeOf : scopeOf[x] \in made \cup {None}
  /\ role  \in [Strand -> Roles]
  /\ outer \in [Strand -> begun \cup {None}]
  /\ fired \subseteq Op /\ over \subseteq Fin
  /\ \A step \in Ready : step.scope \in made /\ step.strand \in begun
  /\ pending \in 0..Cardinality(Op)
  /\ starting \in Op \cup {None} /\ late \subseteq Op

StepsOf(t)   == {i \in 1..Len(runQ) : runQ[i].strand = t}
WaitsFor(t)  == {o \in Op : waiter[o] = t /\ o \notin fired}
RacesOf(t)   == {sc \in made \ arrived : ~cancelled[sc] /\
                   \E u \in begun : role[u] = "race" /\ outer[u] = t /\ scopeOf[u] = sc}

(* A continuation goes on once: a strand is running, or has one step ready, *)
(* or waits for one operation or one race, never two of these, although     *)
(* completions come twice, both sides of a race end, and cancellations fall *)
(* in between (`fired`, `won`, `ra`/`rb`).                                  *)
OneContinuation ==
  /\ TypeOK
  /\ \A t \in begun :
       Cardinality(StepsOf(t)) + Cardinality(WaitsFor(t)) + Cardinality(RacesOf(t))
         + (IF cur = t /\ starting = None THEN 1 ELSE 0) <= 1

(* "Exactly one of the two happens" (Control.Task.handoff): every value a   *)
(* completion was called with is on its way in a ready step, has been       *)
(* started with, or has been undone, once, and is never lost.               *)
HandoffExactlyOnce ==
  \A h \in Handoffs :
    /\ consumed[h] + undone[h] + Cardinality({i \in 1..Len(runQ) : runQ[i].own = h}) = calls[h]
    /\ consumed[h] <= 1

(* Whatever is open can be given up, and nothing that is over is given up   *)
(* again.  "In both cases once" (Control.Task.finally, spawnOwning): a      *)
(* release runs at most once, it has run when the finalizer is over, and    *)
(* until then it is a cleanup of a scope that is not cancelled.  An         *)
(* operation that is not over is in its callback or can be given up by its  *)
(* scope; a cancelled scope has such an operation only where the            *)
(* operation's own callback was running while the scope was cancelled:      *)
(* runAsync tests the scope before the callback and not after it, so that   *)
(* operation goes on until it completes.  `pending` counts exactly these,   *)
(* and `turn` decides on it that nothing is left, although completions come *)
(* twice and after a cancellation.                                          *)
NoOrphans ==
  LET open == {o \in Op : scopeOf[o] # None /\ o \notin fired}
  IN /\ \A x \in DOMAIN released : released[x] <= 1
     /\ \A f \in Fin : scopeOf[f] # None =>
          \/ f \in over /\ released[f] = 1
          \/ f \notin over /\ f \in cleanups[scopeOf[f]] /\ ~cancelled[scopeOf[f]]
     /\ \A o \in open \ {starting} :
          o \in cleanups[scopeOf[o]] /\ (cancelled[scopeOf[o]] => o \in late)
     /\ pending = Cardinality(open)

(* Giving a task up is one step, with everything that is below it at that   *)
(* moment: no scope is passed over on the way down (cancelScope).           *)
CancelTakesAll ==
  [][\A sc \in made :
       /\ parent[sc] # None
       /\ cancelled'[parent[sc]] /\ ~cancelled[parent[sc]]
       => cancelled'[sc]]_vars

(* A value handed over is not kept waiting: the continuation starts with it *)
(* or it is undone, however many other tasks are ready.                     *)
HandoffSettles ==
  \A h \in Handoffs : calls[h] > 0 ~> (consumed[h] + undone[h] > 0 \/ closed)
=============================================================================
