------------------------------- MODULE TaskSync -------------------------------
(***************************************************************************)
(* The primitives that make tasks of Control.Task wait for each other:     *)
(* MVar, Chan and Semaphore over the numbered line of Waiters.idr, with    *)
(* the parts of the scheduler they meet: ready steps that carry a value,   *)
(* cleanups in the order they were registered, scopes that are cancelled,  *)
(* and the close of the scheduler.  One cell, one channel, one semaphore.  *)
(*                                                                         *)
(* An operation o is one call, program[o], by a task of the scope          *)
(* ScopeOf[o]; the value it puts or sends, and the permits it takes, are   *)
(* named by o itself.  Everything runs on the scheduler's one thread, so a *)
(* handler is an operator from one World to the next.  A SortedMap is the  *)
(* set of its entries, each with its key as num.                           *)
(***************************************************************************)
EXTENDS Naturals, Sequences, FiniteSets

CONSTANTS Op,
          Scope,     (* those that can be cancelled                         *)
          Root,      (* the scope that is not                               *)
          ScopeOf,   (* the scope of the task that makes the call           *)
          Programs,  (* the calls the operations may make                   *)
          Need,      (* the permits an operation takes or releases          *)
          Capacity,  (* Chan.capacity                                       *)
          Permits,   (* of the new semaphore                                *)
          None

Takes    == {"takeMVar", "modifyMVar"}
Acquires == {"acquireN", "withPermits"}
Handoffs == Takes \cup Acquires \cup {"recv"}
Asyncs   == {"putMVar", "send"}
Pinneds  == {"tryTakeMVar", "tryPutMVar", "tryRecv", "trySend", "close",
             "releaseN", "tryAcquireN"}

ASSUME ScopeAssumption   == ScopeOf \in [Op -> Scope \cup {Root}] /\ Root \notin Scope
ASSUME ProgramAssumption == Programs \subseteq [Op -> Handoffs \cup Asyncs \cup Pinneds]
ASSUME SizeAssumption    == Need \in [Op -> Nat] /\ Permits \in Nat /\ Capacity \in Nat \ {0}
ASSUME OpAssumption      == IsFiniteSet(Op) /\ None \notin Op

VARIABLES
  program,   (* the call each operation makes                               *)
  mvar,      (* State: Vacant has no value and a line of takers, Holding a  *)
             (* value and a line of putters                                 *)
  chan,      (* State: items, count, closed, takers, senders                *)
  sem,       (* State: permits, line                                        *)
  runQ,      (* ready steps: pinned actions, and resumptions with a value   *)
  status,    (* how far an operation is                                     *)
  number,    (* the number an operation was given in the line               *)
  cleanups,  (* the cleanups of all scopes: their ident and operation       *)
  taken,     (* the value, or its permits, an operation went on with        *)
  live,      (* values that were put in and neither refused nor withdrawn,  *)
             (* and releases of permits that took place                     *)
  cancelled, (* scopes                                                      *)
  doomed,    (* cleanups that cancelScope has yet to run, in order          *)
  closed,    (* closeScheduler has been called                              *)
  dropping   (* how many ready steps it has yet to drop; those behind them, *)
             (* made ready in the meantime, are dropped by nobody           *)

vars == <<program, mvar, chan, sem, runQ, status, number, cleanups, taken, live,
          cancelled, doomed, closed, dropping>>

World == [mvar |-> mvar, chan |-> chan, sem |-> sem, runQ |-> runQ, status |-> status,
          number |-> number, cleanups |-> cleanups, taken |-> taken, live |-> live]

Become(w) ==
  /\ mvar' = w.mvar /\ chan' = w.chan /\ sem' = w.sem /\ runQ' = w.runQ
  /\ status' = w.status /\ number' = w.number /\ cleanups' = w.cleanups
  /\ taken' = w.taken /\ live' = w.live
-----------------------------------------------------------------------------
(* Waiters.  An entry without an operation is a putter with no task behind. *)
Nobody         == [next |-> 0, line |-> {}]
Enter(l, o, v) == [next |-> l.next + 1,
                   line |-> l.line \cup {[num |-> l.next, op |-> o, value |-> v]}]
Waits(l)       == l.line # {}
First(l)       == CHOOSE e \in l.line : \A f \in l.line : e.num <= f.num
Rest(l)        == [l EXCEPT !.line = @ \ {First(l)}]

Leave(k, l) == [l EXCEPT !.line = {e \in @ : e.num # k}]

(* The values of a SortedMap.                                               *)
Rank(S, e) == Cardinality({f \in S : f.num <= e.num})
InOrder(S) == [i \in 1..Cardinality(S) |-> CHOOSE e \in S : Rank(S, e) = i]

Init ==
  /\ program   \in Programs
  /\ mvar      = [value |-> None, line |-> Nobody]
  /\ chan      = [items |-> <<>>, count |-> 0, closed |-> FALSE, takers |-> Nobody, senders |-> Nobody]
  /\ sem       = [permits |-> Permits, line |-> Nobody]
  /\ runQ      = <<>>
  /\ status    = [o \in Op |-> "idle"]
  /\ number    = [o \in Op |-> 0]
  /\ cleanups  = {}
  /\ taken     = [o \in Op |-> None]
  /\ live      = {}
  /\ cancelled = {}
  /\ doomed    = <<>>
  /\ closed    = FALSE
  /\ dropping  = 0

Step(o, v, pinned) == [op |-> o, value |-> v, pinned |-> pinned]
Without(cs, ops)   == {c \in cs : c.op \notin ops}

(* Idents are only compared, so a new one is above those in use.            *)
Last(cs)       == CHOOSE c \in cs : \A d \in cs : d.num <= c.num
Fresh(cs)      == IF cs = {} THEN 0 ELSE Last(cs).num + 1
Register(w, o) == [w EXCEPT !.cleanups = @ \cup {[num |-> Fresh(@), op |-> o]}]

(* complete of runAsync and runHandoff, of several operations one after the *)
(* other.  Its test of `fired` is not needed: an operation in a line has    *)
(* not completed (InLine).                                                  *)
Wake(w, steps) ==
  LET ops == {steps[i].op : i \in DOMAIN steps}
  IN [w EXCEPT !.status   = [o \in Op |-> IF o \in ops THEN "ready" ELSE @[o]],
               !.cleanups = Without(@, ops),
               !.runQ     = @ \o steps]
Done(w, o, v) == IF o = None THEN w ELSE Wake(w, <<Step(o, v, FALSE)>>)

(* The operation did not complete while it was started: it can be given up. *)
Wait(w, o, k) == Register([w EXCEPT !.status[o] = "waiting", !.number[o] = k], o)
-----------------------------------------------------------------------------
(* MVar.                                                                    *)
Refill(w) ==
  LET l == w.mvar.line IN
  IF ~Waits(l) THEN [w EXCEPT !.mvar = [value |-> None, line |-> Nobody]]
  ELSE Done([w EXCEPT !.mvar = [value |-> First(l).value, line |-> Rest(l)]], First(l).op, None)

Deliver(w, v) ==
  LET l == w.mvar.line IN
  IF ~Waits(l) THEN [w EXCEPT !.mvar = [value |-> v, line |-> Nobody]]
  ELSE Done([w EXCEPT !.mvar.line = Rest(l)], First(l).op, v)

TakeOrWait(w, o) ==
  IF w.mvar.value = None
  THEN Wait([w EXCEPT !.mvar.line = Enter(@, o, None)], o, w.mvar.line.next)
  ELSE Done(Refill(w), o, w.mvar.value)

PutOrWait(w, o) ==
  LET in == [w EXCEPT !.live = @ \cup {o}] IN
  IF w.mvar.value = None
  THEN Done(Deliver(in, o), o, None)
  ELSE Wait([in EXCEPT !.mvar.line = Enter(@, o, o)], o, w.mvar.line.next)

(* Mutant: a value given back replaces what the cell holds.                 *)
PutAnyhowOver(w, v) ==
  IF w.mvar.value = None THEN Deliver(w, v) ELSE [w EXCEPT !.mvar.value = v]

PutAnyhow(w, v) ==
  IF w.mvar.value = None THEN Deliver(w, v)
  ELSE [w EXCEPT !.mvar.line = Enter(@, None, v)]

TryTake(w, o) ==
  IF w.mvar.value = None THEN w
  ELSE [Refill(w) EXCEPT !.taken[o] = w.mvar.value]

TryPut(w, o) ==
  IF w.mvar.value # None THEN w
  ELSE Deliver([w EXCEPT !.live = @ \cup {o}], o)
-----------------------------------------------------------------------------
(* Chan.                                                                    *)
TryRecvNow(w) ==
  LET ch   == w.chan
      rest == Tail(ch.items)
      s    == First(ch.senders)
  IN IF ch.items = <<>> THEN w
     ELSE IF ~Waits(ch.senders)
     THEN [w EXCEPT !.chan.items = rest, !.chan.count = @ - 1]
     ELSE Done([w EXCEPT !.chan.items = Append(rest, s.value), !.chan.senders = Rest(@)], s.op, None)

(* Whether a value can go in now.                                           *)
Room(ch) == Waits(ch.takers) \/ ch.count < Capacity

TrySendNow(w, o) ==
  LET ch == w.chan
      in == [w EXCEPT !.live = @ \cup {o}]
  IN IF ch.closed \/ ~Room(ch) THEN w
     ELSE IF Waits(ch.takers)
     THEN Done([in EXCEPT !.chan.takers = Rest(@)], First(ch.takers).op, o)
     ELSE [in EXCEPT !.chan.items = Append(@, o), !.chan.count = @ + 1]

GiveBack(w, v) ==
  LET ch == w.chan IN
  IF Waits(ch.takers)
  THEN Done([w EXCEPT !.chan.takers = Rest(@)], First(ch.takers).op, v)
  ELSE [w EXCEPT !.chan.items = <<v>> \o @, !.chan.count = @ + 1]

Recv(w, o) ==
  IF w.chan.items # <<>> THEN Done(TryRecvNow(w), o, Head(w.chan.items))
  ELSE IF w.chan.closed THEN Done(w, o, None)
  ELSE Wait([w EXCEPT !.chan.takers = Enter(@, o, None)], o, w.chan.takers.next)

Send(w, o) ==
  IF w.chan.closed \/ Room(w.chan) THEN Done(TrySendNow(w, o), o, None)
  ELSE Wait([w EXCEPT !.chan.senders = Enter(@, o, o), !.live = @ \cup {o}],
            o, w.chan.senders.next)

CloseChan(w) ==
  LET ch  == w.chan
      all == InOrder(ch.takers.line) \o InOrder(ch.senders.line)
  IN Wake([w EXCEPT !.chan.closed = TRUE, !.chan.takers.line = {}, !.chan.senders.line = {},
                    !.live = @ \ {e.value : e \in ch.senders.line}],
          [i \in DOMAIN all |-> Step(all[i].op, None, FALSE)])
-----------------------------------------------------------------------------
(* Semaphore.                                                               *)
Needed(ops) == Cardinality(UNION {{o} \X (1..Need[o]) : o \in ops})

(* serve: those at the front of the line for whom, and for all before whom, *)
(* the permits are enough.                                                  *)
Served(permits, line) == {e \in line : Needed({f.op : f \in {g \in line : g.num <= e.num}}) <= permits}

(* settle: serve the front of the line, then wake those that were.          *)
Settle(w, permits, l) ==
  LET served == Served(permits, l.line)
      woken  == InOrder(served)
  IN Wake([w EXCEPT !.sem = [permits |-> permits - Needed({e.op : e \in served}),
                             line    |-> [l EXCEPT !.line = @ \ served]]],
          [i \in DOMAIN woken |-> Step(woken[i].op, woken[i].op, FALSE)])

ReleaseNow(w, o) == Settle(w, w.sem.permits + Need[o], w.sem.line)

(* Mutant: whoever comes and finds enough is not held up.                   *)
FreeBarging(w, o) == Need[o] <= w.sem.permits

(* takeIfFree.                                                              *)
Free(w, o) == ~Waits(w.sem.line) /\ Need[o] <= w.sem.permits

TakePermits(w, o) == [w EXCEPT !.sem.permits = @ - Need[o]]

AcquireOrWait(w, o) ==
  IF Free(w, o) THEN Done(TakePermits(w, o), o, o)
  ELSE Wait([w EXCEPT !.sem.line = Enter(@, o, None)], o, w.sem.line.next)

TryAcquire(w, o) == IF Free(w, o) THEN [TakePermits(w, o) EXCEPT !.taken[o] = o] ELSE w
-----------------------------------------------------------------------------
(* The calls.                                                               *)
Begin(w, o) ==
  CASE program[o] \in Takes    -> TakeOrWait(w, o)
    [] program[o] = "putMVar"  -> PutOrWait(w, o)
    [] program[o] = "recv"     -> Recv(w, o)
    [] program[o] = "send"     -> Send(w, o)
    [] program[o] \in Acquires -> AcquireOrWait(w, o)

Act(w, o) ==
  CASE program[o] = "tryTakeMVar" -> TryTake(w, o)
    [] program[o] = "tryPutMVar"  -> TryPut(w, o)
    [] program[o] = "tryRecv"     -> [TryRecvNow(w) EXCEPT
                                        !.taken[o] = IF w.chan.items = <<>> THEN None ELSE Head(w.chan.items)]
    [] program[o] = "trySend"     -> TrySendNow(w, o)
    [] program[o] = "close"       -> CloseChan(w)
    [] program[o] = "releaseN"    -> ReleaseNow([w EXCEPT !.live = @ \cup {o}], o)
    [] program[o] = "tryAcquireN" -> TryAcquire(w, o)

(* The undo of a handoff, and the release of modifyMVar and withPermits.    *)
Undo(w, o, v) ==
  CASE program[o] \in Takes    -> PutAnyhow(w, v)
    [] program[o] = "recv"     -> IF v = None THEN w ELSE GiveBack(w, v)
    [] program[o] \in Acquires -> ReleaseNow(w, o)
    [] OTHER                   -> w

(* The continuation of a ready operation: modifyMVar and withPermits put    *)
(* their release in place in the same step.                                 *)
Continue(w, o, v) ==
  IF program[o] \in {"modifyMVar", "withPermits"}
  THEN Register([w EXCEPT !.taken[o] = v, !.status[o] = "inside"], o)
  ELSE [w EXCEPT !.taken[o] = v, !.status[o] = "over"]

Release(w, o) == Undo([w EXCEPT !.status[o] = "over", !.taken[o] = None], o, w.taken[o])

(* Mutant: the line is left and not served again.                           *)
LeaveLineOnly(w, k) == [w EXCEPT !.sem.line = Leave(k, @)]

LeaveLine(w, k) == Settle(w, w.sem.permits, Leave(k, w.sem.line))

LeaveTakers(w, k)  == IF w.mvar.value = None THEN [w EXCEPT !.mvar.line = Leave(k, @)] ELSE w
LeavePutters(w, k) == IF w.mvar.value = None THEN w ELSE [w EXCEPT !.mvar.line = Leave(k, @)]

(* The Cancel of a waiting operation.                                       *)
GiveUp(w, o) ==
  LET out == [w EXCEPT !.status[o] = "over", !.live = @ \ {o}]
      k   == w.number[o]
  IN CASE program[o] \in Takes -> LeaveTakers(out, k)
       [] program[o] = "putMVar" -> LeavePutters(out, k)
       [] program[o] = "recv"  -> [out EXCEPT !.chan.takers  = Leave(k, @)]
       [] program[o] = "send"  -> [out EXCEPT !.chan.senders = Leave(k, @)]
       [] program[o] \in Acquires -> LeaveLine(out, k)

(* A cleanup: nothing once the operation or the body is over.               *)
Cleanup(w, o) ==
  CASE w.status[o] = "waiting" -> GiveUp(w, o)
    [] w.status[o] = "inside"  -> Release(w, o)
    [] OTHER                   -> w
-----------------------------------------------------------------------------
(* Nothing comes between the steps of cancelScope, nor after a close.       *)
Calm == ~closed /\ doomed = <<>>
Apart == <<cancelled, doomed, closed, dropping>>

(* A task makes its call.  A pinned one is a step of its own; the others    *)
(* are started at once, unless the scope is cancelled.                      *)
Start(o) ==
  /\ Calm /\ status[o] = "idle"
  /\ Become(IF program[o] \in Pinneds
            THEN [World EXCEPT !.status[o] = "ready", !.runQ = Append(@, Step(o, None, TRUE))]
            ELSE IF ScopeOf[o] \in cancelled THEN [World EXCEPT !.status[o] = "over"]
            ELSE Begin(World, o))
  /\ UNCHANGED <<program, Apart>>

(* The drop of a step.                                                      *)
Drop(w, step) ==
  LET out == [w EXCEPT !.status[step.op] = "over"] IN
  IF step.pinned THEN out ELSE Undo(out, step.op, step.value)

(* runBatch: the next ready step.                                           *)
RunStep ==
  /\ Calm /\ runQ # <<>>
  /\ LET step == Head(runQ)
         w    == [World EXCEPT !.runQ = Tail(@)]
     IN Become(IF ScopeOf[step.op] \in cancelled THEN Drop(w, step)
               ELSE IF step.pinned THEN Act([w EXCEPT !.status[step.op] = "over"], step.op)
               ELSE Continue(w, step.op, step.value))
  /\ UNCHANGED <<program, Apart>>

(* The body of modifyMVar or withPermits ends.                              *)
EndBody(o) ==
  /\ Calm /\ status[o] = "inside"
  /\ Become(Release([World EXCEPT !.cleanups = Without(@, {o})], o))
  /\ UNCHANGED <<program, Apart>>

(* cancelScope: a race is lost, or a handle given up.  It takes the         *)
(* cleanups and runs one after the other.                                   *)
CancelScope(sc) ==
  /\ Calm /\ sc \notin cancelled
  /\ cancelled' = cancelled \cup {sc}
  /\ doomed'    = InOrder({c \in cleanups : ScopeOf[c.op] = sc})
  /\ cleanups'  = {c \in cleanups : ScopeOf[c.op] # sc}
  /\ UNCHANGED <<program, mvar, chan, sem, runQ, status, number, taken, live, closed, dropping>>

RunCleanup ==
  /\ doomed # <<>>
  /\ Become(Cleanup(World, Head(doomed).op))
  /\ doomed' = Tail(doomed)
  /\ UNCHANGED <<program, cancelled, closed, dropping>>

(* closeScheduler: the ready steps are dropped; what that makes ready stays *)
(* in the queue, which nobody runs any more.                                *)
Close ==
  /\ Calm
  /\ \E o \in Op : status[o] # "idle"
  /\ closed'   = TRUE
  /\ dropping' = Len(runQ)
  /\ UNCHANGED <<program, mvar, chan, sem, runQ, status, number, cleanups, taken, live,
                 cancelled, doomed>>

DropStep ==
  /\ dropping > 0
  /\ Become(Drop([World EXCEPT !.runQ = Tail(@)], Head(runQ)))
  /\ dropping' = dropping - 1
  /\ UNCHANGED <<program, cancelled, doomed, closed>>

Next ==
  \/ RunStep \/ RunCleanup \/ Close \/ DropStep
  \/ \E o \in Op : Start(o) \/ EndBody(o)
  \/ \E sc \in Scope : CancelScope(sc)

Spec == Init /\ [][Next]_vars
-----------------------------------------------------------------------------
Puts      == {"putMVar", "tryPutMVar", "send", "trySend"}
LineOf(o) == CASE program[o] \in Takes \cup {"putMVar"} -> mvar.line.line
               [] program[o] = "recv"     -> chan.takers.line
               [] program[o] = "send"     -> chan.senders.line
               [] program[o] \in Acquires -> sem.line.line
               [] OTHER                   -> {}
Lines     == {mvar.line.line, chan.takers.line, chan.senders.line, sem.line.line}

(* Nothing is lost and nothing doubled, whoever waits, is served, withdraws *)
(* or is given up after it was served: a value that was put in (and not     *)
(* refused or withdrawn) is in exactly one place, in the cell, the channel, *)
(* a line, a ready step, or with the task that went on with it; and every   *)
(* permit is free, on its way, or held.  "A value that was handed to a take *)
(* whose task is given up goes back into the cell", "permits ... are        *)
(* released again" (MVar.idr, Chan.idr, Semaphore.idr).                     *)
PlacesOf(v) ==
    Cardinality({x \in {mvar.value} : x = v})
  + Cardinality({i \in DOMAIN chan.items : chan.items[i] = v})
  + Cardinality({e \in mvar.line.line : e.value = v})
  + Cardinality({e \in chan.senders.line : e.value = v})
  + Cardinality({i \in DOMAIN runQ : runQ[i].value = v})
  + Cardinality({o \in Op : taken[o] = v})
Granted == {o \in Op : program[o] \in Acquires \cup {"tryAcquireN"} /\
                         (taken[o] = o \/ \E i \in DOMAIN runQ : runQ[i].value = o)}
Added   == {o \in live : program[o] = "releaseN"}

NothingLost ==
  /\ \A v \in Op : program[v] \in Puts => PlacesOf(v) = IF v \in live THEN 1 ELSE 0
  /\ sem.permits + Needed(Granted) = Permits + Needed(Added)

(* A line holds those who must wait, and only those.  Takers wait only      *)
(* while the channel is empty and senders only while it is full ("only      *)
(* while `items` is empty", "only while `items` is full"), none once it is  *)
(* closed; the front of the semaphore's line needs more than is free, also  *)
(* after one that was holding up the others has left.  A waiting operation  *)
(* is in its line under the number its Cancel has, and nobody else is,      *)
(* although the numbers start again with each new line; and the cleanups    *)
(* are those of the waiting operations and of the bodies, none of them in a *)
(* cancelled scope, but for those that are about to be run.                 *)
NobodyHeldUp ==
  /\ chan.count = Len(chan.items)
  /\ Waits(chan.takers)  => chan.items = <<>> /\ ~chan.closed
  /\ Waits(chan.senders) => chan.count >= Capacity /\ ~chan.closed
  /\ Waits(sem.line)     => Need[First(sem.line).op] > sem.permits
InLine ==
  /\ \A o \in Op : status[o] = "waiting" =>
       /\ \E e \in LineOf(o) : e.op = o
       /\ \A e \in LineOf(o) : e.num = number[o] <=> e.op = o
  /\ \A l \in Lines : \A e \in l : e.op # None => status[e.op] = "waiting"
  /\ {c.op : c \in cleanups} =
       {o \in Op : status[o] \in {"waiting", "inside"}} \ {doomed[i].op : i \in DOMAIN doomed}
  /\ \A c \in cleanups : ScopeOf[c.op] \notin cancelled
LinesExact == NobodyHeldUp /\ InLine

(* "Waiting tasks are served in the order they came": while an operation    *)
(* waits, nobody behind it in the line is served, and nobody who comes      *)
(* later and wants the same, by a call that waits or one that does not.     *)
Wanted(o) == CASE program[o] \in Takes \cup {"tryTakeMVar"}    -> "value"
               [] program[o] \in {"putMVar", "tryPutMVar"}     -> "room"
               [] program[o] \in {"recv", "tryRecv"}           -> "item"
               [] program[o] \in {"send", "trySend"}           -> "space"
               [] program[o] \in Acquires \cup {"tryAcquireN"} -> "permits"
               [] OTHER                                        -> "nothing"
Got(o) == \/ status[o] \in {"idle", "waiting"} /\ status'[o] = "ready" /\ program[o] \notin Pinneds
          \/ status[o] = "ready" /\ taken'[o] # taken[o] /\ program[o] \in Pinneds
          \/ o \in live' \ live /\ program[o] \in Pinneds
Ahead(p, o) == \E e, f \in LineOf(o) : e.op = p /\ f.op = o /\ e.num < f.num

ServedInOrder ==
  [][\A o, p \in Op :
       status[o] = "waiting" /\ status'[o] = "waiting" /\ Wanted(p) = Wanted(o) /\ Got(p)
       => Ahead(p, o)]_vars
=============================================================================
