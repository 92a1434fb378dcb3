------------------------------- MODULE Closures -------------------------------
(***************************************************************************)
(* Closures, the trampoline and application of the rc2 runtime             *)
(* (idris2rc2_rt.c, idris2rc2_memory.c).                                   *)
(*                                                                         *)
(* A closure holds a function, the arguments filled so far and a reference *)
(* count.  Threads share closures and apply them: one argument at a time   *)
(* (applyClosure), several at once (applyClosureN) or in tail position     *)
(* (tailcallApplyClosure, which never runs anything).  A closure with one  *)
(* reference is grown in place, a shared one is copied.  Running a         *)
(* function consumes its arguments; trampoline runs the saturated closures *)
(* that tail calls return and frees only their shells.                     *)
(*                                                                         *)
(* A reference is a record [o |-> object, v |-> value]: o is what the C    *)
(* pointer holds; v, which the code does not have, is the value the source *)
(* program means by it: a function with the arguments applied so far.      *)
(*                                                                         *)
(* Counts stay below REFCOUNT_MAX here; RefCount has those that reach it.  *)
(***************************************************************************)
EXTENDS Integers, FiniteSets, Sequences

Bag == INSTANCE BagsExt

CONSTANTS Threads,      \* threads that apply closures
          Arity,        \* the arity of each function
          FastArity,    \* the largest arity with a C prototype (20 in the code)
          Atoms,        \* values without children
          Cells,        \* memory for closures
          StaticClosures, \* immortal closures over immediates: [fn, args]
          First,          \* the closure a run starts with
          StartClosures,  \* what First may be: [fn, args], args atoms
          StartHands,     \* who may hold First and atoms: thread -> bag
          MaxHand,      \* bound: references a thread keeps between calls
          MaxCalls,     \* bound: calls and copies made by the threads' code
          MaxRuns       \* bound: functions run, after which bodies only return

Fns == DOMAIN Arity
Statics == DOMAIN StaticClosures
Objects == Atoms \cup Cells \cup Statics

Null == "null"            \* NULL and the immediates: no count
Unit == [o |-> Null, v |-> [fn |-> Null, args |-> <<>>]]
Nothing == [o |-> "-", v |-> [fn |-> "-", args |-> <<>>]]
Immortal == -1            \* REFCOUNT_MAX
Unused == [fn |-> "-", args |-> <<>>, rc |-> 0]

ASSUME ClosureConstants ==
  /\ \A f \in Fns : Arity[f] \in Nat \ {0}
  /\ FastArity \in Nat
  /\ Fns \cap (Objects \cup {Null, "-"}) = {}
  /\ {Null, "-"} \cap Objects = {}
  /\ Atoms \cap (Cells \cup Statics) = {} /\ Cells \cap Statics = {}
  /\ IsFiniteSet(Threads) /\ IsFiniteSet(Cells)

ASSUME StartConstants ==
  /\ First \in Cells
  /\ \A s \in Statics : LET c == StaticClosures[s] IN
       c.fn \in Fns /\ c.args \in Seq({Unit}) /\ Len(c.args) <= Arity[c.fn]
  /\ \A c \in StartClosures :
       c.fn \in Fns /\ c.args \in Seq(Atoms) /\ Len(c.args) < Arity[c.fn]
  /\ \A owned \in StartHands, t \in Threads :
       /\ DOMAIN owned[t] \subseteq Atoms \cup {First} /\ IsFiniteSet(DOMAIN owned[t])
       /\ \A o \in DOMAIN owned[t] : owned[t][o] \in Nat \ {0}

VARIABLES heap,   \* object -> [fn, args, rc]; args are C pointers
          hand,   \* thread -> the references its code holds between calls
          stack,  \* thread -> the C frames at work, top first
          ret,    \* thread -> the value the last frame returned
          calls,  \* calls and copies made so far
          runs    \* functions run so far

vars == <<heap, hand, stack, ret, calls, runs>>

IsClosure(o) == o # Null /\ heap[o].fn \in Fns
ArityOf(o) == Arity[heap[o].fn]
Filled(o) == Len(heap[o].args)
Saturated(o) == IsClosure(o) /\ Filled(o) >= ArityOf(o)
Partial(o) == IsClosure(o) /\ Filled(o) < ArityOf(o)
Apply(v, args) == [v EXCEPT !.args = @ \o args]
Values(refs) == [i \in DOMAIN refs |-> refs[i].v]
Without(refs, i) == [k \in 1..Len(refs) - 1 |-> refs[IF k < i THEN k ELSE k + 1]]
Without2(refs, i, j) ==
  IF i < j THEN Without(Without(refs, j), i) ELSE Without(Without(refs, i), j)

(***************************************************************************)
(* Counts.  Neither NULL nor an immortal object is counted.                *)
(***************************************************************************)
Counted(h, o) == o # Null /\ h[o].rc # Immortal

\* Where the list holds a reference to the object.
Slots(refs, o) == {i \in DOMAIN refs : refs[i].o = o}

\* idris2rc2_dup of every reference of the list.
Dup(h, refs) ==
  [o \in Objects |-> IF Counted(h, o) THEN [h[o] EXCEPT !.rc = @ + Cardinality(Slots(refs, o))]
                                      ELSE h[o]]

\* idris2rc2_isUnique: an immortal object is never unique.
Unique(o) == heap[o].rc = 1

\* idris2rc2_rc_release and free: of the object alone, not of its arguments.
Release(h, o) ==
  IF ~Counted(h, o) THEN h
  ELSE IF h[o].rc = 1 THEN [h EXCEPT ![o] = Unused]
  ELSE [h EXCEPT ![o].rc = @ - 1]

FreeCells == {c \in Cells : heap[c].rc = 0}

\* idris2rc2_mkClosure: one reference, the arguments written by the caller.
MkClosure(h, c, f, args) == [h EXCEPT ![c] = [fn |-> f, args |-> args, rc |-> 1]]

(***************************************************************************)
(* Frames.                                                                 *)
(***************************************************************************)
Frame(k, c, xs) == [k |-> k, c |-> c, xs |-> xs]
Body(v, xs) == Frame("body", [o |-> Null, v |-> v], xs)
Tramp == Frame("trampoline", Unit, <<>>)
More(xs) == IF xs = <<>> THEN <<>> ELSE <<Frame("more", Unit, xs)>>
Drop(refs) == IF refs = <<>> THEN <<>> ELSE <<Frame("drop", Unit, refs)>>

Top(t) == Head(stack[t])
At(t, k) == stack[t] # <<>> /\ Top(t).k = k
Under(t) == Tail(stack[t])
Goto(t, frames) == stack' = [stack EXCEPT ![t] = frames \o Under(t)]
Return(t, r) == ret' = [ret EXCEPT ![t] = r]

\* The arguments a closure holds.
Held(c) == heap[c.o].args

(***************************************************************************)
(* The references to an object: a thread has those its code holds and      *)
(* those of its frames and its last result; a closure has its arguments,   *)
(* until a function runs on them and only the shell is left (Taken).       *)
(***************************************************************************)
FrameRefs(f) == IF f.k = "body" THEN f.xs ELSE <<f.c>> \o f.xs

Tagged(f) == UNION {{x} \X f[x] : x \in DOMAIN f}

HandUses(held, o) == Tagged([r \in {r \in DOMAIN held : r.o = o} |-> 1..held[r]])
FrameUses(frames, o) == Tagged([i \in DOMAIN frames |-> Slots(FrameRefs(frames[i]), o)])
Uses(t, o) == Tagged(<<HandUses(hand[t], o), FrameUses(stack[t], o), Slots(<<ret[t]>>, o)>>)

Shells(t) == {stack[t][i].c.o : i \in {i \in DOMAIN stack[t] : stack[t][i].k = "shell"}}
Taken == Cells \cap UNION {Shells(t) : t \in Threads}

CellUses(h, c, o) == IF c \in Taken THEN {} ELSE Slots(h[c].args, o)

References(h, o) ==
  Cardinality(Tagged([t \in Threads |-> Uses(t, o)]))
    + Cardinality(Tagged([c \in Cells |-> CellUses(h, c, o)]))

-----------------------------------------------------------------------------
\* Compiled code holds a closure in First and atoms, shared between threads.
Start(f, args, owned) ==
  LET atom(a)  == [o |-> a, v |-> [fn |-> a, args |-> <<>>]]
      refs     == [i \in DOMAIN args |-> atom(args[i])]
      ref(o)   == IF o = First THEN [o |-> o, v |-> [fn |-> f, args |-> Values(refs)]] ELSE atom(o)
      made     == [o \in Objects |-> IF o = First THEN [fn |-> f, args |-> refs, rc |-> 0]
                                     ELSE [fn |-> o, args |-> <<>>, rc |-> 0]]
  IN /\ hand = [t \in Threads |-> [r \in {ref(o) : o \in DOMAIN owned[t]} |-> owned[t][r.o]]]
     /\ References(made, First) > 0
     /\ heap = [o \in Objects |->
          IF o \in Statics THEN [fn |-> StaticClosures[o].fn, args |-> StaticClosures[o].args, rc |-> Immortal]
          ELSE IF References(made, o) = 0 THEN Unused
          ELSE [made[o] EXCEPT !.rc = References(made, o)]]

Init ==
  /\ stack = [t \in Threads |-> <<>>]
  /\ ret = [t \in Threads |-> Nothing]
  /\ \E c \in StartClosures, owned \in StartHands : Start(c.fn, c.args, owned)
  /\ calls = 0
  /\ runs = 0

(***************************************************************************)
(* What a thread's code does between calls: keep a copy of a reference,    *)
(* drop one, or apply a closure it holds to other references it holds.     *)
(***************************************************************************)
\* A bag of references maps each to the number of them.
Size(held) == Cardinality(Tagged([r \in DOMAIN held |-> 1..held[r]]))

Idle(t) == stack[t] = <<>> /\ ret[t] = Nothing

Copy(t) ==
  /\ Idle(t)
  /\ Size(hand[t]) < MaxHand
  /\ calls < MaxCalls /\ calls' = calls + 1
  /\ \E r \in DOMAIN hand[t] :
       /\ heap' = Dup(heap, <<r>>)
       /\ hand' = [hand EXCEPT ![t] = Bag!BagAdd(@, r)]
  /\ UNCHANGED <<stack, ret, runs>>

Forget(t) ==
  /\ Idle(t)
  /\ \E r \in DOMAIN hand[t] :
       /\ stack' = [stack EXCEPT ![t] = Drop(<<r>>)]
       /\ hand' = [hand EXCEPT ![t] = Bag!BagRemove(@, r)]
  /\ UNCHANGED <<heap, ret, calls, runs>>

Call(t) ==
  /\ Idle(t)
  /\ calls < MaxCalls /\ calls' = calls + 1
  /\ \E c \in DOMAIN hand[t] :
     \E a \in DOMAIN Bag!BagRemove(hand[t], c) :
       LET rest == Bag!BagRemove(Bag!BagRemove(hand[t], c), a)
       IN /\ Partial(c.o)
          /\ \/ /\ stack' = [stack EXCEPT ![t] = <<Frame("apply", c, <<a>>)>>]
                /\ hand' = [hand EXCEPT ![t] = rest]
             \/ \E b \in DOMAIN rest :
                /\ stack' = [stack EXCEPT ![t] = <<Frame("applyN", c, <<a, b>>)>>]
                /\ hand' = [hand EXCEPT ![t] = Bag!BagRemove(rest, b)]
  /\ UNCHANGED <<heap, ret, runs>>

\* The call is over: its value is kept, or dropped as unused.
Finish(t) ==
  /\ stack[t] = <<>> /\ ret[t] # Nothing
  /\ \/ /\ Size(hand[t]) < MaxHand
        /\ hand' = [hand EXCEPT ![t] = Bag!BagAdd(@, ret[t])]
        /\ UNCHANGED stack
     \/ /\ stack' = [stack EXCEPT ![t] = Drop(<<ret[t]>>)]
        /\ UNCHANGED hand
  /\ Return(t, Nothing)
  /\ UNCHANGED <<heap, calls, runs>>

(***************************************************************************)
(* idris2rc2_applyClosure: a shared closure that gets its last argument is *)
(* run at once on copies of its arguments and dropped after; otherwise it  *)
(* is grown and trampolined.                                               *)
(***************************************************************************)
(* Mutant: the shared closure that was run is never dropped.               *)
DispatchAndKeep(c, a) == <<Body(Apply(c.v, <<a.v>>), Held(c) \o <<a>>), Tramp>>

DispatchWithExtra(c, a) == <<Body(Apply(c.v, <<a.v>>), Held(c) \o <<a>>), Frame("drop", Unit, <<c>>), Tramp>>

ApplyClosure(t) ==
  /\ At(t, "apply")
  /\ LET c == Top(t).c
         a == Top(t).xs[1]
     IN IF /\ ~Unique(c.o)
           /\ ArityOf(c.o) - Filled(c.o) = 1
           /\ ArityOf(c.o) <= FastArity
        THEN /\ heap' = Dup(heap, Held(c))
             /\ Goto(t, DispatchWithExtra(c, a))
        ELSE /\ Goto(t, <<Frame("grow", c, <<a>>), Tramp>>)
             /\ UNCHANGED heap
  /\ UNCHANGED <<hand, ret, calls, runs>>

(***************************************************************************)
(* idris2rc2_applyClosureN.                                                *)
(***************************************************************************)
ApplyClosureN(t) ==
  /\ At(t, "applyN")
  /\ LET c == Top(t).c
         xs == Top(t).xs
         remaining == ArityOf(c.o) - Filled(c.o)
         body == Body(Apply(c.v, Values(xs)), Held(c) \o xs)
     IN \/ /\ Len(xs) = remaining /\ ArityOf(c.o) <= FastArity
           /\ IF Unique(c.o)
              THEN /\ Goto(t, <<body, Frame("shell", c, <<>>), Tramp>>)
                   /\ UNCHANGED heap
              ELSE /\ heap' = Dup(heap, Held(c))
                   /\ Goto(t, <<body, Frame("drop", Unit, <<c>>), Tramp>>)
        \/ /\ Len(xs) < remaining
           /\ Goto(t, <<Frame("grow", c, xs)>>)
           /\ UNCHANGED heap
        \/ /\ Len(xs) > remaining \/ (Len(xs) = remaining /\ ArityOf(c.o) > FastArity)
           /\ Goto(t, <<Frame("apply", c, <<Head(xs)>>)>> \o More(Tail(xs)))
           /\ UNCHANGED heap
  /\ UNCHANGED <<hand, ret, calls, runs>>

\* The loop of applyClosureN: the next argument goes to the last result.
ApplyMore(t) ==
  /\ At(t, "more")
  /\ LET xs == Top(t).xs
     IN Goto(t, <<Frame("apply", ret[t], <<Head(xs)>>)>> \o More(Tail(xs)))
  /\ Return(t, Nothing)
  /\ UNCHANGED <<heap, hand, calls, runs>>

(***************************************************************************)
(* idris2rc2_tailcallApplyClosure, and the n < remaining case of           *)
(* applyClosureN: in place when unique, else a copy that owns duplicates,  *)
(* after which the old closure is dropped.                                 *)
(***************************************************************************)
(* Mutant: a closure grows in place whoever else holds it.                 *)
GrowAnyInPlace(t) ==
  /\ At(t, "grow")
  /\ LET c == Top(t).c
         xs == Top(t).xs
     IN /\ heap[c.o].rc # Immortal
        /\ heap' = [heap EXCEPT ![c.o].args = @ \o xs]
        /\ Return(t, [c EXCEPT !.v = Apply(@, Values(xs))])
  /\ Goto(t, <<>>)
  /\ UNCHANGED <<hand, calls, runs>>

GrowInPlace(t) ==
  /\ At(t, "grow")
  /\ LET c == Top(t).c
         xs == Top(t).xs
     IN /\ Unique(c.o)
        /\ heap' = [heap EXCEPT ![c.o].args = @ \o xs]
        /\ Return(t, [c EXCEPT !.v = Apply(@, Values(xs))])
  /\ Goto(t, <<>>)
  /\ UNCHANGED <<hand, calls, runs>>

GrowCopy(t) ==
  /\ At(t, "grow")
  /\ ~Unique(Top(t).c.o)
  /\ FreeCells # {}
  /\ LET c == Top(t).c
         xs == Top(t).xs
         nc == CHOOSE n \in FreeCells : TRUE
     IN /\ heap' = MkClosure(Dup(heap, Held(c)), nc, heap[c.o].fn, Held(c) \o xs)
        /\ Return(t, [o |-> nc, v |-> Apply(c.v, Values(xs))])
        /\ Goto(t, Drop(<<c>>))
  /\ UNCHANGED <<hand, calls, runs>>

(***************************************************************************)
(* idris2rc2_drop of each of a list, one at a time: the last reference     *)
(* tears the object down, and what it still owns is dropped next.  Which   *)
(* child teardown keeps for its loop and which it recurses into is left    *)
(* out, and the memory is free before the children are dropped, not after. *)
(***************************************************************************)
DropOne(t) ==
  /\ At(t, "drop")
  /\ LET r == Head(Top(t).xs)
         last == r.o # Null /\ Unique(r.o)
     IN /\ heap' = Release(heap, r.o)
        /\ Goto(t, Drop((IF last THEN Held(r) ELSE <<>>) \o Tail(Top(t).xs)))
  /\ UNCHANGED <<hand, ret, calls, runs>>

(***************************************************************************)
(* idris2rc2_trampoline: while the value is a saturated closure, run it on *)
(* the arguments it holds and free the shell.                              *)
(***************************************************************************)
Trampoline(t) ==
  /\ At(t, "trampoline")
  /\ LET it == ret[t]
     IN IF Saturated(it.o)
        THEN /\ stack' = [stack EXCEPT ![t] =
                            <<Body(it.v, Held(it)), Frame("shell", it, <<>>)>> \o @]
             /\ Return(t, Nothing)
        ELSE /\ Goto(t, <<>>)
             /\ UNCHANGED ret
  /\ UNCHANGED <<heap, hand, calls, runs>>

DropShell(t) ==
  /\ At(t, "shell")
  /\ heap' = Release(heap, Top(t).c.o)
  /\ Goto(t, <<>>)
  /\ UNCHANGED <<hand, ret, calls, runs>>

(***************************************************************************)
(* A compiled function body.  It owns its arguments and disposes of each   *)
(* once.  When an argument of an over-application waits for its result     *)
(* (frame "more"), a typed program returns a function.                     *)
(***************************************************************************)
Awaited(t) == \E i \in DOMAIN Under(t) :
  /\ Under(t)[i].k = "more"
  /\ \A j \in 1..i - 1 : Under(t)[j].k \in {"drop", "shell", "trampoline", "nested"}

Ran(t) == At(t, "body") /\ runs' = runs + 1
MayRun == runs < MaxRuns

\* It returns one of its arguments, a constant closure or no value at all.
BodyReturns(t) ==
  /\ Ran(t)
  /\ LET xs == Top(t).xs
     IN \/ \E i \in DOMAIN xs :
           /\ Awaited(t) => Partial(xs[i].o)
           /\ Goto(t, Drop(Without(xs, i)))
           /\ Return(t, xs[i])
        \/ \E s \in Statics :
           /\ Saturated(s) => MayRun
           /\ Goto(t, Drop(xs))
           /\ Return(t, [o |-> s, v |-> [fn |-> heap[s].fn, args |-> Values(heap[s].args)]])
        \/ /\ ~Awaited(t)
           /\ Goto(t, Drop(xs))
           /\ Return(t, Unit)
  /\ UNCHANGED <<heap, hand, calls>>

\* It returns a new closure over its arguments: a partial application, or, as
\* a tail call, a saturated one for the caller's trampoline.
BodyBuilds(t) ==
  /\ Ran(t)
  /\ FreeCells # {}
  /\ \E f \in Fns :
       LET xs == Top(t).xs
           nc == CHOOSE n \in FreeCells : TRUE
       IN /\ Arity[f] >= Len(xs)
          /\ Arity[f] = Len(xs) => MayRun
          /\ heap' = MkClosure(heap, nc, f, xs)
          /\ Return(t, [o |-> nc, v |-> [fn |-> f, args |-> Values(xs)]])
  /\ Goto(t, <<>>)
  /\ UNCHANGED <<hand, calls>>

\* It applies an argument to another one: in tail position, where only
\* tailcallApplyClosure is called, or not, where a whole call is nested.
(* Mutant: the tail call runs what it applied.                             *)
TailApplyAtOnce(c, xs) == <<Frame("apply", c, xs)>>

TailApply(c, xs) == <<Frame("grow", c, xs)>>

BodyApplies(t) ==
  /\ Ran(t) /\ MayRun
  /\ \E i, j \in DOMAIN Top(t).xs :
       LET xs == Top(t).xs
       IN /\ i # j
          /\ Partial(xs[i].o)
          /\ \/ Goto(t, Drop(Without2(xs, i, j)) \o TailApply(xs[i], <<xs[j]>>))
             \/ Goto(t, Drop(Without2(xs, i, j))
                          \o <<Frame("apply", xs[i], <<xs[j]>>), Frame("nested", Unit, <<>>)>>)
  /\ UNCHANGED <<heap, hand, ret, calls>>

\* The nested call is over; the body returns what it got.
BodyResumes(t) ==
  /\ At(t, "nested")
  /\ Goto(t, <<>>)
  /\ UNCHANGED <<heap, hand, ret, calls, runs>>

Step(t) ==
  \/ Copy(t) \/ Forget(t) \/ Call(t) \/ Finish(t)
  \/ ApplyClosure(t) \/ ApplyClosureN(t) \/ ApplyMore(t)
  \/ GrowInPlace(t) \/ GrowCopy(t) \/ DropOne(t)
  \/ Trampoline(t) \/ DropShell(t)
  \/ BodyReturns(t) \/ BodyBuilds(t) \/ BodyApplies(t) \/ BodyResumes(t)

\* Everything was given back: nothing but the immortal objects is left.
Stopped ==
  /\ \A t \in Threads : Idle(t) /\ hand[t] = <<>>
  /\ \A o \in Objects \ Statics : heap[o] = Unused
  /\ UNCHANGED vars

Next == (\E t \in Threads : Step(t)) \/ Stopped

Spec == Init /\ [][Next]_vars

-----------------------------------------------------------------------------
(***************************************************************************)
(* Properties.                                                             *)
(***************************************************************************)
Frames(t, k) == {i \in DOMAIN stack[t] : stack[t][i].k = k}

\* The object is alive, still owns its arguments and is the function with the
\* arguments that the program means by the reference.
Agrees(r) ==
  IF r.o = Null THEN r = Unit
  ELSE /\ heap[r.o].rc # 0
       /\ r.o \notin Taken
       /\ r.v = [fn |-> heap[r.o].fn, args |-> Values(heap[r.o].args)]

\* A closure is a value: whatever other holders of the same memory apply,
\* copy, drop or run, each reference a thread still has, and each argument of a
\* closure that owns its arguments, denotes the function and the arguments the
\* program applied to it; and each function runs on exactly the arguments
\* applied, in that order, each alive (tailcallApplyClosure, applyClosure,
\* applyClosureN, dispatchWithExtra).
ValuesPersist ==
  /\ \A t \in Threads :
       /\ \A r \in DOMAIN hand[t] : Agrees(r)
       /\ ret[t] # Nothing => Agrees(ret[t])
       /\ \A i \in DOMAIN stack[t] \ Frames(t, "shell") :
            \A j \in DOMAIN FrameRefs(stack[t][i]) : Agrees(FrameRefs(stack[t][i])[j])
       /\ \A i \in Frames(t, "body") :
            LET b == stack[t][i]
            IN Values(b.xs) = b.c.v.args /\ Len(b.xs) = Arity[b.c.v.fn]
  /\ \A c \in Cells \ Taken : \A i \in DOMAIN heap[c].args : Agrees(heap[c].args[i])

\* Every count is the number of references there are: those of threads and of
\* frames, and those of the closures whose arguments no running function has
\* taken.  So nothing leaks and nothing is freed twice, although three paths
\* free a closure with its arguments and two free only the shell
\* (trampoline, applyClosureN, idris2rc2_drop).
CountsExact == \A o \in Atoms \cup Cells : heap[o].rc = References(heap, o)

\* Tail calls take no C stack: however many functions tail-call each other, a
\* thread has one trampoline for the call it made and one for each nested call
\* that is not a tail call (tailcallApplyClosure returns, it never runs).
StackFlat ==
  \A t \in Threads :
    Cardinality(Frames(t, "trampoline") \cup Frames(t, "apply"))
      <= 1 + Cardinality(Frames(t, "nested"))

===============================================================================
