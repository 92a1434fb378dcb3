# Verification of rc2

rc2 is a back end of Idris 2 that compiles to C with reference counting: a
compiler (`src/rc2/src`), a runtime in C (`src/rc2/support/rc2`), and libraries
that run on it (`src/libs`), among them OS-thread synchronisation (`rc2base`)
and a task scheduler (`control-async`).  This directory holds TLA+ models of its
concurrent core and of the runtime's arithmetic, strings and closures, the TLC
configurations that check them, and proofs checked by TLAPS.

`PROJECT.json` lists the components, the runs, for each checked property a
mutant of the model that it refutes, the source lines each definition stands
for, the hazards of the code, the disagreements found, and the theorems.

## 1. The system

### Runtime (C)

| part | state | operations | talks to |
|---|---|---|---|
| reference counts (`idris2rc2_memory.h/.c`) | a 16-bit count in every header; the global `idris2rc2_threaded`; the work list of a teardown, threaded through dead objects | `dup`, `dup_n`, `drop`, `isUnique` and the in-place reuse it allows, `teardown` | everything; `fork` raises the flag |
| mutable cells (`idris2rc2_ioprims.c`) | a slot (IORef) or several (Array) with one spinlock per object | new, read, write, compare-and-swap, array get and set | counts |
| fork (`idris2rc2_ioprims.c`) | none of its own | raise the flag, take a reference to the closure, start a detached thread | counts |
| lazy cells (`idris2rc2_rt.c`) | value or thunk, an "evaluated" flag, a spinlock; per thread, the cells it is forcing | `force` | counts, trampoline |
| memoised constants (`idris2rc2_caf_memoize.c/.h`) | per constant: claimed, owner, done, value; one lock-free list of all | claim, store and publish, wait, `dropAll` at exit | counts, `rtFinish` |
| closures and trampoline (`idris2rc2_rt.c/.h`) | a closure's argument array | apply one or several arguments, tail call (in place when unique), run what a tail call returned | counts |
| numbers (`idris2rc2_numeric.h/.c`) | immediates, and cells with a count | operators that reuse their operands' cells, comparison, casts, decimal conversion | counts |
| strings, UTF-8, buffers (`strings.c`, `utf8.c`, `buffer.c`) | bytes that need not be well formed; a buffer's bytes | decode, encode, take apart, iterate; read and write numbers and strings | counts |
| clock, sockets | none between calls | one system call each | |

What makes it hard: every count update is a read and a write that another
thread can come between; plain updates are used until the first `fork` and
atomic ones from then on; an answer of `isUnique` is acted on later; counts are
16 bits wide and freeze at their maximum; a thread may free what another has
just loaded; two threads may evaluate one lazy cell; constants wait for one
another across threads; threads are detached and may outlive `main`; operators
and tail calls write in place what they hold alone, and both operands may be
one cell.

Correct means: no pointer to freed memory, no count update lost, an object
dead when and only when its last pointer goes, objects changed in place only when
owned alone, each constant computed once and each force answered with one value;
a call consumes each of its arguments once, in a C stack that tail calls do not
deepen; arithmetic on integers is that of the integers cut to the type, a Double is read back
as it was written, and every string primitive sees the same characters.

### rc2base: OS threads

| part | state | operations |
|---|---|---|
| channel (`concurrency_util.c`) | linked list, head, tail, one mutex, one condition | put, get, get without waiting, get with a time-out |
| MVar (`Control/Concurrent/MVar.idr`) | an IORef to `Maybe a`, a mutex, conditions `notEmpty`, `notFull` | take, put, read, swap, modify, with, and the try forms |
| mutex, condition, semaphore, barrier, thread handle (`concurrency_util.c`) | a pthread object each; the handle's `joined` flag | one pthread call each |
| Atomic, IORef helpers | an IORef | retry loops on compare-and-swap |
| random generators (`xoroshiro*.c`, `f2x.c`) | two words, in an object or pure | next, jump by a power of two or any number of steps |

What makes it hard: one signal wakes one waiter, and waiters of several kinds
share a condition; waiters compete with newcomers for the mutex; a signal races
with a time-out; an MVar is empty while the function of `modifyMVar` runs.

Correct means: first in first out, nothing lost or got twice, no thread left
waiting beside what it waits for, updates kept.

### control-async: tasks on one scheduler thread

| part | state | operations |
|---|---|---|
| scopes (`Control/Task/Scheduler.idr`) | cancelled, children, cleanups | make, cancel (with everything below), detach |
| interpreter | ready queue of steps, each with its scope and what it owns; `pending` count | spawn, both, race, async, handoff, finally, submit, cancel a handle, close |
| turn loop, inbox, worker pool (`Scheduler.idr`, `Pool.idr`) | inbox and job queue under mutexes, timers, sources | postTo, turn, offload, close |
| task MVar, Chan, Semaphore over a waiter line (`Waiters.idr`, ...) | contents and a numbered line of waiters | put, take, withdraw, give back |
| event sources (`Epoll`, `Uring`, `Signal`, ...) | registrations | register, deliver, deregister |
| sockets, files, processes, console, HTTP | per connection | compositions of the above |

What makes it hard: completions arrive late, twice, or after a cancellation; a
value handed over must reach its continuation or go back, exactly once; scopes
are cancelled between any two steps, even by a step of their own; a race must
continue once; a release must run once.  Workers post while the scheduler goes to
sleep; a timer is withdrawn or passes while the descriptor is armed; the loop
decides by a count whether anything can still come.

### Compiler (Idris)

Count insertion, reuse analysis, inlining, specialisation, loop conversion, C
emission: transformations of a syntax tree with no state between calls.

Terminal, regex and web libraries and the `rcexpr` tools are bindings or
sequential code on top of the parts above.

## 2. Modules

| module | code | shape |
|---|---|---|
| `Ownership` | the promise of the counts | abstract heap: an object dies in the step that discards the last pointer to it, and in no other |
| `RefCount` | `idris2rc2_memory.h/.c`, `idris2rc2_rt.h`, `fork` | the counts; implements `Ownership` |
| `RuntimeProofs` | | theorems about `RefCount`, with that implementation, about `Words`, `Numbers`, `Buffers` and `Text` |
| `SharedSlots` | IORef and Array primitives, spinlock | each primitive in its locked and unlocked steps |
| `SharedSlotsProofs` | | theorems about `SharedSlots` |
| `LazyCell` | `mkLazy`, `force` | nested forces by several threads |
| `CafMemo` | memoised constants, exit | nested uses by several threads, and the end of the process |
| `Memo` | | `CafMemo` and `LazyCell` side by side |
| `MemoProofs` | | theorems about both |
| `ValueQueue` | the promise of the channel | abstract queue |
| `Channel` | the linked-list channel | implements `ValueQueue` |
| `ThreadMVar` | the OS-thread MVar | one action per critical section |
| `Exchange` | | `Channel` and `ThreadMVar` side by side |
| `ExchangeProofs` | | theorems about both |
| `Closures` | closures, trampoline, application | the C frames of each thread; a body is any that returns, builds or applies |
| `ClosuresProofs` | | theorems about `Closures` |
| `Words` | fixed-width arithmetic, immediates, casts | pure operators |
| `InputClaims` | | what `Words`, `Text` and `Buffers` promise of an input, an invariant each |
| `Numbers` | boxed numbers and Integers | one action per operator, on variables that share cells |
| `Decimal` | Double to text and back | pure operators in exact integers |
| `Text`, `Buffers` | UTF-8, string primitives, buffers | pure operators on sequences of bytes |
| `Generators` | random generators and their jumps | polynomials as sets of exponents; one action per ring step |
| `TaskScheduler` | scopes, steps, operations, finalizers | one action per constructor of `Task`, and the callers outside |
| `TaskSchedulerProofs` | | theorems about `TaskScheduler` |
| `Reactor` | turn loop, inbox, timers, worker pool | one action per step between two accesses to what threads share |
| `ReactorProofs` | | theorems about `Reactor` |
| `TaskSync` | `Waiters`, task `MVar`, `Chan`, `Semaphore` | one operator per function, one action per call, ready step, cleanup, dropped step |
| `TaskSyncProofs` | | theorems about `TaskSync` |

Each `MC...` module names the model values of the `.cfg` files beside it and
defines structured constants (which cell needs which) and symmetry sets.
`Exchange` and `Memo` put two parts that share no state beside each other: a
behaviour is one of the first or one of the second, chosen at the start, and
the theorems are about that choice as well.  `MCArithmetic` does the same with
`Words`, `Numbers`, `Decimal`, `Text`, `Buffers` and `Generators`: a behaviour is a
program over boxed numbers, or one input of a pure algorithm.
Definitions whose comment begins with "Mutant:" are the bugs each property is
tried against; no specification uses them.

The models meet at reference counts.  `RefCount` splits every update into its
read and its write and shows that together they behave as one step;
`SharedSlots`, `LazyCell` and `CafMemo` therefore update counts in one step and
split what their own locks and flags protect instead.  `Channel` and
`ThreadMVar` take a pthread critical section as one step, which the mutex
justifies, and split at every place the mutex is released.

### RefCount

A counted pointer, wherever it is stored, is a token of `Ref`: `target` says to
which object, `holder` says who has it (a thread's variable, or an object's
field).  `rc` is the header's count and `MaxCount` stands for
`IDRIS2RC2_REFCOUNT_MAX`; additions wrap modulo `MaxCount + 1`.  `seen` is the
count a step in progress has read, and `plain` whether it took the branch
without atomics.

| action | code |
|---|---|
| `Alloc`, `LoadStatic` | a constructor or closure is made (fields move into it); a static is named |
| `DupLoad`, `DupAdd` | `idris2rc2_dup`: test the count, then add |
| `DupNLoad`, `DupNStore`, `DupNRetry` | `idris2rc2_dup_n`: load, clamp, compare-and-swap loop |
| `ReleaseLoad`, `ReleaseSub` | `idris2rc2_rc_release`: test, then subtract; the thread that reads 1 tears down |
| `TeardownFree` and the releases of a reaping thread | `idris2rc2_teardown`: fields first, then the cell |
| `Collect`, `CollectReturn` | `idris2rc2_teardown` of a GCPointer with an `onCollect` closure: the closure is called, and when it is back the cell is freed |
| `TestUnique`, `GrowInPlace`, `OfferShell`, `ClaimShell`, `ReleaseReuse` | `isUnique` and the reuse it allows: in place by the trampoline, by the C code `Emit` generates for an offer and a claim, and `releaseReuse` |
| `ForkRetain`, `Spawn` | `idris2rc2_fork`: flag, reference, `pthread_create` |

Programs are not modelled: any thread may do any of this with pointers it can
reach, which includes every program that keeps to the ownership discipline the
compiler emits.  The teardown's work list is abstracted to "this thread is inside
the teardown of that object"; the order of the list does not matter to a count.

A collector is user code in the middle of a teardown.  `Collected` are the GCPointers that have one: `Collect`
hands their fields to the thread and raises its `depth`, and the thread may then do whatever
a program may, also tear down others, until `CollectReturn`.  `level` is the depth at which an object died:
a thread goes on with those of its present depth only (`Tearing`), because the work list of an outer
teardown waits until the collector returns (`Suspended`).  This allows more than the code: a collector may use
every variable of its thread, not only what it was given.  A collector may run for ever, and a cell
address keeps its kind: a GCPointer's memory is used for GCPointers again.

### SharedSlots

An object is a set of slots under one spinlock (`Object`).  The read takes the
lock, loads, dups, unlocks; the write dups first, locks, swaps, unlocks, and only
then drops the old value; the compare-and-swap compares pointers under the lock
and dups what it stores or answers with.  Addresses are reused, and `birth` tells
one use of an address from the next.

### LazyCell

A thread's `stack` is the calls of `force` it is inside.  A call tests the flag,
locks the cell, takes a reference to the thunk, unlocks, evaluates (forcing the
cells in `Needs`), locks again, stores if nobody has stored yet, and returns the
stored value; `ForcingHere` is the thread-local stack in which `force` looks for
the cell itself.

### CafMemo

Per constant the flags `claimed`, `owner`, `done`; `next` and `head` are the
lock-free cleanup list.  A use follows the code `Emit.idr` generates: claim, own,
evaluate (using the constants in `Needs`), store, push, publish; or wait, with
the self-dependency test, and dup.  `StartFinish`, `DropNode` and `Exit` are
`idris2rc2_rtFinish`; `Joined` says whether the program waits for its threads
before `main` returns.

### Channel, ThreadMVar

`Channel`: `pc`, `node` and `waiters` hold where a thread is, the node it owns
outside the mutex, and who is blocked on the condition; a signal, a spurious
wake-up and a time-out each remove a waiter, and a signalled thread can still
time out.  `Linked` is the sequence of nodes from `head`, and their values in this
order are the abstract queue.  `ThreadMVar`: `stage` and `op` hold where a thread is; a wait adds it
to `notEmpty` or `notFull`, and `calling` is the function of `modifyMVar` or
`withMVar` running without the mutex.  `live`, `updates`, `bypassed` are history
variables: no guard reads them except the bound on updates.

### Closures

A reference `[o, v]` is what the C pointer holds, `o`, and beside it the value the
source program means by it, `v`; the code has only the first.  References are in the
`hand` of a thread (a bag: what its code keeps between calls), in its frames, in its last
result `ret`, and in closures, as their arguments.  `stack` is the C frames of a
thread (`body`, `trampoline`, `apply`, `applyN`, `grow`, `drop`, ...).  Which body a
function has is left open: it consumes its arguments and
returns one of them or a closure over some, applies one to another and goes on
with the result, or applies one in tail position, which grows the closure in
place or copies it, and returns it unrun to the trampoline.  A drop is a frame as
well, of the references still to be given up: `DropOne` gives up one, and when that was the
last the arguments of the closure are next (the loop and the recursion of
`idris2rc2_teardown` in one list), so that other threads run between any two decrements.
`Taken` are the closures whose arguments a running function has and of which only the
shell is left.  Every count update is one step here and never reaches its maximum;
`RefCount` has the two-step updates and the saturated counts.  `FastArity` is the
arity up to which a function has a C prototype of its own (20).

### Words, Numbers, Decimal, Text, Buffers, Generators

`Words` has every C conversion explicit, `int` promotion included; its widths are
parameters, which `InputClaims` fixes as constants.  `Numbers` runs programs: a variable holds an immediate or a
cell, `means` what the source program means by it, and an operator gives up its
operands and writes its result into the first cell that nobody else holds, as
`integerBinopSlow` and `IDRIS2RC2_DEFOP_REUSE_RESULT` choose it.  GMP is external
and exact.  `Decimal` is the exact-integer conversion of `idris2rc2_numeric.c` with 53, -1074, 971
and 17 as parameters.  `Text` works on bytes with Unicode's own numbers.
`Buffers` cuts an offset to an `int` where the C prototype does.  In `Generators` a
word is the set of its bits and both generators have their real constants.

### Reactor

`pc` is where the scheduler's thread is inside `turn`: it runs a batch, fires the timers, arms the
descriptor, looks at (or waits for) the descriptors, drains those that were ready, and does the
first three once more (`second`).  What only this thread touches changes together with
the shared access next to it.  `wpc` is where each worker is; an offload, `takeJob` and
a change of the inbox are critical sections, and the fork after an offload, the test of
a job's `cancelled`, every `Point` of a chain, the push on the inbox and the write to the event
descriptor are steps of their own.  `timers` is a set and `LeftMost` the one the tree has at its
left end; `fireTimers` looks at the clock before each timer, so one step fires one.  A drained inbox
becomes `acts`, whose results are run one per step.  The clock moves while some deadline lies
ahead.  A program is a sequence of stages for each task: `Points` that a worker runs, a
sleep, and, as its last stage only, the cancellation of another task; `TaskScheduler` has the other
constructors.  `fresh` numbers the operations, `ran` counts the `Points` of each stage that were run;
no guard reads `ran`.

### TaskScheduler

A strand is one chain of continuations, `cur` the running one; a step of `runQ`
has its scope, its strand and what it owns.  An operation starts in two steps: `Start` tests the scope,
counts the operation and calls its callback, which is user code (`starting`), and `Register` makes it a
cleanup of its scope when the callback is back.  In between the callback may complete the operation or
others and cancel scopes, its own too; then `Register` finds the scope cancelled and
does not look (`Scheduler.idr:298-300`, 322-324).  `late` is a history variable: the operations registered that way.  The interpreter's actions are the
constructors of `Task` in `Scheduler.idr`; `Complete` is a completion called from
a source or the running step; `CancelTask` is called between steps or by the
running one, also on its own handle.  Cancelling a scope runs the cleanups of everything
below it in one action, as `cancelScope` does on the one scheduler thread.
`calls`, `consumed`, `undone`, `released` count what happened to each value and
release.  Every strand, scope, operation and finalizer is used once, which bounds
the program and not the interleavings.

### TaskSync

One cell, one channel and one semaphore, and the operations `Op`, each of which is
one call of the program, `program[o]`.  A handler of the code is an operator from
one `World` (a record of all that handlers change) to the next, named as in the
code (`Refill`, `Deliver`, `TrySendNow`, `GiveBack`, `Settle`, ...); an action makes
a call, runs a ready step, ends the body of `modifyMVar` or `withPermits`, cancels a
scope or closes the scheduler, and `Become`s the result.  The state of the MVar
is one record: without a value its line is that of the takers, with one that of
the putters, as `Vacant` and `Holding`.  A `SortedMap` (a line, the cleanups of the
scopes) is the set of its entries, each with its key as `num`; `front` is the one with
the least, `values` is `InOrder`.  `serve`'s recursion is the longest prefix
of the line whose needs fit (`Served`), and its completions one after the other are one
`Wake`.  What the scheduler does here (`Wake`, `Wait`, `CancelScope`, `Close`) is its
code over several operations of one scope; `TaskScheduler` has the same code over every
constructor of `Task`.  `cancelScope` takes the cleanups of the scope and then runs them one
by one, in the order of their idents (`CancelScope`, `RunCleanup`), and `closeScheduler`
drops the ready steps one by one (`Close`, `DropStep`): no task runs in between
(`Calm`), but each of these sees what the one before it did.  `taken` and `live` say where a value went: `live` is history,
`taken` is what the body of `modifyMVar` gives back.

## 3. What TLC checks

| run | instance | states | what it shows |
|---|---|---|---|
| `rc_core` | 2 threads, 2 dynamic objects of which one is a GCPointer with a collector, 1 static, 4 pointers, maximum 5 | 581 000 | no dangling pointer, no lost update, uniqueness stays true until it is used, plain updates only while alone; `RefCount` implements `Ownership`; teardowns end |
| `slots` | 2 threads, an IORef and an Array of two items, 3 addresses used twice | 3 million | every count is the number of references, nothing freed is touched, a successful exchange replaced the object expected |
| `closures` | 1 or 2 threads on one partial closure, functions of 1, 2 and 3 arguments (one past `FastArity`), statics, 5 cells | 1.6 million | a closure another reference sees never changes, every count is at every step the number of references, tail calls keep the C stack flat |
| `memo` | `CafMemo`: 2 threads, 4 constants with one cycle, threads end before `main` does; `LazyCell`: 2 threads, one cell that needs another twice, two that need each other | 141 000 | computed once, complete when seen, all freed; forces agree and leak nothing; the cycle tests are right and effective; calls end |
| `exchange` | `Channel`: 3 threads, 3 node addresses, 2 values; `ThreadMVar`: 3 threads, all eight operations, up to 2 updates | 292 000 | the list is sound, implements `ValueQueue` and forgets no getter; one signal is enough for takers and putters, updates are kept, a function puts its value back |
| `arithmetic` | see *Bounds* | 91 000 | exact arithmetic at every width, conversions that round-trip, characters that all string primitives agree on, buffers that keep bytes, jumps that are as many steps as they say, sequences of operators whose variables keep their numbers |
| `task_all` | 3 strands, root and 2 scopes, 1 handed-over value, 1 finalizer, completions called up to twice | 627 000 | one continuation, values settled exactly once, releases run once, no operation left open in a cancelled scope unless its callback was running at the cancellation, cancellation reaches all below, handoffs settle |
| `task_sync` | every program of 4 calls on one primitive, 3 scopes of which 2 can be cancelled, capacity 1, 2 permits, needs 2, 1, 1, 0 | 3.6 million | values and permits are conserved through withdraw, give-back, cancellation and close; nobody waits for what is there, and numbers of the line are right although they start again; first come, first served |
| `reactor` | 3 programs of 2 or 3 tasks on 0 to 2 workers, until all or the first has ended, batches and chains of 2, one interrupted wait | 323 000 | the scheduler never sleeps on a posted result or a timer, no job waits beside a worker that could run it, results arrive before the loop ends, the loop ends and closes |

Three runs check a statement of the repository that the code does not keep;
each has its finding in `PROJECT.json`:

| run | statement | what happens |
|---|---|---|
| `rc_immortal` | an immortal count is never written again (`rc2/doc/concurrency.md:96-99`) | two threads that both read one below the maximum both add, and the count wraps |
| `caf_detached` | `dropAll` runs after every other thread has stopped (`idris2rc2_caf_memoize.h:69`) | `main` returns and `dropAll` frees a constant; a detached thread that starts to use it finds it done and takes a reference to the freed value |
| `mvar_read` | conditions are signalled whenever a waiter could go on (`MVar.idr:45-48`) | a `readMVar` spends the signal of a put and passes it on to nobody: a taker sleeps beside a full box |

Others came up that no run shows violated.  A step that cancels the handle it runs under
and, in the same step, goes on to a `Race` starts both sides in a new scope that
nobody cancels: `runRace` alone of the interpreter's functions does not test its
scope (`Scheduler.idr:269`; "everything it runs or spawns is cancelled with it",
line 473).  An operation whose callback cancels the scope it starts in is registered as a cleanup of a scope
whose cleanups have been run (`Scheduler.idr:298-306`, 322-330): its result is dropped or handed back as
it should be, but it is not given up and stays pending until it completes.  And `closeScheduler` drops the ready steps one by one; an undo among them
may hand its value to another waiting task, whose step then lies in the queue
nobody runs (`Scheduler.idr:443-445`).  `TaskScheduler` and `TaskSync` have these
behaviours; their properties are stated so as to hold with them (`NoOrphans` names the operations in `late`).  One more is in
the arithmetic: `idris2rc2_shortest_double` calls its result the shortest decimal that
round-trips (`idris2rc2_numeric.c:310`), but it rounds the exact value to each number of digits in turn
and stops at the first that reads back, so a shorter decimal that is not the
nearest one is passed over: 2^-44 is written 5.6843418860808015e-14, although
5.684341886080802e-14 reads back as well.  `DecimalsRoundTrip` states the round trip, not the
length.

### Bounds

- *Threads.*  Two threads meet every race over one location; three are used
  where a signal can go to the wrong one of two waiters (`Channel`, `ThreadMVar`).
- *`MaxCount`.*  The real 65535 would never be reached.  `rc_core` needs it above
  the number of pointers, which is what makes the concurrent runtime safe
  (`FewRefs`); `rc_immortal` needs it below.  The theorems hold for every value, also
  of programs of one thread that saturate their counts.
- *Objects and pointers.*  Two objects and four pointers make an object with two
  owners that itself owns another; cells are reused after a free.  One of the two has a collector, so that a
  teardown meets a collector inside it and the other way round.
- *`MaxHeld`, `MaxBirth`* (`SharedSlots`).  A thread keeps at most one reference of
  its own to a value, in addition to what a primitive in progress owns; an
  address is allocated twice, once more than the compare-and-swap needs to meet a
  reused one.  `MaxHeld` is a state constraint.
- *`Needs`*.  `LazyCell`: a cell needed twice by one evaluation, and a cycle
  through two cells with a self-reference in it, met by two threads from both ends.
  `CafMemo`: two constants that can be pushed on the list at the same time, one of
  them also used by a cycle through two others.  A fifth constant takes the run
  past a million states and adds no new meeting of two threads.
- *`MaxUpdate`* caps the values an MVar carries, `MaxCalls` the calls of one
  completion: two, the first and a duplicate.
- *Strands, scopes, operations, finalizers* are each used once.  Three strands are a
  race or a join with its parent; two scopes are a handle and the race in it.
- *Programs* (`TaskSync`).  Four calls make two waiting tasks of one scope, one that
  serves them and one more that comes in between; two receivers that are both
  given up take a channel of capacity 1 past it.  A need of 0 and one as large as
  all permits are among the needs.  The two scopes differ in what is cancelled
  together; the third is the root, which never is.

- *Closures.*  Up to 3 arguments met by functions of 1 to 3; two functions run by calls, after
  which bodies only return.  That is an over-application whose result is a closure
  that is applied again in tail position.
- *Words.*  A word of 8 bits and an `int` of 4, so that types narrower than `int`, as wide
  as it and as wide as the word are all there; every number of the narrow
  types, the edges of the wide one.  *Numbers*: an immediate of 3 bits and a word of 4, three variables, three cells,
  magnitudes up to 17: one step past the word either way.
- *Decimal.*  Significands of 6 bits, exponents from -8 to 3 and 3 digits: subnormals, both
  forms of notation, overflow and the digits' edge, every Double of that format.
- *Text.*  Every string of up to 3 bytes, and of 4, over lead bytes of each length, the bytes at the edges of what may
  follow them, and bytes that start nothing.  *Buffers*: up to 9 bytes of 2 bits, room for
  the widest number, with offsets and lengths past both ends and past an `int` of 5 bits.
- *Generators.*  Real widths and constants.  A jump is compared with `next()` called one
  by one up to `MaxSteps` = 130 times, and the longer ones, the tables among them, through the ring.
- *Reactor.*  One more job than workers, a chain longer than `ChainLength`, a time-out that meets
  a job in each of its stages, a withdrawn timer beside one that stays.

### Fairness

- `RefCount`, `LazyCell`, `CafMemo`, `ThreadMVar`: weak fairness of each thread's
  steps inside a runtime call.  An OS thread that can run does run, and nothing in
  these calls waits for the program.  Starting a call is never fair.  A spinlock
  is granted to anyone, but each thread takes it finitely often per call, so weak
  fairness suffices; the mutex of an MVar likewise.
- `CafMemo` waits by spinning on `done`: its owner's steps are fair, so the wait
  ends unless the owner waits as well.  `CallsEnd` is therefore about constants that
  need no cycle, and about a thread that comes back to its own (`UseEnds`); a cycle
  through two threads is not caught by the code.
- `TaskScheduler`: weak fairness of `Turn`, the scheduler thread running its steps, in which the callbacks of
  operations return; sources are not fair: an operation may never complete.
- `Reactor`: weak fairness of the scheduler's thread, of each worker and of the clock.
  The actions of jobs end.  Nothing makes a spurious wake-up or a signal come.
- `Channel`, `SharedSlots`, `Closures`, `Numbers`, `TaskSync` have no liveness property and no fairness.

Deadlock is checked in `rc_core`, `rc_immortal`, `slots`, `closures` and `exchange`: whatever
happens there, some thread can take a step.  The others may stop: lazy
cells and constants when the process ends, a scheduler when it is closed, when every task is
done or its strands are used up, `arithmetic` after its last operator or when there is
nothing left to do with the input it chose.

## 4. What is proved

For every value of the constants, within the assumptions named:

| theorem of | | statement |
|---|---|---|
| `RuntimeProofs` (`RefCount`) | `ThreadsCorrect`, `PlainAlone` | before the flag is raised only the main thread runs; a plain update is never in progress beside another thread |
| | `TypeCorrect`, `NeverDangling`, `CountsExact`, `OwnersExclusive` | the other safety invariants of `rc_core` |
| | `Refinement` | with `FewRefs`, `Spec` implements `Ownership`: the step that discards the last pointer to an object that is no static is the one in which it dies |
| `SharedSlotsProofs` | `CountsBalance` | every count is the number of slots, variables and primitives that refer to the value |
| | `NothingStale` | no primitive counts, stores or compares a freed value; an exchange stores only over the object expected |
| `MemoProofs` | `OncePerProcess`, `MemoAlwaysSound` | a constant is computed at most once; with `Joined`, whoever waited finds it complete, nothing frees it while it is used, and the end of the process drops each value once |
| | `CyclesAreReal` | the process reports only constants that really need themselves |
| | `ForcesAlwaysAgree`, `NothingEverLeaks` | every force of a lazy cell returns the one value the cell keeps; closures and results that lost are freed once, and never under a thread that uses them |
| `ExchangeProofs` | `ListStaysSound`, `NoWakeUpLost`, `ChannelAlwaysSound` | the channel's list keeps its shape and its nodes; no getter sleeps beside a value |
| | `IsQueue` | the linked list implements `ValueQueue` |
| | `MVarAlwaysSound` | one signal for each change is enough for takers and putters of an MVar; no value and no update is lost |
| `TaskSchedulerProofs` | `ExactlyOneOfTheTwo` | a handed-over value is consumed or given back exactly once |
| | `NothingLeftOpen` | `pending` counts what is open; what is open is in its callback or a cleanup of its scope, and that scope is not cancelled unless it was during the callback; no release runs twice |
| | `GoesOnOnce` | a strand that goes on does so once |
| | `GivenUpWhole` | a cancelled scope takes all below it along, in one step |
| `ReactorProofs` | `NoWakeUpLost`, `NoJobOverlooked`, `NobodyOversleeps` | results wake the scheduler, jobs wake or start workers, the descriptor goes off no later than any timer |
| | `ResultsAlwaysArrive` | an operation that is pending is in one place from its start until its result is run; the loop ends only when nothing is left to do; a task that has ended ran each `Point` once |
| `TaskSyncProofs` | `AlwaysWhole` | the inductive invariant of MVar, Chan and Semaphore |
| | `NothingEverLost` | every value put or sent is in exactly one place, and every permit is free, on its way or held |
| | `LinesAlwaysExact` | who waits is in its line and could not be served; nobody else is in a line; cleanups are those of the waiting and of the bodies |
| | `FirstComeFirstServed` | nobody who waits is passed over |
| `ClosuresProofs` | `WorldHolds` | the inductive invariant of closures and the trampoline |
| | `ValuesAlwaysPersist` | a reference means what the program applied, whatever others do to the same memory, and a function runs on exactly those arguments |
| | `CountsAlwaysExact` | every count is the number of references of threads, frames and closures |
| | `StackAlwaysFlat` | one trampoline for the call and one for each nested call that is not a tail call |
| `RuntimeProofs` (`Words`) | `DivisionIsEuclidean` | the quotient and remainder made of C's truncating division are Euclidean, for every dividend and divisor but 0 |
| | `ArithmeticIsExact`, `ImmediatesHoldNumbers`, `CastsKeepNumbers`, `CastsMakeScalars`, and `WordsAlwaysExact` from them | at every width of word, `int` and type: the operators are the integers' cut to the type, an immediate holds its number, a cast keeps the number modulo the target's width, a Char is a scalar value |
| `RuntimeProofs` (`Numbers`) | `ProgramsAlwaysExact` | for Integer, Int64 and Bits64: however long a program and whichever cells its operators reuse, each variable holds the exact number, and each count is the number of variables that hold the cell |
| | `ProgramsAlwaysRead` | equality by words, order, the test for a literal and the casts of an Integer answer as the numbers do |
| `RuntimeProofs` (`Buffers`) | `BuffersAlwaysKeep` | at every width of byte and `int`: a buffer gives back the numbers, strings and copies written to it, changes no other byte, or the process stops |
| `RuntimeProofs` (`Text`) | `StringsAlwaysCharacters` | whatever the bytes: decoding takes each one once, every string primitive and both iterators act on the characters, packing and unpacking are inverse, bytes sort as characters do |

All safety properties of `rc_core`, `slots`, `closures`, `task_all`, `reactor`, `memo`, `exchange`
and `task_sync` are among these.  Numbers that a property adds up are sizes of sets in the proofs: two sets that differ in
one element differ by one in size, whatever else they hold, so that a step is about the one
reference it moves and no sum is taken apart.

### RefCount

For every set of threads, objects, statics and pointers (finitely many) and every
`MaxCount` above 1.

*Assumption.*  `Sound == threaded => FewRefs`: once a thread has been started,
fewer pointers than `MaxCount` exist.  It is part of each invariant and not an
assumption about the whole run: a program that stays single-threaded may saturate
its counts, and is covered.  `rc_immortal` shows that the assumption is needed: without
it the two-step test and add lets a count wrap.

*Argument.*  "No pointer dangles" is not inductive: a release frees on the count it
read, so the counts must be exact; a count is written from a value read earlier, so
that value must still be the count (plain updates, `SeenOK`) or be irrelevant
(atomic ones); a thread acts in place on an old answer, so nobody may be about to
change it (`StepOK` of the thread whose token it is).  `SafeInv` is the conjunction
of types, the heap's shape (`HeapOK`), the counts (`CountOK`) and, for every
thread, `StepOK` and `SeenOK`.  The inductive invariant is

    IInv == ThreadOK /\ (Sound => SafeInv)

where `ThreadOK` (proved first, with no assumption) says which threads exist and
that a plain step is alone.  One lemma per action shows `SafeInv'`; those that
start a count step, deliver a pointer, discard one, or change an object in place
share the lemmas `BeginSafe`, `DeliverSafe`, `DiscardOthers`, `InPlaceSafe`.  The two
facts that carry the argument are `LoneRelease` and `LoneOwner`: when a thread is about
to release the last pointer, or owns an object alone, no other thread is in a step
on that object, because a step needs a pointer to it.  The refinement uses the same
invariant: `ReleaseSub` with the count at 1 is the abstract `DiscardLast`, and with any other count
`Discard`, which the abstract heap allows only while another pointer is left.  Each needs the counts to be
exact, and the second one that a count below the maximum is not taken for a frozen one.

### SharedSlots

`NoStaleValue` needs the counts to be exact (`Balance`), and they stay so only because a
pointer loaded under the spinlock is still the one in the slot when it is counted, and
because the caller of a compare-and-swap holds both operands until it returns.  `IInv` is the
types, per thread what its stage has locked, loaded and owns (`LockOK`, `StageOK`), and `Balance`.
A step makes a reference, gives one up, exchanges a slot's with its own or takes over
the one it owns; there is one lemma for each of the four.

### Memo: constants

Constants are finitely many (`CafAssumption`); nothing is assumed of `Needs`, so they may
use each other in cycles.  `ComputedOnce` counts frames on stacks; the inductive
`Exclusive` names them instead: a constant that is done is claimed, a frame past the claim is of a
constant that is claimed and not done, and two such frames of one constant are the
same frame.  `ValueReady` rests on the cleanup list and the counts (`Held`): each listed memo has a
rank above that of the next one, `dropAll` has dropped exactly those ranked above its cursor, and a
value's count is the memo's reference, one for each frame that holds it and one for each thread
that keeps it.  A round of the lock-free push that loses writes only a memo that is not on the list.
`Joined` is needed: `caf_detached` is the counterexample without it.

`CycleIsReal` is about the chain of owners that a waiter follows.  Each frame above another was
called for a constant that the one below needs, so a constant found on the own stack is reached
from itself.  Nothing is assumed of when `main` ends.

### Memo: lazy cells

`LInv` says what each frame of `force` has and knows: the thunk while it evaluates, its own
result until it has compared, the cell's value after that; a cell gets a value once.  A cell
forced inside its own evaluation is only looked at or returned.  `CellCounts` adds that a count is
the cells that hold the object, the threads that were returned it, and what each frame holds of
it (`Weight`, up to two references in the frame that has just replaced the thunk).

### Exchange: channel

Threads and nodes are finitely many (`FiniteAssumption`).  The inductive invariant says that
some sequence `l` is the list (`ListOK`): chained by `next` from `head` to `tail`, of different
allocated nodes that no thread has, with every other allocated node at one thread, and,
while a thread waits, at least as many getters on their way as `l` has nodes
(`Served`).  That last part is why one signal per put is enough: each wakes a
waiter if there is one, and a getter leaves only with a node or when the list
is empty.  Each action makes `l` longer at the end, shorter at the front, or leaves it
(`ListStep`).  `Linked` is defined by a choice; `LinkedIsList` shows that it is `l`, by the
first place where two chains from one head would differ.  The refinement follows step
by step.

### Exchange: MVar

Any number of threads and all eight operations.  `HoldsOK` says what an operation
holds in each of its stages, `SomebodyComes` that a value or room somebody waits for has a thread on
its way to it (or a reader that spent the signal, which is the exception that `mvar_read` shows), and
`BInv` adds that the updates in the box and in the hands of threads are those that were made.

### Closures

Threads and cells are finitely many; functions, arities, atoms and statics are arbitrary within
`ClosureConstants` (an arity is at least 1, and no name means two things), and the start
within `StartConstants`: the first closure is partial and over atoms, a static one is over
immediates, and a hand is a bag of references to these.

None of the three properties is inductive.  A reference keeps its meaning when
a closure is grown or freed only because the count of 1 that was tested says that there is
no other reference to it; the counts stay exact only if each frame still owns what it was given
and takes what it should (a trampoline leaves a shell, and whoever frees it must not count its arguments
again); and that a frame gets a result it can use, a function where an argument waits and a
saturated closure only where a trampoline will bounce it, depends on all frames below it.  `WorldInv` has one
part for each:

- *Meanings.*  Each reference is `Good`: it is not to a saturated closure, which is only ever the last
  result or a shell.  And it `Means` what its object holds now (`HandMeans`, `StackMeans`, `ListMeans`),
  except in the frame of a shell.  A value has its arguments' values inside; the invariant needs one level
  of them only, since the next level is the meaning of the references below.
- *Stacks.*  `Sound(s)`: each frame has the fields of its kind (`Framed`); nothing but drops is above a
  frame about to run (`Order`); below each frame that may return a saturated closure there is a trampoline
  before anything else that would get it (`Bounce`); between two trampolines there is a nested call
  (`Flat`).  `Fit(s, r)` says what the frames on top may expect of the last result.
- *Heap.*  `HeapOK`: the shape of an object by its kind; a closure has at most as many arguments as its
  arity, a saturated one has a single reference, a static one is immortal and over immediates, a freed
  cell is `Unused`.
- *Counts.*  `RefsIn`, the number of references to an object in all hands, frames, results and
  closures, is the count; a closure whose arguments are taken has the count 1.

`RefsIn` is the size of one set of tagged places, so a step is proved by the difference it makes: in
`WorldStep`, on which all actions rest, what thread `t` and one closure `z` lose and get is what the
counts change by.  From exact counts follows what the hard steps need: a closure that a step freed, made
or left as a shell has no other reference (`Lonely`), so that growing, freeing or running it changes no
other meaning; and whatever is referred to is alive (`WorldLive`).  One lemma per action
(`CopyKeeps`, `GrowInPlaceKeeps`, `DropOneKeeps`, `BodyAppliesKeeps`, ...) shows that it keeps `World`.
Those that only move references between hand, frames and result share `MoveStep`, those that make a
closure `MakeStep`, those that free one or its shell `FreeStep`.

### TaskScheduler

Strands, operations and finalizers have different names (`NameAssumption`), `Handoffs` are
operations and `Owned` are strands.  `IInv` has one part per concern: what ready steps own, each
owned by one (`QueueOK`, with the set `OnWay`); which strands exist (`StrandOK`); for a
handoff, `consumed + undone +` (1 if on its way) `= calls` (`ValueOK`); a cleanup belongs
to its own scope, and an open operation whose callback is back is a cleanup of a scope that is not
cancelled, or is in `late` (`CleanupOK`); `pending` is the number of open ones (`PendingOK`); a
finalizer is unused, open, or over and released once (`ReleaseOK`).  The hard steps are
those that take several things at once, `CancelTask`, `Close` and `Complete`: they are
lemmas about sets of operations that end together.

`OneContinuation` needs the places of a strand that will go on: queued, running, waiting for an
operation, waiting for a race to be won, or for the sides of a join.  `PlacesOK` says that
it is in one of them, once, for some set `W` of sides that may still end; `W` is a choice because a
side whose scope was cancelled may be gone or on its way, and either is sound.  `CancelTakesAll`
needs that a scope stays a child of its parent until it is cancelled (`TreeOK`).

### Reactor

`MaxWorkers` is any number; programs, chains, batches and interrupts are arbitrary within
`ProgramsAssumption`: a stage is `Points`, a sleep, or a cancellation, which only comes last.

- The pool and the inbox (`IInv`).  `idle` is the number of workers that wait or
  were woken and are not back, workers are started in order, and no more jobs
  are queued than workers on their way (if one waits) or free (if one more could be started).
  For the inbox: it is empty, or the event descriptor is readable, or a worker is about to make it so,
  or the scheduler has read the descriptor and not yet taken the list.
- The clock (`ClockOK`).  What the descriptor is armed for is when it goes off, or sooner, and at
  the moment the scheduler waits that is the earliest deadline.
- The tasks (`TaskInv`).  An operation that is pending is in exactly one place: the timers, the pool's
  queue, a worker, the inbox or the list being run (`PlacesOK`); one whose task was
  cancelled is in at most one.  Each of these knows its task, its stage and how many
  `Points` were run (`ItemsOK`, `ProgressOK`), and `pending` is the number of tasks that wait.
- The end (`EndInv`).  A task that can go on is in the run queue, so that the loop ends with none
  left when the queue is empty and nothing is pending.

### TaskSync

Operations are finitely many and `None` is none of them (`OpAssumption`); programs,
scopes, needs, permits and the capacity are arbitrary within `ProgramAssumption`,
`ScopeAssumption` and `SizeAssumption`.  The handlers call each other (a give-back delivers to a
taker, a withdrawal settles the semaphore), so the invariant is one of a `World` in the
middle of a handler: `Sound(p, w, X, H, D, G)`, where `X` are the operations that are neither
in a line nor queued nor over at the moment, `H` the values that the handler has in hand,
`D` the operations whose cleanups `cancelScope` has taken and not run, and `G` those of the cancelled
scopes.  Its parts say who is in which line under which number (`WaitersOK`), what a
ready step carries (`QueueOK`, `StepOK`), what was taken (`TakenOK`), that a value is in
one of seven places and only once there (`PlacesOK`), what a channel or the semaphore
holds while somebody waits (`ChanHeld`, `SemHeld`), and whose the cleanups are
(`CleanupsOK`).  Each handler has a lemma that takes a sound `World` to a sound one and says what became
of `X` and `H`; an action ends with both empty (`Whole`), which gives `IInv`.  Two steps need
more than that.  `Settle` serves several at once: `Served` is a prefix of the line, what is left of it
needs more than is free, and the needs of those served are what the permits go down by
(`Balanced`).  And a cleanup that is run after others of its scope may find that a give-back in between made
its operation ready, in which case it is in no line and the cleanup does nothing (`D` and `G`
in `CleanupsOK`).

`ServedInOrder` compares two states, and follows from the invariant of the first.  `Serves(x, u, a, W)` says
of a handler whom it made ready, `W`, and that it left alone everyone else but its caller `a`;
`InTurn(a, W)` that nobody outside `W` is ahead of one in `W` in the same line.  `W` is the front of
a line (`AtFront`), those that the semaphore can serve, or, at a close, all that wait at
the channel.  The caller itself is served at once only if nobody waits for the same
(`Unwanted`), which is `ChanHeld` and the rule that an `MVar` with a value has no takers.

### Words

A type is a sign and a width, at most that of the word; immediates need a word of 2 bits, a
cast to Char one of 22 (`WidthAssumption`).  Nothing is assumed of `int`, nor that widths are powers of two.

- Powers.  The proofs add and halve exponents.  `2^(m + n) = 2^m * 2^n` is shown without
  induction: `2^n` is the number of subsets of `1..n`, and a subset of `1..m + n` is one of `1..m`
  with one of the rest (`PowerSum`); `n < 2^n` likewise (`PowerMore`).
- Cutting.  `Convert` returns a number of the type that equals its argument modulo the type's width
  (`CutTo`), and there is only one (`CutOnly`), so it is the one `Congruent` chooses.  Sums,
  products and shifts then pass through unsigned words, because `2^bits` divides `2^W` (`CutWord`).
- Division is not a matter of congruence: `DivisionIsEuclidean` gives the quotient, and
  `ExactDivision` goes through what the code does on the side, the divisor -1 where `int` or the word
  could overflow, and `|d|` of the least number, which is added as an unsigned word.
- A shift counts by an unsigned word, so a negative count is one past every width (`ShiftCount`).

### Numbers

A word is of `LimitBits + 2` bits, an immediate of one bit less than that; `LimitBits` is any number above 0, cells are arbitrary, variables
finitely many (`NumberConstants`).  GMP is exact by definition of the model; that the fast path on immediates, the
wrapping types, the bitwise operators and both ways to divide agree with it is proved.

- *Bits.*  What `ByBits` means is a choice: the number whose bits are those of the operands, combined.
  `Bitwise` goes from the upper bit down, and each of its steps is right of the bits it has seen
  (`BitwiseUp`); a number is known by its bits and its sign (`SameBits`).  The induction is over a set of
  natural numbers, by the order's being well-founded (`AllNaturals`), so that no operator has to be a
  parameter.
- *Operators.*  `FastExact`: within the guards of the fast path the `int64_t` arithmetic does not wrap, a
  shift loses no bit, and a count past the word leaves the sign.  `MpzExact`, `WordExact` say the same of
  GMP's and of the wrapping operators.
- *Memory.*  `Accounted(h, w, m, e, v)`: in the middle of an operator, the variables `w` stand for the
  numbers `m`, one more reference `e` is in the operator's hand and stands for `v`, and counts are
  exact.  An operator is a sequence of few moves: `TakeInHand`, `StoreInHand` (only what nobody else
  holds), `DropVariable`, `DropHand`, `NewIsAccounted`, `PutDown`; two operands in one cell are why the count of
  1 is tested (`UniqueHolder`).
- *Programs.*  `ProgramsExact` is not inductive: the fast path is exact for numbers that fit an
  immediate only, and the wrapping operators for numbers in their range.  `NumbersInv` adds both, with the
  one form of each Integer, which gives `ProgramsRead` too.

### Buffers

A byte and an `int` have any widths above 0; a buffer's size fits an `int`, as `newBuffer` takes it; a
String may be longer (`IsBufferInput`).

- `WriteIs` says which bytes a write leaves and which it makes, and that it stops the process exactly when
  its range is not inside.  `assert_valid_range` adds nothing: it compares the length with the room behind the
  offset, all `int64_t` made of `int`s, so the model needs no width there.
- `ReadsBack`: bytes that were shifted out at the low end and are shifted in from the last one down make the
  number cut to its width.  After `k` bytes the loop of `getBufferUIntLE` has the bits above the `n - k`
  bytes that are left, cut to `k` bytes (`DigitsMake`), because dividing twice is dividing by the product
  (`DivTwice`).
- `UpToNulIs`: `strlen` finds the first NUL, or the end; cutting there once more changes nothing.

### Text

A String is any sequence of bytes, a Char any scalar value (`IsTextInput`); Unicode's numbers are the real ones.

- *One character.*  A code point is written in digits of base 64 (`DigitsOf`), which are what `EncodeInto`
  and `DecodeBounded` take apart and put together (`DecodedIsEncoded`, `EncodedIsDecoded`).  `Survives`: a
  scalar value is read back whatever follows it.  `Decodes`: of any bytes at least one is taken, and an
  answer other than U+FFFD is the encoding of what was taken, which is where `IsScalarOfLen` is needed.
- *All of them.*  `Chars(s, n, q)`: `q` are the offsets at which the `n` characters of `s` begin.  They
  exist because each step takes a byte (`CharsExist`), and the recursive functions of the module are those
  offsets (`CharsAre`): two functions that agree at 0 and step alike agree everywhere.
- *Parts of a String.*  What is cut out between two of these offsets has the characters in between
  (`CutChars`), although the String may be malformed; that gives the tail, the substring, the index and
  what an iterator sees before the first NUL.
- *Packing.*  Packing a concatenation is concatenating what is packed (`PackConcat`) and unpacking gives the
  characters back (`PackChars`).
- *Order.*  Of two scalar values the smaller has the smaller encoding, and they differ within the bytes of
  the smaller (`EncodeSorts`).  With `BelowAfter` and `BelowBefore` Strings sort as their characters do
  (`PackSorts`), and the converse follows because `LessThan` is total and not both ways (`Sorted`).

### Not proved, only model-checked

- Liveness: `TeardownFinishes`, `HandoffSettles`, `RunEnds`, `CallsEnd`, `FunctionPutsBack` (out of
  the prover's reach).
- `DecimalsRoundTrip`, `JumpsAgree`: the algorithms are recursions over digits or exponents, in
  modules with RECURSIVE operators (induction over data).

## 5. What is not modelled

- Allocation, payload layout and the free list of integers: memory layout with no
  state the counts depend on.  `newBuffer` is among these: that it answers NULL when memory is out, and what a
  negative size does.  `idris2rc2_free` is a teardown without the count step, of what the compiler proved unshared.
- `fastPack`, `fastUnpack` and `fastConcat` in their `char *` forms, which end at the first NUL: `ForeignDivert` sends
  every call to the forms modelled.  The `TextBuffer` of rc2base, which packs and unpacks by the same functions.
- The fast double conversion of rc2base (`double_convert.c`, with its table of powers of
  five): its correctness is in 128-bit products and table entries that no smaller
  instance has.
- Clock, sockets: one system call each.  Casts between integers and strings and
  between Integer and Double, which are GMP's and printf's; the operators on Doubles, which round; the
  multiplications that turn a generator's state into its output, and seeding.
- Two operations that C leaves undefined or odd for some arguments: copying inside
  one buffer with overlapping ranges, and an Integer shift by a count past 64 bits, of which
  GMP's `mpz_get_ui` takes the low ones.
- The pthread objects behind mutex, condition, semaphore and barrier: their
  semantics are assumed where they are used, spurious wake-ups included.  A mutex
  is modelled as exclusion without order.
- The C11 memory model: steps are sequentially consistent.  The code uses
  sequentially consistent atomics, spinlocks and pthread mutexes around what it
  shares; the one place where it relies on something else, plain counts before
  the first `fork`, is what `PlainUpdatesAlone` is about.
- The compiler: syntax-directed transformations.  `RefCount` states the discipline
  their output must follow, by the guards of its actions.
- The virtual clock of the scheduler, its slots, promises (`fork`, `wait`), and the event
  sources, which register descriptors and signals and deliver the completions that
  `TaskScheduler` takes from outside.  `TaskScheduler` does not unfold what an undo
  does; `TaskSync` does, also during the close.  A `submit` or a close from inside a callback, and releases and
  give-ups that call the scheduler, are left out.

## 6. Plan

Order: what everything rests on first (counts, then the cells, lazy values and
constants over them), then the synchronisation of OS threads, then the scheduler;
next the parts above the scheduler.

1. Done: the modules of section 2 and the proofs of section 4.
2. An abstract specification of the task primitives, a queue and a counter whose
   operations are atomic, for `TaskSync` to implement.
3. Promises (`fork`, `wait`) over the scheduler: settled once, every waiter told; the slots.
4. Event sources: registrations against deliveries that are already queued.
5. Proofs: `ImmortalFrozen` for a program of one thread.
