-------------------------------- MODULE Reactor --------------------------------
(***************************************************************************)
(* The turn loop of a control-async scheduler (Control/Task/Scheduler.idr) *)
(* and its worker threads (Control/Task/Pool.idr): the inbox the workers   *)
(* post to, the event descriptor that wakes the scheduler, its timers and  *)
(* the timer descriptor, the idle test that ends the loop, and the close.  *)
(*                                                                         *)
(* A task is a sequence of stages: Points (actions a worker runs one after *)
(* the other, as in parallel mode; one Point is `blocking`), a sleep, and, *)
(* at the end, the cancellation of another task.  What only the thread of  *)
(* the scheduler touches (runQ, pending, timers, the tasks) changes in one *)
(* step between two accesses to what it shares; a critical section is one  *)
(* step as well.                                                           *)
(***************************************************************************)
EXTENDS Integers, Sequences, FiniteSets

CONSTANTS Programs,     \* the programs to choose from: a stage sequence per task
          MaxWorkers,   \* the largest limit of a pool
          ChainLength,  \* Points a worker runs before the task goes back (64)
          StepBudget,   \* steps of one batch (1024)
          MaxInterrupts, None

ASSUME WorkersAssumption == MaxWorkers \in Nat /\ None \notin Nat

Points(n) == [kind |-> "points", n |-> n]
Sleep(n)  == [kind |-> "sleep",  n |-> n]
CancelOf(t) == [kind |-> "cancel", n |-> t]
Stages == [kind : {"points", "sleep", "cancel"}, n : Nat]

Jobs   == [task : Nat, op : Nat \X Nat, stage : Nat, left : Nat, fuel : Nat]

(* At least the root; a stage has a Point, and a cancellation, which is the  *)
(* last stage, a task there is.                                              *)
ASSUME ProgramsAssumption ==
  /\ StepBudget \in Nat /\ ChainLength \in Nat \ {0} /\ None \notin Jobs
  /\ \A p \in Programs :
       /\ p \in Seq(Seq(Stages)) /\ p # <<>>
       /\ \A t \in DOMAIN p : \A i \in DOMAIN p[t] :
            /\ p[t][i].kind = "points" => p[t][i].n > 0
            /\ p[t][i].kind = "cancel" => p[t][i].n \in DOMAIN p /\ i = Len(p[t])

VARIABLES
  program, limit, untilRoot,        \* fixed: what runs, on how many workers, until when
  pc, second, budget, idle, evs,    \* the thread of the scheduler, inside `turn`
  forking,                          \* the worker it is about to start
  runQ, pending, timers, armed, task,
  fresh, acts,                      \* the last number of an operation; results to run
  now, timerFd, eventFd, inbox,     \* the clock, the two descriptors, the inbox
  queue, idlers, started, stopping, \* Pool: queue, idle, started, stopping
  wpc, job, revoked,                \* the workers, what each has, the jobs taken back
  ran, interrupts                   \* history: Points run of each stage

config  == <<program, limit, untilRoot>>
turnVars == <<second, budget, idle, evs>>
taskVars == <<runQ, pending, task>>
opVars   == <<fresh, acts>>
timeVars == <<timers, armed, timerFd>>
inboxVars == <<eventFd, inbox>>
poolVars == <<queue, idlers, started, stopping>>
workVars == <<wpc, job>>
vars == <<config, pc, turnVars, forking, taskVars, opVars, timeVars, now, inboxVars, poolVars,
          workVars, revoked, ran, interrupts>>

Tasks   == DOMAIN program
Worker  == 1..MaxWorkers
Waiting == {w \in Worker : wpc[w] = "wait"}

Init ==
  /\ program \in Programs /\ untilRoot \in BOOLEAN
  /\ limit \in {n \in 0..MaxWorkers :
       n = 0 => \A t \in DOMAIN program : \A i \in DOMAIN program[t] :
                  program[t][i].kind = "points" => program[t][i].n = 1}
  \* The first step has spawned every task; `submit` has woken the loop.
  /\ runQ = [t \in DOMAIN program |-> t] /\ eventFd = TRUE
  /\ task = [t \in DOMAIN program |-> [st |-> "ready", stage |-> 0, left |-> 0, op |-> <<t, 0>>]]
  /\ pc = "batch" /\ second = FALSE /\ budget = StepBudget /\ idle = FALSE /\ evs = {}
  /\ forking = None /\ pending = 0 /\ fresh = 0 /\ acts = <<>> /\ timers = {} /\ armed = None /\ timerFd = None
  /\ now = 0 /\ inbox = <<>>
  /\ queue = <<>> /\ idlers = 0 /\ started = 0 /\ stopping = FALSE
  /\ wpc = [w \in Worker |-> "none"] /\ job = [w \in Worker |-> None]
  /\ revoked = {} /\ ran = [t \in DOMAIN program |-> [i \in DOMAIN program[t] |-> 0]]
  /\ interrupts = 0

-----------------------------------------------------------------------------
(* Pool.                                                                     *)

(* conditionSignal: one of the workers that wait goes on.                    *)
SignalOne ==
  wpc' \in IF Waiting = {} THEN {wpc} ELSE {[wpc EXCEPT ![w] = "woken"] : w \in Waiting}

(* Mutant: a worker that was signalled counts as free.                       *)
WantedIfNobodyIdle(jobs) == started < limit /\ idlers = 0

Wanted(jobs) == started < limit /\ Len(jobs) > idlers

(* Run on a worker; with no worker, at once on this thread, result posted.   *)
Offload(j) ==
  IF limit = 0
  THEN /\ inbox' = Append(inbox, [j EXCEPT !.left = 0]) /\ eventFd' = TRUE
       /\ ran' = [ran EXCEPT ![j.task][j.stage] = @ + j.left]
       /\ UNCHANGED <<poolVars, wpc, forking>>
  ELSE /\ queue' = Append(queue, j)
       /\ started' = IF Wanted(queue') THEN started + 1 ELSE started
       /\ forking' = IF Wanted(queue') THEN started + 1 ELSE None
       /\ SignalOne
       /\ UNCHANGED <<idlers, stopping, inboxVars, ran>>

(* forkJoin, after the lock is released.                                     *)
Fork ==
  /\ forking # None
  /\ wpc' = [wpc EXCEPT ![forking] = "start"]
  /\ forking' = None
  /\ UNCHANGED <<config, pc, turnVars, taskVars, opVars, timeVars, now, inboxVars, poolVars, job,
                 revoked, ran, interrupts>>

(* takeJob, which a worker that waited for the condition starts over.        *)
TakeJob(w) ==
  /\ wpc[w] \in {"start", "woken"}
  /\ LET others == IF wpc[w] = "woken" THEN idlers - 1 ELSE idlers IN
     \/ /\ stopping
        /\ idlers' = others
        /\ wpc' = [wpc EXCEPT ![w] = "ended"]
        /\ UNCHANGED <<queue, job>>
     \/ /\ ~stopping /\ queue # <<>>
        /\ idlers' = others
        /\ job' = [job EXCEPT ![w] = Head(queue)]
        /\ queue' = Tail(queue)
        /\ wpc' = [wpc EXCEPT ![w] = "check"]
     \/ /\ ~stopping /\ queue = <<>>
        /\ idlers' = others + 1
        /\ wpc' = [wpc EXCEPT ![w] = "wait"]
        /\ UNCHANGED <<queue, job>>
  /\ UNCHANGED <<config, pc, turnVars, forking, taskVars, opVars, timeVars, now, inboxVars,
                 started, stopping, revoked, ran, interrupts>>

Spurious(w) ==
  /\ wpc[w] = "wait"
  /\ wpc' = [wpc EXCEPT ![w] = "woken"]
  /\ UNCHANGED <<config, pc, turnVars, forking, taskVars, opVars, timeVars, now, inboxVars, poolVars,
                 job, revoked, ran, interrupts>>

(* A job that was taken back before it began is skipped.                     *)
CheckJob(w) ==
  /\ wpc[w] = "check"
  /\ IF job[w].op \in revoked
     THEN wpc' = [wpc EXCEPT ![w] = "start"] /\ job' = [job EXCEPT ![w] = None]
     ELSE wpc' = [wpc EXCEPT ![w] = "run"] /\ UNCHANGED job
  /\ UNCHANGED <<config, pc, turnVars, forking, taskVars, opVars, timeVars, now, inboxVars, poolVars,
                 revoked, ran, interrupts>>

(* chain: the next Point; then on, until the last one, the fuel is out or    *)
(* the scope is cancelled (what is left is then Empty).                      *)
RunPoint(w) ==
  /\ wpc[w] = "run"
  /\ LET t == job[w].task
         j == [job[w] EXCEPT !.left = @ - 1, !.fuel = @ - 1]
         over == j.left = 0 \/ j.fuel = 0 \/ task[t].st = "gone"
     IN /\ ran' = [ran EXCEPT ![t][job[w].stage] = @ + 1]
        /\ job' = [job EXCEPT ![w] = j]
        /\ wpc' = [wpc EXCEPT ![w] = IF over THEN "post" ELSE "run"]
  /\ UNCHANGED <<config, pc, turnVars, forking, taskVars, opVars, timeVars, now, inboxVars, poolVars,
                 revoked, interrupts>>

(* postTo: the list first, under its lock, then the event descriptor.        *)
PostTo(w) ==
  /\ \/ /\ wpc[w] = "post"
        /\ inbox' = Append(inbox, job[w])
        /\ wpc' = [wpc EXCEPT ![w] = "poke"]
        /\ UNCHANGED <<eventFd, job>>
     \/ /\ wpc[w] = "poke"
        /\ eventFd' = TRUE
        /\ wpc' = [wpc EXCEPT ![w] = "start"]
        /\ job' = [job EXCEPT ![w] = None]
        /\ UNCHANGED inbox
  /\ UNCHANGED <<config, pc, turnVars, forking, taskVars, opVars, timeVars, now, poolVars, revoked,
                 ran, interrupts>>

WorkerStep(w) == TakeJob(w) \/ CheckJob(w) \/ RunPoint(w) \/ PostTo(w)

-----------------------------------------------------------------------------
(* Timers.                                                                   *)

(* Mutant: no wait is given for a time that has passed, which disarms it.    *)
ArmForZero(next) ==
  /\ armed' = next
  /\ timerFd' = IF next = None \/ next > now THEN next ELSE None

(* A timer descriptor armed for a time that has passed goes off at the next  *)
(* one: the wait it is given is at least 1.                                  *)
ArmFor(next) ==
  /\ armed' = next
  /\ timerFd' = IF next = None \/ next > now THEN next ELSE now + 1

(* leftMost: the earliest deadline and, for one deadline, the first started. *)
Before(x, y) == x.at < y.at \/ (x.at = y.at /\ x.op[2] <= y.op[2])
LeftMost(ts) == CHOOSE x \in ts : \A y \in ts : Before(x, y)

(* armTimerFd: only if the earliest deadline is another one.                 *)
ArmTimer(ts) ==
  LET next == IF ts = {} THEN None ELSE LeftMost(ts).at
  IN IF next = armed THEN UNCHANGED <<armed, timerFd>> ELSE ArmFor(next)

(* addTimer; armForNew arms the descriptor again only for an earlier         *)
(* deadline.                                                                 *)
AddTimer(x) ==
  /\ timers' = timers \cup {x}
  /\ IF armed = None \/ x.at < armed THEN ArmTimer(timers') ELSE UNCHANGED <<armed, timerFd>>

(* Time passes as long as a deadline lies ahead: nothing else looks at it.   *)
Tick ==
  /\ \/ timerFd # None /\ timerFd > now
     \/ \E x \in timers : x.at > now
  /\ now' = now + 1
  /\ UNCHANGED <<config, pc, turnVars, forking, taskVars, opVars, timeVars, inboxVars, poolVars,
                 workVars, revoked, ran, interrupts>>

-----------------------------------------------------------------------------
(* Steps of the tasks.                                                       *)

(* Mutant: whether the operation is over already is not tested.              *)
CompleteAnyway(t, op, left) ==
  /\ task' = [task EXCEPT ![t] = [@ EXCEPT !.st = "ready", !.left = left]]
  /\ runQ' = Append(runQ, t) /\ pending' = pending - 1

(* runAsync's complete: only for the operation that is pending.              *)
Complete(t, op, left) ==
  IF task[t].st = "waiting" /\ task[t].op = op
  THEN /\ task' = [task EXCEPT ![t] = [@ EXCEPT !.st = "ready", !.left = left]]
       /\ runQ' = Append(runQ, t) /\ pending' = pending - 1
  ELSE UNCHANGED taskVars

(* The continuation of t: what is left of its chain, its next stage, or its  *)
(* end.  Operations are numbered by `fresh`.                                 *)
Continue(t, rest) ==
  LET old == task[t]
      more == old.left > 0
      stage == IF more THEN old.stage ELSE old.stage + 1
      over == stage > Len(program[t])
      what == program[t][stage]
      op == <<t, fresh + 1>>
      Started == /\ task' = [task EXCEPT ![t] = [st |-> "waiting", stage |-> stage, left |-> 0, op |-> op]]
                 /\ runQ' = rest /\ pending' = pending + 1 /\ fresh' = fresh + 1
  IN \/ /\ over
        /\ task' = [task EXCEPT ![t].st = "done"] /\ runQ' = rest
        /\ UNCHANGED <<pending, fresh, timeVars, inboxVars, poolVars, wpc, forking, ran>>
     \/ /\ ~over /\ what.kind = "points"
        /\ Started
        /\ Offload([task |-> t, op |-> op, stage |-> stage,
                    left |-> IF more THEN old.left ELSE what.n, fuel |-> ChainLength])
        /\ UNCHANGED timeVars
     \/ /\ ~over /\ what.kind = "sleep"
        /\ Started
        /\ AddTimer([at |-> now + what.n, task |-> t, op |-> op])
        /\ UNCHANGED <<inboxVars, poolVars, wpc, forking, ran>>
     \/ /\ ~over /\ what.kind = "cancel"        \* onReactor
        /\ task' = [task EXCEPT ![t].st = "pinned", ![t].stage = stage]
        /\ runQ' = Append(rest, t)
        /\ UNCHANGED <<pending, fresh, timeVars, inboxVars, poolVars, wpc, forking, ran>>

(* cancelScope on the targets: the operation that is pending is given up,    *)
(* its timer withdrawn or its job taken back; a ready step will be dropped.  *)
CancelTasks(S, tasks) ==
  LET live == {t \in S : tasks[t].st \in {"ready", "waiting", "pinned"}}
      waits == {t \in live : tasks[t].st = "waiting"}
  IN /\ task' = [t \in Tasks |-> IF t \in live THEN [tasks[t] EXCEPT !.st = "gone"] ELSE tasks[t]]
     /\ pending' = pending - Cardinality(waits)
     /\ timers' = {x \in timers : x.task \notin live}
     /\ revoked' = revoked \cup {tasks[t].op : t \in waits}

(* runBatch: the next ready step.                                            *)
RunStep ==
  /\ pc = "batch" /\ forking = None /\ budget > 0 /\ runQ # <<>>
  /\ budget' = budget - 1
  /\ LET t == Head(runQ)  rest == Tail(runQ) IN
     \/ /\ task[t].st = "gone"
        /\ runQ' = rest
        /\ UNCHANGED <<task, pending, fresh, timeVars, inboxVars, poolVars, wpc, forking, revoked, ran>>
     \/ /\ task[t].st = "ready"
        /\ Continue(t, rest)
        /\ UNCHANGED revoked
     \/ /\ task[t].st = "pinned"
        /\ CancelTasks({program[t][task[t].stage].n}, [task EXCEPT ![t].st = "done"])
        /\ runQ' = rest
        /\ UNCHANGED <<fresh, armed, timerFd, inboxVars, poolVars, wpc, forking, ran>>
  /\ UNCHANGED <<config, pc, second, idle, evs, acts, now, job, interrupts>>

-----------------------------------------------------------------------------
(* turn.                                                                     *)

(* runTask's loop: another turn, or the end.                                 *)
NextTurn(more) ==
  /\ pc' = IF more /\ ~(untilRoot /\ task[1].st = "done") THEN "batch" ELSE "close"
  /\ second' = FALSE /\ budget' = StepBudget /\ idle' = FALSE /\ evs' = {}

EndBatch ==
  /\ pc = "batch" /\ forking = None /\ (budget = 0 \/ runQ = <<>>)
  /\ IF second
     THEN /\ eventFd' = (eventFd \/ runQ # <<>>)       \* wake
          /\ NextTurn(idle => runQ # <<>> \/ pending # 0)
     ELSE pc' = "fire" /\ UNCHANGED <<turnVars, eventFd>>
  /\ UNCHANGED <<config, forking, taskVars, opVars, timeVars, now, inbox, poolVars, workVars,
                 revoked, ran, interrupts>>

(* fireTimers, which looks at the clock before each timer.                   *)
FireTimers ==
  /\ pc = "fire"
  /\ LET x == LeftMost(timers) IN
     IF timers # {} /\ x.at <= now
     THEN timers' = timers \ {x} /\ Complete(x.task, x.op, 0) /\ UNCHANGED pc
     ELSE pc' = "arm" /\ UNCHANGED <<timers, taskVars>>
  /\ UNCHANGED <<config, turnVars, forking, opVars, armed, timerFd, now, inboxVars, poolVars,
                 workVars, revoked, ran, interrupts>>

ArmTimerFd ==
  /\ pc = "arm"
  /\ ArmTimer(timers)
  /\ IF second THEN pc' = "batch" /\ budget' = StepBudget ELSE pc' = "look" /\ UNCHANGED budget
  /\ UNCHANGED <<config, second, idle, evs, forking, taskVars, opVars, timers, now, inboxVars,
                 poolVars, workVars, revoked, ran, interrupts>>

Readable ==
  (IF eventFd THEN {"inbox"} ELSE {}) \cup (IF timerFd # None /\ timerFd <= now THEN {"timer"} ELSE {})
Finished == runQ = <<>> /\ pending = 0
Blocks   == runQ = <<>> /\ pending # 0

(* epollWait, which waits unless the scheduler is idle or has ready steps.   *)
EpollWait ==
  /\ pc = "look" /\ (Blocks => Readable # {})
  /\ IF Finished /\ Readable = {}
     THEN NextTurn(FALSE)
     ELSE /\ pc' = "drain" /\ second' = TRUE /\ idle' = Finished /\ evs' = Readable
          /\ UNCHANGED budget
  /\ UNCHANGED <<config, forking, taskVars, opVars, timeVars, now, inboxVars, poolVars, workVars,
                 revoked, ran, interrupts>>

(* A signal interrupts the wait (EINTR).                                     *)
Interrupt ==
  /\ pc = "look" /\ Blocks /\ interrupts < MaxInterrupts
  /\ interrupts' = interrupts + 1
  /\ NextTurn(TRUE)
  /\ UNCHANGED <<config, forking, taskVars, opVars, timeVars, now, inboxVars, poolVars, workVars,
                 revoked, ran>>

(* Mutant: the list is taken before the event descriptor is read.            *)
DrainInboxFirst ==
  /\ \/ /\ pc = "drain" /\ "inbox" \in evs
        /\ acts' = inbox /\ inbox' = <<>> /\ pc' = "take"
        /\ UNCHANGED <<evs, eventFd>>
     \/ /\ pc = "take"
        /\ eventFd' = FALSE
        /\ evs' = evs \ {"inbox"} /\ pc' = "acts"
        /\ UNCHANGED <<acts, inbox>>
  /\ UNCHANGED <<config, second, budget, idle, forking, taskVars, fresh, timeVars, now, poolVars,
                 workVars, revoked, ran, interrupts>>

(* drainInbox: the event descriptor is read, then the list is taken.         *)
DrainInbox ==
  /\ \/ /\ pc = "drain" /\ "inbox" \in evs
        /\ eventFd' = FALSE
        /\ pc' = "take"
        /\ UNCHANGED <<evs, acts, inbox>>
     \/ /\ pc = "take"
        /\ acts' = inbox /\ inbox' = <<>>
        /\ evs' = evs \ {"inbox"} /\ pc' = "acts"
        /\ UNCHANGED eventFd
  /\ UNCHANGED <<config, second, budget, idle, forking, taskVars, fresh, timeVars, now, poolVars,
                 workVars, revoked, ran, interrupts>>

(* The completions that were posted, in the order they came.                 *)
RunActs ==
  /\ pc = "acts"
  /\ IF acts # <<>>
     THEN LET a == Head(acts) IN
          acts' = Tail(acts) /\ Complete(a.task, a.op, a.left) /\ UNCHANGED pc
     ELSE pc' = "drain" /\ UNCHANGED <<acts, taskVars>>
  /\ UNCHANGED <<config, turnVars, forking, fresh, timeVars, now, inboxVars, poolVars, workVars,
                 revoked, ran, interrupts>>

DrainTimer ==
  /\ pc = "drain" /\ "timer" \in evs
  /\ timerFd' = None /\ armed' = None
  /\ evs' = evs \ {"timer"}
  /\ UNCHANGED <<config, pc, second, budget, idle, forking, taskVars, opVars, timers, now, inboxVars,
                 poolVars, workVars, revoked, ran, interrupts>>

Drained ==
  /\ pc = "drain" /\ evs = {}
  /\ pc' = "fire"
  /\ UNCHANGED <<config, turnVars, forking, taskVars, opVars, timeVars, now, inboxVars, poolVars,
                 workVars, revoked, ran, interrupts>>

-----------------------------------------------------------------------------
(* The end: cancelScope of the root when the first task has ended the loop,  *)
(* closeScheduler, closePool.                                                *)
CloseScheduler ==
  /\ pc = "close"
  /\ IF untilRoot
     THEN CancelTasks(Tasks, task)
     ELSE UNCHANGED <<task, pending, timers, revoked>>
  /\ runQ' = <<>>
  /\ pc' = "stop"
  /\ UNCHANGED <<config, turnVars, forking, opVars, armed, timerFd, now, inboxVars, poolVars,
                 workVars, ran, interrupts>>

StopWorkers ==
  /\ pc = "stop"
  /\ stopping' = TRUE /\ pc' = "join"
  /\ wpc' = [w \in Worker |-> IF w \in Waiting THEN "woken" ELSE wpc[w]]
  /\ UNCHANGED <<config, turnVars, forking, taskVars, opVars, timeVars, now, inboxVars, queue, idlers,
                 started, job, revoked, ran, interrupts>>

(* Every worker has ended; then the descriptors are closed.                  *)
JoinWorkers ==
  /\ pc = "join" /\ \A w \in 1..started : wpc[w] = "ended"
  /\ pc' = "closed"
  /\ UNCHANGED <<config, turnVars, forking, taskVars, opVars, timeVars, now, inboxVars, poolVars,
                 workVars, revoked, ran, interrupts>>

Turn ==
  \/ Fork \/ RunStep \/ EndBatch \/ FireTimers \/ ArmTimerFd \/ EpollWait
  \/ DrainInbox \/ RunActs \/ DrainTimer \/ Drained
  \/ CloseScheduler \/ StopWorkers \/ JoinWorkers
Next == Turn \/ Interrupt \/ Tick \/ \E w \in Worker : WorkerStep(w) \/ Spurious(w)

(* Threads run, actions of jobs end, and time passes; nothing makes a signal *)
(* or a spurious wake-up come.                                               *)
Spec == Init /\ [][Next]_vars
FairSpec == Spec /\ WF_vars(Turn) /\ WF_vars(Tick) /\ \A w \in Worker : WF_vars(WorkerStep(w))
-----------------------------------------------------------------------------
(* Types; a worker has a job exactly from taking it to having posted it.     *)
TypeOK ==
  /\ pc \in {"batch", "fire", "arm", "look", "drain", "take", "acts", "close", "stop", "join", "closed"}
  /\ evs \subseteq {"inbox", "timer"} /\ budget \in 0..StepBudget
  /\ forking \in Worker \cup {None} /\ started \in 0..limit /\ pending \in 0..Len(program)
  /\ idlers = Cardinality({w \in Worker : wpc[w] \in {"wait", "woken"}})
  /\ \A w \in Worker :
       /\ wpc[w] \in {"none", "start", "check", "run", "post", "poke", "wait", "woken", "ended"}
       /\ (job[w] # None) = (wpc[w] \in {"check", "run", "post", "poke"})

Awake == {w \in Worker : wpc[w] \in {"start", "woken"} \/ w = forking}
Free  == Awake \cup Waiting

(* Nobody sleeps on work (Scheduler.idr, drainInbox and armTimerFd; Pool.idr,*)
(* offload): while the scheduler waits for its descriptors, what was posted  *)
(* to it has made or is about to make the event descriptor readable, and the *)
(* timer descriptor goes off no later than the first timer; and no job is in *)
(* the queue while a worker that waits was not woken for it or, all workers  *)
(* being busy, one more could have been started.                             *)
Sleeps == pc = "look" /\ Blocks
InboxWakes ==
  Sleeps /\ inbox # <<>> => eventFd \/ \E w \in Worker : wpc[w] = "poke"
TimerWakes ==
  Sleeps => \A x \in timers : timerFd # None /\ (timerFd <= x.at \/ timerFd <= now + 1)
JobsWakeWorkers ==
  ~stopping =>
    /\ Waiting # {} => Len(queue) <= Cardinality(Awake)
    /\ started < limit => Len(queue) <= Cardinality(Free)
NobodySleepsOnWork == InboxWakes /\ TimerWakes /\ JobsWakeWorkers

(* An operation is in one place until its result has arrived: set as a timer,*)
(* queued, with a worker, in the inbox or among the results taken out of it; *)
(* the loop ends only when every task has ended or was given up, and a task  *)
(* that has ended has run each Point of each stage once (runAsync's pending  *)
(* count and fired flag, turn's idle test).                                  *)
Places(t) ==
  LET Its(x) == x.task = t /\ x.op = task[t].op IN
  {<<"timer", x>> : x \in {y \in timers : Its(y)}}
  \cup {<<"queue", i>> : i \in {k \in DOMAIN queue : Its(queue[k])}}
  \cup {<<"worker", w>> : w \in {v \in Worker : wpc[v] \in {"check", "run", "post"} /\ Its(job[v])}}
  \cup {<<"inbox", i>> : i \in {k \in DOMAIN inbox : Its(inbox[k])}}
  \cup {<<"acts", i>> : i \in {k \in DOMAIN acts : Its(acts[k])}}
ResultsArrive ==
  /\ TypeOK
  /\ pending = Cardinality({t \in Tasks : task[t].st = "waiting"})
  /\ \A t \in Tasks :
       /\ task[t].st = "waiting" => Cardinality(Places(t)) = 1
       /\ task[t].st = "done" =>
            \A i \in DOMAIN program[t] : program[t][i].kind = "points" => ran[t][i] = program[t][i].n
  /\ pc \in {"close", "stop", "join", "closed"} /\ ~untilRoot =>
       \A t \in Tasks : task[t].st \in {"done", "gone"}

(* The loop ends and the scheduler closes, with no worker left that could    *)
(* use its descriptors (closePool joins before they are closed).             *)
RunEnds == <>(pc = "closed" /\ \A w \in Worker : wpc[w] \in {"none", "ended"})
=============================================================================
