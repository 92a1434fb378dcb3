------------------------------- MODULE Channel -------------------------------
(***************************************************************************)
(* Channel of rc2base (idris2rc2_rc2base_concurrency_util.c): a linked     *)
(* list of nodes under a mutex, with one condition variable.  A critical   *)
(* section is one step, up to the wait that releases the mutex; a node is  *)
(* allocated before it and read and freed after it.                        *)
(***************************************************************************)
EXTENDS Naturals, Sequences, FiniteSets

CONSTANTS Thread,
          Node,     (* addresses of nodes, reused after free                *)
          Value,
          None

ASSUME NoneAssumption   == None \notin Thread \cup Node \cup Value
ASSUME FiniteAssumption == IsFiniteSet(Thread) /\ IsFiniteSet(Node)

VARIABLES
  head, tail, (* c->head, c->tail                                           *)
  next,       (* node->next                                                 *)
  value,      (* node->value                                                *)
  allocated,  (* nodes between malloc and free                              *)
  waiters,    (* threads in pthread_cond_wait or pthread_cond_timedwait     *)
  pc,         (* "out", or the call in progress: "put", "get", "try",       *)
              (* "timed", "expired" (timed, after ETIMEDOUT), "free"        *)
  node,       (* the node a thread owns                                     *)
  got         (* <<the value returned last>>                                *)

vars == <<head, tail, next, value, allocated, waiters, pc, node, got>>

Init ==
  /\ head = None /\ tail = None
  /\ next      = [n \in Node |-> None]
  /\ value     = [n \in Node |-> None]
  /\ allocated = {}
  /\ waiters   = {}
  /\ pc        = [t \in Thread |-> "out"]
  /\ node      = [t \in Thread |-> None]
  /\ got       = <<>>

(* idris2rc2_channel_put, before the mutex: the node, with its own          *)
(* reference to the value.                                                  *)
StartPut(t, n, v) ==
  /\ pc[t] = "out"
  /\ n \notin allocated
  /\ allocated' = allocated \cup {n}
  /\ next'  = [next  EXCEPT ![n] = None]
  /\ value' = [value EXCEPT ![n] = v]
  /\ node'  = [node  EXCEPT ![t] = n]
  /\ pc'    = [pc    EXCEPT ![t] = "put"]
  /\ UNCHANGED <<head, tail, waiters, got>>

Signal == waiters' \in IF waiters = {} THEN {{}} ELSE {waiters \ {w} : w \in waiters}

(* Mutant: only the put into an empty channel signals.                      *)
PutSignalsFirst(t) ==
  /\ pc[t] = "put"
  /\ IF tail # None
     THEN next' = [next EXCEPT ![tail] = node[t]] /\ UNCHANGED <<head, waiters>>
     ELSE head' = node[t] /\ Signal /\ UNCHANGED next
  /\ tail' = node[t]
  /\ node' = [node EXCEPT ![t] = None]
  /\ pc'   = [pc   EXCEPT ![t] = "out"]
  /\ UNCHANGED <<value, allocated, got>>

(* Mutant: the node replaces what the channel holds.                        *)
PutReplaces(t) ==
  /\ pc[t] = "put"
  /\ head' = node[t]
  /\ tail' = node[t]
  /\ Signal
  /\ node' = [node EXCEPT ![t] = None]
  /\ pc'   = [pc   EXCEPT ![t] = "out"]
  /\ UNCHANGED <<next, value, allocated, got>>

(* idris2rc2_channel_put: link the node and signal.                         *)
Put(t) ==
  /\ pc[t] = "put"
  /\ IF tail # None
     THEN next' = [next EXCEPT ![tail] = node[t]] /\ UNCHANGED head
     ELSE head' = node[t] /\ UNCHANGED next
  /\ tail' = node[t]
  /\ Signal
  /\ node' = [node EXCEPT ![t] = None]
  /\ pc'   = [pc   EXCEPT ![t] = "out"]
  /\ UNCHANGED <<value, allocated, got>>

StartGet(t, kind) ==
  /\ pc[t] = "out"
  /\ pc' = [pc EXCEPT ![t] = kind]
  /\ UNCHANGED <<head, tail, next, value, allocated, waiters, node, got>>

Getting(t) == pc[t] \in {"get", "try", "timed", "expired"} /\ t \notin waiters

(* Mutant: the tail of an emptied channel keeps pointing to the last node.  *)
UnlinkHead(t) ==
  /\ Getting(t)
  /\ head # None
  /\ head' = next[head]
  /\ node' = [node EXCEPT ![t] = head]
  /\ pc'   = [pc   EXCEPT ![t] = "free"]
  /\ got'  = <<value[head]>>
  /\ UNCHANGED <<tail, next, value, allocated, waiters>>

(* idris2rc2_channel_get, _get_non_blocking, _get_with_timeout: there is a  *)
(* node, unlink it.  The value is the caller's from here on.                *)
Unlink(t) ==
  /\ Getting(t)
  /\ head # None
  /\ head' = next[head]
  /\ tail' = IF next[head] = None THEN None ELSE tail
  /\ node' = [node EXCEPT ![t] = head]
  /\ pc'   = [pc   EXCEPT ![t] = "free"]
  /\ got'  = <<value[head]>>
  /\ UNCHANGED <<next, value, allocated, waiters>>

(* There is none: wait.                                                     *)
Wait(t) ==
  /\ Getting(t) /\ pc[t] \in {"get", "timed"}
  /\ head = None
  /\ waiters' = waiters \cup {t}
  /\ UNCHANGED <<head, tail, next, value, allocated, pc, node, got>>

(* There is none and the call does not wait, or its time is out: Nothing.   *)
GiveUp(t) ==
  /\ Getting(t) /\ pc[t] \in {"try", "expired"}
  /\ head = None
  /\ pc' = [pc EXCEPT ![t] = "out"]
  /\ UNCHANGED <<head, tail, next, value, allocated, waiters, node, got>>

(* pthread_cond_timedwait returns ETIMEDOUT: also to a thread that has just *)
(* been signalled, whose signal is then spent.                              *)
Expire(t) ==
  /\ pc[t] = "timed"
  /\ pc' = [pc EXCEPT ![t] = "expired"]
  /\ waiters' = waiters \ {t}
  /\ UNCHANGED <<head, tail, next, value, allocated, node, got>>

(* pthread_cond_wait returns without a signal.                              *)
Spurious(t) ==
  /\ t \in waiters
  /\ waiters' = waiters \ {t}
  /\ UNCHANGED <<head, tail, next, value, allocated, pc, node, got>>

(* node->value is read and the node freed, outside the mutex.               *)
Free(t) ==
  /\ pc[t] = "free"
  /\ allocated' = allocated \ {node[t]}
  /\ value' = [value EXCEPT ![node[t]] = None]
  /\ node'  = [node  EXCEPT ![t] = None]
  /\ pc'    = [pc    EXCEPT ![t] = "out"]
  /\ UNCHANGED <<head, tail, next, waiters, got>>

Step(t) == Put(t) \/ Unlink(t) \/ Wait(t) \/ GiveUp(t) \/ Free(t)

Next == \E t \in Thread :
  \/ Step(t) \/ Expire(t) \/ Spurious(t)
  \/ \E n \in Node, v \in Value : StartPut(t, n, v)
  \/ \E kind \in {"get", "try", "timed"} : StartGet(t, kind)

Spec == Init /\ [][Next]_vars
-----------------------------------------------------------------------------
(* The nodes from head to the one that has no next.                         *)
Chain(l) ==
  /\ IF l = <<>> THEN head = None ELSE head = l[1] /\ next[l[Len(l)]] = None
  /\ \A i \in 1..Len(l) : i < Len(l) => next[l[i]] = l[i + 1]
Linked == CHOOSE l \in UNION {[1..k -> Node] : k \in 0..Cardinality(Node)} : Chain(l)

(* Type invariant, with the shape of the list and its nodes: tail is its    *)
(* last node, a linked node is allocated and belongs to no thread, and an   *)
(* allocated one is linked or with one thread, so that none is lost and     *)
(* none freed twice (idris2rc2_channel_put, idris2rc2_channel_get).         *)
ListSound ==
  LET l == Linked IN
  /\ next \in [Node -> Node \cup {None}]
  /\ got \in {<<>>} \cup {<<v>> : v \in Value}
  /\ waiters \subseteq {t \in Thread : pc[t] \in {"get", "timed"}}
  /\ tail = IF head = None THEN None ELSE l[Len(l)]
  /\ tail # None => next[tail] = None
  /\ \A i \in 1..Len(l) :
       /\ l[i] \in allocated
       /\ \A t \in Thread : node[t] # l[i]
  /\ Cardinality(allocated) = Len(l) + Cardinality({t \in Thread : node[t] # None})

(* No lost wakeup: when nobody is on its way no thread waits in get beside  *)
(* a value, although non-blocking and timed gets compete for the values and *)
(* a timed get may spend a signal.                                          *)
NobodyForgotten ==
  (\A t \in Thread : pc[t] # "out" => t \in waiters) => head = None \/ waiters = {}

(* The list of nodes is a queue: values come out in the order of the puts,  *)
(* each once, however many threads put and get.                             *)
Contents == LET l == Linked IN [i \in 1..Len(l) |-> value[l[i]]]
Queue    == INSTANCE ValueQueue WITH queue <- Contents
ImplementsQueue == Queue!Spec
=============================================================================
