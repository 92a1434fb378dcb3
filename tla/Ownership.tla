----------------------------- MODULE Ownership -----------------------------
(***************************************************************************)
(* What the reference counts of the rc2 runtime promise: a heap whose      *)
(* objects live exactly as long as a pointer to them exists.  There is no  *)
(* count here; RefCount is shown to implement this module.                 *)
(***************************************************************************)
CONSTANTS Obj,     (* heap cells                                           *)
          Static,  (* the cells that exist from the start and never die    *)
          Ref,     (* pointers that may exist                              *)
          None     (* the target of a pointer that does not exist          *)

VARIABLES life,    (* "free", "live" or "dying"                            *)
          target   (* the object each pointer points to, or None           *)

vars == <<life, target>>

Refs(o) == {r \in Ref : target[r] = o}

Init ==
  /\ life   = [o \in Obj |-> IF o \in Static THEN "live" ELSE "free"]
  /\ target = [r \in Ref |-> None]

Allocate(o, r) ==
  /\ life[o] = "free"
  /\ target[r] = None
  /\ life'   = [life   EXCEPT ![o] = "live"]
  /\ target' = [target EXCEPT ![r] = o]

(* New pointers only come from an existing pointer, or name a static.       *)
Copy(o, S) ==
  /\ life[o] = "live"
  /\ o \in Static \/ Refs(o) # {}
  /\ \A r \in S : target[r] = None
  /\ target' = [r \in Ref |-> IF r \in S THEN o ELSE target[r]]
  /\ UNCHANGED life

(* A pointer goes and its object stays: a static, or another pointer to it  *)
(* is left.  The last pointer to anything else cannot go this way.          *)
Discard(r) ==
  /\ target[r] # None
  /\ life[target[r]] = "live"
  /\ target[r] \in Static \/ Refs(target[r]) # {r}
  /\ target' = [target EXCEPT ![r] = None]
  /\ UNCHANGED life

(* The last pointer goes, and its object with it.                           *)
DiscardLast(r) ==
  /\ target[r] # None
  /\ life[target[r]] = "live"
  /\ target[r] \notin Static
  /\ Refs(target[r]) = {r}
  /\ \E after \in {"dying", "free"} : life' = [life EXCEPT ![target[r]] = after]
  /\ target' = [target EXCEPT ![r] = None]

Free(o) ==
  /\ life[o] = "dying"
  /\ Refs(o) = {}
  /\ life' = [life EXCEPT ![o] = "free"]
  /\ UNCHANGED target

Next ==
  \/ \E o \in Obj, r \in Ref : Allocate(o, r)
  \/ \E o \in Obj, S \in SUBSET Ref : Copy(o, S)
  \/ \E r \in Ref : Discard(r) \/ DiscardLast(r)
  \/ \E o \in Obj : Free(o)

Spec == Init /\ [][Next]_vars
=============================================================================
