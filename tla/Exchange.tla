------------------------------- MODULE Exchange -------------------------------
(***************************************************************************)
(* The two things through which the OS threads of an rc2base program       *)
(* exchange values: a Channel and an MVar.  They share no state, so the    *)
(* threads of a behaviour use the one or the other, chosen at the start.   *)
(***************************************************************************)
EXTENDS Channel

CONSTANTS Ops, Initial, MaxUpdate

VARIABLES contents, notEmpty, notFull, stage, op, held, live, updates, bypassed,
          uses   \* "channel" or "mvar"

Box == INSTANCE ThreadMVar
boxVars == <<contents, notEmpty, notFull, stage, op, held, live, updates, bypassed>>

ASSUME BoxAssumption == Box!BoxConstants

ExchangeInit == Init /\ Box!Init /\ uses \in {"channel", "mvar"}
ChannelNext  == uses = "channel" /\ Next /\ UNCHANGED <<boxVars, uses>>
BoxStep(t)   == uses = "mvar" /\ Box!Step(t) /\ UNCHANGED <<vars, uses>>
BoxCall(t)   == uses = "mvar" /\ Box!Calls(t) /\ UNCHANGED <<vars, uses>>
ExchangeNext == ChannelNext \/ \E t \in Thread : BoxStep(t) \/ BoxCall(t)

exchangeVars == <<vars, boxVars, uses>>
ExchangeSpec ==
  /\ ExchangeInit /\ [][ExchangeNext]_exchangeVars
  /\ \A t \in Thread : WF_exchangeVars(BoxStep(t))

-----------------------------------------------------------------------------
(* Channel: the shape of the list and its nodes, and no lost wakeup; its    *)
(* ImplementsQueue, the order of the values, is checked as it stands.       *)
ChannelSound == ListSound /\ NobodyForgotten

(* MVar: one signal for each change is enough for takers and putters (only *)
(* readMVar and swapMVar leave a thread asleep beside the value it needs),  *)
(* and an update made without holding the mutex is kept.                    *)
MVarSound == Box!ForgottenOnlyByReaders /\ Box!UpdatesKept

(* MVar: a function that has the value always gets to put it back, whatever *)
(* takes and reads overlap (modifyMVar_, withMVar).                         *)
FunctionPutsBack == Box!FunctionPutsBack
=============================================================================
