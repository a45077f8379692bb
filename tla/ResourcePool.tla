---------------------------- MODULE ResourcePool ----------------------------
(***************************************************************************)
(* What mutex_t and semaphore_t promise their callers: a number of         *)
(* available units; threads that want one and wait for it; a unit is given *)
(* to one thread at a time, and is not left lying while somebody waits.    *)
(* Which of the waiting threads gets it is left open: the wait queue is    *)
(* first-in first-out, but a thread that has not waited may take the unit  *)
(* before the woken thread runs again.                                     *)
(***************************************************************************)
EXTENDS Naturals

CONSTANTS
  Thread,
  InitAvailable   \* the numbers of units a pool may start with

VARIABLES
  available,   \* units that nobody holds
  wanting      \* threads inside a blocking acquire call

poolVars == <<available, wanting>>

Init == available \in InitAvailable /\ wanting = {}

Request(t) ==
  /\ t \notin wanting
  /\ wanting' = wanting \cup {t}
  /\ UNCHANGED available

Grant(t) ==
  /\ t \in wanting /\ available > 0
  /\ available' = available - 1
  /\ wanting' = wanting \ {t}

TryGrant(t) ==
  /\ t \notin wanting /\ available > 0
  /\ available' = available - 1
  /\ UNCHANGED wanting

Release(t) ==
  /\ t \notin wanting
  /\ available' = available + 1
  /\ UNCHANGED wanting

Next == \E t \in Thread : Request(t) \/ Grant(t) \/ TryGrant(t) \/ Release(t)

Safe == Init /\ [][Next]_poolVars

(* A unit that stays available while threads stay waiting is given out.    *)
Spec == Safe /\ WF_poolVars(\E t \in Thread : Grant(t))
=============================================================================
