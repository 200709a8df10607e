------------------------------ MODULE Dampening ------------------------------
(***************************************************************************)
(* Layer 1 of controller/dedup.py: the event window of each pod, kept in   *)
(* memory and lost when the controller restarts.  Times are ages: one tick *)
(* ages every event by one, and an event older than the window is dropped  *)
(* (the code drops it at the next event, before anybody can count it).     *)
(***************************************************************************)
EXTENDS Workloads, Naturals, Functions

CONSTANTS
  ImmediateStates,   \* IMMEDIATE_TRIGGER_STATES
  NoError,           \* the error state of an empty window
  DampenCount,       \* DAMPEN_COUNT
  DampenWindow,      \* DAMPEN_WINDOW_SECS, in ticks
  MaxBurst           \* bound: where the count of events within one tick stops

ASSUME DampeningAssumption ==
  /\ ImmediateStates \subseteq ErrorStates
  /\ NoError \notin ErrorStates
  /\ DampenCount \in Nat /\ DampenWindow \in Nat
  /\ MaxBurst \in Nat /\ MaxBurst >= DampenCount

VARIABLE window  \* pod -> the state of its events, and how many of each age

Ages == 0 .. DampenWindow
EmptyWindow == [err |-> NoError, hits |-> [a \in Ages |-> 0]]

WindowTypeOK ==
  window \in [Pods -> [err : ErrorStates \cup {NoError}, hits : [Ages -> Nat]]]

WindowInit == window = [p \in Pods |-> EmptyWindow]

-----------------------------------------------------------------------------
\* A call leaves only events of its own error state, so a window holds
\* events of one state; an event of another state starts it afresh.  Beyond
\* MaxBurst the threshold is reached, counted or not.
AfterEvent(w, e) ==
  [err  |-> e,
   hits |-> [a \in Ages |->
               LET hits == IF w.err = e THEN w.hits[a] ELSE 0
               IN IF a = 0 /\ hits < MaxBurst THEN hits + 1 ELSE hits]]

EventCount(w) == FoldFunction(LAMBDA x, y : x + y, 0, w.hits)

ReachesThreshold(w) == EventCount(w) >= DampenCount

\* The window keeps its events after a trigger: the next event triggers too.
CountEvent(p, e) == window' = [window EXCEPT ![p] = AfterEvent(@, e)]

\* should_trigger returns True
Triggers(p, e) ==
  IF e \in ImmediateStates THEN UNCHANGED window
  ELSE CountEvent(p, e) /\ ReachesThreshold(AfterEvent(window[p], e))

\* should_trigger returns False
Dampens(p, e) ==
  /\ e \notin ImmediateStates
  /\ CountEvent(p, e)
  /\ ~ReachesThreshold(AfterEvent(window[p], e))

ClearDampening(p) == window' = [window EXCEPT ![p] = EmptyWindow]

AgeWindows ==
  window' = [p \in Pods |->
               [window[p] EXCEPT !.hits =
                  [a \in Ages |-> IF a = 0 THEN 0 ELSE @[a - 1]]]]

ForgetWindows == window' = [p \in Pods |-> EmptyWindow]
=============================================================================
