-------------------------- MODULE IncidentLifecycle --------------------------
(***************************************************************************)
(* The transitions an incident may make, as the header of                  *)
(* controller/states.py promises them, and what has to have happened to    *)
(* the patch before it is closed.                                          *)
(***************************************************************************)
VARIABLES
  state,     \* the incident's state
  patched    \* is a patch on record

Init == state = "Open" /\ patched = FALSE

Investigate ==
  /\ state \in {"Open", "Investigating", "Resolved"}
  /\ state' = "Investigating"
  /\ patched' = FALSE

Resolve == state = "Investigating" /\ state' = "Resolved" /\ patched' = TRUE

Close == state = "Resolved" /\ patched /\ state' = "Closed" /\ UNCHANGED patched

Next == Investigate \/ Resolve \/ Close

Spec == Init /\ [][Next]_<<state, patched>>
=============================================================================
