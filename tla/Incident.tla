------------------------------- MODULE Incident ------------------------------
(***************************************************************************)
(* controller/incident.py and controller/states.py: one Incident object,   *)
(* and the calls its State allows.  A call is synchronous, so it is one    *)
(* step; a call that raises changes nothing but what its caller knows.     *)
(***************************************************************************)
EXTENDS Naturals

CONSTANTS
  Patches,    \* the patches given to mark_resolved
  NoPatch,    \* the empty patch; no patch on record
  Approvers,  \* the values given for approved_by
  Nobody,     \* the empty approver; none on record
  Summaries,  \* the values given for rca_summary
  LongEnough, \* the summaries of at least 30 characters after strip
  NoSummary,  \* no summary on record
  MaxCalls    \* bound: successful calls in a run

ASSUME IncidentAssumption ==
  /\ NoPatch \in Patches /\ Nobody \in Approvers
  /\ LongEnough \subseteq Summaries /\ NoSummary \notin LongEnough
  /\ MaxCalls \in Nat

VARIABLES
  inc,      \* the object
  raised,   \* the exception the last call raised, or "none"
  calls     \* successful calls so far

vars == <<inc, raised, calls>>

\* Timestamps are kept as whether they are set.
Object ==
  [state : {"Open", "Investigating", "Resolved", "Closed"}, diagnosed : BOOLEAN,
   patch_applied : Patches, approved_by : Approvers,
   rca_summary : Summaries \cup {NoSummary}, worked : {"null", "true", "false"},
   resolved_at : BOOLEAN, closed_at : BOOLEAN]

New ==
  [state |-> "Open", diagnosed |-> FALSE, patch_applied |-> NoPatch,
   approved_by |-> Nobody, rca_summary |-> NoSummary, worked |-> "null",
   resolved_at |-> FALSE, closed_at |-> FALSE]

TypeOK ==
  /\ inc \in Object
  /\ raised \in {"none", "InvalidTransitionError", "RCAValidationError"}
  /\ calls \in 0 .. MaxCalls

Init == inc = New /\ raised = "none" /\ calls = 0

-----------------------------------------------------------------------------
(* A call that succeeds, a call that raises *)

Return(new) ==
  /\ calls < MaxCalls
  /\ calls' = calls + 1
  /\ inc' = new
  /\ raised' = "none"

Raise(exception) == raised' = exception /\ UNCHANGED <<inc, calls>>

Deny(states) == inc.state \in states /\ Raise("InvalidTransitionError")

\* Mutant: the patch that failed stays on record.
KeepPatchToInvestigating ==
  [inc EXCEPT !.state = "Investigating", !.diagnosed = TRUE]

\* Mutant: a state that _STATE_MAP does not know.
ReopenedToInvestigating ==
  IF inc.state = "Resolved"
  THEN [inc EXCEPT !.state = "Reopened", !.patch_applied = NoPatch, !.resolved_at = FALSE]
  ELSE [inc EXCEPT !.state = "Investigating", !.diagnosed = TRUE]

\* to_investigating; coming back from Resolved it takes the patch off the
\* record, and neither the approver nor the outcome.
ToInvestigating ==
  IF inc.state = "Resolved"
  THEN [inc EXCEPT !.state = "Investigating", !.diagnosed = TRUE,
                   !.patch_applied = NoPatch, !.resolved_at = FALSE]
  ELSE [inc EXCEPT !.state = "Investigating", !.diagnosed = TRUE]

\* start_investigation and reopen_investigation are the same call.
Investigate ==
  \/ /\ inc.state # "Closed"
     /\ Return(ToInvestigating)
  \/ Deny({"Closed"})

MarkResolved(patch, by) ==
  \/ /\ inc.state = "Investigating" /\ patch # NoPatch /\ by # Nobody
     /\ Return([inc EXCEPT !.state = "Resolved", !.patch_applied = patch,
                           !.approved_by = by, !.resolved_at = TRUE])
  \/ inc.state = "Investigating" /\ (patch = NoPatch \/ by = Nobody) /\ Raise("RCAValidationError")
  \/ Deny({"Open", "Resolved", "Closed"})

\* Mutant: the outcome is not asked for.
ClosableUnverified(summary) == summary \in LongEnough /\ inc.approved_by # Nobody

Closable(summary) ==
  summary \in LongEnough /\ inc.worked = "true" /\ inc.approved_by # Nobody

Close(summary) ==
  \/ /\ inc.state = "Resolved" /\ Closable(summary)
     /\ Return([inc EXCEPT !.state = "Closed", !.rca_summary = summary, !.closed_at = TRUE])
  \/ inc.state = "Resolved" /\ ~Closable(summary) /\ Raise("RCAValidationError")
  \/ Deny({"Open", "Investigating", "Closed"})

\* worked is a plain field: whoever checks the outcome assigns it.
SetWorked(outcome) ==
  /\ inc.state = "Resolved"
  /\ Return([inc EXCEPT !.worked = outcome])

\* A new object, filled from what to_dict stored; the fields that to_dict has
\* and from_dict forgets (resolution_notes, mttd_seconds) are read by nobody.
from_dict(data) ==
  [New EXCEPT !.state = data.state, !.diagnosed = data.diagnosed,
              !.patch_applied = data.patch_applied, !.approved_by = data.approved_by,
              !.rca_summary = data.rca_summary, !.worked = data.worked,
              !.resolved_at = data.resolved_at, !.closed_at = data.closed_at]

Reload == Return(from_dict(inc))

Next ==
  \/ Investigate
  \/ Reload
  \/ \E patch \in Patches, by \in Approvers : MarkResolved(patch, by)
  \/ \E summary \in Summaries : Close(summary)
  \/ \E outcome \in {"true", "false"} : SetWorked(outcome)

Spec == Init /\ [][Next]_vars

-----------------------------------------------------------------------------
(* Properties *)

Lifecycle == INSTANCE IncidentLifecycle
               WITH state <- inc.state, patched <- inc.patch_applied # NoPatch

\* Through any sequence of calls, allowed or refused, the incident moves only as
\* the header of states.py says, and never closes without the patch that was
\* resolved with: a reopened incident has lost the one that failed, and one that
\* is stored and loaded in between has lost nothing (states.py:60-155,
\* incident.py:103-153).
KeepsLifecycle == Lifecycle!Spec

\* A closed incident has everything its closing asks for, also after it was
\* reopened and resolved again (states.py:117-142, "ALL conditions must be met").
ClosedIsJustified ==
  inc.state = "Closed" =>
    /\ inc.patch_applied # NoPatch /\ inc.approved_by # Nobody
    /\ inc.worked = "true" /\ inc.rca_summary \in LongEnough
    /\ inc.diagnosed /\ inc.resolved_at /\ inc.closed_at
=============================================================================
