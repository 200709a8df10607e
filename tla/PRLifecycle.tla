----------------------------- MODULE PRLifecycle -----------------------------
(***************************************************************************)
(* What a PatchRequest promises its reviewer: it waits for an answer, is   *)
(* carried out or refused once, and the verdict on it is final.  This is   *)
(* the diagram of README.md:120-148 with nothing of how it comes about.    *)
(***************************************************************************)
CONSTANT PRs   \* the names of PatchRequests

VARIABLE stage \* name -> its approvalState, or where it is before and after

Verdicts == {"Rejected", "Closed", "Failed"}

Init == stage = [n \in PRs |-> "unborn"]

Moves(s, t) ==
  \/ s = "unborn" /\ t = "Pending"
  \/ s = "Pending" /\ t \in {"Approved", "Rejected"}
  \/ s = "Approved" /\ t \in {"Applied", "Rejected"}
  \/ s = "Applied" /\ t \in {"Closed", "Failed"}
  \/ s # "unborn" /\ t = "deleted"

Next ==
  \E n \in PRs, t \in Verdicts \cup {"Pending", "Approved", "Applied", "deleted"} :
    Moves(stage[n], t) /\ stage' = [stage EXCEPT ![n] = t]

Spec == Init /\ [][Next]_stage
=============================================================================
