---------------------------- MODULE IncidentProofs ---------------------------
(***************************************************************************)
(* Proofs about Incident: its type, that a closed incident is justified,   *)
(* and that it implements IncidentLifecycle, for all patches, approvers,   *)
(* summaries and numbers of calls.                                         *)
(***************************************************************************)
EXTENDS Incident, TLAPS

\* What the state says of the other fields: a patch is on record from Resolved
\* on and not before, and reopening took off what resolving had put on.
Patched == inc.patch_applied # NoPatch

RoundInv ==
  /\ inc.state \in {"Open", "Investigating"} => ~Patched
  /\ inc.state # "Open" => inc.diagnosed
  /\ inc.state \in {"Resolved", "Closed"} =>
       Patched /\ inc.approved_by # Nobody /\ inc.resolved_at
  /\ inc.state = "Closed" =>
       inc.worked = "true" /\ inc.rca_summary \in LongEnough /\ inc.closed_at

IInv == TypeOK /\ RoundInv

LEMMA InitInv == Init => IInv
  BY IncidentAssumption DEF Init, IInv, TypeOK, RoundInv, Patched, Object, New

-----------------------------------------------------------------------------
(* A call that raises changes neither the object nor the count; a call that *)
(* succeeds leaves the count within its bound.                             *)

LEMMA RaiseInv ==
  ASSUME IInv, NEW x \in {"InvalidTransitionError", "RCAValidationError"}, Raise(x)
  PROVE  IInv' /\ UNCHANGED inc
  BY DEF IInv, TypeOK, RoundInv, Patched, Raise

LEMMA ReturnInv ==
  ASSUME IInv, NEW new \in Object, Return(new)
  PROVE  TypeOK' /\ inc' = new
  BY IncidentAssumption DEF IInv, TypeOK, Return

-----------------------------------------------------------------------------
(* Each call preserves the invariant and is a step of the lifecycle.       *)

Simulates == Lifecycle!Next \/ UNCHANGED <<inc.state, Patched>>

LEMMA InvestigateInv == ASSUME IInv, Investigate PROVE IInv' /\ Simulates
<1>1. CASE inc.state # "Closed" /\ Return(ToInvestigating)
  <2>1. ToInvestigating \in Object
    BY IncidentAssumption DEF IInv, TypeOK, Object, ToInvestigating
  <2>2. TypeOK' /\ inc' = ToInvestigating
    BY <1>1, <2>1, ReturnInv
  <2>3. /\ inc'.state = "Investigating" /\ inc'.patch_applied = NoPatch /\ inc'.diagnosed
    BY <1>1, <2>2 DEF IInv, TypeOK, RoundInv, Patched, Object, ToInvestigating
  <2>4. RoundInv'
    BY <2>3 DEF RoundInv, Patched
  <2>5. Lifecycle!Investigate
    BY <1>1, <2>3 DEF Lifecycle!Investigate, IInv, TypeOK, Object
  <2>6. QED
    BY <2>2, <2>4, <2>5 DEF IInv, Simulates, Lifecycle!Next
<1>2. CASE Deny({"Closed"})
  BY <1>2, RaiseInv DEF Deny, Simulates, Patched
<1>3. QED
  BY <1>1, <1>2 DEF Investigate

LEMMA MarkResolvedInv ==
  ASSUME IInv, NEW patch \in Patches, NEW by \in Approvers, MarkResolved(patch, by)
  PROVE  IInv' /\ Simulates
<1> DEFINE new == [inc EXCEPT !.state = "Resolved", !.patch_applied = patch,
                              !.approved_by = by, !.resolved_at = TRUE]
<1>1. CASE inc.state = "Investigating" /\ patch # NoPatch /\ by # Nobody /\ Return(new)
  <2>1. new \in Object
    BY DEF IInv, TypeOK, Object
  <2>2. TypeOK' /\ inc' = new
    BY <1>1, <2>1, ReturnInv
  <2>3. RoundInv'
    BY <1>1, <2>2 DEF IInv, TypeOK, Object, RoundInv, Patched
  <2>4. Lifecycle!Resolve
    BY <1>1, <2>2 DEF Lifecycle!Resolve, IInv, TypeOK, Object
  <2>5. QED
    BY <2>2, <2>3, <2>4 DEF IInv, Simulates, Lifecycle!Next
<1>2. CASE Raise("RCAValidationError")
  BY <1>2, RaiseInv DEF Simulates, Patched
<1>3. CASE Deny({"Open", "Resolved", "Closed"})
  BY <1>3, RaiseInv DEF Deny, Simulates, Patched
<1>4. QED
  BY <1>1, <1>2, <1>3 DEF MarkResolved

LEMMA CloseInv ==
  ASSUME IInv, NEW summary \in Summaries, Close(summary)
  PROVE  IInv' /\ Simulates
<1> DEFINE new == [inc EXCEPT !.state = "Closed", !.rca_summary = summary,
                              !.closed_at = TRUE]
<1>1. CASE inc.state = "Resolved" /\ Closable(summary) /\ Return(new)
  <2>1. new \in Object
    BY DEF IInv, TypeOK, Object
  <2>2. TypeOK' /\ inc' = new
    BY <1>1, <2>1, ReturnInv
  <2>3. RoundInv'
    BY <1>1, <2>2 DEF IInv, TypeOK, Object, RoundInv, Patched, Closable
  <2>4. Lifecycle!Close
    BY <1>1, <2>2 DEF Lifecycle!Close, IInv, RoundInv, Patched, TypeOK, Object
  <2>5. QED
    BY <2>2, <2>3, <2>4 DEF IInv, Simulates, Lifecycle!Next
<1>2. CASE Raise("RCAValidationError")
  BY <1>2, RaiseInv DEF Simulates, Patched
<1>3. CASE Deny({"Open", "Investigating", "Closed"})
  BY <1>3, RaiseInv DEF Deny, Simulates, Patched
<1>4. QED
  BY <1>1, <1>2, <1>3 DEF Close

LEMMA SetWorkedInv ==
  ASSUME IInv, NEW outcome \in {"true", "false"}, SetWorked(outcome)
  PROVE  IInv' /\ Simulates
<1> DEFINE new == [inc EXCEPT !.worked = outcome]
<1>1. new \in Object
  BY DEF IInv, TypeOK, Object
<1>2. TypeOK' /\ inc' = new
  BY <1>1, ReturnInv DEF SetWorked
<1>3. RoundInv' /\ UNCHANGED <<inc.state, Patched>>
  BY <1>2 DEF SetWorked, IInv, TypeOK, Object, RoundInv, Patched
<1>4. QED
  BY <1>2, <1>3 DEF IInv, Simulates

LEMMA ReloadInv == ASSUME IInv, Reload PROVE IInv' /\ Simulates
<1>1. from_dict(inc) = inc
  BY DEF IInv, TypeOK, Object, New, from_dict
<1>2. TypeOK' /\ inc' = inc
  BY <1>1, ReturnInv DEF Reload, IInv, TypeOK
<1>3. QED
  BY <1>2 DEF IInv, RoundInv, Patched, Simulates

LEMMA StepInv == IInv /\ [Next]_vars => IInv' /\ Simulates
<1> SUFFICES ASSUME IInv, [Next]_vars PROVE IInv' /\ Simulates
  OBVIOUS
<1>1. CASE Next
  BY <1>1, InvestigateInv, MarkResolvedInv, CloseInv, SetWorkedInv, ReloadInv DEF Next
<1>2. CASE UNCHANGED vars
  BY <1>2 DEF vars, IInv, TypeOK, RoundInv, Patched, Simulates
<1>3. QED
  BY <1>1, <1>2

LEMMA AlwaysInv == Spec => []IInv
  BY InitInv, StepInv, PTL DEF Spec

-----------------------------------------------------------------------------
(* The theorems *)

\* The object keeps its type through every sequence of calls
\* (incident.py:20-63).
THEOREM IncidentTypeCorrect == Spec => []TypeOK
<1>1. IInv => TypeOK
  BY DEF IInv
<1>2. QED
  BY <1>1, AlwaysInv, PTL

\* A closed incident has everything its closing asks for, however often it was
\* reopened before (states.py:117-142).
THEOREM ClosedIsJustifiedCorrect == Spec => []ClosedIsJustified
<1>1. IInv => ClosedIsJustified
  BY DEF IInv, RoundInv, Patched, ClosedIsJustified
<1>2. QED
  BY <1>1, AlwaysInv, PTL

\* Every call, allowed or refused, is a transition that the header of states.py
\* promises, or none (states.py:60-155).
THEOREM KeepsLifecycleCorrect == Spec => KeepsLifecycle
<1>1. Init => Lifecycle!Init
  BY DEF Init, New, Lifecycle!Init
<1>2. IInv /\ [Next]_vars => [Lifecycle!Next]_<<inc.state, inc.patch_applied # NoPatch>>
  BY StepInv DEF Simulates, Patched
<1>3. QED
  BY <1>1, <1>2, AlwaysInv, PTL DEF Spec, KeepsLifecycle, Lifecycle!Spec
=============================================================================
