--------------------------- MODULE DiagnosisProofs ---------------------------
(***************************************************************************)
(* Proofs about Diagnosis, for all patches and any number of attempts.     *)
(***************************************************************************)
EXTENDS Diagnosis, TLAPS

-----------------------------------------------------------------------------
(* What is known at each await.  An answer passes for validated only once   *)
(* the loop is over and the last dry run accepted it; what is validated is *)
(* a patch; nothing is diagnosed before the end.                           *)

AwaitInv ==
  /\ at \notin {"done", "raised"} => diagnosis.proposed_patch = NoPatch
  /\ at = "raised" => diagnosis.proposed_patch = NoPatch
  /\ at \in {"retrieve", "revalidate", "analyze"} => attempt = 0
  /\ at = "validate" => answer.patch # NoPatch

\* This part rests on answers without a key validation_passed of their own.
PassedInv ==
  Claims \/ /\ answer.validation_passed => at = "done"
            /\ ProposedWasAccepted

IInv == TypeOK /\ AwaitInv /\ PassedInv

LEMMA InitInv == Init => IInv
  BY DiagnosisAssumption
  DEF Init, IInv, TypeOK, AwaitInv, PassedInv, ProposedWasAccepted, Diagnosed,
      Answers, PatchOrNone

-----------------------------------------------------------------------------
(* One lemma per action.                                                    *)

LEMMA RetrieveInv == ASSUME IInv, Retrieve PROVE IInv'
  BY DEF Retrieve, IInv, TypeOK, AwaitInv, PassedInv, ProposedWasAccepted,
         PatchOrNone

LEMMA RevalidateInv == ASSUME IInv, Revalidate PROVE IInv'
<1>1. CASE Validates(found, TRUE) /\ Reuse
  <2>1. TypeOK'
    BY <1>1 DEF Revalidate, IInv, TypeOK, Validates, Reuse, Diagnosed, PatchOrNone
  <2>2. AwaitInv'
    BY <1>1 DEF IInv, AwaitInv, Reuse
  <2>3. PassedInv'
    BY <1>1 DEF Revalidate, IInv, PassedInv, ProposedWasAccepted, Validates, Reuse, Diagnosed
  <2>4. QED
    BY <2>1, <2>2, <2>3 DEF IInv
<1>2. CASE Validates(found, FALSE) /\ at' = "analyze" /\ UNCHANGED diagnosis
  <2>1. TypeOK'
    BY <1>2 DEF Revalidate, IInv, TypeOK, Validates, PatchOrNone
  <2>2. AwaitInv' /\ PassedInv'
    BY <1>2 DEF Revalidate, IInv, AwaitInv, PassedInv, ProposedWasAccepted
  <2>3. QED
    BY <2>1, <2>2 DEF IInv
<1>3. QED
  BY <1>1, <1>2 DEF Revalidate

LEMMA AnalyzeInv == ASSUME IInv, Analyze PROVE IInv'
  BY DEF Analyze, IInv, TypeOK, AwaitInv, PassedInv, ProposedWasAccepted

\* What Return makes of an answer that did not pass.
LEMMA ReturnNothing ==
  ASSUME NEW result \in Answers, ~result.validation_passed, Return(result)
  PROVE  at' = "done" /\ diagnosis' = Diagnosed(NoPatch, "ai_pipeline", "none")
  BY DEF Return

LEMMA ReturnType ==
  ASSUME NEW result \in Answers, Return(result)
  PROVE  /\ at' = "done"
         /\ diagnosis' \in [proposed_patch : PatchOrNone,
                            source : {"none", "rag_cache", "ai_pipeline"},
                            confidence_boost : {"high", "none"}]
  BY DEF Return, Answers, Diagnosed, PatchOrNone

LEMMA GiveUpInv == ASSUME IInv, GiveUp PROVE IInv'
<1>1. answer \in Answers /\ Return(answer)
  BY DEF IInv, TypeOK, GiveUp
<1>2. TypeOK' /\ AwaitInv'
  BY <1>1, ReturnType DEF GiveUp, IInv, TypeOK, AwaitInv
<1>3. PassedInv'
  BY <1>1, ReturnNothing DEF GiveUp, IInv, PassedInv, ProposedWasAccepted, Diagnosed
<1>4. QED
  BY <1>2, <1>3 DEF IInv

LEMMA ProposeInv == ASSUME IInv, Propose PROVE IInv'
<1>1. attempt' \in 0 .. MaxAttempts /\ attempt' = attempt + 1
  BY DiagnosisAssumption DEF Propose, IInv, TypeOK
<1>2. CASE Return(answer) /\ UNCHANGED answer
  <2>1. answer \in Answers
    BY DEF IInv, TypeOK
  <2>2. TypeOK' /\ AwaitInv'
    BY <1>1, <1>2, <2>1, ReturnType DEF Propose, IInv, TypeOK, AwaitInv
  <2>3. PassedInv'
    BY <1>2, <2>1, ReturnNothing
    DEF Propose, IInv, PassedInv, ProposedWasAccepted, Diagnosed
  <2>4. QED
    BY <2>2, <2>3 DEF IInv
<1>3. CASE at' = "raised" /\ UNCHANGED <<answer, diagnosis>>
  BY <1>1, <1>3 DEF Propose, IInv, TypeOK, AwaitInv, PassedInv, ProposedWasAccepted
<1>4. CASE \E new \in Answers :
             /\ new.validation_passed => Claims
             /\ answer' = new
             /\ IF new.patch = NoPatch THEN Return(new)
                ELSE at' = "validate" /\ UNCHANGED diagnosis
  <2>1. PICK new \in Answers :
          /\ new.validation_passed => Claims
          /\ answer' = new
          /\ IF new.patch = NoPatch THEN Return(new)
             ELSE at' = "validate" /\ UNCHANGED diagnosis
    BY <1>4
  <2>2. TypeOK' /\ AwaitInv'
    BY <1>1, <2>1, ReturnType DEF Propose, IInv, TypeOK, AwaitInv
  <2>3. PassedInv'
    BY <2>1, ReturnNothing
    DEF Propose, IInv, AwaitInv, PassedInv, ProposedWasAccepted, Diagnosed
  <2>4. QED
    BY <2>2, <2>3 DEF IInv
<1>5. QED
  BY <1>2, <1>3, <1>4 DEF Propose, Fixes

LEMMA ValidateInv == ASSUME IInv, Validate PROVE IInv'
<1> DEFINE passed == [answer EXCEPT !.validation_passed = TRUE]
<1>1. answer.patch # NoPatch /\ answer.patch \in Patches /\ answer \in Answers
  BY DEF Validate, IInv, TypeOK, AwaitInv, Answers, PatchOrNone
<1>2. CASE /\ Validates(answer.patch, TRUE) /\ answer' = passed
           /\ Return(answer') /\ UNCHANGED validation
  <2>1. passed \in Answers /\ passed.patch = answer.patch /\ passed.validation_passed
    BY <1>1 DEF Answers
  <2>2. TypeOK' /\ AwaitInv'
    BY <1>1, <1>2, <2>1, ReturnType
    DEF Validate, Validates, IInv, TypeOK, AwaitInv, PatchOrNone
  <2>3. PassedInv'
    BY <1>1, <1>2, <2>1
    DEF Validates, Return, PassedInv, ProposedWasAccepted, Diagnosed
  <2>4. QED
    BY <2>2, <2>3 DEF IInv
<1>3. CASE /\ Validates(answer.patch, FALSE) /\ validation' = answer.patch
           /\ at' = "propose" /\ UNCHANGED <<answer, diagnosis>>
  <2>1. verdict' = [patch |-> answer.patch, valid |-> FALSE]
    BY <1>1, <1>3 DEF Validates
  <2>2. TypeOK'
    BY <1>1, <1>3, <2>1 DEF Validate, IInv, TypeOK, PatchOrNone
  <2>3. AwaitInv'
    BY <1>3, <2>1 DEF Validate, IInv, AwaitInv
  <2>4. PassedInv'
    BY <1>3 DEF Validate, IInv, AwaitInv, PassedInv, ProposedWasAccepted
  <2>5. QED
    BY <2>2, <2>3, <2>4 DEF IInv
<1>4. QED
  BY <1>2, <1>3 DEF Validate

LEMMA StepInv == IInv /\ [Next]_vars => IInv'
<1> SUFFICES ASSUME IInv, [Next]_vars PROVE IInv'
  OBVIOUS
<1>1. CASE Next
  BY <1>1, RetrieveInv, RevalidateInv, AnalyzeInv, ProposeInv, GiveUpInv, ValidateInv DEF Next
<1>2. CASE UNCHANGED vars
  BY <1>2 DEF vars, IInv, TypeOK, AwaitInv, PassedInv, ProposedWasAccepted
<1>3. QED
  BY <1>1, <1>2

LEMMA AlwaysInv == Spec => []IInv
  BY InitInv, StepInv, PTL DEF Spec

-----------------------------------------------------------------------------
(* The theorems *)

\* The loop's variables keep their types and the attempts their bound
\* (llm_client.py:179-206).
THEOREM DiagnosisTypeCorrect == Spec => []TypeOK
<1>1. IInv => TypeOK
  BY DEF IInv
<1>2. QED
  BY <1>1, AlwaysInv, PTL

\* Unless answers bring the key validation_passed themselves, no patch is
\* proposed but the one the last dry run accepted (llm_client.py:180-220,
\* main.py:556-587).
THEOREM ProposedWasAcceptedCorrect == ~Claims => (Spec => []ProposedWasAccepted)
<1> SUFFICES ASSUME ~Claims PROVE Spec => []ProposedWasAccepted
  OBVIOUS
<1>1. IInv => ProposedWasAccepted
  BY DEF IInv, PassedInv
<1>2. QED
  BY <1>1, AlwaysInv, PTL
=============================================================================
