------------------------------ MODULE Diagnosis ------------------------------
(***************************************************************************)
(* How one incident gets its proposedPatch (main.py:545-598 and            *)
(* llm_client.diagnose_incident): a past fix that still validates, or the  *)
(* Analyst, the Fixer and the Validator in a loop of three attempts.  The  *)
(* model's answers and the API server's dry runs are external: a model may *)
(* answer anything, a dry run may accept a patch now and refuse it later.  *)
(***************************************************************************)
EXTENDS Naturals

CONSTANTS
  Patches,      \* the patches that may be proposed
  NoPatch,      \* the empty patch; also: no error to tell of
  Lists,        \* may the model's JSON be something other than an object
  Claims,       \* may it have a key "validation_passed" of its own
  MaxAttempts   \* max_retries

ASSUME DiagnosisAssumption ==
  /\ NoPatch \notin Patches
  /\ Lists \in BOOLEAN /\ Claims \in BOOLEAN /\ MaxAttempts \in Nat

VARIABLES
  at,         \* the call that is awaited next
  found,      \* the patch of the similar incident
  attempt,    \* attempts of the Fixer begun
  answer,     \* patch_result
  validation, \* validation_error: the patch whose refusal it describes
  diagnosis,  \* what the retrieval or diagnose_incident comes to
  verdict     \* history: the dry run done last

vars == <<at, found, attempt, answer, validation, diagnosis, verdict>>

PatchOrNone == Patches \cup {NoPatch}
Answers == [patch : PatchOrNone, validation_passed : BOOLEAN]
Diagnosed(patch, source, boost) ==
  [proposed_patch |-> patch, source |-> source, confidence_boost |-> boost]

TypeOK ==
  /\ at \in {"retrieve", "revalidate", "analyze", "propose", "validate", "done", "raised"}
  /\ found \in PatchOrNone
  /\ attempt \in 0 .. MaxAttempts
  /\ answer \in Answers
  /\ validation \in PatchOrNone
  /\ diagnosis \in [proposed_patch : PatchOrNone, source : {"none", "rag_cache", "ai_pipeline"},
                    confidence_boost : {"high", "none"}]
  /\ verdict \in [patch : PatchOrNone, valid : BOOLEAN]

Init ==
  /\ at = "retrieve" /\ found = NoPatch /\ attempt = 0
  /\ answer = [patch |-> NoPatch, validation_passed |-> FALSE]
  /\ validation = NoPatch
  /\ diagnosis = Diagnosed(NoPatch, "none", "none")
  /\ verdict = [patch |-> NoPatch, valid |-> FALSE]

\* ValidatorAgent.validate: an empty patch passes without a dry run, and an
\* error of the call is a refusal.
Validates(patch, valid) ==
  /\ patch = NoPatch => valid
  /\ verdict' = IF patch = NoPatch THEN verdict ELSE [patch |-> patch, valid |-> valid]

-----------------------------------------------------------------------------
(* The retrieval *)

\* find_similar_incident: no embedding, no pool, an error or nothing similar
\* enough is no match; a match has a patch, as only such ones are stored.
Retrieve ==
  /\ at = "retrieve"
  /\ \/ at' = "analyze" /\ UNCHANGED found
     \/ at' = "revalidate" /\ found' \in Patches
  /\ UNCHANGED <<attempt, answer, validation, diagnosis, verdict>>

Reuse == at' = "done" /\ diagnosis' = Diagnosed(found, "rag_cache", "high")

\* Mutant: the past fix is reused as it is.
ReuseUnvalidated ==
  /\ at = "revalidate"
  /\ Reuse
  /\ UNCHANGED <<found, attempt, answer, validation, verdict>>

Revalidate ==
  /\ at = "revalidate"
  /\ \/ Validates(found, TRUE) /\ Reuse
     \/ Validates(found, FALSE) /\ at' = "analyze" /\ UNCHANGED diagnosis
  /\ UNCHANGED <<found, attempt, answer, validation>>

-----------------------------------------------------------------------------
(* diagnose_incident *)

\* Whatever the Analyst answers, or that it fails: only text depends on it.
Analyze ==
  /\ at = "analyze"
  /\ at' = "propose"
  /\ UNCHANGED <<found, attempt, answer, validation, diagnosis, verdict>>

\* The dictionary returned after the loop.
Return(result) ==
  /\ at' = "done"
  /\ diagnosis' = IF result.validation_passed
                  THEN Diagnosed(result.patch, "ai_pipeline", "high")
                  ELSE Diagnosed(NoPatch, "ai_pipeline", "none")

\* The Fixer fails: what the attempt before left behind is returned.  It answers
\* with a list: .get raises.  It sees no patch that applies, or proposes one.
Fixes ==
  \/ Return(answer) /\ UNCHANGED answer
  \/ Lists /\ at' = "raised" /\ UNCHANGED <<answer, diagnosis>>
  \/ \E new \in Answers :
       /\ new.validation_passed => Claims
       /\ answer' = new
       /\ IF new.patch = NoPatch THEN Return(new) ELSE at' = "validate" /\ UNCHANGED diagnosis

\* Mutants: one attempt too many; attempts that are not counted.
ProposeOnceMore ==
  /\ at = "propose" /\ attempt <= MaxAttempts
  /\ attempt' = attempt + 1
  /\ Fixes
  /\ UNCHANGED <<found, validation, verdict>>

ProposeUncounted ==
  /\ at = "propose" /\ attempt < MaxAttempts
  /\ Fixes
  /\ UNCHANGED <<found, attempt, validation, verdict>>

Propose ==
  /\ at = "propose" /\ attempt < MaxAttempts
  /\ attempt' = attempt + 1
  /\ Fixes
  /\ UNCHANGED <<found, validation, verdict>>

GiveUp ==
  /\ at = "propose" /\ attempt = MaxAttempts
  /\ Return(answer)
  /\ UNCHANGED <<found, attempt, answer, validation, verdict>>

\* Mutant: the verdict is recorded before it is known.
ValidateOptimistically ==
  /\ at = "validate"
  /\ answer' = [answer EXCEPT !.validation_passed = TRUE]
  /\ \/ Validates(answer.patch, TRUE) /\ Return(answer') /\ UNCHANGED validation
     \/ /\ Validates(answer.patch, FALSE)
        /\ at' = "propose" /\ validation' = answer.patch /\ UNCHANGED diagnosis
  /\ UNCHANGED <<found, attempt>>

Validate ==
  /\ at = "validate"
  /\ \/ /\ Validates(answer.patch, TRUE)
        /\ answer' = [answer EXCEPT !.validation_passed = TRUE]
        /\ Return(answer')
        /\ UNCHANGED validation
     \/ /\ Validates(answer.patch, FALSE)
        /\ validation' = answer.patch
        /\ at' = "propose" /\ UNCHANGED <<answer, diagnosis>>
  /\ UNCHANGED <<found, attempt>>

Next == Retrieve \/ Revalidate \/ Analyze \/ Propose \/ GiveUp \/ Validate

\* Every call that is awaited returns or raises.
Spec == Init /\ [][Next]_vars /\ WF_vars(Next)

-----------------------------------------------------------------------------
(* Properties *)

\* README.md:137, the executor "Applies validated patch": a patch is proposed
\* only if the last dry run of this incident accepted that very patch.  Neither
\* the leftover of an earlier attempt nor a past fix that has become invalid is
\* proposed (llm_client.py:180-220, main.py:556-587).
ProposedWasAccepted ==
  diagnosis.proposed_patch # NoPatch =>
    verdict = [patch |-> diagnosis.proposed_patch, valid |-> TRUE]

\* The loop ends, with a diagnosis or with an exception, however often the
\* Fixer fails or its patches are refused
\* (tests/test_pipeline_integration.py:246-275).
Concludes == <>(at \in {"done", "raised"})
=============================================================================
