---------------------------- MODULE SREAgentProofs ----------------------------
(***************************************************************************)
(* The whole controller implements both of its halves, for any pods,       *)
(* deployments, names, patches and windows, so what is proved of each half *)
(* holds of the whole; that executors for one error never overlap needs    *)
(* both halves.                                                            *)
(***************************************************************************)
EXTENDS SREAgent, RemediationProofs

USE DEF storeVars, diagnosed, handlers, memory, budget, P!storeVars, P!local, P!budget

\* What Remediation takes from a pipeline: the error and the count it writes.
PodKnows(p) ==
  /\ pc[p] # "idle" => err[p] \in ErrorStates
  /\ pc[p] \in {"l2patch", "l3patch"} => count[p] \in 1 .. MaxSeen

PipelineInv ==
  /\ pc \in [Pods -> P!Stages] /\ err \in [Pods -> ErrorStates \cup {NoError}]
  /\ count \in [Pods -> Nat]
  /\ \A p \in Pods : PodKnows(p)

AgentInv == TypeInv /\ ControlInv /\ PipelineInv

-----------------------------------------------------------------------------
(* Each step is one of Remediation's. *)

LEMMA DedupStep ==
  ASSUME TypeInv, PipelineInv, NEW p \in Pods, Dedup(p)
  PROVE  UNCHANGED vars \/ \E n \in PRs : CountRecurrence(n)
<1>1. CASE \/ \E l \in Logs : P!FetchContext(p, l)
           \/ P!GetCount(p) \/ P!ListOpen(p) \/ P!Register(p) \/ P!Abort(p)
  BY <1>1 DEF Dedup, StayRemediation, vars, P!FetchContext, P!GetCount, P!ListOpen,
              P!Register, P!Abort, P!Fault
<1>2. CASE P!PatchCount(p) /\ ~P!Bump(p)
  BY <1>2 DEF Dedup, StayRemediation, vars, P!PatchCount, P!Fault
<1>3. CASE P!PatchCount(p) /\ P!Bump(p)
  <2>1. ref[p] \in DOMAIN prs /\ ref[p] \in PRs /\ count[p] \in 1 .. MaxSeen
    BY <1>3 DEF P!PatchCount, P!Bump, P!At, P!Exists, PipelineInv, PodKnows, TypeInv, TypeOK,
                StoreTypeOK
  <2>2. SetSeen(ref[p], count[p]) /\ UNCHANGED <<used, restarts>>
    BY <1>3 DEF P!PatchCount, P!Bump, P!SetSeen, SetSeen, P!Fault
  <2>3. CountRecurrence(ref[p])
    BY <2>1, <2>2 DEF CountRecurrence, Dedup, StayRemediation
  <2>4. QED
    BY <2>1, <2>3
<1>4. QED
  BY <1>1, <1>2, <1>3 DEF Dedup

LEMMA RemediationStep == AgentInv /\ [AgentNext]_agentVars => [Next]_vars
<1> SUFFICES ASSUME AgentInv, AgentNext PROVE [Next]_vars
  BY DEF agentVars
<1>1. ASSUME NEW p \in Pods, PodFails(p) \/ PodRecovers(p) PROVE UNCHANGED vars
  BY <1>1 DEF PodFails, PodRecovers, StayRemediation, vars, P!PodFails, P!PodRecovers
<1>2. ASSUME NEW p \in Pods, Dedup(p) PROVE [Next]_vars
  BY <1>2, DedupStep DEF AgentInv, Next
<1>3. ASSUME NEW p \in Pods, Create(p) PROVE Next
  <2>1. PICK n \in PRs, patch \in Patches : Propose(n, DeploymentOf[p], err[p], patch)
                                             /\ P!Create(p, n, patch)
    BY <1>3 DEF Create
  <2>2. DeploymentOf[p] \in Deployments /\ err[p] \in ErrorStates
    BY <2>1, WorkloadAssumption DEF P!Create, P!At, AgentInv, PipelineInv, PodKnows
  <2>3. QED
    BY <2>1, <2>2 DEF Next
<1>4. ASSUME NEW p \in Pods, Store(p) PROVE Next
  <2>1. ref[p] \in PRs
    BY <1>4 DEF Store, AgentInv, TypeInv, TypeOK, StoreTypeOK
  <2>2. QED
    BY <1>4, <2>1 DEF Store, Next
<1>5. ASSUME NEW n \in PRs, Answer(n) \/ Remedy(n) PROVE Next
  BY <1>5 DEF Answer, Remedy, Next
<1>6. ASSUME NEW d \in Deployments, PodsTurn(d) PROVE Next
  BY <1>6 DEF PodsTurn, Next
<1>7. CASE TimePasses
  BY <1>7 DEF TimePasses, Next
<1>8. CASE RestartAll
  BY <1>8 DEF RestartAll, Next
<1>9. QED
  BY <1>1, <1>2, <1>3, <1>4, <1>5, <1>6, <1>7, <1>8 DEF AgentNext, Pipeline

-----------------------------------------------------------------------------
(* What Remediation takes from the pipeline stays true. *)

LEMMA CappedCount == \A k \in Nat : P!Capped(k + 1) \in 1 .. MaxSeen
  BY RemediationAssumption DEF P!Capped

LEMMA FinishStays ==
  ASSUME PipelineInv, NEW p \in Pods, P!Finish(p)
  PROVE  PipelineInv'
  BY DEF PipelineInv, PodKnows, P!Finish, P!Stages

LEMMA CountingStays ==
  ASSUME TypeInv, PipelineInv, NEW p \in Pods, P!GetCount(p) \/ P!PatchCount(p)
  PROVE  PipelineInv'
<1>1. P!At(p, {"l2get", "l2patch", "l3get", "l3patch"})
  BY DEF P!GetCount, P!PatchCount, P!At
<1>2. CASE P!NotCounted(p)
  BY <1>1, <1>2 DEF P!NotCounted, P!GoTo, P!At, PipelineInv, PodKnows, P!Stages
<1>3. CASE P!Finish(p)
  BY <1>3, FinishStays
<1>4. CASE P!GetCount(p) /\ ~P!NotCounted(p)
  <2>1. ref[p] \in DOMAIN prs /\ prs[ref[p]].seen \in Nat
    BY <1>1, <1>4 DEF P!GetCount, P!Exists, TypeInv, TypeOK, StoreTypeOK, PatchRequest
  <2>2. PICK k \in 1 .. MaxSeen : k = P!Capped(prs[ref[p]].seen + 1)
    BY <2>1, CappedCount
  <2>3. /\ UNCHANGED err /\ count' = [count EXCEPT ![p] = k]
        /\ \E stage \in {"l2patch", "l3patch"} : pc' = [pc EXCEPT ![p] = stage]
    BY <1>1, <1>4, <2>2 DEF P!GetCount, P!GoTo
  <2>4. QED
    BY <1>1, <2>3 DEF PipelineInv, PodKnows, P!Stages, P!At
<1>5. QED
  BY <1>1, <1>2, <1>3, <1>4 DEF P!PatchCount

LEMMA PipelineStays == AgentInv /\ [AgentNext]_agentVars => PipelineInv'
<1> SUFFICES ASSUME AgentInv, [AgentNext]_agentVars PROVE PipelineInv'
  OBVIOUS
<1>1. TypeInv /\ PipelineInv
  BY DEF AgentInv
<1>2. ASSUME UNCHANGED <<pc, err, count>> PROVE PipelineInv'
  BY <1>1, <1>2 DEF PipelineInv, PodKnows
<1>3. ASSUME NEW p \in Pods, PodFails(p) PROVE PipelineInv'
  BY <1>1, <1>3 DEF PodFails, P!PodFails, P!GoTo, PipelineInv, PodKnows, P!Stages
<1>4. ASSUME NEW p \in Pods, Dedup(p) PROVE PipelineInv'
  <2>1. CASE \E l \in Logs : P!FetchContext(p, l)
    BY <1>1, <2>1 DEF P!FetchContext, P!GoTo, P!At, PipelineInv, PodKnows, P!Stages
  <2>2. CASE P!ListOpen(p)
    BY <1>1, <2>2 DEF P!ListOpen, P!GoTo, P!At, PipelineInv, PodKnows, P!Stages
  <2>3. CASE P!Register(p)
    BY <1>1, <2>3, FinishStays DEF P!Register
  <2>4. CASE P!Abort(p)
    BY <1>1, <2>4, FinishStays DEF P!Abort
  <2>5. QED
    BY <1>1, <1>4, <2>1, <2>2, <2>3, <2>4, CountingStays DEF Dedup
<1>5. ASSUME NEW p \in Pods, Create(p) \/ Store(p) PROVE PipelineInv'
  <2>1. \/ P!Finish(p)
        \/ /\ UNCHANGED <<err, count>> /\ pc[p] # "idle"
           /\ \E stage \in {"record", "save", "register"} : pc' = [pc EXCEPT ![p] = stage]
    BY <1>5 DEF Create, Store, P!Create, P!CreateIncidentRecord, P!SaveIncident, P!Abort,
                P!GoTo, P!At
  <2>2. CASE ~P!Finish(p)
    BY <1>1, <2>1, <2>2 DEF PipelineInv, PodKnows, P!Stages
  <2>3. QED
    BY <1>1, <2>2, FinishStays
<1>6. ASSUME \/ \E p \in Pods : PodRecovers(p)
             \/ \E n \in PRs : Answer(n) \/ Remedy(n)
             \/ \E d \in Deployments : PodsTurn(d)
             \/ TimePasses \/ UNCHANGED agentVars
      PROVE  UNCHANGED <<pc, err, count>>
  BY <1>6 DEF PodRecovers, P!PodRecovers, Answer, Remedy, PodsTurn, TimePasses, P!Tick,
              pipelineVars, agentVars
<1>7. CASE RestartAll
  BY <1>1, <1>7 DEF RestartAll, P!Restart, PipelineInv, PodKnows, P!Stages
<1>8. QED
  BY <1>2, <1>3, <1>4, <1>5, <1>6, <1>7 DEF AgentNext, Pipeline

LEMMA AgentStep == AgentInv /\ [AgentNext]_agentVars => AgentInv'
  BY RemediationStep, PipelineStays, StepType, StepControl DEF AgentInv

LEMMA AgentStart == AgentInit => AgentInv
<1>1. AgentInit => PipelineInv
  BY DEF AgentInit, P!Init, PipelineInv, PodKnows, P!Stages
<1>2. Init => ControlInv
  BY InitInv DEF IInv
<1>3. QED
  BY <1>1, <1>2, InitType DEF AgentInv, AgentInit

\* The pipeline gives executor and outcome checker nothing they were not
\* modelled with (main.py:563-665 against main.py:683-797): the whole
\* controller is one of Remediation's, so what is proved there holds of it.
THEOREM RemediationInPlaceCorrect == AgentSpec => Spec
<1>1. AgentInit => Init
  BY DEF AgentInit
<1>2. QED
  BY <1>1, AgentStart, AgentStep, RemediationStep, PTL DEF AgentSpec, Spec

-----------------------------------------------------------------------------
(* Each step is one of the pipeline's. *)

LEMMA RemedyStep ==
  ASSUME AgentInv, NEW n \in PRs, Executor(n) \/ OutcomeChecker(n), UNCHANGED pipelineVars
  PROVE  [P!Next]_(P!vars)
<1>1. TypeInv /\ ControlInv
  BY DEF AgentInv
<1>2. UNCHANGED <<DOMAIN records, DOMAIN rows, restarts>>
  <2>1. UNCHANGED restarts
    BY DEF Executor, OutcomeChecker, Notice, Refuse, PatchDeployment, SaveAppliedPatch,
           StampApplied, Poll, Restamp, CheckHealth, RolloutUndo, MarkFailed, CloseIncident,
           Verdict, CloseRecord, MarkOutcome, Fault
  <2>2. DOMAIN records' = DOMAIN records
    BY DEF Executor, OutcomeChecker, Notice, Refuse, PatchDeployment, SaveAppliedPatch,
           StampApplied, Poll, Restamp, CheckHealth, RolloutUndo, MarkFailed, CloseIncident,
           Verdict, CloseRecord, MarkOutcome
  <2>3. DOMAIN rows' = DOMAIN rows
    BY DEF Executor, OutcomeChecker, Notice, Refuse, PatchDeployment, SaveAppliedPatch,
           StampApplied, Poll, Restamp, CheckHealth, RolloutUndo, MarkFailed, CloseIncident,
           Verdict, CloseRecord, MarkOutcome
  <2>4. QED
    BY <2>1, <2>2, <2>3
<1>3. UNCHANGED storeVars \/ Remediate(n)
  BY <1>1, RemedyWrites
<1>4. Remediate(n) => P!LifecycleNext
  BY DEF Remediate, Remediates, SetState, P!LifecycleNext, P!Remediate, P!Remediates, P!SetState,
         ApprovalStates, P!ApprovalStates
<1>5. QED
  BY <1>2, <1>3, <1>4 DEF P!Next, P!Lifecycle, P!vars, pipelineVars

LEMMA PipelineStep == AgentInv /\ [AgentNext]_agentVars => [P!Next]_(P!vars)
<1> SUFFICES ASSUME AgentInv, [AgentNext]_agentVars PROVE [P!Next]_(P!vars)
  OBVIOUS
<1>1. ASSUME NEW p \in Pods, PodFails(p) \/ PodRecovers(p) PROVE P!Next
  BY <1>1 DEF PodFails, PodRecovers, P!PodEvent, P!Next
<1>2. ASSUME NEW p \in Pods, Pipeline(p) PROVE P!Next
  BY <1>2 DEF Pipeline, Dedup, Create, Store, P!Pipeline, P!Next
<1>3. ASSUME NEW n \in PRs, Answer(n) PROVE P!Next
  <2>1. P!LifecycleNext
    BY <1>3 DEF Answer, Reviewer, Review, DeletePR, SetState, P!LifecycleNext, P!Review,
                P!DeletePR, P!SetState
  <2>2. QED
    BY <1>3, <2>1 DEF Answer, Reviewer, P!Next, P!Lifecycle, pipelineVars
<1>4. ASSUME NEW n \in PRs, Remedy(n) PROVE [P!Next]_(P!vars)
  BY <1>4, RemedyStep DEF Remedy
<1>5. CASE TimePasses
  BY <1>5 DEF TimePasses, P!Next
<1>6. CASE UNCHANGED agentVars \/ \E d \in Deployments : PodsTurn(d)
  BY <1>6 DEF agentVars, vars, pipelineVars, PodsTurn, PodsChange, P!vars
<1>7. CASE RestartAll
  BY <1>7 DEF RestartAll, P!Next
<1>8. QED
  BY <1>1, <1>2, <1>3, <1>4, <1>5, <1>6, <1>7 DEF AgentNext

\* With the real executor and outcome checker in the place of "any change of
\* state", the pipeline's steps stay the ones its own model has
\* (main.py:342-665, outcome_checker.py:151-203).
THEOREM PipelineInPlaceCorrect == AgentSpec => PipelineInPlace
<1>1. AgentInit => P!Init
  BY DEF AgentInit
<1>2. QED
  BY <1>1, AgentStart, AgentStep, PipelineStep, PTL DEF AgentSpec, P!Spec, PipelineInPlace

-----------------------------------------------------------------------------
(* The theorems about the pipeline come with their own instance of it.  Its  *)
(* definitions are those of P under other names, which is shown step by step.*)

Q == INSTANCE DiagnosisPipelineProofs
       WITH records <- DOMAIN records, rows <- DOMAIN rows,
            faults <- lost, MaxFaults <- MaxMishaps

LEMMA SameEvents == \A p, e : P!PodFails(p, e) <=> Q!PodFails(p, e)
<1>1. \A w : P!EventCount(w) = Q!EventCount(w)
  BY DEF P!EventCount, Q!EventCount, P!FoldFunction, Q!FoldFunction, P!FoldFunctionOnSet,
         Q!FoldFunctionOnSet, P!MapThenFoldSet, Q!MapThenFoldSet
<1>2. \A w, e : P!AfterEvent(w, e) = Q!AfterEvent(w, e)
  BY DEF P!AfterEvent, Q!AfterEvent, P!Ages, Q!Ages
<1>3. \A p, e : (P!Triggers(p, e) <=> Q!Triggers(p, e)) /\ (P!Dampens(p, e) <=> Q!Dampens(p, e))
  BY <1>1, <1>2 DEF P!Triggers, Q!Triggers, P!Dampens, Q!Dampens, P!CountEvent,
                    Q!CountEvent, P!ReachesThreshold, Q!ReachesThreshold
<1>4. QED
  BY <1>3 DEF P!PodFails, Q!PodFails, P!At, Q!At, P!GoTo, Q!GoTo, P!storeVars, Q!storeVars,
              P!budget, Q!budget

LEMMA SameSteps == P!Next <=> Q!Next
<1> USE DEF P!storeVars, Q!storeVars, P!local, Q!local, P!budget, Q!budget, P!At, Q!At,
        P!GoTo, Q!GoTo, P!Finish, Q!Finish, P!NoFingerprint, Q!NoFingerprint, P!Fault,
        Q!Fault, P!NotCounted, Q!NotCounted, P!ClearFingerprint, Q!ClearFingerprint,
        P!NoEntry, Q!NoEntry, P!Exists, Q!Exists, P!Namespace, Q!Namespace, P!Capped,
        Q!Capped
<1>1. \A p : P!PodRecovers(p) <=> Q!PodRecovers(p)
  BY DEF P!PodRecovers, Q!PodRecovers, P!ClearDampening, Q!ClearDampening, P!EmptyWindow,
         Q!EmptyWindow, P!Ages, Q!Ages
<1>2. \A p, l : P!FetchContext(p, l) <=> Q!FetchContext(p, l)
  BY DEF P!FetchContext, Q!FetchContext, P!Fingerprint, Q!Fingerprint,
         P!CheckFingerprintCache, Q!CheckFingerprintCache, P!CacheHit, Q!CacheHit
<1>3. \A p : P!GetCount(p) <=> Q!GetCount(p)
  BY DEF P!GetCount, Q!GetCount
<1>4. \A p : P!PatchCount(p) <=> Q!PatchCount(p)
  BY DEF P!PatchCount, Q!PatchCount, P!Bump, Q!Bump, P!SetSeen, Q!SetSeen
<1>5. \A p : P!ListOpen(p) <=> Q!ListOpen(p)
  BY DEF P!ListOpen, Q!ListOpen, P!ActiveFor, Q!ActiveFor, P!OpenFor, Q!OpenFor,
         P!OpenStates, Q!OpenStates
<1>6. \A p, n, patch : P!Create(p, n, patch) <=> Q!Create(p, n, patch)
  BY DEF P!Create, Q!Create, P!AddPR, Q!AddPR, P!NewPatchRequest, Q!NewPatchRequest
<1>7. \A p : P!Abort(p) <=> Q!Abort(p)
  BY DEF P!Abort, Q!Abort
<1>8. \A p : P!CreateIncidentRecord(p) <=> Q!CreateIncidentRecord(p)
  BY DEF P!CreateIncidentRecord, Q!CreateIncidentRecord
<1>9. \A p : P!SaveIncident(p) <=> Q!SaveIncident(p)
  BY DEF P!SaveIncident, Q!SaveIncident
<1>10. \A p : P!Register(p) <=> Q!Register(p)
  BY DEF P!Register, Q!Register, P!RegisterFingerprint, Q!RegisterFingerprint
<1>11. P!Lifecycle <=> Q!Lifecycle
  BY DEF P!Lifecycle, Q!Lifecycle, P!LifecycleNext, Q!LifecycleNext, P!Review, Q!Review,
         P!SetState, Q!SetState, P!Remediate, Q!Remediate, P!ApprovalStates,
         Q!ApprovalStates, P!Remediates, Q!Remediates, P!DeletePR, Q!DeletePR
<1>12. P!Tick <=> Q!Tick
  BY DEF P!Tick, Q!Tick, P!AgeWindows, Q!AgeWindows, P!Ages, Q!Ages, P!AgeCache, Q!AgeCache,
         P!Fingerprints, Q!Fingerprints, P!AgeEntry, Q!AgeEntry
<1>13. P!Restart <=> Q!Restart
  BY DEF P!Restart, Q!Restart, P!ForgetWindows, Q!ForgetWindows, P!EmptyWindow,
         Q!EmptyWindow, P!Ages, Q!Ages, P!ForgetCache, Q!ForgetCache, P!Fingerprints,
         Q!Fingerprints
<1>14. QED
  BY ONLY SameEvents, <1>1, <1>2, <1>3, <1>4, <1>5, <1>6, <1>7, <1>8, <1>9, <1>10, <1>11,
          <1>12, <1>13
     DEF P!Next, Q!Next, P!PodEvent, Q!PodEvent, P!Pipeline, Q!Pipeline

LEMMA SameSpec == AgentSpec => Q!Spec
<1>1. P!Init => Q!Init
  BY DEF P!Init, Q!Init, P!StoreInit, Q!StoreInit, P!WindowInit, Q!WindowInit,
         P!EmptyWindow, Q!EmptyWindow, P!Ages, Q!Ages, P!CacheInit, Q!CacheInit,
         P!Fingerprints, Q!Fingerprints, P!NoEntry, Q!NoEntry, P!NoFingerprint,
         Q!NoFingerprint
<1>2. P!vars = Q!vars /\ (P!vars)' = (Q!vars)'
  BY DEF P!vars, Q!vars, P!storeVars, Q!storeVars, P!local, Q!local, P!budget, Q!budget
<1>3. AgentInv /\ [AgentNext]_agentVars => [Q!Next]_(Q!vars)
  BY <1>2, PipelineStep, SameSteps
<1>4. AgentInit => Q!Init
  BY <1>1 DEF AgentInit
<1>5. QED
  BY <1>3, <1>4, AgentStart, AgentStep, PTL DEF AgentSpec, Q!Spec

\* Executors of one error of a single-pod deployment do not overlap: each works
\* on an Approved PatchRequest, which is an open one, and layer 3 lets the
\* pipeline make no second one beside it (main.py:683-786, dedup.py:142), however
\* often the controller restarts, the reviewer deletes and executors and checkers
\* meet an error.
THEOREM ExecutorsApartCorrect == AgentSpec => []ExecutorsApart
<1>1. AgentSpec => []Q!OneOpenPR
  <2>1. /\ Q!WorkloadAssumption /\ Q!StoreAssumption /\ Q!CacheAssumption
        /\ Q!DampeningAssumption /\ Q!PipelineAssumption
    BY WorkloadAssumption, StoreAssumption, RemediationAssumption, AgentAssumption
    DEF Q!WorkloadAssumption, Q!StoreAssumption, Q!CacheAssumption, Q!DampeningAssumption,
        Q!PipelineAssumption, IsFiniteSet, Q!IsFiniteSet
  <2>2. Q!Spec => []Q!OneOpenPR
    BY <2>1, Q!OneOpenPRCorrect
  <2>3. QED
    BY <2>2, SameSpec, PTL
<1>2. AgentSpec => []AgentInv
  BY AgentStart, AgentStep, PTL DEF AgentSpec
<1>3. AgentInv /\ Q!OneOpenPR => ExecutorsApart
  <2> SUFFICES ASSUME AgentInv, lost = 0, Q!OneOpenPR, NEW m \in DOMAIN prs, NEW n \in DOMAIN prs,
                      executor[m] # "idle", executor[n] # "idle",
                      prs[m].dep = prs[n].dep, prs[m].err = prs[n].err,
                      P!SinglePod(prs[n].dep)
               PROVE  m = n
    BY DEF ExecutorsApart
  <2>1. prs[n].dep \in Deployments /\ prs[n].err \in ErrorStates
    BY DEF AgentInv, TypeInv, TypeOK, StoreTypeOK, PatchRequest
  <2>2. prs[m].state = "Approved" /\ prs[n].state = "Approved"
    BY DEF AgentInv, ControlInv, Knows, ExecutorKnows
  <2>3. m \in Q!OpenFor(prs[n].dep, prs[n].err) /\ n \in Q!OpenFor(prs[n].dep, prs[n].err)
    BY <2>2 DEF Q!OpenFor, Q!OpenStates
  <2>4. Q!SinglePod(prs[n].dep)
    BY DEF P!SinglePod, Q!SinglePod, P!PodsOf, Q!PodsOf
  <2>5. QED
    BY <2>1, <2>3, <2>4 DEF Q!OneOpenPR
<1>4. QED
  BY <1>1, <1>2, <1>3, PTL
=============================================================================
