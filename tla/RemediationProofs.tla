-------------------------- MODULE RemediationProofs --------------------------
(***************************************************************************)
(* Proofs about Remediation, for any deployments, names and patches, any   *)
(* window and any bounds.                                                  *)
(***************************************************************************)
EXTENDS Remediation, SequenceTheorems, TLAPS

USE DEF storeVars, diagnosed, handlers, memory, budget, WriterAt, ByElapsed

-----------------------------------------------------------------------------
(* What each process knows while it holds a PatchRequest.  Executor and    *)
(* timer write the status without a precondition, so everything rests on   *)
(* the state still being the one they started with.                        *)

Asleep(n) ==
  /\ executor[n] = "idle" /\ timer[n] = "idle" /\ writer[n] = "done"
  /\ handled[n] = "Pending"

\* The executor works on an approval kopf has not ticked off.
ExecutorKnows(n) ==
  /\ executor[n] # "idle" => prs[n].state = "Approved" /\ handled[n] # "Approved"
  /\ prs[n].state = "Pending" => handled[n] # "Approved"

Watching == {"restamp", "watch", "decide", "undo", "fail", "close"}

TimerKnows(n) ==
  /\ timer[n] \in Watching => prs[n].state = "Applied"
  /\ timer[n] = "forget" => prs[n].state = "Failed"
  /\ timer[n] \in {"closeRecord", "learn"} => prs[n].state = "Closed"

\* Once the window is over it stays over: nobody stamps an applied patch again.
WindowOver(n) ==
  prs[n].state = "Closed" \/ timer[n] \in {"decide", "close"} => observed[n] = Window

Knows(n) ==
  /\ ExecutorKnows(n) /\ TimerKnows(n) /\ WindowOver(n)
  /\ GivenUp(n) => faults > 0

ControlInv == \A n \in DOMAIN prs : Knows(n)

\* The executor stamps and stores only what it has deployed.
Deployed(n) ==
  \/ executor[n] \in {"store", "stamp"}
  \/ n \in DOMAIN prs /\ prs[n].state \in {"Applied", "Closed", "Failed"}

DeployInv == \A n \in used : Deployed(n) => EverDeployed(n)

\* As long as the undo works, nothing fails and nothing restarts, where the one PatchRequest of
\* a deployment stands says which revisions the deployment had.
Before(n) ==
  \/ prs[n].state \in {"Pending", "Rejected"}
  \/ (prs[n].state = "Approved" /\ executor[n] \in {"idle", "refuse", "patch"})

Off(n) == prs[n].state = "Failed" \/ (prs[n].state = "Applied" /\ timer[n] = "fail")

Revisions(n) ==
  IF Before(n) THEN <<{}>> ELSE IF Off(n) THEN <<{n}, {}>> ELSE <<{}, {n}>>

RevisionInv ==
  Kubectl /\ faults = 0 /\ restarts = 0 =>
    /\ \A d \in Deployments :
         (\A m \in used : body[m].dep # d) => history[d] = <<{}>>
    /\ \A n \in DOMAIN prs :
         OnlyOneFor(n) /\ body[n].patch \in Actionable => history[body[n].dep] = Revisions(n)

TypeInv == TypeOK /\ \A n \in PRs \ used : Asleep(n)

IInv == TypeInv /\ ControlInv /\ DeployInv /\ MemoryMatchesVerdict /\ RevisionInv
-----------------------------------------------------------------------------
(* Type correctness.  A handler at work holds a PatchRequest that was made, *)
(* which is what makes its copy of the spec one.                            *)

Revision == SUBSET PRs

LEMMA InitType == Init => TypeInv
  BY RemediationAssumption
  DEF Init, TypeInv, TypeOK, StoreInit, StoreTypeOK, Nothing, Asleep, ApprovalStates

LEMMA LiveType ==
  ASSUME TypeOK, NEW d \in Deployments
  PROVE  /\ history[d] \in Seq(Revision) /\ Len(history[d]) \in Nat \ {0}
         /\ Live(d) \in Revision
<1>1. history[d] \in Seq(Revision) /\ history[d] # <<>>
  BY DEF TypeOK, Revision
<1>2. QED
  BY <1>1 DEF Live

LEMMA SetStateType ==
  ASSUME StoreTypeOK, NEW n \in DOMAIN prs, NEW s \in ApprovalStates, SetState(n, s),
         used' = used
  PROVE  StoreTypeOK' /\ DOMAIN prs' = DOMAIN prs
  BY DEF StoreTypeOK, SetState, PatchRequest

LEMMA RolloutType ==
  ASSUME TypeOK, NEW d \in Deployments, NEW h \in Seq(Revision), h # <<>>, Rollout(d, h)
  PROVE  /\ history' \in [Deployments -> Seq(SUBSET PRs) \ {<<>>}]
         /\ crashing' \in [Deployments -> [new : BOOLEAN, replaced : BOOLEAN]]
  BY DEF TypeOK, Rollout, Revision

LEMMA MergedType ==
  ASSUME TypeOK, NEW n \in used
  PROVE  /\ body[n].dep \in Deployments
         /\ Append(history[body[n].dep], Merged(n)) \in Seq(Revision)
         /\ Append(history[body[n].dep], Merged(n)) # <<>>
<1>1. body[n].dep \in Deployments /\ n \in PRs
  BY DEF TypeOK, StoreTypeOK
<1>2. Merged(n) \in Revision
  BY <1>1, LiveType DEF Merged, Revision
<1>3. QED
  BY <1>1, <1>2, LiveType

LEMMA UndoneType ==
  ASSUME NEW h \in Seq(Revision), Len(h) > 1
  PROVE  /\ Undone(h) \in Seq(Revision) /\ Len(Undone(h)) = Len(h)
         /\ \A i \in 1 .. Len(h) :
              Undone(h)[i] = IF i = Len(h) THEN h[Len(h) - 1]
                             ELSE IF i = Len(h) - 1 THEN h[Len(h)] ELSE h[i]
<1> DEFINE kept == SubSeq(h, 1, Len(h) - 2)
           top == <<h[Len(h)], h[Len(h) - 1]>>
<1>1. kept \in Seq(Revision) /\ Len(kept) = Len(h) - 2
      /\ \A i \in 1 .. Len(h) - 2 : kept[i] = h[i]
  <2>1. \A i \in 1 .. Len(h) - 2 : h[i] \in Revision
    OBVIOUS
  <2>2. Len(h) - 2 \in Nat
    OBVIOUS
  <2>3. /\ SubSeq(h, 1, Len(h) - 2) \in Seq(Revision)
        /\ Len(SubSeq(h, 1, Len(h) - 2)) = IF 1 <= Len(h) - 2 THEN (Len(h) - 2) - 1 + 1 ELSE 0
        /\ \A i \in 1 .. (Len(h) - 2) - 1 + 1 : SubSeq(h, 1, Len(h) - 2)[i] = h[1 + i - 1]
    BY <2>1, <2>2, SubSeqProperties
  <2>4. Len(h) \in Nat /\ \A i \in 1 .. Len(h) - 2 : 1 + i - 1 = i
    OBVIOUS
  <2>5. (Len(h) - 2) - 1 + 1 = Len(h) - 2
    BY <2>4
  <2>6. (IF 1 <= Len(h) - 2 THEN (Len(h) - 2) - 1 + 1 ELSE 0) = Len(h) - 2
    <3>1. \A x \in Nat : (IF 1 <= x THEN x - 1 + 1 ELSE 0) = x
      OBVIOUS
    <3>2. QED
      BY <2>2, <3>1
  <2>7. \A i \in 1 .. Len(h) - 2 : SubSeq(h, 1, Len(h) - 2)[i] = h[i]
    BY <2>3, <2>4, <2>5
  <2>8. QED
    BY <2>3, <2>6, <2>7
<1>2. top \in Seq(Revision) /\ Len(top) = 2
  OBVIOUS
<1>3. QED
  BY <1>1, <1>2 DEF Undone

-----------------------------------------------------------------------------
(* One lemma per process.  A step leaves most variables alone, so each one *)
(* shows the types of those it writes.                                     *)

LEMMA WriterType ==
  ASSUME TypeInv, NEW n \in PRs, WriteRecord(n) \/ SaveIncident(n)
  PROVE  TypeInv'
<1>1. n \in used
  BY DEF TypeInv, Asleep, WriteRecord, SaveIncident
<1>2. faults' \in Nat /\ restarts' \in Nat
  BY DEF WriteRecord, SaveIncident, Fault, TypeInv, TypeOK
<1>3. \A v : /\ Put(records, n, v) = [m \in DOMAIN records \cup {n} |->
                                        IF m = n THEN v ELSE records[m]]
             /\ Put(rows, n, v) = [m \in DOMAIN rows \cup {n} |->
                                     IF m = n THEN v ELSE rows[m]]
  BY DEF Put
<1>4. CASE WriteRecord(n)
  <2>1. /\ DOMAIN records' \subseteq used
        /\ records' \in [DOMAIN records' -> {"Investigating", "Closed"}]
    BY <1>1, <1>3, <1>4 DEF WriteRecord, TypeInv, TypeOK
  <2>2. /\ writer' \in [PRs -> {"done", "record", "save"}]
        /\ \A m \in PRs \ used : writer'[m] = writer[m]
    BY <1>1, <1>4 DEF WriteRecord, TypeInv, TypeOK
  <2>3. QED
    BY <1>1, <1>2, <1>4, <2>1, <2>2 DEF WriteRecord, TypeInv, TypeOK, StoreTypeOK, Asleep
<1>5. CASE SaveIncident(n)
  <2>1. DOMAIN rows' \subseteq used /\ rows' \in [DOMAIN rows' -> Row]
    <3>1. [state |-> "Investigating", patch |-> NoPatch, worked |-> "null"] \in Row
      BY RemediationAssumption DEF Row
    <3>2. DOMAIN rows \subseteq used /\ rows \in [DOMAIN rows -> Row]
      BY DEF TypeInv, TypeOK
    <3>3. QED
      BY <1>1, <1>3, <1>5, <3>1, <3>2 DEF SaveIncident
  <2>2. QED
    BY <1>1, <1>2, <1>5, <2>1 DEF SaveIncident, TypeInv, TypeOK, StoreTypeOK, Asleep
<1>6. QED
  BY <1>4, <1>5

LEMMA RowUpdates ==
  ASSUME NEW Names, NEW r \in [Names -> Row], NEW n \in Names, NEW p \in Patches
  PROVE  /\ [r EXCEPT ![n].patch = p, ![n].state = "Resolved"] \in [Names -> Row]
         /\ [r EXCEPT ![n].worked = "true", ![n].state = "Closed"] \in [Names -> Row]
         /\ [r EXCEPT ![n].worked = "false"] \in [Names -> Row]
  BY DEF Row

LEMMA ProposeType ==
  ASSUME TypeInv, NEW n \in PRs, NEW d \in Deployments, NEW e \in ErrorStates,
         NEW patch \in Patches, Propose(n, d, e, patch)
  PROVE  TypeInv'
<1>1. NewPatchRequest(d, e, patch) \in PatchRequest
  BY DEF NewPatchRequest, PatchRequest, ApprovalStates
<1>2. StoreTypeOK' /\ used' = used \cup {n}
  BY <1>1 DEF Propose, AddPR, TypeInv, TypeOK, StoreTypeOK
<1>3. body' \in [used' -> [dep : Deployments, patch : Patches]]
  BY <1>2 DEF Propose, Put, TypeInv, TypeOK
<1>4. QED
  BY <1>2, <1>3 DEF Propose, TypeInv, TypeOK, Asleep

LEMMA ExecutorType ==
  ASSUME TypeInv, NEW n \in PRs, Executor(n)
  PROVE  TypeInv'
<1>1. n \in used
  BY DEF Executor, Notice, Refuse, PatchDeployment, SaveAppliedPatch, StampApplied,
         TypeInv, TypeOK, StoreTypeOK, Asleep
<1>2. faults' \in Nat /\ restarts' \in Nat
  BY DEF Executor, Notice, Refuse, PatchDeployment, SaveAppliedPatch, StampApplied, Fault,
         TypeInv, TypeOK
<1>3. CASE Notice(n)
  <2>1. prs[n].state \in ApprovalStates
    BY <1>3 DEF Notice, TypeInv, TypeOK, StoreTypeOK, PatchRequest
  <2>2. executor' \in [PRs -> {"idle", "refuse", "patch", "store", "stamp"}]
    BY <1>3 DEF Notice, ExecutorAt, TypeInv, TypeOK
  <2>3. handled' \in [PRs -> ApprovalStates]
    BY <1>3, <2>1 DEF Notice, ExecutorAt, TypeInv, TypeOK
  <2>4. \A m \in PRs \ used : Asleep(m)'
    BY <1>1, <1>3 DEF Notice, ExecutorAt, TypeInv, TypeOK, Asleep
  <2>5. QED
    BY <1>3, <2>2, <2>3, <2>4 DEF Notice, TypeInv, TypeOK, StoreTypeOK
<1>4. CASE Refuse(n)
  <2>1. StoreTypeOK' /\ used' = used
    BY <1>4, SetStateType DEF Refuse, ApprovalStates, TypeInv, TypeOK, StoreTypeOK
  <2>2. QED
    BY <1>1, <1>2, <1>4, <2>1 DEF Refuse, Return, ApprovalStates, TypeInv, TypeOK, Asleep
<1>5. CASE PatchDeployment(n)
  <2>1. /\ history' \in [Deployments -> Seq(SUBSET PRs) \ {<<>>}]
        /\ crashing' \in [Deployments -> [new : BOOLEAN, replaced : BOOLEAN]]
    BY <1>1, <1>5, MergedType, RolloutType DEF PatchDeployment, TypeInv, TypeOK
  <2>2. QED
    BY <1>1, <1>2, <1>5, <2>1
    DEF PatchDeployment, Return, ExecutorAt, ApprovalStates, TypeInv, TypeOK, StoreTypeOK,
        Asleep
<1>6. CASE SaveAppliedPatch(n)
  <2>1. body[n].patch \in Patches
    BY <1>1 DEF TypeInv, TypeOK
  <2>2. DOMAIN rows' \subseteq used /\ rows' \in [DOMAIN rows' -> Row]
    <3>1. DOMAIN rows \subseteq used /\ rows \in [DOMAIN rows -> Row]
      BY DEF TypeInv, TypeOK
    <3>2. n \in DOMAIN rows =>
            [rows EXCEPT ![n].patch = body[n].patch, ![n].state = "Resolved"] \in [DOMAIN rows -> Row]
      <4>1. PICK p \in Patches : p = body[n].patch
        BY <2>1
      <4>2. n \in DOMAIN rows =>
              [rows EXCEPT ![n].patch = p, ![n].state = "Resolved"] \in [DOMAIN rows -> Row]
        BY <3>1, RowUpdates
      <4>3. QED
        BY <4>1, <4>2
    <3>3. CASE rows' = rows
      BY <3>1, <3>3
    <3>4. CASE n \in DOMAIN rows
               /\ rows' = [rows EXCEPT ![n].patch = body[n].patch, ![n].state = "Resolved"]
      BY <3>1, <3>2, <3>4
    <3>5. QED
      BY <1>6, <3>3, <3>4 DEF SaveAppliedPatch
  <2>3. QED
    BY <1>1, <1>2, <1>6, <2>2
    DEF SaveAppliedPatch, ExecutorAt, TypeInv, TypeOK, StoreTypeOK, Asleep
<1>7. CASE StampApplied(n)
  <2>1. StoreTypeOK' /\ used' = used
    BY <1>7, SetStateType DEF StampApplied, ApprovalStates, TypeInv, TypeOK, StoreTypeOK
  <2>2. observed' \in [PRs -> 0 .. Window]
    BY <1>7, RemediationAssumption DEF StampApplied, TypeInv, TypeOK
  <2>3. QED
    BY <1>1, <1>2, <1>7, <2>1, <2>2
    DEF StampApplied, Return, ApprovalStates, TypeInv, TypeOK, Asleep
<1>8. QED
  BY <1>3, <1>4, <1>5, <1>6, <1>7 DEF Executor

LEMMA VerdictType ==
  ASSUME TypeInv, NEW n \in PRs, NEW at, NEW s \in ApprovalStates, NEW next,
         at # "idle", next \in {"forget", "closeRecord"}, Verdict(n, at, s, next)
  PROVE  TypeInv'
<1>1. n \in used
  BY DEF Verdict, TypeInv, Asleep
<1>2. StoreTypeOK' /\ used' = used
  BY SetStateType DEF Verdict, TypeInv, TypeOK, StoreTypeOK
<1>3. QED
  <2>1. timer' \in [PRs -> {"idle", "restamp", "watch", "decide", "undo", "fail",
                            "forget", "close", "closeRecord", "learn"}]
    BY DEF Verdict, TimerAt, TypeInv, TypeOK
  <2>2. faults' \in Nat /\ restarts' \in Nat
    BY DEF Verdict, Fault, TypeInv, TypeOK
  <2>3. \A m \in PRs \ used : Asleep(m)'
    BY <1>1 DEF Verdict, TimerAt, TypeInv, TypeOK, Asleep
  <2>4. QED
    BY <1>2, <2>1, <2>2, <2>3 DEF Verdict, TypeInv, TypeOK

LEMMA CheckerType ==
  ASSUME TypeInv, NEW n \in PRs, OutcomeChecker(n)
  PROVE  TypeInv'
<1>1. n \in used
  BY DEF OutcomeChecker, Poll, Restamp, CheckHealth, RolloutUndo, MarkFailed, CloseIncident,
         Verdict, CloseRecord, MarkOutcome, TypeInv, TypeOK, StoreTypeOK, Asleep
<1>2. faults' \in Nat /\ restarts' \in Nat
  BY DEF OutcomeChecker, Poll, Restamp, CheckHealth, RolloutUndo, MarkFailed, CloseIncident,
         Verdict, CloseRecord, MarkOutcome, Fault, TypeInv, TypeOK
<1>3. CASE Poll(n) \/ Restamp(n)
  BY <1>1, <1>2, <1>3 DEF Poll, Restamp, TimerAt, TypeInv, TypeOK, StoreTypeOK, Asleep
<1>4. CASE CheckHealth(n)
  BY <1>1, <1>2, <1>4 DEF CheckHealth, TimerAt, TypeInv, TypeOK, StoreTypeOK, Asleep
<1>5. CASE RolloutUndo(n)
  <2>1. body[n].dep \in Deployments
    BY <1>1 DEF TypeInv, TypeOK
  <2>2. Len(history[body[n].dep]) > 1 =>
          Undone(history[body[n].dep]) \in Seq(Revision) /\ Undone(history[body[n].dep]) # <<>>
    BY <2>1, LiveType, UndoneType DEF TypeInv
  <2>3. /\ history' \in [Deployments -> Seq(SUBSET PRs) \ {<<>>}]
        /\ crashing' \in [Deployments -> [new : BOOLEAN, replaced : BOOLEAN]]
    BY <1>5, <2>1, <2>2, RolloutType DEF RolloutUndo, TypeInv, TypeOK
  <2>4. QED
    BY <1>1, <1>2, <1>5, <2>3 DEF RolloutUndo, TimerAt, TypeInv, TypeOK, StoreTypeOK, Asleep
<1>6. CASE MarkFailed(n) \/ CloseIncident(n)
  BY <1>6, VerdictType DEF MarkFailed, CloseIncident, ApprovalStates
<1>7. CASE CloseRecord(n)
  BY <1>1, <1>2, <1>7 DEF CloseRecord, TimerAt, TypeInv, TypeOK, StoreTypeOK, Asleep
<1>8. CASE MarkOutcome(n)
  <2>1. DOMAIN rows' \subseteq used /\ rows' \in [DOMAIN rows' -> Row]
    <3>1. DOMAIN rows \subseteq used /\ rows \in [DOMAIN rows -> Row]
      BY DEF TypeInv, TypeOK
    <3>2. n \in DOMAIN rows =>
            /\ [rows EXCEPT ![n].worked = "true", ![n].state = "Closed"] \in [DOMAIN rows -> Row]
            /\ [rows EXCEPT ![n].worked = "false"] \in [DOMAIN rows -> Row]
      BY <3>1, RemediationAssumption, RowUpdates
    <3>3. CASE rows' = rows
      BY <3>1, <3>3
    <3>4. CASE n \in DOMAIN rows
               /\ \/ rows' = [rows EXCEPT ![n].worked = "true", ![n].state = "Closed"]
                  \/ rows' = [rows EXCEPT ![n].worked = "false"]
      BY <3>1, <3>2, <3>4
    <3>5. QED
      BY <1>8, <3>3, <3>4 DEF MarkOutcome
  <2>2. QED
    BY <1>1, <1>2, <1>8, <2>1 DEF MarkOutcome, TimerAt, TypeInv, TypeOK, StoreTypeOK, Asleep
<1>9. QED
  BY <1>3, <1>4, <1>5, <1>6, <1>7, <1>8 DEF OutcomeChecker

LEMMA SurroundingsType ==
  ASSUME TypeInv,
         \/ \E d \in Deployments : PodsChange(d)
         \/ \E n \in PRs : CountRecurrence(n) \/ Reviewer(n)
         \/ Tick
         \/ Restart
  PROVE  TypeInv'
<1>1. ASSUME NEW d \in Deployments, PodsChange(d) PROVE TypeInv'
  <2>1. crashing' \in [Deployments -> [new : BOOLEAN, replaced : BOOLEAN]]
    <3>1. \A c \in [Deployments -> [new : BOOLEAN, replaced : BOOLEAN]], b \in BOOLEAN :
            /\ [c EXCEPT ![d].new = b] \in [Deployments -> [new : BOOLEAN, replaced : BOOLEAN]]
            /\ [c EXCEPT ![d].replaced = b] \in [Deployments -> [new : BOOLEAN, replaced : BOOLEAN]]
      OBVIOUS
    <3>2. (~ crashing[d].new) \in BOOLEAN /\ FALSE \in BOOLEAN
      OBVIOUS
    <3>3. crashing \in [Deployments -> [new : BOOLEAN, replaced : BOOLEAN]]
      BY DEF TypeInv, TypeOK
    <3>4. CASE crashing' = [crashing EXCEPT ![d].new = ~ crashing[d].new]
      BY <3>1, <3>2, <3>3, <3>4
    <3>5. CASE crashing' = [crashing EXCEPT ![d].replaced = FALSE]
      BY <3>1, <3>2, <3>3, <3>5
    <3>6. QED
      BY <1>1, <3>4, <3>5 DEF PodsChange
  <2>2. QED
    BY <1>1, <2>1 DEF PodsChange, TypeInv, TypeOK, StoreTypeOK, Asleep
<1>2. ASSUME NEW n \in PRs, CountRecurrence(n) PROVE TypeInv'
  <2>1. StoreTypeOK'
    <3>1. PICK k \in Nat : SetSeen(n, k)
      BY <1>2, RemediationAssumption DEF CountRecurrence
    <3>2. n \in DOMAIN prs /\ used' = used
      BY <1>2 DEF CountRecurrence
    <3>3. QED
      BY <3>1, <3>2 DEF SetSeen, TypeInv, TypeOK, StoreTypeOK, PatchRequest
  <2>2. QED
    BY <1>2, <2>1 DEF CountRecurrence, TypeInv, TypeOK, Asleep
<1>3. ASSUME NEW n \in PRs, Reviewer(n) PROVE TypeInv'
  <2>1. StoreTypeOK' /\ used' = used
    BY <1>3, SetStateType DEF Reviewer, Review, DeletePR, ApprovalStates, TypeInv, TypeOK, StoreTypeOK
  <2>2. QED
    BY <1>3, <2>1 DEF Reviewer, TypeInv, TypeOK, Asleep
<1>4. CASE Tick
  <2>1. observed' \in [PRs -> 0 .. Window]
    <3>1. \A n \in PRs : observed[n] < Window => observed[n] + 1 \in 0 .. Window
      BY RemediationAssumption DEF TypeInv, TypeOK
    <3>2. QED
      BY <1>4, <3>1 DEF Tick, TypeInv, TypeOK
  <2>2. QED
    BY <1>4, <2>1 DEF Tick, TypeInv, TypeOK, StoreTypeOK, Asleep
<1>5. CASE Restart
  BY <1>5 DEF Restart, TypeInv, TypeOK, StoreTypeOK, Asleep
<1>6. QED
  BY <1>1, <1>2, <1>3, <1>4, <1>5

LEMMA StepType == TypeInv /\ [Next]_vars => TypeInv'
<1>1. CASE TypeInv /\ UNCHANGED vars
  BY <1>1 DEF vars, TypeInv, TypeOK, StoreTypeOK, Asleep
<1>2. CASE TypeInv /\ Next
  BY <1>2, ProposeType, WriterType, ExecutorType, CheckerType, SurroundingsType DEF Next
<1>3. QED
  BY <1>1, <1>2

\* Every variable of executor, checker, cluster and database keeps its type in
\* every reachable state.
THEOREM TypeCorrect == Spec => []TypeOK
<1>1. Spec => []TypeInv
  BY InitType, StepType, PTL DEF Spec
<1>2. TypeInv => TypeOK
  BY DEF TypeInv
<1>3. QED
  BY <1>1, <1>2, PTL

-----------------------------------------------------------------------------
(* What the processes know is preserved.  A step of one PatchRequest's     *)
(* processes touches no other one's, which is said once.                   *)

OnlyAt(n) ==
  /\ DOMAIN prs' \subseteq DOMAIN prs
  /\ \A m \in DOMAIN prs' \ {n} :
       /\ prs'[m].state = prs[m].state
       /\ executor'[m] = executor[m] /\ timer'[m] = timer[m]
       /\ handled'[m] = handled[m] /\ observed'[m] = observed[m]
  /\ faults' >= faults

LEMMA SetStateAt ==
  ASSUME StoreTypeOK, NEW n \in DOMAIN prs, NEW s, SetState(n, s)
  PROVE  /\ DOMAIN prs' = DOMAIN prs
         /\ prs'[n].state = s
         /\ \A m \in DOMAIN prs \ {n} : prs'[m] = prs[m]
         /\ \A m \in DOMAIN prs : prs'[m].dep = prs[m].dep /\ prs'[m].err = prs[m].err
  BY DEF StoreTypeOK, SetState, PatchRequest

LEMMA OthersKnow ==
  ASSUME TypeInv, ControlInv, NEW n, OnlyAt(n), faults' \in Nat,
         n \in DOMAIN prs' => Knows(n)'
  PROVE  ControlInv'
<1>1. SUFFICES ASSUME NEW m \in DOMAIN prs', m # n PROVE Knows(m)'
  BY DEF ControlInv
<1>2. Knows(m) /\ faults \in Nat
  BY <1>1 DEF OnlyAt, ControlInv, TypeInv, TypeOK
<1>3. QED
  BY <1>1, <1>2 DEF OnlyAt, Knows, ExecutorKnows, TimerKnows, Watching, WindowOver, GivenUp

LEMMA ExecutorControl ==
  ASSUME TypeInv, ControlInv, NEW n \in PRs, Executor(n)
  PROVE  ControlInv'
<1> USE DEF Return, ExecutorAt, Knows, ExecutorKnows, TimerKnows, Watching, WindowOver, GivenUp
<1>1. /\ n \in used /\ faults \in Nat /\ faults' \in Nat
      /\ faults' = faults \/ faults' = faults + 1
  BY DEF Executor, Notice, Refuse, PatchDeployment, SaveAppliedPatch, StampApplied, Fault,
         TypeInv, TypeOK, StoreTypeOK, Asleep
<1>2. executor \in [PRs -> {"idle", "refuse", "patch", "store", "stamp"}]
      /\ handled \in [PRs -> ApprovalStates] /\ observed \in [PRs -> 0 .. Window]
      /\ DOMAIN prs \subseteq PRs
  BY DEF TypeInv, TypeOK, StoreTypeOK
<1>3. n \in DOMAIN prs => Knows(n)
  BY DEF ControlInv
<1>4. CASE Notice(n)
  <2>1. OnlyAt(n)
    BY <1>1, <1>2, <1>4 DEF Notice, OnlyAt
  <2>2. Knows(n)'
    BY <1>2, <1>3, <1>4 DEF Notice
  <2>3. QED
    BY <1>1, <2>1, <2>2, OthersKnow
<1>5. CASE Refuse(n)
  <2>1. OnlyAt(n)
    BY <1>1, <1>2, <1>5, SetStateAt DEF Refuse, OnlyAt, TypeInv, TypeOK
  <2>2. n \in DOMAIN prs' => Knows(n)'
    BY <1>1, <1>2, <1>3, <1>5, SetStateAt DEF Refuse, Fault, TypeInv, TypeOK
  <2>3. QED
    BY <1>1, <2>1, <2>2, OthersKnow
<1>6. CASE PatchDeployment(n)
  <2>1. OnlyAt(n)
    BY <1>1, <1>2, <1>6 DEF PatchDeployment, OnlyAt
  <2>2. n \in DOMAIN prs' => Knows(n)'
    BY <1>1, <1>2, <1>3, <1>6 DEF PatchDeployment, Fault
  <2>3. QED
    BY <1>1, <2>1, <2>2, OthersKnow
<1>7. CASE SaveAppliedPatch(n)
  <2>1. OnlyAt(n)
    BY <1>1, <1>2, <1>7 DEF SaveAppliedPatch, OnlyAt
  <2>2. n \in DOMAIN prs' => Knows(n)'
    BY <1>1, <1>2, <1>3, <1>7 DEF SaveAppliedPatch
  <2>3. QED
    BY <1>1, <2>1, <2>2, OthersKnow
<1>8. CASE StampApplied(n)
  <2>1. OnlyAt(n)
    BY <1>1, <1>2, <1>8, SetStateAt DEF StampApplied, OnlyAt, TypeInv, TypeOK
  <2>2. n \in DOMAIN prs' => Knows(n)'
    BY <1>1, <1>2, <1>3, <1>8, SetStateAt DEF StampApplied, Fault, TypeInv, TypeOK
  <2>3. QED
    BY <1>1, <2>1, <2>2, OthersKnow
<1>9. QED
  BY <1>4, <1>5, <1>6, <1>7, <1>8 DEF Executor

LEMMA CheckerControl ==
  ASSUME TypeInv, ControlInv, NEW n \in PRs, OutcomeChecker(n)
  PROVE  ControlInv'
<1> USE DEF TimerAt, Knows, ExecutorKnows, TimerKnows, Watching, WindowOver, GivenUp
<1>1. /\ n \in used /\ faults \in Nat /\ faults' \in Nat
      /\ faults' = faults \/ faults' = faults + 1
  BY DEF OutcomeChecker, Poll, Restamp, CheckHealth, RolloutUndo, MarkFailed, CloseIncident,
         Verdict, CloseRecord, MarkOutcome, Fault, TypeInv, TypeOK, StoreTypeOK, Asleep
<1>2. /\ timer \in [PRs -> {"idle", "restamp", "watch", "decide", "undo", "fail",
                            "forget", "close", "closeRecord", "learn"}]
      /\ observed \in [PRs -> 0 .. Window] /\ DOMAIN prs \subseteq PRs
  BY DEF TypeInv, TypeOK, StoreTypeOK
<1>3. n \in DOMAIN prs => Knows(n)
  BY DEF ControlInv
<1>4. CASE Poll(n) \/ Restamp(n)
  <2>1. OnlyAt(n)
    BY <1>1, <1>2, <1>4 DEF Poll, Restamp, OnlyAt
  <2>2. observed[n] \in Nat /\ observed[n] <= Window
    BY <1>2, RemediationAssumption
  <2>3. n \in DOMAIN prs' => Knows(n)'
    BY <1>1, <1>2, <1>3, <1>4, <2>2, RemediationAssumption DEF Poll, Restamp
  <2>4. QED
    BY <1>1, <2>1, <2>3, OthersKnow
<1>5. CASE CheckHealth(n)
  <2>1. OnlyAt(n)
    BY <1>1, <1>2, <1>5 DEF CheckHealth, OnlyAt
  <2>2. n \in DOMAIN prs' => Knows(n)'
    BY <1>1, <1>2, <1>3, <1>5 DEF CheckHealth
  <2>3. QED
    BY <1>1, <2>1, <2>2, OthersKnow
<1>6. CASE RolloutUndo(n)
  <2>1. OnlyAt(n)
    BY <1>1, <1>2, <1>6 DEF RolloutUndo, OnlyAt
  <2>2. n \in DOMAIN prs' => Knows(n)'
    BY <1>1, <1>2, <1>3, <1>6 DEF RolloutUndo
  <2>3. QED
    BY <1>1, <2>1, <2>2, OthersKnow
<1>7. CASE MarkFailed(n)
  <2>1. OnlyAt(n)
    BY <1>1, <1>2, <1>7, SetStateAt DEF MarkFailed, Verdict, OnlyAt, TypeInv, TypeOK
  <2>2. n \in DOMAIN prs' => Knows(n)'
    BY <1>1, <1>2, <1>3, <1>7, SetStateAt DEF MarkFailed, Verdict, TypeInv, TypeOK
  <2>3. QED
    BY <1>1, <2>1, <2>2, OthersKnow
<1>8. CASE CloseIncident(n)
  <2>1. OnlyAt(n)
    BY <1>1, <1>2, <1>8, SetStateAt DEF CloseIncident, Verdict, OnlyAt, TypeInv, TypeOK
  <2>2. n \in DOMAIN prs' => Knows(n)'
    BY <1>1, <1>2, <1>3, <1>8, SetStateAt DEF CloseIncident, Verdict, TypeInv, TypeOK
  <2>3. QED
    BY <1>1, <2>1, <2>2, OthersKnow
<1>9. CASE CloseRecord(n) \/ MarkOutcome(n)
  <2>1. OnlyAt(n)
    BY <1>1, <1>2, <1>9 DEF CloseRecord, MarkOutcome, OnlyAt
  <2>2. n \in DOMAIN prs' => Knows(n)'
    BY <1>1, <1>2, <1>3, <1>9 DEF CloseRecord, MarkOutcome
  <2>3. QED
    BY <1>1, <2>1, <2>2, OthersKnow
<1>10. QED
  BY <1>4, <1>5, <1>6, <1>7, <1>8, <1>9 DEF OutcomeChecker

LEMMA SurroundingsControl ==
  ASSUME TypeInv, ControlInv,
         \/ \E n \in PRs, d \in Deployments, e \in ErrorStates, patch \in Patches :
              Propose(n, d, e, patch)
         \/ \E n \in PRs : WriteRecord(n) \/ SaveIncident(n) \/ Reviewer(n) \/ CountRecurrence(n)
         \/ \E d \in Deployments : PodsChange(d)
         \/ Tick
         \/ Restart
  PROVE  ControlInv'
<1> USE DEF Knows, ExecutorKnows, TimerKnows, Watching, WindowOver, GivenUp
<1>1. faults \in Nat /\ DOMAIN prs \subseteq used /\ used \subseteq PRs /\ StoreTypeOK
  BY DEF TypeInv, TypeOK, StoreTypeOK
<1>2. ASSUME NEW n \in PRs, NEW d \in Deployments, NEW e \in ErrorStates, NEW patch \in Patches,
             Propose(n, d, e, patch)
      PROVE  ControlInv'
  <2>1. /\ n \notin DOMAIN prs /\ Asleep(n)
        /\ DOMAIN prs' = DOMAIN prs \cup {n} /\ prs'[n].state = "Pending"
        /\ \A m \in DOMAIN prs : prs'[m] = prs[m]
    BY <1>1, <1>2 DEF Propose, AddPR, NewPatchRequest, TypeInv
  <2>2. Knows(n)'
    BY <1>2, <2>1 DEF Propose, Asleep
  <2>3. \A m \in DOMAIN prs : Knows(m)'
    BY <1>1, <1>2, <2>1 DEF Propose, ControlInv
  <2>4. QED
    BY <2>1, <2>2, <2>3 DEF ControlInv
<1>3. ASSUME NEW n \in PRs, WriteRecord(n) \/ SaveIncident(n)
      PROVE  ControlInv'
  BY <1>1, <1>3 DEF WriteRecord, SaveIncident, Fault, ControlInv
<1>4. ASSUME NEW n \in PRs, Reviewer(n) PROVE ControlInv'
  <2>1. CASE DeletePR(n)
    BY <1>1, <1>4, <2>1 DEF Reviewer, DeletePR, ControlInv
  <2>2. CASE Review(n)
    <3>1. OnlyAt(n)
      BY <1>1, <1>4, <2>2, SetStateAt DEF Reviewer, Review, OnlyAt
    <3>2. Knows(n)'
      BY <1>1, <1>4, <2>2, SetStateAt DEF Reviewer, Review, ControlInv
    <3>3. QED
      BY <1>1, <1>4, <3>1, <3>2, OthersKnow DEF Reviewer
  <2>3. QED
    BY <1>4, <2>1, <2>2 DEF Reviewer
<1>5. ASSUME NEW n \in PRs, CountRecurrence(n) PROVE ControlInv'
  <2>1. DOMAIN prs' = DOMAIN prs /\ \A m \in DOMAIN prs : prs'[m].state = prs[m].state
    BY <1>1, <1>5 DEF CountRecurrence, SetSeen, StoreTypeOK, PatchRequest
  <2>2. QED
    BY <1>1, <1>5, <2>1 DEF CountRecurrence, ControlInv
<1>6. ASSUME NEW d \in Deployments, PodsChange(d) PROVE ControlInv'
  BY <1>6 DEF PodsChange, ControlInv
<1>7. CASE Tick
  <2>1. SUFFICES ASSUME NEW m \in DOMAIN prs PROVE Knows(m)'
    BY <1>7 DEF Tick, ControlInv
  <2>2. Knows(m) /\ m \in PRs
    BY <1>1 DEF ControlInv
  <2>3. ~(Window < Window)
    BY RemediationAssumption
  <2>4. observed[m] = Window => observed'[m] = Window
    BY <1>7, <2>2, <2>3 DEF Tick
  <2>5. QED
    BY <1>7, <2>2, <2>4 DEF Tick
<1>8. CASE Restart
  BY <1>1, <1>8 DEF Restart, ControlInv
<1>9. QED
  BY <1>2, <1>3, <1>4, <1>5, <1>6, <1>7, <1>8

LEMMA StepControl == TypeInv /\ ControlInv /\ [Next]_vars => ControlInv'
<1>1. CASE ControlInv /\ UNCHANGED vars
  BY <1>1 DEF vars, ControlInv, Knows, ExecutorKnows, TimerKnows, Watching, WindowOver, GivenUp
<1>2. CASE TypeInv /\ ControlInv /\ Next
  BY <1>2, ExecutorControl, CheckerControl, SurroundingsControl DEF Next
<1>3. QED
  BY <1>1, <1>2

-----------------------------------------------------------------------------
(* Every revision a deployment had stays in its history: what was deployed  *)
(* once was deployed.                                                       *)

EverLive(d, n) == \E i \in DOMAIN history[d] : n \in history[d][i]

LEMMA RolloutKeeps ==
  ASSUME TypeOK, NEW d \in Deployments, NEW h \in Seq(Revision), Rollout(d, h),
         \/ \E r \in Revision : h = Append(history[d], r)
         \/ Len(history[d]) > 1 /\ h = Undone(history[d])
  PROVE  \A c \in Deployments, n \in PRs : EverLive(c, n) => EverLive(c, n)'
<1>1. /\ history[d] \in Seq(Revision)
      /\ \A c \in Deployments : history'[c] = IF c = d THEN h ELSE history[c]
  BY DEF TypeOK, Rollout, Revision
<1>2. SUFFICES ASSUME NEW n \in PRs, NEW i \in DOMAIN history[d], n \in history[d][i]
               PROVE  \E j \in DOMAIN h : n \in h[j]
  BY <1>1 DEF EverLive
<1>3. i \in 1 .. Len(history[d])
  BY <1>1
<1>4. CASE \E r \in Revision : h = Append(history[d], r)
  <2>1. PICK r \in Revision : h = Append(history[d], r)
    BY <1>4
  <2>2. i \in DOMAIN h /\ h[i] = history[d][i]
    BY <1>1, <1>3, <2>1
  <2>3. QED
    BY <1>2, <2>2
<1>5. CASE Len(history[d]) > 1 /\ h = Undone(history[d])
  <2> DEFINE last == Len(history[d])
             j == IF i = last THEN last - 1 ELSE IF i = last - 1 THEN last ELSE i
  <2>1. last \in Nat /\ last > 1 /\ DOMAIN h = 1 .. last
    BY <1>1, <1>5, UndoneType
  <2>2. j \in 1 .. last /\ (j = last <=> i = last - 1) /\ (j = last - 1 <=> i = last)
    BY <1>3, <2>1
  <2>3. h[j] = history[d][i]
    <3>1. \A k \in 1 .. last :
            h[k] = IF k = last THEN history[d][last - 1]
                   ELSE IF k = last - 1 THEN history[d][last] ELSE history[d][k]
      BY <1>1, <1>5, UndoneType
    <3>2. h[j] = IF j = last THEN history[d][last - 1]
                 ELSE IF j = last - 1 THEN history[d][last] ELSE history[d][j]
      BY <2>2, <3>1
    <3>3. i = last \/ i = last - 1 \/ (i # last /\ i # last - 1 /\ j = i)
      OBVIOUS
    <3>4. QED
      BY <2>1, <2>2, <3>2, <3>3
  <2>4. QED
    BY <1>2, <2>1, <2>2, <2>3
<1>6. QED
  BY <1>4, <1>5

LEMMA DeployedStays ==
  ASSUME TypeInv, [Next]_vars
  PROVE  \A n \in used : n \in used' /\ body'[n] = body[n] /\ (EverDeployed(n) => EverDeployed(n)')
<1>1. /\ body \in [used -> [dep : Deployments, patch : Patches]]
      /\ used \subseteq PRs
  BY DEF TypeInv, TypeOK, StoreTypeOK
<1>2. \A n \in used : n \in used' /\ body'[n] = body[n]
  <2>1. ASSUME NEW n \in PRs, NEW d \in Deployments, NEW e \in ErrorStates, NEW patch \in Patches,
               Propose(n, d, e, patch)
        PROVE  \A m \in used : m \in used' /\ body'[m] = body[m]
    BY <1>1, <2>1 DEF Propose, AddPR, Put
  <2>2. CASE UNCHANGED vars
    BY <2>2 DEF vars
  <2>3. ASSUME NEW n \in PRs,
               WriteRecord(n) \/ SaveIncident(n) \/ Reviewer(n) \/ CountRecurrence(n)
        PROVE  UNCHANGED diagnosed
    BY <2>3 DEF WriteRecord, SaveIncident, Reviewer, Review, DeletePR, CountRecurrence
  <2>4. ASSUME NEW n \in PRs, Executor(n)
        PROVE  UNCHANGED diagnosed
    BY <2>4 DEF Executor, Notice, Refuse, PatchDeployment, SaveAppliedPatch, StampApplied
  <2>5. ASSUME NEW n \in PRs, OutcomeChecker(n)
        PROVE  UNCHANGED diagnosed
    BY <2>5 DEF OutcomeChecker, Poll, Restamp, CheckHealth, RolloutUndo, MarkFailed, CloseIncident,
                Verdict, CloseRecord, MarkOutcome
  <2>6. CASE Tick \/ Restart \/ \E d \in Deployments : PodsChange(d)
    BY <2>6 DEF Tick, Restart, PodsChange
  <2>7. QED
    BY <2>1, <2>2, <2>3, <2>4, <2>5, <2>6 DEF Next
<1>3. \A c \in Deployments, n \in PRs : EverLive(c, n) => EverLive(c, n)'
  <2>1. ASSUME NEW n \in PRs, PatchDeployment(n)
        PROVE  \A c \in Deployments, m \in PRs : EverLive(c, m) => EverLive(c, m)'
    <3>1. n \in used
      BY <2>1 DEF PatchDeployment, TypeInv, Asleep
    <3>2. CASE UNCHANGED history
      BY <3>2 DEF EverLive
    <3>3. CASE Rollout(body[n].dep, Append(history[body[n].dep], Merged(n)))
      <4>1. Merged(n) \in Revision /\ body[n].dep \in Deployments
        BY <3>1, <1>1, LiveType DEF TypeInv, Merged, Revision
      <4>2. QED
        BY <3>1, <3>3, <4>1, MergedType, RolloutKeeps DEF TypeInv
    <3>4. QED
      BY <2>1, <3>2, <3>3 DEF PatchDeployment
  <2>2. ASSUME NEW n \in PRs, RolloutUndo(n)
        PROVE  \A c \in Deployments, m \in PRs : EverLive(c, m) => EverLive(c, m)'
    <3>1. body[n].dep \in Deployments
      BY <1>1, <2>2 DEF RolloutUndo, TypeInv, Asleep
    <3>2. CASE UNCHANGED history
      BY <3>2 DEF EverLive
    <3>3. CASE Len(history[body[n].dep]) > 1
               /\ Rollout(body[n].dep, Undone(history[body[n].dep]))
      <4>1. Undone(history[body[n].dep]) \in Seq(Revision)
        BY <3>1, <3>3, LiveType, UndoneType DEF TypeInv
      <4>2. QED
        BY <3>1, <3>3, <4>1, RolloutKeeps DEF TypeInv
    <3>4. QED
      BY <2>2, <3>2, <3>3 DEF RolloutUndo
  <2>3. ASSUME NEW n \in PRs,
               \/ WriteRecord(n) \/ SaveIncident(n) \/ Reviewer(n) \/ CountRecurrence(n)
               \/ Notice(n) \/ Refuse(n) \/ SaveAppliedPatch(n) \/ StampApplied(n)
               \/ Poll(n) \/ Restamp(n) \/ CheckHealth(n) \/ MarkFailed(n) \/ CloseIncident(n)
               \/ CloseRecord(n) \/ MarkOutcome(n)
        PROVE  UNCHANGED history
    BY <2>3 DEF WriteRecord, SaveIncident, Reviewer, CountRecurrence, Notice, Refuse,
                SaveAppliedPatch, StampApplied, Poll, Restamp, CheckHealth, MarkFailed,
                CloseIncident, Verdict, CloseRecord, MarkOutcome
  <2>4. CASE \/ \E n \in PRs, d \in Deployments, e \in ErrorStates, patch \in Patches :
                  Propose(n, d, e, patch)
             \/ Tick \/ Restart \/ UNCHANGED vars
             \/ \E d \in Deployments : PodsChange(d)
    BY <2>4 DEF Propose, Tick, Restart, PodsChange, vars, EverLive
  <2>5. UNCHANGED history =>
          \A c \in Deployments, m \in PRs : EverLive(c, m) => EverLive(c, m)'
    BY DEF EverLive
  <2>6. QED
    BY <2>1, <2>2, <2>3, <2>4, <2>5 DEF Next, Executor, OutcomeChecker
<1>4. QED
  BY <1>1, <1>2, <1>3 DEF EverDeployed, EverLive

LEMMA StepDeploy == TypeInv /\ ControlInv /\ DeployInv /\ [Next]_vars => DeployInv'
<1> SUFFICES ASSUME TypeInv, ControlInv, DeployInv, [Next]_vars PROVE DeployInv'
  OBVIOUS
<1>1. /\ StoreTypeOK /\ DOMAIN prs \subseteq used /\ used \subseteq PRs
      /\ executor \in [PRs -> {"idle", "refuse", "patch", "store", "stamp"}]
      /\ body \in [used -> [dep : Deployments, patch : Patches]]
  BY DEF TypeInv, TypeOK, StoreTypeOK
<1>2. SUFFICES ASSUME NEW n \in used', Deployed(n)'
               PROVE  EverDeployed(n)' \/ (n \in used /\ Deployed(n))
  BY DeployedStays DEF DeployInv
<1>3. ASSUME NEW m \in PRs, NEW d \in Deployments, NEW e \in ErrorStates, NEW patch \in Patches,
             Propose(m, d, e, patch)
      PROVE  n \in used /\ Deployed(n)
  BY <1>1, <1>2, <1>3 DEF Propose, AddPR, NewPatchRequest, Deployed, TypeInv, Asleep
<1>4. ASSUME NEW m \in PRs, PatchDeployment(m)
      PROVE  EverDeployed(n)' \/ (n \in used /\ Deployed(n))
  <2>1. m \in used
    BY <1>4 DEF PatchDeployment, TypeInv, Asleep
  <2>2. CASE n # m
    BY <1>1, <1>2, <1>4, <2>2 DEF PatchDeployment, ExecutorAt, Return, Deployed
  <2>3. CASE n = m /\ executor'[n] = "idle"
    BY <1>1, <1>2, <1>4, <2>3 DEF PatchDeployment, ExecutorAt, Return, Deployed
  <2>4. CASE n = m /\ executor'[n] # "idle"
    <3>1. Rollout(body[n].dep, Append(history[body[n].dep], Merged(n))) /\ body' = body
      BY <1>1, <1>4, <2>4 DEF PatchDeployment, Return
    <3>2. /\ body[n].dep \in Deployments /\ Merged(n) \in Revision
          /\ history[body[n].dep] \in Seq(Revision)
      BY <1>1, <2>1, <2>4, LiveType DEF TypeInv, Merged, Revision
    <3>3. history'[body[n].dep] = Append(history[body[n].dep], Merged(n))
      BY <3>1, <3>2 DEF Rollout, TypeInv, TypeOK
    <3>4. body[n].patch \in Actionable => n \in Merged(n)
      BY DEF Merged
    <3>5. body[n].patch \in Actionable =>
            \E i \in DOMAIN history'[body[n].dep] : n \in history'[body[n].dep][i]
      BY <3>2, <3>3, <3>4
    <3>6. QED
      BY <3>1, <3>5 DEF EverDeployed
  <2>5. QED
    BY <2>2, <2>3, <2>4
<1>5. ASSUME NEW m \in PRs, Notice(m) \/ SaveAppliedPatch(m)
      PROVE  n \in used /\ Deployed(n)
  BY <1>1, <1>2, <1>5 DEF Notice, SaveAppliedPatch, ExecutorAt, Deployed
<1>6. ASSUME NEW m \in PRs, Refuse(m) \/ StampApplied(m)
      PROVE  n \in used /\ Deployed(n)
  BY <1>1, <1>2, <1>6, SetStateAt DEF Refuse, StampApplied, Return, Deployed
<1>7. ASSUME NEW m \in PRs, MarkFailed(m) \/ CloseIncident(m)
      PROVE  n \in used /\ Deployed(n)
  BY <1>1, <1>2, <1>7, SetStateAt
  DEF MarkFailed, CloseIncident, Verdict, Deployed, ControlInv, Knows, TimerKnows, Watching
<1>8. ASSUME NEW m \in PRs,
             \/ Poll(m) \/ Restamp(m) \/ CheckHealth(m) \/ RolloutUndo(m) \/ CloseRecord(m)
             \/ MarkOutcome(m) \/ WriteRecord(m) \/ SaveIncident(m)
      PROVE  n \in used /\ Deployed(n)
  BY <1>1, <1>2, <1>8 DEF Poll, Restamp, CheckHealth, RolloutUndo, CloseRecord, MarkOutcome,
                          WriteRecord, SaveIncident, Deployed
<1>9. ASSUME NEW m \in PRs, Reviewer(m)
      PROVE  n \in used /\ Deployed(n)
  BY <1>1, <1>2, <1>9, SetStateAt DEF Reviewer, Review, DeletePR, Deployed
<1>10. ASSUME NEW m \in PRs, CountRecurrence(m)
       PROVE  n \in used /\ Deployed(n)
  BY <1>1, <1>2, <1>10 DEF CountRecurrence, SetSeen, StoreTypeOK, PatchRequest, Deployed
<1>11. CASE Tick \/ Restart \/ UNCHANGED vars \/ \E d \in Deployments : PodsChange(d)
  BY <1>1, <1>2, <1>11 DEF Tick, Restart, PodsChange, vars, Deployed
<1>12. QED
  BY <1>3, <1>4, <1>5, <1>6, <1>7, <1>8, <1>9, <1>10, <1>11 DEF Next, Executor, OutcomeChecker

-----------------------------------------------------------------------------
(* What is written to a PatchRequest.  The guards are in what the processes *)
(* know: a status is only written to the state it was meant for.            *)

StoreStep == StoreNext \/ \E n \in PRs : CountRecurrence(n)

LEMMA RemedyWrites ==
  ASSUME ControlInv, NEW n \in PRs, Executor(n) \/ OutcomeChecker(n)
  PROVE  UNCHANGED storeVars \/ Remediate(n)
<1>1. ASSUME Refuse(n) \/ StampApplied(n), ~ UNCHANGED storeVars PROVE Remediate(n)
  BY <1>1 DEF Refuse, StampApplied, Remediate, Remediates, ApprovalStates, ControlInv, Knows,
              ExecutorKnows
<1>2. ASSUME MarkFailed(n) \/ CloseIncident(n), ~ UNCHANGED storeVars PROVE Remediate(n)
  BY <1>2 DEF MarkFailed, CloseIncident, Verdict, Remediate, Remediates, ApprovalStates,
              ControlInv, Knows, TimerKnows, Watching
<1>3. ASSUME \/ Notice(n) \/ PatchDeployment(n) \/ SaveAppliedPatch(n) \/ Poll(n)
             \/ Restamp(n) \/ CheckHealth(n) \/ RolloutUndo(n) \/ CloseRecord(n) \/ MarkOutcome(n)
      PROVE  UNCHANGED storeVars
  BY <1>3 DEF Notice, PatchDeployment, SaveAppliedPatch, Poll, Restamp, CheckHealth,
              RolloutUndo, CloseRecord, MarkOutcome
<1>4. QED
  BY <1>1, <1>2, <1>3 DEF Executor, OutcomeChecker

LEMMA StepWrites == TypeInv /\ ControlInv /\ [Next]_vars => [StoreStep]_storeVars
<1> SUFFICES ASSUME TypeInv, ControlInv, [Next]_vars, ~ UNCHANGED storeVars PROVE StoreStep
  OBVIOUS
<1>1. ASSUME NEW n \in PRs, NEW d \in Deployments, NEW e \in ErrorStates, NEW patch \in Patches,
             Propose(n, d, e, patch)
      PROVE  StoreNext
  BY <1>1 DEF Propose, StoreNext
<1>2. ASSUME NEW n \in PRs, Reviewer(n) PROVE StoreNext
  BY <1>2 DEF Reviewer, StoreNext, LifecycleNext
<1>3. ASSUME NEW n \in PRs, Executor(n) \/ OutcomeChecker(n) PROVE StoreNext
  BY <1>3, RemedyWrites DEF StoreNext, LifecycleNext
<1>4. ASSUME NEW n \in PRs, WriteRecord(n) \/ SaveIncident(n) PROVE UNCHANGED storeVars
  BY <1>4 DEF WriteRecord, SaveIncident
<1>5. CASE Tick \/ Restart \/ UNCHANGED vars \/ \E d \in Deployments : PodsChange(d)
  BY <1>5 DEF Tick, Restart, PodsChange, vars
<1>6. QED
  BY <1>1, <1>2, <1>3, <1>4, <1>5 DEF Next, StoreStep

Stages == [n \in PRs |-> Stage(n)]

LEMMA OneMoves ==
  ASSUME NEW n \in PRs, NEW t \in Promise!Verdicts \cup {"Pending", "Approved", "Applied", "deleted"},
         Promise!Moves(Stage(n), t), Stage(n)' = t,
         \A m \in PRs \ {n} : Stage(m)' = Stage(m)
  PROVE  Promise!Next
<1>1. Stages[n] = Stage(n)
  BY DEF Stages
<1>2. Stages' = [Stages EXCEPT ![n] = t]
  BY DEF Stages
<1>3. Promise!Moves(Stages[n], t) /\ Stages' = [Stages EXCEPT ![n] = t]
  BY <1>1, <1>2
<1>4. QED
  BY <1>3 DEF Promise!Next, Stages

LEMMA StoreStepMoves ==
  ASSUME StoreTypeOK, StoreStep
  PROVE  [Promise!Next]_([n \in PRs |-> Stage(n)])
<1>1. DOMAIN prs \subseteq used /\ used \subseteq PRs
  BY DEF StoreTypeOK
<1>2. ASSUME NEW n \in PRs, NEW d \in Deployments, NEW e \in ErrorStates, NEW patch \in Patches,
             AddPR(n, NewPatchRequest(d, e, patch))
      PROVE  Promise!Next
  <2>1. /\ n \notin used /\ n \notin DOMAIN prs /\ used' = used \cup {n}
        /\ DOMAIN prs' = DOMAIN prs \cup {n} /\ prs'[n].state = "Pending"
        /\ \A m \in DOMAIN prs : prs'[m] = prs[m]
    BY <1>1, <1>2 DEF AddPR, NewPatchRequest
  <2>2. Stage(n) = "unborn" /\ Stage(n)' = "Pending"
    BY <2>1 DEF Stage
  <2>3. \A m \in PRs \ {n} : Stage(m)' = Stage(m)
    BY <2>1 DEF Stage
  <2>4. QED
    BY <2>2, <2>3, OneMoves DEF Promise!Moves
<1>3. ASSUME NEW n \in PRs, Review(n) \/ Remediate(n)
      PROVE  [Promise!Next]_([m \in PRs |-> Stage(m)])
  <2>1. PICK t \in {"Approved", "Rejected", "Applied", "Closed", "Failed"} :
           SetState(n, t) /\ Promise!Moves(prs[n].state, t)
    BY <1>3 DEF Review, Remediate, Remediates, Promise!Moves
  <2>2. n \in DOMAIN prs /\ used' = used
    BY <1>3 DEF Review, Remediate
  <2>3. Stage(n) = prs[n].state /\ Stage(n)' = t
    BY <2>1, <2>2, SetStateAt DEF Stage
  <2>4. \A m \in PRs \ {n} : Stage(m)' = Stage(m)
    BY <2>1, <2>2, SetStateAt DEF Stage
  <2>5. QED
    BY <2>1, <2>3, <2>4, OneMoves DEF Promise!Verdicts
<1>4. ASSUME NEW n \in PRs, DeletePR(n)
      PROVE  Promise!Next
  <2>1. /\ n \in DOMAIN prs /\ n \in used /\ used' = used
        /\ DOMAIN prs' = DOMAIN prs \ {n}
        /\ \A m \in DOMAIN prs \ {n} : prs'[m] = prs[m]
    BY <1>1, <1>4 DEF DeletePR
  <2>2. prs[n].state # "unborn"
    BY <2>1 DEF StoreTypeOK, PatchRequest, ApprovalStates
  <2>3. Stage(n) # "unborn" /\ Stage(n)' = "deleted"
    BY <2>1, <2>2 DEF Stage
  <2>4. \A m \in PRs \ {n} : Stage(m)' = Stage(m)
    BY <2>1 DEF Stage
  <2>5. QED
    BY <2>3, <2>4, OneMoves DEF Promise!Moves
<1>5. ASSUME NEW n \in PRs, CountRecurrence(n)
      PROVE  UNCHANGED [m \in PRs |-> Stage(m)]
  <2>1. /\ DOMAIN prs' = DOMAIN prs /\ used' = used
        /\ \A m \in DOMAIN prs : prs'[m].state = prs[m].state
    BY <1>5 DEF CountRecurrence, SetSeen, StoreTypeOK, PatchRequest
  <2>2. QED
    BY <2>1 DEF Stage
<1>6. QED
  BY <1>2, <1>3, <1>4, <1>5 DEF StoreStep, StoreNext, LifecycleNext

\* A verdict stands as long as its object does.
LEMMA VerdictStands ==
  ASSUME TypeInv, ControlInv, [Next]_vars
  PROVE  \A n \in used : n \in DOMAIN prs' =>
           /\ n \in DOMAIN prs
           /\ prs[n].state \in {"Closed", "Failed"} => prs'[n].state = prs[n].state
<1>1. [StoreStep]_storeVars /\ StoreTypeOK /\ DOMAIN prs \subseteq used
  BY StepWrites DEF TypeInv, TypeOK, StoreTypeOK
<1>2. CASE UNCHANGED storeVars
  BY <1>2
<1>3. ASSUME NEW n \in PRs, NEW d \in Deployments, NEW e \in ErrorStates, NEW patch \in Patches,
             AddPR(n, NewPatchRequest(d, e, patch))
      PROVE  \A m \in used : m \in DOMAIN prs' => m \in DOMAIN prs /\ prs'[m] = prs[m]
  BY <1>1, <1>3 DEF AddPR
<1>4. ASSUME NEW n \in PRs, Review(n) \/ Remediate(n)
      PROVE  \A m \in used : m \in DOMAIN prs' =>
               /\ m \in DOMAIN prs
               /\ prs[m].state \in {"Closed", "Failed"} => prs'[m].state = prs[m].state
  BY <1>1, <1>4, SetStateAt DEF Review, Remediate, Remediates
<1>5. ASSUME NEW n \in PRs, DeletePR(n)
      PROVE  \A m \in used : m \in DOMAIN prs' => m \in DOMAIN prs /\ prs'[m] = prs[m]
  BY <1>1, <1>5 DEF DeletePR
<1>6. ASSUME NEW n \in PRs, CountRecurrence(n)
      PROVE  \A m \in used : m \in DOMAIN prs' => m \in DOMAIN prs /\ prs'[m].state = prs[m].state
  BY <1>1, <1>6 DEF CountRecurrence, SetSeen, StoreTypeOK, PatchRequest
<1>7. QED
  BY <1>1, <1>2, <1>3, <1>4, <1>5, <1>6 DEF StoreStep, StoreNext, LifecycleNext
-----------------------------------------------------------------------------
(* The database is behind the verdict, never ahead of it.                   *)

RowTrue(n) ==
  /\ n \in DOMAIN prs =>
       /\ rows[n].worked = "true"  => prs[n].state = "Closed"
       /\ rows[n].worked = "false" => prs[n].state = "Failed"
  /\ rows[n].patch # NoPatch => rows[n].patch = body[n].patch /\ EverDeployed(n)

LEMMA RowStaysTrue ==
  ASSUME TypeInv, ControlInv, [Next]_vars, NEW n \in DOMAIN rows, RowTrue(n),
         rows'[n] = rows[n]
  PROVE  RowTrue(n)'
<1>1. n \in used
  BY DEF TypeInv, TypeOK
<1>2. n \in used' /\ body'[n] = body[n] /\ (EverDeployed(n) => EverDeployed(n)')
  BY <1>1, DeployedStays
<1>3. n \in DOMAIN prs' =>
        /\ n \in DOMAIN prs
        /\ prs[n].state \in {"Closed", "Failed"} => prs'[n].state = prs[n].state
  BY <1>1, VerdictStands
<1>4. QED
  BY <1>2, <1>3 DEF RowTrue

LEMMA StepMemory ==
  TypeInv /\ ControlInv /\ DeployInv /\ MemoryMatchesVerdict /\ [Next]_vars => MemoryMatchesVerdict'
<1> SUFFICES ASSUME TypeInv, ControlInv, DeployInv, MemoryMatchesVerdict, [Next]_vars
             PROVE  \A n \in DOMAIN rows' : RowTrue(n)'
  BY DEF MemoryMatchesVerdict, RowTrue
<1>1. /\ \A n \in DOMAIN rows : RowTrue(n)
      /\ DOMAIN rows \subseteq used /\ rows \in [DOMAIN rows -> Row]
      /\ body \in [used -> [dep : Deployments, patch : Patches]]
  BY DEF MemoryMatchesVerdict, RowTrue, TypeInv, TypeOK
<1>2. ASSUME rows' = rows PROVE \A n \in DOMAIN rows' : RowTrue(n)'
  BY <1>1, <1>2, RowStaysTrue
<1>3. ASSUME NEW n \in PRs, SaveIncident(n), rows' # rows
      PROVE  \A m \in DOMAIN rows' : RowTrue(m)'
  <2>1. /\ DOMAIN rows' = DOMAIN rows \cup {n}
        /\ rows'[n] = [state |-> "Investigating", patch |-> NoPatch, worked |-> "null"]
        /\ \A m \in DOMAIN rows \ {n} : rows'[m] = rows[m]
    BY <1>3 DEF SaveIncident, Put
  <2>2. RowTrue(n)'
    BY <2>1 DEF RowTrue
  <2>3. QED
    BY <1>1, <2>1, <2>2, RowStaysTrue
<1>4. ASSUME NEW n \in PRs, SaveAppliedPatch(n), rows' # rows
      PROVE  \A m \in DOMAIN rows' : RowTrue(m)'
  <2>1. /\ n \in DOMAIN rows /\ executor[n] = "store" /\ prs' = prs /\ body' = body
        /\ rows' = [rows EXCEPT ![n].patch = body[n].patch, ![n].state = "Resolved"]
    BY <1>4 DEF SaveAppliedPatch
  <2>2. body[n].patch \in Patches /\ n \in used
    BY <1>1, <2>1
  <2>3. /\ DOMAIN rows' = DOMAIN rows
        /\ rows'[n].patch = body[n].patch /\ rows'[n].worked = rows[n].worked
        /\ \A m \in DOMAIN rows \ {n} : rows'[m] = rows[m]
    <3>1. PICK p \in Patches : p = body[n].patch
      BY <2>2
    <3>2. rows' = [rows EXCEPT ![n].patch = p, ![n].state = "Resolved"]
      BY <2>1, <3>1
    <3>3. rows \in [DOMAIN rows -> Row] /\ n \in DOMAIN rows
      BY <1>1, <2>1
    <3>4. /\ DOMAIN rows' = DOMAIN rows
          /\ rows'[n].patch = p /\ rows'[n].worked = rows[n].worked
          /\ \A m \in DOMAIN rows \ {n} : rows'[m] = rows[m]
      BY <3>2, <3>3 DEF Row
    <3>5. QED
      BY <3>1, <3>4
  <2>4. EverDeployed(n)'
    BY <2>1, <2>2, DeployedStays DEF DeployInv, Deployed
  <2>5. RowTrue(n)'
    BY <1>1, <2>1, <2>3, <2>4 DEF RowTrue
  <2>6. QED
    BY <1>1, <2>3, <2>5, RowStaysTrue
<1>5. ASSUME NEW n \in PRs, MarkOutcome(n), rows' # rows
      PROVE  \A m \in DOMAIN rows' : RowTrue(m)'
  <2>1. /\ n \in DOMAIN rows /\ prs' = prs /\ body' = body
        /\ \/ timer[n] = "learn"
              /\ rows' = [rows EXCEPT ![n].worked = "true", ![n].state = "Closed"]
           \/ timer[n] = "forget" /\ rows' = [rows EXCEPT ![n].worked = "false"]
    BY <1>5 DEF MarkOutcome
  <2>2. n \in used
    BY <1>1, <2>1
  <2>3. /\ DOMAIN rows' = DOMAIN rows /\ rows'[n].patch = rows[n].patch
        /\ rows'[n].worked = IF timer[n] = "learn" THEN "true" ELSE "false"
        /\ \A m \in DOMAIN rows \ {n} : rows'[m] = rows[m]
    <3>1. PICK w \in {"true", "false"} : w = IF timer[n] = "learn" THEN "true" ELSE "false"
      OBVIOUS
    <3>2. IF w = "true" THEN rows' = [rows EXCEPT ![n].worked = "true", ![n].state = "Closed"]
                        ELSE rows' = [rows EXCEPT ![n].worked = "false"]
      BY <2>1, <3>1
    <3>3. rows \in [DOMAIN rows -> Row] /\ n \in DOMAIN rows
      BY <1>1, <2>1
    <3>4. /\ DOMAIN rows' = DOMAIN rows
          /\ rows'[n].patch = rows[n].patch /\ rows'[n].worked = w
          /\ \A m \in DOMAIN rows \ {n} : rows'[m] = rows[m]
      BY <3>2, <3>3 DEF Row
    <3>5. QED
      BY <3>1, <3>4
  <2>4. n \in DOMAIN prs => /\ timer[n] = "learn" => prs[n].state = "Closed"
                            /\ timer[n] = "forget" => prs[n].state = "Failed"
    BY DEF ControlInv, Knows, TimerKnows
  <2>5. rows[n].patch # NoPatch => rows[n].patch = body[n].patch /\ EverDeployed(n)'
    BY <1>1, <2>1, <2>2, DeployedStays DEF RowTrue
  <2>6. RowTrue(n)'
    BY <2>1, <2>3, <2>4, <2>5 DEF RowTrue
  <2>7. QED
    BY <1>1, <2>3, <2>6, RowStaysTrue
<1>6. ASSUME NEW n \in PRs,
             \/ WriteRecord(n) \/ Reviewer(n) \/ CountRecurrence(n) \/ Notice(n) \/ Refuse(n)
             \/ PatchDeployment(n) \/ StampApplied(n) \/ Poll(n) \/ Restamp(n) \/ CheckHealth(n)
             \/ RolloutUndo(n) \/ MarkFailed(n) \/ CloseIncident(n) \/ CloseRecord(n)
      PROVE  rows' = rows
  BY <1>6 DEF WriteRecord, Reviewer, CountRecurrence, Notice, Refuse, PatchDeployment,
              StampApplied, Poll, Restamp, CheckHealth, RolloutUndo, MarkFailed, CloseIncident,
              Verdict, CloseRecord
<1>7. CASE \/ \E n \in PRs, d \in Deployments, e \in ErrorStates, patch \in Patches :
                Propose(n, d, e, patch)
           \/ Tick \/ Restart \/ UNCHANGED vars
           \/ \E d \in Deployments : PodsChange(d)
  <2>1. rows' = rows
    BY <1>7 DEF Propose, Tick, Restart, PodsChange, vars
  <2>2. QED
    BY <1>2, <2>1
<1>8. QED
  BY <1>2, <1>3, <1>4, <1>5, <1>6, <1>7 DEF Next, Executor, OutcomeChecker
-----------------------------------------------------------------------------
(* What the deployment of one PatchRequest runs while nothing goes wrong.   *)
(* Its history is empty, then {} and {n}, then swapped by the undo.         *)

Unharmed == Kubectl /\ faults = 0 /\ restarts = 0

LEMMA StaysUnharmed ==
  ASSUME TypeInv, [Next]_vars
  PROVE  /\ Unharmed' => Unharmed
         /\ Fault \/ Restart => ~Unharmed'
<1>1. faults \in Nat /\ restarts \in Nat
  BY DEF TypeInv, TypeOK
<1>2. Fault \/ Restart => ~Unharmed'
  BY <1>1 DEF Fault, Restart, Unharmed
<1>3. CASE UNCHANGED vars
  BY <1>2, <1>3 DEF vars, Unharmed
<1>4. CASE Next /\ ~Fault /\ ~Restart
  <2>1. ASSUME NEW n \in PRs, NEW d \in Deployments, NEW e \in ErrorStates, NEW patch \in Patches,
               Propose(n, d, e, patch)
        PROVE  UNCHANGED budget
    BY <2>1 DEF Propose
  <2>2. ASSUME NEW n \in PRs,
               WriteRecord(n) \/ SaveIncident(n) \/ Reviewer(n) \/ CountRecurrence(n)
        PROVE  UNCHANGED budget
    BY <1>4, <2>2 DEF WriteRecord, SaveIncident, Reviewer, CountRecurrence
  <2>3. ASSUME NEW n \in PRs, Executor(n) PROVE UNCHANGED budget
    BY <1>4, <2>3
    DEF Executor, Notice, Refuse, PatchDeployment, SaveAppliedPatch, StampApplied
  <2>4. ASSUME NEW n \in PRs, OutcomeChecker(n) PROVE UNCHANGED budget
    BY <1>4, <2>4 DEF OutcomeChecker, Poll, Restamp, CheckHealth, RolloutUndo, MarkFailed,
                      CloseIncident, Verdict, CloseRecord, MarkOutcome
  <2>5. CASE Tick \/ \E d \in Deployments : PodsChange(d)
    BY <1>2, <2>5 DEF Tick, PodsChange, Unharmed
  <2>6. QED
    BY <1>2, <1>4, <2>1, <2>2, <2>3, <2>4, <2>5 DEF Next, Unharmed
<1>5. QED
  BY <1>2, <1>3, <1>4

Matches(n) ==
  OnlyOneFor(n) /\ body[n].patch \in Actionable => history[body[n].dep] = Revisions(n)

LEMMA RevisionsKept ==
  ASSUME TypeInv, RevisionInv, Unharmed' => Unharmed, UNCHANGED <<used, body, history>>,
         \A m \in DOMAIN prs' : /\ m \in DOMAIN prs
                                /\ Before(m)' <=> Before(m)
                                /\ Off(m)' <=> Off(m)
  PROVE  RevisionInv'
<1>1. \A m \in DOMAIN prs' : Revisions(m)' = Revisions(m)
  BY DEF Revisions
<1>2. QED
  BY <1>1 DEF RevisionInv, Unharmed, OnlyOneFor

LEMMA ProposeRevision ==
  ASSUME TypeInv, RevisionInv, NEW n \in PRs, NEW d \in Deployments, NEW e \in ErrorStates,
         NEW patch \in Patches, Propose(n, d, e, patch), Unharmed' => Unharmed
  PROVE  RevisionInv'
<1>1. /\ n \notin used /\ n \notin DOMAIN prs /\ DOMAIN prs \subseteq used
      /\ used' = used \cup {n}
      /\ body \in [used -> [dep : Deployments, patch : Patches]]
      /\ history' = history /\ executor' = executor /\ timer' = timer
      /\ DOMAIN prs' = DOMAIN prs \cup {n}
      /\ \A m \in DOMAIN prs : prs'[m] = prs[m]
      /\ prs'[n].state = "Pending"
  BY DEF Propose, AddPR, NewPatchRequest, TypeInv, TypeOK, StoreTypeOK
<1>2. (\A m \in used : body'[m] = body[m]) /\ body'[n].dep = d
  BY <1>1 DEF Propose, Put
<1>3. SUFFICES ASSUME Unharmed'
               PROVE  /\ \A c \in Deployments :
                           (\A m \in used' : body'[m].dep # c) => history'[c] = <<{}>>
                      /\ \A m \in DOMAIN prs' : Matches(m)'
  BY DEF RevisionInv, Unharmed, Matches
<1>4. /\ \A c \in Deployments : (\A m \in used : body[m].dep # c) => history[c] = <<{}>>
      /\ \A m \in DOMAIN prs : Matches(m)
  BY <1>3 DEF RevisionInv, Unharmed, Matches
<1>5. \A c \in Deployments :
        (\A m \in used' : body'[m].dep # c) => history'[c] = <<{}>>
  BY <1>1, <1>2, <1>4
<1>6. Matches(n)'
  <2>1. Revisions(n)' = <<{}>>
    BY <1>1 DEF Revisions, Before
  <2>2. OnlyOneFor(n)' => \A m \in used : body[m].dep # d
    BY <1>1, <1>2 DEF OnlyOneFor
  <2>3. QED
    BY <1>1, <1>2, <1>4, <2>1, <2>2 DEF Matches
<1>7. ASSUME NEW m \in DOMAIN prs PROVE Matches(m)'
  <2>1. Revisions(m)' = Revisions(m)
    BY <1>1 DEF Revisions, Before, Off
  <2>2. OnlyOneFor(m)' => OnlyOneFor(m)
    BY <1>1, <1>2 DEF OnlyOneFor
  <2>3. QED
    BY <1>1, <1>2, <1>4, <2>1, <2>2 DEF Matches
<1>8. QED
  BY <1>1, <1>5, <1>6, <1>7

\* The two rollouts a deployment with one PatchRequest gets.
LEMMA PairAppended ==
  ASSUME NEW a \in Revision, NEW b \in Revision
  PROVE  Append(<<a>>, b) = <<a, b>>
<1>1. PICK s \in Seq(Revision) : s = Append(<<a>>, b)
  <2>1. <<a>> \in Seq(Revision)
    OBVIOUS
  <2>2. Append(<<a>>, b) \in Seq(Revision)
    BY <2>1, AppendProperties
  <2>3. QED
    BY <2>2, Zenon
<1>2. PICK t \in Seq(Revision) : t = <<a, b>>
  <2>1. <<a, b>> \in Seq(Revision)
    OBVIOUS
  <2>2. QED
    BY <2>1, Zenon
<1>3. /\ Len(s) = 2 /\ s[1] = a /\ s[2] = b
      /\ Len(t) = 2 /\ t[1] = a /\ t[2] = b
  BY <1>1, <1>2
<1>4. \A i \in 1 .. Len(s) : s[i] = t[i]
  BY <1>3
<1>5. s = t
  BY <1>3, <1>4, SeqEqual
<1>6. QED
  BY <1>1, <1>2, <1>5

LEMMA PairUndone ==
  ASSUME NEW a \in Revision, NEW b \in Revision
  PROVE  Undone(<<a, b>>) = <<b, a>>
<1>1. PICK h \in Seq(Revision) : h = <<a, b>>
  <2>1. <<a, b>> \in Seq(Revision)
    OBVIOUS
  <2>2. QED
    BY <2>1, Zenon
<1>2. PICK t \in Seq(Revision) : t = <<b, a>>
  <2>1. <<b, a>> \in Seq(Revision)
    OBVIOUS
  <2>2. QED
    BY <2>1, Zenon
<1>3. /\ Len(h) = 2 /\ h[1] = a /\ h[2] = b
      /\ Len(t) = 2 /\ t[1] = b /\ t[2] = a
  BY <1>1, <1>2
<1>4. Len(h) > 1
  BY <1>3
<1>5. PICK u \in Seq(Revision) :
        /\ u = Undone(h) /\ Len(u) = Len(h)
        /\ \A i \in 1 .. Len(h) : u[i] = IF i = Len(h) THEN h[Len(h) - 1]
                                         ELSE IF i = Len(h) - 1 THEN h[Len(h)] ELSE h[i]
  BY <1>4, UndoneType
<1>6. Len(u) = 2 /\ u[1] = b /\ u[2] = a
  BY <1>3, <1>5
<1>7. \A i \in 1 .. Len(u) : u[i] = t[i]
  BY <1>3, <1>6
<1>8. u = t
  BY <1>3, <1>6, <1>7, SeqEqual
<1>9. QED
  BY <1>1, <1>2, <1>5, <1>8

\* A rollout on the deployment of n concerns nobody else who is alone on his.
LEMMA OtherRevisions ==
  ASSUME TypeInv, RevisionInv, NEW n \in used, Unharmed,
         NEW h \in Seq(Revision), Rollout(body[n].dep, h),
         UNCHANGED <<prs, used, body>>,
         \A m \in PRs \ {n} : executor'[m] = executor[m] /\ timer'[m] = timer[m],
         n \in DOMAIN prs => Matches(n)'
  PROVE  RevisionInv'
<1>1. /\ body[n].dep \in Deployments /\ DOMAIN prs \subseteq used /\ used \subseteq PRs
      /\ \A c \in Deployments \ {body[n].dep} : history'[c] = history[c]
      /\ \A m \in used : body[m].dep \in Deployments
  BY DEF TypeInv, TypeOK, StoreTypeOK, Rollout
<1>2. /\ \A c \in Deployments : (\A m \in used : body[m].dep # c) => history[c] = <<{}>>
      /\ \A m \in DOMAIN prs : Matches(m)
  BY DEF RevisionInv, Unharmed, Matches
<1>3. ASSUME NEW m \in DOMAIN prs, m # n PROVE Matches(m)'
  <2>1. Revisions(m)' = Revisions(m)
    BY <1>1, <1>3 DEF Revisions, Before, Off
  <2>2. OnlyOneFor(m) => body[m].dep # body[n].dep
    BY <1>3 DEF OnlyOneFor
  <2>3. QED
    BY <1>1, <1>2, <1>3, <2>1, <2>2 DEF Matches, OnlyOneFor
<1>4. QED
  BY <1>1, <1>2, <1>3 DEF RevisionInv, Matches

LEMMA PatchRevision ==
  ASSUME TypeInv, ControlInv, RevisionInv, NEW n \in PRs, PatchDeployment(n), Unharmed, ~Fault
  PROVE  RevisionInv'
<1> DEFINE d == body[n].dep
<1>1. n \in used /\ d \in Deployments
  BY DEF PatchDeployment, TypeInv, Asleep, TypeOK
<1>2. /\ Rollout(d, Append(history[d], Merged(n)))
      /\ executor' = [executor EXCEPT ![n] = IF body[n].patch = NoPatch THEN "stamp" ELSE "store"]
      /\ UNCHANGED <<prs, used, body, timer>>
  BY DEF PatchDeployment, ExecutorAt
<1>3. Append(history[d], Merged(n)) \in Seq(Revision)
  BY <1>1, MergedType DEF TypeInv
<1>4. executor'[n] \in {"store", "stamp"} /\ \A m \in PRs \ {n} : executor'[m] = executor[m]
  BY <1>2 DEF TypeInv, TypeOK
<1>5. ASSUME n \in DOMAIN prs, OnlyOneFor(n), body[n].patch \in Actionable
      PROVE  history'[d] = Revisions(n)'
  <2>1. prs[n].state = "Approved" /\ executor[n] = "patch"
    BY <1>5 DEF PatchDeployment, ControlInv, Knows, ExecutorKnows
  <2>2. history[d] = <<{}>>
    BY <1>5, <2>1 DEF RevisionInv, Unharmed, Revisions, Before
  <2>3. Merged(n) = {n}
    BY <1>5, <2>2 DEF Merged, Live
  <2>4. history'[d] = <<{}, {n}>>
    <3>1. history'[d] = Append(<<{}>>, {n})
      BY <1>1, <1>2, <2>2, <2>3 DEF Rollout, TypeInv, TypeOK
    <3>2. Append(<<{}>>, {n}) = <<{}, {n}>>
      BY PairAppended DEF Revision
    <3>3. QED
      BY <3>1, <3>2
  <2>5. Revisions(n)' = <<{}, {n}>>
    BY <1>2, <1>4, <2>1 DEF Revisions, Before, Off
  <2>6. QED
    BY <2>4, <2>5
<1>6. n \in DOMAIN prs => Matches(n)'
  BY <1>2, <1>5 DEF Matches, OnlyOneFor
<1>7. QED
  BY <1>1, <1>2, <1>3, <1>4, <1>6, OtherRevisions

LEMMA UndoRevision ==
  ASSUME TypeInv, ControlInv, RevisionInv, NEW n \in PRs, RolloutUndo(n), Unharmed, ~Fault
  PROVE  RevisionInv'
<1> DEFINE d == body[n].dep
<1>1. n \in used /\ d \in Deployments
  BY DEF RolloutUndo, TypeInv, Asleep, TypeOK
<1>2. /\ timer[n] = "undo" /\ timer' = [timer EXCEPT ![n] = "fail"]
      /\ UNCHANGED <<prs, used, body, executor>>
  BY DEF RolloutUndo, TimerAt
<1>3. timer'[n] = "fail" /\ \A m \in PRs \ {n} : timer'[m] = timer[m]
  BY <1>2 DEF TypeInv, TypeOK
<1>4. ASSUME n \in DOMAIN prs, OnlyOneFor(n), body[n].patch \in Actionable
      PROVE  prs[n].state = "Applied" /\ history[d] = <<{}, {n}>> /\ Revisions(n)' = <<{n}, {}>>
  <2>1. prs[n].state = "Applied"
    BY <1>2, <1>4 DEF ControlInv, Knows, TimerKnows, Watching
  <2>2. history[d] = <<{}, {n}>>
    BY <1>2, <1>4, <2>1 DEF RevisionInv, Unharmed, Revisions, Before, Off
  <2>3. Revisions(n)' = <<{n}, {}>>
    BY <1>2, <1>3, <2>1 DEF Revisions, Before, Off
  <2>4. QED
    BY <2>1, <2>2, <2>3
<1>5. CASE Len(history[d]) > 1 /\ Rollout(d, Undone(history[d]))
  <2>1. Undone(history[d]) \in Seq(Revision)
    BY <1>1, <1>5, LiveType, UndoneType DEF TypeInv
  <2>2. history'[d] = Undone(history[d])
    BY <1>1, <1>5 DEF Rollout, TypeInv, TypeOK
  <2>3. history[d] = <<{}, {n}>> => Undone(history[d]) = <<{n}, {}>>
    BY PairUndone DEF Revision
  <2>4. n \in DOMAIN prs => Matches(n)'
    BY <1>2, <1>4, <2>2, <2>3 DEF Matches, OnlyOneFor
  <2>5. QED
    BY <1>1, <1>2, <1>3, <1>5, <2>1, <2>4, OtherRevisions
<1>6. CASE Len(history[d]) = 1 /\ UNCHANGED history
  <2>1. Len(<<{}, {n}>>) = 2
    OBVIOUS
  <2>2. n \in DOMAIN prs => ~(OnlyOneFor(n) /\ body[n].patch \in Actionable)
    BY <1>4, <1>6, <2>1
  <2>3. \A m \in DOMAIN prs \ {n} : Revisions(m)' = Revisions(m)
    BY <1>2, <1>3 DEF Revisions, Before, Off, TypeInv, TypeOK, StoreTypeOK
  <2>4. QED
    BY <1>2, <1>6, <2>2, <2>3 DEF RevisionInv, Unharmed, OnlyOneFor
<1>7. QED
  BY <1>5, <1>6 DEF RolloutUndo, Unharmed

LEMMA StepRevision ==
  TypeInv /\ ControlInv /\ RevisionInv /\ [Next]_vars => RevisionInv'
<1> SUFFICES ASSUME TypeInv, ControlInv, RevisionInv, [Next]_vars, Unharmed'
             PROVE  RevisionInv'
  BY DEF RevisionInv, Unharmed
<1>1. Unharmed /\ ~Fault /\ ~Restart
  BY StaysUnharmed
<1>2. /\ DOMAIN prs \subseteq PRs
      /\ executor \in [PRs -> {"idle", "refuse", "patch", "store", "stamp"}]
      /\ timer \in [PRs -> {"idle", "restamp", "watch", "decide", "undo", "fail",
                            "forget", "close", "closeRecord", "learn"}]
      /\ StoreTypeOK
  BY DEF TypeInv, TypeOK, StoreTypeOK
<1>3. ASSUME NEW n \in PRs, NEW d \in Deployments, NEW e \in ErrorStates, NEW patch \in Patches,
             Propose(n, d, e, patch)
      PROVE  RevisionInv'
  BY <1>1, <1>3, ProposeRevision
<1>4. ASSUME NEW n \in PRs, PatchDeployment(n) PROVE RevisionInv'
  BY <1>1, <1>4, PatchRevision
<1>5. ASSUME NEW n \in PRs, RolloutUndo(n) PROVE RevisionInv'
  BY <1>1, <1>5, UndoRevision
<1> DEFINE Same(m) == m \in DOMAIN prs /\ (Before(m)' <=> Before(m)) /\ (Off(m)' <=> Off(m))
<1>6. ASSUME NEW n \in PRs, Notice(n) \/ SaveAppliedPatch(n)
      PROVE  UNCHANGED <<used, body, history>> /\ \A m \in DOMAIN prs' : Same(m)
  BY <1>2, <1>6 DEF Notice, SaveAppliedPatch, ExecutorAt, Before, Off
<1>7. ASSUME NEW n \in PRs, Refuse(n) \/ StampApplied(n)
      PROVE  UNCHANGED <<used, body, history>> /\ \A m \in DOMAIN prs' : Same(m)
  <2>1. \A m \in PRs \ {n} : executor'[m] = executor[m]
    BY <1>2, <1>7 DEF Refuse, StampApplied, Return
  <2>2. executor'[n] = "idle" /\ timer' = timer
    BY <1>2, <1>7 DEF Refuse, StampApplied, Return
  <2>3. DOMAIN prs' = DOMAIN prs /\ \A m \in DOMAIN prs \ {n} : prs'[m].state = prs[m].state
    BY <1>1, <1>2, <1>7, SetStateAt DEF Refuse, StampApplied
  <2>4. n \in DOMAIN prs =>
          /\ prs[n].state = "Approved" /\ timer[n] \notin Watching
          /\ \/ executor[n] = "refuse" /\ prs'[n].state = "Rejected"
             \/ executor[n] = "stamp" /\ prs'[n].state = "Applied"
    BY <1>1, <1>2, <1>7, SetStateAt
    DEF Refuse, StampApplied, ControlInv, Knows, ExecutorKnows, TimerKnows
  <2>5. UNCHANGED <<used, body, history>>
    BY <1>7 DEF Refuse, StampApplied
  <2>6. QED
    BY <1>2, <2>1, <2>2, <2>3, <2>4, <2>5 DEF Before, Off, Watching
<1>8. ASSUME NEW n \in PRs, MarkFailed(n) \/ CloseIncident(n)
      PROVE  UNCHANGED <<used, body, history>> /\ \A m \in DOMAIN prs' : Same(m)
  <2>1. executor' = executor /\ \A m \in PRs \ {n} : timer'[m] = timer[m]
    BY <1>2, <1>8 DEF MarkFailed, CloseIncident, Verdict, TimerAt
  <2>2. DOMAIN prs' = DOMAIN prs /\ \A m \in DOMAIN prs \ {n} : prs'[m].state = prs[m].state
    BY <1>1, <1>2, <1>8, SetStateAt DEF MarkFailed, CloseIncident, Verdict
  <2>3. n \in DOMAIN prs =>
          /\ prs[n].state = "Applied"
          /\ \/ timer[n] = "fail" /\ prs'[n].state = "Failed"
             \/ timer[n] = "close" /\ prs'[n].state = "Closed"
    BY <1>1, <1>2, <1>8, SetStateAt
    DEF MarkFailed, CloseIncident, Verdict, ControlInv, Knows, TimerKnows, Watching
  <2>4. UNCHANGED <<used, body, history>>
    BY <1>8 DEF MarkFailed, CloseIncident, Verdict
  <2>5. QED
    BY <1>2, <2>1, <2>2, <2>3, <2>4 DEF Before, Off
<1>9. ASSUME NEW n \in PRs,
             Poll(n) \/ Restamp(n) \/ CheckHealth(n) \/ CloseRecord(n) \/ MarkOutcome(n)
      PROVE  UNCHANGED <<used, body, history>> /\ \A m \in DOMAIN prs' : Same(m)
  <2>1. /\ UNCHANGED <<prs, used, body, history, executor>>
        /\ timer[n] # "fail" /\ \E t : timer' = [timer EXCEPT ![n] = t] /\ t # "fail"
    BY <1>9 DEF Poll, Restamp, CheckHealth, CloseRecord, MarkOutcome, TimerAt
  <2>2. \A m \in PRs : timer'[m] = "fail" <=> timer[m] = "fail"
    BY <1>2, <2>1
  <2>3. QED
    BY <1>2, <2>1, <2>2 DEF Before, Off
<1>10. ASSUME NEW n \in PRs, Reviewer(n)
       PROVE  UNCHANGED <<used, body, history>> /\ \A m \in DOMAIN prs' : Same(m)
  <2>1. UNCHANGED <<used, body, history, executor, timer>>
    BY <1>10 DEF Reviewer, Review, DeletePR
  <2>2. CASE DeletePR(n)
    BY <2>1, <2>2 DEF DeletePR, Before, Off
  <2>3. CASE Review(n)
    <3>1. /\ prs[n].state = "Pending" /\ n \in DOMAIN prs /\ executor[n] = "idle"
          /\ timer[n] # "fail"
      BY <2>3 DEF Review, ControlInv, Knows, ExecutorKnows, TimerKnows, Watching
    <3>2. /\ DOMAIN prs' = DOMAIN prs /\ prs'[n].state \in {"Approved", "Rejected"}
          /\ \A m \in DOMAIN prs \ {n} : prs'[m].state = prs[m].state
      BY <1>2, <2>3, SetStateAt DEF Review
    <3>3. QED
      BY <2>1, <3>1, <3>2 DEF Before, Off
  <2>4. QED
    BY <1>10, <2>2, <2>3 DEF Reviewer
<1>11. ASSUME NEW n \in PRs, CountRecurrence(n)
       PROVE  UNCHANGED <<used, body, history>> /\ \A m \in DOMAIN prs' : Same(m)
  <2>1. DOMAIN prs' = DOMAIN prs /\ \A m \in DOMAIN prs : prs'[m].state = prs[m].state
    BY <1>2, <1>11 DEF CountRecurrence, SetSeen, StoreTypeOK, PatchRequest
  <2>2. QED
    BY <1>11, <2>1 DEF CountRecurrence, Before, Off
<1>12. ASSUME \/ \E n \in PRs : WriteRecord(n) \/ SaveIncident(n)
              \/ Tick \/ UNCHANGED vars \/ \E d \in Deployments : PodsChange(d)
       PROVE  UNCHANGED <<used, body, history>> /\ \A m \in DOMAIN prs' : Same(m)
  BY <1>12 DEF WriteRecord, SaveIncident, Tick, vars, PodsChange, Before, Off
<1>13. ASSUME UNCHANGED <<used, body, history>>, \A m \in DOMAIN prs' : Same(m)
       PROVE  RevisionInv'
  BY <1>1, <1>13, RevisionsKept
<1> HIDE DEF Same
<1>14. QED
  BY <1>1, <1>3, <1>4, <1>5, <1>6, <1>7, <1>8, <1>9, <1>10, <1>11, <1>12, <1>13
  DEF Next, Executor, OutcomeChecker

-----------------------------------------------------------------------------
(* The invariant, and what follows from it.                                 *)

LEMMA InitInv == Init => IInv
<1> SUFFICES ASSUME Init PROVE IInv
  OBVIOUS
<1>1. DOMAIN prs = {} /\ used = {} /\ DOMAIN rows = {}
  BY DEF Init, StoreInit, Nothing
<1>2. history = [d \in Deployments |-> <<{}>>]
  BY DEF Init
<1>3. QED
  BY <1>1, <1>2, InitType DEF IInv, ControlInv, DeployInv, MemoryMatchesVerdict, RevisionInv

LEMMA StepInv == IInv /\ [Next]_vars => IInv'
  BY StepType, StepControl, StepDeploy, StepMemory, StepRevision DEF IInv

LEMMA AlwaysInv == Spec => []IInv
  BY InitInv, StepInv, PTL DEF Spec

\* A PatchRequest says Applied, Closed or Failed only if its deployment got the
\* patch, for any number of them and any failures (main.py:763-786).
THEOREM AppliedWasDeployedCorrect == Spec => []AppliedWasDeployed
<1>1. IInv => AppliedWasDeployed
  BY DEF IInv, TypeInv, TypeOK, StoreTypeOK, DeployInv, Deployed, AppliedWasDeployed
<1>2. QED
  BY <1>1, AlwaysInv, PTL

\* What the retrieval reads about a patch is what became of its PatchRequest
\* (db.py:109-152).
THEOREM MemoryMatchesVerdictCorrect == Spec => []MemoryMatchesVerdict
<1>1. IInv => MemoryMatchesVerdict
  BY DEF IInv
<1>2. QED
  BY <1>1, AlwaysInv, PTL

\* Without a failed call no approval is given up (main.py:792).
THEOREM GivenUpByFaultOnlyCorrect == Spec => []GivenUpByFaultOnly
<1>1. IInv => GivenUpByFaultOnly
  BY DEF IInv, ControlInv, Knows, GivenUpByFaultOnly, GivenUp
<1>2. QED
  BY <1>1, AlwaysInv, PTL

\* No incident is closed before its window is over, for any window
\* (outcome_checker.py:168-203).
THEOREM ClosedAfterWindowCorrect == Spec => []ClosedAfterWindow
<1>1. IInv => ClosedAfterWindow
  BY DEF IInv, ControlInv, Knows, WindowOver, ClosedAfterWindow
<1>2. QED
  BY <1>1, AlwaysInv, PTL

\* With a kubectl and while nothing fails, a deployment with one PatchRequest runs what the
\* verdict says, whatever happens to other deployments
\* (outcome_checker.py:67-106).
THEOREM VerdictInForceCorrect == Spec => []VerdictInForce
<1>1. ASSUME IInv, Kubectl, faults = 0, restarts = 0, NEW n \in DOMAIN prs,
             OnlyOneFor(n), body[n].patch \in Actionable
      PROVE  /\ prs[n].state = "Closed" => n \in Live(body[n].dep)
             /\ prs[n].state = "Failed" => n \notin Live(body[n].dep)
  <2>1. history[body[n].dep] = Revisions(n)
    BY <1>1 DEF IInv, RevisionInv
  <2>2. CASE prs[n].state = "Closed"
    <3>1. history[body[n].dep] = <<{}, {n}>>
      BY <2>1, <2>2 DEF Revisions, Before, Off
    <3>2. QED
      BY <2>2, <3>1 DEF Live
  <2>3. CASE prs[n].state = "Failed"
    <3>1. history[body[n].dep] = <<{n}, {}>>
      BY <2>1, <2>3 DEF Revisions, Before, Off
    <3>2. QED
      BY <2>3, <3>1 DEF Live
  <2>4. QED
    BY <2>2, <2>3
<1>2. IInv => VerdictInForce
  BY <1>1 DEF VerdictInForce
<1>3. QED
  BY <1>2, AlwaysInv, PTL

\* A PatchRequest is answered once and its verdict is final, for any number of
\* them, with failing calls, restarts and deletions (README.md:120-148).
THEOREM KeepsPromiseCorrect == Spec => KeepsPromise
<1>1. Init => Promise!Init
  BY DEF Init, StoreInit, Promise!Init, Stage
<1>2. IInv /\ [Next]_vars => [Promise!Next]_([n \in PRs |-> Stage(n)])
  <2>1. ASSUME UNCHANGED storeVars PROVE UNCHANGED [n \in PRs |-> Stage(n)]
    BY <2>1 DEF Stage
  <2>2. QED
    BY <2>1, StepWrites, StoreStepMoves DEF IInv, TypeInv, TypeOK
<1>3. QED
  BY <1>1, <1>2, AlwaysInv, PTL DEF Spec, KeepsPromise, Promise!Spec
=============================================================================
