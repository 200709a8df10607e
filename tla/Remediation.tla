----------------------------- MODULE Remediation -----------------------------
(***************************************************************************)
(* What happens to a PatchRequest once it exists: the executor             *)
(* (main.py, on_patchrequest_approved) patches the deployment, the outcome *)
(* checker (outcome_checker.py) watches it and closes the incident or      *)
(* rolls the deployment back, and both tell the database.  Executor and    *)
(* timer of one PatchRequest and those of all others share one event loop, *)
(* so each is a process whose steps run from one await to the next.        *)
(***************************************************************************)
EXTENDS PatchRequests, Sequences

CONSTANTS
  NoPatch,      \* the empty proposedPatch; in the database, no patch
  Forbidden,    \* the patches whose kind is not in the whitelist
  Actionable,   \* the patches with a pod spec: the others only restart
  Window,       \* OBSERVATION_WINDOW_SECONDS, in ticks
  Kubectl,      \* has the controller's image a kubectl (the Dockerfile puts in none)
  MaxSeen,      \* bound: where seenCount stops
  MaxFaults,    \* bound: calls of executors and checkers that fail
  MaxRestarts   \* bound: restarts of the controller

ASSUME RemediationAssumption ==
  /\ NoPatch \in Patches
  /\ Forbidden \subseteq Patches \ {NoPatch}
  /\ Actionable \subseteq Patches \ {NoPatch}
  /\ Kubectl \in BOOLEAN
  /\ Window \in Nat /\ MaxSeen \in Nat \ {0}
  /\ MaxFaults \in Nat /\ MaxRestarts \in Nat

VARIABLES
  body,       \* the spec of every PatchRequest made: handlers hold a copy
  handled,    \* the approvalState kopf has dealt with
  writer,     \* where the pipeline that made it stands
  executor,   \* where its executor stands
  timer,      \* where its timer stands
  observed,   \* the age of observationStartTime
  history,    \* deployment -> its revisions, each the patches merged into it
  crashing,   \* deployment -> do new pods crash, do replaced ones linger on
  records,    \* the state in its IncidentRecord
  rows,       \* its row in the incidents table
  faults,     \* calls of executors and checkers that failed so far
  restarts    \* restarts so far

diagnosed == <<used, body>>
handlers == <<handled, writer, executor, timer>>
memory == <<records, rows>>
budget == <<faults, restarts>>
vars == <<prs, diagnosed, handlers, observed, history, crashing, memory, budget>>

Row == [state : {"Investigating", "Resolved", "Closed"}, patch : Patches,
        worked : {"null", "true", "false"}]

TypeOK ==
  /\ StoreTypeOK
  /\ body \in [used -> [dep : Deployments, patch : Patches]]
  /\ handled \in [PRs -> ApprovalStates]
  /\ writer \in [PRs -> {"done", "record", "save"}]
  /\ executor \in [PRs -> {"idle", "refuse", "patch", "store", "stamp"}]
  /\ timer \in [PRs -> {"idle", "restamp", "watch", "decide", "undo", "fail", "forget",
                        "close", "closeRecord", "learn"}]
  /\ observed \in [PRs -> 0 .. Window]
  /\ history \in [Deployments -> Seq(SUBSET PRs) \ {<<>>}]
  /\ crashing \in [Deployments -> [new : BOOLEAN, replaced : BOOLEAN]]
  /\ DOMAIN records \subseteq used
  /\ records \in [DOMAIN records -> {"Investigating", "Closed"}]
  /\ DOMAIN rows \subseteq used
  /\ rows \in [DOMAIN rows -> Row]
  /\ faults \in Nat /\ restarts \in Nat

Nothing == [n \in {} |-> {}]

Init ==
  /\ StoreInit
  /\ body = Nothing /\ records = Nothing /\ rows = Nothing
  /\ handled = [n \in PRs |-> "Pending"]
  /\ writer = [n \in PRs |-> "done"]
  /\ executor = [n \in PRs |-> "idle"]
  /\ timer = [n \in PRs |-> "idle"]
  /\ observed = [n \in PRs |-> 0]
  /\ history = [d \in Deployments |-> <<{}>>]
  /\ crashing = [d \in Deployments |-> [new |-> TRUE, replaced |-> FALSE]]
  /\ faults = 0 /\ restarts = 0

-----------------------------------------------------------------------------
Fault ==
  /\ faults < MaxFaults
  /\ faults' = faults + 1
  /\ UNCHANGED restarts

Put(f, n, v) == [m \in DOMAIN f \cup {n} |-> IF m = n THEN v ELSE f[m]]

\* A new revision goes out: the pods of the last one linger until it is ready.
Rollout(d, revisions) ==
  /\ history' = [history EXCEPT ![d] = revisions]
  /\ crashing' = [crashing EXCEPT ![d] =
                    [new |-> FALSE, replaced |-> @.new \/ @.replaced]]

Live(d) == history[d][Len(history[d])]

-----------------------------------------------------------------------------
(* The diagnosis pipeline: PatchRequest, IncidentRecord, row, in this order. *)
(* Each of its calls may fail; faults are those of executor and checker.     *)

WriterAt(n, stage) == writer' = [writer EXCEPT ![n] = stage]

\* If the answer to the creation is lost, the pipeline ends with it.
Propose(n, d, e, patch) ==
  /\ AddPR(n, NewPatchRequest(d, e, patch))
  /\ body' = Put(body, n, [dep |-> d, patch |-> patch])
  /\ WriterAt(n, "record") \/ WriterAt(n, "done")
  /\ UNCHANGED <<handled, executor, timer, observed, history, crashing, memory, budget>>

\* An ApiException is logged; any other error ends the pipeline.
WriteRecord(n) ==
  /\ writer[n] = "record"
  /\ \/ records' = Put(records, n, "Investigating") /\ WriterAt(n, "save")
     \/ UNCHANGED records /\ (WriterAt(n, "save") \/ WriterAt(n, "done"))
  /\ UNCHANGED <<prs, diagnosed, handled, executor, timer, observed, history, crashing, rows,
                 budget>>

SaveIncident(n) ==
  /\ writer[n] = "save"
  /\ \/ rows' = Put(rows, n, [state |-> "Investigating", patch |-> NoPatch, worked |-> "null"])
     \/ UNCHANGED rows
  /\ WriterAt(n, "done")
  /\ UNCHANGED <<prs, diagnosed, handled, executor, timer, observed, history, crashing, records,
                 budget>>

-----------------------------------------------------------------------------
(* on_patchrequest_approved *)

\* The handler returns; kopf notes the state it was called for.
Return(n) ==
  /\ executor' = [executor EXCEPT ![n] = "idle"]
  /\ handled' = [handled EXCEPT ![n] = "Approved"]

ExecutorAt(n, stage) == executor' = [executor EXCEPT ![n] = stage] /\ UNCHANGED handled

\* kopf calls the handler for a state it has not dealt with yet.
Notice(n) ==
  /\ executor[n] = "idle"
  /\ n \in DOMAIN prs
  /\ prs[n].state # handled[n]
  /\ IF prs[n].state = "Approved"
     THEN ExecutorAt(n, IF body[n].patch \in Forbidden THEN "refuse" ELSE "patch")
     ELSE handled' = [handled EXCEPT ![n] = prs[n].state] /\ UNCHANGED executor
  /\ UNCHANGED <<prs, diagnosed, writer, timer, observed, history, crashing, memory, budget>>

\* Mutant: the refusal is only logged.
RefuseInLog(n) ==
  /\ executor[n] = "refuse"
  /\ Return(n)
  /\ UNCHANGED <<prs, diagnosed, writer, timer, observed, history, crashing, memory, budget>>

\* A status call on an object that is gone fails; any may fail, before or
\* after the server carried it out.  The executor returns in every case.
Refuse(n) ==
  /\ executor[n] = "refuse"
  /\ \/ n \in DOMAIN prs /\ SetState(n, "Rejected") /\ (UNCHANGED budget \/ Fault)
     \/ n \notin DOMAIN prs /\ UNCHANGED <<prs, budget>>
     \/ Fault /\ UNCHANGED prs
  /\ Return(n)
  /\ UNCHANGED <<diagnosed, writer, timer, observed, history, crashing, memory>>

\* The restart annotation makes every call a new revision, also a repeated
\* one; a patch without a pod spec changes nothing else.
Merged(n) == Live(body[n].dep) \cup (IF body[n].patch \in Actionable THEN {n} ELSE {})

\* Mutant: an error of the patch call is logged and the executor goes on.
PatchOrGoOn(n) ==
  /\ executor[n] = "patch"
  /\ \/ Rollout(body[n].dep, Append(history[body[n].dep], Merged(n))) /\ UNCHANGED budget
     \/ Fault /\ UNCHANGED <<history, crashing>>
  /\ ExecutorAt(n, IF body[n].patch = NoPatch THEN "stamp" ELSE "store")
  /\ UNCHANGED <<prs, diagnosed, writer, timer, observed, memory>>

\* Mutant: without a proposedPatch there is nothing to do.
PatchOrSkip(n) ==
  /\ executor[n] = "patch"
  /\ \/ /\ body[n].patch = NoPatch
        /\ Return(n)
        /\ UNCHANGED <<history, crashing, budget>>
     \/ /\ body[n].patch # NoPatch
        /\ Rollout(body[n].dep, Append(history[body[n].dep], Merged(n)))
        /\ ExecutorAt(n, "store")
        /\ UNCHANGED budget
  /\ UNCHANGED <<prs, diagnosed, writer, timer, observed, memory>>

PatchDeployment(n) ==
  /\ executor[n] = "patch"
  /\ \/ /\ Rollout(body[n].dep, Append(history[body[n].dep], Merged(n)))
        /\ \/ ExecutorAt(n, IF body[n].patch = NoPatch THEN "stamp" ELSE "store")
              /\ UNCHANGED budget
           \/ Fault /\ Return(n)
     \/ Fault /\ Return(n) /\ UNCHANGED <<history, crashing>>
  /\ UNCHANGED <<prs, diagnosed, writer, timer, observed, memory>>

\* save_applied_patch updates the row if there is one and logs every error.
SaveAppliedPatch(n) ==
  /\ executor[n] = "store"
  /\ \/ /\ rows' = IF n \in DOMAIN rows
                   THEN [rows EXCEPT ![n].patch = body[n].patch, ![n].state = "Resolved"]
                   ELSE rows
        /\ UNCHANGED budget
     \/ Fault /\ UNCHANGED rows
  /\ ExecutorAt(n, "stamp")
  /\ UNCHANGED <<prs, diagnosed, writer, timer, observed, history, crashing, records>>

StampApplied(n) ==
  /\ executor[n] = "stamp"
  /\ \/ /\ n \in DOMAIN prs
        /\ SetState(n, "Applied")
        /\ observed' = [observed EXCEPT ![n] = 0]
        /\ UNCHANGED budget \/ Fault
     \/ n \notin DOMAIN prs /\ UNCHANGED <<prs, observed, budget>>
     \/ Fault /\ UNCHANGED <<prs, observed>>
  /\ Return(n)
  /\ UNCHANGED <<diagnosed, writer, timer, history, crashing, memory>>

-----------------------------------------------------------------------------
(* outcome_checker_timer *)

TimerAt(n, stage) == timer' = [timer EXCEPT ![n] = stage]

\* The elapsed time is taken before the deployment is looked at.
ByElapsed(n) == IF observed[n] >= Window THEN "decide" ELSE "watch"

\* Mutants: any state is polled; the window counts as over at once.
PollAnyState(n) ==
  /\ timer[n] = "idle"
  /\ n \in DOMAIN prs
  /\ TimerAt(n, "restamp") \/ TimerAt(n, ByElapsed(n))
  /\ UNCHANGED <<prs, diagnosed, handled, writer, executor, observed, history, crashing,
                 memory, budget>>

PollAtOnce(n) ==
  /\ timer[n] = "idle"
  /\ n \in DOMAIN prs
  /\ prs[n].state = "Applied"
  /\ TimerAt(n, "decide")
  /\ UNCHANGED <<prs, diagnosed, handled, writer, executor, observed, history, crashing,
                 memory, budget>>

\* A merge patch of another writer may have taken observationStartTime off the
\* object at any time (docs/rca/RCA-2026-0809-sre-agent-patch-loop.md:115).
Poll(n) ==
  /\ timer[n] = "idle"
  /\ n \in DOMAIN prs
  /\ prs[n].state = "Applied"
  /\ TimerAt(n, "restamp") \/ TimerAt(n, ByElapsed(n))
  /\ UNCHANGED <<prs, diagnosed, handled, writer, executor, observed, history, crashing,
                 memory, budget>>

\* Mutant: without the stamp the timer returns, as it did before that incident.
SkipUnstamped(n) ==
  /\ timer[n] = "restamp"
  /\ TimerAt(n, "idle")
  /\ UNCHANGED <<prs, diagnosed, handled, writer, executor, observed, history, crashing,
                 memory, budget>>

\* appliedAt, which has the same time, is written back; whether that succeeds
\* makes no difference to this turn.
Restamp(n) ==
  /\ timer[n] = "restamp"
  /\ TimerAt(n, ByElapsed(n))
  /\ UNCHANGED budget \/ Fault
  /\ UNCHANGED <<prs, diagnosed, handled, writer, executor, observed, history, crashing,
                 memory>>

\* Every pod with the deployment's label counts, the replaced ones too.
Crashing(d) == crashing[d].new \/ crashing[d].replaced

\* Mutant: an unhealthy deployment only gets its verdict.
CheckHealthNoUndo(n) ==
  /\ timer[n] \in {"watch", "decide"}
  /\ TimerAt(n, IF Crashing(body[n].dep) THEN "fail"
                ELSE IF timer[n] = "decide" THEN "close" ELSE "idle")
  /\ UNCHANGED <<prs, diagnosed, handled, writer, executor, observed, history,
                 crashing, memory, budget>>

\* _check_deployment_health: a deployment that cannot be read is healthy.
CheckHealth(n) ==
  LET Healthy == TimerAt(n, IF timer[n] = "decide" THEN "close" ELSE "idle")
  IN /\ timer[n] \in {"watch", "decide"}
     /\ \/ Crashing(body[n].dep) /\ TimerAt(n, "undo") /\ UNCHANGED budget
        \/ ~Crashing(body[n].dep) /\ Healthy /\ UNCHANGED budget
        \/ Fault /\ Healthy
     /\ UNCHANGED <<prs, diagnosed, handled, writer, executor, observed, history,
                    crashing, memory>>

\* kubectl rollout undo brings the last revision but one to the top.
Undone(h) == SubSeq(h, 1, Len(h) - 2) \o <<h[Len(h)], h[Len(h) - 1]>>

\* _execute_rollback: what the shell answered is not looked at, be it that there
\* is no kubectl, and there is no fingerprint to clear (nothing writes
\* llmDiagnosis.error_fingerprint).
RolloutUndo(n) ==
  LET d == body[n].dep
  IN /\ timer[n] = "undo"
     /\ \/ /\ Kubectl /\ Len(history[d]) > 1
           /\ Rollout(d, Undone(history[d]))
           /\ UNCHANGED budget
        \/ (Kubectl => Len(history[d]) = 1) /\ UNCHANGED <<history, crashing, budget>>
        \/ Fault /\ UNCHANGED <<history, crashing>>
     /\ TimerAt(n, "fail")
     /\ UNCHANGED <<prs, diagnosed, handled, writer, executor, observed, memory>>

\* Mutant: an error of the status call is logged and the timer goes on.
VerdictOrGoOn(n, at, state, next) ==
  /\ timer[n] = at
  /\ \/ n \in DOMAIN prs /\ SetState(n, state) /\ UNCHANGED budget
     \/ n \notin DOMAIN prs /\ UNCHANGED <<prs, budget>>
     \/ Fault /\ UNCHANGED prs
  /\ TimerAt(n, next)
  /\ UNCHANGED <<diagnosed, handled, writer, executor, observed, history, crashing, memory>>

\* An exception ends the timer's turn.
Verdict(n, at, state, next) ==
  /\ timer[n] = at
  /\ \/ /\ n \in DOMAIN prs
        /\ SetState(n, state)
        /\ \/ TimerAt(n, next) /\ UNCHANGED budget
           \/ Fault /\ TimerAt(n, "idle")
     \/ n \notin DOMAIN prs /\ TimerAt(n, "idle") /\ UNCHANGED <<prs, budget>>
     \/ Fault /\ TimerAt(n, "idle") /\ UNCHANGED prs
  /\ UNCHANGED <<diagnosed, handled, writer, executor, observed, history, crashing, memory>>

\* Mutant: a state of the other CRD (k8s/crds/patch-request-crd.yaml:42).
MarkRolledBack(n) == Verdict(n, "fail", "RolledBack", "forget")

MarkFailed(n) == Verdict(n, "fail", "Failed", "forget")
CloseIncident(n) == Verdict(n, "close", "Closed", "closeRecord")

CloseRecord(n) ==
  /\ timer[n] = "closeRecord"
  /\ \/ /\ records' = IF n \in DOMAIN records
                      THEN [records EXCEPT ![n] = "Closed"] ELSE records
        /\ UNCHANGED budget
     \/ Fault /\ UNCHANGED records
  /\ TimerAt(n, "learn")
  /\ UNCHANGED <<prs, diagnosed, handled, writer, executor, observed, history, crashing, rows>>

\* mark_incident_outcome updates the row if there is one, logs every error.
MarkOutcome(n) ==
  LET worked == timer[n] = "learn"
  IN /\ timer[n] \in {"forget", "learn"}
     /\ \/ /\ rows' = IF n \notin DOMAIN rows THEN rows
                      ELSE IF worked
                      THEN [rows EXCEPT ![n].worked = "true", ![n].state = "Closed"]
                      ELSE [rows EXCEPT ![n].worked = "false"]
           /\ UNCHANGED budget
        \/ Fault /\ UNCHANGED rows
     /\ TimerAt(n, "idle")
     /\ UNCHANGED <<prs, diagnosed, handled, writer, executor, observed, history, crashing,
                    records>>

-----------------------------------------------------------------------------
(* The surroundings *)

\* New pods enter or leave a crash back-off; replaced pods disappear.
PodsChange(d) ==
  /\ \/ crashing' = [crashing EXCEPT ![d].new = ~@]
     \/ crashing[d].replaced /\ crashing' = [crashing EXCEPT ![d].replaced = FALSE]
  /\ UNCHANGED <<prs, diagnosed, handlers, observed, history, memory, budget>>

\* The pipeline counts a recurrence, whatever has become of the object.
CountRecurrence(n) ==
  /\ n \in DOMAIN prs
  /\ \E k \in 1 .. MaxSeen : SetSeen(n, k)
  /\ UNCHANGED <<diagnosed, handlers, observed, history, crashing, memory, budget>>

Reviewer(n) ==
  /\ Review(n) \/ DeletePR(n)
  /\ UNCHANGED <<body, handlers, observed, history, crashing, memory, budget>>

Tick ==
  /\ observed' = [n \in PRs |->
                    IF n \in DOMAIN prs /\ prs[n].state = "Applied" /\ observed[n] < Window
                    THEN observed[n] + 1 ELSE observed[n]]
  /\ UNCHANGED <<prs, diagnosed, handlers, history, crashing, memory, budget>>

\* What kopf dealt with is in an annotation of the object and survives.
Restart ==
  /\ restarts < MaxRestarts
  /\ restarts' = restarts + 1
  /\ writer' = [n \in PRs |-> "done"]
  /\ executor' = [n \in PRs |-> "idle"]
  /\ timer' = [n \in PRs |-> "idle"]
  /\ UNCHANGED <<prs, diagnosed, handled, observed, history, crashing, memory, faults>>

Executor(n) ==
  \/ Notice(n) \/ Refuse(n) \/ PatchDeployment(n) \/ SaveAppliedPatch(n) \/ StampApplied(n)

OutcomeChecker(n) ==
  \/ Poll(n) \/ Restamp(n) \/ CheckHealth(n) \/ RolloutUndo(n) \/ MarkFailed(n)
  \/ CloseIncident(n) \/ CloseRecord(n) \/ MarkOutcome(n)

Next ==
  \/ \E n \in PRs, d \in Deployments, e \in ErrorStates, patch \in Patches :
       Propose(n, d, e, patch)
  \/ \E n \in PRs : WriteRecord(n) \/ SaveIncident(n) \/ Executor(n) \/ OutcomeChecker(n)
                      \/ Reviewer(n) \/ CountRecurrence(n)
  \/ \E d \in Deployments : PodsChange(d)
  \/ Tick
  \/ Restart

Spec == Init /\ [][Next]_vars

\* Every awaited call returns, kopf goes on calling handlers and timers, and
\* time passes.
Fairness ==
  /\ \A n \in PRs : WF_vars(Executor(n)) /\ WF_vars(OutcomeChecker(n))
  /\ WF_vars(Tick)

LiveSpec == Spec /\ Fairness

-----------------------------------------------------------------------------
(* Safety *)

Stage(n) ==
  IF n \in DOMAIN prs THEN prs[n].state ELSE IF n \in used THEN "deleted" ELSE "unborn"

Promise == INSTANCE PRLifecycle WITH stage <- [n \in PRs |-> Stage(n)]

\* Executor, timer and reviewer write the status without a precondition, calls
\* fail on either side of their effect and handlers are run again after a
\* restart; still an answer is given once and a verdict is final
\* (main.py:683, outcome_checker.py:157, the guards the two handlers start with).
KeepsPromise == Promise!Spec

\* An object only says Applied, or carries a verdict on its patch, when the
\* deployment got the patch: the status is written after it, however often
\* the executor starts over (main.py:763-786).
EverDeployed(n) ==
  body[n].patch \in Actionable =>
    \E i \in DOMAIN history[body[n].dep] : n \in history[body[n].dep][i]

AppliedWasDeployed ==
  \A n \in DOMAIN prs : prs[n].state \in {"Applied", "Closed", "Failed"} => EverDeployed(n)

\* An approval is given up only if a call failed: the handler swallows every
\* error and returns, and kopf, which has then dealt with the state, calls it
\* no more (main.py:792).  A restart, an empty patch or a refusal loses none.
GivenUp(n) ==
  /\ n \in DOMAIN prs
  /\ prs[n].state = "Approved" /\ handled[n] = "Approved" /\ executor[n] = "idle"

GivenUpByFaultOnly == \A n \in PRs : GivenUp(n) => faults > 0

\* What the database tells the retrieval about a patch is what became of its
\* PatchRequest: "worked" is never ahead of the verdict, and a stored patch
\* is one the deployment got (db.py:109-152, the filter at db.py:175-179).
MemoryMatchesVerdict ==
  \A n \in DOMAIN rows :
    /\ n \in DOMAIN prs =>
         /\ rows[n].worked = "true"  => prs[n].state = "Closed"
         /\ rows[n].worked = "false" => prs[n].state = "Failed"
    /\ rows[n].patch # NoPatch => rows[n].patch = body[n].patch /\ EverDeployed(n)

\* When a deployment has had one PatchRequest only, there is a kubectl, no call
\* failed and the controller did not restart, the deployment runs what the
\* verdict says: the patch if it is closed, what was there before if it failed
\* (outcome_checker.py:67-106).
OnlyOneFor(n) == \A m \in used : body[m].dep = body[n].dep => m = n

VerdictInForce ==
  Kubectl /\ faults = 0 /\ restarts = 0 =>
    \A n \in DOMAIN prs :
      OnlyOneFor(n) /\ body[n].patch \in Actionable =>
        /\ prs[n].state = "Closed" => n \in Live(body[n].dep)
        /\ prs[n].state = "Failed" => n \notin Live(body[n].dep)

\* A deployment is watched for the whole window before its incident is closed,
\* though the elapsed time is taken, from one stamp or the other, some calls
\* before the status is written (outcome_checker.py:168-203).
ClosedAfterWindow ==
  \A n \in DOMAIN prs : prs[n].state = "Closed" => observed[n] = Window

-----------------------------------------------------------------------------
(* Liveness *)

\* A PatchRequest that is approved is carried out or refused, also across
\* restarts, as long as no call fails; one that is applied gets its verdict
\* even if calls do and its observationStartTime is lost again and again (the
\* timer comes back every 30 seconds, outcome_checker.py:168-188).
Waits(n, state) == n \in DOMAIN prs /\ prs[n].state = state

ApprovedCarriedOut ==
  \A n \in PRs : Waits(n, "Approved") ~> ~Waits(n, "Approved") \/ faults > 0

AppliedJudged == \A n \in PRs : Waits(n, "Applied") ~> ~Waits(n, "Applied")

-----------------------------------------------------------------------------
(* What the repository says and the code does not do *)

\* README.md:47 and docs/architecture/advanced_features_architecture.md:50: a
\* bad patch is rolled back to "the previous known-good deployment revision".
\* rollout undo takes off what was applied last, whosever it is, and without a
\* kubectl nothing.
FailedPatchIsOff ==
  \A n \in DOMAIN prs :
    prs[n].state = "Failed" /\ timer[n] = "idle" => n \notin Live(body[n].dep)
=============================================================================
