# A TLA+ model of the Kubernetes SRE agent

Specifications, model-checking configurations and machine-checked proofs for the
controller in this repository: the program that watches pods, suppresses
duplicate failures, has an incident diagnosed by language models, proposes a
patch as a `PatchRequest`, applies it once a human approves, watches the result
for ten minutes and rolls it back or closes the incident.

Paths are relative to the repository root; `main.py`, `dedup.py` and so on are
in `controller/`.

## 1. Inventory

| Component | State it keeps | Operations | Hard parts |
|---|---|---|---|
| Pod watch handlers (`main.py:342-428`) | none; kopf keeps what it handled last | `on_pod_status_change`, `on_pod_init_status_change` | kopf merges changes it has not delivered yet; handlers of one pod run one at a time, of different pods concurrently |
| Log preprocessing (`log_preprocessor.py:18-106`, `main.py:128-149`) | none | `_fetch_pod_logs`, `preprocess_logs`, `make_fingerprint` | stripping, dropping, reordering and truncating one after the other; the result is both the agents' input and layer 2's key |
| Failure detection (`log_preprocessor.py:109-180`) | none | `detect_error_state`, `detect_init_error_state` | `lastState` describes the run before; the kubelet alternates between terminated, waiting and running |
| Layer 1, dampening (`dedup.py:31-81`) | `_event_window`: pod uid to events | `should_trigger`, `clear_dampening` | a sliding window in memory, lost at a restart |
| Layer 2, fingerprints (`dedup.py:86-115`) | `_fingerprint_cache`: fingerprint to PatchRequest and time | check, register, clear | entries outlive the PatchRequest they name; the key has neither namespace nor deployment |
| Layer 3, PatchRequest check (`dedup.py:120-197`) | the PatchRequests in the API server | `has_open_patchrequest`, `increment_seen_count` | check, then act minutes later; read in one call, write in another |
| Diagnosis pipeline (`main.py:433-665`) | locals of the handler | fetch, dedup, retrieve, diagnose, create, record, save, register | fourteen awaits, each of which may fail or be cut off by a restart |
| Agents (`llm_client.py`) | locals | Analyst, then Fixer and Validator up to three times | what an earlier attempt left behind |
| Retrieval (`main.py:545-587`, `db.py:158-199`) | the `incidents` table | find a similar incident whose fix worked, validate it again | a fix that was valid then |
| Executor (`main.py:670-796`) | none | refuse, or patch, store, stamp | swallowed exceptions; started again after a restart |
| Outcome checker (`outcome_checker.py`) | none; a timer per PatchRequest | health check, rollback, close | reads once, then several writes; runs beside the executor and all other timers |
| Incident (`incident.py`, `states.py`) | one object | investigate, resolve, close, reopen, `to_dict`, `from_dict` | fields left over from an earlier round, or forgotten by a round trip |
| Incident store (`db.py`, `db/schema.sql`) | rows | `save_incident`, `save_applied_patch`, `mark_incident_outcome`, `find_similar_incident` | updates of a row that may not be there; errors are only logged |
| Dashboard (`dashboard/app.py`) | none | lists, counts | none: each request reads one listing |
| Telemetry, webhook, Ollama shim, benchmarks | none that the program reads | notifications; a script that drives a test cluster | none |

**Interaction.** kopf calls the pod handlers; they trigger the pipeline, which
shares layers 1 and 2 with the pipelines of other pods (one process, one event
loop: a step from one `await` to the next is atomic) and the PatchRequests with
everyone. The reviewer answers a PatchRequest with `kubectl`; kopf calls the
executor for that change and the outcome checker every 30 seconds for each
PatchRequest. Executor, checker and pipeline write the `incidents` table, which
the retrieval of later pipelines reads. Everything in memory is lost at a
restart; PatchRequests, IncidentRecords and rows survive, and kopf delivers
unfinished changes again.

**What makes it correct.** A failure that persists is diagnosed, once per
deployment and error; a recovery or a blip is not. No event is counted that did
not happen. A patch is proposed only if it was validated, applied only after
approval, watched for the whole window, and then either kept and remembered as
working or taken off again. A failure is worked on until it is gone: no answer,
verdict or rollback leaves it silenced. What the API server, the database and the Incident
object say agrees with what was done.

## 2. Modules

| Module | Models | State and actions |
|---|---|---|
| `Workloads` | pods, deployments, namespaces | constants |
| `Dampening` | layer 1 | `window`: per pod the error state of its events and how many there are of each age in ticks. `Triggers` and `Dampens` are the two results of `should_trigger` |
| `FingerprintCache` | layer 2 | `cache`: fingerprint to PatchRequest and age; a fingerprint is a pair of error and log |
| `PatchRequests` | the store layer 3 and all others share | `prs`, `used`; one operator per API call, and what others may do to a state |
| `DiagnosisPipeline` | `main.py:342-665` | a process per pod; `pc` is the await it stands at; one action per call, with its failing outcomes |
| `PRLifecycle` | abstract: what a reviewer is promised of a PatchRequest | `stage` |
| `Remediation` | executor, outcome checker, reviewer, the deployment's revisions, row and record | three processes per PatchRequest: `writer`, `executor`, `timer`. `history` holds a deployment's revisions as sets of merged patches, in the order of `kubectl rollout history`. `Poll` and `Restamp` are a turn of the timer with and without `observationStartTime` |
| `IncidentLifecycle` | abstract: the header of `states.py` | `state`, `patched` |
| `Incident` | `incident.py`, `states.py` | `inc`; a call is one step, a refused call sets `raised` only |
| `CrashDetection` | kubelet, detection, layer 1 | `status` as the kubelet writes it, `handled` as kopf last delivered it, `rerun`: was the container started since then (a new `restartCount` is a change whatever the rest says); `Handle` is a handler. `crashes`, `backoffs` and `cause` are history |
| `Diagnosis` | retrieval, Analyst, Fixer, Validator | `at` is the call awaited next; `answer` is `patch_result` |
| `DiagnosisPipelineProofs`, `RemediationProofs`, `SREAgentProofs`, `IncidentProofs`, `DiagnosisProofs`, `CrashDetectionProofs`, `TriageProofs` | proofs | see section 6 |
| `Induction` | lemmas: induction over sets and sequences, and what folds compute | see section 6 |
| `LogPreprocessor` | `preprocess_logs`, `make_fingerprint` | operators on lines, which are a timestamp and words; a word is what a pattern recognises and a character of the budget. The loops of the code are folds |
| `Triage` | `main.py:128-149` and 474, then `Diagnosis` | `log` as the container writes it, `excerpt` as the agents and the fingerprint get it |
| `SREAgent` | the whole controller: `DiagnosisPipeline` and `Remediation` over one store, one database, one cluster | the variables of both; each action is a step of one of them, or the joint step of both where the pipeline writes |
| `MC...` | instances for TLC | see section 3 |

Composition. `DiagnosisPipeline` extends layers 1 and 2 and the store, and lets
reviewer, executor and checker change a PatchRequest in any way `LifecycleNext`
allows. `Remediation` models executor and checker in full over the same store, and
a pipeline that may count a recurrence at any time (`CountRecurrence`). `SREAgent` puts the two together: the pipeline's
creation is `Remediation`'s proposal, its record and row are the ones the outcome
checker updates, an executor patches the deployment whose pods call the pipeline, and
those pods fail as long as the live revision has no cure. `PipelineInPlace` shows that the
whole implements `DiagnosisPipeline`, thus that executor and checker write nothing the
pipeline's model does not allow: the map from one to the other forgets what
is in records and rows. Failing calls are counted by half, those of the pipeline in `lost`,
those of executor and checker in `faults`; a restart ends all processes at once. `CrashDetection` is the other side
of `Dampening`: `DiagnosisPipeline` lets a pod fail at any time, and
`CrashDetection` says which statuses count as failing. `Diagnosis` is what
happens inside the step `Create` before the PatchRequest is made; there a patch
is any member of `Patches`. `Triage` puts the log in front of it: the excerpt is
what the Analyst reads and what `DiagnosisPipeline` has as an abstract log in its
fingerprints.

A failing call is a disjunct `Fault /\ ...` of the action that makes the call. A
call that changes the server may fail before or after the change. Every module's
operators called *Mutant* in their comment are used by no action: they are
plausible mistakes, substituted one at a time to see that the property meant to
catch them does.

## 3. Runs

`cd` to this directory and run `tlc -config X.cfg MCModule.tla`.

| Run | Instance | What it shows |
|---|---|---|
| `PipelineRace` | two pods of one deployment, three PatchRequest names, threshold 2, deletions, no failing call | `DuplicatesBounded`: the check in layer 3 and the creation are minutes apart, so two pods may open two PatchRequests for one error, but never more than there are pods. `SeenNeverInvented`: `seenCount` never exceeds the increments |
| `PipelineShared` | two single-pod deployments in two namespaces that share a fingerprint; a restart, a failing call, deletions | `TypeOK`: records and rows only of PatchRequests that were made, also when the creation fails. `OneOpenPR`: with one pod, one open PatchRequest per error. `CachedIncidentStored`: the cache names incidents of its own error whose record and row were written |
| `PipelineLive` | one pod that goes on failing, TTL of two ticks, a restart, a failing call | `RecurrenceDiagnosed`: dedup never silences a failure for good |
| `RemediationOne` | one PatchRequest, an acting, an empty and a forbidden patch, window of two ticks, two failing calls, a restart, recurrences counted beside it, `observationStartTime` lost at any poll | `KeepsPromise` (refinement of `PRLifecycle`), `AppliedWasDeployed`, `MemoryMatchesVerdict`, `GivenUpByFaultOnly`, `VerdictInForce`, `ClosedAfterWindow`, `ApprovedCarriedOut`, `AppliedJudged` |
| `WholeAgent` | one pod, two PatchRequest names, a patch that cures and an empty one, TTL of two ticks, window of one, no mishap | `PipelineInPlace` (refinement of `DiagnosisPipeline`), `NeverSilenced` |
| `AgentMishaps` | the same with TTL one and window zero, and one mishap: a failing call of any part, a restart or a deletion | `ExecutorsApart`: the executors of two PatchRequests for one error are never at work at once, unless a call of the pipeline failed |
| `IncidentCalls` | ten successful calls, storing and loading among them, two patches, a long and a short summary | `KeepsLifecycle` (refinement of `IncidentLifecycle`), `ClosedIsJustified` |
| `CrashStates` | one pod, all ways a container ends, statuses and whole runs that outrun the handlers, threshold 3 | `OnlyFailuresTrigger`, `CountsAccumulate` |
| `DiagnosisLoop` | logs of up to five lines out of twelve, the last four fetched, two patches, three attempts, any answers | `SamePatternSameFingerprint`, `SignalsQuoted`, `ProposedWasAccepted`, `Concludes` |
| `RollbackUndone` | two PatchRequests of one deployment | violated: `FailedPatchIsOff` |
| `PipelineAbsorbed` | one pod | violated: `RecurrenceNotAbsorbed` |
| `CrashRecovered` | one pod | violated: `RecoveryClears` |

### Bounds, and why they are enough

* `PRs`: names are never reused, so their number bounds the PatchRequests of a
  run. A deployment with two pods needs three to exceed its bound; everything
  about a single PatchRequest needs one, about two that disturb each other two.
* `DampenCount`, `DampenWindow`, `CacheTTL`, `Window` are in ticks. A tick
  passes at any point between two steps, so a window of one tick already has the
  cases *within*, *at the edge* and *after*. The numbers of the code, 3 events in
  300 s, a TTL of an hour and a window of 600 s, have no other cases.
* `MaxBurst` stops the count of events of one tick where the threshold is
  reached; `MaxSeen` stops `seenCount` where a lost and an invented increment
  can be told apart.
* `MaxFaults`, `MaxRestarts`: each call of a run may be the one that fails, and
  with two faults in `RemediationOne` also a call and its repetition. More faults
  repeat these cases.
* `MaxCalls` = 10 allows two rounds of reopening and a closing, with refused
  calls (which are not counted) between any two.
* `MaxCrashes` bounds a history variable only, and so does `DampenCount` where `backoffs`
  stops: properties ask whether there was a failed run, and whether the back-offs have
  reached the threshold.
* `DiagnosisLoop`: a log of five lines is longer than `TailLines` (four), its lines are
  more than `MaxLines` (two) and longer than `MaxChars` (four words), so each of the three
  limits cuts in some log and not in others. The lines are empty or have a signal, a context or a
  noise word, a context word before a signal, noise before a signal and behind a context word,
  each with and without a timestamp. They are written at one time: the variants
  `SamePatternSameFingerprint` compares them with have all others.
* `WholeAgent` and `AgentMishaps`: two names are a PatchRequest and its successor, the least with
  which executors, timers and counts can meet; a third repeats the second. Mishaps and
  liveness together do not fit into minutes, so `WholeAgent` has no mishap and
  `AgentMishaps` no liveness, a shorter TTL and no window: executors do not wait for either.
  `MaxMishaps` bounds failing calls, restarts and deletions together.

`DiagnosisLoop` stops at a diagnosis and therefore does not check for deadlock;
all other runs do (when `WholeAgent` has nothing left to do, time still passes). Symmetry is used for PatchRequest names and pods in runs of
invariants and of action properties, never for liveness.

## 4. Fairness

* `DiagnosisPipeline!Fairness`: weak fairness of each pod's pipeline and of time.
  Every awaited call is assumed to return. The code does not see to it: the models are
  called without a timeout (`llm_client.py:62`), the handler awaits the whole pipeline
  (`main.py:374`), and a call that hung would hold all further events of its pod. No property
  covers that. The event loop is shared cooperatively, and no step waits for another process. `FailingPods` is an
  assumption about the cluster and the premise of `RecurrenceDiagnosed`: pods go
  on failing.
* `Remediation!Fairness`: weak fairness of each executor and each timer, as kopf
  delivers pending changes and reschedules timers whatever they raise, and of
  time. Neither the reviewer nor the pods are fair. `ApprovedCarriedOut` holds
  only as long as no call fails, which it says: a failing patch call is not
  retried (section 7). `AppliedJudged` holds with failing calls, because the
  timer comes back, and although `observationStartTime` may be lost before each poll.
* `CrashDetection` has no liveness: that a crash loop is diagnosed depends on how many changes
  kopf merges and how long the runs are, and neither is up to this code (section 7).
* `Diagnosis` and `Triage`: weak fairness of the next step; every awaited call returns.
* `SREAgent!AgentFairness`: that of both halves, and two assumptions about the
  surroundings, which `NeverSilenced` needs: a pod that can fail does, and the reviewer
  answers what is Pending, in whichever way. Nothing is assumed about what is proposed or how it is judged.
  `NeverSilenced` is checked without mishaps; it makes no claim where a call of an executor failed, since
  a given-up approval does silence the failure.

## 5. Assumptions about what is not in the repository

* The API server carries out each call atomically. What a call does and the return of its answer
  are one step; an answer that is lost after the server acted is a failing call. A `status` written in a create
  call is dropped, since the CRD has a status subresource; every reader takes a
  missing state for `Pending`.
* kopf runs the handlers of one object one at a time, those of different objects
  and timers concurrently; it calls a field handler for the difference between
  the last state it handled and the current one, and again after a restart if the
  handler had not returned. It compares the whole field: another run of a container is a change
  (`restartCount`, the times in `lastState`) even if it ended like the last; a probe that
  failed and succeeded in between is none. The `started` flag is left out.
* The reviewer answers only Pending requests, and anyone may delete a request in
  any state.
* `kubectl rollout undo` brings the last revision but one to the top as a new
  revision, if there is a `kubectl`: `Kubectl` is TRUE in the runs, although the image the
  Dockerfile builds has none (section 7), and `VerdictInForce` names it as a premise. A changed annotation in the pod template is a new revision.
* Models answer anything that is JSON. One restriction is the constant `Claims`,
  which is FALSE: the answer has no key `validation_passed` of its own (the prompt
  at `llm_client.py:122-124` lists the keys and this is not one of them).
  `ProposedWasAccepted` needs it, see section 7.
* In `SREAgent` a pod that runs a revision without a cure may fail at any time, one that is
  cured does not, and a replaced one may fail until it is gone. The pods of a
  deployment are one process each: the pod that takes a replaced one's place is the
  same process, so the handlers of the two do not overlap there. Two that do are `PipelineRace`.
* The patterns of `log_preprocessor.py` are classes of words. That a pattern
  could match across words (`caused by`) or within one makes no difference to what is kept.
* Fingerprints do not collide, and neither do incident ids, which are four
  hexadecimal digits per day (`main.py:110-113`).

## 6. Proofs

`tlapm DiagnosisPipelineProofs.tla`, and so for `RemediationProofs`, `SREAgentProofs`,
`IncidentProofs`, `DiagnosisProofs`, `CrashDetectionProofs`, `TriageProofs` and `Induction`.
The theorems hold
for all pods, deployments, errors, names and logs, from the assumptions the modules name
(`WorkloadAssumption`, `StoreAssumption`, `CacheAssumption`, `DampeningAssumption`,
`PipelineAssumption`, `RemediationAssumption`, `IncidentAssumption`, `DiagnosisAssumption`,
`AgentAssumption`, `DetectionAssumption`, `ThresholdAssumption`, `LogAssumption`,
`TriageAssumption`), which the runs evaluate. `ThresholdAssumption` is what
`dedup.py:31-40` sets: a main container's back-off is dampened, an init container's failure
is not. The threshold and the window are any.

Every invariant and every action property of the passing runs is stated by a theorem.

**`TypeCorrect`** (`Spec => []TypeOK`). `TypeOK` is not inductive: that a
fingerprint is one and that `records` and `rows` name incidents depends on what
the handler holds at each stage. `TypeInv` adds `LocalInv`: a busy handler has an
error state, and after the creation its `ref` is a name in use. One lemma per
action.

**`OneOpenPRCorrect`** (`Spec => []OneOpenPR`). Nothing in the store says who is
about to create. `UniqueInv` says what the single pod knows between the check and
the act: while it diagnoses no PatchRequest is open, and while it counts its event
there is none but the one it counts on. Most steps are *quiet*: they leave the
store alone and bring no pod into those stages; reviewer, executor and checker
only close or delete; what is left is the pod's own steps. It needs `faults = 0`,
because a failed list call is taken for an empty one.

**`DuplicatesBoundedCorrect`** (`Spec => []DuplicatesBounded`). With several pods
the knowledge is gone, but a count remains: open PatchRequests plus diagnosing
pods are at most the pods. A pod starts to diagnose only when nothing is open or
when the object it counted on is gone, and a creation turns a diagnosing pod into
an open PatchRequest. A deletion would break the bound: several pods may count on
the deleted object and all go on to diagnose while others are open. So the theorem
is about histories without deletions (`used = DOMAIN prs`), and `TargetInv` (the
object a pod counts on belongs to its own deployment) closes the argument.

**`CachedIncidentStoredCorrect`** (`Spec => []CachedIncidentStored`). `StoredInv` is about
every pipeline on its way to the cache: at `save` the one it made has its record, at
`register` also its row, each unless a call failed; from the creation on its `ref` is a
PatchRequest of its own error. A name is never given out again, so a deletion and a later
creation cannot make an entry speak of another incident.

**`SeenNeverInventedCorrect`** (`Spec => []SeenNeverInvented`). The number a handler is
about to write was read earlier, and others wrote meanwhile. `SeenInv` bounds what it
holds: between its two calls a handler's `count` is at least two and at most two more than
the increments carried out so far (the event that opened the request was counted without
one), and the latter only grow. A write that is carried out
although its answer is lost is counted, too.

**`IncidentTypeCorrect`, `ClosedIsJustifiedCorrect`, `KeepsLifecycleCorrect`.**
The Incident object, stored and loaded in between, for all patches, approvers and summaries and any bound on
calls. `RoundInv` ties the state to the fields: an incident past Open has a
diagnosis, and a Resolved or Closed one has its patch, its approver and its time
of resolution. The last theorem is the refinement of `IncidentLifecycle`.

**`DiagnosisTypeCorrect`, `ProposedWasAcceptedCorrect`.**
The agents' loop, for any patches. `AwaitInv` says what is known at each await: which
attempt it is and what the Fixer proposed last.
`PassedInv` adds, where the models' answers carry no verdict of their own (`~Claims`,
the theorem's premise), that `validation_passed` is set only at the end and only after
an accepting dry run.

**Remediation.** All safety properties of the run `RemediationOne` hold for any
deployments, patches and PatchRequests, any window and any number of failing calls,
restarts and deletions. No process checks the state it writes over, so nothing of it
is inductive alone. The invariant `IInv` has five parts, each with a step lemma:

- `TypeInv`: the types, and that a handler at work holds a PatchRequest that was made.
- `ControlInv`: what each process knows of its object while it holds it. A busy
  executor's object is Approved and not ticked off by kopf; a watching timer's is
  Applied and one with a verdict to record is Failed or Closed; past `decide` the window
  is over. This is why two processes that write without a precondition do not
  overwrite each other. `GivenUpByFaultOnlyCorrect` and `ClosedAfterWindowCorrect` are
  parts of it; `StepWrites` reads off it that every write is a step
  `DiagnosisPipeline` allows, and `KeepsPromiseCorrect` that this step or a stutter is
  one of `PRLifecycle`.
- `DeployInv`: an executor past the patch call, and an object past Approved, has a
  deployment whose history has the patch; a rollout, the undo included, never takes a
  revision out of the history. It gives `AppliedWasDeployedCorrect`.
- `MemoryMatchesVerdict` itself: a row is judged by a timer that knows the verdict, and
  a verdict stands as long as its object (`VerdictStands`).
- `RevisionInv`: with a `kubectl` and while nothing failed or restarted, the history of a deployment with one
  PatchRequest is `<<{}>>`, then `<<{}, {n}>>`, then, undone, `<<{n}, {}>>`, and where
  executor and timer stand says which. `VerdictInForceCorrect` follows. That the
  premise is needed is what section 7 shows of a second PatchRequest.

**The whole controller.** `AgentInv` is `TypeInv` and `ControlInv` of `Remediation` and
what `Remediation` takes from a pipeline, `PipelineInv`: a busy handler has an error state
and writes a count between one and `MaxSeen`. Under it each step of `SREAgent` is one of
`Remediation` (`RemediationInPlaceCorrect`) and one of the pipeline
(`PipelineInPlaceCorrect`) or leaves it alone. So all theorems above hold in the whole,
with the pipeline in the place of a `Propose` and a `CountRecurrence` at any time, and with
executor and checker in the place of any change of state. `ExecutorsApartCorrect` needs
both halves: `ControlInv` says that a busy executor's PatchRequest is Approved, thus open,
and `OneOpenPR` that there is one open. The theorem about `OneOpenPR` speaks of another
instance of the pipeline, `Q`; `SameSteps` shows that its steps are those of `P`. All three
theorems hold with any number of failing calls, restarts and deletions. `ExecutorsApart` has one
premise, `lost = 0`: a list call of the pipeline that fails is taken for an empty list
(`dedup.py:146-149`), and then a second PatchRequest is opened beside the first and two executors do
meet. Failing calls of executor and checker (`faults`) do no such harm.

**Induction over data.** A count of layer 1 is a sum over the ages of a window, and an
excerpt is what loops over a log's lines leave. The community modules define both as
folds, that is, as a value of a recursive function that is chosen to exist, and the
library's induction theorems take a predicate, which the provers cannot instantiate.
`Induction` goes around that: a set of numbers, of subsets or of sequences takes the predicate's
place, and that the set is everything follows from the existence of a smallest counterexample
(`WFMin`), which is a fact about sets. From it come the existence of the function a fold
chooses (`FoldExists`, `FoldLeftExists`) and the equations by which it is computed
(`FoldOfAppend`: the fold of `Append(s, x)` is one step from the fold of `s`). The steps are
handed over as functions, not as operators. The loops of `LogPreprocessor` are written as
folds because nothing can be proved about `SelectSeq`; the one left (`Written`, the raw
fallback) needs no fact.

**`DetectionTypeCorrect`, `OnlyFailuresTriggerCorrect`, `CountsAccumulateCorrect`.** The
detection, for any pods, ways to end, window and threshold. `OnlyFailuresTrigger` speaks of the
moment of a trigger; what makes it true is in the statuses and the counts before it.
`StatusesPlausible` says what the kubelet can have written, and a handler seen, without a
failed run: no bad end, no bad `lastState`, no back-off of an init container. What is left is the
back-off of a main container whose runs complete, which the code counts like any other:
kopf may merge the runs between two of them and deliver nothing but back-offs.
`WindowKnows` says that each is counted at most once: the events in the
window and the back-off the handler has not seen yet are no more than the back-offs there were. It is
kept because an event adds one to the sum over a window (`EventIsOne`) and time only takes from
it (`WindowsAge`); that a back-off once seen is not counted again needs `Changed`. So
without a failed run the threshold is reached by as many back-offs.
`CountsAccumulate` is an action property: from one failed run to the next every status of
the main container has the error state that the window is about, so an event is added to
the window (`SameStateAdds`, by the sum of a pointwise larger window) and nothing starts it over.

**`SamePatternSameFingerprintCorrect`.** For a log and a tail of any length. The lines that
are fetched are a log themselves (`LastLinesType`), the tail of a log written at other times
is the tail written at other times (`RestampedLines`), and where the whole log is fetched, with
room for one line more, so is the log with a repeated line (`RepeatedAlike`).
The kept lines are a fold of `KeepLine`, whose turn does not look at the time (`KeptOfAlike`,
by induction over the log: two
logs whose lines strip to the same text keep the same) and is idempotent (`KeepTwice`), so that a
line repeated in place changes nothing there nor, since the fold goes on from the same
lines (`KeptGoesOn`), behind it (`KeptOfRepeated`). Both premises, that something is kept
and that the repeated log fits into the tail, are needed: section 7.

**`SignalsQuotedCorrect`.** For what is fetched of any log, and any two budgets. By induction over it the
signal lines in front of the excerpt differ from the log's own by consecutive
repetitions at most (`SignalsStillKept`), so if those fit, they do; a join begins with the
join of its first lines (`JoinedBegins`), and both cuts come behind them (`ExcerptBegins`).

**`TriageDiagnosisCorrect`.** What is proved of the agents by themselves holds with the log in front of them.

Only model-checked: `RecurrenceDiagnosed`, `NeverSilenced`,
`ApprovedCarriedOut`, `AppliedJudged` and `Concludes`. They are temporal and
rest on fairness, thus on ENABLED, which the prover does not handle.

## 7. Where the code and what is said of it disagree

Shown by a run:

* `RollbackUndone`, `outcome_checker.py:76`. A rollback goes "to the previous
  known-good deployment revision"
  (`docs/architecture/advanced_features_architecture.md:50`). `rollout undo` names
  no revision. With two Applied PatchRequests of one deployment, the undo for the
  first takes off the second's patch and the undo for the second brings it back.
* `PipelineAbsorbed`, `outcome_checker.py:166`. The rollback is to "clear fingerprint
  cache so new crash generates new PR" (`:83`). It reads the fingerprint from
  `llmDiagnosis.error_fingerprint`, which no diagnosis contains (`llm_client.py:209-220`,
  `main.py:563-576`), so nothing is cleared, and the crash that comes back after the
  rollback is counted on the Failed PatchRequest until the TTL runs out. The same holds
  for a Closed one, against `main.py:491-494`, and for an Applied or Rejected one,
  against `dedup.py:113`: only a deleted PatchRequest gets its entry purged.
* `CrashRecovered`, `main.py:352`. Counters are cleared "when a pod recovers"
  (`dedup.py:80`). A restarted container keeps `lastState`, so it is reported as
  failing while it is ready.

Met while modelling, and visible in the definitions:

* The controller's image is `python:3.11` with the requirements and `controller/`
  (`Dockerfile:1-21`): it has no `kubectl`. There the undo (`outcome_checker.py:76-81`) always
  fails, its result is not looked at, and the PatchRequest is Failed with its patch on. In the model that
  is `Kubectl = FALSE` (`RolloutUndo`); with it one PatchRequest is enough to violate
  `FailedPatchIsOff`. The runs have a `kubectl`, so what they find would remain if one were installed.
* A repeated patch after a restart (`main.py:763`), a rollback whose status call
  fails (`outcome_checker.py:87`) and a rollback `kubectl` refused (`:81`, its
  result is not looked at) also end with a bad patch on; see `PatchDeployment`,
  `Verdict`, `RolloutUndo`. `VerdictInForce` says when the verdict can be trusted.
* A patch that another PatchRequest's rollback has removed is found healthy and
  remembered as one that worked, against `db.py:162-163` (`CheckHealth`,
  `MarkOutcome`).
* Pods of the old revision count as crashes "again after patch"
  (`outcome_checker.py:196`; `Crashing`).
* An approval whose patch call fails is lost: the exception is logged, the handler
  returns, kopf does not call it again (`main.py:792`; `PatchDeployment`). Layer 3
  goes on counting recurrences on it.
* The applied patch is not written back when the approval comes before the row
  (`db.py:141`; `SaveAppliedPatch`).
* One replica does not prevent duplicate diagnoses
  (`k8s/controller-deployment.yaml:14`): two pods suffice (`DuplicatesBounded`).
* A pod in another namespace purges the fingerprint of a live PatchRequest
  (`main.py:488-495`; `NotCounted`), and overlapping increments are lost
  (`dedup.py:173`; `GetCount`, `PatchCount`).
* A single crash is more than three status changes, so it is diagnosed, against
  "Eliminates transient blips" (`README.md:231`); an init container that succeeded
  on a retry is diagnosed (`log_preprocessor.py:177`). A loop of runs that exit with 0 is diagnosed or
  not depending on what kopf merges: each back-off counts, each status in between clears the count
  (`log_preprocessor.py:126-145`, `main.py:352`; `OnlyFailuresTrigger`).
* A crash loop may go undiagnosed: where the runs last longer than the window of 300 s and
  the back-off is at its cap of 300 s, there are two changes in any window, the end of a run and the
  back-off after it, and the threshold is three. The changes of the shorter back-offs before
  trigger, but not if the agent was restarted since (`dedup.py:32-33`).
* Reopening an incident keeps `worked` and `approved_by`, so the second patch can
  close on the verdict over the first (`states.py:106-112`); the transition to Open
  in `states.py:6` does not exist.
* "Same crash pattern → same fingerprint" (`log_preprocessor.py:103`) holds for times and
  consecutive repetitions (`SamePatternSameFingerprint`) unless all lines are noise:
  then the raw lines are taken, timestamps included, and each such crash is new (`:82`; `Cleaned`).
  It does not hold for repetitions in a log of more than 200 lines: only the last 200 are fetched
  (`main.py:131-145`), and a line repeated among them pushes an earlier one out (`LastLines`).
  `docs/rag_semantic_cache.md:8-10` errs on the other side: a different timestamp or a signal line in
  another place among context lines gives the same hash, since the one is stripped and the others are
  moved; so does `docs/benchmark_results_updated.md:85-86` on timestamps.
* The pattern for an optional level eats the first word after a timestamp whatever it
  is (`log_preprocessor.py:31`; `Strip`): with it goes the signal in `ERROR` or `FATAL`, and a
  stamped line of one word vanishes. A line with a noise word is dropped even if
  it has a signal (`:71`, "pure noise" at `:34`). What is truncated away are the last signals, not the first, so
  of a long log the error nearest to the crash may be missing (`:90`).
* Without a log the excerpt is the same for every deployment (`log_preprocessor.py:59`), so
  two deployments that cannot pull an image share a fingerprint, and the second failure
  is counted on the first one's PatchRequest as long as that is in the same namespace.
* `from_dict` drops `resolution_notes` and `mttd_seconds`, which `to_dict` stores
  (`incident.py:127-153`; `from_dict`). Nothing reads them.
* The benchmark takes two revisions in the rollout history for an executed undo
  (`scripts/run_benchmarks.py`, phase 5), which the bad patch alone brings about, and
  reads `seenCount` from `status`, where nothing writes it.
* A JSON list as the Fixer's answer raises outside the `try`
  (`llm_client.py:192`; `Fixes`), and an answer with `validation_passed` of its own
  is proposed though refused (`llm_client.py:219`, constant `Claims`).

## 8. Not modelled

* `catch_up_scan`: its decorator is commented out (`main.py:300`), so nothing calls it.
* A PatchRequest that lost both `observationStartTime` and `appliedAt`
  (`outcome_checker.py:185-187`: it is skipped and never judged). That the first is lost and the second is
  not is in `docs/rca/RCA-2026-0809-sre-agent-patch-loop.md:109-130` and modelled (`Poll`, `Restamp`).
* The ranking and the threshold of the similarity search and the embedding: numbers.
* Pods without an owner and namespaces that are not watched: the handlers return at once.
* Dashboard: every request reads one listing, sorts or counts it and keeps nothing. A
  property of it would only repeat the sort key or the sums.
* Telemetry and webhook: counters, spans and a notification that nothing reads. The
  Ollama shim: nothing imports it. Start-up (`main.py:1-108`): configuration.
* Benchmarks (`scripts/run_benchmarks.py`, a quarter of the Python lines): a script that drives a test cluster from outside
  and prints tables. It is part of no deployment and its results depend on wall-clock time.
* Collisions of incident ids (`main.py:110-113`): probabilities. Two within a deployment are one
  PatchRequest name, so the creation fails, and a failing creation is modelled. Two in different
  deployments have different PatchRequests, but the second's IncidentRecord is skipped as existing
  (`main.py:280`) and its row overwrites the first's (`db.py:77`); that is not.
* Manifests and demo workloads: configuration.

## 9. Plan

Done: the pipeline with its three layers and its proofs; remediation and its proofs; the incident
object with its stored form; detection and its proofs; the agents' loop with the log it starts from, and their proofs;
the composition.

Next: `NeverSilenced` with mishaps, on an instance small enough for TLC; incident ids that
collide across deployments; a timeout of the models' calls, should the code get one.
