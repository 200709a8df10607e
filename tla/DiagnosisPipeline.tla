-------------------------- MODULE DiagnosisPipeline --------------------------
(***************************************************************************)
(* controller/main.py from a pod event to a registered PatchRequest.  kopf *)
(* runs the handlers of one pod one at a time and those of different pods  *)
(* concurrently on one event loop, so a pod is a process whose steps run   *)
(* from one await to the next.  A step that awaits a call takes effect     *)
(* when the call does.                                                     *)
(***************************************************************************)
EXTENDS Dampening, FingerprintCache

CONSTANTS
  MaxFaults,    \* bound: calls that fail
  MaxRestarts,  \* bound: restarts of the controller
  MaxSeen       \* bound: where seenCount and the history of it stop

ASSUME PipelineAssumption ==
  MaxFaults \in Nat /\ MaxRestarts \in Nat /\ MaxSeen \in Nat \ {0}

NoFingerprint == <<NoError, NoError>>

VARIABLES
  pc,        \* the await at which the pod's handler stands
  err,       \* its error_state
  fp,        \* its fingerprint
  ref,       \* the PatchRequest it found (existing_pr) or made (pr_name)
  count,     \* the seenCount it is about to write
  records,   \* the IncidentRecord objects, by the name of their PatchRequest
  rows,      \* the rows of the incidents table, likewise
  counted,   \* history: the increments the API server carried out
  faults,    \* calls that failed so far
  restarts   \* restarts so far

local == <<pc, err, fp, ref, count>>
budget == <<faults, restarts>>
vars == <<storeVars, window, cache, local, records, rows, counted, budget>>

Stages == {"idle", "fetch", "l2get", "l2patch", "l3list", "l3get", "l3patch",
           "diagnose", "record", "save", "register"}

TypeOK ==
  /\ StoreTypeOK
  /\ WindowTypeOK
  /\ CacheTypeOK
  /\ pc \in [Pods -> Stages]
  /\ err \in [Pods -> ErrorStates \cup {NoError}]
  /\ fp \in [Pods -> Fingerprints \cup {NoFingerprint}]
  /\ ref \in [Pods -> PRs \cup {NoPR}]
  /\ count \in [Pods -> Nat]
  /\ records \subseteq used
  /\ rows \subseteq used
  /\ counted \in [PRs -> Nat]
  /\ faults \in Nat
  /\ restarts \in Nat

Init ==
  /\ StoreInit
  /\ WindowInit
  /\ CacheInit
  /\ pc = [p \in Pods |-> "idle"]
  /\ err = [p \in Pods |-> NoError]
  /\ fp = [p \in Pods |-> NoFingerprint]
  /\ ref = [p \in Pods |-> NoPR]
  /\ count = [p \in Pods |-> 0]
  /\ records = {}
  /\ rows = {}
  /\ counted = [n \in PRs |-> 0]
  /\ faults = 0
  /\ restarts = 0

-----------------------------------------------------------------------------
(* Control flow *)

At(p, stages) == pc[p] \in stages

GoTo(p, stage) == pc' = [pc EXCEPT ![p] = stage]

\* The handler returns and its locals die.
Finish(p) ==
  /\ pc' = [pc EXCEPT ![p] = "idle"]
  /\ err' = [err EXCEPT ![p] = NoError]
  /\ fp' = [fp EXCEPT ![p] = NoFingerprint]
  /\ ref' = [ref EXCEPT ![p] = NoPR]
  /\ count' = [count EXCEPT ![p] = 0]

Fault ==
  /\ faults < MaxFaults
  /\ faults' = faults + 1
  /\ UNCHANGED restarts

Capped(k) == IF k > MaxSeen THEN MaxSeen ELSE k

Namespace(p) == NamespaceOf[DeploymentOf[p]]

-----------------------------------------------------------------------------
(* on_pod_status_change and on_pod_init_status_change *)

PodFails(p, e) ==
  /\ At(p, {"idle"})
  /\ \/ Triggers(p, e) /\ GoTo(p, "fetch") /\ err' = [err EXCEPT ![p] = e]
     \/ Dampens(p, e) /\ UNCHANGED <<pc, err>>
  /\ UNCHANGED <<storeVars, cache, fp, ref, count, records, rows, counted, budget>>

PodRecovers(p) ==
  /\ At(p, {"idle"})
  /\ ClearDampening(p)
  /\ UNCHANGED <<storeVars, cache, local, records, rows, counted, budget>>

-----------------------------------------------------------------------------
(* _run_diagnosis_pipeline *)

\* Logs and events come back or are replaced by a placeholder.
FetchContext(p, l) ==
  LET f == Fingerprint(err[p], l)
  IN /\ At(p, {"fetch"})
     /\ CheckFingerprintCache(f)
     /\ fp' = [fp EXCEPT ![p] = f]
     /\ GoTo(p, IF CacheHit(f) THEN "l2get" ELSE "l3list")
     /\ ref' = [ref EXCEPT ![p] = IF CacheHit(f) THEN cache[f].pr ELSE NoPR]
     /\ UNCHANGED <<storeVars, window, err, count, records, rows, counted, budget>>

\* increment_seen_count returned False: from layer 2 the cached entry is
\* purged and layer 3 is asked; from layer 3 the incident is diagnosed.
NotCounted(p) ==
  /\ IF At(p, {"l2get", "l2patch"})
     THEN GoTo(p, "l3list") /\ ClearFingerprint(fp[p])
     ELSE GoTo(p, "diagnose") /\ UNCHANGED cache
  /\ ref' = [ref EXCEPT ![p] = NoPR]
  /\ count' = [count EXCEPT ![p] = 0]
  /\ UNCHANGED <<err, fp>>

\* increment_seen_count, the get
GetCount(p) ==
  /\ At(p, {"l2get", "l3get"})
  /\ \/ /\ Exists(ref[p], Namespace(p))
        /\ count' = [count EXCEPT ![p] = Capped(prs[ref[p]].seen + 1)]
        /\ GoTo(p, IF At(p, {"l2get"}) THEN "l2patch" ELSE "l3patch")
        /\ UNCHANGED <<cache, err, fp, ref, budget>>
     \/ ~Exists(ref[p], Namespace(p)) /\ NotCounted(p) /\ UNCHANGED budget
     \/ Fault /\ NotCounted(p)
  /\ UNCHANGED <<storeVars, window, records, rows, counted>>

Bump(p) ==
  /\ Exists(ref[p], Namespace(p))
  /\ SetSeen(ref[p], count[p])
  /\ counted' = [counted EXCEPT ![ref[p]] = Capped(@ + 1)]
  /\ UNCHANGED used

\* increment_seen_count, the patch.  A call may fail before it reaches the
\* server or after the server carried it out.
PatchCount(p) ==
  /\ At(p, {"l2patch", "l3patch"})
  /\ \/ Bump(p) /\ Finish(p) /\ UNCHANGED <<cache, budget>>
     \/ /\ ~Exists(ref[p], Namespace(p))
        /\ NotCounted(p)
        /\ UNCHANGED <<storeVars, counted, budget>>
     \/ Fault /\ NotCounted(p) /\ UNCHANGED <<storeVars, counted>>
     \/ Fault /\ NotCounted(p) /\ Bump(p)
  /\ UNCHANGED <<window, records, rows>>

\* Mutant: an approved PatchRequest no longer counts as active.
PendingFor(p) == {n \in OpenFor(DeploymentOf[p], err[p]) : prs[n].state = "Pending"}

ActiveFor(p) == OpenFor(DeploymentOf[p], err[p])

\* has_open_patchrequest: a failed list counts as "none".
ListOpen(p) ==
  /\ At(p, {"l3list"})
  /\ \/ /\ GoTo(p, "l3get")
        /\ \E n \in ActiveFor(p) : ref' = [ref EXCEPT ![p] = n]
        /\ UNCHANGED budget
     \/ ActiveFor(p) = {} /\ GoTo(p, "diagnose") /\ UNCHANGED <<ref, budget>>
     \/ Fault /\ GoTo(p, "diagnose") /\ UNCHANGED ref
  /\ UNCHANGED <<storeVars, window, cache, err, fp, count, records, rows, counted>>

\* Mutant: a creation that fails is logged, like that of the record, and the
\* pipeline goes on without a PatchRequest.
CreateOrGoOn(p, n, patch) ==
  /\ At(p, {"diagnose"})
  /\ \/ /\ AddPR(n, NewPatchRequest(DeploymentOf[p], err[p], patch))
        /\ ref' = [ref EXCEPT ![p] = n]
        /\ UNCHANGED budget
     \/ Fault /\ UNCHANGED <<storeVars, ref>>
  /\ GoTo(p, "record")
  /\ UNCHANGED <<window, cache, err, fp, count, records, rows, counted>>

\* The retrieval or the agents answer and the PatchRequest is created, under
\* a name made from the deployment and a new incident id.
Create(p, n, patch) ==
  /\ At(p, {"diagnose"})
  /\ AddPR(n, NewPatchRequest(DeploymentOf[p], err[p], patch))
  /\ \/ GoTo(p, "record") /\ ref' = [ref EXCEPT ![p] = n]
        /\ UNCHANGED <<err, fp, count, budget>>
     \/ Fault /\ Finish(p)          \* created, but the answer is lost
  /\ UNCHANGED <<window, cache, records, rows, counted>>

\* An exception no inner handler catches ends the pipeline: reading the
\* deployment, the agents' answers, creating either object.
Abort(p) ==
  /\ At(p, {"fetch", "diagnose", "record"})
  /\ Fault
  /\ Finish(p)
  /\ UNCHANGED <<storeVars, window, cache, records, rows, counted>>

\* Mutant: the row is never written, the fingerprint is registered all the same.
CreateIncidentRecordOnly(p) ==
  /\ At(p, {"record"})
  /\ records' = records \cup {ref[p]}
  /\ GoTo(p, "register")
  /\ UNCHANGED <<storeVars, window, cache, err, fp, ref, count, rows, counted, budget>>

\* _create_incident_record_crd logs an ApiException and goes on.
CreateIncidentRecord(p) ==
  /\ At(p, {"record"})
  /\ \/ records' = records \cup {ref[p]} /\ UNCHANGED budget
     \/ Fault /\ UNCHANGED records
  /\ GoTo(p, "save")
  /\ UNCHANGED <<storeVars, window, cache, err, fp, ref, count, rows, counted>>

\* save_incident logs every error and skips the write without a pool.
SaveIncident(p) ==
  /\ At(p, {"save"})
  /\ \/ rows' = rows \cup {ref[p]} /\ UNCHANGED budget
     \/ Fault /\ UNCHANGED rows
  /\ GoTo(p, "register")
  /\ UNCHANGED <<storeVars, window, cache, err, fp, ref, count, records, counted>>

Register(p) ==
  /\ At(p, {"register"})
  /\ RegisterFingerprint(fp[p], ref[p])
  /\ Finish(p)
  /\ UNCHANGED <<storeVars, window, records, rows, counted, budget>>

-----------------------------------------------------------------------------
(* The surroundings *)

Tick ==
  /\ AgeWindows
  /\ AgeCache
  /\ UNCHANGED <<storeVars, local, records, rows, counted, budget>>

\* kopf delivers the events of unfinished handlers again: PodFails.
Restart ==
  /\ restarts < MaxRestarts
  /\ restarts' = restarts + 1
  /\ ForgetWindows
  /\ ForgetCache
  /\ pc' = [p \in Pods |-> "idle"]
  /\ err' = [p \in Pods |-> NoError]
  /\ fp' = [p \in Pods |-> NoFingerprint]
  /\ ref' = [p \in Pods |-> NoPR]
  /\ count' = [p \in Pods |-> 0]
  /\ UNCHANGED <<storeVars, records, rows, counted, faults>>

\* Reviewer, executor and outcome checker move the PatchRequests meanwhile.
Lifecycle ==
  /\ LifecycleNext
  /\ UNCHANGED <<window, cache, local, records, rows, counted, budget>>

Pipeline(p) ==
  \/ \E l \in Logs : FetchContext(p, l)
  \/ GetCount(p)
  \/ PatchCount(p)
  \/ ListOpen(p)
  \/ \E n \in PRs, patch \in Patches : Create(p, n, patch)
  \/ Abort(p)
  \/ CreateIncidentRecord(p)
  \/ SaveIncident(p)
  \/ Register(p)

PodEvent(p) == PodRecovers(p) \/ \E e \in ErrorStates : PodFails(p, e)

Next ==
  \/ \E p \in Pods : PodEvent(p) \/ Pipeline(p)
  \/ Lifecycle
  \/ Tick
  \/ Restart

Spec == Init /\ [][Next]_vars

-----------------------------------------------------------------------------
(* Scheduling: every awaited call returns sooner or later and time passes. *)
(* The last conjunct is about the cluster: the pods go on failing.         *)

Fairness ==
  /\ \A p \in Pods : WF_vars(Pipeline(p))
  /\ WF_vars(Tick)

LiveSpec == Spec /\ Fairness

FailingPods == \A p \in Pods : WF_vars(\E e \in ErrorStates : PodFails(p, e))

RecurringSpec == LiveSpec /\ FailingPods

-----------------------------------------------------------------------------
(* Safety *)

Diagnosing(d, e) == {p \in PodsOf(d) : pc[p] = "diagnose" /\ err[p] = e}

\* Layer 3 is a check followed by an act, with the agents' minutes between
\* them, so the pods of one deployment may each open a PatchRequest for one
\* error.  As long as no call fails and nobody deletes one, they are never
\* more than the pods of the deployment (main.py, the pipeline from the
\* layer 3 check to the creation).
DuplicatesBounded ==
  faults = 0 /\ used = DOMAIN prs =>
    \A d \in Deployments, e \in ErrorStates :
      Cardinality(OpenFor(d, e)) + Cardinality(Diagnosing(d, e))
        <= Cardinality(PodsOf(d))

\* A deployment with a single pod has one open PatchRequest per error at
\* most, also when PatchRequests are deleted under the pipeline's feet and
\* when restarts wipe layers 1 and 2 (dedup.py, has_open_patchrequest:
\* "survives controller restarts").
SinglePod(d) == \A p, q \in PodsOf(d) : p = q

OneOpenPR ==
  faults = 0 =>
    \A d \in Deployments, e \in ErrorStates :
      SinglePod(d) => \A m, n \in OpenFor(d, e) : m = n

\* increment_seen_count reads the count in one call and writes it in another:
\* it may lose an increment to another pipeline, but it never invents one,
\* not even when a call fails after the server carried it out.
SeenNeverInvented ==
  \A n \in DOMAIN prs :
    /\ prs[n].seen <= Capped(counted[n] + 1)
    /\ counted[n] > 0 => prs[n].seen >= Capped(2)

\* The fingerprint is registered last: what the cache points at is an
\* incident of the same error whose record and row were written, unless a
\* call failed (main.py, the order of the pipeline's last four calls).
CachedIncidentStored ==
  \A f \in Fingerprints :
    LET n == cache[f].pr
    IN n # NoPR =>
         /\ n \in used
         /\ n \in DOMAIN prs => prs[n].err = f[1]
         /\ faults = 0 => n \in records \cap rows

-----------------------------------------------------------------------------
(* Liveness *)

\* Dedup never silences a failure for good: while pods go on failing, there
\* is again and again an open PatchRequest, whatever became of earlier ones
\* (dedup.py, check_fingerprint_cache: a hit does not renew the entry, so
\* the TTL runs out under a failure that recurs within it).
RecurrenceDiagnosed ==
  []<>(used = PRs \/ \E d \in Deployments, e \in ErrorStates : OpenFor(d, e) # {})

-----------------------------------------------------------------------------
(* What the repository says and the code does not do *)

\* outcome_checker.py:83, "Clear fingerprint cache so new crash generates new
\* PR": once a patch was rolled back, the crash that comes back is diagnosed
\* anew and not counted on the PatchRequest that failed.  The rollback finds
\* no fingerprint to clear (see PatchRequests!Remediates), and the increment
\* succeeds on a failed PatchRequest as long as it exists.
RecurrenceNotAbsorbed ==
  [][\A p \in Pods :
       pc[p] = "l2get" /\ pc'[p] = "l2patch" =>
         prs[ref[p]].state # "Failed"]_vars
=============================================================================
