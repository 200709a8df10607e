------------------------------ MODULE SREAgent -------------------------------
(***************************************************************************)
(* The controller as a whole: DiagnosisPipeline and Remediation over one   *)
(* set of PatchRequests, one database and one cluster.  Where Diagnosis-   *)
(* Pipeline lets PatchRequests change as they may, executor and outcome    *)
(* checker change them here; where Remediation lets a PatchRequest appear  *)
(* at any time, the pipeline makes it here; and the pods fail as long as   *)
(* their deployment runs nothing that cures them.  A restart ends all of   *)
(* it at once; the calls that fail are counted by half.                    *)
(***************************************************************************)
EXTENDS Remediation

CONSTANTS
  Logs, CacheTTL,                                                \* layer 2
  ImmediateStates, NoError, DampenCount, DampenWindow, MaxBurst, \* layer 1
  Cures,     \* the patches under which the failure is gone
  MaxMishaps \* bound: failing calls, restarts and deletions together

ASSUME AgentAssumption ==
  /\ PRs = 1 .. Cardinality(PRs)      \* incident ids are given out in turn
  /\ Cures \subseteq Actionable
  /\ MaxMishaps \in Nat
  /\ CacheTTL \in Nat \ {0}           \* and the assumptions of the pipeline's layers
  /\ ImmediateStates \subseteq ErrorStates /\ NoError \notin ErrorStates
  /\ DampenCount \in Nat /\ DampenWindow \in Nat
  /\ MaxBurst \in Nat /\ MaxBurst >= DampenCount

VARIABLES
  window, cache,              \* the memory of layers 1 and 2
  pc, err, fp, ref, count,    \* the pipelines' locals
  counted,                    \* history: increments carried out
  lost                        \* calls of the pipelines that failed so far

pipelineVars == <<window, cache, pc, err, fp, ref, count, counted, lost>>
agentVars == <<vars, pipelineVars>>

P == INSTANCE DiagnosisPipeline
       WITH records <- DOMAIN records, rows <- DOMAIN rows,
            faults <- lost, MaxFaults <- MaxMishaps

AgentInit == Init /\ P!Init

-----------------------------------------------------------------------------
(* The cluster *)

\* Some patch that the live revision contains removes the cause.
Cured(d) == \E n \in Live(d) : body[n].patch \in Cures

\* A pod of the live revision fails unless the revision is cured; a pod that
\* was replaced may fail until it is gone.
Fails(d) == ~Cured(d) \/ crashing[d].replaced

PodsTurn(d) ==
  /\ PodsChange(d)
  /\ crashing'[d].new => crashing[d].new \/ ~Cured(d)
  /\ UNCHANGED pipelineVars

-----------------------------------------------------------------------------
(* Steps of the pipeline that Remediation does not notice *)

StayRemediation ==
  UNCHANGED <<body, handlers, observed, history, crashing, memory, faults>>

\* Bound: without a name left the event could lead to nothing new.
PodFails(p) ==
  /\ used # PRs
  /\ Fails(DeploymentOf[p])
  /\ StayRemediation
  /\ \E e \in ErrorStates : P!PodFails(p, e)

PodRecovers(p) ==
  /\ ~crashing[DeploymentOf[p]].new
  /\ StayRemediation
  /\ P!PodRecovers(p)

Dedup(p) ==
  /\ StayRemediation
  /\ \/ \E l \in Logs : P!FetchContext(p, l)
     \/ P!GetCount(p)
     \/ P!PatchCount(p)
     \/ P!ListOpen(p)
     \/ P!Register(p)
     \/ pc[p] # "record" /\ P!Abort(p)

-----------------------------------------------------------------------------
(* Steps of Remediation that the pipeline meets in the store only *)

Answer(n) == Reviewer(n) /\ UNCHANGED pipelineVars

Remedy(n) == (Executor(n) \/ OutcomeChecker(n)) /\ UNCHANGED pipelineVars

-----------------------------------------------------------------------------
(* Steps of both *)

\* The pipeline makes a PatchRequest; the writer of Remediation is its rest,
\* so both end where the pipeline does.
Create(p) ==
  \E n \in PRs, patch \in Patches :
    /\ n = Cardinality(used) + 1
    /\ Propose(n, DeploymentOf[p], err[p], patch)
    /\ P!Create(p, n, patch)
    /\ writer'[n] = "record" <=> pc'[p] = "record"

Store(p) ==
  /\ ref[p] \in used
  /\ \/ /\ WriteRecord(ref[p])
        /\ P!CreateIncidentRecord(p) \/ P!Abort(p)
        /\ writer'[ref[p]] = "save" <=> pc'[p] = "save"
     \/ SaveIncident(ref[p]) /\ P!SaveIncident(p)

TimePasses == Tick /\ P!Tick

RestartAll == Restart /\ P!Restart

Pipeline(p) == Dedup(p) \/ Create(p) \/ Store(p)

Mishaps == faults + lost + restarts + Cardinality(used \ DOMAIN prs)

AgentNext ==
  /\ \/ \E p \in Pods : PodFails(p) \/ PodRecovers(p) \/ Pipeline(p)
     \/ \E n \in PRs : Answer(n) \/ Remedy(n)
     \/ \E d \in Deployments : PodsTurn(d)
     \/ TimePasses
     \/ RestartAll
  /\ Mishaps' <= MaxMishaps

AgentSpec == AgentInit /\ [][AgentNext]_agentVars

\* The fairness of both halves, and of two that are not part of the program: a
\* pod that can fail does so, and the reviewer answers.
AgentFairness ==
  /\ \A p \in Pods : WF_agentVars(Pipeline(p)) /\ WF_agentVars(PodFails(p))
  /\ \A n \in PRs : /\ WF_agentVars(Executor(n) /\ UNCHANGED pipelineVars)
                    /\ WF_agentVars(OutcomeChecker(n) /\ UNCHANGED pipelineVars)
                    /\ WF_agentVars(Review(n) /\ Answer(n))
  /\ WF_agentVars(TimePasses)

AgentLiveSpec == AgentSpec /\ AgentFairness

-----------------------------------------------------------------------------
(* Properties *)

\* What is shown of the pipeline holds in the whole controller: with the real
\* executor and checker (main.py:683-786, outcome_checker.py:151-203) of all
\* PatchRequests where DiagnosisPipeline has any change of their state, each
\* step is one of its steps or none.
PipelineInPlace == P!Spec

\* kopf runs the executors of different PatchRequests beside one another, and
\* each merges its patch into what it finds (main.py:683-786).  The check in
\* layer 3 keeps two for one error of a single-pod deployment from being at
\* work at once (dedup.py:142), through restarts, deletions and failing calls
\* of executors and checkers.  Only a call of the pipeline that failed may let
\* a second one pass: a failed list counts as "none" (dedup.py:146-149).
ExecutorsApart ==
  lost = 0 =>
    \A m, n \in DOMAIN prs :
      /\ executor[m] # "idle" /\ executor[n] # "idle"
      /\ prs[m].dep = prs[n].dep /\ prs[m].err = prs[n].err
      /\ P!SinglePod(prs[n].dep)
      => m = n

\* A failure is worked on until it is gone: whatever the reviewer answers and
\* whatever is proposed, judged and rolled back, the deployment is again and
\* again cured or gets another PatchRequest, until no name is left
\* (dedup.py:86-145, outcome_checker.py:67-136, README.md:120-148).  A failing
\* call of an executor may silence it: the approval is given up
\* (GivenUpByFaultOnly) and its PatchRequest stays open.  The run that checks
\* this, WholeAgent, has neither failing calls nor restarts nor deletions.
NeverSilenced == []<>(used = PRs \/ faults > 0 \/ \A d \in Deployments : Cured(d))
=============================================================================
