---------------------------- MODULE PatchRequests ----------------------------
(***************************************************************************)
(* The PatchRequest objects in the Kubernetes API server: the state that   *)
(* the diagnosis pipeline, the executor, the outcome checker and the human *)
(* reviewer share.  Every reader and writer reaches it through API calls;  *)
(* each call is atomic at the server, nothing is atomic across two calls.  *)
(***************************************************************************)
EXTENDS Workloads, Naturals, FiniteSets

CONSTANTS
  PRs,          \* the PatchRequest names that may ever be made (a bound)
  NoPR,         \* "no PatchRequest"
  Patches       \* the proposedPatch values, the empty patch included

ASSUME StoreAssumption == NoPR \notin PRs /\ IsFiniteSet(PRs)

VARIABLES
  prs,          \* the objects that exist, by name
  used          \* the names ever given out: incident ids are not reused

storeVars == <<prs, used>>

ApprovalStates ==
  {"Pending", "Approved", "Applied", "Rejected", "Closed", "Failed"}
\* Mutant: whatever has not been closed is open.
UnclosedStates == ApprovalStates \ {"Closed"}

OpenStates == {"Pending", "Approved"}

PatchRequest ==
  [dep : Deployments, err : ErrorStates, seen : Nat, state : ApprovalStates,
   patch : Patches]

StoreTypeOK ==
  /\ used \subseteq PRs
  /\ DOMAIN prs \subseteq used
  /\ prs \in [DOMAIN prs -> PatchRequest]

StoreInit ==
  /\ prs = [n \in {} |-> {}]
  /\ used = {}

-----------------------------------------------------------------------------
(* Queries *)

\* A name resolves only in the namespace its object lives in.
Exists(n, ns) == n \in DOMAIN prs /\ NamespaceOf[prs[n].dep] = ns

\* The list call filters on the deployment's label, the caller on the rest.
OpenFor(d, e) ==
  {n \in DOMAIN prs :
     prs[n].dep = d /\ prs[n].err = e /\ prs[n].state \in OpenStates}

-----------------------------------------------------------------------------
(* Writes *)

\* Mutant: the event that opened the request is not counted.
UnseenPatchRequest(d, e, patch) ==
  [dep |-> d, err |-> e, seen |-> 0, state |-> "Pending", patch |-> patch]

\* A status written at creation is dropped: the CRD has a status
\* subresource, and every reader takes a missing state for Pending.
NewPatchRequest(d, e, patch) ==
  [dep |-> d, err |-> e, seen |-> 1, state |-> "Pending", patch |-> patch]

AddPR(n, pr) ==
  /\ n \notin used
  /\ used' = used \cup {n}
  /\ prs' = [m \in DOMAIN prs \cup {n} |-> IF m = n THEN pr ELSE prs[m]]

SetState(n, s) == prs' = [prs EXCEPT ![n].state = s]

SetSeen(n, k) == prs' = [prs EXCEPT ![n].seen = k]

\* The reviewer answers a Pending request with kubectl.
Review(n) ==
  /\ n \in DOMAIN prs
  /\ prs[n].state = "Pending"
  /\ \E s \in {"Approved", "Rejected"} : SetState(n, s)
  /\ UNCHANGED used

\* Anyone with access may delete the object in any state.
DeletePR(n) ==
  /\ n \in DOMAIN prs
  /\ prs' = [m \in DOMAIN prs \ {n} |-> prs[m]]
  /\ UNCHANGED used

-----------------------------------------------------------------------------
(* What the executor and the outcome checker may do to an object, in terms *)
(* of its state alone.  Remediation.tla models them in full.  Neither one  *)
(* clears a fingerprint: the rollback looks for error_fingerprint in the   *)
(* object's llmDiagnosis, a field that no diagnosis has.                   *)

Remediates(s, t) ==
  \/ s = "Approved" /\ t \in {"Applied", "Rejected"}
  \/ s = "Applied"  /\ t \in {"Closed", "Failed"}

Remediate(n) ==
  /\ n \in DOMAIN prs
  /\ \E t \in ApprovalStates : Remediates(prs[n].state, t) /\ SetState(n, t)
  /\ UNCHANGED used

LifecycleNext == \E n \in PRs : Review(n) \/ Remediate(n) \/ DeletePR(n)

\* Every write but the pipeline's seenCount.
StoreNext ==
  \/ \E n \in PRs, d \in Deployments, e \in ErrorStates, patch \in Patches :
       AddPR(n, NewPatchRequest(d, e, patch))
  \/ LifecycleNext
=============================================================================
