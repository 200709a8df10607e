------------------------------ MODULE Workloads ------------------------------
(***************************************************************************)
(* What the controller watches: pods, the Deployments they belong to by    *)
(* way of their ReplicaSet, and the namespaces those live in.  All of it   *)
(* is outside the program, which learns of it from pod events and API      *)
(* calls (main.py:116-125 and 342-428).                                    *)
(***************************************************************************)
EXTENDS FiniteSets

CONSTANTS
  Pods,          \* pod objects; a replacement pod is another element
  Deployments,   \* the watched deployments
  DeploymentOf,  \* the deployment a pod's ReplicaSet owner names
  NamespaceOf,   \* the namespace of each deployment
  ErrorStates    \* what log_preprocessor.detect_error_state may return

ASSUME WorkloadAssumption ==
  /\ IsFiniteSet(Pods)
  /\ DeploymentOf \in [Pods -> Deployments]

PodsOf(d) == {p \in Pods : DeploymentOf[p] = d}
=============================================================================
