----------------------------- MODULE MCPipeline ------------------------------
(* Instances of DiagnosisPipeline for TLC. *)
EXTENDS DiagnosisPipeline, TLC

CONSTANTS p1, p2, d1, d2, ns1, ns2

\* one deployment with both pods; a deployment each; a namespace each
MCSamePods == [p \in Pods |-> d1]
MCOwnPods  == (p1 :> d1) @@ (p2 :> d2)
MCOneNamespace  == [d \in Deployments |-> ns1]
MCTwoNamespaces == (d1 :> ns1) @@ (d2 :> ns2)

PRSymmetry == Permutations(PRs)
PRAndPodSymmetry == Permutations(PRs) \cup Permutations(Pods)
=============================================================================
