---------------------------- MODULE MCRemediation ----------------------------
(* Instances of Remediation for TLC. *)
EXTENDS Remediation, TLC

PRSymmetry == Permutations(PRs)
NoOwner == [p \in Pods |-> CHOOSE d \in Deployments : TRUE]
OneNamespace == [d \in Deployments |-> "ns"]
=============================================================================
