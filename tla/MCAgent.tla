------------------------------- MODULE MCAgent -------------------------------
(* The instance of SREAgent for TLC. *)
EXTENDS SREAgent, TLC

OneOwner == [p \in Pods |-> CHOOSE d \in Deployments : TRUE]
OneNamespace == [d \in Deployments |-> "ns"]
=============================================================================
