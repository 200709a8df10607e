------------------------------- MODULE MCCrash -------------------------------
(* Instances of CrashDetection for TLC. *)
EXTENDS CrashDetection

OneDeployment == [p \in Pods |-> "d1"]
=============================================================================
