----------------------------- MODULE MCIncident ------------------------------
(* Instances of Incident for TLC. *)
EXTENDS Incident
=============================================================================
