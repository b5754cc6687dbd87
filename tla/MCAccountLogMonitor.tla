-------------------------- MODULE MCAccountLogMonitor --------------------------
(* Instances of AccountLogMonitor for TLC. *)
EXTENDS AccountLogMonitor
=============================================================================
