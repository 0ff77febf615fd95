-------------------------- MODULE MCRunSupervisor --------------------------
(* RunSupervisor for TLC. *)
EXTENDS RunSupervisor
=============================================================================
