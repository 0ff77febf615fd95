------------------------- MODULE MCDaemonLifecycle -------------------------
(* DaemonLifecycle for TLC. *)
EXTENDS DaemonLifecycle
=============================================================================
