--------------------------- MODULE MCRelayChannel ---------------------------
(* A small relay for TLC.  Apps are interchangeable. *)
EXTENDS RelayChannel, TLC

AppSymmetry == Permutations(Apps)
=============================================================================
