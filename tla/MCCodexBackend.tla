--------------------------- MODULE MCCodexBackend ---------------------------
(* A small app-server backend for TLC. *)
EXTENDS CodexBackend
=============================================================================
