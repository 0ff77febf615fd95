--------------------------- MODULE MCEventFanout ---------------------------
(* A page and a store beside each other, on one thread. *)
EXTENDS EventFanout
=============================================================================
