---------------------------- MODULE MCAppSession ----------------------------
(* AppSession on a small instance: its sessions are interchangeable. *)
EXTENDS AppSession, TLC

SessionSymmetry == Permutations(Sessions)

=============================================================================
