----------------------------- MODULE MCRunPhase -----------------------------
(* A small instance of RunPhase. *)
EXTENDS RunPhase

(* The allowances of FreeRetryConfig::default. *)
MCFreeRetries ==
    [k \in RetryKind |-> IF k = "agent_failure" THEN 2 ELSE 1]

=============================================================================
