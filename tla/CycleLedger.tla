---------------------------- MODULE CycleLedger ----------------------------
(***************************************************************************)
(* The cycle budget of one run phase: daemon/core/src/run/budget.rs.       *)
(*                                                                         *)
(* A ledger is a record; every method of CycleLedger that changes it is an *)
(* operator from the old ledger to the new one.  The counters are u32 and  *)
(* usize in the code, bumped with saturating_add; they stay far below      *)
(* their width (see the bounds proved in RunProofs), so they are           *)
(* naturals here.                                                          *)
(***************************************************************************)
EXTENDS Integers, Sequences

RetryKind == {"invalid_output", "agent_failure", "disposition"}
ExitReason == {"converged", "churn", "cycle_cap", "stuck"}
None == "none"

CONSTANT FreeRetries   \* allowance per failure kind (FreeRetryConfig)

ASSUME FreeRetriesAssumption == FreeRetries \in [RetryKind -> Nat]

MaxConsecutiveRevisionsWithoutReview == 1

CycleLedger ==
    [ max_cycles           : Nat,
      cycles_used          : Nat,
      consecutive          : Nat,     \* consecutive_revisions_without_review
      retries              : [RetryKind -> Nat],
      new_blocking_history : Seq(Nat),
      human_iterations     : Nat,
      exit_reason          : ExitReason \cup {None} ]

NoRetries == [k \in RetryKind |-> 0]

NewLedger(max) ==
    [ max_cycles           |-> max,
      cycles_used          |-> 0,
      consecutive          |-> 0,
      retries              |-> NoRetries,
      new_blocking_history |-> << >>,
      human_iterations     |-> 0,
      exit_reason          |-> None ]

-----------------------------------------------------------------------------
(* Mutant: the cap tested with > instead of >=. *)
EvaluateCapOffByOne(l) ==
    LET h == l.new_blocking_history
        n == Len(h)
    IN  IF n = 0 THEN None
        ELSE IF h[n] = 0 THEN "converged"
        ELSE IF n >= 2 /\ h[n] >= h[n-1] THEN "churn"
        ELSE IF l.cycles_used > l.max_cycles THEN "cycle_cap"
        ELSE None

(* The stop conditions, in the order the code tests them. *)

Evaluate(l) ==
    LET h == l.new_blocking_history
        n == Len(h)
    IN  IF l.consecutive > MaxConsecutiveRevisionsWithoutReview THEN "stuck"
        ELSE IF n = 0 THEN None
        ELSE IF h[n] = 0 THEN "converged"
        ELSE IF n >= 2 /\ h[n] >= h[n-1] THEN "churn"
        ELSE IF l.cycles_used >= l.max_cycles THEN "cycle_cap"
        ELSE None

WithExit(l) == [l EXCEPT !.exit_reason = Evaluate(l)]

RecordCycle(l, new_blocking) ==
    IF l.exit_reason # None THEN l
    ELSE WithExit([l EXCEPT
            !.cycles_used = @ + 1,
            !.new_blocking_history = Append(@, new_blocking),
            !.consecutive = 0])

RetryAllowed(l, kind) == l.retries[kind] < FreeRetries[kind]

(* Mutant: charging one kind rebuilds the tally, forgetting the others. *)
FreeRetryResetsOthers(l, kind) ==
    IF RetryAllowed(l, kind)
    THEN [l EXCEPT !.retries = [NoRetries EXCEPT ![kind] = l.retries[kind] + 1]]
    ELSE l

(* record_free_retry: the tally moves only while the allowance lasts. *)
RecordFreeRetry(l, kind) ==
    IF RetryAllowed(l, kind)
    THEN [l EXCEPT !.retries = [l.retries EXCEPT ![kind] = l.retries[kind] + 1]]
    ELSE l

MarkStuck(l) ==
    IF l.exit_reason = None THEN [l EXCEPT !.exit_reason = "stuck"] ELSE l

ResetRoundRetries(l) == [l EXCEPT !.retries = NoRetries]

(* A full fresh budget; the number of human round trips is never capped. *)
HumanRejectionOfLedger(l) ==
    [l EXCEPT
        !.cycles_used = 0,
        !.consecutive = 0,
        !.retries = NoRetries,
        !.new_blocking_history = << >>,
        !.exit_reason = None,
        !.human_iterations = @ + 1]

=============================================================================
