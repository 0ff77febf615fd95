----------------------------- MODULE PhaseState -----------------------------
(***************************************************************************)
(* One phase of a run: PhaseState of daemon/core/src/run/state.rs, with    *)
(* the two pure algorithms it calls (new_blocking_since of findings.rs and *)
(* evaluate_gate of disposition.rs) and the approval packet built from it  *)
(* (approval.rs).                                                          *)
(*                                                                         *)
(* A finding is represented by its finding_id.  The id is a hash of file,  *)
(* category and problem text, and no category string is both a blocking    *)
(* and an advisory one, so the id decides the severity: BlockingIds.       *)
(* Every reader of the findings vectors first deduplicates them by id, so  *)
(* they are sets of ids.  Of the dispositions vector only the last answer  *)
(* given to each finding is ever shown (disposition_map): answers.         *)
(***************************************************************************)
EXTENDS CycleLedger, FiniteSets

CONSTANTS
    FindingIds,          \* the findings reviewers may raise
    BlockingIds,         \* those in a BlockingCategory
    MaxAnswers           \* dispositions an author may write for one finding

ASSUME FindingAssumption == BlockingIds \subseteq FindingIds /\ IsFiniteSet(FindingIds)
ASSUME AnswerAssumption == MaxAnswers \in Nat

Stage == {"authoring", "reviewing", "dispositioning", "awaiting_approval"}

(* DispositionAction; a dispute whose reason is blank is told apart because *)
(* the gate tells it apart.                                                 *)
Action == {"accepted", "disputed", "disputed_no_reason", "declined"}

PhaseRecord ==
    [ stage                  : Stage,
      version                : Nat,
      round                  : Nat,
      ledger                 : CycleLedger,
      findings               : SUBSET FindingIds,
      answers                : [FindingIds -> Action \cup {None}],
      current_round_findings : SUBSET FindingIds,
      pending_new_blocking   : Nat ]

NewPhase(max) ==
    [ stage                  |-> "authoring",
      version                |-> 0,
      round                  |-> 0,
      ledger                 |-> NewLedger(max),
      findings               |-> {},
      answers                |-> [i \in FindingIds |-> None],
      current_round_findings |-> {},
      pending_new_blocking   |-> 0 ]

-----------------------------------------------------------------------------
(* What the author submits: for each finding the answers it wrote, in the   *)
(* order it wrote them (an author may answer a finding twice, or answer one *)
(* nobody raised).                                                          *)

Submission == [FindingIds -> UNION {[1..n -> Action] : n \in 0..MaxAnswers}]

Answered(sub, i) == Len(sub[i]) > 0
Given(sub, i) == {sub[i][n] : n \in 1..Len(sub[i])}
LastAnswer(sub, i) == sub[i][Len(sub[i])]

Blocking(ids) == ids \cap BlockingIds

(* Mutant: what earlier rounds raised counts as new again. *)
NewBlockingIgnoringHistory(previous, current) == Blocking(current)

(* new_blocking_since *)
NewBlockingSince(previous, current) == Blocking(current) \ Blocking(previous)

(* Mutant: findings that got no answer are not looked for. *)
GateWithoutMissing(current, sub) ==
    \A i \in FindingIds : Answered(sub, i) =>
        /\ i \in current
        /\ i \in BlockingIds => Given(sub, i) \subseteq {"accepted", "disputed"}

(* evaluate_gate: every answer is about a finding of this round, every      *)
(* blocking finding is answered, and never by declining it or by disputing  *)
(* it without a reason.  Advisory findings accept any answer, or none.      *)
GatePasses(current, sub) ==
    /\ \A i \in FindingIds : Answered(sub, i) => i \in current
    /\ \A i \in Blocking(current) :
          Answered(sub, i) /\ Given(sub, i) \subseteq {"accepted", "disputed"}

-----------------------------------------------------------------------------
(* The mutators.  expect_stage is each one's guard, stated by the caller.   *)

RecordDraft(p) ==
    [p EXCEPT !.version = @ + 1, !.round = 1, !.stage = "reviewing"]

RecordReviewRound(p, fs) ==
    [p EXCEPT
        !.pending_new_blocking = Cardinality(NewBlockingSince(p.findings, fs)),
        !.findings = @ \cup fs,
        !.current_round_findings = fs,
        !.stage = "dispositioning"]

(* record_disposition once the gate has passed. *)
RecordDisposition(p, sub) ==
    LET l == RecordCycle(p.ledger, p.pending_new_blocking)
        exits == l.exit_reason # None
    IN  [p EXCEPT
            !.answers = [i \in FindingIds |->
                            IF Answered(sub, i) THEN LastAnswer(sub, i) ELSE @[i]],
            !.version = @ + 1,
            !.current_round_findings = {},
            !.ledger = l,
            !.pending_new_blocking = 0,
            !.stage = IF exits THEN "awaiting_approval" ELSE "reviewing",
            !.round = IF exits THEN @ ELSE @ + 1]

(* The round the author could not answer stays open on the table. *)
RecordStuck(p) ==
    [p EXCEPT !.ledger = MarkStuck(@), !.stage = "awaiting_approval"]

(* The version and the author's answers survive a human rejection; the      *)
(* findings do not.                                                         *)
RecordHumanRejection(p) ==
    [p EXCEPT
        !.ledger = HumanRejectionOfLedger(@),
        !.findings = {},
        !.current_round_findings = {},
        !.pending_new_blocking = 0,
        !.stage = "authoring"]

ChargeRetry(p, kind) == [p EXCEPT !.ledger = RecordFreeRetry(@, kind)]

-----------------------------------------------------------------------------
(* build_packet: what the human reads at the gate. *)

Disputes(p) == {i \in Blocking(p.findings) : p.answers[i] \in {"disputed", "disputed_no_reason"}}
AcceptedBlocking(p) == {i \in Blocking(p.findings) : p.answers[i] = "accepted"}

-----------------------------------------------------------------------------
(* What holds of a phase that only these operators, called in the stage     *)
(* each one expects, have ever touched.                                     *)

RetriesWithinAllowance(p) ==
    \A k \in RetryKind : p.ledger.retries[k] <= FreeRetries[k]

GateMatchesExit(p) ==
    p.stage = "awaiting_approval" <=> p.ledger.exit_reason # None

(* The first n counts of a history: positive and strictly decreasing. *)
Shrinking(h, n) ==
    /\ \A j \in 1..n : h[j] > 0
    /\ \A j \in 1..(n-1) : h[j+1] < h[j]

(* Each exit reason is the one the counts call for; while a ledger is open  *)
(* (or was, when the author got stuck) they shrink and a cycle is left.     *)
LedgerExplained(l) ==
    LET h == l.new_blocking_history
        n == Len(h)
    IN  /\ l.cycles_used = n
        /\ n > 1 => n <= l.max_cycles
        /\ l.exit_reason \in {None, "stuck"} =>
              Shrinking(h, n) /\ (n > 0 => n < l.max_cycles)
        /\ l.exit_reason = "converged" =>
              n > 0 /\ Shrinking(h, n-1) /\ h[n] = 0
        /\ l.exit_reason = "churn" =>
              n > 1 /\ Shrinking(h, n-1) /\ h[n] >= h[n-1]
        /\ l.exit_reason = "cycle_cap" =>
              n > 0 /\ Shrinking(h, n) /\ n >= l.max_cycles

RoundMatchesCycles(p) ==
    LET made == p.ledger.cycles_used + p.ledger.human_iterations
    IN  /\ p.stage = "authoring" => p.ledger.cycles_used = 0 /\ p.version >= made
        /\ p.stage # "authoring" => p.version > made
        /\ p.stage \in {"reviewing", "dispositioning"} => p.round = p.ledger.cycles_used + 1

ClosedRoundsAnswered(p) ==
    /\ \A i \in Blocking(p.findings \ p.current_round_findings) :
          p.answers[i] \in {"accepted", "disputed"}
    /\ p.current_round_findings # {} =>
          p.stage = "dispositioning" \/ p.ledger.exit_reason = "stuck"

(* The sum of a history. *)
Total(h) ==
    LET sum[k \in 0 .. Len(h)] == IF k = 0 THEN 0 ELSE sum[k - 1] + h[k]
    IN  sum[Len(h)]

(* The counts, with the one that waits for its cycle, are the findings. *)
CountsMatch(p) ==
    Total(p.ledger.new_blocking_history) + p.pending_new_blocking
        = Cardinality(Blocking(p.findings))

(* The conjunction is inductive; the last conjunct is there because no      *)
(* caller ever reports a revision without a review.                         *)
PhaseOK(p) ==
    /\ p \in PhaseRecord
    /\ RetriesWithinAllowance(p)
    /\ GateMatchesExit(p)
    /\ LedgerExplained(p.ledger)
    /\ RoundMatchesCycles(p)
    /\ ClosedRoundsAnswered(p)
    /\ p.ledger.consecutive = 0

=============================================================================
