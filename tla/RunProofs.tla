------------------------------ MODULE RunProofs ------------------------------
(***************************************************************************)
(* The run, for every set of findings and reviewers, every budget and any  *)
(* number of crashes, restarts and human iterations.                       *)
(*                                                                         *)
(* First the lemmas about PhaseState: every mutator, called in the stage   *)
(* its expect_stage asks for, takes a phase that satisfies PhaseOK to one  *)
(* that does.  Then one phase (RunPhase), and with the same lemmas the     *)
(* whole run (RunOrchestrator): the gate acts only on a decision about the *)
(* version it shows, nothing is implemented or completed without a human   *)
(* approval of it, the human's feedback reaches the author, a restart      *)
(* loses at most one version, and run.json implements RunLifecycle.        *)
(***************************************************************************)
EXTENDS RunPhase, RunOrchestrator, FiniteSetTheorems, WellFoundedInduction, TLAPS

(* A count of findings is a natural number. *)
LEMMA CountIsNat ==
    ASSUME NEW S \in SUBSET FindingIds
    PROVE  Cardinality(S) \in Nat
BY FindingAssumption, FS_Subset, FS_CardinalityType

(* A fresh ledger is explained, and no retry has been charged. *)
LEMMA NewPhaseOK ==
    ASSUME NEW max \in Nat
    PROVE  PhaseOK(NewPhase(max))
<1> DEFINE p == NewPhase(max)
<1>1. p \in PhaseRecord
    BY DEF NewPhase, NewLedger, NoRetries, PhaseRecord, CycleLedger, Stage, ExitReason
<1>2. RetriesWithinAllowance(p)
    BY FreeRetriesAssumption DEF RetriesWithinAllowance, NewPhase, NewLedger, NoRetries
<1>3. LedgerExplained(p.ledger)
    BY DEF LedgerExplained, Shrinking, NewPhase, NewLedger, None
<1>4. GateMatchesExit(p) /\ RoundMatchesCycles(p) /\ ClosedRoundsAnswered(p)
    BY DEF GateMatchesExit, RoundMatchesCycles, ClosedRoundsAnswered, Blocking,
           NewPhase, NewLedger, None
<1>5. p.ledger.consecutive = 0
    BY DEF NewPhase, NewLedger
<1> QED BY <1>1, <1>2, <1>3, <1>4, <1>5 DEF PhaseOK

-----------------------------------------------------------------------------
(* The ledger.  Counting a cycle on an open ledger appends its count, and   *)
(* evaluate gives the one reason the new history calls for.                 *)

LEMMA RecordCycleOK ==
    ASSUME NEW l \in CycleLedger, NEW x \in Nat,
           l.exit_reason = None, l.consecutive = 0, LedgerExplained(l)
    PROVE  LET m == RecordCycle(l, x)
           IN  /\ m \in CycleLedger
               /\ LedgerExplained(m)
               /\ m.cycles_used = l.cycles_used + 1
               /\ m.human_iterations = l.human_iterations
               /\ m.consecutive = 0
               /\ m.retries = l.retries
               /\ m.exit_reason # "stuck"
<1> DEFINE h == l.new_blocking_history
           n == Len(h)
           c == [l EXCEPT !.cycles_used = @ + 1,
                          !.new_blocking_history = Append(@, x),
                          !.consecutive = 0]
           g == c.new_blocking_history
           m == RecordCycle(l, x)
<1>1. /\ n \in Nat /\ h \in Seq(Nat) /\ l.max_cycles \in Nat
      /\ l.cycles_used = n /\ (n > 1 => n <= l.max_cycles)
      /\ Shrinking(h, n) /\ (n > 0 => n < l.max_cycles)
    BY DEF LedgerExplained, CycleLedger
<1>2. c \in CycleLedger
    <2>1. Append(h, x) \in Seq(Nat) /\ l.cycles_used + 1 \in Nat
        BY DEF CycleLedger
    <2> QED BY <2>1 DEF CycleLedger
<1>3. /\ g \in Seq(Nat) /\ Len(g) = n + 1 /\ g[n+1] = x
      /\ \A j \in 1..n : g[j] = h[j]
      /\ c.cycles_used = n + 1 /\ c.max_cycles = l.max_cycles /\ c.consecutive = 0
      /\ c.human_iterations = l.human_iterations /\ c.retries = l.retries
    BY <1>1 DEF CycleLedger
<1>4. Shrinking(g, n)
    <2>1. \A j \in 1..n : g[j] > 0
        BY <1>1, <1>3 DEF Shrinking
    <2>2. ASSUME NEW j \in 1..(n-1) PROVE g[j+1] < g[j]
        <3>1. j \in 1..n /\ j + 1 \in 1..n
            BY <1>1
        <3>2. h[j+1] < h[j]
            BY <1>1 DEF Shrinking
        <3> QED BY <3>1, <3>2, <1>3
    <2> QED BY <2>1, <2>2 DEF Shrinking
<1>5. x > 0 /\ (n > 0 => x < h[n]) => Shrinking(g, n + 1)
    BY SMTT(30), <1>1, <1>3 DEF Shrinking
<1>6. m = [c EXCEPT !.exit_reason = Evaluate(c)]
    BY DEF RecordCycle, WithExit
<1>7. Evaluate(c) =
        IF x = 0 THEN "converged"
        ELSE IF n >= 1 /\ x >= h[n] THEN "churn"
        ELSE IF n + 1 >= l.max_cycles THEN "cycle_cap" ELSE None
    BY <1>1, <1>3 DEF Evaluate, MaxConsecutiveRevisionsWithoutReview
<1>8. Evaluate(c) \in (ExitReason \cup {None}) \ {"stuck"}
    BY <1>7 DEF ExitReason, None
<1>9. m \in CycleLedger
    BY <1>2, <1>6, <1>8 DEF CycleLedger
<1>10. /\ m.new_blocking_history = g /\ m.cycles_used = n + 1
       /\ m.max_cycles = l.max_cycles /\ m.exit_reason = Evaluate(c)
       /\ m.human_iterations = l.human_iterations /\ m.retries = l.retries
       /\ m.consecutive = 0
    BY <1>2, <1>3, <1>6 DEF CycleLedger
<1>11. LedgerExplained(m)
    <2>1. n + 1 > 1 => n + 1 <= l.max_cycles
        BY <1>1
    <2>2. h[n] \in Nat \/ n = 0
        BY <1>1
    <2>3. CASE x = 0
        <3>1. m.exit_reason = "converged" /\ m.exit_reason \notin {None, "stuck", "churn", "cycle_cap"}
            BY <2>3, <1>7, <1>10 DEF None
        <3>2. Shrinking(g, Len(g) - 1) /\ g[Len(g)] = 0 /\ Len(g) > 0
            BY <2>3, <1>1, <1>3, <1>4
        <3> QED BY <3>1, <3>2, <2>1, <1>3, <1>10 DEF LedgerExplained
    <2>4. CASE x # 0 /\ n >= 1 /\ x >= h[n]
        BY <2>4, <2>1, <1>1, <1>3, <1>4, <1>7, <1>10 DEF LedgerExplained, None
    <2>5. CASE x # 0 /\ ~(n >= 1 /\ x >= h[n]) /\ n + 1 >= l.max_cycles
        BY <2>5, <2>1, <2>2, <1>1, <1>3, <1>5, <1>7, <1>10 DEF LedgerExplained, None
    <2>6. CASE x # 0 /\ ~(n >= 1 /\ x >= h[n]) /\ ~(n + 1 >= l.max_cycles)
        BY <2>6, <2>1, <2>2, <1>1, <1>3, <1>5, <1>7, <1>10 DEF LedgerExplained, None
    <2> QED BY <2>3, <2>4, <2>5, <2>6
<1> QED BY <1>1, <1>8, <1>9, <1>10, <1>11

-----------------------------------------------------------------------------
(* record_draft *)
LEMMA RecordDraftOK ==
    ASSUME NEW p, PhaseOK(p), p.stage = "authoring"
    PROVE  PhaseOK(RecordDraft(p))
<1> DEFINE q == RecordDraft(p)
<1>1. p \in PhaseRecord /\ p.ledger \in CycleLedger
    BY DEF PhaseOK, PhaseRecord
<1>2. /\ q \in PhaseRecord /\ q.ledger = p.ledger /\ q.stage = "reviewing"
      /\ q.version = p.version + 1 /\ q.round = 1 /\ q.answers = p.answers
      /\ q.findings = p.findings /\ q.current_round_findings = p.current_round_findings
    <2>1. p.version + 1 \in Nat
        BY <1>1 DEF PhaseRecord
    <2> QED BY <1>1, <2>1 DEF PhaseRecord, Stage, RecordDraft
<1>3. GateMatchesExit(q) /\ RetriesWithinAllowance(q)
    BY <1>2 DEF PhaseOK, GateMatchesExit, RetriesWithinAllowance
<1>4. RoundMatchesCycles(q)
    BY <1>1, <1>2 DEF PhaseOK, RoundMatchesCycles, PhaseRecord, CycleLedger
<1>5. ClosedRoundsAnswered(q)
    BY <1>2 DEF PhaseOK, ClosedRoundsAnswered
<1> QED BY <1>2, <1>3, <1>4, <1>5 DEF PhaseOK

(* record_review_round *)
LEMMA RecordReviewRoundOK ==
    ASSUME NEW p, PhaseOK(p), p.stage = "reviewing", NEW fs \in SUBSET FindingIds
    PROVE  PhaseOK(RecordReviewRound(p, fs))
<1> DEFINE q == RecordReviewRound(p, fs)
<1>1. Cardinality(NewBlockingSince(p.findings, fs)) \in Nat
    BY CountIsNat DEF NewBlockingSince, Blocking
<1>2. /\ q \in PhaseRecord /\ q.ledger = p.ledger /\ q.stage = "dispositioning"
      /\ q.version = p.version /\ q.round = p.round /\ q.answers = p.answers
      /\ q.findings = p.findings \cup fs /\ q.current_round_findings = fs
    BY <1>1 DEF PhaseOK, PhaseRecord, Stage, RecordReviewRound
<1>3. p.current_round_findings = {}
    BY DEF PhaseOK, ClosedRoundsAnswered, GateMatchesExit, None
<1>4. ClosedRoundsAnswered(q)
    BY <1>2, <1>3 DEF PhaseOK, ClosedRoundsAnswered, Blocking
<1>5. GateMatchesExit(q) /\ RoundMatchesCycles(q) /\ RetriesWithinAllowance(q)
    BY <1>2 DEF PhaseOK, GateMatchesExit, RoundMatchesCycles, RetriesWithinAllowance
<1> QED BY <1>2, <1>4, <1>5 DEF PhaseOK

(* record_disposition, once evaluate_gate has passed the submission. *)
LEMMA RecordDispositionOK ==
    ASSUME NEW p, PhaseOK(p), p.stage = "dispositioning", NEW sub \in Submission,
           GatePasses(p.current_round_findings, sub)
    PROVE  PhaseOK(RecordDisposition(p, sub))
<1> DEFINE q == RecordDisposition(p, sub)
           l == RecordCycle(p.ledger, p.pending_new_blocking)
           answers == [i \in FindingIds |->
                          IF Answered(sub, i) THEN LastAnswer(sub, i) ELSE p.answers[i]]
<1>1. /\ p \in PhaseRecord /\ p.ledger \in CycleLedger /\ p.ledger.exit_reason = None
      /\ p.ledger.consecutive = 0 /\ LedgerExplained(p.ledger)
      /\ p.pending_new_blocking \in Nat
    BY DEF PhaseOK, GateMatchesExit, PhaseRecord
<1>2. /\ l \in CycleLedger /\ LedgerExplained(l)
      /\ l.cycles_used = p.ledger.cycles_used + 1
      /\ l.human_iterations = p.ledger.human_iterations
      /\ l.consecutive = 0 /\ l.retries = p.ledger.retries /\ l.exit_reason # "stuck"
    BY <1>1, RecordCycleOK
<1>3. \A i \in FindingIds :
          /\ Len(sub[i]) \in Nat
          /\ Answered(sub, i) => LastAnswer(sub, i) \in Given(sub, i) /\ LastAnswer(sub, i) \in Action
    BY AnswerAssumption DEF Submission, Answered, LastAnswer, Given
<1>4. answers \in [FindingIds -> Action \cup {None}]
    BY <1>1, <1>3 DEF PhaseRecord
<1>5. /\ q \in PhaseRecord /\ q.ledger = l /\ q.answers = answers
      /\ q.version = p.version + 1
      /\ q.findings = p.findings /\ q.current_round_findings = {}
      /\ q.stage = IF l.exit_reason # None THEN "awaiting_approval" ELSE "reviewing"
      /\ q.round = IF l.exit_reason # None THEN p.round ELSE p.round + 1
    <2>1. q = [p EXCEPT !.answers = answers, !.version = @ + 1,
                 !.current_round_findings = {}, !.ledger = l, !.pending_new_blocking = 0,
                 !.stage = IF l.exit_reason # None THEN "awaiting_approval" ELSE "reviewing",
                 !.round = IF l.exit_reason # None THEN @ ELSE @ + 1]
        BY DEF RecordDisposition
    <2>2. p.version + 1 \in Nat /\ p.round \in Nat /\ p.round + 1 \in Nat
        BY <1>1 DEF PhaseRecord
    <2> HIDE DEF q, l, answers
    <2> QED BY <2>1, <2>2, <1>1, <1>2, <1>4 DEF PhaseRecord, Stage
<1>6. \A i \in Blocking(q.findings) : q.answers[i] \in {"accepted", "disputed"}
    <2> SUFFICES ASSUME NEW i \in Blocking(p.findings)
                 PROVE  answers[i] \in {"accepted", "disputed"}
        BY <1>5
    <2>1. i \in FindingIds
        BY <1>1 DEF Blocking, PhaseRecord
    <2>2. CASE i \in p.current_round_findings
        BY <2>1, <2>2, <1>3 DEF GatePasses, Blocking
    <2>3. CASE i \notin p.current_round_findings
        <3>1. ~Answered(sub, i)
            BY <2>1, <2>3 DEF GatePasses
        <3>2. p.answers[i] \in {"accepted", "disputed"}
            BY <2>3 DEF PhaseOK, ClosedRoundsAnswered, Blocking
        <3> QED BY <2>1, <3>1, <3>2
    <2> QED BY <2>2, <2>3
<1>7. ClosedRoundsAnswered(q)
    BY <1>5, <1>6 DEF ClosedRoundsAnswered, Blocking
<1>8. GateMatchesExit(q)
    BY <1>5 DEF GateMatchesExit
<1>9. RoundMatchesCycles(q)
    BY SMTT(30), <1>1, <1>2, <1>5 DEF PhaseOK, RoundMatchesCycles, PhaseRecord, CycleLedger
<1>10. RetriesWithinAllowance(q)
    BY <1>2, <1>5 DEF PhaseOK, RetriesWithinAllowance
<1> QED BY <1>2, <1>5, <1>7, <1>8, <1>9, <1>10 DEF PhaseOK

(* record_stuck *)
LEMMA RecordStuckOK ==
    ASSUME NEW p, PhaseOK(p), p.stage = "dispositioning"
    PROVE  PhaseOK(RecordStuck(p))
<1> DEFINE q == RecordStuck(p)
<1>1. p \in PhaseRecord /\ p.ledger \in CycleLedger /\ p.ledger.exit_reason = None
    BY DEF PhaseOK, PhaseRecord, GateMatchesExit
<1>2. /\ q \in PhaseRecord /\ q.stage = "awaiting_approval" /\ q.version = p.version
      /\ q.ledger = [p.ledger EXCEPT !.exit_reason = "stuck"]
      /\ q.findings = p.findings /\ q.answers = p.answers
      /\ q.current_round_findings = p.current_round_findings
    BY <1>1 DEF RecordStuck, MarkStuck, PhaseRecord, CycleLedger, Stage, ExitReason
<1>3. /\ q.ledger.exit_reason = "stuck"
      /\ q.ledger.cycles_used = p.ledger.cycles_used
      /\ q.ledger.new_blocking_history = p.ledger.new_blocking_history
      /\ q.ledger.max_cycles = p.ledger.max_cycles
      /\ q.ledger.human_iterations = p.ledger.human_iterations
      /\ q.ledger.retries = p.ledger.retries
      /\ q.ledger.consecutive = p.ledger.consecutive
    BY <1>1, <1>2 DEF CycleLedger
<1>4. LedgerExplained(q.ledger)
    BY <1>1, <1>3 DEF PhaseOK, LedgerExplained, None
<1>5. RetriesWithinAllowance(q) /\ GateMatchesExit(q) /\ RoundMatchesCycles(q)
    BY <1>1, <1>2, <1>3
    DEF PhaseOK, RetriesWithinAllowance, GateMatchesExit, RoundMatchesCycles, None
<1>6. ClosedRoundsAnswered(q)
    BY <1>2, <1>3 DEF PhaseOK, ClosedRoundsAnswered, Blocking
<1> QED BY <1>2, <1>3, <1>4, <1>5, <1>6 DEF PhaseOK

(* record_human_rejection *)
LEMMA RecordHumanRejectionOK ==
    ASSUME NEW p, PhaseOK(p), p.stage = "awaiting_approval"
    PROVE  PhaseOK(RecordHumanRejection(p))
<1> DEFINE q == RecordHumanRejection(p)
<1>1. p \in PhaseRecord /\ p.ledger \in CycleLedger
    BY DEF PhaseOK, PhaseRecord
<1>2. HumanRejectionOfLedger(p.ledger) \in CycleLedger
    <2>1. << >> \in Seq(Nat) /\ NoRetries \in [RetryKind -> Nat]
        BY DEF NoRetries
    <2>2. p.ledger.human_iterations + 1 \in Nat
        BY <1>1 DEF CycleLedger
    <2> QED BY <1>1, <2>1, <2>2 DEF HumanRejectionOfLedger, CycleLedger
<1>3. /\ q \in PhaseRecord /\ q.stage = "authoring" /\ q.version = p.version
      /\ q.ledger = HumanRejectionOfLedger(p.ledger)
      /\ q.findings = {} /\ q.current_round_findings = {}
    BY <1>1, <1>2 DEF RecordHumanRejection, PhaseRecord, Stage
<1>4. /\ q.ledger.cycles_used = 0 /\ q.ledger.consecutive = 0
      /\ q.ledger.new_blocking_history = << >> /\ q.ledger.exit_reason = None
      /\ q.ledger.human_iterations = p.ledger.human_iterations + 1
      /\ q.ledger.retries = NoRetries
    BY <1>1, <1>3 DEF HumanRejectionOfLedger, CycleLedger
<1>5. LedgerExplained(q.ledger)
    <2>1. Len(q.ledger.new_blocking_history) = 0
        BY <1>4
    <2> QED BY <1>4, <2>1 DEF LedgerExplained, Shrinking, None
<1>6. RetriesWithinAllowance(q)
    <2>1. \A k \in RetryKind : NoRetries[k] <= FreeRetries[k]
        BY FreeRetriesAssumption DEF NoRetries
    <2> QED BY <1>4, <2>1 DEF RetriesWithinAllowance
<1>7. GateMatchesExit(q) /\ ClosedRoundsAnswered(q)
    BY <1>3, <1>4 DEF GateMatchesExit, ClosedRoundsAnswered, Blocking
<1>8. RoundMatchesCycles(q)
    BY SMTT(30), <1>1, <1>3, <1>4 DEF PhaseOK, RoundMatchesCycles, PhaseRecord, CycleLedger
<1> QED BY <1>3, <1>4, <1>5, <1>6, <1>7, <1>8 DEF PhaseOK

(* Free retries never touch anything PhaseOK relates, whatever tallies a    *)
(* stage leaves behind, as long as they stay within the allowances.         *)
LEMMA RetriesOK ==
    ASSUME NEW p, PhaseOK(p), NEW t \in [RetryKind -> Nat],
           \A k \in RetryKind : t[k] <= FreeRetries[k]
    PROVE  LET q == [p EXCEPT !.ledger = [@ EXCEPT !.retries = t]]
           IN  PhaseOK(q) /\ q.stage = p.stage
                          /\ q.current_round_findings = p.current_round_findings
<1> DEFINE q == [p EXCEPT !.ledger = [@ EXCEPT !.retries = t]]
           l == [p.ledger EXCEPT !.retries = t]
<1>1. p \in PhaseRecord /\ p.ledger \in CycleLedger
    BY DEF PhaseOK, PhaseRecord
<1>2. /\ l \in CycleLedger /\ l.retries = t
      /\ l.cycles_used = p.ledger.cycles_used /\ l.consecutive = p.ledger.consecutive
      /\ l.new_blocking_history = p.ledger.new_blocking_history
      /\ l.max_cycles = p.ledger.max_cycles /\ l.exit_reason = p.ledger.exit_reason
      /\ l.human_iterations = p.ledger.human_iterations
    BY <1>1 DEF CycleLedger
<1>3. /\ q \in PhaseRecord /\ q.ledger = l /\ q.stage = p.stage
      /\ q.version = p.version /\ q.round = p.round /\ q.answers = p.answers
      /\ q.findings = p.findings /\ q.current_round_findings = p.current_round_findings
    BY <1>1, <1>2 DEF PhaseRecord
<1>4. LedgerExplained(q.ledger)
    BY <1>2, <1>3 DEF PhaseOK, LedgerExplained
<1>5. /\ RetriesWithinAllowance(q) /\ GateMatchesExit(q)
      /\ RoundMatchesCycles(q) /\ ClosedRoundsAnswered(q)
    BY <1>2, <1>3 DEF PhaseOK, RetriesWithinAllowance, GateMatchesExit,
                      RoundMatchesCycles, ClosedRoundsAnswered
<1> QED BY <1>2, <1>3, <1>4, <1>5 DEF PhaseOK

-----------------------------------------------------------------------------
(* Sums.  Total is a recursion, so what it computes is an induction on the  *)
(* length, done with the least length for which the claim would fail.       *)

(* A set of numbers that is not empty has a least one. *)
LEMMA LeastNumber ==
    ASSUME NEW T \in SUBSET Nat, T # {}
    PROVE  \E m \in T : \A k \in T : m <= k
<1> DEFINE R == OpToRel(<, Nat)
<1>1. IsWellFoundedOn(R, Nat)
    BY NatLessThanWellFounded
<1> HIDE DEF R
<1>2. PICK x \in T : \A y \in T : ~(<<y, x>> \in R)
    BY <1>1, WFMin
<1>3. \A y \in Nat : y < x => <<y, x>> \in R
    BY DEF R, OpToRel
<1>4. \A y \in T : ~(y < x)
    BY <1>2, <1>3
<1> QED BY <1>4

(* f holds the sums of the first counts of h, up to the n-th. *)
Sums(h, n, f) ==
    /\ f \in [0 .. n -> Nat]
    /\ f[0] = 0
    /\ \A k \in 1 .. n : f[k] = f[k - 1] + h[k]

(* One more count, one more sum. *)
LEMMA SumsExtend ==
    ASSUME NEW h, NEW n \in Nat, NEW f, Sums(h, n, f), NEW x \in Nat, x = h[n + 1]
    PROVE  \E g : Sums(h, n + 1, g) /\ g[n + 1] = f[n] + x
<1> DEFINE g == [k \in 0 .. n + 1 |-> IF k = n + 1 THEN f[n] + x ELSE f[k]]
<1>1. f \in [0 .. n -> Nat] /\ f[0] = 0 /\ \A k \in 1 .. n : f[k] = f[k - 1] + h[k]
    BY DEF Sums
<1>2. \A k \in 0 .. n + 1 : k # n + 1 => k \in 0 .. n
    OBVIOUS
<1>3. g \in [0 .. n + 1 -> Nat] /\ g[0] = 0 /\ g[n + 1] = f[n] + x
    BY <1>1, <1>2
<1>4. ASSUME NEW k \in 1 .. n + 1 PROVE g[k] = g[k - 1] + h[k]
    BY <1>1, <1>2
<1> QED BY <1>3, <1>4 DEF Sums

(* There are such sums. *)
LEMMA SumsExist ==
    ASSUME NEW h \in Seq(Nat)
    PROVE  \E f : Sums(h, Len(h), f)
<1> DEFINE T == {n \in 0 .. Len(h) : ~\E f : Sums(h, n, f)}
<1>1. Len(h) \in Nat
    OBVIOUS
<1>2. SUFFICES ASSUME T # {} PROVE FALSE
    BY <1>1
<1>3. T \in SUBSET Nat
    BY <1>1
<1> HIDE DEF T
<1>4. PICK m \in T : \A k \in T : m <= k
    BY <1>2, <1>3, LeastNumber
<1>5. m \in 0 .. Len(h) /\ ~\E f : Sums(h, m, f)
    BY DEF T
<1>6. Sums(h, 0, [k \in 0 .. 0 |-> 0])
    BY DEF Sums
<1>7. m # 0 /\ m - 1 \in 0 .. Len(h) /\ m - 1 \notin T
    BY <1>1, <1>4, <1>5, <1>6
<1>8. PICK f : Sums(h, m - 1, f)
    BY <1>7 DEF T
<1>9. m - 1 \in Nat /\ (m - 1) + 1 = m /\ h[m] \in Nat
    BY <1>5, <1>7
<1> QED BY <1>5, <1>8, <1>9, SumsExtend

(* They are the ones Total is defined by. *)
LEMMA TotalIsSum ==
    ASSUME NEW h \in Seq(Nat), NEW g, Sums(h, Len(h), g)
    PROVE  Total(h) = g[Len(h)]
<1> DEFINE Def(s) == [k \in 0 .. Len(h) |-> IF k = 0 THEN 0 ELSE s[k - 1] + h[k]]
           F == CHOOSE s : s = Def(s)
<1>1. Total(h) = F[Len(h)]
    BY DEF Total
<1>2. Len(h) \in Nat /\ g \in [0 .. Len(h) -> Nat] /\ g[0] = 0
      /\ \A k \in 1 .. Len(h) : g[k] = g[k - 1] + h[k]
    BY DEF Sums
<1>3. g = Def(g)
    <2>1. \A k \in 0 .. Len(h) : g[k] = Def(g)[k]
        BY <1>2
    <2> QED BY <1>2, <2>1
<1>4. F = Def(F)
    BY <1>3
<1>5. \A k \in 0 .. Len(h) : F[k] = IF k = 0 THEN 0 ELSE F[k - 1] + h[k]
    BY <1>4
<1> HIDE DEF F, Def
<1> DEFINE T == {k \in 0 .. Len(h) : F[k] # g[k]}
<1>6. SUFFICES ASSUME T # {} PROVE FALSE
    BY <1>1, <1>2
<1>7. T \in SUBSET Nat
    BY <1>2
<1> HIDE DEF T
<1>8. PICK m \in T : \A k \in T : m <= k
    BY <1>6, <1>7, LeastNumber
<1>9. m \in 0 .. Len(h) /\ F[m] # g[m]
    BY DEF T
<1>10. m # 0
    BY <1>2, <1>5, <1>9
<1>11. m - 1 \in 0 .. Len(h) /\ m - 1 \notin T
    BY <1>2, <1>8, <1>9, <1>10
<1>12. F[m - 1] = g[m - 1]
    BY <1>11 DEF T
<1> QED BY <1>2, <1>5, <1>9, <1>10, <1>12

(* It is a number. *)
LEMMA TotalIsNat ==
    ASSUME NEW h \in Seq(Nat)
    PROVE  Total(h) \in Nat
<1>1. PICK f : Sums(h, Len(h), f)
    BY SumsExist
<1>2. Total(h) = f[Len(h)] /\ Len(h) \in 0 .. Len(h)
    BY <1>1, TotalIsSum
<1> QED BY <1>1, <1>2 DEF Sums

(* Total of nothing, and of one more count. *)
LEMMA TotalEmpty == Total(<<>>) = 0
<1>1. Sums(<<>>, Len(<<>>), [k \in 0 .. 0 |-> 0]) /\ <<>> \in Seq(Nat)
    BY DEF Sums
<1> QED BY <1>1, TotalIsSum

(* One more count. *)
LEMMA TotalAppend ==
    ASSUME NEW h \in Seq(Nat), NEW x \in Nat
    PROVE  Total(Append(h, x)) = Total(h) + x
<1> DEFINE n == Len(h)
           longer == Append(h, x)
<1>1. /\ n \in Nat /\ longer \in Seq(Nat) /\ Len(longer) = n + 1
      /\ longer[n + 1] = x /\ \A k \in 1 .. n : longer[k] = h[k]
    OBVIOUS
<1>2. PICK f : Sums(h, n, f)
    BY SumsExist
<1> HIDE DEF n, longer
<1>3. Sums(longer, n, f)
    BY <1>1, <1>2 DEF Sums
<1>4. PICK g : Sums(longer, n + 1, g) /\ g[n + 1] = f[n] + x
    BY <1>1, <1>3, SumsExtend
<1>5. Total(h) = f[n]
    BY <1>2, TotalIsSum DEF n
<1>6. Total(longer) = g[n + 1]
    BY <1>1, <1>4, TotalIsSum
<1> QED BY <1>4, <1>5, <1>6 DEF longer

-----------------------------------------------------------------------------
(* The counts and the findings.  While a round may still be raised, none    *)
(* waits to be counted.                                                     *)
Counted(p) ==
    /\ p.stage \in {"authoring", "reviewing"} => p.pending_new_blocking = 0
    /\ CountsMatch(p)

(* A new phase has counted nothing and found nothing. *)
LEMMA NewPhaseCounted ==
    ASSUME NEW max
    PROVE  Counted(NewPhase(max))
<1>1. Blocking({}) = {} /\ Cardinality({}) = 0
    BY FS_EmptySet DEF Blocking
<1> DEFINE p == NewPhase(max)
<1>2. /\ p.ledger.new_blocking_history = <<>> /\ p.pending_new_blocking = 0
      /\ p.findings = {}
    BY DEF NewPhase, NewLedger
<1> HIDE DEF p
<1>3. CountsMatch(p)
    <2>1. Total(p.ledger.new_blocking_history) = 0 /\ Cardinality(Blocking(p.findings)) = 0
        BY <1>1, <1>2, TotalEmpty, Zenon
    <2> QED BY <1>2, <2>1 DEF CountsMatch
<1> QED BY <1>2, <1>3 DEF Counted, p

(* A round adds to the findings what it adds to the count. *)
LEMMA ReviewRoundCounted ==
    ASSUME NEW p, PhaseOK(p), Counted(p), p.stage = "reviewing", NEW fs \in SUBSET FindingIds
    PROVE  Counted(RecordReviewRound(p, fs))
<1> DEFINE q == RecordReviewRound(p, fs)
           fresh == NewBlockingSince(p.findings, fs)
           before == Blocking(p.findings)
<1>1. p \in PhaseRecord /\ p.findings \in SUBSET FindingIds /\ p.ledger \in CycleLedger
    BY DEF PhaseOK, PhaseRecord
<1>2. IsFiniteSet(before) /\ IsFiniteSet(fresh)
    BY <1>1, FindingAssumption, FS_Subset DEF Blocking, NewBlockingSince
<1>3. Blocking(p.findings \cup fs) = before \cup fresh /\ before \cap fresh = {}
    BY DEF Blocking, NewBlockingSince
<1>4. /\ Cardinality(before \cup fresh)
             = Cardinality(before) + Cardinality(fresh) - Cardinality(before \cap fresh)
      /\ Cardinality(before) \in Nat /\ Cardinality(fresh) \in Nat
    BY <1>2, FS_Union, FS_CardinalityType
<1>5. Cardinality(Blocking(p.findings \cup fs)) = Cardinality(before) + Cardinality(fresh)
    <2>1. Cardinality(before \cap fresh) = 0
        BY <1>3, FS_EmptySet
    <2>2. Cardinality(before \cup fresh) = Cardinality(before) + Cardinality(fresh)
        BY <1>4, <2>1
    <2> QED BY <1>3, <2>2
<1>6. /\ q.findings = p.findings \cup fs /\ q.ledger = p.ledger
      /\ q.stage = "dispositioning" /\ q.pending_new_blocking = Cardinality(fresh)
    BY <1>1 DEF RecordReviewRound, PhaseRecord
<1>7. p.pending_new_blocking = 0 /\ Total(p.ledger.new_blocking_history) + 0 = Cardinality(before)
    BY DEF Counted, CountsMatch
<1>8. Total(p.ledger.new_blocking_history) + Cardinality(fresh)
          = Cardinality(before) + Cardinality(fresh)
    BY <1>7, TotalIsNat, <1>1, <1>4 DEF CycleLedger
<1> QED BY <1>5, <1>6, <1>8 DEF Counted, CountsMatch

(* A cycle moves the waiting count into the history. *)
LEMMA DispositionCounted ==
    ASSUME NEW p, PhaseOK(p), Counted(p), p.stage = "dispositioning", NEW sub
    PROVE  Counted(RecordDisposition(p, sub))
<1> DEFINE q == RecordDisposition(p, sub)
           l == RecordCycle(p.ledger, p.pending_new_blocking)
           h == p.ledger.new_blocking_history
<1>1. /\ p \in PhaseRecord /\ p.ledger \in CycleLedger /\ h \in Seq(Nat)
      /\ p.pending_new_blocking \in Nat /\ p.ledger.exit_reason = None
    BY DEF PhaseOK, PhaseRecord, CycleLedger, GateMatchesExit
<1>2. l.new_blocking_history = Append(h, p.pending_new_blocking)
    BY <1>1 DEF RecordCycle, WithExit, CycleLedger
<1>3. q.ledger = l /\ q.pending_new_blocking = 0 /\ q.findings = p.findings
    BY <1>1 DEF RecordDisposition, PhaseRecord
<1> HIDE DEF q, l, h
<1>4. /\ Total(q.ledger.new_blocking_history) = Total(h) + p.pending_new_blocking
      /\ Total(h) \in Nat
    BY <1>1, <1>2, <1>3, TotalAppend, TotalIsNat
<1>5. Total(q.ledger.new_blocking_history) + 0 = Total(h) + p.pending_new_blocking
    BY <1>1, <1>4
<1>6. CountsMatch(q)
    BY <1>3, <1>5 DEF Counted, CountsMatch, h
<1> QED BY <1>3, <1>6 DEF Counted, q

(* A draft and a stuck author touch neither side; a human rejection empties *)
(* both.                                                                    *)
LEMMA OthersCounted ==
    ASSUME NEW p, PhaseOK(p), Counted(p)
    PROVE  /\ p.stage = "authoring" => Counted(RecordDraft(p))
           /\ Counted(RecordStuck(p))
           /\ Counted(RecordHumanRejection(p))
<1>1. p \in PhaseRecord /\ p.ledger \in CycleLedger
    BY DEF PhaseOK, PhaseRecord
<1>2. p.stage = "authoring" => Counted(RecordDraft(p))
    BY <1>1 DEF RecordDraft, Counted, CountsMatch, PhaseRecord
<1>3. MarkStuck(p.ledger).new_blocking_history = p.ledger.new_blocking_history
    BY <1>1 DEF MarkStuck, CycleLedger
<1>4. Counted(RecordStuck(p))
    BY <1>1, <1>3 DEF RecordStuck, Counted, CountsMatch, PhaseRecord
<1>5. Blocking({}) = {} /\ Cardinality({}) = 0
    BY FS_EmptySet DEF Blocking
<1>6. HumanRejectionOfLedger(p.ledger).new_blocking_history = <<>>
    BY <1>1 DEF HumanRejectionOfLedger, CycleLedger
<1>7. Counted(RecordHumanRejection(p))
    <2> DEFINE q == RecordHumanRejection(p)
    <2>1. /\ q.ledger.new_blocking_history = <<>> /\ q.pending_new_blocking = 0
          /\ q.findings = {}
        BY <1>1, <1>6 DEF RecordHumanRejection, PhaseRecord
    <2> HIDE DEF q
    <2>2. Total(q.ledger.new_blocking_history) = 0 /\ Cardinality(Blocking(q.findings)) = 0
        BY <1>5, <2>1, TotalEmpty, Zenon
    <2>3. CountsMatch(q)
        BY <2>1, <2>2 DEF CountsMatch
    <2> QED BY <2>1, <2>3 DEF Counted, q
<1> QED BY <1>2, <1>4, <1>7

(* Retries are not counted. *)
LEMMA RetriesUncounted ==
    ASSUME NEW p, PhaseOK(p), Counted(p), NEW t
    PROVE  Counted([p EXCEPT !.ledger = [@ EXCEPT !.retries = t]])
BY DEF PhaseOK, Counted, CountsMatch, PhaseRecord, CycleLedger

-----------------------------------------------------------------------------
(* The inductive invariant: both copies of the phase are well formed, and   *)
(* run.json is where memory is, or the one stage behind it that a process   *)
(* which has not saved its last result may lose.                            *)
PhaseInv ==
    /\ PhaseOK(memory)
    /\ PhaseOK(saved)
    /\ OneStageAtRisk
    /\ driver \in {"driving", "saving", "stopped", "approved"}
    /\ restarts \in 0..MaxRestarts

(* Phases that differ in their retry tallies only have the same numbers. *)
LEMMA SameButRetries ==
    ASSUME NEW p \in PhaseRecord, NEW q \in PhaseRecord,
           WithoutRetries(p) = WithoutRetries(q)
    PROVE  /\ p.stage = q.stage /\ p.version = q.version /\ p.round = q.round
           /\ p.ledger.cycles_used = q.ledger.cycles_used
           /\ p.ledger.human_iterations = q.ledger.human_iterations
<1>1. /\ WithoutRetries(p).stage = WithoutRetries(q).stage
      /\ WithoutRetries(p).version = WithoutRetries(q).version
      /\ WithoutRetries(p).round = WithoutRetries(q).round
      /\ WithoutRetries(p).ledger = WithoutRetries(q).ledger
    OBVIOUS
<1>2. /\ WithoutRetries(p).ledger.cycles_used = WithoutRetries(q).ledger.cycles_used
      /\ WithoutRetries(p).ledger.human_iterations = WithoutRetries(q).ledger.human_iterations
    BY <1>1
<1> QED BY <1>1, <1>2 DEF WithoutRetries, ResetRoundRetries, PhaseRecord, CycleLedger

(* A stage that finishes with a well-formed phase, one stage on from the    *)
(* one in memory, is one stage on from the one in run.json.                 *)
LEMMA FinishInv ==
    ASSUME PhaseInv, driver = "driving", NEW p, PhaseOK(p), OneStageOn(memory, p), Finish(p)
    PROVE  PhaseInv'
<1>1. /\ memory' = p /\ saved' = saved /\ driver' = "saving" /\ restarts' = restarts
      /\ memory \in PhaseRecord /\ saved \in PhaseRecord
    BY DEF PhaseInv, PhaseOK, Finish
<1>2. WithoutRetries(saved) = WithoutRetries(memory)
    BY DEF PhaseInv, OneStageAtRisk
<1>3. OneStageOn(saved, p)
    BY <1>1, <1>2, SameButRetries DEF OneStageOn
<1> QED BY <1>1, <1>3 DEF PhaseInv, OneStageAtRisk

(* Each stage's result is one stage on. *)
LEMMA StagesFollow ==
    ASSUME NEW p, PhaseOK(p)
    PROVE  /\ p.stage = "authoring" => OneStageOn(p, RecordDraft(p))
           /\ \A fs \in SUBSET FindingIds : \A t : p.stage = "reviewing" =>
                OneStageOn(p, RecordReviewRound([p EXCEPT !.ledger = t], fs))
           /\ \A sub \in Submission : p.stage = "dispositioning" =>
                OneStageOn(p, RecordDisposition(p, sub))
           /\ p.stage = "dispositioning" => OneStageOn(p, RecordStuck(p))
           /\ p.stage = "awaiting_approval" => OneStageOn(p, RecordHumanRejection(p))
<1>1. /\ p \in PhaseRecord /\ p.ledger \in CycleLedger
      /\ p.version \in Nat /\ p.ledger.cycles_used \in Nat
      /\ p.ledger.human_iterations \in Nat
    BY DEF PhaseOK, PhaseRecord, CycleLedger
<1>2. p.stage = "authoring" => OneStageOn(p, RecordDraft(p))
    BY <1>1 DEF OneStageOn, RecordDraft, PhaseRecord
<1>3. \A fs \in SUBSET FindingIds : \A t : p.stage = "reviewing" =>
          OneStageOn(p, RecordReviewRound([p EXCEPT !.ledger = t], fs))
    BY <1>1 DEF OneStageOn, RecordReviewRound, PhaseRecord
<1>4. ASSUME NEW sub \in Submission, p.stage = "dispositioning"
      PROVE  OneStageOn(p, RecordDisposition(p, sub))
    <2> DEFINE l == RecordCycle(p.ledger, p.pending_new_blocking)
               q == RecordDisposition(p, sub)
    <2>1. p.ledger.exit_reason = None
        BY <1>4 DEF PhaseOK, GateMatchesExit
    <2>2. l.cycles_used = p.ledger.cycles_used + 1
        BY <1>1, <2>1 DEF RecordCycle, WithExit, CycleLedger
    <2> HIDE DEF l
    <2>3. /\ q.version = p.version + 1 /\ q.ledger = l
          /\ q.stage \in {"reviewing", "awaiting_approval"}
        BY <1>1 DEF RecordDisposition, PhaseRecord, l
    <2> HIDE DEF q
    <2>4. OneStageOn(p, q)
        BY <1>1, <1>4, <2>2, <2>3 DEF OneStageOn
    <2> QED BY <2>4 DEF q
<1>5. p.stage = "dispositioning" => OneStageOn(p, RecordStuck(p))
    BY <1>1 DEF OneStageOn, RecordStuck, MarkStuck, PhaseRecord, CycleLedger
<1>6. p.stage = "awaiting_approval" => OneStageOn(p, RecordHumanRejection(p))
    BY <1>1 DEF OneStageOn, RecordHumanRejection, HumanRejectionOfLedger, PhaseRecord, CycleLedger
<1> QED BY <1>2, <1>3, <1>4, <1>5, <1>6

(* A retry inside a stage keeps the phase well formed and the checkpoint    *)
(* equal to it up to the tallies.                                           *)
LEMMA RetryInv ==
    ASSUME PhaseInv, driver = "driving", NEW kind \in RetryKind, Retry(kind)
    PROVE  PhaseInv'
<1> DEFINE t == [memory.ledger.retries EXCEPT ![kind] = memory.ledger.retries[kind] + 1]
<1>1. /\ memory \in PhaseRecord /\ memory.ledger \in CycleLedger
      /\ memory.ledger.retries \in [RetryKind -> Nat]
    BY DEF PhaseInv, PhaseOK, PhaseRecord, CycleLedger
<1>2. t \in [RetryKind -> Nat] /\ \A k \in RetryKind : t[k] <= FreeRetries[k]
    <2>1. \A k \in RetryKind : memory.ledger.retries[k] <= FreeRetries[k]
        BY DEF PhaseInv, PhaseOK, RetriesWithinAllowance
    <2>2. memory.ledger.retries[kind] < FreeRetries[kind]
        BY DEF Retry, RetryAllowed
    <2>3. memory.ledger.retries[kind] \in Nat /\ FreeRetries[kind] \in Nat
        BY <1>1, FreeRetriesAssumption
    <2> QED BY <1>1, <2>1, <2>2, <2>3
<1>3. memory' = [memory EXCEPT !.ledger = [@ EXCEPT !.retries = t]]
    BY <1>1 DEF Retry, ChargeRetry, RecordFreeRetry
<1> HIDE DEF t
<1>4. PhaseOK(memory')
    BY <1>2, <1>3, RetriesOK DEF PhaseInv
<1>5. WithoutRetries(memory') = WithoutRetries(memory)
    BY <1>1, <1>3 DEF WithoutRetries, ResetRoundRetries, PhaseRecord, CycleLedger
<1>6. UNCHANGED <<saved, driver, restarts>>
    BY DEF Retry
<1>7. WithoutRetries(saved) = WithoutRetries(memory)
    BY DEF PhaseInv, OneStageAtRisk
<1> QED BY <1>4, <1>5, <1>6, <1>7 DEF PhaseInv, OneStageAtRisk

(* Dropped reviewers are charged within the round's allowance. *)
LEMMA ChargeDropsOK ==
    ASSUME NEW p, PhaseOK(p), NEW outcome \in [Roles -> ReviewOutcome]
    PROVE  PhaseOK(ChargeDrops(p, outcome)) /\ ChargeDrops(p, outcome).stage = p.stage
<1> DEFINE t == [k \in RetryKind |-> Capped(Dropped(outcome, k), FreeRetries[k])]
<1>1. \A k \in RetryKind : Dropped(outcome, k) \in Nat
    BY PhaseRolesAssumption, FS_Subset, FS_CardinalityType DEF Dropped
<1>2. t \in [RetryKind -> Nat] /\ \A k \in RetryKind : t[k] <= FreeRetries[k]
    BY <1>1, FreeRetriesAssumption DEF Capped
<1>3. ChargeDrops(p, outcome) = [p EXCEPT !.ledger = [@ EXCEPT !.retries = t]]
    BY DEF PhaseOK, PhaseRecord, CycleLedger, ChargeDrops, ResetRoundRetries
<1> HIDE DEF t
<1> QED BY <1>2, <1>3, RetriesOK

(* The invariant holds of a phase that has just begun. *)
LEMMA PhaseInitInv == PhaseInit => PhaseInv
<1> SUFFICES ASSUME PhaseInit PROVE PhaseInv
    OBVIOUS
<1>1. PhaseOK(memory) /\ PhaseOK(saved) /\ memory = saved
    BY NewPhaseOK, BudgetAssumption DEF PhaseInit
<1> QED BY <1>1, BoundsAssumption DEF PhaseInit, PhaseInv, OneStageAtRisk

(* It is inductive: one case for each outcome of a stage. *)
LEMMA PhaseNextInv == PhaseInv /\ [PhaseNext]_phase_vars => PhaseInv'
<1> SUFFICES ASSUME PhaseInv, [PhaseNext]_phase_vars PROVE PhaseInv'
    OBVIOUS
<1>1. PhaseOK(memory)
    BY DEF PhaseInv
<1>2. CASE AuthorWrites
    BY <1>1, <1>2, RecordDraftOK, StagesFollow, FinishInv DEF AuthorWrites, Driving
<1>3. CASE AuthorWritesNothing
    BY <1>3, RetryInv DEF AuthorWritesNothing, Driving, RetryKind
<1>4. CASE ReviewersReport
    <2>1. PICK outcome \in [Roles -> ReviewOutcome], fs \in SUBSET FindingIds :
              Finish(RecordReviewRound(ChargeDrops(memory, outcome), fs))
        BY <1>4 DEF ReviewersReport
    <2>2. /\ PhaseOK(ChargeDrops(memory, outcome))
          /\ ChargeDrops(memory, outcome).stage = "reviewing"
        BY <1>1, <1>4, ChargeDropsOK DEF ReviewersReport, Driving
    <2>3. PhaseOK(RecordReviewRound(ChargeDrops(memory, outcome), fs))
        BY <2>2, RecordReviewRoundOK
    <2>4. OneStageOn(memory, RecordReviewRound(ChargeDrops(memory, outcome), fs))
        <3> DEFINE t == [ResetRoundRetries(memory.ledger) EXCEPT !.retries =
                            [k \in RetryKind |-> Capped(Dropped(outcome, k), FreeRetries[k])]]
        <3>1. ChargeDrops(memory, outcome) = [memory EXCEPT !.ledger = t]
            BY <1>1 DEF PhaseOK, PhaseRecord, ChargeDrops
        <3>2. memory.stage = "reviewing"
            BY <1>4 DEF ReviewersReport, Driving
        <3> HIDE DEF t
        <3> QED BY <1>1, <3>1, <3>2, StagesFollow
    <2> QED BY <1>4, <2>1, <2>3, <2>4, FinishInv DEF ReviewersReport, Driving
<1>5. CASE AnswersUnreadable
    BY <1>5, RetryInv DEF AnswersUnreadable, Driving, RetryKind
<1>6. CASE AnswersAccepted
    <2>1. PICK sub \in Submission :
              /\ GatePasses(memory.current_round_findings, sub)
              /\ Finish(RecordDisposition(memory, sub))
        BY <1>6 DEF AnswersAccepted
    <2>2. PhaseOK(RecordDisposition(memory, sub))
        BY <1>1, <1>6, <2>1, RecordDispositionOK DEF AnswersAccepted, Driving
    <2>3. OneStageOn(memory, RecordDisposition(memory, sub))
        BY <1>1, <1>6, StagesFollow DEF AnswersAccepted, Driving
    <2> QED BY <1>6, <2>1, <2>2, <2>3, FinishInv DEF AnswersAccepted, Driving
<1>7. CASE AnswersRejected
    <2>1. CASE Retry("disposition")
        BY <1>7, <2>1, RetryInv DEF AnswersRejected, Driving, RetryKind
    <2>2. CASE Finish(RecordStuck(memory))
        BY <1>1, <1>7, <2>2, RecordStuckOK, StagesFollow, FinishInv DEF AnswersRejected, Driving
    <2> QED BY <1>7, <2>1, <2>2 DEF AnswersRejected
<1>8. CASE RequestChanges
    BY <1>1, <1>8, RecordHumanRejectionOK, StagesFollow, FinishInv DEF RequestChanges, Driving
<1>9. CASE Approve
    BY <1>9 DEF Approve, Driving, PhaseInv, OneStageAtRisk
<1>10. CASE StopDriving
    <2>1. PhaseOK(NewPhase(Budget))
        BY NewPhaseOK, BudgetAssumption
    <2> HIDE DEF NewPhase
    <2> QED BY <1>10, <2>1 DEF StopDriving, PhaseInv, OneStageAtRisk
<1>11. CASE Resume
    BY <1>11, BoundsAssumption DEF Resume, PhaseInv, OneStageAtRisk
<1>12. CASE UNCHANGED phase_vars
    BY <1>12 DEF phase_vars, PhaseInv, OneStageAtRisk
<1>13. CASE SaveStage
    BY <1>13 DEF SaveStage, PhaseInv, OneStageAtRisk
<1> QED BY <1>2, <1>3, <1>4, <1>5, <1>6, <1>7, <1>8, <1>9, <1>10, <1>11, <1>12, <1>13
        DEF PhaseNext, DriveStep

(* PhaseInv holds throughout drive_phase, over rejections and restarts. *)
THEOREM PhaseInvariance == PhaseSpec => []PhaseInv
BY PhaseInitInv, PhaseNextInv, PTL DEF PhaseSpec

-----------------------------------------------------------------------------
(* The properties the model checker checks on one instance. *)

(* Both copies of the phase are well typed and no free-retry tally passes   *)
(* its allowance (budget.rs record_free_retry), always.                     *)
THEOREM PhaseTypeCorrect == PhaseSpec => []PhaseTypeOK
<1>1. PhaseInv => PhaseTypeOK
    BY DEF PhaseInv, PhaseTypeOK, PhaseOK
<1> QED BY <1>1, PhaseInvariance, PTL

(* A phase stands at its human gate if and only if its ledger carries an    *)
(* exit reason: drive_phase's "reached the gate without an exit reason"     *)
(* cannot be returned.                                                      *)
THEOREM GateHasReason == PhaseSpec => []GateIffExit
<1>1. PhaseInv => GateIffExit
    BY DEF PhaseInv, GateIffExit, PhaseOK
<1> QED BY <1>1, PhaseInvariance, PTL

(* Over every number of rounds, restarts and human rejections, cycles stay  *)
(* within max_cycles and the exit reason is the one the per-round counts    *)
(* justify (CycleLedger::evaluate).                                         *)
THEOREM BudgetHolds == PhaseSpec => []BudgetExplainsExit
<1>1. PhaseInv => BudgetExplainsExit
    BY DEF PhaseInv, BudgetExplainsExit, PhaseOK
<1> QED BY <1>1, PhaseInvariance, PTL

(* The open round is numbered after the cycles spent, and every draft,      *)
(* cycle and human iteration made a version (record_draft,                  *)
(* record_disposition, record_human_rejection).                             *)
THEOREM RoundsNumbered == PhaseSpec => []RoundFollowsCycles
<1>1. PhaseInv => RoundFollowsCycles
    BY DEF PhaseInv, RoundFollowsCycles, PhaseOK
<1> QED BY <1>1, PhaseInvariance, PTL

(* No blocking finding of a closed round reaches the human gate without the *)
(* author having accepted it or disputed it with a reason (evaluate_gate).  *)
THEOREM NothingUnanswered == PhaseSpec => []AnsweredBeforeGate
<1>1. PhaseInv => AnsweredBeforeGate
    BY DEF PhaseInv, AnsweredBeforeGate, PhaseOK
<1> QED BY <1>1, PhaseInvariance, PTL

(* The packet a human reads at a gate that is not that of a stuck author    *)
(* lists every blocking finding on the table (build_packet).                *)
THEOREM PacketComplete == PhaseSpec => []PacketAccountsForBlocking
<1>1. ASSUME NEW p, PhaseOK(p), p.stage = "awaiting_approval", p.ledger.exit_reason # "stuck"
      PROVE  Blocking(p.findings) = Disputes(p) \cup AcceptedBlocking(p)
    <2>1. p.current_round_findings = {}
        BY <1>1 DEF PhaseOK, ClosedRoundsAnswered
    <2>2. \A i \in Blocking(p.findings) : p.answers[i] \in {"accepted", "disputed"}
        BY <1>1, <2>1 DEF PhaseOK, ClosedRoundsAnswered
    <2> QED BY <2>2 DEF Disputes, AcceptedBlocking
<1>2. PhaseInv => PacketAccountsForBlocking
    BY <1>1 DEF PhaseInv, PacketAccountsForBlocking
<1> QED BY <1>2, PhaseInvariance, PTL

(* Whenever the process dies or an error ends it, between a stage's result  *)
(* and its checkpoint too, run.json is at the stage that was running, or    *)
(* one stage behind it, or was cut short; and no stage is ever run before   *)
(* the one in front of it is saved (drive_phase, checkpoint).               *)
THEOREM NoStageLost == PhaseSpec => []OneStageAtRisk
<1>1. PhaseInv => OneStageAtRisk
    BY DEF PhaseInv
<1> QED BY <1>1, PhaseInvariance, PTL

(* Only the human clears an exit reason, and nothing replaces it            *)
(* (record_cycle, mark_stuck, record_human_rejection).                      *)
THEOREM ExitReasonKept == PhaseSpec => ExitReasonSticky
<1> DEFINE Kept ==
        memory.ledger.exit_reason # None /\ driver # "stopped" =>
          \/ memory'.ledger.exit_reason = memory.ledger.exit_reason
          \/ /\ memory'.ledger.exit_reason = None
             /\ memory'.ledger.human_iterations = memory.ledger.human_iterations + 1
<1>1. PhaseInv /\ [PhaseNext]_phase_vars => [Kept]_phase_vars
    <2> SUFFICES ASSUME PhaseInv, PhaseNext, memory.ledger.exit_reason # None,
                        driver # "stopped"
                 PROVE  Kept
        OBVIOUS
    <2>1. /\ memory \in PhaseRecord /\ memory.ledger \in CycleLedger
          /\ memory.stage = "awaiting_approval"
        BY DEF PhaseInv, PhaseOK, PhaseRecord, GateMatchesExit
    <2>2. DriveStep => SaveStage
        BY <2>1 DEF DriveStep, AuthorWrites, AuthorWritesNothing, ReviewersReport,
                    AnswersUnreadable, AnswersAccepted, AnswersRejected, Driving
    <2>3. CASE RequestChanges
        <3>1. memory'.ledger = HumanRejectionOfLedger(memory.ledger)
            BY <2>1, <2>3 DEF RequestChanges, Finish, RecordHumanRejection, PhaseRecord
        <3> QED BY <2>1, <3>1 DEF HumanRejectionOfLedger, CycleLedger
    <2>4. CASE Approve \/ StopDriving \/ SaveStage
        BY <2>4 DEF Approve, StopDriving, SaveStage
    <2>5. CASE Resume
        BY <2>5 DEF Resume
    <2> QED BY <2>2, <2>3, <2>4, <2>5 DEF PhaseNext
<1>2. PhaseSpec => [][Kept]_phase_vars
    BY <1>1, PhaseInvariance, PTL DEF PhaseSpec
<1> QED BY <1>2 DEF ExitReasonSticky

-----------------------------------------------------------------------------
(* The counts, by an induction of its own that uses the invariant above. *)
BothCounted == Counted(memory) /\ Counted(saved)

(* A stage that ends changes what is in memory only. *)
LEMMA FinishCounted ==
    ASSUME BothCounted, NEW p, Counted(p), Finish(p)
    PROVE  BothCounted'
BY DEF BothCounted, Finish

(* A retry touches no count. *)
LEMMA RetryCounted ==
    ASSUME PhaseInv, BothCounted, NEW kind, Retry(kind)
    PROVE  BothCounted'
<1> DEFINE t == [memory.ledger.retries EXCEPT ![kind] = memory.ledger.retries[kind] + 1]
<1>1. /\ PhaseOK(memory) /\ memory \in PhaseRecord /\ memory.ledger \in CycleLedger
      /\ Counted(memory) /\ Counted(saved)
    BY DEF PhaseInv, BothCounted, PhaseOK, PhaseRecord
<1>2. memory' = [memory EXCEPT !.ledger = [@ EXCEPT !.retries = t]] /\ saved' = saved
    BY <1>1 DEF Retry, ChargeRetry, RecordFreeRetry
<1> HIDE DEF t
<1> QED BY <1>1, <1>2, RetriesUncounted DEF BothCounted

(* The counts stay exact: one case for each outcome of a stage. *)
LEMMA CountedStep == PhaseInv /\ BothCounted /\ [PhaseNext]_phase_vars => BothCounted'
<1> SUFFICES ASSUME PhaseInv, BothCounted, [PhaseNext]_phase_vars PROVE BothCounted'
    OBVIOUS
<1>1. PhaseOK(memory) /\ Counted(memory) /\ Counted(saved)
    BY DEF PhaseInv, BothCounted
<1>2. CASE AuthorWrites
    BY <1>1, <1>2, OthersCounted, FinishCounted DEF AuthorWrites, Driving
<1>3. CASE ReviewersReport
    <2>1. PICK outcome \in [Roles -> ReviewOutcome], fs \in SUBSET FindingIds :
              Finish(RecordReviewRound(ChargeDrops(memory, outcome), fs))
        BY <1>3 DEF ReviewersReport
    <2> DEFINE p == ChargeDrops(memory, outcome)
               t == [k \in RetryKind |-> Capped(Dropped(outcome, k), FreeRetries[k])]
    <2>2. PhaseOK(p) /\ p.stage = "reviewing"
        BY <1>1, <1>3, ChargeDropsOK DEF ReviewersReport, Driving
    <2>3. p = [memory EXCEPT !.ledger = [@ EXCEPT !.retries = t]]
        BY <1>1 DEF PhaseOK, PhaseRecord, CycleLedger, ChargeDrops, ResetRoundRetries
    <2>4. Counted(p)
        <3> HIDE DEF t
        <3> QED BY <1>1, <2>3, RetriesUncounted
    <2> HIDE DEF p
    <2>5. Counted(RecordReviewRound(p, fs))
        BY <2>2, <2>4, ReviewRoundCounted
    <2> QED BY <2>1, <2>5, FinishCounted DEF p
<1>4. CASE AnswersAccepted
    <2>1. PICK sub \in Submission : Finish(RecordDisposition(memory, sub))
        BY <1>4 DEF AnswersAccepted
    <2>2. Counted(RecordDisposition(memory, sub))
        BY <1>1, <1>4, DispositionCounted DEF AnswersAccepted, Driving
    <2> QED BY <2>1, <2>2, FinishCounted
<1>5. CASE AuthorWritesNothing \/ AnswersUnreadable
    BY <1>5, RetryCounted DEF AuthorWritesNothing, AnswersUnreadable
<1>6. CASE AnswersRejected
    <2>1. CASE Retry("disposition")
        BY <2>1, RetryCounted
    <2>2. CASE Finish(RecordStuck(memory))
        BY <1>1, <2>2, OthersCounted, FinishCounted
    <2> QED BY <1>6, <2>1, <2>2 DEF AnswersRejected
<1>7. CASE RequestChanges
    BY <1>1, <1>7, OthersCounted, FinishCounted DEF RequestChanges
<1>8. CASE Approve \/ SaveStage \/ StopDriving \/ Resume \/ UNCHANGED phase_vars
    <2>1. Counted(NewPhase(Budget))
        BY NewPhaseCounted
    <2> HIDE DEF NewPhase
    <2> QED BY <1>1, <1>8, <2>1 DEF Approve, SaveStage, StopDriving, Resume, phase_vars, BothCounted
<1> QED BY <1>2, <1>3, <1>4, <1>5, <1>6, <1>7, <1>8 DEF PhaseNext, DriveStep

(* Over every number of rounds, restarts and human rejections, the counts   *)
(* the stop conditions are computed from account for each blocking finding  *)
(* on the table exactly once (new_blocking_since, record_cycle).            *)
THEOREM CountsExact == PhaseSpec => []CountsMatchFindings
<1>1. PhaseInit => BothCounted
    BY NewPhaseCounted DEF PhaseInit, BothCounted
<1>2. BothCounted => CountsMatchFindings
    BY DEF BothCounted, Counted, CountsMatchFindings
<1> QED BY <1>1, <1>2, CountedStep, PhaseInvariance, PTL DEF PhaseSpec

-----------------------------------------------------------------------------
(***************************************************************************)
(*                              The whole run                              *)
(***************************************************************************)
(* The inductive invariant, part by part. *)

Stamp == Kind \X Nat \X Nat
Report == [findings : SUBSET FindingIds, about : Stamp]
Decision == [what : Written, about : Stamp]

Waiting == {"awaiting_plan_approval", "awaiting_code_approval"}
Changes == {"changes", "changes_blank"}

FilesOK ==
    /\ review \in [Kind -> [Rounds -> [Reviewers -> Report \cup {Absent}]]]
    /\ disposition \in [Kind -> [Rounds -> Submission \cup {Absent}]]
    /\ brief \in [Kind -> SUBSET Iterations]

GateOK ==
    /\ packet \in [Kind -> Stamp \cup {Absent}]
    /\ decision \in [Kind -> Decision \cup {Absent}]
    /\ taken \in Decision \cup {Absent}
    /\ approvals \subseteq Stamp

ControlOK ==
    /\ pc \in PCs /\ then \in {"stage", "publish", "down"}
    /\ plan_only \in BOOLEAN /\ starts \in 0..MaxStarts

(* A phase of kind k keeps the budget it was given. *)
PhaseIs(k, p) == PhaseOK(p) /\ p.ledger.max_cycles = MaxCycles[k]

(* A snapshot: the code phase is there once the plan is approved, and a     *)
(* status that waits for the human goes with a phase that is ready.         *)
RunOK(r) ==
    /\ r \in RunState
    /\ PhaseIs("plan", r.plan)
    /\ r.code # NoPhase => PhaseIs("code", r.code)
    /\ r.status \in {"planning", "awaiting_plan_approval"} => r.code = NoPhase
    /\ r.status \in {"implementing", "awaiting_code_approval", "completed"} => r.code # NoPhase
    /\ r.status \in Waiting => r[Active(r.status)].stage = "awaiting_approval"

SnapshotsOK == RunOK(run) /\ (disk \notin Unreadable => RunOK(disk))

(* A finished run is only ever flushed, and the gate stands only while the  *)
(* status waits.                                                            *)
StatusFollows ==
    /\ pc \notin {"flush", "down"} => run.status \notin Terminal
    /\ pc = "flush" /\ then # "down" => run.status \notin Terminal
    /\ pc = "flush" /\ then = "publish" => run.status \in Waiting
    /\ pc \in {"publish", "clear", "poll", "decided"} => run.status \in Waiting

(* What is shown, what is waiting to be read and what was read are about    *)
(* the version in memory, once the left-over decision has been removed.     *)
Fits(d) == d.about = Shown(run, which) /\ (d.what \in Changes => Rejections < MaxHuman)
GateCurrent ==
    /\ pc \in {"clear", "poll", "decided"} => packet[which] = Shown(run, which)
    /\ pc = "poll" /\ decision[which] # Absent => Fits(decision[which])
    /\ pc = "decided" => taken # Absent /\ Fits(taken)
    /\ pc # "decided" => taken = Absent

ApprovalsRemembered ==
    /\ \A k \in Kind : decision[k] # Absent /\ decision[k].what = "approve"
                          => decision[k].about \in approvals
    /\ taken # Absent /\ taken.what = "approve" => taken.about \in approvals

(* Outside a checkpoint, run.json is what memory is, when it can be read.   *)
DiskCaughtUp == pc \notin {"flush", "down"} => disk \in Unreadable \/ disk = run

(* A phase that is at work holds its last feedback in the brief, for the    *)
(* run in memory and for the one a restart would take up.  At a gate the    *)
(* brief may be empty: an append may have been cut short there.             *)
Fed(r) ==
    LET k == Active(r.status)
        n == r[k].ledger.human_iterations
    IN  r[k] # NoPhase /\ r[k].stage # "awaiting_approval" /\ n > 0 => n \in brief[k]
FeedbackKept == (pc # "down" => Fed(run)) /\ (disk \notin Unreadable => Fed(disk))

(* HumanApprovedIt, of one snapshot. *)
Approved(r) ==
    /\ r.code # NoPhase => Shown(r, "plan") \in approvals
    /\ r.status = "completed" => Shown(r, "code") \in approvals
ApprovedOK == Approved(run) /\ (disk \notin Unreadable => Approved(disk))

Inv ==
    /\ FilesOK /\ GateOK /\ ControlOK
    /\ SnapshotsOK /\ StatusFollows
    /\ GateCurrent /\ ApprovalsRemembered
    /\ ApprovedOK /\ FeedbackKept /\ DiskCaughtUp

-----------------------------------------------------------------------------
(* How far run.json may be behind memory. *)

(* The change of status a checkpoint may carry. *)
StatusStep(s, t) ==
    \/ s \in {"planning", "implementing"} \cup Waiting /\ t = s
    \/ s = "planning" /\ t = "awaiting_plan_approval"
    \/ s = "implementing" /\ t = "awaiting_code_approval"
    \/ s = "awaiting_plan_approval" /\ t \in {"planning", "implementing", "cancelled"}
    \/ s = "awaiting_code_approval" /\ t \in {"implementing", "completed", "cancelled"}

(* A new version comes with no change of status. *)
Behind(d, r) ==
    /\ StatusStep(d.status, r.status)
    /\ \/ r.plan.version = d.plan.version
       \/ d.status = "planning" /\ r.status = "planning" /\ r.plan.version = d.plan.version + 1
    /\ d.code = NoPhase => r.code = NoPhase \/ r.code.version = 0
    /\ d.code # NoPhase =>
          /\ r.code # NoPhase
          /\ \/ r.code.version = d.code.version
             \/ d.status = "implementing" /\ r.status = "implementing"
                /\ r.code.version = d.code.version + 1

Unwritten ==
    /\ run.status = "planning" /\ run.code = NoPhase
    /\ run.plan.version <= 1
    /\ pc \notin {"flush", "down"} => run.plan.version = 0

(* A process without a snapshot to go by has just begun; one with a         *)
(* snapshot is at most a checkpoint ahead of it.                            *)
DiskFollows ==
    /\ disk = Missing \/ (disk = Torn /\ pc # "down") => Unwritten
    /\ disk \notin Unreadable =>
          /\ run.created = disk.created
          /\ pc \notin {"flush", "down"} => run = disk
          /\ pc = "flush" => Behind(disk, run)
          /\ pc = "down" => run = disk \/ Behind(disk, run)

(* A stamp about a version that reached run.json, or about a run that went  *)
(* before this one.                                                         *)
Recorded(a) ==
    IF disk \in Unreadable THEN pc # "down" => a[2] < run.created
    ELSE \/ a[2] < disk.created
         \/ a[2] = disk.created /\ disk[a[1]] # NoPhase /\ a[3] <= disk[a[1]].version

StampsRecorded ==
    /\ run.created <= starts
    /\ \A k \in Kind : packet[k] # Absent =>
          packet[k][1] = k /\ packet[k][2] <= starts /\ Recorded(packet[k])
    /\ \A a \in approvals : a[2] <= starts /\ Recorded(a)

DInv == Inv /\ DiskFollows /\ StampsRecorded

-----------------------------------------------------------------------------
(* What the mutators leave of a phase: the budget and the human iterations, *)
(* and a version that grows by one or not at all.                           *)

Revises(k, p, q) ==
    /\ PhaseIs(k, q)
    /\ q.ledger.human_iterations = p.ledger.human_iterations
    /\ q.version = p.version \/ q.version = p.version + 1

(* record_draft makes the next version. *)
LEMMA DraftRevises ==
    ASSUME NEW k, NEW p, PhaseIs(k, p), p.stage = "authoring"
    PROVE  Revises(k, p, RecordDraft(p))
<1>1. p \in PhaseRecord
    BY DEF PhaseIs, PhaseOK
<1>2. PhaseOK(RecordDraft(p))
    BY RecordDraftOK DEF PhaseIs
<1>3. RecordDraft(p).ledger = p.ledger /\ RecordDraft(p).version = p.version + 1
    BY <1>1 DEF RecordDraft, PhaseRecord
<1> QED BY <1>2, <1>3 DEF Revises, PhaseIs

(* record_review_round makes none. *)
LEMMA ReviewRevises ==
    ASSUME NEW k, NEW p, PhaseIs(k, p), p.stage = "reviewing", NEW fs \in SUBSET FindingIds
    PROVE  Revises(k, p, RecordReviewRound(p, fs))
<1>1. p \in PhaseRecord
    BY DEF PhaseIs, PhaseOK
<1>2. PhaseOK(RecordReviewRound(p, fs))
    BY RecordReviewRoundOK DEF PhaseIs
<1>3. RecordReviewRound(p, fs).ledger = p.ledger /\ RecordReviewRound(p, fs).version = p.version
    BY <1>1 DEF RecordReviewRound, PhaseRecord
<1> QED BY <1>2, <1>3 DEF Revises, PhaseIs

(* record_disposition makes the next version and counts a cycle. *)
LEMMA DispositionRevises ==
    ASSUME NEW k, NEW p, PhaseIs(k, p), p.stage = "dispositioning",
           NEW sub \in Submission, GatePasses(p.current_round_findings, sub)
    PROVE  Revises(k, p, RecordDisposition(p, sub))
<1> DEFINE q == RecordDisposition(p, sub)
           l == p.ledger
<1>1. p \in PhaseRecord /\ l \in CycleLedger /\ p.pending_new_blocking \in Nat
    BY DEF PhaseIs, PhaseOK, PhaseRecord
<1>2. PhaseOK(q)
    BY RecordDispositionOK DEF PhaseIs
<1>3. q.ledger = RecordCycle(l, p.pending_new_blocking) /\ q.version = p.version + 1
    BY <1>1 DEF RecordDisposition, PhaseRecord
<1>4. q.ledger.max_cycles = l.max_cycles /\ q.ledger.human_iterations = l.human_iterations
    BY <1>1, <1>3 DEF RecordCycle, WithExit, CycleLedger
<1> QED BY <1>2, <1>3, <1>4 DEF Revises, PhaseIs

(* record_stuck closes the phase on the version it has. *)
LEMMA StuckRevises ==
    ASSUME NEW k, NEW p, PhaseIs(k, p), p.stage = "dispositioning"
    PROVE  Revises(k, p, RecordStuck(p))
<1> DEFINE q == RecordStuck(p)
<1>1. p \in PhaseRecord /\ p.ledger \in CycleLedger
    BY DEF PhaseIs, PhaseOK, PhaseRecord
<1>2. PhaseOK(q)
    BY RecordStuckOK DEF PhaseIs
<1>3. q.ledger = MarkStuck(p.ledger) /\ q.version = p.version
    BY <1>1 DEF RecordStuck, PhaseRecord
<1>4. q.ledger.max_cycles = p.ledger.max_cycles
      /\ q.ledger.human_iterations = p.ledger.human_iterations
    BY <1>1, <1>3 DEF MarkStuck, CycleLedger
<1> QED BY <1>2, <1>3, <1>4 DEF Revises, PhaseIs

(* record_human_rejection keeps the version and counts an iteration. *)
LEMMA RejectionReopens ==
    ASSUME NEW k, NEW p, PhaseIs(k, p), p.stage = "awaiting_approval"
    PROVE  LET q == RecordHumanRejection(p)
           IN  /\ PhaseIs(k, q)
               /\ q.version = p.version
               /\ q.ledger.human_iterations = p.ledger.human_iterations + 1
<1> DEFINE q == RecordHumanRejection(p)
<1>1. p \in PhaseRecord /\ p.ledger \in CycleLedger
    BY DEF PhaseIs, PhaseOK, PhaseRecord
<1>2. PhaseOK(q)
    BY RecordHumanRejectionOK DEF PhaseIs
<1>3. q.ledger = HumanRejectionOfLedger(p.ledger) /\ q.version = p.version
    BY <1>1 DEF RecordHumanRejection, PhaseRecord
<1>4. q.ledger.max_cycles = p.ledger.max_cycles
      /\ q.ledger.human_iterations = p.ledger.human_iterations + 1
    BY <1>1, <1>3 DEF HumanRejectionOfLedger, CycleLedger
<1> QED BY <1>2, <1>3, <1>4 DEF PhaseIs

(* A new phase has no version yet and all of its budget. *)
LEMMA FreshPhase ==
    ASSUME NEW k \in Kind
    PROVE  LET p == NewPhase(MaxCycles[k])
           IN  PhaseIs(k, p) /\ p.version = 0 /\ p.ledger.human_iterations = 0
<1>1. MaxCycles[k] \in Nat
    BY CyclesAssumption DEF Kind
<1>2. PhaseOK(NewPhase(MaxCycles[k]))
    BY <1>1, NewPhaseOK
<1> QED BY <1>2 DEF PhaseIs, NewPhase, NewLedger

(* The numbers of a phase. *)
LEMMA PhaseNumbers ==
    ASSUME NEW k, NEW p, PhaseIs(k, p)
    PROVE  /\ p \in PhaseRecord /\ p.version \in Nat /\ p.ledger.human_iterations \in Nat
           /\ p.stage # "authoring" => p.version > 0
<1>1. p \in PhaseRecord /\ p.ledger \in CycleLedger
    BY DEF PhaseIs, PhaseOK, PhaseRecord
<1>2. p.version \in Nat /\ p.ledger.human_iterations \in Nat /\ p.ledger.cycles_used \in Nat
    BY <1>1 DEF PhaseRecord, CycleLedger
<1> QED BY <1>1, <1>2 DEF PhaseIs, PhaseOK, RoundMatchesCycles

(* A round under way has files of its own. *)
LEMMA RoundInRange ==
    ASSUME NEW k \in Kind, NEW p, PhaseIs(k, p), p.stage \in {"reviewing", "dispositioning"}
    PROVE  p.round \in Rounds
<1> DEFINE l == p.ledger
<1>1. l \in CycleLedger /\ p \in PhaseRecord
    BY DEF PhaseIs, PhaseOK, PhaseRecord
<1>2. p.round = l.cycles_used + 1 /\ l.cycles_used \in Nat /\ l.max_cycles = MaxCycles[k]
    BY <1>1 DEF PhaseIs, PhaseOK, RoundMatchesCycles, CycleLedger
<1>3. l.exit_reason = None
    BY DEF PhaseIs, PhaseOK, GateMatchesExit
<1>4. l.cycles_used > 0 => l.cycles_used < MaxCycles[k]
    BY <1>2, <1>3 DEF PhaseIs, PhaseOK, LedgerExplained
<1>5. MaxCycles.plan \in Nat /\ MaxCycles.code \in Nat
    BY CyclesAssumption
<1>6. MaxCycles[k] = MaxCycles.plan \/ MaxCycles[k] = MaxCycles.code
    BY DEF Kind
<1>7. l.cycles_used <= MaxCycles.plan + MaxCycles.code
    BY <1>2, <1>4, <1>5, <1>6
<1> QED BY <1>2, <1>5, <1>7 DEF Rounds

-----------------------------------------------------------------------------
(* A run that is not over has an active phase, and it is well formed. *)
LEMMA ActivePhase ==
    ASSUME NEW r, RunOK(r), r.status \notin Terminal
    PROVE  LET k == Active(r.status)
           IN  /\ k \in Kind /\ PhaseIs(k, r[k])
               /\ k = "plan" <=> r.code = NoPhase
<1>1. r.status \in RunStatus
    BY DEF RunOK, RunState
<1> QED BY <1>1 DEF RunOK, Active, Kind, Terminal, RunStatus

(* Replacing the phase at work leaves a well-formed run, and the rest of it. *)
LEMMA Replaced ==
    ASSUME NEW r, RunOK(r), r.status \in {"planning", "implementing"},
           NEW q, PhaseIs(Active(r.status), q)
    PROVE  LET s == [r EXCEPT ![Active(r.status)] = q]
           IN  /\ RunOK(s) /\ s.status = r.status /\ s.created = r.created
               /\ r.status = "planning" => s.plan = q /\ s.code = r.code /\ r.code = NoPhase
               /\ r.status = "implementing" => s.code = q /\ s.plan = r.plan /\ r.code # NoPhase
<1> DEFINE s == [r EXCEPT ![Active(r.status)] = q]
<1>1. q \in PhaseRecord /\ q # NoPhase
    BY AbsenceAssumption DEF PhaseIs, PhaseOK
<1>2. CASE r.status = "planning"
    <2>1. Active(r.status) = "plan"
        BY <1>2 DEF Active
    <2>2. /\ s \in RunState /\ s.status = r.status /\ s.created = r.created
          /\ s.plan = q /\ s.code = r.code
        BY <1>1, <2>1 DEF RunOK, RunState
    <2> QED BY <1>2, <2>1, <2>2 DEF RunOK, Waiting
<1>3. CASE r.status = "implementing"
    <2>1. Active(r.status) = "code"
        BY <1>3 DEF Active
    <2>2. /\ s \in RunState /\ s.status = r.status /\ s.created = r.created
          /\ s.code = q /\ s.plan = r.plan
        BY <1>1, <2>1 DEF RunOK, RunState
    <2> QED BY <1>1, <1>3, <2>1, <2>2 DEF RunOK, Waiting
<1> QED BY <1>2, <1>3

(* A phase that is not ready belongs to a run that is working. *)
LEMMA WorkingStatus ==
    ASSUME Inv, pc = "stage", phase.stage # "awaiting_approval"
    PROVE  run.status \in {"planning", "implementing"}
<1>1. run.status \notin Terminal /\ RunOK(run) /\ run.status \in RunStatus
    BY DEF Inv, StatusFollows, SnapshotsOK, RunOK, RunState
<1>2. run.status \notin Waiting
    BY <1>1 DEF RunOK, phase, which
<1> QED BY <1>1, <1>2 DEF Terminal, Waiting, RunStatus

(* A stage that ends by checkpointing a revised phase. *)
LEMMA StageInv ==
    ASSUME Inv, pc = "stage", phase.stage # "awaiting_approval",
           NEW q, Revises(which, phase, q), Checkpoint(WithPhase(q), "stage"),
           UNCHANGED <<disk, plan_only, starts, brief, gate>>, FilesOK'
    PROVE  Inv'
<1>1. run.status \in {"planning", "implementing"}
    BY WorkingStatus
<1>2. RunOK(run)
    BY DEF Inv, SnapshotsOK
<1> DEFINE s == [run EXCEPT ![Active(run.status)] = q]
<1>3. /\ RunOK(s) /\ s.status = run.status /\ s.created = run.created
      /\ run.status = "planning" => s.plan = q /\ s.code = run.code /\ run.code = NoPhase
      /\ run.status = "implementing" => s.code = q /\ s.plan = run.plan /\ run.code # NoPhase
    BY <1>1, <1>2, Replaced DEF Revises, which
<1>4. run' = s /\ pc' = "flush" /\ then' = "stage"
    BY DEF Checkpoint, WithPhase, which
<1>5. SnapshotsOK'
    BY <1>3, <1>4 DEF Inv, SnapshotsOK, Unreadable
<1>6. GateOK' /\ ControlOK' /\ ApprovalsRemembered'
    BY <1>4 DEF Inv, GateOK, ControlOK, ApprovalsRemembered, gate, PCs
<1>7. StatusFollows' /\ GateCurrent'
    BY <1>1, <1>3, <1>4 DEF Inv, StatusFollows, GateCurrent, Terminal, gate
<1>8. Approved(s)
    BY <1>1, <1>3 DEF Inv, ApprovedOK, Approved, Shown
<1>9. ApprovedOK'
    BY <1>4, <1>8 DEF Inv, ApprovedOK, Approved, Unreadable, Shown, gate
<1>10. Fed(s)
    <2>1. Fed(run) /\ phase # NoPhase /\ phase = run[Active(run.status)]
        <3>1. run.status \notin Terminal
            BY <1>1 DEF Terminal
        <3> QED BY <1>2, <3>1, ActivePhase, AbsenceAssumption
            DEF Inv, FeedbackKept, phase, which, PhaseIs, PhaseOK
    <2>2. q.ledger.human_iterations = phase.ledger.human_iterations
        BY DEF Revises
    <2>3. s[Active(s.status)] = q
        <3> HIDE DEF s
        <3> QED BY <1>1, <1>3 DEF Active
    <2> HIDE DEF s
    <2> QED BY <1>3, <2>1, <2>2, <2>3 DEF Fed
<1>11. FeedbackKept'
    BY <1>4, <1>10 DEF Inv, FeedbackKept, Fed, Unreadable
<1>12. DiskCaughtUp'
    BY <1>4 DEF DiskCaughtUp
<1> QED BY <1>5, <1>6, <1>7, <1>9, <1>11, <1>12 DEF Inv

-----------------------------------------------------------------------------
(* RunState::new *)
LEMMA FreshRun ==
    ASSUME NEW c \in Nat
    PROVE  LET r == NewRun(c)
           IN  /\ RunOK(r) /\ r.status = "planning" /\ r.code = NoPhase
               /\ r.plan.version = 0 /\ r.plan.ledger.human_iterations = 0
               /\ r.created = c
<1> DEFINE p == NewPhase(MaxCycles["plan"])
           r == NewRun(c)
<1>1. PhaseIs("plan", p) /\ p.version = 0 /\ p.ledger.human_iterations = 0
    BY FreshPhase DEF Kind
<1>2. p \in PhaseRecord
    BY <1>1 DEF PhaseIs, PhaseOK
<1> HIDE DEF p
<1>3. r = [status |-> "planning", created |-> c, plan |-> p, code |-> NoPhase]
    BY DEF NewRun, p
<1>4. r \in RunState
    BY <1>2, <1>3 DEF RunState, RunStatus
<1> QED BY <1>1, <1>3, <1>4 DEF RunOK, Waiting

(* Nothing has been started. *)
LEMMA InitInv == Init => Inv
<1> SUFFICES ASSUME Init PROVE Inv
    OBVIOUS
<1>1. RunOK(run) /\ run.status = "planning" /\ run.code = NoPhase
    BY FreshRun DEF Init
<1>2. FilesOK /\ GateOK /\ ApprovalsRemembered
    BY DEF Init, FilesOK, NoFeedback, GateOK, ApprovalsRemembered
<1>3. ControlOK
    <2>1. pc = "down" /\ then = "stage" /\ starts = 0
        BY DEF Init
    <2>2. plan_only \in BOOLEAN
        BY DEF Init
    <2> QED BY <2>1, <2>2, StartsAssumption DEF ControlOK, PCs
<1>4. SnapshotsOK /\ ApprovedOK
    BY <1>1 DEF Init, SnapshotsOK, ApprovedOK, Approved, Unreadable
<1>5. StatusFollows /\ GateCurrent /\ FeedbackKept /\ DiskCaughtUp
    BY DEF Init, StatusFollows, GateCurrent, FeedbackKept, DiskCaughtUp, Unreadable
<1> QED BY <1>2, <1>3, <1>4, <1>5 DEF Inv

(* A step that leaves memory, run.json and the brief alone keeps what they  *)
(* hold well formed, approved and fed.                                      *)
LEMMA SameRun ==
    ASSUME Inv, UNCHANGED <<run, disk, brief>>, approvals \subseteq approvals',
           pc = "down" => pc' = "down", pc = "flush" => pc' \in {"flush", "down"}
    PROVE  SnapshotsOK' /\ ApprovedOK' /\ FeedbackKept' /\ DiskCaughtUp'
<1>1. SnapshotsOK'
    BY DEF Inv, SnapshotsOK, Unreadable
<1>2. ApprovedOK'
    BY DEF Inv, ApprovedOK, Approved, Shown, Unreadable
<1>3. FeedbackKept'
    BY DEF Inv, FeedbackKept, Fed, Unreadable
<1>4. DiskCaughtUp'
    BY DEF Inv, DiskCaughtUp, Unreadable
<1> QED BY <1>1, <1>2, <1>3, <1>4

(* load_or_start: a fresh run, or the one in run.json. *)
LEMMA LaunchInv ==
    ASSUME Inv, pc = "down", StartFresh \/ StartResumed
    PROVE  Inv'
<1>1. /\ starts < MaxStarts /\ starts' = starts + 1 /\ pc' = "stage" /\ then' = "stage"
      /\ plan_only' \in BOOLEAN
      /\ UNCHANGED <<disk, artifact, review, disposition, packet, decision, taken>>
    BY DEF StartFresh, StartResumed, Launch
<1>2. RunOK(run') /\ run'.status \notin Terminal
    <2>1. CASE StartFresh
        <3>1. starts + 1 \in Nat
            BY DEF Inv, ControlOK
        <3>2. run' = NewRun(starts + 1)
            BY <2>1 DEF StartFresh, Launch
        <3> QED BY <3>1, <3>2, FreshRun DEF Terminal
    <2>2. CASE StartResumed
        BY <2>2 DEF StartResumed, Launch, Inv, SnapshotsOK
    <2> QED BY <2>1, <2>2
<1>9. Approved(run)'
    <2>1. CASE StartFresh
        <3>1. starts + 1 \in Nat
            BY DEF Inv, ControlOK
        <3>2. run' = NewRun(starts + 1)
            BY <2>1 DEF StartFresh, Launch
        <3> QED BY <3>1, <3>2, FreshRun DEF Approved
    <2>2. CASE StartResumed
        BY <2>2 DEF StartResumed, Launch, Inv, ApprovedOK, Approved, Shown
    <2> QED BY <2>1, <2>2
<1>8. /\ approvals' \subseteq approvals
      /\ \A k \in Kind : decision[k] # Absent /\ decision[k].about \in approvals
                            => decision[k].about \in approvals'
      /\ disk \in Unreadable \/ (approvals' = approvals /\ run' = disk)
    BY DEF StartFresh, StartResumed, Launch, Outstanding
<1>3. FeedbackKept' /\ FilesOK'
    <2>1. CASE StartFresh
        <3>1. starts + 1 \in Nat
            BY DEF Inv, ControlOK
        <3>2. run' = NewRun(starts + 1) /\ brief' = NoFeedback /\ disk' \in Unreadable
            BY <2>1 DEF StartFresh, Launch
        <3>3. Fed(run)'
            BY <3>1, <3>2, FreshRun DEF Fed, Active
        <3>4. FilesOK'
            BY <1>1, <3>2 DEF Inv, FilesOK, NoFeedback
        <3> QED BY <3>2, <3>3, <3>4 DEF FeedbackKept, Unreadable
    <2>2. CASE StartResumed
        <3>1. run' = disk /\ UNCHANGED <<disk, brief>> /\ disk \notin Unreadable
            BY <2>2 DEF StartResumed, Launch
        <3>2. FilesOK'
            BY <1>1, <3>1 DEF Inv, FilesOK
        <3> QED BY <3>1, <3>2 DEF FeedbackKept, Fed, Inv, Unreadable
    <2> QED BY <2>1, <2>2
<1>4. GateOK' /\ ApprovalsRemembered'
    <2>1. taken = Absent
        BY DEF Inv, GateCurrent
    <2> QED BY <1>1, <1>8, <2>1 DEF Inv, GateOK, ApprovalsRemembered
<1>5. ControlOK'
    BY <1>1, StartsAssumption DEF Inv, ControlOK, PCs
<1>6. SnapshotsOK' /\ ApprovedOK'
    <2>1. SnapshotsOK' /\ Approved(run)'
        BY <1>1, <1>2, <1>9 DEF Inv, SnapshotsOK, Unreadable
    <2>2. disk' \notin Unreadable' => Approved(disk)'
        BY <1>1, <1>8 DEF Inv, ApprovedOK, Approved, Shown, Unreadable
    <2> QED BY <2>1, <2>2 DEF ApprovedOK
<1>7. StatusFollows' /\ GateCurrent' /\ DiskCaughtUp'
    BY <1>1, <1>2, <1>8 DEF Inv, StatusFollows, GateCurrent, DiskCaughtUp, Unreadable
<1> QED BY <1>3, <1>4, <1>5, <1>6, <1>7 DEF Inv

(* The snapshot is written. *)
LEMMA FlushInv ==
    ASSUME Inv, FlushRun
    PROVE  Inv'
<1>1. pc = "flush" /\ disk' = run /\ pc' = then /\ then' = "stage"
      /\ UNCHANGED <<run, plan_only, starts, files, gate>>
    BY DEF FlushRun
<1>2. FilesOK' /\ GateOK' /\ ApprovalsRemembered'
    BY <1>1 DEF Inv, FilesOK, GateOK, ApprovalsRemembered, files, gate
<1>3. ControlOK' /\ StatusFollows' /\ GateCurrent'
    BY <1>1 DEF Inv, ControlOK, StatusFollows, GateCurrent, PCs, gate
<1>4. SnapshotsOK' /\ ApprovedOK'
    BY <1>1 DEF Inv, SnapshotsOK, ApprovedOK, Approved, Shown, gate
<1>5. FeedbackKept'
    BY <1>1 DEF Inv, FeedbackKept, Fed, files
<1>6. DiskCaughtUp'
    BY <1>1 DEF DiskCaughtUp
<1> QED BY <1>2, <1>3, <1>4, <1>5, <1>6 DEF Inv

-----------------------------------------------------------------------------
(* Agents write a file of the round at work; nothing else is touched. *)
LEMMA AgentInv ==
    ASSUME Inv, AgentStep
    PROVE  Inv'
<1>1. UNCHANGED <<run, disk, pc, then, plan_only, starts, brief, gate>>
    BY DEF AgentStep, WriteArtifact, WriteReview, WriteDispositions
<1>2. FilesOK'
    <2>1. RunOK(run) /\ run.status \notin Terminal
        BY DEF Inv, SnapshotsOK, StatusFollows, AgentStep, WriteArtifact, WriteReview,
               WriteDispositions, InStage
    <2>2. which \in Kind /\ PhaseIs(which, phase)
        BY <2>1, ActivePhase DEF which, phase
    <2>3. CASE WriteArtifact
        BY <2>3 DEF WriteArtifact, Inv, FilesOK
    <2>4. ASSUME NEW r \in Reviewers, WriteReview(r) PROVE FilesOK'
        <3>1. phase.stage = "reviewing"
            BY <2>4 DEF WriteReview, InStage
        <3>2. phase.round \in Rounds
            BY <2>2, <3>1, RoundInRange
        <3>3. Shown(run, which) \in Stamp
            BY <2>1, <2>2, PhaseNumbers DEF Shown, Stamp, RunOK, RunState, phase
        <3>4. PICK content \in SUBSET FindingIds :
                  review' = [review EXCEPT ![which][phase.round][r] =
                                [findings |-> content, about |-> Shown(run, which)]]
            BY <2>4 DEF WriteReview
        <3>5. [findings |-> content, about |-> Shown(run, which)] \in Report
            BY <3>3 DEF Report
        <3>6. review' \in [Kind -> [Rounds -> [Reviewers -> Report \cup {Absent}]]]
            BY <2>2, <3>2, <3>4, <3>5 DEF Inv, FilesOK
        <3> QED BY <2>4, <3>6 DEF WriteReview, Inv, FilesOK
    <2>5. CASE WriteDispositions
        <3>1. PICK sub \in Answers : disposition' = [disposition EXCEPT ![which][phase.round] = sub]
            BY <2>5 DEF WriteDispositions
        <3>2. disposition' \in [Kind -> [Rounds -> Submission \cup {Absent}]]
            BY <3>1, AnswersAssumption DEF Inv, FilesOK
        <3> QED BY <2>5, <3>2 DEF WriteDispositions, Inv, FilesOK
    <2> QED BY <2>3, <2>4, <2>5 DEF AgentStep
<1>3. GateOK' /\ ControlOK' /\ ApprovalsRemembered'
    BY <1>1 DEF Inv, GateOK, ControlOK, ApprovalsRemembered, gate
<1>4. StatusFollows' /\ GateCurrent'
    BY <1>1 DEF Inv, StatusFollows, GateCurrent, Fits, Rejections, which, Shown, gate
<1>5. SnapshotsOK' /\ ApprovedOK' /\ FeedbackKept' /\ DiskCaughtUp'
    BY <1>1, SameRun DEF gate
<1> QED BY <1>2, <1>3, <1>4, <1>5 DEF Inv

(* The three stages that checkpoint a revised phase, and the error exit. *)
LEMMA ExecuteInv ==
    ASSUME Inv, ExecuteAuthor \/ ExecuteReviewRound \/ ExecuteDisposition
    PROVE  /\ Inv' /\ pc = "stage" /\ phase.stage # "awaiting_approval"
           /\ UNCHANGED <<disk, approvals, packet>>
           /\ \E q : Revises(which, phase, q) /\ Checkpoint(WithPhase(q), "stage")
<1>0. pc = "stage" /\ phase.stage # "awaiting_approval"
      /\ UNCHANGED <<disk, plan_only, starts, brief, gate>>
    BY DEF ExecuteAuthor, ExecuteReviewRound, ExecuteDisposition, InStage, files
<1>1. RunOK(run) /\ run.status \notin Terminal
    BY <1>0 DEF Inv, SnapshotsOK, StatusFollows
<1>2. which \in Kind /\ PhaseIs(which, phase)
    BY <1>1, ActivePhase DEF which, phase
<1>3. FilesOK'
    BY DEF Inv, FilesOK, ExecuteAuthor, ExecuteReviewRound, ExecuteDisposition, files
<1>4. \E q : Revises(which, phase, q) /\ Checkpoint(WithPhase(q), "stage")
    <2>1. CASE ExecuteAuthor
        <3>1. phase.stage = "authoring" /\ Checkpoint(WithPhase(RecordDraft(phase)), "stage")
            BY <2>1 DEF ExecuteAuthor, InStage
        <3> QED BY <1>2, <3>1, DraftRevises
    <2>2. CASE ExecuteReviewRound
        <3> DEFINE reports == review[which][phase.round]
                   found(heard) == UNION {reports[r].findings : r \in heard}
        <3>1. phase.stage = "reviewing"
            BY <2>2 DEF ExecuteReviewRound, InStage
        <3>2. PICK heard \in (SUBSET Reviewers) \ {{}} :
                 /\ \A r \in heard : reports[r] # Absent
                 /\ Checkpoint(WithPhase(RecordReviewRound(phase, found(heard))), "stage")
            BY <2>2 DEF ExecuteReviewRound
        <3>3. phase.round \in Rounds
            BY <1>2, <3>1, RoundInRange
        <3>4. \A r \in heard : reports[r] \in Report
            BY <1>2, <3>2, <3>3 DEF Inv, FilesOK
        <3>5. found(heard) \in SUBSET FindingIds
            BY <3>4 DEF Report
        <3> HIDE DEF found
        <3> QED BY <1>2, <3>1, <3>2, <3>5, ReviewRevises
    <2>3. CASE ExecuteDisposition
        <3> DEFINE sub == disposition[which][phase.round]
        <3>1. /\ phase.stage = "dispositioning" /\ sub # Absent
              /\ Checkpoint(WithPhase(IF GatePasses(phase.current_round_findings, sub)
                                      THEN RecordDisposition(phase, sub)
                                      ELSE RecordStuck(phase)), "stage")
            BY <2>3 DEF ExecuteDisposition, InStage
        <3>2. phase.round \in Rounds
            BY <1>2, <3>1, RoundInRange
        <3>3. sub \in Submission
            BY <1>2, <3>1, <3>2 DEF Inv, FilesOK
        <3> HIDE DEF sub
        <3>4. CASE GatePasses(phase.current_round_findings, sub)
            BY <1>2, <3>1, <3>3, <3>4, DispositionRevises
        <3>5. CASE ~GatePasses(phase.current_round_findings, sub)
            BY <1>2, <3>1, <3>5, StuckRevises
        <3> QED BY <3>4, <3>5
    <2> QED BY <2>1, <2>2, <2>3
<1>5. Inv'
    <2>1. PICK q : Revises(which, phase, q) /\ Checkpoint(WithPhase(q), "stage")
        BY <1>4
    <2> QED BY <1>0, <1>3, <2>1, StageInv
<1> QED BY <1>0, <1>4, <1>5 DEF gate

(* A stage or a poll that returns an error ends the process. *)
LEMMA FailInv ==
    ASSUME Inv, StageFails \/ PollFails
    PROVE  Inv'
<1>1. pc' = "down" /\ UNCHANGED <<run, disk, then, plan_only, starts, files, gate>>
    BY DEF StageFails, PollFails
<1>2. FilesOK' /\ GateOK' /\ ApprovalsRemembered'
    BY <1>1 DEF Inv, FilesOK, GateOK, ApprovalsRemembered, files, gate
<1>3. ControlOK' /\ StatusFollows' /\ GateCurrent'
    <2>1. pc # "decided"
        BY DEF StageFails, PollFails
    <2> QED BY <1>1, <2>1 DEF Inv, ControlOK, StatusFollows, GateCurrent, PCs, gate
<1>4. SnapshotsOK' /\ ApprovedOK' /\ FeedbackKept' /\ DiskCaughtUp'
    BY <1>1, SameRun DEF files, gate
<1> QED BY <1>2, <1>3, <1>4 DEF Inv

-----------------------------------------------------------------------------
(* The gate. *)

(* sync_status: the status waits for the phase that is ready. *)
LEMMA WaitingRun ==
    ASSUME NEW r, RunOK(r), r.status \notin Terminal,
           r[Active(r.status)].stage = "awaiting_approval"
    PROVE  LET s == [r EXCEPT !.status = IF Active(r.status) = "plan"
                                         THEN "awaiting_plan_approval"
                                         ELSE "awaiting_code_approval"]
           IN  /\ RunOK(s) /\ s.status \in Waiting /\ Active(s.status) = Active(r.status)
               /\ s.plan = r.plan /\ s.code = r.code /\ s.created = r.created
               /\ StatusStep(r.status, s.status)
<1> DEFINE w == IF Active(r.status) = "plan"
                THEN "awaiting_plan_approval" ELSE "awaiting_code_approval"
           s == [r EXCEPT !.status = w]
<1>1. r.status \in RunStatus /\ r \in RunState
    BY DEF RunOK, RunState
<1>2. /\ w \in Waiting /\ Active(w) = Active(r.status)
      /\ w = "awaiting_plan_approval" <=> r.status \in {"planning", "awaiting_plan_approval"}
    BY DEF Waiting, Active
<1>3. /\ s \in RunState /\ s.status = w /\ s.plan = r.plan /\ s.code = r.code
      /\ s.created = r.created /\ s["plan"] = r["plan"] /\ s["code"] = r["code"]
    BY <1>1, <1>2 DEF RunState, RunStatus, Waiting
<1>4. s[Active(w)] = r[Active(r.status)]
    BY <1>2, <1>3 DEF Active
<1>5. StatusStep(r.status, w)
    BY <1>1, <1>2 DEF StatusStep, Waiting, RunStatus, Terminal
<1> HIDE DEF s, w
<1>6. r.code = NoPhase <=> r.status \in {"planning", "awaiting_plan_approval"}
    BY <1>1 DEF RunOK, Terminal, RunStatus
<1> QED BY <1>2, <1>3, <1>4, <1>5, <1>6 DEF RunOK, Waiting, s, w

(* The checkpoint before the human is asked. *)
LEMMA EnterGateInv ==
    ASSUME Inv, EnterGate
    PROVE  Inv'
<1>1. pc = "stage" /\ run[Active(run.status)].stage = "awaiting_approval"
    BY DEF EnterGate, InStage, phase, which
<1>2. RunOK(run) /\ run.status \notin Terminal
    BY <1>1 DEF Inv, SnapshotsOK, StatusFollows
<1>3. /\ pc' = "flush" /\ then' = "publish"
      /\ UNCHANGED <<disk, plan_only, starts, files, gate>>
    BY DEF EnterGate, Checkpoint
<1>4. /\ RunOK(run') /\ run'.status \in Waiting
      /\ Active(run'.status) = Active(run.status)
      /\ run'.plan = run.plan /\ run'.code = run.code /\ run'.created = run.created
    BY <1>1, <1>2, WaitingRun DEF EnterGate, Checkpoint, which
<1>5. FilesOK' /\ GateOK' /\ ApprovalsRemembered'
    BY <1>3 DEF Inv, FilesOK, GateOK, ApprovalsRemembered, files, gate
<1>6. ControlOK' /\ StatusFollows' /\ GateCurrent'
    BY <1>1, <1>3, <1>4 DEF Inv, ControlOK, StatusFollows, GateCurrent, PCs, Waiting, Terminal, gate
<1>7. SnapshotsOK'
    BY <1>3, <1>4 DEF Inv, SnapshotsOK, Unreadable
<1>8. ApprovedOK'
    BY <1>3, <1>4 DEF Inv, ApprovedOK, Approved, Shown, Unreadable, gate, Waiting
<1>9. FeedbackKept'
    <2>1. run'[Active(run'.status)] = run[Active(run.status)]
        BY <1>4 DEF Active
    <2> QED BY <1>1, <1>3, <2>1 DEF Inv, FeedbackKept, Fed, Unreadable, files
<1>10. DiskCaughtUp'
    BY <1>3 DEF DiskCaughtUp
<1> QED BY <1>5, <1>6, <1>7, <1>8, <1>9, <1>10 DEF Inv

(* publish, then remove_file, then take_decision: the packet shows the      *)
(* version in memory before a decision can be read, and only a decision     *)
(* written after the removal is.                                            *)
LEMMA ListenInv ==
    ASSUME Inv, Publish \/ ClearDecision \/ TakeDecision
    PROVE  Inv'
<1>1. UNCHANGED <<run, disk, then, plan_only, starts, files, approvals>>
    BY DEF Publish, ClearDecision, TakeDecision
<1>2. RunOK(run) /\ run.status \in Waiting /\ run.status \notin Terminal
    BY DEF Inv, SnapshotsOK, StatusFollows, Publish, ClearDecision, TakeDecision,
           Waiting, Terminal
<1>3. which \in Kind /\ PhaseIs(which, phase)
    BY <1>2, ActivePhase DEF which, phase
<1>4. which' = which /\ Shown(run, which)' = Shown(run, which) /\ Rejections' = Rejections
    BY <1>1 DEF which, Shown, Rejections
<1>5. FilesOK'
    BY <1>1 DEF Inv, FilesOK, files
<1>6. SnapshotsOK' /\ ApprovedOK' /\ FeedbackKept' /\ DiskCaughtUp'
    BY <1>1, SameRun DEF files, Publish, ClearDecision, TakeDecision
<1>7. CASE Publish
    <2>1. Shown(run, which) \in Stamp
        BY <1>2, <1>3, PhaseNumbers DEF Shown, Stamp, RunOK, RunState, phase
    <2>2. /\ packet' = [packet EXCEPT ![which] = Shown(run, which)]
          /\ pc = "publish" /\ pc' = "clear" /\ UNCHANGED <<decision, taken>>
        BY <1>7 DEF Publish
    <2>3. GateOK' /\ GateCurrent' /\ ApprovalsRemembered'
        BY <1>1, <1>3, <1>4, <2>1, <2>2
           DEF Inv, GateOK, GateCurrent, ApprovalsRemembered
    <2>4. ControlOK' /\ StatusFollows'
        BY <1>1, <1>2, <2>2 DEF Inv, ControlOK, StatusFollows, PCs
    <2> QED BY <1>5, <1>6, <2>3, <2>4 DEF Inv
<1>8. CASE ClearDecision
    <2>1. /\ pc = "clear" /\ decision' = [decision EXCEPT ![which] = Absent]
          /\ pc' = "poll" /\ UNCHANGED <<packet, taken>>
        BY <1>8 DEF ClearDecision
    <2>2. GateOK' /\ GateCurrent' /\ ApprovalsRemembered'
        BY <1>1, <1>3, <1>4, <2>1
           DEF Inv, GateOK, GateCurrent, ApprovalsRemembered
    <2>3. ControlOK' /\ StatusFollows'
        BY <1>1, <1>2, <2>1 DEF Inv, ControlOK, StatusFollows, PCs
    <2> QED BY <1>5, <1>6, <2>2, <2>3 DEF Inv
<1>9. CASE TakeDecision
    <2>1. /\ pc = "poll" /\ decision[which] # Absent /\ taken' = decision[which]
          /\ decision' = [decision EXCEPT ![which] = Absent]
          /\ pc' = "decided" /\ UNCHANGED packet
        BY <1>9 DEF TakeDecision
    <2>2. GateOK' /\ GateCurrent' /\ ApprovalsRemembered'
        BY <1>1, <1>3, <1>4, <2>1
           DEF Inv, GateOK, GateCurrent, ApprovalsRemembered, Fits
    <2>3. ControlOK' /\ StatusFollows'
        BY <1>1, <1>2, <2>1 DEF Inv, ControlOK, StatusFollows, PCs
    <2> QED BY <1>5, <1>6, <2>2, <2>3 DEF Inv
<1> QED BY <1>7, <1>8, <1>9

(* A human decision is about the packet the human read. *)
LEMMA HumanInv ==
    ASSUME Inv, NEW k \in Kind, HumanDecides(k)
    PROVE  Inv'
<1>1. /\ k = which /\ packet[k] # Absent /\ decision[k] = Absent /\ pc # "decided"
      /\ UNCHANGED <<run, disk, pc, then, plan_only, starts, files, packet, taken>>
    BY DEF HumanDecides
<1>2. PICK what \in Written :
        /\ what \in Changes => Rejections + StartedOver < MaxHuman
        /\ decision' = [decision EXCEPT ![k] = [what |-> what, about |-> packet[k]]]
        /\ approvals' = IF what = "approve" THEN approvals \cup {packet[k]} ELSE approvals
    BY DEF HumanDecides, Changes
<1>12. what \in Changes => Rejections < MaxHuman
    <2>1. RunOK(run) /\ run.created \in Nat
        BY DEF Inv, SnapshotsOK, RunOK, RunState
    <2>2. Rejections \in Nat /\ StartedOver \in Nat
        BY <2>1, PhaseNumbers DEF Rejections, StartedOver, RunOK
    <2> QED BY <1>2, <2>2, StartsAssumption
<1>3. packet[k] \in Stamp
    BY <1>1 DEF Inv, GateOK
<1> DEFINE d == [what |-> what, about |-> packet[k]]
<1>4. d \in Decision
    BY <1>3 DEF Decision
<1>5. which' = which /\ Shown(run, which)' = Shown(run, which) /\ Rejections' = Rejections
    BY <1>1 DEF which, Shown, Rejections
<1>6. FilesOK' /\ ControlOK' /\ StatusFollows'
    BY <1>1 DEF Inv, FilesOK, ControlOK, StatusFollows, files
<1>7. approvals \subseteq approvals'
    BY <1>2
<1>8. SnapshotsOK' /\ ApprovedOK' /\ FeedbackKept' /\ DiskCaughtUp'
    BY <1>1, <1>7, SameRun DEF files
<1>9. GateOK'
    BY <1>1, <1>2, <1>3, <1>4 DEF Inv, GateOK
<1>10. ApprovalsRemembered'
    BY <1>1, <1>2, <1>4 DEF Inv, GateOK, ApprovalsRemembered
<1>11. GateCurrent'
    <2>1. pc = "poll" => packet[which] = Shown(run, which)
        BY DEF Inv, GateCurrent
    <2>2. decision'[which] = d
        BY <1>1, <1>2 DEF Inv, GateOK
    <2> QED BY <1>1, <1>5, <1>12, <2>1, <2>2 DEF Inv, GateCurrent, Fits
<1> QED BY <1>6, <1>8, <1>9, <1>10, <1>11 DEF Inv

(* The decision the gate returned is about the run in memory, which waits   *)
(* for it.                                                                  *)
LEMMA AtDecided ==
    ASSUME Inv, pc = "decided"
    PROVE  /\ RunOK(run) /\ run.status \in Waiting /\ run.status \notin Terminal
           /\ which \in Kind /\ PhaseIs(which, phase) /\ phase.stage = "awaiting_approval"
           /\ which = "plan" <=> run.status = "awaiting_plan_approval"
           /\ which = "plan" <=> run.code = NoPhase
           /\ taken.about = Shown(run, which)
           /\ taken.what = "approve" => Shown(run, which) \in approvals
           /\ taken.what \in Changes => Rejections < MaxHuman
<1>1. RunOK(run) /\ run.status \in Waiting /\ run.status \notin Terminal
    BY DEF Inv, SnapshotsOK, StatusFollows, Waiting, Terminal
<1>2. which \in Kind /\ PhaseIs(which, phase) /\ (which = "plan" <=> run.code = NoPhase)
    BY <1>1, ActivePhase DEF which, phase
<1>3. phase.stage = "awaiting_approval" /\ (which = "plan" <=> run.status = "awaiting_plan_approval")
    BY <1>1 DEF RunOK, phase, which, Active, Waiting
<1>4. taken # Absent /\ Fits(taken)
    BY DEF Inv, GateCurrent
<1> QED BY <1>1, <1>2, <1>3, <1>4 DEF Inv, ApprovalsRemembered, Fits

(* There is room for the comments of one more iteration, and append_feedback *)
(* puts them into the brief, whatever it makes of what was there.            *)
LEMMA AppendOK ==
    ASSUME Inv, pc = "decided", taken.what \in Changes, NEW b \in Appended(taken.what)
    PROVE  b \in [Kind -> SUBSET Iterations] /\ iteration + 1 \in b[which]
<1>1. RunOK(run) /\ which \in Kind /\ PhaseIs(which, phase) /\ Rejections < MaxHuman
      /\ (which = "plan" <=> run.code = NoPhase)
    BY AtDecided
<1>2. iteration + 1 \in Iterations
    <2>1. /\ run.plan.ledger.human_iterations \in Nat
          /\ run.code # NoPhase => run.code.ledger.human_iterations \in Nat
        BY <1>1, PhaseNumbers DEF RunOK
    <2>2. iteration \in Nat /\ iteration <= Rejections
        BY <1>1, <2>1 DEF iteration, phase, Rejections, Kind
    <2> QED BY <1>1, <2>1, <2>2, StartsAssumption DEF Iterations, Rejections
<1>3. NoFeedback \in [Kind -> SUBSET Iterations] /\ brief \in [Kind -> SUBSET Iterations]
    BY DEF NoFeedback, Inv, FilesOK
<1>4. PICK before \in {brief, NoFeedback} :
          b = [before EXCEPT ![which] = @ \cup {iteration + 1}]
    BY DEF Appended
<1> QED BY <1>1, <1>2, <1>3, <1>4

(* The process dies: run.json is what it was, or torn, and the brief is     *)
(* what it was unless comments were being added to it, at a gate.           *)
LEMMA CrashInv ==
    ASSUME Inv, Crash
    PROVE  Inv'
<1>1. /\ pc' = "down" /\ then' = "stage" /\ (disk' = disk \/ disk' = Torn) /\ taken' = Absent
      /\ pc # "down"
      /\ UNCHANGED <<run, plan_only, starts, review, disposition, packet, decision, approvals>>
    BY DEF Crash
<1>2. \/ brief' = brief
      \/ /\ pc = "decided" /\ taken.what \in Changes
         /\ brief' = NoFeedback \/ brief' \in Appended(taken.what)
    BY DEF Crash, HalfAppended, Changes
<1>3. FilesOK'
    <2>1. NoFeedback \in [Kind -> SUBSET Iterations]
        BY DEF NoFeedback
    <2>2. brief' \in [Kind -> SUBSET Iterations]
        BY <1>2, <2>1, AppendOK DEF Inv, FilesOK
    <2> QED BY <1>1, <2>2 DEF Inv, FilesOK
<1>4. GateOK' /\ ApprovalsRemembered'
    BY <1>1 DEF Inv, GateOK, ApprovalsRemembered
<1>5. ControlOK' /\ StatusFollows' /\ GateCurrent' /\ DiskCaughtUp'
    BY <1>1 DEF Inv, ControlOK, StatusFollows, GateCurrent, DiskCaughtUp, PCs
<1>6. SnapshotsOK' /\ ApprovedOK'
    BY <1>1 DEF Inv, SnapshotsOK, ApprovedOK, Approved, Shown, Unreadable
<1>7. ASSUME disk' \notin Unreadable PROVE Fed(disk)'
    <2>1. disk' = disk /\ disk \notin Unreadable
        BY <1>1, <1>7 DEF Unreadable
    <2>2. CASE brief' = brief
        BY <2>1, <2>2 DEF Inv, FeedbackKept, Fed
    <2>3. CASE pc = "decided"
        <3>1. disk = run
            BY <2>1, <2>3 DEF Inv, DiskCaughtUp
        <3>2. run[Active(run.status)].stage = "awaiting_approval"
            BY <2>3, AtDecided DEF phase, which
        <3> QED BY <2>1, <3>1, <3>2 DEF Fed
    <2> QED BY <1>2, <2>2, <2>3
<1>8. FeedbackKept'
    BY <1>1, <1>7 DEF FeedbackKept, Unreadable
<1> QED BY <1>3, <1>4, <1>5, <1>6, <1>8 DEF Inv

(* A step from "decided" to the checkpoint keeps the invariant when the run *)
(* it checkpoints is well formed, approved and fed.                         *)
LEMMA DecidedInv ==
    ASSUME Inv, pc = "decided", pc' = "flush", then' \in {"stage", "down"},
           RunOK(run)', Approved(run)', Fed(run)', run'.status \in Terminal => then' = "down",
           disk \notin Unreadable => Fed(disk)', taken' = Absent, FilesOK',
           UNCHANGED <<disk, plan_only, starts, packet, decision, approvals>>
    PROVE  Inv'
<1>1. GateOK' /\ ApprovalsRemembered'
    BY DEF Inv, GateOK, ApprovalsRemembered
<1>2. ControlOK' /\ StatusFollows' /\ GateCurrent'
    BY DEF Inv, ControlOK, StatusFollows, GateCurrent, PCs
<1>3. SnapshotsOK' /\ ApprovedOK'
    BY DEF Inv, SnapshotsOK, ApprovedOK, Approved, Shown, Unreadable
<1>4. FeedbackKept' /\ DiskCaughtUp'
    BY DEF FeedbackKept, DiskCaughtUp, Unreadable
<1> QED BY <1>1, <1>2, <1>3, <1>4 DEF Inv

(* What each decision makes of the run. *)
Applied ==
    /\ Inv' /\ pc' = "flush" /\ UNCHANGED <<disk, packet, approvals>>
    /\ run'.created = run.created /\ Behind(run, run')

(* An approval of the plan opens the code phase; one of the code completes  *)
(* the run.                                                                 *)
LEMMA ApproveInv ==
    ASSUME Inv, ApplyApprove
    PROVE  Applied
<1>1. /\ pc = "decided" /\ taken.what = "approve" /\ pc' = "flush" /\ taken' = Absent
      /\ UNCHANGED <<disk, plan_only, starts, files, packet, decision, approvals>>
    BY DEF ApplyApprove, Checkpoint
<1>2. /\ RunOK(run) /\ run.status \in Waiting /\ run \in RunState
      /\ PhaseIs(which, phase) /\ phase.stage = "awaiting_approval"
      /\ which = "plan" <=> run.status = "awaiting_plan_approval"
      /\ which = "plan" <=> run.code = NoPhase
      /\ Shown(run, which) \in approvals
    BY <1>1, AtDecided DEF RunOK
<1>3. FilesOK' /\ Fed(run) /\ (disk \notin Unreadable => Fed(disk)')
    BY <1>1 DEF Inv, FilesOK, FeedbackKept, Fed, files
<1>4. CASE which = "plan"
    <2> DEFINE p == NewPhase(MaxCycles["code"])
    <2>1. PhaseIs("code", p) /\ p.version = 0 /\ p.ledger.human_iterations = 0
        BY FreshPhase DEF Kind
    <2>2. p \in PhaseRecord /\ p # NoPhase
        BY <2>1, AbsenceAssumption DEF PhaseIs, PhaseOK
    <2>3. /\ run' = [run EXCEPT !.code = p, !.status = "implementing"]
          /\ then' \in {"stage", "down"}
        BY <1>4 DEF ApplyApprove, Checkpoint, After
    <2> HIDE DEF p
    <2>4. /\ run' \in RunState /\ run'.plan = run.plan /\ run'.code = p
          /\ run'.status = "implementing" /\ run'.created = run.created
        BY <1>2, <2>2, <2>3 DEF RunState, RunStatus
    <2>5. RunOK(run')
        BY <1>2, <2>1, <2>2, <2>4 DEF RunOK, Waiting
    <2>6. Approved(run)'
        BY <1>1, <1>2, <1>4, <2>4 DEF Approved, Shown
    <2>7. Fed(run)'
        BY <2>1, <2>4 DEF Fed, Active
    <2>8. Inv'
        BY <1>1, <1>3, <2>3, <2>4, <2>5, <2>6, <2>7, DecidedInv DEF Terminal
    <2> QED BY <1>1, <1>2, <1>4, <2>1, <2>4, <2>8 DEF Applied, Behind, StatusStep
<1>5. CASE which # "plan"
    <2>1. run' = [run EXCEPT !.status = "completed"] /\ then' = "down" /\ which = "code"
        BY <1>5 DEF ApplyApprove, Checkpoint, After, Terminal, which, Active
    <2>2. /\ run' \in RunState /\ run'.plan = run.plan /\ run'.code = run.code
          /\ run'.status = "completed" /\ run'.created = run.created
        BY <1>2, <2>1 DEF RunState, RunStatus
    <2>3. RunOK(run')
        BY <1>2, <1>5, <2>2 DEF RunOK, Waiting
    <2>4. Approved(run)'
        BY <1>1, <1>2, <2>1, <2>2 DEF Approved, Shown, Inv, ApprovedOK
    <2>5. Fed(run)'
        BY <1>2, <2>1, <2>2 DEF Fed, Active, phase
    <2>6. Inv'
        BY <1>1, <1>3, <2>1, <2>3, <2>4, <2>5, DecidedInv
    <2> QED BY <1>1, <1>2, <1>5, <2>2, <2>6 DEF Applied, Behind, StatusStep, Waiting
<1> QED BY <1>4, <1>5

(* Cancelling keeps both phases as they are. *)
LEMMA CancelInv ==
    ASSUME Inv, ApplyCancel
    PROVE  Applied
<1>1. /\ pc = "decided" /\ pc' = "flush" /\ then' = "down" /\ taken' = Absent
      /\ run' = [run EXCEPT !.status = "cancelled"]
      /\ UNCHANGED <<disk, plan_only, starts, files, packet, decision, approvals>>
    BY DEF ApplyCancel, Checkpoint
<1>2. /\ RunOK(run) /\ run.status \in Waiting /\ run \in RunState
      /\ which \in Kind /\ phase.stage = "awaiting_approval"
      /\ which = "plan" <=> run.code = NoPhase
    BY <1>1, AtDecided DEF RunOK
<1>3. FilesOK' /\ Fed(run) /\ (disk \notin Unreadable => Fed(disk)')
    BY <1>1 DEF Inv, FilesOK, FeedbackKept, Fed, files
<1>4. /\ run' \in RunState /\ run'.plan = run.plan /\ run'.code = run.code
      /\ run'.status = "cancelled" /\ run'.created = run.created
    BY <1>1, <1>2 DEF RunState, RunStatus
<1>5. RunOK(run')
    BY <1>2, <1>4 DEF RunOK, Waiting
<1>6. Approved(run)'
    BY <1>1, <1>4 DEF Approved, Shown, Inv, ApprovedOK
<1>7. Fed(run)'
    BY <1>2, <1>4 DEF Fed, Active, Kind, phase
<1>8. Inv'
    BY <1>1, <1>3, <1>5, <1>6, <1>7, DecidedInv
<1> QED BY <1>1, <1>2, <1>4, <1>8 DEF Applied, Behind, StatusStep, Waiting

(* Sending the phase back: the feedback is in the brief before the          *)
(* iteration it belongs to is counted.                                      *)
LEMMA RejectInv ==
    ASSUME Inv, ApplyRequestChanges
    PROVE  Applied
<1> DEFINE q == RecordHumanRejection(phase)
           w == IF which = "plan" THEN "planning" ELSE "implementing"
<1>1. /\ pc = "decided" /\ taken.what \in Changes /\ pc' = "flush" /\ taken' = Absent
      /\ UNCHANGED <<disk, plan_only, starts, packet, decision, approvals, review, disposition>>
    BY DEF ApplyRequestChanges, Checkpoint, Changes
<1>2. /\ RunOK(run) /\ run.status \in Waiting /\ run \in RunState /\ which \in Kind
      /\ PhaseIs(which, phase) /\ phase.stage = "awaiting_approval"
      /\ which = "plan" <=> run.status = "awaiting_plan_approval"
      /\ which = "plan" <=> run.code = NoPhase
      /\ Rejections < MaxHuman
    BY <1>1, AtDecided DEF RunOK
<1>3. /\ PhaseIs(which, q) /\ q.version = phase.version
      /\ q.ledger.human_iterations = iteration + 1
    BY <1>2, RejectionReopens DEF iteration
<1>4. q \in PhaseRecord /\ q # NoPhase
    BY <1>3, AbsenceAssumption DEF PhaseIs, PhaseOK
<1>5. run' = [WithPhase(q) EXCEPT !.status = w] /\ then' \in {"stage", "down"}
    BY DEF ApplyRequestChanges, Checkpoint, After
<1> HIDE DEF q
<1>6. /\ run' \in RunState /\ run'.status = w /\ run'.created = run.created
      /\ which = "plan" => run'.plan = q /\ run'.code = run.code
      /\ which = "code" => run'.code = q /\ run'.plan = run.plan
    <2>1. CASE which = "plan"
        BY <1>2, <1>4, <1>5, <2>1 DEF WithPhase, RunState, RunStatus
    <2>2. CASE which = "code"
        BY <1>2, <1>4, <1>5, <2>2 DEF WithPhase, RunState, RunStatus
    <2> QED BY <1>2, <2>1, <2>2 DEF Kind
<1>7. RunOK(run')
    BY <1>2, <1>3, <1>4, <1>6 DEF RunOK, Kind, Waiting
<1>8. Approved(run)'
    BY <1>1, <1>2, <1>6 DEF Approved, Shown, Inv, ApprovedOK, Kind
<1>9. brief' \in [Kind -> SUBSET Iterations] /\ iteration + 1 \in brief'[which]
    <2>1. brief' \in Appended(taken.what)
        BY DEF ApplyRequestChanges
    <2> QED BY <1>1, <2>1, AppendOK
<1>11. FilesOK'
    BY <1>1, <1>9 DEF Inv, FilesOK
<1>15. Fed(run)'
    <2>1. Active(run'.status) = which /\ run'[which] = q
        BY <1>2, <1>6 DEF Active, Kind
    <2> QED BY <1>3, <1>9, <2>1 DEF Fed
<1>16. ASSUME disk \notin Unreadable PROVE Fed(disk)'
    <2>1. disk' = run
        BY <1>1, <1>16 DEF Inv, DiskCaughtUp
    <2>2. run[Active(run.status)].stage = "awaiting_approval"
        BY <1>2 DEF phase, which
    <2> QED BY <2>1, <2>2 DEF Fed
<1>17. Inv'
    BY <1>1, <1>5, <1>6, <1>7, <1>8, <1>11, <1>15, <1>16, DecidedInv DEF Terminal
<1>18. Behind(run, run')
    BY <1>2, <1>3, <1>4, <1>6 DEF Behind, StatusStep, Waiting, Kind, phase
<1> QED BY <1>1, <1>6, <1>17, <1>18 DEF Applied

-----------------------------------------------------------------------------
(* Every step keeps the invariant. *)
LEMMA NextInv == Inv /\ [Next]_vars => Inv'
<1> SUFFICES ASSUME Inv, [Next]_vars PROVE Inv'
    OBVIOUS
<1>1. CASE StartFresh \/ StartResumed
    BY <1>1, LaunchInv DEF StartFresh, StartResumed
<1>2. CASE Crash
    BY <1>2, CrashInv
<1>3. CASE AgentStep
    BY <1>3, AgentInv
<1>4. CASE FlushRun
    BY <1>4, FlushInv
<1>5. CASE ExecuteAuthor \/ ExecuteReviewRound \/ ExecuteDisposition
    BY <1>5, ExecuteInv
<1>6. CASE StageFails \/ PollFails
    BY <1>6, FailInv
<1>7. CASE EnterGate
    BY <1>7, EnterGateInv
<1>8. CASE Publish \/ ClearDecision \/ TakeDecision
    BY <1>8, ListenInv
<1>9. CASE ApplyApprove \/ ApplyRequestChanges \/ ApplyCancel
    BY <1>9, ApproveInv, RejectInv, CancelInv DEF Applied
<1>10. CASE \E k \in Kind : HumanDecides(k)
    BY <1>10, HumanInv
<1>11. CASE UNCHANGED vars
    <2>1. UNCHANGED <<run, disk, pc, then, plan_only, starts, files, gate>>
        BY <1>11 DEF vars
    <2>2. FilesOK' /\ GateOK' /\ ApprovalsRemembered' /\ ControlOK'
        BY <2>1 DEF Inv, FilesOK, GateOK, ApprovalsRemembered, ControlOK, files, gate
    <2>3. StatusFollows' /\ GateCurrent'
        BY <2>1 DEF Inv, StatusFollows, GateCurrent, Fits, Rejections, which, Shown, gate
    <2>4. SnapshotsOK' /\ ApprovedOK' /\ FeedbackKept' /\ DiskCaughtUp'
        BY <2>1, SameRun DEF files, gate
    <2> QED BY <2>2, <2>3, <2>4 DEF Inv
<1> QED BY <1>1, <1>2, <1>3, <1>4, <1>5, <1>6, <1>7, <1>8, <1>9, <1>10, <1>11
        DEF Next, ProcessStep, Decide

(* The conjunction Inv is an invariant, whatever writes are cut short. *)
THEOREM Invariance == Spec => []Inv
BY InitInv, NextInv, PTL DEF Spec

(* Memory and run.json hold well-formed runs, whose phases keep everything  *)
(* PhaseState promises, at every await of the driver and after every crash. *)
THEOREM TypeCorrect == Spec => []TypeOK
<1>1. Inv => TypeOK
    <2> SUFFICES ASSUME Inv PROVE TypeOK
        OBVIOUS
    <2>1. \A r \in Snapshots : RunOK(r)
        BY DEF Inv, SnapshotsOK, Snapshots
    <2>2. \A r \in Snapshots : r \in RunState /\ \A k \in Kind : r[k] # NoPhase => PhaseOK(r[k])
        BY <2>1 DEF RunOK, PhaseIs, Kind
    <2>3. pc \in PCs /\ then \in PCs /\ plan_only \in BOOLEAN /\ starts \in 0..MaxStarts
        BY DEF Inv, ControlOK, PCs
    <2> QED BY <2>2, <2>3 DEF TypeOK
<1> QED BY <1>1, Invariance, PTL

(* The decision a run acts on is about the version it is asking about:      *)
(* gate.rs publishes, removes what was left and only then polls.            *)
THEOREM GateActsOnCurrent == Spec => []DecisionIsCurrent
<1>1. Inv => DecisionIsCurrent
    BY DEF Inv, GateCurrent, Fits, DecisionIsCurrent
<1> QED BY <1>1, Invariance, PTL

(* Nothing is implemented, and nothing completed, without a human approval  *)
(* of the version that stands, in memory or in run.json.                    *)
THEOREM ApprovedByHuman == Spec => []HumanApprovedIt
<1>1. Inv => HumanApprovedIt
    BY DEF Inv, ApprovedOK, Approved, HumanApprovedIt, Snapshots
<1> QED BY <1>1, Invariance, PTL

(* An author at work on a phase that was sent back has the comments it was  *)
(* sent back with, although append_feedback empties the brief before it     *)
(* rewrites it, takes a failed read for an empty brief, and may die.        *)
THEOREM FeedbackIsKept == Spec => []FeedbackReachesAuthor
<1>1. Inv => FeedbackReachesAuthor
    <2> SUFFICES ASSUME Inv, pc = "stage", phase.stage # "awaiting_approval", iteration > 0
                 PROVE  iteration \in brief[which]
        BY DEF FeedbackReachesAuthor
    <2>1. phase # NoPhase
        BY ActivePhase, AbsenceAssumption
           DEF Inv, SnapshotsOK, StatusFollows, phase, which, PhaseIs, PhaseOK
    <2> QED BY <2>1 DEF Inv, FeedbackKept, Fed, phase, which, iteration
<1> QED BY <1>1, Invariance, PTL

-----------------------------------------------------------------------------
(* Memory and run.json. *)

(* At the start there is no run.json and nothing has been shown. *)
LEMMA DiskInit == Init => DInv
<1> SUFFICES ASSUME Init PROVE DInv
    OBVIOUS
<1>1. disk = Missing /\ packet = [k \in Kind |-> Absent] /\ approvals = {}
      /\ run = NewRun(0) /\ pc = "down" /\ starts = 0
    BY DEF Init
<1>2. /\ run.status = "planning" /\ run.code = NoPhase /\ run.plan.version = 0
      /\ run.created = 0
    BY <1>1, FreshRun
<1>3. DiskFollows
    BY <1>1, <1>2 DEF DiskFollows, Unwritten, Unreadable
<1>4. StampsRecorded
    BY <1>1, <1>2 DEF StampsRecorded
<1> QED BY <1>3, <1>4, InitInv DEF DInv

(* Without a run.json to go by the run is at its first draft. *)
LEMMA NothingToGate ==
    ASSUME Inv, DiskFollows, disk \in Unreadable, pc \notin {"flush", "down"}
    PROVE  /\ pc = "stage" /\ run.status = "planning" /\ phase.stage = "authoring"
           /\ run.plan.version = 0
<1>1. run.status = "planning" /\ run.plan.version = 0
    BY DEF DiskFollows, Unwritten, Unreadable
<1>2. pc = "stage"
    BY <1>1 DEF Inv, ControlOK, StatusFollows, PCs, Waiting
<1>3. phase = run.plan /\ PhaseIs("plan", run.plan)
    BY <1>1 DEF phase, which, Active, Inv, SnapshotsOK, RunOK
<1> QED BY <1>1, <1>2, <1>3, PhaseNumbers

(* A checkpoint puts memory one step ahead of run.json. *)
LEMMA CheckpointAhead ==
    ASSUME Inv, Inv', DiskFollows, StampsRecorded, pc \notin {"flush", "down"}, pc' = "flush",
           Behind(run, run'), run'.created = run.created,
           disk \in Unreadable => run'.status = "planning",
           UNCHANGED <<disk, starts, packet, approvals>>
    PROVE  DiskFollows' /\ StampsRecorded'
<1>1. StampsRecorded'
    BY DEF StampsRecorded, Recorded, Unreadable
<1>2. CASE disk \in Unreadable
    <2>1. run'.code = NoPhase
        BY <1>2 DEF Inv, SnapshotsOK, RunOK
    <2>2. run.plan.version = 0 /\ run'.plan.version <= 1
        BY <1>2, NothingToGate DEF Behind
    <2> QED BY <1>1, <1>2, <2>1, <2>2 DEF DiskFollows, Unwritten, Unreadable
<1>3. CASE disk \notin Unreadable
    BY <1>1, <1>3 DEF DiskFollows, Unreadable
<1> QED BY <1>2, <1>3

(* A step that leaves memory, run.json, the packets and the approvals. *)
LEMMA SameDisk ==
    ASSUME Inv, DiskFollows, StampsRecorded, UNCHANGED <<run, disk, starts, packet, approvals>>,
           \/ pc' = "down"
           \/ pc \notin {"flush", "down"} /\ pc' \notin {"flush", "down"}
           \/ pc' = pc
    PROVE  DiskFollows' /\ StampsRecorded'
<1>1. ASSUME NEW a, Recorded(a) PROVE Recorded(a)'
    BY <1>1 DEF Recorded, Unreadable
<1>2. ASSUME disk = Missing \/ (disk = Torn /\ pc' # "down") PROVE Unwritten'
    BY <1>2 DEF DiskFollows, Unwritten
<1>3. PCs = {"down", "stage", "flush", "publish", "clear", "poll", "decided"} /\ pc \in PCs
    BY DEF PCs, Inv, ControlOK
<1>4. ASSUME disk \notin Unreadable
      PROVE  /\ run'.created = disk'.created
             /\ pc' \notin {"flush", "down"} => run' = disk'
             /\ pc' = "flush" => Behind(disk', run')
             /\ pc' = "down" => run' = disk' \/ Behind(disk', run')
    BY <1>3, <1>4 DEF DiskFollows
<1>5. StampsRecorded'
    BY <1>1 DEF StampsRecorded
<1> QED BY <1>2, <1>4, <1>5 DEF DiskFollows, Unreadable

(* A stage's checkpoint brings at most one new version. *)
LEMMA StageBehind ==
    ASSUME Inv, pc = "stage", phase.stage # "awaiting_approval",
           NEW q, Revises(which, phase, q), Checkpoint(WithPhase(q), "stage")
    PROVE  pc' = "flush" /\ Behind(run, run') /\ run'.created = run.created
           /\ run'.status = run.status
<1>1. run.status \in {"planning", "implementing"}
    BY WorkingStatus
<1>2. RunOK(run)
    BY DEF Inv, SnapshotsOK
<1> DEFINE s == [run EXCEPT ![Active(run.status)] = q]
<1>3. /\ RunOK(s) /\ s.status = run.status /\ s.created = run.created
      /\ run.status = "planning" => s.plan = q /\ s.code = run.code /\ run.code = NoPhase
      /\ run.status = "implementing" => s.code = q /\ s.plan = run.plan /\ run.code # NoPhase
    BY <1>1, <1>2, Replaced DEF Revises, which
<1>4. run' = s /\ pc' = "flush"
    BY DEF Checkpoint, WithPhase, which
<1>5. q.version = phase.version \/ q.version = phase.version + 1
    BY DEF Revises
<1>6. phase = IF run.status = "planning" THEN run.plan ELSE run.code
    BY <1>1 DEF phase, which, Active
<1>7. q # NoPhase
    BY AbsenceAssumption DEF Revises, PhaseIs, PhaseOK
<1> HIDE DEF s
<1> QED BY <1>1, <1>3, <1>4, <1>5, <1>6, <1>7 DEF Behind, StatusStep

(* What a flush does to a version, when memory was one step ahead. *)
LEMMA VersionsGrow ==
    ASSUME Inv, DiskFollows, disk \notin Unreadable, pc = "flush", NEW k \in Kind, disk[k] # NoPhase
    PROVE  /\ run[k] # NoPhase /\ disk[k].version \in Nat /\ run[k].version \in Nat
           /\ \/ run[k].version = disk[k].version
              \/ /\ run[k].version = disk[k].version + 1
                 /\ disk.status \in {"planning", "implementing"} /\ run.status = disk.status
<1>1. Behind(disk, run) /\ RunOK(run) /\ RunOK(disk)
    BY DEF DiskFollows, Inv, SnapshotsOK, Unreadable
<1>2. run.plan # NoPhase
    BY <1>1, AbsenceAssumption DEF RunOK, RunState
<1>3. CASE k = "plan"
    BY <1>1, <1>2, <1>3, PhaseNumbers DEF Behind, RunOK
<1>4. CASE k = "code"
    BY <1>1, <1>4, PhaseNumbers DEF Behind, RunOK
<1> QED BY <1>3, <1>4 DEF Kind

(* Every step keeps run.json at most one checkpoint behind memory, and      *)
(* every stamp about a version that is in it.                               *)
LEMMA DiskNext ==
    ASSUME DInv, [Next]_vars
    PROVE  DInv'
<1>1. Inv /\ DiskFollows /\ StampsRecorded
    BY DEF DInv
<1>2. Inv'
    BY <1>1, NextInv
<1> SUFFICES DiskFollows' /\ StampsRecorded'
    BY <1>2 DEF DInv
<1>0. /\ starts \in Nat /\ run.created \in Nat
      /\ \A k \in Kind : packet[k] # Absent => packet[k] \in Stamp
      /\ \A a \in approvals : a \in Stamp
      /\ \A a \in Stamp : a[1] \in Kind /\ a[2] \in Nat /\ a[3] \in Nat
    BY <1>1 DEF Inv, ControlOK, GateOK, SnapshotsOK, RunOK, RunState, Stamp
<1>3. CASE StartFresh
    <2>1. /\ disk \in Unreadable /\ disk' = disk /\ packet' = packet /\ starts' = starts + 1
          /\ approvals' \subseteq approvals /\ run' = NewRun(starts + 1) /\ pc' = "stage"
        BY <1>3 DEF StartFresh, Launch, Outstanding
    <2>2. /\ run'.status = "planning" /\ run'.code = NoPhase /\ run'.plan.version = 0
          /\ run'.created = starts + 1
        BY <1>0, <2>1, FreshRun
    <2>3. DiskFollows'
        BY <2>1, <2>2 DEF DiskFollows, Unwritten, Unreadable
    <2>4. ASSUME NEW a \in Stamp, a[2] <= starts PROVE a[2] <= starts' /\ Recorded(a)'
        BY <1>0, <2>1, <2>2, <2>4 DEF Recorded, Unreadable
    <2>5. StampsRecorded'
        BY <1>0, <1>1, <2>1, <2>2, <2>4 DEF StampsRecorded
    <2> QED BY <2>3, <2>5
<1>4. CASE StartResumed
    <2>1. /\ disk \notin Unreadable /\ run' = disk /\ pc' = "stage" /\ starts' = starts + 1
          /\ UNCHANGED <<disk, packet, approvals>>
        BY <1>4 DEF StartResumed, Launch
    <2>2. DiskFollows'
        BY <2>1 DEF DiskFollows, Unreadable
    <2>3. ASSUME NEW a \in Stamp, a[2] <= starts, Recorded(a)
          PROVE  a[2] <= starts' /\ Recorded(a)'
        BY <1>0, <2>1, <2>3 DEF Recorded, Unreadable
    <2>4. run'.created <= starts'
        BY <1>0, <1>1, <2>1 DEF DiskFollows, StampsRecorded
    <2>5. StampsRecorded'
        BY <1>0, <1>1, <2>1, <2>3, <2>4 DEF StampsRecorded
    <2> QED BY <2>2, <2>5
<1>5. CASE Crash
    <2>1. /\ pc' = "down" /\ UNCHANGED <<run, starts, packet, approvals>>
          /\ disk' = disk \/ disk' = Torn
        BY <1>5 DEF Crash
    <2>2. CASE disk' = disk
        BY <1>1, <2>1, <2>2, SameDisk
    <2>3. CASE disk' = Torn
        BY <1>1, <2>1, <2>3, AbsenceAssumption DEF DiskFollows, StampsRecorded, Recorded, Unreadable
    <2> QED BY <2>1, <2>2, <2>3
<1>6. CASE AgentStep
    <2>1. UNCHANGED <<run, disk, pc, starts, gate>>
        BY <1>6 DEF AgentStep, WriteArtifact, WriteReview, WriteDispositions
    <2> QED BY <1>1, <2>1, SameDisk DEF gate
<1>7. CASE FlushRun
    <2>1. pc = "flush" /\ disk' = run /\ pc' = then /\ UNCHANGED <<run, starts, packet, approvals>>
        BY <1>7 DEF FlushRun, gate
    <2>2. then \in {"stage", "publish", "down"} /\ run \in RunState
        BY <1>1 DEF Inv, ControlOK, SnapshotsOK, RunOK
    <2>3. disk' \notin Unreadable' /\ disk' # Torn /\ disk' # Missing
        BY <2>1, <2>2, SnapshotAssumption DEF Unreadable
    <2>4. DiskFollows'
        BY <2>1, <2>2, <2>3 DEF DiskFollows
    <2>5. ASSUME NEW a \in Stamp, Recorded(a) PROVE Recorded(a)'
        <3>1. a[1] \in Kind /\ a[3] \in Nat
            BY <1>0
        <3>2. CASE disk \in Unreadable \/ a[2] < disk.created
            <4>1. a[2] < run.created
                BY <1>1, <2>1, <2>5, <3>2 DEF Recorded, DiskFollows
            <4> QED BY <2>1, <2>3, <4>1 DEF Recorded
        <3>3. CASE disk \notin Unreadable /\ ~(a[2] < disk.created)
            <4>1. a[2] = disk.created /\ disk[a[1]] # NoPhase /\ a[3] <= disk[a[1]].version
                BY <2>5, <3>3 DEF Recorded
            <4>2. run.created = disk.created
                BY <1>1, <3>3 DEF DiskFollows
            <4>3. /\ run[a[1]] # NoPhase /\ disk[a[1]].version \in Nat /\ run[a[1]].version \in Nat
                  /\ disk[a[1]].version <= run[a[1]].version
                BY <1>1, <2>1, <3>1, <3>3, <4>1, VersionsGrow
            <4>4. a[3] <= run[a[1]].version
                BY <3>1, <4>1, <4>3
            <4> QED BY <2>1, <2>3, <4>1, <4>2, <4>3, <4>4 DEF Recorded
        <3> QED BY <3>2, <3>3
    <2>6. StampsRecorded'
        BY <1>0, <1>1, <2>1, <2>5 DEF StampsRecorded
    <2> QED BY <2>4, <2>6
<1>8. CASE ExecuteAuthor \/ ExecuteReviewRound \/ ExecuteDisposition
    <2>1. PICK q : Revises(which, phase, q) /\ Checkpoint(WithPhase(q), "stage")
        BY <1>1, <1>8, ExecuteInv
    <2>2. /\ pc = "stage" /\ phase.stage # "awaiting_approval"
          /\ UNCHANGED <<disk, approvals, packet, starts>>
        BY <1>1, <1>8, ExecuteInv
           DEF ExecuteAuthor, ExecuteReviewRound, ExecuteDisposition
    <2>3. pc' = "flush" /\ Behind(run, run') /\ run'.created = run.created
          /\ run'.status = run.status
        BY <1>1, <2>1, <2>2, StageBehind
    <2>4. disk \in Unreadable => run'.status = "planning"
        BY <1>1, <2>2, <2>3, NothingToGate
    <2> QED BY <1>1, <1>2, <2>2, <2>3, <2>4, CheckpointAhead
<1>9. CASE StageFails \/ PollFails
    <2>1. pc' = "down" /\ UNCHANGED <<run, disk, starts, packet, approvals>>
        BY <1>9 DEF StageFails, PollFails, gate
    <2> QED BY <1>1, <2>1, SameDisk
<1>10. CASE EnterGate
    <2>1. /\ pc = "stage" /\ phase.stage = "awaiting_approval" /\ pc' = "flush"
          /\ UNCHANGED <<disk, starts, packet, approvals>>
        BY <1>10 DEF EnterGate, InStage, Checkpoint, gate
    <2>2. RunOK(run) /\ run.status \notin Terminal
        BY <1>1, <2>1 DEF Inv, SnapshotsOK, StatusFollows
    <2>3. /\ run'.plan = run.plan /\ run'.code = run.code /\ run'.created = run.created
          /\ StatusStep(run.status, run'.status)
        BY <1>10, <2>1, <2>2, WaitingRun DEF EnterGate, Checkpoint, phase, which
    <2>4. Behind(run, run')
        BY <2>3 DEF Behind
    <2>5. disk \notin Unreadable
        BY <1>1, <2>1, NothingToGate
    <2> QED BY <1>1, <1>2, <2>1, <2>3, <2>4, <2>5, CheckpointAhead
<1>11. CASE Publish
    <2>1. /\ pc = "publish" /\ pc' = "clear" /\ UNCHANGED <<run, disk, starts, approvals>>
          /\ packet' = [packet EXCEPT ![which] = Shown(run, which)]
        BY <1>11 DEF Publish
    <2>2. disk \notin Unreadable /\ run = disk
        BY <1>1, <2>1, NothingToGate DEF DiskFollows
    <2>3. RunOK(run) /\ run.status \in Waiting /\ run.status \notin Terminal
        BY <1>1, <2>1 DEF Inv, SnapshotsOK, StatusFollows, Waiting, Terminal
    <2>4. which \in Kind /\ PhaseIs(which, phase) /\ phase.stage = "awaiting_approval"
        BY <2>3, ActivePhase DEF which, phase, RunOK
    <2>5. run[which] # NoPhase /\ run[which].version > 0 /\ run[which].version \in Nat
        BY <2>4, PhaseNumbers, AbsenceAssumption DEF phase
    <2>6. Recorded(Shown(run, which))
        BY <2>2, <2>5 DEF Recorded, Shown
    <2>7. Shown(run, which)[1] = which /\ Shown(run, which)[2] <= starts
        BY <1>1 DEF Shown, StampsRecorded
    <2>8. ASSUME NEW a, Recorded(a) PROVE Recorded(a)'
        BY <2>1, <2>2, <2>8 DEF Recorded, Unreadable
    <2>9. StampsRecorded'
        BY <1>1, <2>1, <2>4, <2>6, <2>7, <2>8 DEF StampsRecorded, Inv, GateOK
    <2> QED BY <1>1, <2>1, <2>2, <2>9 DEF DiskFollows, Unreadable
<1>12. CASE ClearDecision \/ TakeDecision
    <2>1. /\ pc \in {"clear", "poll"} /\ pc' \in {"poll", "decided"}
          /\ UNCHANGED <<run, disk, starts, packet, approvals>>
        BY <1>12 DEF ClearDecision, TakeDecision
    <2> QED BY <1>1, <2>1, SameDisk
<1>13. CASE ApplyApprove \/ ApplyRequestChanges \/ ApplyCancel
    <2>1. pc = "decided" /\ starts' = starts
        BY <1>13 DEF ApplyApprove, ApplyRequestChanges, ApplyCancel
    <2>2. Applied
        BY <1>1, <1>13, ApproveInv, RejectInv, CancelInv
    <2>3. disk \notin Unreadable
        BY <1>1, <2>1, NothingToGate
    <2> QED BY <1>1, <1>2, <2>1, <2>2, <2>3, CheckpointAhead DEF Applied
<1>14. ASSUME NEW k \in Kind, HumanDecides(k) PROVE DiskFollows' /\ StampsRecorded'
    <2>1. /\ packet[k] # Absent /\ UNCHANGED <<run, disk, pc, starts, packet>>
          /\ approvals' \subseteq approvals \cup {packet[k]}
        BY <1>14 DEF HumanDecides
    <2>2. ASSUME NEW a, Recorded(a) PROVE Recorded(a)'
        BY <2>1, <2>2 DEF Recorded, Unreadable
    <2>3. StampsRecorded'
        BY <1>1, <2>1, <2>2 DEF StampsRecorded
    <2> QED BY <1>1, <2>1, <2>3 DEF DiskFollows, Unwritten, Unreadable
<1>15. CASE UNCHANGED vars
    BY <1>1, <1>15, SameDisk DEF vars, gate
<1> QED BY <1>3, <1>4, <1>5, <1>6, <1>7, <1>8, <1>9, <1>10, <1>11, <1>12, <1>13, <1>14, <1>15
        DEF Next, ProcessStep, Decide

(* A run.json that parses is never more than one checkpoint behind memory,  *)
(* and a process that has none to go by is still at its first draft.        *)
THEOREM DiskInvariance == Spec => []DInv
BY DiskInit, DiskNext, PTL DEF Spec

(* Unless run.json was cut short in its rewrite (flush_run writes in place), *)
(* a restart goes on with the same run, at most one version of the plan and *)
(* of the code behind the process that died (load_or_start over the         *)
(* checkpoints of drive_phase).                                             *)
THEOREM RestartIsCheap == Spec => RestartLosesOneVersion
<1> DEFINE Cheap == pc = "down" /\ pc' # "down" /\ disk # Torn =>
                      /\ run'.plan.version + 1 >= run.plan.version
                      /\ disk # Missing => run'.created = run.created
                      /\ run.code # NoPhase =>
                            IF run'.code = NoPhase THEN run.code.version = 0
                            ELSE run'.code.version + 1 >= run.code.version
<1>1. ASSUME DInv, [Next]_vars, pc = "down", pc' # "down", disk # Torn
      PROVE  Cheap
    <2>1. Inv /\ DiskFollows
        BY <1>1 DEF DInv
    <2>2. StartFresh \/ StartResumed
        BY <1>1 DEF Next, vars, Crash, AgentStep, WriteArtifact, WriteReview, WriteDispositions,
               InStage, ProcessStep, FlushRun, ExecuteAuthor, ExecuteReviewRound,
               ExecuteDisposition, StageFails, EnterGate, Publish, ClearDecision, Decide,
               TakeDecision, PollFails, ApplyApprove, ApplyRequestChanges, ApplyCancel,
               HumanDecides
    <2>3. run.plan.version \in Nat /\ (run.code # NoPhase => run.code.version \in Nat)
        BY <2>1, PhaseNumbers DEF Inv, SnapshotsOK, RunOK
    <2>4. CASE StartFresh
        <3>1. disk = Missing /\ run' = NewRun(starts + 1) /\ starts + 1 \in Nat
            BY <1>1, <2>1, <2>4 DEF StartFresh, Launch, Unreadable, Inv, ControlOK
        <3>2. run'.plan.version = 0
            BY <3>1, FreshRun
        <3>3. run.code = NoPhase /\ run.plan.version <= 1
            BY <2>1, <3>1 DEF DiskFollows, Unwritten
        <3> QED BY <2>3, <3>1, <3>2, <3>3
    <2>5. CASE StartResumed
        <3>1. run' = disk /\ disk \notin Unreadable
            BY <2>5 DEF StartResumed, Launch
        <3>2. disk.plan.version \in Nat /\ (disk.code # NoPhase => disk.code.version \in Nat)
            BY <2>1, <3>1, PhaseNumbers DEF Inv, SnapshotsOK, RunOK
        <3>3. run.created = disk.created /\ (run = disk \/ Behind(disk, run))
            BY <1>1, <2>1, <3>1 DEF DiskFollows, Unreadable
        <3> QED BY <2>3, <3>1, <3>2, <3>3 DEF Behind
    <2> QED BY <2>2, <2>4, <2>5
<1>2. DInv /\ [Next]_vars => [Cheap]_vars
    BY <1>1
<1> QED BY <1>2, DiskInvariance, PTL DEF Spec, RestartLosesOneVersion

-----------------------------------------------------------------------------
(* run.json implements RunLifecycle. *)

LifecycleStatus ==
    IF disk = Missing THEN "planning" ELSE IF disk = Torn THEN "lost" ELSE disk.status

(* A flush leaves no phase signed that was not, and every signed phase whose *)
(* version it does not change.                                               *)
LEMMA FlushSigned ==
    ASSUME DInv, FlushRun, disk \notin Unreadable
    PROVE  /\ SignedPhases' \subseteq SignedPhases
           /\ \/ SignedPhases' = SignedPhases
              \/ disk.status \in {"planning", "implementing"} /\ run.status = disk.status
<1>1. Inv /\ DiskFollows /\ StampsRecorded
    BY DEF DInv
<1>2. pc = "flush" /\ disk' = run /\ UNCHANGED <<run, approvals>>
    BY DEF FlushRun, gate
<1>3. /\ disk \notin Unreadable /\ disk' \notin Unreadable
      /\ run.created = disk.created
    BY <1>1, <1>2, SnapshotAssumption DEF DiskFollows, Unreadable, Inv, SnapshotsOK, RunOK
<1>4. /\ SignedPhases = {k \in Kind : disk[k] # NoPhase /\ Shown(disk, k) \in approvals}
      /\ SignedPhases' = {k \in Kind : run[k] # NoPhase /\ Shown(run, k) \in approvals}
    BY <1>2, <1>3 DEF SignedPhases, Shown, Unreadable
<1>5. ASSUME NEW k \in Kind, run[k] # NoPhase, Shown(run, k) \in approvals
      PROVE  disk[k] # NoPhase /\ Shown(disk, k) = Shown(run, k)
    <2>1. Recorded(Shown(run, k))
        BY <1>1, <1>5 DEF StampsRecorded
    <2>2. disk[k] # NoPhase /\ run[k].version <= disk[k].version
        BY <1>1, <1>3, <2>1 DEF Recorded, Shown, Inv, SnapshotsOK, RunOK, RunState
    <2>3. run[k].version = disk[k].version
        BY <1>1, <1>2, <2>2, VersionsGrow
    <2> QED BY <1>3, <2>2, <2>3 DEF Shown
<1>6. ASSUME NEW k \in Kind, disk[k] # NoPhase,
             ~(disk.status \in {"planning", "implementing"} /\ run.status = disk.status)
      PROVE  run[k] # NoPhase /\ Shown(run, k) = Shown(disk, k)
    <2>1. run[k] # NoPhase /\ run[k].version = disk[k].version
        BY <1>1, <1>2, <1>6, VersionsGrow
    <2> QED BY <1>3, <2>1 DEF Shown
<1> QED BY <1>4, <1>5, <1>6

(* The flush is the step of the life cycle that the checkpoint stands for.  *)
LEMMA FlushStep ==
    ASSUME DInv, FlushRun
    PROVE  Lifecycle!Next \/ UNCHANGED <<LifecycleStatus, SignedPhases>>
<1>1. Inv /\ DiskFollows /\ StampsRecorded
    BY DEF DInv
<1>2. pc = "flush" /\ disk' = run /\ UNCHANGED <<run, approvals>>
    BY DEF FlushRun, gate
<1>3. disk' \notin Unreadable
    BY <1>1, <1>2, SnapshotAssumption DEF Unreadable, Inv, SnapshotsOK, RunOK
<1>4. LifecycleStatus' = run.status
    BY <1>2, <1>3 DEF LifecycleStatus, Unreadable
<1>5. CASE disk \in Unreadable
    <2>1. run.status = "planning" /\ run.created \in Nat
        BY <1>1, <1>2, <1>5
           DEF DiskFollows, Unwritten, Unreadable, Inv, SnapshotsOK, RunOK, RunState
    <2>2. SignedPhases = {} /\ LifecycleStatus = IF disk = Missing THEN "planning" ELSE "lost"
        BY <1>5 DEF LifecycleStatus, SignedPhases, Unreadable
    <2>3. \A a \in approvals : a[2] < run.created
        BY <1>1, <1>2, <1>5 DEF StampsRecorded, Recorded
    <2>4. \A k \in Kind : Shown(run, k) \notin approvals
        BY <2>1, <2>3 DEF Shown
    <2>5. SignedPhases' = {}
        BY <1>2, <1>3, <2>4 DEF SignedPhases, Unreadable, Shown
    <2>6. CASE disk = Missing
        BY <1>4, <2>1, <2>2, <2>5, <2>6
    <2>7. CASE disk # Missing
        <3>1. Lifecycle!BeginAgain
            BY <1>4, <2>1, <2>2, <2>5, <2>7 DEF Lifecycle!BeginAgain, LifecycleStatus
        <3> QED BY <3>1 DEF Lifecycle!Next
    <2> QED BY <2>6, <2>7
<1>6. CASE disk \notin Unreadable
    <2>2. LifecycleStatus = disk.status
        BY <1>6 DEF LifecycleStatus, Unreadable
    <2>3. StatusStep(disk.status, run.status)
        BY <1>1, <1>2, <1>6 DEF DiskFollows, Behind
    <2>4. /\ SignedPhases' \subseteq SignedPhases
          /\ \/ SignedPhases' = SignedPhases
             \/ disk.status \in {"planning", "implementing"} /\ run.status = disk.status
        BY <1>6, FlushSigned
    <2>5. CASE disk.status \in {"planning", "implementing"} /\ run.status = disk.status
        <3>1. Lifecycle!Revise
            BY <1>4, <2>2, <2>4, <2>5 DEF Lifecycle!Revise, Lifecycle!Working, LifecycleStatus
        <3> QED BY <3>1 DEF Lifecycle!Next
    <2>6. CASE ~(disk.status \in {"planning", "implementing"} /\ run.status = disk.status)
        <3>1. SignedPhases' = SignedPhases
            BY <2>4, <2>6
        <3>2. CASE run.status = disk.status
            BY <1>4, <2>2, <3>1, <3>2
        <3>3. CASE \/ disk.status = "planning" /\ run.status = "awaiting_plan_approval"
                   \/ disk.status = "implementing" /\ run.status = "awaiting_code_approval"
            <4>1. Lifecycle!Ready
                BY <1>4, <2>2, <3>1, <3>3 DEF Lifecycle!Ready, Lifecycle!Waiting, LifecycleStatus
            <4> QED BY <4>1 DEF Lifecycle!Next
        <3>4. CASE \/ disk.status = "awaiting_plan_approval" /\ run.status = "implementing"
                   \/ disk.status = "awaiting_code_approval" /\ run.status = "completed"
            <4>1. RunOK(run) /\ Approved(run)
                BY <1>1 DEF Inv, SnapshotsOK, ApprovedOK
            <4>2. /\ run.status = "implementing" => "plan" \in SignedPhases'
                  /\ run.status = "completed" => "code" \in SignedPhases'
                BY <1>2, <1>3, <4>1, AbsenceAssumption
                   DEF RunOK, RunState, Approved, SignedPhases, Kind, Shown, Unreadable
            <4>3. Lifecycle!Approve
                BY <1>4, <2>2, <3>1, <3>4, <4>2
                   DEF Lifecycle!Approve, Lifecycle!Waiting, LifecycleStatus
            <4> QED BY <4>3 DEF Lifecycle!Next
        <3>5. CASE \/ disk.status = "awaiting_plan_approval" /\ run.status = "planning"
                   \/ disk.status = "awaiting_code_approval" /\ run.status = "implementing"
            <4>1. Lifecycle!SendBack
                BY <1>4, <2>2, <3>1, <3>5
                   DEF Lifecycle!SendBack, Lifecycle!Waiting, LifecycleStatus
            <4> QED BY <4>1 DEF Lifecycle!Next
        <3>6. CASE disk.status \in Waiting /\ run.status = "cancelled"
            <4>1. Lifecycle!Cancel
                BY <1>4, <2>2, <3>1, <3>6
                   DEF Lifecycle!Cancel, Lifecycle!Waiting, LifecycleStatus, Waiting
            <4> QED BY <4>1 DEF Lifecycle!Next
        <3> QED BY <2>3, <3>2, <3>3, <3>4, <3>5, <3>6 DEF StatusStep, Waiting
    <2> QED BY <2>5, <2>6
<1> QED BY <1>5, <1>6

(* A human approval signs the phase, if it is about the version in run.json. *)
LEMMA HumanSigns ==
    ASSUME DInv, NEW k \in Kind, HumanDecides(k)
    PROVE  Lifecycle!Next \/ UNCHANGED <<LifecycleStatus, SignedPhases>>
<1>1. /\ packet[k] # Absent /\ UNCHANGED disk
      /\ approvals' = approvals \/ approvals' = approvals \cup {packet[k]}
    BY DEF HumanDecides
<1>2. packet[k][1] = k
    BY <1>1 DEF DInv, StampsRecorded
<1>4. LifecycleStatus' = LifecycleStatus
    BY <1>1 DEF LifecycleStatus
<1>9. CASE disk \in Unreadable
    BY <1>1, <1>4, <1>9 DEF SignedPhases, Unreadable
<1>10. CASE disk \notin Unreadable
    <2>1. /\ SignedPhases = {j \in Kind : disk[j] # NoPhase /\ Shown(disk, j) \in approvals}
          /\ SignedPhases' = {j \in Kind : disk[j] # NoPhase /\ Shown(disk, j) \in approvals'}
        BY <1>1, <1>10 DEF SignedPhases, Shown, Unreadable
    <2>2. \A j \in Kind : Shown(disk, j)[1] = j
        BY DEF Shown
    <2>3. CASE approvals' = approvals \/ packet[k] # Shown(disk, k) \/ disk[k] = NoPhase
        <3>1. SignedPhases' = SignedPhases
            BY <1>1, <1>2, <2>1, <2>2, <2>3
        <3> QED BY <1>4, <3>1
    <2>4. CASE approvals' = approvals \cup {packet[k]} /\ packet[k] = Shown(disk, k)
               /\ disk[k] # NoPhase
        <3>1. SignedPhases' = SignedPhases \cup {k}
            BY <1>2, <2>1, <2>2, <2>4
        <3>2. Lifecycle!Sign(k)
            BY <1>4, <3>1 DEF Lifecycle!Sign, LifecycleStatus
        <3> QED BY <3>2 DEF Lifecycle!Next, Kind
    <2> QED BY <1>1, <2>3, <2>4
<1> QED BY <1>9, <1>10

(* A write of run.json that is cut short loses the run, which is not over.  *)
LEMMA TearLoses ==
    ASSUME DInv, Crash, disk' # disk
    PROVE  Lifecycle!Next
<1>1. pc = "flush" /\ disk' = Torn
    BY DEF Crash
<1>2. ASSUME disk \notin Unreadable PROVE disk.status \notin {"completed", "cancelled"}
    BY <1>1, <1>2 DEF DInv, DiskFollows, Behind, StatusStep, Waiting
<1>3. LifecycleStatus \notin {"completed", "cancelled"}
    BY <1>2 DEF LifecycleStatus, Unreadable
<1>4. LifecycleStatus' = "lost" /\ SignedPhases' = {}
    BY <1>1, AbsenceAssumption DEF LifecycleStatus, SignedPhases, Unreadable
<1>5. Lifecycle!Lose
    BY <1>3, <1>4 DEF Lifecycle!Lose, LifecycleStatus
<1> QED BY <1>5 DEF Lifecycle!Next

(* Every step of the run is a step of the life cycle or leaves it alone. *)
LEMMA LifecycleStep ==
    ASSUME DInv, [Next]_vars
    PROVE  [Lifecycle!Next]_(Lifecycle!lifecycle)
<1>1. CASE FlushRun
    BY <1>1, FlushStep DEF Lifecycle!lifecycle, LifecycleStatus
<1>2. CASE \E k \in Kind : HumanDecides(k)
    BY <1>2, HumanSigns DEF Lifecycle!lifecycle, LifecycleStatus
<1>3. CASE Crash /\ disk' # disk
    BY <1>3, TearLoses DEF Lifecycle!lifecycle
<1>4. CASE StartFresh
    <2>1. disk \in Unreadable /\ UNCHANGED disk
        BY <1>4 DEF StartFresh, Launch
    <2>2. UNCHANGED <<LifecycleStatus, SignedPhases>>
        BY <2>1 DEF LifecycleStatus, SignedPhases, Unreadable
    <2> QED BY <2>2 DEF Lifecycle!lifecycle, LifecycleStatus
<1>5. CASE /\ ~FlushRun /\ ~StartFresh /\ ~(\E k \in Kind : HumanDecides(k))
           /\ ~(Crash /\ disk' # disk)
    <2>1. UNCHANGED <<disk, approvals>>
        BY <1>5 DEF Next, vars, gate, StartResumed, Launch, Crash, AgentStep,
               WriteArtifact, WriteReview, WriteDispositions, ProcessStep, ExecuteAuthor,
               ExecuteReviewRound, ExecuteDisposition, StageFails, EnterGate, Publish,
               ClearDecision, Decide, TakeDecision, PollFails, ApplyApprove,
               ApplyRequestChanges, ApplyCancel
    <2>2. UNCHANGED <<LifecycleStatus, SignedPhases>>
        BY <2>1 DEF LifecycleStatus, SignedPhases, Unreadable, Shown
    <2> QED BY <2>2 DEF Lifecycle!lifecycle, LifecycleStatus
<1> QED BY <1>1, <1>2, <1>3, <1>4, <1>5

(* run.json implements the life cycle the human was promised: each gate is  *)
(* passed on a current human approval, a finished run stays finished, and a *)
(* run whose snapshot is cut short begins again with nothing approved,      *)
(* across any number of crashes and restarts.                               *)
THEOREM RunRefinesLifecycle == Spec => ImplementsLifecycle
<1>1. Init => Lifecycle!Init
    BY DEF Init, Lifecycle!Init, SignedPhases, Unreadable
<1>2. DInv /\ [Next]_vars => [Lifecycle!Next]_(Lifecycle!lifecycle)
    BY LifecycleStep
<1> QED BY <1>1, <1>2, DiskInvariance, PTL DEF Spec, ImplementsLifecycle, Lifecycle!Spec

=============================================================================
