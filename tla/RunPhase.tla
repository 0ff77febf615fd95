------------------------------ MODULE RunPhase ------------------------------
(***************************************************************************)
(* One phase driven by the orchestrator: the stage loop of drive_phase     *)
(* (orchestrator.rs) over execute_author, execute_review_round and         *)
(* execute_disposition (executor.rs), the checkpoint after each stage, and *)
(* the human at the gate.  A stage's result is in memory first; follow-ups *)
(* and run.json are written afterwards, and the drive may end, or the      *)
(* process die, before, between and in the middle of the writes.           *)
(*                                                                         *)
(* The agents are the environment: at each prompt they may fail, write     *)
(* nothing, write something unreadable, or write any report or answer.     *)
(* A stage that returns an error ends the drive; the user may start        *)
(* another one, which reloads the last checkpoint.  A crash of the daemon  *)
(* has the same effect and may happen at any moment.                       *)
(*                                                                         *)
(* The names differ from those of RunOrchestrator, so that the proofs      *)
(* about the whole run can build on the ones about a phase.                *)
(***************************************************************************)
EXTENDS PhaseState

CONSTANTS
    Budget,              \* CycleBudgetConfig.max_cycles of this phase
    Roles,               \* the phase's reviewer roles
    MaxHumanIterations,  \* bound: how often the human asks for changes
    MaxRestarts          \* bound: how often a stopped drive is started again

ASSUME BudgetAssumption == Budget \in Nat
ASSUME PhaseRolesAssumption == IsFiniteSet(Roles) /\ Roles # {}
ASSUME BoundsAssumption == MaxHumanIterations \in Nat /\ MaxRestarts \in Nat

VARIABLES
    memory,     \* the PhaseState in the driving process's memory
    saved,      \* the PhaseState a start would take from run.json
    driver,     \* "driving", "saving" (a stage is done and not yet written),
                \* "stopped" (error or crash) or "approved"
    restarts    \* how often the drive was started again

phase_vars == <<memory, saved, driver, restarts>>

PhaseInit ==
    /\ memory = NewPhase(Budget)
    /\ saved = NewPhase(Budget)   \* no run.json yet: a start builds a new phase
    /\ driver = "driving"
    /\ restarts = 0

Driving(s) == driver = "driving" /\ memory.stage = s

(* Mutant: the next stage does not wait for the checkpoint of this one. *)
FinishWithoutCheckpoint(p) == memory' = p /\ UNCHANGED <<saved, driver, restarts>>

(* A stage records its result in memory; what it writes to disk is to come. *)
Finish(p) ==
    /\ memory' = p
    /\ driver' = "saving"
    /\ UNCHANGED <<saved, restarts>>

(* write_followups and checkpoint have succeeded: run.json is as memory is. *)
SaveStage ==
    /\ driver = "saving"
    /\ saved' = memory
    /\ driver' = "driving"
    /\ UNCHANGED <<memory, restarts>>

(* A prompt inside a stage that is tried again: only memory moves. *)
Retry(kind) ==
    /\ RetryAllowed(memory.ledger, kind)
    /\ memory' = ChargeRetry(memory, kind)
    /\ UNCHANGED <<saved, driver, restarts>>

-----------------------------------------------------------------------------
(* execute_author: prompt until the artifact exists. *)

AuthorWrites == Driving("authoring") /\ Finish(RecordDraft(memory))

AuthorWritesNothing == Driving("authoring") /\ Retry("invalid_output")

-----------------------------------------------------------------------------
(* execute_review_round.  A reviewer whose turn fails, or whose report is   *)
(* not JSON, counts as an agent failure; one that left no file as invalid   *)
(* output.  Either is charged to the round's allowance and dropped.         *)

ReviewOutcome == {"report", "agent_failure", "invalid_output"}

Dropped(outcome, kind) == Cardinality({r \in Roles : outcome[r] = kind})

Capped(n, limit) == IF n < limit THEN n ELSE limit

(* record_free_retry once per dropped reviewer, after reset_round_retries. *)
ChargeDrops(p, outcome) ==
    [p EXCEPT !.ledger = [ResetRoundRetries(@) EXCEPT
        !.retries = [k \in RetryKind |-> Capped(Dropped(outcome, k), FreeRetries[k])]]]

ReviewersReport ==
    /\ Driving("reviewing")
    /\ \E outcome \in [Roles -> ReviewOutcome], fs \in SUBSET FindingIds :
          /\ \E r \in Roles : outcome[r] = "report"
          /\ Finish(RecordReviewRound(ChargeDrops(memory, outcome), fs))

-----------------------------------------------------------------------------
(* execute_disposition: prompt until the answers pass the gate. *)

AnswersUnreadable == Driving("dispositioning") /\ Retry("invalid_output")

AnswersAccepted ==
    /\ Driving("dispositioning")
    /\ \E sub \in Submission :
          /\ GatePasses(memory.current_round_findings, sub)
          /\ Finish(RecordDisposition(memory, sub))

AnswersRejected ==
    /\ Driving("dispositioning")
    /\ \E sub \in Submission : ~GatePasses(memory.current_round_findings, sub)
    /\ \/ Retry("disposition")
       \/ /\ ~RetryAllowed(memory.ledger, "disposition")
          /\ Finish(RecordStuck(memory))

-----------------------------------------------------------------------------
(* The human at the gate. *)

RequestChanges ==
    /\ Driving("awaiting_approval")
    /\ memory.ledger.human_iterations < MaxHumanIterations
    /\ Finish(RecordHumanRejection(memory))

Approve ==
    /\ Driving("awaiting_approval")
    /\ driver' = "approved"
    /\ UNCHANGED <<memory, saved, restarts>>

-----------------------------------------------------------------------------
(* The drive ends with an error (an agent failed, an allowance ran out, no  *)
(* reviewer survived, a file could not be written) or the daemon dies.      *)
(* What was being saved is on disk, or is not, or run.json was truncated    *)
(* and does not parse: then the next start builds a new phase.              *)

StopDriving ==
    /\ driver \in {"driving", "saving"}
    /\ driver' = "stopped"
    /\ \/ UNCHANGED saved
       \/ driver = "saving" /\ saved' \in {memory, NewPhase(Budget)}
    /\ UNCHANGED <<memory, restarts>>

(* load_or_start: the new process knows only what run.json says. *)
Resume ==
    /\ driver = "stopped"
    /\ restarts < MaxRestarts
    /\ restarts' = restarts + 1
    /\ driver' = "driving"
    /\ memory' = saved
    /\ UNCHANGED saved

(* One turn of the stage loop, whatever the agents write. *)
DriveStep ==
    \/ AuthorWrites
    \/ AuthorWritesNothing
    \/ ReviewersReport
    \/ AnswersUnreadable
    \/ AnswersAccepted
    \/ AnswersRejected
    \/ SaveStage

PhaseNext == DriveStep \/ RequestChanges \/ Approve \/ StopDriving \/ Resume

(* A process takes its turns until it stops.  The fairness takes it that    *)
(* prompts return: a turn an agent never ends holds the drive for ever (no  *)
(* timeout ends it), and is not what is asked here.  Nothing obliges the    *)
(* human to answer or the user to restart.                                  *)
PhaseSpec == PhaseInit /\ [][PhaseNext]_phase_vars /\ WF_phase_vars(DriveStep)

-----------------------------------------------------------------------------
(* Type invariant: the phase in memory and the one in run.json are well     *)
(* formed, and no tally passes its allowance (record_free_retry).           *)
PhaseTypeOK ==
    /\ \A p \in {memory, saved} : p \in PhaseRecord /\ RetriesWithinAllowance(p)
    /\ driver \in {"driving", "saving", "stopped", "approved"}
    /\ restarts \in 0..MaxRestarts

(* The phase is at its gate exactly when the ledger has an exit reason: the *)
(* error "phase reached the gate without an exit reason" at the end of      *)
(* drive_phase is unreachable, and record_cycle never meets a closed ledger *)
(* whose old reason it would return instead of counting the cycle.          *)
GateIffExit == \A p \in {memory, saved} : GateMatchesExit(p)

(* The budget rules of budget.rs over any sequence of rounds, restarts and  *)
(* human rejections: cycles are counted once, never past max_cycles (except *)
(* the single cycle a budget of zero still runs), and the exit reason the   *)
(* human is shown is the one the counts justify.                            *)
BudgetExplainsExit == \A p \in {memory, saved} : LedgerExplained(p.ledger)

(* The open review round is the one after the cycles spent, whatever was    *)
(* redrafted or resumed in between: round files rN.json are keyed by it.    *)
(* Every draft, every human iteration and every cycle made a version.       *)
RoundFollowsCycles == \A p \in {memory, saved} : RoundMatchesCycles(p)

(* Every blocking finding raised since the human last spoke, in a round     *)
(* that is closed, was accepted or disputed with a reason; only the round   *)
(* of a stuck author may be left open at the gate (disposition.rs).         *)
AnsweredBeforeGate == \A p \in {memory, saved} : ClosedRoundsAnswered(p)

(* At every gate but that of a stuck author, the packet the human reads     *)
(* accounts for every blocking finding raised since they last spoke, as     *)
(* disputed or as accepted, whatever rounds, restarts and retries lie       *)
(* between (build_packet, approval.rs).                                     *)
PacketAccountsForBlocking ==
    \A p \in {memory, saved} :
        p.stage = "awaiting_approval" /\ p.ledger.exit_reason # "stuck" =>
            Blocking(p.findings) = Disputes(p) \cup AcceptedBlocking(p)

WithoutRetries(p) == [p EXCEPT !.ledger = ResetRoundRetries(@)]

(* q is what p becomes by one stage, or by one decision of the human. *)
OneStageOn(p, q) ==
    \/ /\ p.stage = "authoring" /\ q.stage = "reviewing"
       /\ q.version = p.version + 1
    \/ /\ p.stage = "reviewing" /\ q.stage = "dispositioning"
       /\ q.version = p.version /\ q.round = p.round
    \/ /\ p.stage = "dispositioning" /\ q.stage \in {"reviewing", "awaiting_approval"}
       /\ q.ledger.cycles_used - p.ledger.cycles_used = q.version - p.version
       /\ q.version - p.version \in {0, 1}
    \/ /\ p.stage = "awaiting_approval" /\ q.stage = "authoring"
       /\ q.ledger.human_iterations = p.ledger.human_iterations + 1

(* What a crash, a failed stage or a failed write costs.  No stage begins,  *)
(* and nobody is prompted or asked, before the stage before it is in        *)
(* run.json; so a start that finds run.json takes up the stage that was     *)
(* interrupted (less its retry tallies) or the one stage before it, and     *)
(* only one that finds it cut short begins again (drive_phase, checkpoint). *)
OneStageAtRisk ==
    /\ driver \in {"driving", "approved"} => WithoutRetries(saved) = WithoutRetries(memory)
    /\ \/ WithoutRetries(saved) = WithoutRetries(memory)
       \/ OneStageOn(saved, memory)
       \/ driver = "stopped" /\ saved = NewPhase(Budget)

(* The ledger's counts account for every blocking finding on the table      *)
(* exactly once: nothing re-raised is counted again, nothing raised is      *)
(* missed, and a human rejection starts both sides again from nothing       *)
(* (new_blocking_since, pending_new_blocking, record_cycle).                *)
CountsMatchFindings == \A p \in {memory, saved} : CountsMatch(p)

(* As long as a process drives the phase, an exit reason, once set, is only *)
(* ever cleared, and only by the human.                                     *)
ExitReasonSticky ==
    [][ memory.ledger.exit_reason # None /\ driver # "stopped" =>
          \/ memory'.ledger.exit_reason = memory.ledger.exit_reason
          \/ /\ memory'.ledger.exit_reason = None
             /\ memory'.ledger.human_iterations = memory.ledger.human_iterations + 1 ]_phase_vars

(* Whatever the agents write, a drive comes to rest: at the human gate, or  *)
(* stopped.  No mix of missing, unreadable and rejected output loops.       *)
DriveComesToRest ==
    driver = "driving" ~>
        (driver = "driving" /\ memory.stage = "awaiting_approval") \/ driver = "stopped"

(* record_stuck (state.rs): "with the disputes section showing what never   *)
(* got answered".  The code's packet shows disputes only.                   *)
StuckPacketShowsUnanswered ==
    memory.ledger.exit_reason = "stuck" =>
        Blocking(memory.current_round_findings) \subseteq Disputes(memory)

=============================================================================
