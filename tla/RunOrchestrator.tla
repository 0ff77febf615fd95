--------------------------- MODULE RunOrchestrator ---------------------------
(***************************************************************************)
(* A whole run: drive_until of orchestrator.rs over both phases, the        *)
(* run.json snapshot (store.rs), the files agents and humans write          *)
(* (layout.rs, executor.rs), and the file gate (gate.rs), with a process    *)
(* that may die at any of its awaits and be started again.                  *)
(*                                                                          *)
(* Agents are the environment.  They write their files at any moment while  *)
(* their stage runs, or never; the executor reads whatever is there when    *)
(* the turn ends.  A file carries a stamp of what it is about, which the    *)
(* code does not see.                                                       *)
(***************************************************************************)
EXTENDS PhaseState

CONSTANTS
    Reviewers,       \* reviewer roles (the same for both phases)
    MaxCycles,       \* [plan |-> _, code |-> _], the budgets of RunState::new
    Answers,         \* the Submissions an author may write
    MaxHuman,        \* bound: human rejections of both phases, and fresh starts after the first
    MaxStarts,       \* bound: how often the run command is given
    NoPhase,         \* code: None
    Missing, Torn,   \* run.json that is not there, and one that does not parse
    Absent           \* any other file or value that is not there

ASSUME CyclesAssumption == MaxCycles \in [{"plan", "code"} -> Nat]
ASSUME RolesAssumption == IsFiniteSet(Reviewers) /\ Reviewers # {}
ASSUME AbsenceAssumption ==
    /\ NoPhase \notin PhaseRecord
    /\ Missing # Torn
    /\ Absent \notin {"text", "silent"}
ASSUME AnswersAssumption == Answers \subseteq Submission
ASSUME StartsAssumption == MaxHuman \in Nat /\ MaxStarts \in Nat

Kind == {"plan", "code"}
Unreadable == {Missing, Torn}
Rounds == 1 .. (1 + MaxCycles.plan + MaxCycles.code)
Iterations == 1 .. MaxHuman

RunStatus == {"planning", "awaiting_plan_approval", "implementing",
              "awaiting_code_approval", "completed", "cancelled"}
Terminal == {"completed", "cancelled"}

(* RunState; created stands for created_at_ms. *)
RunState ==
    [ status : RunStatus, created : Nat, plan : PhaseRecord,
      code : PhaseRecord \cup {NoPhase} ]

ASSUME SnapshotAssumption == Missing \notin RunState /\ Torn \notin RunState

NewRun(created) ==
    [ status |-> "planning", created |-> created,
      plan |-> NewPhase(MaxCycles.plan), code |-> NoPhase ]

Active(status) ==
    IF status \in {"planning", "awaiting_plan_approval"} THEN "plan" ELSE "code"

VARIABLES
    run,         \* the RunState in memory (the last one, when no process runs)
    disk,        \* run.json
    pc,          \* where the process is (see PCs)
    then,        \* where it goes once the snapshot is written
    plan_only,   \* stop_after is the plan phase
    starts,      \* how many processes there have been
    artifact,    \* plan.md / changes.md: written or not
    review,      \* reviews/rN/<reviewer>.json
    disposition, \* dispositions/rN.json
    brief,       \* brief.md: the iterations whose comments it holds (blank ones count)
    packet,      \* approval-<phase>: the version it shows
    decision,    \* decision-<phase>.json
    taken,       \* the decision the gate returned
    approvals    \* history: the versions a human wrote an approval for

files == <<artifact, review, disposition, brief>>
gate == <<packet, decision, taken, approvals>>
vars == <<run, disk, pc, then, plan_only, starts, files, gate>>

PCs == {"down", "stage", "flush", "publish", "clear", "poll", "decided"}

which == Active(run.status)
phase == run[which]
iteration == phase.ledger.human_iterations
InStage(s) == pc = "stage" /\ phase.stage = s
WithPhase(p) == [run EXCEPT ![which] = p]

NoFeedback == [k \in Kind |-> {}]

(* What a decision or a report is about. *)
Shown(r, k) == <<k, r.created, r[k].version>>

Init ==
    /\ run = NewRun(0)
    /\ disk = Missing
    /\ pc = "down" /\ then = "stage"
    /\ plan_only = FALSE
    /\ starts = 0
    /\ artifact = [k \in Kind |-> FALSE]
    /\ review = [k \in Kind |-> [n \in Rounds |-> [r \in Reviewers |-> Absent]]]
    /\ disposition = [k \in Kind |-> [n \in Rounds |-> Absent]]
    /\ brief = NoFeedback
    /\ packet = [k \in Kind |-> Absent]
    /\ decision = [k \in Kind |-> Absent]
    /\ taken = Absent
    /\ approvals = {}

-----------------------------------------------------------------------------
(* Starting a process: load_or_start, then import_brief for a new run. *)

(* The approvals that files still stand for.  A fresh run inherits no other *)
(* from the run that went before it under its id.                           *)
Outstanding == approvals \cap {decision[k].about : k \in {j \in Kind : decision[j] # Absent}}

Launch(r, b, a) ==
    /\ starts < MaxStarts
    /\ starts' = starts + 1
    /\ run' = r
    /\ brief' = b
    /\ approvals' = a
    /\ pc' = "stage" /\ then' = "stage"
    /\ plan_only' \in BOOLEAN
    /\ UNCHANGED <<disk, artifact, review, disposition, packet, decision, taken>>

(* Mutant: a finished run is started over. *)
ReopenFinished ==
    /\ pc = "down" /\ (disk \notin Unreadable => disk.status \in Terminal)
    /\ Launch(NewRun(starts + 1), NoFeedback, Outstanding)

(* load_run failed, because there is no snapshot or it does not parse. *)
StartFresh ==
    /\ pc = "down" /\ disk \in Unreadable
    /\ Launch(NewRun(starts + 1), NoFeedback, Outstanding)

(* Mutant: the brief is imported again on every start. *)
ResumeImportsBrief ==
    /\ pc = "down" /\ disk \notin Unreadable
    /\ disk.status \notin Terminal
    /\ Launch(disk, NoFeedback, approvals)

(* A finished run is refused, an unfinished one goes on where it stood. *)
StartResumed ==
    /\ pc = "down" /\ disk \notin Unreadable
    /\ disk.status \notin Terminal
    /\ Launch(disk, brief, approvals)

-----------------------------------------------------------------------------
(* checkpoint: insert into the store, then write run.json. *)

Checkpoint(r, next) == run' = r /\ pc' = "flush" /\ then' = next

(* Mutant: the write is not waited for. *)
FlushForgotten ==
    /\ pc = "flush"
    /\ pc' = then
    /\ UNCHANGED <<run, disk, then, plan_only, starts, files, gate>>

FlushRun ==
    /\ pc = "flush"
    /\ disk' = run
    /\ pc' = then /\ then' = "stage"
    /\ UNCHANGED <<run, plan_only, starts, files, gate>>

(* append_feedback reads the whole brief, takes a read that fails for an    *)
(* empty one, adds the comments and writes everything back.                 *)
Appended(what) ==
    {[before EXCEPT ![which] = @ \cup {iteration + 1}] :
        before \in {brief} \cup (IF what = "changes" THEN {NoFeedback} ELSE {})}

(* What an append that is cut short leaves: nothing done, the file emptied, *)
(* or all of it written.                                                    *)
HalfAppended ==
    IF pc = "decided" /\ taken.what = "changes"
    THEN {brief, NoFeedback} \cup Appended("changes") ELSE {brief}

(* The process dies, or a write fails and the error ends it.  A write of    *)
(* run.json or of the brief that was under way has truncated the file, or   *)
(* has not begun.                                                           *)
Crash ==
    /\ pc # "down"
    /\ pc' = "down" /\ then' = "stage"
    /\ disk' \in {disk} \cup (IF pc = "flush" THEN {Torn} ELSE {})
    /\ brief' \in HalfAppended
    /\ taken' = Absent
    /\ UNCHANGED <<run, plan_only, starts, artifact, review, disposition, packet, decision, approvals>>

-----------------------------------------------------------------------------
(* Agents at work. *)

WriteArtifact ==
    /\ InStage("authoring") /\ ~artifact[which]
    /\ artifact' = [artifact EXCEPT ![which] = TRUE]
    /\ UNCHANGED <<run, disk, pc, then, plan_only, starts, review, disposition, brief, gate>>

WriteReview(r) ==
    /\ InStage("reviewing")
    /\ \E content \in SUBSET FindingIds :
          review' = [review EXCEPT ![which][phase.round][r] =
                        [findings |-> content, about |-> Shown(run, which)]]
    /\ UNCHANGED <<run, disk, pc, then, plan_only, starts, artifact, disposition, brief, gate>>

WriteDispositions ==
    /\ InStage("dispositioning")
    /\ \E sub \in Answers : disposition' = [disposition EXCEPT ![which][phase.round] = sub]
    /\ UNCHANGED <<run, disk, pc, then, plan_only, starts, artifact, review, brief, gate>>

-----------------------------------------------------------------------------
(* The stages, as drive_phase enters them.  A step is the last prompt of    *)
(* its stage; the free retries before it, and their tallies, are the        *)
(* subject of RunPhase.                                                     *)

(* execute_author: the artifact exists, whoever wrote it and when. *)
ExecuteAuthor ==
    /\ InStage("authoring") /\ artifact[which]
    /\ Checkpoint(WithPhase(RecordDraft(phase)), "stage")
    /\ UNCHANGED <<disk, plan_only, starts, files, gate>>

(* execute_review_round: the reports on disk are the round's reports.  Some *)
(* reviewers are dropped, those without a report among them.  The findings  *)
(* are journalled before they are recorded.                                 *)
ExecuteReviewRound ==
    /\ InStage("reviewing")
    /\ \E heard \in (SUBSET Reviewers) \ {{}} :
          LET reports == review[which][phase.round]
              found == UNION {reports[r].findings : r \in heard}
          IN  /\ \A r \in heard : reports[r] # Absent
              /\ Checkpoint(WithPhase(RecordReviewRound(phase, found)), "stage")
    /\ UNCHANGED <<disk, plan_only, starts, artifact, review, disposition, brief, gate>>

(* execute_disposition: the answers on disk are the author's answers. *)
ExecuteDisposition ==
    /\ InStage("dispositioning")
    /\ LET sub == disposition[which][phase.round]
       IN  /\ sub # Absent
           /\ Checkpoint(WithPhase(IF GatePasses(phase.current_round_findings, sub)
                                   THEN RecordDisposition(phase, sub)
                                   ELSE RecordStuck(phase)), "stage")
    /\ UNCHANGED <<disk, plan_only, starts, files, gate>>

(* A stage that returns an error ends the command: an agent failed, an      *)
(* allowance is spent, no reviewer survived, a file could not be written.   *)
StageFails ==
    /\ pc = "stage" /\ phase.stage # "awaiting_approval"
    /\ pc' = "down"
    /\ UNCHANGED <<run, disk, then, plan_only, starts, files, gate>>

-----------------------------------------------------------------------------
(* The gate. *)

(* sync_status and the checkpoint before the human is asked. *)
EnterGate ==
    /\ InStage("awaiting_approval")
    /\ Checkpoint([run EXCEPT !.status = IF which = "plan" THEN "awaiting_plan_approval"
                                         ELSE "awaiting_code_approval"], "publish")
    /\ UNCHANGED <<disk, plan_only, starts, files, gate>>

Publish ==
    /\ pc = "publish"
    /\ packet' = [packet EXCEPT ![which] = Shown(run, which)]
    /\ pc' = "clear"
    /\ UNCHANGED <<run, disk, then, plan_only, starts, files, decision, taken, approvals>>

(* Mutant: what a previous gate left behind is not removed. *)
ClearNothing ==
    /\ pc = "clear"
    /\ pc' = "poll"
    /\ UNCHANGED <<run, disk, then, plan_only, starts, files, gate>>

ClearDecision ==
    /\ pc = "clear"
    /\ decision' = [decision EXCEPT ![which] = Absent]
    /\ pc' = "poll"
    /\ UNCHANGED <<run, disk, then, plan_only, starts, files, packet, taken, approvals>>

(* Mutant: both gates look for decision-plan.json. *)
TakePlanDecision ==
    /\ pc = "poll"
    /\ decision["plan"] # Absent /\ decision["plan"].what # "garbage"
    /\ taken' = decision["plan"]
    /\ decision' = [decision EXCEPT !["plan"] = Absent]
    /\ pc' = "decided"
    /\ UNCHANGED <<run, disk, then, plan_only, starts, files, packet, approvals>>

(* take_decision: the file is removed before the decision is acted on. *)
TakeDecision ==
    /\ pc = "poll"
    /\ decision[which] # Absent /\ decision[which].what # "garbage"
    /\ taken' = decision[which]
    /\ decision' = [decision EXCEPT ![which] = Absent]
    /\ pc' = "decided"
    /\ UNCHANGED <<run, disk, then, plan_only, starts, files, packet, approvals>>

(* A file that does not parse is an error, and stays where it is. *)
PollFails ==
    /\ pc = "poll"
    /\ decision[which] # Absent /\ decision[which].what = "garbage"
    /\ pc' = "down"
    /\ UNCHANGED <<run, disk, then, plan_only, starts, files, gate>>

(* The loop goes on, or the process is done: the run is over, or the limit  *)
(* of plan_only is reached, whatever the decision on the plan was.          *)
After(status) ==
    IF status \in Terminal \/ (plan_only /\ which = "plan") THEN "down" ELSE "stage"

ApplyApprove ==
    /\ pc = "decided" /\ taken.what = "approve"
    /\ LET r == IF which = "plan"
                THEN [run EXCEPT !.code = NewPhase(MaxCycles.code), !.status = "implementing"]
                ELSE [run EXCEPT !.status = "completed"]
       IN  Checkpoint(r, After(r.status))
    /\ taken' = Absent
    /\ UNCHANGED <<disk, plan_only, starts, files, packet, decision, approvals>>

(* append_feedback (which leaves the brief alone when the comments are      *)
(* blank), then request_changes.                                            *)
ApplyRequestChanges ==
    /\ pc = "decided" /\ taken.what \in {"changes", "changes_blank"}
    /\ brief' \in Appended(taken.what)
    /\ LET r == [WithPhase(RecordHumanRejection(phase)) EXCEPT
                    !.status = IF which = "plan" THEN "planning" ELSE "implementing"]
       IN  Checkpoint(r, After(r.status))
    /\ taken' = Absent
    /\ UNCHANGED <<disk, plan_only, starts, artifact, review, disposition, packet, decision, approvals>>

ApplyCancel ==
    /\ pc = "decided" /\ taken.what = "cancel"
    /\ Checkpoint([run EXCEPT !.status = "cancelled"], "down")
    /\ taken' = Absent
    /\ UNCHANGED <<disk, plan_only, starts, files, packet, decision, approvals>>

Rejections == run.plan.ledger.human_iterations
              + (IF run.code = NoPhase THEN 0 ELSE run.code.ledger.human_iterations)

StartedOver == IF run.created = 0 THEN 0 ELSE run.created - 1

Written == {"approve", "changes", "changes_blank", "cancel", "garbage"}

(* The human reads the packet of the active phase and writes a decision     *)
(* about it: while it is on show, while the phase is being redone, or while *)
(* no process is there to read it.  (A file written after the last process  *)
(* of the run, or between take_decision and the step after it, would only   *)
(* be a file nobody reads, or one more left over.)                          *)
HumanDecides(k) ==
    /\ k = which /\ packet[k] # Absent /\ decision[k] = Absent
    /\ run.status \notin Terminal /\ pc # "decided" /\ (pc = "down" => starts < MaxStarts)
    /\ \E what \in Written :
          /\ what \in {"changes", "changes_blank"} =>
                Rejections + StartedOver < MaxHuman
          /\ decision' = [decision EXCEPT ![k] = [what |-> what, about |-> packet[k]]]
          /\ approvals' = IF what = "approve" THEN approvals \cup {packet[k]} ELSE approvals
    /\ UNCHANGED <<run, disk, pc, then, plan_only, starts, files, packet, taken>>

-----------------------------------------------------------------------------
AgentStep ==
    \/ WriteArtifact
    \/ \E r \in Reviewers : WriteReview(r)
    \/ WriteDispositions

Decide == TakeDecision \/ PollFails \/ ApplyApprove \/ ApplyRequestChanges \/ ApplyCancel

ProcessStep ==
    \/ FlushRun
    \/ ExecuteAuthor \/ ExecuteReviewRound \/ ExecuteDisposition \/ StageFails
    \/ EnterGate \/ Publish \/ ClearDecision \/ Decide

Next ==
    \/ StartFresh \/ StartResumed \/ Crash
    \/ AgentStep \/ ProcessStep
    \/ \E k \in Kind : HumanDecides(k)

(* The process runs as long as it is up.  Nobody must answer or restart it. *)
Spec == Init /\ [][Next]_vars /\ WF_vars(ProcessStep)

-----------------------------------------------------------------------------
Snapshots == {run} \cup (IF disk \in Unreadable THEN {} ELSE {disk})

(* Type invariant: memory and run.json hold well-formed runs, whose phases  *)
(* satisfy everything PhaseState promises, at every await and after every   *)
(* crash.                                                                   *)
TypeOK ==
    /\ pc \in PCs /\ then \in PCs /\ plan_only \in BOOLEAN /\ starts \in 0..MaxStarts
    /\ \A r \in Snapshots :
          r \in RunState /\ \A k \in Kind : r[k] # NoPhase => PhaseOK(r[k])

(* A run acts on a decision only if the human made it looking at the very   *)
(* version the run is asking about: a decision left over from an earlier    *)
(* gate, or made while no process was listening, is never applied to a      *)
(* later version (publish, remove_file and take_decision of gate.rs).       *)
DecisionIsCurrent == pc = "decided" => taken.about = Shown(run, which)

(* Nothing is implemented before a human approved the plan as it stands,    *)
(* nothing is completed before one approved the code as it stands, in       *)
(* memory or in run.json, across crashes and restarts.                      *)
HumanApprovedIt ==
    \A r \in Snapshots :
        /\ r.code # NoPhase => Shown(r, "plan") \in approvals
        /\ r.status = "completed" => Shown(r, "code") \in approvals

(* An author that is sent back to work finds the comments it was sent back  *)
(* with in the brief, over crashes, restarts and briefs cut short: they are *)
(* written before the rejection is recorded, only a later append can empty  *)
(* the file, and no restart of a recorded run imports the brief again.      *)
(* (Comments of earlier iterations may be gone: a read that fails or a      *)
(* crash in append_feedback drops them.)                                    *)
FeedbackReachesAuthor ==
    pc = "stage" /\ phase.stage # "awaiting_approval" /\ iteration > 0 =>
        iteration \in brief[which]

(* "A daemon restart re-enters the recorded stage rather than restarting    *)
(* the run" (state.rs): as long as run.json parses, the process that takes  *)
(* over from one that died goes on with the same run, and loses at most the *)
(* version of the plan or the code that one was making.  Only a run.json    *)
(* cut short in its rewrite starts the run over.                            *)
RestartLosesOneVersion ==
    [][ pc = "down" /\ pc' # "down" /\ disk # Torn =>
          /\ run'.plan.version + 1 >= run.plan.version
          /\ disk # Missing => run'.created = run.created
          /\ run.code # NoPhase =>
                IF run'.code = NoPhase THEN run.code.version = 0
                ELSE run'.code.version + 1 >= run.code.version ]_vars

(* A decision written while the gate is polling is acted on: the run moves  *)
(* on or the process is gone.                                               *)
DecisionIsTaken == (pc = "poll" /\ decision[which] # Absent) ~> pc # "poll"

(* run.json implements the life cycle the human was promised. *)
SignedPhases ==
    IF disk \in Unreadable THEN {}
    ELSE {k \in Kind : disk[k] # NoPhase /\ Shown(disk, k) \in approvals}
Lifecycle == INSTANCE RunLifecycle WITH
    status <- IF disk = Missing THEN "planning" ELSE IF disk = Torn THEN "lost" ELSE disk.status,
    signed <- SignedPhases

(* Every gate is passed once per version, on a current human approval, a    *)
(* finished run stays finished, and a run whose snapshot is lost passes     *)
(* both gates again (drive_until, load_or_start, flush_run).                *)
ImplementsLifecycle == Lifecycle!Spec

(* The run command with --plan-only: "stopping after the plan is approved,  *)
(* no code will be written" (main.rs).                                      *)
PlanOnlyWritesNoCode ==
    [][ plan_only /\ pc # "down" => artifact'["code"] = artifact["code"] ]_vars

(* A round is about the version on the table: a reviewer that "finished     *)
(* its turn without writing the file it was told to" (executor.rs,          *)
(* MissingOutput) contributes nothing.                                      *)
RoundReadsFreshReports ==
    [][ \A r \in Reviewers :
          ExecuteReviewRound /\ review[which][phase.round][r] # Absent =>
              review[which][phase.round][r].about = Shown(run, which) ]_vars

=============================================================================
