---------------------------- MODULE RunLifecycle ----------------------------
(***************************************************************************)
(* What a run promises the person who started it, seen from the status in  *)
(* run.json alone (RunStatus and the header of orchestrator.rs): the plan  *)
(* and the code each pass one gate, a gate is passed only on the strength  *)
(* of a human approval of the very version it shows, and a finished run    *)
(* stays finished.  An unfinished one may be lost, when run.json is cut    *)
(* short in a rewrite; it then begins again, with nothing approved.        *)
(***************************************************************************)

VARIABLES
    status,    \* the durable RunStatus, or "lost"
    signed     \* the phases whose current version a human has approved

lifecycle == <<status, signed>>

Init == status = "planning" /\ signed = {}

(* Work on a phase: a new version is not the one that was approved. *)
Working == {"planning", "implementing"}
Waiting == [plan |-> "awaiting_plan_approval", code |-> "awaiting_code_approval"]

Revise ==
    /\ status \in Working
    /\ signed' \in SUBSET signed
    /\ UNCHANGED status

Ready ==
    /\ \/ status = "planning" /\ status' = Waiting.plan
       \/ status = "implementing" /\ status' = Waiting.code
    /\ UNCHANGED signed

(* The human approves what is on show.  The approval binds nothing yet: the *)
(* decision may still be withdrawn, or lost.                                *)
Sign(k) == signed' = signed \cup {k} /\ UNCHANGED status

Approve ==
    /\ \/ status = Waiting.plan /\ "plan" \in signed /\ status' = "implementing"
       \/ status = Waiting.code /\ "code" \in signed /\ status' = "completed"
    /\ UNCHANGED signed

SendBack ==
    /\ \/ status = Waiting.plan /\ status' = "planning"
       \/ status = Waiting.code /\ status' = "implementing"
    /\ UNCHANGED signed

Cancel ==
    /\ status \in {Waiting.plan, Waiting.code}
    /\ status' = "cancelled"
    /\ UNCHANGED signed

Lose ==
    /\ status \notin {"completed", "cancelled"}
    /\ status' = "lost" /\ signed' = {}

BeginAgain ==
    /\ status = "lost"
    /\ status' = "planning" /\ signed' = {}

Next ==
    \/ Lose \/ BeginAgain
    \/ Revise \/ Ready \/ Approve \/ SendBack \/ Cancel
    \/ \E k \in {"plan", "code"} : Sign(k)

Spec == Init /\ [][Next]_lifecycle

=============================================================================
