--------------------------- MODULE RunSupervisor ---------------------------
(***************************************************************************)
(* The console's registry of runs (core/src/run/supervisor.rs), the tasks  *)
(* that drive runs into it (ConsoleLauncher and drive_console_run in       *)
(* bin/src/main.rs) and the HTTP routes that read it and answer its gates  *)
(* (server/src/console/mod.rs).  Everything runs on one thread: a task is  *)
(* only interrupted at an await, so one action is what runs between two.   *)
(*                                                                         *)
(* A run's id is the clock in milliseconds when it was started             *)
(* (main.rs:348): two runs started in one millisecond share an id, and     *)
(* with it a view, a log and a gate.  What the orchestrator does between   *)
(* two requests to its gate is RunOrchestrator's; here it may log, ask the *)
(* gate, end or fail at any time.                                          *)
(***************************************************************************)
EXTENDS Naturals, Sequences, FiniteSets

CONSTANTS Tasks,        \* the runs that are started, one task each
          None,         \* no task, packet or decision
          MaxMillis,    \* the clock's last value
          MaxPackets,   \* packets a run may ask about
          MaxLogLines,  \* MAX_LOG_LINES, 5000 in the code
          MaxLines,     \* lines the runs log of their own
          Decisions     \* approve, request_changes and cancel; passed on unread

Ids == 0 .. MaxMillis
Packets == [task : Tasks, number : 0 .. MaxPackets]
Views == [pending : Packets \cup {None}, error : BOOLEAN, finished : BOOLEAN]

ASSUME SupervisorBounds ==
    /\ MaxMillis \in Nat
    /\ MaxPackets \in Nat
    /\ MaxLogLines \in Nat \ {0}
    /\ MaxLines \in Nat

ASSUME SupervisorValues ==
    /\ None \notin Tasks \cup Packets \cup Views
    /\ None # "dropped"
    /\ None \notin Decisions /\ "dropped" \notin Decisions

VARIABLES clock,    \* now_millis
          pc,       \* where a run's task is
          id,       \* the id it was given
          asked,    \* packets it has put to its gate
          answer,   \* the oneshot channel of its gate: None, a decision, "dropped"
          views,    \* runs: a view, or None where there is none
          logs,     \* the kept lines of an id, by number
          nextSeq,  \* the number of the last line
          gates,    \* the task whose sender is registered for an id
          order,    \* ids, newest first
          lines     \* lines logged in between so far

vars == <<clock, pc, id, asked, answer, views, logs, nextSeq, gates, order,
          lines>>
registry == <<views, logs, nextSeq, gates, order>>

View(packet, failed, finished) ==
    [pending |-> packet, error |-> failed, finished |-> finished]

Packet(t) == [task |-> t, number |-> asked[t]]

Init == /\ clock = 0
        /\ pc = [t \in Tasks |-> "absent"]
        /\ id = [t \in Tasks |-> 0]
        /\ asked = [t \in Tasks |-> 0]
        /\ answer = [t \in Tasks |-> None]
        /\ views = [i \in Ids |-> None]
        /\ logs = [i \in Ids |-> <<>>]
        /\ nextSeq = [i \in Ids |-> 0]
        /\ gates = [i \in Ids |-> None]
        /\ order = <<>>
        /\ lines = 0

-----------------------------------------------------------------------------
(* The registry's operations. *)

(* Mutant: lines are numbered by the length of what is kept. *)
AppendLogByLength(i) ==
    LET longer == Append(logs[i], Len(logs[i]) + 1)
        extra == IF Len(longer) > MaxLogLines THEN Len(longer) - MaxLogLines ELSE 0
    IN  /\ logs' = [logs EXCEPT ![i] = SubSeq(longer, extra + 1, Len(longer))]
        /\ nextSeq' = [nextSeq EXCEPT ![i] = Len(logs[i]) + 1]

(* append_log: number the line, keep the newest MAX_LOG_LINES. *)
AppendLog(i) ==
    LET longer == Append(logs[i], nextSeq[i] + 1)
        extra == IF Len(longer) > MaxLogLines THEN Len(longer) - MaxLogLines ELSE 0
    IN  /\ logs' = [logs EXCEPT ![i] = SubSeq(longer, extra + 1, Len(longer))]
        /\ nextSeq' = [nextSeq EXCEPT ![i] = @ + 1]

(* log_after: what GET /api/runs/<id>/log?after=<seen> returns to the page. *)
LogAfter(i, seen) ==
    LET log == logs[i]
        kept[k \in 0 .. Len(log)] ==
            IF k = 0 THEN <<>>
            ELSE IF log[k] > seen THEN Append(kept[k - 1], log[k]) ELSE kept[k - 1]
    IN  kept[Len(log)]

(***************************************************************************)
(* sync and register: a view made from the run's state, which keeps the    *)
(* pending packet, the error and, once set, finished of the view before.   *)
(***************************************************************************)
Sync(i, terminal) ==
    /\ views' = [views EXCEPT ![i] =
           IF @ = None THEN View(None, FALSE, terminal)
           ELSE View(@.pending, @.error, @.finished \/ terminal)]
    /\ order' = IF views[i] = None THEN <<i>> \o order ELSE order

(* A sender that is removed or replaced is dropped, unless it was used. *)
DropSender(i) ==
    [t \in Tasks |-> IF gates[i] = t /\ answer[t] = None THEN "dropped" ELSE answer[t]]

(* view.pending = None, where there is a view. *)
ClearPending(i) ==
    [views EXCEPT ![i] = IF @ = None THEN None ELSE [@ EXCEPT !.pending = None]]

-----------------------------------------------------------------------------
(* The tasks. *)

Tick == /\ clock < MaxMillis
        /\ clock' = clock + 1
        /\ UNCHANGED <<pc, id, asked, answer, registry, lines>>

(***************************************************************************)
(* POST /api/runs and ConsoleLauncher::start: roles are resolved first (a  *)
(* request with bad ones or an empty brief changes nothing), the id is     *)
(* taken from the clock and the task is spawned; the id is returned before *)
(* the registry knows it.                                                  *)
(***************************************************************************)
Start(t) ==
    /\ pc[t] = "absent"
    /\ pc' = [pc EXCEPT ![t] = "brief"]
    /\ id' = [id EXCEPT ![t] = clock]
    /\ UNCHANGED <<clock, asked, answer, registry, lines>>

(* drive_console_run, after the brief is written: the run is registered. *)
Begin(t) ==
    /\ pc[t] = "brief"
    /\ Sync(id[t], FALSE)
    /\ AppendLog(id[t])
    /\ pc' = [pc EXCEPT ![t] = "driving"]
    /\ UNCHANGED <<clock, id, asked, answer, gates, lines>>

(* SupervisorProgress::emit: the orchestrator reports a step. *)
Emit(t) ==
    /\ pc[t] = "driving"
    /\ lines < MaxLines
    /\ lines' = lines + 1
    /\ AppendLog(id[t])
    /\ UNCHANGED <<clock, pc, id, asked, answer, views, gates, order>>

(* Mutant: park registers the sender but does not put the packet in the view. *)
ParkUnshown(t) ==
    /\ pc[t] = "driving"
    /\ asked[t] < MaxPackets
    /\ asked' = [asked EXCEPT ![t] = @ + 1]
    /\ answer' = [DropSender(id[t]) EXCEPT ![t] = None]
    /\ AppendLog(id[t])
    /\ gates' = [gates EXCEPT ![id[t]] = t]
    /\ pc' = [pc EXCEPT ![t] = "parked"]
    /\ UNCHANGED <<clock, id, views, order, lines>>

(***************************************************************************)
(* SupervisorGate::request up to its await: log, show the packet, register *)
(* the sender in place of whatever was registered for the id.              *)
(***************************************************************************)
Park(t) ==
    /\ pc[t] = "driving"
    /\ asked[t] < MaxPackets
    /\ asked' = [asked EXCEPT ![t] = @ + 1]
    /\ answer' = [DropSender(id[t]) EXCEPT ![t] = None]
    /\ AppendLog(id[t])
    /\ views' = [views EXCEPT ![id[t]] =
           IF @ = None THEN None ELSE [@ EXCEPT !.pending = Packet(t)']]
    /\ gates' = [gates EXCEPT ![id[t]] = t]
    /\ pc' = [pc EXCEPT ![t] = "parked"]
    /\ UNCHANGED <<clock, id, order, lines>>

(***************************************************************************)
(* SupervisorGate::request after its await: unpark, which removes whatever *)
(* is registered for the id by now, log, and return the decision.          *)
(***************************************************************************)
Resume(t) ==
    /\ pc[t] = "parked"
    /\ answer[t] \in Decisions
    /\ views' = ClearPending(id[t])
    /\ gates' = [gates EXCEPT ![id[t]] = None]
    /\ answer' = DropSender(id[t])
    /\ AppendLog(id[t])
    /\ pc' = [pc EXCEPT ![t] = "driving"]
    /\ UNCHANGED <<clock, id, asked, order, lines>>

(* drive_until returned: the last state is mirrored and logged. *)
End(t) ==
    /\ pc[t] = "driving"
    /\ \E terminal \in BOOLEAN : Sync(id[t], terminal)
    /\ AppendLog(id[t])
    /\ pc' = [pc EXCEPT ![t] = "ended"]
    /\ UNCHANGED <<clock, id, asked, answer, gates, lines>>

(***************************************************************************)
(* The brief cannot be written, the orchestrator fails, or the gate's      *)
(* sender was dropped: the failure is logged.                              *)
(***************************************************************************)
Fail(t) ==
    /\ \/ pc[t] \in {"brief", "driving"}
       \/ pc[t] = "parked" /\ answer[t] = "dropped"
    /\ AppendLog(id[t])
    /\ pc' = [pc EXCEPT ![t] = "failed"]
    /\ UNCHANGED <<clock, id, asked, answer, views, gates, order, lines>>

(* finish: the view, if the run ever got one, is finished; the gate goes. *)
Finish(t) ==
    /\ pc[t] \in {"ended", "failed"}
    /\ views' = [views EXCEPT ![id[t]] =
           IF @ = None THEN None ELSE View(None, pc[t] = "failed", TRUE)]
    /\ gates' = [gates EXCEPT ![id[t]] = None]
    /\ answer' = DropSender(id[t])
    /\ pc' = [pc EXCEPT ![t] = "done"]
    /\ UNCHANGED <<clock, id, asked, logs, nextSeq, order, lines>>

-----------------------------------------------------------------------------
(* The console. *)

(* Mutant: the sender is taken and dropped without the decision being sent. *)
DecideUnsent(i, decision) ==
    /\ gates[i] # None
    /\ gates' = [gates EXCEPT ![i] = None]
    /\ views' = ClearPending(i)
    /\ UNCHANGED <<clock, pc, id, asked, answer, logs, nextSeq, order, lines>>

(***************************************************************************)
(* POST /api/runs/<id>/decision and decide: the sender registered for the  *)
(* id is taken and used; a decision for an id without one is refused (409) *)
(* and changes nothing.  A taken sender's receiver is still there: its     *)
(* task only leaves its await with an answer.                              *)
(***************************************************************************)
Decide(i, decision) ==
    /\ gates[i] # None
    /\ gates' = [gates EXCEPT ![i] = None]
    /\ views' = ClearPending(i)
    /\ answer' = [answer EXCEPT ![gates[i]] = decision]
    /\ UNCHANGED <<clock, pc, id, asked, logs, nextSeq, order, lines>>

Next == \/ Tick
        \/ \E t \in Tasks : Start(t) \/ Begin(t) \/ Emit(t) \/ Park(t) \/ Resume(t)
                            \/ End(t) \/ Fail(t) \/ Finish(t)
        \/ \E i \in Ids, decision \in Decisions : Decide(i, decision)

Spec == Init /\ [][Next]_vars

-----------------------------------------------------------------------------
(* Properties. *)

(* The variables keep their types. *)
TypeOK ==
    /\ clock \in Ids
    /\ pc \in [Tasks -> {"absent", "brief", "driving", "parked", "ended", "failed", "done"}]
    /\ id \in [Tasks -> Ids]
    /\ asked \in [Tasks -> 0 .. MaxPackets]
    /\ answer \in [Tasks -> Decisions \cup {None, "dropped"}]
    /\ views \in [Ids -> Views \cup {None}]
    /\ logs \in [Ids -> Seq(Nat)]
    /\ nextSeq \in [Ids -> Nat]
    /\ gates \in [Ids -> Tasks \cup {None}]
    /\ order \in Seq(Ids)
    /\ lines \in 0 .. MaxLines

(***************************************************************************)
(* What the console shows is what it can answer, also when runs share an   *)
(* id: an id has a pending packet exactly when a sender is registered for  *)
(* it, the packet is that sender's task's, and the task waits for it with  *)
(* nothing sent to it yet (park, unpark, decide and finish).               *)
(***************************************************************************)
ShownIsAnswerable ==
    \A i \in Ids :
        /\ gates[i] # None =>
               /\ id[gates[i]] = i
               /\ pc[gates[i]] = "parked"
               /\ answer[gates[i]] = None
               /\ views[i] # None
               /\ views[i].pending = Packet(gates[i])
        /\ gates[i] = None /\ views[i] # None => views[i].pending = None

(***************************************************************************)
(* A run that waits at its gate can be reached: it is shown and registered,*)
(* or has its decision, or, which only a run that shares its id can do to  *)
(* it, has lost its sender and will fail.                                  *)
(***************************************************************************)
ParkedIsReachable ==
    \A t \in Tasks :
        pc[t] = "parked" =>
            \/ answer[t] = None /\ gates[id[t]] = t
            \/ answer[t] \in Decisions
            \/ answer[t] = "dropped"
               /\ \E u \in Tasks \ {t} : pc[u] # "absent" /\ id[u] = id[t]

(***************************************************************************)
(* A client that polls after the last number it saw gets every line since, *)
(* once and in order, unless more than MAX_LOG_LINES were added meanwhile; *)
(* also when runs share the log (append_log, log_after and the console     *)
(* page's poll).                                                           *)
(***************************************************************************)
PollMissesNothing ==
    \A i \in Ids : \A seen \in 0 .. nextSeq[i] :
        nextSeq[i] - seen <= MaxLogLines =>
            LogAfter(i, seen) = [k \in 1 .. nextSeq[i] - seen |-> seen + k]
=============================================================================
