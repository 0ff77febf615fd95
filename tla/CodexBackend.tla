---------------------------- MODULE CodexBackend ----------------------------
(***************************************************************************)
(* CodexAppServerAgent of daemon/core/src/codex_app_server.rs: an agent      *)
(* behind JSON-RPC over the pipes of a child process.                        *)
(*                                                                           *)
(* A call of the backend (new_session, set_session_name, prompt, cancel) is  *)
(* a task that sends a request and waits.  The reader task takes the         *)
(* server's lines one by one, and the monitor task waits for the process to  *)
(* end.  All run on one thread and share the tables below; a step is what    *)
(* runs between two awaits.  The reader may handle many lines, and the end   *)
(* of the stream, before a task it woke runs.  A request of the server is    *)
(* answered by a task of its own, at once and without asking anybody.        *)
(*                                                                           *)
(* The app-server itself is external: it does what                           *)
(* daemon/server/src/bin/fake_codex_app_server.rs shows, in any order that   *)
(* keeps turn/started before a turn's end.                                   *)
(***************************************************************************)
EXTENDS Integers, Sequences, FiniteSets

CONSTANTS
    Threads,        \* thread ids
    MaxCalls,       \* bound: calls of the backend
    MaxTurns,       \* bound: turns the server starts
    MaxItems,       \* bound: turns with an item
    ApprovalStrategy, \* approval_strategy of the options
    None

ASSUME CodexBounds == MaxCalls \in Nat /\ MaxTurns \in Nat /\ MaxItems \in Nat
ASSUME CodexStrategy == ApprovalStrategy \in {"decline", "accept", "acceptForSession"}
ASSUME CodexNone ==
    /\ None \notin Threads /\ None \notin Nat
    /\ None \notin {"completed", "interrupted", "failed", "inProgress", "EndTurn", "Cancelled",
                    "error", "update", "request", "pending", "refused", "once", "session"}

Calls == 1..MaxCalls
Turns == 1..MaxTurns

VARIABLES
    proc,       \* the child: "up", "mute" (stdout closed) or "gone"
    kill,       \* kill_tx
    reader,     \* the reader task: "reading" or "closed"
    monitor,    \* monitor_agent_process: "watching" or "done"
    health,     \* health_tx
    shutdown,   \* a shutdown: "no", "waiting" or "done"
    opened,     \* threads a thread/start was answered with
    call,       \* the calls: operation, thread, progress, turn and outcome
    calls,      \* how many there have been
    pending,    \* pending_requests, by the call that waits
    active,     \* active_turns
    waiters,    \* turn_waiters
    completed,  \* completed_turns
    inbox,      \* requests the server has not taken yet
    stdout,     \* lines the reader has not read yet
    turn,       \* the server's turns
    turns,      \* how many there have been
    ask,        \* handle_server_request: its progress, what it writes and shows
    shown       \* what update_tx was told last of a turn's item

tables == <<pending, active, waiters, completed>>
server == <<turn, turns>>
tasks == <<reader, monitor, kill, health, shutdown>>
vars == <<proc, tasks, opened, call, calls, tables, inbox, stdout, server, ask, shown>>

NoCall == [op |-> "none", thread |-> None, pc |-> "unused", turn |-> None, out |-> None]
NoTurn == [thread |-> None, by |-> None, said |-> FALSE, begun |-> FALSE, item |-> None,
           end |-> None, closed |-> FALSE, reply |-> None]
NoAsk == [pc |-> "none", reply |-> None, show |-> None]

Init ==
    /\ proc = "up" /\ kill = FALSE /\ reader = "reading" /\ monitor = "watching"
    /\ health = TRUE /\ shutdown = "no"
    /\ opened = {} /\ calls = 0 /\ call = [c \in Calls |-> NoCall]
    /\ pending = {} /\ waiters = {}
    /\ active = [th \in Threads |-> None]
    /\ completed = [n \in Turns |-> None]
    /\ inbox = {} /\ stdout = << >>
    /\ turns = 0 /\ turn = [n \in Turns |-> NoTurn]
    /\ ask = [n \in Turns |-> NoAsk]
    /\ shown = [n \in Turns |-> None]

-----------------------------------------------------------------------------
(* Calls.  Request ids come from a counter, so a request is known by the    *)
(* call that sent it.  A request to a process that is gone fails in         *)
(* write_json, and its cleanup takes it out of pending_requests again.      *)

NewCall(op, th, n, pc, out) ==
    /\ calls < MaxCalls
    /\ calls' = calls + 1
    /\ call' = [call EXCEPT ![calls + 1] =
                    [op |-> op, thread |-> th, pc |-> pc, turn |-> n, out |-> out]]

send_request(op, th, n) ==
    IF proc = "gone"
    THEN /\ NewCall(op, th, n, "done", "error")
         /\ UNCHANGED <<pending, inbox>>
    ELSE /\ NewCall(op, th, n, "sent", None)
         /\ pending' = pending \cup {calls + 1}
         /\ inbox' = inbox \cup {[id |-> calls + 1, op |-> op, thread |-> th, turn |-> n]}

Quiet == UNCHANGED <<proc, tasks, active, waiters, completed, stdout, server, ask, shown>>

NewSession(th) ==
    /\ th \notin opened
    /\ \A c \in Calls : call[c].op = "start" => call[c].thread # th
    /\ send_request("start", th, None)
    /\ Quiet /\ UNCHANGED opened

SetSessionName(th) ==
    /\ th \in opened
    /\ send_request("name", th, None)
    /\ Quiet /\ UNCHANGED opened

(* The session server sends one prompt of a session at a time. *)
Prompt(th) ==
    /\ th \in opened
    /\ \A c \in Calls : call[c].op = "prompt" /\ call[c].thread = th => call[c].pc = "done"
    /\ send_request("prompt", th, None)
    /\ Quiet /\ UNCHANGED opened

Cancel(th) ==
    /\ th \in opened
    /\ IF active[th] = None
       THEN NewCall("cancel", th, None, "done", "ok") /\ UNCHANGED <<pending, inbox>>
       ELSE send_request("cancel", th, active[th])
    /\ Quiet /\ UNCHANGED opened

(* Mutant: a dropped request stays in pending_requests. *)
DropNameWithoutCleanup(c) ==
    /\ call[c].op = "name" /\ call[c].pc = "sent"
    /\ call' = [call EXCEPT ![c].pc = "dropped"]
    /\ UNCHANGED <<proc, tasks, opened, calls, tables, inbox, stdout, server, ask, shown>>

(* create_session gives set_session_name 2 s and then drops it. *)
DropName(c) ==
    /\ call[c].op = "name" /\ call[c].pc = "sent"
    /\ call' = [call EXCEPT ![c].pc = "dropped"]
    /\ pending' = pending \ {c}
    /\ UNCHANGED <<proc, tasks, opened, calls, active, waiters, completed,
                   inbox, stdout, server, ask, shown>>

(* What a prompt returns for a turn that is over; an announced failure is   *)
(* an error.                                                                *)
prompt_result(status) ==
    CASE status = "completed" -> "EndTurn"
      [] status = "interrupted" -> "Cancelled"
      [] OTHER -> "error"

(* Mutant: the waiter is registered without a look at completed_turns. *)
PromptAnsweredUnchecked(c) ==
    LET n == call[c].turn IN
    /\ call[c].pc = "answered"
    /\ IF call[c].out # "inProgress"
       THEN /\ call' = [call EXCEPT ![c].pc = "done", ![c].out = prompt_result(@)]
            /\ UNCHANGED tables
       ELSE /\ call' = [call EXCEPT ![c].pc = "waiting", ![c].out = None]
            /\ waiters' = waiters \cup {n}
            /\ active' = [active EXCEPT ![call[c].thread] = n]
            /\ UNCHANGED <<pending, completed>>
    /\ UNCHANGED <<proc, tasks, opened, calls, inbox, stdout, server, ask, shown>>

(* prompt, when turn/start has been answered. *)
PromptAnswered(c) ==
    LET n == call[c].turn IN
    /\ call[c].pc = "answered"
    /\ \/ /\ completed[n] # None
          /\ completed' = [completed EXCEPT ![n] = None]
          /\ call' = [call EXCEPT ![c].pc = "done", ![c].out = completed[n]]
          /\ UNCHANGED <<pending, active, waiters>>
       \/ /\ completed[n] = None /\ call[c].out # "inProgress"
          /\ call' = [call EXCEPT ![c].pc = "done", ![c].out = prompt_result(@)]
          /\ UNCHANGED tables
       \/ /\ completed[n] = None /\ call[c].out = "inProgress"
          /\ call' = [call EXCEPT ![c].pc = "waiting", ![c].out = None]
          /\ waiters' = waiters \cup {n}
          /\ active' = [active EXCEPT ![call[c].thread] = n]
          /\ UNCHANGED <<pending, completed>>
    /\ UNCHANGED <<proc, tasks, opened, calls, inbox, stdout, server, ask, shown>>

-----------------------------------------------------------------------------
(* The reader. *)

(* An answer to a request that is still pending.  A call that waits for     *)
(* nothing else returns; a prompt goes on with its turn.                    *)
Answered(line) ==
    LET c == line.id IN
    IF c \notin pending THEN UNCHANGED <<pending, call, opened>>
    ELSE /\ pending' = pending \ {c}
         /\ call' = [call EXCEPT ![c].pc = IF line.turn # None THEN "answered" ELSE "done",
                                 ![c].turn = IF line.turn # None THEN line.turn ELSE @,
                                 ![c].out = line.out]
         /\ opened' = IF call[c].op = "start" /\ line.out = "ok"
                      THEN opened \cup {call[c].thread} ELSE opened

(* Mutant: the waiter is looked up by the thread instead of the turn. *)
FinishThread(n, result) ==
    LET th == turn[n].thread
        waiting == {c \in Calls : call[c].pc = "waiting" /\ call[c].thread = th}
    IN  /\ active' = IF active[th] = n THEN [active EXCEPT ![th] = None] ELSE active
        /\ waiters' = waiters \ {call[c].turn : c \in waiting}
        /\ completed' = IF waiting # {} THEN completed ELSE [completed EXCEPT ![n] = result]
        /\ call' = [c \in Calls |-> IF c \in waiting
                                    THEN [call[c] EXCEPT !.pc = "done", !.out = result]
                                    ELSE call[c]]

finish_turn(n, result) ==
    LET th == turn[n].thread
        waiting == {c \in Calls : call[c].pc = "waiting" /\ call[c].turn = n}
    IN  /\ active' = IF active[th] = n THEN [active EXCEPT ![th] = None] ELSE active
        /\ waiters' = waiters \ {n}
        /\ completed' = IF n \in waiters THEN completed ELSE [completed EXCEPT ![n] = result]
        /\ call' = [c \in Calls |-> IF n \in waiters /\ c \in waiting
                                    THEN [call[c] EXCEPT !.pc = "done", !.out = result]
                                    ELSE call[c]]

(* Deltas, items, plans and errors that are retried go to update_tx. *)
Update(n) == shown' = [shown EXCEPT ![n] = "text"]

(* A line of the server is a response, a request or a notification. *)
ReadLine ==
    /\ reader = "reading" /\ stdout # << >>
    /\ stdout' = Tail(stdout)
    /\ LET line == Head(stdout) IN
       \/ /\ line.kind = "answer"
          /\ Answered(line)
          /\ UNCHANGED <<active, waiters, completed, ask, shown>>
       \/ /\ line.kind = "started"
          /\ active' = [active EXCEPT ![turn[line.turn].thread] = line.turn]
          /\ UNCHANGED <<pending, waiters, completed, call, opened, ask, shown>>
       \/ /\ line.kind = "ended"    \* turn/completed, or an error that is not retried
          /\ finish_turn(line.turn, prompt_result(line.out))
          /\ UNCHANGED <<pending, opened, ask, shown>>
       \/ /\ line.kind = "update"
          /\ Update(line.turn)
          /\ UNCHANGED <<tables, call, opened, ask>>
       \/ /\ line.kind = "request"
          /\ ask' = [ask EXCEPT ![line.turn].pc = "spawned"]
          /\ UNCHANGED <<tables, call, opened, shown>>
    /\ UNCHANGED <<proc, tasks, calls, inbox, server>>

-----------------------------------------------------------------------------
(* Requests of the server: approvals of a command, of file changes or of    *)
(* permissions, input for a tool, and MCP elicitations, of which the        *)
(* approval of a tool call of a listed server is a case of its own.         *)
AskKinds == {"command", "fileChange", "permissions", "userInput",
             "toolCall", "elicitation", "other"}

(* CodexApprovalStrategy: it grants nothing, this time, or for the session. *)
Scope(s) ==
    CASE s = "decline" -> "refused"
      [] s = "accept" -> "once"
      [] s = "acceptForSession" -> "session"

accepts_mcp_elicitation(kind, s) == s # "decline" /\ kind = "toolCall"

(* mcp_elicitation_response *)
ElicitationReply(kind, s) == IF accepts_mcp_elicitation(kind, s) THEN Scope(s) ELSE "refused"

(* The result that handle_server_request writes. *)
Reply(kind, s) ==
    CASE kind \in {"command", "fileChange", "permissions"} -> Scope(s)
      [] kind = "userInput" -> "refused"    \* no answers
      [] kind \in {"toolCall", "elicitation"} -> ElicitationReply(kind, s)
      [] kind = "other" -> "error"

(* command_, file_change_ and permissions_request_flow: the resolved update. *)
ApprovalFlow(s) == Scope(s)

(* tool_user_input_flow and mcp_elicitation_flow. *)
InputFlow(kind, s) == IF accepts_mcp_elicitation(kind, s) THEN Scope(s) ELSE "refused"

Flow(kind, s) ==
    CASE kind \in {"command", "fileChange", "permissions"} -> ApprovalFlow(s)
      [] kind \in {"userInput", "toolCall", "elicitation"} -> InputFlow(kind, s)
      [] kind = "other" -> None

(* Mutant: the decision is shown before the answer is written. *)
HandleRequestShown(n) ==
    /\ ask[n].pc = "spawned"
    /\ \E kind \in AskKinds :
        LET flow == Flow(kind, ApprovalStrategy) IN
        /\ ask' = [ask EXCEPT ![n] = [pc |-> "writing", show |-> flow,
                                     reply |-> Reply(kind, ApprovalStrategy)]]
        /\ shown' = IF flow = None THEN shown ELSE [shown EXCEPT ![n] = flow]
    /\ UNCHANGED <<proc, tasks, opened, call, calls, tables, inbox, stdout, server>>

(* handle_server_request up to its write: the request is shown as pending.  *)
(* (Which kind it was matters here only, so the line does not carry it.)    *)
HandleRequest(n) ==
    /\ ask[n].pc = "spawned"
    /\ \E kind \in AskKinds :
        LET flow == Flow(kind, ApprovalStrategy) IN
        /\ ask' = [ask EXCEPT ![n] = [pc |-> "writing", show |-> flow,
                                     reply |-> Reply(kind, ApprovalStrategy)]]
        /\ shown' = IF flow = None THEN shown ELSE [shown EXCEPT ![n] = "pending"]
    /\ UNCHANGED <<proc, tasks, opened, call, calls, tables, inbox, stdout, server>>

(* The write, and the decision that is shown after it; a write that fails   *)
(* is logged.                                                               *)
RequestAnswered(n) ==
    /\ ask[n].pc = "writing"
    /\ ask' = [ask EXCEPT ![n] = [NoAsk EXCEPT !.pc = "done"]]
    /\ IF proc = "gone" THEN UNCHANGED <<turn, shown>>
       ELSE /\ turn' = [turn EXCEPT ![n].reply = ask[n].reply]
            /\ shown' = IF ask[n].show = None THEN shown ELSE [shown EXCEPT ![n] = ask[n].show]
    /\ UNCHANGED <<proc, tasks, opened, call, calls, tables, inbox, stdout, turns>>

-----------------------------------------------------------------------------
(* fail_outstanding_requests and fail_outstanding_turns. *)
Drain ==
    LET lost == pending \cup {c \in Calls : call[c].pc = "waiting" /\ call[c].turn \in waiters}
    IN  /\ pending' = {} /\ waiters' = {}
        /\ call' = [c \in Calls |-> IF c \in lost
                                    THEN [call[c] EXCEPT !.pc = "done", !.out = "lost"]
                                    ELSE call[c]]
        /\ UNCHANGED <<active, completed>>

ReadEof ==
    /\ reader = "reading" /\ stdout = << >> /\ proc # "up"
    /\ reader' = "closed"
    /\ Drain
    /\ health' = FALSE
    /\ UNCHANGED <<proc, monitor, kill, shutdown, opened, calls, inbox, stdout,
                   server, ask, shown>>

-----------------------------------------------------------------------------
(* monitor_agent_process and shutdown. *)

MonitorKills ==
    /\ monitor = "watching" /\ kill /\ proc # "gone"
    /\ proc' = "gone" /\ inbox' = {}
    /\ UNCHANGED <<tasks, opened, call, calls, tables, stdout, server, ask, shown>>

(* Mutant: the monitor fails the turns but forgets the requests. *)
MonitorEndsTurnsOnly ==
    /\ monitor = "watching" /\ proc = "gone"
    /\ monitor' = "done"
    /\ waiters' = {} /\ health' = FALSE
    /\ call' = [c \in Calls |-> IF call[c].pc = "waiting" /\ call[c].turn \in waiters
                                THEN [call[c] EXCEPT !.pc = "done", !.out = "lost"] ELSE call[c]]
    /\ UNCHANGED <<proc, reader, kill, shutdown, opened, calls, pending, active, completed,
                   inbox, stdout, server, ask, shown>>

MonitorEnds ==
    /\ monitor = "watching" /\ proc = "gone"
    /\ monitor' = "done"
    /\ Drain
    /\ health' = FALSE
    /\ UNCHANGED <<proc, reader, kill, shutdown, opened, calls, inbox, stdout,
                   server, ask, shown>>

Shutdown ==
    /\ shutdown = "no"
    /\ IF health THEN kill' = TRUE /\ shutdown' = "waiting"
                 ELSE shutdown' = "done" /\ UNCHANGED kill
    /\ UNCHANGED <<proc, reader, monitor, health, opened, call, calls, tables,
                   inbox, stdout, server, ask, shown>>

ShutdownReturns ==
    /\ shutdown = "waiting" /\ ~health
    /\ shutdown' = "done"
    /\ UNCHANGED <<proc, reader, monitor, kill, health, opened, call, calls, tables,
                   inbox, stdout, server, ask, shown>>

-----------------------------------------------------------------------------
(* The app-server (external). *)

Line(kind, id, n, out) == [kind |-> kind, id |-> id, turn |-> n, out |-> out]
Say(line) == stdout' = Append(stdout, line)
Daemon == UNCHANGED <<proc, tasks, opened, call, calls, tables, ask, shown>>

ServerTakesTurn(r) ==
    /\ proc = "up" /\ r \in inbox /\ r.op = "prompt" /\ turns < MaxTurns
    /\ inbox' = inbox \ {r}
    /\ turns' = turns + 1
    /\ turn' = [turn EXCEPT ![turns + 1] = [NoTurn EXCEPT !.thread = r.thread, !.by = r.id]]
    /\ Daemon /\ UNCHANGED <<stdout>>

(* A turn that is over already may be answered with its status. *)
ServerAnswersTurn(n) ==
    /\ proc = "up" /\ n <= turns /\ ~turn[n].said
    /\ turn' = [turn EXCEPT ![n].said = TRUE]
    /\ \E status \in {"inProgress", turn[n].end} \ {None} : Say(Line("answer", turn[n].by, n, status))
    /\ Daemon /\ UNCHANGED <<inbox, turns>>

ServerStartsTurn(n) ==
    /\ proc = "up" /\ n <= turns /\ ~turn[n].begun
    /\ turn' = [turn EXCEPT ![n].begun = TRUE]
    /\ Say(Line("started", None, n, None))
    /\ Daemon /\ UNCHANGED <<inbox, turns>>

(* A turn has one item: an update, or a request. *)
ServerStreams(n, item) ==
    /\ proc = "up" /\ n <= turns /\ turn[n].begun /\ turn[n].end = None /\ turn[n].item = None
    /\ Cardinality({m \in Turns : turn[m].item # None}) < MaxItems
    /\ turn' = [turn EXCEPT ![n].item = item]
    /\ Say(Line(item, None, n, None))
    /\ Daemon /\ UNCHANGED <<inbox, turns>>

(* turn/completed; after an error that is not retried it says "failed". *)
ServerEndsTurn(n, status) ==
    /\ proc = "up" /\ n <= turns /\ turn[n].begun /\ ~turn[n].closed
    /\ turn[n].end \in {None, status}
    /\ turn' = [turn EXCEPT ![n].end = status, ![n].closed = TRUE]
    /\ Say(Line("ended", None, n, status))
    /\ Daemon /\ UNCHANGED <<inbox, turns>>

ServerErrs(n) ==
    /\ proc = "up" /\ n <= turns /\ turn[n].begun /\ turn[n].end = None
    /\ turn' = [turn EXCEPT ![n].end = "failed"]
    /\ Say(Line("ended", None, n, "failed"))
    /\ Daemon /\ UNCHANGED <<inbox, turns>>

(* turn/interrupt ends the turn when it is still running. *)
ServerInterrupts(r) ==
    LET n == r.turn
        answer == Line("answer", r.id, None, "ok")
        running == turn[n].begun /\ turn[n].end = None
    IN  /\ proc = "up" /\ r \in inbox /\ r.op = "cancel"
        /\ inbox' = inbox \ {r}
        /\ stdout' = stdout \o IF running THEN <<answer, Line("ended", None, n, "interrupted")>>
                                          ELSE <<answer>>
        /\ turn' = IF running THEN [turn EXCEPT ![n].end = "interrupted", ![n].closed = TRUE] ELSE turn
        /\ Daemon /\ UNCHANGED <<turns>>

ServerAnswers(r) ==
    /\ proc = "up" /\ r \in inbox /\ r.op \in {"start", "name"}
    /\ inbox' = inbox \ {r}
    /\ Say(Line("answer", r.id, None, "ok"))
    /\ Daemon /\ UNCHANGED server

ServerRefuses(r) ==
    /\ proc = "up" /\ r \in inbox
    /\ inbox' = inbox \ {r}
    /\ Say(Line("answer", r.id, None, "error"))
    /\ Daemon /\ UNCHANGED server

ServerMutes ==
    /\ proc = "up" /\ proc' = "mute"
    /\ UNCHANGED <<tasks, opened, call, calls, tables, inbox, stdout, server, ask, shown>>

ServerExits ==
    /\ proc # "gone" /\ proc' = "gone" /\ inbox' = {}
    /\ UNCHANGED <<tasks, opened, call, calls, tables, stdout, server, ask, shown>>

-----------------------------------------------------------------------------
Client ==
    \/ \E th \in Threads : NewSession(th) \/ SetSessionName(th) \/ Prompt(th) \/ Cancel(th)
    \/ \E c \in Calls : DropName(c)
    \/ Shutdown

Backend ==
    \/ ReadLine \/ ReadEof \/ MonitorKills \/ MonitorEnds \/ ShutdownReturns
    \/ \E c \in Calls : PromptAnswered(c)
    \/ \E n \in Turns : HandleRequest(n) \/ RequestAnswered(n)

AppServer ==
    \/ \E r \in inbox : ServerTakesTurn(r) \/ ServerInterrupts(r) \/ ServerAnswers(r) \/ ServerRefuses(r)
    \/ \E n \in Turns :
        \/ ServerAnswersTurn(n) \/ ServerStartsTurn(n) \/ ServerErrs(n)
        \/ \E item \in {"update", "request"} : ServerStreams(n, item)
        \/ \E status \in {"completed", "failed"} : ServerEndsTurn(n, status)
    \/ ServerMutes \/ ServerExits

Next == Client \/ Backend \/ AppServer

(* The executor runs the reader, the monitor and the calls they wake when   *)
(* they can run; nothing is assumed of the clients, of the app-server or of *)
(* the tasks that answer its requests, whose writes may wait for the pipe.  *)
Fairness ==
    /\ WF_vars(ReadLine) /\ WF_vars(ReadEof)
    /\ WF_vars(MonitorKills) /\ WF_vars(MonitorEnds) /\ WF_vars(ShutdownReturns)
    /\ \A c \in Calls : WF_vars(PromptAnswered(c))

Spec == Init /\ [][Next]_vars
FairSpec == Spec /\ Fairness

-----------------------------------------------------------------------------
Outs == {None, "ok", "error", "lost", "inProgress", "EndTurn", "Cancelled",
         "completed", "interrupted", "failed"}

CallRecord ==
    [op : {"none", "start", "name", "prompt", "cancel"}, thread : Threads \cup {None},
     turn : Turns \cup {None}, out : Outs,
     pc : {"unused", "sent", "answered", "waiting", "done", "dropped"}]
TurnRecord ==
    [thread : Threads \cup {None}, by : Calls \cup {None},
     said : BOOLEAN, begun : BOOLEAN, closed : BOOLEAN, item : {None, "update", "request"},
     reply : {None, "refused", "once", "session", "error"},
     end : {None, "completed", "interrupted", "failed"}]
AskRecord ==
    [pc : {"none", "spawned", "writing", "done"}, show : {None, "refused", "once", "session"},
     reply : {None, "refused", "once", "session", "error"}]
Request ==
    [id : Calls, op : {"start", "name", "prompt", "cancel"},
     thread : Threads, turn : Turns \cup {None}]
LineRecord ==
    [kind : {"answer", "started", "ended", "update", "request"},
     id : Calls \cup {None}, turn : Turns \cup {None}, out : Outs]

(* Every variable has its type. *)
TypeOK ==
    /\ proc \in {"up", "mute", "gone"} /\ kill \in BOOLEAN /\ health \in BOOLEAN
    /\ reader \in {"reading", "closed"} /\ monitor \in {"watching", "done"}
    /\ shutdown \in {"no", "waiting", "done"}
    /\ opened \subseteq Threads
    /\ calls \in 0..MaxCalls /\ call \in [Calls -> CallRecord]
    /\ pending \subseteq Calls /\ waiters \subseteq Turns
    /\ active \in [Threads -> Turns \cup {None}]
    /\ completed \in [Turns -> {None, "EndTurn", "Cancelled", "error"}]
    /\ inbox \subseteq Request /\ stdout \in Seq(LineRecord)
    /\ turns \in 0..MaxTurns /\ turn \in [Turns -> TurnRecord]
    /\ ask \in [Turns -> AskRecord]
    /\ shown \in [Turns -> {None, "text", "pending", "refused", "once", "session"}]

(* The request table holds exactly the calls that still wait for an answer, *)
(* and the waiter table exactly the turns a prompt waits for: nothing is    *)
(* left behind by a timeout, a failed write, a late answer or the end of    *)
(* the process.                                                             *)
TablesHoldWaiters ==
    /\ pending = {c \in Calls : call[c].pc = "sent"}
    /\ waiters = {call[c].turn : c \in {d \in Calls : call[d].pc = "waiting"}}

(* A prompt returns what the server said of the turn that very prompt       *)
(* started, never the result of an earlier turn of the thread.              *)
ResultIsOwn ==
    \A c \in Calls :
        call[c].op = "prompt" /\ call[c].pc = "done" /\ call[c].out # "lost" =>
            LET n == call[c].turn IN
            IF n = None THEN call[c].out = "error"    \* turn/start was refused or not sent
            ELSE turn[n].by = c /\ turn[n].end # None /\ call[c].out = prompt_result(turn[n].end)

(* Clients are told that a request was granted, for how long, or refused    *)
(* only when the server was told the same; a daemon set to decline grants   *)
(* nothing (handle_server_request and the request flows).                   *)
ShownIsAnswered ==
    \A n \in Turns :
        /\ shown[n] \in {"refused", "once", "session"} => turn[n].reply = shown[n]
        /\ turn[n].reply \in {"once", "session"} => ApprovalStrategy # "decline"

(* The completion of a turn is never missed between the answer to           *)
(* turn/start and the registration of the waiter: while a prompt waits, the *)
(* end of its turn is still to be written or still to be read.              *)
NoLostTurn ==
    \A c \in Calls : call[c].pc = "waiting" =>
        LET n == call[c].turn IN
        \/ turn[n].end = None
        \/ \E i \in 1..Len(stdout) : stdout[i].kind = "ended" /\ stdout[i].turn = n

(* No call waits for an answer, and no shutdown for the process, once the   *)
(* process is gone.                                                         *)
CrashAnswersRequests ==
    /\ \A c \in Calls : (proc = "gone" /\ call[c].pc = "sent") ~> call[c].pc # "sent"
    /\ shutdown = "waiting" ~> shutdown = "done"

(* daemon/RECONNECT.md:391-395, "prompting ... -> failed on agent crash":   *)
(* no prompt is left waiting once the process is gone, unless a shutdown     *)
(* killed it.                                                               *)
CrashEndsPrompts ==
    \A c \in Calls : (proc = "gone" /\ ~kill /\ call[c].op = "prompt") ~> call[c].pc = "done" \/ kill
=============================================================================
