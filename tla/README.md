# TLA+ models of AgentChat

AgentChat is a daemon (Rust, `src/daemon`) that puts coding agents behind a WebSocket for
chat clients, and that can drive agents by itself through a reviewed *run*: plan, then
code, each written by one agent, reviewed by others, answered by the author and decided
on by a human. A relay (TypeScript, `src/relay`) carries end-to-end encrypted traffic
between the daemon and apps elsewhere. This directory holds TLA+ modules that model the
daemon's stateful parts (the run, the session server, its agents, its connections, its
console and its process), the relay path and the clients that follow a thread, the TLC
configurations that check them on small instances, and TLAPS proofs of the properties that
matter most for instances of any size.

`PROJECT.json` lists the components, the runs, the mutants that show each property can be
broken by a plausible bug, the source lines every definition stands for, the hazards and
the theorems.

    tlc -workers 2 -config MCRunPhase.cfg MCRunPhase        # any run of PROJECT.json
    tlapm RunProofs.tla                                     # the proofs of a module

## 1. Inventory

### The automated run (`src/daemon/core/src/run`)

| part | state it keeps | operations |
|---|---|---|
| `budget.rs` CycleLedger | cycles spent, per-round counts of new blocking findings, free-retry tallies, exit reason, human iterations | `record_cycle`, `record_free_retry`, `mark_stuck`, `reset_round_retries`, `record_human_rejection` |
| `state.rs` PhaseState | stage (author, review, disposition, gate), version, round, findings, answers, pending count, ledger | `record_draft`, `record_review_round`, `record_disposition`, `record_stuck`, `record_human_rejection` |
| `disposition.rs`, `findings.rs`, `approval.rs` | none | the disposition gate, new blocking findings, which findings the packet lists |
| `executor.rs` | files of a stage (artifact, `rN/<reviewer>.json`, dispositions, `findings.jsonl`) | the three stages with their retries |
| `orchestrator.rs`, `store.rs` | the run in memory, `run.json` | `load_or_start`, `drive_until`, `drive_phase`, `checkpoint`, `flush_run`, `load_run` |
| `gate.rs` | packet, decision and feedback files | `publish`, removal of an old decision, polling, `take_decision` |
| `supervisor.rs`, console | run views, logs, open gates, waiting tasks | `register`, `sync`, `append_log`, `park`, `decide`, `finish`; `ConsoleLauncher::start` |

A run is one process that works through its stages, writes `run.json` after each, and
may die at any await and be started again with the same id. Agents and the human act on
the files meanwhile. What is hard: a crash between two effects of one step, files of an
earlier round or an earlier gate still lying there, files that are rewritten in place
(`run.json` at each checkpoint, the brief at each rejection), retries of several kinds that
must not loop, and the bookkeeping that decides when to stop. It is correct if no work goes
past a gate the human did not open for exactly that version, nothing blocking goes by
unanswered, the budget is kept, and a restart resumes where the run was.

### Sessions and threads (`src/daemon/server/src/app.rs` and the stores of `core`)

| part | state it keeps | operations |
|---|---|---|
| `AppProtocolSession` | created sessions, busy sessions, active assistant messages | one handler per client message, `shutdown` |
| `AgentManager` | agents, bindings public session -> upstream session | register, look up, remove |
| `SessionStore`, `SessionEventLog` | transcripts; numbered events of a session | start, record, flush, remove; `next_seq`, `append`, `replay_after`, `remove_session` |
| `ThreadStore`, `ThreadEventLog` | threads, participants, session -> thread bindings; numbered events of a thread | create, add, remove participant, remove thread |
| tasks | one per prompt, one reader of updates per agent, one per distillation | run whenever the handler awaits |

Everything is on one thread, so steps interleave only at awaits, but there are awaits in
the middle of nearly every handler: between the busy check and the slot, between the
busy check and the removal of a session, and 25 ms between an agent's answer and its
`turn_end`. It is correct if the five registries agree, a session has one prompt at a
time and is not forgotten under it, the log misses nothing that was sent, threads and
sessions name each other consistently, a turn that was answered is reported in the end,
and a handler waits for nothing but an agent.

### Agents (`src/daemon/core/src`)

| part | state it keeps | operations |
|---|---|---|
| `codex_app_server.rs` | pending requests, active turns, turn waiters, completed turns, health | `new_session`, `prompt`, `cancel`, `set_session_name`, `shutdown`; the reader, the monitor, answers to the server's requests |
| `acp_client.rs` | options of each session, sessions remembered by model | `new_session`, `set_session_settings`, `discover_settings`, `prompt` |
| `agent_manager.rs` | agents and their config | `add_agent`, `list_agents`, `shutdown_all` |

A backend is a child process behind a pipe. Its answers come at any time, out of step with
the calls that wait for them, and the process may close its output, exit, or be killed. It
is correct if a call gets the answer to its own request, no completion falls between two
tables, a crash leaves nobody waiting, what clients are shown was really answered, and the
settings shown are those in force.

### Connections, clients and the relay

| part | state it keeps | operations |
|---|---|---|
| `ws.rs`, `server/src/relay.rs` | connections, one broadcast of 1024 events, the queue to the session server | connect, receive, lag, drop, shutdown notice |
| `console/chat.rs`, `DaemonChatStore.swift` | what a client shows, the thread it follows, its cursor | select, attach, handle an event, reconnect |
| `relay_client.rs`, `relay_crypto.rs` | the active channel: keys, next number out, highest number in | hello, accept, encrypt, decrypt |
| `device-hub.ts` | daemon record, paired apps, one socket per peer | route, forget a socket, pair, hibernate |
| `thread_store.rs`, routing in `app.rs` | participants and their mention handles | join, rename, leave, send a message |

Clients see one shared stream: answers to other clients' requests come between the events
of the thread, and a slow client skips events without being told. The relay may repeat,
delay and reorder frames and notice a closed socket late. Correct: a client that was not
disturbed shows the log, no envelope opens twice or under another channel's key, frames go
to the newest socket, and a message reaches whom it names.

### The process (`src/daemon/bin/src/main.rs`)

It loads and starts agents, serves one transport (or the console, or one run), and stops
on a signal or on `/quit` from the terminal's thread. Correct if a stop ends it wherever
it is (unless a peer or an agent keeps it waiting, for which it has no timeout), agents
outlive whatever needs them, and no agent that failed to start is left over.

Skills, prompt templates, HTTP parsing and rendering are text and files read once.

## 2. Plan

Done: the run (`CycleLedger`, `PhaseState`, `RunPhase`, `RunOrchestrator`,
`RunLifecycle`), the session server (`AppSession`, `MessageRouting`, `AgentSettings`),
the Codex backend (`CodexBackend`), connections and clients (`EventFanout`), the relay
path (`RelayChannel`), the console's registry (`RunSupervisor`) and the process
(`DaemonLifecycle`), with a theorem for every safety property of the runs. Left, in order
of worth:

1. Pairing and hibernation of the device hub.
2. The findings validator (demotion, blocking limit, grouping) as operators checked
   against a reference definition.
3. The writing of transcripts and skills to disk.

## 3. Modules

| module | models | notes |
|---|---|---|
| `CycleLedger` | `budget.rs` | a ledger is a record, an operation a function of it |
| `PhaseState` | `state.rs`, `disposition.rs`, parts of `findings.rs` and `approval.rs` | likewise for a phase; `PhaseOK` is what its operations keep |
| `RunPhase` | `drive_phase` with the stages of `executor.rs`, one phase | state: the phase in memory, the one a start would take from `run.json`, the driver; an action per outcome of a stage. A stage changes memory (`Finish`) and is then "saving" until `write_followups` and the checkpoint are through (`SaveStage`); `StopDriving` may come before, between or in the middle of the writes. Its names differ from those of `RunOrchestrator`, so that the proofs of the whole run can use the ones of a phase |
| `RunOrchestrator` | `orchestrator.rs`, `store.rs`, `gate.rs`, `executor.rs` at the grain of awaits, both phases | state: memory, `run.json`, the files, the process and its program counter; agents, human and crash are separate actions. `Crash` may leave `run.json` cut short (`Torn`) and the brief emptied; `append_feedback` may read nothing and so drop what the brief held |
| `RunLifecycle` | what a run promises from outside | abstract specification; `RunOrchestrator` is checked and proved to implement it. A run that is not finished may be lost (`Lose`) and then begins again with nothing approved |
| `AppSession` | `app.rs` and the session and thread stores | state: the handler at its await, the registries, the prompt tasks, the unread updates; an action is what runs between two awaits. A request to an agent (create, add, configure, cancel, shutdown) is a wait of its own, which may end in success, in an error, or never |
| `CodexBackend` | `codex_app_server.rs`; the app-server is external, modelled from what the backend reads and writes | state: the calls, the four tables, the pipes, reader, monitor and process; an action is what a task does between two awaits |
| `AgentSettings` | settings in `acp_client.rs`, `agent_manager.rs` and `app.rs`, one agent | state: calls at their awaits, the agent's options per session, remembered sessions, what is stored and listed |
| `MessageRouting` | handles of `thread_store.rs`, mentions and routes of `app.rs` | state: the participants by id, the last message, its outcome, journal entry, the prompts that were taken and the sessions that were free for the first. `send_thread_message` is one action; a message is a sequence of tokens. Routes and calls are sets; the order of the calls is that of the participants who lead the routes (`Before`), and `handle_prompt` refuses what meets a busy session: the first call for a session depends on whether it was free (`free`), any later one may be refused or not |
| `EventFanout` | `ws.rs`, attach and replay of `app.rs`, the clients of `chat.rs` and `DaemonChatStore.swift`, one thread | state: the log, the channel of each connection, requests under way, what each client shows; two kinds of client |
| `RelayChannel` | `relay_client.rs`, `relay_crypto.rs`, `server/src/relay.rs`, the sockets of `device-hub.ts` | state: links (one `RelayClient` each), the hub's index, the frames in the relay; keys and hashes are the tuples they are made of |
| `RunSupervisor` | `supervisor.rs`, `ConsoleLauncher`, the console's routes | state: views, logs, gates, the tasks of runs; ids are clock values, so runs may share one |
| `DaemonLifecycle` | `main.rs`, the loops of `ws.rs` and `server/src/relay.rs`, `add_agent` and `shutdown_all` | state: where the main task is, agents' processes, the transport, the terminal's thread. A connection waits for something to do ("open"), for its peer to take what is sent ("sending"), or for it to take the goodbye ("leaving") |
| `RunProofs`, `AppSessionProofs`, `CodexBackendProofs`, `AgentSettingsProofs`, `ThreadProofs`, `RelayChannelProofs`, `RunSupervisorProofs`, `DaemonLifecycleProofs` | theorems | `RunProofs` is about `PhaseState`, `RunPhase` and `RunOrchestrator`, which share their lemmas; `ThreadProofs` is about a thread's messages on their way to the clients (`EventFanout`) and to the agents (`MessageRouting`) |
| `MC*` | instances | values for the constants |

Data is abstracted to what the properties tell apart. A finding is an identifier, blocking
or not; an answer is accepted, disputed with a reason, or something invalid; a version is
a number; a log of events that are numbered from 1 and never removed singly is its length.
Text, paths, timestamps and rendering are left out. In `AppSession` two histories are kept
for the properties: `sent`, the last number broadcast for a session, and `labels`, the turn
ids that thread events about a turn carried. In `RunOrchestrator` `approvals` is the history
of what the human approved; a run that starts anew keeps of it only what decision files
still stand for. External processes (agents, the Codex app-server, peers) are modelled from
how the code uses them, and their definitions are marked external in `PROJECT.json`.

The modules meet where one component is the other's environment. `AppSession` takes an
agent's answer as given, `CodexBackend` shows when it comes; `AppSession` lets a handler
wait for an agent to change settings, `AgentSettings` has what happens meanwhile;
`RunSupervisor` lets the orchestrator do anything between two packets, `RunOrchestrator`
has what it does. `DaemonLifecycle` keeps of the session server whether it is open and
busy. In `CodexBackend` a turn has at most one item, an update or a request, which is
enough to put a request anywhere between a turn's start, its end and the end of the
process. In `EventFanout` an entry is the message it adds or changes, since clients show
the last text of each message; `whole` is a history variable that says a client has
skipped nothing since it selected the thread. In `RelayChannel` `sent` and `got` are
histories.

## 4. Runs

| run | expects | question |
|---|---|---|
| `phase` | pass | does one phase keep its budget, its counts and its answers over retries, human rejections, failed writes and restarts, lose at most one stage, and come to rest? |
| `run` | pass | through crashes and restarts, torn writes of `run.json` and of the brief included, is every phase the human's decision on that very version, is the author sent back with the comments, is a decision taken, and does the run implement `RunLifecycle`? |
| `session` | pass | do the registries, slots and logs stay consistent at every await? |
| `session_live` | pass | is every answered turn reported, and does the handler come back unless an agent keeps it waiting? |
| `codex` | pass | do calls get their own answers, is no completed turn missed, is a decision shown only when it was given, and does the end of the process release every request and shutdown? |
| `settings` | pass | with discoveries, new sessions and changes interleaved, are the stored settings those in force, and is a remembered session of the model it is remembered by? |
| `routing` | pass | do handles stay unique, do prompts go only to those who were meant, and what of the words meant for them do they get when some calls are refused? |
| `fanout` | pass | does an undisturbed page show the log, is no store ahead of it, and is a selection answered? |
| `relay` | pass | are nonces used once, do envelopes open once and in order, and is the newest socket the one that gets frames? |
| `supervisor` | pass | is what the console shows what it can answer, can a waiting run be reached, and does a poll miss nothing? |
| `lifecycle` | pass | does a stop end the daemon unless others keep it waiting, are agents stopped after whatever needs them, and is a failed agent's process ended while the daemon runs on? |
| `plan_only` | violation | `--plan-only` on a run whose plan was approved goes on to write code |

The violation is a place where a document says something the code does not keep; `findings`
quotes both. Section 5 has the others.

### Bounds, and why they are enough

* `phase`: three findings, all blocking; two reviewers; two cycles; one human rejection;
  one restart; the default allowances of free retries. Two cycles let convergence, churn
  and the cap compete in one round; three findings allow a strictly smaller, an equal and
  a larger second round. Advisory findings are not in this instance, which would not end
  in the time a run is given; the theorems of section 6 hold for any set of findings.
* `run`: one finding, one reviewer, one cycle for each phase, one answer (which passes the
  gate of a round that raised the finding, and fails that of a round that did not), two
  starts, a crash at any await and in the middle of a write, and two human rejections, so
  that the brief is appended to twice; a start that finds no readable snapshot, after the
  first, counts as one of the two. What it looks for is in the order of effects, files and
  crashes, for which a second finding adds nothing.
* `session`: two sessions (interchangeable), one thread, two prompts, one update, a
  message with two targets, one distillation. Two prompts on one session make the window
  of 25 ms matter; two sessions in one thread make a message that prompts both, or one
  twice. `MaxSeq` bounds only messages whose single effect is one more event.
* `session_live`: one session, otherwise the same with a longer log: progress of a session
  does not depend on another except through the one handler.
* `codex`: one thread, three calls, two turns, one item, the strategy that grants the most.
  Two turns of one thread let the end of the first come after the second was asked for;
  the third call is a cancel, a name or a prompt beside them. The tables have no entry
  that relates two threads.
* `settings`: three calls, two models of which one has an effort, one effort value, every
  combination of them that can be asked for. Two calls race, a third has a session by then.
* `routing`: two agents, up to three participants, a display name that looks like a handle
  made unique, all messages of up to four tokens, at most one explicit target. Two
  participants of one agent are what makes mentions ambiguous; four tokens make two
  segments of a mention and a word. Every set of sessions is free or busy, and every set
  of later calls is taken or refused.
* `fanout`: one page and one store, one message with two texts, a channel of four events
  (an attach puts four there, so a client that reads nothing lags), two connections.
* `relay`: two apps, three links, two envelopes for each link: a reconnection of either
  end beside the other app, and a repeated or overtaken envelope.
* `supervisor`: two runs and two clock values, two packets, a log of three lines.
* `lifecycle`: two agents, one connection, two messages, every mode. Two agents make one
  that fails beside one that serves; two messages keep one queued while one is handled.

Bounds are named constants and guard only the actions that start something; none guards a
step of something under way, so no bound can hide a blocked state.

### Fairness

`RunPhase` and `RunOrchestrator`: weak fairness of the process's own step; a live process
does not stop by itself between two stages. Agents have no fairness of their own, but a
stage ends when its prompt does, so `DriveComesToRest` is about prompts that return: no
timeout of the executor ends a turn whose agent neither answers nor dies. The human is
never obliged to decide. `AppSession`: weak fairness of the handler's steps that wait for
no agent, of the update reader and of the end of a turn, since the runtime polls every task
that is ready. Nothing is assumed of agents: they need not reply to the handler nor answer
a prompt, and the two properties are about what happens otherwise.
`CodexBackend`: the reader, the monitor and the calls they wake; nothing is assumed of the
app-server, nor of the tasks that answer its requests, whose writes wait for its pipe.
`EventFanout`: the server's loops and delivery on an open socket; no client has to connect
or to select. That the server's loop goes on takes it that no other client's message holds
the handler at a silent agent. `DaemonLifecycle`: the tasks of the daemon, and nothing of
what they wait for without a timeout: a connection attempt, an HTTP request, a handshake, a
peer that takes what is sent, an agent that answers a handler or a cancel. Strong fairness
of the select branches that watch for a stop, since `tokio::select!` takes a ready branch at
random and a stop stays ready. `CHECK_DEADLOCK FALSE` is set because a run ends, and a
server stops.

## 5. What the runs show

The passing properties hold. The ones that took several actors and steps to violate when
the model was mutated are the reason for the modules: `HumanApprovedIt` (no phase is
approved unless the human saw and approved that version), `FeedbackReachesAuthor`,
`OneStageAtRisk`, `CountsMatchFindings`, `SlotsMatchPrompts`,
`ClosedThreadIsSilent`, `AnsweredIsReported`, `NoLostTurn`, `StoredIsInForce`,
`PageShowsLog`, `OpenedInOrder`, `AgentsOutliveSession`. The models also show what the code
tolerates by design rather than by accident:

* A session closed by itself stays a participant of its thread; later thread messages to
  it end in a `no_agent` error, and closing the thread passes over it (`HandlerReturns`).
* Two runs started in one millisecond share view, log and gate. The one whose sender is
  replaced fails; what is shown still is what a decision would answer.
* A change of settings that is refused half-way leaves the model changed and the stored
  settings as they were; `StoredIsInForce` exempts such a session (`unsure`) until a change
  succeeds.
* A client that lags skips events without knowing; `PageShowsLog` and `SelectedIsAttached`
  exempt it (`whole`).
* A decision posted from the console answers the gate that is open when it comes, whatever
  page the human was looking at; `ShownIsAnswerable` says only what it would answer.
* The strategy of the instance of `codex` accepts every request for the session, so the
  clause of `ShownIsAnswered` about declined requests is proved rather than exercised.
* A mention names every participant whose handle or whose agent's id it is, so unique
  handles (`HandlesUnique`) do not make every participant addressable alone.

### Waits without end

The code awaits others without a timeout in places where it looks at nothing else
meanwhile. The models let each of these waits last for ever, and the liveness properties
say what holds otherwise:

* An agent that does not reply holds the one handler that serves all clients, when a
  session is created (`app.rs:959`), settings are changed (`app.rs:1481`), a prompt is
  cancelled (`app.rs:2071`) or the server shuts down (`app.rs:870`): `HandlerReturns`
  exempts `WaitsForAgent`. One that does not answer a prompt (`app.rs:2029`) keeps its
  session busy, so that it can be neither prompted nor closed.
* A peer that connects and does not finish its handshake (`ws.rs:117`), or that does not
  take what is sent to it (`ws.rs:181`, `ws.rs:272`, `server/src/relay.rs:87`), keeps the
  daemon from seeing a stop: `StopEndsDaemon` exempts a daemon that stays in
  `WaitsForOthers`. Without the exemption TLC finds a stop that a silent peer outlasts.

### Known disagreements

Besides `plan_only`, each of these properties states what a document or a comment says and
is violated by the model; the definitions stay in the modules, and adding one to the
configuration of the run it belongs to (as INVARIANT or PROPERTY), or leaving out the
exemption named, gives the counterexample.

| property | module | what happens |
|---|---|---|
| `RestartLosesOneVersion` without `disk # Torn`, `OneStageAtRisk` without its last line | `RunOrchestrator`, `RunPhase` | a crash while `run.json` is rewritten in place (`store.rs:107`) makes the next start begin anew (`orchestrator.rs:97`), against state.rs:9-11 |
| `FeedbackReachesAuthor` for every iteration so far | `RunOrchestrator` | `append_feedback` (`gate.rs:273-280`) takes a brief it cannot read for an empty one, and a crash in its rewrite empties it: earlier comments, and the task itself, are gone, though the run goes on |
| `RoundReadsFreshReports` | `RunOrchestrator` | after a rejection, a reviewer that writes nothing is credited with its report of the earlier iteration |
| `StuckPacketShowsUnanswered` | `RunPhase` | the packet of a stuck author does not show what was left unanswered |
| `EventSeqMonotonic` | `AppSession` | an event about a session just closed restarts `event_seq` at 1 |
| `TurnIdsMatch` | `AppSession` | thread events of one turn carry two turn ids |
| `CrashEndsPrompts` | `CodexBackend` | a prompt that is answered, and registers its waiter only after the reader and the monitor have drained the tables, waits for ever (RECONNECT.md:391-395 has it fail) |
| `ReconnectReplaysMissed` | `EventFanout` | after a reconnection the answer to `list_agents` resets the store's state before the thread list comes, so it does not attach again and misses what was journalled meanwhile (RECONNECT.md:373-378) |
| `AssignedIsSent` without `~SharedAlike` | `MessageRouting` | with two participants of agent codex, `@codex X @codex-2 Y` makes two routes, X for both and X Y for both: the first makes both busy, the second is refused for both (`prompt_in_progress`), and nobody gets Y, against PROTOCOL.md:548-550 |
| `OnlyAssigned` | `MessageRouting` | when the first prompt is over before the second comes, or was refused, one participant gets what was assigned to another it shares a segment with (PROTOCOL.md:554). `ApartStaysApart` proves that this needs a shared segment |
| `StrayIsKilled` without `main = "exited"` | `DaemonLifecycle` | when the last configured agent fails to initialize, `main` returns 1 at once (`main.rs:2267-2270`) and the runtime ends before the monitor is polled: the agent's process is left behind |

## 6. Proofs

All for every value of the constants that satisfies the modules' assumptions. These say
that bounds are numbers, that findings and reviewers are finite, and that a placeholder
for an absent value (no file, no phase, no call) is none of the values it stands beside,
as `None` differs from every `Some`. TLC finds every one of the inductive invariants true
on the instance of section 4 it belongs to.

* `RunProofs`, one phase. It starts with lemmas about `PhaseState`: every operation
  preserves `PhaseOK`, the conjunction of the type of a phase, the allowance of retries,
  gate-iff-exit-reason, the explanation of the exit by the counts, the numbering of
  rounds, and the answers at the gate. None of these is inductive alone: a count only
  justifies an exit if the round's number says how many counts there are, and an answer at
  the gate rests on what the disposition stage let through. `PhaseInv` is `PhaseOK` of the
  phase in memory and of the saved one, with the relation between the two
  (`OneStageAtRisk`: equal but for retry tallies while a stage runs, else one stage apart,
  or the snapshot was cut short) that a restart needs. From it: `PhaseTypeCorrect`,
  `GateHasReason`, `BudgetHolds`, `RoundsNumbered`, `NothingUnanswered`, `PacketComplete`,
  `NoStageLost`, and the action property `ExitReasonKept`. `CountsExact` (the counts of
  all rounds, with the one pending, add up to the blocking findings known) has an
  induction of its own: no count waits while a draft is written or reviewed (`Counted`),
  so a round's count is never overwritten. `Total` is a recursive function; that it grows
  by the count appended is shown with the least position at which two sums of the history
  differ (`LeastNumber`).
* `RunProofs`, the whole run, with a crash at every await and any number of starts. `Inv`
  says of memory and of `run.json` alike that the phases are `PhaseOK` with their own
  budgets and fit the status (`SnapshotsOK`), that the program counter fits the status
  (`StatusFollows`), that what the gate shows, finds and took is about the version in
  memory once the left-over decision is removed (`GateCurrent`), that a decision to
  approve is one the human made (`ApprovalsRemembered`, `ApprovedOK`), and that each human
  iteration at work has its comments in the brief (`FeedbackKept`; at a gate the brief may
  be empty, an append having been cut short there, until the next one is done). From it:
  `TypeCorrect`, `GateActsOnCurrent`, `ApprovedByHuman`, `FeedbackIsKept`. `DInv` adds how
  far `run.json` may be behind memory (`DiskFollows`) and that packets and approvals are
  about versions that reached it (`StampsRecorded`: the gate opens only after the flush).
  A `run.json` cut short fits any memory while no process runs; the process that follows
  has just begun (`Unwritten`), and every approval on record is of a run before it. From
  it: `RestartIsCheap` (a restart from a snapshot that parses loses at most one version)
  and `RunRefinesLifecycle` (every step maps to a step or a stutter of `RunLifecycle`,
  whose run is the one in `run.json`; a torn write is its `Lose`, lemma `TearLoses`, and
  cannot befall a finished run, which nothing writes again).
* `AppSessionProofs`: `Inv` joins the five invariants of the run `session` with three
  strengthenings. `OnlyKnown`: everything names sessions that were handed out, and an id
  not yet handed out has an empty log (so that a new session's log and stream agree).
  `TasksOK`: used prompt tasks have a session, unread updates belong to used tasks.
  `HandlerOK`: what each handler checked before its await still holds during it (a closing
  session is not busy, a prompt about to be sent has a free slot, a participant's thread
  is live, also while an agent is asked for a session), which is exactly what the code
  relies on and never checks again. From it: `Registries`, `Slots`, `Prompted`,
  `LogComplete`, `ThreadMaps`, `TypesHold`, and the action property `ClosedThreads`.
* `CodexBackendProofs`: `TablesExact`, `OwnResult`, `NoCompletionMissed`,
  `ShownWasAnswered`, `TypeCorrect`. A prompt's request, its turn, the lines about the turn
  and its result are tied together end to end: a request waits once and has begun no turn
  (`InboxOK`), a turn is of one prompt and an entry of `completed_turns` is how it ended
  (`TurnsOK`), a line in the pipe says what the server did (`LinesOK`), a prompt that was
  answered is about the turn it began (`CallOK`). `EndsOK` is the core of
  `NoCompletionMissed`: the end of a turn whose prompt is under way is still in the pipe, or
  in `completed_turns` of a prompt that has no waiter yet. `RequestsOnce` and `AskOK` give
  that a decision is shown only after it was written.
* `AgentSettingsProofs`: `SettingsInForce`, `CacheIsOfItsModel`, `TypeCorrect`. Both
  properties rest on who may change a session's options: the call that opened it while it
  is under way, then the one change of it that is handled at a time (`Owned`,
  `OneHandler`). So a model that was set is still set when the effort has been (`Applied`),
  and what is stored or remembered is what was set. `InForce` is `StoredIsInForce` said of
  each session that is not being changed at the moment, also while another one is.
* `ThreadProofs`, to the clients: `CursorWithinLog`, `PageCatchesUp`, `TypeCorrect`, for
  any number of clients and messages and any capacity of the channel. `Genuine`: while the
  thread exists, whatever is queued, asked for, remembered or on a screen refers to an
  entry of its log. `Fresh`: for a page that skipped nothing, every entry of the log is
  covered by the screen, or by an event in the queue with nothing older of the same
  message behind it, or the page's request for the whole log waits to be answered. An
  empty queue and an empty inbox leave only the screen.
* `ThreadProofs`, to the agents: `HandlesStayUnique`, `PromptsStayAddressed`,
  `AssignedReaches`, `ApartStaysApart`, for any number of participants, any display names
  and messages of any length. Assumed: handles are sequences of agents' names and numbers,
  and an absent list of targets is not a list. `HandlesUnique` with the numbering of the
  participants (`PeopleOK`) is inductive; what it needs of `unique_mention_handle` is that
  there is a least free suffix, by the pigeonhole principle (`SuffixIsFree`,
  `HandleIsFree`). The other properties are about one `send_thread_message`. Whom it
  selects is settled first (`SelectedAreWanted`: the agents that targets and mentions both
  allow), which gives `PromptsStayAddressed`. `AssignedReaches` needs the invariant of the
  loop over the mentions, `LoopOK`: mentions that follow one another at once wait as long
  as no text follows (`Waits`), and each text so far is in a route for all the mentions in
  front of it (`Given`). The loop is a recursive function; that it has a value at all
  (`LoopRuns`), and that each token keeps the invariant (`LoopKeeps`), is shown with the
  least token for which it would fail. What the calls add: the participants of a route
  share its segment, so in a message whose participants share all of their segments or
  none all routes for one participant have the same content (`StepJoint`,
  `SegmentsJoint`), and whichever of its calls is the first (`FirstCallIs`, by the order
  of first mentions) holds every word assigned to it; the refusal of later ones costs
  nothing. `ApartStaysApart` has a second invariant of the same loop (`Single`): when each
  mention names one participant and none follows another at once, nobody waits and a route
  is for one mention, so `OnlyAssigned` holds.
* `RelayChannelProofs`: `NoncesUnique`, `OpenedOnceInOrder`, `NewestIsRouted`,
  `TypeCorrect`. A link's channel is fixed from the moment it is active (`Progress`,
  `Counted`); hellos and accepts are drawn fresh (`Drawn`), so a peer has no two links with
  one channel (`HellosDiffer`, `AcceptsDiffer`); an envelope carries its link's peer,
  channel and a number its counter has passed (`Stamped`); and what a link opened lies below
  its highest number (`Opened`). For `NewestIsRouted`, `Hub`: the index names an open socket
  that is its peer's latest, and every open socket is in the index. Assumed: a derived key
  stands for what it is derived from, and a ciphertext opens only under it.
* `RunSupervisorProofs`: `Shown`, `Reachable`, `PolledGapless`, `TypeCorrect`. The first two
  are not inductive: that a gate's packet is shown needs a view to show it in, which exists
  from the moment a run begins (`BegunIsShown`), and that a sender is dropped by another run
  only needs both. `PolledGapless` needs that a log is a run of consecutive numbers below
  `next_seq`; a poll filters it with a recursive function (`LogAfter`), and what that
  computes is shown with the least line on which it could differ (`Least`, `KeptOnce`).
* `DaemonLifecycleProofs`: `AgentsStopLast`, `TypeCorrect`. The invariant of the first
  follows the main task: nothing is served before a transport is up (`Early`), only the
  WebSocket server has connections and a queue (`OneClient`), its session is closed last,
  with nothing left to handle (`ServingIsOpen`, `DrainedIsClosed`, `ClosingIsLast`), and
  agents are told to end only then (`StoppingIsQuiet`, `KilledIsStopping`). The types need
  that no more is queued than was sent (`WellTyped`).

Only model-checked: the liveness properties (`DriveComesToRest`, `DecisionIsTaken`,
`AnsweredIsReported`, `HandlerReturns`, `CrashAnswersRequests`, `SelectedIsAttached`,
`StopEndsDaemon`, `StrayIsKilled`), since the prover does no fairness.

## 7. Not modelled

* The contents of transcripts, event files and skill files on disk. The daemon writes and
  does not read them back while it runs. Read, not checked: flushes of one session at the
  end of two turns may overlap and the older be written last (`app.rs:2593`,
  `session_store.rs:83`); the lines of `events.jsonl` need not be in order, each being
  written by a task of its own (`app.rs:2465`); a distillation with one bad skill name
  fails after others were written.
* Distillation beyond its session and its slot: one prompt of an agent, with a pause of
  25 ms for late chunks.
* Pairing, authentication and hibernation of the device hub: they rest on storage and
  platform calls whose order is not in the repository.
* The run page of the console: its poll and its decision may overlap, and a decision names
  only the run (`console/page.rs:258-300`). `RunSupervisor` takes any decision at any time.
* Permissions of the ACP backend, the connection of the ACP library, and the mapping of
  each agent update to text.
* Session-level replay (`attach_session`), which the modelled clients do not use.
* The findings validator's demotion and grouping, prompt texts, HTTP parsing, rendering,
  command-line parsing, and the clients' views and storage.
