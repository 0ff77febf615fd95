----------------------------- MODULE AppSession -----------------------------
(***************************************************************************)
(* AppProtocolSession of daemon/server/src/app.rs: sessions, prompts and    *)
(* group-chat threads behind the WebSocket, with the registries it keeps    *)
(* (AgentManager, SessionStore, SessionEventLog, ThreadStore,               *)
(* ThreadEventLog).                                                         *)
(*                                                                          *)
(* Everything runs on one thread.  Client messages are handled one at a     *)
(* time, but a handler gives way at its awaits to the other tasks: one per  *)
(* prompt that is out, one that reads the agent's updates, one per          *)
(* distillation.  A step below is what runs between two awaits.             *)
(*                                                                          *)
(* next_seq and append are always called together, and a log that was never *)
(* opened behaves like an empty one, so a log is the number of its events,  *)
(* which are numbered from 1.                                               *)
(***************************************************************************)
EXTENDS Integers, Sequences, FiniteSets

CONSTANTS
    Sessions,       \* public session ids; fresh ones are never reused
    Threads,        \* thread ids
    MaxTurns,       \* bound: prompts that reach an agent
    MaxUpdates,     \* bound: updates agents send
    MaxTargets,     \* bound: targets of one thread message
    MaxDistills,    \* bound: distillations started
    MaxSeq,         \* bound: no message that only adds an event beyond this one
    None

ASSUME BoundsAssumption ==
    /\ MaxTurns \in Nat /\ MaxUpdates \in Nat /\ MaxTargets \in Nat
    /\ MaxDistills \in Nat /\ MaxSeq \in Nat
ASSUME NoneAssumption == None \notin Sessions /\ None \notin Threads

Turns == 1..MaxTurns

VARIABLES
    handler,       \* the client message being handled, and its await
    alive,         \* the agent process
    known,         \* session ids handed out so far
    bound,         \* AgentManager.session_bindings
    transcripts,   \* SessionStore.transcripts
    created,       \* created_sessions
    active,        \* active_prompt_sessions
    task,          \* prompt tasks: session and progress
    turns,         \* how many there have been
    outbox,        \* agent updates not read yet, each the turn it belongs to
    updates,       \* how many were sent
    message,       \* active_assistant_messages: the turn_id in use, or 0
    minted,        \* turn ids made so far
    log,           \* SessionEventLog
    sent,          \* history: the last event_seq broadcast for a session
    threads,       \* ThreadStore.threads
    opened,        \* thread ids handed out so far
    participants,  \* the agent participants of a thread, each by its session
    home,          \* session_to_binding: the thread of a session
    tlog,          \* ThreadEventLog
    labels,        \* history: turn ids that thread events about a turn carried
    distilling,    \* number of distillations under way for a session
    distills       \* how many there have been

store == <<known, bound, transcripts, created>>
chat == <<threads, opened, participants, home>>
work == <<task, turns, active>>
agent == <<alive, outbox, updates>>
notes == <<message, minted, tlog, labels>>
skills == <<distilling, distills>>
vars == <<handler, store, chat, work, agent, notes, log, sent, skills>>

(* What is being handled: the session now awaited for, the targets still to *)
(* prompt, the sessions still to drop, and the thread it is about.          *)
Idle == [op |-> "idle", now |-> None, targets |-> << >>, drop |-> {}, thread |-> None]

Init ==
    /\ handler = Idle
    /\ alive = TRUE
    /\ known = {} /\ bound = {} /\ transcripts = {} /\ created = {}
    /\ active = {} /\ turns = 0
    /\ task = [p \in Turns |-> [session |-> None, pc |-> "unused"]]
    /\ outbox = << >> /\ updates = 0
    /\ message = [s \in Sessions |-> 0] /\ minted = 0
    /\ log = [s \in Sessions |-> 0]
    /\ sent = [s \in Sessions |-> 0]
    /\ threads = {} /\ opened = {}
    /\ participants = [t \in Threads |-> {}]
    /\ home = [s \in Sessions |-> None]
    /\ tlog = [t \in Threads |-> 0]
    /\ labels = [p \in Turns |-> {}]
    /\ distilling = [s \in Sessions |-> 0] /\ distills = 0

(* The handler loop of a thread message has no await between two prompts:   *)
(* other tasks run only when the handler is idle or waiting.                *)
Yielded == handler.op = "prompting" => handler.now # None

-----------------------------------------------------------------------------
(* journal_and_broadcast_event and journal_and_broadcast_thread_event. *)

Journal(s) ==
    /\ log' = [log EXCEPT ![s] = @ + 1]
    /\ sent' = [sent EXCEPT ![s] = log[s] + 1]

ThreadEvents(t, n) == tlog' = [tlog EXCEPT ![t] = @ + n]

Forget(s) ==
    /\ bound' = bound \ {s}
    /\ transcripts' = transcripts \ {s}
    /\ created' = created \ {s}
    /\ log' = [log EXCEPT ![s] = 0]

(* Mutant: the session is not added to the created ones. *)
RegisterUnlisted(s) ==
    /\ known' = known \cup {s}
    /\ bound' = bound \cup {s}
    /\ transcripts' = transcripts \cup {s}
    /\ UNCHANGED created

(* create_session_for_agent_with_settings_and_name, once the agent has      *)
(* answered.                                                                *)
Register(s) ==
    /\ known' = known \cup {s}
    /\ bound' = bound \cup {s}
    /\ transcripts' = transcripts \cup {s}
    /\ created' = created \cup {s}

-----------------------------------------------------------------------------
(* Client messages that find an agent and a session to work with.  Those    *)
(* that only report an error without a sequence number change nothing.      *)
(* A request to an agent has no timeout: the handler waits for the reply,   *)
(* which may be an error, may have been under way when the agent died, and  *)
(* may never come.                                                          *)

Asking(op) == [Idle EXCEPT !.op = op]

AskAgent(h) ==
    /\ handler = Idle
    /\ handler' = h
    /\ UNCHANGED <<store, chat, work, agent, notes, log, sent, skills>>

CreateSession == alive /\ known # Sessions /\ AskAgent(Asking("creating"))

SessionCreated(s) ==
    /\ handler.op = "creating" /\ s \notin known
    /\ Register(s)
    /\ Journal(s)
    /\ handler' = Idle
    /\ UNCHANGED <<chat, work, agent, notes, skills>>

(* handle_cancel. *)
Cancel(s) == s \in bound /\ AskAgent([Asking("interrupting") EXCEPT !.now = s])

(* The error of the agent is reported without a sequence number, the answer *)
(* to a cancel not at all.                                                  *)
AskedInVain ==
    /\ handler.op \in {"creating", "joining", "configuring", "interrupting"}
    /\ handler' = Idle
    /\ UNCHANGED <<store, chat, work, agent, notes, log, sent, skills>>

CreateThread(t) ==
    /\ handler = Idle /\ t \notin opened
    /\ threads' = threads \cup {t} /\ opened' = opened \cup {t}
    /\ UNCHANGED <<handler, store, participants, home, work, agent, notes, log, sent, skills>>

AddThreadParticipant(t) ==
    /\ alive /\ known # Sessions /\ t \in threads
    /\ AskAgent([Asking("joining") EXCEPT !.thread = t])

(* The participant's session gets no session_created event. *)
ThreadParticipantAdded(s) ==
    /\ handler.op = "joining" /\ s \notin known
    /\ Register(s)
    /\ participants' = [participants EXCEPT ![handler.thread] = @ \cup {s}]
    /\ home' = [home EXCEPT ![s] = handler.thread]
    /\ ThreadEvents(handler.thread, 1)
    /\ handler' = Idle
    /\ UNCHANGED <<threads, opened, work, agent, message, minted, labels, log, sent, skills>>

SetThreadParticipantConfiguration(t, s) ==
    /\ t \in threads /\ s \in participants[t] /\ s \notin active /\ tlog[t] < MaxSeq
    /\ AskAgent([Asking("configuring") EXCEPT !.now = s, !.thread = t])

(* set_session_settings succeeded; the settings are the subject of          *)
(* AgentSettings.                                                           *)
ThreadParticipantConfigured ==
    /\ handler.op = "configuring"
    /\ ThreadEvents(handler.thread, 1)
    /\ handler' = Idle
    /\ UNCHANGED <<store, chat, work, agent, message, minted, labels, log, sent, skills>>

-----------------------------------------------------------------------------
(* handle_prompt.  Its errors are journalled even for a session that is     *)
(* gone.  Otherwise it waits for the skills to be read (build_prompt_       *)
(* content), and only then takes the session's prompt slot.                 *)

(* What is left of the message: more targets of a thread message, or none. *)
Advance(targets) ==
    IF targets = << >> THEN Idle
    ELSE [Idle EXCEPT !.op = "prompting", !.targets = targets]

PromptRefused(s, targets) ==
    /\ s \in active \/ s \notin bound \/ ~alive
    /\ Journal(s)
    /\ handler' = Advance(targets)
    /\ UNCHANGED message

(* Mutant: a session whose prompt is out may be prompted again. *)
PromptBeginsUnchecked(s, targets) ==
    /\ s \in bound /\ alive
    /\ message' = [message EXCEPT ![s] = 0]
    /\ handler' = [Idle EXCEPT !.op = "prompting", !.now = s, !.targets = targets]
    /\ UNCHANGED <<log, sent>>

PromptBegins(s, targets) ==
    /\ s \notin active /\ s \in bound /\ alive
    /\ message' = [message EXCEPT ![s] = 0]
    /\ handler' = [Idle EXCEPT !.op = "prompting", !.now = s, !.targets = targets]
    /\ UNCHANGED <<log, sent>>

HandlePrompt(s, targets) == PromptRefused(s, targets) \/ PromptBegins(s, targets)

Prompt(s) ==
    /\ handler = Idle /\ s \in known
    /\ turns < MaxTurns /\ log[s] < MaxSeq
    /\ HandlePrompt(s, << >>)
    /\ UNCHANGED <<store, chat, work, agent, minted, tlog, labels, skills>>

(* The message is journalled in the thread, then each target is prompted.   *)
(* A participant named twice is prompted twice: neither the explicit        *)
(* targets nor a message made of mentions alone are made unique.            *)
SendThreadMessage(t) ==
    /\ handler = Idle /\ t \in threads /\ tlog[t] < MaxSeq
    /\ \E n \in 1..MaxTargets : turns + n <= MaxTurns /\ \E targets \in [1..n -> participants[t]] :
          handler' = Advance(targets)
    /\ ThreadEvents(t, 1)
    /\ UNCHANGED <<store, chat, work, agent, message, minted, labels, log, sent, skills>>

PromptNextTarget ==
    /\ ~Yielded
    /\ HandlePrompt(Head(handler.targets), Tail(handler.targets))
    /\ UNCHANGED <<store, chat, work, agent, minted, tlog, labels, skills>>

(* The prompt content is ready: the slot is taken and the task spawned. *)
SpawnPrompt ==
    /\ handler.op = "prompting" /\ handler.now # None
    /\ turns' = turns + 1
    /\ task' = [task EXCEPT ![turns + 1] = [session |-> handler.now, pc |-> "running"]]
    /\ active' = active \cup {handler.now}
    /\ handler' = Advance(handler.targets)
    /\ UNCHANGED <<store, chat, agent, notes, log, sent, skills>>

-----------------------------------------------------------------------------
(* Closing: the busy check, an await for the transcript to be written, then *)
(* the registries.                                                          *)

(* session_busy is journalled by both handlers that check one session. *)
CloseRefused(s) ==
    /\ handler = Idle /\ s \in active /\ log[s] < MaxSeq
    /\ Journal(s)
    /\ UNCHANGED <<handler, store, chat, work, agent, notes, skills>>

(* Mutant: the busy check is left out. *)
CloseSessionUnchecked(s) ==
    /\ handler = Idle /\ s \in bound
    /\ handler' = [Idle EXCEPT !.op = "closing", !.now = s]
    /\ UNCHANGED <<store, chat, work, agent, notes, log, sent, skills>>

(* Mutant: the event log is dropped before the transcript is written. *)
CloseSessionDropsLog(s) ==
    /\ handler = Idle /\ s \notin active /\ s \in bound
    /\ log' = [log EXCEPT ![s] = 0]
    /\ handler' = [Idle EXCEPT !.op = "closing", !.now = s]
    /\ UNCHANGED <<store, chat, work, agent, notes, sent, skills>>

CloseSession(s) ==
    /\ handler = Idle /\ s \notin active /\ s \in bound
    /\ handler' = [Idle EXCEPT !.op = "closing", !.now = s]
    /\ UNCHANGED <<store, chat, work, agent, notes, log, sent, skills>>

(* A session that belongs to a thread stays one of its participants. *)
SessionClosed ==
    /\ handler.op = "closing"
    /\ Forget(handler.now)
    /\ handler' = Idle
    /\ UNCHANGED <<known, chat, work, agent, notes, sent, skills>>

RemoveThreadParticipant(t, s) ==
    /\ handler = Idle /\ t \in threads /\ s \in participants[t] /\ s \notin active
    /\ participants' = [participants EXCEPT ![t] = @ \ {s}]
    /\ home' = [home EXCEPT ![s] = None]
    /\ handler' = [Idle EXCEPT !.op = "leaving", !.now = s, !.thread = t]
    /\ UNCHANGED <<store, threads, opened, work, agent, notes, log, sent, skills>>

ThreadParticipantRemoved ==
    /\ handler.op = "leaving"
    /\ Forget(handler.now)
    /\ ThreadEvents(handler.thread, 1)
    /\ handler' = Idle
    /\ UNCHANGED <<known, chat, work, agent, message, minted, labels, sent, skills>>

(* Mutant: session_to_binding keeps the sessions of a closed thread. *)
CloseThreadKeepsBindings(t) ==
    /\ handler = Idle /\ t \in threads /\ participants[t] \cap active = {}
    /\ threads' = threads \ {t}
    /\ participants' = [participants EXCEPT ![t] = {}]
    /\ handler' = [Idle EXCEPT !.op = "closing_thread", !.drop = participants[t], !.thread = t]
    /\ UNCHANGED <<store, home, opened, work, agent, notes, log, sent, skills>>

CloseThread(t) ==
    /\ handler = Idle /\ t \in threads /\ participants[t] \cap active = {}
    /\ threads' = threads \ {t}
    /\ participants' = [participants EXCEPT ![t] = {}]
    /\ home' = [s \in Sessions |-> IF s \in participants[t] THEN None ELSE home[s]]
    /\ handler' = [Idle EXCEPT !.op = "closing_thread", !.drop = participants[t], !.thread = t]
    /\ UNCHANGED <<store, opened, work, agent, notes, log, sent, skills>>

(* Mutant: a session that close_session already took is not ticked off. *)
ThreadSessionClosedIfBound(s) ==
    /\ handler.op = "closing_thread" /\ s \in handler.drop \cap bound
    /\ Forget(s)
    /\ handler' = [handler EXCEPT !.drop = @ \ {s}]
    /\ UNCHANGED <<known, chat, work, agent, notes, sent, skills>>

(* One participant after another, with an await for each. *)
ThreadSessionClosed(s) ==
    /\ handler.op = "closing_thread" /\ s \in handler.drop
    /\ Forget(s)
    /\ handler' = [handler EXCEPT !.drop = @ \ {s}]
    /\ UNCHANGED <<known, chat, work, agent, notes, sent, skills>>

ThreadClosed ==
    /\ handler.op = "closing_thread" /\ handler.drop = {}
    /\ tlog' = [tlog EXCEPT ![handler.thread] = 0]
    /\ handler' = Idle
    /\ UNCHANGED <<store, chat, work, agent, message, minted, labels, log, sent, skills>>

(* shutdown, when the client has gone: prompts are cancelled, each agent's   *)
(* reply awaited, the slots cleared, the sessions written one by one, then   *)
(* their bindings dropped.                                                   *)
ShutdownBegins == AskAgent([Asking("cancelling") EXCEPT !.drop = active])

ShutdownCancelled(s) ==
    /\ handler.op = "cancelling" /\ s \in handler.drop
    /\ handler' = [handler EXCEPT !.drop = @ \ {s}]
    /\ UNCHANGED <<store, chat, work, agent, notes, log, sent, skills>>

ShutdownClearsSlots ==
    /\ handler.op = "cancelling" /\ handler.drop = {}
    /\ active' = {}
    /\ handler' = [Idle EXCEPT !.op = "stopping", !.drop = created]
    /\ UNCHANGED <<store, chat, task, turns, agent, notes, log, sent, skills>>

ShutdownSession(s) ==
    /\ handler.op = "stopping" /\ s \in handler.drop
    /\ transcripts' = transcripts \ {s}
    /\ handler' = [handler EXCEPT !.drop = @ \ {s}]
    /\ UNCHANGED <<known, bound, created, chat, work, agent, notes, log, sent, skills>>

ShutdownEnds ==
    /\ handler.op = "stopping" /\ handler.drop = {}
    /\ bound' = bound \ created
    /\ created' = {}
    /\ handler' = [Idle EXCEPT !.op = "stopped"]
    /\ UNCHANGED <<known, transcripts, chat, work, agent, notes, log, sent, skills>>

-----------------------------------------------------------------------------
(* The agent, and the tasks that run whenever the handler waits.             *)

(* External: an agent streams updates while it works on a prompt. *)
AgentUpdate(p) ==
    /\ Yielded /\ alive /\ task[p].pc = "running" /\ updates < MaxUpdates
    /\ outbox' = Append(outbox, p)
    /\ updates' = updates + 1
    /\ UNCHANGED <<handler, store, chat, work, alive, notes, log, sent, skills>>

AgentCrash ==
    /\ Yielded /\ alive
    /\ alive' = FALSE
    /\ UNCHANGED <<handler, store, chat, work, outbox, updates, notes, log, sent, skills>>

(* The thread events about one turn of a session, all under the turn id of   *)
(* the message that is active for the session at that moment.                *)
Label(p, t, id, n) ==
    /\ ThreadEvents(t, n)
    /\ labels' = [labels EXCEPT ![p] = @ \cup {id}]

Unlabelled == UNCHANGED <<tlog, labels>>

(* The task that reads an agent's updates.  An update of a session that is   *)
(* gone is dropped.  Empty text makes a session event and no thread event.   *)
ConsumeUpdate ==
    /\ Yielded /\ outbox # << >>
    /\ outbox' = Tail(outbox)
    /\ LET p == Head(outbox)
           s == task[p].session IN
       IF s \notin bound
       THEN UNCHANGED <<log, sent, notes>>
       ELSE /\ Journal(s)
            /\ \/ UNCHANGED notes
               \/ /\ home[s] # None /\ message[s] # 0
                  /\ Label(p, home[s], message[s], 1)
                  /\ UNCHANGED <<message, minted>>
               \/ /\ home[s] # None /\ message[s] = 0
                  /\ minted' = minted + 1
                  /\ message' = [message EXCEPT ![s] = minted']
                  /\ Label(p, home[s], minted', 1)
    /\ UNCHANGED <<handler, store, chat, work, alive, updates, skills>>

(* The agent's answer frees the slot first; the turn_end event follows after *)
(* a sleep of 25 ms that lets late updates pass.                             *)
PromptAnswered(p) ==
    /\ Yielded /\ alive /\ task[p].pc = "running"
    /\ task' = [task EXCEPT ![p].pc = "answered"]
    /\ active' = active \ {task[p].session}
    /\ UNCHANGED <<handler, store, chat, turns, agent, notes, log, sent, skills>>

(* finalize_active_assistant_message with n thread events. *)
Finalize(p, s, n) ==
    /\ message' = [message EXCEPT ![s] = 0]
    /\ IF home[s] # None /\ message[s] # 0
       THEN Label(p, home[s], message[s], n)
       ELSE Unlabelled
    /\ UNCHANGED minted

(* Mutant: the turn_end of a session that is gone is dropped. *)
TurnEndOnlyIfBound(p) ==
    /\ Yielded /\ task[p].pc = "answered" /\ task[p].session \in bound
    /\ task' = [task EXCEPT ![p].pc = "done"]
    /\ Journal(task[p].session)
    /\ IF home[task[p].session] = None THEN UNCHANGED notes
       ELSE Finalize(p, task[p].session, 2)
    /\ UNCHANGED <<handler, store, chat, turns, active, agent, skills>>

(* Outside a thread the mapping to thread events returns early and leaves    *)
(* the active message alone.  Else: the completed message and the turn_end.  *)
TurnEnd(p) ==
    /\ Yielded /\ task[p].pc = "answered"
    /\ task' = [task EXCEPT ![p].pc = "done"]
    /\ Journal(task[p].session)
    /\ IF home[task[p].session] = None THEN UNCHANGED notes
       ELSE Finalize(p, task[p].session, 2)
    /\ UNCHANGED <<handler, store, chat, turns, active, agent, skills>>

(* The agent refuses or dies: the slot is freed and the error reported in    *)
(* one go.                                                                   *)
PromptFails(p) ==
    /\ Yielded /\ task[p].pc = "running"
    /\ task' = [task EXCEPT ![p].pc = "done"]
    /\ active' = active \ {task[p].session}
    /\ Journal(task[p].session)
    /\ Finalize(p, task[p].session, 1)
    /\ UNCHANGED <<handler, store, chat, turns, agent, skills>>

(* A distillation reports under the session's id when it starts, or fails to *)
(* start, and when it ends; it takes no slot and does not stop a close.      *)
DistillSession(s) ==
    /\ Yielded /\ s \in known /\ distills < MaxDistills
    /\ distills' = distills + 1
    /\ Journal(s)
    /\ \/ alive /\ distilling' = [distilling EXCEPT ![s] = @ + 1]
       \/ UNCHANGED distilling
    /\ UNCHANGED <<handler, store, chat, work, agent, notes>>

DistillEnds(s) ==
    /\ Yielded /\ distilling[s] > 0
    /\ distilling' = [distilling EXCEPT ![s] = @ - 1]
    /\ Journal(s)
    /\ UNCHANGED <<handler, store, chat, work, agent, notes, distills>>

-----------------------------------------------------------------------------
ClientMessage ==
    \/ CreateSession
    \/ \E s \in Sessions : Prompt(s) \/ Cancel(s) \/ CloseRefused(s) \/ CloseSession(s)
    \/ \E t \in Threads :
          \/ CreateThread(t) \/ AddThreadParticipant(t)
          \/ SendThreadMessage(t) \/ CloseThread(t)
    \/ \E t \in Threads, s \in Sessions :
          \/ SetThreadParticipantConfiguration(t, s)
          \/ RemoveThreadParticipant(t, s)
    \/ ShutdownBegins

(* An agent's reply to the handler. *)
AgentReplies ==
    \/ \E s \in Sessions : SessionCreated(s) \/ ThreadParticipantAdded(s) \/ ShutdownCancelled(s)
    \/ ThreadParticipantConfigured
    \/ AskedInVain

HandlerStep ==
    \/ PromptNextTarget
    \/ SpawnPrompt
    \/ SessionClosed
    \/ ThreadParticipantRemoved
    \/ \E s \in Sessions : ThreadSessionClosed(s) \/ ShutdownSession(s)
    \/ ThreadClosed
    \/ ShutdownClearsSlots
    \/ ShutdownEnds

Answer(p) == PromptAnswered(p) \/ PromptFails(p)

Next ==
    \/ ClientMessage
    \/ AgentReplies
    \/ HandlerStep
    \/ \E p \in Turns : AgentUpdate(p) \/ Answer(p) \/ TurnEnd(p)
    \/ AgentCrash
    \/ ConsumeUpdate
    \/ \E s \in Sessions : DistillSession(s) \/ DistillEnds(s)

(* The runtime polls every ready task, so each step that waits for no agent  *)
(* is fair.  Agents need never reply to the handler nor answer a prompt.     *)
Fairness ==
    /\ WF_vars(HandlerStep)
    /\ WF_vars(ConsumeUpdate)
    /\ \A p \in Turns : WF_vars(TurnEnd(p))

Spec == Init /\ [][Next]_vars /\ Fairness

-----------------------------------------------------------------------------
HandlerType ==
    handler \in [op : {"idle", "creating", "joining", "configuring", "interrupting",
                       "prompting", "closing", "leaving", "closing_thread",
                       "cancelling", "stopping", "stopped"},
                 now : Sessions \cup {None}, targets : Seq(Sessions),
                 drop : SUBSET Sessions, thread : Threads \cup {None}]

StoreType ==
    /\ known \subseteq Sessions /\ bound \subseteq known
    /\ transcripts \subseteq Sessions /\ created \subseteq Sessions
    /\ active \subseteq Sessions
    /\ distilling \in [Sessions -> Nat] /\ distills \in Nat
    /\ alive \in BOOLEAN /\ updates \in Nat

WorkType ==
    /\ turns \in 0..MaxTurns
    /\ task \in [Turns -> [session : Sessions \cup {None},
                           pc : {"unused", "running", "answered", "done"}]]
    /\ outbox \in Seq(Turns)

EventsType ==
    /\ log \in [Sessions -> Nat] /\ sent \in [Sessions -> Nat]
    /\ message \in [Sessions -> Nat] /\ minted \in Nat
    /\ tlog \in [Threads -> Nat]
    /\ labels \in [Turns -> SUBSET Nat]

ThreadsType ==
    /\ threads \subseteq opened /\ opened \subseteq Threads
    /\ participants \in [Threads -> SUBSET Sessions]
    /\ home \in [Sessions -> Threads \cup {None}]

(* Every variable has its type; bound names only ids that were handed out. *)
TypeOK == HandlerType /\ StoreType /\ WorkType /\ EventsType /\ ThreadsType

(* The agent manager, the transcripts and the list of created sessions name *)
(* the same sessions after every message and at every await, whichever way  *)
(* a session went (close_session, participant removal, close_thread), until *)
(* shutdown takes the transcripts first.                                    *)
RegistriesAgree ==
    /\ bound = created
    /\ transcripts = IF handler.op = "stopping" THEN handler.drop ELSE bound

(* active_prompt_sessions holds exactly the sessions whose prompt is with   *)
(* an agent, and no session has two there: the busy check comes before the  *)
(* await for the skills, the slot is taken after it.                        *)
OutAt(s) == {p \in Turns : task[p].session = s /\ task[p].pc = "running"}
SlotsMatchPrompts ==
    \A s \in Sessions :
        /\ \A p, q \in OutAt(s) : p = q
        /\ handler.op \notin {"stopping", "stopped"} => (s \in active <=> OutAt(s) # {})

(* No session is forgotten while its prompt is out, nor while the handler   *)
(* waits to send one: a prompt always has a session to answer to.           *)
PromptedStaysBound ==
    /\ active \subseteq bound
    /\ handler.op = "prompting" /\ handler.now # None => handler.now \in bound \ active

(* While a session is live, its log holds every event broadcast for it, so  *)
(* a client that attaches again with a cursor misses nothing and its replay *)
(* joins the stream without a gap.                                          *)
LogHoldsStream == \A s \in bound : log[s] = sent[s]

(* The two maps of ThreadStore agree: a session's binding names the one     *)
(* live thread that lists it as a participant.                              *)
ThreadMapsAgree ==
    \A s \in Sessions, t \in Threads :
        /\ s \in participants[t] <=> home[s] = t
        /\ home[s] = t => t \in threads

(* Nothing is journalled for a thread that is closed, by a late turn or by  *)
(* the participants' sessions, so no log grows after ThreadEventLog dropped *)
(* it.                                                                      *)
ClosedThreadIsSilent ==
    [][\A t \in Threads : t \notin threads => tlog'[t] <= tlog[t]]_vars

(* A turn whose agent answered is reported, although it holds no slot in    *)
(* the 25 ms before its turn_end: its session may be prompted again, closed *)
(* or dropped by a shutdown meanwhile.  (A prompt whose agent never answers *)
(* is never reported: handle_prompt sets no timeout.)                       *)
AnsweredIsReported ==
    \A p \in Turns : task[p].pc = "answered" ~> task[p].pc = "done"

(* The handler comes back for the next message, whatever the prompts and    *)
(* updates in flight do, unless it waits for the reply of an agent: no      *)
(* close, thread message or shutdown waits for another task, or for itself. *)
WaitsForAgent ==
    \/ handler.op \in {"creating", "joining", "configuring", "interrupting"}
    \/ handler.op = "cancelling" /\ handler.drop # {}
HandlerReturns ==
    handler # Idle /\ ~WaitsForAgent ~> handler.op \in {"idle", "stopped"}

-----------------------------------------------------------------------------
(* What the documents say and the code does not keep.                       *)

(* PROTOCOL.md: event_seq is monotonic within one session_id. *)
EventSeqMonotonic == [][\A s \in Sessions : sent'[s] >= sent[s]]_vars

(* PROTOCOL.md: the thread events of a turn carry the turn id of that turn. *)
TurnIdsMatch ==
    \A p, q \in Turns :
        \A i \in labels[p], j \in labels[q] : p = q <=> i = j

=============================================================================
