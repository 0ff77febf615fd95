-------------------------- MODULE AppSessionProofs --------------------------
(***************************************************************************)
(* What holds of AppProtocolSession for any number of sessions, threads,    *)
(* prompts and updates.                                                     *)
(***************************************************************************)
EXTENDS AppSession, TLAPS

(* Only sessions that were handed out are ever named, and an id that was    *)
(* not has no events yet.                                                   *)
OnlyKnown ==
    /\ \A s \in Sessions \ known : log[s] = 0 /\ sent[s] = 0
    /\ \A t \in Threads : participants[t] \subseteq known
    /\ handler.now \in known \cup {None}
    /\ handler.targets \in Seq(known)
    /\ handler.drop \subseteq known
    /\ \A s \in Sessions \ known : distilling[s] = 0

(* A used task has a session; updates belong to used tasks. *)
TasksOK ==
    /\ \A p \in Turns :
          /\ task[p].pc = "unused" <=> p > turns
          /\ p <= turns => task[p].session \in known
    /\ \A i \in 1..Len(outbox) : outbox[i] <= turns

(* What each message being handled has checked, and keeps at its awaits. *)
HandlerOK ==
    /\ handler.op = "prompting" =>
          /\ handler.now = None => handler.targets # << >> /\ turns + Len(handler.targets) <= MaxTurns
          /\ handler.now # None => turns + Len(handler.targets) < MaxTurns
    /\ handler.op \in {"joining", "configuring"} => handler.thread \in threads
    /\ handler.op = "closing" => handler.now \in known \ active
    /\ handler.op = "leaving" => handler.now \in known \ active /\ handler.thread \in threads
    /\ handler.op = "closing_thread" => handler.drop \cap active = {} /\ handler.thread \in Threads
    /\ handler.op \in {"stopping", "stopped"} => active = {}

Inv ==
    /\ TypeOK /\ RegistriesAgree /\ SlotsMatchPrompts /\ PromptedStaysBound
    /\ LogHoldsStream /\ ThreadMapsAgree
    /\ OnlyKnown /\ TasksOK /\ HandlerOK

USE DEF store, chat, work, agent, notes, skills, Idle, Turns, OutAt

-----------------------------------------------------------------------------
(* Helpers. *)

(* No targets is a list of targets. *)
LEMMA EmptyTargets == \A S : << >> \in Seq(S)
OBVIOUS

(* What send_thread_message takes off its list of targets is one, and leaves *)
(* one fewer.                                                                *)
LEMMA HeadTail ==
    ASSUME NEW S, NEW q \in Seq(S), q # << >>
    PROVE  Head(q) \in S /\ Tail(q) \in Seq(S) /\ Len(Tail(q)) = Len(q) - 1 /\ Len(q) \in Nat
OBVIOUS

(* Journal is total on sessions. *)
LEMMA JournalTypes ==
    ASSUME EventsType, NEW s \in Sessions, Journal(s)
    PROVE  /\ log' \in [Sessions -> Nat] /\ sent' \in [Sessions -> Nat]
           /\ log'[s] = sent'[s]
           /\ \A r \in Sessions \ {s} : log'[r] = log[r] /\ sent'[r] = sent[r]
<1>1. log[s] + 1 \in Nat
  BY DEF EventsType
<1>2. log' = [log EXCEPT ![s] = log[s] + 1] /\ sent' = [sent EXCEPT ![s] = log[s] + 1]
  BY DEF Journal
<1> QED BY <1>1, <1>2 DEF EventsType

(* An event about a turn grows the thread log and that turn's labels. *)
LEMMA LabelTypes ==
    ASSUME EventsType, NEW p \in Turns, NEW t \in Threads, NEW id \in Nat, NEW n \in Nat,
           Label(p, t, id, n)
    PROVE  tlog' \in [Threads -> Nat] /\ labels' \in [Turns -> SUBSET Nat]
<1>1. tlog[t] + n \in Nat
  BY DEF EventsType
<1>2. tlog' \in [Threads -> Nat]
  BY <1>1 DEF EventsType, Label, ThreadEvents
<1>3. labels' \in [Turns -> SUBSET Nat]
  BY Zenon DEF EventsType, Label
<1> QED BY <1>2, <1>3

(* Ending a turn leaves message ids, thread logs and labels well typed. *)
LEMMA FinalizeTypes ==
    ASSUME EventsType, ThreadsType, NEW p \in Turns, NEW s \in Sessions, NEW n \in Nat,
           Finalize(p, s, n)
    PROVE  /\ message' \in [Sessions -> Nat] /\ minted' \in Nat
           /\ tlog' \in [Threads -> Nat] /\ labels' \in [Turns -> SUBSET Nat]
<1>1. message' \in [Sessions -> Nat] /\ minted' \in Nat
  BY DEF EventsType, Finalize
<1>2. CASE home[s] # None /\ message[s] # 0
  <2>1. home[s] \in Threads /\ message[s] \in Nat
    BY <1>2 DEF EventsType, ThreadsType
  <2> QED BY <1>1, <1>2, <2>1, LabelTypes DEF Finalize
<1>3. CASE ~(home[s] # None /\ message[s] # 0)
  BY <1>1, <1>3 DEF EventsType, Finalize, Unlabelled
<1> QED BY <1>2, <1>3

-----------------------------------------------------------------------------
(* Every step keeps the invariant. *)

(* A handler that turns to an agent has changed nothing yet: it names ids   *)
(* that were handed out and, for a participant, a live thread.              *)
LEMMA AskAgentKeeps ==
    ASSUME Inv, NEW op \in {"creating", "joining", "configuring", "interrupting", "cancelling"},
           NEW s \in known \cup {None}, NEW d \in SUBSET known, NEW t \in Threads \cup {None},
           op \in {"joining", "configuring"} => t \in threads,
           AskAgent([op |-> op, now |-> s, targets |-> << >>, drop |-> d, thread |-> t])
    PROVE  Inv'
<1> USE EmptyTargets DEF Inv, TypeOK, AskAgent
<1>1. HandlerType'
  BY DEF HandlerType, StoreType
<1>2. StoreType' /\ WorkType' /\ EventsType' /\ ThreadsType'
  BY DEF StoreType, WorkType, EventsType, ThreadsType
<1>3. RegistriesAgree' /\ PromptedStaysBound' /\ SlotsMatchPrompts'
  BY DEF RegistriesAgree, PromptedStaysBound, SlotsMatchPrompts
<1>4. LogHoldsStream' /\ ThreadMapsAgree' /\ OnlyKnown'
  BY DEF LogHoldsStream, ThreadMapsAgree, OnlyKnown
<1>5. TasksOK' /\ HandlerOK'
  BY DEF TasksOK, HandlerOK
<1> QED BY <1>1, <1>2, <1>3, <1>4, <1>5

(* So it is for every message that asks an agent, and for the shutdown,     *)
(* which cancels the sessions that hold a slot.                             *)
LEMMA RequestKeeps ==
    ASSUME Inv,
           \/ CreateSession \/ ShutdownBegins
           \/ \E s \in Sessions : Cancel(s)
           \/ \E t \in Threads : AddThreadParticipant(t)
           \/ \E t \in Threads, s \in Sessions : SetThreadParticipantConfiguration(t, s)
    PROVE  Inv'
<1>1. /\ active \subseteq known /\ bound \subseteq known /\ threads \subseteq Threads
      /\ \A t \in Threads : participants[t] \subseteq known
  BY DEF Inv, TypeOK, StoreType, PromptedStaysBound, ThreadsType, OnlyKnown
<1> USE DEF Asking
<1>2. CASE CreateSession
  <2>1. AskAgent([op |-> "creating", now |-> None, targets |-> << >>, drop |-> {}, thread |-> None])
    BY <1>2 DEF CreateSession, AskAgent
  <2> QED BY <1>1, <2>1, AskAgentKeeps
<1>3. CASE ShutdownBegins
  <2>1. AskAgent([op |-> "cancelling", now |-> None, targets |-> << >>, drop |-> active, thread |-> None])
    BY <1>3 DEF ShutdownBegins, AskAgent
  <2> QED BY <1>1, <2>1, AskAgentKeeps
<1>4. ASSUME NEW s \in Sessions, Cancel(s) PROVE Inv'
  <2>1. AskAgent([op |-> "interrupting", now |-> s, targets |-> << >>, drop |-> {}, thread |-> None])
        /\ s \in bound
    BY <1>4 DEF Cancel, AskAgent
  <2> QED BY <1>1, <2>1, AskAgentKeeps
<1>5. ASSUME NEW t \in Threads, AddThreadParticipant(t) PROVE Inv'
  <2>1. AskAgent([op |-> "joining", now |-> None, targets |-> << >>, drop |-> {}, thread |-> t])
        /\ t \in threads
    BY <1>5 DEF AddThreadParticipant, AskAgent
  <2> QED BY <1>1, <2>1, AskAgentKeeps
<1>6. ASSUME NEW t \in Threads, NEW s \in Sessions, SetThreadParticipantConfiguration(t, s)
      PROVE  Inv'
  <2>1. AskAgent([op |-> "configuring", now |-> s, targets |-> << >>, drop |-> {}, thread |-> t])
        /\ t \in threads /\ s \in participants[t]
    BY <1>6 DEF SetThreadParticipantConfiguration, AskAgent
  <2> QED BY <1>1, <2>1, AskAgentKeeps
<1> QED BY <1>2, <1>3, <1>4, <1>5, <1>6

(* The session an agent made takes an id nobody had, and is bound in every  *)
(* registry at once.                                                        *)
LEMMA SessionCreatedKeeps ==
    ASSUME Inv, NEW s \in Sessions, SessionCreated(s)
    PROVE  Inv'
<1> USE BoundsAssumption, NoneAssumption DEF Inv, TypeOK, SessionCreated, Register, Journal
<1>1. TypeOK'
  BY SMTT(30) DEF HandlerType, StoreType, WorkType, EventsType, ThreadsType
<1>2. RegistriesAgree' /\ PromptedStaysBound' /\ SlotsMatchPrompts'
  BY DEF HandlerType, StoreType, WorkType, RegistriesAgree,
     PromptedStaysBound, SlotsMatchPrompts, HandlerOK
<1>3. LogHoldsStream' /\ ThreadMapsAgree' /\ OnlyKnown'
  BY DEF HandlerType, StoreType, WorkType, EventsType,
     ThreadsType, LogHoldsStream, ThreadMapsAgree, OnlyKnown, TasksOK, PromptedStaysBound
<1>4. TasksOK' /\ HandlerOK'
  BY DEF HandlerType, StoreType, WorkType, ThreadsType, OnlyKnown, TasksOK, HandlerOK
<1> QED BY <1>1, <1>2, <1>3, <1>4

(* A request in vain changes nothing. *)
LEMMA AskedInVainKeeps ==
    ASSUME Inv, AskedInVain
    PROVE  Inv'
<1> USE BoundsAssumption, NoneAssumption DEF Inv, TypeOK, AskedInVain
<1>1. TypeOK'
  BY SMTT(30) DEF HandlerType, StoreType, WorkType, EventsType, ThreadsType
<1>2. RegistriesAgree' /\ PromptedStaysBound' /\ SlotsMatchPrompts'
  BY DEF HandlerType, StoreType, WorkType, RegistriesAgree,
     PromptedStaysBound, SlotsMatchPrompts, HandlerOK
<1>3. LogHoldsStream' /\ ThreadMapsAgree' /\ OnlyKnown'
  BY DEF HandlerType, StoreType, WorkType, EventsType,
     ThreadsType, LogHoldsStream, ThreadMapsAgree, OnlyKnown, TasksOK, PromptedStaysBound
<1>4. TasksOK' /\ HandlerOK'
  BY DEF HandlerType, StoreType, WorkType, ThreadsType, OnlyKnown, TasksOK, HandlerOK
<1> QED BY <1>1, <1>2, <1>3, <1>4

(* create_thread starts a thread with nobody in it. *)
LEMMA CreateThreadKeeps ==
    ASSUME Inv, NEW t \in Threads, CreateThread(t)
    PROVE  Inv'
<1> USE BoundsAssumption, NoneAssumption DEF Inv, TypeOK, CreateThread
<1>1. TypeOK'
  BY DEF HandlerType, StoreType, WorkType, EventsType, ThreadsType
<1>2. RegistriesAgree' /\ PromptedStaysBound' /\ SlotsMatchPrompts'
  BY DEF HandlerType, StoreType, WorkType, RegistriesAgree,
     PromptedStaysBound, SlotsMatchPrompts, HandlerOK
<1>3. LogHoldsStream' /\ ThreadMapsAgree' /\ OnlyKnown'
  BY DEF HandlerType, StoreType, WorkType, EventsType,
     ThreadsType, LogHoldsStream, ThreadMapsAgree, OnlyKnown, TasksOK, PromptedStaysBound
<1>4. TasksOK' /\ HandlerOK'
  BY DEF HandlerType, StoreType, WorkType, ThreadsType, OnlyKnown, TasksOK, HandlerOK
<1> QED BY <1>1, <1>2, <1>3, <1>4

(* A new participant is a new session bound to a live thread: no handler    *)
(* closed the thread while this one waited.                                 *)
LEMMA ThreadParticipantAddedKeeps ==
    ASSUME Inv, NEW s \in Sessions, ThreadParticipantAdded(s)
    PROVE  Inv'
<1> USE BoundsAssumption, NoneAssumption DEF Inv, TypeOK, ThreadParticipantAdded, Register,
     ThreadEvents
<1>0. handler.thread \in threads /\ handler.thread \in Threads
  BY DEF HandlerOK, ThreadsType
<1> USE <1>0
<1>1. TypeOK'
  BY SMTT(30) DEF HandlerType, StoreType, WorkType, EventsType, ThreadsType
<1>2. RegistriesAgree' /\ PromptedStaysBound' /\ SlotsMatchPrompts'
  BY DEF HandlerType, StoreType, WorkType, RegistriesAgree,
     PromptedStaysBound, SlotsMatchPrompts, HandlerOK
<1>3. LogHoldsStream' /\ ThreadMapsAgree' /\ OnlyKnown'
  BY DEF HandlerType, StoreType, WorkType, EventsType,
     ThreadsType, LogHoldsStream, ThreadMapsAgree, OnlyKnown, TasksOK, PromptedStaysBound
<1>4. TasksOK' /\ HandlerOK'
  BY DEF HandlerType, StoreType, WorkType, ThreadsType, OnlyKnown, TasksOK, HandlerOK
<1> QED BY <1>1, <1>2, <1>3, <1>4

(* A change of settings only adds an event. *)
LEMMA ThreadParticipantConfiguredKeeps ==
    ASSUME Inv, ThreadParticipantConfigured
    PROVE  Inv'
<1> USE BoundsAssumption, NoneAssumption DEF Inv, TypeOK,
     ThreadParticipantConfigured, ThreadEvents
<1>0. handler.thread \in threads /\ handler.thread \in Threads
  BY DEF HandlerOK, ThreadsType
<1> USE <1>0
<1>1. TypeOK'
  BY SMTT(30) DEF HandlerType, StoreType, WorkType, EventsType, ThreadsType
<1>2. RegistriesAgree' /\ PromptedStaysBound' /\ SlotsMatchPrompts'
  BY DEF HandlerType, StoreType, WorkType, RegistriesAgree,
     PromptedStaysBound, SlotsMatchPrompts, HandlerOK
<1>3. LogHoldsStream' /\ ThreadMapsAgree' /\ OnlyKnown'
  BY DEF HandlerType, StoreType, WorkType, EventsType,
     ThreadsType, LogHoldsStream, ThreadMapsAgree, OnlyKnown, TasksOK, PromptedStaysBound
<1>4. TasksOK' /\ HandlerOK'
  BY DEF HandlerType, StoreType, WorkType, ThreadsType, OnlyKnown, TasksOK, HandlerOK
<1> QED BY <1>1, <1>2, <1>3, <1>4

(* handle_prompt, for the one session of a prompt or for the next target of *)
(* a thread message: an error is journalled, or the session is free and     *)
(* bound when the wait begins.                                              *)
LEMMA HandlePromptKeeps ==
    ASSUME Inv, NEW s \in known, NEW targets \in Seq(known),
           turns + Len(targets) < MaxTurns,
           handler.op \in {"idle", "prompting"}, handler.now = None,
           HandlePrompt(s, targets),
           UNCHANGED <<store, chat, work, agent, minted, tlog, labels, skills>>
    PROVE  Inv'
<1> USE BoundsAssumption, NoneAssumption DEF Inv, TypeOK
<1>0. s \in Sessions /\ targets \in Seq(Sessions) /\ Len(targets) \in Nat
  BY DEF StoreType
<1>1. /\ handler'.now \in {s, None}
      /\ handler'.targets = targets
      /\ handler'.drop = {} /\ handler'.thread = None
      /\ handler'.op \in {"idle", "prompting"}
      /\ handler'.op = "prompting" /\ handler'.now = None => targets # << >>
      /\ handler'.now # None => s \in bound \ active
      /\ handler' = [op |-> handler'.op, now |-> handler'.now, targets |-> targets,
                     drop |-> {}, thread |-> None]
  <2>1. CASE PromptRefused(s, targets) /\ targets = << >>
    BY <2>1 DEF PromptRefused, Advance
  <2>2. CASE PromptRefused(s, targets) /\ targets # << >>
    BY <2>2 DEF PromptRefused, Advance
  <2>3. CASE PromptBegins(s, targets)
    BY <1>0, <2>3 DEF PromptBegins
  <2> QED BY <2>1, <2>2, <2>3 DEF HandlePrompt
<1>2. HandlerType' /\ StoreType' /\ WorkType' /\ ThreadsType'
  <2>1. HandlerType'
    BY <1>0, <1>1 DEF HandlerType
  <2> QED BY <2>1 DEF StoreType, WorkType, ThreadsType
<1>3. EventsType' /\ LogHoldsStream' /\ \A r \in Sessions \ known : log'[r] = 0 /\ sent'[r] = 0
  <2>1. CASE PromptRefused(s, targets)
    <3>1. Journal(s) /\ UNCHANGED message
      BY <2>1 DEF PromptRefused
    <3>2. /\ log' \in [Sessions -> Nat] /\ sent' \in [Sessions -> Nat] /\ log'[s] = sent'[s]
          /\ \A r \in Sessions \ {s} : log'[r] = log[r] /\ sent'[r] = sent[r]
      BY <1>0, <3>1, JournalTypes
    <3>3. EventsType'
      BY <3>1, <3>2 DEF EventsType
    <3> QED BY <1>0, <3>2, <3>3 DEF LogHoldsStream, OnlyKnown, StoreType
  <2>2. CASE PromptBegins(s, targets)
    BY <1>0, <2>2 DEF PromptBegins, EventsType, LogHoldsStream, OnlyKnown
  <2> QED BY <2>1, <2>2 DEF HandlePrompt
<1>4. RegistriesAgree' /\ PromptedStaysBound' /\ SlotsMatchPrompts'
  BY <1>1 DEF RegistriesAgree, PromptedStaysBound, SlotsMatchPrompts
<1>5. ThreadMapsAgree' /\ OnlyKnown'
  BY <1>1, <1>3 DEF ThreadMapsAgree, OnlyKnown
<1>6. TasksOK' /\ HandlerOK'
  BY <1>0, <1>1 DEF TasksOK, HandlerOK, WorkType
<1> QED BY <1>2, <1>3, <1>4, <1>5, <1>6

(* A prompt that is not refused waits with the session unbusy and bound. *)
LEMMA PromptKeeps ==
    ASSUME Inv, NEW s \in Sessions, Prompt(s)
    PROVE  Inv'
<1>1. << >> \in Seq(known) /\ Len(<< >>) = 0
  BY EmptyTargets
<1>2. turns + Len(<< >>) < MaxTurns
  BY <1>1, BoundsAssumption DEF Prompt, Inv, TypeOK, WorkType
<1> QED BY <1>1, <1>2, HandlePromptKeeps DEF Prompt

(* The targets of a thread message are participants, so they are known. *)
LEMMA SendThreadMessageKeeps ==
    ASSUME Inv, NEW t \in Threads, SendThreadMessage(t)
    PROVE  Inv'
<1> USE BoundsAssumption, NoneAssumption DEF Inv, TypeOK
<1>0. PICK n \in 1..MaxTargets :
          turns + n <= MaxTurns
          /\ \E targets \in [1..n -> participants[t]] : handler' = Advance(targets)
  BY DEF SendThreadMessage
<1>1. PICK targets \in [1..n -> participants[t]] : handler' = Advance(targets)
  BY <1>0
<1>2. targets \in Seq(known) /\ targets \in Seq(Sessions) /\ Len(targets) = n /\ targets # << >>
  BY <1>1 DEF OnlyKnown, StoreType
<1>3. handler' = [op |-> "prompting", now |-> None, targets |-> targets, drop |-> {}, thread |-> None]
  BY <1>1, <1>2 DEF Advance
<1>4. UNCHANGED <<store, chat, work, agent, message, minted, labels, log, sent, skills>>
      /\ ThreadEvents(t, 1)
  BY DEF SendThreadMessage
<1>5. HandlerType' /\ StoreType' /\ WorkType' /\ ThreadsType'
  <2>1. HandlerType'
    BY <1>2, <1>3 DEF HandlerType
  <2> QED BY <2>1, <1>4 DEF StoreType, WorkType, ThreadsType
<1>6. EventsType'
  BY <1>4 DEF EventsType, ThreadEvents
<1>7. RegistriesAgree' /\ PromptedStaysBound' /\ SlotsMatchPrompts'
  BY <1>3, <1>4 DEF SendThreadMessage, RegistriesAgree, PromptedStaysBound, SlotsMatchPrompts
<1>8. LogHoldsStream' /\ ThreadMapsAgree' /\ OnlyKnown'
  BY <1>2, <1>3, <1>4 DEF LogHoldsStream, ThreadMapsAgree, OnlyKnown
<1>9. TasksOK' /\ HandlerOK'
  BY <1>0, <1>2, <1>3, <1>4 DEF TasksOK, HandlerOK
<1> QED BY <1>5, <1>6, <1>7, <1>8, <1>9

(* Each target is checked on its own turn: refused, or waited for. *)
LEMMA PromptNextTargetKeeps ==
    ASSUME Inv, PromptNextTarget
    PROVE  Inv'
<1>1. handler.targets \in Seq(known) /\ handler.targets # << >>
      /\ turns + Len(handler.targets) <= MaxTurns
      /\ handler.op = "prompting" /\ handler.now = None
  BY DEF PromptNextTarget, Yielded, Inv, OnlyKnown, HandlerOK
<1>2. /\ Head(handler.targets) \in known /\ Tail(handler.targets) \in Seq(known)
      /\ Len(Tail(handler.targets)) = Len(handler.targets) - 1 /\ Len(handler.targets) \in Nat
  BY <1>1, HeadTail
<1>3. turns + Len(Tail(handler.targets)) < MaxTurns
  BY <1>1, <1>2, BoundsAssumption DEF Inv, TypeOK, WorkType
<1> QED BY <1>1, <1>2, <1>3, HandlePromptKeeps DEF PromptNextTarget

(* The slot is taken: the session was bound and free before the wait and    *)
(* still is, and the task's number is new.                                  *)
LEMMA SpawnPromptKeeps ==
    ASSUME Inv, SpawnPrompt
    PROVE  Inv'
<1> USE BoundsAssumption, NoneAssumption DEF Inv, TypeOK
<1>s. PICK s \in Sessions : s = handler.now
  BY DEF SpawnPrompt, HandlerType
<1>1. /\ s \in bound \ active /\ s \in known
      /\ handler.op = "prompting" /\ handler.targets \in Seq(known) /\ handler.targets \in Seq(Sessions)
      /\ Len(handler.targets) \in Nat /\ turns + Len(handler.targets) < MaxTurns
  BY <1>s DEF SpawnPrompt, PromptedStaysBound, StoreType, HandlerOK, HandlerType, OnlyKnown
<1>2. PICK p \in Turns : p = turns + 1 /\ p \in 0..MaxTurns /\ turns \in 0..MaxTurns
  BY <1>1 DEF WorkType
<1>3. /\ turns' = p
      /\ task' = [task EXCEPT ![p] = [session |-> s, pc |-> "running"]]
      /\ active' = active \cup {s}
      /\ UNCHANGED <<store, chat, agent, notes, log, sent, skills>>
  BY <1>s, <1>2 DEF SpawnPrompt
<1>4. handler' = [op |-> IF handler.targets = << >> THEN "idle" ELSE "prompting", now |-> None,
                  targets |-> handler.targets, drop |-> {}, thread |-> None]
  BY DEF SpawnPrompt, Advance
<1>0. /\ handler'.op \in {"idle", "prompting"} /\ handler'.now = None
      /\ handler'.targets = handler.targets
      /\ handler'.op = "prompting" => handler.targets # << >>
  BY <1>4
<1>5. HandlerType' /\ EventsType' /\ ThreadsType'
  <2>1. HandlerType'
    BY <1>1, <1>4 DEF HandlerType
  <2> QED BY <2>1, <1>3 DEF EventsType, ThreadsType
<1>6. StoreType'
  BY <1>1, <1>3 DEF StoreType
<1>7. task' \in [Turns -> [session : Sessions \cup {None},
                           pc : {"unused", "running", "answered", "done"}]]
  BY <1>1, <1>2, <1>3 DEF WorkType
<1>8. WorkType'
  BY <1>2, <1>3, <1>7 DEF WorkType
<1>9. /\ \A q \in Turns \ {p} : task'[q] = task[q]
      /\ task'[p].session = s /\ task'[p].pc = "running"
  BY <1>2, <1>3 DEF WorkType
<1>10. SlotsMatchPrompts'
  <2>1. ~ \E q \in Turns : task[q].session = s /\ task[q].pc = "running"
    BY <1>1 DEF SlotsMatchPrompts
  <2>2. OutAt(s)' = {p} /\ s \in active'
    BY <2>1, <1>1, <1>2, <1>3, <1>9
  <2>3. \A r \in Sessions \ {s} : OutAt(r)' = OutAt(r) /\ (r \in active' <=> r \in active)
    <3>1. task[p].pc = "unused"
      BY <1>2 DEF TasksOK
    <3> QED BY <3>1, <1>2, <1>3, <1>9
  <2> HIDE DEF OutAt
  <2>4. ASSUME NEW r \in Sessions
        PROVE  (\A q1, q2 \in OutAt(r)' : q1 = q2) /\ (r \in active' <=> OutAt(r)' # {})
    <3>1. CASE r = s
      BY <3>1, <2>2, Zenon
    <3>2. CASE r # s
      <4>1. OutAt(r)' = OutAt(r) /\ (r \in active' <=> r \in active)
        BY <3>2, <2>3, Zenon
      <4>2. (\A q1, q2 \in OutAt(r) : q1 = q2) /\ (r \in active <=> OutAt(r) # {})
        BY <1>1 DEF SlotsMatchPrompts
      <4> QED BY <4>1, <4>2, Zenon
    <3> QED BY <3>1, <3>2
  <2> QED BY <2>4 DEF SlotsMatchPrompts
<1>11. RegistriesAgree' /\ PromptedStaysBound' /\ LogHoldsStream' /\ ThreadMapsAgree'
  BY <1>1, <1>3, <1>4 DEF RegistriesAgree, PromptedStaysBound, LogHoldsStream, ThreadMapsAgree
<1>12. OnlyKnown'
  BY <1>1, <1>3, <1>4 DEF OnlyKnown
<1>13. TasksOK'
  <2>1. \A q \in Turns :
          /\ task'[q].pc = "unused" <=> q > turns'
          /\ q <= turns' => task'[q].session \in known'
    BY <1>1, <1>2, <1>3, <1>9 DEF TasksOK, WorkType
  <2>2. \A i \in 1..Len(outbox') : outbox'[i] <= turns'
    BY <1>2, <1>3 DEF TasksOK, WorkType
  <2> QED BY <2>1, <2>2 DEF TasksOK
<1>14. HandlerOK'
  <2>1. turns' = turns + 1 /\ turns \in Nat
    BY <1>2, <1>3
  <2>2. \A n \in Nat : turns + n < MaxTurns => (turns + 1) + n <= MaxTurns
    BY <2>1
  <2>3. turns' + Len(handler.targets) <= MaxTurns
    BY <1>1, <2>1, <2>2
  <2> QED BY <2>3, <1>0 DEF HandlerOK
<1> QED BY <1>5, <1>6, <1>8, <1>10, <1>11, <1>12, <1>13, <1>14

(* A refused close adds one event, to the log and to the stream alike. *)
LEMMA CloseRefusedKeeps ==
    ASSUME Inv, NEW s \in Sessions, CloseRefused(s)
    PROVE  Inv'
<1> USE DEF Inv, TypeOK
<1>1. /\ handler' = handler /\ UNCHANGED <<store, chat, work, agent, notes, skills>>
      /\ Journal(s) /\ s \in active
  BY DEF CloseRefused
<1>2. /\ log' \in [Sessions -> Nat] /\ sent' \in [Sessions -> Nat] /\ log'[s] = sent'[s]
      /\ \A r \in Sessions \ {s} : log'[r] = log[r] /\ sent'[r] = sent[r]
  BY <1>1, JournalTypes
<1>3. s \in bound /\ s \in known
  BY <1>1 DEF PromptedStaysBound, StoreType
<1>4. HandlerType' /\ StoreType' /\ WorkType' /\ ThreadsType'
  BY <1>1 DEF HandlerType, StoreType, WorkType, ThreadsType
<1>5. EventsType'
  BY <1>1, <1>2 DEF EventsType
<1>6. RegistriesAgree' /\ PromptedStaysBound' /\ ThreadMapsAgree'
  BY <1>1 DEF RegistriesAgree, PromptedStaysBound, ThreadMapsAgree
<1>7. SlotsMatchPrompts' /\ TasksOK' /\ HandlerOK'
  BY <1>1 DEF SlotsMatchPrompts, TasksOK, HandlerOK
<1>8. LogHoldsStream'
  BY <1>1, <1>2 DEF LogHoldsStream, StoreType
<1>9. OnlyKnown'
  <2>1. \A r \in Sessions \ known' : log'[r] = 0 /\ sent'[r] = 0
    BY <1>1, <1>2, <1>3 DEF OnlyKnown
  <2> QED BY <1>1, <2>1 DEF OnlyKnown
<1> QED BY <1>4, <1>5, <1>6, <1>7, <1>8, <1>9

(* A close begins on a session that is bound and not busy. *)
LEMMA CloseSessionKeeps ==
    ASSUME Inv, NEW s \in Sessions, CloseSession(s)
    PROVE  Inv'
<1> USE BoundsAssumption, NoneAssumption DEF Inv, TypeOK, CloseSession
<1>1. TypeOK'
  BY DEF HandlerType, StoreType, WorkType, EventsType, ThreadsType
<1>2. RegistriesAgree' /\ PromptedStaysBound' /\ SlotsMatchPrompts'
  BY DEF HandlerType, StoreType, WorkType, RegistriesAgree,
     PromptedStaysBound, SlotsMatchPrompts, HandlerOK
<1>3. LogHoldsStream' /\ ThreadMapsAgree' /\ OnlyKnown'
  BY DEF HandlerType, StoreType, WorkType, EventsType,
     ThreadsType, LogHoldsStream, ThreadMapsAgree, OnlyKnown, TasksOK, PromptedStaysBound
<1>4. TasksOK' /\ HandlerOK'
  BY DEF HandlerType, StoreType, WorkType, ThreadsType, OnlyKnown, TasksOK, HandlerOK
<1> QED BY <1>1, <1>2, <1>3, <1>4

(* After its await, a close removes a session no prompt took meanwhile. *)
LEMMA SessionClosedKeeps ==
    ASSUME Inv, SessionClosed
    PROVE  Inv'
<1> USE BoundsAssumption, NoneAssumption DEF Inv, TypeOK, SessionClosed, Forget
<1>1. HandlerType'
  BY DEF HandlerType
<1>2. StoreType' /\ WorkType'
  BY DEF StoreType, WorkType
<1>3. EventsType' /\ ThreadsType'
  BY DEF HandlerType, StoreType, WorkType, EventsType, ThreadsType
<1>4. RegistriesAgree' /\ PromptedStaysBound'
  BY DEF HandlerType, StoreType, WorkType, RegistriesAgree, PromptedStaysBound, HandlerOK
<1>5. SlotsMatchPrompts'
  BY DEF HandlerType, StoreType, WorkType, SlotsMatchPrompts
<1>6. LogHoldsStream' /\ ThreadMapsAgree'
  BY DEF HandlerType, StoreType, WorkType, EventsType, ThreadsType, LogHoldsStream,
     ThreadMapsAgree, OnlyKnown
<1>7. OnlyKnown'
  BY DEF HandlerType, StoreType, WorkType, EventsType, ThreadsType, OnlyKnown, TasksOK
<1>8. TasksOK' /\ HandlerOK'
  BY DEF HandlerType, StoreType, WorkType, OnlyKnown, TasksOK, HandlerOK, ThreadsType
<1> QED BY <1>1, <1>2, <1>3, <1>4, <1>5, <1>6, <1>7, <1>8

(* The same for the removal of a participant, before its await... *)
LEMMA RemoveThreadParticipantKeeps ==
    ASSUME Inv, NEW t \in Threads, NEW s \in Sessions, RemoveThreadParticipant(t, s)
    PROVE  Inv'
<1> USE BoundsAssumption, NoneAssumption DEF Inv, TypeOK, RemoveThreadParticipant
<1>1. TypeOK'
  BY DEF HandlerType, StoreType, WorkType, EventsType, ThreadsType
<1>2. RegistriesAgree' /\ PromptedStaysBound' /\ SlotsMatchPrompts'
  <2>1. RegistriesAgree' /\ PromptedStaysBound'
    BY DEF HandlerType, StoreType, RegistriesAgree, PromptedStaysBound, HandlerOK
  <2>2. SlotsMatchPrompts'
    BY DEF HandlerType, WorkType, SlotsMatchPrompts
  <2> QED BY <2>1, <2>2
<1>3. LogHoldsStream' /\ ThreadMapsAgree' /\ OnlyKnown'
  <2>1. LogHoldsStream'
    BY DEF StoreType, EventsType, LogHoldsStream
  <2>2. ThreadMapsAgree'
    BY DEF StoreType, ThreadsType, ThreadMapsAgree
  <2>3. OnlyKnown'
    BY DEF HandlerType, StoreType, EventsType, ThreadsType, OnlyKnown
  <2> QED BY <2>1, <2>2, <2>3
<1>4. TasksOK' /\ HandlerOK'
  BY DEF HandlerType, StoreType, WorkType, ThreadsType, OnlyKnown, TasksOK, HandlerOK
<1> QED BY <1>1, <1>2, <1>3, <1>4

(* ... and after it. *)
LEMMA ThreadParticipantRemovedKeeps ==
    ASSUME Inv, ThreadParticipantRemoved
    PROVE  Inv'
<1> USE BoundsAssumption, NoneAssumption DEF Inv, TypeOK, ThreadParticipantRemoved,
     Forget, ThreadEvents
<1>1. TypeOK'
  BY SMTT(30) DEF HandlerType, StoreType, WorkType, EventsType, ThreadsType, HandlerOK
<1>2. RegistriesAgree' /\ PromptedStaysBound' /\ SlotsMatchPrompts'
  BY DEF HandlerType, StoreType, WorkType, RegistriesAgree,
     PromptedStaysBound, SlotsMatchPrompts, HandlerOK
<1>3. LogHoldsStream' /\ ThreadMapsAgree' /\ OnlyKnown'
  BY DEF HandlerType, StoreType, WorkType, EventsType,
     ThreadsType, LogHoldsStream, ThreadMapsAgree, OnlyKnown, TasksOK, PromptedStaysBound
<1>4. TasksOK' /\ HandlerOK'
  BY DEF HandlerType, StoreType, WorkType, ThreadsType, OnlyKnown, TasksOK, HandlerOK
<1> QED BY <1>1, <1>2, <1>3, <1>4

(* close_thread forgets the thread and its bindings, no participant being busy, *)
LEMMA CloseThreadKeeps ==
    ASSUME Inv, NEW t \in Threads, CloseThread(t)
    PROVE  Inv'
<1> USE BoundsAssumption, NoneAssumption DEF Inv, TypeOK, CloseThread
<1>1. TypeOK'
  BY DEF HandlerType, StoreType, WorkType, EventsType, ThreadsType
<1>2. RegistriesAgree' /\ PromptedStaysBound' /\ SlotsMatchPrompts'
  BY DEF HandlerType, StoreType, WorkType, RegistriesAgree,
     PromptedStaysBound, SlotsMatchPrompts, HandlerOK
<1>3. LogHoldsStream' /\ ThreadMapsAgree' /\ OnlyKnown'
  BY SMTT(30) DEF HandlerType, StoreType, WorkType, EventsType,
     ThreadsType, LogHoldsStream, ThreadMapsAgree, OnlyKnown, TasksOK, PromptedStaysBound
<1>4. TasksOK' /\ HandlerOK'
  BY DEF HandlerType, StoreType, WorkType, ThreadsType, OnlyKnown, TasksOK, HandlerOK
<1> QED BY <1>1, <1>2, <1>3, <1>4

(* closes one participant after the other, *)
LEMMA ThreadSessionClosedKeeps ==
    ASSUME Inv, NEW s \in Sessions, ThreadSessionClosed(s)
    PROVE  Inv'
<1> USE BoundsAssumption, NoneAssumption DEF Inv, TypeOK, ThreadSessionClosed, Forget
<1>1. TypeOK'
  BY DEF HandlerType, StoreType, WorkType, EventsType, ThreadsType
<1>2. RegistriesAgree' /\ PromptedStaysBound' /\ SlotsMatchPrompts'
  BY DEF HandlerType, StoreType, WorkType, RegistriesAgree,
     PromptedStaysBound, SlotsMatchPrompts, HandlerOK
<1>3. LogHoldsStream' /\ ThreadMapsAgree' /\ OnlyKnown'
  BY SMTT(30) DEF HandlerType, StoreType, WorkType, EventsType,
     ThreadsType, LogHoldsStream, ThreadMapsAgree, OnlyKnown, TasksOK, PromptedStaysBound
<1>4. TasksOK' /\ HandlerOK'
  BY DEF HandlerType, StoreType, WorkType, ThreadsType, OnlyKnown, TasksOK, HandlerOK
<1> QED BY <1>1, <1>2, <1>3, <1>4

(* and reports when none is left. *)
LEMMA ThreadClosedKeeps ==
    ASSUME Inv, ThreadClosed
    PROVE  Inv'
<1> USE BoundsAssumption, NoneAssumption DEF Inv, TypeOK, ThreadClosed
<1>1. HandlerType'
  BY DEF HandlerType
<1>2. StoreType' /\ WorkType'
  BY DEF StoreType, WorkType
<1>3. EventsType' /\ ThreadsType'
  BY DEF HandlerType, StoreType, WorkType, EventsType, ThreadsType
<1>4. RegistriesAgree' /\ PromptedStaysBound'
  BY DEF HandlerType, StoreType, WorkType, RegistriesAgree, PromptedStaysBound, HandlerOK
<1>5. SlotsMatchPrompts'
  BY DEF HandlerType, StoreType, WorkType, SlotsMatchPrompts
<1>6. LogHoldsStream' /\ ThreadMapsAgree'
  BY DEF HandlerType, StoreType, WorkType, EventsType, ThreadsType, LogHoldsStream,
     ThreadMapsAgree, OnlyKnown
<1>7. OnlyKnown'
  BY DEF HandlerType, StoreType, WorkType, EventsType, ThreadsType, OnlyKnown, TasksOK
<1>8. TasksOK' /\ HandlerOK'
  BY DEF HandlerType, StoreType, WorkType, OnlyKnown, TasksOK, HandlerOK, ThreadsType
<1> QED BY <1>1, <1>2, <1>3, <1>4, <1>5, <1>6, <1>7, <1>8

(* The shutdown waits for one agent after the other, *)
LEMMA ShutdownCancelledKeeps ==
    ASSUME Inv, NEW s \in Sessions, ShutdownCancelled(s)
    PROVE  Inv'
<1> USE BoundsAssumption, NoneAssumption DEF Inv, TypeOK, ShutdownCancelled
<1>1. TypeOK'
  <2>1. HandlerType'
    BY DEF HandlerType
  <2> QED BY <2>1 DEF StoreType, WorkType, EventsType, ThreadsType
<1>2. RegistriesAgree' /\ PromptedStaysBound' /\ SlotsMatchPrompts'
  BY DEF HandlerType, StoreType, WorkType, RegistriesAgree,
     PromptedStaysBound, SlotsMatchPrompts, HandlerOK
<1>3. LogHoldsStream' /\ ThreadMapsAgree' /\ OnlyKnown'
  BY DEF HandlerType, StoreType, WorkType, EventsType,
     ThreadsType, LogHoldsStream, ThreadMapsAgree, OnlyKnown, TasksOK, PromptedStaysBound
<1>4. TasksOK' /\ HandlerOK'
  BY DEF HandlerType, StoreType, WorkType, ThreadsType, OnlyKnown, TasksOK, HandlerOK
<1> QED BY <1>1, <1>2, <1>3, <1>4

(* frees every slot, *)
LEMMA ShutdownClearsSlotsKeeps ==
    ASSUME Inv, ShutdownClearsSlots
    PROVE  Inv'
<1> USE BoundsAssumption, NoneAssumption DEF Inv, TypeOK, ShutdownClearsSlots
<1>1. HandlerType'
  BY EmptyTargets DEF HandlerType, StoreType
<1>2. StoreType' /\ WorkType' /\ EventsType' /\ ThreadsType'
  BY DEF StoreType, WorkType, EventsType, ThreadsType
<1>3. RegistriesAgree' /\ PromptedStaysBound'
  BY DEF RegistriesAgree, PromptedStaysBound
<1>4. SlotsMatchPrompts' /\ LogHoldsStream' /\ ThreadMapsAgree'
  BY DEF SlotsMatchPrompts, LogHoldsStream, ThreadMapsAgree
<1>5. OnlyKnown' /\ TasksOK' /\ HandlerOK'
  BY EmptyTargets DEF OnlyKnown, TasksOK, HandlerOK, RegistriesAgree, StoreType
<1> QED BY <1>1, <1>2, <1>3, <1>4, <1>5

(* drops one transcript after the other, *)
LEMMA ShutdownSessionKeeps ==
    ASSUME Inv, NEW s \in Sessions, ShutdownSession(s)
    PROVE  Inv'
<1> USE BoundsAssumption, NoneAssumption DEF Inv, TypeOK, ShutdownSession
<1>1. TypeOK'
  BY DEF HandlerType, StoreType, WorkType, EventsType, ThreadsType
<1>2. RegistriesAgree' /\ PromptedStaysBound' /\ SlotsMatchPrompts'
  BY DEF HandlerType, StoreType, WorkType, RegistriesAgree,
     PromptedStaysBound, SlotsMatchPrompts, HandlerOK
<1>3. LogHoldsStream' /\ ThreadMapsAgree' /\ OnlyKnown'
  BY DEF HandlerType, StoreType, WorkType, EventsType,
     ThreadsType, LogHoldsStream, ThreadMapsAgree, OnlyKnown, TasksOK, PromptedStaysBound
<1>4. TasksOK' /\ HandlerOK'
  BY DEF HandlerType, StoreType, WorkType, ThreadsType, OnlyKnown, TasksOK, HandlerOK
<1> QED BY <1>1, <1>2, <1>3, <1>4

(* and forgets its sessions. *)
LEMMA ShutdownEndsKeeps ==
    ASSUME Inv, ShutdownEnds
    PROVE  Inv'
<1> USE BoundsAssumption, NoneAssumption DEF Inv, TypeOK, ShutdownEnds
<1>1. HandlerType'
  BY EmptyTargets DEF HandlerType
<1>2. StoreType' /\ WorkType' /\ EventsType' /\ ThreadsType'
  BY DEF StoreType, WorkType, EventsType, ThreadsType
<1>3. RegistriesAgree' /\ PromptedStaysBound'
  BY DEF RegistriesAgree, PromptedStaysBound, HandlerOK
<1>4. SlotsMatchPrompts' /\ LogHoldsStream' /\ ThreadMapsAgree'
  BY DEF SlotsMatchPrompts, LogHoldsStream, ThreadMapsAgree
<1>5. OnlyKnown' /\ TasksOK' /\ HandlerOK'
  BY EmptyTargets DEF OnlyKnown, TasksOK, HandlerOK, StoreType
<1> QED BY <1>1, <1>2, <1>3, <1>4, <1>5

(* An update comes from a task that is used. *)
LEMMA AgentUpdateKeeps ==
    ASSUME Inv, NEW p \in Turns, AgentUpdate(p)
    PROVE  Inv'
<1> USE BoundsAssumption, NoneAssumption DEF Inv, TypeOK, AgentUpdate, Yielded
<1>1. TypeOK'
  <2>1. HandlerType'
    BY DEF HandlerType
  <2> QED BY <2>1 DEF StoreType, WorkType, EventsType, ThreadsType
<1>2. RegistriesAgree' /\ PromptedStaysBound' /\ SlotsMatchPrompts'
  BY DEF HandlerType, StoreType, WorkType, RegistriesAgree,
     PromptedStaysBound, SlotsMatchPrompts, HandlerOK
<1>3. LogHoldsStream' /\ ThreadMapsAgree' /\ OnlyKnown'
  BY DEF HandlerType, StoreType, WorkType, EventsType,
     ThreadsType, LogHoldsStream, ThreadMapsAgree, OnlyKnown, TasksOK, PromptedStaysBound
<1>4. TasksOK' /\ HandlerOK'
  BY SMTT(30) DEF HandlerType, StoreType, WorkType, ThreadsType, OnlyKnown, TasksOK, HandlerOK
<1> QED BY <1>1, <1>2, <1>3, <1>4

(* A crash changes nothing but the agent. *)
LEMMA AgentCrashKeeps ==
    ASSUME Inv, AgentCrash
    PROVE  Inv'
<1> USE BoundsAssumption, NoneAssumption DEF Inv, TypeOK, AgentCrash, Yielded
<1>1. TypeOK'
  BY DEF HandlerType, StoreType, WorkType, EventsType, ThreadsType
<1>2. RegistriesAgree' /\ PromptedStaysBound' /\ SlotsMatchPrompts'
  BY DEF HandlerType, StoreType, WorkType, RegistriesAgree,
     PromptedStaysBound, SlotsMatchPrompts, HandlerOK
<1>3. LogHoldsStream' /\ ThreadMapsAgree' /\ OnlyKnown'
  BY DEF HandlerType, StoreType, WorkType, EventsType,
     ThreadsType, LogHoldsStream, ThreadMapsAgree, OnlyKnown, TasksOK, PromptedStaysBound
<1>4. TasksOK' /\ HandlerOK'
  BY DEF HandlerType, StoreType, WorkType, ThreadsType, OnlyKnown, TasksOK, HandlerOK
<1> QED BY <1>1, <1>2, <1>3, <1>4

(* An update is read: its turn was used, so it has a session that was       *)
(* handed out; the session's log and its stream grow together.              *)
LEMMA ConsumeUpdateKeeps ==
    ASSUME Inv, ConsumeUpdate
    PROVE  Inv'
<1> USE BoundsAssumption, NoneAssumption DEF Inv, TypeOK
<1>1. outbox \in Seq(Turns) /\ outbox # << >> /\ outbox' = Tail(outbox)
      /\ UNCHANGED <<handler, store, chat, work, alive, updates, skills>>
  BY DEF ConsumeUpdate, WorkType
<1>2. PICK p \in Turns : p = Head(outbox)
  BY <1>1, HeadTail
<1>3. PICK s \in Sessions : s = task[p].session /\ s \in known
  BY <1>1, <1>2 DEF TasksOK, WorkType, StoreType
<1>4. WorkType' /\ StoreType' /\ HandlerType' /\ ThreadsType'
  BY <1>1, HeadTail DEF WorkType, StoreType, HandlerType, ThreadsType
<1>5. \/ UNCHANGED <<log, sent, notes>>
      \/ Journal(s) /\ UNCHANGED notes
      \/ /\ Journal(s) /\ home[s] # None
         /\ Label(p, home[s], message[s], 1) /\ UNCHANGED <<message, minted>>
      \/ /\ Journal(s) /\ home[s] # None
         /\ minted' = minted + 1 /\ message' = [message EXCEPT ![s] = minted + 1]
         /\ Label(p, home[s], minted + 1, 1)
  BY <1>2, <1>3 DEF ConsumeUpdate
<1>6. EventsType'
  <2>1. (UNCHANGED <<log, sent>> \/ Journal(s)) => log' \in [Sessions -> Nat] /\ sent' \in [Sessions -> Nat]
    BY JournalTypes DEF EventsType
  <2>2. home[s] # None => home[s] \in Threads
    BY DEF ThreadsType
  <2>3. message[s] \in Nat /\ minted + 1 \in Nat /\ 1 \in Nat
    BY DEF EventsType
  <2>4. CASE Label(p, home[s], message[s], 1) /\ home[s] # None /\ Journal(s) /\ UNCHANGED <<message, minted>>
    BY <2>1, <2>2, <2>3, <2>4, LabelTypes DEF EventsType
  <2>5. CASE /\ Label(p, home[s], minted + 1, 1) /\ home[s] # None /\ Journal(s)
             /\ minted' = minted + 1 /\ message' = [message EXCEPT ![s] = minted + 1]
    BY <2>1, <2>2, <2>3, <2>5, LabelTypes DEF EventsType
  <2>6. CASE UNCHANGED notes /\ (UNCHANGED <<log, sent>> \/ Journal(s))
    BY <2>1, <2>6 DEF EventsType
  <2> QED BY <1>5, <2>4, <2>5, <2>6
<1>7. LogHoldsStream' /\ \A r \in Sessions \ known : log'[r] = 0 /\ sent'[r] = 0
  <2>1. CASE UNCHANGED <<log, sent>>
    BY <2>1, <1>1 DEF LogHoldsStream, OnlyKnown
  <2>2. CASE Journal(s)
    <3>1. /\ log'[s] = sent'[s]
          /\ \A r \in Sessions \ {s} : log'[r] = log[r] /\ sent'[r] = sent[r]
      BY <2>2, JournalTypes
    <3> QED BY <3>1, <1>1, <1>3 DEF LogHoldsStream, OnlyKnown, StoreType
  <2> QED BY <1>5, <2>1, <2>2
<1>8. RegistriesAgree' /\ PromptedStaysBound' /\ SlotsMatchPrompts' /\ ThreadMapsAgree'
  BY <1>1 DEF RegistriesAgree, PromptedStaysBound, SlotsMatchPrompts, ThreadMapsAgree
<1>9. OnlyKnown' /\ HandlerOK'
  BY <1>1, <1>7 DEF OnlyKnown, HandlerOK
<1>10. TasksOK'
  BY <1>1 DEF TasksOK, WorkType
<1> QED BY <1>4, <1>6, <1>7, <1>8, <1>9, <1>10

(* An answered prompt ends its turn and frees its own slot. *)
LEMMA PromptAnsweredKeeps ==
    ASSUME Inv, NEW p \in Turns, PromptAnswered(p)
    PROVE  Inv'
<1> USE BoundsAssumption, NoneAssumption DEF Inv, TypeOK, PromptAnswered, Yielded
<1>1. HandlerType'
  BY DEF HandlerType
<1>2. StoreType' /\ WorkType'
  BY DEF StoreType, WorkType
<1>3. EventsType' /\ ThreadsType'
  BY DEF HandlerType, StoreType, WorkType, EventsType, ThreadsType
<1>4. RegistriesAgree' /\ PromptedStaysBound'
  BY DEF HandlerType, StoreType, WorkType, RegistriesAgree, PromptedStaysBound, HandlerOK
<1>5. SlotsMatchPrompts'
  BY DEF HandlerType, StoreType, WorkType, SlotsMatchPrompts
<1>6. LogHoldsStream' /\ ThreadMapsAgree'
  BY DEF HandlerType, StoreType, WorkType, EventsType, ThreadsType, LogHoldsStream,
     ThreadMapsAgree, OnlyKnown
<1>7. OnlyKnown'
  BY DEF HandlerType, StoreType, WorkType, EventsType, ThreadsType, OnlyKnown, TasksOK
<1>8. TasksOK' /\ HandlerOK'
  BY SMTT(30) DEF HandlerType, StoreType, WorkType, OnlyKnown, TasksOK, HandlerOK, ThreadsType
<1> QED BY <1>1, <1>2, <1>3, <1>4, <1>5, <1>6, <1>7, <1>8

(* The end of a turn may come when its session is gone. *)
LEMMA TurnEndKeeps ==
    ASSUME Inv, NEW p \in Turns, TurnEnd(p)
    PROVE  Inv'
<1> USE BoundsAssumption, NoneAssumption DEF Inv, TypeOK
<1>1. PICK s \in Sessions : s = task[p].session /\ s \in known
  BY DEF TurnEnd, TasksOK, WorkType, StoreType
<1>2. Journal(s) /\ (UNCHANGED notes \/ Finalize(p, s, 2))
  BY <1>1 DEF TurnEnd
<1>3. EventsType'
  BY <1>2, JournalTypes, FinalizeTypes DEF EventsType
<1>4. HandlerType' /\ StoreType' /\ WorkType' /\ ThreadsType'
  <2>1. WorkType'
    BY DEF TurnEnd, WorkType
  <2> QED BY <2>1 DEF TurnEnd, HandlerType, StoreType, ThreadsType
<1>5. RegistriesAgree' /\ PromptedStaysBound'
  BY DEF TurnEnd, RegistriesAgree, PromptedStaysBound
<1>6. SlotsMatchPrompts'
  BY DEF TurnEnd, SlotsMatchPrompts, WorkType
<1>7. /\ log'[s] = sent'[s]
      /\ \A r \in Sessions \ {s} : log'[r] = log[r] /\ sent'[r] = sent[r]
  BY <1>2, JournalTypes
<1>8. LogHoldsStream' /\ ThreadMapsAgree' /\ OnlyKnown'
  <2>1. UNCHANGED <<handler, store, chat, skills>>
    BY DEF TurnEnd
  <2>2. LogHoldsStream'
    BY <2>1, <1>7 DEF LogHoldsStream, StoreType
  <2>3. ThreadMapsAgree'
    BY <2>1 DEF ThreadMapsAgree
  <2>4. \A r \in Sessions \ known' : log'[r] = 0 /\ sent'[r] = 0
    BY <2>1, <1>1, <1>7 DEF OnlyKnown
  <2>5. OnlyKnown'
    BY <2>1, <2>4 DEF OnlyKnown
  <2> QED BY <2>2, <2>3, <2>5
<1>9. TasksOK' /\ HandlerOK'
  BY DEF TurnEnd, TasksOK, HandlerOK, WorkType
<1> QED BY <1>3, <1>4, <1>5, <1>6, <1>8, <1>9

(* So does a failed one. *)
LEMMA PromptFailsKeeps ==
    ASSUME Inv, NEW p \in Turns, PromptFails(p)
    PROVE  Inv'
<1> USE BoundsAssumption, NoneAssumption DEF Inv, TypeOK
<1>1. PICK s \in Sessions : s = task[p].session /\ s \in known
  BY DEF PromptFails, TasksOK, WorkType, StoreType
<1>2. Journal(s) /\ Finalize(p, s, 1)
  BY <1>1 DEF PromptFails
<1>3. EventsType'
  BY <1>2, JournalTypes, FinalizeTypes DEF EventsType
<1>4. HandlerType' /\ StoreType' /\ WorkType' /\ ThreadsType'
  <2>1. WorkType'
    BY DEF PromptFails, WorkType
  <2> QED BY <2>1 DEF PromptFails, HandlerType, StoreType, ThreadsType
<1>5. RegistriesAgree' /\ PromptedStaysBound'
  BY DEF PromptFails, RegistriesAgree, PromptedStaysBound
<1>6. SlotsMatchPrompts'
  BY DEF PromptFails, SlotsMatchPrompts, WorkType
<1>7. /\ log'[s] = sent'[s]
      /\ \A r \in Sessions \ {s} : log'[r] = log[r] /\ sent'[r] = sent[r]
  BY <1>2, JournalTypes
<1>8. LogHoldsStream' /\ ThreadMapsAgree' /\ OnlyKnown'
  <2>1. UNCHANGED <<handler, store, chat, skills>>
    BY DEF PromptFails
  <2>2. LogHoldsStream'
    BY <2>1, <1>7 DEF LogHoldsStream, StoreType
  <2>3. ThreadMapsAgree'
    BY <2>1 DEF ThreadMapsAgree
  <2>4. \A r \in Sessions \ known' : log'[r] = 0 /\ sent'[r] = 0
    BY <2>1, <1>1, <1>7 DEF OnlyKnown
  <2>5. OnlyKnown'
    BY <2>1, <2>4 DEF OnlyKnown
  <2> QED BY <2>2, <2>3, <2>5
<1>9. TasksOK' /\ HandlerOK'
  BY DEF PromptFails, TasksOK, HandlerOK, WorkType
<1> QED BY <1>3, <1>4, <1>5, <1>6, <1>8, <1>9

(* A distillation reports under an id that was handed out, with no slot of its own, *)
LEMMA DistillSessionKeeps ==
    ASSUME Inv, NEW s \in Sessions, DistillSession(s)
    PROVE  Inv'
<1> USE BoundsAssumption, NoneAssumption DEF Inv, TypeOK, DistillSession
<1>1. HandlerType' /\ WorkType' /\ ThreadsType'
  BY DEF HandlerType, WorkType, ThreadsType
<1>2. StoreType'
  BY DEF StoreType
<1>3. EventsType'
  BY JournalTypes DEF EventsType
<1>4. RegistriesAgree' /\ PromptedStaysBound' /\ SlotsMatchPrompts'
  BY DEF RegistriesAgree, PromptedStaysBound, SlotsMatchPrompts
<1>5. LogHoldsStream' /\ ThreadMapsAgree' /\ OnlyKnown'
  BY DEF Journal, HandlerType, StoreType, EventsType, ThreadsType, LogHoldsStream,
     ThreadMapsAgree, OnlyKnown
<1>6. TasksOK' /\ HandlerOK'
  BY DEF TasksOK, HandlerOK
<1> QED BY <1>1, <1>2, <1>3, <1>4, <1>5, <1>6

(* and again when it ends. *)
LEMMA DistillEndsKeeps ==
    ASSUME Inv, NEW s \in Sessions, DistillEnds(s)
    PROVE  Inv'
<1> USE BoundsAssumption, NoneAssumption DEF Inv, TypeOK, DistillEnds
<1>1. HandlerType' /\ WorkType' /\ ThreadsType'
  BY DEF HandlerType, WorkType, ThreadsType
<1>2. StoreType'
  BY DEF StoreType
<1>3. EventsType'
  BY JournalTypes DEF EventsType
<1>4. RegistriesAgree' /\ PromptedStaysBound' /\ SlotsMatchPrompts'
  BY DEF RegistriesAgree, PromptedStaysBound, SlotsMatchPrompts
<1>5. LogHoldsStream' /\ ThreadMapsAgree' /\ OnlyKnown'
  BY DEF Journal, HandlerType, StoreType, EventsType, ThreadsType, LogHoldsStream,
     ThreadMapsAgree, OnlyKnown
<1>6. TasksOK' /\ HandlerOK'
  BY DEF TasksOK, HandlerOK
<1> QED BY <1>1, <1>2, <1>3, <1>4, <1>5, <1>6

(* The invariant holds of a server that has just started. *)
LEMMA InvInit == Init => Inv
<1> SUFFICES ASSUME Init PROVE Inv
  OBVIOUS
<1> USE BoundsAssumption, NoneAssumption, EmptyTargets DEF Init
<1>1. TypeOK
  BY DEF TypeOK, HandlerType, StoreType, WorkType, EventsType, ThreadsType
<1>2. RegistriesAgree /\ SlotsMatchPrompts /\ PromptedStaysBound /\ LogHoldsStream /\ ThreadMapsAgree
  BY DEF RegistriesAgree, SlotsMatchPrompts, PromptedStaysBound, LogHoldsStream,
     ThreadMapsAgree
<1>3. OnlyKnown /\ TasksOK /\ HandlerOK
  BY DEF OnlyKnown, TasksOK, HandlerOK
<1> QED BY <1>1, <1>2, <1>3 DEF Inv

(* It is inductive: one case for each action. *)
LEMMA InvNext == Inv /\ [Next]_vars => Inv'
<1> SUFFICES ASSUME Inv, [Next]_vars PROVE Inv'
  OBVIOUS
<1>1. CASE \/ CreateSession \/ ShutdownBegins
           \/ \E s \in Sessions : Cancel(s)
           \/ \E t \in Threads : AddThreadParticipant(t)
           \/ \E t \in Threads, s \in Sessions : SetThreadParticipantConfiguration(t, s)
  BY <1>1, RequestKeeps
<1>2. CASE \E t \in Threads : CreateThread(t)
  BY <1>2, CreateThreadKeeps
<1>3. CASE AskedInVain \/ ThreadParticipantConfigured
  BY <1>3, AskedInVainKeeps, ThreadParticipantConfiguredKeeps
<1>4. CASE \E s \in Sessions :
             SessionCreated(s) \/ ThreadParticipantAdded(s) \/ ShutdownCancelled(s)
  BY <1>4, SessionCreatedKeeps, ThreadParticipantAddedKeeps, ShutdownCancelledKeeps
<1>5. CASE \E s \in Sessions : Prompt(s)
  BY <1>5, PromptKeeps
<1>6. CASE \E t \in Threads : SendThreadMessage(t)
  BY <1>6, SendThreadMessageKeeps
<1>7. CASE PromptNextTarget
  BY <1>7, PromptNextTargetKeeps
<1>8. CASE SpawnPrompt
  BY <1>8, SpawnPromptKeeps
<1>9. CASE \E s \in Sessions : CloseRefused(s)
  BY <1>9, CloseRefusedKeeps
<1>10. CASE \E s \in Sessions : CloseSession(s)
  BY <1>10, CloseSessionKeeps
<1>11. CASE SessionClosed
  BY <1>11, SessionClosedKeeps
<1>12. CASE \E t \in Threads, s \in Sessions : RemoveThreadParticipant(t, s)
  BY <1>12, RemoveThreadParticipantKeeps
<1>13. CASE ThreadParticipantRemoved
  BY <1>13, ThreadParticipantRemovedKeeps
<1>14. CASE \E t \in Threads : CloseThread(t)
  BY <1>14, CloseThreadKeeps
<1>15. CASE \E s \in Sessions : ThreadSessionClosed(s)
  BY <1>15, ThreadSessionClosedKeeps
<1>16. CASE ThreadClosed
  BY <1>16, ThreadClosedKeeps
<1>18. CASE ShutdownClearsSlots
  BY <1>18, ShutdownClearsSlotsKeeps
<1>19. CASE \E s \in Sessions : ShutdownSession(s)
  BY <1>19, ShutdownSessionKeeps
<1>20. CASE ShutdownEnds
  BY <1>20, ShutdownEndsKeeps
<1>21. CASE \E p \in Turns : AgentUpdate(p)
  BY <1>21, AgentUpdateKeeps
<1>22. CASE AgentCrash
  BY <1>22, AgentCrashKeeps
<1>23. CASE ConsumeUpdate
  BY <1>23, ConsumeUpdateKeeps
<1>24. CASE \E p \in Turns : PromptAnswered(p)
  BY <1>24, PromptAnsweredKeeps
<1>25. CASE \E p \in Turns : TurnEnd(p)
  BY <1>25, TurnEndKeeps
<1>26. CASE \E p \in Turns : PromptFails(p)
  BY <1>26, PromptFailsKeeps
<1>27. CASE \E s \in Sessions : DistillSession(s)
  BY <1>27, DistillSessionKeeps
<1>28. CASE \E s \in Sessions : DistillEnds(s)
  BY <1>28, DistillEndsKeeps
<1>29. CASE UNCHANGED vars
  <2> USE <1>29 DEF vars, Inv
  <2>1. TypeOK'
    BY DEF TypeOK, HandlerType, StoreType, WorkType, EventsType, ThreadsType
  <2>2. RegistriesAgree' /\ SlotsMatchPrompts' /\ PromptedStaysBound' /\ LogHoldsStream'
    BY DEF RegistriesAgree, SlotsMatchPrompts, PromptedStaysBound, LogHoldsStream
  <2>3. ThreadMapsAgree' /\ OnlyKnown' /\ TasksOK' /\ HandlerOK'
    BY DEF ThreadMapsAgree, OnlyKnown, TasksOK, HandlerOK
  <2> QED BY <2>1, <2>2, <2>3
<1> QED BY <1>1, <1>2, <1>3, <1>4, <1>5, <1>6, <1>7, <1>8, <1>9, <1>10, <1>11, <1>12,
     <1>13, <1>14, <1>15, <1>16, <1>18, <1>19, <1>20, <1>21, <1>22, <1>23, <1>24,
     <1>25, <1>26, <1>27, <1>28, <1>29
     DEF Next, ClientMessage, AgentReplies, HandlerStep, Answer

-----------------------------------------------------------------------------
(* The theorems. *)

(* Inv holds in every state of every behaviour. *)
THEOREM InvAlways == Spec => []Inv
BY InvInit, InvNext, PTL DEF Spec

(* Every variable keeps its type, and a binding is only ever that of an id  *)
(* that was handed out.                                                     *)
THEOREM TypesHold == Spec => []TypeOK
<1>1. Inv => TypeOK
  BY DEF Inv
<1> QED BY <1>1, InvAlways, PTL

(* The registries of AppProtocolSession name the same live sessions, at     *)
(* every await and whichever way a session is closed.                       *)
THEOREM Registries == Spec => []RegistriesAgree
<1>1. Inv => RegistriesAgree
  BY DEF Inv
<1> QED BY <1>1, InvAlways, PTL

(* A session has at most one prompt out, and its slot says so: the check    *)
(* before the await for the skills is enough, however many clients send.    *)
THEOREM Slots == Spec => []SlotsMatchPrompts
<1>1. Inv => SlotsMatchPrompts
  BY DEF Inv
<1> QED BY <1>1, InvAlways, PTL

(* No session is forgotten under a prompt. *)
THEOREM Prompted == Spec => []PromptedStaysBound
<1>1. Inv => PromptedStaysBound
  BY DEF Inv
<1> QED BY <1>1, InvAlways, PTL

(* The log of a live session is never behind what clients were sent. *)
THEOREM LogComplete == Spec => []LogHoldsStream
<1>1. Inv => LogHoldsStream
  BY DEF Inv
<1> QED BY <1>1, InvAlways, PTL

(* The two maps of ThreadStore agree. *)
THEOREM ThreadMaps == Spec => []ThreadMapsAgree
<1>1. Inv => ThreadMapsAgree
  BY DEF Inv
<1> QED BY <1>1, InvAlways, PTL

(* A thread event is only ever added to a thread that is live: through the  *)
(* binding of a participant, or by a handler that has just looked it up.    *)
LEMMA SilentStep ==
    ASSUME Inv, [Next]_vars, NEW t \in Threads, t \notin threads
    PROVE  tlog'[t] <= tlog[t]
<1> USE BoundsAssumption, NoneAssumption DEF Inv, TypeOK
<1>0. tlog \in [Threads -> Nat] /\ tlog[t] <= tlog[t] /\ 0 <= tlog[t]
  BY DEF EventsType
<1>1. ASSUME NEW r \in Threads, NEW n \in Nat, ThreadEvents(r, n), r \in threads
      PROVE  tlog'[t] = tlog[t]
  BY <1>0, <1>1 DEF ThreadEvents
<1>2. \A s \in Sessions : home[s] # None => home[s] \in Threads /\ home[s] \in threads
  BY DEF ThreadMapsAgree, ThreadsType
<1>3. CASE UNCHANGED tlog
  BY <1>0, <1>3
<1>4. CASE \E r \in Threads : r \in threads /\ (ThreadEvents(r, 1) \/ ThreadEvents(r, 2))
  BY <1>0, <1>1, <1>4
<1>5. CASE ThreadClosed
  BY <1>0, <1>5 DEF ThreadClosed, HandlerOK
<1>6. ASSUME NEW p \in Turns, NEW s \in Sessions, NEW n \in {1, 2}, Finalize(p, s, n)
      PROVE  UNCHANGED tlog \/ \E r \in Threads : r \in threads /\ ThreadEvents(r, n)
  BY <1>2, <1>6 DEF Finalize, Label, Unlabelled
<1>7. CASE \E p \in Turns : TurnEnd(p) \/ PromptFails(p)
  <2>1. PICK p \in Turns : TurnEnd(p) \/ PromptFails(p)
    BY <1>7
  <2>2. task[p].session \in Sessions
    BY <2>1 DEF TurnEnd, PromptFails, TasksOK, StoreType, WorkType
  <2>3. UNCHANGED tlog \/ Finalize(p, task[p].session, 2) \/ Finalize(p, task[p].session, 1)
    BY <2>1 DEF TurnEnd, PromptFails
  <2> QED BY <2>2, <2>3, <1>3, <1>4, <1>6
<1>8. CASE ConsumeUpdate
  <2>1. Head(outbox) \in Turns
    BY <1>8, HeadTail DEF ConsumeUpdate, WorkType
  <2>2. UNCHANGED tlog \/ (home[task[Head(outbox)].session] # None
                          /\ ThreadEvents(home[task[Head(outbox)].session], 1))
    BY <1>8 DEF ConsumeUpdate, Label
  <2>3. task[Head(outbox)].session \in Sessions
    BY <1>8, <2>1 DEF ConsumeUpdate, TasksOK, StoreType, WorkType
  <2> QED BY <2>2, <2>3, <1>2, <1>3, <1>4
<1>9. CASE ThreadParticipantRemoved \/ ThreadParticipantConfigured
  BY <1>4, <1>9 DEF ThreadParticipantRemoved, ThreadParticipantConfigured, HandlerOK, ThreadsType
<1>10. CASE \E s \in Sessions : ThreadParticipantAdded(s)
  BY <1>4, <1>10 DEF ThreadParticipantAdded, HandlerOK, ThreadsType
<1>11. CASE \E r \in Threads : SendThreadMessage(r)
  BY <1>4, <1>11 DEF SendThreadMessage
<1>12. CASE \/ \E s \in Sessions : \/ SessionCreated(s) \/ Prompt(s) \/ CloseRefused(s)
                                   \/ CloseSession(s) \/ ThreadSessionClosed(s) \/ Cancel(s)
                                   \/ ShutdownSession(s) \/ DistillSession(s) \/ DistillEnds(s)
                                   \/ ShutdownCancelled(s)
            \/ \E r \in Threads : CreateThread(r) \/ CloseThread(r) \/ AddThreadParticipant(r)
            \/ \E r \in Threads, s \in Sessions :
                  RemoveThreadParticipant(r, s) \/ SetThreadParticipantConfiguration(r, s)
            \/ CreateSession \/ AskedInVain
            \/ ShutdownBegins \/ PromptNextTarget \/ SpawnPrompt \/ SessionClosed
            \/ ShutdownClearsSlots \/ ShutdownEnds \/ AgentCrash
            \/ \E p \in Turns : AgentUpdate(p) \/ PromptAnswered(p)
            \/ UNCHANGED vars
  BY <1>3, <1>12 DEF CreateSession, AskAgent, SessionCreated, Cancel, AskedInVain,
     AddThreadParticipant, SetThreadParticipantConfiguration, ShutdownCancelled, Prompt, CloseRefused, CloseSession, ThreadSessionClosed,
     ShutdownSession, DistillSession, DistillEnds, CreateThread, CloseThread,
     RemoveThreadParticipant, ShutdownBegins, PromptNextTarget, SpawnPrompt, SessionClosed,
     ShutdownClearsSlots, ShutdownEnds, AgentCrash, AgentUpdate, PromptAnswered, vars
<1> QED BY <1>5, <1>7, <1>8, <1>9, <1>10, <1>11, <1>12
     DEF Next, ClientMessage, AgentReplies, HandlerStep, Answer

(* A closed thread gets no more events, whatever was still under way for    *)
(* its participants.                                                        *)
THEOREM ClosedThreads == Spec => ClosedThreadIsSilent
<1>1. Inv /\ [Next]_vars => [\A t \in Threads : t \notin threads => tlog'[t] <= tlog[t]]_vars
  BY SilentStep
<1> QED BY <1>1, InvAlways, PTL DEF Spec, ClosedThreadIsSilent

=============================================================================
