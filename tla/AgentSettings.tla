--------------------------- MODULE AgentSettings ---------------------------
(***************************************************************************)
(* The settings (model, reasoning effort) of one ACP agent: the backend's  *)
(* remembered options and its cache of discovered models                   *)
(* (core/src/acp_client.rs), the agent list made from them                 *)
(* (core/src/agent_manager.rs), and the calls that use them                *)
(* (server/src/app.rs): the handlers that create a session, add a          *)
(* participant or change its settings, ListAgents and                      *)
(* DiscoverAgentSettings, which spawn a task, and the runs and             *)
(* distillations that open sessions of their own.  Clients' messages are   *)
(* handled one after another (ws.rs:90), the tasks run beside them.        *)
(*                                                                         *)
(* A call is interrupted where it waits for the agent.  One task reads the *)
(* agent's answers and wakes the callers in their order, so an answer and  *)
(* what its caller does up to the next await are one action.  A call opens *)
(* at most one session, which has the call's name here.  The agent exposes *)
(* an effort only for some models, and a new model resets it.              *)
(***************************************************************************)
EXTENDS Naturals, Sequences, FiniteSets

CONSTANTS Calls,         \* the calls that are made, and the sessions they open
          Models,        \* models of the agent
          EffortModels,  \* the ones that have a reasoning effort
          Efforts,       \* the values of an effort
          DefaultModel,  \* the model of a new session
          ConfigModel,   \* the model of the agent's config entry, or None
          Requested,     \* the settings that clients ask for
          None           \* an absent value

ASSUME SettingsAssumption ==
    /\ EffortModels \subseteq Models
    /\ DefaultModel \in Models
    /\ ConfigModel \in Models \cup {None}
    /\ None \notin Calls \cup Models \cup Efforts

(* AgentSessionSettings: what is asked for, and what is stored. *)
Settings == [model : Models \cup {None}, effort : Efforts \cup {None}]

ASSUME RequestedAssumption == Requested \subseteq Settings

NoSettings == [model |-> None, effort |-> None]

(* What a session exposes: each option's current value, None if not exposed. *)
Options == [model : Models \cup {None}, effort : Efforts \cup {"unset", None}]

VARIABLES alive,      \* is_alive
          closes,     \* session_close_supported
          call,       \* the calls
          open,       \* the sessions the agent holds
          options,    \* session_config_options, which is also the agent's state
          latest,     \* latest_session_id
          discovered, \* discovered_setting_sessions, by model
          stored,     \* settings of the participant of a session, None if none
          busy,       \* active_prompt_sessions
          shown,      \* the last AgentList that clients were sent
          unsure      \* history: sessions whose last change of settings failed

vars == <<alive, closes, call, open, options, latest, discovered, stored, busy,
          shown, unsure>>

(* setting_options, acp_setting_options: the descriptors of the latest session. *)
SettingOptions == IF latest = None THEN [model |-> None, effort |-> None]
                  ELSE options[latest]

(* list_agents and merge_setting_options: a configured default stays current. *)
ListAgents == [online |-> alive,
               current |-> IF ConfigModel # None THEN ConfigModel ELSE SettingOptions.model,
               efforts |-> SettingOptions.effort # None]

Idle == [pc |-> "idle", kind |-> "list", want |-> NoSettings, session |-> None,
         previous |-> None, ok |-> FALSE]

(* spawn and initialize: no session is known, the agent says what it supports. *)
Init == /\ alive = TRUE
        /\ closes \in BOOLEAN
        /\ call = [c \in Calls |-> Idle]
        /\ open = {}
        /\ options = [s \in Calls |-> [model |-> None, effort |-> None]]
        /\ latest = None
        /\ discovered = [m \in Models \cup {None} |-> None]
        /\ stored = [s \in Calls |-> None]
        /\ busy = {}
        /\ shown = None
        /\ unsure = {}

-----------------------------------------------------------------------------
(* What a call r does with an answer, up to its next await or its end. *)

IsDiscovery(r) == r.kind \in {"list", "discover"}

(* A call that is over keeps only what it was. *)
Ended(c, r) == call' = [call EXCEPT ![c] = [Idle EXCEPT !.pc = "done", !.kind = r.kind]]

(* broadcast_agent_list_if_changed, against the list before the call. *)
BroadcastIfChanged(previous) ==
    shown' = IF ListAgents' # previous THEN ListAgents' ELSE shown

(* Mutant: a discovery is remembered although its settings failed. *)
ReportCached(c, r, ok) ==
    /\ discovered' = [discovered EXCEPT ![r.want.model] = c]
    /\ BroadcastIfChanged(r.previous)
    /\ Ended(c, r)
    /\ UNCHANGED <<stored, unsure>>

(* The end of discover_settings and of its task. *)
Report(c, r, ok) ==
    /\ discovered' = IF ok THEN [discovered EXCEPT ![r.want.model] = c] ELSE discovered
    /\ BroadcastIfChanged(r.previous)
    /\ Ended(c, r)
    /\ UNCHANGED <<stored, unsure>>

(* The end of handle_create_session and handle_add_thread_participant. *)
Created(c, r, ok) ==
    /\ Ended(c, r)
    /\ IF ok /\ r.kind = "add"
       THEN /\ stored' = [stored EXCEPT ![c] = r.want]
            /\ BroadcastIfChanged(r.previous)
       ELSE UNCHANGED <<stored, shown>>
    /\ UNCHANGED <<discovered, unsure>>

(***************************************************************************)
(* The end of handle_set_thread_participant_configuration_internal, which  *)
(* stores what was asked for if everything was applied.                    *)
(***************************************************************************)
Configured(c, r, ok) ==
    /\ Ended(c, r)
    /\ IF ok THEN /\ stored' = [stored EXCEPT ![r.session] = r.want]
                  /\ unsure' = unsure \ {r.session}
                  /\ BroadcastIfChanged(r.previous)
             ELSE /\ unsure' = unsure \cup {r.session}
                  /\ UNCHANGED <<stored, shown>>
    /\ UNCHANGED discovered

(* The request r is sent, and the call waits for its answer. *)
Waits(c, r) ==
    /\ call' = [call EXCEPT ![c] = r]
    /\ UNCHANGED <<discovered, stored, shown, unsure>>

(* set_session_settings has returned: a discovery first closes its session. *)
Conclude(c, r, ok) ==
    CASE IsDiscovery(r) /\ closes -> Waits(c, [r EXCEPT !.pc = "closing", !.ok = ok])
      [] IsDiscovery(r) /\ ~closes -> Report(c, r, ok)
      [] r.kind \in {"create", "add", "other"} -> Created(c, r, ok)
      [] r.kind = "configure" -> Configured(c, r, ok)

(* Mutant: the effort is set before the model. *)
EffortFirst == <<"effort", "model">>

(* The order in which set_session_settings applies the values. *)
Categories == <<"model", "effort">>

(* The next value to be set after category k, "opening" being before both. *)
NextCategory(want, k) ==
    IF k = "opening" /\ want[Categories[1]] # None THEN Categories[1]
    ELSE IF k # Categories[2] /\ want[Categories[2]] # None THEN Categories[2]
    ELSE "end"

(***************************************************************************)
(* set_session_settings goes on: the next value is sent if its option is   *)
(* exposed by now; an option that is not exposed is an error.              *)
(***************************************************************************)
Proceed(c, r, next) ==
    CASE next = "end" -> Conclude(c, r, TRUE)
      [] next # "end" /\ options'[r.session][next] # None ->
             Waits(c, [r EXCEPT !.pc = next])
      [] next # "end" /\ options'[r.session][next] = None -> Conclude(c, r, FALSE)

-----------------------------------------------------------------------------
(* Requests of clients. *)

(* No message is being handled: the next one may be. *)
Free == \A c \in Calls : call[c].kind \in {"create", "add", "configure"}
                         => call[c].pc = "done"

(* handle_list_agents: the list as it is, and a task that discovers defaults. *)
HandleListAgents(c) ==
    /\ Free
    /\ call[c].pc = "idle"
    /\ shown' = ListAgents
    /\ call' = [call EXCEPT ![c] = [Idle EXCEPT !.pc = "spawned"]]
    /\ UNCHANGED <<alive, closes, open, options, latest, discovered, stored, busy, unsure>>

(* handle_discover_agent_settings: a task that discovers a model's settings. *)
HandleDiscover(c, want) ==
    /\ Free
    /\ call[c].pc = "idle"
    /\ call' = [call EXCEPT ![c] =
           [Idle EXCEPT !.pc = "spawned", !.kind = "discover", !.want = want]]
    /\ UNCHANGED <<alive, closes, open, options, latest, discovered, stored, busy, shown, unsure>>

(***************************************************************************)
(* handle_create_session and handle_add_thread_participant: refused if the *)
(* agent is not online.  A plain session is created without settings.      *)
(***************************************************************************)
HandleCreate(c, kind, want) ==
    /\ Free
    /\ call[c].pc = "idle"
    /\ alive
    /\ kind = "create" => want = NoSettings
    /\ call' = [call EXCEPT ![c] =
           [Idle EXCEPT !.pc = "opening", !.kind = kind, !.want = want, !.previous = ListAgents]]
    /\ UNCHANGED <<alive, closes, open, options, latest, discovered, stored, busy, shown, unsure>>

(* A console run's stage or a distillation opens a session without settings. *)
OpenOther(c) ==
    /\ call[c].pc = "idle"
    /\ call' = [call EXCEPT ![c] = [Idle EXCEPT !.pc = "opening", !.kind = "other"]]
    /\ UNCHANGED <<alive, closes, open, options, latest, discovered, stored, busy, shown, unsure>>

(***************************************************************************)
(* handle_set_thread_participant_settings and _configuration: refused for  *)
(* a participant that is not there or has a turn running.  The first value *)
(* is sent, or refused, at once.                                           *)
(***************************************************************************)
HandleConfigure(c, s, want) ==
    /\ Free
    /\ call[c].pc = "idle"
    /\ stored[s] # None
    /\ s \notin busy
    /\ UNCHANGED <<alive, closes, open, busy>>
    /\ options' = options
    /\ latest' = latest
    /\ Proceed(c, [Idle EXCEPT !.pc = "configure", !.kind = "configure", !.want = want,
                               !.session = s, !.previous = ListAgents],
               NextCategory(want, "opening"))

(* Refused while a turn runs; otherwise the participant is forgotten. *)
RemoveParticipant(s) ==
    /\ Free
    /\ stored[s] # None
    /\ s \notin busy
    /\ stored' = [stored EXCEPT ![s] = None]
    /\ UNCHANGED <<alive, closes, call, open, options, latest, discovered, busy, shown, unsure>>

(* A turn of a participant's session, from the prompt to its result. *)
Prompt(s) ==
    /\ Free
    /\ alive
    /\ stored[s] # None
    /\ s \notin busy
    /\ busy' = busy \cup {s}
    /\ UNCHANGED <<alive, closes, call, open, options, latest, discovered, stored, shown, unsure>>

PromptEnds(s) ==
    /\ s \in busy
    /\ busy' = busy \ {s}
    /\ UNCHANGED <<alive, closes, call, open, options, latest, discovered, stored, shown, unsure>>

-----------------------------------------------------------------------------
(* The calls, as the agent answers them. *)

(* restore_cached_session: the session of an earlier discovery is the latest. *)
RestoreCachedSession(model) ==
    /\ discovered[model] # None
    /\ latest' = discovered[model]

(***************************************************************************)
(* A discovery's task starts: it takes the list to compare with, and uses  *)
(* the session of an earlier discovery of the model if there is one.       *)
(***************************************************************************)
Discover(c) ==
    /\ call[c].pc = "spawned"
    /\ UNCHANGED <<alive, closes, open, options, discovered, stored, busy, unsure>>
    /\ \/ /\ RestoreCachedSession(call[c].want.model)
          /\ BroadcastIfChanged(ListAgents)
          /\ Ended(c, call[c])
       \/ /\ discovered[call[c].want.model] = None
          /\ call' = [call EXCEPT ![c].pc = "opening", ![c].previous = ListAgents]
          /\ UNCHANGED <<latest, shown>>

(* new_session is answered: the session's options are remembered. *)
SessionOpened(c) ==
    /\ call[c].pc = "opening"
    /\ alive
    /\ UNCHANGED <<alive, closes, busy>>
    /\ open' = open \cup {c}
    /\ \E model \in {DefaultModel, None} :
           options' = [options EXCEPT ![c] =
               [model |-> model,
                effort |-> IF model \in EffortModels THEN "unset" ELSE None]]
    /\ latest' = c
    /\ Proceed(c, [call[c] EXCEPT !.session = c], NextCategory(call[c].want, "opening"))

(* set_session_config_option is answered: the new options are remembered. *)
OptionSet(c) ==
    LET k == call[c].pc
        s == call[c].session
        value == call[c].want[k]
    IN  /\ call[c].pc \in {"model", "effort"}
        /\ alive
        /\ UNCHANGED <<alive, closes, open, busy>>
        /\ options' = [options EXCEPT ![s] =
               IF k = "effort" THEN [@ EXCEPT !.effort = value]
               ELSE [model |-> value,
                     effort |-> IF value \in EffortModels THEN "unset" ELSE None]]
        /\ latest' = s
        /\ Proceed(c, call[c], NextCategory(call[c].want, k))

(* The agent refuses a request, or is gone: a session that was not opened    *)
(* ends a discovery at once, another request's error is the settings' error. *)
Refused(c) ==
    /\ call[c].pc \in {"opening", "model", "effort"}
    /\ UNCHANGED <<alive, closes, open, busy>>
    /\ options' = options
    /\ latest' = latest
    /\ IF call[c].pc = "opening" /\ IsDiscovery(call[c]) THEN Report(c, call[c], FALSE)
       ELSE Conclude(c, call[c], FALSE)

(* close_session is answered. *)
SessionClosed(c) ==
    /\ call[c].pc = "closing"
    /\ alive
    /\ UNCHANGED <<alive, closes, busy>>
    /\ open' = open \ {c}
    /\ options' = options
    /\ latest' = latest
    /\ Report(c, call[c], call[c].ok)

(* close_session fails, which is only logged. *)
CloseRefused(c) ==
    /\ call[c].pc = "closing"
    /\ UNCHANGED <<alive, closes, open, stored, busy, unsure>>
    /\ options' = options
    /\ latest' = latest
    /\ discovered' = IF call[c].ok THEN [discovered EXCEPT ![call[c].want.model] = c]
                     ELSE discovered
    /\ BroadcastIfChanged(call[c].previous)
    /\ call' = [call EXCEPT ![c] = [Idle EXCEPT !.pc = "kept"]]

(* The agent's process ends: monitor_agent_process. *)
Crash == /\ alive
         /\ alive' = FALSE
         /\ open' = {}
         /\ busy' = {}
         /\ UNCHANGED <<closes, call, options, latest, discovered, stored, shown, unsure>>

Next == \/ \E c \in Calls :
              \/ HandleListAgents(c) \/ OpenOther(c) \/ Discover(c) \/ SessionOpened(c) \/ OptionSet(c)
              \/ Refused(c) \/ SessionClosed(c) \/ CloseRefused(c)
              \/ \E want \in Requested :
                     \/ HandleDiscover(c, want)
                     \/ \E kind \in {"create", "add"} : HandleCreate(c, kind, want)
                     \/ \E s \in Calls : HandleConfigure(c, s, want)
        \/ \E s \in Calls : RemoveParticipant(s) \/ Prompt(s) \/ PromptEnds(s)
        \/ Crash

Spec == Init /\ [][Next]_vars

-----------------------------------------------------------------------------
(* Properties. *)

(* The variables keep their types. *)
TypeOK ==
    LET Lists == [online : BOOLEAN, current : Models \cup {None}, efforts : BOOLEAN]
    IN  /\ alive \in BOOLEAN
        /\ closes \in BOOLEAN
        /\ call \in [Calls -> [pc : {"idle", "spawned", "opening", "model", "effort",
                                     "closing", "done", "kept"},
                               kind : {"list", "discover", "create", "add", "other", "configure"},
                               want : Settings, session : Calls \cup {None},
                               previous : Lists \cup {None}, ok : BOOLEAN]]
        /\ open \subseteq Calls
        /\ options \in [Calls -> Options]
        /\ latest \in Calls \cup {None}
        /\ discovered \in [Models \cup {None} -> Calls \cup {None}]
        /\ stored \in [Calls -> Settings \cup {None}]
        /\ busy \subseteq Calls
        /\ shown \in Lists \cup {None}
        /\ unsure \subseteq Calls

(***************************************************************************)
(* The session a model is remembered by shows that model's options,        *)
(* whatever failed, was refused or ran in between: discover_settings only  *)
(* remembers a session that got the model, and nobody else touches it.     *)
(***************************************************************************)
DiscoveredHasModel ==
    \A m \in Models : discovered[m] # None =>
        /\ options[discovered[m]].model = m
        /\ stored[discovered[m]] = None

(***************************************************************************)
(* The settings a participant is stored and shown with are the ones its    *)
(* session runs with, once a change of them is over and unless it failed   *)
(* half-way (set_session_settings applies the model first, because a new   *)
(* model resets the effort), whatever runs and discoveries do meanwhile.   *)
(***************************************************************************)
StoredIsInForce ==
    \A s \in Calls :
        stored[s] # None /\ s \notin unsure /\ Free =>
            \A k \in {"model", "effort"} :
                stored[s][k] # None => options[s][k] = stored[s][k]
=============================================================================
