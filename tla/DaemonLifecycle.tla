-------------------------- MODULE DaemonLifecycle --------------------------
(***************************************************************************)
(* The daemon's process from start to exit (bin/src/main.rs): the agents   *)
(* it starts and stops, the transport it serves (server/src/ws.rs or       *)
(* server/src/relay.rs), the task that waits for a signal, the terminal's  *)
(* thread and the task that answers it.  The tasks share one thread and    *)
(* are interrupted at awaits; the terminal's thread and the agents'        *)
(* processes are not.                                                      *)
(*                                                                         *)
(* Modes: "local" and "relay" serve a transport, "web" serves the console  *)
(* and the chat, "run" drives one run (RunOrchestrator has its steps).     *)
(***************************************************************************)
EXTENDS Naturals, FiniteSets

CONSTANTS Agents,       \* configured agents
          Conns,        \* client connections that are made
          None,         \* an absent value
          MaxMessages   \* messages that clients send

ASSUME LifecycleAssumption == MaxMessages \in Nat /\ Agents # {} /\ None \notin Agents \cup Conns

Modes == {"local", "relay", "web", "run"}

VARIABLES mode,       \* what the command line and the environment ask for
          qr,         \* --mobile
          main,       \* where the main task is
          todo,       \* agents that are not started yet
          starting,   \* the agent that add_agent waits for
          child,      \* the agents' processes: "absent", "running" or "gone"
          registered, \* agents of the manager
          killed,     \* agents that shutdown_all has told to end
          handler,    \* the signal task: "absent", "waiting" or "done"
          stop,       \* the value of the shutdown channel
          connected,  \* relay_connected
          session,    \* the application session: "none", "open" or "closed"
          conn,       \* connections: where the task of each one is
          seen,       \* connections whose receiver has seen the stop
          queue,      \* messages that wait for the application session
          app,        \* its task: "idle", "handling" or "closing"
          sent,       \* messages sent so far
          console,    \* the terminal's thread
          command,    \* the command it has sent
          commander,  \* the task that answers it: "ready", "rendering", "ended"
          code        \* the exit code

vars == <<mode, qr, main, todo, starting, child, registered, killed, handler, stop,
          connected, session, conn, seen, queue, app, sent, console, command,
          commander, code>>

settings == <<mode, qr>>
agents == <<todo, starting, child, registered, killed>>
transport == <<session, conn, seen, queue, app, sent>>
terminal == <<console, command, commander>>

Init == /\ mode \in Modes
        /\ qr \in BOOLEAN
        /\ main = "loading"
        /\ todo = {}
        /\ starting = None
        /\ child = [a \in Agents |-> "absent"]
        /\ registered = {}
        /\ killed = {}
        /\ handler = "absent"
        /\ stop = None
        /\ connected = FALSE
        /\ session = "none"
        /\ conn = [x \in Conns |-> "none"]
        /\ seen = {}
        /\ queue = 0
        /\ app = "idle"
        /\ sent = 0
        /\ console = "absent"
        /\ command = None
        /\ commander = "ready"
        /\ code = None

Running == main # "exited"

(* handle_connection: it waits for something to do, sends, or says goodbye. *)
Live == {"open", "sending", "leaving"}

(* The process ends: its tasks and threads go with it, its children do not. *)
Exit(status) == main' = "exited" /\ code' = status

-----------------------------------------------------------------------------
(* Start. *)

(***************************************************************************)
(* load_agent_configs: the first source there is (the environment, one of  *)
(* two files, one agent of the environment, the built-in ones) names some  *)
(* agents; none at all is an error.                                        *)
(***************************************************************************)
LoadAgentConfigs ==
    /\ main = "loading"
    /\ todo' \in (SUBSET Agents) \ {{}}
    /\ main' = "starting"
    /\ UNCHANGED <<settings, starting, child, registered, killed, handler, stop, connected,
                   transport, terminal, code>>

(* The arguments, the agents' file or another setting are not valid. *)
ConfigFails ==
    /\ main = "loading"
    /\ Exit(1)
    /\ UNCHANGED <<settings, agents, handler, stop, connected, transport, terminal>>

(* add_agent: the process is spawned and initialize is sent, or there is none. *)
AddAgent(a) ==
    /\ main = "starting" /\ starting = None
    /\ a \in todo
    /\ todo' = todo \ {a}
    /\ \/ starting' = a /\ child' = [child EXCEPT ![a] = "running"]
       \/ UNCHANGED <<starting, child>>
    /\ UNCHANGED <<settings, main, registered, killed, handler, stop, connected, transport,
                   terminal, code>>

(* initialize is answered. *)
AgentReady ==
    /\ main = "starting" /\ starting # None
    /\ child[starting] = "running"
    /\ registered' = registered \cup {starting}
    /\ starting' = None
    /\ UNCHANGED <<settings, main, todo, child, killed, handler, stop, connected, transport,
                   terminal, code>>

(***************************************************************************)
(* initialize fails, or, in a run and in the console, takes longer than    *)
(* AGENT_STARTUP_TIMEOUT: the backend is dropped.                          *)
(***************************************************************************)
AgentSkipped ==
    /\ main = "starting" /\ starting # None
    /\ starting' = None
    /\ UNCHANGED <<settings, main, todo, child, registered, killed, handler, stop, connected,
                   transport, terminal, code>>

(* No agent is there, or the console's prompts cannot be read: the daemon gives up. *)
NoAgents ==
    /\ main = "starting" /\ todo = {} /\ starting = None
    /\ registered = {} \/ mode = "web"
    /\ Exit(1)
    /\ UNCHANGED <<settings, agents, handler, stop, connected, transport, terminal>>

(* Agents are up: the signal task, the terminal and the transport are started. *)
Started ==
    /\ main = "starting" /\ todo = {} /\ starting = None /\ registered # {}
    /\ main' = CASE mode = "relay" -> "connecting"
                 [] mode = "local" /\ qr -> "printing"
                 [] mode = "run" -> "driving"
                 [] mode = "web" \/ (mode = "local" /\ ~qr) -> "opening"
    /\ handler' = IF mode = "run" THEN "absent" ELSE "waiting"
    /\ console' \in IF mode \in {"local", "relay"} THEN {"absent", "prompt"} ELSE {"absent"}
    /\ UNCHANGED <<settings, agents, stop, connected, transport, command, commander, code>>

(* execute_run: the roles do not fit the agents, or the run cannot be loaded. *)
RunRefused ==
    /\ main = "driving"
    /\ Exit(1)
    /\ UNCHANGED <<settings, agents, handler, stop, connected, transport, terminal>>

(* drive_until has returned. *)
RunEnds ==
    /\ main = "driving"
    /\ main' = "stopping"
    /\ code' \in {0, 1}
    /\ UNCHANGED <<settings, agents, handler, stop, connected, transport, terminal>>

(* connect_client fails: agents are stopped, unless a QR code was asked for. *)
ConnectFails ==
    /\ main = "connecting"
    /\ IF qr THEN Exit(1) ELSE main' = "stopping" /\ code' = 1
    /\ UNCHANGED <<settings, agents, handler, stop, connected, transport, terminal>>

Connected ==
    /\ main = "connecting"
    /\ connected' = TRUE
    /\ main' = IF qr THEN "printing" ELSE "hello"
    /\ UNCHANGED <<settings, agents, handler, stop, transport, terminal, code>>

(* The QR code of --mobile is printed, or the daemon exits. *)
Printed ==
    /\ main = "printing"
    /\ \/ main' = (IF mode = "relay" THEN "hello" ELSE "opening") /\ UNCHANGED code
       \/ Exit(1)
    /\ UNCHANGED <<settings, agents, handler, stop, connected, transport, terminal>>

-----------------------------------------------------------------------------
(* The shutdown channel, signals and the terminal. *)

(* A value is sent: every receiver has something new to see. *)
SendStop(reason) == stop' = reason /\ seen' = {}

(***************************************************************************)
(* SIGINT or SIGTERM.  The signal task handles the first; before it runs,  *)
(* and in a run, which has none, the process is ended at once.             *)
(***************************************************************************)
Signal ==
    /\ Running
    /\ \/ /\ handler = "waiting"
          /\ handler' = "done"
          /\ SendStop("signal")
          /\ UNCHANGED <<main, code>>
       \/ /\ handler = "absent"
          /\ Exit(2)
          /\ UNCHANGED <<handler, stop, seen>>
    /\ UNCHANGED <<settings, agents, connected, session, conn, queue, app, sent, terminal>>

(* /mobile: the list of agents is asked for. *)
ConsoleMobile ==
    /\ Running
    /\ console = "prompt" /\ commander # "ended"
    /\ console' = "asked"
    /\ command' = "show"
    /\ UNCHANGED <<settings, main, agents, handler, stop, connected, transport, commander, code>>

(* Agents are chosen and a QR code is asked for, or the choice is cancelled. *)
ConsoleChooses ==
    /\ Running
    /\ console = "choosing"
    /\ \/ console' = "rendering" /\ command' = "render"
       \/ console' = "prompt" /\ UNCHANGED command
    /\ UNCHANGED <<settings, main, agents, handler, stop, connected, transport, commander, code>>

(* /quit, or the end of the input, which leaves the daemon running. *)
ConsoleLeaves ==
    /\ Running
    /\ console = "prompt"
    /\ console' = "gone"
    /\ \/ command' = "shutdown"
       \/ UNCHANGED command
    /\ UNCHANGED <<settings, main, agents, handler, stop, connected, transport, commander, code>>

(* The task takes a command; a QR code of a relay needs the relay. *)
CommandTaken ==
    /\ Running
    /\ commander = "ready" /\ command # None
    /\ command' = None
    /\ CASE command = "show" ->
               /\ console' = "choosing"
               /\ UNCHANGED <<commander, stop, seen>>
         [] command = "render" /\ (mode = "relay" => connected) ->
               /\ commander' = "rendering"
               /\ UNCHANGED <<console, stop, seen>>
         [] command = "render" /\ mode = "relay" /\ ~connected ->
               /\ console' = "prompt"
               /\ UNCHANGED <<commander, stop, seen>>
         [] command = "shutdown" ->
               /\ SendStop("user")
               /\ commander' = "ended"
               /\ UNCHANGED console
    /\ UNCHANGED <<settings, main, agents, handler, connected, session, conn, queue, app, sent, code>>

(* render_mobile_qr has returned, with a code or an error. *)
CommandRendered ==
    /\ Running
    /\ commander = "rendering"
    /\ commander' = "ready"
    /\ console' = "prompt"
    /\ UNCHANGED <<settings, main, agents, handler, stop, connected, transport, command, code>>

-----------------------------------------------------------------------------
(* The relay transport: run_with_client. *)

(* The transport has returned: the agents are next. *)
RelayEnds(next, status) ==
    /\ main' = next
    /\ code' = status
    /\ UNCHANGED <<settings, agents, handler, stop, conn, seen, queue, app, sent, terminal>>

(* The peer's hello is accepted and the application session made. *)
HelloAccepted ==
    /\ main = "hello"
    /\ session' = "open"
    /\ RelayEnds("serving", code)
    /\ UNCHANGED connected

HelloFails ==
    /\ main = "hello"
    /\ connected' = FALSE
    /\ RelayEnds("stopping", 1)
    /\ UNCHANGED session

HelloStops ==
    /\ main = "hello" /\ stop # None
    /\ connected' = FALSE
    /\ RelayEnds("stopping", 0)
    /\ UNCHANGED session

(* A frame is handled to its end before anything else is looked at. *)
RelayFrame ==
    /\ main = "serving" /\ sent < MaxMessages
    /\ main' = "handling"
    /\ sent' = sent + 1
    /\ UNCHANGED <<settings, agents, handler, stop, connected, session, conn, seen, queue, app,
                   terminal, code>>

RelayHandled ==
    /\ main = "handling"
    /\ main' = "serving"
    /\ UNCHANGED <<settings, agents, handler, stop, connected, transport, terminal, code>>

(* An event is sent, and nothing else looked at until the relay takes it. *)
RelaySends ==
    /\ main = "serving"
    /\ main' = "sending"
    /\ UNCHANGED <<settings, agents, handler, stop, connected, transport, terminal, code>>

RelaySent ==
    /\ main = "sending"
    /\ main' = "serving"
    /\ UNCHANGED <<settings, agents, handler, stop, connected, transport, terminal, code>>

(* Mutant: a broken connection returns without closing the session. *)
RelayBreaksUnclosed ==
    /\ main \in {"serving", "sending"}
    /\ connected' = FALSE
    /\ RelayEnds("stopping", 1)
    /\ UNCHANGED session

(* The connection breaks: the session is closed, then the error is returned. *)
RelayBreaks ==
    /\ main \in {"serving", "sending"}
    /\ RelayEnds("closing", 1)
    /\ UNCHANGED <<connected, session>>

(* The peer is told of the stop, and the session is closed. *)
RelayStops ==
    /\ main = "serving" /\ stop # None
    /\ RelayEnds("closing", 0)
    /\ UNCHANGED <<connected, session>>

(* session.shutdown has returned. *)
RelayClosed ==
    /\ main = "closing"
    /\ session' = "closed"
    /\ connected' = FALSE
    /\ RelayEnds("stopping", code)

-----------------------------------------------------------------------------
(* The WebSocket transport: WebSocketServer::run. *)

(* The port is bound and the application session made, or neither. *)
Listen ==
    /\ main = "opening"
    /\ \/ main' = "accepting" /\ session' = "open" /\ UNCHANGED code
       \/ /\ IF mode = "web" THEN Exit(1) ELSE main' = "stopping" /\ code' = 1
          /\ UNCHANGED session
    /\ UNCHANGED <<settings, agents, handler, stop, connected, conn, seen, queue, app, sent, terminal>>

(* A connection is accepted; the loop waits for its handshake. *)
Accept(x) ==
    /\ main = "accepting" /\ conn[x] = "none"
    /\ main' = "handshaking"
    /\ conn' = [conn EXCEPT ![x] = "handshake"]
    /\ UNCHANGED <<settings, agents, handler, stop, connected, session, seen, queue, app, sent,
                   terminal, code>>

(* Mutant: the connection's receiver starts at the value there is. *)
HandshakeSubscribes(x) ==
    /\ main = "handshaking" /\ conn[x] = "handshake"
    /\ main' = "accepting"
    /\ \/ conn' = [conn EXCEPT ![x] = "open"] /\ seen' = seen \cup {x}
       \/ conn' = [conn EXCEPT ![x] = "over"] /\ UNCHANGED seen
    /\ UNCHANGED <<settings, agents, handler, stop, connected, session, queue, app, sent,
                   terminal, code>>

(* The connection's task is spawned with a copy of the loop's receiver. *)
Handshake(x) ==
    /\ main = "handshaking" /\ conn[x] = "handshake"
    /\ main' = "accepting"
    /\ \E state \in {"open", "over"} : conn' = [conn EXCEPT ![x] = state]
    /\ UNCHANGED <<settings, agents, handler, stop, connected, session, seen, queue, app, sent,
                   terminal, code>>

(* handle_connection: a message is passed on. *)
Message(x) ==
    /\ Running
    /\ conn[x] = "open" /\ sent < MaxMessages
    /\ queue' = queue + 1
    /\ sent' = sent + 1
    /\ UNCHANGED <<settings, main, agents, handler, stop, connected, session, conn, seen, app,
                   terminal, code>>

(* Where the task of a connection goes. *)
Goes(x, state) ==
    /\ Running
    /\ conn' = [conn EXCEPT ![x] = state]
    /\ UNCHANGED <<settings, main, agents, handler, stop, connected, session, seen, queue, app,
                   sent, terminal, code>>

(* An event or a ping is sent, and nothing else looked at until the peer takes it. *)
ConnSends(x) == conn[x] = "open" /\ Goes(x, "sending")

ConnSent(x) == conn[x] = "sending" /\ (Goes(x, "open") \/ Goes(x, "over"))

(* The peer is gone. *)
Disconnect(x) == conn[x] = "open" /\ Goes(x, "over")

(* There is a stop to see: the peer is told, which may take it long, too. *)
ConnStops(x) == conn[x] = "open" /\ stop # None /\ x \notin seen /\ Goes(x, "leaving")

ConnLeft(x) == conn[x] = "leaving" /\ Goes(x, "over")

(* The session's task handles one message after another. *)
AppTakes ==
    /\ Running
    /\ session = "open" /\ app = "idle" /\ queue > 0
    /\ app' = "handling"
    /\ queue' = queue - 1
    /\ UNCHANGED <<settings, main, agents, handler, stop, connected, session, conn, seen, sent,
                   terminal, code>>

AppReturns ==
    /\ Running
    /\ app = "handling"
    /\ app' = "idle"
    /\ UNCHANGED <<settings, main, agents, handler, stop, connected, session, conn, seen, queue,
                   sent, terminal, code>>

(* The loop sees the stop, and then waits for the connections. *)
AcceptStops ==
    /\ main = "accepting" /\ stop # None
    /\ main' = "joining"
    /\ UNCHANGED <<settings, agents, handler, stop, connected, transport, terminal, code>>

(* The last sender of client_tx is dropped. *)
Joined ==
    /\ main = "joining"
    /\ \A x \in Conns : conn[x] \notin Live
    /\ main' = "draining"
    /\ UNCHANGED <<settings, agents, handler, stop, connected, transport, terminal, code>>

(* The session's task has handled what was queued: it cancels the prompts... *)
AppEnds ==
    /\ main = "draining"
    /\ session = "open" /\ app = "idle" /\ queue = 0
    /\ app' = "closing"
    /\ UNCHANGED <<settings, main, agents, handler, stop, connected, session, conn, seen, queue, sent,
                   terminal, code>>

(* ... which waits for the agents, and closes the session. *)
AppClosed ==
    /\ main = "draining" /\ app = "closing"
    /\ session' = "closed"
    /\ app' = "idle"
    /\ UNCHANGED <<settings, main, agents, handler, stop, connected, conn, seen, queue, sent,
                   terminal, code>>

(* run returns; execute_web returns with it and leaves the agents alone. *)
Drained ==
    /\ main = "draining" /\ session = "closed"
    /\ IF mode = "web" THEN Exit(IF code = None THEN 0 ELSE code)
       ELSE main' = "stopping" /\ code' = 0
    /\ UNCHANGED <<settings, agents, handler, stop, connected, transport, terminal>>

(* execute_web: the console's HTTP server fails. *)
HttpFails ==
    /\ mode = "web" /\ code = None
    /\ main \in {"opening", "accepting", "handshaking", "joining", "draining"}
    /\ SendStop("user")
    /\ code' = 1
    /\ UNCHANGED <<settings, main, agents, handler, connected, session, conn, queue, app, sent, terminal>>

-----------------------------------------------------------------------------
(* The agents' processes. *)

(* shutdown_all: the next agent is told to end, once the one before has. *)
StopAgent(a) ==
    /\ main = "stopping"
    /\ a \in registered \ killed
    /\ \A b \in killed : child[b] = "gone"
    /\ killed' = killed \cup {a}
    /\ UNCHANGED <<settings, main, todo, starting, child, registered, handler, stop, connected,
                   transport, terminal, code>>

(* Mutant: a process whose backend was dropped is left running. *)
MonitorIgnoresDrop(a) ==
    /\ Running
    /\ child[a] = "running"
    /\ a \in killed
    /\ child' = [child EXCEPT ![a] = "gone"]
    /\ UNCHANGED <<settings, main, todo, starting, registered, killed, handler, stop, connected,
                   transport, terminal, code>>

(* monitor_agent_process: the process is killed when told, or when dropped. *)
Monitor(a) ==
    /\ Running
    /\ child[a] = "running"
    /\ a \in killed \/ (a \notin registered /\ a # starting)
    /\ child' = [child EXCEPT ![a] = "gone"]
    /\ UNCHANGED <<settings, main, todo, starting, registered, killed, handler, stop, connected,
                   transport, terminal, code>>

(* An agent's process ends of its own accord. *)
ChildExits(a) ==
    /\ Running
    /\ child[a] = "running"
    /\ child' = [child EXCEPT ![a] = "gone"]
    /\ UNCHANGED <<settings, main, todo, starting, registered, killed, handler, stop, connected,
                   transport, terminal, code>>

(* shutdown_all has returned. *)
Stopped ==
    /\ main = "stopping"
    /\ registered \subseteq killed
    /\ \A a \in registered : child[a] = "gone"
    /\ Exit(code)
    /\ UNCHANGED <<settings, agents, handler, stop, connected, transport, terminal>>

-----------------------------------------------------------------------------
Next == \/ LoadAgentConfigs \/ ConfigFails \/ AgentReady \/ AgentSkipped \/ NoAgents
        \/ Started \/ RunRefused \/ RunEnds \/ ConnectFails \/ Connected \/ Printed
        \/ Signal \/ ConsoleMobile \/ ConsoleChooses \/ ConsoleLeaves \/ CommandTaken
        \/ CommandRendered
        \/ HelloAccepted \/ HelloFails \/ HelloStops \/ RelayFrame \/ RelayHandled
        \/ RelaySends \/ RelaySent \/ RelayBreaks \/ RelayStops \/ RelayClosed
        \/ Listen \/ AppTakes \/ AppReturns \/ AcceptStops \/ Joined \/ AppEnds \/ AppClosed
        \/ Drained \/ HttpFails \/ Stopped
        \/ \E x \in Conns : Accept(x) \/ Handshake(x) \/ Message(x) \/ ConnSends(x) \/ ConnSent(x)
                            \/ Disconnect(x) \/ ConnStops(x) \/ ConnLeft(x)
        \/ \E a \in Agents : AddAgent(a) \/ StopAgent(a) \/ Monitor(a) \/ ChildExits(a)

Spec == Init /\ [][Next]_vars

(***************************************************************************)
(* Tasks run when they can.  Nothing is assumed of what they wait for      *)
(* without a timeout: a connection attempt, an HTTP request, a handshake,  *)
(* a peer that takes what is sent, an agent that answers a handler.        *)
(* tokio's select takes a ready branch at random, so a stop that is ready  *)
(* again and again beside messages is taken (strong fairness).             *)
(***************************************************************************)
Fairness ==
    /\ WF_vars(Listen)
    /\ WF_vars(CommandTaken)
    /\ WF_vars(HelloStops) /\ SF_vars(RelayStops)
    /\ \A x \in Conns : SF_vars(ConnStops(x))
    /\ SF_vars(AcceptStops) /\ WF_vars(Joined) /\ WF_vars(AppTakes)
    /\ WF_vars(AppEnds) /\ WF_vars(Drained) /\ WF_vars(Stopped)
    /\ \A a \in Agents : WF_vars(StopAgent(a)) /\ WF_vars(Monitor(a))

FairSpec == Spec /\ Fairness

-----------------------------------------------------------------------------
(* Properties. *)

(* The variables keep their types. *)
TypeOK ==
    /\ mode \in Modes /\ qr \in BOOLEAN
    /\ main \in {"loading", "starting", "connecting", "printing", "driving", "hello", "serving",
                 "handling", "sending", "closing", "opening", "accepting", "handshaking", "joining", "draining",
                 "stopping", "exited"}
    /\ todo \subseteq Agents /\ starting \in Agents \cup {None}
    /\ child \in [Agents -> {"absent", "running", "gone"}]
    /\ registered \subseteq Agents /\ killed \subseteq Agents
    /\ handler \in {"absent", "waiting", "done"}
    /\ stop \in {None, "signal", "user"}
    /\ connected \in BOOLEAN
    /\ session \in {"none", "open", "closed"}
    /\ conn \in [Conns -> {"none", "handshake", "over"} \cup Live]
    /\ seen \subseteq Conns
    /\ queue \in 0 .. MaxMessages /\ sent \in 0 .. MaxMessages
    /\ app \in {"idle", "handling", "closing"}
    /\ console \in {"absent", "prompt", "asked", "choosing", "rendering", "gone"}
    /\ command \in {None, "show", "render", "shutdown"}
    /\ commander \in {"ready", "rendering", "ended"}
    /\ code \in {None, 0, 1, 2}

(***************************************************************************)
(* Agents are only stopped once nobody needs them: the application session *)
(* is closed, which cancels its prompts and saves its sessions, and every  *)
(* message that was received has been handled, however the transport ended *)
(* (run_with_client, WebSocketServer::run, shutdown_all).                  *)
(***************************************************************************)
AgentsOutliveSession ==
    killed # {} => /\ session # "open"
                   /\ queue = 0 /\ app = "idle"
                   /\ \A x \in Conns : conn[x] \notin Live

(***************************************************************************)
(* The daemon waits for somebody else, with no timeout and no eye on the   *)
(* stop: to be connected to the relay, for the code of a mobile, for a     *)
(* handshake (ws.rs:117), for a peer or the relay to take what is sent     *)
(* (ws.rs:181, relay.rs:87), or for an agent, in a handler or in the       *)
(* session's shutdown.                                                     *)
(***************************************************************************)
WaitsForOthers ==
    \/ main \in {"connecting", "printing", "handshaking", "handling", "sending", "closing"}
    \/ app # "idle"
    \/ \E x \in Conns : conn[x] \in {"sending", "leaving"}

(***************************************************************************)
(* A signal or /quit ends the daemon wherever it is, unless it waits for   *)
(* somebody else for ever: no task of it waits for another one, no stop is *)
(* overlooked by a connection that is made meanwhile, and a lively client  *)
(* does not keep it up (WebSocketServer::run, run_with_client).            *)
(***************************************************************************)
StopEndsDaemon == stop # None ~> (main = "exited" \/ []WaitsForOthers)

(***************************************************************************)
(* The process of an agent that could not be initialized, or not in time,  *)
(* is killed if the daemon runs on (add_agent, monitor_agent_process).  If *)
(* it exits, it is not: a daemon whose last agent fails returns from main  *)
(* before the monitor is polled, and leaves the process behind             *)
(* (main.rs:2267).                                                         *)
(***************************************************************************)
StrayIsKilled ==
    \A a \in Agents :
        (child[a] = "running" /\ a \notin registered /\ a # starting)
            ~> (child[a] = "gone" \/ main = "exited")
=============================================================================
