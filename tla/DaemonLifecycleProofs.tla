----------------------- MODULE DaemonLifecycleProofs -----------------------
(***************************************************************************)
(* AgentsOutliveSession for any number of agents, connections and          *)
(* messages.  The invariant follows the main task: nothing is served       *)
(* before a transport is up (Early), only the WebSocket server has         *)
(* connections and a queue (OneClient), its session is closed last and     *)
(* with nothing left to handle (ServingIsOpen, ClosingIsLast,              *)
(* DrainedIsClosed), and agents are told to end only then                  *)
(* (StoppingIsQuiet).  And the types of all the daemon's state, where the  *)
(* bound of the queue needs that what is queued has been sent (WellTyped). *)
(***************************************************************************)
EXTENDS DaemonLifecycle, TLAPS

(* Nothing waits to be handled, and nobody is there to send more. *)
Idle == queue = 0 /\ app = "idle" /\ \A x \in Conns : conn[x] \notin Live

Typed == /\ mode \in Modes
         /\ queue \in Nat
         /\ conn \in [Conns -> {"none", "handshake", "over"} \cup Live]

Early == main \in {"loading", "starting", "connecting", "printing", "driving", "hello", "opening"}
             => session # "open" /\ Idle

OneClient == main \in {"serving", "handling", "sending", "closing"} => Idle

ServingIsOpen == main \in {"accepting", "handshaking", "joining"} => session = "open"

DrainedIsClosed ==
    main = "draining" => /\ \A x \in Conns : conn[x] \notin Live
                         /\ session = "closed" => Idle
                         /\ session \in {"open", "closed"}

StoppingIsQuiet == main = "stopping" \/ killed # {} => session # "open" /\ Idle

ClosingIsLast == app = "closing" => main \in {"draining", "exited"} /\ queue = 0

KilledIsStopping == killed # {} => main \in {"stopping", "exited"}

IInv == /\ Typed /\ Early /\ OneClient /\ ServingIsOpen /\ DrainedIsClosed
        /\ StoppingIsQuiet /\ ClosingIsLast /\ KilledIsStopping

Parts == <<mode, main, killed, session, conn, queue, app>>

-----------------------------------------------------------------------------
(* The daemon starts with nothing served. *)
LEMMA InitIInv == Init => IInv
BY DEF Init, IInv, Typed, Early, OneClient, ServingIsOpen, DrainedIsClosed, StoppingIsQuiet,
       ClosingIsLast, KilledIsStopping, Idle, Live

(* A step that leaves the main task, the transport and killed alone. *)
LEMMA Unaffected == IInv /\ UNCHANGED Parts => IInv'
BY DEF Parts, IInv, Typed, Early, OneClient, ServingIsOpen, DrainedIsClosed, StoppingIsQuiet,
       ClosingIsLast, KilledIsStopping, Idle, Live

(* Agents that start, agents' processes, the terminal: none touches the parts. *)
LEMMA SideSteps ==
    ASSUME IInv,
           \/ AgentReady \/ AgentSkipped \/ ConsoleMobile \/ ConsoleChooses \/ ConsoleLeaves
           \/ CommandTaken \/ CommandRendered \/ HttpFails
           \/ \E a \in Agents : AddAgent(a) \/ Monitor(a) \/ ChildExits(a)
    PROVE  IInv'
<1>1. UNCHANGED Parts
    BY DEF AgentReady, AgentSkipped, ConsoleMobile, ConsoleChooses, ConsoleLeaves, CommandTaken,
           CommandRendered, HttpFails, AddAgent, Monitor, ChildExits, Parts, transport, agents, settings, SendStop
<1>2. QED BY <1>1, Unaffected

(* The main task up to its transport, and the end of a run. *)
LEMMA StartSteps ==
    ASSUME IInv, LoadAgentConfigs \/ ConfigFails \/ NoAgents \/ Started \/ RunRefused \/ RunEnds
                 \/ ConnectFails \/ Connected \/ Printed \/ Signal
    PROVE  IInv'
<1>1. UNCHANGED <<mode, killed, session, conn, queue, app>>
    BY DEF LoadAgentConfigs, ConfigFails, NoAgents, Started, RunRefused, RunEnds, ConnectFails,
           Connected, Printed, Signal, transport, agents, settings
<1>2. \/ main' = main
      \/ main' = "exited"
      \/ /\ main \in {"loading", "starting", "connecting", "printing", "driving"}
         /\ main' \in {"starting", "connecting", "printing", "driving", "hello", "opening", "stopping"}
    BY DEF LoadAgentConfigs, ConfigFails, NoAgents, Started, RunRefused, RunEnds, ConnectFails,
           Connected, Printed, Signal, Exit, Modes, IInv, Typed
<1>3. QED BY <1>1, <1>2 DEF IInv, Typed, Early, OneClient, ServingIsOpen, DrainedIsClosed,
       StoppingIsQuiet, ClosingIsLast, KilledIsStopping, Idle, Live

(* The relay transport, from the peer's hello to the session's end. *)
LEMMA RelaySteps ==
    ASSUME IInv, HelloAccepted \/ HelloFails \/ HelloStops \/ RelayFrame \/ RelayHandled
                 \/ RelaySends \/ RelaySent \/ RelayBreaks \/ RelayStops \/ RelayClosed
    PROVE  IInv'
<1>1. UNCHANGED <<mode, killed, conn, queue, app>>
    BY DEF HelloAccepted, HelloFails, HelloStops, RelayFrame, RelayHandled, RelaySends, RelaySent, RelayBreaks, RelayStops,
           RelayClosed, RelayEnds, transport, agents, settings
<1>2. \/ main = "hello" /\ main' = "serving"
      \/ main = "hello" /\ main' = "stopping" /\ session' = session
      \/ /\ main \in {"serving", "handling", "sending"} /\ main' \in {"serving", "handling", "sending", "closing"}
         /\ session' = session
      \/ main = "closing" /\ main' = "stopping" /\ session' = "closed"
    BY DEF HelloAccepted, HelloFails, HelloStops, RelayFrame, RelayHandled, RelaySends, RelaySent, RelayBreaks, RelayStops,
           RelayClosed, RelayEnds, transport
<1>3. QED BY <1>1, <1>2 DEF IInv, Typed, Early, OneClient, ServingIsOpen, DrainedIsClosed,
       StoppingIsQuiet, ClosingIsLast, KilledIsStopping, Idle, Live

(* The WebSocket server opens, accepts, and stops accepting. *)
LEMMA ServerSteps ==
    ASSUME IInv, \/ Listen \/ AcceptStops \/ Joined \/ Drained \/ Stopped
                 \/ \E x \in Conns : Accept(x) \/ Handshake(x)
    PROVE  IInv'
<1>1. CASE Listen
    BY <1>1 DEF Listen, Exit, IInv, Typed, Early, OneClient, ServingIsOpen, DrainedIsClosed,
       StoppingIsQuiet, ClosingIsLast, KilledIsStopping, Idle, Live, agents, settings
<1>2. CASE AcceptStops \/ Joined
    BY <1>2 DEF AcceptStops, Joined, IInv, Typed, Early, OneClient, ServingIsOpen, DrainedIsClosed,
       StoppingIsQuiet, ClosingIsLast, KilledIsStopping, Idle, Live, agents, settings, transport
<1>3. CASE Drained \/ Stopped
  <2>1. main' \in {"exited", "stopping"} /\ UNCHANGED <<mode, killed, session, conn, queue, app>>
      BY <1>3 DEF Drained, Stopped, Exit, agents, settings, transport
  <2>2. (main = "draining" /\ session = "closed") \/ main = "stopping"
      BY <1>3 DEF Drained, Stopped
  <2>3. QED BY <2>1, <2>2 DEF IInv, Typed, Early, OneClient, ServingIsOpen, DrainedIsClosed,
       StoppingIsQuiet, ClosingIsLast, KilledIsStopping, Idle, Live
<1>4. ASSUME NEW x \in Conns, Accept(x) PROVE IInv'
    BY <1>4 DEF Accept, IInv, Typed, Early, OneClient, ServingIsOpen, DrainedIsClosed,
       StoppingIsQuiet, ClosingIsLast, KilledIsStopping, Idle, Live, agents, settings
<1>5. ASSUME NEW x \in Conns, Handshake(x) PROVE IInv'
    BY <1>5 DEF Handshake, IInv, Typed, Early, OneClient, ServingIsOpen, DrainedIsClosed,
       StoppingIsQuiet, ClosingIsLast, KilledIsStopping, Idle, Live, agents, settings
<1>6. QED BY <1>1, <1>2, <1>3, <1>4, <1>5

(* A message needs an open connection, which there is only while serving. *)
LEMMA MessageStep == ASSUME IInv, NEW x \in Conns, Message(x) PROVE IInv'
<1>1. UNCHANGED <<mode, main, killed, session, conn, app>> /\ queue' = queue + 1
    BY DEF Message, agents, settings
<1>2. conn[x] = "open" /\ main # "exited"
    BY DEF Message, Running
<1>3. QED BY <1>1, <1>2 DEF IInv, Typed, Early, OneClient, ServingIsOpen, DrainedIsClosed,
       StoppingIsQuiet, ClosingIsLast, KilledIsStopping, Idle, Live

(* Only a connection that is live goes on. *)
LEMMA ConnStep ==
    ASSUME IInv, NEW x \in Conns,
           ConnSends(x) \/ ConnSent(x) \/ Disconnect(x) \/ ConnStops(x) \/ ConnLeft(x)
    PROVE  IInv'
<1>1. /\ UNCHANGED <<mode, main, killed, session, queue, app>>
      /\ conn[x] \in Live
      /\ \E state \in {"over"} \cup Live : conn' = [conn EXCEPT ![x] = state]
    BY DEF ConnSends, ConnSent, Disconnect, ConnStops, ConnLeft, Goes, Live, agents, settings
<1>2. conn' \in [Conns -> {"none", "handshake", "over"} \cup Live]
    BY <1>1 DEF IInv, Typed
<1>3. \A y \in Conns : conn[y] \notin Live => conn'[y] \notin Live
    BY <1>1 DEF IInv, Typed
<1>4. main # "exited"
    BY DEF ConnSends, ConnSent, Disconnect, ConnStops, ConnLeft, Goes, Running
<1>5. QED BY <1>1, <1>2, <1>3, <1>4 DEF IInv, Typed, Early, OneClient, ServingIsOpen,
       DrainedIsClosed, StoppingIsQuiet, ClosingIsLast, KilledIsStopping, Idle

(* The session's task handles what is queued, and closes the session after it. *)
LEMMA AppSteps == ASSUME IInv, AppTakes \/ AppReturns \/ AppEnds \/ AppClosed PROVE IInv'
<1>1. CASE AppTakes
  <2>1. /\ UNCHANGED <<mode, main, killed, session, conn>> /\ queue' = queue - 1
        /\ main # "exited" /\ session = "open" /\ queue > 0 /\ app = "idle" /\ app' = "handling"
      BY <1>1 DEF AppTakes, Running, agents, settings
  <2>2. QED BY <2>1 DEF IInv, Typed, Early, OneClient, ServingIsOpen, DrainedIsClosed,
         StoppingIsQuiet, ClosingIsLast, KilledIsStopping, Idle, Live
<1>2. CASE AppReturns
  <2>1. UNCHANGED <<mode, main, killed, session, conn, queue>> /\ app' = "idle"
      BY <1>2 DEF AppReturns, agents, settings
  <2>2. QED BY <2>1 DEF IInv, Typed, Early, OneClient, ServingIsOpen, DrainedIsClosed,
         StoppingIsQuiet, ClosingIsLast, KilledIsStopping, Idle, Live
<1>3. CASE AppEnds \/ AppClosed
    BY <1>3 DEF AppEnds, AppClosed, IInv, Typed, Early, OneClient, ServingIsOpen, DrainedIsClosed,
       StoppingIsQuiet, ClosingIsLast, KilledIsStopping, Idle, Live, agents, settings
<1>4. QED BY <1>1, <1>2, <1>3

(* shutdown_all runs when the transport is done. *)
LEMMA StopStep == ASSUME IInv, NEW a \in Agents, StopAgent(a) PROVE IInv'
BY DEF StopAgent, IInv, Typed, Early, OneClient, ServingIsOpen, DrainedIsClosed,
       StoppingIsQuiet, ClosingIsLast, KilledIsStopping, Idle, Live, settings, transport

-----------------------------------------------------------------------------
(***************************************************************************)
(* Whatever ends the transport (a signal, /quit, a broken relay, a port    *)
(* that cannot be bound, a run that is over), no agent is told to end      *)
(* before the session is closed and every message handled                  *)
(* (WebSocketServer::run, run_with_client, shutdown_all).                  *)
(***************************************************************************)
THEOREM AgentsStopLast == Spec => []AgentsOutliveSession
<1>1. IInv /\ [Next]_vars => IInv'
  <2> SUFFICES ASSUME IInv, [Next]_vars PROVE IInv'
      OBVIOUS
  <2>1. CASE UNCHANGED vars
      BY <2>1, Unaffected DEF vars, Parts
  <2>2. CASE Next
      BY <2>2, SideSteps, StartSteps, RelaySteps, ServerSteps, MessageStep, ConnStep, AppSteps,
         StopStep DEF Next
  <2>3. QED BY <2>1, <2>2
<1>2. IInv => AgentsOutliveSession
    BY DEF IInv, StoppingIsQuiet, Idle, AgentsOutliveSession
<1>3. QED BY InitIInv, <1>1, <1>2, PTL DEF Spec

-----------------------------------------------------------------------------
(* Types. *)

(* What is queued has been sent, which bounds the queue. *)
WellTyped == TypeOK /\ queue <= sent

(* The start, up to the transport. *)
LEMMA TypesStart ==
    ASSUME WellTyped, LoadAgentConfigs \/ ConfigFails \/ AgentReady \/ AgentSkipped
           \/ NoAgents \/ Started \/ RunRefused \/ RunEnds \/ ConnectFails \/ Connected
           \/ Printed
    PROVE  WellTyped'
<1> USE LifecycleAssumption
<1>1. CASE LoadAgentConfigs
    BY <1>1 DEF LoadAgentConfigs, WellTyped, TypeOK, settings, agents, transport, terminal
<1>2. CASE ConfigFails
    BY <1>2 DEF ConfigFails, Exit, WellTyped, TypeOK, settings, agents, transport, terminal
<1>3. CASE AgentReady
    BY <1>3 DEF AgentReady, WellTyped, TypeOK, settings, agents, transport, terminal
<1>4. CASE AgentSkipped
    BY <1>4 DEF AgentSkipped, WellTyped, TypeOK, settings, agents, transport, terminal
<1>5. CASE NoAgents
    BY <1>5 DEF NoAgents, Exit, WellTyped, TypeOK, settings, agents, transport, terminal
<1>6. CASE Started
    BY <1>6 DEF Started, Modes, WellTyped, TypeOK, settings, agents, transport, terminal
<1>7. CASE RunRefused
    BY <1>7 DEF RunRefused, Exit, WellTyped, TypeOK, settings, agents, transport, terminal
<1>8. CASE RunEnds
    BY <1>8 DEF RunEnds, WellTyped, TypeOK, settings, agents, transport, terminal
<1>9. CASE ConnectFails
    BY <1>9 DEF ConnectFails, Exit, WellTyped, TypeOK, settings, agents, transport, terminal
<1>10. CASE Connected
    BY <1>10 DEF Connected, WellTyped, TypeOK, settings, agents, transport, terminal
<1>11. CASE Printed
    BY <1>11 DEF Printed, Exit, WellTyped, TypeOK, settings, agents, transport, terminal
<1> QED BY <1>1, <1>2, <1>3, <1>4, <1>5, <1>6, <1>7, <1>8, <1>9, <1>10, <1>11

(* Signals and the terminal. *)
LEMMA TypesTerminal ==
    ASSUME WellTyped, Signal \/ ConsoleMobile \/ ConsoleChooses \/ ConsoleLeaves
           \/ CommandTaken \/ CommandRendered
    PROVE  WellTyped'
<1> USE LifecycleAssumption
<1>1. CASE Signal
    BY <1>1 DEF Signal, Exit, SendStop, WellTyped, TypeOK, settings, agents, transport, terminal
<1>2. CASE ConsoleMobile
    BY <1>2 DEF ConsoleMobile, WellTyped, TypeOK, settings, agents, transport, terminal
<1>3. CASE ConsoleChooses
    BY <1>3 DEF ConsoleChooses, WellTyped, TypeOK, settings, agents, transport, terminal
<1>4. CASE ConsoleLeaves
    BY <1>4 DEF ConsoleLeaves, WellTyped, TypeOK, settings, agents, transport, terminal
<1>5. CASE CommandTaken
  <2>1. /\ command' = None
        /\ UNCHANGED <<mode, qr, main, todo, starting, child, registered, killed, handler, connected,
                       session, conn, queue, app, sent, code>>
      BY <1>5 DEF CommandTaken, settings, agents
  <2>2. command \in {"show", "render", "shutdown"}
      BY <1>5 DEF CommandTaken, WellTyped, TypeOK
  <2>3. /\ console' \in {"choosing", "prompt", console}
        /\ commander' \in {"rendering", "ended", commander}
        /\ (stop' = "user" /\ seen' = {}) \/ UNCHANGED <<stop, seen>>
    <3>1. CASE command = "show"
        BY <1>5, <3>1 DEF CommandTaken
    <3>2. CASE command = "render" /\ (mode = "relay" => connected)
        BY <1>5, <3>2 DEF CommandTaken
    <3>3. CASE command = "render" /\ mode = "relay" /\ ~connected
        BY <1>5, <3>3 DEF CommandTaken
    <3>4. CASE command = "shutdown"
        BY <1>5, <3>4 DEF CommandTaken, SendStop
    <3>5. QED BY <2>2, <3>1, <3>2, <3>3, <3>4
  <2>4. QED BY <2>1, <2>3 DEF WellTyped, TypeOK
<1>6. CASE CommandRendered
    BY <1>6 DEF CommandRendered, WellTyped, TypeOK, settings, agents, transport, terminal
<1> QED BY <1>1, <1>2, <1>3, <1>4, <1>5, <1>6

(* The relay transport. *)
LEMMA TypesRelay ==
    ASSUME WellTyped, HelloAccepted \/ HelloFails \/ HelloStops \/ RelayFrame
           \/ RelayHandled \/ RelaySends \/ RelaySent \/ RelayBreaks \/ RelayStops \/ RelayClosed
    PROVE  WellTyped'
<1> USE LifecycleAssumption
<1>1. CASE HelloAccepted
    BY <1>1 DEF HelloAccepted, RelayEnds, WellTyped, TypeOK, settings, agents, transport, terminal
<1>2. CASE HelloFails
  <2>1. connected' \in BOOLEAN
      BY <1>2 DEF HelloFails
  <2>2. /\ main' = "stopping" /\ code' = 1 /\ session' = session
        /\ UNCHANGED <<mode, qr, todo, starting, child, registered, killed, handler, stop, conn, seen, queue, app,
                      sent, console, command, commander>>
      BY <1>2 DEF HelloFails, RelayEnds, settings, agents, terminal
  <2>3. QED BY <2>1, <2>2 DEF WellTyped, TypeOK
<1>3. CASE HelloStops
  <2>1. connected' \in BOOLEAN
      BY <1>3 DEF HelloStops
  <2>2. /\ main' = "stopping" /\ code' = 0 /\ session' = session
        /\ UNCHANGED <<mode, qr, todo, starting, child, registered, killed, handler, stop, conn, seen, queue, app,
                      sent, console, command, commander>>
      BY <1>3 DEF HelloStops, RelayEnds, settings, agents, terminal
  <2>3. QED BY <2>1, <2>2 DEF WellTyped, TypeOK
<1>4. CASE RelayFrame
    BY <1>4 DEF RelayFrame, WellTyped, TypeOK, settings, agents, transport, terminal
<1>5. CASE RelayHandled
    BY <1>5 DEF RelayHandled, WellTyped, TypeOK, settings, agents, transport, terminal
<1>6. CASE RelayBreaks
    BY <1>6 DEF RelayBreaks, RelayEnds, WellTyped, TypeOK, settings, agents, transport, terminal
<1>7. CASE RelayStops
    BY <1>7 DEF RelayStops, RelayEnds, WellTyped, TypeOK, settings, agents, transport, terminal
<1>8. CASE RelayClosed
  <2>1. connected' \in BOOLEAN
      BY <1>8 DEF RelayClosed
  <2>2. /\ main' = "stopping" /\ code' = code /\ session' = "closed"
        /\ UNCHANGED <<mode, qr, todo, starting, child, registered, killed, handler, stop, conn, seen, queue, app,
                      sent, console, command, commander>>
      BY <1>8 DEF RelayClosed, RelayEnds, settings, agents, terminal
  <2>3. QED BY <2>1, <2>2 DEF WellTyped, TypeOK
<1>9. CASE RelaySends \/ RelaySent
    BY <1>9 DEF RelaySends, RelaySent, WellTyped, TypeOK, settings, agents, transport, terminal
<1> QED BY <1>1, <1>2, <1>3, <1>4, <1>5, <1>6, <1>7, <1>8, <1>9

(* The WebSocket transport and the end. *)
LEMMA TypesServer ==
    ASSUME WellTyped, Listen \/ AppTakes \/ AppReturns \/ AcceptStops \/ Joined \/ AppEnds
           \/ AppClosed \/ Drained \/ HttpFails \/ Stopped
    PROVE  WellTyped'
<1> USE LifecycleAssumption
<1>1. CASE Listen
    BY <1>1 DEF Listen, Exit, WellTyped, TypeOK, settings, agents, transport, terminal
<1>2. CASE AppTakes
    BY <1>2 DEF AppTakes, WellTyped, TypeOK, settings, agents, transport, terminal
<1>3. CASE AppReturns
    BY <1>3 DEF AppReturns, WellTyped, TypeOK, settings, agents, transport, terminal
<1>4. CASE AcceptStops
    BY <1>4 DEF AcceptStops, WellTyped, TypeOK, settings, agents, transport, terminal
<1>5. CASE Joined
    BY <1>5 DEF Joined, WellTyped, TypeOK, settings, agents, transport, terminal
<1>6. CASE AppEnds
    BY <1>6 DEF AppEnds, WellTyped, TypeOK, settings, agents, transport, terminal
<1>7. CASE Drained
    BY <1>7 DEF Drained, Exit, WellTyped, TypeOK, settings, agents, transport, terminal
<1>8. CASE HttpFails
    BY <1>8 DEF HttpFails, SendStop, WellTyped, TypeOK, settings, agents, transport, terminal
<1>9. CASE Stopped
    BY <1>9 DEF Stopped, Exit, WellTyped, TypeOK, settings, agents, transport, terminal
<1>10. CASE AppClosed
    BY <1>10 DEF AppClosed, WellTyped, TypeOK, settings, agents, transport, terminal
<1> QED BY <1>1, <1>2, <1>3, <1>4, <1>5, <1>6, <1>7, <1>8, <1>9, <1>10

(* Connections. *)
LEMMA TypesConn ==
    ASSUME WellTyped, NEW x \in Conns,
           \/ Accept(x) \/ Handshake(x) \/ Message(x) \/ ConnSends(x) \/ ConnSent(x)
           \/ Disconnect(x) \/ ConnStops(x) \/ ConnLeft(x)
    PROVE  WellTyped'
<1> USE LifecycleAssumption
<1>1. CASE Accept(x)
    BY <1>1 DEF Accept, WellTyped, TypeOK, settings, agents, transport, terminal
<1>2. CASE Handshake(x)
    BY <1>2 DEF Handshake, Live, WellTyped, TypeOK, settings, agents, transport, terminal
<1>3. CASE Message(x)
    BY <1>3 DEF Message, WellTyped, TypeOK, settings, agents, transport, terminal
<1>4. ASSUME NEW state \in {"over"} \cup Live, Goes(x, state) PROVE WellTyped'
    BY <1>4 DEF Goes, WellTyped, TypeOK, settings, agents, transport, terminal
<1>5. CASE ConnSends(x) \/ ConnSent(x) \/ Disconnect(x) \/ ConnStops(x) \/ ConnLeft(x)
    BY <1>4, <1>5 DEF ConnSends, ConnSent, Disconnect, ConnStops, ConnLeft, Live
<1> QED BY <1>1, <1>2, <1>3, <1>5

(* The agents' processes. *)
LEMMA TypesAgent ==
    ASSUME WellTyped, NEW a \in Agents, AddAgent(a) \/ StopAgent(a) \/ Monitor(a) \/ ChildExits(a)
    PROVE  WellTyped'
<1> USE LifecycleAssumption
<1>1. CASE AddAgent(a)
    BY <1>1 DEF AddAgent, WellTyped, TypeOK, settings, agents, transport, terminal
<1>2. CASE StopAgent(a)
    BY <1>2 DEF StopAgent, WellTyped, TypeOK, settings, agents, transport, terminal
<1>3. CASE Monitor(a)
    BY <1>3 DEF Monitor, WellTyped, TypeOK, settings, agents, transport, terminal
<1>4. CASE ChildExits(a)
    BY <1>4 DEF ChildExits, WellTyped, TypeOK, settings, agents, transport, terminal
<1> QED BY <1>1, <1>2, <1>3, <1>4

(***************************************************************************)
(* The daemon's tasks, channels, connections and agents stay well formed,  *)
(* and the queue of the application session never holds more than clients  *)
(* have sent, for any number of agents, connections and messages.          *)
(***************************************************************************)
THEOREM TypeCorrect == Spec => []TypeOK
<1>1. ASSUME Init PROVE WellTyped
  <2>1. connected \in BOOLEAN /\ qr \in BOOLEAN
      BY <1>1 DEF Init
  <2>2. child \in [Agents -> {"absent", "running", "gone"}]
        /\ conn \in [Conns -> {"none", "handshake", "over"} \cup Live]
      BY <1>1 DEF Init
  <2>3. /\ mode \in Modes /\ main = "loading" /\ todo = {} /\ starting = None /\ registered = {}
        /\ killed = {} /\ handler = "absent" /\ stop = None /\ session = "none" /\ seen = {}
        /\ queue = 0 /\ sent = 0 /\ app = "idle" /\ console = "absent" /\ command = None
        /\ commander = "ready" /\ code = None
      BY <1>1 DEF Init
  <2>4. QED BY <2>1, <2>2, <2>3, LifecycleAssumption DEF WellTyped, TypeOK
<1>2. ASSUME WellTyped, [Next]_vars PROVE WellTyped'
  <2>1. CASE UNCHANGED vars
      BY <1>2, <2>1 DEF vars, WellTyped, TypeOK
  <2>2. CASE Next
      BY <1>2, <2>2, TypesStart, TypesTerminal, TypesRelay, TypesServer, TypesConn, TypesAgent DEF Next
  <2>3. QED BY <1>2, <2>1, <2>2
<1>3. WellTyped => TypeOK
    BY DEF WellTyped
<1>4. QED BY <1>1, <1>2, <1>3, PTL DEF Spec

=============================================================================
