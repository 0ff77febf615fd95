---------------------------- MODULE EventFanout ----------------------------
(***************************************************************************)
(* One thread of the daemon and the clients that show it.  The server      *)
(* (server/src/ws.rs) keeps one broadcast channel for all its connections: *)
(* every journalled event, and every answer to every request, goes to      *)
(* everybody, and a connection that falls Capacity events behind skips the *)
(* oldest ones (ws.rs:170).  The answer to attach_thread (app.rs:1180) is  *)
(* thread_attached, thread_snapshot (one event here), the replay and       *)
(* thread_replay_complete in one go, with no await in between.             *)
(*                                                                         *)
(* Two kinds of client are modelled: the browser page (console/chat.rs),   *)
(* which attaches from the start of the log, and the Apple chat store      *)
(* (DaemonChatStore.swift), which keeps a cursor.  What a client does with *)
(* an event is part of receiving it: the socket is in order and what is in *)
(* it is lost with it, as an event that was not yet taken from the channel.*)
(*                                                                         *)
(* An entry of the log is the message it adds or changes: a user message   *)
(* has one entry, an assistant's turn one for every snapshot of its text.  *)
(***************************************************************************)
EXTENDS Naturals, Sequences, FiniteSets

CONSTANTS Pages,      \* browser pages
          Stores,     \* Apple chat stores
          Messages,   \* messages and turns of the thread
          Capacity,   \* size of the broadcast channel (1024 in the code)
          MaxLog,     \* entries the thread gets
          MaxOpens    \* connections that are opened

ASSUME FanoutAssumption ==
    /\ Pages \cap Stores = {}
    /\ Capacity \in Nat \ {0}
    /\ MaxLog \in Nat
    /\ MaxOpens \in Nat

Clients == Pages \cup Stores

VARIABLES live,     \* the thread is in the thread store
          log,      \* its entries; thread_seq is the position
          inbox,    \* requests that reached the server's message loop
          link,     \* a client's connection, "none" or "open"
          queue,    \* what it has not yet taken from the broadcast channel
          opens,    \* connections opened so far
          current,  \* the client has the thread selected
          known,    \* page: thread_list named it; store: it has a snapshot
          cursor,   \* store: cursorByThread; page: unused
          shown,    \* the entry each message on the screen was taken from
          attached, \* page: thread_replay_complete was seen since selecting
          whole,    \* history, of a page: no entry passed it by since it asked
          server    \* "up", "stopping" (no more accepts), "down"

vars == <<live, log, inbox, link, queue, opens, current, known,
          cursor, shown, attached, whole, server>>
screen == <<current, known, cursor, shown, attached>>

Larger(a, b) == IF a > b THEN a ELSE b

None == "none"
Event(kind, seq) == [kind |-> kind, seq |-> seq, of |-> None]
Entry(seq, m) == [kind |-> "entry", seq |-> seq, of |-> m]
Request(kind, after) == [kind |-> kind, after |-> after]

EventKinds == {"threads", "snapshot", "entry", "complete", "closed", "missing",
               "ahead"}
RequestKinds == {"list", "attach"}

(* response_tx.send: every connection gets it, nobody else ever will. *)
Broadcast(events) ==
    queue' = [c \in Clients |-> IF link[c] = "open" THEN queue[c] \o events ELSE queue[c]]

Blank == [m \in Messages |-> 0]

Init == /\ live = TRUE
        /\ log = <<>>
        /\ inbox = <<>>
        /\ link = [c \in Clients |-> "none"]
        /\ queue = [c \in Clients |-> <<>>]
        /\ opens = 0
        /\ current = [c \in Clients |-> FALSE]
        /\ known = [c \in Clients |-> FALSE]
        /\ cursor = [c \in Clients |-> 0]
        /\ shown = [c \in Clients |-> Blank]
        /\ attached = [c \in Clients |-> FALSE]
        /\ whole = [c \in Clients |-> FALSE]
        /\ server = "up"

-----------------------------------------------------------------------------
(* The thread: what the rest of the daemon journals and broadcasts. *)

(***************************************************************************)
(* journal_and_broadcast_thread_event: the entry gets the next thread_seq, *)
(* is appended and is broadcast, in one synchronous call.                  *)
(***************************************************************************)
Journal(m) ==
    /\ server # "down"
    /\ live
    /\ Len(log) < MaxLog
    /\ log' = Append(log, m)
    /\ Broadcast(<<Entry(Len(log) + 1, m)>>)
    /\ UNCHANGED <<live, inbox, link, opens, screen, whole, server>>

(* handle_close_thread: the log goes with the thread. *)
CloseThread ==
    /\ server # "down"
    /\ live
    /\ live' = FALSE
    /\ log' = <<>>
    /\ Broadcast(<<Event("closed", 0)>>)
    /\ UNCHANGED <<inbox, link, opens, screen, whole, server>>

-----------------------------------------------------------------------------
(* Connections. *)

(***************************************************************************)
(* accept and handle_connection: the connection subscribes to what is sent *)
(* from now on.  Both clients begin with list_agents and list_threads (one *)
(* request and one answer here, so a lag never parts the two answers); they*)
(* keep what they had on the screen.  What was journalled since the last   *)
(* connection has passed a client by.                                      *)
(***************************************************************************)
Connect(c) ==
    /\ server = "up"
    /\ opens < MaxOpens
    /\ link[c] = "none"
    /\ opens' = opens + 1
    /\ link' = [link EXCEPT ![c] = "open"]
    /\ inbox' = Append(inbox, Request("list", 0))
    /\ whole' = [whole EXCEPT ![c] = FALSE]
    /\ UNCHANGED <<live, log, queue, current, known, cursor, shown, attached, server>>

Drop(c) == /\ link' = [link EXCEPT ![c] = "none"]
           /\ queue' = [queue EXCEPT ![c] = <<>>]
           /\ UNCHANGED <<live, log, inbox, opens, screen, whole, server>>

(* The socket breaks, or the client goes away. *)
Disconnect(c) == link[c] = "open" /\ Drop(c)

(* The connection's task sees the shutdown, sends the notice and leaves. *)
SendShutdownNotice(c) == server = "stopping" /\ link[c] = "open" /\ Drop(c)

(***************************************************************************)
(* RecvError::Lagged: the events the channel no longer holds are skipped   *)
(* and the connection goes on with the oldest it has.                      *)
(***************************************************************************)
Lagged(c) == Len(queue[c]) > Capacity

Lag(c) ==
    /\ Lagged(c)
    /\ queue' = [queue EXCEPT ![c] = SubSeq(@, Len(@) + 1 - Capacity, Len(@))]
    /\ whole' = [whole EXCEPT ![c] = FALSE]
    /\ UNCHANGED <<live, log, inbox, link, opens, screen, server>>

-----------------------------------------------------------------------------
(* The server's message loop. *)

(* Mutant: the replay begins one entry late. *)
ReplayAfterNext(after) ==
    [i \in 1 .. (IF Len(log) > after THEN Len(log) - after - 1 ELSE 0) |-> after + 1 + i]

(* ThreadEventLog::replay_after, as the numbers of the replayed entries. *)
ReplayAfter(after) == [i \in 1 .. Len(log) - after |-> after + i]

(* Mutant: the answer announces the number the next entry will get as the tail. *)
AttachThreadNextSeq(after) ==
    IF ~live THEN <<Event("missing", 0)>>
    ELSE IF after > Len(log) THEN <<Event("ahead", after)>>
    ELSE <<Event("snapshot", Len(log) + 1)>>
         \o [i \in 1 .. Len(log) - after |-> Entry(after + i, log[after + i])]
         \o <<Event("complete", Len(log) + 1)>>

(* Mutant: thread_replay_complete is only sent when there was something to replay. *)
AttachThreadSilent(after) ==
    IF ~live THEN <<Event("missing", 0)>>
    ELSE IF after > Len(log) THEN <<Event("ahead", after)>>
    ELSE <<Event("snapshot", Len(log))>>
         \o [i \in 1 .. Len(log) - after |-> Entry(after + i, log[after + i])]
         \o (IF Len(log) > after THEN <<Event("complete", Len(log))>> ELSE <<>>)

(***************************************************************************)
(* handle_attach_thread: an unknown thread, and a cursor ahead of the      *)
(* tail, are refused; otherwise the whole answer is broadcast at once.     *)
(***************************************************************************)
AttachThread(after) ==
    IF ~live THEN <<Event("missing", 0)>>
    ELSE IF after > Len(log) THEN <<Event("ahead", after)>>
    ELSE <<Event("snapshot", Len(log))>>
         \o [i \in 1 .. Len(ReplayAfter(after)) |->
                 Entry(ReplayAfter(after)[i], log[ReplayAfter(after)[i]])]
         \o <<Event("complete", Len(log))>>

Answer(request) ==
    IF request.kind = "attach" THEN AttachThread(request.after)
    ELSE <<Event("threads", IF live THEN 1 ELSE 0)>>

HandleClientMessage ==
    /\ server # "down"
    /\ inbox # <<>>
    /\ Broadcast(Answer(Head(inbox)))
    /\ inbox' = Tail(inbox)
    /\ UNCHANGED <<live, log, link, opens, screen, whole, server>>

-----------------------------------------------------------------------------
(* The clients. *)

Set(f, c, v) == [f EXCEPT ![c] = v]

(***************************************************************************)
(* Taking an entry: page and store put the message in, or replace the one  *)
(* with the same id, be it older or newer.                                 *)
(***************************************************************************)
Upsert(c, e) == [shown EXCEPT ![c][e.of] = e.seq]

(***************************************************************************)
(* selectThread: the page forgets what it showed and attaches from 0, so   *)
(* everything journalled until the answer will come with the answer.       *)
(***************************************************************************)
Select(c) ==
    /\ current' = Set(current, c, TRUE)
    /\ attached' = Set(attached, c, FALSE)
    /\ shown' = Set(shown, c, Blank)
    /\ whole' = Set(whole, c, TRUE)
    /\ inbox' = Append(inbox, Request("attach", 0))

(* The page's handleEvent, for the events that change what it keeps. *)
PageHandles(c, e) ==
    /\ known' = CASE e.kind = "threads" -> Set(known, c, e.seq = 1)
                  [] e.kind = "closed"  -> Set(known, c, FALSE)
                  [] OTHER              -> known
    /\ IF e.kind = "threads" /\ e.seq = 1 /\ ~current[c] THEN Select(c)
       ELSE /\ attached' = IF e.kind = "complete" THEN Set(attached, c, TRUE) ELSE attached
            /\ current' = IF e.kind = "closed" THEN Set(current, c, FALSE) ELSE current
            /\ shown' = CASE e.kind = "entry"  -> Upsert(c, e)
                          [] e.kind = "closed" -> Set(shown, c, Blank)
                          [] OTHER             -> shown
            /\ UNCHANGED <<whole, inbox>>
    /\ UNCHANGED cursor

(***************************************************************************)
(* The store's handle: the cursor follows every entry, the snapshot and    *)
(* the end of a replay.  thread_list attaches after the cursor when there  *)
(* is no snapshot of the thread or the connection is still recovering, but *)
(* the answer to list_agents, which the store asks for first, has already  *)
(* confirmed the connection (noteSuccessfulConnection): a store that has a *)
(* snapshot does not attach again.                                         *)
(***************************************************************************)
StoreHandles(c, e) ==
    /\ known' = CASE e.kind = "snapshot" -> Set(known, c, TRUE)
                  [] e.kind = "closed" \/ e = Event("threads", 0) -> Set(known, c, FALSE)
                  [] OTHER -> known
    /\ cursor' = CASE e.kind \in {"entry", "snapshot", "complete"} ->
                          Set(cursor, c, Larger(cursor[c], e.seq))
                   [] e.kind = "closed" \/ e = Event("threads", 0) -> Set(cursor, c, 0)
                   [] OTHER -> cursor
    /\ shown' = CASE e.kind = "entry" -> Upsert(c, e)
                  [] e.kind = "closed" \/ e = Event("threads", 0) -> Set(shown, c, Blank)
                  [] OTHER -> shown
    /\ current' = CASE e.kind = "closed" -> Set(current, c, FALSE)
                    [] e = Event("threads", 1) -> Set(current, c, TRUE)
                    [] OTHER -> current
    /\ inbox' = IF e = Event("threads", 1) /\ ~known[c]
                THEN Append(inbox, Request("attach", cursor[c])) ELSE inbox
    /\ UNCHANGED <<attached, whole>>

(* The connection takes the next event and the client handles it. *)
Receive(c) ==
    /\ queue[c] # <<>>
    /\ ~Lagged(c)
    /\ queue' = [queue EXCEPT ![c] = Tail(@)]
    /\ IF c \in Pages THEN PageHandles(c, Head(queue[c])) ELSE StoreHandles(c, Head(queue[c]))
    /\ UNCHANGED <<live, log, link, opens, server>>

(* The user picks the thread: selectThread on a page, attachThread in a store. *)
PickThread(c) ==
    /\ link[c] = "open"
    /\ known[c]
    /\ opens < MaxOpens
    /\ opens' = opens + 1
    /\ IF c \in Pages THEN Select(c)
       ELSE /\ inbox' = Append(inbox, Request("attach", cursor[c]))
            /\ current' = Set(current, c, TRUE)
            /\ UNCHANGED <<attached, shown, whole>>
    /\ UNCHANGED <<live, log, link, queue, known, cursor, server>>

-----------------------------------------------------------------------------
(* Shutdown. *)

(* The accept loop sees the shutdown signal and stops accepting. *)
Stop == /\ server = "up"
        /\ server' = "stopping"
        /\ UNCHANGED <<live, log, inbox, link, queue, opens, screen, whole>>

(***************************************************************************)
(* run waits for its connections, drops its own sender, and the app task   *)
(* ends when it has handled what was sent before.                          *)
(***************************************************************************)
ServerEnds ==
    /\ server = "stopping"
    /\ \A c \in Clients : link[c] = "none"
    /\ inbox = <<>>
    /\ server' = "down"
    /\ UNCHANGED <<live, log, inbox, link, queue, opens, screen, whole>>

Next == \/ \E m \in Messages : Journal(m)
        \/ CloseThread
        \/ HandleClientMessage
        \/ Stop
        \/ ServerEnds
        \/ \E c \in Clients : \/ Connect(c)
                              \/ Disconnect(c)
                              \/ SendShutdownNotice(c)
                              \/ Lag(c)
                              \/ Receive(c)
                              \/ PickThread(c)

Spec == Init /\ [][Next]_vars

(***************************************************************************)
(* The tasks of the daemon's runtime are run, and an open socket delivers; *)
(* nothing makes a client connect, a user pick or the thread go on.        *)
(***************************************************************************)
Fairness ==
    /\ WF_vars(HandleClientMessage)
    /\ WF_vars(ServerEnds)
    /\ \A c \in Clients : /\ WF_vars(Receive(c))
                          /\ WF_vars(Lag(c))
                          /\ WF_vars(SendShutdownNotice(c))

FairSpec == Spec /\ Fairness
-----------------------------------------------------------------------------
(* Properties. *)

(* The variables keep their types. *)
TypeOK ==
    /\ live \in BOOLEAN
    /\ log \in Seq(Messages)
    /\ \A c \in Clients : \A i \in DOMAIN queue[c] :
           /\ queue[c][i].kind \in EventKinds
           /\ queue[c][i].seq \in Nat
           /\ queue[c][i].of \in Messages \cup {None}
    /\ \A i \in DOMAIN inbox : inbox[i].kind \in RequestKinds /\ inbox[i].after \in Nat
    /\ link \in [Clients -> {"none", "open"}]
    /\ opens \in 0 .. MaxOpens
    /\ {current, known, attached, whole} \subseteq [Clients -> BOOLEAN]
    /\ cursor \in [Clients -> 0 .. MaxLog]
    /\ shown \in [Clients -> [Messages -> 0 .. MaxLog]]
    /\ server \in {"up", "stopping", "down"}

LatestEntry(m) ==
    LET entries == {i \in DOMAIN log : log[i] = m}
    IN  IF entries = {} THEN 0 ELSE CHOOSE i \in entries : \A j \in entries : j <= i

ShowsLog(c) == \A m \in Messages : shown[c][m] = LatestEntry(m)

(***************************************************************************)
(* A page that selected the thread, and was neither disconnected nor made  *)
(* to skip events since, shows the latest state of every message once its  *)
(* request is answered and it has handled what was sent: neither the live  *)
(* entries that came before its replay nor the replays of other clients    *)
(* leave it with an old text (handle_attach_thread, selectThread and       *)
(* handleEvent).                                                           *)
(***************************************************************************)
PageShowsLog ==
    \A c \in Pages :
        live /\ link[c] = "open" /\ current[c] /\ whole[c] /\ inbox = <<>>
             /\ queue[c] = <<>>
        => ShowsLog(c)

(***************************************************************************)
(* A store's cursor, which follows live entries, snapshots and completions *)
(* of anybody's replay, never gets ahead of the log, so a store is never   *)
(* refused with thread_replay_after_seq_ahead_of_tail (app.rs:1197).       *)
(***************************************************************************)
NeverAheadOfTail ==
    live => \A i \in DOMAIN inbox : inbox[i].after <= Len(log)

(***************************************************************************)
(* A page that selected the thread sees thread_replay_complete, unless it  *)
(* is disconnected or skips events, or the thread is closed: then it may   *)
(* have to do with the error thread_not_found.                             *)
(***************************************************************************)
SelectedIsAttached ==
    \A c \in Pages : current[c] /\ ~attached[c]
        ~> attached[c] \/ ~current[c] \/ link[c] = "none" \/ ~whole[c] \/ ~live

(***************************************************************************)
(* RECONNECT.md:373-378 of a client that lost its connection: it reconnects*)
(* with the cursor from before, and the daemon replays what it missed.  As *)
(* long as a store stays connected and the channel does not overflow, it   *)
(* shows the thread in the end.                                            *)
(***************************************************************************)
ReconnectReplaysMissed ==
    \A c \in Stores : link[c] = "open" /\ current[c] /\ live
        ~> ShowsLog(c) \/ link[c] = "none" \/ ~live \/ ~current[c]

=============================================================================
