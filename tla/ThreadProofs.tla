---------------------------- MODULE ThreadProofs ----------------------------
(***************************************************************************)
(* The messages of a thread: their way to the clients' screens             *)
(* (EventFanout) and to the agents (MessageRouting).                       *)
(*                                                                         *)
(* NeverAheadOfTail and PageShowsLog hold for any number of pages, stores, *)
(* messages and entries, any capacity of the broadcast channel and any     *)
(* number of connections.  Neither is inductive.  That no cursor is ahead  *)
(* of the log needs that everything on its way to a client numbers an      *)
(* entry of the log (Genuine).  That a page which handled everything shows *)
(* the log needs to be said of every moment before: each entry is either   *)
(* already on the screen or in the queue, with nothing older of the same   *)
(* message behind it, or the page's own request still waits to be answered *)
(* (Fresh).                                                                *)
(*                                                                         *)
(* HandlesUnique, PromptedAreAddressed and AssignedIsSent hold for any     *)
(* participants and messages.  A free suffix exists by the pigeonhole      *)
(* principle (SuffixIsFree).  That nothing is left out is an invariant of  *)
(* the loop over the mentions (LoopOK), shown by the least token that      *)
(* would break it, as is that the loop's recursion has a solution at all   *)
(* (LoopRuns).                                                             *)
(***************************************************************************)
EXTENDS EventFanout, MessageRouting, FiniteSetTheorems, WellFoundedInduction, TLAPS

-----------------------------------------------------------------------------
(* Types. *)

Numbered == {"entry", "snapshot", "complete"}

(* What may be queued: entries say which message they are of, and what      *)
(* moves a cursor is a number the log can reach.                            *)
Queued ==
    {e \in [kind : EventKinds, seq : Nat, of : Messages \cup {None}] :
        /\ e.kind = "entry" => e.of \in Messages
        /\ e.kind \in Numbered => e.seq <= MaxLog}

Requests == [kind : RequestKinds, after : Nat]

Types ==
    /\ live \in BOOLEAN
    /\ log \in Seq(Messages) /\ Len(log) <= MaxLog
    /\ inbox \in Seq(Requests)
    /\ link \in [Clients -> {"none", "open"}]
    /\ queue \in [Clients -> Seq(Queued)]
    /\ opens \in 0 .. MaxOpens
    /\ current \in [Clients -> BOOLEAN]
    /\ known \in [Clients -> BOOLEAN]
    /\ cursor \in [Clients -> 0 .. MaxLog]
    /\ shown \in [Clients -> [Messages -> 0 .. MaxLog]]
    /\ attached \in [Clients -> BOOLEAN]
    /\ whole \in [Clients -> BOOLEAN]
    /\ server \in {"up", "stopping", "down"}

(* Types hold of an empty log with nobody connected. *)
LEMMA InitTypes == Init => Types
<1> SUFFICES ASSUME Init PROVE Types
    OBVIOUS
<1>1. <<>> \in Seq(Messages) /\ <<>> \in Seq(Requests) /\ <<>> \in Seq(Queued) /\ Len(<<>>) = 0
    OBVIOUS
<1>2. Blank \in [Messages -> 0 .. MaxLog]
    BY FanoutAssumption DEF Blank
<1> QED BY <1>1, <1>2, FanoutAssumption DEF Init, Types

(* What is broadcast reaches the queues of the open connections. *)
LEMMA BroadcastTypes ==
    ASSUME Types, NEW events \in Seq(Queued), Broadcast(events)
    PROVE  queue' \in [Clients -> Seq(Queued)]
BY DEF Types, Broadcast

(* The answer to attach_thread, event by event. *)
LEMMA AttachIs ==
    ASSUME Types, live, NEW after \in Nat, after <= Len(log)
    PROVE  /\ AttachThread(after) \in Seq(Queued)
           /\ Len(AttachThread(after)) = Len(log) - after + 2
           /\ AttachThread(after)[1] = Event("snapshot", Len(log))
           /\ \A k \in after + 1 .. Len(log) :
                 AttachThread(after)[k - after + 1] = Entry(k, log[k])
           /\ AttachThread(after)[Len(log) - after + 2] = Event("complete", Len(log))
<1> DEFINE n == Len(log) - after
           replay == [i \in 1 .. Len(ReplayAfter(after)) |->
                         Entry(ReplayAfter(after)[i], log[ReplayAfter(after)[i]])]
           first == Event("snapshot", Len(log))
           last == Event("complete", Len(log))
<1>1. Len(log) \in Nat /\ n \in Nat /\ Len(log) <= MaxLog /\ MaxLog \in Nat
    BY FanoutAssumption DEF Types
<1>2. AttachThread(after) = (<<first>> \o replay) \o <<last>>
    BY <1>1 DEF AttachThread
<1>3. ReplayAfter(after) = [i \in 1 .. n |-> after + i] /\ Len(ReplayAfter(after)) = n
    BY <1>1 DEF ReplayAfter
<1>4. replay = [i \in 1 .. n |-> Entry(after + i, log[after + i])]
    BY <1>1, <1>3
<1>5. \A i \in 1 .. n : Entry(after + i, log[after + i]) \in Queued
    <2>1. SUFFICES ASSUME NEW i \in 1 .. n PROVE Entry(after + i, log[after + i]) \in Queued
        OBVIOUS
    <2>2. after + i \in 1 .. Len(log) /\ after + i \in Nat /\ after + i <= MaxLog
        BY <1>1
    <2>3. log[after + i] \in Messages
        BY <2>2 DEF Types
    <2> QED BY <2>2, <2>3 DEF Entry, Queued, EventKinds, Numbered
<1>6. first \in Queued /\ last \in Queued
    BY <1>1 DEF Event, Queued, EventKinds, Numbered, None
<1> HIDE DEF first, last, replay, n
<1>7. /\ replay \in Seq(Queued) /\ Len(replay) = n
      /\ \A i \in 1 .. n : replay[i] = Entry(after + i, log[after + i])
    BY <1>1, <1>4, <1>5
<1>8. /\ AttachThread(after) \in Seq(Queued) /\ Len(AttachThread(after)) = n + 2
      /\ AttachThread(after)[1] = first /\ AttachThread(after)[n + 2] = last
      /\ \A i \in 1 .. n : AttachThread(after)[i + 1] = replay[i]
    BY <1>1, <1>2, <1>6, <1>7
<1>9. ASSUME NEW k \in after + 1 .. Len(log)
      PROVE  AttachThread(after)[k - after + 1] = Entry(k, log[k])
    <2>1. k - after \in 1 .. n /\ after + (k - after) = k
        BY <1>1 DEF n
    <2> QED BY <1>7, <1>8, <2>1
<1> QED BY <1>8, <1>9 DEF first, last, n

(* What the server answers to a request is a list of events. *)
LEMMA AnswerTypes ==
    ASSUME Types, NEW request \in Requests
    PROVE  Answer(request) \in Seq(Queued)
<1>1. request.after \in Nat
    BY DEF Requests
<1>2. /\ Event("missing", 0) \in Queued
      /\ Event("ahead", request.after) \in Queued
      /\ \A b \in {0, 1} : Event("threads", b) \in Queued
    BY <1>1 DEF Event, Queued, EventKinds, Numbered, None
<1>3. CASE request.kind = "attach" /\ live /\ ~(request.after > Len(log))
    <2>1. request.after <= Len(log)
        BY <1>1, <1>3 DEF Types
    <2> QED BY <1>1, <1>3, <2>1, AttachIs DEF Answer
<1>4. CASE request.kind = "attach" /\ ~(live /\ ~(request.after > Len(log)))
    BY <1>2, <1>4 DEF Answer, AttachThread
<1>5. CASE request.kind # "attach"
    <2>1. Answer(request) = <<Event("threads", IF live THEN 1 ELSE 0)>>
        BY <1>5 DEF Answer
    <2> QED BY <1>2, <2>1
<1> QED BY <1>3, <1>4, <1>5

(* The event a client takes, and what is left. *)
LEMMA HeadOf ==
    ASSUME Types, NEW c \in Clients, queue[c] # <<>>
    PROVE  /\ Head(queue[c]) \in Queued /\ Head(queue[c]) = queue[c][1]
           /\ Tail(queue[c]) \in Seq(Queued) /\ Len(queue[c]) \in Nat \ {0}
           /\ Len(Tail(queue[c])) = Len(queue[c]) - 1
           /\ \A i \in 1 .. Len(queue[c]) - 1 : Tail(queue[c])[i] = queue[c][i + 1]
BY DEF Types

(* Selecting a thread keeps the types. *)
LEMMA SelectTypes ==
    ASSUME Types, NEW c \in Clients, Select(c)
    PROVE  /\ current' \in [Clients -> BOOLEAN] /\ attached' \in [Clients -> BOOLEAN]
           /\ whole' \in [Clients -> BOOLEAN] /\ shown' \in [Clients -> [Messages -> 0 .. MaxLog]]
           /\ inbox' \in Seq(Requests)
<1>1. Blank \in [Messages -> 0 .. MaxLog]
    BY FanoutAssumption DEF Blank
<1>2. Request("attach", 0) \in Requests
    BY DEF Request, Requests, RequestKinds
<1> QED BY <1>1, <1>2 DEF Types, Select, Set

(* Putting an entry on the screen. *)
LEMMA UpsertTypes ==
    ASSUME Types, NEW c \in Clients, NEW e \in Queued, e.kind = "entry"
    PROVE  Upsert(c, e) \in [Clients -> [Messages -> 0 .. MaxLog]]
<1>1. e.of \in Messages /\ e.seq \in 0 .. MaxLog
    BY FanoutAssumption DEF Queued, Numbered
<1> QED BY <1>1 DEF Types, Upsert

(* So does an event the page of the console handles, *)
LEMMA PageTypes ==
    ASSUME Types, NEW c \in Clients, NEW e \in Queued, PageHandles(c, e)
    PROVE  /\ current' \in [Clients -> BOOLEAN] /\ attached' \in [Clients -> BOOLEAN]
           /\ whole' \in [Clients -> BOOLEAN] /\ shown' \in [Clients -> [Messages -> 0 .. MaxLog]]
           /\ inbox' \in Seq(Requests) /\ known' \in [Clients -> BOOLEAN]
           /\ cursor' \in [Clients -> 0 .. MaxLog]
<1>1. known' \in [Clients -> BOOLEAN]
    BY DEF Types, PageHandles, Set
<1>2. cursor' \in [Clients -> 0 .. MaxLog]
    BY DEF Types, PageHandles
<1>3. CASE e.kind = "threads" /\ e.seq = 1 /\ ~current[c]
    BY <1>1, <1>2, <1>3, SelectTypes DEF PageHandles
<1>4. CASE ~(e.kind = "threads" /\ e.seq = 1 /\ ~current[c])
    <2>1. Blank \in [Messages -> 0 .. MaxLog]
        BY FanoutAssumption DEF Blank
    <2>2. shown' \in [Clients -> [Messages -> 0 .. MaxLog]]
        <3>1. CASE e.kind = "entry"
            BY <1>4, <3>1, UpsertTypes DEF PageHandles
        <3>2. CASE e.kind = "closed"
            BY <1>4, <2>1, <3>2 DEF PageHandles, Types, Set
        <3>3. CASE e.kind \notin {"entry", "closed"}
            BY <1>4, <3>3 DEF PageHandles, Types
        <3> QED BY <3>1, <3>2, <3>3
    <2>3. /\ current' \in [Clients -> BOOLEAN] /\ attached' \in [Clients -> BOOLEAN]
          /\ whole' \in [Clients -> BOOLEAN] /\ inbox' \in Seq(Requests)
        BY <1>4 DEF PageHandles, Types, Set
    <2> QED BY <1>1, <1>2, <2>2, <2>3
<1> QED BY <1>3, <1>4

(* and one the store of the app handles. *)
LEMMA StoreTypes ==
    ASSUME Types, NEW c \in Clients, NEW e \in Queued, StoreHandles(c, e)
    PROVE  /\ current' \in [Clients -> BOOLEAN] /\ attached' \in [Clients -> BOOLEAN]
           /\ whole' \in [Clients -> BOOLEAN] /\ shown' \in [Clients -> [Messages -> 0 .. MaxLog]]
           /\ inbox' \in Seq(Requests) /\ known' \in [Clients -> BOOLEAN]
           /\ cursor' \in [Clients -> 0 .. MaxLog]
<1> DEFINE gone == e.kind = "closed" \/ e = Event("threads", 0)
<1>0. e.kind \in Numbered => ~gone
    BY DEF Event, Numbered
<1>1. known' \in [Clients -> BOOLEAN]
    BY DEF Types, StoreHandles, Set
<1>2. cursor' \in [Clients -> 0 .. MaxLog]
    <2>1. CASE e.kind \in Numbered
        <3>1. e.seq \in 0 .. MaxLog /\ cursor[c] \in 0 .. MaxLog
            BY <2>1, FanoutAssumption DEF Queued, Types
        <3>2. Larger(cursor[c], e.seq) \in 0 .. MaxLog
            BY <3>1 DEF Larger
        <3>3. cursor' = Set(cursor, c, Larger(cursor[c], e.seq))
            BY <1>0, <2>1 DEF StoreHandles, Numbered
        <3> QED BY <3>2, <3>3 DEF Types, Set
    <2>2. CASE e.kind \notin Numbered /\ gone
        BY <2>2, FanoutAssumption DEF Types, StoreHandles, Set, Numbered
    <2>3. CASE e.kind \notin Numbered /\ ~gone
        BY <2>3 DEF Types, StoreHandles, Numbered
    <2> QED BY <2>1, <2>2, <2>3
<1>3. shown' \in [Clients -> [Messages -> 0 .. MaxLog]]
    <2>1. Blank \in [Messages -> 0 .. MaxLog]
        BY FanoutAssumption DEF Blank
    <2>2. CASE e.kind = "entry"
        <3>1. shown' = Upsert(c, e)
            BY <1>0, <2>2 DEF StoreHandles, Numbered
        <3> QED BY <2>2, <3>1, UpsertTypes
    <2>3. CASE e.kind # "entry" /\ gone
        BY <2>1, <2>3 DEF StoreHandles, Types, Set
    <2>4. CASE e.kind # "entry" /\ ~gone
        BY <2>4 DEF StoreHandles, Types
    <2> QED BY <2>2, <2>3, <2>4
<1>4. current' \in [Clients -> BOOLEAN]
    BY DEF StoreHandles, Types, Set
<1>5. inbox' \in Seq(Requests)
    <2>1. Request("attach", cursor[c]) \in Requests
        BY FanoutAssumption DEF Types, Request, Requests, RequestKinds
    <2> QED BY <2>1 DEF StoreHandles, Types
<1>6. attached' \in [Clients -> BOOLEAN] /\ whole' \in [Clients -> BOOLEAN]
    BY DEF StoreHandles, Types
<1> QED BY <1>1, <1>2, <1>3, <1>4, <1>5, <1>6

(* Types are inductive: one case for each action. *)
LEMMA TypesStep == Types /\ [Next]_vars => Types'
<1> SUFFICES ASSUME Types, [Next]_vars PROVE Types'
    OBVIOUS
<1>1. ASSUME NEW m \in Messages, Journal(m) PROVE Types'
    <2>1. Len(log) \in Nat /\ Len(log) + 1 <= MaxLog
        BY <1>1, FanoutAssumption DEF Journal, Types
    <2>2. Entry(Len(log) + 1, m) \in Queued
        BY <2>1 DEF Entry, Queued, EventKinds
    <2>3. queue' \in [Clients -> Seq(Queued)]
        <3>1. <<Entry(Len(log) + 1, m)>> \in Seq(Queued)
            BY <2>2
        <3> QED BY <1>1, <3>1, BroadcastTypes DEF Journal
    <2>4. log' \in Seq(Messages) /\ Len(log') <= MaxLog
        BY <1>1, <2>1 DEF Journal, Types
    <2> QED BY <1>1, <2>3, <2>4 DEF Journal, Types, screen
<1>2. CASE CloseThread
    <2>1. Event("closed", 0) \in Queued
        BY DEF Event, Queued, EventKinds, Numbered, None
    <2>2. queue' \in [Clients -> Seq(Queued)]
        <3>1. <<Event("closed", 0)>> \in Seq(Queued)
            BY <2>1
        <3> QED BY <1>2, <3>1, BroadcastTypes DEF CloseThread
    <2>3. log' \in Seq(Messages) /\ Len(log') <= MaxLog
        BY <1>2, FanoutAssumption DEF CloseThread
    <2> QED BY <1>2, <2>2, <2>3 DEF CloseThread, Types, screen
<1>3. CASE HandleClientMessage
    <2>1. Head(inbox) \in Requests /\ Tail(inbox) \in Seq(Requests)
        BY <1>3 DEF HandleClientMessage, Types
    <2>2. queue' \in [Clients -> Seq(Queued)]
        BY <1>3, <2>1, AnswerTypes, BroadcastTypes DEF HandleClientMessage
    <2> QED BY <1>3, <2>1, <2>2 DEF HandleClientMessage, Types, screen
<1>4. CASE Stop \/ ServerEnds
    BY <1>4 DEF Stop, ServerEnds, Types, screen
<1>5. ASSUME NEW c \in Clients, Connect(c) PROVE Types'
    <2>1. Request("list", 0) \in Requests
        BY DEF Request, Requests, RequestKinds
    <2>2. inbox' \in Seq(Requests)
        BY <1>5, <2>1 DEF Connect, Types
    <2>3. opens' \in 0 .. MaxOpens
        BY <1>5, FanoutAssumption DEF Connect, Types
    <2> QED BY <1>5, <2>2, <2>3 DEF Connect, Types
<1>6. ASSUME NEW c \in Clients, Disconnect(c) \/ SendShutdownNotice(c) PROVE Types'
    <2>1. <<>> \in Seq(Queued) /\ Drop(c)
        BY <1>6 DEF Disconnect, SendShutdownNotice
    <2> QED BY <2>1 DEF Drop, Types, screen
<1>7. ASSUME NEW c \in Clients, Lag(c) PROVE Types'
    <2>1. SubSeq(queue[c], Len(queue[c]) + 1 - Capacity, Len(queue[c])) \in Seq(Queued)
        BY <1>7, FanoutAssumption DEF Lag, Lagged, Types
    <2> QED BY <1>7, <2>1 DEF Lag, Types, screen
<1>8. ASSUME NEW c \in Clients, Receive(c) PROVE Types'
    <2> DEFINE e == Head(queue[c])
    <2>1. e \in Queued /\ Tail(queue[c]) \in Seq(Queued)
        BY <1>8, HeadOf DEF Receive
    <2>2. queue' \in [Clients -> Seq(Queued)]
        BY <1>8, <2>1 DEF Receive, Types
    <2>3. PageHandles(c, e) \/ StoreHandles(c, e)
        BY <1>8 DEF Receive
    <2> HIDE DEF e
    <2>4. /\ current' \in [Clients -> BOOLEAN] /\ attached' \in [Clients -> BOOLEAN]
          /\ whole' \in [Clients -> BOOLEAN] /\ shown' \in [Clients -> [Messages -> 0 .. MaxLog]]
          /\ inbox' \in Seq(Requests) /\ known' \in [Clients -> BOOLEAN]
          /\ cursor' \in [Clients -> 0 .. MaxLog]
        BY <2>1, <2>3, PageTypes, StoreTypes
    <2> QED BY <1>8, <2>2, <2>4 DEF Receive, Types
<1>9. ASSUME NEW c \in Clients, PickThread(c) PROVE Types'
    <2>1. opens' \in 0 .. MaxOpens
        BY <1>9, FanoutAssumption DEF PickThread, Types
    <2>2. CASE c \in Pages
        BY <1>9, <2>1, <2>2, SelectTypes DEF PickThread, Types
    <2>3. CASE c \notin Pages
        <3>1. Request("attach", cursor[c]) \in Requests
            BY FanoutAssumption DEF Types, Request, Requests, RequestKinds
        <3>2. inbox' \in Seq(Requests)
            <4>1. inbox' = Append(inbox, Request("attach", cursor[c])) /\ inbox \in Seq(Requests)
                BY <1>9, <2>3 DEF PickThread, Types
            <4> QED BY <3>1, <4>1
        <3>3. current' \in [Clients -> BOOLEAN]
            BY <1>9, <2>3 DEF PickThread, Types, Set
        <3> QED BY <1>9, <2>1, <2>3, <3>2, <3>3 DEF PickThread, Types
    <2> QED BY <2>2, <2>3
<1>10. CASE UNCHANGED vars
    BY <1>10 DEF vars, Types
<1> QED BY <1>1, <1>2, <1>3, <1>4, <1>5, <1>6, <1>7, <1>8, <1>9, <1>10 DEF Next

(* Every queue, request, cursor and screen stays well formed. *)
THEOREM TypeCorrect == Spec => []TypeOK
<1>1. ASSUME Types PROVE TypeOK
    <2>1. ASSUME NEW c \in Clients, NEW i \in DOMAIN queue[c]
          PROVE  /\ queue[c][i].kind \in EventKinds /\ queue[c][i].seq \in Nat
                 /\ queue[c][i].of \in Messages \cup {None}
        <3>1. queue[c][i] \in Queued
            BY <1>1 DEF Types
        <3> QED BY <3>1 DEF Queued
    <2>2. ASSUME NEW i \in DOMAIN inbox
          PROVE  inbox[i].kind \in RequestKinds /\ inbox[i].after \in Nat
        <3>1. inbox[i] \in Requests
            BY <1>1 DEF Types
        <3> QED BY <3>1 DEF Requests
    <2> QED BY <1>1, <2>1, <2>2 DEF Types, TypeOK
<1> QED BY <1>1, InitTypes, TypesStep, PTL DEF Spec

-----------------------------------------------------------------------------
(* What is on its way is of the log. *)

Faithful(l, e) ==
    /\ e.kind = "entry" => e.seq \in 1 .. Len(l) /\ l[e.seq] = e.of
    /\ e.kind \in {"snapshot", "complete"} => e.seq <= Len(l)

(* A message on a screen was taken from an entry of that message. *)
Taken(l, s, m) == s = 0 \/ (s \in 1 .. Len(l) /\ l[s] = m)

(* As long as the thread is there, everything queued, shown, asked for and  *)
(* remembered refers to entries it has.                                     *)
Genuine ==
    live =>
        /\ \A c \in Clients : \A i \in 1 .. Len(queue[c]) : Faithful(log, queue[c][i])
        /\ \A c \in Clients : cursor[c] <= Len(log)
        /\ \A c \in Clients, m \in Messages : Taken(log, shown[c][m], m)
        /\ \A i \in 1 .. Len(inbox) : inbox[i].after <= Len(log)

(* Nothing is queued, shown or asked at first. *)
LEMMA InitGenuine == Init => Genuine
BY DEF Init, Genuine, Taken, Blank

(* A queue after a broadcast: what was in it, then what was sent, if the    *)
(* connection is open.                                                      *)
LEMMA QueueAfter ==
    ASSUME Types, NEW events \in Seq(Queued), Broadcast(events), NEW c \in Clients
    PROVE  /\ queue[c] \in Seq(Queued) /\ Len(queue[c]) \in Nat /\ Len(events) \in Nat
           /\ link[c] # "open" => queue'[c] = queue[c]
           /\ link[c] = "open" =>
                 /\ queue'[c] \in Seq(Queued)
                 /\ Len(queue'[c]) = Len(queue[c]) + Len(events)
                 /\ \A i \in 1 .. Len(queue[c]) : queue'[c][i] = queue[c][i]
                 /\ \A i \in 1 .. Len(events) : queue'[c][Len(queue[c]) + i] = events[i]
<1>1. queue'[c] = IF link[c] = "open" THEN queue[c] \o events ELSE queue[c]
    BY DEF Broadcast
<1>2. queue[c] \in Seq(Queued)
    BY DEF Types
<1> QED BY <1>1, <1>2

(* Sending what is faithful leaves the queues so. *)
LEMMA BroadcastFaithful ==
    ASSUME Types, NEW events \in Seq(Queued), Broadcast(events), NEW l,
           \A c \in Clients : \A i \in 1 .. Len(queue[c]) : Faithful(l, queue[c][i]),
           \A i \in 1 .. Len(events) : Faithful(l, events[i])
    PROVE  \A c \in Clients : \A i \in 1 .. Len(queue'[c]) : Faithful(l, queue'[c][i])
<1> SUFFICES ASSUME NEW c \in Clients, NEW i \in 1 .. Len(queue'[c])
             PROVE  Faithful(l, queue'[c][i])
    OBVIOUS
<1>1. CASE link[c] # "open"
    BY <1>1, QueueAfter
<1>2. CASE link[c] = "open" /\ i \in 1 .. Len(queue[c])
    BY <1>2, QueueAfter
<1>3. CASE link[c] = "open" /\ i \notin 1 .. Len(queue[c])
    <2>1. /\ Len(queue[c]) \in Nat /\ Len(events) \in Nat
          /\ Len(queue'[c]) = Len(queue[c]) + Len(events)
          /\ \A j \in 1 .. Len(events) : queue'[c][Len(queue[c]) + j] = events[j]
        BY <1>3, QueueAfter
    <2>2. i - Len(queue[c]) \in 1 .. Len(events) /\ Len(queue[c]) + (i - Len(queue[c])) = i
        BY <1>3, <2>1
    <2> QED BY <2>1, <2>2
<1> QED BY <1>1, <1>2, <1>3

(* The server answers with entries of its log. *)
LEMMA AnswerFaithful ==
    ASSUME Types, live, NEW request \in Requests, request.after <= Len(log)
    PROVE  \A i \in 1 .. Len(Answer(request)) : Faithful(log, Answer(request)[i])
<1>1. CASE request.kind = "attach"
    <2> DEFINE after == request.after
               a == AttachThread(after)
    <2>1. after \in Nat /\ Len(log) \in Nat /\ after <= Len(log) /\ Answer(request) = a
        BY <1>1 DEF Requests, Types, Answer
    <2>2. /\ Len(a) = Len(log) - after + 2 /\ a[1] = Event("snapshot", Len(log))
          /\ a[Len(log) - after + 2] = Event("complete", Len(log))
          /\ \A k \in after + 1 .. Len(log) : a[k - after + 1] = Entry(k, log[k])
        BY <2>1, AttachIs
    <2> HIDE DEF a, after
    <2>3. SUFFICES ASSUME NEW i \in 1 .. Len(a) PROVE Faithful(log, a[i])
        BY <2>1
    <2>4. CASE i = 1 \/ i = Len(a)
        BY <2>1, <2>2, <2>4 DEF Faithful, Event
    <2>5. CASE i # 1 /\ i # Len(a)
        <3>1. after + i - 1 \in after + 1 .. Len(log) /\ (after + i - 1) - after + 1 = i
            BY <2>1, <2>2, <2>5
        <3>2. a[i] = Entry(after + i - 1, log[after + i - 1]) /\ after + i - 1 \in 1 .. Len(log)
            BY <2>1, <2>2, <3>1
        <3> QED BY <3>2 DEF Faithful, Entry
    <2> QED BY <2>4, <2>5
<1>2. CASE request.kind # "attach"
    <2>1. Answer(request) = <<Event("threads", IF live THEN 1 ELSE 0)>>
        BY <1>2 DEF Answer
    <2> QED BY <2>1 DEF Faithful, Event
<1> QED BY <1>1, <1>2

(* A longer log has what the shorter had. *)
LEMMA LongerLog ==
    ASSUME Types, NEW m \in Messages
    PROVE  /\ \A e \in Queued : Faithful(log, e) => Faithful(Append(log, m), e)
           /\ \A s \in Nat, n \in Messages : Taken(log, s, n) => Taken(Append(log, m), s, n)
           /\ Len(Append(log, m)) = Len(log) + 1 /\ Len(log) \in Nat
           /\ Append(log, m)[Len(log) + 1] = m
           /\ \A k \in 1 .. Len(log) : Append(log, m)[k] = log[k]
<1>1. /\ Len(Append(log, m)) = Len(log) + 1 /\ Len(log) \in Nat
      /\ Append(log, m)[Len(log) + 1] = m
      /\ \A k \in 1 .. Len(log) : Append(log, m)[k] = log[k]
    BY DEF Types
<1>2. \A e \in Queued : Faithful(log, e) => Faithful(Append(log, m), e)
    BY <1>1 DEF Faithful, Queued
<1>3. \A s \in Nat, n \in Messages : Taken(log, s, n) => Taken(Append(log, m), s, n)
    BY <1>1 DEF Taken
<1> QED BY <1>1, <1>2, <1>3

(* The three things a client may do to a screen, and to a request. *)
LEMMA ScreenTaken ==
    ASSUME Types, NEW c \in Clients, NEW e \in Queued, Faithful(log, e),
           \A d \in Clients, m \in Messages : Taken(log, shown[d][m], m),
           \/ shown' = shown
           \/ shown' = Set(shown, c, Blank)
           \/ e.kind = "entry" /\ shown' = Upsert(c, e)
    PROVE  \A d \in Clients, m \in Messages : Taken(log, shown'[d][m], m)
<1>1. shown \in [Clients -> [Messages -> 0 .. MaxLog]]
    BY DEF Types
<1>2. CASE shown' = shown
    BY <1>2
<1>3. CASE shown' = Set(shown, c, Blank)
    BY <1>1, <1>3 DEF Set, Blank, Taken
<1>4. CASE e.kind = "entry" /\ shown' = Upsert(c, e)
    <2>1. e.seq \in 1 .. Len(log) /\ log[e.seq] = e.of /\ e.of \in Messages
        BY <1>4 DEF Faithful, Queued
    <2> QED BY <1>1, <1>4, <2>1 DEF Upsert, Taken
<1> QED BY <1>2, <1>3, <1>4

(* One more request that asks within the log. *)
LEMMA AskedWithin ==
    ASSUME Types, NEW n \in Nat, n <= Len(log), NEW kind \in RequestKinds,
           \A i \in 1 .. Len(inbox) : inbox[i].after <= Len(log),
           inbox' = Append(inbox, Request(kind, n))
    PROVE  \A i \in 1 .. Len(inbox') : inbox'[i].after <= Len(log)
<1>1. Request(kind, n) \in Requests /\ Request(kind, n).after = n
    BY DEF Request, Requests
<1>2. inbox \in Seq(Requests)
    BY DEF Types
<1>3. \A i \in 1 .. Len(inbox') : \/ i \in 1 .. Len(inbox) /\ inbox'[i] = inbox[i]
                                  \/ inbox'[i] = Request(kind, n)
    BY <1>1, <1>2
<1> QED BY <1>1, <1>3

(* A client that handles an event of the log moves its cursor within it. *)
LEMMA HandledGenuine ==
    ASSUME Types, Genuine, live, NEW c \in Clients, NEW e \in Queued, Faithful(log, e),
           PageHandles(c, e) \/ StoreHandles(c, e)
    PROVE  /\ \A d \in Clients : cursor'[d] <= Len(log)
           /\ \A d \in Clients, m \in Messages : Taken(log, shown'[d][m], m)
           /\ \A i \in 1 .. Len(inbox') : inbox'[i].after <= Len(log)
<1>1. /\ \A d \in Clients : cursor[d] <= Len(log)
      /\ \A d \in Clients, m \in Messages : Taken(log, shown[d][m], m)
      /\ \A i \in 1 .. Len(inbox) : inbox[i].after <= Len(log)
      /\ Len(log) \in Nat /\ cursor[c] \in Nat
    BY FanoutAssumption DEF Genuine, Types
<1>2. "attach" \in RequestKinds
    BY DEF RequestKinds
<1>3. CASE PageHandles(c, e)
    <2>1. cursor' = cursor
        BY <1>3 DEF PageHandles
    <2>2. \/ shown' = shown
          \/ shown' = Set(shown, c, Blank)
          \/ e.kind = "entry" /\ shown' = Upsert(c, e)
        BY <1>3 DEF PageHandles, Select
    <2>3. inbox' = inbox \/ inbox' = Append(inbox, Request("attach", 0))
        BY <1>3 DEF PageHandles, Select
    <2>4. \A i \in 1 .. Len(inbox') : inbox'[i].after <= Len(log)
        BY <1>1, <1>2, <2>3, AskedWithin
    <2> QED BY <1>1, <2>1, <2>2, <2>4, ScreenTaken
<1>4. CASE StoreHandles(c, e)
    <2>1. \/ cursor' = cursor
          \/ cursor' = Set(cursor, c, 0)
          \/ e.kind \in Numbered /\ cursor' = Set(cursor, c, Larger(cursor[c], e.seq))
        BY <1>4 DEF StoreHandles, Numbered
    <2>2. e.kind \in Numbered => e.seq <= Len(log) /\ e.seq \in Nat
        BY <1>1 DEF Faithful, Numbered, Queued
    <2>3. e.kind \in Numbered => Larger(cursor[c], e.seq) <= Len(log)
        BY <1>1, <2>2 DEF Larger
    <2>4. \A d \in Clients : cursor'[d] <= Len(log)
        <3>1. cursor \in [Clients -> 0 .. MaxLog]
            BY DEF Types
        <3>2. CASE cursor' = cursor \/ cursor' = Set(cursor, c, 0)
            BY <1>1, <3>1, <3>2 DEF Set
        <3>3. CASE e.kind \in Numbered /\ cursor' = Set(cursor, c, Larger(cursor[c], e.seq))
            BY <1>1, <2>3, <3>1, <3>3 DEF Set
        <3> QED BY <2>1, <3>2, <3>3
    <2>5. \/ shown' = shown
          \/ shown' = Set(shown, c, Blank)
          \/ e.kind = "entry" /\ shown' = Upsert(c, e)
        BY <1>4 DEF StoreHandles
    <2>6. inbox' = inbox \/ inbox' = Append(inbox, Request("attach", cursor[c]))
        BY <1>4 DEF StoreHandles
    <2>7. \A i \in 1 .. Len(inbox') : inbox'[i].after <= Len(log)
        BY <1>1, <1>2, <2>6, AskedWithin
    <2> QED BY <1>1, <2>4, <2>5, <2>7, ScreenTaken
<1> QED BY <1>3, <1>4

(* Genuine is inductive: one case for each action. *)
LEMMA GenuineStep == Types /\ Types' /\ Genuine /\ [Next]_vars => Genuine'
<1> SUFFICES ASSUME Types, Types', Genuine, [Next]_vars, live' PROVE Genuine'
    BY DEF Genuine
<1>1. live
    BY DEF Next, vars, Journal, CloseThread, HandleClientMessage, Stop, ServerEnds, Connect,
           Disconnect, SendShutdownNotice, Drop, Lag, Receive, PickThread
<1>2. /\ \A c \in Clients : \A i \in 1 .. Len(queue[c]) : Faithful(log, queue[c][i])
      /\ \A c \in Clients : cursor[c] <= Len(log)
      /\ \A c \in Clients, m \in Messages : Taken(log, shown[c][m], m)
      /\ \A i \in 1 .. Len(inbox) : inbox[i].after <= Len(log)
      /\ Len(log) \in Nat
    BY <1>1 DEF Genuine, Types
<1>3. ASSUME NEW m \in Messages, Journal(m) PROVE Genuine'
    <2> DEFINE l == Append(log, m)
               e == Entry(Len(log) + 1, m)
    <2>1. l = log' /\ Broadcast(<<e>>) /\ UNCHANGED <<cursor, shown, inbox>>
        BY <1>3 DEF Journal, screen
    <2>2. Len(log) + 1 <= MaxLog
        BY <1>3, <1>2, FanoutAssumption DEF Journal
    <2>3. e \in Queued
        BY <1>2, <2>2 DEF Entry, Queued, EventKinds
    <2>4. \A c \in Clients : \A i \in 1 .. Len(queue[c]) : queue[c][i] \in Queued
        BY DEF Types
    <2>5. \A c \in Clients : \A i \in 1 .. Len(queue[c]) : Faithful(l, queue[c][i])
        BY <1>2, <2>4, LongerLog
    <2>6. Faithful(l, e)
        BY <1>2, LongerLog DEF Faithful, Entry
    <2>7. <<e>> \in Seq(Queued) /\ \A i \in 1 .. Len(<<e>>) : Faithful(l, <<e>>[i])
        <3> HIDE DEF e, l
        <3> QED BY <2>3, <2>6
    <2>8. \A c \in Clients : \A i \in 1 .. Len(queue'[c]) : Faithful(l, queue'[c][i])
        <3> HIDE DEF e, l
        <3> QED BY <2>1, <2>5, <2>7, BroadcastFaithful
    <2>9. \A c \in Clients, n \in Messages : shown[c][n] \in Nat
        BY FanoutAssumption DEF Types
    <2>10. \A c \in Clients, n \in Messages : Taken(l, shown[c][n], n)
        BY <1>2, <2>9, LongerLog
    <2>11. Len(l) = Len(log) + 1
        BY LongerLog
    <2>12. /\ \A c \in Clients : cursor[c] \in Nat
           /\ \A i \in 1 .. Len(inbox) : inbox[i].after \in Nat
        <3>1. \A i \in 1 .. Len(inbox) : inbox[i] \in Requests
            BY DEF Types
        <3>2. \A c \in Clients : cursor[c] \in Nat
            BY FanoutAssumption DEF Types
        <3> QED BY <3>1, <3>2 DEF Requests
    <2>13. /\ \A c \in Clients : cursor[c] <= Len(l)
           /\ \A i \in 1 .. Len(inbox) : inbox[i].after <= Len(l)
        <3> HIDE DEF l
        <3> QED BY <1>2, <2>11, <2>12
    <2> HIDE DEF l
    <2> QED BY <2>1, <2>8, <2>10, <2>13 DEF Genuine
<1>4. CASE CloseThread
    BY <1>4 DEF CloseThread
<1>5. CASE HandleClientMessage
    <2>1. /\ Head(inbox) \in Requests /\ Head(inbox).after <= Len(log) /\ inbox' = Tail(inbox)
          /\ \A i \in 1 .. Len(Tail(inbox)) : Tail(inbox)[i].after <= Len(log)
        BY <1>2, <1>5 DEF HandleClientMessage, Types
    <2> DEFINE events == Answer(Head(inbox))
    <2>2. /\ events \in Seq(Queued) /\ Broadcast(events)
          /\ \A i \in 1 .. Len(events) : Faithful(log, events[i])
        BY <1>1, <1>5, <2>1, AnswerTypes, AnswerFaithful DEF HandleClientMessage
    <2> HIDE DEF events
    <2>3. \A c \in Clients : \A i \in 1 .. Len(queue'[c]) : Faithful(log, queue'[c][i])
        BY <1>2, <2>2, BroadcastFaithful
    <2>4. UNCHANGED <<log, cursor, shown>>
        BY <1>5 DEF HandleClientMessage, screen
    <2> QED BY <1>2, <2>1, <2>3, <2>4 DEF Genuine
<1>6. CASE Stop \/ ServerEnds \/ UNCHANGED vars
    BY <1>2, <1>6 DEF Stop, ServerEnds, vars, screen, Genuine
<1>7. ASSUME NEW c \in Clients, Connect(c) PROVE Genuine'
    <2>1. inbox' = Append(inbox, Request("list", 0)) /\ UNCHANGED <<log, queue, cursor, shown>>
        BY <1>7 DEF Connect
    <2>2. \A i \in 1 .. Len(inbox') : inbox'[i].after <= Len(log)
        BY <1>2, <2>1, AskedWithin DEF RequestKinds
    <2> QED BY <1>2, <2>1, <2>2 DEF Genuine
<1>8. ASSUME NEW c \in Clients, Disconnect(c) \/ SendShutdownNotice(c) PROVE Genuine'
    <2>1. queue' = [queue EXCEPT ![c] = <<>>] /\ UNCHANGED <<log, inbox, cursor, shown>>
        BY <1>8 DEF Disconnect, SendShutdownNotice, Drop, screen
    <2>2. \A d \in Clients : d # c => queue'[d] = queue[d]
        BY <2>1 DEF Types
    <2>3. Len(queue'[c]) = 0
        BY <2>1 DEF Types
    <2> QED BY <1>2, <2>1, <2>2, <2>3 DEF Genuine
<1>9. ASSUME NEW c \in Clients, Lag(c) PROVE Genuine'
    <2> DEFINE q == queue[c]
               from == Len(q) + 1 - Capacity
    <2>1. queue' = [queue EXCEPT ![c] = SubSeq(q, from, Len(q))]
          /\ UNCHANGED <<log, inbox, cursor, shown>>
        BY <1>9 DEF Lag, screen
    <2>2. \A d \in Clients : d # c => queue'[d] = queue[d]
        BY <2>1 DEF Types
    <2>3. q \in Seq(Queued) /\ Len(q) \in Nat /\ from \in 1 .. Len(q)
        BY <1>9, FanoutAssumption DEF Lag, Lagged, Types
    <2>4. queue'[c] = SubSeq(q, from, Len(q))
        BY <2>1 DEF Types
    <2> HIDE DEF q, from
    <2>5. \A i \in 1 .. Len(queue'[c]) : \E j \in 1 .. Len(q) : queue'[c][i] = q[j]
        <3>1. SUFFICES ASSUME NEW i \in 1 .. Len(queue'[c])
                       PROVE  \E j \in 1 .. Len(q) : queue'[c][i] = q[j]
            OBVIOUS
        <3>2. from + i - 1 \in 1 .. Len(q) /\ queue'[c][i] = q[from + i - 1]
            BY <2>3, <2>4
        <3> QED BY <3>2
    <2>6. \A i \in 1 .. Len(queue'[c]) : Faithful(log, queue'[c][i])
        BY <1>2, <2>5 DEF q
    <2> QED BY <1>2, <2>1, <2>2, <2>6 DEF Genuine
<1>10. ASSUME NEW c \in Clients, Receive(c) PROVE Genuine'
    <2> DEFINE e == Head(queue[c])
    <2>1. /\ e \in Queued /\ e = queue[c][1] /\ Len(queue[c]) \in Nat \ {0}
          /\ Len(Tail(queue[c])) = Len(queue[c]) - 1
          /\ \A i \in 1 .. Len(queue[c]) - 1 : Tail(queue[c])[i] = queue[c][i + 1]
        BY <1>10, HeadOf DEF Receive
    <2>2. /\ queue' = [queue EXCEPT ![c] = Tail(queue[c])] /\ UNCHANGED log
          /\ PageHandles(c, e) \/ StoreHandles(c, e)
        BY <1>10 DEF Receive
    <2>3. \A d \in Clients : queue'[d] = IF d = c THEN Tail(queue[c]) ELSE queue[d]
        BY <2>2 DEF Types
    <2>4. \A d \in Clients : \A i \in 1 .. Len(queue'[d]) : Faithful(log, queue'[d][i])
        <3>1. SUFFICES ASSUME NEW d \in Clients, NEW i \in 1 .. Len(queue'[d])
                       PROVE  Faithful(log, queue'[d][i])
            OBVIOUS
        <3>2. CASE d # c
            BY <1>2, <2>3, <3>2
        <3>3. CASE d = c
            <4>1. queue'[c] = Tail(queue[c]) /\ i \in 1 .. Len(queue[c]) - 1
                BY <2>1, <2>3, <3>3
            <4>2. i + 1 \in 1 .. Len(queue[c]) /\ queue'[c][i] = queue[c][i + 1]
                BY <2>1, <4>1
            <4> QED BY <1>2, <3>3, <4>2
        <3> QED BY <3>2, <3>3
    <2>5. Faithful(log, e)
        BY <1>2, <2>1
    <2> HIDE DEF e
    <2>6. /\ \A d \in Clients : cursor'[d] <= Len(log)
          /\ \A d \in Clients, m \in Messages : Taken(log, shown'[d][m], m)
          /\ \A i \in 1 .. Len(inbox') : inbox'[i].after <= Len(log)
        BY <1>1, <2>1, <2>2, <2>5, HandledGenuine
    <2> QED BY <2>2, <2>4, <2>6 DEF Genuine
<1>11. ASSUME NEW c \in Clients, PickThread(c) PROVE Genuine'
    <2>1. /\ UNCHANGED <<log, queue, cursor>>
          /\ shown' = shown \/ shown' = Set(shown, c, Blank)
          /\ \/ inbox' = Append(inbox, Request("attach", 0))
             \/ inbox' = Append(inbox, Request("attach", cursor[c]))
        BY <1>11 DEF PickThread, Select
    <2>2. cursor[c] \in Nat /\ "attach" \in RequestKinds
        BY FanoutAssumption DEF Types, RequestKinds
    <2>3. \A i \in 1 .. Len(inbox') : inbox'[i].after <= Len(log)
        BY <1>2, <2>1, <2>2, AskedWithin
    <2>4. \A d \in Clients, m \in Messages : Taken(log, shown'[d][m], m)
        <3>1. shown \in [Clients -> [Messages -> 0 .. MaxLog]]
            BY DEF Types
        <3>2. CASE shown' = shown
            BY <1>2, <3>2
        <3>3. CASE shown' = Set(shown, c, Blank)
            BY <1>2, <3>1, <3>3 DEF Set, Blank, Taken
        <3> QED BY <2>1, <3>2, <3>3
    <2> QED BY <1>2, <2>1, <2>3, <2>4 DEF Genuine
<1> QED BY <1>3, <1>4, <1>5, <1>6, <1>7, <1>8, <1>9, <1>10, <1>11 DEF Next

(* Whatever a client followed (its own replays, those of others, live       *)
(* entries, in any mixture and over any reconnections), the position it     *)
(* asks for is one the log has: attach_thread never answers                 *)
(* thread_replay_after_seq_ahead_of_tail.                                   *)
THEOREM CursorWithinLog == Spec => []NeverAheadOfTail
<1>1. ASSUME Types, Genuine PROVE NeverAheadOfTail
    <2>1. inbox \in Seq(Requests)
        BY <1>1 DEF Types
    <2>2. DOMAIN inbox = 1 .. Len(inbox)
        BY <2>1
    <2> QED BY <1>1, <2>2 DEF Genuine, NeverAheadOfTail
<1> QED BY <1>1, InitTypes, TypesStep, InitGenuine, GenuineStep, PTL DEF Spec

-----------------------------------------------------------------------------
(* What a page has, or has coming. *)

Of(e, m) == e.kind = "entry" /\ e.of = m

(* With s on the screen and q in the queue, the page ends up with entry k   *)
(* of message m or a later one: the n-th event (or the screen, if n is 0)   *)
(* shows such an entry, and nothing after it shows an earlier one.          *)
CoveredAt(n, q, s, k, m) ==
    /\ IF n = 0 THEN s >= k ELSE Of(q[n], m) /\ q[n].seq >= k
    /\ \A j \in n + 1 .. Len(q) : Of(q[j], m) => q[j].seq >= k
Covered(q, s, k, m) == \E n \in 0 .. Len(q) : CoveredAt(n, q, s, k, m)

(* q followed by events *)
Grown(q2, q, events) ==
    /\ Len(q2) = Len(q) + Len(events)
    /\ \A i \in 1 .. Len(q) : q2[i] = q[i]
    /\ \A i \in 1 .. Len(events) : q2[Len(q) + i] = events[i]

(* What stands behind the old part of a longer queue is one of the new *)
(* events.                                                             *)
LEMMA EventOfGrown ==
    ASSUME NEW q \in Seq(Queued), NEW events \in Seq(Queued), NEW q2, Grown(q2, q, events),
           NEW j \in 1 .. Len(q2), j \notin 1 .. Len(q)
    PROVE  j - Len(q) \in 1 .. Len(events) /\ q2[j] = events[j - Len(q)]
<1>1. Len(q) \in Nat /\ Len(events) \in Nat /\ Len(q2) = Len(q) + Len(events)
    BY DEF Grown
<1>2. j - Len(q) \in 1 .. Len(events) /\ Len(q) + (j - Len(q)) = j
    BY <1>1
<1> QED BY <1>2 DEF Grown

(* More events that show nothing earlier do no harm. *)
LEMMA CoveredStays ==
    ASSUME NEW q \in Seq(Queued), NEW events \in Seq(Queued), NEW q2, Grown(q2, q, events),
           NEW s, NEW k, NEW m, Covered(q, s, k, m),
           \A i \in 1 .. Len(events) : Of(events[i], m) => events[i].seq >= k
    PROVE  Covered(q2, s, k, m)
<1>1. PICK n \in 0 .. Len(q) : CoveredAt(n, q, s, k, m)
    BY DEF Covered
<1>2. /\ Len(q) \in Nat /\ Len(events) \in Nat /\ Len(q2) = Len(q) + Len(events)
      /\ \A i \in 1 .. Len(q) : q2[i] = q[i]
    BY DEF Grown
<1>3. ASSUME NEW j \in n + 1 .. Len(q2), Of(q2[j], m) PROVE q2[j].seq >= k
    <2>1. CASE j \in 1 .. Len(q)
        <3>1. q2[j] = q[j] /\ j \in n + 1 .. Len(q)
            BY <1>2, <2>1
        <3> QED BY <1>1, <1>3, <3>1 DEF CoveredAt
    <2>2. CASE j \notin 1 .. Len(q)
        <3>1. j \in 1 .. Len(q2)
            BY <1>2
        <3>2. j - Len(q) \in 1 .. Len(events) /\ q2[j] = events[j - Len(q)]
            BY <2>2, <3>1, EventOfGrown
        <3> QED BY <1>3, <3>2
    <2> QED BY <2>1, <2>2
<1>4. n # 0 => q2[n] = q[n]
    BY <1>2
<1>5. n \in 0 .. Len(q2)
    BY <1>2
<1>6. CoveredAt(n, q2, s, k, m)
    BY <1>1, <1>3, <1>4 DEF CoveredAt
<1> QED BY <1>5, <1>6 DEF Covered

(* Events that show the entry, and nothing earlier after it, cover it. *)
LEMMA CoveredByNew ==
    ASSUME NEW q \in Seq(Queued), NEW events \in Seq(Queued), NEW q2, Grown(q2, q, events),
           NEW s, NEW k, NEW m, NEW i \in 1 .. Len(events),
           Of(events[i], m), events[i].seq >= k,
           \A j \in i + 1 .. Len(events) : Of(events[j], m) => events[j].seq >= k
    PROVE  Covered(q2, s, k, m)
<1> DEFINE n == Len(q) + i
<1>1. /\ Len(q) \in Nat /\ Len(events) \in Nat /\ Len(q2) = Len(q) + Len(events)
      /\ q2[n] = events[i]
    BY DEF Grown
<1>2. n \in 0 .. Len(q2) /\ n # 0
    BY <1>1
<1>3. ASSUME NEW j \in n + 1 .. Len(q2), Of(q2[j], m) PROVE q2[j].seq >= k
    <2>1. j \in 1 .. Len(q2) /\ j \notin 1 .. Len(q) /\ j - Len(q) > i
        BY <1>1
    <2>2. j - Len(q) \in 1 .. Len(events) /\ q2[j] = events[j - Len(q)]
        BY <2>1, EventOfGrown
    <2>3. j - Len(q) \in i + 1 .. Len(events)
        BY <1>1, <2>1, <2>2
    <2> QED BY <1>3, <2>2, <2>3
<1> HIDE DEF n
<1>4. CoveredAt(n, q2, s, k, m)
    BY <1>1, <1>2, <1>3 DEF CoveredAt
<1> QED BY <1>2, <1>4 DEF Covered

(* Handling the first event moves what it shows to the screen. *)
LEMMA CoveredOnScreen ==
    ASSUME NEW q \in Seq(Queued), Len(q) # 0, NEW r, Len(r) = Len(q) - 1,
           \A i \in 1 .. Len(q) - 1 : r[i] = q[i + 1],
           NEW s, NEW t, NEW k, NEW m, Covered(q, s, k, m),
           t = IF Of(q[1], m) THEN q[1].seq ELSE s
    PROVE  Covered(r, t, k, m)
<1>1. PICK n \in 0 .. Len(q) : CoveredAt(n, q, s, k, m)
    BY DEF Covered
<1>2. Len(q) \in Nat \ {0} /\ Len(r) \in Nat
    OBVIOUS
<1>3. ASSUME NEW j \in 1 .. Len(r), j >= n, Of(r[j], m) PROVE r[j].seq >= k
    <2>1. j + 1 \in n + 1 .. Len(q) /\ r[j] = q[j + 1]
        BY <1>2, <1>3
    <2> QED BY <1>1, <1>3, <2>1 DEF CoveredAt
<1>4. CASE n \in {0, 1}
    <2>1. t >= k
        <3>1. CASE Of(q[1], m)
            <4>1. n = 0 => 1 \in n + 1 .. Len(q)
                BY <1>2
            <4> QED BY <1>1, <1>4, <3>1, <4>1 DEF CoveredAt
        <3>2. CASE ~Of(q[1], m)
            BY <1>1, <1>4, <3>2 DEF CoveredAt
        <3> QED BY <3>1, <3>2
    <2>2. \A j \in 0 + 1 .. Len(r) : Of(r[j], m) => r[j].seq >= k
        BY <1>2, <1>3, <1>4
    <2>3. CoveredAt(0, r, t, k, m)
        BY <2>1, <2>2 DEF CoveredAt
    <2> QED BY <1>2, <2>3 DEF Covered
<1>5. CASE n \notin {0, 1}
    <2> DEFINE p == n - 1
    <2>1. p \in 0 .. Len(r) /\ p # 0 /\ r[p] = q[n]
        BY <1>2, <1>5
    <2>2. \A j \in p + 1 .. Len(r) : Of(r[j], m) => r[j].seq >= k
        BY <1>2, <1>3, <1>5
    <2>3. Of(q[n], m) /\ q[n].seq >= k
        BY <1>1, <1>5 DEF CoveredAt
    <2> HIDE DEF p
    <2>4. CoveredAt(p, r, t, k, m)
        BY <2>1, <2>2, <2>3 DEF CoveredAt
    <2> QED BY <2>1, <2>4 DEF Covered
<1> QED BY <1>4, <1>5

(* Some request for the whole log has not been answered yet. *)
Asked == \E i \in 1 .. Len(inbox) : inbox[i] = Request("attach", 0)

(* A page that selected the thread, and that nothing has passed by since. *)
Follows(c) == live /\ link[c] = "open" /\ current[c] /\ whole[c]

AllCovered(c) == \A k \in 1 .. Len(log) : Covered(queue[c], shown[c][log[k]], k, log[k])

UpToDate(c) == Follows(c) => Asked \/ AllCovered(c)

Fresh == \A c \in Pages : UpToDate(c)

(* No page is connected at first. *)
LEMMA InitFresh == Init => Fresh
BY DEF Init, Fresh, UpToDate, Follows, Clients

(* A request waits on when others come after it; a new one waits. *)
LEMMA AskedKept ==
    ASSUME Types, Asked, inbox' = inbox \/ \E r \in Requests : inbox' = Append(inbox, r)
    PROVE  Asked'
<1>1. PICK i \in 1 .. Len(inbox) : inbox[i] = Request("attach", 0)
    BY DEF Asked
<1>2. CASE inbox' = inbox
    BY <1>1, <1>2 DEF Asked
<1>3. ASSUME NEW r \in Requests, inbox' = Append(inbox, r) PROVE Asked'
    <2>1. i \in 1 .. Len(inbox') /\ inbox'[i] = inbox[i]
        BY <1>3 DEF Types
    <2> QED BY <1>1, <2>1 DEF Asked
<1> QED BY <1>2, <1>3

(* A selection puts a request for the whole log into the inbox. *)
LEMMA AskedNow ==
    ASSUME Types, inbox' = Append(inbox, Request("attach", 0))
    PROVE  Asked'
<1>1. Request("attach", 0) \in Requests /\ inbox \in Seq(Requests)
    BY DEF Types, Request, Requests, RequestKinds
<1>2. Len(inbox) + 1 \in 1 .. Len(inbox') /\ inbox'[Len(inbox) + 1] = Request("attach", 0)
    BY <1>1
<1> QED BY <1>2 DEF Asked

(* A page nothing happens to stays up to date. *)
LEMMA UntouchedPage ==
    ASSUME NEW c \in Pages, UpToDate(c), log' = log, queue'[c] = queue[c],
           shown'[c] = shown[c], Follows(c)' => Follows(c), Asked => Asked'
    PROVE  UpToDate(c)'
BY DEF UpToDate, AllCovered

(* The broadcast of an entry of the log that just got it. *)
LEMMA JournalFresh ==
    ASSUME Types, Genuine, Fresh, NEW m \in Messages, Journal(m), NEW c \in Pages
    PROVE  UpToDate(c)'
<1> SUFFICES ASSUME Follows(c)', ~Asked' PROVE AllCovered(c)'
    BY DEF UpToDate
<1> DEFINE l == Append(log, m)
           e == Entry(Len(log) + 1, m)
           q == queue[c]
           s == shown[c]
<1>1. /\ l = log' /\ Broadcast(<<e>>) /\ UNCHANGED <<live, shown, inbox, link, current, whole>>
      /\ live
    BY DEF Journal, screen
<1>2. c \in Clients /\ link[c] = "open" /\ AllCovered(c) /\ Len(log) \in Nat
    BY <1>1 DEF Fresh, UpToDate, Follows, Asked, Clients, Types
<1>3. Len(log) + 1 <= MaxLog
    BY <1>2, FanoutAssumption DEF Journal
<1>4. e \in Queued /\ e.seq = Len(log) + 1 /\ Of(e, m) /\ \A n : Of(e, n) => n = m
    BY <1>2, <1>3 DEF Entry, Queued, EventKinds, Of
<1> HIDE DEF e
<1>5. <<e>> \in Seq(Queued) /\ Len(<<e>>) = 1 /\ <<e>>[1] = e
    BY <1>4
<1>6. q \in Seq(Queued) /\ Grown(queue'[c], q, <<e>>)
    BY <1>1, <1>2, <1>5, QueueAfter DEF Grown
<1> HIDE DEF q
<1>7. ASSUME NEW k \in 1 .. Len(l) PROVE Covered(queue'[c], s[l[k]], k, l[k])
    <2>1. /\ Len(l) = Len(log) + 1 /\ l[Len(log) + 1] = m
          /\ \A i \in 1 .. Len(log) : l[i] = log[i]
        BY LongerLog
    <2> HIDE DEF l, s
    <2>2. CASE k \in 1 .. Len(log)
        <3>1. Covered(q, s[log[k]], k, log[k]) /\ l[k] = log[k]
            BY <1>2, <2>1, <2>2 DEF AllCovered, q, s
        <3>2. \A i \in 1 .. Len(<<e>>) : Of(<<e>>[i], l[k]) => <<e>>[i].seq >= k
            BY <1>2, <1>4, <1>5, <2>2
        <3> QED BY <1>5, <1>6, <3>1, <3>2, CoveredStays
    <2>3. CASE k \notin 1 .. Len(log)
        <3>1. k = Len(log) + 1 /\ l[k] = m
            BY <1>2, <2>1, <2>3
        <3>2. Of(<<e>>[1], m) /\ <<e>>[1].seq >= k /\ 1 \in 1 .. Len(<<e>>)
            BY <1>2, <1>4, <1>5, <3>1
        <3>3. \A j \in 1 + 1 .. Len(<<e>>) : Of(<<e>>[j], m) => <<e>>[j].seq >= k
            BY <1>5
        <3> QED BY <1>5, <1>6, <3>1, <3>2, <3>3, CoveredByNew
    <2> QED BY <2>2, <2>3
<1> QED BY <1>1, <1>7 DEF AllCovered

(* An answer leaves no page behind: what it replays is the end of the log,  *)
(* in order, and the answer to a request for the whole log replays it all.  *)
LEMMA AnswerFresh ==
    ASSUME Types, Genuine, Fresh, HandleClientMessage, NEW c \in Pages
    PROVE  UpToDate(c)'
<1> SUFFICES ASSUME Follows(c)', ~Asked' PROVE AllCovered(c)'
    BY DEF UpToDate
<1> DEFINE r == Head(inbox)
           events == Answer(r)
           q == queue[c]
<1>1. /\ inbox' = Tail(inbox) /\ inbox \in Seq(Requests) /\ Len(inbox) \in Nat \ {0}
      /\ r = inbox[1] /\ r \in Requests /\ Len(Tail(inbox)) = Len(inbox) - 1
      /\ \A i \in 1 .. Len(inbox) - 1 : Tail(inbox)[i] = inbox[i + 1]
    BY DEF HandleClientMessage, Types
<1>2. /\ Broadcast(events) /\ UNCHANGED <<live, log, shown, link, current, whole>>
      /\ c \in Clients /\ Follows(c) /\ live
    BY DEF HandleClientMessage, screen, Follows, Clients
<1>3. events \in Seq(Queued) /\ Len(log) \in Nat
    BY <1>1, AnswerTypes DEF Types
<1>4. q \in Seq(Queued) /\ Grown(queue'[c], q, events)
    BY <1>2, <1>3, QueueAfter DEF Grown, Follows
<1>5. r = Request("attach", 0) \/ AllCovered(c)
    <2>1. SUFFICES ASSUME Asked PROVE r = Request("attach", 0)
        BY <1>2 DEF Fresh, UpToDate
    <2>2. PICK i \in 1 .. Len(inbox) : inbox[i] = Request("attach", 0)
        BY <2>1 DEF Asked
    <2>3. CASE i = 1
        BY <1>1, <2>2, <2>3
    <2>4. CASE i # 1
        <3>1. i - 1 \in 1 .. Len(inbox') /\ inbox'[i - 1] = inbox[i]
            BY <1>1, <2>4
        <3> QED BY <2>2, <3>1 DEF Asked
    <2> QED BY <2>3, <2>4
<1>6. r.after \in Nat /\ r.after <= Len(log)
    BY <1>1, <1>2 DEF Genuine, Requests
<1> HIDE DEF r, q
<1>7. ASSUME NEW k \in 1 .. Len(log) PROVE Covered(queue'[c], shown[c][log[k]], k, log[k])
    <2>1. CASE r.kind = "attach"
        <3> DEFINE after == r.after
        <3>1. /\ events = AttachThread(after) /\ Len(events) = Len(log) - after + 2
              /\ events[1] = Event("snapshot", Len(log))
              /\ \A i \in after + 1 .. Len(log) : events[i - after + 1] = Entry(i, log[i])
              /\ events[Len(log) - after + 2] = Event("complete", Len(log))
            BY <1>2, <1>6, <2>1, AttachIs DEF Answer
        <3>2. after \in Nat /\ after <= Len(log)
            BY <1>6
        <3> HIDE DEF events, after
        <3>3. ASSUME NEW j \in 1 .. Len(events), NEW m, Of(events[j], m)
              PROVE  j \in 2 .. Len(events) - 1 /\ events[j].seq = after + j - 1
            <4>1. j # 1 /\ j # Len(events)
                BY <3>1, <3>3 DEF Of, Event
            <4>2. after + j - 1 \in after + 1 .. Len(log) /\ (after + j - 1) - after + 1 = j
                <5>1. Len(events) = Len(log) - after + 2 /\ j \in Nat /\ j >= 1 /\ j <= Len(events)
                    BY <1>3, <3>1, <3>2
                <5> QED BY <1>3, <3>2, <4>1, <5>1
            <4>3. events[j] = Entry(after + j - 1, log[after + j - 1])
                BY <3>1, <4>2
            <4> QED BY <3>1, <3>2, <4>1, <4>3, <1>3 DEF Entry
        <3>4. CASE k > after
            <4> DEFINE i == k - after + 1
            <4>1. i \in 1 .. Len(events) /\ k \in after + 1 .. Len(log)
                BY <1>3, <3>1, <3>2, <3>4
            <4>2. events[i] = Entry(k, log[k])
                BY <3>1, <4>1
            <4>3. Of(events[i], log[k]) /\ events[i].seq >= k
                BY <4>2 DEF Of, Entry
            <4>4. ASSUME NEW j \in i + 1 .. Len(events), Of(events[j], log[k])
                  PROVE  events[j].seq >= k
                <5>1. j \in 1 .. Len(events) /\ j > i
                    BY <1>3, <3>1, <3>2, <4>1
                <5>2. events[j].seq = after + j - 1
                    BY <3>3, <4>4, <5>1
                <5> QED BY <3>2, <5>1, <5>2
            <4> HIDE DEF i
            <4> QED BY <1>3, <1>4, <4>1, <4>3, <4>4, CoveredByNew DEF events
        <3>5. CASE ~(k > after)
            <4>1. after # 0 /\ r # Request("attach", 0)
                BY <3>2, <3>5 DEF Request, after
            <4>2. Covered(q, shown[c][log[k]], k, log[k])
                BY <1>5, <4>1 DEF AllCovered, q
            <4>3. ASSUME NEW j \in 1 .. Len(events), Of(events[j], log[k])
                  PROVE  events[j].seq >= k
                <5>1. events[j].seq = after + j - 1 /\ j \in Nat /\ j >= 1
                    BY <3>3, <4>3
                <5> QED BY <3>2, <3>5, <5>1
            <4> QED BY <1>3, <1>4, <4>2, <4>3, CoveredStays DEF events
        <3> QED BY <3>4, <3>5
    <2>2. CASE r.kind # "attach"
        <3>1. events = <<Event("threads", IF live THEN 1 ELSE 0)>>
            BY <2>2 DEF Answer
        <3>2. \A j \in 1 .. Len(events) : ~Of(events[j], log[k])
            BY <3>1 DEF Of, Event
        <3>3. r # Request("attach", 0)
            BY <2>2 DEF Request
        <3>4. Covered(q, shown[c][log[k]], k, log[k])
            BY <1>5, <3>3 DEF AllCovered, q
        <3> HIDE DEF events
        <3> QED BY <1>3, <1>4, <3>2, <3>4, CoveredStays DEF events
    <2> QED BY <2>1, <2>2
<1> QED BY <1>2, <1>7 DEF AllCovered

(* A page that handles an event has it on the screen, or asks again. *)
LEMMA ReceiveFresh ==
    ASSUME Types, Genuine, Fresh, NEW c \in Pages, Receive(c)
    PROVE  UpToDate(c)'
<1> SUFFICES ASSUME Follows(c)', ~Asked' PROVE AllCovered(c)'
    BY DEF UpToDate
<1> DEFINE e == Head(queue[c])
           q == queue[c]
           s == shown[c]
<1>1. /\ c \in Clients /\ q \in Seq(Queued) /\ e \in Queued /\ e = q[1] /\ Len(q) # 0
      /\ Len(Tail(q)) = Len(q) - 1 /\ \A i \in 1 .. Len(q) - 1 : Tail(q)[i] = q[i + 1]
    BY HeadOf DEF Receive, Clients, Types
<1>2. queue'[c] = Tail(q) /\ PageHandles(c, e) /\ UNCHANGED <<live, log, link>>
    BY <1>1 DEF Receive, Types
<1> HIDE DEF e
<1>3. ~(e.kind = "threads" /\ e.seq = 1 /\ ~current[c])
    BY <1>2, AskedNow DEF PageHandles, Select
<1>4. /\ UNCHANGED <<whole, inbox>>
      /\ current' = IF e.kind = "closed" THEN Set(current, c, FALSE) ELSE current
      /\ shown' = CASE e.kind = "entry"  -> Upsert(c, e)
                    [] e.kind = "closed" -> Set(shown, c, Blank)
                    [] OTHER             -> shown
    BY <1>2, <1>3 DEF PageHandles
<1>5. e.kind # "closed" /\ Follows(c)
    BY <1>1, <1>2, <1>4 DEF Follows, Set, Types
<1>6. AllCovered(c)
    BY <1>4, <1>5 DEF Fresh, UpToDate, Asked
<1>7. ASSUME NEW m \in Messages
      PROVE  shown'[c][m] = IF Of(q[1], m) THEN q[1].seq ELSE s[m]
    <2>1. shown \in [Clients -> [Messages -> 0 .. MaxLog]]
        BY DEF Types
    <2>2. CASE e.kind = "entry"
        <3>1. e.of \in Messages /\ shown' = [shown EXCEPT ![c][e.of] = e.seq]
            BY <1>1, <1>4, <2>2 DEF Queued, Upsert
        <3> QED BY <1>1, <2>1, <2>2, <3>1 DEF Of
    <2>3. CASE e.kind # "entry"
        BY <1>1, <1>4, <1>5, <2>3 DEF Of
    <2> QED BY <2>2, <2>3
<1>8. ASSUME NEW k \in 1 .. Len(log) PROVE Covered(queue'[c], shown'[c][log[k]], k, log[k])
    <2>1. log[k] \in Messages /\ Covered(q, s[log[k]], k, log[k])
        BY <1>6 DEF AllCovered, Types
    <2>2. Len(queue'[c]) = Len(q) - 1 /\ \A i \in 1 .. Len(q) - 1 : queue'[c][i] = q[i + 1]
        BY <1>1, <1>2
    <2>3. shown'[c][log[k]] = IF Of(q[1], log[k]) THEN q[1].seq ELSE s[log[k]]
        BY <1>7, <2>1
    <2>4. q \in Seq(Queued) /\ Len(q) # 0
        BY <1>1
    <2> DEFINE r == queue'[c]
               t == shown'[c][log[k]]
               m == log[k]
    <2> HIDE DEF q, s, r, t, m
    <2>5. Covered(q, s[m], k, m) /\ t = IF Of(q[1], m) THEN q[1].seq ELSE s[m]
        BY <2>1, <2>3 DEF m, t
    <2>6. Len(r) = Len(q) - 1 /\ \A i \in 1 .. Len(q) - 1 : r[i] = q[i + 1]
        BY <2>2 DEF r
    <2>7. Covered(r, t, k, m)
        BY <2>4, <2>5, <2>6, CoveredOnScreen
    <2> QED BY <2>7 DEF r, t, m
<1> QED BY <1>2, <1>8 DEF AllCovered

(* What another client does. *)
LEMMA OtherFresh ==
    ASSUME Types, Fresh, NEW c \in Clients, NEW d \in Pages, d # c,
           \/ Connect(c) \/ Disconnect(c) \/ SendShutdownNotice(c)
           \/ Lag(c) \/ Receive(c) \/ PickThread(c)
    PROVE  UpToDate(d)'
<1>1. UpToDate(d) /\ d \in Clients
    BY DEF Fresh, Clients
<1>2. /\ Request("attach", 0) \in Requests /\ Request("list", 0) \in Requests
      /\ Request("attach", cursor[c]) \in Requests
    BY FanoutAssumption DEF Request, Requests, RequestKinds, Types
<1>3. inbox' = inbox \/ \E r \in Requests : inbox' = Append(inbox, r)
    <2>1. CASE Connect(c)
        BY <1>2, <2>1 DEF Connect
    <2>2. CASE Disconnect(c) \/ SendShutdownNotice(c) \/ Lag(c)
        BY <2>2 DEF Disconnect, SendShutdownNotice, Drop, Lag
    <2>3. CASE Receive(c)
        <3>1. PageHandles(c, Head(queue[c])) \/ StoreHandles(c, Head(queue[c]))
            BY <2>3 DEF Receive
        <3>2. \/ inbox' = inbox
              \/ inbox' = Append(inbox, Request("attach", 0))
              \/ inbox' = Append(inbox, Request("attach", cursor[c]))
            BY <3>1 DEF PageHandles, StoreHandles, Select
        <3> QED BY <1>2, <3>2
    <2>4. CASE PickThread(c)
        BY <1>2, <2>4 DEF PickThread, Select
    <2> QED BY <2>1, <2>2, <2>3, <2>4
<1>4. Asked => Asked'
    BY <1>3, AskedKept
<1>5. /\ log' = log /\ live' = live /\ queue'[d] = queue[d] /\ link'[d] = link[d]
    BY <1>1 DEF Types, Connect, Disconnect, SendShutdownNotice, Drop, Lag, Receive, PickThread
<1>6. shown'[d] = shown[d] /\ current'[d] = current[d] /\ whole'[d] = whole[d]
    <2>1. CASE Receive(c)
        <3> DEFINE e == Head(queue[c])
        <3>1. e \in Queued /\ (PageHandles(c, e) \/ StoreHandles(c, e))
            BY <2>1, HeadOf DEF Receive
        <3> HIDE DEF e
        <3>2. /\ \/ shown' = shown \/ shown' = Set(shown, c, Blank)
                 \/ shown' = Upsert(c, e)
              /\ \/ current' = current \/ \E b \in BOOLEAN : current' = Set(current, c, b)
              /\ \/ whole' = whole \/ whole' = Set(whole, c, TRUE)
            BY <3>1 DEF PageHandles, StoreHandles, Select
        <3> QED BY <1>1, <3>2 DEF Set, Upsert, Types
    <2>2. CASE PickThread(c)
        BY <1>1, <2>2 DEF PickThread, Select, Set, Types
    <2>3. CASE Connect(c) \/ Disconnect(c) \/ SendShutdownNotice(c) \/ Lag(c)
        BY <1>1, <2>3 DEF Connect, Disconnect, SendShutdownNotice, Drop, Lag, screen, Types
    <2> QED BY <2>1, <2>2, <2>3
<1>7. Follows(d)' => Follows(d)
    BY <1>5, <1>6 DEF Follows
<1> QED BY <1>1, <1>4, <1>5, <1>6, <1>7, UntouchedPage

(* Fresh is inductive, given the other two. *)
LEMMA FreshStep == Types /\ Genuine /\ Fresh /\ [Next]_vars => Fresh'
<1> SUFFICES ASSUME Types, Genuine, Fresh, [Next]_vars, NEW d \in Pages PROVE UpToDate(d)'
    BY DEF Fresh
<1>0. UpToDate(d) /\ d \in Clients
    BY DEF Fresh, Clients
<1>1. ASSUME NEW m \in Messages, Journal(m) PROVE UpToDate(d)'
    BY <1>1, JournalFresh
<1>2. CASE CloseThread
    BY <1>2 DEF CloseThread, UpToDate, Follows
<1>3. CASE HandleClientMessage
    BY <1>3, AnswerFresh
<1>4. CASE Stop \/ ServerEnds \/ UNCHANGED vars
    <2>1. UNCHANGED <<live, log, inbox, link, queue, current, shown, whole>>
        BY <1>4 DEF Stop, ServerEnds, vars, screen
    <2> QED BY <1>0, <2>1 DEF UpToDate, Follows, Asked, AllCovered
<1>5. ASSUME NEW c \in Clients,
             \/ Connect(c) \/ Disconnect(c) \/ SendShutdownNotice(c)
             \/ Lag(c) \/ Receive(c) \/ PickThread(c)
      PROVE  UpToDate(d)'
    <2>1. CASE d # c
        BY <1>5, <2>1, OtherFresh
    <2>2. CASE d = c /\ (Connect(c) \/ Lag(c))
        BY <1>0, <2>2 DEF Connect, Lag, UpToDate, Follows, Types
    <2>3. CASE d = c /\ (Disconnect(c) \/ SendShutdownNotice(c))
        BY <1>0, <2>3 DEF Disconnect, SendShutdownNotice, Drop, UpToDate, Follows, Types
    <2>4. CASE d = c /\ Receive(c)
        BY <2>4, ReceiveFresh
    <2>5. CASE d = c /\ PickThread(c)
        BY <2>5, AskedNow DEF PickThread, Select, UpToDate
    <2> QED BY <1>5, <2>1, <2>2, <2>3, <2>4, <2>5
<1> QED BY <1>1, <1>2, <1>3, <1>4, <1>5 DEF Next

(* A page that selected the thread, stayed connected and skipped nothing    *)
(* shows, once all requests are answered and it has handled what it was     *)
(* sent, the latest state of every message, whatever other clients attached *)
(* and whatever was journalled meanwhile (handle_attach_thread,             *)
(* selectThread, handleEvent).                                              *)
THEOREM PageCatchesUp == Spec => []PageShowsLog
<1>1. ASSUME Types, Genuine, Fresh PROVE PageShowsLog
    <2>1. SUFFICES ASSUME NEW c \in Pages, live, link[c] = "open", current[c], whole[c],
                          inbox = <<>>, queue[c] = <<>>, NEW m \in Messages
                   PROVE  shown[c][m] = LatestEntry(m)
        BY DEF PageShowsLog, ShowsLog
    <2> DEFINE s == shown[c][m]
               entries == {i \in DOMAIN log : log[i] = m}
    <2>2. c \in Clients /\ DOMAIN log = 1 .. Len(log) /\ Len(log) \in Nat /\ s \in Nat
        BY <1>1, FanoutAssumption DEF Clients, Types
    <2>3. ~Asked
        BY <2>1 DEF Asked
    <2>4. AllCovered(c)
        BY <1>1, <2>1, <2>3 DEF Fresh, UpToDate, Follows
    <2>5. ASSUME NEW i \in entries PROVE i <= s
        <3>1. i \in 1 .. Len(log) /\ log[i] = m
            BY <2>2
        <3>2. Covered(queue[c], s, i, m)
            BY <2>4, <3>1 DEF AllCovered
        <3>3. PICK n \in 0 .. Len(queue[c]) : CoveredAt(n, queue[c], s, i, m)
            BY <3>2 DEF Covered
        <3>4. n = 0
            BY <2>1
        <3>5. s >= i
            BY <3>3, <3>4 DEF CoveredAt
        <3> QED BY <2>2, <3>1, <3>5
    <2>6. s = 0 \/ s \in entries
        BY <1>1, <2>1, <2>2 DEF Genuine, Taken
    <2>7. CASE entries = {}
        BY <2>6, <2>7 DEF LatestEntry
    <2>8. CASE entries # {}
        <3>1. s \in entries
            BY <2>2, <2>5, <2>6, <2>8
        <3>2. \A j \in entries : j <= s
            BY <2>5
        <3>3. \A i \in entries : (\A j \in entries : j <= i) => i = s
            BY <2>2, <3>1, <3>2
        <3>4. (CHOOSE i \in entries : \A j \in entries : j <= i) = s
            BY <3>1, <3>2, <3>3
        <3> QED BY <2>8, <3>4 DEF LatestEntry
    <2> QED BY <2>7, <2>8
<1> QED BY <1>1, InitTypes, TypesStep, InitGenuine, GenuineStep, InitFresh, FreshStep, PTL DEF Spec

-----------------------------------------------------------------------------
(* Routing: handles. *)

Handle == Seq(Agents \cup Nat)

(* Every set of natural numbers that is not empty has a least element. *)
LEMMA LeastOf ==
    ASSUME NEW T \in SUBSET Nat, T # {}
    PROVE  \E m \in T : \A k \in T : m <= k
<1> DEFINE R == OpToRel(<, Nat)
<1>1. IsWellFoundedOn(R, Nat)
    BY NatLessThanWellFounded
<1> HIDE DEF R
<1>2. PICK x \in T : \A y \in T : ~(<<y, x>> \in R)
    BY <1>1, WFMin
<1>3. \A y \in Nat : y < x => <<y, x>> \in R
    BY DEF R, OpToRel
<1>4. \A y \in T : ~(y < x)
    BY <1>2, <1>3
<1> QED BY <1>4

(* Among as many suffixes as there are handles, and one more, one is free:  *)
(* if all were taken, two of them would make the same handle.               *)
LEMMA SuffixIsFree ==
    ASSUME NEW taken, IsFiniteSet(taken), NEW preferred \in Handle
    PROVE  \E k \in 2 .. Cardinality(taken) + 2 : Append(preferred, k) \notin taken
<1> DEFINE n == Cardinality(taken)
           S == 2 .. n + 2
           f == [k \in S |-> Append(preferred, k)]
<1>1. n \in Nat
    BY FS_CardinalityType
<1> HIDE DEF n
<1>2. IsFiniteSet(S) /\ Cardinality(S) = n + 1
    BY <1>1, FS_Interval
<1>3. SUFFICES ASSUME \A k \in S : Append(preferred, k) \in taken PROVE FALSE
    BY DEF n
<1>4. f \in [S -> taken]
    BY <1>3
<1>5. n < Cardinality(S)
    BY <1>1, <1>2
<1> HIDE DEF f, S
<1>6. PICK j, k \in S : j # k /\ f[j] = f[k]
    BY <1>2, <1>4, <1>5, FS_PigeonHole DEF n
<1>7. j \in Nat /\ k \in Nat
    BY <1>1 DEF S
<1>8. Append(preferred, j) = Append(preferred, k)
    BY <1>6 DEF f
<1>9. Append(preferred, j)[Len(preferred) + 1] = j /\ Append(preferred, k)[Len(preferred) + 1] = k
    BY <1>7 DEF Handle
<1> QED BY <1>6, <1>8, <1>9

(* unique_mention_handle returns a handle that is not taken. *)
LEMMA HandleIsFree ==
    ASSUME NEW taken, IsFiniteSet(taken), NEW preferred \in Handle
    PROVE  UniqueMentionHandle(taken, preferred) \in Handle \ taken
<1> DEFINE n == Cardinality(taken)
           Free(k) == Append(preferred, k) \notin taken
           Least(k) == Free(k) /\ \A j \in 2 .. k - 1 : Append(preferred, j) \in taken
           T == {k \in 2 .. n + 2 : Free(k)}
           least == CHOOSE k \in 2 .. n + 2 : Least(k)
<1>1. n \in Nat
    BY FS_CardinalityType
<1>2. T # {} /\ T \in SUBSET Nat
    BY <1>1, SuffixIsFree
<1>3. PICK m \in T : \A k \in T : m <= k
    BY <1>2, LeastOf
<1>4. \A j \in 2 .. m - 1 : Append(preferred, j) \in taken
    <2>1. SUFFICES ASSUME NEW j \in 2 .. m - 1 PROVE Append(preferred, j) \in taken
        OBVIOUS
    <2>2. m \in 2 .. n + 2 /\ j \in 2 .. n + 2 /\ ~ (m <= j)
        BY <1>1, <2>1
    <2>3. QED BY <1>3, <2>2
<1>5. \E k \in 2 .. n + 2 : Least(k)
    BY <1>4
<1>6. least \in 2 .. n + 2 /\ Least(least)
    BY <1>5
<1>7. UniqueMentionHandle(taken, preferred)
          = IF preferred \in taken THEN Append(preferred, least) ELSE preferred
    BY DEF UniqueMentionHandle
<1>8. least \in Nat
    BY <1>1, <1>6
<1> HIDE DEF least
<1>9. Append(preferred, least) \in Handle
    BY <1>8 DEF Handle
<1> QED BY <1>6, <1>7, <1>9

-----------------------------------------------------------------------------
(* Routing: participants. *)

(* Participants have the ids 1, 2, ... in the order they joined. *)
PeopleOK ==
    /\ added \in 0 .. MaxAdds
    /\ DOMAIN people \in SUBSET (1 .. added)
    /\ people \in [DOMAIN people -> [agent : Agents, handle : Handle]]

(* The handles of participants are finitely many. *)
LEMMA HandlesFinite ==
    ASSUME PeopleOK, NEW S \in SUBSET DOMAIN people
    PROVE  IsFiniteSet(HandlesOf(S))
<1>1. added \in Nat /\ S \in SUBSET (1 .. added)
    BY RoutingAssumption DEF PeopleOK
<1>2. IsFiniteSet(1 .. added)
    BY <1>1, FS_Interval
<1>3. IsFiniteSet(S)
    BY <1>1, <1>2, FS_Subset
<1> DEFINE f == [n \in S |-> people[n].handle]
<1>4. f \in Surjection(S, HandlesOf(S))
    BY DEF HandlesOf, Surjection
<1> QED BY <1>3, <1>4, FS_Surjection

(* add_thread_participant: the new one has a handle of its own. *)
LEMMA AddKeeps ==
    ASSUME PeopleOK, HandlesUnique, NEW agent \in Agents,
           NEW preferred \in Profiles \cup {<<a>> : a \in Agents}, AddParticipant(agent, preferred)
    PROVE  (PeopleOK /\ HandlesUnique)'
<1> DEFINE h == UniqueMentionHandle(HandlesOf(DOMAIN people), preferred)
<1>1. preferred \in Handle
  <2>1. \A a \in Agents : <<a>> \in Seq(Agents \cup Nat)
      OBVIOUS
  <2>2. QED BY <2>1, RoutingAssumption DEF Handle
<1>2. h \in Handle \ HandlesOf(DOMAIN people)
    BY <1>1, HandlesFinite, HandleIsFree
<1>3. added' = added + 1 /\ added < MaxAdds
      /\ people' = [n \in DOMAIN people \cup {added + 1} |->
                        IF n \in DOMAIN people THEN people[n] ELSE Person(agent, h)]
    BY DEF AddParticipant
<1> HIDE DEF h
<1>4. added \in Nat /\ MaxAdds \in Nat /\ added + 1 \notin DOMAIN people
    BY RoutingAssumption DEF PeopleOK
<1>5. added' \in 0 .. MaxAdds /\ DOMAIN people' \in SUBSET (1 .. added')
    BY <1>3, <1>4 DEF PeopleOK
<1>6. /\ people'[added + 1] = [agent |-> agent, handle |-> h]
      /\ \A n \in DOMAIN people : people'[n] = people[n]
    BY <1>3, <1>4 DEF Person
<1>7. \A n \in DOMAIN people' : people'[n] \in [agent : Agents, handle : Handle]
    BY <1>2, <1>3, <1>6 DEF PeopleOK
<1>8. people' \in [DOMAIN people' -> [agent : Agents, handle : Handle]]
    BY <1>3, <1>7
<1>9. \A n \in DOMAIN people : people[n].handle # h
    BY <1>2 DEF HandlesOf
<1>10. HandlesUnique'
    BY <1>3, <1>4, <1>6, <1>9 DEF HandlesUnique
<1> QED BY <1>5, <1>8, <1>10 DEF PeopleOK

(* set_participant_configuration: its own old handle is not in its way. *)
LEMMA ConfigureKeeps ==
    ASSUME PeopleOK, HandlesUnique, NEW n \in DOMAIN people, NEW preferred \in Profiles,
           SetConfiguration(n, preferred)
    PROVE  (PeopleOK /\ HandlesUnique)'
<1> DEFINE h == UniqueMentionHandle(HandlesOf(DOMAIN people \ {n}), preferred)
<1>1. preferred \in Handle
    BY RoutingAssumption DEF Handle
<1>2. h \in Handle \ HandlesOf(DOMAIN people \ {n})
    BY <1>1, HandlesFinite, HandleIsFree
<1>3. added' = added /\ people' = [people EXCEPT ![n].handle = h]
    BY DEF SetConfiguration
<1> HIDE DEF h
<1>4. people[n] \in [agent : Agents, handle : Handle]
    BY DEF PeopleOK
<1>5. /\ DOMAIN people' = DOMAIN people
      /\ people'[n] = [people[n] EXCEPT !.handle = h]
      /\ \A i \in DOMAIN people \ {n} : people'[i] = people[i]
    BY <1>3 DEF PeopleOK
<1>6. people'[n] \in [agent : Agents, handle : Handle] /\ people'[n].handle = h
    BY <1>2, <1>4, <1>5
<1>7. people' \in [DOMAIN people' -> [agent : Agents, handle : Handle]]
    BY <1>3, <1>5, <1>6 DEF PeopleOK
<1>8. \A i \in DOMAIN people \ {n} : people[i].handle # h
    BY <1>2 DEF HandlesOf
<1>9. HandlesUnique'
    BY <1>5, <1>6, <1>8 DEF HandlesUnique
<1> QED BY <1>3, <1>5, <1>7, <1>9 DEF PeopleOK

(* Participants stay numbered and apart, whoever joins, leaves or is renamed. *)
LEMMA PeopleStep ==
    ASSUME PeopleOK, HandlesUnique, [RoutingNext]_routing_vars
    PROVE  (PeopleOK /\ HandlesUnique)'
<1>1. ASSUME NEW agent \in Agents, NEW preferred \in Profiles \cup {<<a>> : a \in Agents},
             AddParticipant(agent, preferred)
      PROVE  (PeopleOK /\ HandlesUnique)'
    BY <1>1, AddKeeps
<1>2. ASSUME NEW n \in DOMAIN people, NEW h \in Profiles, SetConfiguration(n, h)
      PROVE  (PeopleOK /\ HandlesUnique)'
    BY <1>2, ConfigureKeeps
<1>3. ASSUME NEW n \in DOMAIN people, RemoveParticipant(n)
      PROVE  (PeopleOK /\ HandlesUnique)'
  <2>1. added' = added /\ people' = [i \in DOMAIN people \ {n} |-> people[i]]
      BY <1>3 DEF RemoveParticipant
  <2>2. QED BY <2>1 DEF PeopleOK, HandlesUnique
<1>4. ASSUME NEW m \in Texts, NEW explicit \in Explicit, SendThreadMessage(m, explicit)
      PROVE  (PeopleOK /\ HandlesUnique)'
  <2>1. UNCHANGED <<people, added>>
      BY <1>4 DEF SendThreadMessage
  <2>2. QED BY <2>1 DEF PeopleOK, HandlesUnique
<1>5. CASE UNCHANGED routing_vars
    BY <1>5 DEF routing_vars, PeopleOK, HandlesUnique
<1>6. QED BY <1>1, <1>2, <1>3, <1>4, <1>5 DEF RoutingNext

(* In an empty thread. *)
LEMMA PeopleInit == RoutingInit => PeopleOK /\ HandlesUnique
BY RoutingAssumption DEF RoutingInit, PeopleOK, HandlesUnique

(* Always. *)
LEMMA PeopleInductive == RoutingSpec => [](PeopleOK /\ HandlesUnique)
<1>1. PeopleOK /\ HandlesUnique /\ [RoutingNext]_routing_vars => (PeopleOK /\ HandlesUnique)'
    BY PeopleStep
<1>2. QED BY <1>1, PeopleInit, PTL DEF RoutingSpec

(***************************************************************************)
(* Participants are addressable one by one, for any number of them, any    *)
(* display names and any order of joining, renaming and leaving            *)
(* (unique_mention_handle of thread_store.rs).                             *)
(***************************************************************************)
THEOREM HandlesStayUnique == RoutingSpec => []HandlesUnique
BY PeopleInductive, PTL

-----------------------------------------------------------------------------
(* Routing: targets. *)

(* A message has its tokens at the positions 1, 2, ... *)
LEMMA TextsAre ==
    ASSUME NEW m \in Texts
    PROVE  Len(m) \in Nat /\ DOMAIN m = 1 .. Len(m)
<1>1. PICK n \in 1 .. MaxTokens : m \in [1 .. n -> Mentions \cup {Word}]
    BY DEF Texts
<1>2. n \in Nat
    BY <1>1, RoutingAssumption
<1>3. m \in Seq(Mentions \cup {Word})
    BY <1>1, <1>2
<1> QED BY <1>3

(* Whoever is mentioned is in the thread, and the mention is recognized. *)
LEMMA MentionsAre ==
    ASSUME NEW m
    PROVE  /\ ResolveMentions(m) \in SUBSET DOMAIN people
           /\ \A j \in DOMAIN m : Mentioned(m[j]) \in SUBSET ResolveMentions(m)
           /\ \A n \in ResolveMentions(m) : \E j \in DOMAIN m : Matches(n, m[j])
           /\ ResolveMentions(m) = {} <=> Recognized(m) = {}
BY DEF ResolveMentions, Mentioned, Recognized

(* The agents of the thread that the sender wants the message to go to. *)
Wanted(m, explicit) ==
    {n \in DOMAIN people : /\ explicit # NotGiven => n \in explicit
                           /\ Recognized(m) # {} => n \in ResolveMentions(m)}

(* The participants the handler selects are the wanted ones. *)
LEMMA SelectedAreWanted ==
    ASSUME PeopleOK, NEW m, NEW explicit \in Explicit,
           explicit # NotGiven => explicit \subseteq DOMAIN people \cup {User}
    PROVE  TargetAgents(MergeTargets(explicit, ResolveMentions(m))) = Wanted(m, explicit)
<1> DEFINE mentions == ResolveMentions(m)
<1>1. /\ mentions \in SUBSET DOMAIN people
      /\ mentions = {} <=> Recognized(m) = {}
    BY MentionsAre
<1>2. User \notin DOMAIN people /\ DOMAIN people \in SUBSET (0 .. MaxAdds)
    BY RoutingAssumption DEF PeopleOK, User
<1>3. \A ids \in SUBSET DOMAIN people : ids # NotGiven
    BY <1>2, RoutingAssumption
<1> HIDE DEF mentions
<1>4. CASE mentions = {}
    BY <1>1, <1>2, <1>4 DEF TargetAgents, MergeTargets, Wanted, mentions
<1>5. CASE mentions # {} /\ explicit = NotGiven
  <2>1. MergeTargets(explicit, mentions) = mentions
      BY <1>5 DEF MergeTargets
  <2>2. TargetAgents(mentions) = mentions
      BY <1>1, <1>2, <1>3 DEF TargetAgents
  <2>3. Wanted(m, explicit) = mentions
      BY <1>1, <1>5 DEF Wanted, mentions
  <2>4. QED BY <2>1, <2>2, <2>3 DEF mentions
<1>6. CASE mentions # {} /\ explicit # NotGiven
  <2>1. MergeTargets(explicit, mentions) = explicit \cap mentions
      BY <1>6 DEF MergeTargets
  <2>2. TargetAgents(explicit \cap mentions) = explicit \cap mentions
    <3>1. explicit \cap mentions # NotGiven
        BY <1>1, <1>3
    <3>2. QED BY <1>1, <1>2, <3>1 DEF TargetAgents
  <2>3. Wanted(m, explicit) = explicit \cap mentions
      BY <1>1, <1>6 DEF Wanted, mentions
  <2>4. QED BY <2>1, <2>2, <2>3 DEF mentions
<1> QED BY <1>4, <1>5, <1>6

-----------------------------------------------------------------------------
(* Routing: the loop of build_thread_message_routes. *)

Start == [waiting |-> {}, routes |-> {}]

(* One token of the message. *)
Step(m, acc, j) == IF j \in Recognized(m) THEN TakeMention(m, acc, j) ELSE acc

(* The values of acc after the tokens up to n. *)
Runs(m, n, f) == f = [j \in 0 .. n |-> IF j = 0 THEN Start ELSE Step(m, f[j - 1], j)]

(* The loop has an outcome: a shortest message without one has no place. *)
LEMMA LoopRuns ==
    ASSUME NEW m, NEW n \in Nat
    PROVE  \E f : Runs(m, n, f)
<1> DEFINE T == {k \in Nat : ~\E f : Runs(m, k, f)}
<1>1. SUFFICES ASSUME T # {} PROVE FALSE
    OBVIOUS
<1>2. T \in SUBSET Nat
    OBVIOUS
<1> HIDE DEF T
<1>3. PICK k \in T : \A i \in T : k <= i
    BY <1>1, <1>2, LeastOf
<1>4. k \in Nat /\ ~\E f : Runs(m, k, f)
    BY <1>3 DEF T
<1>5. CASE k = 0
  <2> DEFINE g == [j \in 0 .. 0 |-> Start]
  <2>1. g = [j \in 0 .. 0 |-> IF j = 0 THEN Start ELSE Step(m, g[j - 1], j)]
      OBVIOUS
  <2>2. Runs(m, k, g)
      BY <1>5, <2>1 DEF Runs
  <2>3. QED BY <1>4, <2>2
<1>6. CASE k # 0
  <2>1. k - 1 \in Nat /\ k - 1 \notin T
      BY <1>3, <1>4, <1>6
  <2>2. PICK f : Runs(m, k - 1, f)
      BY <2>1 DEF T
  <2> DEFINE g == [j \in 0 .. k |-> IF j = k THEN Step(m, f[k - 1], k) ELSE f[j]]
  <2>3. \A j \in 0 .. k - 1 : f[j] = IF j = 0 THEN Start ELSE Step(m, f[j - 1], j)
      BY <2>2 DEF Runs
  <2>4. \A j \in 0 .. k - 1 : g[j] = f[j]
      BY <1>4
  <2>5. g[k] = Step(m, f[k - 1], k)
      BY <1>4
  <2> HIDE DEF g
  <2>6. ASSUME NEW j \in 0 .. k
        PROVE  g[j] = IF j = 0 THEN Start ELSE Step(m, g[j - 1], j)
    <3>1. CASE j = k
      <4>1. g[k - 1] = f[k - 1]
          BY <1>4, <1>6, <2>4
      <4>2. QED BY <1>6, <2>5, <3>1, <4>1
    <3>2. CASE j = 0
        BY <1>4, <1>6, <2>3, <2>4, <3>2
    <3>3. CASE j # k /\ j # 0
      <4>1. j \in 0 .. k - 1 /\ j - 1 \in 0 .. k - 1
          BY <1>4, <3>3
      <4>2. QED BY <2>3, <2>4, <3>3, <4>1
    <3>4. QED BY <3>1, <3>2, <3>3
  <2>7. g = [j \in 0 .. k |-> g[j]]
      BY DEF g
  <2>8. Runs(m, k, g)
      BY <2>6, <2>7 DEF Runs
  <2>9. QED BY <1>4, <2>8
<1> QED BY <1>5, <1>6

(* Segments are the routes the loop has made after the last token. *)
LEMMA SegmentsRun ==
    ASSUME NEW m, Len(m) \in Nat
    PROVE  \E f : Runs(m, Len(m), f) /\ Segments(m) = f[Len(m)].routes
<1> DEFINE Def(f) == [j \in 0 .. Len(m) |->
                         IF j = 0 THEN [waiting |-> {}, routes |-> {}]
                         ELSE IF j \in Recognized(m) THEN TakeMention(m, f[j - 1], j)
                         ELSE f[j - 1]]
           F == CHOOSE f : f = Def(f)
<1>1. Segments(m) = F[Len(m)].routes
    BY DEF Segments
<1>2. PICK g : Runs(m, Len(m), g)
    BY LoopRuns
<1>3. \A f : Runs(m, Len(m), f) <=> f = Def(f)
    BY DEF Runs, Step, Start
<1>4. F = Def(F)
    BY <1>2, <1>3
<1> HIDE DEF F, Def
<1> QED BY <1>1, <1>3, <1>4

(* From i to j there are only recognized mentions. *)
Chain(m, i, j) == \A k \in i .. j : k \in Recognized(m)

(* The mentions next to the j-th token wait as long as no text follows them. *)
Waits(m, acc, j) ==
    \A i \in 1 .. j : Chain(m, i, j) /\ Segment(m, j) = {} => Mentioned(m[i]) \subseteq acc.waiting

(* A text that follows mentions is in a route for all of them. *)
Given(m, acc, j) ==
    \A r \in 1 .. j, i \in 1 .. j :
        i <= r /\ Chain(m, i, r) /\ Segment(m, r) # {} =>
            \E route \in acc.routes :
                Mentioned(m[i]) \subseteq route.ids /\ Segment(m, r) \subseteq route.content

Accs == [waiting : SUBSET DOMAIN people, routes : SUBSET [ids : SUBSET DOMAIN people, content : SUBSET Nat]]

LoopOK(m, acc, j) == acc \in Accs /\ Waits(m, acc, j) /\ Given(m, acc, j)

(* One token keeps the invariant of the loop. *)
LEMMA StepKeeps ==
    ASSUME NEW m \in Texts, NEW acc, NEW j \in 1 .. Len(m), LoopOK(m, acc, j - 1)
    PROVE  LoopOK(m, Step(m, acc, j), j)
<1>1. Len(m) \in Nat /\ DOMAIN m = 1 .. Len(m) /\ j \in Nat
    BY TextsAre
<1>2. acc \in Accs /\ Waits(m, acc, j - 1) /\ Given(m, acc, j - 1)
    BY DEF LoopOK
<1>3. CASE j \notin Recognized(m)
  <2>1. Step(m, acc, j) = acc
      BY <1>3 DEF Step
  <2>2. \A i \in 1 .. j : ~Chain(m, i, j)
      BY <1>1, <1>3 DEF Chain
  <2>3. Waits(m, acc, j)
      BY <2>2 DEF Waits
  <2>4. Given(m, acc, j)
    <3>1. SUFFICES ASSUME NEW r \in 1 .. j, NEW i \in 1 .. j, i <= r, Chain(m, i, r),
                          Segment(m, r) # {}
                   PROVE  \E route \in acc.routes :
                              Mentioned(m[i]) \subseteq route.ids /\ Segment(m, r) \subseteq route.content
        BY DEF Given
    <3>2. r # j
        BY <2>2, <3>1
    <3>3. r \in 1 .. j - 1 /\ i \in 1 .. j - 1
        BY <1>1, <3>1, <3>2
    <3>4. QED BY <1>2, <3>1, <3>3 DEF Given
  <2>5. QED BY <1>2, <2>1, <2>3, <2>4 DEF LoopOK
<1>4. CASE j \in Recognized(m)
  <2> DEFINE seg == Segment(m, j)
             ids == acc.waiting \cup Mentioned(m[j])
             text == IF acc.routes = {} THEN Prefix(m) \cup seg ELSE seg
             new == Step(m, acc, j)
  <2>1. new = IF seg = {} THEN [acc EXCEPT !.waiting = ids]
              ELSE [waiting |-> {}, routes |-> acc.routes \cup {Route(ids, text)}]
      BY <1>4 DEF Step, TakeMention
  <2>2. Segment(m, j - 1) = {}
    <3>1. \A t \in DOMAIN m : j - 1 < t => ~ (t < j)
        BY <1>1
    <3>2. j - 1 < j
        BY <1>1
    <3>3. QED BY <1>4, <3>1, <3>2 DEF Segment
  <2>3. ids \in SUBSET DOMAIN people /\ text \in SUBSET Nat
    <3>1. Prefix(m) \in SUBSET DOMAIN m /\ seg \in SUBSET DOMAIN m
        BY DEF Prefix, Segment
    <3>2. Mentioned(m[j]) \in SUBSET DOMAIN people
        BY DEF Mentioned
    <3>3. DOMAIN m \in SUBSET Nat
        BY <1>1
    <3>4. QED BY <1>2, <3>1, <3>2, <3>3 DEF Accs
  <2>4. ASSUME NEW i \in 1 .. j, Chain(m, i, j) PROVE Mentioned(m[i]) \subseteq ids
    <3>1. CASE i = j
        BY <3>1
    <3>2. CASE i # j
      <4>1. i \in 1 .. j - 1 /\ Chain(m, i, j - 1)
          BY <1>1, <2>4, <3>2 DEF Chain
      <4>2. Mentioned(m[i]) \subseteq acc.waiting
          BY <1>2, <2>2, <4>1 DEF Waits
      <4>3. QED BY <4>2
    <3>3. QED BY <3>1, <3>2
  <2>5. ASSUME NEW r \in 1 .. j, NEW i \in 1 .. j, i <= r, r # j, Chain(m, i, r), Segment(m, r) # {}
        PROVE  \E route \in acc.routes :
                   Mentioned(m[i]) \subseteq route.ids /\ Segment(m, r) \subseteq route.content
    <3>1. r \in 1 .. j - 1 /\ i \in 1 .. j - 1
        BY <1>1, <2>5
    <3>2. QED BY <1>2, <2>5, <3>1 DEF Given
  <2>6. seg \subseteq text
      OBVIOUS
  <2> HIDE DEF ids, text, new
  <2>7. CASE seg = {}
    <3>1. new.waiting = ids /\ new.routes = acc.routes /\ new \in Accs
        BY <1>2, <2>1, <2>3, <2>7 DEF Accs
    <3>2. Waits(m, new, j)
        BY <2>4, <3>1 DEF Waits
    <3>3. Given(m, new, j)
        BY <2>5, <2>7, <3>1 DEF Given
    <3>4. QED BY <3>1, <3>2, <3>3 DEF LoopOK, new
  <2>8. CASE seg # {}
    <3>1. new.routes = acc.routes \cup {[ids |-> ids, content |-> text]} /\ new \in Accs
      <4>1. Route(ids, text) \in [ids : SUBSET DOMAIN people, content : SUBSET Nat]
          BY <2>3 DEF Route
      <4>2. QED BY <1>2, <2>1, <2>8, <4>1 DEF Accs, Route
    <3>2. Waits(m, new, j)
        BY <2>8 DEF Waits
    <3>3. Given(m, new, j)
      <4>1. SUFFICES ASSUME NEW r \in 1 .. j, NEW i \in 1 .. j, i <= r, Chain(m, i, r),
                            Segment(m, r) # {}
                     PROVE  \E route \in new.routes :
                                Mentioned(m[i]) \subseteq route.ids /\ Segment(m, r) \subseteq route.content
          BY DEF Given
      <4>2. CASE r = j
        <5>1. Mentioned(m[i]) \subseteq ids /\ Segment(m, r) \subseteq text
            BY <2>4, <2>6, <4>1, <4>2
        <5>2. [ids |-> ids, content |-> text] \in new.routes
            BY <3>1
        <5>3. QED BY <5>1, <5>2
      <4>3. CASE r # j
          BY <2>5, <3>1, <4>1, <4>3
      <4>4. QED BY <4>2, <4>3
    <3>4. QED BY <3>1, <3>2, <3>3 DEF LoopOK, new
  <2>9. QED BY <2>7, <2>8
<1> QED BY <1>3, <1>4

(* So it holds at the end of the loop. *)
LEMMA LoopKeeps ==
    ASSUME NEW m \in Texts, NEW f, Runs(m, Len(m), f)
    PROVE  LoopOK(m, f[Len(m)], Len(m))
<1>1. Len(m) \in Nat
    BY TextsAre
<1>2. \A j \in 0 .. Len(m) : f[j] = IF j = 0 THEN Start ELSE Step(m, f[j - 1], j)
    BY DEF Runs
<1> DEFINE T == {j \in 0 .. Len(m) : ~LoopOK(m, f[j], j)}
<1>3. SUFFICES ASSUME T # {} PROVE FALSE
    BY <1>1
<1>4. T \in SUBSET Nat
    BY <1>1
<1> HIDE DEF T
<1>5. PICK j \in T : \A i \in T : j <= i
    BY <1>3, <1>4, LeastOf
<1>6. j \in 0 .. Len(m) /\ ~LoopOK(m, f[j], j)
    BY <1>5 DEF T
<1>7. CASE j = 0
  <2>1. f[j] = [waiting |-> {}, routes |-> {}]
      BY <1>2, <1>6, <1>7 DEF Start
  <2>2. f[j] \in Accs
      BY <2>1 DEF Accs
  <2>3. Waits(m, f[j], j) /\ Given(m, f[j], j)
      BY <1>7 DEF Waits, Given
  <2>4. QED BY <1>6, <2>2, <2>3 DEF LoopOK
<1>8. CASE j # 0
  <2>1. j \in 1 .. Len(m) /\ j - 1 \in 0 .. Len(m) /\ j - 1 \notin T
      BY <1>1, <1>5, <1>6, <1>8
  <2>2. LoopOK(m, f[j - 1], j - 1)
      BY <2>1 DEF T
  <2>3. f[j] = Step(m, f[j - 1], j)
      BY <1>2, <1>6, <1>8
  <2>4. QED BY <1>6, <2>1, <2>2, <2>3, StepKeeps
<1> QED BY <1>7, <1>8

(* A text token that belongs to a mention is in the segment after the last  *)
(* mention before it, with only mentions in between.                        *)
LEMMA LastMention ==
    ASSUME NEW m \in Texts, NEW t \in DOMAIN m \ Recognized(m), NEW i \in Recognized(m), i < t,
           ~\E s \in i + 1 .. t - 1, k \in Recognized(m) : s \notin Recognized(m) /\ s < k /\ k < t
    PROVE  \E r \in i .. t - 1 : Chain(m, i, r) /\ t \in Segment(m, r)
<1>1. Recognized(m) \in SUBSET Nat /\ t \in Nat /\ i \in Nat
    BY TextsAre DEF Recognized
<1> DEFINE T == {d \in Nat : d > 0 /\ d <= t /\ t - d \in Recognized(m)}
<1>2. t - i \in T /\ T \in SUBSET Nat
    BY <1>1
<1> HIDE DEF T
<1>3. PICK d \in T : \A e \in T : d <= e
    BY <1>2, LeastOf
<1> DEFINE r == t - d
<1>4. d \in Nat /\ d > 0 /\ d <= t /\ r \in Recognized(m)
    BY <1>3 DEF T
<1>5. d <= t - i
    BY <1>2, <1>3
<1>6. r \in i .. t - 1 /\ r < t /\ r \in Nat
    BY <1>1, <1>4, <1>5
<1>7. ASSUME NEW k \in Recognized(m), r < k PROVE t < k
  <2>1. SUFFICES ASSUME ~(t < k) PROVE FALSE
      OBVIOUS
  <2>2. k \in Nat /\ k # t
      BY <1>1
  <2>3. t - k \in T
      BY <1>1, <2>1, <2>2 DEF T
  <2>4. d <= t - k
      BY <1>3, <2>3
  <2>5. QED BY <1>1, <1>4, <1>7, <2>2, <2>4
<1>8. t \in Segment(m, r)
    BY <1>6, <1>7 DEF Segment
<1>9. Chain(m, i, r)
  <2>1. SUFFICES ASSUME NEW k \in i .. r, k \notin Recognized(m) PROVE FALSE
      BY DEF Chain
  <2>2. k # i /\ k # r
      BY <1>4, <2>1
  <2> HIDE DEF r
  <2>3. k \in i + 1 .. t - 1 /\ k < r
      BY <1>1, <1>6, <2>1, <2>2
  <2>4. QED BY <1>4, <1>6, <2>1, <2>3
<1> QED BY <1>6, <1>8, <1>9

(* A text token with an owner is in a segment for whoever the owner mentions. *)
LEMMA TextIsGiven ==
    ASSUME PeopleOK, NEW m \in Texts, NEW t \in DOMAIN m \ Recognized(m), NEW i \in Recognized(m), i < t,
           ~\E s \in i + 1 .. t - 1, k \in Recognized(m) : s \notin Recognized(m) /\ s < k /\ k < t
    PROVE  \E route \in Segments(m) : Mentioned(m[i]) \subseteq route.ids /\ t \in route.content
<1>1. Len(m) \in Nat /\ DOMAIN m = 1 .. Len(m)
    BY TextsAre
<1>2. PICK f : Runs(m, Len(m), f) /\ Segments(m) = f[Len(m)].routes
    BY <1>1, SegmentsRun
<1>3. Given(m, f[Len(m)], Len(m))
    BY <1>2, LoopKeeps DEF LoopOK
<1>4. PICK r \in i .. t - 1 : Chain(m, i, r) /\ t \in Segment(m, r)
    BY LastMention
<1>5. i \in 1 .. Len(m) /\ t \in 1 .. Len(m)
    BY <1>1 DEF Recognized
<1>6. r \in 1 .. Len(m) /\ i <= r
    BY <1>1, <1>5
<1>7. PICK route \in f[Len(m)].routes :
          Mentioned(m[i]) \subseteq route.ids /\ Segment(m, r) \subseteq route.content
    BY <1>3, <1>4, <1>5, <1>6 DEF Given
<1> QED BY <1>2, <1>4, <1>7

(* The mention at i owns the text token t. *)
Owns(m, i, t) ==
    /\ i < t
    /\ ~\E s \in i + 1 .. t - 1, k \in Recognized(m) : s \notin Recognized(m) /\ s < k /\ k < t

(* The participants that a text token of m is for. *)
For(m, t) == {n \in DOMAIN people : \E i \in Recognized(m) : Owns(m, i, t) /\ Matches(n, m[i])}

(* Mentions next to one another own the text after the last of them. *)
LEMMA ChainOwns ==
    ASSUME NEW m \in Texts, NEW j \in Recognized(m), NEW i \in 1 .. j, Chain(m, i, j),
           NEW t \in Segment(m, j)
    PROVE  Owns(m, i, t)
<1>1. Recognized(m) \in SUBSET Nat /\ j \in Nat /\ t \in Nat /\ i \in Nat /\ i <= j
    BY TextsAre DEF Recognized, Segment
<1>2. j < t /\ \A k \in Recognized(m) : j < k => t < k
    BY DEF Segment
<1>3. ASSUME NEW s \in i + 1 .. t - 1, NEW k \in Recognized(m), s \notin Recognized(m), s < k, k < t
      PROVE  FALSE
  <2>1. s \notin i .. j
      BY <1>3 DEF Chain
  <2>2. k \in Nat
      BY <1>1
  <2>3. j < k
      BY <1>1, <1>3, <2>1, <2>2
  <2>4. QED BY <1>1, <1>2, <1>3, <2>2, <2>3
<1> QED BY <1>1, <1>2, <1>3 DEF Owns

(* Who waits was mentioned just before, and a route has a word for all of it. *)
Joint(m, acc, j) ==
    /\ acc \in Accs
    /\ \A a \in acc.waiting : \E i \in 1 .. j : Chain(m, i, j) /\ a \in Mentioned(m[i])
    /\ acc.waiting # {} => Segment(m, j) = {}
    /\ \A route \in acc.routes : \E t \in DOMAIN m \ Recognized(m) : route.ids \subseteq For(m, t)

(* One token keeps it. *)
LEMMA StepJoint ==
    ASSUME NEW m \in Texts, NEW acc, NEW j \in 1 .. Len(m), Joint(m, acc, j - 1)
    PROVE  Joint(m, Step(m, acc, j), j)
<1>1. Len(m) \in Nat /\ DOMAIN m = 1 .. Len(m) /\ j \in Nat /\ Recognized(m) \in SUBSET (1 .. Len(m))
    BY TextsAre DEF Recognized
<1>2. /\ acc \in Accs
      /\ \A a \in acc.waiting : \E i \in 1 .. j - 1 : Chain(m, i, j - 1) /\ a \in Mentioned(m[i])
      /\ acc.waiting # {} => Segment(m, j - 1) = {}
      /\ \A route \in acc.routes : \E t \in DOMAIN m \ Recognized(m) : route.ids \subseteq For(m, t)
    BY DEF Joint
<1>3. CASE j \notin Recognized(m)
  <2>1. Step(m, acc, j) = acc
      BY <1>3 DEF Step
  <2>2. j \in DOMAIN m /\ j - 1 < j /\ \A k \in Recognized(m) : j - 1 < k => j < k
      BY <1>1, <1>3
  <2>3. j \in Segment(m, j - 1)
      BY <2>2 DEF Segment
  <2>4. acc.waiting = {}
      BY <1>2, <2>3
  <2>5. QED BY <1>2, <2>1, <2>4 DEF Joint
<1>4. CASE j \in Recognized(m)
  <2> DEFINE seg == Segment(m, j)
             ids == acc.waiting \cup Mentioned(m[j])
             text == IF acc.routes = {} THEN Prefix(m) \cup seg ELSE seg
             new == Step(m, acc, j)
  <2>1. new = IF seg = {} THEN [acc EXCEPT !.waiting = ids]
              ELSE [waiting |-> {}, routes |-> acc.routes \cup {Route(ids, text)}]
      BY <1>4 DEF Step, TakeMention
  <2>2. ids \in SUBSET DOMAIN people /\ text \in SUBSET Nat
    <3>1. Prefix(m) \in SUBSET DOMAIN m /\ seg \in SUBSET DOMAIN m
        BY DEF Prefix, Segment
    <3>2. Mentioned(m[j]) \in SUBSET DOMAIN people
        BY DEF Mentioned
    <3>3. DOMAIN m \in SUBSET Nat
        BY <1>1
    <3>4. QED BY <1>2, <3>1, <3>2, <3>3 DEF Accs
  <2>3. ASSUME NEW a \in ids PROVE \E i \in 1 .. j : Chain(m, i, j) /\ a \in Mentioned(m[i])
    <3>1. CASE a \in acc.waiting
      <4>1. PICK i \in 1 .. j - 1 : Chain(m, i, j - 1) /\ a \in Mentioned(m[i])
          BY <1>2, <3>1
      <4>2. \A k \in i .. j : k = j \/ k \in i .. j - 1
          BY <1>1
      <4>3. Chain(m, i, j)
          BY <1>4, <4>1, <4>2 DEF Chain
      <4>4. i \in 1 .. j
          BY <1>1
      <4>5. QED BY <4>1, <4>3, <4>4
    <3>2. CASE a \in Mentioned(m[j])
      <4>1. j \in 1 .. j /\ j .. j = {j}
          BY <1>1
      <4>2. QED BY <1>4, <3>2, <4>1 DEF Chain
    <3>3. QED BY <2>3, <3>1, <3>2
  <2> HIDE DEF ids, text, new
  <2>4. CASE seg = {}
    <3>1. new.waiting = ids /\ new.routes = acc.routes /\ new \in Accs
        BY <1>2, <2>1, <2>2, <2>4 DEF Accs
    <3>2. QED BY <1>2, <2>3, <2>4, <3>1 DEF Joint, new
  <2>5. CASE seg # {}
    <3>1. /\ new.waiting = {} /\ new \in Accs
          /\ new.routes = acc.routes \cup {[ids |-> ids, content |-> text]}
      <4>1. Route(ids, text) \in [ids : SUBSET DOMAIN people, content : SUBSET Nat]
          BY <2>2 DEF Route
      <4>2. QED BY <1>2, <2>1, <2>5, <4>1 DEF Accs, Route
    <3>2. PICK t \in seg : TRUE
        BY <2>5
    <3>3. t \in DOMAIN m /\ t \notin Recognized(m)
      <4>1. t \in DOMAIN m /\ j < t /\ \A k \in Recognized(m) : j < k => t < k
          BY <3>2 DEF Segment
      <4>2. ~(t < t)
          BY <1>1, <4>1
      <4>3. QED BY <4>1, <4>2
    <3>4. ASSUME NEW a \in ids PROVE a \in For(m, t)
      <4>1. PICK i \in 1 .. j : Chain(m, i, j) /\ a \in Mentioned(m[i])
          BY <2>3, <3>4
      <4>2. Owns(m, i, t)
          BY <1>4, <3>2, <4>1, ChainOwns
      <4>3. i \in Recognized(m)
          BY <1>1, <4>1 DEF Chain
      <4>4. QED BY <4>1, <4>2, <4>3 DEF For, Mentioned
    <3>5. \A route \in new.routes : \E s \in DOMAIN m \ Recognized(m) : route.ids \subseteq For(m, s)
        BY <1>2, <3>1, <3>3, <3>4
    <3>6. QED BY <3>1, <3>5 DEF Joint, new
  <2>6. QED BY <2>4, <2>5
<1> QED BY <1>3, <1>4

(* So the participants of a segment have a word in common. *)
LEMMA SegmentsJoint ==
    ASSUME NEW m \in Texts, NEW route \in Segments(m)
    PROVE  \E t \in DOMAIN m \ Recognized(m) : route.ids \subseteq For(m, t)
<1>1. Len(m) \in Nat
    BY TextsAre
<1>2. PICK f : Runs(m, Len(m), f) /\ Segments(m) = f[Len(m)].routes
    BY <1>1, SegmentsRun
<1>3. \A j \in 0 .. Len(m) : f[j] = IF j = 0 THEN Start ELSE Step(m, f[j - 1], j)
    BY <1>2 DEF Runs
<1> DEFINE T == {j \in 0 .. Len(m) : ~Joint(m, f[j], j)}
<1>4. CASE T = {}
  <2>1. Joint(m, f[Len(m)], Len(m))
      BY <1>1, <1>4
  <2>2. QED BY <1>2, <2>1 DEF Joint
<1>5. CASE T # {}
  <2>1. T \in SUBSET Nat
      BY <1>1
  <2> HIDE DEF T
  <2>2. PICK j \in T : \A i \in T : j <= i
      BY <1>5, <2>1, LeastOf
  <2>3. j \in 0 .. Len(m) /\ ~Joint(m, f[j], j)
      BY <2>2 DEF T
  <2>4. CASE j = 0
    <3>1. f[j] = [waiting |-> {}, routes |-> {}]
        BY <1>3, <2>3, <2>4 DEF Start
    <3>2. Joint(m, f[j], j)
        BY <3>1 DEF Joint, Accs
    <3>3. QED BY <2>3, <3>2
  <2>5. CASE j # 0
    <3>1. j \in 1 .. Len(m) /\ j - 1 \in 0 .. Len(m) /\ j - 1 \notin T
        BY <1>1, <2>2, <2>3, <2>5
    <3>2. Joint(m, f[j - 1], j - 1)
        BY <3>1 DEF T
    <3>3. f[j] = Step(m, f[j - 1], j)
        BY <1>3, <2>3, <2>5
    <3>4. QED BY <2>3, <3>1, <3>2, <3>3, StepJoint
  <2>6. QED BY <2>4, <2>5
<1> QED BY <1>4, <1>5

(* A mentioned participant has a first mention. *)
LEMMA FirstMentionIs ==
    ASSUME NEW m \in Texts, NEW n \in ResolveMentions(m)
    PROVE  FirstMention(m, n) \in Nat
<1>1. Len(m) \in Nat /\ DOMAIN m = 1 .. Len(m)
    BY TextsAre
<1> DEFINE T == {j \in DOMAIN m : Matches(n, m[j])}
<1>2. T # {} /\ T \in SUBSET Nat
    BY <1>1, MentionsAre
<1>3. PICK j \in T : \A i \in T : j <= i
    BY <1>2, LeastOf
<1>4. j \in DOMAIN m /\ Matches(n, m[j]) /\ \A i \in 1 .. j - 1 : ~Matches(n, m[i])
    BY <1>1, <1>3
<1>5. FirstMention(m, n) \in DOMAIN m
    BY <1>4 DEF FirstMention
<1> QED BY <1>1, <1>5

(* Of several participants that are mentioned one comes before the others. *)
LEMMA OneIsFirst ==
    ASSUME PeopleOK, NEW m \in Texts, NEW S \in SUBSET ResolveMentions(m), S # {}
    PROVE  \E p \in S : \A q \in S : q # p => Before(m, p, q)
<1>1. S \in SUBSET Nat /\ \A p \in S : FirstMention(m, p) \in Nat
  <2>1. DOMAIN people \in SUBSET Nat
      BY RoutingAssumption DEF PeopleOK
  <2>2. QED BY <2>1, MentionsAre, FirstMentionIs
<1> DEFINE firsts == {FirstMention(m, p) : p \in S}
<1>2. firsts \in SUBSET Nat /\ firsts # {}
    BY <1>1
<1>3. PICK j \in firsts : \A k \in firsts : j <= k
    BY <1>2, LeastOf
<1> DEFINE T == {p \in S : FirstMention(m, p) = j}
<1>4. T \in SUBSET Nat /\ T # {}
    BY <1>1, <1>3
<1>5. PICK p \in T : \A q \in T : p <= q
    BY <1>4, LeastOf
<1>6. ASSUME NEW q \in S, q # p PROVE Before(m, p, q)
  <2>1. p \in Nat /\ q \in Nat /\ FirstMention(m, p) = j /\ FirstMention(m, q) \in Nat
      BY <1>1, <1>5
  <2>2. j \in Nat /\ j <= FirstMention(m, q)
      BY <1>2, <1>3
  <2>3. FirstMention(m, q) = j => p <= q
      BY <1>5
  <2>4. QED BY <1>6, <2>1, <2>2, <2>3 DEF Before
<1> QED BY <1>5, <1>6

-----------------------------------------------------------------------------
(* Routing: what is sent. *)

(* Whom the routes name. *)
Named(routes) == UNION {route.ids : route \in routes}

Accepted(m, explicit) ==
    LET selected == Wanted(m, explicit)
        routes == BuildRoutes(m, selected)
        calls == Calls(routes, selected)
        first == FirstCalls(m, calls)
    IN  /\ outcome' = "sent"
        /\ selected # {} /\ Named(routes) # {}
        /\ journal' = Named(routes)
        /\ prompts' \subseteq Prompting(calls)
        /\ Prompting({call \in first : call.to \in free'}) \subseteq prompts'

(* A message is refused and prompts nobody, or is sent to the wanted ones. *)
LEMMA SentOrRefused ==
    ASSUME PeopleOK, NEW m \in Texts, NEW explicit \in Explicit, SendThreadMessage(m, explicit)
    PROVE  (outcome' # "sent" /\ prompts' = {}) \/ Accepted(m, explicit)
<1> DEFINE unknown == explicit # NotGiven /\ ~ explicit \subseteq DOMAIN people \cup {User}
           merged == MergeTargets(explicit, ResolveMentions(m))
           selected == TargetAgents(merged)
           routes == BuildRoutes(m, selected)
           nobody == merged = {} \/ selected = {} \/ Named(routes) = {}
           calls == Calls(routes, selected)
           first == FirstCalls(m, calls)
           sent == /\ ~unknown /\ ~nobody
                   /\ outcome' = "sent"
                   /\ journal' = Named(routes)
                   /\ \E late \in SUBSET Prompting(calls \ first) :
                          prompts' = Prompting({call \in first : call.to \in free'}) \cup late
<1>1. \/ unknown /\ Refuse("unknown")
      \/ ~unknown /\ nobody /\ Refuse("no_targets")
      \/ sent
    BY DEF SendThreadMessage, Named
<1>2. ~unknown => selected = Wanted(m, explicit)
    BY SelectedAreWanted
<1>3. CASE sent
  <2>1. first \subseteq calls
      BY DEF FirstCalls
  <2> HIDE DEF unknown, merged, selected, first, calls
  <2>2. /\ Prompting(calls \ first) \subseteq Prompting(calls)
        /\ Prompting({call \in first : call.to \in free'}) \subseteq Prompting(calls)
      BY <2>1 DEF Prompting
  <2>3. /\ prompts' \subseteq Prompting(calls)
        /\ Prompting({call \in first : call.to \in free'}) \subseteq prompts'
      BY <1>3, <2>2
  <2>4. QED BY <1>2, <1>3, <2>3 DEF Accepted, calls, first
<1>4. CASE Refuse("unknown") \/ Refuse("no_targets")
    BY <1>4 DEF Refuse
<1> HIDE DEF sent
<1> QED BY <1>1, <1>3, <1>4

(* A call is for a selected participant of a route. *)
LEMMA CallsAre ==
    ASSUME NEW routes, NEW selected, NEW call \in Calls(routes, selected)
    PROVE  \E route \in routes, n \in selected :
               /\ n \in route.ids
               /\ call = [to |-> n, lead |-> route.lead, content |-> route.content]
BY DEF Calls

(* So a prompt is one with the content of a route, for one of its participants. *)
LEMMA PromptsAre ==
    ASSUME NEW routes, NEW selected, NEW prompt \in Prompting(Calls(routes, selected))
    PROVE  \E route \in routes, n \in selected :
               n \in route.ids /\ prompt = [to |-> n, content |-> route.content]
<1>1. PICK call \in Calls(routes, selected) : prompt = [to |-> call.to, content |-> call.content]
    BY DEF Prompting
<1> QED BY <1>1, CallsAre

(* A sent message: what the properties say of the new state, before it. *)
LEMMA PromptsWanted ==
    ASSUME NEW m \in Texts, NEW explicit \in Explicit, Accepted(m, explicit), NEW prompt \in prompts'
    PROVE  /\ prompt.to \in DOMAIN people
           /\ prompt.to \in journal'
           /\ explicit # NotGiven => prompt.to \in explicit
           /\ Recognized(m) # {} => \E j \in DOMAIN m : Matches(prompt.to, m[j])
<1> DEFINE selected == Wanted(m, explicit)
           routes == BuildRoutes(m, selected)
<1>1. journal' = Named(routes) /\ prompt \in Prompting(Calls(routes, selected))
    BY DEF Accepted
<1> HIDE DEF selected, routes
<1>2. PICK route \in routes, n \in selected :
          n \in route.ids /\ prompt = [to |-> n, content |-> route.content]
    BY <1>1, PromptsAre
<1>3. prompt.to = n /\ n \in selected /\ n \in Named(routes)
    BY <1>2 DEF Named
<1>4. Recognized(m) # {} => n \in ResolveMentions(m)
    BY <1>3 DEF selected, Wanted
<1>5. n \in ResolveMentions(m) => \E j \in DOMAIN m : Matches(n, m[j])
    BY MentionsAre
<1> QED BY <1>1, <1>3, <1>4, <1>5 DEF selected, Wanted

(* The route a participant leads. *)
Led(m, selected, p) ==
    [lead |-> p,
     ids |-> UNION {route.ids \cap selected : route \in {r \in Segments(m) : p \in r.ids}},
     content |-> UNION {route.content : route \in {r \in Segments(m) : p \in r.ids}}]

(* The routes of a message with segments are the ones that are led. *)
LEMMA RoutesAreLed ==
    ASSUME NEW m, NEW selected, Recognized(m) # {}, Segments(m) # {}
    PROVE  BuildRoutes(m, selected) =
               {Led(m, selected, p) : p \in {q \in selected : {r \in Segments(m) : q \in r.ids} # {}}}
BY DEF BuildRoutes, Assignments, Led

(* The first call for a participant is in a route whose lead shares a       *)
(* segment with it.                                                         *)
LEMMA FirstCallIs ==
    ASSUME PeopleOK, NEW m \in Texts, NEW explicit \in Explicit, Accepted(m, explicit),
           Recognized(m) # {}, NEW n \in Wanted(m, explicit), n \in free',
           NEW given \in Segments(m), n \in given.ids
    PROVE  \E p \in Wanted(m, explicit), shared \in Segments(m) :
               /\ p \in shared.ids /\ n \in shared.ids
               /\ [to |-> n, content |-> Led(m, Wanted(m, explicit), p).content] \in prompts'
<1> DEFINE selected == Wanted(m, explicit)
           routes == BuildRoutes(m, selected)
           calls == Calls(routes, selected)
           S == {p \in selected : \E r \in Segments(m) : p \in r.ids /\ n \in r.ids}
<1>1. Prompting({call \in FirstCalls(m, calls) : call.to \in free'}) \subseteq prompts'
    BY DEF Accepted
<1>2. routes = {Led(m, selected, p) : p \in {q \in selected : {r \in Segments(m) : q \in r.ids} # {}}}
    BY RoutesAreLed
<1>3. S # {} /\ S \in SUBSET ResolveMentions(m)
    BY DEF Wanted
<1> HIDE DEF selected, routes, calls
<1>4. PICK p \in S : \A q \in S : q # p => Before(m, p, q)
  <2> HIDE DEF S
  <2>1. QED BY <1>3, OneIsFirst
<1>5. PICK shared \in Segments(m) : p \in shared.ids /\ n \in shared.ids
    BY <1>4
<1> DEFINE route == Led(m, selected, p)
           call == [to |-> n, lead |-> p, content |-> route.content]
<1>6. n \in selected /\ p \in selected
    BY <1>4 DEF selected
<1>7. route \in routes /\ route.lead = p /\ n \in route.ids
  <2>1. shared \in {r \in Segments(m) : p \in r.ids}
      BY <1>5
  <2>2. n \in UNION {r.ids \cap selected : r \in {r \in Segments(m) : p \in r.ids}}
      BY <1>5, <1>6, <2>1
  <2>3. route \in routes
      BY <1>2, <1>6, <2>1
  <2>4. QED BY <2>2, <2>3 DEF Led
<1> HIDE DEF route
<1>8. call \in calls
    BY <1>6, <1>7 DEF calls, Calls
<1>9. ASSUME NEW other \in calls, other.to = n, other.lead # p
      PROVE  Before(m, p, other.lead)
  <2>1. PICK r \in routes, to \in selected :
            to \in r.ids /\ other = [to |-> to, lead |-> r.lead, content |-> r.content]
      BY CallsAre DEF calls
  <2>2. n \in r.ids /\ other.lead = r.lead
      BY <1>9, <2>1
  <2>3. PICK q \in selected : r = Led(m, selected, q)
      BY <1>2, <2>1
  <2>4. r.lead = q
      BY <2>3 DEF Led
  <2>5. n \in UNION {s.ids \cap selected : s \in {s \in Segments(m) : q \in s.ids}}
      BY <2>2, <2>3 DEF Led
  <2>6. \E s \in Segments(m) : q \in s.ids /\ n \in s.ids
      BY <2>5
  <2>7. q \in S
      BY <2>3, <2>6
  <2>8. QED BY <1>4, <1>9, <2>2, <2>4, <2>7
<1>10. call \in FirstCalls(m, calls)
    BY <1>8, <1>9 DEF FirstCalls
<1>11. [to |-> n, content |-> route.content] \in prompts'
    BY <1>1, <1>10 DEF Prompting
<1> QED BY <1>5, <1>6, <1>11 DEF route, selected

(* The participants that share a segment share them all. *)
Alike(m) == \A s, t \in DOMAIN m \ Recognized(m) : For(m, s) = For(m, t) \/ For(m, s) \cap For(m, t) = {}

(* What is for a wanted participant is journalled for it and reaches it, by *)
(* the mention that owns it or because there is no mention.                 *)
LEMMA TextIsSent ==
    ASSUME PeopleOK, NEW m \in Texts, NEW explicit \in Explicit, Accepted(m, explicit),
           NEW t \in DOMAIN m \ Recognized(m), NEW n \in DOMAIN people,
           explicit # NotGiven => n \in explicit,
           Recognized(m) = {} \/ n \in For(m, t)
    PROVE  /\ n \in journal'
           /\ n \in free' /\ Alike(m) => \E prompt \in prompts' : prompt.to = n /\ t \in prompt.content
<1> DEFINE selected == Wanted(m, explicit)
           routes == BuildRoutes(m, selected)
           calls == Calls(routes, selected)
<1>1. /\ journal' = Named(routes)
      /\ Prompting({call \in FirstCalls(m, calls) : call.to \in free'}) \subseteq prompts'
    BY DEF Accepted
<1>2. CASE Recognized(m) = {}
  <2>1. n \in selected
      BY <1>2 DEF Wanted
  <2>2. routes = {[lead |-> User, ids |-> selected, content |-> DOMAIN m]}
      BY <1>2 DEF BuildRoutes, OneRoute
  <2> HIDE DEF selected, routes
  <2> DEFINE call == [to |-> n, lead |-> User, content |-> DOMAIN m]
  <2>3. call \in calls
      BY <2>1, <2>2 DEF Calls
  <2>4. \A other \in calls : other.lead = User
      BY <2>2 DEF Calls
  <2> HIDE DEF calls
  <2>5. call \in FirstCalls(m, calls)
      BY <2>3, <2>4 DEF FirstCalls
  <2>6. n \in free' => [to |-> n, content |-> DOMAIN m] \in prompts'
      BY <1>1, <2>5 DEF Prompting
  <2>7. QED BY <1>1, <2>1, <2>2, <2>6 DEF Named
<1>3. CASE Recognized(m) # {}
  <2>1. PICK i \in Recognized(m) : Owns(m, i, t) /\ Matches(n, m[i])
      BY <1>3 DEF For
  <2>2. n \in Mentioned(m[i]) /\ i \in DOMAIN m
      BY <2>1 DEF Mentioned, Recognized
  <2>3. n \in selected
      BY <2>2, MentionsAre DEF Wanted
  <2>4. PICK given \in Segments(m) : Mentioned(m[i]) \subseteq given.ids /\ t \in given.content
      BY <2>1, TextIsGiven DEF Owns
  <2>5. routes = {Led(m, selected, p) : p \in {q \in selected : {r \in Segments(m) : q \in r.ids} # {}}}
      BY <1>3, <2>4, RoutesAreLed
  <2>6. n \in journal'
    <3> HIDE DEF selected, routes
    <3>1. given \in {r \in Segments(m) : n \in r.ids}
        BY <2>2, <2>4
    <3>2. Led(m, selected, n) \in routes
        BY <2>3, <2>5, <3>1
    <3>3. n \in UNION {r.ids \cap selected : r \in {r \in Segments(m) : n \in r.ids}}
        BY <2>2, <2>3, <2>4, <3>1
    <3>4. n \in Led(m, selected, n).ids
        BY <3>3 DEF Led
    <3>5. QED BY <1>1, <3>2, <3>4 DEF Named
  <2>7. ASSUME n \in free', Alike(m)
        PROVE  \E prompt \in prompts' : prompt.to = n /\ t \in prompt.content
    <3>1. PICK p \in selected, shared \in Segments(m) :
              /\ p \in shared.ids /\ n \in shared.ids
              /\ [to |-> n, content |-> Led(m, selected, p).content] \in prompts'
        BY <1>3, <2>2, <2>3, <2>4, <2>7, FirstCallIs
    <3>2. PICK s \in DOMAIN m \ Recognized(m) : shared.ids \subseteq For(m, s)
        BY <3>1, SegmentsJoint
    <3>3. p \in For(m, t)
        BY <1>3, <2>7, <3>1, <3>2 DEF Alike
    <3>4. PICK k \in Recognized(m) : Owns(m, k, t) /\ Matches(p, m[k]) /\ p \in DOMAIN people
        BY <3>3 DEF For
    <3>5. PICK r \in Segments(m) : Mentioned(m[k]) \subseteq r.ids /\ t \in r.content
        BY <3>4, TextIsGiven DEF Owns
    <3>6. p \in r.ids
        BY <3>4, <3>5 DEF Mentioned
    <3>7. t \in UNION {g.content : g \in {g \in Segments(m) : p \in g.ids}}
        BY <3>5, <3>6
    <3>8. t \in Led(m, selected, p).content
        BY <3>7 DEF Led
    <3> HIDE DEF selected
    <3>9. QED BY <3>1, <3>8
  <2>8. QED BY <2>6, <2>7
<1> QED BY <1>2, <1>3

(* send_thread_message establishes both properties. *)
LEMMA SendRoutes ==
    ASSUME PeopleOK, NEW m \in Texts, NEW explicit \in Explicit, SendThreadMessage(m, explicit)
    PROVE  (PromptedAreAddressed /\ AssignedIsSent)'
<1>1. message' = m /\ targets' = explicit /\ people' = people
    BY DEF SendThreadMessage
<1>2. \A n, token : Matches(n, token)' <=> Matches(n, token)
    BY <1>1 DEF Matches
<1>3. Recognized(message)' = Recognized(m)
    BY <1>1 DEF Recognized, Mentioned, Matches
<1>4. CASE outcome' # "sent" /\ prompts' = {}
    BY <1>4 DEF PromptedAreAddressed, AssignedIsSent
<1>5. CASE Accepted(m, explicit)
  <2>1. PromptedAreAddressed'
    <3>1. SUFFICES ASSUME NEW prompt \in prompts'
                   PROVE  /\ prompt.to \in DOMAIN people
                          /\ prompt.to \in journal'
                          /\ explicit # NotGiven => prompt.to \in explicit
                          /\ Recognized(m) # {} => \E j \in DOMAIN m : Matches(prompt.to, m[j])
        BY <1>1, <1>2, <1>3 DEF PromptedAreAddressed
    <3>2. QED BY <1>5, <3>1, PromptsWanted
  <2>2. AssignedIsSent'
    <3>1. WordsOf' = DOMAIN m \ Recognized(m)
        BY <1>1, <1>3 DEF WordsOf
    <3>2. \A t : Assigned(t)' = For(m, t)
        BY <1>1, <1>2, <1>3 DEF Assigned, Owners, For, Owns
    <3>3. SharedAlike' <=> Alike(m)
        BY <3>1, <3>2 DEF SharedAlike, Alike
    <3>4. ASSUME NEW t \in DOMAIN m \ Recognized(m), NEW n \in DOMAIN people,
                 explicit # NotGiven => n \in explicit,
                 n \in For(m, t) \/ Recognized(m) = {}
          PROVE  /\ n \in journal'
                 /\ n \in free' =>
                        \/ \E prompt \in prompts' : prompt.to = n /\ t \in prompt.content
                        \/ ~Alike(m)
        BY <1>5, <3>4, TextIsSent
    <3>5. QED BY <1>1, <1>3, <3>1, <3>2, <3>3, <3>4 DEF AssignedIsSent
  <2>3. QED BY <2>1, <2>2
<1> QED BY <1>4, <1>5, SentOrRefused

(* Every other step forgets the message, or changes nothing. *)
LEMMA RoutesStep ==
    ASSUME PeopleOK, PromptedAreAddressed, AssignedIsSent, [RoutingNext]_routing_vars
    PROVE  (PromptedAreAddressed /\ AssignedIsSent)'
<1>1. ASSUME NEW agent \in Agents, NEW preferred \in Profiles \cup {<<a>> : a \in Agents},
             AddParticipant(agent, preferred)
      PROVE  ForgetMessage
    BY <1>1 DEF AddParticipant
<1>2. ASSUME NEW n \in DOMAIN people, NEW h \in Profiles, SetConfiguration(n, h)
      PROVE  ForgetMessage
    BY <1>2 DEF SetConfiguration
<1>3. ASSUME NEW n \in DOMAIN people, RemoveParticipant(n)
      PROVE  ForgetMessage
    BY <1>3 DEF RemoveParticipant
<1>4. ASSUME ForgetMessage PROVE (PromptedAreAddressed /\ AssignedIsSent)'
  <2>1. outcome' # "sent" /\ prompts' = {}
      BY <1>4 DEF ForgetMessage
  <2>2. QED BY <2>1 DEF PromptedAreAddressed, AssignedIsSent
<1>5. ASSUME NEW m \in Texts, NEW explicit \in Explicit, SendThreadMessage(m, explicit)
      PROVE  (PromptedAreAddressed /\ AssignedIsSent)'
    BY <1>5, SendRoutes
<1>6. CASE UNCHANGED routing_vars
  <2>1. UNCHANGED <<people, message, targets, outcome, journal, prompts, free>>
      BY <1>6 DEF routing_vars
  <2>2. \A n, token : Matches(n, token)' <=> Matches(n, token)
      BY <2>1 DEF Matches
  <2>3. Recognized(message)' = Recognized(message)
      BY <2>1 DEF Recognized, Mentioned, Matches
  <2>4. \A j : Assigned(j)' = Assigned(j)
      BY <2>1, <2>2, <2>3 DEF Assigned, Owners
  <2>5. PromptedAreAddressed'
      BY <2>1, <2>2, <2>3 DEF PromptedAreAddressed
  <2>6. WordsOf' = WordsOf
      BY <2>1, <2>3 DEF WordsOf
  <2>7. SharedAlike' <=> SharedAlike
      BY <2>4, <2>6 DEF SharedAlike
  <2>8. AssignedIsSent'
      BY <2>1, <2>3, <2>4, <2>6, <2>7 DEF AssignedIsSent
  <2>9. QED BY <2>5, <2>8
<1>7. QED BY <1>1, <1>2, <1>3, <1>4, <1>5, <1>6 DEF RoutingNext

(* Both hold before anything is sent, and ever after. *)
LEMMA RoutesInductive == RoutingSpec => [](PromptedAreAddressed /\ AssignedIsSent)
<1>1. RoutingInit => PromptedAreAddressed /\ AssignedIsSent
    BY DEF RoutingInit, PromptedAreAddressed, AssignedIsSent
<1>2. PeopleOK /\ PromptedAreAddressed /\ AssignedIsSent /\ [RoutingNext]_routing_vars
          => (PromptedAreAddressed /\ AssignedIsSent)'
    BY RoutesStep
<1>3. QED BY <1>1, <1>2, PeopleInductive, PTL DEF RoutingSpec

(***************************************************************************)
(* A prompt only goes where the sender wanted it, for any participants,    *)
(* messages and explicit targets (merge_thread_message_targets and         *)
(* handle_send_thread_message of app.rs).                                  *)
(***************************************************************************)
THEOREM PromptsStayAddressed == RoutingSpec => []PromptedAreAddressed
BY RoutesInductive, PTL

(***************************************************************************)
(* Nothing that was assigned is left out, for messages of any length and   *)
(* whatever calls handle_prompt refuses: however mentions and words        *)
(* alternate, the loop of build_thread_message_routes puts every word that *)
(* follows a mention in a segment for everybody the mentions in front of   *)
(* it name; the first route a participant is called for is led by somebody *)
(* it shares a segment with, and has all its words if they share them all. *)
(***************************************************************************)
THEOREM AssignedReaches == RoutingSpec => []AssignedIsSent
BY RoutesInductive, PTL

-----------------------------------------------------------------------------
(* Routing: nobody gets what is not for it, if no segment is shared. *)

Apart(m) == \A j \in Recognized(m) : /\ j + 1 \notin Recognized(m)
                                     /\ \A a, b \in Mentioned(m[j]) : a = b

(* The route is for one mention: its participants, and the text after it. *)
OfMention(m, route, r) ==
    /\ route.ids \subseteq Mentioned(m[r])
    /\ route.content \subseteq Prefix(m) \cup Segment(m, r)

(* Nobody waits while there are mentions to come, so a route is for one. *)
Single(m, acc, j) ==
    /\ acc \in Accs
    /\ \A k \in Recognized(m) : j < k => acc.waiting = {}
    /\ \A route \in acc.routes : \E r \in Recognized(m) : OfMention(m, route, r)

(* One token of a message whose mentions are apart. *)
LEMMA StepSingle ==
    ASSUME NEW m \in Texts, Apart(m), NEW acc, NEW j \in 1 .. Len(m), Single(m, acc, j - 1)
    PROVE  Single(m, Step(m, acc, j), j)
<1>1. Len(m) \in Nat /\ DOMAIN m = 1 .. Len(m) /\ j \in Nat /\ Recognized(m) \in SUBSET (1 .. Len(m))
    BY TextsAre DEF Recognized
<1>2. CASE j \notin Recognized(m)
  <2>1. Step(m, acc, j) = acc
      BY <1>2 DEF Step
  <2>2. \A k \in Recognized(m) : j < k => j - 1 < k
      BY <1>1
  <2>3. QED BY <2>1, <2>2 DEF Single
<1>3. CASE j \in Recognized(m)
  <2> DEFINE seg == Segment(m, j)
             ids == acc.waiting \cup Mentioned(m[j])
             text == IF acc.routes = {} THEN Prefix(m) \cup seg ELSE seg
             new == Step(m, acc, j)
  <2>1. new = IF seg = {} THEN [acc EXCEPT !.waiting = ids]
              ELSE [waiting |-> {}, routes |-> acc.routes \cup {Route(ids, text)}]
      BY <1>3 DEF Step, TakeMention
  <2>2. acc \in Accs /\ acc.waiting = {}
    <3>1. j - 1 < j
        BY <1>1
    <3>2. QED BY <1>3, <3>1 DEF Single
  <2>3. ids = Mentioned(m[j]) /\ ids \in SUBSET DOMAIN people /\ text \in SUBSET Nat
    <3>1. Prefix(m) \in SUBSET DOMAIN m /\ seg \in SUBSET DOMAIN m
        BY DEF Prefix, Segment
    <3>2. DOMAIN m \in SUBSET Nat
        BY <1>1
    <3>3. QED BY <2>2, <3>1, <3>2 DEF Mentioned
  <2>4. ASSUME NEW k \in Recognized(m), j < k PROVE seg # {}
    <3>1. j + 1 \notin Recognized(m)
        BY <1>3 DEF Apart
    <3>2. j + 1 \in DOMAIN m /\ j < j + 1
        BY <1>1, <2>4
    <3>3. \A i \in Recognized(m) : j < i => j + 1 < i
        BY <1>1, <3>1
    <3>4. QED BY <3>2, <3>3 DEF Segment
  <2>5. text \subseteq Prefix(m) \cup seg
      OBVIOUS
  <2> HIDE DEF ids, text, new, seg
  <2>6. CASE seg = {}
    <3>1. new.routes = acc.routes /\ new \in Accs
        BY <2>1, <2>2, <2>3, <2>6 DEF Accs
    <3>2. QED BY <2>4, <2>6, <3>1 DEF Single, new
  <2>7. CASE seg # {}
    <3>1. /\ new.waiting = {} /\ new \in Accs
          /\ new.routes = acc.routes \cup {Route(ids, text)}
      <4>1. Route(ids, text) \in [ids : SUBSET DOMAIN people, content : SUBSET Nat]
          BY <2>3 DEF Route
      <4>2. QED BY <2>1, <2>2, <2>7, <4>1 DEF Accs
    <3>2. OfMention(m, Route(ids, text), j)
        BY <2>3, <2>5 DEF OfMention, Route, seg
    <3>3. \A route \in new.routes : \E r \in Recognized(m) : OfMention(m, route, r)
        BY <1>3, <3>1, <3>2 DEF Single
    <3>4. QED BY <3>1, <3>3 DEF Single, new
  <2>8. QED BY <2>6, <2>7
<1> QED BY <1>2, <1>3

(* So every route of the loop is for one mention. *)
LEMMA SegmentsSingle ==
    ASSUME NEW m \in Texts, Apart(m), NEW route \in Segments(m)
    PROVE  \E r \in Recognized(m) : OfMention(m, route, r)
<1>1. Len(m) \in Nat
    BY TextsAre
<1>2. PICK f : Runs(m, Len(m), f) /\ Segments(m) = f[Len(m)].routes
    BY <1>1, SegmentsRun
<1>3. \A j \in 0 .. Len(m) : f[j] = IF j = 0 THEN Start ELSE Step(m, f[j - 1], j)
    BY <1>2 DEF Runs
<1> DEFINE T == {j \in 0 .. Len(m) : ~Single(m, f[j], j)}
<1>4. CASE T = {}
  <2>1. Single(m, f[Len(m)], Len(m))
      BY <1>1, <1>4
  <2>2. QED BY <1>2, <2>1 DEF Single
<1>5. CASE T # {}
  <2>1. T \in SUBSET Nat
      BY <1>1
  <2> HIDE DEF T
  <2>2. PICK j \in T : \A i \in T : j <= i
      BY <1>5, <2>1, LeastOf
  <2>3. j \in 0 .. Len(m) /\ ~Single(m, f[j], j)
      BY <2>2 DEF T
  <2>4. CASE j = 0
    <3>1. f[j] = [waiting |-> {}, routes |-> {}]
        BY <1>3, <2>3, <2>4 DEF Start
    <3>2. Single(m, f[j], j)
        BY <3>1 DEF Single, Accs
    <3>3. QED BY <2>3, <3>2
  <2>5. CASE j # 0
    <3>1. j \in 1 .. Len(m) /\ j - 1 \in 0 .. Len(m) /\ j - 1 \notin T
        BY <1>1, <2>2, <2>3, <2>5
    <3>2. Single(m, f[j - 1], j - 1)
        BY <3>1 DEF T
    <3>3. f[j] = Step(m, f[j - 1], j)
        BY <1>3, <2>3, <2>5
    <3>4. QED BY <2>3, <3>1, <3>2, <3>3, StepSingle
  <2>6. QED BY <2>4, <2>5
<1> QED BY <1>4, <1>5

(* A mention owns the segment after it. *)
LEMMA SegmentIsOwned ==
    ASSUME NEW m \in Texts, NEW r \in Recognized(m), NEW t \in Segment(m, r)
    PROVE  Owns(m, r, t)
<1>1. Recognized(m) \in SUBSET Nat /\ r \in Nat /\ t \in Nat
    BY TextsAre DEF Recognized, Segment
<1>2. r < t /\ \A k \in Recognized(m) : r < k => t < k
    BY DEF Segment
<1>3. \A s \in r + 1 .. t - 1, k \in Recognized(m) : s < k => r < k
    BY <1>1
<1>4. \A k \in Recognized(m) : ~(t < k /\ k < t)
    BY <1>1
<1> QED BY <1>2, <1>3, <1>4 DEF Owns

(* The text of a prompt that has an owner is the recipient's. *)
LEMMA PromptIsOwn ==
    ASSUME PeopleOK, NEW m \in Texts, Apart(m), NEW explicit \in Explicit, Accepted(m, explicit),
           NEW prompt \in prompts', NEW t \in prompt.content \ Recognized(m),
           NEW o \in Recognized(m), Owns(m, o, t)
    PROVE  \E i \in Recognized(m) : Owns(m, i, t) /\ prompt.to \in Mentioned(m[i])
<1> DEFINE selected == Wanted(m, explicit)
           routes == BuildRoutes(m, selected)
<1>1. prompt \in Prompting(Calls(routes, selected))
    BY DEF Accepted
<1>2. PICK route \in routes, n \in selected :
          n \in route.ids /\ prompt = [to |-> n, content |-> route.content]
  <2> HIDE DEF selected, routes
  <2>1. QED BY <1>1, PromptsAre
<1>3. prompt.to = n /\ t \in route.content
    BY <1>2
<1>4. t \in DOMAIN m => Segments(m) # {}
    BY TextIsGiven DEF Owns
<1>5. Segments(m) # {}
  <2>1. ASSUME Segments(m) = {} PROVE FALSE
    <3>1. routes = {[lead |-> User, ids |-> ResolveMentions(m), content |-> DOMAIN m]}
        BY <2>1 DEF BuildRoutes, OneRoute
    <3>2. route.content = DOMAIN m
      <4> HIDE DEF routes
      <4>1. QED BY <1>2, <3>1
    <3>3. QED BY <1>3, <1>4, <2>1, <3>2
  <2>2. QED BY <2>1
<1>6. routes = {Led(m, selected, p) : p \in {q \in selected : {r \in Segments(m) : q \in r.ids} # {}}}
    BY <1>5, RoutesAreLed
<1> HIDE DEF selected, routes
<1>7. PICK p \in selected : route = Led(m, selected, p)
    BY <1>2, <1>6
<1>8. PICK a \in Segments(m) : p \in a.ids /\ n \in a.ids
    BY <1>2, <1>7 DEF Led
<1>9. PICK b \in Segments(m) : p \in b.ids /\ t \in b.content
    BY <1>3, <1>7 DEF Led
<1>10. PICK ra \in Recognized(m) : OfMention(m, a, ra)
    BY <1>8, SegmentsSingle
<1>11. PICK rb \in Recognized(m) : OfMention(m, b, rb)
    BY <1>9, SegmentsSingle
<1>12. n = p
    BY <1>8, <1>10 DEF OfMention, Apart
<1>13. n \in Mentioned(m[rb]) /\ t \in Prefix(m) \cup Segment(m, rb)
    BY <1>9, <1>11, <1>12 DEF OfMention
<1>14. t \notin Prefix(m)
  <2>1. Recognized(m) \in SUBSET Nat
      BY TextsAre DEF Recognized
  <2>2. t \in DOMAIN m => t \in Nat
      BY TextsAre
  <2>3. QED BY <2>1, <2>2 DEF Prefix, Owns
<1> QED BY <1>3, <1>11, <1>13, <1>14, SegmentIsOwned

(* send_thread_message with mentions apart. *)
LEMMA SendApart ==
    ASSUME PeopleOK, NEW m \in Texts, NEW explicit \in Explicit, SendThreadMessage(m, explicit)
    PROVE  ApartIsOnlyAssigned'
<1>1. message' = m /\ people' = people
    BY DEF SendThreadMessage
<1>2. \A n, token : Matches(n, token)' <=> Matches(n, token)
    BY <1>1 DEF Matches
<1>3. Recognized(message)' = Recognized(m)
    BY <1>1 DEF Recognized, Mentioned, Matches
<1>4. \A token : Mentioned(token)' = Mentioned(token)
    BY <1>1 DEF Mentioned, Matches
<1>5. MentionsApart' <=> Apart(m)
    BY <1>1 DEF MentionsApart, Apart, Recognized, Mentioned, Matches
<1>6. \A t : Owners(t)' = {i \in Recognized(m) : Owns(m, i, t)}
    BY <1>3 DEF Owners, Owns
<1>7. ASSUME NEW t, NEW n, NEW i \in Recognized(m), Owns(m, i, t), n \in Mentioned(m[i])
      PROVE  n \in Assigned(t)'
    BY <1>1, <1>2, <1>6, <1>7 DEF Assigned, Mentioned
<1>8. CASE prompts' = {}
    BY <1>8 DEF ApartIsOnlyAssigned, OnlyAssigned
<1>9. CASE Accepted(m, explicit) /\ Apart(m)
  <2>1. SUFFICES ASSUME NEW prompt \in prompts', NEW t \in prompt.content \ Recognized(m),
                        Owners(t)' # {}
                 PROVE  prompt.to \in Assigned(t)'
      BY <1>3 DEF ApartIsOnlyAssigned, OnlyAssigned
  <2>2. PICK o \in Recognized(m) : Owns(m, o, t)
      BY <1>6, <2>1
  <2>3. PICK i \in Recognized(m) : Owns(m, i, t) /\ prompt.to \in Mentioned(m[i])
      BY <1>9, <2>2, PromptIsOwn
  <2>4. QED BY <1>7, <2>3
<1>10. CASE ~Apart(m)
    BY <1>5, <1>10 DEF ApartIsOnlyAssigned
<1> QED BY <1>8, <1>9, <1>10, SentOrRefused

(***************************************************************************)
(* "Each agent prompt receives only its assigned segment" (PROTOCOL.md:554)*)
(* is true of every message in which each mention names one participant    *)
(* and none follows another at once, of any length and for any targets:    *)
(* the shared segments of build_thread_message_routes are the only way to  *)
(* another participant's text.                                             *)
(***************************************************************************)
THEOREM ApartStaysApart == RoutingSpec => []ApartIsOnlyAssigned
<1>1. RoutingInit => ApartIsOnlyAssigned
    BY DEF RoutingInit, ApartIsOnlyAssigned, OnlyAssigned
<1>2. ASSUME PeopleOK, ApartIsOnlyAssigned, [RoutingNext]_routing_vars
      PROVE  ApartIsOnlyAssigned'
  <2>1. ASSUME NEW agent \in Agents, NEW preferred \in Profiles \cup {<<a>> : a \in Agents},
               AddParticipant(agent, preferred)
        PROVE  ForgetMessage
      BY <2>1 DEF AddParticipant
  <2>2. ASSUME NEW n \in DOMAIN people, NEW h \in Profiles, SetConfiguration(n, h)
        PROVE  ForgetMessage
      BY <2>2 DEF SetConfiguration
  <2>3. ASSUME NEW n \in DOMAIN people, RemoveParticipant(n) PROVE ForgetMessage
      BY <2>3 DEF RemoveParticipant
  <2>4. ASSUME ForgetMessage PROVE ApartIsOnlyAssigned'
    <3>1. prompts' = {}
        BY <2>4 DEF ForgetMessage
    <3>2. QED BY <3>1 DEF ApartIsOnlyAssigned, OnlyAssigned
  <2>5. ASSUME NEW m \in Texts, NEW explicit \in Explicit, SendThreadMessage(m, explicit)
        PROVE  ApartIsOnlyAssigned'
      BY <1>2, <2>5, SendApart
  <2>6. CASE UNCHANGED routing_vars
    <3>1. UNCHANGED <<people, message, prompts>>
        BY <2>6 DEF routing_vars
    <3>2. (\A n, token : Matches(n, token)' <=> Matches(n, token))
          /\ (\A token : Mentioned(token)' = Mentioned(token))
          /\ Recognized(message)' = Recognized(message)
        BY <3>1 DEF Recognized, Mentioned, Matches
    <3>3. \A j : Owners(j)' = Owners(j) /\ Assigned(j)' = Assigned(j)
        BY <3>1, <3>2 DEF Assigned, Owners
    <3>4. MentionsApart' <=> MentionsApart
        BY <3>1 DEF MentionsApart, Recognized, Mentioned, Matches
    <3>5. OnlyAssigned' <=> OnlyAssigned
        BY <3>1, <3>2, <3>3 DEF OnlyAssigned
    <3>6. QED BY <1>2, <3>4, <3>5 DEF ApartIsOnlyAssigned
  <2>7. QED BY <1>2, <2>1, <2>2, <2>3, <2>4, <2>5, <2>6 DEF RoutingNext
<1>3. QED BY <1>1, <1>2, PeopleInductive, PTL DEF RoutingSpec
=============================================================================
