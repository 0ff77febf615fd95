------------------------ MODULE RunSupervisorProofs ------------------------
(***************************************************************************)
(* ShownIsAnswerable, ParkedIsReachable and PollMissesNothing for any      *)
(* number of runs, ids, packets and lines, and any MAX_LOG_LINES.          *)
(*                                                                         *)
(* Neither is inductive: that the packet of a gate is shown needs a view   *)
(* to show it in, which the registry has from the moment a run begins      *)
(* (BegunIsShown), and that a sender is only dropped by another run needs  *)
(* both together.                                                          *)
(*                                                                         *)
(* A poll is a filter, so what it returns is an induction on the log.      *)
(* It is done with the least line on which the filter and its result       *)
(* disagree (Least, KeptOnce, PollKept).                                   *)
(***************************************************************************)
EXTENDS RunSupervisor, TLAPS, WellFoundedInduction

PCs == {"absent", "brief", "driving", "parked", "ended", "failed", "done"}

(* The part of TypeOK the argument needs: logs play no role in it. *)
Types ==
    /\ clock \in Ids
    /\ pc \in [Tasks -> PCs]
    /\ id \in [Tasks -> Ids]
    /\ asked \in [Tasks -> 0 .. MaxPackets]
    /\ answer \in [Tasks -> Decisions \cup {None, "dropped"}]
    /\ views \in [Ids -> Views \cup {None}]
    /\ gates \in [Ids -> Tasks \cup {None}]

(* A run that has begun and is not done has a view. *)
BegunIsShown == \A t \in Tasks : pc[t] \in {"driving", "parked", "ended"} => views[id[t]] # None

IInv == Types /\ BegunIsShown /\ ShownIsAnswerable /\ ParkedIsReachable

-----------------------------------------------------------------------------
(* In the first state no run is parked and no gate is open. *)
LEMMA InitIInv == Init => IInv
BY SupervisorBounds, SupervisorValues
DEF Init, IInv, Types, BegunIsShown, ShownIsAnswerable, ParkedIsReachable, PCs, Ids

(* A packet of a run that is asked for is a packet of the model. *)
LEMMA PacketType ==
    ASSUME Types, NEW t \in Tasks
    PROVE  Packet(t) \in Packets
BY DEF Types, Packet, Packets

(* DropSender (park, unpark and finish) touches the registered task only. *)
LEMMA DropSenderType ==
    ASSUME Types, NEW i \in Ids
    PROVE  DropSender(i) \in [Tasks -> Decisions \cup {None, "dropped"}]
BY DEF Types, DropSender

(* ClearPending (unpark, decide) keeps the views there are. *)
LEMMA ClearPendingType ==
    ASSUME Types, NEW i \in Ids
    PROVE  /\ ClearPending(i) \in [Ids -> Views \cup {None}]
           /\ \A j \in Ids : ClearPending(i)[j] = None <=> views[j] = None
           /\ \A j \in Ids \ {i} : ClearPending(i)[j] = views[j]
           /\ views[i] # None => ClearPending(i)[i].pending = None
<1>1. CASE views[i] = None
    BY <1>1 DEF Types, ClearPending
<1>2. CASE views[i] # None
  <2>1. views[i] \in Views
      BY <1>2 DEF Types
  <2>2. /\ [views[i] EXCEPT !.pending = None] \in Views
        /\ [views[i] EXCEPT !.pending = None].pending = None
      BY <2>1 DEF Views
  <2>3. [views[i] EXCEPT !.pending = None] # None
      BY <2>2, SupervisorValues
  <2>4. ClearPending(i) = [views EXCEPT ![i] = [views[i] EXCEPT !.pending = None]]
      BY <1>2 DEF Types, ClearPending
  <2>5. QED BY <1>2, <2>2, <2>3, <2>4 DEF Types
<1>3. QED BY <1>1, <1>2

-----------------------------------------------------------------------------
(* Every action keeps the invariant. *)

(* The clock: nothing of a run changes. *)
LEMMA TickStep == IInv /\ Tick => IInv'
<1> SUFFICES ASSUME IInv, Tick PROVE IInv'
    OBVIOUS
<1>1. Types' BY SupervisorBounds DEF IInv, Types, Tick, registry, Ids
<1>2. QED BY <1>1 DEF IInv, Types, BegunIsShown, ShownIsAnswerable, ParkedIsReachable, Packet, Tick, registry

(* A new run has no gate and no sender yet, whatever id it is given. *)
LEMMA StartStep == ASSUME NEW t \in Tasks PROVE IInv /\ Start(t) => IInv'
<1> SUFFICES ASSUME IInv, Start(t) PROVE IInv'
    OBVIOUS
<1> USE DEF IInv, Start, registry
<1>1. Types' BY DEF Types, PCs
<1>2. \A u \in Tasks : u # t => pc'[u] = pc[u] /\ id'[u] = id[u]
    BY DEF Types
<1>3. \A u \in Tasks : pc[u] # "absent" => pc'[u] # "absent"
    BY DEF Types
<1>4. pc[t] = "absent" /\ pc'[t] = "brief"
    BY DEF Types
<1>5. BegunIsShown' BY <1>2, <1>4 DEF BegunIsShown
<1>6. ShownIsAnswerable'
    BY <1>2, <1>4 DEF ShownIsAnswerable, Types, Packet
<1>7. ParkedIsReachable'
    BY <1>2, <1>3, <1>4 DEF ParkedIsReachable
<1>8. QED BY <1>1, <1>5, <1>6, <1>7

(* A run that begins is given a view, or joins the one its id has. *)
LEMMA BeginStep == ASSUME NEW t \in Tasks PROVE IInv /\ Begin(t) => IInv'
<1> SUFFICES ASSUME IInv, Begin(t) PROVE IInv'
    OBVIOUS
<1> USE DEF IInv, Begin
<1>1. /\ views' \in [Ids -> Views \cup {None}]
      /\ \A j \in Ids : views[j] # None => views'[j] # None /\ views'[j].pending = views[j].pending
      /\ \A j \in Ids : views[j] = None /\ views'[j] # None => views'[j].pending = None
      /\ views'[id[t]] # None
  <2> DEFINE i == id[t]
             v == views[i]
  <2>1. i \in Ids BY DEF Types
  <2>2. CASE v = None
    <3>1. views' = [views EXCEPT ![i] = View(None, FALSE, FALSE)]
        BY <2>1, <2>2 DEF Types, Sync
    <3>2. View(None, FALSE, FALSE) \in Views /\ View(None, FALSE, FALSE).pending = None
        BY DEF View, Views
    <3>3. QED BY <2>1, <2>2, <3>1, <3>2, SupervisorValues DEF Types
  <2>3. CASE v # None
    <3>1. v \in Views BY <2>1, <2>3 DEF Types
    <3>2. views' = [views EXCEPT ![i] = View(v.pending, v.error, v.finished)]
        BY <2>1, <2>3, <3>1 DEF Types, Sync, View, Views
    <3>3. View(v.pending, v.error, v.finished) \in Views /\ View(v.pending, v.error, v.finished).pending = v.pending
        BY <3>1 DEF View, Views
    <3>4. QED BY <2>1, <2>3, <3>2, <3>3, SupervisorValues DEF Types
  <2>4. QED BY <2>2, <2>3
<1>2. Types' BY <1>1 DEF Types, PCs
<1>3. BegunIsShown' BY <1>1 DEF BegunIsShown, Types
<1>4. ShownIsAnswerable'
    BY <1>1 DEF ShownIsAnswerable, Types, Packet
<1>5. ParkedIsReachable'
    BY DEF ParkedIsReachable, Types
<1>6. QED BY <1>2, <1>3, <1>4, <1>5

(* A line of the log changes nothing else. *)
LEMMA EmitStep == ASSUME NEW t \in Tasks PROVE IInv /\ Emit(t) => IInv'
BY DEF IInv, Types, BegunIsShown, ShownIsAnswerable, ParkedIsReachable, Packet, Emit

(* A run parks: it replaces whatever waits under its id, which fails then. *)
LEMMA ParkStep == ASSUME NEW t \in Tasks PROVE IInv /\ Park(t) => IInv'
<1> SUFFICES ASSUME IInv, Park(t) PROVE IInv'
    OBVIOUS
<1> USE DEF IInv, Park
<1>1. id[t] \in Ids /\ views[id[t]] # None /\ views[id[t]] \in Views
    BY DEF Types, BegunIsShown
<1>2. asked' \in [Tasks -> 0 .. MaxPackets] /\ \A u \in Tasks \ {t} : asked'[u] = asked[u]
    BY SupervisorBounds DEF Types
<1>3. Packet(t)' \in Packets
    BY <1>2 DEF Packet, Packets
<1>4. /\ views' \in [Ids -> Views \cup {None}]
      /\ \A j \in Ids \ {id[t]} : views'[j] = views[j]
      /\ views'[id[t]] # None /\ views'[id[t]].pending = Packet(t)'
    BY <1>1, <1>3, SupervisorValues DEF Types, Views
<1>5. /\ answer' \in [Tasks -> Decisions \cup {None, "dropped"}]
      /\ answer'[t] = None
      /\ \A u \in Tasks \ {t} : answer'[u] = IF gates[id[t]] = u /\ answer[u] = None
                                             THEN "dropped" ELSE answer[u]
    BY <1>1, DropSenderType DEF DropSender
<1>6. Types' BY <1>2, <1>4, <1>5 DEF Types, PCs
<1>7. BegunIsShown' BY <1>4 DEF BegunIsShown, Types
<1>8. ShownIsAnswerable'
  <2> SUFFICES ASSUME NEW i \in Ids
               PROVE  /\ gates'[i] # None =>
                           /\ id'[gates'[i]] = i
                           /\ pc'[gates'[i]] = "parked"
                           /\ answer'[gates'[i]] = None
                           /\ views'[i] # None
                           /\ views'[i].pending = Packet(gates[i])'
                      /\ gates'[i] = None /\ views'[i] # None => views'[i].pending = None
      BY DEF ShownIsAnswerable
  <2>1. CASE i = id[t]
      BY <1>1, <1>4, <1>5, <2>1, SupervisorValues DEF Types
  <2>2. CASE i # id[t]
    <3>1. gates'[i] = gates[i] /\ views'[i] = views[i]
        BY <1>4, <2>2 DEF Types
    <3>2. gates[i] = None /\ views[i] # None => views[i].pending = None
        BY DEF ShownIsAnswerable
    <3>3. CASE gates[i] # None
      <4>1. gates[i] \in Tasks \ {t} /\ gates[i] # gates[id[t]]
          BY <1>1, <2>2, <3>3 DEF ShownIsAnswerable, Types
      <4>2. /\ id[gates[i]] = i /\ pc[gates[i]] = "parked" /\ answer[gates[i]] = None
            /\ views[i] # None /\ views[i].pending = Packet(gates[i])
          BY <3>3 DEF ShownIsAnswerable
      <4>3. Packet(gates[i])' = Packet(gates[i])
          BY <1>2, <3>1, <4>1 DEF Packet
      <4>4. pc'[gates[i]] = pc[gates[i]] /\ id'[gates[i]] = id[gates[i]]
          BY <4>1 DEF Types
      <4>5. answer'[gates[i]] = answer[gates[i]]
          BY <1>5, <4>1
      <4>6. QED BY <3>1, <3>3, <4>2, <4>3, <4>4, <4>5
    <3>4. QED BY <3>1, <3>2, <3>3
  <2>3. QED BY <2>1, <2>2
<1>9. ParkedIsReachable'
  <2> SUFFICES ASSUME NEW u \in Tasks, pc'[u] = "parked"
               PROVE  \/ answer'[u] = None /\ gates'[id'[u]] = u
                      \/ answer'[u] \in Decisions
                      \/ answer'[u] = "dropped"
                         /\ \E w \in Tasks \ {u} : pc'[w] # "absent" /\ id'[w] = id'[u]
      BY DEF ParkedIsReachable
  <2>1. CASE u = t
      BY <1>1, <1>5, <2>1 DEF Types
  <2>2. CASE u # t /\ id[u] = id[t]
      BY <1>5, <2>2 DEF Types, ParkedIsReachable
  <2>3. CASE u # t /\ id[u] # id[t]
    <3>1. gates[id[t]] # u
        BY <1>1, <2>3, SupervisorValues DEF ShownIsAnswerable, Types
    <3>2. answer'[u] = answer[u] /\ pc[u] = "parked" /\ gates'[id[u]] = gates[id[u]]
        BY <1>5, <2>3, <3>1 DEF Types
    <3>3. \A w \in Tasks : pc'[w] # "absent" <=> pc[w] # "absent"
        BY DEF Types
    <3>4. QED BY <3>2, <3>3 DEF ParkedIsReachable
  <2>4. QED BY <2>1, <2>2, <2>3
<1>10. QED BY <1>6, <1>7, <1>8, <1>9

(***************************************************************************)
(* What Resume and Finish do to an id, t's: the gate goes, its sender is   *)
(* dropped and the view has no packet.  A run that loses its sender shares *)
(* the id with t.                                                          *)
(***************************************************************************)
LEMMA GateClosed ==
    ASSUME IInv, NEW t \in Tasks, pc[t] # "absent", gates[id[t]] # t,
           id' = id, asked' = asked,
           NEW state \in {"driving", "done"}, pc' = [pc EXCEPT ![t] = state],
           gates' = [gates EXCEPT ![id[t]] = None],
           answer' = DropSender(id[t]),
           clock' = clock,
           views' \in [Ids -> Views \cup {None}],
           \A j \in Ids : views'[j] = None <=> views[j] = None,
           \A j \in Ids \ {id[t]} : views'[j] = views[j],
           views[id[t]] # None => views'[id[t]].pending = None,
           state = "driving" => views[id[t]] # None
    PROVE  IInv'
<1> USE DEF IInv
<1>1. id[t] \in Ids
    BY DEF Types
<1>2. /\ answer' \in [Tasks -> Decisions \cup {None, "dropped"}]
      /\ \A u \in Tasks : answer'[u] = IF gates[id[t]] = u /\ answer[u] = None
                                       THEN "dropped" ELSE answer[u]
    BY <1>1, DropSenderType DEF DropSender
<1>3. \A u \in Tasks \ {t} : pc'[u] = pc[u]
    BY DEF Types
<1>4. pc'[t] \in {"driving", "done"}
    BY DEF Types
<1>5. Types' BY <1>2 DEF Types, PCs
<1>6. BegunIsShown'
    BY <1>1, <1>3, <1>4 DEF BegunIsShown, Types
<1>7. ShownIsAnswerable'
  <2> SUFFICES ASSUME NEW i \in Ids
               PROVE  /\ gates'[i] # None =>
                           /\ id'[gates'[i]] = i
                           /\ pc'[gates'[i]] = "parked"
                           /\ answer'[gates'[i]] = None
                           /\ views'[i] # None
                           /\ views'[i].pending = Packet(gates[i])'
                      /\ gates'[i] = None /\ views'[i] # None => views'[i].pending = None
      BY DEF ShownIsAnswerable
  <2>1. CASE i = id[t]
      BY <1>1, <2>1 DEF Types
  <2>2. CASE i # id[t]
    <3>1. gates'[i] = gates[i] /\ views'[i] = views[i]
        BY <2>2 DEF Types
    <3>2. gates[i] = None /\ views[i] # None => views[i].pending = None
        BY DEF ShownIsAnswerable
    <3>3. CASE gates[i] # None
      <4>1. /\ id[gates[i]] = i /\ pc[gates[i]] = "parked" /\ answer[gates[i]] = None
            /\ views[i] # None /\ views[i].pending = Packet(gates[i])
          BY <3>3 DEF ShownIsAnswerable
      <4>2. gates[i] \in Tasks \ {t} /\ gates[i] # gates[id[t]]
          BY <1>1, <2>2, <3>3, <4>1 DEF ShownIsAnswerable, Types
      <4>3. Packet(gates[i])' = Packet(gates[i])
          BY <3>1 DEF Packet
      <4>4. QED BY <1>2, <1>3, <3>1, <3>3, <4>1, <4>2, <4>3
    <3>4. QED BY <3>1, <3>2, <3>3
  <2>3. QED BY <2>1, <2>2
<1>8. ParkedIsReachable'
  <2> SUFFICES ASSUME NEW u \in Tasks, pc'[u] = "parked"
               PROVE  \/ answer'[u] = None /\ gates'[id'[u]] = u
                      \/ answer'[u] \in Decisions
                      \/ answer'[u] = "dropped"
                         /\ \E w \in Tasks \ {u} : pc'[w] # "absent" /\ id'[w] = id'[u]
      BY DEF ParkedIsReachable
  <2>1. u # t /\ pc[u] = "parked"
      BY <1>3, <1>4
  <2>2. \A w \in Tasks : pc[w] # "absent" => pc'[w] # "absent"
      BY <1>3, <1>4
  <2>3. CASE id[u] = id[t]
      BY <1>2, <2>1, <2>2, <2>3 DEF ParkedIsReachable
  <2>4. CASE id[u] # id[t]
    <3>1. gates[id[t]] # u
        BY <1>1, <2>4, SupervisorValues DEF ShownIsAnswerable, Types
    <3>2. answer'[u] = answer[u] /\ gates'[id[u]] = gates[id[u]]
        BY <1>2, <2>4, <3>1 DEF Types
    <3>3. QED BY <2>1, <2>2, <3>2 DEF ParkedIsReachable
  <2>5. QED BY <2>3, <2>4
<1>9. QED BY <1>5, <1>6, <1>7, <1>8

(* A run with a decision goes on: by then its own sender is registered nowhere. *)
LEMMA ResumeStep == ASSUME NEW t \in Tasks PROVE IInv /\ Resume(t) => IInv'
<1> SUFFICES ASSUME IInv, Resume(t) PROVE IInv'
    OBVIOUS
<1>1. id[t] \in Ids /\ views[id[t]] # None
    BY DEF IInv, Types, BegunIsShown, Resume
<1>2. gates[id[t]] # t
    BY <1>1, SupervisorValues DEF IInv, ShownIsAnswerable, Types, Resume
<1>3. views' = ClearPending(id[t])
    BY DEF Resume
<1>4. /\ views' \in [Ids -> Views \cup {None}]
      /\ \A j \in Ids : views'[j] = None <=> views[j] = None
      /\ \A j \in Ids \ {id[t]} : views'[j] = views[j]
      /\ views[id[t]] # None => views'[id[t]].pending = None
    BY <1>1, <1>3, ClearPendingType DEF IInv
<1>5. QED BY <1>1, <1>2, <1>4, GateClosed DEF Resume

(* A run that is over takes its gate with it, or another run's of its id. *)
LEMMA FinishStep == ASSUME NEW t \in Tasks PROVE IInv /\ Finish(t) => IInv'
<1> SUFFICES ASSUME IInv, Finish(t) PROVE IInv'
    OBVIOUS
<1> DEFINE i == id[t]
           v == View(None, pc[t] = "failed", TRUE)
<1>1. i \in Ids /\ pc[t] \in {"ended", "failed"}
    BY DEF IInv, Types, Finish
<1>2. gates[i] # t
    BY <1>1, SupervisorValues DEF IInv, ShownIsAnswerable, Types
<1>3. v \in Views /\ v.pending = None
    BY DEF View, Views
<1>4. views' = [views EXCEPT ![i] = IF views[i] = None THEN None ELSE v]
    BY DEF Finish, IInv, Types
<1>5. /\ views' \in [Ids -> Views \cup {None}]
      /\ \A j \in Ids : views'[j] = None <=> views[j] = None
      /\ \A j \in Ids \ {i} : views'[j] = views[j]
      /\ views[i] # None => views'[i].pending = None
    BY <1>1, <1>3, <1>4, SupervisorValues DEF IInv, Types
<1>6. QED BY <1>1, <1>2, <1>5, GateClosed DEF Finish

(* The orchestrator returned: the view stays, its packet was none. *)
LEMMA EndStep == ASSUME NEW t \in Tasks PROVE IInv /\ End(t) => IInv'
<1> SUFFICES ASSUME IInv, End(t) PROVE IInv'
    OBVIOUS
<1> USE DEF IInv, End
<1>1. id[t] \in Ids /\ views[id[t]] # None /\ views[id[t]] \in Views
    BY DEF Types, BegunIsShown
<1>2. PICK terminal \in BOOLEAN : Sync(id[t], terminal)
    OBVIOUS
<1> DEFINE v == views[id[t]]
           w == View(v.pending, v.error, v.finished \/ terminal)
<1>3. w \in Views /\ w.pending = v.pending
    BY <1>1 DEF View, Views
<1>4. views' = [views EXCEPT ![id[t]] = w]
    BY <1>1, <1>2 DEF Sync, Types
<1>5. /\ views' \in [Ids -> Views \cup {None}]
      /\ \A j \in Ids : views'[j] = None <=> views[j] = None
      /\ \A j \in Ids : views[j] # None => views'[j].pending = views[j].pending
    BY <1>1, <1>3, <1>4, SupervisorValues DEF Types
<1>6. \A u \in Tasks : pc[u] = "parked" <=> pc'[u] = "parked"
    BY DEF Types
<1>7. \A u \in Tasks : pc[u] # "absent" => pc'[u] # "absent"
    BY DEF Types
<1>8. Types' BY <1>5 DEF Types, PCs
<1>9. BegunIsShown' BY <1>5, <1>1 DEF BegunIsShown, Types
<1>10. ShownIsAnswerable'
    BY <1>5, <1>6 DEF ShownIsAnswerable, Types, Packet
<1>11. ParkedIsReachable' BY <1>6, <1>7 DEF ParkedIsReachable, Types
<1>12. QED BY <1>8, <1>9, <1>10, <1>11

(* A run fails: if it was parked, its sender is registered nowhere. *)
LEMMA FailStep == ASSUME NEW t \in Tasks PROVE IInv /\ Fail(t) => IInv'
<1> SUFFICES ASSUME IInv, Fail(t) PROVE IInv'
    OBVIOUS
<1> USE DEF IInv, Fail
<1>1. \A i \in Ids : gates[i] # t
    BY SupervisorValues DEF ShownIsAnswerable, Types
<1>2. \A u \in Tasks \ {t} : pc'[u] = pc[u]
    BY DEF Types
<1>3. pc'[t] = "failed"
    BY DEF Types
<1>4. Types' BY DEF Types, PCs
<1>5. BegunIsShown' BY <1>2, <1>3 DEF BegunIsShown
<1>6. ShownIsAnswerable'
    BY <1>1, <1>2 DEF ShownIsAnswerable, Types, Packet
<1>7. ParkedIsReachable' BY <1>2, <1>3 DEF ParkedIsReachable
<1>8. QED BY <1>4, <1>5, <1>6, <1>7

(* A decision is sent to the run whose packet is shown. *)
LEMMA DecideStep ==
    ASSUME NEW i \in Ids, NEW decision \in Decisions
    PROVE  IInv /\ Decide(i, decision) => IInv'
<1> SUFFICES ASSUME IInv, Decide(i, decision) PROVE IInv'
    OBVIOUS
<1> USE DEF IInv, Decide
<1> DEFINE t == gates[i]
<1>1. t \in Tasks /\ id[t] = i
    BY DEF ShownIsAnswerable, Types
<1>2. /\ views' \in [Ids -> Views \cup {None}]
      /\ \A j \in Ids : views'[j] = None <=> views[j] = None
      /\ \A j \in Ids \ {i} : views'[j] = views[j]
      /\ views[i] # None => views'[i].pending = None
    BY ClearPendingType
<1>3. answer'[t] = decision /\ \A u \in Tasks \ {t} : answer'[u] = answer[u]
    BY <1>1 DEF Types
<1>4. gates'[i] = None /\ \A j \in Ids \ {i} : gates'[j] = gates[j]
    BY DEF Types
<1>5. Types' BY <1>1, <1>2 DEF Types
<1>6. BegunIsShown' BY <1>2 DEF BegunIsShown, Types
<1>7. \A j \in Ids \ {i} : gates[j] # t
    BY <1>1, SupervisorValues DEF ShownIsAnswerable
<1>8. ShownIsAnswerable'
    BY <1>2, <1>3, <1>4, <1>7 DEF ShownIsAnswerable, Types, Packet
<1>9. ParkedIsReachable'
    BY <1>1, <1>3, <1>4, SupervisorValues DEF ParkedIsReachable, Types
<1>10. QED BY <1>5, <1>6, <1>8, <1>9

-----------------------------------------------------------------------------
(* The invariant holds in every state of every behaviour. *)
LEMMA Inductive == Spec => []IInv
<1>1. IInv /\ [Next]_vars => IInv'
  <2> SUFFICES ASSUME IInv, [Next]_vars PROVE IInv'
      OBVIOUS
  <2>1. CASE UNCHANGED vars
      BY <2>1 DEF IInv, Types, BegunIsShown, ShownIsAnswerable, ParkedIsReachable, Packet, vars
  <2>2. CASE Next
      BY <2>2, TickStep, StartStep, BeginStep, EmitStep, ParkStep, ResumeStep, EndStep, FailStep,
         FinishStep, DecideStep DEF Next
  <2>3. QED BY <2>1, <2>2
<1>2. QED BY InitIInv, <1>1, PTL DEF Spec

(***************************************************************************)
(* For any number of runs, also when they share ids: the console shows a   *)
(* packet exactly when it can answer it (park, unpark, decide, finish).    *)
(***************************************************************************)
THEOREM Shown == Spec => []ShownIsAnswerable
<1>1. IInv => ShownIsAnswerable
    BY DEF IInv
<1>2. QED BY Inductive, <1>1, PTL

(***************************************************************************)
(* A run that waits at its gate can be answered, has its answer, or has    *)
(* lost its sender to another run of the same id (SupervisorGate).         *)
(***************************************************************************)
THEOREM Reachable == Spec => []ParkedIsReachable
<1>1. IInv => ParkedIsReachable
    BY DEF IInv
<1>2. QED BY Inductive, <1>1, PTL

-----------------------------------------------------------------------------
(* The log. *)

(* What is kept of a log of n lines: the newest, numbered without a gap. *)
Newest(log, n) ==
    /\ Len(log) = IF n <= MaxLogLines THEN n ELSE MaxLogLines
    /\ \A k \in 1 .. Len(log) : log[k] = n - Len(log) + k

LogsOK ==
    /\ logs \in [Ids -> Seq(Nat)] /\ nextSeq \in [Ids -> Nat]
    /\ \A i \in Ids : Newest(logs[i], nextSeq[i])

(* A set of numbers that is not empty has a least one. *)
LEMMA Least ==
    ASSUME NEW T \in SUBSET Nat, T # {}
    PROVE  \E m \in T : \A k \in T : m <= k
<1> DEFINE R == OpToRel(<, Nat)
<1>1. IsWellFoundedOn(R, Nat)
    BY NatLessThanWellFounded
<1> HIDE DEF R
<1>2. PICK x \in T : \A y \in T : ~(<<y, x>> \in R)
    BY <1>1, WFMin
<1>3. \A y \in Nat : y < x => <<y, x>> \in R
    BY DEF R, OpToRel
<1>4. \A y \in T : ~(y < x)
    BY <1>2, <1>3
<1> QED BY <1>4

(* append_log numbers the line and drops the oldest when there are too many. *)
LEMMA AppendLogKeeps ==
    ASSUME LogsOK, NEW i \in Ids, AppendLog(i)
    PROVE  LogsOK'
<1> DEFINE log == logs[i]
           n == nextSeq[i]
           longer == Append(log, n + 1)
           extra == IF Len(longer) > MaxLogLines THEN Len(longer) - MaxLogLines ELSE 0
           kept == SubSeq(longer, extra + 1, Len(longer))
<1>1. /\ logs' = [logs EXCEPT ![i] = kept]
      /\ nextSeq' = [nextSeq EXCEPT ![i] = n + 1]
    BY DEF AppendLog
<1>2. log \in Seq(Nat) /\ n \in Nat /\ Newest(log, n) /\ MaxLogLines \in Nat \ {0}
    BY SupervisorBounds DEF LogsOK
<1> HIDE DEF log, n
<1>3. /\ longer \in Seq(Nat) /\ Len(log) \in Nat /\ Len(longer) = Len(log) + 1
      /\ longer[Len(log) + 1] = n + 1 /\ \A k \in 1 .. Len(log) : longer[k] = log[k]
    BY <1>2
<1> HIDE DEF longer
<1>4. \A k \in 1 .. Len(longer) : longer[k] = n + 1 - Len(longer) + k
    <2>1. SUFFICES ASSUME NEW k \in 1 .. Len(longer) PROVE longer[k] = n + 1 - Len(longer) + k
        OBVIOUS
    <2>2. CASE k = Len(log) + 1
        BY <1>2, <1>3, <2>2
    <2>3. CASE k # Len(log) + 1
        <3>1. k \in 1 .. Len(log) /\ longer[k] = log[k] /\ log[k] = n - Len(log) + k
            BY <1>2, <1>3, <2>3 DEF Newest
        <3> QED BY <1>2, <1>3, <3>1
    <2> QED BY <2>2, <2>3
<1>5. extra \in {0, 1} /\ Len(longer) - extra = IF n + 1 <= MaxLogLines THEN n + 1 ELSE MaxLogLines
    BY <1>2, <1>3 DEF Newest
<1> HIDE DEF extra
<1>6. /\ kept \in Seq(Nat) /\ Len(kept) = Len(longer) - extra
      /\ \A k \in 1 .. Len(kept) : kept[k] = longer[extra + k]
    BY <1>3, <1>5
<1> HIDE DEF kept
<1>7. \A k \in 1 .. Len(kept) : kept[k] = n + 1 - Len(kept) + k
    <2>1. SUFFICES ASSUME NEW k \in 1 .. Len(kept) PROVE kept[k] = n + 1 - Len(kept) + k
        OBVIOUS
    <2>2. extra + k \in 1 .. Len(longer)
        BY <1>3, <1>5, <1>6
    <2> QED BY <1>2, <1>3, <1>4, <1>5, <1>6, <2>2
<1>8. Newest(kept, n + 1)
    BY <1>2, <1>5, <1>6, <1>7 DEF Newest
<1> QED BY <1>1, <1>2, <1>6, <1>8 DEF LogsOK

(* The recursion of LogAfter, and that it has one solution. *)
Solves(log, seen, f) ==
    \A k \in 0 .. Len(log) :
        f[k] = IF k = 0 THEN <<>>
               ELSE IF log[k] > seen THEN Append(f[k - 1], log[k]) ELSE f[k - 1]

(* Two solutions agree on the whole log: the least line on which they differ *)
(* has no place.                                                             *)
LEMMA KeptOnce ==
    ASSUME NEW log \in Seq(Nat), NEW seen \in Nat, NEW F, NEW G,
           Solves(log, seen, F), Solves(log, seen, G)
    PROVE  F[Len(log)] = G[Len(log)]
<1>1. Len(log) \in Nat
    OBVIOUS
<1> DEFINE T == {k \in 0 .. Len(log) : F[k] # G[k]}
<1>2. SUFFICES ASSUME T # {} PROVE FALSE
    BY <1>1
<1>3. T \in SUBSET Nat
    BY <1>1
<1> HIDE DEF T
<1>4. PICK m \in T : \A k \in T : m <= k
    BY <1>2, <1>3, Least
<1>5. m \in 0 .. Len(log) /\ F[m] # G[m]
    BY DEF T
<1>6. F[m] = IF m = 0 THEN <<>> ELSE IF log[m] > seen THEN Append(F[m - 1], log[m]) ELSE F[m - 1]
    BY <1>5 DEF Solves
<1>7. G[m] = IF m = 0 THEN <<>> ELSE IF log[m] > seen THEN Append(G[m - 1], log[m]) ELSE G[m - 1]
    BY <1>5 DEF Solves
<1>8. m # 0 /\ m - 1 \in 0 .. Len(log) /\ m - 1 \notin T
    BY <1>1, <1>4, <1>5, <1>6, <1>7
<1>9. F[m - 1] = G[m - 1]
    BY <1>8 DEF T
<1> QED BY <1>5, <1>6, <1>7, <1>9

(* A poll of what was kept. *)
LEMMA PollKept ==
    ASSUME LogsOK, NEW i \in Ids, NEW seen \in 0 .. nextSeq[i], nextSeq[i] - seen <= MaxLogLines
    PROVE  LogAfter(i, seen) = [k \in 1 .. nextSeq[i] - seen |-> seen + k]
<1> DEFINE log == logs[i]
           n == nextSeq[i]
           since(k) == [j \in 1 .. k |-> seen + j]
           d == Len(log) - (n - seen)
           Def(f) == [k \in 0 .. Len(log) |-> IF k = 0 THEN <<>>
                        ELSE IF log[k] > seen THEN Append(f[k - 1], log[k]) ELSE f[k - 1]]
           F == CHOOSE f : f = Def(f)
           G == [k \in 0 .. Len(log) |-> since(IF k > d THEN k - d ELSE 0)]
<1>1. LogAfter(i, seen) = F[Len(log)]
    BY DEF LogAfter
<1>2. log \in Seq(Nat) /\ n \in Nat /\ Newest(log, n) /\ seen \in Nat /\ Len(log) \in Nat
    BY DEF LogsOK
<1> HIDE DEF log, n
<1>3. d \in Nat /\ d <= Len(log)
    BY <1>2, SupervisorBounds DEF Newest, n
<1>4. \A k \in 1 .. Len(log) : log[k] = seen + (k - d)
    BY <1>2 DEF Newest
<1> HIDE DEF d
<1>5. ASSUME NEW m \in Nat
      PROVE  since(m) \in Seq(Nat) /\ Append(since(m), seen + (m + 1)) = since(m + 1)
    BY <1>2
<1>6. since(0) = <<>>
    OBVIOUS
<1>7. G = Def(G)
    <2>1. SUFFICES ASSUME NEW k \in 0 .. Len(log)
                   PROVE  G[k] = IF k = 0 THEN <<>>
                                 ELSE IF log[k] > seen THEN Append(G[k - 1], log[k]) ELSE G[k - 1]
        OBVIOUS
    <2> HIDE DEF since
    <2>2. CASE k = 0
        BY <1>2, <1>3, <1>6, <2>2
    <2>3. CASE k # 0
        <3>1. k \in 1 .. Len(log) /\ k - 1 \in 0 .. Len(log) /\ log[k] = seen + (k - d)
            BY <1>2, <1>4, <2>3
        <3>2. G[k - 1] = since(IF k - 1 > d THEN k - 1 - d ELSE 0)
            BY <3>1
        <3>3. CASE k > d
            <4>1. log[k] > seen
                BY <1>2, <1>3, <3>1, <3>3
            <4>2. k - 1 - d \in Nat /\ G[k - 1] = since(k - 1 - d)
                BY <1>2, <1>3, <3>1, <3>2, <3>3
            <4>3. Append(since(k - 1 - d), seen + (k - d)) = since(k - d)
                <5>1. (k - 1 - d) + 1 = k - d
                    BY <1>2, <1>3
                <5> QED BY <1>5, <4>2, <5>1
            <4> QED BY <2>3, <3>1, <3>3, <4>1, <4>2, <4>3
        <3>4. CASE ~(k > d)
            <4>1. ~(log[k] > seen)
                BY <1>2, <1>3, <3>1, <3>4
            <4> QED BY <1>3, <2>3, <3>1, <3>2, <3>4, <4>1
        <3> QED BY <3>3, <3>4
    <2> QED BY <2>2, <2>3
<1>8. F = Def(F)
    BY <1>7
<1> HIDE DEF F, G, since
<1>9. Solves(log, seen, F) /\ Solves(log, seen, G)
    BY <1>7, <1>8 DEF Solves
<1> HIDE DEF Def
<1>10. F[Len(log)] = G[Len(log)]
    BY <1>2, <1>9, KeptOnce
<1>11. G[Len(log)] = since(n - seen)
    BY <1>2, <1>3 DEF G, d
<1> QED BY <1>1, <1>10, <1>11 DEF since, n

(* Whoever writes it, a log is touched by append_log only. *)
LEMMA LogsStep ==
    ASSUME IInv, LogsOK, [Next]_vars
    PROVE  LogsOK'
<1>1. \A t \in Tasks : id[t] \in Ids
    BY DEF IInv, Types
<1>2. ASSUME NEW t \in Tasks, Begin(t) \/ Emit(t) \/ Park(t) \/ Resume(t) \/ End(t) \/ Fail(t)
      PROVE  LogsOK'
  <2>1. AppendLog(id[t])
      BY <1>2 DEF Begin, Emit, Park, Resume, End, Fail
  <2>2. QED BY <1>1, <2>1, AppendLogKeeps
<1>3. ASSUME NEW t \in Tasks, Start(t) \/ Finish(t) PROVE LogsOK'
    BY <1>3 DEF LogsOK, Newest, Start, Finish, registry
<1>4. ASSUME NEW i \in Ids, NEW decision \in Decisions, Decide(i, decision) PROVE LogsOK'
    BY <1>4 DEF LogsOK, Newest, Decide
<1>5. CASE Tick
    BY <1>5 DEF LogsOK, Newest, Tick, registry
<1>6. CASE UNCHANGED vars
    BY <1>6 DEF LogsOK, Newest, vars
<1>7. QED BY <1>2, <1>3, <1>4, <1>5, <1>6 DEF Next

(* In the first state every log is empty. *)
LEMMA LogsInit == Init => LogsOK
<1> SUFFICES ASSUME Init PROVE LogsOK
    OBVIOUS
<1>1. \A i \in Ids : logs[i] = <<>> /\ nextSeq[i] = 0
    BY DEF Init
<1>2. logs \in [Ids -> Seq(Nat)] /\ nextSeq \in [Ids -> Nat]
    BY DEF Init
<1>3. QED BY <1>1, <1>2, SupervisorBounds DEF LogsOK, Newest

(* The newest lines are kept and numbered without a gap, for ever. *)
LEMMA LogsInductive == Spec => []LogsOK
<1>1. QED BY Inductive, LogsInit, LogsStep, PTL DEF Spec

(***************************************************************************)
(* A client that polls often enough gets every line once and in order, for *)
(* any MAX_LOG_LINES and any number of runs that share the log (append_log *)
(* and log_after).                                                         *)
(***************************************************************************)
THEOREM PolledGapless == Spec => []PollMissesNothing
<1>1. LogsOK => PollMissesNothing
    BY PollKept DEF PollMissesNothing
<1>2. QED BY LogsInductive, <1>1, PTL

-----------------------------------------------------------------------------
(* The types. *)

(* What neither IInv nor LogsOK says of the types. *)
RestTyped == order \in Seq(Ids) /\ lines \in 0 .. MaxLines

(* register puts a new id in front. *)
LEMMA RestStep ==
    ASSUME IInv, RestTyped, [Next]_vars
    PROVE  RestTyped'
<1> USE DEF RestTyped
<1>1. \A t \in Tasks : id[t] \in Ids
    BY DEF IInv, Types
<1>2. ASSUME NEW i \in Ids, NEW terminal \in BOOLEAN, Sync(i, terminal) PROVE order' \in Seq(Ids)
    BY <1>2 DEF Sync
<1>3. ASSUME NEW t \in Tasks, Begin(t) \/ End(t) PROVE RestTyped'
    BY <1>1, <1>2, <1>3 DEF Begin, End
<1>4. ASSUME NEW t \in Tasks, Emit(t) PROVE RestTyped'
    BY <1>4, SupervisorBounds DEF Emit
<1>5. ASSUME NEW t \in Tasks, Start(t) \/ Park(t) \/ Resume(t) \/ Fail(t) \/ Finish(t)
      PROVE  RestTyped'
    BY <1>5 DEF Start, Park, Resume, Fail, Finish, registry
<1>6. ASSUME NEW i \in Ids, NEW decision \in Decisions, Decide(i, decision) PROVE RestTyped'
    BY <1>6 DEF Decide
<1>7. CASE Tick \/ UNCHANGED vars
    BY <1>7 DEF Tick, registry, vars
<1>8. QED BY <1>3, <1>4, <1>5, <1>6, <1>7 DEF Next

(***************************************************************************)
(* Every variable of the registry and of the tasks that drive runs into it *)
(* keeps its type (supervisor.rs, drive_console_run).                      *)
(***************************************************************************)
THEOREM TypeCorrect == Spec => []TypeOK
<1>1. Init => RestTyped
    BY SupervisorBounds DEF Init, RestTyped
<1>2. IInv /\ LogsOK /\ RestTyped => TypeOK
    BY DEF IInv, Types, PCs, LogsOK, RestTyped, TypeOK
<1>3. QED BY Inductive, LogsInductive, RestStep, <1>1, <1>2, PTL DEF Spec
=============================================================================
