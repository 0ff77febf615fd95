------------------------- MODULE RelayChannelProofs -------------------------
(***************************************************************************)
(* NonceUnique, OpenedInOrder and RoutedToNewest for any number of apps,   *)
(* connections and envelopes.                                              *)
(*                                                                         *)
(* The argument: a link's channel is fixed from the moment it is active    *)
(* (Progress), an app's hello and a daemon's accept are fresh, so a peer   *)
(* has no two links with one channel (HellosDiffer, AcceptsDiffer), and an *)
(* envelope carries its link's peer, channel and a number its counter has  *)
(* passed (Stamped).  The hub indexes an open socket of a peer exactly if  *)
(* the peer's latest socket is open, and no older one is (Hub).            *)
(***************************************************************************)
EXTENDS RelayChannel, TLAPS

LinkType == [peer : Peers \cup {None}, remote : Peers \cup {None},
             pc : {"unused", "ready", "waiting", "active", "closed"},
             socket : {"none", "open", "closing", "closed"},
             hello : Nat \cup {None}, accept : Nat \cup {None}, out : Nat, in : Nat]

FrameType == [type : {"hello", "accept", "envelope"}, from : Peers, to : Peers \cup {None},
              hello : Nat \cup {None}, accept : Nat \cup {None}, seq : Nat, by : Links, n : Nat]

Types ==
    /\ links \in Nat /\ fresh \in Nat
    /\ link \in [Links -> LinkType]
    /\ box \in [Links -> SUBSET FrameType]
    /\ sent \in [Links -> Nat]
    /\ got \in [Links -> Seq(FrameType)]

(* How far a link is says which of its values are set. *)
Progress == \A k \in Links :
    /\ k > links => link[k].pc = "unused"
    /\ link[k].pc = "unused" => /\ link[k].peer = None /\ link[k].hello = None
                                /\ link[k].accept = None /\ link[k].out = 1
    /\ link[k].pc = "ready" => link[k].hello = None /\ link[k].accept = None
    /\ link[k].pc = "waiting" => link[k].accept = None /\ link[k].peer \in Apps
    /\ link[k].pc = "active" => link[k].accept # None
    /\ link[k].pc \in {"ready", "waiting", "active"} => link[k].peer \in Peers
    /\ link[k].accept # None => link[k].peer \in Peers
    /\ link[k].peer \in Apps /\ (link[k].pc = "waiting" \/ link[k].accept # None) => link[k].hello # None
    /\ link[k].accept = None => got[k] = << >>

Counted == \A k \in Links : link[k].out = sent[k] + 1

(* What was drawn is not above the counter. *)
Drawn == \A k \in Links :
    /\ link[k].peer \in Apps /\ link[k].hello # None => link[k].hello <= fresh
    /\ link[k].peer = Daemon /\ link[k].accept # None => link[k].accept <= fresh

HellosDiffer == \A k, d \in Links :
    link[k].peer \in Apps /\ link[d].peer \in Apps /\ link[k].hello # None
    /\ link[k].hello = link[d].hello => k = d

AcceptsDiffer == \A k, d \in Links :
    link[k].peer = Daemon /\ link[d].peer = Daemon /\ link[k].accept # None
    /\ link[k].accept = link[d].accept => k = d

(* An envelope bears the marks of the link that made it. *)
Stamp(L, f) ==
    /\ L[f.by].accept # None
    /\ f.from = L[f.by].peer
    /\ f.hello = L[f.by].hello /\ f.accept = L[f.by].accept
    /\ f.seq = f.n /\ f.n < L[f.by].out

FrameOK(L, f) ==
    /\ f.type = "envelope" => Stamp(L, f)
    /\ f.type = "accept" => f.accept # None

Stamped == \A k \in Links : \A f \in box[k] : FrameOK(link, f)

(* What a link opened is of its channel, in order, and not above its counter. *)
Opened == \A k \in Links :
    /\ \A i \in 1..Len(got[k]) :
          /\ Stamp(link, got[k][i])
          /\ got[k][i].from = link[k].remote
          /\ got[k][i].hello = link[k].hello /\ got[k][i].accept = link[k].accept
          /\ got[k][i].seq <= link[k].in
    /\ \A i, j \in 1..Len(got[k]) : i < j => got[k][i].seq < got[k][j].seq

IInv == /\ Types /\ Progress /\ Counted /\ Drawn /\ HellosDiffer /\ AcceptsDiffer
        /\ Stamped /\ Opened

-----------------------------------------------------------------------------
(* In the first state no link was ever used. *)
LEMMA InitIInv == Init => IInv
<1> SUFFICES ASSUME Init PROVE IInv
    OBVIOUS
<1>1. \A k \in Links : link[k] = NoLink /\ got[k] = << >> /\ box[k] = {} /\ sent[k] = 0
    BY DEF Init
<1>2. NoLink \in LinkType
    BY DEF NoLink, LinkType
<1>3. Types
    BY <1>2 DEF Init, Types
<1>4. Progress /\ Counted /\ Drawn /\ HellosDiffer /\ AcceptsDiffer
    BY <1>1, PeerNames DEF Progress, Counted, Drawn, HellosDiffer, AcceptsDiffer, NoLink
<1>5. Stamped /\ Opened
    BY <1>1 DEF Stamped, Opened
<1>6. QED BY <1>3, <1>4, <1>5 DEF IInv

(* Route (webSocketMessage of the hub) adds at most the frame, to one box. *)
LEMMA RouteAdds ==
    ASSUME Types, NEW f \in FrameType, Route(f)
    PROVE  /\ box' \in [Links -> SUBSET FrameType]
           /\ \A k \in Links : box'[k] \subseteq box[k] \cup {f}
BY DEF Types, Route

(* Links of one peer with one channel are the same link. *)
LEMMA ChannelsDiffer ==
    ASSUME IInv, NEW k \in Links, NEW d \in Links, link[k].peer = link[d].peer,
           link[k].accept # None, link[k].accept = link[d].accept, link[k].hello = link[d].hello
    PROVE  k = d
BY DEF IInv, Progress, HellosDiffer, AcceptsDiffer, Peers

(***************************************************************************)
(* A step that keeps every link's peer, hello and accept where an accept   *)
(* was set, and lets no counter go back, keeps every stamp.                *)
(***************************************************************************)
LEMMA StampsKept ==
    ASSUME Types, Types',
           \A d \in Links : link[d].accept # None =>
               /\ link'[d].peer = link[d].peer /\ link'[d].hello = link[d].hello
               /\ link'[d].accept = link[d].accept /\ link'[d].out >= link[d].out,
           NEW f \in FrameType, Stamp(link, f)
    PROVE  Stamp(link', f)
<1>1. f.by \in Links /\ f.n \in Nat
    BY DEF FrameType
<1>2. link[f.by] \in LinkType /\ link'[f.by] \in LinkType
    BY <1>1 DEF Types
<1>3. link[f.by].out \in Nat /\ link'[f.by].out \in Nat
    BY <1>2 DEF LinkType
<1>4. link'[f.by].accept # None /\ link'[f.by].out >= link[f.by].out
    BY <1>1 DEF Stamp
<1>5. f.n < link'[f.by].out
    BY <1>1, <1>3, <1>4 DEF Stamp
<1>6. QED BY <1>1, <1>4, <1>5 DEF Stamp

(***************************************************************************)
(* The part of a step that touches neither counters nor what was opened:   *)
(* the links' channels are kept, and a frame that is added is no envelope  *)
(* or bears its stamp.                                                     *)
(***************************************************************************)
LEMMA QuietStep ==
    ASSUME IInv, Types', Progress', Counted', Drawn', HellosDiffer', AcceptsDiffer', got' = got,
           \A d \in Links : link[d].accept # None =>
               /\ link'[d].peer = link[d].peer /\ link'[d].hello = link[d].hello
               /\ link'[d].accept = link[d].accept /\ link'[d].out >= link[d].out
               /\ link'[d].remote = link[d].remote /\ link'[d].in = link[d].in,
           \A k \in Links : \A f \in box'[k] :
               f \in box[k] \/ FrameOK(link', f)
    PROVE  IInv'
<1> USE DEF IInv
<1>1. \A f \in FrameType : Stamp(link, f) => Stamp(link', f)
    BY StampsKept
<1>2. Stamped'
    BY <1>1 DEF Stamped, FrameOK, Types
<1>3. Opened'
  <2> SUFFICES ASSUME NEW k \in Links
               PROVE  /\ \A i \in 1..Len(got[k]) :
                            /\ Stamp(link', got[k][i])
                            /\ got[k][i].from = link'[k].remote
                            /\ got[k][i].hello = link'[k].hello /\ got[k][i].accept = link'[k].accept
                            /\ got[k][i].seq <= link'[k].in
                      /\ \A i, j \in 1..Len(got[k]) : i < j => got[k][i].seq < got[k][j].seq
      BY DEF Opened
  <2>1. CASE got[k] = << >>
      BY <2>1
  <2>2. CASE got[k] # << >>
    <3>1. link[k].accept # None
        BY <2>2 DEF Progress
    <3>2. \A i \in 1..Len(got[k]) : got[k][i] \in FrameType
        BY DEF Types
    <3>3. QED BY <1>1, <3>1, <3>2 DEF Opened
  <2>3. QED BY <2>1, <2>2
<1>4. QED BY <1>2, <1>3

(* The fields of a link, of which its type says something. *)
LEMMA LinkFields ==
    ASSUME Types, NEW k \in Links
    PROVE  /\ link[k] \in LinkType
           /\ link[k].out \in Nat /\ link[k].in \in Nat
           /\ link[k].hello \in Nat \cup {None} /\ link[k].accept \in Nat \cup {None}
           /\ link[k].peer \in Peers \cup {None} /\ link[k].remote \in Peers \cup {None}
BY DEF Types, LinkType

(* A step that sets one link to r. *)
LEMMA OneLink ==
    ASSUME Types, NEW k \in Links, NEW r \in LinkType, link' = [link EXCEPT ![k] = r]
    PROVE  /\ link' \in [Links -> LinkType]
           /\ link'[k] = r
           /\ \A d \in Links \ {k} : link'[d] = link[d]
BY DEF Types

(* A close at one end, or at the hub, leaves the channel alone. *)
LEMMA CloseStep == ASSUME IInv, NEW k \in Links, Close(k) \/ ForgetSocket(k) PROVE IInv'
<1> USE DEF IInv
<1>1. UNCHANGED <<links, box, fresh, sent, got>> /\ link[k].pc # "unused"
    BY DEF Close, ForgetSocket
<1>2. PICK r \in LinkType :
         /\ link' = [link EXCEPT ![k] = r]
         /\ r.peer = link[k].peer /\ r.hello = link[k].hello /\ r.accept = link[k].accept
         /\ r.remote = link[k].remote /\ r.out = link[k].out /\ r.in = link[k].in
         /\ r.pc = link[k].pc \/ r.pc = "closed"
  <2>1. CASE Close(k)
    <3> DEFINE r == [link[k] EXCEPT !.pc = "closed"]
    <3>1. link' = [link EXCEPT ![k] = r]
        BY <2>1 DEF Close
    <3>2. r \in LinkType /\ r.pc = "closed"
        BY LinkFields DEF LinkType
    <3>3. /\ r.peer = link[k].peer /\ r.hello = link[k].hello /\ r.accept = link[k].accept
          /\ r.remote = link[k].remote /\ r.out = link[k].out /\ r.in = link[k].in
        BY LinkFields DEF LinkType
    <3>4. QED BY <3>1, <3>2, <3>3
  <2>2. CASE ForgetSocket(k)
    <3> DEFINE r == [link[k] EXCEPT !.socket = "closed"]
    <3>1. link' = [link EXCEPT ![k] = r]
        BY <2>2 DEF ForgetSocket
    <3>2. r \in LinkType /\ r.pc = link[k].pc
        BY LinkFields DEF LinkType
    <3>3. /\ r.peer = link[k].peer /\ r.hello = link[k].hello /\ r.accept = link[k].accept
          /\ r.remote = link[k].remote /\ r.out = link[k].out /\ r.in = link[k].in
        BY LinkFields DEF LinkType
    <3>4. QED BY <3>1, <3>2, <3>3
  <2>3. QED BY <2>1, <2>2
<1>3. /\ link' \in [Links -> LinkType]
      /\ \A d \in Links : /\ link'[d].peer = link[d].peer /\ link'[d].hello = link[d].hello
                          /\ link'[d].accept = link[d].accept /\ link'[d].remote = link[d].remote
                          /\ link'[d].out = link[d].out /\ link'[d].in = link[d].in
                          /\ link'[d].pc = link[d].pc \/ (link[d].pc # "unused" /\ link'[d].pc = "closed")
    BY <1>1, <1>2, OneLink
<1>4. Types'
    BY <1>1, <1>3 DEF Types
<1>5. Progress'
    BY <1>1, <1>3 DEF Progress
<1>6. Counted' /\ Drawn' /\ HellosDiffer' /\ AcceptsDiffer'
    BY <1>1, <1>3 DEF Counted, Drawn, HellosDiffer, AcceptsDiffer
<1>7. \A d \in Links : link'[d].out >= link[d].out
    BY <1>3, LinkFields
<1>8. QED BY <1>1, <1>3, <1>4, <1>5, <1>6, <1>7, QuietStep

(* A connection is a link that was never used; an older one is only closed. *)
LEMMA ConnectStep == ASSUME IInv, NEW p \in Peers, Connect(p) PROVE IInv'
<1> USE DEF IInv
<1> DEFINE new == [NoLink EXCEPT !.peer = p, !.pc = "ready", !.socket = "open"]
           k == links + 1
<1>1. /\ new \in LinkType /\ new.peer = p /\ new.pc = "ready" /\ new.hello = None
      /\ new.accept = None /\ new.out = 1
    BY DEF NoLink, LinkType
<1>2. k \in Links /\ links' = k /\ UNCHANGED <<box, fresh, sent, got>>
    BY LinkBounds DEF Connect, Links, Types
<1>3. link'[k] = new
    BY <1>2 DEF Connect
<1>4. \A d \in Links \ {k} : /\ link'[d] \in LinkType
                             /\ link'[d].peer = link[d].peer /\ link'[d].hello = link[d].hello
                             /\ link'[d].accept = link[d].accept /\ link'[d].remote = link[d].remote
                             /\ link'[d].out = link[d].out /\ link'[d].in = link[d].in
                             /\ link'[d].pc = link[d].pc
    BY LinkFields DEF Connect, LinkType
<1>5. link' \in [Links -> LinkType]
  <2>1. link' = [d \in Links |-> link'[d]]
      BY DEF Connect
  <2>2. \A d \in Links : link'[d] \in LinkType
      BY <1>1, <1>3, <1>4
  <2>3. QED BY <2>1, <2>2
<1>6. Types'
    BY <1>2, <1>5 DEF Types
<1>7. link[k].pc = "unused" /\ link[k].accept = None /\ link[k].out = 1 /\ got[k] = << >>
    BY <1>2 DEF Progress, Types
<1>8. sent[k] = 0
    BY <1>2, <1>7 DEF Counted, Types
<1>9. k \in Nat /\ \A d \in Links : d > links' => d # k /\ d > links
    BY <1>2 DEF Types, Links
<1> HIDE DEF new, k
<1>10. Progress'
    BY <1>1, <1>2, <1>3, <1>4, <1>7, <1>9 DEF Progress
<1>11. Counted'
    BY <1>1, <1>2, <1>3, <1>4, <1>8 DEF Counted
<1>12. Drawn' /\ HellosDiffer' /\ AcceptsDiffer'
    BY <1>1, <1>2, <1>3, <1>4 DEF Drawn, HellosDiffer, AcceptsDiffer
<1>13. \A d \in Links : link[d].accept # None => link'[d].out >= link[d].out
    BY <1>4, <1>7, LinkFields
<1>14. \A d \in Links : link[d].accept # None => d \in Links \ {k}
    BY <1>7
<1>15. QED BY <1>2, <1>4, <1>6, <1>10, <1>11, <1>12, <1>13, <1>14, QuietStep

(* An app's hello is drawn fresh, so it is no other link's. *)
LEMMA SendHelloStep == ASSUME IInv, NEW k \in Links, SendHello(k) PROVE IInv'
<1> USE DEF IInv
<1> DEFINE pc == IF index[Daemon] = None THEN "closed" ELSE "waiting"
           r == [link[k] EXCEPT !.pc = pc, !.hello = fresh + 1]
           f == Frame("hello", link[k].peer, Daemon, fresh + 1, None, 0, k, 0)
<1>1. /\ link[k].pc = "ready" /\ link[k].peer \in Apps /\ fresh' = fresh + 1 /\ Route(f)
      /\ UNCHANGED <<links, sent, got>> /\ link' = [link EXCEPT ![k] = r]
    BY DEF SendHello
<1>2. fresh + 1 \in Nat /\ fresh \in Nat
    BY DEF Types
<1>3. /\ r \in LinkType /\ r.peer = link[k].peer /\ r.hello = fresh + 1 /\ r.accept = link[k].accept
      /\ r.pc \in {"waiting", "closed"} /\ r.out = link[k].out
    BY <1>2, LinkFields DEF LinkType
<1>4. link[k].accept = None /\ link[k].hello = None
    BY <1>1 DEF Progress
<1>5. f \in FrameType /\ f.type = "hello"
    BY <1>1, <1>2 DEF Frame, FrameType, Peers
<1> HIDE DEF pc, r, f
<1>6. link' \in [Links -> LinkType] /\ link'[k] = r /\ \A d \in Links \ {k} : link'[d] = link[d]
    BY <1>1, <1>3, OneLink
<1>7. box' \in [Links -> SUBSET FrameType] /\ \A d \in Links : box'[d] \subseteq box[d] \cup {f}
    BY <1>1, <1>5, RouteAdds
<1>8. Types'
    BY <1>1, <1>2, <1>6, <1>7 DEF Types
<1>9. Progress' /\ Counted'
    BY <1>1, <1>2, <1>3, <1>4, <1>6, PeerNames DEF Progress, Counted, Peers
<1>10. \A d \in Links : link[d].peer \in Apps /\ link[d].hello # None => link[d].hello <= fresh
    BY DEF Drawn
<1>11. Drawn'
    BY <1>1, <1>2, <1>3, <1>4, <1>6, LinkFields DEF Drawn
<1>12. HellosDiffer'
    BY <1>2, <1>3, <1>6, <1>10 DEF HellosDiffer
<1>13. AcceptsDiffer'
    BY <1>3, <1>6 DEF AcceptsDiffer
<1>14. \A d \in Links : link[d].accept # None =>
         /\ link'[d].peer = link[d].peer /\ link'[d].hello = link[d].hello
         /\ link'[d].accept = link[d].accept /\ link'[d].out >= link[d].out
         /\ link'[d].remote = link[d].remote /\ link'[d].in = link[d].in
    BY <1>4, <1>6, LinkFields
<1>15. \A d \in Links : \A g \in box'[d] : g \in box[d] \/ FrameOK(link', g)
    BY <1>5, <1>7 DEF FrameOK
<1>16. QED BY <1>1, <1>8, <1>9, <1>11, <1>12, <1>13, <1>14, <1>15, QuietStep

(* A daemon's accept is drawn fresh; it takes the hello as it came. *)
LEMMA AcceptHelloStep == ASSUME IInv, NEW k \in Links, AcceptHello(k) PROVE IInv'
<1> USE DEF IInv
<1>1. PICK h \in box[k] :
         /\ Route(Frame("accept", Daemon, h.from, h.hello, fresh + 1, 0, k, 0))
         /\ link' = [link EXCEPT ![k].pc = "active", ![k].remote = h.from,
                                 ![k].hello = h.hello, ![k].accept = fresh + 1]
    BY DEF AcceptHello
<1> DEFINE r == [link[k] EXCEPT !.pc = "active", !.remote = h.from,
                                !.hello = h.hello, !.accept = fresh + 1]
           f == Frame("accept", Daemon, h.from, h.hello, fresh + 1, 0, k, 0)
<1>2. /\ link[k].pc = "ready" /\ link[k].peer = Daemon /\ fresh' = fresh + 1
      /\ UNCHANGED <<links, sent, got>>
    BY DEF AcceptHello
<1>3. fresh + 1 \in Nat /\ fresh \in Nat /\ h.from \in Peers /\ h.hello \in Nat \cup {None}
    BY DEF Types, FrameType
<1>4. /\ r \in LinkType /\ r.peer = link[k].peer /\ r.accept = fresh + 1
      /\ r.pc = "active" /\ r.out = link[k].out
    BY <1>3, LinkFields DEF LinkType
<1>5. link[k].accept = None /\ link[k].hello = None
    BY <1>2 DEF Progress
<1>6. f \in FrameType /\ f.type = "accept" /\ f.accept # None
    BY <1>3, PeerNames DEF Frame, FrameType, Peers
<1>7. link' = [link EXCEPT ![k] = r] /\ Route(f)
    BY <1>1
<1> HIDE DEF r, f
<1>8. link' \in [Links -> LinkType] /\ link'[k] = r /\ \A d \in Links \ {k} : link'[d] = link[d]
    BY <1>4, <1>7, OneLink
<1>9. box' \in [Links -> SUBSET FrameType] /\ \A d \in Links : box'[d] \subseteq box[d] \cup {f}
    BY <1>6, <1>7, RouteAdds
<1>10. Types'
    BY <1>2, <1>3, <1>8, <1>9 DEF Types
<1>11. Progress' /\ Counted'
    BY <1>2, <1>3, <1>4, <1>5, <1>8, PeerNames DEF Progress, Counted, Peers
<1>12. \A d \in Links : link[d].peer = Daemon /\ link[d].accept # None => link[d].accept <= fresh
    BY DEF Drawn
<1>13. Drawn'
    BY <1>2, <1>3, <1>4, <1>5, <1>8, LinkFields, PeerNames DEF Drawn
<1>14. HellosDiffer'
    BY <1>2, <1>4, <1>8, PeerNames DEF HellosDiffer
<1>15. AcceptsDiffer'
    BY <1>3, <1>4, <1>8, <1>12 DEF AcceptsDiffer
<1>16. \A d \in Links : link[d].accept # None =>
         /\ link'[d].peer = link[d].peer /\ link'[d].hello = link[d].hello
         /\ link'[d].accept = link[d].accept /\ link'[d].out >= link[d].out
         /\ link'[d].remote = link[d].remote /\ link'[d].in = link[d].in
    BY <1>5, <1>8, LinkFields
<1>17. \A d \in Links : \A g \in box'[d] : g \in box[d] \/ FrameOK(link', g)
    BY <1>6, <1>9 DEF FrameOK
<1>18. QED BY <1>2, <1>10, <1>11, <1>13, <1>14, <1>15, <1>16, <1>17, QuietStep

(* An app takes the accept; its hello, drawn fresh, keeps its channel apart. *)
LEMMA ReceiveAcceptStep == ASSUME IInv, NEW k \in Links, ReceiveAccept(k) PROVE IInv'
<1> USE DEF IInv
<1>1. /\ link[k].pc = "waiting" /\ UNCHANGED <<links, box, fresh, sent, got>>
      /\ link[k].accept = None /\ link[k].hello # None /\ link[k].peer \in Apps
    BY DEF ReceiveAccept, Progress
<1>2. PICK r \in LinkType :
         /\ link' = [link EXCEPT ![k] = r]
         /\ r.peer = link[k].peer /\ r.hello = link[k].hello /\ r.out = link[k].out
         /\ r.pc = "closed" \/ (r.pc = "active" /\ r.accept # None)
  <2>1. PICK f \in box[k] :
           /\ f.type = "accept"
           /\ link' = [link EXCEPT ![k] =
                  IF f.hello = link[k].hello
                  THEN [link[k] EXCEPT !.pc = "active", !.remote = Daemon, !.accept = f.accept]
                  ELSE [link[k] EXCEPT !.pc = "closed"]]
      BY DEF ReceiveAccept, Types
  <2>2. f.accept \in Nat \cup {None} /\ f.accept # None
      BY <2>1 DEF Types, FrameType, Stamped, FrameOK
  <2>3. CASE f.hello = link[k].hello
    <3> DEFINE r == [link[k] EXCEPT !.pc = "active", !.remote = Daemon, !.accept = f.accept]
    <3>1. link' = [link EXCEPT ![k] = r]
        BY <2>1, <2>3
    <3>2. /\ r \in LinkType /\ r.pc = "active" /\ r.accept = f.accept
          /\ r.peer = link[k].peer /\ r.hello = link[k].hello /\ r.out = link[k].out
        BY <2>2, LinkFields DEF LinkType, Peers
    <3>3. QED BY <2>2, <3>1, <3>2
  <2>4. CASE f.hello # link[k].hello
    <3> DEFINE r == [link[k] EXCEPT !.pc = "closed"]
    <3>1. link' = [link EXCEPT ![k] = r]
        BY <2>1, <2>4
    <3>2. /\ r \in LinkType /\ r.pc = "closed"
          /\ r.peer = link[k].peer /\ r.hello = link[k].hello /\ r.out = link[k].out
        BY LinkFields DEF LinkType
    <3>3. QED BY <3>1, <3>2
  <2>5. QED BY <2>3, <2>4
<1>3. link' \in [Links -> LinkType] /\ link'[k] = r /\ \A d \in Links \ {k} : link'[d] = link[d]
    BY <1>2, OneLink
<1>4. Types'
    BY <1>1, <1>3 DEF Types
<1>5. Progress' /\ Counted'
    BY <1>1, <1>2, <1>3, PeerNames DEF Progress, Counted, Peers
<1>6. Drawn' /\ HellosDiffer' /\ AcceptsDiffer'
    BY <1>1, <1>2, <1>3, PeerNames DEF Drawn, HellosDiffer, AcceptsDiffer
<1>7. \A d \in Links : link[d].accept # None =>
         /\ link'[d].peer = link[d].peer /\ link'[d].hello = link[d].hello
         /\ link'[d].accept = link[d].accept /\ link'[d].out >= link[d].out
         /\ link'[d].remote = link[d].remote /\ link'[d].in = link[d].in
    BY <1>1, <1>3, LinkFields
<1>8. QED BY <1>1, <1>4, <1>5, <1>6, <1>7, QuietStep

(* An envelope takes the link's counter as its number, and the counter moves on. *)
LEMMA SendStep == ASSUME IInv, NEW k \in Links, SendEncrypted(k) \/ StopDaemon(k) PROVE IInv'
<1> USE DEF IInv
<1> DEFINE f == Frame("envelope", link[k].peer, link[k].remote, link[k].hello, link[k].accept,
                      link[k].out, k, sent[k] + 1)
<1>1. /\ link[k].pc = "active" /\ UNCHANGED <<links, fresh, got>>
      /\ sent' = [sent EXCEPT ![k] = @ + 1] /\ Route(f)
    BY DEF SendEncrypted, Encrypt, StopDaemon
<1>2. link[k].accept # None /\ link[k].peer \in Peers /\ link[k].out = sent[k] + 1
    BY <1>1 DEF Progress, Counted
<1>3. PICK r \in LinkType :
         /\ link' = [link EXCEPT ![k] = r]
         /\ r.peer = link[k].peer /\ r.hello = link[k].hello /\ r.accept = link[k].accept
         /\ r.remote = link[k].remote /\ r.out = link[k].out + 1 /\ r.in = link[k].in
         /\ r.pc \in {"active", "closed"}
  <2>1. CASE SendEncrypted(k)
    <3> DEFINE r == [link[k] EXCEPT !.out = @ + 1]
    <3>1. link' = [link EXCEPT ![k] = r]
        BY <2>1 DEF SendEncrypted, Encrypt
    <3>2. r \in LinkType /\ r.pc = link[k].pc /\ r.out = link[k].out + 1
        BY LinkFields DEF LinkType
    <3>3. /\ r.peer = link[k].peer /\ r.hello = link[k].hello /\ r.accept = link[k].accept
          /\ r.remote = link[k].remote /\ r.in = link[k].in
        BY LinkFields DEF LinkType
    <3>4. QED BY <1>1, <3>1, <3>2, <3>3
  <2>2. CASE StopDaemon(k)
    <3> DEFINE r == [link[k] EXCEPT !.out = link[k].out + 1, !.pc = "closed"]
    <3>1. link' = [link EXCEPT ![k] = r]
        BY <2>2 DEF StopDaemon
    <3>2. link[k].out + 1 \in Nat
        BY LinkFields
    <3>3. r \in LinkType /\ r.pc = "closed" /\ r.out = link[k].out + 1
        BY <3>2, LinkFields DEF LinkType
    <3>4. /\ r.peer = link[k].peer /\ r.hello = link[k].hello /\ r.accept = link[k].accept
          /\ r.remote = link[k].remote /\ r.in = link[k].in
        BY LinkFields DEF LinkType
    <3>5. QED BY <3>1, <3>3, <3>4
  <2>3. QED BY <2>1, <2>2
<1>4. /\ f \in FrameType /\ f.type = "envelope" /\ f.by = k /\ f.from = link[k].peer
      /\ f.hello = link[k].hello /\ f.accept = link[k].accept
      /\ f.seq = link[k].out /\ f.n = link[k].out
  <2>1. link[k].out \in Nat /\ sent[k] + 1 \in Nat
      BY LinkFields, <1>2
  <2>2. QED BY <1>2, <2>1, LinkFields DEF Frame, FrameType
<1> HIDE DEF f
<1>5. link' \in [Links -> LinkType] /\ link'[k] = r /\ \A d \in Links \ {k} : link'[d] = link[d]
    BY <1>3, OneLink
<1>6. box' \in [Links -> SUBSET FrameType] /\ \A d \in Links : box'[d] \subseteq box[d] \cup {f}
    BY <1>1, <1>4, RouteAdds
<1>7. Types'
  <2>1. sent' \in [Links -> Nat]
      BY <1>1 DEF Types
  <2>2. QED BY <1>1, <1>5, <1>6, <2>1 DEF Types
<1>8. Progress'
    BY <1>1, <1>2, <1>3, <1>5 DEF Progress
<1>9. Counted'
    BY <1>1, <1>2, <1>3, <1>5 DEF Counted, Types
<1>10. Drawn' /\ HellosDiffer' /\ AcceptsDiffer'
    BY <1>1, <1>3, <1>5 DEF Drawn, HellosDiffer, AcceptsDiffer
<1>11. \A d \in Links : link[d].accept # None =>
         /\ link'[d].peer = link[d].peer /\ link'[d].hello = link[d].hello
         /\ link'[d].accept = link[d].accept /\ link'[d].out >= link[d].out
         /\ link'[d].remote = link[d].remote /\ link'[d].in = link[d].in
    BY <1>3, <1>5, LinkFields
<1>12. Stamp(link', f)
    BY <1>2, <1>3, <1>4, <1>5, LinkFields DEF Stamp
<1>13. \A d \in Links : \A g \in box'[d] : g \in box[d] \/ FrameOK(link', g)
    BY <1>4, <1>6, <1>12 DEF FrameOK
<1>14. QED BY <1>1, <1>7, <1>8, <1>9, <1>10, <1>11, <1>13, QuietStep

(* An envelope that opens is above all that were opened. *)
LEMMA DecryptStep == ASSUME IInv, NEW k \in Links, Decrypt(k) PROVE IInv'
<1> USE DEF IInv
<1>1. link[k].pc = "active" /\ UNCHANGED <<links, box, fresh, sent>>
    BY DEF Decrypt
<1>2. PICK f \in box[k] : /\ Opens(k, f)
                          /\ link' = [link EXCEPT ![k].in = f.seq]
                          /\ got' = [got EXCEPT ![k] = Append(@, f)]
    BY DEF Decrypt
<1> DEFINE r == [link[k] EXCEPT !.in = f.seq]
<1>3. f \in FrameType /\ f.seq \in Nat
    BY DEF Types, FrameType
<1>4. r \in LinkType /\ r.in = f.seq /\ r.pc = link[k].pc
    BY <1>3, LinkFields DEF LinkType
<1>5. /\ r.peer = link[k].peer /\ r.hello = link[k].hello /\ r.accept = link[k].accept
      /\ r.remote = link[k].remote /\ r.out = link[k].out
    BY LinkFields DEF LinkType
<1>6. link' = [link EXCEPT ![k] = r]
    BY <1>2
<1> HIDE DEF r
<1>7. link' \in [Links -> LinkType] /\ link'[k] = r /\ \A d \in Links \ {k} : link'[d] = link[d]
    BY <1>4, <1>6, OneLink
<1>8. got[k] \in Seq(FrameType) /\ got' \in [Links -> Seq(FrameType)]
    BY <1>2, <1>3 DEF Types
<1>9. Types'
    BY <1>1, <1>7, <1>8 DEF Types
<1>10. \A d \in Links \ {k} : got'[d] = got[d]
    BY <1>2 DEF Types
<1>11. got'[k] = Append(got[k], f)
    BY <1>2 DEF Types
<1>12. Progress' /\ Counted'
    BY <1>1, <1>4, <1>5, <1>7, <1>10 DEF Progress, Counted
<1>13. Drawn' /\ HellosDiffer' /\ AcceptsDiffer'
    BY <1>1, <1>5, <1>7 DEF Drawn, HellosDiffer, AcceptsDiffer
<1>14. \A g \in FrameType : Stamp(link, g) => Stamp(link', g)
  <2>1. \A d \in Links : /\ link'[d].peer = link[d].peer /\ link'[d].hello = link[d].hello
                         /\ link'[d].accept = link[d].accept /\ link'[d].out >= link[d].out
      BY <1>5, <1>7, LinkFields
  <2>2. QED BY <1>9, <2>1, StampsKept
<1>15. Stamped'
    BY <1>1, <1>14 DEF Stamped, FrameOK, Types
<1>16. /\ Stamp(link, f) /\ f.from = link[k].remote /\ f.hello = link[k].hello
       /\ f.accept = link[k].accept /\ f.seq > link[k].in
    BY <1>2 DEF Opens, Channel, Stamped, FrameOK
<1>17. Opened'
  <2> SUFFICES ASSUME NEW d \in Links
               PROVE  /\ \A i \in 1..Len(got'[d]) :
                            /\ Stamp(link', got'[d][i])
                            /\ got'[d][i].from = link'[d].remote
                            /\ got'[d][i].hello = link'[d].hello /\ got'[d][i].accept = link'[d].accept
                            /\ got'[d][i].seq <= link'[d].in
                      /\ \A i, j \in 1..Len(got'[d]) : i < j => got'[d][i].seq < got'[d][j].seq
      BY DEF Opened
  <2>1. \A i \in 1..Len(got[d]) : got[d][i] \in FrameType /\ got[d][i].seq \in Nat
    <3>1. \A i \in 1..Len(got[d]) : got[d][i] \in FrameType
        BY DEF Types
    <3>2. \A g \in FrameType : g.seq \in Nat
        BY DEF FrameType
    <3>3. QED BY <3>1, <3>2
  <2>2. CASE d # k
      BY <1>7, <1>10, <1>14, <2>1, <2>2 DEF Opened
  <2>3. CASE d = k
    <3>1. /\ Len(got'[k]) = Len(got[k]) + 1 /\ Len(got[k]) \in Nat
          /\ got'[k][Len(got[k]) + 1] = f
          /\ \A i \in 1..Len(got[k]) : got'[k][i] = got[k][i]
        BY <1>8, <1>11, <1>3
    <3>2. \A i \in 1..Len(got'[k]) : i \in 1..Len(got[k]) \/ i = Len(got[k]) + 1
        BY <3>1
    <3>3. \A i \in 1..Len(got[k]) : got[k][i].seq <= link[k].in /\ got[k][i].seq < f.seq
        BY <1>3, <1>16, <2>1, <2>3, LinkFields DEF Opened
    <3>4. \A i \in 1..Len(got'[k]) :
             /\ Stamp(link', got'[k][i])
             /\ got'[k][i].from = link'[k].remote
             /\ got'[k][i].hello = link'[k].hello /\ got'[k][i].accept = link'[k].accept
      <4>1. \A i \in 1..Len(got[k]) :
               /\ Stamp(link', got[k][i])
               /\ got[k][i].from = link'[k].remote
               /\ got[k][i].hello = link'[k].hello /\ got[k][i].accept = link'[k].accept
          BY <1>5, <1>7, <1>14, <2>1, <2>3 DEF Opened
      <4>2. Stamp(link', f) /\ f.from = link'[k].remote /\ f.hello = link'[k].hello
                        /\ f.accept = link'[k].accept
          BY <1>3, <1>5, <1>7, <1>14, <1>16
      <4>3. QED BY <3>1, <3>2, <4>1, <4>2
    <3>5. \A i \in 1..Len(got'[k]) : got'[k][i].seq <= link'[k].in
        BY <1>3, <1>4, <1>7, <2>1, <2>3, <3>1, <3>2, <3>3
    <3>6. \A i, j \in 1..Len(got'[k]) : i < j => got'[k][i].seq < got'[k][j].seq
      <4> SUFFICES ASSUME NEW i \in 1..Len(got'[k]), NEW j \in 1..Len(got'[k]), i < j
                   PROVE  got'[k][i].seq < got'[k][j].seq
          OBVIOUS
      <4>1. i \in 1..Len(got[k])
          BY <3>1
      <4>2. CASE j \in 1..Len(got[k])
          BY <3>1, <4>1, <4>2 DEF Opened
      <4>3. CASE j = Len(got[k]) + 1
          BY <3>1, <3>3, <4>1, <4>3
      <4>4. QED BY <3>2, <4>2, <4>3
    <3>7. QED BY <2>3, <3>4, <3>5, <3>6
  <2>4. QED BY <2>2, <2>3
<1>18. QED BY <1>9, <1>12, <1>13, <1>15, <1>17

-----------------------------------------------------------------------------
(* Every step keeps the invariant. *)
LEMMA Inductive == Spec => []IInv
<1>1. IInv /\ [Next]_vars => IInv'
  <2> SUFFICES ASSUME IInv, [Next]_vars PROVE IInv'
      OBVIOUS
  <2>1. ASSUME NEW p \in Peers, Connect(p) PROVE IInv'
      BY <2>1, ConnectStep
  <2>2. ASSUME NEW k \in Links, Close(k) \/ ForgetSocket(k) PROVE IInv'
      BY <2>2, CloseStep
  <2>3. ASSUME NEW k \in Links, SendHello(k) PROVE IInv'
      BY <2>3, SendHelloStep
  <2>4. ASSUME NEW k \in Links, AcceptHello(k) PROVE IInv'
      BY <2>4, AcceptHelloStep
  <2>5. ASSUME NEW k \in Links, ReceiveAccept(k) PROVE IInv'
      BY <2>5, ReceiveAcceptStep
  <2>6. ASSUME NEW k \in Links, SendEncrypted(k) \/ StopDaemon(k) PROVE IInv'
      BY <2>6, SendStep
  <2>7. ASSUME NEW k \in Links, Decrypt(k) PROVE IInv'
      BY <2>7, DecryptStep
  <2>8. CASE UNCHANGED vars
      BY <2>8 DEF vars, IInv, Types, Progress, Counted, Drawn, HellosDiffer, AcceptsDiffer,
                  Stamped, FrameOK, Opened, Stamp
  <2>9. QED BY <2>1, <2>2, <2>3, <2>4, <2>5, <2>6, <2>7, <2>8 DEF Next
<1>2. QED BY InitIInv, <1>1, PTL DEF Spec

(***************************************************************************)
(* encrypt_json never uses a nonce for two plaintexts, however many        *)
(* connections come and go: the counter starts again with a connection,    *)
(* but the key is then another.                                            *)
(***************************************************************************)
THEOREM NoncesUnique == Spec => []NonceUnique
<1>1. IInv => NonceUnique
  <2> SUFFICES ASSUME IInv, NEW e \in Envelopes, NEW f \in Envelopes,
                      SessionKey(e.from, e.hello, e.accept) = SessionKey(f.from, f.hello, f.accept),
                      e.seq = f.seq
               PROVE  e.by = f.by /\ e.n = f.n
      BY DEF NonceUnique
  <2>1. \A g \in Envelopes : Stamp(link, g) /\ g.by \in Links
      BY DEF IInv, Envelopes, Frames, Stamped, FrameOK, Types, FrameType
  <2>2. e.from = f.from /\ e.hello = f.hello /\ e.accept = f.accept
      BY DEF SessionKey
  <2>3. e.by = f.by
      BY <2>1, <2>2, ChannelsDiffer DEF Stamp
  <2>4. QED BY <2>1, <2>3 DEF Stamp
<1>2. QED BY Inductive, <1>1, PTL

(***************************************************************************)
(* What decrypt_json opens on a link comes from one link at the other end  *)
(* with the same channel, in the order it was made, each at most once,     *)
(* though the relay repeats and reorders envelopes.                        *)
(***************************************************************************)
THEOREM OpenedOnceInOrder == Spec => []OpenedInOrder
<1>1. IInv => OpenedInOrder
  <2> SUFFICES ASSUME IInv, NEW k \in Links
               PROVE  /\ \A i, j \in 1..Len(got[k]) : i < j => got[k][i].n < got[k][j].n
                      /\ \A i, j \in 1..Len(got[k]) : got[k][i].by = got[k][j].by
                      /\ \A i \in 1..Len(got[k]) :
                            /\ Channel(got[k][i].by) = Channel(k)
                            /\ link[got[k][i].by].peer = link[k].remote
      BY DEF OpenedInOrder
  <2>1. \A i \in 1..Len(got[k]) :
           /\ Stamp(link, got[k][i]) /\ got[k][i].by \in Links
           /\ got[k][i].from = link[k].remote
           /\ got[k][i].hello = link[k].hello /\ got[k][i].accept = link[k].accept
    <3>1. \A i \in 1..Len(got[k]) : got[k][i] \in FrameType
        BY DEF IInv, Types
    <3>2. \A g \in FrameType : g.by \in Links
        BY DEF FrameType
    <3>3. QED BY <3>1, <3>2 DEF IInv, Opened
  <2>2. \A i, j \in 1..Len(got[k]) : i < j => got[k][i].n < got[k][j].n
      BY <2>1 DEF IInv, Opened, Stamp
  <2>3. \A i, j \in 1..Len(got[k]) : got[k][i].by = got[k][j].by
      BY <2>1, ChannelsDiffer DEF Stamp
  <2>4. QED BY <2>1, <2>2, <2>3 DEF Channel, Stamp
<1>2. QED BY Inductive, <1>1, PTL

-----------------------------------------------------------------------------
(* The hub.  An index entry is the open socket of its peer, and there is no *)
(* younger one; that a peer has a youngest socket at all is part of it.     *)

Latest(p, m) == link[m].peer = p /\ \A j \in Links : link[j].peer = p => j <= m

Hub ==
    /\ index \in [Peers -> Links \cup {None}]
    /\ \A p \in Peers : index[p] # None => link[index[p]].socket = "open" /\ Latest(p, index[p])
    /\ \A p \in Peers : \A k \in Links :
          link[k].peer = p => /\ link[k].socket = "open" => index[p] = k
                              /\ \E m \in Links : Latest(p, m)

(* A step that leaves peers, sockets and the index alone. *)
LEMMA HubKept ==
    ASSUME Hub, index' = index,
           \A d \in Links : link'[d].peer = link[d].peer /\ link'[d].socket = link[d].socket
    PROVE  Hub'
<1>1. \A p \in Peers : \A m \in Links : Latest(p, m) => Latest(p, m)'
    BY DEF Latest
<1>2. \A p \in Peers : index[p] # None => index[p] \in Links /\ Latest(p, index[p])'
    BY <1>1, PeerNames DEF Hub
<1>3. QED BY <1>1, <1>2 DEF Hub

(* handleWebSocketConnect: the youngest socket is the one in the index, and *)
(* the one it replaces is no longer open.                                   *)
LEMMA HubConnect ==
    ASSUME IInv, Hub, NEW p \in Peers, Connect(p)
    PROVE  Hub'
<1> DEFINE new == [NoLink EXCEPT !.peer = p, !.pc = "ready", !.socket = "open"]
<1>1. PICK k : k = links + 1
    OBVIOUS
<1>2. k \in Links /\ k \in Nat /\ links \in Nat
    BY <1>1, LinkBounds DEF Connect, Links, IInv, Types
<1>3. \A j \in Links : link[j].peer \in Peers => j < k
  <2>1. \A j \in Links : j > links => link[j].peer = None
      BY DEF IInv, Progress
  <2>2. \A j \in Links : link[j].peer \in Peers => ~(j > links)
      BY <2>1, PeerNames DEF Peers
  <2>3. QED BY <1>1, <1>2, <2>2 DEF Links
<1>4. link'[k] = new /\ new.peer = p /\ new.socket = "open"
    BY <1>1, <1>2 DEF Connect, NoLink
<1>5. \A j \in Links \ {k} :
          /\ link'[j].peer = link[j].peer
          /\ link'[j].socket = IF j = index[p] THEN "closing" ELSE link[j].socket
    BY <1>1, LinkFields DEF Connect, LinkType, IInv
<1>6. index' = [index EXCEPT ![p] = k]
    BY <1>1 DEF Connect
<1> HIDE DEF new
<1>7. index' \in [Peers -> Links \cup {None}] /\ index'[p] = k
      /\ \A q \in Peers \ {p} : index'[q] = index[q]
    BY <1>2, <1>6 DEF Hub
<1>8. Latest(p, k)'
  <2>1. \A j \in Links : link'[j].peer = p => j <= k
    <3>1. SUFFICES ASSUME NEW j \in Links, link'[j].peer = p PROVE j <= k
        OBVIOUS
    <3>2. CASE j = k
        BY <1>2, <3>2
    <3>3. CASE j # k
      <4>1. j < k
          BY <1>3, <1>5, <3>1, <3>3
      <4>2. QED BY <1>2, <4>1 DEF Links
    <3>4. QED BY <3>2, <3>3
  <2>2. QED BY <1>4, <2>1 DEF Latest
<1>9. \A q \in Peers \ {p} : \A m \in Links : Latest(q, m) => Latest(q, m)' /\ m # k
  <2>1. SUFFICES ASSUME NEW q \in Peers \ {p}, NEW m \in Links, Latest(q, m)
                 PROVE  Latest(q, m)' /\ m # k
      OBVIOUS
  <2>2. m < k
      BY <1>3, <2>1 DEF Latest
  <2>3. m # k
      BY <1>2, <2>2 DEF Links
  <2>4. \A j \in Links : link'[j].peer = q => j # k /\ link[j].peer = q
      BY <1>4, <1>5
  <2>5. QED BY <1>5, <2>1, <2>3, <2>4 DEF Latest
<1>10. ASSUME NEW q \in Peers, index'[q] # None
       PROVE  link'[index'[q]].socket = "open" /\ Latest(q, index[q])'
  <2>1. CASE q = p
      BY <1>4, <1>7, <1>8, <2>1
  <2>2. CASE q # p
    <3>1. PICK m \in Links : m = index[q] /\ index'[q] = m
        BY <1>7, <1>10, <2>2 DEF Hub
    <3>2. link[m].socket = "open" /\ Latest(q, m)
        BY <1>10, <3>1, PeerNames DEF Hub
    <3>3. Latest(q, m)' /\ m # k
        BY <1>9, <2>2, <3>2
    <3>4. m # index[p]
        BY <2>2, <3>2, PeerNames DEF Hub, Latest, Links
    <3>5. link'[m].socket = "open"
        BY <1>5, <3>2, <3>3, <3>4
    <3>6. QED BY <3>1, <3>3, <3>5
  <2>3. QED BY <2>1, <2>2
<1>11. ASSUME NEW q \in Peers, NEW d \in Links, link'[d].peer = q
       PROVE  /\ link'[d].socket = "open" => index'[q] = d
              /\ \E m \in Links : Latest(q, m)'
  <2>1. CASE d = k
      BY <1>2, <1>4, <1>7, <1>8, <1>11, <2>1
  <2>2. CASE d # k /\ q = p
    <3>1. link[d].peer = p /\ link'[d].socket # "open"
        BY <1>5, <1>11, <2>2 DEF Hub
    <3>2. QED BY <1>2, <1>8, <2>2, <3>1
  <2>3. CASE d # k /\ q # p
    <3>1. link[d].peer = q /\ (link'[d].socket = "open" => link[d].socket = "open")
        BY <1>5, <1>11, <2>3
    <3>2. QED BY <1>7, <1>9, <2>3, <3>1 DEF Hub
  <2>4. QED BY <2>1, <2>2, <2>3
<1>12. QED BY <1>7, <1>10, <1>11 DEF Hub

(* forgetSocket: the entry goes only when it is this socket's. *)
LEMMA HubForget ==
    ASSUME IInv, Hub, NEW k \in Links, ForgetSocket(k)
    PROVE  Hub'
<1>1. /\ \A d \in Links : link'[d].peer = link[d].peer
      /\ \A d \in Links : link'[d].socket = IF d = k THEN "closed" ELSE link[d].socket
    BY LinkFields DEF ForgetSocket, LinkType, IInv, Types
<1>2. \A p \in Peers : index'[p] = IF p = link[k].peer /\ index[p] = k THEN None ELSE index[p]
    BY DEF ForgetSocket, Hub
<1>3. index' \in [Peers -> Links \cup {None}]
    BY DEF ForgetSocket, Hub
<1>4. \A p \in Peers : \A m \in Links : Latest(p, m) => Latest(p, m)'
    BY <1>1 DEF Latest
<1>5. ASSUME NEW p \in Peers, index'[p] # None
      PROVE  link'[index'[p]].socket = "open" /\ Latest(p, index[p])'
  <2>1. PICK m \in Links : m = index[p] /\ m = index'[p]
      BY <1>2, <1>3, <1>5
  <2>2. link[m].socket = "open" /\ Latest(p, m)
      BY <1>5, <2>1 DEF Hub
  <2>3. m # k
      BY <1>2, <1>5, <2>1, <2>2 DEF Latest
  <2>4. link'[m].socket = "open" /\ Latest(p, m)'
      BY <1>1, <1>4, <2>2, <2>3
  <2>5. QED BY <2>1, <2>4
<1>6. QED BY <1>1, <1>2, <1>3, <1>4, <1>5 DEF Hub

(* Every step keeps it. *)
LEMMA HubStep ==
    ASSUME IInv, Hub, [Next]_vars
    PROVE  Hub'
<1>1. ASSUME NEW p \in Peers, Connect(p) PROVE Hub'
    BY <1>1, HubConnect
<1>2. ASSUME NEW k \in Links, ForgetSocket(k) PROVE Hub'
    BY <1>2, HubForget
<1>3. ASSUME NEW k \in Links, NEW r, link' = [link EXCEPT ![k] = r], index' = index,
             r.peer = link[k].peer, r.socket = link[k].socket
      PROVE  Hub'
  <2>1. \A d \in Links : link'[d] = IF d = k THEN r ELSE link[d]
      BY <1>3 DEF IInv, Types
  <2>2. QED BY <1>3, <2>1, HubKept
<1>4. ASSUME NEW k \in Links PROVE link[k] \in LinkType
    BY DEF IInv, Types
<1>5. ASSUME NEW k \in Links, Close(k) PROVE Hub'
    BY <1>3, <1>4, <1>5 DEF Close, LinkType
<1>6. ASSUME NEW k \in Links, SendHello(k) PROVE Hub'
  <2> DEFINE r == [link[k] EXCEPT !.pc = IF index[Daemon] = None THEN "closed" ELSE "waiting",
                                    !.hello = fresh + 1]
  <2>1. link' = [link EXCEPT ![k] = r] /\ index' = index
      BY <1>6 DEF SendHello
  <2>2. r.peer = link[k].peer /\ r.socket = link[k].socket
      BY <1>4 DEF LinkType
  <2>3. QED BY <1>3, <2>1, <2>2
<1>7. ASSUME NEW k \in Links, AcceptHello(k) PROVE Hub'
  <2>1. PICK frame \in box[k] :
            link' = [link EXCEPT ![k] = [link[k] EXCEPT !.pc = "active", !.remote = frame.from,
                                                        !.hello = frame.hello,
                                                        !.accept = fresh + 1]]
      BY <1>7 DEF AcceptHello
  <2> DEFINE r == [link[k] EXCEPT !.pc = "active", !.remote = frame.from,
                                    !.hello = frame.hello, !.accept = fresh + 1]
  <2>2. r.peer = link[k].peer /\ r.socket = link[k].socket
      BY <1>4 DEF LinkType
  <2>3. QED BY <1>3, <1>7, <2>1, <2>2 DEF AcceptHello
<1>8. ASSUME NEW k \in Links, ReceiveAccept(k) PROVE Hub'
    BY <1>3, <1>4, <1>8 DEF ReceiveAccept, LinkType
<1>9. ASSUME NEW k \in Links, SendEncrypted(k) PROVE Hub'
    BY <1>3, <1>4, <1>9 DEF SendEncrypted, Encrypt, LinkType
<1>10. ASSUME NEW k \in Links, StopDaemon(k) PROVE Hub'
  <2> DEFINE r == [link[k] EXCEPT !.out = link[k].out + 1, !.pc = "closed"]
  <2>1. link' = [link EXCEPT ![k] = r] /\ index' = index
      BY <1>10 DEF StopDaemon
  <2>2. r.peer = link[k].peer /\ r.socket = link[k].socket
      BY <1>4 DEF LinkType
  <2>3. QED BY <1>3, <2>1, <2>2
<1>11. ASSUME NEW k \in Links, Decrypt(k) PROVE Hub'
    BY <1>3, <1>4, <1>11 DEF Decrypt, LinkType
<1>12. CASE UNCHANGED vars
    BY <1>12, HubKept DEF vars
<1>13. QED BY <1>1, <1>2, <1>5, <1>6, <1>7, <1>8, <1>9, <1>10, <1>11, <1>12 DEF Next

(***************************************************************************)
(* Frames go to the newest socket of a peer while it is open, and to none  *)
(* when it is not, for any number of connections: the late close of an     *)
(* older socket does not take the entry of a newer one (forgetSocket).     *)
(***************************************************************************)
THEOREM NewestIsRouted == Spec => []RoutedToNewest
<1>1. Init => Hub
    BY PeerNames DEF Init, Hub, NoLink, Peers
<1>2. ASSUME Hub PROVE RoutedToNewest
  <2> DEFINE mine(p) == {k \in Links : link[k].peer = p}
             newest(p) == CHOOSE k \in mine(p) : \A j \in mine(p) : j <= k
  <2>1. SUFFICES ASSUME NEW p \in Peers, mine(p) # {}
                 PROVE  index[p] = IF link[newest(p)].socket = "open" THEN newest(p) ELSE None
      BY DEF RoutedToNewest
  <2>2. \E m \in Links : Latest(p, m)
      BY <1>2, <2>1 DEF Hub
  <2>3. \E k \in mine(p) : \A j \in mine(p) : j <= k
      BY <2>2 DEF Latest
  <2>4. newest(p) \in mine(p) /\ \A j \in mine(p) : j <= newest(p)
      BY <2>3
  <2> HIDE DEF newest
  <2>5. CASE link[newest(p)].socket = "open"
      BY <1>2, <2>4, <2>5 DEF Hub
  <2>6. CASE link[newest(p)].socket # "open"
    <3>1. SUFFICES ASSUME index[p] # None PROVE FALSE
        BY <2>6
    <3>2. index[p] \in Links /\ link[index[p]].socket = "open" /\ Latest(p, index[p])
        BY <1>2, <3>1 DEF Hub
    <3>3. index[p] <= newest(p) /\ newest(p) <= index[p]
        BY <2>4, <3>2 DEF Latest
    <3>4. index[p] = newest(p)
        BY <2>4, <3>2, <3>3 DEF Links
    <3>5. QED BY <2>6, <3>2, <3>4
  <2>7. QED BY <2>5, <2>6
<1>3. QED BY Inductive, HubStep, <1>1, <1>2, PTL DEF Spec

-----------------------------------------------------------------------------
(* The types.  A channel that is active knows the other end, so a frame is  *)
(* always for a peer; what was opened stays in its box.                     *)

SentFrame == [type : {"hello", "accept", "envelope"}, from : Peers, to : Peers,
              hello : Nat, accept : Nat \cup {None}, seq : Nat, by : Links, n : Nat]

Addressed ==
    /\ links <= MaxLinks
    /\ \A k \in Links : link[k].accept # None => link[k].remote \in Peers /\ link[k].hello # None
    /\ \A k \in Links : box[k] \subseteq SentFrame
    /\ \A k \in Links : \A i \in 1..Len(got[k]) : got[k][i] \in box[k]

(* A step that routes at most a frame for a peer and opens none. *)
LEMMA AddressedKept ==
    ASSUME IInv, Addressed, NEW f \in SentFrame, Route(f) \/ box' = box, got' = got,
           links' <= MaxLinks,
           \A d \in Links : link'[d].accept # None =>
               \/ link'[d].remote \in Peers /\ link'[d].hello # None
               \/ /\ link'[d].accept = link[d].accept
                  /\ link'[d].remote = link[d].remote /\ link'[d].hello = link[d].hello
    PROVE  Addressed'
<1>1. \A k \in Links : box[k] \subseteq box'[k] /\ box'[k] \subseteq box[k] \cup {f}
    BY DEF IInv, Types, Route
<1>2. \A k \in Links : box'[k] \subseteq SentFrame
    BY <1>1 DEF Addressed
<1>3. \A k \in Links : \A i \in 1..Len(got'[k]) : got'[k][i] \in box'[k]
    BY <1>1 DEF Addressed
<1>4. QED BY <1>2, <1>3 DEF Addressed

(* Every step keeps it. *)
LEMMA AddressedStep ==
    ASSUME IInv, Addressed, [Next]_vars
    PROVE  Addressed'
<1>1. ASSUME NEW k \in Links
      PROVE  /\ link[k] \in LinkType /\ link[k].out \in Nat /\ link[k].hello \in Nat \cup {None}
             /\ link[k].accept \in Nat \cup {None} /\ sent[k] + 1 \in Nat /\ fresh + 1 \in Nat
             /\ link[k].peer \in Peers \cup {None}
    BY LinkFields DEF IInv, Types
<1>2. ASSUME NEW k \in Links, NEW r \in LinkType, link' = [link EXCEPT ![k] = r],
             \/ r.accept = None
             \/ r.remote \in Peers /\ r.hello # None
             \/ r.accept = link[k].accept /\ r.remote = link[k].remote /\ r.hello = link[k].hello,
             got' = got, links' = links,
             NEW f \in SentFrame, Route(f) \/ box' = box
      PROVE  Addressed'
  <2>1. link'[k] = r /\ \A d \in Links \ {k} : link'[d] = link[d]
      BY <1>2, OneLink DEF IInv
  <2>2. links' <= MaxLinks
      BY <1>2 DEF Addressed
  <2>3. \A d \in Links : link'[d].accept # None =>
               \/ link'[d].remote \in Peers /\ link'[d].hello # None
               \/ /\ link'[d].accept = link[d].accept
                  /\ link'[d].remote = link[d].remote /\ link'[d].hello = link[d].hello
      BY <1>2, <2>1
  <2>4. QED BY <1>2, <2>2, <2>3, AddressedKept
<1>3. ASSUME NEW type \in {"hello", "accept", "envelope"}, NEW from \in Peers, NEW to \in Peers,
             NEW hello \in Nat, NEW accept \in Nat \cup {None}, NEW seq \in Nat,
             NEW by \in Links, NEW n \in Nat
      PROVE  Frame(type, from, to, hello, accept, seq, by, n) \in SentFrame
    BY DEF Frame, SentFrame
<1>4. Daemon \in Peers /\ Apps \subseteq Peers
    BY DEF Peers
<1>5. ASSUME NEW p \in Peers, Connect(p) PROVE Addressed'
  <2> DEFINE new == [NoLink EXCEPT !.peer = p, !.pc = "ready", !.socket = "open"]
  <2>1. PICK k : k = links + 1
      OBVIOUS
  <2>2. k \in Links /\ links' <= MaxLinks
      BY <1>5, <2>1, LinkBounds DEF Connect, Links, IInv, Types
  <2>3. link'[k] = new /\ new.accept = None
      BY <1>5, <2>1, <2>2 DEF Connect, NoLink
  <2>4. \A d \in Links \ {k} : /\ link'[d].accept = link[d].accept
                               /\ link'[d].remote = link[d].remote /\ link'[d].hello = link[d].hello
      BY <1>1, <1>5, <2>1 DEF Connect, LinkType
  <2> HIDE DEF new
  <2>5. Frame("hello", Daemon, Daemon, 0, None, 0, k, 0) \in SentFrame
      BY <1>3, <1>4, <2>2
  <2>6. box' = box /\ got' = got
      BY <1>5 DEF Connect
  <2>7. \A d \in Links : link'[d].accept # None => d # k
      BY <2>3
  <2>8. QED BY <2>2, <2>4, <2>5, <2>6, <2>7, AddressedKept
<1>6. ASSUME NEW k \in Links, Close(k) \/ ForgetSocket(k) \/ SendHello(k) \/ AcceptHello(k)
             \/ ReceiveAccept(k) \/ SendEncrypted(k) \/ StopDaemon(k)
      PROVE  Addressed'
  <2>1. Frame("hello", Daemon, Daemon, 0, None, 0, k, 0) \in SentFrame
      BY <1>3, <1>4
  <2>2. got' = got /\ links' = links
      BY <1>6 DEF Close, ForgetSocket, SendHello, AcceptHello, ReceiveAccept, SendEncrypted, StopDaemon
  <2>3. CASE Close(k)
    <3> DEFINE r == [link[k] EXCEPT !.pc = "closed"]
    <3>1. link' = [link EXCEPT ![k] = r] /\ box' = box
        BY <2>3 DEF Close
    <3>2. r \in LinkType /\ r.accept = link[k].accept /\ r.remote = link[k].remote /\ r.hello = link[k].hello
        BY <1>1 DEF LinkType
    <3>3. QED BY <1>2, <2>1, <2>2, <3>1, <3>2
  <2>4. CASE ForgetSocket(k)
    <3> DEFINE r == [link[k] EXCEPT !.socket = "closed"]
    <3>1. link' = [link EXCEPT ![k] = r] /\ box' = box
        BY <2>4 DEF ForgetSocket
    <3>2. r \in LinkType /\ r.accept = link[k].accept /\ r.remote = link[k].remote /\ r.hello = link[k].hello
        BY <1>1 DEF LinkType
    <3>3. QED BY <1>2, <2>1, <2>2, <3>1, <3>2
  <2>5. CASE SendHello(k)
    <3> DEFINE pc == IF index[Daemon] = None THEN "closed" ELSE "waiting"
               r == [link[k] EXCEPT !.pc = pc, !.hello = fresh + 1]
               f == Frame("hello", link[k].peer, Daemon, fresh + 1, None, 0, k, 0)
    <3>1. link' = [link EXCEPT ![k] = r] /\ Route(f) /\ link[k].peer \in Apps /\ link[k].pc = "ready"
        BY <2>5 DEF SendHello
    <3>2. r \in LinkType /\ r.accept = link[k].accept
        BY <1>1 DEF LinkType
    <3>3. link[k].accept = None
        BY <3>1 DEF IInv, Progress
    <3>4. f \in SentFrame
        BY <1>1, <1>3, <1>4, <3>1
    <3> HIDE DEF r, f
    <3>5. QED BY <1>2, <2>2, <3>1, <3>2, <3>3, <3>4
  <2>6. CASE AcceptHello(k)
    <3>1. PICK h \in box[k] :
            /\ link' = [link EXCEPT ![k].pc = "active", ![k].remote = h.from,
                                    ![k].hello = h.hello, ![k].accept = fresh + 1]
            /\ Route(Frame("accept", Daemon, h.from, h.hello, fresh + 1, 0, k, 0))
        BY <2>6 DEF AcceptHello
    <3> DEFINE r == [link[k] EXCEPT !.pc = "active", !.remote = h.from,
                                    !.hello = h.hello, !.accept = fresh + 1]
               f == Frame("accept", Daemon, h.from, h.hello, fresh + 1, 0, k, 0)
    <3>2. h.from \in Peers /\ h.hello \in Nat /\ h.hello # None
        BY PeerNames DEF Addressed, SentFrame
    <3>3. r \in LinkType /\ r.remote = h.from /\ r.hello = h.hello
        BY <1>1, <3>2 DEF LinkType
    <3>4. link' = [link EXCEPT ![k] = r]
        BY <3>1
    <3>5. f \in SentFrame
        BY <1>1, <1>3, <1>4, <3>2
    <3> HIDE DEF r
    <3>6. QED BY <1>2, <2>2, <3>1, <3>2, <3>3, <3>4, <3>5
  <2>7. CASE ReceiveAccept(k)
    <3>1. PICK h \in box[k] :
             link' = [link EXCEPT ![k] =
                IF h.hello = link[k].hello
                THEN [link[k] EXCEPT !.pc = "active", !.remote = Daemon, !.accept = h.accept]
                ELSE [link[k] EXCEPT !.pc = "closed"]]
        BY <2>7 DEF ReceiveAccept
    <3> DEFINE r == IF h.hello = link[k].hello
                    THEN [link[k] EXCEPT !.pc = "active", !.remote = Daemon, !.accept = h.accept]
                    ELSE [link[k] EXCEPT !.pc = "closed"]
    <3>2. box' = box /\ link[k].pc = "waiting" /\ link' = [link EXCEPT ![k] = r]
        BY <2>7, <3>1 DEF ReceiveAccept
    <3>3. link[k].hello # None /\ h.accept \in Nat \cup {None}
        BY <3>2 DEF IInv, Progress, Addressed, SentFrame
    <3>4. CASE h.hello = link[k].hello
      <4>1. r \in LinkType /\ r.remote = Daemon /\ r.hello = link[k].hello
          BY <1>1, <1>4, <3>3, <3>4 DEF LinkType
      <4> HIDE DEF r
      <4>2. QED BY <1>2, <1>4, <2>1, <2>2, <3>2, <3>3, <4>1
    <3>5. CASE h.hello # link[k].hello
      <4>1. r \in LinkType /\ r.accept = link[k].accept /\ r.remote = link[k].remote
            /\ r.hello = link[k].hello
          BY <1>1, <3>5 DEF LinkType
      <4> HIDE DEF r
      <4>2. QED BY <1>2, <2>1, <2>2, <3>2, <4>1
    <3>6. QED BY <3>4, <3>5
  <2>8. CASE SendEncrypted(k) \/ StopDaemon(k)
    <3> DEFINE f == Frame("envelope", link[k].peer, link[k].remote, link[k].hello, link[k].accept,
                          link[k].out, k, sent[k] + 1)
    <3>1. link[k].pc = "active" /\ Route(f)
        BY <2>8 DEF SendEncrypted, Encrypt, StopDaemon
    <3>2. link[k].peer \in Peers /\ link[k].remote \in Peers /\ link[k].hello # None
        BY <3>1 DEF IInv, Progress, Addressed
    <3>3. f \in SentFrame
        BY <1>1, <1>3, <3>2
    <3> HIDE DEF f
    <3>4. CASE SendEncrypted(k)
      <4> DEFINE r == [link[k] EXCEPT !.out = link[k].out + 1]
      <4>1. link' = [link EXCEPT ![k] = r]
          BY <3>4 DEF SendEncrypted, Encrypt
      <4>2. r \in LinkType /\ r.accept = link[k].accept /\ r.remote = link[k].remote /\ r.hello = link[k].hello
          BY <1>1 DEF LinkType
      <4>3. QED BY <1>2, <2>2, <3>1, <3>3, <4>1, <4>2
    <3>5. CASE StopDaemon(k)
      <4> DEFINE r == [link[k] EXCEPT !.out = link[k].out + 1, !.pc = "closed"]
      <4>1. link' = [link EXCEPT ![k] = r]
          BY <3>5 DEF StopDaemon
      <4>2. link[k].out + 1 \in Nat
          BY <1>1
      <4>3. r \in LinkType /\ r.accept = link[k].accept /\ r.remote = link[k].remote /\ r.hello = link[k].hello
          BY <1>1, <4>2 DEF LinkType
      <4> HIDE DEF r
      <4>4. QED BY <1>2, <2>2, <3>1, <3>3, <4>1, <4>3
    <3>6. QED BY <2>8, <3>4, <3>5
  <2>9. QED BY <1>6, <2>3, <2>4, <2>5, <2>6, <2>7, <2>8
<1>7. ASSUME NEW k \in Links, Decrypt(k) PROVE Addressed'
  <2>1. PICK f \in box[k] : /\ link' = [link EXCEPT ![k].in = f.seq]
                            /\ got' = [got EXCEPT ![k] = Append(got[k], f)]
      BY <1>7 DEF Decrypt
  <2>2. box' = box /\ links' = links
      BY <1>7 DEF Decrypt
  <2>3. \A d \in Links : /\ link'[d].accept = link[d].accept
                         /\ link'[d].remote = link[d].remote /\ link'[d].hello = link[d].hello
      BY <1>1, <2>1 DEF LinkType, IInv, Types
  <2>4. got[k] \in Seq(FrameType) /\ f \in FrameType
      BY DEF IInv, Types
  <2>5. \A i \in 1..Len(got'[k]) : got'[k][i] = f \/ (i \in 1..Len(got[k]) /\ got'[k][i] = got[k][i])
      BY <2>1, <2>4 DEF IInv, Types
  <2>6. \A d \in Links \ {k} : got'[d] = got[d]
      BY <2>1 DEF IInv, Types
  <2>7. \A d \in Links : \A i \in 1..Len(got'[d]) : got'[d][i] \in box[d]
      BY <2>5, <2>6 DEF Addressed
  <2>8. QED BY <2>2, <2>3, <2>7 DEF Addressed
<1>8. CASE UNCHANGED vars
    BY <1>8 DEF vars, Addressed
<1>9. QED BY <1>5, <1>6, <1>7, <1>8 DEF Next

(***************************************************************************)
(* Every variable of the relay path keeps its type: a frame is always made *)
(* for a peer of the device, with a hello, and nothing is opened that the  *)
(* relay did not deliver.                                                  *)
(***************************************************************************)
THEOREM TypeCorrect == Spec => []TypeOK
<1>1. Init => Addressed
    BY LinkBounds DEF Init, Addressed, NoLink
<1>2. Init => Hub
    BY PeerNames DEF Init, Hub, NoLink, Peers
<1>3. IInv /\ Hub /\ Addressed => TypeOK
  <2> SUFFICES ASSUME IInv, Hub, Addressed PROVE TypeOK
      OBVIOUS
  <2>1. box \in [Links -> SUBSET SentFrame]
      BY DEF IInv, Types, Addressed
  <2>2. links \in 0..MaxLinks
      BY LinkBounds DEF IInv, Types, Addressed
  <2>3. QED BY <2>1, <2>2 DEF IInv, Types, LinkType, Hub, Addressed, SentFrame, TypeOK
<1>4. QED BY Inductive, HubStep, AddressedStep, <1>1, <1>2, <1>3, PTL DEF Spec

=============================================================================
