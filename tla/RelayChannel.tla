---------------------------- MODULE RelayChannel ----------------------------
(***************************************************************************)
(* The relay path between an app and the daemon: RelayClient                *)
(* (daemon/core/src/relay_client.rs) at both ends, the daemon's relay loop  *)
(* (daemon/server/src/relay.rs), the wire frames and the key derivation     *)
(* (daemon/protocol/src/relay.rs, relay_crypto.rs), and the sockets of the  *)
(* relay's device hub (relay/src/device-hub.ts).                            *)
(*                                                                          *)
(* A link is one RelayClient: one socket with one connection_id.  Frames    *)
(* are routed to the socket the hub has for a peer at that moment, and stay *)
(* in its box: the relay may repeat them, delay them and change their       *)
(* order.  Ephemeral secrets and ids are fresh numbers, a hash or a derived *)
(* key is the tuple of what it is made of, and a ciphertext opens only      *)
(* under the key and the addresses it was made for.                         *)
(***************************************************************************)
EXTENDS Integers, Sequences, FiniteSets

CONSTANTS
    Apps,       \* app installations, paired with the device
    Daemon,     \* the peer id of the daemon
    MaxLinks,   \* bound: connections to the relay
    MaxSends,   \* bound: envelopes one link sends
    None

ASSUME LinkBounds == MaxLinks \in Nat /\ MaxSends \in Nat
ASSUME PeerNames == Daemon \notin Apps /\ None \notin Apps \cup {Daemon} /\ None \notin Nat

Peers == Apps \cup {Daemon}
Links == 1..MaxLinks

VARIABLES
    link,    \* the RelayClients: peer, progress, the hub's view of the socket,
             \* active_channel (hello and accept it came from, remote peer, counters)
    links,   \* how many there have been
    index,   \* daemonSocket and appSockets of the hub
    box,     \* frames the relay has for a socket
    fresh,   \* secrets and ids drawn so far
    sent,    \* history: how many envelopes a link made
    got      \* history: the envelopes a link opened, in order

vars == <<link, links, index, box, fresh, sent, got>>

NoLink == [peer |-> None, pc |-> "unused", socket |-> "none", hello |-> None, accept |-> None,
           remote |-> None, out |-> 1, in |-> 0]

Init ==
    /\ link = [k \in Links |-> NoLink] /\ links = 0
    /\ index = [p \in Peers |-> None]
    /\ box = [k \in Links |-> {}]
    /\ fresh = 0
    /\ sent = [k \in Links |-> 0]
    /\ got = [k \in Links |-> << >>]

-----------------------------------------------------------------------------
(* The hub. *)

(* webSocketMessage: to the socket of the peer, or PEER_OFFLINE. *)
Route(frame) ==
    box' = IF index[frame.to] = None THEN box
           ELSE [box EXCEPT ![index[frame.to]] = @ \cup {frame}]

(* RelayClient::connect and handleWebSocketConnect: an older socket of the  *)
(* peer is closed and replaced in the index.                                *)
Connect(p) ==
    /\ links < MaxLinks
    /\ links' = links + 1
    /\ LET old == index[p]
           new == [NoLink EXCEPT !.peer = p, !.pc = "ready", !.socket = "open"]
       IN  link' = [k \in Links |-> IF k = links + 1 THEN new
                                    ELSE IF k = old THEN [link[k] EXCEPT !.socket = "closing"]
                                    ELSE link[k]]
    /\ index' = [index EXCEPT ![p] = links + 1]
    /\ UNCHANGED <<box, fresh, sent, got>>

(* The client's side ends: it reads the close, gets an error or is killed. *)
Close(k) ==
    /\ link[k].pc \in {"ready", "waiting", "active"}
    /\ link' = [link EXCEPT ![k].pc = "closed"]
    /\ UNCHANGED <<links, index, box, fresh, sent, got>>

(* Mutant: a close forgets the socket of its peer, whichever it is. *)
ForgetPeer(k) ==
    /\ link[k].pc = "closed" /\ link[k].socket \in {"open", "closing"}
    /\ link' = [link EXCEPT ![k].socket = "closed"]
    /\ index' = [index EXCEPT ![link[k].peer] = None]
    /\ UNCHANGED <<links, box, fresh, sent, got>>

(* webSocketClose, webSocketError: forgetSocket, whenever the hub notices. *)
ForgetSocket(k) ==
    /\ link[k].pc = "closed" /\ link[k].socket \in {"open", "closing"}
    /\ link' = [link EXCEPT ![k].socket = "closed"]
    /\ index' = IF index[link[k].peer] = k THEN [index EXCEPT ![link[k].peer] = None] ELSE index
    /\ UNCHANGED <<links, box, fresh, sent, got>>

-----------------------------------------------------------------------------
(* The handshake. *)

Frame(type, from, to, hello, accept, seq, by, n) ==
    [type |-> type, from |-> from, to |-> to, hello |-> hello, accept |-> accept,
     seq |-> seq, by |-> by, n |-> n]

(* send_hello_to_daemon.  An offline daemon is a relay_error, which ends    *)
(* wait_for_accept.                                                         *)
SendHello(k) ==
    /\ link[k].pc = "ready" /\ link[k].peer \in Apps
    /\ fresh' = fresh + 1
    /\ link' = [link EXCEPT ![k].pc = IF index[Daemon] = None THEN "closed" ELSE "waiting",
                            ![k].hello = fresh + 1]
    /\ Route(Frame("hello", link[k].peer, Daemon, fresh + 1, None, 0, k, 0))
    /\ UNCHANGED <<links, index, sent, got>>

(* accept_next_hello: the first hello is answered with a secret of its own  *)
(* and the channel is activated; a hello that comes later is only logged.   *)
AcceptHello(k) ==
    /\ link[k].pc = "ready" /\ link[k].peer = Daemon
    /\ \E frame \in box[k] :
        /\ frame.type = "hello"
        /\ fresh' = fresh + 1
        /\ link' = [link EXCEPT ![k].pc = "active", ![k].remote = frame.from,
                                ![k].hello = frame.hello, ![k].accept = fresh + 1]
        /\ Route(Frame("accept", Daemon, frame.from, frame.hello, fresh + 1, 0, k, 0))
    /\ UNCHANGED <<links, index, sent, got>>

(* wait_for_accept: an accept for another hello is an error. *)
ReceiveAccept(k) ==
    /\ link[k].pc = "waiting"
    /\ \E frame \in box[k] :
        /\ frame.type = "accept"
        /\ link' = [link EXCEPT ![k] =
                IF frame.hello = @.hello
                THEN [@ EXCEPT !.pc = "active", !.remote = Daemon, !.accept = frame.accept]
                ELSE [@ EXCEPT !.pc = "closed"]]
    /\ UNCHANGED <<links, index, box, fresh, sent, got>>

-----------------------------------------------------------------------------
(* Envelopes. *)

(* derive_channel_id and the keys: both come from the signed hello and      *)
(* accept.                                                                  *)
Channel(k) == <<link[k].hello, link[k].accept>>

(* derive_session_keys: one key for each direction of a channel. *)
SessionKey(from, hello, accept) == <<from, hello, accept>>

(* decrypt_relay_ciphertext: the tag holds only under the key and the       *)
(* addresses the envelope was sealed with.                                  *)
Unseals(k, frame) ==
    /\ SessionKey(frame.from, frame.hello, frame.accept)
           = SessionKey(link[k].remote, link[k].hello, link[k].accept)
    /\ frame.to = link[k].peer

(* Mutant: the counter is not advanced. *)
EncryptSameSeq(k) ==
    /\ link[k].pc = "active" /\ sent[k] < MaxSends
    /\ sent' = [sent EXCEPT ![k] = @ + 1]
    /\ link' = link
    /\ Route(Frame("envelope", link[k].peer, link[k].remote, link[k].hello, link[k].accept,
                   link[k].out, k, sent[k] + 1))

(* encrypt_json and send_json. *)
Encrypt(k) ==
    /\ link[k].pc = "active" /\ sent[k] < MaxSends
    /\ sent' = [sent EXCEPT ![k] = @ + 1]
    /\ link' = [link EXCEPT ![k].out = @ + 1]
    /\ Route(Frame("envelope", link[k].peer, link[k].remote, link[k].hello, link[k].accept,
                   link[k].out, k, sent[k] + 1))

(* send_encrypted_json: an event or a ClientMessage. *)
SendEncrypted(k) == Encrypt(k) /\ UNCHANGED <<links, index, fresh, got>>

(* A stopping daemon sends a last event, when a channel is active. *)
StopDaemon(k) ==
    /\ link[k].peer = Daemon /\ link[k].pc = "active" /\ sent[k] < MaxSends
    /\ sent' = [sent EXCEPT ![k] = @ + 1]
    /\ link' = [link EXCEPT ![k].out = @ + 1, ![k].pc = "closed"]
    /\ Route(Frame("envelope", Daemon, link[k].remote, link[k].hello, link[k].accept,
                   link[k].out, k, sent[k] + 1))
    /\ UNCHANGED <<links, index, fresh, got>>

(* Mutant: the number of an envelope is not compared. *)
OpensAnySeq(k, frame) ==
    /\ frame.type = "envelope"
    /\ frame.from = link[k].remote /\ frame.to = link[k].peer
    /\ <<frame.hello, frame.accept>> = Channel(k)

(* The checks of decrypt_json: addresses, channel, number, and the seal. *)
Opens(k, frame) ==
    /\ frame.type = "envelope"
    /\ frame.from = link[k].remote /\ frame.to = link[k].peer
    /\ <<frame.hello, frame.accept>> = Channel(k)
    /\ frame.seq > link[k].in
    /\ Unseals(k, frame)

(* An envelope that does not open is logged and left. *)
Decrypt(k) ==
    /\ link[k].pc = "active" /\ Len(got[k]) <= MaxSends
    /\ \E frame \in box[k] :
        /\ Opens(k, frame)
        /\ link' = [link EXCEPT ![k].in = frame.seq]
        /\ got' = [got EXCEPT ![k] = Append(@, frame)]
    /\ UNCHANGED <<links, index, box, fresh, sent>>

-----------------------------------------------------------------------------
Next ==
    \/ \E p \in Peers : Connect(p)
    \/ \E k \in Links :
        \/ Close(k) \/ ForgetSocket(k)
        \/ SendHello(k) \/ AcceptHello(k) \/ ReceiveAccept(k)
        \/ SendEncrypted(k) \/ StopDaemon(k) \/ Decrypt(k)

Spec == Init /\ [][Next]_vars

-----------------------------------------------------------------------------
Frames == UNION {box[k] : k \in Links}
Envelopes == {f \in Frames : f.type = "envelope"}

(* Every variable has its type. *)
TypeOK ==
    /\ links \in 0..MaxLinks /\ fresh \in Nat
    /\ link \in [Links -> [peer : Peers \cup {None}, remote : Peers \cup {None},
                           pc : {"unused", "ready", "waiting", "active", "closed"},
                           socket : {"none", "open", "closing", "closed"},
                           hello : Nat \cup {None}, accept : Nat \cup {None},
                           out : Nat, in : Nat]]
    /\ index \in [Peers -> Links \cup {None}]
    /\ box \in [Links -> SUBSET [type : {"hello", "accept", "envelope"}, from : Peers, to : Peers,
                                 hello : Nat, accept : Nat \cup {None}, seq : Nat, by : Links, n : Nat]]
    /\ sent \in [Links -> Nat]
    /\ \A k \in Links : \A i \in 1..Len(got[k]) : got[k][i] \in box[k]

(* A nonce is the number of the envelope under the key of its channel and   *)
(* direction: it is never used for two plaintexts, whichever links come and *)
(* go.                                                                      *)
NonceUnique ==
    \A e, f \in Envelopes :
        /\ SessionKey(e.from, e.hello, e.accept) = SessionKey(f.from, f.hello, f.accept)
        /\ e.seq = f.seq
        => e.by = f.by /\ e.n = f.n

(* What a link opens is what one link at the other end made for this        *)
(* channel, in the order it was made, each at most once, however the relay  *)
(* repeats and reorders envelopes.                                          *)
OpenedInOrder ==
    \A k \in Links :
        /\ \A i, j \in 1..Len(got[k]) : i < j => got[k][i].n < got[k][j].n
        /\ \A i, j \in 1..Len(got[k]) : got[k][i].by = got[k][j].by
        /\ \A i \in 1..Len(got[k]) :
              LET r == got[k][i].by IN Channel(r) = Channel(k) /\ link[r].peer = link[k].remote

(* The hub routes to the newest socket of a peer for as long as it is open, *)
(* also when the close of an older one comes late.                          *)
RoutedToNewest ==
    \A p \in Peers :
        LET mine == {k \in Links : link[k].peer = p}
            newest == CHOOSE k \in mine : \A j \in mine : j <= k
        IN  mine # {} => index[p] = IF link[newest].socket = "open" THEN newest ELSE None
=============================================================================
