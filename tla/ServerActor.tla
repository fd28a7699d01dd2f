---------------------------- MODULE ServerActor ----------------------------
(***************************************************************************)
(* The broker of the server (src/src/server/actor.rs) with the actors it   *)
(* owns: a read actor and a write actor per TCP connection and the UDP     *)
(* write actor.  Each arm of the main loop, with the handler it calls and  *)
(* the draining of peers_to_drop that follows it, is one action; the tasks *)
(* of the actors interleave with it.                                       *)
(*                                                                         *)
(* The clients, the network and the application are nondeterministic.      *)
(* What they may do beyond the ordinary is named by Circumstances.         *)
(***************************************************************************)
EXTENDS Naturals, Sequences, FiniteSets, HashMap

CONSTANTS Addrs,           \* socket addresses
          NoAddr,          \* None, for an Option<SocketAddr>
          UdpWriter,       \* the identity of the UDP write actor
          max_connections, \* Config::max_connections
          CtlBuffer, TxBuffer, WriteBuffer, \* buffers of the channels
          Circumstances,   \* what may happen, see AllCircumstances
          MaxPeers,        \* bound: connections accepted
          MaxReads,        \* bound: items read per connection
          MaxUdp,          \* bound: UDP messages reported per peer
          MaxQueue         \* bound: application messages waiting

AllCircumstances ==
    { "hello",        \* clients send Hello and messages on UDP
      "heartbeat",    \* the heartbeat interval elapses
      "nat",          \* a client's UDP address differs from its TCP address
      "addr_reuse",   \* a client reconnects from the address of a connection
                      \* that has ended and that the broker has not dropped yet
      "rehello",      \* a Hello is repeated from a new address
      "undecodable",  \* a client sends data that bincode rejects
      "io_error",     \* reading a connection fails (reset, bad frame)
      "sink_error",   \* writing to a connection fails
      "reader_panic", "writer_panic", \* application code in an actor panics
      "udp_error",    \* the UDP socket fails
      "reset_before_accept", \* peer_addr() fails on an accepted connection
      "drop_handle",  \* the application drops its last ActorHandle
      "drop_events" } \* the application drops the event receiver

ASSUME ServerActorAssumption ==
    /\ max_connections \in Nat
    /\ CtlBuffer \in Nat /\ TxBuffer \in Nat /\ WriteBuffer \in Nat
    /\ MaxPeers \in Nat /\ MaxReads \in Nat /\ MaxUdp \in Nat /\ MaxQueue \in Nat
    /\ NoAddr \notin Addrs
    /\ UdpWriter \notin Nat
    /\ Circumstances \subseteq AllCircumstances

VARIABLES
    \* State of the broker, named as in the source
    peers, next_peer_uid,
    peer_tcp_socket_addr_to_peer_uid,
    peer_udp_socket_addr_to_peer_uid,
    peer_handshake_uuid_to_peer_uid,
    streams,        \* per peer, the streams of it that are in state.streams
    announce,       \* the announcement on UDP that the broker is in the middle of
    broker,         \* "running", "unwinding" from a panic, or "gone"
    \* the application
    msg_receiver,   \* messages of the ActorHandle that the broker has not taken
    server_handle,  \* does an ActorHandle exist?
    event_receiver, \* does the receiver of the events exist?
    events,         \* per peer, the events emitted about it
    \* the network
    sock,           \* per connection, the client's TCP and UDP addresses
    reads,          \* per connection, the number of items its reader has read
    welcomed,       \* connections whose Welcome has been written to the socket
    \* the actors
    rState, rCtl, rHandle, rStream, rOvertaken, rTx, rRx,
    wState, wReason, wMsgs, wHandle, wHand, wSink

PeerUids == 0 .. MaxPeers - 1

\* tcp::Error::Bincode leaves the stream usable, tcp::Error::Io ends it.
ReadItems == [kind : {"Message", "Bincode", "Io"}, n : Nat]

\* What a connection or the UDP socket is given; `to` is for UDP only.
WriteItems ==
    [msg : {"Welcome", "UdpHandshakeAcknowledged", "ApplicationLogic", "Heartbeat"},
     to : Addrs \cup {NoAddr}]

R == INSTANCE ReadActor WITH
        Readers <- PeerUids, Items <- ReadItems,
        LastItems <- {x \in ReadItems : x.kind = "Io"}

\* Only the UDP sink is fed: With and SplitSink hold one datagram between them
\* and UdpFramed another, so that the third is fed when one has been written.
W == INSTANCE WriteActor WITH Writers <- PeerUids \cup {UdpWriter}, SinkBuffer <- 2

index == <<peers, peer_tcp_socket_addr_to_peer_uid, peer_udp_socket_addr_to_peer_uid,
           peer_handshake_uuid_to_peer_uid>>
app == <<msg_receiver, server_handle, event_receiver>>
net == <<sock, reads, welcomed>>
rTask == <<rState, rStream, rOvertaken>>
rLink == <<rCtl, rHandle, rTx, rRx>>
wTask == <<wState, wReason, wHand, wSink>>
wLink == <<wMsgs, wHandle>>
vars == <<index, next_peer_uid, streams, announce, broker, app, events, net,
          rTask, rLink, wTask, wLink>>

May(c) == c \in Circumstances

\* Uuid::new_v4 never yields the same value twice.
new_v4(n) == <<"uuid", n>>

Message ==
    [to : {"ToPeerTcp", "ToPeerUdp"}, peer_uid : PeerUids]
        \cup [to : {"AnnounceTcp", "AnnounceUdp", "GetNumberOfConnectedPeers"}]

DisconnectReason == {"PeerClosedConnection", "PeerSubmittedUnintelligibleData"}

NewPeer == [ev |-> "NewPeer"]
TcpMessage(n) == [ev |-> "TcpMessage", n |-> n]
UdpMessage == [ev |-> "UdpMessage"]
PeerDisconnect(reason) == [ev |-> "PeerDisconnect", disconnect_reason |-> reason]

Event ==
    {NewPeer, UdpMessage} \cup [ev : {"TcpMessage"}, n : Nat]
        \cup [ev : {"PeerDisconnect"}, disconnect_reason : DisconnectReason]

Peer == [tcp_socket_addr : Addrs, udp_socket_addr : Addrs \cup {NoAddr},
         handshake_uuid : {new_v4(n) : n \in PeerUids}]

NoAnnouncement == [msg |-> "none", left |-> {}]

IsMap(m, K, V) == DOMAIN m \subseteq K /\ \A k \in DOMAIN m : m[k] \in V

TypeOK ==
    /\ IsMap(peers, PeerUids, Peer)
    /\ next_peer_uid \in 0 .. MaxPeers
    /\ IsMap(peer_tcp_socket_addr_to_peer_uid, Addrs, PeerUids)
    /\ IsMap(peer_udp_socket_addr_to_peer_uid, Addrs, PeerUids)
    /\ IsMap(peer_handshake_uuid_to_peer_uid, {new_v4(n) : n \in PeerUids}, PeerUids)
    /\ streams \in [PeerUids -> SUBSET {"TcpReader", "TcpWriter"}]
    /\ announce \in [msg : {"none", "Heartbeat", "ApplicationLogic"}, left : SUBSET PeerUids]
    /\ broker \in {"running", "unwinding", "gone"}
    /\ msg_receiver \in Seq(Message)
    /\ server_handle \in BOOLEAN
    /\ event_receiver \in BOOLEAN
    /\ events \in [PeerUids -> Seq(Event)]
    /\ sock \in [PeerUids -> [tcp : Addrs \cup {NoAddr}, udp : Addrs \cup {NoAddr}]]
    /\ reads \in [PeerUids -> 0 .. MaxReads]
    /\ welcomed \subseteq PeerUids
    /\ R!ReaderTypeOK
    /\ W!WriterTypeOK

Init ==
    /\ peers = EmptyMap
    /\ next_peer_uid = 0
    /\ peer_tcp_socket_addr_to_peer_uid = EmptyMap
    /\ peer_udp_socket_addr_to_peer_uid = EmptyMap
    /\ peer_handshake_uuid_to_peer_uid = EmptyMap
    /\ streams = [p \in PeerUids |-> {}]
    /\ announce = NoAnnouncement
    /\ broker = "running"
    /\ msg_receiver = <<>>
    /\ server_handle = TRUE
    /\ event_receiver = TRUE
    /\ events = [p \in PeerUids |-> <<>>]
    /\ sock = [p \in PeerUids |-> [tcp |-> NoAddr, udp |-> NoAddr]]
    /\ reads = [p \in PeerUids |-> 0]
    /\ welcomed = {}
    /\ R!ReaderInit
    /\ wState = [w \in PeerUids \cup {UdpWriter} |-> IF w = UdpWriter THEN "running" ELSE "unspawned"]
    /\ wReason = [w \in PeerUids \cup {UdpWriter} |-> "none"]
    /\ wMsgs = [w \in PeerUids \cup {UdpWriter} |-> <<>>]
    /\ wHandle = [w \in PeerUids \cup {UdpWriter} |-> w = UdpWriter]
    /\ wHand = [w \in PeerUids \cup {UdpWriter} |-> <<>>]
    /\ wSink = [w \in PeerUids \cup {UdpWriter} |-> <<>>]

-----------------------------------------------------------------------------
(* Common parts of the handlers.                                           *)

\* The broker is at streams.next().await.
Ready == broker = "running" /\ announce = NoAnnouncement

\* event_sender.unbounded_send, whose failure is a todo!().
emit(p, ev) ==
    IF event_receiver
    THEN /\ events' = [events EXCEPT ![p] = Append(@, ev)]
         /\ UNCHANGED broker
    ELSE /\ broker' = "unwinding"
         /\ UNCHANGED events

\* Variant: the UDP address of the peer stays in its index.
forget_peer_but_udp(p) ==
    /\ peers' = Remove(peers, p)
    /\ peer_tcp_socket_addr_to_peer_uid' =
          Remove(peer_tcp_socket_addr_to_peer_uid, peers[p].tcp_socket_addr)
    /\ peer_handshake_uuid_to_peer_uid' =
          Remove(peer_handshake_uuid_to_peer_uid, peers[p].handshake_uuid)
    /\ UNCHANGED peer_udp_socket_addr_to_peer_uid

\* Removing the peer from the four maps.
forget_peer(p) ==
    /\ peers' = Remove(peers, p)
    /\ peer_tcp_socket_addr_to_peer_uid' =
          Remove(peer_tcp_socket_addr_to_peer_uid, peers[p].tcp_socket_addr)
    /\ peer_udp_socket_addr_to_peer_uid' =
          IF peers[p].udp_socket_addr = NoAddr
          THEN peer_udp_socket_addr_to_peer_uid
          ELSE Remove(peer_udp_socket_addr_to_peer_uid, peers[p].udp_socket_addr)
    /\ peer_handshake_uuid_to_peer_uid' =
          Remove(peer_handshake_uuid_to_peer_uid, peers[p].handshake_uuid)

\* Variant: the handles survive in a clone, and only the signals are sent.
release_actors_signal_only(p) ==
    /\ rCtl' = [rCtl EXCEPT ![p] = R!AfterSignal(p)]
    /\ wMsgs' = [wMsgs EXCEPT ![p] = W!send_actor_message(p, W!Shutdown)]
    /\ UNCHANGED <<rHandle, wHandle>>

\* Both actors are signalled, and the Peer with its handles is dropped when
\* drop_peer returns, whether a signal was refused or not.
release_actors(p) ==
    /\ rCtl' = [rCtl EXCEPT ![p] = R!AfterSignal(p)]
    /\ rHandle' = [rHandle EXCEPT ![p] = FALSE]
    /\ wMsgs' = [wMsgs EXCEPT ![p] = W!send_actor_message(p, W!Shutdown)]
    /\ wHandle' = [wHandle EXCEPT ![p] = FALSE]

\* Variant: the actors are told to stop and the peer stays in the maps.
drop_peer_keeping(p, reason) ==
    IF p \in DOMAIN peers
    THEN release_actors(p) /\ UNCHANGED <<index, events, broker>>
    ELSE UNCHANGED <<index, rCtl, rHandle, wLink, events, broker>>

\* Variant: the disconnect is not reported.
drop_peer_silent(p, reason) ==
    IF p \in DOMAIN peers
    THEN forget_peer(p) /\ release_actors(p) /\ UNCHANGED <<events, broker>>
    ELSE UNCHANGED <<index, rCtl, rHandle, wLink, events, broker>>

\* Variant: no early return for a peer that was dropped before.
drop_peer_again(p, reason) ==
    IF p \in DOMAIN peers
    THEN forget_peer(p) /\ release_actors(p) /\ emit(p, PeerDisconnect(reason))
    ELSE emit(p, PeerDisconnect(reason)) /\ UNCHANGED <<index, rCtl, rHandle, wLink>>

drop_peer(p, reason) ==
    IF p \in DOMAIN peers
    THEN forget_peer(p) /\ release_actors(p) /\ emit(p, PeerDisconnect(reason))
    ELSE UNCHANGED <<index, rCtl, rHandle, wLink, events, broker>>

-----------------------------------------------------------------------------
(* Incoming::TcpListener.                                                  *)

\* No connection holds the address: its sockets are closed on both sides, or,
\* when the client reset the connection, at least on the client's.
Vacant(a) ==
    \A q \in 0 .. next_peer_uid - 1 :
        a \in {sock[q].tcp, sock[q].udp} =>
            \/ May("addr_reuse") /\ rStream[q] = "ended"
            \/ R!ReaderFinished(q) /\ W!WriterFinished(q) /\ q \notin DOMAIN peers

\* A connection at capacity is closed again, which changes nothing.
handle_new_tcp_connection(a, u) ==
    LET p == next_peer_uid
    IN  /\ Ready
        /\ p \in PeerUids
        /\ Vacant(a) /\ Vacant(u)
        /\ May("nat") \/ u = a
        /\ sock' = [sock EXCEPT ![p] = [tcp |-> a, udp |-> u]]
        /\ Cardinality(DOMAIN peers) < max_connections
        /\ next_peer_uid' = next_peer_uid + 1
        /\ R!spawn_read_actor(p)
        /\ W!spawn_write_actor(p)
        /\ streams' = [streams EXCEPT ![p] = {"TcpReader", "TcpWriter"}]
        /\ peer_tcp_socket_addr_to_peer_uid' = Insert(peer_tcp_socket_addr_to_peer_uid, a, p)
        /\ peer_handshake_uuid_to_peer_uid' = Insert(peer_handshake_uuid_to_peer_uid, new_v4(p), p)
        /\ wMsgs' = [wMsgs EXCEPT ![p] = <<W!Send([msg |-> "Welcome", to |-> NoAddr])>>]
        /\ peers' = Insert(peers, p, [tcp_socket_addr |-> a, udp_socket_addr |-> NoAddr,
                                      handshake_uuid |-> new_v4(p)])
        /\ emit(p, NewPeer)
        /\ UNCHANGED <<peer_udp_socket_addr_to_peer_uid, announce, app, reads, welcomed,
                       rCtl, rStream, rOvertaken, rTx, wReason, wHand, wSink>>

\* tcp_stream.peer_addr().expect(..) on a connection that is already reset.
PeerAddrFails ==
    /\ May("reset_before_accept")
    /\ Ready
    /\ broker' = "unwinding"
    /\ UNCHANGED <<index, next_peer_uid, streams, announce, app, events, net,
                   rTask, rLink, wTask, wLink>>

-----------------------------------------------------------------------------
(* Incoming::TcpReader and the end of an actor.                            *)

\* What a reader sent stays in its channel, in state.streams, even when the
\* peer has been dropped.
TakeItem(p) ==
    /\ Ready
    /\ "TcpReader" \in streams[p]
    /\ rTx[p] # <<>>
    /\ rTx' = [rTx EXCEPT ![p] = Tail(@)]

handle_tcp_reader_stream_item(p) ==
    /\ TakeItem(p)
    /\ Head(rTx[p]).kind = "Message"
    /\ emit(p, TcpMessage(Head(rTx[p]).n))
    /\ UNCHANGED <<index, next_peer_uid, streams, announce, app, net, rTask, rCtl, rHandle, rRx,
                   wTask, wLink>>

TcpReaderError(p) ==
    /\ TakeItem(p)
    /\ Head(rTx[p]).kind # "Message"
    /\ drop_peer(p, "PeerSubmittedUnintelligibleData")
    /\ UNCHANGED <<next_peer_uid, streams, announce, app, net, rTask, rRx, wTask>>

\* assert!(!state.peers.contains_key(&peer_uid))
assert_peer_removed(p) == broker' = IF p \in DOMAIN peers THEN "unwinding" ELSE broker

\* Variant: the end of the actor is not chained after its items.
ReaderStreamOverEarly(p) == R!ReaderFinished(p)

\* The channel is drained and wait() is ready.
ReaderStreamOver(p) == rTx[p] = <<>> /\ R!ReaderFinished(p)

\* Variant: the end of the actor is only logged.
reader_shutdown_logged(p) == UNCHANGED <<index, rCtl, rHandle, wLink, events, broker>>

reader_shutdown(p) ==
    CASE rState[p] = "EndOfStream" -> drop_peer(p, "PeerClosedConnection")
      [] rState[p] \in {"Signalled", "ActorHandlesDropped", "ReceiverClosedChannel"} ->
           assert_peer_removed(p) /\ UNCHANGED <<index, rCtl, rHandle, wLink, events>>
      [] rState[p] = "Panic" -> UNCHANGED <<index, rCtl, rHandle, wLink, events, broker>>

writer_shutdown(p) ==
    CASE wState[p] = "SinkError" -> drop_peer(p, "PeerClosedConnection")
      [] wState[p] \in {"Signalled", "ActorHandlesDropped"} ->
           assert_peer_removed(p) /\ UNCHANGED <<index, rCtl, rHandle, wLink, events>>
      [] wState[p] = "Panic" -> UNCHANGED <<index, rCtl, rHandle, wLink, events, broker>>

\* EndOfStream(TcpReader)
TcpReaderEnd(p) ==
    /\ Ready
    /\ "TcpReader" \in streams[p]
    /\ ReaderStreamOver(p)
    /\ streams' = [streams EXCEPT ![p] = @ \ {"TcpReader"}]
    /\ reader_shutdown(p)
    /\ UNCHANGED <<next_peer_uid, announce, app, net, rTask, rTx, rRx, wTask>>

\* EndOfStream(TcpWriter)
TcpWriterEnd(p) ==
    /\ Ready
    /\ "TcpWriter" \in streams[p]
    /\ W!WriterFinished(p)
    /\ streams' = [streams EXCEPT ![p] = @ \ {"TcpWriter"}]
    /\ writer_shutdown(p)
    /\ UNCHANGED <<next_peer_uid, announce, app, net, rTask, rTx, rRx, wTask>>

-----------------------------------------------------------------------------
(* Incoming::UdpReader.  A datagram may arrive at any time, any number of  *)
(* times or never, so the queue of the UDP read actor is left out.         *)

UdpUnchanged == UNCHANGED <<next_peer_uid, streams, announce, app, net, rTask, rTx, rRx, wTask>>

\* Variant: the address is recorded in the peer and not in the index.
record_udp_addr_in_peer(p, a) ==
    peers' = [peers EXCEPT ![p].udp_socket_addr = a] /\ UNCHANGED peer_udp_socket_addr_to_peer_uid

\* Variant: the address is recorded in the index and not in the peer.
record_udp_addr_in_index(p, a) ==
    /\ peer_udp_socket_addr_to_peer_uid' = Insert(peer_udp_socket_addr_to_peer_uid, a, p)
    /\ UNCHANGED peers

record_udp_addr(p, a) ==
    /\ peers' = [peers EXCEPT ![p].udp_socket_addr = a]
    /\ peer_udp_socket_addr_to_peer_uid' = Insert(peer_udp_socket_addr_to_peer_uid, a, p)

\* handle_udp_reader_stream_item, Hello of a client that was sent `uuid`.
UdpHello(q, a) ==
    LET uuid == new_v4(q)
        p == peer_handshake_uuid_to_peer_uid[uuid]
    IN  /\ May("hello")
        /\ Ready
        /\ q \in welcomed
        /\ May("rehello") \/ a = sock[q].udp
        /\ uuid \in DOMAIN peer_handshake_uuid_to_peer_uid
        /\ p \in DOMAIN peers
        /\ record_udp_addr(p, a)
        /\ wMsgs' = [wMsgs EXCEPT
              ![p] = W!send_actor_message(p, W!Send([msg |-> "UdpHandshakeAcknowledged", to |-> NoAddr])),
              ![UdpWriter] = W!send_actor_message(UdpWriter, W!Send([msg |-> "Welcome", to |-> a]))]
        /\ UNCHANGED <<peer_tcp_socket_addr_to_peer_uid, peer_handshake_uuid_to_peer_uid, broker,
                       events, rCtl, rHandle, wHandle>>
        /\ UdpUnchanged

\* handle_udp_reader_stream_item, ApplicationLogic.
UdpApplicationLogic(a) ==
    LET p == peer_udp_socket_addr_to_peer_uid[a]
    IN  /\ Ready
        /\ a \in DOMAIN peer_udp_socket_addr_to_peer_uid
        /\ Len(SelectSeq(events[p], LAMBDA e : e = UdpMessage)) < MaxUdp
        /\ emit(p, UdpMessage)
        /\ UNCHANGED <<index, rCtl, rHandle, wLink>>
        /\ UdpUnchanged

UdpUndecodable(a) ==
    /\ May("undecodable")
    /\ Ready
    /\ a \in DOMAIN peer_udp_socket_addr_to_peer_uid
    /\ drop_peer(peer_udp_socket_addr_to_peer_uid[a], "PeerSubmittedUnintelligibleData")
    /\ UdpUnchanged

\* EndOfStream of the UDP read actor, which panicked on a socket error, or of
\* the UDP write actor, whose handle the broker holds: both panic the broker.
UdpActorEnds ==
    /\ Ready
    /\ May("udp_error") \/ W!WriterFinished(UdpWriter)
    /\ broker' = "unwinding"
    /\ UNCHANGED <<index, events, rCtl, rHandle, wLink>>
    /\ UdpUnchanged

-----------------------------------------------------------------------------
(* Announcing on UDP: one feed per peer, in the order of the HashMap, and  *)
(* a flush, while the UDP write actor may already take what it was given.  *)

begin_announce_udp(msg) == announce' = [msg |-> msg, left |-> DOMAIN peers]

AnnounceUnchanged ==
    UNCHANGED <<index, next_peer_uid, streams, broker, app, events, net,
                rTask, rLink, wTask, wHandle>>

\* Variant: no announcement, and so no flush, when nobody is connected.
UdpHeartbeatIfPeers ==
    /\ May("heartbeat")
    /\ Ready
    /\ DOMAIN peers # {}
    /\ begin_announce_udp("Heartbeat")
    /\ UNCHANGED wMsgs
    /\ AnnounceUnchanged

UdpHeartbeat ==
    /\ May("heartbeat")
    /\ Ready
    /\ begin_announce_udp("Heartbeat")
    /\ UNCHANGED wMsgs
    /\ AnnounceUnchanged

AnnounceFeed(p) ==
    /\ broker = "running"
    /\ p \in announce.left
    /\ wMsgs' = [wMsgs EXCEPT ![UdpWriter] = W!send_actor_message(UdpWriter,
                    W!Feed([msg |-> announce.msg, to |-> peers[p].tcp_socket_addr]))]
    /\ announce' = [announce EXCEPT !.left = @ \ {p}]
    /\ AnnounceUnchanged

AnnounceFlush ==
    /\ broker = "running"
    /\ announce.msg # "none"
    /\ announce.left = {}
    /\ wMsgs' = [wMsgs EXCEPT ![UdpWriter] = W!send_actor_message(UdpWriter, W!Flush)]
    /\ announce' = NoAnnouncement
    /\ AnnounceUnchanged

-----------------------------------------------------------------------------
(* Incoming::ActorMessage.                                                 *)

TakeMessage(kind) ==
    /\ Ready
    /\ msg_receiver # <<>>
    /\ Head(msg_receiver).to = kind
    /\ msg_receiver' = Tail(msg_receiver)
    /\ UNCHANGED <<index, next_peer_uid, streams, broker, server_handle, event_receiver,
                   events, net, rTask, rLink, wTask, wHandle>>

ToPeerTcp ==
    LET p == Head(msg_receiver).peer_uid
    IN  /\ TakeMessage("ToPeerTcp")
        /\ wMsgs' = IF p \in DOMAIN peers
                    THEN [wMsgs EXCEPT ![p] = W!send_actor_message(p,
                            W!Send([msg |-> "ApplicationLogic", to |-> NoAddr]))]
                    ELSE wMsgs
        /\ UNCHANGED announce

\* Variant: the address that announce_udp uses.
ToPeerUdpAtTcpAddress ==
    LET p == Head(msg_receiver).peer_uid
    IN  /\ TakeMessage("ToPeerUdp")
        /\ wMsgs' = IF p \in DOMAIN peers
                    THEN [wMsgs EXCEPT ![UdpWriter] = W!send_actor_message(UdpWriter,
                            W!Send([msg |-> "ApplicationLogic", to |-> peers[p].tcp_socket_addr]))]
                    ELSE wMsgs
        /\ UNCHANGED announce

ToPeerUdp ==
    LET p == Head(msg_receiver).peer_uid
    IN  /\ TakeMessage("ToPeerUdp")
        /\ wMsgs' = IF p \in DOMAIN peers /\ peers[p].udp_socket_addr # NoAddr
                    THEN [wMsgs EXCEPT ![UdpWriter] = W!send_actor_message(UdpWriter,
                            W!Send([msg |-> "ApplicationLogic", to |-> peers[p].udp_socket_addr]))]
                    ELSE wMsgs
        /\ UNCHANGED announce

announce_tcp ==
    /\ TakeMessage("AnnounceTcp")
    /\ wMsgs' = [w \in DOMAIN wMsgs |->
                    IF w \in DOMAIN peers
                    THEN W!send_actor_message(w, W!Send([msg |-> "ApplicationLogic", to |-> NoAddr]))
                    ELSE wMsgs[w]]
    /\ UNCHANGED announce

AnnounceUdp ==
    /\ TakeMessage("AnnounceUdp")
    /\ begin_announce_udp("ApplicationLogic")
    /\ UNCHANGED wMsgs

\* The answer is Cardinality(DOMAIN peers); it goes to the caller's oneshot.
GetNumberOfConnectedPeers ==
    /\ TakeMessage("GetNumberOfConnectedPeers")
    /\ UNCHANGED <<announce, wMsgs>>

\* EndOfStream(ActorMessage) is a todo!().
ActorMessagesEnd ==
    /\ Ready
    /\ ~server_handle
    /\ msg_receiver = <<>>
    /\ broker' = "unwinding"
    /\ UNCHANGED <<index, next_peer_uid, streams, announce, app, events, net,
                   rTask, rLink, wTask, wLink>>

-----------------------------------------------------------------------------
(* The broker task unwinds: everything it owns is dropped, the channels    *)
(* and the handles of the actors included.                                 *)

\* Variant: the write actors' handles leak when the broker panics.
drop_read_handles ==
    rHandle' = [p \in PeerUids |-> FALSE] /\ UNCHANGED wHandle

drop_handles ==
    rHandle' = [p \in PeerUids |-> FALSE] /\ wHandle' = [w \in DOMAIN wHandle |-> FALSE]

Unwind ==
    /\ broker = "unwinding"
    /\ broker' = "gone"
    /\ peers' = EmptyMap
    /\ peer_tcp_socket_addr_to_peer_uid' = EmptyMap
    /\ peer_udp_socket_addr_to_peer_uid' = EmptyMap
    /\ peer_handshake_uuid_to_peer_uid' = EmptyMap
    /\ streams' = [p \in PeerUids |-> {}]
    /\ announce' = NoAnnouncement
    /\ msg_receiver' = <<>>
    /\ drop_handles
    /\ rRx' = [p \in PeerUids |-> FALSE]
    /\ rTx' = [p \in PeerUids |-> <<>>]
    /\ UNCHANGED <<next_peer_uid, server_handle, event_receiver, events, net,
                   rTask, rCtl, wTask, wMsgs>>

Broker(p) ==
    \/ handle_tcp_reader_stream_item(p)
    \/ TcpReaderError(p)
    \/ TcpReaderEnd(p)
    \/ TcpWriterEnd(p)
    \/ AnnounceFeed(p)

handle_actor_message ==
    ToPeerTcp \/ ToPeerUdp \/ announce_tcp \/ AnnounceUdp \/ GetNumberOfConnectedPeers

-----------------------------------------------------------------------------
(* The tasks of the actors.                                                *)

BrokerUnchanged == UNCHANGED <<index, next_peer_uid, streams, announce, broker, app, events, sock>>

Reads(p, kind, n) ==
    /\ reads[p] < MaxReads
    /\ R!ForwardItem(p, [kind |-> kind, n |-> n])
    /\ reads' = [reads EXCEPT ![p] = @ + 1]
    /\ BrokerUnchanged /\ UNCHANGED <<welcomed, wTask, wLink>>

\* What a connection yields is numbered in the order it is read.
ReadsMessage(p) == Reads(p, "Message", reads[p] + 1)
ReadsUndecodable(p) == May("undecodable") /\ Reads(p, "Bincode", reads[p] + 1)
ReadFails(p) == May("io_error") /\ Reads(p, "Io", reads[p] + 1)

ReaderUnchanged == BrokerUnchanged /\ UNCHANGED <<reads, welcomed, wTask, wLink>>
ReaderRuns(p) == R!ReaderProgress(p) /\ ReaderUnchanged
ReaderPanics(p) == May("reader_panic") /\ R!ReaderPanics(p) /\ ReaderUnchanged
PeerCloses(p) == R!PeerCloses(p) /\ ReaderUnchanged

WriterUnchanged == BrokerUnchanged /\ UNCHANGED <<reads, rTask, rLink>>
WriterRuns(w) == W!WriterProgress(w) /\ WriterUnchanged /\ UNCHANGED welcomed
WriterPanics(w) == May("writer_panic") /\ W!WriterPanics(w) /\ WriterUnchanged /\ UNCHANGED welcomed

\* n items reach the wire; the Welcome may be among them.
Writes(w, n) ==
    welcomed' = IF \E i \in 1 .. n : w # UdpWriter /\ W!Pending(w)[i].msg = "Welcome"
                THEN welcomed \cup {w} ELSE welcomed

SinkFault(w) == May(IF w = UdpWriter THEN "udp_error" ELSE "sink_error")

SinkDone(w, n) == W!SinkDone(w, n) /\ Writes(w, n) /\ WriterUnchanged
SinkFails(w, n) == SinkFault(w) /\ W!SinkFails(w, n) /\ Writes(w, n) /\ WriterUnchanged
CloseSink(w, n) ==
    /\ SinkFault(w) \/ n = Len(wSink[w])
    /\ W!CloseSink(w, n) /\ Writes(w, n) /\ WriterUnchanged

WriterSteps(w) ==
    \E n \in 0 .. Len(W!Pending(w)) : SinkDone(w, n) \/ SinkFails(w, n) \/ CloseSink(w, n)

-----------------------------------------------------------------------------
(* The application.                                                        *)

AppUnchanged ==
    UNCHANGED <<index, next_peer_uid, streams, announce, broker, events, net,
                rTask, rLink, wTask, wLink>>

\* A call on the handle; it panics in the caller once the broker is gone.
Call(m) ==
    /\ server_handle
    /\ broker # "gone"
    /\ Len(msg_receiver) < MaxQueue
    /\ msg_receiver' = Append(msg_receiver, m)
    /\ UNCHANGED <<server_handle, event_receiver>>
    /\ AppUnchanged

DropHandle ==
    /\ May("drop_handle")
    /\ server_handle
    /\ server_handle' = FALSE
    /\ UNCHANGED <<msg_receiver, event_receiver>>
    /\ AppUnchanged

DropEvents ==
    /\ May("drop_events")
    /\ event_receiver
    /\ event_receiver' = FALSE
    /\ UNCHANGED <<msg_receiver, server_handle>>
    /\ AppUnchanged

-----------------------------------------------------------------------------

Next ==
    \/ \E a, u \in Addrs : handle_new_tcp_connection(a, u)
    \/ PeerAddrFails
    \/ \E p \in PeerUids : Broker(p)
    \/ \E p \in PeerUids, a \in Addrs : UdpHello(p, a)
    \/ \E a \in Addrs : UdpApplicationLogic(a) \/ UdpUndecodable(a)
    \/ UdpActorEnds
    \/ UdpHeartbeat
    \/ AnnounceFlush
    \/ handle_actor_message
    \/ ActorMessagesEnd
    \/ Unwind
    \/ \E p \in PeerUids :
          \/ ReadsMessage(p) \/ ReadsUndecodable(p) \/ ReadFails(p)
          \/ ReaderRuns(p) \/ ReaderPanics(p) \/ PeerCloses(p)
    \/ \E w \in PeerUids \cup {UdpWriter} : WriterRuns(w) \/ WriterPanics(w) \/ WriterSteps(w)
    \/ \E m \in Message : Call(m)
    \/ DropHandle
    \/ DropEvents

\* tokio polls every task that can run.  The arms of the main loop are strongly
\* fair: the broker takes one at a time, and SelectAll serves every stream that
\* has something before it serves one again, the heartbeat included.  Sockets
\* take what is written or fail: a client that keeps its connection open and
\* never reads is outside this assumption.
Fairness ==
    /\ \A p \in PeerUids :
          /\ SF_vars(handle_tcp_reader_stream_item(p) \/ TcpReaderError(p))
          /\ SF_vars(TcpReaderEnd(p))
          /\ SF_vars(TcpWriterEnd(p))
          /\ WF_vars(AnnounceFeed(p))
          /\ WF_vars(ReaderRuns(p))
    /\ \A w \in PeerUids \cup {UdpWriter} : WF_vars(WriterRuns(w)) /\ WF_vars(WriterSteps(w))
    /\ SF_vars(UdpHeartbeat)
    /\ SF_vars(handle_actor_message)
    /\ SF_vars(ActorMessagesEnd)
    /\ WF_vars(AnnounceFlush)
    /\ WF_vars(Unwind)

Spec == Init /\ [][Next]_vars

FairSpec == Spec /\ Fairness
=============================================================================
