-------------------------- MODULE ServerProperties -------------------------
(***************************************************************************)
(* What is checked of the server: its own assertions, what the application *)
(* learns from the events, that tasks do not outlive their peer, and that  *)
(* it implements PeerLifecycle.                                            *)
(***************************************************************************)
EXTENDS ServerActor

Connected == DOMAIN peers
Accepted == 0 .. next_peer_uid - 1

\* The four assertions of assert_invariants (src/src/server/actor.rs:328-338),
\* which a debug build evaluates before every turn of the main loop.
AssertInvariants ==
    LET size(m) == Cardinality(DOMAIN m)
    IN  /\ size(peer_tcp_socket_addr_to_peer_uid) >= size(peer_udp_socket_addr_to_peer_uid)
        /\ size(peers) >= size(peer_tcp_socket_addr_to_peer_uid)
        /\ size(peers) >= size(peer_udp_socket_addr_to_peer_uid)
        /\ size(peers) >= size(peer_handshake_uuid_to_peer_uid)

\* What assert_invariants is about: the three indexes hold exactly the keys of
\* the connected peers, whichever handler or drop_peer ran last.
IndexesExact ==
    /\ \A p \in Connected :
          LET peer == peers[p]
          IN  /\ Insert(peer_tcp_socket_addr_to_peer_uid, peer.tcp_socket_addr, p)
                    = peer_tcp_socket_addr_to_peer_uid
              /\ Insert(peer_handshake_uuid_to_peer_uid, peer.handshake_uuid, p)
                    = peer_handshake_uuid_to_peer_uid
              /\ peer.udp_socket_addr # NoAddr =>
                    Insert(peer_udp_socket_addr_to_peer_uid, peer.udp_socket_addr, p)
                        = peer_udp_socket_addr_to_peer_uid
    /\ \A a \in DOMAIN peer_tcp_socket_addr_to_peer_uid :
          \E p \in Connected : peers[p].tcp_socket_addr = a
    /\ \A a \in DOMAIN peer_udp_socket_addr_to_peer_uid :
          \E p \in Connected : peers[p].udp_socket_addr = a
    /\ \A u \in DOMAIN peer_handshake_uuid_to_peer_uid :
          \E p \in Connected : peers[p].handshake_uuid = u

\* The assertions on the shutdown reason of an actor (src/src/server/actor.rs
\* lines 204, 211, 223 and 231) hold whenever they may be evaluated: an actor
\* that was told to stop, or lost its handle or receiver, has no peer.
ShutdownAssertsHold ==
    broker = "running" =>
        \A p \in Connected :
            /\ rState[p] \notin {"Signalled", "ActorHandlesDropped", "ReceiverClosedChannel"}
            /\ wState[p] \notin {"Signalled", "ActorHandlesDropped"}

\* The events agree with the peers: a peer is connected exactly if it was
\* announced and not disconnected, so that get_number_of_connected_peers
\* answers what the application can count itself.
Count(p, kind) == Cardinality({i \in DOMAIN events[p] : events[p][i].ev = kind})
EventsMatchPeers ==
    broker = "running" =>
        /\ Connected = {p \in PeerUids : Count(p, "NewPeer") = 1 /\ Count(p, "PeerDisconnect") = 0}
        /\ Cardinality(Connected) <= max_connections

\* Event::Message is "Received message from connected peer"
\* (src/src/server/event.rs:51): nothing is heard of a peer after its
\* PeerDisconnect.
NothingAfterDisconnect ==
    \A p \in PeerUids : \A i \in 1 .. Len(events[p]) - 1 : events[p][i].ev # "PeerDisconnect"

\* The messages among the events of a peer.
Heard(p) == {i \in DOMAIN events[p] : events[p][i].ev = "TcpMessage"}

\* A client that closes its connection is heard out: when it is reported to
\* have closed it (and no write failed), its reader did reach the end of the
\* stream, and everything it read was reported before, in order
\* (src/src/server/actor.rs:97 and 198: the reason is chained after the items).
HeardOut ==
    \A p \in PeerUids :
        /\ \E i \in 1 .. Len(events[p]) : events[p][i] = PeerDisconnect("PeerClosedConnection")
        /\ wReason[p] # "SinkError"
        => /\ rState[p] = "EndOfStream"
           /\ {events[p][i].n : i \in Heard(p)} = 1 .. reads[p]
           /\ \A i, j \in Heard(p) : i < j => events[p][i].n < events[p][j].n
           /\ events[p][Len(events[p])].ev = "PeerDisconnect"

\* Datagrams keep to their peer, although peers come and go, addresses are used
\* again by later clients, and a client's two addresses may differ.  A message
\* from UDP address a is reported of the connected peer that has it
\* (src/src/server/actor.rs:556).  What is queued for UDP is for the address of
\* one connected peer, and message_peer_udp and the answer to a Hello for the
\* UDP address of theirs (src/src/server/actor.rs:471 and 551).
ClientsAt(a) == {p \in Connected : a \in {sock[p].tcp, sock[p].udp}}

ReportedOfSender ==
    \A a \in Addrs, p \in DOMAIN events :
        UdpApplicationLogic(a) /\ events'[p] # events[p] => ClientsAt(a) = {p} /\ sock[p].udp = a

ForOnePeer(m) ==
    m # W!Flush =>
        \E p \in Connected :
            /\ ClientsAt(m.item.to) = {p}
            /\ m.op = "Send" => m.item.to = sock[p].udp
            /\ m.op = "Send" /\ m.item.msg = "ApplicationLogic" => Head(msg_receiver).peer_uid = p

QueuedForReceiver ==
    \A i \in Len(wMsgs[UdpWriter]) + 1 .. Len(wMsgs'[UdpWriter]) : ForOnePeer(wMsgs'[UdpWriter][i])

DatagramsKeepToPeers == [][ReportedOfSender /\ QueuedForReceiver]_vars

\* Hello "allows the server to match the UDP socket address and port number to
\* the TCP socket of the client" (src/src/message_types.rs:55): once a client's
\* Hello is answered, no announcement or heartbeat goes to its TCP address any
\* more if it receives UDP elsewhere.
AnnouncementsFollowHello ==
    \A p \in Connected, i, j \in DOMAIN wMsgs[UdpWriter] :
        /\ i < j
        /\ wMsgs[UdpWriter][i] = W!Send([msg |-> "Welcome", to |-> sock[p].udp])
        /\ wMsgs[UdpWriter][j].op = "Feed"
        /\ wMsgs[UdpWriter][j].item.to = sock[p].tcp
        => sock[p].tcp = sock[p].udp

\* A client that is told UdpHandshakeAcknowledged, upon which it reports that
\* it can send on UDP (src/src/client/actor.rs:157), is known by its address:
\* until it is dropped its messages are attributed to it.
AckMeansKnown ==
    \A p \in Connected :
        (\E i \in 1 .. Len(wMsgs[p]) :
            wMsgs[p][i] = W!Send([msg |-> "UdpHandshakeAcknowledged", to |-> NoAddr]))
        => /\ sock[p].udp \in DOMAIN peer_udp_socket_addr_to_peer_uid
           /\ peer_udp_socket_addr_to_peer_uid[sock[p].udp] = p

-----------------------------------------------------------------------------

\* A connection that the client closes is noticed: the peer is dropped,
\* however busy its reader's channel and the broker are, unless its reader has
\* panicked, which is only logged (src/src/server/actor.rs:216).
ClosedIsNoticed ==
    \A p \in PeerUids :
        (p \in Connected /\ rStream[p] = "ended") ~> (p \notin Connected \/ rState[p] = "Panic")

\* No task outlives its peer for ever: both actors of a peer that is no longer
\* connected finish, also when the channel was too full for a Shutdown
\* (src/src/server/actor.rs:420-445) and also when the broker panicked.
ActorsFinish ==
    \A p \in PeerUids :
        (p \in Accepted /\ p \notin Connected) ~> (R!ReaderFinished(p) /\ W!WriterFinished(p))

\* A datagram that was fed does not stay in the sink for ever when the flush
\* after it was refused for lack of room (src/src/server/actor.rs:524-529): as
\* long as heartbeats go on, with peers or without, the sink is written to.
WritesDatagrams ==
    /\ wSink[UdpWriter] # <<>>
    /\ \E n \in 1 .. Len(W!Pending(UdpWriter)) : SinkDone(UdpWriter, n) \/ CloseSink(UdpWriter, n)

FedIsWritten == <>[](wSink[UdpWriter] # <<>>) => []<><<WritesDatagrams>>_vars

-----------------------------------------------------------------------------

life ==
    [p \in PeerUids |->
        IF p >= next_peer_uid THEN "new" ELSE IF p \in Connected THEN "connected" ELSE "gone"]

server == CASE broker = "running" -> "up" [] broker = "unwinding" -> "failing" [] OTHER -> "down"

L == INSTANCE PeerLifecycle WITH log <- events, Serials <- 1 .. MaxReads

\* The broker with its actors implements PeerLifecycle, events as its log.
ImplementsPeerLifecycle == L!LifeSpec
=============================================================================
