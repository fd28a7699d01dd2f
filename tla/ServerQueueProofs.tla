------------------------- MODULE ServerQueueProofs -------------------------
(***************************************************************************)
(* What the broker gives the write actors to write: whom it acknowledges a *)
(* Hello to, and where it sends datagrams.                                 *)
(***************************************************************************)
EXTENDS ServerIndexProofs

In(m, s) == \E i \in 1 .. Len(s) : s[i] = m

Ack == W!Send([msg |-> "UdpHandshakeAcknowledged", to |-> NoAddr])

\* A peer that is being sent the acknowledgement has its UDP address recorded.
AckInv == \A p \in DOMAIN peers : In(Ack, wMsgs[p]) => peers[p].udp_socket_addr # NoAddr

-----------------------------------------------------------------------------
(* The channel of a write actor.                                           *)

\* What is in a channel after a message was queued.
LEMMA InAppend ==
  ASSUME NEW S, NEW s \in Seq(S), NEW x \in S, NEW m, In(m, Append(s, x))
  PROVE  In(m, s) \/ m = x
<1>1. /\ Len(Append(s, x)) = Len(s) + 1
      /\ Append(s, x)[Len(s) + 1] = x
      /\ \A i \in 1 .. Len(s) : Append(s, x)[i] = s[i]
      /\ Len(s) \in Nat
  OBVIOUS
<1>2. PICK i \in 1 .. Len(s) + 1 : Append(s, x)[i] = m
  BY <1>1 DEF In
<1>3. i = Len(s) + 1 \/ i \in 1 .. Len(s)
  BY <1>1
<1> QED
  BY <1>1, <1>2, <1>3 DEF In

\* What is in a channel after its first message was taken.
LEMMA InTail ==
  ASSUME NEW S, NEW s \in Seq(S), s # <<>>, NEW m, In(m, Tail(s))
  PROVE  In(m, s)
<1>1. /\ Len(Tail(s)) = Len(s) - 1 /\ Len(s) \in Nat /\ Len(s) > 0
      /\ \A i \in 1 .. Len(s) - 1 : Tail(s)[i] = s[i + 1]
  OBVIOUS
<1>2. PICK i \in 1 .. Len(s) - 1 : Tail(s)[i] = m
  BY <1>1 DEF In
<1>3. i + 1 \in 1 .. Len(s) /\ s[i + 1] = m
  BY <1>1, <1>2
<1> QED
  BY <1>3 DEF In

\* Nothing is in an empty channel.
LEMMA InEmpty == ASSUME NEW m PROVE ~In(m, <<>>)
  BY DEF In

\* send_actor_message (src/src/actors/write_actor.rs:105) adds at most its
\* message to the channel.
LEMMA InSend ==
  ASSUME ActorTypes, NEW w \in AllWriters, NEW x \in W!ActorMessage, NEW m,
         In(m, W!send_actor_message(w, x))
  PROVE  In(m, wMsgs[w]) \/ m = x
<1>1. PICK s \in Seq(W!ActorMessage) : s = wMsgs[w]
  BY DEF ActorTypes
<1>2. In(m, s) \/ In(m, Append(s, x))
  BY <1>1 DEF W!send_actor_message
<1>3. In(m, s) \/ m = x
  BY <1>2, InAppend
<1> QED
  BY <1>1, <1>3, Zenon

\* The same for a step that queues one message with one write actor.
LEMMA QueuedOne ==
  ASSUME ActorTypes, NEW w \in AllWriters, NEW x \in W!ActorMessage,
         wMsgs' = [wMsgs EXCEPT ![w] = W!send_actor_message(w, x)],
         NEW v \in AllWriters, NEW m, In(m, wMsgs'[v])
  PROVE  In(m, wMsgs[v]) \/ (v = w /\ m = x)
<1>1. CASE v = w
  <2>1. wMsgs'[v] = W!send_actor_message(w, x)
    BY <1>1 DEF ActorTypes
  <2>2. In(m, W!send_actor_message(w, x))
    BY <2>1, Zenon
  <2> QED
    BY <1>1, <2>2, InSend
<1>2. CASE v # w
  <2>1. wMsgs'[v] = wMsgs[v]
    BY <1>2 DEF ActorTypes
  <2> QED
    BY <2>1, Zenon
<1> QED
  BY <1>1, <1>2

-----------------------------------------------------------------------------
(* What a step may put in the channels.                                    *)

\* For a connection, apart from the acknowledgement.
TcpMessages ==
    {W!Send([msg |-> "Welcome", to |-> NoAddr]), W!Send([msg |-> "ApplicationLogic", to |-> NoAddr]),
     W!Shutdown}

\* For the UDP socket: a flush, or a message to one of a peer's addresses.
UdpMessageOf(m) ==
    \/ m = W!Flush
    \/ \E p \in DOMAIN peers :
          \/ m.item.to = peers[p].tcp_socket_addr
          \/ m.item.to = peers[p].udp_socket_addr /\ peers[p].udp_socket_addr # NoAddr

QueuedBy(v, m) ==
    \/ In(m, wMsgs[v])
    \/ v \in PeerUids /\ m \in TcpMessages
    \/ v = UdpWriter /\ UdpMessageOf(m)
    \/ \E q \in PeerUids, a \in Addrs :
          /\ UdpHello(q, a)
          /\ \/ v = UuidIndex[new_v4(q)] /\ m = Ack
             \/ v = UdpWriter /\ m.item.to = a

\* drop_peer queues a Shutdown with the peer's writer.
LEMMA QueuedByDrop ==
  ASSUME ServerInv, NEW p, NEW reason, drop_peer(p, reason),
         NEW v \in AllWriters, NEW m, In(m, wMsgs'[v])
  PROVE  QueuedBy(v, m)
<1>1. CASE p \in DOMAIN peers
  <2>1. /\ wMsgs' = [wMsgs EXCEPT ![p] = W!send_actor_message(p, W!Shutdown)]
        /\ p \in PeerUids /\ p \in AllWriters
    BY <1>1 DEF drop_peer, release_actors, ServerInv, ActorTypes, AllWriters
  <2>2. In(m, wMsgs[v]) \/ (v = p /\ m = W!Shutdown)
    BY <2>1, QueuedOne, Messages DEF ServerInv
  <2> QED
    BY <2>1, <2>2 DEF QueuedBy, TcpMessages
<1>2. CASE p \notin DOMAIN peers
  <2>1. wMsgs' = wMsgs
    BY <1>2 DEF drop_peer, wLink
  <2> QED
    BY <2>1 DEF QueuedBy
<1> QED
  BY <1>1, <1>2

\* The arms of the main loop that serve one peer.
LEMMA QueuedByBroker ==
  ASSUME ServerInv, NEW p \in PeerUids, Broker(p), NEW v \in AllWriters, NEW m, In(m, wMsgs'[v])
  PROVE  QueuedBy(v, m)
<1> USE DEF wLink
<1>1. CASE wMsgs' = wMsgs
  BY <1>1 DEF QueuedBy
<1>2. CASE handle_tcp_reader_stream_item(p)
  BY <1>1, <1>2 DEF handle_tcp_reader_stream_item
<1>3. CASE TcpReaderError(p)
  BY <1>3, QueuedByDrop DEF TcpReaderError
<1>4. CASE TcpReaderEnd(p)
  <2>1. drop_peer(p, "PeerClosedConnection") \/ wMsgs' = wMsgs
    BY <1>4 DEF TcpReaderEnd, ReaderStreamOver, reader_shutdown, R!ReaderFinished, R!ReadOutcome,
                R!ReadActorShutdownReason
  <2> QED
    BY <1>1, <2>1, QueuedByDrop
<1>5. CASE TcpWriterEnd(p)
  <2>1. drop_peer(p, "PeerClosedConnection") \/ wMsgs' = wMsgs
    BY <1>5 DEF TcpWriterEnd, writer_shutdown, W!WriterFinished, W!WriteOutcome,
                W!WriteActorShutdownReason
  <2> QED
    BY <1>1, <2>1, QueuedByDrop
<1>6. CASE AnnounceFeed(p)
  <2> DEFINE x == [msg |-> announce.msg, to |-> peers[p].tcp_socket_addr]
  <2>1. /\ wMsgs' = [wMsgs EXCEPT ![UdpWriter] = W!send_actor_message(UdpWriter, W!Feed(x))]
        /\ p \in DOMAIN peers /\ UdpWriter \in AllWriters
    BY <1>6 DEF AnnounceFeed, ServerInv, BrokerTypes, AllWriters
  <2>2. x \in WriteItems
    BY <1>6 DEF AnnounceFeed, ServerInv, BrokerTypes, WriteItems, Peer
  <2>3. In(m, wMsgs[v]) \/ (v = UdpWriter /\ m = W!Feed(x))
    BY <2>1, <2>2, QueuedOne, Messages DEF ServerInv
  <2>4. W!Feed(x).item.to = peers[p].tcp_socket_addr
    BY DEF W!Feed
  <2> HIDE DEF x
  <2> QED
    BY <2>1, <2>3, <2>4 DEF QueuedBy, UdpMessageOf
<1> QED
  BY <1>2, <1>3, <1>4, <1>5, <1>6 DEF Broker

\* handle_new_tcp_connection queues the Welcome, in a channel of its own.
LEMMA QueuedByConnect ==
  ASSUME ServerInv, NEW a \in Addrs, NEW u \in Addrs, handle_new_tcp_connection(a, u),
         NEW v \in AllWriters, NEW m, In(m, wMsgs'[v])
  PROVE  \/ v # next_peer_uid /\ In(m, wMsgs[v])
         \/ v = next_peer_uid /\ m \in TcpMessages
<1> DEFINE x == W!Send([msg |-> "Welcome", to |-> NoAddr])
<1>1. wMsgs' = [wMsgs EXCEPT ![next_peer_uid] = <<x>>]
  BY DEF handle_new_tcp_connection
<1>2. CASE v = next_peer_uid
  <2>1. wMsgs'[v] = <<x>>
    BY <1>1, <1>2 DEF ServerInv, ActorTypes
  <2>2. In(m, <<x>>)
    BY <2>1, Zenon
  <2>3. m = x
    BY <2>2 DEF In
  <2> QED
    BY <1>2, <2>3 DEF TcpMessages
<1>3. CASE v # next_peer_uid
  <2>1. wMsgs'[v] = wMsgs[v]
    BY <1>1, <1>3 DEF ServerInv, ActorTypes
  <2> QED
    BY <1>3, <2>1, Zenon
<1> QED
  BY <1>2, <1>3

\* The Hello is acknowledged on TCP and answered on UDP.
LEMMA QueuedByHello ==
  ASSUME ServerInv, NEW q \in PeerUids, NEW a \in Addrs, UdpHello(q, a),
         NEW v \in AllWriters, NEW m, In(m, wMsgs'[v])
  PROVE  QueuedBy(v, m)
<1> SUFFICES ASSUME NEW CONSTANT p, p = UuidIndex[new_v4(q)] PROVE QueuedBy(v, m)
  OBVIOUS
<1> DEFINE x == W!Send([msg |-> "Welcome", to |-> a])
<1>1. /\ p \in DOMAIN peers
      /\ wMsgs' = [wMsgs EXCEPT ![p] = W!send_actor_message(p, Ack),
                                ![UdpWriter] = W!send_actor_message(UdpWriter, x)]
  BY DEF UdpHello, UuidIndex, Ack
<1>2. p \in PeerUids /\ p \in AllWriters /\ UdpWriter \in AllWriters /\ p # UdpWriter
  BY <1>1, UdpWriterApart DEF ServerInv, ActorTypes, AllWriters
<1>3. Ack \in W!ActorMessage /\ x \in W!ActorMessage /\ x.item.to = a
  BY DEF Ack, W!Send, W!ActorMessage, WriteItems
<1> HIDE DEF x
<1>4. CASE v = p
  <2>1. wMsgs'[v] = W!send_actor_message(p, Ack)
    BY <1>1, <1>2, <1>4 DEF ServerInv, ActorTypes
  <2>2. In(m, W!send_actor_message(p, Ack))
    BY <2>1, Zenon
  <2>3. In(m, wMsgs[p]) \/ m = Ack
    BY <1>2, <1>3, <2>2, InSend DEF ServerInv
  <2> QED
    BY <1>4, <2>3 DEF QueuedBy
<1>5. CASE v = UdpWriter
  <2>1. wMsgs'[v] = W!send_actor_message(UdpWriter, x)
    BY <1>1, <1>2, <1>5 DEF ServerInv, ActorTypes
  <2>2. In(m, W!send_actor_message(UdpWriter, x))
    BY <2>1, Zenon
  <2>3. In(m, wMsgs[UdpWriter]) \/ m = x
    BY <1>2, <1>3, <2>2, InSend DEF ServerInv
  <2> QED
    BY <1>3, <1>5, <2>3 DEF QueuedBy
<1>6. CASE v # p /\ v # UdpWriter
  <2>1. wMsgs'[v] = wMsgs[v]
    BY <1>1, <1>6 DEF ServerInv, ActorTypes
  <2> QED
    BY <2>1 DEF QueuedBy
<1> QED
  BY <1>4, <1>5, <1>6

\* The messages of the application, the heartbeat and the flush after it.
LEMMA QueuedByMessage ==
  ASSUME ServerInv, handle_actor_message \/ UdpHeartbeat \/ AnnounceFlush,
         NEW v \in AllWriters, NEW m, In(m, wMsgs'[v])
  PROVE  QueuedBy(v, m)
<1>1. PICK x \in W!ActorMessage :
           x = W!Send([msg |-> "ApplicationLogic", to |-> NoAddr]) /\ x \in TcpMessages
  BY DEF TcpMessages, W!Send, W!ActorMessage, WriteItems
<1>2. CASE wMsgs' = wMsgs
  BY <1>2 DEF QueuedBy
<1>3. CASE ToPeerTcp
  <2>1. PICK p : wMsgs' = IF p \in DOMAIN peers
                          THEN [wMsgs EXCEPT ![p] = W!send_actor_message(p, x)]
                          ELSE wMsgs
    BY <1>1, <1>3 DEF ToPeerTcp
  <2>2. CASE p \in DOMAIN peers
    <3>1. p \in PeerUids /\ p \in AllWriters
      BY <2>2 DEF ServerInv, ActorTypes, AllWriters
    <3>2. In(m, wMsgs[v]) \/ (v = p /\ m = x)
      BY <2>1, <2>2, <3>1, QueuedOne DEF ServerInv
    <3> QED
      BY <1>1, <3>1, <3>2 DEF QueuedBy
  <2> QED
    BY <1>2, <2>1, <2>2
<1>4. CASE ToPeerUdp
  <2> SUFFICES ASSUME NEW CONSTANT p, p = Head(msg_receiver).peer_uid PROVE QueuedBy(v, m)
    OBVIOUS
  <2> DEFINE y == W!Send([msg |-> "ApplicationLogic", to |-> peers[p].udp_socket_addr])
  <2>1. CASE p \in DOMAIN peers /\ peers[p].udp_socket_addr # NoAddr
    <3>1. [msg |-> "ApplicationLogic", to |-> peers[p].udp_socket_addr] \in WriteItems
      BY <2>1 DEF ServerInv, BrokerTypes, WriteItems, Peer
    <3>2. y \in W!ActorMessage /\ y.item.to = peers[p].udp_socket_addr
      BY <3>1 DEF W!Send, W!ActorMessage
    <3>3. wMsgs' = [wMsgs EXCEPT ![UdpWriter] = W!send_actor_message(UdpWriter, y)]
      BY <1>4, <2>1 DEF ToPeerUdp
    <3>4. UdpWriter \in AllWriters
      BY DEF AllWriters
    <3>5. In(m, wMsgs[v]) \/ (v = UdpWriter /\ m = y)
      BY <3>2, <3>3, <3>4, QueuedOne DEF ServerInv
    <3> HIDE DEF y
    <3> QED
      BY <2>1, <3>2, <3>5 DEF QueuedBy, UdpMessageOf
  <2>2. CASE ~(p \in DOMAIN peers /\ peers[p].udp_socket_addr # NoAddr)
    BY <1>2, <1>4, <2>2 DEF ToPeerUdp
  <2> QED
    BY <2>1, <2>2
<1>5. CASE announce_tcp
  <2>1. wMsgs' = [w \in AllWriters |->
                    IF w \in DOMAIN peers THEN W!send_actor_message(w, x) ELSE wMsgs[w]]
    BY <1>1, <1>5 DEF announce_tcp, ServerInv, ActorTypes
  <2>2. CASE v \in DOMAIN peers
    <3>1. wMsgs'[v] = W!send_actor_message(v, x) /\ v \in PeerUids
      BY <2>1, <2>2 DEF ServerInv, ActorTypes
    <3>2. In(m, W!send_actor_message(v, x))
      BY <3>1, Zenon
    <3>3. In(m, wMsgs[v]) \/ m = x
      BY <1>1, <3>2, InSend DEF ServerInv
    <3> QED
      BY <1>1, <3>1, <3>3 DEF QueuedBy
  <2>3. CASE v \notin DOMAIN peers
    <3>1. wMsgs'[v] = wMsgs[v]
      BY <2>1, <2>3
    <3> QED
      BY <3>1 DEF QueuedBy
  <2> QED
    BY <2>2, <2>3
<1>6. CASE AnnounceUdp \/ UdpHeartbeat \/ GetNumberOfConnectedPeers
  BY <1>2, <1>6 DEF AnnounceUdp, UdpHeartbeat, GetNumberOfConnectedPeers
<1>7. CASE AnnounceFlush
  <2>1. wMsgs' = [wMsgs EXCEPT ![UdpWriter] = W!send_actor_message(UdpWriter, W!Flush)]
    BY <1>7 DEF AnnounceFlush
  <2>2. In(m, wMsgs[v]) \/ (v = UdpWriter /\ m = W!Flush)
    BY <2>1, QueuedOne, Messages DEF ServerInv, AllWriters
  <2> QED
    BY <2>2 DEF QueuedBy, UdpMessageOf
<1> QED
  BY <1>3, <1>4, <1>5, <1>6, <1>7 DEF handle_actor_message

\* A write actor only takes messages out of its channel.
LEMMA TakenByWriter ==
  ASSUME ServerInv, NEW w \in AllWriters,
         WriterRuns(w) \/ WriterPanics(w) \/ WriterSteps(w),
         NEW v \in AllWriters, NEW m, In(m, wMsgs'[v])
  PROVE  In(m, wMsgs[v])
<1>1. \/ UNCHANGED wMsgs
      \/ wMsgs' = [wMsgs EXCEPT ![w] = Tail(@)] /\ wMsgs[w] # <<>>
      \/ wMsgs' = [wMsgs EXCEPT ![w] = <<>>]
  BY DEF WriterRuns, WriterPanics, WriterSteps, SinkDone, SinkFails, CloseSink, W!WriterProgress,
         W!TakeMessage, W!TakeShutdown, W!AllHandlesDropped, W!SinkDone, W!SinkFails,
         W!CloseSink, W!WriterPanics
<1>2. PICK s \in Seq(W!ActorMessage) : s = wMsgs[v]
  BY DEF ServerInv, ActorTypes
<1>3. \/ wMsgs'[v] = s
      \/ wMsgs'[v] = Tail(s) /\ s # <<>>
      \/ wMsgs'[v] = <<>>
  BY <1>1, <1>2 DEF ServerInv, ActorTypes
<1>4. \/ In(m, s)
      \/ In(m, Tail(s)) /\ s # <<>>
      \/ In(m, <<>>)
  BY <1>3, Zenon
<1>5. In(m, s)
  BY <1>4, InTail, InEmpty
<1> QED
  BY <1>2, <1>5, Zenon

\* Every step of the server, but a new connection, in these terms.
LEMMA Queued ==
  ASSUME ServerInv, [Next]_vars, NEW v \in AllWriters, NEW m, In(m, wMsgs'[v])
  PROVE  QueuedBy(v, m) \/ \E a, u \in Addrs : handle_new_tcp_connection(a, u)
<1> USE DEF wLink
<1>1. CASE wMsgs' = wMsgs
  BY <1>1 DEF QueuedBy
<1>2. CASE \E p \in PeerUids : Broker(p)
  BY <1>2, QueuedByBroker
<1>3. ASSUME NEW q \in PeerUids, NEW a \in Addrs, UdpHello(q, a) PROVE QueuedBy(v, m)
  BY <1>3, QueuedByHello
<1>4. ASSUME NEW a \in Addrs, UdpUndecodable(a) PROVE QueuedBy(v, m)
  BY <1>4, QueuedByDrop DEF UdpUndecodable
<1>5. CASE UdpHeartbeat \/ AnnounceFlush \/ handle_actor_message
  BY <1>5, QueuedByMessage
<1>6. ASSUME NEW w \in PeerUids \cup {UdpWriter}, WriterRuns(w) \/ WriterPanics(w) \/ WriterSteps(w)
      PROVE  QueuedBy(v, m)
  BY <1>6, TakenByWriter DEF AllWriters, QueuedBy
<1>7. ASSUME \/ UNCHANGED vars
             \/ PeerAddrFails \/ UdpActorEnds \/ ActorMessagesEnd \/ Unwind
             \/ \E a \in Addrs : UdpApplicationLogic(a)
             \/ \E p \in PeerUids :
                   \/ ReadsMessage(p) \/ ReadsUndecodable(p) \/ ReadFails(p)
                   \/ ReaderRuns(p) \/ ReaderPanics(p) \/ PeerCloses(p)
             \/ \E x \in Message : Call(x)
             \/ DropHandle \/ DropEvents
      PROVE  wMsgs' = wMsgs
  BY <1>7 DEF vars, PeerAddrFails, UdpActorEnds, ActorMessagesEnd, Unwind, UdpApplicationLogic,
              ReadsMessage, ReadsUndecodable, ReadFails, Reads, ReaderRuns, ReaderPanics, PeerCloses,
              ReaderUnchanged, Call, DropHandle, DropEvents, AppUnchanged
<1> QED
  BY <1>1, <1>2, <1>3, <1>4, <1>5, <1>6, <1>7 DEF Next

-----------------------------------------------------------------------------
(* Whom a Hello is acknowledged to.                                        *)

\* The acknowledgement is none of the other messages for a connection.
LEMMA AckDistinct == Ack \notin TcpMessages /\ UdpWriter \notin PeerUids
  BY UdpWriterApart DEF Ack, TcpMessages, W!Send, W!Shutdown

\* No step acknowledges a Hello without having recorded the address, and none
\* forgets an address and keeps the peer (src/src/server/actor.rs:546-552).
LEMMA AckStep ==
  ASSUME Ordinary
  PROVE  ServerInv /\ IndexInv /\ AckInv /\ [Next]_vars => AckInv'
<1> SUFFICES ASSUME ServerInv, IndexInv, AckInv, [Next]_vars,
                    NEW p \in DOMAIN peers', In(Ack, wMsgs'[p])
             PROVE  peers'[p].udp_socket_addr # NoAddr
  BY DEF AckInv
<1>1. ASSUME NEW a \in Addrs, NEW u \in Addrs, handle_new_tcp_connection(a, u)
      PROVE  peers'[p].udp_socket_addr # NoAddr
  <2>1. peers' = Insert(peers, next_peer_uid,
                        [tcp_socket_addr |-> a, udp_socket_addr |-> NoAddr,
                         handshake_uuid |-> new_v4(next_peer_uid)])
        /\ next_peer_uid \in PeerUids
    BY <1>1 DEF handle_new_tcp_connection
  <2>2. p \in AllWriters
    BY <2>1 DEF Insert, ServerInv, ActorTypes, AllWriters
  <2>3. p # next_peer_uid /\ In(Ack, wMsgs[p])
    BY <1>1, <2>2, QueuedByConnect, AckDistinct
  <2>4. p \in DOMAIN peers /\ peers'[p] = peers[p]
    BY <2>1, <2>3 DEF Insert
  <2> QED
    BY <2>3, <2>4 DEF AckInv
<1>2. CASE ~\E a, u \in Addrs : handle_new_tcp_connection(a, u)
  <2>1. ASSUME NEW q \in PeerUids, NEW a \in Addrs, UdpHello(q, a)
        PROVE  /\ peers' = [peers EXCEPT ![q].udp_socket_addr = a]
               /\ q \in DOMAIN peers
               /\ peers'[q].udp_socket_addr # NoAddr
    <3>1. UuidIndex[new_v4(q)] = q /\ q \in DOMAIN peers /\ peers[q] \in Peer
      BY <2>1, HelloOf DEF ServerInv, BrokerTypes
    <3>2. peers' = [peers EXCEPT ![q].udp_socket_addr = a]
      BY <2>1, <3>1 DEF UdpHello, record_udp_addr, UuidIndex
    <3>3. peers'[q].udp_socket_addr = a
      BY <3>1, <3>2 DEF Peer
    <3> QED
      BY <3>1, <3>2, <3>3, ServerActorAssumption
  <2>2. /\ p \in DOMAIN peers
        /\ \/ peers'[p].udp_socket_addr = peers[p].udp_socket_addr
           \/ peers'[p].udp_socket_addr # NoAddr
    <3>1. CASE \E q \in PeerUids, a \in Addrs : UdpHello(q, a)
      BY <2>1, <3>1
    <3>2. CASE ~\E q \in PeerUids, a \in Addrs : UdpHello(q, a)
      <4>1. peers' = peers \/ peers' = EmptyMap \/ \E q \in DOMAIN peers : peers' = Remove(peers, q)
        BY <1>2, <3>2, Moves
        DEF Drops, forget_peer, handle_tcp_reader_stream_item, UdpApplicationLogic, BrokerFails,
            Unwind, Quiet, index
      <4> QED
        BY <4>1 DEF EmptyMap, Remove
    <3> QED
      BY <3>1, <3>2
  <2>3. p \in AllWriters /\ p # UdpWriter
    BY <2>2, AckDistinct DEF ServerInv, ActorTypes, AllWriters
  <2>4. QueuedBy(p, Ack)
    BY <1>2, <2>3, Queued
  <2>5. CASE In(Ack, wMsgs[p])
    BY <2>2, <2>5 DEF AckInv
  <2>6. ASSUME NEW q \in PeerUids, NEW a \in Addrs, UdpHello(q, a), p = UuidIndex[new_v4(q)]
        PROVE  peers'[p].udp_socket_addr # NoAddr
    <3>1. p = q
      BY <2>6, HelloOf
    <3> QED
      BY <2>1, <2>6, <3>1
  <2> QED
    BY <2>3, <2>4, <2>5, <2>6, AckDistinct DEF QueuedBy
<1> QED
  BY <1>1, <1>2

\* A client that is told UdpHandshakeAcknowledged is known by its address until
\* it is dropped, so that its datagrams are attributed to it
\* (src/src/server/actor.rs:546-556).
THEOREM AcknowledgedIsKnown == ASSUME Ordinary PROVE Spec => []AckMeansKnown
<1>1. Init => AckInv
  BY DEF Init, EmptyMap, AckInv
<1>2. ServerInv /\ IndexInv /\ AckInv /\ [Next]_vars => AckInv'
  BY AckStep
<1>3. IndexInv /\ AckInv => AckMeansKnown
  BY DEF IndexInv, PeerIndexed, Maps, UdpIndex, AckInv, AckMeansKnown, Connected, In, Ack
<1> QED
  BY <1>1, <1>2, <1>3, ServerInvariant, IndexInvariant, PTL DEF Spec

-----------------------------------------------------------------------------
(* Where datagrams go and whom they are reported of.                       *)

\* The message x, if the step queues one for the UDP write actor; a message may
\* be refused, and the write actor may take one or drop all.
UdpQueues(x) ==
    LET s == wMsgs[UdpWriter]
    IN  \/ wMsgs'[UdpWriter] \in {s, <<>>}
        \/ s # <<>> /\ wMsgs'[UdpWriter] = Tail(s)
        \/ wMsgs'[UdpWriter] = Append(s, x)

\* An address of a connected client is nobody else's.
LEMMA OneClient ==
  ASSUME IndexInv, NEW p \in DOMAIN peers, NEW a \in {sock[p].tcp, sock[p].udp}
  PROVE  ClientsAt(a) = {p}
<1>1. \A q \in DOMAIN peers : a \in {sock[q].tcp, sock[q].udp} => q = p
  BY DEF IndexInv, AllApart, Apart
<1> QED
  BY <1>1 DEF ClientsAt, Connected

\* What is queued for UDP while a step happens is the message of that step.
LEMMA QueuesOne ==
  ASSUME ServerInv, NEW x \in W!ActorMessage, ForOnePeer(x), UdpQueues(x)
  PROVE  QueuedForReceiver
<1>1. PICK s \in Seq(W!ActorMessage) : s = wMsgs[UdpWriter]
  BY DEF ServerInv, ActorTypes, AllWriters
<1>2. Len(s) \in Nat /\ (s # <<>> => Len(Tail(s)) = Len(s) - 1)
  BY <1>1
<1>3. CASE wMsgs'[UdpWriter] \in {s, <<>>} \/ (s # <<>> /\ wMsgs'[UdpWriter] = Tail(s))
  <2>1. Len(wMsgs'[UdpWriter]) \in Nat /\ Len(wMsgs'[UdpWriter]) <= Len(s)
    BY <1>2, <1>3
  <2> QED
    BY <1>1, <1>2, <2>1 DEF QueuedForReceiver
<1>4. CASE wMsgs'[UdpWriter] = Append(s, x)
  <2>1. Len(Append(s, x)) = Len(s) + 1 /\ Append(s, x)[Len(s) + 1] = x
    BY <1>1
  <2>2. \A i \in Len(s) + 1 .. Len(s) + 1 : i = Len(s) + 1
    BY <1>2
  <2> QED
    BY <1>1, <1>4, <2>1, <2>2, Zenon DEF QueuedForReceiver
<1> QED
  BY <1>1, <1>3, <1>4 DEF UdpQueues

\* A step that queues nothing for UDP.
LEMMA QueuesNone ==
  ASSUME ServerInv, wMsgs'[UdpWriter] = wMsgs[UdpWriter]
  PROVE  QueuedForReceiver
<1>1. W!Flush \in W!ActorMessage /\ ForOnePeer(W!Flush) /\ UdpQueues(W!Flush)
  BY Messages DEF ForOnePeer, UdpQueues
<1> QED
  BY <1>1, QueuesOne

\* A step that queues one message with the UDP write actor.
LEMMA QueuesMessage ==
  ASSUME ServerInv, NEW x \in W!ActorMessage, ForOnePeer(x),
         wMsgs' = [wMsgs EXCEPT ![UdpWriter] = W!send_actor_message(UdpWriter, x)]
  PROVE  QueuedForReceiver
<1>1. wMsgs'[UdpWriter] = W!send_actor_message(UdpWriter, x)
  BY DEF ServerInv, ActorTypes, AllWriters
<1>2. UdpQueues(x)
  BY <1>1 DEF UdpQueues, W!send_actor_message
<1> QED
  BY <1>2, QueuesOne

\* drop_peer (src/src/server/actor.rs:407) sends no datagram.
LEMMA DropQueuesNone ==
  ASSUME ServerInv, NEW p, NEW reason, drop_peer(p, reason)
  PROVE  QueuedForReceiver
<1>1. CASE p \in DOMAIN peers
  <2>1. p # UdpWriter /\ wMsgs' = [wMsgs EXCEPT ![p] = W!send_actor_message(p, W!Shutdown)]
    BY <1>1, UdpWriterApart DEF drop_peer, release_actors, ServerInv, ActorTypes
  <2>2. wMsgs'[UdpWriter] = wMsgs[UdpWriter]
    BY <2>1 DEF ServerInv, ActorTypes, AllWriters
  <2> QED
    BY <2>2, QueuesNone
<1>2. CASE p \notin DOMAIN peers
  BY <1>2, QueuesNone DEF drop_peer, wLink
<1> QED
  BY <1>1, <1>2

\* An announcement goes to the TCP address of a peer, which is an address of
\* nobody else (src/src/server/actor.rs:517).
LEMMA FeedQueues ==
  ASSUME ServerInv, IndexInv, NEW p \in PeerUids, AnnounceFeed(p)
  PROVE  QueuedForReceiver
<1> DEFINE x == [msg |-> announce.msg, to |-> peers[p].tcp_socket_addr]
<1>1. /\ wMsgs' = [wMsgs EXCEPT ![UdpWriter] = W!send_actor_message(UdpWriter, W!Feed(x))]
      /\ p \in DOMAIN peers
  BY DEF AnnounceFeed, ServerInv, BrokerTypes
<1>2. W!Feed(x) \in W!ActorMessage
  <2>1. x \in WriteItems
    BY DEF AnnounceFeed, ServerInv, BrokerTypes, WriteItems, Peer
  <2> QED
    BY <2>1, Messages
<1>3. W!Feed(x).op = "Feed" /\ W!Feed(x).item.to = sock[p].tcp
  BY <1>1 DEF W!Feed, IndexInv, PeerIndexed
<1>4. ForOnePeer(W!Feed(x))
  BY <1>1, <1>3, OneClient DEF ForOnePeer, Connected
<1> HIDE DEF x
<1> QED
  BY <1>1, <1>2, <1>4, QueuesMessage

\* The arms of the main loop that serve one peer.
LEMMA BrokerQueues ==
  ASSUME ServerInv, IndexInv, NEW p \in PeerUids, Broker(p)
  PROVE  QueuedForReceiver
<1> USE DEF wLink
<1>1. CASE handle_tcp_reader_stream_item(p)
  BY <1>1, QueuesNone DEF handle_tcp_reader_stream_item
<1>2. CASE TcpReaderError(p)
  BY <1>2, DropQueuesNone DEF TcpReaderError
<1>3. CASE TcpReaderEnd(p)
  <2>1. drop_peer(p, "PeerClosedConnection") \/ wMsgs' = wMsgs
    BY <1>3 DEF TcpReaderEnd, ReaderStreamOver, reader_shutdown, R!ReaderFinished, R!ReadOutcome,
                R!ReadActorShutdownReason
  <2> QED
    BY <2>1, DropQueuesNone, QueuesNone
<1>4. CASE TcpWriterEnd(p)
  <2>1. drop_peer(p, "PeerClosedConnection") \/ wMsgs' = wMsgs
    BY <1>4 DEF TcpWriterEnd, writer_shutdown, W!WriterFinished, W!WriteOutcome,
                W!WriteActorShutdownReason
  <2> QED
    BY <2>1, DropQueuesNone, QueuesNone
<1> QED
  BY <1>1, <1>2, <1>3, <1>4, FeedQueues DEF Broker

\* The answer to a Hello goes where the Hello came from, which is the UDP
\* address of the client that was given the uuid (src/src/server/actor.rs:551).
LEMMA HelloQueues ==
  ASSUME Ordinary, ServerInv, IndexInv, NEW q \in PeerUids, NEW a \in Addrs, UdpHello(q, a)
  PROVE  QueuedForReceiver
<1> DEFINE x == W!Send([msg |-> "Welcome", to |-> a])
<1>1. UuidIndex[new_v4(q)] = q /\ q \in DOMAIN peers /\ a = sock[q].udp
  BY HelloOf
<1>2. wMsgs' = [wMsgs EXCEPT ![q] = W!send_actor_message(q, Ack),
                             ![UdpWriter] = W!send_actor_message(UdpWriter, x)]
  BY <1>1 DEF UdpHello, UuidIndex, Ack
<1>3. wMsgs'[UdpWriter] = W!send_actor_message(UdpWriter, x)
  BY <1>2, UdpWriterApart DEF ServerInv, ActorTypes, AllWriters
<1>4. x \in W!ActorMessage /\ x.op = "Send" /\ x.item.to = a /\ x.item.msg = "Welcome"
  BY DEF W!Send, W!ActorMessage, WriteItems
<1>5. ForOnePeer(x)
  BY <1>1, <1>4, OneClient DEF ForOnePeer, Connected
<1>6. UdpQueues(x)
  BY <1>3 DEF UdpQueues, W!send_actor_message
<1> HIDE DEF x
<1> QED
  BY <1>4, <1>5, <1>6, QueuesOne

\* The messages of the application, the heartbeat and the flush after it: a
\* message for one peer goes to its UDP address (src/src/server/actor.rs:471).
LEMMA MessageQueues ==
  ASSUME ServerInv, IndexInv, handle_actor_message \/ UdpHeartbeat \/ AnnounceFlush
  PROVE  QueuedForReceiver
<1>1. CASE wMsgs'[UdpWriter] = wMsgs[UdpWriter]
  BY <1>1, QueuesNone
<1>2. CASE ToPeerTcp
  <2> SUFFICES ASSUME NEW CONSTANT p, p = Head(msg_receiver).peer_uid PROVE QueuedForReceiver
    OBVIOUS
  <2>1. CASE p \in DOMAIN peers
    <3>1. p # UdpWriter
      BY <2>1, UdpWriterApart DEF ServerInv, ActorTypes
    <3>2. wMsgs'[UdpWriter] = wMsgs[UdpWriter]
      BY <1>2, <2>1, <3>1 DEF ToPeerTcp, ServerInv, ActorTypes, AllWriters
    <3> QED
      BY <1>1, <3>2
  <2>2. CASE p \notin DOMAIN peers
    BY <1>1, <1>2, <2>2 DEF ToPeerTcp
  <2> QED
    BY <2>1, <2>2
<1>3. CASE ToPeerUdp
  <2> SUFFICES ASSUME NEW CONSTANT p, p = Head(msg_receiver).peer_uid PROVE QueuedForReceiver
    OBVIOUS
  <2> DEFINE y == W!Send([msg |-> "ApplicationLogic", to |-> peers[p].udp_socket_addr])
  <2>1. CASE p \in DOMAIN peers /\ peers[p].udp_socket_addr # NoAddr
    <3>1. peers[p].udp_socket_addr = sock[p].udp
      BY <2>1 DEF IndexInv, PeerIndexed
    <3>2. [msg |-> "ApplicationLogic", to |-> peers[p].udp_socket_addr] \in WriteItems
      BY <2>1 DEF ServerInv, BrokerTypes, WriteItems, Peer
    <3>3. y \in W!ActorMessage /\ y.item.to = sock[p].udp
      BY <3>1, <3>2 DEF W!Send, W!ActorMessage
    <3>4. ForOnePeer(y)
      BY <2>1, <3>3, OneClient DEF ForOnePeer, Connected
    <3>5. wMsgs' = [wMsgs EXCEPT ![UdpWriter] = W!send_actor_message(UdpWriter, y)]
      BY <1>3, <2>1 DEF ToPeerUdp
    <3> HIDE DEF y
    <3> QED
      BY <3>3, <3>4, <3>5, QueuesMessage
  <2>2. CASE ~(p \in DOMAIN peers /\ peers[p].udp_socket_addr # NoAddr)
    BY <1>1, <1>3, <2>2 DEF ToPeerUdp
  <2> QED
    BY <2>1, <2>2
<1>4. CASE announce_tcp
  <2>1. UdpWriter \notin DOMAIN peers
    BY UdpWriterApart DEF ServerInv, ActorTypes
  <2>2. wMsgs'[UdpWriter] = wMsgs[UdpWriter]
    BY <1>4, <2>1 DEF announce_tcp, ServerInv, ActorTypes, AllWriters
  <2> QED
    BY <1>1, <2>2
<1>5. CASE AnnounceUdp \/ UdpHeartbeat \/ GetNumberOfConnectedPeers
  BY <1>1, <1>5 DEF AnnounceUdp, UdpHeartbeat, GetNumberOfConnectedPeers
<1>6. CASE AnnounceFlush
  <2>1. wMsgs' = [wMsgs EXCEPT ![UdpWriter] = W!send_actor_message(UdpWriter, W!Flush)]
    BY <1>6 DEF AnnounceFlush
  <2> QED
    BY <2>1, QueuesMessage, Messages DEF ForOnePeer
<1> QED
  BY <1>2, <1>3, <1>4, <1>5, <1>6 DEF handle_actor_message

\* The step of a write actor takes messages and queues none.
LEMMA WriterQueues ==
  ASSUME ServerInv, NEW w \in AllWriters, WriterRuns(w) \/ WriterPanics(w) \/ WriterSteps(w)
  PROVE  QueuedForReceiver
<1>1. \/ UNCHANGED wMsgs
      \/ wMsgs' = [wMsgs EXCEPT ![w] = Tail(@)] /\ wMsgs[w] # <<>>
      \/ wMsgs' = [wMsgs EXCEPT ![w] = <<>>]
  BY DEF WriterRuns, WriterPanics, WriterSteps, SinkDone, SinkFails, CloseSink, W!WriterProgress,
         W!TakeMessage, W!TakeShutdown, W!AllHandlesDropped, W!SinkDone, W!SinkFails,
         W!CloseSink, W!WriterPanics
<1>2. UdpQueues(W!Flush)
  BY <1>1 DEF UdpQueues, ServerInv, ActorTypes, AllWriters
<1> QED
  BY <1>2, QueuesOne, Messages DEF ForOnePeer

\* Every datagram that is queued is for one connected peer.
LEMMA QueuesStep ==
  ASSUME Ordinary, ServerInv, IndexInv, [Next]_vars
  PROVE  QueuedForReceiver
<1> USE DEF wLink
<1>1. CASE wMsgs'[UdpWriter] = wMsgs[UdpWriter]
  BY <1>1, QueuesNone
<1>2. ASSUME NEW a \in Addrs, NEW u \in Addrs, handle_new_tcp_connection(a, u)
      PROVE  QueuedForReceiver
  <2>1. PICK s : wMsgs' = [wMsgs EXCEPT ![next_peer_uid] = s]
    BY <1>2 DEF handle_new_tcp_connection
  <2>2. next_peer_uid # UdpWriter
    BY <1>2, UdpWriterApart DEF handle_new_tcp_connection
  <2>3. wMsgs'[UdpWriter] = wMsgs[UdpWriter]
    BY <2>1, <2>2 DEF ServerInv, ActorTypes, AllWriters
  <2> QED
    BY <1>1, <2>3
<1>3. CASE \E p \in PeerUids : Broker(p)
  BY <1>3, BrokerQueues
<1>4. CASE \E q \in PeerUids, a \in Addrs : UdpHello(q, a)
  BY <1>4, HelloQueues
<1>5. ASSUME NEW a \in Addrs, UdpUndecodable(a) PROVE QueuedForReceiver
  BY <1>5, DropQueuesNone DEF UdpUndecodable
<1>6. CASE UdpHeartbeat \/ AnnounceFlush \/ handle_actor_message
  BY <1>6, MessageQueues
<1>7. ASSUME NEW w \in PeerUids \cup {UdpWriter}, WriterRuns(w) \/ WriterPanics(w) \/ WriterSteps(w)
      PROVE  QueuedForReceiver
  BY <1>7, WriterQueues DEF AllWriters
<1>8. ASSUME \/ UNCHANGED vars
             \/ PeerAddrFails \/ UdpActorEnds \/ ActorMessagesEnd \/ Unwind
             \/ \E a \in Addrs : UdpApplicationLogic(a)
             \/ \E p \in PeerUids :
                   \/ ReadsMessage(p) \/ ReadsUndecodable(p) \/ ReadFails(p)
                   \/ ReaderRuns(p) \/ ReaderPanics(p) \/ PeerCloses(p)
             \/ \E x \in Message : Call(x)
             \/ DropHandle \/ DropEvents
      PROVE  wMsgs' = wMsgs
  BY <1>8 DEF vars, PeerAddrFails, UdpActorEnds, ActorMessagesEnd, Unwind, UdpApplicationLogic,
              ReadsMessage, ReadsUndecodable, ReadFails, Reads, ReaderRuns, ReaderPanics, PeerCloses,
              ReaderUnchanged, Call, DropHandle, DropEvents, AppUnchanged
<1> QED
  BY <1>1, <1>2, <1>3, <1>4, <1>5, <1>6, <1>7, <1>8 DEF Next

\* A message is reported of the client whose UDP address it came from
\* (src/src/server/actor.rs:556): no entry of the index is stale.
LEMMA ReportsStep == ASSUME IndexInv PROVE ReportedOfSender
<1> SUFFICES ASSUME NEW a \in Addrs, NEW p \in DOMAIN events,
                    UdpApplicationLogic(a), events'[p] # events[p]
             PROVE  ClientsAt(a) = {p} /\ sock[p].udp = a
  BY DEF ReportedOfSender
<1>1. a \in DOMAIN UdpIndex /\ UdpIndex[a] = p
  BY DEF UdpApplicationLogic, emit, UdpIndex
<1>2. p \in DOMAIN peers /\ peers[p].udp_socket_addr = a
  BY <1>1 DEF IndexInv, NoStrays
<1>3. sock[p].udp = a
  BY <1>2, ServerActorAssumption DEF IndexInv, PeerIndexed
<1> QED
  BY <1>2, <1>3, OneClient

\* Datagrams keep to their peer, with address translation, failures of every
\* kind and any number of peers that come and go: what is queued for UDP is for
\* one connected peer, an application's message for the one it named
\* (src/src/server/actor.rs:471, :517 and :551), and a message from UDP is
\* reported of the connected peer that sent it (src/src/server/actor.rs:556).
THEOREM DatagramsKeep == ASSUME Ordinary PROVE Spec => DatagramsKeepToPeers
<1>1. ServerInv /\ IndexInv /\ [Next]_vars => [ReportedOfSender /\ QueuedForReceiver]_vars
  BY QueuesStep, ReportsStep
<1> QED
  BY <1>1, ServerInvariant, IndexInvariant, PTL DEF Spec, DatagramsKeepToPeers
=============================================================================
