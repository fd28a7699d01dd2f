------------------------- MODULE ServerIndexProofs -------------------------
(***************************************************************************)
(* The three indexes of the broker agree with its peers.                   *)
(*                                                                         *)
(* This needs the addresses of the connected clients to be distinct, so it *)
(* is proved of the circumstances in which no client takes over the        *)
(* address of a connection that the broker has not dropped yet (the run    *)
(* address_reuse shows that it fails otherwise) and no client repeats its  *)
(* Hello from another address (Ordinary).  Everything else that may happen,*)
(* happens: failures of every kind, panics, address translation and any    *)
(* number of peers.                                                        *)
(***************************************************************************)
EXTENDS ServerActorProofs, FiniteSetTheorems

Ordinary == ~May("addr_reuse") /\ ~May("rehello")

TcpIndex == peer_tcp_socket_addr_to_peer_uid
UdpIndex == peer_udp_socket_addr_to_peer_uid
UuidIndex == peer_handshake_uuid_to_peer_uid

Maps(m, k, v) == k \in DOMAIN m /\ m[k] = v

IsMapping(m) == m = [k \in DOMAIN m |-> m[k]]

\* A connected peer is found under each of its keys.
PeerIndexed(p) ==
    /\ sock[p].tcp \in Addrs /\ sock[p].udp \in Addrs
    /\ peers[p].tcp_socket_addr = sock[p].tcp
    /\ peers[p].udp_socket_addr \in {NoAddr, sock[p].udp}
    /\ peers[p].handshake_uuid = new_v4(p)
    /\ Maps(TcpIndex, sock[p].tcp, p)
    /\ Maps(UuidIndex, new_v4(p), p)
    /\ peers[p].udp_socket_addr # NoAddr => Maps(UdpIndex, sock[p].udp, p)

\* Every entry of an index belongs to a connected peer that has the key.
NoStrays ==
    /\ \A a \in DOMAIN TcpIndex :
           TcpIndex[a] \in DOMAIN peers /\ peers[TcpIndex[a]].tcp_socket_addr = a
    /\ \A a \in DOMAIN UdpIndex :
           UdpIndex[a] \in DOMAIN peers /\ peers[UdpIndex[a]].udp_socket_addr = a
    /\ \A u \in DOMAIN UuidIndex :
           UuidIndex[u] \in DOMAIN peers /\ peers[UuidIndex[u]].handshake_uuid = u

\* No two connected clients share an address.
Apart(p, q) == {sock[p].tcp, sock[p].udp} \cap {sock[q].tcp, sock[q].udp} = {}

IndexTypes ==
    /\ sock \in [PeerUids -> [tcp : Addrs \cup {NoAddr}, udp : Addrs \cup {NoAddr}]]
    /\ IsMapping(TcpIndex) /\ IsMapping(UdpIndex) /\ IsMapping(UuidIndex)
    /\ DOMAIN UdpIndex \subseteq Addrs

AllApart == \A p, q \in DOMAIN peers : p # q => Apart(p, q)

IndexInv ==
    /\ IndexTypes
    /\ \A p \in DOMAIN peers : PeerIndexed(p)
    /\ NoStrays
    /\ AllApart

-----------------------------------------------------------------------------
(* What a step does to the maps, the sockets and the events.               *)

\* A peer leaves and the disconnect is reported, if anybody listens.
Drops(p, reason) ==
    /\ Ready
    /\ forget_peer(p)
    /\ emit(p, PeerDisconnect(reason))
    /\ UNCHANGED <<next_peer_uid, sock, reads>>

\* The broker panics, having changed nothing.
BrokerFails ==
    /\ Ready
    /\ broker' = "unwinding"
    /\ UNCHANGED <<index, next_peer_uid, sock, events>>

Quiet == UNCHANGED <<index, next_peer_uid, sock, events, broker>>

\* drop_peer (src/src/server/actor.rs:407) returns early or removes the peer.
LEMMA DropMoves ==
  ASSUME NEW p, NEW reason \in DisconnectReason, Ready, drop_peer(p, reason),
         UNCHANGED <<next_peer_uid, sock, reads>>
  PROVE  (p \in DOMAIN peers /\ Drops(p, reason)) \/ Quiet
  BY DEF drop_peer, Drops, Quiet, index

\* The assertion after the end of an actor (src/src/server/actor.rs:204) is the
\* only thing that its arm does besides dropping the peer.
LEMMA AssertMoves ==
  ASSUME NEW p, Ready, assert_peer_removed(p), UNCHANGED <<index, next_peer_uid, sock, events>>
  PROVE  BrokerFails \/ Quiet
  BY DEF assert_peer_removed, BrokerFails, Quiet

\* The arms of the main loop that serve one peer.
LEMMA BrokerMoves ==
  ASSUME NEW p \in PeerUids, Broker(p)
  PROVE  \/ p \in DOMAIN peers /\ \E r \in DisconnectReason : Drops(p, r)
         \/ handle_tcp_reader_stream_item(p)
         \/ BrokerFails
         \/ Quiet
<1> USE DEF index, net, wLink
<1>1. CASE TcpReaderError(p)
  BY <1>1, DropMoves DEF TcpReaderError, TakeItem, DisconnectReason
<1>2. CASE TcpReaderEnd(p)
  <2>1. Ready /\ UNCHANGED <<next_peer_uid, sock, reads>> /\ reader_shutdown(p) /\ R!ReaderFinished(p)
    BY <1>2 DEF TcpReaderEnd, ReaderStreamOver
  <2>2. CASE rState[p] = "EndOfStream"
    BY <2>1, <2>2, DropMoves DEF reader_shutdown, DisconnectReason
  <2>3. CASE rState[p] \in {"Signalled", "ActorHandlesDropped", "ReceiverClosedChannel"}
    BY <2>1, <2>3, AssertMoves DEF reader_shutdown
  <2>4. CASE rState[p] = "Panic"
    BY <2>1, <2>4 DEF reader_shutdown, Quiet
  <2> QED
    BY <2>1, <2>2, <2>3, <2>4 DEF R!ReaderFinished, R!ReadOutcome, R!ReadActorShutdownReason
<1>3. CASE TcpWriterEnd(p)
  <2>1. Ready /\ UNCHANGED <<next_peer_uid, sock, reads>> /\ writer_shutdown(p) /\ W!WriterFinished(p)
    BY <1>3 DEF TcpWriterEnd
  <2>2. CASE wState[p] = "SinkError"
    BY <2>1, <2>2, DropMoves DEF writer_shutdown, DisconnectReason
  <2>3. CASE wState[p] \in {"Signalled", "ActorHandlesDropped"}
    BY <2>1, <2>3, AssertMoves DEF writer_shutdown
  <2>4. CASE wState[p] = "Panic"
    BY <2>1, <2>4 DEF writer_shutdown, Quiet
  <2> QED
    BY <2>1, <2>2, <2>3, <2>4 DEF W!WriterFinished, W!WriteOutcome, W!WriteActorShutdownReason
<1>4. CASE AnnounceFeed(p)
  BY <1>4 DEF AnnounceFeed, AnnounceUnchanged, Quiet
<1> QED
  BY <1>1, <1>2, <1>3, <1>4 DEF Broker

\* Every step of the server in these terms.
LEMMA Moves ==
  ASSUME ServerInv, [Next]_vars
  PROVE  \/ \E a, u \in Addrs : handle_new_tcp_connection(a, u)
         \/ \E p \in DOMAIN peers, r \in DisconnectReason : Drops(p, r)
         \/ \E q \in PeerUids, a \in Addrs : UdpHello(q, a)
         \/ \E p \in PeerUids : handle_tcp_reader_stream_item(p)
         \/ \E a \in Addrs : UdpApplicationLogic(a)
         \/ BrokerFails
         \/ Unwind
         \/ Quiet
<1> USE DEF index, app, net, rTask, rLink, wTask, wLink
<1>1. CASE UNCHANGED vars
  BY <1>1 DEF vars, Quiet
<1>2. CASE PeerAddrFails \/ UdpActorEnds \/ ActorMessagesEnd
  BY <1>2 DEF PeerAddrFails, UdpActorEnds, ActorMessagesEnd, UdpUnchanged, BrokerFails
<1>3. CASE \E p \in PeerUids : Broker(p)
  BY <1>3, BrokerMoves
<1>4. ASSUME NEW a \in Addrs, UdpUndecodable(a)
      PROVE  Quiet \/ \E p \in DOMAIN peers, r \in DisconnectReason : Drops(p, r)
  BY <1>4, DropMoves DEF UdpUndecodable, UdpUnchanged, DisconnectReason
<1>5. CASE UdpHeartbeat \/ AnnounceFlush
  BY <1>5 DEF UdpHeartbeat, AnnounceFlush, AnnounceUnchanged, Quiet
<1>6. CASE handle_actor_message
  BY <1>6 DEF handle_actor_message, ToPeerTcp, ToPeerUdp, announce_tcp, AnnounceUdp,
              GetNumberOfConnectedPeers, TakeMessage, Quiet
<1>7. ASSUME NEW p \in PeerUids,
             \/ ReadsMessage(p) \/ ReadsUndecodable(p) \/ ReadFails(p)
             \/ ReaderRuns(p) \/ ReaderPanics(p) \/ PeerCloses(p)
      PROVE  Quiet
  BY <1>7 DEF ReadsMessage, ReadsUndecodable, ReadFails, Reads, ReaderRuns, ReaderPanics, PeerCloses,
              ReaderUnchanged, BrokerUnchanged, Quiet
<1>8. ASSUME NEW w \in PeerUids \cup {UdpWriter}, WriterRuns(w) \/ WriterPanics(w) \/ WriterSteps(w)
      PROVE  Quiet
  BY <1>8 DEF WriterRuns, WriterPanics, WriterSteps, SinkDone, SinkFails, CloseSink,
              WriterUnchanged, BrokerUnchanged, Quiet
<1>9. ASSUME (\E m \in Message : Call(m)) \/ DropHandle \/ DropEvents
      PROVE  Quiet
  BY <1>9 DEF Call, DropHandle, DropEvents, AppUnchanged, Quiet
<1> QED
  BY <1>1, <1>2, <1>3, <1>4, <1>5, <1>6, <1>7, <1>8, <1>9 DEF Next

-----------------------------------------------------------------------------
(* Facts about the maps.                                                   *)

\* Inserting an entry that is there changes nothing.
LEMMA InsertAgain ==
  ASSUME NEW m, NEW k, NEW v, IsMapping(m), Maps(m, k, v)
  PROVE  Insert(m, k, v) = m
  BY DEF Insert, IsMapping, Maps

\* The handshake uuid tells its peer (Uuid::new_v4).
LEMMA UuidsDiffer == ASSUME NEW p, NEW q, new_v4(p) = new_v4(q) PROVE p = q
  BY DEF new_v4

\* A connected peer has a uid that was given out (src/src/server/actor.rs:351).
LEMMA ConnectedAreAccepted ==
  ASSUME ServerInv, NEW p \in DOMAIN peers
  PROVE  p \in PeerUids /\ p \in Nat /\ p < next_peer_uid /\ p \in 0 .. next_peer_uid - 1
<1>1. p \in PeerUids /\ next_peer_uid \in Nat
  BY DEF ServerInv, ActorTypes
<1>2. p \in Nat
  BY <1>1, ServerActorAssumption DEF PeerUids
<1>3. ~(p >= next_peer_uid)
  BY <1>1 DEF ServerInv, Fresh, FreshUid
<1> QED
  BY <1>1, <1>2, <1>3

-----------------------------------------------------------------------------
(* The steps.                                                              *)

\* A new connection has an address that no connected client has.
LEMMA IndexConnect ==
  ASSUME Ordinary, ServerInv, IndexInv, NEW a \in Addrs, NEW u \in Addrs,
         handle_new_tcp_connection(a, u)
  PROVE  IndexInv'
<1> SUFFICES ASSUME NEW CONSTANT p, p = next_peer_uid PROVE IndexInv'
  OBVIOUS
<1> DEFINE peer == [tcp_socket_addr |-> a, udp_socket_addr |-> NoAddr, handshake_uuid |-> new_v4(p)]
<1>1. /\ p \in PeerUids
      /\ Vacant(a) /\ Vacant(u)
      /\ sock' = [sock EXCEPT ![p] = [tcp |-> a, udp |-> u]]
      /\ peers' = Insert(peers, p, peer)
      /\ TcpIndex' = Insert(TcpIndex, a, p)
      /\ UuidIndex' = Insert(UuidIndex, new_v4(p), p)
      /\ UdpIndex' = UdpIndex
  BY DEF handle_new_tcp_connection, TcpIndex, UdpIndex, UuidIndex
<1>2. p \notin DOMAIN peers
  BY <1>1, ConnectedAreAccepted DEF ServerInv, ActorTypes
<1>3. /\ DOMAIN peers' = DOMAIN peers \cup {p}
      /\ peers'[p] = peer
      /\ \A q \in DOMAIN peers : peers'[q] = peers[q]
  BY <1>1, <1>2 DEF Insert
<1>4. /\ sock'[p] = [tcp |-> a, udp |-> u]
      /\ \A q \in DOMAIN peers : sock'[q] = sock[q] /\ q # p
  BY <1>1, <1>2 DEF IndexInv, IndexTypes, ServerInv, ActorTypes
<1>5. ASSUME NEW q \in DOMAIN peers
      PROVE  a \notin {sock[q].tcp, sock[q].udp} /\ u \notin {sock[q].tcp, sock[q].udp}
  BY <1>1, ConnectedAreAccepted DEF Vacant, Ordinary
<1>6. /\ DOMAIN TcpIndex' = DOMAIN TcpIndex \cup {a}
      /\ TcpIndex'[a] = p
      /\ \A x \in DOMAIN TcpIndex : x # a => TcpIndex'[x] = TcpIndex[x]
      /\ IsMapping(TcpIndex')
  BY <1>1 DEF Insert, IsMapping
<1>7. /\ DOMAIN UuidIndex' = DOMAIN UuidIndex \cup {new_v4(p)}
      /\ UuidIndex'[new_v4(p)] = p
      /\ \A x \in DOMAIN UuidIndex : x # new_v4(p) => UuidIndex'[x] = UuidIndex[x]
      /\ IsMapping(UuidIndex')
  BY <1>1 DEF Insert, IsMapping
<1>8. IndexTypes'
  <2>1. sock' \in [PeerUids -> [tcp : Addrs \cup {NoAddr}, udp : Addrs \cup {NoAddr}]]
    BY <1>1 DEF IndexInv, IndexTypes
  <2> QED
    BY <1>1, <1>6, <1>7, <2>1 DEF IndexInv, IndexTypes, IsMapping
<1>9. ASSUME NEW q \in DOMAIN peers' PROVE PeerIndexed(q)'
  <2>1. CASE q = p
    BY <1>3, <1>4, <1>6, <1>7, <2>1 DEF PeerIndexed, Maps
  <2>2. CASE q # p
    <3>1. q \in DOMAIN peers /\ PeerIndexed(q)
      BY <1>3, <1>9, <2>2 DEF IndexInv
    <3>2. sock[q].tcp # a /\ new_v4(q) # new_v4(p)
      BY <1>5, <2>2, <3>1, UuidsDiffer
    <3>3. peers'[q] = peers[q] /\ sock'[q] = sock[q]
      BY <1>3, <1>4, <3>1
    <3> QED
      BY <1>1, <1>6, <1>7, <3>1, <3>2, <3>3 DEF PeerIndexed, Maps
  <2> QED
    BY <2>1, <2>2
<1>10. NoStrays'
  <2>1. ASSUME NEW x \in DOMAIN TcpIndex'
        PROVE  TcpIndex'[x] \in DOMAIN peers' /\ peers'[TcpIndex'[x]].tcp_socket_addr = x
    BY <1>3, <1>6, <2>1 DEF IndexInv, NoStrays
  <2>2. ASSUME NEW x \in DOMAIN UdpIndex'
        PROVE  UdpIndex'[x] \in DOMAIN peers' /\ peers'[UdpIndex'[x]].udp_socket_addr = x
    BY <1>1, <1>3, <2>2 DEF IndexInv, NoStrays
  <2>3. ASSUME NEW x \in DOMAIN UuidIndex'
        PROVE  UuidIndex'[x] \in DOMAIN peers' /\ peers'[UuidIndex'[x]].handshake_uuid = x
    BY <1>3, <1>7, <2>3 DEF IndexInv, NoStrays
  <2> QED
    BY <2>1, <2>2, <2>3 DEF NoStrays
<1>11. AllApart'
  BY <1>3, <1>4, <1>5 DEF IndexInv, AllApart, Apart
<1> QED
  BY <1>8, <1>9, <1>10, <1>11 DEF IndexInv

\* drop_peer removes the keys of the peer and nobody else's.
LEMMA IndexDrop ==
  ASSUME IndexInv, NEW p \in DOMAIN peers, forget_peer(p), UNCHANGED sock
  PROVE  IndexInv'
<1>1. PeerIndexed(p) /\ NoStrays /\ AllApart
  BY DEF IndexInv
<1>2. /\ DOMAIN peers' = DOMAIN peers \ {p}
      /\ \A q \in DOMAIN peers \ {p} : peers'[q] = peers[q]
  BY DEF forget_peer, Remove
<1>3. /\ DOMAIN TcpIndex' = DOMAIN TcpIndex \ {sock[p].tcp}
      /\ \A x \in DOMAIN TcpIndex \ {sock[p].tcp} : TcpIndex'[x] = TcpIndex[x]
      /\ IsMapping(TcpIndex')
  BY <1>1 DEF Remove, IsMapping, forget_peer, TcpIndex, PeerIndexed
<1>4. /\ DOMAIN UuidIndex' = DOMAIN UuidIndex \ {new_v4(p)}
      /\ \A x \in DOMAIN UuidIndex \ {new_v4(p)} : UuidIndex'[x] = UuidIndex[x]
      /\ IsMapping(UuidIndex')
  BY <1>1 DEF Remove, IsMapping, forget_peer, UuidIndex, PeerIndexed
<1>5. /\ DOMAIN UdpIndex' = DOMAIN UdpIndex \ {peers[p].udp_socket_addr}
      /\ \A x \in DOMAIN UdpIndex \ {peers[p].udp_socket_addr} : UdpIndex'[x] = UdpIndex[x]
      /\ IsMapping(UdpIndex')
  <2>1. CASE peers[p].udp_socket_addr = NoAddr
    <3>1. NoAddr \notin DOMAIN UdpIndex
      BY ServerActorAssumption DEF IndexInv, IndexTypes
    <3>2. UdpIndex' = UdpIndex
      BY <2>1 DEF forget_peer, UdpIndex
    <3> QED
      BY <2>1, <3>1, <3>2 DEF IndexInv, IndexTypes
  <2>2. CASE peers[p].udp_socket_addr # NoAddr
    BY <2>2 DEF forget_peer, UdpIndex, Remove, IsMapping
  <2> QED
    BY <2>1, <2>2
<1>6. IndexTypes'
  BY <1>3, <1>4, <1>5 DEF IndexInv, IndexTypes, IsMapping
<1>7. ASSUME NEW q \in DOMAIN peers' PROVE PeerIndexed(q)'
  <2>1. q \in DOMAIN peers /\ q # p /\ PeerIndexed(q) /\ Apart(p, q)
    BY <1>1, <1>2, <1>7 DEF IndexInv, AllApart
  <2>2. /\ sock[q].tcp # sock[p].tcp
        /\ sock[q].udp # sock[p].udp
        /\ new_v4(q) # new_v4(p)
    BY <2>1, UuidsDiffer DEF Apart
  <2>3. sock[q].udp # peers[p].udp_socket_addr
    BY <1>1, <2>1, <2>2, ServerActorAssumption DEF PeerIndexed
  <2> QED
    BY <1>2, <1>3, <1>4, <1>5, <2>1, <2>2, <2>3 DEF PeerIndexed, Maps
<1>8. NoStrays'
  <2>1. ASSUME NEW x \in DOMAIN TcpIndex'
        PROVE  TcpIndex'[x] \in DOMAIN peers' /\ peers'[TcpIndex'[x]].tcp_socket_addr = x
    BY <1>1, <1>2, <1>3, <2>1 DEF NoStrays, PeerIndexed
  <2>2. ASSUME NEW x \in DOMAIN UdpIndex'
        PROVE  UdpIndex'[x] \in DOMAIN peers' /\ peers'[UdpIndex'[x]].udp_socket_addr = x
    BY <1>1, <1>2, <1>5, <2>2 DEF NoStrays
  <2>3. ASSUME NEW x \in DOMAIN UuidIndex'
        PROVE  UuidIndex'[x] \in DOMAIN peers' /\ peers'[UuidIndex'[x]].handshake_uuid = x
    BY <1>1, <1>2, <1>4, <2>3 DEF NoStrays, PeerIndexed
  <2> QED
    BY <2>1, <2>2, <2>3 DEF NoStrays
<1>9. AllApart'
  BY <1>1, <1>2 DEF AllApart, Apart
<1> QED
  BY <1>6, <1>7, <1>8, <1>9 DEF IndexInv

\* A Hello is of the peer that was sent the uuid, and from its address.
LEMMA HelloOf ==
  ASSUME Ordinary, IndexInv, NEW q \in PeerUids, NEW a \in Addrs, UdpHello(q, a)
  PROVE  /\ UuidIndex[new_v4(q)] = q
         /\ q \in DOMAIN peers
         /\ a = sock[q].udp
<1>1. /\ new_v4(q) \in DOMAIN UuidIndex
      /\ a = sock[q].udp
  BY DEF UdpHello, UuidIndex, Ordinary
<1>2. PICK p \in DOMAIN peers : p = UuidIndex[new_v4(q)] /\ peers[p].handshake_uuid = new_v4(q)
  BY <1>1 DEF IndexInv, NoStrays
<1>3. p = q
  BY <1>2, UuidsDiffer DEF IndexInv, PeerIndexed
<1> QED
  BY <1>1, <1>2, <1>3

\* The Hello records the address of the peer in both places.
LEMMA IndexHello ==
  ASSUME Ordinary, ServerInv, IndexInv, NEW q \in PeerUids, NEW a \in Addrs, UdpHello(q, a)
  PROVE  IndexInv'
<1>1. UuidIndex[new_v4(q)] = q /\ q \in DOMAIN peers /\ a = sock[q].udp
  BY HelloOf
<1>2. /\ peers' = [peers EXCEPT ![q].udp_socket_addr = a]
      /\ UdpIndex' = Insert(UdpIndex, a, q)
      /\ UNCHANGED <<TcpIndex, UuidIndex, sock>>
  BY <1>1 DEF UdpHello, record_udp_addr, UdpUnchanged, net, TcpIndex, UdpIndex, UuidIndex
<1>3. /\ DOMAIN peers' = DOMAIN peers
      /\ peers'[q].tcp_socket_addr = peers[q].tcp_socket_addr
      /\ peers'[q].handshake_uuid = peers[q].handshake_uuid
      /\ peers'[q].udp_socket_addr = a
      /\ \A r \in DOMAIN peers : r # q => peers'[r] = peers[r]
  <2>1. peers[q] \in Peer
    BY <1>1 DEF ServerInv, BrokerTypes
  <2>2. peers[q] = [tcp_socket_addr |-> peers[q].tcp_socket_addr,
                    udp_socket_addr |-> peers[q].udp_socket_addr,
                    handshake_uuid |-> peers[q].handshake_uuid]
    BY <2>1 DEF Peer
  <2> QED
    BY <1>1, <1>2, <2>2
<1>4. /\ DOMAIN UdpIndex' = DOMAIN UdpIndex \cup {a}
      /\ UdpIndex'[a] = q
      /\ \A x \in DOMAIN UdpIndex : x # a => UdpIndex'[x] = UdpIndex[x]
      /\ IsMapping(UdpIndex')
  BY <1>2 DEF Insert, IsMapping
<1>5. IndexTypes'
  BY <1>2, <1>4 DEF IndexInv, IndexTypes, IsMapping
<1>6. ASSUME NEW r \in DOMAIN peers' PROVE PeerIndexed(r)'
  <2>1. r \in DOMAIN peers /\ PeerIndexed(r)
    BY <1>3, <1>6 DEF IndexInv
  <2>2. CASE r = q
    BY <1>1, <1>2, <1>3, <1>4, <2>1, <2>2 DEF PeerIndexed, Maps
  <2>3. CASE r # q
    <3>1. sock[r].udp # a
      BY <1>1, <2>1, <2>3 DEF IndexInv, AllApart, Apart
    <3> QED
      BY <1>2, <1>3, <1>4, <2>1, <2>3, <3>1 DEF PeerIndexed, Maps
  <2> QED
    BY <2>2, <2>3
<1>7. NoStrays'
  <2>1. ASSUME NEW x \in DOMAIN TcpIndex'
        PROVE  TcpIndex'[x] \in DOMAIN peers' /\ peers'[TcpIndex'[x]].tcp_socket_addr = x
    BY <1>2, <1>3, <2>1 DEF IndexInv, NoStrays
  <2>2. ASSUME NEW x \in DOMAIN UdpIndex'
        PROVE  UdpIndex'[x] \in DOMAIN peers' /\ peers'[UdpIndex'[x]].udp_socket_addr = x
    <3>1. CASE x = a
      BY <1>1, <1>3, <1>4, <3>1
    <3>2. CASE x # a
      <4>1. x \in DOMAIN UdpIndex /\ UdpIndex'[x] = UdpIndex[x]
        BY <1>4, <2>2, <3>2
      <4>2. UdpIndex[x] \in DOMAIN peers /\ peers[UdpIndex[x]].udp_socket_addr = x
        BY <4>1 DEF IndexInv, NoStrays
      <4>3. x # NoAddr
        BY <4>1, ServerActorAssumption DEF IndexInv, IndexTypes
      <4>4. UdpIndex[x] # q
        BY <1>1, <3>2, <4>2, <4>3 DEF IndexInv, PeerIndexed
      <4> QED
        BY <1>3, <4>1, <4>2, <4>4
    <3> QED
      BY <3>1, <3>2
  <2>3. ASSUME NEW x \in DOMAIN UuidIndex'
        PROVE  UuidIndex'[x] \in DOMAIN peers' /\ peers'[UuidIndex'[x]].handshake_uuid = x
    BY <1>2, <1>3, <2>3 DEF IndexInv, NoStrays
  <2> QED
    BY <2>1, <2>2, <2>3 DEF NoStrays
<1>8. AllApart'
  BY <1>2, <1>3 DEF IndexInv, AllApart, Apart
<1> QED
  BY <1>5, <1>6, <1>7, <1>8 DEF IndexInv

\* When the server starts the maps are empty.
LEMMA IndexInit == Init => IndexInv
<1> SUFFICES ASSUME Init PROVE IndexInv
  OBVIOUS
<1>1. /\ DOMAIN peers = {} /\ DOMAIN TcpIndex = {} /\ DOMAIN UdpIndex = {} /\ DOMAIN UuidIndex = {}
      /\ IsMapping(TcpIndex) /\ IsMapping(UdpIndex) /\ IsMapping(UuidIndex)
  BY DEF Init, EmptyMap, TcpIndex, UdpIndex, UuidIndex, IsMapping
<1>2. sock \in [PeerUids -> [tcp : Addrs \cup {NoAddr}, udp : Addrs \cup {NoAddr}]]
  BY DEF Init
<1> QED
  BY <1>1, <1>2 DEF IndexInv, IndexTypes, NoStrays, AllApart

\* A panic drops all four maps.
LEMMA IndexUnwind == IndexInv /\ Unwind => IndexInv'
<1> SUFFICES ASSUME IndexInv, Unwind PROVE IndexInv'
  OBVIOUS
<1>1. /\ DOMAIN peers' = {} /\ DOMAIN TcpIndex' = {} /\ DOMAIN UdpIndex' = {} /\ DOMAIN UuidIndex' = {}
      /\ IsMapping(TcpIndex)' /\ IsMapping(UdpIndex)' /\ IsMapping(UuidIndex)'
  BY DEF Unwind, EmptyMap, TcpIndex, UdpIndex, UuidIndex, IsMapping
<1>2. sock' = sock
  BY DEF Unwind, net
<1> QED
  BY <1>1, <1>2 DEF IndexInv, IndexTypes, NoStrays, AllApart

\* A step that leaves the maps and the sockets alone.
LEMMA IndexStutter == IndexInv /\ UNCHANGED <<index, sock>> => IndexInv'
  BY DEF IndexInv, IndexTypes, NoStrays, AllApart, Apart, PeerIndexed, IsMapping, Maps,
         TcpIndex, UdpIndex, UuidIndex, index

\* Every step of the server preserves the agreement.
LEMMA IndexStep ==
  ASSUME Ordinary
  PROVE  ServerInv /\ IndexInv /\ [Next]_vars => IndexInv'
<1> SUFFICES ASSUME ServerInv, IndexInv, [Next]_vars PROVE IndexInv'
  OBVIOUS
<1>1. ASSUME NEW a \in Addrs, NEW u \in Addrs, handle_new_tcp_connection(a, u) PROVE IndexInv'
  BY <1>1, IndexConnect
<1>2. ASSUME NEW p \in DOMAIN peers, NEW r \in DisconnectReason, Drops(p, r) PROVE IndexInv'
  BY <1>2, IndexDrop DEF Drops
<1>3. ASSUME NEW q \in PeerUids, NEW a \in Addrs, UdpHello(q, a) PROVE IndexInv'
  BY <1>3, IndexHello
<1>4. ASSUME NEW p \in PeerUids, handle_tcp_reader_stream_item(p) PROVE IndexInv'
  BY <1>4, IndexStutter DEF handle_tcp_reader_stream_item, net
<1>5. ASSUME NEW a \in Addrs, UdpApplicationLogic(a) PROVE IndexInv'
  BY <1>5, IndexStutter DEF UdpApplicationLogic, UdpUnchanged, net
<1>6. CASE BrokerFails \/ Quiet
  BY <1>6, IndexStutter DEF BrokerFails, Quiet
<1>7. CASE Unwind
  BY <1>7, IndexUnwind
<1> QED
  BY <1>1, <1>2, <1>3, <1>4, <1>5, <1>6, <1>7, Moves

\* The invariant holds of every behaviour in ordinary circumstances.
THEOREM IndexInvariant == ASSUME Ordinary PROVE Spec => []IndexInv
<1>1. ServerInv /\ IndexInv /\ [Next]_vars => IndexInv'
  BY IndexStep
<1> QED
  BY <1>1, IndexInit, ServerInvariant, PTL DEF Spec

-----------------------------------------------------------------------------
(* What follows from it.                                                   *)

\* The maps hold exactly the keys of the connected peers, whichever handler
\* ran last: handle_new_tcp_connection, the Hello, drop_peer or none
\* (src/src/server/actor.rs:342, 407 and 546).
THEOREM IndexesAreExact == ASSUME Ordinary PROVE Spec => []IndexesExact
<1>1. ASSUME IndexInv PROVE IndexesExact
  <2>1. ASSUME NEW p \in Connected
        PROVE  LET peer == peers[p]
               IN  /\ Insert(TcpIndex, peer.tcp_socket_addr, p) = TcpIndex
                   /\ Insert(UuidIndex, peer.handshake_uuid, p) = UuidIndex
                   /\ peer.udp_socket_addr # NoAddr =>
                         Insert(UdpIndex, peer.udp_socket_addr, p) = UdpIndex
    <3>1. PeerIndexed(p) /\ IsMapping(TcpIndex) /\ IsMapping(UdpIndex) /\ IsMapping(UuidIndex)
      BY <1>1, <2>1 DEF Connected, IndexInv, IndexTypes
    <3> QED
      BY <3>1, InsertAgain DEF PeerIndexed
  <2> QED
    BY <1>1, <2>1 DEF IndexInv, NoStrays, IndexesExact, Connected, TcpIndex, UdpIndex, UuidIndex
<1> QED
  BY <1>1, IndexInvariant, PTL

\* There are finitely many uids.
LEMMA FinitelyMany == ServerInv => IsFiniteSet(DOMAIN peers)
<1>1. 0 \in Int /\ MaxPeers - 1 \in Int
  BY ServerActorAssumption
<1>2. IsFiniteSet(PeerUids)
  BY <1>1, FS_Interval DEF PeerUids
<1>3. ServerInv => DOMAIN peers \in SUBSET PeerUids
  BY DEF ServerInv, ActorTypes
<1> QED
  BY <1>2, <1>3, FS_Subset

\* An injection into a finite set shows that its domain is no larger.
LEMMA NoLarger ==
  ASSUME NEW S, NEW T, IsFiniteSet(T), NEW f \in [S -> T],
         \A x, y \in S : f[x] = f[y] => x = y
  PROVE  IsFiniteSet(S) /\ Cardinality(S) <= Cardinality(T)
<1>1. f \in Injection(S, T)
  BY DEF Injection, IsInjective
<1> QED
  BY <1>1, FS_Injection

\* The assertions of assert_invariants (src/src/server/actor.rs:328), which a
\* debug build evaluates before every turn of the main loop, cannot fail.
THEOREM AssertionsHold == ASSUME Ordinary PROVE Spec => []AssertInvariants
<1>1. ASSUME ServerInv, IndexInv PROVE AssertInvariants
  <2> USE <1>1
  <2>1. IsFiniteSet(DOMAIN peers)
    BY FinitelyMany
  <2>2. IsFiniteSet(DOMAIN TcpIndex) /\ Cardinality(DOMAIN TcpIndex) <= Cardinality(DOMAIN peers)
    <3> DEFINE f == [a \in DOMAIN TcpIndex |-> TcpIndex[a]]
    <3>1. f \in [DOMAIN TcpIndex -> DOMAIN peers]
      BY DEF IndexInv, NoStrays
    <3>2. \A x, y \in DOMAIN TcpIndex : f[x] = f[y] => x = y
      BY DEF IndexInv, NoStrays
    <3> HIDE DEF f
    <3> QED
      BY <2>1, <3>1, <3>2, NoLarger
  <2>3. Cardinality(DOMAIN UdpIndex) <= Cardinality(DOMAIN peers)
    <3> DEFINE f == [a \in DOMAIN UdpIndex |-> UdpIndex[a]]
    <3>1. f \in [DOMAIN UdpIndex -> DOMAIN peers]
      BY DEF IndexInv, NoStrays
    <3>2. \A x, y \in DOMAIN UdpIndex : f[x] = f[y] => x = y
      BY DEF IndexInv, NoStrays
    <3> HIDE DEF f
    <3> QED
      BY <2>1, <3>1, <3>2, NoLarger
  <2>4. Cardinality(DOMAIN UuidIndex) <= Cardinality(DOMAIN peers)
    <3> DEFINE f == [a \in DOMAIN UuidIndex |-> UuidIndex[a]]
    <3>1. f \in [DOMAIN UuidIndex -> DOMAIN peers]
      BY DEF IndexInv, NoStrays
    <3>2. \A x, y \in DOMAIN UuidIndex : f[x] = f[y] => x = y
      BY DEF IndexInv, NoStrays
    <3> HIDE DEF f
    <3> QED
      BY <2>1, <3>1, <3>2, NoLarger
  <2>5. Cardinality(DOMAIN UdpIndex) <= Cardinality(DOMAIN TcpIndex)
    <3> DEFINE f == [a \in DOMAIN UdpIndex |-> sock[UdpIndex[a]].tcp]
    <3>1. ASSUME NEW a \in DOMAIN UdpIndex
          PROVE  /\ UdpIndex[a] \in DOMAIN peers /\ PeerIndexed(UdpIndex[a])
                 /\ peers[UdpIndex[a]].udp_socket_addr = a
      BY <3>1 DEF IndexInv, NoStrays
    <3>2. f \in [DOMAIN UdpIndex -> DOMAIN TcpIndex]
      BY <3>1 DEF PeerIndexed, Maps
    <3>3. ASSUME NEW x \in DOMAIN UdpIndex, NEW y \in DOMAIN UdpIndex, f[x] = f[y] PROVE x = y
      <4>1. TcpIndex[f[x]] = UdpIndex[x] /\ TcpIndex[f[y]] = UdpIndex[y]
        BY <3>1 DEF PeerIndexed, Maps
      <4> QED
        BY <3>1, <3>3, <4>1
    <3> HIDE DEF f
    <3> QED
      BY <2>2, <3>2, <3>3, NoLarger
  <2> QED
    BY <2>2, <2>3, <2>4, <2>5 DEF AssertInvariants, TcpIndex, UdpIndex, UuidIndex
<1> QED
  BY <1>1, ServerInvariant, IndexInvariant, PTL
=============================================================================
