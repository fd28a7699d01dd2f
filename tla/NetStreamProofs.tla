-------------------------- MODULE NetStreamProofs --------------------------
(***************************************************************************)
(* Server and clients together: a client that is told CanSendUdpMessages   *)
(* is one whose datagrams the server attributes to it.                     *)
(*                                                                         *)
(* The broker decides this when it takes the Hello.  The news then passes  *)
(* a channel, the hand and the sink of a write actor, a connection, the    *)
(* channel of a read actor and the client's loop: wherever it is, the      *)
(* broker knows the client's address, or has dropped the client.           *)
(*                                                                         *)
(* And a client that sends on TCP and drops its handle is heard to the     *)
(* end.  Its messages are numbered by the handle; those the server has     *)
(* read, those on the connection, those with the client's write actor and  *)
(* those in the handle's channel continue each other's numbers for as long *)
(* as the server can still read (Flow), so when it reads the end of the    *)
(* stream it has read them all, or its last item was an error.             *)
(*                                                                         *)
(* It follows that the server in the composition is a ServerActor.         *)
(***************************************************************************)
EXTENDS NetStream, ServerQueueProofs, ServerLifeProofs

AckName == "UdpHandshakeAcknowledged"

\* The broker has heard the Hello of p, or has let p go since.
Known(p) == p < next_peer_uid /\ (p \in DOMAIN peers => peers[p].udp_socket_addr # NoAddr)

\* The acknowledgement among operations, among items, on the connection, among
\* what the client's reader has read, and among the client's events.
IsAck(m) == m.op \in {"Send", "Feed"} /\ m.item.msg = AckName
AckOp(s) == \E i \in 1 .. Len(s) : IsAck(s[i])
AckItem(s) == \E i \in 1 .. Len(s) : s[i].msg = AckName
AckRead(s) == \E i \in 1 .. Len(s) : s[i].kind = AckName
AckTold(s) == \E i \in 1 .. Len(s) : s[i] = C!CanSendUdpMessages

Names == {x.msg : x \in WriteItems}

PathTypes ==
    /\ wHand \in [AllWriters -> Seq(W!ActorMessage)]
    /\ wSink \in [AllWriters -> Seq(WriteItems)]
    /\ down \in [PeerUids -> Seq(Names)]
    /\ crTx \in [C!Sockets -> Seq(C!ReadItems)]
    /\ item \in [PeerUids -> Seq(C!ReadItems)]
    /\ cEvents \in [PeerUids -> Seq(C!Event)]
    /\ toClients \subseteq WriteItems

\* The acknowledgement is somewhere on its way to the client's application.
Underway(p) ==
    \/ AckOp(wMsgs[p]) \/ AckOp(wHand[p]) \/ AckItem(wSink[p])
    \/ In(AckName, down[p])
    \/ AckRead(crTx[tcp(p)])
    \/ AckTold(cEvents[p])

UnderwayKnown == \A p \in PeerUids : Underway(p) => Known(p)

NetInv == ServerInv /\ IndexInv /\ PathTypes /\ UnderwayKnown

-----------------------------------------------------------------------------
(* What the composition does with the server.                              *)

\* A Hello is from the address of a connected client.
LEMMA HelloFrom ==
  ASSUME Ordinary, IndexInv, NEW q \in PeerUids, NEW a, UdpHello(q, a)
  PROVE  a \in Addrs
<1>1. new_v4(q) \in DOMAIN UuidIndex /\ a = sock[q].udp
  BY DEF UdpHello, UuidIndex, Ordinary
<1>2. PICK p \in DOMAIN peers : p = UuidIndex[new_v4(q)] /\ peers[p].handshake_uuid = new_v4(q)
  BY <1>1 DEF IndexInv, NoStrays
<1>3. p = q
  BY <1>2, UuidsDiffer DEF IndexInv, PeerIndexed
<1> QED
  BY <1>1, <1>2, <1>3 DEF IndexInv, PeerIndexed

ServerStep == [Next]_vars \/ \E p \in PeerUids : ServerReads(p)

\* Every step of the composition is one of the server alone, except that the
\* messages read are the client's (src/src/server/actor.rs:180).
LEMMA ServerSteps ==
  ASSUME Ordinary, IndexInv, [NetNext]_netVars
  PROVE  ServerStep
<1> USE DEF ServerStep
<1>1. CASE UNCHANGED netVars
  BY <1>1 DEF netVars
<1>2. CASE Connect
  BY <1>2 DEF Connect, Next
<1>3. CASE UdpWriterLocal \/ ServerSendsDatagram
  BY <1>3 DEF UdpWriterLocal, ServerSendsDatagram, Next, WriterSteps
<1>4. CASE MessageArrives
  BY <1>4 DEF MessageArrives, UdpApplicationLogic, Next, IndexInv, IndexTypes, UdpIndex
<1>5. CASE LoseDatagram
  BY <1>5 DEF LoseDatagram
<1>6. ASSUME NEW p \in PeerUids, ClientApp(p) \/ ResetConnection(p) PROVE UNCHANGED vars
  BY <1>6 DEF ClientApp, ResetConnection
<1>7. ASSUME NEW p \in PeerUids, Progress(p)
      PROVE  [Next]_vars \/ ServerReads(p)
  <2>1. CASE ServerLocal(p)
    BY <2>1 DEF ServerLocal, Next
  <2>2. CASE ServerReads(p)
    BY <2>2
  <2>3. CASE ServerSeesEnd(p)
    BY <2>3 DEF ServerSeesEnd, Next
  <2>4. CASE ServerWrites(p)
    BY <2>4 DEF ServerWrites, Next, WriterSteps
  <2>5. CASE HelloArrives(p)
    BY <2>5, HelloFrom DEF HelloArrives, Next
  <2>6. CASE \/ ClientLoop(p) \/ ClientReads(p) \/ ClientSeesEnd(p) \/ ClientWrites(p)
             \/ ClientSendsDatagram(p) \/ DatagramArrives(p)
             \/ \E s \in C!Protocols : ClientTask(<<p, s>>)
    BY <2>6 DEF ClientLoop, ClientReads, ClientSeesEnd, ClientWrites, ClientSendsDatagram,
                DatagramArrives, ClientTask
  <2> QED
    BY <1>7, <2>1, <2>2, <2>3, <2>4, <2>5, <2>6 DEF Progress
<1> QED
  BY <1>1, <1>2, <1>3, <1>4, <1>5, <1>6, <1>7 DEF NetNext


\* The invariants of the server hold of the server in the composition.
LEMMA ServerKeeps ==
  ASSUME Ordinary, ServerInv, IndexInv, ServerStep
  PROVE  ServerInv' /\ IndexInv'
<1>1. CASE [Next]_vars
  BY <1>1, InvStep, IndexStep
<1>2. ASSUME NEW p \in PeerUids, NEW n, Reads(p, "Message", n) PROVE ServerInv' /\ IndexInv'
  <2>1. UNCHANGED <<index, sock>>
    BY <1>2 DEF Reads, BrokerUnchanged
  <2>2. ServerInv'
    BY <1>2, InvReader DEF Reads, BrokerUnchanged, index, wTask, wLink
  <2> QED
    BY <2>1, <2>2, IndexStutter
<1> QED
  BY <1>1, <1>2 DEF ServerStep, ServerReads

\* A client that is known stays known until it is dropped: only
\* handle_new_tcp_connection enters a peer, under a new uid, and nothing but
\* drop_peer forgets an address (src/src/server/actor.rs:407 and 546).
LEMMA KnownStays ==
  ASSUME Ordinary, ServerInv, IndexInv, ServerStep, NEW p \in PeerUids, Known(p)
  PROVE  Known(p)'
<1>0. p \in Nat /\ next_peer_uid \in Nat
  BY ServerActorAssumption DEF PeerUids, ServerInv, ActorTypes
<1>1. ASSUME NEW q \in PeerUids, NEW n, Reads(q, "Message", n) PROVE Known(p)'
  BY <1>1 DEF Reads, BrokerUnchanged, index, Known
<1>2. ASSUME NEW a \in Addrs, NEW u \in Addrs, handle_new_tcp_connection(a, u) PROVE Known(p)'
  <2>1. /\ next_peer_uid' = next_peer_uid + 1
        /\ \E r : peers' = Insert(peers, next_peer_uid, r)
    BY <1>2 DEF handle_new_tcp_connection
  <2>2. p # next_peer_uid /\ p < next_peer_uid'
    BY <1>0, <2>1 DEF Known
  <2>3. p \in DOMAIN peers' => p \in DOMAIN peers /\ peers'[p] = peers[p]
    BY <2>1, <2>2 DEF Insert
  <2> QED
    BY <2>2, <2>3 DEF Known
<1>3. ASSUME NEW q \in PeerUids, NEW a \in Addrs, UdpHello(q, a) PROVE Known(p)'
  <2>1. UuidIndex[new_v4(q)] = q /\ q \in DOMAIN peers /\ peers[q] \in Peer
    BY <1>3, HelloOf DEF ServerInv, BrokerTypes
  <2>2. peers' = [peers EXCEPT ![q].udp_socket_addr = a] /\ next_peer_uid' = next_peer_uid
    BY <1>3, <2>1 DEF UdpHello, record_udp_addr, UuidIndex, UdpUnchanged
  <2>3. peers'[q].udp_socket_addr # NoAddr
    BY <2>1, <2>2, ServerActorAssumption DEF Peer
  <2>4. DOMAIN peers' = DOMAIN peers /\ \A r \in DOMAIN peers : r # q => peers'[r] = peers[r]
    BY <2>1, <2>2
  <2> QED
    BY <2>2, <2>3, <2>4 DEF Known
<1>4. ASSUME \/ \E q \in DOMAIN peers, r \in DisconnectReason : Drops(q, r)
             \/ \E q \in PeerUids : handle_tcp_reader_stream_item(q)
             \/ \E a \in Addrs : UdpApplicationLogic(a)
             \/ BrokerFails \/ Unwind \/ Quiet
      PROVE  Known(p)'
  <2>1. /\ next_peer_uid' = next_peer_uid
        /\ peers' = peers \/ peers' = EmptyMap \/ \E q \in DOMAIN peers : peers' = Remove(peers, q)
    BY <1>4 DEF Drops, forget_peer, handle_tcp_reader_stream_item, UdpApplicationLogic, UdpUnchanged,
                BrokerFails, Unwind, Quiet, index
  <2>2. p \in DOMAIN peers' => p \in DOMAIN peers /\ peers'[p] = peers[p]
    BY <2>1 DEF EmptyMap, Remove
  <2> QED
    BY <2>1, <2>2 DEF Known
<1> QED
  BY <1>1, <1>2, <1>3, <1>4, Moves DEF ServerStep, ServerReads

\* An acknowledgement that a step puts in a channel is for a client that is
\* known from then on (src/src/server/actor.rs:546-552).
LEMMA AckQueued ==
  ASSUME Ordinary, ServerInv, IndexInv, ServerStep, NEW p \in PeerUids, AckOp(wMsgs'[p])
  PROVE  AckOp(wMsgs[p]) \/ Known(p)'
<1>1. ASSUME NEW q \in PeerUids, NEW n, Reads(q, "Message", n) PROVE wMsgs' = wMsgs
  BY <1>1 DEF Reads, wLink
<1>2. PICK i \in 1 .. Len(wMsgs'[p]) : IsAck(wMsgs'[p][i])
  BY DEF AckOp
<1>3. PICK m : m = wMsgs'[p][i] /\ IsAck(m) /\ In(m, wMsgs'[p])
  BY <1>2 DEF In
<1>4. p \in AllWriters /\ p # UdpWriter
  BY UdpWriterApart DEF AllWriters
<1>5. m \notin TcpMessages
  BY <1>3 DEF IsAck, TcpMessages, W!Send, W!Shutdown, AckName
<1>6. In(m, wMsgs[p]) => AckOp(wMsgs[p])
  BY <1>3 DEF In, AckOp
<1>7. ASSUME NEW a \in Addrs, NEW u \in Addrs, handle_new_tcp_connection(a, u) PROVE In(m, wMsgs[p])
  BY <1>3, <1>4, <1>5, <1>7, QueuedByConnect
<1>8. ASSUME NEW q \in PeerUids, NEW a \in Addrs, UdpHello(q, a), p = UuidIndex[new_v4(q)] PROVE Known(p)'
  <2>1. p = q /\ p \in DOMAIN peers /\ peers[p] \in Peer
    BY <1>8, HelloOf DEF ServerInv, BrokerTypes
  <2>2. peers' = [peers EXCEPT ![p].udp_socket_addr = a] /\ next_peer_uid' = next_peer_uid
    BY <1>8, <2>1 DEF UdpHello, record_udp_addr, UuidIndex, UdpUnchanged
  <2>3. p < next_peer_uid
    BY <2>1, ServerActorAssumption DEF ServerInv, Fresh, FreshUid, ActorTypes, PeerUids
  <2>4. peers'[p].udp_socket_addr # NoAddr
    BY <2>1, <2>2, ServerActorAssumption DEF Peer
  <2> QED
    BY <2>2, <2>3, <2>4 DEF Known
<1>9. CASE [Next]_vars
  <2>1. QueuedBy(p, m) \/ \E a, u \in Addrs : handle_new_tcp_connection(a, u)
    BY <1>3, <1>4, <1>9, Queued
  <2> QED
    BY <1>4, <1>5, <1>6, <1>7, <1>8, <2>1 DEF QueuedBy
<1> QED
  BY <1>1, <1>9 DEF ServerStep, ServerReads


-----------------------------------------------------------------------------
(* The write actor and the connection.                                     *)

\* The item that the sink is given comes after what it holds.
LEMMA AckConcat ==
  ASSUME NEW s \in Seq(WriteItems), NEW t \in Seq(WriteItems)
  PROVE  /\ s \o t \in Seq(WriteItems)
         /\ AckItem(s \o t) => AckItem(s) \/ AckItem(t)
<1>1. /\ s \o t \in Seq(WriteItems) /\ Len(s \o t) = Len(s) + Len(t)
      /\ Len(s) \in Nat /\ Len(t) \in Nat
      /\ \A i \in 1 .. Len(s) : (s \o t)[i] = s[i]
      /\ \A i \in 1 .. Len(t) : (s \o t)[Len(s) + i] = t[i]
  OBVIOUS
<1>2. ASSUME NEW i \in 1 .. Len(s \o t), (s \o t)[i].msg = AckName PROVE AckItem(s) \/ AckItem(t)
  <2>1. CASE i <= Len(s)
    BY <1>1, <1>2, <2>1 DEF AckItem
  <2>2. CASE ~(i <= Len(s))
    <3>1. i - Len(s) \in 1 .. Len(t) /\ i = Len(s) + (i - Len(s))
      BY <1>1, <2>2
    <3>2. t[i - Len(s)].msg = AckName
      BY <1>1, <1>2, <3>1
    <3> QED
      BY <3>1, <3>2 DEF AckItem
  <2> QED
    BY <2>1, <2>2
<1> QED
  BY <1>1, <1>2 DEF AckItem

\* What stays in the sink was in it.
LEMMA AckRest ==
  ASSUME NEW s \in Seq(WriteItems), NEW n \in 0 .. Len(s)
  PROVE  /\ SubSeq(s, n + 1, Len(s)) \in Seq(WriteItems)
         /\ AckItem(SubSeq(s, n + 1, Len(s))) => AckItem(s)
<1> DEFINE t == SubSeq(s, n + 1, Len(s))
<1>1. /\ t \in Seq(WriteItems) /\ Len(t) = Len(s) - n /\ Len(s) \in Nat
      /\ \A i \in 1 .. Len(s) - n : t[i] = s[n + i]
  <2>1. Len(s) \in Nat /\ n \in Nat /\ n <= Len(s)
    OBVIOUS
  <2> QED
    BY <2>1
<1> HIDE DEF t
<1>2. ASSUME NEW i \in 1 .. Len(t), t[i].msg = AckName PROVE AckItem(s)
  <2>1. n + i \in 1 .. Len(s) /\ s[n + i].msg = AckName
    BY <1>1, <1>2
  <2> QED
    BY <2>1 DEF AckItem
<1> QED
  BY <1>1, <1>2 DEF AckItem, t

\* What is written was in the sink or in hand.
LEMMA AckSent ==
  ASSUME NEW d \in Seq(Names), NEW s \in Seq(WriteItems), NEW n \in 0 .. Len(s)
  PROVE  /\ d \o [i \in 1 .. n |-> s[i].msg] \in Seq(Names)
         /\ In(AckName, d \o [i \in 1 .. n |-> s[i].msg]) => In(AckName, d) \/ AckItem(s)
<1> DEFINE t == [i \in 1 .. n |-> s[i].msg]
<1>1. /\ n \in Nat /\ Len(s) \in Nat
      /\ \A i \in 1 .. n : i \in 1 .. Len(s) /\ s[i] \in WriteItems /\ t[i] = s[i].msg
  OBVIOUS
<1>2. \A i \in 1 .. n : t[i] \in Names
  BY <1>1 DEF Names
<1>3. t \in Seq(Names) /\ Len(t) = n
  BY <1>1, <1>2
<1> HIDE DEF t
<1>4. /\ d \o t \in Seq(Names) /\ Len(d \o t) = Len(d) + Len(t) /\ Len(d) \in Nat
      /\ \A i \in 1 .. Len(d) : (d \o t)[i] = d[i]
      /\ \A i \in 1 .. Len(t) : (d \o t)[Len(d) + i] = t[i]
  BY <1>3
<1>5. ASSUME NEW i \in 1 .. Len(d \o t), (d \o t)[i] = AckName PROVE In(AckName, d) \/ AckItem(s)
  <2>1. CASE i <= Len(d)
    BY <1>4, <1>5, <2>1 DEF In
  <2>2. CASE ~(i <= Len(d))
    <3>1. i - Len(d) \in 1 .. n /\ i = Len(d) + (i - Len(d))
      BY <1>1, <1>3, <1>4, <2>2
    <3>2. s[i - Len(d)].msg = AckName /\ i - Len(d) \in 1 .. Len(s)
      BY <1>1, <1>3, <1>4, <1>5, <3>1
    <3> QED
      BY <3>2 DEF AckItem
  <2> QED
    BY <2>1, <2>2
<1> QED
  BY <1>4, <1>5 DEF In, t

\* What is about to be written was in the sink or is the item in hand.
LEMMA AckPending ==
  ASSUME PathTypes, NEW w \in AllWriters
  PROVE  /\ W!Pending(w) \in Seq(WriteItems)
         /\ AckItem(W!Pending(w)) => AckItem(wSink[w]) \/ AckOp(wHand[w])
<1>1. PICK s \in Seq(WriteItems), h \in Seq(W!ActorMessage) : s = wSink[w] /\ h = wHand[w]
  BY DEF PathTypes
<1>2. CASE h = <<>>
  BY <1>1, <1>2 DEF W!Pending
<1>3. CASE h # <<>>
  <2>1. PICK m \in W!ActorMessage : m = h[1] /\ m = Head(h) /\ 1 \in 1 .. Len(h)
    BY <1>3
  <2>2. W!Pending(w) = s \o W!Payload(m)
    BY <1>1, <1>3, <2>1 DEF W!Pending
  <2>3. CASE m.op \in {"Send", "Feed"}
    <3>1. m.item \in WriteItems
      BY <2>3 DEF W!ActorMessage
    <3>2. W!Payload(m) = <<m.item>>
      BY <2>3 DEF W!Payload
    <3>3. /\ <<m.item>> \in Seq(WriteItems)
          /\ AckItem(<<m.item>>) => m.item.msg = AckName
      BY <3>1 DEF AckItem
    <3>4. m.item.msg = AckName => AckOp(h)
      BY <2>1, <2>3 DEF AckOp, IsAck
    <3>5. PICK t \in Seq(WriteItems) : t = <<m.item>> /\ (AckItem(t) => m.item.msg = AckName)
      BY <3>3
    <3>6. W!Pending(w) = s \o t
      BY <2>2, <3>2, <3>5
    <3>7. s \o t \in Seq(WriteItems) /\ (AckItem(s \o t) => AckItem(s) \/ AckItem(t))
      BY AckConcat
    <3> QED
      BY <1>1, <3>4, <3>5, <3>6, <3>7, Zenon
  <2>4. CASE m.op \notin {"Send", "Feed"}
    <3>1. W!Payload(m) = <<>>
      BY <2>4 DEF W!Payload
    <3>2. <<>> \in Seq(WriteItems) /\ ~AckItem(<<>>)
      BY DEF AckItem
    <3> QED
      BY <1>1, <2>2, <3>1, <3>2, AckConcat
  <2> QED
    BY <2>3, <2>4
<1> QED
  BY <1>2, <1>3

\* An acknowledgement in hand was first in the channel.
LEMMA AckHead ==
  ASSUME NEW s \in Seq(W!ActorMessage), s # <<>>
  PROVE  /\ <<Head(s)>> \in Seq(W!ActorMessage)
         /\ AckOp(<<Head(s)>>) => AckOp(s)
<1>1. PICK m \in W!ActorMessage : m = Head(s) /\ m = s[1] /\ 1 \in 1 .. Len(s)
  OBVIOUS
<1>2. AckOp(<<m>>) => IsAck(m)
  BY DEF AckOp
<1> QED
  BY <1>1, <1>2 DEF AckOp

\* What a write actor has in hand comes from its channel, and what its sink
\* holds comes from its hand (src/src/actors/write_actor.rs: the loop).
LEMMA SinkKeeps ==
  ASSUME ServerInv, PathTypes, ServerStep
  PROVE  /\ wHand' \in [AllWriters -> Seq(W!ActorMessage)]
         /\ wSink' \in [AllWriters -> Seq(WriteItems)]
         /\ \A p \in AllWriters :
               /\ AckOp(wHand'[p]) => AckOp(wHand[p]) \/ AckOp(wMsgs[p])
               /\ AckItem(wSink'[p]) => AckItem(wSink[p]) \/ AckOp(wHand[p])
<1> DEFINE Goal ==
      /\ wHand' \in [AllWriters -> Seq(W!ActorMessage)]
      /\ wSink' \in [AllWriters -> Seq(WriteItems)]
      /\ \A p \in AllWriters :
            /\ AckOp(wHand'[p]) => AckOp(wHand[p]) \/ AckOp(wMsgs[p])
            /\ AckItem(wSink'[p]) => AckItem(wSink[p]) \/ AckOp(wHand[p])
<1>0. /\ wHand \in [AllWriters -> Seq(W!ActorMessage)] /\ wSink \in [AllWriters -> Seq(WriteItems)]
      /\ wMsgs \in [AllWriters -> Seq(W!ActorMessage)]
  BY DEF PathTypes, ServerInv, ActorTypes
<1>1. CASE UNCHANGED <<wHand, wSink>>
  BY <1>0, <1>1
<1>e. /\ <<>> \in Seq(W!ActorMessage) /\ <<>> \in Seq(WriteItems)
      /\ ~AckOp(<<>>) /\ ~AckItem(<<>>)
  BY DEF AckOp, AckItem
<1>2. ASSUME NEW w \in AllWriters, WriterRuns(w) \/ WriterPanics(w) PROVE Goal
  <2>1. CASE W!TakeMessage(w)
    <3>1. wMsgs[w] # <<>> /\ wHand' = [wHand EXCEPT ![w] = <<Head(wMsgs[w])>>] /\ wSink' = wSink
      BY <2>1 DEF W!TakeMessage
    <3>2. /\ <<Head(wMsgs[w])>> \in Seq(W!ActorMessage)
          /\ AckOp(<<Head(wMsgs[w])>>) => AckOp(wMsgs[w])
      BY <1>0, <3>1, AckHead
    <3>3. /\ wHand' \in [AllWriters -> Seq(W!ActorMessage)]
          /\ \A p \in AllWriters : wHand'[p] = IF p = w THEN <<Head(wMsgs[w])>> ELSE wHand[p]
      BY <1>0, <3>1, <3>2
    <3> QED
      BY <1>0, <3>1, <3>2, <3>3
  <2>2. CASE W!TakeShutdown(w) \/ W!AllHandlesDropped(w)
    <3>1. UNCHANGED <<wHand, wSink>>
      BY <2>2 DEF W!TakeShutdown, W!AllHandlesDropped
    <3> QED
      BY <1>0, <3>1
  <2>3. CASE W!WriterPanics(w)
    <3>1. wHand' = [wHand EXCEPT ![w] = <<>>] /\ wSink' = [wSink EXCEPT ![w] = <<>>]
      BY <2>3 DEF W!WriterPanics
    <3>2. /\ \A p \in AllWriters : wHand'[p] = IF p = w THEN <<>> ELSE wHand[p]
          /\ \A p \in AllWriters : wSink'[p] = IF p = w THEN <<>> ELSE wSink[p]
      BY <1>0, <3>1
    <3> QED
      BY <1>0, <1>e, <3>1, <3>2
  <2> QED
    BY <1>2, <2>1, <2>2, <2>3 DEF WriterRuns, WriterPanics, W!WriterProgress
<1>3. ASSUME NEW w \in AllWriters, WriterSteps(w) PROVE Goal
  <2>1. PICK n \in 0 .. Len(W!Pending(w)) : SinkDone(w, n) \/ SinkFails(w, n) \/ CloseSink(w, n)
    BY <1>3 DEF WriterSteps
  <2>2. PICK t : t = W!Rest(w, n)
    OBVIOUS
  <2>3. /\ wHand' = wHand \/ wHand' = [wHand EXCEPT ![w] = <<>>]
        /\ wSink' = [wSink EXCEPT ![w] = t] \/ wSink' = [wSink EXCEPT ![w] = <<>>]
    BY <2>1, <2>2 DEF SinkDone, SinkFails, CloseSink, W!SinkDone, W!SinkFails, W!CloseSink
  <2>4. t \in Seq(WriteItems) /\ (AckItem(t) => AckItem(wSink[w]) \/ AckOp(wHand[w]))
    <3>1. PICK s \in Seq(WriteItems) :
            s = W!Pending(w) /\ (AckItem(s) => AckItem(wSink[w]) \/ AckOp(wHand[w]))
      BY AckPending
    <3>2. t = SubSeq(s, n + 1, Len(s)) /\ n \in 0 .. Len(s)
      BY <2>1, <2>2, <3>1 DEF W!Rest
    <3> QED
      BY <3>1, <3>2, AckRest
  <2>5. PICK v \in {t, <<>>} : wSink' = [wSink EXCEPT ![w] = v]
    BY <2>3
  <2>6. /\ \A p \in AllWriters : wHand'[p] = wHand[p] \/ wHand'[p] = <<>>
        /\ \A p \in AllWriters : wSink'[p] = IF p = w THEN v ELSE wSink[p]
        /\ wHand' \in [AllWriters -> Seq(W!ActorMessage)]
        /\ wSink' \in [AllWriters -> Seq(WriteItems)]
    BY <1>0, <1>e, <2>3, <2>4, <2>5
  <2>7. AckItem(v) => AckItem(wSink[w]) \/ AckOp(wHand[w])
    BY <1>e, <2>4, <2>5
  <2> QED
    BY <1>e, <2>6, <2>7
<1>4. ASSUME NEW p \in PeerUids, ServerReads(p) PROVE UNCHANGED <<wHand, wSink>>
  BY <1>4 DEF ServerReads, Reads, wTask
<1> QED
  BY <1>1, <1>2, <1>3, <1>4, SinkMoves DEF ServerStep


-----------------------------------------------------------------------------
(* The client.                                                             *)

ClientTypes ==
    /\ crTx \in [C!Sockets -> Seq(C!ReadItems)]
    /\ item \in [PeerUids -> Seq(C!ReadItems)]
    /\ cEvents \in [PeerUids -> Seq(C!Event)]

\* The client takes what a reader has read, and learns of an acknowledgement
\* only from one; it reports no CanSendUdpMessages otherwise.
FromReader ==
    /\ \A p \in PeerUids : AckRead(crTx'[tcp(p)]) => AckRead(crTx[tcp(p)])
    /\ \A p \in PeerUids : AckTold(cEvents'[p]) => AckTold(cEvents[p]) \/ AckRead(crTx[tcp(p)])

\* The sequences that the client handles, with one element more or less.
LEMMA ClientSequences ==
  /\ \A s \in Seq(C!ReadItems) : s # <<>> =>
        /\ Tail(s) \in Seq(C!ReadItems) /\ Head(s) \in C!ReadItems
        /\ AckRead(Tail(s)) => AckRead(s)
        /\ Head(s).kind = AckName => AckRead(s)
  /\ \A s \in Seq(C!ReadItems), x \in C!ReadItems :
        /\ Append(s, x) \in Seq(C!ReadItems)
        /\ AckRead(Append(s, x)) => AckRead(s) \/ x.kind = AckName
  /\ \A s \in Seq(C!Event), e \in C!Event :
        /\ Append(s, e) \in Seq(C!Event)
        /\ AckTold(Append(s, e)) => AckTold(s) \/ e = C!CanSendUdpMessages
<1>1. ASSUME NEW s \in Seq(C!ReadItems), s # <<>>
      PROVE  /\ Tail(s) \in Seq(C!ReadItems) /\ Head(s) \in C!ReadItems
             /\ AckRead(Tail(s)) => AckRead(s)
             /\ Head(s).kind = AckName => AckRead(s)
  <2>1. /\ Tail(s) \in Seq(C!ReadItems) /\ Head(s) \in C!ReadItems /\ Head(s) = s[1]
        /\ 1 \in 1 .. Len(s) /\ Len(s) \in Nat /\ Len(Tail(s)) = Len(s) - 1
        /\ \A i \in 1 .. Len(s) - 1 : Tail(s)[i] = s[i + 1] /\ i + 1 \in 1 .. Len(s)
    BY <1>1
  <2> QED
    BY <2>1 DEF AckRead
<1>2. ASSUME NEW S, NEW s \in Seq(S), NEW x \in S
      PROVE  /\ Append(s, x) \in Seq(S)
             /\ \A i \in 1 .. Len(Append(s, x)) :
                   Append(s, x)[i] = x \/ (i \in 1 .. Len(s) /\ Append(s, x)[i] = s[i])
  <2>1. /\ Append(s, x) \in Seq(S) /\ Len(Append(s, x)) = Len(s) + 1 /\ Len(s) \in Nat
        /\ Append(s, x)[Len(s) + 1] = x
        /\ \A i \in 1 .. Len(s) : Append(s, x)[i] = s[i]
    OBVIOUS
  <2> QED
    BY <2>1
<1>3. ASSUME NEW s \in Seq(C!ReadItems), NEW x \in C!ReadItems
      PROVE  /\ Append(s, x) \in Seq(C!ReadItems)
             /\ AckRead(Append(s, x)) => AckRead(s) \/ x.kind = AckName
  <2>1. /\ Append(s, x) \in Seq(C!ReadItems)
        /\ \A i \in 1 .. Len(Append(s, x)) :
              Append(s, x)[i] = x \/ (i \in 1 .. Len(s) /\ Append(s, x)[i] = s[i])
    BY <1>2
  <2>2. PICK t : t = Append(s, x)
    OBVIOUS
  <2>3. AckRead(t) => AckRead(s) \/ x.kind = AckName
    BY <2>1, <2>2 DEF AckRead
  <2> QED
    BY <2>1, <2>2, <2>3
<1>4. ASSUME NEW s \in Seq(C!Event), NEW e \in C!Event
      PROVE  /\ Append(s, e) \in Seq(C!Event)
             /\ AckTold(Append(s, e)) => AckTold(s) \/ e = C!CanSendUdpMessages
  <2>1. /\ Append(s, e) \in Seq(C!Event)
        /\ \A i \in 1 .. Len(Append(s, e)) :
              Append(s, e)[i] = e \/ (i \in 1 .. Len(s) /\ Append(s, e)[i] = s[i])
    BY <1>2
  <2>2. PICK t : t = Append(s, e)
    OBVIOUS
  <2>3. AckTold(t) => AckTold(s) \/ e = C!CanSendUdpMessages
    BY <2>1, <2>2 DEF AckTold
  <2> QED
    BY <2>1, <2>2, <2>3
<1> QED
  BY <1>1, <1>3, <1>4

\* The events of a client; only one of them is CanSendUdpMessages.
LEMMA ClientEvents ==
  /\ C!CanSendUdpMessages \in C!Event /\ C!CanReceiveUdpMessages \in C!Event
  /\ C!CanReceiveUdpMessages # C!CanSendUdpMessages
  /\ \A n \in Nat : /\ C!TcpMessage(n) \in C!Event /\ C!TcpMessage(n) # C!CanSendUdpMessages
                    /\ C!UdpMessage(n) \in C!Event /\ C!UdpMessage(n) # C!CanSendUdpMessages
<1>1. /\ C!CanSendUdpMessages.ev = "CanSendUdpMessages"
      /\ C!CanReceiveUdpMessages.ev = "CanReceiveUdpMessages"
      /\ \A n : C!TcpMessage(n).ev = "TcpMessage" /\ C!UdpMessage(n).ev = "UdpMessage"
  BY DEF C!CanSendUdpMessages, C!CanReceiveUdpMessages, C!TcpMessage, C!UdpMessage
<1>2. /\ C!CanSendUdpMessages \in C!Event /\ C!CanReceiveUdpMessages \in C!Event
      /\ \A n \in Nat : C!TcpMessage(n) \in C!Event /\ C!UdpMessage(n) \in C!Event
  BY DEF C!Event, C!TcpMessage, C!UdpMessage
<1> QED
  BY <1>1, <1>2

\* A client that takes an item from the channel of a reader.
LEMMA TakesItem ==
  ASSUME ClientTypes, NEW p \in PeerUids, NEW s \in C!Protocols, crTx[<<p, s>>] # <<>>,
         crTx' = [crTx EXCEPT ![<<p, s>>] = Tail(@)],
         NEW e \in C!Event,
         cEvents' = cEvents \/ cEvents' = [cEvents EXCEPT ![p] = Append(@, e)],
         e = C!CanSendUdpMessages => s = "tcp" /\ Head(crTx[tcp(p)]).kind = AckName
  PROVE  /\ crTx' \in [C!Sockets -> Seq(C!ReadItems)]
         /\ cEvents' \in [PeerUids -> Seq(C!Event)]
         /\ FromReader
<1>1. <<p, s>> \in C!Sockets /\ \A q \in PeerUids : tcp(q) \in C!Sockets
  BY DEF C!Sockets, C!Protocols, tcp
<1>2. PICK t \in Seq(C!ReadItems) : t = crTx[<<p, s>>]
  BY <1>1 DEF ClientTypes
<1>3. /\ Tail(t) \in Seq(C!ReadItems) /\ (AckRead(Tail(t)) => AckRead(t))
      /\ Head(t).kind = AckName => AckRead(t)
  BY <1>2, ClientSequences
<1>4. /\ crTx' \in [C!Sockets -> Seq(C!ReadItems)]
      /\ \A a \in C!Sockets : crTx'[a] = IF a = <<p, s>> THEN Tail(t) ELSE crTx[a]
  BY <1>1, <1>2, <1>3 DEF ClientTypes
<1>5. \A q \in PeerUids : AckRead(crTx'[tcp(q)]) => AckRead(crTx[tcp(q)])
  BY <1>1, <1>2, <1>3, <1>4
<1>6. CASE cEvents' = cEvents
  BY <1>4, <1>5, <1>6 DEF FromReader, ClientTypes
<1>7. CASE cEvents' = [cEvents EXCEPT ![p] = Append(@, e)]
  <2>1. PICK es \in Seq(C!Event) : es = cEvents[p]
    BY DEF ClientTypes
  <2>2. Append(es, e) \in Seq(C!Event) /\ (AckTold(Append(es, e)) => AckTold(es) \/ e = C!CanSendUdpMessages)
    BY <2>1, ClientSequences
  <2>3. /\ cEvents' \in [PeerUids -> Seq(C!Event)]
        /\ \A q \in PeerUids : cEvents'[q] = IF q = p THEN Append(es, e) ELSE cEvents[q]
    BY <1>7, <2>1, <2>2 DEF ClientTypes
  <2>4. e = C!CanSendUdpMessages => AckRead(crTx[tcp(p)])
    BY <1>2, <1>3 DEF tcp
  <2> QED
    BY <1>4, <1>5, <2>1, <2>2, <2>3, <2>4 DEF FromReader
<1> QED
  BY <1>6, <1>7

\* A client that deals with a datagram.
LEMMA DealsWithItem ==
  ASSUME ClientTypes, NEW p \in PeerUids, NEW e \in C!Event, e # C!CanSendUdpMessages,
         crTx' = crTx, item' = [item EXCEPT ![p] = <<>>],
         cEvents' = cEvents \/ cEvents' = [cEvents EXCEPT ![p] = Append(@, e)]
  PROVE  ClientTypes' /\ FromReader
<1>1. item' \in [PeerUids -> Seq(C!ReadItems)]
  BY DEF ClientTypes
<1>2. CASE cEvents' = cEvents
  BY <1>1, <1>2 DEF FromReader, ClientTypes
<1>3. CASE cEvents' = [cEvents EXCEPT ![p] = Append(@, e)]
  <2>1. PICK es \in Seq(C!Event) : es = cEvents[p]
    BY DEF ClientTypes
  <2>2. Append(es, e) \in Seq(C!Event) /\ (AckTold(Append(es, e)) => AckTold(es))
    BY <2>1, ClientSequences
  <2>3. /\ cEvents' \in [PeerUids -> Seq(C!Event)]
        /\ \A q \in PeerUids : cEvents'[q] = IF q = p THEN Append(es, e) ELSE cEvents[q]
    BY <1>3, <2>1, <2>2 DEF ClientTypes
  <2> QED
    BY <1>1, <2>1, <2>2, <2>3 DEF FromReader, ClientTypes
<1> QED
  BY <1>2, <1>3

\* A client that leaves drops what its readers have read.
LEMMA LeavesQuietly ==
  ASSUME ClientTypes, NEW p \in PeerUids, NEW how, C!Leave(p, how)
  PROVE  ClientTypes' /\ FromReader
<1>1. /\ crTx' = [a \in C!Sockets |-> IF a[1] = p THEN <<>> ELSE crTx[a]]
      /\ item' = [item EXCEPT ![p] = <<>>] /\ cEvents' = cEvents
  BY DEF C!Leave, C!Both
<1>2. <<>> \in Seq(C!ReadItems) /\ ~AckRead(<<>>)
  BY DEF AckRead
<1>3. crTx' \in [C!Sockets -> Seq(C!ReadItems)] /\ item' \in [PeerUids -> Seq(C!ReadItems)]
  BY <1>1, <1>2 DEF ClientTypes
<1>4. \A q \in PeerUids : crTx'[tcp(q)] = <<>> \/ crTx'[tcp(q)] = crTx[tcp(q)]
  BY <1>1 DEF C!Sockets, C!Protocols, tcp
<1>5. \A q \in PeerUids : AckRead(crTx'[tcp(q)]) => AckRead(crTx[tcp(q)])
  BY <1>2, <1>4, Zenon
<1> QED
  BY <1>1, <1>3, <1>5 DEF FromReader, ClientTypes


\* The arms of the client's main loop (src/src/client/actor.rs:120-210).
LEMMA LoopKeeps ==
  ASSUME ClientTypes, NEW p \in PeerUids, ClientLoop(p)
  PROVE  ClientTypes' /\ FromReader
<1> USE DEF C!state, C!app, C!channels, C!rTask, C!rLink, C!wTask, C!wLink
<1>0. /\ "tcp" \in C!Protocols /\ "udp" \in C!Protocols
      /\ \A s \in C!Protocols : <<p, s>> \in C!Sockets
  BY DEF C!Protocols, C!Sockets
<1>1. ASSUME NEW how, C!Leave(p, how) PROVE ClientTypes' /\ FromReader
  BY <1>1, LeavesQuietly
<1>2. ASSUME UNCHANGED <<crTx, item, cEvents>> PROVE ClientTypes' /\ FromReader
  BY <1>2 DEF ClientTypes, FromReader
<1>3. CASE C!OnMessage(p)
  <2>1. CASE \E s \in C!Protocols : C!ToServer(p, s)
    BY <1>1, <1>2, <2>1 DEF C!ToServer, C!MessageDone
  <2>2. CASE C!GetStatus(p)
    BY <1>2, <2>2 DEF C!GetStatus, C!MessageDone
  <2>3. CASE C!ActorMessagesEnd(p)
    BY <1>1, <2>3 DEF C!ActorMessagesEnd
  <2> QED
    BY <1>3, <2>1, <2>2, <2>3 DEF C!OnMessage
<1>4. ASSUME NEW s \in C!Protocols, C!ReaderHas(p, s), C!Receive(p, s), NEW e \in C!Event,
             cEvents' = cEvents \/ cEvents' = [cEvents EXCEPT ![p] = Append(@, e)],
             e = C!CanSendUdpMessages => s = "tcp" /\ Head(crTx[tcp(p)]).kind = AckName
      PROVE  /\ crTx' \in [C!Sockets -> Seq(C!ReadItems)]
             /\ cEvents' \in [PeerUids -> Seq(C!Event)]
             /\ FromReader
  <2>1. crTx[<<p, s>>] # <<>> /\ crTx' = [crTx EXCEPT ![<<p, s>>] = Tail(@)]
    BY <1>4 DEF C!ReaderHas, C!Receive
  <2> QED
    BY <1>4, <2>1, TakesItem
<1>5. CASE C!OnTcp(p)
  <2>1. CASE C!TcpWelcome(p)
    <3>1. /\ C!ReaderHas(p, "tcp") /\ C!Receive(p, "tcp") /\ cEvents' = cEvents /\ item' = item
      BY <2>1 DEF C!TcpWelcome
    <3>2. FromReader /\ crTx' \in [C!Sockets -> Seq(C!ReadItems)] /\ cEvents' \in [PeerUids -> Seq(C!Event)]
      BY <1>0, <1>4, <3>1, ClientEvents
    <3> QED
      BY <3>1, <3>2 DEF ClientTypes
  <2>2. CASE C!UdpHandshakeAcknowledged(p)
    <3>1. /\ C!ReaderHas(p, "tcp") /\ C!Receive(p, "tcp") /\ item' = item
          /\ \/ cEvents' = cEvents
             \/ cEvents' = [cEvents EXCEPT ![p] = Append(@, C!CanSendUdpMessages)]
          /\ Head(crTx[tcp(p)]).kind = AckName
      BY <2>2 DEF C!UdpHandshakeAcknowledged, C!emit, C!TcpItem, tcp, AckName
    <3>2. FromReader /\ crTx' \in [C!Sockets -> Seq(C!ReadItems)] /\ cEvents' \in [PeerUids -> Seq(C!Event)]
      BY <1>0, <1>4, <3>1, ClientEvents
    <3> QED
      BY <3>1, <3>2 DEF ClientTypes
  <2>3. CASE C!TcpApplicationLogic(p)
    <3>1. CASE cEventReceiver[p]
      <4>1. PICK n : n = C!TcpItem(p).n
        OBVIOUS
      <4>2. /\ C!ReaderHas(p, "tcp") /\ C!Receive(p, "tcp") /\ item' = item
            /\ cEvents' = [cEvents EXCEPT ![p] = Append(@, C!TcpMessage(n))]
        BY <2>3, <3>1, <4>1 DEF C!TcpApplicationLogic, C!emit
      <4>3. n \in Nat
        <5>1. crTx[<<p, "tcp">>] \in Seq(C!ReadItems) /\ crTx[<<p, "tcp">>] # <<>>
          BY <1>0, <4>2 DEF ClientTypes, C!ReaderHas
        <5>2. C!TcpItem(p) \in C!ReadItems
          BY <5>1, ClientSequences DEF C!TcpItem
        <5> QED
          BY <4>1, <5>2 DEF C!ReadItems
      <4>4. FromReader /\ crTx' \in [C!Sockets -> Seq(C!ReadItems)] /\ cEvents' \in [PeerUids -> Seq(C!Event)]
        BY <1>0, <1>4, <4>2, <4>3, ClientEvents
      <4> QED
        BY <4>2, <4>4 DEF ClientTypes
    <3>2. CASE ~cEventReceiver[p]
      BY <1>1, <2>3, <3>2 DEF C!TcpApplicationLogic
    <3> QED
      BY <3>1, <3>2
  <2>4. CASE C!TcpError(p)
    BY <1>1, <2>4 DEF C!TcpError
  <2> QED
    BY <1>5, <2>1, <2>2, <2>3, <2>4 DEF C!OnTcp
<1>6. CASE C!UdpItem(p)
  <2>1. /\ C!ReaderHas(p, "udp") /\ C!Receive(p, "udp")
        /\ item' = [item EXCEPT ![p] = <<Head(crTx[<<p, "udp">>])>>]
        /\ \/ cEvents' = cEvents
           \/ cEvents' = [cEvents EXCEPT ![p] = Append(@, C!CanReceiveUdpMessages)]
    BY <1>6 DEF C!UdpItem, C!emit
  <2>2. FromReader /\ crTx' \in [C!Sockets -> Seq(C!ReadItems)] /\ cEvents' \in [PeerUids -> Seq(C!Event)]
    BY <1>0, <1>4, <2>1, ClientEvents
  <2>3. crTx[<<p, "udp">>] \in Seq(C!ReadItems) /\ crTx[<<p, "udp">>] # <<>>
    BY <1>0, <2>1 DEF ClientTypes, C!ReaderHas
  <2>4. PICK x \in C!ReadItems : x = Head(crTx[<<p, "udp">>])
    BY <2>3, ClientSequences
  <2>5. <<x>> \in Seq(C!ReadItems) /\ item' = [item EXCEPT ![p] = <<x>>]
    BY <2>1, <2>4
  <2>6. item' \in [PeerUids -> Seq(C!ReadItems)]
    BY <2>5 DEF ClientTypes
  <2> QED
    BY <2>2, <2>6 DEF ClientTypes
<1>7. CASE C!OnDatagram(p)
  <2>1. CASE C!UdpWelcome(p) \/ C!UdpHeartbeat(p)
    BY <2>1, DealsWithItem, ClientEvents DEF C!UdpWelcome, C!UdpHeartbeat, C!ItemDone
  <2>2. CASE C!UdpApplicationLogic(p)
    <3>1. CASE cEventReceiver[p]
      <4>1. PICK n : n = Head(item[p]).n
        OBVIOUS
      <4>2. /\ item[p] # <<>> /\ crTx' = crTx /\ item' = [item EXCEPT ![p] = <<>>]
            /\ cEvents' = [cEvents EXCEPT ![p] = Append(@, C!UdpMessage(n))]
        BY <2>2, <3>1, <4>1 DEF C!UdpApplicationLogic, C!emit, C!ItemDone, C!ItemIs
      <4>3. n \in Nat
        <5>1. Head(item[p]) \in C!ReadItems
          BY <4>2, ClientSequences DEF ClientTypes
        <5> QED
          BY <4>1, <5>1 DEF C!ReadItems
      <4> QED
        BY <4>2, <4>3, DealsWithItem, ClientEvents
    <3>2. CASE ~cEventReceiver[p]
      BY <1>1, <2>2, <3>2 DEF C!UdpApplicationLogic
    <3> QED
      BY <3>1, <3>2
  <2>3. CASE C!UdpError(p)
    BY <1>1, <2>3 DEF C!UdpError
  <2> QED
    BY <1>7, <2>1, <2>2, <2>3 DEF C!OnDatagram
<1> QED
  BY <1>3, <1>5, <1>6, <1>7 DEF ClientLoop

\* A reader of the client forwards an item.
LEMMA ReadKeeps ==
  ASSUME ClientTypes, NEW a \in C!Sockets, NEW x \in C!ReadItems, C!Reads(a, x)
  PROVE  /\ ClientTypes' /\ cEvents' = cEvents
         /\ \A b \in C!Sockets : AckRead(crTx'[b]) => AckRead(crTx[b]) \/ (b = a /\ x.kind = AckName)
<1>1. /\ crTx' = crTx \/ crTx' = [crTx EXCEPT ![a] = Append(@, x)]
      /\ UNCHANGED <<item, cEvents>>
  BY DEF C!Reads, C!R!ForwardItem, C!ReaderUnchanged, C!LoopUnchanged, C!state, C!channels
<1>2. PICK s \in Seq(C!ReadItems) : s = crTx[a]
  BY DEF ClientTypes
<1>3. Append(s, x) \in Seq(C!ReadItems) /\ (AckRead(Append(s, x)) => AckRead(s) \/ x.kind = AckName)
  BY <1>2, ClientSequences
<1>4. /\ crTx' \in [C!Sockets -> Seq(C!ReadItems)]
      /\ \A b \in C!Sockets : crTx'[b] = crTx[b] \/ (b = a /\ crTx'[b] = Append(s, x))
  BY <1>1, <1>2, <1>3 DEF ClientTypes
<1>5. ASSUME NEW b \in C!Sockets, AckRead(crTx'[b])
      PROVE  AckRead(crTx[b]) \/ (b = a /\ x.kind = AckName)
  <2>1. CASE crTx'[b] = crTx[b]
    BY <1>5, <2>1, Zenon
  <2>2. CASE b = a /\ crTx'[b] = Append(s, x)
    <3>1. AckRead(Append(s, x))
      BY <1>5, <2>2, Zenon
    <3> QED
      BY <1>2, <1>3, <2>2, <3>1, Zenon
  <2> QED
    BY <1>4, <2>1, <2>2
<1> QED
  BY <1>1, <1>4, <1>5 DEF ClientTypes


-----------------------------------------------------------------------------
(* The way of the acknowledgement.                                         *)

\* Nothing but an acknowledgement becomes one, on either side of the network.
Downstream ==
    /\ down' \in [PeerUids -> Seq(Names)] /\ toClients' \subseteq WriteItems /\ ClientTypes'
    /\ \A p \in PeerUids :
          /\ In(AckName, down'[p]) => In(AckName, down[p]) \/ AckItem(wSink[p]) \/ AckOp(wHand[p])
          /\ AckRead(crTx'[tcp(p)]) => AckRead(crTx[tcp(p)]) \/ In(AckName, down[p])
          /\ AckTold(cEvents'[p]) => AckTold(cEvents[p]) \/ AckRead(crTx[tcp(p)])

\* What the server wrote is what the client can read.
LEMMA NamesAreRead ==
  /\ Names = {"Welcome", "UdpHandshakeAcknowledged", "ApplicationLogic", "Heartbeat"}
  /\ \A k \in Names \cup {"Io"} : [kind |-> k, n |-> 0] \in C!ReadItems
<1>1. \A x \in WriteItems : x.msg \in {"Welcome", "UdpHandshakeAcknowledged", "ApplicationLogic", "Heartbeat"}
  BY DEF WriteItems
<1>2. \A k \in {"Welcome", "UdpHandshakeAcknowledged", "ApplicationLogic", "Heartbeat"} :
          \E x \in WriteItems : x.msg = k
  <2>1. TAKE k \in {"Welcome", "UdpHandshakeAcknowledged", "ApplicationLogic", "Heartbeat"}
  <2>2. [msg |-> k, to |-> NoAddr] \in WriteItems
    BY DEF WriteItems
  <2> QED
    BY <2>2
<1>3. Names = {"Welcome", "UdpHandshakeAcknowledged", "ApplicationLogic", "Heartbeat"}
  BY <1>1, <1>2 DEF Names
<1> QED
  BY <1>3 DEF C!ReadItems

\* The write actor of a connection writes to it.
LEMMA WritesDown ==
  ASSUME PathTypes, NEW p \in PeerUids, ServerWrites(p)
  PROVE  Downstream
<1>1. PICK n \in 0 .. Len(W!Pending(p)) :
        down' = [down EXCEPT ![p] = @ \o [i \in 1 .. n |-> W!Pending(p)[i].msg]]
  BY DEF ServerWrites
<1>2. UNCHANGED <<crTx, item, cEvents, toClients>>
  BY DEF ServerWrites, clientVars, udp
<1>3. PICK s \in Seq(WriteItems) :
        s = W!Pending(p) /\ (AckItem(s) => AckItem(wSink[p]) \/ AckOp(wHand[p]))
  BY AckPending DEF AllWriters
<1>4. PICK d \in Seq(Names) : d = down[p]
  BY DEF PathTypes
<1>5. PICK t : t = d \o [i \in 1 .. n |-> s[i].msg]
  OBVIOUS
<1>6. t \in Seq(Names) /\ (In(AckName, t) => In(AckName, d) \/ AckItem(s))
  BY <1>1, <1>3, <1>4, <1>5, AckSent
<1>7. down' = [down EXCEPT ![p] = t]
  BY <1>1, <1>3, <1>4, <1>5
<1>8. /\ down' \in [PeerUids -> Seq(Names)]
      /\ \A q \in PeerUids : down'[q] = IF q = p THEN t ELSE down[q]
  BY <1>6, <1>7 DEF PathTypes
<1> QED
  BY <1>2, <1>3, <1>4, <1>6, <1>8 DEF Downstream, PathTypes, ClientTypes

\* The client reads from the connection, in order (src/src/actors/read_actor.rs).
LEMMA ReadsDown ==
  ASSUME PathTypes, NEW p \in PeerUids, ClientReads(p)
  PROVE  Downstream
<1>1. /\ down[p] # <<>> /\ C!Reads(tcp(p), [kind |-> Head(down[p]), n |-> 0])
      /\ down' = [down EXCEPT ![p] = Tail(@)] /\ UNCHANGED toClients
  BY DEF ClientReads, udp
<1>2. PICK d \in Seq(Names) : d = down[p]
  BY DEF PathTypes
<1>3. PICK k \in Names : k = Head(d) /\ (k = AckName => In(AckName, d))
  <2>1. Head(d) \in Names /\ Head(d) = d[1] /\ 1 \in 1 .. Len(d)
    BY <1>1, <1>2
  <2> QED
    BY <2>1 DEF In
<1>4. Tail(d) \in Seq(Names) /\ (In(AckName, Tail(d)) => In(AckName, d))
  BY <1>1, <1>2, InTail
<1>5. /\ down' \in [PeerUids -> Seq(Names)]
      /\ \A q \in PeerUids : down'[q] = IF q = p THEN Tail(d) ELSE down[q]
  BY <1>1, <1>2, <1>4 DEF PathTypes
<1>6. PICK x \in C!ReadItems : x = [kind |-> k, n |-> 0] /\ x.kind = k
  BY NamesAreRead
<1>7. \A q \in PeerUids : tcp(q) \in C!Sockets /\ (tcp(q) = tcp(p) => q = p)
  BY DEF tcp, C!Sockets, C!Protocols
<1>8. /\ ClientTypes' /\ cEvents' = cEvents
      /\ \A b \in C!Sockets : AckRead(crTx'[b]) => AckRead(crTx[b]) \/ (b = tcp(p) /\ k = AckName)
  BY <1>1, <1>2, <1>3, <1>6, <1>7, ReadKeeps DEF PathTypes, ClientTypes
<1>9. \A q \in PeerUids : In(AckName, down'[q]) => In(AckName, down[q])
  BY <1>2, <1>4, <1>5
<1> QED
  BY <1>1, <1>2, <1>3, <1>5, <1>7, <1>8, <1>9 DEF Downstream, PathTypes

\* Every step of the composition.
LEMMA DownstreamOnly ==
  ASSUME PathTypes, [NetNext]_netVars
  PROVE  Downstream
<1> USE DEF links, udp, clientVars, vars, C!state, C!app, C!channels, C!rTask, C!rLink, C!wTask, C!wLink
<1>0. ClientTypes /\ \A p \in PeerUids, s \in C!Protocols : <<p, s>> \in C!Sockets /\ tcp(p) \in C!Sockets
  BY DEF PathTypes, ClientTypes, C!Sockets, C!Protocols, tcp
<1>1. ASSUME UNCHANGED <<down, crTx, item, cEvents>>, toClients' \subseteq WriteItems PROVE Downstream
  BY <1>1 DEF Downstream, PathTypes, ClientTypes
<1>2. CASE UNCHANGED netVars
  BY <1>1, <1>2 DEF netVars, PathTypes
<1>3. CASE Connect
  BY <1>1, <1>3 DEF Connect, C!connect, PathTypes
<1>4. CASE UdpWriterLocal \/ MessageArrives \/ LoseDatagram
  <2>1. UNCHANGED <<down, crTx, item, cEvents>> /\ toClients' \subseteq toClients
    BY <1>4 DEF UdpWriterLocal, MessageArrives, LoseDatagram
  <2> QED
    BY <1>1, <2>1 DEF PathTypes
<1>5. CASE ServerSendsDatagram
  <2>1. PICK n \in 0 .. Len(W!Pending(UdpWriter)) :
          toClients' = toClients \cup {W!Pending(UdpWriter)[i] : i \in 1 .. n}
    BY <1>5 DEF ServerSendsDatagram
  <2>2. PICK s \in Seq(WriteItems) : s = W!Pending(UdpWriter)
    BY AckPending DEF AllWriters
  <2>3. \A i \in 1 .. n : s[i] \in WriteItems
    BY <2>1, <2>2
  <2>4. UNCHANGED <<down, crTx, item, cEvents>>
    BY <1>5 DEF ServerSendsDatagram
  <2> QED
    BY <1>1, <2>1, <2>2, <2>3, <2>4 DEF PathTypes
<1>6. ASSUME NEW p \in PeerUids, ClientApp(p) \/ ResetConnection(p) PROVE Downstream
  <2>1. UNCHANGED <<down, crTx, item, cEvents, toClients>>
    BY <1>6 DEF ClientApp, ResetConnection, C!send_message, C!DropHandle, C!AppUnchanged
  <2> QED
    BY <1>1, <2>1 DEF PathTypes
<1>7. ASSUME NEW p \in PeerUids, NEW s \in C!Protocols, NEW x \in C!ReadItems,
             C!Reads(<<p, s>>, x), s = "tcp" => x.kind # AckName,
             down' = down, toClients' \subseteq WriteItems
      PROVE  Downstream
  <2>1. <<p, s>> = tcp(p) => s = "tcp"
    BY DEF tcp
  <2>2. \A q \in PeerUids : tcp(q) = <<p, s>> => s = "tcp"
    BY DEF tcp
  <2>3. /\ ClientTypes' /\ cEvents' = cEvents
        /\ \A b \in C!Sockets : AckRead(crTx'[b]) => AckRead(crTx[b]) \/ (b = <<p, s>> /\ x.kind = AckName)
    BY <1>0, <1>7, ReadKeeps
  <2> QED
    BY <1>0, <1>7, <2>2, <2>3 DEF Downstream, PathTypes
<1>8. ASSUME NEW p \in PeerUids, Progress(p) PROVE Downstream
  <2>1. CASE ServerLocal(p) \/ ServerReads(p) \/ ServerSeesEnd(p) \/ HelloArrives(p)
    <3>1. UNCHANGED <<down, crTx, item, cEvents, toClients>>
      BY <2>1 DEF ServerLocal, ServerReads, ServerSeesEnd, HelloArrives
    <3> QED
      BY <1>1, <3>1 DEF PathTypes
  <2>2. CASE ServerWrites(p)
    BY <2>2, WritesDown
  <2>3. CASE ClientReads(p)
    BY <2>3, ReadsDown
  <2>4. CASE ClientLoop(p)
    <3>1. ClientTypes' /\ FromReader /\ UNCHANGED <<down, toClients>>
      BY <1>0, <2>4, LoopKeeps DEF ClientLoop
    <3> QED
      BY <3>1 DEF Downstream, FromReader, PathTypes
  <2>5. CASE ClientSeesEnd(p)
    <3>1. CASE C!ServerCloses(p)
      BY <1>1, <2>5, <3>1 DEF ClientSeesEnd, C!ServerCloses, C!R!PeerCloses, C!ReaderUnchanged, C!LoopUnchanged, PathTypes
    <3>2. CASE C!Reads(tcp(p), [kind |-> "Io", n |-> 0])
      <4>1. [kind |-> "Io", n |-> 0] \in C!ReadItems /\ "tcp" \in C!Protocols
        BY NamesAreRead DEF C!Protocols
      <4>2. UNCHANGED <<down, toClients>>
        BY <2>5 DEF ClientSeesEnd
      <4> QED
        BY <1>7, <3>2, <4>1, <4>2 DEF tcp, AckName, PathTypes
    <3> QED
      BY <2>5, <3>1, <3>2 DEF ClientSeesEnd
  <2>6. CASE DatagramArrives(p)
    <3>1. PICK d \in toClients : /\ C!Reads(<<p, "udp">>, [kind |-> d.msg, n |-> 0])
                                 /\ toClients' = toClients \ {d} /\ down' = down
      BY <2>6 DEF DatagramArrives
    <3>2. d.msg \in Names /\ [kind |-> d.msg, n |-> 0] \in C!ReadItems /\ "udp" \in C!Protocols
      BY <3>1, NamesAreRead DEF PathTypes, Names, C!Protocols
    <3> QED
      BY <1>7, <3>1, <3>2 DEF PathTypes
  <2>7. CASE ClientWrites(p) \/ ClientSendsDatagram(p)
    <3>1. UNCHANGED <<down, crTx, item, cEvents, toClients>>
      BY <2>7 DEF ClientWrites, ClientSendsDatagram, C!SinkDone, C!SinkFails, C!CloseSink,
                  C!WriterUnchanged, C!LoopUnchanged
    <3> QED
      BY <1>1, <3>1 DEF PathTypes
  <2>8. ASSUME NEW s \in C!Protocols, ClientTask(<<p, s>>) PROVE Downstream
    <3>1. UNCHANGED <<down, crTx, item, cEvents, toClients>>
      BY <2>8 DEF ClientTask, C!ReaderRuns, C!WriterRuns, C!ReaderUnchanged, C!WriterUnchanged,
                  C!LoopUnchanged, C!R!ReaderProgress, C!R!ReceiveShutdown, C!R!HandlesDropped,
                  C!R!EndOfStream
    <3> QED
      BY <1>1, <3>1 DEF PathTypes
  <2> QED
    BY <1>8, <2>1, <2>2, <2>3, <2>4, <2>5, <2>6, <2>7, <2>8 DEF Progress
<1> QED
  BY <1>2, <1>3, <1>4, <1>5, <1>6, <1>8 DEF NetNext

\* Every step keeps the invariant: what is underway was underway before the
\* step or is of a client that the step makes known, and known clients stay so.
LEMMA NetStep ==
  ASSUME Ordinary
  PROVE  NetInv /\ [NetNext]_netVars => NetInv'
<1> SUFFICES ASSUME NetInv, [NetNext]_netVars PROVE NetInv'
  OBVIOUS
<1>0. ServerInv /\ IndexInv /\ PathTypes /\ UnderwayKnown
  BY DEF NetInv
<1>1. ServerStep
  BY <1>0, ServerSteps
<1>2. ServerInv' /\ IndexInv'
  BY <1>0, <1>1, ServerKeeps
<1>3. Downstream
  BY <1>0, DownstreamOnly
<1>4. /\ wHand' \in [AllWriters -> Seq(W!ActorMessage)]
      /\ wSink' \in [AllWriters -> Seq(WriteItems)]
      /\ \A p \in AllWriters :
            /\ AckOp(wHand'[p]) => AckOp(wHand[p]) \/ AckOp(wMsgs[p])
            /\ AckItem(wSink'[p]) => AckItem(wSink[p]) \/ AckOp(wHand[p])
  BY <1>0, <1>1, SinkKeeps
<1>5. PathTypes'
  BY <1>3, <1>4 DEF Downstream, ClientTypes, PathTypes
<1>6. ASSUME NEW p \in PeerUids, Underway(p)' PROVE Known(p)'
  <2>1. AckOp(wMsgs'[p]) => AckOp(wMsgs[p]) \/ Known(p)'
    BY <1>0, <1>1, AckQueued
  <2>2. p \in AllWriters
    BY DEF AllWriters
  <2>3. Underway(p)' = (\/ AckOp(wMsgs'[p]) \/ AckOp(wHand'[p]) \/ AckItem(wSink'[p])
                        \/ In(AckName, down'[p]) \/ AckRead(crTx'[tcp(p)]) \/ AckTold(cEvents'[p]))
    BY DEF Underway, tcp
  <2>4. Underway(p) \/ Known(p)'
    BY <1>3, <1>4, <1>6, <2>1, <2>2, <2>3 DEF Downstream, Underway
  <2>5. Underway(p) => Known(p)'
    BY <1>0, <1>1, KnownStays DEF UnderwayKnown
  <2> QED
    BY <2>4, <2>5
<1> QED
  BY <1>2, <1>5, <1>6 DEF NetInv, UnderwayKnown

\* In the beginning nothing is underway.
LEMMA NetStart == NetInit => NetInv
<1> SUFFICES ASSUME NetInit PROVE NetInv
  OBVIOUS
<1>1. ServerInv /\ IndexInv
  BY InvInit, IndexInit DEF NetInit
<1>2. /\ wHand = [w \in AllWriters |-> <<>>] /\ wSink = [w \in AllWriters |-> <<>>]
      /\ \A p \in PeerUids : wMsgs[p] = <<>>
  BY DEF NetInit, Init, W!WriterInit, AllWriters
<1>3. /\ down = [p \in PeerUids |-> <<>>] /\ toClients = {}
      /\ crTx = [a \in C!Sockets |-> <<>>]
      /\ item = [p \in PeerUids |-> <<>>] /\ cEvents = [p \in PeerUids |-> <<>>]
  BY DEF NetInit, C!ClientInit, C!R!ReaderInit
<1>4. PathTypes
  BY <1>2, <1>3 DEF PathTypes
<1>5. \A p \in PeerUids : p \in AllWriters /\ tcp(p) \in C!Sockets
  BY DEF AllWriters, tcp, C!Sockets, C!Protocols
<1>6. ~AckOp(<<>>) /\ ~AckItem(<<>>) /\ ~In(AckName, <<>>) /\ ~AckRead(<<>>) /\ ~AckTold(<<>>)
  BY DEF AckOp, AckItem, In, AckRead, AckTold
<1>7. \A p \in PeerUids : ~Underway(p)
  BY <1>2, <1>3, <1>5, <1>6 DEF Underway
<1> QED
  BY <1>1, <1>4, <1>7 DEF NetInv, UnderwayKnown

\* Wherever the acknowledgement is, the broker knows the client's address: an
\* invariant of server, clients and network together.
THEOREM NetInvariant == ASSUME Ordinary PROVE NetSpec => []NetInv
<1>1. NetInv /\ [NetNext]_netVars => NetInv'
  BY NetStep
<1> QED
  BY <1>1, NetStart, PTL DEF NetSpec

\* CanSendUdpMessages (src/README.md:135, src/src/client/actor.rs:157) is true
\* of every connected client that is told so: what comes from its address is
\* attributed to it, whatever datagrams were lost, however long the
\* acknowledgement took and however many clients there are.
THEOREM CanSendIsTrueOfServer == ASSUME Ordinary PROVE NetSpec => []CanSendIsTrue
<1>1. NetInv => CanSendIsTrue
  <2> SUFFICES ASSUME NetInv, NEW p \in DOMAIN peers, Told(p, C!CanSendUdpMessages)
               PROVE  Maps(UdpIndex, sock[p].udp, p)
    BY DEF CanSendIsTrue, Connected, Maps, UdpIndex
  <2>1. p \in PeerUids /\ cEvents[p] \in Seq(C!Event)
    BY DEF NetInv, ServerInv, ActorTypes, PathTypes
  <2>2. AckTold(cEvents[p])
    BY <2>1 DEF Told, AckTold
  <2>3. Known(p)
    BY <2>1, <2>2 DEF NetInv, UnderwayKnown, Underway
  <2> QED
    BY <2>3 DEF Known, NetInv, IndexInv, PeerIndexed
<1> QED
  BY <1>1, NetInvariant, PTL


-----------------------------------------------------------------------------
(* The way of a message from the client's handle to the server's events.   *)

\* What the client gives its write actors.
SendItems == [msg : {"Hello", "ApplicationLogic"}, n : Nat]
SendOps == [op : {"Send"}, item : SendItems]

\* The numbers on the connection, and of messages given to a write actor.
CountsFrom(s, k) == \A i \in 1 .. Len(s) : s[i] = k + i
SendsFrom(s, k) == \A i \in 1 .. Len(s) : s[i].item.n = k + i

\* The TCP messages in the handle's channel are h + 1, .., k, in order.
TcpIn(s) == {i \in 1 .. Len(s) : s[i].to = "tcp"}
Waits(s, h, k) ==
    /\ h <= k
    /\ \A i \in TcpIn(s) : s[i].n \in h + 1 .. k
    /\ \A i, j \in TcpIn(s) : i < j => s[i].n < s[j].n
    /\ \A n \in h + 1 .. k : \E i \in TcpIn(s) : s[i].n = n

\* Of the k messages that the handle of a client in state c has accepted, r
\* were read by the server, u are on the connection, hand and msgs are with
\* the write actor and wait is the handle's channel: they continue each other.
InFlow(c, k, r, u, hand, msgs, wait) ==
    /\ CountsFrom(u, r)
    /\ SendsFrom(hand, r + Len(u))
    /\ SendsFrom(msgs, r + Len(u) + Len(hand))
    /\ c \in {"unspawned", "running"} => Waits(wait, r + Len(u) + Len(hand) + Len(msgs), k)
    /\ c = "left" => r + Len(u) + Len(hand) + Len(msgs) = k

\* A queue without its head.
LEMMA TailOf ==
  ASSUME NEW S, NEW s \in Seq(S), s # <<>>
  PROVE  /\ Head(s) \in S /\ Head(s) = s[1] /\ Tail(s) \in Seq(S)
         /\ Len(s) \in Nat \ {0} /\ 1 \in 1 .. Len(s) /\ Len(Tail(s)) = Len(s) - 1
         /\ \A i \in 1 .. Len(s) - 1 : i + 1 \in 1 .. Len(s) /\ Tail(s)[i] = s[i + 1]
  OBVIOUS

\* A queue with one element more.
LEMMA AppendOf ==
  ASSUME NEW S, NEW s \in Seq(S), NEW x \in S
  PROVE  /\ Append(s, x) \in Seq(S) /\ Len(s) \in Nat /\ Len(Append(s, x)) = Len(s) + 1
         /\ Append(s, x)[Len(s) + 1] = x
         /\ \A i \in 1 .. Len(s) : Append(s, x)[i] = s[i]
  OBVIOUS

\* Nothing waits exactly if everything was handed on.
LEMMA WaitsNothing ==
  ASSUME NEW h \in Nat, NEW k \in Nat
  PROVE  Waits(<<>>, h, k) <=> h = k
<1>1. TcpIn(<<>>) = {}
  BY DEF TcpIn
<1>2. ASSUME Waits(<<>>, h, k), h # k PROVE FALSE
  <2>1. h + 1 \in h + 1 .. k
    BY <1>2 DEF Waits
  <2> QED
    BY <1>1, <1>2, <2>1 DEF Waits
<1>3. ASSUME h = k PROVE Waits(<<>>, h, k)
  <2>1. h + 1 .. k = {}
    BY <1>3
  <2> QED
    BY <1>1, <1>3, <2>1 DEF Waits
<1> QED
  BY <1>2, <1>3

\* The handle accepts a message (src/src/client.rs: try_send on its channel).
LEMMA WaitsMore ==
  ASSUME NEW s \in Seq(C!Message), NEW h \in Nat, NEW k \in Nat, Waits(s, h, k),
         NEW m \in C!Message
  PROVE  /\ m.to # "tcp" => Waits(Append(s, m), h, k)
         /\ m.to = "tcp" /\ m.n = k + 1 => Waits(Append(s, m), h, k + 1)
<1>1. PICK t \in Seq(C!Message), z \in Nat :
         /\ t = Append(s, m) /\ z = Len(s) /\ Len(t) = z + 1 /\ t[z + 1] = m
         /\ \A i \in 1 .. z : t[i] = s[i]
  <2>1. /\ Append(s, m) \in Seq(C!Message) /\ Len(s) \in Nat /\ Len(Append(s, m)) = Len(s) + 1
        /\ Append(s, m)[Len(s) + 1] = m
        /\ \A i \in 1 .. Len(s) : Append(s, m)[i] = s[i]
    BY AppendOf
  <2> QED
    BY <2>1, Zenon
<1>2. TcpIn(t) = IF m.to = "tcp" THEN TcpIn(s) \cup {z + 1} ELSE TcpIn(s)
  BY <1>1 DEF TcpIn
<1>3. /\ \A i \in TcpIn(s) : t[i] = s[i] /\ i \in Nat /\ i < z + 1
      /\ t[z + 1] = m /\ z + 1 \in Nat
  BY <1>1 DEF TcpIn
<1>4. /\ h <= k
      /\ \A i \in TcpIn(s) : s[i].n \in h + 1 .. k
      /\ \A i, j \in TcpIn(s) : i < j => s[i].n < s[j].n
      /\ \A n \in h + 1 .. k : \E i \in TcpIn(s) : s[i].n = n
  BY DEF Waits
<1>5. ASSUME m.to # "tcp" PROVE Waits(t, h, k)
  BY <1>2, <1>3, <1>4, <1>5 DEF Waits
<1>6. ASSUME m.to = "tcp", m.n = k + 1 PROVE Waits(t, h, k + 1)
  <2>1. TcpIn(t) = TcpIn(s) \cup {z + 1}
    BY <1>2, <1>6
  <2>2. \A i \in TcpIn(t) : t[i].n \in h + 1 .. k + 1
    BY <1>3, <1>4, <1>6, <2>1, SMTT(30)
  <2>3. ASSUME NEW i \in TcpIn(t), NEW j \in TcpIn(t), i < j PROVE t[i].n < t[j].n
    <3>1. CASE j = z + 1
      <4>1. i \in TcpIn(s)
        BY <1>3, <2>1, <2>3, <3>1
      <4>2. t[i].n \in h + 1 .. k /\ t[j].n = k + 1
        BY <1>3, <1>4, <1>6, <3>1, <4>1
      <4> QED
        BY <4>2
    <3>2. CASE j \in TcpIn(s)
      <4>1. i \in TcpIn(s)
        BY <1>3, <2>1, <2>3, <3>2
      <4> QED
        BY <1>3, <1>4, <2>3, <3>2, <4>1
    <3> QED
      BY <2>1, <3>1, <3>2
  <2>4. ASSUME NEW n \in h + 1 .. k + 1 PROVE \E i \in TcpIn(t) : t[i].n = n
    <3>1. CASE n = k + 1
      BY <1>3, <1>6, <2>1, <3>1
    <3>2. CASE n \in h + 1 .. k
      BY <1>3, <1>4, <2>1, <3>2
    <3> QED
      BY <2>4, <3>1, <3>2
  <2> QED
    BY <1>4, <2>2, <2>3, <2>4 DEF Waits
<1> QED
  BY <1>1, <1>5, <1>6

\* The client takes a message (src/src/client/actor.rs:123).
LEMMA WaitsLess ==
  ASSUME NEW s \in Seq(C!Message), s # <<>>, NEW h \in Nat, NEW k \in Nat, Waits(s, h, k)
  PROVE  /\ Head(s).to # "tcp" => Waits(Tail(s), h, k)
         /\ Head(s).to = "tcp" => Head(s).n = h + 1 /\ Waits(Tail(s), h + 1, k)
<1>1. PICK t \in Seq(C!Message), z \in Nat, m \in C!Message :
         /\ t = Tail(s) /\ z = Len(t) /\ Len(s) = z + 1 /\ m = Head(s) /\ m = s[1]
         /\ \A i \in 1 .. z : t[i] = s[i + 1]
  <2>1. /\ Head(s) \in C!Message /\ Head(s) = s[1] /\ Tail(s) \in Seq(C!Message)
        /\ Len(Tail(s)) \in Nat /\ Len(s) = Len(Tail(s)) + 1
        /\ \A i \in 1 .. Len(Tail(s)) : Tail(s)[i] = s[i + 1]
    BY TailOf
  <2> QED
    BY <2>1, Zenon
<1>2. /\ \A i \in TcpIn(t) : i \in Nat /\ i + 1 \in TcpIn(s) /\ t[i] = s[i + 1]
      /\ \A i \in TcpIn(s) : i \in Nat /\ (i = 1 \/ (i > 1 /\ i - 1 \in TcpIn(t) /\ t[i - 1] = s[i]))
      /\ 1 \in TcpIn(s) <=> m.to = "tcp"
  <2>1. \A i \in TcpIn(t) : i \in Nat /\ i + 1 \in TcpIn(s) /\ t[i] = s[i + 1]
    BY <1>1 DEF TcpIn
  <2>2. ASSUME NEW i \in TcpIn(s) PROVE i \in Nat /\ (i = 1 \/ (i > 1 /\ i - 1 \in TcpIn(t) /\ t[i - 1] = s[i]))
    <3>1. i \in Nat /\ i \in 1 .. z + 1 /\ s[i].to = "tcp"
      BY <1>1 DEF TcpIn
    <3>2. CASE i # 1
      <4>1. i - 1 \in 1 .. z /\ (i - 1) + 1 = i /\ i > 1
        BY <3>1, <3>2
      <4>2. t[i - 1] = s[i]
        BY <1>1, <4>1
      <4> QED
        BY <1>1, <3>1, <4>1, <4>2 DEF TcpIn
    <3> QED
      BY <3>1, <3>2
  <2>3. 1 \in TcpIn(s) <=> m.to = "tcp"
    BY <1>1 DEF TcpIn
  <2> QED
    BY <2>1, <2>2, <2>3
<1>4. /\ h <= k
      /\ \A i \in TcpIn(s) : s[i].n \in h + 1 .. k
      /\ \A i, j \in TcpIn(s) : i < j => s[i].n < s[j].n
      /\ \A n \in h + 1 .. k : \E i \in TcpIn(s) : s[i].n = n
  BY DEF Waits
<1>5. \A i, j \in TcpIn(t) : i < j => t[i].n < t[j].n
  <2> SUFFICES ASSUME NEW i \in TcpIn(t), NEW j \in TcpIn(t), i < j PROVE t[i].n < t[j].n
    OBVIOUS
  <2>1. i + 1 \in TcpIn(s) /\ j + 1 \in TcpIn(s) /\ i + 1 < j + 1
    BY <1>2
  <2>2. s[i + 1].n < s[j + 1].n
    BY <1>4, <2>1
  <2> QED
    BY <1>2, <2>2
<1>6. ASSUME m.to # "tcp" PROVE Waits(t, h, k)
  <2>1. \A i \in TcpIn(t) : t[i].n \in h + 1 .. k
    BY <1>2, <1>4
  <2>2. ASSUME NEW n \in h + 1 .. k PROVE \E i \in TcpIn(t) : t[i].n = n
    <3>1. PICK i \in TcpIn(s) : s[i].n = n
      BY <1>4
    <3>2. i # 1
      BY <1>2, <1>6
    <3> QED
      BY <1>2, <3>1, <3>2
  <2> QED
    BY <1>4, <1>5, <2>1, <2>2 DEF Waits
<1>7. ASSUME m.to = "tcp" PROVE m.n = h + 1 /\ Waits(t, h + 1, k)
  <2>1. 1 \in TcpIn(s) /\ s[1].n = m.n /\ m.n \in h + 1 .. k
    BY <1>1, <1>2, <1>4, <1>7
  <2>2. PICK i \in TcpIn(s) : s[i].n = h + 1
    <3>1. h + 1 \in h + 1 .. k
      BY <2>1
    <3> QED
      BY <1>4, <3>1
  <2>3. i = 1
    <3>1. SUFFICES ASSUME i # 1 PROVE FALSE
      OBVIOUS
    <3>2. i \in Nat /\ 1 < i
      BY <1>2, <3>1
    <3>3. s[1].n < s[i].n
      BY <1>4, <2>1, <3>2
    <3> QED
      BY <2>1, <2>2, <3>3
  <2>4. m.n = h + 1
    BY <2>1, <2>2, <2>3
  <2>5. \A j \in TcpIn(t) : t[j].n \in h + 1 + 1 .. k
    <3> SUFFICES ASSUME NEW j \in TcpIn(t) PROVE t[j].n \in h + 1 + 1 .. k
      OBVIOUS
    <3>1. j + 1 \in TcpIn(s) /\ 1 < j + 1 /\ t[j] = s[j + 1]
      <4>1. j \in 1 .. z
        BY <1>1 DEF TcpIn
      <4> QED
        BY <1>2, <4>1
    <3>2. s[1].n < s[j + 1].n /\ s[j + 1].n \in h + 1 .. k
      BY <1>4, <2>1, <3>1
    <3> QED
      BY <2>1, <2>4, <3>1, <3>2
  <2>6. ASSUME NEW n \in h + 1 + 1 .. k PROVE \E j \in TcpIn(t) : t[j].n = n
    <3>1. PICK j \in TcpIn(s) : s[j].n = n
      BY <1>4, <2>6
    <3>2. j # 1
      BY <2>1, <2>4, <2>6, <3>1
    <3> QED
      BY <1>2, <3>1, <3>2
  <2>7. h + 1 <= k
    BY <2>1
  <2> QED
    BY <1>5, <2>4, <2>5, <2>6, <2>7 DEF Waits
<1> QED
  BY <1>1, <1>6, <1>7


\* The moves of a message along its way.
LEMMA FlowAccepts ==
  ASSUME NEW k \in Nat, NEW r \in Nat, NEW u \in Seq(Nat), NEW hand \in Seq(SendOps),
         NEW msgs \in Seq(SendOps), NEW wait \in Seq(C!Message), NEW m \in C!Message,
         InFlow("running", k, r, u, hand, msgs, wait)
  PROVE  /\ m.to # "tcp" => InFlow("running", k, r, u, hand, msgs, Append(wait, m))
         /\ m.to = "tcp" /\ m.n = k + 1 => InFlow("running", k + 1, r, u, hand, msgs, Append(wait, m))
<1>1. PICK h \in Nat : h = r + Len(u) + Len(hand) + Len(msgs)
  OBVIOUS
<1>2. Waits(wait, h, k)
  BY <1>1 DEF InFlow
<1> QED
  BY <1>1, <1>2, WaitsMore DEF InFlow

\* The client hands a message to its write actor, or deals with another one.
LEMMA FlowHands ==
  ASSUME NEW k \in Nat, NEW r \in Nat, NEW u \in Seq(Nat), NEW hand \in Seq(SendOps),
         NEW msgs \in Seq(SendOps), NEW wait \in Seq(C!Message), wait # <<>>,
         NEW x \in SendOps,
         InFlow("running", k, r, u, hand, msgs, wait)
  PROVE  /\ Head(wait).to # "tcp" => InFlow("running", k, r, u, hand, msgs, Tail(wait))
         /\ Head(wait).to = "tcp" /\ x.item.n = Head(wait).n =>
               InFlow("running", k, r, u, hand, Append(msgs, x), Tail(wait))
<1>1. PICK h \in Nat, f \in Nat, z \in Nat :
         h = f + z /\ f = r + Len(u) + Len(hand) /\ z = Len(msgs)
  <2>1. PICK z \in Nat : z = Len(msgs)
    OBVIOUS
  <2>2. PICK f \in Nat : f = r + Len(u) + Len(hand)
    OBVIOUS
  <2>3. f + z \in Nat
    OBVIOUS
  <2> QED
    BY <2>1, <2>2, <2>3, Zenon
<1>2. Waits(wait, h, k) /\ SendsFrom(msgs, f)
  BY <1>1 DEF InFlow
<1>3. /\ Head(wait).to # "tcp" => Waits(Tail(wait), h, k)
      /\ Head(wait).to = "tcp" => Head(wait).n = h + 1 /\ Waits(Tail(wait), h + 1, k)
  BY <1>2, WaitsLess
<1>4. ASSUME Head(wait).to # "tcp" PROVE InFlow("running", k, r, u, hand, msgs, Tail(wait))
  BY <1>1, <1>3, <1>4 DEF InFlow
<1>5. ASSUME Head(wait).to = "tcp", x.item.n = Head(wait).n
      PROVE  InFlow("running", k, r, u, hand, Append(msgs, x), Tail(wait))
  <2>1. PICK t \in Seq(SendOps) :
           /\ t = Append(msgs, x) /\ Len(t) = z + 1 /\ t[z + 1] = x
           /\ \A i \in 1 .. z : t[i] = msgs[i]
    <3>1. /\ Append(msgs, x) \in Seq(SendOps) /\ Len(Append(msgs, x)) = Len(msgs) + 1
          /\ Append(msgs, x)[Len(msgs) + 1] = x
          /\ \A i \in 1 .. Len(msgs) : Append(msgs, x)[i] = msgs[i]
      BY AppendOf
    <3> QED
      BY <1>1, <3>1
  <2>2. SendsFrom(t, f)
    <3>1. ASSUME NEW i \in 1 .. z + 1 PROVE t[i].item.n = f + i
      <4>1. CASE i = z + 1
        BY <1>1, <1>3, <1>5, <2>1, <4>1
      <4>2. CASE i \in 1 .. z
        BY <1>1, <1>2, <2>1, <4>2 DEF SendsFrom
      <4>3. i = z + 1 \/ i \in 1 .. z
        OBVIOUS
      <4> QED
        BY <4>1, <4>2, <4>3, Zenon
    <3> QED
      BY <2>1, <3>1 DEF SendsFrom
  <2>3. Waits(Tail(wait), h + 1, k) /\ f + Len(t) = h + 1
    BY <1>1, <1>3, <1>5, <2>1
  <2>4. InFlow("running", k, r, u, hand, t, Tail(wait))
    <3>1. CountsFrom(u, r) /\ SendsFrom(hand, r + Len(u))
      BY DEF InFlow
    <3>2. SendsFrom(t, r + Len(u) + Len(hand)) /\ Waits(Tail(wait), r + Len(u) + Len(hand) + Len(t), k)
      BY <1>1, <2>2, <2>3
    <3> QED
      BY <3>1, <3>2 DEF InFlow
  <2> QED
    BY <2>1, <2>4
<1> QED
  BY <1>4, <1>5

\* The client leaves: nothing is left behind in the handle's channel, unless it
\* panicked (src/src/client/actor.rs:212).
LEMMA FlowLeaves ==
  ASSUME NEW k \in Nat, NEW r \in Nat, NEW u \in Seq(Nat), NEW hand \in Seq(SendOps),
         NEW msgs \in Seq(SendOps), NEW wait,
         InFlow("running", k, r, u, hand, msgs, wait)
  PROVE  /\ InFlow("panicked", k, r, u, hand, msgs, <<>>)
         /\ wait = <<>> => InFlow("left", k, r, u, hand, msgs, <<>>)
<1>1. PICK h \in Nat : h = r + Len(u) + Len(hand) + Len(msgs)
  OBVIOUS
<1>2. wait = <<>> => h = k
  BY <1>1, WaitsNothing DEF InFlow
<1> QED
  BY <1>1, <1>2 DEF InFlow

\* The write actor takes a message (src/src/actors/write_actor.rs:128).
LEMMA FlowTakes ==
  ASSUME NEW c, NEW k \in Nat, NEW r \in Nat, NEW u \in Seq(Nat),
         NEW msgs \in Seq(SendOps), msgs # <<>>, NEW wait,
         InFlow(c, k, r, u, <<>>, msgs, wait)
  PROVE  InFlow(c, k, r, u, <<Head(msgs)>>, Tail(msgs), wait)
<1>1. PICK t \in Seq(SendOps), z \in Nat, x \in SendOps, f \in Nat :
         /\ t = Tail(msgs) /\ z = Len(t) /\ Len(msgs) = z + 1 /\ x = Head(msgs) /\ x = msgs[1]
         /\ f = r + Len(u)
         /\ \A i \in 1 .. z : t[i] = msgs[i + 1]
  <2>1. /\ Head(msgs) \in SendOps /\ Head(msgs) = msgs[1] /\ Tail(msgs) \in Seq(SendOps)
        /\ Len(Tail(msgs)) \in Nat /\ Len(msgs) = Len(Tail(msgs)) + 1
        /\ \A i \in 1 .. Len(Tail(msgs)) : Tail(msgs)[i] = msgs[i + 1]
    BY TailOf
  <2>2. r + Len(u) \in Nat
    OBVIOUS
  <2> QED
    BY <2>1, <2>2, Zenon
<1>2. PICK g \in Seq(SendOps) : g = <<x>> /\ Len(g) = 1 /\ g[1] = x
  <2>1. <<x>> \in Seq(SendOps) /\ Len(<<x>>) = 1 /\ <<x>>[1] = x
    OBVIOUS
  <2> QED
    BY <2>1, Zenon
<1>3. \A i \in 1 .. z + 1 : msgs[i].item.n = f + i
  <2>1. Len(<<>>) = 0 /\ SendsFrom(msgs, f + 0)
    BY <1>1 DEF InFlow
  <2> QED
    BY <1>1, <2>1 DEF SendsFrom
<1>4. SendsFrom(g, f)
  BY <1>1, <1>2, <1>3 DEF SendsFrom
<1>5. SendsFrom(t, f + Len(g))
  <2>1. ASSUME NEW i \in 1 .. z PROVE t[i].item.n = f + 1 + i
    <3>1. i + 1 \in 1 .. z + 1 /\ t[i] = msgs[i + 1]
      BY <1>1
    <3> QED
      BY <1>3, <3>1
  <2> QED
    BY <1>1, <1>2, <2>1 DEF SendsFrom
<1>6. f + Len(g) + Len(t) = f + Len(<<>>) + Len(msgs)
  BY <1>1, <1>2
<1>7. InFlow(c, k, r, u, g, t, wait)
  BY <1>1, <1>4, <1>5, <1>6 DEF InFlow
<1> QED
  BY <1>1, <1>2, <1>7

\* The write actor writes the message in hand (src/src/actors/write_actor.rs:135).
LEMMA FlowWrites ==
  ASSUME NEW c, NEW k \in Nat, NEW r \in Nat, NEW u \in Seq(Nat), NEW x \in SendOps,
         NEW msgs \in Seq(SendOps), NEW wait,
         InFlow(c, k, r, u, <<x>>, msgs, wait)
  PROVE  InFlow(c, k, r, Append(u, x.item.n), <<>>, msgs, wait)
<1>1. PICK z \in Nat, n \in Nat : z = Len(u) /\ n = x.item.n /\ r + z \in Nat
  BY DEF SendOps, SendItems
<1>2. PICK t \in Seq(Nat) :
         /\ t = Append(u, n) /\ Len(t) = z + 1 /\ t[z + 1] = n
         /\ \A i \in 1 .. z : t[i] = u[i]
  <2>1. /\ Append(u, n) \in Seq(Nat) /\ Len(Append(u, n)) = Len(u) + 1
        /\ Append(u, n)[Len(u) + 1] = n
        /\ \A i \in 1 .. Len(u) : Append(u, n)[i] = u[i]
    BY AppendOf
  <2> QED
    BY <1>1, <2>1
<1>3. PICK g \in Seq(SendOps) : g = <<x>> /\ Len(g) = 1 /\ g[1] = x
  <2>1. <<x>> \in Seq(SendOps) /\ Len(<<x>>) = 1 /\ <<x>>[1] = x
    OBVIOUS
  <2> QED
    BY <2>1, Zenon
<1>4. InFlow(c, k, r, u, g, msgs, wait)
  BY <1>3
<1>5. n = r + z + 1
  <2>1. SendsFrom(g, r + z)
    BY <1>1, <1>4 DEF InFlow
  <2> QED
    BY <1>1, <1>3, <2>1 DEF SendsFrom
<1>6. CountsFrom(t, r)
  <2>1. \A i \in 1 .. z : u[i] = r + i
    BY <1>1, <1>4 DEF InFlow, CountsFrom
  <2>2. ASSUME NEW i \in 1 .. z + 1 PROVE t[i] = r + i
    <3>1. CASE i = z + 1
      BY <1>1, <1>2, <1>5, <3>1
    <3>2. CASE i \in 1 .. z
      BY <1>2, <2>1, <3>2
    <3>3. i = z + 1 \/ i \in 1 .. z
      BY <1>1
    <3> QED
      BY <3>1, <3>2, <3>3, Zenon
  <2> QED
    BY <1>2, <2>2 DEF CountsFrom
<1>7. PICK e \in Seq(SendOps) : e = <<>> /\ Len(e) = 0
  <2>1. <<>> \in Seq(SendOps) /\ Len(<<>>) = 0
    OBVIOUS
  <2> QED
    BY <2>1, Zenon
<1>8. /\ SendsFrom(e, r + Len(t))
      /\ r + Len(t) + Len(e) = r + Len(u) + Len(g)
  BY <1>1, <1>2, <1>3, <1>7 DEF SendsFrom
<1>9. InFlow(c, k, r, t, e, msgs, wait)
  BY <1>4, <1>6, <1>8 DEF InFlow
<1> QED
  BY <1>1, <1>2, <1>7, <1>9

\* The server reads the next message.
LEMMA FlowReads ==
  ASSUME NEW c, NEW k \in Nat, NEW r \in Nat, NEW u \in Seq(Nat), u # <<>>,
         NEW hand \in Seq(SendOps), NEW msgs \in Seq(SendOps), NEW wait,
         InFlow(c, k, r, u, hand, msgs, wait)
  PROVE  /\ Head(u) = r + 1
         /\ InFlow(c, k, r + 1, Tail(u), hand, msgs, wait)
<1>1. PICK t \in Seq(Nat), z \in Nat :
         /\ t = Tail(u) /\ z = Len(t) /\ Len(u) = z + 1 /\ Head(u) = u[1]
         /\ \A i \in 1 .. z : t[i] = u[i + 1]
  <2>1. /\ Head(u) = u[1] /\ Tail(u) \in Seq(Nat)
        /\ Len(Tail(u)) \in Nat /\ Len(u) = Len(Tail(u)) + 1
        /\ \A i \in 1 .. Len(Tail(u)) : Tail(u)[i] = u[i + 1]
    BY TailOf
  <2> QED
    BY <2>1, Zenon
<1>2. \A i \in 1 .. z + 1 : u[i] = r + i
  BY <1>1 DEF InFlow, CountsFrom
<1>3. Head(u) = r + 1
  BY <1>1, <1>2
<1>4. CountsFrom(t, r + 1)
  <2>1. ASSUME NEW i \in 1 .. z PROVE t[i] = r + 1 + i
    <3>1. i + 1 \in 1 .. z + 1 /\ t[i] = u[i + 1]
      BY <1>1
    <3> QED
      BY <1>2, <3>1
  <2> QED
    BY <1>1, <2>1 DEF CountsFrom
<1>5. r + 1 + Len(t) = r + Len(u)
  BY <1>1
<1>6. InFlow(c, k, r + 1, t, hand, msgs, wait)
  BY <1>4, <1>5 DEF InFlow
<1> QED
  BY <1>1, <1>3, <1>6

-----------------------------------------------------------------------------
(* The client and the connection, one peer at a time.                      *)

FlowTypes ==
    /\ client \in [PeerUids -> {"unspawned", "running", "left", "panicked"}]
    /\ cEventReceiver \in [PeerUids -> BOOLEAN]
    /\ cMsgs \in [PeerUids -> Seq(C!Message)]
    /\ accepted \in [PeerUids -> [C!Protocols -> Nat]]
    /\ cwState \in [C!Sockets -> {"unspawned", "running", "closing", "none"} \cup C!W!WriteOutcome]
    /\ cwReason \in [C!Sockets -> {"none", "ActorHandlesDropped", "SinkError"}]
    /\ cwMsgs \in [C!Sockets -> Seq(SendOps)]
    /\ cwHandle \in [C!Sockets -> BOOLEAN]
    /\ cwHand \in [C!Sockets -> Seq(SendOps)]
    /\ cwSink \in [C!Sockets -> Seq(SendItems)]
    /\ up \in [PeerUids -> Seq(Nat)]
    /\ reset \in [PeerUids -> BOOLEAN]
    /\ rStream \in [PeerUids -> {"open", "ended"}]
    /\ reads \in [PeerUids -> Nat]

\* Why the client's TCP write actor stops: its handle is gone and its queue
\* empty, or the connection was reset, and then the server reads no more.
WriterTrue(p) ==
    /\ Len(cwHand[tcp(p)]) <= 1
    /\ cwState[tcp(p)] \in {"unspawned", "running"} => cwReason[tcp(p)] = "none"
    /\ cwReason[tcp(p)] = "none" => cwState[tcp(p)] \in {"unspawned", "running"}
    /\ cwReason[tcp(p)] = "ActorHandlesDropped" =>
          ~cwHandle[tcp(p)] /\ cwMsgs[tcp(p)] = <<>> /\ cwHand[tcp(p)] = <<>>
    /\ client[p] = "running" => cwHandle[tcp(p)] /\ cEventReceiver[p]
    /\ client[p] = "unspawned" => cwState[tcp(p)] = "unspawned"
    /\ cwReason[tcp(p)] = "SinkError" => R!ReaderFinished(p)
    /\ reset[p] => R!ReaderFinished(p) \/ C!W!WriterFinished(tcp(p))

\* While the server can still read the connection, no message is missing.
Reading(p) == rState[p] \in {"unspawned", "running"} /\ rStream[p] = "open"

Flow(p) ==
    /\ cwReason[tcp(p)] # "SinkError"
    /\ cwSink[tcp(p)] = <<>>
    /\ InFlow(client[p], accepted[p]["tcp"], reads[p], up[p], cwHand[tcp(p)], cwMsgs[tcp(p)], cMsgs[p])

\* The last thing that was read from the connection is not a message.
FailedLast(p) ==
    /\ reads[p] >= 1
    /\ \A i \in HeardIn(events[p]) : events[p][i].n # reads[p]
    /\ rTx[p] # <<>> => rTx[p][Len(rTx[p])].kind # "Message"

\* The client has ended, and if it left, everything it sent was read.
Drained(p) == client[p] = "panicked" \/ (client[p] = "left" /\ reads[p] = accepted[p]["tcp"])

PeerFlow(p) ==
    /\ WriterTrue(p)
    /\ Reading(p) => Flow(p)
    /\ rStream[p] = "ended" => FailedLast(p) \/ Drained(p)
    /\ rState[p] = "EndOfStream" => rStream[p] = "ended"

FlowInv == FlowTypes /\ \A p \in PeerUids : PeerFlow(p)

\* A client, with its end of the connection, that a step leaves alone.
Kept(p) ==
    /\ client'[p] = client[p] /\ cEventReceiver'[p] = cEventReceiver[p]
    /\ cMsgs'[p] = cMsgs[p] /\ accepted'[p]["tcp"] = accepted[p]["tcp"]
    /\ cwState'[tcp(p)] = cwState[tcp(p)] /\ cwReason'[tcp(p)] = cwReason[tcp(p)]
    /\ cwMsgs'[tcp(p)] = cwMsgs[tcp(p)] /\ cwHandle'[tcp(p)] = cwHandle[tcp(p)]
    /\ cwHand'[tcp(p)] = cwHand[tcp(p)] /\ cwSink'[tcp(p)] = cwSink[tcp(p)]
    /\ up'[p] = up[p] /\ reset'[p] = reset[p]

\* What a step of the server may do to the reader of a peer without reading.
ReaderKept(p) ==
    /\ rStream'[p] = rStream[p] /\ reads'[p] = reads[p]
    /\ R!ReaderFinished(p) => R!ReaderFinished(p)'
    /\ rState'[p] \in {"unspawned", "running"} => rState[p] \in {"unspawned", "running"}
    /\ rState'[p] = "EndOfStream" => rState[p] = "EndOfStream" \/ rStream[p] = "ended"
    /\ FailedLast(p) => FailedLast(p)'

\* A peer whose client does nothing.
LEMMA KeptFlow ==
  ASSUME NEW p \in PeerUids, PeerFlow(p), Kept(p), ReaderKept(p)
  PROVE  PeerFlow(p)'
<1>1. WriterTrue(p)'
  BY DEF PeerFlow, WriterTrue, Kept, ReaderKept, C!W!WriterFinished
<1>2. Reading(p)' => Flow(p)'
  <2>1. Reading(p)' => Flow(p)
    BY DEF PeerFlow, Reading, ReaderKept
  <2>2. Flow(p) => Flow(p)'
    BY Zenon DEF Flow, Kept, ReaderKept
  <2> QED
    BY <2>1, <2>2
<1>3. rStream'[p] = "ended" => FailedLast(p)' \/ Drained(p)'
  BY DEF PeerFlow, Drained, Kept, ReaderKept
<1>4. rState'[p] = "EndOfStream" => rStream'[p] = "ended"
  BY DEF PeerFlow, ReaderKept
<1> QED
  BY <1>1, <1>2, <1>3, <1>4 DEF PeerFlow

\* The server does nothing.
LEMMA StillReader ==
  ASSUME UNCHANGED vars, NEW p \in PeerUids
  PROVE  ReaderKept(p)
<1>1. UNCHANGED <<rState, rStream, reads, rTx, events>>
  BY DEF vars, rTask, rLink, net
<1> QED
  BY <1>1 DEF ReaderKept, R!ReaderFinished, FailedLast

\* A step of a client: the server is as it was.
LEMMA ClientFlow ==
  ASSUME NEW p \in PeerUids, UNCHANGED vars, PeerFlow(p), WriterTrue(p)',
         Reading(p) /\ Flow(p) => Flow(p)', Drained(p) => Drained(p)'
  PROVE  PeerFlow(p)'
<1>1. UNCHANGED <<rState, rStream, reads, rTx, events>>
  BY DEF vars, rTask, rLink, net
<1>2. Reading(p)' = Reading(p) /\ (FailedLast(p) => FailedLast(p)')
  BY <1>1 DEF Reading, FailedLast
<1> QED
  BY <1>1, <1>2 DEF PeerFlow

\* The types, for one client.
LEMMA FlowPieces ==
  ASSUME FlowTypes, NEW p \in PeerUids
  PROVE  /\ tcp(p) \in C!Sockets
         /\ accepted[p]["tcp"] \in Nat /\ reads[p] \in Nat /\ up[p] \in Seq(Nat)
         /\ cwHand[tcp(p)] \in Seq(SendOps) /\ cwMsgs[tcp(p)] \in Seq(SendOps)
         /\ cMsgs[p] \in Seq(C!Message)
  BY DEF FlowTypes, tcp, C!Sockets, C!Protocols

\* A step of one client is no step of another.
Others(p) == \A q \in PeerUids : q # p => Kept(q)

\* The handle accepts a message.
LEMMA FlowSend ==
  ASSUME FlowTypes, NEW p \in PeerUids, PeerFlow(p), UNCHANGED <<vars, up, reset>>,
         NEW s \in C!Protocols, C!send_message(p, s)
  PROVE  FlowTypes' /\ PeerFlow(p)' /\ Others(p)
<1>1. /\ client[p] = "running"
      /\ UNCHANGED <<client, cEventReceiver, cwState, cwReason, cwMsgs, cwHandle, cwHand, cwSink, rStream, reads, rState>>
      /\ accepted' = [accepted EXCEPT ![p][s] = @ + 1]
      /\ cMsgs' = [cMsgs EXCEPT ![p] = Append(@, [to |-> s, n |-> accepted[p][s] + 1])]
  BY DEF C!send_message, C!Accepts, C!AppUnchanged, C!wTask, C!wLink, vars, rTask, net
<1>2. PICK w \in Seq(C!Message), k \in Nat, m \in C!Message :
         /\ w = cMsgs[p] /\ k = accepted[p]["tcp"]
         /\ m = [to |-> s, n |-> accepted[p][s] + 1]
  <2>1. cMsgs[p] \in Seq(C!Message) /\ accepted[p]["tcp"] \in Nat /\ accepted[p][s] \in Nat
    BY DEF FlowTypes, C!Protocols
  <2>2. [to |-> s, n |-> accepted[p][s] + 1] \in C!Message
    BY <2>1 DEF C!Message
  <2> QED
    BY <2>1, <2>2, Zenon
<1>3. Append(w, m) \in Seq(C!Message)
  BY AppendOf
<1>4. cMsgs' = [cMsgs EXCEPT ![p] = Append(w, m)]
  BY <1>1, <1>2
<1>5. /\ cMsgs' \in [PeerUids -> Seq(C!Message)]
      /\ \A q \in PeerUids : cMsgs'[q] = IF q = p THEN Append(w, m) ELSE cMsgs[q]
  BY <1>3, <1>4 DEF FlowTypes
<1>6. /\ accepted' \in [PeerUids -> [C!Protocols -> Nat]]
      /\ \A q \in PeerUids : q # p => accepted'[q] = accepted[q]
      /\ accepted'[p]["tcp"] = IF s = "tcp" THEN k + 1 ELSE k
  BY <1>1, <1>2 DEF FlowTypes, C!Protocols
<1>7. FlowTypes'
  BY <1>1, <1>5, <1>6 DEF FlowTypes
<1>8. Others(p)
  BY <1>1, <1>5, <1>6 DEF Others, Kept
<1>9. WriterTrue(p)'
  BY <1>1 DEF PeerFlow, WriterTrue, C!W!WriterFinished, R!ReaderFinished
<1>10. ASSUME Flow(p) PROVE Flow(p)'
  <2>1. PICK r \in Nat, u \in Seq(Nat), hand \in Seq(SendOps), msgs \in Seq(SendOps) :
           r = reads[p] /\ u = up[p] /\ hand = cwHand[tcp(p)] /\ msgs = cwMsgs[tcp(p)]
    BY FlowPieces, Zenon
  <2>2. InFlow("running", k, r, u, hand, msgs, w)
    BY <1>1, <1>2, <1>10, <2>1, Zenon DEF Flow
  <2>3. /\ m.to # "tcp" => InFlow("running", k, r, u, hand, msgs, Append(w, m))
        /\ m.to = "tcp" /\ m.n = k + 1 => InFlow("running", k + 1, r, u, hand, msgs, Append(w, m))
    BY <2>2, FlowAccepts
  <2>4. InFlow("running", accepted'[p]["tcp"], r, u, hand, msgs, Append(w, m))
    BY <1>2, <1>6, <2>3
  <2>5. cMsgs'[p] = Append(w, m)
    BY <1>5
  <2> QED
    BY <1>1, <1>10, <2>1, <2>4, <2>5, Zenon DEF Flow
<1> QED
  BY <1>1, <1>7, <1>8, <1>9, <1>10, ClientFlow DEF Drained


\* The client takes a message of its handle (src/src/client/actor.rs:123) and
\* hands it to a write actor, or answers it.
LEMMA FlowTaken ==
  ASSUME FlowTypes, NEW p \in PeerUids, PeerFlow(p),
         UNCHANGED <<vars, up, reset, client, cEventReceiver, accepted, cwState, cwReason, cwHandle,
                     cwHand, cwSink>>,
         client[p] = "running", cMsgs[p] # <<>>, cMsgs' = [cMsgs EXCEPT ![p] = Tail(@)],
         NEW x \in SendOps,
         \/ /\ Head(cMsgs[p]).to = "tcp" /\ x.item.n = Head(cMsgs[p]).n
            /\ cwMsgs' = [cwMsgs EXCEPT ![tcp(p)] = Append(cwMsgs[tcp(p)], x)]
         \/ /\ Head(cMsgs[p]).to # "tcp"
            /\ \/ cwMsgs' = [cwMsgs EXCEPT ![<<p, "udp">>] = Append(cwMsgs[<<p, "udp">>], x)]
               \/ cwMsgs' = cwMsgs
  PROVE  FlowTypes' /\ PeerFlow(p)' /\ Others(p)
<1>1. UNCHANGED <<rStream, reads, rState>>
  BY DEF vars, rTask, net
<1>2. /\ tcp(p) \in C!Sockets
      /\ accepted[p]["tcp"] \in Nat /\ reads[p] \in Nat /\ up[p] \in Seq(Nat)
      /\ cwHand[tcp(p)] \in Seq(SendOps) /\ cwMsgs[tcp(p)] \in Seq(SendOps)
      /\ cMsgs[p] \in Seq(C!Message)
  BY FlowPieces
<1>3. Tail(cMsgs[p]) \in Seq(C!Message)
  BY <1>2, TailOf
<1>4. /\ cMsgs' \in [PeerUids -> Seq(C!Message)]
      /\ \A q \in PeerUids : cMsgs'[q] = IF q = p THEN Tail(cMsgs[p]) ELSE cMsgs[q]
  BY <1>3 DEF FlowTypes
<1>5. <<p, "udp">> \in C!Sockets /\ <<p, "udp">> # tcp(p) /\ cwMsgs[<<p, "udp">>] \in Seq(SendOps)
  BY DEF tcp, C!Sockets, C!Protocols, FlowTypes
<1>6. Append(cwMsgs[tcp(p)], x) \in Seq(SendOps) /\ Append(cwMsgs[<<p, "udp">>], x) \in Seq(SendOps)
  BY <1>2, <1>5, AppendOf
<1>7. /\ cwMsgs' \in [C!Sockets -> Seq(SendOps)]
      /\ \A q \in PeerUids : q # p => cwMsgs'[tcp(q)] = cwMsgs[tcp(q)]
      /\ cwMsgs'[tcp(p)] = IF Head(cMsgs[p]).to = "tcp" THEN Append(cwMsgs[tcp(p)], x) ELSE cwMsgs[tcp(p)]
  <2>1. \A q \in PeerUids : tcp(q) \in C!Sockets /\ tcp(q) # <<p, "udp">> /\ (q # p => tcp(q) # tcp(p))
    BY DEF tcp, C!Sockets, C!Protocols
  <2>2. cwMsgs \in [C!Sockets -> Seq(SendOps)]
    BY DEF FlowTypes
  <2> QED
    BY <1>2, <1>5, <1>6, <2>1, <2>2
<1>8. FlowTypes'
  BY <1>1, <1>4, <1>7 DEF FlowTypes
<1>9. Others(p)
  BY <1>4, <1>7 DEF Others, Kept
<1>10. WriterTrue(p)'
  BY <1>1 DEF PeerFlow, WriterTrue, C!W!WriterFinished, R!ReaderFinished
<1>11. ASSUME Flow(p) PROVE Flow(p)'
  <2>1. PICK r \in Nat, u \in Seq(Nat), hand \in Seq(SendOps), msgs \in Seq(SendOps),
             w \in Seq(C!Message), k \in Nat :
           /\ r = reads[p] /\ u = up[p] /\ hand = cwHand[tcp(p)] /\ msgs = cwMsgs[tcp(p)]
           /\ w = cMsgs[p] /\ k = accepted[p]["tcp"]
    BY <1>2, Zenon
  <2>2. InFlow("running", k, r, u, hand, msgs, w)
    BY <1>11, <2>1, Zenon DEF Flow
  <2>3. /\ Head(w).to # "tcp" => InFlow("running", k, r, u, hand, msgs, Tail(w))
        /\ Head(w).to = "tcp" /\ x.item.n = Head(w).n =>
               InFlow("running", k, r, u, hand, Append(msgs, x), Tail(w))
    <3>1. w # <<>>
      BY <2>1
    <3> QED
      BY <2>2, <3>1, FlowHands
  <2>4. InFlow("running", k, r, u, hand, cwMsgs'[tcp(p)], Tail(w))
    BY <1>7, <2>1, <2>3, Zenon
  <2>5. cMsgs'[p] = Tail(w)
    BY <1>4, <2>1
  <2> QED
    BY <1>1, <1>11, <2>1, <2>4, <2>5, Zenon DEF Flow
<1> QED
  BY <1>8, <1>9, <1>10, <1>11, ClientFlow DEF Drained

\* The client leaves its loop, or panics.
LEMMA FlowGone ==
  ASSUME FlowTypes, NEW p \in PeerUids, PeerFlow(p), UNCHANGED <<vars, up, reset>>,
         client[p] = "running", NEW how, C!Leave(p, how),
         how = "panicked" \/ (how = "left" /\ cMsgs[p] = <<>>)
  PROVE  FlowTypes' /\ PeerFlow(p)' /\ Others(p)
<1>1. /\ UNCHANGED <<rStream, reads, rState, cEventReceiver, accepted, cwState, cwReason, cwHand, cwSink, cwMsgs>>
      /\ client' = [client EXCEPT ![p] = how] /\ cMsgs' = [cMsgs EXCEPT ![p] = <<>>]
      /\ cwHandle' = C!Both(cwHandle, p, FALSE)
  BY DEF vars, rTask, net, C!Leave, C!drop_handles, C!wTask
<1>2. /\ tcp(p) \in C!Sockets
      /\ accepted[p]["tcp"] \in Nat /\ reads[p] \in Nat /\ up[p] \in Seq(Nat)
      /\ cwHand[tcp(p)] \in Seq(SendOps) /\ cwMsgs[tcp(p)] \in Seq(SendOps)
      /\ cMsgs[p] \in Seq(C!Message)
  BY FlowPieces
<1>3. <<>> \in Seq(C!Message)
  OBVIOUS
<1>4. /\ cMsgs' \in [PeerUids -> Seq(C!Message)]
      /\ \A q \in PeerUids : cMsgs'[q] = IF q = p THEN <<>> ELSE cMsgs[q]
  BY <1>1, <1>3 DEF FlowTypes
<1>5. /\ client' \in [PeerUids -> {"unspawned", "running", "left", "panicked"}]
      /\ \A q \in PeerUids : client'[q] = IF q = p THEN how ELSE client[q]
  BY <1>1 DEF FlowTypes
<1>6. /\ cwHandle' \in [C!Sockets -> BOOLEAN]
      /\ \A q \in PeerUids : cwHandle'[tcp(q)] = IF q = p THEN FALSE ELSE cwHandle[tcp(q)]
  BY <1>1 DEF FlowTypes, C!Both, tcp, C!Sockets, C!Protocols
<1>8. FlowTypes'
  BY <1>1, <1>4, <1>5, <1>6 DEF FlowTypes
<1>9. Others(p)
  BY <1>1, <1>4, <1>5, <1>6 DEF Others, Kept
<1>10. WriterTrue(p)'
  BY <1>1, <1>5, <1>6 DEF PeerFlow, WriterTrue, C!W!WriterFinished, R!ReaderFinished
<1>11. ASSUME Flow(p) PROVE Flow(p)'
  <2>1. PICK r \in Nat, u \in Seq(Nat), hand \in Seq(SendOps), msgs \in Seq(SendOps), k \in Nat :
           /\ r = reads[p] /\ u = up[p] /\ hand = cwHand[tcp(p)] /\ msgs = cwMsgs[tcp(p)]
           /\ k = accepted[p]["tcp"]
    BY <1>2, Zenon
  <2>2. InFlow("running", k, r, u, hand, msgs, cMsgs[p])
    BY <1>11, <2>1, Zenon DEF Flow
  <2>3. /\ InFlow("panicked", k, r, u, hand, msgs, <<>>)
        /\ cMsgs[p] = <<>> => InFlow("left", k, r, u, hand, msgs, <<>>)
    BY <2>2, FlowLeaves
  <2>4. InFlow(how, k, r, u, hand, msgs, <<>>)
    BY <2>3, Zenon
  <2>5. cMsgs'[p] = <<>> /\ client'[p] = how
    BY <1>4, <1>5
  <2> QED
    BY <1>1, <1>11, <2>1, <2>4, <2>5, Zenon DEF Flow
<1>12. ~Drained(p)
  BY DEF Drained
<1> QED
  BY <1>8, <1>9, <1>10, <1>11, <1>12, ClientFlow

\* A step of which the messages' way sees nothing.
Elsewhere == FlowTypes' /\ \A q \in PeerUids : Kept(q)

\* What the loop does without a message to pass on.
LEMMA FlowElsewhere ==
  ASSUME FlowTypes, NEW p \in PeerUids,
         UNCHANGED <<vars, up, reset, client, cEventReceiver, cMsgs, accepted, cwState, cwReason,
                     cwHandle, cwHand, cwSink>>,
         NEW x \in SendOps,
         \/ cwMsgs' = cwMsgs
         \/ cwMsgs' = [cwMsgs EXCEPT ![<<p, "udp">>] = Append(cwMsgs[<<p, "udp">>], x)]
  PROVE  Elsewhere
<1>1. UNCHANGED <<rStream, reads>>
  BY DEF vars, rTask, net
<1>5. <<p, "udp">> \in C!Sockets /\ cwMsgs[<<p, "udp">>] \in Seq(SendOps)
  BY DEF C!Sockets, C!Protocols, FlowTypes
<1>6. Append(cwMsgs[<<p, "udp">>], x) \in Seq(SendOps)
  BY <1>5, AppendOf
<1>7. /\ cwMsgs' \in [C!Sockets -> Seq(SendOps)]
      /\ \A q \in PeerUids : cwMsgs'[tcp(q)] = cwMsgs[tcp(q)]
  <2>1. \A q \in PeerUids : tcp(q) \in C!Sockets /\ tcp(q) # <<p, "udp">>
    BY DEF tcp, C!Sockets, C!Protocols
  <2>2. cwMsgs \in [C!Sockets -> Seq(SendOps)]
    BY DEF FlowTypes
  <2> QED
    BY <1>5, <1>6, <2>1, <2>2
<1> QED
  BY <1>1, <1>7 DEF Elsewhere, FlowTypes, Kept

\* A step elsewhere, when the server does nothing.
LEMMA ElsewhereKeeps ==
  ASSUME UNCHANGED vars, NEW p \in PeerUids, PeerFlow(p), Elsewhere
  PROVE  FlowTypes' /\ PeerFlow(p)' /\ Others(p)
  BY KeptFlow, StillReader DEF Elsewhere, Others


\* What the client gives to a write actor.
LEMMA SendsAreOps ==
  ASSUME NEW y \in {"Hello", "ApplicationLogic"}, NEW n \in Nat
  PROVE  C!W!Send([msg |-> y, n |-> n]) \in SendOps /\ C!W!Send([msg |-> y, n |-> n]).item.n = n
  BY DEF C!W!Send, SendOps, SendItems

\* Every arm of the client's loop (src/src/client/actor.rs:120-215).
LEMMA FlowLoop ==
  ASSUME FlowTypes, NEW p \in PeerUids, PeerFlow(p), ClientLoop(p)
  PROVE  FlowTypes' /\ PeerFlow(p)' /\ Others(p)
<1>1. UNCHANGED <<vars, up, reset>>
  BY DEF ClientLoop, links
<1>2. client[p] = "running" => cEventReceiver[p]
  BY DEF PeerFlow, WriterTrue
<1>3. ASSUME C!Leave(p, "panicked"), C!Free(p) PROVE FlowTypes' /\ PeerFlow(p)' /\ Others(p)
  BY <1>1, <1>3, FlowGone DEF C!Free
<1>4. CASE C!ActorMessagesEnd(p)
  BY <1>1, <1>4, FlowGone DEF C!ActorMessagesEnd, C!Ready, C!Free
<1>5. ASSUME NEW s \in C!Protocols, C!ToServer(p, s) PROVE FlowTypes' /\ PeerFlow(p)' /\ Others(p)
  <2>1. C!Free(p) /\ client[p] = "running" /\ cMsgs[p] # <<>> /\ Head(cMsgs[p]).to = s
    BY <1>5 DEF C!ToServer, C!MessageIs, C!Ready, C!Free
  <2>2. CASE ~C!W!Accepts(<<p, s>>)
    BY <1>3, <1>5, <2>1, <2>2 DEF C!ToServer
  <2>3. CASE C!W!Accepts(<<p, s>>)
    <3>1. Head(cMsgs[p]) \in C!Message /\ Head(cMsgs[p]).n \in Nat
      <4>1. Head(cMsgs[p]) \in C!Message
        BY <2>1, FlowPieces, TailOf
      <4> QED
        BY <2>1, <4>1 DEF C!Message, C!Protocols
    <3>2. PICK x \in SendOps : /\ x = C!W!Send([msg |-> "ApplicationLogic", n |-> Head(cMsgs[p]).n])
                               /\ x.item.n = Head(cMsgs[p]).n
      BY <3>1, SendsAreOps
    <3>3. /\ UNCHANGED <<client, cEventReceiver, accepted, cwState, cwReason, cwHandle, cwHand, cwSink>>
          /\ cMsgs' = [cMsgs EXCEPT ![p] = Tail(@)]
          /\ cwMsgs' = [cwMsgs EXCEPT ![<<p, s>>] = Append(cwMsgs[<<p, s>>], x)]
      BY <1>5, <2>3, <3>2 DEF C!ToServer, C!MessageDone, C!wTask, C!W!send_actor_message
    <3> QED
      BY <1>1, <2>1, <3>2, <3>3, FlowTaken DEF C!Protocols, tcp
  <2> QED
    BY <2>2, <2>3
<1>6. CASE C!GetStatus(p)
  <2>1. client[p] = "running" /\ cMsgs[p] # <<>> /\ Head(cMsgs[p]).to = "GetStatus"
    BY <1>6 DEF C!GetStatus, C!MessageIs, C!Ready, C!Free
  <2>2. /\ UNCHANGED <<client, cEventReceiver, accepted, cwState, cwReason, cwHandle, cwHand, cwSink, cwMsgs>>
        /\ cMsgs' = [cMsgs EXCEPT ![p] = Tail(@)]
    BY <1>6 DEF C!GetStatus, C!MessageDone, C!wTask
  <2>3. PICK x \in SendOps : TRUE
    BY SendsAreOps
  <2> QED
    BY <1>1, <2>1, <2>2, <2>3, FlowTaken
<1>7. ASSUME UNCHANGED <<client, cEventReceiver, cMsgs, accepted, cwState, cwReason, cwHandle, cwHand,
                         cwSink>>,
             NEW x \in SendOps,
             \/ cwMsgs' = cwMsgs
             \/ cwMsgs' = [cwMsgs EXCEPT ![<<p, "udp">>] = Append(cwMsgs[<<p, "udp">>], x)]
      PROVE  FlowTypes' /\ PeerFlow(p)' /\ Others(p)
  BY <1>1, <1>7, FlowElsewhere, ElsewhereKeeps
<1>8. ASSUME C!Receive(p, "tcp") \/ C!Receive(p, "udp"), cwMsgs' = cwMsgs
      PROVE  FlowTypes' /\ PeerFlow(p)' /\ Others(p)
  <2>1. PICK x \in SendOps : TRUE
    BY SendsAreOps
  <2> QED
    BY <1>7, <1>8, <2>1 DEF C!Receive, C!app, C!wTask
<1>9. ASSUME C!ItemDone(p) PROVE FlowTypes' /\ PeerFlow(p)' /\ Others(p)
  <2>1. PICK x \in SendOps : TRUE
    BY SendsAreOps
  <2> QED
    BY <1>7, <1>9, <2>1 DEF C!ItemDone, C!app, C!wTask, C!wLink
<1>10. CASE C!TcpWelcome(p)
  <2>1. PICK x \in SendOps : x = C!W!Send([msg |-> "Hello", n |-> 0])
    BY SendsAreOps
  <2>2. \/ cwMsgs' = cwMsgs
        \/ cwMsgs' = [cwMsgs EXCEPT ![<<p, "udp">>] = Append(cwMsgs[<<p, "udp">>], x)]
    <3>1. cwMsgs' = [cwMsgs EXCEPT ![<<p, "udp">>] = C!W!send_actor_message(<<p, "udp">>, x)]
      BY <1>10, <2>1 DEF C!TcpWelcome
    <3>2. CASE C!W!Accepts(<<p, "udp">>)
      BY <3>1, <3>2 DEF C!W!send_actor_message
    <3>3. CASE ~C!W!Accepts(<<p, "udp">>)
      BY <3>1, <3>3 DEF C!W!send_actor_message, FlowTypes
    <3> QED
      BY <3>2, <3>3
  <2> QED
    BY <1>7, <1>10, <2>1, <2>2 DEF C!TcpWelcome, C!Receive, C!app, C!wTask
<1>11. CASE C!UdpHandshakeAcknowledged(p) \/ C!UdpItem(p)
  BY <1>8, <1>11 DEF C!UdpHandshakeAcknowledged, C!UdpItem
<1>12. CASE C!TcpApplicationLogic(p)
  BY <1>2, <1>8, <1>12 DEF C!TcpApplicationLogic, C!ReaderHas, C!Ready, C!Free
<1>13. CASE C!TcpError(p)
  BY <1>3, <1>13 DEF C!TcpError, C!ReaderHas, C!Ready
<1>14. CASE C!UdpWelcome(p) \/ C!UdpHeartbeat(p)
  BY <1>9, <1>14 DEF C!UdpWelcome, C!UdpHeartbeat
<1>15. CASE C!UdpApplicationLogic(p)
  BY <1>2, <1>9, <1>15 DEF C!UdpApplicationLogic, C!ItemIs, C!Free
<1>16. CASE C!UdpError(p)
  BY <1>3, <1>16 DEF C!UdpError, C!ItemIs
<1> QED
  BY <1>4, <1>5, <1>6, <1>10, <1>11, <1>12, <1>13, <1>14, <1>15, <1>16
  DEF ClientLoop, C!OnMessage, C!OnTcp, C!OnDatagram


-----------------------------------------------------------------------------
(* The client's write actors.                                              *)

\* One element more is a sequence of one behind the others.
LEMMA ConcatOne ==
  ASSUME NEW S, NEW s \in Seq(S), NEW x \in S
  PROVE  s \o <<x>> = Append(s, x)
  OBVIOUS

\* One sequence behind another.
LEMMA ConcatOf ==
  ASSUME NEW S, NEW s \in Seq(S), NEW n \in Nat, NEW f \in [1 .. n -> S]
  PROVE  s \o f \in Seq(S) /\ (n = 0 => s \o f = s)
<1>1. f \in Seq(S) /\ Len(f) = n
  OBVIOUS
<1>2. s \o f \in Seq(S)
  BY <1>1
<1>3. ASSUME n = 0 PROVE s \o f = s
  BY <1>1, <1>3
<1> QED
  BY <1>2, <1>3

\* What a write actor of the client has to write.
LEMMA ClientPending ==
  ASSUME FlowTypes, NEW a \in C!Sockets
  PROVE  /\ C!W!Pending(a) \in Seq(SendItems)
         /\ cwHand[a] # <<>> =>
               /\ Head(cwHand[a]) \in SendOps
               /\ C!W!Pending(a) = Append(cwSink[a], Head(cwHand[a]).item)
               /\ C!W!SinkWrites(a) = {Len(C!W!Pending(a))}
         /\ cwHand[a] = <<>> => C!W!Pending(a) = cwSink[a]
<1>1. cwHand[a] \in Seq(SendOps) /\ cwSink[a] \in Seq(SendItems)
  BY DEF FlowTypes
<1>2. ASSUME cwHand[a] # <<>>
      PROVE  /\ Head(cwHand[a]) \in SendOps
             /\ C!W!Pending(a) = Append(cwSink[a], Head(cwHand[a]).item)
             /\ C!W!SinkWrites(a) = {Len(C!W!Pending(a))}
             /\ C!W!Pending(a) \in Seq(SendItems)
  <2>1. Head(cwHand[a]) \in SendOps
    BY <1>1, <1>2, TailOf
  <2>2. Head(cwHand[a]).op = "Send" /\ Head(cwHand[a]).item \in SendItems
    BY <2>1 DEF SendOps
  <2>3. C!W!Pending(a) = cwSink[a] \o <<Head(cwHand[a]).item>>
    BY <1>2, <2>2 DEF C!W!Pending, C!W!Payload
  <2>4. C!W!Pending(a) = Append(cwSink[a], Head(cwHand[a]).item)
    BY <1>1, <2>2, <2>3, ConcatOne
  <2>5. C!W!SinkWrites(a) = {Len(C!W!Pending(a))}
    BY <2>2 DEF C!W!SinkWrites
  <2>6. C!W!Pending(a) \in Seq(SendItems)
    BY <1>1, <2>2, <2>4, AppendOf
  <2> QED
    BY <2>1, <2>4, <2>5, <2>6
<1>3. ASSUME cwHand[a] = <<>> PROVE C!W!Pending(a) = cwSink[a] /\ C!W!Pending(a) \in Seq(SendItems)
  BY <1>1, <1>3 DEF C!W!Pending
<1> QED
  BY <1>2, <1>3

\* A write actor that is not the one of the step.
SameWriter(b) ==
    /\ cwState'[b] = cwState[b] /\ cwReason'[b] = cwReason[b] /\ cwMsgs'[b] = cwMsgs[b]
    /\ cwHand'[b] = cwHand[b] /\ cwSink'[b] = cwSink[b]

ClientWriterStep(a, n) ==
    C!W!WriterProgress(a) \/ C!W!SinkDone(a, n) \/ C!W!SinkFails(a, n) \/ C!W!CloseSink(a, n)

\* The types, and the other write actors, when one of them makes a step.
LEMMA FlowWriter ==
  ASSUME FlowTypes, NEW a \in C!Sockets, NEW n, ClientWriterStep(a, n),
         UNCHANGED <<vars, reset, client, cEventReceiver, cMsgs, accepted>>,
         up' \in [PeerUids -> Seq(Nat)]
  PROVE  /\ FlowTypes' /\ cwHandle' = cwHandle
         /\ \A b \in C!Sockets : b # a => SameWriter(b)
<1>1. UNCHANGED <<rStream, reads>>
  BY DEF vars, rTask, net
<1>2. /\ cwState \in [C!Sockets -> {"unspawned", "running", "closing", "none"} \cup C!W!WriteOutcome]
      /\ cwReason \in [C!Sockets -> {"none", "ActorHandlesDropped", "SinkError"}]
      /\ cwMsgs \in [C!Sockets -> Seq(SendOps)]
      /\ cwHand \in [C!Sockets -> Seq(SendOps)]
      /\ cwSink \in [C!Sockets -> Seq(SendItems)]
  BY DEF FlowTypes
<1>3. <<>> \in Seq(SendOps) /\ <<>> \in Seq(SendItems)
  OBVIOUS
<1> DEFINE Typed ==
      /\ cwState' \in [C!Sockets -> {"unspawned", "running", "closing", "none"} \cup C!W!WriteOutcome]
      /\ cwReason' \in [C!Sockets -> {"none", "ActorHandlesDropped", "SinkError"}]
      /\ cwMsgs' \in [C!Sockets -> Seq(SendOps)]
      /\ cwHandle' = cwHandle
      /\ cwHand' \in [C!Sockets -> Seq(SendOps)]
      /\ cwSink' \in [C!Sockets -> Seq(SendItems)]
      /\ \A b \in C!Sockets : b # a => SameWriter(b)
<1> SUFFICES Typed
  BY <1>1 DEF FlowTypes
<1>4. CASE C!W!TakeMessage(a)
  <2>1. cwMsgs[a] \in Seq(SendOps) /\ cwMsgs[a] # <<>>
    BY <1>2, <1>4 DEF C!W!TakeMessage
  <2>2. Head(cwMsgs[a]) \in SendOps /\ Tail(cwMsgs[a]) \in Seq(SendOps)
    BY <2>1, TailOf
  <2>3. PICK h \in Seq(SendOps), t \in Seq(SendOps) : h = <<Head(cwMsgs[a])>> /\ t = Tail(cwMsgs[a])
    <3>1. <<Head(cwMsgs[a])>> \in Seq(SendOps)
      BY <2>2
    <3> QED
      BY <2>2, <3>1, Zenon
  <2>4. /\ cwHand' = [cwHand EXCEPT ![a] = h] /\ cwMsgs' = [cwMsgs EXCEPT ![a] = t]
        /\ UNCHANGED <<cwState, cwReason, cwHandle, cwSink>>
    BY <1>4, <2>3 DEF C!W!TakeMessage
  <2> QED
    BY <1>2, <2>4 DEF SameWriter
<1>5. ASSUME C!W!TakeShutdown(a) PROVE FALSE
  <2>1. cwMsgs[a] \in Seq(SendOps) /\ cwMsgs[a] # <<>> /\ Head(cwMsgs[a]) = C!W!Shutdown
    BY <1>2, <1>5 DEF C!W!TakeShutdown
  <2>2. Head(cwMsgs[a]) \in SendOps
    BY <2>1, TailOf
  <2> QED
    BY <2>1, <2>2 DEF SendOps, C!W!Shutdown
<1>6. CASE C!W!AllHandlesDropped(a)
  BY <1>2, <1>6 DEF C!W!AllHandlesDropped, C!W!BeginClose, SameWriter
<1>7. CASE C!W!SinkDone(a, n) \/ C!W!SinkFails(a, n)
  <2>1. cwHand[a] # <<>> /\ C!W!Pending(a) \in Seq(SendItems) /\ Len(C!W!Pending(a)) \in Nat
    BY <1>7, ClientPending DEF C!W!SinkDone, C!W!SinkFails
  <2>2. n \in 0 .. Len(C!W!Pending(a))
    <3>1. C!W!SinkWrites(a) = {Len(C!W!Pending(a))}
      BY <2>1, ClientPending
    <3> QED
      BY <1>7, <2>1, <3>1 DEF C!W!SinkDone, C!W!SinkFails
  <2>3. C!W!Rest(a, n) \in Seq(SendItems)
    <3>1. PICK s \in Seq(SendItems) : s = C!W!Pending(a)
      BY <2>1
    <3>2. n + 1 \in 1 .. Len(s) + 1 /\ n \in Nat
      BY <2>1, <2>2, <3>1
    <3>3. SubSeq(s, n + 1, Len(s)) \in Seq(SendItems)
      BY <3>2
    <3> QED
      BY <3>1, <3>3 DEF C!W!Rest
  <2>4. PICK e \in Seq(SendItems), h \in Seq(SendOps) : e = C!W!Rest(a, n) /\ h = <<>>
    BY <1>3, <2>3
  <2>5. /\ cwHand' = [cwHand EXCEPT ![a] = h] /\ cwSink' = [cwSink EXCEPT ![a] = e]
        /\ UNCHANGED <<cwMsgs, cwHandle>>
        /\ \/ UNCHANGED <<cwState, cwReason>>
           \/ /\ cwState' = [cwState EXCEPT ![a] = "closing"]
              /\ cwReason' = [cwReason EXCEPT ![a] = "SinkError"]
    BY <1>7, <2>4 DEF C!W!SinkDone, C!W!SinkFails, C!W!BeginClose
  <2> QED
    BY <1>2, <2>5 DEF SameWriter
<1>8. CASE C!W!CloseSink(a, n)
  BY <1>2, <1>3, <1>8 DEF C!W!CloseSink, SameWriter, C!W!WriteOutcome, C!W!WriteActorShutdownReason
<1> QED
  BY <1>4, <1>5, <1>6, <1>7, <1>8 DEF ClientWriterStep, C!W!WriterProgress


\* A step of the UDP write actor is elsewhere.
LEMMA FlowUdpWriter ==
  ASSUME FlowTypes, NEW p \in PeerUids, NEW n, ClientWriterStep(<<p, "udp">>, n),
         UNCHANGED <<vars, reset, up, client, cEventReceiver, cMsgs, accepted>>
  PROVE  Elsewhere
<1>1. /\ <<p, "udp">> \in C!Sockets
      /\ \A q \in PeerUids : tcp(q) \in C!Sockets /\ tcp(q) # <<p, "udp">>
  BY DEF tcp, C!Sockets, C!Protocols
<1>2. up' \in [PeerUids -> Seq(Nat)]
  BY DEF FlowTypes
<1>3. /\ FlowTypes' /\ cwHandle' = cwHandle
      /\ \A b \in C!Sockets : b # <<p, "udp">> => SameWriter(b)
  BY <1>1, <1>2, FlowWriter
<1> QED
  BY <1>1, <1>3 DEF Elsewhere, Kept, SameWriter

\* The TCP write actor, but for what it does to its own client.
LEMMA FlowTcpWriter ==
  ASSUME FlowTypes, NEW p \in PeerUids, NEW n, ClientWriterStep(tcp(p), n),
         UNCHANGED <<vars, reset, client, cEventReceiver, cMsgs, accepted>>,
         up' \in [PeerUids -> Seq(Nat)], \A q \in PeerUids : q # p => up'[q] = up[q]
  PROVE  FlowTypes' /\ Others(p) /\ cwHandle' = cwHandle /\ UNCHANGED <<rState, rStream, reads>>
<1>1. /\ tcp(p) \in C!Sockets
      /\ \A q \in PeerUids : tcp(q) \in C!Sockets /\ (q # p => tcp(q) # tcp(p))
  BY DEF tcp, C!Sockets, C!Protocols
<1>2. /\ FlowTypes' /\ cwHandle' = cwHandle
      /\ \A b \in C!Sockets : b # tcp(p) => SameWriter(b)
  BY <1>1, FlowWriter
<1>3. UNCHANGED <<rState, rStream, reads>>
  BY DEF vars, rTask, net
<1> QED
  BY <1>1, <1>2, <1>3 DEF Others, Kept, SameWriter

\* The write actor takes a message, or notices that its handle is gone.
LEMMA FlowTcpTask ==
  ASSUME FlowTypes, NEW p \in PeerUids, PeerFlow(p),
         C!W!TakeMessage(tcp(p)) \/ C!W!AllHandlesDropped(tcp(p)),
         UNCHANGED <<vars, reset, up, client, cEventReceiver, cMsgs, accepted>>
  PROVE  FlowTypes' /\ PeerFlow(p)' /\ Others(p)
<1> DEFINE a == tcp(p)
<1>1. /\ a \in C!Sockets
      /\ accepted[p]["tcp"] \in Nat /\ reads[p] \in Nat /\ up[p] \in Seq(Nat)
      /\ cwHand[a] \in Seq(SendOps) /\ cwMsgs[a] \in Seq(SendOps)
  BY FlowPieces
<1>2. up' \in [PeerUids -> Seq(Nat)] /\ \A q \in PeerUids : q # p => up'[q] = up[q]
  BY DEF FlowTypes
<1>3. ClientWriterStep(a, 0)
  BY DEF ClientWriterStep, C!W!WriterProgress
<1>4. FlowTypes' /\ Others(p) /\ cwHandle' = cwHandle /\ UNCHANGED <<rState, rStream, reads>>
  BY <1>2, <1>3, FlowTcpWriter
<1>5. Drained(p) => Drained(p)'
  BY <1>4 DEF Drained
<1>6. CASE C!W!TakeMessage(a)
  <2>1. /\ cwState[a] = "running" /\ cwHand[a] = <<>> /\ cwMsgs[a] # <<>>
        /\ UNCHANGED <<cwState, cwReason, cwSink>>
        /\ cwHand' = [cwHand EXCEPT ![a] = <<Head(cwMsgs[a])>>]
        /\ cwMsgs' = [cwMsgs EXCEPT ![a] = Tail(@)]
    BY <1>6 DEF C!W!TakeMessage, C!W!Idle
  <2>2. cwHand'[a] = <<Head(cwMsgs[a])>> /\ cwMsgs'[a] = Tail(cwMsgs[a]) /\ Len(cwHand'[a]) = 1
    <3>1. cwHand'[a] = <<Head(cwMsgs[a])>> /\ cwMsgs'[a] = Tail(cwMsgs[a])
      BY <1>1, <2>1 DEF FlowTypes
    <3> QED
      BY <3>1
  <2>3. WriterTrue(p)'
    BY <1>4, <2>1, <2>2 DEF PeerFlow, WriterTrue, C!W!WriterFinished, R!ReaderFinished
  <2>4. ASSUME Flow(p) PROVE Flow(p)'
    <3>1. PICK r \in Nat, u \in Seq(Nat), msgs \in Seq(SendOps), k \in Nat :
             r = reads[p] /\ u = up[p] /\ msgs = cwMsgs[a] /\ k = accepted[p]["tcp"]
      BY <1>1, Zenon
    <3>2. InFlow(client[p], k, r, u, <<>>, msgs, cMsgs[p])
      BY <2>1, <2>4, <3>1, Zenon DEF Flow
    <3>3. InFlow(client[p], k, r, u, <<Head(msgs)>>, Tail(msgs), cMsgs[p])
      <4>1. msgs # <<>>
        BY <2>1, <3>1
      <4> QED
        BY <3>2, <4>1, FlowTakes
    <3> QED
      BY <1>4, <2>1, <2>2, <2>4, <3>1, <3>3, Zenon DEF Flow
  <2> QED
    BY <1>4, <1>5, <2>3, <2>4, ClientFlow
<1>7. CASE C!W!AllHandlesDropped(a)
  <2>1. /\ cwState[a] = "running" /\ cwHand[a] = <<>> /\ cwMsgs[a] = <<>> /\ ~cwHandle[a]
        /\ UNCHANGED <<cwMsgs, cwHand, cwSink>>
        /\ cwState' = [cwState EXCEPT ![a] = "closing"]
        /\ cwReason' = [cwReason EXCEPT ![a] = "ActorHandlesDropped"]
    BY <1>7 DEF C!W!AllHandlesDropped, C!W!Idle, C!W!BeginClose
  <2>2. cwState'[a] = "closing" /\ cwReason'[a] = "ActorHandlesDropped"
    BY <1>1, <2>1 DEF FlowTypes
  <2>3. WriterTrue(p)'
    BY <1>4, <2>1, <2>2 DEF PeerFlow, WriterTrue, C!W!WriterFinished, R!ReaderFinished,
                           C!W!WriteOutcome, C!W!WriteActorShutdownReason
  <2>4. ASSUME Flow(p) PROVE Flow(p)'
    <3>1. cwReason'[a] # "SinkError"
      BY <2>2
    <3> QED
      BY <1>4, <2>1, <2>4, <3>1, Zenon DEF Flow
  <2> QED
    BY <1>4, <1>5, <2>3, <2>4, ClientFlow
<1> QED
  BY <1>6, <1>7

\* The numbers that are written are those of the items.
LEMMA WrittenNumbers ==
  ASSUME NEW s \in Seq(SendItems), NEW n \in 0 .. Len(s)
  PROVE  /\ [i \in 1 .. n |-> s[i].n] \in [1 .. n -> Nat]
         /\ \A x \in SendItems :
               s = <<x>> /\ n = 1 => [i \in 1 .. n |-> s[i].n] = <<x.n>>
<1>1. \A i \in 1 .. n : s[i] \in SendItems
  OBVIOUS
<1>2. [i \in 1 .. n |-> s[i].n] \in [1 .. n -> Nat]
  BY <1>1 DEF SendItems
<1>3. ASSUME NEW x \in SendItems, s = <<x>>, n = 1 PROVE [i \in 1 .. n |-> s[i].n] = <<x.n>>
  BY <1>3
<1> QED
  BY <1>2, <1>3

\* Only one item is ever handed to the sink, and the sink keeps none.
LEMMA LastInHand ==
  ASSUME NEW h \in Seq(SendOps), h # <<>>, Len(h) <= 1
  PROVE  h = <<Head(h)>>
  BY SMTT(30)


\* The message in hand goes to the connection.
LEMMA FlowSinkDone ==
  ASSUME FlowTypes, NEW p \in PeerUids, PeerFlow(p), NEW n, C!W!SinkDone(tcp(p), n),
         UNCHANGED <<vars, reset, client, cEventReceiver, cMsgs, accepted, cwHandle>>,
         up'[p] = up[p] \o [i \in 1 .. n |-> C!W!Pending(tcp(p))[i].n]
  PROVE  PeerFlow(p)'
<1> DEFINE a == tcp(p)
<1>1. /\ a \in C!Sockets
      /\ accepted[p]["tcp"] \in Nat /\ reads[p] \in Nat /\ up[p] \in Seq(Nat)
      /\ cwHand[a] \in Seq(SendOps) /\ cwMsgs[a] \in Seq(SendOps)
  BY FlowPieces
<1>2. /\ cwState[a] = "running" /\ cwHand[a] # <<>> /\ n \in C!W!SinkWrites(a)
      /\ UNCHANGED <<cwState, cwReason, cwMsgs>>
      /\ cwHand' = [cwHand EXCEPT ![a] = <<>>]
      /\ cwSink' = [cwSink EXCEPT ![a] = C!W!Rest(a, n)]
  BY DEF C!W!SinkDone
<1>3. cwHand'[a] = <<>> /\ cwSink'[a] = C!W!Rest(a, n) /\ Len(cwHand'[a]) = 0
  <2>1. cwHand'[a] = <<>> /\ cwSink'[a] = C!W!Rest(a, n)
    BY <1>1, <1>2 DEF FlowTypes
  <2> QED
    BY <2>1
<1>4. UNCHANGED <<rState, rStream, reads>>
  BY DEF vars, rTask, net
<1>5. WriterTrue(p)'
  BY <1>2, <1>3, <1>4 DEF PeerFlow, WriterTrue, C!W!WriterFinished, R!ReaderFinished
<1>6. Drained(p) => Drained(p)'
  BY <1>4 DEF Drained
<1>7. ASSUME Flow(p) PROVE Flow(p)'
  <2>1. PICK r \in Nat, u \in Seq(Nat), msgs \in Seq(SendOps), k \in Nat, x \in SendOps :
           /\ r = reads[p] /\ u = up[p] /\ msgs = cwMsgs[a] /\ k = accepted[p]["tcp"]
           /\ x = Head(cwHand[a])
    <3>1. Head(cwHand[a]) \in SendOps
      BY <1>1, <1>2, ClientPending
    <3> QED
      BY <1>1, <3>1, Zenon
  <2>2. cwHand[a] = <<x>>
    <3>1. Len(cwHand[a]) <= 1
      BY DEF PeerFlow, WriterTrue
    <3> QED
      BY <1>1, <1>2, <2>1, <3>1, LastInHand
  <2>3. InFlow(client[p], k, r, u, <<x>>, msgs, cMsgs[p])
    BY <1>7, <2>1, <2>2, Zenon DEF Flow
  <2>4. InFlow(client[p], k, r, Append(u, x.item.n), <<>>, msgs, cMsgs[p])
    BY <2>3, FlowWrites
  <2>5. x.item \in SendItems /\ x.item.n \in Nat
    BY DEF SendOps, SendItems
  <2>6. C!W!Pending(a) = <<x.item>> /\ n = 1 /\ C!W!Rest(a, n) = <<>>
    <3>1. C!W!Pending(a) = Append(cwSink[a], x.item) /\ C!W!SinkWrites(a) = {Len(C!W!Pending(a))}
      BY <1>1, <1>2, <2>1, ClientPending
    <3>2. cwSink[a] = <<>>
      BY <1>7 DEF Flow
    <3>3. C!W!Pending(a) = <<x.item>>
      BY <3>1, <3>2
    <3>4. Len(<<x.item>>) = 1 /\ SubSeq(<<x.item>>, 2, 1) = <<>>
      BY <2>5
    <3>5. n = 1
      BY <1>2, <3>1, <3>3, <3>4
    <3>6. C!W!Rest(a, n) = SubSeq(<<x.item>>, 2, 1)
      BY <3>3, <3>4, <3>5 DEF C!W!Rest
    <3> QED
      BY <3>3, <3>4, <3>5, <3>6
  <2>7. up'[p] = Append(u, x.item.n)
    <3>1. <<x.item>> \in Seq(SendItems) /\ 1 \in 0 .. Len(<<x.item>>)
      BY <2>5
    <3>2. [i \in 1 .. n |-> C!W!Pending(a)[i].n] = <<x.item.n>>
      BY <2>5, <2>6, <3>1, WrittenNumbers
    <3>3. up'[p] = u \o <<x.item.n>>
      BY <2>1, <3>2
    <3> QED
      BY <2>5, <3>3, ConcatOne
  <2>8. cwSink'[a] = <<>>
    BY <1>3, <2>6
  <2> QED
    BY <1>2, <1>3, <1>4, <1>7, <2>1, <2>4, <2>7, <2>8, Zenon DEF Flow
<1> QED
  BY <1>5, <1>6, <1>7, ClientFlow

\* A write fails: the connection was reset, and the server reads no more of it.
LEMMA FlowSinkFails ==
  ASSUME FlowTypes, NEW p \in PeerUids, PeerFlow(p), NEW n, C!W!SinkFails(tcp(p), n), reset[p],
         UNCHANGED <<vars, reset, client, cEventReceiver, cMsgs, accepted, cwHandle>>
  PROVE  PeerFlow(p)'
<1> DEFINE a == tcp(p)
<1>1. a \in C!Sockets
  BY FlowPieces
<1>2. /\ cwState[a] = "running" /\ UNCHANGED cwMsgs
      /\ cwState' = [cwState EXCEPT ![a] = "closing"]
      /\ cwReason' = [cwReason EXCEPT ![a] = "SinkError"]
      /\ cwHand' = [cwHand EXCEPT ![a] = <<>>]
  BY DEF C!W!SinkFails, C!W!BeginClose
<1>3. /\ cwHand'[a] = <<>> /\ cwState'[a] = "closing" /\ cwReason'[a] = "SinkError"
      /\ Len(cwHand'[a]) = 0
  <2>1. cwHand'[a] = <<>> /\ cwState'[a] = "closing" /\ cwReason'[a] = "SinkError"
    BY <1>1, <1>2 DEF FlowTypes
  <2> QED
    BY <2>1
<1>4. UNCHANGED <<rState, rStream, reads>>
  BY DEF vars, rTask, net
<1>5. R!ReaderFinished(p) /\ client[p] # "unspawned"
  BY <1>2 DEF PeerFlow, WriterTrue, C!W!WriterFinished, C!W!WriteOutcome, C!W!WriteActorShutdownReason
<1>6. WriterTrue(p)'
  BY <1>2, <1>3, <1>4, <1>5 DEF PeerFlow, WriterTrue, R!ReaderFinished
<1>7. Drained(p) => Drained(p)'
  BY <1>4 DEF Drained
<1>8. ~Reading(p)
  BY <1>5 DEF Reading, R!ReaderFinished, R!ReadOutcome, R!ReadActorShutdownReason
<1> QED
  BY <1>6, <1>7, <1>8, ClientFlow

\* The write actor closes its socket.
LEMMA FlowClose ==
  ASSUME FlowTypes, NEW p \in PeerUids, PeerFlow(p), NEW n, C!W!CloseSink(tcp(p), n),
         UNCHANGED <<vars, reset, client, cEventReceiver, cMsgs, accepted, cwHandle>>,
         up'[p] = up[p] \o [i \in 1 .. n |-> C!W!Pending(tcp(p))[i].n]
  PROVE  PeerFlow(p)'
<1> DEFINE a == tcp(p)
<1>1. /\ a \in C!Sockets /\ up[p] \in Seq(Nat)
      /\ cwReason[a] \in {"none", "ActorHandlesDropped", "SinkError"}
  BY FlowPieces DEF FlowTypes
<1>2. /\ cwState[a] = "closing" /\ n \in 0 .. Len(cwSink[a]) /\ UNCHANGED <<cwReason, cwHand>>
      /\ cwState' = [cwState EXCEPT ![a] = cwReason[a]]
      /\ cwMsgs' = [cwMsgs EXCEPT ![a] = <<>>]
      /\ cwSink' = [cwSink EXCEPT ![a] = <<>>]
  BY DEF C!W!CloseSink
<1>3. cwState'[a] = cwReason[a] /\ cwMsgs'[a] = <<>> /\ cwSink'[a] = <<>>
  BY <1>1, <1>2 DEF FlowTypes
<1>4. UNCHANGED <<rState, rStream, reads>>
  BY DEF vars, rTask, net
<1>5. cwReason[a] \in {"ActorHandlesDropped", "SinkError"}
  BY <1>1, <1>2 DEF PeerFlow, WriterTrue
<1>6. WriterTrue(p)'
  BY <1>2, <1>3, <1>4, <1>5 DEF PeerFlow, WriterTrue, R!ReaderFinished,
     C!W!WriterFinished, C!W!WriteOutcome, C!W!WriteActorShutdownReason
<1>7. Drained(p) => Drained(p)'
  BY <1>4 DEF Drained
<1>8. ASSUME Flow(p) PROVE Flow(p)'
  <2>1. cwReason[a] = "ActorHandlesDropped" /\ cwSink[a] = <<>>
    BY <1>5, <1>8 DEF Flow
  <2>2. cwMsgs[a] = <<>>
    BY <2>1 DEF PeerFlow, WriterTrue
  <2>3. Len(<<>>) = 0
    OBVIOUS
  <2>4. n = 0
    BY <1>2, <2>1, <2>3
  <2>5. up'[p] = up[p]
    <3>1. [i \in 1 .. 0 |-> C!W!Pending(a)[i].n] \in [1 .. 0 -> Nat]
      OBVIOUS
    <3> QED
      BY <1>1, <2>4, <3>1, ConcatOf
  <2> QED
    BY <1>2, <1>3, <1>4, <1>8, <2>1, <2>2, <2>5, Zenon DEF Flow
<1> QED
  BY <1>6, <1>7, <1>8, ClientFlow

\* The client writes to the connection (src/src/actors/write_actor.rs:135, 178).
LEMMA FlowWritten ==
  ASSUME FlowTypes, NEW p \in PeerUids, PeerFlow(p), ClientWrites(p)
  PROVE  FlowTypes' /\ PeerFlow(p)' /\ Others(p)
<1> DEFINE a == tcp(p)
<1>1. PICK n \in 0 .. Len(C!W!Pending(a)) :
         /\ \/ C!SinkDone(a, n)
            \/ reset[p] /\ C!SinkFails(a, n)
            \/ (reset[p] \/ n = Len(cwSink[a])) /\ C!CloseSink(a, n)
         /\ up' = [up EXCEPT ![p] = @ \o [i \in 1 .. n |-> C!W!Pending(a)[i].n]]
         /\ UNCHANGED <<vars, down, reset, udp>>
  BY DEF ClientWrites
<1>2. /\ C!W!SinkDone(a, n) \/ (reset[p] /\ C!W!SinkFails(a, n)) \/ C!W!CloseSink(a, n)
      /\ UNCHANGED <<vars, reset, client, cEventReceiver, cMsgs, accepted>>
  BY <1>1 DEF C!SinkDone, C!SinkFails, C!CloseSink, C!WriterUnchanged, C!LoopUnchanged,
              C!app, C!channels
<1>3. a \in C!Sockets /\ up[p] \in Seq(Nat) /\ up \in [PeerUids -> Seq(Nat)]
  BY FlowPieces DEF FlowTypes
<1>4. PICK u \in Seq(Nat) : u = up[p] \o [i \in 1 .. n |-> C!W!Pending(a)[i].n]
  <2>1. PICK s \in Seq(SendItems) : s = C!W!Pending(a)
    BY <1>3, ClientPending
  <2>2. [i \in 1 .. n |-> s[i].n] \in [1 .. n -> Nat] /\ n \in Nat
    BY <1>1, <2>1, WrittenNumbers
  <2>3. up[p] \o [i \in 1 .. n |-> s[i].n] \in Seq(Nat)
    BY <1>3, <2>2, ConcatOf
  <2> QED
    BY <2>1, <2>3
<1>5. /\ up' \in [PeerUids -> Seq(Nat)]
      /\ \A q \in PeerUids : q # p => up'[q] = up[q]
      /\ up'[p] = up[p] \o [i \in 1 .. n |-> C!W!Pending(a)[i].n]
  <2>1. up' = [up EXCEPT ![p] = u]
    BY <1>1, <1>4
  <2> QED
    BY <1>3, <1>4, <2>1
<1>6. ClientWriterStep(a, n)
  BY <1>2 DEF ClientWriterStep
<1>7. FlowTypes' /\ Others(p) /\ cwHandle' = cwHandle
  BY <1>2, <1>5, <1>6, FlowTcpWriter
<1>8. PeerFlow(p)'
  BY <1>2, <1>5, <1>7, FlowSinkDone, FlowSinkFails, FlowClose
<1> QED
  BY <1>7, <1>8


\* Everything else that a client does.
LEMMA FlowClient ==
  ASSUME FlowTypes, NEW p \in PeerUids, PeerFlow(p),
         \/ ClientLoop(p) \/ ClientApp(p) \/ ClientReads(p) \/ ClientSeesEnd(p) \/ ClientWrites(p)
         \/ ClientSendsDatagram(p) \/ DatagramArrives(p)
         \/ \E s \in C!Protocols : ClientTask(<<p, s>>)
  PROVE  FlowTypes' /\ PeerFlow(p)' /\ Others(p)
<1>1. ASSUME UNCHANGED <<vars, up, reset, client, cEventReceiver, cMsgs, accepted, cwState, cwReason,
                         cwHandle, cwHand, cwSink, cwMsgs>>
      PROVE  FlowTypes' /\ PeerFlow(p)' /\ Others(p)
  <2>1. PICK x \in SendOps : TRUE
    BY SendsAreOps
  <2> QED
    BY <1>1, <2>1, FlowElsewhere, ElsewhereKeeps
<1>2. CASE ClientApp(p)
  <2>1. CASE \E s \in C!Protocols : C!send_message(p, s)
    BY <1>2, <2>1, FlowSend DEF ClientApp, links
  <2>2. CASE C!DropHandle(p)
    BY <1>1, <1>2, <2>2 DEF ClientApp, links, C!DropHandle, C!AppUnchanged, C!wTask, C!wLink
  <2> QED
    BY <1>2, <2>1, <2>2 DEF ClientApp, C!Protocols
<1>3. ASSUME C!ReaderUnchanged, UNCHANGED <<vars, up, reset>>
      PROVE  FlowTypes' /\ PeerFlow(p)' /\ Others(p)
  BY <1>1, <1>3 DEF C!ReaderUnchanged, C!LoopUnchanged, C!app, C!channels, C!wTask, C!wLink
<1>4. CASE ClientReads(p) \/ ClientSeesEnd(p) \/ DatagramArrives(p)
  BY <1>3, <1>4 DEF ClientReads, ClientSeesEnd, DatagramArrives, C!Reads, C!ServerCloses, links
<1>5. CASE ClientSendsDatagram(p)
  <2>1. PICK n : /\ C!SinkDone(<<p, "udp">>, n) \/ C!CloseSink(<<p, "udp">>, n)
                 /\ UNCHANGED <<vars, links>>
    BY <1>5 DEF ClientSendsDatagram
  <2>2. /\ ClientWriterStep(<<p, "udp">>, n)
        /\ UNCHANGED <<vars, reset, up, client, cEventReceiver, cMsgs, accepted>>
    BY <2>1 DEF ClientWriterStep, C!SinkDone, C!CloseSink, C!WriterUnchanged, C!LoopUnchanged, C!app,
                C!channels, links
  <2> QED
    BY <2>2, FlowUdpWriter, ElsewhereKeeps
<1>6. ASSUME NEW s \in C!Protocols, ClientTask(<<p, s>>) PROVE FlowTypes' /\ PeerFlow(p)' /\ Others(p)
  <2>1. CASE C!ReaderRuns(<<p, s>>)
    BY <1>3, <1>6, <2>1 DEF ClientTask, C!ReaderRuns, links
  <2>2. CASE C!WriterRuns(<<p, s>>)
    <3>1. /\ C!W!WriterProgress(<<p, s>>)
          /\ UNCHANGED <<vars, reset, up, client, cEventReceiver, cMsgs, accepted>>
      BY <1>6, <2>2 DEF ClientTask, C!WriterRuns, C!WriterUnchanged, C!LoopUnchanged, C!app,
                        C!channels, links
    <3>2. CASE s = "udp"
      <4>1. ClientWriterStep(<<p, "udp">>, 0)
        BY <3>1, <3>2 DEF ClientWriterStep
      <4> QED
        BY <3>1, <4>1, FlowUdpWriter, ElsewhereKeeps
    <3>3. CASE s = "tcp"
      <4>1. ~C!W!TakeShutdown(tcp(p))
        <5>1. ASSUME cwMsgs[tcp(p)] # <<>> PROVE Head(cwMsgs[tcp(p)]) \in SendOps
          BY <5>1, FlowPieces, TailOf
        <5> QED
          BY <5>1 DEF C!W!TakeShutdown, C!W!Shutdown, SendOps
      <4> QED
        BY <3>1, <3>3, <4>1, FlowTcpTask DEF C!W!WriterProgress, tcp
    <3> QED
      BY <3>2, <3>3 DEF C!Protocols
  <2> QED
    BY <1>6, <2>1, <2>2 DEF ClientTask
<1> QED
  BY <1>2, <1>4, <1>5, <1>6, FlowLoop, FlowWritten

\* The network resets the connection of an end that is closed.
LEMMA FlowReset ==
  ASSUME FlowTypes, NEW p \in PeerUids, PeerFlow(p), ResetConnection(p)
  PROVE  FlowTypes' /\ PeerFlow(p)' /\ Others(p)
<1>1. /\ UNCHANGED <<vars, up, client, cEventReceiver, cMsgs, accepted, cwState, cwReason, cwHandle,
                     cwHand, cwSink, cwMsgs>>
      /\ reset' = [reset EXCEPT ![p] = TRUE]
      /\ R!ReaderFinished(p) \/ C!W!WriterFinished(tcp(p))
  BY DEF ResetConnection, clientVars, ClientClosed, ServerClosed
<1>2. UNCHANGED <<rState, rStream, reads>>
  BY <1>1 DEF vars, rTask, net
<1>3. FlowTypes' /\ Others(p)
  BY <1>1, <1>2 DEF FlowTypes, Others, Kept
<1>4. WriterTrue(p)'
  BY <1>1, <1>2 DEF PeerFlow, WriterTrue, R!ReaderFinished, C!W!WriterFinished
<1>5. Flow(p) => Flow(p)'
  BY <1>1, <1>2, Zenon DEF Flow
<1>6. Drained(p) => Drained(p)'
  BY <1>1, <1>2 DEF Drained
<1> QED
  BY <1>1, <1>3, <1>4, <1>5, <1>6, ClientFlow


-----------------------------------------------------------------------------
(* The server.                                                             *)

\* What is said last stays last when the first is taken.
LEMMA LastOfTail ==
  ASSUME NEW S, NEW s \in Seq(S), s # <<>>, Tail(s) # <<>>
  PROVE  Tail(s)[Len(Tail(s))] = s[Len(s)] /\ Len(s) >= 2
  OBVIOUS

Unheard(s, r) == \A i \in HeardIn(s) : s[i].n # r

\* An event that is not message r leaves it unheard.
LEMMA StillUnheard ==
  ASSUME NEW s \in Seq(Event), NEW e \in Event, NEW r, Unheard(s, r),
         e.ev = "TcpMessage" => e.n # r
  PROVE  Unheard(Append(s, e), r)
<1>1. PICK t \in Seq(Event), z \in Nat :
         t = Append(s, e) /\ z = Len(s) /\ Len(t) = z + 1 /\ t[z + 1] = e
         /\ \A i \in 1 .. z : t[i] = s[i]
  <2>1. /\ Append(s, e) \in Seq(Event) /\ Len(s) \in Nat /\ Len(Append(s, e)) = Len(s) + 1
        /\ Append(s, e)[Len(s) + 1] = e
        /\ \A i \in 1 .. Len(s) : Append(s, e)[i] = s[i]
    BY AppendOf
  <2> QED
    BY <2>1, Zenon
<1>2. DOMAIN t = 1 .. z + 1 /\ DOMAIN s = 1 .. z
  BY <1>1
<1>3. ASSUME NEW i \in HeardIn(t) PROVE t[i].n # r
  <2>1. i \in 1 .. z + 1 /\ t[i].ev = "TcpMessage"
    BY <1>2 DEF HeardIn
  <2>2. CASE i = z + 1
    BY <1>1, <2>1, <2>2
  <2>3. CASE i \in 1 .. z
    <3>1. i \in HeardIn(s) /\ t[i] = s[i]
      BY <1>1, <1>2, <2>1, <2>3 DEF HeardIn
    <3> QED
      BY <3>1 DEF Unheard
  <2>4. i = z + 1 \/ i \in 1 .. z
    BY <2>1
  <2> QED
    BY <2>2, <2>3, <2>4, Zenon
<1> QED
  BY <1>1, <1>3 DEF Unheard

\* An event about one peer.
LEMMA EmitUnheard ==
  ASSUME EventInv, NEW p \in PeerUids, NEW e \in Event, emit(p, e), NEW q \in PeerUids, NEW r,
         Unheard(events[q], r), q = p /\ e.ev = "TcpMessage" => e.n # r
  PROVE  Unheard(events'[q], r)
<1>1. events \in [PeerUids -> Seq(Event)]
  BY DEF EventInv
<1>2. \/ events' = events
      \/ events'[p] = Append(events[p], e) /\ \A o \in PeerUids : o # p => events'[o] = events[o]
  BY EventEmit
<1> QED
  BY <1>1, <1>2, StillUnheard

\* An error stays the last thing that was read, and no message takes its place.
LEMMA FailedStays ==
  ASSUME ServerInv, IndexInv, ItemInv, EventInv, [Next]_vars, NEW p \in PeerUids, FailedLast(p),
         reads'[p] = reads[p]
  PROVE  FailedLast(p)'
<1>1. /\ reads[p] \in Nat /\ reads[p] >= 1 /\ reads'[p] >= 1
      /\ Unheard(events[p], reads[p]) /\ rTx[p] \in Seq(ReadItems)
      /\ rTx[p] # <<>> => rTx[p][Len(rTx[p])].kind # "Message"
  BY ServerActorAssumption DEF FailedLast, Unheard, ItemInv
<1>2. ASSUME Unheard(events'[p], reads[p]),
             rTx'[p] # <<>> => rTx'[p][Len(rTx'[p])].kind # "Message"
      PROVE  FailedLast(p)'
  BY <1>1, <1>2 DEF FailedLast, Unheard
<1>3. ASSUME rTx'[p] = rTx[p], NEW q \in PeerUids, NEW e \in Event, emit(q, e), e.ev # "TcpMessage"
      PROVE  FailedLast(p)'
  BY <1>1, <1>2, <1>3, EmitUnheard
<1>4. ASSUME rTx'[p] = rTx[p] \/ rTx'[p] = <<>>, UNCHANGED events PROVE FailedLast(p)'
  BY <1>1, <1>2, <1>4
<1>5. ASSUME NEW a \in Addrs, NEW u \in Addrs, handle_new_tcp_connection(a, u) PROVE FailedLast(p)'
  <2>1. NewPeer \in Event /\ NewPeer.ev # "TcpMessage"
    BY DEF NewPeer, Event
  <2> QED
    BY <1>3, <1>5, <2>1 DEF handle_new_tcp_connection
<1>6. ASSUME NEW q \in PeerUids, NEW kind \in ItemKinds, Reads(q, kind, reads[q] + 1) PROVE FailedLast(p)'
  <2>1. /\ reads' = [reads EXCEPT ![q] = @ + 1] /\ UNCHANGED events
        /\ UNCHANGED rTx \/ \E t : rTx' = [rTx EXCEPT ![q] = t]
    BY <1>6 DEF Reads, BrokerUnchanged, R!ForwardItem
  <2>2. q # p
    BY <1>1, <2>1 DEF ItemInv
  <2>3. rTx'[p] = rTx[p]
    BY <2>1, <2>2 DEF ItemInv
  <2> QED
    BY <1>4, <2>1, <2>3
<1>7. ASSUME NEW q \in PeerUids, TakeItem(q)
      PROVE  /\ rTx'[p] # <<>> => rTx'[p][Len(rTx'[p])].kind # "Message"
             /\ rTx[q] \in Seq(ReadItems) /\ rTx[q] # <<>>
             /\ q # p => rTx'[p] = rTx[p]
             /\ q = p => rTx'[p] = Tail(rTx[p])
  <2>1. rTx[q] # <<>> /\ rTx' = [rTx EXCEPT ![q] = Tail(rTx[q])] /\ rTx \in [PeerUids -> Seq(ReadItems)]
    BY <1>7 DEF TakeItem, ItemInv
  <2>2. CASE q # p
    BY <1>1, <2>1, <2>2
  <2>3. CASE q = p
    <3>1. rTx'[p] = Tail(rTx[p]) /\ rTx[p] # <<>>
      BY <2>1, <2>3
    <3>2. Tail(rTx[p]) # <<>> => Tail(rTx[p])[Len(Tail(rTx[p]))] = rTx[p][Len(rTx[p])]
      BY <1>1, <3>1, LastOfTail
    <3> QED
      BY <1>1, <2>3, <3>1, <3>2
  <2> QED
    BY <2>2, <2>3
<1>8. ASSUME NEW q \in PeerUids, handle_tcp_reader_stream_item(q) PROVE FailedLast(p)'
  <2>1. TakeItem(q) /\ Head(rTx[q]).kind = "Message" /\ emit(q, TcpMessage(Head(rTx[q]).n))
    BY <1>8 DEF handle_tcp_reader_stream_item
  <2>2. PICK s \in Seq(ReadItems) : s = rTx[q] /\ s # <<>>
    BY <1>7, <2>1
  <2>3. Head(s) \in ReadItems /\ Head(s) = s[1]
    BY <2>2, TailOf
  <2>4. TcpMessage(Head(s).n) \in Event /\ TcpMessage(Head(s).n).n = Head(s).n
    BY <2>3 DEF TcpMessage, Event, ReadItems
  <2>5. q = p => Head(s).n # reads[p]
    <3>1. SUFFICES ASSUME q = p PROVE Head(s).n # reads[p]
      OBVIOUS
    <3>2. Len(s) # 1
      <4>1. s[Len(s)].kind # "Message" /\ s[1].kind = "Message"
        BY <1>1, <2>1, <2>2, <2>3, <3>1, Zenon
      <4> QED
        BY <4>1
    <3>3. CountsUpTo(s, reads[p])
      BY <2>2, <3>1 DEF ItemInv, Numbered
    <3>4. Head(s).n = reads[p] - Len(s) + 1 /\ Len(s) \in 1 .. reads[p]
      BY <1>1, <2>2, <3>3, CountTail
    <3>5. \A r \in Nat : \A l \in 1 .. r : l # 1 => r - l + 1 # r
      OBVIOUS
    <3> QED
      BY <1>1, <3>2, <3>4, <3>5, Zenon
  <2>6. Unheard(events'[p], reads[p])
    BY <1>1, <2>1, <2>2, <2>4, <2>5, EmitUnheard
  <2> QED
    BY <1>2, <1>7, <2>1, <2>6
<1>9. ASSUME NEW q, NEW r \in DisconnectReason, q \in PeerUids, emit(q, PeerDisconnect(r))
      PROVE  Unheard(events'[p], reads[p])
  <2>1. PeerDisconnect(r) \in Event /\ PeerDisconnect(r).ev # "TcpMessage"
    BY DEF PeerDisconnect, Event
  <2> QED
    BY <1>1, <1>9, <2>1, EmitUnheard
<1>10. ASSUME NEW q \in PeerUids, TcpReaderError(q) PROVE FailedLast(p)'
  <2>1. TakeItem(q) /\ drop_peer(q, "PeerSubmittedUnintelligibleData")
    BY <1>10 DEF TcpReaderError
  <2>2. UNCHANGED events \/ emit(q, PeerDisconnect("PeerSubmittedUnintelligibleData"))
    BY <2>1 DEF drop_peer
  <2>3. Unheard(events'[p], reads[p])
    BY <1>1, <1>9, <2>2 DEF DisconnectReason
  <2> QED
    BY <1>2, <1>7, <2>1, <2>3
<1>11. ASSUME NEW q \in DOMAIN peers, NEW r \in DisconnectReason, Drops(q, r), UNCHANGED rTx
       PROVE  FailedLast(p)'
  <2>1. q \in PeerUids /\ emit(q, PeerDisconnect(r))
    BY <1>11 DEF Drops, ServerInv, ActorTypes
  <2> QED
    BY <1>1, <1>2, <1>9, <1>11, <2>1
<1>12. ASSUME NEW a \in Addrs, UdpApplicationLogic(a) PROVE FailedLast(p)'
  <2>1. /\ a \in DOMAIN UdpIndex /\ emit(UdpIndex[a], UdpMessage) /\ UNCHANGED rTx
    BY <1>12 DEF UdpApplicationLogic, UdpUnchanged, UdpIndex
  <2>2. UdpIndex[a] \in PeerUids
    BY <2>1 DEF EventInv
  <2>3. UdpMessage \in Event /\ UdpMessage.ev # "TcpMessage"
    BY DEF UdpMessage, Event
  <2> QED
    BY <1>3, <2>1, <2>2, <2>3
<1>13. CASE Unwind
  BY <1>4, <1>13 DEF Unwind
<1> QED
  BY <1>4, <1>5, <1>6, <1>8, <1>10, <1>11, <1>12, <1>13, HeardMoves


\* The server makes a step without reading.
LEMMA LocalKeeps ==
  ASSUME ServerInv, IndexInv, ItemInv, EventInv, [Next]_vars, UNCHANGED <<rStream, reads>>,
         UNCHANGED rState \/ (\E p \in PeerUids : R!ReaderProgress(p)),
         NEW q \in PeerUids
  PROVE  ReaderKept(q)
<1>1. FailedLast(q) => FailedLast(q)'
  BY FailedStays
<1>2. CASE UNCHANGED rState
  BY <1>1, <1>2 DEF ReaderKept, R!ReaderFinished
<1>3. ASSUME NEW p \in PeerUids, R!ReaderProgress(p) PROVE ReaderKept(q)
  <2>1. PICK x \in R!ReadOutcome : /\ rState[p] = "running" /\ rState' = [rState EXCEPT ![p] = x]
                                   /\ x = "EndOfStream" => rStream[p] = "ended"
    BY <1>3 DEF R!ReaderProgress, R!ReceiveShutdown, R!HandlesDropped, R!EndOfStream, R!Polling,
                R!ReadOutcome, R!ReadActorShutdownReason
  <2>2. rState'[q] = IF q = p THEN x ELSE rState[q]
    BY <2>1 DEF ServerInv, ActorTypes
  <2> QED
    BY <1>1, <2>1, <2>2 DEF ReaderKept, R!ReaderFinished, R!ReadOutcome, R!ReadActorShutdownReason
<1> QED
  BY <1>2, <1>3

\* The variables of the clients that the way of a message is made of.
flowVars == <<client, cEventReceiver, cMsgs, accepted, cwState, cwReason, cwMsgs, cwHandle, cwHand,
              cwSink, reset>>

\* A step of the server that leaves the clients and the connections alone.
LEMMA FlowQuiet ==
  ASSUME ServerInv, IndexInv, ItemInv, EventInv, FlowInv, [Next]_vars,
         UNCHANGED <<flowVars, up, rStream, reads>>,
         UNCHANGED rState \/ (\E p \in PeerUids : R!ReaderProgress(p))
  PROVE  FlowInv'
<1>1. \A q \in PeerUids : Kept(q)
  BY DEF Kept, flowVars
<1>2. \A q \in PeerUids : ReaderKept(q)
  BY LocalKeeps
<1>3. FlowTypes'
  BY DEF FlowInv, FlowTypes, flowVars
<1> QED
  BY <1>1, <1>2, <1>3, KeptFlow DEF FlowInv

\* The steps of the server that do not read a connection.
LEMMA FlowServer ==
  ASSUME ServerInv, IndexInv, ItemInv, EventInv, FlowInv, [Next]_vars,
         \/ UdpWriterLocal \/ ServerSendsDatagram \/ MessageArrives
         \/ \E p \in PeerUids : ServerLocal(p) \/ ServerWrites(p) \/ HelloArrives(p)
  PROVE  FlowInv'
<1>1. UNCHANGED <<flowVars, up>>
  BY DEF UdpWriterLocal, ServerSendsDatagram, MessageArrives, ServerLocal, ServerWrites, HelloArrives,
         clientVars, links, flowVars
<1>2. CASE UdpWriterLocal \/ ServerSendsDatagram \/ MessageArrives
  BY <1>1, <1>2, FlowQuiet DEF UdpWriterLocal, ServerSendsDatagram, MessageArrives, WriterRuns,
     SinkDone, CloseSink, WriterUnchanged, UdpApplicationLogic, UdpUnchanged, rTask, net
<1>3. ASSUME NEW p \in PeerUids, ServerWrites(p) \/ HelloArrives(p) PROVE FlowInv'
  BY <1>1, <1>3, FlowQuiet DEF ServerWrites, HelloArrives, SinkDone, SinkFails, CloseSink,
     WriterUnchanged, UdpHello, UdpUnchanged, rTask, net
<1>4. ASSUME NEW p \in PeerUids, ServerLocal(p) PROVE FlowInv'
  <2>1. CASE Broker(p)
    <3>1. UNCHANGED <<rState, rStream, reads>>
      BY <2>1 DEF Broker, handle_tcp_reader_stream_item, TcpReaderError, TcpReaderEnd, TcpWriterEnd,
                  AnnounceFeed, AnnounceUnchanged, rTask, net
    <3> QED
      BY <1>1, <3>1, FlowQuiet
  <2>2. CASE ReaderRuns(p)
    <3>1. UNCHANGED <<rStream, reads>> /\ R!ReaderProgress(p)
      BY <2>2 DEF ReaderRuns, ReaderUnchanged, R!ReaderProgress, R!ReceiveShutdown, R!HandlesDropped,
                  R!EndOfStream
    <3> QED
      BY <1>1, <3>1, FlowQuiet
  <2>3. CASE WriterRuns(p)
    <3>1. UNCHANGED <<rState, rStream, reads>>
      BY <2>3 DEF WriterRuns, WriterUnchanged, rTask
    <3> QED
      BY <1>1, <3>1, FlowQuiet
  <2> QED
    BY <1>4, <2>1, <2>2, <2>3 DEF ServerLocal
<1> QED
  BY <1>2, <1>3, <1>4

\* A client connects, under a uid that was never given out.
LEMMA FlowConnect ==
  ASSUME ServerInv, IndexInv, ItemInv, EventInv, FlowInv, [Next]_vars, Connect
  PROVE  FlowInv'
<1>1. PICK p \in PeerUids : /\ p = next_peer_uid /\ C!connect(p)
                            /\ rState' = [rState EXCEPT ![p] = "running"]
                            /\ UNCHANGED <<links, rStream, reads>>
  BY DEF Connect, handle_new_tcp_connection, R!spawn_read_actor
<1>2. FreshUid(p) /\ rState \in [PeerUids -> ReaderStates]
  <2>1. p >= next_peer_uid
    BY <1>1 DEF ServerInv, ActorTypes
  <2> QED
    BY <2>1 DEF ServerInv, Fresh, ActorTypes
<1>3. FlowTypes /\ PeerFlow(p)
  BY DEF FlowInv
<1>4. /\ client[p] = "unspawned" /\ client' = [client EXCEPT ![p] = "running"]
      /\ cEventReceiver' = [cEventReceiver EXCEPT ![p] = TRUE]
      /\ cwState' = C!Both(cwState, p, "running")
      /\ cwHandle' = C!Both(cwHandle, p, TRUE)
      /\ UNCHANGED <<cMsgs, accepted, cwReason, cwMsgs, cwHand, cwSink, up, reset>>
  BY <1>1 DEF C!connect, links, C!channels
<1>5. /\ client' \in [PeerUids -> {"unspawned", "running", "left", "panicked"}]
      /\ cEventReceiver' \in [PeerUids -> BOOLEAN]
      /\ \A q \in PeerUids : /\ client'[q] = IF q = p THEN "running" ELSE client[q]
                             /\ cEventReceiver'[q] = IF q = p THEN TRUE ELSE cEventReceiver[q]
  BY <1>3, <1>4 DEF FlowTypes
<1>6. /\ cwState' \in [C!Sockets -> {"unspawned", "running", "closing", "none"} \cup C!W!WriteOutcome]
      /\ cwHandle' \in [C!Sockets -> BOOLEAN]
      /\ \A q \in PeerUids : /\ cwState'[tcp(q)] = IF q = p THEN "running" ELSE cwState[tcp(q)]
                             /\ cwHandle'[tcp(q)] = IF q = p THEN TRUE ELSE cwHandle[tcp(q)]
  BY <1>3, <1>4 DEF FlowTypes, C!Both, tcp, C!Sockets, C!Protocols
<1>7. FlowTypes'
  BY <1>1, <1>3, <1>4, <1>5, <1>6 DEF FlowTypes
<1>8. \A q \in PeerUids : rState'[q] = IF q = p THEN "running" ELSE rState[q]
  BY <1>1, <1>2
<1>9. \A q \in PeerUids : FailedLast(q) => FailedLast(q)'
  BY <1>1, FailedStays
<1>10. ASSUME NEW q \in PeerUids, q # p PROVE PeerFlow(q)'
  <2>1. Kept(q)
    BY <1>4, <1>5, <1>6, <1>10 DEF Kept
  <2>2. ReaderKept(q)
    BY <1>1, <1>8, <1>9, <1>10 DEF ReaderKept, R!ReaderFinished
  <2> QED
    BY <2>1, <2>2, KeptFlow DEF FlowInv
<1>11. PeerFlow(p)'
  <2>1. rState[p] = "unspawned" /\ rState'[p] = "running"
    BY <1>2, <1>8 DEF FreshUid
  <2>2. WriterTrue(p) /\ cwState[tcp(p)] = "unspawned" /\ cwReason[tcp(p)] = "none"
    BY <1>3, <1>4 DEF PeerFlow, WriterTrue
  <2>3. ~reset[p]
    BY <2>1, <2>2 DEF WriterTrue, C!W!WriterFinished, C!W!WriteOutcome, C!W!WriteActorShutdownReason,
                      R!ReaderFinished, R!ReadOutcome, R!ReadActorShutdownReason
  <2>4. WriterTrue(p)'
    BY <1>4, <1>5, <1>6, <2>1, <2>2, <2>3 DEF WriterTrue
  <2>5. ASSUME Reading(p)' PROVE Flow(p)'
    <3>1. Flow(p)
      BY <1>1, <1>3, <2>1, <2>5 DEF PeerFlow, Reading
    <3>2. client[p] = "unspawned" /\ client'[p] = "running"
      BY <1>4, <1>5
    <3>3. InFlow("unspawned", accepted[p]["tcp"], reads[p], up[p], cwHand[tcp(p)], cwMsgs[tcp(p)], cMsgs[p])
      BY <3>1, <3>2, Zenon DEF Flow
    <3>4. InFlow("running", accepted[p]["tcp"], reads[p], up[p], cwHand[tcp(p)], cwMsgs[tcp(p)], cMsgs[p])
      BY <3>3 DEF InFlow
    <3> QED
      BY <1>1, <1>4, <3>1, <3>2, <3>4, Zenon DEF Flow
  <2>6. rStream'[p] = "ended" => FailedLast(p)'
    BY <1>1, <1>3, <1>4, <1>9 DEF PeerFlow, Drained
  <2> QED
    BY <2>1, <2>4, <2>5, <2>6 DEF PeerFlow
<1> QED
  BY <1>7, <1>10, <1>11 DEF FlowInv


\* The server reads the connections in the order of what was written: the
\* composition's messages carry the numbers that ServerActor gives them.
LEMMA ReadsInOrder ==
  ASSUME FlowInv, NEW p \in PeerUids, up[p] # <<>>, NEW x, R!ForwardItem(p, x)
  PROVE  /\ rState[p] = "running" /\ rStream[p] = "open" /\ Flow(p)
         /\ Head(up[p]) = reads[p] + 1
         /\ InFlow(client[p], accepted[p]["tcp"], reads[p] + 1, Tail(up[p]), cwHand[tcp(p)],
                   cwMsgs[tcp(p)], cMsgs[p])
<1>1. rState[p] = "running" /\ rStream[p] = "open"
  BY DEF R!ForwardItem, R!Polling
<1>2. Flow(p) /\ FlowTypes
  BY <1>1 DEF FlowInv, PeerFlow, Reading
<1>3. PICK r \in Nat, u \in Seq(Nat), hand \in Seq(SendOps), msgs \in Seq(SendOps), k \in Nat :
         /\ r = reads[p] /\ u = up[p] /\ hand = cwHand[tcp(p)] /\ msgs = cwMsgs[tcp(p)]
         /\ k = accepted[p]["tcp"]
  BY <1>2, FlowPieces, Zenon
<1>4. InFlow(client[p], k, r, u, hand, msgs, cMsgs[p])
  BY <1>2, <1>3, Zenon DEF Flow
<1>5. Head(u) = r + 1 /\ InFlow(client[p], k, r + 1, Tail(u), hand, msgs, cMsgs[p])
  <2>1. u # <<>>
    BY <1>3
  <2> QED
    BY <1>4, <2>1, FlowReads
<1> QED
  BY <1>1, <1>2, <1>3, <1>5, Zenon

\* Reading a connection leaves the other peers alone.
LEMMA ReadOthers ==
  ASSUME ServerInv, IndexInv, ItemInv, EventInv, FlowInv, [Next]_vars,
         NEW p \in PeerUids, UNCHANGED flowVars, \A q \in PeerUids : q # p => up'[q] = up[q],
         NEW z, NEW r, rStream' = [rStream EXCEPT ![p] = z], reads' = [reads EXCEPT ![p] = r],
         UNCHANGED rState \/ \E y : rState' = [rState EXCEPT ![p] = y],
         NEW q \in PeerUids, q # p
  PROVE  PeerFlow(q)'
<1>1. rState \in [PeerUids -> ReaderStates] /\ FlowTypes
  BY DEF ServerInv, ActorTypes, FlowInv
<1>2. rStream'[q] = rStream[q] /\ reads'[q] = reads[q] /\ rState'[q] = rState[q]
  BY <1>1 DEF FlowTypes
<1>3. FailedLast(q) => FailedLast(q)'
  BY <1>2, FailedStays
<1>4. ReaderKept(q)
  BY <1>2, <1>3 DEF ReaderKept, R!ReaderFinished
<1>5. Kept(q)
  BY DEF Kept, flowVars
<1> QED
  BY <1>4, <1>5, KeptFlow DEF FlowInv

\* What the reader does with something that it has read.
LEMMA Forwarded ==
  ASSUME ServerInv, FlowInv, ItemInv, NEW p \in PeerUids, NEW kind \in ItemKinds, NEW n \in Nat,
         Reads(p, kind, n)
  PROVE  /\ reads' = [reads EXCEPT ![p] = reads[p] + 1] /\ reads'[p] = reads[p] + 1
         /\ reads' \in [PeerUids -> Nat]
         /\ \E z \in {"open", "ended"} :
               /\ z = "ended" <=> kind = "Io"
               /\ rStream' = [rStream EXCEPT ![p] = z] /\ rStream'[p] = z
         /\ rStream' \in [PeerUids -> {"open", "ended"}]
         /\ UNCHANGED rState \/ \E y : rState' = [rState EXCEPT ![p] = y]
         /\ rState[p] = "running" /\ rStream[p] = "open"
         /\ rState'[p] \in {"running", "ReceiverClosedChannel"}
         /\ UNCHANGED events
         /\ \/ rTx'[p] = Append(rTx[p], [kind |-> kind, n |-> n])
            \/ rTx'[p] = <<>>
<1>1. /\ R!ForwardItem(p, [kind |-> kind, n |-> n])
      /\ reads' = [reads EXCEPT ![p] = reads[p] + 1] /\ UNCHANGED events
  BY DEF Reads, BrokerUnchanged
<1>2. /\ reads \in [PeerUids -> Nat] /\ rStream \in [PeerUids -> {"open", "ended"}]
      /\ rState \in [PeerUids -> ReaderStates] /\ rTx \in [PeerUids -> Seq(ReadItems)]
  BY DEF FlowInv, FlowTypes, ServerInv, ActorTypes, ItemInv
<1>3. reads'[p] = reads[p] + 1 /\ reads' \in [PeerUids -> Nat]
  BY <1>1, <1>2
<1>4. rState[p] = "running" /\ rStream[p] = "open"
  BY <1>1 DEF R!ForwardItem, R!Polling
<1>5. [kind |-> kind, n |-> n] \in {x \in ReadItems : x.kind = "Io"} <=> kind = "Io"
  BY DEF ReadItems, ItemKinds
<1>6. PICK z \in {"open", "ended"} : (z = "ended" <=> kind = "Io") /\ rStream' = [rStream EXCEPT ![p] = z]
  BY <1>1, <1>4, <1>5 DEF R!ForwardItem
<1>7. rStream'[p] = z /\ rStream' \in [PeerUids -> {"open", "ended"}]
  BY <1>2, <1>6
<1>8. CASE rRx[p]
  <2>1. UNCHANGED rState /\ rTx' = [rTx EXCEPT ![p] = Append(rTx[p], [kind |-> kind, n |-> n])]
    BY <1>1, <1>8 DEF R!ForwardItem
  <2>2. rTx'[p] = Append(rTx[p], [kind |-> kind, n |-> n])
    BY <1>2, <2>1
  <2> QED
    BY <1>1, <1>3, <1>4, <1>6, <1>7, <2>1, <2>2
<1>9. CASE ~rRx[p]
  <2>1. rState' = [rState EXCEPT ![p] = "ReceiverClosedChannel"] /\ UNCHANGED rTx
    BY <1>1, <1>9 DEF R!ForwardItem
  <2>2. rTx[p] = <<>> /\ rState'[p] = "ReceiverClosedChannel"
    BY <1>2, <1>9, <2>1 DEF ItemInv
  <2> QED
    BY <1>1, <1>3, <1>4, <1>6, <1>7, <2>1, <2>2
<1> QED
  BY <1>8, <1>9

\* The server reads a message.
LEMMA FlowRead ==
  ASSUME ServerInv, IndexInv, ItemInv, EventInv, FlowInv, [Next]_vars, NEW p \in PeerUids, ServerReads(p)
  PROVE  FlowInv'
<1>1. /\ up[p] # <<>> /\ Reads(p, "Message", Head(up[p])) /\ UNCHANGED flowVars
      /\ up' = [up EXCEPT ![p] = Tail(up[p])]
  BY DEF ServerReads, clientVars, flowVars
<1>2. FlowTypes /\ PeerFlow(p) /\ up[p] \in Seq(Nat)
  BY FlowPieces DEF FlowInv
<1>3. Head(up[p]) \in Nat /\ Tail(up[p]) \in Seq(Nat)
  BY <1>1, <1>2, TailOf
<1>4. /\ up' \in [PeerUids -> Seq(Nat)]
      /\ \A q \in PeerUids : up'[q] = IF q = p THEN Tail(up[p]) ELSE up[q]
  BY <1>1, <1>2, <1>3 DEF FlowTypes
<1>5. PICK z \in {"open", "ended"} :
         /\ reads' = [reads EXCEPT ![p] = reads[p] + 1] /\ reads'[p] = reads[p] + 1
         /\ reads' \in [PeerUids -> Nat]
         /\ z # "ended"
         /\ rStream' = [rStream EXCEPT ![p] = z] /\ rStream'[p] = z
         /\ rStream' \in [PeerUids -> {"open", "ended"}]
         /\ UNCHANGED rState \/ \E y : rState' = [rState EXCEPT ![p] = y]
         /\ rState[p] = "running" /\ rStream[p] = "open"
         /\ rState'[p] \in {"running", "ReceiverClosedChannel"}
  BY <1>1, <1>3, Forwarded DEF ItemKinds
<1>6. FlowTypes'
  BY <1>1, <1>2, <1>4, <1>5 DEF FlowTypes, flowVars
<1>7. ASSUME NEW q \in PeerUids, q # p PROVE PeerFlow(q)'
  BY <1>1, <1>4, <1>5, <1>7, ReadOthers
<1>8. PeerFlow(p)'
  <2>1. R!ForwardItem(p, [kind |-> "Message", n |-> Head(up[p])])
    BY <1>1 DEF Reads
  <2>2. /\ Flow(p)
        /\ InFlow(client[p], accepted[p]["tcp"], reads[p] + 1, Tail(up[p]), cwHand[tcp(p)],
                  cwMsgs[tcp(p)], cMsgs[p])
    BY <1>1, <2>1, ReadsInOrder
  <2>3. reads'[p] = reads[p] + 1 /\ up'[p] = Tail(up[p])
    BY <1>4, <1>5
  <2>4. Flow(p)'
    BY <1>1, <2>2, <2>3, Zenon DEF Flow, flowVars
  <2>5. R!ReaderFinished(p) => R!ReaderFinished(p)'
    BY <1>5 DEF R!ReaderFinished, R!ReadOutcome, R!ReadActorShutdownReason
  <2>6. WriterTrue(p)'
    BY <1>1, <1>2, <2>5 DEF PeerFlow, WriterTrue, flowVars, C!W!WriterFinished
  <2> QED
    BY <1>5, <2>4, <2>6 DEF PeerFlow
<1> QED
  BY <1>6, <1>7, <1>8 DEF FlowInv

\* The client's write actor has closed the connection, and everything was read:
\* so the client had left, and nothing is underway.
LEMMA FlowEnds ==
  ASSUME FlowInv, NEW p \in PeerUids, C!W!WriterFinished(tcp(p)), up[p] = <<>>, Reading(p)
  PROVE  Drained(p)
<1>1. FlowTypes /\ WriterTrue(p) /\ Flow(p)
  BY DEF FlowInv, PeerFlow
<1>2. tcp(p) \in C!Sockets /\ accepted[p]["tcp"] \in Nat /\ reads[p] \in Nat
  BY <1>1, FlowPieces
<1>3. cwState[tcp(p)] \notin {"unspawned", "running"}
  BY DEF C!W!WriterFinished, C!W!WriteOutcome, C!W!WriteActorShutdownReason
<1>4. cwReason[tcp(p)] = "ActorHandlesDropped"
  BY <1>1, <1>2, <1>3 DEF FlowTypes, WriterTrue, Flow
<1>5. client[p] \in {"left", "panicked"} /\ cwMsgs[tcp(p)] = <<>> /\ cwHand[tcp(p)] = <<>>
  BY <1>1, <1>3, <1>4 DEF FlowTypes, WriterTrue
<1>6. ASSUME client[p] = "left" PROVE reads[p] = accepted[p]["tcp"]
  <2>1. InFlow("left", accepted[p]["tcp"], reads[p], <<>>, <<>>, <<>>, cMsgs[p])
    BY <1>1, <1>5, <1>6, Zenon DEF Flow
  <2>2. Len(<<>>) = 0
    OBVIOUS
  <2>3. reads[p] + 0 + 0 + 0 = accepted[p]["tcp"]
    BY <2>1, <2>2 DEF InFlow
  <2> QED
    BY <1>2, <2>3
<1> QED
  BY <1>5, <1>6 DEF Drained

\* The server reaches the end of the connection, or fails to read it.
LEMMA FlowSeesEnd ==
  ASSUME ServerInv, IndexInv, ItemInv, EventInv, HeardInv, FlowInv, [Next]_vars,
         NEW p \in PeerUids, ServerSeesEnd(p)
  PROVE  FlowInv'
<1>1. UNCHANGED <<flowVars, up>>
  BY DEF ServerSeesEnd, clientVars, links, flowVars
<1>2. FlowTypes /\ PeerFlow(p) /\ reads[p] \in Nat
  BY FlowPieces DEF FlowInv
<1>3. CASE C!W!WriterFinished(tcp(p)) /\ up[p] = <<>> /\ PeerCloses(p)
  <2>1. /\ rState[p] = "running" /\ rStream[p] = "open"
        /\ rStream' = [rStream EXCEPT ![p] = "ended"] /\ UNCHANGED <<rState, reads, rTx, events>>
    BY <1>3 DEF PeerCloses, R!PeerCloses, ReaderUnchanged, BrokerUnchanged
  <2>2. rStream' \in [PeerUids -> {"open", "ended"}] /\ rStream'[p] = "ended"
    BY <1>2, <2>1 DEF FlowTypes
  <2>3. FlowTypes'
    BY <1>1, <1>2, <2>1, <2>2 DEF FlowTypes, flowVars
  <2>4. reads' = [reads EXCEPT ![p] = reads[p]]
    BY <1>2, <2>1 DEF FlowTypes
  <2>5. ASSUME NEW q \in PeerUids, q # p PROVE PeerFlow(q)'
    BY <1>1, <2>1, <2>4, <2>5, ReadOthers
  <2>6. Drained(p)'
    <3>1. Drained(p)
      BY <1>3, <2>1, FlowEnds DEF Reading
    <3> QED
      BY <1>1, <2>1, <3>1 DEF Drained, flowVars
  <2>7. WriterTrue(p)'
    BY <1>1, <1>2, <2>1 DEF PeerFlow, WriterTrue, flowVars, C!W!WriterFinished, R!ReaderFinished
  <2>8. PeerFlow(p)'
    BY <2>1, <2>2, <2>6, <2>7 DEF PeerFlow, Reading
  <2> QED
    BY <2>3, <2>5, <2>8 DEF FlowInv
<1>4. CASE ReadFails(p)
  <2>1. Reads(p, "Io", reads[p] + 1)
    BY <1>4 DEF ReadFails
  <2>2. PICK z \in {"open", "ended"} :
           /\ reads' = [reads EXCEPT ![p] = reads[p] + 1] /\ reads'[p] = reads[p] + 1
           /\ reads' \in [PeerUids -> Nat]
           /\ z = "ended"
           /\ rStream' = [rStream EXCEPT ![p] = z] /\ rStream'[p] = z
           /\ rStream' \in [PeerUids -> {"open", "ended"}]
           /\ UNCHANGED rState \/ \E y : rState' = [rState EXCEPT ![p] = y]
           /\ rState[p] = "running" /\ rStream[p] = "open"
           /\ rState'[p] \in {"running", "ReceiverClosedChannel"}
           /\ UNCHANGED events
           /\ \/ rTx'[p] = Append(rTx[p], [kind |-> "Io", n |-> reads[p] + 1])
              \/ rTx'[p] = <<>>
    <3>1. reads[p] + 1 \in Nat /\ "Io" \in ItemKinds
      BY <1>2 DEF ItemKinds
    <3> QED
      BY <2>1, <3>1, Forwarded, SMTT(30)
  <2>3. FlowTypes'
    BY <1>1, <1>2, <2>2 DEF FlowTypes, flowVars
  <2>4. ASSUME NEW q \in PeerUids, q # p PROVE PeerFlow(q)'
    BY <1>1, <2>2, <2>4, ReadOthers
  <2>5. FailedLast(p)'
    <3>1. \A i \in HeardIn(events[p]) : events[p][i].n # reads[p] + 1
      <4>1. TakenOf(p) \in Nat /\ TakenOf(p) <= reads[p]
        <5>1. Len(rTx[p]) \in Nat /\ Len(rTx[p]) <= reads[p]
          BY DEF ItemInv, Numbered, CountsUpTo
        <5> QED
          BY <1>2, <5>1 DEF TakenOf
      <4>2. \A i \in HeardIn(events[p]) : events[p][i].n \in 1 .. TakenOf(p)
        BY DEF HeardInv, InOrder, Ordered
      <4>3. \A r \in Nat, t \in Nat : t <= r => r + 1 \notin 1 .. t
        OBVIOUS
      <4> QED
        BY <1>2, <4>1, <4>2, <4>3
    <3>2. rTx'[p] # <<>> => rTx'[p][Len(rTx'[p])].kind # "Message"
      <4>1. PICK x \in ReadItems : x = [kind |-> "Io", n |-> reads[p] + 1] /\ x.kind = "Io"
        <5>1. PICK r \in Nat : r = reads[p] + 1
          BY <1>2
        <5>2. [kind |-> "Io", n |-> r] \in ReadItems /\ [kind |-> "Io", n |-> r].kind = "Io"
          BY DEF ReadItems
        <5> QED
          BY <5>1, <5>2
      <4>2. rTx[p] \in Seq(ReadItems)
        BY DEF ItemInv
      <4>3. Append(rTx[p], x)[Len(Append(rTx[p], x))] = x
        BY <4>2, AppendOf
      <4> QED
        BY <2>2, <4>1, <4>3
    <3>3. reads'[p] >= 1
      BY <1>2, <2>2
    <3> QED
      BY <2>2, <3>1, <3>2, <3>3 DEF FailedLast
  <2>6. WriterTrue(p)'
    <3>1. R!ReaderFinished(p) => R!ReaderFinished(p)'
      BY <2>2 DEF R!ReaderFinished, R!ReadOutcome, R!ReadActorShutdownReason
    <3> QED
      BY <1>1, <1>2, <3>1 DEF PeerFlow, WriterTrue, flowVars, C!W!WriterFinished
  <2>7. PeerFlow(p)'
    BY <2>2, <2>5, <2>6 DEF PeerFlow, Reading
  <2> QED
    BY <2>3, <2>4, <2>7 DEF FlowInv
<1> QED
  BY <1>3, <1>4 DEF ServerSeesEnd


-----------------------------------------------------------------------------
(* Together.                                                               *)

\* Every step of the composition is a step of the server alone, or none.
LEMMA NetIsNext ==
  ASSUME Ordinary, IndexInv, FlowInv, [NetNext]_netVars
  PROVE  [Next]_vars
<1>1. ASSUME NEW p \in PeerUids, ServerReads(p) PROVE Next
  <2>1. up[p] # <<>> /\ Reads(p, "Message", Head(up[p]))
    BY <1>1 DEF ServerReads
  <2>2. Head(up[p]) = reads[p] + 1
    BY <2>1, ReadsInOrder DEF Reads
  <2>3. ReadsMessage(p)
    BY <2>1, <2>2 DEF ReadsMessage
  <2> QED
    BY <2>3 DEF Next
<1> QED
  BY <1>1, ServerSteps DEF ServerStep

\* Every step of the composition keeps the messages in their order.
LEMMA FlowStep ==
  ASSUME Ordinary, ServerInv, IndexInv, ItemInv, EventInv, HeardInv, FlowInv, [NetNext]_netVars
  PROVE  FlowInv'
<1>1. [Next]_vars
  BY NetIsNext
<1>2. FlowTypes /\ \A p \in PeerUids : PeerFlow(p)
  BY DEF FlowInv
<1>3. ASSUME UNCHANGED vars, NEW p \in PeerUids, FlowTypes', PeerFlow(p)', Others(p) PROVE FlowInv'
  <2>1. ASSUME NEW q \in PeerUids, q # p PROVE PeerFlow(q)'
    BY <1>2, <1>3, <2>1, KeptFlow, StillReader DEF Others
  <2> QED
    BY <1>3, <2>1 DEF FlowInv
<1>4. CASE UNCHANGED netVars \/ LoseDatagram
  <2>1. UNCHANGED <<flowVars, up, rStream, reads, rState>>
    BY <1>4 DEF netVars, LoseDatagram, clientVars, links, flowVars, vars, rTask, net
  <2> QED
    BY <1>1, <2>1, FlowQuiet
<1>5. CASE Connect
  BY <1>1, <1>5, FlowConnect
<1>6. CASE UdpWriterLocal \/ ServerSendsDatagram \/ MessageArrives
  BY <1>1, <1>6, FlowServer
<1>7. ASSUME NEW p \in PeerUids, ClientApp(p) \/ ResetConnection(p) PROVE FlowInv'
  <2>1. UNCHANGED vars
    BY <1>7 DEF ClientApp, ResetConnection
  <2> QED
    BY <1>2, <1>3, <1>7, <2>1, FlowClient, FlowReset
<1>8. ASSUME NEW p \in PeerUids, Progress(p) PROVE FlowInv'
  <2>1. CASE ServerLocal(p) \/ ServerWrites(p) \/ HelloArrives(p)
    BY <1>1, <2>1, FlowServer
  <2>2. CASE ServerReads(p)
    BY <1>1, <2>2, FlowRead
  <2>3. CASE ServerSeesEnd(p)
    BY <1>1, <2>3, FlowSeesEnd
  <2>4. CASE \/ ClientLoop(p) \/ ClientReads(p) \/ ClientSeesEnd(p) \/ ClientWrites(p)
             \/ ClientSendsDatagram(p) \/ DatagramArrives(p)
             \/ \E s \in C!Protocols : ClientTask(<<p, s>>)
    <3>1. UNCHANGED vars
      BY <2>4 DEF ClientLoop, ClientReads, ClientSeesEnd, ClientWrites, ClientSendsDatagram,
                  DatagramArrives, ClientTask
    <3> QED
      BY <1>2, <1>3, <2>4, <3>1, FlowClient
  <2> QED
    BY <1>8, <2>1, <2>2, <2>3, <2>4 DEF Progress
<1> QED
  BY <1>4, <1>5, <1>6, <1>7, <1>8 DEF NetNext

\* In the beginning there are no clients and no messages.
LEMMA FlowStart == NetInit => FlowInv
<1> SUFFICES ASSUME NetInit PROVE FlowInv
  OBVIOUS
<1>1. /\ client = [c \in PeerUids |-> "unspawned"] /\ cEventReceiver = [c \in PeerUids |-> FALSE]
      /\ cMsgs = [c \in PeerUids |-> <<>>]
      /\ accepted = [c \in PeerUids |-> [s \in C!Protocols |-> 0]]
      /\ cwState = [a \in C!Sockets |-> "unspawned"] /\ cwReason = [a \in C!Sockets |-> "none"]
      /\ cwMsgs = [a \in C!Sockets |-> <<>>] /\ cwHandle = [a \in C!Sockets |-> FALSE]
      /\ cwHand = [a \in C!Sockets |-> <<>>] /\ cwSink = [a \in C!Sockets |-> <<>>]
  BY DEF NetInit, C!ClientInit, C!W!WriterInit
<1>2. /\ up = [p \in PeerUids |-> <<>>] /\ reset = [p \in PeerUids |-> FALSE]
      /\ rStream = [p \in PeerUids |-> "open"] /\ reads = [p \in PeerUids |-> 0]
      /\ rState = [p \in PeerUids |-> "unspawned"]
  BY DEF NetInit, Init, R!ReaderInit
<1>3. FlowTypes
  BY <1>1, <1>2 DEF FlowTypes
<1>4. InFlow("unspawned", 0, 0, <<>>, <<>>, <<>>, <<>>)
  <2>1. Len(<<>>) = 0 /\ Waits(<<>>, 0, 0)
    BY WaitsNothing
  <2> QED
    BY <2>1 DEF InFlow, CountsFrom, SendsFrom
<1>5. ASSUME NEW p \in PeerUids PROVE PeerFlow(p)
  <2>1. tcp(p) \in C!Sockets /\ "tcp" \in C!Protocols
    BY DEF tcp, C!Sockets, C!Protocols
  <2>2. /\ client[p] = "unspawned" /\ accepted[p]["tcp"] = 0 /\ reads[p] = 0 /\ up[p] = <<>>
        /\ cwHand[tcp(p)] = <<>> /\ cwMsgs[tcp(p)] = <<>> /\ cMsgs[p] = <<>> /\ cwSink[tcp(p)] = <<>>
        /\ cwReason[tcp(p)] = "none" /\ cwState[tcp(p)] = "unspawned" /\ ~reset[p]
        /\ rStream[p] = "open" /\ rState[p] = "unspawned"
    BY <1>1, <1>2, <2>1
  <2>3. Flow(p)
    <3>1. "none" # "SinkError"
      OBVIOUS
    <3> QED
      BY <1>4, <2>2, <3>1, Zenon DEF Flow
  <2>4. WriterTrue(p)
    <3>1. Len(cwHand[tcp(p)]) = 0
      BY <2>2
    <3> QED
      BY <2>2, <3>1 DEF WriterTrue
  <2> QED
    BY <2>2, <2>3, <2>4 DEF PeerFlow
<1> QED
  BY <1>3, <1>5 DEF FlowInv

\* Server and clients together keep what is proved of the server alone, and the
\* messages on their way continue each other (src/src/client/actor.rs:212,
\* src/src/actors/write_actor.rs:127 and src/src/server/actor.rs:180).
THEOREM FlowInvariant ==
  ASSUME Ordinary PROVE NetSpec => [](ItemInv /\ EventInv /\ HeardInv /\ FlowInv)
<1> DEFINE I == ItemInv /\ EventInv /\ HeardInv /\ FlowInv
<1>1. NetInit => I
  BY ItemInit, EventInit, HeardInit, FlowStart DEF NetInit
<1>2. ASSUME NetInv, I, [NetNext]_netVars PROVE I'
  <2>1. ServerInv /\ IndexInv /\ ItemInv /\ EventInv /\ HeardInv /\ FlowInv
    BY <1>2 DEF NetInv
  <2>2. [Next]_vars
    BY <1>2, <2>1, NetIsNext
  <2> QED
    BY <1>2, <2>1, <2>2, ItemStep, EventStep, HeardStep, FlowStep
<1>3. NetSpec => []NetInv
  BY NetInvariant
<1> QED
  BY <1>1, <1>2, <1>3, PTL DEF NetSpec

\* Within the composition the server is the server of ServerActor: whatever its
\* clients and the network do, it sees a peer that ServerActor allows for.  What
\* is proved of every behaviour of ServerActor is so proved of the composition.
THEOREM NetImplementsServer == ASSUME Ordinary PROVE NetSpec => Spec
<1>1. NetInit => Init
  BY DEF NetInit
<1>2. ASSUME NetInv, FlowInv, [NetNext]_netVars PROVE [Next]_vars
  BY <1>2, NetIsNext DEF NetInv
<1>3. NetSpec => []NetInv
  BY NetInvariant
<1>4. NetSpec => []FlowInv
  BY FlowInvariant, PTL
<1> QED
  BY <1>1, <1>2, <1>3, <1>4, PTL DEF NetSpec, Spec

\* So the peers of the composition, too, live as PeerLifecycle says: announced
\* once, heard while connected, disconnected once (src/src/server/event.rs:10).
THEOREM NetImplementsPeerLifecycle == ASSUME Ordinary PROVE NetSpec => ImplementsPeerLifecycle
<1>1. NetSpec => Spec
  BY NetImplementsServer
<1>2. Spec => ImplementsPeerLifecycle
  BY ServerImplementsPeerLifecycle
<1> QED
  BY <1>1, <1>2, PTL

\* A client that drops its handle is heard to the end: when the server reports
\* that it closed its connection and no write to it failed, every message that
\* the handle accepted on TCP was reported, in order, however many channels and
\* sockets still held some when the client left (src/src/client/actor.rs:123 and
\* 212, src/src/server/actor.rs:198).
THEOREM OrderlyLeave == ASSUME Ordinary PROVE NetSpec => []OrderlyLeaveIsHeard
<1>1. ASSUME ItemInv, EventInv, HeardInv, FlowInv PROVE OrderlyLeaveIsHeard
  <2> SUFFICES ASSUME NEW p \in PeerUids, client[p] = "left",
                      \E i \in DOMAIN events[p] : events[p][i] = PeerDisconnect("PeerClosedConnection"),
                      wReason[p] # "SinkError"
               PROVE  /\ {events[p][i].n : i \in Heard(p)} = 1 .. accepted[p]["tcp"]
                      /\ \A i, j \in Heard(p) : i < j => events[p][i].n < events[p][j].n
    BY DEF OrderlyLeaveIsHeard
  <2>1. events[p] \in Seq(Event) /\ DOMAIN events[p] = 1 .. Len(events[p])
    BY <1>1 DEF EventInv
  <2>2. HeardOut
    BY <1>1, HeardOutNow
  <2>3. /\ rState[p] = "EndOfStream"
        /\ {events[p][i].n : i \in Heard(p)} = 1 .. reads[p]
        /\ \A i, j \in Heard(p) : i < j => events[p][i].n < events[p][j].n
    BY <2>1, <2>2 DEF HeardOut
  <2>4. FailedLast(p) \/ Drained(p)
    BY <1>1, <2>3 DEF FlowInv, PeerFlow
  <2>5. ~FailedLast(p)
    <3> SUFFICES ASSUME reads[p] >= 1, \A i \in HeardIn(events[p]) : events[p][i].n # reads[p] PROVE FALSE
      BY DEF FailedLast
    <3>1. reads[p] \in 1 .. reads[p]
      BY <1>1 DEF FlowInv, FlowTypes
    <3>2. PICK i \in Heard(p) : events[p][i].n = reads[p]
      BY <2>3, <3>1
    <3> QED
      BY <3>2 DEF Heard, HeardIn
  <2>6. reads[p] = accepted[p]["tcp"]
    BY <2>4, <2>5 DEF Drained
  <2> QED
    BY <2>3, <2>6
<1>2. NetSpec => [](ItemInv /\ EventInv /\ HeardInv /\ FlowInv)
  BY FlowInvariant
<1> QED
  BY <1>1, <1>2, PTL
=============================================================================
