-------------------------- MODULE ServerLifeProofs -------------------------
(***************************************************************************)
(* What the application learns from the events: that they agree with the   *)
(* peers, that a client which closes its connection is heard out, and that *)
(* the broker implements PeerLifecycle.  At the end, what the arguments    *)
(* establish of every variable: its type and the bound of every channel.   *)
(***************************************************************************)
EXTENDS ServerIndexProofs

ItemKinds == {"Message", "Bincode", "Io"}

\* What waits in the channel of a reader is what it read last, in order.
CountsUpTo(s, r) ==
    /\ Len(s) <= r
    /\ \A j \in 1 .. Len(s) : s[j].n = r - Len(s) + j

Numbered(p) == CountsUpTo(rTx[p], reads[p])

ItemInv ==
    /\ reads \in [PeerUids -> 0 .. MaxReads]
    /\ rTx \in [PeerUids -> Seq(ReadItems)]
    /\ \A p \in PeerUids : Numbered(p)
    /\ \A p \in PeerUids : p >= next_peer_uid \/ ~rRx[p] => rTx[p] = <<>>

\* The events about a peer begin with its NewPeer, which is the only one.
Opens(s) ==
    /\ s # <<>>
    /\ s[1].ev = "NewPeer"
    /\ \A i \in 2 .. Len(s) : s[i].ev # "NewPeer"

Ends(s) == \E i \in 1 .. Len(s) : s[i].ev = "PeerDisconnect"

Announced(p) == Opens(events[p])

Disconnected(p) == Ends(events[p])

EventInv ==
    /\ events \in [PeerUids -> Seq(Event)]
    /\ \A p \in PeerUids : p >= next_peer_uid => events[p] = <<>>
    /\ \A a \in DOMAIN UdpIndex : UdpIndex[a] \in PeerUids /\ UdpIndex[a] < next_peer_uid
    /\ broker = "running" =>
          /\ \A p \in PeerUids : p < next_peer_uid => Announced(p)
          /\ \A p \in PeerUids : p < next_peer_uid => (p \in DOMAIN peers <=> ~Disconnected(p))
          /\ Cardinality(DOMAIN peers) <= max_connections

\* The messages of a peer are reported in the order in which they were read:
\* s holds some of the first t messages, or all of them.
HeardIn(s) == {i \in DOMAIN s : s[i].ev = "TcpMessage"}

Ordered(s, t) ==
    /\ \A i \in HeardIn(s) : s[i].n \in 1 .. t
    /\ \A i, j \in HeardIn(s) : i < j => s[i].n < s[j].n

Complete(s, t) == \A n \in 1 .. t : \E i \in HeardIn(s) : s[i].n = n

TakenOf(p) == reads[p] - Len(rTx[p])

InOrder(p) == Ordered(events[p], TakenOf(p))

\* Everything that was taken from the channel has been reported.
AllHeard(p) == Complete(events[p], TakenOf(p))

\* The end of a peer that is said to have closed its connection.
SaidClosed(p) ==
    /\ \E i \in 1 .. Len(events[p]) : events[p][i] = PeerDisconnect("PeerClosedConnection")
    /\ wReason[p] # "SinkError"

ClosedInv(p) ==
    SaidClosed(p) =>
        /\ rState[p] = "EndOfStream"
        /\ rTx[p] = <<>>
        /\ AllHeard(p)
        /\ events[p][Len(events[p])].ev = "PeerDisconnect"

\* What a write actor is said to have ended with.
ReasonInv(w) ==
    /\ wReason[w] \in {"none"} \cup W!WriteActorShutdownReason
    /\ wState[w] \in {"unspawned", "running"} => wReason[w] = "none"
    /\ wState[w] = "SinkError" => wReason[w] = "SinkError"

HeardInv ==
    /\ \A p \in PeerUids : InOrder(p) /\ ClosedInv(p)
    /\ \A p \in PeerUids : p >= next_peer_uid => reads[p] = 0
    /\ broker = "running" => \A p \in DOMAIN peers : AllHeard(p)
    /\ \A w \in AllWriters : ReasonInv(w)

-----------------------------------------------------------------------------
(* The channels of the readers.                                            *)

\* The reader sends the item it has read.
LEMMA CountAppend ==
  ASSUME NEW s \in Seq(ReadItems), NEW r \in Nat, NEW x \in ReadItems, x.n = r + 1, CountsUpTo(s, r)
  PROVE  CountsUpTo(Append(s, x), r + 1)
<1>1. /\ Len(Append(s, x)) = Len(s) + 1
      /\ Append(s, x)[Len(s) + 1] = x
      /\ \A j \in 1 .. Len(s) : Append(s, x)[j] = s[j]
      /\ Len(s) \in Nat
  OBVIOUS
<1>2. ASSUME NEW j \in 1 .. Len(s) + 1
      PROVE  Append(s, x)[j].n = (r + 1) - (Len(s) + 1) + j
  <2>1. CASE j \in 1 .. Len(s)
    BY <1>1, <2>1 DEF CountsUpTo
  <2>2. CASE j = Len(s) + 1
    BY <1>1, <2>2 DEF CountsUpTo
  <2> QED
    BY <1>1, <2>1, <2>2
<1> QED
  BY <1>1, <1>2 DEF CountsUpTo

\* The broker takes the oldest.
LEMMA CountTail ==
  ASSUME NEW s \in Seq(ReadItems), s # <<>>, NEW r \in Nat, CountsUpTo(s, r)
  PROVE  /\ CountsUpTo(Tail(s), r)
         /\ Head(s) \in ReadItems
         /\ Head(s).n = r - Len(s) + 1
         /\ Len(s) \in 1 .. r
         /\ Len(Tail(s)) = Len(s) - 1
         /\ Tail(s) \in Seq(ReadItems)
<1>1. /\ Len(s) \in Nat /\ Len(s) > 0
      /\ Len(Tail(s)) = Len(s) - 1
      /\ Tail(s) \in Seq(ReadItems)
      /\ \A j \in 1 .. Len(s) - 1 : Tail(s)[j] = s[j + 1]
      /\ Head(s) = s[1] /\ Head(s) \in ReadItems
  OBVIOUS
<1>2. ASSUME NEW j \in 1 .. Len(s) - 1
      PROVE  Tail(s)[j].n = r - (Len(s) - 1) + j
  <2>1. j + 1 \in 1 .. Len(s) /\ Tail(s)[j] = s[j + 1]
    BY <1>1
  <2>2. s[j + 1].n = r - Len(s) + (j + 1)
    BY <2>1 DEF CountsUpTo
  <2> QED
    BY <1>1, <2>1, <2>2
<1> QED
  BY <1>1, <1>2 DEF CountsUpTo

\* What a step does to the channels of the readers.
LEMMA ItemMoves ==
  ASSUME [Next]_vars
  PROVE  \/ \E p \in PeerUids, kind \in ItemKinds : Reads(p, kind, reads[p] + 1)
         \/ \E p \in PeerUids : TakeItem(p) /\ UNCHANGED <<reads, rRx, next_peer_uid>>
         \/ \E a, u \in Addrs : handle_new_tcp_connection(a, u)
         \/ Unwind
         \/ UNCHANGED <<rTx, reads, rRx, next_peer_uid>>
<1> USE DEF index, app, net, rTask, rLink, wTask, wLink
<1>1. CASE UNCHANGED vars
  BY <1>1 DEF vars
<1>2. CASE PeerAddrFails \/ UdpActorEnds \/ ActorMessagesEnd
  BY <1>2 DEF PeerAddrFails, UdpActorEnds, ActorMessagesEnd, UdpUnchanged
<1>3. ASSUME NEW p \in PeerUids, Broker(p)
      PROVE  \/ TakeItem(p) /\ UNCHANGED <<reads, rRx, next_peer_uid>>
             \/ UNCHANGED <<rTx, reads, rRx, next_peer_uid>>
  BY <1>3 DEF Broker, handle_tcp_reader_stream_item, TcpReaderError, TcpReaderEnd, TcpWriterEnd,
              AnnounceFeed, AnnounceUnchanged
<1>4. CASE \/ \E p \in PeerUids, a \in Addrs : UdpHello(p, a)
           \/ \E a \in Addrs : UdpApplicationLogic(a) \/ UdpUndecodable(a)
  BY <1>4 DEF UdpHello, UdpApplicationLogic, UdpUndecodable, UdpUnchanged
<1>5. CASE UdpHeartbeat \/ AnnounceFlush
  BY <1>5 DEF UdpHeartbeat, AnnounceFlush, AnnounceUnchanged
<1>6. CASE handle_actor_message
  BY <1>6 DEF handle_actor_message, ToPeerTcp, ToPeerUdp, announce_tcp, AnnounceUdp,
              GetNumberOfConnectedPeers, TakeMessage
<1>7. ASSUME NEW p \in PeerUids, ReadsMessage(p) \/ ReadsUndecodable(p) \/ ReadFails(p)
      PROVE  \E kind \in ItemKinds : Reads(p, kind, reads[p] + 1)
  BY <1>7 DEF ReadsMessage, ReadsUndecodable, ReadFails, ItemKinds
<1>8. ASSUME NEW p \in PeerUids, ReaderRuns(p) \/ ReaderPanics(p) \/ PeerCloses(p)
      PROVE  UNCHANGED <<rTx, reads, rRx, next_peer_uid>>
  BY <1>8 DEF ReaderRuns, ReaderPanics, PeerCloses, ReaderUnchanged, BrokerUnchanged, R!ReaderProgress,
              R!ReceiveShutdown, R!HandlesDropped, R!EndOfStream, R!ReaderPanics, R!PeerCloses
<1>9. ASSUME NEW w \in PeerUids \cup {UdpWriter}, WriterRuns(w) \/ WriterPanics(w) \/ WriterSteps(w)
       PROVE  UNCHANGED <<rTx, reads, rRx, next_peer_uid>>
  BY <1>9 DEF WriterRuns, WriterPanics, WriterSteps, SinkDone, SinkFails, CloseSink,
               WriterUnchanged, BrokerUnchanged
<1>10. ASSUME (\E m \in Message : Call(m)) \/ DropHandle \/ DropEvents
       PROVE  UNCHANGED <<rTx, reads, rRx, next_peer_uid>>
  BY <1>10 DEF Call, DropHandle, DropEvents, AppUnchanged
<1> QED
  BY <1>1, <1>2, <1>3, <1>4, <1>5, <1>6, <1>7, <1>8, <1>9, <1>10 DEF Next

\* Reading a connection.
LEMMA ItemRead ==
  ASSUME ServerInv, ItemInv, NEW p \in PeerUids, NEW kind \in ItemKinds, Reads(p, kind, reads[p] + 1)
  PROVE  ItemInv' /\ p < next_peer_uid /\ rState[p] = "running"
<1> PICK s \in Seq(ReadItems), r \in 0 .. MaxReads : s = rTx[p] /\ r = reads[p]
  BY DEF ItemInv
<1>1. PICK x : s = rTx[p] /\ r = reads[p] /\ x = [kind |-> kind, n |-> reads[p] + 1]
  OBVIOUS
<1>2. r \in Nat /\ r < MaxReads /\ x \in ReadItems /\ x.n = r + 1
  BY <1>1, ServerActorAssumption DEF Reads, ReadItems, ItemKinds
<1>3. rState[p] = "running" /\ UNCHANGED next_peer_uid
  BY DEF Reads, R!ForwardItem, R!Polling, BrokerUnchanged
<1>4. p < next_peer_uid
  <2>1. p \in Nat /\ next_peer_uid \in Nat
    BY ServerActorAssumption DEF PeerUids, ServerInv, ActorTypes
  <2>2. ~(p >= next_peer_uid)
    BY <1>3 DEF ServerInv, Fresh, FreshUid
  <2> QED
    BY <2>1, <2>2
<1>5. reads' = [reads EXCEPT ![p] = r + 1]
  BY <1>1 DEF Reads
<1>6. UNCHANGED rRx /\ rTx' = IF rRx[p] THEN [rTx EXCEPT ![p] = Append(s, x)] ELSE rTx
  BY <1>1 DEF Reads, R!ForwardItem
<1>7. /\ reads \in [PeerUids -> 0 .. MaxReads] /\ reads' \in [PeerUids -> 0 .. MaxReads]
      /\ reads'[p] = r + 1
      /\ \A q \in PeerUids : q # p => reads'[q] = reads[q]
  <2>1. reads \in [PeerUids -> 0 .. MaxReads] /\ r + 1 \in 0 .. MaxReads
    BY <1>2, ServerActorAssumption DEF ItemInv
  <2> QED
    BY <1>5, <2>1, Zenon
<1>8. /\ rTx \in [PeerUids -> Seq(ReadItems)] /\ rTx' \in [PeerUids -> Seq(ReadItems)]
      /\ rTx'[p] = IF rRx[p] THEN Append(s, x) ELSE s
      /\ \A q \in PeerUids : q # p => rTx'[q] = rTx[q]
  <2>1. rTx \in [PeerUids -> Seq(ReadItems)] /\ Append(s, x) \in Seq(ReadItems)
    BY <1>2 DEF ItemInv
  <2> QED
    BY <1>1, <1>6, <2>1, Zenon
<1>9. CountsUpTo(s, r)
  BY <1>1 DEF ItemInv, Numbered
<1>10. Numbered(p)'
  <2>1. CASE rRx[p]
    <3>1. CountsUpTo(Append(s, x), r + 1)
      BY <1>2, <1>9, CountAppend
    <3> QED
      BY <1>7, <1>8, <2>1, <3>1, Zenon DEF Numbered
  <2>2. CASE ~rRx[p]
    <3>1. s = <<>>
      BY <1>1, <2>2 DEF ItemInv
    <3>2. CountsUpTo(s, r + 1)
      BY <1>2, <3>1 DEF CountsUpTo
    <3> QED
      BY <1>7, <1>8, <2>2, <3>2, Zenon DEF Numbered
  <2> QED
    BY <2>1, <2>2
<1>11. \A q \in PeerUids : Numbered(q)'
  <2>1. ASSUME NEW q \in PeerUids, q # p PROVE Numbered(q)'
    BY <1>7, <1>8, <2>1, Zenon DEF ItemInv, Numbered
  <2> QED
    BY <1>10, <2>1
<1>12. \A q \in PeerUids : q >= next_peer_uid' \/ ~rRx'[q] => rTx'[q] = <<>>
  <2>1. ASSUME NEW q \in PeerUids, q >= next_peer_uid \/ ~rRx[q] PROVE rTx'[q] = <<>>
    <3>1. rTx[q] = <<>>
      BY <2>1 DEF ItemInv
    <3>2. CASE q # p
      BY <1>8, <3>1, <3>2
    <3>3. CASE q = p
      <4>1. ~rRx[p]
        BY <1>4, <2>1, <3>3, ServerActorAssumption DEF PeerUids, ServerInv, ActorTypes
      <4> QED
        BY <1>1, <1>8, <3>1, <3>3, <4>1
    <3> QED
      BY <3>2, <3>3
  <2> QED
    BY <1>3, <1>6, <2>1
<1> QED
  BY <1>3, <1>4, <1>7, <1>8, <1>11, <1>12 DEF ItemInv

\* The broker takes an item: its number is the next one.
LEMMA ItemTaken ==
  ASSUME ServerInv, ItemInv, NEW p \in PeerUids, TakeItem(p), UNCHANGED <<reads, rRx, next_peer_uid>>
  PROVE  /\ ItemInv'
         /\ p < next_peer_uid
         /\ Head(rTx[p]).n = TakenOf(p) + 1
         /\ TakenOf(p)' = TakenOf(p) + 1
         /\ TakenOf(p) \in Nat /\ TakenOf(p) + 1 \in 1 .. MaxReads
         /\ \A q \in PeerUids : q # p => rTx'[q] = rTx[q]
<1>1. PICK s \in Seq(ReadItems), r \in 0 .. MaxReads : s = rTx[p] /\ r = reads[p]
  BY DEF ItemInv
<1>2. r \in Nat /\ s # <<>> /\ CountsUpTo(s, r)
  BY <1>1, ServerActorAssumption DEF TakeItem, ItemInv, Numbered
<1>3. rTx' = [rTx EXCEPT ![p] = Tail(s)]
  BY <1>1 DEF TakeItem
<1>4. /\ CountsUpTo(Tail(s), r)
      /\ Head(s).n = r - Len(s) + 1
      /\ Len(s) \in 1 .. r
      /\ Len(Tail(s)) = Len(s) - 1
      /\ Tail(s) \in Seq(ReadItems)
  BY <1>2, CountTail
<1>5. /\ rTx' \in [PeerUids -> Seq(ReadItems)]
      /\ rTx'[p] = Tail(s)
      /\ \A q \in PeerUids : q # p => rTx'[q] = rTx[q]
  <2>1. rTx \in [PeerUids -> Seq(ReadItems)]
    BY DEF ItemInv
  <2> QED
    BY <1>3, <1>4, <2>1, Zenon
<1>6. p < next_peer_uid /\ rRx[p]
  <2>1. p \in Nat /\ next_peer_uid \in Nat
    BY ServerActorAssumption DEF PeerUids, ServerInv, ActorTypes
  <2>2. ~(p >= next_peer_uid) /\ rRx[p]
    BY <1>1, <1>2 DEF ItemInv
  <2> QED
    BY <2>1, <2>2
<1>7. \A q \in PeerUids : Numbered(q)'
  <2>1. ASSUME NEW q \in PeerUids, q # p PROVE Numbered(q)'
    BY <1>5, <2>1, Zenon DEF ItemInv, Numbered
  <2>2. Numbered(p)'
    BY <1>1, <1>4, <1>5, Zenon DEF Numbered
  <2> QED
    BY <2>1, <2>2
<1>8. \A q \in PeerUids : q >= next_peer_uid' \/ ~rRx'[q] => rTx'[q] = <<>>
  <2>1. ASSUME NEW q \in PeerUids, q >= next_peer_uid \/ ~rRx[q] PROVE rTx'[q] = <<>>
    <3>1. rTx[q] = <<>>
      BY <2>1 DEF ItemInv
    <3>2. q # p
      BY <1>1, <1>2, <3>1
    <3> QED
      BY <1>5, <3>1, <3>2
  <2> QED
    BY <2>1
<1>9. ItemInv'
  BY <1>5, <1>7, <1>8 DEF ItemInv
<1>10. /\ r - Len(s) \in Nat /\ r - Len(s) + 1 \in 1 .. MaxReads
       /\ r - Len(Tail(s)) = r - Len(s) + 1
  BY <1>2, <1>4, ServerActorAssumption
<1>11. TakenOf(p) = r - Len(s) /\ TakenOf(p)' = r - Len(Tail(s))
  <2>1. reads'[p] = r
    BY <1>1
  <2> QED
    BY <1>1, <1>5, <2>1, Zenon DEF TakenOf
<1>12. Head(rTx[p]).n = r - Len(s) + 1
  BY <1>1, <1>4
<1> QED
  BY <1>5, <1>6, <1>9, <1>10, <1>11, <1>12

\* Every step of the server preserves the numbering.
LEMMA ItemStep == ServerInv /\ ItemInv /\ [Next]_vars => ItemInv'
<1> SUFFICES ASSUME ServerInv, ItemInv, [Next]_vars PROVE ItemInv'
  OBVIOUS
<1>1. ASSUME NEW p \in PeerUids, NEW kind \in ItemKinds, Reads(p, kind, reads[p] + 1) PROVE ItemInv'
  BY <1>1, ItemRead
<1>2. ASSUME NEW p \in PeerUids, TakeItem(p), UNCHANGED <<reads, rRx, next_peer_uid>> PROVE ItemInv'
  BY <1>2, ItemTaken
<1>3. ASSUME NEW a \in Addrs, NEW u \in Addrs, handle_new_tcp_connection(a, u) PROVE ItemInv'
  <2>1. /\ rRx' = [rRx EXCEPT ![next_peer_uid] = TRUE]
        /\ next_peer_uid' = next_peer_uid + 1
        /\ UNCHANGED <<rTx, reads>>
    BY <1>3 DEF handle_new_tcp_connection, R!spawn_read_actor
  <2>2. ASSUME NEW q \in PeerUids, q >= next_peer_uid' \/ ~rRx'[q] PROVE q >= next_peer_uid \/ ~rRx[q]
    BY <2>1, <2>2, ServerActorAssumption DEF PeerUids, ServerInv, ActorTypes
  <2> QED
    BY <2>1, <2>2 DEF ItemInv, Numbered
<1>4. CASE Unwind
  <2>1. UNCHANGED <<reads, next_peer_uid>> /\ rTx' = [p \in PeerUids |-> <<>>]
    BY <1>4 DEF Unwind, net
  <2>2. \A p \in PeerUids : rTx'[p] = <<>>
    BY <2>1
  <2>3. rTx' \in [PeerUids -> Seq(ReadItems)]
    BY <2>1
  <2>4. ASSUME NEW p \in PeerUids PROVE Numbered(p)'
    <3>1. reads'[p] \in Nat
      BY <2>1, ServerActorAssumption DEF ItemInv
    <3>2. CountsUpTo(<<>>, reads'[p])
      BY <3>1 DEF CountsUpTo
    <3> QED
      BY <2>2, <3>2 DEF Numbered
  <2> QED
    BY <2>1, <2>2, <2>3, <2>4 DEF ItemInv
<1>5. CASE UNCHANGED <<rTx, reads, rRx, next_peer_uid>>
  BY <1>5 DEF ItemInv, Numbered
<1> QED
  BY <1>1, <1>2, <1>3, <1>4, <1>5, ItemMoves

\* The channels begin empty.
LEMMA ItemInit == Init => ItemInv
<1> SUFFICES ASSUME Init PROVE ItemInv
  OBVIOUS
<1>1. /\ \A p \in PeerUids : rTx[p] = <<>> /\ reads[p] = 0
      /\ rTx \in [PeerUids -> Seq(ReadItems)]
      /\ reads \in [PeerUids -> 0 .. MaxReads]
  BY ServerActorAssumption DEF Init, R!ReaderInit
<1>2. CountsUpTo(<<>>, 0)
  BY DEF CountsUpTo
<1> QED
  BY <1>1, <1>2 DEF ItemInv, Numbered

\* The items in the channels are numbered in every behaviour.
THEOREM ItemInvariant == Spec => []ItemInv
<1> QED
  BY ItemInit, ItemStep, ServerInvariant, PTL DEF Spec

-----------------------------------------------------------------------------
(* The broker implements PeerLifecycle.                                    *)

\* The uids and the connected peers of the two specifications are the same.
LEMMA LifeFacts ==
  ASSUME ServerInv
  PROVE  /\ L!Uids = PeerUids
         /\ L!Connected = DOMAIN peers
         /\ \A p \in PeerUids : /\ life[p] = "new" <=> p >= next_peer_uid
                                /\ life[p] = "connected" <=> p \in DOMAIN peers
                                /\ life[p] = "gone" <=> ~(p >= next_peer_uid) /\ p \notin DOMAIN peers
<1>1. L!Uids = PeerUids
  BY DEF L!Uids, PeerUids
<1>2. \A p \in PeerUids : /\ life[p] = "new" <=> p >= next_peer_uid
                          /\ life[p] = "connected" <=> p \in DOMAIN peers
                          /\ life[p] = "gone" <=> ~(p >= next_peer_uid) /\ p \notin DOMAIN peers
  BY DEF life, Connected, ServerInv, Fresh, FreshUid
<1>3. DOMAIN peers \subseteq PeerUids
  BY DEF ServerInv, ActorTypes
<1> QED
  BY <1>1, <1>2, <1>3 DEF L!Connected

\* unbounded_send delivers the event, or fails and the broker panics
\* (src/src/server/actor.rs:400).
LEMMA LifeNotify ==
  ASSUME broker = "running", NEW p, NEW e, emit(p, e)
  PROVE  L!Notify(p, e) /\ server = "up"
<1>1. server = "up"
  BY DEF server
<1>2. CASE event_receiver
  <2>1. events' = [events EXCEPT ![p] = Append(events[p], e)] /\ broker' = broker
    BY <1>2 DEF emit
  <2>2. server' = server
    BY <2>1 DEF server
  <2> QED
    BY <1>1, <2>1, <2>2 DEF L!Notify
<1>3. CASE ~event_receiver
  <2>1. events' = events /\ broker' = "unwinding"
    BY <1>3 DEF emit
  <2>2. server' = "failing"
    BY <2>1 DEF server
  <2> QED
    BY <1>1, <2>1, <2>2 DEF L!Notify
<1> QED
  BY <1>2, <1>3

\* A step that changes neither who is connected nor the events is a stutter.
LEMMA LifeQuiet ==
  ASSUME UNCHANGED <<next_peer_uid, events, broker>>, DOMAIN peers' = DOMAIN peers
  PROVE  UNCHANGED L!lifeVars
  BY DEF L!lifeVars, life, server, Connected

\* A new peer: its uid was never given out, and all smaller ones were.
LEMMA LifeConnect ==
  ASSUME ServerInv, NEW a \in Addrs, NEW u \in Addrs, handle_new_tcp_connection(a, u)
  PROVE  L!LifeNext
<1>1. PICK p \in PeerUids :
           /\ broker = "running"
           /\ Cardinality(DOMAIN peers) < max_connections
           /\ DOMAIN peers' = DOMAIN peers \cup {p}
           /\ emit(p, [ev |-> "NewPeer"])
           /\ \A q \in PeerUids : /\ q >= next_peer_uid <=> q >= p
                                  /\ q >= next_peer_uid' <=> q >= p /\ q # p
  <2>1. /\ next_peer_uid \in PeerUids /\ broker = "running"
        /\ Cardinality(DOMAIN peers) < max_connections
        /\ next_peer_uid' = next_peer_uid + 1
        /\ DOMAIN peers' = DOMAIN peers \cup {next_peer_uid}
        /\ emit(next_peer_uid, [ev |-> "NewPeer"])
    BY DEF handle_new_tcp_connection, Ready, Insert, NewPeer
  <2>2. \A q \in PeerUids : q >= next_peer_uid' <=> q >= next_peer_uid /\ q # next_peer_uid
    BY <2>1, ServerActorAssumption DEF PeerUids
  <2> QED
    BY <2>1, <2>2
<1>2. L!Notify(p, [ev |-> "NewPeer"]) /\ server = "up"
  BY <1>1, LifeNotify
<1>3. life[p] = "new" /\ \A q \in L!Uids : q < p => life[q] # "new"
  <2>1. \A q \in PeerUids : p >= p /\ (q < p => ~(q >= p))
    BY ServerActorAssumption DEF PeerUids
  <2> QED
    BY <1>1, <2>1, LifeFacts
<1>4. life' = [life EXCEPT ![p] = "connected"]
  BY <1>1 DEF life, Connected
<1>5. p \in L!Uids /\ L!Cardinality(L!Connected) < max_connections
  <2>1. L!Cardinality(L!Connected) = Cardinality(L!Connected)
    BY DEF L!Cardinality, Cardinality
  <2> QED
    BY <1>1, <2>1, LifeFacts, Zenon
<1>6. L!Connect(p)
  BY <1>2, <1>3, <1>4, <1>5, Zenon DEF L!Connect
<1> QED
  BY <1>5, <1>6, Zenon DEF L!LifeNext

\* A disconnect is of a connected peer, and the last of it.
LEMMA LifeDrop ==
  ASSUME ServerInv, NEW p \in DOMAIN peers, NEW r \in DisconnectReason, Drops(p, r)
  PROVE  L!LifeNext
<1>1. /\ p \in PeerUids /\ broker = "running" /\ next_peer_uid' = next_peer_uid
      /\ DOMAIN peers' = DOMAIN peers \ {p}
      /\ emit(p, [ev |-> "PeerDisconnect", disconnect_reason |-> r])
  BY DEF Drops, Ready, forget_peer, Remove, PeerDisconnect, ServerInv, ActorTypes
<1>2. L!Notify(p, [ev |-> "PeerDisconnect", disconnect_reason |-> r]) /\ server = "up"
  BY <1>1, LifeNotify
<1>3. life[p] = "connected" /\ ~(p >= next_peer_uid)
  BY <1>1, LifeFacts DEF ServerInv, Fresh, FreshUid
<1>4. life' = [life EXCEPT ![p] = "gone"]
  BY <1>1, <1>3 DEF life, Connected
<1> QED
  BY <1>1, <1>2, <1>3, <1>4, LifeFacts DEF L!LifeNext, L!Disconnect, DisconnectReason

\* A message on TCP is of a peer that was announced; its serial is the number
\* under which it was read.
LEMMA LifeTcp ==
  ASSUME ServerInv, ItemInv, NEW p \in PeerUids, handle_tcp_reader_stream_item(p)
  PROVE  L!LifeNext
<1> DEFINE n == Head(rTx[p]).n
<1>1. /\ broker = "running" /\ TakeItem(p)
      /\ UNCHANGED <<reads, rRx, next_peer_uid>> /\ peers' = peers
      /\ emit(p, [ev |-> "TcpMessage", n |-> n])
  BY DEF handle_tcp_reader_stream_item, TakeItem, Ready, TcpMessage, net, index
<1>2. p < next_peer_uid /\ n \in 1 .. MaxReads
  BY <1>1, ItemTaken
<1>3. p \in Nat /\ next_peer_uid \in Nat
  BY ServerActorAssumption DEF PeerUids, ServerInv, ActorTypes
<1> HIDE DEF n
<1>4. L!Notify(p, [ev |-> "TcpMessage", n |-> n]) /\ server = "up"
  BY <1>1, LifeNotify
<1>5. life[p] # "new"
  BY <1>2, <1>3, LifeFacts
<1>6. life' = life
  BY <1>1 DEF life, Connected
<1> QED
  BY <1>2, <1>4, <1>5, <1>6, LifeFacts DEF L!LifeNext, L!HearTcp

\* A message on UDP is of a connected peer, because the index has no others.
LEMMA LifeUdp ==
  ASSUME ServerInv, IndexInv, NEW a \in Addrs, UdpApplicationLogic(a)
  PROVE  L!LifeNext
<1>1. PICK p \in DOMAIN peers : p = UdpIndex[a]
  BY DEF UdpApplicationLogic, UdpIndex, IndexInv, NoStrays
<1>2. /\ p \in PeerUids /\ broker = "running" /\ UNCHANGED <<next_peer_uid, peers>>
      /\ emit(p, [ev |-> "UdpMessage"])
  BY <1>1 DEF UdpApplicationLogic, UdpIndex, UdpUnchanged, Ready, UdpMessage, index, ServerInv, ActorTypes
<1>3. L!Notify(p, [ev |-> "UdpMessage"]) /\ server = "up"
  BY <1>2, LifeNotify
<1>4. life[p] = "connected"
  BY <1>2, LifeFacts
<1>5. life' = life
  BY <1>2 DEF life, Connected
<1> QED
  BY <1>2, <1>3, <1>4, <1>5, LifeFacts DEF L!LifeNext, L!HearUdp

\* Panics of the broker.
LEMMA LifeFail ==
  ASSUME ServerInv, BrokerFails \/ Unwind
  PROVE  L!LifeNext
<1>1. CASE BrokerFails
  <2>1. /\ broker = "running" /\ broker' = "unwinding"
        /\ UNCHANGED <<next_peer_uid, peers, events>>
    BY <1>1 DEF BrokerFails, Ready, index
  <2>2. server = "up" /\ server' = "failing" /\ UNCHANGED <<life, events>>
    BY <2>1 DEF server, life, Connected
  <2> QED
    BY <2>2 DEF L!LifeNext, L!Fail
<1>2. CASE Unwind
  <2>1. /\ broker = "unwinding" /\ broker' = "gone"
        /\ UNCHANGED <<next_peer_uid, events>> /\ DOMAIN peers' = {}
    BY <1>2 DEF Unwind, EmptyMap
  <2>2. server = "failing" /\ server' = "down"
    BY <2>1 DEF server
  <2>3. life' = [p \in PeerUids |-> IF life[p] = "connected" THEN "gone" ELSE life[p]]
    <3>1. \A p \in PeerUids : life[p] = "connected" => ~(p >= next_peer_uid)
      BY LifeFacts DEF ServerInv, Fresh, FreshUid
    <3> QED
      BY <2>1, <3>1 DEF life, Connected
  <2> QED
    BY <2>1, <2>2, <2>3, LifeFacts DEF L!LifeNext, L!GoDown
<1> QED
  BY <1>1, <1>2

\* Every step of the broker and its actors is a step of PeerLifecycle, or
\* changes nothing that it speaks of.
LEMMA LifeStep ==
  ASSUME Ordinary
  PROVE  ServerInv /\ IndexInv /\ ItemInv /\ [Next]_vars => [L!LifeNext]_(L!lifeVars)
<1> SUFFICES ASSUME ServerInv, IndexInv, ItemInv, [Next]_vars
             PROVE  L!LifeNext \/ UNCHANGED L!lifeVars
  OBVIOUS
<1>1. ASSUME NEW a \in Addrs, NEW u \in Addrs, handle_new_tcp_connection(a, u) PROVE L!LifeNext
  BY <1>1, LifeConnect
<1>2. ASSUME NEW p \in DOMAIN peers, NEW r \in DisconnectReason, Drops(p, r) PROVE L!LifeNext
  BY <1>2, LifeDrop
<1>3. ASSUME NEW q \in PeerUids, NEW a \in Addrs, UdpHello(q, a) PROVE UNCHANGED L!lifeVars
  BY <1>3, LifeQuiet DEF UdpHello, record_udp_addr, UdpUnchanged
<1>4. ASSUME NEW p \in PeerUids, handle_tcp_reader_stream_item(p) PROVE L!LifeNext
  BY <1>4, LifeTcp
<1>5. ASSUME NEW a \in Addrs, UdpApplicationLogic(a) PROVE L!LifeNext
  BY <1>5, LifeUdp
<1>6. CASE BrokerFails \/ Unwind
  BY <1>6, LifeFail
<1>7. CASE Quiet
  BY <1>7, LifeQuiet DEF Quiet, index
<1> QED
  BY <1>1, <1>2, <1>3, <1>4, <1>5, <1>6, <1>7, Moves

\* The broker with its actors implements PeerLifecycle: what the application
\* can tell from the events of a server that never reuses a peer's key is what
\* the events' documentation promises (src/src/server/event.rs).
THEOREM ServerImplementsPeerLifecycle == ASSUME Ordinary PROVE Spec => ImplementsPeerLifecycle
<1>1. Init => L!LifeInit
  BY DEF Init, L!LifeInit, life, server, Connected, EmptyMap, L!Uids, PeerUids
<1>2. ServerInv /\ IndexInv /\ ItemInv /\ [Next]_vars => [L!LifeNext]_(L!lifeVars)
  BY LifeStep
<1> QED
  BY <1>1, <1>2, ServerInvariant, IndexInvariant, ItemInvariant, PTL
  DEF Spec, ImplementsPeerLifecycle, L!LifeSpec
-----------------------------------------------------------------------------
(* The events agree with the peers.                                        *)

\* One more event.
LEMMA EventAppend ==
  ASSUME NEW s \in Seq(Event), NEW e \in Event
  PROVE  /\ Append(s, e) \in Seq(Event)
         /\ Len(Append(s, e)) = Len(s) + 1 /\ Len(s) \in Nat
         /\ \A i \in 1 .. Len(s) : Append(s, e)[i] = s[i]
         /\ Append(s, e)[Len(s) + 1] = e
  OBVIOUS

\* Nothing but NewPeer begins the events of a peer, and nothing but a
\* PeerDisconnect ends them.
LEMMA EventOpens ==
  ASSUME NEW s \in Seq(Event), NEW e \in Event
  PROVE  /\ Opens(s) /\ e.ev # "NewPeer" => Opens(Append(s, e))
         /\ s = <<>> /\ e.ev = "NewPeer" => Opens(Append(s, e))
         /\ Ends(Append(s, e)) <=> Ends(s) \/ e.ev = "PeerDisconnect"
<1> DEFINE t == Append(s, e)
<1>1. /\ t \in Seq(Event) /\ Len(t) = Len(s) + 1 /\ Len(s) \in Nat
      /\ \A i \in 1 .. Len(s) : t[i] = s[i]
      /\ t[Len(s) + 1] = e
  BY EventAppend
<1>2. (s = <<>> <=> Len(s) = 0) /\ t # <<>>
  BY SMTT(30)
<1> HIDE DEF t
<1>3. \A i \in 1 .. Len(t) : i \in 1 .. Len(s) \/ i = Len(s) + 1
  BY <1>1
<1>4. ASSUME Opens(s), e.ev # "NewPeer" PROVE Opens(t)
  BY <1>1, <1>2, <1>3, <1>4 DEF Opens
<1>5. ASSUME s = <<>>, e.ev = "NewPeer" PROVE Opens(t)
  BY <1>1, <1>2, <1>3, <1>5 DEF Opens
<1>6. Ends(t) <=> Ends(s) \/ e.ev = "PeerDisconnect"
  BY <1>1, <1>3 DEF Ends
<1> QED
  BY <1>4, <1>5, <1>6 DEF t

\* unbounded_send appends to the events of the peer, or the broker panics
\* (src/src/server/actor.rs:400).
LEMMA EventEmit ==
  ASSUME EventInv, NEW p \in PeerUids, NEW e \in Event, emit(p, e)
  PROVE  \/ broker' = "unwinding" /\ events' = events
         \/ /\ broker' = broker
            /\ events' \in [PeerUids -> Seq(Event)]
            /\ events'[p] = Append(events[p], e)
            /\ \A q \in PeerUids : q # p => events'[q] = events[q]
<1>1. PICK s \in Seq(Event) : s = events[p]
  BY DEF EventInv
<1>2. CASE event_receiver
  <2>1. events' = [events EXCEPT ![p] = Append(s, e)] /\ broker' = broker
    BY <1>1, <1>2 DEF emit
  <2>2. Append(s, e) \in Seq(Event) /\ events \in [PeerUids -> Seq(Event)]
    BY EventAppend DEF EventInv
  <2>3. /\ events' \in [PeerUids -> Seq(Event)]
        /\ events'[p] = Append(s, e)
        /\ \A q \in PeerUids : q # p => events'[q] = events[q]
    BY <2>1, <2>2, Zenon
  <2> QED
    BY <1>1, <2>1, <2>3, Zenon
<1>3. CASE ~event_receiver
  BY <1>3 DEF emit
<1> QED
  BY <1>2, <1>3

\* What an announcement, a message or a disconnect does to the events.
LEMMA EventNotify ==
  ASSUME ServerInv, EventInv, broker = "running",
         NEW p \in PeerUids, p < next_peer_uid, NEW e \in Event, e.ev # "NewPeer", emit(p, e),
         UNCHANGED next_peer_uid,
         \A a \in DOMAIN UdpIndex' : UdpIndex'[a] \in PeerUids /\ UdpIndex'[a] < next_peer_uid,
         DOMAIN peers' = IF e.ev = "PeerDisconnect" THEN DOMAIN peers \ {p} ELSE DOMAIN peers
  PROVE  EventInv'
<1>1. CASE broker' = "unwinding" /\ events' = events
  BY <1>1 DEF EventInv
<1>2. CASE /\ broker' = broker
           /\ events' \in [PeerUids -> Seq(Event)]
           /\ events'[p] = Append(events[p], e)
           /\ \A q \in PeerUids : q # p => events'[q] = events[q]
  <2>1. PICK s \in Seq(Event) : s = events[p]
    BY DEF EventInv
  <2>2. /\ Opens(s)
        /\ p \in DOMAIN peers <=> ~Ends(s)
        /\ Cardinality(DOMAIN peers) <= max_connections
    BY <2>1 DEF EventInv, Announced, Disconnected
  <2>3. Opens(Append(s, e)) /\ (Ends(Append(s, e)) <=> Ends(s) \/ e.ev = "PeerDisconnect")
    BY <2>2, EventOpens
  <2>4. events'[p] = Append(s, e)
    BY <1>2, <2>1, Zenon
  <2>5. Announced(p)' /\ (p \in DOMAIN peers' <=> ~Disconnected(p)')
    BY <2>2, <2>3, <2>4, Zenon DEF Announced, Disconnected
  <2>6. ASSUME NEW q \in PeerUids, q < next_peer_uid, q # p
        PROVE  Announced(q)' /\ (q \in DOMAIN peers' <=> ~Disconnected(q)')
    <3>1. Announced(q) /\ (q \in DOMAIN peers <=> ~Disconnected(q))
      BY <2>6 DEF EventInv
    <3>2. events'[q] = events[q]
      BY <1>2, <2>6
    <3>3. q \in DOMAIN peers' <=> q \in DOMAIN peers
      BY <2>6
    <3> QED
      BY <3>1, <3>2, <3>3, Zenon DEF Announced, Disconnected
  <2>7. ASSUME NEW q \in PeerUids, q >= next_peer_uid PROVE events'[q] = <<>>
    <3>1. q # p
      BY <2>7, ServerActorAssumption DEF PeerUids, ServerInv, ActorTypes
    <3> QED
      BY <1>2, <2>7, <3>1 DEF EventInv
  <2>8. Cardinality(DOMAIN peers') <= max_connections
    <3>1. IsFiniteSet(DOMAIN peers) /\ DOMAIN peers' \in SUBSET DOMAIN peers
      BY FinitelyMany
    <3>2. /\ Cardinality(DOMAIN peers') <= Cardinality(DOMAIN peers)
          /\ Cardinality(DOMAIN peers) \in Nat
          /\ Cardinality(DOMAIN peers') \in Nat
      BY <3>1, FS_Subset, FS_CardinalityType
    <3> QED
      BY <2>2, <3>2, ServerActorAssumption
  <2> QED
    BY <1>2, <2>5, <2>6, <2>7, <2>8 DEF EventInv
<1> QED
  BY <1>1, <1>2, EventEmit

\* NewPeer is the first event of a peer whose uid was just given out
\* (src/src/server/actor.rs:351-405).
LEMMA EventConnect ==
  ASSUME ServerInv, EventInv, NEW a \in Addrs, NEW u \in Addrs, handle_new_tcp_connection(a, u)
  PROVE  EventInv'
<1>1. PICK p \in PeerUids :
           /\ broker = "running"
           /\ Cardinality(DOMAIN peers) < max_connections
           /\ DOMAIN peers' = DOMAIN peers \cup {p}
           /\ emit(p, NewPeer)
           /\ p >= next_peer_uid
           /\ \A q \in PeerUids : /\ q < next_peer_uid => q < next_peer_uid'
                                  /\ q < next_peer_uid' => q = p \/ q < next_peer_uid
                                  /\ q >= next_peer_uid' => q # p /\ q >= next_peer_uid
           /\ UdpIndex' = UdpIndex
  <2>1. /\ next_peer_uid \in PeerUids /\ broker = "running"
        /\ Cardinality(DOMAIN peers) < max_connections
        /\ next_peer_uid' = next_peer_uid + 1
        /\ DOMAIN peers' = DOMAIN peers \cup {next_peer_uid}
        /\ emit(next_peer_uid, NewPeer)
        /\ UdpIndex' = UdpIndex
    BY DEF handle_new_tcp_connection, Ready, Insert, UdpIndex
  <2>2. /\ next_peer_uid >= next_peer_uid
        /\ \A q \in PeerUids :
              /\ q < next_peer_uid => q < next_peer_uid'
              /\ q < next_peer_uid' => q = next_peer_uid \/ q < next_peer_uid
              /\ q >= next_peer_uid' => q # next_peer_uid /\ q >= next_peer_uid
    BY <2>1, ServerActorAssumption DEF PeerUids
  <2> QED
    BY <2>1, <2>2
<1>2. NewPeer \in Event /\ NewPeer.ev = "NewPeer" /\ NewPeer.ev # "PeerDisconnect"
  BY DEF NewPeer, Event
<1>3. events[p] = <<>> /\ p \notin DOMAIN peers
  BY <1>1 DEF EventInv, ServerInv, Fresh, FreshUid
<1>4. \A x \in DOMAIN UdpIndex' : UdpIndex'[x] \in PeerUids /\ UdpIndex'[x] < next_peer_uid'
  BY <1>1 DEF EventInv
<1>5. CASE broker' = "unwinding" /\ events' = events
  BY <1>1, <1>4, <1>5 DEF EventInv
<1>6. CASE /\ broker' = broker
           /\ events' \in [PeerUids -> Seq(Event)]
           /\ events'[p] = Append(events[p], NewPeer)
           /\ \A q \in PeerUids : q # p => events'[q] = events[q]
  <2>1. PICK s \in Seq(Event) : s = events[p] /\ s = <<>>
    BY <1>3 DEF EventInv
  <2>2. Opens(Append(s, NewPeer)) /\ ~Ends(Append(s, NewPeer))
    <3>1. ~Ends(s)
      BY <2>1 DEF Ends
    <3> QED
      BY <1>2, <2>1, <3>1, EventOpens
  <2>3. Announced(p)' /\ ~Disconnected(p)'
    BY <1>3, <1>6, <2>1, <2>2, Zenon DEF Announced, Disconnected
  <2>4. ASSUME NEW q \in PeerUids, q < next_peer_uid
        PROVE  Announced(q)' /\ (q \in DOMAIN peers' <=> ~Disconnected(q)')
    <3>1. Announced(q) /\ (q \in DOMAIN peers <=> ~Disconnected(q))
      BY <1>1, <2>4 DEF EventInv
    <3>2. q # p
      BY <1>3, <3>1 DEF Announced, Opens
    <3>3. events'[q] = events[q] /\ (q \in DOMAIN peers' <=> q \in DOMAIN peers)
      BY <1>1, <1>6, <3>2
    <3> QED
      BY <3>1, <3>3, Zenon DEF Announced, Disconnected
  <2>5. Cardinality(DOMAIN peers') <= max_connections
    <3>1. IsFiniteSet(DOMAIN peers)
      BY FinitelyMany
    <3>2. /\ Cardinality(DOMAIN peers \cup {p}) = Cardinality(DOMAIN peers) + 1
          /\ Cardinality(DOMAIN peers) \in Nat
      BY <1>3, <3>1, FS_AddElement, FS_CardinalityType
    <3> QED
      BY <1>1, <3>2, ServerActorAssumption
  <2>6. \A q \in PeerUids : q < next_peer_uid' => Announced(q)' /\ (q \in DOMAIN peers' <=> ~Disconnected(q)')
    BY <1>1, <2>3, <2>4
  <2>7. \A q \in PeerUids : q >= next_peer_uid' => events'[q] = <<>>
    BY <1>1, <1>6 DEF EventInv
  <2> QED
    BY <1>4, <1>6, <2>5, <2>6, <2>7 DEF EventInv
<1> QED
  BY <1>1, <1>2, <1>5, <1>6, EventEmit

\* Every step of the server preserves the agreement.
LEMMA EventStep == ServerInv /\ ItemInv /\ EventInv /\ [Next]_vars => EventInv'
<1> SUFFICES ASSUME ServerInv, ItemInv, EventInv, [Next]_vars PROVE EventInv'
  OBVIOUS
<1>1. ASSUME NEW a \in Addrs, NEW u \in Addrs, handle_new_tcp_connection(a, u) PROVE EventInv'
  BY <1>1, EventConnect
<1>2. ASSUME NEW p \in DOMAIN peers, NEW r \in DisconnectReason, Drops(p, r) PROVE EventInv'
  <2>1. PICK e : e = PeerDisconnect(r)
    OBVIOUS
  <2>2. e \in Event /\ e.ev = "PeerDisconnect" /\ e.ev # "NewPeer"
    BY <2>1 DEF PeerDisconnect, Event
  <2>3. /\ broker = "running" /\ emit(p, e) /\ UNCHANGED next_peer_uid
        /\ DOMAIN peers' = DOMAIN peers \ {p}
    BY <1>2, <2>1 DEF Drops, Ready, forget_peer, Remove
  <2>4. p \in PeerUids /\ p < next_peer_uid
    BY ConnectedAreAccepted
  <2>5. ASSUME NEW x \in DOMAIN UdpIndex' PROVE UdpIndex'[x] \in PeerUids /\ UdpIndex'[x] < next_peer_uid
    <3>1. x \in DOMAIN UdpIndex /\ UdpIndex'[x] = UdpIndex[x]
      BY <1>2, <2>5 DEF Drops, forget_peer, Remove, UdpIndex
    <3> QED
      BY <3>1 DEF EventInv
  <2> QED
    BY <2>2, <2>3, <2>4, <2>5, EventNotify
<1>3. ASSUME NEW q \in PeerUids, NEW a \in Addrs, UdpHello(q, a) PROVE EventInv'
  <2>1. PICK p \in DOMAIN peers :
           /\ UdpIndex' = Insert(UdpIndex, a, p)
           /\ DOMAIN peers' = DOMAIN peers
           /\ UNCHANGED <<next_peer_uid, events, broker>>
    BY <1>3 DEF UdpHello, record_udp_addr, UdpIndex, UdpUnchanged
  <2>2. p \in PeerUids /\ p < next_peer_uid
    BY ConnectedAreAccepted
  <2>3. ASSUME NEW x \in DOMAIN UdpIndex' PROVE UdpIndex'[x] \in PeerUids /\ UdpIndex'[x] < next_peer_uid
    BY <2>1, <2>2, <2>3 DEF EventInv, Insert
  <2> QED
    BY <2>1, <2>3 DEF EventInv, Announced, Disconnected
<1>4. ASSUME NEW p \in PeerUids, handle_tcp_reader_stream_item(p) PROVE EventInv'
  <2>1. /\ broker = "running" /\ TakeItem(p) /\ UNCHANGED <<reads, rRx, next_peer_uid>>
        /\ UNCHANGED <<peers, UdpIndex>>
        /\ emit(p, TcpMessage(Head(rTx[p]).n))
    BY <1>4 DEF handle_tcp_reader_stream_item, TakeItem, Ready, net, index, UdpIndex
  <2>2. p < next_peer_uid /\ Head(rTx[p]).n \in Nat
    BY <2>1, ItemTaken, ServerActorAssumption
  <2>3. PICK e : e \in Event /\ e.ev = "TcpMessage" /\ emit(p, e)
    BY <2>1, <2>2 DEF TcpMessage, Event
  <2> QED
    BY <2>1, <2>2, <2>3, EventNotify DEF EventInv
<1>5. ASSUME NEW a \in Addrs, UdpApplicationLogic(a) PROVE EventInv'
  <2>1. PICK p \in PeerUids : p < next_peer_uid /\ emit(p, UdpMessage)
    BY <1>5 DEF UdpApplicationLogic, EventInv, UdpIndex
  <2>2. broker = "running" /\ UNCHANGED <<peers, UdpIndex, next_peer_uid>>
    BY <1>5 DEF UdpApplicationLogic, Ready, index, UdpIndex, UdpUnchanged
  <2>3. UdpMessage \in Event /\ UdpMessage.ev = "UdpMessage"
    BY DEF UdpMessage, Event
  <2> QED
    BY <2>1, <2>2, <2>3, EventNotify DEF EventInv
<1>6. CASE BrokerFails
  BY <1>6 DEF BrokerFails, index, EventInv, UdpIndex
<1>7. CASE Unwind
  BY <1>7 DEF Unwind, EventInv, UdpIndex, EmptyMap
<1>8. CASE Quiet
  BY <1>8 DEF Quiet, index, EventInv, UdpIndex, Announced, Disconnected
<1> QED
  BY <1>1, <1>2, <1>3, <1>4, <1>5, <1>6, <1>7, <1>8, Moves

\* In the beginning there are neither peers nor events.
LEMMA EventInit == Init => EventInv
<1> SUFFICES ASSUME Init PROVE EventInv
  OBVIOUS
<1>1. events = [p \in PeerUids |-> <<>>] /\ DOMAIN UdpIndex = {} /\ DOMAIN peers = {} /\ next_peer_uid = 0
  BY DEF Init, UdpIndex, EmptyMap
<1>2. \A p \in PeerUids : ~(p < next_peer_uid)
  BY <1>1, ServerActorAssumption DEF PeerUids
<1>3. Cardinality(DOMAIN peers) <= max_connections
  BY <1>1, FS_EmptySet, ServerActorAssumption
<1> QED
  BY <1>1, <1>2, <1>3 DEF EventInv

\* The agreement holds in every behaviour.
THEOREM EventInvariant == Spec => []EventInv
<1> QED
  BY EventInit, EventStep, ServerInvariant, ItemInvariant, PTL DEF Spec

\* The events agree with the peers: a peer is in state.peers exactly if it was
\* announced once and not disconnected, and never more than max_connections
\* are (src/src/server/actor.rs:343 and :407).
THEOREM EventsMatch == Spec => []EventsMatchPeers
<1>1. ASSUME ServerInv, EventInv PROVE EventsMatchPeers
  <2> SUFFICES ASSUME broker = "running"
               PROVE  /\ DOMAIN peers = {p \in PeerUids : Count(p, "NewPeer") = 1 /\ Count(p, "PeerDisconnect") = 0}
                      /\ Cardinality(DOMAIN peers) <= max_connections
    BY DEF EventsMatchPeers, Connected
  <2>1. ASSUME NEW p \in PeerUids
        PROVE  p \in DOMAIN peers <=> Count(p, "NewPeer") = 1 /\ Count(p, "PeerDisconnect") = 0
    <3>1. PICK s \in Seq(Event) : s = events[p]
      BY <1>1 DEF EventInv
    <3> DEFINE C(kind) == {i \in DOMAIN s : s[i].ev = kind}
    <3>2. Len(s) \in Nat /\ DOMAIN s = 1 .. Len(s)
      OBVIOUS
    <3>3. \A kind : Count(p, kind) = Cardinality(C(kind))
      BY <3>1 DEF Count
    <3>4. \A kind : IsFiniteSet(C(kind))
      <4>1. IsFiniteSet(DOMAIN s)
        BY <3>2, FS_Interval
      <4> QED
        BY <4>1, FS_Subset
    <3>5. CASE p < next_peer_uid
      <4>1. Opens(s) /\ (p \in DOMAIN peers <=> ~Ends(s))
        BY <1>1, <3>1, <3>5 DEF EventInv, Announced, Disconnected
      <4>2. C("NewPeer") = {1}
        <5>1. s # <<>> => Len(s) >= 1
          BY <3>2
        <5> QED
          BY <3>2, <4>1, <5>1 DEF Opens
      <4>3. C("PeerDisconnect") = {} <=> ~Ends(s)
        BY <3>2 DEF Ends
      <4> HIDE DEF C
      <4>4. Cardinality(C("NewPeer")) = 1
        BY <4>2, FS_Singleton
      <4>5. Cardinality(C("PeerDisconnect")) = 0 <=> C("PeerDisconnect") = {}
        BY <3>4, FS_EmptySet
      <4> QED
        BY <3>3, <4>1, <4>3, <4>4, <4>5
    <3>6. CASE p >= next_peer_uid
      <4>1. s = <<>> /\ p \notin DOMAIN peers
        BY <1>1, <3>1, <3>6 DEF EventInv, ServerInv, Fresh, FreshUid
      <4>2. C("NewPeer") = {}
        BY <4>1
      <4>3. Cardinality(C("NewPeer")) = 0
        BY <4>2, FS_EmptySet
      <4> QED
        BY <3>3, <4>1, <4>3
    <3>7. p < next_peer_uid \/ p >= next_peer_uid
      BY <1>1, ServerActorAssumption DEF PeerUids, ServerInv, ActorTypes
    <3> QED
      BY <3>5, <3>6, <3>7
  <2>2. DOMAIN peers \subseteq PeerUids
    BY <1>1 DEF ServerInv, ActorTypes
  <2>3. Cardinality(DOMAIN peers) <= max_connections
    BY <1>1 DEF EventInv
  <2> QED
    BY <2>1, <2>2, <2>3
<1> QED
  BY <1>1, ServerInvariant, EventInvariant, PTL

-----------------------------------------------------------------------------
(* A client that closes its connection is heard out.                       *)

\* An event other than a message changes nothing about the messages.
LEMMA HeardOther ==
  ASSUME NEW s \in Seq(Event), NEW e \in Event, e.ev # "TcpMessage", NEW t \in Nat
  PROVE  /\ Ordered(s, t) => Ordered(Append(s, e), t)
         /\ Complete(s, t) => Complete(Append(s, e), t)
<1> DEFINE z == Append(s, e)
<1>1. /\ z \in Seq(Event) /\ Len(z) = Len(s) + 1 /\ Len(s) \in Nat
      /\ \A i \in 1 .. Len(s) : z[i] = s[i]
      /\ z[Len(s) + 1] = e
      /\ DOMAIN s = 1 .. Len(s) /\ DOMAIN z = 1 .. Len(z)
  BY EventAppend
<1> HIDE DEF z
<1>2. HeardIn(z) = HeardIn(s) /\ \A i \in HeardIn(s) : z[i] = s[i]
  <2>1. \A i \in 1 .. Len(z) : i \in 1 .. Len(s) \/ i = Len(s) + 1
    BY <1>1
  <2>2. \A i \in 1 .. Len(s) : i \in 1 .. Len(z)
    BY <1>1
  <2> QED
    BY <1>1, <2>1, <2>2 DEF HeardIn
<1>3. (Ordered(s, t) => Ordered(z, t)) /\ (Complete(s, t) => Complete(z, t))
  BY <1>2 DEF Ordered, Complete
<1> QED
  BY <1>3 DEF z

\* The next message is reported after the ones before it.
LEMMA HeardNext ==
  ASSUME NEW s \in Seq(Event), NEW e \in Event, NEW t \in Nat,
         e.ev = "TcpMessage", e.n = t + 1, Ordered(s, t)
  PROVE  /\ Ordered(Append(s, e), t + 1)
         /\ Complete(s, t) => Complete(Append(s, e), t + 1)
<1> DEFINE z == Append(s, e)
<1>1. /\ z \in Seq(Event) /\ Len(z) = Len(s) + 1 /\ Len(s) \in Nat
      /\ \A i \in 1 .. Len(s) : z[i] = s[i]
      /\ z[Len(s) + 1] = e
      /\ DOMAIN s = 1 .. Len(s) /\ DOMAIN z = 1 .. Len(z)
  BY EventAppend
<1> HIDE DEF z
<1>2. /\ Len(s) + 1 \in HeardIn(z) /\ z[Len(s) + 1].n = t + 1
      /\ \A i \in HeardIn(s) : i \in HeardIn(z) /\ z[i] = s[i] /\ i \in 1 .. Len(s)
      /\ \A i \in HeardIn(z) : i \in HeardIn(s) \/ i = Len(s) + 1
  <2>1. \A i \in 1 .. Len(z) : i \in 1 .. Len(s) \/ i = Len(s) + 1
    BY <1>1
  <2>2. \A i \in 1 .. Len(s) : i \in 1 .. Len(z)
    BY <1>1
  <2> QED
    BY <1>1, <2>1, <2>2 DEF HeardIn
<1>3. \A i \in HeardIn(s) : s[i].n \in 1 .. t
  BY DEF Ordered
<1>4. ASSUME NEW i \in HeardIn(z) PROVE z[i].n \in 1 .. t + 1
  BY <1>2, <1>3
<1>5. ASSUME NEW i \in HeardIn(z), NEW j \in HeardIn(z), i < j PROVE z[i].n < z[j].n
  <2>1. i \in HeardIn(s)
    BY <1>1, <1>2, <1>5
  <2>2. CASE j \in HeardIn(s)
    BY <1>2, <1>5, <2>1, <2>2 DEF Ordered
  <2>3. CASE j = Len(s) + 1
    <3>1. s[i].n \in 1 .. t /\ z[i].n = s[i].n
      BY <1>2, <1>3, <2>1
    <3>2. z[j].n = t + 1
      BY <1>2, <2>3
    <3> QED
      BY <3>1, <3>2
  <2> QED
    BY <1>2, <2>2, <2>3
<1>6. ASSUME Complete(s, t), NEW n \in 1 .. t + 1 PROVE \E i \in HeardIn(z) : z[i].n = n
  <2>1. CASE n = t + 1
    BY <1>2, <2>1
  <2>2. CASE n \in 1 .. t
    BY <1>2, <1>6, <2>2 DEF Complete
  <2> QED
    BY <2>1, <2>2
<1> QED
  BY <1>4, <1>5, <1>6 DEF Ordered, Complete, z

\* What was heard stays in order while more is taken.
LEMMA HeardMore ==
  ASSUME NEW s, NEW t \in Nat, NEW k \in Nat, t <= k, Ordered(s, t)
  PROVE  Ordered(s, k)
<1>1. \A x : x \in 1 .. t => x \in 1 .. k
  OBVIOUS
<1> QED
  BY <1>1 DEF Ordered

\* A task that has ended for a reason keeps it: the state of a read actor at
\* the end of its stream and the sink error of a write actor are final.
Stable ==
    /\ \A p \in PeerUids : rState[p] = "EndOfStream" => rState'[p] = "EndOfStream"
    /\ \A p \in PeerUids : wReason[p] = "SinkError" => wReason'[p] = "SinkError"

Reasons == \A w \in AllWriters : ReasonInv(w)

\* Steps of a write actor (src/src/actors/write_actor.rs:131-165).
LEMMA ReasonWriter ==
  ASSUME ServerInv, Reasons, NEW w \in AllWriters,
         \/ W!TakeMessage(w)
         \/ W!TakeShutdown(w)
         \/ W!AllHandlesDropped(w)
         \/ \E n : W!SinkDone(w, n) \/ W!SinkFails(w, n) \/ W!CloseSink(w, n)
         \/ W!WriterPanics(w)
  PROVE  Reasons' /\ \A p \in PeerUids : wReason[p] = "SinkError" => wReason'[p] = "SinkError"
<1>1. \/ UNCHANGED <<wState, wReason>>
      \/ \E r \in W!WriteActorShutdownReason :
            /\ wState[w] = "running"
            /\ wState' = [wState EXCEPT ![w] = "closing"]
            /\ wReason' = [wReason EXCEPT ![w] = r]
      \/ wState[w] = "closing" /\ wState' = [wState EXCEPT ![w] = wReason[w]] /\ UNCHANGED wReason
      \/ wState[w] = "running" /\ wState' = [wState EXCEPT ![w] = "Panic"] /\ UNCHANGED wReason
  BY DEF W!TakeMessage, W!TakeShutdown, W!AllHandlesDropped, W!SinkDone, W!SinkFails, W!CloseSink,
         W!WriterPanics, W!Idle, W!BeginClose, W!WriteActorShutdownReason
<1>2. wState \in [AllWriters -> WriterStates] /\ wReason \in [AllWriters -> WriterStates]
  BY DEF ServerInv, ActorTypes
<1>3. \A v \in AllWriters : ReasonInv(v)
  BY DEF Reasons
<1>4. PeerUids \subseteq AllWriters
  BY DEF AllWriters
<1>5. ASSUME NEW v \in AllWriters
      PROVE  ReasonInv(v)' /\ (wReason[v] = "SinkError" => wReason'[v] = "SinkError")
  BY <1>1, <1>2, <1>3 DEF ReasonInv, W!WriteActorShutdownReason
<1> QED
  BY <1>4, <1>5 DEF Reasons

\* What a step does to the tasks.
LEMMA TaskMoves ==
  ASSUME ServerInv, [Next]_vars
  PROVE  \/ \E a, u \in Addrs : handle_new_tcp_connection(a, u)
         \/ \E p \in PeerUids :
               /\ rState[p] = "running"
               /\ \E x : rState' = [rState EXCEPT ![p] = x]
               /\ UNCHANGED <<wState, wReason>>
         \/ \E w \in AllWriters :
               /\ \/ W!TakeMessage(w)
                  \/ W!TakeShutdown(w)
                  \/ W!AllHandlesDropped(w)
                  \/ \E n : W!SinkDone(w, n) \/ W!SinkFails(w, n) \/ W!CloseSink(w, n)
                  \/ W!WriterPanics(w)
               /\ UNCHANGED rState
         \/ UNCHANGED <<rState, wState, wReason>>
<1> USE DEF index, app, net, rTask, rLink, wTask, wLink
<1>1. CASE UNCHANGED vars
  BY <1>1 DEF vars
<1>2. CASE PeerAddrFails \/ UdpActorEnds \/ ActorMessagesEnd \/ Unwind
  BY <1>2 DEF PeerAddrFails, UdpActorEnds, ActorMessagesEnd, UdpUnchanged, Unwind
<1>3. ASSUME NEW p \in PeerUids, Broker(p) PROVE UNCHANGED <<rState, wState, wReason>>
  BY <1>3 DEF Broker, handle_tcp_reader_stream_item, TcpReaderError, TcpReaderEnd, TcpWriterEnd,
              AnnounceFeed, AnnounceUnchanged
<1>4. CASE \/ \E p \in PeerUids, a \in Addrs : UdpHello(p, a)
           \/ \E a \in Addrs : UdpApplicationLogic(a) \/ UdpUndecodable(a)
  BY <1>4 DEF UdpHello, UdpApplicationLogic, UdpUndecodable, UdpUnchanged
<1>5. CASE UdpHeartbeat \/ AnnounceFlush
  BY <1>5 DEF UdpHeartbeat, AnnounceFlush, AnnounceUnchanged
<1>6. CASE handle_actor_message
  BY <1>6 DEF handle_actor_message, ToPeerTcp, ToPeerUdp, announce_tcp, AnnounceUdp,
              GetNumberOfConnectedPeers, TakeMessage
<1>7. ASSUME NEW p \in PeerUids,
             \/ ReadsMessage(p) \/ ReadsUndecodable(p) \/ ReadFails(p)
             \/ ReaderRuns(p) \/ ReaderPanics(p) \/ PeerCloses(p)
      PROVE  /\ UNCHANGED <<wState, wReason>>
             /\ \/ UNCHANGED rState
                \/ rState[p] = "running" /\ \E x : rState' = [rState EXCEPT ![p] = x]
  BY <1>7 DEF ReadsMessage, ReadsUndecodable, ReadFails, Reads, R!ForwardItem, R!Polling,
              ReaderRuns, ReaderPanics, PeerCloses, ReaderUnchanged, BrokerUnchanged, R!ReaderProgress,
              R!ReceiveShutdown, R!HandlesDropped, R!EndOfStream, R!ReaderPanics, R!PeerCloses
<1>8. ASSUME NEW w \in PeerUids \cup {UdpWriter}, WriterRuns(w) \/ WriterPanics(w) \/ WriterSteps(w)
      PROVE  /\ \/ W!TakeMessage(w)
                \/ W!TakeShutdown(w)
                \/ W!AllHandlesDropped(w)
                \/ \E n : W!SinkDone(w, n) \/ W!SinkFails(w, n) \/ W!CloseSink(w, n)
                \/ W!WriterPanics(w)
             /\ UNCHANGED rState
  BY <1>8 DEF WriterRuns, WriterPanics, WriterSteps, SinkDone, SinkFails, CloseSink,
              WriterUnchanged, W!WriterProgress
<1>9. ASSUME (\E m \in Message : Call(m)) \/ DropHandle \/ DropEvents
      PROVE  UNCHANGED <<rState, wState, wReason>>
  BY <1>9 DEF Call, DropHandle, DropEvents, AppUnchanged
<1> QED
  BY <1>1, <1>2, <1>3, <1>4, <1>5, <1>6, <1>7, <1>8, <1>9 DEF Next, AllWriters

\* No step takes back the reason of a task.
LEMMA TaskStep ==
  ASSUME ServerInv, Reasons, [Next]_vars
  PROVE  Stable /\ Reasons'
<1>1. ASSUME NEW a \in Addrs, NEW u \in Addrs, handle_new_tcp_connection(a, u) PROVE Stable /\ Reasons'
  <2>1. PICK p \in PeerUids :
           /\ p >= next_peer_uid
           /\ rState' = [rState EXCEPT ![p] = "running"]
           /\ wState' = [wState EXCEPT ![p] = "running"]
           /\ UNCHANGED wReason
    <3>1. next_peer_uid \in PeerUids /\ next_peer_uid >= next_peer_uid
      BY <1>1 DEF handle_new_tcp_connection, ServerInv, ActorTypes
    <3> QED
      BY <1>1, <3>1 DEF handle_new_tcp_connection, R!spawn_read_actor, W!spawn_write_actor
  <2>2. FreshUid(p)
    BY <2>1 DEF ServerInv, Fresh
  <2>3. rState \in [PeerUids -> ReaderStates] /\ wState \in [AllWriters -> WriterStates]
    BY DEF ServerInv, ActorTypes
  <2>4. Stable
    BY <2>1, <2>2, <2>3 DEF Stable, FreshUid
  <2>5. Reasons'
    BY <2>1, <2>2, <2>3 DEF Reasons, ReasonInv, FreshUid
  <2> QED
    BY <2>4, <2>5
<1>2. ASSUME NEW p \in PeerUids, rState[p] = "running", NEW x, rState' = [rState EXCEPT ![p] = x],
             UNCHANGED <<wState, wReason>>
      PROVE  Stable /\ Reasons'
  <2>1. rState \in [PeerUids -> ReaderStates]
    BY DEF ServerInv, ActorTypes
  <2> QED
    BY <1>2, <2>1 DEF Stable, Reasons, ReasonInv
<1>3. ASSUME NEW w \in AllWriters, UNCHANGED rState,
             \/ W!TakeMessage(w)
             \/ W!TakeShutdown(w)
             \/ W!AllHandlesDropped(w)
             \/ \E n : W!SinkDone(w, n) \/ W!SinkFails(w, n) \/ W!CloseSink(w, n)
             \/ W!WriterPanics(w)
      PROVE  Stable /\ Reasons'
  BY <1>3, ReasonWriter DEF Stable
<1>4. CASE UNCHANGED <<rState, wState, wReason>>
  BY <1>4 DEF Stable, Reasons, ReasonInv
<1> QED
  BY <1>1, <1>2, <1>3, <1>4, TaskMoves

\* What a step does to the events and the channels of the readers.
LEMMA HeardMoves ==
  ASSUME ServerInv, [Next]_vars
  PROVE  \/ \E a, u \in Addrs : handle_new_tcp_connection(a, u)
         \/ \E p \in PeerUids, kind \in ItemKinds : Reads(p, kind, reads[p] + 1)
         \/ \E p \in PeerUids : handle_tcp_reader_stream_item(p)
         \/ \E p \in PeerUids : TcpReaderError(p)
         \/ \E p \in DOMAIN peers, r \in DisconnectReason :
               /\ Drops(p, r)
               /\ UNCHANGED <<rTx, reads>>
               /\ r = "PeerClosedConnection" =>
                     \/ wState[p] = "SinkError"
                     \/ rState[p] = "EndOfStream" /\ rTx[p] = <<>>
         \/ \E a \in Addrs : UdpApplicationLogic(a)
         \/ Unwind
         \/ /\ UNCHANGED <<rTx, reads, events, next_peer_uid>> /\ DOMAIN peers' = DOMAIN peers
            /\ broker' = "running" => broker = "running"
<1> USE DEF index, app, net, rTask, rLink, wTask, wLink
<1>1. CASE UNCHANGED vars
  BY <1>1 DEF vars
<1>2. CASE PeerAddrFails \/ UdpActorEnds \/ ActorMessagesEnd
  BY <1>2 DEF PeerAddrFails, UdpActorEnds, ActorMessagesEnd, UdpUnchanged
<1>3. ASSUME NEW p \in PeerUids, TcpReaderEnd(p)
      PROVE  \/ /\ p \in DOMAIN peers /\ Drops(p, "PeerClosedConnection")
                /\ UNCHANGED <<rTx, reads>>
                /\ rState[p] = "EndOfStream" /\ rTx[p] = <<>>
             \/ /\ UNCHANGED <<rTx, reads>> /\ (Quiet \/ BrokerFails)
  <2>1. /\ Ready /\ UNCHANGED <<next_peer_uid, sock, reads, rTx>> /\ reader_shutdown(p)
        /\ R!ReaderFinished(p) /\ rTx[p] = <<>>
    BY <1>3 DEF TcpReaderEnd, ReaderStreamOver
  <2>2. CASE rState[p] = "EndOfStream"
    BY <2>1, <2>2, DropMoves DEF reader_shutdown, DisconnectReason, drop_peer, Drops, Quiet
  <2>3. CASE rState[p] \in {"Signalled", "ActorHandlesDropped", "ReceiverClosedChannel"}
    BY <2>1, <2>3, AssertMoves DEF reader_shutdown
  <2>4. CASE rState[p] = "Panic"
    BY <2>1, <2>4 DEF reader_shutdown, Quiet
  <2> QED
    BY <2>1, <2>2, <2>3, <2>4 DEF R!ReaderFinished, R!ReadOutcome, R!ReadActorShutdownReason
<1>4. ASSUME NEW p \in PeerUids, TcpWriterEnd(p)
      PROVE  \/ /\ p \in DOMAIN peers /\ Drops(p, "PeerClosedConnection")
                /\ UNCHANGED <<rTx, reads>>
                /\ wState[p] = "SinkError"
             \/ /\ UNCHANGED <<rTx, reads>> /\ (Quiet \/ BrokerFails)
  <2>1. /\ Ready /\ UNCHANGED <<next_peer_uid, sock, reads, rTx>> /\ writer_shutdown(p)
        /\ W!WriterFinished(p)
    BY <1>4 DEF TcpWriterEnd
  <2>2. CASE wState[p] = "SinkError"
    BY <2>1, <2>2, DropMoves DEF writer_shutdown, DisconnectReason, drop_peer, Drops, Quiet
  <2>3. CASE wState[p] \in {"Signalled", "ActorHandlesDropped"}
    BY <2>1, <2>3, AssertMoves DEF writer_shutdown
  <2>4. CASE wState[p] = "Panic"
    BY <2>1, <2>4 DEF writer_shutdown, Quiet
  <2> QED
    BY <2>1, <2>2, <2>3, <2>4 DEF W!WriterFinished, W!WriteOutcome, W!WriteActorShutdownReason
<1>5. ASSUME Quiet \/ BrokerFails, UNCHANGED <<rTx, reads>>
      PROVE  /\ UNCHANGED <<rTx, reads, events, next_peer_uid>> /\ DOMAIN peers' = DOMAIN peers
             /\ broker' = "running" => broker = "running"
  BY <1>5 DEF Quiet, BrokerFails
<1>6. ASSUME NEW p \in PeerUids, AnnounceFeed(p) PROVE UNCHANGED <<rTx, reads>> /\ Quiet
  BY <1>6 DEF AnnounceFeed, AnnounceUnchanged, Quiet
<1>7. ASSUME NEW a \in Addrs, UdpUndecodable(a)
      PROVE  /\ UNCHANGED <<rTx, reads>>
             /\ \/ \E p \in DOMAIN peers : Drops(p, "PeerSubmittedUnintelligibleData")
                \/ Quiet
  BY <1>7, DropMoves DEF UdpUndecodable, UdpUnchanged, DisconnectReason, drop_peer, Drops, Quiet
<1>8. ASSUME NEW p \in PeerUids, NEW a \in Addrs, UdpHello(p, a)
      PROVE  /\ UNCHANGED <<rTx, reads, events, next_peer_uid, broker>>
             /\ DOMAIN peers' = DOMAIN peers
  BY <1>8 DEF UdpHello, UdpUnchanged, record_udp_addr
<1>9. CASE UdpHeartbeat \/ AnnounceFlush
  BY <1>9 DEF UdpHeartbeat, AnnounceFlush, AnnounceUnchanged
<1>10. CASE handle_actor_message
  BY <1>10 DEF handle_actor_message, ToPeerTcp, ToPeerUdp, announce_tcp, AnnounceUdp,
              GetNumberOfConnectedPeers, TakeMessage
<1>11. ASSUME NEW p \in PeerUids, ReadsMessage(p) \/ ReadsUndecodable(p) \/ ReadFails(p)
      PROVE  \E kind \in ItemKinds : Reads(p, kind, reads[p] + 1)
  BY <1>11 DEF ReadsMessage, ReadsUndecodable, ReadFails, ItemKinds
<1>12. ASSUME NEW p \in PeerUids, ReaderRuns(p) \/ ReaderPanics(p) \/ PeerCloses(p)
       PROVE  UNCHANGED <<rTx, reads>> /\ Quiet
  BY <1>12 DEF ReaderRuns, ReaderPanics, PeerCloses, ReaderUnchanged, BrokerUnchanged, R!ReaderProgress,
              R!ReceiveShutdown, R!HandlesDropped, R!EndOfStream, R!ReaderPanics, R!PeerCloses, Quiet
<1>13. ASSUME NEW w \in PeerUids \cup {UdpWriter}, WriterRuns(w) \/ WriterPanics(w) \/ WriterSteps(w)
       PROVE  UNCHANGED <<rTx, reads>> /\ Quiet
  BY <1>13 DEF WriterRuns, WriterPanics, WriterSteps, SinkDone, SinkFails, CloseSink,
               WriterUnchanged, BrokerUnchanged, Quiet
<1>14. ASSUME (\E m \in Message : Call(m)) \/ DropHandle \/ DropEvents
       PROVE  UNCHANGED <<rTx, reads>> /\ Quiet
  BY <1>14 DEF Call, DropHandle, DropEvents, AppUnchanged, Quiet
<1>15. CASE \E p \in PeerUids : Broker(p)
  BY <1>3, <1>4, <1>5, <1>6, <1>15 DEF Broker, DisconnectReason
<1>16. CASE \E a \in Addrs : UdpUndecodable(a)
  BY <1>5, <1>7, <1>16 DEF DisconnectReason
<1> HIDE DEF index, app, net, rTask, rLink, wTask, wLink
<1> QED
  BY <1>1, <1>2, <1>5, <1>8, <1>9, <1>10, <1>11, <1>12, <1>13, <1>14, <1>15, <1>16 DEF Next

Same(q) == events'[q] = events[q] /\ reads'[q] = reads[q] /\ rTx'[q] = rTx[q]

\* The peers that a step does not concern.
LEMMA HeardKeep ==
  ASSUME Stable, NEW q \in PeerUids, Same(q)
  PROVE  /\ InOrder(q) => InOrder(q)'
         /\ ClosedInv(q) => ClosedInv(q)'
         /\ AllHeard(q) => AllHeard(q)'
<1>1. TakenOf(q)' = TakenOf(q) /\ events'[q] = events[q] /\ rTx'[q] = rTx[q]
  BY DEF TakenOf, Same
<1>2. (InOrder(q) => InOrder(q)') /\ (AllHeard(q) => AllHeard(q)')
  BY <1>1, Zenon DEF InOrder, AllHeard
<1>3. SaidClosed(q)' => SaidClosed(q)
  BY <1>1 DEF SaidClosed, Stable
<1>4. ASSUME ClosedInv(q), SaidClosed(q)'
      PROVE  /\ rState'[q] = "EndOfStream"
             /\ rTx'[q] = <<>>
             /\ AllHeard(q)'
             /\ events'[q][Len(events'[q])].ev = "PeerDisconnect"
  BY <1>1, <1>2, <1>3, <1>4 DEF ClosedInv, Stable
<1> QED
  BY <1>2, <1>4 DEF ClosedInv

\* How many items the broker has taken.
LEMMA TakenNat == ASSUME ItemInv, NEW p \in PeerUids PROVE TakenOf(p) \in Nat
<1>1. reads[p] \in Nat /\ Len(rTx[p]) \in Nat /\ Len(rTx[p]) <= reads[p]
  BY ServerActorAssumption DEF ItemInv, Numbered, CountsUpTo
<1> QED
  BY <1>1 DEF TakenOf

\* A connected peer is not said to have closed its connection.
LEMMA NotSaid ==
  ASSUME NEW p \in PeerUids, ~Disconnected(p)
  PROVE  ~SaidClosed(p)
  BY DEF Disconnected, Ends, SaidClosed, PeerDisconnect

\* An event other than a message is emitted about a peer.
LEMMA HeardEmit ==
  ASSUME EventInv, ItemInv, NEW p \in PeerUids, NEW e \in Event, e.ev # "TcpMessage", emit(p, e),
         reads'[p] = reads[p], rTx'[p] = rTx[p]
  PROVE  /\ InOrder(p) => InOrder(p)'
         /\ AllHeard(p) => AllHeard(p)'
         /\ ~Disconnected(p) /\ e.ev # "PeerDisconnect" => ~Disconnected(p)'
         /\ ~Disconnected(p)' => ~Disconnected(p)
<1>1. PICK s \in Seq(Event), t \in Nat : s = events[p] /\ t = TakenOf(p)
  BY TakenNat DEF EventInv
<1>2. TakenOf(p)' = t
  BY <1>1 DEF TakenOf
<1>3. /\ Ordered(s, t) => Ordered(Append(s, e), t)
      /\ Complete(s, t) => Complete(Append(s, e), t)
      /\ Ends(Append(s, e)) <=> Ends(s) \/ e.ev = "PeerDisconnect"
  BY HeardOther, EventOpens
<1>4. events'[p] = s \/ events'[p] = Append(s, e)
  <2>1. events' = events \/ events'[p] = Append(events[p], e)
    BY EventEmit
  <2> QED
    BY <1>1, <2>1, Zenon
<1>5. CASE events'[p] = s
  BY <1>1, <1>2, <1>5, Zenon DEF InOrder, AllHeard, Disconnected
<1>6. CASE events'[p] = Append(s, e)
  BY <1>1, <1>2, <1>3, <1>6, Zenon DEF InOrder, AllHeard, Disconnected
<1> QED
  BY <1>4, <1>5, <1>6

\* Emitting about one peer says nothing about the others.
LEMMA EmitOthers ==
  ASSUME EventInv, NEW p \in PeerUids, NEW e \in Event, emit(p, e)
  PROVE  \A q \in PeerUids : q # p => events'[q] = events[q]
  BY EventEmit

\* A new peer has not been heard yet.
LEMMA HeardConnect ==
  ASSUME ServerInv, ItemInv, EventInv, HeardInv, Stable, Reasons',
         NEW a \in Addrs, NEW u \in Addrs, handle_new_tcp_connection(a, u)
  PROVE  HeardInv'
<1>1. PICK p \in PeerUids :
           /\ p >= next_peer_uid
           /\ broker = "running"
           /\ DOMAIN peers' = DOMAIN peers \cup {p}
           /\ emit(p, NewPeer)
           /\ \A q \in PeerUids : q >= next_peer_uid' => q >= next_peer_uid
           /\ UNCHANGED <<rTx, reads>>
  <2>1. /\ next_peer_uid \in PeerUids /\ broker = "running"
        /\ next_peer_uid' = next_peer_uid + 1
        /\ DOMAIN peers' = DOMAIN peers \cup {next_peer_uid}
        /\ emit(next_peer_uid, NewPeer)
        /\ UNCHANGED <<rTx, reads>>
    BY DEF handle_new_tcp_connection, Ready, Insert
  <2>2. /\ next_peer_uid >= next_peer_uid
        /\ \A q \in PeerUids : q >= next_peer_uid' => q >= next_peer_uid
    BY <2>1, ServerActorAssumption DEF PeerUids
  <2> QED
    BY <2>1, <2>2
<1>2. NewPeer \in Event /\ NewPeer.ev \notin {"TcpMessage", "PeerDisconnect"}
  BY DEF NewPeer, Event
<1>3. \A q \in PeerUids : q # p => Same(q)
  BY <1>1, <1>2, EmitOthers DEF Same
<1>4. events[p] = <<>> /\ reads[p] = 0 /\ rTx[p] = <<>>
  BY <1>1 DEF EventInv, HeardInv, ItemInv
<1>5. ~Disconnected(p)
  BY <1>4 DEF Disconnected, Ends
<1>6. TakenOf(p) = 0
  <2>1. Len(rTx[p]) = 0 /\ reads[p] = 0
    BY <1>4
  <2> QED
    BY <2>1 DEF TakenOf
<1>7. AllHeard(p)
  BY <1>6 DEF AllHeard, Complete
<1>8. InOrder(p)' /\ AllHeard(p)' /\ ~Disconnected(p)'
  BY <1>1, <1>2, <1>5, <1>7, HeardEmit DEF HeardInv
<1>9. ClosedInv(p)'
  BY <1>8 DEF ClosedInv, Disconnected, Ends, SaidClosed, PeerDisconnect
<1>10. \A q \in PeerUids : InOrder(q)' /\ ClosedInv(q)'
  BY <1>3, <1>8, <1>9, HeardKeep DEF HeardInv
<1>11. \A q \in PeerUids : q >= next_peer_uid' => reads'[q] = 0
  BY <1>1 DEF HeardInv
<1>12. \A q \in DOMAIN peers' : AllHeard(q)'
  <2>1. DOMAIN peers \subseteq PeerUids
    BY DEF ServerInv, ActorTypes
  <2> QED
    BY <1>1, <1>3, <1>8, <2>1, HeardKeep DEF HeardInv
<1> QED
  BY <1>10, <1>11, <1>12 DEF HeardInv, Reasons

\* A reader that reads is not at the end of its stream, and one that has lost
\* its receiver has no peer.
LEMMA HeardRead ==
  ASSUME ServerInv, ItemInv, HeardInv, Stable, Reasons',
         NEW p \in PeerUids, NEW kind \in ItemKinds, Reads(p, kind, reads[p] + 1)
  PROVE  HeardInv'
<1>1. ItemInv' /\ p < next_peer_uid /\ rState[p] = "running"
  BY ItemRead
<1>2. UNCHANGED <<events, broker, peers, next_peer_uid>>
  BY DEF Reads, BrokerUnchanged, index
<1>3. PICK s \in Seq(ReadItems), r \in Nat, x \in ReadItems :
           /\ s = rTx[p] /\ r = reads[p]
           /\ reads' = [reads EXCEPT ![p] = r + 1]
           /\ rTx' = IF rRx[p] THEN [rTx EXCEPT ![p] = Append(s, x)] ELSE rTx
  <2>1. rTx[p] \in Seq(ReadItems) /\ reads[p] \in Nat
    BY ServerActorAssumption DEF ItemInv
  <2>2. [kind |-> kind, n |-> reads[p] + 1] \in ReadItems
    BY <2>1 DEF ReadItems, ItemKinds
  <2> QED
    BY <2>1, <2>2 DEF Reads, R!ForwardItem
<1>4. /\ reads'[p] = r + 1
      /\ rTx'[p] = IF rRx[p] THEN Append(s, x) ELSE s
      /\ \A q \in PeerUids : q # p => Same(q)
  <2>1. /\ rTx \in [PeerUids -> Seq(ReadItems)] /\ Append(s, x) \in Seq(ReadItems)
        /\ reads \in [PeerUids -> 0 .. MaxReads] /\ r + 1 \in Nat
    BY DEF ItemInv
  <2>2. reads'[p] = r + 1 /\ \A q \in PeerUids : q # p => reads'[q] = reads[q]
    BY <1>3, <2>1, Zenon
  <2>3. /\ rTx'[p] = IF rRx[p] THEN Append(s, x) ELSE s
        /\ \A q \in PeerUids : q # p => rTx'[q] = rTx[q]
    BY <1>3, <2>1, Zenon
  <2> QED
    BY <1>2, <2>2, <2>3 DEF Same
<1>5. TakenOf(p) = r - Len(s) /\ TakenOf(p) \in Nat /\ TakenOf(p)' = r + 1 - Len(rTx'[p])
  BY <1>3, <1>4, TakenNat, SMTT(30) DEF TakenOf
<1>6. /\ TakenOf(p)' \in Nat /\ TakenOf(p) <= TakenOf(p)'
      /\ rRx[p] => TakenOf(p)' = TakenOf(p)
  <2>1. Len(s) \in Nat /\ Len(Append(s, x)) = Len(s) + 1
    OBVIOUS
  <2>2. Len(rTx'[p]) = IF rRx[p] THEN Len(s) + 1 ELSE Len(s)
    BY <1>4, <2>1
  <2> QED
    BY <1>5, <2>1, <2>2
<1>7. InOrder(p)'
  <2>1. PICK t \in Nat, k \in Nat : t = TakenOf(p) /\ k = TakenOf(p)' /\ t <= k /\ Ordered(events[p], t)
    BY <1>5, <1>6 DEF HeardInv, InOrder
  <2>2. Ordered(events[p], k)
    BY <2>1, HeardMore
  <2> QED
    BY <1>2, <2>1, <2>2, Zenon DEF InOrder
<1>8. ClosedInv(p)'
  <2>1. ~SaidClosed(p)
    BY <1>1 DEF HeardInv, ClosedInv
  <2>2. ~SaidClosed(p)'
    BY <1>2, <2>1 DEF SaidClosed, Stable
  <2> QED
    BY <2>2 DEF ClosedInv
<1>9. ASSUME p \in DOMAIN peers, AllHeard(p) PROVE AllHeard(p)'
  <2>1. TakenOf(p)' = TakenOf(p)
    BY <1>6, <1>9 DEF ServerInv, Owned, OwnedReader
  <2> QED
    BY <1>2, <1>9, <2>1, Zenon DEF AllHeard
<1>10. \A q \in PeerUids : InOrder(q)' /\ ClosedInv(q)'
  BY <1>4, <1>7, <1>8, HeardKeep DEF HeardInv
<1>11. \A q \in PeerUids : q >= next_peer_uid' => reads'[q] = 0
  <2>1. p \in Nat /\ next_peer_uid \in Nat
    BY ServerActorAssumption DEF PeerUids, ServerInv, ActorTypes
  <2>2. ASSUME NEW q \in PeerUids, q >= next_peer_uid PROVE q # p
    BY <1>1, <2>1, <2>2
  <2> QED
    BY <1>2, <1>4, <2>2 DEF HeardInv, Same
<1>12. broker' = "running" => \A q \in DOMAIN peers' : AllHeard(q)'
  <2>1. DOMAIN peers \subseteq PeerUids
    BY DEF ServerInv, ActorTypes
  <2> QED
    BY <1>2, <1>4, <1>9, <2>1, HeardKeep DEF HeardInv
<1> QED
  BY <1>10, <1>11, <1>12 DEF HeardInv, Reasons

\* A message that the broker reports is the next one.
LEMMA HeardTcp ==
  ASSUME ServerInv, ItemInv, EventInv, HeardInv, Stable, Reasons',
         NEW p \in PeerUids, handle_tcp_reader_stream_item(p)
  PROVE  HeardInv'
<1>1. /\ broker = "running" /\ TakeItem(p) /\ rTx[p] # <<>>
      /\ UNCHANGED <<reads, rRx, next_peer_uid, peers>>
      /\ emit(p, TcpMessage(Head(rTx[p]).n))
  BY DEF handle_tcp_reader_stream_item, TakeItem, Ready, net, index
<1>2. /\ Head(rTx[p]).n = TakenOf(p) + 1
      /\ TakenOf(p)' = TakenOf(p) + 1
      /\ TakenOf(p) \in Nat
      /\ \A q \in PeerUids : q # p => rTx'[q] = rTx[q]
  BY <1>1, ItemTaken
<1>3. PICK s \in Seq(Event), t \in Nat : s = events[p] /\ t = TakenOf(p)
  BY <1>2 DEF EventInv
<1>4. PICK e \in Event : e.ev = "TcpMessage" /\ e.n = t + 1 /\ emit(p, e)
  <2>1. TcpMessage(t + 1) \in Event /\ TcpMessage(t + 1).ev = "TcpMessage" /\ TcpMessage(t + 1).n = t + 1
    BY DEF TcpMessage, Event
  <2> QED
    BY <1>1, <1>2, <1>3, <2>1
<1>5. \A q \in PeerUids : q # p => Same(q)
  BY <1>1, <1>2, <1>4, EmitOthers DEF Same
<1>6. Ordered(s, t)
  BY <1>3 DEF HeardInv, InOrder
<1>7. /\ Ordered(Append(s, e), t + 1)
      /\ Ordered(s, t + 1)
      /\ Complete(s, t) => Complete(Append(s, e), t + 1)
  <2>1. Ordered(s, t + 1)
    BY <1>6, HeardMore
  <2> QED
    BY <1>4, <1>6, <2>1, HeardNext
<1>8. \/ broker' = "unwinding" /\ events'[p] = s
      \/ events'[p] = Append(s, e)
  <2>1. \/ broker' = "unwinding" /\ events' = events
        \/ events'[p] = Append(events[p], e)
    BY <1>4, EventEmit
  <2> QED
    BY <1>3, <2>1, Zenon
<1>9. TakenOf(p)' = t + 1
  BY <1>2, <1>3
<1>10. InOrder(p)'
  BY <1>7, <1>8, <1>9, Zenon DEF InOrder
<1>11. ASSUME broker' = "running", AllHeard(p) PROVE AllHeard(p)'
  <2>1. events'[p] = Append(s, e)
    BY <1>8, <1>11
  <2>2. Complete(s, t)
    BY <1>3, <1>11 DEF AllHeard
  <2> QED
    BY <1>7, <1>9, <2>1, <2>2, Zenon DEF AllHeard
<1>12. ClosedInv(p)'
  <2>1. ~SaidClosed(p)
    BY <1>1 DEF HeardInv, ClosedInv
  <2>2. ASSUME SaidClosed(p)' PROVE FALSE
    <3>1. wReason[p] # "SinkError"
      BY <2>2 DEF SaidClosed, Stable
    <3>2. PICK i \in 1 .. Len(events'[p]) : events'[p][i] = PeerDisconnect("PeerClosedConnection")
      BY <2>2 DEF SaidClosed
    <3>3. CASE events'[p] = s
      BY <1>3, <2>1, <3>1, <3>2, <3>3 DEF SaidClosed
    <3>4. CASE events'[p] = Append(s, e)
      <4>1. /\ Len(Append(s, e)) = Len(s) + 1 /\ Len(s) \in Nat
            /\ \A j \in 1 .. Len(s) : Append(s, e)[j] = s[j]
            /\ Append(s, e)[Len(s) + 1] = e
        BY EventAppend
      <4>2. e # PeerDisconnect("PeerClosedConnection")
        BY <1>4 DEF PeerDisconnect
      <4>3. i \in 1 .. Len(s) + 1 /\ Append(s, e)[i] = PeerDisconnect("PeerClosedConnection")
        BY <3>2, <3>4, <4>1
      <4>4. i \in 1 .. Len(s) /\ s[i] = PeerDisconnect("PeerClosedConnection")
        BY <4>1, <4>2, <4>3
      <4> QED
        BY <1>3, <2>1, <3>1, <4>4 DEF SaidClosed
    <3> QED
      BY <1>8, <3>3, <3>4
  <2> QED
    BY <2>2 DEF ClosedInv
<1>13. \A q \in PeerUids : InOrder(q)' /\ ClosedInv(q)'
  BY <1>5, <1>10, <1>12, HeardKeep DEF HeardInv
<1>14. \A q \in PeerUids : q >= next_peer_uid' => reads'[q] = 0
  BY <1>1 DEF HeardInv
<1>15. broker' = "running" => \A q \in DOMAIN peers' : AllHeard(q)'
  <2>1. DOMAIN peers \subseteq PeerUids
    BY DEF ServerInv, ActorTypes
  <2> QED
    BY <1>1, <1>5, <1>11, <2>1, HeardKeep DEF HeardInv
<1> QED
  BY <1>13, <1>14, <1>15 DEF HeardInv, Reasons

\* drop_peer reports a disconnect: if the client closed the connection, after
\* everything it sent (src/src/server/actor.rs:97 and :198).
LEMMA HeardDrop ==
  ASSUME ServerInv, ItemInv, EventInv, HeardInv, Stable, Reasons',
         NEW p \in DOMAIN peers, NEW r \in DisconnectReason, Drops(p, r), UNCHANGED reads,
         \/ UNCHANGED rTx
         \/ TakeItem(p) /\ UNCHANGED <<rRx, next_peer_uid>>,
         r = "PeerClosedConnection" =>
             /\ UNCHANGED rTx
             /\ \/ wState[p] = "SinkError"
                \/ rState[p] = "EndOfStream" /\ rTx[p] = <<>>
  PROVE  HeardInv'
<1>1. /\ p \in PeerUids /\ broker = "running" /\ UNCHANGED next_peer_uid
      /\ DOMAIN peers' = DOMAIN peers \ {p}
      /\ emit(p, PeerDisconnect(r))
  BY DEF Drops, Ready, forget_peer, Remove, ServerInv, ActorTypes
<1>2. PICK e \in Event : e = PeerDisconnect(r) /\ e.ev = "PeerDisconnect" /\ emit(p, e)
  BY <1>1 DEF PeerDisconnect, Event
<1>3. PICK s \in Seq(Event), t \in Nat : s = events[p] /\ t = TakenOf(p)
  BY <1>1, TakenNat DEF EventInv
<1>4. /\ \A q \in PeerUids : q # p => rTx'[q] = rTx[q]
      /\ TakenOf(p)' = t \/ TakenOf(p)' = t + 1
  <2>1. CASE UNCHANGED rTx
    BY <1>3, <2>1 DEF TakenOf
  <2>2. CASE TakeItem(p) /\ UNCHANGED <<rRx, next_peer_uid>>
    BY <1>1, <1>3, <2>2, ItemTaken
  <2> QED
    BY <2>1, <2>2
<1>5. \A q \in PeerUids : q # p => Same(q)
  BY <1>1, <1>2, <1>4, EmitOthers DEF Same
<1>6. Ordered(s, t) /\ Complete(s, t) /\ ~Ends(s)
  <2>1. AllHeard(p) /\ InOrder(p) /\ p < next_peer_uid
    BY <1>1, ConnectedAreAccepted DEF HeardInv
  <2>2. ~Disconnected(p)
    BY <1>1, <2>1 DEF EventInv
  <2> QED
    BY <1>3, <2>1, <2>2 DEF AllHeard, InOrder, Disconnected
<1>7. events'[p] = s \/ events'[p] = Append(s, e)
  <2>1. events' = events \/ events'[p] = Append(events[p], e)
    BY <1>1, <1>2, EventEmit
  <2> QED
    BY <1>3, <2>1, Zenon
<1>8. /\ Ordered(s, t + 1) /\ Ordered(Append(s, e), t) /\ Ordered(Append(s, e), t + 1)
      /\ Complete(Append(s, e), t)
  <2>1. Ordered(Append(s, e), t) /\ Complete(Append(s, e), t)
    BY <1>2, <1>6, HeardOther
  <2> QED
    BY <1>6, <2>1, HeardMore
<1>9. InOrder(p)'
  BY <1>4, <1>6, <1>7, <1>8, Zenon DEF InOrder
<1>10. ASSUME SaidClosed(p)'
       PROVE  /\ rState'[p] = "EndOfStream"
              /\ rTx'[p] = <<>>
              /\ AllHeard(p)'
              /\ events'[p][Len(events'[p])].ev = "PeerDisconnect"
  <2>1. PICK i \in 1 .. Len(events'[p]) : events'[p][i] = PeerDisconnect("PeerClosedConnection")
    BY <1>10 DEF SaidClosed
  <2>2. PeerDisconnect("PeerClosedConnection").ev = "PeerDisconnect"
    BY DEF PeerDisconnect
  <2>3. events'[p] = Append(s, e)
    BY <1>6, <1>7, <2>1, <2>2 DEF Ends
  <2>4. /\ Len(Append(s, e)) = Len(s) + 1 /\ Len(s) \in Nat
        /\ \A j \in 1 .. Len(s) : Append(s, e)[j] = s[j]
        /\ Append(s, e)[Len(s) + 1] = e
    BY EventAppend
  <2>5. e = PeerDisconnect("PeerClosedConnection")
    <3>1. i \in 1 .. Len(s) + 1 /\ Append(s, e)[i] = PeerDisconnect("PeerClosedConnection")
      BY <2>1, <2>3, <2>4
    <3>2. i \notin 1 .. Len(s)
      BY <1>6, <2>2, <2>4, <3>1 DEF Ends
    <3> QED
      BY <2>4, <3>1, <3>2
  <2>6. r = "PeerClosedConnection"
    BY <1>2, <2>5 DEF PeerDisconnect
  <2>7. wReason[p] # "SinkError"
    BY <1>1, <1>10 DEF SaidClosed, Stable
  <2>8. wState[p] # "SinkError"
    BY <1>1, <2>7 DEF HeardInv, ReasonInv, AllWriters
  <2>9. UNCHANGED rTx /\ rState[p] = "EndOfStream" /\ rTx[p] = <<>>
    BY <2>6, <2>8
  <2>10. TakenOf(p)' = t
    BY <1>3, <2>9 DEF TakenOf
  <2>11. AllHeard(p)'
    BY <1>8, <2>3, <2>10, Zenon DEF AllHeard
  <2>12. events'[p][Len(events'[p])].ev = "PeerDisconnect"
    BY <1>2, <2>3, <2>4
  <2> QED
    BY <1>1, <2>9, <2>11, <2>12 DEF Stable
<1>11. \A q \in PeerUids : InOrder(q)' /\ ClosedInv(q)'
  <2>1. ClosedInv(p)'
    BY <1>10 DEF ClosedInv
  <2> QED
    BY <1>5, <1>9, <2>1, HeardKeep DEF HeardInv
<1>12. \A q \in PeerUids : q >= next_peer_uid' => reads'[q] = 0
  BY <1>1 DEF HeardInv
<1>13. \A q \in DOMAIN peers' : AllHeard(q)'
  <2>1. DOMAIN peers \subseteq PeerUids
    BY DEF ServerInv, ActorTypes
  <2> QED
    BY <1>1, <1>5, <2>1, HeardKeep DEF HeardInv
<1> QED
  BY <1>11, <1>12, <1>13 DEF HeardInv, Reasons

\* The error of a reader whose peer was dropped before is taken and ignored.
LEMMA HeardError ==
  ASSUME ServerInv, ItemInv, EventInv, HeardInv, Stable, Reasons', NEW p \in PeerUids, TcpReaderError(p)
  PROVE  HeardInv'
<1>1. /\ Ready /\ TakeItem(p) /\ rTx[p] # <<>>
      /\ UNCHANGED <<reads, rRx, next_peer_uid, sock>>
      /\ drop_peer(p, "PeerSubmittedUnintelligibleData")
  BY DEF TcpReaderError, TakeItem, net
<1>2. CASE p \in DOMAIN peers
  <2>1. PICK r \in DisconnectReason : r = "PeerSubmittedUnintelligibleData"
    BY DEF DisconnectReason
  <2>2. Drops(p, r)
    BY <1>1, <1>2, <2>1 DEF drop_peer, Drops
  <2> QED
    BY <1>1, <1>2, <2>1, <2>2, HeardDrop
<1>3. CASE p \notin DOMAIN peers
  <2>1. UNCHANGED <<peers, events, broker>>
    BY <1>1, <1>3 DEF drop_peer, index
  <2>2. /\ TakenOf(p)' = TakenOf(p) + 1
        /\ TakenOf(p) \in Nat
        /\ \A q \in PeerUids : q # p => rTx'[q] = rTx[q]
    BY <1>1, ItemTaken
  <2>3. \A q \in PeerUids : q # p => Same(q)
    BY <1>1, <2>1, <2>2 DEF Same
  <2>4. InOrder(p)'
    <3>1. PICK s, t : s = events[p] /\ t = TakenOf(p) /\ t \in Nat
      BY <2>2
    <3>2. Ordered(s, t)
      BY <3>1 DEF HeardInv, InOrder
    <3>3. Ordered(s, t + 1)
      BY <3>1, <3>2, HeardMore
    <3>4. events'[p] = s /\ TakenOf(p)' = t + 1
      BY <2>1, <2>2, <3>1
    <3> QED
      BY <3>3, <3>4, Zenon DEF InOrder
  <2>5. ClosedInv(p)'
    <3>1. ~SaidClosed(p)
      BY <1>1 DEF HeardInv, ClosedInv
    <3>2. ~SaidClosed(p)'
      BY <2>1, <3>1 DEF SaidClosed, Stable
    <3> QED
      BY <3>2 DEF ClosedInv
  <2>6. \A q \in PeerUids : InOrder(q)' /\ ClosedInv(q)'
    BY <2>3, <2>4, <2>5, HeardKeep DEF HeardInv
  <2>7. \A q \in PeerUids : q >= next_peer_uid' => reads'[q] = 0
    BY <1>1 DEF HeardInv
  <2>8. broker' = "running" => \A q \in DOMAIN peers' : AllHeard(q)'
    <3>1. DOMAIN peers \subseteq PeerUids
      BY DEF ServerInv, ActorTypes
    <3> QED
      BY <1>3, <2>1, <2>3, <3>1, HeardKeep DEF HeardInv
  <2> QED
    BY <2>6, <2>7, <2>8 DEF HeardInv, Reasons
<1> QED
  BY <1>2, <1>3

\* A datagram is of a connected peer (src/src/server/actor.rs:556).
LEMMA HeardUdp ==
  ASSUME ServerInv, IndexInv, ItemInv, EventInv, HeardInv, Stable, Reasons',
         NEW a \in Addrs, UdpApplicationLogic(a)
  PROVE  HeardInv'
<1>1. PICK p \in DOMAIN peers : emit(p, UdpMessage)
  BY DEF UdpApplicationLogic, UdpIndex, IndexInv, NoStrays
<1>2. broker = "running" /\ UNCHANGED <<peers, next_peer_uid, reads, rTx>>
  BY DEF UdpApplicationLogic, Ready, index, UdpUnchanged, net
<1>3. UdpMessage \in Event /\ UdpMessage.ev \notin {"TcpMessage", "PeerDisconnect"}
  BY DEF UdpMessage, Event
<1>4. p \in PeerUids /\ p < next_peer_uid
  BY ConnectedAreAccepted
<1>5. ~Disconnected(p) /\ AllHeard(p)
  BY <1>2, <1>4 DEF EventInv, HeardInv
<1>6. InOrder(p)' /\ AllHeard(p)' /\ ~Disconnected(p)'
  BY <1>1, <1>2, <1>3, <1>4, <1>5, HeardEmit DEF HeardInv
<1>7. ClosedInv(p)'
  BY <1>6 DEF ClosedInv, Disconnected, Ends, SaidClosed, PeerDisconnect
<1>8. \A q \in PeerUids : q # p => Same(q)
  BY <1>1, <1>2, <1>3, <1>4, EmitOthers DEF Same
<1>9. \A q \in PeerUids : InOrder(q)' /\ ClosedInv(q)'
  BY <1>6, <1>7, <1>8, HeardKeep DEF HeardInv
<1>10. \A q \in PeerUids : q >= next_peer_uid' => reads'[q] = 0
  BY <1>2 DEF HeardInv
<1>11. \A q \in DOMAIN peers' : AllHeard(q)'
  <2>1. DOMAIN peers \subseteq PeerUids
    BY DEF ServerInv, ActorTypes
  <2> QED
    BY <1>2, <1>6, <1>8, <2>1, HeardKeep DEF HeardInv
<1> QED
  BY <1>9, <1>10, <1>11 DEF HeardInv, Reasons

\* The channels vanish with the broker.
LEMMA HeardUnwind ==
  ASSUME ServerInv, ItemInv, HeardInv, Stable, Reasons', Unwind
  PROVE  HeardInv'
<1>1. /\ broker' = "gone" /\ UNCHANGED <<next_peer_uid, events, reads>>
      /\ rTx' = [p \in PeerUids |-> <<>>]
  BY DEF Unwind, net
<1>2. ASSUME NEW p \in PeerUids PROVE InOrder(p)' /\ ClosedInv(p)'
  <2>1. rTx'[p] = <<>> /\ Len(rTx'[p]) = 0
    BY <1>1
  <2>2. reads[p] \in Nat /\ Len(rTx[p]) \in Nat /\ Len(rTx[p]) <= reads[p]
    BY ServerActorAssumption DEF ItemInv, Numbered, CountsUpTo
  <2>3. PICK t \in Nat, k \in Nat : t = TakenOf(p) /\ k = TakenOf(p)' /\ t <= k
    BY <1>1, <2>1, <2>2 DEF TakenOf
  <2>4. events'[p] = events[p]
    BY <1>1
  <2>5. Ordered(events[p], t)
    BY <2>3 DEF HeardInv, InOrder
  <2>6. Ordered(events[p], k)
    BY <2>5, <2>3, HeardMore
  <2>7. InOrder(p)'
    BY <2>3, <2>4, <2>6, Zenon DEF InOrder
  <2>8. CASE rTx[p] = <<>>
    <3>1. Same(p)
      BY <1>1, <2>1, <2>8 DEF Same
    <3> QED
      BY <2>7, <3>1, HeardKeep DEF HeardInv
  <2>9. CASE rTx[p] # <<>>
    <3>1. ~SaidClosed(p)
      BY <2>9 DEF HeardInv, ClosedInv
    <3>2. ~SaidClosed(p)'
      BY <1>1, <3>1 DEF SaidClosed, Stable
    <3> QED
      BY <2>7, <3>2 DEF ClosedInv
  <2> QED
    BY <2>8, <2>9
<1> QED
  BY <1>1, <1>2 DEF HeardInv, Reasons

\* Every step of the server preserves what is said of the messages.
LEMMA HeardStep == ServerInv /\ IndexInv /\ ItemInv /\ EventInv /\ HeardInv /\ [Next]_vars => HeardInv'
<1> SUFFICES ASSUME ServerInv, IndexInv, ItemInv, EventInv, HeardInv, [Next]_vars PROVE HeardInv'
  OBVIOUS
<1>1. Stable /\ Reasons'
  BY TaskStep DEF HeardInv, Reasons
<1>2. ASSUME NEW a \in Addrs, NEW u \in Addrs, handle_new_tcp_connection(a, u) PROVE HeardInv'
  BY <1>1, <1>2, HeardConnect
<1>3. ASSUME NEW p \in PeerUids, NEW kind \in ItemKinds, Reads(p, kind, reads[p] + 1) PROVE HeardInv'
  BY <1>1, <1>3, HeardRead
<1>4. ASSUME NEW p \in PeerUids, handle_tcp_reader_stream_item(p) PROVE HeardInv'
  BY <1>1, <1>4, HeardTcp
<1>5. ASSUME NEW p \in PeerUids, TcpReaderError(p) PROVE HeardInv'
  BY <1>1, <1>5, HeardError
<1>6. ASSUME NEW p \in DOMAIN peers, NEW r \in DisconnectReason, Drops(p, r), UNCHANGED <<rTx, reads>>,
             r = "PeerClosedConnection" =>
                 \/ wState[p] = "SinkError"
                 \/ rState[p] = "EndOfStream" /\ rTx[p] = <<>>
      PROVE  HeardInv'
  BY <1>1, <1>6, HeardDrop
<1>7. ASSUME NEW a \in Addrs, UdpApplicationLogic(a) PROVE HeardInv'
  BY <1>1, <1>7, HeardUdp
<1>8. CASE Unwind
  BY <1>1, <1>8, HeardUnwind
<1>9. CASE /\ UNCHANGED <<rTx, reads, events, next_peer_uid>> /\ DOMAIN peers' = DOMAIN peers
           /\ broker' = "running" => broker = "running"
  <2>1. \A q \in PeerUids : Same(q)
    BY <1>9 DEF Same
  <2>2. DOMAIN peers \subseteq PeerUids
    BY DEF ServerInv, ActorTypes
  <2>3. \A q \in PeerUids : InOrder(q)' /\ ClosedInv(q)'
    BY <1>1, <2>1, HeardKeep DEF HeardInv
  <2>4. broker' = "running" => \A q \in DOMAIN peers' : AllHeard(q)'
    BY <1>1, <1>9, <2>1, <2>2, HeardKeep DEF HeardInv
  <2>5. \A q \in PeerUids : q >= next_peer_uid' => reads'[q] = 0
    BY <1>9 DEF HeardInv
  <2> QED
    BY <1>1, <2>3, <2>4, <2>5 DEF HeardInv, Reasons
<1> QED
  BY <1>2, <1>3, <1>4, <1>5, <1>6, <1>7, <1>8, <1>9, HeardMoves

\* In the beginning nothing was read and nothing reported.
LEMMA HeardInit == Init => HeardInv
<1> SUFFICES ASSUME Init PROVE HeardInv
  OBVIOUS
<1>1. /\ DOMAIN peers = {}
      /\ \A p \in PeerUids : reads[p] = 0 /\ rTx[p] = <<>> /\ events[p] = <<>>
  BY DEF Init, EmptyMap, R!ReaderInit
<1>2. \A w \in AllWriters : ReasonInv(w)
  BY DEF Init, AllWriters, ReasonInv
<1>3. ASSUME NEW p \in PeerUids PROVE InOrder(p) /\ ClosedInv(p)
  <2>1. events[p] = <<>>
    BY <1>1
  <2>2. HeardIn(events[p]) = {} /\ ~SaidClosed(p)
    BY <2>1 DEF HeardIn, SaidClosed
  <2> QED
    BY <2>2 DEF InOrder, Ordered, ClosedInv
<1> QED
  BY <1>1, <1>2, <1>3 DEF HeardInv

\* Messages are reported in order, and none is missing at the end.
THEOREM HeardInvariant == ASSUME Ordinary PROVE Spec => []HeardInv
<1>1. ServerInv /\ IndexInv /\ ItemInv /\ EventInv /\ HeardInv /\ [Next]_vars => HeardInv'
  BY HeardStep
<1> QED
  BY <1>1, HeardInit, ServerInvariant, IndexInvariant, ItemInvariant, EventInvariant, PTL DEF Spec

\* When a peer is said to have closed its connection, the reader's messages and
\* the events about it tell the same.
LEMMA HeardOutNow == ASSUME ItemInv, EventInv, HeardInv PROVE HeardOut
<1> SUFFICES ASSUME NEW p \in PeerUids, SaidClosed(p)
             PROVE  /\ rState[p] = "EndOfStream"
                    /\ {events[p][i].n : i \in Heard(p)} = 1 .. reads[p]
                    /\ \A i, j \in Heard(p) : i < j => events[p][i].n < events[p][j].n
                    /\ events[p][Len(events[p])].ev = "PeerDisconnect"
  BY DEF HeardOut, SaidClosed
<1>1. /\ rState[p] = "EndOfStream" /\ rTx[p] = <<>>
      /\ AllHeard(p) /\ InOrder(p)
      /\ events[p][Len(events[p])].ev = "PeerDisconnect"
  BY DEF HeardInv, ClosedInv
<1>2. TakenOf(p) = reads[p]
  <2>1. Len(rTx[p]) = 0 /\ reads[p] \in Nat
    BY <1>1, ServerActorAssumption DEF ItemInv
  <2> QED
    BY <2>1 DEF TakenOf
<1>3. Heard(p) = HeardIn(events[p])
  BY DEF Heard, HeardIn
<1>4. /\ \A i \in Heard(p) : events[p][i].n \in 1 .. reads[p]
      /\ \A i, j \in Heard(p) : i < j => events[p][i].n < events[p][j].n
      /\ \A n \in 1 .. reads[p] : \E i \in Heard(p) : events[p][i].n = n
  BY <1>1, <1>2, <1>3 DEF AllHeard, InOrder, Ordered, Complete
<1> QED
  BY <1>1, <1>4

\* A client that closes its connection is heard out: when it is reported to
\* have closed it and no write failed, its reader did reach the end of the
\* stream and everything it read was reported before, in order and nothing
\* after it (src/src/server/actor.rs:97 and :198).
THEOREM ClientsAreHeardOut == ASSUME Ordinary PROVE Spec => []HeardOut
<1>1. Spec => []HeardInv
  BY HeardInvariant
<1> QED
  BY <1>1, HeardOutNow, ItemInvariant, EventInvariant, PTL


-----------------------------------------------------------------------------
(* What every variable of the server holds.                                *)

\* The maps of the broker, the sockets and the broker itself.
MapTypes ==
    /\ next_peer_uid <= MaxPeers
    /\ IsMap(TcpIndex, Addrs, PeerUids)
    /\ IsMap(UdpIndex, Addrs, PeerUids)
    /\ IsMap(UuidIndex, {new_v4(n) : n \in PeerUids}, PeerUids)
    /\ sock \in [PeerUids -> [tcp : Addrs \cup {NoAddr}, udp : Addrs \cup {NoAddr}]]
    /\ broker \in {"running", "unwinding", "gone"}

\* What the main loop waits for, and what the application holds.
LoopTypes ==
    /\ streams \in [PeerUids -> SUBSET {"TcpReader", "TcpWriter"}]
    /\ msg_receiver \in Seq(Message)
    /\ server_handle \in BOOLEAN
    /\ event_receiver \in BOOLEAN
    /\ welcomed \subseteq PeerUids

\* The read actors' channel for Shutdown and their sockets.
ReaderTypes ==
    /\ \A p \in PeerUids : rCtl[p] <= CtlBuffer + 1
    /\ rStream \in [PeerUids -> {"open", "ended"}]
    /\ rOvertaken \in [PeerUids -> BOOLEAN]

\* A write actor ends with a reason, and only then.
WriterEnds(w) ==
    /\ wState[w] # "none"
    /\ wState[w] = "closing" => wReason[w] # "none"
    /\ wReason[w] \in {"none"} \cup W!WriteActorShutdownReason

\* Its channel holds WriteBuffer messages and the one of its single sender.
WriterBounded(w) == Len(wMsgs[w]) <= WriteBuffer + 1

Hands == {<<>>} \cup {<<m>> : m \in W!ActorMessage}

WriterTypes ==
    /\ \A w \in AllWriters : WriterEnds(w) /\ WriterBounded(w)
    /\ wHand \in [AllWriters -> Hands]
    /\ wSink \in [AllWriters -> Seq(WriteItems)]

\* A map keeps its type when a key is entered or removed.
LEMMA MapKeeps ==
  ASSUME NEW m, NEW K, NEW V, IsMap(m, K, V)
  PROVE  /\ \A k \in K, v \in V : IsMap(Insert(m, k, v), K, V)
         /\ \A k : IsMap(Remove(m, k), K, V)
  BY DEF IsMap, Insert, Remove

\* The events are sent while anybody listens, and the broker panics otherwise
\* (src/src/server/actor.rs:399 and 451: todo!()).
LEMMA EmitBroker ==
  ASSUME NEW p, NEW ev, emit(p, ev), broker \in {"running", "unwinding", "gone"}
  PROVE  broker' \in {"running", "unwinding", "gone"}
  BY DEF emit

\* Every step keeps the types of the maps.
LEMMA MapStep == ServerInv /\ MapTypes /\ [Next]_vars => MapTypes'
<1> SUFFICES ASSUME ServerInv, MapTypes, [Next]_vars PROVE MapTypes'
  OBVIOUS
<1> USE DEF TcpIndex, UdpIndex, UuidIndex
<1>0. /\ DOMAIN peers \subseteq PeerUids /\ next_peer_uid \in Nat
  BY DEF ServerInv, ActorTypes
<1>1. ASSUME NEW a \in Addrs, NEW u \in Addrs, handle_new_tcp_connection(a, u) PROVE MapTypes'
  <2> SUFFICES ASSUME NEW CONSTANT p, p = next_peer_uid PROVE MapTypes'
    OBVIOUS
  <2>1. /\ p \in PeerUids /\ next_peer_uid' = next_peer_uid + 1
        /\ sock' = [sock EXCEPT ![p] = [tcp |-> a, udp |-> u]]
        /\ TcpIndex' = Insert(TcpIndex, a, p)
        /\ UuidIndex' = Insert(UuidIndex, new_v4(p), p)
        /\ UdpIndex' = UdpIndex
        /\ emit(p, NewPeer)
    BY <1>1 DEF handle_new_tcp_connection
  <2>2. new_v4(p) \in {new_v4(n) : n \in PeerUids}
    BY <2>1
  <2>3. /\ IsMap(Insert(TcpIndex, a, p), Addrs, PeerUids)
        /\ IsMap(Insert(UuidIndex, new_v4(p), p), {new_v4(n) : n \in PeerUids}, PeerUids)
    BY <2>1, <2>2, MapKeeps DEF MapTypes
  <2>4. next_peer_uid' <= MaxPeers
    BY <1>0, <2>1, ServerActorAssumption DEF PeerUids
  <2>5. sock' \in [PeerUids -> [tcp : Addrs \cup {NoAddr}, udp : Addrs \cup {NoAddr}]]
    BY <2>1 DEF MapTypes
  <2>6. broker' \in {"running", "unwinding", "gone"}
    BY <2>1, EmitBroker DEF MapTypes
  <2> QED
    BY <2>1, <2>3, <2>4, <2>5, <2>6 DEF MapTypes
<1>2. ASSUME NEW p \in DOMAIN peers, NEW r \in DisconnectReason, Drops(p, r) PROVE MapTypes'
  <2>1. /\ UNCHANGED <<next_peer_uid, sock>> /\ emit(p, PeerDisconnect(r))
        /\ TcpIndex' = Remove(TcpIndex, peers[p].tcp_socket_addr)
        /\ UdpIndex' = UdpIndex \/ UdpIndex' = Remove(UdpIndex, peers[p].udp_socket_addr)
        /\ UuidIndex' = Remove(UuidIndex, peers[p].handshake_uuid)
    BY <1>2 DEF Drops, forget_peer
  <2>2. broker' \in {"running", "unwinding", "gone"}
    BY <2>1, EmitBroker DEF MapTypes
  <2>3. /\ IsMap(TcpIndex', Addrs, PeerUids) /\ IsMap(UdpIndex', Addrs, PeerUids)
        /\ IsMap(UuidIndex', {new_v4(n) : n \in PeerUids}, PeerUids)
    BY <2>1, MapKeeps DEF MapTypes
  <2> QED
    BY <2>1, <2>2, <2>3 DEF MapTypes
<1>3. ASSUME NEW q \in PeerUids, NEW a \in Addrs, UdpHello(q, a) PROVE MapTypes'
  <2>1. PICK p \in PeerUids : UdpIndex' = Insert(UdpIndex, a, p)
    BY <1>0, <1>3 DEF UdpHello, record_udp_addr
  <2>2. UNCHANGED <<next_peer_uid, sock, TcpIndex, UuidIndex, broker>>
    BY <1>3 DEF UdpHello, UdpUnchanged, net
  <2>3. IsMap(UdpIndex', Addrs, PeerUids)
    BY <2>1, MapKeeps DEF MapTypes
  <2> QED
    BY <2>2, <2>3 DEF MapTypes
<1>4. ASSUME NEW p \in PeerUids, handle_tcp_reader_stream_item(p) PROVE MapTypes'
  BY <1>4, EmitBroker DEF handle_tcp_reader_stream_item, index, net, MapTypes
<1>5. ASSUME NEW a \in Addrs, UdpApplicationLogic(a) PROVE MapTypes'
  BY <1>5, EmitBroker DEF UdpApplicationLogic, UdpUnchanged, index, net, MapTypes
<1>6. CASE BrokerFails \/ Quiet
  BY <1>6 DEF BrokerFails, Quiet, index, MapTypes
<1>7. CASE Unwind
  BY <1>7 DEF Unwind, EmptyMap, IsMap, net, MapTypes
<1> QED
  BY <1>1, <1>2, <1>3, <1>4, <1>5, <1>6, <1>7, Moves

\* Every step keeps the types of what the main loop waits for: only a new
\* connection adds streams, and only the end of an actor removes one
\* (src/src/server/actor.rs:374 and 194).
LEMMA LoopStep == LoopTypes /\ [Next]_vars => LoopTypes'
<1> SUFFICES ASSUME LoopTypes, [Next]_vars PROVE LoopTypes'
  OBVIOUS
<1> USE DEF index, app, net, rTask, rLink, wTask, wLink
<1> DEFINE LoopKept == UNCHANGED <<streams, app, welcomed>>
<1>0. CASE LoopKept
  BY <1>0 DEF LoopTypes
<1>1. CASE UNCHANGED vars
  BY <1>1 DEF vars, LoopTypes
<1>2. ASSUME NEW a \in Addrs, NEW u \in Addrs, handle_new_tcp_connection(a, u) PROVE LoopTypes'
  BY <1>2 DEF handle_new_tcp_connection, LoopTypes
<1>3. CASE PeerAddrFails \/ UdpActorEnds \/ ActorMessagesEnd
  <2>1. LoopKept
    BY <1>3 DEF PeerAddrFails, UdpActorEnds, ActorMessagesEnd, UdpUnchanged
  <2> QED
    BY <1>0, <2>1
<1>4. ASSUME NEW p \in PeerUids, Broker(p) PROVE LoopTypes'
  <2>1. UNCHANGED <<app, welcomed>>
    BY <1>4 DEF Broker, handle_tcp_reader_stream_item, TcpReaderError, TcpReaderEnd, TcpWriterEnd,
                AnnounceFeed, AnnounceUnchanged
  <2>2. \/ streams' = streams
        \/ \E s : streams' = [streams EXCEPT ![p] = @ \ {s}]
    BY <1>4 DEF Broker, handle_tcp_reader_stream_item, TcpReaderError, TcpReaderEnd, TcpWriterEnd,
                AnnounceFeed, AnnounceUnchanged
  <2> QED
    BY <2>1, <2>2 DEF LoopTypes
<1>5. CASE \/ \E p \in PeerUids, a \in Addrs : UdpHello(p, a)
           \/ \E a \in Addrs : UdpApplicationLogic(a) \/ UdpUndecodable(a)
  <2>1. LoopKept
    BY <1>5 DEF UdpHello, UdpApplicationLogic, UdpUndecodable, UdpUnchanged
  <2> QED
    BY <1>0, <2>1
<1>6. CASE UdpHeartbeat \/ AnnounceFlush
  <2>1. LoopKept
    BY <1>6 DEF UdpHeartbeat, AnnounceFlush, AnnounceUnchanged
  <2> QED
    BY <1>0, <2>1
<1>7. CASE handle_actor_message
  <2>1. msg_receiver # <<>> /\ msg_receiver' = Tail(msg_receiver)
    BY <1>7 DEF handle_actor_message, ToPeerTcp, ToPeerUdp, announce_tcp, AnnounceUdp,
                GetNumberOfConnectedPeers, TakeMessage
  <2>2. UNCHANGED <<streams, server_handle, event_receiver, welcomed>>
    BY <1>7 DEF handle_actor_message, ToPeerTcp, ToPeerUdp, announce_tcp, AnnounceUdp,
                GetNumberOfConnectedPeers, TakeMessage
  <2> QED
    BY <2>1, <2>2 DEF LoopTypes
<1>8. CASE Unwind
  BY <1>8 DEF Unwind, LoopTypes
<1>9. ASSUME NEW p \in PeerUids,
             \/ ReadsMessage(p) \/ ReadsUndecodable(p) \/ ReadFails(p)
             \/ ReaderRuns(p) \/ ReaderPanics(p) \/ PeerCloses(p)
      PROVE  LoopTypes'
  <2>1. LoopKept
    BY <1>9 DEF ReadsMessage, ReadsUndecodable, ReadFails, Reads, ReaderRuns, ReaderPanics,
                PeerCloses, ReaderUnchanged, BrokerUnchanged
  <2> QED
    BY <1>0, <2>1
<1>10. ASSUME NEW w \in PeerUids \cup {UdpWriter}, WriterRuns(w) \/ WriterPanics(w) \/ WriterSteps(w)
       PROVE  LoopTypes'
  <2>1. UNCHANGED <<streams, app>>
    BY <1>10 DEF WriterRuns, WriterPanics, WriterSteps, SinkDone, SinkFails, CloseSink,
                 WriterUnchanged, BrokerUnchanged
  <2>2. welcomed' = welcomed \/ (w # UdpWriter /\ welcomed' = welcomed \cup {w})
    BY <1>10 DEF WriterRuns, WriterPanics, WriterSteps, SinkDone, SinkFails, CloseSink, Writes
  <2> QED
    BY <2>1, <2>2 DEF LoopTypes
<1>11. ASSUME NEW m \in Message, Call(m) PROVE LoopTypes'
  BY <1>11 DEF Call, AppUnchanged, LoopTypes
<1>12. CASE DropHandle \/ DropEvents
  BY <1>12 DEF DropHandle, DropEvents, AppUnchanged, LoopTypes
<1> QED
  BY <1>1, <1>2, <1>3, <1>4, <1>5, <1>6, <1>7, <1>8, <1>9, <1>10, <1>11, <1>12 DEF Next


\* drop_peer signals the reader at most, which its channel refuses when it is
\* full (src/src/actors/read_actor.rs:110).
LEMMA DropSignals ==
  ASSUME ServerInv, ReaderTypes, NEW p \in PeerUids, NEW reason, drop_peer(p, reason), UNCHANGED rTask
  PROVE  ReaderTypes'
<1>1. CASE p \in DOMAIN peers
  <2>1. rCtl' = [rCtl EXCEPT ![p] = R!AfterSignal(p)] /\ UNCHANGED <<rStream, rOvertaken>>
    BY <1>1 DEF drop_peer, release_actors, rTask
  <2>2. rCtl \in [PeerUids -> Nat] /\ CtlBuffer \in Nat
    BY ServerActorAssumption DEF ServerInv, ActorTypes
  <2>3. R!AfterSignal(p) \in Nat /\ R!AfterSignal(p) <= CtlBuffer + 1
    BY <2>2 DEF R!AfterSignal, ReaderTypes
  <2>4. \A q \in PeerUids : rCtl'[q] = IF q = p THEN R!AfterSignal(p) ELSE rCtl[q]
    BY <2>1, <2>2
  <2> QED
    BY <2>1, <2>3, <2>4 DEF ReaderTypes
<1>2. CASE p \notin DOMAIN peers
  BY <1>2 DEF drop_peer, rTask, ReaderTypes
<1> QED
  BY <1>1, <1>2

\* The arms of the main loop that serve one peer.
LEMMA BrokerSignals == ASSUME ServerInv, ReaderTypes, NEW p \in PeerUids, Broker(p) PROVE ReaderTypes'
<1>1. UNCHANGED rTask
  BY DEF Broker, handle_tcp_reader_stream_item, TcpReaderError, TcpReaderEnd, TcpWriterEnd, AnnounceFeed,
         AnnounceUnchanged
<1>2. CASE rCtl' = rCtl
  BY <1>1, <1>2 DEF rTask, ReaderTypes
<1>3. CASE TcpReaderError(p)
  BY <1>1, <1>3, DropSignals DEF TcpReaderError
<1>4. CASE TcpReaderEnd(p)
  <2>1. drop_peer(p, "PeerClosedConnection") \/ rCtl' = rCtl
    BY <1>4 DEF TcpReaderEnd, ReaderStreamOver, reader_shutdown, R!ReaderFinished, R!ReadOutcome,
                R!ReadActorShutdownReason
  <2> QED
    BY <1>1, <1>2, <2>1, DropSignals
<1>5. CASE TcpWriterEnd(p)
  <2>1. drop_peer(p, "PeerClosedConnection") \/ rCtl' = rCtl
    BY <1>5 DEF TcpWriterEnd, writer_shutdown, W!WriterFinished, W!WriteOutcome,
                W!WriteActorShutdownReason
  <2> QED
    BY <1>1, <1>2, <2>1, DropSignals
<1>6. CASE handle_tcp_reader_stream_item(p) \/ AnnounceFeed(p)
  BY <1>2, <1>6 DEF handle_tcp_reader_stream_item, AnnounceFeed, AnnounceUnchanged, rLink
<1> QED
  BY <1>3, <1>4, <1>5, <1>6 DEF Broker

\* The task takes a Shutdown, an item or the end of its stream.
LEMMA ReaderMoves ==
  ASSUME ServerInv, ReaderTypes, NEW p \in PeerUids,
         \/ ReadsMessage(p) \/ ReadsUndecodable(p) \/ ReadFails(p)
         \/ ReaderRuns(p) \/ ReaderPanics(p) \/ PeerCloses(p)
  PROVE  ReaderTypes'
<1>1. /\ rCtl \in [PeerUids -> Nat] /\ CtlBuffer \in Nat /\ rHandle \in [PeerUids -> BOOLEAN]
      /\ rStream \in [PeerUids -> {"open", "ended"}] /\ rOvertaken \in [PeerUids -> BOOLEAN]
  BY ServerActorAssumption DEF ServerInv, ActorTypes, ReaderTypes
<1>2. CASE R!ReceiveShutdown(p)
  <2>1. rCtl[p] > 0 /\ rCtl' = [rCtl EXCEPT ![p] = @ - 1] /\ UNCHANGED <<rStream, rOvertaken>>
    BY <1>2 DEF R!ReceiveShutdown
  <2>2. \A q \in PeerUids : rCtl'[q] <= rCtl[q]
    BY <1>1, <2>1
  <2>3. \A q \in PeerUids : rCtl'[q] \in Nat
    BY <1>1, <2>1
  <2> QED
    BY <1>1, <2>1, <2>2, <2>3 DEF ReaderTypes
<1>3. CASE R!HandlesDropped(p) \/ R!EndOfStream(p) \/ R!ReaderPanics(p)
  BY <1>3 DEF R!HandlesDropped, R!EndOfStream, R!ReaderPanics, ReaderTypes
<1>4. CASE R!PeerCloses(p)
  BY <1>1, <1>4 DEF R!PeerCloses, ReaderTypes
<1>5. ASSUME NEW x, R!ForwardItem(p, x) PROVE ReaderTypes'
  <2>1. UNCHANGED rCtl
    BY <1>5 DEF R!ForwardItem
  <2>2. \E y \in {"open", "ended"} : rStream' = [rStream EXCEPT ![p] = y]
    BY <1>1, <1>5 DEF R!ForwardItem
  <2>3. rStream' \in [PeerUids -> {"open", "ended"}]
    BY <1>1, <2>2
  <2>4. R!CtlReady(p) \in BOOLEAN
    BY DEF R!CtlReady
  <2>5. rOvertaken' = rOvertaken \/ rOvertaken' = [rOvertaken EXCEPT ![p] = R!CtlReady(p)]
    BY <1>5 DEF R!ForwardItem
  <2>6. PICK b \in BOOLEAN : b = R!CtlReady(p)
    BY <2>4, Zenon
  <2>7. rOvertaken' = rOvertaken \/ rOvertaken' = [rOvertaken EXCEPT ![p] = b]
    BY <2>5, <2>6, Zenon
  <2>8. rOvertaken' \in [PeerUids -> BOOLEAN]
    BY <1>1, <2>7, Zenon
  <2> QED
    BY <2>1, <2>3, <2>8 DEF ReaderTypes
<1> QED
  BY <1>2, <1>3, <1>4, <1>5 DEF ReadsMessage, ReadsUndecodable, ReadFails, Reads, ReaderRuns,
     ReaderPanics, PeerCloses, R!ReaderProgress

\* Every step keeps the bounds and types of the readers.
LEMMA ReaderStep == ServerInv /\ ReaderTypes /\ [Next]_vars => ReaderTypes'
<1> SUFFICES ASSUME ServerInv, ReaderTypes, [Next]_vars PROVE ReaderTypes'
  OBVIOUS
<1> USE DEF index, app, net, rTask, rLink, wTask, wLink
<1>0. CASE UNCHANGED <<rCtl, rStream, rOvertaken>>
  BY <1>0 DEF ReaderTypes
<1>1. CASE UNCHANGED vars
  BY <1>0, <1>1 DEF vars
<1>2. ASSUME NEW a \in Addrs, NEW u \in Addrs, handle_new_tcp_connection(a, u) PROVE ReaderTypes'
  BY <1>0, <1>2 DEF handle_new_tcp_connection
<1>3. CASE PeerAddrFails \/ UdpActorEnds \/ ActorMessagesEnd \/ Unwind
  BY <1>0, <1>3 DEF PeerAddrFails, UdpActorEnds, ActorMessagesEnd, Unwind, UdpUnchanged
<1>4. CASE \E p \in PeerUids : Broker(p)
  BY <1>4, BrokerSignals
<1>5. CASE \/ \E p \in PeerUids, a \in Addrs : UdpHello(p, a)
           \/ \E a \in Addrs : UdpApplicationLogic(a)
  BY <1>0, <1>5 DEF UdpHello, UdpApplicationLogic, UdpUnchanged
<1>6. ASSUME NEW a \in Addrs, UdpUndecodable(a) PROVE ReaderTypes'
  <2>1. PICK p : drop_peer(p, "PeerSubmittedUnintelligibleData") /\ UNCHANGED rTask
    BY <1>6 DEF UdpUndecodable, UdpUnchanged
  <2>2. CASE p \in PeerUids
    BY <2>1, <2>2, DropSignals
  <2>3. CASE p \notin PeerUids
    BY <1>0, <2>1, <2>3 DEF drop_peer, ServerInv, ActorTypes
  <2> QED
    BY <2>2, <2>3
<1>7. CASE UdpHeartbeat \/ AnnounceFlush
  BY <1>0, <1>7 DEF UdpHeartbeat, AnnounceFlush, AnnounceUnchanged
<1>8. CASE handle_actor_message
  BY <1>0, <1>8 DEF handle_actor_message, ToPeerTcp, ToPeerUdp, announce_tcp, AnnounceUdp,
                    GetNumberOfConnectedPeers, TakeMessage
<1>9. CASE \E p \in PeerUids :
              \/ ReadsMessage(p) \/ ReadsUndecodable(p) \/ ReadFails(p)
              \/ ReaderRuns(p) \/ ReaderPanics(p) \/ PeerCloses(p)
  BY <1>9, ReaderMoves
<1>10. ASSUME NEW w \in PeerUids \cup {UdpWriter}, WriterRuns(w) \/ WriterPanics(w) \/ WriterSteps(w)
       PROVE  ReaderTypes'
  <2>1. UNCHANGED <<rCtl, rStream, rOvertaken>>
    BY <1>10 DEF WriterRuns, WriterPanics, WriterSteps, SinkDone, SinkFails, CloseSink, WriterUnchanged
  <2> QED
    BY <1>0, <2>1
<1>11. CASE (\E m \in Message : Call(m)) \/ DropHandle \/ DropEvents
  BY <1>0, <1>11 DEF Call, DropHandle, DropEvents, AppUnchanged
<1> QED
  BY <1>1, <1>2, <1>3, <1>4, <1>5, <1>6, <1>7, <1>8, <1>9, <1>10, <1>11 DEF Next


\* send_actor_message keeps the bound of the channel
\* (src/src/actors/write_actor.rs:106: try_send refuses when it is full).
LEMMA SendBounded ==
  ASSUME ServerInv, NEW w \in AllWriters, NEW m, WriterBounded(w)
  PROVE  Len(W!send_actor_message(w, m)) <= WriteBuffer + 1
<1>1. PICK s \in Seq(W!ActorMessage \cup {m}) : s = wMsgs[w]
  BY DEF ServerInv, ActorTypes
<1>2. Len(Append(s, m)) = Len(s) + 1 /\ Len(s) \in Nat /\ WriteBuffer \in Nat
  BY ServerActorAssumption
<1>3. CASE W!Accepts(w)
  BY <1>1, <1>2, <1>3 DEF W!Accepts, W!send_actor_message
<1>4. CASE ~W!Accepts(w)
  BY <1>4 DEF W!send_actor_message, WriterBounded
<1> QED
  BY <1>3, <1>4

\* A step that queues one message.
LEMMA QueueBounded ==
  ASSUME ServerInv, WriterTypes, NEW w \in AllWriters, NEW m,
         wMsgs' = [wMsgs EXCEPT ![w] = W!send_actor_message(w, m)]
  PROVE  \A v \in AllWriters : WriterBounded(v)'
<1>1. Len(W!send_actor_message(w, m)) <= WriteBuffer + 1
  BY SendBounded DEF WriterTypes
<1>2. \A v \in AllWriters : wMsgs'[v] = IF v = w THEN W!send_actor_message(w, m) ELSE wMsgs[v]
  BY DEF ServerInv, ActorTypes
<1> QED
  BY <1>1, <1>2 DEF WriterTypes, WriterBounded

\* drop_peer tells the writer of the peer.
LEMMA DropBounded ==
  ASSUME ServerInv, WriterTypes, NEW p, NEW reason, drop_peer(p, reason)
  PROVE  \A v \in AllWriters : WriterBounded(v)'
<1>1. CASE p \in DOMAIN peers
  <2>1. p \in AllWriters /\ wMsgs' = [wMsgs EXCEPT ![p] = W!send_actor_message(p, W!Shutdown)]
    BY <1>1 DEF drop_peer, release_actors, ServerInv, ActorTypes, AllWriters
  <2> QED
    BY <2>1, QueueBounded
<1>2. CASE p \notin DOMAIN peers
  BY <1>2 DEF drop_peer, wLink, WriterTypes, WriterBounded
<1> QED
  BY <1>1, <1>2

\* The arms of the main loop that serve one peer.
LEMMA BrokerBounded ==
  ASSUME ServerInv, WriterTypes, NEW p \in PeerUids, Broker(p)
  PROVE  \A v \in AllWriters : WriterBounded(v)'
<1> USE DEF wLink
<1>1. CASE wMsgs' = wMsgs
  BY <1>1 DEF WriterTypes, WriterBounded
<1>2. CASE handle_tcp_reader_stream_item(p)
  BY <1>1, <1>2 DEF handle_tcp_reader_stream_item
<1>3. CASE TcpReaderError(p)
  BY <1>3, DropBounded DEF TcpReaderError
<1>4. CASE TcpReaderEnd(p)
  <2>1. drop_peer(p, "PeerClosedConnection") \/ wMsgs' = wMsgs
    BY <1>4 DEF TcpReaderEnd, ReaderStreamOver, reader_shutdown, R!ReaderFinished, R!ReadOutcome,
                R!ReadActorShutdownReason
  <2> QED
    BY <1>1, <2>1, DropBounded
<1>5. CASE TcpWriterEnd(p)
  <2>1. drop_peer(p, "PeerClosedConnection") \/ wMsgs' = wMsgs
    BY <1>5 DEF TcpWriterEnd, writer_shutdown, W!WriterFinished, W!WriteOutcome,
                W!WriteActorShutdownReason
  <2> QED
    BY <1>1, <2>1, DropBounded
<1>6. CASE AnnounceFeed(p)
  BY <1>6, QueueBounded DEF AnnounceFeed, AllWriters
<1> QED
  BY <1>2, <1>3, <1>4, <1>5, <1>6 DEF Broker

\* The messages of the application, the heartbeat and the flush after it.
LEMMA MessageBounded ==
  ASSUME ServerInv, WriterTypes, handle_actor_message \/ UdpHeartbeat \/ AnnounceFlush
  PROVE  \A v \in AllWriters : WriterBounded(v)'
<1>1. CASE wMsgs' = wMsgs
  BY <1>1 DEF WriterTypes, WriterBounded
<1>2. CASE ToPeerTcp
  <2>1. \/ wMsgs' = wMsgs
        \/ \E p \in DOMAIN peers : \E m :
            wMsgs' = [wMsgs EXCEPT ![p] = W!send_actor_message(p, m)]
    BY <1>2 DEF ToPeerTcp
  <2>2. DOMAIN peers \subseteq AllWriters
    BY DEF ServerInv, ActorTypes, AllWriters
  <2> QED
    BY <1>1, <2>1, <2>2, QueueBounded
<1>3. CASE ToPeerUdp
  <2>1. \/ wMsgs' = wMsgs
        \/ \E m : wMsgs' = [wMsgs EXCEPT ![UdpWriter] = W!send_actor_message(UdpWriter, m)]
    BY <1>3 DEF ToPeerUdp
  <2> QED
    BY <1>1, <2>1, QueueBounded DEF AllWriters
<1>4. CASE announce_tcp
  <2>1. PICK m : wMsgs' = [w \in DOMAIN wMsgs |->
                             IF w \in DOMAIN peers THEN W!send_actor_message(w, m) ELSE wMsgs[w]]
    BY <1>4 DEF announce_tcp
  <2>2. DOMAIN wMsgs = AllWriters
    BY DEF ServerInv, ActorTypes
  <2>3. \A v \in AllWriters : wMsgs'[v] \in {wMsgs[v], W!send_actor_message(v, m)}
    BY <2>1, <2>2
  <2>4. \A v \in AllWriters : Len(W!send_actor_message(v, m)) <= WriteBuffer + 1
    BY SendBounded DEF WriterTypes
  <2> QED
    BY <2>3, <2>4 DEF WriterTypes, WriterBounded
<1>5. CASE AnnounceFlush
  BY <1>5, QueueBounded DEF AnnounceFlush, AllWriters
<1>6. CASE AnnounceUdp \/ GetNumberOfConnectedPeers \/ UdpHeartbeat
  BY <1>1, <1>6 DEF AnnounceUdp, GetNumberOfConnectedPeers, UdpHeartbeat
<1> QED
  BY <1>2, <1>3, <1>4, <1>5, <1>6 DEF handle_actor_message

\* A task takes the first message or drops its channel.
LEMMA TaskBounded ==
  ASSUME ServerInv, WriterTypes, NEW w \in AllWriters, WriterRuns(w) \/ WriterPanics(w) \/ WriterSteps(w)
  PROVE  \A v \in AllWriters : WriterBounded(v)'
<1>1. PICK s \in Seq(W!ActorMessage) : s = wMsgs[w]
  BY DEF ServerInv, ActorTypes
<1>2. /\ Len(s) \in Nat /\ Len(s) <= WriteBuffer + 1 /\ WriteBuffer \in Nat
      /\ s # <<>> => Len(Tail(s)) = Len(s) - 1
      /\ Len(<<>>) = 0
  BY <1>1, ServerActorAssumption DEF WriterTypes, WriterBounded
<1>3. \/ UNCHANGED wMsgs
      \/ wMsgs' = [wMsgs EXCEPT ![w] = Tail(s)] /\ s # <<>>
      \/ wMsgs' = [wMsgs EXCEPT ![w] = <<>>]
  BY <1>1 DEF WriterRuns, WriterPanics, WriterSteps, SinkDone, SinkFails, CloseSink, W!WriterProgress,
     W!TakeMessage, W!TakeShutdown, W!AllHandlesDropped, W!SinkDone, W!SinkFails, W!CloseSink,
     W!WriterPanics
<1>4. /\ \A v \in AllWriters : v # w => wMsgs'[v] = wMsgs[v]
      /\ wMsgs'[w] = s \/ (wMsgs'[w] = Tail(s) /\ s # <<>>) \/ wMsgs'[w] = <<>>
  BY <1>1, <1>3 DEF ServerInv, ActorTypes
<1>5. Len(wMsgs'[w]) <= WriteBuffer + 1
  BY <1>2, <1>4
<1> QED
  BY <1>4, <1>5 DEF WriterTypes, WriterBounded

\* No channel of a write actor ever holds more than it has room for.
LEMMA ChannelStep ==
  ASSUME ServerInv, WriterTypes, [Next]_vars
  PROVE  \A v \in AllWriters : WriterBounded(v)'
<1> USE DEF wLink
<1>1. CASE wMsgs' = wMsgs
  BY <1>1 DEF WriterTypes, WriterBounded
<1>2. ASSUME NEW a \in Addrs, NEW u \in Addrs, handle_new_tcp_connection(a, u)
      PROVE  \A v \in AllWriters : WriterBounded(v)'
  <2>1. PICK m : wMsgs' = [wMsgs EXCEPT ![next_peer_uid] = <<m>>]
    BY <1>2 DEF handle_new_tcp_connection
  <2>2. \A v \in AllWriters : wMsgs'[v] = wMsgs[v] \/ wMsgs'[v] = <<m>>
    BY <2>1 DEF ServerInv, ActorTypes
  <2>3. Len(<<m>>) <= WriteBuffer + 1
    BY ServerActorAssumption
  <2> QED
    BY <2>2, <2>3 DEF WriterTypes, WriterBounded
<1>3. CASE \E p \in PeerUids : Broker(p)
  BY <1>3, BrokerBounded
<1>4. ASSUME NEW q \in PeerUids, NEW a \in Addrs, UdpHello(q, a)
      PROVE  \A v \in AllWriters : WriterBounded(v)'
  <2>1. PICK p \in DOMAIN peers : \E m, x :
           wMsgs' = [wMsgs EXCEPT ![p] = W!send_actor_message(p, m),
                                  ![UdpWriter] = W!send_actor_message(UdpWriter, x)]
    BY <1>4 DEF UdpHello
  <2>2. PICK m, x :
           wMsgs' = [wMsgs EXCEPT ![p] = W!send_actor_message(p, m),
                                  ![UdpWriter] = W!send_actor_message(UdpWriter, x)]
    BY <2>1
  <2>3. p \in AllWriters /\ UdpWriter \in AllWriters
    BY DEF ServerInv, ActorTypes, AllWriters
  <2>4. \A v \in AllWriters : \/ wMsgs'[v] = wMsgs[v]
                              \/ v = p /\ wMsgs'[v] = W!send_actor_message(p, m)
                              \/ v = UdpWriter /\ wMsgs'[v] = W!send_actor_message(UdpWriter, x)
    BY <2>2, <2>3 DEF ServerInv, ActorTypes
  <2>5. /\ Len(W!send_actor_message(p, m)) <= WriteBuffer + 1
        /\ Len(W!send_actor_message(UdpWriter, x)) <= WriteBuffer + 1
    BY <2>3, SendBounded DEF WriterTypes
  <2> QED
    BY <2>4, <2>5 DEF WriterTypes, WriterBounded
<1>5. CASE \E a \in Addrs : UdpUndecodable(a)
  BY <1>5, DropBounded DEF UdpUndecodable
<1>6. CASE UdpHeartbeat \/ AnnounceFlush \/ handle_actor_message
  BY <1>6, MessageBounded
<1>7. CASE \E w \in PeerUids \cup {UdpWriter} : WriterRuns(w) \/ WriterPanics(w) \/ WriterSteps(w)
  BY <1>7, TaskBounded DEF AllWriters
<1>8. ASSUME \/ UNCHANGED vars
             \/ PeerAddrFails \/ UdpActorEnds \/ ActorMessagesEnd \/ Unwind
             \/ \E a \in Addrs : UdpApplicationLogic(a)
             \/ \E p \in PeerUids :
                   \/ ReadsMessage(p) \/ ReadsUndecodable(p) \/ ReadFails(p)
                   \/ ReaderRuns(p) \/ ReaderPanics(p) \/ PeerCloses(p)
             \/ \E x \in Message : Call(x)
             \/ DropHandle \/ DropEvents
      PROVE  wMsgs' = wMsgs
  BY <1>8 DEF vars, PeerAddrFails, UdpActorEnds, ActorMessagesEnd, Unwind, UdpApplicationLogic,
              ReadsMessage, ReadsUndecodable, ReadFails, Reads, ReaderRuns, ReaderPanics, PeerCloses,
              ReaderUnchanged, Call, DropHandle, DropEvents, AppUnchanged
<1> QED
  BY <1>1, <1>2, <1>3, <1>4, <1>5, <1>6, <1>7, <1>8 DEF Next


\* No step leaves a write actor without a reason for its end
\* (src/src/actors/write_actor.rs:131-165).
LEMMA EndsStep ==
  ASSUME ServerInv, WriterTypes, [Next]_vars
  PROVE  \A w \in AllWriters : WriterEnds(w)'
<1>0. wState \in [AllWriters -> WriterStates] /\ wReason \in [AllWriters -> WriterStates]
  BY DEF ServerInv, ActorTypes
<1>1. \A w \in AllWriters : WriterEnds(w)
  BY DEF WriterTypes
<1>2. ASSUME NEW a \in Addrs, NEW u \in Addrs, handle_new_tcp_connection(a, u)
      PROVE  \A w \in AllWriters : WriterEnds(w)'
  <2>1. wState' = [wState EXCEPT ![next_peer_uid] = "running"] /\ wReason' = wReason
    BY <1>2 DEF handle_new_tcp_connection, W!spawn_write_actor
  <2>2. \A w \in AllWriters : wState'[w] \in {wState[w], "running"}
    BY <1>0, <2>1
  <2> QED
    BY <1>1, <2>1, <2>2 DEF WriterEnds
<1>3. ASSUME NEW w \in AllWriters,
             \/ W!TakeMessage(w)
             \/ W!TakeShutdown(w)
             \/ W!AllHandlesDropped(w)
             \/ \E n : W!SinkDone(w, n) \/ W!SinkFails(w, n) \/ W!CloseSink(w, n)
             \/ W!WriterPanics(w)
      PROVE  \A v \in AllWriters : WriterEnds(v)'
  <2>1. \/ UNCHANGED <<wState, wReason>>
        \/ \E r \in W!WriteActorShutdownReason :
              /\ wState' = [wState EXCEPT ![w] = "closing"]
              /\ wReason' = [wReason EXCEPT ![w] = r]
        \/ wState[w] = "closing" /\ wState' = [wState EXCEPT ![w] = wReason[w]] /\ UNCHANGED wReason
        \/ wState' = [wState EXCEPT ![w] = "Panic"] /\ UNCHANGED wReason
    BY <1>3 DEF W!TakeMessage, W!TakeShutdown, W!AllHandlesDropped, W!SinkDone, W!SinkFails,
           W!CloseSink, W!WriterPanics, W!Idle, W!BeginClose, W!WriteActorShutdownReason
  <2>2. ASSUME NEW v \in AllWriters PROVE WriterEnds(v)'
    BY <1>0, <1>1, <2>1 DEF WriterEnds, W!WriteActorShutdownReason
  <2> QED
    BY <2>2
<1>4. CASE UNCHANGED <<wState, wReason>>
  BY <1>1, <1>4 DEF WriterEnds
<1> QED
  BY <1>2, <1>3, <1>4, TaskMoves

\* Only the write actors' tasks touch their sinks.
LEMMA SinkMoves ==
  ASSUME [Next]_vars
  PROVE  \/ UNCHANGED <<wHand, wSink>>
         \/ \E w \in AllWriters : WriterRuns(w) \/ WriterPanics(w) \/ WriterSteps(w)
<1> USE DEF index, app, net, rTask, rLink, wTask, wLink
<1>1. CASE UNCHANGED vars
  BY <1>1 DEF vars
<1>2. ASSUME NEW a \in Addrs, NEW u \in Addrs, handle_new_tcp_connection(a, u)
      PROVE  UNCHANGED <<wHand, wSink>>
  BY <1>2 DEF handle_new_tcp_connection
<1>3. CASE PeerAddrFails \/ UdpActorEnds \/ ActorMessagesEnd \/ Unwind
  BY <1>3 DEF PeerAddrFails, UdpActorEnds, ActorMessagesEnd, Unwind, UdpUnchanged
<1>4. ASSUME NEW p \in PeerUids, Broker(p) PROVE UNCHANGED <<wHand, wSink>>
  BY <1>4 DEF Broker, handle_tcp_reader_stream_item, TcpReaderError, TcpReaderEnd, TcpWriterEnd,
              AnnounceFeed, AnnounceUnchanged
<1>5. CASE \/ \E p \in PeerUids, a \in Addrs : UdpHello(p, a)
           \/ \E a \in Addrs : UdpApplicationLogic(a) \/ UdpUndecodable(a)
  BY <1>5 DEF UdpHello, UdpApplicationLogic, UdpUndecodable, UdpUnchanged
<1>6. CASE UdpHeartbeat \/ AnnounceFlush
  BY <1>6 DEF UdpHeartbeat, AnnounceFlush, AnnounceUnchanged
<1>7. CASE handle_actor_message
  BY <1>7 DEF handle_actor_message, ToPeerTcp, ToPeerUdp, announce_tcp, AnnounceUdp,
              GetNumberOfConnectedPeers, TakeMessage
<1>8. ASSUME NEW p \in PeerUids,
             \/ ReadsMessage(p) \/ ReadsUndecodable(p) \/ ReadFails(p)
             \/ ReaderRuns(p) \/ ReaderPanics(p) \/ PeerCloses(p)
      PROVE  UNCHANGED <<wHand, wSink>>
  BY <1>8 DEF ReadsMessage, ReadsUndecodable, ReadFails, Reads, ReaderRuns, ReaderPanics, PeerCloses,
              ReaderUnchanged
<1>9. CASE (\E m \in Message : Call(m)) \/ DropHandle \/ DropEvents
  BY <1>9 DEF Call, DropHandle, DropEvents, AppUnchanged
<1> QED
  BY <1>1, <1>2, <1>3, <1>4, <1>5, <1>6, <1>7, <1>8, <1>9 DEF Next, AllWriters

\* What is about to be written are items.
LEMMA PendingItems ==
  ASSUME WriterTypes, NEW w \in AllWriters
  PROVE  W!Pending(w) \in Seq(WriteItems)
<1>1. PICK s \in Seq(WriteItems) : s = wSink[w]
  BY DEF WriterTypes
<1>2. CASE wHand[w] = <<>>
  BY <1>1, <1>2 DEF W!Pending
<1>3. ASSUME NEW m \in W!ActorMessage, wHand[w] = <<m>> PROVE W!Pending(w) \in Seq(WriteItems)
  <2>1. W!Pending(w) = s \o W!Payload(m)
    BY <1>1, <1>3 DEF W!Pending
  <2>2. W!Payload(m) \in Seq(WriteItems)
    BY DEF W!Payload, W!ActorMessage
  <2> QED
    BY <2>1, <2>2
<1> QED
  BY <1>2, <1>3 DEF WriterTypes, Hands

\* A task has at most one message in hand, and gives its item to the sink
\* (src/src/actors/write_actor.rs:131-165).
LEMMA SinkStep ==
  ASSUME ServerInv, WriterTypes, [Next]_vars
  PROVE  wHand' \in [AllWriters -> Hands] /\ wSink' \in [AllWriters -> Seq(WriteItems)]
<1> DEFINE Goal == wHand' \in [AllWriters -> Hands] /\ wSink' \in [AllWriters -> Seq(WriteItems)]
<1>0. /\ wHand \in [AllWriters -> Hands] /\ wSink \in [AllWriters -> Seq(WriteItems)]
      /\ wMsgs \in [AllWriters -> Seq(W!ActorMessage)]
      /\ <<>> \in Hands /\ <<>> \in Seq(WriteItems)
  BY DEF WriterTypes, ServerInv, ActorTypes, Hands
<1>1. CASE UNCHANGED <<wHand, wSink>>
  BY <1>0, <1>1
<1>2. ASSUME NEW w \in AllWriters, WriterRuns(w) \/ WriterPanics(w) PROVE Goal
  <2>1. CASE W!TakeMessage(w)
    <3>1. wMsgs[w] # <<>> /\ wHand' = [wHand EXCEPT ![w] = <<Head(wMsgs[w])>>] /\ wSink' = wSink
      BY <2>1 DEF W!TakeMessage
    <3>2. Head(wMsgs[w]) \in W!ActorMessage
      BY <1>0, <3>1
    <3>3. <<Head(wMsgs[w])>> \in Hands
      BY <3>2 DEF Hands
    <3> QED
      BY <1>0, <3>1, <3>3
  <2>2. CASE W!TakeShutdown(w) \/ W!AllHandlesDropped(w)
    BY <1>0, <2>2 DEF W!TakeShutdown, W!AllHandlesDropped
  <2>3. CASE W!WriterPanics(w)
    BY <1>0, <2>3 DEF W!WriterPanics
  <2> QED
    BY <1>2, <2>1, <2>2, <2>3 DEF WriterRuns, WriterPanics, W!WriterProgress
<1>3. ASSUME NEW w \in AllWriters, WriterSteps(w) PROVE Goal
  <2>1. PICK n \in 0 .. Len(W!Pending(w)) : SinkDone(w, n) \/ SinkFails(w, n) \/ CloseSink(w, n)
    BY <1>3 DEF WriterSteps
  <2>2. PICK s \in Seq(WriteItems) : s = W!Pending(w)
    BY PendingItems
  <2>3. PICK t \in Seq(WriteItems) : t = W!Rest(w, n)
    <3>1. W!Rest(w, n) = SubSeq(s, n + 1, Len(s)) /\ n \in 0 .. Len(s)
      BY <2>1, <2>2 DEF W!Rest
    <3>2. SubSeq(s, n + 1, Len(s)) \in Seq(WriteItems)
      BY <3>1
    <3> QED
      BY <3>1, <3>2, Zenon
  <2>4. /\ wHand' = wHand \/ wHand' = [wHand EXCEPT ![w] = <<>>]
        /\ wSink' = [wSink EXCEPT ![w] = t] \/ wSink' = [wSink EXCEPT ![w] = <<>>]
    BY <2>1, <2>3 DEF SinkDone, SinkFails, CloseSink, W!SinkDone, W!SinkFails, W!CloseSink
  <2> QED
    BY <1>0, <2>4
<1> QED
  BY <1>1, <1>2, <1>3, SinkMoves

Types == MapTypes /\ LoopTypes /\ ReaderTypes /\ WriterTypes

\* In the beginning there is only the UDP write actor.
LEMMA TypesInit == Init => Types
<1> SUFFICES ASSUME Init PROVE Types
  OBVIOUS
<1>1. MapTypes
  BY ServerActorAssumption DEF Init, MapTypes, TcpIndex, UdpIndex, UuidIndex, EmptyMap, IsMap
<1>2. LoopTypes
  BY DEF Init, LoopTypes
<1>3. ReaderTypes
  BY ServerActorAssumption DEF Init, R!ReaderInit, ReaderTypes
<1>4. WriterTypes
  <2>1. ASSUME NEW w \in AllWriters PROVE WriterEnds(w) /\ WriterBounded(w)
    <3>1. wState[w] \in {"running", "unspawned"} /\ wReason[w] = "none" /\ wMsgs[w] = <<>>
      BY DEF Init, AllWriters
    <3> QED
      BY <3>1, ServerActorAssumption DEF WriterEnds, WriterBounded
  <2>2. wHand = [w \in AllWriters |-> <<>>] /\ wSink = [w \in AllWriters |-> <<>>]
    BY DEF Init, AllWriters
  <2>3. wHand \in [AllWriters -> Hands]
    BY <2>2 DEF Hands
  <2>4. wSink \in [AllWriters -> Seq(WriteItems)]
    BY <2>2
  <2> QED
    BY <2>1, <2>3, <2>4 DEF WriterTypes
<1> QED
  BY <1>1, <1>2, <1>3, <1>4 DEF Types

\* Every variable of the server keeps its type, and the channels their bounds:
\* 9 signals to a read actor, 33 messages to a write actor
\* (src/src/actors/read_actor.rs:21 and write_actor.rs:18).
THEOREM ServerTypes == Spec => []TypeOK
<1>1. ServerInv /\ Types /\ [Next]_vars => Types'
  <2> SUFFICES ASSUME ServerInv, Types, [Next]_vars PROVE Types'
    OBVIOUS
  <2>1. MapTypes' /\ LoopTypes' /\ ReaderTypes'
    BY MapStep, LoopStep, ReaderStep DEF Types
  <2>2. WriterTypes'
    BY EndsStep, ChannelStep, SinkStep DEF Types, WriterTypes
  <2> QED
    BY <2>1, <2>2 DEF Types
<1>2. ASSUME ServerInv, ItemInv, EventInv, Types PROVE TypeOK
  <2>1. /\ IsMap(peers, PeerUids, Peer) /\ next_peer_uid \in 0 .. MaxPeers
        /\ announce \in [msg : {"none", "Heartbeat", "ApplicationLogic"}, left : SUBSET PeerUids]
    <3>1. DOMAIN peers \subseteq PeerUids /\ next_peer_uid \in Nat /\ next_peer_uid <= MaxPeers
      BY <1>2 DEF ServerInv, ActorTypes, Types, MapTypes
    <3>2. IsMap(peers, PeerUids, Peer)
      BY <1>2, <3>1 DEF ServerInv, BrokerTypes, IsMap
    <3>3. announce \in [msg : {"none", "Heartbeat", "ApplicationLogic"}, left : SUBSET PeerUids]
      BY <1>2, <3>1 DEF ServerInv, BrokerTypes
    <3> QED
      BY <3>1, <3>2, <3>3, ServerActorAssumption
  <2>2. R!ReaderTypeOK
    <3>1. rCtl \in [PeerUids -> 0 .. CtlBuffer + 1]
      <4>1. rCtl \in [PeerUids -> Nat] /\ \A p \in PeerUids : rCtl[p] <= CtlBuffer + 1
        BY <1>2 DEF ServerInv, ActorTypes, Types, ReaderTypes
      <4> QED
        BY <4>1, ServerActorAssumption
    <3> QED
      BY <1>2, <3>1 DEF R!ReaderTypeOK, ServerInv, ActorTypes, ReaderStates, Types, ReaderTypes, ItemInv
  <2>3. W!WriterTypeOK
    <3>1. ASSUME NEW w \in AllWriters
          PROVE  /\ wState[w] \in {"unspawned", "running", "closing"} \cup W!WriteOutcome
                 /\ wReason[w] \in {"none"} \cup W!WriteActorShutdownReason
      BY <1>2 DEF ServerInv, ActorTypes, WriterStates, Types, WriterTypes, WriterEnds
    <3>2. /\ wState \in [AllWriters -> {"unspawned", "running", "closing"} \cup W!WriteOutcome]
          /\ wReason \in [AllWriters -> {"none"} \cup W!WriteActorShutdownReason]
      BY <1>2, <3>1 DEF ServerInv, ActorTypes
    <3> QED
      BY <1>2, <3>2 DEF W!WriterTypeOK, AllWriters, ServerInv, ActorTypes, Types, WriterTypes,
         WriterBounded, Hands
  <2> QED
    BY <1>2, <2>1, <2>2, <2>3 DEF TypeOK, Types, MapTypes, LoopTypes, TcpIndex, UdpIndex, UuidIndex,
       ItemInv, EventInv
<1>3. Spec => []Types
  BY <1>1, TypesInit, ServerInvariant, PTL DEF Spec
<1> QED
  BY <1>2, <1>3, ServerInvariant, ItemInvariant, EventInvariant, PTL


\* A client that sends faster than the application listens is held back: no
\* reader gets more than one item ahead of the buffer of its channel, whatever
\* the broker is busy with (src/src/server/actor.rs:359, mpsc::channel(64), and
\* src/src/actors/read_actor.rs: tx.send(..).await).
THEOREM BacklogBounded == Spec => []R!TxBounded
<1> USE DEF R!TxBounded
<1>1. Init => R!TxBounded
  BY ServerActorAssumption DEF Init, R!ReaderInit
<1>2. ServerInv /\ ItemInv /\ R!TxBounded /\ [Next]_vars => R!TxBounded'
  <2> SUFFICES ASSUME ServerInv, ItemInv, R!TxBounded, [Next]_vars, NEW q \in PeerUids
               PROVE  Len(rTx'[q]) <= TxBuffer + 1
    OBVIOUS
  <2>0. rTx \in [PeerUids -> Seq(ReadItems)] /\ Len(rTx[q]) <= TxBuffer + 1 /\ TxBuffer \in Nat
    BY ServerActorAssumption DEF ItemInv
  <2>1. ASSUME NEW p \in PeerUids, NEW kind \in ItemKinds, Reads(p, kind, reads[p] + 1)
        PROVE  Len(rTx'[q]) <= TxBuffer + 1
    <3>1. PICK x \in ReadItems : R!ForwardItem(p, x)
      <4>1. reads[p] + 1 \in Nat
        BY ServerActorAssumption DEF ItemInv
      <4>2. [kind |-> kind, n |-> reads[p] + 1] \in ReadItems
        BY <4>1 DEF ReadItems, ItemKinds
      <4> QED
        BY <2>1, <4>2 DEF Reads
    <3>2. rTx' = rTx \/ (Len(rTx[p]) <= TxBuffer /\ rTx' = [rTx EXCEPT ![p] = Append(@, x)])
      BY <3>1 DEF R!ForwardItem, R!Polling
    <3>3. CASE rTx' = rTx
      BY <2>0, <3>3
    <3>4. CASE Len(rTx[p]) <= TxBuffer /\ rTx' = [rTx EXCEPT ![p] = Append(@, x)]
      <4>1. Len(Append(rTx[p], x)) = Len(rTx[p]) + 1 /\ Len(rTx[p]) \in Nat
        BY <2>0
      <4>2. rTx'[q] = IF q = p THEN Append(rTx[p], x) ELSE rTx[q]
        BY <2>0, <3>4
      <4> QED
        BY <2>0, <3>4, <4>1, <4>2
    <3> QED
      BY <3>2, <3>3, <3>4
  <2>2. ASSUME NEW p \in PeerUids, TakeItem(p) PROVE Len(rTx'[q]) <= TxBuffer + 1
    <3>1. rTx[p] # <<>> /\ rTx' = [rTx EXCEPT ![p] = Tail(@)]
      BY <2>2 DEF TakeItem
    <3>2. Len(Tail(rTx[p])) = Len(rTx[p]) - 1 /\ Len(rTx[p]) \in Nat
      BY <2>0, <3>1
    <3>3. rTx'[q] = IF q = p THEN Tail(rTx[p]) ELSE rTx[q]
      BY <2>0, <3>1
    <3> QED
      BY <2>0, <3>2, <3>3
  <2>3. CASE Unwind
    <3>1. rTx'[q] = <<>>
      BY <2>3 DEF Unwind
    <3> QED
      BY <2>0, <3>1
  <2>4. CASE (\E a, u \in Addrs : handle_new_tcp_connection(a, u)) \/ UNCHANGED rTx
    BY <2>0, <2>4 DEF handle_new_tcp_connection
  <2> QED
    BY <2>1, <2>2, <2>3, <2>4, ItemMoves
<1> QED
  BY <1>1, <1>2, ServerInvariant, ItemInvariant, PTL DEF Spec
=============================================================================
