------------------------- MODULE ServerActorProofs -------------------------
(***************************************************************************)
(* The assertions of the broker on the shutdown reason of an actor hold in *)
(* every behaviour, for every value of the constants and in all            *)
(* circumstances.                                                          *)
(*                                                                         *)
(* The invariant says who may have stopped an actor.  While a peer is in   *)
(* state.peers, the broker holds the handles of both its actors and the    *)
(* receiver of its reader, and has sent neither a Shutdown (Owned); and a  *)
(* uid that was not given out has no actors yet (Fresh).                   *)
(***************************************************************************)
EXTENDS ServerProperties, TLAPS

AllWriters == PeerUids \cup {UdpWriter}

ReaderStates == {"unspawned", "running"} \cup R!ReadOutcome
WriterStates == {"unspawned", "running", "closing", "none"} \cup W!WriteOutcome

\* The types of the variables that the argument is about.
ActorTypes ==
    /\ next_peer_uid \in Nat
    /\ DOMAIN peers \subseteq PeerUids
    /\ rState \in [PeerUids -> ReaderStates]
    /\ rCtl \in [PeerUids -> Nat]
    /\ rHandle \in [PeerUids -> BOOLEAN]
    /\ rRx \in [PeerUids -> BOOLEAN]
    /\ wState \in [AllWriters -> WriterStates]
    /\ wReason \in [AllWriters -> WriterStates]
    /\ wMsgs \in [AllWriters -> Seq(W!ActorMessage)]
    /\ wHandle \in [AllWriters -> BOOLEAN]

\* What the broker addresses is a peer that it has.
BrokerTypes ==
    /\ \A p \in DOMAIN peers : peers[p] \in Peer
    /\ announce \in [msg : {"none", "Heartbeat", "ApplicationLogic"}, left : SUBSET DOMAIN peers]
    /\ announce.left # {} => announce.msg # "none"

\* A uid that was not given out has neither a peer nor actors.
FreshUid(p) ==
    /\ p \notin DOMAIN peers
    /\ rState[p] = "unspawned" /\ rCtl[p] = 0
    /\ wState[p] = "unspawned" /\ wReason[p] = "none"

Fresh == \A p \in PeerUids : p >= next_peer_uid => FreshUid(p)

\* The reader of a connected peer has not been told to stop.
OwnedReader(p) ==
    /\ rHandle[p] /\ rRx[p] /\ rCtl[p] = 0
    /\ rState[p] \notin {"Signalled", "ActorHandlesDropped", "ReceiverClosedChannel"}

\* Nor has its writer.
OwnedWriter(p) ==
    /\ wHandle[p]
    /\ \A i \in 1 .. Len(wMsgs[p]) : wMsgs[p][i].op # "Shutdown"
    /\ wReason[p] \notin {"Signalled", "ActorHandlesDropped"}
    /\ wState[p] \notin {"Signalled", "ActorHandlesDropped"}

Owned == \A p \in DOMAIN peers : OwnedReader(p) /\ OwnedWriter(p)

ServerInv == ActorTypes /\ BrokerTypes /\ Fresh /\ Owned

invVars == <<peers, announce, next_peer_uid, rState, rCtl, rHandle, rRx, wState, wReason, wMsgs, wHandle>>

-----------------------------------------------------------------------------
(* Facts about the building blocks.                                        *)

\* Removing a key removes only that key (HashMap::remove).
LEMMA RemoveDomain == ASSUME NEW m, NEW k PROVE DOMAIN Remove(m, k) = DOMAIN m \ {k}
  BY DEF Remove

\* Inserting adds the key (HashMap::insert).
LEMMA InsertDomain == ASSUME NEW m, NEW k, NEW v PROVE DOMAIN Insert(m, k, v) = DOMAIN m \cup {k}
  BY DEF Insert

\* The UDP write actor is nobody's TCP write actor.
LEMMA UdpWriterApart == UdpWriter \notin PeerUids
  BY ServerActorAssumption DEF PeerUids

\* A step that leaves all variables of the invariant alone preserves it.
LEMMA InvStutter == ServerInv /\ UNCHANGED invVars => ServerInv'
  BY DEF ServerInv, invVars, ActorTypes, BrokerTypes, Fresh, FreshUid, Owned, OwnedReader, OwnedWriter

\* Queueing a message with send_actor_message (src/src/actors/write_actor.rs:105)
\* keeps the type of the channel, and adds no Shutdown if the message is none.
LEMMA SendKeeps ==
  ASSUME ActorTypes, NEW w \in AllWriters, NEW m \in W!ActorMessage
  PROVE  /\ W!send_actor_message(w, m) \in Seq(W!ActorMessage)
         /\ /\ m.op # "Shutdown"
            /\ \A i \in 1 .. Len(wMsgs[w]) : wMsgs[w][i].op # "Shutdown"
            => \A i \in 1 .. Len(W!send_actor_message(w, m)) :
                  W!send_actor_message(w, m)[i].op # "Shutdown"
<1> DEFINE s == wMsgs[w]
<1>1. s \in Seq(W!ActorMessage)
  BY DEF ActorTypes
<1>2. /\ Append(s, m) \in Seq(W!ActorMessage)
      /\ Len(Append(s, m)) = Len(s) + 1
      /\ \A i \in 1 .. Len(s) : Append(s, m)[i] = s[i]
      /\ Append(s, m)[Len(s) + 1] = m
  BY <1>1
<1>3. W!send_actor_message(w, m) \in {s, Append(s, m)}
  BY DEF W!send_actor_message
<1>4. W!send_actor_message(w, m) \in Seq(W!ActorMessage)
  BY <1>1, <1>2, <1>3
<1>5. ASSUME m.op # "Shutdown", \A i \in 1 .. Len(s) : s[i].op # "Shutdown",
             NEW t \in {s, Append(s, m)}, NEW i \in 1 .. Len(t)
      PROVE  t[i].op # "Shutdown"
  <2>1. CASE t = s
    BY <1>5, <2>1
  <2>2. CASE t = Append(s, m)
    <3>1. CASE i = Len(s) + 1
      BY <1>2, <1>5, <2>2, <3>1
    <3>2. CASE i \in 1 .. Len(s)
      BY <1>2, <1>5, <2>2, <3>2
    <3>3. Len(s) \in Nat
      BY <1>1
    <3> HIDE DEF s
    <3>4. i \in 1 .. Len(s) + 1
      BY <1>2, <2>2
    <3> QED
      BY <3>1, <3>2, <3>3, <3>4
  <2> QED
    BY <2>1, <2>2
<1> QED
  <2> HIDE DEF s
  <2>1. ASSUME m.op # "Shutdown", \A i \in 1 .. Len(s) : s[i].op # "Shutdown"
        PROVE  \A i \in 1 .. Len(W!send_actor_message(w, m)) :
                  W!send_actor_message(w, m)[i].op # "Shutdown"
    BY <1>3, <1>5, <2>1
  <2> QED
    BY <1>4, <2>1 DEF s

\* The messages that the broker queues.
LEMMA Messages ==
  /\ \A x \in WriteItems : /\ W!Send(x) \in W!ActorMessage /\ W!Send(x).op = "Send"
                          /\ W!Feed(x) \in W!ActorMessage /\ W!Feed(x).op = "Feed"
  /\ W!Flush \in W!ActorMessage /\ W!Flush.op = "Flush"
  /\ W!Shutdown \in W!ActorMessage /\ W!Shutdown.op = "Shutdown"
  BY DEF W!Send, W!Feed, W!Flush, W!Shutdown, W!ActorMessage

\* A step that only queues messages other than Shutdown preserves the invariant.
LEMMA InvQueue ==
  ASSUME ServerInv,
         UNCHANGED <<next_peer_uid, rState, rCtl, rHandle, rRx, wState, wReason, wHandle>>,
         DOMAIN peers' = DOMAIN peers, BrokerTypes',
         wMsgs' \in [AllWriters -> Seq(W!ActorMessage)],
         \A p \in DOMAIN peers : \A i \in 1 .. Len(wMsgs'[p]) : wMsgs'[p][i].op # "Shutdown"
  PROVE  ServerInv'
<1>1. ActorTypes'
  BY DEF ServerInv, ActorTypes
<1>2. Fresh'
  BY DEF ServerInv, Fresh, FreshUid
<1>3. Owned'
  BY DEF ServerInv, Owned, OwnedReader, OwnedWriter
<1> QED
  BY <1>1, <1>2, <1>3 DEF ServerInv

\* Queueing one message other than Shutdown with one write actor.
LEMMA InvSend ==
  ASSUME ServerInv, NEW w \in AllWriters, NEW m \in W!ActorMessage, m.op # "Shutdown",
         UNCHANGED <<next_peer_uid, rState, rCtl, rHandle, rRx, wState, wReason, wHandle>>,
         DOMAIN peers' = DOMAIN peers, BrokerTypes',
         wMsgs' = [wMsgs EXCEPT ![w] = W!send_actor_message(w, m)]
  PROVE  ServerInv'
<1>1. W!send_actor_message(w, m) \in Seq(W!ActorMessage)
  BY SendKeeps DEF ServerInv
<1>2. wMsgs \in [AllWriters -> Seq(W!ActorMessage)]
  BY DEF ServerInv, ActorTypes
<1>3. wMsgs' \in [AllWriters -> Seq(W!ActorMessage)]
  BY <1>1, <1>2, Zenon
<1>4. ASSUME NEW p \in DOMAIN peers
      PROVE  \A i \in 1 .. Len(wMsgs'[p]) : wMsgs'[p][i].op # "Shutdown"
  <2>1. p \in AllWriters /\ \A i \in 1 .. Len(wMsgs[p]) : wMsgs[p][i].op # "Shutdown"
    BY <1>4 DEF ServerInv, ActorTypes, Owned, OwnedWriter, AllWriters
  <2>2. CASE p = w
    BY <1>2, <2>1, <2>2, SendKeeps DEF ServerInv
  <2>3. CASE p # w
    BY <1>2, <2>1, <2>3
  <2> QED
    BY <2>2, <2>3
<1> QED
  BY <1>3, <1>4, InvQueue

\* drop_peer (src/src/server/actor.rs:407) tells only the actors of a peer that
\* it removes, whether or not the event can be emitted.
LEMMA InvDrop ==
  ASSUME ServerInv, NEW p \in PeerUids, NEW reason, drop_peer(p, reason),
         announce = NoAnnouncement,
         UNCHANGED <<announce, next_peer_uid, rState, rRx, wState, wReason>>
  PROVE  ServerInv'
<1>1. CASE p \notin DOMAIN peers
  <2>1. UNCHANGED invVars
    BY <1>1 DEF drop_peer, index, wLink, invVars
  <2> QED
    BY <2>1, InvStutter
<1>2. CASE p \in DOMAIN peers
  <2>1. /\ DOMAIN peers' = DOMAIN peers \ {p}
        /\ rCtl' = [rCtl EXCEPT ![p] = R!AfterSignal(p)]
        /\ rHandle' = [rHandle EXCEPT ![p] = FALSE]
        /\ wMsgs' = [wMsgs EXCEPT ![p] = W!send_actor_message(p, W!Shutdown)]
        /\ wHandle' = [wHandle EXCEPT ![p] = FALSE]
    BY <1>2, RemoveDomain DEF drop_peer, forget_peer, release_actors
  <2>2. p \in AllWriters /\ UdpWriter \notin PeerUids
    BY UdpWriterApart DEF AllWriters
  <2>3. ActorTypes'
    <3>1. R!AfterSignal(p) \in Nat
      BY DEF R!AfterSignal, ServerInv, ActorTypes
    <3>2. W!send_actor_message(p, W!Shutdown) \in Seq(W!ActorMessage)
      BY <2>2, SendKeeps, Messages DEF ServerInv
    <3>3. wMsgs' \in [AllWriters -> Seq(W!ActorMessage)]
      BY <2>1, <2>2, <3>2 DEF ServerInv, ActorTypes
    <3> QED
      BY <2>1, <2>2, <3>1, <3>3 DEF ServerInv, ActorTypes
  <2>4. Fresh'
    BY <1>2, <2>1 DEF ServerInv, ActorTypes, Fresh, FreshUid
  <2>5. Owned'
    <3>1. ASSUME NEW q \in DOMAIN peers' PROVE OwnedReader(q)' /\ OwnedWriter(q)'
      <4>1. q \in DOMAIN peers /\ q # p /\ q \in PeerUids /\ q \in AllWriters
        BY <2>1, <3>1 DEF ServerInv, ActorTypes, AllWriters
      <4>2. OwnedReader(q) /\ OwnedWriter(q)
        BY <4>1 DEF ServerInv, Owned
      <4>3. /\ rCtl'[q] = rCtl[q] /\ rHandle'[q] = rHandle[q]
            /\ wMsgs'[q] = wMsgs[q] /\ wHandle'[q] = wHandle[q]
        BY <2>1, <4>1 DEF ServerInv, ActorTypes
      <4> QED
        BY <4>2, <4>3 DEF OwnedReader, OwnedWriter
    <3> QED
      BY <3>1 DEF Owned
  <2>6. BrokerTypes'
    <3>1. peers' = Remove(peers, p)
      BY <1>2 DEF drop_peer, forget_peer
    <3>2. \A q \in DOMAIN peers' : q \in DOMAIN peers /\ peers'[q] = peers[q]
      BY <3>1 DEF Remove
    <3> QED
      BY <3>2 DEF ServerInv, BrokerTypes, NoAnnouncement
  <2> QED
    BY <2>3, <2>4, <2>5, <2>6 DEF ServerInv
<1> QED
  BY <1>1, <1>2

\* handle_new_tcp_connection (src/src/server/actor.rs:342): the new peer has a
\* uid that had no actors, gets both, and only the Welcome is queued.
LEMMA InvConnect ==
  ASSUME ServerInv, NEW a \in Addrs, NEW u \in Addrs, handle_new_tcp_connection(a, u)
  PROVE  ServerInv'
<1> SUFFICES ASSUME NEW CONSTANT p, p = next_peer_uid PROVE ServerInv'
  OBVIOUS
<1> DEFINE welcome == W!Send([msg |-> "Welcome", to |-> NoAddr])
<1>1. /\ p \in PeerUids
      /\ next_peer_uid' = next_peer_uid + 1
      /\ DOMAIN peers' = DOMAIN peers \cup {p}
      /\ rState' = [rState EXCEPT ![p] = "running"]
      /\ rHandle' = [rHandle EXCEPT ![p] = TRUE]
      /\ rRx' = [rRx EXCEPT ![p] = TRUE]
      /\ wState' = [wState EXCEPT ![p] = "running"]
      /\ wHandle' = [wHandle EXCEPT ![p] = TRUE]
      /\ wMsgs' = [wMsgs EXCEPT ![p] = <<welcome>>]
      /\ UNCHANGED <<rCtl, wReason>>
  BY InsertDomain DEF handle_new_tcp_connection, R!spawn_read_actor, W!spawn_write_actor
<1>2. p \in AllWriters
  BY <1>1 DEF AllWriters
<1>3. welcome \in W!ActorMessage /\ welcome.op = "Send"
  BY DEF W!Send, W!ActorMessage, WriteItems
<1>4. FreshUid(p)
  BY <1>1 DEF ServerInv, ActorTypes, Fresh
<1>5. ActorTypes'
  <2>1. <<welcome>> \in Seq(W!ActorMessage)
    BY <1>3
  <2>2. wMsgs' \in [AllWriters -> Seq(W!ActorMessage)]
    BY <1>1, <1>2, <2>1 DEF ServerInv, ActorTypes
  <2> QED
    BY <1>1, <1>2, <2>2 DEF ServerInv, ActorTypes, ReaderStates, WriterStates
<1>6. Fresh'
  <2>1. ASSUME NEW q \in PeerUids, q >= next_peer_uid + 1 PROVE FreshUid(q)'
    <3>1. q # p /\ q >= next_peer_uid /\ q \in AllWriters
      BY <2>1 DEF ServerInv, ActorTypes, PeerUids, AllWriters
    <3>2. FreshUid(q)
      BY <3>1 DEF ServerInv, Fresh
    <3> QED
      BY <1>1, <3>1, <3>2 DEF FreshUid, ServerInv, ActorTypes
  <2> QED
    BY <1>1, <2>1 DEF Fresh
<1>7. Owned'
  <2>1. OwnedReader(p)'
    BY <1>1, <1>4 DEF OwnedReader, FreshUid, ServerInv, ActorTypes
  <2>2. OwnedWriter(p)'
    <3>1. wMsgs'[p] = <<welcome>>
      BY <1>1, <1>2 DEF ServerInv, ActorTypes
    <3>2. \A i \in 1 .. Len(<<welcome>>) : <<welcome>>[i].op # "Shutdown"
      BY <1>3
    <3>3. wHandle'[p] /\ wState'[p] = "running" /\ wReason'[p] = "none"
      BY <1>1, <1>2, <1>4 DEF FreshUid, ServerInv, ActorTypes
    <3> QED
      BY <3>1, <3>2, <3>3 DEF OwnedWriter
  <2>3. ASSUME NEW q \in DOMAIN peers PROVE OwnedReader(q)' /\ OwnedWriter(q)'
    <3>1. q # p /\ q \in PeerUids /\ q \in AllWriters
      BY <1>4, <2>3 DEF FreshUid, ServerInv, ActorTypes, AllWriters
    <3>2. OwnedReader(q) /\ OwnedWriter(q)
      BY <2>3 DEF ServerInv, Owned
    <3>3. /\ rState'[q] = rState[q] /\ rHandle'[q] = rHandle[q] /\ rRx'[q] = rRx[q]
          /\ wState'[q] = wState[q] /\ wMsgs'[q] = wMsgs[q] /\ wHandle'[q] = wHandle[q]
      BY <1>1, <3>1 DEF ServerInv, ActorTypes
    <3> QED
      BY <1>1, <3>2, <3>3 DEF OwnedReader, OwnedWriter
  <2> QED
    BY <1>1, <2>1, <2>2, <2>3 DEF Owned
<1>8. BrokerTypes'
  <2> DEFINE peer == [tcp_socket_addr |-> a, udp_socket_addr |-> NoAddr, handshake_uuid |-> new_v4(p)]
  <2>1. peers' = Insert(peers, p, peer) /\ announce = NoAnnouncement /\ announce' = announce
    BY DEF handle_new_tcp_connection, Ready
  <2>2. peer \in Peer
    BY <1>1 DEF Peer
  <2>3. \A q \in DOMAIN peers' : peers'[q] \in Peer
    BY <2>1, <2>2 DEF Insert, ServerInv, BrokerTypes
  <2> QED
    BY <2>1, <2>3 DEF BrokerTypes, NoAnnouncement
<1> QED
  BY <1>5, <1>6, <1>7, <1>8 DEF ServerInv

\* A panic takes the peers with the handles.
LEMMA InvUnwind == ServerInv /\ Unwind => ServerInv'
<1> SUFFICES ASSUME ServerInv, Unwind PROVE ServerInv'
  OBVIOUS
<1>1. DOMAIN peers' = {}
  BY DEF Unwind, EmptyMap
<1>2. ActorTypes'
  BY <1>1 DEF ServerInv, ActorTypes, Unwind, drop_handles, rTask, wTask
<1>3. Fresh' /\ Owned' /\ BrokerTypes'
  BY <1>1 DEF ServerInv, Fresh, FreshUid, Owned, BrokerTypes, NoAnnouncement, Unwind, drop_handles, rTask, wTask
<1> QED
  BY <1>2, <1>3 DEF ServerInv

\* A reader changes its own state only; it stops for one of the asserted
\* reasons only when it was told to or lost its handle or its receiver
\* (src/src/actors/read_actor.rs:140-162).
LEMMA InvReader ==
  ASSUME ServerInv, NEW p \in PeerUids,
         UNCHANGED <<peers, announce, next_peer_uid, wState, wReason, wMsgs, wHandle>>,
         \/ \E x : R!ForwardItem(p, x)
         \/ R!ReceiveShutdown(p)
         \/ R!HandlesDropped(p)
         \/ R!EndOfStream(p)
         \/ R!ReaderPanics(p)
  PROVE  ServerInv'
<1>1. /\ rState[p] = "running"
      /\ UNCHANGED <<rHandle, rRx>>
      /\ \/ UNCHANGED rState
         \/ rState' = [rState EXCEPT ![p] = "EndOfStream"]
         \/ rState' = [rState EXCEPT ![p] = "Panic"]
         \/ rState' = [rState EXCEPT ![p] = "Signalled"] /\ rCtl[p] > 0
         \/ rState' = [rState EXCEPT ![p] = "ActorHandlesDropped"] /\ ~rHandle[p]
         \/ rState' = [rState EXCEPT ![p] = "ReceiverClosedChannel"] /\ ~rRx[p]
      /\ \/ UNCHANGED rCtl
         \/ rCtl' = [rCtl EXCEPT ![p] = @ - 1] /\ rCtl[p] > 0
  BY DEF R!ForwardItem, R!ReceiveShutdown, R!HandlesDropped, R!EndOfStream, R!ReaderPanics,
         R!Polling
<1>2. ActorTypes'
  <2>1. rState' \in [PeerUids -> ReaderStates]
    BY <1>1 DEF ServerInv, ActorTypes, ReaderStates, R!ReadOutcome, R!ReadActorShutdownReason
  <2>2. rCtl' \in [PeerUids -> Nat]
    <3>1. rCtl[p] \in Nat /\ rCtl \in [PeerUids -> Nat]
      BY DEF ServerInv, ActorTypes
    <3>2. CASE rCtl' = [rCtl EXCEPT ![p] = rCtl[p] - 1] /\ rCtl[p] > 0
      <4>1. rCtl[p] - 1 \in Nat
        BY <3>1, <3>2
      <4> QED
        BY <3>1, <3>2, <4>1, Zenon
    <3> QED
      BY <1>1, <3>1, <3>2
  <2> QED
    BY <1>1, <2>1, <2>2 DEF ServerInv, ActorTypes
<1>3. Fresh'
  BY <1>1 DEF ServerInv, ActorTypes, Fresh, FreshUid
<1>4. Owned'
  <2>1. ASSUME NEW q \in DOMAIN peers PROVE OwnedReader(q)' /\ OwnedWriter(q)'
    <3>1. q \in PeerUids /\ OwnedReader(q) /\ OwnedWriter(q)
      BY <2>1 DEF ServerInv, ActorTypes, Owned
    <3>2. OwnedReader(q)'
      BY <1>1, <3>1 DEF OwnedReader, ServerInv, ActorTypes
    <3> QED
      BY <3>1, <3>2 DEF OwnedWriter
  <2> QED
    BY <2>1 DEF Owned
<1>5. BrokerTypes'
  BY DEF ServerInv, BrokerTypes
<1> QED
  BY <1>2, <1>3, <1>4, <1>5 DEF ServerInv

\* A writer changes its own state only; it stops for one of the asserted
\* reasons only when it took a Shutdown or lost its handle
\* (src/src/actors/write_actor.rs:131-161).
LEMMA InvWriter ==
  ASSUME ServerInv, NEW w \in AllWriters,
         UNCHANGED <<peers, announce, next_peer_uid, rState, rCtl, rHandle, rRx>>,
         \/ W!TakeMessage(w)
         \/ W!TakeShutdown(w)
         \/ W!AllHandlesDropped(w)
         \/ \E n : W!SinkDone(w, n) \/ W!SinkFails(w, n) \/ W!CloseSink(w, n)
         \/ W!WriterPanics(w)
  PROVE  ServerInv'
<1> DEFINE Becomes(state, reason) ==
             /\ wState' = [wState EXCEPT ![w] = state]
             /\ wReason' = [wReason EXCEPT ![w] = reason]
<1>1. /\ wState[w] \in {"running", "closing"}
      /\ UNCHANGED wHandle
      /\ \/ UNCHANGED <<wState, wReason>>
         \/ Becomes("closing", "Signalled") /\ wMsgs[w] # <<>> /\ Head(wMsgs[w]) = W!Shutdown
         \/ Becomes("closing", "ActorHandlesDropped") /\ ~wHandle[w]
         \/ Becomes("closing", "SinkError")
         \/ wState' = [wState EXCEPT ![w] = wReason[w]] /\ UNCHANGED wReason
         \/ wState' = [wState EXCEPT ![w] = "Panic"] /\ UNCHANGED wReason
      /\ \/ UNCHANGED wMsgs
         \/ wMsgs' = [wMsgs EXCEPT ![w] = Tail(@)] /\ wMsgs[w] # <<>>
         \/ wMsgs' = [wMsgs EXCEPT ![w] = <<>>]
  BY DEF W!TakeMessage, W!TakeShutdown, W!AllHandlesDropped, W!SinkDone, W!SinkFails,
         W!CloseSink, W!WriterPanics, W!BeginClose, W!Idle
<1>2. wMsgs \in [AllWriters -> Seq(W!ActorMessage)] /\ wMsgs[w] \in Seq(W!ActorMessage)
  BY DEF ServerInv, ActorTypes
<1>3. ActorTypes'
  <2>1. wState' \in [AllWriters -> WriterStates] /\ wReason' \in [AllWriters -> WriterStates]
    BY <1>1 DEF ServerInv, ActorTypes, WriterStates, W!WriteOutcome, W!WriteActorShutdownReason
  <2>2. wMsgs' \in [AllWriters -> Seq(W!ActorMessage)]
    <3>1. <<>> \in Seq(W!ActorMessage)
      OBVIOUS
    <3>2. wMsgs[w] # <<>> => Tail(wMsgs[w]) \in Seq(W!ActorMessage)
      BY <1>2
    <3> QED
      BY <1>1, <1>2, <3>1, <3>2
  <2> QED
    BY <1>1, <2>1, <2>2 DEF ServerInv, ActorTypes
<1>4. Fresh'
  <2>1. ASSUME NEW q \in PeerUids, q >= next_peer_uid PROVE FreshUid(q)'
    <3>1. FreshUid(q) /\ q \in AllWriters
      BY <2>1 DEF ServerInv, Fresh, AllWriters
    <3>2. q # w
      BY <1>1, <3>1 DEF FreshUid
    <3>3. wState'[q] = wState[q] /\ wReason'[q] = wReason[q]
      BY <1>1, <3>1, <3>2 DEF ServerInv, ActorTypes
    <3> QED
      BY <3>1, <3>3 DEF FreshUid
  <2> QED
    BY <2>1 DEF Fresh
<1>5. Owned'
  <2>1. ASSUME NEW q \in DOMAIN peers PROVE OwnedReader(q)' /\ OwnedWriter(q)'
    <3>1. q \in AllWriters /\ OwnedReader(q) /\ OwnedWriter(q)
      BY <2>1 DEF ServerInv, ActorTypes, Owned, AllWriters
    <3>2. \A i \in 1 .. Len(wMsgs'[q]) : wMsgs'[q][i].op # "Shutdown"
      <4>1. CASE q = w
        <5>1. \A i \in 1 .. Len(wMsgs[w]) : wMsgs[w][i].op # "Shutdown"
          BY <3>1, <4>1 DEF OwnedWriter
        <5>2. wMsgs[w] # <<>> =>
                 \A i \in 1 .. Len(Tail(wMsgs[w])) : Tail(wMsgs[w])[i].op # "Shutdown"
          BY <1>2, <5>1
        <5>3. \/ wMsgs'[w] = wMsgs[w]
              \/ wMsgs'[w] = Tail(wMsgs[w]) /\ wMsgs[w] # <<>>
              \/ wMsgs'[w] = <<>>
          BY <1>1, <1>2
        <5>4. CASE wMsgs'[w] = <<>>
          BY <4>1, <5>4
        <5>5. CASE wMsgs'[w] # <<>>
          BY <4>1, <5>1, <5>2, <5>3, <5>5, Zenon
        <5> QED
          BY <5>4, <5>5
      <4>2. CASE q # w
        <5>1. wMsgs'[q] = wMsgs[q]
          BY <1>1, <1>2, <3>1, <4>2
        <5> QED
          BY <3>1, <5>1 DEF OwnedWriter
      <4> QED
        BY <4>1, <4>2
    <3>3. /\ wReason'[q] \notin {"Signalled", "ActorHandlesDropped"}
          /\ wState'[q] \notin {"Signalled", "ActorHandlesDropped"}
      <4>1. CASE q = w
        <5>1. ~(wMsgs[w] # <<>> /\ Head(wMsgs[w]) = W!Shutdown)
          BY <1>2, <3>1, <4>1, Messages DEF OwnedWriter
        <5>2. wHandle[w]
          BY <3>1, <4>1 DEF OwnedWriter
        <5> QED
          BY <1>1, <3>1, <4>1, <5>1, <5>2 DEF OwnedWriter, ServerInv, ActorTypes
      <4>2. CASE q # w
        BY <1>1, <3>1, <4>2 DEF OwnedWriter, ServerInv, ActorTypes
      <4> QED
        BY <4>1, <4>2
    <3> QED
      BY <1>1, <3>1, <3>2, <3>3 DEF OwnedReader, OwnedWriter
  <2> QED
    BY <2>1 DEF Owned
<1>6. BrokerTypes'
  BY DEF ServerInv, BrokerTypes
<1> QED
  BY <1>3, <1>4, <1>5, <1>6 DEF ServerInv

-----------------------------------------------------------------------------
(* The steps of the server.                                                *)

\* When the server starts there are no peers.
LEMMA InvInit == Init => ServerInv
<1> SUFFICES ASSUME Init PROVE ServerInv
  OBVIOUS
<1>1. DOMAIN peers = {}
  BY DEF Init, EmptyMap
<1>2. ActorTypes
  BY <1>1 DEF Init, R!ReaderInit, ActorTypes, AllWriters, ReaderStates, WriterStates
<1>3. Fresh
  BY <1>1, UdpWriterApart DEF Init, R!ReaderInit, Fresh, FreshUid
<1>4. BrokerTypes
  BY <1>1 DEF Init, BrokerTypes, NoAnnouncement
<1> QED
  BY <1>1, <1>2, <1>3, <1>4 DEF ServerInv, Owned

\* The arms of the main loop that serve one peer.
LEMMA InvBroker == ASSUME ServerInv, NEW p \in PeerUids, Broker(p) PROVE ServerInv'
<1> USE DEF index, app, net, rTask, rLink, wTask, wLink
<1>1. CASE handle_tcp_reader_stream_item(p)
  BY <1>1, InvStutter DEF handle_tcp_reader_stream_item, invVars
<1>2. CASE TcpReaderError(p)
  BY <1>2, InvDrop DEF TcpReaderError, TakeItem, Ready
<1>3. CASE TcpReaderEnd(p)
  <2>1. /\ UNCHANGED <<announce, next_peer_uid, rState, rRx, wState, wReason>>
        /\ announce = NoAnnouncement
    BY <1>3 DEF TcpReaderEnd, Ready
  <2>2. CASE drop_peer(p, "PeerClosedConnection")
    BY <2>1, <2>2, InvDrop
  <2>3. CASE UNCHANGED <<peers, rCtl, rHandle, wMsgs, wHandle>>
    BY <2>1, <2>3, InvStutter DEF invVars
  <2>4. R!ReaderFinished(p)
    BY <1>3 DEF TcpReaderEnd, ReaderStreamOver
  <2> QED
    BY <1>3, <2>2, <2>3, <2>4
    DEF TcpReaderEnd, ReaderStreamOver, reader_shutdown, R!ReaderFinished, R!ReadOutcome, R!ReadActorShutdownReason
<1>4. CASE TcpWriterEnd(p)
  <2>1. /\ UNCHANGED <<announce, next_peer_uid, rState, rRx, wState, wReason>>
        /\ announce = NoAnnouncement
    BY <1>4 DEF TcpWriterEnd, Ready
  <2>2. CASE drop_peer(p, "PeerClosedConnection")
    BY <2>1, <2>2, InvDrop
  <2>3. CASE UNCHANGED <<peers, rCtl, rHandle, wMsgs, wHandle>>
    BY <2>1, <2>3, InvStutter DEF invVars
  <2>4. W!WriterFinished(p)
    BY <1>4 DEF TcpWriterEnd
  <2> QED
    BY <1>4, <2>2, <2>3, <2>4
    DEF TcpWriterEnd, writer_shutdown, W!WriterFinished, W!WriteOutcome, W!WriteActorShutdownReason
<1>5. CASE AnnounceFeed(p)
  <2> DEFINE x == [msg |-> announce.msg, to |-> peers[p].tcp_socket_addr]
  <2>1. wMsgs' = [wMsgs EXCEPT ![UdpWriter] = W!send_actor_message(UdpWriter, W!Feed(x))]
    BY <1>5 DEF AnnounceFeed
  <2>2. UNCHANGED <<peers, next_peer_uid, rState, rCtl, rHandle, rRx, wState, wReason, wHandle>>
    BY <1>5 DEF AnnounceFeed, AnnounceUnchanged
  <2>3. x \in WriteItems
    BY <1>5 DEF AnnounceFeed, ServerInv, BrokerTypes, WriteItems, Peer
  <2>4. W!Feed(x) \in W!ActorMessage /\ W!Feed(x).op # "Shutdown"
    BY <2>3, Messages
  <2>5. /\ announce' \in [msg : {"none", "Heartbeat", "ApplicationLogic"}, left : SUBSET DOMAIN peers]
        /\ announce'.msg = announce.msg /\ announce'.left \subseteq announce.left
    BY <1>5 DEF AnnounceFeed, ServerInv, BrokerTypes
  <2>6. BrokerTypes'
    BY <2>2, <2>5 DEF ServerInv, BrokerTypes
  <2>7. UdpWriter \in AllWriters
    BY DEF AllWriters
  <2> QED
    BY <2>1, <2>2, <2>4, <2>6, <2>7, InvSend
<1> QED
  BY <1>1, <1>2, <1>3, <1>4, <1>5 DEF Broker

\* A message of a client on UDP, or one that cannot be decoded.
LEMMA InvDatagram ==
  ASSUME ServerInv, NEW a \in Addrs, UdpApplicationLogic(a) \/ UdpUndecodable(a)
  PROVE  ServerInv'
<1> USE DEF index, app, net, rTask, rLink, wTask, wLink
<1>1. CASE UdpApplicationLogic(a)
  BY <1>1, InvStutter DEF UdpApplicationLogic, UdpUnchanged, invVars
<1>2. CASE UdpUndecodable(a)
  <2> DEFINE p == peer_udp_socket_addr_to_peer_uid[a]
  <2>1. CASE p \in DOMAIN peers
    BY <1>2, <2>1, InvDrop DEF UdpUndecodable, UdpUnchanged, Ready, ServerInv, ActorTypes
  <2>2. CASE p \notin DOMAIN peers
    BY <1>2, <2>2, InvStutter DEF UdpUndecodable, UdpUnchanged, drop_peer, invVars
  <2> QED
    BY <2>1, <2>2
<1> QED
  BY <1>1, <1>2

\* The Hello of a client.
LEMMA InvHello == ASSUME ServerInv, NEW a \in Addrs, NEW q \in PeerUids, UdpHello(q, a) PROVE ServerInv'
<1> USE DEF index, app, net, rTask, rLink, wTask, wLink
<1> DEFINE p == peer_handshake_uuid_to_peer_uid[new_v4(q)]
           ack == W!Send([msg |-> "UdpHandshakeAcknowledged", to |-> NoAddr])
           welcome == W!Send([msg |-> "Welcome", to |-> a])
<1>1. /\ p \in DOMAIN peers
      /\ announce = NoAnnouncement /\ announce' = announce
      /\ peers' = [peers EXCEPT ![p].udp_socket_addr = a]
      /\ wMsgs' = [wMsgs EXCEPT ![p] = W!send_actor_message(p, ack),
                                ![UdpWriter] = W!send_actor_message(UdpWriter, welcome)]
      /\ UNCHANGED <<next_peer_uid, rState, rCtl, rHandle, rRx, wState, wReason, wHandle>>
  BY DEF UdpHello, record_udp_addr, UdpUnchanged, Ready
<1>2. p \in PeerUids /\ p \in AllWriters /\ UdpWriter \in AllWriters /\ p # UdpWriter
  BY <1>1, UdpWriterApart DEF ServerInv, ActorTypes, AllWriters
<1>3. /\ ack \in W!ActorMessage /\ ack.op # "Shutdown"
      /\ welcome \in W!ActorMessage /\ welcome.op # "Shutdown"
  BY DEF W!Send, W!ActorMessage, WriteItems
<1>4. /\ W!send_actor_message(p, ack) \in Seq(W!ActorMessage)
      /\ W!send_actor_message(UdpWriter, welcome) \in Seq(W!ActorMessage)
  BY <1>2, <1>3, SendKeeps DEF ServerInv
<1>5. wMsgs' \in [AllWriters -> Seq(W!ActorMessage)]
  BY <1>1, <1>2, <1>4 DEF ServerInv, ActorTypes
<1>6. ASSUME NEW r \in DOMAIN peers
      PROVE  \A i \in 1 .. Len(wMsgs'[r]) : wMsgs'[r][i].op # "Shutdown"
  <2>1. /\ r \in AllWriters /\ r # UdpWriter
        /\ \A i \in 1 .. Len(wMsgs[r]) : wMsgs[r][i].op # "Shutdown"
    BY <1>6, UdpWriterApart DEF ServerInv, ActorTypes, Owned, OwnedWriter, AllWriters
  <2>2. CASE r = p
    <3>1. wMsgs'[r] = W!send_actor_message(p, ack)
      BY <1>1, <1>2, <2>2 DEF ServerInv, ActorTypes
    <3> QED
      BY <1>2, <1>3, <2>1, <2>2, <3>1, SendKeeps DEF ServerInv
  <2>3. CASE r # p
    <3>1. wMsgs'[r] = wMsgs[r]
      BY <1>1, <2>1, <2>3 DEF ServerInv, ActorTypes
    <3> QED
      BY <2>1, <3>1
  <2> QED
    BY <2>2, <2>3
<1>7. DOMAIN peers' = DOMAIN peers /\ BrokerTypes'
  BY <1>1 DEF ServerInv, BrokerTypes, NoAnnouncement, Peer
<1> QED
  BY <1>1, <1>5, <1>6, <1>7, InvQueue

\* The messages of the application, the heartbeat and the flush after it.
LEMMA InvMessage ==
  ASSUME ServerInv, handle_actor_message \/ UdpHeartbeat \/ AnnounceFlush
  PROVE  ServerInv'
<1> USE DEF index, app, net, rTask, rLink, wTask, wLink
<1>1. CASE ToPeerTcp
  <2> SUFFICES ASSUME NEW CONSTANT p, p = Head(msg_receiver).peer_uid PROVE ServerInv'
    OBVIOUS
  <2> DEFINE m == W!Send([msg |-> "ApplicationLogic", to |-> NoAddr])
  <2>1. m \in W!ActorMessage /\ m.op # "Shutdown"
    BY DEF W!Send, W!ActorMessage, WriteItems
  <2>2. UNCHANGED <<peers, announce, next_peer_uid, rState, rCtl, rHandle, rRx, wState, wReason, wHandle>>
    BY <1>1 DEF ToPeerTcp, TakeMessage
  <2>3. CASE p \in DOMAIN peers
    <3>1. wMsgs' = [wMsgs EXCEPT ![p] = W!send_actor_message(p, m)] /\ p \in AllWriters
      BY <1>1, <2>3 DEF ToPeerTcp, ServerInv, ActorTypes, AllWriters
    <3>2. BrokerTypes'
      BY <2>2 DEF ServerInv, BrokerTypes
    <3> QED
      BY <2>1, <2>2, <3>1, <3>2, InvSend
  <2>4. CASE p \notin DOMAIN peers
    BY <1>1, <2>2, <2>4, InvStutter DEF ToPeerTcp, invVars
  <2> QED
    BY <2>3, <2>4
<1>2. CASE ToPeerUdp
  <2> SUFFICES ASSUME NEW CONSTANT p, p = Head(msg_receiver).peer_uid PROVE ServerInv'
    OBVIOUS
  <2> DEFINE m == W!Send([msg |-> "ApplicationLogic", to |-> peers[p].udp_socket_addr])
  <2>1. UNCHANGED <<peers, announce, next_peer_uid, rState, rCtl, rHandle, rRx, wState, wReason, wHandle>>
    BY <1>2 DEF ToPeerUdp, TakeMessage
  <2>2. CASE p \in DOMAIN peers /\ peers[p].udp_socket_addr # NoAddr
    <3>1. [msg |-> "ApplicationLogic", to |-> peers[p].udp_socket_addr] \in WriteItems
      BY <2>2 DEF ServerInv, BrokerTypes, WriteItems, Peer
    <3>2. m \in W!ActorMessage /\ m.op # "Shutdown"
      BY <3>1, Messages
    <3>3. wMsgs' = [wMsgs EXCEPT ![UdpWriter] = W!send_actor_message(UdpWriter, m)]
      BY <1>2, <2>2 DEF ToPeerUdp
    <3>4. BrokerTypes' /\ UdpWriter \in AllWriters
      BY <2>1 DEF ServerInv, BrokerTypes, AllWriters
    <3> QED
      BY <2>1, <3>2, <3>3, <3>4, InvSend
  <2>3. CASE ~(p \in DOMAIN peers /\ peers[p].udp_socket_addr # NoAddr)
    BY <1>2, <2>1, <2>3, InvStutter DEF ToPeerUdp, invVars
  <2> QED
    BY <2>2, <2>3
<1>3. CASE announce_tcp
  <2> DEFINE m == W!Send([msg |-> "ApplicationLogic", to |-> NoAddr])
  <2>1. m \in W!ActorMessage /\ m.op # "Shutdown"
    BY DEF W!Send, W!ActorMessage, WriteItems
  <2>2. UNCHANGED <<peers, announce, next_peer_uid, rState, rCtl, rHandle, rRx, wState, wReason, wHandle>>
    BY <1>3 DEF announce_tcp, TakeMessage
  <2>3. wMsgs' = [w \in AllWriters |->
                    IF w \in DOMAIN peers THEN W!send_actor_message(w, m) ELSE wMsgs[w]]
    BY <1>3 DEF announce_tcp, ServerInv, ActorTypes
  <2>4. \A w \in AllWriters : W!send_actor_message(w, m) \in Seq(W!ActorMessage)
    BY <2>1, SendKeeps DEF ServerInv
  <2>5. wMsgs' \in [AllWriters -> Seq(W!ActorMessage)]
    BY <2>3, <2>4 DEF ServerInv, ActorTypes
  <2>6. ASSUME NEW r \in DOMAIN peers
        PROVE  \A i \in 1 .. Len(wMsgs'[r]) : wMsgs'[r][i].op # "Shutdown"
    <3>1. r \in AllWriters /\ \A i \in 1 .. Len(wMsgs[r]) : wMsgs[r][i].op # "Shutdown"
      BY <2>6 DEF ServerInv, ActorTypes, Owned, OwnedWriter, AllWriters
    <3>2. wMsgs'[r] = W!send_actor_message(r, m)
      BY <2>3, <2>6, <3>1
    <3> QED
      BY <2>1, <3>1, <3>2, SendKeeps DEF ServerInv
  <2>7. BrokerTypes'
    BY <2>2 DEF ServerInv, BrokerTypes
  <2> QED
    BY <2>2, <2>5, <2>6, <2>7, InvQueue
<1>4. CASE AnnounceUdp \/ UdpHeartbeat
  <2>1. UNCHANGED <<peers, next_peer_uid, rState, rCtl, rHandle, rRx, wState, wReason, wMsgs, wHandle>>
    BY <1>4 DEF AnnounceUdp, UdpHeartbeat, TakeMessage, AnnounceUnchanged
  <2>2. announce' \in [msg : {"Heartbeat", "ApplicationLogic"}, left : SUBSET DOMAIN peers]
    BY <1>4 DEF AnnounceUdp, UdpHeartbeat, begin_announce_udp
  <2>3. BrokerTypes'
    BY <2>1, <2>2 DEF ServerInv, BrokerTypes
  <2>4. \A p \in DOMAIN peers : \A i \in 1 .. Len(wMsgs'[p]) : wMsgs'[p][i].op # "Shutdown"
    BY <2>1 DEF ServerInv, Owned, OwnedWriter
  <2>5. wMsgs' \in [AllWriters -> Seq(W!ActorMessage)]
    BY <2>1 DEF ServerInv, ActorTypes
  <2> QED
    BY <2>1, <2>3, <2>4, <2>5, InvQueue
<1>5. CASE GetNumberOfConnectedPeers
  BY <1>5, InvStutter DEF GetNumberOfConnectedPeers, TakeMessage, invVars
<1>6. CASE AnnounceFlush
  <2>1. /\ wMsgs' = [wMsgs EXCEPT ![UdpWriter] = W!send_actor_message(UdpWriter, W!Flush)]
        /\ UNCHANGED <<peers, next_peer_uid, rState, rCtl, rHandle, rRx, wState, wReason, wHandle>>
        /\ announce' = NoAnnouncement
    BY <1>6 DEF AnnounceFlush, AnnounceUnchanged
  <2>2. BrokerTypes' /\ UdpWriter \in AllWriters
    BY <2>1 DEF ServerInv, BrokerTypes, NoAnnouncement, AllWriters
  <2> QED
    BY <2>1, <2>2, Messages, InvSend
<1> QED
  BY <1>1, <1>2, <1>3, <1>4, <1>5, <1>6 DEF handle_actor_message

\* The tasks of the actors.
LEMMA InvTasks ==
  ASSUME ServerInv,
         \/ \E p \in PeerUids :
               \/ ReadsMessage(p) \/ ReadsUndecodable(p) \/ ReadFails(p)
               \/ ReaderRuns(p) \/ ReaderPanics(p) \/ PeerCloses(p)
         \/ \E w \in PeerUids \cup {UdpWriter} : WriterRuns(w) \/ WriterPanics(w) \/ WriterSteps(w)
  PROVE  ServerInv'
<1> USE DEF index, rTask, rLink, wTask, wLink, BrokerUnchanged
<1>1. ASSUME NEW p \in PeerUids, NEW kind, NEW n, Reads(p, kind, n) PROVE ServerInv'
  BY <1>1, InvReader DEF Reads
<1>2. ASSUME NEW p \in PeerUids, ReaderRuns(p) \/ ReaderPanics(p) PROVE ServerInv'
  BY <1>2, InvReader DEF ReaderRuns, ReaderPanics, ReaderUnchanged, R!ReaderProgress
<1>3. ASSUME NEW p \in PeerUids, PeerCloses(p) PROVE ServerInv'
  BY <1>3, InvStutter DEF PeerCloses, ReaderUnchanged, R!PeerCloses, invVars
<1>4. ASSUME NEW w \in AllWriters, WriterRuns(w) \/ WriterPanics(w) PROVE ServerInv'
  BY <1>4, InvWriter DEF WriterRuns, WriterPanics, WriterUnchanged, W!WriterProgress
<1>5. ASSUME NEW w \in AllWriters, WriterSteps(w) PROVE ServerInv'
  <2>1. /\ \E n : W!SinkDone(w, n) \/ W!SinkFails(w, n) \/ W!CloseSink(w, n)
        /\ UNCHANGED <<peers, announce, next_peer_uid, rState, rCtl, rHandle, rRx>>
    BY <1>5 DEF WriterSteps, SinkDone, SinkFails, CloseSink, WriterUnchanged
  <2> QED
    BY <2>1, InvWriter
<1> QED
  BY <1>1, <1>2, <1>3, <1>4, <1>5 DEF ReadsMessage, ReadsUndecodable, ReadFails, AllWriters

\* Every step of the server preserves the invariant.
LEMMA InvStep == ServerInv /\ [Next]_vars => ServerInv'
<1> SUFFICES ASSUME ServerInv, [Next]_vars PROVE ServerInv'
  OBVIOUS
<1> USE DEF index, app, net, rTask, rLink, wTask, wLink
<1>1. CASE UNCHANGED vars
  BY <1>1, InvStutter DEF vars, invVars
<1>2. ASSUME NEW a \in Addrs, NEW u \in Addrs, handle_new_tcp_connection(a, u) PROVE ServerInv'
  BY <1>2, InvConnect
<1>3. CASE PeerAddrFails
  BY <1>3, InvStutter DEF PeerAddrFails, invVars
<1>4. ASSUME NEW p \in PeerUids, Broker(p) PROVE ServerInv'
  BY <1>4, InvBroker
<1>5. ASSUME NEW p \in PeerUids, NEW a \in Addrs, UdpHello(p, a) PROVE ServerInv'
  BY <1>5, InvHello
<1>6. ASSUME NEW a \in Addrs, UdpApplicationLogic(a) \/ UdpUndecodable(a) PROVE ServerInv'
  BY <1>6, InvDatagram
<1>7. CASE UdpActorEnds
  BY <1>7, InvStutter DEF UdpActorEnds, UdpUnchanged, invVars
<1>8. CASE UdpHeartbeat \/ AnnounceFlush \/ handle_actor_message
  BY <1>8, InvMessage
<1>9. CASE ActorMessagesEnd
  BY <1>9, InvStutter DEF ActorMessagesEnd, invVars
<1>10. CASE Unwind
  BY <1>10, InvUnwind
<1>11. ASSUME NEW p \in PeerUids,
              \/ ReadsMessage(p) \/ ReadsUndecodable(p) \/ ReadFails(p)
              \/ ReaderRuns(p) \/ ReaderPanics(p) \/ PeerCloses(p)
       PROVE  ServerInv'
  BY <1>11, InvTasks
<1>12. ASSUME NEW w \in PeerUids \cup {UdpWriter}, WriterRuns(w) \/ WriterPanics(w) \/ WriterSteps(w)
       PROVE  ServerInv'
  BY <1>12, InvTasks
<1>13. ASSUME NEW m \in Message, Call(m) PROVE ServerInv'
  BY <1>13, InvStutter DEF Call, AppUnchanged, invVars
<1>14. CASE DropHandle \/ DropEvents
  BY <1>14, InvStutter DEF DropHandle, DropEvents, AppUnchanged, invVars
<1> QED
  BY <1>1, <1>2, <1>3, <1>4, <1>5, <1>6, <1>7, <1>8, <1>9, <1>10, <1>11, <1>12, <1>13, <1>14
  DEF Next

\* The invariant holds of every behaviour of the server.
THEOREM ServerInvariant == Spec => []ServerInv
  BY InvInit, InvStep, PTL DEF Spec

\* No assertion of the broker on the shutdown reason of an actor
\* (src/src/server/actor.rs:204, 211, 223, 231) can fail, however many peers
\* there are, whatever the sizes of the channels and in all circumstances.
THEOREM ServerShutdownAssertsHold == Spec => []ShutdownAssertsHold
<1>1. ServerInv => ShutdownAssertsHold
  BY DEF ServerInv, Owned, OwnedReader, OwnedWriter, ShutdownAssertsHold, Connected
<1> QED
  BY <1>1, ServerInvariant, PTL
=============================================================================
