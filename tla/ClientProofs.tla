---------------------------- MODULE ClientProofs ---------------------------
(***************************************************************************)
(* What the client promises its application, for any number of clients,    *)
(* any buffers and any number of faults: CanReceiveUdpMessages comes once  *)
(* and first, a caller of get_status is let down only by a failure, every  *)
(* channel keeps its bound, and what is read from a socket is reported, in *)
(* order and completely.  AppInv says what the application has seen and    *)
(* may still see; LoopTypes, ReaderTypes and WriterTypes bound the         *)
(* channels; PathInv follows an item from the socket to its event.         *)
(***************************************************************************)
EXTENDS ClientAlone, TLAPS

\* The types that the argument is about.
AppTypes ==
    /\ client \in [Clients -> {"unspawned", "running", "left", "panicked"}]
    /\ has_received_on_udp \in [Clients -> BOOLEAN]
    /\ item \in [Clients -> Seq(ReadItems)]
    /\ handle \in [Clients -> BOOLEAN]
    /\ event_receiver \in [Clients -> BOOLEAN]
    /\ events \in [Clients -> Seq(Event)]
    /\ status \in [Clients -> {"idle", "waiting", "cancelled"}]
    /\ rTx \in [Sockets -> Seq(ReadItems)]
    /\ reads \in [Sockets -> Seq(BOOLEAN)]

\* A caller that waits for its status holds the handle.
CallerHolds(c) ==
    /\ status[c] = "waiting" => handle[c]
    /\ client[c] = "unspawned" => status[c] = "idle"
    /\ status[c] = "cancelled" => client[c] = "panicked" \/ ~event_receiver[c]

OfUdp == {"CanReceiveUdpMessages", "UdpMessage"}

\* Nothing about UDP is reported before the first datagram was taken.
Unheard(c) ==
    ~has_received_on_udp[c] =>
        /\ item[c] = <<>>
        /\ \A i \in 1 .. Len(events[c]) : events[c][i].ev \notin OfUdp

Told(s) == \E i \in 1 .. Len(s) : s[i] = CanReceiveUdpMessages

\* From the first datagram on the application knows, if it listens.
Announced(c) ==
    /\ client[c] = "unspawned" => ~has_received_on_udp[c]
    /\ has_received_on_udp[c] /\ event_receiver[c] => Told(events[c])

First(s) ==
    \A i \in 1 .. Len(s) :
        /\ s[i].ev = "UdpMessage" => \E j \in 1 .. i - 1 : s[j] = CanReceiveUdpMessages
        /\ s[i] = CanReceiveUdpMessages => \A j \in 1 .. i - 1 : s[j] # CanReceiveUdpMessages

\* What the application of one client can rely on.
AppHolds(c) == CallerHolds(c) /\ Unheard(c) /\ Announced(c) /\ First(events[c])

AppInv == AppTypes /\ \A c \in Clients : AppHolds(c)

appVars == <<client, has_received_on_udp, item, handle, event_receiver, events, status, rTx, reads>>


-----------------------------------------------------------------------------
(* Facts about the sequence of events.                                     *)

\* The four kinds of events that the client sends (src/src/client/event.rs).
LEMMA EventKinds ==
    /\ CanSendUdpMessages \in Event /\ CanSendUdpMessages.ev = "CanSendUdpMessages"
    /\ CanReceiveUdpMessages \in Event /\ CanReceiveUdpMessages.ev = "CanReceiveUdpMessages"
    /\ \A n \in Nat : TcpMessage(n) \in Event /\ TcpMessage(n).ev = "TcpMessage"
    /\ \A n \in Nat : UdpMessage(n) \in Event /\ UdpMessage(n).ev = "UdpMessage"
BY DEF Event, CanSendUdpMessages, CanReceiveUdpMessages, TcpMessage, UdpMessage

\* Another event keeps CanReceiveUdpMessages the first about UDP, unless it is
\* a second one or an early message (src/src/client/actor.rs:180).
LEMMA FirstAppend ==
    ASSUME NEW s \in Seq(Event), NEW e \in Event, First(s),
           e.ev = "CanReceiveUdpMessages" => \A i \in 1 .. Len(s) : s[i].ev \notin OfUdp,
           e.ev = "UdpMessage" => Told(s)
    PROVE  First(Append(s, e))
<1>1. /\ Len(Append(s, e)) = Len(s) + 1 /\ Len(s) \in Nat
      /\ Append(s, e)[Len(s) + 1] = e
      /\ \A i \in 1 .. Len(s) : Append(s, e)[i] = s[i]
  OBVIOUS
<1>2. ASSUME NEW i \in 1 .. Len(s) + 1
      PROVE  /\ Append(s, e)[i].ev = "UdpMessage" =>
                   \E j \in 1 .. i - 1 : Append(s, e)[j] = CanReceiveUdpMessages
             /\ Append(s, e)[i] = CanReceiveUdpMessages =>
                   \A j \in 1 .. i - 1 : Append(s, e)[j] # CanReceiveUdpMessages
  <2>1. \A j \in 1 .. i - 1 : j \in 1 .. Len(s) /\ Append(s, e)[j] = s[j]
    BY <1>1
  <2>2. CASE i = Len(s) + 1
    <3>1. Append(s, e)[i] = e /\ 1 .. i - 1 = 1 .. Len(s)
      BY <1>1, <2>2
    <3> QED
      BY <2>1, <3>1, EventKinds DEF Told, OfUdp
  <2>3. CASE i # Len(s) + 1
    <3>1. i \in 1 .. Len(s) /\ Append(s, e)[i] = s[i]
      BY <1>1, <2>3
    <3> QED
      BY <2>1, <3>1 DEF First
  <2> QED
    BY <2>2, <2>3
<1> QED
  BY <1>1, <1>2 DEF First

\* What the application was told, it stays told.
LEMMA ToldAppend ==
    ASSUME NEW s \in Seq(Event), NEW e \in Event, Told(s) \/ e = CanReceiveUdpMessages
    PROVE  Told(Append(s, e))
<1>1. /\ Len(Append(s, e)) = Len(s) + 1 /\ Len(s) \in Nat
      /\ Append(s, e)[Len(s) + 1] = e
      /\ \A i \in 1 .. Len(s) : Append(s, e)[i] = s[i]
  OBVIOUS
<1> QED
  BY <1>1 DEF Told

\* An event that is not about UDP leaves the application as unheard as it was.
LEMMA UnheardAppend ==
    ASSUME NEW s \in Seq(Event), NEW e \in Event, e.ev \notin OfUdp,
           \A i \in 1 .. Len(s) : s[i].ev \notin OfUdp
    PROVE  \A i \in 1 .. Len(Append(s, e)) : Append(s, e)[i].ev \notin OfUdp
<1> TAKE i \in 1 .. Len(Append(s, e))
<1>1. CASE i = Len(s) + 1
  BY <1>1
<1>2. CASE i # Len(s) + 1
  <2>1. i \in 1 .. Len(s) /\ Append(s, e)[i] = s[i]
    BY <1>2
  <2> QED
    BY <2>1
<1> QED
  BY <1>1, <1>2

-----------------------------------------------------------------------------
(* One lemma per kind of step.                                             *)

\* Steps that touch nothing of the argument: the write actors', and those of a
\* read actor that forward nothing (src/src/actors/write_actor.rs).
LEMMA AppStutter == ASSUME AppInv, UNCHANGED appVars PROVE AppInv'
BY DEF AppInv, AppTypes, AppHolds, CallerHolds, Unheard, Announced, appVars

\* Before the first step nothing is reported and nobody waits.
LEMMA AppInit == Init => AppInv
<1> SUFFICES ASSUME Init PROVE AppInv
  OBVIOUS
<1>1. AppTypes
  BY DEF Init, ClientInit, AppTypes, R!ReaderInit, Sockets
<1>2. ASSUME NEW c \in Clients PROVE AppHolds(c)
  BY <1>2 DEF Init, ClientInit, AppHolds, CallerHolds, Unheard, Announced, First
<1> QED
  BY <1>1, <1>2 DEF AppInv

\* The end of the loop, by break or by panic, lets down a caller of get_status:
\* it is the panic, or the receiver that is gone (src/src/client/actor.rs:141,
\* :168, :201 and :213).
LEMMA AppLeave ==
    ASSUME AppInv, NEW c \in Clients, NEW how \in {"left", "panicked"},
           client[c] = "running",
           how = "left" => ~handle[c] \/ ~event_receiver[c],
           Leave(c, how), UNCHANGED reads
    PROVE  AppInv'
<1> USE DEF Leave, drop_handles, Both
<1>1. AppTypes'
  <2>1. rTx' \in [Sockets -> Seq(ReadItems)]
    BY DEF AppInv, AppTypes
  <2>2. item' \in [Clients -> Seq(ReadItems)]
    BY DEF AppInv, AppTypes
  <2> QED
    BY <2>1, <2>2 DEF AppInv, AppTypes
<1>2. ASSUME NEW d \in Clients PROVE AppHolds(d)'
  <2>1. CallerHolds(d)'
    BY <1>2 DEF AppInv, AppTypes, AppHolds, CallerHolds
  <2>2. Unheard(d)' /\ Announced(d)'
    BY <1>2 DEF AppInv, AppTypes, AppHolds, Unheard, Announced
  <2> QED
    BY <1>2, <2>1, <2>2 DEF AppInv, AppTypes, AppHolds
<1> QED
  BY <1>1, <1>2 DEF AppInv

\* connect and the calls of the application (src/src/client/actor_handle.rs).
LEMMA AppCalls ==
    ASSUME AppInv, NEW c \in Clients, UNCHANGED reads,
           \/ connect(c) \/ get_status(c) \/ DropHandle(c) \/ DropEvents(c)
           \/ TakeEvent(c)
           \/ \E s \in Protocols : send_message(c, s)
    PROVE  AppInv'
<1> USE DEF AppUnchanged, Accepts, app
<1>1. AppTypes'
  BY DEF AppInv, AppTypes, connect, get_status, DropHandle, DropEvents, TakeEvent, send_message, state, channels, rLink
<1>2. ASSUME NEW d \in Clients PROVE AppHolds(d)'
  <2>1. CallerHolds(d)'
    BY <1>2 DEF AppInv, AppTypes, AppHolds, CallerHolds, connect, get_status, DropHandle,
       DropEvents, TakeEvent, send_message, state, channels
  <2>2. UNCHANGED <<has_received_on_udp, item, events>>
    BY DEF connect, get_status, DropHandle, DropEvents, TakeEvent, send_message, state, channels
  <2>3. Announced(d)'
    BY <1>2, <2>2 DEF AppInv, AppTypes, AppHolds, Announced, connect, get_status, DropHandle,
       DropEvents, TakeEvent, send_message
  <2> QED
    BY <1>2, <2>1, <2>2, <2>3 DEF AppInv, AppHolds, Unheard
<1> QED
  BY <1>1, <1>2 DEF AppInv


\* An event is put in the channel of one client, CanReceiveUdpMessages only
\* before anything was heard on UDP and UdpMessage only after that
\* (src/src/client/actor.rs:180-197).
LEMMA AppEmit ==
    ASSUME AppInv, NEW c \in Clients, NEW e \in Event, emit(c, e),
           e.ev = "CanReceiveUdpMessages" => ~has_received_on_udp[c],
           e.ev = "UdpMessage" => has_received_on_udp[c]
    PROVE  /\ events' \in [Clients -> Seq(Event)]
           /\ \A d \in Clients : First(events'[d])
           /\ \A d \in Clients \ {c} : events'[d] = events[d]
           /\ \A d \in Clients : Told(events[d]) => Told(events'[d])
           /\ e = CanReceiveUdpMessages /\ event_receiver[c] => Told(events'[c])
           /\ e.ev \notin OfUdp /\ ~has_received_on_udp[c] =>
                 \A i \in 1 .. Len(events'[c]) : events'[c][i].ev \notin OfUdp
<1>1. CASE ~event_receiver[c]
  <2>1. events' = events
    BY <1>1 DEF emit
  <2> QED
    BY <1>1, <2>1 DEF AppInv, AppTypes, AppHolds, Unheard
<1>2. CASE event_receiver[c]
  <2>1. PICK s \in Seq(Event) : s = events[c]
    BY DEF AppInv, AppTypes
  <2>2. events' = [events EXCEPT ![c] = Append(s, e)]
    BY <1>2, <2>1 DEF emit
  <2>3. Append(s, e) \in Seq(Event) /\ events \in [Clients -> Seq(Event)]
    BY DEF AppInv, AppTypes
  <2>4. events' \in [Clients -> Seq(Event)] /\ events'[c] = Append(s, e)
    BY <2>2, <2>3
  <2>5. \A d \in Clients \ {c} : events'[d] = events[d]
    BY <2>2, <2>3
  <2>6. /\ First(s)
        /\ ~has_received_on_udp[c] => \A i \in 1 .. Len(s) : s[i].ev \notin OfUdp
        /\ has_received_on_udp[c] => Told(s)
    BY <1>2, <2>1 DEF AppInv, AppHolds, Unheard, Announced
  <2>7. First(Append(s, e))
    BY <2>6, FirstAppend
  <2>8. e.ev \notin OfUdp /\ ~has_received_on_udp[c] =>
            \A i \in 1 .. Len(Append(s, e)) : Append(s, e)[i].ev \notin OfUdp
    BY <2>6, UnheardAppend
  <2>9. \A d \in Clients : First(events[d])
    BY DEF AppInv, AppHolds
  <2>10. \A d \in Clients : First(events'[d])
    BY <2>4, <2>5, <2>7, <2>9
  <2>11. Told(s) \/ e = CanReceiveUdpMessages => Told(Append(s, e))
    BY ToldAppend
  <2>12. \A d \in Clients : Told(events[d]) => Told(events'[d])
    BY <2>1, <2>4, <2>5, <2>11
  <2> QED
    BY <2>4, <2>5, <2>8, <2>10, <2>11, <2>12
<1> QED
  BY <1>1, <1>2

\* A queued message is passed on to a write actor, whose refusal is a panic, or
\* the status is reported (src/src/client/actor.rs:135-159 and :213).
LEMMA AppMessage ==
    ASSUME AppInv, NEW c \in Clients, OnMessage(c), UNCHANGED reads
    PROVE  AppInv'
<1> USE DEF MessageIs, Ready, Free
<1>1. ASSUME NEW s \in Protocols, ToServer(c, s), W!Accepts(<<c, s>>) PROVE AppInv'
  <2>1. UNCHANGED appVars
    BY <1>1 DEF ToServer, MessageDone, appVars, state, rLink
  <2> QED
    BY <2>1, AppStutter
<1>2. ASSUME NEW s \in Protocols, ToServer(c, s), ~W!Accepts(<<c, s>>) PROVE AppInv'
  <2>1. Leave(c, "panicked") /\ client[c] = "running"
    BY <1>2 DEF ToServer
  <2> QED
    BY <2>1, AppLeave
<1>3. CASE GetStatus(c)
  <2>1. AppTypes'
    BY <1>3 DEF AppInv, AppTypes, GetStatus, MessageDone, state, rLink
  <2>2. UNCHANGED <<client, has_received_on_udp, item, handle, event_receiver, events>>
    BY <1>3 DEF GetStatus, MessageDone, state
  <2>3. status' = [status EXCEPT ![c] = "idle"]
    BY <1>3 DEF GetStatus
  <2>4. ASSUME NEW d \in Clients PROVE AppHolds(d)'
    BY <2>2, <2>3, <2>4 DEF AppInv, AppTypes, AppHolds, CallerHolds, Unheard, Announced
  <2> QED
    BY <2>1, <2>4 DEF AppInv
<1>4. CASE ActorMessagesEnd(c)
  <2>1. Leave(c, "left") /\ client[c] = "running" /\ ~handle[c]
    BY <1>4 DEF ActorMessagesEnd
  <2> QED
    BY <2>1, AppLeave
<1> QED
  BY <1>1, <1>2, <1>3, <1>4 DEF OnMessage

\* What Receive leaves of the types, and of all but the event channel.
LEMMA AppReceive ==
    ASSUME AppInv, NEW c \in Clients, NEW s \in Protocols, rTx[<<c, s>>] # <<>>,
           Receive(c, s)
    PROVE  /\ rTx' \in [Sockets -> Seq(ReadItems)]
           /\ UNCHANGED <<client, handle, event_receiver, status>>
           /\ Head(rTx[<<c, s>>]) \in ReadItems
<1>1. <<c, s>> \in Sockets
  BY DEF Sockets
<1>2. PICK t \in Seq(ReadItems) : t = rTx[<<c, s>>]
  BY <1>1 DEF AppInv, AppTypes
<1>3. Tail(t) \in Seq(ReadItems) /\ Head(t) \in ReadItems
  BY <1>2
<1>4. rTx' = [rTx EXCEPT ![<<c, s>>] = Tail(t)]
  BY <1>2 DEF Receive
<1>5. rTx' \in [Sockets -> Seq(ReadItems)]
  BY <1>3, <1>4 DEF AppInv, AppTypes
<1> QED
  BY <1>2, <1>3, <1>5 DEF Receive, app

\* What came on TCP is reported, and an error there is a panic
\* (src/src/client/actor.rs:162-178).
LEMMA AppTcp ==
    ASSUME AppInv, NEW c \in Clients, OnTcp(c), UNCHANGED reads
    PROVE  AppInv'
<1> USE DEF ReaderHas, Ready, Free
<1>0. "tcp" \in Protocols
  BY DEF Protocols
<1>1. CASE TcpWelcome(c)
  <2>1. rTx' \in [Sockets -> Seq(ReadItems)] /\ UNCHANGED <<client, handle, event_receiver, status>>
    BY <1>0, <1>1, AppReceive DEF TcpWelcome
  <2>2. UNCHANGED <<has_received_on_udp, item, events>>
    BY <1>1 DEF TcpWelcome, state
  <2> QED
    BY <2>1, <2>2 DEF AppInv, AppTypes, AppHolds, CallerHolds, Unheard, Announced
<1>2. ASSUME NEW e \in Event, e.ev \notin OfUdp, emit(c, e), Receive(c, "tcp"),
             rTx[<<c, "tcp">>] # <<>>, UNCHANGED state
      PROVE  AppInv'
  <2>1. rTx' \in [Sockets -> Seq(ReadItems)] /\ UNCHANGED <<client, handle, event_receiver, status>>
    BY <1>0, <1>2, AppReceive
  <2>2. UNCHANGED <<has_received_on_udp, item>>
    BY <1>2 DEF state
  <2>3. e.ev # "CanReceiveUdpMessages" /\ e.ev # "UdpMessage"
    BY <1>2 DEF OfUdp
  <2>4. /\ events' \in [Clients -> Seq(Event)]
        /\ \A d \in Clients : First(events'[d])
        /\ \A d \in Clients : Told(events[d]) => Told(events'[d])
        /\ \A d \in Clients \ {c} : events'[d] = events[d]
        /\ ~has_received_on_udp[c] => \A i \in 1 .. Len(events'[c]) : events'[c][i].ev \notin OfUdp
    BY <1>2, <2>3, AppEmit
  <2>5. AppTypes'
    BY <2>1, <2>2, <2>4 DEF AppInv, AppTypes
  <2>6. ASSUME NEW d \in Clients PROVE AppHolds(d)'
    <3>1. CallerHolds(d)'
      BY <2>1, <2>6 DEF AppInv, AppHolds, CallerHolds
    <3>2. Unheard(d)' /\ Announced(d)'
      BY <2>1, <2>2, <2>4, <2>6 DEF AppInv, AppHolds, Unheard, Announced
    <3> QED
      BY <2>4, <2>6, <3>1, <3>2 DEF AppHolds
  <2> QED
    BY <2>5, <2>6 DEF AppInv
<1>3. CASE UdpHandshakeAcknowledged(c)
  <2>1. CanSendUdpMessages \in Event /\ CanSendUdpMessages.ev \notin OfUdp
    BY EventKinds DEF OfUdp
  <2> QED
    BY <1>2, <1>3, <2>1 DEF UdpHandshakeAcknowledged
<1>4. CASE TcpApplicationLogic(c) /\ event_receiver[c]
  <2>1. Head(rTx[<<c, "tcp">>]) \in ReadItems
    BY <1>0, <1>4, AppReceive DEF TcpApplicationLogic
  <2>2. TcpItem(c).n \in Nat
    BY <2>1 DEF TcpItem, ReadItems
  <2>3. TcpMessage(TcpItem(c).n) \in Event /\ TcpMessage(TcpItem(c).n).ev \notin OfUdp
    BY <2>2, EventKinds DEF OfUdp
  <2> QED
    BY <1>2, <1>4, <2>3 DEF TcpApplicationLogic
<1>5. CASE TcpApplicationLogic(c) /\ ~event_receiver[c]
  <2>1. Leave(c, "left") /\ client[c] = "running"
    BY <1>5 DEF TcpApplicationLogic
  <2> QED
    BY <1>5, <2>1, AppLeave
<1>6. CASE TcpError(c)
  <2>1. Leave(c, "panicked") /\ client[c] = "running"
    BY <1>6 DEF TcpError
  <2> QED
    BY <2>1, AppLeave
<1> QED
  BY <1>1, <1>3, <1>4, <1>5, <1>6 DEF OnTcp


\* The first datagram is reported as such, before it is looked at
\* (src/src/client/actor.rs:180-183).
LEMMA AppUdpItem ==
    ASSUME AppInv, NEW c \in Clients, UdpItem(c), UNCHANGED reads
    PROVE  AppInv'
<1>0. "udp" \in Protocols
  BY DEF Protocols
<1>1. /\ rTx' \in [Sockets -> Seq(ReadItems)] /\ Head(rTx[<<c, "udp">>]) \in ReadItems
      /\ UNCHANGED <<client, handle, event_receiver, status>>
  BY <1>0, AppReceive DEF UdpItem, ReaderHas
<1>2. PICK x \in ReadItems : item' = [item EXCEPT ![c] = <<x>>]
  BY <1>1 DEF UdpItem
<1>3. has_received_on_udp' = [has_received_on_udp EXCEPT ![c] = TRUE]
  BY DEF UdpItem
<1>4. /\ events' \in [Clients -> Seq(Event)]
      /\ \A d \in Clients : First(events'[d])
      /\ \A d \in Clients \ {c} : events'[d] = events[d]
      /\ event_receiver[c] => Told(events'[c])
  <2>1. CASE has_received_on_udp[c]
    BY <2>1 DEF UdpItem, AppInv, AppTypes, AppHolds, Announced
  <2>2. CASE ~has_received_on_udp[c]
    BY <2>2, AppEmit, EventKinds DEF UdpItem
  <2> QED
    BY <2>1, <2>2
<1>5. AppTypes'
  <2>1. <<x>> \in Seq(ReadItems)
    OBVIOUS
  <2> QED
    BY <1>1, <1>2, <1>3, <1>4, <2>1 DEF AppInv, AppTypes
<1>6. ASSUME NEW d \in Clients PROVE AppHolds(d)'
  <2>1. CallerHolds(d)'
    BY <1>1, <1>6 DEF AppInv, AppHolds, CallerHolds
  <2>2. Unheard(d)'
    <3>1. CASE d = c
      BY <1>3, <3>1 DEF AppInv, AppTypes, Unheard
    <3>2. CASE d # c
      BY <1>2, <1>3, <1>4, <1>6, <3>2 DEF AppInv, AppTypes, AppHolds, Unheard
    <3> QED
      BY <3>1, <3>2
  <2>3. Announced(d)'
    <3>1. CASE d = c
      BY <1>1, <1>4, <3>1 DEF Announced, UdpItem, ReaderHas, Ready, Free
    <3>2. CASE d # c
      BY <1>1, <1>3, <1>4, <1>6, <3>2 DEF AppInv, AppTypes, AppHolds, Announced
    <3> QED
      BY <3>1, <3>2
  <2> QED
    BY <1>4, <1>6, <2>1, <2>2, <2>3 DEF AppHolds
<1> QED
  BY <1>5, <1>6 DEF AppInv

\* The datagram that is looked at: something has been heard, so that another
\* UdpMessage is none of the first (src/src/client/actor.rs:184-211).
LEMMA AppDatagram ==
    ASSUME AppInv, NEW c \in Clients, OnDatagram(c), UNCHANGED reads
    PROVE  AppInv'
<1> USE DEF ItemIs, Free
<1>1. ASSUME ItemDone(c), NEW es \in [Clients -> Seq(Event)], es = events',
             \A d \in Clients : First(es[d]),
             \A d \in Clients \ {c} : es[d] = events[d],
             \A d \in Clients : Told(events[d]) => Told(es[d]),
             es[c] = events[c] \/ has_received_on_udp[c]
      PROVE  AppInv'
  <2>1. /\ UNCHANGED <<client, has_received_on_udp, handle, event_receiver, status, rTx>>
        /\ item' = [item EXCEPT ![c] = <<>>]
    BY <1>1 DEF ItemDone, app, rLink
  <2>2. AppTypes'
    <3>1. <<>> \in Seq(ReadItems)
      OBVIOUS
    <3> QED
      BY <1>1, <2>1, <3>1 DEF AppInv, AppTypes
  <2>3. ASSUME NEW d \in Clients PROVE AppHolds(d)'
    <3>1. CallerHolds(d)'
      BY <2>1, <2>3 DEF AppInv, AppHolds, CallerHolds
    <3>2. Unheard(d)'
      <4>1. CASE d = c
        BY <1>1, <2>1, <4>1 DEF AppInv, AppTypes, AppHolds, Unheard
      <4>2. CASE d # c
        BY <1>1, <2>1, <2>3, <4>2 DEF AppInv, AppTypes, AppHolds, Unheard
      <4> QED
        BY <4>1, <4>2
    <3>3. Announced(d)'
      BY <1>1, <2>1, <2>3 DEF AppInv, AppHolds, Announced
    <3> QED
      BY <1>1, <2>3, <3>1, <3>2, <3>3 DEF AppHolds
  <2> QED
    BY <2>2, <2>3 DEF AppInv
<1>2. CASE UdpWelcome(c) \/ UdpHeartbeat(c)
  <2>1. ItemDone(c) /\ events' = events
    BY <1>2 DEF UdpWelcome, UdpHeartbeat
  <2>2. events' \in [Clients -> Seq(Event)] /\ \A d \in Clients : First(events[d])
    BY <2>1 DEF AppInv, AppTypes, AppHolds
  <2> QED
    BY <1>1, <2>1, <2>2
<1>3. CASE UdpApplicationLogic(c) /\ event_receiver[c]
  <2>1. item[c] \in Seq(ReadItems) /\ item[c] # <<>>
    BY <1>3 DEF UdpApplicationLogic, AppInv, AppTypes
  <2>2. Head(item[c]).n \in Nat
    <3>1. Head(item[c]) \in ReadItems
      BY <2>1
    <3> QED
      BY <3>1 DEF ReadItems
  <2>3. PICK e \in Event : e = UdpMessage(Head(item[c]).n) /\ e.ev = "UdpMessage"
    BY <2>2, EventKinds
  <2>4. emit(c, e) /\ ItemDone(c)
    BY <1>3, <2>3 DEF UdpApplicationLogic
  <2>5. has_received_on_udp[c]
    BY <2>1 DEF AppInv, AppHolds, Unheard
  <2>6. /\ events' \in [Clients -> Seq(Event)]
        /\ \A d \in Clients : First(events'[d])
        /\ \A d \in Clients \ {c} : events'[d] = events[d]
        /\ \A d \in Clients : Told(events[d]) => Told(events'[d])
    BY <2>3, <2>4, <2>5, AppEmit
  <2> QED
    BY <1>1, <2>4, <2>5, <2>6
<1>4. CASE UdpApplicationLogic(c) /\ ~event_receiver[c]
  <2>1. Leave(c, "left") /\ client[c] = "running"
    BY <1>4 DEF UdpApplicationLogic
  <2> QED
    BY <1>4, <2>1, AppLeave
<1>5. CASE UdpError(c)
  <2>1. Leave(c, "panicked") /\ client[c] = "running"
    BY <1>5 DEF UdpError
  <2> QED
    BY <2>1, AppLeave
<1> QED
  BY <1>2, <1>3, <1>4, <1>5 DEF OnDatagram

\* A read actor forwards what it reads (src/src/actors/read_actor.rs:148).
LEMMA AppReads ==
    ASSUME AppInv, NEW c \in Clients, NEW s \in Protocols, ReadsItem(c, s)
    PROVE  AppInv'
<1>1. PICK a \in Sockets : a = <<c, s>>
  BY DEF Sockets
<1>2. PICK kind \in FromServer(c, s) \cup Garbage(s) :
         /\ Reads(a, [kind |-> kind, n |-> Len(reads[a]) + 1])
         /\ reads' = [reads EXCEPT ![a] = Append(@, kind = "ApplicationLogic")]
  BY <1>1 DEF ReadsItem
<1>3. kind \in {"Welcome", "UdpHandshakeAcknowledged", "Heartbeat", "ApplicationLogic", "Bincode", "Io"}
  BY <1>2 DEF FromServer, Garbage, Protocols
<1>4. PICK x \in ReadItems : Reads(a, x)
  <2>1. Len(reads[a]) + 1 \in Nat
    BY DEF AppInv, AppTypes
  <2> QED
    BY <1>2, <1>3, <2>1 DEF ReadItems
<1>5. reads' \in [Sockets -> Seq(BOOLEAN)]
  <2>1. PICK t \in Seq(BOOLEAN) : t = reads[a]
    BY DEF AppInv, AppTypes
  <2>2. PICK b \in BOOLEAN : b = (kind = "ApplicationLogic")
    OBVIOUS
  <2>3. Append(t, b) \in Seq(BOOLEAN)
    OBVIOUS
  <2>4. reads' = [reads EXCEPT ![a] = Append(t, b)]
    BY <1>2, <2>1, <2>2
  <2> QED
    BY <2>3, <2>4, Zenon DEF AppInv, AppTypes
<1>6. rTx' \in [Sockets -> Seq(ReadItems)]
  <2>1. PICK t \in Seq(ReadItems) : t = rTx[a]
    BY DEF AppInv, AppTypes
  <2>2. Append(t, x) \in Seq(ReadItems)
    OBVIOUS
  <2>3. rTx' = rTx \/ rTx' = [rTx EXCEPT ![a] = Append(t, x)]
    BY <1>4, <2>1 DEF Reads, R!ForwardItem
  <2> QED
    BY <2>2, <2>3 DEF AppInv, AppTypes
<1>7. UNCHANGED <<client, has_received_on_udp, item, handle, event_receiver, events, status>>
  BY <1>4 DEF Reads, ReaderUnchanged, LoopUnchanged, state, app, channels
<1> QED
  BY <1>5, <1>6, <1>7 DEF AppInv, AppTypes, AppHolds, CallerHolds, Unheard, Announced

\* Every step of the clients keeps the invariant.
LEMMA AppStep == AppInv /\ [Next]_vars => AppInv'
<1> SUFFICES ASSUME AppInv, [Next]_vars PROVE AppInv'
  OBVIOUS
<1>1. CASE UNCHANGED vars
  <2>1. UNCHANGED appVars
    BY <1>1 DEF vars, clientVars, state, app, channels, rLink, history, appVars
  <2> QED
    BY <2>1, AppStutter
<1>2. CASE Next
  <2> USE DEF history
  <2>1. PICK c \in Clients :
           \/ (connect(c) \/ Calls(c) \/ ServerCloses(c)) /\ UNCHANGED history
           \/ \E s \in Protocols : ReadsItem(c, s)
           \/ Owed(c)
           \/ Fails(c)
    BY <1>2 DEF Next
  <2>2. CASE (connect(c) \/ Calls(c)) /\ UNCHANGED history
    <3>1. \/ connect(c) \/ get_status(c) \/ DropHandle(c)
          \/ \E s \in Protocols : send_message(c, s)
      BY <2>2, ClientAloneAssumption DEF Calls
    <3> QED
      BY <2>2, <3>1, AppCalls
  <2>3. CASE \E s \in Protocols : ReadsItem(c, s)
    BY <2>3, AppReads
  <2>4. CASE (Loop(c) \/ TakeEvent(c)) /\ UNCHANGED history
    BY <2>4, AppMessage, AppTcp, AppUdpItem, AppDatagram, AppCalls DEF Loop
  <2>5. ASSUME NEW a,
               \/ R!ReaderProgress(a) /\ ReaderUnchanged /\ UNCHANGED reads
               \/ R!ReaderPanics(a) /\ ReaderUnchanged /\ UNCHANGED reads
               \/ R!PeerCloses(a) /\ ReaderUnchanged /\ UNCHANGED reads
               \/ WriterUnchanged /\ UNCHANGED reads
        PROVE  AppInv'
    <3>1. UNCHANGED appVars
      BY <2>5 DEF R!ReaderProgress, R!ReceiveShutdown, R!HandlesDropped, R!EndOfStream,
         R!ReaderPanics, R!PeerCloses, ReaderUnchanged, WriterUnchanged, LoopUnchanged,
         state, app, channels, rLink, appVars
    <3> QED
      BY <3>1, AppStutter
  <2>6. CASE ServerCloses(c) /\ UNCHANGED history
    BY <2>5, <2>6 DEF ServerCloses
  <2>7. ASSUME NEW s \in Protocols,
               \/ (ReaderRuns(<<c, s>>) \/ WriterRuns(<<c, s>>)) /\ UNCHANGED history
               \/ WriterSteps(<<c, s>>)
        PROVE  AppInv'
    BY <2>5, <2>7 DEF ReaderRuns, WriterRuns, WriterSteps, SinkDone, SinkFails, CloseSink
  <2>8. CASE Fails(c)
    <3>1. CASE DropEvents(c)
      BY <2>8, <3>1, AppCalls DEF Fails
    <3>2. CASE \E s \in Protocols : ReaderPanics(<<c, s>>) \/ WriterPanics(<<c, s>>)
      BY <2>5, <2>8, <3>2 DEF Fails, ReaderPanics, WriterPanics
    <3> QED
      BY <2>8, <3>1, <3>2 DEF Fails
  <2> QED
    BY <2>1, <2>2, <2>3, <2>4, <2>6, <2>7, <2>8 DEF Owed
<1> QED
  BY <1>1, <1>2

\* The invariant holds of every behaviour of any number of clients, with an
\* arbitrary server and an arbitrary application (src/src/client/actor.rs:120).
THEOREM AppInvariant == Spec => []AppInv
BY AppInit, AppStep, PTL DEF Spec

\* Every UdpMessage is preceded by CanReceiveUdpMessages, which is reported once
\* (src/src/client/actor.rs:180-197), whatever the network delivers.
THEOREM CanReceiveOnceAndFirst == Spec => []CanReceiveFirst
<1>1. AppInv => \A c \in Clients : events[c] \in Seq(Event) /\ First(events[c])
  BY DEF AppInv, AppTypes, AppHolds
<1>2. ASSUME NEW s \in Seq(Event) PROVE DOMAIN s = 1 .. Len(s)
  OBVIOUS
<1>3. AppInv => CanReceiveFirst
  BY <1>1, <1>2 DEF CanReceiveFirst, First
<1> QED
  BY <1>3, AppInvariant, PTL

\* The expect of get_status (src/src/client/actor_handle.rs:84) fails only when
\* the client panicked or the application had dropped its event receiver.
THEOREM StatusFailsOnlyByFailure == Spec => []CancelledOnlyByFailure
<1>1. AppInv => CancelledOnlyByFailure
  BY DEF AppInv, AppHolds, CallerHolds, CancelledOnlyByFailure
<1> QED
  BY <1>1, AppInvariant, PTL


-----------------------------------------------------------------------------
(* The types and the bounds of the channels.                               *)

\* What the application's calls put in the channel of the handle.
Sendable == [to : Protocols, n : 0 .. MaxSends] \cup {[to |-> "GetStatus"]}

LoopTypes ==
    /\ latest_udp_heartbeat \in [Clients -> BOOLEAN]
    /\ \A c \in Clients : Len(item[c]) <= 1
    /\ msg_receiver \in [Clients -> Seq(Sendable)]
    /\ \A c \in Clients : Len(msg_receiver[c]) <= MsgBuffer + 1
    /\ unread \in [Clients -> 0 .. EventBuffer + 1]
    /\ accepted \in [Clients -> [Protocols -> 0 .. MaxSends]]

ReaderStates == {"unspawned", "running"} \cup R!ReadOutcome

ReaderTypes ==
    /\ rState \in [Sockets -> ReaderStates]
    /\ rCtl \in [Sockets -> 0 .. CtlBuffer + 1]
    /\ rHandle \in [Sockets -> BOOLEAN]
    /\ rStream \in [Sockets -> {"open", "ended"}]
    /\ rOvertaken \in [Sockets -> BOOLEAN]
    /\ rRx \in [Sockets -> BOOLEAN]

\* A write actor that closes its sink knows why.
WriterTypes ==
    /\ W!WriterTypeOK
    /\ \A a \in Sockets : wState[a] = "closing" => wReason[a] # "none"

readerVars == <<rState, rCtl, rHandle, rStream, rOvertaken, rRx>>
writerVars == <<wState, wReason, wMsgs, wHandle, wHand, wSink>>
loopVars == <<latest_udp_heartbeat, item, msg_receiver, unread, accepted>>

Calling(c) ==
    \/ get_status(c) \/ DropHandle(c) \/ DropEvents(c) \/ TakeEvent(c)
    \/ \E s \in Protocols : send_message(c, s)

\* The arms of the loop that go on with it.
Serving(c) ==
    \/ \E s \in Protocols : ToServer(c, s) /\ W!Accepts(<<c, s>>)
    \/ GetStatus(c)
    \/ TcpWelcome(c)
    \/ UdpHandshakeAcknowledged(c)
    \/ TcpApplicationLogic(c) /\ event_receiver[c]
    \/ UdpItem(c)
    \/ UdpWelcome(c)
    \/ UdpHeartbeat(c)
    \/ UdpApplicationLogic(c) /\ event_receiver[c]

ReaderTask(a) == ReaderUnchanged /\ (R!ReaderProgress(a) \/ R!ReaderPanics(a) \/ R!PeerCloses(a))

WriterTask(a) ==
    /\ WriterUnchanged
    /\ \/ W!WriterProgress(a)
       \/ W!WriterPanics(a)
       \/ \E n \in 0 .. Len(W!Pending(a)) : W!SinkDone(a, n) \/ W!SinkFails(a, n) \/ W!CloseSink(a, n)

\* A step is one of the application's, an arm of the loop that serves or leaves,
\* or one of the tasks of the actors (src/src/client/actor.rs:120-218).
LEMMA Steps ==
    ASSUME [Next]_vars
    PROVE  \/ UNCHANGED <<clientVars, reads>>
           \/ \E c \in Clients : UNCHANGED reads /\ connect(c)
           \/ \E c \in Clients : UNCHANGED reads /\ Calling(c)
           \/ \E c \in Clients : UNCHANGED reads /\ Serving(c)
           \/ \E c \in Clients, how \in {"left", "panicked"} :
                 UNCHANGED reads /\ client[c] = "running" /\ Leave(c, how)
           \/ \E c \in Clients, s \in Protocols : ReadsItem(c, s)
           \/ \E a \in Sockets : UNCHANGED reads /\ ReaderTask(a)
           \/ \E a \in Sockets : UNCHANGED reads /\ WriterTask(a)
<1>1. CASE UNCHANGED vars
  BY <1>1 DEF vars, history
<1>2. CASE Next
  <2> USE DEF history
  <2>1. PICK c \in Clients :
           \/ (connect(c) \/ Calls(c) \/ ServerCloses(c)) /\ UNCHANGED history
           \/ \E s \in Protocols : ReadsItem(c, s)
           \/ Owed(c)
           \/ Fails(c)
    BY <1>2 DEF Next
  <2>2. \A s \in Protocols : <<c, s>> \in Sockets
    BY DEF Sockets
  <2>3. CASE Calls(c) /\ UNCHANGED history
    BY <2>3, ClientAloneAssumption DEF Calls, Calling
  <2>4. CASE ServerCloses(c) /\ UNCHANGED history
    BY <2>2, <2>4 DEF ServerCloses, ReaderTask, Protocols
  <2>5. CASE Loop(c) /\ UNCHANGED history
    <3>1. ASSUME OnMessage(c)
          PROVE  Serving(c) \/ \E how \in {"left", "panicked"} : client[c] = "running" /\ Leave(c, how)
      BY <3>1 DEF OnMessage, Serving, ToServer, MessageIs, ActorMessagesEnd, Ready, Free
    <3>2. ASSUME OnTcp(c)
          PROVE  Serving(c) \/ \E how \in {"left", "panicked"} : client[c] = "running" /\ Leave(c, how)
      BY <3>2 DEF OnTcp, Serving, TcpApplicationLogic, TcpError, ReaderHas, Ready, Free
    <3>3. ASSUME OnDatagram(c)
          PROVE  Serving(c) \/ \E how \in {"left", "panicked"} : client[c] = "running" /\ Leave(c, how)
      BY <3>3 DEF OnDatagram, Serving, UdpApplicationLogic, UdpError, ItemIs, Free
    <3> QED
      BY <2>5, <3>1, <3>2, <3>3 DEF Loop, Serving
  <2>6. CASE TakeEvent(c) /\ UNCHANGED history
    BY <2>6 DEF Calling
  <2>7. ASSUME NEW s \in Protocols,
               \/ (ReaderRuns(<<c, s>>) \/ WriterRuns(<<c, s>>)) /\ UNCHANGED history
               \/ WriterSteps(<<c, s>>)
        PROVE  \E a \in Sockets : UNCHANGED reads /\ (ReaderTask(a) \/ WriterTask(a))
    <3> SUFFICES UNCHANGED reads /\ (ReaderTask(<<c, s>>) \/ WriterTask(<<c, s>>))
      BY <2>2
    <3>1. CASE ReaderRuns(<<c, s>>) /\ UNCHANGED history
      BY <3>1 DEF ReaderRuns, ReaderTask
    <3>2. CASE WriterRuns(<<c, s>>) /\ UNCHANGED history
      BY <3>2 DEF WriterRuns, WriterTask
    <3>3. CASE WriterSteps(<<c, s>>)
      BY <3>3 DEF WriterSteps, WriterTask, SinkDone, SinkFails, CloseSink
    <3> QED
      BY <2>7, <3>1, <3>2, <3>3
  <2>8. CASE Fails(c)
    <3>1. CASE DropEvents(c)
      BY <2>8, <3>1 DEF Fails, Calling
    <3>2. CASE \E s \in Protocols : ReaderPanics(<<c, s>>) \/ WriterPanics(<<c, s>>)
      BY <2>2, <2>8, <3>2 DEF Fails, ReaderPanics, WriterPanics, ReaderTask, WriterTask
    <3> QED
      BY <2>8, <3>1, <3>2 DEF Fails
  <2>9. CASE Owed(c)
    BY <2>5, <2>6, <2>7, <2>9 DEF Owed
  <2> QED
    BY <2>1, <2>3, <2>4, <2>8, <2>9
<1> QED
  BY <1>1, <1>2


\* The read actors: their channels hold one Shutdown more than the buffer at
\* most, and the client sends none (src/src/actors/read_actor.rs:84).
LEMMA ReaderTypesStep ==
    ASSUME ReaderTypes, [Next]_vars
    PROVE  ReaderTypes'
<1> USE DEF ReaderTypes, readerVars
<1>1. CASE UNCHANGED readerVars
  BY <1>1
<1>2. ASSUME NEW c \in Clients, connect(c) PROVE ReaderTypes'
  <2>1. /\ rState' = Both(rState, c, "running")
        /\ rHandle' = Both(rHandle, c, TRUE) /\ rRx' = Both(rRx, c, TRUE)
        /\ UNCHANGED <<rCtl, rStream, rOvertaken>>
    BY <1>2 DEF connect
  <2>2. rState' \in [Sockets -> ReaderStates]
    BY <2>1 DEF Both, ReaderStates
  <2>3. rHandle' \in [Sockets -> BOOLEAN] /\ rRx' \in [Sockets -> BOOLEAN]
    BY <2>1 DEF Both
  <2> QED
    BY <2>1, <2>2, <2>3
<1>3. ASSUME NEW c \in Clients, NEW how, Leave(c, how) PROVE ReaderTypes'
  BY <1>3 DEF Leave, drop_handles, Both, rTask
<1>4. ASSUME NEW a \in Sockets, NEW x, R!ForwardItem(a, x) PROVE ReaderTypes'
  <2>1. PICK b \in BOOLEAN : b = R!CtlReady(a)
    BY DEF R!CtlReady
  <2>2. /\ \/ rStream' = rStream
           \/ rStream' = [rStream EXCEPT ![a] = "ended"]
        /\ \/ UNCHANGED rOvertaken
           \/ rOvertaken' = [rOvertaken EXCEPT ![a] = b]
        /\ \/ UNCHANGED rState
           \/ rState' = [rState EXCEPT ![a] = "ReceiverClosedChannel"]
        /\ UNCHANGED <<rCtl, rHandle, rRx>>
    BY <1>4, <2>1 DEF R!ForwardItem
  <2>3. rOvertaken' \in [Sockets -> BOOLEAN]
    BY <2>2
  <2> QED
    BY <2>2, <2>3 DEF ReaderStates, R!ReadOutcome, R!ReadActorShutdownReason
<1>5. ASSUME NEW a \in Sockets, ReaderTask(a) PROVE ReaderTypes'
  <2>1. CASE R!ReceiveShutdown(a)
    <3>1. rCtl' = [rCtl EXCEPT ![a] = rCtl[a] - 1] /\ rCtl[a] - 1 \in 0 .. CtlBuffer + 1
      BY <2>1, ClientActorAssumption DEF R!ReceiveShutdown
    <3>2. rCtl' \in [Sockets -> 0 .. CtlBuffer + 1]
      BY <3>1
    <3> QED
      BY <2>1, <3>2 DEF R!ReceiveShutdown, ReaderStates, R!ReadOutcome, R!ReadActorShutdownReason
  <2>2. CASE R!HandlesDropped(a) \/ R!EndOfStream(a) \/ R!ReaderPanics(a)
    BY <2>2 DEF R!HandlesDropped, R!EndOfStream, R!ReaderPanics, ReaderStates, R!ReadOutcome,
       R!ReadActorShutdownReason
  <2>3. CASE R!PeerCloses(a)
    BY <2>3 DEF R!PeerCloses
  <2> QED
    BY <1>5, <2>1, <2>2, <2>3 DEF ReaderTask, R!ReaderProgress
<1>6. ASSUME NEW c \in Clients, Calling(c) PROVE UNCHANGED readerVars
  BY <1>6 DEF Calling, get_status, DropHandle, DropEvents, TakeEvent, send_message, AppUnchanged,
     rTask, rLink
<1>7. ASSUME NEW c \in Clients, Serving(c) PROVE UNCHANGED readerVars
  BY <1>7 DEF Serving, ToServer, GetStatus, MessageDone, TcpWelcome, UdpHandshakeAcknowledged,
     TcpApplicationLogic, UdpItem, UdpWelcome, UdpHeartbeat, UdpApplicationLogic,
     Receive, ItemDone, rTask, rLink
<1>8. ASSUME NEW a \in Sockets, WriterTask(a) PROVE UNCHANGED readerVars
  BY <1>8 DEF WriterTask, WriterUnchanged, rTask, rLink
<1>9. ASSUME NEW c \in Clients, NEW s \in Protocols, ReadsItem(c, s) PROVE ReaderTypes'
  <2>1. PICK x : R!ForwardItem(<<c, s>>, x)
    BY <1>9 DEF ReadsItem, Reads
  <2> QED
    BY <1>4, <2>1 DEF Sockets
<1>10. CASE UNCHANGED clientVars
  BY <1>1, <1>10 DEF clientVars, rTask, rLink
<1> QED
  BY <1>1, <1>2, <1>3, <1>5, <1>6, <1>7, <1>8, <1>9, <1>10, Steps

\* A message is put in the channel of a write actor only while there is room
\* (src/src/actors/write_actor.rs:47-76).
LEMMA WriterAccepts ==
    ASSUME WriterTypes, NEW a \in Sockets, NEW x \in WriteItems,
           wMsgs' = [wMsgs EXCEPT ![a] = W!send_actor_message(a, W!Send(x))],
           UNCHANGED <<wState, wReason, wHandle, wHand, wSink>>
    PROVE  WriterTypes'
<1>1. W!Send(x) \in W!ActorMessage
  BY DEF W!Send, W!ActorMessage
<1>2. PICK m \in W!ActorMessage : m = W!Send(x)
  BY <1>1
<1>3. PICK q \in Seq(W!ActorMessage) : q = wMsgs[a] /\ Len(q) <= WriteBuffer + 1
  BY DEF WriterTypes, W!WriterTypeOK
<1>4. PICK r \in Seq(W!ActorMessage) :
         /\ r = IF W!Accepts(a) THEN Append(q, m) ELSE q
         /\ Len(r) <= WriteBuffer + 1
  <2>1. CASE W!Accepts(a)
    <3>1. Len(q) <= WriteBuffer
      BY <1>3, <2>1 DEF W!Accepts
    <3>2. Append(q, m) \in Seq(W!ActorMessage) /\ Len(Append(q, m)) <= WriteBuffer + 1
      BY <3>1, ClientActorAssumption
    <3> QED
      BY <2>1, <3>2
  <2>2. CASE ~W!Accepts(a)
    BY <1>3, <2>2
  <2> QED
    BY <2>1, <2>2
<1>5. wMsgs' = [wMsgs EXCEPT ![a] = r]
  BY <1>2, <1>3, <1>4 DEF W!send_actor_message
<1>6. wMsgs' \in [Sockets -> Seq(W!ActorMessage)] /\ \A b \in Sockets : Len(wMsgs'[b]) <= WriteBuffer + 1
  BY <1>4, <1>5 DEF WriterTypes, W!WriterTypeOK
<1> QED
  BY <1>6 DEF WriterTypes, W!WriterTypeOK

\* The task of a write actor: the queue shrinks, and the sink holds what was
\* taken from it (src/src/actors/write_actor.rs:110-176).
LEMMA WriterTaskTypes ==
    ASSUME WriterTypes, NEW a \in Sockets, WriterTask(a)
    PROVE  WriterTypes'
<1> USE DEF WriterTypes, W!WriterTypeOK
<1>1. /\ wMsgs[a] \in Seq(W!ActorMessage) /\ Len(wMsgs[a]) <= WriteBuffer + 1
      /\ wSink[a] \in Seq(WriteItems)
      /\ wHand[a] \in {<<>>} \cup {<<m>> : m \in W!ActorMessage}
  OBVIOUS
<1>2. wMsgs[a] # <<>> =>
        /\ Head(wMsgs[a]) \in W!ActorMessage
        /\ Tail(wMsgs[a]) \in Seq(W!ActorMessage) /\ Len(Tail(wMsgs[a])) <= WriteBuffer + 1
  BY <1>1, ClientActorAssumption
<1>3. W!Pending(a) \in Seq(WriteItems)
  <2>1. CASE wHand[a] = <<>>
    BY <1>1, <2>1 DEF W!Pending
  <2>2. CASE wHand[a] # <<>>
    <3>1. PICK m \in W!ActorMessage : wHand[a] = <<m>>
      BY <1>1, <2>2
    <3>2. Head(wHand[a]) = m
      BY <3>1
    <3>3. W!Payload(m) \in Seq(WriteItems)
      BY DEF W!Payload, W!ActorMessage
    <3> QED
      BY <1>1, <2>2, <3>2, <3>3 DEF W!Pending
  <2> QED
    BY <2>1, <2>2
<1>4. \A n \in 0 .. Len(W!Pending(a)) : W!Rest(a, n) \in Seq(WriteItems)
  BY <1>3 DEF W!Rest
<1>5. <<>> \in Seq(W!ActorMessage) /\ <<>> \in Seq(WriteItems) /\ Len(<<>>) <= WriteBuffer + 1
  BY ClientActorAssumption
<1>6. CASE W!TakeMessage(a)
  <2>1. /\ wMsgs' = [wMsgs EXCEPT ![a] = Tail(wMsgs[a])] /\ wMsgs[a] # <<>>
        /\ wHand' = [wHand EXCEPT ![a] = <<Head(wMsgs[a])>>]
        /\ UNCHANGED <<wState, wReason, wHandle, wSink>>
    BY <1>6 DEF W!TakeMessage
  <2>2. PICK m \in W!ActorMessage, q \in Seq(W!ActorMessage) :
           m = Head(wMsgs[a]) /\ q = Tail(wMsgs[a]) /\ Len(q) <= WriteBuffer + 1
    BY <1>2, <2>1
  <2>3. wMsgs' = [wMsgs EXCEPT ![a] = q] /\ wHand' = [wHand EXCEPT ![a] = <<m>>]
    BY <2>1, <2>2
  <2>4. wMsgs' \in [Sockets -> Seq(W!ActorMessage)] /\ \A b \in Sockets : Len(wMsgs'[b]) <= WriteBuffer + 1
    BY <2>2, <2>3
  <2>5. wHand' \in [Sockets -> {<<>>} \cup {<<k>> : k \in W!ActorMessage}]
    BY <2>3
  <2> QED
    BY <2>1, <2>4, <2>5
<1>7. CASE W!TakeShutdown(a)
  <2>1. /\ wMsgs' = [wMsgs EXCEPT ![a] = Tail(wMsgs[a])] /\ wMsgs[a] # <<>>
        /\ wState' = [wState EXCEPT ![a] = "closing"]
        /\ wReason' = [wReason EXCEPT ![a] = "Signalled"]
        /\ UNCHANGED <<wHandle, wHand, wSink>>
    BY <1>7 DEF W!TakeShutdown, W!BeginClose
  <2>2. PICK q \in Seq(W!ActorMessage) : q = Tail(wMsgs[a]) /\ Len(q) <= WriteBuffer + 1
    BY <1>2, <2>1
  <2>3. wMsgs' = [wMsgs EXCEPT ![a] = q]
    BY <2>1, <2>2
  <2>4. wMsgs' \in [Sockets -> Seq(W!ActorMessage)] /\ \A b \in Sockets : Len(wMsgs'[b]) <= WriteBuffer + 1
    BY <2>2, <2>3
  <2> QED
    BY <2>1, <2>4 DEF W!WriteActorShutdownReason
<1>8. CASE W!AllHandlesDropped(a)
  BY <1>8 DEF W!AllHandlesDropped, W!BeginClose, W!WriteActorShutdownReason
<1>9. ASSUME NEW n \in 0 .. Len(W!Pending(a)), W!SinkDone(a, n) \/ W!SinkFails(a, n) PROVE WriterTypes'
  <2>1. PICK r \in Seq(WriteItems) : r = W!Rest(a, n)
    BY <1>4
  <2>2. /\ wHand' = [wHand EXCEPT ![a] = <<>>] /\ wSink' = [wSink EXCEPT ![a] = r]
        /\ UNCHANGED <<wMsgs, wHandle>>
        /\ \/ UNCHANGED <<wState, wReason>>
           \/ /\ wState' = [wState EXCEPT ![a] = "closing"]
              /\ wReason' = [wReason EXCEPT ![a] = "SinkError"]
    BY <1>9, <2>1 DEF W!SinkDone, W!SinkFails, W!BeginClose
  <2>3. wSink' \in [Sockets -> Seq(WriteItems)]
    BY <2>2
  <2> QED
    BY <2>2, <2>3 DEF W!WriteActorShutdownReason
<1>10. ASSUME NEW n, W!CloseSink(a, n) PROVE WriterTypes'
  <2>1. /\ wMsgs' = [wMsgs EXCEPT ![a] = <<>>] /\ wSink' = [wSink EXCEPT ![a] = <<>>]
        /\ wState' = [wState EXCEPT ![a] = wReason[a]] /\ wState[a] = "closing"
        /\ UNCHANGED <<wReason, wHandle, wHand>>
    BY <1>10 DEF W!CloseSink
  <2>2. wMsgs' \in [Sockets -> Seq(W!ActorMessage)] /\ wSink' \in [Sockets -> Seq(WriteItems)]
    BY <1>5, <2>1
  <2>3. \A b \in Sockets : Len(wMsgs'[b]) <= WriteBuffer + 1
    BY <1>5, <2>1
  <2>4. wReason[a] \in W!WriteActorShutdownReason
    BY <2>1
  <2>5. /\ wState' \in [Sockets -> {"unspawned", "running", "closing"} \cup W!WriteOutcome]
        /\ \A b \in Sockets : wState'[b] = "closing" => wReason'[b] # "none"
    BY <2>1, <2>4 DEF W!WriteOutcome, W!WriteActorShutdownReason
  <2> QED
    BY <2>1, <2>2, <2>3, <2>5
<1>11. CASE W!WriterPanics(a)
  <2>1. /\ wMsgs' = [wMsgs EXCEPT ![a] = <<>>] /\ wSink' = [wSink EXCEPT ![a] = <<>>]
        /\ wHand' = [wHand EXCEPT ![a] = <<>>]
        /\ wState' = [wState EXCEPT ![a] = "Panic"]
        /\ UNCHANGED <<wReason, wHandle>>
    BY <1>11 DEF W!WriterPanics
  <2>2. wMsgs' \in [Sockets -> Seq(W!ActorMessage)] /\ wSink' \in [Sockets -> Seq(WriteItems)]
    BY <1>5, <2>1
  <2>3. \A b \in Sockets : Len(wMsgs'[b]) <= WriteBuffer + 1
    BY <1>5, <2>1
  <2> QED
    BY <2>1, <2>2, <2>3 DEF W!WriteOutcome
<1> QED
  BY <1>6, <1>7, <1>8, <1>9, <1>10, <1>11 DEF WriterTask, W!WriterProgress


\* The write actors in every step: the client gives them what fits
\* (src/src/client/actor.rs:137-150).
LEMMA WriterTypesStep ==
    ASSUME WriterTypes, LoopTypes, [Next]_vars
    PROVE  WriterTypes'
<1>1. ASSUME UNCHANGED writerVars PROVE WriterTypes'
  BY <1>1 DEF WriterTypes, W!WriterTypeOK, writerVars
<1>2. ASSUME NEW c \in Clients, connect(c) PROVE WriterTypes'
  <2>1. /\ wState' = Both(wState, c, "running") /\ wHandle' = Both(wHandle, c, TRUE)
        /\ UNCHANGED <<wReason, wMsgs, wHand, wSink>>
    BY <1>2 DEF connect
  <2>2. /\ wState' \in [Sockets -> {"unspawned", "running", "closing"} \cup W!WriteOutcome]
        /\ \A a \in Sockets : wState'[a] = "closing" => wReason[a] # "none"
    BY <2>1 DEF Both, WriterTypes, W!WriterTypeOK
  <2>3. wHandle' \in [Sockets -> BOOLEAN]
    BY <2>1 DEF Both, WriterTypes, W!WriterTypeOK
  <2> QED
    BY <2>1, <2>2, <2>3 DEF WriterTypes, W!WriterTypeOK
<1>3. ASSUME NEW c \in Clients, NEW how, Leave(c, how) PROVE WriterTypes'
  <2>1. wHandle' = Both(wHandle, c, FALSE) /\ UNCHANGED <<wState, wReason, wMsgs, wHand, wSink>>
    BY <1>3 DEF Leave, drop_handles, wTask
  <2>2. wHandle' \in [Sockets -> BOOLEAN]
    BY <2>1 DEF Both, WriterTypes, W!WriterTypeOK
  <2> QED
    BY <2>1, <2>2 DEF WriterTypes, W!WriterTypeOK
<1>4. ASSUME NEW c \in Clients, Calling(c) PROVE UNCHANGED writerVars
  BY <1>4 DEF Calling, get_status, DropHandle, DropEvents, TakeEvent, send_message, AppUnchanged,
     wTask, wLink, writerVars
<1>5. ASSUME NEW c \in Clients, Serving(c) PROVE WriterTypes'
  <2>1. ASSUME NEW s \in Protocols, ToServer(c, s), W!Accepts(<<c, s>>) PROVE WriterTypes'
    <3>1. PICK x \in WriteItems : x = [msg |-> "ApplicationLogic", n |-> Head(msg_receiver[c]).n]
      <4>1. PICK q \in Seq(Sendable) : q = msg_receiver[c]
        BY DEF LoopTypes
      <4>2. Head(q) \in Sendable /\ Head(q).to \in Protocols
        BY <2>1, <4>1 DEF ToServer, MessageIs
      <4>3. Head(q).n \in 0 .. MaxSends
        BY <4>2 DEF Sendable, Protocols
      <4> QED
        BY <4>1, <4>3 DEF WriteItems
    <3>2. /\ wMsgs' = [wMsgs EXCEPT ![<<c, s>>] = W!send_actor_message(<<c, s>>, W!Send(x))]
          /\ UNCHANGED <<wState, wReason, wHandle, wHand, wSink>>
      BY <2>1, <3>1 DEF ToServer, MessageDone, wTask
    <3>3. <<c, s>> \in Sockets
      BY DEF Sockets
    <3> QED
      BY <3>2, <3>3, WriterAccepts
  <2>2. CASE TcpWelcome(c)
    <3>0. 0 \in 0 .. MaxSends
      BY ClientActorAssumption
    <3>1. PICK x \in WriteItems : x = [msg |-> "Hello", n |-> 0]
      BY <3>0 DEF WriteItems
    <3>2. /\ wMsgs' = [wMsgs EXCEPT ![<<c, "udp">>] = W!send_actor_message(<<c, "udp">>, W!Send(x))]
          /\ UNCHANGED <<wState, wReason, wHandle, wHand, wSink>>
      BY <2>2, <3>1 DEF TcpWelcome, Receive, wTask
    <3>3. <<c, "udp">> \in Sockets
      BY DEF Sockets, Protocols
    <3> QED
      BY <3>2, <3>3, WriterAccepts
  <2>3. ASSUME \/ GetStatus(c)
               \/ UdpHandshakeAcknowledged(c)
               \/ TcpApplicationLogic(c) /\ event_receiver[c]
               \/ UdpItem(c)
               \/ UdpWelcome(c)
               \/ UdpHeartbeat(c)
               \/ UdpApplicationLogic(c) /\ event_receiver[c]
        PROVE  UNCHANGED writerVars
    BY <2>3 DEF GetStatus, MessageDone, UdpHandshakeAcknowledged, TcpApplicationLogic, UdpItem,
       UdpWelcome, UdpHeartbeat, UdpApplicationLogic, Receive, ItemDone, wTask, wLink, writerVars
  <2> QED
    BY <1>1, <1>5, <2>1, <2>2, <2>3 DEF Serving
<1>6. ASSUME NEW a \in Sockets, ReaderTask(a) PROVE UNCHANGED writerVars
  BY <1>6 DEF ReaderTask, ReaderUnchanged, wTask, wLink, writerVars
<1>7. ASSUME NEW c \in Clients, NEW s \in Protocols, ReadsItem(c, s) PROVE UNCHANGED writerVars
  BY <1>7 DEF ReadsItem, Reads, ReaderUnchanged, wTask, wLink, writerVars
<1>8. ASSUME UNCHANGED clientVars PROVE UNCHANGED writerVars
  BY <1>8 DEF clientVars, wTask, wLink, writerVars
<1> QED
  BY <1>1, <1>2, <1>3, <1>4, <1>5, <1>6, <1>7, <1>8, WriterTaskTypes, Steps

\* The event channel is never fuller than its buffer and one event, although a
\* datagram can emit two (src/src/client/actor.rs:183), because the loop waits
\* in send; nor is the channel of the handle (src/src/client/actor_handle.rs).
LEMMA LoopTypesStep ==
    ASSUME AppInv, LoopTypes, [Next]_vars
    PROVE  LoopTypes'
<1>1. ASSUME UNCHANGED loopVars PROVE LoopTypes'
  BY <1>1 DEF LoopTypes, loopVars
<1>2. ASSUME NEW c \in Clients, NEW q \in Seq(Sendable), Len(q) <= MsgBuffer + 1,
             msg_receiver' = [msg_receiver EXCEPT ![c] = q]
      PROVE  /\ msg_receiver' \in [Clients -> Seq(Sendable)]
             /\ \A d \in Clients : Len(msg_receiver'[d]) <= MsgBuffer + 1
  BY <1>2 DEF LoopTypes
<1>3. ASSUME NEW c \in Clients, NEW m \in Sendable, Accepts(c),
             msg_receiver' = [msg_receiver EXCEPT ![c] = Append(msg_receiver[c], m)]
      PROVE  /\ msg_receiver' \in [Clients -> Seq(Sendable)]
             /\ \A d \in Clients : Len(msg_receiver'[d]) <= MsgBuffer + 1
  <2>1. PICK q \in Seq(Sendable) : q = msg_receiver[c] /\ Len(q) <= MsgBuffer
    BY <1>3 DEF LoopTypes, Accepts
  <2>2. Append(q, m) \in Seq(Sendable) /\ Len(Append(q, m)) <= MsgBuffer + 1
    BY <2>1, ClientActorAssumption
  <2> QED
    BY <1>2, <1>3, <2>1, <2>2
<1>4. ASSUME NEW c \in Clients, Calling(c) PROVE LoopTypes'
  <2> USE DEF AppUnchanged, state, app
  <2>1. CASE get_status(c)
    <3>1. [to |-> "GetStatus"] \in Sendable
      BY DEF Sendable
    <3> QED
      BY <1>3, <2>1, <3>1 DEF get_status, LoopTypes
  <2>2. ASSUME NEW s \in Protocols, send_message(c, s) PROVE LoopTypes'
    <3>1. accepted[c] \in [Protocols -> 0 .. MaxSends] /\ accepted[c][s] < MaxSends
      BY <2>2 DEF send_message, LoopTypes
    <3>2. PICK k \in 0 .. MaxSends : k = accepted[c][s] + 1
      BY <3>1, ClientActorAssumption
    <3>3. accepted' = [accepted EXCEPT ![c] = [accepted[c] EXCEPT ![s] = k]]
      BY <2>2, <3>2 DEF send_message
    <3>4. [accepted[c] EXCEPT ![s] = k] \in [Protocols -> 0 .. MaxSends]
      BY <3>1
    <3>5. accepted' \in [Clients -> [Protocols -> 0 .. MaxSends]]
      BY <3>3, <3>4 DEF LoopTypes
    <3>6. [to |-> s, n |-> k] \in Sendable
      BY DEF Sendable
    <3>7. /\ msg_receiver' \in [Clients -> Seq(Sendable)]
          /\ \A d \in Clients : Len(msg_receiver'[d]) <= MsgBuffer + 1
      BY <1>3, <2>2, <3>2, <3>6 DEF send_message
    <3> QED
      BY <2>2, <3>5, <3>7 DEF send_message, LoopTypes
  <2>3. CASE DropHandle(c)
    BY <2>3 DEF DropHandle, LoopTypes
  <2>4. CASE TakeEvent(c) \/ DropEvents(c)
    <3>1. PICK k \in 0 .. EventBuffer + 1 : unread' = [unread EXCEPT ![c] = k]
      <4>1. unread[c] \in 0 .. EventBuffer + 1
        BY DEF LoopTypes
      <4>2. CASE TakeEvent(c)
        <5>1. unread[c] - 1 \in 0 .. EventBuffer + 1
          BY <4>1, <4>2, ClientActorAssumption DEF TakeEvent
        <5> QED
          BY <4>2, <5>1 DEF TakeEvent
      <4>3. CASE DropEvents(c)
        <5>1. 0 \in 0 .. EventBuffer + 1
          BY ClientActorAssumption
        <5> QED
          BY <4>3, <5>1 DEF DropEvents
      <4> QED
        BY <2>4, <4>2, <4>3
    <3>2. unread' \in [Clients -> 0 .. EventBuffer + 1]
      BY <3>1 DEF LoopTypes
    <3>3. UNCHANGED <<latest_udp_heartbeat, item, msg_receiver, accepted>>
      BY <2>4 DEF TakeEvent, DropEvents
    <3> QED
      BY <3>2, <3>3 DEF LoopTypes
  <2> QED
    BY <1>4, <2>1, <2>2, <2>3, <2>4 DEF Calling
<1>5. ASSUME NEW c \in Clients, NEW how, Leave(c, how) PROVE LoopTypes'
  <2>1. <<>> \in Seq(Sendable) /\ Len(<<>>) <= MsgBuffer + 1
    BY ClientActorAssumption
  <2>2. /\ msg_receiver' \in [Clients -> Seq(Sendable)]
        /\ \A d \in Clients : Len(msg_receiver'[d]) <= MsgBuffer + 1
    BY <1>2, <1>5, <2>1 DEF Leave
  <2>3. \A d \in Clients : Len(item'[d]) <= 1
    BY <1>5 DEF Leave, AppInv, AppTypes, LoopTypes
  <2> QED
    BY <1>5, <2>2, <2>3 DEF Leave, LoopTypes
<1>6. ASSUME NEW c \in Clients, NEW e, Free(c), emit(c, e)
      PROVE  unread' \in [Clients -> 0 .. EventBuffer + 1]
  <2>1. CASE event_receiver[c]
    <3>1. PICK k \in 0 .. EventBuffer + 1 : k = unread[c] + 1
      BY <1>6, <2>1, ClientActorAssumption DEF Free, LoopTypes
    <3> QED
      BY <1>6, <2>1, <3>1 DEF emit, LoopTypes
  <2>2. CASE ~event_receiver[c]
    BY <1>6, <2>2 DEF emit, LoopTypes
  <2> QED
    BY <2>1, <2>2
<1>7. ASSUME NEW c \in Clients, NEW q \in Seq(ReadItems), Len(q) <= 1, item' = [item EXCEPT ![c] = q]
      PROVE  \A d \in Clients : Len(item'[d]) <= 1
  BY <1>7 DEF AppInv, AppTypes, LoopTypes
<1>8. ASSUME NEW c \in Clients, Serving(c) PROVE LoopTypes'
  <2> USE DEF state, app
  <2>1. ASSUME NEW s, MessageIs(c, s), MessageDone(c) PROVE LoopTypes'
    <3>1. PICK q \in Seq(Sendable) : q = msg_receiver[c] /\ Len(q) <= MsgBuffer + 1 /\ q # <<>>
      BY <2>1 DEF LoopTypes, MessageIs
    <3>2. Tail(q) \in Seq(Sendable) /\ Len(Tail(q)) <= MsgBuffer + 1
      BY <3>1, ClientActorAssumption
    <3> QED
      BY <1>2, <2>1, <3>1, <3>2 DEF MessageDone, LoopTypes
  <2>2. CASE (\E s \in Protocols : ToServer(c, s) /\ W!Accepts(<<c, s>>)) \/ GetStatus(c)
    BY <2>1, <2>2 DEF ToServer, GetStatus
  <2>3. CASE TcpWelcome(c)
    BY <2>3 DEF TcpWelcome, Receive, LoopTypes
  <2>4. CASE UdpHandshakeAcknowledged(c) \/ (TcpApplicationLogic(c) /\ event_receiver[c])
    <3>1. /\ \E e : emit(c, e)
          /\ Free(c) /\ UNCHANGED <<latest_udp_heartbeat, item, msg_receiver, accepted>>
      BY <2>4 DEF UdpHandshakeAcknowledged, TcpApplicationLogic, Receive, ReaderHas, Ready
    <3>2. unread' \in [Clients -> 0 .. EventBuffer + 1]
      BY <1>6, <3>1
    <3> QED
      BY <3>1, <3>2 DEF LoopTypes
  <2>5. CASE UdpItem(c)
    <3>1. unread' \in [Clients -> 0 .. EventBuffer + 1]
      <4>1. CASE has_received_on_udp[c]
        BY <2>5, <4>1 DEF UdpItem, LoopTypes
      <4>2. CASE ~has_received_on_udp[c]
        BY <1>6, <2>5, <4>2 DEF UdpItem, ReaderHas, Ready
      <4> QED
        BY <4>1, <4>2
    <3>2. \A d \in Clients : Len(item'[d]) <= 1
      <4>1. Head(rTx[<<c, "udp">>]) \in ReadItems
        BY <2>5, AppReceive DEF UdpItem, ReaderHas, Protocols
      <4>2. PICK x \in ReadItems : item' = [item EXCEPT ![c] = <<x>>]
        BY <2>5, <4>1 DEF UdpItem
      <4>3. <<x>> \in Seq(ReadItems) /\ Len(<<x>>) <= 1
        OBVIOUS
      <4> QED
        BY <1>7, <4>2, <4>3
    <3>3. UNCHANGED <<latest_udp_heartbeat, msg_receiver, accepted>>
      BY <2>5 DEF UdpItem, Receive
    <3> QED
      BY <3>1, <3>2, <3>3 DEF LoopTypes
  <2>6. CASE UdpWelcome(c) \/ UdpHeartbeat(c) \/ (UdpApplicationLogic(c) /\ event_receiver[c])
    <3>1. ItemDone(c) /\ Free(c)
      BY <2>6 DEF UdpWelcome, UdpHeartbeat, UdpApplicationLogic, ItemIs
    <3>2. \A d \in Clients : Len(item'[d]) <= 1
      <4>1. <<>> \in Seq(ReadItems) /\ Len(<<>>) <= 1
        OBVIOUS
      <4> QED
        BY <1>7, <3>1, <4>1 DEF ItemDone
    <3>3. latest_udp_heartbeat' \in [Clients -> BOOLEAN]
      BY <2>6 DEF UdpWelcome, UdpHeartbeat, UdpApplicationLogic, LoopTypes
    <3>4. unread' \in [Clients -> 0 .. EventBuffer + 1]
      <4>1. CASE UdpWelcome(c) \/ UdpHeartbeat(c)
        BY <4>1 DEF UdpWelcome, UdpHeartbeat, LoopTypes
      <4>2. CASE UdpApplicationLogic(c) /\ event_receiver[c]
        BY <1>6, <3>1, <4>2 DEF UdpApplicationLogic
      <4> QED
        BY <2>6, <4>1, <4>2
    <3> QED
      BY <3>1, <3>2, <3>3, <3>4 DEF ItemDone, LoopTypes
  <2> QED
    BY <1>8, <2>2, <2>3, <2>4, <2>5, <2>6 DEF Serving
<1>9. ASSUME \/ UNCHANGED <<clientVars, reads>>
             \/ \E c \in Clients : connect(c)
             \/ \E c \in Clients, s \in Protocols : ReadsItem(c, s)
             \/ \E a \in Sockets : ReaderTask(a) \/ WriterTask(a)
      PROVE  UNCHANGED loopVars
  BY <1>9 DEF clientVars, connect, ReadsItem, Reads, ReaderTask, WriterTask, ReaderUnchanged,
     WriterUnchanged, LoopUnchanged, state, app, channels, loopVars
<1> QED
  BY <1>1, <1>4, <1>5, <1>8, <1>9, Steps

\* The types hold before the first step.
LEMMA TypesInit == Init => LoopTypes /\ ReaderTypes /\ WriterTypes
<1> SUFFICES ASSUME Init PROVE LoopTypes /\ ReaderTypes /\ WriterTypes
  OBVIOUS
<1> USE DEF Init, ClientInit, R!ReaderInit, W!WriterInit
<1>1. LoopTypes
  BY ClientActorAssumption DEF LoopTypes
<1>2. ReaderTypes
  BY ClientActorAssumption DEF ReaderTypes, ReaderStates
<1>3. WriterTypes
  BY ClientActorAssumption DEF WriterTypes, W!WriterTypeOK
<1> QED
  BY <1>1, <1>2, <1>3

\* The invariant about types and bounds holds of every behaviour.
THEOREM TypesInvariant == Spec => [](LoopTypes /\ ReaderTypes /\ WriterTypes)
<1>1. AppInv /\ LoopTypes /\ ReaderTypes /\ WriterTypes /\ [Next]_vars =>
          LoopTypes' /\ ReaderTypes' /\ WriterTypes'
  BY LoopTypesStep, ReaderTypesStep, WriterTypesStep
<1> QED
  BY <1>1, TypesInit, AppInvariant, PTL DEF Spec

\* The variables keep their types and every channel of the client its bound:
\* the event channel (src/src/client/actor.rs:183), the channel of the handle
\* (src/src/client/actor_handle.rs:35) and those of the write actors.
THEOREM ClientTypes == Spec => []ClientTypeOK
<1>1. AppInv /\ LoopTypes /\ ReaderTypes /\ WriterTypes => ClientTypeOK
  <2> SUFFICES ASSUME AppInv, LoopTypes, ReaderTypes, WriterTypes PROVE ClientTypeOK
    OBVIOUS
  <2>1. R!ReaderTypeOK
    BY DEF AppInv, AppTypes, ReaderTypes, ReaderStates, R!ReaderTypeOK
  <2>2. msg_receiver \in [Clients -> Seq(Message)]
    <3>1. Sendable \subseteq Message
      BY DEF Sendable, Message
    <3>2. Seq(Sendable) \subseteq Seq(Message)
      BY <3>1
    <3> QED
      BY <3>2 DEF LoopTypes
  <2> QED
    BY <2>1, <2>2 DEF AppInv, AppTypes, LoopTypes, WriterTypes, ClientTypeOK
<1> QED
  BY <1>1, AppInvariant, TypesInvariant, PTL


-----------------------------------------------------------------------------
(* From the socket to the application.                                     *)

\* Of the items read, as flags says, the last are in tx and before them hand.
Held(tx, hand, flags) ==
    /\ Len(hand) <= Len(flags) - Len(tx)
    /\ \A i \in 1 .. Len(tx) : IsItem(tx[i], Len(flags) - Len(tx) + i, flags)
    /\ \A i \in 1 .. Len(hand) : IsItem(hand[i], Len(flags) - Len(tx), flags)

Done(tx, hand, flags) == Len(flags) - Len(tx) - Len(hand)

OnPath(c, s) ==
    client[c] = "running" =>
        /\ rRx[<<c, s>>]
        /\ Held(rTx[<<c, s>>], InHand(c, s), reads[<<c, s>>])
        /\ event_receiver[c] =>
              Reports(events[c], EventOf(s), reads[<<c, s>>],
                      Done(rTx[<<c, s>>], InHand(c, s), reads[<<c, s>>]))

\* A client that was not spawned has read and reported nothing.
Blank(c) ==
    client[c] = "unspawned" =>
        /\ events[c] = <<>> /\ item[c] = <<>>
        /\ \A s \in Protocols :
              rState[<<c, s>>] = "unspawned" /\ rTx[<<c, s>>] = <<>> /\ reads[<<c, s>>] = <<>>

PathHolds(c) == Blank(c) /\ \A s \in Protocols : OnPath(c, s)

PathInv == \A c \in Clients : PathHolds(c)

\* An item that is read goes to the end of the channel
\* (src/src/actors/read_actor.rs:148).
LEMMA HeldRead ==
    ASSUME NEW tx \in Seq(ReadItems), NEW hand \in Seq(ReadItems), NEW flags \in Seq(BOOLEAN),
           NEW x \in ReadItems, NEW b \in BOOLEAN,
           Held(tx, hand, flags), x.n = Len(flags) + 1, b = (x.kind = "ApplicationLogic")
    PROVE  /\ Held(Append(tx, x), hand, Append(flags, b))
           /\ Done(Append(tx, x), hand, Append(flags, b)) = Done(tx, hand, flags)
           /\ Done(tx, hand, flags) \in 0 .. Len(flags)
<1> DEFINE f == Append(flags, b)
           t == Append(tx, x)
<1>1. /\ Len(f) = Len(flags) + 1 /\ Len(t) = Len(tx) + 1 /\ Len(flags) \in Nat /\ Len(tx) \in Nat
      /\ Len(hand) \in Nat
      /\ f[Len(flags) + 1] = b /\ t[Len(tx) + 1] = x
      /\ \A i \in 1 .. Len(flags) : f[i] = flags[i]
      /\ \A i \in 1 .. Len(tx) : t[i] = tx[i]
  OBVIOUS
<1> HIDE DEF f, t
<1>2. ASSUME NEW i \in 1 .. Len(t) PROVE IsItem(t[i], Len(f) - Len(t) + i, f)
  <2>1. CASE i = Len(tx) + 1
    <3>1. Len(f) - Len(t) + i = Len(flags) + 1 /\ t[i] = x
      BY <1>1, <2>1
    <3>2. (x.kind = "ApplicationLogic") <=> f[Len(flags) + 1]
      BY <1>1, Zenon
    <3> QED
      BY <3>1, <3>2 DEF IsItem
  <2>2. CASE i # Len(tx) + 1
    <3>1. i \in 1 .. Len(tx)
      BY <1>1, <2>2, SMTT(30)
    <3>2. IsItem(tx[i], Len(flags) - Len(tx) + i, flags)
      BY <3>1 DEF Held
    <3>3. Len(flags) - Len(tx) + i \in 1 .. Len(flags)
      BY <1>1, <3>1 DEF Held
    <3> QED
      BY <1>1, <3>1, <3>2, <3>3 DEF IsItem
  <2> QED
    BY <2>1, <2>2
<1>3. ASSUME NEW i \in 1 .. Len(hand) PROVE IsItem(hand[i], Len(f) - Len(t), f)
  <2>1. IsItem(hand[i], Len(flags) - Len(tx), flags)
    BY DEF Held
  <2>2. Len(flags) - Len(tx) \in 1 .. Len(flags)
    BY <1>1 DEF Held
  <2> QED
    BY <1>1, <2>1, <2>2 DEF IsItem
<1>4. Held(t, hand, f)
  BY <1>1, <1>2, <1>3 DEF Held
<1> QED
  BY <1>1, <1>4 DEF Done, Held, f, t

\* The loop takes the first item of the channel.
LEMMA HeldTake ==
    ASSUME NEW tx \in Seq(ReadItems), NEW hand \in Seq(ReadItems), NEW flags \in Seq(BOOLEAN),
           Held(tx, hand, flags), Len(hand) = 0, tx # <<>>
    PROVE  /\ Head(tx) \in ReadItems /\ Tail(tx) \in Seq(ReadItems)
           /\ Held(Tail(tx), <<Head(tx)>>, flags)
           /\ Done(Tail(tx), <<Head(tx)>>, flags) = Done(tx, hand, flags)
           /\ Len(<<Head(tx)>>) = 1
<1> DEFINE t == Tail(tx)
           x == Head(tx)
           h == <<x>>
<1>1. /\ Len(t) = Len(tx) - 1 /\ Len(tx) \in Nat /\ Len(tx) > 0 /\ Len(flags) \in Nat
      /\ x = tx[1] /\ t \in Seq(ReadItems) /\ x \in ReadItems
      /\ \A i \in 1 .. Len(t) : t[i] = tx[i + 1]
      /\ Len(h) = 1 /\ h[1] = x
  OBVIOUS
<1> HIDE DEF t, x, h
<1>2. ASSUME NEW i \in 1 .. Len(t) PROVE IsItem(t[i], Len(flags) - Len(t) + i, flags)
  <2>1. i + 1 \in 1 .. Len(tx) /\ Len(flags) - Len(tx) + (i + 1) = Len(flags) - Len(t) + i
    BY <1>1
  <2> QED
    BY <1>1, <2>1 DEF Held
<1>3. ASSUME NEW i \in 1 .. Len(h) PROVE IsItem(h[i], Len(flags) - Len(t), flags)
  <2>1. i = 1 /\ 1 \in 1 .. Len(tx) /\ Len(flags) - Len(tx) + 1 = Len(flags) - Len(t)
    BY <1>1
  <2> QED
    BY <1>1, <2>1 DEF Held
<1>4. Held(t, h, flags)
  BY <1>1, <1>2, <1>3 DEF Held
<1> QED
  BY <1>1, <1>4 DEF Done, t, x, h

\* An item that was dealt with.
LEMMA HeldDone ==
    ASSUME NEW tx \in Seq(ReadItems), NEW hand \in Seq(ReadItems), NEW flags \in Seq(BOOLEAN),
           Held(tx, hand, flags), Len(hand) = 1
    PROVE  /\ Held(tx, <<>>, flags)
           /\ Done(tx, <<>>, flags) = Done(tx, hand, flags) + 1
           /\ Done(tx, hand, flags) \in Nat
           /\ Done(tx, hand, flags) + 1 \in 1 .. Len(flags)
           /\ IsItem(hand[1], Done(tx, hand, flags) + 1, flags)
<1>1. Len(<<>>) = 0 /\ Len(tx) \in Nat /\ Len(flags) \in Nat
  OBVIOUS
<1>2. PICK e : e = <<>> /\ Len(e) = 0
  OBVIOUS
<1>3. Held(tx, e, flags) /\ Done(tx, e, flags) = Done(tx, hand, flags) + 1
  <2>1. Len(e) = 0
    BY <1>2
  <2>2. Len(tx) + 1 <= Len(flags)
    BY <1>1 DEF Held
  <2>3. Len(e) <= Len(flags) - Len(tx)
    BY <1>1, <2>1, <2>2
  <2>4. \A i \in 1 .. Len(tx) : IsItem(tx[i], Len(flags) - Len(tx) + i, flags)
    BY DEF Held
  <2>5. 1 .. Len(e) = {}
    BY <2>1
  <2>6. Held(tx, e, flags)
    BY <2>3, <2>4, <2>5 DEF Held
  <2>7. Done(tx, e, flags) = Done(tx, hand, flags) + 1
    BY <1>1, <2>1, <2>2 DEF Done
  <2> QED
    BY <2>6, <2>7
<1>4. 1 \in 1 .. Len(hand)
  OBVIOUS
<1>5. IsItem(hand[1], Len(flags) - Len(tx), flags) /\ Len(flags) - Len(tx) = Done(tx, hand, flags) + 1
  BY <1>1, <1>4 DEF Held, Done
<1>6. Done(tx, hand, flags) \in Nat /\ Done(tx, hand, flags) + 1 \in 1 .. Len(flags)
  BY <1>1 DEF Held, Done
<1> QED
  BY <1>2, <1>3, <1>5, <1>6

\* Another item read leaves the reports as they are.
LEMMA ReportsRead ==
    ASSUME NEW es \in Seq(Event), NEW ev, NEW flags \in Seq(BOOLEAN), NEW b \in BOOLEAN,
           NEW k \in 0 .. Len(flags), Reports(es, ev, flags, k)
    PROVE  Reports(es, ev, Append(flags, b), k)
<1>1. \A n \in 1 .. k : Append(flags, b)[n] = flags[n]
  OBVIOUS
<1> QED
  BY <1>1 DEF Reports

\* An event of another kind is no report.
LEMMA ReportsOther ==
    ASSUME NEW es \in Seq(Event), NEW ev, NEW flags, NEW k, NEW e \in Event, e.ev # ev,
           Reports(es, ev, flags, k)
    PROVE  Reports(Append(es, e), ev, flags, k)
<1> DEFINE E == Append(es, e)
<1>1. /\ DOMAIN E = 1 .. Len(es) + 1 /\ DOMAIN es = 1 .. Len(es) /\ Len(es) \in Nat
      /\ E[Len(es) + 1] = e /\ \A i \in DOMAIN es : E[i] = es[i]
  OBVIOUS
<1> HIDE DEF E
<1>2. \A i \in DOMAIN E : E[i].ev = ev => i \in DOMAIN es /\ E[i] = es[i]
  BY <1>1
<1>3. DOMAIN es \subseteq DOMAIN E
  BY <1>1
<1>4. Reports(E, ev, flags, k)
  BY <1>1, <1>2, <1>3 DEF Reports
<1> QED
  BY <1>4 DEF E

\* An item that is no application message is not reported.
LEMMA ReportsSkip ==
    ASSUME NEW es \in Seq(Event), NEW ev, NEW flags \in Seq(BOOLEAN), NEW k \in Nat,
           ~flags[k + 1], Reports(es, ev, flags, k)
    PROVE  Reports(es, ev, flags, k + 1)
<1>1. \A n \in 1 .. k + 1 : flags[n] => n \in 1 .. k
  OBVIOUS
<1>2. \A i \in DOMAIN es : es[i].n \in 1 .. k => es[i].n \in 1 .. k + 1
  OBVIOUS
<1> QED
  BY <1>1, <1>2 DEF Reports

\* An application message is reported with its number, after the earlier ones.
LEMMA ReportsMore ==
    ASSUME NEW es \in Seq(Event), NEW ev, NEW flags \in Seq(BOOLEAN), NEW k \in Nat,
           flags[k + 1], NEW e \in Event, e.ev = ev, e.n = k + 1, Reports(es, ev, flags, k)
    PROVE  Reports(Append(es, e), ev, flags, k + 1)
<1> DEFINE E == Append(es, e)
<1>1. /\ DOMAIN E = 1 .. Len(es) + 1 /\ DOMAIN es = 1 .. Len(es) /\ Len(es) \in Nat
      /\ E[Len(es) + 1] = e /\ \A i \in DOMAIN es : E[i] = es[i]
  OBVIOUS
<1> HIDE DEF E
<1>2. \A i \in DOMAIN E : E[i].ev = ev => E[i].n \in 1 .. k + 1 /\ flags[E[i].n]
  <2> TAKE i \in DOMAIN E
  <2>1. CASE i = Len(es) + 1
    BY <1>1, <2>1
  <2>2. CASE i # Len(es) + 1
    <3>1. i \in DOMAIN es /\ E[i] = es[i]
      BY <1>1, <2>2
    <3> QED
      BY <3>1 DEF Reports
  <2> QED
    BY <2>1, <2>2
<1>3. \A n \in 1 .. k + 1 : flags[n] => \E i \in DOMAIN E : E[i].ev = ev /\ E[i].n = n
  <2> TAKE n \in 1 .. k + 1
  <2>1. CASE n = k + 1
    BY <1>1, <2>1
  <2>2. CASE n # k + 1
    <3>1. n \in 1 .. k
      BY <2>2
    <3>2. flags[n] => \E i \in DOMAIN es : es[i].ev = ev /\ es[i].n = n
      BY <3>1 DEF Reports
    <3>3. DOMAIN es \subseteq DOMAIN E
      BY <1>1
    <3> QED
      BY <1>1, <3>2, <3>3
  <2> QED
    BY <2>1, <2>2
<1>4. \A i, j \in DOMAIN E : E[i].ev = ev /\ E[j].ev = ev /\ i < j => E[i].n < E[j].n
  <2> SUFFICES ASSUME NEW i \in DOMAIN E, NEW j \in DOMAIN E, E[i].ev = ev, E[j].ev = ev, i < j
               PROVE  E[i].n < E[j].n
    OBVIOUS
  <2>1. i \in DOMAIN es /\ E[i] = es[i]
    BY <1>1
  <2>2. CASE j = Len(es) + 1
    <3>1. E[i].n \in 1 .. k
      BY <2>1 DEF Reports
    <3> QED
      BY <1>1, <2>2, <3>1
  <2>3. CASE j # Len(es) + 1
    <3>1. j \in DOMAIN es /\ E[j] = es[j]
      BY <1>1, <2>3
    <3> QED
      BY <2>1, <3>1 DEF Reports
  <2> QED
    BY <2>2, <2>3
<1>5. Reports(E, ev, flags, k + 1)
  BY <1>2, <1>3, <1>4 DEF Reports
<1> QED
  BY <1>5 DEF E


\* On TCP an item is taken and dealt with in one arm (src/src/client/actor.rs:157).
LEMMA HeldPass ==
    ASSUME NEW tx \in Seq(ReadItems), NEW flags \in Seq(BOOLEAN), Held(tx, <<>>, flags), tx # <<>>
    PROVE  /\ Held(Tail(tx), <<>>, flags)
           /\ Done(Tail(tx), <<>>, flags) = Done(tx, <<>>, flags) + 1
           /\ Done(tx, <<>>, flags) \in Nat
           /\ IsItem(Head(tx), Done(tx, <<>>, flags) + 1, flags)
<1>1. <<>> \in Seq(ReadItems) /\ Len(<<>>) = 0
  OBVIOUS
<1>2. PICK x \in ReadItems, t \in Seq(ReadItems) :
         /\ x = Head(tx) /\ t = Tail(tx) /\ Held(t, <<x>>, flags)
         /\ Done(t, <<x>>, flags) = Done(tx, <<>>, flags)
  BY <1>1, HeldTake
<1>3. PICK h \in Seq(ReadItems) : h = <<x>> /\ Len(h) = 1 /\ h[1] = x
  <2>1. <<x>> \in Seq(ReadItems) /\ Len(<<x>>) = 1 /\ <<x>>[1] = x
    OBVIOUS
  <2> QED
    BY <2>1, Zenon
<1>4. /\ Held(t, <<>>, flags) /\ Done(t, <<>>, flags) = Done(t, h, flags) + 1
      /\ Done(t, h, flags) \in Nat /\ IsItem(h[1], Done(t, h, flags) + 1, flags)
  BY <1>2, <1>3, HeldDone
<1> QED
  BY <1>2, <1>3, <1>4

\* A step that leaves what a client has read and reported.
LEMMA PathKeep ==
    ASSUME NEW c \in Clients, PathHolds(c),
           client'[c] = client[c], event_receiver'[c] => event_receiver[c],
           events'[c] = events[c], item'[c] = item[c],
           \A s \in Protocols :
              /\ rTx'[<<c, s>>] = rTx[<<c, s>>] /\ reads'[<<c, s>>] = reads[<<c, s>>]
              /\ rRx'[<<c, s>>] = rRx[<<c, s>>]
              /\ rState[<<c, s>>] = "unspawned" => rState'[<<c, s>>] = "unspawned"
    PROVE  PathHolds(c)'
<1>1. Blank(c)'
  BY DEF PathHolds, Blank
<1>2. ASSUME NEW s \in Protocols PROVE OnPath(c, s)'
  <2>1. OnPath(c, s) /\ InHand(c, s)' = InHand(c, s)
    BY DEF PathHolds, InHand
  <2> QED
    BY <2>1 DEF OnPath
<1> QED
  BY <1>1, <1>2 DEF PathHolds

\* connect: nothing has been read (src/src/client.rs).
LEMMA PathConnect ==
    ASSUME AppInv, ReaderTypes, PathInv, NEW c \in Clients, connect(c), UNCHANGED reads
    PROVE  PathInv'
<1>1. /\ client[c] = "unspawned" /\ client' = [client EXCEPT ![c] = "running"]
      /\ event_receiver' = [event_receiver EXCEPT ![c] = TRUE]
      /\ rState' = Both(rState, c, "running") /\ rRx' = Both(rRx, c, TRUE)
      /\ UNCHANGED <<item, events, rTx>>
  BY DEF connect, state, channels
<1>2. ASSUME NEW d \in Clients, d # c PROVE PathHolds(d)'
  <2>1. \A s \in Protocols : <<d, s>> \in Sockets /\ <<d, s>>[1] = d
    BY DEF Sockets
  <2>2. client'[d] = client[d] /\ event_receiver'[d] = event_receiver[d]
    BY <1>1, <1>2 DEF AppInv, AppTypes
  <2>3. \A s \in Protocols : rRx'[<<d, s>>] = rRx[<<d, s>>] /\ rState'[<<d, s>>] = rState[<<d, s>>]
    BY <1>1, <1>2, <2>1 DEF Both
  <2> QED
    BY <1>1, <2>2, <2>3, PathKeep DEF PathInv
<1>3. PathHolds(c)'
  <2>1. client'[c] = "running"
    BY <1>1 DEF AppInv, AppTypes
  <2>2. ASSUME NEW s \in Protocols PROVE OnPath(c, s)'
    <3>1. rTx'[<<c, s>>] = <<>> /\ reads'[<<c, s>>] = <<>> /\ events'[c] = <<>> /\ InHand(c, s)' = <<>>
      BY <1>1 DEF PathInv, PathHolds, Blank, InHand
    <3>2. rRx'[<<c, s>>]
      BY <1>1 DEF Both, Sockets
    <3>3. Held(<<>>, <<>>, <<>>)
      BY DEF Held
    <3>4. Reports(<<>>, EventOf(s), <<>>, Done(<<>>, <<>>, <<>>))
      BY DEF Reports, Done
    <3> QED
      BY <3>1, <3>2, <3>3, <3>4 DEF OnPath
  <2> QED
    BY <2>1, <2>2 DEF PathHolds, Blank
<1> QED
  BY <1>2, <1>3 DEF PathInv

\* An item of TCP: a message is reported with its number, the others are not
\* messages (src/src/client/actor.rs:157-178).
LEMMA PathTcp ==
    ASSUME AppInv, PathInv, NEW c \in Clients, UNCHANGED reads,
           \/ TcpWelcome(c)
           \/ UdpHandshakeAcknowledged(c)
           \/ TcpApplicationLogic(c) /\ event_receiver[c]
    PROVE  PathInv'
<1>1. /\ client[c] = "running" /\ rTx[<<c, "tcp">>] # <<>>
      /\ rTx' = [rTx EXCEPT ![<<c, "tcp">>] = Tail(@)]
      /\ UNCHANGED <<client, event_receiver, item, rRx, rState>>
  BY DEF TcpWelcome, UdpHandshakeAcknowledged, TcpApplicationLogic, Receive, ReaderHas, Ready,
     Free, app, state, rTask
<1>2. PICK tx \in Seq(ReadItems), flags \in Seq(BOOLEAN) :
         tx = rTx[<<c, "tcp">>] /\ flags = reads[<<c, "tcp">>]
  BY DEF AppInv, AppTypes, Sockets, Protocols
<1>3. /\ rTx'[<<c, "tcp">>] = Tail(tx)
      /\ \A a \in Sockets : a # <<c, "tcp">> => rTx'[a] = rTx[a]
  BY <1>1, <1>2 DEF AppInv, AppTypes, Sockets, Protocols
<1>4. PICK x \in ReadItems : x = Head(tx) /\ x = TcpItem(c)
  BY <1>1, <1>2 DEF TcpItem
<1>5. /\ \A d \in Clients \ {c} : events'[d] = events[d]
      /\ \/ events'[c] = events[c] /\ (event_receiver[c] => x.kind # "ApplicationLogic")
         \/ /\ x.kind = "ApplicationLogic"
            /\ \E e \in Event : e.ev = "TcpMessage" /\ e.n = x.n /\ events'[c] = Append(events[c], e)
         \/ /\ x.kind # "ApplicationLogic"
            /\ \E e \in Event : e.ev = "CanSendUdpMessages" /\ events'[c] = Append(events[c], e)
  <2>1. events \in [Clients -> Seq(Event)]
    BY DEF AppInv, AppTypes
  <2>2. CASE TcpWelcome(c)
    BY <1>4, <2>2 DEF TcpWelcome
  <2>3. CASE UdpHandshakeAcknowledged(c)
    <3>1. x.kind # "ApplicationLogic" /\ emit(c, CanSendUdpMessages)
      BY <1>4, <2>3 DEF UdpHandshakeAcknowledged
    <3> QED
      BY <2>1, <3>1, EventKinds DEF emit
  <2>4. CASE TcpApplicationLogic(c) /\ event_receiver[c]
    <3>1. x.kind = "ApplicationLogic" /\ emit(c, TcpMessage(x.n)) /\ x.n \in Nat
      BY <1>4, <2>4 DEF TcpApplicationLogic, ReadItems
    <3>2. PICK e \in Event : e = TcpMessage(x.n) /\ e.ev = "TcpMessage" /\ e.n = x.n
      BY <3>1, EventKinds DEF TcpMessage
    <3>3. events' = [events EXCEPT ![c] = Append(events[c], e)]
      BY <2>4, <3>1, <3>2 DEF emit
    <3> QED
      BY <2>1, <3>1, <3>2, <3>3
  <2> QED
    BY <2>2, <2>3, <2>4
<1>6. ASSUME NEW d \in Clients, d # c PROVE PathHolds(d)'
  <2>1. \A s \in Protocols : rTx'[<<d, s>>] = rTx[<<d, s>>]
    BY <1>3, <1>6 DEF Sockets
  <2> QED
    BY <1>1, <1>5, <1>6, <2>1, PathKeep DEF PathInv
<1>7. PICK es \in Seq(Event) : es = events[c]
  BY DEF AppInv, AppTypes
<1>8. OnPath(c, "udp")'
  <2>1. OnPath(c, "udp") /\ rTx'[<<c, "udp">>] = rTx[<<c, "udp">>] /\ InHand(c, "udp")' = InHand(c, "udp")
    BY <1>1, <1>3 DEF PathInv, PathHolds, Protocols, Sockets, InHand
  <2>2. PICK k : k = Done(rTx[<<c, "udp">>], InHand(c, "udp"), reads[<<c, "udp">>])
    OBVIOUS
  <2>3. event_receiver[c] => Reports(es, "UdpMessage", reads[<<c, "udp">>], k)
    BY <1>1, <1>7, <2>1, <2>2 DEF OnPath, EventOf
  <2>4. event_receiver[c] => Reports(events'[c], "UdpMessage", reads[<<c, "udp">>], k)
    <3>1. CASE events'[c] = events[c]
      BY <1>7, <2>3, <3>1
    <3>2. ASSUME NEW e \in Event, e.ev # "UdpMessage", events'[c] = Append(events[c], e)
          PROVE  event_receiver[c] => Reports(events'[c], "UdpMessage", reads[<<c, "udp">>], k)
      BY <1>7, <2>3, <3>2, ReportsOther
    <3> QED
      BY <1>5, <3>1, <3>2
  <2> QED
    BY <1>1, <2>1, <2>2, <2>4 DEF OnPath, EventOf
<1>9. OnPath(c, "tcp")'
  <2>1. OnPath(c, "tcp") /\ InHand(c, "tcp") = <<>> /\ InHand(c, "tcp")' = <<>>
    BY DEF PathInv, PathHolds, Protocols, InHand
  <2>2. PICK k : k = Done(tx, <<>>, flags)
    OBVIOUS
  <2>3. /\ Held(tx, <<>>, flags) /\ rRx[<<c, "tcp">>]
        /\ event_receiver[c] => Reports(es, "TcpMessage", flags, k)
    BY <1>1, <1>2, <1>7, <2>1, <2>2 DEF OnPath, EventOf
  <2>4. /\ Held(Tail(tx), <<>>, flags) /\ Done(Tail(tx), <<>>, flags) = k + 1 /\ k \in Nat
        /\ x.n = k + 1 /\ ((x.kind = "ApplicationLogic") <=> flags[k + 1])
    BY <1>1, <1>2, <1>4, <2>2, <2>3, HeldPass DEF IsItem
  <2>5. event_receiver[c] => Reports(events'[c], "TcpMessage", flags, k + 1)
    <3>1. CASE events'[c] = events[c] /\ (event_receiver[c] => x.kind # "ApplicationLogic")
      BY <1>7, <2>3, <2>4, <3>1, ReportsSkip
    <3>2. ASSUME x.kind = "ApplicationLogic", NEW e \in Event, e.ev = "TcpMessage", e.n = x.n,
                 events'[c] = Append(events[c], e)
          PROVE  event_receiver[c] => Reports(events'[c], "TcpMessage", flags, k + 1)
      BY <1>7, <2>3, <2>4, <3>2, ReportsMore
    <3>3. ASSUME x.kind # "ApplicationLogic", NEW e \in Event, e.ev = "CanSendUdpMessages",
                 events'[c] = Append(events[c], e)
          PROVE  event_receiver[c] => Reports(events'[c], "TcpMessage", flags, k + 1)
      <4>1. event_receiver[c] => Reports(es, "TcpMessage", flags, k + 1)
        BY <2>3, <2>4, <3>3, ReportsSkip
      <4> QED
        BY <1>7, <3>3, <4>1, ReportsOther
    <3> QED
      BY <1>5, <3>1, <3>2, <3>3
  <2> QED
    BY <1>1, <1>2, <1>3, <2>1, <2>3, <2>4, <2>5 DEF OnPath, EventOf
<1>10. PathHolds(c)'
  BY <1>1, <1>8, <1>9 DEF PathHolds, Blank, Protocols
<1> QED
  BY <1>6, <1>10 DEF PathInv


\* A datagram is taken in hand, the first one after CanReceiveUdpMessages was
\* reported; neither is a report of a message (src/src/client/actor.rs:180-183).
LEMMA PathUdpItem ==
    ASSUME AppInv, PathInv, NEW c \in Clients, UNCHANGED reads, UdpItem(c)
    PROVE  PathInv'
<1>1. /\ client[c] = "running" /\ rTx[<<c, "udp">>] # <<>> /\ item[c] = <<>>
      /\ rTx' = [rTx EXCEPT ![<<c, "udp">>] = Tail(@)]
      /\ item' = [item EXCEPT ![c] = <<Head(rTx[<<c, "udp">>])>>]
      /\ UNCHANGED <<client, event_receiver, rRx, rState>>
  BY DEF UdpItem, Receive, ReaderHas, Ready, Free, app, rTask
<1>2. PICK tx \in Seq(ReadItems), flags \in Seq(BOOLEAN) :
         tx = rTx[<<c, "udp">>] /\ flags = reads[<<c, "udp">>]
  BY DEF AppInv, AppTypes, Sockets, Protocols
<1>3. /\ rTx'[<<c, "udp">>] = Tail(tx)
      /\ \A a \in Sockets : a # <<c, "udp">> => rTx'[a] = rTx[a]
      /\ item'[c] = <<Head(tx)>>
      /\ \A d \in Clients : d # c => item'[d] = item[d]
  BY <1>1, <1>2 DEF AppInv, AppTypes, Sockets, Protocols
<1>4. /\ \A d \in Clients \ {c} : events'[d] = events[d]
      /\ \/ events'[c] = events[c]
         \/ \E e \in Event : e.ev = "CanReceiveUdpMessages" /\ events'[c] = Append(events[c], e)
  <2>1. events \in [Clients -> Seq(Event)]
    BY DEF AppInv, AppTypes
  <2> QED
    BY <2>1, EventKinds DEF UdpItem, emit
<1>5. ASSUME NEW d \in Clients, d # c PROVE PathHolds(d)'
  <2>1. \A s \in Protocols : rTx'[<<d, s>>] = rTx[<<d, s>>]
    BY <1>3, <1>5 DEF Sockets
  <2> QED
    BY <1>1, <1>3, <1>4, <1>5, <2>1, PathKeep DEF PathInv
<1>6. PICK es \in Seq(Event) : es = events[c]
  BY DEF AppInv, AppTypes
<1>7. ASSUME NEW flag, NEW k, NEW s \in Protocols, event_receiver[c] => Reports(es, EventOf(s), flag, k)
      PROVE  event_receiver[c] => Reports(events'[c], EventOf(s), flag, k)
  <2>1. CASE events'[c] = events[c]
    BY <1>6, <1>7, <2>1
  <2>2. ASSUME NEW e \in Event, e.ev = "CanReceiveUdpMessages", events'[c] = Append(events[c], e)
        PROVE  event_receiver[c] => Reports(events'[c], EventOf(s), flag, k)
    <3>1. e.ev # EventOf(s)
      BY <2>2 DEF EventOf
    <3> QED
      BY <1>6, <1>7, <2>2, <3>1, ReportsOther
  <2> QED
    BY <1>4, <2>1, <2>2
<1>8. OnPath(c, "tcp")'
  <2>1. /\ OnPath(c, "tcp") /\ rTx'[<<c, "tcp">>] = rTx[<<c, "tcp">>] /\ "tcp" \in Protocols
        /\ InHand(c, "tcp") = <<>> /\ InHand(c, "tcp")' = <<>>
    BY <1>3 DEF PathInv, PathHolds, Protocols, Sockets, InHand
  <2>2. PICK k : k = Done(rTx[<<c, "tcp">>], <<>>, reads[<<c, "tcp">>])
    OBVIOUS
  <2>3. event_receiver[c] => Reports(es, EventOf("tcp"), reads[<<c, "tcp">>], k)
    BY <1>1, <1>6, <2>1, <2>2 DEF OnPath
  <2>4. event_receiver[c] => Reports(events'[c], EventOf("tcp"), reads[<<c, "tcp">>], k)
    BY <1>7, <2>1, <2>3
  <2> QED
    BY <1>1, <2>1, <2>2, <2>4 DEF OnPath
<1>9. OnPath(c, "udp")'
  <2>1. /\ OnPath(c, "udp") /\ "udp" \in Protocols
        /\ InHand(c, "udp") = <<>> /\ InHand(c, "udp")' = <<Head(tx)>>
    BY <1>1, <1>3 DEF PathInv, PathHolds, Protocols, InHand
  <2>2. PICK k : k = Done(tx, <<>>, flags)
    OBVIOUS
  <2>3. /\ Held(tx, <<>>, flags) /\ rRx[<<c, "udp">>]
        /\ event_receiver[c] => Reports(es, EventOf("udp"), flags, k)
    BY <1>1, <1>2, <1>6, <2>1, <2>2 DEF OnPath
  <2>4. <<>> \in Seq(ReadItems) /\ Len(<<>>) = 0
    OBVIOUS
  <2>5. Held(Tail(tx), <<Head(tx)>>, flags) /\ Done(Tail(tx), <<Head(tx)>>, flags) = k
    BY <1>1, <1>2, <2>2, <2>3, <2>4, HeldTake
  <2>6. event_receiver[c] => Reports(events'[c], EventOf("udp"), flags, k)
    BY <1>7, <2>1, <2>3
  <2> QED
    BY <1>1, <1>2, <1>3, <2>1, <2>3, <2>5, <2>6 DEF OnPath
<1>10. PathHolds(c)'
  BY <1>1, <1>8, <1>9 DEF PathHolds, Blank, Protocols
<1> QED
  BY <1>5, <1>10 DEF PathInv

\* The datagram in hand: a message is reported with its number, the others are
\* not messages (src/src/client/actor.rs:184-211).
LEMMA PathDatagram ==
    ASSUME AppInv, LoopTypes, PathInv, NEW c \in Clients, UNCHANGED reads,
           \/ UdpWelcome(c)
           \/ UdpHeartbeat(c)
           \/ UdpApplicationLogic(c) /\ event_receiver[c]
    PROVE  PathInv'
<1>1. /\ client[c] = "running" /\ item[c] # <<>>
      /\ item' = [item EXCEPT ![c] = <<>>]
      /\ UNCHANGED <<client, event_receiver, rRx, rState, rTx>>
  BY DEF UdpWelcome, UdpHeartbeat, UdpApplicationLogic, ItemDone, ItemIs, Free, app, rTask, rLink
<1>2. PICK tx \in Seq(ReadItems), flags \in Seq(BOOLEAN), hand \in Seq(ReadItems) :
         tx = rTx[<<c, "udp">>] /\ flags = reads[<<c, "udp">>] /\ hand = item[c]
  BY DEF AppInv, AppTypes, Sockets, Protocols
<1>3. item'[c] = <<>> /\ \A d \in Clients : d # c => item'[d] = item[d]
  BY <1>1 DEF AppInv, AppTypes
<1>4. hand # <<>> /\ Len(hand) = 1 /\ Head(hand) = hand[1] /\ hand[1] \in ReadItems
  <2>0. Len(hand) <= 1
    BY <1>2 DEF LoopTypes
  <2>1. hand # <<>>
    BY <1>1, <1>2
  <2>2. Len(hand) \in Nat /\ Len(hand) # 0
    BY <2>1
  <2>3. Len(hand) = 1
    <3>1. PICK n \in Nat : n = Len(hand) /\ n # 0 /\ n <= 1
      BY <2>0, <2>2, Zenon
    <3>2. n = 1
      BY <3>1
    <3> QED
      BY <3>1, <3>2, Zenon
  <2>4. 1 \in 1 .. Len(hand) /\ Head(hand) = hand[1]
    BY <2>1, <2>3
  <2>5. hand[1] \in ReadItems
    BY <2>4
  <2> QED
    BY <2>1, <2>3, <2>4, <2>5
<1>5. PICK x \in ReadItems : x = hand[1] /\ x = Head(item[c])
  BY <1>2, <1>4
<1>6. /\ \A d \in Clients \ {c} : events'[d] = events[d]
      /\ \/ events'[c] = events[c] /\ x.kind # "ApplicationLogic"
         \/ /\ x.kind = "ApplicationLogic"
            /\ \E e \in Event : e.ev = "UdpMessage" /\ e.n = x.n /\ events'[c] = Append(events[c], e)
  <2>1. events \in [Clients -> Seq(Event)]
    BY DEF AppInv, AppTypes
  <2>2. CASE UdpWelcome(c) \/ UdpHeartbeat(c)
    BY <1>5, <2>2 DEF UdpWelcome, UdpHeartbeat, ItemIs
  <2>3. CASE UdpApplicationLogic(c) /\ event_receiver[c]
    <3>1. x.kind = "ApplicationLogic" /\ emit(c, UdpMessage(x.n)) /\ x.n \in Nat
      BY <1>5, <2>3 DEF UdpApplicationLogic, ItemIs, ReadItems
    <3>2. PICK e \in Event : e = UdpMessage(x.n) /\ e.ev = "UdpMessage" /\ e.n = x.n
      BY <3>1, EventKinds DEF UdpMessage
    <3>3. events' = [events EXCEPT ![c] = Append(events[c], e)]
      BY <2>3, <3>1, <3>2 DEF emit
    <3> QED
      BY <2>1, <3>1, <3>2, <3>3
  <2> QED
    BY <2>2, <2>3
<1>7. ASSUME NEW d \in Clients, d # c PROVE PathHolds(d)'
  BY <1>1, <1>3, <1>6, <1>7, PathKeep DEF PathInv
<1>8. PICK es \in Seq(Event) : es = events[c]
  BY DEF AppInv, AppTypes
<1>9. OnPath(c, "tcp")'
  <2>1. OnPath(c, "tcp") /\ InHand(c, "tcp") = <<>> /\ InHand(c, "tcp")' = <<>>
    BY DEF PathInv, PathHolds, Protocols, InHand
  <2>2. PICK k : k = Done(rTx[<<c, "tcp">>], <<>>, reads[<<c, "tcp">>])
    OBVIOUS
  <2>3. event_receiver[c] => Reports(es, "TcpMessage", reads[<<c, "tcp">>], k)
    BY <1>1, <1>8, <2>1, <2>2 DEF OnPath, EventOf
  <2>4. event_receiver[c] => Reports(events'[c], "TcpMessage", reads[<<c, "tcp">>], k)
    <3>1. CASE events'[c] = events[c]
      BY <1>8, <2>3, <3>1
    <3>2. ASSUME NEW e \in Event, e.ev = "UdpMessage", events'[c] = Append(events[c], e)
          PROVE  event_receiver[c] => Reports(events'[c], "TcpMessage", reads[<<c, "tcp">>], k)
      BY <1>8, <2>3, <3>2, ReportsOther
    <3> QED
      BY <1>6, <3>1, <3>2
  <2> QED
    BY <1>1, <2>1, <2>2, <2>4 DEF OnPath, EventOf
<1>10. OnPath(c, "udp")'
  <2>1. OnPath(c, "udp") /\ InHand(c, "udp") = hand /\ InHand(c, "udp")' = <<>>
    BY <1>2, <1>3 DEF PathInv, PathHolds, Protocols, InHand
  <2>2. PICK k : k = Done(tx, hand, flags)
    OBVIOUS
  <2>3. /\ Held(tx, hand, flags) /\ rRx[<<c, "udp">>]
        /\ event_receiver[c] => Reports(es, "UdpMessage", flags, k)
    BY <1>1, <1>2, <1>8, <2>1, <2>2 DEF OnPath, EventOf
  <2>4. /\ Held(tx, <<>>, flags) /\ Done(tx, <<>>, flags) = k + 1 /\ k \in Nat
        /\ x.n = k + 1 /\ ((x.kind = "ApplicationLogic") <=> flags[k + 1])
    BY <1>4, <1>5, <2>2, <2>3, HeldDone DEF IsItem
  <2>5. event_receiver[c] => Reports(events'[c], "UdpMessage", flags, k + 1)
    <3>1. CASE events'[c] = events[c] /\ x.kind # "ApplicationLogic"
      BY <1>8, <2>3, <2>4, <3>1, ReportsSkip
    <3>2. ASSUME x.kind = "ApplicationLogic", NEW e \in Event, e.ev = "UdpMessage", e.n = x.n,
                 events'[c] = Append(events[c], e)
          PROVE  event_receiver[c] => Reports(events'[c], "UdpMessage", flags, k + 1)
      BY <1>8, <2>3, <2>4, <3>2, ReportsMore
    <3> QED
      BY <1>6, <3>1, <3>2
  <2> QED
    BY <1>1, <1>2, <2>1, <2>3, <2>4, <2>5 DEF OnPath, EventOf
<1>11. PathHolds(c)'
  BY <1>1, <1>9, <1>10 DEF PathHolds, Blank, Protocols
<1> QED
  BY <1>7, <1>11 DEF PathInv

\* Reading: the receiver of a client that runs exists, so that the item goes to
\* its channel (src/src/actors/read_actor.rs:140-150).
LEMMA PathReads ==
    ASSUME AppInv, ReaderTypes, PathInv, NEW c \in Clients, NEW s \in Protocols, ReadsItem(c, s)
    PROVE  PathInv'
<1>1. PICK a \in Sockets : a = <<c, s>>
  BY DEF Sockets
<1>2. PICK kind \in FromServer(c, s) \cup Garbage(s) :
         /\ Reads(a, [kind |-> kind, n |-> Len(reads[a]) + 1])
         /\ reads' = [reads EXCEPT ![a] = Append(@, kind = "ApplicationLogic")]
  BY <1>1 DEF ReadsItem
<1>3. kind \in {"Welcome", "UdpHandshakeAcknowledged", "Heartbeat", "ApplicationLogic", "Bincode", "Io"}
  BY <1>2 DEF FromServer, Garbage, Protocols
<1>4. PICK tx \in Seq(ReadItems), flags \in Seq(BOOLEAN), hand \in Seq(ReadItems) :
         tx = rTx[a] /\ flags = reads[a] /\ hand = InHand(c, s)
  <2>1. InHand(c, s) \in Seq(ReadItems)
    BY DEF InHand, AppInv, AppTypes
  <2> QED
    BY <2>1 DEF AppInv, AppTypes
<1>5. PICK x \in ReadItems : x.n = Len(flags) + 1 /\ x.kind = kind /\ Reads(a, x)
  <2>1. Len(reads[a]) + 1 \in Nat
    BY DEF AppInv, AppTypes
  <2> QED
    BY <1>2, <1>3, <1>4, <2>1 DEF ReadItems
<1>6. PICK b \in BOOLEAN : b = (x.kind = "ApplicationLogic")
  OBVIOUS
<1>7. /\ reads'[a] = Append(flags, b)
      /\ \A e \in Sockets : e # a => reads'[e] = reads[e]
  <2>1. reads' = [reads EXCEPT ![a] = Append(flags, b)]
    BY <1>2, <1>4, <1>5, <1>6
  <2> QED
    BY <2>1 DEF AppInv, AppTypes
<1>8. /\ rState[a] = "running"
      /\ rRx[a] => rTx' = [rTx EXCEPT ![a] = Append(tx, x)]
      /\ rTx' = rTx \/ rTx' = [rTx EXCEPT ![a] = Append(tx, x)]
      /\ rState' = rState \/ rState' = [rState EXCEPT ![a] = "ReceiverClosedChannel"]
      /\ UNCHANGED rRx
  BY <1>4, <1>5 DEF Reads, R!ForwardItem, R!Polling
<1>9. UNCHANGED <<client, event_receiver, item, events>>
  BY <1>5 DEF Reads, ReaderUnchanged, LoopUnchanged, state, app, channels
<1>10. \A e \in Sockets : e # a => rTx'[e] = rTx[e] /\ rState'[e] = rState[e]
  BY <1>8 DEF AppInv, AppTypes, ReaderTypes
<1>11. ASSUME NEW d \in Clients, d # c PROVE PathHolds(d)'
  <2>1. \A r \in Protocols : <<d, r>> \in Sockets /\ <<d, r>> # a
    BY <1>1, <1>11 DEF Sockets
  <2> QED
    BY <1>7, <1>8, <1>9, <1>10, <2>1, PathKeep DEF PathInv
<1>12. ASSUME NEW r \in Protocols, r # s PROVE OnPath(c, r)'
  <2>1. /\ <<c, r>> \in Sockets /\ <<c, r>> # a
        /\ OnPath(c, r) /\ InHand(c, r)' = InHand(c, r)
    BY <1>1, <1>9, <1>12 DEF Sockets, PathInv, PathHolds, InHand
  <2> QED
    BY <1>7, <1>8, <1>9, <1>10, <2>1 DEF OnPath
<1>13. OnPath(c, s)'
  <2> SUFFICES ASSUME client[c] = "running" PROVE OnPath(c, s)'
    BY <1>9 DEF OnPath
  <2>1. OnPath(c, s) /\ InHand(c, s)' = hand
    BY <1>4, <1>9 DEF PathInv, PathHolds, InHand
  <2>2. PICK k : k = Done(tx, hand, flags)
    OBVIOUS
  <2>3. /\ rRx[a] /\ Held(tx, hand, flags)
        /\ event_receiver[c] => Reports(events[c], EventOf(s), flags, k)
    BY <1>1, <1>4, <2>1, <2>2 DEF OnPath
  <2>4. /\ Held(Append(tx, x), hand, Append(flags, b))
        /\ Done(Append(tx, x), hand, Append(flags, b)) = k /\ k \in 0 .. Len(flags)
    BY <1>5, <1>6, <2>2, <2>3, HeldRead
  <2>5. rTx'[a] = Append(tx, x)
    BY <1>8, <2>3 DEF AppInv, AppTypes
  <2>6. PICK es \in Seq(Event) : es = events[c]
    BY DEF AppInv, AppTypes
  <2>7. event_receiver[c] => Reports(events[c], EventOf(s), Append(flags, b), k)
    BY <2>3, <2>4, <2>6, ReportsRead
  <2> QED
    BY <1>1, <1>7, <1>8, <1>9, <2>1, <2>3, <2>4, <2>5, <2>7 DEF OnPath
<1>14. client[c] # "unspawned"
  BY <1>1, <1>8 DEF PathInv, PathHolds, Blank
<1>15. PathHolds(c)'
  BY <1>9, <1>12, <1>13, <1>14 DEF PathHolds, Blank
<1> QED
  BY <1>11, <1>15 DEF PathInv

\* Every step keeps the way from the socket to the application.
LEMMA PathStep ==
    ASSUME AppInv, LoopTypes, ReaderTypes, PathInv, [Next]_vars
    PROVE  PathInv'
<1>1. ASSUME NEW c \in Clients, UNCHANGED reads, Serving(c) PROVE PathInv'
  <2>1. CASE (\E s \in Protocols : ToServer(c, s) /\ W!Accepts(<<c, s>>)) \/ GetStatus(c)
    <3>1. UNCHANGED <<client, event_receiver, events, item, rTx, reads, rRx, rState>>
      BY <1>1, <2>1 DEF ToServer, GetStatus, MessageDone, state, rTask, rLink
    <3> QED
      BY <3>1, PathKeep DEF PathInv
  <2> QED
    BY <1>1, <2>1, PathTcp, PathUdpItem, PathDatagram DEF Serving
<1>2. ASSUME NEW c \in Clients, UNCHANGED reads, Calling(c) PROVE PathInv'
  <2>1. /\ UNCHANGED <<client, events, item, rTx, reads, rRx, rState>>
        /\ \A d \in Clients : event_receiver'[d] => event_receiver[d]
    BY <1>2 DEF Calling, get_status, DropHandle, DropEvents, TakeEvent, send_message, AppUnchanged,
       state, app, rTask, rLink, AppInv, AppTypes
  <2> QED
    BY <2>1, PathKeep DEF PathInv
<1>3. ASSUME NEW c \in Clients, NEW how \in {"left", "panicked"}, UNCHANGED reads, Leave(c, how)
      PROVE  PathInv'
  <2>1. ASSUME NEW d \in Clients, d # c PROVE PathHolds(d)'
    <3>1. /\ client'[d] = client[d] /\ item'[d] = item[d] /\ UNCHANGED <<event_receiver, events, rState>>
      BY <1>3, <2>1 DEF Leave, AppInv, AppTypes, rTask
    <3>2. \A s \in Protocols : <<d, s>> \in Sockets /\ <<d, s>>[1] = d
      BY DEF Sockets
    <3>3. \A s \in Protocols : rTx'[<<d, s>>] = rTx[<<d, s>>] /\ rRx'[<<d, s>>] = rRx[<<d, s>>]
      BY <1>3, <2>1, <3>2 DEF Leave, Both
    <3> QED
      BY <1>3, <3>1, <3>3, PathKeep DEF PathInv
  <2>2. PathHolds(c)'
    <3>1. client'[c] = how
      BY <1>3 DEF Leave, AppInv, AppTypes
    <3> QED
      BY <3>1 DEF PathHolds, Blank, OnPath
  <2> QED
    BY <2>1, <2>2 DEF PathInv
<1>4. ASSUME NEW a \in Sockets, UNCHANGED reads, ReaderTask(a) \/ WriterTask(a) PROVE PathInv'
  <2>1. /\ UNCHANGED <<client, event_receiver, events, item, rTx, rRx>>
        /\ \A b \in Sockets : rState[b] = "unspawned" => rState'[b] = "unspawned"
    <3>1. CASE WriterTask(a)
      BY <3>1 DEF WriterTask, WriterUnchanged, LoopUnchanged, state, app, channels, rTask, rLink
    <3>2. CASE ReaderTask(a)
      BY <3>2 DEF ReaderTask, ReaderUnchanged, LoopUnchanged, state, app, channels, R!ReaderProgress,
         R!ReceiveShutdown, R!HandlesDropped, R!EndOfStream, R!ReaderPanics, R!PeerCloses, R!Polling,
         ReaderTypes
    <3> QED
      BY <1>4, <3>1, <3>2
  <2>2. \A d \in Clients, s \in Protocols : <<d, s>> \in Sockets
    BY DEF Sockets
  <2> QED
    BY <1>4, <2>1, <2>2, PathKeep DEF PathInv
<1>5. CASE UNCHANGED <<clientVars, reads>>
  <2>1. UNCHANGED <<client, event_receiver, events, item, rTx, reads, rRx, rState>>
    BY <1>5 DEF clientVars, state, app, channels, rTask, rLink
  <2> QED
    BY <2>1, PathKeep DEF PathInv
<1> QED
  BY <1>1, <1>2, <1>3, <1>4, <1>5, PathConnect, PathReads, Steps

\* The way from the socket to the application is kept by every behaviour.
THEOREM PathInvariant == Spec => []PathInv
<1>1. Init => PathInv
  <2> SUFFICES ASSUME Init, NEW c \in Clients PROVE PathHolds(c)
    BY DEF PathInv
  <2>1. \A s \in Protocols : <<c, s>> \in Sockets
    BY DEF Sockets
  <2>2. client[c] = "unspawned" /\ events[c] = <<>> /\ item[c] = <<>>
    BY DEF Init, ClientInit
  <2>3. \A s \in Protocols :
          rState[<<c, s>>] = "unspawned" /\ rTx[<<c, s>>] = <<>> /\ reads[<<c, s>>] = <<>>
    BY <2>1 DEF Init, ClientInit, R!ReaderInit
  <2> QED
    BY <2>2, <2>3 DEF PathHolds, Blank, OnPath
<1>2. AppInv /\ LoopTypes /\ ReaderTypes /\ PathInv /\ [Next]_vars => PathInv'
  BY PathStep
<1> QED
  BY <1>1, <1>2, AppInvariant, TypesInvariant, PTL DEF Spec

\* What is read from the sockets reaches the application: nothing lost,
\* repeated or reordered (src/src/client/actor.rs:162 and 180-197), whatever the
\* server sends, however slow the application is, and whatever else fails, as
\* long as the client runs and its events are received.
THEOREM NothingIsSwallowed == Spec => []NothingSwallowed
<1>1. AppInv /\ PathInv => NothingSwallowed
  <2> SUFFICES ASSUME AppInv, PathInv, NEW c \in Clients, NEW s \in Protocols,
                      client[c] = "running", event_receiver[c]
               PROVE  LET a == <<c, s>> IN
                      /\ \A i \in DOMAIN rTx[a] : IsItem(rTx[a][i], Taken(a) + i, reads[a])
                      /\ \A i \in DOMAIN InHand(c, s) : IsItem(InHand(c, s)[i], Taken(a), reads[a])
                      /\ Reports(events[c], EventOf(s), reads[a], Taken(a) - Len(InHand(c, s)))
    BY DEF NothingSwallowed, Running
  <2>1. PICK a \in Sockets : a = <<c, s>>
    BY DEF Sockets
  <2>2. /\ Held(rTx[a], InHand(c, s), reads[a])
        /\ Reports(events[c], EventOf(s), reads[a], Done(rTx[a], InHand(c, s), reads[a]))
    BY <2>1 DEF PathInv, PathHolds, OnPath
  <2>3. DOMAIN rTx[a] = 1 .. Len(rTx[a]) /\ DOMAIN InHand(c, s) = 1 .. Len(InHand(c, s))
    <3>1. rTx[a] \in Seq(ReadItems) /\ InHand(c, s) \in Seq(ReadItems)
      BY DEF AppInv, AppTypes, InHand
    <3> QED
      BY <3>1
  <2>4. Done(rTx[a], InHand(c, s), reads[a]) = Taken(a) - Len(InHand(c, s))
    BY DEF Done, Taken
  <2> QED
    BY <2>1, <2>2, <2>3, <2>4 DEF Held, Taken
<1> QED
  BY <1>1, AppInvariant, PathInvariant, PTL
=============================================================================
