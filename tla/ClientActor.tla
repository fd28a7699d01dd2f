---------------------------- MODULE ClientActor ----------------------------
(***************************************************************************)
(* The client (src/src/client/actor.rs) with its four actors: a reader and *)
(* a writer each for TCP and UDP.  Each arm of the main loop is one        *)
(* action.  As in ReadActor, one state holds a family, indexed by Clients. *)
(*                                                                         *)
(* event_sender.send(..).await puts its event in the channel at once and   *)
(* then waits until at most EventBuffer are unread: the client is inside   *)
(* such a send exactly if unread > EventBuffer and the receiver exists.    *)
(*                                                                         *)
(* Reading and writing sockets is left to a parameter (which item, how     *)
(* many), so that a composition can connect clients and server.            *)
(***************************************************************************)
EXTENDS Naturals, Sequences

CONSTANTS Clients,
          CtlBuffer, TxBuffer, WriteBuffer, \* buffers of the actors' channels
          MsgBuffer,   \* buffer of the handle's channel (32 in the code)
          EventBuffer, \* buffer of the event channel (128 in the code)
          MaxSends     \* bound: messages accepted by a handle, per protocol

ASSUME ClientActorAssumption ==
    /\ CtlBuffer \in Nat /\ TxBuffer \in Nat /\ WriteBuffer \in Nat
    /\ MsgBuffer \in Nat /\ EventBuffer \in Nat /\ MaxSends \in Nat

VARIABLES
    client,         \* "unspawned", "running", "left" its loop, or "panicked"
    has_received_on_udp, latest_udp_heartbeat, \* the latter: is it Some?
    item,           \* the datagram whose arm is being executed: at most one
    msg_receiver,   \* messages of the ActorHandle that the client has not taken
    handle,         \* does the ActorHandle exist?
    event_receiver, \* does the receiver of the events exist?
    events,         \* the events put in the channel, from the beginning
    unread,         \* how many of them the application has not taken
    status,         \* get_status: "idle", "waiting", or "cancelled"
    accepted,       \* how many messages the handle has accepted, per protocol
    rState, rCtl, rHandle, rStream, rOvertaken, rTx, rRx,
    wState, wReason, wMsgs, wHandle, wHand, wSink

Protocols == {"tcp", "udp"}
Sockets == Clients \X Protocols

ReadItems ==
    [kind : {"Welcome", "UdpHandshakeAcknowledged", "Heartbeat", "ApplicationLogic", "Bincode", "Io"},
     n : Nat]

WriteItems == [msg : {"Hello", "ApplicationLogic"}, n : 0 .. MaxSends]

R == INSTANCE ReadActor WITH
        Readers <- Sockets, Items <- ReadItems,
        LastItems <- {x \in ReadItems : x.kind = "Io"}

\* The client never feeds, so what its sinks could hold is never reached.
W == INSTANCE WriteActor WITH Writers <- Sockets, SinkBuffer <- 3

state == <<has_received_on_udp, latest_udp_heartbeat, item>>
app == <<handle, event_receiver, status, accepted>>
channels == <<msg_receiver, events, unread>>
rTask == <<rState, rStream, rOvertaken>>
rLink == <<rCtl, rHandle, rTx, rRx>>
wTask == <<wState, wReason, wHand, wSink>>
wLink == <<wMsgs, wHandle>>
clientVars == <<client, state, app, channels, rTask, rLink, wTask, wLink>>

Message == [to : Protocols, n : Nat] \cup {[to |-> "GetStatus"]}

CanSendUdpMessages == [ev |-> "CanSendUdpMessages"]
CanReceiveUdpMessages == [ev |-> "CanReceiveUdpMessages"]
TcpMessage(n) == [ev |-> "TcpMessage", n |-> n]
UdpMessage(n) == [ev |-> "UdpMessage", n |-> n]

Event == {CanSendUdpMessages, CanReceiveUdpMessages} \cup [ev : {"TcpMessage", "UdpMessage"}, n : Nat]

\* Channels hold no more than their buffer and the slot of their one sender,
\* the event channel too, although a datagram can emit two events.
ClientTypeOK ==
    /\ client \in [Clients -> {"unspawned", "running", "left", "panicked"}]
    /\ has_received_on_udp \in [Clients -> BOOLEAN]
    /\ latest_udp_heartbeat \in [Clients -> BOOLEAN]
    /\ item \in [Clients -> Seq(ReadItems)]
    /\ \A c \in Clients : Len(item[c]) <= 1
    /\ msg_receiver \in [Clients -> Seq(Message)]
    /\ \A c \in Clients : Len(msg_receiver[c]) <= MsgBuffer + 1
    /\ handle \in [Clients -> BOOLEAN]
    /\ event_receiver \in [Clients -> BOOLEAN]
    /\ events \in [Clients -> Seq(Event)]
    /\ unread \in [Clients -> 0 .. EventBuffer + 1]
    /\ status \in [Clients -> {"idle", "waiting", "cancelled"}]
    /\ accepted \in [Clients -> [Protocols -> 0 .. MaxSends]]
    /\ R!ReaderTypeOK
    /\ W!WriterTypeOK

ClientInit ==
    /\ client = [c \in Clients |-> "unspawned"]
    /\ has_received_on_udp = [c \in Clients |-> FALSE]
    /\ latest_udp_heartbeat = [c \in Clients |-> FALSE]
    /\ item = [c \in Clients |-> <<>>]
    /\ msg_receiver = [c \in Clients |-> <<>>]
    /\ handle = [c \in Clients |-> FALSE]
    /\ event_receiver = [c \in Clients |-> FALSE]
    /\ events = [c \in Clients |-> <<>>]
    /\ unread = [c \in Clients |-> 0]
    /\ status = [c \in Clients |-> "idle"]
    /\ accepted = [c \in Clients |-> [s \in Protocols |-> 0]]
    /\ R!ReaderInit
    /\ W!WriterInit

-----------------------------------------------------------------------------
(* The life of the task.                                                   *)

\* f with the value v for both sockets of the client.
Both(f, c, v) == [a \in Sockets |-> IF a[1] = c THEN v ELSE f[a]]

\* connect: the actor is spawned and spawns its four; the application holds
\* the handle and the receiver of the events.
connect(c) ==
    /\ client[c] = "unspawned"
    /\ client' = [client EXCEPT ![c] = "running"]
    /\ handle' = [handle EXCEPT ![c] = TRUE]
    /\ event_receiver' = [event_receiver EXCEPT ![c] = TRUE]
    /\ rState' = Both(rState, c, "running")
    /\ rHandle' = Both(rHandle, c, TRUE)
    /\ rRx' = Both(rRx, c, TRUE)
    /\ wState' = Both(wState, c, "running")
    /\ wHandle' = Both(wHandle, c, TRUE)
    /\ UNCHANGED <<state, status, accepted, channels, rStream, rOvertaken, rCtl, rTx,
                   wReason, wHand, wSink, wMsgs>>

\* Variant: an event is put in the channel without waiting for room.
FreeUnbounded(c) == client[c] = "running"

\* The client is not inside event_sender.send(..).await.
Free(c) ==
    /\ client[c] = "running"
    /\ unread[c] <= EventBuffer \/ ~event_receiver[c]

\* The client is at streams.next().await.
Ready(c) == Free(c) /\ item[c] = <<>>

\* Variant: the handle of the UDP write actor leaks.
drop_all_but_udp_writer(c) ==
    /\ rHandle' = Both(rHandle, c, FALSE)
    /\ wHandle' = [wHandle EXCEPT ![<<c, "tcp">>] = FALSE]

drop_handles(c) == rHandle' = Both(rHandle, c, FALSE) /\ wHandle' = Both(wHandle, c, FALSE)

\* break or a panic: what the task owned is dropped, a reply sender in its
\* channel included, so that the caller of get_status fails.
Leave(c, how) ==
    /\ client' = [client EXCEPT ![c] = how]
    /\ item' = [item EXCEPT ![c] = <<>>]
    /\ msg_receiver' = [msg_receiver EXCEPT ![c] = <<>>]
    /\ status' = [status EXCEPT ![c] = IF @ = "waiting" THEN "cancelled" ELSE @]
    /\ drop_handles(c)
    /\ rRx' = Both(rRx, c, FALSE)
    /\ rTx' = Both(rTx, c, <<>>)
    /\ UNCHANGED <<has_received_on_udp, latest_udp_heartbeat, handle, event_receiver, accepted,
                   events, unread, rTask, rCtl, wTask, wMsgs>>

-----------------------------------------------------------------------------
(* Incoming::ActorMessage.                                                 *)

MessageIs(c, kind) ==
    /\ Ready(c)
    /\ msg_receiver[c] # <<>>
    /\ Head(msg_receiver[c]).to = kind

MessageDone(c) ==
    /\ msg_receiver' = [msg_receiver EXCEPT ![c] = Tail(@)]
    /\ UNCHANGED <<client, state, handle, event_receiver, accepted, events, unread,
                   rTask, rLink, wTask, wHandle>>

\* TcpToServer and UdpToServer: a refusal of the write actor is a todo!().
ToServer(c, s) ==
    /\ MessageIs(c, s)
    /\ IF W!Accepts(<<c, s>>)
       THEN /\ wMsgs' = [wMsgs EXCEPT ![<<c, s>>] = W!send_actor_message(<<c, s>>,
                            W!Send([msg |-> "ApplicationLogic", n |-> Head(msg_receiver[c]).n]))]
            /\ MessageDone(c)
            /\ UNCHANGED status
       ELSE Leave(c, "panicked")

\* Variant: without a heartbeat there is no answer.
GetStatusIfSome(c) ==
    /\ MessageIs(c, "GetStatus")
    /\ status' = [status EXCEPT ![c] = IF latest_udp_heartbeat[c] THEN "idle" ELSE @]
    /\ MessageDone(c)
    /\ UNCHANGED wMsgs

GetStatus(c) ==
    /\ MessageIs(c, "GetStatus")
    /\ status' = [status EXCEPT ![c] = "idle"]
    /\ MessageDone(c)
    /\ UNCHANGED wMsgs

\* Variant: the queued messages are ignored when the handle is dropped.
ActorMessagesEndEarly(c) == Ready(c) /\ ~handle[c] /\ Leave(c, "left")

\* Variant: the client also leaves when the server closes the connection.
ActorMessagesOrTcpEnd(c) ==
    /\ Ready(c)
    /\ \/ ~handle[c] /\ msg_receiver[c] = <<>>
       \/ R!ReaderFinished(<<c, "tcp">>) /\ rTx[<<c, "tcp">>] = <<>>
    /\ Leave(c, "left")

\* Variant: the end of the messages is only logged.
ActorMessagesEndLogged(c) ==
    /\ Ready(c)
    /\ ~handle[c]
    /\ msg_receiver[c] = <<>>
    /\ UNCHANGED clientVars

\* EndOfStream.  The ends of the four actors are only logged.
ActorMessagesEnd(c) ==
    /\ Ready(c)
    /\ ~handle[c]
    /\ msg_receiver[c] = <<>>
    /\ Leave(c, "left")

-----------------------------------------------------------------------------
(* Incoming::TcpReader and Incoming::UdpReader.                            *)

\* event_sender.send: fails if the receiver is gone.
emit(c, ev) ==
    IF event_receiver[c]
    THEN /\ events' = [events EXCEPT ![c] = Append(@, ev)]
         /\ unread' = [unread EXCEPT ![c] = @ + 1]
    ELSE UNCHANGED <<events, unread>>

ReaderHas(c, s) == Ready(c) /\ rTx[<<c, s>>] # <<>>
TcpItem(c) == Head(rTx[<<c, "tcp">>])

Receive(c, s) ==
    /\ rTx' = [rTx EXCEPT ![<<c, s>>] = Tail(@)]
    /\ UNCHANGED <<client, app, msg_receiver, rTask, rCtl, rHandle, rRx, wTask, wHandle>>

\* Variant: CanSendUdpMessages as soon as the Hello is on its way.
TcpWelcomeReported(c) ==
    /\ ReaderHas(c, "tcp")
    /\ TcpItem(c).kind = "Welcome"
    /\ wMsgs' = [wMsgs EXCEPT ![<<c, "udp">>] =
                    W!send_actor_message(<<c, "udp">>, W!Send([msg |-> "Hello", n |-> 0]))]
    /\ emit(c, CanSendUdpMessages)
    /\ Receive(c, "tcp")
    /\ UNCHANGED state

\* Variant: the Hello is left to the first UDP message.
TcpWelcomeDeferred(c) ==
    /\ ReaderHas(c, "tcp")
    /\ TcpItem(c).kind = "Welcome"
    /\ Receive(c, "tcp")
    /\ UNCHANGED <<state, events, unread, wMsgs>>

\* The refusal of a Hello is logged.
TcpWelcome(c) ==
    /\ ReaderHas(c, "tcp")
    /\ TcpItem(c).kind = "Welcome"
    /\ wMsgs' = [wMsgs EXCEPT ![<<c, "udp">>] =
                    W!send_actor_message(<<c, "udp">>, W!Send([msg |-> "Hello", n |-> 0]))]
    /\ Receive(c, "tcp")
    /\ UNCHANGED <<state, events, unread>>

UdpHandshakeAcknowledged(c) ==
    /\ ReaderHas(c, "tcp")
    /\ TcpItem(c).kind = "UdpHandshakeAcknowledged"
    /\ emit(c, CanSendUdpMessages)
    /\ Receive(c, "tcp")
    /\ UNCHANGED <<state, wMsgs>>

TcpApplicationLogic(c) ==
    /\ ReaderHas(c, "tcp")
    /\ TcpItem(c).kind = "ApplicationLogic"
    /\ IF event_receiver[c]
       THEN /\ emit(c, TcpMessage(TcpItem(c).n))
            /\ Receive(c, "tcp")
            /\ UNCHANGED <<state, wMsgs>>
       ELSE Leave(c, "left")

TcpError(c) ==
    /\ ReaderHas(c, "tcp")
    /\ TcpItem(c).kind \in {"Bincode", "Io"}
    /\ Leave(c, "panicked")

\* Variant: the first datagram is taken for the test message.
UdpItemSkipped(c) ==
    /\ ReaderHas(c, "udp")
    /\ item' = [item EXCEPT ![c] = IF has_received_on_udp[c] THEN <<Head(rTx[<<c, "udp">>])>> ELSE @]
    /\ has_received_on_udp' = [has_received_on_udp EXCEPT ![c] = TRUE]
    /\ IF has_received_on_udp[c]
       THEN UNCHANGED <<events, unread>>
       ELSE emit(c, CanReceiveUdpMessages)
    /\ Receive(c, "udp")
    /\ UNCHANGED <<latest_udp_heartbeat, wMsgs>>

\* Variant: only the server's Welcome shows that UDP can be received.
UdpItemOnWelcome(c) ==
    LET x == Head(rTx[<<c, "udp">>])
    IN  /\ ReaderHas(c, "udp")
        /\ item' = [item EXCEPT ![c] = <<x>>]
        /\ has_received_on_udp' = [has_received_on_udp EXCEPT ![c] = @ \/ x.kind = "Welcome"]
        /\ IF has_received_on_udp[c] \/ x.kind # "Welcome"
           THEN UNCHANGED <<events, unread>>
           ELSE emit(c, CanReceiveUdpMessages)
        /\ Receive(c, "udp")
        /\ UNCHANGED <<latest_udp_heartbeat, wMsgs>>

\* The first thing received on UDP, whatever it is, is reported before it is
\* looked at; the application may take its time in between.
UdpItem(c) ==
    /\ ReaderHas(c, "udp")
    /\ item' = [item EXCEPT ![c] = <<Head(rTx[<<c, "udp">>])>>]
    /\ has_received_on_udp' = [has_received_on_udp EXCEPT ![c] = TRUE]
    /\ IF has_received_on_udp[c]
       THEN UNCHANGED <<events, unread>>
       ELSE emit(c, CanReceiveUdpMessages)
    /\ Receive(c, "udp")
    /\ UNCHANGED <<latest_udp_heartbeat, wMsgs>>

ItemDone(c) ==
    /\ item' = [item EXCEPT ![c] = <<>>]
    /\ UNCHANGED <<client, has_received_on_udp, app, msg_receiver, rTask, rLink, wTask, wLink>>

ItemIs(c, kinds) == Free(c) /\ item[c] # <<>> /\ Head(item[c]).kind \in kinds

UdpWelcome(c) ==
    /\ ItemIs(c, {"Welcome"})
    /\ ItemDone(c)
    /\ UNCHANGED <<latest_udp_heartbeat, events, unread>>

UdpHeartbeat(c) ==
    /\ ItemIs(c, {"Heartbeat"})
    /\ latest_udp_heartbeat' = [latest_udp_heartbeat EXCEPT ![c] = TRUE]
    /\ ItemDone(c)
    /\ UNCHANGED <<events, unread>>

UdpApplicationLogic(c) ==
    /\ ItemIs(c, {"ApplicationLogic"})
    /\ IF event_receiver[c]
       THEN /\ emit(c, UdpMessage(Head(item[c]).n))
            /\ ItemDone(c)
            /\ UNCHANGED latest_udp_heartbeat
       ELSE Leave(c, "left")

UdpError(c) == ItemIs(c, {"Bincode"}) /\ Leave(c, "panicked")

OnMessage(c) == (\E s \in Protocols : ToServer(c, s)) \/ GetStatus(c) \/ ActorMessagesEnd(c)
OnTcp(c) == TcpWelcome(c) \/ UdpHandshakeAcknowledged(c) \/ TcpApplicationLogic(c) \/ TcpError(c)
OnDatagram(c) == UdpWelcome(c) \/ UdpHeartbeat(c) \/ UdpApplicationLogic(c) \/ UdpError(c)

-----------------------------------------------------------------------------
(* The tasks of the four actors.                                           *)

LoopUnchanged == UNCHANGED <<client, state, app, channels>>
ReaderUnchanged == LoopUnchanged /\ UNCHANGED <<wTask, wLink>>
WriterUnchanged == LoopUnchanged /\ UNCHANGED <<rTask, rLink>>

Reads(a, x) == R!ForwardItem(a, x) /\ ReaderUnchanged
ServerCloses(c) == R!PeerCloses(<<c, "tcp">>) /\ ReaderUnchanged
ReaderRuns(a) == R!ReaderProgress(a) /\ ReaderUnchanged
ReaderPanics(a) == R!ReaderPanics(a) /\ ReaderUnchanged
WriterRuns(a) == W!WriterProgress(a) /\ WriterUnchanged
WriterPanics(a) == W!WriterPanics(a) /\ WriterUnchanged
SinkDone(a, n) == W!SinkDone(a, n) /\ WriterUnchanged
SinkFails(a, n) == W!SinkFails(a, n) /\ WriterUnchanged
CloseSink(a, n) == W!CloseSink(a, n) /\ WriterUnchanged

-----------------------------------------------------------------------------
(* The application.  The handle is borrowed while get_status is awaited.   *)

AppUnchanged == UNCHANGED <<client, state, events, rTask, rLink, wTask, wLink>>

\* sender.try_send succeeds; otherwise the call returns an error.
Accepts(c) ==
    /\ handle[c]
    /\ status[c] = "idle"
    /\ client[c] = "running"
    /\ Len(msg_receiver[c]) <= MsgBuffer

\* send_message_tcp and send_message_udp
send_message(c, s) ==
    /\ Accepts(c)
    /\ accepted[c][s] < MaxSends
    /\ accepted' = [accepted EXCEPT ![c][s] = @ + 1]
    /\ msg_receiver' = [msg_receiver EXCEPT ![c] = Append(@, [to |-> s, n |-> accepted[c][s] + 1])]
    /\ UNCHANGED <<handle, event_receiver, status, unread>>
    /\ AppUnchanged

get_status(c) ==
    /\ Accepts(c)
    /\ msg_receiver' = [msg_receiver EXCEPT ![c] = Append(@, [to |-> "GetStatus"])]
    /\ status' = [status EXCEPT ![c] = "waiting"]
    /\ UNCHANGED <<handle, event_receiver, accepted, unread>>
    /\ AppUnchanged

DropHandle(c) ==
    /\ handle[c]
    /\ status[c] # "waiting"
    /\ handle' = [handle EXCEPT ![c] = FALSE]
    /\ UNCHANGED <<event_receiver, status, accepted, msg_receiver, unread>>
    /\ AppUnchanged

TakeEvent(c) ==
    /\ event_receiver[c]
    /\ unread[c] > 0
    /\ unread' = [unread EXCEPT ![c] = @ - 1]
    /\ UNCHANGED <<app, msg_receiver>>
    /\ AppUnchanged

DropEvents(c) ==
    /\ event_receiver[c]
    /\ event_receiver' = [event_receiver EXCEPT ![c] = FALSE]
    /\ unread' = [unread EXCEPT ![c] = 0]
    /\ UNCHANGED <<handle, status, accepted, msg_receiver>>
    /\ AppUnchanged
=============================================================================
