----------------------------- MODULE NetStream -----------------------------
(***************************************************************************)
(* Server and clients connected: ServerActor with a ClientActor at the     *)
(* other end of every connection.  The network is external.                *)
(*                                                                         *)
(* TCP.  What a write actor writes arrives in order.  Dropping the write   *)
(* half sends a FIN behind it.  A socket that is closed with data unread,  *)
(* or that data still arrives at, resets the connection: the other end may *)
(* then fail to read or write, with what it has not yet read lost.         *)
(* UDP.  Datagrams in flight are sets: any of them may arrive next or be   *)
(* lost.  (ServerActor lets a Hello and a message arrive repeatedly.)      *)
(*                                                                         *)
(* connect() and the accept of the connection are one step.                *)
(***************************************************************************)
EXTENDS ServerProperties

CONSTANTS MsgBuffer, EventBuffer, \* see ClientActor
          MaxSends                \* bound: TCP messages a client's handle accepts

ASSUME NetStreamAssumption == MsgBuffer \in Nat /\ EventBuffer \in Nat /\ MaxSends \in Nat

VARIABLES
    \* the clients
    client, has_received_on_udp, latest_udp_heartbeat, item,
    cMsgs, cHandle, cEventReceiver, cEvents, cUnread, status, accepted,
    crState, crCtl, crHandle, crStream, crOvertaken, crTx, crRx,
    cwState, cwReason, cwMsgs, cwHandle, cwHand, cwSink,
    \* the network
    down, up,  \* per connection, what is on its way to the client, the server
    reset,     \* connections that were reset
    toServer, toClients, \* datagrams in flight
    lost       \* has a datagram been lost?

C == INSTANCE ClientActor WITH
        Clients <- PeerUids,
        msg_receiver <- cMsgs, handle <- cHandle, event_receiver <- cEventReceiver,
        events <- cEvents, unread <- cUnread,
        rState <- crState, rCtl <- crCtl, rHandle <- crHandle, rStream <- crStream,
        rOvertaken <- crOvertaken, rTx <- crTx, rRx <- crRx,
        wState <- cwState, wReason <- cwReason, wMsgs <- cwMsgs, wHandle <- cwHandle,
        wHand <- cwHand, wSink <- cwSink

clientVars ==
    <<client, has_received_on_udp, latest_udp_heartbeat, item,
      cMsgs, cHandle, cEventReceiver, cEvents, cUnread, status, accepted,
      crState, crCtl, crHandle, crStream, crOvertaken, crTx, crRx,
      cwState, cwReason, cwMsgs, cwHandle, cwHand, cwSink>>
links == <<down, up, reset>>
udp == <<toServer, toClients, lost>>
netVars == <<vars, clientVars, links, udp>>

NetInit ==
    /\ Init
    /\ C!ClientInit
    /\ down = [p \in PeerUids |-> <<>>]
    /\ up = [p \in PeerUids |-> <<>>]
    /\ reset = [p \in PeerUids |-> FALSE]
    /\ toServer = {}
    /\ toClients = {}
    /\ lost = FALSE

-----------------------------------------------------------------------------
(* Steps of one side only.                                                 *)

ServerLocal(p) ==
    /\ Broker(p) \/ ReaderRuns(p) \/ WriterRuns(p)
    /\ UNCHANGED <<clientVars, links, udp>>

UdpWriterLocal == WriterRuns(UdpWriter) /\ UNCHANGED <<clientVars, links, udp>>

ClientLoop(p) ==
    /\ C!OnMessage(p) \/ C!OnTcp(p) \/ C!UdpItem(p) \/ C!OnDatagram(p)
    /\ UNCHANGED <<vars, links, udp>>

ClientTask(a) == (C!ReaderRuns(a) \/ C!WriterRuns(a)) /\ UNCHANGED <<vars, links, udp>>

Told(p, ev) == \E i \in DOMAIN cEvents[p] : cEvents[p][i] = ev

\* An application that sends on UDP only once it was told that it can.
ClientApp(p) ==
    /\ \/ C!send_message(p, "tcp")
       \/ /\ Told(p, C!CanSendUdpMessages)
          /\ accepted[p]["udp"] < MaxUdp
          /\ C!send_message(p, "udp")
       \/ C!DropHandle(p)
    /\ UNCHANGED <<vars, links, udp>>

-----------------------------------------------------------------------------
(* TCP.                                                                    *)

Connect ==
    /\ \E a \in Addrs : handle_new_tcp_connection(a, a)
    /\ C!connect(next_peer_uid)
    /\ UNCHANGED <<links, udp>>

tcp(p) == <<p, "tcp">>
ClientClosed(p) == C!R!ReaderFinished(tcp(p)) /\ C!W!WriterFinished(tcp(p))
ServerClosed(p) == R!ReaderFinished(p) /\ W!WriterFinished(p)

ResetConnection(p) ==
    /\ ~reset[p]
    /\ \/ ClientClosed(p) /\ down[p] # <<>>
       \/ ServerClosed(p) /\ up[p] # <<>>
    /\ reset' = [reset EXCEPT ![p] = TRUE]
    /\ UNCHANGED <<vars, clientVars, down, up, udp>>

ServerReads(p) ==
    /\ up[p] # <<>>
    /\ Reads(p, "Message", Head(up[p]))
    /\ up' = [up EXCEPT ![p] = Tail(@)]
    /\ UNCHANGED <<clientVars, down, reset, udp>>

ServerSeesEnd(p) ==
    /\ \/ C!W!WriterFinished(tcp(p)) /\ up[p] = <<>> /\ PeerCloses(p)
       \/ reset[p] /\ ReadFails(p)
    /\ UNCHANGED <<clientVars, links, udp>>

ClientReads(p) ==
    /\ down[p] # <<>>
    /\ C!Reads(tcp(p), [kind |-> Head(down[p]), n |-> 0])
    /\ down' = [down EXCEPT ![p] = Tail(@)]
    /\ UNCHANGED <<vars, up, reset, udp>>

ClientSeesEnd(p) ==
    /\ \/ W!WriterFinished(p) /\ down[p] = <<>> /\ C!ServerCloses(p)
       \/ reset[p] /\ C!Reads(tcp(p), [kind |-> "Io", n |-> 0])
    /\ UNCHANGED <<vars, links, udp>>

\* A write is complete unless the connection was reset.
ServerWrites(p) ==
    \E n \in 0 .. Len(W!Pending(p)) :
        /\ \/ SinkDone(p, n)
           \/ reset[p] /\ SinkFails(p, n)
           \/ (reset[p] \/ n = Len(wSink[p])) /\ CloseSink(p, n)
        /\ down' = [down EXCEPT ![p] = @ \o [i \in 1 .. n |-> W!Pending(p)[i].msg]]
        /\ UNCHANGED <<clientVars, up, reset, udp>>

ClientWrites(p) ==
    \E n \in 0 .. Len(C!W!Pending(tcp(p))) :
        /\ \/ C!SinkDone(tcp(p), n)
           \/ reset[p] /\ C!SinkFails(tcp(p), n)
           \/ (reset[p] \/ n = Len(cwSink[tcp(p)])) /\ C!CloseSink(tcp(p), n)
        /\ up' = [up EXCEPT ![p] = @ \o [i \in 1 .. n |-> C!W!Pending(tcp(p))[i].n]]
        /\ UNCHANGED <<vars, down, reset, udp>>

-----------------------------------------------------------------------------
(* UDP.  Only a Hello carries the uuid; the source address is the client's. *)

ToServer(p, x) == [from |-> sock[p].udp, msg |-> x.msg, peer |-> p]

ClientSendsDatagram(p) ==
    LET a == <<p, "udp">>
    IN  \E n \in 0 .. Len(C!W!Pending(a)) :
            /\ C!SinkDone(a, n) \/ (n = Len(cwSink[a]) /\ C!CloseSink(a, n))
            /\ toServer' = toServer \cup {ToServer(p, C!W!Pending(a)[i]) : i \in 1 .. n}
            /\ UNCHANGED <<vars, links, toClients, lost>>

ServerSendsDatagram ==
    \E n \in 0 .. Len(W!Pending(UdpWriter)) :
        /\ SinkDone(UdpWriter, n) \/ (n = Len(wSink[UdpWriter]) /\ CloseSink(UdpWriter, n))
        /\ toClients' = toClients \cup {W!Pending(UdpWriter)[i] : i \in 1 .. n}
        /\ UNCHANGED <<clientVars, links, toServer, lost>>

HelloArrives(p) ==
    \E d \in toServer :
        /\ d.msg = "Hello"
        /\ d.peer = p
        /\ UdpHello(p, d.from)
        /\ toServer' = toServer \ {d}
        /\ UNCHANGED <<clientVars, links, toClients, lost>>

MessageArrives ==
    \E d \in toServer :
        /\ d.msg = "ApplicationLogic"
        /\ UdpApplicationLogic(d.from)
        /\ toServer' = toServer \ {d}
        /\ UNCHANGED <<clientVars, links, toClients, lost>>

DatagramArrives(p) ==
    \E d \in toClients :
        /\ d.to = sock[p].udp
        /\ C!Reads(<<p, "udp">>, [kind |-> d.msg, n |-> 0])
        /\ toClients' = toClients \ {d}
        /\ UNCHANGED <<vars, links, toServer, lost>>

LoseDatagram ==
    /\ \E d \in toServer \cup toClients :
          toServer' = toServer \ {d} /\ toClients' = toClients \ {d}
    /\ lost' = TRUE
    /\ UNCHANGED <<vars, clientVars, links>>

-----------------------------------------------------------------------------

\* Steps that the runtime of either program or the network owes.
Progress(p) ==
    \/ ServerLocal(p) \/ ServerReads(p) \/ ServerSeesEnd(p) \/ ServerWrites(p)
    \/ ClientLoop(p) \/ ClientReads(p) \/ ClientSeesEnd(p) \/ ClientWrites(p)
    \/ ClientSendsDatagram(p) \/ HelloArrives(p) \/ DatagramArrives(p)
    \/ \E s \in C!Protocols : ClientTask(<<p, s>>)

NetNext ==
    \/ Connect
    \/ UdpWriterLocal
    \/ ServerSendsDatagram
    \/ MessageArrives
    \/ LoseDatagram
    \/ \E p \in PeerUids : Progress(p) \/ ClientApp(p) \/ ResetConnection(p)

NetSpec == NetInit /\ [][NetNext]_netVars

\* No step of Progress can be taken for ever: messages and datagrams are
\* bounded, and the heartbeat is left out.  Weak fairness of these steps taken
\* together is then all that the properties need of the two schedulers (in
\* ServerActor and ClientAlone, where steps can be taken for ever, it is not).
NetFairness ==
    /\ WF_netVars(\E p \in PeerUids : Progress(p))
    /\ WF_netVars(UdpWriterLocal \/ ServerSendsDatagram)

NetFairSpec == NetSpec /\ NetFairness

-----------------------------------------------------------------------------

\* CanSendUdpMessages "indicates that a test message sent from client to server
\* over UDP has reached the server" (src/README.md:135): the server attributes
\* what comes from the client's address to this client, as long as it is
\* connected, whatever datagrams were lost or reordered.
CanSendIsTrue ==
    \A p \in Connected :
        Told(p, C!CanSendUdpMessages) =>
            /\ sock[p].udp \in DOMAIN peer_udp_socket_addr_to_peer_uid
            /\ peer_udp_socket_addr_to_peer_uid[sock[p].udp] = p

\* A client that sends on TCP and then drops its handle is heard to the end:
\* if the server reports that it closed its connection (and no write to it
\* failed), every message that the handle accepted has been reported, in order,
\* although it passed three channels and two sockets whose owners were leaving
\* meanwhile (src/src/client/actor.rs:123 and 212, src/src/server/actor.rs:198).
OrderlyLeaveIsHeard ==
    \A p \in PeerUids :
        /\ client[p] = "left"
        /\ \E i \in DOMAIN events[p] : events[p][i] = PeerDisconnect("PeerClosedConnection")
        /\ wReason[p] # "SinkError"
        => /\ {events[p][i].n : i \in Heard(p)} = 1 .. accepted[p]["tcp"]
           /\ \A i, j \in Heard(p) : i < j => events[p][i].n < events[p][j].n

\* PeerSubmittedUnintelligibleData is "Peer submitted unintelligble data that
\* could not be decoded" (src/src/server/event.rs:46), which these clients
\* never do.
BlamedForGarbageOnly ==
    \A p \in PeerUids : \A i \in DOMAIN events[p] :
        events[p][i] # PeerDisconnect("PeerSubmittedUnintelligibleData")

\* A client that ends, by its handle or by a panic, is noticed by the server,
\* although nothing is sent to tell it (src/src/client/actor.rs:213, and
\* src/tests/integration_tests/peer_disconnect.rs:61).
LeavingIsNoticed ==
    \A p \in PeerUids : (client[p] \in {"left", "panicked"}) ~> p \notin Connected

\* The handshake completes on both sides, unless a datagram is lost or one side
\* ends before: no message of it is repeated (src/src/client/actor.rs:152 and
\* src/src/server/actor.rs:535-554).
HandshakeCompletes ==
    \A p \in PeerUids :
        p \in Connected ~>
            \/ Told(p, C!CanSendUdpMessages) /\ Told(p, C!CanReceiveUdpMessages)
            \/ lost \/ p \notin Connected \/ client[p] # "running"
=============================================================================
