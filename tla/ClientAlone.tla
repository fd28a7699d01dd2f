---------------------------- MODULE ClientAlone ----------------------------
(***************************************************************************)
(* Clients against an arbitrary server and an arbitrary application: what  *)
(* a server sends on TCP begins with a Welcome, it acknowledges a Hello    *)
(* only after it was written, and datagrams come in any order.             *)
(***************************************************************************)
EXTENDS ClientActor

CONSTANTS MaxTraffic, \* bound: items that a client reads and messages it accepts
          MaxFaults,  \* bound: faults in one behaviour
          SendsOn     \* bound: the protocols that the application sends on

ASSUME ClientAloneAssumption ==
    /\ MaxTraffic \in Nat /\ MaxFaults \in Nat
    /\ SendsOn \subseteq Protocols

VARIABLES reads,   \* per socket and item read: is it an application message?
          helloed, \* clients whose Hello has been written to the socket
          faults   \* how many faults there have been

history == <<reads, helloed, faults>>
vars == <<clientVars, history>>

Init ==
    /\ ClientInit
    /\ reads = [a \in Sockets |-> <<>>]
    /\ helloed = {}
    /\ faults = 0

Fault == faults < MaxFaults /\ faults' = faults + 1

\* What the server may have sent next.
FromServer(c, s) ==
    CASE s = "tcp" /\ reads[<<c, s>>] = <<>> -> {"Welcome"}
      [] s = "tcp" /\ reads[<<c, s>>] # <<>> ->
            {"ApplicationLogic"} \cup (IF c \in helloed THEN {"UdpHandshakeAcknowledged"} ELSE {})
      [] s = "udp" ->
            {"Heartbeat", "ApplicationLogic"} \cup (IF c \in helloed THEN {"Welcome"} ELSE {})

\* What reading a socket may yield instead.
Garbage(s) == IF s = "tcp" THEN {"Bincode", "Io"} ELSE {"Bincode"}

Traffic(c) ==
    Len(reads[<<c, "tcp">>]) + Len(reads[<<c, "udp">>]) + accepted[c]["tcp"] + accepted[c]["udp"]

ReadsItem(c, s) ==
    /\ Traffic(c) < MaxTraffic
    /\ \E kind \in FromServer(c, s) \cup Garbage(s) :
          /\ Reads(<<c, s>>, [kind |-> kind, n |-> Len(reads[<<c, s>>]) + 1])
          /\ reads' = [reads EXCEPT ![<<c, s>>] = Append(@, kind = "ApplicationLogic")]
          /\ IF kind \in Garbage(s) THEN Fault ELSE UNCHANGED faults
    /\ UNCHANGED helloed

Writes(a, n) ==
    helloed' = IF \E i \in 1 .. n : W!Pending(a)[i].msg = "Hello" THEN helloed \cup {a[1]} ELSE helloed

\* A sink that fails may have written any part of what was pending.
WriterSteps(a) ==
    \E n \in 0 .. Len(W!Pending(a)) :
        /\ \/ SinkDone(a, n) /\ UNCHANGED faults
           \/ SinkFails(a, n) /\ Fault
           \/ CloseSink(a, n) /\ IF n = Len(wSink[a]) THEN UNCHANGED faults ELSE Fault
        /\ Writes(a, n)
        /\ UNCHANGED reads

Loop(c) == OnMessage(c) \/ OnTcp(c) \/ UdpItem(c) \/ OnDatagram(c)

Calls(c) ==
    \/ Traffic(c) < MaxTraffic /\ \E s \in SendsOn : send_message(c, s)
    \/ get_status(c)
    \/ DropHandle(c)

\* Steps that the runtime, the sockets and an application that keeps taking
\* events owe.
Owed(c) ==
    \/ (Loop(c) \/ TakeEvent(c)) /\ UNCHANGED history
    \/ \E s \in Protocols :
          \/ (ReaderRuns(<<c, s>>) \/ WriterRuns(<<c, s>>)) /\ UNCHANGED history
          \/ WriterSteps(<<c, s>>)

\* A task panics in application code, or because reading the UDP socket failed;
\* or the application drops its receiver.
Fails(c) ==
    /\ Fault
    /\ \/ \E s \in Protocols : ReaderPanics(<<c, s>>) \/ WriterPanics(<<c, s>>)
       \/ DropEvents(c)
    /\ UNCHANGED <<reads, helloed>>

Next ==
    \E c \in Clients :
        \/ (connect(c) \/ Calls(c) \/ ServerCloses(c)) /\ UNCHANGED history
        \/ \E s \in Protocols : ReadsItem(c, s)
        \/ Owed(c)
        \/ Fails(c)

\* tokio polls every task that can run, sockets take what is written or fail,
\* and the application keeps taking events, as the loop in the repository's
\* README does.  Only calls of get_status can go on for ever here; weak fairness
\* of all these steps together is then enough for the properties below.
Fairness == \A c \in Clients : WF_vars(Owed(c))

Spec == Init /\ [][Next]_vars /\ Fairness

-----------------------------------------------------------------------------

Running(c) == client[c] = "running"
Ended(c) == client[c] \in {"left", "panicked"}

\* The events ev among es are the application messages among the first k items
\* read (flags says which of these are), each of them once and in order.
Reports(es, ev, flags, k) ==
    /\ \A i \in DOMAIN es : es[i].ev = ev => es[i].n \in 1 .. k /\ flags[es[i].n]
    /\ \A n \in 1 .. k : flags[n] => \E i \in DOMAIN es : es[i].ev = ev /\ es[i].n = n
    /\ \A i, j \in DOMAIN es : es[i].ev = ev /\ es[j].ev = ev /\ i < j => es[i].n < es[j].n

\* x is the n-th item that was read.
IsItem(x, n, flags) == x.n = n /\ ((x.kind = "ApplicationLogic") <=> flags[n])

EventOf(s) == IF s = "tcp" THEN "TcpMessage" ELSE "UdpMessage"
InHand(c, s) == IF s = "tcp" THEN <<>> ELSE item[c]

\* How many items the loop has taken from a reader.
Taken(a) == Len(reads[a]) - Len(rTx[a])

\* Between the socket and the application nothing is lost, repeated or
\* reordered while the client runs and somebody receives its events, also when
\* the event channel is full, and also the very first datagram: what was read
\* is reported, then in the hands of the loop, then in the channel of the
\* reader (src/src/client/actor.rs:162 and 180-197).
NothingSwallowed ==
    \A c \in Clients, s \in Protocols :
        Running(c) /\ event_receiver[c] =>
            LET a == <<c, s>> IN
            /\ \A i \in DOMAIN rTx[a] : IsItem(rTx[a][i], Taken(a) + i, reads[a])
            /\ \A i \in DOMAIN InHand(c, s) : IsItem(InHand(c, s)[i], Taken(a), reads[a])
            /\ Reports(events[c], EventOf(s), reads[a], Taken(a) - Len(InHand(c, s)))

\* An application may wait for CanReceiveUdpMessages: every UdpMessage comes
\* after one, and there is only one, although the first datagram and its message
\* are two events with an await between them, whatever that datagram was
\* (src/src/client/actor.rs:180-197).
CanReceiveFirst ==
    \A c \in Clients : \A i \in DOMAIN events[c] :
        /\ events[c][i].ev = "UdpMessage" =>
              \E j \in 1 .. i - 1 : events[c][j] = CanReceiveUdpMessages
        /\ events[c][i] = CanReceiveUdpMessages =>
              \A j \in 1 .. i - 1 : events[c][j] # CanReceiveUdpMessages

\* get_status panics, "Expected response from actor" (src/src/client/
\* actor_handle.rs:84), only when the client itself panicked or found its event
\* receiver gone: never because the handle, which the caller holds, was
\* dropped, nor because the connection or an actor ended.
CancelledOnlyByFailure ==
    \A c \in Clients :
        status[c] = "cancelled" => client[c] = "panicked" \/ ~event_receiver[c]

\* The drop of the handle ends the client (src/src/client/actor.rs:213), after
\* the messages in its channel and however full the event channel is, as long
\* as the application takes events.
LeavesWhenDropped ==
    \A c \in Clients : (Running(c) /\ ~handle[c]) ~> Ended(c)

\* The end of the client "drops handles to all IO actors", which "shuts down
\* the raw TCP stream" (src/tests/integration_tests/peer_disconnect.rs:61): the
\* four tasks finish, a reader inside a send and a writer with a full channel
\* included.
IoActorsFinish ==
    \A c \in Clients : Ended(c) ~>
        \A s \in Protocols : R!ReaderFinished(<<c, s>>) /\ W!WriterFinished(<<c, s>>)

\* A call of get_status returns (src/src/client/actor_handle.rs:84) when another
\* task takes the events meanwhile.
StatusReturns == \A c \in Clients : status[c] = "waiting" ~> status[c] # "waiting"
=============================================================================
