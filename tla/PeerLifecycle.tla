--------------------------- MODULE PeerLifecycle ---------------------------
(***************************************************************************)
(* What the server promises the application that reads its events          *)
(* (src/src/server/event.rs): the life of a peer as the events tell it.    *)
(* Uids are given out in order and never again; a peer is announced once,  *)
(* disconnected at most once, and heard of on UDP only in between.  A TCP  *)
(* message may still come after the disconnect.  When the server fails the *)
(* peers vanish without an event.                                          *)
(***************************************************************************)
EXTENDS Naturals, Sequences, FiniteSets

CONSTANTS MaxPeers,       \* bound: uids given out
          max_connections,
          Serials         \* what tells the TCP messages of a peer apart

VARIABLES life,   \* per uid: "new", "connected" or "gone"
          log,    \* per uid, the events emitted about it
          server  \* "up", "failing" or "down"

lifeVars == <<life, log, server>>

Uids == 0 .. MaxPeers - 1

Connected == {p \in Uids : life[p] = "connected"}

LifeInit ==
    /\ life = [p \in Uids |-> "new"]
    /\ log = [p \in Uids |-> <<>>]
    /\ server = "up"

\* The event is delivered, or nobody receives events and the server fails.
Notify(p, e) ==
    \/ log' = [log EXCEPT ![p] = Append(@, e)] /\ UNCHANGED server
    \/ server' = "failing" /\ UNCHANGED log

Connect(p) ==
    /\ server = "up"
    /\ life[p] = "new"
    /\ \A q \in Uids : q < p => life[q] # "new"
    /\ Cardinality(Connected) < max_connections
    /\ life' = [life EXCEPT ![p] = "connected"]
    /\ Notify(p, [ev |-> "NewPeer"])

Disconnect(p, reason) ==
    /\ server = "up"
    /\ life[p] = "connected"
    /\ life' = [life EXCEPT ![p] = "gone"]
    /\ Notify(p, [ev |-> "PeerDisconnect", disconnect_reason |-> reason])

HearTcp(p, n) ==
    /\ server = "up"
    /\ life[p] # "new"
    /\ Notify(p, [ev |-> "TcpMessage", n |-> n])
    /\ UNCHANGED life

HearUdp(p) ==
    /\ server = "up"
    /\ life[p] = "connected"
    /\ Notify(p, [ev |-> "UdpMessage"])
    /\ UNCHANGED life

Fail ==
    /\ server = "up"
    /\ server' = "failing"
    /\ UNCHANGED <<life, log>>

GoDown ==
    /\ server = "failing"
    /\ server' = "down"
    /\ life' = [p \in Uids |-> IF life[p] = "connected" THEN "gone" ELSE life[p]]
    /\ UNCHANGED log

LifeNext ==
    \/ \E p \in Uids :
          \/ Connect(p)
          \/ \E r \in {"PeerClosedConnection", "PeerSubmittedUnintelligibleData"} : Disconnect(p, r)
          \/ \E n \in Serials : HearTcp(p, n)
          \/ HearUdp(p)
    \/ Fail
    \/ GoDown

LifeSpec == LifeInit /\ [][LifeNext]_lifeVars
=============================================================================
