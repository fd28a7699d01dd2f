# net-stream in TLA+

net-stream is a Rust library for typed messages between a server and its clients
over TCP and UDP. It is a set of tokio tasks that talk through channels: nothing
is locked, and what is hard about it is the order in which independent tasks see
each other's messages, ends and failures. This directory models both sides and
their composition, checks them with TLC, and proves the safety of the server, of the
client and of their actors with TLAPS.

## Inventory

| Component | State | Operations | Talks to |
|---|---|---|---|
| Read actor, `actors/read_actor.rs` | message channel (8), output channel (64 or 256), handle | `spawn_actor`, `signal_shutdown`, `wait`; the task forwards items until it is told to stop, loses its handles, its receiver or its stream | a socket stream; its owner |
| Write actor, `actors/write_actor.rs` | message channel (32), the sink's buffer, handle | `spawn_actor`, `send`, `feed`, `flush`, `signal_shutdown`, `wait`; the task performs one message at a time and closes the sink at the end | a socket sink; its owner |
| Server broker, `server/actor.rs` | `peers`, three indexes (TCP address, UDP address, handshake UUID), `next_peer_uid`, `streams`, the UDP write actor | one arm of the main loop per source: application message, listener, reader item, datagram, heartbeat, end of an actor; `drop_peer` | one read and one write actor per connection, two for UDP; the application |
| Server handle and events, `server.rs`, `server/actor_handle.rs`, `server/event.rs`, `server/peer_uid.rs` | unbounded channels to and from the broker | `message_peer_*`, `announce_*`, `get_number_of_connected_peers`; drop of handle or receiver | the broker |
| Client actor, `client.rs`, `client/*.rs` | channels (32, 128), `latest_udp_heartbeat`, `has_received_on_udp` | the client's main loop, `send_message_*`, `get_status` | four actors; the application; the server |
| Codecs, `networking/*.rs` | framing buffers | framing and bincode | sockets |
| Message types, `message_types.rs` | none | enums of the protocol | |

The handshake: the server sends `Welcome { uuid }` on TCP; the client answers
`Hello { uuid }` on UDP; the server records the address of the datagram, answers
`UdpHandshakeAcknowledged` on TCP and `Welcome` on UDP.

What is hard:

- an actor's end, and its reason, reach the broker concurrently with the items it
  sent, with the end of its sibling and with `drop_peer`; the broker asserts what
  it believes about the order;
- a Shutdown message may be refused because a channel is full, and the drop of the
  handle has to do instead;
- peers are removed while their items, their address or their UUID are still
  around in channels, indexes and the network;
- every panic of the broker (there are several `todo!()`s) leaves tasks behind that
  must end by themselves;
- the client blocks in its event channel while the application may block in
  `get_status`; it ends without telling the server, which has to notice by itself;
- the UDP handshake sends each of its four messages once, over two transports.

What makes each component correct: a read actor reports a true reason, stays
bounded and can be stopped; a write actor writes what it accepted, in order, and
ends; the broker's assertions hold, its indexes agree with its peers, its events
tell the life of a peer consistently, closed connections are noticed and no task
outlives its peer; the client's events are complete, in order and true, and the
drop of its handle delivers what was accepted and ends everything it started.

## Modules

| Module | Models |
|---|---|
| `ReadActor` | a family of read actors, each with its handle, channels and stream |
| `ReadActorLog` | read actors with an arbitrary owner and the history of accepted Shutdowns |
| `WriteActor` | a family of write actors: handle, channel, the message in hand, the sink's buffer |
| `WriteActorLog` | one write actor with an arbitrary owner and the history of accepted and written items |
| `HashMap` | `std::collections::HashMap` as a partial function |
| `ServerActor` | the broker, instantiating `ReadActor` and `WriteActor` per peer, with clients, network and application as environment |
| `PeerLifecycle` | the abstract specification: what the events promise an application |
| `ServerProperties` | what is checked of the server, and the refinement mapping to `PeerLifecycle` |
| `ClientActor` | clients: main loop, four actors each, the handle and the event receiver; what sockets yield is a parameter |
| `ClientAlone` | clients with an arbitrary server and an arbitrary application, and what is checked of them |
| `NetStream` | the composition: `ServerActor` with a `ClientActor` at the other end of every connection, over a network, and what is checked end to end |
| `MCServer` | the server for TLC (symmetry of addresses) |
| `ReadActorProofs` | theorems about the read actor: types, bounds, true reasons |
| `WriteActorProofs` | theorems about the write actor: order, completeness |
| `ServerActorProofs` | theorems about the broker: who owns which actor, its assertions on their ends |
| `ServerIndexProofs` | theorems about the broker: its indexes, `assert_invariants` |
| `ServerQueueProofs` | theorems about the broker: what it gives the write actors |
| `ServerLifeProofs` | theorems about the broker: its events, the refinement of `PeerLifecycle`, and its types and bounds |
| `ClientProofs` | theorems about the client |
| `NetStreamProofs` | theorems about server, clients and network together: the handshake, the orderly leave of a client, and that the server in it is `ServerActor` |

Variables of broker and client have the names of the fields of `State`; actions have the
names of handlers, or of the arm of the main loop when the arm has no function of
its own. An action is a whole turn of the loop: taking the item, the handler, and
the drain of `peers_to_drop` that follows (a client's turn is split where it waits in
`event_sender.send`). `PROJECT.json` maps every definition to
its lines. Operators commented "Variant" are plausible mistakes; the project keeps
them to show that each property notices one.

### How the code's mechanisms appear

- **futures::channel::mpsc** with buffer *n* and one sender holds *n* + 1 messages.
  `try_send` is refused when they are there (`AfterSignal`, `Accepts`).
  `send().await` inserts first and then waits until at most *n* remain, so a read
  actor is "inside send" exactly when `Len(rTx) > TxBuffer` (`Polling`).
- **stream::select** alternates between its two sides: the message side of a read
  actor, once ready, is overtaken at most once (`rOvertaken`, `StreamTurn`).
- **chain_future(wait())**: the end of a reader is taken only when its channel is
  empty and its task has finished (`TcpReaderEnd`).
- **A write operation** is in hand (`wHand`) while the channel already has room for
  another message. `send` and `flush` write everything, `feed` may leave items in
  the sink, which holds `SinkBuffer` of them: two datagrams on UDP (one in the slot of
  `SplitSink`, one in `UdpFramed`), and 8 KiB of frames on TCP, which only ever gets
  `send`. A failing operation may have written
  any part before.
- **Announcing on UDP** takes one step per feed and one for the flush, since the UDP
  write actor empties its channel meanwhile; the broker takes no other step until
  it is done (`announce`). `announce_tcp` writes to a different channel per peer
  and is one step.
- **A panic of the broker** sets `broker` to "unwinding"; `Unwind` then drops all that
  the task owned. Items in dropped channels are gone.
- **The UDP read actor** is not a task of the model: datagrams are lost, repeated and
  delayed anyway, so a datagram is available whenever a client may have sent it.
  A `Hello` needs a `Welcome` that really was written to the client's socket
  (`welcomed`). Its failure is `UdpActorEnds`.
- **The listener** never ends (`TcpListenerStream` yields for ever) and a failed accept
  changes nothing, so neither has an action. A connection at capacity is closed
  again, which changes nothing either: the guard of `handle_new_tcp_connection`.
- **The uuid** of a peer is `new_v4(uid)`: UUIDs do not repeat. `PeerUid` is a `u64`
  that is incremented per connection and does not wrap in practice.

- **The client's event channel** is bounded: `event_sender.send` inserts the event and
  then waits until at most `EventBuffer` are unread, so a client is inside it exactly
  when `unread > EventBuffer` and the receiver exists (`Free`). The first datagram
  emits `CanReceiveUdpMessages`, may wait, and is looked at after that (`item`).
- **The end of a client**, by `break` or a `todo!()`, drops the handles and receivers
  of its four actors and a reply sender in its channel (`Leave`); the ends of the
  actors themselves are only logged, and have no action.
- **TCP between the two** is a sequence in each direction. A dropped write half is
  seen behind the data. A socket closed with data unread, or that data still arrives
  at, resets the connection (`ResetConnection`): the other end may then fail to read,
  with what it has not read lost, or to write. **UDP** is a set of datagrams in flight
  per direction: any may be next, or be lost (`lost`). `connect` and the accept of the
  connection are one step, and the UDP address is the TCP address (`client.rs:52-55`).

### Circumstances

`Circumstances` says what may happen beyond ordinary traffic. An ordinary client's
UDP address is its TCP address, because `client::connect` binds the UDP socket to
the local address of the TCP stream; "nat" lifts this. An address is used again only
when the sockets of its last use are closed on both sides; "addr_reuse" lets a
client reconnect from it while the server has not yet processed the end of the old
connection. "rehello" repeats a `Hello` from another address. The others are
failures: undecodable data, I/O errors on reading and writing, panics in the
application's (de)serialisation, a failing UDP socket, a connection that is reset
before `peer_addr()`, and an application that drops its handle or its receiver.
The theorems about the actors, the client, the ends of actors and the agreement of
events and peers assume nothing about `Circumstances`. Those that depend on the
indexes assume `Ordinary`: neither "addr_reuse" nor "rehello" (the run `address_reuse`
shows why); all failures remain possible, and "nat" too. No two connected clients have
an address in common, be it for TCP or for UDP: a gateway that gives one port to two
clients, for TCP and for UDP, is not modelled. In `NetStream` read and write errors
are not free: they need a reset. `ClientAlone` allows `MaxFaults` faults of any kind:
undecodable data, failing sockets, panicking actors, a dropped event receiver.

### Bounds

`MaxPeers` connections are accepted, `MaxReads` items read per connection, `MaxUdp`
UDP messages reported per peer, `MaxQueue` application messages waiting,
`MaxAccepted` items given to a write actor, `MaxSends` messages accepted per protocol by
a client's handle, `MaxTraffic` items read and messages accepted by a client together;
`SendsOn` are the protocols a client's application sends on (on UDP it does so in
`net_stream`). Buffers are 0 to 2: a full channel, a
refused message and a blocked send all occur with these, and no handler compares a
length with anything but its limit. In `server_tcp` the output channel has one place
to spare, so that a reader can end while its last item waits. With one item per
connection `HeardOut`'s order is beyond that run; the theorem `ClientsAreHeardOut` has it
for every bound. Two connections suffice for the interactions of
peers: they only meet in the indexes, the capacity and the UDP channel. Clients do
not meet at all, so `client` and `net_stream` have one. `net_stream` has an event
channel large enough for all its events, since `client` is about that channel.

## Runs that pass

| Run | Shows |
|---|---|
| `read_actor` | `ReasonIsTrue` (`Signalled` only after a Shutdown that was accepted, never `ActorHandlesDropped` after one), `TxBounded`, and `StopsWhenTold`: an actor that was told to stop does, although its stream always has more |
| `write_actor` | `WireIsPrefix` whatever fails; `QuietMeansWritten` (a `Feed` followed by a `Flush` is not left in the sink); `OrderlyShutdownLosesNothing`; `FinishesWithoutHandle` |
| `server_tcp` | two connections at capacity one with decoding, read and write errors: the broker's assertions on actor ends (`ShutdownAssertsHold`), `EventsMatchPeers`, `HeardOut` (a client that sends and closes is reported completely, and closed last), and `ImplementsPeerLifecycle` |
| `server_udp` | two peers with handshakes, address translation and three addresses, so that a peer comes to an address of an earlier one, for TCP or UDP: `AssertInvariants` and the stronger `IndexesExact`, `AckMeansKnown`, and `DatagramsKeepToPeers` (a message from UDP is reported of the connected peer that has the address, and the answer to a `Hello` goes to its sender) |
| `server_calls` | all calls of the handle, for present and absent peers, with a handshake from two addresses, undecodable data on both transports and disconnects: `IndexesExact`, `ImplementsPeerLifecycle` with UDP messages, and `DatagramsKeepToPeers` (what is queued on UDP is for one connected peer, and `message_peer_udp` for the UDP address of its addressee) |
| `server_liveness` | `ClosedIsNoticed`, `ActorsFinish` and `FedIsWritten` (a fed datagram whose flush was refused is written with a later heartbeat) with back pressure, refused signals, an endless heartbeat and every kind of panic; the one exception to `ClosedIsNoticed` is a reader that panicked |
| `client` | `NothingSwallowed` (what is read is reported, in order, the first datagram included), `CanReceiveFirst` (one `CanReceiveUdpMessages`, before every `UdpMessage`), `CancelledOnlyByFailure` (when `get_status` may panic), `LeavesWhenDropped`, `IoActorsFinish`, `StatusReturns`, with one fault anywhere |
| `net_stream` | `CanSendIsTrue` (whatever UDP does), `OrderlyLeaveIsHeard` (messages accepted before the drop of the handle are reported before the end), `LeavingIsNoticed`, `HandshakeCompletes` unless a datagram is lost or a side ends |

Runs do not check for deadlock: a server whose clients are gone, with the bounds
used up, rightly does nothing.

### Fairness

tokio polls every task that can run: weak fairness of each task's own steps. The
arms of the broker's main loop are strongly fair, because the broker serves one at
a time and `SelectAll` (a `FuturesUnordered`) serves every ready stream before it
returns to one; the heartbeat is among them. Operations on a socket end, with
success or an error: this is an assumption on clients, and a client that keeps
its connection open and never reads breaks it (the write actor then hangs inside
`send`, and no Shutdown reaches it). Nothing is assumed about clients sending,
closing or connecting, about datagrams or about the application.

In `ClientAlone` and `NetStream` the bounds leave no endless activity but calls of
`get_status`, so weak fairness of everything that is owed, taken together, suffices.
`ClientAlone` also assumes an application that keeps taking events, in a task other
than the one that waits for `get_status`: with a single task and a full event channel
`get_status` never returns, and with nobody taking events the client does not notice
that its handle is dropped. `NetStream` does not assume that a datagram survives.

## Runs that find a disagreement

Each has a finding in `PROJECT.json` with the line it contradicts.

| Run | What happens |
|---|---|
| `late_message` | after a failed write drops the peer, an item left in its channel is reported: `TcpMessage` after `PeerDisconnect` |
| `address_reuse` | a client reconnects from its old address and completes the UDP handshake; the end of the old connection then removes the new peer's entry in the TCP index, and an `assert_invariants` fails |
| `nat` | a client's `Hello` comes from an address that is not its TCP address and is answered there; the next heartbeat goes to its TCP address, as every announcement does |
| `reset_blamed` | a client of the library leaves with its `Welcome` unread; the reset is reported as `PeerSubmittedUnintelligibleData` |

Some smaller things are visible in the model without a run of their own. A second
`Hello` from another address ("rehello") leaves its first address in the UDP index
when the peer is dropped. The drop of the last server handle is a `todo!()`
(`server/actor.rs:195`), where `server.rs:56-58` announces a graceful shut down. A
client only logs that the server closed its connection: the application learns it
from the `todo!()` at the next send, if at all.

## Theorems

All constants are arbitrary, within the assumptions of the modules (buffers and bounds
are natural numbers, `NoAddr` is no address, the UDP writer is not a peer). `ASSUME
Ordinary` is explained under Circumstances. Each proof has a lemma per action or
group of actions and combines them in one step lemma.

**Read actor** (`ReadActorProofs`). Types, `TxBounded`, `ReasonIsTrue` and
`AcceptedIsQueued` together are inductive. `TxBounded` needs that an item is only
forwarded from `Polling`. `ReasonIsTrue` speaks of calls accepted long before:
`AcceptedIsQueued` says that as long as the actor runs, what its handle accepted is
what its channel holds, so an actor that finds a Shutdown was told to stop, and one
that finds only the dropped handle was not. `ReaderTypes`, `ReaderTxBounded` and
`ReaderReasonIsTrue` follow.

**Write actor** (`WriteActorProofs`). `WireIsPrefix` compares the socket with what was
accepted, between which lie the sink, the message in hand and the channel. The
invariant `LogInv` says that the wire followed by the sink is an initial part of
`accepted`, and that the rest of `accepted` is what the queue holds, position by
position (`Schedule`: after the first *i* messages, so many items are accounted for).
It also says that no message follows a Shutdown and that the last message is the last
operation accepted (`Ends`). `WireOrder`, `QuietWritten` and `OrderlyShutdown`
follow, for any failures of the sink.

**Broker: ends of actors** (`ServerActorProofs`). The broker's assertions at
`server/actor.rs:204`, `:211`, `:223` and `:231` never fail. `ShutdownAssertsHold` speaks
of reasons and peers only, and is not inductive: a reader turns Signalled because of a
message sent long before. The invariant `ServerInv` adds who owns what. `Owned`: the
actors of a connected peer have their handle, their receiver and no Shutdown in their
channel, nor are they closing for a reason other than a failed sink. `Fresh`: a uid
that was not given out has no actors and no messages, so `Owned` holds when a
connection is accepted. `drop_peer` breaks the ownership and the membership in `peers`
in the same turn of the loop.

**Broker: indexes** (`ServerIndexProofs`). `IndexesExact` is not inductive: `drop_peer`
removes keys without looking whose they are. `IndexInv` adds that the sockets of two
connected peers have different addresses, that a peer's entries are the addresses of
its socket, and that an index has no other keys. A connection is accepted only from an
address that no connected peer has, which is where `Ordinary` is needed.
`AssertionsHold`: the assertions of `assert_invariants` count entries, so exactness is
turned into cardinalities by injections between the index and the peers.

**Broker: what is sent** (`ServerQueueProofs`). What a channel to a write actor holds
changes only by one appended message or by its head being taken (`Queued`).
`AcknowledgedIsKnown`: an acknowledgement is queued in the turn that records the
address, and only `drop_peer` forgets it. `DatagramsKeep`: a message that is
queued on UDP is for the address that its peer's socket has (`QueuesStep`), and the peer
that a UDP message is reported of is the one found in the index (`ReportsStep`); with
`IndexInv` no entry is stale and no two peers share an address (`OneClient`), so each
is the peer it should be.

**Broker: events** (`ServerLifeProofs`). `ItemInv` numbers what waits in a reader's
channel: it is what was read last, in order. `EventInv` says of each peer's events
that `NewPeer` is first and unique and `PeerDisconnect` occurs exactly if the peer is
gone; with it `EventsMatch` holds in all circumstances. `ServerImplementsPeerLifecycle`
is the refinement of `PeerLifecycle`: a step is a `NewPeer`, a message, a
`PeerDisconnect` or the end of the server there, or leaves `life` alone; the item
numbers of `ItemInv` show that messages are reported in order, and `IndexInv` that a
datagram is attributed to a live peer. `HeardInv` relates the events of a peer to the
position its reader has reached and to the reason its reader ended with;
`ClientsAreHeardOut` follows, since the end of a reader is taken only when its channel
is empty.

`ServerTypes` is `TypeOK` in full, with the bound of the channels: `SendBounded` for the
messages to a write actor, `DropSignals` for the signals to a reader. It needs that a
write actor that closes its sink has a reason to return (`WriterEnds`), and the types
that the other invariants carry. `BacklogBounded` bounds what waits in the channel of a
reader.

**Client** (`ClientProofs`). `AppInv`: before `has_received_on_udp` is set nothing of UDP
was reported and no datagram is in hand, so the event that announces UDP can only
come first; once it is set, the event is there (`Announced`), so every
`UdpMessage` has it before; a caller that waits for its status holds the handle.
`CanReceiveOnceAndFirst` and `StatusFailsOnlyByFailure` follow. `ClientTypes` is the full
type invariant with the bounds of all channels; the bound of the event channel needs
that the loop emits only when it is `Free`, that of a write actor's channel that it is
only filled by `Accepts`. `PathInv` says of each socket that the events, the item in
hand and the channel of the reader, laid end to end, are what was read;
`NothingIsSwallowed` follows.

**Composition** (`NetStreamProofs`). `CanSendIsTrue` relates an event of the client to
an index of the server, with six stations between them: the channel, the hand and the
sink of the server's write actor, the connection, the channel of the client's read
actor and its loop. `NetInv` says that wherever an acknowledgement is (`Underway`), the
client is `Known`: its address is recorded, or it has been dropped and its uid will not
return. Known clients stay known (`KnownStays`), a step makes an acknowledgement only
together with `Known` (`AckQueued`), and it only moves downstream (`SinkKeeps`,
`Downstream`). Every step of the composition is a step of the server alone or the
reading of a message (`ServerSteps`), so the server's invariants hold here too.

`OrderlyLeaveIsHeard` relates the handle of a client to the events of the server, at
the end of both. The client's messages are numbered by its handle. `FlowInv` says that
what the server has read, what is on the connection, what the client's write actor has
in hand and in its channel, and what waits in the handle's channel continue each
other's numbers (`InFlow`), as long as the server can still read the connection. Each
action moves a message one station on or touches none (`FlowTaken`, `FlowSend`,
`FlowTcpTask`, `FlowWritten`, `FlowRead`). When the server reads the end of the stream,
the write actor had closed its socket with empty hands after its handle was dropped,
which happens when the client leaves, with nothing left in its channel: everything was
read (`Drained`). Or the connection was reset, and then the last thing read was an
error and no message (`FailedLast`), which a peer that is heard out cannot have. The
guard "no write to it failed" is needed there, because a failed write of the server
also reports `PeerClosedConnection`. `FlowInv` also shows that a message is read with
the number that `ServerActor` gives it (`ReadsInOrder`), so every step of the
composition is a step of `ServerActor`: `NetImplementsServer`, and with it the
refinement of `PeerLifecycle` and every other theorem of the server hold in the
composition.

Every safety property that a passing run checks is stated by a theorem. Only
model-checked are:

- the liveness properties `StopsWhenTold`, `FinishesWithoutHandle`, `ClosedIsNoticed`,
  `ActorsFinish`, `FedIsWritten`, `LeavesWhenDropped`, `IoActorsFinish`, `StatusReturns`,
  `LeavingIsNoticed`, `HandshakeCompletes`: fairness is out of the prover's reach;
- the runs that find a disagreement.

## Not modelled

Bytes, frames and payloads; DNS, binding of sockets and errors of `connect`; logging;
the example program, whose terminal and chat log use nothing of the library that the
models leave out; tokio's cancellation of tasks (nothing aborts one); the reply of
`get_number_of_connected_peers`, whose value is `EventsMatchPeers`' subject; clones of a
client's handle, and a call of `get_status` that its caller abandons; a connection that
the server refuses at capacity, seen from the client.

## Plan

1. Done: `ReadActor`, `WriteActor`, `ServerActor`, `PeerLifecycle`, their runs and
   the first theorems.
2. Done: `ClientActor`, `ClientAlone`, and the composition `NetStream`.
3. Done: theorems for the safety properties of the actors, the server and the
   client, the refinement of `PeerLifecycle`, and the handshake in the composition.
4. Done: the server's full type invariant; `OrderlyLeaveIsHeard`, which joins the
   order of the client's write actor, of the connection and of the server's events;
   and that the server within the composition is `ServerActor`.
5. Left: liveness, whose proofs need a prover that handles fairness, and the example
   program.
