----------------------------- MODULE WriteActor ----------------------------
(***************************************************************************)
(* The write actor (src/src/actors/write_actor.rs): a task that performs   *)
(* the Send, Feed and Flush messages of its handle on a socket sink, one   *)
(* at a time, until it is told to stop, loses its handle or the sink       *)
(* fails, and then closes the sink.  As in ReadActor, one state holds a    *)
(* family of actors, indexed by Writers.                                   *)
(*                                                                         *)
(* What an action puts on the wire is the first n of the items that the    *)
(* sink holds or is given (Pending): n is a parameter of the action, so    *)
(* that a composition can record SubSeq(Pending(w), 1, n).                 *)
(***************************************************************************)
EXTENDS Naturals, Sequences

CONSTANTS Writers,    \* identities of write actors
          WriteItems, \* what can be written
          WriteBuffer,\* buffer of the actor message channel (32 in the code)
          SinkBuffer  \* items a sink can hold before it has to write: a datagram in
                      \* UdpFramed and one in each With before it, 8 KiB of frames
                      \* in FramedWrite

ASSUME WriteActorAssumption == WriteBuffer \in Nat /\ SinkBuffer \in Nat \ {0}

VARIABLES wState,  \* "unspawned", "running", "closing" or why the task ended
          wReason, \* the shutdown reason, once the loop is left
          wMsgs,   \* messages in the actor message channel
          wHandle, \* is the WriteActorHandle (its only sender) alive?
          wHand,   \* the message being performed on the sink: at most one
          wSink    \* items the sink has accepted and not yet written

wVars == <<wState, wReason, wMsgs, wHandle, wHand, wSink>>

WriteActorShutdownReason == {"Signalled", "SinkError", "ActorHandlesDropped"}

WriteOutcome == WriteActorShutdownReason \cup {"Panic"}

ActorMessage ==
    [op : {"Send", "Feed"}, item : WriteItems] \cup [op : {"Flush", "Shutdown"}]

Send(x) == [op |-> "Send", item |-> x]
Feed(x) == [op |-> "Feed", item |-> x]
Flush == [op |-> "Flush"]
Shutdown == [op |-> "Shutdown"]

\* The items of a message.
Payload(m) == IF m.op \in {"Send", "Feed"} THEN <<m.item>> ELSE <<>>

\* What the sink holds, and the item it is being given.
Pending(w) == IF wHand[w] = <<>> THEN wSink[w] ELSE wSink[w] \o Payload(Head(wHand[w]))

WriterTypeOK ==
    /\ wState \in [Writers -> {"unspawned", "running", "closing"} \cup WriteOutcome]
    /\ wReason \in [Writers -> {"none"} \cup WriteActorShutdownReason]
    /\ wMsgs \in [Writers -> Seq(ActorMessage)]
    /\ \A w \in Writers : Len(wMsgs[w]) <= WriteBuffer + 1
    /\ wHandle \in [Writers -> BOOLEAN]
    /\ wHand \in [Writers -> {<<>>} \cup {<<m>> : m \in ActorMessage}]
    /\ wSink \in [Writers -> Seq(WriteItems)]

WriterInit ==
    /\ wState = [w \in Writers |-> "unspawned"]
    /\ wReason = [w \in Writers |-> "none"]
    /\ wMsgs = [w \in Writers |-> <<>>]
    /\ wHandle = [w \in Writers |-> FALSE]
    /\ wHand = [w \in Writers |-> <<>>]
    /\ wSink = [w \in Writers |-> <<>>]

-----------------------------------------------------------------------------
(* The handle.                                                             *)

WriterFinished(w) == wState[w] \in WriteOutcome

\* spawn_actor: the caller holds the handle.
spawn_write_actor(w) ==
    /\ wState' = [wState EXCEPT ![w] = "running"]
    /\ wHandle' = [wHandle EXCEPT ![w] = TRUE]

\* Variant: the fullness of the channel is not checked.
AcceptsUnbounded(w) == wState[w] \in {"running", "closing"}

\* actor_msg_tx.try_send: the channel exists until the task returns, which is
\* after the sink is closed, and holds WriteBuffer + 1 messages.
Accepts(w) ==
    /\ wState[w] \in {"running", "closing"}
    /\ Len(wMsgs[w]) <= WriteBuffer

\* send_actor_message: the channel after it; an error leaves it alone.
send_actor_message(w, m) == IF Accepts(w) THEN Append(wMsgs[w], m) ELSE wMsgs[w]

-----------------------------------------------------------------------------
(* The task.                                                               *)

Idle(w) == wState[w] = "running" /\ wHand[w] = <<>>

\* actor_msg_rx.next() yields Send, Feed or Flush: performing it may take long,
\* and the channel has room again meanwhile.
TakeMessage(w) ==
    /\ Idle(w)
    /\ wMsgs[w] # <<>>
    /\ Head(wMsgs[w]) # Shutdown
    /\ wHand' = [wHand EXCEPT ![w] = <<Head(wMsgs[w])>>]
    /\ wMsgs' = [wMsgs EXCEPT ![w] = Tail(@)]
    /\ UNCHANGED <<wState, wReason, wHandle, wSink>>

BeginClose(w, reason) ==
    /\ wState' = [wState EXCEPT ![w] = "closing"]
    /\ wReason' = [wReason EXCEPT ![w] = reason]

TakeShutdown(w) ==
    /\ Idle(w)
    /\ wMsgs[w] # <<>>
    /\ Head(wMsgs[w]) = Shutdown
    /\ BeginClose(w, "Signalled")
    /\ wMsgs' = [wMsgs EXCEPT ![w] = Tail(@)]
    /\ UNCHANGED <<wHandle, wHand, wSink>>

\* Variant: the messages still queued when the handle is dropped are ignored.
AllHandlesDroppedEarly(w) ==
    /\ Idle(w)
    /\ ~wHandle[w]
    /\ BeginClose(w, "ActorHandlesDropped")
    /\ UNCHANGED <<wMsgs, wHandle, wHand, wSink>>

\* Variant: None is taken for "nothing yet".
AllHandlesDroppedIgnored(w) ==
    /\ Idle(w)
    /\ wMsgs[w] = <<>>
    /\ ~wHandle[w]
    /\ UNCHANGED wVars

\* next() yields None: the queue is empty and the handle is gone.
AllHandlesDropped(w) ==
    /\ Idle(w)
    /\ wMsgs[w] = <<>>
    /\ ~wHandle[w]
    /\ BeginClose(w, "ActorHandlesDropped")
    /\ UNCHANGED <<wMsgs, wHandle, wHand, wSink>>

\* feed waits for room and no longer: a full UDP sink writes one datagram before
\* it takes the new one, a full FramedWrite all that it holds.
FeedWrites(w) == {n \in 0 .. Len(wSink[w]) : Len(wSink[w]) - n < SinkBuffer}

\* Variant: flush returns without waiting for the sink.
SinkWritesLazy(w) ==
    IF Head(wHand[w]).op = "Send" THEN {Len(Pending(w))} ELSE FeedWrites(w)

\* How many items reach the wire when the sink performs the message: send and
\* flush wait for all of them.
SinkWrites(w) ==
    IF Head(wHand[w]).op = "Feed" THEN FeedWrites(w) ELSE {Len(Pending(w))}

Rest(w, n) == SubSeq(Pending(w), n + 1, Len(Pending(w)))

SinkDone(w, n) ==
    /\ wState[w] = "running"
    /\ wHand[w] # <<>>
    /\ n \in SinkWrites(w)
    /\ wHand' = [wHand EXCEPT ![w] = <<>>]
    /\ wSink' = [wSink EXCEPT ![w] = Rest(w, n)]
    /\ UNCHANGED <<wState, wReason, wMsgs, wHandle>>

\* Variant: a failed operation is logged and the loop goes on.
SinkFailsContinue(w, n) ==
    /\ wState[w] = "running"
    /\ wHand[w] # <<>>
    /\ n = 0
    /\ wHand' = [wHand EXCEPT ![w] = <<>>]
    /\ UNCHANGED <<wState, wReason, wMsgs, wHandle, wSink>>

\* The sink operation fails, after n items went out.
SinkFails(w, n) ==
    /\ wState[w] = "running"
    /\ wHand[w] # <<>>
    /\ n \in 0 .. Len(Pending(w))
    /\ BeginClose(w, "SinkError")
    /\ wHand' = [wHand EXCEPT ![w] = <<>>]
    /\ wSink' = [wSink EXCEPT ![w] = Rest(w, n)]
    /\ UNCHANGED <<wMsgs, wHandle>>

\* sink.close() flushes what is left; when it fails only n items went out, and
\* the error is merely logged.  The task returns and its channel disappears.
CloseSink(w, n) ==
    /\ wState[w] = "closing"
    /\ n \in 0 .. Len(wSink[w])
    /\ wState' = [wState EXCEPT ![w] = wReason[w]]
    /\ wMsgs' = [wMsgs EXCEPT ![w] = <<>>]
    /\ wSink' = [wSink EXCEPT ![w] = <<>>]
    /\ UNCHANGED <<wReason, wHandle, wHand>>

\* A panic in the application's Serialize implementation unwinds the task; the
\* sink is dropped as it is.
WriterPanics(w) ==
    /\ wState[w] = "running"
    /\ wHand[w] # <<>>
    /\ wState' = [wState EXCEPT ![w] = "Panic"]
    /\ wMsgs' = [wMsgs EXCEPT ![w] = <<>>]
    /\ wHand' = [wHand EXCEPT ![w] = <<>>]
    /\ wSink' = [wSink EXCEPT ![w] = <<>>]
    /\ UNCHANGED <<wReason, wHandle>>

\* Steps the runtime owes a task that can run.
WriterProgress(w) == TakeMessage(w) \/ TakeShutdown(w) \/ AllHandlesDropped(w)
=============================================================================
