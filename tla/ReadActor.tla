----------------------------- MODULE ReadActor -----------------------------
(***************************************************************************)
(* The read actor (src/src/actors/read_actor.rs): a task that moves items  *)
(* from a socket stream into a bounded channel until it is told to stop,   *)
(* loses all its handles, reaches the end of the stream, or finds its      *)
(* receiver gone.  One module state holds a family of actors, indexed by   *)
(* Readers, so that a composition can use the same actions per peer.       *)
(*                                                                         *)
(* The two channels are futures::channel::mpsc.  With a single sender such *)
(* a channel holds buffer + 1 messages; send().await puts its item in the  *)
(* channel at once and then waits until at most `buffer` items remain, so  *)
(* an actor "inside send" is exactly an actor with Len(rTx) > TxBuffer.    *)
(***************************************************************************)
EXTENDS Naturals, Sequences

CONSTANTS Readers,    \* identities of read actors
          Items,      \* what the stream can yield
          LastItems,  \* items after which the stream yields nothing more
          CtlBuffer,  \* buffer of the actor message channel (8 in the code)
          TxBuffer    \* buffer of the output channel (64 or 256 in the code)

ASSUME ReadActorAssumption ==
    /\ LastItems \subseteq Items
    /\ CtlBuffer \in Nat
    /\ TxBuffer \in Nat

VARIABLES rState,     \* "unspawned", "running" or why the task ended
          rCtl,       \* number of Shutdown messages in the actor message channel
          rHandle,    \* is the ReadActorHandle (its only sender) alive?
          rStream,    \* "open", or "ended": the next poll of the stream is None
          rOvertaken, \* the stream was served last although a message was ready
          rTx,        \* items in the output channel
          rRx         \* is the receiver of the output channel alive?

rVars == <<rState, rCtl, rHandle, rStream, rOvertaken, rTx, rRx>>

ReadActorShutdownReason ==
    {"Signalled", "EndOfStream", "ActorHandlesDropped", "ReceiverClosedChannel"}

\* "Panic" is ErraticActorShutdown::Panic, what wait() yields for a task that
\* unwound.  Cancelled needs an abort, and nothing in the repository aborts.
ReadOutcome == ReadActorShutdownReason \cup {"Panic"}

ReaderTypeOK ==
    /\ rState \in [Readers -> {"unspawned", "running"} \cup ReadOutcome]
    /\ rCtl \in [Readers -> 0 .. CtlBuffer + 1]
    /\ rHandle \in [Readers -> BOOLEAN]
    /\ rStream \in [Readers -> {"open", "ended"}]
    /\ rOvertaken \in [Readers -> BOOLEAN]
    /\ rTx \in [Readers -> Seq(Items)]
    /\ rRx \in [Readers -> BOOLEAN]

ReaderInit ==
    /\ rState = [a \in Readers |-> "unspawned"]
    /\ rCtl = [a \in Readers |-> 0]
    /\ rHandle = [a \in Readers |-> FALSE]
    /\ rStream = [a \in Readers |-> "open"]
    /\ rOvertaken = [a \in Readers |-> FALSE]
    /\ rTx = [a \in Readers |-> <<>>]
    /\ rRx = [a \in Readers |-> FALSE]

-----------------------------------------------------------------------------
(* The handle.                                                             *)

ReaderFinished(a) == rState[a] \in ReadOutcome

\* spawn_actor: the caller holds the handle and the receiver.
spawn_read_actor(a) ==
    /\ rState' = [rState EXCEPT ![a] = "running"]
    /\ rHandle' = [rHandle EXCEPT ![a] = TRUE]
    /\ rRx' = [rRx EXCEPT ![a] = TRUE]

\* Variant: the fullness of the channel is not checked.
AfterSignalUnbounded(a) == IF rState[a] = "running" THEN rCtl[a] + 1 ELSE rCtl[a]

\* actor_msg_tx.try_send(Shutdown): accepted unless the actor is gone
\* (ChannelClosed) or the channel holds CtlBuffer + 1 messages (ChannelFull).
AfterSignal(a) ==
    IF rState[a] = "running" /\ rCtl[a] <= CtlBuffer THEN rCtl[a] + 1 ELSE rCtl[a]

-----------------------------------------------------------------------------
(* The task.  stream::select polls its two sides alternately: a message or *)
(* the end of the message stream, once ready, is overtaken at most once.   *)

CtlReady(a) == rCtl[a] > 0 \/ ~rHandle[a]

\* Variant: an output channel without a bound.
PollingUnbounded(a) == rState[a] = "running"

\* The task is in its select loop, not inside tx.send(..).await.  A send to a
\* channel whose receiver is gone counts as flushed.
Polling(a) ==
    /\ rState[a] = "running"
    /\ Len(rTx[a]) <= TxBuffer \/ ~rRx[a]

\* Variant: a select that prefers the stream (no round robin).
StreamTurnBiased(a) == TRUE

\* The stream side may be served: nothing waits on the message side, or the
\* message side was served last.
StreamTurn(a) == CtlReady(a) => ~rOvertaken[a]

ReceiveShutdown(a) ==
    /\ Polling(a)
    /\ rCtl[a] > 0
    /\ rState' = [rState EXCEPT ![a] = "Signalled"]
    /\ rCtl' = [rCtl EXCEPT ![a] = @ - 1]
    /\ UNCHANGED <<rHandle, rStream, rOvertaken, rTx, rRx>>

\* Variant: noticing the dropped handle before the queued message.
HandlesDroppedEarly(a) ==
    /\ Polling(a)
    /\ ~rHandle[a]
    /\ rState' = [rState EXCEPT ![a] = "ActorHandlesDropped"]
    /\ UNCHANGED <<rCtl, rHandle, rStream, rOvertaken, rTx, rRx>>

\* Variant: the end of the message stream is taken for a Shutdown.
HandlesDroppedSignalled(a) ==
    /\ Polling(a)
    /\ rCtl[a] = 0
    /\ ~rHandle[a]
    /\ rState' = [rState EXCEPT ![a] = "Signalled"]
    /\ UNCHANGED <<rCtl, rHandle, rStream, rOvertaken, rTx, rRx>>

HandlesDropped(a) ==
    /\ Polling(a)
    /\ rCtl[a] = 0
    /\ ~rHandle[a]
    /\ rState' = [rState EXCEPT ![a] = "ActorHandlesDropped"]
    /\ UNCHANGED <<rCtl, rHandle, rStream, rOvertaken, rTx, rRx>>

ForwardItem(a, x) ==
    /\ Polling(a)
    /\ rStream[a] = "open"
    /\ StreamTurn(a)
    /\ rStream' = [rStream EXCEPT ![a] = IF x \in LastItems THEN "ended" ELSE @]
    /\ IF rRx[a]
       THEN /\ rTx' = [rTx EXCEPT ![a] = Append(@, x)]
            /\ rOvertaken' = [rOvertaken EXCEPT ![a] = CtlReady(a)]
            /\ UNCHANGED rState
       ELSE /\ rState' = [rState EXCEPT ![a] = "ReceiverClosedChannel"]
            /\ UNCHANGED <<rTx, rOvertaken>>
    /\ UNCHANGED <<rCtl, rHandle, rRx>>

EndOfStream(a) ==
    /\ Polling(a)
    /\ rStream[a] = "ended"
    /\ StreamTurn(a)
    /\ rState' = [rState EXCEPT ![a] = "EndOfStream"]
    /\ UNCHANGED <<rCtl, rHandle, rStream, rOvertaken, rTx, rRx>>

\* A panic inside the stream (the Deserialize implementation of the
\* application, or the expect on a UDP socket error) unwinds the task.
ReaderPanics(a) ==
    /\ Polling(a)
    /\ rState' = [rState EXCEPT ![a] = "Panic"]
    /\ UNCHANGED <<rCtl, rHandle, rStream, rOvertaken, rTx, rRx>>

\* The other end of the socket closes: what was sent before has been read.
PeerCloses(a) ==
    /\ rState[a] = "running"
    /\ rStream[a] = "open"
    /\ rStream' = [rStream EXCEPT ![a] = "ended"]
    /\ UNCHANGED <<rState, rCtl, rHandle, rOvertaken, rTx, rRx>>

\* Steps the runtime owes a task that can run.
ReaderProgress(a) == ReceiveShutdown(a) \/ HandlesDropped(a) \/ EndOfStream(a)

-----------------------------------------------------------------------------

\* The output channel never holds more than its buffer and the one slot of its
\* single sender (mpsc::channel(64) at src/src/server/actor.rs:359).
TxBounded == \A a \in Readers : Len(rTx[a]) <= TxBuffer + 1
=============================================================================
