--------------------------- MODULE WriteActorLog ---------------------------
(***************************************************************************)
(* One write actor with an owner that uses its handle freely, and the      *)
(* history that says what a caller of the handle relies on: what was       *)
(* accepted, and what reached the wire.                                    *)
(***************************************************************************)
EXTENDS WriteActor

CONSTANT MaxAccepted  \* bound on the items the owner has accepted

ASSUME WriteActorLogAssumption == MaxAccepted \in Nat

VARIABLES accepted, \* per writer, the items whose send or feed returned Ok
          wire,     \* per writer, the items written to the socket
          last,     \* per writer, the operation accepted last
          failed    \* per writer, did an operation on the sink fail?

logVars == <<accepted, wire, last, failed>>
vars == <<wVars, logVars>>

LogTypeOK ==
    /\ WriterTypeOK
    /\ accepted \in [Writers -> Seq(WriteItems)]
    /\ wire \in [Writers -> Seq(WriteItems)]
    /\ last \in [Writers -> {"none", "Send", "Feed", "Flush", "Shutdown"}]
    /\ failed \in [Writers -> BOOLEAN]

Init ==
    /\ WriterInit
    /\ accepted = [w \in Writers |-> <<>>]
    /\ wire = [w \in Writers |-> <<>>]
    /\ last = [w \in Writers |-> "none"]
    /\ failed = [w \in Writers |-> FALSE]

Spawn(w) ==
    /\ wState[w] = "unspawned"
    /\ spawn_write_actor(w)
    /\ UNCHANGED <<wReason, wMsgs, wHand, wSink, logVars>>

\* A call of send, feed, flush or signal_shutdown on the handle.  After a
\* Shutdown was accepted the owner makes no further call (the broker signals
\* only in drop_peer, which consumes the handle).
Call(w, m) ==
    /\ wHandle[w]
    /\ last[w] # "Shutdown"
    /\ Len(accepted[w] \o Payload(m)) <= MaxAccepted
    /\ wMsgs' = [wMsgs EXCEPT ![w] = send_actor_message(w, m)]
    /\ IF Accepts(w)
       THEN /\ accepted' = [accepted EXCEPT ![w] = @ \o Payload(m)]
            /\ last' = [last EXCEPT ![w] = m.op]
       ELSE UNCHANGED <<accepted, last>>
    /\ UNCHANGED <<wState, wReason, wHandle, wHand, wSink, wire, failed>>

DropHandle(w) ==
    /\ wHandle[w]
    /\ wHandle' = [wHandle EXCEPT ![w] = FALSE]
    /\ UNCHANGED <<wState, wReason, wMsgs, wHand, wSink, logVars>>

Run(w) == WriterProgress(w) /\ UNCHANGED logVars

\* An operation on the sink in which n items go out.
Operate(w, n) ==
    /\ \/ SinkDone(w, n) /\ UNCHANGED failed
       \/ SinkFails(w, n) /\ failed' = [failed EXCEPT ![w] = TRUE]
       \/ CloseSink(w, n) /\ failed' = [failed EXCEPT ![w] = @ \/ n < Len(wSink[w])]
    /\ wire' = [wire EXCEPT ![w] = @ \o SubSeq(Pending(w), 1, n)]
    /\ UNCHANGED <<accepted, last>>

Panic(w) == WriterPanics(w) /\ UNCHANGED logVars

Next ==
    \E w \in Writers :
        \/ Spawn(w)
        \/ \E m \in ActorMessage : Call(w, m)
        \/ DropHandle(w)
        \/ Run(w)
        \/ \E n \in 0 .. Len(Pending(w)) : Operate(w, n)
        \/ Panic(w)

\* The network takes the data or fails, sooner or later; a peer that keeps its
\* connection open and never reads is outside this assumption.
Fairness ==
    \A w \in Writers :
        /\ WF_vars(Run(w))
        /\ WF_vars(\E n \in 0 .. Len(Pending(w)) : Operate(w, n))

Spec == Init /\ [][Next]_vars /\ Fairness

-----------------------------------------------------------------------------
(* What the handle promises.                                               *)

\* Whatever fails, the socket carries the accepted items in the order of the
\* calls, from the first, none twice and none left out in between.
WireIsPrefix ==
    \A w \in Writers :
        /\ Len(wire[w]) <= Len(accepted[w])
        /\ wire[w] = SubSeq(accepted[w], 1, Len(wire[w]))

\* An actor that is waiting for its next message, the last one of which was a
\* Send or a Flush, has written everything it accepted: a Feed followed by a
\* Flush (announce_udp, src/src/server/actor.rs:515) is not left in the buffer.
QuietMeansWritten ==
    \A w \in Writers :
        Idle(w) /\ wMsgs[w] = <<>> /\ last[w] \in {"Send", "Flush"} => wire[w] = accepted[w]

\* Shutting down by message or by dropping the handle loses nothing that was
\* accepted before, as long as the sink works ("close sink, flushing all
\* remaining output", src/src/actors/write_actor.rs:163).
OrderlyShutdownLosesNothing ==
    \A w \in Writers :
        wState[w] \in {"Signalled", "ActorHandlesDropped"} /\ ~failed[w] => wire[w] = accepted[w]

\* An actor whose handle is gone finishes: drop_peer relies on it when the
\* channel is too full for a Shutdown (src/src/server/actor.rs:435-440).
FinishesWithoutHandle ==
    \A w \in Writers : (wState[w] \in {"running", "closing"} /\ ~wHandle[w]) ~> WriterFinished(w)
=============================================================================
