-------------------------- MODULE ReadActorProofs --------------------------
(***************************************************************************)
(* Safety of the read actor for any number of actors and any buffers.      *)
(***************************************************************************)
EXTENDS ReadActorLog, TLAPS

\* Until an actor has ended, every Shutdown it accepted is still in its channel.
AcceptedIsQueued ==
    \A a \in Readers : rState[a] \in {"unspawned", "running"} => told[a] = rCtl[a]

\* The inductive invariant.  ReasonIsTrue is not inductive on its own: what the
\* actor reports depends on its channel, and AcceptedIsQueued relates the
\* channel to the calls that were accepted.
ReaderInv == LogTypeOK /\ TxBounded /\ AcceptedIsQueued /\ ReasonIsTrue

\* A new family of actors satisfies the invariant.
LEMMA ReaderInitInv == Init => ReaderInv
  BY ReadActorAssumption
  DEF Init, ReaderInit, ReaderInv, LogTypeOK, ReaderTypeOK, TxBounded, AcceptedIsQueued,
      ReasonIsTrue, ReadOutcome, ReadActorShutdownReason

\* What the steps of an actor and of its owner preserve: the types.  Only
\* signal_shutdown and ForwardItem fill a channel, and each looks first.
LEMMA ReaderTypeStep == ReaderInv /\ [Next]_vars => ReaderTypeOK'
<1> SUFFICES ASSUME ReaderInv, [Next]_vars PROVE ReaderTypeOK'
  OBVIOUS
<1> USE ReadActorAssumption
        DEF ReaderInv, LogTypeOK, ReaderTypeOK, ReadOutcome, ReadActorShutdownReason
<1>1. CASE UNCHANGED vars
  BY <1>1 DEF vars, rVars
<1>2. ASSUME NEW a \in Readers, Spawn(a) PROVE ReaderTypeOK'
  BY <1>2 DEF Spawn, spawn_read_actor
<1>3. ASSUME NEW a \in Readers, signal_shutdown(a) PROVE ReaderTypeOK'
  <2>1. AfterSignal(a) \in 0 .. CtlBuffer + 1
    BY DEF AfterSignal
  <2> QED
    BY <1>3, <2>1 DEF signal_shutdown
<1>4. ASSUME NEW a \in Readers, DropHandle(a) PROVE ReaderTypeOK'
  BY <1>4 DEF DropHandle
<1>5. ASSUME NEW a \in Readers, ReceiveItem(a) PROVE ReaderTypeOK'
  BY <1>5 DEF ReceiveItem
<1>6. ASSUME NEW a \in Readers, DropReceiver(a) PROVE ReaderTypeOK'
  BY <1>6 DEF DropReceiver
<1>7. ASSUME NEW a \in Readers, ReceiveShutdown(a) PROVE ReaderTypeOK'
  BY <1>7 DEF ReceiveShutdown
<1>8. ASSUME NEW a \in Readers, HandlesDropped(a) PROVE ReaderTypeOK'
  BY <1>8 DEF HandlesDropped
<1>9. ASSUME NEW a \in Readers, NEW x \in Items, ForwardItem(a, x) PROVE ReaderTypeOK'
  <2>1. CtlReady(a) \in BOOLEAN
    BY DEF CtlReady
  <2>2. CASE rRx[a]
    <3>1. rOvertaken' = [rOvertaken EXCEPT ![a] = CtlReady(a)]
      BY <1>9, <2>2 DEF ForwardItem
    <3>2. rOvertaken' \in [Readers -> BOOLEAN]
      BY <2>1, <3>1, Zenon
    <3>3. rTx' \in [Readers -> Seq(Items)]
      <4>1. rTx' = [rTx EXCEPT ![a] = Append(rTx[a], x)]
        BY <1>9, <2>2 DEF ForwardItem
      <4>2. Append(rTx[a], x) \in Seq(Items)
        OBVIOUS
      <4> QED
        BY <4>1, <4>2, Zenon
    <3>4. UNCHANGED <<rState, rCtl, rHandle, rRx>> /\ rStream' \in [Readers -> {"open", "ended"}]
      BY <1>9, <2>2 DEF ForwardItem
    <3> QED
      BY <3>2, <3>3, <3>4
  <2>3. CASE ~rRx[a]
    BY <1>9, <2>3 DEF ForwardItem
  <2> QED
    BY <2>2, <2>3
<1>10. ASSUME NEW a \in Readers, EndOfStream(a) PROVE ReaderTypeOK'
  BY <1>10 DEF EndOfStream
<1>11. ASSUME NEW a \in Readers, ReaderPanics(a) PROVE ReaderTypeOK'
  BY <1>11 DEF ReaderPanics
<1>12. ASSUME NEW a \in Readers, PeerCloses(a) PROVE ReaderTypeOK'
  BY <1>12 DEF PeerCloses
<1> QED
  BY <1>1, <1>2, <1>3, <1>4, <1>5, <1>6, <1>7, <1>8, <1>9, <1>10, <1>11, <1>12
  DEF Next, Owner, Run, ReaderProgress

\* Sending waits for room, so one step adds at most the one slot of the sender.
LEMMA ReaderBoundStep == ReaderInv /\ [Next]_vars => TxBounded'
<1> SUFFICES ASSUME ReaderInv, [Next]_vars PROVE TxBounded'
  OBVIOUS
<1> USE ReadActorAssumption DEF ReaderInv, LogTypeOK, ReaderTypeOK, TxBounded
<1>1. CASE UNCHANGED rTx
  BY <1>1
<1>2. ASSUME NEW a \in Readers, ReceiveItem(a) PROVE TxBounded'
  BY <1>2 DEF ReceiveItem
<1>3. ASSUME NEW a \in Readers, DropReceiver(a) PROVE TxBounded'
  BY <1>3 DEF DropReceiver
<1>4. ASSUME NEW a \in Readers, NEW x \in Items, ForwardItem(a, x) PROVE TxBounded'
  <2>1. CASE rRx[a]
    <3>1. rTx' = [rTx EXCEPT ![a] = Append(rTx[a], x)]
      BY <1>4, <2>1 DEF ForwardItem
    <3>2. Len(rTx[a]) <= TxBuffer
      BY <1>4, <2>1 DEF ForwardItem, Polling
    <3>3. Len(Append(rTx[a], x)) = Len(rTx[a]) + 1
      OBVIOUS
    <3>4. rTx'[a] = Append(rTx[a], x) /\ \A b \in Readers \ {a} : rTx'[b] = rTx[b]
      BY <3>1
    <3>5. Len(rTx[a]) \in Nat
      OBVIOUS
    <3>6. Len(rTx'[a]) <= TxBuffer + 1
      BY <3>2, <3>3, <3>4, <3>5
    <3>7. ASSUME NEW b \in Readers \ {a} PROVE Len(rTx'[b]) <= TxBuffer + 1
      BY <3>4, <3>7
    <3> QED
      BY <3>6, <3>7, Zenon
  <2>2. CASE ~rRx[a]
    BY <1>1, <1>4, <2>2 DEF ForwardItem
  <2> QED
    BY <2>1, <2>2
<1>5. \/ UNCHANGED rTx
      \/ \E a \in Readers :
            ReceiveItem(a) \/ DropReceiver(a) \/ \E x \in Items : ForwardItem(a, x)
  BY DEF Next, Owner, Run, vars, rVars, Spawn, signal_shutdown, DropHandle, ReceiveShutdown, HandlesDropped,
      EndOfStream, ReaderPanics, PeerCloses, ReaderProgress
<1> QED
  BY <1>1, <1>2, <1>3, <1>4, <1>5

\* Only signal_shutdown counts a call.
LEMMA ReaderToldStep == ReaderInv /\ [Next]_vars => told' \in [Readers -> Nat]
  BY DEF ReaderInv, LogTypeOK, Next, Owner, Run, vars, Spawn, signal_shutdown, DropHandle,
      ReceiveItem, DropReceiver

\* A Shutdown that is accepted is queued, and only the end of the actor takes it.
LEMMA ReaderAcceptedStep == ReaderInv /\ [Next]_vars => AcceptedIsQueued'
<1> SUFFICES ASSUME ReaderInv, [Next]_vars PROVE AcceptedIsQueued'
  OBVIOUS
<1> USE ReadActorAssumption DEF ReaderInv, LogTypeOK, ReaderTypeOK, AcceptedIsQueued, ReadOutcome,
       ReadActorShutdownReason
<1>1. CASE UNCHANGED vars
  BY <1>1 DEF vars, rVars
<1>2. ASSUME NEW a \in Readers, Spawn(a) PROVE AcceptedIsQueued'
  BY <1>2 DEF Spawn, spawn_read_actor
<1>3. ASSUME NEW a \in Readers, signal_shutdown(a) PROVE AcceptedIsQueued'
  BY <1>3 DEF signal_shutdown, AfterSignal
<1>4. ASSUME NEW a \in Readers, DropHandle(a) PROVE AcceptedIsQueued'
  BY <1>4 DEF DropHandle
<1>5. ASSUME NEW a \in Readers, ReceiveItem(a) PROVE AcceptedIsQueued'
  BY <1>5 DEF ReceiveItem
<1>6. ASSUME NEW a \in Readers, DropReceiver(a) PROVE AcceptedIsQueued'
  BY <1>6 DEF DropReceiver
<1>7. ASSUME NEW a \in Readers, ReceiveShutdown(a), UNCHANGED told PROVE AcceptedIsQueued'
  BY <1>7 DEF ReceiveShutdown, Polling
<1>8. ASSUME NEW a \in Readers, HandlesDropped(a), UNCHANGED told PROVE AcceptedIsQueued'
  BY <1>8 DEF HandlesDropped, Polling
<1>9. ASSUME NEW a \in Readers, NEW x \in Items, ForwardItem(a, x), UNCHANGED told PROVE AcceptedIsQueued'
  BY <1>9 DEF ForwardItem, Polling
<1>10. ASSUME NEW a \in Readers, EndOfStream(a), UNCHANGED told PROVE AcceptedIsQueued'
  BY <1>10 DEF EndOfStream, Polling
<1>11. ASSUME NEW a \in Readers, ReaderPanics(a), UNCHANGED told PROVE AcceptedIsQueued'
  BY <1>11 DEF ReaderPanics, Polling
<1>12. ASSUME NEW a \in Readers, PeerCloses(a), UNCHANGED told PROVE AcceptedIsQueued'
  BY <1>12 DEF PeerCloses
<1> QED
  BY <1>1, <1>2, <1>3, <1>4, <1>5, <1>6, <1>7, <1>8, <1>9, <1>10, <1>11, <1>12
  DEF Next, Owner, Run, ReaderProgress

\* A reason stays true: a dropped handle or receiver does not come back, a stream
\* that ended stays ended, and an actor that has ended accepts no Shutdown.
LEMMA ReaderReasonStep == ReaderInv /\ [Next]_vars => ReasonIsTrue'
<1> SUFFICES ASSUME ReaderInv, [Next]_vars PROVE ReasonIsTrue'
  OBVIOUS
<1> USE ReadActorAssumption DEF ReaderInv, LogTypeOK, ReaderTypeOK, AcceptedIsQueued,
       ReasonIsTrue, ReadOutcome, ReadActorShutdownReason
<1>1. CASE UNCHANGED vars
  BY <1>1 DEF vars, rVars
<1>2. ASSUME NEW a \in Readers, Spawn(a) PROVE ReasonIsTrue'
  BY <1>2 DEF Spawn, spawn_read_actor
<1>3. ASSUME NEW a \in Readers, signal_shutdown(a) PROVE ReasonIsTrue'
  BY <1>3 DEF signal_shutdown, AfterSignal
<1>4. ASSUME NEW a \in Readers, DropHandle(a) PROVE ReasonIsTrue'
  BY <1>4 DEF DropHandle
<1>5. ASSUME NEW a \in Readers, ReceiveItem(a) PROVE ReasonIsTrue'
  BY <1>5 DEF ReceiveItem
<1>6. ASSUME NEW a \in Readers, DropReceiver(a) PROVE ReasonIsTrue'
  BY <1>6 DEF DropReceiver
<1>7. ASSUME NEW a \in Readers, ReceiveShutdown(a), UNCHANGED told PROVE ReasonIsTrue'
  BY <1>7 DEF ReceiveShutdown, Polling
<1>8. ASSUME NEW a \in Readers, HandlesDropped(a), UNCHANGED told PROVE ReasonIsTrue'
  BY <1>8 DEF HandlesDropped, Polling
<1>9. ASSUME NEW a \in Readers, NEW x \in Items, ForwardItem(a, x), UNCHANGED told PROVE ReasonIsTrue'
  BY <1>9 DEF ForwardItem, Polling
<1>10. ASSUME NEW a \in Readers, EndOfStream(a), UNCHANGED told PROVE ReasonIsTrue'
  BY <1>10 DEF EndOfStream, Polling
<1>11. ASSUME NEW a \in Readers, ReaderPanics(a), UNCHANGED told PROVE ReasonIsTrue'
  BY <1>11 DEF ReaderPanics, Polling
<1>12. ASSUME NEW a \in Readers, PeerCloses(a), UNCHANGED told PROVE ReasonIsTrue'
  BY <1>12 DEF PeerCloses
<1> QED
  BY <1>1, <1>2, <1>3, <1>4, <1>5, <1>6, <1>7, <1>8, <1>9, <1>10, <1>11, <1>12
  DEF Next, Owner, Run, ReaderProgress

\* The invariant holds of every behaviour of the read actors.
THEOREM ReaderInvariant == Spec => []ReaderInv
<1>1. ReaderInv /\ [Next]_vars => ReaderInv'
  BY ReaderTypeStep, ReaderToldStep, ReaderBoundStep, ReaderAcceptedStep, ReaderReasonStep
  DEF ReaderInv, LogTypeOK
<1> QED
  BY <1>1, ReaderInitInv, PTL DEF Spec

\* The output channel of a read actor never holds more than its buffer and one
\* item (src/src/actors/read_actor.rs:148), whatever the owner does.
THEOREM ReaderTxBounded == Spec => []TxBounded
<1>1. ReaderInv => TxBounded
  BY DEF ReaderInv
<1> QED
  BY <1>1, ReaderInvariant, PTL

\* The shutdown reason that wait() reports is true
\* (src/src/actors/read_actor.rs:140-162), whatever the owner does: Signalled
\* only after an accepted Shutdown, and never ActorHandlesDropped after one.
THEOREM ReaderReasonIsTrue == Spec => []ReasonIsTrue
<1>1. ReaderInv => ReasonIsTrue
  BY DEF ReaderInv
<1> QED
  BY <1>1, ReaderInvariant, PTL

\* The variables keep their types; in particular the channel of a read actor
\* never holds more than its buffer and one Shutdown
\* (src/src/actors/read_actor.rs:21), whatever the owner does.
THEOREM ReaderTypes == Spec => []LogTypeOK
<1>1. ReaderInv => LogTypeOK
  BY DEF ReaderInv
<1> QED
  BY <1>1, ReaderInvariant, PTL
=============================================================================
