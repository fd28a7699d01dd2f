---------------------------- MODULE ReadActorLog ---------------------------
(***************************************************************************)
(* Read actors with an owner that does anything a handle and a receiver    *)
(* allow, and the history that tells whether a reported reason is true:    *)
(* which calls of signal_shutdown the handle has accepted.                 *)
(***************************************************************************)
EXTENDS ReadActor

VARIABLE told  \* per reader, the calls of signal_shutdown that returned Ok

vars == <<rVars, told>>

LogTypeOK ==
    /\ ReaderTypeOK
    /\ told \in [Readers -> Nat]

Init ==
    /\ ReaderInit
    /\ told = [a \in Readers |-> 0]

Spawn(a) ==
    /\ rState[a] = "unspawned"
    /\ spawn_read_actor(a)
    /\ UNCHANGED <<rCtl, rStream, rOvertaken, rTx, told>>

\* The call returns Ok exactly if its Shutdown is in the channel afterwards.
signal_shutdown(a) ==
    /\ rHandle[a]
    /\ rCtl' = [rCtl EXCEPT ![a] = AfterSignal(a)]
    /\ told' = [told EXCEPT ![a] = IF AfterSignal(a) = rCtl[a] THEN @ ELSE @ + 1]
    /\ UNCHANGED <<rState, rHandle, rStream, rOvertaken, rTx, rRx>>

DropHandle(a) ==
    /\ rHandle[a]
    /\ rHandle' = [rHandle EXCEPT ![a] = FALSE]
    /\ UNCHANGED <<rState, rCtl, rStream, rOvertaken, rTx, rRx, told>>

ReceiveItem(a) ==
    /\ rRx[a]
    /\ rTx[a] # <<>>
    /\ rTx' = [rTx EXCEPT ![a] = Tail(@)]
    /\ UNCHANGED <<rState, rCtl, rHandle, rStream, rOvertaken, rRx, told>>

\* Dropping the receiver drops what it had not received.
DropReceiver(a) ==
    /\ rRx[a]
    /\ rRx' = [rRx EXCEPT ![a] = FALSE]
    /\ rTx' = [rTx EXCEPT ![a] = <<>>]
    /\ UNCHANGED <<rState, rCtl, rHandle, rStream, rOvertaken, told>>

Owner(a) ==
    Spawn(a) \/ signal_shutdown(a) \/ DropHandle(a) \/ ReceiveItem(a) \/ DropReceiver(a)

Run(a) ==
    /\ \/ ReaderProgress(a)
       \/ \E x \in Items : ForwardItem(a, x)
       \/ ReaderPanics(a)
       \/ PeerCloses(a)
    /\ UNCHANGED told

Next == \E a \in Readers : Owner(a) \/ Run(a)

\* The runtime keeps polling a task that can run, and the owner keeps polling
\* its receiver while it has one (the broker does so in its main loop).
\* Whether the stream yields another item is up to the network.
Fairness ==
    \A a \in Readers : WF_vars(ReaderProgress(a) /\ UNCHANGED told) /\ WF_vars(ReceiveItem(a))

Spec == Init /\ [][Next]_vars /\ Fairness

-----------------------------------------------------------------------------
(* What the actor promises its owner.                                      *)

\* The reason wait() reports is the true one.  Signalled is reported only of an
\* actor that accepted a Shutdown, and an owner whose Shutdown was accepted and
\* who then drops its handle is never told ActorHandlesDropped, although the
\* actor finds both (the broker's asserts at src/src/server/actor.rs:204 and
\* :211 depend on it).
ReasonIsTrue ==
    \A a \in Readers :
        /\ rState[a] = "Signalled" => told[a] > 0
        /\ rState[a] = "ActorHandlesDropped" => ~rHandle[a] /\ told[a] = 0
        /\ rState[a] = "ReceiverClosedChannel" => ~rRx[a]
        /\ rState[a] = "EndOfStream" => rStream[a] = "ended"

\* An actor that was told to stop, by message or by dropping its handle, stops
\* even if its stream always has another item, because select alternates.
StopsWhenTold == \A a \in Readers : (rState[a] = "running" /\ CtlReady(a)) ~> ReaderFinished(a)
=============================================================================
