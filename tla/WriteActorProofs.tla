-------------------------- MODULE WriteActorProofs -------------------------
(***************************************************************************)
(* What the handle of a write actor promises, for any number of actors and *)
(* any buffers: nothing accepted is reordered, repeated or left out, and   *)
(* an orderly shutdown writes all of it.                                   *)
(***************************************************************************)
EXTENDS WriteActorLog, SequenceTheorems, TLAPS

\* What the actor has written or is about to.
Taken(w) == wire[w] \o Pending(w)

\* s is an initial part of t.
PrefixOf(s, t) == Len(s) <= Len(t) /\ \A i \in 1 .. Len(s) : s[i] = t[i]

\* The queue q holds, in order, what comes after the first d items of acc:
\* after its first i messages, at[i] of the items are accounted for.
Schedule(q, acc, d) ==
    \E at \in [0 .. Len(q) -> 0 .. Len(acc)] :
        /\ at[0] = d
        /\ at[Len(q)] = Len(acc)
        /\ \A i \in 1 .. Len(q) :
               /\ at[i] = at[i - 1] + Len(Payload(q[i]))
               /\ Payload(q[i]) # <<>> => acc[at[i]] = q[i].item

\* The queue ends with the operation that was accepted last, and holds no
\* Shutdown before that; once the queue is empty the actor is performing it,
\* and once it has performed a Send or a Flush the sink holds nothing.
Ends(w) ==
    /\ \A i \in 1 .. Len(wMsgs[w]) - 1 : wMsgs[w][i].op # "Shutdown"
    /\ wMsgs[w] # <<>> => wMsgs[w][Len(wMsgs[w])].op = last[w]
    /\ wMsgs[w] = <<>> /\ wHand[w] # <<>> => Head(wHand[w]).op = last[w]
    /\ wMsgs[w] = <<>> /\ wHand[w] = <<>> /\ last[w] \in {"Send", "Flush"} => wSink[w] = <<>>

\* An actor that left its loop in an orderly way can be given nothing more.
Sealed(w, reason) ==
    \/ reason = "Signalled" /\ last[w] = "Shutdown"
    \/ reason = "ActorHandlesDropped" /\ ~wHandle[w]

WriterInv(w) ==
    /\ PrefixOf(Taken(w), accepted[w])
    /\ wState[w] = "unspawned" =>
           /\ wMsgs[w] = <<>> /\ wHand[w] = <<>> /\ wSink[w] = <<>>
           /\ accepted[w] = <<>> /\ last[w] = "none"
    /\ wState[w] = "running" => Schedule(wMsgs[w], accepted[w], Len(Taken(w))) /\ Ends(w)
    /\ wState[w] = "closing" =>
           /\ wReason[w] \in WriteActorShutdownReason
           /\ wHand[w] = <<>>
           /\ wReason[w] # "SinkError" =>
                  Len(Taken(w)) = Len(accepted[w]) /\ Sealed(w, wReason[w])
    /\ wState[w] \in {"Signalled", "ActorHandlesDropped"} /\ ~failed[w] =>
           wire[w] = accepted[w]

\* The invariant the theorems rest on.
LogInv == LogTypeOK /\ \A w \in Writers : WriterInv(w)

-----------------------------------------------------------------------------
(* Facts about the operators.                                              *)

\* A message carries one item or none.
LEMMA PayloadFacts ==
  ASSUME NEW m \in ActorMessage
  PROVE  /\ Payload(m) \in Seq(WriteItems)
         /\ m.op \in {"Send", "Feed", "Flush", "Shutdown"}
         /\ \/ Payload(m) = <<>> /\ Len(Payload(m)) = 0
            \/ m.item \in WriteItems /\ Payload(m) = <<m.item>> /\ Len(Payload(m)) = 1
  BY DEF Payload, ActorMessage

\* A queue without its first message.
LEMMA QueueFacts ==
  ASSUME NEW S, NEW q \in Seq(S)
  PROVE  /\ Len(q) \in Nat
         /\ q # <<>> => /\ Len(q) >= 1 /\ Head(q) = q[1] /\ Head(q) \in S
                        /\ Tail(q) \in Seq(S) /\ Len(Tail(q)) = Len(q) - 1
                        /\ \A i \in 1 .. Len(q) - 1 : Tail(q)[i] = q[i + 1]
  OBVIOUS

\* A queue with one more message.
LEMMA AppendFacts ==
  ASSUME NEW S, NEW q \in Seq(S), NEW x \in S
  PROVE  /\ Len(q) \in Nat /\ Len(Append(q, x)) = Len(q) + 1
         /\ Append(q, x)[Len(q) + 1] = x /\ Append(q, x) # <<>>
         /\ \A i \in 1 .. Len(q) : Append(q, x)[i] = q[i]
  OBVIOUS

\* send_actor_message on a channel with room: what the queue holds and what was
\* accepted grow together.
LEMMA ScheduleAppend ==
  ASSUME NEW q \in Seq(ActorMessage), NEW acc \in Seq(WriteItems), NEW d \in Nat,
         NEW m \in ActorMessage, Schedule(q, acc, d)
  PROVE  Schedule(Append(q, m), acc \o Payload(m), d)
<1> DEFINE r == Append(q, m)
           big == acc \o Payload(m)
<1>1. PICK at \in [0 .. Len(q) -> 0 .. Len(acc)] :
        /\ at[0] = d
        /\ at[Len(q)] = Len(acc)
        /\ \A i \in 1 .. Len(q) :
               /\ at[i] = at[i - 1] + Len(Payload(q[i]))
               /\ Payload(q[i]) # <<>> => acc[at[i]] = q[i].item
  BY DEF Schedule
<1>2. Len(r) = Len(q) + 1 /\ r[Len(q) + 1] = m /\ \A i \in 1 .. Len(q) : r[i] = q[i]
  OBVIOUS
<1>3. /\ Len(big) = Len(acc) + Len(Payload(m)) /\ Len(Payload(m)) \in {0, 1}
      /\ \A i \in 1 .. Len(acc) : big[i] = acc[i]
      /\ Payload(m) # <<>> => big[Len(acc) + 1] = m.item /\ Len(Payload(m)) = 1
  BY PayloadFacts
<1> DEFINE new == [i \in 0 .. Len(q) + 1 |-> IF i = Len(q) + 1 THEN Len(big) ELSE at[i]]
<1>4. \A i \in 1 .. Len(q) : Payload(q[i]) # <<>> => at[i] \in 1 .. Len(acc)
  <2> TAKE i \in 1 .. Len(q)
  <2>1. q[i] \in ActorMessage /\ i - 1 \in 0 .. Len(q) /\ i \in 0 .. Len(q)
    OBVIOUS
  <2>2. at[i] \in 0 .. Len(acc) /\ at[i - 1] \in 0 .. Len(acc)
    BY <1>1, <2>1
  <2> QED
    BY <1>1, <2>1, <2>2, PayloadFacts
<1> HIDE DEF r, big
<1>5. new \in [0 .. Len(q) + 1 -> 0 .. Len(big)]
  BY <1>1, <1>3
<1>6. new[0] = d /\ new[Len(q) + 1] = Len(big)
  BY <1>1
<1>7. ASSUME NEW i \in 1 .. Len(q) + 1
      PROVE  /\ new[i] = new[i - 1] + Len(Payload(r[i]))
             /\ Payload(r[i]) # <<>> => big[new[i]] = r[i].item
  <2>1. CASE i = Len(q) + 1
    <3>1. new[i] = Len(big) /\ new[i - 1] = Len(acc) /\ r[i] = m
      BY <2>1, <1>1, <1>2
    <3> QED
      BY <3>1, <1>3
  <2>2. CASE i # Len(q) + 1
    <3>1. i \in 1 .. Len(q) /\ new[i] = at[i] /\ new[i - 1] = at[i - 1] /\ r[i] = q[i]
      BY <2>2, <1>2
    <3> QED
      BY <3>1, <1>1, <1>3, <1>4
  <2> QED
    BY <2>1, <2>2
<1> QED
  <2> HIDE DEF new
  <2>1. /\ new \in [0 .. Len(r) -> 0 .. Len(big)]
        /\ new[0] = d /\ new[Len(r)] = Len(big)
        /\ \A i \in 1 .. Len(r) :
               /\ new[i] = new[i - 1] + Len(Payload(r[i]))
               /\ Payload(r[i]) # <<>> => big[new[i]] = r[i].item
    BY <1>2, <1>5, <1>6, <1>7
  <2>2. Schedule(r, big, d)
    BY <2>1, Zenon DEF Schedule
  <2> QED
    BY <2>2 DEF r, big

\* The actor takes the first message of its queue: its item, if it carries one,
\* is the next of the accepted ones.
LEMMA ScheduleTake ==
  ASSUME NEW q \in Seq(ActorMessage), NEW acc \in Seq(WriteItems), NEW d \in Nat,
         q # <<>>, Schedule(q, acc, d)
  PROVE  /\ Schedule(Tail(q), acc, d + Len(Payload(Head(q))))
         /\ d + Len(Payload(Head(q))) <= Len(acc)
         /\ Payload(Head(q)) # <<>> => acc[d + 1] = Head(q).item
<1>1. PICK at \in [0 .. Len(q) -> 0 .. Len(acc)] :
        /\ at[0] = d
        /\ at[Len(q)] = Len(acc)
        /\ \A i \in 1 .. Len(q) :
               /\ at[i] = at[i - 1] + Len(Payload(q[i]))
               /\ Payload(q[i]) # <<>> => acc[at[i]] = q[i].item
  BY DEF Schedule
<1> DEFINE t == Tail(q)
           n == Len(q) - 1
<1>2. /\ Len(q) \in Nat /\ Len(q) >= 1 /\ Len(t) = n /\ n \in Nat
      /\ q[1] = Head(q) /\ q[1] \in ActorMessage
      /\ \A i \in 1 .. n : t[i] = q[i + 1]
  OBVIOUS
<1>3. at[1] = d + Len(Payload(Head(q))) /\ at[1] \in 0 .. Len(acc)
  <2>1. 1 \in 1 .. Len(q) /\ 1 \in 0 .. Len(q) /\ 1 - 1 = 0
    BY <1>2
  <2>2. at[1] = at[1 - 1] + Len(Payload(q[1]))
    BY <1>1, <2>1
  <2> QED
    BY <1>1, <1>2, <2>1, <2>2
<1>4. Payload(Head(q)) # <<>> => at[1] = d + 1 /\ acc[at[1]] = Head(q).item
  <2>1. Payload(Head(q)) # <<>> => Len(Payload(Head(q))) = 1
    BY <1>2, PayloadFacts
  <2>2. Payload(q[1]) # <<>> => acc[at[1]] = q[1].item
    BY <1>1, <1>2
  <2> QED
    BY <1>2, <1>3, <2>1, <2>2
<1> DEFINE new == [i \in 0 .. n |-> at[i + 1]]
<1> HIDE DEF t, n
<1>5. new \in [0 .. n -> 0 .. Len(acc)] /\ new[0] = at[1] /\ new[n] = Len(acc)
  BY <1>1, <1>2 DEF n
<1>6. ASSUME NEW i \in 1 .. n
      PROVE  /\ new[i] = new[i - 1] + Len(Payload(t[i]))
             /\ Payload(t[i]) # <<>> => acc[new[i]] = t[i].item
  <2>1. i + 1 \in 1 .. Len(q) /\ new[i] = at[i + 1] /\ new[i - 1] = at[i] /\ t[i] = q[i + 1]
    BY <1>2 DEF n
  <2>2. (i + 1) - 1 = i
    BY <1>2
  <2> QED
    BY <2>1, <2>2, <1>1
<1> HIDE DEF new
<1>7. Schedule(t, acc, at[1])
  <2>1. /\ new \in [0 .. Len(t) -> 0 .. Len(acc)]
        /\ new[0] = at[1] /\ new[Len(t)] = Len(acc)
        /\ \A i \in 1 .. Len(t) :
               /\ new[i] = new[i - 1] + Len(Payload(t[i]))
               /\ Payload(t[i]) # <<>> => acc[new[i]] = t[i].item
    BY <1>2, <1>5, <1>6
  <2> QED
    BY <2>1, Zenon DEF Schedule
<1> QED
  BY <1>2, <1>3, <1>4, <1>7 DEF t

\* An empty queue leaves nothing to write that was not taken.
LEMMA ScheduleEmpty ==
  ASSUME NEW acc \in Seq(WriteItems), NEW d \in Nat
  PROVE  Schedule(<<>>, acc, d) <=> d = Len(acc)
<1>1. Schedule(<<>>, acc, d) => d = Len(acc)
  BY DEF Schedule
<1>2. ASSUME d = Len(acc) PROVE Schedule(<<>>, acc, d)
  <2> DEFINE at == [i \in 0 .. 0 |-> d]
  <2>1. at \in [0 .. Len(<<>>) -> 0 .. Len(acc)] /\ at[0] = d /\ at[Len(<<>>)] = Len(acc)
    BY <1>2
  <2>2. 1 .. Len(<<>>) = {}
    OBVIOUS
  <2> HIDE DEF at
  <2> QED
    BY <2>1, <2>2, Zenon DEF Schedule
<1> QED
  BY <1>1, <1>2

\* What is held is its first n items followed by the rest.
LEMMA Cut ==
  ASSUME NEW S, NEW held \in Seq(S), NEW n \in 0 .. Len(held)
  PROVE  /\ SubSeq(held, 1, n) \in Seq(S) /\ Len(SubSeq(held, 1, n)) = n
         /\ SubSeq(held, n + 1, Len(held)) \in Seq(S)
         /\ Len(SubSeq(held, n + 1, Len(held))) = Len(held) - n
         /\ SubSeq(held, 1, n) \o SubSeq(held, n + 1, Len(held)) = held
<1>1. SubSeq(held, 1, n) \in Seq(S) /\ Len(SubSeq(held, 1, n)) = n
  OBVIOUS
<1>2. /\ SubSeq(held, n + 1, Len(held)) \in Seq(S)
      /\ Len(SubSeq(held, n + 1, Len(held))) = Len(held) - n
  OBVIOUS
<1>3. SubSeq(held, 1, n) \o SubSeq(held, n + 1, Len(held)) = SubSeq(held, 1, Len(held))
  <2>1. /\ 1 \in 1 .. Len(held) + 1 /\ n \in 1 - 1 .. Len(held)
        /\ Len(held) \in n .. Len(held)
    OBVIOUS
  <2> QED
    BY <2>1, ConcatAdjacentSubSeq, Zenon
<1>4. SubSeq(held, 1, Len(held)) = held
  BY SubSeqFull, Zenon
<1> QED
  BY <1>1, <1>2, <1>3, <1>4, Zenon

\* Moving items from what is pending to the wire changes neither their order
\* nor their number.
LEMMA Moved ==
  ASSUME NEW S, NEW written \in Seq(S), NEW a \in Seq(S), NEW b \in Seq(S),
         NEW c, NEW held, c = written \o a, held = a \o b
  PROVE  /\ c \in Seq(S) /\ Len(c) = Len(written) + Len(a)
         /\ c \o b = written \o held
         /\ \A i \in 1 .. Len(c) : c[i] = (written \o held)[i]
<1>1. c \in Seq(S) /\ Len(c) = Len(written) + Len(a)
  OBVIOUS
<1>2. c \o b = written \o held
  <2>1. (written \o a) \o b = written \o (a \o b)
    BY ConcatAssociative, SMT
  <2> QED
    BY <2>1, Zenon
<1>3. \A i \in 1 .. Len(c) : (c \o b)[i] = c[i]
  BY <1>1
<1> QED
  BY <1>1, <1>2, <1>3, Zenon

\* Giving the sink one more item adds it at the end of what is taken.
LEMMA Joined ==
  ASSUME NEW S, NEW written \in Seq(S), NEW held \in Seq(S), NEW x \in S,
         NEW one \in Seq(S), one = <<x>>
  PROVE  written \o (held \o one) = Append(written \o held, x)
<1>1. written \o held \in Seq(S)
  OBVIOUS
<1>2. (written \o held) \o one = written \o (held \o one)
  BY ConcatAssociative, SMT
<1>3. \A s \in Seq(S) : s \o <<x>> = Append(s, x)
  OBVIOUS
<1> QED
  BY <1>1, <1>2, <1>3, Zenon

\* Two sequences of which one is an initial part of the other, as long, are one.
LEMMA PrefixFacts ==
  ASSUME NEW S, NEW s \in Seq(S), NEW t \in Seq(S), PrefixOf(s, t)
  PROVE  /\ Len(s) = Len(t) => s = t
         /\ s = SubSeq(t, 1, Len(s))
         /\ \A u \in Seq(S) : PrefixOf(s, t \o u)
<1>1. Len(s) = Len(t) => s = t
  BY DEF PrefixOf
<1>2. s = SubSeq(t, 1, Len(s))
  BY DEF PrefixOf
<1>3. \A u \in Seq(S) : PrefixOf(s, t \o u)
  BY DEF PrefixOf
<1> QED
  BY <1>1, <1>2, <1>3

\* An initial part of t with the next element of t is one again.
LEMMA PrefixGrows ==
  ASSUME NEW S, NEW s \in Seq(S), NEW t \in Seq(S), NEW u, NEW k \in {0, 1},
         PrefixOf(s, t), Len(u) = Len(s) + k, Len(u) <= Len(t),
         \A i \in 1 .. Len(s) : u[i] = s[i],
         k = 1 => u[Len(s) + 1] = t[Len(s) + 1]
  PROVE  PrefixOf(u, t)
<1>1. ASSUME NEW i \in 1 .. Len(u) PROVE u[i] = t[i]
  <2>1. CASE i \in 1 .. Len(s)
    BY <2>1 DEF PrefixOf
  <2>2. CASE i \notin 1 .. Len(s)
    BY <2>2
  <2> QED
    BY <2>1, <2>2
<1> QED
  BY <1>1 DEF PrefixOf

-----------------------------------------------------------------------------
(* The initial states, and steps that leave an actor alone.                *)

\* Before anything is spawned there is nothing to lose.
LEMMA LogInit == Init => LogInv
<1> SUFFICES ASSUME Init PROVE LogInv
  OBVIOUS
<1> USE WriteActorAssumption DEF Init, WriterInit
<1>1. LogTypeOK
  <2>1. <<>> \in Seq(ActorMessage) /\ <<>> \in Seq(WriteItems) /\ Len(<<>>) = 0
    OBVIOUS
  <2>2. /\ wMsgs \in [Writers -> Seq(ActorMessage)] /\ wSink \in [Writers -> Seq(WriteItems)]
        /\ accepted \in [Writers -> Seq(WriteItems)] /\ wire \in [Writers -> Seq(WriteItems)]
    BY <2>1
  <2> QED
    BY <2>1, <2>2 DEF LogTypeOK, WriterTypeOK
<1>2. ASSUME NEW w \in Writers PROVE WriterInv(w)
  <2>1. Taken(w) = <<>> /\ accepted[w] = <<>>
    BY DEF Taken, Pending
  <2>2. PrefixOf(Taken(w), accepted[w])
    BY <2>1 DEF PrefixOf
  <2> QED
    BY <2>2 DEF WriterInv, WriteActorShutdownReason
<1> QED
  BY <1>1, <1>2 DEF LogInv

\* What the sequences of one actor are, in every typed state.
LEMMA WriterTypes ==
  ASSUME LogTypeOK, NEW w \in Writers
  PROVE  /\ wMsgs[w] \in Seq(ActorMessage)
         /\ wSink[w] \in Seq(WriteItems)
         /\ accepted[w] \in Seq(WriteItems)
         /\ wire[w] \in Seq(WriteItems)
         /\ wHand[w] # <<>> =>
                Head(wHand[w]) \in ActorMessage /\ wHand[w] = <<Head(wHand[w])>>
         /\ Pending(w) \in Seq(WriteItems)
         /\ Taken(w) \in Seq(WriteItems)
         /\ Len(Taken(w)) = Len(wire[w]) + Len(Pending(w))
<1>1. /\ wMsgs[w] \in Seq(ActorMessage) /\ wSink[w] \in Seq(WriteItems)
      /\ accepted[w] \in Seq(WriteItems) /\ wire[w] \in Seq(WriteItems)
      /\ wHand[w] \in {<<>>} \cup {<<m>> : m \in ActorMessage}
  BY DEF LogTypeOK, WriterTypeOK
<1>2. ASSUME wHand[w] # <<>>
      PROVE  Head(wHand[w]) \in ActorMessage /\ wHand[w] = <<Head(wHand[w])>>
  <2>1. PICK m \in ActorMessage : wHand[w] = <<m>>
    BY <1>1, <1>2
  <2> QED
    BY <2>1
<1>3. Pending(w) \in Seq(WriteItems)
  <2>1. CASE wHand[w] = <<>>
    BY <1>1, <2>1 DEF Pending
  <2>2. CASE wHand[w] # <<>>
    <3>1. Payload(Head(wHand[w])) \in Seq(WriteItems)
      BY <1>2, <2>2, PayloadFacts
    <3> QED
      BY <1>1, <2>2, <3>1 DEF Pending
  <2> QED
    BY <2>1, <2>2
<1> QED
  BY <1>1, <1>2, <1>3 DEF Taken

\* The invariant of an actor is about that actor's part of the state only.
LEMMA Untouched ==
  ASSUME NEW v \in Writers, WriterInv(v),
         wState'[v] = wState[v], wReason'[v] = wReason[v], wMsgs'[v] = wMsgs[v],
         wHandle'[v] = wHandle[v], wHand'[v] = wHand[v], wSink'[v] = wSink[v],
         accepted'[v] = accepted[v], wire'[v] = wire[v], last'[v] = last[v],
         failed'[v] = failed[v]
  PROVE  WriterInv(v)'
<1>1. Taken(v)' = Taken(v)
  BY DEF Taken, Pending
<1>2. PrefixOf(Taken(v), accepted[v])' <=> PrefixOf(Taken(v), accepted[v])
  BY <1>1 DEF PrefixOf
<1>3. Schedule(wMsgs[v], accepted[v], Len(Taken(v)))'
          <=> Schedule(wMsgs[v], accepted[v], Len(Taken(v)))
  BY <1>1 DEF Schedule
<1>4. Ends(v)' <=> Ends(v)
  BY DEF Ends
<1>5. Sealed(v, wReason[v])' <=> Sealed(v, wReason[v])
  BY DEF Sealed
<1> QED
  BY <1>1, <1>2, <1>3, <1>4, <1>5 DEF WriterInv

-----------------------------------------------------------------------------
(* One lemma per operation.                                                *)

\* All that a step does to the actor it is a step of.
Step(w) ==
    \/ Spawn(w)
    \/ \E m \in ActorMessage : Call(w, m)
    \/ DropHandle(w)
    \/ Run(w)
    \/ \E n \in 0 .. Len(Pending(w)) : Operate(w, n)
    \/ Panic(w)

\* spawn_actor: the new actor starts with an empty channel and an empty sink.
LEMMA SpawnKeeps ==
  ASSUME LogInv, NEW w \in Writers, Spawn(w)
  PROVE  LogTypeOK' /\ WriterInv(w)'
<1> USE DEF Spawn, spawn_write_actor, logVars
<1>1. LogTypeOK'
  BY DEF LogInv, LogTypeOK, WriterTypeOK
<1>2. /\ wMsgs'[w] = <<>> /\ wHand'[w] = <<>> /\ wSink'[w] = <<>>
      /\ accepted'[w] = <<>> /\ last'[w] = "none" /\ wState'[w] = "running"
  BY DEF LogInv, WriterInv, LogTypeOK, WriterTypeOK
<1>3. Taken(w)' = Taken(w) /\ accepted'[w] = accepted[w]
  BY DEF Taken, Pending
<1>4. PrefixOf(Taken(w), accepted[w])'
  BY <1>3 DEF LogInv, WriterInv, PrefixOf
<1>5. Len(Taken(w)') = 0 /\ Len(accepted'[w]) = 0
  BY <1>2, <1>3, <1>4, WriterTypes DEF PrefixOf, LogInv
<1>6. Schedule(wMsgs[w], accepted[w], Len(Taken(w)))'
  <2>1. <<>> \in Seq(WriteItems) /\ 0 \in Nat /\ Len(<<>>) = 0
    OBVIOUS
  <2>2. Schedule(<<>>, <<>>, 0)
    BY <2>1, ScheduleEmpty
  <2> QED
    BY <1>2, <1>5, <2>2
<1>7. Ends(w)'
  BY <1>2 DEF Ends
<1> QED
  BY <1>1, <1>2, <1>4, <1>6, <1>7 DEF WriterInv, WriteActorShutdownReason

\* send, feed, flush and signal_shutdown: an accepted message extends the queue
\* and the history together; one that does not fit changes nothing.
LEMMA CallKeeps ==
  ASSUME LogInv, NEW w \in Writers, NEW m \in ActorMessage, Call(w, m)
  PROVE  LogTypeOK' /\ WriterInv(w)'
<1> USE WriteActorAssumption DEF LogInv
<1>t. /\ wMsgs[w] \in Seq(ActorMessage) /\ wSink[w] \in Seq(WriteItems)
      /\ accepted[w] \in Seq(WriteItems) /\ Payload(m) \in Seq(WriteItems)
      /\ Taken(w) \in Seq(WriteItems)
  BY WriterTypes, PayloadFacts
<1>1. Taken(w)' = Taken(w)
  BY DEF Call, Taken, Pending
<1>2. CASE ~Accepts(w)
  <2>1. send_actor_message(w, m) = wMsgs[w]
    BY <1>2 DEF send_actor_message
  <2>2. UNCHANGED <<wState, wReason, wMsgs, wHandle, wHand, wSink, accepted, wire, last, failed>>
    BY <1>2, <2>1 DEF Call, LogTypeOK, WriterTypeOK
  <2>3. WriterInv(w)'
    BY <2>2, Untouched
  <2> QED
    BY <2>2, <2>3 DEF LogTypeOK, WriterTypeOK
<1>3. CASE Accepts(w)
  <2> DEFINE q == Append(wMsgs[w], m)
             acc == accepted[w] \o Payload(m)
  <2>1. q \in Seq(ActorMessage) /\ acc \in Seq(WriteItems) /\ Len(q) <= WriteBuffer + 1
    BY <1>3, <1>t DEF Accepts
  <2>2. m.op \in {"Send", "Feed", "Flush", "Shutdown"}
    BY PayloadFacts
  <2>3. /\ wMsgs' = [wMsgs EXCEPT ![w] = q]
        /\ accepted' = [accepted EXCEPT ![w] = acc]
        /\ last' = [last EXCEPT ![w] = m.op]
        /\ UNCHANGED <<wState, wReason, wHandle, wHand, wSink, wire, failed>>
    BY <1>3 DEF Call, send_actor_message
  <2>4. /\ Len(q) = Len(wMsgs[w]) + 1 /\ q[Len(q)] = m /\ q # <<>>
        /\ Len(q) - 1 = Len(wMsgs[w])
        /\ \A i \in 1 .. Len(wMsgs[w]) : q[i] = wMsgs[w][i]
    <3>1. /\ Len(wMsgs[w]) \in Nat /\ Len(q) = Len(wMsgs[w]) + 1
          /\ q[Len(wMsgs[w]) + 1] = m /\ q # <<>>
          /\ \A i \in 1 .. Len(wMsgs[w]) : q[i] = wMsgs[w][i]
      BY <1>t, AppendFacts, ZenonT(40)
    <3> HIDE DEF q
    <3> QED
      BY <3>1
  <2> HIDE DEF q, acc
  <2>5. /\ wMsgs' \in [Writers -> Seq(ActorMessage)]
        /\ accepted' \in [Writers -> Seq(WriteItems)]
    <3>1. /\ wMsgs \in [Writers -> Seq(ActorMessage)]
          /\ accepted \in [Writers -> Seq(WriteItems)]
      BY DEF LogTypeOK, WriterTypeOK
    <3>2. wMsgs' \in [Writers -> Seq(ActorMessage)]
      BY <2>1, <2>3, <3>1, Zenon
    <3>3. accepted' \in [Writers -> Seq(WriteItems)]
      BY <2>1, <2>3, <3>1, Zenon
    <3> QED
      BY <3>2, <3>3
  <2>6. \A v \in Writers : Len(wMsgs'[v]) <= WriteBuffer + 1
    BY <2>1, <2>3 DEF LogTypeOK, WriterTypeOK
  <2>7. LogTypeOK'
    BY <2>2, <2>3, <2>5, <2>6 DEF LogTypeOK, WriterTypeOK
  <2>8. wMsgs'[w] = q /\ accepted'[w] = acc /\ last'[w] = m.op
    BY <2>3 DEF LogTypeOK, WriterTypeOK
  <2>9. PrefixOf(Taken(w), accepted[w])'
    <3>1. PrefixOf(Taken(w), accepted[w])
      BY DEF WriterInv
    <3>2. PrefixOf(Taken(w), acc)
      BY <1>t, <3>1, PrefixFacts DEF acc
    <3> QED
      BY <1>1, <2>8, <3>2
  <2>10. wState[w] \in {"running", "closing"} /\ wHandle[w] /\ last[w] # "Shutdown"
    BY <1>3 DEF Call, Accepts
  <2>11. ASSUME wState[w] = "running"
         PROVE  (Schedule(wMsgs[w], accepted[w], Len(Taken(w))) /\ Ends(w))'
    <3>1. Schedule(wMsgs[w], accepted[w], Len(Taken(w))) /\ Ends(w)
      BY <2>11 DEF WriterInv
    <3>2. Schedule(q, acc, Len(Taken(w)))
      <4>1. Len(Taken(w)) \in Nat
        BY <1>t
      <4> QED
        BY <1>t, <3>1, <4>1, ScheduleAppend DEF q, acc
    <3>3. \A i \in 1 .. Len(wMsgs[w]) : wMsgs[w][i].op # "Shutdown"
      <4> TAKE i \in 1 .. Len(wMsgs[w])
      <4>1. CASE i = Len(wMsgs[w])
        BY <1>t, <2>10, <3>1, <4>1 DEF Ends
      <4>2. CASE i # Len(wMsgs[w])
        BY <1>t, <3>1, <4>2 DEF Ends
      <4> QED
        BY <4>1, <4>2
    <3>4. Ends(w)'
      BY <2>3, <2>4, <2>8, <3>3 DEF Ends
    <3> QED
      BY <1>1, <2>8, <3>2, <3>4
  <2>12. ASSUME wState[w] = "closing" PROVE wReason[w] = "SinkError" /\ wHand[w] = <<>>
    BY <2>10, <2>12 DEF WriterInv, Sealed, WriteActorShutdownReason
  <2> QED
    BY <2>3, <2>7, <2>9, <2>10, <2>11, <2>12 DEF WriterInv, WriteActorShutdownReason
<1> QED
  BY <1>2, <1>3

\* The owner lets go of the handle: nothing more can be accepted.
LEMMA DropKeeps ==
  ASSUME LogInv, NEW w \in Writers, DropHandle(w)
  PROVE  LogTypeOK' /\ WriterInv(w)'
<1> USE DEF LogInv, DropHandle, logVars
<1>1. LogTypeOK'
  <2>1. wHandle' \in [Writers -> BOOLEAN]
    BY DEF LogTypeOK, WriterTypeOK
  <2> QED
    BY <2>1 DEF LogTypeOK, WriterTypeOK
<1>2. Taken(w)' = Taken(w) /\ ~wHandle'[w]
  BY DEF Taken, Pending, LogTypeOK, WriterTypeOK
<1>3. PrefixOf(Taken(w), accepted[w])' <=> PrefixOf(Taken(w), accepted[w])
  BY <1>2 DEF PrefixOf
<1>4. Schedule(wMsgs[w], accepted[w], Len(Taken(w)))'
          <=> Schedule(wMsgs[w], accepted[w], Len(Taken(w)))
  BY <1>2 DEF Schedule
<1>5. Ends(w)' <=> Ends(w)
  BY DEF Ends
<1>6. Sealed(w, wReason[w]) => Sealed(w, wReason[w])'
  BY <1>2 DEF Sealed
<1> QED
  BY <1>1, <1>2, <1>3, <1>4, <1>5, <1>6 DEF WriterInv

\* The loop takes its next message, a Shutdown or the end of the channel.
LEMMA RunKeeps ==
  ASSUME LogInv, NEW w \in Writers, Run(w)
  PROVE  LogTypeOK' /\ WriterInv(w)'
<1> USE DEF LogInv, Run, logVars
<1>t. /\ wMsgs[w] \in Seq(ActorMessage) /\ wSink[w] \in Seq(WriteItems)
      /\ accepted[w] \in Seq(WriteItems) /\ wire[w] \in Seq(WriteItems)
      /\ Taken(w) \in Seq(WriteItems)
  BY WriterTypes
<1>f. /\ wMsgs \in [Writers -> Seq(ActorMessage)] /\ wState \in [Writers -> {"unspawned", "running", "closing"} \cup WriteOutcome]
      /\ wReason \in [Writers -> {"none"} \cup WriteActorShutdownReason]
      /\ wHand \in [Writers -> {<<>>} \cup {<<m>> : m \in ActorMessage}]
      /\ \A v \in Writers : Len(wMsgs[v]) <= WriteBuffer + 1
  BY DEF LogTypeOK, WriterTypeOK
<1>i. wState[w] = "running" =>
        Schedule(wMsgs[w], accepted[w], Len(Taken(w))) /\ Ends(w)
  BY DEF WriterInv
<1>p. PrefixOf(Taken(w), accepted[w])
  BY DEF WriterInv
<1>d. Len(Taken(w)) \in Nat
  BY <1>t
<1> DEFINE rest == Tail(wMsgs[w])
           first == Head(wMsgs[w])
<1>q. ASSUME wMsgs[w] # <<>>
      PROVE  /\ Len(wMsgs[w]) \in Nat /\ Len(wMsgs[w]) >= 1
             /\ first = wMsgs[w][1] /\ first \in ActorMessage
             /\ rest \in Seq(ActorMessage) /\ Len(rest) = Len(wMsgs[w]) - 1
             /\ \A i \in 1 .. Len(wMsgs[w]) - 1 : rest[i] = wMsgs[w][i + 1]
  BY <1>t, <1>q, QueueFacts, Zenon
<1> HIDE DEF rest, first
<1>r. ASSUME wMsgs[w] # <<>>, wMsgs' = [wMsgs EXCEPT ![w] = rest]
      PROVE  /\ wMsgs' \in [Writers -> Seq(ActorMessage)] /\ wMsgs'[w] = rest
             /\ \A v \in Writers : Len(wMsgs'[v]) <= WriteBuffer + 1
  <2>1. wMsgs' \in [Writers -> Seq(ActorMessage)]
    BY <1>f, <1>q, <1>r, Zenon
  <2>2. Len(rest) <= WriteBuffer + 1
    BY <1>f, <1>q, <1>r, WriteActorAssumption
  <2> QED
    BY <1>f, <1>r, <2>1, <2>2
<1>1. CASE TakeMessage(w)
  <2>1. /\ wState[w] = "running" /\ wHand[w] = <<>> /\ wMsgs[w] # <<>>
        /\ wHand' = [wHand EXCEPT ![w] = <<first>>]
        /\ wMsgs' = [wMsgs EXCEPT ![w] = rest]
        /\ UNCHANGED <<wState, wReason, wHandle, wSink, accepted, wire, last, failed>>
    BY <1>1 DEF TakeMessage, Idle, first, rest
  <2>2. first \in ActorMessage /\ rest \in Seq(ActorMessage) /\ wMsgs'[w] = rest
    BY <2>1, <1>q, <1>r
  <2>3. wHand'[w] = <<first>> /\ wHand' \in [Writers -> {<<>>} \cup {<<m>> : m \in ActorMessage}]
    BY <2>1, <2>2, <1>f
  <2>4. LogTypeOK'
    BY <2>1, <2>3, <1>r DEF LogTypeOK, WriterTypeOK
  <2>5. Payload(first) \in Seq(WriteItems)
    BY <2>2, PayloadFacts
  <2>6. Taken(w)' = wire[w] \o (wSink[w] \o Payload(first)) /\ Taken(w) = wire[w] \o wSink[w]
    <3>1. <<first>> # <<>> /\ Head(<<first>>) = first
      OBVIOUS
    <3> QED
      BY <2>1, <2>3, <3>1, Zenon DEF Taken, Pending
  <2>7. /\ Schedule(rest, accepted[w], Len(Taken(w)) + Len(Payload(first)))
        /\ Len(Taken(w)) + Len(Payload(first)) <= Len(accepted[w])
        /\ Payload(first) # <<>> => accepted[w][Len(Taken(w)) + 1] = first.item
    <3>1. Schedule(wMsgs[w], accepted[w], Len(Taken(w)))
      BY <2>1, <1>i
    <3> QED
      BY <2>1, <3>1, <1>t, <1>d, ScheduleTake, Zenon DEF first, rest
  <2>8. /\ Len(Taken(w)') = Len(Taken(w)) + Len(Payload(first))
        /\ \A i \in 1 .. Len(Taken(w)) : Taken(w)'[i] = Taken(w)[i]
        /\ Payload(first) # <<>> => Taken(w)'[Len(Taken(w)) + 1] = first.item
    <3>1. \/ Payload(first) = <<>> /\ Len(Payload(first)) = 0
          \/ first.item \in WriteItems /\ Payload(first) = <<first.item>> /\ Len(Payload(first)) = 1
      BY <2>2, PayloadFacts
    <3>2. CASE Payload(first) = <<>>
      <4>1. wSink[w] \o Payload(first) = wSink[w]
        BY <1>t, <3>2
      <4> QED
        BY <1>t, <2>6, <3>2, <4>1
    <3>3. CASE Payload(first) # <<>>
      <4>0. first.item \in WriteItems
        BY <3>1, <3>3
      <4>1. Payload(first) = <<first.item>>
        BY <3>1, <3>3
      <4>2. Taken(w)' = Append(Taken(w), first.item)
        <5>1. wire[w] \o (wSink[w] \o Payload(first)) = Append(wire[w] \o wSink[w], first.item)
          BY <1>t, <2>5, <4>0, <4>1, Joined, ZenonT(40)
        <5> QED
          BY <2>6, <5>1, Zenon
      <4>3. first.item \in WriteItems /\ Len(Payload(first)) = 1
        BY <3>1, <3>3
      <4> QED
        BY <1>t, <4>2, <4>3, AppendFacts
    <3> QED
      BY <3>2, <3>3
  <2>9. PrefixOf(Taken(w), accepted[w])'
    <3>1. \/ Len(Payload(first)) = 0
          \/ Payload(first) # <<>> /\ Len(Payload(first)) = 1
      BY <2>2, PayloadFacts
    <3> DEFINE new == Taken(w)'
               k == Len(Payload(first))
    <3>2. /\ k \in {0, 1} /\ Len(new) = Len(Taken(w)) + k
          /\ Len(new) <= Len(accepted[w])
          /\ \A i \in 1 .. Len(Taken(w)) : new[i] = Taken(w)[i]
          /\ k = 1 => new[Len(Taken(w)) + 1] = accepted[w][Len(Taken(w)) + 1]
      <4>1. k \in {0, 1} /\ (k = 1 => Payload(first) # <<>>)
        BY <3>1
      <4>2. Len(new) = Len(Taken(w)) + k /\ Len(new) <= Len(accepted[w])
        BY <2>7, <2>8
      <4>3. \A i \in 1 .. Len(Taken(w)) : new[i] = Taken(w)[i]
        BY <2>8, Zenon
      <4>4. k = 1 => new[Len(Taken(w)) + 1] = accepted[w][Len(Taken(w)) + 1]
        BY <2>7, <2>8, <4>1, Zenon
      <4> QED
        BY <4>1, <4>2, <4>3, <4>4, Zenon
    <3> HIDE DEF new, k
    <3>3. PrefixOf(new, accepted[w])
      BY <1>d, <1>p, <1>t, <3>2, PrefixGrows
    <3> QED
      BY <2>1, <3>3 DEF new
  <2>10. Schedule(wMsgs[w], accepted[w], Len(Taken(w)))'
    BY <2>1, <2>2, <2>7, <2>8
  <2>11. Ends(w)'
    <3>1. Ends(w)
      BY <2>1, <1>i
    <3>2. \A i \in 1 .. Len(rest) - 1 : rest[i].op # "Shutdown"
      BY <2>1, <3>1, <1>q, SMTT(30) DEF Ends
    <3>3. rest # <<>> => rest[Len(rest)].op = last[w]
      <4>1. rest # <<>> => Len(rest) >= 1
        BY <2>2
      <4> QED
        BY <2>1, <3>1, <4>1, <1>q DEF Ends
    <3>4. rest = <<>> => first.op = last[w]
      <4>1. rest = <<>> => Len(rest) = 0
        OBVIOUS
      <4> QED
        BY <2>1, <3>1, <4>1, <1>q DEF Ends
    <3> QED
      BY <2>1, <2>2, <2>3, <3>2, <3>3, <3>4 DEF Ends
  <2> QED
    BY <2>1, <2>4, <2>9, <2>10, <2>11 DEF WriterInv, WriteActorShutdownReason
<1>2. ASSUME NEW reason \in {"Signalled", "ActorHandlesDropped"}, Idle(w), BeginClose(w, reason),
             UNCHANGED <<wHandle, wHand, wSink>>,
             Len(Taken(w)) = Len(accepted[w]), Sealed(w, reason)
      PROVE  /\ wState' \in [Writers -> {"unspawned", "running", "closing"} \cup WriteOutcome]
             /\ wReason' \in [Writers -> {"none"} \cup WriteActorShutdownReason]
             /\ WriterInv(w)'
  <2>1. /\ wState' \in [Writers -> {"unspawned", "running", "closing"} \cup WriteOutcome]
        /\ wReason' \in [Writers -> {"none"} \cup WriteActorShutdownReason]
        /\ wState'[w] = "closing" /\ wReason'[w] = reason
    BY <1>2, <1>f DEF BeginClose, WriteActorShutdownReason
  <2>2. Taken(w)' = Taken(w) /\ wHand'[w] = <<>> /\ accepted' = accepted
    BY <1>2 DEF Taken, Pending, Idle
  <2>3. PrefixOf(Taken(w), accepted[w])'
    BY <1>p, <2>2 DEF PrefixOf
  <2>4. Sealed(w, wReason[w])'
    BY <1>2, <2>1 DEF Sealed
  <2> QED
    BY <1>2, <2>1, <2>2, <2>3, <2>4 DEF WriterInv, WriteActorShutdownReason
<1>3. CASE TakeShutdown(w)
  <2>1. /\ Idle(w) /\ wMsgs[w] # <<>> /\ first = Shutdown /\ BeginClose(w, "Signalled")
        /\ wMsgs' = [wMsgs EXCEPT ![w] = rest] /\ UNCHANGED <<wHandle, wHand, wSink>>
        /\ wState[w] = "running"
    BY <1>3 DEF TakeShutdown, first, rest, Idle
  <2>2. Ends(w) /\ Schedule(wMsgs[w], accepted[w], Len(Taken(w)))
    BY <1>i, <2>1
  <2>3. first.op = "Shutdown" /\ Payload(first) = <<>> /\ Len(Payload(first)) = 0
    BY <2>1 DEF Payload, Shutdown
  <2>4. Len(wMsgs[w]) = 1 /\ last[w] = "Shutdown"
    <3>1. Len(wMsgs[w]) \in Nat /\ Len(wMsgs[w]) >= 1 /\ wMsgs[w][1].op = "Shutdown"
      BY <1>q, <2>1, <2>3
    <3>2. 1 \notin 1 .. Len(wMsgs[w]) - 1
      BY <2>2, <3>1, Zenon DEF Ends
    <3>3. \A k \in Nat : k >= 1 /\ 1 \notin 1 .. k - 1 => k = 1
      OBVIOUS
    <3>4. Len(wMsgs[w]) = 1
      BY <3>1, <3>2, <3>3
    <3> QED
      BY <2>1, <2>2, <3>1, <3>4 DEF Ends
  <2>5. rest = <<>>
    BY <1>q, <2>1, <2>4
  <2>6. Schedule(rest, accepted[w], Len(Taken(w)) + Len(Payload(first)))
    BY <2>1, <2>2, <1>t, <1>d, ScheduleTake, Zenon DEF first, rest
  <2>7. Len(Taken(w)) = Len(accepted[w])
    <3>1. Len(Taken(w)) + Len(Payload(first)) = Len(Taken(w))
      BY <1>d, <2>3
    <3> QED
      BY <1>d, <1>t, <2>5, <2>6, <3>1, ScheduleEmpty
  <2>8. Sealed(w, "Signalled")
    BY <2>4 DEF Sealed
  <2> QED
    BY <1>2, <1>r, <2>1, <2>7, <2>8 DEF LogTypeOK, WriterTypeOK
<1>4. CASE AllHandlesDropped(w)
  <2>1. /\ Idle(w) /\ wMsgs[w] = <<>> /\ ~wHandle[w] /\ wState[w] = "running"
        /\ BeginClose(w, "ActorHandlesDropped") /\ UNCHANGED <<wMsgs, wHandle, wHand, wSink>>
    BY <1>4 DEF AllHandlesDropped, Idle
  <2>2. Len(Taken(w)) = Len(accepted[w])
    BY <1>d, <1>t, <1>i, <2>1, ScheduleEmpty
  <2>3. Sealed(w, "ActorHandlesDropped")
    BY <2>1 DEF Sealed
  <2> QED
    BY <1>2, <2>1, <2>2, <2>3 DEF LogTypeOK, WriterTypeOK
<1> QED
  BY <1>1, <1>3, <1>4 DEF WriterProgress

\* send, feed, flush and close on the sink: whatever part of what is pending
\* goes out, the wire continues the accepted items.
LEMMA OperateKeeps ==
  ASSUME LogInv, NEW w \in Writers, NEW n \in 0 .. Len(Pending(w)), Operate(w, n)
  PROVE  LogTypeOK' /\ WriterInv(w)'
<1> USE DEF LogInv
<1>t. /\ wSink[w] \in Seq(WriteItems) /\ accepted[w] \in Seq(WriteItems)
      /\ wire[w] \in Seq(WriteItems) /\ Pending(w) \in Seq(WriteItems)
      /\ Taken(w) \in Seq(WriteItems) /\ Len(Taken(w)) = Len(wire[w]) + Len(Pending(w))
  BY WriterTypes
<1>f. /\ wSink \in [Writers -> Seq(WriteItems)] /\ wire \in [Writers -> Seq(WriteItems)]
      /\ wMsgs \in [Writers -> Seq(ActorMessage)]
      /\ wState \in [Writers -> {"unspawned", "running", "closing"} \cup WriteOutcome]
      /\ wReason \in [Writers -> {"none"} \cup WriteActorShutdownReason]
      /\ wHand \in [Writers -> {<<>>} \cup {<<m>> : m \in ActorMessage}]
      /\ failed \in [Writers -> BOOLEAN]
      /\ \A v \in Writers : Len(wMsgs[v]) <= WriteBuffer + 1
  BY DEF LogTypeOK, WriterTypeOK
<1>p. PrefixOf(Taken(w), accepted[w])
  BY DEF WriterInv
<1> DEFINE out == wire[w] \o SubSeq(Pending(w), 1, n)
           left == Rest(w, n)
<1>m. /\ out \in Seq(WriteItems) /\ left \in Seq(WriteItems)
      /\ Len(out) = Len(wire[w]) + n /\ Len(left) = Len(Pending(w)) - n
      /\ \A i \in 1 .. Len(wire[w]) + n : out[i] = Taken(w)[i]
      /\ out \o left = Taken(w)
  <2> DEFINE a == SubSeq(Pending(w), 1, n)
             b == SubSeq(Pending(w), n + 1, Len(Pending(w)))
  <2>1. /\ a \in Seq(WriteItems) /\ Len(a) = n
        /\ b \in Seq(WriteItems) /\ Len(b) = Len(Pending(w)) - n
        /\ a \o b = Pending(w)
    BY <1>t, Cut, Zenon
  <2>2. out = wire[w] \o a /\ left = b
    BY Zenon DEF Rest
  <2> HIDE DEF a, b, out, left
  <2>3. /\ out \in Seq(WriteItems) /\ Len(out) = Len(wire[w]) + Len(a)
        /\ out \o left = wire[w] \o Pending(w)
        /\ \A i \in 1 .. Len(out) : out[i] = (wire[w] \o Pending(w))[i]
    <3>1. /\ wire[w] \in Seq(WriteItems) /\ a \in Seq(WriteItems) /\ left \in Seq(WriteItems)
          /\ out = wire[w] \o a /\ Pending(w) = a \o left
      BY <1>t, <2>1, <2>2, Zenon
    <3>2. PICK x, y, z, c, h : x = wire[w] /\ y = a /\ z = left /\ c = out /\ h = Pending(w)
      OBVIOUS
    <3>3. /\ x \in Seq(WriteItems) /\ y \in Seq(WriteItems) /\ z \in Seq(WriteItems)
          /\ c = x \o y /\ h = y \o z
      BY <3>1, <3>2
    <3>4. /\ c \in Seq(WriteItems) /\ Len(c) = Len(x) + Len(y)
          /\ c \o z = x \o h
          /\ \A i \in 1 .. Len(c) : c[i] = (x \o h)[i]
      BY <3>3, Moved, SMTT(30)
    <3> QED
      BY <3>2, <3>4, Zenon
  <2> QED
    BY <2>1, <2>2, <2>3, Zenon DEF Taken
<1>o. /\ wire' = [wire EXCEPT ![w] = out] /\ UNCHANGED <<accepted, last>>
  BY DEF Operate
<1> HIDE DEF out, left
<1>w. wire' \in [Writers -> Seq(WriteItems)] /\ wire'[w] = out
  BY <1>f, <1>m, <1>o
<1>x. PrefixOf(out, accepted[w])
  <2>1. Len(out) <= Len(Taken(w)) /\ \A i \in 1 .. Len(out) : out[i] = Taken(w)[i]
    BY <1>m, <1>t
  <2> QED
    BY <1>m, <1>p, <1>t, <2>1, SMTT(30) DEF PrefixOf
<1>1. ASSUME wHand[w] # <<>>, wHand' = [wHand EXCEPT ![w] = <<>>],
             wSink' = [wSink EXCEPT ![w] = left]
      PROVE  /\ wHand' \in [Writers -> {<<>>} \cup {<<m>> : m \in ActorMessage}]
             /\ wSink' \in [Writers -> Seq(WriteItems)]
             /\ wHand'[w] = <<>> /\ wSink'[w] = left
             /\ Taken(w)' = Taken(w) /\ PrefixOf(Taken(w), accepted[w])'
  <2>1. /\ wHand' \in [Writers -> {<<>>} \cup {<<m>> : m \in ActorMessage}]
        /\ wHand'[w] = <<>> /\ wSink'[w] = left
    BY <1>1, <1>f
  <2>2. wSink' \in [Writers -> Seq(WriteItems)]
    BY <1>1, <1>f, <1>m, Zenon
  <2>3. Taken(w)' = out \o left
    BY <1>w, <2>1 DEF Taken, Pending
  <2>4. Taken(w)' = Taken(w)
    BY <1>m, <2>3
  <2>5. PrefixOf(Taken(w), accepted[w])'
    BY <1>o, <1>p, <2>4
  <2> QED
    BY <2>1, <2>2, <2>4, <2>5
<1>2. CASE SinkDone(w, n) /\ UNCHANGED failed
  <2>1. /\ wState[w] = "running" /\ wHand[w] # <<>> /\ n \in SinkWrites(w)
        /\ wHand' = [wHand EXCEPT ![w] = <<>>] /\ wSink' = [wSink EXCEPT ![w] = left]
        /\ UNCHANGED <<wState, wReason, wMsgs, wHandle, failed>>
    BY <1>2 DEF SinkDone, left
  <2>2. LogTypeOK'
    BY <1>1, <1>o, <1>w, <2>1 DEF LogTypeOK, WriterTypeOK
  <2>3. Schedule(wMsgs[w], accepted[w], Len(Taken(w))) /\ Ends(w)
    BY <2>1 DEF WriterInv
  <2>4. Schedule(wMsgs[w], accepted[w], Len(Taken(w)))'
    BY <1>1, <1>o, <2>1, <2>3
  <2>5. ASSUME wMsgs[w] = <<>>, last[w] \in {"Send", "Flush"} PROVE left = <<>>
    <3>1. Head(wHand[w]).op = last[w]
      BY <2>1, <2>3, <2>5 DEF Ends
    <3>2. n = Len(Pending(w))
      BY <2>1, <2>5, <3>1 DEF SinkWrites
    <3>3. Len(left) = 0
      BY <1>m, <1>t, <3>2
    <3> QED
      BY <1>m, <3>3
  <2>6. Ends(w)'
    BY <1>1, <1>o, <2>1, <2>3, <2>5 DEF Ends
  <2> QED
    BY <1>1, <2>1, <2>2, <2>4, <2>6 DEF WriterInv, WriteActorShutdownReason
<1>3. CASE SinkFails(w, n) /\ failed' = [failed EXCEPT ![w] = TRUE]
  <2>1. /\ wState[w] = "running" /\ wHand[w] # <<>> /\ BeginClose(w, "SinkError")
        /\ wHand' = [wHand EXCEPT ![w] = <<>>] /\ wSink' = [wSink EXCEPT ![w] = left]
        /\ UNCHANGED <<wMsgs, wHandle>> /\ failed' = [failed EXCEPT ![w] = TRUE]
    BY <1>3 DEF SinkFails, left
  <2>2. /\ wState' \in [Writers -> {"unspawned", "running", "closing"} \cup WriteOutcome]
        /\ wReason' \in [Writers -> {"none"} \cup WriteActorShutdownReason]
        /\ wState'[w] = "closing" /\ wReason'[w] = "SinkError"
    BY <1>f, <2>1 DEF BeginClose, WriteActorShutdownReason
  <2>3. failed' \in [Writers -> BOOLEAN]
    BY <1>f, <2>1
  <2>4. LogTypeOK'
    BY <1>1, <1>o, <1>w, <2>1, <2>2, <2>3 DEF LogTypeOK, WriterTypeOK
  <2> QED
    BY <1>1, <2>1, <2>2, <2>4 DEF WriterInv, WriteActorShutdownReason
<1>4. CASE CloseSink(w, n) /\ failed' = [failed EXCEPT ![w] = @ \/ n < Len(wSink[w])]
  <2>1. /\ wState[w] = "closing" /\ wState' = [wState EXCEPT ![w] = wReason[w]]
        /\ wMsgs' = [wMsgs EXCEPT ![w] = <<>>] /\ wSink' = [wSink EXCEPT ![w] = <<>>]
        /\ UNCHANGED <<wReason, wHandle, wHand>>
        /\ failed' = [failed EXCEPT ![w] = failed[w] \/ n < Len(wSink[w])]
    BY <1>4 DEF CloseSink
  <2>2. /\ wHand[w] = <<>> /\ wReason[w] \in WriteActorShutdownReason
        /\ wReason[w] # "SinkError" => Len(Taken(w)) = Len(accepted[w])
    BY <2>1 DEF WriterInv
  <2>3. Pending(w) = wSink[w]
    BY <2>2 DEF Pending
  <2>4. wState' \in [Writers -> {"unspawned", "running", "closing"} \cup WriteOutcome]
        /\ wState'[w] = wReason[w]
    BY <1>f, <2>1, <2>2 DEF WriteOutcome
  <2>5. /\ wMsgs' \in [Writers -> Seq(ActorMessage)] /\ wSink' \in [Writers -> Seq(WriteItems)]
        /\ \A v \in Writers : Len(wMsgs'[v]) <= WriteBuffer + 1
        /\ wSink'[w] = <<>>
    <3>1. <<>> \in Seq(ActorMessage) /\ <<>> \in Seq(WriteItems) /\ Len(<<>>) <= WriteBuffer + 1
      BY WriteActorAssumption
    <3>2. wMsgs' \in [Writers -> Seq(ActorMessage)]
      BY <1>f, <2>1, <3>1, Zenon
    <3>3. wSink' \in [Writers -> Seq(WriteItems)]
      BY <1>f, <2>1, <3>1, Zenon
    <3> QED
      BY <1>f, <2>1, <3>1, <3>2, <3>3
  <2>6. failed' \in [Writers -> BOOLEAN] /\ (failed'[w] <=> failed[w] \/ n < Len(wSink[w]))
    BY <1>f, <2>1, Zenon
  <2>7. LogTypeOK'
    BY <1>o, <1>w, <2>1, <2>4, <2>5, <2>6 DEF LogTypeOK, WriterTypeOK
  <2>8. Taken(w)' = out
    BY <1>m, <1>w, <2>1, <2>2, <2>5 DEF Taken, Pending
  <2>9. PrefixOf(Taken(w), accepted[w])'
    BY <1>o, <1>x, <2>8
  <2>10. ASSUME wReason[w] # "SinkError", ~failed'[w] PROVE out = accepted[w]
    <3>1. n = Len(Pending(w))
      BY <1>t, <2>3, <2>6, <2>10
    <3>2. Len(out) = Len(accepted[w])
      BY <1>m, <1>t, <2>2, <2>10, <3>1
    <3> QED
      BY <1>m, <1>t, <1>x, <3>2, PrefixFacts
  <2> QED
    BY <1>o, <1>w, <2>2, <2>4, <2>7, <2>9, <2>10 DEF WriterInv, WriteActorShutdownReason
<1> QED
  BY <1>2, <1>3, <1>4 DEF Operate

\* A panic drops the queue and the sink; what is on the wire stays as it was.
LEMMA PanicKeeps ==
  ASSUME LogInv, NEW w \in Writers, Panic(w)
  PROVE  LogTypeOK' /\ WriterInv(w)'
<1> USE DEF LogInv
<1>1. /\ wState' = [wState EXCEPT ![w] = "Panic"] /\ wMsgs' = [wMsgs EXCEPT ![w] = <<>>]
      /\ wHand' = [wHand EXCEPT ![w] = <<>>] /\ wSink' = [wSink EXCEPT ![w] = <<>>]
      /\ UNCHANGED <<wReason, wHandle, accepted, wire, last, failed>>
  BY DEF Panic, WriterPanics, logVars
<1>2. /\ wSink \in [Writers -> Seq(WriteItems)] /\ wMsgs \in [Writers -> Seq(ActorMessage)]
      /\ wState \in [Writers -> {"unspawned", "running", "closing"} \cup WriteOutcome]
      /\ wHand \in [Writers -> {<<>>} \cup {<<m>> : m \in ActorMessage}]
      /\ \A v \in Writers : Len(wMsgs[v]) <= WriteBuffer + 1
  BY DEF LogTypeOK, WriterTypeOK
<1>3. <<>> \in Seq(ActorMessage) /\ <<>> \in Seq(WriteItems) /\ Len(<<>>) <= WriteBuffer + 1
  BY WriteActorAssumption
<1>4. wMsgs' \in [Writers -> Seq(ActorMessage)]
  BY <1>1, <1>2, <1>3, Zenon
<1>5. wSink' \in [Writers -> Seq(WriteItems)]
  BY <1>1, <1>2, <1>3, Zenon
<1>6. /\ wState' \in [Writers -> {"unspawned", "running", "closing"} \cup WriteOutcome]
      /\ wHand' \in [Writers -> {<<>>} \cup {<<m>> : m \in ActorMessage}]
      /\ \A v \in Writers : Len(wMsgs'[v]) <= WriteBuffer + 1
      /\ wState'[w] = "Panic" /\ wHand'[w] = <<>> /\ wSink'[w] = <<>>
  BY <1>1, <1>2, <1>3 DEF WriteOutcome
<1>7. LogTypeOK'
  BY <1>1, <1>4, <1>5, <1>6 DEF LogTypeOK, WriterTypeOK
<1>8. /\ wire[w] \in Seq(WriteItems) /\ Pending(w) \in Seq(WriteItems)
      /\ accepted[w] \in Seq(WriteItems)
  BY WriterTypes
<1>9. Taken(w)' = wire[w]
  <2>1. wire[w] \o <<>> = wire[w]
    BY <1>8
  <2> QED
    BY <1>1, <1>6, <2>1, Zenon DEF Taken, Pending
<1>10. PrefixOf(wire[w], accepted[w])
  <2>1. PrefixOf(wire[w] \o Pending(w), accepted[w])
    BY DEF WriterInv, Taken
  <2> QED
    BY <1>8, <2>1 DEF PrefixOf
<1>11. PrefixOf(Taken(w), accepted[w])'
  BY <1>1, <1>9, <1>10
<1> QED
  BY <1>6, <1>7, <1>11 DEF WriterInv, WriteActorShutdownReason

\* Every step preserves the invariant, for the actor that takes it and for all
\* others.
LEMMA LogStep == LogInv /\ [Next]_vars => LogInv'
<1> SUFFICES ASSUME LogInv, [Next]_vars PROVE LogInv'
  OBVIOUS
<1>1. CASE UNCHANGED vars
  <2>1. UNCHANGED <<wState, wReason, wMsgs, wHandle, wHand, wSink, accepted, wire, last, failed>>
    BY <1>1 DEF vars, wVars, logVars
  <2>2. \A v \in Writers : WriterInv(v)'
    BY <2>1, Untouched DEF LogInv
  <2>3. LogTypeOK'
    BY <2>1 DEF LogInv, LogTypeOK, WriterTypeOK
  <2> QED
    BY <2>2, <2>3 DEF LogInv
<1>2. ASSUME NEW w \in Writers, Step(w) PROVE LogInv'
  <2>1. LogTypeOK' /\ WriterInv(w)'
    BY <1>2, SpawnKeeps, CallKeeps, DropKeeps, RunKeeps, OperateKeeps, PanicKeeps DEF Step
  <2>2. ASSUME NEW v \in Writers, v # w PROVE WriterInv(v)'
    <3>1. /\ wState'[v] = wState[v] /\ wReason'[v] = wReason[v] /\ wMsgs'[v] = wMsgs[v]
          /\ wHandle'[v] = wHandle[v] /\ wHand'[v] = wHand[v] /\ wSink'[v] = wSink[v]
          /\ accepted'[v] = accepted[v] /\ wire'[v] = wire[v] /\ last'[v] = last[v]
          /\ failed'[v] = failed[v]
      BY <1>2, <2>2
      DEF LogInv, LogTypeOK, WriterTypeOK, Step, Spawn, spawn_write_actor, Call, DropHandle, Run,
          WriterProgress, TakeMessage, TakeShutdown, AllHandlesDropped, BeginClose, Operate,
          SinkDone, SinkFails, CloseSink, Panic, WriterPanics, logVars, wVars
    <3> QED
      BY <2>2, <3>1, Untouched DEF LogInv
  <2> QED
    BY <2>1, <2>2 DEF LogInv
<1> QED
  BY <1>1, <1>2 DEF Next, Step

-----------------------------------------------------------------------------
(* The theorems.                                                           *)

\* In every reachable state the invariant holds.
THEOREM LogInvariant == Spec => []LogInv
  BY LogInit, LogStep, PTL DEF Spec

\* The actor message channel never holds more than WriteBuffer + 1 messages and
\* every variable keeps its type, whatever the owner and the network do.
THEOREM LogTypes == Spec => []LogTypeOK
<1>1. LogInv => LogTypeOK
  BY DEF LogInv
<1> QED
  BY <1>1, LogInvariant, PTL

\* For any number of write actors, any buffers and any failures, what reaches a
\* socket is an initial part of what send and feed accepted (start of
\* src/src/actors/write_actor.rs: one queue, one loop, one sink).
THEOREM WireOrder == Spec => []WireIsPrefix
<1>1. LogInv => WireIsPrefix
  <2> SUFFICES ASSUME LogInv, NEW w \in Writers
               PROVE  /\ Len(wire[w]) <= Len(accepted[w])
                      /\ wire[w] = SubSeq(accepted[w], 1, Len(wire[w]))
    BY DEF WireIsPrefix
  <2>1. /\ wire[w] \in Seq(WriteItems) /\ Pending(w) \in Seq(WriteItems)
        /\ accepted[w] \in Seq(WriteItems)
    BY WriterTypes DEF LogInv
  <2>2. PrefixOf(wire[w] \o Pending(w), accepted[w])
    BY DEF LogInv, WriterInv, Taken
  <2>3. PrefixOf(wire[w], accepted[w])
    BY <2>1, <2>2 DEF PrefixOf
  <2> QED
    BY <2>1, <2>3, PrefixFacts DEF PrefixOf
<1> QED
  BY <1>1, LogInvariant, PTL

\* An idle actor whose last accepted operation was a Send or a Flush has written
\* everything: announce_udp's Feed followed by a Flush reaches the socket.
THEOREM QuietWritten == Spec => []QuietMeansWritten
<1>1. LogInv => QuietMeansWritten
  <2> SUFFICES ASSUME LogInv, NEW w \in Writers, Idle(w), wMsgs[w] = <<>>,
                      last[w] \in {"Send", "Flush"}
               PROVE  wire[w] = accepted[w]
    BY DEF QuietMeansWritten
  <2>1. wire[w] \in Seq(WriteItems) /\ accepted[w] \in Seq(WriteItems) /\ Taken(w) \in Seq(WriteItems)
    BY WriterTypes DEF LogInv
  <2>2. /\ wState[w] = "running" /\ wHand[w] = <<>> /\ Ends(w)
        /\ Schedule(<<>>, accepted[w], Len(Taken(w))) /\ PrefixOf(Taken(w), accepted[w])
    BY DEF LogInv, WriterInv, Idle
  <2>3. Taken(w) = wire[w]
    <3>1. wire[w] \o <<>> = wire[w]
      BY <2>1
    <3>2. Pending(w) = <<>>
      BY <2>2 DEF Ends, Pending
    <3> QED
      BY <3>1, <3>2, Zenon DEF Taken
  <2>4. Len(Taken(w)) = Len(accepted[w])
    BY <2>1, <2>2, ScheduleEmpty
  <2> QED
    BY <2>1, <2>2, <2>3, <2>4, PrefixFacts
<1> QED
  BY <1>1, LogInvariant, PTL

\* Shutting down by message or by dropping the handle writes everything that was
\* accepted, unless the sink fails.
THEOREM OrderlyShutdown == Spec => []OrderlyShutdownLosesNothing
<1>1. LogInv => OrderlyShutdownLosesNothing
  BY DEF LogInv, WriterInv, OrderlyShutdownLosesNothing
<1> QED
  BY <1>1, LogInvariant, PTL
=============================================================================
