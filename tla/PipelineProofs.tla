--------------------------- MODULE PipelineProofs ---------------------------
(***************************************************************************)
(* The market data pipeline, for any instruments, tapes, timeframes and    *)
(* strategies, and any number of events.  Two inductive invariants.        *)
(*                                                                         *)
(* BusInv: the event bus implements the ordered channel.  While the        *)
(* dispatch task runs, the events in the queue up to the sentinel are      *)
(* those published and not yet given, in order, and a sentinel is there    *)
(* only once _running is cleared.                                          *)
(*                                                                         *)
(* PipeInv adds what the bus carries and what its subscribers make of it:  *)
(*   StreamInv  the volumes of the queued ticks ascend up to the volume of *)
(*              the day;                                                   *)
(*   StoreInv   until the shutdown's flush every tick given is buffered or *)
(*              in the table, and a row is no newer than what is buffered  *)
(*              or queued under its key, whatever commits fail;            *)
(*   CandleInv  candles close in the order of their intervals;             *)
(*   RunnerInv  the feed and the runner agree on who wants what;           *)
(*   RoundInv   a tick's round has called, of the strategies running since *)
(*              before it began, those that want it and are not ahead.     *)
(* ExactInv, on top, is that candles are those of the ticks given.         *)
(***************************************************************************)
EXTENDS Pipeline, Sums, FiniteSetTheorems, SequenceTheorems, TLAPS

IsEvents(s) == \E E : s \in Seq(E)

(* No sentinel among the first n of a queue.                               *)
Unstopped(q, n) == \A m \in 1..n : q[m] # Sentinel

(* The queue q holds, in order, what was sent, s, and not given, g.        *)
Due(q, g, s, n) == Len(g) + n <= Len(s) /\ q[n] = s[Len(g) + n]
Awaits(q, g, s) ==
    /\ \A n \in 1..Len(q) : Unstopped(q, n) => Due(q, g, s, n)
    /\ Unstopped(q, Len(q)) => Len(s) = Len(g) + Len(q)

Stopped == ~running /\ loop # "none"

BusInv ==
    /\ \E E : {queue, given, sent} \subseteq Seq(E)
    /\ loop # "over" => Awaits(queue, given, sent)
    /\ ~Unstopped(queue, Len(queue)) => Stopped
    /\ loop = "over" => Stopped
    /\ running \in BOOLEAN

(* What every step has to show: the invariant, and a step of the channel.  *)
ChannelStep == [Channel!Next]_<<sent, given, Phase>>
-----------------------------------------------------------------------------
(* What was sent stays a prefix of what is sent when more is.              *)
LEMMA Grows ==
    ASSUME NEW E, NEW s \in Seq(E), NEW t \in Seq(E)
    PROVE  /\ s \o t \in Seq(E)
           /\ Len(s \o t) = Len(s) + Len(t)
           /\ \A n \in 1..Len(s) : (s \o t)[n] = s[n]
           /\ \A n \in 1..Len(t) : (s \o t)[Len(s) + n] = t[n]
           /\ IsPrefix(s, s \o t)
<1>1. /\ s \o t \in Seq(E)
      /\ Len(s \o t) = Len(s) + Len(t)
      /\ \A n \in 1..Len(s) : (s \o t)[n] = s[n]
      /\ \A n \in 1..Len(t) : (s \o t)[Len(s) + n] = t[n]
  OBVIOUS
<1>2. SubSeq(s \o t, 1, Len(s)) = SubSeq(s, 1, Len(s))
  BY <1>1
<1> QED  BY <1>1, <1>2 DEF IsPrefix

(* Whether a sentinel is queued does not depend on the events added.       *)
LEMMA UnstoppedGrows ==
    ASSUME NEW E, NEW q \in Seq(E), NEW events \in Seq(E),
           Unstopped(events, Len(events))
    PROVE  Unstopped(q \o events, Len(q \o events)) <=> Unstopped(q, Len(q))
<1>1. /\ Len(q \o events) = Len(q) + Len(events)
      /\ \A n \in 1..Len(q) : (q \o events)[n] = q[n]
      /\ \A n \in 1..Len(events) : (q \o events)[Len(q) + n] = events[n]
  BY Grows
<1>2. ASSUME Unstopped(q, Len(q)), NEW m \in 1..Len(q \o events)
      PROVE  (q \o events)[m] # Sentinel
  <2>1. CASE m <= Len(q)
    BY <1>1, <1>2, <2>1 DEF Unstopped
  <2>2. CASE m > Len(q)
    <3>1. m - Len(q) \in 1..Len(events)
      BY <1>1, <2>2
    <3> QED  BY <1>1, <3>1 DEF Unstopped
  <2> QED  BY <2>1, <2>2, <1>1
<1>3. ASSUME Unstopped(q \o events, Len(q \o events)), NEW m \in 1..Len(q)
      PROVE  q[m] # Sentinel
  BY <1>1, <1>3 DEF Unstopped
<1> QED  BY <1>2, <1>3 DEF Unstopped

(* Publishing keeps the queue what is sent and not given.                  *)
LEMMA AwaitsGrows ==
    ASSUME NEW E, NEW q \in Seq(E), NEW g \in Seq(E), NEW s \in Seq(E),
           NEW events \in Seq(E), Unstopped(events, Len(events)),
           Awaits(q, g, s)
    PROVE  Awaits(q \o events, g, s \o events)
<1> DEFINE q2 == q \o events
           s2 == s \o events
<1>1. /\ Len(q2) = Len(q) + Len(events)
      /\ Len(s2) = Len(s) + Len(events)
      /\ \A n \in 1..Len(q) : q2[n] = q[n]
      /\ \A n \in 1..Len(s) : s2[n] = s[n]
      /\ \A n \in 1..Len(events) : /\ q2[Len(q) + n] = events[n]
                                   /\ s2[Len(s) + n] = events[n]
      /\ {Len(q), Len(events), Len(s), Len(g)} \subseteq Nat
  BY Grows
<1>2. Unstopped(q2, Len(q2)) <=> Unstopped(q, Len(q))
  BY UnstoppedGrows
<1> HIDE DEF q2, s2
<1>3. ASSUME NEW n \in 1..Len(q2), Unstopped(q2, n)
      PROVE  Due(q2, g, s2, n)
  <2>1. CASE n <= Len(q)
    <3>1. Unstopped(q, n)
      BY <1>1, <1>3, <2>1 DEF Unstopped
    <3>2. Len(g) + n <= Len(s) /\ q[n] = s[Len(g) + n]
      BY <1>1, <2>1, <3>1 DEF Awaits, Due
    <3>3. Len(g) + n \in 1..Len(s)
      BY <1>1, <3>2
    <3> QED  BY <1>1, <2>1, <3>2, <3>3 DEF Due
  <2>2. CASE n > Len(q)
    <3>1. Unstopped(q, Len(q))
      BY <1>1, <1>3, <2>2 DEF Unstopped
    <3>2. Len(s) = Len(g) + Len(q)
      BY <3>1 DEF Awaits
    <3>3. n - Len(q) \in 1..Len(events)
      BY <1>1, <2>2
    <3>4. q2[Len(q) + (n - Len(q))] = s2[Len(s) + (n - Len(q))]
      BY <1>1, <3>3
    <3>5. /\ Len(q) + (n - Len(q)) = n
          /\ Len(s) + (n - Len(q)) = Len(g) + n
          /\ Len(g) + n <= Len(s2)
      BY <1>1, <3>2
    <3> QED  BY <3>4, <3>5 DEF Due
  <2> QED  BY <2>1, <2>2, <1>1
<1>4. Unstopped(q2, Len(q2)) => Len(s2) = Len(g) + Len(q2)
  <2>1. Unstopped(q, Len(q)) => Len(s) = Len(g) + Len(q)
    BY DEF Awaits
  <2>2. ASSUME Unstopped(q2, Len(q2))
        PROVE  Len(s2) = Len(g) + Len(q2)
    <3>1. Unstopped(q, Len(q))
      BY <1>2, <2>2
    <3>2. Len(s) = Len(g) + Len(q)
      BY <3>1, <2>1
    <3> QED  BY <1>1, <3>2
  <2> QED  BY <2>2
<1> QED  BY <1>3, <1>4 DEF Awaits, q2, s2

(* The head of the queue is the next event sent, and the rest still waits. *)
LEMMA AwaitsTail ==
    ASSUME NEW E, NEW q \in Seq(E), NEW g \in Seq(E), NEW s \in Seq(E),
           q # <<>>, Head(q) # Sentinel, Awaits(q, g, s)
    PROVE  /\ Len(g) < Len(s)
           /\ Head(q) = s[Len(g) + 1]
           /\ Tail(q) \in Seq(E) /\ Append(g, Head(q)) \in Seq(E)
           /\ Unstopped(Tail(q), Len(Tail(q))) <=> Unstopped(q, Len(q))
           /\ Awaits(Tail(q), Append(g, Head(q)), s)
<1> DEFINE r == Tail(q)
           h == Append(g, Head(q))
<1>1. /\ {Len(q), Len(s), Len(g)} \subseteq Nat
      /\ Len(q) >= 1 /\ Len(r) = Len(q) - 1 /\ Len(h) = Len(g) + 1
      /\ r \in Seq(E) /\ h \in Seq(E)
      /\ q[1] = Head(q)
      /\ \A n \in 1..Len(r) : r[n] = q[n + 1]
  OBVIOUS
<1> HIDE DEF r, h
<1>2. ASSUME NEW n \in 0..Len(r)
      PROVE  Unstopped(r, n) <=> Unstopped(q, n + 1)
  <2>1. ASSUME Unstopped(r, n), NEW m \in 1..(n + 1)
        PROVE  q[m] # Sentinel
    <3>1. CASE m = 1
      BY <1>1, <3>1
    <3>2. CASE m > 1
      <4>1. m - 1 \in 1..n /\ m - 1 \in 1..Len(r)
        BY <1>1, <1>2, <3>2
      <4>2. r[m - 1] = q[m]
        BY <1>1, <4>1
      <4> QED  BY <2>1, <4>1, <4>2 DEF Unstopped
    <3> QED  BY <3>1, <3>2
  <2>2. ASSUME Unstopped(q, n + 1), NEW m \in 1..n
        PROVE  r[m] # Sentinel
    <3>1. m \in 1..Len(r) /\ m + 1 \in 1..(n + 1)
      BY <1>1, <1>2
    <3> QED  BY <1>1, <2>2, <3>1 DEF Unstopped
  <2> QED  BY <2>1, <2>2 DEF Unstopped
<1>3. Unstopped(q, 1) /\ 1 \in 1..Len(q)
  BY <1>1 DEF Unstopped
<1>4. Len(g) + 1 <= Len(s) /\ q[1] = s[Len(g) + 1]
  BY <1>3 DEF Awaits, Due
<1>5. Unstopped(r, Len(r)) <=> Unstopped(q, Len(q))
  BY <1>1, <1>2
<1>6. ASSUME NEW n \in 1..Len(r), Unstopped(r, n)
      PROVE  Due(r, h, s, n)
  <2>1. n \in 0..Len(r) /\ n + 1 \in 1..Len(q)
    BY <1>1
  <2>2. Unstopped(q, n + 1)
    BY <1>2, <1>6, <2>1
  <2>3. Due(q, g, s, n + 1)
    BY <2>1, <2>2 DEF Awaits
  <2> QED  BY <1>1, <2>3 DEF Due
<1>7. Unstopped(r, Len(r)) => Len(s) = Len(h) + Len(r)
  <2>1. Unstopped(q, Len(q)) => Len(s) = Len(g) + Len(q)
    BY DEF Awaits
  <2>2. ASSUME Unstopped(r, Len(r))
        PROVE  Len(s) = Len(h) + Len(r)
    <3>1. Unstopped(q, Len(q))
      BY <1>5, <2>2
    <3>2. Len(s) = Len(g) + Len(q)
      BY <3>1, <2>1
    <3> QED  BY <1>1, <3>2
  <2> QED  BY <2>2
<1>8. Awaits(r, h, s)
  BY <1>6, <1>7 DEF Awaits
<1> QED  BY <1>1, <1>4, <1>5, <1>8 DEF r, h
-----------------------------------------------------------------------------
(* Events that are sequences over different sets are sequences over one.   *)
LEMMA Union ==
    ASSUME BusInv, NEW events, IsEvents(events)
    PROVE  \E E : {queue, given, sent, events} \subseteq Seq(E)
<1>1. PICK E : {queue, given, sent} \subseteq Seq(E)
  BY DEF BusInv
<1>2. PICK F : events \in Seq(F)
  BY DEF IsEvents
<1>3. {queue, given, sent, events} \subseteq Seq(E \cup F)
  BY <1>1, <1>2, SeqMonotonic
<1> QED  BY <1>3

(* An event published goes to the end of the queue.                        *)
LEMMA PublishStep ==
    ASSUME BusInv, NEW event, event # Sentinel, Publish(event)
    PROVE  BusInv' /\ ChannelStep
<1> DEFINE events == <<event>>
<1>1. events \in Seq({event}) /\ Unstopped(events, Len(events))
  BY DEF Unstopped
<1>2. PICK E : {queue, given, sent, events} \subseteq Seq(E)
  BY <1>1, Union DEF IsEvents
<1> HIDE DEF events
<1>3. /\ queue' = queue \o events /\ sent' = sent \o events
      /\ UNCHANGED <<running, loop, busy, given>>
  BY DEF Publish, Put, events
<1>4. {queue, given, sent}' \subseteq Seq(E) /\ IsPrefix(sent, sent')
  BY <1>2, <1>3, Grows
<1>5. Unstopped(queue', Len(queue')) <=> Unstopped(queue, Len(queue))
  BY <1>1, <1>2, <1>3, UnstoppedGrows
<1>6. Awaits(queue, given, sent) => Awaits(queue', given', sent')
  BY <1>1, <1>2, <1>3, AwaitsGrows
<1>7. BusInv'
  BY <1>3, <1>4, <1>5, <1>6 DEF BusInv, Stopped
<1>8. Channel!Send
  BY <1>3, <1>4 DEF Channel!Send, Channel!IsPrefix, IsPrefix, Phase
<1> QED  BY <1>7, <1>8 DEF ChannelStep, Channel!Next

(* The event taken off the queue is the first one sent and not given; what *)
(* its handlers publish goes to the end.                                   *)
LEMMA DispatchStep ==
    ASSUME BusInv, NEW events, IsEvents(events),
           Unstopped(events, Len(events)), NEW waits, Dispatch(events, waits)
    PROVE  BusInv' /\ ChannelStep
<1> DEFINE r == Tail(queue)
           h == Append(given, Head(queue))
<1>1. PICK E : {queue, given, sent, events} \subseteq Seq(E)
  BY Union
<1>2. /\ loop = "get" /\ queue # <<>> /\ Head(queue) # Sentinel
      /\ queue' = r \o events /\ sent' = sent \o events /\ given' = h
      /\ loop' \in {Resume, "handle"} /\ running' = running
  BY DEF Dispatch
<1>3. Awaits(queue, given, sent)
  BY <1>2 DEF BusInv
<1>4. /\ Len(given) < Len(sent) /\ Head(queue) = sent[Len(given) + 1]
      /\ r \in Seq(E) /\ h \in Seq(E)
      /\ Unstopped(r, Len(r)) <=> Unstopped(queue, Len(queue))
      /\ Awaits(r, h, sent)
  BY <1>1, <1>2, <1>3, AwaitsTail
<1> HIDE DEF r, h
<1>5. {queue, given, sent}' \subseteq Seq(E) /\ IsPrefix(sent, sent')
  BY <1>1, <1>2, <1>4, Grows
<1>6. Unstopped(queue', Len(queue')) <=> Unstopped(queue, Len(queue))
  BY <1>1, <1>2, <1>4, UnstoppedGrows
<1>7. Awaits(queue', given', sent')
  BY <1>1, <1>2, <1>4, AwaitsGrows
<1>8. loop' # "none" /\ (loop' = "over" => ~running)
  BY <1>2 DEF Resume
<1>9. BusInv'
  BY <1>2, <1>5, <1>6, <1>7, <1>8 DEF BusInv, Stopped
<1>10. Channel!Give
  <2>1. given' = Append(given, sent[Len(given) + 1])
    BY <1>2, <1>4 DEF h
  <2>2. /\ Phase # "closed"
        /\ \/ Phase' = Phase
           \/ Phase = "closing" /\ Phase' = "closed"
    BY <1>2, <1>8 DEF Phase
  <2> QED  BY <1>4, <1>5, <2>1, <2>2
              DEF Channel!Give, Channel!IsPrefix, IsPrefix
<1> QED  BY <1>9, <1>10 DEF ChannelStep, Channel!Next

(* A handler that finishes moves the loop on, or ends it.                  *)
LEMMA FinishStep ==
    ASSUME BusInv, NEW handler, Finish(handler)
    PROVE  BusInv' /\ ChannelStep
<1>1. /\ loop = "handle" /\ loop' \in {Resume, "handle"}
      /\ UNCHANGED <<queue, running, sent, given>>
  BY DEF Finish
<1>2. loop' # "none" /\ (loop' = "over" => ~running)
  BY <1>1 DEF Resume
<1>3. BusInv'
  BY <1>1, <1>2 DEF BusInv, Stopped
<1>4. /\ UNCHANGED <<sent, given>>
      /\ \/ Phase' = Phase
         \/ Phase = "closing" /\ Phase' = "closed"
  BY <1>1, <1>2 DEF Phase
<1> QED  BY <1>3, <1>4 DEF ChannelStep, Channel!Next, Channel!End

(* At the sentinel the loop ends: the bus had been stopped.                *)
LEMMA BreakStep ==
    ASSUME BusInv, Break
    PROVE  BusInv' /\ ChannelStep
<1>1. PICK E : {queue, given, sent} \subseteq Seq(E)
  BY DEF BusInv
<1>2. /\ loop = "get" /\ queue # <<>> /\ Head(queue) = Sentinel
      /\ queue' = Tail(queue) /\ loop' = "over"
      /\ UNCHANGED <<running, sent, given>>
  BY DEF Break
<1>3. ~Unstopped(queue, Len(queue))
  <2>1. 1 \in 1..Len(queue) /\ queue[1] = Sentinel
    BY <1>1, <1>2
  <2> QED  BY <2>1 DEF Unstopped
<1>4. Stopped
  BY <1>3 DEF BusInv
<1>5. queue' \in Seq(E)
  BY <1>1, <1>2
<1>6. BusInv'
  BY <1>1, <1>2, <1>4, <1>5 DEF BusInv, Stopped
<1>7. Phase = "closing" /\ Phase' = "closed"
  BY <1>2, <1>4 DEF Phase, Stopped
<1> QED  BY <1>2, <1>6, <1>7 DEF ChannelStep, Channel!Next, Channel!End

(* The dispatch task is created with an empty history.                     *)
LEMMA StartStep ==
    ASSUME BusInv, Start
    PROVE  BusInv' /\ ChannelStep
<1>1. Unstopped(queue, Len(queue)) /\ Awaits(queue, given, sent)
  BY DEF Start, BusInv, Stopped
<1>2. BusInv'
  BY <1>1 DEF Start, BusInv, Stopped
<1>3. Phase' = Phase
  BY DEF Start, Phase
<1> QED  BY <1>2, <1>3 DEF ChannelStep, Start
(* stop() clears _running and queues the sentinel.                         *)
LEMMA StopStep ==
    ASSUME BusInv, Stop
    PROVE  BusInv' /\ ChannelStep
<1>1. PICK E : {queue, given, sent} \subseteq Seq(E)
  BY DEF BusInv
<1> DEFINE F == E \cup {Sentinel}
<1>2. {queue, given, sent} \subseteq Seq(F)
  BY <1>1, SeqMonotonic
<1> HIDE DEF F
<1>3. /\ loop # "none" /\ queue' = Append(queue, Sentinel)
      /\ running' = FALSE /\ UNCHANGED <<loop, busy, sent, given>>
  BY DEF Stop
<1>4. /\ queue' \in Seq(F) /\ Len(queue') = Len(queue) + 1
      /\ queue'[Len(queue')] = Sentinel
      /\ \A n \in 1..Len(queue) : queue'[n] = queue[n]
      /\ Len(queue) \in Nat
  BY <1>2, <1>3 DEF F
<1>5. ~Unstopped(queue', Len(queue'))
  BY <1>4 DEF Unstopped
<1>6. ASSUME loop # "over", NEW n \in 1..Len(queue'), Unstopped(queue', n)
      PROVE  Due(queue', given, sent, n)
  <2>1. n # Len(queue')
    BY <1>5, <1>6
  <2>2. n \in 1..Len(queue)
    BY <1>4, <2>1
  <2>3. Unstopped(queue, n)
    BY <1>4, <1>6, <2>2 DEF Unstopped
  <2>4. Awaits(queue, given, sent)
    BY <1>6 DEF BusInv
  <2> QED  BY <1>4, <2>2, <2>3, <2>4 DEF Awaits, Due
<1>7. loop # "over" => Awaits(queue', given', sent')
  BY <1>3, <1>5, <1>6 DEF Awaits
<1>8. BusInv'
  BY <1>2, <1>3, <1>4, <1>7 DEF BusInv, Stopped
<1>9. \/ Phase' = Phase
      \/ Phase = "open" /\ Phase' = "closing"
  BY <1>3 DEF Phase, BusInv, Stopped
<1> QED  BY <1>3, <1>8, <1>9 DEF ChannelStep, Channel!Next, Channel!Close

(* A step of the other components leaves the channel alone.                *)
LEMMA IdleStep ==
    ASSUME BusInv, UNCHANGED <<queue, running, loop, sent, given>>
    PROVE  BusInv' /\ ChannelStep
<1>1. BusInv'
  BY DEF BusInv, Stopped
<1>2. Phase' = Phase
  BY DEF Phase
<1> QED  BY <1>1, <1>2 DEF ChannelStep
-----------------------------------------------------------------------------
(* The candles a tick closes are events, none of them the sentinel.        *)
LEMMA CandlesAreEvents ==
    ASSUME NEW t
    PROVE  LET events == [k \in DOMAIN Closed(t) |-> Announce(Closed(t)[k])]
           IN  IsEvents(events) /\ Unstopped(events, Len(events))
<1> DEFINE events == [k \in DOMAIN Closed(t) |-> Announce(Closed(t)[k])]
           n == Cardinality(Closing(t))
           E == {Announce(Closed(t)[k]) : k \in 1..n}
<1>1. n \in Nat
  <2>1. IsFiniteSet(Frames)
    <3>1. Frames = 1..Len(Timeframes) /\ Len(Timeframes) \in Nat
      BY CandlesAssumption DEF Frames
    <3> QED  BY <3>1, FS_Interval
  <2>2. Closing(t) \subseteq Frames
    BY DEF Closing
  <2> QED  BY <2>1, <2>2, FS_Subset, FS_CardinalityType
<1>2. DOMAIN Closed(t) = 1..n
  BY DEF Closed
<1> HIDE DEF n
<1>3. events \in [1..n -> E]
  BY <1>2
<1>4. events \in Seq(E) /\ Len(events) = n
  BY <1>1, <1>3
<1>5. \A k \in 1..n : events[k] # Sentinel
  BY <1>2 DEF Announce, Sentinel
<1> QED  BY <1>4, <1>5 DEF IsEvents, Unstopped
-----------------------------------------------------------------------------
(* An empty bus.                                                           *)
LEMMA InitBus == Init => BusInv /\ Channel!Init
<1> SUFFICES ASSUME Init PROVE BusInv /\ Channel!Init
  OBVIOUS
<1>1. /\ queue = <<>> /\ sent = <<>> /\ given = <<>>
      /\ running = FALSE /\ loop = "none"
  BY DEF Init, BusInit
<1>2. {queue, given, sent} \subseteq Seq({})
  BY <1>1
<1>3. Len(queue) = 0 /\ Len(given) = 0 /\ Len(sent) = 0
  BY <1>1
<1>4. Awaits(queue, given, sent) /\ Unstopped(queue, Len(queue))
  BY <1>3 DEF Awaits, Unstopped
<1>5. BusInv
  BY <1>1, <1>2, <1>4 DEF BusInv
<1> QED  BY <1>1, <1>5 DEF Channel!Init, Phase

(* Every action of the pipeline is one of the bus, or leaves it alone.     *)
LEMMA Step ==
    ASSUME BusInv, [Next]_vars
    PROVE  BusInv' /\ ChannelStep
<1>1. CASE PublishTick
  <2>1. PICK event : event # Sentinel /\ Publish(event)
    BY <1>1 DEF PublishTick, TickEvent, Sentinel
  <2> QED  BY <2>1, PublishStep
<1>2. CASE StartBus
  BY <1>2, StartStep DEF StartBus
<1>3. CASE HandleTick
  <2> DEFINE events ==
        [k \in DOMAIN Closed(Event) |-> Announce(Closed(Event)[k])]
  <2>1. PICK waits : Dispatch(events, waits)
    BY <1>3 DEF HandleTick
  <2>2. IsEvents(events) /\ Unstopped(events, Len(events))
    BY CandlesAreEvents
  <2> HIDE DEF events
  <2> QED  BY <2>1, <2>2, DispatchStep
<1>4. CASE HandleCandle
  <2>1. Dispatch(<<>>, {"store"})
    BY <1>4 DEF HandleCandle
  <2>2. IsEvents(<<>>) /\ Unstopped(<<>>, Len(<<>>))
    <3>1. <<>> \in Seq({}) /\ Len(<<>>) = 0
      OBVIOUS
    <3> QED  BY <3>1 DEF IsEvents, Unstopped
  <2> QED  BY <2>1, <2>2, DispatchStep
<1>5. CASE CandleStored \/ TicksStored \/ RoundOver
  <2>1. PICK handler : Finish(handler)
    BY <1>5 DEF CandleStored, TicksStored, RoundOver
  <2> QED  BY <2>1, FinishStep
<1>6. CASE BreakLoop
  BY <1>6, BreakStep DEF BreakLoop
<1>7. CASE StopBus
  BY <1>7, StopStep DEF StopBus
<1>8. CASE UNCHANGED busVars
  <2>1. UNCHANGED <<queue, running, loop, sent, given>>
    BY <1>8 DEF busVars
  <2> QED  BY <2>1, IdleStep
<1>9. \/ PublishTick \/ StartBus \/ HandleTick \/ HandleCandle
      \/ CandleStored \/ TicksStored \/ RoundOver
      \/ BreakLoop \/ StopBus \/ UNCHANGED busVars
  <2>1. VisitStrategy => UNCHANGED busVars
    BY DEF VisitStrategy
  <2>2. (\E sid \in Sids, toks \in Wanted, starts \in BOOLEAN :
             HttpStart(sid, toks, starts)) => UNCHANGED busVars
    BY DEF HttpStart
  <2>3. (\E sid \in Sids : HttpStop(sid)) => UNCHANGED busVars
    BY DEF HttpStop
  <2>4. StopStrategies => UNCHANGED busVars
    BY DEF StopStrategies
  <2>5. Settle \/ FlushStore \/ StoreFlushed \/ BusStopped \/ StopFeeds
            => UNCHANGED busVars
    BY DEF Settle, FlushStore, StoreFlushed, BusStopped, StopFeeds
  <2>6. UNCHANGED vars => UNCHANGED busVars
    BY DEF vars
  <2> QED  BY <2>1, <2>2, <2>3, <2>4, <2>5, <2>6 DEF Next, Handling, Shutdown
<1> QED  BY <1>1, <1>2, <1>3, <1>4, <1>5, <1>6, <1>7, <1>8, <1>9

(* The bus invariant holds in every state.                                 *)
LEMMA BusAlways == Spec => []BusInv
<1>1. Init => BusInv
  BY InitBus
<1>2. BusInv /\ [Next]_vars => BusInv'
  BY Step
<1> QED  BY <1>1, <1>2, PTL DEF Spec

(* The bus hands out what was published in order, none skipped and none    *)
(* twice, until it is stopped: property InOrder (events.py:127).           *)
THEOREM EventsInOrder == Spec => InOrder
<1>1. Init => Channel!Init
  BY InitBus
<1>2. BusInv /\ [Next]_vars => [Channel!Next]_<<sent, given, Phase>>
  BY Step DEF ChannelStep
<1> QED  BY <1>1, <1>2, BusAlways, PTL DEF Spec, InOrder, Channel!Safe
-----------------------------------------------------------------------------
(* The kinds of event, and the ticks still to come.                        *)
Ticks == [type : {"tick"}, tok : Tokens, time : Nat, ltp : Nat, volume : Nat]
Candle ==
    [start : Nat, tok : Tokens, frame : Frames, open : Nat, high : Nat,
     low : Nat, close : Nat, first : Nat, volume : Nat]
Events == Ticks \cup [type : {"candle"}, candle : Candle]

(* A queue whose ticks have rising volumes, up to b.                       *)
IsTick(e) == e.type = "tick"
Before(v, q) == \A n \in 1..Len(q) : IsTick(q[n]) => v <= q[n].volume
Rising(q) == \A m, n \in 1..Len(q) :
    m <= n /\ IsTick(q[m]) /\ IsTick(q[n]) => q[m].volume <= q[n].volume
Ascends(q, b) ==
    /\ q \in Seq(Events \cup {Sentinel})
    /\ Rising(q)
    /\ \A n \in 1..Len(q) : IsTick(q[n]) => q[n].volume <= b

(* What the bus carries.                                                   *)
StreamInv ==
    /\ tape \in Seq([tok : Tokens, time : Nat, ltp : Nat])
    /\ sent \in Seq(Events) /\ given \in Seq(Events)
    /\ Len(given) <= Len(sent)
    /\ loop \in {"none", "get", "handle", "over"}
    /\ busy \subseteq {"store", "runner"}
    /\ Ascends(queue, Traded)

(* The flushes that wait for the database: the shutdown's, the dispatch's. *)
Early  == stage \in {"up", "settle", "flush"}
Late   == stage \in {"stop bus", "stopping", "stop feeds", "down"}
Copied == flushing["shutdown"]
Saving == flushing["dispatch"]

StoreTyped ==
    /\ buffer \in Seq(Ticks) /\ rows \subseteq Ticks
    /\ flushing \in [Flushers -> Seq(Ticks)]
    /\ Len(buffer) <= Len(given)
    /\ failures \in 0..MaxFailures
    /\ final \in [phase : {"none", "copied", "overtaken", "failed"},
                  copied : Nat, since : SUBSET Ticks]
    /\ Saving # <<>> => loop = "handle" /\ "store" \in busy /\ IsTick(Current)
    /\ Copied # <<>> <=> stage = "flushing"
    /\ final.phase = "none" <=> Early
    /\ Early \/ stage = "flushing" \/ Late

(* Ticks in the order of their volumes, none newer than those still queued *)
(* and none older than the row of its key.                                 *)
First(r, s) ==
    \A n \in 1..Len(s) : Key(r) = Key(s[n]) => r.volume <= s[n].volume
Behind(t) == t.volume <= Traded /\ Before(t.volume, queue)
Timely(s) ==
    /\ Rising(s)
    /\ \A t \in Range(s) : Behind(t)
    /\ \A r \in rows : First(r, s)
StoreTimely == Timely(buffer) /\ Timely(Saving) /\ \A r \in rows : Behind(r)

(* The copy s is the beginning of b; b is no more than a part of the copy. *)
Leads(s, b)  == Len(s) <= Len(b) /\ \A n \in 1..Len(s) : b[n] = s[n]
Within(b, s) == Range(b) \subseteq Range(s) /\ Len(b) <= Len(s)

(* Until the shutdown's flush ends, nothing is lost, and the dispatch's    *)
(* flush has copied all of the buffer.                                     *)
Whole == Saving \in {<<>>, buffer} /\ Lost = {}

(* While it waits, the buffer begins with what it copied, or that has been *)
(* stored and the buffer has only what came since.                         *)
Waits ==
    /\ final.copied = Len(Copied)
    /\ \/ final.phase = "copied" /\ Leads(Copied, buffer)
       \/ /\ final.phase = "overtaken"
          /\ Range(buffer) \subseteq final.since
          /\ \A t \in Range(Copied) : Stored(t)
    /\ \A t \in TicksHandled \ final.since : Stored(t) \/ t \in Range(Copied)

(* When it has ended, a flush of the dispatch may hold more than the       *)
(* buffer, and stores it.                                                  *)
Landed ==
    /\ Saving = <<>> \/ Within(buffer, Saving)
    /\ TicksKept
    /\ final.phase # "failed" =>
           \A t \in TicksHandled \ final.since : Stored(t)

StoreKept ==
    /\ ~Late => Whole
    /\ stage = "flushing" => Waits
    /\ Late => Landed
StoreInv == StoreTyped /\ StoreTimely /\ StoreKept

(* The candles being built, those completed, in the order of closing.      *)
CandleInv ==
    /\ builder \in [Tokens -> [Frames -> Candle \cup {NoCandle}]]
    /\ \A tok \in Tokens, n \in Frames :
           builder[tok][n] # NoCandle =>
               builder[tok][n].tok = tok /\ builder[tok][n].frame = n
    /\ completed \in Seq(Candle)
    /\ Len(completed) <= MaxCandles
    /\ ClosedInOrder

(* The dictionary of the runner, and the feed's.                           *)
Entries == [sid : Sids, toks : Wanted, nr : Nat \ {0}]
RunnerInv ==
    /\ tokens \subseteq Entries /\ IsFiniteSet(tokens)
    /\ serial \in Nat
    /\ strategies \subseteq Sids
    /\ subs \in [UNION Wanted -> SUBSET Sids]
    /\ \A d, e \in tokens : d.sid = e.sid \/ d.nr = e.nr => d = e
    /\ \A e \in tokens : e.nr <= serial /\ e.sid \in strategies \cup leftover
    /\ SubscriptionsAgree

(* While nothing is started or stopped, the round has called those behind. *)
RoundInv ==
    \/ round = NoRound
    \/ /\ DOMAIN round = {"tok", "size", "left", "last", "called", "calm"}
       /\ round.calm =>
           /\ round.size = Cardinality(tokens)
           /\ round.left = Cardinality(Ahead)
           /\ round.last \in Nat
           /\ round.called =
                  {e.sid : e \in {d \in tokens : d.nr <= round.last /\ Calls(d)}}
-----------------------------------------------------------------------------
(* A round disturbed promises nothing any more.                            *)
LEMMA DisturbsKeeps == RoundInv /\ Disturbs => RoundInv'
<1> SUFFICES ASSUME RoundInv, Disturbs PROVE RoundInv'
  OBVIOUS
<1>1. CASE round = NoRound
  BY <1>1 DEF Disturbs, RoundInv
<1>2. CASE round # NoRound
  <2>1. DOMAIN round' = {"tok", "size", "left", "last", "called", "calm"}
    BY <1>2 DEF Disturbs, RoundInv
  <2>2. ~round'.calm
    BY <1>2 DEF Disturbs, RoundInv
  <2> QED BY <2>1, <2>2 DEF RoundInv
<1> QED BY <1>1, <1>2

(* The tokens a strategy started has, and those of the others.             *)
LEMMA SetTokensSets ==
    ASSUME RunnerInv, NEW sid \in Sids, NEW toks \in Wanted
    PROVE  LET new == SetTokens(sid, toks)
           IN  /\ new \subseteq Entries /\ IsFiniteSet(new)
               /\ \A e \in new : e.nr <= serial + 1
               /\ \A e \in new : e.sid = sid => e.toks = toks
               /\ \E e \in new : e.sid = sid
               /\ \A e \in new : e.sid # sid => e \in tokens
               /\ \A e \in tokens : e.sid # sid => e \in new
               /\ \A d, e \in new : d.sid = e.sid \/ d.nr = e.nr => d = e
<1> DEFINE new == SetTokens(sid, toks)
           a == [sid |-> sid, toks |-> toks, nr |-> serial + 1]
           f(e) == IF e.sid = sid THEN [e EXCEPT !.toks = toks] ELSE e
<1>0. /\ tokens \subseteq Entries /\ IsFiniteSet(tokens) /\ serial \in Nat
      /\ \A d, e \in tokens : d.sid = e.sid \/ d.nr = e.nr => d = e
      /\ \A e \in tokens : e.nr <= serial
  BY DEF RunnerInv
<1>1. CASE Entry(sid) = {}
  <2>1. new = tokens \cup {a}
    BY <1>1 DEF SetTokens
  <2>2. a \in Entries /\ a.sid = sid /\ a.toks = toks /\ a.nr = serial + 1
    BY <1>0 DEF Entries
  <2>3. \A e \in tokens : e.sid # sid
    BY <1>1 DEF Entry
  <2>4. IsFiniteSet(new)
    <3> HIDE DEF new, a
    <3>1. IsFiniteSet(tokens \cup {a})
      BY <1>0, FS_AddElement
    <3> QED BY <2>1, <3>1, Zenon
  <2>5. \A e \in tokens : e.nr \in Nat /\ e.nr # serial + 1
    BY <1>0 DEF Entries
  <2> HIDE DEF new, a
  <2>6. \A e \in new : e.nr <= serial + 1
    BY <1>0, <2>1, <2>2, <2>5
  <2>7. \A d, e \in new : d.sid = e.sid \/ d.nr = e.nr => d = e
    BY <1>0, <2>1, <2>2, <2>3, <2>5
  <2> QED BY <1>0, <2>1, <2>2, <2>3, <2>4, <2>6, <2>7 DEF new
<1>2. CASE Entry(sid) # {}
  <2>1. new = {f(e) : e \in tokens}
    BY <1>2 DEF SetTokens
  <2>2. \A e \in tokens : /\ f(e) \in Entries /\ f(e).sid = e.sid
                          /\ f(e).nr = e.nr
                          /\ e.sid = sid => f(e).toks = toks
                          /\ e.sid # sid => f(e) = e
    BY <1>0 DEF Entries
  <2>3. PICK e0 \in tokens : e0.sid = sid
    BY <1>2 DEF Entry
  <2>4. IsFiniteSet(new)
    <3> DEFINE g == [e \in tokens |-> f(e)]
    <3> HIDE DEF new, f
    <3>1. g \in Surjection(tokens, new)
      BY <2>1 DEF Surjection
    <3> QED BY <1>0, <3>1, FS_Surjection
  <2>5. \A e \in tokens : e.nr \in Nat
    BY <1>0 DEF Entries
  <2> HIDE DEF new, f
  <2>6. \A e \in new : e.nr <= serial + 1
    BY <1>0, <2>1, <2>2, <2>5
  <2>7. \A d, e \in new : d.sid = e.sid \/ d.nr = e.nr => d = e
    BY <1>0, <2>1, <2>2
  <2> QED BY <1>0, <2>1, <2>2, <2>3, <2>4, <2>6, <2>7 DEF new
<1> QED BY <1>1, <1>2

(* A strategy started, or whose start failed, keeps feed and runner        *)
(* together.                                                               *)
LEMMA AddStep ==
    ASSUME RunnerInv, NEW sid \in Sids, NEW toks \in Wanted,
           NEW starts \in BOOLEAN, AddStrategy(sid, toks, starts)
    PROVE  RunnerInv'
<1>1. /\ sid \notin strategies /\ serial' = serial + 1
      /\ subs' = [tok \in DOMAIN subs |->
                   subs[tok] \cup {s \in {sid} : tok \in toks}]
      /\ tokens' = SetTokens(sid, toks)
      /\ strategies' = strategies \cup {s \in {sid} : starts}
      /\ leftover' = leftover \cup {s \in {sid} : ~starts}
  BY DEF AddStrategy
<1>2. /\ tokens' \subseteq Entries /\ IsFiniteSet(tokens')
      /\ \A e \in tokens' : e.nr <= serial + 1
      /\ \A e \in tokens' : e.sid = sid => e.toks = toks
      /\ \E e \in tokens' : e.sid = sid
      /\ \A e \in tokens' : e.sid # sid => e \in tokens
      /\ \A e \in tokens : e.sid # sid => e \in tokens'
      /\ \A d, e \in tokens' : d.sid = e.sid \/ d.nr = e.nr => d = e
  BY <1>1, SetTokensSets
<1>3. /\ serial \in Nat /\ strategies \subseteq Sids
      /\ subs \in [UNION Wanted -> SUBSET Sids]
      /\ \A e \in tokens : e.sid \in strategies \cup leftover
      /\ SubscriptionsAgree
  BY DEF RunnerInv
<1>4. /\ subs' \in [UNION Wanted -> SUBSET Sids] /\ serial' \in Nat
      /\ strategies' \subseteq Sids
  BY <1>1, <1>3
<1>5. \A e \in tokens' : e.sid \in strategies' \cup leftover'
  BY <1>1, <1>2, <1>3
<1>6. ASSUME NEW s \in Sids
      PROVE  LET fed == {tok \in DOMAIN subs' : s \in subs'[tok]}
             IN  /\ TokensOf(s)' \subseteq fed
                 /\ s \notin leftover' => fed = TokensOf(s)'
                 /\ s \in strategies' => Entry(s)' # {}
  <2> DEFINE fed == {tok \in DOMAIN subs : s \in subs[tok]}
             fed2 == {tok \in DOMAIN subs' : s \in subs'[tok]}
  <2>1. /\ TokensOf(s) \subseteq fed
        /\ s \notin leftover => fed = TokensOf(s)
        /\ s \in strategies => Entry(s) # {}
    BY <1>3 DEF SubscriptionsAgree
  <2>2. DOMAIN subs = UNION Wanted /\ DOMAIN subs' = UNION Wanted
    BY <1>3, <1>4
  <2>3. CASE s = sid
    <3>1. TokensOf(s)' = toks /\ Entry(s)' # {}
      BY <1>2, <2>3 DEF TokensOf, Entry
    <3>2. fed2 = fed \cup toks
      BY <1>1, <2>2, <2>3
    <3>3. s \notin leftover' => fed = {}
      <4>1. s \notin leftover' => s \notin leftover /\ s \notin strategies
        BY <1>1, <2>3
      <4>2. s \notin leftover' => Entry(s) = {}
        BY <1>3, <4>1 DEF Entry
      <4> QED BY <2>1, <4>1, <4>2 DEF TokensOf
    <3> QED BY <3>1, <3>2, <3>3
  <2>4. CASE s # sid
    <3>1. Entry(s)' = Entry(s) /\ TokensOf(s)' = TokensOf(s)
      <4>1. Entry(s)' = Entry(s)
        BY <1>2, <2>4 DEF Entry
      <4> QED BY <4>1 DEF TokensOf
    <3>2. fed2 = fed
      BY <1>1, <2>2, <2>4
    <3> QED BY <1>1, <2>1, <2>4, <3>1, <3>2
  <2> QED BY <2>3, <2>4
<1>7. SubscriptionsAgree'
  BY <1>6 DEF SubscriptionsAgree
<1> QED BY <1>1, <1>2, <1>4, <1>5, <1>7 DEF RunnerInv

(* Strategies stopped leave the feed and the runner alike.                 *)
LEMMA DropStep ==
    ASSUME RunnerInv, NEW gone, gone \subseteq strategies, Drop(gone)
    PROVE  RunnerInv'
<1>1. /\ strategies' = strategies \ gone
      /\ tokens' = {e \in tokens : e.sid \notin gone}
      /\ subs' = [tok \in DOMAIN subs |-> subs[tok] \ gone]
      /\ leftover' = leftover \ gone /\ serial' = serial
  BY DEF Drop, Without, Remaining
<1>2. /\ tokens \subseteq Entries /\ IsFiniteSet(tokens)
      /\ serial \in Nat /\ strategies \subseteq Sids
      /\ subs \in [UNION Wanted -> SUBSET Sids]
      /\ \A d, e \in tokens : d.sid = e.sid \/ d.nr = e.nr => d = e
      /\ \A e \in tokens : e.nr <= serial /\ e.sid \in strategies \cup leftover
      /\ SubscriptionsAgree
  BY DEF RunnerInv
<1>3. IsFiniteSet(tokens') /\ tokens' \subseteq Entries
  BY <1>1, <1>2, FS_Subset
<1>4. subs' \in [UNION Wanted -> SUBSET Sids] /\ strategies' \subseteq Sids
  BY <1>1, <1>2
<1>5. ASSUME NEW s \in Sids
      PROVE  LET fed == {tok \in DOMAIN subs' : s \in subs'[tok]}
             IN  /\ TokensOf(s)' \subseteq fed
                 /\ s \notin leftover' => fed = TokensOf(s)'
                 /\ s \in strategies' => Entry(s)' # {}
  <2> DEFINE fed == {tok \in DOMAIN subs : s \in subs[tok]}
             fed2 == {tok \in DOMAIN subs' : s \in subs'[tok]}
  <2>1. /\ TokensOf(s) \subseteq fed
        /\ s \notin leftover => fed = TokensOf(s)
        /\ s \in strategies => Entry(s) # {}
    BY <1>2 DEF SubscriptionsAgree
  <2>2. DOMAIN subs = UNION Wanted /\ DOMAIN subs' = UNION Wanted
    BY <1>2, <1>4
  <2>3. CASE s \in gone
    <3>1. Entry(s)' = {} /\ fed2 = {} /\ s \notin strategies'
      BY <1>1, <2>2, <2>3 DEF Entry
    <3> QED BY <3>1 DEF TokensOf
  <2>4. CASE s \notin gone
    <3>1. Entry(s)' = Entry(s)
      BY <1>1, <2>4 DEF Entry
    <3>2. TokensOf(s)' = TokensOf(s)
      BY <3>1 DEF TokensOf
    <3>3. fed2 = fed
      BY <1>1, <2>2, <2>4
    <3> QED BY <1>1, <2>1, <2>4, <3>1, <3>2, <3>3
  <2> QED BY <2>3, <2>4
<1>6. SubscriptionsAgree'
  BY <1>5 DEF SubscriptionsAgree
<1>7. \A e \in tokens' : e.nr <= serial' /\ e.sid \in strategies' \cup leftover'
  BY <1>1, <1>2
<1> QED BY <1>1, <1>2, <1>3, <1>4, <1>6, <1>7 DEF RunnerInv

(* A tick's round begins with every strategy running still ahead.          *)
LEMMA RoundStarts ==
    ASSUME RunnerInv, NEW tok, StartRound(tok)
    PROVE  RoundInv'
<1>1. /\ round' = [tok |-> tok, size |-> Cardinality(tokens),
                   left |-> Cardinality(tokens),
                   last |-> 0, called |-> {}, calm |-> TRUE]
      /\ tokens' = tokens
  BY DEF StartRound, RoundFrame
<1>2. \A e \in tokens : e.nr > 0 /\ ~(e.nr <= 0)
  BY DEF RunnerInv, Entries
<1>3. Ahead' = tokens
  BY <1>1, <1>2 DEF Ahead
<1>4. round'.called =
          {e.sid : e \in {d \in tokens' : d.nr <= round'.last /\ Calls(d)'}}
  BY <1>1, <1>2
<1> QED BY <1>1, <1>3, <1>4 DEF RoundInv

(* The next strategy of a round: those ahead are fewer by it.              *)
LEMMA Upcoming ==
    ASSUME RunnerInv, Ahead # {}
    PROVE  /\ UpNext \in Ahead
           /\ \A d \in Ahead : UpNext.nr <= d.nr
<1> DEFINE N == {e.nr : e \in Ahead}
<1>1. Ahead \subseteq Entries
  BY DEF Ahead, RunnerInv
<1>2. N \subseteq Nat /\ N # {}
  BY <1>1 DEF Entries
<1>3. PICK n \in N : \A m \in N : n <= m
  BY <1>2, Least
<1>4. PICK e \in Ahead : e.nr = n
  BY <1>3
<1>5. \A d \in Ahead : e.nr <= d.nr
  BY <1>3, <1>4
<1> QED BY <1>4, <1>5 DEF UpNext

(* A visit calls the next strategy, if it wants the tick, and leaves the   *)
(* later ones ahead.                                                       *)
LEMMA VisitStep ==
    ASSUME RunnerInv, RoundInv, Visit
    PROVE  RoundInv'
<1> DEFINE e == UpNext
<1>1. /\ round # NoRound /\ Ahead # {}
      /\ round' = [round EXCEPT !.left = @ - 1, !.last = e.nr,
                                !.called = @ \cup {s \in {e.sid} : Calls(e)}]
      /\ UNCHANGED <<tokens, strategies>>
  BY DEF Visit, RoundFrame
<1>2. DOMAIN round = {"tok", "size", "left", "last", "called", "calm"}
  BY <1>1 DEF RoundInv
<1>3. e \in Ahead /\ \A d \in Ahead : e.nr <= d.nr
  BY <1>1, Upcoming
<1> HIDE DEF e
<1>4. /\ DOMAIN round' = DOMAIN round
      /\ round'.tok = round.tok /\ round'.size = round.size
      /\ round'.calm = round.calm /\ round'.last = e.nr
      /\ round'.left = round.left - 1
      /\ round'.called = round.called \cup {s \in {e.sid} : Calls(e)}
  BY <1>1, <1>2
<1>5. ASSUME round.calm
      PROVE  /\ round.left - 1 = Cardinality(Ahead')
             /\ e.nr \in Nat
             /\ round'.called =
                  {d.sid : d \in {d \in tokens : d.nr <= e.nr /\ Calls(d)}}
  <2>1. /\ round.left = Cardinality(Ahead) /\ round.last \in Nat
        /\ round.called =
             {d.sid : d \in {d \in tokens : d.nr <= round.last /\ Calls(d)}}
    BY <1>1, <1>5 DEF RoundInv
  <2>2. /\ tokens \subseteq Entries /\ IsFiniteSet(tokens)
        /\ \A c, d \in tokens : c.nr = d.nr => c = d
    BY DEF RunnerInv
  <2>3. e \in tokens /\ e.nr \in Nat /\ e.nr > round.last
    BY <1>3, <2>2 DEF Ahead, Entries
  <2>4. \A d \in tokens : d.nr \in Nat
    BY <2>2 DEF Entries
  <2>5. \A d \in tokens : d.nr <= e.nr <=> d.nr <= round.last \/ d = e
    BY <1>3, <2>1, <2>2, <2>3, <2>4 DEF Ahead
  <2>6. Ahead' = Ahead \ {e}
    BY <1>1, <1>3, <1>4, <2>1, <2>3, <2>4, <2>5 DEF Ahead
  <2>7. IsFiniteSet(Ahead)
    BY <2>2, FS_Subset DEF Ahead
  <2>8. Cardinality(Ahead') = Cardinality(Ahead) - 1
    BY <1>3, <2>6, <2>7, FS_RemoveElement
  <2>9. {d.sid : d \in {d \in tokens : d.nr <= e.nr /\ Calls(d)}}
           = round.called \cup {s \in {e.sid} : Calls(e)}
    BY <2>1, <2>3, <2>5
  <2> QED BY <1>4, <2>1, <2>3, <2>8, <2>9
<1>6. round'.calm => round'.called =
          {d.sid : d \in {d \in tokens' : d.nr <= round'.last /\ Calls(d)'}}
  BY <1>1, <1>4, <1>5 DEF Calls
<1> QED BY <1>1, <1>2, <1>4, <1>5, <1>6 DEF RoundInv

(* A round that ends undisturbed has called who is to be called.           *)
LEMMA RoundEnds ==
    ASSUME RunnerInv, RoundInv, EndRound
    PROVE  round.calm => round.called = Interested
<1> SUFFICES ASSUME round.calm PROVE round.called = Interested
  OBVIOUS
<1>1. /\ round.size = Cardinality(tokens)
      /\ round.left = Cardinality(Ahead) /\ round.last \in Nat
      /\ round.called =
           {d.sid : d \in {d \in tokens : d.nr <= round.last /\ Calls(d)}}
  BY DEF RoundInv, EndRound
<1>2. tokens \subseteq Entries /\ IsFiniteSet(tokens)
  BY DEF RunnerInv
<1>3. IsFiniteSet(Ahead)
  BY <1>2, FS_Subset DEF Ahead
<1>4. Ahead = {}
  BY <1>1, <1>3, FS_EmptySet DEF EndRound, Raises
<1>5. \A d \in tokens : d.nr <= round.last
  BY <1>1, <1>2, <1>4 DEF Ahead, Entries
<1>6. round.called = {d.sid : d \in {d \in tokens : Calls(d)}}
  BY <1>1, <1>5
<1> QED BY <1>6 DEF Interested, TokensOf, Entry, Calls
-----------------------------------------------------------------------------
(* Timeframes are positive, and finitely many.                             *)
LEMMA Framed ==
    /\ \A n \in Frames : Timeframes[n] \in Nat \ {0}
    /\ Frames \subseteq Nat /\ IsFiniteSet(Frames)
<1>1. Frames = 1..Len(Timeframes) /\ Len(Timeframes) \in Nat
  BY CandlesAssumption DEF Frames
<1>2. IsFiniteSet(Frames)
  BY <1>1, FS_Interval
<1> QED BY <1>1, <1>2, CandlesAssumption

(* The beginning of a tick's interval.                                     *)
LEMMA Aligned ==
    ASSUME NEW time \in Nat, NEW length \in Nat \ {0}
    PROVE  /\ Align(time, length) \in Nat
           /\ Align(time, length) <= time /\ time < Align(time, length) + length
<1>1. time % length \in 0..length - 1 /\ time % length <= time
  <2>1. time % length \in 0..length - 1
    OBVIOUS
  <2>2. time = length * (time \div length) + (time % length)
    OBVIOUS
  <2>3. time \div length \in Nat
    OBVIOUS
  <2>4. length * (time \div length) \in Nat
    BY <2>3
  <2> QED BY <2>1, <2>2, <2>4
<1> QED BY <1>1 DEF Align

(* A candle built, by the tick that begins it or one of its interval.      *)
LEMMA BuiltCandle ==
    ASSUME NEW t \in Ticks, NEW n \in Frames, NEW c \in Candle \cup {NoCandle},
           c # NoCandle => c.tok = t.tok /\ c.frame = n
    PROVE  /\ Built(c, t, n) \in Candle
           /\ Built(c, t, n).tok = t.tok /\ Built(c, t, n).frame = n
           /\ c.start <= Built(c, t, n).start
           /\ Closes(c, t) => c.start < Built(c, t, n).start
<1>1. Timeframes[n] \in Nat \ {0}
  BY Framed
<1>2. /\ t.time \in Nat /\ t.ltp \in Nat /\ t.volume \in Nat
      /\ t.tok \in Tokens
  BY DEF Ticks
<1> DEFINE a == Align(t.time, Timeframes[n])
<1>3. a \in Nat /\ t.time < a + Timeframes[n]
  BY <1>1, <1>2, Aligned
<1> HIDE DEF a
<1>4. NewCandle(t, n) \in Candle /\ NewCandle(t, n).start = a
      /\ NewCandle(t, n).tok = t.tok /\ NewCandle(t, n).frame = n
  BY <1>2, <1>3 DEF NewCandle, Candle, a
<1>5. CASE c = NoCandle
  <2>1. Built(c, t, n) = NewCandle(t, n) /\ c.start = -1 /\ ~Closes(c, t)
    BY <1>5 DEF Built, NoCandle, Closes
  <2> QED BY <2>1, <1>3, <1>4
<1>6. CASE c # NoCandle /\ Closes(c, t)
  <2>1. c \in Candle /\ c.start \in Nat /\ c.frame = n
    BY <1>6 DEF Candle
  <2>2. t.time >= c.start + Timeframes[n]
    BY <1>6, <2>1 DEF Closes
  <2>3. c.start < a
    BY <1>1, <1>2, <1>3, <2>1, <2>2
  <2>4. Built(c, t, n) = NewCandle(t, n)
    BY <1>6 DEF Built
  <2> QED BY <1>3, <1>4, <2>1, <2>3, <2>4
<1>7. CASE c # NoCandle /\ ~Closes(c, t)
  <2>1. c \in Candle /\ c.tok = t.tok /\ c.frame = n
    BY <1>7
  <2>2. Built(c, t, n) = Update(c, t)
    BY <1>7 DEF Built
  <2> DEFINE h == Larger(c.high, t.ltp)
             l == Smaller(c.low, t.ltp)
             v == Larger(0, t.volume - c.first)
  <2>3. c.start \in Nat /\ h \in Nat /\ l \in Nat /\ v \in Nat
    BY <1>2, <2>1 DEF Candle, Larger, Smaller
  <2>4. Update(c, t) = [c EXCEPT !.high = h, !.low = l, !.close = t.ltp,
                                 !.volume = v]
    BY DEF Update
  <2> HIDE DEF h, l, v
  <2>5. /\ Update(c, t) \in Candle /\ Update(c, t).start = c.start
        /\ Update(c, t).tok = c.tok /\ Update(c, t).frame = c.frame
    BY <1>2, <2>1, <2>3, <2>4 DEF Candle
  <2> QED BY <1>7, <2>1, <2>2, <2>3, <2>5
<1> QED BY <1>5, <1>6, <1>7

(* The candles that a tick closes: each of a timeframe of its own.         *)
LEMMA ClosedCandles ==
    ASSUME CandleInv, NEW t \in Ticks
    PROVE  /\ Closed(t) \in Seq(Candle)
           /\ \A k \in 1..Len(Closed(t)) :
                 \E n \in Frames : /\ Closes(builder[t.tok][n], t)
                                   /\ Closed(t)[k] = builder[t.tok][n]
                                   /\ Closed(t)[k].tok = t.tok
                                   /\ Closed(t)[k].frame = n
           /\ \A j, k \in 1..Len(Closed(t)) :
                 Closed(t)[j].frame = Closed(t)[k].frame => j = k
<1> DEFINE S == Closing(t)
           Rank(n) == Cardinality({m \in S : m <= n})
           N(k) == CHOOSE n \in S : Rank(n) = k
           K == Cardinality(S)
<1>1. S \subseteq Frames /\ S \subseteq Nat /\ IsFiniteSet(S) /\ K \in Nat
  BY Framed, FS_Subset, FS_CardinalityType DEF Closing
<1>2. \A n \in S : Closes(builder[t.tok][n], t)
  BY DEF Closing
<1>3. Closed(t) = [k \in 1..K |-> builder[t.tok][N(k)]]
  BY DEF Closed
<1> HIDE DEF S, K
<1>4. ASSUME NEW k \in 1..K PROVE N(k) \in S /\ Rank(N(k)) = k
  <2>1. \E n \in S : Rank(n) = k
    BY <1>1, Ranked DEF K
  <2> HIDE DEF Rank
  <2> QED BY <2>1
<1> HIDE DEF Rank, N
<1>5. \A n \in S : /\ builder[t.tok][n] \in Candle
                   /\ builder[t.tok][n].tok = t.tok
                   /\ builder[t.tok][n].frame = n
  <2>1. t.tok \in Tokens
    BY DEF Ticks
  <2>2. \A n \in S : builder[t.tok][n] # NoCandle
    BY <1>2 DEF Closes
  <2> QED BY <1>1, <2>1, <2>2 DEF CandleInv
<1>6. Closed(t) \in Seq(Candle) /\ Len(Closed(t)) = K
  <2>1. \A k \in 1..K : builder[t.tok][N(k)] \in Candle
    BY <1>4, <1>5
  <2>2. Closed(t) \in [1..K -> Candle]
    BY <1>3, <2>1
  <2> QED BY <1>1, <2>2
<1>7. \A k \in 1..K : Closed(t)[k] = builder[t.tok][N(k)]
  BY <1>3
<1>8. ASSUME NEW j \in 1..K, NEW k \in 1..K,
             Closed(t)[j].frame = Closed(t)[k].frame
      PROVE  j = k
  <2>1. N(j) = N(k)
    BY <1>4, <1>5, <1>7, <1>8
  <2> QED BY <1>4, <2>1
<1>9. ASSUME NEW k \in 1..K
      PROVE  \E n \in Frames : /\ Closes(builder[t.tok][n], t)
                               /\ Closed(t)[k] = builder[t.tok][n]
                               /\ Closed(t)[k].tok = t.tok
                               /\ Closed(t)[k].frame = n
  <2>1. N(k) \in Frames /\ N(k) \in S
    BY <1>1, <1>4
  <2> QED BY <1>2, <1>5, <1>7, <2>1
<1> QED BY <1>6, <1>8, <1>9

(* Trimming the history keeps the end of it.                               *)
LEMMA NewestEnd ==
    ASSUME NEW E, NEW s \in Seq(E)
    PROVE  /\ Newest(s) \in Seq(E) /\ Len(Newest(s)) <= MaxCandles
           /\ \E d \in Nat : /\ Len(Newest(s)) + d = Len(s)
                             /\ \A k \in 1..Len(Newest(s)) : Newest(s)[k] = s[k + d]
<1> DEFINE a == Larger(1, Len(s) - MaxCandles + 1)
<1>1. MaxCandles \in Nat /\ MaxCandles >= 1 /\ Len(s) \in Nat
  BY CandlesAssumption
<1>2. a \in Nat /\ a >= 1 /\ a <= Len(s) + 1 /\ Len(s) - a + 1 <= MaxCandles
  BY <1>1 DEF Larger
<1>3. Newest(s) = SubSeq(s, a, Len(s))
  BY DEF Newest
<1> HIDE DEF a
<1>4. /\ Newest(s) \in Seq(E) /\ Len(Newest(s)) = Len(s) - a + 1
      /\ \A k \in 1..Len(s) - a + 1 : Newest(s)[k] = s[a + k - 1]
  BY <1>1, <1>2, <1>3, SubSeqProperties
<1>5. a - 1 \in Nat /\ Len(Newest(s)) + (a - 1) = Len(s)
  BY <1>1, <1>2, <1>4
<1>6. \A k \in 1..Len(Newest(s)) : Newest(s)[k] = s[k + (a - 1)]
  BY <1>1, <1>2, <1>4
<1> QED BY <1>1, <1>2, <1>4, <1>5, <1>6

(* Every candle of a history is before the one being built of its          *)
(* instrument and timeframe, and before those behind it.                   *)
Closer(s, b) ==
    \A j \in 1..Len(s) :
        /\ s[j].start < b[s[j].tok][s[j].frame].start
        /\ \A k \in j + 1..Len(s) :
               s[k].tok = s[j].tok /\ s[k].frame = s[j].frame
                   => s[j].start < s[k].start

(* A tick keeps the candles typed and in the order of their closing.       *)
LEMMA CandleStep ==
    ASSUME CandleInv, NEW t \in Ticks, AddTick(t)
    PROVE  CandleInv'
<1> DEFINE cc == completed \o Closed(t)
           L == Len(completed)
           K == Len(Closed(t))
<1>0. t.tok \in Tokens
  BY DEF Ticks
<1>1. /\ builder \in [Tokens -> [Frames -> Candle \cup {NoCandle}]]
      /\ completed \in Seq(Candle) /\ L \in Nat
      /\ Closer(completed, builder)
      /\ \A tok \in Tokens, n \in Frames :
           builder[tok][n] # NoCandle =>
               builder[tok][n].tok = tok /\ builder[tok][n].frame = n
  BY DEF CandleInv, ClosedInOrder, Closer
<1>2. /\ Closed(t) \in Seq(Candle) /\ K \in Nat
      /\ \A k \in 1..K :
            \E n \in Frames : /\ Closes(builder[t.tok][n], t)
                              /\ Closed(t)[k] = builder[t.tok][n]
                              /\ Closed(t)[k].tok = t.tok
                              /\ Closed(t)[k].frame = n
      /\ \A j, k \in 1..K :
            Closed(t)[j].frame = Closed(t)[k].frame => j = k
  BY ClosedCandles
<1>3. /\ builder' = [builder EXCEPT ![t.tok] =
                        [n \in Frames |-> Built(builder[t.tok][n], t, n)]]
      /\ completed' = Newest(cc)
  BY DEF AddTick
<1>4. \A tok \in Tokens, n \in Frames :
          builder[tok][n] \in Candle \cup {NoCandle}
  BY <1>1
<1>5. ASSUME NEW n \in Frames
      PROVE  /\ Built(builder[t.tok][n], t, n) \in Candle
             /\ Built(builder[t.tok][n], t, n).tok = t.tok
             /\ Built(builder[t.tok][n], t, n).frame = n
             /\ builder[t.tok][n].start <= Built(builder[t.tok][n], t, n).start
             /\ Closes(builder[t.tok][n], t) =>
                  builder[t.tok][n].start < Built(builder[t.tok][n], t, n).start
  <2>1. builder[t.tok][n] \in Candle \cup {NoCandle}
    BY <1>0, <1>4
  <2>2. builder[t.tok][n] # NoCandle =>
            builder[t.tok][n].tok = t.tok /\ builder[t.tok][n].frame = n
    BY <1>0, <1>1
  <2> QED BY <2>1, <2>2, BuiltCandle
<1>6. builder' \in [Tokens -> [Frames -> Candle \cup {NoCandle}]]
  BY <1>1, <1>3, <1>5
<1>7. \A tok \in Tokens, n \in Frames :
          builder'[tok][n] = IF tok = t.tok THEN Built(builder[tok][n], t, n)
                             ELSE builder[tok][n]
  BY <1>0, <1>1, <1>3
<1>8. \A tok \in Tokens, n \in Frames :
          builder'[tok][n] # NoCandle =>
              builder'[tok][n].tok = tok /\ builder'[tok][n].frame = n
  BY <1>1, <1>5, <1>7
<1>9. \A tok \in Tokens, n \in Frames :
          /\ builder[tok][n].start \in Int /\ builder'[tok][n].start \in Int
          /\ builder[tok][n].start <= builder'[tok][n].start
  <2>1. \A c \in Candle \cup {NoCandle} : c.start \in Int
    BY DEF Candle, NoCandle
  <2>2. ASSUME NEW tok \in Tokens, NEW n \in Frames
        PROVE  builder[tok][n].start <= builder'[tok][n].start
    <3>1. builder[tok][n].start \in Int
      BY <1>4, <2>1
    <3> QED BY <1>5, <1>7, <3>1
  <2>3. \A tok \in Tokens, n \in Frames :
            builder'[tok][n] \in Candle \cup {NoCandle}
    BY <1>6
  <2> QED BY <1>4, <2>1, <2>2, <2>3
<1>10. /\ cc \in Seq(Candle) /\ Len(cc) = L + K
       /\ \A k \in 1..L : cc[k] = completed[k]
       /\ \A k \in 1..K : cc[L + k] = Closed(t)[k]
  BY <1>1, <1>2, Grows
<1> HIDE DEF cc, L, K
<1>11. \A k \in 1..Len(cc) : /\ cc[k].tok \in Tokens /\ cc[k].frame \in Frames
                             /\ cc[k].start \in Nat
  <2>1. \A k \in 1..Len(cc) : cc[k] \in Candle
    BY <1>10
  <2> QED BY <2>1 DEF Candle
<1>12. ASSUME NEW k \in 1..Len(cc), k > L
       PROVE  /\ k - L \in 1..K /\ cc[k] = Closed(t)[k - L]
              /\ cc[k] = builder[cc[k].tok][cc[k].frame]
              /\ cc[k].tok = t.tok
              /\ cc[k].start < builder'[cc[k].tok][cc[k].frame].start
  <2>1. k - L \in 1..K /\ k = L + (k - L)
    BY <1>1, <1>2, <1>10, <1>12
  <2>2. cc[k] = Closed(t)[k - L]
    BY <1>10, <2>1
  <2>3. PICK n \in Frames : /\ Closes(builder[t.tok][n], t)
                            /\ cc[k] = builder[t.tok][n]
                            /\ cc[k].tok = t.tok
                            /\ cc[k].frame = n
    BY <1>2, <2>1, <2>2
  <2>4. builder'[t.tok][n] = Built(builder[t.tok][n], t, n)
    BY <1>0, <1>7
  <2> QED BY <1>5, <2>1, <2>2, <2>3, <2>4
<1>13. ASSUME NEW j \in 1..Len(cc)
       PROVE  cc[j].start < builder'[cc[j].tok][cc[j].frame].start
  <2>1. CASE j <= L
    <3>1. j \in 1..L /\ cc[j] = completed[j]
      BY <1>1, <1>10, <2>1
    <3>2. cc[j].start < builder[cc[j].tok][cc[j].frame].start
      BY <1>1, <3>1 DEF Closer, L
    <3> QED BY <1>9, <1>11, <3>2
  <2>2. CASE j > L
    BY <1>12, <2>2
  <2> QED BY <1>1, <1>10, <2>1, <2>2
<1>14. ASSUME NEW j \in 1..Len(cc), NEW k \in j + 1..Len(cc),
              cc[k].tok = cc[j].tok, cc[k].frame = cc[j].frame
       PROVE  cc[j].start < cc[k].start
  <2>0. k \in 1..Len(cc) /\ j < k
    BY <1>10
  <2>1. CASE k <= L
    <3>1. /\ j \in 1..L /\ k \in j + 1..L
          /\ cc[j] = completed[j] /\ cc[k] = completed[k]
      BY <1>1, <1>10, <2>0, <2>1
    <3> QED BY <1>1, <1>14, <3>1 DEF Closer, L
  <2>2. CASE j <= L /\ k > L
    <3>1. j \in 1..L /\ cc[j] = completed[j]
      BY <1>1, <1>10, <2>2
    <3>2. cc[j].start < builder[cc[j].tok][cc[j].frame].start
      BY <1>1, <3>1 DEF Closer, L
    <3>3. cc[k] = builder[cc[k].tok][cc[k].frame]
      BY <1>12, <2>0, <2>2
    <3> QED BY <1>14, <3>2, <3>3
  <2>3. CASE j > L
    <3>1. /\ j - L \in 1..K /\ cc[j] = Closed(t)[j - L]
      BY <1>12, <2>3
    <3>2. k > L
      BY <1>1, <2>0, <2>3
    <3>3. /\ k - L \in 1..K /\ cc[k] = Closed(t)[k - L]
      BY <1>12, <2>0, <3>2
    <3>4. j - L = k - L
      BY <1>2, <1>14, <3>1, <3>3
    <3> QED BY <1>1, <2>0, <3>4
  <2> QED BY <1>1, <1>10, <2>0, <2>1, <2>2, <2>3
<1>15. /\ completed' \in Seq(Candle) /\ Len(completed') <= MaxCandles
       /\ \E d \in Nat : /\ Len(completed') + d = Len(cc)
                         /\ \A k \in 1..Len(completed') : completed'[k] = cc[k + d]
  <2>1. /\ Newest(cc) \in Seq(Candle) /\ Len(Newest(cc)) <= MaxCandles
        /\ \E d \in Nat : /\ Len(Newest(cc)) + d = Len(cc)
                          /\ \A k \in 1..Len(Newest(cc)) :
                                 Newest(cc)[k] = cc[k + d]
    BY <1>10, NewestEnd, Zenon
  <2> QED BY <1>3, <2>1, Zenon
<1>16. PICK d \in Nat : /\ Len(completed') + d = Len(cc)
                        /\ \A k \in 1..Len(completed') : completed'[k] = cc[k + d]
  BY <1>15
<1>17. ASSUME NEW j \in 1..Len(completed')
       PROVE  /\ completed'[j].start <
                   builder'[completed'[j].tok][completed'[j].frame].start
              /\ \A k \in j + 1..Len(completed') :
                   completed'[k].tok = completed'[j].tok
                   /\ completed'[k].frame = completed'[j].frame
                       => completed'[j].start < completed'[k].start
  <2>1. Len(completed') \in Nat /\ Len(cc) \in Nat
    BY <1>10, <1>15
  <2>2. j + d \in 1..Len(cc) /\ completed'[j] = cc[j + d]
    BY <1>16, <2>1
  <2>3. ASSUME NEW k \in j + 1..Len(completed')
        PROVE  k + d \in (j + d) + 1..Len(cc) /\ completed'[k] = cc[k + d]
    BY <1>16, <2>1
  <2> QED BY <1>13, <1>14, <2>2, <2>3
<1>18. Closer(completed', builder')
  BY <1>17 DEF Closer
<1>19. DOMAIN completed' = 1..Len(completed')
  BY <1>15
<1>20. ClosedInOrder'
  BY <1>18, <1>19 DEF ClosedInOrder, Closer
<1> QED BY <1>6, <1>8, <1>15, <1>20 DEF CandleInv
-----------------------------------------------------------------------------
(* The kinds of event are told apart by their type.                        *)
LEMMA Kinds ==
    /\ Ticks \subseteq Events
    /\ \A e \in Events \cup {Sentinel} : IsTick(e) => e \in Ticks
    /\ \A e \in Events : e # Sentinel
    /\ \A e \in Ticks : IsTick(e) /\ e.volume \in Nat /\ e.type = "tick"
    /\ ~IsTick(Sentinel)
BY DEF Ticks, Events, Sentinel, IsTick

(* The ticks counted in a sequence that grows are not fewer.               *)
Counted(s) == Cardinality({k \in DOMAIN s : s[k].type = "tick"})
(* A history that grows counts no fewer ticks.                             *)
LEMMA CountedGrows ==
    ASSUME NEW E, NEW s \in Seq(E), NEW x \in Seq(E)
    PROVE  Counted(s) \in Nat /\ Counted(s) <= Counted(s \o x)
<1> DEFINE A == {k \in DOMAIN s : s[k].type = "tick"}
           B == {k \in DOMAIN (s \o x) : (s \o x)[k].type = "tick"}
<1>1. /\ DOMAIN s = 1..Len(s) /\ DOMAIN (s \o x) = 1..(Len(s) + Len(x))
      /\ Len(s) \in Nat /\ Len(x) \in Nat
      /\ \A n \in 1..Len(s) : (s \o x)[n] = s[n]
  BY Grows
<1>2. A \subseteq B /\ B \subseteq 1..(Len(s) + Len(x))
  BY <1>1
<1>3. IsFiniteSet(B)
  <2>1. IsFiniteSet(1..(Len(s) + Len(x)))
    BY <1>1, FS_Interval
  <2> HIDE DEF B
  <2> QED BY <1>2, <2>1, FS_Subset
<1> HIDE DEF A, B
<1>4. IsFiniteSet(A) /\ Cardinality(A) <= Cardinality(B)
  BY <1>2, <1>3, FS_Subset
<1>5. Cardinality(A) \in Nat
  BY <1>4, FS_CardinalityType
<1> QED BY <1>4, <1>5 DEF Counted, A, B

(* Taking an ascending queue's head leaves one that ascends, and no tick   *)
(* left has less volume than the head.                                     *)
LEMMA QueueTail ==
    ASSUME NEW b, NEW q, Ascends(q, b), q # <<>>
    PROVE  /\ Ascends(Tail(q), b)
           /\ \A v : Before(v, q) => Before(v, Tail(q))
           /\ Head(q) \in Events \cup {Sentinel}
           /\ IsTick(Head(q)) => /\ Head(q).volume <= b
                                 /\ Before(Head(q).volume, Tail(q))
                                 /\ \A v : Before(v, q) => v <= Head(q).volume
<1> DEFINE r == Tail(q)
           E == Events \cup {Sentinel}
<1>1. /\ q \in Seq(E) /\ Rising(q)
      /\ \A n \in 1..Len(q) : IsTick(q[n]) => q[n].volume <= b
  BY DEF Ascends
<1> HIDE DEF E
<1>2. /\ r \in Seq(E) /\ Len(q) \in Nat /\ Len(q) >= 1 /\ Len(r) = Len(q) - 1
      /\ \A n \in 1..Len(r) : r[n] = q[n + 1] /\ n + 1 \in 1..Len(q)
      /\ Head(q) = q[1] /\ 1 \in 1..Len(q) /\ Head(q) \in E
  BY <1>1
<1> HIDE DEF r
<1>3. Rising(r)
  BY <1>1, <1>2 DEF Rising
<1>4. Ascends(r, b)
  BY <1>1, <1>2, <1>3 DEF Ascends, E
<1>5. \A v : Before(v, q) => Before(v, r)
  BY <1>2 DEF Before
<1>6. IsTick(Head(q)) => Before(Head(q).volume, r)
  BY <1>1, <1>2 DEF Before, Rising
<1>7. IsTick(Head(q)) => \A v : Before(v, q) => v <= Head(q).volume
  BY <1>2 DEF Before
<1> QED BY <1>1, <1>2, <1>4, <1>5, <1>6, <1>7 DEF r, E

(* Events that are no ticks disturb nothing.                               *)
LEMMA QueueMore ==
    ASSUME NEW b, NEW q, Ascends(q, b),
           NEW x \in Seq(Events \cup {Sentinel}),
           \A n \in 1..Len(x) : ~IsTick(x[n])
    PROVE  /\ Ascends(q \o x, b)
           /\ \A v : Before(v, q) => Before(v, q \o x)
<1> DEFINE r == q \o x
           E == Events \cup {Sentinel}
<1>1. /\ q \in Seq(E) /\ Rising(q)
      /\ \A n \in 1..Len(q) : IsTick(q[n]) => q[n].volume <= b
  BY DEF Ascends
<1>2. x \in Seq(E)
  OBVIOUS
<1> HIDE DEF E
<1>3. /\ r \in Seq(E) /\ Len(q) \in Nat /\ Len(x) \in Nat
      /\ Len(r) = Len(q) + Len(x)
      /\ \A n \in 1..Len(q) : r[n] = q[n]
      /\ \A n \in 1..Len(x) : r[Len(q) + n] = x[n]
  BY <1>1, <1>2, Grows
<1> HIDE DEF r
<1>4. ASSUME NEW n \in 1..Len(r), IsTick(r[n])
      PROVE  n \in 1..Len(q) /\ r[n] = q[n]
  <2>1. CASE n > Len(q)
    <3>1. n - Len(q) \in 1..Len(x) /\ n = Len(q) + (n - Len(q))
      BY <1>3, <2>1
    <3> QED BY <1>3, <1>4, <3>1
  <2> QED BY <1>3, <2>1
<1>5. Rising(r)
  BY <1>1, <1>4 DEF Rising
<1>6. Ascends(r, b)
  BY <1>1, <1>3, <1>4, <1>5 DEF Ascends, E
<1>7. \A v : Before(v, q) => Before(v, r)
  BY <1>4 DEF Before
<1> QED BY <1>6, <1>7 DEF r

(* A tick with a volume up to which the queue ascends may be queued.       *)
LEMMA QueueTick ==
    ASSUME NEW b \in Nat, NEW c \in Nat, b <= c, NEW q, Ascends(q, b),
           NEW e \in Ticks, e.volume = b
    PROVE  /\ Ascends(q \o <<e>>, c)
           /\ \A v : v <= b /\ Before(v, q) => Before(v, q \o <<e>>)
<1> DEFINE r == q \o <<e>>
           E == Events \cup {Sentinel}
<1>1. /\ q \in Seq(E) /\ Rising(q)
      /\ \A n \in 1..Len(q) : IsTick(q[n]) => q[n].volume <= b
  BY DEF Ascends
<1>2. /\ e \in E /\ \A d \in E : IsTick(d) => d.volume \in Nat
  BY Kinds
<1> HIDE DEF E
<1>3. /\ r \in Seq(E) /\ Len(q) \in Nat /\ Len(r) = Len(q) + 1
      /\ \A n \in 1..Len(q) : r[n] = q[n] /\ q[n] \in E
      /\ r[Len(q) + 1] = e
  BY <1>1, <1>2
<1> HIDE DEF r
<1>4. \A n \in 1..Len(r) : n = Len(q) + 1 \/ n \in 1..Len(q)
  BY <1>3
<1>5. ASSUME NEW m \in 1..Len(r), NEW n \in 1..Len(r), m <= n,
             IsTick(r[m]), IsTick(r[n])
      PROVE  r[m].volume <= r[n].volume
  <2>1. CASE n \in 1..Len(q)
    <3>1. m \in 1..Len(q)
      BY <1>3, <1>5, <2>1
    <3> QED BY <1>1, <1>3, <1>5, <2>1, <3>1 DEF Rising
  <2>2. CASE n = Len(q) + 1 /\ m \in 1..Len(q)
    BY <1>1, <1>3, <1>5, <2>2
  <2>3. CASE n = Len(q) + 1 /\ m = Len(q) + 1
    BY <1>3, <2>3
  <2> QED BY <1>4, <2>1, <2>2, <2>3
<1>6. ASSUME NEW n \in 1..Len(r), IsTick(r[n]) PROVE r[n].volume <= c
  <2>1. CASE n \in 1..Len(q)
    <3>1. q[n].volume <= b /\ q[n].volume \in Nat /\ r[n] = q[n]
      BY <1>1, <1>2, <1>3, <1>6, <2>1
    <3> QED BY <3>1
  <2> QED BY <1>3, <1>4, <2>1
<1>7. Ascends(r, c)
  BY <1>3, <1>5, <1>6 DEF Ascends, Rising, E
<1>8. \A v : v <= b /\ Before(v, q) => Before(v, r)
  BY <1>3, <1>4 DEF Before
<1> QED BY <1>7, <1>8 DEF r

(* What the database has after an insert: the tick that came first.        *)
LEMMA Inserted ==
    ASSUME NEW table, NEW s, s \in Seq(Ticks), table \subseteq Ticks
    PROVE  /\ Insert(table, s) \subseteq Ticks /\ table \subseteq Insert(table, s)
           /\ Insert(table, s) \subseteq table \cup Range(s)
           /\ Rising(s) /\ (\A r \in table : First(r, s)) =>
                 /\ \A r \in Insert(table, s) : First(r, s)
                 /\ \A t \in Range(s) :
                       \E r \in Insert(table, s) :
                           Key(r) = Key(t) /\ r.volume <= t.volume
<1> DEFINE Fresh(k) == /\ \A r \in table : Key(r) # Key(s[k])
                       /\ \A j \in 1..k - 1 : Key(s[j]) # Key(s[k])
           new == Insert(table, s)
<1>1. DOMAIN s = 1..Len(s) /\ Len(s) \in Nat /\ \A k \in 1..Len(s) : s[k] \in Ticks
  OBVIOUS
<1>2. new = table \cup {s[k] : k \in {k \in 1..Len(s) : Fresh(k)}}
  BY <1>1 DEF Insert
<1> HIDE DEF new
<1>3. new \subseteq Ticks /\ table \subseteq new /\ new \subseteq table \cup Range(s)
  BY <1>1, <1>2 DEF Range
<1>4. ASSUME Rising(s), \A r \in table : First(r, s)
      PROVE  /\ \A r \in new : First(r, s)
             /\ \A t \in Range(s) : \E r \in new :
                    Key(r) = Key(t) /\ r.volume <= t.volume
  <2>1. \A k \in 1..Len(s) : IsTick(s[k]) /\ s[k].volume \in Nat
    BY <1>1, Kinds
  <2>2. \A m, n \in 1..Len(s) : m <= n => s[m].volume <= s[n].volume
    BY <1>4, <2>1 DEF Rising
  <2>3. ASSUME NEW k \in 1..Len(s), Fresh(k)
        PROVE  First(s[k], s)
    <3>1. ASSUME NEW n \in 1..Len(s), Key(s[k]) = Key(s[n])
          PROVE  s[k].volume <= s[n].volume
      <4>1. ~(n < k)
        <5>1. n < k => n \in 1..k - 1
          OBVIOUS
        <5> QED BY <2>3, <3>1, <5>1
      <4> QED BY <1>1, <2>2, <4>1
    <3> QED BY <3>1 DEF First
  <2>4. \A r \in new : First(r, s)
    BY <1>2, <1>4, <2>3
  <2>5. ASSUME NEW n \in 1..Len(s)
        PROVE  \E r \in new : Key(r) = Key(s[n]) /\ r.volume <= s[n].volume
    <3>1. CASE \E r \in table : Key(r) = Key(s[n])
      <4>1. PICK r \in table : Key(r) = Key(s[n])
        BY <3>1
      <4>2. r.volume <= s[n].volume
        BY <1>4, <4>1 DEF First
      <4> QED BY <1>3, <4>1, <4>2
    <3>2. CASE \A r \in table : Key(r) # Key(s[n])
      <4> DEFINE S == {k \in 1..Len(s) : Key(s[k]) = Key(s[n])}
      <4>1. S \subseteq Nat /\ n \in S
        BY <1>1
      <4>2. PICK k \in S : \A j \in S : k <= j
        BY <4>1, Least
      <4>3. k \in 1..Len(s) /\ Key(s[k]) = Key(s[n])
        BY <4>2
      <4>4. ASSUME NEW j \in 1..k - 1 PROVE Key(s[j]) # Key(s[k])
        <5>1. j \in 1..Len(s) /\ ~(k <= j)
          BY <1>1, <4>3
        <5> QED BY <4>2, <4>3, <5>1
      <4>5. Fresh(k)
        BY <3>2, <4>3, <4>4
      <4>6. s[k] \in new
        BY <1>2, <4>3, <4>5
      <4> QED BY <2>3, <4>3, <4>5, <4>6 DEF First
    <3> QED BY <3>1, <3>2
  <2> QED BY <1>1, <2>4, <2>5 DEF Range
<1> QED BY <1>3, <1>4 DEF new
-----------------------------------------------------------------------------
(* An insert of keys the table has changes nothing.                        *)
LEMMA Known ==
    ASSUME NEW table, NEW s,
           \A t \in Range(s) : \E r \in table : Key(r) = Key(t)
    PROVE  Insert(table, s) = table
BY DEF Insert, Range

(* What is left of a buffer once its beginning is cut off.                 *)
LEMMA CutLeaves ==
    ASSUME NEW b \in Seq(Ticks), NEW n \in Nat
    PROVE  /\ Cut(b, n) \in Seq(Ticks) /\ Len(Cut(b, n)) <= Len(b)
           /\ Len(b) <= n => Cut(b, n) = <<>>
           /\ Range(Cut(b, n)) \subseteq Range(b)
           /\ Rising(b) => Rising(Cut(b, n))
           /\ \A r : First(r, b) => First(r, Cut(b, n))
           /\ \A t \in Range(b) : \/ t \in Range(Cut(b, n))
                                  \/ \E k \in 1..Len(b) : k <= n /\ t = b[k]
<1> DEFINE c == Cut(b, n)
<1>1. Len(b) \in Nat /\ DOMAIN b = 1..Len(b) /\ \A k \in 1..Len(b) : b[k] \in Ticks
  OBVIOUS
<1>2. /\ c \in Seq(Ticks)
      /\ Len(c) = IF n + 1 <= Len(b) THEN Len(b) - (n + 1) + 1 ELSE 0
      /\ \A k \in 1..Len(b) - (n + 1) + 1 : c[k] = b[(n + 1) + k - 1]
  <2>1. n + 1 \in Int /\ Len(b) \in Int /\ \A k \in n + 1..Len(b) : b[k] \in Ticks
    BY <1>1
  <2> QED BY <2>1, SubSeqProperties DEF Cut
<1>3. Len(b) <= n => c = <<>>
  <2>1. n + 1 \in Int /\ Len(b) \in Int /\ (Len(b) <= n => Len(b) < n + 1)
    BY <1>1
  <2> QED BY <2>1, SubSeqEmpty DEF Cut
<1> HIDE DEF c
<1>4. /\ Len(c) \in Nat /\ Len(c) <= Len(b) /\ DOMAIN c = 1..Len(c)
      /\ \A k \in 1..Len(c) : n + k \in 1..Len(b) /\ c[k] = b[n + k]
      /\ \A k \in 1..Len(b) : k <= n \/ (k - n \in 1..Len(c) /\ c[k - n] = b[k])
  <2>1. Len(c) \in Nat /\ Len(c) <= Len(b) /\ DOMAIN c = 1..Len(c)
    BY <1>1, <1>2
  <2>2. ASSUME NEW k \in 1..Len(c) PROVE n + k \in 1..Len(b) /\ c[k] = b[n + k]
    <3>1. n + 1 <= Len(b)
      <4>1. ~(n + 1 <= Len(b)) => Len(c) = 0
        BY <1>2
      <4>2. Len(c) # 0
        BY <2>2
      <4> QED BY <4>1, <4>2
    <3>2. Len(c) = Len(b) - (n + 1) + 1
      BY <1>2, <3>1
    <3>3. k \in 1..Len(b) - (n + 1) + 1
      BY <2>2, <3>2
    <3>4. c[k] = b[(n + 1) + k - 1]
      BY <1>2, <3>3
    <3>5. (n + 1) + k - 1 = n + k /\ n + k \in 1..Len(b)
      BY <1>1, <3>3
    <3> QED BY <3>4, <3>5
  <2>3. ASSUME NEW k \in 1..Len(b), ~(k <= n)
        PROVE  k - n \in 1..Len(c) /\ c[k - n] = b[k]
    <3>1. k - n \in 1..Len(b) - (n + 1) + 1 /\ (n + 1) + (k - n) - 1 = k
          /\ n + 1 <= Len(b)
      BY <1>1, <2>3
    <3> QED BY <1>1, <1>2, <3>1
  <2> QED BY <2>1, <2>2, <2>3
<1>5. Range(c) \subseteq Range(b)
  BY <1>1, <1>4 DEF Range
<1>6. ASSUME Rising(b) PROVE Rising(c)
  <2>1. ASSUME NEW k \in 1..Len(c), NEW m \in 1..Len(c), k <= m,
               IsTick(c[k]), IsTick(c[m])
        PROVE  c[k].volume <= c[m].volume
    <3>1. n + k \in 1..Len(b) /\ n + m \in 1..Len(b) /\ n + k <= n + m
          /\ c[k] = b[n + k] /\ c[m] = b[n + m]
      BY <1>4, <2>1
    <3> QED BY <1>6, <2>1, <3>1 DEF Rising
  <2> QED BY <2>1 DEF Rising
<1>7. \A r : First(r, b) => First(r, c)
  BY <1>4 DEF First
<1>8. \A t \in Range(b) : \/ t \in Range(c)
                          \/ \E k \in 1..Len(b) : k <= n /\ t = b[k]
  BY <1>1, <1>4 DEF Range
<1> QED BY <1>2, <1>3, <1>4, <1>5, <1>6, <1>7, <1>8 DEF c

(* The insert of a buffer's beginning.                                     *)
LEMMA InsertedBeginning ==
    ASSUME NEW table, table \subseteq Ticks,
           NEW b \in Seq(Ticks), NEW s \in Seq(Ticks),
           Leads(s, b), Rising(b), \A r \in table : First(r, b)
    PROVE  /\ Range(s) \subseteq Range(b)
           /\ \A r \in Insert(table, s) : First(r, b)
           /\ \A t \in Range(s) : \E r \in Insert(table, s) :
                  Key(r) = Key(t) /\ r.volume <= t.volume
<1>1. /\ Len(s) \in Nat /\ Len(b) \in Nat /\ Len(s) <= Len(b)
      /\ DOMAIN s = 1..Len(s) /\ DOMAIN b = 1..Len(b)
      /\ \A n \in 1..Len(s) : n \in 1..Len(b) /\ b[n] = s[n]
      /\ \A n \in 1..Len(b) : b[n] \in Ticks
  BY DEF Leads
<1>2. Rising(s)
  BY <1>1 DEF Rising
<1>3. \A r \in table : First(r, s)
  BY <1>1 DEF First
<1>4. Range(s) \subseteq Range(b)
  BY <1>1 DEF Range
<1> DEFINE new == Insert(table, s)
<1>5. /\ new \subseteq table \cup Range(s)
      /\ \A r \in new : First(r, s)
      /\ \A t \in Range(s) : \E r \in new :
             Key(r) = Key(t) /\ r.volume <= t.volume
  BY <1>2, <1>3, Inserted
<1> HIDE DEF new
<1>6. ASSUME NEW k \in 1..Len(s), s[k] \in new PROVE First(s[k], b)
  <2>1. ASSUME NEW n \in 1..Len(b), Key(s[k]) = Key(b[n])
        PROVE  s[k].volume <= b[n].volume
    <3>1. CASE n \in 1..Len(s)
      BY <1>1, <1>5, <1>6, <2>1, <3>1 DEF First
    <3>2. CASE ~(n \in 1..Len(s))
      <4>1. k \in 1..Len(b) /\ k <= n /\ s[k] = b[k]
        BY <1>1, <3>2
      <4>2. IsTick(b[k]) /\ IsTick(b[n])
        BY <1>1, <4>1, Kinds
      <4> QED BY <4>1, <4>2 DEF Rising
    <3> QED BY <3>1, <3>2
  <2> QED BY <2>1 DEF First
<1>7. \A r \in new : First(r, b)
  BY <1>1, <1>5, <1>6 DEF Range
<1> QED BY <1>4, <1>5, <1>7 DEF new

(* What is lost is finite.                                                 *)
LEMMA LostFinite ==
    ASSUME NEW s \in Seq(Events)
    PROVE  \A S : S \subseteq Range(s) => IsFiniteSet(S) /\ Cardinality(S) \in Nat
<1>1. Len(s) \in Nat /\ DOMAIN s = 1..Len(s) /\ s \in [1..Len(s) -> Range(s)]
  BY DEF Range
<1>2. s \in Surjection(1..Len(s), Range(s))
  BY <1>1 DEF Surjection, Range
<1>3. IsFiniteSet(1..Len(s))
  BY <1>1, FS_Interval
<1>4. IsFiniteSet(Range(s))
  BY <1>2, <1>3, FS_Surjection
<1> QED BY <1>4, FS_Subset, FS_CardinalityType

(* At most n ticks are among the first n.                                  *)
LEMMA FewAhead ==
    ASSUME NEW b \in Seq(Ticks), NEW n \in Nat, NEW S,
           \A t \in S : \E k \in 1..Len(b) : k <= n /\ t = b[k]
    PROVE  Cardinality(S) <= n
<1> DEFINE K == {k \in 1..Len(b) : k <= n}
           T == {b[k] : k \in K}
           f == [k \in K |-> b[k]]
<1>1. Len(b) \in Nat
  OBVIOUS
<1>2. K \in SUBSET (1..n)
  BY <1>1
<1>3. IsFiniteSet(1..n) /\ Cardinality(1..n) = n
  BY FS_Interval
<1>4. IsFiniteSet(K) /\ Cardinality(K) <= n /\ Cardinality(K) \in Nat
  BY <1>2, <1>3, FS_Subset, FS_CardinalityType
<1>5. f \in Surjection(K, T)
  BY DEF Surjection
<1>6. S \in SUBSET T
  OBVIOUS
<1> HIDE DEF f, T, K
<1>7. IsFiniteSet(T) /\ Cardinality(T) <= Cardinality(K) /\ Cardinality(T) \in Nat
  BY <1>4, <1>5, FS_Surjection, FS_CardinalityType
<1>8. Cardinality(S) <= Cardinality(T) /\ Cardinality(S) \in Nat
  BY <1>6, <1>7, FS_Subset, FS_CardinalityType
<1> QED BY <1>4, <1>7, <1>8

(* Nothing more lost: what was lost is confined as before.                 *)
LEMMA LossKept ==
    ASSUME StreamInv, TicksKept, Lost' \subseteq Lost,
           final.copied \in Nat, final'.copied = final.copied,
           final.phase = "overtaken" => final'.phase = "overtaken",
           final.since \subseteq final'.since
    PROVE  TicksKept'
<1>1. Lost \subseteq Range(given) /\ given \in Seq(Events)
  BY DEF Lost, TicksHandled, StreamInv
<1>2. /\ IsFiniteSet(Lost) /\ Cardinality(Lost) \in Nat
      /\ Lost' \subseteq Range(given)
  BY <1>1, LostFinite
<1>3. Cardinality(Lost') <= Cardinality(Lost) /\ Cardinality(Lost') \in Nat
  BY <1>2, FS_Subset, FS_CardinalityType
<1>4. Cardinality(Lost') <= final'.copied
  BY <1>2, <1>3 DEF TicksKept
<1> QED BY <1>4 DEF TicksKept
-----------------------------------------------------------------------------
(* What is ahead of no tick of the queue, and not above the volume of the  *)
(* day, stays so.                                                          *)
QueueKept == \A v \in Nat : v <= Traded /\ Before(v, queue) =>
                               v <= Traded' /\ Before(v, queue')

(* A step that leaves the store alone keeps what it has and has stored.    *)
LEMMA StoreStays ==
    ASSUME StreamInv, StoreInv, QueueKept, UNCHANGED storeVars,
           TicksHandled' = TicksHandled, Len(buffer) <= Len(given'),
           stage' = stage \/ (Early /\ Early') \/ (Late /\ Late'),
           Saving # <<>> =>
               loop' = "handle" /\ "store" \in busy' /\ IsTick(Current')
    PROVE  StoreInv'
<1>1. /\ UNCHANGED <<buffer, rows, flushing, failures, final>>
      /\ Copied' = Copied /\ Saving' = Saving
  BY DEF storeVars, Copied, Saving
<1>2. /\ Early' <=> Early
      /\ Late' <=> Late
      /\ stage' = "flushing" <=> stage = "flushing"
  BY DEF Early, Late
<1>3. StoreTyped'
  BY <1>1, <1>2 DEF StoreInv, StoreTyped
<1>4. ASSUME NEW t \in Ticks, Behind(t) PROVE Behind(t)'
  <2>1. t.volume \in Nat
    BY Kinds
  <2> QED BY <1>4, <2>1 DEF Behind, QueueKept
<1>5. /\ Range(buffer) \subseteq Ticks /\ Range(Saving) \subseteq Ticks
      /\ rows \subseteq Ticks
  <2>1. buffer \in Seq(Ticks) /\ Saving \in Seq(Ticks) /\ rows \subseteq Ticks
    BY DEF StoreInv, StoreTyped, Saving, Flushers
  <2> QED BY <2>1 DEF Range
<1>6. StoreTimely'
  <2>1. Timely(buffer)' /\ Timely(Saving)'
    BY <1>1, <1>4, <1>5 DEF StoreInv, StoreTimely, Timely
  <2> QED BY <1>1, <1>4, <1>5, <2>1 DEF StoreInv, StoreTimely
<1>7. Lost' = Lost /\ \A t : Stored(t)' = Stored(t)
  BY <1>1 DEF Lost, Stored
<1>8. Whole' = Whole /\ Waits' = Waits /\ Landed' = Landed
  BY <1>1, <1>7 DEF Whole, Waits, Landed, TicksKept
<1>9. StoreKept'
  BY <1>2, <1>8 DEF StoreInv, StoreKept
<1> QED BY <1>3, <1>6, <1>9 DEF StoreInv

(* What was kept stays so when the queue's ticks and the volume of the day *)
(* do not fall behind.                                                     *)
LEMMA PublishKeeps ==
    ASSUME StreamInv, StoreInv, PublishTick
    PROVE  StreamInv' /\ StoreInv' /\ QueueKept
<1> DEFINE e == TickEvent(Head(tape), Traded)
           b == Traded
           c == Traded'
<1>1. /\ tape # <<>> /\ tape' = Tail(tape)
      /\ queue' = queue \o <<e>> /\ sent' = sent \o <<e>>
      /\ UNCHANGED <<loop, busy, given, storeVars, stage>>
  BY DEF PublishTick, Publish, Put
<1>2. b = Counted(sent) /\ c = Counted(sent')
  BY DEF Traded, Counted
<1>3. /\ tape \in Seq([tok : Tokens, time : Nat, ltp : Nat])
      /\ sent \in Seq(Events) /\ given \in Seq(Events) /\ Len(given) <= Len(sent)
      /\ Ascends(queue, b)
  BY DEF StreamInv
<1>4. b \in Nat
  BY <1>2, <1>3, CountedGrows
<1>5. /\ Head(tape) \in [tok : Tokens, time : Nat, ltp : Nat]
      /\ tape' \in Seq([tok : Tokens, time : Nat, ltp : Nat])
  <2> DEFINE T == [tok : Tokens, time : Nat, ltp : Nat]
  <2> HIDE DEF T, e, b, c
  <2>1. tape \in Seq(T) /\ tape # <<>> /\ tape' = Tail(tape)
    BY <1>1, <1>3 DEF T
  <2>2. Head(tape) \in T /\ tape' \in Seq(T)
    BY <2>1
  <2> QED BY <2>2 DEF T
<1>6. e \in Ticks /\ e.volume = b
  BY <1>4, <1>5 DEF TickEvent, Ticks
<1> HIDE DEF e, b, c
<1>7. e \in Events
  BY <1>6, Kinds
<1>8. /\ sent' \in Seq(Events) /\ Len(sent') = Len(sent) + 1
      /\ <<e>> \in Seq(Events)
  BY <1>1, <1>3, <1>7
<1>9. b <= c /\ c \in Nat
  <2>1. b <= Counted(sent \o <<e>>)
    BY <1>2, <1>3, <1>8, CountedGrows
  <2>2. Counted(sent') \in Nat
    BY <1>8, CountedGrows
  <2> QED BY <1>1, <1>2, <2>1, <2>2
<1>10. /\ Ascends(queue', c)
       /\ \A v : v <= b /\ Before(v, queue) => Before(v, queue')
  BY <1>1, <1>3, <1>4, <1>6, <1>9, QueueTick
<1>11. Len(given') <= Len(sent')
  <2>1. Len(given) \in Nat /\ Len(sent) \in Nat
    BY <1>3
  <2> QED BY <1>1, <1>3, <1>8, <2>1
<1>12. StreamInv'
  BY <1>1, <1>3, <1>5, <1>8, <1>10, <1>11 DEF StreamInv, c
<1>13. QueueKept
  <2>1. \A v \in Nat : v <= b => v <= c
    BY <1>4, <1>9
  <2> QED BY <1>10, <2>1 DEF QueueKept, b, c
<1>14. StoreInv'
  <2>1. TicksHandled' = TicksHandled /\ Current' = Current
    BY <1>1 DEF TicksHandled, Current
  <2> QED BY <1>1, <1>13, <2>1, StoreStays DEF StoreInv, StoreTyped
<1> QED BY <1>12, <1>13, <1>14

(* The event taken off the queue, and what becomes of the channel.         *)
LEMMA DispatchKeeps ==
    ASSUME BusInv, StreamInv, NEW x \in Seq(Events),
           \A n \in 1..Len(x) : ~IsTick(x[n]),
           NEW waits, waits \subseteq {"store", "runner"}, Dispatch(x, waits),
           UNCHANGED tape
    PROVE  /\ StreamInv'
           /\ Event \in Events /\ given' = Append(given, Event)
           /\ Current' = Event
           /\ Len(given') = Len(given) + 1 /\ Len(given) \in Nat
           /\ \A n \in 1..Len(given') :
                  \/ n \in 1..Len(given) /\ given'[n] = given[n]
                  \/ given'[n] = Event
           /\ Traded \in Nat /\ Traded' \in Nat /\ Traded <= Traded'
           /\ \A v : Before(v, queue) => Before(v, queue')
           /\ IsTick(Event) => /\ Event.volume <= Traded
                               /\ Before(Event.volume, queue')
                               /\ \A v : Before(v, queue) => v <= Event.volume
<1> DEFINE r == Tail(queue)
           b == Traded
           c == Traded'
<1>1. /\ loop = "get" /\ queue # <<>> /\ Head(queue) # Sentinel
      /\ queue' = r \o x /\ sent' = sent \o x
      /\ given' = Append(given, Head(queue)) /\ busy' = waits
      /\ loop' \in {"get", "over", "handle"}
  BY DEF Dispatch, Resume
<1>2. Event = Head(queue)
  BY <1>1 DEF Event
<1>3. b = Counted(sent) /\ c = Counted(sent')
  BY DEF Traded, Counted
<1>4. /\ tape \in Seq([tok : Tokens, time : Nat, ltp : Nat])
      /\ sent \in Seq(Events) /\ given \in Seq(Events)
      /\ Ascends(queue, b)
  BY DEF StreamInv
<1>5. Len(given) < Len(sent)
  <2>1. PICK E : {queue, given, sent} \subseteq Seq(E)
    BY DEF BusInv
  <2>2. Awaits(queue, given, sent)
    BY <1>1 DEF BusInv
  <2> QED BY <1>1, <2>1, <2>2, AwaitsTail
<1>6. /\ Ascends(r, b)
      /\ \A v : Before(v, queue) => Before(v, r)
      /\ Event \in Events \cup {Sentinel}
      /\ IsTick(Event) => /\ Event.volume <= b
                          /\ Before(Event.volume, r)
                          /\ \A v : Before(v, queue) => v <= Event.volume
  BY <1>1, <1>2, <1>4, QueueTail
<1>7. Event \in Events
  BY <1>1, <1>2, <1>6
<1> HIDE DEF r, b, c
<1>8. /\ b \in Nat /\ c \in Nat /\ b <= c /\ sent' \in Seq(Events)
      /\ Len(sent') = Len(sent) + Len(x)
      /\ {Len(x), Len(sent), Len(given)} \subseteq Nat
  <2>1. sent' \in Seq(Events) /\ Len(sent') = Len(sent) + Len(x)
    BY <1>1, <1>4
  <2>2. Counted(sent) \in Nat /\ Counted(sent) <= Counted(sent \o x)
    BY <1>4, CountedGrows
  <2>3. Counted(sent') \in Nat
    BY <2>1, CountedGrows
  <2>4. {Len(x), Len(sent), Len(given)} \subseteq Nat
    BY <1>4
  <2> QED BY <1>1, <1>3, <2>1, <2>2, <2>3, <2>4
<1>9. x \in Seq(Events \cup {Sentinel})
  OBVIOUS
<1>10. /\ Ascends(queue', b)
       /\ \A v : Before(v, r) => Before(v, queue')
  BY <1>1, <1>6, <1>9, QueueMore
<1>11. Ascends(queue', c)
  <2>1. queue' \in Seq(Events \cup {Sentinel}) /\ Rising(queue')
    BY <1>10 DEF Ascends
  <2>2. ASSUME NEW n \in 1..Len(queue'), IsTick(queue'[n])
        PROVE  queue'[n].volume <= c
    <3>1. queue'[n] \in Ticks
      BY <2>1, <2>2, Kinds
    <3>2. queue'[n].volume \in Nat /\ queue'[n].volume <= b
      BY <1>10, <2>2, <3>1, Kinds DEF Ascends
    <3> QED BY <1>8, <3>2
  <2> QED BY <2>1, <2>2 DEF Ascends
<1>12. /\ given' \in Seq(Events) /\ Len(given') = Len(given) + 1
       /\ given'[Len(given) + 1] = Event
       /\ \A n \in 1..Len(given) : given'[n] = given[n]
  BY <1>1, <1>2, <1>4, <1>7
<1>13. Len(given') <= Len(sent')
  BY <1>5, <1>8, <1>12
<1>14. StreamInv'
  BY <1>1, <1>4, <1>8, <1>11, <1>12, <1>13 DEF StreamInv, c
<1>15. Current' = Event
  BY <1>12 DEF Current, Last
<1>16. ASSUME NEW n \in 1..Len(given')
       PROVE  \/ n \in 1..Len(given) /\ given'[n] = given[n]
              \/ given'[n] = Event
  <2>1. n \in 1..Len(given) \/ n = Len(given) + 1
    BY <1>8, <1>12
  <2> QED BY <1>12, <2>1
<1> QED BY <1>1, <1>2, <1>6, <1>7, <1>8, <1>10, <1>12, <1>14, <1>15, <1>16 DEF b, c

(* What a tick's handlers publish are candles.                             *)
LEMMA AnnouncesCandles ==
    ASSUME CandleInv, NEW t \in Ticks
    PROVE  LET x == [k \in DOMAIN Closed(t) |-> Announce(Closed(t)[k])]
           IN  x \in Seq(Events) /\ \A n \in 1..Len(x) : ~IsTick(x[n])
<1> DEFINE x == [k \in DOMAIN Closed(t) |-> Announce(Closed(t)[k])]
           n == Len(Closed(t))
<1>1. /\ Closed(t) \in Seq(Candle) /\ n \in Nat /\ DOMAIN Closed(t) = 1..n
      /\ \A k \in 1..n : Closed(t)[k] \in Candle
  <2>1. Closed(t) \in Seq(Candle)
    BY ClosedCandles
  <2> QED BY <2>1
<1>2. \A d \in Candle : Announce(d) \in Events /\ ~IsTick(Announce(d))
  BY DEF Announce, Events, IsTick
<1> HIDE DEF n
<1>3. x \in [1..n -> Events]
  BY <1>1, <1>2
<1>4. x \in Seq(Events) /\ Len(x) = n
  BY <1>1, <1>3
<1>5. \A k \in 1..n : ~IsTick(x[k])
  BY <1>1, <1>2
<1> QED BY <1>4, <1>5

(* A tick handled keeps the market data.                                   *)
LEMMA TickKeeps ==
    ASSUME BusInv, StreamInv, StoreInv, CandleInv, HandleTick
    PROVE  StreamInv' /\ StoreInv' /\ CandleInv'
<1> DEFINE x == [k \in DOMAIN Closed(Event) |-> Announce(Closed(Event)[k])]
           waits == {"runner"} \cup {h \in {"store"} : Full(buffer')}
           t == Event
<1>1. /\ IsTick(t) /\ AddTick(t) /\ BufferTick(t) /\ Dispatch(x, waits)
      /\ UNCHANGED <<tape, stage>>
  BY DEF HandleTick, IsTick
<1>2. t \in Ticks
  <2>1. loop = "get" /\ queue # <<>>
    BY <1>1 DEF Dispatch
  <2>2. t = Head(queue) /\ Ascends(queue, Traded)
    BY <2>1 DEF Event, StreamInv
  <2>3. t \in Events \cup {Sentinel}
    BY <2>1, <2>2, QueueTail
  <2> QED BY <1>1, <2>3, Kinds
<1>3. x \in Seq(Events) /\ \A n \in 1..Len(x) : ~IsTick(x[n])
  BY <1>2, AnnouncesCandles
<1>4. /\ loop = "get" /\ busy' = waits
      /\ loop' = "handle"
  BY <1>1 DEF Dispatch
<1> HIDE DEF x
<1>5. waits \subseteq {"store", "runner"} /\ ("store" \in waits <=> Full(buffer'))
  OBVIOUS
<1> HIDE DEF waits
<1>6. /\ StreamInv'
      /\ given' = Append(given, t) /\ Current' = t
      /\ Len(given') = Len(given) + 1 /\ Len(given) \in Nat
      /\ \A n \in 1..Len(given') :
             \/ n \in 1..Len(given) /\ given'[n] = given[n]
             \/ given'[n] = t
      /\ Traded \in Nat /\ Traded' \in Nat /\ Traded <= Traded'
      /\ \A v : Before(v, queue) => Before(v, queue')
      /\ t.volume <= Traded
      /\ Before(t.volume, queue')
      /\ \A v : Before(v, queue) => v <= t.volume
  BY <1>1, <1>3, <1>5, DispatchKeeps
<1>7. CandleInv'
  BY <1>1, <1>2, CandleStep
<1>8. /\ buffer \in Seq(Ticks) /\ rows \subseteq Ticks
      /\ flushing \in [Flushers -> Seq(Ticks)]
      /\ Len(buffer) <= Len(given) /\ Saving = <<>>
      /\ final.copied \in Nat /\ final.since \subseteq Ticks
  BY <1>4 DEF StoreInv, StoreTyped
<1>9. /\ buffer' = Append(buffer, t)
      /\ flushing' = IF Full(buffer')
                     THEN [flushing EXCEPT !["dispatch"] = buffer'] ELSE flushing
      /\ final' = IF final.phase = "none" THEN final
                  ELSE [final EXCEPT !.since = final.since \cup {t}]
      /\ UNCHANGED <<rows, failures>>
  BY <1>1 DEF BufferTick
<1>10. /\ buffer' \in Seq(Ticks) /\ Len(buffer) \in Nat
       /\ Len(buffer') = Len(buffer) + 1 /\ buffer'[Len(buffer) + 1] = t
       /\ \A n \in 1..Len(buffer) : buffer'[n] = buffer[n]
       /\ \A n \in 1..Len(buffer') : n \in 1..Len(buffer) \/ n = Len(buffer) + 1
  BY <1>2, <1>8, <1>9
<1>11. /\ flushing' \in [Flushers -> Seq(Ticks)] /\ Copied' = Copied
       /\ Full(buffer') => Saving' = buffer'
       /\ ~Full(buffer') => Saving' = <<>>
  BY <1>8, <1>9, <1>10 DEF Flushers, Copied, Saving
<1>12. /\ final' \in [phase : {"none", "copied", "overtaken", "failed"},
                      copied : Nat, since : SUBSET Ticks]
       /\ final'.phase = final.phase /\ final'.copied = final.copied
       /\ ~Early => final'.since = final.since \cup {t}
       /\ final.since \subseteq final'.since
  BY <1>2, <1>9 DEF StoreInv, StoreTyped
<1>13. /\ Early' <=> Early
       /\ Late' <=> Late
       /\ stage' = stage
  BY <1>1 DEF Early, Late
<1>14. StoreTyped'
  <2>1. Len(buffer') <= Len(given')
    BY <1>6, <1>8, <1>10
  <2>2. Copied' # <<>> <=> stage' = "flushing"
    BY <1>11, <1>13 DEF StoreInv, StoreTyped
  <2>3. Saving' # <<>> => loop' = "handle" /\ "store" \in busy' /\ IsTick(Current')
    BY <1>1, <1>4, <1>5, <1>6, <1>11
  <2>4. failures' \in 0..MaxFailures /\ rows' \subseteq Ticks
    BY <1>9 DEF StoreInv, StoreTyped
  <2>5. /\ final'.phase = "none" <=> Early'
        /\ Early' \/ stage' = "flushing" \/ Late'
    BY <1>12, <1>13 DEF StoreInv, StoreTyped
  <2> QED BY <1>10, <1>11, <1>12, <2>1, <2>2, <2>3, <2>4, <2>5 DEF StoreTyped
<1>15. /\ \A n \in 1..Len(buffer) : buffer[n] \in Range(buffer)
       /\ Range(buffer') = Range(buffer) \cup {t}
  <2>1. DOMAIN buffer = 1..Len(buffer) /\ DOMAIN buffer' = 1..Len(buffer')
    BY <1>8, <1>10
  <2> QED BY <1>10, <2>1 DEF Range
<1>16. Timely(buffer)' /\ \A r \in rows' : Behind(r)'
  <2>1. /\ Rising(buffer)
        /\ \A s \in Range(buffer) \cup rows :
               s.volume <= Traded /\ Before(s.volume, queue)
        /\ \A r \in rows : First(r, buffer)
    BY DEF StoreInv, StoreTimely, Timely, Behind
  <2>2. Range(buffer) \cup rows \subseteq Ticks
    BY <1>8 DEF Range
  <2>3. \A s \in Range(buffer) \cup rows : s.volume <= t.volume
    BY <1>6, <2>1
  <2>4. t.volume \in Nat
    BY <1>2, Kinds
  <2>5. Rising(buffer')
    <3>1. ASSUME NEW m \in 1..Len(buffer'), NEW n \in 1..Len(buffer'), m <= n,
                 IsTick(buffer'[m]), IsTick(buffer'[n])
          PROVE  buffer'[m].volume <= buffer'[n].volume
      <4>1. CASE n \in 1..Len(buffer)
        <5>1. m \in 1..Len(buffer)
          BY <1>10, <3>1, <4>1
        <5> QED BY <1>10, <2>1, <3>1, <4>1, <5>1 DEF Rising
      <4>2. CASE n = Len(buffer) + 1
        <5>1. buffer'[m] \in Range(buffer) \cup {t}
          BY <1>10, <1>15
        <5> QED BY <1>10, <2>3, <2>4, <4>2, <5>1
      <4> QED BY <1>10, <4>1, <4>2
    <3> QED BY <3>1 DEF Rising
  <2>6. ASSUME NEW s \in Range(buffer') \cup rows
        PROVE  s.volume <= Traded' /\ Before(s.volume, queue')
    <3>1. CASE s = t
      BY <1>6, <2>4, <3>1
    <3>2. CASE s \in Range(buffer) \cup rows
      <4>1. s.volume \in Nat
        BY <2>2, <3>2, Kinds
      <4> QED BY <1>6, <2>1, <3>2, <4>1
    <3> QED BY <1>15, <3>1, <3>2
  <2>7. ASSUME NEW r \in rows PROVE First(r, buffer')
    BY <1>10, <1>15, <2>1, <2>3 DEF First
  <2> QED BY <1>9, <2>5, <2>6, <2>7 DEF Timely, Behind
<1>17. StoreTimely'
  <2>1. Timely(<<>>)'
    BY DEF Timely, Rising, First, Range
  <2>2. Timely(Saving)'
    BY <1>11, <1>16, <2>1 DEF Timely
  <2> QED BY <1>16, <2>2 DEF StoreTimely
<1>18. /\ TicksHandled' \subseteq TicksHandled \cup {t}
       /\ \A s : Stored(s)' <=> Stored(s)
  <2>1. given' \in Seq(Events) /\ given \in Seq(Events)
    BY <1>6 DEF StreamInv
  <2>2. Range(given') \subseteq Range(given) \cup {t}
    BY <1>6, <2>1 DEF Range
  <2> QED BY <1>9, <2>2 DEF TicksHandled, Stored
<1>19. Lost' \subseteq Lost
  BY <1>15, <1>18 DEF Lost
<1>20. Saving' \in {<<>>, buffer'}
  BY <1>11
<1>21. StoreKept'
  <2>1. ASSUME ~Late PROVE Whole'
    BY <1>19, <1>20, <2>1 DEF Whole, StoreInv, StoreKept
  <2>2. ASSUME stage = "flushing" PROVE Waits'
    <3>1. Waits /\ ~Early
      BY <2>2 DEF StoreInv, StoreKept, Early
    <3>2. final'.copied = Len(Copied')
      BY <1>11, <1>12, <3>1 DEF Waits
    <3>3. Leads(Copied, buffer) => Leads(Copied', buffer')
      <4>1. Copied \in Seq(Ticks)
        BY <1>8 DEF Copied, Flushers
      <4> QED BY <1>10, <1>11, <4>1 DEF Leads
    <3>4. Range(buffer) \subseteq final.since => Range(buffer') \subseteq final'.since
      BY <1>12, <1>15, <3>1
    <3>5. /\ (\A r \in Range(Copied) : Stored(r)) =>
                 \A r \in Range(Copied') : Stored(r)'
          /\ \A r \in TicksHandled' \ final'.since :
                 Stored(r)' \/ r \in Range(Copied')
      BY <1>11, <1>12, <1>18, <3>1 DEF Waits
    <3> QED BY <1>12, <3>1, <3>2, <3>3, <3>4, <3>5 DEF Waits
  <2>3. ASSUME Late PROVE Landed'
    <3>1. Landed /\ ~Early
      BY <2>3 DEF StoreInv, StoreKept, Early, Late
    <3>2. TicksKept'
      BY <1>8, <1>12, <1>19, <3>1, LossKept DEF Landed
    <3>3. Saving' = <<>> \/ Within(buffer', Saving')
      <4>1. Len(buffer') \in Nat
        BY <1>10
      <4> QED BY <1>20, <4>1 DEF Within
    <3>4. final'.phase # "failed" =>
              \A r \in TicksHandled' \ final'.since : Stored(r)'
      BY <1>12, <1>18, <3>1 DEF Landed
    <3> QED BY <3>2, <3>3, <3>4 DEF Landed
  <2> QED BY <1>13, <2>1, <2>2, <2>3 DEF StoreKept
<1> QED BY <1>6, <1>7, <1>14, <1>17, <1>21 DEF StoreInv
-----------------------------------------------------------------------------
(* A candle handled keeps the market data.                                 *)
LEMMA CandleEventKeeps ==
    ASSUME BusInv, StreamInv, StoreInv, HandleCandle
    PROVE  StreamInv' /\ StoreInv'
<1>1. /\ ~IsTick(Event) /\ Dispatch(<<>>, {"store"})
      /\ UNCHANGED <<storeVars, tape, stage>>
  BY DEF HandleCandle, IsTick
<1>2. <<>> \in Seq(Events) /\ Len(<<>>) = 0
  OBVIOUS
<1>3. /\ StreamInv'
      /\ Current' = Event
      /\ Len(given') = Len(given) + 1 /\ Len(given) \in Nat
      /\ \A n \in 1..Len(given') :
             \/ n \in 1..Len(given) /\ given'[n] = given[n]
             \/ given'[n] = Event
      /\ Traded \in Nat /\ Traded' \in Nat /\ Traded <= Traded'
      /\ \A v : Before(v, queue) => Before(v, queue')
  <2> DEFINE x == <<>>
             w == {"store"}
  <2>1. /\ x \in Seq(Events) /\ \A n \in 1..Len(x) : ~IsTick(x[n])
        /\ w \subseteq {"store", "runner"} /\ Dispatch(x, w)
        /\ UNCHANGED tape
    BY <1>1, <1>2
  <2> HIDE DEF x, w
  <2> QED BY <2>1, DispatchKeeps
<1>4. loop = "get" /\ given' = Append(given, Event)
  BY <1>1 DEF Dispatch, Event
<1>5. Saving = <<>> /\ Len(buffer) <= Len(given) /\ Len(buffer) \in Nat
  BY <1>4 DEF StoreInv, StoreTyped
<1>6. QueueKept
  BY <1>3 DEF QueueKept
<1>7. TicksHandled' = TicksHandled
  <2>1. given \in Seq(Events) /\ given' \in Seq(Events)
    BY <1>3 DEF StreamInv
  <2>2. Len(given') = Len(given) + 1 /\ \A n \in 1..Len(given) : given'[n] = given[n]
    BY <1>4, <2>1
  <2>3. /\ DOMAIN given = 1..Len(given) /\ DOMAIN given' = 1..Len(given')
        /\ 1..Len(given) \subseteq 1..Len(given')
    BY <2>1, <2>2
  <2>4. /\ Range(given) \subseteq Range(given')
        /\ Range(given') \subseteq Range(given) \cup {Event}
    BY <1>3, <2>2, <2>3 DEF Range
  <2> QED BY <1>1, <2>4 DEF TicksHandled, IsTick
<1>8. Len(buffer) <= Len(given')
  BY <1>3, <1>5
<1> QED BY <1>1, <1>3, <1>5, <1>6, <1>7, <1>8, StoreStays

(* A step that publishes and gives nothing keeps what was streamed.        *)
LEMMA StreamStays ==
    ASSUME StreamInv, UNCHANGED <<tape, queue, sent, given>>,
           loop' \in {"none", "get", "handle", "over"},
           busy' \subseteq {"store", "runner"}
    PROVE  StreamInv' /\ Traded' = Traded
BY DEF StreamInv, Traded

(* The end of a flush, of either flusher: what it may do to the store.     *)
LEMMA FlushTyped ==
    ASSUME StreamInv, StoreTyped, NEW f \in Flushers, FlushEnds(f),
           given' = given
    PROVE  LET new == Insert(rows, flushing[f])
           IN  /\ buffer' \in Seq(Ticks) /\ Len(buffer') <= Len(given')
               /\ rows' \subseteq Ticks /\ rows \subseteq rows'
               /\ flushing' \in [Flushers -> Seq(Ticks)] /\ flushing'[f] = <<>>
               /\ \A g \in Flushers \ {f} : flushing'[g] = flushing[g]
               /\ failures' \in 0..MaxFailures
               /\ flushing[f] # <<>> /\ flushing[f] \in Seq(Ticks)
               /\ final' \in [phase : {"none", "copied", "overtaken", "failed"},
                              copied : Nat, since : SUBSET Ticks]
               /\ final'.copied = final.copied /\ final'.since = final.since
               /\ \/ /\ rows' = new
                     /\ buffer' = Cut(buffer, Len(flushing[f]))
                     /\ final'.phase = IF f = "dispatch" /\ Copied # <<>>
                                       THEN "overtaken" ELSE final.phase
                  \/ /\ rows' \in {rows, new} /\ buffer' = buffer
                     /\ final'.phase = IF f = "shutdown" THEN "failed"
                                       ELSE final.phase
<1> DEFINE new == Insert(rows, flushing[f])
           n == Len(flushing[f])
<1>1. /\ buffer \in Seq(Ticks) /\ rows \subseteq Ticks
      /\ flushing \in [Flushers -> Seq(Ticks)] /\ failures \in 0..MaxFailures
      /\ flushing[f] \in Seq(Ticks) /\ Len(buffer) \in Nat
      /\ n \in Nat /\ Len(given) \in Nat /\ Len(buffer) <= Len(given)
      /\ final \in [phase : {"none", "copied", "overtaken", "failed"},
                    copied : Nat, since : SUBSET Ticks]
  BY DEF StoreTyped, StreamInv
<1>2. new \subseteq Ticks /\ rows \subseteq new
  BY <1>1, Inserted
<1>3. /\ Cut(buffer, n) \in Seq(Ticks)
      /\ Len(Cut(buffer, n)) <= Len(buffer) /\ Len(Cut(buffer, n)) \in Nat
  BY <1>1, CutLeaves
<1>4. \/ /\ rows' = new /\ buffer' = Cut(buffer, n)
         /\ UNCHANGED failures
         /\ Becomes(IF f = "dispatch" /\ Copied # <<>>
                    THEN "overtaken" ELSE final.phase)
      \/ /\ rows' \in {rows, new} /\ buffer' = buffer
         /\ failures < MaxFailures /\ failures' = failures + 1
         /\ Becomes(IF f = "shutdown" THEN "failed" ELSE final.phase)
  BY DEF FlushEnds, Commit, FlushFails, Copied
<1>5. Ends(f)
  BY DEF FlushEnds, Commit, FlushFails
<1> HIDE DEF new, n
<1>6. rows' \subseteq Ticks /\ rows \subseteq rows'
  BY <1>1, <1>2, <1>4
<1>7. buffer' \in Seq(Ticks) /\ Len(buffer') <= Len(given')
  BY <1>1, <1>3, <1>4
<1>8. failures' \in 0..MaxFailures
  BY <1>1, <1>4, StoreAssumption
<1>9. /\ final' \in [phase : {"none", "copied", "overtaken", "failed"},
                     copied : Nat, since : SUBSET Ticks]
      /\ final'.copied = final.copied /\ final'.since = final.since
  BY <1>1, <1>4 DEF Becomes
<1>10. /\ flushing' \in [Flushers -> Seq(Ticks)] /\ flushing'[f] = <<>>
       /\ \A g \in Flushers \ {f} : flushing'[g] = flushing[g]
       /\ flushing[f] # <<>>
  BY <1>1, <1>5 DEF Ends
<1>11. \/ /\ rows' = new /\ buffer' = Cut(buffer, n)
          /\ final'.phase = IF f = "dispatch" /\ Copied # <<>>
                            THEN "overtaken" ELSE final.phase
       \/ /\ rows' \in {rows, new} /\ buffer' = buffer
          /\ final'.phase = IF f = "shutdown" THEN "failed" ELSE final.phase
  BY <1>1, <1>4 DEF Becomes
<1> QED BY <1>1, <1>6, <1>7, <1>8, <1>9, <1>10, <1>11 DEF new, n

(* Nothing is left of a buffer that lies within what was copied.           *)
LEMMA CutWithin ==
    ASSUME NEW b \in Seq(Ticks), NEW s \in Seq(Ticks), Within(b, s)
    PROVE  /\ Cut(b, Len(s)) = <<>>
           /\ \A r : First(r, s) => First(r, b)
<1>1. Len(s) \in Nat /\ Len(b) \in Nat
  OBVIOUS
<1>2. Cut(b, Len(s)) = <<>>
  BY <1>1, CutLeaves DEF Within
<1>3. \A n \in 1..Len(b) : \E k \in 1..Len(s) : s[k] = b[n]
  BY DEF Within, Range
<1>4. \A r : First(r, s) => First(r, b)
  BY <1>3 DEF First
<1> QED BY <1>2, <1>4

(* The dispatch's flush ends: what it copied is all of the buffer.         *)
LEMMA FlushKeeps ==
    ASSUME StreamInv, StoreInv, TicksStored
    PROVE  StreamInv' /\ StoreInv'
<1>1. /\ FlushEnds("dispatch") /\ Finish("store") /\ UNCHANGED <<tape, stage>>
  BY DEF TicksStored
<1>2. /\ UNCHANGED <<queue, sent, given>>
      /\ loop' \in {"get", "over", "handle"} /\ busy' \subseteq busy
  BY <1>1 DEF Finish, Resume
<1>3. StreamInv' /\ Traded' = Traded
  <2>1. busy' \subseteq {"store", "runner"}
    BY <1>2 DEF StreamInv
  <2> QED BY <1>1, <1>2, <2>1, StreamStays
<1> DEFINE new == Insert(rows, Saving)
<1>4. /\ buffer \in Seq(Ticks) /\ rows \subseteq Ticks
      /\ final.copied \in Nat
      /\ Copied \in Seq(Ticks) /\ Saving \in Seq(Ticks)
  BY DEF StoreInv, StoreTyped, Copied, Saving, Flushers
<1>5. /\ buffer' \in Seq(Ticks) /\ Len(buffer') <= Len(given')
      /\ rows' \subseteq Ticks /\ rows \subseteq rows'
      /\ flushing' \in [Flushers -> Seq(Ticks)]
      /\ Saving' = <<>> /\ Copied' = Copied
      /\ failures' \in 0..MaxFailures
      /\ Saving # <<>>
      /\ final' \in [phase : {"none", "copied", "overtaken", "failed"},
                     copied : Nat, since : SUBSET Ticks]
      /\ final'.copied = final.copied /\ final'.since = final.since
      /\ \/ /\ rows' = new /\ buffer' = Cut(buffer, Len(Saving))
            /\ final'.phase = IF Copied # <<>> THEN "overtaken" ELSE final.phase
         \/ /\ rows' \in {rows, new} /\ buffer' = buffer
            /\ final'.phase = final.phase
  <2>1. "dispatch" \in Flushers /\ "shutdown" \in Flushers \ {"dispatch"}
    BY DEF Flushers
  <2> QED BY <1>1, <1>2, <2>1, FlushTyped DEF StoreInv, Copied, Saving
<1>6. /\ Early' <=> Early
      /\ Late' <=> Late
      /\ stage' = stage
  BY <1>1 DEF Early, Late
<1>7. StoreTyped'
  <2>1. Copied # <<>> => ~Early
    BY DEF StoreInv, StoreTyped, Early
  <2> QED BY <1>5, <1>6, <2>1 DEF StoreInv, StoreTyped
<1>8. Within(buffer, Saving)
  <2>1. ~Late => Saving = buffer
    BY <1>5 DEF StoreInv, StoreKept, Whole
  <2>2. Late => Within(buffer, Saving)
    BY <1>5 DEF StoreInv, StoreKept, Landed
  <2>3. Within(buffer, buffer)
    BY <1>4 DEF Within
  <2> QED BY <2>1, <2>2, <2>3
<1>9. /\ Cut(buffer, Len(Saving)) = <<>>
      /\ \A r : First(r, Saving) => First(r, buffer)
  BY <1>4, <1>8, CutWithin
<1>10. /\ new \subseteq rows \cup Range(Saving)
       /\ \A r \in new : First(r, Saving)
       /\ \A t \in Range(Saving) :
             \E r \in new : Key(r) = Key(t) /\ r.volume <= t.volume
  BY <1>4, Inserted DEF StoreInv, StoreTimely, Timely
<1> HIDE DEF new
<1>11. StoreTimely'
  <2>1. \A r \in rows' : Behind(r)'
    <3>1. \A r \in rows \cup Range(Saving) : Behind(r)
      BY DEF StoreInv, StoreTimely, Timely
    <3>2. \A r \in rows' : Behind(r)
      BY <1>5, <1>10, <3>1
    <3> QED BY <1>2, <1>3, <3>2 DEF Behind
  <2>2. Timely(<<>>)'
    BY DEF Timely, Rising, First, Range
  <2>3. Timely(buffer)'
    <3>1. CASE buffer' = <<>>
      BY <2>2, <3>1 DEF Timely
    <3>2. CASE buffer' = buffer /\ rows' \in {rows, new}
      <4>1. \A r \in rows' : First(r, buffer)
        BY <1>9, <1>10, <3>2 DEF StoreInv, StoreTimely, Timely
      <4>2. Rising(buffer) /\ \A t \in Range(buffer) : Behind(t)
        BY DEF StoreInv, StoreTimely, Timely
      <4>3. \A t \in Range(buffer) : Behind(t)'
        BY <1>2, <1>3, <4>2 DEF Behind
      <4> QED BY <3>2, <4>1, <4>2, <4>3 DEF Timely
    <3> QED BY <1>5, <1>9, <3>1, <3>2
  <2>4. Timely(Saving)'
    BY <1>5, <2>2 DEF Timely
  <2> QED BY <2>1, <2>3, <2>4 DEF StoreTimely
<1>12. /\ TicksHandled' = TicksHandled
       /\ \A t : Stored(t) => Stored(t)'
       /\ buffer' = buffer \/ \A t \in Range(buffer) : Stored(t)'
  <2>1. \A t : Stored(t) => Stored(t)'
    BY <1>5 DEF Stored
  <2>2. rows' = new => \A t \in Range(buffer) : Stored(t)'
    BY <1>8, <1>10 DEF Within, Stored
  <2> QED BY <1>2, <1>5, <2>1, <2>2 DEF TicksHandled
<1>13. Lost' \subseteq Lost
  BY <1>12 DEF Lost
<1>14. StoreKept'
  <2>1. ASSUME ~Late PROVE Whole'
    BY <1>5, <1>13, <2>1 DEF Whole, StoreInv, StoreKept
  <2>2. ASSUME stage = "flushing" PROVE Waits'
    <3>1. Waits /\ Copied # <<>>
      BY <2>2 DEF StoreInv, StoreKept, StoreTyped
    <3>2. /\ final'.copied = Len(Copied')
          /\ \A t \in TicksHandled' \ final'.since :
                 Stored(t)' \/ t \in Range(Copied')
      BY <1>5, <1>12, <3>1 DEF Waits
    <3>3. CASE buffer' = buffer /\ final'.phase = final.phase
      BY <1>5, <1>12, <3>1, <3>2, <3>3 DEF Waits
    <3>4. CASE rows' = new /\ buffer' = <<>> /\ final'.phase = "overtaken"
      <4>1. Range(<<>>) = {}
        BY DEF Range
      <4>2. \A t \in Range(Copied) : Stored(t)'
        <5>1. Leads(Copied, buffer) => Range(Copied) \subseteq Range(Saving)
          <6>1. Leads(Copied, buffer) => Range(Copied) \subseteq Range(buffer)
            BY <1>4 DEF Leads, Range
          <6> QED BY <1>8, <6>1 DEF Within
        <5>2. \A t \in Range(Saving) : Stored(t)'
          BY <1>10, <3>4 DEF Stored
        <5> QED BY <1>12, <3>1, <5>1, <5>2 DEF Waits
      <4> QED BY <1>5, <3>2, <3>4, <4>1, <4>2 DEF Waits
    <3> QED BY <1>5, <1>9, <3>1, <3>3, <3>4
  <2>3. ASSUME Late PROVE Landed'
    <3>1. Landed /\ Copied = <<>>
      BY <2>3 DEF StoreInv, StoreKept, StoreTyped, Late
    <3>2. final'.phase = final.phase
      BY <1>5, <3>1
    <3>3. TicksKept'
      BY <1>4, <1>5, <1>13, <3>1, <3>2, LossKept DEF Landed
    <3>4. final'.phase # "failed" =>
              \A r \in TicksHandled' \ final'.since : Stored(r)'
      BY <1>5, <1>12, <3>1, <3>2 DEF Landed
    <3> QED BY <1>5, <3>3, <3>4 DEF Landed
  <2> QED BY <1>6, <2>1, <2>2, <2>3 DEF StoreKept
<1> QED BY <1>3, <1>7, <1>11, <1>14 DEF StoreInv

(* The shutdown's flush copies the buffer.                                 *)
LEMMA FlushBegins ==
    ASSUME StreamInv, StoreInv, FlushStore
    PROVE  StoreInv'
<1>1. /\ UNCHANGED <<queue, sent, given, loop, busy, tape>>
      /\ stage = "flush"
      /\ stage' = IF buffer = <<>> THEN "stop bus" ELSE "flushing"
      /\ flushing' = [flushing EXCEPT !["shutdown"] = buffer]
      /\ final' = [phase |-> "copied", copied |-> Len(buffer), since |-> {}]
      /\ UNCHANGED <<buffer, rows, failures>>
  BY DEF FlushStore, StartFlush, Go, busVars
<1>2. Traded' = Traded /\ Current' = Current /\ TicksHandled' = TicksHandled
  BY <1>1 DEF Traded, Current, TicksHandled
<1>3. /\ Early /\ ~Late /\ ~Early'
      /\ Late' <=> buffer = <<>>
      /\ stage' = "flushing" <=> buffer # <<>>
  BY <1>1 DEF Early, Late
<1>4. StoreTyped /\ buffer \in Seq(Ticks) /\ Len(buffer) \in Nat
  BY DEF StoreInv, StoreTyped
<1>5. /\ flushing' \in [Flushers -> Seq(Ticks)]
      /\ Saving' = Saving /\ Copied' = buffer
  BY <1>1, <1>4 DEF StoreTyped, Flushers, Saving, Copied
<1>6. final' \in [phase : {"none", "copied", "overtaken", "failed"},
                  copied : Nat, since : SUBSET Ticks]
  BY <1>1, <1>4
<1>7. StoreTyped'
  BY <1>1, <1>2, <1>3, <1>4, <1>5, <1>6 DEF StoreTyped
<1>8. StoreTimely'
  <2>1. \A t : Behind(t)' <=> Behind(t)
    BY <1>1, <1>2 DEF Behind
  <2>2. Timely(buffer)' /\ Timely(Saving)'
    BY <1>1, <1>5, <2>1 DEF StoreInv, StoreTimely, Timely
  <2> QED BY <1>1, <2>1, <2>2 DEF StoreInv, StoreTimely
<1>9. Whole /\ \A t : Stored(t)' <=> Stored(t)
  BY <1>1, <1>3 DEF StoreInv, StoreKept, Stored
<1>10. Lost' = {} /\ \A t \in TicksHandled : t \in Range(buffer) \/ Stored(t)
  BY <1>1, <1>2, <1>9 DEF Whole, Lost
<1>11. Whole'
  BY <1>1, <1>5, <1>9, <1>10 DEF Whole
<1>12. Waits'
  <2>1. Leads(Copied', buffer')
    <3>1. Leads(buffer, buffer)
      BY <1>4 DEF Leads
    <3> QED BY <1>1, <1>5, <3>1
  <2>2. final'.phase = "copied" /\ final'.copied = Len(Copied') /\ final'.since = {}
    BY <1>1, <1>5
  <2>3. \A t \in TicksHandled' : Stored(t)' \/ t \in Range(Copied')
    BY <1>2, <1>5, <1>9, <1>10
  <2> QED BY <2>1, <2>2, <2>3 DEF Waits
<1>13. ASSUME buffer = <<>> PROVE Landed'
  <2>1. Saving' = <<>> /\ Range(buffer) = {}
    BY <1>5, <1>9, <1>13 DEF Whole, Range
  <2>2. TicksKept'
    BY <1>4, <1>6, <1>10, FS_EmptySet DEF TicksKept
  <2> QED BY <1>2, <1>9, <1>10, <2>1, <2>2 DEF Landed
<1> QED BY <1>3, <1>7, <1>8, <1>11, <1>12, <1>13 DEF StoreInv, StoreKept

(* The shutdown's flush ends.  A commit overtaken by another cuts off as   *)
(* many ticks as it copied from those that came since.                     *)
LEMMA FlushLands ==
    ASSUME StreamInv, StoreInv, StoreFlushed
    PROVE  StoreInv'
<1> DEFINE new == Insert(rows, Copied)
           rest == Cut(buffer, Len(Copied))
<1>1. /\ UNCHANGED <<queue, sent, given, loop, busy, tape>>
      /\ stage = "flushing" /\ stage' = "stop bus" /\ FlushEnds("shutdown")
  BY DEF StoreFlushed, Go, busVars
<1>2. Traded' = Traded /\ Current' = Current /\ TicksHandled' = TicksHandled
  BY <1>1 DEF Traded, Current, TicksHandled
<1>3. /\ buffer \in Seq(Ticks) /\ rows \subseteq Ticks
      /\ Copied \in Seq(Ticks) /\ Len(Copied) \in Nat
  BY DEF StoreInv, StoreTyped, Copied, Flushers
<1>4. /\ buffer' \in Seq(Ticks) /\ Len(buffer') <= Len(given')
      /\ rows' \subseteq Ticks /\ rows \subseteq rows'
      /\ flushing' \in [Flushers -> Seq(Ticks)]
      /\ Copied' = <<>> /\ Saving' = Saving
      /\ failures' \in 0..MaxFailures
      /\ final' \in [phase : {"none", "copied", "overtaken", "failed"},
                     copied : Nat, since : SUBSET Ticks]
      /\ final'.copied = final.copied /\ final'.since = final.since
      /\ \/ rows' = new /\ buffer' = rest /\ final'.phase = final.phase
         \/ rows' \in {rows, new} /\ buffer' = buffer /\ final'.phase = "failed"
  <2>1. "shutdown" \in Flushers /\ "dispatch" \in Flushers \ {"shutdown"}
    BY DEF Flushers
  <2> QED BY <1>1, <2>1, FlushTyped DEF StoreInv, Copied, Saving
<1>5. Late' /\ ~Early' /\ ~Early /\ ~Late /\ final.phase # "none"
  BY <1>1 DEF Early, Late, StoreInv, StoreTyped
<1>6. StoreTyped'
  BY <1>1, <1>2, <1>4, <1>5 DEF StoreInv, StoreTyped
<1>7. Waits /\ Whole
  BY <1>1, <1>5 DEF StoreInv, StoreKept
<1>8. /\ rest \in Seq(Ticks) /\ Len(rest) <= Len(buffer)
      /\ Range(rest) \subseteq Range(buffer)
      /\ Rising(buffer) => Rising(rest)
      /\ \A r : First(r, buffer) => First(r, rest)
      /\ \A t \in Range(buffer) :
             \/ t \in Range(rest)
             \/ \E k \in 1..Len(buffer) : k <= Len(Copied) /\ t = buffer[k]
  BY <1>3, CutLeaves
<1> HIDE DEF rest
<1>9. /\ new \subseteq rows \cup Range(Copied)
      /\ \A r \in rows \cup new : First(r, buffer) /\ Behind(r)
      /\ \A t \in Range(Copied) :
            \E r \in new : Key(r) = Key(t) /\ r.volume <= t.volume
      /\ final.phase = "overtaken" => new = rows
  <2>1. /\ new \subseteq rows \cup Range(Copied)
        /\ rows \subseteq new
    BY <1>3, Inserted
  <2>2. /\ Rising(buffer) /\ \A r \in rows : First(r, buffer)
        /\ \A r \in rows \cup Range(buffer) : Behind(r)
    BY DEF StoreInv, StoreTimely, Timely
  <2>3. CASE Leads(Copied, buffer) /\ final.phase = "copied"
    <3>1. /\ Range(Copied) \subseteq Range(buffer)
          /\ \A r \in new : First(r, buffer)
          /\ \A t \in Range(Copied) :
                \E r \in new : Key(r) = Key(t) /\ r.volume <= t.volume
      BY <1>3, <2>2, <2>3, InsertedBeginning
    <3> QED BY <2>1, <2>2, <2>3, <3>1
  <2>4. CASE final.phase = "overtaken" /\ \A t \in Range(Copied) : Stored(t)
    <3>1. new = rows
      BY <2>4, Known DEF Stored
    <3> QED BY <2>1, <2>2, <2>4, <3>1 DEF Stored
  <2> QED BY <1>7, <2>3, <2>4 DEF Waits
<1> HIDE DEF new
<1>10. StoreTimely'
  <2>1. \A t : Behind(t)' <=> Behind(t)
    BY <1>1, <1>2 DEF Behind
  <2>2. /\ Rising(buffer) /\ \A t \in Range(buffer) : Behind(t)
        /\ \A r \in rows' : First(r, buffer) /\ Behind(r)
    BY <1>4, <1>9 DEF StoreInv, StoreTimely, Timely
  <2>3. Rising(buffer') /\ Range(buffer') \subseteq Range(buffer)
    BY <1>4, <1>8, <2>2
  <2>4. \A r \in rows' : First(r, buffer')
    BY <1>4, <1>8, <2>2
  <2>5. Timely(buffer)'
    BY <2>1, <2>2, <2>3, <2>4 DEF Timely
  <2>6. Timely(Saving)'
    <3>1. CASE Saving = buffer
      BY <1>4, <2>1, <2>2, <3>1 DEF Timely
    <3>2. CASE Saving = <<>>
      <4>1. Timely(<<>>)'
        BY DEF Timely, Rising, First, Range
      <4> QED BY <1>4, <3>2, <4>1 DEF Timely
    <3> QED BY <1>7, <3>1, <3>2 DEF Whole
  <2> QED BY <2>1, <2>2, <2>5, <2>6 DEF StoreTimely
<1>11. /\ \A t : Stored(t) => Stored(t)'
       /\ rows' = new => \A t \in Range(Copied) : Stored(t)'
       /\ \A t \in TicksHandled : t \in Range(buffer) \/ Stored(t)
  <2>1. \A t : Stored(t) => Stored(t)'
    BY <1>4 DEF Stored
  <2>2. rows' = new => \A t \in Range(Copied) : Stored(t)'
    BY <1>9 DEF Stored
  <2> QED BY <1>7, <2>1, <2>2 DEF Whole, Lost
<1>12. Saving' = <<>> \/ Within(buffer', Saving')
  <2>1. Within(buffer, buffer) /\ Within(rest, buffer)
    BY <1>3, <1>8 DEF Within
  <2> QED BY <1>4, <1>7, <2>1 DEF Whole
<1>13. final'.phase # "failed" =>
           \A t \in TicksHandled' \ final'.since : Stored(t)'
  BY <1>2, <1>4, <1>7, <1>11 DEF Waits
<1>14. Lost' = {} => TicksKept'
  BY <1>4, FS_EmptySet DEF TicksKept
<1>15. TicksKept'
  <2>1. CASE buffer' = buffer
    BY <1>2, <1>11, <1>14, <2>1 DEF Lost
  <2>2. CASE /\ buffer' = rest /\ rows' = new
             /\ final.phase = "copied" /\ Leads(Copied, buffer)
    <3>1. \A k \in 1..Len(buffer) :
              k <= Len(Copied) => buffer[k] \in Range(Copied)
      <4>1. \A k \in 1..Len(buffer) :
                k <= Len(Copied) => k \in DOMAIN Copied /\ buffer[k] = Copied[k]
        BY <1>3, <2>2 DEF Leads
      <4> QED BY <4>1 DEF Range
    <3>2. \A t \in Range(buffer) : t \in Range(rest) \/ Stored(t)'
      BY <1>8, <1>11, <2>2, <3>1
    <3>3. Lost' = {}
      BY <1>2, <1>11, <2>2, <3>2 DEF Lost
    <3> QED BY <1>14, <3>3
  <2>3. CASE /\ buffer' = rest /\ final'.phase = "overtaken"
             /\ Range(buffer) \subseteq final.since
    <3>1. \A t \in Lost' : t \in Range(buffer) /\ t \notin Range(rest)
      BY <1>2, <1>11, <2>3 DEF Lost
    <3>2. \A t \in Lost' :
              \E k \in 1..Len(buffer) : k <= Len(Copied) /\ t = buffer[k]
      BY <1>8, <3>1
    <3>3. Cardinality(Lost') <= Len(Copied)
      BY <1>3, <3>2, FewAhead
    <3>4. Cardinality(Lost') <= final'.copied
      BY <1>4, <1>7, <3>3 DEF Waits
    <3> QED BY <1>4, <2>3, <3>1, <3>4 DEF TicksKept
  <2> QED BY <1>4, <1>7, <2>1, <2>2, <2>3 DEF Waits
<1>16. StoreKept'
  BY <1>1, <1>5, <1>12, <1>13, <1>15 DEF StoreKept, Landed
<1> QED BY <1>6, <1>10, <1>16 DEF StoreInv

(* The shutdown's flush leaves the stream alone.                           *)
LEMMA LateFlush ==
    ASSUME StreamInv, StoreInv, FlushStore \/ StoreFlushed
    PROVE  StreamInv' /\ StoreInv'
<1>1. UNCHANGED <<queue, sent, given, loop, busy, tape>>
  BY DEF FlushStore, StoreFlushed, busVars
<1>2. StreamInv'
  BY <1>1, StreamStays DEF StreamInv
<1> QED BY <1>2, FlushBegins, FlushLands

(* What the loop takes off the queue, or stop() puts there, is no tick.    *)
LEMMA StopKeeps ==
    ASSUME StreamInv, StoreInv, BreakLoop \/ StopBus
    PROVE  StreamInv' /\ StoreInv' /\ QueueKept
<1>1. /\ UNCHANGED <<sent, given, busy, tape, storeVars>>
      /\ stage' = stage \/ (Late /\ Late')
  BY DEF BreakLoop, Break, StopBus, Stop, Go, Late
<1>2. Traded' = Traded /\ Current' = Current /\ TicksHandled' = TicksHandled
  BY <1>1 DEF Traded, Current, TicksHandled
<1>3. /\ loop' \in {"none", "get", "handle", "over"}
      /\ Saving # <<>> => loop' = "handle"
  BY DEF BreakLoop, Break, StopBus, Stop, StreamInv, StoreInv, StoreTyped
<1>4. /\ Ascends(queue', Traded)
      /\ \A v : Before(v, queue) => Before(v, queue')
  <2>1. Ascends(queue, Traded)
    BY DEF StreamInv
  <2>2. CASE BreakLoop
    <3>1. queue # <<>> /\ queue' = Tail(queue)
      BY <2>2 DEF BreakLoop, Break
    <3> QED BY <2>1, <3>1, QueueTail
  <2>3. CASE StopBus
    <3> DEFINE x == <<Sentinel>>
               E == Events \cup {Sentinel}
    <3>1. x \in Seq(E) /\ Len(x) = 1 /\ x[1] = Sentinel
      OBVIOUS
    <3>2. \A n \in 1..Len(x) : ~IsTick(x[n])
      BY <3>1, Kinds
    <3>3. queue \in Seq(E) /\ queue' = Append(queue, Sentinel)
      BY <2>1, <2>3 DEF StopBus, Stop, Ascends
    <3>4. queue' = queue \o x
      <4> HIDE DEF E
      <4> QED BY <3>1, <3>3
    <3> HIDE DEF x
    <3> QED BY <2>1, <3>1, <3>2, <3>4, QueueMore
  <2> QED BY <2>2, <2>3
<1>5. StreamInv'
  BY <1>1, <1>2, <1>3, <1>4 DEF StreamInv
<1>6. QueueKept
  BY <1>2, <1>4 DEF QueueKept
<1>7. /\ Len(buffer) <= Len(given)
      /\ Saving # <<>> => "store" \in busy /\ IsTick(Current)
  BY DEF StoreInv, StoreTyped
<1>8. StoreInv'
  BY <1>1, <1>2, <1>3, <1>6, <1>7, StoreStays
<1> QED BY <1>5, <1>6, <1>8

(* The other steps of the dispatch task and of the shutdown.               *)
LEMMA RestKeeps ==
    ASSUME StreamInv, StoreInv,
           UNCHANGED <<tape, queue, sent, given, storeVars>>,
           stage' = stage \/ (Early /\ Early') \/ (Late /\ Late'),
           CandleStored \/ RoundOver \/ StartBus \/ UNCHANGED <<loop, busy>>
    PROVE  StreamInv' /\ StoreInv'
<1>1. /\ Traded' = Traded /\ TicksHandled' = TicksHandled
      /\ Current' = Current
  BY DEF Traded, TicksHandled, Current
<1>2. /\ loop \in {"none", "get", "handle", "over"}
      /\ busy \subseteq {"store", "runner"}
      /\ Saving # <<>> =>
             loop = "handle" /\ "store" \in busy /\ IsTick(Current)
  BY DEF StreamInv, StoreInv, StoreTyped
<1>3. /\ loop' \in {"none", "get", "handle", "over"}
      /\ busy' \subseteq {"store", "runner"}
  BY <1>2 DEF CandleStored, RoundOver, StartBus, Finish, Resume, Start
<1>4. ASSUME Saving # <<>>
      PROVE  loop' = "handle" /\ "store" \in busy'
  <2>1. loop = "handle" /\ "store" \in busy /\ IsTick(Current)
    BY <1>2, <1>4
  <2>2. ~CandleStored
    BY <2>1 DEF CandleStored, IsTick
  <2>3. ~StartBus
    BY <2>1 DEF StartBus, Start
  <2>4. RoundOver => loop' = "handle" /\ "store" \in busy'
    BY <2>1 DEF RoundOver, Finish
  <2> QED BY <2>1, <2>2, <2>3, <2>4
<1>5. QueueKept
  BY <1>1 DEF QueueKept
<1>6. StreamInv'
  BY <1>3, StreamStays
<1>7. StoreInv'
  BY <1>1, <1>2, <1>4, <1>5, StoreStays DEF StoreInv, StoreTyped
<1> QED BY <1>6, <1>7
-----------------------------------------------------------------------------
PipeInv == /\ BusInv /\ StreamInv /\ StoreInv
           /\ CandleInv /\ RunnerInv /\ RoundInv

(* Nothing published, stored, built or started yet.                        *)
LEMMA PipeInit == Init => PipeInv
<1> SUFFICES ASSUME Init PROVE PipeInv
  OBVIOUS
<1>1. BusInv
  BY InitBus
<1>2. StreamInv
  <2>1. /\ queue = <<>> /\ sent = <<>> /\ given = <<>>
        /\ loop = "none" /\ busy = {}
        /\ tape \in Seq([tok : Tokens, time : Nat, ltp : Nat])
    BY PipelineAssumption DEF Init, BusInit
  <2>2. Ascends(<<>>, Traded)
    <3>1. <<>> \in Seq(Events \cup {Sentinel}) /\ Len(<<>>) = 0
      OBVIOUS
    <3> QED BY <3>1 DEF Ascends, Rising
  <2>3. <<>> \in Seq(Events) /\ Len(<<>>) = 0
    OBVIOUS
  <2> QED BY <2>1, <2>2, <2>3 DEF StreamInv
<1>3. StoreInv
  <2>1. /\ buffer = <<>> /\ rows = {} /\ failures = 0 /\ given = <<>>
        /\ flushing = [f \in Flushers |-> <<>>] /\ stage = "up"
        /\ final = [phase |-> "none", copied |-> 0, since |-> {}]
    BY DEF Init, StoreInit, BusInit
  <2>2. <<>> \in Seq(Ticks) /\ Len(<<>>) = 0 /\ Range(<<>>) = {}
    BY DEF Range
  <2>3. /\ Saving = <<>> /\ Copied = <<>>
        /\ Early /\ ~Late
    BY <2>1 DEF Flushers, Saving, Copied, Early, Late
  <2>4. StoreTyped
    BY <2>1, <2>2, <2>3, StoreAssumption DEF StoreTyped
  <2>5. StoreTimely
    BY <2>1, <2>2, <2>3 DEF StoreTimely, Timely, Rising, First
  <2>6. Lost = {}
    BY <2>1, <2>2 DEF Lost, TicksHandled
  <2>7. StoreKept
    BY <2>1, <2>3, <2>6 DEF StoreKept, Whole
  <2> QED BY <2>4, <2>5, <2>7 DEF StoreInv
<1>4. CandleInv
  <2>1. /\ builder = [tok \in Tokens |-> [n \in Frames |-> NoCandle]]
        /\ completed = <<>>
    BY DEF Init, CandlesInit
  <2>2. <<>> \in Seq(Candle) /\ Len(<<>>) = 0 /\ DOMAIN <<>> = {}
    OBVIOUS
  <2>3. ClosedInOrder
    BY <2>1, <2>2 DEF ClosedInOrder
  <2> QED BY <2>1, <2>2, <2>3, CandlesAssumption DEF CandleInv
<1>5. RunnerInv
  <2>1. /\ subs = [tok \in UNION Wanted |-> {}] /\ tokens = {}
        /\ strategies = {} /\ serial = 0
    BY DEF Init, RunnerInit
  <2>2. SubscriptionsAgree
    BY <2>1 DEF SubscriptionsAgree, TokensOf, Entry
  <2> QED BY <2>1, <2>2, FS_EmptySet DEF RunnerInv
<1>6. RoundInv
  BY DEF Init, RunnerInit, RoundInv
<1> QED BY <1>1, <1>2, <1>3, <1>4, <1>5, <1>6 DEF PipeInv

(* A step that leaves the candles alone.                                   *)
LEMMA CandlesStay == CandleInv /\ UNCHANGED candleVars => CandleInv'
BY DEF CandleInv, candleVars, ClosedInOrder

(* A step that leaves the strategies and the feed alone.                   *)
LEMMA RunnerStays ==
    RunnerInv /\ UNCHANGED <<subs, tokens, strategies, serial, leftover>>
        => RunnerInv'
BY DEF RunnerInv, SubscriptionsAgree, TokensOf, Entry

(* A step that leaves the round alone.                                     *)
LEMMA RoundStays == RoundInv /\ UNCHANGED runnerVars => RoundInv'
BY DEF RoundInv, runnerVars, Ahead, Calls

(* The market data: the bus, the store and the candles.                    *)
LEMMA MarketStep ==
    ASSUME PipeInv, [Next]_vars
    PROVE  StreamInv' /\ StoreInv' /\ CandleInv'
<1> USE DEF PipeInv
<1>1. CASE PublishTick
  BY <1>1, PublishKeeps, CandlesStay DEF PublishTick
<1>2. CASE HandleTick
  BY <1>2, TickKeeps
<1>3. CASE HandleCandle
  BY <1>3, CandleEventKeeps, CandlesStay DEF HandleCandle
<1>4. CASE TicksStored
  BY <1>4, FlushKeeps, CandlesStay DEF TicksStored
<1>5. CASE FlushStore \/ StoreFlushed
  BY <1>5, LateFlush, CandlesStay DEF FlushStore, StoreFlushed
<1>6. CASE BreakLoop \/ StopBus
  BY <1>6, StopKeeps, CandlesStay DEF BreakLoop, StopBus
<1>7. CASE CandleStored \/ RoundOver \/ StartBus
  <2>1. /\ UNCHANGED <<tape, queue, sent, given, storeVars>>
        /\ UNCHANGED <<candleVars, stage>>
    BY <1>7 DEF CandleStored, RoundOver, StartBus, Finish, Start
  <2> QED BY <1>7, <2>1, RestKeeps, CandlesStay
<1>8. CASE \/ VisitStrategy \/ StopStrategies
           \/ \E sid \in Sids, toks \in Wanted, starts \in BOOLEAN :
                  HttpStart(sid, toks, starts)
           \/ \E sid \in Sids : HttpStop(sid)
           \/ Settle \/ BusStopped \/ StopFeeds \/ UNCHANGED vars
  <2>1. /\ UNCHANGED <<busVars, storeVars, candleVars, tape>>
        /\ stage' = stage \/ (Early /\ Early') \/ (Late /\ Late')
    <3>1. CASE VisitStrategy
      BY <3>1 DEF VisitStrategy
    <3>2. CASE StopStrategies
      BY <3>2 DEF StopStrategies, Early, Go
    <3>3. CASE \E sid \in Sids, toks \in Wanted, starts \in BOOLEAN :
                   HttpStart(sid, toks, starts)
      BY <3>3 DEF HttpStart
    <3>4. CASE \E sid \in Sids : HttpStop(sid)
      BY <3>4 DEF HttpStop
    <3>5. CASE Settle \/ BusStopped \/ StopFeeds
      BY <3>5 DEF Settle, BusStopped, StopFeeds, Early, Late, Go
    <3>6. CASE UNCHANGED vars
      BY <3>6 DEF vars
    <3> QED BY <1>8, <3>1, <3>2, <3>3, <3>4, <3>5, <3>6
  <2>2. UNCHANGED <<tape, queue, sent, given, storeVars, loop, busy>>
    BY <2>1 DEF busVars
  <2> QED BY <2>1, <2>2, RestKeeps, CandlesStay
<1> QED BY <1>1, <1>2, <1>3, <1>4, <1>5, <1>6, <1>7, <1>8
        DEF Next, Handling, Shutdown

(* The strategies and the round of a tick.                                 *)
LEMMA RunnerStep ==
    ASSUME PipeInv, [Next]_vars
    PROVE  RunnerInv' /\ RoundInv'
<1> USE DEF PipeInv
<1>1. CASE \E sid \in Sids, toks \in Wanted, starts \in BOOLEAN :
               HttpStart(sid, toks, starts)
  <2>1. PICK sid \in Sids, toks \in Wanted, starts \in BOOLEAN :
            AddStrategy(sid, toks, starts)
    BY <1>1 DEF HttpStart
  <2>2. Disturbs
    BY <2>1 DEF AddStrategy
  <2> QED BY <2>1, <2>2, AddStep, DisturbsKeeps
<1>2. CASE StopStrategies \/ \E sid \in Sids : HttpStop(sid)
  <2>1. PICK gone : gone \subseteq strategies /\ Drop(gone)
    BY <1>2 DEF StopStrategies, HttpStop, RemoveStrategy
  <2>2. Disturbs
    BY <2>1 DEF Drop
  <2> QED BY <2>1, <2>2, DropStep, DisturbsKeeps
<1>3. CASE HandleTick
  <2>1. StartRound(Event.tok)
    BY <1>3 DEF HandleTick
  <2> QED BY <2>1, RoundStarts, RunnerStays DEF StartRound, RoundFrame
<1>4. CASE VisitStrategy
  <2>1. Visit
    BY <1>4 DEF VisitStrategy
  <2> QED BY <2>1, VisitStep, RunnerStays DEF Visit, RoundFrame
<1>5. CASE RoundOver
  <2>1. EndRound
    BY <1>5 DEF RoundOver
  <2>2. RoundInv'
    BY <2>1 DEF EndRound, RoundInv
  <2> QED BY <2>1, <2>2, RunnerStays DEF EndRound, RoundFrame
<1>6. CASE UNCHANGED runnerVars
  BY <1>6, RunnerStays, RoundStays DEF runnerVars
<1>7. \/ StopStrategies \/ HandleTick \/ VisitStrategy \/ RoundOver
      \/ \E sid \in Sids, toks \in Wanted, starts \in BOOLEAN :
             HttpStart(sid, toks, starts)
      \/ \E sid \in Sids : HttpStop(sid)
      \/ UNCHANGED runnerVars
  <2>1. PublishTick \/ HandleCandle \/ CandleStored \/ TicksStored
            => UNCHANGED runnerVars
    BY DEF PublishTick, HandleCandle, CandleStored, TicksStored
  <2>2. StartBus \/ BreakLoop => UNCHANGED runnerVars
    BY DEF StartBus, BreakLoop
  <2>3. Shutdown => UNCHANGED runnerVars
    BY DEF Shutdown, Settle, FlushStore, StoreFlushed, StopBus, BusStopped,
           StopFeeds
  <2>4. UNCHANGED vars => UNCHANGED runnerVars
    BY DEF vars
  <2> QED BY <2>1, <2>2, <2>3, <2>4 DEF Next, Handling
<1> QED BY <1>1, <1>2, <1>3, <1>4, <1>5, <1>6, <1>7

(* The pipeline's invariant holds in every state.                          *)
LEMMA PipeAlways == Spec => []PipeInv
<1>1. Init => PipeInv
  BY PipeInit
<1>2. PipeInv /\ [Next]_vars => PipeInv'
  <2> SUFFICES ASSUME PipeInv, [Next]_vars PROVE PipeInv'
    OBVIOUS
  <2>1. BusInv'
    BY Step DEF PipeInv
  <2> QED BY <2>1, MarketStep, RunnerStep DEF PipeInv
<1> QED BY <1>1, <1>2, PTL DEF Spec

(* Whatever commits fail, are reported failed or overlap, ticks leave the  *)
(* buffer without a row only if they came after the shutdown's flush began *)
(* and another overtook it, and no more than it had copied (store.py:88).  *)
THEOREM LossConfined == Spec => []TicksKept
<1>1. PipeInv => TicksKept
  <2> SUFFICES ASSUME StoreInv PROVE TicksKept
    BY DEF PipeInv
  <2>1. Lost = {} => TicksKept
    BY FS_EmptySet DEF TicksKept, StoreInv, StoreTyped
  <2> QED BY <2>1 DEF StoreInv, StoreKept, Whole, Landed
<1> QED BY <1>1, PipeAlways, PTL

(* Once the shutdown's flush has ended without failing, every tick handled *)
(* before it began has its row.                                            *)
THEOREM FlushStores == Spec => []FlushedAtStop
<1>1. PipeInv => FlushedAtStop
  BY DEF PipeInv, StoreInv, StoreKept, Landed, Late, FlushedAtStop
<1> QED BY <1>1, PipeAlways, PTL

(* Candles of an instrument and a timeframe close in the order of their    *)
(* intervals, each once.                                                   *)
THEOREM CandlesCloseInOrder == Spec => []ClosedInOrder
<1>1. PipeInv => ClosedInOrder
  BY DEF PipeInv, CandleInv
<1> QED BY <1>1, PipeAlways, PTL

(* The feed and the runner agree on who wants what.                        *)
THEOREM FeedAndRunnerAgree == Spec => []SubscriptionsAgree
<1>1. PipeInv => SubscriptionsAgree
  BY DEF PipeInv, RunnerInv
<1> QED BY <1>1, PipeAlways, PTL

(* A tick's round that nobody disturbs calls every strategy that wants it. *)
THEOREM RoundsCallAll == Spec => EachTickOnce
<1> DEFINE Fair == round # NoRound /\ round' = NoRound /\ round.calm
                       => round.called = Interested
<1>1. PipeInv /\ [Next]_vars => [Fair]_round
  <2> SUFFICES ASSUME PipeInv, [Next]_vars, round # NoRound, round' = NoRound,
                      round.calm
               PROVE  round.called = Interested
    OBVIOUS
  <2>1. EndRound
    <3>1. DOMAIN round = {"tok", "size", "left", "last", "called", "calm"}
      BY DEF PipeInv, RoundInv
    <3>2. DOMAIN NoRound = {"last"}
      BY DEF NoRound
    <3>3. ~UNCHANGED round
      OBVIOUS
    <3>4. ~Disturbs
      BY <3>1, <3>2 DEF Disturbs
    <3>5. ~Visit
      BY <3>1, <3>2 DEF Visit
    <3>6. \A tok : ~StartRound(tok)
      BY <3>2 DEF StartRound
    <3>7. ~PublishTick /\ ~HandleCandle /\ ~CandleStored /\ ~TicksStored
          /\ ~StartBus /\ ~BreakLoop
      BY <3>3 DEF PublishTick, HandleCandle, CandleStored, TicksStored,
                  StartBus, BreakLoop, runnerVars
    <3>8. ~Shutdown
      BY <3>3 DEF Shutdown, Settle, FlushStore, StoreFlushed, StopBus,
                  BusStopped, StopFeeds, runnerVars
    <3>9. ~StopStrategies /\ (\A sid \in Sids : ~HttpStop(sid))
          /\ \A sid \in Sids, toks \in Wanted, starts \in BOOLEAN :
                 ~HttpStart(sid, toks, starts)
      BY <3>4 DEF StopStrategies, HttpStop, HttpStart, AddStrategy,
                  RemoveStrategy, Drop
    <3>10. ~HandleTick /\ ~VisitStrategy
      BY <3>5, <3>6 DEF HandleTick, VisitStrategy
    <3>11. RoundOver
      BY <3>3, <3>7, <3>8, <3>9, <3>10 DEF Next, Handling, vars, runnerVars
    <3> QED BY <3>11 DEF RoundOver
  <2> QED BY <2>1, RoundEnds DEF PipeInv
<1> QED BY <1>1, PipeAlways, PTL DEF Spec, EachTickOnce

(* The types of the pipeline's state, and the sizes of what it keeps.      *)
THEOREM PipelineTypeCorrect == Spec => []TypeOK
<1>1. PipeInv => TypeOK
  <2> SUFFICES ASSUME PipeInv PROVE TypeOK
    OBVIOUS
  <2>1. /\ running \in BOOLEAN /\ loop \in {"none", "get", "handle", "over"}
        /\ busy \subseteq {"store", "runner"} /\ Len(given) <= Len(sent)
        /\ Len(buffer) <= Len(given) /\ failures \in 0..MaxFailures
    BY DEF PipeInv, BusInv, StreamInv, StoreInv, StoreTyped
  <2>2. /\ \A tok \in Tokens, n \in Frames :
               builder[tok][n] # NoCandle => builder[tok][n].frame = n
        /\ Len(completed) <= MaxCandles
    BY DEF PipeInv, CandleInv
  <2>3. Cardinality(tokens) <= Cardinality(Sids)
    <3> DEFINE f == [e \in tokens |-> e.sid]
    <3>1. /\ tokens \subseteq Entries
          /\ \A d, e \in tokens : d.sid = e.sid => d = e
      BY DEF PipeInv, RunnerInv
    <3>2. f \in Injection(tokens, Sids)
      BY <3>1 DEF Entries, Injection, IsInjective
    <3> HIDE DEF f
    <3> QED BY <3>2, FS_Injection, PipelineAssumption
  <2> QED BY <2>1, <2>2, <2>3 DEF TypeOK, PipeInv, RunnerInv
<1> QED BY <1>1, PipeAlways, PTL
-----------------------------------------------------------------------------
(* The candle of a tick's interval is the only multiple of its length that *)
(* far below it.                                                           *)
LEMMA AlignedOnce ==
    ASSUME NEW x \in Nat, NEW y \in Nat, NEW l \in Nat \ {0},
           Align(x, l) <= y, y < Align(x, l) + l
    PROVE  Align(y, l) = Align(x, l)
<1> DEFINE p == x \div l
           q == y \div l
<1>1. /\ x = l * p + (x % l) /\ y = l * q + (y % l) /\ p \in Nat /\ q \in Nat
      /\ x % l \in 0..l - 1 /\ y % l \in 0..l - 1
  OBVIOUS
<1> HIDE DEF p, q
<1>2. l * p \in Nat /\ l * q \in Nat
  BY <1>1
<1>3. Align(x, l) = l * p /\ Align(y, l) = l * q
  <2>1. Align(x, l) = x - (x % l) /\ Align(y, l) = y - (y % l)
    BY DEF Align
  <2> DEFINE r == x % l
             s == y % l
             a == l * p
             b == l * q
  <2>2. /\ x = a + r /\ y = b + s /\ r \in Int /\ s \in Int
        /\ a \in Int /\ b \in Int
        /\ Align(x, l) = x - r /\ Align(y, l) = y - s
    BY <1>1, <1>2, <2>1
  <2> HIDE DEF r, s, a, b
  <2>3. Align(x, l) = a /\ Align(y, l) = b
    BY <2>2
  <2> QED BY <2>3 DEF a, b
<1>4. ASSUME p < q PROVE FALSE
  <2>1. PICK d \in Nat : q = p + 1 + d
    <3>1. q - p - 1 \in Nat /\ q = p + 1 + (q - p - 1)
      BY <1>1, <1>4
    <3> QED BY <3>1
  <2>2. l * q = l * p + l + l * d /\ l * d \in Nat
    BY <1>1, <2>1
  <2> QED BY <1>1, <1>2, <1>3, <2>2
<1>5. ASSUME q < p PROVE FALSE
  <2>1. PICK d \in Nat : p = q + 1 + d
    <3>1. p - q - 1 \in Nat /\ p = q + 1 + (p - q - 1)
      BY <1>1, <1>5
    <3> QED BY <3>1
  <2>2. l * p = l * q + l + l * d /\ l * d \in Nat
    BY <1>1, <2>1
  <2> QED BY <1>1, <1>2, <1>3, <2>2
<1> QED BY <1>1, <1>3, <1>4, <1>5

(* Why the candles are exact: besides, the volumes handed out are not      *)
(* above those still queued, and a candle is built once a tick came.       *)
ExactInv ==
    /\ \A k \in Handled :
           given[k].volume <= Traded /\ Before(given[k].volume, queue)
    /\ \A tok \in Tokens, n \in Frames :
           builder[tok][n] = NoCandle => HandledOf(tok) = {}
    /\ CandlesExact

(* A step that hands out nothing and leaves the candles alone keeps them   *)
(* exact.                                                                  *)
LEMMA ExactStays ==
    ASSUME StreamInv, ExactInv, UNCHANGED <<given, builder, completed>>,
           QueueKept
    PROVE  ExactInv'
<1>1. \A k \in Handled :
          given'[k].volume <= Traded' /\ Before(given'[k].volume, queue')
  <2>1. \A k \in Handled : given[k].volume \in Nat
    <3>1. \A k \in DOMAIN given : given[k] \in Events
      BY DEF StreamInv
    <3> QED BY <3>1, Kinds DEF Handled, IsTick
  <2> QED BY <2>1 DEF ExactInv, QueueKept
<1> QED BY <1>1 DEF ExactInv, Handled, HandledOf, CandlesExact, Interval,
                    Ordered, Makes

(* A tick is handled: the events given are one more, and it is the last.   *)
LEMMA TickGiven ==
    ASSUME BusInv, StreamInv, StoreInv, CandleInv, HandleTick
    PROVE  LET t == Event
               N == Len(given) + 1
           IN  /\ t \in Ticks /\ IsTick(t) /\ AddTick(t)
               /\ given \in Seq(Events) /\ N \in Nat
               /\ DOMAIN given' = 1..N /\ DOMAIN given = 1..Len(given)
               /\ given'[N] = t /\ \A k \in 1..Len(given) : given'[k] = given[k]
               /\ \A v : Before(v, queue) => Before(v, queue') /\ v <= t.volume
               /\ Before(t.volume, queue')
               /\ Traded \in Nat /\ Traded' \in Nat /\ Traded <= Traded'
               /\ t.volume <= Traded
<1> DEFINE x == [k \in DOMAIN Closed(Event) |-> Announce(Closed(Event)[k])]
           waits == {"runner"} \cup {h \in {"store"} : Full(buffer')}
           t == Event
<1>1. /\ IsTick(t) /\ AddTick(t) /\ Dispatch(x, waits) /\ UNCHANGED tape
  BY DEF HandleTick, IsTick
<1>2. t \in Ticks
  <2>1. loop = "get" /\ queue # <<>>
    BY <1>1 DEF Dispatch
  <2>2. t = Head(queue) /\ Ascends(queue, Traded)
    BY <2>1 DEF Event, StreamInv
  <2>3. t \in Events \cup {Sentinel}
    BY <2>1, <2>2, QueueTail
  <2> QED BY <1>1, <2>3, Kinds
<1>3. x \in Seq(Events) /\ \A n \in 1..Len(x) : ~IsTick(x[n])
  BY <1>2, AnnouncesCandles
<1>4. waits \subseteq {"store", "runner"}
  OBVIOUS
<1> HIDE DEF x, waits
<1>5. /\ given' = Append(given, t) /\ t \in Events
      /\ \A v : Before(v, queue) => Before(v, queue')
      /\ Before(t.volume, queue')
      /\ \A v : Before(v, queue) => v <= t.volume
      /\ Traded \in Nat /\ Traded' \in Nat /\ Traded <= Traded'
      /\ t.volume <= Traded
  BY <1>1, <1>3, <1>4, DispatchKeeps
<1>6. given \in Seq(Events)
  BY DEF StreamInv
<1>7. /\ Len(given) \in Nat /\ DOMAIN given' = 1..Len(given) + 1
      /\ DOMAIN given = 1..Len(given) /\ given'[Len(given) + 1] = t
      /\ \A k \in 1..Len(given) : given'[k] = given[k]
  <2> HIDE DEF t
  <2> QED BY <1>5, <1>6
<1> QED BY <1>1, <1>2, <1>5, <1>6, <1>7

(* Is c the candle of the events of g at the places K?                     *)
MakesOf(g, K, c) ==
    /\ \E first, last \in K :
           /\ \A k \in K : first <= k /\ k <= last
           /\ c.open = g[first].ltp /\ c.close = g[last].ltp
           /\ c.first = g[first].volume
           /\ c.volume = g[last].volume - g[first].volume
    /\ \A k \in K : c.low <= g[k].ltp /\ g[k].ltp <= c.high
    /\ \E k \in K : c.low = g[k].ltp
    /\ \E k \in K : c.high = g[k].ltp

(* A candle depends on the ticks of its places only.                       *)
LEMMA MakesSame ==
    ASSUME NEW g, NEW h, NEW K, \A k \in K : h[k] = g[k], NEW c
    PROVE  MakesOf(h, K, c) <=> MakesOf(g, K, c)
BY DEF MakesOf

(* The tick that opens a candle makes it.                                  *)
LEMMA MakesFirst ==
    ASSUME NEW g, NEW N \in Nat, NEW t \in Ticks, g[N] = t, NEW n
    PROVE  MakesOf(g, {N}, NewCandle(t, n))
<1>1. t.volume \in Nat /\ t.ltp \in Nat
  BY DEF Ticks
<1> QED BY <1>1 DEF MakesOf, NewCandle

(* One more tick of the interval, the last, makes the updated candle.      *)
LEMMA MakesNext ==
    ASSUME NEW g, NEW h, NEW N \in Nat, NEW K \in SUBSET (1..N - 1),
           NEW t \in Ticks, h[N] = t, \A k \in K : h[k] = g[k] /\ g[k] \in Ticks,
           \A k \in K : g[k].volume <= t.volume,
           NEW c \in Candle, MakesOf(g, K, c)
    PROVE  MakesOf(h, K \cup {N}, Update(c, t))
<1> DEFINE d == Update(c, t)
<1>1. /\ t.volume \in Nat /\ t.ltp \in Nat
      /\ \A k \in K : g[k].ltp \in Nat /\ g[k].volume \in Nat
      /\ \A k \in K : k \in Nat /\ k < N
  <2>1. \A e \in Ticks : e.ltp \in Nat /\ e.volume \in Nat
    BY DEF Ticks
  <2>2. \A k \in K : g[k] \in Ticks
    OBVIOUS
  <2>3. \A k \in K : k \in 1..N - 1
    OBVIOUS
  <2>4. \A k \in 1..N - 1 : k \in Nat /\ k < N
    OBVIOUS
  <2> QED BY <2>1, <2>2, <2>3, <2>4
<1>2. /\ DOMAIN c = {"start", "tok", "frame", "open", "high", "low", "close",
                     "first", "volume"}
      /\ c.high \in Nat /\ c.low \in Nat /\ c.first \in Nat
  BY DEF Candle
<1>3. /\ d.open = c.open /\ d.first = c.first
      /\ d.high = Larger(c.high, t.ltp) /\ d.low = Smaller(c.low, t.ltp)
      /\ d.close = t.ltp /\ d.volume = Larger(0, t.volume - c.first)
  BY <1>2 DEF Update
<1> HIDE DEF d
<1>4. PICK first \in K :
          /\ \A k \in K : first <= k
          /\ c.open = g[first].ltp /\ c.first = g[first].volume
  BY DEF MakesOf
<1>5. d.volume = t.volume - g[first].volume
  BY <1>1, <1>3, <1>4 DEF Larger
<1>6. \E f, l \in K \cup {N} :
          /\ \A k \in K \cup {N} : f <= k /\ k <= l
          /\ d.open = h[f].ltp /\ d.close = h[l].ltp
          /\ d.first = h[f].volume
          /\ d.volume = h[l].volume - h[f].volume
  <2>1. \A k \in K \cup {N} : first <= k /\ k <= N
    BY <1>1, <1>4
  <2>2. /\ d.open = h[first].ltp /\ d.close = h[N].ltp
        /\ d.first = h[first].volume
        /\ d.volume = h[N].volume - h[first].volume
    BY <1>3, <1>4, <1>5
  <2> QED BY <2>1, <2>2
<1>7. \A k \in K : c.low <= g[k].ltp /\ g[k].ltp <= c.high
  BY DEF MakesOf
<1>8. \A k \in K \cup {N} : d.low <= h[k].ltp /\ h[k].ltp <= d.high
  BY <1>1, <1>2, <1>3, <1>7 DEF Larger, Smaller
<1>9. \E k \in K \cup {N} : d.low = h[k].ltp
  <2>1. PICK k \in K : c.low = g[k].ltp
    BY DEF MakesOf
  <2> QED BY <1>3, <2>1 DEF Smaller
<1>10. \E k \in K \cup {N} : d.high = h[k].ltp
  <2>1. PICK k \in K : c.high = g[k].ltp
    BY DEF MakesOf
  <2> QED BY <1>3, <2>1 DEF Larger
<1> QED BY <1>6, <1>8, <1>9, <1>10 DEF MakesOf, d

(* The candles completed after a tick: those before, and those it closes.  *)
LEMMA CompletedFrom ==
    ASSUME CandleInv, NEW t \in Ticks, AddTick(t), NEW j \in 1..Len(completed')
    PROVE  \/ \E k \in 1..Len(completed) : completed'[j] = completed[k]
           \/ \E n \in Frames : /\ Closes(builder[t.tok][n], t)
                                /\ completed'[j] = builder[t.tok][n]
<1> DEFINE cc == completed \o Closed(t)
           K == Len(Closed(t))
           L == Len(completed)
<1>1. /\ completed \in Seq(Candle) /\ Closed(t) \in Seq(Candle)
      /\ K \in Nat /\ L \in Nat /\ completed' = Newest(cc)
      /\ \A k \in 1..K :
            \E n \in Frames : /\ Closes(builder[t.tok][n], t)
                              /\ Closed(t)[k] = builder[t.tok][n]
  <2>1. /\ Closed(t) \in Seq(Candle)
        /\ \A k \in 1..Len(Closed(t)) :
              \E n \in Frames : /\ Closes(builder[t.tok][n], t)
                                /\ Closed(t)[k] = builder[t.tok][n]
    BY ClosedCandles
  <2>2. completed \in Seq(Candle) /\ completed' = Newest(cc)
    BY DEF CandleInv, AddTick
  <2> QED BY <2>1, <2>2
<1>2. /\ cc \in Seq(Candle) /\ Len(cc) = L + K
      /\ \A k \in 1..L : cc[k] = completed[k]
      /\ \A k \in 1..K : cc[L + k] = Closed(t)[k]
  BY <1>1, Grows
<1> HIDE DEF cc, K, L
<1>3. PICK d \in Nat : /\ Len(Newest(cc)) + d = Len(cc)
                       /\ \A k \in 1..Len(Newest(cc)) : Newest(cc)[k] = cc[k + d]
  BY <1>2, NewestEnd
<1>4. Newest(cc) \in Seq(Candle)
  BY <1>2, NewestEnd
<1>5. j + d \in 1..L + K /\ completed'[j] = cc[j + d]
  BY <1>1, <1>2, <1>3, <1>4
<1>6. CASE j + d <= L
  BY <1>1, <1>2, <1>5, <1>6 DEF L
<1>7. CASE j + d > L
  <2>1. j + d - L \in 1..K /\ j + d = L + (j + d - L)
    BY <1>1, <1>5, <1>7
  <2>2. completed'[j] = Closed(t)[j + d - L]
    BY <1>2, <1>5, <2>1
  <2> QED BY <1>1, <2>1, <2>2
<1> QED BY <1>1, <1>5, <1>6, <1>7
-----------------------------------------------------------------------------
(* A candle that was not closed by a tick no earlier than its own ones is  *)
(* that of the tick's interval.                                            *)
LEMMA SameInterval ==
    ASSUME NEW t \in Ticks, NEW u \in Ticks, NEW n \in Frames,
           u.time <= t.time, NEW c \in Candle, c.frame = n, ~Closes(c, t),
           Align(u.time, Timeframes[n]) = c.start
    PROVE  Align(t.time, Timeframes[n]) = c.start
<1>1. Timeframes[n] \in Nat \ {0} /\ t.time \in Nat /\ u.time \in Nat
  BY Framed DEF Ticks
<1>2. c # NoCandle /\ c.start \in Nat
  <2>1. c.start \in Nat /\ NoCandle.start = -1
    BY DEF Candle, NoCandle
  <2> QED BY <2>1
<1>3. t.time < c.start + Timeframes[n]
  BY <1>1, <1>2 DEF Closes
<1>4. c.start <= t.time
  BY <1>1, <1>2, Aligned
<1> QED BY <1>1, <1>3, <1>4, AlignedOnce

(* A tick handled keeps the candles exact: it joins the candle of its own  *)
(* interval, or closes that and opens the next.                            *)
LEMMA ExactTick ==
    ASSUME BusInv, StreamInv, StoreInv, CandleInv, ExactInv, HandleTick
    PROVE  ExactInv'
<1>0. PICK t : t = Event
  OBVIOUS
<1> DEFINE N == Len(given) + 1
           g == given
           h == given'
           A(n) == Align(t.time, Timeframes[n])
           J(tok, n, s) == {k \in Handled' : /\ h[k].tok = tok
                                             /\ Align(h[k].time, Timeframes[n]) = s}
<1>1. /\ t \in Ticks /\ t.type = "tick" /\ AddTick(t)
      /\ g \in Seq(Events) /\ N \in Nat
      /\ DOMAIN h = 1..N /\ DOMAIN g = 1..N - 1
      /\ h[N] = t /\ \A k \in 1..N - 1 : h[k] = g[k]
      /\ \A v : Before(v, queue) => Before(v, queue') /\ v <= t.volume
      /\ Before(t.volume, queue')
      /\ Traded \in Nat /\ Traded' \in Nat /\ Traded <= Traded'
      /\ t.volume <= Traded
  <2>1. Len(given) \in Nat /\ N - 1 = Len(given)
    BY DEF StreamInv
  <2> QED BY <1>0, <2>1, TickGiven DEF IsTick
<1>2. CandleInv'
  BY <1>1, CandleStep
<1> HIDE DEF N, g, h
<1>3. /\ Handled = {k \in 1..N - 1 : g[k].type = "tick"}
      /\ Handled' = {k \in 1..N : h[k].type = "tick"}
  BY <1>1 DEF Handled, g, h
<1>4. /\ Handled' = Handled \cup {N} /\ N \notin Handled
      /\ \A k \in Handled : h[k] = g[k] /\ g[k] \in Ticks /\ k \in 1..N - 1
  <2>1. 1..N = 1..(N - 1) \cup {N} /\ N \notin 1..(N - 1)
    BY <1>1 DEF N, StreamInv
  <2>2. \A k \in 1..N - 1 : g[k] \in Events
    BY <1>1
  <2>3. \A k \in Handled : g[k] \in Ticks
    BY <1>3, <2>2, Kinds DEF IsTick
  <2>4. \A k \in Handled : h[k] = g[k] /\ k \in 1..N - 1
    BY <1>1, <1>3
  <2>5. Handled' = Handled \cup {N}
    BY <1>1, <1>3, <2>1
  <2> QED BY <1>3, <2>1, <2>3, <2>4, <2>5
<1>5. \A tok : /\ HandledOf(tok) = {k \in Handled : g[k].tok = tok}
               /\ HandledOf(tok)' = IF tok = t.tok THEN HandledOf(tok) \cup {N}
                                                 ELSE HandledOf(tok)
  <2>1. \A tok : /\ HandledOf(tok) = {k \in Handled : g[k].tok = tok}
                 /\ HandledOf(tok)' = {k \in Handled' : h[k].tok = tok}
    BY DEF HandledOf, g, h
  <2> QED BY <1>1, <1>4, <2>1
<1>6. \A tok, n, s :
          /\ Interval(tok, n, s) =
                {k \in HandledOf(tok) : Align(g[k].time, Timeframes[n]) = s}
          /\ J(tok, n, s) =
                IF tok = t.tok /\ A(n) = s THEN Interval(tok, n, s) \cup {N}
                                           ELSE Interval(tok, n, s)
  <2>1. \A tok, n, s :
          Interval(tok, n, s) =
                {k \in HandledOf(tok) : Align(g[k].time, Timeframes[n]) = s}
    BY DEF Interval, g
  <2>2. \A tok, n, s :
          J(tok, n, s) =
                {k \in HandledOf(tok)' : Align(h[k].time, Timeframes[n]) = s}
    BY DEF HandledOf, h
  <2>3. \A tok : \A k \in HandledOf(tok) : h[k] = g[k]
    BY <1>4, <1>5
  <2> HIDE DEF A, J
  <2>4. h[N] = t /\ \A n : Align(h[N].time, Timeframes[n]) = A(n)
    BY <1>1 DEF A
  <2> QED BY <1>5, <2>1, <2>2, <2>3, <2>4
<1> HIDE DEF J
<1>7. \A k \in Handled' : h[k].volume <= Traded' /\ Before(h[k].volume, queue')
  <2>1. \A k \in Handled : g[k].volume <= Traded /\ Before(g[k].volume, queue)
    BY DEF ExactInv, g
  <2>2. \A u \in Ticks : u.volume \in Nat
    BY DEF Ticks
  <2>3. \A u \in Ticks : u.volume <= Traded => u.volume <= Traded'
    BY <1>1, <2>2
  <2>4. \A k \in Handled : /\ h[k].volume <= Traded'
                            /\ Before(h[k].volume, queue')
    BY <1>1, <1>4, <2>1, <2>3
  <2>5. h[N].volume <= Traded' /\ Before(h[N].volume, queue')
    BY <1>1, <2>3
  <2> QED BY <1>4, <2>4, <2>5
<1>8. \A k \in Handled : g[k].volume <= t.volume
  BY <1>1 DEF ExactInv, g
<1>9. /\ t.tok \in Tokens
      /\ \A tok \in Tokens, n \in Frames :
             /\ builder[tok][n] \in Candle \cup {NoCandle}
             /\ builder[tok][n] # NoCandle =>
                    builder[tok][n].tok = tok /\ builder[tok][n].frame = n
             /\ builder'[tok][n] = IF tok = t.tok THEN Built(builder[tok][n], t, n)
                                   ELSE builder[tok][n]
  <2>1. t.tok \in Tokens
    BY <1>1 DEF Ticks
  <2>2. builder \in [Tokens -> [Frames -> Candle \cup {NoCandle}]]
    BY DEF CandleInv
  <2>3. builder' = [builder EXCEPT ![t.tok] =
                        [n \in Frames |-> Built(builder[t.tok][n], t, n)]]
    BY <1>1 DEF AddTick
  <2>4. \A tok \in Tokens, n \in Frames :
             builder'[tok][n] = IF tok = t.tok THEN Built(builder[tok][n], t, n)
                                ELSE builder[tok][n]
    BY <2>1, <2>2, <2>3
  <2> QED BY <2>1, <2>2, <2>4 DEF CandleInv
<1>10. NoCandle \notin Candle
  BY DEF NoCandle, Candle
<1>11. \A tok \in Tokens, n \in Frames :
           builder'[tok][n] = NoCandle => HandledOf(tok)' = {}
  <2>1. \A n \in Frames : Built(builder[t.tok][n], t, n) \in Candle
    BY <1>1, <1>9, BuiltCandle
  <2> QED BY <1>5, <1>9, <1>10, <2>1 DEF ExactInv
<1>12. ASSUME Ordered'
       PROVE  /\ \A tok \in Tokens, n \in Frames :
                     LET c == builder'[tok][n]
                     IN  IF HandledOf(tok)' = {} THEN c = NoCandle
                         ELSE /\ \A k \in HandledOf(tok)' :
                                     Align(h[k].time, Timeframes[n]) <= c.start
                              /\ MakesOf(h, J(tok, n, c.start), c)
              /\ \A j \in 1..Len(completed') :
                     LET c == completed'[j]
                     IN  MakesOf(h, J(c.tok, c.frame, c.start), c)
  <2>1. \A j, k \in Handled' : j < k => h[j].time <= h[k].time
    BY <1>12 DEF Ordered, h
  <2>2. \A k \in Handled : g[k].time <= t.time
    <3>1. \A k \in 1..N - 1 : k < N
      BY <1>1
    <3> QED BY <1>1, <1>4, <2>1, <3>1
  <2>3. Ordered
    BY <1>4, <2>1 DEF Ordered, g
  <2>4. /\ \A tok \in Tokens, n \in Frames :
                LET c == builder[tok][n]
                IN  IF HandledOf(tok) = {} THEN c = NoCandle
                    ELSE /\ \A k \in HandledOf(tok) :
                                Align(g[k].time, Timeframes[n]) <= c.start
                         /\ MakesOf(g, Interval(tok, n, c.start), c)
        /\ \A c \in Range(completed) :
                MakesOf(g, Interval(c.tok, c.frame, c.start), c)
    <3>1. \A K, c : Makes(K, c) <=> MakesOf(g, K, c)
      BY DEF Makes, MakesOf, g
    <3>2. CandlesExact
      BY DEF ExactInv
    <3> QED BY <2>3, <3>1, <3>2 DEF CandlesExact, g
  <2>5. \A tok, n, s : \A k \in Interval(tok, n, s) :
            /\ k \in HandledOf(tok) /\ k \in Handled /\ h[k] = g[k]
            /\ g[k] \in Ticks /\ k \in 1..N - 1
            /\ Align(g[k].time, Timeframes[n]) = s
    BY <1>4, <1>5, <1>6
  <2>6. \A tok, n, s, c : MakesOf(g, Interval(tok, n, s), c) =>
                              MakesOf(h, Interval(tok, n, s), c)
    BY <2>5, MakesSame
  <2>7. ASSUME NEW n \in Frames
        PROVE  LET c == builder'[t.tok][n]
               IN  /\ c.start = A(n)
                   /\ \A k \in HandledOf(t.tok)' :
                          Align(h[k].time, Timeframes[n]) <= c.start
                   /\ MakesOf(h, J(t.tok, n, c.start), c)
    <3> DEFINE tok == t.tok
               b == builder[tok][n]
               c == builder'[tok][n]
    <3>1. c = Built(b, t, n) /\ b \in Candle \cup {NoCandle}
      BY <1>9
    <3>2. A(n) \in Nat /\ NewCandle(t, n).start = A(n)
      <4>1. t.time \in Nat /\ Timeframes[n] \in Nat \ {0}
        BY <1>1, Framed DEF Ticks
      <4> QED BY <4>1, Aligned DEF NewCandle
    <3>3. b # NoCandle => /\ HandledOf(tok) # {} /\ b \in Candle
                          /\ \A k \in HandledOf(tok) :
                                Align(g[k].time, Timeframes[n]) <= b.start
                          /\ MakesOf(g, Interval(tok, n, b.start), b)
                          /\ b.frame = n /\ b.start \in Nat
      BY <1>9, <2>4, <3>1 DEF Candle
    <3>4. \A k \in HandledOf(tok) :
              h[k] = g[k] /\ Align(g[k].time, Timeframes[n]) \in Nat
      <4>1. \A u \in Ticks : Align(u.time, Timeframes[n]) \in Nat
        <5>1. \A u \in Ticks : u.time \in Nat
          BY DEF Ticks
        <5>2. Timeframes[n] \in Nat \ {0}
          BY Framed
        <5> QED BY <5>1, <5>2, Aligned
      <4> QED BY <1>4, <1>5, <4>1
    <3> HIDE DEF A
    <3>5. ASSUME c = NewCandle(t, n), \A k \in HandledOf(tok) :
                     Align(g[k].time, Timeframes[n]) < A(n)
          PROVE  /\ c.start = A(n)
                 /\ \A k \in HandledOf(tok)' :
                        Align(h[k].time, Timeframes[n]) <= c.start
                 /\ MakesOf(h, J(tok, n, c.start), c)
      <4>1. c.start = A(n)
        BY <3>2, <3>5
      <4>2. Interval(tok, n, A(n)) = {}
        BY <1>6, <3>2, <3>4, <3>5
      <4>3. J(tok, n, A(n)) = {N}
        BY <1>6, <4>2
      <4>4. MakesOf(h, {N}, c)
        BY <1>1, <3>5, MakesFirst
      <4>5. \A k \in HandledOf(tok)' :
                Align(h[k].time, Timeframes[n]) <= A(n)
        BY <1>1, <1>5, <3>2, <3>4, <3>5 DEF A
      <4> QED BY <4>1, <4>3, <4>4, <4>5
    <3>6. CASE b = NoCandle
      <4>1. HandledOf(tok) = {}
        BY <1>9, <3>6 DEF ExactInv
      <4> QED BY <3>1, <3>5, <3>6, <4>1 DEF Built
    <3>7. CASE b # NoCandle /\ Closes(b, t)
      <4>1. c = NewCandle(t, n)
        BY <3>1, <3>7 DEF Built
      <4>2. b.start < c.start
        BY <1>1, <1>9, <3>1, <3>7, BuiltCandle
      <4>3. \A k \in HandledOf(tok) :
                Align(g[k].time, Timeframes[n]) < A(n)
        BY <3>2, <3>3, <3>4, <3>7, <4>1, <4>2
      <4> QED BY <3>5, <4>1, <4>3
    <3>8. CASE b # NoCandle /\ ~Closes(b, t)
      <4>1. c = Update(b, t) /\ c.start = b.start
        <5>1. c = Update(b, t)
          BY <3>1, <3>8 DEF Built
        <5>2. Update(b, t).start = b.start
          BY <3>3, <3>8 DEF Update, Candle
        <5> QED BY <5>1, <5>2
      <4>2. PICK k \in Interval(tok, n, b.start) : TRUE
        BY <3>3, <3>8 DEF MakesOf
      <4>3. g[k] \in Ticks /\ g[k].time <= t.time
            /\ Align(g[k].time, Timeframes[n]) = b.start
        BY <2>2, <2>5, <4>2
      <4>4. A(n) = b.start
        BY <1>1, <3>3, <3>8, <4>3, SameInterval DEF A
      <4>5. J(tok, n, b.start) = Interval(tok, n, b.start) \cup {N}
        BY <1>6, <4>4 DEF A
      <4>6. MakesOf(h, Interval(tok, n, b.start) \cup {N}, Update(b, t))
        <5> DEFINE K == Interval(tok, n, b.start)
        <5>1. /\ K \in SUBSET (1..N - 1)
              /\ \A j \in K : h[j] = g[j] /\ g[j] \in Ticks
              /\ \A j \in K : g[j].volume <= t.volume
          BY <1>8, <2>5
        <5>2. MakesOf(g, K, b) /\ b \in Candle
          BY <3>3, <3>8
        <5> HIDE DEF K, b
        <5>3. MakesOf(h, K \cup {N}, Update(b, t))
          BY <1>1, <5>1, <5>2, MakesNext
        <5> QED BY <5>3 DEF K, b
      <4>7. \A j \in HandledOf(tok)' :
                Align(h[j].time, Timeframes[n]) <= b.start
        BY <1>1, <1>5, <3>2, <3>3, <3>4, <3>8, <4>4 DEF A
      <4> QED BY <4>1, <4>4, <4>5, <4>6, <4>7
    <3> QED BY <3>6, <3>7, <3>8
  <2>8. ASSUME NEW tok \in Tokens, NEW n \in Frames, tok # t.tok
        PROVE  LET c == builder'[tok][n]
               IN  IF HandledOf(tok)' = {} THEN c = NoCandle
                   ELSE /\ \A k \in HandledOf(tok)' :
                               Align(h[k].time, Timeframes[n]) <= c.start
                        /\ MakesOf(h, J(tok, n, c.start), c)
    <3>1. builder'[tok][n] = builder[tok][n] /\ HandledOf(tok)' = HandledOf(tok)
      BY <1>5, <1>9, <2>8
    <3>2. \A k \in HandledOf(tok) : h[k] = g[k]
      BY <1>4, <1>5
    <3>3. \A s : J(tok, n, s) = Interval(tok, n, s)
      BY <1>6, <2>8
    <3> QED BY <2>4, <2>6, <3>1, <3>2, <3>3
  <2>9. ASSUME NEW j \in 1..Len(completed')
        PROVE  LET c == completed'[j]
               IN  MakesOf(h, J(c.tok, c.frame, c.start), c)
    <3> DEFINE c == completed'[j]
    <3>1. /\ c \in Candle /\ c.tok \in Tokens /\ c.frame \in Frames
          /\ c.start < builder'[c.tok][c.frame].start
      <4>1. /\ completed' \in Seq(Candle) /\ ClosedInOrder'
        BY <1>2 DEF CandleInv
      <4>2. c \in Candle /\ j \in DOMAIN completed'
        BY <4>1
      <4> QED BY <4>1, <4>2 DEF ClosedInOrder, Candle
    <3>2. MakesOf(g, Interval(c.tok, c.frame, c.start), c)
      <4>1. CASE \E k \in 1..Len(completed) : c = completed[k]
        <5>1. c \in Range(completed)
          BY <4>1 DEF Range, CandleInv
        <5> QED BY <2>4, <5>1
      <4>2. CASE \E n \in Frames : Closes(builder[t.tok][n], t)
                                   /\ c = builder[t.tok][n]
        <5>1. PICK n \in Frames : c = builder[t.tok][n]
          BY <4>2
        <5>2. c.tok = t.tok /\ c.frame = n
          BY <1>9, <1>10, <3>1, <5>1
        <5> QED BY <1>9, <1>10, <2>4, <3>1, <5>1, <5>2
      <4> QED BY <1>1, <4>1, <4>2, CompletedFrom
    <3>3. ~(c.tok = t.tok /\ A(c.frame) = c.start)
      <4>1. builder'[t.tok][c.frame].start = A(c.frame)
        BY <2>7, <3>1
      <4>2. c.start \in Nat
        BY <3>1 DEF Candle
      <4> HIDE DEF A, c
      <4> QED BY <3>1, <4>1, <4>2
    <3>4. J(c.tok, c.frame, c.start) = Interval(c.tok, c.frame, c.start)
      BY <1>6, <3>3
    <3> QED BY <2>6, <3>2, <3>4
  <2>10. \A tok \in Tokens, n \in Frames :
             LET c == builder'[tok][n]
             IN  IF HandledOf(tok)' = {} THEN c = NoCandle
                 ELSE /\ \A k \in HandledOf(tok)' :
                             Align(h[k].time, Timeframes[n]) <= c.start
                      /\ MakesOf(h, J(tok, n, c.start), c)
    <3>1. HandledOf(t.tok)' # {}
      BY <1>5
    <3> QED BY <2>7, <2>8, <3>1
  <2> QED BY <2>9, <2>10
<1>13. CandlesExact'
  <2>1. \A tok, n, s : J(tok, n, s) =
            {k \in {k \in Handled' : h[k].tok = tok} :
                 Align(h[k].time, Timeframes[n]) = s}
    BY DEF J
  <2>2. completed' \in Seq(Candle)
    BY <1>2 DEF CandleInv
  <2>3. \A c \in Range(completed') : \E j \in 1..Len(completed') : c = completed'[j]
    BY <2>2 DEF Range
  <2>4. \A tok : HandledOf(tok)' = {k \in Handled' : h[k].tok = tok}
    BY DEF HandledOf, h
  <2> SUFFICES ASSUME Ordered' PROVE CandlesExact'
    BY DEF CandlesExact
  <2> DEFINE H(tok) == {k \in Handled' : h[k].tok = tok}
             I(tok, n, s) ==
                 {k \in H(tok) : Align(h[k].time, Timeframes[n]) = s}
  <2>5. \A tok \in Tokens, n \in Frames :
             LET c == builder'[tok][n]
             IN  IF H(tok) = {} THEN c = NoCandle
                 ELSE /\ \A k \in H(tok) :
                             Align(h[k].time, Timeframes[n]) <= c.start
                      /\ MakesOf(h, I(tok, n, c.start), c)
    BY <1>12, <2>1, <2>4
  <2>6. \A c \in Range(completed') : MakesOf(h, I(c.tok, c.frame, c.start), c)
    BY <1>12, <2>1, <2>3
  <2> QED BY <2>5, <2>6, Zenon
          DEF CandlesExact, Interval, HandledOf, Makes, MakesOf, h, Range
<1> QED BY <1>7, <1>11, <1>13 DEF ExactInv, h
-----------------------------------------------------------------------------
(* A candle announced is no tick.                                          *)
LEMMA ExactCandle ==
    ASSUME BusInv, StreamInv, CandleInv, ExactInv, HandleCandle
    PROVE  ExactInv'
<1> DEFINE g == given
           h == given'
<1>1. /\ ~IsTick(Event) /\ Dispatch(<<>>, {"store"})
      /\ UNCHANGED <<builder, completed, tape>>
  BY DEF HandleCandle, IsTick, candleVars
<1>2. /\ given' = Append(given, Event) /\ Event \in Events
      /\ Traded \in Nat /\ Traded' \in Nat /\ Traded <= Traded'
      /\ \A v : Before(v, queue) => Before(v, queue')
  <2> DEFINE x == <<>>
             w == {"store"}
  <2>1. /\ x \in Seq(Events) /\ \A n \in 1..Len(x) : ~IsTick(x[n])
        /\ w \subseteq {"store", "runner"} /\ Dispatch(x, w)
        /\ UNCHANGED tape
    <3>1. <<>> \in Seq(Events) /\ Len(<<>>) = 0
      OBVIOUS
    <3> QED BY <1>1, <3>1
  <2> HIDE DEF x, w
  <2> QED BY <2>1, DispatchKeeps
<1>3. /\ DOMAIN h = 1..Len(given) + 1 /\ DOMAIN g = 1..Len(given)
      /\ Len(given) \in Nat /\ h[Len(given) + 1] = Event
      /\ \A k \in 1..Len(given) : h[k] = g[k] /\ g[k] \in Events
  BY <1>2 DEF StreamInv
<1> HIDE DEF g, h
<1>4. /\ Handled' = Handled
      /\ \A k \in Handled : h[k] = g[k] /\ g[k].volume \in Nat
  <2>1. /\ Handled = {k \in DOMAIN g : g[k].type = "tick"}
        /\ Handled' = {k \in DOMAIN h : h[k].type = "tick"}
    BY DEF Handled, g, h
  <2>2. h[Len(given) + 1].type # "tick"
    BY <1>1, <1>3 DEF IsTick
  <2>3. \A k \in DOMAIN h : k \in DOMAIN g \/ k = Len(given) + 1
    BY <1>3
  <2>4. Handled' = Handled
    BY <1>3, <2>1, <2>2, <2>3
  <2>5. \A k \in Handled : h[k] = g[k] /\ g[k].volume \in Nat
    BY <1>3, <2>1, Kinds DEF IsTick
  <2> QED BY <2>4, <2>5
<1>5. \A k \in Handled' : h[k].volume <= Traded' /\ Before(h[k].volume, queue')
  <2>1. \A k \in Handled : g[k].volume <= Traded /\ Before(g[k].volume, queue)
    BY DEF ExactInv, g
  <2>2. \A v \in Nat : v <= Traded => v <= Traded'
    BY <1>2
  <2> QED BY <1>2, <1>4, <2>1, <2>2
<1>6. \A tok : HandledOf(tok)' = HandledOf(tok)
  <2>1. \A tok : /\ HandledOf(tok) = {k \in Handled : g[k].tok = tok}
                 /\ HandledOf(tok)' = {k \in Handled' : h[k].tok = tok}
    BY DEF HandledOf, g, h
  <2> QED BY <1>4, <2>1
<1>7. \A tok \in Tokens, n \in Frames :
          builder'[tok][n] = NoCandle => HandledOf(tok)' = {}
  BY <1>1, <1>6 DEF ExactInv
<1>8. ASSUME Ordered' PROVE CandlesExact'
  <2> DEFINE H(tok) == {k \in Handled' : h[k].tok = tok}
             I(tok, n, s) ==
                 {k \in H(tok) : Align(h[k].time, Timeframes[n]) = s}
  <2>1. Ordered
    <3>1. \A j, k \in Handled' : j < k => h[j].time <= h[k].time
      BY <1>8 DEF Ordered, h
    <3> QED BY <1>4, <3>1 DEF Ordered, g
  <2>2. \A tok : H(tok) = HandledOf(tok)
    BY <1>4 DEF HandledOf, g
  <2>3. \A tok, n, s : I(tok, n, s) = Interval(tok, n, s)
    <3>1. \A tok : \A k \in HandledOf(tok) : h[k] = g[k]
      BY <1>4 DEF HandledOf
    <3> QED BY <2>2, <3>1 DEF Interval, g
  <2>4. \A tok, n, s, c : Makes(Interval(tok, n, s), c)
                              => MakesOf(h, I(tok, n, s), c)
    <3>1. \A K, c : Makes(K, c) <=> MakesOf(g, K, c)
      BY DEF Makes, MakesOf, g
    <3>2. \A tok, n, s : \A k \in Interval(tok, n, s) : h[k] = g[k]
      BY <1>4 DEF Interval, HandledOf
    <3> HIDE DEF I
    <3> QED BY <2>3, <3>1, <3>2, MakesSame
  <2>5. CandlesExact
    BY DEF ExactInv
  <2>6. \A tok \in Tokens, n \in Frames :
             LET c == builder'[tok][n]
             IN  IF H(tok) = {} THEN c = NoCandle
                 ELSE /\ \A k \in H(tok) :
                             Align(h[k].time, Timeframes[n]) <= c.start
                      /\ MakesOf(h, I(tok, n, c.start), c)
    <3>1. \A tok : \A k \in H(tok) : h[k] = g[k]
      BY <1>4
    <3> HIDE DEF H, I
    <3> QED BY <1>1, <2>1, <2>2, <2>4, <2>5, <3>1 DEF CandlesExact, g
  <2>7. \A c \in Range(completed') : MakesOf(h, I(c.tok, c.frame, c.start), c)
    <3> HIDE DEF H, I
    <3> QED BY <1>1, <2>1, <2>4, <2>5 DEF CandlesExact, Range
  <2> QED BY <2>6, <2>7, Zenon
          DEF CandlesExact, Interval, HandledOf, Makes, MakesOf, h, Range
<1>9. CandlesExact'
  BY <1>8 DEF CandlesExact
<1> QED BY <1>5, <1>7, <1>9 DEF ExactInv, h

(* No event was handed out yet, and no candle begun.                       *)
LEMMA ExactInit == Init => ExactInv
<1> SUFFICES ASSUME Init PROVE ExactInv
  OBVIOUS
<1>1. /\ given = <<>> /\ completed = <<>>
      /\ builder = [tok \in Tokens |-> [n \in Frames |-> NoCandle]]
  BY DEF Init, BusInit, CandlesInit
<1>2. Handled = {} /\ Range(completed) = {}
  <2>1. DOMAIN <<>> = {}
    OBVIOUS
  <2> QED BY <1>1, <2>1 DEF Handled, Range
<1>3. \A tok : HandledOf(tok) = {}
  BY <1>2 DEF HandledOf
<1> QED BY <1>1, <1>2, <1>3 DEF ExactInv, CandlesExact

(* Every step keeps the candles exact: only a tick handled changes them,   *)
(* and only it and a candle announced are handed out.                      *)
LEMMA ExactStep ==
    ASSUME PipeInv, ExactInv, [Next]_vars
    PROVE  ExactInv'
<1> USE DEF PipeInv
<1>1. CASE HandleTick
  BY <1>1, ExactTick
<1>2. CASE HandleCandle
  BY <1>2, ExactCandle
<1>3. CASE PublishTick
  <2>1. UNCHANGED <<given, builder, completed>>
    BY <1>3 DEF PublishTick, Publish, candleVars
  <2> QED BY <1>3, <2>1, PublishKeeps, ExactStays
<1>4. CASE BreakLoop \/ StopBus
  <2>1. UNCHANGED <<given, builder, completed>>
    BY <1>4 DEF BreakLoop, Break, StopBus, Stop, candleVars
  <2> QED BY <1>4, <2>1, StopKeeps, ExactStays
<1>5. ASSUME UNCHANGED <<queue, sent, given, builder, completed>>
      PROVE  ExactInv'
  <2>1. QueueKept
    BY <1>5 DEF QueueKept, Traded
  <2> QED BY <1>5, <2>1, ExactStays
<1>6. CASE \/ CandleStored \/ RoundOver \/ TicksStored \/ StartBus
  BY <1>5, <1>6 DEF CandleStored, RoundOver, TicksStored, StartBus, Start,
                    Finish, candleVars
<1>7. CASE \/ VisitStrategy \/ StopStrategies
           \/ \E sid \in Sids, toks \in Wanted, starts \in BOOLEAN :
                  HttpStart(sid, toks, starts)
           \/ \E sid \in Sids : HttpStop(sid)
  BY <1>5, <1>7 DEF VisitStrategy, StopStrategies, HttpStart, HttpStop,
                    busVars, candleVars
<1>8. CASE \/ Settle \/ FlushStore \/ StoreFlushed \/ BusStopped \/ StopFeeds
           \/ UNCHANGED vars
  BY <1>5, <1>8 DEF Settle, FlushStore, StoreFlushed, BusStopped, StopFeeds,
                    busVars, candleVars, vars
<1> QED BY <1>1, <1>2, <1>3, <1>4, <1>6, <1>7, <1>8
        DEF Next, Handling, Shutdown

(* As long as no tick is late, the candle being built and the completed    *)
(* ones are those of the ticks in their intervals, whatever the timeframes,*)
(* the prices and the length of the day.                                   *)
THEOREM CandlesAreExact == Spec => []CandlesExact
<1>1. Init => ExactInv
  BY ExactInit
<1>2. PipeInv /\ ExactInv /\ [Next]_vars => ExactInv'
  BY ExactStep
<1>3. ExactInv => CandlesExact
  BY DEF ExactInv
<1> QED BY <1>1, <1>2, <1>3, PipeAlways, PTL DEF Spec
=============================================================================
