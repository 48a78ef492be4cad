---------------------------- MODULE StreamProofs ----------------------------
(***************************************************************************)
(* Proofs about what travels on event streams: EventStream, for any number *)
(* of connections, events and throws; AlphaScores, which is what one such  *)
(* stream carries, for any mints, horizons and limits; and LunarStream and *)
(* LunarOverlay, for any keywords, sources, numbers and limits.            *)
(***************************************************************************)
EXTENDS EventStream, AlphaScores, LunarStream, FiniteSetTheorems, SequenceTheorems,
        WellFoundedInduction, TLAPS

-----------------------------------------------------------------------------
(* EventStream: the invariant *)

StreamTypes ==
    /\ disposed \in BOOLEAN /\ timer \in BOOLEAN
    /\ looking \in Nat /\ emitted \in Nat /\ throws \in Nat
    /\ current \in 0..MaxConnections
    /\ sources \subseteq 1..current
    /\ route \in [Connection -> RouteState]
    /\ base \in [Connection -> Nat]
    /\ queue \in [Connection -> Seq(Nat)]
    /\ wire \in [Connection -> Seq(Nat)]
    /\ heard \in Seq(Nat)

\* Of a connect under way, a timer and a source there is never more than one.
OneAtATime ==
    \/ looking = 1 /\ ~ timer /\ sources = {}
    \/ looking = 0 /\ timer /\ sources = {}
    \/ looking = 0 /\ ~ timer /\ sources = {}
    \/ looking = 0 /\ ~ timer /\ sources = {current}

\* Nothing travels on a connection the server has not accepted.
NothingBeforeOpen ==
    \A c \in Connection :
        /\ c > current => route[c] = "none"
        /\ route[c] \in {"none", "asked"} => queue[c] = <<>> /\ wire[c] = <<>>

\* Nobody knows of an event to come.
NothingAhead ==
    /\ \A i \in 1..Len(heard) : heard[i] <= emitted
    /\ \A c \in Connection : base[c] <= emitted

\* What a client hears is newer than all it heard before.
HeardRises == \A i, j \in 1..Len(heard) : i < j => heard[i] < heard[j]

\* Behind the first n events of h, all of them old, h, w and q count from b to e.
Counting(h, w, q, b, e, n) ==
    /\ n \in 0..Len(h)
    /\ \A i \in 1..n : h[i] <= b
    /\ Len(h) - n + Len(w) + Len(q) = e - b
    /\ \A i \in 1..(Len(h) - n) : h[n + i] = b + i
    /\ \A i \in 1..Len(w) : w[i] = b + (Len(h) - n) + i
    /\ \A i \in 1..Len(q) : q[i] = b + (Len(h) - n) + Len(w) + i
CountsOn(c, n) == Counting(heard, wire[c], queue[c], base[c], emitted, n)
NothingLeftOut ==
    \A c \in sources : route[c] = "open" => \E n \in Nat : CountsOn(c, n)

StreamInv ==
    /\ StreamTypes /\ OneAtATime /\ NothingBeforeOpen /\ NothingAhead
    /\ HeardRises /\ NothingLeftOut

-----------------------------------------------------------------------------
(* EventStream: every step keeps it *)

LEMMA GivenUp ==
    ASSUME NEW s \in RouteState
    PROVE  Given(s) \in RouteState /\ Given(s) \in {"half", "over"}
BY DEF Given, RouteState

LEMMA StreamTypesStep ==
    ASSUME StreamTypes, [StreamNext]_streamVars
    PROVE  StreamTypes'
<1>. USE StreamConstants DEF StreamConstants, StreamTypes, Connection, RouteState
<1>1. ASSUME OpenSource PROVE StreamTypes'
  BY <1>1 DEF OpenSource
<1>2. ASSUME FactoryThrows \/ TimerFires PROVE StreamTypes'
  <2>0. timer' \in BOOLEAN
    <3>1. timer' = (timer \/ ~ disposed) \/ timer' = FALSE
      BY <1>2 DEF FactoryThrows, TimerFires, Reschedule
    <3>. QED
      BY <3>1
  <2>1. timer' \in BOOLEAN /\ looking' \in Nat /\ throws' \in Nat
    <3>1. (looking > 0 /\ looking' = looking - 1) \/ looking' = looking + 1
      BY <1>2 DEF FactoryThrows, TimerFires
    <3>2. throws' = throws + 1 \/ throws' = throws
      BY <1>2 DEF FactoryThrows, TimerFires
    <3>. QED
      BY <2>0, <3>1, <3>2
  <2>2. UNCHANGED <<disposed, sources, current, route, base, queue, wire, emitted, heard>>
    BY <1>2 DEF FactoryThrows, TimerFires, serverVars
  <2>. QED
    BY <2>1, <2>2
<1>3. ASSUME Dispose PROVE StreamTypes'
  BY <1>3 DEF Dispose, Given
<1>4. ASSUME Emit PROVE StreamTypes'
  <2>1. queue' \in [Connection -> Seq(Nat)]
    BY <1>4 DEF Emit, PushAll
  <2>. QED
    BY <1>4, <2>1 DEF Emit, clientVars
<1>5. ASSUME NEW c \in Connection, SourceError(c) PROVE StreamTypes'
  BY <1>5 DEF SourceError, Reschedule
<1>6. ASSUME NEW c \in Connection, Deliver(c) PROVE StreamTypes'
  <2>1. wire[c] \in Seq(Nat) /\ wire[c] # <<>>
    BY <1>6 DEF Deliver
  <2>2. Head(wire[c]) \in Nat /\ Tail(wire[c]) \in Seq(Nat)
    BY <2>1
  <2>3. heard' \in Seq(Nat) /\ wire' \in [Connection -> Seq(Nat)]
    BY <1>6, <2>2 DEF Deliver
  <2>4. UNCHANGED <<clientVars, route, base, queue, emitted>>
    BY <1>6 DEF Deliver
  <2>. QED
    BY <2>3, <2>4 DEF clientVars
<1>7. ASSUME NEW c \in Connection, Accept(c) \/ Break(c) \/ Finalize(c) PROVE StreamTypes'
  <2>1. /\ route' \in [Connection -> RouteState]
        /\ base' \in [Connection -> Nat]
        /\ queue' \in [Connection -> Seq(Nat)]
    <3>1. CASE Accept(c)
      BY <3>1 DEF Accept
    <3>2. CASE Break(c)
      BY <3>2, GivenUp DEF Break
    <3>3. CASE Finalize(c)
      BY <3>3 DEF Finalize
    <3>. QED
      BY <1>7, <3>1, <3>2, <3>3
  <2>2. UNCHANGED <<clientVars, wire, emitted, heard>>
    BY <1>7 DEF Accept, Break, Finalize
  <2>. QED
    BY <2>1, <2>2 DEF clientVars
<1>8. ASSUME NEW c \in Connection, Write(c) PROVE StreamTypes'
  <2>1. queue[c] \in Seq(Nat) /\ queue[c] # <<>>
    BY <1>8 DEF Write
  <2>2. Head(queue[c]) \in Nat /\ Tail(queue[c]) \in Seq(Nat)
    BY <2>1
  <2>3. Append(wire[c], Head(queue[c])) \in Seq(Nat)
    BY <2>2
  <2>. QED
    BY <1>8, <2>2, <2>3 DEF Write, clientVars
<1>9. ASSUME UNCHANGED streamVars PROVE StreamTypes'
  BY <1>9 DEF streamVars, clientVars, serverVars
<1>. QED
  BY <1>1, <1>2, <1>3, <1>4, <1>5, <1>6, <1>7, <1>8, <1>9 DEF StreamNext

LEMMA OneAtATimeStep ==
    ASSUME StreamTypes, OneAtATime, [StreamNext]_streamVars
    PROVE  OneAtATime'
<1>. USE DEF StreamTypes, OneAtATime
<1>0. ASSUME OpenSource PROVE OneAtATime'
  <2>1. looking = 1 /\ ~ timer /\ sources = {}
    BY <1>0 DEF OpenSource
  <2>2. looking' = 0 /\ timer' = timer /\ sources' = {current'}
    BY <1>0, <2>1 DEF OpenSource
  <2>. QED
    BY <2>1, <2>2
<1>1. ASSUME FactoryThrows \/ TimerFires PROVE OneAtATime'
  <2>1. CASE FactoryThrows
    <3>1. looking = 1 /\ ~ timer /\ sources = {} /\ looking' = 0 /\ sources' = {}
      BY <2>1 DEF FactoryThrows
    <3>2. timer' = TRUE \/ timer' = FALSE
      BY <2>1 DEF FactoryThrows, Reschedule
    <3>. QED
      BY <3>1, <3>2
  <2>2. CASE TimerFires
    BY <2>2 DEF TimerFires
  <2>. QED
    BY <1>1, <2>1, <2>2
<1>2. ASSUME Dispose PROVE OneAtATime'
  BY <1>2 DEF Dispose
<1>3. ASSUME NEW c \in Connection, SourceError(c) PROVE OneAtATime'
  BY <1>3 DEF SourceError, Reschedule
<1>4. ASSUME NEW c \in Connection,
             Deliver(c) \/ Accept(c) \/ Write(c) \/ Break(c) \/ Finalize(c)
      PROVE  OneAtATime'
  BY <1>4 DEF Deliver, Accept, Write, Break, Finalize, clientVars
<1>5. ASSUME Emit \/ UNCHANGED streamVars PROVE OneAtATime'
  BY <1>5 DEF Emit, streamVars, clientVars
<1>. QED
  BY <1>0, <1>1, <1>2, <1>3, <1>4, <1>5 DEF StreamNext

LEMMA BeforeOpenStep ==
    ASSUME StreamTypes, NothingBeforeOpen, [StreamNext]_streamVars
    PROVE  NothingBeforeOpen'
<1>. USE StreamConstants DEF StreamConstants, StreamTypes, NothingBeforeOpen, Connection
<1>1. ASSUME OpenSource PROVE NothingBeforeOpen'
  <2>1. /\ current' = current + 1 /\ current' \in Connection
        /\ \A c \in Connection : route'[c] = IF c = current' THEN "asked" ELSE route[c]
        /\ UNCHANGED <<queue, wire>>
    BY <1>1 DEF OpenSource
  <2>2. current' > current /\ route[current'] = "none" /\ current \in Nat
    BY <2>1
  <2>3. queue[current'] = <<>> /\ wire[current'] = <<>>
    BY <2>1, <2>2
  <2>4. ASSUME NEW c \in Connection
        PROVE  /\ c > current' => route'[c] = "none"
               /\ route'[c] \in {"none", "asked"} => queue'[c] = <<>> /\ wire'[c] = <<>>
    <3>1. CASE c = current'
      BY <2>1, <2>3, <3>1
    <3>2. CASE c # current'
      <4>1. c > current' => c > current
        <5>. HIDE DEF NothingBeforeOpen
        <5>1. c \in Nat /\ current \in Nat /\ current' = current + 1
          BY <2>1, <2>2
        <5>. QED
          BY <5>1
      <4>. QED
        BY <2>1, <3>2, <4>1
    <3>. QED
      BY <3>1, <3>2
  <2>. QED
    BY <2>4
<1>2. ASSUME FactoryThrows \/ TimerFires \/ UNCHANGED streamVars PROVE NothingBeforeOpen'
  BY <1>2 DEF FactoryThrows, TimerFires, serverVars, streamVars, clientVars
<1>3. ASSUME Dispose PROVE NothingBeforeOpen'
  <2>. HIDE DEF NothingBeforeOpen
  <2>1. UNCHANGED <<current, queue, wire>>
    BY <1>3 DEF Dispose
  <2>2. ASSUME NEW c \in Connection
        PROVE  \/ route'[c] = route[c]
               \/ c = current /\ route'[c] \in {"half", "over"}
    <3>1. CASE c # current \/ current = 0
      BY <1>3, <3>1 DEF Dispose
    <3>2. CASE c = current /\ current # 0
      BY <1>3, <3>2 DEF Dispose, Given
    <3>. QED
      BY <3>1, <3>2
  <2>3. ASSUME NEW c \in Connection
        PROVE  /\ c > current => route'[c] = route[c]
               /\ route'[c] \in {"none", "asked"} => route'[c] = route[c]
    <3>1. CASE route'[c] = route[c]
      BY <3>1
    <3>2. CASE c = current /\ route'[c] \in {"half", "over"}
      <4>1. ~(c > current)
        BY <3>2
      <4>. QED
        BY <3>2, <4>1
    <3>. QED
      BY <2>2, <3>1, <3>2
  <2>. QED
    BY <2>1, <2>3 DEF NothingBeforeOpen
<1>4. ASSUME Emit PROVE NothingBeforeOpen'
  BY <1>4 DEF Emit, PushAll, Listening, clientVars
<1>5. ASSUME NEW c \in Connection, SourceError(c) PROVE NothingBeforeOpen'
  BY <1>5 DEF SourceError
<1>6. ASSUME NEW c \in Connection, Deliver(c) PROVE NothingBeforeOpen'
  BY <1>6 DEF Deliver, clientVars
<1>7. ASSUME NEW c \in Connection, Accept(c) \/ Break(c) \/ Finalize(c)
      PROVE  NothingBeforeOpen'
  <2>1. CASE Accept(c)
    BY <2>1 DEF Accept, clientVars
  <2>2. CASE Break(c)
    BY <2>2, GivenUp DEF Break, clientVars
  <2>3. CASE Finalize(c)
    BY <2>3 DEF Finalize, clientVars
  <2>. QED
    BY <1>7, <2>1, <2>2, <2>3
<1>8. ASSUME NEW c \in Connection, Write(c) PROVE NothingBeforeOpen'
  BY <1>8 DEF Write, Listening, clientVars
<1>. QED
  BY <1>1, <1>2, <1>3, <1>4, <1>5, <1>6, <1>7, <1>8 DEF StreamNext

LEMMA AheadStep ==
    ASSUME StreamTypes, NothingAhead, NothingLeftOut, [StreamNext]_streamVars
    PROVE  NothingAhead'
<1>. USE DEF StreamTypes
<1>1. ASSUME NEW c \in Connection, Deliver(c) PROVE NothingAhead'
  <2>1. PICK n \in Nat : CountsOn(c, n)
    BY <1>1 DEF NothingLeftOut, Deliver
  <2>2. /\ wire[c] \in Seq(Nat) /\ wire[c] # <<>> /\ queue[c] \in Seq(Nat)
        /\ base[c] \in Nat /\ heard' = Append(heard, Head(wire[c]))
        /\ UNCHANGED <<emitted, base>>
    BY <1>1 DEF Deliver
  <2>3. Head(wire[c]) = wire[c][1] /\ Len(wire[c]) \in Nat \ {0} /\ Len(queue[c]) \in Nat
    BY <2>2
  <2>4. Head(wire[c]) <= emitted
    <3>1. heard \in Seq(Nat) /\ Len(heard) \in Nat /\ emitted \in Nat /\ 1 \in 1..Len(wire[c])
      BY <2>3
    <3>2. wire[c][1] = base[c] + (Len(heard) - n) + 1
      BY <2>1, <3>1 DEF CountsOn, Counting
    <3>3. Len(heard) - n + Len(wire[c]) + Len(queue[c]) = emitted - base[c]
      BY <2>1 DEF CountsOn, Counting
    <3>4. wire[c][1] <= emitted
      BY <2>2, <2>3, <3>1, <3>2, <3>3
    <3>. QED
      BY <2>3, <3>4
  <2>. QED
    BY <2>2, <2>4 DEF NothingAhead
<1>2. ASSUME NEW c \in Connection, Accept(c) PROVE NothingAhead'
  BY <1>2 DEF Accept, NothingAhead
<1>3. ASSUME Emit PROVE NothingAhead'
  BY <1>3 DEF Emit, NothingAhead
<1>4. ASSUME UNCHANGED <<heard, base, emitted>> PROVE NothingAhead'
  BY <1>4 DEF NothingAhead
<1>5. ASSUME NEW c \in Connection, SourceError(c) \/ Write(c) \/ Break(c) \/ Finalize(c)
      PROVE  UNCHANGED <<heard, base, emitted>>
  BY <1>5 DEF SourceError, Write, Break, Finalize
<1>6. ASSUME OpenSource \/ FactoryThrows \/ TimerFires \/ Dispose \/ UNCHANGED streamVars
      PROVE  UNCHANGED <<heard, base, emitted>>
  BY <1>6 DEF OpenSource, FactoryThrows, TimerFires, Dispose, serverVars, streamVars
<1>. QED
  BY <1>1, <1>2, <1>3, <1>4, <1>5, <1>6 DEF StreamNext

\* The event at the head of the wire is newer than all that were heard.
LEMMA NextIsNewer ==
    ASSUME StreamTypes, NEW c \in Connection, NEW n, CountsOn(c, n), wire[c] # <<>>
    PROVE  /\ wire[c] \in Seq(Nat) /\ Len(wire[c]) \in Nat \ {0} /\ Len(heard) \in Nat
           /\ Head(wire[c]) = base[c] + (Len(heard) - n) + 1
           /\ \A i \in 1..Len(heard) : heard[i] < Head(wire[c])
<1>1. /\ wire[c] \in Seq(Nat) /\ heard \in Seq(Nat) /\ base[c] \in Nat
      /\ Len(wire[c]) \in Nat \ {0} /\ Len(heard) \in Nat /\ Head(wire[c]) = wire[c][1]
  BY DEF StreamTypes
<1>2. Head(wire[c]) = base[c] + (Len(heard) - n) + 1
  <2>1. 1 \in 1..Len(wire[c])
    BY <1>1
  <2>2. wire[c][1] = base[c] + (Len(heard) - n) + 1
    BY <2>1 DEF CountsOn, Counting
  <2>. QED
    BY <1>1, <2>2
<1>3. ASSUME NEW i \in 1..Len(heard) PROVE heard[i] < Head(wire[c])
  <2>1. heard[i] \in Nat /\ n \in 0..Len(heard)
    BY <1>1 DEF CountsOn, Counting
  <2>2. CASE i <= n
    <3>1. heard[i] <= base[c]
      BY <2>1, <2>2 DEF CountsOn, Counting
    <3>. QED
      BY <1>1, <1>2, <2>1, <3>1
  <2>3. CASE i > n
    <3>1. i - n \in 1..(Len(heard) - n) /\ n + (i - n) = i
      BY <1>1, <2>1, <2>3
    <3>2. heard[i] = base[c] + (i - n)
      BY <3>1 DEF CountsOn, Counting
    <3>3. i <= Len(heard) /\ {i, n, Len(heard), base[c]} \subseteq Nat
      BY <1>1, <2>1
    <3>4. base[c] + (i - n) < base[c] + (Len(heard) - n) + 1
      BY <3>3
    <3>. QED
      BY <1>2, <3>2, <3>4
  <2>. QED
    BY <1>1, <2>1, <2>2, <2>3
<1>. QED
  BY <1>1, <1>2, <1>3

LEMMA RisesStep ==
    ASSUME StreamTypes, HeardRises, NothingLeftOut, [StreamNext]_streamVars
    PROVE  HeardRises'
<1>1. ASSUME NEW c \in Connection, Deliver(c) PROVE HeardRises'
  <2>1. PICK n \in Nat : CountsOn(c, n)
    BY <1>1 DEF NothingLeftOut, Deliver
  <2>2. heard' = Append(heard, Head(wire[c])) /\ wire[c] # <<>> /\ heard \in Seq(Nat)
    BY <1>1 DEF Deliver, StreamTypes
  <2>3. \A i \in 1..Len(heard) : heard[i] < Head(wire[c])
    BY <2>1, <2>2, NextIsNewer
  <2>4. /\ Len(heard) \in Nat /\ Len(heard') = Len(heard) + 1
        /\ \A i \in 1..Len(heard) : heard'[i] = heard[i]
        /\ heard'[Len(heard) + 1] = Head(wire[c])
    BY <2>2
  <2>. QED
    BY <2>3, <2>4 DEF HeardRises
<1>2. ASSUME heard' = heard PROVE HeardRises'
  BY <1>2 DEF HeardRises
<1>3. ASSUME NEW c \in Connection, SourceError(c) \/ Accept(c) \/ Write(c) \/ Break(c) \/ Finalize(c)
      PROVE  heard' = heard
  BY <1>3 DEF SourceError, Accept, Write, Break, Finalize
<1>4. ASSUME OpenSource \/ FactoryThrows \/ TimerFires \/ Dispose \/ Emit \/ UNCHANGED streamVars
      PROVE  heard' = heard
  BY <1>4 DEF OpenSource, FactoryThrows, TimerFires, Dispose, Emit, streamVars
<1>. QED
  BY <1>1, <1>2, <1>3, <1>4 DEF StreamNext

-----------------------------------------------------------------------------
(* EventStream: nothing is left out *)

LEMMA CountingStarts ==
    ASSUME NEW h \in Seq(Nat), NEW e \in Nat, \A i \in 1..Len(h) : h[i] <= e
    PROVE  Counting(h, <<>>, <<>>, e, e, Len(h))
<1>1. Len(h) \in Nat /\ Len(<<>>) = 0
  OBVIOUS
<1>. QED
  BY <1>1 DEF Counting

LEMMA CountingEmits ==
    ASSUME NEW h \in Seq(Nat), NEW w \in Seq(Nat), NEW q \in Seq(Nat),
           NEW b \in Nat, NEW e \in Nat, NEW n \in Nat
    PROVE  Counting(h, w, q, b, e, n) =>
              Counting(h, w, Append(q, e + 1), b, e + 1, n)
<1>c. SUFFICES ASSUME Counting(h, w, q, b, e, n) PROVE Counting(h, w, Append(q, e + 1), b, e + 1, n)
  OBVIOUS
<1>. DEFINE q2 == Append(q, e + 1)
<1>1. /\ Len(h) \in Nat /\ Len(w) \in Nat /\ Len(q) \in Nat
      /\ Len(q2) \in Nat /\ Len(q2) = Len(q) + 1
  OBVIOUS
<1>5. q2[Len(q) + 1] = e + 1 /\ \A i \in 1..Len(q) : q2[i] = q[i]
  OBVIOUS
<1>. HIDE DEF q2
<1>2. Len(h) - n + Len(w) + Len(q) = e - b
  BY <1>c DEF Counting
<1>3. ASSUME NEW i \in 1..Len(q2) PROVE q2[i] = b + (Len(h) - n) + Len(w) + i
  <2>1. CASE i = Len(q) + 1
    <3>1. q2[i] = e + 1
      BY <1>5, <2>1
    <3>. DEFINE lh == Len(h)
                lw == Len(w)
                lq == Len(q)
    <3>2. lh \in Nat /\ lw \in Nat /\ lq \in Nat /\ lh - n + lw + lq = e - b
      BY <1>1, <1>2
    <3>. HIDE DEF lh, lw, lq
    <3>3. e + 1 = b + (lh - n) + lw + (lq + 1)
      BY <3>2
    <3>. QED
      BY <2>1, <3>1, <3>3 DEF lh, lw, lq
  <2>2. CASE i # Len(q) + 1
    <3>1. i \in 1..Len(q)
      BY <1>1, <2>2
    <3>. QED
      BY <1>5, <3>1, <1>c DEF Counting
  <2>. QED
    BY <2>1, <2>2
<1>4. Len(h) - n + Len(w) + Len(q2) = e + 1 - b
  BY <1>1, <1>2
<1>6. Counting(h, w, q2, b, e + 1, n)
  BY <1>3, <1>4, <1>c DEF Counting
<1>. QED
  BY <1>6 DEF q2

LEMMA CountingWrites ==
    ASSUME NEW h \in Seq(Nat), NEW w \in Seq(Nat), NEW q \in Seq(Nat), q # <<>>,
           NEW b \in Nat, NEW e \in Nat, NEW n \in Nat
    PROVE  Counting(h, w, q, b, e, n) =>
              Counting(h, Append(w, Head(q)), Tail(q), b, e, n)
<1>c. SUFFICES ASSUME Counting(h, w, q, b, e, n) PROVE Counting(h, Append(w, Head(q)), Tail(q), b, e, n)
  OBVIOUS
<1>. DEFINE w2 == Append(w, Head(q))
            q2 == Tail(q)
<1>1. /\ Len(h) \in Nat /\ Len(w) \in Nat /\ Len(q) \in Nat
  OBVIOUS
<1>9. Head(q) = q[1] /\ 1 \in 1..Len(q)
  OBVIOUS
<1>2. /\ Len(w2) \in Nat /\ Len(w2) = Len(w) + 1
      /\ Len(q2) \in Nat /\ Len(q2) = Len(q) - 1
  OBVIOUS
<1>8. w2[Len(w) + 1] = Head(q) /\ \A i \in 1..Len(w) : w2[i] = w[i]
  OBVIOUS
<1>3. \A i \in 1..Len(q2) : i + 1 \in 1..Len(q) /\ q2[i] = q[i + 1]
  OBVIOUS
<1>. HIDE DEF w2, q2
<1>4. Len(h) - n + Len(w2) + Len(q2) = e - b
  <2>1. Len(h) - n + Len(w) + Len(q) = e - b
    BY <1>c DEF Counting
  <2>. DEFINE lh == Len(h)
              lw == Len(w)
              lq == Len(q)
  <2>2. lh \in Nat /\ lw \in Nat /\ lq \in Nat /\ lh - n + lw + lq = e - b
    BY <1>1, <2>1
  <2>. HIDE DEF lh, lw, lq
  <2>3. lh - n + (lw + 1) + (lq - 1) = e - b
    BY <2>2
  <2>. QED
    BY <1>2, <2>3 DEF lh, lw, lq
<1>5. ASSUME NEW i \in 1..Len(w2) PROVE w2[i] = b + (Len(h) - n) + i
  <2>1. CASE i = Len(w) + 1
    <3>1. q[1] = b + (Len(h) - n) + Len(w) + 1
      BY <1>9, <1>c DEF Counting
    <3>2. w2[i] = q[1]
      BY <1>8, <1>9, <2>1
    <3>3. q[1] = b + (Len(h) - n) + i
      BY <1>1, <2>1, <3>1
    <3>. QED
      BY <3>2, <3>3
  <2>2. CASE i # Len(w) + 1
    <3>1. i \in 1..Len(w)
      BY <1>1, <1>2, <2>2
    <3>. QED
      BY <1>8, <3>1, <1>c DEF Counting
  <2>. QED
    BY <2>1, <2>2
<1>6. ASSUME NEW i \in 1..Len(q2) PROVE q2[i] = b + (Len(h) - n) + Len(w2) + i
  <2>1. q[i + 1] = b + (Len(h) - n) + Len(w) + (i + 1)
    BY <1>3, <1>c DEF Counting
  <2>2. q2[i] = q[i + 1]
    BY <1>3
  <2>3. i \in Nat
    BY <1>2
  <2>4. b + (Len(h) - n) + Len(w) + (i + 1) = b + (Len(h) - n) + Len(w2) + i
    BY <1>1, <1>2, <2>3
  <2>. QED
    BY <2>1, <2>2, <2>4
<1>7. Counting(h, w2, q2, b, e, n)
  BY <1>4, <1>5, <1>6, <1>c DEF Counting
<1>. QED
  BY <1>7 DEF w2, q2

LEMMA CountingHears ==
    ASSUME NEW h \in Seq(Nat), NEW w \in Seq(Nat), w # <<>>, NEW q \in Seq(Nat),
           NEW b \in Nat, NEW e \in Nat, NEW n \in Nat
    PROVE  Counting(h, w, q, b, e, n) =>
              Counting(Append(h, Head(w)), Tail(w), q, b, e, n)
<1>c. SUFFICES ASSUME Counting(h, w, q, b, e, n) PROVE Counting(Append(h, Head(w)), Tail(w), q, b, e, n)
  OBVIOUS
<1>. DEFINE h2 == Append(h, Head(w))
            w2 == Tail(w)
<1>1. /\ Len(h) \in Nat /\ Len(w) \in Nat /\ Len(q) \in Nat
  OBVIOUS
<1>11. Head(w) = w[1] /\ 1 \in 1..Len(w)
  OBVIOUS
<1>2. /\ Len(h2) \in Nat /\ Len(h2) = Len(h) + 1
      /\ Len(w2) \in Nat /\ Len(w2) = Len(w) - 1
  OBVIOUS
<1>0. h2[Len(h) + 1] = Head(w) /\ \A i \in 1..Len(h) : h2[i] = h[i]
  OBVIOUS
<1>3. \A i \in 1..Len(w2) : i + 1 \in 1..Len(w) /\ w2[i] = w[i + 1]
  OBVIOUS
<1>. HIDE DEF h2, w2
<1>4. n <= Len(h) /\ Len(h) - n + Len(w) + Len(q) = e - b
  BY <1>c DEF Counting
<1>5. n \in 0..Len(h2) /\ Len(h2) - n + Len(w2) + Len(q) = e - b
  <2>1. n \in 0..Len(h2)
    BY <1>1, <1>2, <1>4
  <2>. DEFINE lh == Len(h)
              lw == Len(w)
              lq == Len(q)
  <2>3. lh \in Nat /\ lw \in Nat /\ lq \in Nat /\ lh - n + lw + lq = e - b
    BY <1>1, <1>4
  <2>. HIDE DEF lh, lw, lq
  <2>4. (lh + 1) - n + (lw - 1) + lq = e - b
    BY <2>3
  <2>2. Len(h2) - n + Len(w2) + Len(q) = e - b
    BY <1>2, <2>4 DEF lh, lw, lq
  <2>. QED
    BY <2>1, <2>2
<1>6. ASSUME NEW i \in 1..n PROVE h2[i] <= b
  <2>1. i \in 1..Len(h)
    BY <1>1, <1>4
  <2>. QED
    BY <1>0, <2>1, <1>c DEF Counting
<1>7. ASSUME NEW i \in 1..(Len(h2) - n) PROVE h2[n + i] = b + i
  <2>1. CASE i = Len(h) - n + 1
    <3>1. w[1] = b + (Len(h) - n) + 1
      BY <1>11, <1>c DEF Counting
    <3>2. n + i = Len(h) + 1
      BY <1>1, <2>1
    <3>3. h2[n + i] = w[1]
      BY <1>0, <1>11, <3>2
    <3>. QED
      BY <1>1, <2>1, <3>1, <3>3
  <2>2. CASE i # Len(h) - n + 1
    <3>0. i \in Nat \ {0} /\ i <= Len(h) - n + 1
      BY <1>1, <1>2
    <3>. DEFINE lh == Len(h)
    <3>2. lh \in Nat /\ i \in Nat \ {0} /\ i <= lh - n + 1 /\ i # lh - n + 1
      BY <1>1, <2>2, <3>0
    <3>. HIDE DEF lh
    <3>3. i \in 1..(lh - n) /\ n + i \in 1..lh
      BY <3>2
    <3>1. i \in 1..(Len(h) - n) /\ n + i \in 1..Len(h)
      BY <3>3 DEF lh
    <3>. QED
      BY <1>0, <3>1, <1>c DEF Counting
  <2>. QED
    BY <2>1, <2>2
<1>8. ASSUME NEW i \in 1..Len(w2) PROVE w2[i] = b + (Len(h2) - n) + i
  <2>1. w[i + 1] = b + (Len(h) - n) + (i + 1)
    BY <1>3, <1>c DEF Counting
  <2>2. w2[i] = w[i + 1]
    BY <1>3
  <2>. QED
    BY <1>1, <1>2, <2>1, <2>2
<1>9. ASSUME NEW i \in 1..Len(q) PROVE q[i] = b + (Len(h2) - n) + Len(w2) + i
  <2>1. q[i] = b + (Len(h) - n) + Len(w) + i
    BY <1>c DEF Counting
  <2>. QED
    BY <1>1, <1>2, <2>1
<1>10. Counting(h2, w2, q, b, e, n)
  BY <1>5, <1>6, <1>7, <1>8, <1>9 DEF Counting
<1>. QED
  BY <1>10 DEF h2, w2

\* Counting is what HeardInOrder says of a connection.
Numbered(b, e) == [i \in 1..(e - b) |-> b + i]
Behind(h, w, q, n) == SubSeq(h, n + 1, Len(h)) \o w \o q

LEMMA CountingSays ==
    ASSUME NEW h \in Seq(Nat), NEW w \in Seq(Nat), NEW q \in Seq(Nat),
           NEW b \in Nat, NEW e \in Nat, NEW n \in Nat
    PROVE  Counting(h, w, q, b, e, n) =>
              Behind(h, w, q, n) = Numbered(b, e)
<1>c. SUFFICES ASSUME Counting(h, w, q, b, e, n)
               PROVE  SubSeq(h, n + 1, Len(h)) \o w \o q = [i \in 1..(e - b) |-> b + i]
  BY DEF Behind, Numbered
<1>. DEFINE s == SubSeq(h, n + 1, Len(h))
            k == Len(h) - n
            all == s \o w \o q
<1>1. Len(h) \in Nat /\ Len(w) \in Nat /\ Len(q) \in Nat /\ n <= Len(h) /\ k \in Nat
  BY <1>c DEF Counting
<1>2. s \in Seq(Nat) /\ Len(s) = k /\ \A i \in 1..k : s[i] = h[n + i]
  <2>1. \A i \in (n + 1)..Len(h) : h[i] \in Nat
    BY <1>1
  <2>2. s = [i \in 1..k |-> h[n + i]]
    <3>1. Len(h) - (n + 1) + 1 = k /\ \A i \in Int : i + (n + 1) - 1 = n + i
      BY <1>1
    <3>. QED
      BY <1>1, <3>1
  <2>3. \A i \in 1..k : h[n + i] \in Nat
    BY <1>1
  <2>. HIDE DEF s, k
  <2>. QED
    BY <1>1, <2>2, <2>3
<1>. HIDE DEF s
<1>3. /\ all \in Seq(Nat) /\ Len(all) = k + Len(w) + Len(q)
      /\ \A i \in 1..Len(all) :
            all[i] = IF i <= k THEN s[i]
                     ELSE IF i <= k + Len(w) THEN w[i - k] ELSE q[i - (k + Len(w))]
  <2>. HIDE DEF k
  <2>1. s \o w \in Seq(Nat) /\ Len(s \o w) = k + Len(w)
        /\ \A i \in 1..(k + Len(w)) : (s \o w)[i] = IF i <= k THEN s[i] ELSE w[i - k]
    <3>0. s \in Seq(Nat)
      BY <1>2
    <3>1. s \o w \in Seq(Nat) /\ Len(s \o w) = Len(s) + Len(w)
      BY <3>0, ConcatProperties
    <3>2. \A i \in 1..(Len(s) + Len(w)) :
             (s \o w)[i] = IF i <= Len(s) THEN s[i] ELSE w[i - Len(s)]
      BY <3>0, ConcatProperties
    <3>. QED
      BY <1>2, <3>1, <3>2
  <2>. DEFINE sw == s \o w
  <2>. HIDE DEF sw
  <2>2. /\ sw \o q \in Seq(Nat) /\ Len(sw \o q) = k + Len(w) + Len(q)
        /\ \A i \in 1..(k + Len(w) + Len(q)) :
              (sw \o q)[i] = IF i <= k + Len(w) THEN sw[i] ELSE q[i - (k + Len(w))]
    <3>0. sw \in Seq(Nat) /\ Len(sw) = k + Len(w)
      BY <2>1 DEF sw
    <3>1. sw \o q \in Seq(Nat) /\ Len(sw \o q) = Len(sw) + Len(q)
      BY <3>0, ConcatProperties
    <3>2. \A i \in 1..(Len(sw) + Len(q)) :
             (sw \o q)[i] = IF i <= Len(sw) THEN sw[i] ELSE q[i - Len(sw)]
      BY <3>0, ConcatProperties
    <3>. QED
      BY <3>0, <3>1, <3>2
  <2>. QED
    BY <1>1, <2>1, <2>2 DEF sw
<1>. HIDE DEF all, k
<1>4. Len(all) = e - b
  BY <1>3, <1>c DEF Counting, k
<1>5. ASSUME NEW i \in 1..Len(all) PROVE all[i] = b + i
  <2>0. Len(all) \in Nat
    BY <1>3
  <2>1. CASE i <= k
    <3>1. i \in 1..k
      BY <1>1, <2>0, <2>1
    <3>2. s[i] = b + i
      BY <1>2, <3>1, <1>c DEF Counting, k
    <3>. QED
      BY <1>3, <2>1, <3>2
  <2>2. CASE i > k /\ i <= k + Len(w)
    <3>1. i - k \in 1..Len(w)
      BY <1>1, <2>0, <2>2
    <3>2. w[i - k] = b + k + (i - k)
      BY <3>1, <1>c DEF Counting, k
    <3>3. ~ (i <= k)
      BY <1>1, <2>0, <2>2
    <3>4. all[i] = w[i - k]
      BY <1>3, <2>2, <3>3
    <3>. QED
      BY <1>1, <2>0, <3>2, <3>4
  <2>3. CASE i > k + Len(w)
    <3>1. i - (k + Len(w)) \in 1..Len(q)
      BY <1>1, <1>3, <2>0, <2>3
    <3>2. q[i - (k + Len(w))] = b + k + Len(w) + (i - (k + Len(w)))
      BY <3>1, <1>c DEF Counting, k
    <3>3. ~ (i <= k) /\ ~ (i <= k + Len(w))
      BY <1>1, <2>0, <2>3
    <3>4. all[i] = q[i - (k + Len(w))]
      BY <1>3, <3>3
    <3>. QED
      BY <1>1, <2>0, <3>2, <3>4
  <2>. QED
    BY <1>1, <2>0, <2>1, <2>2, <2>3
<1>6. all = [i \in 1..(e - b) |-> b + i]
  BY <1>3, <1>4, <1>5
<1>. QED
  BY <1>6 DEF all, s

\* A connection nothing happens to keeps what it counts.
LEMMA CountsOnKept ==
    ASSUME NEW c \in Connection, NEW n, CountsOn(c, n), heard' = heard, emitted' = emitted,
           wire'[c] = wire[c], queue'[c] = queue[c], base'[c] = base[c]
    PROVE  CountsOn(c, n)'
BY DEF CountsOn

LEMMA LeftOutStep ==
    ASSUME StreamTypes, OneAtATime, NothingBeforeOpen, NothingAhead, NothingLeftOut,
           [StreamNext]_streamVars
    PROVE  NothingLeftOut'
<1>1. /\ route \in [Connection -> RouteState] /\ base \in [Connection -> Nat]
      /\ queue \in [Connection -> Seq(Nat)] /\ wire \in [Connection -> Seq(Nat)]
      /\ heard \in Seq(Nat) /\ emitted \in Nat /\ sources \subseteq Connection
  BY StreamConstants DEF StreamTypes, StreamConstants, Connection
<1>2. ASSUME NEW k \in sources, NEW d \in sources PROVE d = k
  BY <1>2 DEF OneAtATime
<1>3. ASSUME OpenSource PROVE NothingLeftOut'
  <2>1. /\ current' = current + 1 /\ current' \in Connection /\ sources' = sources \union {current'}
        /\ route' = [route EXCEPT ![current'] = "asked"]
        /\ UNCHANGED <<base, queue, wire, emitted, heard>>
    BY <1>3, StreamConstants DEF OpenSource, StreamTypes, Connection, StreamConstants
  <2>2. ASSUME NEW d \in sources', route'[d] = "open" PROVE d \in sources /\ route[d] = "open"
    BY <1>1, <2>1, <2>2
  <2>3. ASSUME NEW d \in sources', route'[d] = "open" PROVE \E n \in Nat : CountsOn(d, n)'
    <3>1. PICK n \in Nat : CountsOn(d, n)
      BY <2>2, <2>3 DEF NothingLeftOut
    <3>2. d \in Connection
      BY <1>1, <2>2, <2>3
    <3>. QED
      BY <2>1, <3>1, <3>2, CountsOnKept
  <2>. QED
    BY <2>3 DEF NothingLeftOut
<1>4. ASSUME NEW c \in Connection, Accept(c) PROVE NothingLeftOut'
  <2>1. /\ route[c] = "asked" /\ route' = [route EXCEPT ![c] = "open"]
        /\ base' = [base EXCEPT ![c] = emitted]
        /\ sources' = sources /\ UNCHANGED <<queue, wire, emitted, heard>>
    BY <1>4 DEF Accept, clientVars
  <2>2. ASSUME NEW d \in sources', route'[d] = "open" PROVE \E n \in Nat : CountsOn(d, n)'
    <3>1. CASE d = c
      <4>1. queue[c] = <<>> /\ wire[c] = <<>>
        BY <2>1 DEF NothingBeforeOpen
      <4>2. Counting(heard, <<>>, <<>>, emitted, emitted, Len(heard))
        BY <1>1, CountingStarts DEF NothingAhead
      <4>3. /\ heard' = heard /\ wire'[d] = <<>> /\ queue'[d] = <<>>
            /\ base'[d] = emitted /\ emitted' = emitted
        BY <1>1, <2>1, <3>1, <4>1
      <4>4. CountsOn(d, Len(heard))' /\ Len(heard') \in Nat
        BY <1>1, <4>2, <4>3 DEF CountsOn
      <4>. QED
        BY <4>4, <4>3, <4>2 DEF CountsOn
    <3>2. CASE d # c
      <4>1. d \in sources /\ route[d] = "open" /\ d \in Connection
        BY <1>1, <2>1, <2>2, <3>2
      <4>2. PICK n \in Nat : CountsOn(d, n)
        BY <4>1 DEF NothingLeftOut
      <4>3. base'[d] = base[d]
        BY <1>1, <2>1, <3>2, <4>1
      <4>. QED
        BY <2>1, <4>1, <4>2, <4>3, CountsOnKept
    <3>. QED
      BY <3>1, <3>2
  <2>. QED
    BY <2>2 DEF NothingLeftOut
<1>5. ASSUME Emit PROVE NothingLeftOut'
  <2>1. /\ emitted' = emitted + 1 /\ PushAll(emitted') /\ sources' = sources
        /\ UNCHANGED <<route, base, wire, heard>>
    BY <1>5 DEF Emit, clientVars
  <2>2. ASSUME NEW d \in sources', route'[d] = "open" PROVE \E n \in Nat : CountsOn(d, n)'
    <3>1. d \in sources /\ route[d] = "open" /\ d \in Connection
      BY <1>1, <2>1, <2>2
    <3>2. PICK n \in Nat : CountsOn(d, n)
      BY <3>1 DEF NothingLeftOut
    <3>3. queue'[d] = Append(queue[d], emitted + 1)
      BY <2>1, <3>1 DEF PushAll, Listening
    <3>4. Counting(heard, wire[d], Append(queue[d], emitted + 1), base[d], emitted + 1, n)
      <4>1. wire[d] \in Seq(Nat) /\ queue[d] \in Seq(Nat) /\ base[d] \in Nat
        BY <1>1, <3>1
      <4>. QED
        BY <1>1, <3>2, <4>1, CountingEmits DEF CountsOn
    <3>5. CountsOn(d, n)'
      BY <2>1, <3>3, <3>4 DEF CountsOn
    <3>. QED
      BY <3>5
  <2>. QED
    BY <2>2 DEF NothingLeftOut
<1>6. ASSUME NEW c \in Connection, Deliver(c) PROVE NothingLeftOut'
  <2>1. /\ c \in sources /\ route[c] = "open" /\ wire[c] # <<>>
        /\ heard' = Append(heard, Head(wire[c])) /\ wire' = [wire EXCEPT ![c] = Tail(@)]
        /\ sources' = sources /\ UNCHANGED <<route, base, queue, emitted>>
    BY <1>6 DEF Deliver, clientVars
  <2>2. ASSUME NEW d \in sources', route'[d] = "open" PROVE \E n \in Nat : CountsOn(d, n)'
    <3>1. d = c
      BY <1>2, <2>1
    <3>2. PICK n \in Nat : CountsOn(c, n)
      BY <2>1 DEF NothingLeftOut
    <3>3. wire'[c] = Tail(wire[c])
      BY <1>1, <2>1
    <3>4. Counting(Append(heard, Head(wire[c])), Tail(wire[c]), queue[c], base[c], emitted, n)
      <4>1. wire[c] \in Seq(Nat) /\ queue[c] \in Seq(Nat) /\ base[c] \in Nat
        BY <1>1
      <4>. QED
        BY <1>1, <2>1, <3>2, <4>1, CountingHears DEF CountsOn
    <3>5. CountsOn(c, n)'
      BY <2>1, <3>3, <3>4 DEF CountsOn
    <3>. QED
      BY <3>1, <3>5
  <2>. QED
    BY <2>2 DEF NothingLeftOut
<1>7. ASSUME NEW c \in Connection, Write(c) PROVE NothingLeftOut'
  <2>1. /\ queue[c] # <<>> /\ queue' = [queue EXCEPT ![c] = Tail(@)]
        /\ wire' = IF route[c] = "half" THEN wire
                   ELSE [wire EXCEPT ![c] = Append(@, Head(queue[c]))]
        /\ sources' = sources /\ UNCHANGED <<route, base, emitted, heard>>
    BY <1>7 DEF Write, clientVars
  <2>2. ASSUME NEW d \in sources', route'[d] = "open" PROVE \E n \in Nat : CountsOn(d, n)'
    <3>1. d \in sources /\ route[d] = "open" /\ d \in Connection
      BY <1>1, <2>1, <2>2
    <3>2. PICK n \in Nat : CountsOn(d, n)
      BY <3>1 DEF NothingLeftOut
    <3>3. CASE d = c
      <4>1. wire'[c] = Append(wire[c], Head(queue[c])) /\ queue'[c] = Tail(queue[c])
        BY <1>1, <2>1, <3>1, <3>3
      <4>2. Counting(heard, Append(wire[c], Head(queue[c])), Tail(queue[c]), base[c], emitted, n)
        <5>1. wire[c] \in Seq(Nat) /\ queue[c] \in Seq(Nat) /\ base[c] \in Nat
          BY <1>1
        <5>. QED
          BY <1>1, <2>1, <3>2, <3>3, <5>1, CountingWrites DEF CountsOn
      <4>3. CountsOn(c, n)'
        BY <2>1, <4>1, <4>2 DEF CountsOn
      <4>. QED
        BY <3>3, <4>3
    <3>4. CASE d # c
      <4>1. wire'[d] = wire[d] /\ queue'[d] = queue[d]
        BY <1>1, <2>1, <3>1, <3>4
      <4>2. CountsOn(d, n)'
        BY <2>1, <3>1, <3>2, <4>1, CountsOnKept
      <4>. QED
        BY <4>2
    <3>. QED
      BY <3>3, <3>4
  <2>. QED
    BY <2>2 DEF NothingLeftOut
\* The others change nothing of a connection that stays open.
<1>8. ASSUME UNCHANGED <<heard, emitted, base>>,
             \A d \in sources' : route'[d] = "open" =>
                /\ d \in sources /\ route[d] = "open"
                /\ wire'[d] = wire[d] /\ queue'[d] = queue[d]
      PROVE  NothingLeftOut'
  <2>1. ASSUME NEW d \in sources', route'[d] = "open" PROVE \E n \in Nat : CountsOn(d, n)'
    <3>1. d \in sources /\ route[d] = "open" /\ d \in Connection
      BY <1>1, <1>8, <2>1
    <3>2. PICK n \in Nat : CountsOn(d, n)
      BY <3>1 DEF NothingLeftOut
    <3>. QED
      BY <1>8, <2>1, <3>1, <3>2, CountsOnKept
  <2>. QED
    BY <2>1 DEF NothingLeftOut
<1>9. ASSUME NEW c \in Connection, SourceError(c) PROVE NothingLeftOut'
  BY <1>1, <1>8, <1>9 DEF SourceError
<1>10. ASSUME NEW c \in Connection, Break(c) \/ Finalize(c) PROVE NothingLeftOut'
  <2>1. CASE Break(c)
    <3>1. /\ route' = [route EXCEPT ![c] = Given(@)] /\ route[c] \in RouteState
          /\ sources' = sources /\ UNCHANGED <<wire, queue, heard, emitted, base>>
      BY <1>1, <2>1 DEF Break, clientVars
    <3>2. Given(route[c]) # "open"
      BY <3>1, GivenUp
    <3>. QED
      BY <1>1, <1>8, <3>1, <3>2
  <2>2. CASE Finalize(c)
    BY <1>1, <1>8, <2>2 DEF Finalize, clientVars
  <2>. QED
    BY <1>10, <2>1, <2>2
<1>11. ASSUME Dispose PROVE NothingLeftOut'
  <2>1. /\ sources' \subseteq sources /\ UNCHANGED <<wire, queue, heard, emitted, base>>
        /\ route' = IF current = 0 THEN route ELSE [route EXCEPT ![current] = Given(@)]
        /\ sources' = sources \ {current}
    BY <1>11 DEF Dispose
  <2>2. ASSUME NEW d \in sources' PROVE route'[d] = route[d]
    BY <1>1, <2>1
  <2>. QED
    BY <1>8, <2>1, <2>2
<1>12. ASSUME FactoryThrows \/ TimerFires \/ UNCHANGED streamVars PROVE NothingLeftOut'
  <2>1. UNCHANGED <<sources, route, wire, queue, heard, emitted, base>>
    BY <1>12 DEF FactoryThrows, TimerFires, serverVars, clientVars, streamVars
  <2>. QED
    BY <1>8, <2>1
<1>. QED
  BY <1>3, <1>4, <1>5, <1>6, <1>7, <1>9, <1>10, <1>11, <1>12 DEF StreamNext

LEMMA StreamInvInductive == StreamSpec => []StreamInv
<1>1. StreamInit => StreamInv
  <2>1. StreamInit => StreamTypes
    <3>1. \A c \in Connection : "none" \in RouteState /\ 0 \in Nat /\ <<>> \in Seq(Nat)
      BY DEF RouteState
    <3>2. current = 0 => current \in 0..MaxConnections
      BY StreamConstants DEF StreamConstants
    <3>. SUFFICES ASSUME StreamInit PROVE StreamTypes
      OBVIOUS
    <3>3. disposed \in BOOLEAN /\ timer \in BOOLEAN
      BY DEF StreamInit
    <3>4. looking \in Nat /\ emitted \in Nat /\ throws \in Nat /\ current \in 0..MaxConnections
      BY <3>2 DEF StreamInit
    <3>5. sources \subseteq 1..current /\ heard \in Seq(Nat)
      BY DEF StreamInit
    <3>6. route \in [Connection -> RouteState] /\ base \in [Connection -> Nat]
      BY <3>1 DEF StreamInit
    <3>7. queue \in [Connection -> Seq(Nat)] /\ wire \in [Connection -> Seq(Nat)]
      BY <3>1 DEF StreamInit
    <3>. QED
      BY <3>3, <3>4, <3>5, <3>6, <3>7 DEF StreamTypes
  <2>2. StreamInit => OneAtATime /\ NothingBeforeOpen
    BY DEF StreamInit, OneAtATime, NothingBeforeOpen
  <2>3. StreamInit => NothingAhead /\ HeardRises /\ NothingLeftOut
    BY DEF StreamInit, NothingAhead, HeardRises, NothingLeftOut
  <2>. QED
    BY <2>1, <2>2, <2>3 DEF StreamInv
<1>2. StreamInv /\ [StreamNext]_streamVars => StreamInv'
  BY StreamTypesStep, OneAtATimeStep, BeforeOpenStep, AheadStep, RisesStep, LeftOutStep
     DEF StreamInv
<1>. QED
  BY <1>1, <1>2, PTL DEF StreamSpec

\* Of the sources a client opens only one is attached, and on it the client has
\* heard, has on the wire or has waiting in the server's queue every event emitted
\* since the route was there, once and in order, behind older ones: for any number
\* of connections that break, of factories that throw and of events.
THEOREM StreamsAreHeardInOrder == StreamSpec => []HeardInOrder
<1>1. StreamInv => HeardInOrder
  <2>. SUFFICES ASSUME StreamInv, NEW c \in sources
                PROVE  /\ sources = {c}
                       /\ route[c] = "open" =>
                            \E n \in 0..Len(heard) :
                              /\ \A i \in 1..n : heard[i] <= base[c]
                              /\ SubSeq(heard, n + 1, Len(heard)) \o wire[c] \o queue[c]
                                   = [i \in 1..(emitted - base[c]) |-> base[c] + i]
    BY DEF HeardInOrder
  <2>1. sources = {c}
    BY DEF StreamInv, OneAtATime
  <2>2. ASSUME route[c] = "open"
        PROVE  \E n \in 0..Len(heard) :
                  /\ \A i \in 1..n : heard[i] <= base[c]
                  /\ SubSeq(heard, n + 1, Len(heard)) \o wire[c] \o queue[c]
                       = [i \in 1..(emitted - base[c]) |-> base[c] + i]
    <3>1. PICK n \in Nat : CountsOn(c, n)
      BY <2>2 DEF StreamInv, NothingLeftOut
    <3>2. /\ heard \in Seq(Nat) /\ wire[c] \in Seq(Nat) /\ queue[c] \in Seq(Nat)
          /\ base[c] \in Nat /\ emitted \in Nat
      BY StreamConstants DEF StreamInv, StreamTypes, Connection, StreamConstants
    <3>3. Counting(heard, wire[c], queue[c], base[c], emitted, n)
      BY <3>1 DEF CountsOn
    <3>4. SubSeq(heard, n + 1, Len(heard)) \o wire[c] \o queue[c]
            = [i \in 1..(emitted - base[c]) |-> base[c] + i]
      <4>. DEFINE w == wire[c]
                  q == queue[c]
                  b == base[c]
      <4>1. /\ heard \in Seq(Nat) /\ w \in Seq(Nat) /\ q \in Seq(Nat)
            /\ b \in Nat /\ emitted \in Nat /\ n \in Nat
            /\ Counting(heard, w, q, b, emitted, n)
        BY <3>2, <3>3
      <4>. HIDE DEF w, q, b
      <4>2. Behind(heard, w, q, n) = Numbered(b, emitted)
        BY <4>1, CountingSays
      <4>. QED
        BY <4>2 DEF w, q, b, Behind, Numbered
    <3>5. n \in 0..Len(heard) /\ \A i \in 1..n : heard[i] <= base[c]
      BY <3>3 DEF Counting
    <3>. QED
      BY <3>4, <3>5
  <2>. QED
    BY <2>1, <2>2
<1>. QED
  BY <1>1, StreamInvInductive, PTL

\* onEvent is never called with an event twice, nor with one older than a former
\* one, over all the connections of a subscription.
THEOREM NothingIsHeardTwice == StreamSpec => []HeardRises
<1>1. StreamInv => HeardRises
  BY DEF StreamInv
<1>. QED
  BY <1>1, StreamInvInductive, PTL

-----------------------------------------------------------------------------
(* AlphaScores: the invariant *)

ScoreRow == [key : ScoreKey, ts : Nat]

AlphaTypes ==
    /\ candidatesScored \in Nat /\ last \in Seq(ScoreRow)
    /\ sending \in [Reader -> Seq(ScoreRow)]
    /\ readers \in 0..MaxReaders /\ reader \in 0..readers
    /\ scoreCache \in Seq(ScoreRow)
    /\ newestHeard \in [ScoreKey -> Nat]

Ascending(s) == \A i, j \in 1..Len(s) : i <= j => s[i].ts <= s[j].ts
Before(s, t) == \A i \in 1..Len(s) : s[i].ts <= t
After(s, t) == \A i \in 1..Len(s) : t <= s[i].ts

\* Rows stay in the order they were made in: in the buffer, and in what was taken
\* for a connection, which is older than what the buffer still has.
RowsInOrder ==
    /\ Ascending(last) /\ Before(last, candidatesScored)
    /\ \A c \in Reader :
        /\ Ascending(sending[c]) /\ Before(sending[c], candidatesScored)
        /\ \A j \in 1..Len(last) : Before(sending[c], last[j].ts)

\* Nothing is sent on a connection to come.
NothingSentAhead ==
    /\ connected \subseteq 1..readers
    /\ \A c \in Reader : c > readers => sending[c] = <<>>

\* What the client heard is older than all it may yet hear.
NewestIsPast ==
    \A k \in ScoreKey :
        /\ newestHeard[k] <= candidatesScored
        /\ After(last, newestHeard[k])
        /\ reader # 0 => After(sending[reader], newestHeard[k])

\* The client's cache is a map.
OneEntryPerKey ==
    \A i, j \in 1..Len(scoreCache) : scoreCache[i].key = scoreCache[j].key => i = j

AlphaInv ==
    /\ AlphaTypes /\ RowsInOrder /\ NothingSentAhead /\ NewestIsPast
    /\ OneEntryPerKey /\ NewestScoreWins

-----------------------------------------------------------------------------
(* AlphaScores: sequences of rows *)

LEMMA TailOfRows ==
    ASSUME NEW s \in Seq(ScoreRow), s # <<>>
    PROVE  /\ Head(s) \in ScoreRow /\ Head(s) = s[1] /\ Tail(s) \in Seq(ScoreRow)
           /\ Len(s) \in Nat /\ 1 \in 1..Len(s)
           /\ \A i \in 1..Len(Tail(s)) : i + 1 \in 1..Len(s) /\ Tail(s)[i] = s[i + 1]
OBVIOUS

LEMMA AppendedRow ==
    ASSUME NEW s \in Seq(ScoreRow), NEW r \in ScoreRow
    PROVE  /\ Append(s, r) \in Seq(ScoreRow) /\ Len(Append(s, r)) = Len(s) + 1
           /\ Len(s) \in Nat /\ Append(s, r)[Len(s) + 1] = r
           /\ \A i \in 1..Len(s) : Append(s, r)[i] = s[i]
OBVIOUS

LEMMA RowTime ==
    ASSUME NEW s \in Seq(ScoreRow), NEW i \in 1..Len(s)
    PROVE  s[i] \in ScoreRow /\ s[i].ts \in Nat /\ s[i].key \in ScoreKey
<1>1. s[i] \in ScoreRow
  OBVIOUS
<1>. QED
  BY <1>1 DEF ScoreRow

\* A sequence whose rows are rows of another one, in the same order.
LEMMA Thinned ==
    ASSUME NEW s, NEW t, NEW d \in Nat, NEW x,
           Len(s) \in Nat, Len(t) \in Nat,
           \A i \in 1..Len(t) : i + d \in 1..Len(s) /\ t[i] = s[i + d]
    PROVE  /\ Ascending(s) => Ascending(t)
           /\ Before(s, x) => Before(t, x)
           /\ After(s, x) => After(t, x)
<1>1. ASSUME Ascending(s), NEW i \in 1..Len(t), NEW j \in 1..Len(t), i <= j
      PROVE  t[i].ts <= t[j].ts
  <2>1. i + d \in 1..Len(s) /\ j + d \in 1..Len(s) /\ i + d <= j + d
    BY <1>1
  <2>2. t[i] = s[i + d] /\ t[j] = s[j + d]
    OBVIOUS
  <2>. QED
    BY <1>1, <2>1, <2>2 DEF Ascending
<1>2. Before(s, x) => Before(t, x)
  BY DEF Before
<1>3. After(s, x) => After(t, x)
  BY DEF After
<1>. QED
  BY <1>1, <1>2, <1>3 DEF Ascending

LEMMA BufferKeepsTheEnd ==
    ASSUME NEW s \in Seq(ScoreRow)
    PROVE  /\ Buffered(s) \in Seq(ScoreRow)
           /\ \E d \in Nat : \A i \in 1..Len(Buffered(s)) :
                 i + d \in 1..Len(s) /\ Buffered(s)[i] = s[i + d]
<1>. DEFINE n == Len(s)
            over == n - BufferLimit
            t == SubSeq(s, over + 1, n)
<1>1. n \in Nat /\ BufferLimit \in Nat \ {0}
  BY AlphaConstants DEF AlphaConstants
<1>2. CASE ~ (n > BufferLimit)
  <2>1. Buffered(s) = s
    BY <1>2 DEF Buffered
  <2>2. \A i \in 1..n : i + 0 \in 1..n /\ s[i] = s[i + 0]
    BY <1>1
  <2>. QED
    BY <2>1, <2>2
<1>3. CASE n > BufferLimit
  <2>1. Buffered(s) = t
    BY <1>3 DEF Buffered
  <2>2. over \in Nat /\ over + 1 \in 1..n + 1 /\ over + 1 \in Nat /\ over + 1 >= 1
    BY <1>1, <1>3
  <2>. DEFINE m == over + 1
  <2>3. t \in Seq(ScoreRow) /\ Len(t) = n - over /\ \A i \in 1..Len(t) : t[i] = s[i + over]
    <3>1. m \in 1..n + 1 /\ n \in 0..Len(s)
      BY <1>1, <2>2
    <3>2. m - 1 = over /\ n - m + 1 = n - over /\ m <= n + 1
      BY <1>1, <2>2
    <3>. HIDE DEF m, n, over
    <3>3. SubSeq(s, m, n) \in Seq(ScoreRow)
      BY <3>1, SubSeqProperties
    <3>. QED
      BY <3>1, <3>2, <3>3, SubSeqProperties DEF m, n, over
  <2>4. \A i \in 1..Len(t) : i + over \in 1..n
    BY <1>1, <2>2, <2>3
  <2>. HIDE DEF t, over
  <2>. QED
    BY <2>1, <2>2, <2>3, <2>4
<1>. QED
  BY <1>2, <1>3

LEMMA RemovedAt ==
    ASSUME NEW s \in Seq(ScoreRow), NEW n \in 1..Len(s)
    PROVE  /\ RemoveAt(s, n) \in Seq(ScoreRow)
           /\ Len(s) \in Nat \ {0} /\ Len(RemoveAt(s, n)) = Len(s) - 1
           /\ \A i \in 1..(Len(s) - 1) : RemoveAt(s, n)[i] = IF i < n THEN s[i] ELSE s[i + 1]
<1>. DEFINE front == SubSeq(s, 1, n - 1)
            rest == SubSeq(s, n + 1, Len(s))
<1>1. Len(s) \in Nat \ {0} /\ n \in Nat \ {0} /\ n <= Len(s)
  OBVIOUS
<1>2. \A i \in 1..Len(s) : s[i] \in ScoreRow
  OBVIOUS
<1>3. front \in Seq(ScoreRow) /\ Len(front) = n - 1 /\ \A i \in 1..(n - 1) : front[i] = s[i]
  <2>1. \A i \in 1..(n - 1) : s[i] \in ScoreRow
    BY <1>1, <1>2
  <2>2. 1 \in Int /\ n - 1 \in Int
    BY <1>1
  <2>3. /\ front \in Seq(ScoreRow)
        /\ Len(front) = IF 1 <= n - 1 THEN n - 1 - 1 + 1 ELSE 0
        /\ \A i \in 1..(n - 1 - 1 + 1) : front[i] = s[1 + i - 1]
    BY <2>1, <2>2, SubSeqProperties
  <2>. HIDE DEF front
  <2>4. Len(front) = n - 1
    BY <1>1, <2>3
  <2>5. ASSUME NEW i \in 1..(n - 1) PROVE front[i] = s[i]
    <3>1. i \in 1..(n - 1 - 1 + 1) /\ 1 + i - 1 = i
      BY <1>1
    <3>. QED
      BY <2>3, <3>1
  <2>. QED
    BY <2>3, <2>4, <2>5
<1>4. rest \in Seq(ScoreRow) /\ Len(rest) = Len(s) - n
      /\ \A i \in 1..(Len(s) - n) : rest[i] = s[n + i]
  <2>1. \A i \in (n + 1)..Len(s) : s[i] \in ScoreRow
    BY <1>1, <1>2
  <2>2. n + 1 \in Int /\ Len(s) \in Int
    BY <1>1
  <2>3. /\ rest \in Seq(ScoreRow)
        /\ Len(rest) = IF n + 1 <= Len(s) THEN Len(s) - (n + 1) + 1 ELSE 0
        /\ \A i \in 1..(Len(s) - (n + 1) + 1) : rest[i] = s[n + 1 + i - 1]
    BY <2>1, <2>2, SubSeqProperties
  <2>. HIDE DEF rest
  <2>4. Len(rest) = Len(s) - n
    BY <1>1, <2>3
  <2>5. ASSUME NEW i \in 1..(Len(s) - n) PROVE rest[i] = s[n + i]
    <3>1. i \in 1..(Len(s) - (n + 1) + 1) /\ n + 1 + i - 1 = n + i
      BY <1>1
    <3>. QED
      BY <2>3, <3>1
  <2>. QED
    BY <2>3, <2>4, <2>5
<1>5. RemoveAt(s, n) = front \o rest
  BY DEF RemoveAt
<1>. HIDE DEF front, rest
<1>6. front \in Seq(ScoreRow) /\ rest \in Seq(ScoreRow)
  BY <1>3, <1>4
<1>7. /\ front \o rest \in Seq(ScoreRow) /\ Len(front \o rest) = Len(front) + Len(rest)
      /\ \A i \in 1..(Len(front) + Len(rest)) :
            (front \o rest)[i] = IF i <= Len(front) THEN front[i] ELSE rest[i - Len(front)]
  BY <1>6, ConcatProperties
<1>8. Len(front) + Len(rest) = Len(s) - 1
  BY <1>1, <1>3, <1>4
<1>9. ASSUME NEW i \in 1..(Len(s) - 1)
      PROVE  (front \o rest)[i] = IF i < n THEN s[i] ELSE s[i + 1]
  <2>1. (front \o rest)[i] = IF i <= n - 1 THEN front[i] ELSE rest[i - (n - 1)]
    BY <1>3, <1>7, <1>8
  <2>2. CASE i < n
    <3>1. i \in 1..(n - 1) /\ i <= n - 1
      BY <1>1, <2>2
    <3>. QED
      BY <1>3, <2>1, <2>2, <3>1
  <2>3. CASE ~ (i < n)
    <3>1. i - (n - 1) \in 1..(Len(s) - n) /\ ~ (i <= n - 1) /\ n + (i - (n - 1)) = i + 1
      BY <1>1, <2>3
    <3>2. rest[i - (n - 1)] = s[n + (i - (n - 1))]
      BY <1>4, <3>1
    <3>. QED
      BY <2>1, <2>3, <3>1, <3>2
  <2>. QED
    BY <2>2, <2>3
<1>. QED
  BY <1>1, <1>5, <1>7, <1>8, <1>9

\* What is left of a map when an entry is taken out.
Unique(s) == \A i, j \in 1..Len(s) : s[i].key = s[j].key => i = j
LEMMA EntryRemoved ==
    ASSUME NEW s \in Seq(ScoreRow), NEW n \in 1..Len(s), Unique(s)
    PROVE  /\ RemoveAt(s, n) \in Seq(ScoreRow)
           /\ Unique(RemoveAt(s, n))
           /\ \A i \in 1..Len(RemoveAt(s, n)) :
                 \E m \in 1..Len(s) : m # n /\ RemoveAt(s, n)[i] = s[m]
<1>. DEFINE t == RemoveAt(s, n)
            At(i) == IF i < n THEN i ELSE i + 1
<1>1. /\ t \in Seq(ScoreRow) /\ Len(s) \in Nat \ {0} /\ Len(t) = Len(s) - 1
      /\ \A i \in 1..Len(t) : t[i] = IF i < n THEN s[i] ELSE s[i + 1]
  <2>1. Len(t) = Len(s) - 1
    BY RemovedAt
  <2>. QED
    BY <2>1, RemovedAt
<1>. HIDE DEF t
<1>2. ASSUME NEW i \in 1..Len(t)
      PROVE  At(i) \in 1..Len(s) /\ At(i) # n /\ t[i] = s[At(i)]
  <2>1. At(i) \in 1..Len(s) /\ At(i) # n
    BY <1>1
  <2>2. t[i] = s[At(i)]
    BY <1>1
  <2>. QED
    BY <2>1, <2>2
<1>3. ASSUME NEW i \in 1..Len(t), NEW j \in 1..Len(t), At(i) = At(j) PROVE i = j
  BY <1>1, <1>3
<1>. HIDE DEF At
<1>4. ASSUME NEW i \in 1..Len(t), NEW j \in 1..Len(t), t[i].key = t[j].key PROVE i = j
  <2>1. At(i) \in 1..Len(s) /\ At(j) \in 1..Len(s) /\ s[At(i)].key = s[At(j)].key
    BY <1>2, <1>4
  <2>2. At(i) = At(j)
    BY <2>1 DEF Unique
  <2>. QED
    BY <1>3, <2>2
<1>. QED
  BY <1>1, <1>2, <1>4 DEF t, Unique

LEMMA LeastOfOne ==
    ASSUME NEW n \in Nat PROVE Min({n}) = n
<1>1. n \in {n} /\ \A y \in {n} : n <= y
  OBVIOUS
<1>2. Min({n}) = CHOOSE x \in {n} : \A y \in {n} : x <= y
  BY DEF Min
<1>. QED
  BY <1>1, <1>2

\* remember takes the entry of the row's key out.
WithoutKey(s, k) == RemoveFirstMatch(s, LAMBDA e : e.key = k)
LEMMA KeyTakenOut ==
    ASSUME NEW s \in Seq(ScoreRow), Unique(s), NEW k,
           NEW t, t = WithoutKey(s, k)
    PROVE  /\ t \in Seq(ScoreRow) /\ Unique(t)
           /\ \A i \in 1..Len(t) : t[i].key # k /\ \E m \in 1..Len(s) : t[i] = s[m]
<1>. DEFINE I == {i \in 1..Len(s) : s[i].key = k}
<1>1. t = IF \E i \in 1..Len(s) : s[i].key = k
          THEN RemoveAt(s, IF I # {} THEN Min(I) ELSE 0) ELSE s
  BY DEF WithoutKey, RemoveFirstMatch, SelectInSeq
<1>2. CASE I = {}
  <2>1. t = s
    BY <1>1, <1>2
  <2>. QED
    BY <1>2, <2>1
<1>3. CASE I # {}
  <2>1. PICK n \in 1..Len(s) : s[n].key = k
    BY <1>3
  <2>2. I = {n}
    BY <2>1 DEF Unique
  <2>3. n \in Nat
    OBVIOUS
  <2>4. t = RemoveAt(s, n)
    BY <1>1, <1>3, <2>1, <2>2, <2>3, LeastOfOne
  <2>5. ASSUME NEW i \in 1..Len(t) PROVE t[i].key # k /\ \E m \in 1..Len(s) : t[i] = s[m]
    <3>0. \A j \in 1..Len(RemoveAt(s, n)) :
             \E m \in 1..Len(s) : m # n /\ RemoveAt(s, n)[j] = s[m]
      BY EntryRemoved
    <3>1. PICK m \in 1..Len(s) : m # n /\ t[i] = s[m]
      BY <2>4, <3>0
    <3>. QED
      BY <2>1, <3>1 DEF Unique
  <2>. QED
    BY <2>4, <2>5, EntryRemoved
<1>. QED
  BY <1>2, <1>3

LEMMA EntryForgotten ==
    ASSUME NEW s \in Seq(ScoreRow), Unique(s), NEW e \in ToSet(s),
           NEW t, t = RemoveFirst(s, e)
    PROVE  /\ t \in Seq(ScoreRow) /\ Unique(t)
           /\ \A i \in 1..Len(t) : \E m \in 1..Len(s) : t[i] = s[m]
<1>. DEFINE I == {i \in 1..Len(s) : s[i] = e}
<1>1. t = IF \E i \in 1..Len(s) : s[i] = e
          THEN RemoveAt(s, IF I # {} THEN Min(I) ELSE 0) ELSE s
  BY DEF RemoveFirst, SelectInSeq
<1>2. PICK n \in 1..Len(s) : s[n] = e
  BY DEF ToSet
<1>3. I = {n} /\ n \in Nat
  BY <1>2 DEF Unique
<1>4. t = RemoveAt(s, n)
  BY <1>1, <1>2, <1>3, LeastOfOne
<1>. QED
  BY <1>4, EntryRemoved

-----------------------------------------------------------------------------
(* AlphaScores: every step keeps the invariant *)

\* The rows of a scored candidate.
NewRows(m) == [i \in DOMAIN Horizons |-> [key |-> <<m, Horizons[i]>>, ts |-> candidatesScored']]

LEMMA BufferedRows ==
    ASSUME AlphaTypes, NEW m \in ScoredMint, candidatesScored' = candidatesScored + 1
    PROVE  /\ last \o NewRows(m) \in Seq(ScoreRow)
           /\ Before(last, candidatesScored) => Before(last \o NewRows(m), candidatesScored')
           /\ Before(last, candidatesScored) /\ Ascending(last) => Ascending(last \o NewRows(m))
           /\ \A x : x \in Nat /\ x <= candidatesScored /\ After(last, x)
                       => After(last \o NewRows(m), x)
<1>. DEFINE rows == NewRows(m)
            now == candidatesScored + 1
            all == last \o rows
<1>1. rows \in Seq(ScoreRow) /\ \A i \in 1..Len(rows) : rows[i].ts = now
  <2>1. /\ Horizons \in Seq(ToSet(Horizons)) /\ now \in Nat
        /\ \A i \in DOMAIN Horizons : Horizons[i] \in ToSet(Horizons)
    BY AlphaConstants DEF AlphaConstants, AlphaTypes, ToSet
  <2>2. Len(Horizons) \in Nat /\ DOMAIN Horizons = 1..Len(Horizons)
    BY <2>1
  <2>3. rows = [i \in 1..Len(Horizons) |-> [key |-> <<m, Horizons[i]>>, ts |-> now]]
    BY <2>2 DEF NewRows
  <2>4. \A i \in 1..Len(Horizons) : [key |-> <<m, Horizons[i]>>, ts |-> now] \in ScoreRow
    BY <2>1, <2>2 DEF ScoreRow, ScoreKey
  <2>. HIDE DEF rows, now
  <2>5. rows \in Seq(ScoreRow) /\ Len(rows) = Len(Horizons)
    BY <2>2, <2>3, <2>4
  <2>6. \A i \in 1..Len(rows) : rows[i].ts = now
    BY <2>3, <2>5
  <2>. QED
    BY <2>5, <2>6
<1>2. last \in Seq(ScoreRow) /\ candidatesScored \in Nat /\ now \in Nat
  BY DEF AlphaTypes
<1>. HIDE DEF rows
<1>3. /\ all \in Seq(ScoreRow) /\ Len(all) = Len(last) + Len(rows)
      /\ \A i \in 1..(Len(last) + Len(rows)) :
            all[i] = IF i <= Len(last) THEN last[i] ELSE rows[i - Len(last)]
  BY <1>1, <1>2, ConcatProperties
<1>4. Len(last) \in Nat /\ Len(rows) \in Nat
  BY <1>1, <1>2
<1>. HIDE DEF all
<1>5. ASSUME NEW i \in 1..Len(all)
      PROVE  IF i <= Len(last) THEN i \in 1..Len(last) /\ all[i] = last[i]
             ELSE all[i].ts = now
  <2>1. CASE i <= Len(last)
    <3>1. i \in 1..Len(last)
      BY <1>3, <1>4, <2>1
    <3>. QED
      BY <1>3, <2>1, <3>1
  <2>2. CASE ~ (i <= Len(last))
    <3>1. i - Len(last) \in 1..Len(rows)
      BY <1>3, <1>4, <2>2
    <3>. QED
      BY <1>1, <1>3, <2>2, <3>1
  <2>. QED
    BY <2>1, <2>2
<1>6. \A i \in 1..Len(last) : last[i].ts \in Nat
  BY <1>2, RowTime
<1>7. ASSUME Before(last, candidatesScored), NEW i \in 1..Len(all) PROVE all[i].ts <= now
  <2>1. CASE i <= Len(last)
    BY <1>2, <1>5, <1>6, <1>7, <2>1 DEF Before
  <2>2. CASE ~ (i <= Len(last))
    <3>1. all[i].ts = now
      BY <1>5, <2>2
    <3>. QED
      BY <1>2, <3>1
  <2>. QED
    BY <2>1, <2>2
<1>8. ASSUME Before(last, candidatesScored), Ascending(last),
             NEW i \in 1..Len(all), NEW j \in 1..Len(all), i <= j
      PROVE  all[i].ts <= all[j].ts
  <2>1. CASE j <= Len(last)
    <3>1. i <= Len(last)
      BY <1>3, <1>4, <1>8, <2>1
    <3>. QED
      BY <1>5, <1>8, <2>1, <3>1 DEF Ascending
  <2>2. CASE ~ (j <= Len(last))
    <3>1. all[j].ts = now
      BY <1>5, <2>2
    <3>. QED
      BY <1>7, <1>8, <3>1
  <2>. QED
    BY <2>1, <2>2
<1>9. ASSUME NEW x, x \in Nat, x <= candidatesScored, After(last, x), NEW i \in 1..Len(all)
      PROVE  x <= all[i].ts
  <2>1. CASE i <= Len(last)
    BY <1>5, <1>9, <2>1 DEF After
  <2>2. CASE ~ (i <= Len(last))
    <3>1. all[i].ts = now
      BY <1>5, <2>2
    <3>. QED
      BY <1>2, <1>9, <3>1
  <2>. QED
    BY <2>1, <2>2
<1>10. candidatesScored' = now
  OBVIOUS
<1>. HIDE DEF now
<1>11. Before(last, candidatesScored) => Before(all, candidatesScored')
  BY <1>7, <1>10 DEF Before
<1>12. Before(last, candidatesScored) /\ Ascending(last) => Ascending(all)
  BY <1>8 DEF Ascending
<1>13. \A x : x \in Nat /\ x <= candidatesScored /\ After(last, x) => After(all, x)
  BY <1>9 DEF After
<1>. QED
  BY <1>3, <1>11, <1>12, <1>13 DEF all, rows

LEMMA AlphaTypesStep ==
    ASSUME AlphaTypes, OneEntryPerKey, [AlphaNext]_alphaVars
    PROVE  AlphaTypes' /\ OneEntryPerKey'
<1>0. OneEntryPerKey <=> Unique(scoreCache)
  BY DEF OneEntryPerKey, Unique
<1>1. ASSUME NEW m \in ScoredMint, ScoreCandidate(m) PROVE AlphaTypes' /\ OneEntryPerKey'
  <2>1. /\ candidatesScored' = candidatesScored + 1 /\ last' = Buffered(last \o NewRows(m))
        /\ UNCHANGED <<sending, connected, reader, readers, scoreCache, newestHeard>>
    BY <1>1 DEF ScoreCandidate, NewRows
  <2>2. last' \in Seq(ScoreRow)
    BY <2>1, BufferedRows, BufferKeepsTheEnd
  <2>. QED
    BY <2>1, <2>2 DEF AlphaTypes, OneEntryPerKey
<1>2. ASSUME HearRow PROVE AlphaTypes' /\ OneEntryPerKey'
  <2>. DEFINE row == Head(sending[reader])
              t == WithoutKey(scoreCache, row.key)
              entries == Append(t, row)
  <2>1. /\ reader \in Reader /\ sending[reader] # <<>>
        /\ sending' = [sending EXCEPT ![reader] = Tail(@)]
        /\ newestHeard' = [newestHeard EXCEPT ![row.key] = IF row.ts > @ THEN row.ts ELSE @]
        /\ UNCHANGED <<candidatesScored, last, connected, reader, readers>>
    BY <1>2, AlphaConstants DEF HearRow, AlphaTypes, Reader, AlphaConstants
  <2>2. scoreCache' = IF Len(entries) > MaxEntries THEN Tail(entries) ELSE entries
    BY <1>2 DEF HearRow, Remembered, WithoutKey
  <2>3. row \in ScoreRow /\ Tail(sending[reader]) \in Seq(ScoreRow)
    BY <2>1, TailOfRows DEF AlphaTypes
  <2>. HIDE DEF row
  <2>4. row.ts \in Nat
    BY <2>3 DEF ScoreRow
  <2>5. newestHeard' \in [ScoreKey -> Nat] /\ sending' \in [Reader -> Seq(ScoreRow)]
    BY <2>1, <2>3, <2>4 DEF AlphaTypes
  <2>6. /\ t \in Seq(ScoreRow) /\ Unique(t)
        /\ \A i \in 1..Len(t) : t[i].key # row.key
    BY <1>0, KeyTakenOut DEF AlphaTypes
  <2>. HIDE DEF t
  <2>7. entries \in Seq(ScoreRow) /\ Len(t) \in Nat /\ Len(entries) = Len(t) + 1
        /\ entries[Len(t) + 1] = row /\ \A i \in 1..Len(t) : entries[i] = t[i]
    BY <2>3, <2>6, AppendedRow
  <2>. HIDE DEF entries
  <2>8. Unique(entries)
    <3>1. ASSUME NEW i \in 1..Len(entries), NEW j \in 1..Len(entries),
                 entries[i].key = entries[j].key
          PROVE  i = j
      <4>1. CASE i = Len(t) + 1 /\ j # Len(t) + 1
        <5>1. j \in 1..Len(t)
          BY <2>7, <4>1
        <5>. QED
          BY <2>6, <2>7, <3>1, <4>1, <5>1
      <4>2. CASE j = Len(t) + 1 /\ i # Len(t) + 1
        <5>1. i \in 1..Len(t)
          BY <2>7, <4>2
        <5>. QED
          BY <2>6, <2>7, <3>1, <4>2, <5>1
      <4>3. CASE i # Len(t) + 1 /\ j # Len(t) + 1
        <5>1. i \in 1..Len(t) /\ j \in 1..Len(t)
          BY <2>7, <4>3
        <5>. QED
          BY <2>6, <2>7, <3>1, <5>1 DEF Unique
      <4>. QED
        BY <4>1, <4>2, <4>3
    <3>. QED
      BY <3>1 DEF Unique
  <2>9. Unique(scoreCache') /\ scoreCache' \in Seq(ScoreRow)
    <3>1. CASE Len(entries) > MaxEntries
      <4>1. entries # <<>>
        BY <2>7
      <4>2. scoreCache' = Tail(entries)
        BY <2>2, <3>1
      <4>3. /\ Tail(entries) \in Seq(ScoreRow)
            /\ \A i \in 1..Len(Tail(entries)) :
                  i + 1 \in 1..Len(entries) /\ Tail(entries)[i] = entries[i + 1]
        BY <2>7, <4>1, TailOfRows
      <4>. DEFINE u == Tail(entries)
      <4>. HIDE DEF u
      <4>4. ASSUME NEW i \in 1..Len(u), NEW j \in 1..Len(u), u[i].key = u[j].key PROVE i = j
        <5>1. i + 1 \in 1..Len(entries) /\ j + 1 \in 1..Len(entries)
              /\ entries[i + 1].key = entries[j + 1].key
          BY <4>3, <4>4 DEF u
        <5>2. i + 1 = j + 1
          BY <2>8, <5>1 DEF Unique
        <5>3. Len(u) \in Nat
          BY <4>3 DEF u
        <5>. QED
          BY <5>2, <5>3
      <4>. QED
        BY <4>2, <4>3, <4>4 DEF u, Unique
    <3>2. CASE ~ (Len(entries) > MaxEntries)
      BY <2>2, <2>7, <2>8, <3>2
    <3>. QED
      BY <3>1, <3>2
  <2>. QED
    BY <2>1, <2>5, <2>9 DEF AlphaTypes, OneEntryPerKey, Unique
<1>3. ASSUME NEW c \in Reader, TakeRow(c) PROVE AlphaTypes' /\ OneEntryPerKey'
  <2>1. /\ last # <<>> /\ last' = Tail(last)
        /\ sending' = [sending EXCEPT ![c] = Append(@, Head(last))]
        /\ UNCHANGED <<candidatesScored, connected, reader, readers, scoreCache, newestHeard>>
    BY <1>3 DEF TakeRow, Taken
  <2>2. Head(last) \in ScoreRow /\ Tail(last) \in Seq(ScoreRow) /\ sending[c] \in Seq(ScoreRow)
    BY <2>1, TailOfRows DEF AlphaTypes
  <2>3. Append(sending[c], Head(last)) \in Seq(ScoreRow)
    BY <2>2
  <2>. QED
    BY <2>1, <2>2, <2>3 DEF AlphaTypes, OneEntryPerKey
<1>4. ASSUME NEW c \in Reader, CloseReader(c) PROVE AlphaTypes' /\ OneEntryPerKey'
  BY <1>4 DEF CloseReader, AlphaTypes, OneEntryPerKey
<1>5. ASSUME NEW e \in ToSet(scoreCache), ForgetOldScore(e) PROVE AlphaTypes' /\ OneEntryPerKey'
  <2>1. /\ scoreCache' = RemoveFirst(scoreCache, e)
        /\ UNCHANGED <<candidatesScored, last, sending, connected, reader, readers, newestHeard>>
    BY <1>5 DEF ForgetOldScore
  <2>2. scoreCache' \in Seq(ScoreRow) /\ Unique(scoreCache')
    BY <1>0, <2>1, EntryForgotten DEF AlphaTypes
  <2>. QED
    BY <2>1, <2>2 DEF AlphaTypes, OneEntryPerKey, Unique
<1>6. ASSUME ReaderConnects \/ LoseReader \/ UNCHANGED alphaVars PROVE AlphaTypes' /\ OneEntryPerKey'
  <2>1. UNCHANGED <<candidatesScored, last, sending, scoreCache, newestHeard>>
    BY <1>6 DEF ReaderConnects, LoseReader, alphaVars
  <2>2. readers' \in 0..MaxReaders /\ reader' \in 0..readers'
    <3>1. CASE ReaderConnects
      BY <3>1, AlphaConstants DEF ReaderConnects, AlphaTypes, AlphaConstants
    <3>2. CASE LoseReader \/ UNCHANGED alphaVars
      BY <3>2 DEF LoseReader, alphaVars, AlphaTypes
    <3>. QED
      BY <1>6, <3>1, <3>2
  <2>. QED
    BY <2>1, <2>2 DEF AlphaTypes, OneEntryPerKey
<1>. QED
  BY <1>1, <1>2, <1>3, <1>4, <1>5, <1>6 DEF AlphaNext

LEMMA SentAheadStep ==
    ASSUME AlphaTypes, NothingSentAhead, [AlphaNext]_alphaVars
    PROVE  NothingSentAhead'
<1>. USE DEF NothingSentAhead
<1>0. readers \in Nat /\ sending \in [Reader -> Seq(ScoreRow)] /\ reader \in 0..readers
  BY AlphaConstants DEF AlphaTypes, AlphaConstants
<1>1. ASSUME NEW m \in ScoredMint, ScoreCandidate(m) PROVE NothingSentAhead'
  BY <1>1 DEF ScoreCandidate
<1>2. ASSUME HearRow PROVE NothingSentAhead'
  BY <1>0, <1>2 DEF HearRow
<1>3. ASSUME NEW c \in Reader, TakeRow(c) PROVE NothingSentAhead'
  <2>1. c \in 1..readers /\ ~ (c > readers)
    BY <1>0, <1>3 DEF TakeRow
  <2>2. UNCHANGED <<connected, readers>> /\ \A d \in Reader : d # c => sending'[d] = sending[d]
    BY <1>0, <1>3 DEF TakeRow
  <2>. QED
    BY <2>1, <2>2
<1>4. ASSUME NEW c \in Reader, CloseReader(c) PROVE NothingSentAhead'
  BY <1>0, <1>4 DEF CloseReader
<1>5. ASSUME NEW e \in ToSet(scoreCache), ForgetOldScore(e) PROVE NothingSentAhead'
  BY <1>5 DEF ForgetOldScore
<1>6. ASSUME ReaderConnects PROVE NothingSentAhead'
  <2>1. /\ readers' = readers + 1 /\ connected' = connected \union {readers + 1}
        /\ sending' = sending
    BY <1>6 DEF ReaderConnects
  <2>2. ASSUME NEW c \in Reader, c > readers' PROVE c > readers
    <3>1. c \in Nat
      BY DEF Reader
    <3>. QED
      BY <1>0, <2>1, <2>2, <3>1
  <2>3. connected' \subseteq 1..readers'
    BY <1>0, <2>1
  <2>. QED
    BY <2>1, <2>2, <2>3
<1>7. ASSUME LoseReader \/ UNCHANGED alphaVars PROVE NothingSentAhead'
  BY <1>7 DEF LoseReader, alphaVars
<1>. QED
  BY <1>1, <1>2, <1>3, <1>4, <1>5, <1>6, <1>7 DEF AlphaNext

LEMMA TailThinned ==
    ASSUME NEW s \in Seq(ScoreRow), s # <<>>
    PROVE  /\ Ascending(s) => Ascending(Tail(s)) /\ After(s, s[1].ts)
           /\ \A x : (Before(s, x) => Before(Tail(s), x)) /\ (After(s, x) => After(Tail(s), x))
<1>. DEFINE t == Tail(s)
<1>1. t \in Seq(ScoreRow) /\ Len(s) \in Nat /\ 1 \in 1..Len(s)
      /\ \A i \in 1..Len(t) : i + 1 \in 1..Len(s) /\ t[i] = s[i + 1]
  BY TailOfRows
<1>2. Len(t) \in Nat /\ 1 \in Nat
  BY <1>1
<1>. HIDE DEF t
<1>3. \A x : /\ Ascending(s) => Ascending(t)
             /\ Before(s, x) => Before(t, x)
             /\ After(s, x) => After(t, x)
  BY <1>1, <1>2, Thinned
<1>4. Ascending(s) => After(s, s[1].ts)
  BY <1>1 DEF Ascending, After
<1>. QED
  BY <1>3, <1>4 DEF t

LEMMA RowsInOrderStep ==
    ASSUME AlphaTypes, RowsInOrder, [AlphaNext]_alphaVars
    PROVE  RowsInOrder'
<1>0. /\ candidatesScored \in Nat /\ last \in Seq(ScoreRow)
      /\ sending \in [Reader -> Seq(ScoreRow)]
      /\ Ascending(last) /\ Before(last, candidatesScored)
  BY DEF AlphaTypes, RowsInOrder
<1>1. ASSUME NEW m \in ScoredMint, ScoreCandidate(m) PROVE RowsInOrder'
  <2>. DEFINE all == last \o NewRows(m)
  <2>1. candidatesScored' = candidatesScored + 1 /\ last' = Buffered(all) /\ sending' = sending
    BY <1>1 DEF ScoreCandidate, NewRows
  <2>2. /\ all \in Seq(ScoreRow) /\ Ascending(all) /\ Before(all, candidatesScored')
        /\ \A x : x \in Nat /\ x <= candidatesScored /\ After(last, x) => After(all, x)
    BY <1>0, <2>1, BufferedRows
  <2>. HIDE DEF all
  <2>3. PICK d \in Nat : \A i \in 1..Len(last') : i + d \in 1..Len(all) /\ last'[i] = all[i + d]
    BY <2>1, <2>2, BufferKeepsTheEnd
  <2>4. Len(all) \in Nat /\ last' \in Seq(ScoreRow) /\ Len(last') \in Nat
    BY <2>1, <2>2, BufferKeepsTheEnd
  <2>5. \A x : /\ Ascending(all) => Ascending(last')
               /\ Before(all, x) => Before(last', x)
               /\ After(all, x) => After(last', x)
    BY <2>3, <2>4, Thinned
  <2>6. Ascending(last') /\ Before(last', candidatesScored')
    BY <2>2, <2>5
  <2>7. ASSUME NEW c \in Reader
        PROVE  /\ Ascending(sending'[c]) /\ Before(sending'[c], candidatesScored')
               /\ \A j \in 1..Len(last') : Before(sending'[c], last'[j].ts)
    <3>1. sending'[c] = sending[c] /\ sending[c] \in Seq(ScoreRow)
      BY <1>0, <2>1
    <3>2. Ascending(sending[c]) /\ Before(sending[c], candidatesScored)
      BY DEF RowsInOrder
    <3>3. ASSUME NEW i \in 1..Len(sending[c])
          PROVE  /\ sending[c][i].ts \in Nat /\ sending[c][i].ts <= candidatesScored
                 /\ sending[c][i].ts <= candidatesScored'
                 /\ \A j \in 1..Len(last') : sending[c][i].ts <= last'[j].ts
      <4>. DEFINE x == sending[c][i].ts
      <4>1. x \in Nat
        BY <3>1, RowTime
      <4>2. x <= candidatesScored
        BY <3>2 DEF Before
      <4>3. After(last, x)
        BY DEF RowsInOrder, Before, After
      <4>. HIDE DEF x
      <4>4. After(last', x)
        BY <2>2, <2>5, <4>1, <4>2, <4>3
      <4>5. x <= candidatesScored'
        BY <1>0, <2>1, <4>1, <4>2
      <4>. QED
        BY <4>1, <4>2, <4>4, <4>5 DEF x, After
    <3>. QED
      BY <3>1, <3>2, <3>3 DEF Before
  <2>. QED
    BY <2>6, <2>7 DEF RowsInOrder
<1>2. ASSUME HearRow PROVE RowsInOrder'
  <2>1. /\ reader \in Reader /\ sending[reader] # <<>>
        /\ sending' = [sending EXCEPT ![reader] = Tail(@)]
        /\ UNCHANGED <<candidatesScored, last>>
    BY <1>2, AlphaConstants DEF HearRow, AlphaTypes, Reader, AlphaConstants
  <2>2. ASSUME NEW c \in Reader
        PROVE  /\ Ascending(sending'[c])
               /\ \A x : Before(sending[c], x) => Before(sending'[c], x)
    <3>1. CASE c = reader
      BY <1>0, <2>1, <3>1, TailThinned DEF RowsInOrder
    <3>2. CASE c # reader
      BY <1>0, <2>1, <3>2 DEF RowsInOrder
    <3>. QED
      BY <3>1, <3>2
  <2>. QED
    BY <2>1, <2>2 DEF RowsInOrder
<1>3. ASSUME NEW c \in Reader, TakeRow(c) PROVE RowsInOrder'
  <2>. DEFINE row == Head(last)
              s == sending[c]
              t == Append(s, row)
  <2>1. /\ last # <<>> /\ last' = Tail(last)
        /\ sending' = [sending EXCEPT ![c] = t]
        /\ candidatesScored' = candidatesScored
    BY <1>3 DEF TakeRow, Taken
  <2>2. /\ row = last[1] /\ 1 \in 1..Len(last) /\ row \in ScoreRow /\ s \in Seq(ScoreRow)
        /\ \A i \in 1..Len(last') : i + 1 \in 1..Len(last) /\ last'[i] = last[i + 1]
    BY <1>0, <2>1, TailOfRows
  <2>3. Ascending(last') /\ Before(last', candidatesScored) /\ After(last, row.ts)
        /\ After(last', row.ts)
    BY <1>0, <2>1, <2>2, TailThinned
  <2>4. Ascending(s) /\ Before(s, candidatesScored) /\ Before(s, row.ts)
    BY <2>2 DEF RowsInOrder
  <2>5. row.ts <= candidatesScored /\ row.ts \in Nat
    BY <1>0, <2>2 DEF Before, ScoreRow
  <2>. HIDE DEF row, s
  <2>6. /\ Len(s) \in Nat /\ Len(t) = Len(s) + 1 /\ t[Len(s) + 1] = row
        /\ \A i \in 1..Len(s) : t[i] = s[i]
    BY <2>2, AppendedRow
  <2>. HIDE DEF t
  <2>7. ASSUME NEW x, Before(s, x), row.ts <= x PROVE Before(t, x)
    <3>1. ASSUME NEW i \in 1..Len(t) PROVE t[i].ts <= x
      <4>1. CASE i = Len(s) + 1
        BY <2>6, <2>7, <4>1
      <4>2. CASE i # Len(s) + 1
        <5>1. i \in 1..Len(s)
          BY <2>6, <4>2
        <5>. QED
          BY <2>6, <2>7, <5>1 DEF Before
      <4>. QED
        BY <4>1, <4>2
    <3>. QED
      BY <3>1 DEF Before
  <2>8. Ascending(t)
    <3>1. ASSUME NEW i \in 1..Len(t), NEW j \in 1..Len(t), i <= j PROVE t[i].ts <= t[j].ts
      <4>1. CASE j = Len(s) + 1
        <5>1. t[j] = row
          BY <2>6, <4>1
        <5>2. row.ts <= row.ts
          BY <2>5
        <5>3. Before(t, row.ts)
          BY <2>4, <2>7, <5>2
        <5>. QED
          BY <5>1, <5>3 DEF Before
      <4>2. CASE j # Len(s) + 1
        <5>1. i \in 1..Len(s) /\ j \in 1..Len(s)
          BY <2>6, <3>1, <4>2
        <5>. QED
          BY <2>4, <2>6, <3>1, <5>1 DEF Ascending
      <4>. QED
        BY <4>1, <4>2
    <3>. QED
      BY <3>1 DEF Ascending
  <2>9. Before(t, candidatesScored)
    BY <2>4, <2>5, <2>7
  <2>10. ASSUME NEW j \in 1..Len(last') PROVE Before(t, last'[j].ts)
    <3>1. j + 1 \in 1..Len(last) /\ last'[j] = last[j + 1]
      BY <2>2
    <3>2. Before(s, last[j + 1].ts)
      BY <3>1 DEF RowsInOrder, s
    <3>3. row.ts <= last'[j].ts
      BY <2>3 DEF After
    <3>. QED
      BY <2>7, <3>1, <3>2, <3>3
  <2>11. ASSUME NEW d \in Reader
         PROVE  /\ Ascending(sending'[d]) /\ Before(sending'[d], candidatesScored')
                /\ \A j \in 1..Len(last') : Before(sending'[d], last'[j].ts)
    <3>1. CASE d = c
      <4>1. sending'[d] = t
        BY <1>0, <2>1, <3>1
      <4>. QED
        BY <2>1, <2>8, <2>9, <2>10, <4>1
    <3>2. CASE d # c
      <4>1. sending'[d] = sending[d]
        BY <1>0, <2>1, <3>2
      <4>2. \A j \in 1..Len(last') : Before(sending[d], last'[j].ts)
        <5>1. \A j \in 1..Len(last) : Before(sending[d], last[j].ts)
          BY DEF RowsInOrder
        <5>. QED
          BY <2>2, <5>1
      <4>3. Ascending(sending[d]) /\ Before(sending[d], candidatesScored)
        BY DEF RowsInOrder
      <4>. QED
        BY <2>1, <4>1, <4>2, <4>3
    <3>. QED
      BY <3>1, <3>2
  <2>. QED
    BY <2>1, <2>3, <2>11 DEF RowsInOrder
<1>4. ASSUME NEW c \in Reader, CloseReader(c) PROVE RowsInOrder'
  <2>1. sending' = [sending EXCEPT ![c] = <<>>] /\ UNCHANGED <<candidatesScored, last>>
    BY <1>4 DEF CloseReader
  <2>2. ASSUME NEW d \in Reader PROVE sending'[d] = sending[d] \/ sending'[d] = <<>>
    BY <1>0, <2>1
  <2>3. Ascending(<<>>) /\ \A x : Before(<<>>, x)
    BY DEF Ascending, Before
  <2>. QED
    BY <2>1, <2>2, <2>3 DEF RowsInOrder
<1>5. ASSUME UNCHANGED <<candidatesScored, last, sending>> PROVE RowsInOrder'
  BY <1>5 DEF RowsInOrder
<1>6. ASSUME NEW e \in ToSet(scoreCache), ForgetOldScore(e) PROVE RowsInOrder'
  BY <1>5, <1>6 DEF ForgetOldScore
<1>7. ASSUME ReaderConnects \/ LoseReader \/ UNCHANGED alphaVars PROVE RowsInOrder'
  BY <1>5, <1>7 DEF ReaderConnects, LoseReader, alphaVars
<1>. QED
  BY <1>1, <1>2, <1>3, <1>4, <1>6, <1>7 DEF AlphaNext

LEMMA NewestIsPastStep ==
    ASSUME AlphaTypes, RowsInOrder, NothingSentAhead, NewestIsPast, [AlphaNext]_alphaVars
    PROVE  NewestIsPast'
<1>0. /\ candidatesScored \in Nat /\ last \in Seq(ScoreRow)
      /\ sending \in [Reader -> Seq(ScoreRow)]
      /\ newestHeard \in [ScoreKey -> Nat]
      /\ readers \in 0..MaxReaders /\ reader \in 0..readers /\ MaxReaders \in Nat
  BY AlphaConstants DEF AlphaTypes, AlphaConstants
<1>k. ASSUME NEW k \in ScoreKey
      PROVE  /\ newestHeard[k] \in Nat /\ newestHeard[k] <= candidatesScored
             /\ After(last, newestHeard[k])
             /\ reader # 0 => After(sending[reader], newestHeard[k])
  BY <1>0 DEF NewestIsPast
<1>1. ASSUME NEW m \in ScoredMint, ScoreCandidate(m) PROVE NewestIsPast'
  <2>. DEFINE all == last \o NewRows(m)
  <2>1. /\ candidatesScored' = candidatesScored + 1 /\ last' = Buffered(all)
        /\ UNCHANGED <<sending, reader, newestHeard>>
    BY <1>1 DEF ScoreCandidate, NewRows
  <2>2. /\ all \in Seq(ScoreRow)
        /\ \A x : x \in Nat /\ x <= candidatesScored /\ After(last, x) => After(all, x)
    BY <1>0, <2>1, BufferedRows
  <2>. HIDE DEF all
  <2>3. PICK d \in Nat : \A i \in 1..Len(last') : i + d \in 1..Len(all) /\ last'[i] = all[i + d]
    BY <2>1, <2>2, BufferKeepsTheEnd
  <2>4. Len(all) \in Nat /\ Len(last') \in Nat
    BY <2>1, <2>2, BufferKeepsTheEnd
  <2>5. \A x : After(all, x) => After(last', x)
    BY <2>3, <2>4, Thinned
  <2>6. ASSUME NEW k \in ScoreKey
        PROVE  newestHeard[k] <= candidatesScored' /\ After(last', newestHeard[k])
    <3>1. newestHeard[k] \in Nat /\ newestHeard[k] <= candidatesScored /\ After(last, newestHeard[k])
      BY <1>k
    <3>2. After(last', newestHeard[k])
      BY <2>2, <2>5, <3>1
    <3>. QED
      BY <1>0, <2>1, <3>1, <3>2
  <2>. QED
    BY <1>k, <2>1, <2>6 DEF NewestIsPast
<1>2. ASSUME HearRow PROVE NewestIsPast'
  <2>. DEFINE s == sending[reader]
              row == Head(s)
  <2>1. /\ reader \in Reader /\ s # <<>>
        /\ sending' = [sending EXCEPT ![reader] = Tail(s)]
        /\ newestHeard' = [newestHeard EXCEPT ![row.key] = IF row.ts > @ THEN row.ts ELSE @]
        /\ UNCHANGED <<candidatesScored, last, reader>>
    BY <1>0, <1>2 DEF HearRow, Reader
  <2>2. s \in Seq(ScoreRow) /\ row = s[1] /\ 1 \in 1..Len(s) /\ row \in ScoreRow
    BY <1>0, <2>1, TailOfRows
  <2>3. Ascending(s) /\ Before(s, candidatesScored) /\ \A j \in 1..Len(last) : Before(s, last[j].ts)
    BY <2>1 DEF RowsInOrder
  <2>4. sending'[reader] = Tail(s)
    BY <1>0, <2>1
  <2>5. /\ After(s, s[1].ts) /\ Ascending(Tail(s))
        /\ \A x : After(s, x) => After(Tail(s), x)
    <3>. HIDE DEF s
    <3>. QED
      BY <2>1, <2>2, <2>3, TailThinned
  <2>. HIDE DEF s
  <2>6. row.ts <= candidatesScored /\ After(last, row.ts) /\ After(Tail(s), row.ts)
    <3>1. row.ts <= candidatesScored
      BY <2>2, <2>3 DEF Before
    <3>2. After(last, row.ts)
      BY <2>2, <2>3 DEF Before, After
    <3>. QED
      BY <2>2, <2>5, <3>1, <3>2
  <2>. HIDE DEF row
  <2>7. ASSUME NEW k \in ScoreKey
        PROVE  /\ newestHeard'[k] <= candidatesScored /\ After(last, newestHeard'[k])
               /\ After(Tail(s), newestHeard'[k])
    <3>1. newestHeard'[k] = newestHeard[k] \/ newestHeard'[k] = row.ts
      BY <1>0, <2>1
    <3>2. CASE newestHeard'[k] = newestHeard[k]
      <4>1. reader # 0
        BY <2>1 DEF Reader
      <4>2. After(s, newestHeard[k])
        BY <1>k, <4>1 DEF s
      <4>. QED
        BY <1>k, <2>5, <3>2, <4>2
    <3>3. CASE newestHeard'[k] = row.ts
      BY <2>6, <3>3
    <3>. QED
      BY <3>1, <3>2, <3>3
  <2>. QED
    BY <2>1, <2>4, <2>7 DEF NewestIsPast
<1>3. ASSUME NEW c \in Reader, TakeRow(c) PROVE NewestIsPast'
  <2>. DEFINE row == Head(last)
              s == sending[c]
              t == Append(s, row)
  <2>1. /\ last # <<>> /\ last' = Tail(last)
        /\ sending' = [sending EXCEPT ![c] = t]
        /\ UNCHANGED <<candidatesScored, reader, newestHeard>>
    BY <1>3 DEF TakeRow, Taken
  <2>2. row = last[1] /\ 1 \in 1..Len(last) /\ row \in ScoreRow /\ s \in Seq(ScoreRow)
    BY <1>0, <2>1, TailOfRows
  <2>3. \A x : After(last, x) => After(last', x) /\ x <= row.ts
    BY <1>0, <2>1, <2>2, TailThinned DEF After
  <2>. HIDE DEF row, s
  <2>4. /\ Len(s) \in Nat /\ Len(t) = Len(s) + 1 /\ t[Len(s) + 1] = row
        /\ \A i \in 1..Len(s) : t[i] = s[i]
    BY <2>2, AppendedRow
  <2>. HIDE DEF t
  <2>5. ASSUME NEW x, After(s, x), x <= row.ts PROVE After(t, x)
    <3>1. ASSUME NEW i \in 1..Len(t) PROVE x <= t[i].ts
      <4>1. CASE i = Len(s) + 1
        BY <2>4, <2>5, <4>1
      <4>2. CASE i # Len(s) + 1
        <5>1. i \in 1..Len(s)
          BY <2>4, <4>2
        <5>. QED
          BY <2>4, <2>5, <5>1 DEF After
      <4>. QED
        BY <4>1, <4>2
    <3>. QED
      BY <3>1 DEF After
  <2>6. ASSUME NEW k \in ScoreKey, reader # 0 PROVE After(sending'[reader], newestHeard[k])
    <3>0. reader \in Reader
      BY <1>0, <2>6 DEF Reader
    <3>1. CASE reader = c
      <4>1. sending'[reader] = t
        BY <1>0, <2>1, <3>1
      <4>2. After(s, newestHeard[k]) /\ newestHeard[k] <= row.ts
        BY <1>k, <2>3, <2>6, <3>1 DEF s
      <4>. QED
        BY <2>5, <4>1, <4>2
    <3>2. CASE reader # c
      <4>1. sending'[reader] = sending[reader]
        BY <1>0, <2>1, <3>0, <3>2
      <4>. QED
        BY <1>k, <2>6, <4>1
    <3>. QED
      BY <3>1, <3>2
  <2>. QED
    BY <1>k, <2>1, <2>3, <2>6 DEF NewestIsPast
<1>4. ASSUME NEW c \in Reader, CloseReader(c) PROVE NewestIsPast'
  <2>1. /\ c # reader /\ sending' = [sending EXCEPT ![c] = <<>>]
        /\ UNCHANGED <<candidatesScored, last, reader, newestHeard>>
    BY <1>4 DEF CloseReader
  <2>2. reader # 0 => sending'[reader] = sending[reader]
    BY <1>0, <2>1 DEF Reader
  <2>. QED
    BY <1>k, <2>1, <2>2 DEF NewestIsPast
<1>5. ASSUME NEW e \in ToSet(scoreCache), ForgetOldScore(e) PROVE NewestIsPast'
  BY <1>5 DEF ForgetOldScore, NewestIsPast
<1>6. ASSUME ReaderConnects PROVE NewestIsPast'
  <2>1. /\ reader' = readers + 1 /\ readers < MaxReaders
        /\ UNCHANGED <<candidatesScored, last, sending, newestHeard>>
    BY <1>6 DEF ReaderConnects
  <2>2. reader' \in Reader /\ reader' > readers
    BY <1>0, <2>1 DEF Reader
  <2>3. sending'[reader'] = <<>>
    BY <2>1, <2>2 DEF NothingSentAhead
  <2>4. \A x : After(<<>>, x)
    BY DEF After
  <2>. QED
    BY <1>k, <2>1, <2>3, <2>4 DEF NewestIsPast
<1>7. ASSUME LoseReader PROVE NewestIsPast'
  BY <1>k, <1>7 DEF LoseReader, NewestIsPast
<1>8. ASSUME UNCHANGED alphaVars PROVE NewestIsPast'
  BY <1>8 DEF alphaVars, NewestIsPast
<1>. QED
  BY <1>1, <1>2, <1>3, <1>4, <1>5, <1>6, <1>7, <1>8 DEF AlphaNext

LEMMA NewestScoreStep ==
    ASSUME AlphaTypes, NewestIsPast, OneEntryPerKey, NewestScoreWins, [AlphaNext]_alphaVars
    PROVE  NewestScoreWins'
<1>0. /\ scoreCache \in Seq(ScoreRow) /\ newestHeard \in [ScoreKey -> Nat]
      /\ Unique(scoreCache) /\ DOMAIN scoreCache = 1..Len(scoreCache)
  BY DEF AlphaTypes, OneEntryPerKey, Unique
<1>c. ASSUME NEW t, t \in Seq(ScoreRow),
             \A i \in 1..Len(t) : t[i].ts = newestHeard'[t[i].key], scoreCache' = t
      PROVE  NewestScoreWins'
  <2>1. DOMAIN t = 1..Len(t)
    BY <1>c
  <2>. QED
    BY <1>c, <2>1 DEF NewestScoreWins
<1>1. ASSUME HearRow PROVE NewestScoreWins'
  <2>. DEFINE s == sending[reader]
              row == Head(s)
              t == WithoutKey(scoreCache, row.key)
              entries == Append(t, row)
  <2>1. /\ reader # 0 /\ reader \in Reader /\ s # <<>>
        /\ newestHeard' = [newestHeard EXCEPT ![row.key] = IF row.ts > @ THEN row.ts ELSE @]
    BY <1>1, AlphaConstants DEF HearRow, AlphaTypes, Reader, AlphaConstants
  <2>2. scoreCache' = IF Len(entries) > MaxEntries THEN Tail(entries) ELSE entries
    BY <1>1 DEF HearRow, Remembered, WithoutKey
  <2>3. row \in ScoreRow /\ row = s[1] /\ 1 \in 1..Len(s)
    BY <2>1, TailOfRows DEF AlphaTypes
  <2>4. \A k \in ScoreKey : newestHeard[k] <= row.ts
    BY <2>1, <2>3 DEF NewestIsPast, After
  <2>. HIDE DEF s, row
  <2>5. row.key \in ScoreKey /\ row.ts \in Nat
    BY <2>3 DEF ScoreRow
  <2>6. newestHeard'[row.key] = row.ts
    <3>1. newestHeard[row.key] \in Nat /\ newestHeard[row.key] <= row.ts
      BY <1>0, <2>4, <2>5
    <3>. QED
      BY <1>0, <2>1, <2>5, <3>1
  <2>7. /\ t \in Seq(ScoreRow)
        /\ \A i \in 1..Len(t) : t[i].key # row.key /\ \E m \in 1..Len(scoreCache) : t[i] = scoreCache[m]
    BY <1>0, KeyTakenOut
  <2>. HIDE DEF t
  <2>8. ASSUME NEW i \in 1..Len(t) PROVE t[i].ts = newestHeard'[t[i].key]
    <3>1. t[i].key # row.key /\ t[i].key \in ScoreKey
      BY <2>7, RowTime
    <3>2. PICK m \in 1..Len(scoreCache) : t[i] = scoreCache[m]
      BY <2>7
    <3>3. t[i].ts = newestHeard[t[i].key]
      BY <1>0, <3>2 DEF NewestScoreWins
    <3>4. newestHeard'[t[i].key] = newestHeard[t[i].key]
      BY <1>0, <2>1, <3>1
    <3>. QED
      BY <3>3, <3>4
  <2>9. /\ entries \in Seq(ScoreRow) /\ Len(t) \in Nat /\ Len(entries) = Len(t) + 1
        /\ entries[Len(t) + 1] = row /\ \A i \in 1..Len(t) : entries[i] = t[i]
    BY <2>3, <2>7, AppendedRow
  <2>. HIDE DEF entries
  <2>10. ASSUME NEW i \in 1..Len(entries) PROVE entries[i].ts = newestHeard'[entries[i].key]
    <3>1. CASE i = Len(t) + 1
      BY <2>6, <2>9, <3>1
    <3>2. CASE i # Len(t) + 1
      <4>1. i \in 1..Len(t)
        BY <2>9, <3>2
      <4>. QED
        BY <2>8, <2>9, <4>1
    <3>. QED
      BY <3>1, <3>2
  <2>11. CASE Len(entries) > MaxEntries
    <3>1. entries # <<>> /\ scoreCache' = Tail(entries)
      BY <2>2, <2>9, <2>11
    <3>2. /\ Tail(entries) \in Seq(ScoreRow)
          /\ \A i \in 1..Len(Tail(entries)) :
                i + 1 \in 1..Len(entries) /\ Tail(entries)[i] = entries[i + 1]
      BY <2>9, <3>1, TailOfRows
    <3>3. \A i \in 1..Len(Tail(entries)) :
             Tail(entries)[i].ts = newestHeard'[Tail(entries)[i].key]
      BY <2>10, <3>2
    <3>. QED
      BY <1>c, <3>1, <3>2, <3>3
  <2>12. CASE ~ (Len(entries) > MaxEntries)
    BY <1>c, <2>2, <2>9, <2>10, <2>12
  <2>. QED
    BY <2>11, <2>12
<1>2. ASSUME NEW e \in ToSet(scoreCache), ForgetOldScore(e) PROVE NewestScoreWins'
  <2>1. scoreCache' = RemoveFirst(scoreCache, e) /\ newestHeard' = newestHeard
    BY <1>2 DEF ForgetOldScore
  <2>2. /\ scoreCache' \in Seq(ScoreRow)
        /\ \A i \in 1..Len(scoreCache') : \E m \in 1..Len(scoreCache) : scoreCache'[i] = scoreCache[m]
    BY <1>0, <2>1, EntryForgotten
  <2>3. \A i \in 1..Len(scoreCache') : scoreCache'[i].ts = newestHeard'[scoreCache'[i].key]
    BY <1>0, <2>1, <2>2 DEF NewestScoreWins
  <2>. QED
    BY <1>c, <2>2, <2>3
<1>3. ASSUME UNCHANGED <<scoreCache, newestHeard>> PROVE NewestScoreWins'
  BY <1>3 DEF NewestScoreWins
<1>4. ASSUME NEW m \in ScoredMint, ScoreCandidate(m) PROVE NewestScoreWins'
  BY <1>3, <1>4 DEF ScoreCandidate
<1>5. ASSUME NEW c \in Reader, TakeRow(c) \/ CloseReader(c) PROVE NewestScoreWins'
  BY <1>3, <1>5 DEF TakeRow, CloseReader
<1>6. ASSUME ReaderConnects \/ LoseReader \/ UNCHANGED alphaVars PROVE NewestScoreWins'
  BY <1>3, <1>6 DEF ReaderConnects, LoseReader, alphaVars
<1>. QED
  BY <1>1, <1>2, <1>4, <1>5, <1>6 DEF AlphaNext

LEMMA AlphaInvInductive == AlphaSpec => []AlphaInv
<1>1. ASSUME AlphaInit PROVE AlphaInv
  <2>1. AlphaTypes
    <3>1. <<>> \in Seq(ScoreRow) /\ 0 \in 0..MaxReaders
      BY AlphaConstants DEF AlphaConstants
    <3>2. sending \in [Reader -> Seq(ScoreRow)] /\ newestHeard \in [ScoreKey -> Nat]
      BY <1>1, <3>1 DEF AlphaInit
    <3>3. /\ candidatesScored \in Nat /\ last \in Seq(ScoreRow) /\ scoreCache \in Seq(ScoreRow)
          /\ readers \in 0..MaxReaders /\ reader \in 0..readers
      BY <1>1, <3>1 DEF AlphaInit
    <3>. QED
      BY <3>2, <3>3 DEF AlphaTypes
  <2>2. RowsInOrder
    BY <1>1 DEF AlphaInit, RowsInOrder, Ascending, Before
  <2>3. NothingSentAhead /\ OneEntryPerKey /\ NewestScoreWins
    BY <1>1 DEF AlphaInit, NothingSentAhead, OneEntryPerKey, NewestScoreWins
  <2>4. NewestIsPast
    BY <1>1 DEF AlphaInit, NewestIsPast, After
  <2>. QED
    BY <2>1, <2>2, <2>3, <2>4 DEF AlphaInv
<1>2. AlphaInv /\ [AlphaNext]_alphaVars => AlphaInv'
  BY AlphaTypesStep, RowsInOrderStep, SentAheadStep, NewestIsPastStep, NewestScoreStep
     DEF AlphaInv
<1>. QED
  BY <1>1, <1>2, PTL DEF AlphaSpec

\* The score the policy engine has of a mint and horizon is that of the newest row
\* it heard of them, whatever connections broke, rows were cut off or connections
\* that are dead took rows: no row is heard after a newer one, although entries are
\* overwritten without a look at their time.
THEOREM NewestScoreIsKept == AlphaSpec => []NewestScoreWins
<1>1. AlphaInv => NewestScoreWins
  BY DEF AlphaInv
<1>. QED
  BY <1>1, AlphaInvInductive, PTL

-----------------------------------------------------------------------------
(* LunarCrush, polled *)

OverlayInv ==
    /\ pollAt \in {"idle", "topics", "influencers"}
    /\ accepted \in {"bearer", "x-api-key", "lc-api-key"}
    /\ headerScheme \in {"bearer", "x-api-key", "lc-api-key"}
    /\ accepted = "bearer" => headerScheme = accepted
    /\ accepted = "x-api-key" => headerScheme \in {"bearer", accepted}
    /\ accepted # "lc-api-key" /\ retried => headerScheme = accepted
    /\ {hotTopics, hotHandles, lastFullPoll, lunarPolls} \subseteq Nat
    /\ hotTopics <= lunarPolls
    /\ pollAt = "influencers" => hotTopics = lunarPolls
    /\ OverlaySound

LEMMA BiasKeeps ==
    ASSUME OverlayAssumption, NEW score \in Nat, NEW topic \in BOOLEAN, NEW influencer \in BOOLEAN
    PROVE  /\ score < OpenThreshold => Biased(score, topic, influencer) < OpenThreshold
           /\ Biased(score, topic, influencer) >= score
<1>. DEFINE given == (IF topic THEN TopicBoost ELSE 0)
                        + (IF influencer THEN InfluencerBoost ELSE 0)
            add == AtMost(given, MaxBoost)
<1>1. {OpenThreshold, TopicBoost, InfluencerBoost, MaxBoost} \subseteq Nat
  BY DEF OverlayAssumption
<1>2. given \in Nat
  BY <1>1
<1>3. add \in Nat
  <2>. HIDE DEF given
  <2>. QED
    BY <1>1, <1>2 DEF AtMost
<1>4. Biased(score, topic, influencer) =
        IF score < OpenThreshold /\ score + add >= OpenThreshold
        THEN AtLeast(score, AtMost(OpenThreshold - 1, score + MaxBoost))
        ELSE score + add
  BY DEF Biased
<1>. HIDE DEF add
<1>. QED
  BY <1>1, <1>3, <1>4 DEF AtLeast, AtMost

LEMMA OverlayInvariant == ASSUME OverlayAssumption PROVE OverlaySpec => []OverlayInv
<1>. USE DEF OverlaySound, SchemeIsFound, ListsMoveTogether, BiasOpensNothing
<1>1. OverlayInit => OverlayInv
  <2>. SUFFICES ASSUME OverlayInit PROVE OverlayInv
    OBVIOUS
  <2>1. bias.base = 0 /\ bias.boosted = 0 /\ OpenThreshold \in Nat
    BY DEF OverlayInit, OverlayAssumption
  <2>2. healthMsg # "unauthorized"
    BY DEF OverlayInit
  <2>3. hotTopics = 0 /\ hotHandles = 0 /\ lastFullPoll = 0 /\ lunarPolls = 0
    BY DEF OverlayInit
  <2>4. ListsMoveTogether
    BY <2>3
  <2>5. BiasOpensNothing
    BY <2>1
  <2>6. /\ pollAt = "idle" /\ headerScheme = "bearer" /\ ~retried
        /\ accepted \in {"bearer", "x-api-key", "lc-api-key"}
    BY DEF OverlayInit
  <2>. QED
    BY <2>2, <2>3, <2>4, <2>5, <2>6 DEF OverlayInv
<1>2. OverlayInv /\ [OverlayNext]_overlayVars => OverlayInv'
  <2>. SUFFICES ASSUME OverlayInv, [OverlayNext]_overlayVars PROVE OverlayInv'
    OBVIOUS
  <2>1. CASE BeginLunarPoll
    BY <2>1 DEF BeginLunarPoll, OverlayInv
  <2>2. CASE TopicsArrive
    BY <2>2 DEF TopicsArrive, OverlayInv
  <2>3. CASE InfluencersArrive
    BY <2>3 DEF InfluencersArrive, OverlayInv
  <2>4. CASE Refused
    <3>1. CASE retried
      BY <2>4, <3>1 DEF Refused, OverlayInv
    <3>2. CASE ~retried
      BY <2>4, <3>2 DEF Refused, Rotated, OverlayInv
    <3>. QED
      BY <3>1, <3>2
  <2>5. CASE LunarPollFails
    BY <2>5 DEF LunarPollFails, OverlayInv
  <2>6. ASSUME NEW score \in 0..OpenThreshold + 1, ScorePost(score) PROVE OverlayInv'
    <3>1. PICK topic \in BOOLEAN, influencer \in BOOLEAN :
             bias' = [base |-> score, boosted |-> Biased(score, topic, influencer)]
      <4>1. (hotTopics > 0) \in BOOLEAN /\ (hotHandles > 0) \in BOOLEAN
        OBVIOUS
      <4>. QED
        BY <2>6, <4>1 DEF ScorePost
    <3>2. score \in Nat
      BY <2>6 DEF OverlayAssumption
    <3>3. BiasOpensNothing'
      BY <3>1, <3>2, BiasKeeps
    <3>. QED
      BY <2>6, <3>3 DEF ScorePost, OverlayInv
  <2>7. CASE UNCHANGED overlayVars
    BY <2>7 DEF overlayVars, OverlayInv
  <2>. QED
    BY <2>1, <2>2, <2>3, <2>4, <2>5, <2>6, <2>7 DEF OverlayNext
<1>. QED
  BY <1>1, <1>2, PTL DEF OverlaySpec

-----------------------------------------------------------------------------
(* LunarCrush, heard as a stream *)

LunarRow == [strength : Nat, updatedAt : Nat]
LunarTypes ==
    /\ lunarSource \in [LunarSources -> {"new", "open", "gone", "closed"}]
    /\ {handshake, dataStream} \subseteq LunarSources \union {NoSource}
    /\ reconnectTimer \in BOOLEAN /\ lunarStopped \in BOOLEAN
    /\ topics \in [Keyword -> LunarRow] /\ symbols \in [Keyword -> LunarRow]
    /\ lunarTime \in Nat

LunarInv == LunarTypes /\ OneConnection

LEMMA ConnectsType ==
    ASSUME LunarTypes, NEW s \in LunarSources, NEW old, Connects(s, old)
    PROVE  lunarSource' \in [LunarSources -> {"new", "open", "gone", "closed"}]
  BY DEF LunarTypes, Connects

LEMMA HandshakeOpens ==
    ASSUME LunarAssumption, LunarInv, NEW s \in LunarSources, OpenHandshake(s),
           UNCHANGED <<lunarStopped, rowVars>>
    PROVE  LunarInv'
<1>1. LunarTypes'
  BY ConnectsType DEF LunarInv, LunarTypes, OpenHandshake, rowVars
<1>2. OneConnection'
  <2>1. NoSource \notin LunarSources
    BY DEF LunarAssumption, LunarSources
  <2>2. /\ ~lunarStopped /\ lunarStopped' = lunarStopped
        /\ handshake' = s /\ dataStream' = NoSource /\ reconnectTimer' = FALSE
        /\ lunarSource'[s] = "open"
        /\ \A r \in LunarSources \ {s} :
              lunarSource'[r] = IF r \in {handshake, dataStream} THEN "closed" ELSE lunarSource[r]
    BY DEF OpenHandshake, Connects
  <2>. QED
    BY <2>1, <2>2 DEF LunarInv, OneConnection
<1>. QED
  BY <1>1, <1>2 DEF LunarInv

LEMMA EndpointOpens ==
    ASSUME LunarAssumption, LunarInv, NEW s \in LunarSources, Endpoint(s)
    PROVE  LunarInv'
<1>1. LunarTypes'
  BY ConnectsType DEF LunarInv, LunarTypes, Endpoint, rowVars
<1>2. OneConnection'
  <2>1. NoSource \notin LunarSources
    BY DEF LunarAssumption, LunarSources
  <2>2. /\ ~lunarStopped /\ lunarStopped' = lunarStopped
        /\ handshake' = handshake /\ dataStream' = s /\ reconnectTimer' = reconnectTimer
        /\ handshake \in LunarSources /\ lunarSource[handshake] = "open"
        /\ lunarSource[s] = "new" /\ lunarSource'[s] = "open"
        /\ \A r \in LunarSources \ {s} :
              lunarSource'[r] = IF r \in {dataStream} THEN "closed" ELSE lunarSource[r]
    BY DEF Endpoint, Connects, LunarInv, LunarTypes
  <2>. QED
    BY <2>1, <2>2 DEF LunarInv, OneConnection
<1>. QED
  BY <1>1, <1>2 DEF LunarInv

LEMMA SourceFails ==
    ASSUME LunarAssumption, LunarInv, NEW s \in LunarSources, LunarError(s)
    PROVE  LunarInv'
<1>1. LunarTypes'
  BY DEF LunarInv, LunarTypes, LunarError, rowVars
<1>2. OneConnection'
  <2>1. ~lunarStopped /\ lunarStopped' = lunarStopped /\ reconnectTimer' = TRUE
    BY DEF LunarInv, OneConnection, LunarError, LunarTypes
  <2>2. \A r \in LunarSources : lunarSource'[r] = "open" => lunarSource[r] = "open"
    BY DEF LunarError, LunarInv, LunarTypes
  <2>. QED
    BY <2>1, <2>2 DEF LunarInv, OneConnection, LunarError
<1>. QED
  BY <1>1, <1>2 DEF LunarInv

LEMMA LunarStops ==
    ASSUME LunarInv, StopLunar
    PROVE  LunarInv'
  BY DEF LunarInv, LunarTypes, OneConnection, StopLunar, rowVars

LEMMA PayloadKeeps ==
    ASSUME LunarAssumption, LunarInv, NEW s \in LunarSources, NEW strength \in Strength,
           NEW ts \in SUBSET Keyword, NEW ss \in SUBSET Keyword, Payload(s, strength, ts, ss)
    PROVE  LunarInv'
<1>. DEFINE row == [strength |-> strength, updatedAt |-> lunarTime]
<1>1. row \in LunarRow
  BY DEF LunarRow, LunarInv, LunarTypes, LunarAssumption
<1>. HIDE DEF row
<1>2. /\ topics' = [k \in Keyword |-> IF k \in ts THEN row ELSE topics[k]]
      /\ symbols' = [k \in Keyword |-> IF k \in ss THEN row ELSE symbols[k]]
      /\ UNCHANGED <<lunarSource, handshake, dataStream, reconnectTimer, lunarStopped, lunarTime>>
  BY DEF Payload, row
<1>3. LunarTypes'
  BY <1>1, <1>2 DEF LunarInv, LunarTypes
<1>4. OneConnection'
  BY <1>2 DEF LunarInv, OneConnection
<1>. QED
  BY <1>3, <1>4 DEF LunarInv

LEMMA LunarInvariant == ASSUME LunarAssumption PROVE LunarSpec => []LunarInv
<1>1. LunarInit => LunarInv
  <2>. SUFFICES ASSUME LunarInit PROVE LunarInv
    OBVIOUS
  <2>1. NoRow \in LunarRow
    BY DEF NoRow, LunarRow
  <2>2. LunarTypes
    BY <2>1 DEF LunarInit, LunarTypes
  <2>3. OneConnection
    BY DEF LunarInit, OneConnection
  <2>. QED
    BY <2>2, <2>3 DEF LunarInv
<1>2. LunarInv /\ [LunarNext]_lunarVars => LunarInv'
  <2>. SUFFICES ASSUME LunarInv, [LunarNext]_lunarVars PROVE LunarInv'
    OBVIOUS
  <2>1. ASSUME NEW s \in LunarSources,
               StartLunar(s) \/ ReconnectFires(s)
        PROVE  LunarInv'
    BY <2>1, HandshakeOpens DEF StartLunar, ReconnectFires
  <2>2. ASSUME NEW s \in LunarSources,
               \E strength \in Strength, ts, ss \in SUBSET Keyword : Payload(s, strength, ts, ss)
        PROVE  LunarInv'
    BY <2>2, PayloadKeeps
  <2>3. CASE LunarClock
    BY <2>3 DEF LunarClock, LunarInv, LunarTypes, OneConnection
  <2>4. CASE UNCHANGED lunarVars
    BY <2>4 DEF lunarVars, LunarInv, LunarTypes, OneConnection
  <2>. QED
    BY <2>1, <2>2, <2>3, <2>4, EndpointOpens, SourceFails, LunarStops DEF LunarNext
<1>. QED
  BY <1>1, <1>2, PTL DEF LunarSpec

LEMMA LargestOf ==
    ASSUME NEW S, IsFiniteSet(S), S \subseteq Int, S # {}
    PROVE  Max(S) \in S /\ \A x \in S : x <= Max(S)
<1>. DEFINE Without == {T \in SUBSET S : T # {} /\ \A m \in T : \E x \in T : ~ (x <= m)}
            Sizes == {Cardinality(T) : T \in Without}
<1>1. \A T \in SUBSET S : IsFiniteSet(T) /\ Cardinality(T) \in Nat
  BY FS_Subset, FS_CardinalityType
<1>2. Without = {}
  <2>1. SUFFICES ASSUME Without # {} PROVE FALSE
    OBVIOUS
  <2>2. Sizes # {} /\ Sizes \subseteq Nat
    BY <1>1, <2>1
  <2>3. PICK n \in Sizes : \A k \in Sizes : ~ (<<k, n>> \in OpToRel(<, Nat))
    <3>. HIDE DEF Sizes
    <3>. QED
      BY <2>2, NatLessThanWellFounded, WFMin
  <2>4. \A k \in Sizes : ~ (k < n)
    <3>. HIDE DEF Sizes
    <3>. QED
      BY <2>2, <2>3 DEF OpToRel
  <2>5. PICK T \in Without : Cardinality(T) = n
    OBVIOUS
  <2>6. PICK x \in T : TRUE
    OBVIOUS
  <2>7. Cardinality(T \ {x}) = n - 1 /\ n \in Nat
    <3>1. IsFiniteSet(T)
      BY <1>1
    <3>. QED
      BY <2>2, <2>5, <2>6, <3>1, FS_RemoveElement
  <2>8. T \ {x} \notin Without
    <3>1. T \ {x} \in Without => n - 1 \in Sizes
      BY <2>7
    <3>. QED
      BY <2>4, <2>7, <3>1
  <2>9. T \subseteq Int /\ x \in Int
    OBVIOUS
  <2>10. CASE T \ {x} = {}
    <3>1. \A y \in T : y = x
      BY <2>10
    <3>. QED
      BY <2>6, <2>9, <3>1
  <2>11. CASE T \ {x} # {}
    <3>1. PICK m \in T \ {x} : \A y \in T \ {x} : y <= m
      BY <2>8, <2>11
    <3>2. m \in Int
      BY <2>9
    <3>3. CASE x <= m
      BY <3>1, <3>3
    <3>4. CASE ~ (x <= m)
      <4>1. \A y \in T \ {x} : y <= x
        BY <2>9, <3>1, <3>2, <3>4
      <4>. QED
        BY <2>6, <2>9, <4>1
    <3>. QED
      BY <3>3, <3>4
  <2>. QED
    BY <2>10, <2>11
<1>3. \E m \in S : \A x \in S : m >= x
  <2>1. S \notin Without
    BY <1>2
  <2>2. PICK m \in S : \A x \in S : x <= m
    BY <2>1
  <2>3. \A x \in S : m >= x
    BY <2>2
  <2>. QED
    BY <2>3
<1>4. Max(S) \in S /\ \A x \in S : Max(S) >= x
  BY <1>3 DEF Max
<1>5. \A x \in S : x \in Int /\ Max(S) \in Int
  BY <1>4
<1>. QED
  BY <1>4, <1>5

LEMMA ImageIsFinite ==
    ASSUME NEW S, IsFiniteSet(S), NEW f, f \in [S -> {f[x] : x \in S}]
    PROVE  IsFiniteSet({f[x] : x \in S})
<1>. DEFINE T == {f[x] : x \in S}
<1>1. f \in Surjection(S, T)
  BY DEF Surjection
<1>. HIDE DEF T
<1>2. IsFiniteSet(T)
  BY <1>1, FS_Surjection
<1>. QED
  BY <1>2 DEF T

LEMMA BoostFollows ==
    ASSUME LunarAssumption, LunarTypes
    PROVE  BoostIsRecent
<1>. SUFFICES ASSUME NEW ks \in SUBSET Keyword
              PROVE  /\ Boost(ks) <= MaxLunarBoost * Retention
                     /\ Boost(ks) > 0 =>
                           \E k \in ks : Weight(topics[k]) > 0 \/ Weight(symbols[k]) > 0
  BY DEF BoostIsRecent
<1>. DEFINE found == ({topics[k] : k \in ks} \union {symbols[k] : k \in ks}) \ {NoRow}
            weights == {0} \union {Weight(row) : row \in found}
            strengths == {row.strength : row \in found}
            limit == MaxLunarBoost * Retention
<1>1. Retention \in Nat /\ MaxLunarBoost \in Nat /\ lunarTime \in Nat /\ IsFiniteSet(ks)
  BY FS_Subset DEF LunarAssumption, LunarTypes
<1>2. \A row \in found : Weight(row) \in Int /\ row.strength \in Nat
  BY <1>1 DEF LunarTypes, LunarRow, Weight
<1>3. IsFiniteSet(found)
  <2>1. IsFiniteSet({topics[k] : k \in ks}) /\ IsFiniteSet({symbols[k] : k \in ks})
    <3>. DEFINE t == [k \in ks |-> topics[k]]
                u == [k \in ks |-> symbols[k]]
    <3>1. t \in [ks -> {t[k] : k \in ks}] /\ u \in [ks -> {u[k] : k \in ks}]
      OBVIOUS
    <3>2. /\ {t[k] : k \in ks} = {topics[k] : k \in ks}
          /\ {u[k] : k \in ks} = {symbols[k] : k \in ks}
      OBVIOUS
    <3>. HIDE DEF t, u
    <3>3. IsFiniteSet({t[k] : k \in ks}) /\ IsFiniteSet({u[k] : k \in ks})
      BY <1>1, <3>1, ImageIsFinite
    <3>. QED
      BY <3>2, <3>3
  <2>2. IsFiniteSet({topics[k] : k \in ks} \union {symbols[k] : k \in ks})
    BY <2>1, FS_Union
  <2>. QED
    BY <2>2, FS_Subset
<1>4. /\ IsFiniteSet(weights) /\ weights \subseteq Int /\ weights # {}
      /\ IsFiniteSet(strengths) /\ strengths \subseteq Nat
  <2>. HIDE DEF found
  <2>1. IsFiniteSet({Weight(row) : row \in found}) /\ IsFiniteSet(strengths)
    <3>. DEFINE w == [row \in found |-> Weight(row)]
                g == [row \in found |-> row.strength]
    <3>1. w \in [found -> {w[r] : r \in found}] /\ g \in [found -> {g[r] : r \in found}]
      OBVIOUS
    <3>2. /\ {w[r] : r \in found} = {Weight(row) : row \in found}
          /\ {g[r] : r \in found} = strengths
      OBVIOUS
    <3>. HIDE DEF w, g, strengths
    <3>3. IsFiniteSet({w[r] : r \in found}) /\ IsFiniteSet({g[r] : r \in found})
      BY <1>3, <3>1, ImageIsFinite
    <3>. QED
      BY <3>2, <3>3
  <2>2. IsFiniteSet(weights)
    BY <2>1, FS_Singleton, FS_Union
  <2>. QED
    BY <1>2, <2>1, <2>2
<1>5. Max(weights) \in weights /\ Max(weights) \in Int /\ Max(weights) >= 0
  <2>1. 0 \in weights
    OBVIOUS
  <2>. HIDE DEF weights
  <2>. QED
    BY <1>4, <2>1, LargestOf
<1>6. Boost(ks) = IF found = {} THEN 0 ELSE Min({limit, Max(weights) * Max(strengths)})
  BY DEF Boost
<1>7. limit \in Nat
  BY <1>1
<1>8. CASE found = {}
  <2>. HIDE DEF found, limit
  <2>. QED
    BY <1>6, <1>7, <1>8 DEF limit
<1>9. CASE found # {}
  <2>1. Max(strengths) \in Nat
    <3>1. strengths # {}
      BY <1>9
    <3>2. IsFiniteSet(strengths) /\ strengths \subseteq Int /\ strengths \subseteq Nat
      BY <1>4
    <3>. HIDE DEF strengths
    <3>3. Max(strengths) \in strengths
      BY <3>1, <3>2, LargestOf
    <3>. QED
      BY <3>2, <3>3
  <2>. DEFINE product == Max(weights) * Max(strengths)
  <2>2. product \in Nat /\ (Max(weights) = 0 => product = 0)
    <3>. HIDE DEF weights, strengths
    <3>. QED
      BY <1>5, <2>1
  <2>3. Boost(ks) = Min({limit, product})
    BY <1>6, <1>9
  <2>. HIDE DEF product, limit
  <2>4. Boost(ks) \in {limit, product} /\ Boost(ks) <= limit /\ Boost(ks) <= product
    <3>1. \E m \in {limit, product} : \A x \in {limit, product} : m <= x
      BY <1>7, <2>2
    <3>. QED
      BY <2>3, <3>1 DEF Min
  <2>5. ASSUME Boost(ks) > 0
        PROVE  \E k \in ks : Weight(topics[k]) > 0 \/ Weight(symbols[k]) > 0
    <3>1. Max(weights) > 0
      <4>. HIDE DEF weights
      <4>. QED
        BY <1>5, <1>7, <2>2, <2>4, <2>5
    <3>2. \A m \in weights : m = 0 \/ \E row \in found : Weight(row) = m
      OBVIOUS
    <3>3. PICK row \in found : Weight(row) = Max(weights)
      <4>. HIDE DEF weights, found
      <4>. QED
        BY <1>5, <3>1, <3>2
    <3>. QED
      BY <3>1, <3>3
  <2>. QED
    BY <2>4, <2>5 DEF limit
<1>. QED
  BY <1>8, <1>9

\* LunarIsSound: of the sources that LunarCrushStream opens none is left behind or not
\* replaced, what it boosts is recent, and the overlay's bias opens no window, for any
\* keywords, numbers and limits.
THEOREM LunarFollowsRows == LunarSpec /\ OverlaySpec => []LunarIsSound
<1>1. LunarInv /\ OverlayInv => LunarIsSound
  BY LunarAssumption, BoostFollows
     DEF LunarInv, OverlayInv, LunarStreamSound, LunarIsSound
<1>. QED
  BY <1>1, LunarAssumption, OverlayAssumption, LunarInvariant, OverlayInvariant, PTL
=============================================================================
