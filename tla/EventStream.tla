---------------------------- MODULE EventStream ----------------------------
(***************************************************************************)
(* One subscription of one service to another: the client of sseClient.ts, *)
(* which reconnects for as long as it is not disposed, and the server's    *)
(* routes, each with a queue of its own that its bus listener fills.  A    *)
(* connection that breaks is noticed by the two ends at different times.   *)
(* Events are numbered as the server emits them; the servers give them no  *)
(* id, so nothing is sent again.  Backoff delays are left out: a timer     *)
(* may fire at any time.                                                   *)
(***************************************************************************)
EXTENDS Naturals, Sequences

CONSTANTS
    MaxConnections, \* bound: sources the client opens
    MaxEvents,      \* bound: events emitted
    MaxThrows       \* bound: calls of the factory that throw

ASSUME StreamConstants ==
    MaxConnections \in Nat \ {0} /\ MaxEvents \in Nat /\ MaxThrows \in Nat

VARIABLES
    disposed,   \* the client's flag
    looking,    \* calls of connect that await the stored event id
    timer,      \* reconnectTimer is set
    sources,    \* sources with their handlers attached
    current,    \* currentSource, 0 for null; sources are numbered as they open
    route,      \* the server's route of each connection
    base,       \* events emitted before the route was there
    queue,      \* the route's sseQueue
    wire,       \* written by the server, not yet read by the client
    emitted,    \* events so far
    heard,      \* history: events given to onEvent
    throws

clientVars == <<disposed, looking, timer, sources, current, throws>>
serverVars == <<route, base, queue, wire, emitted>>
streamVars == <<clientVars, serverVars, heard>>

Connection == 1..MaxConnections

\* asked: the request is under way; open; half: the client is gone and the
\* server has not noticed; over: neither end has it.
RouteState == {"none", "asked", "open", "half", "over"}

StreamInit ==
    /\ disposed = FALSE /\ timer = FALSE /\ sources = {} /\ current = 0
    /\ looking = 1
    /\ route = [c \in Connection |-> "none"]
    /\ base = [c \in Connection |-> 0]
    /\ queue = [c \in Connection |-> <<>>]
    /\ wire = [c \in Connection |-> <<>>]
    /\ emitted = 0 /\ heard = <<>> /\ throws = 0

-----------------------------------------------------------------------------
(* The client *)

\* scheduleReconnect
Reschedule == timer' = (timer \/ ~disposed)

\* What is left of a connection one end gives up.
Given(s) == IF s = "open" THEN "half" ELSE IF s = "half" THEN "half" ELSE "over"

\* connect goes on after the await, without looking at disposed again.
OpenSource ==
    /\ looking > 0 /\ current < MaxConnections
    /\ looking' = looking - 1
    /\ current' = current + 1
    /\ sources' = sources \union {current'}
    /\ route' = [route EXCEPT ![current'] = "asked"]
    /\ UNCHANGED <<disposed, timer, throws, base, queue, wire, emitted, heard>>

\* Bug: a factory that throws ends the subscription.
FactoryThrows_GivesUp ==
    /\ looking > 0 /\ throws < MaxThrows
    /\ looking' = looking - 1
    /\ throws' = throws + 1
    /\ UNCHANGED <<disposed, timer, sources, current, serverVars, heard>>

FactoryThrows ==
    /\ looking > 0 /\ throws < MaxThrows
    /\ looking' = looking - 1
    /\ throws' = throws + 1
    /\ Reschedule
    /\ UNCHANGED <<disposed, sources, current, serverVars, heard>>

TimerFires ==
    /\ timer
    /\ timer' = FALSE
    /\ looking' = looking + 1
    /\ UNCHANGED <<disposed, sources, current, throws, serverVars, heard>>

\* Bug: the broken source is neither detached nor closed.
SourceError_LeavesSource(c) ==
    /\ c \in sources /\ route[c] \in {"half", "over"}
    /\ Reschedule
    /\ UNCHANGED <<disposed, looking, current, sources, throws, serverVars, heard>>

\* onerror: whatever was under way on the connection is lost.
SourceError(c) ==
    /\ c \in sources /\ route[c] \in {"half", "over"}
    /\ sources' = sources \ {c}
    /\ wire' = [wire EXCEPT ![c] = <<>>]
    /\ Reschedule
    /\ UNCHANGED <<disposed, looking, current, throws, route, base, queue,
                   emitted, heard>>

\* onmessage
Deliver(c) ==
    /\ c \in sources /\ route[c] = "open" /\ wire[c] # <<>>
    /\ heard' = Append(heard, Head(wire[c]))
    /\ wire' = [wire EXCEPT ![c] = Tail(@)]
    /\ UNCHANGED <<clientVars, route, base, queue, emitted>>

Dispose ==
    /\ ~disposed
    /\ disposed' = TRUE /\ timer' = FALSE
    /\ sources' = sources \ {current}
    /\ route' = IF current = 0 THEN route
                ELSE [route EXCEPT ![current] = Given(@)]
    /\ UNCHANGED <<looking, current, throws, base, queue, wire, emitted, heard>>

-----------------------------------------------------------------------------
(* The server and the network *)

\* The route: a queue, a listener on the bus, and reply.sse.
Accept(c) ==
    /\ route[c] = "asked"
    /\ route' = [route EXCEPT ![c] = "open"]
    /\ base' = [base EXCEPT ![c] = emitted]
    /\ UNCHANGED <<clientVars, queue, wire, emitted, heard>>

Listening(c) == route[c] \in {"open", "half"}

\* sseQueue.push, by the listener of each route there is.
PushAll(e) ==
    queue' = [c \in Connection |->
                IF Listening(c) THEN Append(queue[c], e) ELSE queue[c]]

Emit ==
    /\ emitted < MaxEvents
    /\ emitted' = emitted + 1
    /\ PushAll(emitted')
    /\ UNCHANGED <<clientVars, route, base, wire, heard>>

\* The iterator yields the next message; on a dead connection it goes nowhere.
Write(c) ==
    /\ Listening(c) /\ queue[c] # <<>>
    /\ queue' = [queue EXCEPT ![c] = Tail(@)]
    /\ wire' = IF route[c] = "half" THEN wire
               ELSE [wire EXCEPT ![c] = Append(@, Head(queue[c]))]
    /\ UNCHANGED <<clientVars, route, base, emitted, heard>>

Break(c) ==
    /\ route[c] \in {"asked", "open"}
    /\ route' = [route EXCEPT ![c] = Given(@)]
    /\ UNCHANGED <<clientVars, base, queue, wire, emitted, heard>>

\* 'close' or 'error' of the reply: finalize closes the queue and the listener.
Finalize(c) ==
    /\ route[c] = "half"
    /\ route' = [route EXCEPT ![c] = "over"]
    /\ queue' = [queue EXCEPT ![c] = <<>>]
    /\ UNCHANGED <<clientVars, base, wire, emitted, heard>>

StreamNext ==
    \/ OpenSource \/ FactoryThrows \/ TimerFires \/ Dispose \/ Emit
    \/ \E c \in Connection :
        SourceError(c) \/ Deliver(c) \/ Accept(c) \/ Write(c) \/ Break(c)
          \/ Finalize(c)

\* Promises settle, timers fire, a request is answered, a broken connection
\* is noticed by the client in the end.
StreamFairness ==
    /\ WF_streamVars(OpenSource) /\ WF_streamVars(TimerFires)
    /\ \A c \in Connection :
        WF_streamVars(Accept(c)) /\ WF_streamVars(SourceError(c))

StreamSpec == StreamInit /\ [][StreamNext]_streamVars /\ StreamFairness

-----------------------------------------------------------------------------
(* Properties *)

\* A client never has two connections, and hears on the one it has every event
\* emitted since its route was there, once and in order: behind the older events
\* it heard before, what it heard, what is on the wire and what waits in the queue
\* are just those events.  Old connections the server still writes to add nothing.
HeardInOrder ==
    \A c \in sources :
        /\ sources = {c}
        /\ route[c] = "open" =>
             \E n \in 0..Len(heard) :
               /\ \A i \in 1..n : heard[i] <= base[c]
               /\ SubSeq(heard, n + 1, Len(heard)) \o wire[c] \o queue[c]
                    = [i \in 1..(emitted - base[c]) |-> base[c] + i]

\* A client that is not disposed gets its connection, whatever breaks and
\* whatever throws, as long as it may open another source: no path of connect
\* or onerror ends without a timer, a connect under way or a source.
StaysSubscribed ==
    [](~disposed => <>(\/ disposed \/ current = MaxConnections
                       \/ \E c \in sources : route[c] = "open"))
=============================================================================
