---------------------------- MODULE LunarStream ----------------------------
(***************************************************************************)
(* LunarCrushStream of the alpha ranker: a handshake source names the data *)
(* source, an error of either starts both anew after a delay, and the rows *)
(* they bring are kept by topic and by symbol for the boost of a score.    *)
(* A row's numbers are one strength; weights are in parts of Retention.    *)
(***************************************************************************)
EXTENDS LunarOverlay, FiniteSetsExt

CONSTANTS
    Keyword,        \* topics and symbols, normalised
    Strength,       \* what a row's numbers come to
    Retention,      \* the ten minutes after which a row weighs nothing
    MaxLunarBoost,
    NoSource,
    MaxSources,     \* bound: event sources that are opened
    MaxLunarTime    \* bound: the clock

ASSUME LunarAssumption ==
    /\ {Retention, MaxLunarBoost, MaxSources, MaxLunarTime} \subseteq Nat
    /\ Strength \subseteq Nat
    /\ NoSource \notin 1..MaxSources
    /\ IsFiniteSet(Keyword)

VARIABLES
    lunarSource,    \* of each source: new, open, gone for good, or closed by us
    handshake, dataStream,
    reconnectTimer, lunarStopped,
    topics, symbols,    \* the rows by keyword
    lunarTime

lunarVars == <<lunarSource, handshake, dataStream, reconnectTimer, lunarStopped,
               topics, symbols, lunarTime>>
rowVars == <<topics, symbols, lunarTime>>

LunarSources == 1..MaxSources
NoRow == [strength |-> 0, updatedAt |-> 0]

LunarInit ==
    /\ lunarSource = [s \in LunarSources |-> "new"]
    /\ handshake = NoSource /\ dataStream = NoSource
    /\ reconnectTimer = FALSE /\ lunarStopped = FALSE
    /\ topics = [k \in Keyword |-> NoRow] /\ symbols = topics
    /\ lunarTime = 1

-----------------------------------------------------------------------------
(* The two sources *)

\* The next source, and those in old closed.
Connects(s, old) ==
    /\ lunarSource[s] = "new" /\ \A r \in 1..s - 1 : lunarSource[r] # "new"
    /\ lunarSource' = [r \in LunarSources |->
          IF r = s THEN "open" ELSE IF r \in old THEN "closed" ELSE lunarSource[r]]

\* Bug: only the handshake is closed before the next one.
OpenHandshake_KeepsStream(s) ==
    /\ ~lunarStopped
    /\ Connects(s, {handshake})
    /\ handshake' = s /\ dataStream' = NoSource /\ reconnectTimer' = FALSE

\* openHandshake clears the timer and closes both sources.
OpenHandshake(s) ==
    /\ ~lunarStopped
    /\ Connects(s, {handshake, dataStream})
    /\ handshake' = s /\ dataStream' = NoSource /\ reconnectTimer' = FALSE

StartLunar(s) ==
    /\ handshake = NoSource
    /\ OpenHandshake(s)
    /\ UNCHANGED <<lunarStopped, rowVars>>

ReconnectFires(s) ==
    /\ reconnectTimer
    /\ OpenHandshake(s)
    /\ UNCHANGED <<lunarStopped, rowVars>>

\* onerror: the source connects again by itself, or is gone for good.
LunarError(s) ==
    /\ lunarSource[s] = "open"
    /\ lunarSource' \in {lunarSource, [lunarSource EXCEPT ![s] = "gone"]}
    /\ reconnectTimer' = (reconnectTimer \/ ~lunarStopped)
    /\ UNCHANGED <<handshake, dataStream, lunarStopped, rowVars>>

\* handleEndpoint with an address that parses; one that does not is only logged.
Endpoint(s) ==
    /\ handshake # NoSource /\ lunarSource[handshake] = "open" /\ ~lunarStopped
    /\ Connects(s, {dataStream})
    /\ dataStream' = s
    /\ UNCHANGED <<handshake, reconnectTimer, lunarStopped, rowVars>>

StopLunar ==
    /\ ~lunarStopped /\ handshake # NoSource
    /\ lunarStopped' = TRUE /\ reconnectTimer' = FALSE
    /\ lunarSource' = [s \in LunarSources |->
          IF s \in {handshake, dataStream} THEN "closed" ELSE lunarSource[s]]
    /\ UNCHANGED <<handshake, dataStream, rowVars>>

-----------------------------------------------------------------------------
(* The rows *)

\* handlePayload and applyRecord, for a row with a topic, a symbol or both.
Payload(s, strength, ts, ss) ==
    LET row == [strength |-> strength, updatedAt |-> lunarTime]
        Put(rows, ks) == [k \in Keyword |-> IF k \in ks THEN row ELSE rows[k]]
    IN /\ lunarSource[s] = "open" /\ ts \union ss # {}
       /\ topics' = Put(topics, ts) /\ symbols' = Put(symbols, ss)
       /\ UNCHANGED <<lunarSource, handshake, dataStream, reconnectTimer, lunarStopped,
                      lunarTime>>

LunarClock ==
    /\ lunarTime < MaxLunarTime
    /\ lunarTime' = lunarTime + 1
    /\ UNCHANGED <<lunarSource, handshake, dataStream, reconnectTimer, lunarStopped,
                   topics, symbols>>

Weight(row) == row.updatedAt + Retention - lunarTime

\* evaluate: over the rows found under any keyword the best strength, times the best
\* weight, each for itself.
Boost(ks) ==
    LET found == ({topics[k] : k \in ks} \union {symbols[k] : k \in ks}) \ {NoRow}
        recency == Max({0} \union {Weight(row) : row \in found})
    IN IF found = {} THEN 0
       ELSE Min({MaxLunarBoost * Retention,
                 recency * Max({row.strength : row \in found})})

LunarNext ==
    \/ \E s \in LunarSources :
        \/ StartLunar(s) \/ ReconnectFires(s) \/ Endpoint(s) \/ LunarError(s)
        \/ \E strength \in Strength, ts, ss \in SUBSET Keyword : Payload(s, strength, ts, ss)
    \/ StopLunar \/ LunarClock

LunarSpec == LunarInit /\ [][LunarNext]_lunarVars

-----------------------------------------------------------------------------
(* Properties *)

\* Over errors, reconnects that the library makes by itself, new endpoints and a
\* stop, no source stays open that nobody would close, and one that is gone for good
\* is replaced: the timer runs, until the stop.
OneConnection ==
    /\ \A s \in LunarSources : lunarSource[s] = "open" =>
          s \in {handshake, dataStream} /\ ~lunarStopped
    /\ \A s \in {handshake, dataStream} \ {NoSource} :
          lunarSource[s] = "gone" => reconnectTimer \/ lunarStopped
    /\ lunarStopped => ~reconnectTimer

\* However long the source is silent, rows that are all too old boost nothing, and
\* what a row adds to a keyword's boost never exceeds the limit.
BoostIsRecent ==
    \A ks \in SUBSET Keyword :
        /\ Boost(ks) <= MaxLunarBoost * Retention
        /\ Boost(ks) > 0 => \E k \in ks : Weight(topics[k]) > 0 \/ Weight(symbols[k]) > 0

LunarStreamSound == OneConnection /\ BoostIsRecent

\* LunarCrush, which is heard as a stream by the alpha ranker and polled by the narrative
\* miner, boosts by what it said of late and opens no window by itself.
LunarIsSound == LunarStreamSound /\ OverlaySound
=============================================================================
