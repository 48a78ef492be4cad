----------------------------- MODULE AlphaScores -----------------------------
(***************************************************************************)
(* Alpha scores on their way from alpha-ranker to policy-engine.  The      *)
(* ranker keeps the rows in one buffer, from which every connection to     *)
(* /events/scores takes rows away, the connections the server has not yet  *)
(* noticed to be closed too.  The policy engine's client keeps the last    *)
(* row it heard of a mint and horizon.  The scores themselves are left     *)
(* out: a row is known by its key and the candidate it was made for.       *)
(***************************************************************************)
EXTENDS Naturals, SequencesExt

CONSTANTS
    ScoredMint, Horizons,   \* cfg.alpha.horizons, a sequence
    BufferLimit,    \* SCORE_BUFFER_LIMIT
    MaxEntries,     \* of the client's cache
    MaxScored,      \* bound: candidates scored
    MaxReaders      \* bound: connections of the policy engine's client

ASSUME AlphaConstants ==
    /\ {BufferLimit, MaxEntries} \subseteq Nat \ {0}
    /\ {MaxScored, MaxReaders} \subseteq Nat
    /\ Horizons \in Seq(ToSet(Horizons))

VARIABLES
    candidatesScored,   \* scored so far, the time of the rows
    last,       \* the buffer
    sending,    \* per connection: rows taken for it and not delivered
    connected,  \* connections the server takes rows for
    reader,     \* the client's connection, 0 for none
    readers,    \* connections opened
    scoreCache, \* the client's entries, least lately written first
    newestHeard \* history: per key, the newest row delivered

alphaVars == <<candidatesScored, last, sending, connected, reader, readers, scoreCache, newestHeard>>

ScoreKey == ScoredMint \X ToSet(Horizons)
Reader == 1..MaxReaders

AlphaInit ==
    /\ candidatesScored = 0 /\ last = <<>>
    /\ sending = [c \in Reader |-> <<>>] /\ connected = {}
    /\ reader = 0 /\ readers = 0
    /\ scoreCache = <<>>
    /\ newestHeard = [k \in ScoreKey |-> 0]

\* The rows beyond the limit, the oldest ones, are cut off.
Buffered(rows) ==
    LET over == Len(rows) - BufferLimit
    IN  IF Len(rows) > BufferLimit THEN SubSeq(rows, over + 1, Len(rows)) ELSE rows

\* A candidate of the safety stream: one row for each horizon.
ScoreCandidate(m) ==
    /\ candidatesScored < MaxScored
    /\ candidatesScored' = candidatesScored + 1
    /\ last' = Buffered(last \o [i \in DOMAIN Horizons |->
                                    [key |-> <<m, Horizons[i]>>, ts |-> candidatesScored']])
    /\ UNCHANGED <<sending, connected, reader, readers, scoreCache, newestHeard>>

\* Bug: rows are taken from the end.
Taken_Newest(rows) == [row |-> rows[Len(rows)], rest |-> Front(rows)]

Taken(rows) == [row |-> Head(rows), rest |-> Tail(rows)]

\* The 100 ms timer of a connection.
TakeRow(c) ==
    /\ c \in connected /\ last # <<>>
    /\ last' = Taken(last).rest
    /\ sending' = [sending EXCEPT ![c] = Append(@, Taken(last).row)]
    /\ UNCHANGED <<candidatesScored, connected, reader, readers, scoreCache, newestHeard>>

\* remember: the entry of the key goes to the end.
Remembered(row) ==
    LET entries == Append(RemoveFirstMatch(scoreCache, LAMBDA e : e.key = row.key), row)
    IN  IF Len(entries) > MaxEntries THEN Tail(entries) ELSE entries

\* onMessage
HearRow ==
    /\ reader # 0 /\ sending[reader] # <<>>
    /\ LET row == Head(sending[reader])
       IN  /\ scoreCache' = Remembered(row)
           /\ newestHeard' = [newestHeard EXCEPT ![row.key] = IF row.ts > @ THEN row.ts ELSE @]
    /\ sending' = [sending EXCEPT ![reader] = Tail(@)]
    /\ UNCHANGED <<candidatesScored, last, connected, reader, readers>>

\* getLatestScore of an entry whose age is over.
ForgetOldScore(e) ==
    /\ scoreCache' = RemoveFirst(scoreCache, e)
    /\ UNCHANGED <<candidatesScored, last, sending, connected, reader, readers, newestHeard>>

ReaderConnects ==
    /\ reader = 0 /\ readers < MaxReaders
    /\ readers' = readers + 1 /\ reader' = readers'
    /\ connected' = connected \union {readers'}
    /\ UNCHANGED <<candidatesScored, last, sending, scoreCache, newestHeard>>

\* The client's side of a connection is gone; what was sent on it is lost.
LoseReader ==
    /\ reader # 0
    /\ reader' = 0
    /\ UNCHANGED <<candidatesScored, last, sending, connected, readers, scoreCache, newestHeard>>

\* The server notices: the timer is cleared and the queue closed.
CloseReader(c) ==
    /\ c \in connected /\ c # reader
    /\ connected' = connected \ {c}
    /\ sending' = [sending EXCEPT ![c] = <<>>]
    /\ UNCHANGED <<candidatesScored, last, reader, readers, scoreCache, newestHeard>>

AlphaNext ==
    \/ \E m \in ScoredMint : ScoreCandidate(m)
    \/ HearRow \/ ReaderConnects \/ LoseReader
    \/ \E c \in Reader : TakeRow(c) \/ CloseReader(c)
    \/ \E e \in ToSet(scoreCache) : ForgetOldScore(e)

AlphaSpec == AlphaInit /\ [][AlphaNext]_alphaVars

-----------------------------------------------------------------------------
(* Property *)

\* The score the policy engine has for a mint and horizon is that of the newest
\* row it heard, although entries are overwritten whatever their time: rows cut
\* from the buffer, taken by dead connections or left over from before a
\* reconnection do not bring an older score back.
NewestScoreWins == \A i \in DOMAIN scoreCache : scoreCache[i].ts = newestHeard[scoreCache[i].key]
=============================================================================
