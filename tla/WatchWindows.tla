---------------------------- MODULE WatchWindows ----------------------------
(***************************************************************************)
(* The watch windows of the narrative miner: a topic whose score reaches   *)
(* the open threshold is watched for a while.  The windows live in memory; *)
(* a replay guard decides which changes are written to the database, from  *)
(* where a restart takes the windows again.  Posts come with the time of   *)
(* their publication, so not in its order; the timer that closes windows   *)
(* goes by the clock.                                                      *)
(***************************************************************************)
EXTENDS Naturals, FiniteSets, Sequences, FiniteSetsExt

CONSTANTS
    Topic,
    Duration,       \* watchWindows.durationSec
    RefreshEvery,   \* watchWindows.refreshIntervalSec
    MaxTime,        \* bound: the clock
    MaxFaults,      \* bound: writes that throw
    MaxReboots      \* bound: restarts

ASSUME WindowConstants ==
    {Duration, RefreshEvery, MaxTime, MaxFaults, MaxReboots} \subseteq Nat

VARIABLES
    windows,    \* WatchWindowManager.windows, by topic
    guard,      \* windowReplayGuard: refresh time by topic, 0 for none
    windowRows, \* table topic_windows, by topic
    time,
    unsaved,    \* history: the topics whose last write threw
    faults, reboots

windowVars == <<windows, guard, windowRows, time, unsaved, faults, reboots>>

\* A score matters against the thresholds and the one before it: "low" is below
\* sustainThreshold, these reach openThreshold, what is between changes nothing.
Opening == {"high", "higher"}

Absent == [on |-> FALSE]
Watched == {t \in Topic : windows[t].on}
Saved == {t \in Topic : windowRows[t].on}

WindowInit ==
    /\ windows = [t \in Topic |-> Absent] /\ windowRows = [t \in Topic |-> Absent]
    /\ guard = [t \in Topic |-> 0]
    /\ time = 1 /\ unsaved = {} /\ faults = 0 /\ reboots = 0

\* The writes of rows for the topics of ts; those for
\* failing throw, are logged and leave the table as it was.
WriteRows(ts, rows) ==
    \E failing \in SUBSET ts :
        /\ faults + Cardinality(failing) <= MaxFaults
        /\ faults' = faults + Cardinality(failing)
        /\ windowRows' = [t \in Topic |->
                            IF t \in ts \ failing THEN rows[t] ELSE windowRows[t]]
        /\ unsaved' = (unsaved \ ts) \union failing

\* handleWindowEvents for a window opened or refreshed.
Record(t, window) ==
    IF guard[t] = 0 \/ window.refreshed > guard[t]
    THEN /\ guard' = [guard EXCEPT ![t] = window.refreshed]
         /\ WriteRows({t}, [x \in {t} |-> window])
    ELSE UNCHANGED <<guard, windowRows, unsaved, faults>>

\* ingest, for a post of time `at` that gives its topic a score.
Open(t, score, at) ==
    /\ ~windows[t].on /\ score \in Opening
    /\ windows' = [windows EXCEPT ![t] = [on |-> TRUE, opened |-> at, refreshed |-> at,
                                           expires |-> at + Duration, score |-> score]]
    /\ Record(t, windows'[t])
    /\ UNCHANGED <<time, reboots>>

Emits(window, score, at) ==
    \/ at >= window.refreshed + RefreshEvery
    \/ window.score = "low"
    \/ window.score = "high" /\ score = "higher"

Extend(t, score, at) ==
    /\ windows[t].on /\ score \in Opening
    /\ windows' = [windows EXCEPT ![t].refreshed = at, ![t].score = score,
                                  ![t].expires = at + Duration]
    /\ IF Emits(windows[t], score, at)
       THEN Record(t, windows'[t])
       ELSE UNCHANGED <<guard, windowRows, unsaved, faults>>
    /\ UNCHANGED <<time, reboots>>

\* Below the sustain threshold the score is kept and the window left to expire.
Fade(t) ==
    /\ windows[t].on
    /\ windows' = [windows EXCEPT ![t].score = "low"]
    /\ UNCHANGED <<guard, windowRows, time, unsaved, faults, reboots>>

Expired(ws) == {t \in Topic : ws[t].on /\ ws[t].expires <= time}

\* Bug: a closed window leaves its time in the guard.
Closed_LeavesGuard(ts) ==
    /\ guard' = guard
    /\ WriteRows(ts, [t \in ts |-> Absent])

\* handleWindowEvents for the windows that prune closed.
Closed(ts) ==
    /\ guard' = [t \in Topic |-> IF t \in ts THEN 0 ELSE guard[t]]
    /\ WriteRows(ts, [t \in ts |-> Absent])

Prune ==
    /\ Expired(windows) # {}
    /\ windows' = [t \in Topic |-> IF t \in Expired(windows) THEN Absent ELSE windows[t]]
    /\ Closed(Expired(windows))
    /\ UNCHANGED <<time, reboots>>

\* bootstrap: the rows become windows, the guard knows the active ones, and
\* what expired meanwhile is closed.
Reboot ==
    /\ reboots < MaxReboots
    /\ reboots' = reboots + 1
    /\ LET gone == Expired(windowRows) IN
        /\ windows' = [t \in Topic |-> IF t \in gone THEN Absent ELSE windowRows[t]]
        /\ guard' = [t \in Topic |-> IF t \in Saved \ gone THEN windowRows[t].refreshed
                                                           ELSE 0]
        /\ \E failing \in SUBSET gone :
            /\ faults + Cardinality(failing) <= MaxFaults
            /\ faults' = faults + Cardinality(failing)
            /\ windowRows' = [t \in Topic |->
                                IF t \in gone \ failing THEN Absent ELSE windowRows[t]]
            /\ unsaved' = failing
    /\ UNCHANGED time

WindowClock ==
    /\ time < MaxTime
    /\ time' = time + 1
    /\ UNCHANGED <<windows, guard, windowRows, unsaved, faults, reboots>>

WindowNext ==
    \/ Prune \/ Reboot \/ WindowClock
    \/ \E t \in Topic :
        \/ Fade(t)
        \/ \E at \in 1..time, score \in Opening : Open(t, score, at) \/ Extend(t, score, at)

WindowSpec == WindowInit /\ [][WindowNext]_windowVars

-----------------------------------------------------------------------------
(* Property *)

\* Unless the last write of a topic threw, the table holds a row for it exactly
\* when it is watched, of the same opening and as old as the guard says: a post
\* that comes late, a window that expires and opens again and a restart leave no
\* window without its row and no row without its window.
RowsFollowWindows ==
    \A t \in Topic \ unsaved :
        /\ windows[t].on <=> windowRows[t].on
        /\ windows[t].on => /\ windowRows[t].opened = windows[t].opened
                            /\ windowRows[t].refreshed = guard[t]

-----------------------------------------------------------------------------
(***************************************************************************)
(* What the narrative miner counts of a phrase: the rolling window of the  *)
(* phrase tracker, an array with a head that advances over what has left   *)
(* the window, and the decaying baseline, kept in memory and flushed to    *)
(* the database.  Posts are numbered in the order in which they are        *)
(* handled; their publication times come in any order.  The engagement is  *)
(* summed at the same places as the posts are counted; decay changes the   *)
(* baseline's numbers and not what is flushed when.                        *)
(***************************************************************************)

CONSTANTS
    Phrase,
    Span,           \* WINDOW_MS
    MaxKept,        \* MAX_EVENTS_PER_PHRASE
    CutSize,        \* the tenth of them that is cut
    CompactAbove,   \* the head at which the array may be compacted
    MaxPhrases,     \* MAX_PHRASES
    MaxPosts,       \* bound: posts
    MaxBadRows      \* bound: baseline rows that fail to be written

ASSUME StatisticsConstants ==
    /\ {Span, MaxKept, CutSize, CompactAbove, MaxPhrases, MaxPosts, MaxBadRows}
        \subseteq Nat
    /\ 0 < MaxPhrases /\ CutSize <= MaxKept

VARIABLES
    tracked,    \* PhraseTracker.phrases: the keys, in the order of insertion
    stat,       \* of each phrase: events (times), head, posts (rollingPosts)
    cutLive,    \* history: events inside the window that the limit cut
    baseline,   \* BaselineManager.entries: the last post counted, by phrase
    dirty,
    baselineRows,   \* table phrase_baseline
    unflushed,      \* history: phrases whose row failed since their last post
    posted, badRows

statisticsVars == <<tracked, stat, cutLive, baseline, dirty, baselineRows, unflushed,
                    posted, badRows>>

NoStat == [events |-> <<>>, head |-> 0, posts |-> 0]

StatisticsInit ==
    /\ tracked = <<>> /\ dirty = {} /\ unflushed = {}
    /\ stat = [p \in Phrase |-> NoStat]
    /\ cutLive = [p \in Phrase |-> 0]
    /\ baseline = [p \in Phrase |-> 0] /\ baselineRows = [p \in Phrase |-> 0]
    /\ posted = 0 /\ badRows = 0

\* Bug: the compacted array is read from the old head.
Compacted_KeepsHead(s) ==
    IF s.head > CompactAbove /\ 2 * s.head > Len(s.events)
    THEN [s EXCEPT !.events = SubSeq(@, s.head + 1, Len(@))]
    ELSE s

Compacted(s) ==
    IF s.head > CompactAbove /\ 2 * s.head > Len(s.events)
    THEN [s EXCEPT !.events = SubSeq(@, s.head + 1, Len(@)), !.head = 0]
    ELSE s

\* The head advances to the first event that is inside the window.
Pruned(s, now) ==
    LET head == Min({i \in s.head..Len(s.events) :
                        i = Len(s.events) \/ s.events[i + 1] + Span >= now})
    IN  Compacted([s EXCEPT !.head = head, !.posts = @ - (head - s.head)])

\* The limit cuts the array, its head with it, and leaves the counts.
Limited(s) ==
    IF Len(s.events) < MaxKept THEN s
    ELSE [s EXCEPT !.events = SubSeq(@, CutSize + 1, Len(@)),
                   !.head = IF @ > CutSize THEN @ - CutSize ELSE 0]

Counted(s, now) == [s EXCEPT !.events = Append(@, now), !.posts = @ + 1]

IsTracked(p) == \E i \in 1..Len(tracked) : tracked[i] = p

\* ensureState: the phrase inserted first makes room for a new one.
Evicted(p) == IF ~IsTracked(p) /\ Len(tracked) >= MaxPhrases THEN {Head(tracked)} ELSE {}
Inserted(p) ==
    IF IsTracked(p) THEN tracked
    ELSE Append(IF Evicted(p) = {} THEN tracked ELSE Tail(tracked), p)

\* A post, published at `at`, that uses the phrase: observe, applyObservation.
Observe(p, at) ==
    /\ posted < MaxPosts
    /\ posted' = posted + 1
    /\ tracked' = Inserted(p)
    /\ LET pruned == Pruned(stat[p], at) IN
        /\ stat' = [q \in Phrase |-> IF q = p THEN Counted(Limited(pruned), at)
                                     ELSE IF q \in Evicted(p) THEN NoStat ELSE stat[q]]
        /\ cutLive' = [q \in Phrase |->
                        IF q \in Evicted(p) THEN 0
                        ELSE IF q = p /\ Len(pruned.events) >= MaxKept /\ CutSize > pruned.head
                             THEN cutLive[q] + CutSize - pruned.head
                             ELSE cutLive[q]]
    /\ baseline' = [baseline EXCEPT ![p] = posted']
    /\ dirty' = dirty \union {p}
    /\ unflushed' = unflushed \ {p}
    /\ UNCHANGED <<baselineRows, badRows>>

\* upsertPhraseBaseline, for the phrases whose row could be written.
UpsertBaselines(written) ==
    baselineRows' = [p \in Phrase |-> IF p \in written THEN baseline[p] ELSE baselineRows[p]]

\* flush empties dirty, then writes row by row; a row that fails is logged.
Flush ==
    /\ dirty # {}
    /\ \E failing \in SUBSET dirty :
        /\ badRows + Cardinality(failing) <= MaxBadRows
        /\ badRows' = badRows + Cardinality(failing)
        /\ unflushed' = unflushed \union failing
        /\ UpsertBaselines(dirty \ failing)
    /\ dirty' = {}
    /\ UNCHANGED <<tracked, stat, cutLive, baseline, posted>>

StatisticsNext == Flush \/ \E p \in Phrase, at \in 0..MaxPosts : Observe(p, at)

StatisticsSpec == StatisticsInit /\ [][StatisticsNext]_statisticsVars

-----------------------------------------------------------------------------
(* Property *)

\* rollingPosts counts the events from the head on and, for good, the live ones
\* that the limit cut.
CountsMatchWindow ==
    \A p \in Phrase : stat[p].posts = Len(stat[p].events) - stat[p].head + cutLive[p]

\* What the database does not have yet is dirty or failed to be written.
DirtyUntilFlushed ==
    \A p \in Phrase : baseline[p] # baselineRows[p] => p \in dirty \union unflushed

\* Over late posts, pruning, compaction, the two limits, eviction and flushes,
\* the phrase's numbers are those of its window and the baseline gets saved.
StatisticsKept == CountsMatchWindow /\ DirtyUntilFlushed

\* What the narrative miner counts and watches is in the database as its restart needs
\* it: the windows, the rolling posts and the baseline.
NarrativesAreKept == RowsFollowWindows /\ StatisticsKept
=============================================================================
