--------------------------- MODULE DashboardFeed ---------------------------
(***************************************************************************)
(* The rates the dashboard shows, made from a counter that a service keeps *)
(* as long as it runs.  There are two ways: the metrics route of the       *)
(* gateway scrapes the service and keeps what it saw for all who ask it;   *)
(* the dashboard itself keeps what it saw in agent-core's summary, and     *)
(* turns to the route when there is none.  A behaviour is about one of     *)
(* them.  A poll starts on a timer whether or not the last one is back,    *)
(* and answers arrive in any order.  The time by which an increase is      *)
(* divided is left out.  At the end is what is asked of all that serves    *)
(* others: these rates, agent-core's health answers and cached fetchers.   *)
(***************************************************************************)
EXTENDS AgentCore, ProviderCache

CONSTANTS
    LoadSlot,       \* loads that can be on their way at once
    MaxCount,       \* bound: increments
    MaxPollFaults,  \* bound: failed loads
    MaxServiceEnds  \* bound: restarts of the service

ASSUME FeedConstants == {MaxCount, MaxPollFaults, MaxServiceEnds} \subseteq Nat

VARIABLES
    feed,       \* "route" or "summary"
    counter,    \* the service's counter, and history: all it ever counted
    loads,      \* of each load: "idle", "asked", "answered", and the answer
    previous,   \* the last totals, or none
    increases,  \* history: the increases shown since there were totals
    since,      \* history: all that had been counted when the first totals were taken
    upTo,       \* history: and when the last ones were
    pollFaults, ends,
    dipped,     \* history: the totals were set back by a failed scrape
    overtaken   \* history: two loads were on their way at once

rateVars == <<feed, counter, loads, previous, increases, since, upTo, pollFaults, ends,
              dipped, overtaken>>

NoAnswer == [stage |-> "idle", now |-> 0, ever |-> 0]
NoTotals == [known |-> FALSE, total |-> 0]
Totals(n) == [known |-> TRUE, total |-> n]

FeedInit ==
    /\ feed \in {"route", "summary"}
    /\ counter = [now |-> 0, ever |-> 0]
    /\ loads = [p \in LoadSlot |-> NoAnswer]
    /\ previous = NoTotals
    /\ increases = 0 /\ since = 0 /\ upTo = 0
    /\ pollFaults = 0 /\ ends = 0 /\ dipped = FALSE /\ overtaken = FALSE

-----------------------------------------------------------------------------
(* The service *)

Count ==
    /\ counter.ever < MaxCount
    /\ counter' = [now |-> counter.now + 1, ever |-> counter.ever + 1]
    /\ UNCHANGED <<feed, loads, previous, increases, since, upTo, pollFaults, ends, dipped,
                   overtaken>>

ServiceEnds ==
    /\ ends < MaxServiceEnds /\ ends' = ends + 1
    /\ counter' = [counter EXCEPT !.now = 0]
    /\ UNCHANGED <<feed, loads, previous, increases, since, upTo, pollFaults, dipped, overtaken>>

-----------------------------------------------------------------------------
(* Polling *)

BeginLoad(p) ==
    /\ loads[p].stage = "idle"
    /\ loads' = [loads EXCEPT ![p].stage = "asked"]
    /\ overtaken' = (overtaken \/ \E q \in LoadSlot : loads[q].stage # "idle")
    /\ UNCHANGED <<feed, counter, previous, increases, since, upTo, pollFaults, ends, dipped>>

AnswerTaken(p) ==
    /\ loads[p].stage = "asked"
    /\ loads' = [loads EXCEPT ![p] = [stage |-> "answered", now |-> counter.now,
                                      ever |-> counter.ever]]
    /\ UNCHANGED <<feed, counter, previous, increases, since, upTo, pollFaults, ends, dipped,
                   overtaken>>

\* What fell, because the service started again, has not increased.
Increase(total) == IF total > previous.total THEN total - previous.total ELSE 0

Shown(p) ==
    /\ loads[p].stage = "answered"
    /\ previous' = Totals(loads[p].now)
    /\ increases' = IF previous.known THEN increases + Increase(loads[p].now) ELSE 0
    /\ since' = IF previous.known THEN since ELSE loads[p].ever
    /\ upTo' = loads[p].ever
    /\ loads' = [loads EXCEPT ![p] = NoAnswer]
    /\ UNCHANGED <<feed, counter, pollFaults, ends, dipped, overtaken>>

\* Bug: the dashboard's totals are emptied, not forgotten.
Forgotten_Emptied == Totals(0)

\* The dashboard forgets its totals when the fallback answers.
Forgotten == NoTotals

PollFault(p) ==
    /\ loads[p].stage = "asked"
    /\ pollFaults < MaxPollFaults /\ pollFaults' = pollFaults + 1
    /\ loads' = [loads EXCEPT ![p] = NoAnswer]
    /\ UNCHANGED <<feed, counter, ends, overtaken>>

\* A failed scrape is one that found no counters: the totals are empty.
ScrapeFails(p) ==
    /\ feed = "route"
    /\ PollFault(p)
    /\ previous' = Totals(0)
    /\ dipped' = TRUE
    /\ UNCHANGED <<increases, since, upTo>>

SummaryFails(p) ==
    /\ feed = "summary"
    /\ PollFault(p)
    /\ previous' \in {previous, Forgotten}
    /\ UNCHANGED <<increases, since, upTo, dipped>>

FeedNext ==
    \/ Count \/ ServiceEnds
    \/ \E p \in LoadSlot :
        BeginLoad(p) \/ AnswerTaken(p) \/ Shown(p) \/ ScrapeFails(p) \/ SummaryFails(p)

FeedSpec == FeedInit /\ [][FeedNext]_rateVars

-----------------------------------------------------------------------------
(* Property *)

\* The increases shown one after the other add up to what was counted meanwhile: never
\* more, unless answers could overtake each other or a scrape failed, and, unless the
\* service was started again, never less.
RatesAddUp ==
    overtaken \/ dipped \/
        /\ increases <= upTo - since
        /\ ends = 0 => increases = upTo - since

\* What is served to others is what it says it is: calls come at the rate of the
\* limit, health is as old as its date, and the rates add up.
ServingIsSound == RateKept /\ HealthIsDated /\ RatesAddUp
=============================================================================
