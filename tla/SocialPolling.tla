---------------------------- MODULE SocialPolling ----------------------------
(***************************************************************************)
(* A polling source of social-ingestor (reddit, neynar, gdelt).  A poll    *)
(* begins one fetch per query and ends with the last answer or the first   *)
(* failure; the other fetches of a failed poll stay on their way and       *)
(* answer during a later one.  A post is emitted when its id is not among  *)
(* the ids seen, a set that gdelt bounds.  Storing a post does not decide  *)
(* whether it is emitted and is left out.                                  *)
(***************************************************************************)
EXTENDS Naturals, SequencesExt

CONSTANTS
    Post, Query,
    MaxSeen,    \* MAX_SEEN_SIZE; the other sources have no limit
    MaxPolls    \* bound: polls begun

ASSUME PollingConstants == {MaxSeen, MaxPolls} \subseteq Nat \ {0}

VARIABLES
    polling,    \* the loop: "off", "polling", "pausing" (a delay)
    pollCount,  \* polls begun
    fetches,    \* on their way: poll and query
    sourceStopped, sourceStatus,
    seenIds,        \* seen, oldest first
    timesEmitted,   \* history: of each post
    forgotten       \* history: times its id was dropped from seen

pollingVars == <<polling, pollCount, fetches, sourceStopped, sourceStatus, seenIds, timesEmitted, forgotten>>

PollingInit ==
    /\ polling = "off" /\ pollCount = 0 /\ fetches = {}
    /\ sourceStopped = FALSE /\ sourceStatus = "idle"
    /\ seenIds = <<>>
    /\ timesEmitted = [p \in Post |-> 0] /\ forgotten = [p \in Post |-> 0]

BeginPoll ==
    /\ pollCount < MaxPolls
    /\ polling' = "polling"
    /\ pollCount' = pollCount + 1
    /\ fetches' = fetches \union ({pollCount + 1} \X Query)

StartSource ==
    /\ polling = "off" /\ ~sourceStopped
    /\ BeginPoll
    /\ sourceStatus' = "running"
    /\ UNCHANGED <<sourceStopped, seenIds, timesEmitted, forgotten>>

\* The access token is fetched first; without one no query is asked.
TokenFails ==
    /\ polling \in {"off", "pausing"} /\ ~sourceStopped /\ pollCount < MaxPolls
    /\ polling' = "pausing"
    /\ pollCount' = pollCount + 1
    /\ sourceStatus' = "error"
    /\ UNCHANGED <<fetches, sourceStopped, seenIds, timesEmitted, forgotten>>

\* The delays are over and the loop looks at stopped.
NextPoll ==
    /\ polling = "pausing" /\ ~sourceStopped
    /\ BeginPoll
    /\ UNCHANGED <<sourceStopped, sourceStatus, seenIds, timesEmitted, forgotten>>

LoopEnds ==
    /\ polling = "pausing" /\ sourceStopped
    /\ polling' = "off"
    /\ UNCHANGED <<pollCount, fetches, sourceStopped, sourceStatus, seenIds, timesEmitted, forgotten>>

\* One post of an answer.  The id goes in after the eviction of the oldest one,
\* whether that was seen lately or not.
TakePost(known, p) ==
    LET full == Len(known.ids) >= MaxSeen
        kept == IF full THEN Tail(known.ids) ELSE known.ids
    IN  IF Contains(known.ids, p) THEN known
        ELSE [ids |-> Append(kept, p),
              emits |-> [known.emits EXCEPT ![p] = @ + 1],
              drops |-> IF full
                            THEN [known.drops EXCEPT ![Head(known.ids)] = @ + 1]
                            ELSE known.drops]

\* Every order of every finite set of posts, none included: a limited or empty answer.
Listing == UNION {SetToSeqs(S) : S \in {T \in SUBSET Post : IsFiniteSet(T)}}

\* An answer of a poll that has failed, or of one that ends after stop, is
\* handled like any other, and the end of the poll is a success of the source.
QueryAnswers(f) ==
    /\ \E listing \in Listing :
        LET known == FoldLeft(TakePost, [ids |-> seenIds, emits |-> timesEmitted,
                                         drops |-> forgotten], listing)
        IN  /\ seenIds' = known.ids
            /\ timesEmitted' = known.emits
            /\ forgotten' = known.drops
    /\ fetches' = fetches \ {f}
    /\ IF polling = "polling" /\ f[1] = pollCount /\ \A g \in fetches' : g[1] # pollCount
       THEN polling' = "pausing" /\ sourceStatus' = "running"
       ELSE UNCHANGED <<polling, sourceStatus>>
    /\ UNCHANGED <<pollCount, sourceStopped>>

\* Promise.all rejects with the first failure; a later one is not looked at.
QueryFails(f) ==
    /\ fetches' = fetches \ {f}
    /\ IF polling = "polling" /\ f[1] = pollCount
       THEN polling' = "pausing" /\ sourceStatus' = "error"
       ELSE UNCHANGED <<polling, sourceStatus>>
    /\ UNCHANGED <<pollCount, sourceStopped, seenIds, timesEmitted, forgotten>>

StopSource ==
    /\ pollCount > 0 /\ ~sourceStopped
    /\ sourceStopped' = TRUE /\ sourceStatus' = "idle"
    /\ UNCHANGED <<polling, pollCount, fetches, seenIds, timesEmitted, forgotten>>

PollingNext ==
    \/ StartSource \/ TokenFails \/ NextPoll \/ LoopEnds \/ StopSource
    \/ \E f \in fetches : QueryAnswers(f) \/ QueryFails(f)

PollingSpec == PollingInit /\ [][PollingNext]_pollingVars

-----------------------------------------------------------------------------
(* Property *)

\* A post is emitted again only if its id was dropped since, however the answers
\* of polls that failed and of the polls after them overlap.
RepeatedOnlyIfForgotten == \A p \in Post : timesEmitted[p] <= 1 + forgotten[p]
=============================================================================
