----------------------------- MODULE FeaturesJob -----------------------------
(***************************************************************************)
(* features-job: a timer begins a run that reads the posts of the last     *)
(* hours, waits for their embeddings and then writes a row per author with *)
(* enough posts.  Runs are not kept apart; a run and the rows it writes    *)
(* are named by the time it begins, and the qualities are left out.        *)
(***************************************************************************)
EXTENDS Naturals, FiniteSetsExt

CONSTANTS
    Author, SocialPost,
    Lookback, MinPosts,
    ReadLimit,      \* the LIMIT of listRecentSocialPosts
    MaxJobTime,     \* bound: the clock
    MaxJobRuns      \* bound: runs begun

ASSUME FeaturesAssumption ==
    {Lookback, MinPosts, ReadLimit, MaxJobTime, MaxJobRuns} \subseteq Nat \ {0}

VARIABLES
    jobTime,
    stored,         \* table social_posts: author and capture time, 0 for none
    jobRuns,        \* runs waiting for embeddings: start and posts
    jobsBegun,
    authorRows,     \* table author_features: lastCalcTs, 0 for no row
    lastStats,      \* start of the run, and the authors it updated
    runsOverlapped, \* history: a run began while another was waiting
    wentBack        \* history: a row was replaced by one of an earlier run

jobVars == <<jobTime, stored, jobRuns, jobsBegun, authorRows, lastStats,
             runsOverlapped, wentBack>>

JobInit ==
    /\ jobTime = 1
    /\ stored \in [SocialPost -> [author : Author, at : {0}]]
    /\ jobRuns = {} /\ jobsBegun = 0
    /\ authorRows = [a \in Author |-> 0]
    /\ lastStats = [at |-> 0, authors |-> {}]
    /\ runsOverlapped = FALSE /\ wentBack = FALSE

JobClock ==
    /\ jobTime < MaxJobTime
    /\ jobTime' = jobTime + 1
    /\ UNCHANGED <<stored, jobRuns, jobsBegun, authorRows, lastStats, runsOverlapped, wentBack>>

\* storeSocialPost: a post that is captured again has a later capture time.
StoreSocialPost(p) ==
    /\ stored' = [stored EXCEPT ![p].at = jobTime]
    /\ UNCHANGED <<jobTime, jobRuns, jobsBegun, authorRows, lastStats, runsOverlapped, wentBack>>

\* What listRecentSocialPosts may return: the newest of the window.
ListRecentPosts(since, S) ==
    LET window == {p \in SocialPost : stored[p].at > 0 /\ stored[p].at >= since}
    IN /\ S \subseteq window
       /\ Cardinality(S) = Min({ReadLimit, Cardinality(window)})
       /\ \A p \in S, q \in window \ S : stored[q].at <= stored[p].at

Since == IF jobTime > Lookback THEN jobTime - Lookback ELSE 0

\* A run that finds no post reports at once; another begins to embed.
BeginRun(S) ==
    /\ jobsBegun < MaxJobRuns /\ jobsBegun' = jobsBegun + 1
    /\ ListRecentPosts(Since, S)
    /\ IF S = {}
       THEN /\ lastStats' = [at |-> jobTime, authors |-> {}]
            /\ UNCHANGED <<jobRuns, runsOverlapped>>
       ELSE /\ \A r \in jobRuns : r.at < jobTime
            /\ jobRuns' = jobRuns \union {[at |-> jobTime, posts |-> S]}
            /\ runsOverlapped' = (runsOverlapped \/ jobRuns # {})
            /\ UNCHANGED lastStats
    /\ UNCHANGED <<jobTime, stored, authorRows, wentBack>>

PostsOf(r, a) == {p \in r.posts : stored[p].author = a}
Eligible(r) == {a \in Author : Cardinality(PostsOf(r, a)) >= MinPosts}

\* The rows of done are written.
WriteFeatures(r, done) ==
    /\ jobRuns' = jobRuns \ {r}
    /\ authorRows' = [a \in Author |-> IF a \in done THEN r.at ELSE authorRows[a]]
    /\ wentBack' = (wentBack \/ \E a \in done : authorRows[a] > r.at)

\* Bug: the statistics are set before the rows are written.
EndRun_StatsFirst(r, done) ==
    /\ r \in jobRuns /\ done \subseteq Eligible(r)
    /\ WriteFeatures(r, done)
    /\ lastStats' = [at |-> r.at, authors |-> Eligible(r)]
    /\ UNCHANGED <<jobTime, stored, jobsBegun, runsOverlapped>>

\* The embeddings have come.  A row that cannot be written ends the run; the
\* statistics are those of runs that wrote all of them.
EndRun(r, done) ==
    /\ r \in jobRuns /\ done \subseteq Eligible(r)
    /\ WriteFeatures(r, done)
    /\ lastStats' = IF done = Eligible(r) THEN [at |-> r.at, authors |-> done] ELSE lastStats
    /\ UNCHANGED <<jobTime, stored, jobsBegun, runsOverlapped>>

JobNext ==
    \/ JobClock
    \/ \E p \in SocialPost : StoreSocialPost(p)
    \/ \E S \in SUBSET SocialPost : BeginRun(S)
    \/ \E r \in jobRuns, done \in SUBSET Author : EndRun(r, done)

JobSpec == JobInit /\ [][JobNext]_jobVars

-----------------------------------------------------------------------------
(* Property *)

\* The authors that health reports for its run have rows of it or of later ones; a row
\* goes back in time, and falls behind the statistics, only when a run took longer than
\* the interval.
FeaturesAreDated ==
    ~runsOverlapped =>
        /\ ~wentBack
        /\ \A a \in lastStats.authors : authorRows[a] >= lastStats.at
=============================================================================
