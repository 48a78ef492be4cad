--------------------------- MODULE LeaderWallets ---------------------------
(***************************************************************************)
(* The leader-wallet watcher, next to the migration watcher whose table it *)
(* polls: for a while after its migration each pool has a log listener,    *)
(* a swap's signature leads to a row of leader_hits, and rows lead to new  *)
(* scores.  Timers poll, sweep expired pools and recompute; a sweep awaits *)
(* the removal of each listener, so polls, and on a slow node the next     *)
(* sweep, run in between.  Left out: the signature cache's limit of 2048,  *)
(* the poll's limit of 200 rows, what the scores are, and shutdown.        *)
(***************************************************************************)
EXTENDS MigrationWatcher

CONSTANTS
    Pool,       \* the pools that migrate
    Signature,  \* swaps
    Sweep,      \* sweepExpired calls that may overlap
    Window,     \* watchWindowMs
    MaxListeners \* bound: subscriptions of one pool

ASSUME LeaderConstants ==
    PoolOf \in [Transaction -> Pool] /\ Window \in Nat \ {0} /\ MaxListeners \in Nat

VARIABLES
    active,     \* activePools: which of the pool's subscriptions, 0 for none
    until,      \* expiresAt, per pool and subscription
    made,       \* subscriptions made for each pool
    listeners,  \* those the node still calls
    lastMigrationTs,
    sweeping,   \* per sweep: its clock (0: none), entries to look at, entry awaited
    remembered, \* signatureSet
    fetching,   \* handlers awaiting a transaction
    hitWrites,  \* the write queue: hits, and recomputations
    hits,       \* the table leader_hits
    scored,     \* history: the hits the scores have seen
    scoreDirty,
    polls,      \* history: rows of the table at each poll
    scoresDropped, \* history: a recomputation fell out of the write queue
    overlapped, \* history: two sweeps at once
    lateExtended \* history: extended while its listener was being removed

poolVars == <<active, until, made, listeners, lastMigrationTs, polls>>
hitVars == <<remembered, fetching, hitWrites, hits, scored, scoreDirty,
             scoresDropped>>
leaderVars == <<poolVars, hitVars, sweeping, overlapped, lateExtended>>
launchVars == <<watcherVars, leaderVars>>

Subscription == Pool \X (1..MaxListeners)
Scores == "scores"
NoSweep == [now |-> 0, left |-> {}, awaits |-> {}]

LaunchInit ==
    /\ WatcherInit
    /\ active = [p \in Pool |-> 0]
    /\ until = [s \in Subscription |-> 0]
    /\ made = [p \in Pool |-> 0]
    /\ listeners = {} /\ lastMigrationTs = 0
    /\ sweeping = [w \in Sweep |-> NoSweep]
    /\ remembered = {} /\ fetching = {} /\ hitWrites = <<>> /\ hits = {}
    /\ scored = {} /\ scoreDirty = TRUE /\ scoresDropped = FALSE
    /\ polls = <<>> /\ overlapped = FALSE /\ lateExtended = {}

-----------------------------------------------------------------------------
(* Polls and sweeps *)

MaxOf(S) == CHOOSE x \in S : \A y \in S : y <= x

BeingRemoved == UNION {sweeping[w].awaits : w \in Sweep}

\* Bug: the entry that is there is not looked up.
Ensure_Resubscribes(rows) ==
    LET New == {r.pool : r \in rows}
    IN  /\ \A p \in New : made[p] < MaxListeners
        /\ made' = [p \in Pool |-> made[p] + IF p \in New THEN 1 ELSE 0]
        /\ active' = [p \in Pool |-> IF p \in New THEN made'[p] ELSE active[p]]
        /\ until' = [s \in Subscription |->
             IF s[1] \in New /\ s[2] = made'[s[1]]
             THEN MaxOf({r.ts + Window : r \in {q \in rows : q.pool = s[1]}})
             ELSE until[s]]
        /\ listeners' = listeners \union {<<p, made'[p]>> : p \in New}
        /\ UNCHANGED lateExtended

\* ensurePoolSubscription for each row, oldest first: a pool with an entry is
\* extended, one without gets a listener.
Ensure(rows) ==
    LET New == {r.pool : r \in rows} \ {p \in Pool : active[p] > 0}
        Entry(p) == IF p \in New THEN <<p, made[p] + 1>> ELSE <<p, active[p]>>
        Times(p) == {r.ts + Window : r \in {q \in rows : q.pool = p}}
        Touched == {Entry(r.pool) : r \in rows}
    IN  /\ \A p \in New : made[p] < MaxListeners
        /\ made' = [p \in Pool |-> made[p] + IF p \in New THEN 1 ELSE 0]
        /\ active' = [p \in Pool |-> IF p \in New THEN made'[p] ELSE active[p]]
        /\ until' = [s \in Subscription |->
                        IF s \in Touched THEN MaxOf({until[s]} \union Times(s[1]))
                        ELSE until[s]]
        /\ listeners' = listeners \union {Entry(p) : p \in New}
        /\ lateExtended' = lateExtended \union (Touched \cap BeingRemoved)

\* The rows a poll acts on.  The first one looks back one window; later ones
\* take the rows above lastMigrationTs.
Fresh ==
    {r \in {migrations[i] : i \in DOMAIN migrations} :
        IF lastMigrationTs = 0 THEN r.ts + Window >= clock
        ELSE r.ts > lastMigrationTs}

\* Bug: the time of the poll instead of the newest row's.
Mark_Now(rows) == clock

\* lastMigrationTs after a poll
Mark(rows) == MaxOf({lastMigrationTs} \union {r.ts : r \in rows})

PollMigrations ==
    /\ migrations # <<>>
    /\ Len(migrations) > (IF polls = <<>> THEN 0 ELSE polls[Len(polls)])
    /\ Ensure(Fresh)
    /\ lastMigrationTs' = Mark({migrations[i] : i \in DOMAIN migrations})
    /\ polls' = Append(polls, Len(migrations))
    /\ UNCHANGED <<hitVars, sweeping, overlapped>>

BeginSweep(w) ==
    /\ sweeping[w] = NoSweep
    /\ \E p \in Pool : active[p] > 0 /\ until[<<p, active[p]>>] <= clock
    /\ sweeping' = [sweeping EXCEPT ![w] =
            [now |-> clock, awaits |-> {},
             left |-> {<<p, active[p]>> : p \in {q \in Pool : active[q] > 0}}]]
    /\ overlapped' = (overlapped \/ \E v \in Sweep \ {w} : sweeping[v] # NoSweep)
    /\ UNCHANGED <<poolVars, hitVars, lateExtended>>

\* The next expired entry: removeOnLogsListener, and its await.
SweepEntry(w, e) ==
    /\ sweeping[w].now > 0 /\ sweeping[w].awaits = {}
    /\ e \in sweeping[w].left /\ until[e] <= sweeping[w].now
    /\ sweeping' = [sweeping EXCEPT ![w].left = @ \ {e}, ![w].awaits = {e}]
    /\ listeners' = listeners \ {e}
    /\ UNCHANGED <<active, until, made, lastMigrationTs, polls, hitVars,
                   overlapped, lateExtended>>

\* The removal is through, or failed: the pool's entry goes, whichever it is now.
SweepDeletes(w, e) ==
    /\ sweeping[w].awaits = {e}
    /\ sweeping' = [sweeping EXCEPT ![w].awaits = {}]
    /\ active' = [active EXCEPT ![e[1]] = 0]
    /\ UNCHANGED <<until, made, listeners, lastMigrationTs, polls, hitVars,
                   overlapped, lateExtended>>

SweepEnds(w) ==
    /\ sweeping[w].now > 0 /\ sweeping[w].awaits = {}
    /\ \A e \in sweeping[w].left : until[e] > sweeping[w].now
    /\ sweeping' = [sweeping EXCEPT ![w] = NoSweep]
    /\ UNCHANGED <<poolVars, hitVars, overlapped, lateExtended>>

-----------------------------------------------------------------------------
(* Hits and scores *)

\* The log handler up to its await: rememberSignature is for all pools.
SwapSeen(x, s) ==
    /\ s \in listeners /\ x \notin remembered
    /\ remembered' = remembered \union {x}
    /\ fetching' = fetching \union {x}
    /\ UNCHANGED <<hitWrites, hits, scored, scoreDirty, scoresDropped, poolVars,
                   sweeping, overlapped, lateExtended>>

Push(task) ==
    /\ hitWrites' = Pushed(hitWrites, task)
    /\ scoresDropped' =
        (scoresDropped \/ (Len(hitWrites) = MaxQueueSize /\ Head(hitWrites) = Scores))

SwapFetched(x) ==
    /\ x \in fetching
    /\ fetching' = fetching \ {x}
    /\ Push(x)
    /\ UNCHANGED <<remembered, hits, scored, scoreDirty, poolVars, sweeping,
                   overlapped, lateExtended>>

\* No transaction, no wallet in it, or an error: the hit is lost.
SwapMissing(x) ==
    /\ x \in fetching
    /\ fetching' = fetching \ {x}
    /\ UNCHANGED <<remembered, hitWrites, hits, scored, scoreDirty,
                   scoresDropped, poolVars, sweeping, overlapped, lateExtended>>

\* insertLeaderHit: a row with the pool, the wallet and the time of the swap.
InsertLeaderHit(x) == hits' = hits \union {x}

\* Bug: a stored hit leaves the flag alone.
InsertHit_LeavesClean(x) ==
    /\ InsertLeaderHit(x)
    /\ UNCHANGED <<scored, scoreDirty>>

InsertHit(x) ==
    /\ InsertLeaderHit(x)
    /\ scoreDirty' = TRUE
    /\ UNCHANGED scored

\* recomputeLeaderScoresInternal, or its error.
Recompute ==
    /\ \/ scored' = hits /\ UNCHANGED scoreDirty
       \/ scoreDirty' = TRUE /\ UNCHANGED scored
    /\ UNCHANGED hits

RunHitTask ==
    /\ hitWrites # <<>>
    /\ hitWrites' = Tail(hitWrites)
    /\ IF Head(hitWrites) = Scores THEN Recompute ELSE InsertHit(Head(hitWrites))
    /\ UNCHANGED <<remembered, fetching, scoresDropped, poolVars, sweeping,
                   overlapped, lateExtended>>

RefreshScoresIfDirty ==
    /\ scoreDirty
    /\ scoreDirty' = FALSE
    /\ Push(Scores)
    /\ UNCHANGED <<remembered, fetching, hits, scored, poolVars, sweeping,
                   overlapped, lateExtended>>

LeaderNext ==
    \/ PollMigrations \/ RunHitTask \/ RefreshScoresIfDirty
    \/ \E w \in Sweep :
        \/ BeginSweep(w) \/ SweepEnds(w)
        \/ \E e \in Subscription : SweepEntry(w, e) \/ SweepDeletes(w, e)
    \/ \E x \in Signature :
        \/ \E s \in Subscription : SwapSeen(x, s)
        \/ SwapFetched(x) \/ SwapMissing(x)

LaunchNext ==
    \/ WatcherNext /\ UNCHANGED leaderVars
    \/ LeaderNext /\ UNCHANGED watcherVars

LaunchSpec == LaunchInit /\ [][LaunchNext]_launchVars
-----------------------------------------------------------------------------
(* Properties *)

\* A migration is missed only because of its time: every row a poll has passed
\* had its pool watched for the whole window, unless a row polled earlier has
\* a later or the same block time (rows come in the order of their fetches,
\* not of their blocks), or it was the first poll and the row older than the
\* window.
OnlyLateMigrationsAreMissed ==
    \A k \in DOMAIN polls :
        LET Before == IF k = 1 THEN 0 ELSE polls[k - 1] IN
        \A i \in (Before + 1)..polls[k] :
            \/ \E n \in 1..made[migrations[i].pool] :
                until[<<migrations[i].pool, n>>] >= migrations[i].ts + Window
            \/ \E j \in 1..Before : migrations[j].ts >= migrations[i].ts
            \/ k = 1 /\ migrations[i].ts + Window < clock

\* The map and the node's listeners agree: a listener nobody would remove is
\* left only by overlapping sweeps (one deletes the entry that replaced the
\* one it swept), and a pool that is due is without one only when its time
\* was extended while the sweep was removing it.
WatchesWhatIsDue ==
    /\ overlapped \/ \A s \in listeners : active[s[1]] = s[2]
    /\ \A p \in Pool : LET s == <<p, made[p]>> IN
        (made[p] > 0 /\ until[s] > clock) => s \in listeners \/ s \in lateExtended

\* Scores lag behind the hits only while a recomputation is due or queued, or
\* when the full write queue dropped it: clearing the flag before the work is
\* done loses nothing, whatever fails and however hits and timers interleave.
ScoresFollowHits ==
    \/ hits \subseteq scored \/ scoreDirty \/ scoresDropped
    \/ \E i \in DOMAIN hitWrites : hitWrites[i] = Scores

\* A pool that leader wallets are watched on is subscribed to as long as its window
\* says, and their hits and scores are those of the swaps that were heard, whatever
\* the sweeps, the polls and the write queue do meanwhile.
LeadersAreFollowed == WatchesWhatIsDue /\ ScoresFollowHits
=============================================================================
