--------------------------- MODULE RewardMatching ---------------------------
(***************************************************************************)
(* The learning loop of the policy engine.  Every plan it emits leaves a   *)
(* pending selection in PendingSelectionQueue; a 2 s timer reads the rows  *)
(* the executor (another process) wrote to exec_outcomes and gives each    *)
(* row's reward to a pending selection, found by order id or else by mint; *)
(* selections that wait too long are given the failure reward.             *)
(*                                                                         *)
(* A poll is one synchronous turn of the event loop.  It is modelled row   *)
(* by row: the engine takes no other step while a batch is being worked    *)
(* through, the executor's process may.                                    *)
(***************************************************************************)
EXTENDS Naturals, FiniteSets

CONSTANTS
    Order,          \* clientOrderIds of the plans the engine emits (randomUUID)
    ForeignOrder,   \* clientOrderIds of position-manager exits
    Mint,
    MintOf,         \* the mint each order trades
    PendingTimeout, \* PENDING_TIMEOUT_MS
    MatchJitter,    \* mintMatchJitterMs
    PollLimit,      \* LIMIT of getExecOutcomesSince
    OrderIdMatching,\* features.orderIdRewardMatching
    MaxTime,        \* bound: the clock stops here
    MaxRow,         \* bound: rows the executor writes
    MaxRestart      \* bound: times the engine stops and starts again

ASSUME ConstantsAssumption ==
    /\ IsFiniteSet(Order)
    /\ Order \cap ForeignOrder = {}
    /\ MintOf \in [Order \cup ForeignOrder -> Mint]
    /\ PendingTimeout \in Nat \ {0} /\ MatchJitter \in Nat /\ PollLimit \in Nat \ {0}
    /\ OrderIdMatching \in BOOLEAN
    /\ MaxTime \in Nat /\ MaxRow \in Nat /\ MaxRestart \in Nat

VARIABLES
    now,        \* Date.now(), one clock for both processes
    byId,       \* PendingSelectionQueue.byId: the orders in the map
    byMint,     \* PendingSelectionQueue.byMint: the orders in each mint's array
    createdAt,  \* createdAt of each order's entry
    arrival,    \* position in which an order was pushed, 0 before; see below
    outcomes,   \* the exec_outcomes table
    polling,    \* where pollExecOutcomes is: "idle", "rows" or "prune"
    batch,      \* rows the poll has read and not yet worked through
    lastTs,     \* lastExecOutcomeTs
    startTs,    \* history: lastExecOutcomeTs when this process started
    read,       \* history: rows any poll has worked through
    rewards,    \* history: bandit updates, [order, by]: by is a row id or Timeout
    forgotten,  \* history: selections lost when the engine stopped
    restarts

vars == <<now, byId, byMint, createdAt, arrival, outcomes, polling, batch,
          lastTs, startTs, read, rewards, forgotten, restarts>>
queueVars == <<byId, byMint, createdAt, arrival>>
pollVars == <<polling, batch, lastTs, startTs, read>>

(***************************************************************************)
(* A byMint array is changed by push, filter and splice only, so it is     *)
(* always its elements in the order they were pushed: it is modelled as a  *)
(* set of orders, ordered by arrival.                                      *)
(***************************************************************************)
RowId == 1..MaxRow
Timeout == 0
AnyOrder == Order \cup ForeignOrder
Outcome == [id : RowId, order : AnyOrder, ts : 0..MaxTime]
Reward == [order : Order, by : RowId \cup {Timeout}]

Issued == {o \in Order : arrival[o] # 0}

TypeOK ==
    /\ now \in 0..MaxTime
    /\ byId \in SUBSET Order
    /\ byMint \in [Mint -> SUBSET Order]
    /\ createdAt \in [Order -> 0..MaxTime]
    /\ arrival \in [Order -> Nat]
    /\ outcomes \in SUBSET Outcome
    /\ polling \in {"idle", "rows", "prune"}
    /\ batch \in SUBSET Outcome
    /\ lastTs \in 0..MaxTime
    /\ startTs \in 0..MaxTime
    /\ read \in SUBSET Outcome
    /\ rewards \in SUBSET Reward
    /\ forgotten \in SUBSET Order
    /\ restarts \in 0..MaxRestart

Init ==
    /\ now = 0
    /\ byId = {}
    /\ byMint = [m \in Mint |-> {}]
    /\ createdAt = [o \in Order |-> 0]
    /\ arrival = [o \in Order |-> 0]
    /\ outcomes = {}
    /\ polling = "idle"
    /\ batch = {}
    /\ lastTs = 0
    /\ startTs = 0
    /\ read = {}
    /\ rewards = {}
    /\ forgotten = {}
    /\ restarts = 0

-----------------------------------------------------------------------------
(* PendingSelectionQueue *)

\* Mutant of Remove: the map entry goes, the array entry stays.
Remove_MapOnly(S) ==
    /\ byId' = byId \ S
    /\ UNCHANGED <<byMint, createdAt, arrival>>

Remove(S) ==
    /\ byId' = byId \ S
    /\ byMint' = [m \in Mint |-> byMint[m] \ S]
    /\ UNCHANGED <<createdAt, arrival>>

\* The first element of the array that satisfies the search, if any does.
FirstOf(S, o) == o \in S /\ \A p \in S : arrival[o] <= arrival[p]

\* Mutant of ShiftChoice: the search skips entries much older than the row.
ShiftChoice_Nearest(m, ts, o) ==
    LET near == {p \in byMint[m] : createdAt[p] + MatchJitter >= ts}
    IN  FirstOf(IF near = {} THEN byMint[m] ELSE near, o)

\* Mutant of ShiftChoice: the arrays are not kept per mint.
ShiftChoice_AnyMint(m, ts, o) == FirstOf(UNION {byMint[n] : n \in Mint}, o)

\* The entry shiftByMint takes: the first created before the deadline, or the
\* first of all when none was.
ShiftChoice(m, ts, o) ==
    LET early == {p \in byMint[m] : createdAt[p] <= ts + MatchJitter}
    IN  FirstOf(IF early = {} THEN byMint[m] ELSE early, o)

\* Mutant of Expired: age is measured to the last row that was read.
Expired_SinceLastRow(t) == {o \in byId : createdAt[o] + PendingTimeout <= lastTs}

Expired(t) == {o \in byId : createdAt[o] + PendingTimeout <= t}

TimeoutRewards(S) == [order : S, by : {Timeout}]

-----------------------------------------------------------------------------
(* The policy engine *)

\* The end of the candidate handler: the selection is queued, then the plan is
\* emitted.  No plan is emitted so late that the bounded clock could not reach
\* its timeout.
Enqueue(o) ==
    /\ polling = "idle"
    /\ o \notin Issued
    /\ now + PendingTimeout <= MaxTime
    /\ byId' = byId \cup {o}
    /\ byMint' = [byMint EXCEPT ![MintOf[o]] = @ \cup {o}]
    /\ createdAt' = [createdAt EXCEPT ![o] = now]
    /\ arrival' = [arrival EXCEPT ![o] = Cardinality(Issued) + 1]
    /\ UNCHANGED <<now, outcomes, pollVars, rewards, forgotten, restarts>>

\* Mutant of Unread: rows as old as the last one are read again.
Unread_Inclusive == {r \in outcomes : r.ts >= lastTs}

Unread == {r \in outcomes : r.ts > lastTs}

\* pollExecOutcomes reads the oldest PollLimit rows newer than lastTs.
PollStart ==
    /\ polling = "idle"
    /\ Unread # {}
    /\ \E B \in SUBSET Unread :
          /\ Cardinality(B) = IF Cardinality(Unread) < PollLimit
                              THEN Cardinality(Unread) ELSE PollLimit
          /\ \A r \in B, s \in Unread \ B : r.ts <= s.ts
          /\ batch' = B
    /\ polling' = "rows"
    /\ UNCHANGED <<now, queueVars, outcomes, lastTs, startTs, read, rewards,
                   forgotten, restarts>>

\* The row's own selection, when it is pending and matching is by order id.
OwnSelection(r, o) == OrderIdMatching /\ o = r.order /\ o \in byId

\* Mutant of FallbackSelection: the mint is tried although the id would match.
FallbackSelection_Always(r, o) == ShiftChoice(MintOf[r.order], r.ts, o)

\* The selection of the row's mint that is taken when its own is not there.
FallbackSelection(r, o) ==
    /\ ~ (OrderIdMatching /\ r.order \in byId)
    /\ ShiftChoice(MintOf[r.order], r.ts, o)

Matched(r, o) == OwnSelection(r, o) \/ FallbackSelection(r, o)

NextRow(r) == r \in batch /\ \A s \in batch : r.ts <= s.ts

\* Mutant of TakeRow: the cursor moves to the current time, not the row's.
TakeRow_CursorToNow(r) ==
    /\ polling = "rows"
    /\ NextRow(r)
    /\ batch' = batch \ {r}
    /\ lastTs' = now
    /\ read' = read \cup {r}
    /\ polling' = IF batch = {r} THEN "prune" ELSE "rows"
    /\ UNCHANGED <<now, outcomes, startTs, forgotten, restarts>>

\* Mutant of TakeRow: the cursor is moved past the row to stay clear of it.
TakeRow_CursorPastRow(r) ==
    /\ polling = "rows"
    /\ NextRow(r)
    /\ batch' = batch \ {r}
    /\ lastTs' = IF r.ts > lastTs THEN r.ts + 1 ELSE lastTs
    /\ read' = read \cup {r}
    /\ polling' = IF batch = {r} THEN "prune" ELSE "rows"
    /\ UNCHANGED <<now, outcomes, startTs, forgotten, restarts>>

TakeRow(r) ==
    /\ polling = "rows"
    /\ NextRow(r)
    /\ batch' = batch \ {r}
    /\ lastTs' = IF r.ts > lastTs THEN r.ts ELSE lastTs
    /\ read' = read \cup {r}
    /\ polling' = IF batch = {r} THEN "prune" ELSE "rows"
    /\ UNCHANGED <<now, outcomes, startTs, forgotten, restarts>>

\* Mutant of PollMatch: the selection is looked up, not taken.
PollMatch_Kept(r, o) ==
    /\ TakeRow(r)
    /\ Matched(r, o)
    /\ UNCHANGED queueVars
    /\ rewards' = rewards \cup {[order |-> o, by |-> r.id]}

\* One iteration of the loop that finds a selection and rewards it.
PollMatch(r, o) ==
    /\ TakeRow(r)
    /\ Matched(r, o)
    /\ Remove({o})
    /\ rewards' = rewards \cup {[order |-> o, by |-> r.id]}

\* One iteration that finds no pending selection for the row.
PollMiss(r) ==
    /\ TakeRow(r)
    /\ ~ \E o \in Order : Matched(r, o)
    /\ UNCHANGED <<queueVars, rewards>>

\* Mutant of PruneExpired: expired selections are rewarded, not removed.
PruneExpired_Kept ==
    /\ UNCHANGED queueVars
    /\ rewards' = rewards \cup TimeoutRewards(Expired(now))

PruneExpired ==
    /\ Remove(Expired(now))
    /\ rewards' = rewards \cup TimeoutRewards(Expired(now))

\* The prune that ends a poll which read rows.
PollEnd ==
    /\ polling = "prune"
    /\ PruneExpired
    /\ polling' = "idle"
    /\ UNCHANGED <<now, outcomes, batch, lastTs, startTs, read, forgotten, restarts>>

\* The sweep timer; a sweep that finds nothing expired changes nothing.
Sweep ==
    /\ polling = "idle"
    /\ Expired(now) # {}
    /\ PruneExpired
    /\ UNCHANGED <<now, outcomes, pollVars, forgotten, restarts>>

\* The process ends and a new one starts: the queue is gone and the new
\* process reads only rows younger than its own start.
Restart(rewarded) ==
    /\ restarts < MaxRestart
    /\ restarts' = restarts + 1
    /\ rewards' = rewards \cup TimeoutRewards(rewarded)
    /\ forgotten' = forgotten \cup (byId \ rewarded)
    /\ byId' = {}
    /\ byMint' = [m \in Mint |-> {}]
    /\ polling' = "idle"
    /\ batch' = {}
    /\ lastTs' = now
    /\ startTs' = now
    /\ UNCHANGED <<now, createdAt, arrival, outcomes, read>>

Crash == Restart({})

\* SIGTERM is handled between turns; shutdown prunes once and exits.
Shutdown == polling = "idle" /\ Restart(Expired(now))

-----------------------------------------------------------------------------
(* The executor's process and the clock *)

\* executePlan writes a row when a transaction was confirmed; an execution whose
\* later bookkeeping fails is retried and writes another, and one that is given
\* up writes none (see OrderExecution).  The timestamp is taken before the write
\* and never goes back from one row to the next.  The order is a plan this engine
\* emitted or an exit of the position manager.
WriteOutcome(x, ts) ==
    /\ Cardinality(outcomes) < MaxRow
    /\ \A r \in outcomes : r.ts <= ts
    /\ ts <= now
    /\ x \in Order => x \in Issued /\ createdAt[x] <= ts
    /\ outcomes' = outcomes \cup {[id |-> Cardinality(outcomes) + 1, order |-> x, ts |-> ts]}
    /\ UNCHANGED <<now, queueVars, pollVars, rewards, forgotten, restarts>>

Tick ==
    /\ now < MaxTime
    /\ now' = now + 1
    /\ UNCHANGED <<queueVars, outcomes, pollVars, rewards, forgotten, restarts>>

PolicyEngine ==
    \/ \E o \in Order : Enqueue(o)
    \/ PollStart
    \/ \E r \in batch : \/ PollMiss(r)
                        \/ \E o \in Order : PollMatch(r, o)
    \/ PollEnd
    \/ Sweep
    \/ Crash
    \/ Shutdown

Next ==
    \/ PolicyEngine
    \/ \E x \in AnyOrder, ts \in 0..MaxTime : WriteOutcome(x, ts)
    \/ Tick

\* The timers keep firing, a turn once begun is finished, and time passes.
Fairness ==
    /\ WF_vars(PollStart)
    /\ WF_vars(\E r \in batch : PollMiss(r) \/ \E o \in Order : PollMatch(r, o))
    /\ WF_vars(PollEnd)
    /\ WF_vars(Sweep)
    /\ WF_vars(Tick)

Spec == Init /\ [][Next]_vars
FairSpec == Spec /\ Fairness
-----------------------------------------------------------------------------
(* Safety *)

\* The two indexes of PendingSelectionQueue hold the same selections, each
\* in the array of its own mint: takeById, shiftByMint and prune each update
\* one index through the other.
IndexesAgree ==
    \A m \in Mint : byMint[m] = {o \in byId : MintOf[o] = m}

\* Every selection the engine acted on is in exactly one place: still pending,
\* rewarded once, or lost with a stopped process.  A poll, the prune that ends
\* it, the sweep timer and a shutdown compete for it.
Settled == {w.order : w \in rewards}
RewardedOnce ==
    /\ \A v, w \in rewards : v.order = w.order => v = w
    /\ Issued = byId \cup Settled \cup forgotten
    /\ byId \cap (Settled \cup forgotten) = {}
    /\ Settled \cap forgotten = {}

\* A row rewards at most one selection, however many polls and restarts come
\* after it: lastExecOutcomeTs keeps it from being read again.
RowUsedOnce ==
    \A v, w \in rewards : v.by = w.by /\ v.by # Timeout => v = w

\* Polling "ts > lastTs" can pass over a row for two reasons only: it was as old
\* as the process, or it has the timestamp of a row that was read.
OnlyTiesAreSkipped ==
    \A r \in outcomes \ (read \cup batch) :
        r.ts <= lastTs => r.ts <= startTs \/ \E s \in read : s.ts = r.ts

\* shiftByMint always takes the head of the array: entries are pushed in
\* creation order, so the first that meets the deadline, if one does, is the
\* first of all, and the jitter never changes the choice.
ShiftIsFifo ==
    \A m \in Mint, o \in Order, ts \in 0..MaxTime :
        ShiftChoice(m, ts, o) => FirstOf(byMint[m], o)

\* With matching by order id, a row rewards a selection that is not its own
\* only when its own is no longer there to be rewarded: it was an exit's row,
\* or the selection had been rewarded already or was lost in a restart.
RowOfOrder(w) == CHOOSE r \in read : r.id = w.by
MisattributedOnlyWhenAbsent ==
    OrderIdMatching =>
        \A w \in {v \in rewards : v.by # Timeout} :
            LET x == RowOfOrder(w).order
            IN  \/ x = w.order
                \/ x \in ForeignOrder
                \/ x \in Settled \cup forgotten

\* Whatever the mode, a selection is rewarded by a row of its own mint.
RewardedBySameMint ==
    \A w \in {v \in rewards : v.by # Timeout} : MintOf[RowOfOrder(w).order] = MintOf[w.order]

-----------------------------------------------------------------------------
(* Liveness *)

\* The two timers leave no selection waiting for ever.
EverySelectionSettles ==
    \A o \in Order : (o \in byId) ~> (o \notin byId)

-----------------------------------------------------------------------------
(* Refinement *)

Ledger == INSTANCE RewardLedger WITH
    Row <- RowId,
    open <- byId,
    settled <- Settled,
    lost <- forgotten,
    used <- {w.by : w \in rewards} \ {Timeout}

\* The queue, its polls and its sweeps implement the ledger.
RefinesLedger == Ledger!Spec

=============================================================================
