# Trenches: a TLA+ verification project

Trenches is a trading system for new Solana tokens: a dozen Node.js services
that pass events to each other over server-sent events (SSE) and HTTP and share
one SQLite database. This directory holds TLA+ models of its core logic, the TLC
configurations that check them and TLAPS proofs about them. Paths are relative to
the repository (`src/` in `PROJECT.json`).

## The system

```
social-ingestor -> narrative-miner
                                            alpha-ranker   leader-wallets
                                                  \           /
migration-watcher -> onchain-discovery -> safety-engine -> policy-engine
                                                               | /events/plans
                                                               v
         position-manager  <----- /events/trades -----   executor -> Solana, Jito
                |                                              ^
                +------------------ POST /execute -------------+
agent-core: kill, pause, resume, mode, flatten, snapshot     (all: SQLite)
rpc-monitor, price-updater, features-job: timers that write rows
ui-gateway: polls agent-core and the metrics of the services
```

| Component | State | Operations | What is hard | What makes it correct |
|---|---|---|---|---|
| **executor** (`services/executor`) | an execution per plan (attempt, quote, statistics window); rows in `orders`, `fills`, `exec_outcomes`, `events`, `route_stats` | `executePlan` from the plan stream or `POST /execute`, `sendAndConfirm`, `recordRouteAttempt` | the chain decides what the executor can only ask about: lost answers, retries with new transactions, Jito fallback; several writes without a transaction; concurrent executions; crashes | a landed trade is recorded once and announced after that; no retry on a clear answer; status tells fills; quarantine counts are exact; every execution ends |
| **policy-engine, reward loop** (`services/policy-engine`) | `PendingSelectionQueue` (two indexes), `lastExecOutcomeTs` | enqueue, poll, match by id or mint, sweep, shutdown | rows written by another process, equal timestamps, a timeout racing its row, restart | a selection is settled once, a row is used once, indexes agree, nothing waits for ever |
| **policy-engine, admission** | wallet snapshot, alpha scores, spend and position limits, bandit | the candidate handler: gate, sizing, caps, plan | concurrent handlers pass the same limit between awaits; stale snapshot and scores; rounding and boosts behind a cap | caps hold as seen; size within the caps; ranked among fresh scores |
| **position-manager** (`services/position-manager`) | positions by mint, `pendingCache`, `positions` table | fill handler, 7 s price sweep, `triggerExit`, flatten, hydrate | overlapping sweeps, check-await-set in `triggerExit`, fills during awaits, 10 s TTL, restart | one exit per reason at a time, holdings follow the fills |
| **safety-engine** | evaluation cache, candidates table | evaluate, emit safe/blocked | overlapping evaluations, chain lookups that fail half way | what is served as safe was verified, and is so of the chain |
| **onchain-discovery** | log subscription, `pendingPoolAttempts`, `lastEmitted` | pool init with retries, debounce, restart of the subscription | overlapping restarts, retries of several handlers of one pool | bounded attempts, one candidate per debounce, no subscription lost sight of |
| **migration-watcher** | TTL of signatures, shared queue, `migration_events` | log callback, stream clients | duplicate callbacks across an await, clients sharing one queue | each migration has a row; which are missed is known |
| **leader-wallets** | pool subscriptions, hit queue, scores | poll, subscribe, expire, score | sweeps that await removals while polls extend them | a pool is watched as long as its window says; scores follow hits |
| **narrative-miner** | phrase statistics, baseline, topic clusters with three copies, watch windows, matcher | observe, cluster, match, flush, restart | counters against pruned arrays, copies of one fact, posts out of order | counts match the window, copies and rows agree, every search ends |
| **alpha-ranker** | score buffer, LunarCrush state, model file | score, stream, handshake, reload | clients that share a buffer, a file that changes while it is read | the newest score wins; the newest model is used |
| **social-ingestor** | seen ids, cursor and cursor file, statuses | poll, socket messages, start and stop | overlapping polls, file writes in any order, crash between | posts arrive, and arrive once |
| **agent-core** | mode flags, provider health cache | kill, pause, resume, flatten, snapshot, shutdown | handlers overlapping a shutdown; answers cached while others are on the way | flags mean what was asked; health is as old as it says |
| **rpc-monitor, price-updater, features-job** | sample window, last price, author rows | a timer each | runs that overlap themselves | what is stored is what was seen last |
| **packages/persistence** | schema, write queue, parquet writers | `getDb`, `push`, `append` | several processes migrate one file; a write that fails in a chain of promises | every process finds the whole schema; rows are exported |
| **packages/util, config** | SSE client and queue, TTL cache, token bucket, one shared configuration | connect, dispose, push, fetch, load | disposal during an await, events lost between connections, concurrent callers of a bucket, three layers of values | order kept, always resubscribed, rate kept, the configuration given is the one in effect |
| **ui-gateway** | previous counter values | poll | overlapping polls, counters that restart | rates add up to the counts |

Every service is a single-threaded event loop: code between two `await`s runs
undisturbed, so the models interleave at awaits and at process boundaries only.
The hazards this gives are listed, each at its line, in `PROJECT.json`.

## The modules

| Module | Models | Role |
|---|---|---|
| `OrderExecution` | `executor/src/index.ts` (`executePlan` and its callers), `sender.ts`, `routeQuarantine.ts` | detailed specification |
| `OrderLifecycle` | what the executor promises about an order | abstract specification, refined by `OrderExecution` |
| `OrderExecutionProofs` | | inductive invariant, theorems, refinement proof |
| `RewardMatching` | `policy-engine/src/pendingSelections.ts` and the poll, sweep, shutdown in `index.ts` | detailed specification |
| `RewardLedger` | what the reward loop promises | abstract specification, refined by `RewardMatching` |
| `RewardMatchingProofs` | | inductive invariant, theorems |
| `PositionManager` | `position-manager/src/index.ts`, `mint.ts` | detailed specification |
| `PositionManagerProofs` | | inductive invariant, theorems |
| `EventStream` | `util/src/sseClient.ts`, the SSE routes and their queues | one subscription, both ends |
| `MigrationWatcher`, `LeaderWallets` | `migration-watcher`, `leader-wallets`, `persistence/src/writeQueue.ts` | composed: the second polls the table of the first |
| `PoolDiscovery` | `onchain-discovery` (`rpcRaydium.ts`; `index.ts`, `candidateBuilder.ts`) | the watcher and the handlers that hear what its listeners bring |
| `SafetyEngine` | `safety-engine` (`index.ts`; `tokenSafety.ts`, `lpSafety.ts`, `holderSafety.ts`, `rugguard.ts`) | overlapping evaluations; one evaluation in full |
| `PolicyAdmission`, `AlphaGate`, `OrderSizing` | the candidate handler in `policy-engine/src/index.ts`, `wallet.ts`, `sizing.ts`, `sizing_constrained.ts`, `leader.ts` | handlers and caps; the gate; the size of one order |
| `FeeTerms` | `slippage.ts`, `tip.ts`, `executor/src/fee-bandit.ts`, `migrationPreset.ts` | the terms of each attempt |
| `WatchWindows`, `TopicClusters`, `PhraseMatcher`, `LunarOverlay` | `narrative-miner` | windows and phrase statistics, then a module per stateful class |
| `ParquetExport` | `persistence/src/parquet.ts` as the miner uses it | |
| `AlphaScores`, `LunarStream`, `ModelFiles` | `alpha-ranker`, the policy engine's `alphaClient.ts`, the model files of four services | |
| `SocialPolling`, `SocialFirehose`, `SocialSources` | `social-ingestor` | reddit, neynar, gdelt; bluesky; telegram and the start and end of all |
| `ProviderCache` | `tokenBucket.ts`, `ttlCache.ts`, `cacheClient.ts` | |
| `AgentCore` | `agent-core/src/index.ts` | what it shows; what it is told |
| `RpcMonitor`, `PriceUpdater`, `FeaturesJob` | the three timer jobs | |
| `SchemaBootstrap` | `getDb` in `persistence/src/sqlite.ts` | several processes on one file |
| `ConfigLoading` | `config/src/index.ts`, `deepMerge.ts` | |
| `DashboardFeed` | the counters in `ui-gateway` | |
| `StreamProofs` | `EventStream`, `AlphaScores`, `LunarStream`, `LunarOverlay` | invariants, theorems |
| `LeaderWalletsProofs` | `MigrationWatcher`, `LeaderWallets` | invariants, theorems |
| `IntakeProofs` | `PhraseMatcher`, `TopicClusters`, `PoolDiscovery`, `SocialPolling`, `SocialFirehose`, `SocialSources` | invariants, theorems |
| `AdmissionProofs` | `SafetyEngine`, `PolicyAdmission`, `AlphaGate`, `OrderSizing`, `FeeTerms` | invariants, theorems |
| `ServiceProofs` | `ProviderCache`, `AgentCore`, `DashboardFeed`, `WatchWindows`, `RpcMonitor`, `PriceUpdater`, `FeaturesJob`, `ParquetExport`, `ModelFiles`, `SchemaBootstrap`, `ConfigLoading` | invariants, theorems |
| `MCOrderExecution`, `MCRewardMatching`, `MCPositionManager`, `MCServices`, `MCPhraseMatcher` | | instances for TLC |

Each module begins with what it leaves out. What follows is how state and actions
correspond to the code where that is not plain from the module.

### OrderExecution

`pc[o]` is the place in `executePlan` where the execution of order `o` is
suspended (`Waiting`: quote, build, bundle, bundleConfirm, send, confirm, meta)
or which synchronous write it does next (`Running`: outcome, order, route,
caught, giveUp). `Resume` keeps other executions from moving while one is between
two awaits; its writes are still separate steps because the process can die, or a
write can throw, between them. `chain[t]` is what became of the transaction of an
attempt; the executor never reads it except through the answers it is given.

| Action | Code |
|---|---|
| `Skip`, `Accept`, `AcceptFault` | the plan handler's guards; the PENDING row; reading `route_stats`, the quarantine check and the amount checks |
| `Quote`, `ShadowFault` | the first quote; the shadow-mode block and its catch |
| `Build` | re-quote of a retry, `buildSwapTx`, signing |
| `SendBundle`, `SendBundleThrows`, `SendPrimary`, `SendPrimaryThrows` | `sendViaJito`, its catch, `sendPrimary` with preflight |
| `Confirmed`, `ConfirmedErr`, `ConfirmThrows` | the three answers of `confirmTransaction`, for the bundle and the primary path |
| `RecordFill` ... `RecordRoute`, `RecordFault` | the writes after a confirmation, and any of them throwing |
| `Caught`, `GiveUp`, `EndFault` | the catch block with `recordRouteAttempt` and quarantine; FAILED; writes that throw out of `executePlan` |
| `Settle`, `RollWindow`, `Crash` | the chain, the clock, the process |

Abstracted: amounts, quotes, fees and the fee bandit (they choose numbers, not
steps; `FeeTerms` has them; whether a fee arm is eligible is a choice in
`Accept`), the tip transaction, metrics. All plans of the code have the route
`jupiter`, so there is one row of statistics per window. The PENDING row can be
written in the model, as the code intends; the schema bug below (`schema_bootstrap`)
prevents it on a database the code itself has made.

### RewardMatching

`byId` and `byMint` are the two indexes of `PendingSelectionQueue`; an array of
`byMint` is a set ordered by `arrival`, which is what `push`, `filter` and
`splice` leave. A poll is one turn of the event loop and is taken row by row
(`PollStart`, `PollMatch`/`PollMiss`, `PollEnd`); the engine does nothing else
meanwhile, the executor's process (`WriteOutcome`) may. `rewards`, `read`,
`startTs` and `forgotten` are history.

### PositionManager

One mint: positions share nothing between mints. `caller[c]` is where a price
sweep or the flatten request is: between two awaits of `evaluatePosition`
(`evaluating`, which keeps everything else from moving), waiting for the mint's
decimals, or for the executor's answer. The checks of `evaluatePosition` are
numbered in their order (autokill, panic, hazard trail, survival rungs, ladder
rungs, trail, hard stop).

| Action | Code |
|---|---|
| `BeginSweep`, `Evaluate`, `Activate`, `Finish` | `refreshPrices` and `evaluatePosition`; the marks behind each `triggerExit` and the final save are part of the step (`AfterExit`, `EndSweep`) |
| `Trigger`, `DecimalsForExit`, `Answer` | the three turns of `triggerExit`: check, set and submit, return |
| `DecimalsForExitFail`, `DecimalsForLadderFail` | the decimals cannot be had: caught in the autokill, survival and flatten calls; at a ladder rung, the trailing stop or the hard stop an unhandled rejection, which ends the process |
| `RequestFlatten` | `POST /control/flatten` |
| `Deliver`, `DecimalsForFill`, `ApplyBuy`, `ApplySell`, `ApplyClose`, `FinishClose` | `handleFillEvent`, with its waits for decimals and, at a close, for the SOL price |
| `LoseFill`, `DecimalsForFillFail` | a fill emitted while the stream is down, or dropped by `onEvent`'s catch |
| `PendingExpires`, `DecimalsExpire` | the two TTL caches |
| `Buy`, `ExitSold`, `ExitFails`, `Restart` | the executor, seen from outside; `hydratePositions` after a stop |

Abstracted: prices, flow, safety and hazard scores (each check may find its
condition true), average price, PnL and MAE, metrics. `wallet` and `running` are
the chain and the executor; `fired`, `opened`, `missed` and the flags of a running
exit are history; the position manager's own guards read none of these.

### The services around the order path

- `EventStream`: a connection is a value of `Connection`; `sources` is the client's
  side, `route` and the queue the server's, the wire between them. Backoff is a
  timer that may fire at any time.
- `MigrationWatcher` with `LeaderWallets`: one action per callback turn. The ten
  minutes a signature is remembered do not run out, and the shared buffer is a
  count. Left out of leader-wallets: the cache limit of 2048, the poll's 200 rows,
  the values of scores, shutdown.
- `PoolDiscovery`: every lost connection starts a restart
  (`Restart`) of its own, which waits, removes and subscribes. `DebounceExpires`
  assumes that nobody works under a key for the twenty minutes the entry is kept.
- `SafetyEngine` has the cached verdict and the overlapping handlers, and beside them
  one evaluation check by check over the facts of the chain (`facts`). `unclassified`
  is history: RugGuard is off or its verdict could not be stored, and then gave no
  reason. Thresholds are scaled (10 accounts looked at to 3, 3 errors to 2).
- `PolicyAdmission`: scores and probabilities are open and so is how far a size
  stays below its caps; `minFreeSol` is one unit; `raced` is history and tells that
  a cap was passed by handlers that overlap. The loss cap is left out.
- `OrderSizing` computes one order from one `ask`; caps that are fractions are given
  as amounts, the rounding step and the minimum order are constants.
- `FeeTerms`: the arms, the preset and the priority formula are constants; time is
  in parts of the preset's duration.
- `WatchWindows`: scores are low, high or higher; of the phrase statistics duplicate
  posts and the decay's numbers are left out. `TopicClusters`: vectors, scores and TTLs are
  open; `removeCluster`, which nothing calls, is left out. `PhraseMatcher`: the trie,
  the fail links and the search letter by letter, without weights.
- `SocialPolling`: storing is left out, and in which order a poll emits its posts.
  `SocialFirehose`: one post per event; a garbled cursor file of two numbers of
  different length and the second server are left out. `SocialSources`: the order in
  which sources start is open.
- `AlphaScores`, `LunarStream`, `LunarOverlay`, `ModelFiles`: rows, boosts and model
  files by their origin and time, never their numbers. A whole file is taken to say
  `status: ok`.
- `ProviderCache` counts time in the parts of a token. `AgentCore` identifies a
  health answer with the time it was asked.
- `SchemaBootstrap`: applied versions are read in one step; files of builds older
  than the first migration are not initial states.
- `ConfigLoading` has a key of each kind the loader treats differently, instead of
  every key of the schema.
- `ParquetExport`: rows by number; a window is one file.

## What the runs check

| Run | Question | Instance |
|---|---|---|
| `orders_concurrent` | concurrent executions, lost answers, crash, window roll, no failing write | 2 orders, 2 attempts, Jito on, 2 windows, quarantine from 3 attempts |
| `orders_failing_writes` | the same with a failing write anywhere | 2 orders, 2 attempts, 1 fault per order |
| `orders_end` | does every execution end? | 2 orders, 3-attempt quarantine, shadow mode, 2 faults per order |
| `orders_shadow` | does shadow mode send nothing? (violated) | 1 order |
| `rewards_matching` | order-id matching with restarts | 2 plans and an exit on one mint, 3 rows, limit 2, 1 restart |
| `rewards_settle` | mint matching; does every selection settle? | 3 plans on 2 mints |
| `positions_holdings` | do holdings and the saved row stay right, and do exits keep apart? | a survival and a ladder rung, 2 exits, a flatten; 1 sweep at a time with 2 buys and a lost fill, lost answer or restart, or 2 sweeps with 1 buy |
| `positions_rung_twice` | does a rung fire once per position? (violated) | 2 sweeps |
| `services` | the services around the order path, each on its own | below |
| `flatten_without_wallet` | is a flatten refused while there is no wallet? (violated) | 1 request, 1 restart of the policy engine |
| `schema_bootstrap` | are the columns there that the bootstrap makes? (violated) | 2 processes, databases of two earlier releases |
| `narrative_search` | does every search of the matcher end? (violated) | the phrases and the candidate of `engine.test.ts` |

`services` explores thirty parts in one run. The parts share no state, so their
product would only repeat each of them: `MCServices` picks in `Init` the `part`
that moves, keeps the others in one of their initial states (`OneStart`) and states
each property for the part it is about. A part never blocks another; what a part
does when it is alone is all it does.

| Property | Says |
|---|---|
| `HeardInOrder`, `StreamStaysSubscribed` | a client has one connection, on which it hears every event since the route was there, once and in order; and it always gets a connection again |
| `OnlyLateMigrationsAreMissed` | the poll misses a migration only when its row came late, behind a later one of the same or a later time, or was too old for the first poll |
| `LeadersAreFollowed` | a pool is watched until its window ends; scores lag hits only while a recomputation is due, queued or was dropped |
| `PoolsAreHandledOnce` | attempts per pool are bounded, one candidate per debounce, and every listener can be removed |
| `SafetyIsVerified` | what is served as safe was verified since the start, and its facts are those of the chain |
| `OrdersAreBounded` | caps hold as far as handlers see them; gate, size and terms are within their bounds |
| `OperatorIsObeyed` | configuration and controls are those that were given; a flatten had its token and an answered probe, and its answer is true |
| `NarrativesAreKept` | windows, rolling counts and baseline agree with their rows |
| `ServingIsSound` | the rate of calls, the age of health answers, the sums of rates |
| `SocialPostsArrive` | posts are missed only at a crash and repeated only for a known reason |
| `NewestScoreWins` | a client's score is the newest it was sent |
| `SchemaIsWhole` | a process that has opened the file finds every object of its migrations, and none is applied twice |
| `TopicsAreMatched` | the search counts what a naive count does; the copies of a topic agree |
| `LunarIsSound` | boosts come from rows within retention; no window by LunarCrush alone |
| `JobsAreCurrent` | error rate, price, features, exported rows and model are of what was seen last |

**Bounds.** Two orders are enough for every race on the shared statistics: an
execution meets the others only through `route_stats`. Two attempts
(`MAX_RETRIES` is 3) have a first, a last, and a retry; quarantine after 2 or 3
attempts can be tipped by either order's failure. One fault per order reaches
every pair of a failed write and a later retry. For the reward loop, two
selections of one mint and a third row that belongs to neither are the smallest
case in which a row can take the wrong one; the clock runs past a timeout; a limit
of 2 leaves rows for a second poll. For the position manager, two buys give a
re-entry and a sell that overtakes a buy, two exits run at once for one reason or
for two; two sweeps are as many as can be at one check with one of them ahead.
Overlapping sweeps together with faults and re-entries are too many states for one
run: `SceneSpec` plays two scenes, one with either (the proofs have both at once).

In `services`, two of whatever overlaps (handlers, sweeps, restarts, processes,
candidates, requests, polls) is the smallest race; the cache has three callers, as
the debt of a bucket needs two that wait. A client has three connections, so that
one can be stale while the next breaks. Faults (`MaxFaults`, `MaxThrows`,
`MaxLostWrites`, `MaxBadRows`, `MaxMishaps`, `MaxPollFaults`, `MaxBreaks`) and
restarts (`MaxReboots`, `MaxCrashes`, `MaxMinerStarts`, `MaxBoots`,
`MaxServiceEnds`) come once: each is placed anywhere, and the properties speak of
what a single one leaves behind. Clocks (`MaxClock`, `MaxTime`, `MaxTicks`,
`LastTime`, ...) run past every expiry once and, where things are renewed, past a
second. `MCPhraseSets` are all pairs of words of up to three letters, so that one
phrase can be the suffix, the prefix or the middle of the other. `MCChainFacts` are
mints with one trait each, tables of up to four accounts of which three are looked
up, and all counts around the flow bound. The largest part, `launch`, has about 141,000
states; together they have 739,763. `LaunchScene` and `DiscoveryScene` keep apart two
pairs of things that share no step: the leaders' swaps and sweeps that overlap, and the
candidates of the migration stream and a watcher that restarts (the proofs have both).

`CHECK_DEADLOCK FALSE` is set because the bounded instances stop when all orders
are done, the clock has run out, nothing is left to read, or no exit is left to
submit.

**Fairness.** `orders_end` assumes that a request to the RPC is answered or fails
and that a broadcast transaction eventually lands, fails or expires (its blockhash
does), and that the event loop runs what is ready. It does not assume that a
confirmation returns while the transaction is live. `rewards_settle` assumes that
the two `setInterval` timers keep firing and that time passes; it assumes nothing
of the executor. `StreamFairness` assumes that a `setTimeout` fires, that opening a
source goes on, and that the network accepts a connection or reports its error; the
server may break any connection. `narrative_search` assumes that the search, which
is synchronous, goes on.

## What the violated runs show

- **Shadow mode can trade** (`orders_shadow`). The `return` of the shadow block is
  inside the `try` that records the synthetic outcome. When `insertSimOutcome`
  throws, the catch logs and the live loop begins.
- **A rung can sell twice** (`positions_rung_twice`). `ladderHits` is written when
  `triggerExit` returns, which is when the executor has finished; the timer does not
  wait for that and the pending key lasts 10 s or until the next fill.
  `SuppressedWhilePending` is what does hold.
- **A flatten needs no wallet** (`flatten_without_wallet`). `/control/flatten` asks
  the policy engine first and stops on the status `awaiting_credentials` or the wallet
  `missing_keystore`. The policy engine answers `ok` or `degraded`, and an object for
  the wallet (`PolicyHealth`), so both tests are never met and the request goes on to
  position-manager; VERIFICATION.md:54 and :73 promise a 503. `ControlsAreSound` is
  what does hold: the token, an answered probe, and answers that are true.
- **The bootstrap undoes itself** (`schema_bootstrap`). The backfill in `bootstrapDb`
  executes a `BEGIN` inside the transaction; its catch rolls the outer one back and
  the final `COMMIT` finds none. The canonical columns, among them
  `orders.created_ts`, never come, however undisturbed a service opens the file
  (`CanonicalColumnsCome`). `SchemaIsWhole` is what does hold, of the migrations.
- **A search can run for ever** (`narrative_search`). The inner loop of
  `AhoCorasick.search` goes to `node.fail ?? root`; at the root, for a letter that
  starts no phrase, it stays there. `CountsOccurrences` is what holds of the
  searches that end; `TopicClusters.hung` is what the miner is left in.

## Other observations

Met while modelling, true of the code, and part of the models; no run is about them.

*Orders and fees.* The `insertExecOutcome` call after the last attempt leaves four
named parameters unbound and throws, so a failed order has no outcome row. With the
order-id queue on, a row whose own selection is not pending still takes the oldest
selection of its mint; exits always do (`MisattributedOnlyWhenAbsent` is what
holds). A rung can be marked on a position that never fired it, when the closing
fill comes before the executor's answer. `selectArm` makes a six-dimensional state
before the arm's features are added, so these are never learned and the longest
arm wins; `decideFees` ignores which arms were eligible, so `maxSlipBps` does not
bind it; `plan.slippageBps` is not used; a retry has no priority floor.

*Sizing and gate.* No risk figures are handed to `chooseSize`, so risk scaling never
applies. The leader boost is held to the wallet's and the pool's caps, not to the USD cap
and the arm's. Rounding may pass a cap by half a step. A candidate
without a score passes, and so does one whose score is stale: `getLatestScore` drops
scores older than the gate's own limit, so that the gate's test for stale ones
(`alpha_stale`) is never met.

*Safety.* `getTokenLargestAccounts` returns token accounts, which the token program
owns, so neither the incinerator nor a locker is ever recognised in production; a
fully burned supply is refused as `lp_supply_zero`; lockers' shares are not summed;
a mint account that is absent counts as one without authorities; a verdict that
cannot be stored adds no reason.

*Models.* `promote_gpu` writes `alpha_ranker.json`, which nothing reads, while the
ranker loads the candidate's path; for FillNet and RugGuard the candidate's path is
the production path, so the gate decides nothing.

*Configuration.* `TRENCHES_CONFIG=` with no value, as in `env.example:7`, makes the
loader throw. Values from the environment are never validated; a cap may be NaN.
`/config/safe` deletes `killSwitchToken` from the object the process goes by.

*Controls.* `/control/pause`, `/kill` and `/mode` set agent-core's own flags and rows
that no service reads; `healthz` answers OK while paused; a restart forgets the
pause; closing the server may wait for a dashboard for ever, and a second signal
starts a second shutdown.

*Data.* A rejected append leaves ParquetExport's chain rejected, so nothing is
exported any more, and the miner never closes its writers. price-updater's tick
without data returns before the gauge is set. In features-job a vector of another
dimension resets the sum and not the count. `indexExists` is always true, so no
index is made. The API-key scheme of the LunarCrush overlay is practically never
tried. social-ingestor sets its signal handlers after the start of all sources;
telegram's ids are per chat and its set of seen ids is not. A failed scrape empties
the dashboard's counters, so the next one counts the whole total; overlapping polls
set totals back.

## What is proved

TLAPS proves the theorems below for all values of the constants: any finite set of
orders, mints or callers, all settings, any number of faults, crashes and restarts.
What they assume is the named `ASSUME` of each module and nothing else; every run
that instantiates the module evaluates it. Each theorem has the form
`Spec => []Inv`: an invariant stronger than the property is shown to hold at first
and to survive each action, one lemma or step per action. A property of several
components that share no state is proved of the conjunction of their
specifications, which is how the run composes them.

**Orders** (`OrderExecutionProofs`). `IInv` adds to the stated properties what each
stage knows of its transaction (`StageTx`: nothing is sent before `send`; from
`meta` on it landed; after a failure it landed only if in doubt), what each stage
has recorded (`StageRecord`), that transactions of other attempts are unsent or
excused (`OtherAttempts`), the same for the last attempt of an ended execution
(`LastAttempt`), and that fills do not outnumber faults (`FillCount`). None of the
stated properties is inductive alone: `LandedIsRecorded` at `done` rests on
`LastAttempt`, this on `StageTx` at `caught`, and `FillsPerOrder` on the count one
step earlier. Theorems: `TypeCorrect`, `RecordIsTrue`, `LandedIsAccountedFor`,
`NoBlindRetry`, `FillsAreBounded`, `StatusIsRight`, `QuarantineStopsRetries`;
`StatisticsAreExact`, which counts the attempts that ended in a window as a set
whose cardinality each write of the row moves by one (`Undisturbed`: an order
without a fault is at the stage its record says); and `ImplementsLifecycle`, the
refinement of `OrderLifecycle` under `MaxFaults = 0`.

**Rewards** (`RewardMatchingProofs`). The invariant adds that row ids are their
write order (`TableOK`), that the cursor is past every row read and before every
row of the batch (`CursorOK`), that rewards name rows that were read, that arrival
order is creation order (`PushedInOrder`), that the cursor is the timestamp of a row
that was read (`CursorIsRead`), and that a reward from the row of another order was
given because that order was unknown, settled or forgotten (`AttributionOK`). Theorems:
`TypeCorrect`, `IndexesAlwaysAgree`, `EachSelectionOnce`, `EachRowOnce`,
`MintQueueIsFifo`, `SkipsOnlyTies`, `MintsMatch`, `WrongRowOnlyWhenAbsent`, and
`ImplementsLedger`: each step of the loop is a step of `RewardLedger` or none.

**Positions** (`PositionManagerProofs`). `BaseInv` has the types and where each
caller may be; `KeyInv` that exits have ids of their own and the suppression key of
one that runs stands, unless a restart, a fill or its ten seconds dropped it;
`HoldInv` that
a fill under way is named by its order and under way once, that nothing is sold before
the buy has arrived, and so that position and wallet differ by what is under way. The sum over fills, a recursive function, is shown to be the number of units
of a set (`Units`), by a least counterexample instead of induction. Theorems:
`TypeCorrect`, `SavedFollows`, `OneExitPerReason`, `PositionFollowsWallet`.

**Streams and scores** (`StreamProofs`). Of `EventStream`: at most one connection
is open, nothing reaches a connection before it opens, and what its queue, its wire
and the client hold is one run of the events emitted since it opened
(`NothingLeftOut`), so what was heard rises without gaps inside a connection:
`StreamsAreHeardInOrder`, `NothingIsHeardTwice`. Of `AlphaScores`: rows in a queue,
a wire and the map are in the order they were scored and none is ahead of the
newest (`RowsInOrder`, `NothingSentAhead`, `NewestIsPast`): `NewestScoreIsKept`.
`LunarFollowsRows`: the LunarCrush stream keeps one connection; its boost keeps to
its limit and comes from rows of late (the largest of a finite set, found by a least
counterexample); the overlay reaches the scheme the provider takes by its second
round, unless that is the third scheme; its two lists move together; its bias opens
no window alone and never lowers a score.

**Leader wallets** (`LeaderWalletsProofs`). `MissesOnlyLateRows` says of every row
of the migrations a poll has passed that a listener covered it, that an earlier poll had
a row as late, or that it was too old at the first poll
(`MarkIsPolled`: the mark is the timestamp of a row that was passed).
`LeadersFollowed` adds that listeners are those of entries still due, unless two
sweeps overlapped, and that scores wait in the queue, were computed or were dropped
with a full one.

**Intake** (`IntakeProofs`). `PoolsHandledOnce`: one restart of the watcher at
a time unless a stop disturbed it, one subscription registered, one builder per
pool, candidates no more than the times the deduplication expired and one.
`PostsArrive`: what a polling source has emitted and not dropped it knows
(`PollingInv`; that a listing emits each unknown post once is shown of the fold over
the listing, by the shortest prefix for which it would fail); an event that a cursor,
a socket or a write under way is past was emitted, is being handled or was lost to a
crash or before there was a cursor (`PassedAreAccounted`), and a process emits what it
has not seen (`SeenOncePerProcess`); a message of a joined chat is emitted once or
its number was taken, and health serves each source's own state (`SourcesInv`).
`TopicsMatched`, the automaton: the recursive functions of `PhraseMatcher` are shown to
exist and to unfold (`KeptUnfolds` and its like, by the least place at which one would
not); the link of a node is the longest other node that the node ends with
(`LinksAreBest`, which is why the queue's order matters), so its outputs are all phrases
it ends with (`OutputsEnd`). While a text is read, no node longer than the one reached
can be extended by the next letter and end what is read (`NodeIsBest`), so a letter
ends exactly the phrases of the node it leads to, and each count is that of the
occurrences. The topics: each phrase is in the cluster that is named for it
(`PhrasesFiled`), and a row never has a phrase that memory lacks (`RowsBehind`), which
is what keeps a restart from giving a phrase two topics.

**Admission** (`AdmissionProofs`). `OnlyVerifiedIsSafe`: a candidate is published as
safe only when every check of its own mint passed, whatever evaluations overlap
through the cache (`ReasonsFollow`, `CacheIsComplete`), and the checks add no
verdict the chain's facts do not support. `OrdersKeepBounds`: caps hold up to the
handlers that were suspended together (`SnapshotsShow`, `OneFits`), the alpha gate
passes only mints among the best fresh scores it looked at (`RankedAmongFresh`), a
size is within each of its caps after boost and rounding, and a retry keeps the
arm and the terms that may not rise.

**Services** (`ServiceProofs`).
`ServingSound`: in every interval the calls let through are at most the capacity
and what came in (`PaidFor`: the calls due from a moment on are paid for by what the
bucket lacks, a statement about cardinalities that survives each new debt); a health
answer is no older than its date; the increases a dashboard shows never exceed what was
counted, and are all of it while the service runs on, unless polls overtook each
other or a failed scrape set the totals back.
`NarrativesKept`: rows of windows follow the windows in memory unless a write threw
(`GuardIsOpen`: a topic without a window is guarded by nothing), and what a phrase
counts beyond its window is exactly what the limit cut while it was live (`Surplus`,
preserved by pruning, compaction and counting).
`JobsFollow`: the sample window is the last samples that ended, in order, unless
two ran at once; the stored price is the newest one read; author rows are never
ahead of the run that writes them; an exported row is in a file with a footer, in
the open file or excused by a process that ended (`LastIsOpen`: the file of the
clock never has a footer); a model file that is watched and did not slip past is in use.
`SchemaStaysWhole`: however many processes open one file, from any release. A process
that nothing hurt has passed over no migration, because the migration it is refused
or beaten to is recorded by then (`HasApplied`), because the tables of the columns it
adds come with the same migration or an earlier one (`ColumnsHaveTheirTable`, over
all eighteen), and because whoever is hurt hurts all that are opening (`HurtTogether`).
What is committed comes from a recorded migration or is made outside any (`Kept`,
`Rooted`), and a view that is missing is about to be made (`ViewsCome`).
`OperatorObeyed`: what the variables make of a configuration is shown of the fold over
`EnvMap` for every set of its places (`Overridden`), by the smallest set for which it
would fail; agent-core's part rests on `ControlInv`: what is probed had its token,
what is forwarded an answer to its probe too, position-manager hears of nothing else,
and the shutdown is past its first step only when nothing is answered.

Every invariant that a run checks is stated by a theorem. Only model-checked are the
liveness properties `EveryExecutionEnds`, `EverySelectionSettles` and
`StreamStaysSubscribed`, whose fairness needs `ENABLED`, which is beyond the prover,
and what the runs that expect a violation refute.

## Plan

Done: all components, the abstract specifications with their refinements, and the
theorems above.

Next:

1. Prices in `PositionManager` far enough to state that a stop that stays true
   closes the position, under fairness of timer and executor.
2. A composition of plans, executor and position manager over streams that lose
   events, with the end-to-end claim that holdings match fills.

## Not modelled

Rendering and the pages of ui-gateway, logger and metrics: they keep no state that
decides anything. Report queries of the database, and the tools and scripts, which
only read. Training: numeric jobs run by hand, of which only the files they write
are modelled. The numbers of models, embeddings, bandits, quotes and the hazard
score: the models leave open what they come to. RPC and endpoint helpers: pure
functions and provider I/O. Indexes: the code never makes one.
