----------------------------- MODULE MCServices -----------------------------
(***************************************************************************)
(* The services around the order path, for TLC: those that feed the policy *)
(* engine, its admission of candidates, and what they keep and serve.  The *)
(* modules share no state, so a run explores the sum of their state        *)
(* spaces: the initial state picks the part that moves, and the others     *)
(* keep theirs.                                                            *)
(***************************************************************************)
EXTENDS EventStream, LeaderWallets, PoolDiscovery, SafetyEngine, PolicyAdmission,
        WatchWindows, ProviderCache, AgentCore, SocialPolling,
        SocialFirehose, AlphaScores, SchemaBootstrap, PhraseMatcher,
        TopicClusters, LunarStream, LunarOverlay, RpcMonitor, PriceUpdater,
        FeaturesJob, ParquetExport, SocialSources, ModelFiles,
        ConfigLoading, OrderSizing, AlphaGate, FeeTerms,
        DashboardFeed, TLC

CONSTANTS x1, x2, y1, w1, w2, pool, raydium, pumpswap, r1, r2, c1, c2, topic,
          ph1, ph2, k1, k2, k3, url, q1, q2, p1, p2, m1, m2, d1, d2,
          g1, g2, a1, n1, n2, s1, s2, b1, t1, u1, u2, f1, f2, h1, z1, z2

VARIABLE part

\* The first transaction names two of the watched programs.
MCPoolOf == [x \in {x1, x2} |-> pool]
MCProgramsOf == x1 :> {raydium, pumpswap} @@ x2 :> {raydium}
MCHorizons == <<"10m">>

\* Words of two letters, one of them that starts no phrase of some sets.
Words(n) == UNION {[1..k -> {"a", "b"}] : k \in 1..n}
MCLetters == {"a", "b"}
MCPhraseSets == {{p, q} : p, q \in Words(3) \union {<<"a", " ", "b">>}}
MCTexts == Words(4) \union {<<"a", " ", "b", "a">>}

\* Legacy and newer tokens with one trait each, one number that is missing, and tables of
\* at most four accounts of one to three amounts, of which the first three are looked up.
AccountTables(kinds, amounts) ==
    {t \in UNION {[1..n -> [kind : kinds, amount : amounts]] : n \in 0..4} :
        \A i \in DOMAIN t : i = Len(t) \/ t[i].amount >= t[i + 1].amount}
FineMint ==
    [token |-> "legacy", traits |-> {}, lpMint |-> TRUE, supply |-> 12,
     lp |-> <<[kind |-> "incinerator", amount |-> 3]>>, minted |-> 12,
     holders |-> <<>>, low |-> {}, buys |-> 2, sells |-> 0]
MCChainFacts ==
    {[FineMint EXCEPT !.token = t, !.traits = x] :
        t \in {"missing", "legacy", "token2022"},
        x \in {{}} \union {{y} : y \in {"mint", "freeze", "hook", "fee", "frozen"}}}
    \union
    {[FineMint EXCEPT !.lpMint = FALSE], [FineMint EXCEPT !.supply = 0],
     [FineMint EXCEPT !.minted = 0], [FineMint EXCEPT !.low = {"spread"}]}
    \union
    {[FineMint EXCEPT !.lp = t] : t \in AccountTables({"locker", "other"}, {2, 3})}
    \union
    {[FineMint EXCEPT !.lp = <<[kind |-> "incinerator", amount |-> 2],
                              [kind |-> "locker", amount |-> n]>>] : n \in {1, 2}}
    \union
    {[FineMint EXCEPT !.holders = t] : t \in AccountTables({"ignored", "other"}, {1, 2})}
    \union
    {[FineMint EXCEPT !.buys = b, !.sells = s] : b \in 0..4, s \in 0..2}

\* The second arm is the longer one although it is dearer for less slippage.
MCFeeArms == <<[cuPrice |-> 20, slippage |-> 100], [cuPrice |-> 60, slippage |-> 50]>>
MCPreset == [duration |-> 1, decay |-> 2, bump |-> 30, minSlippage |-> 75]
MCPriority == [base |-> 60, floor |-> 40, max |-> 110, perSol |-> 12]

AnAsk == [constrained |-> FALSE, equity |-> 0, pct |-> 0, absolute |-> 0, used |-> 0,
          arm |-> 0, perName |-> 0, usd |-> NoCap, impact |-> 0, flow |-> 0,
          multiplier |-> 2, full |-> FALSE, leader |-> FALSE]

vars == <<part,
          streamVars, launchVars, feedVars, safetyVars, admissionVars,
          windowVars, statisticsVars, cacheVars, agentVars, pollingVars,
          firehoseVars, alphaVars, schemaVars, searchVars, topicVars,
          lunarVars, overlayVars, monitorVars, priceVars, jobVars,
          parquetVars, sourcesVars, checkVars, modelVars, configVars,
          sizingVars, gateVars, controlVars, termVars, rateVars>>

\* A part that never moves starts in one of its initial states.
OneStart ==
    /\ part = "schema" \/ applied = 1..8
    /\ part = "overlay" \/ accepted = "bearer"
    /\ part = "features" \/ stored = [s \in SocialPost |-> [author |-> n1, at |-> 0]]
    /\ part = "sources" \/ hasKeys = [s \in AllSources |-> TRUE]
    /\ part = "checks" \/ facts = FineMint
    /\ part = "models" \/ (model = "alpha" /\ modelFile = File(0, "gone"))
    /\ part = "config" \/ located = "default"
    /\ part = "sizing" \/ ask = AnAsk
    /\ part = "controls" \/ wallet = "ready"
    /\ part = "terms" \/ feeBandit = FALSE
    /\ part = "dashboard" \/ feed = "route"

Init ==
    /\ part \in {"stream", "launch", "discovery", "safety", "admission",
                 "windows", "statistics", "cache", "agent", "polling",
                 "firehose", "alpha", "schema", "match", "topics", "lunar",
                 "overlay", "monitor", "prices", "features", "parquet",
                 "sources", "checks", "models", "config", "sizing", "gate",
                 "controls", "terms", "dashboard"}
    /\ OneStart
    /\ StreamInit /\ LaunchInit /\ DiscoveryInit /\ SafetyInit
    /\ AdmissionInit /\ WindowInit /\ StatisticsInit /\ CacheInit
    /\ AgentInit /\ PollingInit /\ FirehoseInit /\ AlphaInit
    /\ SchemaInit /\ SearchInit /\ TopicInit /\ LunarInit
    /\ OverlayInit /\ MonitorInit /\ PriceInit /\ JobInit
    /\ ParquetInit /\ SourcesInit /\ CheckInit /\ ModelInit /\ ConfigInit
    /\ SizingInit /\ GateInit /\ ControlInit /\ TermInit /\ FeedInit

Others(p) ==
    /\ UNCHANGED part
    /\ IF p = "stream" THEN TRUE ELSE UNCHANGED streamVars
    /\ IF p = "launch" THEN TRUE ELSE UNCHANGED launchVars
    /\ IF p = "discovery" THEN TRUE ELSE UNCHANGED feedVars
    /\ IF p = "safety" THEN TRUE ELSE UNCHANGED safetyVars
    /\ IF p = "admission" THEN TRUE ELSE UNCHANGED admissionVars
    /\ IF p = "windows" THEN TRUE ELSE UNCHANGED windowVars
    /\ IF p = "statistics" THEN TRUE ELSE UNCHANGED statisticsVars
    /\ IF p = "cache" THEN TRUE ELSE UNCHANGED cacheVars
    /\ IF p = "agent" THEN TRUE ELSE UNCHANGED agentVars
    /\ IF p = "polling" THEN TRUE ELSE UNCHANGED pollingVars
    /\ IF p = "firehose" THEN TRUE ELSE UNCHANGED firehoseVars
    /\ IF p = "alpha" THEN TRUE ELSE UNCHANGED alphaVars
    /\ IF p = "schema" THEN TRUE ELSE UNCHANGED schemaVars
    /\ IF p = "match" THEN TRUE ELSE UNCHANGED searchVars
    /\ IF p = "topics" THEN TRUE ELSE UNCHANGED topicVars
    /\ IF p = "lunar" THEN TRUE ELSE UNCHANGED lunarVars
    /\ IF p = "overlay" THEN TRUE ELSE UNCHANGED overlayVars
    /\ IF p = "monitor" THEN TRUE ELSE UNCHANGED monitorVars
    /\ IF p = "prices" THEN TRUE ELSE UNCHANGED priceVars
    /\ IF p = "features" THEN TRUE ELSE UNCHANGED jobVars
    /\ IF p = "parquet" THEN TRUE ELSE UNCHANGED parquetVars
    /\ IF p = "sources" THEN TRUE ELSE UNCHANGED sourcesVars
    /\ IF p = "checks" THEN TRUE ELSE UNCHANGED checkVars
    /\ IF p = "models" THEN TRUE ELSE UNCHANGED modelVars
    /\ IF p = "config" THEN TRUE ELSE UNCHANGED configVars
    /\ IF p = "sizing" THEN TRUE ELSE UNCHANGED sizingVars
    /\ IF p = "gate" THEN TRUE ELSE UNCHANGED gateVars
    /\ IF p = "controls" THEN TRUE ELSE UNCHANGED controlVars
    /\ IF p = "terms" THEN TRUE ELSE UNCHANGED termVars
    /\ IF p = "dashboard" THEN TRUE ELSE UNCHANGED rateVars

\* Two bounds that keep apart what does not meet in the code: swaps of leaders are heard
\* in behaviours whose sweeps do not overlap, and the migration stream, which debounces
\* under keys of its own, brings pools as long as the watcher has its first listener.
LaunchScene == overlapped => remembered = {}
DiscoveryScene ==
    lastId > 1 => \A p \in NewPool : /\ raw[<<"migration", p>>] = "none"
                                     /\ candidates[<<"mint:pool", p>>] = 0

StreamMoves(A) == part = "stream" /\ A /\ Others("stream")

Next ==
    \/ StreamMoves(StreamNext)
    \/ part = "launch" /\ LaunchNext /\ Others("launch") /\ LaunchScene'
    \/ part = "discovery" /\ DiscoveryNext /\ Others("discovery") /\ DiscoveryScene'
    \/ part = "safety" /\ SafetyNext /\ Others("safety")
    \/ part = "admission" /\ AdmissionNext /\ Others("admission")
    \/ part = "windows" /\ WindowNext /\ Others("windows")
    \/ part = "statistics" /\ StatisticsNext /\ Others("statistics")
    \/ part = "cache" /\ CacheNext /\ Others("cache")
    \/ part = "agent" /\ AgentNext /\ Others("agent")
    \/ part = "polling" /\ PollingNext /\ Others("polling")
    \/ part = "firehose" /\ FirehoseNext /\ Others("firehose")
    \/ part = "alpha" /\ AlphaNext /\ Others("alpha")
    \/ part = "schema" /\ SchemaNext /\ Others("schema")
    \/ part = "match" /\ SearchNext /\ Others("match")
    \/ part = "topics" /\ TopicNext /\ Others("topics")
    \/ part = "lunar" /\ LunarNext /\ Others("lunar")
    \/ part = "overlay" /\ OverlayNext /\ Others("overlay")
    \/ part = "monitor" /\ MonitorNext /\ Others("monitor")
    \/ part = "prices" /\ PriceNext /\ Others("prices")
    \/ part = "features" /\ JobNext /\ Others("features")
    \/ part = "parquet" /\ ParquetNext /\ Others("parquet")
    \/ part = "sources" /\ SourcesNext /\ Others("sources")
    \/ part = "checks" /\ CheckNext /\ Others("checks")
    \/ part = "models" /\ ModelNext /\ Others("models")
    \/ part = "config" /\ ConfigNext /\ Others("config")
    \/ part = "sizing" /\ SizingNext /\ Others("sizing")
    \/ part = "gate" /\ GateNext /\ Others("gate")
    \/ part = "controls" /\ ControlNext /\ Others("controls")
    \/ part = "terms" /\ TermNext /\ Others("terms")
    \/ part = "dashboard" /\ FeedNext /\ Others("dashboard")

\* StreamFairness, for the part it is about.
Fairness ==
    /\ WF_streamVars(StreamMoves(OpenSource)) /\ WF_streamVars(StreamMoves(TimerFires))
    /\ \A c \in Connection :
        WF_streamVars(StreamMoves(Accept(c))) /\ WF_streamVars(StreamMoves(SourceError(c)))

Spec == Init /\ [][Next]_vars /\ Fairness

\* What follows is about one part at a time, in the behaviours in which it moves.

\* StaysSubscribed, in the behaviours that are about the stream: a client that is
\* not disposed is connected again whatever breaks and whatever throws.
StreamStaysSubscribed == part = "stream" => StaysSubscribed
=============================================================================
