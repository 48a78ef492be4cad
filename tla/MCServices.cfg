SPECIFICATION Spec
CONSTANTS
    MaxConnections = 3
    MaxEvents = 3
    MaxThrows = 1
    x1 = x1
    y1 = y1
    w1 = w1
    w2 = w2
    r1 = r1
    r2 = r2
    c1 = c1
    c2 = c2
    x2 = x2
    pool = pool
    raydium = raydium
    pumpswap = pumpswap
    Transaction = {x1, x2}
    ProgramsOf <- MCProgramsOf
    PoolOf <- MCPoolOf
    MaxClock = 2
    MaxQueueSize = 1
    Pool = {pool}
    Signature = {y1}
    Sweep = {w1, w2}
    Window = 1
    MaxListeners = 2
    Restart = {r1, r2}
    MaxListener = 2
    NewPool = {pool}
    MaxAttempts = 2
    MaxExpiries = 1
    Candidate = {c1, c2}
    Buyable = {c1, c2}
    Constrained = FALSE
    Funds = 4
    Reserves = 1
    DailyCap = 2
    ArmSize = 2
    ConcurrencyCap = 1
    MaxOpen = 2
    MaxDailyNew = 2
    MaxDays = 1
    topic = topic
    Topic = {topic}
    Duration = 2
    RefreshEvery = 2
    MaxTime = 5
    MaxFaults = 1
    MaxReboots = 1
    ph1 = ph1
    ph2 = ph2
    Phrase = {ph1, ph2}
    Span = 1
    MaxKept = 3
    CutSize = 1
    CompactAbove = 1
    MaxPhrases = 1
    MaxPosts = 4
    MaxBadRows = 1
    k1 = k1
    k2 = k2
    k3 = k3
    url = url
    Caller = {k1, k2, k3}
    Url = {url}
    Cost = 2
    Capacity = 2
    CacheTtl = 1
    MaxTicks = 4
    q1 = q1
    q2 = q2
    Request = {q1, q2}
    HealthTtl = 1
    Patience = 1
    LastTime = 3
    p1 = p1
    p2 = p2
    Post = {p1, p2}
    Query = {1, 2}
    MaxSeen = 1
    MaxPolls = 3
    MaxSeq = 3
    MaxHandlers = 2
    MaxBreaks = 1
    MaxCrashes = 1
    m1 = m1
    m2 = m2
    ScoredMint = {m1, m2}
    Horizons <- MCHorizons
    BufferLimit = 3
    MaxEntries = 2
    MaxScored = 3
    MaxReaders = 2
    d1 = d1
    d2 = d2
    nobody = nobody
    Process = {d1, d2}
    Releases = {8, 18}
    MaxMishaps = 1
    Letter <- MCLetters
    PhraseSets <- MCPhraseSets
    Texts <- MCTexts
    g1 = g1
    g2 = g2
    TopicPhrase = {ph1, ph2}
    Cluster = {g1, g2}
    Mint = {m1}
    NoCluster = nobody
    MaxSocial = 3
    MaxLostWrites = 1
    MaxMinerStarts = 1
    a1 = a1
    n1 = n1
    n2 = n2
    s1 = s1
    s2 = s2
    b1 = b1
    t1 = t1
    Keyword = {a1}
    Strength = {1, 3}
    Retention = 2
    MaxLunarBoost = 2
    NoSource = nobody
    MaxSources = 4
    MaxLunarTime = 4
    OpenThreshold = 6
    TopicBoost = 3
    InfluencerBoost = 2
    MaxBoost = 4
    MaxLunarPolls = 3
    ErrorWindow = 2
    MaxSamples = 5
    MaxPriceTime = 4
    MaxReads = 4
    Author = {n1, n2}
    SocialPost = {s1, s2}
    Lookback = 1
    MinPosts = 1
    ReadLimit = 2
    MaxJobTime = 3
    MaxJobRuns = 2
    MaxRecords = 4
    MaxRolls = 3
    MaxWriterEnds = 2
    Source = {b1}
    Telegram = t1
    Chat = {g1, g2}
    Channel = {g1, g2}
    MaxMessageId = 2
    MaxDeliveries = 3
    u1 = u1
    u2 = u2
    f1 = f1
    f2 = f2
    h1 = h1
    z1 = z1
    z2 = z2
    Supply = 12
    BurnThreshold = 3
    HolderTopCap = 4
    LookedAt = 3
    ManyErrors = 2
    FlowMin = 2
    ChainFacts <- MCChainFacts
    MaxVersion = 4
    MaxEdits = 2
    Amount = {0, 12, 20}
    Equity = {0, 20, 44}
    Withheld = 4
    Step = 8
    MinOrder = 16
    NoCap = 1000
    GateMint = {u1, u2}
    Score = {2, 3}
    AlphaMin = 3
    AlphaTopK = 1
    RankBoost = 1
    EntryTtl = 1
    MaxGateTime = 3
    Flatten = {f1, f2}
    Dashboard = {h1}
    MaxBoots = 1
    FeeArms <- MCFeeArms
    Preset <- MCPreset
    Priority <- MCPriority
    MaxTermTime = 4
    LoadSlot = {z1, z2}
    MaxCount = 2
    MaxPollFaults = 1
    MaxServiceEnds = 1
INVARIANTS
    HeardInOrder
    OnlyLateMigrationsAreMissed
    LeadersAreFollowed
    PoolsAreHandledOnce
    SafetyIsVerified
    OrdersAreBounded
    OperatorIsObeyed
    NarrativesAreKept
    ServingIsSound
    SocialPostsArrive
    NewestScoreWins
    SchemaIsWhole
    TopicsAreMatched
    LunarIsSound
    JobsAreCurrent
PROPERTY StreamStaysSubscribed
CHECK_DEADLOCK FALSE
