SPECIFICATION Spec
CONSTANTS
    Books = {"screen"}
    Month = 2
    Year = 5
    TtmMaxAge = 135
    QuarterMin = 80
    QuarterMax = 100
    AnnualMaxAge = 456
    SplitWindow = 7
    CloseMaxAge = 7
    MinPeers = 2
    Agreement = 75
    SeriesSums <- MCSeriesSums
    PeriodSums <- MCPeriodSums
    RankSums <- MCRankSums
    BlendSums <- MCBlendSums
    Hours = 2
    Settling = 1
    NightScores <- MCNightScores
    PageSize = 1
    LastMoment = 5
    MaxReports = 1
    MaxNights = 2
    Mentions = {k1, k2, k3}
    Companies = {"c", "d"}
    ReadOrder <- MCReadOrder
    ToneFloor = 3
    TrimOf = 3
    LeaderboardDays = 1
    ActivityDays = 2
    RollingDays = 1
    DayParts = 2
    LastInstant = 5
    SaidInstants = {0, 3}
    Calls = {k1, k2, k3}
    Batches <- MCBatches
    MaxTexts = 4
    InferenceBatch = 2
    MaxBatchTokens = 4
    ScoreWait = 2
    HearWait = 1
    ScoreSlowest = 2
    HearSlowest = 1
    ScorePatience = 4
    HearPatience = 2
    LastMinute = 7
    MaxCalls = 3
    Indices = {"agentic", "intelligence", "coding"}
    Weights <- MCWeights
    InputShare = 9
    Unit = 6
    PriceMultiple = 6
    MaxInputPrice = 30
    MinContext = 32
    ExcludedAuthors = {"anthropic"}
    MinIndices = 2
    MinCapability = 50
    Router = "router"
    Static = {"flash", "solar"}
    DefaultModel = "flash"
    Configured = "solar"
    CacheTtl = 1
    SlowestFetch = 1
    ChoiceAge = 2
    ShownRows = 1
    MaxRounds = 2
    Listings <- MCListings
    Clients = {k1, k2}
    LastTime = 2
    MaxShifts = 1
    MaxChoices = 1
    MaxRequests = 2
SYMMETRY Interchangeable
INVARIANT NeverAFalseAlarm
CHECK_DEADLOCK FALSE
