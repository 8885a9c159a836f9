SPECIFICATION Spec
CONSTANTS
    Collections = {"ingest"}
    BackfillDays = 4
    Overlap = 2
    Tolerance = 0
    BankAt = 2
    Page = 2
    Window = 8
    MinReach = 2
    WidenAfter = 2
    Attempts = 1
    GapLimit = 2
    GapAttempts = 2
    Postings <- MCPostings
    RedditHorizon = 7
    MaxTrouble = 3
    EdgarFilings <- MCEdgarFilings
    Companies = {"a", "b"}
    EdgarWindow = 2
    DaysPerPass = 2
    EdgarBatch = 2
    EdgarAttempts = 2
    EdgarHorizon = 2
    EdgarTrouble = 2
    Securities <- MCSecurities
    SettlingDays = 3
    RevisedFor = 1
    LastDay = 5
    MaxRevisions = 1
    MaxRuns = 3
    IngestTrouble = 1
    Shares = {c1, c2, o1}
    Classes = {c1, c2}
    IssuerOf <- MCIssuerOf
    Rosters <- MCRosters
    Tickers = {"x", "y"}
    Industries = {"i", "j"}
    Ceiling = 50
    LastLoad = 2
    MaxLoads = 3
    SettingNames = {"token", "guild", "key"}
    SessionNames = {"token", "guild"}
    TokenName = "token"
    GivenNames = {"key"}
    SettingValues = {1, 2}
    Unset = 0
    MaxEdits = 2
    MaxLapses = 1
    MaxBoots = 2
SYMMETRY Interchanged
INVARIANT ObservationsAreKept
CHECK_DEADLOCK FALSE
