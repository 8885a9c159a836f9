SPECIFICATION Spec
CONSTANTS
    Services = {"magpie", "connector", "bot", "narratives", "lanes", "startup"}
    a1 = a1
    a2 = a2
    Asking = {a1, a2}
    Urls = {u}
    Texts = {p}
    UnlockerMax = 1
    MaxAttempts = 3
    MaxRestarts = 1
    Nothing = Nothing
    Requests = {a1, a2}
    Logins = {"l"}
    MaxConcurrent = 1
    MaxClients = 1
    MaxCodes = 2
    MaxTokens = 2
    Askers = {a1, a2}
    DailyCap = 1
    DearPrice = 2
    ToolRounds = 2
    MemoryExchanges = 1
    MemoryAge = 1
    ADay = 1
    LastInstant = 1
    MaxAsks = 3
    MaxChats = 1
    MaxBlinks = 1
    Tabs = {a1, a2}
    TalkedOf = {"a", "b", "c"}
    DailyMax = 1
    LastNarrativeDay = 2
    MaxPaid = 3
    Exits = 2
    SpareAttempts = 3
    FirstBackoff = 1
    MaxItems = 5
    MaxSymbols = 2
    LastSecond = 9
    Containers = {a1, a2}
    Releases = {{1, 2}, {1, 3}}
    FirstYear = 1
    HeadroomYears = 1
    LastYear = 2
    MaxBoots = 3
SYMMETRY Threads
INVARIANTS
    GrantsAreSpentOnce
    CapsHold
    LanesAreShared
    StartsWhole
CHECK_DEADLOCK FALSE
