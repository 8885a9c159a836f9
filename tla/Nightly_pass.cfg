\* Two days, the scheduler and one run by hand, two faults.
SPECIFICATION NightSpec
CONSTANTS
    Runners = {night, hand}
    Scheduler = night
    Nobody = Nobody
    Lingering = Lingering
    DayLength = 2
    Hour = 1
    Attempts = 2
    Horizon = 3
    MaxRuns = 2
    MaxFaults = 2
CHECK_DEADLOCK FALSE
INVARIANTS
    HolderIsAlone
    OkIsWritten
PROPERTIES
    OutcomesAreFinal
    NothingIsWedged
    NightsEnd
    ScoresWhatItFetched
