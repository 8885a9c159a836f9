\* A night that cannot be asked about: a counterexample to AsksAgainTonight.
SPECIFICATION NightSpec
CONSTANTS
    Runners = {night, hand}
    Scheduler = night
    Nobody = Nobody
    Lingering = Lingering
    DayLength = 2
    Hour = 1
    Attempts = 2
    Horizon = 3
    MaxRuns = 2
    MaxFaults = 2
CHECK_DEADLOCK FALSE
INVARIANT AsksAgainTonight
