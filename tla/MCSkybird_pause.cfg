\* One session, one supervisor: a counterexample to PauseIsKept.
SPECIFICATION MCSpec
CONSTANTS
    Ids = {1}
    Streams = {x}
    Supervisors = {a}
    MaxSessions = 1
    MaxRestarts = 1
    MaxFailures = 2
    MaxResumes = 1
    MaxFaults = 1
    Nobody = Nobody
PROPERTY PauseIsKept
