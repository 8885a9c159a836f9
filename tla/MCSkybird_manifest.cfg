\* Two sessions of one stream at a process with places for both.
SPECIFICATION MCSafety
CONSTANTS
    Ids = {1, 2}
    Streams = {x}
    Supervisors = {a}
    MaxSessions = 2
    MaxRestarts = 1
    MaxFailures = 2
    MaxResumes = 1
    MaxFaults = 1
    Nobody = Nobody
INVARIANTS
    OneManifest
