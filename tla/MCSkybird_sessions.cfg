\* Two sessions competing for one place, two supervisors, one fault.
SPECIFICATION MCSafety
CONSTANTS
    Ids = {1, 2}
    Streams = {x, y}
    Supervisors = {a, b}
    MaxSessions = 1
    MaxRestarts = 0
    MaxFailures = 1
    MaxResumes = 0
    MaxFaults = 1
    Nobody = Nobody
SYMMETRY Interchangeable
INVARIANTS
    CapHolds
    NoOrphan
    RestartsBounded
