\* One session, two supervisors, one fault, a capture that may be requeued and
\* resumed: the clock, and the promises of SkybirdSessions with their liveness.
SPECIFICATION MCSpec
CONSTANTS
    Ids = {1}
    Streams = {x}
    Supervisors = {a, b}
    MaxSessions = 1
    MaxRestarts = 1
    MaxFailures = 1
    MaxResumes = 1
    MaxFaults = 1
    Nobody = Nobody
PROPERTIES
    NoClockAcrossPause
    KeepsSessionPromises
    FfmpegGoes
