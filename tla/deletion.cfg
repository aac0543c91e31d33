CONSTANTS
    Pids = {q1, q2}
    NoPid = NoPid
    NoJob = NoJob
    Strangers = {x1}
    MaxAdds = 2
    MaxRemoves = 2
    MaxRestarts = 1
    MaxFaults = 1
SPECIFICATION FairSpec
INVARIANTS TypeOK PurgeIsSafe OneAgent
PROPERTY DeletionEnds
CONSTRAINT OnTrack
CHECK_DEADLOCK FALSE
