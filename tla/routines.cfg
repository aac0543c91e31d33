CONSTANTS
    Routs = {r1}
    NoRout = NoRout
    MaxMinute = 1
    CronMinutes = {1}
    Grace = 0
    MaxRevisions = 1
    MaxAttempts = 2
    MaxFaults = 1
    MaxCrashes = 1
SPECIFICATION FairSpec
CHECK_DEADLOCK FALSE
CONSTRAINT OneEvent
INVARIANTS TypeOK OnceUnlessRaced RecordedIsSent
PROPERTIES SaveKeepsRecords EveryOneShotFires EveryOccurrenceLeaves
