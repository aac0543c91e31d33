CONSTANTS
    NumBots = 2
    Declared = TRUE
    Container = TRUE
    MaxOps = 1
    MaxCrashes = 1
SPECIFICATION Spec
INVARIANTS TypeOK CompleteReleases OneAtATime
PROPERTIES WorkSurvivesRestart CompleteIsUpdated
