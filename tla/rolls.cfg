CONSTANTS
    NumBots = 1
    Declared = TRUE
    Container = FALSE
    MaxOps = 2
    MaxCrashes = 2
SPECIFICATION FairSpec
PROPERTY RollEnds
