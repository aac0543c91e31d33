CONSTANTS
    Chats = {c1, c2}
    Prompts = {p1}
    Runs = {r1, r2}
    NoRun = NoRun
    NoMsg = NoMsg
    Values = {yes, no}
    Confirm = yes
    NoValue = NoValue
    MaxTasks = 2
    MaxRevisions = 2
    MaxCrashes = 1
    MaxFaults = 1
SPECIFICATION FairSpec
INVARIANTS TypeOK HandedOnce PostedOnce
PROPERTIES DecisionIsFinal EveryAnswerIsTaken
CONSTRAINT OneEvent
