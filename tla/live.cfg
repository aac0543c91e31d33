CONSTANTS
    Chats = {c1}
    Works = {w1}
    Prompts = {}
    NoMsg = NoMsg
    Budget = 1
    MaxAttempts = 2
    MaxInterrupts = 2
    MaxRedrives = 0
    MaxRestarts = 2
    MaxEscapes = 1
    Shutdowns = TRUE
    Steering = FALSE
    UserOrder = TRUE
SPECIFICATION FairSpec
CHECK_DEADLOCK FALSE
PROPERTIES EveryChatCloses EveryMessageLeaves
