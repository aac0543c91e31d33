CONSTANTS
    Chats = {c1, c2}
    Works = {w1}
    Prompts = {}
    NoMsg = NoMsg
    Budget = 1
    MaxAttempts = 2
    MaxInterrupts = 2
    MaxRedrives = 0
    MaxRestarts = 3
    MaxEscapes = 0
    Shutdowns = FALSE
    Steering = TRUE
    UserOrder = FALSE
SYMMETRY Symmetry
CONSTRAINT TwoArrive
SPECIFICATION Spec
INVARIANT OpenIsCarried
