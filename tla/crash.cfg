CONSTANTS
    Chats = {c1, c2}
    Works = {}
    Prompts = {p1}
    NoMsg = NoMsg
    Budget = 1
    MaxAttempts = 2
    MaxInterrupts = 2
    MaxRedrives = 1
    MaxRestarts = 2
    MaxEscapes = 2
    Shutdowns = TRUE
    Steering = FALSE
    UserOrder = FALSE
SYMMETRY Symmetry
CONSTRAINT FewStops
SPECIFICATION Spec
CHECK_DEADLOCK FALSE
INVARIANTS TypeOK AnsweredOnce OpenIsCarried StartsWithinBudget
