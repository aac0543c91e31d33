CONSTANTS
    Subs = {s1, s2}
    Events = {e1, e2}
    Urgent = {e2}
    NoKey = NoKey
    MaxSecret = 2
    OutboxCap = 2
    SubsCap = 2
    MaxCopies = 2
    Hit = s1
CONSTRAINTS OneMishap Others
SPECIFICATION FairSpec
INVARIANTS TypeOK NotifiedOnce
PROPERTIES RenewalSurvives EveryRowIsSettled
