CONSTANTS
    Nonces = {n1, n2, n3}
    Inputs = {i1, i2}
    Members = {m1, m2}
    Handlers = {h1, h2}
    NoInput = NoInput
    LEDGER_CAP = 2
    MaxRequests = 5
SYMMETRY Symmetry
SPECIFICATION Spec
CHECK_DEADLOCK FALSE
INVARIANTS TypeOK OneDispatch AcceptedIsSent
