CONSTANTS
    Tasks = {t1}
    Actions = {a1, a2}
    Runs = {r1, r2}
    NoTask = NoTask
    NoAction = NoAction
    MaxRestarts = 1
SYMMETRY Symmetry
SPECIFICATION Spec
INVARIANTS TypeOK OwnsTask LedgerIsTrue NeverTwice
PROPERTIES KeepsPromise
