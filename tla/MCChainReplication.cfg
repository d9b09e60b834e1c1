SPECIFICATION SpecR
CONSTANTS
    Keys = {k1, k2}
    Trusted = {k1}
    Payloads <- MCPayloads
    Runs = {r1, r2}
    NoRun = NoRun
    MaxTime = 0
    MaxTransactions = 1
    Pushers = {p1, p2}
    Readers = {q1}
    NoFile = NoFile
SYMMETRY PushSymmetry
INVARIANTS
    AnchorIsTrue
    CleanIsPushed
CHECK_DEADLOCK FALSE
