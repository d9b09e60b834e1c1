SPECIFICATION SpecX
CONSTANTS
    Keys = {k1}
    Trusted = {k1}
    Payloads <- MCPayloads
    Runs = {r1, r2}
    NoRun = NoRun
    MaxTime = 0
    MaxTransactions = 1
    Pushers = {p1, p2}
    Readers = {q1}
    NoFile = NoFile
    MaxRestores = 1
SYMMETRY RunSymmetry
INVARIANT CleanIsWhole
CHECK_DEADLOCK FALSE
