SPECIFICATION FairSpec
CONSTANTS
    Keys = {k1, k2}
    Trusted = {k1}
    Payloads <- MCPayloads
    Runs = {r1, r2}
    NoRun = NoRun
    MaxTime = 1
    MaxTransactions = 1
INVARIANTS
    TypeOK
    ChainVerifies
    PayloadsReadable
    SuccessIsRecorded
    FirstIsBaseline
PROPERTIES
    AppendOnly
    ImplementsLog
    EveryRunEnds
