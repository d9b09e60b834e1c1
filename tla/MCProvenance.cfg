SPECIFICATION Spec
CONSTANTS
    Commits <- MCCommits
    Parents <- MCParents
    Order <- MCOrder
    Refs = {"main", "other"}
    MaxRefDepth = 2
    MaxDeltaDepth = 1
    MaxPacks = 2
    Runs = {"r1", "r2", "r3"}
    Sessions <- MCSessions
    MaxLog = 1
    MaxReview = 4
INVARIANTS
    DeltaIsTrue
    SnapshotIsWhole
    NewestIsRecent
CHECK_DEADLOCK FALSE
