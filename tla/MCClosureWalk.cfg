SPECIFICATION WalkSpec
CONSTANTS
    Root = "r"
    Bases <- MCBases
    BaseOf <- MCBaseOf
    Repo <- MCRepo
    Provided <- MCProvided
    Refused <- MCRefused
    Nowhere <- MCNowhere
    Worlds <- MCWorlds
    MaxDepth = 2
    MaxNodes = 4
    MaxDepsPerNode = 2
INVARIANTS
    NoGapMeansComplete
PROPERTY Terminates
CHECK_DEADLOCK FALSE
