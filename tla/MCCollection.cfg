SPECIFICATION Spec
CONSTANTS
    Paths <- MCPaths
    Parent <- MCParent
    Order <- MCOrder
    Texts <- MCTexts
    Size <- MCSize
    Sessions <- MCSessions
    SweepTrees <- MCSweep
    Watched = {"etc/c"}
    Workers = 2
    MaxChanges = 1
    MaxFaults = 1
INVARIANTS
    PassedWasThere
    NothingIsSilent
PROPERTIES
    EvidenceIsFinal
    ScanEnds
CHECK_DEADLOCK FALSE
