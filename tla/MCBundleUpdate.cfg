SPECIFICATION Spec
CONSTANTS
    r1 = r1
    r2 = r2
    r3 = r3
    k1 = k1
    k2 = k2
    Roots <- MCRoots
    Threshold = 2
    Generation = 1
    MaxSilence = 1
    Absent = Absent
    NoFloor = NoFloor
    Publications <- MCPublications
    Updates = {u1, u2}
    Versions = {v1}
    NoRun = NoRun
    MaxTime = 1
    MaxMoves = 1
INVARIANTS
    HeadDigestIsOfVersion
    NoRollback
    ExitZeroIsRecorded
PROPERTY FloorOnlyRises
CONSTRAINT ReadersFollow
SYMMETRY UpdateSymmetry
CHECK_DEADLOCK FALSE
