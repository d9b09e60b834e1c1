SPECIFICATION Spec
CONSTANTS
    Parts = {"edits", "upstream", "drift", "correlation"}
    Keys = {k1, k2}
    Trusted = {k1}
    Payloads = {m1, m2, m3, m4}
    MaxLength = 3
    MaxTime = 1
    ChunkSize = 2
    Inquiries <- MCInquiries
    MaxFiles = 2
    MaxLines = 4
    Names = {"p", "q"}
    Versions = {1, 2}
    Digests = {1, 2}
    DriftSessions <- MCSessions
    Paths <- MCPaths
    Dir <- MCDir
    Matches <- MCMatches
    Admin = {"profile", "bin", "wants"}
    OwnedDirs = {"sys", "hooks", "profile", "bin"}
    Owned = {}
    Pkgs <- MCPkgs
    Window = 3
    Hosts <- MCHosts
INVARIANTS
    EditIsNamed
    AnchorSeesEveryEdit
    ProvenanceIsTrue
    DriftIsNamed
    OrdinaryUseIsQuiet
PROPERTIES
    TruncationBuysNothing
    EvidenceOnlyAdds
    InabilityIsAGap
CHECK_DEADLOCK FALSE
