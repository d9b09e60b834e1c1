CONSTANTS
    r1 = r1
    r2 = r2
    app = app
    lib = lib
    install = install
    plain = plain
    bad = bad
    Runs = {r1, r2}
    PkgBases = {app, lib}
    Files = {install}
    Contents = {plain, bad}
    Sessions <- MCSessions
    Staged <- MCStaged
    NamesOf <- MCNamesOf
    VcsTexts = {plain}
    HitTexts = {bad}
    MaxWrites = 2
    MaxUpsets = 1
SPECIFICATION Spec
CHECK_DEADLOCK FALSE
INVARIANTS
    HandedIsShownOrTold
    ApprovedWasShown
    CleanReviewIsWhole
