SPECIFICATION Spec
CONSTANTS
    Runs = {"r1", "r2", "r3"}
    MaxDays <- MCMaxDays
    Sessions <- MCSessions
INVARIANT PinHidesItsFinding
CHECK_DEADLOCK FALSE
