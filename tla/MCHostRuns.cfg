SPECIFICATION Spec
CONSTANTS
    Runs = {"r1", "r2", "r3"}
    MaxDays <- MCMaxDays
    Sessions <- MCSessions
INVARIANTS
    ExitIsVerdict
    SinceLastIsDifference
    AnswersAreKept
    HiddenWasAnswered
    BaselineIsJudged
CHECK_DEADLOCK FALSE
