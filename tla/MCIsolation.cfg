SPECIFICATION LiveSpec
CONSTANTS
    Main = 0
    Others = {1, 2}
    Limit = 1
    MaxMade = 2
    Files = 2
    MaxWrites = 1
    MaxRounds = 2
    MaxInterrupts = 1
    NoRecord = NoRecord
    NoReason = NoReason
    NoCode = NoCode
CONSTRAINTS
    SavedMatters
    InOrder
    SecondForkIsUndisturbed
INVARIANTS
    ResultIsTrue
    OutputsAreOneSnapshot
PROPERTIES
    RunEnds
CHECK_DEADLOCK FALSE
