CONSTANTS
    None = None
    Name <- Names
    PackSpecs <- Specs
    Environments <- Found
    Lasting <- Always
    Volatile <- CanGo
    SystemCall <- Calls
    MaxGone = 1
SPECIFICATION Spec
CHECK_DEADLOCK FALSE
INVARIANTS
    TypeOK
    OnlyGranted
    GrantsHold
    FailureExplained
    NetworkAgrees
    CallsAreJudged
