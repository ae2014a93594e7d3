CONSTANTS
    t1 = t1
    t2 = t2
    None = None
    Terminal = {t1, t2}
    Pattern <- Patterns
    AppId <- Names
    Default <- Wild
    Key <- Keys
    Length <- Lengths
    Size <- Sizes
    MaxSections = 2
    MaxFaults = 1
SPECIFICATION Spec
SYMMETRY TwoTerminals
INVARIANTS
    TypeOK
    PolicyIsMeant
    BrokenHasReason
    ToldIsKept
