CONSTANTS
    r1 = r1
    r2 = r2
    d1 = d1
    d2 = d2
    None = None
    Run = {r1, r2}
    Daemon = {d1, d2}
    InPath = {r2}
    NotInPath = {r1, r2}
    Embedded <- BothBinaries
    MaxFaults = 1
SPECIFICATION FairSpec
INVARIANTS
    TypeOK
    OneServes
    TornByAnother
PROPERTY LaunchEnds
