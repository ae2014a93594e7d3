CONSTANTS
    c1 = c1
    c2 = c2
    app1 = app1
    d1 = d1
    d2 = d2
    None = None
    Client = {c1, c2}
    App = {app1}
    Digest = {d1, d2}
    LayersOf <- TwoLayers
    Polite = {c1}
    Sticky = {app1, d1}
    Swept = {d2}
    MaxAbandoned = 1
    MaxStack = 2
    MaxRestarts = 1
SPECIFICATION FairSpec
INVARIANTS
    TypeOK
    RefcountIsHolders
    NoRunIsTornDown
    OverlaysTracked
PROPERTIES
    ImplementsTable
    LeftoversRetried
