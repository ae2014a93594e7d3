CONSTANTS
    c1 = c1
    c2 = c2
    app1 = app1
    d1 = d1
    d2 = d2
    None = None
    Client = {c1, c2}
    App = {app1}
    Digest = {d1, d2}
    LayersOf <- OneLayer
    Polite = {c1, c2}
    Sticky = {}
    Swept = {}
    MaxAbandoned = 0
    MaxStack = 1
    MaxRestarts = 0
SPECIFICATION Spec
PROPERTY HeldStaysWhole
