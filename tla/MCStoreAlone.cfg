CONSTANTS
    cli = cli
    other = other
    app = app
    other_app = other_app
    d1 = d1
    d2 = d2
    d3 = d3
    r1 = r1
    r2 = r2
    s1 = s1
    low = low
    high = high
    None = None
    Torn = Torn
    Proc = {cli}
    App = {app, other_app}
    Digest = {d1, d2, d3}
    Release = {r1, r2, s1}
    Perm = {low, high}
    BundlePerm = low
    AppOf <- AppOfTwo
    LayersOf <- LayersOfTwo
    May <- Alone
    Busy = {d1, d3}
    MaxFaults = 0
SPECIFICATION Spec
INVARIANT AtRestConsistent
