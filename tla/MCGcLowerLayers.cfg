CONSTANTS
    cli = cli
    other = other
    app = app
    other_app = other_app
    d1 = d1
    d2 = d2
    d3 = d3
    r1 = r1
    r2 = r2
    s1 = s1
    low = low
    high = high
    None = None
    Torn = Torn
    Proc = {cli}
    App = {app}
    Digest = {d1, d2}
    Release = {r1, r2}
    Perm = {low}
    BundlePerm = low
    AppOf <- AppOfOne
    LayersOf <- LayersOfOne
    May <- Alone
    Busy = {}
    MaxFaults = 0
SPECIFICATION Spec
INVARIANT GcKeepsInstalledLayers
