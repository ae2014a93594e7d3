CONSTANTS
    cli = cli
    other = other
    app = app
    other_app = other_app
    d1 = d1
    d2 = d2
    d3 = d3
    r1 = r1
    r2 = r2
    s1 = s1
    low = low
    high = high
    None = None
    Torn = Torn
    Proc = {cli, other}
    App = {app}
    Digest = {d1, d2}
    Release = {r1, r2}
    Perm = {low}
    BundlePerm = low
    AppOf <- AppOfOne
    LayersOf <- LayersOfOne
    May <- BesideDaemon
    Busy = {d1}
    MaxFaults = 1
SPECIFICATION Spec
INVARIANTS
    TypeOK
    TornOnlyByFault
    LinksStored
