CONSTANTS
    d1 = d1
    d2 = d2
    p1 = p1
    p2 = p2
    None = None
    Garbage = Garbage
    Digest = {d1, d2}
    Size <- Sizes
    StubLen = 1
    BinLen = 2
    Content <- Contents
    Perm = {p1, p2}
    BundlePerm = p1
SPECIFICATION Spec
INVARIANTS
    TypeOK
    WholeReadsBack
    StubFindsWhole
    SignatureStands
