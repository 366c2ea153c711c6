SPECIFICATION PartsSpec
CONSTANTS
    None = None
    Partial = Partial
    c1 = c1
    c2 = c2
    r1 = r1
    f1 = f1
    f2 = f2
    d1 = d1
    d2 = d2
    d3 = d3
    v1 = v1
    v2 = v2
    p1 = p1
    p2 = p2
    i1 = i1
    i2 = i2
    t1 = t1
    t2 = t2
    w1 = w1
    k1 = k1
    k2 = k2
    x = x
    y = y
    Imports = {c1, c2}
    Readers = {r1}
    Files = {f1, f2}
    MaxFaults = 2
INVARIANTS
    EntryComplete
    SuccessDurable
    ManifestSound
    
    ArtifactsSound
PROPERTIES
    CatalogSound
CHECK_DEADLOCK FALSE
