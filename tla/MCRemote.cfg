SPECIFICATION PartsSpec
CONSTANTS
    None = None
    c1 = c1
    c2 = c2
    g1 = g1
    k1 = k1
    k2 = k2
    a1 = a1
    Conns = {c1, c2}
    Kinds = {"submitProfile"}
    MaxFrames = 1
    max_remote_connections = 2
    MAX_CONCURRENT_AUTHENTICATIONS = 1
INVARIANTS
    InputsSound
PROPERTIES
    RemoteSettles
CHECK_DEADLOCK FALSE
