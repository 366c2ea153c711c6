SPECIFICATION PartsSpec
CONSTANTS
    None = None
    a1 = a1
    a2 = a2
    b1 = b1
    g1 = g1
    r1 = r1
    x1 = x1
    x2 = x2
    Calls = {a1, a2}
    Gets = {g1}
    RequestIds = {r1}
    IdOf <- TwoIds
    BodyOf <- TwoBodies
INVARIANTS
    ProfileSound
    FilesSound
    RemoteSound
PROPERTIES
    CapsuleSound
CHECK_DEADLOCK FALSE
