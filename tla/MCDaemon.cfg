SPECIFICATION Spec
CONSTANTS
    None = None
    Systemd = Systemd
    d1 = d1
    d2 = d2
    d3 = d3
    r1 = r1
    r2 = r2
    a = a
    b = b
    c = c
    r = r
INVARIANTS
    StartupSound
    ShutdownSound
PROPERTIES
    StartupSparesLive
    
CHECK_DEADLOCK FALSE
