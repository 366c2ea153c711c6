SPECIFICATION Spec
CONSTANTS
    t1 = t1
    t2 = t2
    None = None
INVARIANTS
    ConnectionSound
    WorkflowSound
    WireSound
PROPERTIES
    ClientsSettle
CHECK_DEADLOCK FALSE
