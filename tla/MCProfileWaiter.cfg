SPECIFICATION FairSpec
CONSTANTS
    None = None
    a1 = a1
    a2 = a2
    r1 = r1
    Calls = {a1, a2}
    Gets = {}
    RequestIds = {r1}
    IdOf <- OneId
    BodyOf <- OneBody
PROPERTIES
    SubmitAnswered
CHECK_DEADLOCK FALSE
