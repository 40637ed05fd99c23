SPECIFICATION ToolSpec
CONSTANTS
    alice = alice  bob = bob  carol = carol  c1 = c1  r1 = r1  r2 = r2
    Users = {alice, bob}
    Strangers = {}
    DUTs = {"1"}
    SonicPoints = {}
    Owner <- OneOwner
    Contained <- OneDistinct
    Requests <- AllRequests
    Kinds = {"borrow", "return"}
    MaxFaults = 1
    NoDevice = NoDevice  NoName = NoName
    Calls = {c1}
    RetryCount = 1
SYMMETRY Symmetry
CHECK_DEADLOCK FALSE
INVARIANTS ToolTypeOK SuccessIsReal FailureExplained
