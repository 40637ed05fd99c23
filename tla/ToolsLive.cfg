SPECIFICATION FairToolSpec
CONSTANTS
    alice = alice  bob = bob  carol = carol  c1 = c1  r1 = r1  r2 = r2
    Users = {alice, bob}
    Strangers = {carol}
    DUTs = {"1"}
    SonicPoints = {}
    Owner <- OneOwner
    Contained <- OneText
    Requests <- FewRequests
    Kinds = {"borrow"}
    MaxFaults = 1
    NoDevice = NoDevice  NoName = NoName
    Calls = {c1}
    RetryCount = 2
CHECK_DEADLOCK FALSE
PROPERTIES EveryCallEnds
