SPECIFICATION Spec
CONSTANTS
    alice = alice  bob = bob  ghost = ghost
    r1 = r1  r2 = r2  r3 = r3  r4 = r4
    Users = {alice, bob}
    Strangers = {ghost}
    DUTs = {"1"}
    SonicPoints = {"1", "2"}
    Owner <- OwnerOf
    Contained <- TextOf
    Requests = {r1, r2, r3}
    Kinds = {"borrow", "return", "ai", "page_borrow", "page_return"}
    MaxFaults = 1
    NoDevice = NoDevice  NoName = NoName
SYMMETRY Symmetry
CHECK_DEADLOCK FALSE
INVARIANTS TypeOK HolderAccountable MailNamesBorrower LoserIsTold PageComplete
PROPERTIES LendingIsRespected
