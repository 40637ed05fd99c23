SPECIFICATION Spec
CONSTANTS
    alice = alice  bob = bob  ghost = ghost
    r1 = r1  r2 = r2  r3 = r3  r4 = r4
    Users = {alice, bob}
    Strangers = {ghost}
    DUTs = {"1"}
    SonicPoints = {}
    Owner <- OneOwner
    Contained <- OneDistinct
    Requests = {r1, r2}
    Kinds = {"borrow"}
    MaxFaults = 0
    NoDevice = NoDevice  NoName = NoName

CHECK_DEADLOCK FALSE
PROPERTIES OnlyFreeIsLent
