SPECIFICATION PagesSpec
CONSTANTS
    alice = alice  bob = bob  r1 = r1  r2 = r2  r3 = r3
    Requests = {r1, r2, r3}
    People = {alice, bob}
    Users = {alice, bob}
    NoUser = NoUser
    MaxId = 2
    MaxFaults = 1
SYMMETRY Symmetry
CHECK_DEADLOCK FALSE
INVARIANTS PagesTypeOK TotalsBounded TotalsKept UniqueIds TicketsSurvive AuthorKept MembersJoined
PROPERTIES MembershipRespected
