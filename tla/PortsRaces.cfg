SPECIFICATION PortsSpec
CONSTANTS
    v = v  j1 = j1  j2 = j2  j3 = j3
    NumPorts = 4
    Vendor <- FourPorts
    Lag = {2}
    AtFirst <- Found
    Vlans = {v}
    Unused = Unused  Unread = Unread  Shared = Shared
    Jobs = {j1, j2}
    Kinds = {"configure", "refresh", "refreshall", "resetvlan", "resetsw", "init"}
    MaxFaults = 1
SYMMETRY Symmetry
CHECK_DEADLOCK FALSE
INVARIANTS PortsTypeOK DatabaseAccountable
PROPERTIES RefreshRepairs SettingsAgree TaskResetsCisco
