SPECIFICATION BansSpec
CONSTANTS
    Ips = {i1, i2}
    Durations = {0, 1, 3}
    Width = 32
    Horizon = 8
    MaxBans = 3
INVARIANTS SortedByEnd NoOverdueBan
PROPERTY ImplementsBanSpec
