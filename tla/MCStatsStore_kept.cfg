SPECIFICATION Spec
CONSTANTS
    Cns = {c1, c2}
    Ips = {i1, i2}
    Names = {n1, n2}
    Requests = {"stats", "spectate", "timeup", "midmatch", "flagrun", "busy"}
    Twins = FALSE
    MaxFrags = 4
SYMMETRY Symmetry
INVARIANTS NothingLost NothingTwice
