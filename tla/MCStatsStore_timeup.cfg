SPECIFICATION Spec
CONSTANTS
    Cns = {c1, c2}
    Ips = {i1, i2}
    Names = {n1, n2}
    Requests = {"timeup"}
    Twins = FALSE
    MaxFrags = 2
SYMMETRY Symmetry
INVARIANTS AllKept
