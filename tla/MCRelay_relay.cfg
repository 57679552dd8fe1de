SPECIFICATION RelaySpec
CONSTANTS
    Clients = {c1, c2}
    Bots = {b}
    NoOne = NoOne
    Mtus = {1, 2}
    MaxItems = 2
    MaxMaps = 1
    MaxBuffers = 2
SYMMETRY Symmetry
INVARIANTS UsesArePackets ToldOnce ToldInTime
PROPERTIES EverybodyIsTold
