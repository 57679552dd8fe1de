SPECIFICATION Spec
CONSTANTS
    Clients = {c1, c2}
    Flags = {good, evil}
    Teams = {good, evil}
    FlagTeam <- OneEach
    Modes = {"ctf", "protect", "hold"}
    Requests = {"pass", "balance", "spectate"}
    FlagLimit = 1
    MaxChanges <- ChangesPerMatch
    MaxInFlight = 1
    NoOne = NoOne
SYMMETRY Symmetry
INVARIANTS CarriersLive ClientsKnow NothingStaleHonoured DropperStays PassedIsMarked
