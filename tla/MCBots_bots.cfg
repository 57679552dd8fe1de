SPECIFICATION Spec
CONSTANTS
    Humans = {h1, h2, h3}
    MaxBots = 2
    BotLimits = {1}
    Requests = {"kick", "balance", "autoadd", "spectate"}
    NoOne = NoOne
SYMMETRY Symmetry
INVARIANTS OwnersAgree Settled OwnersMayPlay NoBotsAlone
