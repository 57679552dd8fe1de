SPECIFICATION Spec
CONSTANTS
    Cns = {c1, c2, c3}
    Ips = {i1, i2}
    Requests = {"admin", "auth", "allowmaster", "veto", "pause", "server", "pban", "flagrun"}
    maxclients = 2
    publicserver = 0
    serverpass = TRUE
    restrictpausegame = TRUE
    enablemultiplemasters = TRUE
    no_single_private = TRUE
    clearbansonempty = TRUE
    limitteamkills = FALSE
SYMMETRY Symmetry
INVARIANTS MastermodeHeld PauseHeld AllowedOnlyInPrivate
