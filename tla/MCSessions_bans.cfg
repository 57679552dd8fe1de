SPECIFICATION Spec
CONSTANTS
    Cns = {c1, c2}
    Ips = {i1, i2}
    Requests = {"admin", "invadmin", "kick", "authkick", "ban", "lockspec", "cheat", "teamkill"}
    maxclients = 3
    publicserver = 1
    serverpass = FALSE
    restrictpausegame = FALSE
    enablemultiplemasters = FALSE
    no_single_private = FALSE
    clearbansonempty = TRUE
    limitteamkills = TRUE
SYMMETRY Symmetry
INVARIANTS LockedNeverPlays
PROPERTIES EmptyingClearsBans AdminsStay
