SPECIFICATION FairSpec
CONSTANTS
    Clients = {c1, c2}
    Games = {dm, ctf, coop}
    NoGame = NoGame
    Timed = {dm, ctf}
    Rotation = {dm}
    NewMap = coop
    maxclients = 4
    overtime = TRUE
    lockmaprotation = FALSE
    Length = 2
    Overtime = 1
    Intermission = 1
    MaxMillis = 3
INVARIANTS VotesAreForNow IntermissionKeepsItsTime
PROPERTIES MatchGivesWay
