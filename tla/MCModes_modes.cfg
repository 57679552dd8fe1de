SPECIFICATION Spec
CONSTANTS
    Clients = {c1, c2}
    Teams = {good, evil}
    NoTeam = NoTeam
    Nowhere = Nowhere
    Unowned = Unowned
    Bases = {b1, b2}
    Visited = {b1}
    OccupyEnemyLimit = 3
    OccupyNeutralLimit = 2
    TokenLimit = 1
    UnownedTokenLimit = 1
    ScoreLimit = 2
    MaxTokens = 2
    MaxForgotten = 1
SYMMETRY Symmetry
INVARIANTS NoPhantoms BasesTold TokensBounded
