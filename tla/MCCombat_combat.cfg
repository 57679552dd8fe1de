SPECIFICATION Spec
CONSTANTS
    Cns = {c1, c2}
    Ids = {p1}
    Memory = {127}
    LifeSequences = 128
    ProjectileSlots = 1
    EventSlots = 1
    DeathMillis = 1
    GameLimit = 2
    MaxHealth = 1
    Damages = {1}
    Lags = {0, 1}
    MaxHits = 1
    MaxJoins = 2
    MaxSpawns = 2
    MaxInputs = 3
SYMMETRY Symmetry
INVARIANTS SpawnsAnswerTheLast HitsMeetTheirLife ShotsOfThisLife OneDeathPerLife NoMoreExplosionsThanLaunched ExplosionsAreKept
CHECK_DEADLOCK FALSE
