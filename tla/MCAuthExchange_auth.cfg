SPECIFICATION FairSpec
CONSTANTS
    Clients = {c1, c2}
    Names = {n1, n2}
    NoOne = NoOne
    MaxRequests = 3
    MaxOut = 2
INVARIANTS AnswersMatch VictimStays PendingIsAlive
PROPERTIES ConnectingEnds
