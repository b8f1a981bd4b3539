SPECIFICATION FairService
CONSTANTS
    unit = unit
    byhand = byhand
    c1 = c1
    c2 = c2
    Daemons = {unit, byhand}
    Service = unit
    Clients = {c1, c2}
    StartLimit <- Lives
    Asked <- Calls
    NoDaemon = NoDaemon
    NoClient = NoClient
CHECK_DEADLOCK FALSE
INVARIANTS
    AnswerMeansDone
    LoneInstanceServes
PROPERTIES
    ServiceReturns
    NobodyWaitsForever
