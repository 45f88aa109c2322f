CONSTANTS
    Clients = {c1, c2}
    NoClient = NoClient
    NumWorkers = 3
SPECIFICATION Spec
INVARIANTS ListedIsLive NothingRunsOn
PROPERTIES LifeEnds
