CONSTANTS
    Clients = {c1}
    NoClient = NoClient
    NumWorkers = 3
SPECIFICATION Spec
INVARIANTS HandlesOutliveLoop
