CONSTANTS
    NumWorkers = 1
    Main = main
    Loop = loop
    StopMarker = Stop
    NoWorker = NoWorker
    Handles = {h1}
    NoHandle = NoHandle
    NoConn = NoConn
    MaxConns = 1
    MaxCmds = 3
    MaxLoad = 3
SPECIFICATION Spec
PROPERTIES ImplementsService ProcessEnds LateOnlyIfOwed
