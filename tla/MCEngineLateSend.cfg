CONSTANTS
    NumWorkers = 2
    Main = main
    Loop = loop
    StopMarker = Stop
    NoWorker = NoWorker
    Handles = {h1}
    NoHandle = NoHandle
    NoConn = NoConn
    MaxConns = 1
    MaxCmds = 1
    MaxLoad = 1
SPECIFICATION SafeSpec
INVARIANT NotifyFindsAsync
