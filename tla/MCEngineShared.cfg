CONSTANTS
    NumWorkers = 2
    Main = main
    Loop = loop
    StopMarker = Stop
    NoWorker = NoWorker
    Handles = {h1, h2}
    NoHandle = NoHandle
    NoConn = NoConn
    MaxConns = 2
    MaxCmds = 2
    MaxLoad = 2
SPECIFICATION SafeSpec
SYMMETRY MCSymmetry
INVARIANTS TypeOK PipelineIntact
PROPERTIES AnswersInOrder KeepsPoolContract
