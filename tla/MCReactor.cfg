CONSTANTS
    Handles = {h1, h2}
    NoHandle = NoHandle
    NoConn = NoConn
    MaxConns = 2
    Senders = {w1, w2}
    Reply <- MCReply
    Backlog <- MCTwo
SPECIFICATION Spec
INVARIANTS TypeOK NoStrandedReply TableMatchesHandles NoCloseInFlightAtExit
PROPERTIES RepliesDrained DestructorReturns
