CONSTANTS
    Handles = {h1}
    NoHandle = NoHandle
    NoConn = NoConn
    MaxConns = 1
    Senders = {w1}
    Reply <- MCReply
    Backlog <- MCOne
SPECIFICATION SafeSpec
INVARIANT HandlesReleased
