CONSTANTS
    MinSize = 4
    MaxSize = 14
    Suggested = 4
    Streams <- MCStreams
SPECIFICATION Spec
INVARIANTS TypeOK InStep RefusedOnlyIfTooLarge
PROPERTIES AllDispatched ImplementsCommandStream KeepsReading
