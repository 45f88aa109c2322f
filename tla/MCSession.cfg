CONSTANTS
    Commands <- MCCommands
    MaxSent = 2
    Bytes <- MCBytes
SPECIFICATION SessionSpec
INVARIANTS TypeOK Understood NothingInvented RepliesMatch
PROPERTIES ImplementsCommandStream AllAnswered
