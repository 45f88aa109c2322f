CONSTANTS
    NumWorkers = 2
    Callers = {loop}
    Main = main
    Batch <- MCBatch
    Stop = Stop
    NoWorker = NoWorker
    MaxQueue = 2
SPECIFICATION Spec
INVARIANTS TypeOK NoLostWakeup DrainedAtExit NothingUsesDestroyedWorker
PROPERTIES ImplementsTaskQueue StopReturns
