SPECIFICATION Spec
CONSTANTS
    Tag = {"t1", "t2"}
    Fid = {"f1"}
    MaxGeneration = 3
    MaxAsyncRequests = 2
INVARIANTS
    TypeOK
    ActiveCountsWorkers
    RunningIsCancellable
    ResetWaitsForWorkers
PROPERTIES
    KeepsReplyContract
    ResetCompletes
    CancelledWorkersExit
