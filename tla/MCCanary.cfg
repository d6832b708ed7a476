CONSTANTS
    Worker = {w1, w2}
    Full = 3
    Increment = 2
    MaxRetries = 2
    MaxErrors = 1
    MaxGen = 1
    NoCfg = NoCfg
    NoTrigger = NoTrigger
    NoWorker = NoWorker
SPECIFICATION FairSpec
INVARIANT WorkerCanBeCancelled
PROPERTIES GradualRollout  RolloutEnds
CHECK_DEADLOCK FALSE
