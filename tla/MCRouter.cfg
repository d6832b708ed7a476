CONSTANTS
    Req = {r1, r2}
    Fn = {f1, f2}
    Url = {u1, u2}
    MaxRetries = 3
    SvcAddrRetryCount = 1
    MaxFaults = 1
    None = None
    NoLock = NoLock
SPECIFICATION FairSpec
INVARIANTS CalmRequestsSucceed RightBackend
PROPERTIES  EveryRequestEnds
CHECK_DEADLOCK FALSE
