CONSTANTS
    Call = {c1, c2, c3}
    Key = {k1, k2}
    NoLock = NoLock
SPECIFICATION FairSpec
INVARIANTS ReleasedExactlyOnce LockHasReleaser FollowerAfterRelease
PROPERTY WaiterReturns
CHECK_DEADLOCK FALSE
