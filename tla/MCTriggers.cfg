CONSTANTS
    Fn = {f1, f2}
    Trigger = {t1, t2}
    Capacity = 1
    MaxEdits = 2
    MaxWeight = 2
    None = None
SPECIFICATION FairSpec
INVARIANT CanaryShares
PROPERTIES RoutesFollow 
CHECK_DEADLOCK FALSE
