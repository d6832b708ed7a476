CONSTANTS
    Build = {b1, b2}
    MaxEdits = 1
    MaxErrors = 1
    MaxRestarts = 1
SPECIFICATION FairSpec
INVARIANTS OneBuildAtATime FreshCode
PROPERTIES SucceededIsBuilt BuildEnds
CHECK_DEADLOCK FALSE
