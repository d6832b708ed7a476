CONSTANTS
    Caller = {c1, c2}
    Pool = {p1, p2}
    GenericPod = {q1}
    MaxVersion = 1
    MaxCalls = 2
    MaxErrors = 1
    Nil = Nil
SPECIFICATION FairPoolsSpec
PROPERTIES PodChosenOnce  OldPoolsGo
CHECK_DEADLOCK FALSE
