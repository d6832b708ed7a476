CONSTANTS
    Req = {r1, r2}
    Fn = {f1, f2}
    Pod = {p1, p2}
    None = None
    Failed = Failed
    MaxRestarts = 1
SPECIFICATION MCSpec
INVARIANTS CreationRecorded 
PROPERTIES FlightSpec 
CHECK_DEADLOCK FALSE
