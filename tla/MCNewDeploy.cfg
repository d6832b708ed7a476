CONSTANTS
    MaxGo = 2
    MaxEvents = 2
    None = None
    NoLock = NoLock
SPECIFICATION FairSpec
 
PROPERTIES  GoroutinesEnd
CHECK_DEADLOCK FALSE
