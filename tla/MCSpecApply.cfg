SPECIFICATION ResourcesSpec
CONSTANTS
    a = a
    b = b
    r1 = r1
    r2 = r2
    d1 = d1
    None = None
    Bad = Bad
    Name = {a, b}
    First = a
    Client = {c1, c2}
    FirstClient = c1
    c1 = c1
    Route = {r1, r2}
    AnyRoute = r1
    Deployment = {d1}
    MaxCommands = 2
    Plans <- MCPlans
    Stores <- MCStores
INVARIANTS
    ApplyConverges
    
PROPERTIES
    OnlyOwn
