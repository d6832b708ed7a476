CONSTANTS
  p1 = p1
  p2 = p2
  c1 = c1
  c2 = c2
  k1 = k1
  Packages = {p1, p2}
  Clients = {c1, c2}
  Sums = {k1}
  MaxUploads = 2
  MaxWrites = 3
  MaxFaults = 1
  Functions = {"f1"}
  Namespaces = {"n1", "n2"}
  Own = "n1"
  MaxRetries = 2
  MaxEdits = 2
  MaxErrors = 1
  Attempts = 2
  PkgRetries = 2
  LoadRetries = 2
  MaxVersion = 2
  MaxLost = 2
SPECIFICATION MCSpec
INVARIANTS  GrantKept 
PROPERTY PodsSettle
