\* A saved key is not used.
SPECIFICATION Spec
CONSTANTS
    None = None
    m1 = m1
    m2 = m2
    o1 = o1
    c1 = c1
    c2 = c2
    d1 = d1
    d2 = d2
    d3 = d3
    Dir = {d1, d2, d3}
    Default = d1
    FaultKind = {"read", "persist", "copy", "swap", "commit", "foreign"}
    MaxWrites = 2
    MaxMigrations = 2
    MaxFaults = 2
    MaxCrashes = 1
    Nothing = Nothing
    Caller = {"boot", "save", "key"}
    Content = {c1, c2}
    Stream = {"s", "t"}
    MaxRetired = 2
    MaxRunners = 4
    MaxSaves = 3
    MaxKeys = 1
    MaxBuildFaults = 1
\* the bounds are reached
CHECK_DEADLOCK FALSE
INVARIANT KeyIsUsed
