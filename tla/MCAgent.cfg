SPECIFICATION Spec
CONSTANTS
    p1 = p1
    p2 = p2
    p3 = p3
    r1 = r1
    None = None
    Process = {p1, p2, p3}
    Run = {r1}
    FaultKind = {"renew", "release", "append", "recover"}
    MaxGrants = 4
    LastRenewal = 2
    MaxFaults = 2
    MaxCrashes = 2
    Unset = Unset
    Call <- Calls
    Op <- Ops
    OpOf <- Asks
    Access <- Accesses
    Exclusive = {"shell"}
    ReadOnly = {"read"}
    Shell = {"shell"}
    ReRunnable = {"write a", "write b", "rewrite a", "update a"}
    Rounds <- Writing
    MaxParallel = 3
    MaxRepeat = 3
    Capacity = 5
    BatchFaultKind = {"deny", "lease", "release", "intent", "checkpoint", "throw", "timeout",
                      "hang", "settle", "abort", "renew"}
    MaxBatchFaults = 2
\* every batch is answered, every run is over
CHECK_DEADLOCK FALSE
SYMMETRY ProcessesAlike
INVARIANTS
    RunIsOwned
    EffectsAreMadeOnce
    NoReplay
    LedgerIsTrue
PROPERTIES
    LeaseOwnership
