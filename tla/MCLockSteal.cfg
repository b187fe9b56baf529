\* The recovery of a dead owner of the lock: nobody keeps two callers from holding it.
\* The inbox beside it: two callers in two processes, one of which may crash; no write fails.
SPECIFICATION Spec
CONSTANTS
    NoCaller = NoCaller
    LockCaller = {"c1", "c2", "c3"}
    TryCaller = {"c3"}
    LockFaultKind = {"die", "write", "read", "unlink"}
    MaxLockFaults = 2
    MaxLockCalls = 1
    None = None
    Process = {"p", "q"}
    Caller = {"a", "b"}
    proc <- HomeOf
    Command = {"i", "bad"}
    Illegal = {"bad"}
    MaxClaims = 4
    MaxCalls = 2
    MaxCrashes = 1
    MaxFaults = 0
    \* the usage index, whose writers live in the process of the service
    NoRun = NoRun
    MaxRun = 2
    MaxEvents = 2
    Budget = 1
    SameProcess = TRUE
    Trusted = TRUE
    History = {2}
    UsageFaultKind = {"persist", "read", "crash"}
    MaxUsageFaults = 1
    MaxUsageRequests = 2
\* every caller has made its calls
CHECK_DEADLOCK FALSE
INVARIANT MutualExclusion
