\* The lock without faults: two waiting callers and one that tries, once each.
SPECIFICATION Spec
CONSTANTS
    None = None
    NoCaller = NoCaller
    LockCaller = {"c1", "c2", "c3"}
    TryCaller = {"c3"}
    LockFaultKind = {}
    MaxLockFaults = 0
    MaxLockCalls = 1
\* every append, run, lock and call is over
CHECK_DEADLOCK FALSE
PROPERTIES
    MutexSpec
    CallsReturn
    DeadWorkIsTakenUp
