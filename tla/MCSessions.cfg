SPECIFICATION Spec
CONSTANTS
    \* an interrupted run that two turns resume through the resume route
    None = None
    Turn = {"t1", "t2"}
    Route = {"t1", "t2"}
    Waiting = FALSE
    MaxCrashes = 1
    MaxRebuilds = 0
    MaxFaults = 0
    MaxAbandons = 1
    \* compactions asked for
    NoRequest = NoRequest
    Request = {"softA", "softB", "hardC", "hardD"}
    Session = {"s", "t"}
    SessionOf <- AsksIn
    Hard = {"hardC", "hardD"}
    SoftLimit = 1
    Cancellable = {"softA", "hardC"}
    \* summaries of one session
    Nil = Nil
    Process = {"p", "q"}
    Op = {"a", "b", "c"}
    ProcessOf <- WorksIn
    KeepRecent = 1
    MaxMessages = 4
    Legacy = {}
    SummaryFaultKind = {}
    MaxSummaryFaults = 0
    MaxSummaryCrashes = 2
    MaxDeletes = 0
\* every checkpoint is decided, every request answered, every attempt has ended
CHECK_DEADLOCK FALSE
INVARIANTS
    OneResumer
    CompactionIsOrderly
    SummariesAreKept
PROPERTIES
    ChainSpec
    ResumesAreFinal
