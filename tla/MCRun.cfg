SPECIFICATION RunSpec
SYMMETRY MCSymmetry
CONSTANTS
    Req = {q1, q2}
    Effect = {x1}
    Worker = {}
    Reply = {r1}
    Outcome = {o1, o2}
    Epoch = {}
    Attempt = {}
    None = None
    UnknownOutcome = o2
    MaxFaults = 2
    MaxCrashes = 1
INVARIANTS
    RunTypeOK
    PublicationIsOrdered
    OneDriver
    ToolRunsOnce
    StreamReplays
    ReportIsTrue
