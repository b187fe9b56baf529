\* Two kernels, eight inputs of seven identities, a stream too short for all of
\* them.
SPECIFICATION AppendSpec
CONSTANTS
    q1 = q1
    r1 = r1
    o1 = o1
    o2 = o2
    None = None
    Req = {q1}
    Effect = {}
    Worker = {}
    Reply = {r1}
    Outcome = {o1, o2}
    Epoch = {}
    Attempt = {}
    Appender = {k1, k2}
    Input <- MCInput
    MaxAttempts = 2
    MaxEvents = 5
SYMMETRY MCSymmetry
INVARIANTS
    AppendTypeOK
    IdentityStoredOnce
    AcknowledgedOnce
    SettledReplyReserved
PROPERTY KernelSpec
