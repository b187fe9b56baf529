\* Every legal event sequence of one run, to its end: the state space is
\* finite, no bound is added.
SPECIFICATION Spec
CONSTANTS
    None = None
    Req = {q1, q2}
    Effect = {x1, x2}
    Worker = {w1}
    Reply = {r1}
    Outcome = {o1}
    Epoch = {c1}
    Attempt = {1}
SYMMETRY MCSymmetry
\* a completed run, and one whose stream no longer replays, accept nothing
CHECK_DEADLOCK FALSE
INVARIANTS
    TypeOK
    CompletedRunAccounted
    PublishedRunNeverFails
PROPERTIES
    PastIsKept
