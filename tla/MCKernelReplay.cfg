\* The smallest instance with one of everything: can an accepted completion make
\* the stream unreadable?
SPECIFICATION Spec
CONSTANTS
    None = None
    Req = {q1}
    Effect = {x1}
    Worker = {w1}
    Reply = {r1}
    Outcome = {o1}
    Epoch = {c1}
    Attempt = {1}
CHECK_DEADLOCK FALSE
INVARIANT CompletionReplays
