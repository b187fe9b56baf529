SPECIFICATION Spec
CONSTANTS
    None = None
    m1 = m1
\* every batch, run, event, turn, request and attempt is done with
CHECK_DEADLOCK FALSE
PROPERTIES
    WorkEnds
    RecordsAreSettled
