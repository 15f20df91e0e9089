CONSTANTS
    q1 = q1
    q2 = q2
    h1 = h1
    h2 = h2
    none = none
    Questions = {q1}
    Handlers = {h1, h2}
    None = none
    MaxSends = 1
    MaxFaults = 0
    MaxEpoch = 0
SPECIFICATION Spec
INVARIANT OneVisibleAnswer
CHECK_DEADLOCK FALSE
