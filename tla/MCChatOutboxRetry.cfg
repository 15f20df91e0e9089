CONSTANTS
    m1 = m1
    m2 = m2
    loop = loop
    wake = wake
    Messages = {m1}
    Chunks = {}
    Loop = loop
    Wakes = {}
    MaxAttempts = 2
    MaxRetries = 1
    EagerUser = TRUE
SPECIFICATION Spec
INVARIANT NeverLost
