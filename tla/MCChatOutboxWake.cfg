CONSTANTS
    m1 = m1
    m2 = m2
    loop = loop
    wake = wake
    Messages = {m1}
    Chunks = {}
    Loop = loop
    Wakes = {wake}
    MaxAttempts = 2
    MaxRetries = 0
    EagerUser = FALSE
SPECIFICATION Spec
INVARIANT NeverLost
