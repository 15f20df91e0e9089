CONSTANTS
    m1 = m1
    m2 = m2
    loop = loop
    wake = wake
    Messages = {m1, m2}
    Chunks = {m2}
    Loop = loop
    Wakes = {}
    MaxAttempts = 2
    MaxRetries = 0
    EagerUser = FALSE
SPECIFICATION Spec
INVARIANTS TypeOK NeverLost
VIEW WithoutFailures
