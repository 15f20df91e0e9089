CONSTANTS
    m1 = m1
    m2 = m2
    loop = loop
    wake = wake
    Messages = {m1}
    Chunks = {m1}
    Loop = loop
    Wakes = {wake}
    MaxAttempts = 2
    MaxRetries = 1
    EagerUser = TRUE
SPECIFICATION FairSpec
INVARIANTS TypeOK LostOnlyContested
PROPERTY ReachesThePc
VIEW OneMessage
