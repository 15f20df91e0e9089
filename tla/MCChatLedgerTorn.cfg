CONSTANTS
    c1 = c1
    c2 = c2
    c3 = c3
    e1 = e1
    e2 = e2
    m1 = m1
    NoCall = NoCall
    Events = {e1, e2}
    Media = {}
    Calls = {c1}
    Capacity = 2
    MaxFresh = 3
    MaxChunks = 0
    Legacy = {}
SPECIFICATION Spec
INVARIANT AnsweredNotRegenerated
