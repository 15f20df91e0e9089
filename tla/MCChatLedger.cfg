CONSTANTS
    c1 = c1
    c2 = c2
    c3 = c3
    e1 = e1
    e2 = e2
    m1 = m1
    NoCall = NoCall
    Events = {e1, e2}
    Media = {m1}
    Calls = {c1, c2}
    Capacity = 1
    MaxFresh = 2
    MaxChunks = 1
    Legacy = {e1, e2}
SPECIFICATION FairSpec
INVARIANTS TypeOK ServedOnDisk OnlyLostRegenerated OneRun
PROPERTIES CallsReturn
