CONSTANTS
    c1 = c1
    c2 = c2
    e1 = e1
    e2 = e2
    NoCall = NoCall
    Events = {e1}
    Media = {}
    Calls = {c1, c2}
    Capacity = 1
    MaxFresh = 2
    MaxChunks = 2
    Legacy = {}
SPECIFICATION StreamSpec
INVARIANTS StreamTypeOK FramesAgree OneAnswerPerMessage FragmentsSurvive
PROPERTY NothingAfterTerminal
