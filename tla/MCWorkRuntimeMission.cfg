CONSTANTS
    w1 = w1
    w2 = w2
    w3 = w3
    s1 = s1
    s2 = s2
    quit = quit
    owner = owner
    sms = sms
    NoWork = NoWork
    Quit = quit
    Missions = {owner}
    Micro = {}
    Works = {w1, w2}
    Keys = {owner}
    Stops = {s1}
SPECIFICATION Spec
INVARIANT MissionHalted
CHECK_DEADLOCK FALSE
