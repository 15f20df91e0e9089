CONSTANTS
    w1 = w1
    w2 = w2
    w3 = w3
    s1 = s1
    s2 = s2
    quit = quit
    owner = owner
    sms = sms
    NoWork = NoWork
    Quit = quit
    Missions = {owner}
    Micro = {sms}
    Works = {w1, w2}
    Keys = {owner, sms}
    Stops = {s1}
SPECIFICATION Spec
SYMMETRY WorkSymmetry
INVARIANTS TypeOK JournalConsistent StopReached NoZombie
CHECK_DEADLOCK FALSE
