CONSTANTS
    d1 = d1
    d2 = d2
    d3 = d3
    s1 = s1
    s2 = s2
    Devices = {d1, d2}
    Sockets = {s1, s2}
    None = None
    Torn = Torn
    MAX_PAIRING_ATTEMPTS = 1
    MAX_DEVICES = 2
    MaxWindows = 3
    MaxJobs = 1
    MaxRestarts = 1
SPECIFICATION Spec
INVARIANT PairingKept
SYMMETRY Symmetry
