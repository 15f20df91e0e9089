CONSTANTS
    c1 = c1
    c2 = c2
    r1 = r1
    r2 = r2
    NoCall = NoCall
    Calls = {c1}
    Reconcilers = {r1, r2}
    LastAction = 2
    LateEvidence = TRUE
    MaxEffects = 2
    MaxCrashes = 1
SPECIFICATION Spec
INVARIANT CompletedVerified
