CONSTANTS
    MaxActions = 3
    MaxFailures = 3
    FastPath = FALSE
SPECIFICATION MissionSpec
INVARIANT CompletedVerified
