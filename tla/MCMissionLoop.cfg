CONSTANTS
    MaxActions = 3
    MaxFailures = 3
    FastPath = TRUE
SPECIFICATION MissionFairSpec
INVARIANTS MissionTypeOK StopBounded
PROPERTIES StopEnds
