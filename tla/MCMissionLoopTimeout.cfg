CONSTANTS
    MaxActions = 2
    MaxFailures = 3
    FastPath = FALSE
SPECIFICATION MissionFairSpec
PROPERTY TimeoutStops
