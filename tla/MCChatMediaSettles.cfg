\* By hand, violated: the acknowledgement of the last chunk is lost, and the
\* chunk is refused for ever once the medium is finalized.
CONSTANTS
    LastChunk = 2
    MaxWire = 1
    MaxDocs = 1
    MaxFaults = 0
SPECIFICATION FairSpec
PROPERTIES Settles
CHECK_DEADLOCK FALSE
