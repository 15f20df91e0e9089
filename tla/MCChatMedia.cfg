\* Two chunks and their declaration over both paths, one part in flight on
\* the socket, one document in the relay, one fault of any kind.  The phone
\* and the PC stop when every part is acknowledged.
CONSTANTS
    LastChunk = 2
    MaxWire = 1
    MaxDocs = 1
    MaxFaults = 1
SPECIFICATION FairSpec
INVARIANTS TypeOK PerceivedOnce
PROPERTIES OnlyFaultsForget Arrives
CHECK_DEADLOCK FALSE
