\* Two servers that start, crash and start again.
SPECIFICATION FairSpec
CONSTANTS
    Servers = {1, 2}
    MaxStarts = 2
    MaxCrashes = 2
    Patient = TRUE
    None = None
INVARIANT AtMostOneLeader
PROPERTY JoinersLearnLeader
CHECK_DEADLOCK FALSE
