\* Three servers with a leader, one of which crashes.
SPECIFICATION EstablishedFairSpec
CONSTANTS
    Servers = {1, 2, 3}
    MaxStarts = 1
    MaxCrashes = 1
    Patient = TRUE
    None = None
PROPERTY LeaderIsReplaced
CHECK_DEADLOCK FALSE
