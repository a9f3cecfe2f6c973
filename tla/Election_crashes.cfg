\* Three servers with a leader; all of them may crash, at any moment.
SPECIFICATION EstablishedFairSpec
CONSTANTS
    Servers = {1, 2, 3}
    MaxStarts = 1
    MaxCrashes = 3
    Patient = TRUE
    None = None
INVARIANT TypeOK
INVARIANT AtMostOneLeader
PROPERTY HighestTakesOver
PROPERTY LiveLeaderStays
PROPERTY OnlyOpenElectionsStall
PROPERTY ClientsAreTold
CHECK_DEADLOCK FALSE
