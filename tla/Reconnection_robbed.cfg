\* One leader dies, the next one announces itself once, the answers are prompt.
SPECIFICATION Spec
CONSTANTS
    Servers = {1, 2}
    Configuration <- MCTwo
    MaxPasses = 3
    MaxMandates = 1
    MaxCrashes = 1
    MaxDisturbances = 0
    None = None
PROPERTY CanReconnect
CHECK_DEADLOCK FALSE
