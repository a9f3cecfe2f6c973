\* Leaders die while a client starts, runs or reconnects, and one server may
\* come back or one timeout be late.
SPECIFICATION Spec
CONSTANTS
    Servers = {1, 2, 3}
    Configuration <- MCThree
    MaxPasses = 2
    MaxMandates = 2
    MaxCrashes = 2
    MaxDisturbances = 1
    None = None
INVARIANT TypeOK
INVARIANT StartsWithALeader
INVARIANT GivesUpOnlyWhenRobbed
INVARIANT ConnectsToTheLeader
PROPERTY IsServedAgain
CHECK_DEADLOCK FALSE
