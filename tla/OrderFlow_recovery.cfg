\* The restaurant is restarted twice, at any moment.
SPECIFICATION FairSpec
CONSTANTS
    Customers = {c1, c2}
    Riders = {r1}
    Restaurants = {x1}
    Gateway = pay
    None = None
    NRidersToNotify = 2
    MaxOrders = 1
    Restarting = {x1}
    Starts = 3
    Nearby <- MCNearby
    MaxSessions <- MCMaxSessions
INVARIANT WaitingMeansNoRider
PROPERTY OrderIsAnswered
PROPERTY CustomerIsReleased
PROPERTY ImplementsLifecycle
CHECK_DEADLOCK FALSE
