\* Two orders of one customer, and two riders.
SPECIFICATION Spec
CONSTANTS
    Customers = {c1}
    Riders = {r1, r2}
    Restaurants = {x1}
    Gateway = pay
    None = None
    NRidersToNotify = 2
    MaxOrders = 2
    Restarting = {}
    Starts = 1
    Nearby <- MCNearby
    MaxSessions <- MCMaxSessions
INVARIANT AssignedOnlyWhenReady
CHECK_DEADLOCK FALSE
