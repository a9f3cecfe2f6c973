\* One order and one rider, who comes late and may decline it.
SPECIFICATION FairSpec
CONSTANTS
    Customers = {c1}
    Riders = {r1}
    Restaurants = {x1}
    Gateway = pay
    None = None
    NRidersToNotify = 2
    MaxOrders = 1
    Restarting = {}
    Starts = 1
    Nearby <- MCNearby
    MaxSessions <- MCMaxSessions
PROPERTY NoDeliveryRequestLost
CHECK_DEADLOCK FALSE
