\* Three servers, of which one is lost, or one to which another joins.
SPECIFICATION Spec
CONSTANTS
    Servers = {1, 2, 3}
    Customers = {c1}
    Riders = {r1}
    Restaurants = {x1}
    Gateway = pay
    Clusters <- MCClusters
    MaxOrders = 1
    MaxVisits = 2
    MaxDisturbances = 1
    MaxHistory = 9
    MaxRepeats = 1
    None = None
INVARIANT TypeOK
INVARIANT ReplicasFollow
INVARIANT RoundsEnd
INVARIANT SurvivorsAgree
INVARIANT LeaderHasItsRiders
CHECK_DEADLOCK FALSE
