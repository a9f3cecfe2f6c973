\* The leader is lost, and its successor does not have the rider it knows.
SPECIFICATION Spec
CONSTANTS
    Servers = {1, 2, 3}
    Customers = {c1}
    Riders = {r1}
    Restaurants = {x1}
    Gateway = pay
    Clusters <- MCClusters
    MaxOrders = 1
    MaxVisits = 3
    MaxDisturbances = 1
    MaxHistory = 9
    MaxRepeats = 1
    None = None
INVARIANT ConfirmedToExist
CHECK_DEADLOCK FALSE
