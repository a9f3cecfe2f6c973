\* A delivery waits for a rider, and the request for it comes back.
SPECIFICATION Spec
CONSTANTS
    Servers = {1, 2, 3}
    Customers = {c1}
    Riders = {r1}
    Restaurants = {x1}
    Gateway = pay
    Clusters <- MCPair
    MaxOrders = 1
    MaxVisits = 2
    MaxDisturbances = 0
    MaxHistory = 9
    MaxRepeats = 1
    None = None
INVARIANT OneRoundPerUpdate
CHECK_DEADLOCK FALSE
