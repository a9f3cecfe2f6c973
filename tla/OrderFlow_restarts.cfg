\* One customer with two orders; everybody but the restaurant is restarted.
SPECIFICATION Spec
CONSTANTS
    Customers = {c1}
    Riders = {r1, r2}
    Restaurants = {x1}
    Gateway = pay
    None = None
    NRidersToNotify = 1
    MaxOrders = 2
    Restarting = {c1, r1, r2, pay}
    Starts = 2
    Nearby <- MCNearby
    MaxSessions <- MCMaxSessions
SYMMETRY ClientSymmetry
INVARIANT TypeOK
INVARIANT ChargedWasAuthorized
INVARIANT OneRiderPerOrder
INVARIANT SettledOrderIsGone
PROPERTY AssignmentIsFinal
CHECK_DEADLOCK FALSE
