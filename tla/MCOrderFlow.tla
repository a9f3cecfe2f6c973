---------------------------- MODULE MCOrderFlow ----------------------------
EXTENDS OrderRefinement, TLC

CONSTANTS Restarting,   \* the clients that are started more than once
          Starts        \* how often those are started

MCNearby == [c \in Customers |-> Restaurants]

MCMaxSessions == [cl \in Clients |-> IF cl \in Restarting THEN Starts ELSE 1]

ClientSymmetry == Permutations(Customers) \cup Permutations(Riders)
=============================================================================
