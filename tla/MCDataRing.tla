----------------------------- MODULE MCDataRing -----------------------------
(* DataRing for TLC: the clusters at first.                                *)
EXTENDS DataRing

Everybody == Riders \cup Restaurants \cup {Gateway}

MCClusters ==
    {[up |-> {1, 2, 3}, leader |-> 3, known |-> Everybody],
     [up |-> {2}, leader |-> 2, known |-> Everybody \ Riders]}
MCPair == {[up |-> {1, 2}, leader |-> 2, known |-> Everybody \ Riders]}
=============================================================================
