------------------------- MODULE MCClientReconnection -------------------------
(* ClientReconnection for TLC: the servers in the order of config.json.    *)
EXTENDS ClientReconnection

MCThree == <<1, 2, 3>>
MCTwo == <<1, 2>>
=============================================================================
