------------------------------ MODULE DataRing ------------------------------
(***************************************************************************)
(* The replication of the tables of the ConnectionManager.  The servers    *)
(* form a ring in the order of their ids.  The leader handles the messages *)
(* of the clients and sends each change of its tables to the next server   *)
(* peer; a server that is sent a change makes it and sends it on, until the*)
(* next server would be the leader.  Every change a server sends is kept   *)
(* in its historical_state, all of which a server that joins is sent by    *)
(* each of the others.  When the leader dies another server takes over,    *)
(* with the tables it has, and the clients connect to that one.            *)
(*                                                                         *)
(* Left out: coordinates, push notifications, and how a leader is elected, *)
(* for which see BullyElection: here the highest server takes over.  The   *)
(* clients are reduced to what they may send next: due holds the answers a *)
(* restaurant, a rider or the payment system still owes.  The n-th order   *)
(* of a customer costs n.                                                  *)
(*                                                                         *)
(* An operator X_Y next to X is a faulty X: the README says which property *)
(* each of them breaks.  No specification uses them.                       *)
(***************************************************************************)
EXTENDS Naturals, Sequences, FiniteSets, SequencesExt

CONSTANTS Servers,           \* the ids of the configured servers
          Customers, Riders, Restaurants,
          Gateway,           \* the one payment system
          Clusters,          \* who may be up at first, lead, and be known
          MaxOrders,         \* bound: orders of a customer
          MaxVisits,         \* bound: registrations and location updates
          MaxDisturbances,   \* bound: servers killed or started
          MaxHistory,        \* bound: length of a historical_state
          MaxRepeats,        \* bound: requests back in front in one of them
          None

Clients == Customers \cup Riders \cup Restaurants \cup {Gateway}
Prices  == 1 .. MaxOrders

ASSUME DataRingAssumption ==
    /\ Servers \subseteq Nat /\ IsFiniteSet(Servers)
    /\ Clusters \subseteq
           [up : SUBSET Servers, leader : Servers,
            known : SUBSET (Riders \cup Restaurants \cup {Gateway})]
    /\ \A cluster \in Clusters :
          cluster.leader \in cluster.up /\ IsFiniteSet(cluster.known)
    /\ MaxOrders \in Nat /\ MaxVisits \in Nat /\ MaxDisturbances \in Nat
    /\ MaxHistory \in Nat /\ MaxRepeats \in Nat
    /\ Customers \cap Riders = {}
    /\ Restaurants \cap (Customers \cup Riders) = {}
    /\ Gateway \notin Customers \cup Riders \cup Restaurants
    /\ None \notin Servers \cup Customers \cup Riders \cup Nat
    /\ \A orders \in SUBSET [customer : Customers, price : Prices] : orders # None
    /\ \A order \in [order_price : Prices \cup {0}, rider_id : Riders \cup {None}] :
          order # None

OrderData == [order_price : Prices \cup {0}, rider_id : Riders \cup {None}]

VARIABLES
    (* the server processes *)
    state,             \* "down", "up", or "panicked" when its manager is
    server_peers, leader,
    tables,            \* what is replicated
    historical_state,
    connected,         \* the clients a manager has the address of
    wire,              \* wire[s][t]: what s has sent t, not yet handled
    calling,           \* the servers that have called an election
    starting, link,    \* the server that starts, and its new connections
    (* the clients *)
    due, choosing, ordered,
    (* bounds and history *)
    visits, disturbances, faults

serverVars == <<state, server_peers, leader, calling, starting, link>>
clientVars == <<choosing, ordered>>
bounds     == <<visits, disturbances, faults>>
vars == <<serverVars, tables, historical_state, connected, wire, due,
          clientVars, bounds>>

Faults == {"leader crash", "replica crash", "hasty", "join", "second join",
           "stray"}

Restaurant == (SUBSET [customer : Customers, price : Prices]) \cup {None}

(* None stands for an absent key, 0 for a price that is not known.         *)
Tables ==
    [customers : [Customers -> Prices \cup {0, None}],
     riders : SUBSET Riders,
     restaurants : [Restaurants -> Restaurant],
     payment_system_port : BOOLEAN,
     orders_in_process : [Customers \cup Riders -> OrderData \cup {None}],
     pending_delivery_requests : Seq(Customers)]

NoData ==
    [customers |-> [c \in Customers |-> None], riders |-> {},
     restaurants |-> [x \in Restaurants |-> None],
     payment_system_port |-> FALSE,
     orders_in_process |-> [k \in Customers \cup Riders |-> None],
     pending_delivery_requests |-> <<>>]

Update ==
    [type : {"UpdateCustomer"}, customer : Customers, price : Prices \cup {0}]
    \cup [type : {"UpdateRider"}, rider : Riders]
    \cup [type : {"UpdateRestaurant"}, restaurant : Restaurants,
          pending_orders : Restaurant \ {None}]
    \cup [type : {"UpdatePaymentSystem", "Pop"}]
    \cup [type : {"UpdateOrder"}, customer : Customers, order : OrderData]
    \cup [type : {"RemoveOrder"}, customer : Customers]
    \cup [type : {"Push"}, customer : Customers, to_front : BOOLEAN]

Line == Update \cup [type : {"Coordinator"}]
               \cup [type : {"LeaderData"}, leader : Servers]

IsUpdate(m) == m.type \notin {"Coordinator", "LeaderData"}

Due == [type : {"Cooked", "Charged"}, customer : Customers]
       \cup [type : {"FindRider"}, customer : Customers, at : Servers]
       \cup [type : {"Offer", "Carried"}, customer : Customers, rider : Riders]

----------------------------------------------------------------------------
(* The ring.                                                               *)

Alive(s) == state[s] # "down"

next_server_peer_NoWrap(s, peers) ==
    LET higher == {p \in peers : p > s}
    IN  IF higher # {} THEN Min(higher) ELSE None

(* update_next_peer.                                                       *)
next_server_peer(s, peers) ==
    LET higher == {p \in peers : p > s}
    IN  IF peers = {} THEN None
        ELSE IF higher # {} THEN Min(higher) ELSE Min(peers)

GoesOn_Always(s, next) == TRUE

(* The leader is known and is not the next server.                         *)
GoesOn(s, next) == leader[s] # None /\ leader[s] # next

(* A handler of s sends some lines through send_message_to_next_peer (ring)*)
(* and then some to the next peer directly; w are the wires without the    *)
(* line that it handled.                                                   *)
Transmit(s, w, ring, direct) ==
    LET next == next_server_peer(s, server_peers'[s])
        gone == IF GoesOn(s, next) THEN ring \o direct ELSE direct
    IN  /\ historical_state' = [historical_state EXCEPT ![s] = @ \o ring]
        /\ wire' = IF next # None /\ Alive(next)
                   THEN [w EXCEPT ![s][next] = @ \o gone] ELSE w

Pop == [type |-> "Pop"]

Repeats(s) ==
    Cardinality({i \in DOMAIN historical_state[s] :
                    /\ historical_state[s][i].type = "Push"
                    /\ historical_state[s][i].to_front})

HasRoom(s, ring) == Len(historical_state[s]) + Len(ring) <= MaxHistory

(* The end of a handler that leaves the tables of s at d: it has sent ring *)
(* round, and calls process_pending_requests.  connected' and server_peers'*)
(* are what the handler made them.                                         *)
ProcessPending(s, w, d, ring, answers) ==
    LET queue == d.pending_delivery_requests
        riders == connected'[s] \cap Riders
    IN  /\ HasRoom(s, ring)
        /\ \/ /\ queue = <<>>
              /\ tables' = [tables EXCEPT ![s] = d]
              /\ Transmit(s, w, ring, <<>>)
              /\ due' = answers
           \/ /\ queue # <<>> /\ riders = {}
              /\ Repeats(s) < MaxRepeats
              /\ tables' = [tables EXCEPT ![s] = d]
              /\ Transmit(s, w, ring, <<Pop, [type |-> "Push",
                     customer |-> Head(queue), to_front |-> TRUE]>>)
              /\ due' = answers
           \/ /\ queue # <<>>
              /\ tables' = [tables EXCEPT ![s] =
                     [d EXCEPT !.pending_delivery_requests = <<>>]]
              /\ Transmit(s, w, ring, [i \in DOMAIN queue |-> Pop])
              /\ \E r \in riders :
                    due' = answers \cup
                        {[type |-> "Offer", customer |-> c, rider |-> r] :
                            c \in {k \in Range(queue) : d.customers[k] # None}}

(* The end of a handler that does not call it.                             *)
Finish(s, d, ring, direct, answers) ==
    /\ HasRoom(s, ring)
    /\ tables' = [tables EXCEPT ![s] = d]
    /\ Transmit(s, wire, ring, direct)
    /\ due' = answers

----------------------------------------------------------------------------
(* Servers that have joined, and with whose leader the clients of known    *)
(* have registered.                                                        *)
KnownTables(known) ==
    [NoData EXCEPT
        !.riders = Riders \cap known,
        !.restaurants = [x \in Restaurants |->
                            IF x \in known THEN {} ELSE None],
        !.payment_system_port = Gateway \in known]

UpdateFor(cl) ==
    CASE cl \in Riders      -> [type |-> "UpdateRider", rider |-> cl]
      [] cl \in Restaurants -> [type |-> "UpdateRestaurant", restaurant |-> cl,
                                pending_orders |-> {}]
      [] cl = Gateway       -> [type |-> "UpdatePaymentSystem"]

Init ==
    \E cluster \in Clusters :
        LET S == cluster.up
            l == cluster.leader
            known == cluster.known
        IN
        /\ state = [s \in Servers |-> IF s \in S THEN "up" ELSE "down"]
        /\ server_peers = [s \in Servers |-> IF s \in S THEN S \ {s} ELSE {}]
        /\ leader = [s \in Servers |-> IF s \in S THEN l ELSE None]
        /\ tables = [s \in Servers |-> IF s \in S THEN KnownTables(known)
                                      ELSE NoData]
        /\ LET clients == SetToSeq(known)
               history == [i \in DOMAIN clients |-> UpdateFor(clients[i])]
           IN  historical_state =
                   [s \in Servers |-> IF s \in S THEN history ELSE <<>>]
        /\ connected = [s \in Servers |-> IF s = l THEN known ELSE {}]
        /\ wire = [s \in Servers |-> [t \in Servers |-> <<>>]]
        /\ calling = {} /\ starting = None
        /\ link = [s \in Servers |-> "none"]
        /\ due = {} /\ choosing = {}
        /\ ordered = [c \in Customers |-> 0]
        /\ visits = 0 /\ disturbances = 0 /\ faults = {}

----------------------------------------------------------------------------
(* The handlers of what the clients send.                                  *)

Managing(s) == state[s] = "up"

(* A client that looks for a server finds one that leads.                  *)
Visits(cl, s) ==
    /\ Managing(s) /\ leader[s] = s /\ starting # s
    /\ visits < MaxVisits
    /\ visits' = visits + 1
    /\ UNCHANGED <<serverVars, ordered, disturbances, faults>>

RegisterCustomer_NoPrice(s, c) ==
    /\ Visits(c, s)
    /\ connected' = [connected EXCEPT ![s] = @ \cup {c}]
    /\ ProcessPending(s, wire,
           [tables[s] EXCEPT !.customers[c] = IF @ = None THEN 0 ELSE @],
           <<[type |-> "UpdateCustomer", customer |-> c]>>, due)
    /\ choosing' = choosing \cup {c}

RegisterCustomer(s, c) ==
    /\ Visits(c, s)
    /\ connected' = [connected EXCEPT ![s] = @ \cup {c}]
    /\ ProcessPending(s, wire,
           [tables[s] EXCEPT !.customers[c] = IF @ = None THEN 0 ELSE @],
           <<[type |-> "UpdateCustomer", customer |-> c, price |-> 0]>>,
           due)
    /\ choosing' = choosing \cup {c}

RegisterRider_OnlyKnown(s, r) ==
    /\ Visits(r, s)
    /\ connected' = [connected EXCEPT ![s] =
           IF r \in tables[s].riders THEN @ \cup {r} ELSE @]
    /\ ProcessPending(s, wire, [tables[s] EXCEPT !.riders = @ \cup {r}],
           <<[type |-> "UpdateRider", rider |-> r]>>, due)
    /\ UNCHANGED choosing

RegisterRider(s, r) ==
    /\ Visits(r, s)
    /\ connected' = [connected EXCEPT ![s] = @ \cup {r}]
    /\ ProcessPending(s, wire, [tables[s] EXCEPT !.riders = @ \cup {r}],
           <<[type |-> "UpdateRider", rider |-> r]>>, due)
    /\ UNCHANGED choosing

(* Sent by the connection of a rider that has registered on it.            *)
LocationUpdateForRider(s, r) ==
    /\ Managing(s) /\ r \in connected[s]
    /\ visits < MaxVisits /\ visits' = visits + 1
    /\ UNCHANGED <<serverVars, connected, clientVars, disturbances, faults>>
    /\ Finish(s, tables[s], <<[type |-> "UpdateRider", rider |-> r]>>, <<>>,
              due)

(* The restaurant is sent its pending orders, and will answer them.        *)
RegisterRestaurant(s, x) ==
    /\ Visits(x, s)
    /\ connected' = [connected EXCEPT ![s] = @ \cup {x}]
    /\ LET known == tables[s].restaurants[x]
           pending == IF known = None THEN {} ELSE known
       IN  ProcessPending(s, wire,
               [tables[s] EXCEPT !.restaurants[x] = pending],
               <<[type |-> "UpdateRestaurant", restaurant |-> x,
                  pending_orders |-> pending]>>,
               due \cup {[type |-> "Cooked", customer |-> o.customer] :
                            o \in pending})
    /\ UNCHANGED choosing

RegisterPaymentSystem(s) ==
    /\ Visits(Gateway, s)
    /\ connected' = [connected EXCEPT ![s] = @ \cup {Gateway}]
    /\ ProcessPending(s, wire,
           [tables[s] EXCEPT !.payment_system_port = TRUE],
           <<[type |-> "UpdatePaymentSystem"]>>, due)
    /\ UNCHANGED choosing

(* A customer that has the list of restaurants orders from one of the list,*)
(* and the payment is authorized: the manager has the connections of the   *)
(* customer and of the payment system.  The restaurant is sent the order if*)
(* it has registered here; if not, its registration finds it pending.      *)
OrderRequest(s, c, x) ==
    /\ Managing(s) /\ c \in connected[s] /\ Gateway \in connected[s]
    /\ tables[s].restaurants[x] # None
    /\ c \in choosing /\ ordered[c] < MaxOrders
    /\ UNCHANGED <<serverVars, connected, bounds>>
    /\ choosing' = choosing \ {c}
    /\ ordered' = [ordered EXCEPT ![c] = @ + 1]
    /\ LET order == [order_price |-> ordered[c] + 1, rider_id |-> None]
           request == [type |-> "Cooked", customer |-> c]
       IN  ProcessPending(s, wire,
               [tables[s] EXCEPT
                   !.customers[c] = order.order_price,
                   !.orders_in_process[c] = order,
                   !.restaurants[x] =
                       @ \cup {[customer |-> c, price |-> order.order_price]}],
               <<[type |-> "UpdateCustomer", customer |-> c,
                  price |-> order.order_price],
                 [type |-> "UpdateOrder", customer |-> c, order |-> order]>>,
               IF x \in connected[s] THEN due \cup {request} ELSE due)

(* An answer of a client that is connected to s.                           *)
Answers(s, cl, type, c) ==
    /\ Managing(s)
    /\ cl \in connected[s]
    /\ [type |-> type, customer |-> c] \in due
    /\ UNCHANGED <<serverVars, connected, clientVars, visits, disturbances,
                   faults>>

Without(type, c) == due \ {[type |-> type, customer |-> c]}

(* When the customer has not connected to s nothing is done.               *)
OrderReady(s, x, c) ==
    /\ Answers(s, x, "Cooked", c)
    /\ IF c \in connected[s]
       THEN Finish(s,
                [tables[s] EXCEPT !.restaurants = [y \in Restaurants |->
                    IF @[y] = None THEN None
                    ELSE {o \in @[y] : o.customer # c}]],
                <<>>, <<>>,
                Without("Cooked", c) \cup
                    {[type |-> "FindRider", customer |-> c, at |-> s]})
       ELSE Finish(s, tables[s], <<>>, <<>>, Without("Cooked", c))

OrderCancelled_NotSent(s, x, c) ==
    /\ Answers(s, x, "Cooked", c)
    /\ IF c \in connected[s]
       THEN Finish(s, [tables[s] EXCEPT !.orders_in_process[c] = None],
                   <<>>, <<>>, Without("Cooked", c))
       ELSE Finish(s, tables[s], <<>>, <<>>, Without("Cooked", c))

OrderCancelled(s, x, c) ==
    /\ Answers(s, x, "Cooked", c)
    /\ IF c \in connected[s]
       THEN Finish(s, [tables[s] EXCEPT !.orders_in_process[c] = None],
                   <<[type |-> "RemoveOrder", customer |-> c]>>, <<>>,
                   Without("Cooked", c))
       ELSE Finish(s, tables[s], <<>>, <<>>, Without("Cooked", c))

(* closest_riders unwraps the connection of every rider that is known, and *)
(* the manager panics when one has none.                                   *)
FindRider(s, c) ==
    LET me == [type |-> "FindRider", customer |-> c, at |-> s]
        known == tables[s].riders
    IN  /\ Managing(s) /\ me \in due
        /\ tables[s].customers[c] # None
        /\ UNCHANGED <<server_peers, leader, calling, starting, link, connected,
                       clientVars, bounds>>
        /\ \/ /\ ~(known \subseteq connected[s])
              /\ state' = [state EXCEPT ![s] = "panicked"]
              /\ due' = {m \in due : m.type # "FindRider" \/ m.at # s}
              /\ UNCHANGED <<tables, historical_state, wire>>
           \/ /\ known # {} /\ known \subseteq connected[s]
              /\ due' = (due \ {me}) \cup
                     {[type |-> "Offer", customer |-> c, rider |-> r] :
                         r \in known}
              /\ UNCHANGED <<state, tables, historical_state, wire>>
           \/ /\ known = {}
              /\ Finish(s, [tables[s] EXCEPT !.pending_delivery_requests =
                               Append(@, c)],
                     <<[type |-> "Push", customer |-> c,
                        to_front |-> FALSE]>>, <<>>, due \ {me})
              /\ UNCHANGED state

(* The replicas are told of the rider before it is known whether the order *)
(* is there and has none yet; the assignment itself is sent directly.      *)
DeliveryOfferAccepted(s, c, r) ==
    LET me == [type |-> "Offer", customer |-> c, rider |-> r]
        order == tables[s].orders_in_process[c]
        noted == c \in connected[s] /\ tables[s].customers[c] # None
        entry == [order_price |-> tables[s].customers[c], rider_id |-> r]
        given == order # None /\ order.rider_id = None
        table == IF noted
                 THEN [tables[s].orders_in_process EXCEPT ![r] = entry]
                 ELSE tables[s].orders_in_process
        change(o) == [type |-> "UpdateOrder", customer |-> c, order |-> o]
        first == IF noted THEN <<change(entry)>> ELSE <<>>
    IN  /\ Managing(s) /\ r \in connected[s] /\ me \in due
        /\ UNCHANGED <<serverVars, connected, clientVars, visits,
                       disturbances>>
        /\ \/ /\ given
              /\ Finish(s, [tables[s] EXCEPT !.orders_in_process =
                     [table EXCEPT ![c] = [order EXCEPT !.rider_id = r]]],
                     first, <<change([order EXCEPT !.rider_id = r])>>,
                     (due \ {me}) \cup {[me EXCEPT !.type = "Carried"]})
              /\ UNCHANGED faults
           \/ /\ ~given
              /\ Finish(s, [tables[s] EXCEPT !.orders_in_process = table],
                     first, <<>>, due \ {me})
              /\ faults' = IF noted THEN faults \cup {"stray"} ELSE faults

DeliveryDone(s, c, r) ==
    LET me == [type |-> "Carried", customer |-> c, rider |-> r]
        charge == IF Gateway \in connected[s]
                  THEN {[type |-> "Charged", customer |-> c]} ELSE {}
    IN  /\ Managing(s) /\ r \in connected[s] /\ me \in due
        /\ UNCHANGED <<serverVars, connected, clientVars, bounds>>
        /\ IF tables[s].orders_in_process[c] = None
           THEN Finish(s, tables[s], <<>>, <<>>, due \ {me})
           ELSE Finish(s, [tables[s] EXCEPT !.orders_in_process[c] = None],
                    <<[type |-> "RemoveOrder", customer |-> c]>>, <<>>,
                    (due \ {me}) \cup charge)

PaymentExecuted(s, c) ==
    /\ Answers(s, Gateway, "Charged", c)
    /\ IF c \in connected[s]
       THEN ProcessPending(s, wire,
                [tables[s] EXCEPT !.orders_in_process[c] = None],
                <<[type |-> "RemoveOrder", customer |-> c]>>,
                Without("Charged", c))
       ELSE ProcessPending(s, wire, tables[s], <<>>, Without("Charged", c))

----------------------------------------------------------------------------
(* The handlers of what the other servers send.                            *)

(* What each handler makes of the tables d.                                *)
UpdateCustomerData(d, m) == [d EXCEPT !.customers[m.customer] = m.price]

UpdateRiderData(d, m) == [d EXCEPT !.riders = @ \cup {m.rider}]

(* A restaurant that is not known yet comes without its orders.            *)
UpdateRestaurantData(d, m) ==
    [d EXCEPT !.restaurants[m.restaurant] =
        IF @ = None THEN {} ELSE m.pending_orders]

UpdatePaymentSystemData(d, m) == [d EXCEPT !.payment_system_port = TRUE]

UpdateOrderInProgressData(d, m) ==
    [d EXCEPT !.orders_in_process[m.customer] = m.order]

RemoveOrderInProgressData(d, m) ==
    [d EXCEPT !.orders_in_process[m.customer] = None]

PushPendingDeliveryRequest(d, m) ==
    [d EXCEPT !.pending_delivery_requests =
        IF m.to_front THEN <<m.customer>> \o @ ELSE Append(@, m.customer)]

PopPendingDeliveryRequest(d, m) ==
    [d EXCEPT !.pending_delivery_requests = IF @ = <<>> THEN @ ELSE Tail(@)]

Updated(d, m) ==
    CASE m.type = "UpdateCustomer"      -> UpdateCustomerData(d, m)
      [] m.type = "UpdateRider"         -> UpdateRiderData(d, m)
      [] m.type = "UpdateRestaurant"    -> UpdateRestaurantData(d, m)
      [] m.type = "UpdatePaymentSystem" -> UpdatePaymentSystemData(d, m)
      [] m.type = "UpdateOrder"         -> UpdateOrderInProgressData(d, m)
      [] m.type = "RemoveOrder"         -> RemoveOrderInProgressData(d, m)
      [] m.type = "Push"                -> PushPendingDeliveryRequest(d, m)
      [] m.type = "Pop"                 -> PopPendingDeliveryRequest(d, m)

(* s takes the next line of p.  It has registered p by then.               *)
Arrives(s, p) == Managing(s) /\ p \in server_peers[s] /\ wire[p][s] # <<>>

Taken(s, p) == [wire EXCEPT ![p][s] = Tail(@)]

ReceiveUpdate(s, p) ==
    /\ Arrives(s, p)
    /\ LET m == Head(wire[p][s])
       IN  /\ m.type \notin {"Coordinator", "LeaderData"}
           /\ UNCHANGED <<serverVars, connected, clientVars, bounds>>
           /\ ProcessPending(s, Taken(s, p), Updated(tables[s], m),
                             <<m>>, due)

(* GotLeaderFromPeer, of a coordinator's line or the answer to a query.    *)
GotLeaderFromPeer(s, p) ==
    /\ Arrives(s, p)
    /\ LET m == Head(wire[p][s])
       IN  \/ /\ m.type = "Coordinator"
              /\ leader' = [leader EXCEPT ![s] = p]
           \/ /\ m.type = "LeaderData"
              /\ leader' = [leader EXCEPT ![s] = m.leader]
    /\ calling' = calling \ {s}
    /\ wire' = Taken(s, p)
    /\ UNCHANGED <<state, server_peers, starting, link, tables,
                   historical_state, connected, due, clientVars, bounds>>

(* A coordinator's line goes through the mailbox of the ServerPeer, where  *)
(* an update that came later overtakes it.                                 *)
Overtaken(s, p) ==
    /\ Arrives(s, p)
    /\ Len(wire[p][s]) > 1
    /\ wire[p][s][1].type = "Coordinator" /\ wire[p][s][2].type # "Coordinator"
    /\ wire' = [wire EXCEPT ![p][s] = <<@[2], @[1]>> \o SubSeq(@, 3, Len(@))]
    /\ UNCHANGED <<serverVars, tables, historical_state, connected, due,
                   clientVars, bounds>>

----------------------------------------------------------------------------
(* Servers that die, take over, and join.                                  *)

(* A server is killed.  Of what it has sent some part has left it; of what *)
(* was on its way to it and to its manager, everything is lost.            *)
Crash(s) ==
    /\ Alive(s)
    /\ disturbances < MaxDisturbances
    /\ disturbances' = disturbances + 1
    /\ faults' = faults \cup
           {IF leader[s] = s THEN "leader crash" ELSE "replica crash"}
    /\ state' = [state EXCEPT ![s] = "down"]
    /\ server_peers' = [server_peers EXCEPT ![s] = {}]
    /\ leader' = [leader EXCEPT ![s] = None]
    /\ tables' = [tables EXCEPT ![s] = NoData]
    /\ historical_state' = [historical_state EXCEPT ![s] = <<>>]
    /\ connected' = [connected EXCEPT ![s] = {}]
    /\ \E left \in [Servers -> 0 .. Max({Len(wire[s][t]) : t \in Servers})] :
          /\ \A t \in Servers : left[t] <= Len(wire[s][t])
          /\ wire' = [p \in Servers |-> [t \in Servers |->
                 IF p = s THEN SubSeq(wire[s][t], 1, left[t])
                 ELSE IF t = s THEN <<>> ELSE wire[p][t]]]
    /\ due' = {m \in due : m.type # "FindRider" \/ m.at # s}
    /\ calling' = calling \ {s}
    /\ starting' = IF starting = s THEN None ELSE starting
    /\ link' = IF starting = s THEN [p \in Servers |-> "none"]
               ELSE [link EXCEPT ![s] = "none"]
    /\ UNCHANGED <<clientVars, visits>>

(* The last server leads; the others elect one of them.                    *)
PeerDisconnected(s, p) ==
    /\ Managing(s) /\ p \in server_peers[s]
    /\ ~Alive(p) /\ wire[p][s] = <<>>
    /\ server_peers' = [server_peers EXCEPT ![s] = @ \ {p}]
    /\ leader' = IF leader[s] = p /\ server_peers'[s] = {}
                 THEN [leader EXCEPT ![s] = s] ELSE leader
    /\ calling' = IF leader[s] = p /\ server_peers'[s] # {}
                  THEN calling \cup {s} ELSE calling
    /\ UNCHANGED <<state, starting, link, tables, historical_state, connected,
                   wire, due, clientVars, bounds>>

(* A survivor has still to hear of the loss, or what the dead leader has   *)
(* written is still on its way between two of the others.                  *)
Hasty(s) ==
    \/ \E t \in Servers : Managing(t) /\ leader[s] \in server_peers[t]
    \/ \E p, q \in Servers \ {s} :
           \E i \in DOMAIN wire[p][q] : IsUpdate(wire[p][q][i])

(* The server without a higher peer wins the election that one called that *)
(* has noticed the loss of the leader.                                     *)
TakeOver(s) ==
    /\ Managing(s) /\ leader[s] # s
    /\ \A p \in server_peers[s] : p < s
    /\ \E t \in calling : t = s \/ s \in server_peers[t]
    /\ calling' = calling \ {s}
    /\ leader' = [leader EXCEPT ![s] = s]
    /\ wire' = [wire EXCEPT ![s] = [t \in Servers |->
           IF t \in server_peers[s] /\ Alive(t)
           THEN Append(@[t], [type |-> "Coordinator"]) ELSE @[t]]]
    /\ faults' = IF Hasty(s) THEN faults \cup {"hasty"} ELSE faults
    /\ UNCHANGED <<state, server_peers, starting, link, tables,
                   historical_state, connected, due, clientVars, visits,
                   disturbances>>

(* A server is started once the others have handled the loss of it, and    *)
(* one at a time.                                                          *)
Start(j) ==
    /\ state[j] = "down" /\ starting = None
    /\ disturbances < MaxDisturbances
    /\ disturbances' = disturbances + 1
    /\ \A s \in Servers : Alive(s) => j \notin server_peers[s]
    /\ state' = [state EXCEPT ![j] = "up"]
    /\ starting' = j
    /\ wire' = [wire EXCEPT ![j] = [t \in Servers |-> <<>>]]
    /\ faults' = faults \cup
           {IF Cardinality({s \in Servers : Alive(s)}) > 1
            THEN "second join" ELSE "join"}
    /\ UNCHANGED <<server_peers, leader, calling, link, tables, historical_state,
                   connected, due, clientVars, visits>>

(* IsPeerConnected: p answers the probe of the server that starts.         *)
IsPeerConnected(p) ==
    /\ starting # None /\ starting # p
    /\ Managing(p) /\ starting \notin server_peers[p]
    /\ link[p] = "none" /\ p \notin server_peers[starting]
    /\ \A q \in Servers : link[q] # "probed"
    /\ link' = [link EXCEPT ![p] = "probed"]
    /\ UNCHANGED <<state, server_peers, leader, calling, starting, connected,
                   clientVars, bounds>>
    /\ ProcessPending(p, wire, tables[p], <<>>, due)

(* RegisterPeerServer: all the history of s goes to the new peer.          *)
Register(s, p) ==
    /\ server_peers' = [server_peers EXCEPT ![s] = @ \cup {p}]
    /\ UNCHANGED <<state, leader, calling, starting, connected, clientVars,
                   bounds>>
    /\ ProcessPending(s,
           [wire EXCEPT ![s][p] = @ \o historical_state[s]],
           tables[s], <<>>, due)

(* The server that starts has connected to p.                              *)
ConnectServerPeer(p) ==
    /\ link[p] = "probed" /\ Managing(starting) /\ Alive(p)
    /\ link' = [link EXCEPT ![p] = "connected"]
    /\ Register(starting, p)

(* p accepts the connection.                                               *)
CreateServerPeer(p) ==
    /\ link[p] = "connected" /\ Managing(p) /\ Alive(starting)
    /\ link' = [link EXCEPT ![p] = "asked"]
    /\ Register(p, starting)

(* p has got the LeaderQuery of the server that starts.                    *)
SendLeader(p) ==
    /\ link[p] = "asked" /\ Managing(p)
    /\ link' = [link EXCEPT ![p] = "none"]
    /\ wire' = IF leader[p] = None THEN wire
               ELSE [wire EXCEPT ![p][starting] = Append(@,
                        [type |-> "LeaderData", leader |-> leader[p]])]
    /\ UNCHANGED <<state, server_peers, leader, calling, starting, tables,
                   historical_state, connected, due, clientVars, bounds>>

(* The server that starts has tried all the others, and serves.            *)
InitLeader ==
    /\ starting # None
    /\ \A p \in Servers \ {starting} :
          link[p] = "none" /\ (Managing(p) => p \in server_peers[starting])
    /\ starting' = None
    /\ leader' = IF server_peers[starting] = {}
                 THEN [leader EXCEPT ![starting] = starting] ELSE leader
    /\ UNCHANGED <<state, server_peers, calling, link, tables, historical_state,
                   connected, wire, due, clientVars, bounds>>

----------------------------------------------------------------------------
ClientMessage(s) ==
    \/ \E c \in Customers :
          \/ RegisterCustomer(s, c) \/ FindRider(s, c) \/ PaymentExecuted(s, c)
          \/ \E x \in Restaurants : \/ OrderRequest(s, c, x)
                                    \/ OrderReady(s, x, c)
                                    \/ OrderCancelled(s, x, c)
          \/ \E r \in Riders : \/ DeliveryOfferAccepted(s, c, r)
                               \/ DeliveryDone(s, c, r)
    \/ \E r \in Riders : RegisterRider(s, r) \/ LocationUpdateForRider(s, r)
    \/ \E x \in Restaurants : RegisterRestaurant(s, x)
    \/ RegisterPaymentSystem(s)

PeerMessage(s) ==
    \E p \in Servers :
        \/ ReceiveUpdate(s, p) \/ GotLeaderFromPeer(s, p) \/ Overtaken(s, p)
        \/ PeerDisconnected(s, p)

Join == \/ \E p \in Servers : \/ Start(p) \/ IsPeerConnected(p)
                              \/ ConnectServerPeer(p) \/ CreateServerPeer(p)
                              \/ SendLeader(p)
        \/ InitLeader

Next ==
    \/ \E s \in Servers :
          ClientMessage(s) \/ PeerMessage(s) \/ Crash(s) \/ TakeOver(s)
    \/ Join

Spec == Init /\ [][Next]_vars

----------------------------------------------------------------------------
TypeOK ==
    /\ state \in [Servers -> {"down", "up", "panicked"}]
    /\ server_peers \in [Servers -> SUBSET Servers]
    /\ leader \in [Servers -> Servers \cup {None}]
    /\ tables \in [Servers -> Tables]
    /\ historical_state \in [Servers -> Seq(Update)]
    /\ connected \in [Servers -> SUBSET Clients]
    /\ wire \in [Servers -> [Servers -> Seq(Line)]]
    /\ calling \subseteq Servers
    /\ starting \in Servers \cup {None}
    /\ link \in [Servers -> {"none", "probed", "connected", "asked"}]
    /\ due \subseteq Due
    /\ choosing \subseteq Customers
    /\ ordered \in [Customers -> 0 .. MaxOrders]
    /\ visits \in 0 .. MaxVisits
    /\ disturbances \in 0 .. MaxDisturbances
    /\ faults \subseteq Faults

----------------------------------------------------------------------------
(* Safety.                                                                 *)

Heard(d, m) == IF IsUpdate(m) THEN Updated(d, m) ELSE d

(* What the tables d become with the updates among the lines.              *)
Made(d, lines) ==
    LET after[n \in 0 .. Len(lines)] ==
            IF n = 0 THEN d ELSE Heard(after[n - 1], lines[n])
    IN  after[Len(lines)]

(* What the servers should agree on: who there is, and the orders.         *)
Shared(d) ==
    [customers |-> {c \in Customers : d.customers[c] # None},
     riders |-> d.riders,
     restaurants |-> {x \in Restaurants : d.restaurants[x] # None},
     payment_system_port |-> d.payment_system_port,
     orders |-> [c \in Customers |-> d.orders_in_process[c]]]

Queued == \E s \in Servers : \E i \in DOMAIN historical_state[s] :
              historical_state[s][i].type \in {"Push", "Pop"}

(* While no server is lost, none joins two others and no rider accepts an  *)
(* order that is not to be had, every server has the tables of the one     *)
(* before it in the ring but for the updates on the wire between them, a   *)
(* server that has just been sent the history included.                    *)
ReplicasFollow ==
    faults \subseteq {"join"} =>
        \A s \in Servers :
            LET next == next_server_peer(s, server_peers[s])
            IN  Managing(s) /\ next # None /\ GoesOn(s, next) =>
                    Shared(Made(tables[next], wire[s][next]))
                    = Shared(tables[s])

(* An update ends its round at the server before the leader: what the      *)
(* leader has written does not come back to it, over newer data, as long   *)
(* as no delivery has had to wait for a rider.                             *)
RoundsEnd ==
    faults \subseteq {"join", "stray"} /\ ~Queued =>
        \A s, l \in Servers : leader[l] = l =>
            \A i \in DOMAIN wire[s][l] : ~IsUpdate(wire[s][l][i])

(* When the leader, and nobody else, has died, nothing of what it has      *)
(* written was on its way between two servers when a third took over, and  *)
(* the ring has come to rest, the survivors have the same tables: updates  *)
(* that cross with the election, or go round without a leader, are made    *)
(* again by all or by none.                                                *)
AtRest ==
    \A s \in Servers : Managing(s) =>
        /\ leader[s] # None /\ Managing(leader[s])
        /\ \A t \in Servers : Managing(t) => leader[t] = leader[s]
        /\ \A t \in server_peers[s] : Alive(t) /\ wire[t][s] = <<>>

SurvivorsAgree ==
    faults \subseteq {"leader crash"} /\ disturbances = 1 /\ AtRest =>
        \A s, t \in Servers : Managing(s) /\ Managing(t) =>
            Shared(tables[s]) = Shared(tables[t])

(* The premise of closest_riders, that a known rider is connected, holds at*)
(* the leader until a leader is lost: replication and joins do not break   *)
(* it.                                                                     *)
LeaderHasItsRiders ==
    "leader crash" \notin faults =>
        \A s \in Servers : leader[s] = s => tables[s].riders \subseteq connected[s]

----------------------------------------------------------------------------
(* What the documents say and the code does not do.                        *)

(* nearby_entitys.rs: the connection of a known rider is confirmed to      *)
(* exist.  So no manager panics.                                           *)
ConfirmedToExist == \A s \in Servers : state[s] # "panicked"

(* README: an update goes from replica to replica until it is back at the  *)
(* coordinator.  So no server is told more often to queue a delivery than  *)
(* the leader has queued one.                                              *)
OneRoundPerUpdate ==
    \A l \in Servers : leader[l] = l => Repeats(l) = 0
=============================================================================
