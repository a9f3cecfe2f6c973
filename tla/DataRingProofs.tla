---------------------------- MODULE DataRingProofs ----------------------------
(***************************************************************************)
(* Theorems about DataRing: its types, and what holds of the leader, of    *)
(* the rounds of the updates and of the replicas until a server is lost.   *)
(***************************************************************************)
EXTENDS DataRing, SetFacts, SequenceTheorems

----------------------------------------------------------------------------
(* The ring.                                                               *)

(* The next server is the lowest of the higher peers, or of all.           *)
LEMMA NextPeer ==
    ASSUME NEW s \in Servers, NEW peers, peers \subseteq Servers
    PROVE  LET next == next_server_peer(s, peers)
           IN  /\ next \in Servers \cup {None}
               /\ peers = {} => next = None
               /\ peers # {} => /\ next \in peers /\ next # None
                                /\ \/ /\ next > s
                                      /\ \A p \in peers : p > s => next <= p
                                   \/ /\ \A p \in peers : ~(p > s)
                                      /\ \A p \in peers : next <= p
<1> DEFINE higher == {p \in peers : p > s}
           next == next_server_peer(s, peers)
<1>1. Servers \subseteq Nat /\ None \notin Servers
  BY DataRingAssumption
<1>2. CASE peers = {}
  BY <1>2 DEF next_server_peer
<1>3. CASE peers # {} /\ higher # {}
  <2>1. next = Min(higher)
    BY <1>3 DEF next_server_peer
  <2>2. Min(higher) \in higher /\ \A p \in higher : Min(higher) <= p
    BY <1>1, <1>3, MinOfNats
  <2> QED BY <1>1, <1>3, <2>1, <2>2
<1>4. CASE peers # {} /\ higher = {}
  <2>1. next = Min(peers)
    BY <1>4 DEF next_server_peer
  <2>2. Min(peers) \in peers /\ \A p \in peers : Min(peers) <= p
    BY <1>1, <1>4, MinOfNats
  <2> QED BY <1>1, <1>4, <2>1, <2>2
<1> QED BY <1>2, <1>3, <1>4

Wires == [Servers -> [Servers -> Seq(Line)]]

(* What leaves s, and to whom.                                             *)
NextOf(s) == next_server_peer(s, server_peers[s])
Gone(s, ring, direct) ==
    IF GoesOn(s, NextOf(s)') THEN ring \o direct ELSE direct

(* What is sent is appended to one wire, and to one history.               *)
LEMMA Transmitted ==
    ASSUME NEW s \in Servers, NEW w \in Wires,
           historical_state \in [Servers -> Seq(Update)],
           server_peers' \in [Servers -> SUBSET Servers],
           NEW ring \in Seq(Update), NEW direct \in Seq(Update),
           Transmit(s, w, ring, direct)
    PROVE  /\ historical_state' \in [Servers -> Seq(Update)]
           /\ \A p \in Servers : historical_state'[p] =
                 IF p = s THEN historical_state[s] \o ring ELSE historical_state[p]
           /\ wire' \in Wires
           /\ \A p, t \in Servers : wire'[p][t] =
                 IF p = s /\ t = NextOf(s)' /\ Alive(t)
                 THEN w[p][t] \o Gone(s, ring, direct) ELSE w[p][t]
           /\ Gone(s, ring, direct) \in Seq(Update)
           /\ Gone(s, ring, direct) \in Seq(Line)
<1> DEFINE next == NextOf(s)'
           gone == Gone(s, ring, direct)
<1>1. next \in Servers \cup {None} /\ None \notin Servers
  <2>1. PICK peers : peers = server_peers'[s]
    OBVIOUS
  <2>2. next = next_server_peer(s, peers)
    BY <2>1 DEF NextOf
  <2> QED BY <2>1, <2>2, NextPeer, DataRingAssumption
<1>2. gone \in Seq(Update)
  BY DEF Gone
<1>3. Update \subseteq Line
  BY DEF Line
<1>4. gone \in Seq(Line)
  BY <1>2, <1>3
<1>5. historical_state' = [historical_state EXCEPT ![s] = @ \o ring]
  BY DEF Transmit
<1>6. /\ wire' = IF next # None /\ Alive(next)
                 THEN [w EXCEPT ![s][next] = @ \o gone] ELSE w
  BY DEF Transmit, NextOf, Gone
<1> HIDE DEF next, gone
<1>7. /\ historical_state' \in [Servers -> Seq(Update)]
      /\ \A p \in Servers : historical_state'[p] =
            IF p = s THEN historical_state[s] \o ring ELSE historical_state[p]
  BY <1>5
<1>8. CASE next # None /\ Alive(next)
  <2>1. next \in Servers /\ wire' = [w EXCEPT ![s][next] = @ \o gone]
    BY <1>1, <1>6, <1>8
  <2>2. w[s][next] \o gone \in Seq(Line)
    BY <1>4, <2>1 DEF Wires
  <2>3. wire' \in Wires
    BY <2>1, <2>2 DEF Wires
  <2>4. \A p, t \in Servers : wire'[p][t] =
           IF p = s /\ t = next THEN w[p][t] \o gone ELSE w[p][t]
    BY <2>1 DEF Wires
  <2> QED BY <1>2, <1>4, <1>7, <1>8, <2>3, <2>4 DEF next, gone
<1>9. CASE ~(next # None /\ Alive(next))
  <2>1. wire' = w
    BY <1>6, <1>9
  <2> QED BY <1>1, <1>2, <1>4, <1>7, <1>9, <2>1 DEF next, gone
<1> QED BY <1>8, <1>9

----------------------------------------------------------------------------
(* The tables.                                                             *)
Orders == [Customers \cup Riders -> OrderData \cup {None}]

(* What the fields of the tables are.                                      *)
LEMMA TablesFields ==
    ASSUME NEW d
    PROVE  d \in Tables <=>
             /\ d = [customers |-> d.customers, riders |-> d.riders,
                     restaurants |-> d.restaurants,
                     payment_system_port |-> d.payment_system_port,
                     orders_in_process |-> d.orders_in_process,
                     pending_delivery_requests |-> d.pending_delivery_requests]
             /\ d.customers \in [Customers -> Prices \cup {0, None}]
             /\ d.riders \subseteq Riders
             /\ d.restaurants \in [Restaurants -> Restaurant]
             /\ d.payment_system_port \in BOOLEAN
             /\ d.orders_in_process \in Orders
             /\ d.pending_delivery_requests \in Seq(Customers)
BY DEF Tables, Orders

(* One field of the tables is changed.                                     *)
LEMMA CustomersWith ==
    ASSUME NEW d \in Tables, NEW c \in Customers, NEW p \in Prices \cup {0, None}
    PROVE  LET e == [d EXCEPT !.customers[c] = p]
           IN  /\ e \in Tables /\ e.customers = [d.customers EXCEPT ![c] = p]
               /\ e.riders = d.riders /\ e.restaurants = d.restaurants
               /\ e.payment_system_port = d.payment_system_port
               /\ e.orders_in_process = d.orders_in_process
               /\ e.pending_delivery_requests = d.pending_delivery_requests
BY DEF Tables

(* The riders that are connected are changed.                              *)
LEMMA RidersWith ==
    ASSUME NEW d \in Tables, NEW R, R \subseteq Riders
    PROVE  LET e == [d EXCEPT !.riders = R]
           IN  /\ e \in Tables /\ e.riders = R
               /\ e.customers = d.customers /\ e.restaurants = d.restaurants
               /\ e.payment_system_port = d.payment_system_port
               /\ e.orders_in_process = d.orders_in_process
               /\ e.pending_delivery_requests = d.pending_delivery_requests
BY DEF Tables

(* The restaurants are changed.                                            *)
LEMMA RestaurantsWith ==
    ASSUME NEW d \in Tables, NEW f \in [Restaurants -> Restaurant]
    PROVE  LET e == [d EXCEPT !.restaurants = f]
           IN  /\ e \in Tables /\ e.restaurants = f
               /\ e.customers = d.customers /\ e.riders = d.riders
               /\ e.payment_system_port = d.payment_system_port
               /\ e.orders_in_process = d.orders_in_process
               /\ e.pending_delivery_requests = d.pending_delivery_requests
BY DEF Tables

(* The payment system is connected.                                        *)
LEMMA PaymentWith ==
    ASSUME NEW d \in Tables
    PROVE  LET e == [d EXCEPT !.payment_system_port = TRUE]
           IN  /\ e \in Tables /\ e.payment_system_port = TRUE
               /\ e.customers = d.customers /\ e.riders = d.riders
               /\ e.restaurants = d.restaurants
               /\ e.orders_in_process = d.orders_in_process
               /\ e.pending_delivery_requests = d.pending_delivery_requests
BY DEF Tables

(* The orders in process are changed.                                      *)
LEMMA OrdersWith ==
    ASSUME NEW d \in Tables, NEW f \in Orders
    PROVE  LET e == [d EXCEPT !.orders_in_process = f]
           IN  /\ e \in Tables /\ e.orders_in_process = f
               /\ e.customers = d.customers /\ e.riders = d.riders
               /\ e.restaurants = d.restaurants
               /\ e.payment_system_port = d.payment_system_port
               /\ e.pending_delivery_requests = d.pending_delivery_requests
BY DEF Tables, Orders

(* The queue of the orders that wait for a rider is changed.               *)
LEMMA QueueWith ==
    ASSUME NEW d \in Tables, NEW q \in Seq(Customers)
    PROVE  LET e == [d EXCEPT !.pending_delivery_requests = q]
           IN  /\ e \in Tables /\ e.pending_delivery_requests = q
               /\ e.customers = d.customers /\ e.riders = d.riders
               /\ e.restaurants = d.restaurants
               /\ e.payment_system_port = d.payment_system_port
               /\ e.orders_in_process = d.orders_in_process
BY DEF Tables

(* The forms in which the handlers change them.                            *)
LEMMA ExceptForms ==
    ASSUME NEW d \in Tables, NEW x, NEW v
    PROVE  /\ [d EXCEPT !.restaurants[x] = v]
                 = [d EXCEPT !.restaurants = [d.restaurants EXCEPT ![x] = v]]
           /\ [d EXCEPT !.orders_in_process[x] = v]
                 = [d EXCEPT !.orders_in_process = [d.orders_in_process EXCEPT ![x] = v]]
BY DEF Tables

----------------------------------------------------------------------------
(* The lines.                                                              *)

(* The kinds of updates.                                                   *)
LEMMA UpdateKinds ==
    ASSUME NEW c \in Customers, NEW r \in Riders, NEW x \in Restaurants
    PROVE  /\ \A p \in Prices \cup {0} :
                 [type |-> "UpdateCustomer", customer |-> c, price |-> p] \in Update
           /\ [type |-> "UpdateRider", rider |-> r] \in Update
           /\ \A o \in Restaurant \ {None} :
                 [type |-> "UpdateRestaurant", restaurant |-> x,
                  pending_orders |-> o] \in Update
           /\ \A o \in OrderData :
                 [type |-> "UpdateOrder", customer |-> c, order |-> o] \in Update
           /\ [type |-> "RemoveOrder", customer |-> c] \in Update
           /\ \A f \in BOOLEAN :
                 [type |-> "Push", customer |-> c, to_front |-> f] \in Update
BY DEF Update

(* What needs no client.                                                   *)
LEMMA UpdateOthers ==
    [type |-> "UpdatePaymentSystem"] \in Update /\ Pop \in Update
BY DEF Update, Pop

(* The fields of an update, by its type.                                   *)
LEMMA UpdateFields ==
    ASSUME NEW m \in Update
    PROVE  /\ m.type \in {"UpdateCustomer", "UpdateRider", "UpdateRestaurant",
                          "UpdatePaymentSystem", "UpdateOrder", "RemoveOrder",
                          "Push", "Pop"}
           /\ m.type \in {"UpdateCustomer", "UpdateOrder", "RemoveOrder", "Push"}
                 => m.customer \in Customers
           /\ m.type = "UpdateCustomer" => m.price \in Prices \cup {0}
           /\ m.type = "UpdateRider" => m.rider \in Riders
           /\ m.type = "UpdateRestaurant" => /\ m.restaurant \in Restaurants
                                             /\ m.pending_orders \in Restaurant \ {None}
           /\ m.type = "UpdateOrder" => m.order \in OrderData
           /\ m.type = "Push" => m.to_front \in BOOLEAN
BY DEF Update

(* A line is an update, or about the leader.                               *)
LEMMA LineKinds ==
    ASSUME NEW m \in Line
    PROVE  /\ IsUpdate(m) <=> m \in Update
           /\ ~IsUpdate(m) => \/ m.type = "Coordinator"
                              \/ m.type = "LeaderData" /\ m.leader \in Servers
<1>1. CASE m \in Update
  <2>1. IsUpdate(m)
    BY <1>1, UpdateFields DEF IsUpdate
  <2> QED BY <1>1, <2>1
<1>2. CASE m \notin Update
  BY <1>2 DEF Line, IsUpdate
<1> QED BY <1>1, <1>2

(* What is not a price or a set of orders is None.                         *)
LEMMA NoneApart ==
    /\ None \notin Prices \cup {0}
    /\ None \notin SUBSET [customer : Customers, price : Prices]
    /\ None \notin OrderData
    /\ Prices \subseteq Nat
<1>1. Prices \subseteq Nat
  BY DataRingAssumption DEF Prices
<1>2. None \notin Nat
  BY DataRingAssumption
<1>3. None \notin SUBSET [customer : Customers, price : Prices]
  <2> SUFFICES ASSUME NEW o \in SUBSET [customer : Customers, price : Prices]
               PROVE  o # None
    OBVIOUS
  <2> QED BY DataRingAssumption
<1>4. None \notin OrderData
  BY DataRingAssumption DEF OrderData
<1>5. None \notin Prices \cup {0}
  <2>1. None \notin Prices
    BY <1>1, <1>2
  <2>2. 0 \in Nat
    OBVIOUS
  <2>3. None # 0
    BY <1>2, <2>2, Zenon
  <2> QED BY <2>1, <2>3
<1> QED BY <1>1, <1>3, <1>4, <1>5

(* What a replica makes of an update, field by field.                      *)
LEMMA UpdatedFields ==
    ASSUME NEW d \in Tables, NEW m \in Update
    PROVE  LET e == Updated(d, m)
           IN  /\ e \in Tables
               /\ e.customers = IF m.type = "UpdateCustomer"
                                THEN [d.customers EXCEPT ![m.customer] = m.price]
                                ELSE d.customers
               /\ e.riders = IF m.type = "UpdateRider"
                             THEN d.riders \cup {m.rider} ELSE d.riders
               /\ e.restaurants =
                     IF m.type = "UpdateRestaurant"
                     THEN [d.restaurants EXCEPT ![m.restaurant] =
                              IF d.restaurants[m.restaurant] = None THEN {}
                              ELSE m.pending_orders]
                     ELSE d.restaurants
               /\ e.payment_system_port =
                     IF m.type = "UpdatePaymentSystem" THEN TRUE
                     ELSE d.payment_system_port
               /\ e.orders_in_process =
                     IF m.type = "UpdateOrder"
                     THEN [d.orders_in_process EXCEPT ![m.customer] = m.order]
                     ELSE IF m.type = "RemoveOrder"
                     THEN [d.orders_in_process EXCEPT ![m.customer] = None]
                     ELSE d.orders_in_process
               /\ m.type \notin {"Push", "Pop"} =>
                     e.pending_delivery_requests = d.pending_delivery_requests
<1> DEFINE e == Updated(d, m)
<1>0. /\ d.customers \in [Customers -> Prices \cup {0, None}]
      /\ d.riders \subseteq Riders
      /\ d.restaurants \in [Restaurants -> Restaurant]
      /\ d.orders_in_process \in Orders
      /\ d.pending_delivery_requests \in Seq(Customers)
  BY TablesFields
<1>1. CASE m.type = "UpdateCustomer"
  <2>1. e = [d EXCEPT !.customers[m.customer] = m.price]
    BY <1>1 DEF Updated, UpdateCustomerData
  <2>2. m.customer \in Customers /\ m.price \in Prices \cup {0, None}
    BY <1>1, UpdateFields
  <2> HIDE DEF e
  <2>3. /\ e \in Tables /\ e.customers = [d.customers EXCEPT ![m.customer] = m.price]
        /\ e.riders = d.riders /\ e.restaurants = d.restaurants
        /\ e.payment_system_port = d.payment_system_port
        /\ e.orders_in_process = d.orders_in_process
        /\ e.pending_delivery_requests = d.pending_delivery_requests
    BY <2>1, <2>2, CustomersWith
  <2> QED BY <1>1, <2>3, Zenon DEF e
<1>2. CASE m.type = "UpdateRider"
  <2>1. e = [d EXCEPT !.riders = d.riders \cup {m.rider}]
    BY <1>2 DEF Updated, UpdateRiderData, Tables
  <2>2. d.riders \cup {m.rider} \subseteq Riders
    BY <1>0, <1>2, UpdateFields
  <2> HIDE DEF e
  <2> QED BY <1>2, <2>1, <2>2, RidersWith DEF e
<1>3. CASE m.type = "UpdateRestaurant"
  <2> DEFINE v == IF d.restaurants[m.restaurant] = None THEN {}
                  ELSE m.pending_orders
             f == [d.restaurants EXCEPT ![m.restaurant] = v]
  <2>1. m.restaurant \in Restaurants /\ m.pending_orders \in Restaurant
    BY <1>3, UpdateFields
  <2>2. e = [d EXCEPT !.restaurants[m.restaurant] = v]
    BY <1>3 DEF Updated, UpdateRestaurantData, Tables
  <2>3. v \in Restaurant
    BY <2>1 DEF Restaurant
  <2>4. f \in [Restaurants -> Restaurant]
    BY <1>0, <2>3
  <2>5. e = [d EXCEPT !.restaurants = f]
    BY <2>2, ExceptForms
  <2> HIDE DEF e, f
  <2>6. /\ e \in Tables /\ e.restaurants = f
        /\ e.customers = d.customers /\ e.riders = d.riders
        /\ e.payment_system_port = d.payment_system_port
        /\ e.orders_in_process = d.orders_in_process
        /\ e.pending_delivery_requests = d.pending_delivery_requests
    BY <2>4, <2>5, RestaurantsWith
  <2> QED BY <1>3, <2>6, Zenon DEF e, f
<1>4. CASE m.type = "UpdatePaymentSystem"
  <2>1. e = [d EXCEPT !.payment_system_port = TRUE]
    BY <1>4 DEF Updated, UpdatePaymentSystemData
  <2> HIDE DEF e
  <2> QED BY <1>4, <2>1, PaymentWith DEF e
<1>5. CASE m.type = "UpdateOrder"
  <2> DEFINE f == [d.orders_in_process EXCEPT ![m.customer] = m.order]
  <2>1. m.customer \in Customers /\ m.order \in OrderData
    BY <1>5, UpdateFields
  <2>2. e = [d EXCEPT !.orders_in_process[m.customer] = m.order]
    BY <1>5 DEF Updated, UpdateOrderInProgressData
  <2>3. f \in Orders
    BY <1>0, <2>1 DEF Orders
  <2>4. e = [d EXCEPT !.orders_in_process = f]
    BY <2>2, ExceptForms
  <2> HIDE DEF e, f
  <2> QED BY <1>5, <2>3, <2>4, OrdersWith DEF e, f
<1>6. CASE m.type = "RemoveOrder"
  <2> DEFINE f == [d.orders_in_process EXCEPT ![m.customer] = None]
  <2>1. m.customer \in Customers
    BY <1>6, UpdateFields
  <2>2. e = [d EXCEPT !.orders_in_process[m.customer] = None]
    BY <1>6 DEF Updated, RemoveOrderInProgressData
  <2>3. f \in Orders
    BY <1>0, <2>1 DEF Orders
  <2>4. e = [d EXCEPT !.orders_in_process = f]
    BY <2>2, ExceptForms
  <2> HIDE DEF e, f
  <2> QED BY <1>6, <2>3, <2>4, OrdersWith DEF e, f
<1>7. CASE m.type \in {"Push", "Pop"}
  <2>1. PICK q : q = IF m.type = "Pop"
                     THEN IF d.pending_delivery_requests = <<>>
                          THEN d.pending_delivery_requests
                          ELSE Tail(d.pending_delivery_requests)
                     ELSE IF m.to_front
                          THEN <<m.customer>> \o d.pending_delivery_requests
                          ELSE Append(d.pending_delivery_requests, m.customer)
    OBVIOUS
  <2>2. e = [d EXCEPT !.pending_delivery_requests = q]
    BY <1>7, <2>1 DEF Updated, PushPendingDeliveryRequest,
                      PopPendingDeliveryRequest, Tables
  <2>3. q \in Seq(Customers)
    <3>1. CASE m.type = "Pop"
      BY <1>0, <2>1, <3>1
    <3>2. CASE m.type = "Push"
      <4>1. m.customer \in Customers /\ <<m.customer>> \in Seq(Customers)
        BY <3>2, UpdateFields
      <4> QED BY <1>0, <2>1, <3>2, <4>1
    <3> QED BY <1>7, <3>1, <3>2
  <2> HIDE DEF e
  <2>4. /\ e \in Tables
        /\ e.customers = d.customers /\ e.riders = d.riders
        /\ e.restaurants = d.restaurants
        /\ e.payment_system_port = d.payment_system_port
        /\ e.orders_in_process = d.orders_in_process
    BY <2>2, <2>3, QueueWith
  <2>5. /\ m.type # "UpdateCustomer" /\ m.type # "UpdateRider"
        /\ m.type # "UpdateRestaurant" /\ m.type # "UpdatePaymentSystem"
        /\ m.type # "UpdateOrder" /\ m.type # "RemoveOrder"
    BY <1>7
  <2> QED BY <1>7, <2>4, <2>5 DEF e
<1> QED BY <1>1, <1>2, <1>3, <1>4, <1>5, <1>6, <1>7, UpdateFields

(* What an update of an order changes.                                     *)
LEMMA OrderUpdated ==
    ASSUME NEW d \in Tables, NEW m \in Update, m.type = "UpdateOrder",
           NEW u, u = Updated(d, m)
    PROVE  /\ u.customers = d.customers
           /\ u.riders = d.riders /\ u.restaurants = d.restaurants
           /\ u.payment_system_port = d.payment_system_port
           /\ u.orders_in_process = [d.orders_in_process EXCEPT ![m.customer] = m.order]
BY UpdatedFields

----------------------------------------------------------------------------
(* The tables know the clients C.                                          *)
Known(d, C) ==
    /\ C \cap Riders \subseteq d.riders
    /\ \A x \in C \cap Restaurants : d.restaurants[x] # None
    /\ \A c \in C \cap Customers : d.customers[c] # None

(* The tables e know whom the tables d know.                               *)
Keeps(d, e) ==
    /\ d.riders \subseteq e.riders
    /\ \A x \in Restaurants : d.restaurants[x] # None => e.restaurants[x] # None
    /\ \A c \in Customers : d.customers[c] # None => e.customers[c] # None

(* No update takes a client away.                                          *)
LEMMA UpdatedKeeps ==
    ASSUME NEW d \in Tables, NEW m \in Update
    PROVE  Keeps(d, Updated(d, m))
<1> DEFINE e == Updated(d, m)
<1>0. /\ d.customers \in [Customers -> Prices \cup {0, None}]
      /\ d.riders \subseteq Riders
      /\ d.restaurants \in [Restaurants -> Restaurant]
  BY TablesFields
<1>1. d.riders \subseteq e.riders
  BY UpdatedFields
<1>2. ASSUME NEW x \in Restaurants, d.restaurants[x] # None
      PROVE  e.restaurants[x] # None
  <2>1. CASE m.type = "UpdateRestaurant"
    <3>1. m.pending_orders # None /\ {} # None
      <4>1. {} \in SUBSET [customer : Customers, price : Prices]
        OBVIOUS
      <4>2. {} # None
        BY <4>1, NoneApart, Zenon
      <4> QED BY <2>1, <4>2, UpdateFields
    <3>2. e.restaurants = [d.restaurants EXCEPT ![m.restaurant] =
                              IF d.restaurants[m.restaurant] = None THEN {}
                              ELSE m.pending_orders]
      BY <2>1, UpdatedFields
    <3> HIDE DEF e
    <3> QED BY <1>0, <1>2, <3>1, <3>2
  <2>2. CASE m.type # "UpdateRestaurant"
    BY <1>2, <2>2, UpdatedFields
  <2> QED BY <2>1, <2>2
<1>3. ASSUME NEW c \in Customers, d.customers[c] # None
      PROVE  e.customers[c] # None
  <2>1. CASE m.type = "UpdateCustomer"
    <3>1. m.price # None
      BY <2>1, NoneApart, UpdateFields
    <3>2. e.customers = [d.customers EXCEPT ![m.customer] = m.price]
      BY <2>1, UpdatedFields
    <3> HIDE DEF e
    <3> QED BY <1>0, <1>3, <3>1, <3>2
  <2>2. CASE m.type # "UpdateCustomer"
    BY <1>3, <2>2, UpdatedFields
  <2> QED BY <2>1, <2>2
<1> QED BY <1>1, <1>2, <1>3 DEF Keeps

----------------------------------------------------------------------------
(* What a handler does besides the change it is about.                     *)

(* Only the queue of deliveries is another.                                *)
SameButQueue(d, e) ==
    /\ e.customers = d.customers /\ e.riders = d.riders
    /\ e.restaurants = d.restaurants
    /\ e.payment_system_port = d.payment_system_port
    /\ e.orders_in_process = d.orders_in_process

(* The lines are about nothing but the queue.                              *)
Quiet(lines) == \A i \in DOMAIN lines : lines[i].type \in {"Push", "Pop"}

Queue(d) == d.pending_delivery_requests

(* The end of a handler changes the queue, and tells the next server so.   *)
LEMMA ProcessPendingTurn ==
    ASSUME TypeOK, NEW s \in Servers, NEW w \in Wires, NEW d \in Tables,
           NEW ring \in Seq(Update), NEW answers, answers \subseteq Due,
           connected' \in [Servers -> SUBSET Clients],
           ProcessPending(s, w, d, ring, answers)
    PROVE  \E e \in Tables, direct \in Seq(Update) :
              /\ tables' = [tables EXCEPT ![s] = e]
              /\ Transmit(s, w, ring, direct)
              /\ SameButQueue(d, e) /\ Quiet(direct)
              /\ Queue(d) = <<>> => e = d /\ direct = <<>>
              /\ due' \subseteq Due
              /\ \A m \in due' \ answers : m.type = "Offer"
<1> DEFINE queue == d.pending_delivery_requests
           riders == connected'[s] \cap Riders
           back == <<Pop, [type |-> "Push", customer |-> Head(queue),
                           to_front |-> TRUE]>>
           all == [i \in DOMAIN queue |-> Pop]
           e == [d EXCEPT !.pending_delivery_requests = <<>>]
<1>0. queue \in Seq(Customers)
  BY TablesFields
<1>1. CASE /\ queue = <<>>
           /\ tables' = [tables EXCEPT ![s] = d]
           /\ Transmit(s, w, ring, <<>>)
           /\ due' = answers
  <2>1. <<>> \in Seq(Update) /\ Quiet(<<>>)
    BY DEF Quiet
  <2>2. SameButQueue(d, d)
    BY DEF SameButQueue
  <2> QED BY <1>1, <2>1, <2>2
<1>2. CASE /\ queue # <<>>
           /\ tables' = [tables EXCEPT ![s] = d]
           /\ Transmit(s, w, ring, back)
           /\ due' = answers
  <2>1. Head(queue) \in Customers
    BY <1>0, <1>2
  <2>2. Pop \in Update /\ [type |-> "Push", customer |-> Head(queue),
                           to_front |-> TRUE] \in Update
    BY <2>1, UpdateKinds, UpdateOthers DEF Update
  <2>3. back \in Seq(Update)
    BY <2>2
  <2>4. Quiet(back)
    BY DEF Quiet, Pop
  <2>5. SameButQueue(d, d)
    BY DEF SameButQueue
  <2> HIDE DEF back
  <2> QED BY <1>2, <2>3, <2>4, <2>5 DEF Queue
<1>3. CASE /\ queue # <<>>
           /\ tables' = [tables EXCEPT ![s] = e]
           /\ Transmit(s, w, ring, all)
           /\ \E r \in riders :
                 due' = answers \cup
                     {[type |-> "Offer", customer |-> c, rider |-> r] :
                         c \in {k \in Range(queue) : d.customers[k] # None}}
  <2>1. all \in Seq(Update)
    BY <1>0, UpdateOthers
  <2>2. Quiet(all)
    BY DEF Quiet, Pop
  <2>3. e \in Tables /\ SameButQueue(d, e) /\ Queue(e) = <<>>
    <3>1. <<>> \in Seq(Customers)
      OBVIOUS
    <3> QED BY <3>1, QueueWith DEF SameButQueue, Queue
  <2>4. PICK r \in riders :
           due' = answers \cup
               {[type |-> "Offer", customer |-> c, rider |-> r] :
                   c \in {k \in Range(queue) : d.customers[k] # None}}
    BY <1>3
  <2>5. r \in Riders /\ Range(queue) \subseteq Customers
    BY <1>0, <2>4 DEF Range
  <2>6. \A m \in due' : \/ m \in answers
                        \/ \E c \in Customers :
                              m = [type |-> "Offer", customer |-> c, rider |-> r]
    BY <2>4, <2>5
  <2>7. due' \subseteq Due /\ \A m \in due' \ answers : m.type = "Offer"
    BY <2>5, <2>6 DEF Due
  <2> HIDE DEF all, e
  <2> QED BY <1>3, <2>1, <2>2, <2>3, <2>7 DEF Queue
<1> QED BY <1>1, <1>2, <1>3 DEF ProcessPending

----------------------------------------------------------------------------
(* The types.                                                              *)

KnownHere == \A s \in Servers : Known(tables[s], connected[s])

(* A manager knows the clients that are connected to it: an order changes  *)
(* the entry of its restaurant.  Connections are made to the server that   *)
(* starts.                                                                 *)
Linked == \A p \in Servers : link[p] # "none" => starting \in Servers /\ starting # p

TypeInv == TypeOK /\ KnownHere /\ Linked

(* Tables with others in the queue know the same clients.                  *)
LEMMA KnownOnward ==
    ASSUME NEW d, NEW e, NEW f, NEW C, Known(d, C), Keeps(d, e), SameButQueue(e, f)
    PROVE  Known(f, C) /\ Keeps(d, f)
BY DEF Known, Keeps, SameButQueue

(* The tables of servers that know some clients, but no customer.          *)
LEMMA KnownIs ==
    ASSUME NEW known
    PROVE  KnownTables(known) =
           [customers |-> [c \in Customers |-> None], riders |-> Riders \cap known,
            restaurants |-> [x \in Restaurants |-> IF x \in known THEN {} ELSE None],
            payment_system_port |-> Gateway \in known,
            orders_in_process |-> [k \in Customers \cup Riders |-> None],
            pending_delivery_requests |-> <<>>]
<1>1. PICK C : C = [c \in Customers |-> None]
  OBVIOUS
<1>2. PICK O : O = [k \in Customers \cup Riders |-> None]
  OBVIOUS
<1>3. PICK X : X = [x \in Restaurants |-> None]
  OBVIOUS
<1>4. PICK R : R = Riders \cap known
  OBVIOUS
<1>5. PICK Y : Y = [x \in Restaurants |-> IF x \in known THEN {} ELSE None]
  OBVIOUS
<1>6. PICK g : g = (Gateway \in known)
  OBVIOUS
<1>7. NoData = [customers |-> C, riders |-> {}, restaurants |-> X,
                payment_system_port |-> FALSE, orders_in_process |-> O,
                pending_delivery_requests |-> <<>>]
  BY <1>1, <1>2, <1>3 DEF NoData
<1>8. KnownTables(known) = [NoData EXCEPT !.riders = R, !.restaurants = Y,
                                          !.payment_system_port = g]
  BY <1>4, <1>5, <1>6, Zenon DEF KnownTables
<1>9. KnownTables(known) =
         [customers |-> C, riders |-> R, restaurants |-> Y,
          payment_system_port |-> g, orders_in_process |-> O,
          pending_delivery_requests |-> <<>>]
  BY <1>7, <1>8
<1> QED BY <1>1, <1>2, <1>4, <1>5, <1>6, <1>9

(* The tables at first.                                                    *)
LEMMA FirstTables ==
    ASSUME NEW known, known \subseteq Riders \cup Restaurants \cup {Gateway}
    PROVE  /\ NoData \in Tables /\ KnownTables(known) \in Tables
           /\ Known(KnownTables(known), known)
           /\ Known(NoData, {})
           /\ KnownTables(known).riders = Riders \cap known
           /\ Queue(NoData) = <<>> /\ Queue(KnownTables(known)) = <<>>
           /\ NoData.riders = {}
<1>1. /\ None \in Restaurant /\ {} \in Restaurant /\ {} # None
      /\ <<>> \in Seq(Customers)
  <2>1. {} \in SUBSET [customer : Customers, price : Prices]
    OBVIOUS
  <2>2. {} # None
    BY <2>1, NoneApart, Zenon
  <2>3. <<>> \in Seq(Customers)
    OBVIOUS
  <2>4. None \in Restaurant /\ {} \in Restaurant
    BY <2>1 DEF Restaurant
  <2> QED BY <2>2, <2>3, <2>4
<1>2. /\ [c \in Customers |-> None] \in [Customers -> Prices \cup {0, None}]
      /\ [x \in Restaurants |-> None] \in [Restaurants -> Restaurant]
      /\ [k \in Customers \cup Riders |-> None] \in Orders
      /\ [x \in Restaurants |-> IF x \in known THEN {} ELSE None]
            \in [Restaurants -> Restaurant]
  BY <1>1 DEF Orders
<1>3. NoData \in Tables
  BY <1>1, <1>2 DEF NoData, Tables, Orders
<1>4. KnownTables(known) =
         [customers |-> [c \in Customers |-> None], riders |-> Riders \cap known,
          restaurants |-> [x \in Restaurants |-> IF x \in known THEN {} ELSE None],
          payment_system_port |-> Gateway \in known,
          orders_in_process |-> [k \in Customers \cup Riders |-> None],
          pending_delivery_requests |-> <<>>]
  BY KnownIs
<1>5. KnownTables(known) \in Tables
  BY <1>1, <1>2, <1>4 DEF Tables, Orders
<1>6. known \cap Customers = {}
  BY DataRingAssumption
<1>7. Known(KnownTables(known), known)
  BY <1>1, <1>4, <1>6 DEF Known
<1> QED BY <1>3, <1>4, <1>5, <1>7 DEF Known, NoData, Queue

----------------------------------------------------------------------------
(* What the lines make of the tables.                                      *)

(* f[k] is what the first k of the lines make of d.                        *)
Steps(f, d, w) ==
    /\ f = [k \in 0 .. Len(w) |-> f[k]]
    /\ f[0] = d
    /\ \A k \in 1 .. Len(w) : f[k] = Heard(f[k - 1], w[k])

(* The steps are one after the other, so that there are some for all lines.*)
LEMMA StepsExist ==
    ASSUME NEW d, NEW w \in Seq(Line)
    PROVE  \E f : Steps(f, d, w)
<1> DEFINE Upto(f, n) ==
               /\ f = [k \in 0 .. n |-> f[k]]
               /\ f[0] = d
               /\ \A k \in 1 .. n : f[k] = Heard(f[k - 1], w[k])
           S == {n \in Nat : \E f : Upto(f, n)}
<1>1. 0 \in S
  <2>1. PICK f : f = [k \in 0 .. 0 |-> d]
    OBVIOUS
  <2>2. f = [k \in 0 .. 0 |-> f[k]] /\ f[0] = d
    BY <2>1
  <2>3. Upto(f, 0)
    BY <2>2
  <2> QED BY <2>3
<1>2. ASSUME NEW n \in Nat, n \in S PROVE n + 1 \in S
  <2>1. PICK f : Upto(f, n)
    BY <1>2
  <2>2. PICK v : v = Heard(f[n], w[n + 1])
    OBVIOUS
  <2>3. PICK g : g = [k \in 0 .. n + 1 |-> IF k = n + 1 THEN v ELSE f[k]]
    OBVIOUS
  <2>4. g = [k \in 0 .. n + 1 |-> g[k]] /\ g[0] = d
    BY <2>1, <2>3
  <2>5. \A k \in 0 .. n : g[k] = f[k]
    BY <2>3
  <2>6. g[n + 1] = v
    BY <2>3
  <2>7. ASSUME NEW k \in 1 .. n + 1 PROVE g[k] = Heard(g[k - 1], w[k])
    <3>1. CASE k = n + 1
      <4>1. g[k - 1] = f[n]
        <5>1. k - 1 = n /\ n \in 0 .. n
          BY <3>1
        <5> QED BY <2>5, <5>1
      <4>2. g[k] = v
        BY <2>6, <3>1
      <4> QED BY <2>2, <3>1, <4>1, <4>2
    <3>2. CASE k # n + 1
      <4>1. k \in 1 .. n /\ k \in 0 .. n /\ k - 1 \in 0 .. n
        BY <3>2
      <4>2. g[k] = f[k] /\ g[k - 1] = f[k - 1]
        BY <2>5, <4>1
      <4>3. f[k] = Heard(f[k - 1], w[k])
        BY <2>1, <4>1
      <4> QED BY <4>2, <4>3
    <3> QED BY <3>1, <3>2
  <2>8. Upto(g, n + 1)
    BY <2>4, <2>7
  <2> HIDE DEF Upto
  <2> QED BY <2>8
<1> HIDE DEF S
<1>3. Nat \subseteq S
  BY <1>1, <1>2, NatsIn
<1>4. Len(w) \in S
  BY <1>3
<1> QED BY <1>4 DEF S, Steps

(* They are determined by the lines.                                       *)
LEMMA StepsUnique ==
    ASSUME NEW d, NEW w \in Seq(Line), NEW f, NEW g,
           Steps(f, d, w), Steps(g, d, w)
    PROVE  f = g
<1> DEFINE S == {n \in Nat : n <= Len(w) => f[n] = g[n]}
<1>0. Len(w) \in Nat
  OBVIOUS
<1>1. 0 \in S
  BY DEF Steps
<1>2. ASSUME NEW n \in Nat, n \in S PROVE n + 1 \in S
  <2> SUFFICES ASSUME n + 1 <= Len(w) PROVE f[n + 1] = g[n + 1]
    OBVIOUS
  <2>1. n <= Len(w) /\ n + 1 \in 1 .. Len(w) /\ n + 1 - 1 = n
    BY <1>0
  <2>2. f[n] = g[n]
    BY <1>2, <2>1
  <2>3. f[n + 1] = Heard(f[n + 1 - 1], w[n + 1])
    BY <2>1 DEF Steps
  <2>4. g[n + 1] = Heard(g[n + 1 - 1], w[n + 1])
    BY <2>1 DEF Steps
  <2> QED BY <2>1, <2>2, <2>3, <2>4
<1> HIDE DEF S
<1>3. Nat \subseteq S
  BY <1>1, <1>2, NatsIn
<1>4. \A n \in 0 .. Len(w) : f[n] = g[n]
  BY <1>0, <1>3 DEF S
<1>5. f = [k \in 0 .. Len(w) |-> f[k]] /\ g = [k \in 0 .. Len(w) |-> g[k]]
  BY DEF Steps
<1> QED BY <1>4, <1>5

(* Made is the last of the steps.                                          *)
LEMMA MadeIs ==
    ASSUME NEW d, NEW w \in Seq(Line), NEW f, Steps(f, d, w)
    PROVE  Made(d, w) = f[Len(w)]
<1> DEFINE Next1(g) == [n \in 0 .. Len(w) |->
                           IF n = 0 THEN d ELSE Heard(g[n - 1], w[n])]
           c == CHOOSE g : g = Next1(g)
<1>0. Len(w) \in Nat
  OBVIOUS
<1>1. Made(d, w) = c[Len(w)]
  BY DEF Made
<1>2. f = Next1(f)
  <2>1. \A n \in 0 .. Len(w) :
           f[n] = IF n = 0 THEN d ELSE Heard(f[n - 1], w[n])
    <3>1. \A n \in 0 .. Len(w) : n # 0 => n \in 1 .. Len(w)
      BY <1>0
    <3>2. f[0] = d /\ \A k \in 1 .. Len(w) : f[k] = Heard(f[k - 1], w[k])
      BY DEF Steps
    <3> QED BY <3>1, <3>2
  <2>2. f = [n \in 0 .. Len(w) |-> f[n]]
    BY DEF Steps
  <2> QED BY <2>1, <2>2
<1>3. c = Next1(c)
  <2>1. \E g : g = Next1(g)
    BY <1>2
  <2> HIDE DEF Next1
  <2> QED BY <2>1
<1> HIDE DEF c
<1>4. Steps(c, d, w)
  <2>1. c[0] = d
    BY <1>0, <1>3
  <2>2. \A k \in 1 .. Len(w) : c[k] = Heard(c[k - 1], w[k])
    BY <1>0, <1>3
  <2>3. c = [k \in 0 .. Len(w) |-> c[k]]
    BY <1>3
  <2> QED BY <2>1, <2>2, <2>3 DEF Steps
<1>5. c = f
  BY <1>4, StepsUnique
<1> QED BY <1>1, <1>5

(* Lines that come after others.                                           *)
LEMMA MadeConcat ==
    ASSUME NEW d, NEW a \in Seq(Line), NEW b \in Seq(Line)
    PROVE  Made(d, a \o b) = Made(Made(d, a), b)
<1> DEFINE n == Len(a)
           m == Len(b)
           w == a \o b
<1>0. /\ n \in Nat /\ m \in Nat /\ w \in Seq(Line) /\ Len(w) = n + m
      /\ \A k \in 1 .. n : w[k] = a[k]
      /\ \A k \in 1 .. m : w[n + k] = b[k]
  OBVIOUS
<1>1. PICK f : Steps(f, d, a)
  BY StepsExist
<1>2. PICK g : Steps(g, f[n], b)
  BY StepsExist
<1>3. PICK h : h = [k \in 0 .. n + m |-> IF k <= n THEN f[k] ELSE g[k - n]]
  OBVIOUS
<1> HIDE DEF n, m, w
<1>4. g[0] = f[n]
  BY <1>2 DEF Steps
<1>5. \A k \in 0 .. n : h[k] = f[k]
  BY <1>0, <1>3
<1>6. \A k \in 0 .. m : h[n + k] = g[k]
  <2> SUFFICES ASSUME NEW k \in 0 .. m PROVE h[n + k] = g[k]
    OBVIOUS
  <2>1. n + k \in 0 .. n + m /\ n + k - n = k
    BY <1>0
  <2>2. CASE k = 0
    <3>1. n + k = n /\ n \in 0 .. n
      BY <1>0, <2>2
    <3> QED BY <1>4, <1>5, <2>2, <3>1
  <2>3. CASE k # 0
    BY <1>0, <1>3, <2>1, <2>3
  <2> QED BY <2>2, <2>3
<1>7. Steps(h, d, w)
  <2>1. h = [k \in 0 .. Len(w) |-> h[k]]
    BY <1>0, <1>3
  <2>2. h[0] = d
    <3>1. 0 \in 0 .. n
      BY <1>0
    <3> QED BY <1>1, <1>5, <3>1 DEF Steps
  <2>3. ASSUME NEW k \in 1 .. Len(w) PROVE h[k] = Heard(h[k - 1], w[k])
    <3>1. CASE k <= n
      <4>1. k \in 1 .. n /\ k \in 0 .. n /\ k - 1 \in 0 .. n
        BY <1>0, <3>1
      <4>2. h[k] = f[k] /\ h[k - 1] = f[k - 1] /\ w[k] = a[k]
        BY <1>0, <1>5, <4>1
      <4>3. f[k] = Heard(f[k - 1], a[k])
        BY <1>1, <4>1 DEF Steps, n
      <4> QED BY <4>2, <4>3
    <3>2. CASE k > n
      <4>1. PICK i : i = k - n
        OBVIOUS
      <4>2. /\ i \in 1 .. m /\ i \in 0 .. m /\ i - 1 \in 0 .. m
            /\ k = n + i /\ k - 1 = n + (i - 1)
        BY <1>0, <3>2, <4>1
      <4>3. h[k] = g[i] /\ h[k - 1] = g[i - 1] /\ w[k] = b[i]
        BY <1>0, <1>6, <4>2
      <4>4. g[i] = Heard(g[i - 1], b[i])
        BY <1>2, <4>2 DEF Steps, m
      <4> QED BY <4>3, <4>4
    <3> QED BY <1>0, <3>1, <3>2
  <2> QED BY <2>1, <2>2, <2>3 DEF Steps
<1>8. Made(d, w) = h[n + m]
  BY <1>0, <1>7, MadeIs
<1>9. Made(d, a) = f[n] /\ Made(f[n], b) = g[m]
  BY <1>1, <1>2, MadeIs DEF n, m
<1>10. h[n + m] = g[m]
  BY <1>0, <1>6
<1> QED BY <1>8, <1>9, <1>10 DEF w

(* No line, and one.                                                       *)
LEMMA MadeFew ==
    ASSUME NEW d
    PROVE  /\ Made(d, <<>>) = d
           /\ \A m \in Line : Made(d, <<m>>) = Heard(d, m)
<1>1. Made(d, <<>>) = d
  <2>1. <<>> \in Seq(Line) /\ Len(<<>>) = 0
    OBVIOUS
  <2>2. PICK f : Steps(f, d, <<>>)
    BY <2>1, StepsExist
  <2> QED BY <2>1, <2>2, MadeIs DEF Steps
<1>2. ASSUME NEW m \in Line PROVE Made(d, <<m>>) = Heard(d, m)
  <2>1. <<m>> \in Seq(Line) /\ Len(<<m>>) = 1 /\ <<m>>[1] = m
    OBVIOUS
  <2>2. PICK f : Steps(f, d, <<m>>)
    BY <2>1, StepsExist
  <2>3. f[0] = d
    BY <2>2 DEF Steps
  <2>4. f[1] = Heard(f[1 - 1], <<m>>[1])
    <3>1. 1 \in 1 .. Len(<<m>>)
      BY <2>1
    <3> QED BY <2>2, <3>1 DEF Steps
  <2>5. 1 - 1 = 0
    OBVIOUS
  <2>6. f[1] = Heard(d, m)
    BY <2>1, <2>3, <2>4, <2>5
  <2> QED BY <2>1, <2>2, <2>6, MadeIs
<1> QED BY <1>1, <1>2

(* The line that is taken has been made first.                             *)
LEMMA MadeTaken ==
    ASSUME NEW d, NEW w \in Seq(Line), w # <<>>
    PROVE  Made(d, w) = Made(Heard(d, Head(w)), Tail(w))
<1>1. /\ Head(w) \in Line /\ Tail(w) \in Seq(Line)
      /\ <<Head(w)>> \in Seq(Line) /\ w = <<Head(w)>> \o Tail(w)
  OBVIOUS
<1>2. PICK h : h = Head(w)
  OBVIOUS
<1>3. PICK t : t = Tail(w)
  OBVIOUS
<1>4. Made(d, <<h>> \o t) = Made(Made(d, <<h>>), t)
  BY <1>1, <1>2, <1>3, MadeConcat
<1>5. Made(d, <<h>>) = Heard(d, h)
  BY <1>1, <1>2, MadeFew
<1> QED BY <1>1, <1>2, <1>3, <1>4, <1>5

----------------------------------------------------------------------------
(* Tables that agree on what is shared.                                    *)
Alike(d, e) ==
    /\ \A c \in Customers : d.customers[c] # None <=> e.customers[c] # None
    /\ d.riders = e.riders
    /\ \A x \in Restaurants : d.restaurants[x] # None <=> e.restaurants[x] # None
    /\ d.payment_system_port = e.payment_system_port
    /\ \A c \in Customers : d.orders_in_process[c] = e.orders_in_process[c]

(* Tables that are alike share what the ring replicates.                   *)
LEMMA SharedAlike ==
    ASSUME NEW d, NEW e
    PROVE  (Shared(d) = Shared(e)) <=> Alike(d, e)
<1> DEFINE C(f) == {c \in Customers : f.customers[c] # None}
           X(f) == {x \in Restaurants : f.restaurants[x] # None}
           O(f) == [c \in Customers |-> f.orders_in_process[c]]
           R(f) == [customers |-> C(f), riders |-> f.riders, restaurants |-> X(f),
                    payment_system_port |-> f.payment_system_port,
                    orders |-> O(f)]
<1>1. Shared(d) = R(d) /\ Shared(e) = R(e)
  BY DEF Shared
<1>2. C(d) = C(e) <=> \A c \in Customers : d.customers[c] # None <=> e.customers[c] # None
  OBVIOUS
<1>3. X(d) = X(e) <=> \A x \in Restaurants : d.restaurants[x] # None <=> e.restaurants[x] # None
  OBVIOUS
<1>4. O(d) = O(e) <=> \A c \in Customers : d.orders_in_process[c] = e.orders_in_process[c]
  OBVIOUS
<1>5. R(d) = R(e) <=> /\ C(d) = C(e) /\ d.riders = e.riders /\ X(d) = X(e)
                      /\ d.payment_system_port = e.payment_system_port
                      /\ O(d) = O(e)
  <2> HIDE DEF C, X, O
  <2> QED OBVIOUS
<1> HIDE DEF C, X, O, R
<1> QED BY <1>1, <1>2, <1>3, <1>4, <1>5 DEF Alike

(* Lines that are not about the queue, or of the leader.                   *)
Calm(m) == IsUpdate(m) => m.type \in {"Push", "Pop"}

(* Tables that are alike hear a line alike.                                *)
LEMMA HeardAlike ==
    ASSUME NEW d \in Tables, NEW e \in Tables, Alike(d, e), NEW m \in Line
    PROVE  /\ Heard(d, m) \in Tables /\ Heard(e, m) \in Tables
           /\ Alike(Heard(d, m), Heard(e, m))
           /\ Calm(m) => Alike(Heard(d, m), d)
<1>0. /\ d.customers \in [Customers -> Prices \cup {0, None}]
      /\ d.restaurants \in [Restaurants -> Restaurant]
      /\ d.orders_in_process \in Orders
      /\ e.customers \in [Customers -> Prices \cup {0, None}]
      /\ e.restaurants \in [Restaurants -> Restaurant]
      /\ e.orders_in_process \in Orders
  BY TablesFields
<1>1. CASE ~IsUpdate(m)
  BY <1>1 DEF Heard, Alike
<1>2. CASE IsUpdate(m)
  <2>0. m \in Update /\ Heard(d, m) = Updated(d, m) /\ Heard(e, m) = Updated(e, m)
    BY <1>2, LineKinds DEF Heard
  <2> DEFINE D == Updated(d, m)
             E == Updated(e, m)
  <2>1. D \in Tables /\ E \in Tables
    BY <2>0, UpdatedFields
  <2>2. \A c \in Customers : D.customers[c] # None <=> E.customers[c] # None
    <3>1. CASE m.type = "UpdateCustomer"
      <4>1. /\ D.customers = [d.customers EXCEPT ![m.customer] = m.price]
            /\ E.customers = [e.customers EXCEPT ![m.customer] = m.price]
        BY <2>0, <3>1, UpdatedFields
      <4> HIDE DEF D, E
      <4> QED BY <1>0, <4>1 DEF Alike
    <3>2. CASE m.type # "UpdateCustomer"
      <4>1. D.customers = d.customers /\ E.customers = e.customers
        BY <2>0, <3>2, UpdatedFields
      <4> HIDE DEF D, E
      <4> QED BY <4>1 DEF Alike
    <3> QED BY <3>1, <3>2
  <2>3. D.riders = E.riders
    BY <2>0, UpdatedFields DEF Alike
  <2>4. \A x \in Restaurants : D.restaurants[x] # None <=> E.restaurants[x] # None
    <3>1. CASE m.type = "UpdateRestaurant"
      <4>1. /\ D.restaurants = [d.restaurants EXCEPT ![m.restaurant] =
                   IF d.restaurants[m.restaurant] = None THEN {} ELSE m.pending_orders]
            /\ E.restaurants = [e.restaurants EXCEPT ![m.restaurant] =
                   IF e.restaurants[m.restaurant] = None THEN {} ELSE m.pending_orders]
        BY <2>0, <3>1, UpdatedFields
      <4>2. m.restaurant \in Restaurants
        BY <2>0, <3>1, UpdateFields
      <4> HIDE DEF D, E
      <4> QED BY <1>0, <4>1, <4>2 DEF Alike
    <3>2. CASE m.type # "UpdateRestaurant"
      <4>1. D.restaurants = d.restaurants /\ E.restaurants = e.restaurants
        BY <2>0, <3>2, UpdatedFields
      <4> HIDE DEF D, E
      <4> QED BY <4>1 DEF Alike
    <3> QED BY <3>1, <3>2
  <2>5. D.payment_system_port = E.payment_system_port
    <3>1. CASE m.type = "UpdatePaymentSystem"
      <4>1. D.payment_system_port = TRUE /\ E.payment_system_port = TRUE
        BY <2>0, <3>1, UpdatedFields
      <4> HIDE DEF D, E
      <4> QED BY <4>1
    <3>2. CASE m.type # "UpdatePaymentSystem"
      <4>1. /\ D.payment_system_port = d.payment_system_port
            /\ E.payment_system_port = e.payment_system_port
        BY <2>0, <3>2, UpdatedFields
      <4> HIDE DEF D, E
      <4> QED BY <4>1 DEF Alike
    <3> QED BY <3>1, <3>2
  <2>6. \A c \in Customers : D.orders_in_process[c] = E.orders_in_process[c]
    <3>1. CASE m.type = "UpdateOrder"
      <4>1. /\ D.orders_in_process = [d.orders_in_process EXCEPT ![m.customer] = m.order]
            /\ E.orders_in_process = [e.orders_in_process EXCEPT ![m.customer] = m.order]
        BY <2>0, <3>1, UpdatedFields
      <4> HIDE DEF D, E
      <4> QED BY <1>0, <4>1 DEF Alike, Orders
    <3>2. CASE m.type = "RemoveOrder"
      <4>1. /\ D.orders_in_process = [d.orders_in_process EXCEPT ![m.customer] = None]
            /\ E.orders_in_process = [e.orders_in_process EXCEPT ![m.customer] = None]
        BY <2>0, <3>2, UpdatedFields
      <4> HIDE DEF D, E
      <4> QED BY <1>0, <4>1 DEF Alike, Orders
    <3>3. CASE m.type \notin {"UpdateOrder", "RemoveOrder"}
      <4>1. D.orders_in_process = d.orders_in_process /\ E.orders_in_process = e.orders_in_process
        BY <2>0, <3>3, UpdatedFields
      <4> HIDE DEF D, E
      <4> QED BY <4>1 DEF Alike
    <3> QED BY <3>1, <3>2, <3>3
  <2>7. Alike(D, E)
    BY <2>2, <2>3, <2>4, <2>5, <2>6 DEF Alike
  <2>8. Calm(m) => Alike(D, d)
    <3> SUFFICES ASSUME m.type \in {"Push", "Pop"} PROVE Alike(D, d)
      BY <1>2 DEF Calm
    <3>1. /\ m.type # "UpdateCustomer" /\ m.type # "UpdateRider"
          /\ m.type # "UpdateRestaurant" /\ m.type # "UpdatePaymentSystem"
          /\ m.type # "UpdateOrder" /\ m.type # "RemoveOrder"
      OBVIOUS
    <3>2. /\ D.customers = d.customers /\ D.riders = d.riders
          /\ D.restaurants = d.restaurants
          /\ D.payment_system_port = d.payment_system_port
          /\ D.orders_in_process = d.orders_in_process
      BY <2>0, <3>1, UpdatedFields
    <3> HIDE DEF D
    <3> QED BY <3>2 DEF Alike
  <2> QED BY <2>0, <2>1, <2>7, <2>8
<1> QED BY <1>1, <1>2

(* So do they hear many.                                                   *)
LEMMA MadeAlike ==
    ASSUME NEW d \in Tables, NEW e \in Tables, Alike(d, e), NEW w \in Seq(Line)
    PROVE  /\ Made(d, w) \in Tables /\ Made(e, w) \in Tables
           /\ Alike(Made(d, w), Made(e, w))
<1>0. Len(w) \in Nat /\ \A k \in 1 .. Len(w) : w[k] \in Line
  OBVIOUS
<1>1. PICK f : Steps(f, d, w)
  BY StepsExist
<1>2. PICK g : Steps(g, e, w)
  BY StepsExist
<1>a. \A k \in 1 .. Len(w) : f[k] = Heard(f[k - 1], w[k])
  BY <1>1 DEF Steps
<1>b. \A k \in 1 .. Len(w) : g[k] = Heard(g[k - 1], w[k])
  BY <1>2 DEF Steps
<1> DEFINE Same(n) == f[n] \in Tables /\ g[n] \in Tables /\ Alike(f[n], g[n])
           S == {n \in Nat : n <= Len(w) => Same(n)}
<1>3. 0 \in S
  BY <1>1, <1>2 DEF Steps
<1>4. ASSUME NEW n \in Nat, n \in S PROVE n + 1 \in S
  <2> SUFFICES ASSUME n + 1 <= Len(w) PROVE Same(n + 1)
    OBVIOUS
  <2>1. n <= Len(w) /\ n + 1 \in 1 .. Len(w) /\ n + 1 - 1 = n
    BY <1>0
  <2>2. Same(n)
    BY <1>4, <2>1
  <2>3. f[n + 1] = Heard(f[n + 1 - 1], w[n + 1])
    BY <1>a, <2>1
  <2>4. g[n + 1] = Heard(g[n + 1 - 1], w[n + 1])
    BY <1>b, <2>1
  <2>5. PICK m : m = w[n + 1]
    OBVIOUS
  <2>6. f[n + 1] = Heard(f[n], m) /\ g[n + 1] = Heard(g[n], m) /\ m \in Line
    BY <1>0, <2>1, <2>3, <2>4, <2>5
  <2> QED BY <2>2, <2>6, HeardAlike
<1> HIDE DEF S
<1>5. Nat \subseteq S
  BY <1>3, <1>4, NatsIn
<1>6. Same(Len(w))
  BY <1>0, <1>5 DEF S
<1> QED BY <1>1, <1>2, <1>6, MadeIs

(* Calm lines change nothing that is shared.                               *)
LEMMA MadeCalm ==
    ASSUME NEW d \in Tables, NEW w \in Seq(Line), \A k \in DOMAIN w : Calm(w[k])
    PROVE  Made(d, w) \in Tables /\ Alike(Made(d, w), d)
<1>0. Len(w) \in Nat /\ DOMAIN w = 1 .. Len(w) /\ \A k \in 1 .. Len(w) : w[k] \in Line
  OBVIOUS
<1>1. PICK f : Steps(f, d, w)
  BY StepsExist
<1>a. \A k \in 1 .. Len(w) : f[k] = Heard(f[k - 1], w[k])
  BY <1>1 DEF Steps
<1> DEFINE Same(n) == f[n] \in Tables /\ Alike(f[n], d)
           S == {n \in Nat : n <= Len(w) => Same(n)}
<1>3. 0 \in S
  BY <1>1 DEF Steps, Alike
<1>4. ASSUME NEW n \in Nat, n \in S PROVE n + 1 \in S
  <2> SUFFICES ASSUME n + 1 <= Len(w) PROVE Same(n + 1)
    OBVIOUS
  <2>1. n <= Len(w) /\ n + 1 \in 1 .. Len(w) /\ n + 1 - 1 = n
    BY <1>0
  <2>2. Same(n)
    BY <1>4, <2>1
  <2>3. f[n + 1] = Heard(f[n + 1 - 1], w[n + 1])
    BY <1>a, <2>1
  <2>5. PICK m : m = w[n + 1]
    OBVIOUS
  <2>6. f[n + 1] = Heard(f[n], m) /\ m \in Line /\ Calm(m)
    BY <1>0, <2>1, <2>3, <2>5
  <2>7. Alike(f[n], f[n])
    BY DEF Alike
  <2>8. f[n + 1] \in Tables /\ Alike(f[n + 1], f[n])
    BY <2>2, <2>6, <2>7, HeardAlike
  <2> QED BY <2>2, <2>8 DEF Alike
<1> HIDE DEF S
<1>5. Nat \subseteq S
  BY <1>3, <1>4, NatsIn
<1>6. Same(Len(w))
  BY <1>0, <1>5 DEF S
<1> QED BY <1>1, <1>6, MadeIs

----------------------------------------------------------------------------
(* What the handlers of the clients' messages have in common.              *)

RidersIn(lines, C) ==
    \A i \in DOMAIN lines : lines[i].type = "UpdateRider" => lines[i].rider \in C

(* Tables like d are made, by the lines, tables like e.                    *)
Says(d, lines, e) == \A t \in Tables : Alike(t, d) => Alike(Made(t, lines), e)

(* An order is of a connected customer, at the price that it is known for. *)
Priced(d, C) ==
    \A c \in Customers : d.orders_in_process[c] # None =>
        c \in C /\ d.orders_in_process[c].order_price = d.customers[c]

Pushes(lines) == \E i \in DOMAIN lines : lines[i].type = "Push"

(* While nothing has happened but a server that joined the only other one. *)
Orderly == faults \subseteq {"join"}

(* s may leave its tables at d, having sent the lines round the ring.      *)
Changes(s, d, ring) ==
    /\ d \in Tables /\ ring \in Seq(Update)
    /\ Keeps(tables[s], d) /\ Known(d, connected'[s])
    /\ d.riders \subseteq tables[s].riders \cup connected'[s]
    /\ RidersIn(ring, connected'[s])
    /\ Orderly' /\ Priced(tables[s], connected[s]) =>
          Says(tables[s], ring, d) /\ Priced(d, connected'[s])

(* The lines say all that s has changed, unless a rider was given nothing.  *)
Tells(s, d, lines) == "stray" \notin faults' => Says(tables[s], lines, d)

(* What s tells its next server besides agrees with the tables it has.     *)
Turn(s, d, ring, direct) ==
    /\ Changes(s, d, ring) /\ Tells(s, d, ring \o direct)
    /\ direct \in Seq(Update)
    /\ \A i \in DOMAIN direct : direct[i].type # "UpdateRider"
    /\ Quiet(direct) \/ connected[s] # {}
    /\ Says(d, direct, d)
    /\ \/ Queue(tables[s]) # <<>> \/ Pushes(ring)
       \/ Queue(d) = <<>> /\ \A i \in DOMAIN direct : direct[i].type \notin {"Push", "Pop"}
    /\ tables' = [tables EXCEPT ![s] = d]
    /\ Transmit(s, wire, ring, direct)

(* The rest of the state.                                                  *)
Frame(s) ==
    /\ Managing(s) /\ UNCHANGED serverVars
    /\ connected' \in [Servers -> SUBSET Clients]
    /\ connected[s] \subseteq connected'[s]
    /\ \A t \in Servers \ {s} : connected'[t] = connected[t]
    /\ connected'[s] = connected[s] \/ leader[s] = s
    /\ faults \subseteq faults' /\ faults' \subseteq faults \cup {"stray"}
    /\ disturbances' = disturbances
    /\ ordered' \in [Customers -> 0 .. MaxOrders]
    /\ visits' \in 0 .. MaxVisits
    /\ choosing' \subseteq Customers

Answered(s) ==
    /\ due' \subseteq Due
    /\ \A m \in due' \ due : m.type = "FindRider" => m.at = s /\ connected[s] # {}

ClientTurn(s) ==
    /\ Frame(s) /\ Answered(s)
    /\ \E d \in Tables, ring, direct \in Seq(Update) : Turn(s, d, ring, direct)

(* Lines about the queue do not disagree with any tables.                  *)
LEMMA QuietSays ==
    ASSUME NEW d, NEW e, SameButQueue(d, e),
           NEW lines \in Seq(Update), Quiet(lines)
    PROVE  /\ Says(e, lines, e)
           /\ \A t : \A ring \in Seq(Update) : Says(t, ring, d) => Says(t, ring, e)
           /\ \A C : Priced(d, C) => Priced(e, C)
<1>1. lines \in Seq(Line)
  BY DEF Line
<1>2. \A k \in DOMAIN lines : Calm(lines[k])
  BY DEF Calm, Quiet
<1>3. \A t \in Tables : Alike(t, d) <=> Alike(t, e)
  BY DEF SameButQueue, Alike
<1>4. Says(e, lines, e)
  <2> SUFFICES ASSUME NEW t \in Tables, Alike(t, e) PROVE Alike(Made(t, lines), e)
    BY DEF Says
  <2>1. Alike(Made(t, lines), t)
    BY <1>1, <1>2, MadeCalm
  <2> QED BY <2>1 DEF Alike
<1>5. \A t : Alike(t, d) => Alike(t, e)
  BY DEF SameButQueue, Alike
<1> QED BY <1>4, <1>5 DEF Says, Priced, SameButQueue

(* What is said, and then said of that.                                    *)
LEMMA SaysThen ==
    ASSUME NEW d \in Tables, NEW e, NEW f,
           NEW a \in Seq(Update), NEW b \in Seq(Update), Says(d, a, e), Says(e, b, f)
    PROVE  Says(d, a \o b, f)
<1> SUFFICES ASSUME NEW t \in Tables, Alike(t, d) PROVE Alike(Made(t, a \o b), f)
  BY DEF Says
<1>1. a \in Seq(Line) /\ b \in Seq(Line)
  BY DEF Line
<1>2. PICK u : u = Made(t, a)
  OBVIOUS
<1>3. u \in Tables /\ Alike(u, e)
  BY <1>1, <1>2, MadeAlike DEF Says
<1>4. Made(t, a \o b) = Made(u, b)
  BY <1>1, <1>2, MadeConcat
<1> QED BY <1>3, <1>4 DEF Says

(* A handler that ends by process_pending_requests.                        *)
LEMMA PendingTurn ==
    ASSUME TypeInv, NEW s \in Servers, NEW d, NEW ring, Changes(s, d, ring),
           Tells(s, d, ring),
           Queue(d) = Queue(tables[s]),
           NEW answers, answers \subseteq Due,
           \A m \in answers \ due : m.type # "FindRider",
           Frame(s), ProcessPending(s, wire, d, ring, answers)
    PROVE  ClientTurn(s)
<1>1. d \in Tables /\ ring \in Seq(Update)
  BY DEF Changes
<1>2. wire \in Wires /\ TypeOK
  BY DEF TypeInv, TypeOK, Wires
<1>3. connected' \in [Servers -> SUBSET Clients]
  BY DEF Frame
<1>4. PICK e \in Tables, direct \in Seq(Update) :
         /\ tables' = [tables EXCEPT ![s] = e]
         /\ Transmit(s, wire, ring, direct)
         /\ SameButQueue(d, e) /\ Quiet(direct)
         /\ Queue(d) = <<>> => e = d /\ direct = <<>>
         /\ due' \subseteq Due
         /\ \A m \in due' \ answers : m.type = "Offer"
  BY <1>1, <1>2, <1>3, ProcessPendingTurn
<1>5. Changes(s, e, ring)
  <2>1. Keeps(tables[s], e) /\ Known(e, connected'[s])
    BY <1>4 DEF Changes, Keeps, Known, SameButQueue
  <2>2. e.riders \subseteq tables[s].riders \cup connected'[s]
    BY <1>4 DEF Changes, SameButQueue
  <2>3. Orderly' /\ Priced(tables[s], connected[s]) =>
            Says(tables[s], ring, e) /\ Priced(e, connected'[s])
    BY <1>1, <1>4, QuietSays DEF Changes
  <2> QED BY <1>1, <2>1, <2>2, <2>3 DEF Changes
<1>6. Says(e, direct, e)
  BY <1>4, QuietSays
<1>7. \A i \in DOMAIN direct : direct[i].type # "UpdateRider"
  BY <1>4 DEF Quiet
<1>8. \/ Queue(tables[s]) # <<>>
      \/ Queue(e) = <<>> /\ \A i \in DOMAIN direct : direct[i].type \notin {"Push", "Pop"}
  BY <1>4
<1>9. Tells(s, e, ring \o direct)
  <2> SUFFICES ASSUME "stray" \notin faults' PROVE Says(tables[s], ring \o direct, e)
    BY DEF Tells
  <2>1. Says(tables[s], ring, e)
    BY <1>1, <1>4, QuietSays DEF Tells
  <2>2. tables[s] \in Tables
    BY <1>2 DEF TypeOK
  <2> QED BY <1>1, <1>4, <1>6, <2>1, <2>2, SaysThen
<1>10. Turn(s, e, ring, direct)
  BY <1>4, <1>5, <1>6, <1>7, <1>8, <1>9 DEF Turn
<1>11. Answered(s)
  BY <1>4 DEF Answered
<1> QED BY <1>1, <1>4, <1>10, <1>11 DEF ClientTurn

(* A handler that does not.                                                *)
LEMMA FinishTurn ==
    ASSUME TypeInv, NEW s \in Servers, NEW d, NEW ring, Changes(s, d, ring),
           Tells(s, d, ring),
           Queue(d) = Queue(tables[s]) \/ Pushes(ring),
           NEW answers, answers \subseteq Due,
           \A m \in answers \ due :
               m.type = "FindRider" => m.at = s /\ connected[s] # {},
           Frame(s), Finish(s, d, ring, <<>>, answers)
    PROVE  ClientTurn(s)
<1>1. d \in Tables /\ ring \in Seq(Update) /\ <<>> \in Seq(Update)
  BY DEF Changes
<1>2. Quiet(<<>>) /\ \A i \in DOMAIN <<>> : FALSE
  BY DEF Quiet
<1>3. Says(d, <<>>, d)
  BY MadeFew DEF Says
<1>4. ring \o <<>> = ring
  BY <1>1, ConcatEmptySeq
<1>6. Turn(s, d, ring, <<>>)
  BY <1>1, <1>2, <1>3, <1>4 DEF Turn, Finish
<1>5. Answered(s)
  BY DEF Answered, Finish
<1> QED BY <1>1, <1>5, <1>6 DEF ClientTurn

(* Two lines, one after the other.                                         *)
LEMMA TwoLines ==
    ASSUME NEW X, NEW m \in X, NEW n \in X
    PROVE  <<m, n>> = <<m>> \o <<n>>
<1>1. PICK a : a = <<m>>
  OBVIOUS
<1>2. PICK b : b = <<n>>
  OBVIOUS
<1>3. PICK t : t = <<m, n>>
  OBVIOUS
<1>4. /\ a \in Seq(X) /\ Len(a) = 1 /\ a[1] = m
      /\ b \in Seq(X) /\ Len(b) = 1 /\ b[1] = n
      /\ t \in Seq(X) /\ Len(t) = 2 /\ t[1] = m /\ t[2] = n
  BY <1>1, <1>2, <1>3
<1>5. PICK c : c = a \o b
  OBVIOUS
<1>6. /\ c \in Seq(X) /\ Len(c) = Len(a) + Len(b)
      /\ \A i \in 1 .. Len(a) + Len(b) :
            c[i] = IF i <= Len(a) THEN a[i] ELSE b[i - Len(a)]
  BY <1>4, <1>5, ConcatProperties
<1>7. \A i \in 1 .. 2 : c[i] = t[i]
  <2>1. c[1] = m
    BY <1>4, <1>6
  <2>2. c[2] = b[2 - 1]
    BY <1>4, <1>6
  <2>3. c[2] = n
    BY <1>4, <2>2
  <2> QED BY <1>4, <2>1, <2>3
<1>8. c = t
  BY <1>4, <1>6, <1>7, SeqEqual
<1> QED BY <1>1, <1>2, <1>3, <1>5, <1>8

(* What few lines say of tables d, they say of tables like d.              *)
LEMMA SaysNone ==
    ASSUME NEW d, NEW e, Alike(d, e)
    PROVE  Says(d, <<>>, e)
BY MadeFew DEF Says, Alike

(* A handler that makes one update.                                        *)
LEMMA SaysOne ==
    ASSUME NEW d \in Tables, NEW m \in Update, NEW e, Alike(Updated(d, m), e)
    PROVE  Says(d, <<m>>, e)
<1> SUFFICES ASSUME NEW t \in Tables, Alike(t, d) PROVE Alike(Made(t, <<m>>), e)
  BY DEF Says
<1>1. m \in Line /\ IsUpdate(m)
  BY LineKinds DEF Line
<1>2. Made(t, <<m>>) = Updated(t, m) /\ Heard(t, m) = Updated(t, m)
      /\ Heard(d, m) = Updated(d, m)
  BY <1>1, MadeFew DEF Heard
<1>3. Alike(Updated(t, m), Updated(d, m))
  BY <1>1, <1>2, HeardAlike
<1> QED BY <1>2, <1>3 DEF Alike

(* A handler that makes two updates.                                       *)
LEMMA SaysTwo ==
    ASSUME NEW d \in Tables, NEW m \in Update, NEW n \in Update, NEW e,
           Alike(Updated(Updated(d, m), n), e)
    PROVE  Says(d, <<m, n>>, e)
<1> SUFFICES ASSUME NEW t \in Tables, Alike(t, d) PROVE Alike(Made(t, <<m, n>>), e)
  BY DEF Says
<1>1. /\ m \in Line /\ n \in Line
      /\ <<m>> \in Seq(Line) /\ <<n>> \in Seq(Line)
      /\ <<m, n>> = <<m>> \o <<n>>
  <2>1. m \in Line /\ n \in Line
    BY DEF Line
  <2>2. <<m>> \in Seq(Line) /\ <<n>> \in Seq(Line)
    BY <2>1
  <2>3. <<m, n>> = <<m>> \o <<n>>
    BY TwoLines
  <2> QED BY <2>1, <2>2, <2>3
<1>2. PICK u : u = Made(t, <<m>>)
  OBVIOUS
<1>3. Alike(u, Updated(d, m))
  <2>1. Alike(Updated(d, m), Updated(d, m))
    BY DEF Alike
  <2> QED BY <1>2, <2>1, SaysOne DEF Says
<1>4. u \in Tables /\ Updated(d, m) \in Tables
  BY <1>1, <1>2, MadeAlike, UpdatedFields
<1>5. Made(t, <<m, n>>) = Made(u, <<n>>)
  <2>1. Made(t, <<m>> \o <<n>>) = Made(Made(t, <<m>>), <<n>>)
    BY <1>1, MadeConcat
  <2> QED BY <1>1, <1>2, <2>1
<1>6. Says(Updated(d, m), <<n>>, e)
  BY <1>4, SaysOne
<1> QED BY <1>3, <1>4, <1>5, <1>6 DEF Says

(* A visit of a client.                                                    *)
LEMMA VisitFrame ==
    ASSUME TypeInv, NEW s \in Servers, NEW cl \in Clients, Visits(cl, s),
           connected' = [connected EXCEPT ![s] = @ \cup {cl}],
           choosing' \subseteq Customers
    PROVE  Frame(s) /\ connected'[s] = connected[s] \cup {cl}
<1>1. TypeOK
  BY DEF TypeInv
<1>2. connected \in [Servers -> SUBSET Clients]
  BY <1>1 DEF TypeOK
<1>3. /\ connected' \in [Servers -> SUBSET Clients]
      /\ connected'[s] = connected[s] \cup {cl}
      /\ \A t \in Servers \ {s} : connected'[t] = connected[t]
  BY <1>2
<1>4. visits' \in 0 .. MaxVisits
  <2>1. MaxVisits \in Nat /\ visits \in 0 .. MaxVisits
    BY <1>1, DataRingAssumption DEF TypeOK
  <2>2. visits < MaxVisits /\ visits' = visits + 1
    BY DEF Visits
  <2> QED BY <2>1, <2>2
<1>5. /\ Managing(s) /\ leader[s] = s
      /\ UNCHANGED <<serverVars, ordered, disturbances, faults>>
  BY DEF Visits
<1>6. ordered' \in [Customers -> 0 .. MaxOrders]
  BY <1>1, <1>5 DEF TypeOK
<1> QED BY <1>3, <1>4, <1>5, <1>6 DEF Frame

(* A message of a client that has visited s.                               *)
LEMMA StayFrame ==
    ASSUME TypeInv, NEW s \in Servers, Managing(s), UNCHANGED <<serverVars, connected>>,
           ordered' \in [Customers -> 0 .. MaxOrders], choosing' \subseteq Customers,
           visits' \in 0 .. MaxVisits, disturbances' = disturbances,
           faults \subseteq faults' /\ faults' \subseteq faults \cup {"stray"}
    PROVE  Frame(s) /\ connected'[s] = connected[s]
<1>1. connected \in [Servers -> SUBSET Clients]
  BY DEF TypeInv, TypeOK
<1> QED BY <1>1 DEF Frame

(* Who has come since, and is known.                                       *)
LEMMA KnownMore ==
    ASSUME NEW d, NEW e, NEW C, NEW cl, Known(d, C), Keeps(d, e),
           cl \in Riders => cl \in e.riders,
           cl \in Restaurants => e.restaurants[cl] # None,
           cl \in Customers => e.customers[cl] # None
    PROVE  Known(e, C \cup {cl}) /\ Known(e, C)
BY DEF Known, Keeps

(* The customer is given a price, of 0, if it has none.                    *)
LEMMA RegisterCustomerTurn ==
    ASSUME TypeInv, NEW s \in Servers, NEW c \in Customers, RegisterCustomer(s, c)
    PROVE  ClientTurn(s)
<1> DEFINE m == [type |-> "UpdateCustomer", customer |-> c, price |-> 0]
<1>0. TypeOK /\ KnownHere
  BY DEF TypeInv
<1>1. PICK t \in Tables : t = tables[s]
  BY <1>0 DEF TypeOK
<1>2. PICK p : p = IF t.customers[c] = None THEN 0 ELSE t.customers[c]
  OBVIOUS
<1>3. PICK d : d = [t EXCEPT !.customers[c] = p]
  OBVIOUS
<1>4. /\ Visits(c, s)
      /\ connected' = [connected EXCEPT ![s] = @ \cup {c}]
      /\ ProcessPending(s, wire, d, <<m>>, due)
      /\ choosing' = choosing \cup {c}
  <2>1. d = [tables[s] EXCEPT !.customers[c] = IF @ = None THEN 0 ELSE @]
    BY <1>1, <1>2, <1>3 DEF Tables
  <2> HIDE DEF m
  <2> QED BY <2>1 DEF RegisterCustomer, m
<1>5. t.customers \in [Customers -> Prices \cup {0, None}]
  BY <1>1, TablesFields
<1>6. p \in Prices \cup {0} /\ p # None /\ (t.customers[c] # None => p = t.customers[c])
  BY <1>2, <1>5, NoneApart
<1>7. /\ d \in Tables /\ d.customers = [t.customers EXCEPT ![c] = p]
      /\ d.riders = t.riders /\ d.restaurants = t.restaurants
      /\ d.payment_system_port = t.payment_system_port
      /\ d.orders_in_process = t.orders_in_process
      /\ d.pending_delivery_requests = t.pending_delivery_requests
  <2>1. p \in Prices \cup {0, None}
    BY <1>6
  <2> QED BY <1>1, <1>3, <2>1, CustomersWith
<1>8. m \in Update /\ m.type = "UpdateCustomer" /\ m.customer = c /\ m.price = 0
  <2>1. 0 \in Prices \cup {0}
    OBVIOUS
  <2>2. m \in Update
    BY <2>1 DEF Update
  <2> QED BY <2>2
<1> HIDE DEF m
<1>9. Frame(s) /\ connected'[s] = connected[s] \cup {c}
  <2>1. choosing' \subseteq Customers
    BY <1>0, <1>4 DEF TypeOK
  <2> QED BY <1>4, <2>1, VisitFrame DEF Clients
<1>10. Keeps(t, d)
  BY <1>5, <1>6, <1>7 DEF Keeps
<1>11. Known(d, connected'[s])
  <2>1. c \notin Riders /\ c \notin Restaurants
    BY DataRingAssumption
  <2>2. Known(t, connected[s])
    BY <1>0, <1>1 DEF KnownHere
  <2>3. d.customers[c] # None
    BY <1>5, <1>6, <1>7
  <2> QED BY <1>9, <1>10, <2>1, <2>2, <2>3, KnownMore
<1>12. Says(t, <<m>>, d)
  <2>1. PICK u : u = Updated(t, m)
    OBVIOUS
  <2>2. /\ u.customers = [t.customers EXCEPT ![c] = 0]
        /\ u.riders = t.riders /\ u.restaurants = t.restaurants
        /\ u.payment_system_port = t.payment_system_port
        /\ u.orders_in_process = t.orders_in_process
    BY <1>1, <1>8, <2>1, UpdatedFields
  <2>3. 0 # None
    BY NoneApart
  <2>4. Alike(u, d)
    BY <1>5, <1>6, <1>7, <2>2, <2>3 DEF Alike
  <2> QED BY <1>1, <1>8, <2>1, <2>4, SaysOne
<1>13. Priced(t, connected[s]) => Priced(d, connected'[s])
  <2> SUFFICES ASSUME Priced(t, connected[s]), NEW k \in Customers,
                      t.orders_in_process[k] # None
               PROVE  /\ k \in connected'[s]
                      /\ t.orders_in_process[k].order_price = d.customers[k]
    BY <1>7 DEF Priced
  <2>1. k \in connected[s] /\ t.orders_in_process[k].order_price = t.customers[k]
    BY DEF Priced
  <2>2. t.customers[k] # None
    <3>1. t.orders_in_process[k] \in OrderData
      BY <1>1, TablesFields DEF Orders
    <3>2. t.orders_in_process[k].order_price \in Prices \cup {0}
      BY <3>1 DEF OrderData
    <3> QED BY <2>1, <3>2, NoneApart
  <2>3. d.customers[k] = t.customers[k]
    BY <1>5, <1>6, <1>7, <2>2
  <2> QED BY <1>9, <2>1, <2>3
<1>14. <<m>> \in Seq(Update) /\ \A i \in DOMAIN <<m>> : <<m>>[i] = m
  BY <1>8
<1>15. RidersIn(<<m>>, connected'[s])
  BY <1>8, <1>14 DEF RidersIn
<1>16. Changes(s, d, <<m>>) /\ Tells(s, d, <<m>>)
  BY <1>1, <1>7, <1>10, <1>11, <1>12, <1>13, <1>14, <1>15 DEF Changes, Tells
<1>17. due \subseteq Due
  BY <1>0 DEF TypeOK
<1> QED BY <1>1, <1>4, <1>7, <1>9, <1>16, <1>17, PendingTurn DEF Queue

(* Orders that are left or removed stay priced.                            *)
LEMMA PricedLeft ==
    ASSUME NEW d, NEW e, NEW C, NEW D, Priced(d, C), C \subseteq D,
           \A c \in Customers : \/ e.orders_in_process[c] = None
                                \/ /\ e.orders_in_process[c] = d.orders_in_process[c]
                                   /\ e.customers[c] = d.customers[c]
    PROVE  Priced(e, D)
BY DEF Priced

(* A handler that makes an update, and sends it round.                     *)
LEMMA ChangeOne ==
    ASSUME TypeInv, NEW s \in Servers, Frame(s), NEW m \in Update,
           m.type \notin {"UpdateOrder", "UpdateCustomer"},
           m.type = "UpdateRider" => m.rider \in connected'[s],
           Known(Updated(tables[s], m), connected'[s])
    PROVE  /\ Changes(s, Updated(tables[s], m), <<m>>)
           /\ Tells(s, Updated(tables[s], m), <<m>>)
<1>1. PICK t \in Tables : t = tables[s]
  BY DEF TypeInv, TypeOK
<1>2. PICK d : d = Updated(t, m)
  OBVIOUS
<1>3. d \in Tables /\ Keeps(t, d)
  BY <1>1, <1>2, UpdatedFields, UpdatedKeeps
<1>4. d.riders \subseteq t.riders \cup connected'[s]
  <2>1. CASE m.type = "UpdateRider"
    <3>1. d.riders = t.riders \cup {m.rider}
      BY <1>1, <1>2, <2>1, UpdatedFields
    <3> QED BY <2>1, <3>1
  <2>2. CASE m.type # "UpdateRider"
    BY <1>1, <1>2, <2>2, UpdatedFields
  <2> QED BY <2>1, <2>2
<1>5. <<m>> \in Seq(Update) /\ RidersIn(<<m>>, connected'[s])
  BY DEF RidersIn
<1>6. Says(t, <<m>>, d)
  <2>1. Alike(d, d)
    BY DEF Alike
  <2> QED BY <1>1, <1>2, <2>1, SaysOne
<1>7. ASSUME Priced(t, connected[s]) PROVE Priced(d, connected'[s])
  <2>1. connected[s] \subseteq connected'[s]
    BY DEF Frame
  <2>2. d.customers = t.customers
    BY <1>1, <1>2, UpdatedFields
  <2>3. \A c \in Customers : \/ d.orders_in_process[c] = None
                             \/ d.orders_in_process[c] = t.orders_in_process[c]
    <3>1. t.orders_in_process \in Orders
      BY <1>1, TablesFields
    <3>2. CASE m.type = "RemoveOrder"
      <4>1. d.orders_in_process = [t.orders_in_process EXCEPT ![m.customer] = None]
        BY <1>1, <1>2, <3>2, UpdatedFields
      <4> QED BY <3>1, <4>1 DEF Orders
    <3>3. CASE m.type # "RemoveOrder"
      BY <1>1, <1>2, <3>3, UpdatedFields
    <3> QED BY <3>2, <3>3
  <2> QED BY <1>7, <2>1, <2>2, <2>3, PricedLeft
<1> QED BY <1>1, <1>2, <1>3, <1>4, <1>5, <1>6, <1>7 DEF Changes, Tells

(* A handler that sends nothing round.                                     *)
LEMMA ChangeNone ==
    ASSUME TypeInv, NEW s \in Servers, Frame(s), NEW d \in Tables,
           Keeps(tables[s], d), connected'[s] = connected[s],
           Alike(tables[s], d),
           d.riders = tables[s].riders, d.customers = tables[s].customers
    PROVE  Changes(s, d, <<>>) /\ Tells(s, d, <<>>)
<1>1. Known(d, connected'[s])
  BY DEF TypeInv, KnownHere, Known, Keeps
<1>2. <<>> \in Seq(Update) /\ RidersIn(<<>>, connected'[s])
  BY DEF RidersIn
<1>3. Says(tables[s], <<>>, d)
  BY SaysNone
<1>4. ASSUME Priced(tables[s], connected[s]) PROVE Priced(d, connected'[s])
  <2>1. \A c \in Customers : d.orders_in_process[c] = tables[s].orders_in_process[c]
    BY DEF Alike
  <2> QED BY <1>4, <2>1, PricedLeft
<1> QED BY <1>1, <1>2, <1>3, <1>4 DEF Changes, Tells

(* What register_rider makes of the tables, and what it tells the ring.    *)
LEMMA RegisterRiderTurn ==
    ASSUME TypeInv, NEW s \in Servers, NEW r \in Riders, RegisterRider(s, r)
    PROVE  ClientTurn(s)
<1> DEFINE m == [type |-> "UpdateRider", rider |-> r]
<1>0. TypeOK /\ KnownHere
  BY DEF TypeInv
<1>1. PICK t \in Tables : t = tables[s]
  BY <1>0 DEF TypeOK
<1>2. PICK d : d = Updated(t, m)
  OBVIOUS
<1>3. m \in Update /\ m.type = "UpdateRider" /\ m.rider = r
  BY DEF Update
<1>4. /\ Visits(r, s)
      /\ connected' = [connected EXCEPT ![s] = @ \cup {r}]
      /\ ProcessPending(s, wire, d, <<m>>, due)
      /\ choosing' = choosing
  <2>1. d = [t EXCEPT !.riders = @ \cup {r}]
    BY <1>2, <1>3 DEF Updated, UpdateRiderData
  <2> HIDE DEF m
  <2> QED BY <1>1, <2>1 DEF RegisterRider, m
<1> HIDE DEF m
<1>5. Frame(s) /\ connected'[s] = connected[s] \cup {r}
  <2>1. choosing' \subseteq Customers /\ r \in Clients
    BY <1>0, <1>4 DEF TypeOK, Clients
  <2> QED BY <1>4, <2>1, VisitFrame
<1>6. Known(d, connected'[s])
  <2>1. r \notin Customers /\ r \notin Restaurants
    BY DataRingAssumption
  <2>2. Known(t, connected[s])
    BY <1>0, <1>1 DEF KnownHere
  <2>3. r \in d.riders
    BY <1>1, <1>2, <1>3, UpdatedFields
  <2>4. Keeps(t, d)
    BY <1>1, <1>2, <1>3, UpdatedKeeps
  <2> QED BY <1>5, <2>1, <2>2, <2>3, <2>4, KnownMore
<1>7. Changes(s, d, <<m>>) /\ Tells(s, d, <<m>>)
  <2>1. m.rider \in connected'[s]
    BY <1>3, <1>5
  <2> QED BY <1>1, <1>2, <1>3, <1>5, <1>6, <2>1, ChangeOne
<1>8. Queue(d) = Queue(t) /\ due \subseteq Due
  BY <1>0, <1>1, <1>2, <1>3, UpdatedFields DEF TypeOK, Queue
<1> QED BY <1>1, <1>4, <1>5, <1>7, <1>8, PendingTurn

(* The same of register_payment_system.                                    *)
LEMMA RegisterPaymentSystemTurn ==
    ASSUME TypeInv, NEW s \in Servers, RegisterPaymentSystem(s)
    PROVE  ClientTurn(s)
<1> DEFINE m == [type |-> "UpdatePaymentSystem"]
<1>0. TypeOK /\ KnownHere
  BY DEF TypeInv
<1>1. PICK t \in Tables : t = tables[s]
  BY <1>0 DEF TypeOK
<1>2. PICK d : d = Updated(t, m)
  OBVIOUS
<1>3. m \in Update /\ m.type = "UpdatePaymentSystem"
  BY DEF Update
<1>4. /\ Visits(Gateway, s)
      /\ connected' = [connected EXCEPT ![s] = @ \cup {Gateway}]
      /\ ProcessPending(s, wire, d, <<m>>, due)
      /\ choosing' = choosing
  <2>1. d = [t EXCEPT !.payment_system_port = TRUE]
    BY <1>2, <1>3 DEF Updated, UpdatePaymentSystemData
  <2> HIDE DEF m
  <2> QED BY <1>1, <2>1 DEF RegisterPaymentSystem, m
<1> HIDE DEF m
<1>5. Frame(s) /\ connected'[s] = connected[s] \cup {Gateway}
  <2>1. choosing' \subseteq Customers /\ Gateway \in Clients
    BY <1>0, <1>4 DEF TypeOK, Clients
  <2> QED BY <1>4, <2>1, VisitFrame
<1>6. Known(d, connected'[s])
  <2>1. Gateway \notin Customers /\ Gateway \notin Restaurants /\ Gateway \notin Riders
    BY DataRingAssumption
  <2>2. Known(t, connected[s])
    BY <1>0, <1>1 DEF KnownHere
  <2>4. Keeps(t, d)
    BY <1>1, <1>2, <1>3, UpdatedKeeps
  <2> QED BY <1>5, <2>1, <2>2, <2>4, KnownMore
<1>7. Changes(s, d, <<m>>) /\ Tells(s, d, <<m>>)
  BY <1>1, <1>2, <1>3, <1>5, <1>6, ChangeOne
<1>8. Queue(d) = Queue(t) /\ due \subseteq Due
  BY <1>0, <1>1, <1>2, <1>3, UpdatedFields DEF TypeOK, Queue
<1> QED BY <1>1, <1>4, <1>5, <1>7, <1>8, PendingTurn

(* The same of the location of a rider.                                    *)
LEMMA LocationUpdateForRiderTurn ==
    ASSUME TypeInv, NEW s \in Servers, NEW r \in Riders, LocationUpdateForRider(s, r)
    PROVE  ClientTurn(s)
<1> DEFINE m == [type |-> "UpdateRider", rider |-> r]
<1>0. TypeOK /\ KnownHere
  BY DEF TypeInv
<1>1. PICK t \in Tables : t = tables[s]
  BY <1>0 DEF TypeOK
<1>2. PICK d : d = Updated(t, m)
  OBVIOUS
<1>3. m \in Update /\ m.type = "UpdateRider" /\ m.rider = r
  BY DEF Update
<1>4. r \in connected[s] /\ Finish(s, t, <<m>>, <<>>, due)
  BY <1>1 DEF LocationUpdateForRider
<1> HIDE DEF m
<1>5. Frame(s) /\ connected'[s] = connected[s]
  <2>1. visits' \in 0 .. MaxVisits
    <3>1. MaxVisits \in Nat /\ visits \in 0 .. MaxVisits
      BY <1>0, DataRingAssumption DEF TypeOK
    <3>2. visits < MaxVisits /\ visits' = visits + 1
      BY DEF LocationUpdateForRider
    <3> QED BY <3>1, <3>2
  <2>2. /\ Managing(s) /\ UNCHANGED <<serverVars, connected>>
        /\ ordered' \in [Customers -> 0 .. MaxOrders] /\ choosing' \subseteq Customers
        /\ disturbances' = disturbances /\ faults' = faults
    BY <1>0 DEF LocationUpdateForRider, clientVars, TypeOK
  <2> QED BY <2>1, <2>2, StayFrame
<1>6. d = t
  <2>1. r \in t.riders
    BY <1>0, <1>1, <1>4 DEF KnownHere, Known
  <2>2. t.riders = t.riders \cup {r}
    BY <2>1
  <2>3. d = [t EXCEPT !.riders = t.riders \cup {r}]
    BY <1>2, <1>3 DEF Updated, UpdateRiderData, Tables
  <2>4. d = [t EXCEPT !.riders = t.riders]
    BY <2>2, <2>3
  <2> QED BY <1>1, <2>4 DEF Tables
<1>7. Changes(s, t, <<m>>) /\ Tells(s, t, <<m>>)
  <2>1. m.rider \in connected'[s] /\ Known(d, connected'[s])
    BY <1>0, <1>1, <1>3, <1>4, <1>5, <1>6 DEF KnownHere
  <2> QED BY <1>1, <1>2, <1>3, <1>5, <1>6, <2>1, ChangeOne
<1>8. due \subseteq Due
  BY <1>0 DEF TypeOK
<1> QED BY <1>1, <1>4, <1>5, <1>7, <1>8, FinishTurn

(* The restaurant is sent the orders that it has not answered.             *)
LEMMA RegisterRestaurantTurn ==
    ASSUME TypeInv, NEW s \in Servers, NEW x \in Restaurants, RegisterRestaurant(s, x)
    PROVE  ClientTurn(s)
<1>0. TypeOK /\ KnownHere
  BY DEF TypeInv
<1>1. PICK t \in Tables : t = tables[s]
  BY <1>0 DEF TypeOK
<1>2. PICK p : p = IF t.restaurants[x] = None THEN {} ELSE t.restaurants[x]
  OBVIOUS
<1> DEFINE m == [type |-> "UpdateRestaurant", restaurant |-> x, pending_orders |-> p]
           answers == due \cup {[type |-> "Cooked", customer |-> o.customer] : o \in p}
<1>3. PICK d : d = Updated(t, m)
  OBVIOUS
<1>4. p \in SUBSET [customer : Customers, price : Prices] /\ p # None
  <2>1. t.restaurants \in [Restaurants -> Restaurant]
    BY <1>1, TablesFields
  <2>2. t.restaurants[x] \in SUBSET [customer : Customers, price : Prices]
        \/ t.restaurants[x] = None
    BY <2>1 DEF Restaurant
  <2>3. {} \in SUBSET [customer : Customers, price : Prices]
    OBVIOUS
  <2>4. p \in SUBSET [customer : Customers, price : Prices]
    BY <1>2, <2>2, <2>3
  <2> QED BY <2>4, NoneApart, Zenon
<1>5. m \in Update /\ m.type = "UpdateRestaurant" /\ m.restaurant = x /\ m.pending_orders = p
  <2>1. p \in Restaurant \ {None}
    BY <1>4 DEF Restaurant
  <2> QED BY <2>1 DEF Update
<1>6. /\ Visits(x, s)
      /\ connected' = [connected EXCEPT ![s] = @ \cup {x}]
      /\ ProcessPending(s, wire, d, <<m>>, answers)
      /\ choosing' = choosing
  <2>1. d = [t EXCEPT !.restaurants[x] = p]
    <3>1. d = [t EXCEPT !.restaurants[x] =
                  IF t.restaurants[x] = None THEN {} ELSE p]
      BY <1>3, <1>5 DEF Updated, UpdateRestaurantData, Tables
    <3>2. (IF t.restaurants[x] = None THEN {} ELSE p) = p
      BY <1>2
    <3> QED BY <3>1, <3>2
  <2> HIDE DEF m, answers
  <2> QED BY <1>1, <1>2, <2>1 DEF RegisterRestaurant, m, answers
<1>7. /\ answers \subseteq Due
      /\ \A a \in answers \ due : a.type # "FindRider"
  <2>1. due \subseteq Due
    BY <1>0 DEF TypeOK
  <2>2. \A o \in p : o.customer \in Customers
    BY <1>4
  <2>3. \A o \in p : [type |-> "Cooked", customer |-> o.customer] \in Due
    BY <2>2 DEF Due
  <2> QED BY <2>1, <2>3
<1> HIDE DEF m, answers
<1>8. Frame(s) /\ connected'[s] = connected[s] \cup {x}
  <2>1. choosing' \subseteq Customers /\ x \in Clients
    BY <1>0, <1>6 DEF TypeOK, Clients
  <2> QED BY <1>6, <2>1, VisitFrame
<1>9. Known(d, connected'[s])
  <2>1. x \notin Customers /\ x \notin Riders
    BY DataRingAssumption
  <2>2. Known(t, connected[s])
    BY <1>0, <1>1 DEF KnownHere
  <2>3. d.restaurants[x] # None
    <3>1. d.restaurants = [t.restaurants EXCEPT ![x] =
              IF t.restaurants[x] = None THEN {} ELSE p]
      BY <1>1, <1>3, <1>5, UpdatedFields
    <3>2. t.restaurants \in [Restaurants -> Restaurant]
      BY <1>1, TablesFields
    <3>3. d.restaurants[x] = p
      BY <1>2, <3>1, <3>2
    <3> QED BY <1>4, <3>3
  <2>4. Keeps(t, d)
    BY <1>1, <1>3, <1>5, UpdatedKeeps
  <2> QED BY <1>8, <2>1, <2>2, <2>3, <2>4, KnownMore
<1>10. Changes(s, d, <<m>>) /\ Tells(s, d, <<m>>)
  BY <1>1, <1>3, <1>5, <1>8, <1>9, ChangeOne
<1>11. Queue(d) = Queue(t)
  BY <1>1, <1>3, <1>5, UpdatedFields DEF Queue
<1> QED BY <1>1, <1>6, <1>7, <1>8, <1>10, <1>11, PendingTurn

(* What changes nothing that is watched but the faults.                    *)
LEMMA AnswersFrame ==
    ASSUME TypeInv, NEW s \in Servers, NEW cl, NEW type, NEW c, Answers(s, cl, type, c)
    PROVE  /\ Frame(s) /\ connected'[s] = connected[s] /\ connected[s] # {}
           /\ due \subseteq Due /\ Without(type, c) \subseteq due
<1>1. TypeOK
  BY DEF TypeInv
<1>2. /\ Managing(s) /\ UNCHANGED <<serverVars, connected>>
      /\ ordered' \in [Customers -> 0 .. MaxOrders] /\ choosing' \subseteq Customers
      /\ visits' \in 0 .. MaxVisits
      /\ disturbances' = disturbances /\ faults' = faults
  BY <1>1 DEF Answers, clientVars, TypeOK
<1>3. Frame(s) /\ connected'[s] = connected[s]
  BY <1>2, StayFrame
<1>4. connected[s] # {}
  BY DEF Answers
<1> QED BY <1>1, <1>3, <1>4 DEF TypeOK, Without

(* The same tables, and no line.                                           *)
LEMMA NothingDone ==
    ASSUME TypeInv, NEW s \in Servers, Frame(s), connected'[s] = connected[s]
    PROVE  Changes(s, tables[s], <<>>) /\ Tells(s, tables[s], <<>>)
<1>1. tables[s] \in Tables /\ Keeps(tables[s], tables[s])
  BY DEF TypeInv, TypeOK, Keeps
<1>2. Alike(tables[s], tables[s])
  BY DEF Alike
<1> QED BY <1>1, <1>2, ChangeNone

(* The same of an order that a restaurant has ready.                       *)
LEMMA OrderReadyTurn ==
    ASSUME TypeInv, NEW s \in Servers, NEW x \in Restaurants, NEW c \in Customers,
           OrderReady(s, x, c)
    PROVE  ClientTurn(s)
<1>0. TypeOK /\ KnownHere
  BY DEF TypeInv
<1>1. PICK t \in Tables : t = tables[s]
  BY <1>0 DEF TypeOK
<1>2. /\ Frame(s) /\ connected'[s] = connected[s] /\ connected[s] # {}
      /\ due \subseteq Due /\ Without("Cooked", c) \subseteq due
  BY AnswersFrame DEF OrderReady
<1>3. CASE c \in connected[s]
  <2>1. PICK f : f = [y \in Restaurants |->
                         IF t.restaurants[y] = None THEN None
                         ELSE {o \in t.restaurants[y] : o.customer # c}]
    OBVIOUS
  <2>2. PICK d : d = [t EXCEPT !.restaurants = f]
    OBVIOUS
  <2> DEFINE find == [type |-> "FindRider", customer |-> c, at |-> s]
             answers == Without("Cooked", c) \cup {find}
  <2>3. Finish(s, d, <<>>, <<>>, answers)
    <3>1. d = [t EXCEPT !.restaurants = [y \in Restaurants |->
                    IF @[y] = None THEN None
                    ELSE {o \in @[y] : o.customer # c}]]
      BY <1>1, <2>1, <2>2 DEF Tables
    <3> HIDE DEF find
    <3> QED BY <1>1, <1>3, <3>1 DEF OrderReady, find
  <2>4. f \in [Restaurants -> Restaurant]
        /\ \A y \in Restaurants : f[y] # None <=> t.restaurants[y] # None
    <3>1. t.restaurants \in [Restaurants -> Restaurant]
      BY <1>1, TablesFields
    <3>2. ASSUME NEW y \in Restaurants
          PROVE  f[y] \in Restaurant /\ (f[y] # None <=> t.restaurants[y] # None)
      <4>1. CASE t.restaurants[y] = None
        BY <2>1, <4>1 DEF Restaurant
      <4>2. CASE t.restaurants[y] # None
        <5>1. t.restaurants[y] \in SUBSET [customer : Customers, price : Prices]
          BY <3>1, <4>2 DEF Restaurant
        <5>2. f[y] = {o \in t.restaurants[y] : o.customer # c}
          BY <2>1, <4>2
        <5>3. f[y] \in SUBSET [customer : Customers, price : Prices]
          BY <5>1, <5>2
        <5>4. f[y] # None
          BY <5>3, NoneApart, Zenon
        <5> QED BY <4>2, <5>3, <5>4 DEF Restaurant
      <4> QED BY <4>1, <4>2
    <3> QED BY <2>1, <3>2
  <2>5. /\ d \in Tables /\ d.restaurants = f
        /\ d.customers = t.customers /\ d.riders = t.riders
        /\ d.payment_system_port = t.payment_system_port
        /\ d.orders_in_process = t.orders_in_process
        /\ d.pending_delivery_requests = t.pending_delivery_requests
    BY <1>1, <2>2, <2>4, RestaurantsWith
  <2>6. Keeps(t, d) /\ Alike(t, d)
    BY <2>4, <2>5 DEF Keeps, Alike
  <2>7. Changes(s, d, <<>>) /\ Tells(s, d, <<>>)
    BY <1>1, <1>2, <2>5, <2>6, ChangeNone
  <2>8. find \in Due /\ find.at = s
    BY DEF Due
  <2>9. answers \subseteq Due
        /\ \A m \in answers \ due : m.type = "FindRider" => m.at = s /\ connected[s] # {}
    BY <1>2, <2>8
  <2> HIDE DEF answers
  <2> QED BY <1>1, <1>2, <2>3, <2>5, <2>7, <2>9, FinishTurn DEF Queue
<1>4. CASE c \notin connected[s]
  <2>1. Finish(s, t, <<>>, <<>>, Without("Cooked", c))
    BY <1>1, <1>4 DEF OrderReady
  <2>2. Changes(s, t, <<>>) /\ Tells(s, t, <<>>)
    BY <1>1, <1>2, NothingDone
  <2>3. /\ Without("Cooked", c) \subseteq Due
        /\ \A m \in Without("Cooked", c) \ due : FALSE
    BY <1>2
  <2> QED BY <1>1, <1>2, <2>1, <2>2, <2>3, FinishTurn
<1> QED BY <1>3, <1>4

(* The order of a customer is removed, and the replicas are told.          *)
LEMMA RemoveOrderChange ==
    ASSUME TypeInv, NEW s \in Servers, Frame(s), connected'[s] = connected[s],
           NEW c \in Customers
    PROVE  LET d == [tables[s] EXCEPT !.orders_in_process[c] = None]
               m == [type |-> "RemoveOrder", customer |-> c]
           IN  /\ Changes(s, d, <<m>>) /\ Tells(s, d, <<m>>)
               /\ Queue(d) = Queue(tables[s])
<1> DEFINE m == [type |-> "RemoveOrder", customer |-> c]
<1>1. PICK t \in Tables : t = tables[s]
  BY DEF TypeInv, TypeOK
<1>2. m \in Update /\ m.type = "RemoveOrder" /\ m.customer = c
  BY DEF Update
<1>3. PICK d : d = Updated(t, m)
  OBVIOUS
<1>4. d = [t EXCEPT !.orders_in_process[c] = None]
  BY <1>2, <1>3 DEF Updated, UpdateOrderInProgressData, RemoveOrderInProgressData
<1> HIDE DEF m
<1>5. Known(d, connected'[s])
  <2>1. Keeps(t, d)
    BY <1>1, <1>2, <1>3, UpdatedKeeps
  <2>2. Known(t, connected[s])
    BY <1>1 DEF TypeInv, KnownHere
  <2> QED BY <2>1, <2>2 DEF Known, Keeps
<1>6. Changes(s, d, <<m>>) /\ Tells(s, d, <<m>>)
  BY <1>1, <1>2, <1>3, <1>5, ChangeOne
<1>7. Queue(d) = Queue(t)
  BY <1>1, <1>2, <1>3, UpdatedFields DEF Queue
<1> QED BY <1>1, <1>4, <1>6, <1>7 DEF m

(* The same of an order that a restaurant cancels.                         *)
LEMMA OrderCancelledTurn ==
    ASSUME TypeInv, NEW s \in Servers, NEW x \in Restaurants, NEW c \in Customers,
           OrderCancelled(s, x, c)
    PROVE  ClientTurn(s)
<1>1. /\ Frame(s) /\ connected'[s] = connected[s] /\ connected[s] # {}
      /\ due \subseteq Due /\ Without("Cooked", c) \subseteq due
  BY AnswersFrame DEF OrderCancelled
<1>2. /\ Without("Cooked", c) \subseteq Due
      /\ \A m \in Without("Cooked", c) \ due : FALSE
  BY <1>1
<1> DEFINE d == [tables[s] EXCEPT !.orders_in_process[c] = None]
           m == [type |-> "RemoveOrder", customer |-> c]
<1>3. CASE c \in connected[s]
  <2>1. Finish(s, d, <<m>>, <<>>, Without("Cooked", c))
    BY <1>3 DEF OrderCancelled
  <2>2. /\ Changes(s, d, <<m>>) /\ Tells(s, d, <<m>>)
        /\ Queue(d) = Queue(tables[s])
    BY <1>1, RemoveOrderChange
  <2> HIDE DEF d, m
  <2> QED BY <1>1, <1>2, <2>1, <2>2, FinishTurn
<1>4. CASE c \notin connected[s]
  <2>1. Finish(s, tables[s], <<>>, <<>>, Without("Cooked", c))
    BY <1>4 DEF OrderCancelled
  <2>2. Changes(s, tables[s], <<>>) /\ Tells(s, tables[s], <<>>)
    BY <1>1, NothingDone
  <2> QED BY <1>1, <1>2, <2>1, <2>2, FinishTurn
<1> QED BY <1>3, <1>4

(* The same of a payment that was executed.                                *)
LEMMA PaymentExecutedTurn ==
    ASSUME TypeInv, NEW s \in Servers, NEW c \in Customers, PaymentExecuted(s, c)
    PROVE  ClientTurn(s)
<1>1. /\ Frame(s) /\ connected'[s] = connected[s] /\ connected[s] # {}
      /\ due \subseteq Due /\ Without("Charged", c) \subseteq due
  BY AnswersFrame DEF PaymentExecuted
<1>2. /\ Without("Charged", c) \subseteq Due
      /\ \A m \in Without("Charged", c) \ due : FALSE
  BY <1>1
<1> DEFINE d == [tables[s] EXCEPT !.orders_in_process[c] = None]
           m == [type |-> "RemoveOrder", customer |-> c]
<1>3. CASE c \in connected[s]
  <2>1. ProcessPending(s, wire, d, <<m>>, Without("Charged", c))
    BY <1>3 DEF PaymentExecuted
  <2>2. /\ Changes(s, d, <<m>>) /\ Tells(s, d, <<m>>)
        /\ Queue(d) = Queue(tables[s])
    BY <1>1, RemoveOrderChange
  <2> HIDE DEF d, m
  <2> QED BY <1>1, <1>2, <2>1, <2>2, PendingTurn
<1>4. CASE c \notin connected[s]
  <2>1. ProcessPending(s, wire, tables[s], <<>>, Without("Charged", c))
    BY <1>4 DEF PaymentExecuted
  <2>2. Changes(s, tables[s], <<>>) /\ Tells(s, tables[s], <<>>)
    BY <1>1, NothingDone
  <2> QED BY <1>1, <1>2, <2>1, <2>2, PendingTurn
<1> QED BY <1>3, <1>4

(* The same of a delivery that is done.                                    *)
LEMMA DeliveryDoneTurn ==
    ASSUME TypeInv, NEW s \in Servers, NEW c \in Customers, NEW r \in Riders,
           DeliveryDone(s, c, r)
    PROVE  ClientTurn(s)
<1> DEFINE me == [type |-> "Carried", customer |-> c, rider |-> r]
           charge == IF Gateway \in connected[s]
                     THEN {[type |-> "Charged", customer |-> c]} ELSE {}
           d == [tables[s] EXCEPT !.orders_in_process[c] = None]
           m == [type |-> "RemoveOrder", customer |-> c]
<1>0. TypeOK
  BY DEF TypeInv
<1>1. Frame(s) /\ connected'[s] = connected[s] /\ connected[s] # {}
  <2>1. /\ Managing(s) /\ UNCHANGED <<serverVars, connected>>
        /\ ordered' \in [Customers -> 0 .. MaxOrders] /\ choosing' \subseteq Customers
        /\ visits' \in 0 .. MaxVisits
        /\ disturbances' = disturbances /\ faults' = faults
        /\ r \in connected[s]
    BY <1>0 DEF DeliveryDone, clientVars, bounds, TypeOK
  <2> QED BY <2>1, StayFrame
<1>2. /\ due \ {me} \subseteq Due /\ (due \ {me}) \cup charge \subseteq Due
      /\ \A a \in (due \ {me}) \cup charge : a \in due \/ a.type = "Charged"
  <2>1. due \subseteq Due
    BY <1>0 DEF TypeOK
  <2>2. [type |-> "Charged", customer |-> c] \in Due
    BY DEF Due
  <2> QED BY <2>1, <2>2
<1>3. CASE tables[s].orders_in_process[c] = None
  <2>1. Finish(s, tables[s], <<>>, <<>>, due \ {me})
    BY <1>3 DEF DeliveryDone
  <2>2. Changes(s, tables[s], <<>>) /\ Tells(s, tables[s], <<>>)
    BY <1>1, NothingDone
  <2>3. \A a \in (due \ {me}) \ due : FALSE
    OBVIOUS
  <2> HIDE DEF me, charge
  <2> QED BY <1>1, <1>2, <2>1, <2>2, <2>3, FinishTurn
<1>4. CASE tables[s].orders_in_process[c] # None
  <2>1. Finish(s, d, <<m>>, <<>>, (due \ {me}) \cup charge)
    BY <1>4 DEF DeliveryDone
  <2>2. /\ Changes(s, d, <<m>>) /\ Tells(s, d, <<m>>)
        /\ Queue(d) = Queue(tables[s])
    BY <1>1, RemoveOrderChange
  <2>3. \A a \in ((due \ {me}) \cup charge) \ due :
           a.type = "FindRider" => a.at = s /\ connected[s] # {}
    BY <1>2
  <2> HIDE DEF me, charge, d, m
  <2> QED BY <1>1, <1>2, <2>1, <2>2, <2>3, FinishTurn
<1> QED BY <1>3, <1>4

(* A manager that searches a rider has one, panics, or queues the delivery.*)
Offers(s) ==
    /\ Managing(s) /\ UNCHANGED <<tables, historical_state, wire, serverVars, connected>>
    /\ UNCHANGED <<clientVars, bounds>>
    /\ due' \subseteq Due /\ \A m \in due' \ due : m.type = "Offer"

Panics(s) ==
    /\ Managing(s) /\ ~(tables[s].riders \subseteq connected[s])
    /\ \E m \in due : m.type = "FindRider" /\ m.at = s
    /\ state' = [state EXCEPT ![s] = "panicked"]
    /\ due' \subseteq due
    /\ UNCHANGED <<tables, historical_state, wire, server_peers, leader, calling,
                   starting, link, connected>>
    /\ UNCHANGED <<clientVars, bounds>>

(* The same of an order for which a rider is looked for.                   *)
LEMMA FindRiderTurn ==
    ASSUME TypeInv, NEW s \in Servers, NEW c \in Customers, FindRider(s, c)
    PROVE  ClientTurn(s) \/ Offers(s) \/ Panics(s)
<1> DEFINE me == [type |-> "FindRider", customer |-> c, at |-> s]
           known == tables[s].riders
           m == [type |-> "Push", customer |-> c, to_front |-> FALSE]
<1>0. TypeOK /\ due \subseteq Due
  BY DEF TypeInv, TypeOK
<1>1. /\ Managing(s) /\ me \in due
      /\ UNCHANGED <<server_peers, leader, calling, starting, link, connected>>
      /\ UNCHANGED <<clientVars, bounds>>
  BY DEF FindRider
<1>2. CASE /\ ~(known \subseteq connected[s])
           /\ state' = [state EXCEPT ![s] = "panicked"]
           /\ due' = {a \in due : a.type # "FindRider" \/ a.at # s}
           /\ UNCHANGED <<tables, historical_state, wire>>
  <2>1. me.type = "FindRider" /\ me.at = s
    OBVIOUS
  <2> HIDE DEF me
  <2> QED BY <1>1, <1>2, <2>1 DEF Panics
<1>3. CASE /\ due' = (due \ {me}) \cup
                 {[type |-> "Offer", customer |-> c, rider |-> r] : r \in known}
           /\ UNCHANGED <<state, tables, historical_state, wire>>
  <2>1. tables[s] \in Tables
    BY <1>0 DEF TypeOK
  <2>2. known \subseteq Riders
    BY <2>1, TablesFields
  <2>3. \A r \in known : [type |-> "Offer", customer |-> c, rider |-> r] \in Due
    BY <2>2 DEF Due
  <2>4. \A a \in due' : \/ a \in due
                        \/ \E r \in known :
                              a = [type |-> "Offer", customer |-> c, rider |-> r]
    BY <1>3
  <2>5. due' \subseteq Due /\ \A a \in due' \ due : a.type = "Offer"
    BY <1>0, <2>3, <2>4
  <2> HIDE DEF me, known
  <2> QED BY <1>1, <1>3, <2>5 DEF Offers, serverVars
<1>4. CASE /\ Finish(s, [tables[s] EXCEPT !.pending_delivery_requests = Append(@, c)],
                     <<m>>, <<>>, due \ {me})
           /\ UNCHANGED state
  <2>1. PICK t \in Tables : t = tables[s]
    BY <1>0 DEF TypeOK
  <2>2. m \in Update /\ m.type = "Push" /\ m.customer = c /\ ~m.to_front
    BY DEF Update
  <2>3. PICK d : d = Updated(t, m)
    OBVIOUS
  <2>4. d = [t EXCEPT !.pending_delivery_requests = Append(@, c)]
    BY <2>2, <2>3 DEF Updated, PushPendingDeliveryRequest
  <2>5. Finish(s, d, <<m>>, <<>>, due \ {me})
    BY <1>4, <2>1, <2>4
  <2> HIDE DEF m, me
  <2>6. Frame(s) /\ connected'[s] = connected[s]
    <3>1. /\ UNCHANGED <<serverVars, connected>>
          /\ ordered' \in [Customers -> 0 .. MaxOrders] /\ choosing' \subseteq Customers
          /\ visits' \in 0 .. MaxVisits
          /\ disturbances' = disturbances /\ faults' = faults
      BY <1>0, <1>1, <1>4 DEF serverVars, clientVars, bounds, TypeOK
    <3> QED BY <1>1, <3>1, StayFrame
  <2>7. Known(d, connected'[s])
    <3>1. Keeps(t, d)
      BY <2>1, <2>2, <2>3, UpdatedKeeps
    <3>2. Known(t, connected[s])
      BY <2>1 DEF TypeInv, KnownHere
    <3> QED BY <2>6, <3>1, <3>2 DEF Known, Keeps
  <2>8. Changes(s, d, <<m>>) /\ Tells(s, d, <<m>>)
    BY <2>1, <2>2, <2>3, <2>6, <2>7, ChangeOne
  <2>9. Pushes(<<m>>)
    <3>1. 1 \in DOMAIN <<m>> /\ <<m>>[1] = m
      OBVIOUS
    <3> QED BY <2>2, <3>1 DEF Pushes
  <2>10. due \ {me} \subseteq Due /\ \A a \in (due \ {me}) \ due : FALSE
    BY <1>0
  <2> QED BY <2>5, <2>6, <2>8, <2>9, <2>10, FinishTurn
<1> QED BY <1>2, <1>3, <1>4 DEF FindRider

(* The order is entered under its customer and with its restaurant, which  *)
(* is known.                                                               *)
LEMMA OrderRequestTurn ==
    ASSUME TypeInv, NEW s \in Servers, NEW c \in Customers, NEW x \in Restaurants,
           OrderRequest(s, c, x)
    PROVE  ClientTurn(s)
<1>0. TypeOK /\ KnownHere
  BY DEF TypeInv
<1>1. PICK t \in Tables : t = tables[s]
  BY <1>0 DEF TypeOK
<1>2. PICK p : p = ordered[c] + 1
  OBVIOUS
<1>3. PICK o : o = [order_price |-> p, rider_id |-> None]
  OBVIOUS
<1>4. PICK R : R = t.restaurants[x] \cup {[customer |-> c, price |-> p]}
  OBVIOUS
<1> DEFINE m == [type |-> "UpdateCustomer", customer |-> c, price |-> p]
           n == [type |-> "UpdateOrder", customer |-> c, order |-> o]
           request == [type |-> "Cooked", customer |-> c]
           answers == IF x \in connected[s] THEN due \cup {request} ELSE due
           f == [t.orders_in_process EXCEPT ![c] = o]
           g == [t.restaurants EXCEPT ![x] = R]
           d1 == [t EXCEPT !.customers[c] = p]
           d2 == [d1 EXCEPT !.orders_in_process = f]
           d == [d2 EXCEPT !.restaurants = g]
<1>5. p \in Prices /\ ordered[c] \in Nat
  <2>1. MaxOrders \in Nat /\ ordered \in [Customers -> 0 .. MaxOrders]
    BY <1>0, DataRingAssumption DEF TypeOK
  <2>2. ordered[c] \in 0 .. MaxOrders /\ ordered[c] < MaxOrders
    BY <2>1 DEF OrderRequest
  <2> QED BY <1>2, <2>1, <2>2 DEF Prices
<1>6. c \in connected[s] /\ tables[s].restaurants[x] # None /\ Managing(s)
  BY DEF OrderRequest
<1>7. /\ t.customers \in [Customers -> Prices \cup {0, None}]
      /\ t.restaurants \in [Restaurants -> Restaurant]
      /\ t.orders_in_process \in Orders
  BY <1>1, TablesFields
<1>8. t.restaurants[x] # None /\ R \in Restaurant /\ R # None
  <2>1. t.restaurants[x] # None
    BY <1>1, <1>6
  <2>2. t.restaurants[x] \in SUBSET [customer : Customers, price : Prices]
    BY <1>7, <2>1 DEF Restaurant
  <2>3. [customer |-> c, price |-> p] \in [customer : Customers, price : Prices]
    BY <1>5
  <2>4. R \in SUBSET [customer : Customers, price : Prices]
    BY <1>4, <2>2, <2>3
  <2>5. R # None
    BY <2>4, NoneApart, Zenon
  <2> QED BY <2>1, <2>4, <2>5 DEF Restaurant
<1>9. o \in OrderData
  BY <1>3, <1>5 DEF OrderData
<1>10. f \in Orders /\ g \in [Restaurants -> Restaurant]
  BY <1>7, <1>8, <1>9 DEF Orders
<1>11. /\ d1 \in Tables /\ d1.customers = [t.customers EXCEPT ![c] = p]
       /\ d1.riders = t.riders /\ d1.restaurants = t.restaurants
       /\ d1.payment_system_port = t.payment_system_port
       /\ d1.orders_in_process = t.orders_in_process
       /\ d1.pending_delivery_requests = t.pending_delivery_requests
  <2>1. p \in Prices \cup {0, None}
    BY <1>5
  <2> QED BY <1>1, <2>1, CustomersWith
<1> HIDE DEF f, g, d1
<1>12. /\ d2 \in Tables /\ d2.orders_in_process = f
       /\ d2.customers = d1.customers /\ d2.riders = d1.riders
       /\ d2.restaurants = d1.restaurants
       /\ d2.payment_system_port = d1.payment_system_port
       /\ d2.pending_delivery_requests = d1.pending_delivery_requests
  BY <1>10, <1>11, OrdersWith
<1> HIDE DEF d2
<1>13. /\ d \in Tables /\ d.restaurants = g
       /\ d.customers = d2.customers /\ d.riders = d2.riders
       /\ d.payment_system_port = d2.payment_system_port
       /\ d.orders_in_process = d2.orders_in_process
       /\ d.pending_delivery_requests = d2.pending_delivery_requests
  BY <1>10, <1>12, RestaurantsWith
<1>14. d = [t EXCEPT !.customers[c] = p, !.orders_in_process[c] = o,
                     !.restaurants[x] = R]
  BY <1>1 DEF d, d2, d1, f, g, Tables
<1> HIDE DEF d
<1>15. ProcessPending(s, wire, d, <<m, n>>, answers)
  <2>1. d = [tables[s] EXCEPT
               !.customers[c] = [order_price |-> p, rider_id |-> None].order_price,
               !.orders_in_process[c] = [order_price |-> p, rider_id |-> None],
               !.restaurants[x] = @ \cup {[customer |-> c,
                     price |-> [order_price |-> p, rider_id |-> None].order_price]}]
    BY <1>1, <1>3, <1>4, <1>14 DEF Tables
  <2>2. o.order_price = p
    BY <1>3
  <2> HIDE DEF m, n, answers, request
  <2> QED BY <1>2, <1>3, <2>1, <2>2 DEF OrderRequest, m, n, answers, request
<1>16. m \in Update /\ n \in Update
       /\ m.type = "UpdateCustomer" /\ m.customer = c /\ m.price = p
       /\ n.type = "UpdateOrder" /\ n.customer = c /\ n.order = o
  BY <1>5, <1>9 DEF Update
<1>17. /\ answers \subseteq Due
       /\ \A a \in answers \ due : a.type # "FindRider"
  <2>1. due \subseteq Due
    BY <1>0 DEF TypeOK
  <2>2. request \in Due /\ request.type # "FindRider"
    BY DEF Due
  <2> HIDE DEF request
  <2> QED BY <2>1, <2>2
<1> HIDE DEF m, n, answers, request
<1>18. Frame(s) /\ connected'[s] = connected[s]
  <2>1. /\ UNCHANGED <<serverVars, connected, bounds>>
        /\ choosing' = choosing \ {c}
        /\ ordered' = [ordered EXCEPT ![c] = ordered[c] + 1]
    BY DEF OrderRequest
  <2>2. ordered' \in [Customers -> 0 .. MaxOrders]
    <3>1. p \in 0 .. MaxOrders
      BY <1>5, DataRingAssumption DEF Prices
    <3>2. ordered \in [Customers -> 0 .. MaxOrders]
      BY <1>0 DEF TypeOK
    <3> QED BY <1>2, <2>1, <3>1, <3>2
  <2>3. /\ choosing' \subseteq Customers
        /\ visits' \in 0 .. MaxVisits
        /\ disturbances' = disturbances /\ faults' = faults
    BY <1>0, <2>1 DEF bounds, TypeOK
  <2>4. UNCHANGED <<serverVars, connected>>
    BY <2>1
  <2> QED BY <1>6, <2>2, <2>3, <2>4, StayFrame
<1>19. p # None /\ o # None
  BY <1>5, <1>9, NoneApart
<1>20. Keeps(t, d)
  BY <1>7, <1>8, <1>11, <1>12, <1>13, <1>19 DEF Keeps, g
<1>21. Known(d, connected'[s])
  <2>1. Known(t, connected[s])
    BY <1>0, <1>1 DEF KnownHere
  <2> QED BY <1>18, <1>20, <2>1 DEF Known, Keeps
<1>22. Says(t, <<m, n>>, d)
  <2>1. PICK u : u = Updated(t, m)
    OBVIOUS
  <2>2. PICK v : v = Updated(u, n)
    OBVIOUS
  <2>3. /\ u \in Tables
        /\ u.customers = [t.customers EXCEPT ![c] = p]
        /\ u.riders = t.riders /\ u.restaurants = t.restaurants
        /\ u.payment_system_port = t.payment_system_port
        /\ u.orders_in_process = t.orders_in_process
    <3>1. m \in Update /\ m.type = "UpdateCustomer" /\ m.customer = c /\ m.price = p
      BY <1>16
    <3> QED BY <1>1, <2>1, <3>1, UpdatedFields
  <2>4. /\ v.customers = u.customers
        /\ v.riders = u.riders /\ v.restaurants = u.restaurants
        /\ v.payment_system_port = u.payment_system_port
        /\ v.orders_in_process = [u.orders_in_process EXCEPT ![c] = o]
    <3>1. n \in Update /\ n.type = "UpdateOrder" /\ n.customer = c /\ n.order = o
      BY <1>16
    <3>2. u \in Tables
      BY <2>3
    <3> QED BY <2>2, <3>1, <3>2, UpdatedFields
  <2>5. \A y \in Restaurants : t.restaurants[y] # None <=> g[y] # None
    BY <1>7, <1>8 DEF g
  <2>6. Alike(v, d)
    BY <1>11, <1>12, <1>13, <2>3, <2>4, <2>5 DEF Alike, f
  <2> QED BY <1>1, <1>16, <2>1, <2>2, <2>6, SaysTwo
<1>23. ASSUME Priced(t, connected[s]) PROVE Priced(d, connected'[s])
  <2> SUFFICES ASSUME NEW k \in Customers, d.orders_in_process[k] # None
               PROVE  /\ k \in connected'[s]
                      /\ d.orders_in_process[k].order_price = d.customers[k]
    BY DEF Priced
  <2>1. CASE k = c
    <3>1. d.orders_in_process[k] = o /\ d.customers[k] = p
      BY <1>7, <1>11, <1>12, <1>13, <2>1 DEF f, Orders
    <3> QED BY <1>3, <1>6, <1>18, <2>1, <3>1
  <2>2. CASE k # c
    <3>1. d.orders_in_process[k] = t.orders_in_process[k]
          /\ d.customers[k] = t.customers[k]
      BY <1>7, <1>11, <1>12, <1>13, <2>2 DEF f, Orders
    <3> QED BY <1>18, <1>23, <3>1 DEF Priced
  <2> QED BY <2>1, <2>2
<1>24. <<m, n>> \in Seq(Update) /\ RidersIn(<<m, n>>, connected'[s])
  <2>1. <<m, n>> \in Seq(Update) /\ \A i \in DOMAIN <<m, n>> : <<m, n>>[i] \in {m, n}
    BY <1>16
  <2> QED BY <1>16, <2>1 DEF RidersIn
<1>25. d.riders = t.riders /\ Queue(d) = Queue(t)
  BY <1>11, <1>12, <1>13 DEF Queue
<1>26. Changes(s, d, <<m, n>>) /\ Tells(s, d, <<m, n>>)
  BY <1>1, <1>13, <1>20, <1>21, <1>22, <1>23, <1>24, <1>25 DEF Changes, Tells
<1> QED BY <1>1, <1>15, <1>17, <1>18, <1>25, <1>26, PendingTurn

(* The replicas are told of the rider in two ways, which agree when the    *)
(* order is there at the price that its customer has.                      *)
LEMMA OfferAcceptedTurn ==
    ASSUME TypeInv, NEW s \in Servers, NEW c \in Customers, NEW r \in Riders,
           DeliveryOfferAccepted(s, c, r)
    PROVE  ClientTurn(s)
<1>0. TypeOK /\ KnownHere
  BY DEF TypeInv
<1>1. PICK t \in Tables : t = tables[s]
  BY <1>0 DEF TypeOK
<1>2. PICK order : order = t.orders_in_process[c]
  OBVIOUS
<1>3. PICK entry : entry = [order_price |-> t.customers[c], rider_id |-> r]
  OBVIOUS
<1>4. PICK taken : taken = [order EXCEPT !.rider_id = r]
  OBVIOUS
<1> DEFINE me == [type |-> "Offer", customer |-> c, rider |-> r]
           noted == c \in connected[s] /\ t.customers[c] # None
           given == order # None /\ order.rider_id = None
           m == [type |-> "UpdateOrder", customer |-> c, order |-> entry]
           n == [type |-> "UpdateOrder", customer |-> c, order |-> taken]
           answers == (due \ {me}) \cup {[me EXCEPT !.type = "Carried"]}
           table == IF noted THEN [t.orders_in_process EXCEPT ![r] = entry]
                    ELSE t.orders_in_process
           first == IF noted THEN <<m>> ELSE <<>>
<1>5. /\ Managing(s) /\ r \in connected[s]
      /\ UNCHANGED <<serverVars, connected, clientVars, visits, disturbances>>
  BY DEF DeliveryOfferAccepted
<1>6. \/ /\ given
         /\ Finish(s, [t EXCEPT !.orders_in_process = [table EXCEPT ![c] = taken]],
                   first, <<n>>, answers)
         /\ UNCHANGED faults
      \/ /\ ~given
         /\ Finish(s, [t EXCEPT !.orders_in_process = table], first, <<>>, due \ {me})
         /\ faults' = IF noted THEN faults \cup {"stray"} ELSE faults
  BY <1>1, <1>2, <1>3, <1>4, Zenon DEF DeliveryOfferAccepted
<1>7. Frame(s) /\ connected'[s] = connected[s]
  <2>1. /\ UNCHANGED <<serverVars, connected>>
        /\ ordered' \in [Customers -> 0 .. MaxOrders] /\ choosing' \subseteq Customers
        /\ visits' \in 0 .. MaxVisits /\ disturbances' = disturbances
    BY <1>0, <1>5 DEF clientVars, TypeOK
  <2>2. faults \subseteq faults' /\ faults' \subseteq faults \cup {"stray"}
    BY <1>6
  <2> QED BY <1>5, <2>1, <2>2, StayFrame
<1>8. /\ answers \subseteq Due /\ due \ {me} \subseteq Due
      /\ \A a \in answers \ due : a.type # "FindRider"
  <2>1. due \subseteq Due
    BY <1>0 DEF TypeOK
  <2>2. [me EXCEPT !.type = "Carried"] \in Due
        /\ [me EXCEPT !.type = "Carried"].type = "Carried"
    BY DEF Due
  <2> QED BY <2>1, <2>2
<1>9. /\ t.customers \in [Customers -> Prices \cup {0, None}]
      /\ t.orders_in_process \in Orders
  BY <1>1, TablesFields
<1>10. c # r /\ c \in Customers \cup Riders /\ r \in Customers \cup Riders
       /\ r \notin Customers
  BY DataRingAssumption
<1>11. ASSUME noted
       PROVE  /\ entry \in OrderData /\ m \in Update
              /\ m.type = "UpdateOrder" /\ m.customer = c /\ m.order = entry
  <2>1. entry \in OrderData
    BY <1>3, <1>9, <1>11 DEF OrderData
  <2> QED BY <2>1 DEF Update
<1>12. table \in Orders /\ \A k \in Customers : table[k] = t.orders_in_process[k]
  <2>1. CASE noted
    BY <1>9, <1>10, <1>11, <2>1 DEF Orders
  <2>2. CASE ~noted
    BY <1>9, <2>2
  <2> QED BY <2>1, <2>2
<1>13. first \in Seq(Update) /\ \A i \in DOMAIN first : first[i].type = "UpdateOrder"
  <2>1. CASE noted
    <3>1. first = <<m>> /\ m \in Update /\ m.type = "UpdateOrder"
      BY <1>11, <2>1
    <3> HIDE DEF m, first
    <3> QED BY <3>1
  <2>2. CASE ~noted
    BY <2>2
  <2> QED BY <2>1, <2>2
<1> HIDE DEF me, m, n, answers, table, first
<1>14. CASE /\ given
            /\ Finish(s, [t EXCEPT !.orders_in_process = [table EXCEPT ![c] = taken]],
                      first, <<n>>, answers)
  <2>1. PICK f : f = [table EXCEPT ![c] = taken]
    OBVIOUS
  <2>2. PICK d : d = [t EXCEPT !.orders_in_process = f]
    OBVIOUS
  <2>3. order \in OrderData /\ taken \in OrderData
        /\ taken = [order_price |-> order.order_price, rider_id |-> r]
    <3>1. order \in OrderData
      BY <1>2, <1>9, <1>10, <1>14 DEF Orders
    <3> QED BY <1>4, <3>1 DEF OrderData
  <2>4. f \in Orders
    BY <1>10, <1>12, <2>1, <2>3 DEF Orders
  <2>5. /\ d \in Tables /\ d.orders_in_process = f
        /\ d.customers = t.customers /\ d.riders = t.riders
        /\ d.restaurants = t.restaurants
        /\ d.payment_system_port = t.payment_system_port
        /\ d.pending_delivery_requests = t.pending_delivery_requests
    BY <1>1, <2>2, <2>4, OrdersWith
  <2>6. f[c] = taken /\ \A k \in Customers \ {c} : f[k] = t.orders_in_process[k]
    BY <1>10, <1>12, <2>1 DEF Orders
  <2>7. n \in Update /\ n.type = "UpdateOrder" /\ n.customer = c /\ n.order = taken
    BY <2>3 DEF Update, n
  <2>8. Says(d, <<n>>, d)
    <3>1. PICK u : u = Updated(d, n)
      OBVIOUS
    <3>2. /\ u.customers = d.customers
          /\ u.riders = d.riders /\ u.restaurants = d.restaurants
          /\ u.payment_system_port = d.payment_system_port
          /\ u.orders_in_process = [d.orders_in_process EXCEPT ![c] = taken]
      <4>1. n.type = "UpdateOrder" /\ n.customer = c /\ n.order = taken
        BY <2>7
      <4>2. d \in Tables /\ n \in Update
        BY <2>5, <2>7
      <4> QED BY <3>1, <4>1, <4>2, OrderUpdated
    <3>3. Alike(u, d)
      BY <2>4, <2>5, <2>6, <3>2 DEF Alike, Orders
    <3> QED BY <2>5, <2>7, <3>1, <3>3, SaysOne
  <2>9. Keeps(t, d) /\ Known(d, connected'[s])
    <3>1. Known(t, connected[s])
      BY <1>0, <1>1 DEF KnownHere
    <3> QED BY <1>7, <2>5, <3>1 DEF Keeps, Known
  <2>10. ASSUME Priced(t, connected[s])
         PROVE  Says(t, first, d) /\ Priced(d, connected'[s])
    <3>1. c \in connected[s] /\ order.order_price = t.customers[c]
      BY <1>2, <1>14, <2>10 DEF Priced
    <3>2. noted
      <4>1. order.order_price \in Prices \cup {0}
        BY <2>3 DEF OrderData
      <4>2. order.order_price # None
        BY <4>1, NoneApart
      <4> QED BY <3>1, <4>2
    <3>3. entry = taken
      BY <1>3, <2>3, <3>1
    <3>4. Says(t, <<m>>, d)
      <4>1. PICK u : u = Updated(t, m)
        OBVIOUS
      <4>2. /\ u.customers = t.customers
            /\ u.riders = t.riders /\ u.restaurants = t.restaurants
            /\ u.payment_system_port = t.payment_system_port
            /\ u.orders_in_process = [t.orders_in_process EXCEPT ![c] = entry]
        <5>1. m \in Update /\ m.type = "UpdateOrder" /\ m.customer = c /\ m.order = entry
          BY <1>11, <3>2
        <5> QED BY <1>1, <4>1, <5>1, UpdatedFields
      <4>3. Alike(u, d)
        BY <1>9, <1>10, <2>5, <2>6, <3>3, <4>2 DEF Alike, Orders
      <4> QED BY <1>1, <1>11, <3>2, <4>1, <4>3, SaysOne
    <3>5. first = <<m>>
      BY <3>2 DEF first
    <3>6. Priced(d, connected'[s])
      <4> SUFFICES ASSUME NEW k \in Customers, d.orders_in_process[k] # None
                   PROVE  /\ k \in connected'[s]
                          /\ d.orders_in_process[k].order_price = d.customers[k]
        BY DEF Priced
      <4>1. CASE k = c
        BY <1>7, <2>3, <2>5, <2>6, <3>1, <4>1
      <4>2. CASE k # c
        <5>1. d.orders_in_process[k] = t.orders_in_process[k]
              /\ d.customers[k] = t.customers[k]
          BY <2>5, <2>6, <4>2
        <5> QED BY <1>7, <2>10, <5>1 DEF Priced
      <4> QED BY <4>1, <4>2
    <3> QED BY <3>4, <3>5, <3>6
  <2>11. RidersIn(first, connected'[s])
    BY <1>13 DEF RidersIn
  <2>12. Changes(s, d, first)
    BY <1>1, <1>13, <2>5, <2>9, <2>10, <2>11 DEF Changes
  <2>13. <<n>> \in Seq(Update) /\ \A i \in DOMAIN <<n>> : <<n>>[i] = n
    BY <2>7
  <2>14. connected[s] # {} /\ Queue(d) = Queue(t)
    BY <1>5, <2>5 DEF Queue
  <2>15. Finish(s, d, first, <<n>>, answers)
    BY <1>14, <2>1, <2>2
  <2>18. Says(t, first \o <<n>>, d)
    <3>1. ASSUME NEW e \in Tables, Says(t, first, e),
                 e.customers = t.customers, e.riders = t.riders,
                 \A y \in Restaurants : e.restaurants[y] = t.restaurants[y],
                 e.payment_system_port = t.payment_system_port,
                 \A k \in Customers \ {c} :
                    e.orders_in_process[k] = t.orders_in_process[k]
          PROVE  Says(t, first \o <<n>>, d)
      <4>1. PICK u : u = Updated(e, n)
        OBVIOUS
      <4>2. /\ u.customers = e.customers
            /\ u.riders = e.riders /\ u.restaurants = e.restaurants
            /\ u.payment_system_port = e.payment_system_port
            /\ u.orders_in_process = [e.orders_in_process EXCEPT ![c] = taken]
        <5>1. n.type = "UpdateOrder" /\ n.customer = c /\ n.order = taken
          BY <2>7
        <5>2. e \in Tables /\ n \in Update
          BY <2>7, <3>1
        <5> QED BY <4>1, <5>1, <5>2, OrderUpdated
      <4>3. e.orders_in_process \in Orders
        BY <3>1, TablesFields
      <4>4. Alike(u, d)
        BY <1>10, <2>5, <2>6, <3>1, <4>2, <4>3 DEF Alike, Orders
      <4>5. Says(e, <<n>>, d)
        BY <2>7, <3>1, <4>1, <4>4, SaysOne
      <4> QED BY <1>1, <1>13, <2>13, <3>1, <4>5, SaysThen
    <3>2. CASE noted
      <4>1. first = <<m>> /\ m \in Update
        BY <1>11, <3>2 DEF first
      <4>2. PICK u : u = Updated(t, m)
        OBVIOUS
      <4>3. /\ u \in Tables /\ u.customers = t.customers
            /\ u.riders = t.riders /\ u.restaurants = t.restaurants
            /\ u.payment_system_port = t.payment_system_port
            /\ u.orders_in_process = [t.orders_in_process EXCEPT ![c] = entry]
        <5>1. m \in Update /\ m.type = "UpdateOrder" /\ m.customer = c /\ m.order = entry
          BY <1>11, <3>2
        <5> QED BY <1>1, <4>2, <5>1, UpdatedFields
      <4>4. Says(t, <<m>>, u)
        <5>1. Alike(u, u)
          BY DEF Alike
        <5> QED BY <1>1, <4>1, <4>2, <5>1, SaysOne
      <4>5. \A k \in Customers \ {c} : u.orders_in_process[k] = t.orders_in_process[k]
        BY <1>9, <1>10, <4>3 DEF Orders
      <4> QED BY <3>1, <4>1, <4>3, <4>4, <4>5
    <3>3. CASE ~noted
      <4>1. first = <<>>
        BY <3>3 DEF first
      <4>2. Says(t, <<>>, t)
        <5>1. Alike(t, t)
          BY DEF Alike
        <5> QED BY <5>1, SaysNone
      <4> QED BY <1>1, <3>1, <4>1, <4>2
    <3> QED BY <3>2, <3>3
  <2>16. Turn(s, d, first, <<n>>)
    BY <1>1, <2>7, <2>8, <2>12, <2>13, <2>14, <2>15, <2>18 DEF Turn, Finish, Tells
  <2>17. Answered(s)
    BY <1>8, <2>15 DEF Answered, Finish
  <2> QED BY <1>7, <1>13, <2>5, <2>13, <2>16, <2>17 DEF ClientTurn
<1>15. CASE /\ ~given
            /\ Finish(s, [t EXCEPT !.orders_in_process = table], first, <<>>, due \ {me})
            /\ faults' = IF noted THEN faults \cup {"stray"} ELSE faults
  <2>1. PICK d : d = [t EXCEPT !.orders_in_process = table]
    OBVIOUS
  <2>2. /\ d \in Tables /\ d.orders_in_process = table
        /\ d.customers = t.customers /\ d.riders = t.riders
        /\ d.restaurants = t.restaurants
        /\ d.payment_system_port = t.payment_system_port
        /\ d.pending_delivery_requests = t.pending_delivery_requests
    BY <1>1, <1>12, <2>1, OrdersWith
  <2>3. Keeps(t, d) /\ Known(d, connected'[s])
    <3>1. Known(t, connected[s])
      BY <1>0, <1>1 DEF KnownHere
    <3> QED BY <1>7, <2>2, <3>1 DEF Keeps, Known
  <2>4. Alike(t, d)
    BY <1>12, <2>2 DEF Alike
  <2>5. /\ "stray" \notin faults' => Says(t, first, d)
        /\ Orderly' => "stray" \notin faults'
        /\ Priced(t, connected[s]) => Priced(d, connected'[s])
    <3>1. ASSUME "stray" \notin faults' PROVE Says(t, first, d)
      <4>1. ~noted
        BY <1>15, <3>1
      <4>2. first = <<>>
        BY <4>1 DEF first
      <4> QED BY <2>4, <4>2, SaysNone
    <3>2. Priced(t, connected[s]) => Priced(d, connected'[s])
      BY <1>7, <1>12, <2>2, PricedLeft
    <3> QED BY <3>1, <3>2 DEF Orderly
  <2>6. RidersIn(first, connected'[s])
    BY <1>13 DEF RidersIn
  <2>7. Changes(s, d, first) /\ Tells(s, d, first)
    BY <1>1, <1>13, <2>2, <2>3, <2>5, <2>6 DEF Changes, Tells
  <2>8. Finish(s, d, first, <<>>, due \ {me})
    BY <1>15, <2>1
  <2>9. \A a \in (due \ {me}) \ due : FALSE
    OBVIOUS
  <2> QED BY <1>1, <1>7, <1>8, <2>2, <2>7, <2>8, <2>9, FinishTurn DEF Queue
<1> QED BY <1>6, <1>14, <1>15

(* Every message of a client is one of these.                              *)
LEMMA ClientTurns ==
    ASSUME TypeInv, NEW s \in Servers, ClientMessage(s)
    PROVE  ClientTurn(s) \/ Offers(s) \/ Panics(s)
BY RegisterCustomerTurn, FindRiderTurn, PaymentExecutedTurn, OrderRequestTurn,
   OrderReadyTurn, OrderCancelledTurn, OfferAcceptedTurn, DeliveryDoneTurn,
   RegisterRiderTurn, LocationUpdateForRiderTurn, RegisterRestaurantTurn,
   RegisterPaymentSystemTurn, Zenon DEF ClientMessage

----------------------------------------------------------------------------
(* The types are kept.                                                     *)

(* The updates that stand for the clients known at first.                  *)
LEMMA FirstUpdates ==
    ASSUME NEW cl \in Riders \cup Restaurants \cup {Gateway}
    PROVE  /\ UpdateFor(cl) \in Update
           /\ cl \in Riders => UpdateFor(cl) = [type |-> "UpdateRider", rider |-> cl]
           /\ cl \in Restaurants =>
                 UpdateFor(cl) = [type |-> "UpdateRestaurant", restaurant |-> cl,
                                  pending_orders |-> {}]
           /\ cl = Gateway => UpdateFor(cl) = [type |-> "UpdatePaymentSystem"]
<1>0. /\ cl \in Riders => cl \notin Restaurants /\ cl # Gateway
      /\ cl \in Restaurants => cl # Gateway
  BY DataRingAssumption
<1>1. CASE cl \in Riders
  <2>1. UpdateFor(cl) = [type |-> "UpdateRider", rider |-> cl]
    BY <1>0, <1>1 DEF UpdateFor
  <2> QED BY <1>0, <1>1, <2>1, UpdateKinds DEF Update
<1>2. CASE cl \in Restaurants
  <2>1. UpdateFor(cl) = [type |-> "UpdateRestaurant", restaurant |-> cl,
                         pending_orders |-> {}]
    BY <1>0, <1>2 DEF UpdateFor
  <2>2. {} \in Restaurant \ {None}
    <3>1. {} \in SUBSET [customer : Customers, price : Prices]
      OBVIOUS
    <3>2. {} # None
      BY <3>1, NoneApart, Zenon
    <3> QED BY <3>1, <3>2 DEF Restaurant
  <2> QED BY <1>0, <1>2, <2>1, <2>2 DEF Update
<1>3. CASE cl = Gateway
  <2>1. UpdateFor(cl) = [type |-> "UpdatePaymentSystem"]
    BY <1>0, <1>3 DEF UpdateFor
  <2> QED BY <1>0, <1>3, <2>1 DEF Update
<1> QED BY <1>1, <1>2, <1>3

(* The history at first tells each client that is known.                   *)
FirstHistory(known) == [i \in DOMAIN SetToSeq(known) |-> UpdateFor(SetToSeq(known)[i])]

(* The first history is a history, of every client that is known.          *)
LEMMA FirstHistoryType ==
    ASSUME NEW known, IsFiniteSet(known),
           known \subseteq Riders \cup Restaurants \cup {Gateway}
    PROVE  /\ FirstHistory(known) \in Seq(Update)
           /\ SetToSeq(known) \in Seq(known)
           /\ Len(FirstHistory(known)) = Len(SetToSeq(known))
           /\ \A x \in known : \E i \in DOMAIN SetToSeq(known) : SetToSeq(known)[i] = x
<1>1. PICK q : q = SetToSeq(known)
  OBVIOUS
<1>2. q \in Seq(known) /\ \A x \in known : \E i \in DOMAIN q : q[i] = x
  BY <1>1, SetInOrder
<1>3. \A i \in DOMAIN q : UpdateFor(q[i]) \in Update
  <2>1. \A i \in DOMAIN q : q[i] \in Riders \cup Restaurants \cup {Gateway}
    BY <1>2
  <2> QED BY <2>1, FirstUpdates
<1>4. PICK h : h = [i \in DOMAIN q |-> UpdateFor(q[i])]
  OBVIOUS
<1>5. h \in Seq(Update) /\ Len(h) = Len(q)
  BY <1>2, <1>3, <1>4
<1> QED BY <1>1, <1>2, <1>4, <1>5 DEF FirstHistory

(* What Init says.                                                         *)
Begins(S, l, known) ==
    /\ S \subseteq Servers /\ l \in S /\ IsFiniteSet(known)
    /\ known \subseteq Riders \cup Restaurants \cup {Gateway}
    /\ state = [s \in Servers |-> IF s \in S THEN "up" ELSE "down"]
    /\ server_peers = [s \in Servers |-> IF s \in S THEN S \ {s} ELSE {}]
    /\ leader = [s \in Servers |-> IF s \in S THEN l ELSE None]
    /\ tables = [s \in Servers |-> IF s \in S THEN KnownTables(known) ELSE NoData]
    /\ historical_state = [s \in Servers |-> IF s \in S THEN FirstHistory(known)
                                             ELSE <<>>]
    /\ connected = [s \in Servers |-> IF s = l THEN known ELSE {}]
    /\ wire = [s \in Servers |-> [t \in Servers |-> <<>>]]
    /\ calling = {} /\ starting = None
    /\ link = [s \in Servers |-> "none"]
    /\ due = {} /\ choosing = {}
    /\ ordered = [c \in Customers |-> 0]
    /\ visits = 0 /\ disturbances = 0 /\ faults = {}

(* An initial state is one in which the servers S follow l, and l knows    *)
(* known.                                                                  *)
LEMMA InitBegins == Init => \E S, l, known : Begins(S, l, known)
<1> SUFFICES ASSUME Init PROVE \E S, l, known : Begins(S, l, known)
  OBVIOUS
<1>1. PICK cluster \in Clusters :
         LET S == cluster.up
             l == cluster.leader
             known == cluster.known
         IN
         /\ state = [s \in Servers |-> IF s \in S THEN "up" ELSE "down"]
         /\ server_peers = [s \in Servers |-> IF s \in S THEN S \ {s} ELSE {}]
         /\ leader = [s \in Servers |-> IF s \in S THEN l ELSE None]
         /\ tables = [s \in Servers |-> IF s \in S THEN KnownTables(known) ELSE NoData]
         /\ LET clients == SetToSeq(known)
                history == [i \in DOMAIN clients |-> UpdateFor(clients[i])]
            IN  historical_state =
                    [s \in Servers |-> IF s \in S THEN history ELSE <<>>]
         /\ connected = [s \in Servers |-> IF s = l THEN known ELSE {}]
         /\ wire = [s \in Servers |-> [t \in Servers |-> <<>>]]
         /\ calling = {} /\ starting = None
         /\ link = [s \in Servers |-> "none"]
         /\ due = {} /\ choosing = {}
         /\ ordered = [c \in Customers |-> 0]
         /\ visits = 0 /\ disturbances = 0 /\ faults = {}
  BY DEF Init
<1>2. /\ cluster.up \subseteq Servers
      /\ cluster.leader \in cluster.up /\ IsFiniteSet(cluster.known)
      /\ cluster.known \subseteq Riders \cup Restaurants \cup {Gateway}
  BY DataRingAssumption
<1>3. Begins(cluster.up, cluster.leader, cluster.known)
  BY <1>1, <1>2, Zenon DEF Begins, FirstHistory
<1> QED BY <1>3

(* An initial state is typed.                                              *)
LEMMA InitType == Init => TypeInv
<1> SUFFICES ASSUME NEW S, NEW l, NEW known, Begins(S, l, known) PROVE TypeInv
  BY InitBegins
<1>1. /\ S \subseteq Servers /\ l \in S /\ IsFiniteSet(known)
      /\ known \subseteq Riders \cup Restaurants \cup {Gateway}
  BY DEF Begins
<1>2. /\ NoData \in Tables /\ KnownTables(known) \in Tables
      /\ Known(KnownTables(known), known) /\ Known(NoData, {})
  BY <1>1, FirstTables
<1>3. FirstHistory(known) \in Seq(Update) /\ <<>> \in Seq(Update) /\ <<>> \in Seq(Line)
  BY <1>1, FirstHistoryType
<1>4. /\ state \in [Servers -> {"down", "up", "panicked"}]
      /\ server_peers \in [Servers -> SUBSET Servers]
      /\ leader \in [Servers -> Servers \cup {None}]
  BY <1>1 DEF Begins
<1>5. tables \in [Servers -> Tables] /\ historical_state \in [Servers -> Seq(Update)]
  BY <1>2, <1>3 DEF Begins
<1>6. connected \in [Servers -> SUBSET Clients] /\ wire \in [Servers -> [Servers -> Seq(Line)]]
  BY <1>1, <1>3 DEF Begins, Clients
<1>7. /\ calling \subseteq Servers /\ starting \in Servers \cup {None}
      /\ link \in [Servers -> {"none", "probed", "connected", "asked"}]
      /\ due \subseteq Due /\ choosing \subseteq Customers /\ faults \subseteq Faults
  BY DEF Begins
<1>8. /\ ordered \in [Customers -> 0 .. MaxOrders]
      /\ visits \in 0 .. MaxVisits /\ disturbances \in 0 .. MaxDisturbances
  BY DataRingAssumption DEF Begins
<1>9. KnownHere
  <2> SUFFICES ASSUME NEW s \in Servers PROVE Known(tables[s], connected[s])
    BY DEF KnownHere
  <2>1. tables[s] = IF s \in S THEN KnownTables(known) ELSE NoData
    BY DEF Begins
  <2>2. connected[s] = IF s = l THEN known ELSE {}
    BY DEF Begins
  <2>3. \A d : Known(d, {})
    BY DEF Known
  <2> QED BY <1>1, <1>2, <2>1, <2>2, <2>3
<1>10. Linked
  BY DEF Linked, Begins
<1> QED BY <1>4, <1>5, <1>6, <1>7, <1>8, <1>9, <1>10 DEF TypeInv, TypeOK

(* One wire of w becomes q.                                                *)
Put(w, s, p, q) == [w EXCEPT ![s][p] = q]

ButFor(v, w, s, p, q) ==
    \A a, b \in Servers : v[a][b] = IF a = s /\ b = p THEN q ELSE w[a][b]

(* One wire is replaced.                                                   *)
LEMMA WireWith ==
    ASSUME NEW w \in Wires, NEW s \in Servers, NEW p \in Servers, NEW q \in Seq(Line)
    PROVE  Put(w, s, p, q) \in Wires /\ ButFor(Put(w, s, p, q), w, s, p, q)
BY DEF Wires, Put, ButFor

(* A handler of s that changes its tables to d, tells the ring, and calls  *)
(* process_pending_requests, of no client.                                 *)
Passes(s, w, d, ring) ==
    \E e \in Tables, direct \in Seq(Update) :
        /\ tables' = [tables EXCEPT ![s] = e]
        /\ Transmit(s, w, ring, direct)
        /\ SameButQueue(d, e) /\ Quiet(direct)
        /\ Queue(d) = <<>> => e = d /\ direct = <<>>
        /\ due' \subseteq Due
        /\ \A m \in due' \ due : m.type = "Offer"

(* process_pending_requests, run alone, is such a handler.                 *)
LEMMA PendingPasses ==
    ASSUME TypeInv, NEW s \in Servers, NEW w \in Wires, NEW d \in Tables,
           NEW ring \in Seq(Update), connected' = connected,
           ProcessPending(s, w, d, ring, due)
    PROVE  Passes(s, w, d, ring)
<1>1. TypeOK /\ due \subseteq Due /\ connected' \in [Servers -> SUBSET Clients]
  BY DEF TypeInv, TypeOK
<1> QED BY <1>1, ProcessPendingTurn DEF Passes

(* Such a handler keeps the types of what it changes.                      *)
LEMMA PassTypes ==
    ASSUME TypeInv, NEW s \in Servers, NEW w \in Wires, NEW d \in Tables,
           NEW ring \in Seq(Update), Keeps(tables[s], d), connected' = connected,
           server_peers' \in [Servers -> SUBSET Servers], Passes(s, w, d, ring)
    PROVE  /\ tables' \in [Servers -> Tables]
           /\ historical_state' \in [Servers -> Seq(Update)]
           /\ wire' \in [Servers -> [Servers -> Seq(Line)]]
           /\ due' \subseteq Due
           /\ KnownHere'
<1>1. PICK e \in Tables, direct \in Seq(Update) :
        /\ tables' = [tables EXCEPT ![s] = e]
        /\ Transmit(s, w, ring, direct)
        /\ SameButQueue(d, e)
        /\ due' \subseteq Due
  BY DEF Passes
<1>2. /\ tables \in [Servers -> Tables]
      /\ historical_state \in [Servers -> Seq(Update)]
  BY DEF TypeInv, TypeOK
<1>3. /\ tables' \in [Servers -> Tables] /\ tables'[s] = e
      /\ \A t \in Servers \ {s} : tables'[t] = tables[t]
  BY <1>1, <1>2
<1>4. historical_state' \in [Servers -> Seq(Update)] /\ wire' \in Wires
  BY <1>1, <1>2, Transmitted
<1>5. ASSUME NEW t \in Servers PROVE Known(tables'[t], connected'[t])
  <2>1. Known(tables[t], connected[t])
    BY DEF TypeInv, KnownHere
  <2>2. CASE t = s
    <3>1. Known(e, connected[s])
      BY <1>1, <2>1, <2>2, KnownOnward
    <3> QED BY <1>3, <2>2, <3>1
  <2>3. CASE t # s
    BY <1>3, <2>1, <2>3
  <2> QED BY <2>2, <2>3
<1> QED BY <1>1, <1>3, <1>4, <1>5 DEF KnownHere, Wires

(* The line that s takes, and the wires without it.                        *)
LEMMA TakenIs ==
    ASSUME TypeInv, NEW s \in Servers, NEW p \in Servers, Arrives(s, p)
    PROVE  /\ Head(wire[p][s]) \in Line /\ Tail(wire[p][s]) \in Seq(Line)
           /\ wire[p][s] \in Seq(Line) /\ wire[p][s] # <<>>
           /\ Taken(s, p) \in Wires
           /\ ButFor(Taken(s, p), wire, p, s, Tail(wire[p][s]))
<1>1. wire \in Wires
  BY DEF TypeInv, TypeOK, Wires
<1>2. wire[p][s] \in Seq(Line) /\ wire[p][s] # <<>>
  BY <1>1 DEF Wires, Arrives
<1>3. Head(wire[p][s]) \in Line /\ Tail(wire[p][s]) \in Seq(Line)
  BY <1>2
<1>4. Taken(s, p) = Put(wire, p, s, Tail(wire[p][s]))
  BY <1>1 DEF Taken, Wires, Put
<1>5. Put(wire, p, s, Tail(wire[p][s])) \in Wires
  BY <1>1, <1>3, WireWith
<1>6. ButFor(Put(wire, p, s, Tail(wire[p][s])), wire, p, s, Tail(wire[p][s]))
  BY <1>1, <1>3, WireWith
<1> QED BY <1>2, <1>3, <1>4, <1>5, <1>6

(* What the handlers of the servers' messages do is, in these terms:       *)
LEMMA ReceiveUpdatePasses ==
    ASSUME TypeInv, NEW s \in Servers, NEW p \in Servers, ReceiveUpdate(s, p)
    PROVE  /\ Arrives(s, p) /\ Head(wire[p][s]) \in Update
           /\ Updated(tables[s], Head(wire[p][s])) \in Tables
           /\ Keeps(tables[s], Updated(tables[s], Head(wire[p][s])))
           /\ Passes(s, Taken(s, p), Updated(tables[s], Head(wire[p][s])),
                     <<Head(wire[p][s])>>)
           /\ UNCHANGED <<serverVars, connected>>
           /\ UNCHANGED <<clientVars, bounds>>
<1>0. tables[s] \in Tables
  BY DEF TypeInv, TypeOK
<1>1. PICK m : m = Head(wire[p][s])
  OBVIOUS
<1>2. /\ Arrives(s, p) /\ m.type \notin {"Coordinator", "LeaderData"}
      /\ connected' = connected
      /\ ProcessPending(s, Taken(s, p), Updated(tables[s], m), <<m>>, due)
      /\ UNCHANGED <<serverVars, connected>>
      /\ UNCHANGED <<clientVars, bounds>>
  BY <1>1 DEF ReceiveUpdate
<1>3. m \in Line /\ Taken(s, p) \in Wires
  BY <1>1, <1>2, TakenIs
<1>4. m \in Update
  BY <1>2, <1>3, LineKinds DEF IsUpdate
<1>5. Updated(tables[s], m) \in Tables /\ Keeps(tables[s], Updated(tables[s], m))
  BY <1>0, <1>4, UpdatedFields, UpdatedKeeps
<1>6. <<m>> \in Seq(Update)
  BY <1>4
<1>7. Passes(s, Taken(s, p), Updated(tables[s], m), <<m>>)
  BY <1>2, <1>3, <1>5, <1>6, PendingPasses
<1> QED BY <1>1, <1>2, <1>4, <1>5, <1>7

(* IsPeerConnected runs process_pending_requests and changes nothing else. *)
LEMMA IsPeerConnectedPasses ==
    ASSUME TypeInv, NEW p \in Servers, IsPeerConnected(p)
    PROVE  Passes(p, wire, tables[p], <<>>) /\ Keeps(tables[p], tables[p])
           /\ tables[p] \in Tables /\ wire \in Wires
<1>1. wire \in Wires /\ tables[p] \in Tables /\ <<>> \in Seq(Update)
  BY DEF TypeInv, TypeOK, Wires
<1>2. connected' = connected /\ ProcessPending(p, wire, tables[p], <<>>, due)
  BY DEF IsPeerConnected
<1>3. Keeps(tables[p], tables[p])
  BY DEF Keeps
<1> QED BY <1>1, <1>2, <1>3, PendingPasses

(* The wires when s has sent p its history.                                *)
Informed(s, p) == [wire EXCEPT ![s][p] = @ \o historical_state[s]]

(* So does the registration of a peer, which sends the history first.      *)
LEMMA RegisterPasses ==
    ASSUME TypeInv, NEW s \in Servers, NEW p \in Servers, Register(s, p)
    PROVE  /\ Informed(s, p) \in Wires
           /\ historical_state[s] \in Seq(Line)
           /\ ButFor(Informed(s, p), wire, s, p, wire[s][p] \o historical_state[s])
           /\ tables[s] \in Tables /\ Keeps(tables[s], tables[s])
           /\ Passes(s, Informed(s, p), tables[s], <<>>)
           /\ server_peers' \in [Servers -> SUBSET Servers]
           /\ server_peers'[s] = server_peers[s] \cup {p}
           /\ \A t \in Servers \ {s} : server_peers'[t] = server_peers[t]
           /\ UNCHANGED <<state, leader, calling, starting, connected>>
           /\ UNCHANGED <<clientVars, bounds>>
<1>1. /\ wire \in Wires /\ tables[s] \in Tables /\ <<>> \in Seq(Update)
      /\ historical_state[s] \in Seq(Update) /\ wire[s][p] \in Seq(Line)
      /\ server_peers \in [Servers -> SUBSET Servers]
  BY DEF TypeInv, TypeOK, Wires
<1>2. historical_state[s] \in Seq(Line)
  BY <1>1 DEF Line
<1>3. /\ Informed(s, p) \in Wires
      /\ ButFor(Informed(s, p), wire, s, p, wire[s][p] \o historical_state[s])
  <2>1. Informed(s, p) = Put(wire, s, p, wire[s][p] \o historical_state[s])
    BY <1>1 DEF Informed, Wires, Put
  <2>2. wire[s][p] \o historical_state[s] \in Seq(Line)
    BY <1>1, <1>2
  <2>3. wire \in Wires
    BY <1>1
  <2>4. Put(wire, s, p, wire[s][p] \o historical_state[s]) \in Wires
    BY <2>2, <2>3, WireWith
  <2>5. ButFor(Put(wire, s, p, wire[s][p] \o historical_state[s]), wire, s, p,
               wire[s][p] \o historical_state[s])
    BY <2>2, <2>3, WireWith
  <2> QED BY <2>1, <2>4, <2>5
<1>4. /\ server_peers' = [server_peers EXCEPT ![s] = @ \cup {p}]
      /\ UNCHANGED <<state, leader, calling, starting, connected, clientVars, bounds>>
      /\ ProcessPending(s, Informed(s, p), tables[s], <<>>, due)
  BY DEF Register, Informed
<1>5. Keeps(tables[s], tables[s])
  BY DEF Keeps
<1>6. Passes(s, Informed(s, p), tables[s], <<>>)
  BY <1>1, <1>3, <1>4, PendingPasses
<1> QED BY <1>1, <1>2, <1>3, <1>4, <1>5, <1>6

(* A counter below its bound stays within it.                              *)
LEMMA StillBounded ==
    ASSUME NEW M \in Nat, NEW x \in 0 .. M, x < M
    PROVE  x + 1 \in 0 .. M
OBVIOUS

(* What a bounded counter of the model holds is a number.                  *)
LEMMA Counted ==
    ASSUME NEW S, NEW M, NEW f \in [S -> 0 .. M], NEW t \in S
    PROVE  f[t] \in Nat
OBVIOUS

(* The turn of a client keeps the types.                                   *)
LEMMA ClientTurnType ==
    ASSUME TypeInv, NEW s \in Servers, ClientTurn(s)
    PROVE  TypeInv'
<1>1. PICK d \in Tables, ring \in Seq(Update), direct \in Seq(Update) :
         Turn(s, d, ring, direct)
  BY DEF ClientTurn
<1>2. /\ UNCHANGED serverVars /\ disturbances' = disturbances
      /\ connected' \in [Servers -> SUBSET Clients]
      /\ \A t \in Servers \ {s} : connected'[t] = connected[t]
      /\ faults' \subseteq faults \cup {"stray"}
      /\ ordered' \in [Customers -> 0 .. MaxOrders]
      /\ visits' \in 0 .. MaxVisits /\ choosing' \subseteq Customers
      /\ due' \subseteq Due
  BY DEF ClientTurn, Frame, Answered
<1>3. /\ Known(d, connected'[s])
      /\ tables' = [tables EXCEPT ![s] = d]
      /\ Transmit(s, wire, ring, direct)
  BY <1>1 DEF Turn, Changes
<1>4. /\ tables \in [Servers -> Tables] /\ wire \in Wires
      /\ historical_state \in [Servers -> Seq(Update)]
      /\ server_peers' \in [Servers -> SUBSET Servers]
      /\ disturbances \in 0 .. MaxDisturbances /\ faults \subseteq Faults
  BY <1>2 DEF TypeInv, TypeOK, Wires, serverVars
<1>5. /\ tables' \in [Servers -> Tables] /\ tables'[s] = d
      /\ \A t \in Servers \ {s} : tables'[t] = tables[t]
  BY <1>3, <1>4
<1>6. historical_state' \in [Servers -> Seq(Update)] /\ wire' \in Wires
  BY <1>3, <1>4, Transmitted
<1>7. KnownHere'
  BY <1>2, <1>3, <1>5 DEF TypeInv, KnownHere
<1>8. Linked'
  BY <1>2 DEF TypeInv, Linked, serverVars
<1>9. TypeOK'
  BY <1>2, <1>4, <1>5, <1>6 DEF TypeInv, TypeOK, Wires, serverVars, Faults
<1> QED BY <1>7, <1>8, <1>9 DEF TypeInv

(* So does an answer that goes out to a client.                            *)
LEMMA OffersType ==
    ASSUME TypeInv, NEW s \in Servers, Offers(s)
    PROVE  TypeInv'
<1>1. KnownHere' /\ Linked'
  BY DEF TypeInv, KnownHere, Linked, Offers, serverVars
<1>2. TypeOK'
  BY DEF TypeInv, TypeOK, Offers, serverVars, clientVars, bounds
<1> QED BY <1>1, <1>2 DEF TypeInv

(* So does a panic of a handler.                                           *)
LEMMA PanicsType ==
    ASSUME TypeInv, NEW s \in Servers, Panics(s)
    PROVE  TypeInv'
<1>1. KnownHere' /\ Linked'
  BY DEF TypeInv, KnownHere, Linked, Panics
<1>2. TypeOK'
  BY DEF TypeInv, TypeOK, Panics, clientVars, bounds
<1> QED BY <1>1, <1>2 DEF TypeInv

(* So does the arrival of an update.                                       *)
LEMMA ReceiveUpdateType ==
    ASSUME TypeInv, NEW s \in Servers, NEW p \in Servers, ReceiveUpdate(s, p)
    PROVE  TypeInv'
<1>1. PICK m : m = Head(wire[p][s])
  OBVIOUS
<1>2. /\ Arrives(s, p) /\ m \in Update
      /\ Updated(tables[s], m) \in Tables
      /\ Keeps(tables[s], Updated(tables[s], m))
      /\ Passes(s, Taken(s, p), Updated(tables[s], m), <<m>>)
      /\ UNCHANGED <<serverVars, connected>>
      /\ UNCHANGED <<clientVars, bounds>>
  BY <1>1, ReceiveUpdatePasses
<1>3. <<m>> \in Seq(Update) /\ Taken(s, p) \in Wires
  BY <1>2, TakenIs
<1>4. connected' = connected /\ server_peers' \in [Servers -> SUBSET Servers]
  BY <1>2 DEF TypeInv, TypeOK, serverVars
<1>5. /\ tables' \in [Servers -> Tables]
      /\ historical_state' \in [Servers -> Seq(Update)]
      /\ wire' \in [Servers -> [Servers -> Seq(Line)]]
      /\ due' \subseteq Due /\ KnownHere'
  BY <1>2, <1>3, <1>4, PassTypes
<1>6. Linked'
  BY <1>2 DEF TypeInv, Linked, serverVars
<1>7. TypeOK'
  BY <1>2, <1>5 DEF TypeInv, TypeOK, serverVars, clientVars, bounds
<1> QED BY <1>5, <1>6, <1>7 DEF TypeInv

(* So does the check that a peer is connected.                             *)
LEMMA IsPeerConnectedType ==
    ASSUME TypeInv, NEW p \in Servers, IsPeerConnected(p)
    PROVE  TypeInv'
<1>1. /\ Passes(p, wire, tables[p], <<>>) /\ Keeps(tables[p], tables[p])
      /\ tables[p] \in Tables /\ wire \in Wires /\ <<>> \in Seq(Update)
  BY IsPeerConnectedPasses
<1>2. /\ starting # None /\ starting # p /\ link' = [link EXCEPT ![p] = "probed"]
      /\ UNCHANGED <<state, server_peers, leader, calling, starting, connected>>
      /\ UNCHANGED <<clientVars, bounds>>
  BY DEF IsPeerConnected
<1>3. connected' = connected /\ server_peers' \in [Servers -> SUBSET Servers]
  BY <1>2 DEF TypeInv, TypeOK
<1>4. /\ tables' \in [Servers -> Tables]
      /\ historical_state' \in [Servers -> Seq(Update)]
      /\ wire' \in [Servers -> [Servers -> Seq(Line)]]
      /\ due' \subseteq Due /\ KnownHere'
  BY <1>1, <1>3, PassTypes
<1>5. Linked'
  BY <1>2 DEF TypeInv, TypeOK, Linked
<1>6. TypeOK'
  BY <1>2, <1>4 DEF TypeInv, TypeOK, clientVars, bounds
<1> QED BY <1>4, <1>5, <1>6 DEF TypeInv

(* So does the registration of a peer, by either end of the connection.    *)
LEMMA RegisterType ==
    ASSUME TypeInv, NEW s \in Servers, NEW p \in Servers, Register(s, p),
           NEW q \in Servers, NEW stage \in {"connected", "asked"},
           link[q] # "none", link' = [link EXCEPT ![q] = stage]
    PROVE  TypeInv'
<1>1. /\ Informed(s, p) \in Wires /\ tables[s] \in Tables
      /\ Keeps(tables[s], tables[s]) /\ <<>> \in Seq(Update)
      /\ Passes(s, Informed(s, p), tables[s], <<>>)
      /\ server_peers' \in [Servers -> SUBSET Servers]
      /\ UNCHANGED <<state, leader, calling, starting, connected>>
      /\ UNCHANGED <<clientVars, bounds>>
  BY RegisterPasses
<1>2. connected' = connected
  BY <1>1
<1>3. /\ tables' \in [Servers -> Tables]
      /\ historical_state' \in [Servers -> Seq(Update)]
      /\ wire' \in [Servers -> [Servers -> Seq(Line)]]
      /\ due' \subseteq Due /\ KnownHere'
  BY <1>1, <1>2, PassTypes
<1>4. Linked'
  BY <1>1 DEF TypeInv, TypeOK, Linked
<1>5. TypeOK'
  BY <1>1, <1>3 DEF TypeInv, TypeOK, clientVars, bounds
<1> QED BY <1>3, <1>4, <1>5 DEF TypeInv

(* So does the message that names the leader.                              *)
LEMMA GotLeaderType ==
    ASSUME TypeInv, NEW s \in Servers, NEW p \in Servers, GotLeaderFromPeer(s, p)
    PROVE  TypeInv'
<1>1. PICK m : m = Head(wire[p][s])
  OBVIOUS
<1>2. /\ Arrives(s, p)
      /\ \/ m.type = "Coordinator" /\ leader' = [leader EXCEPT ![s] = p]
         \/ m.type = "LeaderData" /\ leader' = [leader EXCEPT ![s] = m.leader]
      /\ calling' = calling \ {s} /\ wire' = Taken(s, p)
      /\ UNCHANGED <<state, server_peers, starting, link, tables, historical_state,
                     connected, due>>
      /\ UNCHANGED <<clientVars, bounds>>
  BY <1>1 DEF GotLeaderFromPeer
<1>3. m \in Line /\ Taken(s, p) \in Wires
  BY <1>1, <1>2, TakenIs
<1>4. m.type = "LeaderData" => m.leader \in Servers
  BY <1>3, LineKinds DEF IsUpdate
<1>5. leader' \in [Servers -> Servers \cup {None}]
  BY <1>2, <1>4 DEF TypeInv, TypeOK
<1>6. KnownHere' /\ Linked'
  BY <1>2 DEF TypeInv, KnownHere, Linked
<1>7. TypeOK'
  BY <1>2, <1>3, <1>5 DEF TypeInv, TypeOK, Wires, clientVars, bounds
<1> QED BY <1>6, <1>7 DEF TypeInv

(* What overtakes a coordinator's line.                                    *)
LEMMA OvertakenIs ==
    ASSUME TypeInv, NEW s \in Servers, NEW p \in Servers, Overtaken(s, p)
    PROVE  /\ wire' \in Wires
           /\ wire[p][s][1].type = "Coordinator" /\ 1 \in DOMAIN wire[p][s]
<1>1. wire \in Wires /\ wire[p][s] \in Seq(Line) /\ Len(wire[p][s]) > 1
  BY DEF TypeInv, TypeOK, Wires, Overtaken
<1>2. PICK w : w = wire[p][s]
  OBVIOUS
<1>3. <<w[2], w[1]>> \o SubSeq(w, 3, Len(w)) \in Seq(Line)
  BY <1>1, <1>2
<1>4. wire' = Put(wire, p, s, <<w[2], w[1]>> \o SubSeq(w, 3, Len(w)))
  BY <1>1, <1>2 DEF Overtaken, Put, Wires
<1>5. Put(wire, p, s, <<w[2], w[1]>> \o SubSeq(w, 3, Len(w))) \in Wires
  BY <1>1, <1>3, WireWith
<1>6. wire[p][s][1].type = "Coordinator" /\ 1 \in DOMAIN wire[p][s]
  BY <1>1 DEF Overtaken
<1> QED BY <1>4, <1>5, <1>6

(* So does a coordinator's line that is overtaken.                         *)
LEMMA OvertakenType ==
    ASSUME TypeInv, NEW s \in Servers, NEW p \in Servers, Overtaken(s, p)
    PROVE  TypeInv'
<1>1. /\ UNCHANGED <<serverVars, tables, historical_state, connected, due>>
      /\ UNCHANGED <<clientVars, bounds>>
  BY DEF Overtaken
<1>2. KnownHere' /\ Linked'
  BY <1>1 DEF TypeInv, KnownHere, Linked, serverVars
<1>3. TypeOK'
  BY <1>1, OvertakenIs DEF TypeInv, TypeOK, Wires, serverVars, clientVars, bounds
<1> QED BY <1>2, <1>3 DEF TypeInv

(* So does the end of the connection of a peer.                            *)
LEMMA DisconnectedType ==
    ASSUME TypeInv, NEW s \in Servers, NEW p \in Servers, PeerDisconnected(s, p)
    PROVE  TypeInv'
<1>1. /\ UNCHANGED <<state, starting, link, tables, historical_state, connected,
                      wire, due>>
      /\ UNCHANGED <<clientVars, bounds>>
      /\ server_peers' = [server_peers EXCEPT ![s] = @ \ {p}]
      /\ leader' = [leader EXCEPT ![s] = s] \/ leader' = leader
      /\ calling' = calling \cup {s} \/ calling' = calling
  BY DEF PeerDisconnected
<1>2. KnownHere' /\ Linked'
  BY <1>1 DEF TypeInv, KnownHere, Linked
<1>3. /\ server_peers' \in [Servers -> SUBSET Servers]
      /\ leader' \in [Servers -> Servers \cup {None}]
      /\ calling' \subseteq Servers
  <2>1. server_peers' \in [Servers -> SUBSET Servers]
    BY <1>1 DEF TypeInv, TypeOK
  <2>2. leader' \in [Servers -> Servers \cup {None}]
    <3>1. leader \in [Servers -> Servers \cup {None}]
      BY DEF TypeInv, TypeOK
    <3>2. CASE leader' = [leader EXCEPT ![s] = s]
      BY <3>1, <3>2
    <3>3. CASE leader' = leader
      BY <3>1, <3>3
    <3> QED BY <1>1, <3>2, <3>3
  <2>3. calling' \subseteq Servers
    BY <1>1 DEF TypeInv, TypeOK
  <2> QED BY <2>1, <2>2, <2>3
<1>4. UNCHANGED <<state, starting, link, tables, historical_state, connected, wire,
                  due, choosing, ordered, visits, disturbances, faults>>
  BY <1>1 DEF clientVars, bounds
<1>5. TypeOK'
  BY <1>3, <1>4 DEF TypeInv, TypeOK
<1> QED BY <1>2, <1>5 DEF TypeInv

(* So does a new leader.                                                   *)
LEMMA TakeOverType ==
    ASSUME TypeInv, NEW s \in Servers, TakeOver(s)
    PROVE  TypeInv'
<1>1. /\ UNCHANGED <<state, server_peers, starting, link, tables,
                   historical_state, connected, due>>
      /\ UNCHANGED <<clientVars, visits, disturbances>>
      /\ leader' = [leader EXCEPT ![s] = s] /\ calling' = calling \ {s}
      /\ faults' \subseteq faults \cup {"hasty"}
  BY DEF TakeOver
<1>2. KnownHere' /\ Linked'
  BY <1>1 DEF TypeInv, KnownHere, Linked
<1>3. wire' \in Wires
  <2>1. wire \in Wires
    BY DEF TypeInv, TypeOK, Wires
  <2>2. PICK row : row = [t \in Servers |->
               IF t \in server_peers[s] /\ Alive(t)
               THEN Append(wire[s][t], [type |-> "Coordinator"]) ELSE wire[s][t]]
    OBVIOUS
  <2>3. wire' = [wire EXCEPT ![s] = row]
    BY <2>1, <2>2 DEF TakeOver, Wires
  <2>4. [type |-> "Coordinator"] \in Line
    BY DEF Line
  <2>5. row \in [Servers -> Seq(Line)]
    BY <2>1, <2>2, <2>4 DEF Wires
  <2> QED BY <2>1, <2>3, <2>5 DEF Wires
<1>4. TypeOK'
  BY <1>1, <1>3 DEF TypeInv, TypeOK, Wires, clientVars, Faults
<1> QED BY <1>2, <1>4 DEF TypeInv

(* So does the start of a server.                                          *)
LEMMA StartType ==
    ASSUME TypeInv, NEW j \in Servers, Start(j)
    PROVE  TypeInv'
<1>1. /\ UNCHANGED <<server_peers, leader, calling, link, tables,
                     historical_state, connected, due>>
      /\ UNCHANGED <<clientVars, visits>>
      /\ state' = [state EXCEPT ![j] = "up"]
      /\ starting = None /\ starting' = j
      /\ wire' = [wire EXCEPT ![j] = [t \in Servers |-> <<>>]]
      /\ faults' \subseteq faults \cup {"join", "second join"}
      /\ disturbances < MaxDisturbances /\ disturbances' = disturbances + 1
  BY DEF Start
<1>2. KnownHere' /\ Linked'
  BY <1>1, DataRingAssumption DEF TypeInv, KnownHere, Linked
<1>3. wire' \in Wires
  <2>1. wire \in Wires /\ <<>> \in Seq(Line)
    BY DEF TypeInv, TypeOK, Wires
  <2>2. [t \in Servers |-> <<>>] \in [Servers -> Seq(Line)]
    BY <2>1
  <2> QED BY <1>1, <2>1, <2>2 DEF Wires
<1>4. disturbances' \in 0 .. MaxDisturbances
  <2>1. /\ MaxDisturbances \in Nat /\ disturbances \in 0 .. MaxDisturbances
        /\ disturbances < MaxDisturbances
    BY <1>1, DataRingAssumption DEF TypeInv, TypeOK
  <2>2. disturbances + 1 \in 0 .. MaxDisturbances
    BY <2>1, StillBounded
  <2> QED BY <1>1, <2>2
<1>5. TypeOK'
  BY <1>1, <1>3, <1>4 DEF TypeInv, TypeOK, Wires, clientVars, Faults
<1> QED BY <1>2, <1>5 DEF TypeInv

(* What a server that knows the leader tells the one that starts.          *)
LeaderTold(p) ==
    Append(wire[p][starting], [type |-> "LeaderData", leader |-> leader[p]])

(* What a peer that is asked for the leader puts on the wire.              *)
LEMMA LeaderSent ==
    ASSUME TypeInv, NEW p \in Servers, SendLeader(p)
    PROVE  /\ starting \in Servers /\ wire' \in Wires
           /\ leader[p] = None => wire' = wire
           /\ leader[p] # None =>
                 /\ [type |-> "LeaderData", leader |-> leader[p]] \in Line
                 /\ LeaderTold(p) \in Seq(Line)
                 /\ ButFor(wire', wire, p, starting, LeaderTold(p))
<1>1. wire \in Wires /\ starting \in Servers
  BY DEF TypeInv, TypeOK, Linked, Wires, SendLeader
<1>2. CASE leader[p] = None
  BY <1>1, <1>2 DEF SendLeader
<1>3. CASE leader[p] # None
  <2>1. [type |-> "LeaderData", leader |-> leader[p]] \in Line
    BY <1>3 DEF TypeInv, TypeOK, Line
  <2>2. wire[p][starting] \in Seq(Line)
    BY <1>1 DEF Wires
  <2>3. LeaderTold(p) \in Seq(Line)
    BY <2>1, <2>2 DEF LeaderTold
  <2>4. wire' = Put(wire, p, starting, LeaderTold(p))
    BY <1>1, <1>3 DEF SendLeader, Put, Wires, LeaderTold
  <2>5. wire' \in Wires /\ ButFor(wire', wire, p, starting, LeaderTold(p))
    BY <1>1, <2>3, <2>4, WireWith
  <2> QED BY <1>1, <1>3, <2>1, <2>3, <2>5
<1> QED BY <1>2, <1>3

(* The answer about the leader keeps the types.                            *)
LEMMA SendLeaderType ==
    ASSUME TypeInv, NEW p \in Servers, SendLeader(p)
    PROVE  TypeInv'
<1>1. /\ UNCHANGED <<state, server_peers, leader, calling, starting, tables,
                      historical_state, connected, due>>
      /\ UNCHANGED <<clientVars, bounds>>
      /\ link[p] = "asked" /\ link' = [link EXCEPT ![p] = "none"]
  BY DEF SendLeader
<1>2. KnownHere' /\ Linked'
  BY <1>1 DEF TypeInv, TypeOK, KnownHere, Linked
<1>3. TypeOK'
  BY <1>1, LeaderSent DEF TypeInv, TypeOK, Wires, clientVars, bounds
<1> QED BY <1>2, <1>3 DEF TypeInv

(* So does the end of a start.                                             *)
LEMMA InitLeaderType ==
    ASSUME TypeInv, InitLeader
    PROVE  TypeInv'
<1>1. /\ UNCHANGED <<state, server_peers, calling, link, tables,
                     historical_state, connected, wire, due>>
      /\ UNCHANGED <<clientVars, bounds>>
      /\ starting # None /\ starting' = None
      /\ \A p \in Servers \ {starting} : link[p] = "none"
      /\ leader' = [leader EXCEPT ![starting] = starting] \/ leader' = leader
  BY DEF InitLeader
<1>2. KnownHere' /\ Linked'
  BY <1>1 DEF TypeInv, KnownHere, Linked
<1>3. leader' \in [Servers -> Servers \cup {None}]
  <2>1. starting \in Servers /\ leader \in [Servers -> Servers \cup {None}]
    BY <1>1 DEF TypeInv, TypeOK
  <2> QED BY <1>1, <2>1
<1>4. TypeOK'
  BY <1>1, <1>3 DEF TypeInv, TypeOK, clientVars, bounds
<1> QED BY <1>2, <1>4 DEF TypeInv

(* Every line of w is of the kind K.                                       *)
AllWires(w, K) == \A a, b \in Servers : w[a][b] \in Seq(K)

(* The empty sequence is a sequence of anything.                           *)
LEMMA EmptyIn ==
    ASSUME NEW K
    PROVE  <<>> \in Seq(K)
OBVIOUS

(* Of what is on the wires a crash leaves no other kind.                   *)
LEMMA CrashKind ==
    ASSUME TypeInv, NEW K, AllWires(wire, K), NEW s \in Servers, Crash(s)
    PROVE  wire' \in [Servers -> [Servers -> Seq(K)]] /\ AllWires(wire', K)
<1>1. PICK left \in [Servers -> 0 .. Max({Len(wire[s][t]) : t \in Servers})] :
          /\ \A t \in Servers : left[t] <= Len(wire[s][t])
          /\ wire' = [p \in Servers |-> [t \in Servers |->
                 IF p = s THEN SubSeq(wire[s][t], 1, left[t])
                 ELSE IF t = s THEN <<>> ELSE wire[p][t]]]
  BY DEF Crash
<1>2. ASSUME NEW p \in Servers, NEW t \in Servers
      PROVE  (IF p = s THEN SubSeq(wire[s][t], 1, left[t])
              ELSE IF t = s THEN <<>> ELSE wire[p][t]) \in Seq(K)
  <2>1. left[t] \in Nat
    BY Counted
  <2>2. left[t] <= Len(wire[s][t]) /\ wire[s][t] \in Seq(K)
    BY <1>1 DEF AllWires
  <2>3. SubSeq(wire[s][t], 1, left[t]) \in Seq(K)
    BY <2>1, <2>2
  <2>4. wire[p][t] \in Seq(K) /\ <<>> \in Seq(K)
    BY EmptyIn DEF AllWires
  <2> QED BY <2>3, <2>4
<1>3. wire' \in [Servers -> [Servers -> Seq(K)]]
  BY <1>1, <1>2
<1> QED BY <1>3 DEF AllWires

(* A crash keeps the types.                                                *)
LEMMA CrashType ==
    ASSUME TypeInv, NEW s \in Servers, Crash(s)
    PROVE  TypeInv'
<1>1. /\ disturbances < MaxDisturbances /\ disturbances' = disturbances + 1
      /\ faults' \subseteq faults \cup {"leader crash", "replica crash"}
      /\ state' = [state EXCEPT ![s] = "down"]
      /\ server_peers' = [server_peers EXCEPT ![s] = {}]
      /\ leader' = [leader EXCEPT ![s] = None]
      /\ tables' = [tables EXCEPT ![s] = NoData]
      /\ historical_state' = [historical_state EXCEPT ![s] = <<>>]
      /\ connected' = [connected EXCEPT ![s] = {}]
      /\ due' \subseteq due /\ calling' = calling \ {s}
      /\ starting' = IF starting = s THEN None ELSE starting
      /\ link' = IF starting = s THEN [p \in Servers |-> "none"]
                 ELSE [link EXCEPT ![s] = "none"]
      /\ UNCHANGED <<clientVars, visits>>
  BY DEF Crash
<1>2. NoData \in Tables /\ Known(NoData, {})
  BY FirstTables
<1>3. KnownHere'
  BY <1>1, <1>2 DEF TypeInv, TypeOK, KnownHere
<1>4. Linked'
  BY <1>1 DEF TypeInv, TypeOK, Linked
<1>5. wire' \in Wires
  <2>1. AllWires(wire, Line)
    BY DEF TypeInv, TypeOK, AllWires
  <2> QED BY <2>1, CrashKind DEF Wires
<1>6. disturbances' \in 0 .. MaxDisturbances
  <2>1. /\ MaxDisturbances \in Nat /\ disturbances \in 0 .. MaxDisturbances
        /\ disturbances < MaxDisturbances
    BY <1>1, DataRingAssumption DEF TypeInv, TypeOK
  <2>2. disturbances + 1 \in 0 .. MaxDisturbances
    BY <2>1, StillBounded
  <2> QED BY <1>1, <2>2
<1>7. /\ state' \in [Servers -> {"down", "up", "panicked"}]
      /\ server_peers' \in [Servers -> SUBSET Servers]
      /\ leader' \in [Servers -> Servers \cup {None}]
      /\ tables' \in [Servers -> Tables]
      /\ historical_state' \in [Servers -> Seq(Update)]
      /\ connected' \in [Servers -> SUBSET Clients]
  <2>1. /\ state' \in [Servers -> {"down", "up", "panicked"}]
        /\ server_peers' \in [Servers -> SUBSET Servers]
    BY <1>1 DEF TypeInv, TypeOK
  <2>2. /\ leader' \in [Servers -> Servers \cup {None}]
        /\ connected' \in [Servers -> SUBSET Clients]
    BY <1>1 DEF TypeInv, TypeOK
  <2>3. tables' \in [Servers -> Tables]
    BY <1>1, <1>2 DEF TypeInv, TypeOK
  <2>4. historical_state' \in [Servers -> Seq(Update)]
    <3>1. <<>> \in Seq(Update)
      OBVIOUS
    <3> QED BY <1>1, <3>1 DEF TypeInv, TypeOK
  <2> QED BY <2>1, <2>2, <2>3, <2>4
<1>8. /\ calling' \subseteq Servers /\ starting' \in Servers \cup {None}
      /\ link' \in [Servers -> {"none", "probed", "connected", "asked"}]
      /\ due' \subseteq Due /\ choosing' \subseteq Customers
      /\ ordered' \in [Customers -> 0 .. MaxOrders]
      /\ visits' \in 0 .. MaxVisits /\ faults' \subseteq Faults
  BY <1>1 DEF TypeInv, TypeOK, clientVars, Faults
<1>9. TypeOK'
  BY <1>5, <1>6, <1>7, <1>8 DEF TypeOK, Wires
<1> QED BY <1>3, <1>4, <1>9 DEF TypeInv

(* Every step keeps the types.                                             *)
LEMMA StepType == TypeInv /\ [Next]_vars => TypeInv'
<1> SUFFICES ASSUME TypeInv, [Next]_vars PROVE TypeInv'
  OBVIOUS
<1>1. ASSUME NEW s \in Servers, ClientMessage(s) PROVE TypeInv'
  BY <1>1, ClientTurns, ClientTurnType, OffersType, PanicsType
<1>2. ASSUME NEW s \in Servers, PeerMessage(s) PROVE TypeInv'
  BY <1>2, ReceiveUpdateType, GotLeaderType, OvertakenType, DisconnectedType
     DEF PeerMessage
<1>3. ASSUME NEW p \in Servers, ConnectServerPeer(p) PROVE TypeInv'
  <2>1. /\ starting \in Servers /\ link[p] # "none" /\ Register(starting, p)
        /\ link' = [link EXCEPT ![p] = "connected"]
    BY <1>3 DEF ConnectServerPeer, TypeInv, Linked
  <2> QED BY <2>1, RegisterType
<1>4. ASSUME NEW p \in Servers, CreateServerPeer(p) PROVE TypeInv'
  <2>1. /\ starting \in Servers /\ link[p] # "none" /\ Register(p, starting)
        /\ link' = [link EXCEPT ![p] = "asked"]
    BY <1>4 DEF CreateServerPeer, TypeInv, Linked
  <2> QED BY <2>1, RegisterType
<1>5. CASE Join
  BY <1>3, <1>4, <1>5, StartType, IsPeerConnectedType, SendLeaderType, InitLeaderType
     DEF Join
<1>6. CASE UNCHANGED vars
  <2>1. KnownHere' /\ Linked'
    BY <1>6 DEF TypeInv, KnownHere, Linked, vars, serverVars
  <2>2. TypeOK'
    BY <1>6 DEF TypeInv, TypeOK, vars, serverVars, clientVars, bounds
  <2> QED BY <2>1, <2>2 DEF TypeInv
<1> QED BY <1>1, <1>2, <1>5, <1>6, CrashType, TakeOverType DEF Next

(* In every state the variables have their types: for one, the lines that  *)
(* a Crash cuts off and a coordinator's line that is overtaken leave lines,*)
(* and a price that is not known is never mistaken for one.                *)
THEOREM TypeCorrect == Spec => []TypeOK
<1>1. TypeInv => TypeOK
  BY DEF TypeInv
<1> QED BY <1>1, InitType, StepType, PTL DEF Spec

----------------------------------------------------------------------------
(* The leader has the riders that it knows of.                             *)

(* Of lines of one kind, K, what a server sends leaves no other kind.      *)
Histories(K)   == \A a \in Servers : historical_state[a] \in Seq(K)

(* Lines of one kind K stay so when only lines of that kind are sent.      *)
LEMMA SendsKind ==
    ASSUME NEW K, NEW s \in Servers, NEW w \in Wires,
           historical_state \in [Servers -> Seq(Update)],
           server_peers' \in [Servers -> SUBSET Servers],
           NEW ring \in Seq(Update), NEW direct \in Seq(Update),
           ring \in Seq(K), direct \in Seq(K),
           Transmit(s, w, ring, direct), AllWires(w, K)
    PROVE  AllWires(wire', K) /\ (Histories(K) => Histories(K)')
<1>1. /\ \A p \in Servers : historical_state'[p] =
             IF p = s THEN historical_state[s] \o ring ELSE historical_state[p]
      /\ \A p, t \in Servers : wire'[p][t] =
             IF p = s /\ t = NextOf(s)' /\ Alive(t)
             THEN w[p][t] \o Gone(s, ring, direct) ELSE w[p][t]
  BY Transmitted, SMTT(30)
<1>2. Gone(s, ring, direct) \in Seq(K)
  BY DEF Gone
<1>3. ASSUME NEW a \in Servers, NEW b \in Servers PROVE wire'[a][b] \in Seq(K)
  <2>1. w[a][b] \in Seq(K)
    BY DEF AllWires
  <2>2. w[a][b] \o Gone(s, ring, direct) \in Seq(K)
    BY <1>2, <2>1
  <2>3. wire'[a][b] = w[a][b] \/ wire'[a][b] = w[a][b] \o Gone(s, ring, direct)
    BY <1>1
  <2> QED BY <2>1, <2>2, <2>3
<1>4. ASSUME Histories(K), NEW a \in Servers PROVE historical_state'[a] \in Seq(K)
  <2>1. historical_state[a] \in Seq(K) /\ historical_state[s] \in Seq(K)
    BY <1>4 DEF Histories
  <2>2. historical_state[s] \o ring \in Seq(K)
    BY <2>1
  <2>3. \/ historical_state'[a] = historical_state[a]
        \/ historical_state'[a] = historical_state[s] \o ring
    BY <1>1
  <2> QED BY <2>1, <2>2, <2>3
<1> QED BY <1>3, <1>4 DEF AllWires, Histories

(* A sequence of lines of one kind is one of any wider kind.               *)
LEMMA MoreKinds ==
    ASSUME NEW K, NEW L, K \subseteq L, NEW q \in Seq(K)
    PROVE  q \in Seq(L)
OBVIOUS

(* A sequence is of the kind that each of its lines has.                   *)
LEMMA AllOfKind ==
    ASSUME NEW T, NEW K, NEW q \in Seq(T), \A i \in DOMAIN q : q[i] \in K
    PROVE  q \in Seq(K)
OBVIOUS

(* Lines that speak of no other leader than l, and of riders among C.      *)
Loyal(l, C) ==
    {m \in Line : /\ m.type # "Coordinator"
                  /\ m.type = "LeaderData" => m.leader = l
                  /\ m.type = "UpdateRider" => m.rider \in C}

(* l leads, and no other server has clients, or will lead.                 *)
Rules(l) ==
    /\ state[l] = "up" /\ leader[l] = l /\ starting # l /\ calling = {}
    /\ \A s \in Servers : /\ leader[s] \in {l, None} /\ state[s] # "panicked"
                          /\ s # l => connected[s] = {}

(* Every rider that is spoken of is connected to l.                        *)
Serves(l) ==
    /\ \A s \in Servers : tables[s].riders \subseteq connected[l]
    /\ Histories(Loyal(l, connected[l])) /\ AllWires(wire, Loyal(l, connected[l]))
    /\ \A m \in due : m.type = "FindRider" => m.at = l

Reigns(l) == Rules(l) /\ Serves(l)
LeadInv   == "leader crash" \notin faults => \E l \in Servers : Reigns(l)

(* Updates that name riders of C only are loyal to every leader.           *)
LEMMA LoyalUpdates ==
    ASSUME NEW l, NEW C, NEW q \in Seq(Update), RidersIn(q, C)
    PROVE  q \in Seq(Loyal(l, C))
<1>1. ASSUME NEW i \in DOMAIN q PROVE q[i] \in Loyal(l, C)
  <2>1. q[i] \in Update
    OBVIOUS
  <2>2. q[i] \in Line /\ IsUpdate(q[i])
    BY <2>1, LineKinds DEF Line
  <2> QED BY <2>2 DEF Loyal, RidersIn, IsUpdate
<1> QED BY <1>1, AllOfKind

(* Lines stay loyal when more riders are connected to the leader.          *)
LEMMA LoyalMore ==
    ASSUME NEW l, NEW C, NEW D, C \subseteq D, NEW w, AllWires(w, Loyal(l, C))
    PROVE  AllWires(w, Loyal(l, D)) /\ (Histories(Loyal(l, C)) => Histories(Loyal(l, D)))
<1>1. Loyal(l, C) \subseteq Loyal(l, D)
  BY DEF Loyal
<1> QED BY <1>1, MoreKinds DEF AllWires, Histories

(* At first l reigns.                                                      *)
LEMMA BeginsLed ==
    ASSUME NEW S, NEW l, NEW known, Begins(S, l, known)
    PROVE  l \in Servers /\ Reigns(l)
<1>1. /\ S \subseteq Servers /\ l \in S /\ IsFiniteSet(known)
      /\ known \subseteq Riders \cup Restaurants \cup {Gateway}
  BY DEF Begins
<1>2. Rules(l)
  BY <1>1, DataRingAssumption DEF Rules, Begins
<1>3. connected[l] = known
  BY <1>1 DEF Begins
<1>4. \A s \in Servers : tables[s].riders \subseteq known
  BY DEF Begins, KnownTables, NoData
<1>5. FirstHistory(known) \in Seq(Loyal(l, known))
  <2>1. /\ FirstHistory(known) \in Seq(Update)
        /\ SetToSeq(known) \in Seq(known)
        /\ Len(FirstHistory(known)) = Len(SetToSeq(known))
    BY <1>1, FirstHistoryType
  <2>2. RidersIn(FirstHistory(known), known)
    <3> SUFFICES ASSUME NEW i \in DOMAIN FirstHistory(known),
                        FirstHistory(known)[i].type = "UpdateRider"
                 PROVE  FirstHistory(known)[i].rider \in known
      BY DEF RidersIn
    <3>1. PICK q : q = SetToSeq(known)
      OBVIOUS
    <3>2. i \in DOMAIN q /\ q[i] \in known
      BY <2>1, <3>1
    <3>3. FirstHistory(known)[i] = UpdateFor(q[i])
      BY <3>1, <3>2 DEF FirstHistory
    <3>4. PICK cl \in Riders \cup Restaurants \cup {Gateway} : cl = q[i]
      BY <1>1, <3>2
    <3>5. UpdateFor(cl).type = "UpdateRider"
      BY <3>3, <3>4
    <3>6. UpdateFor(cl).rider = cl
      BY <3>5, FirstUpdates
    <3> QED BY <3>2, <3>3, <3>4, <3>6
  <2> QED BY <2>1, <2>2, LoyalUpdates
<1>6. Histories(Loyal(l, known)) /\ AllWires(wire, Loyal(l, known))
  <2>1. <<>> \in Seq(Loyal(l, known))
    OBVIOUS
  <2>2. \A s \in Servers : historical_state[s] = FirstHistory(known) \/ historical_state[s] = <<>>
    BY DEF Begins
  <2>3. \A s, t \in Servers : wire[s][t] = <<>>
    BY DEF Begins
  <2> QED BY <1>5, <2>1, <2>2, <2>3 DEF Histories, AllWires
<1>7. due = {}
  BY DEF Begins
<1> QED BY <1>1, <1>2, <1>3, <1>4, <1>6, <1>7 DEF Reigns, Serves

(* An initial state satisfies the invariant of the reign.                  *)
LEMMA InitLeads == Init => LeadInv
BY InitBegins, BeginsLed DEF LeadInv

(* Each handler keeps the reign of l.                                      *)
LEMMA ClientTurnReigns ==
    ASSUME TypeInv, NEW l \in Servers, Reigns(l), NEW s \in Servers, ClientTurn(s)
    PROVE  Reigns(l)'
<1>1. PICK d \in Tables, ring \in Seq(Update), direct \in Seq(Update) :
         Turn(s, d, ring, direct)
  BY DEF ClientTurn
<1>2. /\ UNCHANGED serverVars
      /\ connected' \in [Servers -> SUBSET Clients]
      /\ connected[s] \subseteq connected'[s]
      /\ \A t \in Servers \ {s} : connected'[t] = connected[t]
      /\ connected'[s] = connected[s] \/ leader[s] = s
      /\ \A m \in due' \ due : m.type = "FindRider" => m.at = s /\ connected[s] # {}
  BY DEF ClientTurn, Frame, Answered
<1>3. /\ d.riders \subseteq tables[s].riders \cup connected'[s]
      /\ RidersIn(ring, connected'[s])
      /\ \A i \in DOMAIN direct : direct[i].type # "UpdateRider"
      /\ tables' = [tables EXCEPT ![s] = d]
      /\ Transmit(s, wire, ring, direct)
  BY <1>1 DEF Turn, Changes
<1>4. Rules(l)'
  BY <1>2, DataRingAssumption DEF Reigns, Rules, serverVars
<1>5. /\ connected[l] \subseteq connected'[l]
      /\ connected'[s] \subseteq connected'[l]
  BY <1>2, <1>4 DEF Rules
<1>6. PICK C : C = connected'[l]
  OBVIOUS
<1>7. ring \in Seq(Loyal(l, C)) /\ direct \in Seq(Loyal(l, C))
  <2>1. RidersIn(ring, C) /\ RidersIn(direct, C)
    BY <1>3, <1>5, <1>6 DEF RidersIn
  <2> QED BY <2>1, LoyalUpdates
<1>8. Histories(Loyal(l, C)) /\ AllWires(wire, Loyal(l, C))
  BY <1>5, <1>6, LoyalMore DEF Reigns, Serves
<1>9. AllWires(wire', Loyal(l, C)) /\ Histories(Loyal(l, C))'
  <2>1. /\ wire \in Wires /\ historical_state \in [Servers -> Seq(Update)]
        /\ server_peers' \in [Servers -> SUBSET Servers]
    BY <1>2 DEF TypeInv, TypeOK, Wires, serverVars
  <2>2. PICK K : K = Loyal(l, C)
    OBVIOUS
  <2>3. /\ ring \in Seq(K) /\ direct \in Seq(K) /\ Histories(K) /\ AllWires(wire, K)
    BY <1>7, <1>8, <2>2
  <2>4. AllWires(wire', K) /\ Histories(K)'
    BY <1>3, <2>1, <2>3, SendsKind
  <2>5. Histories(K)' <=> \A a \in Servers : historical_state'[a] \in Seq(K)
    BY DEF Histories
  <2> QED BY <2>2, <2>4, <2>5 DEF Histories
<1>10. \A t \in Servers : tables'[t].riders \subseteq C
  <2>1. \A t \in Servers : tables'[t] = IF t = s THEN d ELSE tables[t]
    BY <1>3 DEF TypeInv, TypeOK
  <2>2. \A t \in Servers : tables[t].riders \subseteq connected[l]
    BY DEF Reigns, Serves
  <2> QED BY <1>3, <1>5, <1>6, <2>1, <2>2
<1>11. \A m \in due' : m.type = "FindRider" => m.at = l
  BY <1>2 DEF Reigns, Rules, Serves
<1> QED BY <1>4, <1>6, <1>9, <1>10, <1>11 DEF Reigns, Serves, Histories

(* An answer to a client leaves the reign alone.                           *)
LEMMA OffersReigns ==
    ASSUME TypeInv, NEW l \in Servers, Reigns(l), NEW s \in Servers, Offers(s)
    PROVE  Reigns(l)'
<1>1. Rules(l)'
  BY DEF Reigns, Rules, Offers, serverVars
<1>2. Serves(l)'
  BY DEF Reigns, Serves, Offers, Histories, AllWires
<1> QED BY <1>1, <1>2 DEF Reigns

(* The manager of the leader does not panic.                               *)
LEMMA NoPanic ==
    ASSUME TypeInv, NEW l \in Servers, Reigns(l), NEW s \in Servers
    PROVE  ~Panics(s)
BY DEF Reigns, Serves, Panics

(* After a handler that passes on loyal lines.                             *)
LEMMA PassesReigns ==
    ASSUME TypeInv, NEW l \in Servers, Reigns(l), NEW s \in Servers,
           NEW w \in Wires, AllWires(w, Loyal(l, connected[l])),
           NEW d \in Tables, d.riders \subseteq connected[l],
           NEW ring \in Seq(Update), ring \in Seq(Loyal(l, connected[l])),
           UNCHANGED <<state, leader, calling, starting, connected>>,
           server_peers' \in [Servers -> SUBSET Servers],
           Passes(s, w, d, ring)
    PROVE  Reigns(l)'
<1>1. PICK e \in Tables, direct \in Seq(Update) :
        /\ tables' = [tables EXCEPT ![s] = e]
        /\ Transmit(s, w, ring, direct)
        /\ SameButQueue(d, e) /\ Quiet(direct)
        /\ \A m \in due' \ due : m.type = "Offer"
  BY DEF Passes
<1>2. PICK K : K = Loyal(l, connected[l])
  OBVIOUS
<1>3. direct \in Seq(K)
  <2>1. RidersIn(direct, connected[l])
    BY <1>1 DEF RidersIn, Quiet
  <2> QED BY <1>2, <2>1, LoyalUpdates
<1>4. AllWires(wire', K) /\ Histories(K)'
  <2>1. historical_state \in [Servers -> Seq(Update)]
    BY DEF TypeInv, TypeOK
  <2>2. ring \in Seq(K) /\ AllWires(w, K) /\ Histories(K)
    BY <1>2 DEF Reigns, Serves
  <2> QED BY <1>1, <1>3, <2>1, <2>2, SendsKind
<1>5. connected' = connected
  OBVIOUS
<1>6. AllWires(wire', Loyal(l, connected'[l])) /\ Histories(Loyal(l, connected[l]))'
  <2>1. K = Loyal(l, connected'[l])
    BY <1>2, <1>5
  <2> QED BY <1>4, <2>1 DEF Histories
<1>7. \A t \in Servers : tables'[t].riders \subseteq connected'[l]
  <2>1. \A t \in Servers : tables'[t] = IF t = s THEN e ELSE tables[t]
    BY <1>1 DEF TypeInv, TypeOK
  <2>2. e.riders = d.riders
    BY <1>1 DEF SameButQueue
  <2> QED BY <1>5, <2>1, <2>2 DEF Reigns, Serves
<1>8. \A m \in due' : m.type = "FindRider" => m.at = l
  BY <1>1 DEF Reigns, Serves
<1>9. Rules(l)'
  BY DEF Reigns, Rules
<1> QED BY <1>6, <1>7, <1>8, <1>9 DEF Reigns, Serves

(* Lines of one kind stay so when one wire is replaced by another of that  *)
(* kind.                                                                   *)
LEMMA ButForKind ==
    ASSUME NEW K, NEW w, NEW v, AllWires(w, K), NEW s \in Servers, NEW p \in Servers,
           NEW q \in Seq(K), ButFor(v, w, s, p, q)
    PROVE  AllWires(v, K)
BY DEF AllWires, ButFor

(* Nothing but what is loyal is taken, and what is left is loyal.          *)
LEMMA TakenLoyal ==
    ASSUME TypeInv, NEW l \in Servers, Reigns(l), NEW s \in Servers, NEW p \in Servers,
           Arrives(s, p)
    PROVE  /\ Head(wire[p][s]) \in Loyal(l, connected[l])
           /\ AllWires(Taken(s, p), Loyal(l, connected[l]))
<1>1. PICK K : K = Loyal(l, connected[l])
  OBVIOUS
<1>2. AllWires(wire, K)
  BY <1>1 DEF Reigns, Serves
<1>3. wire[p][s] \in Seq(K) /\ wire[p][s] # <<>>
  BY <1>2 DEF AllWires, Arrives
<1>4. Head(wire[p][s]) \in K /\ Tail(wire[p][s]) \in Seq(K)
  BY <1>3
<1>5. AllWires(Taken(s, p), K)
  BY <1>2, <1>4, TakenIs, ButForKind
<1> QED BY <1>1, <1>4, <1>5

(* The arrival of an update leaves the reign alone.                        *)
LEMMA ReceiveUpdateReigns ==
    ASSUME TypeInv, NEW l \in Servers, Reigns(l), NEW s \in Servers, NEW p \in Servers,
           ReceiveUpdate(s, p)
    PROVE  Reigns(l)'
<1>1. PICK m : m = Head(wire[p][s])
  OBVIOUS
<1>2. /\ Arrives(s, p) /\ m \in Update
      /\ Updated(tables[s], m) \in Tables
      /\ Passes(s, Taken(s, p), Updated(tables[s], m), <<m>>)
      /\ UNCHANGED <<serverVars, connected>>
  BY <1>1, ReceiveUpdatePasses
<1>3. /\ Taken(s, p) \in Wires /\ m \in Loyal(l, connected[l])
      /\ AllWires(Taken(s, p), Loyal(l, connected[l]))
  BY <1>1, <1>2, TakenIs, TakenLoyal
<1>4. <<m>> \in Seq(Update) /\ <<m>> \in Seq(Loyal(l, connected[l]))
  BY <1>2, <1>3
<1>5. /\ UNCHANGED <<state, leader, calling, starting, connected>>
      /\ server_peers' \in [Servers -> SUBSET Servers]
  BY <1>2 DEF serverVars, TypeInv, TypeOK
<1>6. Updated(tables[s], m).riders \subseteq connected[l]
  <2>1. tables[s] \in Tables /\ tables[s].riders \subseteq connected[l]
    BY DEF TypeInv, TypeOK, Reigns, Serves
  <2>2. Updated(tables[s], m).riders =
           IF m.type = "UpdateRider" THEN tables[s].riders \cup {m.rider}
           ELSE tables[s].riders
    BY <1>2, <2>1, UpdatedFields
  <2> QED BY <1>3, <2>1, <2>2 DEF Loyal
<1> QED BY <1>2, <1>3, <1>4, <1>5, <1>6, PassesReigns

(* So does the check that a peer is connected.                             *)
LEMMA IsPeerConnectedReigns ==
    ASSUME TypeInv, NEW l \in Servers, Reigns(l), NEW p \in Servers, IsPeerConnected(p)
    PROVE  Reigns(l)'
<1>1. /\ Passes(p, wire, tables[p], <<>>) /\ tables[p] \in Tables /\ wire \in Wires
      /\ <<>> \in Seq(Update) /\ <<>> \in Seq(Loyal(l, connected[l]))
  BY IsPeerConnectedPasses
<1>2. /\ UNCHANGED <<state, leader, calling, starting, connected>>
      /\ server_peers' \in [Servers -> SUBSET Servers]
  BY DEF IsPeerConnected, TypeInv, TypeOK
<1>3. AllWires(wire, Loyal(l, connected[l])) /\ tables[p].riders \subseteq connected[l]
  BY DEF Reigns, Serves
<1> QED BY <1>1, <1>2, <1>3, PassesReigns

(* So does the registration of a peer.                                     *)
LEMMA RegisterReigns ==
    ASSUME TypeInv, NEW l \in Servers, Reigns(l), NEW s \in Servers, NEW p \in Servers,
           Register(s, p)
    PROVE  Reigns(l)'
<1>1. /\ Informed(s, p) \in Wires /\ tables[s] \in Tables
      /\ ButFor(Informed(s, p), wire, s, p, wire[s][p] \o historical_state[s])
      /\ Passes(s, Informed(s, p), tables[s], <<>>)
      /\ server_peers' \in [Servers -> SUBSET Servers]
      /\ UNCHANGED <<state, leader, calling, starting, connected>>
  BY RegisterPasses
<1>2. PICK K : K = Loyal(l, connected[l])
  OBVIOUS
<1>3. AllWires(wire, K) /\ Histories(K) /\ tables[s].riders \subseteq connected[l]
  BY <1>2 DEF Reigns, Serves
<1>4. wire[s][p] \o historical_state[s] \in Seq(K)
  BY <1>3 DEF AllWires, Histories
<1>5. <<>> \in Seq(K) /\ <<>> \in Seq(Update)
  OBVIOUS
<1>6. AllWires(Informed(s, p), K)
  <2>1. PICK q : q = wire[s][p] \o historical_state[s]
    OBVIOUS
  <2>2. q \in Seq(K) /\ AllWires(wire, K) /\ ButFor(Informed(s, p), wire, s, p, q)
    BY <1>1, <1>3, <1>4, <2>1
  <2> QED BY <2>2, ButForKind
<1> QED BY <1>1, <1>2, <1>3, <1>5, <1>6, PassesReigns

(* So does the message that names the leader: it names l.                  *)
LEMMA GotLeaderReigns ==
    ASSUME TypeInv, NEW l \in Servers, Reigns(l), NEW s \in Servers, NEW p \in Servers,
           GotLeaderFromPeer(s, p)
    PROVE  Reigns(l)'
<1>1. PICK m : m = Head(wire[p][s])
  OBVIOUS
<1>2. /\ Arrives(s, p)
      /\ \/ m.type = "Coordinator" /\ leader' = [leader EXCEPT ![s] = p]
         \/ m.type = "LeaderData" /\ leader' = [leader EXCEPT ![s] = m.leader]
      /\ calling' = calling \ {s} /\ wire' = Taken(s, p)
      /\ UNCHANGED <<state, starting, tables, historical_state, connected, due>>
  BY <1>1 DEF GotLeaderFromPeer
<1>3. m \in Loyal(l, connected[l]) /\ AllWires(wire', Loyal(l, connected[l]))
  BY <1>1, <1>2, TakenLoyal
<1>4. leader' = [leader EXCEPT ![s] = l]
  BY <1>2, <1>3 DEF Loyal
<1>5. Rules(l)'
  BY <1>2, <1>4 DEF Reigns, Rules, TypeInv, TypeOK
<1>6. Serves(l)'
  BY <1>2, <1>3 DEF Reigns, Serves, Histories
<1> QED BY <1>5, <1>6 DEF Reigns

(* While l reigns no coordinator's line is on its way.                     *)
LEMMA NotOvertaken ==
    ASSUME TypeInv, NEW l \in Servers, Reigns(l), NEW s \in Servers, NEW p \in Servers
    PROVE  ~Overtaken(s, p)
<1> SUFFICES ASSUME Overtaken(s, p) PROVE FALSE
  OBVIOUS
<1>1. wire[p][s][1].type = "Coordinator" /\ 1 \in DOMAIN wire[p][s]
  BY OvertakenIs
<1>2. wire[p][s] \in Seq(Loyal(l, connected[l]))
  BY DEF Reigns, Serves, AllWires
<1>3. wire[p][s][1] \in Loyal(l, connected[l])
  BY <1>1, <1>2
<1> QED BY <1>1, <1>3 DEF Loyal

(* The end of a connection leaves the reign alone: it is not that of l.    *)
LEMMA DisconnectedReigns ==
    ASSUME TypeInv, NEW l \in Servers, Reigns(l), NEW s \in Servers, NEW p \in Servers,
           PeerDisconnected(s, p)
    PROVE  Reigns(l)'
<1>1. /\ UNCHANGED <<state, starting, link, tables, historical_state, connected,
                      wire, due>>
      /\ leader[s] # p => leader' = leader /\ calling' = calling
      /\ p \in Servers /\ state[p] = "down"
  BY DEF PeerDisconnected, Alive
<1>2. leader[s] # p
  BY <1>1, DataRingAssumption DEF Reigns, Rules
<1>3. Rules(l)'
  BY <1>1, <1>2 DEF Reigns, Rules
<1>4. Serves(l)'
  BY <1>1 DEF Reigns, Serves, Histories
<1> QED BY <1>3, <1>4 DEF Reigns

(* While l reigns nobody takes over.                                       *)
LEMMA NotTakenOver ==
    ASSUME NEW l \in Servers, Reigns(l), NEW s \in Servers
    PROVE  ~TakeOver(s)
BY DEF Reigns, Rules, TakeOver

(* The start of a server leaves the reign alone.                           *)
LEMMA StartReigns ==
    ASSUME TypeInv, NEW l \in Servers, Reigns(l), NEW j \in Servers, Start(j)
    PROVE  Reigns(l)'
<1>1. /\ UNCHANGED <<leader, calling, tables, historical_state, connected, due>>
      /\ state[j] = "down" /\ state' = [state EXCEPT ![j] = "up"]
      /\ starting' = j
      /\ wire' = [wire EXCEPT ![j] = [t \in Servers |-> <<>>]]
  BY DEF Start
<1>2. Rules(l)'
  BY <1>1 DEF Reigns, Rules, TypeInv, TypeOK
<1>3. ASSUME NEW a \in Servers, NEW b \in Servers
      PROVE  wire'[a][b] \in Seq(Loyal(l, connected[l]))
  <2>1. wire'[a][b] = wire[a][b] \/ wire'[a][b] = <<>>
    BY <1>1 DEF TypeInv, TypeOK
  <2>2. wire[a][b] \in Seq(Loyal(l, connected[l])) /\ <<>> \in Seq(Loyal(l, connected[l]))
    BY DEF Reigns, Serves, AllWires
  <2> QED BY <2>1, <2>2
<1>4. AllWires(wire', Loyal(l, connected[l]))
  BY <1>3 DEF AllWires
<1>5. Serves(l)'
  BY <1>1, <1>4 DEF Reigns, Serves, Histories
<1> QED BY <1>2, <1>5 DEF Reigns

(* So does the answer about the leader.                                    *)
LEMMA SendLeaderReigns ==
    ASSUME TypeInv, NEW l \in Servers, Reigns(l), NEW p \in Servers, SendLeader(p)
    PROVE  Reigns(l)'
<1>1. UNCHANGED <<state, server_peers, leader, calling, starting, tables,
                  historical_state, connected, due>>
  BY DEF SendLeader
<1>2. PICK K : K = Loyal(l, connected[l])
  OBVIOUS
<1>3. AllWires(wire, K)
  BY <1>2 DEF Reigns, Serves
<1>4. AllWires(wire', K)
  <2>1. CASE leader[p] = None
    BY <1>3, <2>1, LeaderSent
  <2>2. CASE leader[p] # None
    <3>1. leader[p] = l
      BY <2>2 DEF Reigns, Rules
    <3>2. [type |-> "LeaderData", leader |-> leader[p]] \in K
      BY <1>2, <2>2, <3>1, LeaderSent DEF Loyal
    <3>3. starting \in Servers /\ ButFor(wire', wire, p, starting, LeaderTold(p))
      BY <2>2, LeaderSent
    <3>4. LeaderTold(p) \in Seq(K)
      BY <1>3, <3>2, <3>3 DEF AllWires, LeaderTold
    <3> QED BY <1>3, <3>3, <3>4, ButForKind
  <2> QED BY <2>1, <2>2
<1>5. Rules(l)'
  BY <1>1 DEF Reigns, Rules
<1>6. Serves(l)'
  BY <1>1, <1>2, <1>4 DEF Reigns, Serves, Histories
<1> QED BY <1>5, <1>6 DEF Reigns

(* So does the end of a start: the server that starts has l as a peer.     *)
LEMMA InitLeaderReigns ==
    ASSUME TypeInv, NEW l \in Servers, Reigns(l), InitLeader
    PROVE  Reigns(l)'
<1>1. /\ UNCHANGED <<state, server_peers, calling, link, tables, historical_state,
                      connected, wire, due>>
      /\ starting # None /\ starting' = None
      /\ \A p \in Servers \ {starting} : Managing(p) => p \in server_peers[starting]
      /\ leader' = IF server_peers[starting] = {}
                   THEN [leader EXCEPT ![starting] = starting] ELSE leader
  BY DEF InitLeader
<1>2. server_peers[starting] # {}
  BY <1>1 DEF Reigns, Rules, Managing
<1>3. Rules(l)'
  BY <1>1, <1>2, DataRingAssumption DEF Reigns, Rules
<1>4. Serves(l)'
  BY <1>1 DEF Reigns, Serves, Histories
<1> QED BY <1>3, <1>4 DEF Reigns

(* So does the crash of a server that is not the leader.                   *)
LEMMA CrashReigns ==
    ASSUME TypeInv, NEW l \in Servers, Reigns(l), NEW s \in Servers, Crash(s),
           "leader crash" \notin faults'
    PROVE  Reigns(l)'
<1>1. /\ leader[s] # s
      /\ state' = [state EXCEPT ![s] = "down"]
      /\ leader' = [leader EXCEPT ![s] = None]
      /\ tables' = [tables EXCEPT ![s] = NoData]
      /\ historical_state' = [historical_state EXCEPT ![s] = <<>>]
      /\ connected' = [connected EXCEPT ![s] = {}]
      /\ due' \subseteq due /\ calling' = calling \ {s}
      /\ starting' = IF starting = s THEN None ELSE starting
  BY DEF Crash
<1>2. s # l
  BY <1>1 DEF Reigns, Rules
<1>3. connected'[l] = connected[l]
  BY <1>1, <1>2 DEF TypeInv, TypeOK
<1>4. Rules(l)'
  <2>1. /\ Rules(l) /\ state \in [Servers -> {"down", "up", "panicked"}]
        /\ leader \in [Servers -> Servers \cup {None}]
        /\ connected \in [Servers -> SUBSET Clients]
    BY DEF Reigns, TypeInv, TypeOK
  <2>2. state'[l] = "up" /\ leader'[l] = l
    BY <1>1, <1>2, <2>1 DEF Rules
  <2>3. starting' # l /\ calling' = {}
    BY <1>1, <2>1, DataRingAssumption DEF Rules
  <2>4. \A t \in Servers : /\ leader'[t] \in {l, None} /\ state'[t] # "panicked"
                           /\ t # l => connected'[t] = {}
    BY <1>1, <2>1 DEF Rules
  <2> QED BY <2>2, <2>3, <2>4 DEF Rules
<1>5. PICK K : K = Loyal(l, connected[l])
  OBVIOUS
<1>6. AllWires(wire', K)
  BY <1>5, CrashKind DEF Reigns, Serves
<1>7. Histories(K)'
  <2>1. \A a \in Servers : historical_state'[a] = historical_state[a] \/ historical_state'[a] = <<>>
    BY <1>1 DEF TypeInv, TypeOK
  <2>2. Histories(K)
    BY <1>5 DEF Reigns, Serves
  <2> QED BY <2>1, <2>2, EmptyIn DEF Histories
<1>8. \A t \in Servers : tables'[t].riders \subseteq connected[l]
  <2>1. \A t \in Servers : tables'[t] = tables[t] \/ tables'[t] = NoData
    BY <1>1 DEF TypeInv, TypeOK
  <2>2. NoData.riders = {}
    BY DEF NoData
  <2> QED BY <2>1, <2>2 DEF Reigns, Serves
<1>9. Serves(l)'
  <2>1. K = Loyal(l, connected'[l])
    BY <1>3, <1>5
  <2>2. \A m \in due' : m.type = "FindRider" => m.at = l
    BY <1>1 DEF Reigns, Serves
  <2> QED BY <1>3, <1>6, <1>7, <1>8, <2>1, <2>2 DEF Serves, Histories
<1> QED BY <1>4, <1>9 DEF Reigns

(* Every step but the crash of the leader leaves the reign alone.          *)
LEMMA LeadStep ==
    ASSUME TypeInv, NEW l \in Servers, Reigns(l), [Next]_vars, "leader crash" \notin faults'
    PROVE  Reigns(l)'
<1>1. ASSUME NEW s \in Servers, ClientMessage(s) PROVE Reigns(l)'
  BY <1>1, ClientTurns, ClientTurnReigns, OffersReigns, NoPanic
<1>2. ASSUME NEW s \in Servers, PeerMessage(s) PROVE Reigns(l)'
  BY <1>2, ReceiveUpdateReigns, GotLeaderReigns, NotOvertaken, DisconnectedReigns
     DEF PeerMessage
<1>3. ASSUME NEW p \in Servers, ConnectServerPeer(p) \/ CreateServerPeer(p) PROVE Reigns(l)'
  <2>1. starting \in Servers
    BY <1>3 DEF ConnectServerPeer, CreateServerPeer, TypeInv, Linked
  <2>2. Register(starting, p) \/ Register(p, starting)
    BY <1>3 DEF ConnectServerPeer, CreateServerPeer
  <2> QED BY <2>1, <2>2, RegisterReigns
<1>4. CASE Join
  BY <1>3, <1>4, StartReigns, IsPeerConnectedReigns, SendLeaderReigns, InitLeaderReigns
     DEF Join
<1>5. CASE UNCHANGED vars
  <2>1. Rules(l)'
    BY <1>5 DEF Reigns, Rules, vars, serverVars
  <2>2. Serves(l)'
    BY <1>5 DEF Reigns, Serves, Histories, AllWires, vars
  <2> QED BY <2>1, <2>2 DEF Reigns
<1> QED BY <1>1, <1>2, <1>4, <1>5, CrashReigns, NotTakenOver DEF Next

(* No fault is forgotten.                                                  *)
LEMMA FaultsStay == TypeInv /\ [Next]_vars => faults \subseteq faults'
<1> SUFFICES ASSUME TypeInv, [Next]_vars PROVE faults \subseteq faults'
  OBVIOUS
<1>1. ASSUME NEW s \in Servers, ClientMessage(s) PROVE faults \subseteq faults'
  BY <1>1, ClientTurns DEF ClientTurn, Frame, Offers, Panics, bounds
<1>2. ASSUME NEW s \in Servers, PeerMessage(s) PROVE faults \subseteq faults'
  BY <1>2 DEF PeerMessage, ReceiveUpdate, GotLeaderFromPeer, Overtaken, PeerDisconnected,
              bounds
<1>3. CASE Join
  BY <1>3 DEF Join, Start, IsPeerConnected, ConnectServerPeer, CreateServerPeer, Register,
              SendLeader, InitLeader, bounds
<1>4. ASSUME NEW s \in Servers, Crash(s) \/ TakeOver(s) PROVE faults \subseteq faults'
  BY <1>4 DEF Crash, TakeOver
<1>5. CASE UNCHANGED vars
  BY <1>5 DEF vars, bounds
<1> QED BY <1>1, <1>2, <1>3, <1>4, <1>5 DEF Next

(* Every step keeps the invariant of the reign.                            *)
LEMMA LeadKept == TypeInv /\ LeadInv /\ [Next]_vars => LeadInv'
<1> SUFFICES ASSUME TypeInv, LeadInv, [Next]_vars, "leader crash" \notin faults'
             PROVE  \E l \in Servers : Reigns(l)'
  BY DEF LeadInv
<1>1. "leader crash" \notin faults
  BY FaultsStay
<1>2. PICK l \in Servers : Reigns(l)
  BY <1>1 DEF LeadInv
<1> QED BY <1>2, LeadStep

(* Until a leader is lost, the leader has the connection of every rider    *)
(* that it knows: closest_riders unwraps it.                               *)
THEOREM RidersConnected == Spec => []LeaderHasItsRiders
<1>1. TypeInv /\ LeadInv => LeaderHasItsRiders
  <2> SUFFICES ASSUME LeadInv, "leader crash" \notin faults, NEW s \in Servers, leader[s] = s
               PROVE  tables[s].riders \subseteq connected[s]
    BY DEF LeaderHasItsRiders
  <2>1. PICK l \in Servers : Reigns(l)
    BY DEF LeadInv
  <2>2. s = l
    BY <2>1, DataRingAssumption DEF Reigns, Rules
  <2> QED BY <2>1, <2>2 DEF Reigns, Serves
<1> QED BY <1>1, InitType, StepType, InitLeads, LeadKept, PTL DEF Spec

----------------------------------------------------------------------------
(* The rounds of the updates.                                              *)

(* Without a search for a rider that has found none no update is about the *)
(* queue.  What tells a server who leads is no update.                     *)
Unqueued == {m \in Line : m.type \notin {"Push", "Pop"}}
News     == {m \in Line : ~IsUpdate(m)}
Silent(w, l) == \A a \in Servers : w[a][l] \in Seq(News)

(* While no delivery has had to wait, no update comes back to l.           *)
Undisturbed(l) ==
    Histories(Unqueued) =>
        /\ \A s \in Servers : Queue(tables[s]) = <<>>
        /\ AllWires(wire, Unqueued) /\ Silent(wire, l)

(* A server that starts is the only other one, and it is l that it has to  *)
(* connect to: until it has, nothing has been sent to it.                  *)
Standing(l) ==
    /\ l \notin server_peers[l]
    /\ \A s \in Servers : ~Alive(s) => server_peers[s] = {} /\ historical_state[s] = <<>>
    /\ starting # None =>
          /\ \A s \in Servers : Alive(s) <=> s \in {l, starting}
          /\ server_peers[starting] \subseteq {l}
          /\ server_peers[starting] = {} => historical_state[starting] = <<>>
    /\ \A p \in Servers : link[p] # "none" =>
          p = l /\ (link[p] = "probed" => server_peers[starting] = {})

Rounds(l) == Standing(l) /\ Undisturbed(l)

RoundInv ==
    faults \subseteq {"join", "stray"} => \E l \in Servers : Reigns(l) /\ Rounds(l)

(* No order was ever queued: no history has such an update.                *)
LEMMA QueuedIs == TypeInv => (~Queued <=> Histories(Unqueued))
<1> SUFFICES ASSUME TypeInv PROVE ~Queued <=> Histories(Unqueued)
  OBVIOUS
<1>1. \A s \in Servers : historical_state[s] \in Seq(Update)
  BY DEF TypeInv, TypeOK
<1>2. ASSUME ~Queued, NEW s \in Servers PROVE historical_state[s] \in Seq(Unqueued)
  <2>1. PICK h : h = historical_state[s]
    OBVIOUS
  <2>2. h \in Seq(Update)
    BY <1>1, <2>1
  <2>3. \A i \in DOMAIN h : h[i] \in Unqueued
    BY <1>2, <2>1, <2>2 DEF Queued, Unqueued, Line
  <2> QED BY <2>1, <2>2, <2>3, AllOfKind
<1>3. ASSUME Histories(Unqueued), Queued PROVE FALSE
  <2>1. PICK s \in Servers : \E i \in DOMAIN historical_state[s] :
          historical_state[s][i].type \in {"Push", "Pop"}
    BY <1>3 DEF Queued
  <2>2. historical_state[s] \in Seq(Unqueued)
    BY <1>3 DEF Histories
  <2>3. \A i \in DOMAIN historical_state[s] : historical_state[s][i] \in Unqueued
    BY <2>2
  <2> QED BY <2>1, <2>3 DEF Unqueued
<1> QED BY <1>2, <1>3 DEF Histories

(* Of two sequences put together each is of the kind of both.              *)
LEMMA PartsOfKind ==
    ASSUME NEW T, NEW K, NEW p \in Seq(T), NEW q \in Seq(T), p \o q \in Seq(K)
    PROVE  p \in Seq(K) /\ q \in Seq(K)
<1>1. ASSUME NEW i \in DOMAIN p PROVE p[i] \in K
  <2>1. i \in 1 .. Len(p \o q) /\ (p \o q)[i] = p[i]
    OBVIOUS
  <2> QED BY <2>1
<1>2. ASSUME NEW i \in DOMAIN q PROVE q[i] \in K
  <2>1. /\ Len(p) + i \in 1 .. Len(p \o q)
        /\ (p \o q)[Len(p) + i] = q[i]
    OBVIOUS
  <2> QED BY <2>1
<1> QED BY <1>1, <1>2, AllOfKind

(* What has been sent is not forgotten.                                    *)
LEMMA HistoryStays ==
    ASSUME NEW K, NEW s \in Servers, NEW w \in Wires,
           historical_state \in [Servers -> Seq(Update)],
           server_peers' \in [Servers -> SUBSET Servers],
           NEW ring \in Seq(Update), NEW direct \in Seq(Update),
           Transmit(s, w, ring, direct), Histories(K)'
    PROVE  Histories(K) /\ ring \in Seq(K)
<1>1. \A p \in Servers : historical_state'[p] =
             IF p = s THEN historical_state[s] \o ring ELSE historical_state[p]
  BY Transmitted
<1>2. historical_state[s] \o ring \in Seq(K)
  BY <1>1 DEF Histories
<1>3. historical_state[s] \in Seq(K) /\ ring \in Seq(K)
  BY <1>2, PartsOfKind
<1> QED BY <1>1, <1>3 DEF Histories

(* Updates go no further than to the server before the leader.             *)
LEMMA SilentSends ==
    ASSUME NEW l \in Servers, NEW s \in Servers, NEW w \in Wires,
           historical_state \in [Servers -> Seq(Update)],
           server_peers' \in [Servers -> SUBSET Servers],
           NEW ring \in Seq(Update), NEW direct \in Seq(Update),
           Transmit(s, w, ring, direct), Silent(w, l),
           leader[s] \in {l, None}, NextOf(s)' # l \/ direct = <<>>
    PROVE  Silent(wire', l)
<1>1. \A p, t \in Servers : wire'[p][t] =
             IF p = s /\ t = NextOf(s)' /\ Alive(t)
             THEN w[p][t] \o Gone(s, ring, direct) ELSE w[p][t]
  BY Transmitted
<1>2. ASSUME NEW a \in Servers PROVE wire'[a][l] \in Seq(News)
  <2>1. w[a][l] \in Seq(News)
    BY DEF Silent
  <2>2. CASE a = s /\ l = NextOf(s)'
    <3>1. Gone(s, ring, direct) = <<>>
      BY <2>2 DEF Gone, GoesOn
    <3>2. w[a][l] \o <<>> = w[a][l]
      BY <2>1
    <3> QED BY <1>1, <2>1, <3>1, <3>2
  <2>3. CASE ~(a = s /\ l = NextOf(s)')
    BY <1>1, <2>1, <2>3
  <2> QED BY <2>2, <2>3
<1> QED BY <1>2 DEF Silent

(* A server that does not have l as a peer does not have it as its         *)
(* successor.                                                              *)
LEMMA NotNext ==
    ASSUME NEW l \in Servers, NEW s \in Servers,
           server_peers' \in [Servers -> SUBSET Servers], l \notin server_peers'[s]
    PROVE  NextOf(s)' # l
<1>1. PICK peers : peers = server_peers'[s]
  OBVIOUS
<1>2. NextOf(s)' = next_server_peer(s, peers)
  BY <1>1 DEF NextOf
<1> QED BY <1>1, <1>2, NextPeer, DataRingAssumption

(* A message of a client is the leader's to handle.                        *)
LEMMA ClientHere ==
    ASSUME TypeInv, NEW l \in Servers, Reigns(l), NEW s \in Servers, ClientMessage(s)
    PROVE  s = l
<1>1. connected[s] # {} \/ leader[s] = s => s = l
  BY DataRingAssumption DEF Reigns, Rules
<1>2. (\E m \in due : m.type = "FindRider" /\ m.at = s) => s = l
  BY DEF Reigns, Serves
<1>3. ASSUME NEW c \in Customers, RegisterCustomer(s, c) \/ FindRider(s, c) \/ PaymentExecuted(s, c)
      PROVE  s = l
  BY <1>1, <1>2, <1>3 DEF RegisterCustomer, Visits, FindRider, PaymentExecuted, Answers
<1>4. ASSUME NEW c \in Customers, NEW x \in Restaurants,
             OrderRequest(s, c, x) \/ OrderReady(s, x, c) \/ OrderCancelled(s, x, c)
      PROVE  s = l
  BY <1>1, <1>4 DEF OrderRequest, OrderReady, OrderCancelled, Answers
<1>5. ASSUME NEW c \in Customers, NEW r \in Riders,
             DeliveryOfferAccepted(s, c, r) \/ DeliveryDone(s, c, r)
      PROVE  s = l
  BY <1>1, <1>5 DEF DeliveryOfferAccepted, DeliveryDone
<1>6. ASSUME NEW r \in Riders, RegisterRider(s, r) \/ LocationUpdateForRider(s, r)
      PROVE  s = l
  BY <1>1, <1>6 DEF RegisterRider, Visits, LocationUpdateForRider
<1>7. ASSUME NEW x \in Restaurants, RegisterRestaurant(s, x) PROVE s = l
  BY <1>1, <1>7 DEF RegisterRestaurant, Visits
<1>8. CASE RegisterPaymentSystem(s)
  BY <1>1, <1>8 DEF RegisterPaymentSystem, Visits
<1> QED BY <1>3, <1>4, <1>5, <1>6, <1>7, <1>8 DEF ClientMessage

(* An initial state satisfies the invariant of the rounds.                 *)
LEMMA InitRounds == Init => RoundInv
<1> SUFFICES ASSUME NEW S, NEW l, NEW known, Begins(S, l, known)
             PROVE  l \in Servers /\ Reigns(l) /\ Rounds(l)
  BY InitBegins DEF RoundInv
<1>1. l \in Servers /\ Reigns(l)
  BY BeginsLed
<1>2. /\ S \subseteq Servers /\ l \in S
      /\ \A s \in Servers : /\ Alive(s) <=> s \in S
                            /\ server_peers[s] = IF s \in S THEN S \ {s} ELSE {}
                            /\ s \notin S => historical_state[s] = <<>>
                            /\ link[s] = "none" /\ Queue(tables[s]) = <<>>
      /\ starting = None
  BY DEF Begins, Alive, KnownTables, NoData, Queue
<1>3. Undisturbed(l)
  <2>1. \A s, t \in Servers : wire[s][t] = <<>>
    BY DEF Begins
  <2>2. AllWires(wire, Unqueued) /\ Silent(wire, l)
    BY <1>1, <2>1, EmptyIn DEF AllWires, Silent
  <2> QED BY <1>2, <2>2 DEF Undisturbed
<1> QED BY <1>1, <1>2, <1>3 DEF Rounds, Standing

(* A handler that queues no order and sends l no answer leaves the rounds  *)
(* alone.                                                                  *)
LEMMA UndisturbedSends ==
    ASSUME TypeInv, NEW l \in Servers, Reigns(l), Undisturbed(l), NEW s \in Servers,
           NEW w \in Wires, Histories(Unqueued) => AllWires(w, Unqueued) /\ Silent(w, l),
           server_peers' \in [Servers -> SUBSET Servers],
           NEW e \in Tables, NEW ring \in Seq(Update), NEW direct \in Seq(Update),
           tables' = [tables EXCEPT ![s] = e],
           Transmit(s, w, ring, direct),
           Histories(Unqueued) /\ ring \in Seq(Unqueued) =>
              /\ Queue(e) = <<>> /\ direct \in Seq(Unqueued)
              /\ NextOf(s)' # l \/ direct = <<>>
    PROVE  Undisturbed(l)'
<1> SUFFICES ASSUME Histories(Unqueued)'
             PROVE  /\ \A t \in Servers : Queue(tables'[t]) = <<>>
                    /\ AllWires(wire', Unqueued) /\ Silent(wire', l)
  BY DEF Undisturbed, Queue
<1>1. historical_state \in [Servers -> Seq(Update)]
  BY DEF TypeInv, TypeOK
<1>2. Histories(Unqueued) /\ ring \in Seq(Unqueued)
  BY <1>1, HistoryStays
<1>3. /\ Queue(e) = <<>> /\ direct \in Seq(Unqueued)
      /\ NextOf(s)' # l \/ direct = <<>>
      /\ AllWires(w, Unqueued) /\ Silent(w, l)
  BY <1>2
<1>4. AllWires(wire', Unqueued)
  BY <1>1, <1>2, <1>3, SendsKind
<1>5. leader[s] \in {l, None}
  BY DEF Reigns, Rules
<1>6. Silent(wire', l)
  BY <1>1, <1>3, <1>5, SilentSends
<1>7. ASSUME NEW t \in Servers PROVE Queue(tables'[t]) = <<>>
  <2>1. tables'[t] = IF t = s THEN e ELSE tables[t]
    BY DEF TypeInv, TypeOK
  <2>2. Queue(tables[t]) = <<>>
    BY <1>2 DEF Undisturbed
  <2> QED BY <1>3, <2>1, <2>2
<1> QED BY <1>4, <1>6, <1>7

(* So does a handler that runs process_pending_requests on an empty queue. *)
LEMMA PassesUndisturbed ==
    ASSUME TypeInv, NEW l \in Servers, Reigns(l), Undisturbed(l), NEW s \in Servers,
           NEW w \in Wires, Histories(Unqueued) => AllWires(w, Unqueued) /\ Silent(w, l),
           server_peers' \in [Servers -> SUBSET Servers],
           NEW d \in Tables, NEW ring \in Seq(Update), Passes(s, w, d, ring),
           Histories(Unqueued) /\ ring \in Seq(Unqueued) => Queue(d) = <<>>
    PROVE  Undisturbed(l)'
<1>1. PICK e \in Tables, direct \in Seq(Update) :
        /\ tables' = [tables EXCEPT ![s] = e]
        /\ Transmit(s, w, ring, direct)
        /\ Queue(d) = <<>> => e = d /\ direct = <<>>
  BY DEF Passes
<1>2. Histories(Unqueued) /\ ring \in Seq(Unqueued) =>
              /\ Queue(e) = <<>> /\ direct \in Seq(Unqueued)
              /\ NextOf(s)' # l \/ direct = <<>>
  BY <1>1, EmptyIn
<1> QED BY <1>1, <1>2, UndisturbedSends

(* The histories after a handler of s.                                     *)
LEMMA HistoryOfOthers ==
    ASSUME TypeInv, NEW s \in Servers, NEW w \in Wires,
           server_peers' \in [Servers -> SUBSET Servers],
           NEW ring \in Seq(Update), NEW direct \in Seq(Update),
           Transmit(s, w, ring, direct)
    PROVE  /\ \A t \in Servers \ {s} : historical_state'[t] = historical_state[t]
           /\ ring = <<>> => \A t \in Servers : historical_state'[t] = historical_state[t]
<1>1. historical_state \in [Servers -> Seq(Update)]
  BY DEF TypeInv, TypeOK
<1>2. /\ historical_state' \in [Servers -> Seq(Update)]
      /\ \A p \in Servers : historical_state'[p] =
             IF p = s THEN historical_state[s] \o ring ELSE historical_state[p]
  BY <1>1, Transmitted
<1>3. historical_state[s] \o <<>> = historical_state[s]
  BY <1>1
<1> QED BY <1>1, <1>2, <1>3

(* What stands of the servers still stands when only the history of s      *)
(* changes.                                                                *)
LEMMA StandingKept ==
    ASSUME TypeInv, NEW l \in Servers, Standing(l), NEW s \in Servers, Managing(s),
           UNCHANGED <<state, server_peers, starting, link>>,
           \A t \in Servers \ {s} : historical_state'[t] = historical_state[t],
           s = starting => server_peers[s] # {}
    PROVE  Standing(l)'
<1>1. ASSUME NEW t \in Servers, ~Alive(t)
      PROVE  server_peers[t] = {} /\ historical_state'[t] = <<>>
  BY <1>1 DEF Standing, Alive, Managing
<1>2. ASSUME starting # None
      PROVE  /\ \A t \in Servers : Alive(t) <=> t \in {l, starting}
             /\ server_peers[starting] \subseteq {l}
             /\ server_peers[starting] = {} => historical_state'[starting] = <<>>
  <2>1. starting \in Servers
    BY <1>2 DEF TypeInv, TypeOK
  <2> QED BY <1>2, <2>1 DEF Standing
<1> QED BY <1>1, <1>2 DEF Standing, Alive

(* The turn of a client of the leader keeps the rounds.                    *)
LEMMA ClientTurnRounds ==
    ASSUME TypeInv, NEW l \in Servers, Reigns(l), Rounds(l), ClientTurn(l)
    PROVE  Rounds(l)'
<1>1. PICK d \in Tables, ring \in Seq(Update), direct \in Seq(Update) :
         Turn(l, d, ring, direct)
  BY DEF ClientTurn
<1>2. /\ \/ Queue(tables[l]) # <<>> \/ Pushes(ring)
         \/ Queue(d) = <<>> /\ \A i \in DOMAIN direct : direct[i].type \notin {"Push", "Pop"}
      /\ tables' = [tables EXCEPT ![l] = d]
      /\ Transmit(l, wire, ring, direct)
  BY <1>1 DEF Turn
<1>3. Managing(l) /\ UNCHANGED <<state, server_peers, starting, link>>
  BY DEF ClientTurn, Frame, serverVars
<1>4. server_peers' \in [Servers -> SUBSET Servers] /\ wire \in Wires
  BY <1>3 DEF TypeInv, TypeOK, Wires
<1>5. NextOf(l)' # l
  BY <1>3, <1>4, NotNext DEF Rounds, Standing
<1>6. ASSUME Histories(Unqueued), ring \in Seq(Unqueued)
      PROVE  Queue(d) = <<>> /\ direct \in Seq(Unqueued)
  <2>1. Queue(tables[l]) = <<>>
    BY <1>6 DEF Rounds, Undisturbed
  <2>2. ~Pushes(ring)
    <3>1. \A i \in DOMAIN ring : ring[i] \in Unqueued
      BY <1>6
    <3> QED BY <3>1 DEF Pushes, Unqueued
  <2>3. \A i \in DOMAIN direct : direct[i] \in Unqueued
    BY <1>2, <2>1, <2>2 DEF Unqueued, Line
  <2> QED BY <1>2, <2>1, <2>2, <2>3, AllOfKind
<1>7. Undisturbed(l)'
  BY <1>2, <1>4, <1>5, <1>6, UndisturbedSends DEF Rounds, Undisturbed
<1>8. starting # l
  BY DEF Reigns, Rules
<1>9. Standing(l)'
  BY <1>2, <1>3, <1>4, <1>8, HistoryOfOthers, StandingKept DEF Rounds
<1> QED BY <1>7, <1>9 DEF Rounds

(* So does an answer to a client.                                          *)
LEMMA OffersRounds ==
    ASSUME NEW l \in Servers, Rounds(l), NEW s \in Servers, Offers(s)
    PROVE  Rounds(l)'
<1>1. Standing(l)'
  BY DEF Rounds, Standing, Alive, Offers, serverVars
<1>2. Undisturbed(l)'
  BY DEF Rounds, Undisturbed, Histories, AllWires, Silent, Queue, Offers
<1> QED BY <1>1, <1>2 DEF Rounds

(* So does the removal of the first line of a wire.                        *)
LEMMA TakenRounds ==
    ASSUME TypeInv, NEW l \in Servers, Rounds(l), NEW s \in Servers, NEW p \in Servers,
           Arrives(s, p), Histories(Unqueued)
    PROVE  /\ AllWires(Taken(s, p), Unqueued) /\ Silent(Taken(s, p), l)
<1>1. AllWires(wire, Unqueued) /\ Silent(wire, l)
  BY DEF Rounds, Undisturbed
<1>2. wire[p][s] # <<>> /\ ButFor(Taken(s, p), wire, p, s, Tail(wire[p][s]))
  BY TakenIs
<1>3. wire[p][s] \in Seq(Unqueued)
  BY <1>1 DEF AllWires
<1>4. Tail(wire[p][s]) \in Seq(Unqueued)
  BY <1>2, <1>3
<1>5. AllWires(Taken(s, p), Unqueued)
  BY <1>1, <1>2, <1>4, ButForKind
<1>6. ASSUME NEW a \in Servers PROVE Taken(s, p)[a][l] \in Seq(News)
  <2>1. wire[a][l] \in Seq(News)
    BY <1>1 DEF Silent
  <2>2. CASE a = p /\ s = l
    <3>1. Taken(s, p)[a][l] = Tail(wire[p][s])
      BY <1>2, <2>2 DEF ButFor
    <3> QED BY <1>2, <2>1, <2>2, <3>1
  <2>3. CASE ~(a = p /\ s = l)
    BY <1>2, <2>1, <2>3 DEF ButFor
  <2> QED BY <2>2, <2>3
<1> QED BY <1>5, <1>6 DEF Silent

(* The arrival of an update keeps the rounds.                              *)
LEMMA ReceiveUpdateRounds ==
    ASSUME TypeInv, NEW l \in Servers, Reigns(l), Rounds(l),
           NEW s \in Servers, NEW p \in Servers, ReceiveUpdate(s, p)
    PROVE  Rounds(l)'
<1>1. PICK m : m = Head(wire[p][s])
  OBVIOUS
<1>2. /\ Arrives(s, p) /\ m \in Update
      /\ Updated(tables[s], m) \in Tables
      /\ Passes(s, Taken(s, p), Updated(tables[s], m), <<m>>)
      /\ UNCHANGED <<serverVars, connected>>
  BY <1>1, ReceiveUpdatePasses
<1>3. Taken(s, p) \in Wires /\ <<m>> \in Seq(Update)
  BY <1>2, TakenIs
<1>4. /\ UNCHANGED <<state, server_peers, starting, link>>
      /\ server_peers' \in [Servers -> SUBSET Servers]
  BY <1>2 DEF serverVars, TypeInv, TypeOK
<1>5. ASSUME Histories(Unqueued), <<m>> \in Seq(Unqueued)
      PROVE  Queue(Updated(tables[s], m)) = <<>>
  <2>1. <<m>>[1] \in Unqueued
    BY <1>5
  <2>2. m.type \notin {"Push", "Pop"}
    BY <2>1 DEF Unqueued
  <2>3. tables[s] \in Tables /\ Queue(tables[s]) = <<>>
    BY <1>5 DEF TypeInv, TypeOK, Rounds, Undisturbed
  <2> QED BY <1>2, <2>2, <2>3, UpdatedFields DEF Queue
<1>6. Undisturbed(l)'
  BY <1>2, <1>3, <1>4, <1>5, TakenRounds, PassesUndisturbed DEF Rounds
<1>7. \A t \in Servers \ {s} : historical_state'[t] = historical_state[t]
  BY <1>2, <1>3, <1>4, HistoryOfOthers DEF Passes
<1>8. Managing(s) /\ server_peers[s] # {}
  BY <1>2 DEF Arrives
<1>9. Standing(l)'
  BY <1>4, <1>7, <1>8, StandingKept DEF Rounds
<1> QED BY <1>6, <1>9 DEF Rounds

(* So does the check that a peer is connected.                             *)
LEMMA IsPeerConnectedRounds ==
    ASSUME TypeInv, NEW l \in Servers, Reigns(l), Rounds(l), NEW p \in Servers,
           IsPeerConnected(p)
    PROVE  Rounds(l)'
<1>1. /\ Passes(p, wire, tables[p], <<>>) /\ tables[p] \in Tables /\ wire \in Wires
      /\ <<>> \in Seq(Update)
  BY IsPeerConnectedPasses
<1>2. /\ UNCHANGED <<state, server_peers, starting>>
      /\ starting # None /\ starting # p /\ Managing(p)
      /\ p \notin server_peers[starting]
      /\ link' = [link EXCEPT ![p] = "probed"]
  BY DEF IsPeerConnected
<1>3. server_peers' \in [Servers -> SUBSET Servers]
  BY <1>2 DEF TypeInv, TypeOK
<1>4. p = l /\ server_peers[starting] = {}
  BY <1>2 DEF Rounds, Standing, Alive, Managing
<1>5. \A t \in Servers : historical_state'[t] = historical_state[t]
  BY <1>1, <1>3, HistoryOfOthers DEF Passes
<1>6. Standing(l)'
  <2>1. starting \in Servers
    BY <1>2 DEF TypeInv, TypeOK
  <2>2. \A q \in Servers : link'[q] = IF q = p THEN "probed" ELSE link[q]
    BY <1>2 DEF TypeInv, TypeOK
  <2> QED BY <1>2, <1>4, <1>5, <2>1, <2>2 DEF Rounds, Standing, Alive
<1>7. Histories(Unqueued) =>
         AllWires(wire, Unqueued) /\ Silent(wire, l) /\ Queue(tables[p]) = <<>>
  BY DEF Rounds, Undisturbed
<1>8. Undisturbed(l)'
  BY <1>1, <1>3, <1>7, PassesUndisturbed DEF Rounds
<1> QED BY <1>6, <1>8 DEF Rounds

(* A registration that sends l no history leaves the rounds alone.         *)
LEMMA RegisterUndisturbed ==
    ASSUME TypeInv, NEW l \in Servers, Reigns(l), Rounds(l),
           NEW s \in Servers, NEW p \in Servers, Register(s, p),
           p # l \/ historical_state[s] = <<>>
    PROVE  Undisturbed(l)' /\ \A t \in Servers : historical_state'[t] = historical_state[t]
<1>1. /\ Informed(s, p) \in Wires /\ tables[s] \in Tables
      /\ ButFor(Informed(s, p), wire, s, p, wire[s][p] \o historical_state[s])
      /\ Passes(s, Informed(s, p), tables[s], <<>>)
      /\ server_peers' \in [Servers -> SUBSET Servers]
      /\ <<>> \in Seq(Update)
  BY RegisterPasses, EmptyIn
<1>2. ASSUME Histories(Unqueued)
      PROVE  /\ AllWires(Informed(s, p), Unqueued) /\ Silent(Informed(s, p), l)
             /\ Queue(tables[s]) = <<>>
  <2>1. /\ AllWires(wire, Unqueued) /\ Silent(wire, l)
        /\ Queue(tables[s]) = <<>> /\ historical_state[s] \in Seq(Unqueued)
    BY <1>2 DEF Rounds, Undisturbed, Histories
  <2>2. wire[s][p] \in Seq(Unqueued)
    BY <2>1 DEF AllWires
  <2>3. PICK q : q = wire[s][p] \o historical_state[s]
    OBVIOUS
  <2>4. q \in Seq(Unqueued)
    BY <2>1, <2>2, <2>3
  <2>5. ButFor(Informed(s, p), wire, s, p, q)
    BY <1>1, <2>3
  <2>6. AllWires(Informed(s, p), Unqueued)
    BY <2>1, <2>4, <2>5, ButForKind
  <2>7. ASSUME NEW a \in Servers PROVE Informed(s, p)[a][l] \in Seq(News)
    <3>1. wire[a][l] \in Seq(News)
      BY <2>1 DEF Silent
    <3>2. wire[a][l] \o <<>> = wire[a][l]
      BY <3>1
    <3>3. Informed(s, p)[a][l] = wire[a][l]
      BY <2>3, <2>5, <3>2 DEF ButFor
    <3> QED BY <3>1, <3>3
  <2> QED BY <2>1, <2>6, <2>7 DEF Silent
<1>3. Undisturbed(l)'
  BY <1>1, <1>2, PassesUndisturbed DEF Rounds
<1>4. \A t \in Servers : historical_state'[t] = historical_state[t]
  BY <1>1, HistoryOfOthers DEF Passes
<1> QED BY <1>3, <1>4

(* The connection of the server that starts keeps the rounds.              *)
LEMMA ConnectServerPeerRounds ==
    ASSUME TypeInv, NEW l \in Servers, Reigns(l), Rounds(l), NEW p \in Servers,
           ConnectServerPeer(p)
    PROVE  Rounds(l)'
<1>1. /\ link[p] = "probed" /\ link' = [link EXCEPT ![p] = "connected"]
      /\ Register(starting, p)
  BY DEF ConnectServerPeer
<1>2. starting \in Servers /\ starting # None
  BY <1>1, DataRingAssumption DEF TypeInv, Linked
<1>3. /\ p = l /\ server_peers[starting] = {} /\ historical_state[starting] = <<>>
      /\ starting # l
  BY <1>1, <1>2 DEF Rounds, Standing, Reigns, Rules
<1>4. /\ Undisturbed(l)'
      /\ \A t \in Servers : historical_state'[t] = historical_state[t]
  BY <1>1, <1>2, <1>3, RegisterUndisturbed
<1>5. /\ UNCHANGED <<state, starting>>
      /\ \A t \in Servers : server_peers'[t] = IF t = starting THEN {l} ELSE server_peers[t]
  <2>1. Register(starting, l) /\ server_peers[starting] = {}
    BY <1>1, <1>3
  <2>2. /\ UNCHANGED <<state, starting>>
        /\ server_peers'[starting] = server_peers[starting] \cup {l}
        /\ \A t \in Servers \ {starting} : server_peers'[t] = server_peers[t]
    BY <1>2, <2>1, RegisterPasses
  <2> QED BY <2>1, <2>2
<1>6. \A q \in Servers : link'[q] = IF q = p THEN "connected" ELSE link[q]
  BY <1>1 DEF TypeInv, TypeOK
<1>7. Alive(starting)
  BY <1>2 DEF Rounds, Standing
<1>8. Standing(l)'
  BY <1>2, <1>3, <1>4, <1>5, <1>6, <1>7 DEF Rounds, Standing, Alive
<1> QED BY <1>4, <1>8 DEF Rounds

(* So does the other end of that connection.                               *)
LEMMA CreateServerPeerRounds ==
    ASSUME TypeInv, NEW l \in Servers, Reigns(l), Rounds(l), NEW p \in Servers,
           CreateServerPeer(p)
    PROVE  Rounds(l)'
<1>1. /\ link[p] = "connected" /\ link' = [link EXCEPT ![p] = "asked"]
      /\ Register(p, starting)
  BY DEF CreateServerPeer
<1>2. starting \in Servers /\ starting # None
  BY <1>1, DataRingAssumption DEF TypeInv, Linked
<1>3. p = l /\ starting # l
  BY <1>1 DEF Rounds, Standing, Reigns, Rules
<1>4. /\ Undisturbed(l)'
      /\ \A t \in Servers : historical_state'[t] = historical_state[t]
  BY <1>1, <1>2, <1>3, RegisterUndisturbed
<1>5. /\ UNCHANGED <<state, starting>>
      /\ server_peers'[l] = server_peers[l] \cup {starting}
      /\ \A t \in Servers \ {l} : server_peers'[t] = server_peers[t]
  BY <1>1, <1>2, <1>3, RegisterPasses
<1>6. \A q \in Servers : link'[q] = IF q = p THEN "asked" ELSE link[q]
  BY <1>1 DEF TypeInv, TypeOK
<1>7. Alive(l)
  BY DEF Reigns, Rules, Alive
<1>8. Standing(l)'
  BY <1>2, <1>3, <1>4, <1>5, <1>6, <1>7 DEF Rounds, Standing, Alive
<1> QED BY <1>4, <1>8 DEF Rounds

(* So does the message that names the leader.                              *)
LEMMA GotLeaderRounds ==
    ASSUME TypeInv, NEW l \in Servers, Rounds(l), NEW s \in Servers, NEW p \in Servers,
           GotLeaderFromPeer(s, p)
    PROVE  Rounds(l)'
<1>1. /\ Arrives(s, p) /\ wire' = Taken(s, p)
      /\ UNCHANGED <<state, server_peers, starting, link, historical_state, tables>>
  BY DEF GotLeaderFromPeer
<1>2. Standing(l)'
  BY <1>1 DEF Rounds, Standing, Alive
<1>3. Undisturbed(l)'
  BY <1>1, TakenRounds DEF Rounds, Undisturbed, Histories
<1> QED BY <1>2, <1>3 DEF Rounds

(* No connection ends in the runs that the rounds are about.               *)
LEMMA DisconnectedRounds ==
    ASSUME TypeInv, NEW l \in Servers, Reigns(l), Rounds(l),
           NEW s \in Servers, NEW p \in Servers, PeerDisconnected(s, p)
    PROVE  Rounds(l)'
<1>1. /\ UNCHANGED <<state, starting, link, tables, historical_state, wire>>
      /\ \A t \in Servers : server_peers'[t] = IF t = s THEN server_peers[t] \ {p}
                                               ELSE server_peers[t]
      /\ ~Alive(p) /\ p \in server_peers[s]
  BY DEF PeerDisconnected, TypeInv, TypeOK
<1>2. s # starting
  BY <1>1, DataRingAssumption DEF Rounds, Standing, Reigns, Rules, Alive
<1>3. Standing(l)'
  <2>1. starting # None => starting \in Servers
    BY DEF TypeInv, TypeOK
  <2>2. \A q \in Servers : link[q] # "none" => starting \in Servers
    BY DEF TypeInv, Linked
  <2> QED BY <1>1, <1>2, <2>1, <2>2 DEF Rounds, Standing, Alive
<1>4. Undisturbed(l)'
  BY <1>1 DEF Rounds, Undisturbed, Histories
<1> QED BY <1>3, <1>4 DEF Rounds

(* The first start of a server keeps the rounds.                           *)
LEMMA StartRounds ==
    ASSUME TypeInv, NEW l \in Servers, Reigns(l), Rounds(l), NEW j \in Servers, Start(j),
           "second join" \notin faults'
    PROVE  Rounds(l)'
<1>1. /\ UNCHANGED <<server_peers, link, tables, historical_state>>
      /\ starting = None /\ starting' = j
      /\ state[j] = "down" /\ state' = [state EXCEPT ![j] = "up"]
      /\ wire' = [wire EXCEPT ![j] = [t \in Servers |-> <<>>]]
      /\ ~(Cardinality({s \in Servers : Alive(s)}) > 1)
  BY DEF Start
<1>2. \A s \in Servers : Alive(s) => s = l
  <2>1. PICK S : S = {s \in Servers : Alive(s)}
    OBVIOUS
  <2>2. l \in S
    BY <2>1 DEF Reigns, Rules, Alive
  <2>3. S \subseteq Servers /\ IsFiniteSet(Servers)
    BY <2>1, DataRingAssumption
  <2>4. IsFiniteSet(S)
    BY <2>3, Fewer
  <2>5. S = {l}
    BY <1>1, <2>1, <2>2, <2>4, OnlyOne
  <2> QED BY <2>1, <2>5
<1>3. \A s \in Servers : Alive(s)' <=> s \in {l, j}
  <2>1. state[l] = "up"
    BY DEF Reigns, Rules
  <2>2. \A s \in Servers : state'[s] = IF s = j THEN "up" ELSE state[s]
    BY <1>1 DEF TypeInv, TypeOK
  <2> QED BY <1>2, <2>1, <2>2 DEF Alive
<1>4. server_peers[j] = {} /\ historical_state[j] = <<>>
  BY <1>1 DEF Rounds, Standing, Alive
<1>5. \A q \in Servers : link[q] = "none"
  BY <1>1, DataRingAssumption DEF TypeInv, TypeOK, Linked
<1>6. Standing(l)'
  <2>1. ASSUME NEW s \in Servers, ~Alive(s)'
        PROVE  server_peers'[s] = {} /\ historical_state'[s] = <<>>
    BY <1>1, <1>2, <1>3, <2>1 DEF Rounds, Standing
  <2>2. /\ \A s \in Servers : Alive(s)' <=> s \in {l, starting'}
        /\ server_peers'[starting'] = {} /\ historical_state'[starting'] = <<>>
    BY <1>1, <1>3, <1>4
  <2>3. l \notin server_peers'[l] /\ \A q \in Servers : link'[q] = "none"
    BY <1>1, <1>5 DEF Rounds, Standing
  <2> QED BY <2>1, <2>2, <2>3 DEF Standing
<1>7. Undisturbed(l)'
  <2> SUFFICES ASSUME Histories(Unqueued)
               PROVE  AllWires(wire', Unqueued) /\ Silent(wire', l)
    BY <1>1 DEF Rounds, Undisturbed, Histories
  <2>1. \A s, t \in Servers : wire'[s][t] = wire[s][t] \/ wire'[s][t] = <<>>
    BY <1>1 DEF TypeInv, TypeOK
  <2>2. AllWires(wire, Unqueued) /\ Silent(wire, l)
    BY DEF Rounds, Undisturbed
  <2> QED BY <2>1, <2>2, EmptyIn DEF AllWires, Silent
<1> QED BY <1>6, <1>7 DEF Rounds

(* So does the answer about the leader.                                    *)
LEMMA SendLeaderRounds ==
    ASSUME TypeInv, NEW l \in Servers, Reigns(l), Rounds(l), NEW p \in Servers,
           SendLeader(p)
    PROVE  Rounds(l)'
<1>1. /\ UNCHANGED <<state, server_peers, starting, tables, historical_state>>
      /\ link' = [link EXCEPT ![p] = "none"] /\ link[p] = "asked"
  BY DEF SendLeader
<1>2. Standing(l)'
  <2>1. \A q \in Servers : link'[q] = IF q = p THEN "none" ELSE link[q]
    BY <1>1 DEF TypeInv, TypeOK
  <2> QED BY <1>1, <2>1 DEF Rounds, Standing, Alive
<1>3. p = l /\ starting \in Servers \ {l}
  BY <1>1, LeaderSent DEF Rounds, Standing, Reigns, Rules
<1>4. /\ [type |-> "LeaderData", leader |-> leader[p]] \in Line
      /\ ButFor(wire', wire, p, starting, LeaderTold(p))
  BY <1>3, LeaderSent, DataRingAssumption DEF Reigns, Rules
<1>5. Undisturbed(l)'
  <2> SUFFICES ASSUME Histories(Unqueued)
               PROVE  AllWires(wire', Unqueued) /\ Silent(wire', l)
    BY <1>1 DEF Rounds, Undisturbed, Histories
  <2>1. AllWires(wire, Unqueued) /\ Silent(wire, l)
    BY DEF Rounds, Undisturbed
  <2>2. [type |-> "LeaderData", leader |-> leader[p]] \in Unqueued
    BY <1>4 DEF Unqueued
  <2>3. wire[p][starting] \in Seq(Unqueued)
    BY <1>3, <2>1 DEF AllWires
  <2>4. LeaderTold(p) \in Seq(Unqueued)
    BY <2>2, <2>3 DEF LeaderTold
  <2>5. AllWires(wire', Unqueued)
    BY <1>3, <1>4, <2>1, <2>4, ButForKind
  <2>6. Silent(wire', l)
    BY <1>3, <1>4, <2>1 DEF Silent, ButFor
  <2> QED BY <2>5, <2>6
<1> QED BY <1>2, <1>5 DEF Rounds

(* So does the end of a start.                                             *)
LEMMA InitLeaderRounds ==
    ASSUME TypeInv, NEW l \in Servers, Rounds(l), InitLeader
    PROVE  Rounds(l)'
<1>1. /\ UNCHANGED <<state, server_peers, link, tables, historical_state, wire>>
      /\ starting # None /\ starting' = None
      /\ \A p \in Servers \ {starting} : link[p] = "none"
  BY DEF InitLeader
<1>2. \A p \in Servers : link[p] = "none"
  BY <1>1 DEF TypeInv, Linked
<1>3. Standing(l)'
  BY <1>1, <1>2 DEF Rounds, Standing, Alive
<1>4. Undisturbed(l)'
  BY <1>1 DEF Rounds, Undisturbed, Histories
<1> QED BY <1>3, <1>4 DEF Rounds

(* Every step of a run without a crash or a second start keeps the rounds. *)
LEMMA RoundStep ==
    ASSUME TypeInv, NEW l \in Servers, Reigns(l), Rounds(l), [Next]_vars,
           faults' \subseteq {"join", "stray"}
    PROVE  Rounds(l)'
<1>1. ASSUME NEW s \in Servers, ClientMessage(s) PROVE Rounds(l)'
  <2>1. s = l
    BY <1>1, ClientHere
  <2> QED BY <1>1, <2>1, ClientTurns, ClientTurnRounds, OffersRounds, NoPanic
<1>2. ASSUME NEW s \in Servers, PeerMessage(s) PROVE Rounds(l)'
  BY <1>2, ReceiveUpdateRounds, GotLeaderRounds, NotOvertaken, DisconnectedRounds
     DEF PeerMessage
<1>3. CASE Join
  <2>1. "second join" \notin faults'
    OBVIOUS
  <2> QED BY <1>3, <2>1, StartRounds, IsPeerConnectedRounds, ConnectServerPeerRounds,
             CreateServerPeerRounds, SendLeaderRounds, InitLeaderRounds DEF Join
<1>4. ASSUME NEW s \in Servers, Crash(s) PROVE FALSE
  BY <1>4 DEF Crash
<1>5. CASE UNCHANGED vars
  <2>1. Standing(l)'
    BY <1>5 DEF Rounds, Standing, Alive, vars, serverVars
  <2>2. Undisturbed(l)'
    BY <1>5 DEF Rounds, Undisturbed, Histories, AllWires, Silent, Queue, vars
  <2> QED BY <2>1, <2>2 DEF Rounds
<1> QED BY <1>1, <1>2, <1>3, <1>4, <1>5, NotTakenOver DEF Next

(* Every step keeps the invariant of the rounds.                           *)
LEMMA RoundKept == TypeInv /\ RoundInv /\ [Next]_vars => RoundInv'
<1> SUFFICES ASSUME TypeInv, RoundInv, [Next]_vars, faults' \subseteq {"join", "stray"}
             PROVE  \E l \in Servers : Reigns(l)' /\ Rounds(l)'
  BY DEF RoundInv
<1>1. faults \subseteq {"join", "stray"} /\ "leader crash" \notin faults'
  BY FaultsStay
<1>2. PICK l \in Servers : Reigns(l) /\ Rounds(l)
  BY <1>1 DEF RoundInv
<1> QED BY <1>1, <1>2, LeadStep, RoundStep

(* What the leader has written does not come back to it, as long as no     *)
(* server is lost, none joins two others, and no delivery has had to wait  *)
(* for a rider: the round of an update ends at the server before it.       *)
THEOREM NoneComesBack == Spec => []RoundsEnd
<1>1. TypeInv /\ RoundInv => RoundsEnd
  <2> SUFFICES ASSUME TypeInv, RoundInv, faults \subseteq {"join", "stray"}, ~Queued,
                      NEW s \in Servers, NEW k \in Servers, leader[k] = k,
                      NEW i \in DOMAIN wire[s][k]
               PROVE  ~IsUpdate(wire[s][k][i])
    BY DEF RoundsEnd
  <2>1. PICK l \in Servers : Reigns(l) /\ Rounds(l)
    BY DEF RoundInv
  <2>2. k = l
    BY <2>1, DataRingAssumption DEF Reigns, Rules
  <2>3. wire[s][k] \in Seq(News)
    BY <2>1, <2>2, QueuedIs DEF Rounds, Undisturbed, Silent
  <2>4. wire[s][k][i] \in News
    BY <2>3
  <2> QED BY <2>4 DEF News
<1> QED BY <1>1, InitType, StepType, InitRounds, RoundKept, PTL DEF Spec

----------------------------------------------------------------------------
(* The replicas follow the leader.                                         *)

CalmLines == {m \in Line : Calm(m)}

(* All the servers know each other, and the leader; or there are two, one  *)
(* of which may have just started.                                         *)
Whole(l) ==
    \/ \A s \in Servers : Alive(s) =>
          /\ leader[s] = l
          /\ \A t \in Servers : t \in server_peers[s] <=> Alive(t) /\ t # s
    \/ \E j \in Servers \ {l} : \A s \in Servers : Alive(s) <=> s \in {l, j}

Peered == \A s, t \in Servers : t \in server_peers[s] => Alive(t) /\ t # s

(* A server that l has not sent its history to has nothing.                *)
Fresh(l) ==
    /\ \A s \in Servers : ~Alive(s) => tables[s] = NoData
    /\ starting # None /\ starting \notin server_peers[l] => tables[starting] = NoData
    /\ link[l] \in {"probed", "connected"} => starting \notin server_peers[l]

(* Only to the next server there are updates on the way.                   *)
Passing == \A s, t \in Servers : t # NextOf(s) => wire[s][t] \in Seq(News)

(* The next server will have the tables of p, once it has what p has sent. *)
Agrees(p, l) ==
    NextOf(p) \notin {None, l} =>
        Alike(Made(tables[NextOf(p)], wire[p][NextOf(p)]), tables[p])

Heeds(w, l, K) == \A a \in Servers : w[a][l] \in Seq(K)

Follow(l) ==
    /\ Whole(l) /\ Peered /\ Fresh(l) /\ Passing
    /\ Heeds(wire, l, CalmLines)
    /\ Priced(tables[l], connected[l])
    /\ Alike(Made(NoData, historical_state[l]), tables[l])
    /\ \A p \in Servers : Agrees(p, l)

FollowInv ==
    faults \subseteq {"join"} =>
        \E l \in Servers : Reigns(l) /\ Rounds(l) /\ Follow(l)

(* The next server is another one, a peer that is alive.                   *)
LEMMA NextFacts ==
    ASSUME TypeInv, Peered, NEW s \in Servers
    PROVE  /\ NextOf(s) \in Servers \cup {None}
           /\ NextOf(s) # None => /\ NextOf(s) \in server_peers[s] /\ NextOf(s) # s
                                  /\ Alive(NextOf(s))
           /\ server_peers[s] = {} => NextOf(s) = None
<1>1. PICK peers : peers = server_peers[s]
  OBVIOUS
<1>2. peers \subseteq Servers /\ NextOf(s) = next_server_peer(s, peers)
  BY <1>1 DEF NextOf, TypeInv, TypeOK
<1>3. /\ NextOf(s) \in Servers \cup {None}
      /\ peers = {} => NextOf(s) = None
      /\ peers # {} => NextOf(s) \in peers
  BY <1>2, NextPeer
<1> QED BY <1>1, <1>3 DEF Peered

(* Whoever has a next server that is not l is led by l.                    *)
LEMMA NextLed ==
    ASSUME TypeInv, NEW l \in Servers, Reigns(l), Standing(l), Whole(l), Peered,
           NEW s \in Servers, NextOf(s) \notin {None, l}
    PROVE  Alive(s) /\ leader[s] = l
<1>1. NextOf(s) \in server_peers[s] /\ NextOf(s) # s /\ Alive(NextOf(s)) /\ NextOf(s) \in Servers
  BY NextFacts
<1>2. Alive(s)
  BY <1>1 DEF Standing
<1>3. CASE \E j \in Servers \ {l} : \A t \in Servers : Alive(t) <=> t \in {l, j}
  BY <1>1, <1>2, <1>3 DEF Reigns, Rules
<1> QED BY <1>2, <1>3 DEF Whole

(* Two servers have not the same next one.                                 *)
LEMMA NextOrdered ==
    ASSUME NEW p \in Servers, NEW q \in Servers, p < q,
           NEW P, NEW Q, P \subseteq Servers, Q \subseteq Servers, q \in P, p \in Q,
           NEW n \in Servers, n \notin {p, q},
           next_server_peer(p, P) = n, next_server_peer(q, Q) = n
    PROVE  FALSE
<1>1. p \in Nat /\ q \in Nat /\ n \in Nat
  BY DataRingAssumption
<1>2. n <= q
  <2>1. q > p
    BY <1>1
  <2> QED BY <2>1, NextPeer
<1>3. ~(n > q)
  BY <1>1, <1>2
<1>4. n <= p
  BY <1>3, NextPeer
<1>5. \/ n > p
      \/ ~(q > p)
  BY NextPeer
<1> QED BY <1>1, <1>4, <1>5

(* So no server but l follows two of them.                                 *)
LEMMA NextUnique ==
    ASSUME TypeInv, NEW l \in Servers, Reigns(l), Standing(l), Whole(l), Peered,
           NEW p \in Servers, NEW q \in Servers,
           NextOf(p) = NextOf(q), NextOf(p) \notin {None, l}
    PROVE  p = q
<1> SUFFICES ASSUME p # q PROVE FALSE
  OBVIOUS
<1>1. /\ Alive(p) /\ Alive(q)
      /\ NextOf(p) \in Servers \ {p, q} /\ Alive(NextOf(p))
  BY NextFacts, NextLed
<1>2. CASE \E j \in Servers \ {l} : \A t \in Servers : Alive(t) <=> t \in {l, j}
  BY <1>1, <1>2
<1>3. CASE \A s \in Servers : Alive(s) =>
               \A t \in Servers : t \in server_peers[s] <=> Alive(t) /\ t # s
  <2>1. q \in server_peers[p] /\ p \in server_peers[q]
    BY <1>1, <1>3
  <2>2. PICK P, Q : P = server_peers[p] /\ Q = server_peers[q]
    OBVIOUS
  <2>3. P \subseteq Servers /\ Q \subseteq Servers
    BY <2>2 DEF TypeInv, TypeOK
  <2>4. PICK n \in Servers : n = NextOf(p)
    BY <1>1
  <2>5. next_server_peer(p, P) = n /\ next_server_peer(q, Q) = n /\ n \notin {p, q}
    BY <1>1, <2>2, <2>4 DEF NextOf
  <2>6. p < q \/ q < p
    BY DataRingAssumption
  <2> QED BY <2>1, <2>2, <2>3, <2>5, <2>6, NextOrdered
<1> QED BY <1>2, <1>3 DEF Whole

(* To be alike goes both ways, and on.                                     *)
LEMMA AlikeFacts ==
    ASSUME NEW d, NEW e, Alike(d, e)
    PROVE  Alike(e, d) /\ \A f : Alike(e, f) => Alike(d, f)
BY DEF Alike

(* Only what is on the way to the next server is more.                     *)
Sent(s, w, ring, direct) ==
    \A p, t \in Servers : wire'[p][t] =
        IF p = s /\ t = NextOf(s)' /\ Alive(t)
        THEN w[p][t] \o Gone(s, ring, direct) ELSE w[p][t]

(* So it is with what a handler sends.                                     *)
LEMMA SentOn ==
    ASSUME NEW s \in Servers, NEW w \in Wires,
           historical_state \in [Servers -> Seq(Update)],
           server_peers' \in [Servers -> SUBSET Servers],
           NEW ring \in Seq(Update), NEW direct \in Seq(Update),
           Transmit(s, w, ring, direct)
    PROVE  Sent(s, w, ring, direct)
<1>1. /\ \A p \in Servers : historical_state'[p] =
             IF p = s THEN historical_state[s] \o ring ELSE historical_state[p]
      /\ \A p, t \in Servers : wire'[p][t] =
             IF p = s /\ t = NextOf(s)' /\ Alive(t)
             THEN w[p][t] \o Gone(s, ring, direct) ELSE w[p][t]
  BY Transmitted
<1> QED BY <1>1 DEF Sent

(* What s tells the next server lets it follow.                            *)
LEMMA AgreesSends ==
    ASSUME TypeInv, NEW l \in Servers, Reigns(l), Standing(l), Follow(l), NEW s \in Servers,
           NextOf(s) \notin {None, l}, NextOf(s)' = NextOf(s),
           NEW e \in Tables, NEW ring \in Seq(Update), NEW direct \in Seq(Update),
           tables' = [tables EXCEPT ![s] = e],
           wire'[s][NextOf(s)] = wire[s][NextOf(s)] \o Gone(s, ring, direct),
           Says(tables[s], ring, e), Says(e, direct, e)
    PROVE  Agrees(s, l)'
<1>1. PICK n \in Servers : n = NextOf(s)
  BY NextFacts DEF Follow
<1>2. n # s /\ Alive(n) /\ leader[s] = l /\ n # l /\ n # None
  BY <1>1, NextFacts, NextLed DEF Follow
<1>3. NextOf(s)' = n
  BY <1>1
<1>4. wire'[s][n] = wire[s][n] \o (ring \o direct)
  <2>1. Gone(s, ring, direct) = ring \o direct
    BY <1>2, <1>3, DataRingAssumption DEF Gone, GoesOn
  <2> QED BY <1>1, <2>1
<1>5. PICK u : u = Made(tables[n], wire[s][n])
  OBVIOUS
<1>6. tables[n] \in Tables /\ wire[s][n] \in Seq(Line) /\ tables[s] \in Tables
  BY DEF TypeInv, TypeOK
<1>7. u \in Tables /\ Alike(u, tables[s])
  <2>1. Alike(tables[n], tables[n])
    BY DEF Alike
  <2>2. u \in Tables
    BY <1>5, <1>6, <2>1, MadeAlike
  <2>3. Alike(u, tables[s])
    BY <1>1, <1>2, <1>5 DEF Follow, Agrees
  <2> QED BY <2>2, <2>3
<1>8. ring \in Seq(Line) /\ direct \in Seq(Line)
  BY DEF Line
<1>9. PICK v : v = Made(u, ring)
  OBVIOUS
<1>10. v \in Tables /\ Alike(v, e)
  <2>1. Alike(u, u)
    BY DEF Alike
  <2>2. v \in Tables
    BY <1>7, <1>8, <1>9, <2>1, MadeAlike
  <2> QED BY <1>7, <1>9, <2>2 DEF Says
<1>11. Alike(Made(v, direct), e)
  BY <1>10 DEF Says
<1>12. Made(u, ring \o direct) = Made(v, direct)
  BY <1>8, <1>9, MadeConcat
<1>13. Made(tables[n], wire[s][n] \o (ring \o direct)) = Made(u, ring \o direct)
  <2>1. PICK q : q = ring \o direct
    OBVIOUS
  <2>2. q \in Seq(Line)
    BY <1>8, <2>1
  <2> QED BY <1>5, <1>6, <2>1, <2>2, MadeConcat
<1>14. tables'[n] = tables[n] /\ tables'[s] = e
  BY <1>2 DEF TypeInv, TypeOK
<1>15. Alike(Made(tables'[n], wire'[s][n]), tables'[s])
  BY <1>4, <1>11, <1>12, <1>13, <1>14
<1> QED BY <1>3, <1>15 DEF Agrees

(* The history of l still says what its tables are.                        *)
LEMMA HistoryAgrees ==
    ASSUME TypeInv, NEW l \in Servers, Follow(l),
           server_peers' \in [Servers -> SUBSET Servers],
           NEW w \in Wires, NEW e \in Tables,
           NEW ring \in Seq(Update), NEW direct \in Seq(Update),
           tables' = [tables EXCEPT ![l] = e],
           Transmit(l, w, ring, direct), Says(tables[l], ring, e)
    PROVE  Alike(Made(NoData, historical_state[l]), tables[l])'
<1>1. historical_state'[l] = historical_state[l] \o ring
  BY Transmitted DEF TypeInv, TypeOK
<1>2. historical_state[l] \in Seq(Line) /\ ring \in Seq(Line)
  <2>1. historical_state[l] \in Seq(Update)
    BY DEF TypeInv, TypeOK
  <2> QED BY <2>1 DEF Line
<1>3. PICK u : u = Made(NoData, historical_state[l])
  OBVIOUS
<1>4. u \in Tables /\ Alike(u, tables[l])
  <2>1. NoData \in Tables /\ Alike(NoData, NoData)
    BY FirstTables DEF Alike
  <2>2. u \in Tables
    BY <1>2, <1>3, <2>1, MadeAlike
  <2> QED BY <1>3, <2>2 DEF Follow
<1>5. Alike(Made(u, ring), e)
  BY <1>4 DEF Says
<1>6. Made(NoData, historical_state[l] \o ring) = Made(u, ring)
  BY <1>2, <1>3, MadeConcat
<1>7. tables'[l] = e
  BY DEF TypeInv, TypeOK
<1>8. Made(NoData, historical_state'[l]) = Made(u, ring)
  BY <1>1, <1>6
<1> QED BY <1>5, <1>7, <1>8

(* Calm lines stay so on the way to l: only what a handler sends past the  *)
(* test of the leader is sent to it.                                       *)
LEMMA ToLeaderSends ==
    ASSUME NEW K, NEW l \in Servers, NEW s \in Servers, NEW w,
           NEW ring \in Seq(Update), NEW direct \in Seq(Update),
           Sent(s, w, ring, direct), Heeds(w, l, K),
           leader[s] \in {l, None}, NextOf(s)' # l \/ direct \in Seq(K)
    PROVE  Heeds(wire', l, K)
<1>1. ASSUME NEW a \in Servers PROVE wire'[a][l] \in Seq(K)
  <2>1. w[a][l] \in Seq(K)
    BY DEF Heeds
  <2>2. CASE a = s /\ l = NextOf(s)'
    <3>1. Gone(s, ring, direct) = direct
      BY <2>2 DEF Gone, GoesOn
    <3>2. direct \in Seq(K)
      BY <2>2
    <3>3. w[a][l] \o direct \in Seq(K)
      BY <2>1, <3>2
    <3>4. wire'[a][l] = w[a][l] \o direct \/ wire'[a][l] = w[a][l]
      BY <2>2, <3>1 DEF Sent
    <3> QED BY <2>1, <3>3, <3>4
  <2>3. CASE ~(a = s /\ l = NextOf(s)')
    BY <2>1, <2>3 DEF Sent
  <2> QED BY <2>2, <2>3
<1> QED BY <1>1 DEF Heeds

(* Updates about the queue are calm.                                       *)
LEMMA QuietCalm ==
    ASSUME NEW direct \in Seq(Update), Quiet(direct)
    PROVE  direct \in Seq(CalmLines)
<1>1. \A i \in DOMAIN direct : direct[i] \in CalmLines
  <2>1. ASSUME NEW i \in DOMAIN direct PROVE direct[i] \in CalmLines
    <3>1. direct[i] \in Update /\ direct[i].type \in {"Push", "Pop"}
      BY DEF Quiet
    <3> QED BY <3>1 DEF CalmLines, Calm, Line
  <2> QED BY <2>1
<1> QED BY <1>1, AllOfKind

(* The tables follow when s sends what it does, the others do nothing, and *)
(* s had what it has taken from the one before it.                         *)
LEMMA SendsAgree ==
    ASSUME TypeInv, NEW l \in Servers, Reigns(l), Standing(l), Follow(l), NEW s \in Servers,
           server_peers' = server_peers,
           NEW w \in Wires,
           \A a \in Servers : \A n \in Servers : n = NextOf(a) /\ (a = s \/ n # s) =>
               w[a][n] = wire[a][n],
           NEW e \in Tables, NEW ring \in Seq(Update), NEW direct \in Seq(Update),
           tables' = [tables EXCEPT ![s] = e],
           Transmit(s, w, ring, direct),
           Says(tables[s], ring, e), Says(e, direct, e),
           s # l => \A p \in Servers : NextOf(p) = s => Alike(Made(e, w[p][s]), tables[p])
    PROVE  \A p \in Servers : Agrees(p, l)'
<1>1. /\ server_peers' \in [Servers -> SUBSET Servers]
      /\ historical_state \in [Servers -> Seq(Update)]
  BY DEF TypeInv, TypeOK
<1>2. \A p \in Servers : NextOf(p)' = NextOf(p)
  BY DEF NextOf
<1>3. Sent(s, w, ring, direct)
  BY <1>1, SentOn
<1>4. /\ \A n \in Servers : n = NextOf(s)' /\ Alive(n) =>
            wire'[s][n] = w[s][n] \o Gone(s, ring, direct)
      /\ \A p, t \in Servers : p # s \/ t # NextOf(s)' => wire'[p][t] = w[p][t]
  BY <1>3 DEF Sent
<1>5. ASSUME NextOf(s) \notin {None, l} PROVE Agrees(s, l)'
  <2>1. PICK n \in Servers : n = NextOf(s)
    BY <1>5, NextFacts DEF Follow
  <2>2. NextOf(s)' = NextOf(s) /\ Alive(n)
    BY <1>2, <1>5, <2>1, NextFacts DEF Follow
  <2>4. wire'[s][n] = w[s][n] \o Gone(s, ring, direct) /\ w[s][n] = wire[s][n]
    BY <1>4, <2>1, <2>2
  <2>5. wire'[s][NextOf(s)] = wire[s][NextOf(s)] \o Gone(s, ring, direct)
    BY <2>1, <2>4
  <2> QED BY <1>5, <2>2, <2>5, AgreesSends
<1>6. ASSUME NEW p \in Servers, p # s, NextOf(p) \notin {None, l} PROVE Agrees(p, l)'
  <2>1. PICK n \in Servers : n = NextOf(p) /\ n = NextOf(p)'
    BY <1>2, <1>6, NextFacts DEF Follow
  <2>2. wire'[p][n] = w[p][n]
    BY <1>6, <1>4
  <2>3. tables'[p] = tables[p] /\ tables'[s] = e /\ (n # s => tables'[n] = tables[n])
    BY <1>6 DEF TypeInv, TypeOK
  <2>4. Alike(Made(tables'[n], wire'[p][n]), tables'[p])
    <3>1. CASE n = s
      <4>1. Alike(Made(e, w[p][s]), tables[p])
        BY <1>6, <2>1, <3>1
      <4> QED BY <2>2, <2>3, <3>1, <4>1
    <3>2. CASE n # s
      <4>1. w[p][n] = wire[p][n]
        BY <2>1, <3>2
      <4>2. Alike(Made(tables[n], wire[p][n]), tables[p])
        BY <1>6, <2>1 DEF Follow, Agrees
      <4> QED BY <2>2, <2>3, <3>2, <4>1, <4>2
    <3> QED BY <3>1, <3>2
  <2> QED BY <2>1, <2>4 DEF Agrees
<1>7. ASSUME NEW p \in Servers, NextOf(p) \in {None, l} PROVE Agrees(p, l)'
  BY <1>2, <1>7 DEF Agrees
<1> QED BY <1>5, <1>6, <1>7

(* So does the rest of what is said of the replicas.                       *)
LEMMA SendsFollow ==
    ASSUME TypeInv, NEW l \in Servers, Reigns(l), Standing(l), Follow(l), NEW s \in Servers,
           Alive(s), UNCHANGED <<state, server_peers, leader, starting>>,
           link' = link \/ starting \notin server_peers[l],
           s = starting => starting \in server_peers[l],
           NEW w \in Wires,
           \A a, b \in Servers : b # NextOf(a) => w[a][b] \in Seq(News),
           Heeds(w, l, CalmLines),
           NEW e \in Tables, NEW ring \in Seq(Update), NEW direct \in Seq(Update),
           tables' = [tables EXCEPT ![s] = e],
           Transmit(s, w, ring, direct),
           s # l => direct \in Seq(CalmLines),
           Says(tables[s], ring, e), Priced(tables'[l], connected'[l]),
           \A p \in Servers : Agrees(p, l)'
    PROVE  Follow(l)'
<1>1. /\ server_peers' \in [Servers -> SUBSET Servers]
      /\ historical_state \in [Servers -> Seq(Update)]
  BY DEF TypeInv, TypeOK
<1>2. \A p \in Servers : NextOf(p)' = NextOf(p)
  BY DEF NextOf
<1>3. \A t \in Servers : tables'[t] = IF t = s THEN e ELSE tables[t]
  BY DEF TypeInv, TypeOK
<1>4. Sent(s, w, ring, direct)
  BY <1>1, SentOn
<1>5. Whole(l)' /\ Peered'
  BY DEF Follow, Whole, Peered, Alive
<1>6. Fresh(l)'
  <2>1. \A t \in Servers : Alive(t)' <=> Alive(t)
    BY DEF Alive
  <2>2. starting \in Servers \cup {None}
    BY DEF TypeInv, TypeOK
  <2> QED BY <1>3, <2>1, <2>2 DEF Follow, Fresh
<1>7. Passing'
  <2>1. \A p, t \in Servers : p # s \/ t # NextOf(s)' => wire'[p][t] = w[p][t]
    BY <1>4 DEF Sent
  <2>2. ASSUME NEW a \in Servers, NEW b \in Servers, b # NextOf(a)'
        PROVE  wire'[a][b] \in Seq(News)
    <3>1. wire'[a][b] = w[a][b]
      BY <2>1, <2>2
    <3> QED BY <1>2, <2>2, <3>1
  <2> QED BY <2>2 DEF Passing
<1>8. Heeds(wire', l, CalmLines)
  <2>1. leader[s] \in {l, None}
    BY DEF Reigns, Rules
  <2>2. NextOf(s)' # l \/ direct \in Seq(CalmLines)
    <3>1. NextOf(l) # l
      BY NextFacts, DataRingAssumption DEF Follow
    <3> QED BY <1>2, <3>1
  <2> QED BY <1>4, <2>1, <2>2, ToLeaderSends
<1>9. Alike(Made(NoData, historical_state[l]), tables[l])'
  <2>1. CASE s = l
    BY <1>1, <2>1, HistoryAgrees
  <2>2. CASE s # l
    <3>1. historical_state'[l] = historical_state[l] /\ tables'[l] = tables[l]
      BY <1>1, <1>3, <2>2, HistoryOfOthers
    <3> QED BY <3>1 DEF Follow
  <2> QED BY <2>1, <2>2
<1> QED BY <1>5, <1>6, <1>7, <1>8, <1>9 DEF Follow

(* The turn of a client of the leader lets the replicas follow.            *)
LEMMA ClientTurnFollow ==
    ASSUME TypeInv, NEW l \in Servers, Reigns(l), Standing(l), Follow(l), ClientTurn(l),
           faults' \subseteq {"join"}
    PROVE  Follow(l)'
<1>1. PICK d \in Tables, ring \in Seq(Update), direct \in Seq(Update) :
         Turn(l, d, ring, direct)
  BY DEF ClientTurn
<1>2. /\ tables' = [tables EXCEPT ![l] = d]
      /\ Transmit(l, wire, ring, direct)
      /\ Says(d, direct, d)
  BY <1>1 DEF Turn
<1>3. Says(tables[l], ring, d) /\ Priced(d, connected'[l])
  BY <1>1 DEF Turn, Changes, Orderly, Follow
<1>4. /\ UNCHANGED <<state, server_peers, leader, starting, link>>
      /\ wire \in Wires /\ Alive(l) /\ starting # l
  BY DEF ClientTurn, Frame, serverVars, Reigns, Rules, Alive, Wires, TypeInv, TypeOK
<1>5. \A p \in Servers : Agrees(p, l)'
  BY <1>2, <1>3, <1>4, SendsAgree
<1>6. Priced(tables'[l], connected'[l])
  BY <1>2, <1>3 DEF TypeInv, TypeOK
<1>7. /\ \A a, b \in Servers : b # NextOf(a) => wire[a][b] \in Seq(News)
      /\ Heeds(wire, l, CalmLines)
  BY DEF Follow, Passing
<1> QED BY <1>2, <1>3, <1>4, <1>5, <1>6, <1>7, SendsFollow

(* Tables with others in the queue are alike, and ask the same of others.  *)
LEMMA QueueAlike ==
    ASSUME NEW d, NEW e, SameButQueue(d, e)
    PROVE  Alike(d, e) /\ \A C : Priced(d, C) => Priced(e, C)
BY DEF SameButQueue, Alike, Priced

(* So does the check that a peer is connected.                             *)
LEMMA IsPeerConnectedFollow ==
    ASSUME TypeInv, NEW l \in Servers, Reigns(l), Standing(l), Follow(l),
           NEW p \in Servers, IsPeerConnected(p)
    PROVE  Follow(l)'
<1>1. PICK e \in Tables, direct \in Seq(Update) :
        /\ tables' = [tables EXCEPT ![p] = e]
        /\ Transmit(p, wire, <<>>, direct)
        /\ SameButQueue(tables[p], e) /\ Quiet(direct)
  BY IsPeerConnectedPasses DEF Passes
<1>2. /\ starting # None /\ starting # p /\ Managing(p) /\ starting \notin server_peers[p]
      /\ UNCHANGED <<state, server_peers, leader, starting, connected>>
  BY DEF IsPeerConnected
<1>3. p = l /\ Alive(p)
  BY <1>2 DEF Standing, Managing, Alive
<1>4. wire \in Wires /\ <<>> \in Seq(Update)
  BY EmptyIn DEF TypeInv, TypeOK, Wires
<1>5. Says(tables[p], <<>>, e) /\ Says(e, direct, e)
  <2>1. Alike(tables[p], e)
    BY <1>1, QueueAlike
  <2> QED BY <1>1, <2>1, SaysNone, QuietSays
<1>6. \A q \in Servers : Agrees(q, l)'
  BY <1>1, <1>2, <1>3, <1>4, <1>5, SendsAgree
<1>7. Priced(tables'[l], connected'[l])
  <2>1. Priced(tables[l], connected[l]) /\ tables'[l] = e
    BY <1>1, <1>3 DEF Follow, TypeInv, TypeOK
  <2> QED BY <1>1, <1>2, <1>3, <2>1, QueueAlike
<1>8. /\ \A a, b \in Servers : b # NextOf(a) => wire[a][b] \in Seq(News)
      /\ Heeds(wire, l, CalmLines)
  BY DEF Follow, Passing
<1> QED BY <1>1, <1>2, <1>3, <1>4, <1>5, <1>6, <1>7, <1>8, SendsFollow

(* An update comes from the server before.                                 *)
LEMMA UpdateFrom ==
    ASSUME TypeInv, NEW l \in Servers, Follow(l), NEW s \in Servers, NEW p \in Servers,
           Arrives(s, p), Head(wire[p][s]) \in Update
    PROVE  NextOf(p) = s
<1> SUFFICES ASSUME NextOf(p) # s PROVE FALSE
  OBVIOUS
<1>1. PICK q : q = wire[p][s]
  OBVIOUS
<1>2. q \in Seq(News) /\ q # <<>> /\ Head(q) \in Update
  BY <1>1 DEF Follow, Passing, Arrives
<1>3. Head(q) \in News
  BY <1>2
<1>4. Head(q) \in Line /\ ~IsUpdate(Head(q))
  BY <1>3 DEF News
<1> QED BY <1>2, <1>4, LineKinds

(* The wires without the line that s takes are as they were described.     *)
LEMMA TakenFollow ==
    ASSUME TypeInv, NEW l \in Servers, Follow(l), NEW s \in Servers, NEW p \in Servers,
           Arrives(s, p)
    PROVE  /\ \A a, b \in Servers : b # NextOf(a) => Taken(s, p)[a][b] \in Seq(News)
           /\ Heeds(Taken(s, p), l, CalmLines)
<1>1. PICK q : q = wire[p][s]
  OBVIOUS
<1>2. /\ q # <<>>
      /\ \A a, b \in Servers :
            Taken(s, p)[a][b] = IF a = p /\ b = s THEN Tail(q) ELSE wire[a][b]
  BY <1>1, TakenIs DEF ButFor
<1>3. ASSUME NEW a \in Servers, NEW b \in Servers, b # NextOf(a)
      PROVE  Taken(s, p)[a][b] \in Seq(News)
  <2>1. wire[a][b] \in Seq(News)
    BY <1>3 DEF Follow, Passing
  <2>2. CASE a = p /\ b = s
    <3>1. Tail(q) \in Seq(News)
      BY <1>1, <1>2, <2>1, <2>2
    <3> QED BY <1>2, <2>2, <3>1
  <2>3. CASE ~(a = p /\ b = s)
    BY <1>2, <2>1, <2>3
  <2> QED BY <2>2, <2>3
<1>4. ASSUME NEW a \in Servers PROVE Taken(s, p)[a][l] \in Seq(CalmLines)
  <2>1. wire[a][l] \in Seq(CalmLines)
    BY DEF Follow, Heeds
  <2>2. CASE a = p /\ l = s
    <3>1. Tail(q) \in Seq(CalmLines)
      BY <1>1, <1>2, <2>1, <2>2
    <3> QED BY <1>2, <2>2, <3>1
  <2>3. CASE ~(a = p /\ l = s)
    BY <1>2, <2>1, <2>3
  <2> QED BY <2>2, <2>3
<1> QED BY <1>3, <1>4 DEF Heeds

(* A server that has taken a line still follows the one before it.         *)
LEMMA TakenAgrees ==
    ASSUME TypeInv, NEW l \in Servers, Follow(l), NEW s \in Servers, NEW p \in Servers,
           Arrives(s, p), NextOf(p) = s, s # l,
           NEW e \in Tables, Alike(Heard(tables[s], Head(wire[p][s])), e)
    PROVE  Alike(Made(e, Taken(s, p)[p][s]), tables[p])
<1>1. PICK q : q = wire[p][s]
  OBVIOUS
<1>2. /\ q \in Seq(Line) /\ q # <<>> /\ Head(q) \in Line /\ Tail(q) \in Seq(Line)
      /\ Taken(s, p)[p][s] = Tail(q)
  BY <1>1, TakenIs DEF ButFor
<1>3. PICK d : d = Heard(tables[s], Head(q))
  OBVIOUS
<1>4. d \in Tables
  <2>1. tables[s] \in Tables /\ Alike(tables[s], tables[s])
    BY DEF TypeInv, TypeOK, Alike
  <2> QED BY <1>2, <1>3, <2>1, HeardAlike
<1>5. Alike(Made(d, Tail(q)), tables[p])
  <2>1. Made(tables[s], q) = Made(d, Tail(q))
    BY <1>2, <1>3, MadeTaken
  <2>2. s \notin {None, l}
    BY DataRingAssumption
  <2>3. Alike(Made(tables[s], q), tables[p])
    BY <1>1, <2>2 DEF Follow, Agrees
  <2> QED BY <2>1, <2>3
<1>6. Alike(d, e)
  BY <1>1, <1>3
<1>7. Alike(Made(d, Tail(q)), Made(e, Tail(q)))
  BY <1>2, <1>4, <1>6, MadeAlike
<1> QED BY <1>2, <1>5, <1>7, AlikeFacts

(* Nor does an update that arrives, which is one about the queue at l.     *)
LEMMA ReceiveUpdateFollow ==
    ASSUME TypeInv, NEW l \in Servers, Reigns(l), Standing(l), Follow(l),
           NEW s \in Servers, NEW p \in Servers, ReceiveUpdate(s, p)
    PROVE  Follow(l)'
<1>1. PICK m : m = Head(wire[p][s])
  OBVIOUS
<1>2. PICK d : d = Updated(tables[s], m)
  OBVIOUS
<1>3. /\ Arrives(s, p) /\ m \in Update /\ d \in Tables
      /\ Passes(s, Taken(s, p), d, <<m>>)
      /\ UNCHANGED <<serverVars, connected>>
  BY <1>1, <1>2, ReceiveUpdatePasses
<1>4. PICK e \in Tables, direct \in Seq(Update) :
        /\ tables' = [tables EXCEPT ![s] = e]
        /\ Transmit(s, Taken(s, p), <<m>>, direct)
        /\ SameButQueue(d, e) /\ Quiet(direct)
  BY <1>3 DEF Passes
<1>5. PICK w : w = Taken(s, p)
  OBVIOUS
<1>6. /\ w \in Wires /\ <<m>> \in Seq(Update)
      /\ ButFor(w, wire, p, s, Tail(wire[p][s])) /\ tables[s] \in Tables
  <2>1. w \in Wires /\ ButFor(w, wire, p, s, Tail(wire[p][s]))
    BY <1>3, <1>5, TakenIs
  <2>2. <<m>> \in Seq(Update) /\ tables[s] \in Tables
    BY <1>3 DEF TypeInv, TypeOK
  <2> QED BY <2>1, <2>2
<1>7. NextOf(p) = s
  BY <1>1, <1>3, UpdateFrom
<1>8. Says(tables[s], <<m>>, e) /\ Says(e, direct, e)
  <2>1. Says(tables[s], <<m>>, d)
    BY <1>2, <1>3, <1>6, SaysOne DEF Alike
  <2> QED BY <1>4, <1>6, <2>1, QuietSays
<1>9. s # l => \A q \in Servers : NextOf(q) = s => Alike(Made(e, w[q][s]), tables[q])
  <2> SUFFICES ASSUME s # l, NEW q \in Servers, NextOf(q) = s
               PROVE  Alike(Made(e, w[q][s]), tables[q])
    OBVIOUS
  <2>1. q = p
    BY <1>7, NextUnique, DataRingAssumption DEF Follow
  <2>2. Heard(tables[s], m) = d
    <3>1. m \in Line
      BY <1>3 DEF Line
    <3> QED BY <1>2, <1>3, <3>1, LineKinds DEF Heard
  <2>3. Alike(Heard(tables[s], Head(wire[p][s])), e)
    BY <1>1, <1>4, <2>2, QueueAlike
  <2> QED BY <1>3, <1>5, <1>7, <2>1, <2>3, TakenAgrees
<1>10. /\ server_peers' = server_peers
       /\ UNCHANGED <<state, server_peers, leader, starting>> /\ link' = link
       /\ connected' = connected
  BY <1>3 DEF serverVars
<1>11. \A a \in Servers : \A n \in Servers : n = NextOf(a) /\ (a = s \/ n # s) =>
               w[a][n] = wire[a][n]
  <2>1. NextOf(s) # s
    BY NextFacts, DataRingAssumption DEF Follow
  <2> QED BY <1>6, <2>1 DEF ButFor
<1>12. Transmit(s, w, <<m>>, direct)
  BY <1>4, <1>5
<1>13. \A q \in Servers : Agrees(q, l)'
  BY <1>4, <1>6, <1>8, <1>9, <1>10, <1>11, <1>12, SendsAgree
<1>14. Priced(tables'[l], connected'[l])
  <2>1. Priced(tables[l], connected[l])
    BY DEF Follow
  <2>2. CASE s # l
    BY <1>4, <1>10, <2>1, <2>2 DEF TypeInv, TypeOK
  <2>3. CASE s = l
    <3>1. m.type \in {"Push", "Pop"}
      <4>1. wire[p][l] \in Seq(CalmLines) /\ wire[p][l] # <<>>
        BY <1>3, <2>3 DEF Follow, Heeds, Arrives
      <4>2. m \in CalmLines
        BY <1>1, <2>3, <4>1
      <4> QED BY <1>3, <4>2, LineKinds DEF CalmLines, Calm
    <3>2. /\ d.orders_in_process = tables[s].orders_in_process
          /\ d.customers = tables[s].customers
      <4>1. m \in Update /\ tables[s] \in Tables /\ d = Updated(tables[s], m)
        BY <1>2, <1>3, <1>6
      <4>2. m.type \notin {"UpdateCustomer", "UpdateOrder", "RemoveOrder"}
        BY <3>1
      <4> QED BY <4>1, <4>2, UpdatedFields
    <3>3. Priced(d, connected[l])
      BY <2>1, <2>3, <3>2 DEF Priced
    <3>4. tables'[l] = e
      BY <1>4, <2>3 DEF TypeInv, TypeOK
    <3> QED BY <1>4, <1>10, <3>3, <3>4, QueueAlike
  <2> QED BY <2>2, <2>3
<1>15. /\ \A a, b \in Servers : b # NextOf(a) => w[a][b] \in Seq(News)
       /\ Heeds(w, l, CalmLines)
  BY <1>3, <1>5, TakenFollow
<1>16. s = starting => starting \in server_peers[l]
  <2> SUFFICES ASSUME s = starting PROVE starting \in server_peers[l]
    OBVIOUS
  <2>1. p \in server_peers[s] /\ s # None
    BY <1>3, DataRingAssumption DEF Arrives
  <2>2. p = l
    BY <2>1 DEF Standing
  <2> QED BY <1>7, <2>1, <2>2, NextFacts DEF Follow
<1>17. Alive(s) /\ direct \in Seq(CalmLines)
  BY <1>3, <1>4, QuietCalm DEF Arrives, Managing, Alive
<1> QED BY <1>4, <1>6, <1>8, <1>10, <1>12, <1>13, <1>14, <1>15, <1>16, <1>17, SendsFollow

(* An answer to a client is nothing to the replicas.                       *)
LEMMA OffersFollow ==
    ASSUME NEW l \in Servers, Follow(l), NEW s \in Servers, Offers(s)
    PROVE  Follow(l)'
<1>1. UNCHANGED <<state, server_peers, leader, starting, link, tables,
                  historical_state, wire, connected>>
  BY DEF Offers, serverVars
<1>2. \A p \in Servers : NextOf(p)' = NextOf(p) /\ (Alive(p)' <=> Alive(p))
  BY <1>1 DEF NextOf, Alive
<1>3. \A p \in Servers : Agrees(p, l)'
  BY <1>1, <1>2 DEF Follow, Agrees
<1>4. Whole(l)' /\ Peered' /\ Fresh(l)' /\ Passing'
  BY <1>1, <1>2 DEF Follow, Whole, Peered, Fresh, Passing
<1> QED BY <1>1, <1>3, <1>4 DEF Follow

(* The next server does what its news do not change.                       *)
LEMMA HeardNews ==
    ASSUME NEW d, NEW q \in Seq(Line), q # <<>>, ~IsUpdate(Head(q))
    PROVE  Made(d, Tail(q)) = Made(d, q)
<1>1. Heard(d, Head(q)) = d
  BY DEF Heard
<1> QED BY <1>1, MadeTaken

(* The message that names the leader is no update.                         *)
LEMMA GotLeaderFollow ==
    ASSUME TypeInv, NEW l \in Servers, Reigns(l), Follow(l),
           NEW s \in Servers, NEW p \in Servers, GotLeaderFromPeer(s, p)
    PROVE  Follow(l)'
<1>1. /\ Arrives(s, p) /\ wire' = Taken(s, p)
      /\ UNCHANGED <<state, server_peers, starting, link, tables, historical_state,
                     connected>>
      /\ \/ Head(wire[p][s]).type = "Coordinator"
         \/ /\ Head(wire[p][s]).type = "LeaderData"
            /\ leader' = [leader EXCEPT ![s] = Head(wire[p][s]).leader]
  BY DEF GotLeaderFromPeer
<1>2. PICK q : q = wire[p][s]
  OBVIOUS
<1>3. /\ q \in Seq(Line) /\ q # <<>> /\ ~IsUpdate(Head(q))
      /\ ButFor(wire', wire, p, s, Tail(q))
  BY <1>1, <1>2, TakenIs DEF IsUpdate
<1>4. \A t \in Servers : leader'[t] = leader[t] \/ leader'[t] = l
  <2>1. Head(wire[p][s]) \in Loyal(l, connected[l])
    BY <1>1, TakenLoyal
  <2>2. leader' = [leader EXCEPT ![s] = l]
    BY <1>1, <2>1 DEF Loyal
  <2> QED BY <2>2 DEF TypeInv, TypeOK
<1>5. \A t \in Servers : NextOf(t)' = NextOf(t) /\ (Alive(t)' <=> Alive(t))
  BY <1>1 DEF NextOf, Alive
<1>6. Whole(l)' /\ Peered' /\ Fresh(l)'
  <2>1. Whole(l)'
    <3>1. CASE \E j \in Servers \ {l} : \A t \in Servers : Alive(t) <=> t \in {l, j}
      BY <1>5, <3>1 DEF Whole
    <3>2. CASE \A t \in Servers : Alive(t) =>
                  /\ leader[t] = l
                  /\ \A u \in Servers : u \in server_peers[t] <=> Alive(u) /\ u # t
      BY <1>1, <1>4, <1>5, <3>2 DEF Whole
    <3> QED BY <3>1, <3>2 DEF Follow, Whole
  <2>2. Peered' /\ Fresh(l)'
    BY <1>1, <1>5 DEF Follow, Peered, Fresh
  <2> QED BY <2>1, <2>2
<1>7. Passing' /\ Heeds(wire', l, CalmLines)
  <2>1. \A a, b \in Servers : b # NextOf(a) => Taken(s, p)[a][b] \in Seq(News)
    BY <1>1, TakenFollow
  <2>2. Heeds(Taken(s, p), l, CalmLines)
    BY <1>1, TakenFollow
  <2>3. PICK w : w = Taken(s, p)
    OBVIOUS
  <2>4. wire' = w /\ Heeds(w, l, CalmLines)
    BY <1>1, <2>2, <2>3
  <2>5. \A a, b \in Servers : b # NextOf(a)' => wire'[a][b] \in Seq(News)
    BY <1>1, <1>5, <2>1
  <2> QED BY <2>4, <2>5 DEF Passing, Heeds
<1>8. ASSUME NEW a \in Servers PROVE Agrees(a, l)'
  <2> SUFFICES ASSUME NextOf(a) \notin {None, l}
               PROVE  Alike(Made(tables'[NextOf(a)], wire'[a][NextOf(a)]), tables'[a])
    BY <1>5 DEF Agrees
  <2>1. PICK n \in Servers : n = NextOf(a)
    BY NextFacts DEF Follow
  <2>2. Alike(Made(tables[n], wire[a][n]), tables[a])
    BY <2>1 DEF Follow, Agrees
  <2>3. Made(tables[n], wire'[a][n]) = Made(tables[n], wire[a][n])
    <3>1. CASE a = p /\ n = s
      <4>1. wire'[a][n] = Tail(q) /\ wire[a][n] = q
        BY <1>2, <1>3, <3>1 DEF ButFor
      <4> QED BY <1>3, <4>1, HeardNews
    <3>2. CASE ~(a = p /\ n = s)
      BY <1>3, <3>2 DEF ButFor
    <3> QED BY <3>1, <3>2
  <2> QED BY <1>1, <2>1, <2>2, <2>3
<1> QED BY <1>1, <1>6, <1>7, <1>8 DEF Follow

(* No connection ends.                                                     *)
LEMMA NotDisconnected ==
    ASSUME NEW l \in Servers, Follow(l), NEW s \in Servers, NEW p \in Servers
    PROVE  ~PeerDisconnected(s, p)
BY DEF Follow, Peered, PeerDisconnected

(* A server that starts beside l has nothing.                              *)
LEMMA StartFollow ==
    ASSUME TypeInv, NEW l \in Servers, Reigns(l), Standing(l), Follow(l),
           NEW j \in Servers, Start(j), "second join" \notin faults'
    PROVE  Follow(l)'
<1>1. /\ state[j] = "down" /\ starting = None /\ starting' = j
      /\ state' = [state EXCEPT ![j] = "up"]
      /\ UNCHANGED <<server_peers, leader, link, tables, historical_state, connected>>
      /\ wire' = [wire EXCEPT ![j] = [t \in Servers |-> <<>>]]
      /\ \A s \in Servers : Alive(s) => j \notin server_peers[s]
      /\ ~(Cardinality({s \in Servers : Alive(s)}) > 1)
  BY DEF Start
<1>2. /\ Alive(l) /\ ~Alive(j) /\ j # l
  BY <1>1 DEF Reigns, Rules, Alive
<1>3. \A s \in Servers : Alive(s) <=> s = l
  <2>1. PICK up : up = {s \in Servers : Alive(s)}
    OBVIOUS
  <2>2. l \in up /\ up \subseteq Servers /\ IsFiniteSet(Servers) /\ ~(Cardinality(up) > 1)
    BY <1>1, <1>2, <2>1, DataRingAssumption
  <2>3. IsFiniteSet(up)
    BY <2>2, Fewer
  <2>4. up = {l}
    BY <2>2, <2>3, OnlyOne
  <2> QED BY <2>1, <2>4
<1>4. \A s \in Servers : NextOf(s)' = NextOf(s) /\ (Alive(s)' <=> s \in {l, j})
  BY <1>1, <1>2, <1>3 DEF NextOf, Alive, TypeInv, TypeOK
<1>5. \A s, t \in Servers : wire'[s][t] = IF s = j THEN <<>> ELSE wire[s][t]
  BY <1>1 DEF TypeInv, TypeOK
<1>6. Whole(l)' /\ Peered'
  BY <1>1, <1>2, <1>3, <1>4 DEF Follow, Whole, Peered
<1>7. Fresh(l)'
  BY <1>1, <1>2, <1>3, <1>4 DEF Follow, Fresh
<1>8. Passing' /\ Heeds(wire', l, CalmLines)
  <2>1. <<>> \in Seq(News) /\ <<>> \in Seq(CalmLines)
    BY EmptyIn
  <2> QED BY <1>4, <1>5, <2>1 DEF Follow, Passing, Heeds
<1>9. \A s \in Servers : Agrees(s, l)'
  <2>1. NextOf(j) = None
    BY <1>2, NextFacts DEF Standing, Follow
  <2>2. ASSUME NEW s \in Servers, NextOf(s) \notin {None, l}
        PROVE  Alike(Made(tables'[NextOf(s)], wire'[s][NextOf(s)]), tables'[s])
    <3>1. PICK n \in Servers : n = NextOf(s)
      BY <2>2, NextFacts DEF Follow
    <3>2. wire'[s][n] = wire[s][n]
      BY <1>5, <2>1, <2>2
    <3>3. Alike(Made(tables[n], wire[s][n]), tables[s])
      BY <2>2, <3>1 DEF Follow, Agrees
    <3> QED BY <1>1, <3>1, <3>2, <3>3
  <2> QED BY <1>4, <2>2 DEF Agrees
<1> QED BY <1>1, <1>6, <1>7, <1>8, <1>9 DEF Follow

(* The server that starts has all it needs to serve.                       *)
LEMMA InitLeaderFollow ==
    ASSUME TypeInv, NEW l \in Servers, Reigns(l), Follow(l), InitLeader
    PROVE  Follow(l)'
<1>1. /\ UNCHANGED <<state, server_peers, link, tables, historical_state, wire, connected>>
      /\ starting # None /\ starting' = None
      /\ \A p \in Servers \ {starting} : Managing(p) => p \in server_peers[starting]
      /\ leader' = IF server_peers[starting] = {}
                   THEN [leader EXCEPT ![starting] = starting] ELSE leader
  BY DEF InitLeader
<1>2. leader' = leader
  BY <1>1 DEF Reigns, Rules, Managing
<1>3. \A p \in Servers : NextOf(p)' = NextOf(p) /\ (Alive(p)' <=> Alive(p))
  BY <1>1 DEF NextOf, Alive
<1>4. \A p \in Servers : Agrees(p, l)'
  BY <1>1, <1>3 DEF Follow, Agrees
<1>5. Whole(l)' /\ Peered' /\ Passing'
  BY <1>1, <1>2, <1>3 DEF Follow, Whole, Peered, Passing
<1>6. Fresh(l)'
  <2>1. None \notin server_peers[l]
    BY DataRingAssumption DEF TypeInv, TypeOK
  <2> QED BY <1>1, <1>3, <2>1 DEF Follow, Fresh
<1> QED BY <1>1, <1>4, <1>5, <1>6 DEF Follow

(* What tells a server who leads is no update.                             *)
LEMMA SendLeaderFollow ==
    ASSUME TypeInv, NEW l \in Servers, Reigns(l), Standing(l), Follow(l),
           NEW p \in Servers, SendLeader(p)
    PROVE  Follow(l)'
<1>1. /\ UNCHANGED <<state, server_peers, leader, starting, tables, historical_state,
                     connected>>
      /\ link' = [link EXCEPT ![p] = "none"] /\ link[p] = "asked"
  BY DEF SendLeader
<1>2. p = l /\ starting \in Servers \ {l}
  BY <1>1, LeaderSent DEF Standing, Reigns, Rules
<1>3. PICK m : m = [type |-> "LeaderData", leader |-> leader[p]]
  OBVIOUS
<1>4. /\ m \in Line /\ ~IsUpdate(m)
      /\ ButFor(wire', wire, p, starting, Append(wire[p][starting], m))
  <2>1. leader[p] # None
    BY <1>2, DataRingAssumption DEF Reigns, Rules
  <2>2. /\ [type |-> "LeaderData", leader |-> leader[p]] \in Line
        /\ ButFor(wire', wire, p, starting, LeaderTold(p))
    BY <2>1, LeaderSent
  <2>3. LeaderTold(p) = Append(wire[p][starting], m)
    BY <1>3 DEF LeaderTold
  <2> QED BY <1>3, <2>2, <2>3 DEF IsUpdate
<1>5. \A s \in Servers : NextOf(s)' = NextOf(s) /\ (Alive(s)' <=> Alive(s))
  BY <1>1 DEF NextOf, Alive
<1>6. Whole(l)' /\ Peered' /\ Fresh(l)'
  <2>1. link'[l] = "none"
    BY <1>1, <1>2 DEF TypeInv, TypeOK
  <2> QED BY <1>1, <1>5, <2>1 DEF Follow, Whole, Peered, Fresh
<1>7. Passing' /\ Heeds(wire', l, CalmLines)
  <2>1. m \in News
    BY <1>4 DEF News
  <2>2. ASSUME NEW a \in Servers, NEW b \in Servers, b # NextOf(a)
        PROVE  wire'[a][b] \in Seq(News)
    <3>1. wire[a][b] \in Seq(News)
      BY <2>2 DEF Follow, Passing
    <3>2. CASE a = p /\ b = starting
      <4>1. Append(wire[a][b], m) \in Seq(News)
        BY <2>1, <3>1
      <4> QED BY <1>4, <3>2, <4>1 DEF ButFor
    <3>3. CASE ~(a = p /\ b = starting)
      BY <1>4, <3>1, <3>3 DEF ButFor
    <3> QED BY <3>2, <3>3
  <2>3. Heeds(wire', l, CalmLines)
    BY <1>2, <1>4 DEF Follow, Heeds, ButFor
  <2> QED BY <1>5, <2>2, <2>3 DEF Passing
<1>8. ASSUME NEW s \in Servers, NextOf(s) \notin {None, l}
      PROVE  Alike(Made(tables[NextOf(s)], wire'[s][NextOf(s)]), tables[s])
  <2>1. PICK n \in Servers : n = NextOf(s)
    BY <1>8, NextFacts DEF Follow
  <2>2. Alike(Made(tables[n], wire[s][n]), tables[s])
    BY <1>8, <2>1 DEF Follow, Agrees
  <2>3. Made(tables[n], wire'[s][n]) = Made(tables[n], wire[s][n])
    <3>1. CASE s = p /\ n = starting
      <4>1. PICK q : q = wire[s][n]
        OBVIOUS
      <4>2. q \in Seq(Line)
        BY <4>1 DEF TypeInv, TypeOK
      <4>3. wire'[s][n] = q \o <<m>>
        <5>1. wire'[s][n] = Append(q, m)
          BY <1>4, <3>1, <4>1 DEF ButFor
        <5> QED BY <1>4, <4>2, <5>1
      <4>4. PICK d : d = Made(tables[n], q)
        OBVIOUS
      <4>5. Made(tables[n], q \o <<m>>) = Made(d, <<m>>)
        <5>1. <<m>> \in Seq(Line)
          BY <1>4
        <5> QED BY <4>2, <4>4, <5>1, MadeConcat
      <4>6. Made(d, <<m>>) = d
        BY <1>4, MadeFew DEF Heard
      <4> QED BY <4>1, <4>3, <4>4, <4>5, <4>6
    <3>2. CASE ~(s = p /\ n = starting)
      BY <1>4, <3>2 DEF ButFor
    <3> QED BY <3>1, <3>2
  <2> QED BY <2>1, <2>2, <2>3
<1>9. \A s \in Servers : Agrees(s, l)'
  <2>1. ASSUME NEW s \in Servers PROVE Agrees(s, l)'
    BY <1>1, <1>5, <1>8 DEF Agrees
  <2> QED BY <2>1
<1> QED BY <1>1, <1>6, <1>7, <1>9 DEF Follow

(* The one peer of a server is its next one.                               *)
LEMMA OnlyNext ==
    ASSUME NEW s \in Servers, NEW t \in Servers, server_peers'[s] = {t}
    PROVE  NextOf(s)' = t
<1>1. PICK peers : peers = server_peers'[s]
  OBVIOUS
<1>2. NextOf(s)' = next_server_peer(s, peers)
  BY <1>1 DEF NextOf
<1>3. peers = {t} /\ peers \subseteq Servers
  BY <1>1
<1>4. next_server_peer(s, peers) \in peers
  BY <1>3, NextPeer
<1> QED BY <1>2, <1>3, <1>4

(* While a server starts there are two.                                    *)
LEMMA TwoServers ==
    ASSUME TypeInv, NEW l \in Servers, Reigns(l), Standing(l), Peered,
           starting \in Servers
    PROVE  /\ starting # l /\ Alive(l) /\ Alive(starting)
           /\ server_peers[l] \subseteq {starting} /\ server_peers[starting] \subseteq {l}
           /\ \A s \in Servers \ {l, starting} : server_peers[s] = {}
           /\ \A s \in Servers : Alive(s) <=> s \in {l, starting}
<1>1. starting # None
  BY DataRingAssumption
<1>2. \A s \in Servers : Alive(s) <=> s \in {l, starting}
  BY <1>1 DEF Standing
<1>3. /\ server_peers[starting] \subseteq {l} /\ starting # l
      /\ \A s \in Servers \ {l, starting} : server_peers[s] = {}
  BY <1>1, <1>2 DEF Standing, Reigns, Rules
<1>4. server_peers[l] \subseteq {starting}
  <2>1. server_peers[l] \subseteq Servers
    BY DEF TypeInv, TypeOK
  <2> QED BY <1>2, <2>1 DEF Peered
<1> QED BY <1>2, <1>3, <1>4

(* The server that starts is connected to l: it has nothing to send.       *)
LEMMA ConnectServerPeerFollow ==
    ASSUME TypeInv, NEW l \in Servers, Reigns(l), Standing(l), Follow(l),
           NEW p \in Servers, ConnectServerPeer(p)
    PROVE  Follow(l)'
<1>1. /\ link[p] = "probed" /\ link' = [link EXCEPT ![p] = "connected"]
      /\ Register(starting, p)
  BY DEF ConnectServerPeer
<1>2. PICK j \in Servers : j = starting
  BY <1>1 DEF TypeInv, Linked
<1>3. /\ p = l /\ server_peers[j] = {} /\ historical_state[j] = <<>>
      /\ j # l /\ j \notin server_peers[l] /\ tables[j] = NoData /\ j # None
  BY <1>1, <1>2, DataRingAssumption DEF Standing, Reigns, Rules, Follow, Fresh
<1>4. /\ Alive(l) /\ \A s \in Servers : Alive(s) <=> s \in {l, j}
  BY <1>2, TwoServers DEF Follow
<1>5. PICK w : w = Informed(j, l)
  OBVIOUS
<1>6. /\ w \in Wires /\ ButFor(w, wire, j, l, wire[j][l] \o historical_state[j])
      /\ Passes(j, w, tables[j], <<>>)
      /\ server_peers' \in [Servers -> SUBSET Servers]
      /\ server_peers'[j] = {l}
      /\ \A t \in Servers \ {j} : server_peers'[t] = server_peers[t]
      /\ UNCHANGED <<state, leader, calling, starting, connected>>
  <2>1. Register(j, l)
    BY <1>1, <1>2, <1>3
  <2>2. /\ w \in Wires /\ ButFor(w, wire, j, l, wire[j][l] \o historical_state[j])
        /\ Passes(j, w, tables[j], <<>>)
    BY <1>5, <2>1, RegisterPasses
  <2>3. /\ server_peers' \in [Servers -> SUBSET Servers]
        /\ server_peers'[j] = server_peers[j] \cup {l}
        /\ \A t \in Servers \ {j} : server_peers'[t] = server_peers[t]
        /\ UNCHANGED <<state, leader, calling, starting, connected>>
    BY <2>1, RegisterPasses
  <2> QED BY <1>3, <2>2, <2>3
<1>7. tables' = [tables EXCEPT ![j] = tables[j]] /\ Transmit(j, w, <<>>, <<>>)
  <2>1. Queue(tables[j]) = <<>>
    BY <1>3, FirstTables
  <2> QED BY <1>6, <2>1 DEF Passes
<1>8. \A s, t \in Servers : wire'[s][t] = wire[s][t]
  <2>1. <<>> \in Seq(Update) /\ historical_state \in [Servers -> Seq(Update)]
        /\ wire \in Wires
    BY EmptyIn DEF TypeInv, TypeOK, Wires
  <2>2. Sent(j, w, <<>>, <<>>)
    BY <1>6, <1>7, <2>1, SentOn
  <2>3. ASSUME NEW q \in Seq(Line) PROVE q \o <<>> = q
    OBVIOUS
  <2>4. <<>> \o <<>> = <<>>
    OBVIOUS
  <2>5. Gone(j, <<>>, <<>>) = <<>>
    BY <2>4 DEF Gone
  <2>6. \A s, t \in Servers : w[s][t] = wire[s][t]
    <3>1. wire[j][l] \in Seq(Line)
      BY <2>1 DEF Wires
    <3>2. wire[j][l] \o historical_state[j] = wire[j][l]
      BY <1>3, <2>3, <3>1
    <3> QED BY <1>6, <3>2 DEF ButFor
  <2>7. ASSUME NEW s \in Servers, NEW t \in Servers PROVE wire'[s][t] = w[s][t]
    <3>1. w[s][t] \o <<>> = w[s][t]
      <4>1. w[s][t] \in Seq(Line)
        BY <1>6 DEF Wires
      <4> QED BY <2>3, <4>1
    <3> QED BY <2>2, <2>5, <3>1 DEF Sent
  <2> QED BY <2>6, <2>7
<1>9. /\ \A s \in Servers : tables'[s] = tables[s]
      /\ historical_state'[l] = historical_state[l]
  <2>1. <<>> \in Seq(Update)
    BY EmptyIn
  <2>2. historical_state'[l] = historical_state[l]
    BY <1>3, <1>6, <1>7, <2>1, HistoryOfOthers
  <2> QED BY <1>7, <2>2 DEF TypeInv, TypeOK
<1>10. /\ NextOf(j) = None /\ NextOf(j)' = l
       /\ \A s \in Servers \ {j} : NextOf(s)' = NextOf(s)
  <2>1. NextOf(j) = None
    BY <1>3, NextFacts DEF Follow
  <2>2. NextOf(j)' = l
    BY <1>6, OnlyNext
  <2> QED BY <1>6, <2>1, <2>2 DEF NextOf
<1>11. Whole(l)' /\ Peered' /\ Fresh(l)'
  <2>1. \A s \in Servers : Alive(s)' <=> Alive(s)
    BY <1>6 DEF Alive
  <2>2. Whole(l)'
    BY <1>3, <1>4, <2>1 DEF Whole
  <2>3. Peered'
    BY <1>3, <1>4, <1>6, <2>1 DEF Follow, Peered
  <2>4. Fresh(l)'
    BY <1>2, <1>3, <1>6, <1>9, <2>1 DEF Follow, Fresh
  <2> QED BY <2>2, <2>3, <2>4
<1>12. Passing' /\ Heeds(wire', l, CalmLines)
  <2>1. \A a, b \in Servers : b # NextOf(a)' => wire[a][b] \in Seq(News)
    <3>1. \A b \in Servers : wire[j][b] \in Seq(News)
      BY <1>10, DataRingAssumption DEF Follow, Passing
    <3> QED BY <1>10, <3>1 DEF Follow, Passing
  <2>2. Heeds(wire', l, CalmLines)
    BY <1>8 DEF Follow, Heeds
  <2> QED BY <1>8, <2>1, <2>2 DEF Passing
<1>13. ASSUME NEW s \in Servers PROVE Agrees(s, l)'
  <2>1. CASE s = j
    BY <1>10, <2>1 DEF Agrees
  <2>2. CASE s # j /\ NextOf(s) \notin {None, l}
    <3>1. PICK n \in Servers : n = NextOf(s) /\ n = NextOf(s)'
      BY <1>10, <2>2, NextFacts DEF Follow
    <3>2. Alike(Made(tables[n], wire[s][n]), tables[s])
      BY <2>2, <3>1 DEF Follow, Agrees
    <3>3. Alike(Made(tables'[n], wire'[s][n]), tables'[s])
      BY <1>8, <1>9, <3>2
    <3> QED BY <3>1, <3>3 DEF Agrees
  <2>3. CASE s # j /\ NextOf(s) \in {None, l}
    BY <1>10, <2>3 DEF Agrees
  <2> QED BY <2>1, <2>2, <2>3
<1>14. Priced(tables[l], connected[l])' /\ Alike(Made(NoData, historical_state[l]), tables[l])'
  BY <1>6, <1>9 DEF Follow
<1> QED BY <1>11, <1>12, <1>13, <1>14 DEF Follow

(* The history of l makes nothing what its tables are; it comes after lines*)
(* that say nothing, and before some about the queue.                      *)
LEMMA Caught ==
    ASSUME NEW news \in Seq(News), NEW history \in Seq(Line), NEW d \in Tables,
           Alike(Made(NoData, history), d), NEW e, SameButQueue(d, e),
           NEW direct \in Seq(Update), Quiet(direct)
    PROVE  Alike(Made(NoData, (news \o history) \o direct), e)
<1>1. news \in Seq(Line) /\ direct \in Seq(Line)
  BY DEF News, Line
<1>2. NoData \in Tables
  BY FirstTables
<1>3. PICK u : u = Made(NoData, news)
  OBVIOUS
<1>4. u \in Tables /\ Alike(u, NoData)
  <2>1. \A k \in DOMAIN news : Calm(news[k])
    BY DEF News, Calm
  <2> QED BY <1>1, <1>2, <1>3, <2>1, MadeCalm
<1>5. PICK v : v = Made(u, history)
  OBVIOUS
<1>6. v \in Tables /\ Alike(v, d)
  <2>1. v \in Tables /\ Alike(v, Made(NoData, history))
    BY <1>2, <1>4, <1>5, MadeAlike
  <2> QED BY <2>1, AlikeFacts
<1>7. Alike(v, e)
  <2>1. Alike(d, e)
    BY QueueAlike
  <2> QED BY <1>6, <2>1, AlikeFacts
<1>8. Alike(Made(v, direct), e)
  <2>1. Says(e, direct, e)
    BY QuietSays
  <2> QED BY <1>6, <1>7, <2>1 DEF Says
<1>9. PICK q : q = news \o history
  OBVIOUS
<1>10. q \in Seq(Line) /\ Made(NoData, q) = v
  BY <1>1, <1>3, <1>5, <1>9, MadeConcat
<1>11. Made(NoData, q \o direct) = Made(v, direct)
  BY <1>1, <1>10, MadeConcat
<1> QED BY <1>8, <1>9, <1>11

(* The server that starts is sent the history of l.                        *)
LEMMA CreateServerPeerFollow ==
    ASSUME TypeInv, NEW l \in Servers, Reigns(l), Standing(l), Follow(l),
           NEW p \in Servers, CreateServerPeer(p)
    PROVE  Follow(l)'
<1>1. /\ link[p] = "connected" /\ link' = [link EXCEPT ![p] = "asked"]
      /\ Register(p, starting)
  BY DEF CreateServerPeer
<1>2. PICK j \in Servers : j = starting
  BY <1>1 DEF TypeInv, Linked
<1>3. /\ p = l /\ j # l /\ j \notin server_peers[l] /\ tables[j] = NoData /\ j # None
      /\ link' = [link EXCEPT ![l] = "asked"]
  <2>1. p = l
    BY <1>1 DEF Standing
  <2>2. j # l
    BY <1>2 DEF Reigns, Rules
  <2>3. j # None
    BY DataRingAssumption
  <2>4. j \notin server_peers[l] /\ tables[j] = NoData
    BY <1>1, <1>2, <2>1, <2>3 DEF Follow, Fresh
  <2> QED BY <1>1, <2>1, <2>2, <2>3, <2>4
<1>4. /\ Alive(l) /\ \A s \in Servers : Alive(s) <=> s \in {l, j}
      /\ server_peers[l] = {} /\ server_peers[j] \subseteq {l}
      /\ \A s \in Servers \ {l, j} : server_peers[s] = {}
  BY <1>2, <1>3, TwoServers DEF Follow
<1>5. PICK w : w = Informed(l, j)
  OBVIOUS
<1>6. /\ w \in Wires /\ ButFor(w, wire, l, j, wire[l][j] \o historical_state[l])
      /\ historical_state[l] \in Seq(Line)
      /\ Passes(l, w, tables[l], <<>>)
      /\ server_peers' \in [Servers -> SUBSET Servers]
      /\ server_peers'[l] = {j}
      /\ \A t \in Servers \ {l} : server_peers'[t] = server_peers[t]
      /\ UNCHANGED <<state, leader, starting, connected>>
  BY <1>1, <1>2, <1>3, <1>4, <1>5, RegisterPasses
<1>7. PICK e \in Tables, direct \in Seq(Update) :
        /\ tables' = [tables EXCEPT ![l] = e]
        /\ Transmit(l, w, <<>>, direct)
        /\ SameButQueue(tables[l], e) /\ Quiet(direct)
  BY <1>6 DEF Passes
<1>8. /\ NextOf(l) = None /\ NextOf(l)' = j
      /\ \A s \in Servers \ {l} : NextOf(s)' = NextOf(s) /\ NextOf(s) \in {None, l}
  <2>1. NextOf(l) = None
    BY <1>4, NextFacts DEF Follow
  <2>2. NextOf(l)' = j
    BY <1>6, OnlyNext
  <2>3. \A s \in Servers \ {l} : NextOf(s)' = NextOf(s)
    BY <1>6 DEF NextOf
  <2>4. \A s \in Servers \ {l} : NextOf(s) \in {None, l}
    BY <1>4, NextFacts DEF Follow
  <2> QED BY <2>1, <2>2, <2>3, <2>4
<1>9. /\ wire'[l][j] = (wire[l][j] \o historical_state[l]) \o direct
      /\ \A s, t \in Servers : s # l \/ t # j => wire'[s][t] = wire[s][t]
  <2>1. <<>> \in Seq(Update) /\ historical_state \in [Servers -> Seq(Update)]
    BY EmptyIn DEF TypeInv, TypeOK
  <2>2. Sent(l, w, <<>>, direct)
    BY <1>6, <1>7, <2>1, SentOn
  <2>3. <<>> \o direct = direct
    OBVIOUS
  <2>4. Gone(l, <<>>, direct) = direct
    BY <2>3 DEF Gone
  <2>5. Alive(j)
    BY <1>4
  <2>6. \A s, t \in Servers : wire'[s][t] = IF s = l /\ t = j THEN w[s][t] \o direct
                                            ELSE w[s][t]
    BY <1>8, <2>2, <2>4, <2>5 DEF Sent
  <2>7. \A s, t \in Servers : w[s][t] = IF s = l /\ t = j
                                         THEN wire[l][j] \o historical_state[l]
                                         ELSE wire[s][t]
    BY <1>6 DEF ButFor
  <2>8. wire'[l][j] = w[l][j] \o direct /\ w[l][j] = wire[l][j] \o historical_state[l]
    BY <2>6, <2>7
  <2>9. \A s, t \in Servers : s # l \/ t # j => wire'[s][t] = wire[s][t]
    <3> HIDE <2>8
    <3> QED BY <2>6, <2>7
  <2> QED BY <2>8, <2>9
<1>10. tables'[l] = e /\ \A s \in Servers \ {l} : tables'[s] = tables[s]
  BY <1>7 DEF TypeInv, TypeOK
<1>11. Whole(l)' /\ Peered' /\ Fresh(l)'
  <2>1. \A s \in Servers : Alive(s)' <=> Alive(s)
    BY <1>6 DEF Alive
  <2>2. Whole(l)'
    BY <1>3, <1>4, <2>1 DEF Whole
  <2>3. Peered'
    BY <1>3, <1>4, <1>6, <2>1 DEF Follow, Peered
  <2>4. link'[l] = "asked"
    BY <1>3 DEF TypeInv, TypeOK
  <2>5. Fresh(l)'
    BY <1>2, <1>4, <1>6, <1>10, <2>1, <2>4 DEF Follow, Fresh
  <2> QED BY <2>2, <2>3, <2>5
<1>12. Passing' /\ Heeds(wire', l, CalmLines)
  <2>1. ASSUME NEW a \in Servers, NEW b \in Servers, b # NextOf(a)'
        PROVE  wire'[a][b] \in Seq(News)
    <3>1. b # NextOf(a)
      BY <1>8, <2>1, DataRingAssumption
    <3>2. wire[a][b] \in Seq(News)
      BY <3>1 DEF Follow, Passing
    <3>3. wire'[a][b] = wire[a][b]
      BY <1>8, <1>9, <2>1
    <3> QED BY <3>2, <3>3
  <2>2. Heeds(wire', l, CalmLines)
    BY <1>3, <1>9 DEF Follow, Heeds
  <2> QED BY <2>1, <2>2 DEF Passing
<1>13. \A s \in Servers : Agrees(s, l)'
  <2>1. Alike(Made(tables'[j], wire'[l][j]), tables'[l])
    <3>1. PICK news : news = wire[l][j]
      OBVIOUS
    <3>2. PICK history : history = historical_state[l]
      OBVIOUS
    <3>3. PICK d : d = tables[l]
      OBVIOUS
    <3>4. news \in Seq(News)
      BY <1>3, <1>8, <3>1 DEF Follow, Passing
    <3>5. history \in Seq(Line) /\ d \in Tables /\ Alike(Made(NoData, history), d)
      BY <1>6, <3>2, <3>3 DEF Follow, TypeInv, TypeOK
    <3>6. Alike(Made(NoData, (news \o history) \o direct), e)
      BY <1>7, <3>3, <3>4, <3>5, Caught
    <3>7. wire'[l][j] = (news \o history) \o direct /\ tables'[j] = NoData
      BY <1>3, <1>9, <1>10, <3>1, <3>2
    <3> QED BY <1>10, <3>6, <3>7
  <2>2. Agrees(l, l)'
    BY <1>8, <2>1 DEF Agrees
  <2>3. \A s \in Servers \ {l} : Agrees(s, l)'
    BY <1>8 DEF Agrees
  <2> QED BY <2>2, <2>3
<1>14. Priced(tables[l], connected[l])'
  <2>1. Priced(tables[l], connected[l])
    BY DEF Follow
  <2>2. Priced(e, connected[l])
    BY <1>7, <2>1, QueueAlike
  <2> QED BY <1>6, <1>10, <2>2
<1>15. Alike(Made(NoData, historical_state[l]), tables[l])'
  <2>1. Says(tables[l], <<>>, e)
    BY <1>7, QueueAlike, SaysNone
  <2>2. <<>> \in Seq(Update)
    BY EmptyIn
  <2> QED BY <1>6, <1>7, <2>1, <2>2, HistoryAgrees
<1> QED BY <1>11, <1>12, <1>13, <1>14, <1>15 DEF Follow

----------------------------------------------------------------------------
(* At first.                                                               *)

(* The tables of servers that know the clients, field by field.            *)
LEMMA KnownFields ==
    ASSUME NEW known, known \subseteq Riders \cup Restaurants \cup {Gateway}
    PROVE  /\ KnownTables(known) \in Tables
           /\ \A c \in Customers : KnownTables(known).customers[c] = None
           /\ KnownTables(known).riders = Riders \cap known
           /\ \A x \in Restaurants : KnownTables(known).restaurants[x] # None <=> x \in known
           /\ KnownTables(known).payment_system_port = (Gateway \in known)
           /\ \A k \in Customers \cup Riders : KnownTables(known).orders_in_process[k] = None
<1>1. {} # None
  <2>1. {} \in SUBSET [customer : Customers, price : Prices]
    OBVIOUS
  <2> QED BY <2>1, NoneApart, Zenon
<1>2. PICK C : C = [c \in Customers |-> None]
  OBVIOUS
<1>3. PICK O : O = [k \in Customers \cup Riders |-> None]
  OBVIOUS
<1>4. PICK R : R = Riders \cap known
  OBVIOUS
<1>5. PICK X : X = [x \in Restaurants |-> IF x \in known THEN {} ELSE None]
  OBVIOUS
<1>6. PICK g : g = (Gateway \in known)
  OBVIOUS
<1>7. KnownTables(known) = [customers |-> C, riders |-> R, restaurants |-> X,
                            payment_system_port |-> g, orders_in_process |-> O,
                            pending_delivery_requests |-> <<>>]
  BY <1>2, <1>3, <1>4, <1>5, <1>6, KnownIs, Zenon
<1>8. /\ KnownTables(known).customers = C /\ KnownTables(known).riders = R
      /\ KnownTables(known).restaurants = X /\ KnownTables(known).payment_system_port = g
      /\ KnownTables(known).orders_in_process = O
  BY <1>7
<1>9. \A c \in Customers : C[c] = None
  BY <1>2
<1>10. \A x \in Restaurants : X[x] # None <=> x \in known
  BY <1>1, <1>5
<1>11. \A k \in Customers \cup Riders : O[k] = None
  BY <1>3
<1>12. KnownTables(known).payment_system_port = (Gateway \in known)
  BY <1>6, <1>8, Zenon
<1>13. KnownTables(known) \in Tables
  BY FirstTables
<1> QED BY <1>4, <1>8, <1>9, <1>10, <1>11, <1>12, <1>13, Zenon

(* The update that stands for a client makes it known.                     *)
LEMMA KnownOneMore ==
    ASSUME NEW known, known \subseteq Riders \cup Restaurants \cup {Gateway},
           NEW cl \in Riders \cup Restaurants \cup {Gateway}
    PROVE  Alike(Heard(KnownTables(known), UpdateFor(cl)), KnownTables(known \cup {cl}))
<1>1. PICK d : d = KnownTables(known)
  OBVIOUS
<1>2. PICK more : more = known \cup {cl}
  OBVIOUS
<1>3. PICK e : e = KnownTables(more)
  OBVIOUS
<1>4. PICK m : m = UpdateFor(cl)
  OBVIOUS
<1>5. PICK u : u = Updated(d, m)
  OBVIOUS
<1>6. /\ d \in Tables
      /\ \A c \in Customers : d.customers[c] = None /\ d.orders_in_process[c] = None
      /\ d.riders = Riders \cap known
      /\ \A x \in Restaurants : d.restaurants[x] # None <=> x \in known
  BY <1>1, KnownFields
<1>7. /\ e \in Tables
      /\ \A c \in Customers : e.customers[c] = None /\ e.orders_in_process[c] = None
      /\ e.riders = Riders \cap more
      /\ \A x \in Restaurants : e.restaurants[x] # None <=> x \in more
  <2>1. more \subseteq Riders \cup Restaurants \cup {Gateway}
    BY <1>2
  <2> QED BY <1>3, <2>1, KnownFields
<1>8. d.payment_system_port = (Gateway \in known)
  BY <1>1, KnownFields, Zenon
<1>9. e.payment_system_port = (Gateway \in more)
  <2>1. more \subseteq Riders \cup Restaurants \cup {Gateway}
    BY <1>2
  <2> QED BY <1>3, <2>1, KnownFields, Zenon
<1>10. /\ m \in Update /\ cl \in Riders => m = [type |-> "UpdateRider", rider |-> cl]
       /\ cl \in Restaurants => m = [type |-> "UpdateRestaurant", restaurant |-> cl,
                                     pending_orders |-> {}]
       /\ cl = Gateway => m = [type |-> "UpdatePaymentSystem"]
  BY <1>4, FirstUpdates
<1>11. /\ cl \in Riders => m.type = "UpdateRider" /\ m.rider = cl
       /\ cl \in Restaurants => /\ m.type = "UpdateRestaurant" /\ m.restaurant = cl
                                /\ m.pending_orders = {}
       /\ cl = Gateway => m.type = "UpdatePaymentSystem"
       /\ m \in Update
  <2>1. m \in Update
    BY <1>4, FirstUpdates
  <2> QED BY <1>10, <2>1
<1>12. /\ cl \in Riders => cl \notin Restaurants /\ cl # Gateway
       /\ cl \in Restaurants => cl # Gateway /\ cl \notin Riders
       /\ cl = Gateway => cl \notin Riders \cup Restaurants
  BY DataRingAssumption
<1>13. u.customers = d.customers /\ u.orders_in_process = d.orders_in_process
  BY <1>5, <1>6, <1>11, UpdatedFields
<1>14. u.riders = Riders \cap more
  <2>1. u.riders = IF m.type = "UpdateRider" THEN d.riders \cup {m.rider} ELSE d.riders
    BY <1>5, <1>6, <1>11, UpdatedFields
  <2> QED BY <1>2, <1>6, <1>11, <1>12, <2>1
<1>15. \A x \in Restaurants : u.restaurants[x] # None <=> x \in more
  <2>1. CASE cl \in Restaurants
    <3>1. {} # None
      <4>1. {} \in SUBSET [customer : Customers, price : Prices]
        OBVIOUS
      <4> QED BY <4>1, NoneApart, Zenon
    <3>2. u.restaurants = [d.restaurants EXCEPT ![cl] = {}]
      <4>1. u.restaurants = IF m.type = "UpdateRestaurant"
                            THEN [d.restaurants EXCEPT ![m.restaurant] =
                                     IF d.restaurants[m.restaurant] = None THEN {}
                                     ELSE m.pending_orders]
                            ELSE d.restaurants
        BY <1>5, <1>6, <1>11, UpdatedFields
      <4> QED BY <1>11, <2>1, <4>1
    <3>3. d.restaurants \in [Restaurants -> Restaurant]
      BY <1>6, TablesFields
    <3> QED BY <1>2, <1>6, <2>1, <3>1, <3>2, <3>3
  <2>2. CASE cl \notin Restaurants
    <3>1. u.restaurants = d.restaurants
      BY <1>5, <1>6, <1>11, <2>2, UpdatedFields
    <3> QED BY <1>2, <1>6, <2>2, <3>1
  <2> QED BY <2>1, <2>2
<1>16. u.payment_system_port = (Gateway \in more)
  <2>1. CASE cl = Gateway
    <3>1. u.payment_system_port = TRUE
      BY <1>5, <1>6, <1>11, <2>1, UpdatedFields
    <3>2. Gateway \in more
      BY <1>2, <2>1
    <3> QED BY <3>1, <3>2
  <2>2. CASE cl # Gateway
    <3>1. u.payment_system_port = d.payment_system_port
      BY <1>5, <1>6, <1>11, <2>2, UpdatedFields
    <3>2. (Gateway \in more) = (Gateway \in known)
      BY <1>2, <2>2
    <3> QED BY <1>8, <3>1, <3>2, Zenon
  <2> QED BY <2>1, <2>2
<1>17. u.payment_system_port = e.payment_system_port
  BY <1>9, <1>16, Zenon
<1>18. Alike(u, e)
  BY <1>6, <1>7, <1>13, <1>14, <1>15, <1>17 DEF Alike
<1>19. Heard(d, m) = u
  <2>1. IsUpdate(m)
    BY <1>11, UpdateFields DEF IsUpdate
  <2> QED BY <1>5, <2>1 DEF Heard
<1>20. Heard(KnownTables(known), UpdateFor(cl)) = u
  BY <1>1, <1>4, <1>19
<1>21. KnownTables(known \cup {cl}) = e
  BY <1>2, <1>3
<1> QED BY <1>18, <1>20, <1>21

(* The history at first makes the tables at first.                         *)
LEMMA FirstMade ==
    ASSUME NEW known, IsFiniteSet(known),
           known \subseteq Riders \cup Restaurants \cup {Gateway}
    PROVE  Alike(Made(NoData, FirstHistory(known)), KnownTables(known))
<1>1. PICK q : q = SetToSeq(known)
  OBVIOUS
<1>2. PICK h : h = FirstHistory(known)
  OBVIOUS
<1>3. /\ q \in Seq(known) /\ Len(h) = Len(q)
      /\ \A x \in known : \E i \in 1 .. Len(q) : q[i] = x
  BY <1>1, <1>2, FirstHistoryType
<1>4. h \in Seq(Line)
  <2>1. h \in Seq(Update)
    BY <1>2, FirstHistoryType
  <2> QED BY <2>1 DEF Line
<1>5. Len(q) \in Nat /\ \A k \in 1 .. Len(q) : q[k] \in known
  BY <1>3
<1>6. \A k \in 1 .. Len(q) : h[k] = UpdateFor(q[k])
  BY <1>1, <1>2, <1>5 DEF FirstHistory
<1>7. PICK f : Steps(f, NoData, h)
  BY <1>4, StepsExist
<1>8. \A k \in 1 .. Len(q) : f[k] = Heard(f[k - 1], h[k])
  BY <1>3, <1>7 DEF Steps
<1> DEFINE Seen(n) == {q[i] : i \in 1 .. n}
           Same(n) == f[n] \in Tables /\ Alike(f[n], KnownTables(Seen(n)))
           S == {n \in Nat : n <= Len(q) => Same(n)}
<1>9. ASSUME NEW n \in Nat, n <= Len(q) PROVE Seen(n) \subseteq known
  <2>1. \A i \in 1 .. n : i \in 1 .. Len(q)
    BY <1>5, <1>9
  <2> QED BY <1>5, <2>1
<1>10. 0 \in S
  <2>1. Seen(0) = {}
    OBVIOUS
  <2>2. PICK none : none = {}
    OBVIOUS
  <2>3. Alike(NoData, KnownTables(none))
    <3>1. KnownTables(none) = NoData
      <4>1. PICK C : C = [c \in Customers |-> None]
        OBVIOUS
      <4>2. PICK O : O = [k \in Customers \cup Riders |-> None]
        OBVIOUS
      <4>3. PICK X : X = [x \in Restaurants |-> None]
        OBVIOUS
      <4>4. X = [x \in Restaurants |-> IF x \in none THEN {} ELSE None]
        BY <2>2, <4>3
      <4>5. Riders \cap none = {} /\ (Gateway \in none) = FALSE
        BY <2>2
      <4> QED BY <4>1, <4>2, <4>3, <4>4, <4>5, KnownIs, Zenon DEF NoData
    <3> QED BY <3>1 DEF Alike
  <2>4. f[0] = NoData /\ NoData \in Tables
    BY <1>7, FirstTables DEF Steps
  <2>5. Same(0)
    BY <2>1, <2>2, <2>3, <2>4
  <2> QED BY <2>5
<1>11. ASSUME NEW n \in Nat, n \in S PROVE n + 1 \in S
  <2> SUFFICES ASSUME n + 1 <= Len(q) PROVE Same(n + 1)
    OBVIOUS
  <2>1. n <= Len(q) /\ n + 1 \in 1 .. Len(q) /\ n + 1 - 1 = n
    BY <1>5
  <2>2. Same(n)
    BY <1>11, <2>1
  <2>3. PICK cl : cl = q[n + 1]
    OBVIOUS
  <2>4. PICK m : m = UpdateFor(cl)
    OBVIOUS
  <2>5. PICK seen : seen = Seen(n)
    OBVIOUS
  <2>6. seen \subseteq Riders \cup Restaurants \cup {Gateway}
        /\ cl \in Riders \cup Restaurants \cup {Gateway}
    BY <1>5, <1>9, <2>1, <2>3, <2>5
  <2>7. Seen(n + 1) = seen \cup {cl}
    <3>1. \A i : i \in 1 .. n + 1 <=> i \in 1 .. n \/ i = n + 1
      OBVIOUS
    <3> QED BY <2>3, <2>5, <3>1
  <2>8. f[n + 1] = Heard(f[n], m)
    <3>1. f[n + 1] = Heard(f[n + 1 - 1], h[n + 1])
      BY <1>8, <2>1
    <3>2. h[n + 1] = m
      BY <1>6, <2>1, <2>3, <2>4
    <3> QED BY <2>1, <3>1, <3>2
  <2>9. m \in Line
    BY <2>4, <2>6, FirstUpdates DEF Line
  <2>10. PICK d : d = KnownTables(seen)
    OBVIOUS
  <2>11. d \in Tables /\ f[n] \in Tables /\ Alike(f[n], d)
    BY <2>2, <2>5, <2>6, <2>10, FirstTables
  <2>12. f[n + 1] \in Tables /\ Alike(f[n + 1], Heard(d, m))
    BY <2>8, <2>9, <2>11, HeardAlike
  <2>13. Alike(Heard(d, m), KnownTables(seen \cup {cl}))
    <3>1. Alike(Heard(KnownTables(seen), UpdateFor(cl)), KnownTables(seen \cup {cl}))
      BY <2>6, KnownOneMore
    <3> QED BY <2>4, <2>10, <3>1, Zenon
  <2>14. Alike(f[n + 1], KnownTables(seen \cup {cl}))
    BY <2>12, <2>13, AlikeFacts
  <2> QED BY <2>7, <2>12, <2>14
<1>12. Seen(Len(q)) = known
  BY <1>3, <1>5
<1> HIDE DEF S
<1>13. Nat \subseteq S
  BY <1>10, <1>11, NatsIn
<1>14. Same(Len(q))
  BY <1>5, <1>13 DEF S
<1>15. Made(NoData, h) = f[Len(h)]
  BY <1>4, <1>7, MadeIs
<1>16. Alike(Made(NoData, h), KnownTables(known))
  BY <1>3, <1>12, <1>14, <1>15
<1> QED BY <1>2, <1>16

(* At first all have the same, and nothing is on its way.                  *)
LEMMA BeginsFollow ==
    ASSUME NEW S, NEW l, NEW known, Begins(S, l, known)
    PROVE  Follow(l)
<1>1. /\ S \subseteq Servers /\ l \in S /\ IsFiniteSet(known)
      /\ known \subseteq Riders \cup Restaurants \cup {Gateway}
      /\ \A s \in Servers : /\ Alive(s) <=> s \in S
                            /\ server_peers[s] = IF s \in S THEN S \ {s} ELSE {}
                            /\ leader[s] = IF s \in S THEN l ELSE None
                            /\ link[s] = "none"
      /\ starting = None
  BY DEF Begins, Alive
<1>2. /\ \A s \in Servers : tables[s] = IF s \in S THEN KnownTables(known) ELSE NoData
      /\ historical_state[l] = FirstHistory(known)
      /\ \A s, t \in Servers : wire[s][t] = <<>>
  BY <1>1 DEF Begins
<1>3. Whole(l) /\ Peered /\ Fresh(l)
  <2>1. Whole(l)
    BY <1>1 DEF Whole
  <2>2. Peered
    BY <1>1 DEF Peered
  <2>3. Fresh(l)
    BY <1>1, <1>2 DEF Fresh
  <2> QED BY <2>1, <2>2, <2>3
<1>4. Passing /\ Heeds(wire, l, CalmLines)
  <2>1. <<>> \in Seq(News) /\ <<>> \in Seq(CalmLines)
    BY EmptyIn
  <2>2. \A s, t \in Servers : wire[s][t] = <<>>
    BY <1>2
  <2>3. l \in Servers
    BY <1>1
  <2> QED BY <2>1, <2>2, <2>3 DEF Passing, Heeds
<1>5. Priced(tables[l], connected[l])
  <2>1. \A c \in Customers : tables[l].orders_in_process[c] = None
    BY <1>1, <1>2, KnownFields
  <2> QED BY <2>1 DEF Priced
<1>6. Alike(Made(NoData, historical_state[l]), tables[l])
  BY <1>1, <1>2, FirstMade
<1>7. ASSUME NEW p \in Servers, NextOf(p) \notin {None, l}
      PROVE  Alike(Made(tables[NextOf(p)], wire[p][NextOf(p)]), tables[p])
  <2>1. PICK peers : peers = server_peers[p]
    OBVIOUS
  <2>2. NextOf(p) = next_server_peer(p, peers) /\ peers \subseteq Servers
    BY <1>1, <2>1 DEF NextOf
  <2>3. peers # {} /\ NextOf(p) \in peers
    BY <1>7, <2>2, NextPeer
  <2>4. PICK n : n = NextOf(p)
    OBVIOUS
  <2>5. n \in S /\ p \in S
    BY <1>1, <2>1, <2>3, <2>4
  <2>6. wire[p][n] = <<>> /\ tables[n] = tables[p]
    BY <1>1, <1>2, <2>5
  <2>7. Alike(Made(tables[n], wire[p][n]), tables[p])
    BY <2>6, MadeFew DEF Alike
  <2> QED BY <2>4, <2>7
<1> QED BY <1>3, <1>4, <1>5, <1>6, <1>7 DEF Follow, Agrees

----------------------------------------------------------------------------
(* Each step lets the replicas follow.                                     *)
LEMMA FollowStep ==
    ASSUME TypeInv, NEW l \in Servers, Reigns(l), Rounds(l), Follow(l), [Next]_vars,
           faults' \subseteq {"join"}
    PROVE  Follow(l)'
<1>1. ASSUME NEW s \in Servers, ClientMessage(s) PROVE Follow(l)'
  <2>1. s = l
    BY <1>1, ClientHere
  <2>2. Standing(l)
    BY DEF Rounds
  <2> QED BY <1>1, <2>1, <2>2, ClientTurns, ClientTurnFollow, OffersFollow, NoPanic
<1>2. ASSUME NEW s \in Servers, PeerMessage(s) PROVE Follow(l)'
  <2>1. Standing(l)
    BY DEF Rounds
  <2> QED BY <1>2, <2>1, ReceiveUpdateFollow, GotLeaderFollow, NotOvertaken, NotDisconnected
          DEF PeerMessage
<1>3. CASE Join
  <2>1. Standing(l) /\ "second join" \notin faults'
    BY DEF Rounds
  <2> QED BY <1>3, <2>1, StartFollow, IsPeerConnectedFollow, ConnectServerPeerFollow,
             CreateServerPeerFollow, SendLeaderFollow, InitLeaderFollow DEF Join
<1>4. ASSUME NEW s \in Servers, Crash(s) PROVE FALSE
  BY <1>4 DEF Crash
<1>5. CASE UNCHANGED vars
  <2>1. UNCHANGED <<state, server_peers, leader, starting, link, tables,
                    historical_state, wire, connected>>
    BY <1>5 DEF vars, serverVars
  <2>2. \A p \in Servers : NextOf(p)' = NextOf(p) /\ (Alive(p)' <=> Alive(p))
    BY <2>1 DEF NextOf, Alive
  <2>3. \A p \in Servers : Agrees(p, l)'
    BY <2>1, <2>2 DEF Follow, Agrees
  <2>4. Whole(l)' /\ Peered' /\ Fresh(l)' /\ Passing'
    BY <2>1, <2>2 DEF Follow, Whole, Peered, Fresh, Passing
  <2> QED BY <2>1, <2>3, <2>4 DEF Follow
<1> QED BY <1>1, <1>2, <1>3, <1>4, <1>5, NotTakenOver DEF Next

(* They follow at first.                                                   *)
LEMMA InitFollow == Init => FollowInv
<1> SUFFICES ASSUME Init PROVE FollowInv
  OBVIOUS
<1>1. PICK S, l, known : Begins(S, l, known)
  BY InitBegins
<1>2. l \in Servers /\ Reigns(l) /\ Follow(l)
  BY <1>1, BeginsLed, BeginsFollow
<1>3. faults = {}
  BY <1>1 DEF Begins
<1>4. Rounds(l)
  <2>1. PICK k \in Servers : Reigns(k) /\ Rounds(k)
    BY <1>3, InitRounds DEF RoundInv
  <2>2. k = l
    BY <1>2, <2>1, DataRingAssumption DEF Reigns, Rules
  <2> QED BY <2>1, <2>2
<1> QED BY <1>2, <1>4 DEF FollowInv

(* They go on to follow.                                                   *)
LEMMA FollowKept == TypeInv /\ FollowInv /\ [Next]_vars => FollowInv'
<1> SUFFICES ASSUME TypeInv, FollowInv, [Next]_vars, faults' \subseteq {"join"}
             PROVE  \E l \in Servers : Reigns(l)' /\ Rounds(l)' /\ Follow(l)'
  BY DEF FollowInv
<1>1. /\ faults \subseteq {"join"} /\ "leader crash" \notin faults'
      /\ faults' \subseteq {"join", "stray"}
  BY FaultsStay
<1>2. PICK l \in Servers : Reigns(l) /\ Rounds(l) /\ Follow(l)
  BY <1>1 DEF FollowInv
<1>3. Reigns(l)'
  BY <1>1, <1>2, LeadStep
<1>4. Rounds(l)'
  BY <1>1, <1>2, RoundStep
<1>5. Follow(l)'
  BY <1>2, FollowStep
<1> QED BY <1>3, <1>4, <1>5

(* While no server is lost, none joins two others, and no rider accepts an *)
(* order that is not to be had, a replica that has handled what is on its  *)
(* way has the tables of the server before it: also one that has just been *)
(* sent the history.                                                       *)
THEOREM ReplicasAgree == Spec => []ReplicasFollow
<1>1. TypeInv /\ FollowInv => ReplicasFollow
  <2> SUFFICES ASSUME TypeInv, FollowInv, faults \subseteq {"join"}, NEW s \in Servers,
                      Managing(s), NextOf(s) # None, GoesOn(s, NextOf(s))
               PROVE  Shared(Made(tables[NextOf(s)], wire[s][NextOf(s)]))
                      = Shared(tables[s])
    BY DEF ReplicasFollow, NextOf
  <2>1. PICK l \in Servers : Reigns(l) /\ Rounds(l) /\ Follow(l)
    BY DEF FollowInv
  <2>2. NextOf(s) # l
    <3>1. leader[s] \in {l, None}
      BY <2>1 DEF Reigns, Rules
    <3> QED BY <3>1 DEF GoesOn
  <2>3. Alike(Made(tables[NextOf(s)], wire[s][NextOf(s)]), tables[s])
    BY <2>1, <2>2 DEF Follow, Agrees
  <2> QED BY <2>3, SharedAlike
<1> QED BY <1>1, InitType, StepType, InitFollow, FollowKept, PTL DEF Spec
=============================================================================
